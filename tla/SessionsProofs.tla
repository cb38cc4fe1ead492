---------------------------- MODULE SessionsProofs ----------------------------
(***************************************************************************)
(* Proofs about Sessions, for any sessions, names, uids and nicknames and  *)
(* up to 999 windows: the three properties of the run sessions and the     *)
(* types.  An operator of Sessions is a function from a state to a state,  *)
(* so each has a lemma ...Keeps: it leads from a sound state to a sound    *)
(* one, and keeps what SessionFollowsWindow needs.  Lemmas ...Facts say    *)
(* what the helpers return.  Conclusions with many parts are operators, of *)
(* the state before and the state after, so that a step can cite them.     *)
(***************************************************************************)
EXTENDS Sessions, FiniteSetTheorems, SequenceTheorems, WellFoundedInduction, TLAPS

-----------------------------------------------------------------------------
(* Numbers and sequences. *)

LEMMA SmallestOf ==
  ASSUME NEW S \in SUBSET Nat, S # {}
  PROVE  \E x \in S : \A y \in S : x <= y
<1>1. IsWellFoundedOn(OpToRel(<, Nat), Nat)
  BY NatLessThanWellFounded
<1>2. PICK x \in S : \A y \in S : ~(<<y, x>> \in OpToRel(<, Nat))
  BY <1>1, WFMin
<1>3. \A y \in S : x <= y
  <2> SUFFICES ASSUME NEW y \in S PROVE x <= y
    OBVIOUS
  <2>1. ~(<<y, x>> \in OpToRel(<, Nat))
    BY <1>2
  <2>2. x \in Nat /\ y \in Nat
    OBVIOUS
  <2>3. y < x => <<y, x>> \in OpToRel(<, Nat)
    BY <2>2, Zenon DEF OpToRel
  <2>4. ~(y < x)
    BY <2>1, <2>3, Zenon
  <2> QED BY <2>2, <2>4
<1> QED BY <1>3

LEMMA SetOf ==
    ASSUME NEW S, NEW s \in Seq(S)
    PROVE  /\ Len(s) \in Nat /\ ToSet(s) \subseteq S
           /\ \A x : x \in ToSet(s) <=> \E i \in 1..Len(s) : s[i] = x
           /\ IsInjective(s) <=> \A i, j \in 1..Len(s) : s[i] = s[j] => i = j
<1>1. Len(s) \in Nat /\ DOMAIN s = 1..Len(s) /\ \A i \in 1..Len(s) : s[i] \in S
  OBVIOUS
<1>2. \A x : x \in ToSet(s) <=> \E i \in 1..Len(s) : s[i] = x
  BY <1>1, Zenon DEF ToSet
<1>3. ToSet(s) \subseteq S
  BY <1>1, <1>2
<1>4. IsInjective(s) <=> \A i, j \in 1..Len(s) : s[i] = s[j] => i = j
  BY <1>1, Zenon DEF IsInjective
<1> QED BY <1>1, <1>2, <1>3, <1>4

LEMMA ConcatFacts ==
    ASSUME NEW S, NEW s \in Seq(S), NEW t \in Seq(S)
    PROVE  /\ s \o t \in Seq(S) /\ Len(s \o t) = Len(s) + Len(t)
           /\ \A i \in 1..Len(s) : (s \o t)[i] = s[i]
           /\ \A i \in 1..Len(t) : (s \o t)[Len(s) + i] = t[i]
<1>1. /\ s \o t \in Seq(S) /\ Len(s \o t) = Len(s) + Len(t)
      /\ \A i \in 1..Len(s) + Len(t) :
           (s \o t)[i] = IF i <= Len(s) THEN s[i] ELSE t[i - Len(s)]
  BY ConcatProperties
<1>2. Len(s) \in Nat /\ Len(t) \in Nat
  OBVIOUS
<1> QED BY <1>1, <1>2

LEMMA RemoveAtFacts ==
    ASSUME NEW S, NEW s \in Seq(S), NEW i \in 1..Len(s)
    PROVE  /\ RemoveAt(s, i) \in Seq(S) /\ Len(RemoveAt(s, i)) = Len(s) - 1
           /\ \A k \in 1..i - 1 : RemoveAt(s, i)[k] = s[k]
           /\ \A k \in i..Len(s) - 1 : RemoveAt(s, i)[k] = s[k + 1]
<1>1. Len(s) \in Nat /\ \A k \in 1..Len(s) : s[k] \in S
  OBVIOUS
<1>a. LET a == SubSeq(s, 1, i - 1)
      IN  a \in Seq(S) /\ Len(a) = i - 1 /\ \A k \in 1..i - 1 : a[k] = s[k]
  BY <1>1
<1>b. LET b == SubSeq(s, i + 1, Len(s))
      IN  b \in Seq(S) /\ Len(b) = Len(s) - i /\ \A k \in 1..Len(s) - i : b[k] = s[i + k]
  BY <1>1
<1>2. PICK a \in Seq(S) : a = SubSeq(s, 1, i - 1) /\ Len(a) = i - 1
                          /\ \A k \in 1..i - 1 : a[k] = s[k]
  BY <1>a, Zenon
<1>3. PICK b \in Seq(S) : b = SubSeq(s, i + 1, Len(s)) /\ Len(b) = Len(s) - i
                          /\ \A k \in 1..Len(s) - i : b[k] = s[i + k]
  BY <1>b, Zenon
<1>4. RemoveAt(s, i) = a \o b
  BY <1>2, <1>3 DEF RemoveAt
<1>5. /\ a \o b \in Seq(S) /\ Len(a \o b) = Len(a) + Len(b)
      /\ \A k \in 1..Len(a) : (a \o b)[k] = a[k]
      /\ \A k \in 1..Len(b) : (a \o b)[Len(a) + k] = b[k]
  BY ConcatFacts
<1>6. ASSUME NEW k \in i..Len(s) - 1
      PROVE  (a \o b)[k] = s[k + 1]
  <2> DEFINE l == k - (i - 1)
  <2>1. l \in 1..Len(b) /\ Len(a) + l = k /\ i + l = k + 1 /\ l \in 1..Len(s) - i
    BY <1>1, <1>2, <1>3
  <2> HIDE DEF l
  <2>2. (a \o b)[Len(a) + l] = b[l]
    BY <1>5, <2>1
  <2>3. b[l] = s[i + l]
    BY <1>3, <2>1
  <2> QED BY <2>1, <2>2, <2>3
<1>7. Len(a \o b) = Len(s) - 1 /\ \A k \in 1..i - 1 : (a \o b)[k] = s[k]
  <2>1. Len(a) = i - 1 /\ Len(b) = Len(s) - i
    BY <1>2, <1>3
  <2>2. (i - 1) + (Len(s) - i) = Len(s) - 1
    BY <1>1
  <2>3. \A k \in 1..i - 1 : (a \o b)[k] = a[k]
    BY <1>5, <2>1
  <2>4. \A k \in 1..i - 1 : (a \o b)[k] = s[k]
    BY <1>2, <2>3
  <2> QED BY <1>5, <2>1, <2>2, <2>4
<1> QED BY <1>4, <1>5, <1>6, <1>7, Zenon

LEMMA PushFacts ==
    ASSUME NEW S, NEW f \in S, NEW s \in Seq(S)
    PROVE  /\ <<f>> \o s \in Seq(S) /\ Len(<<f>> \o s) = Len(s) + 1
           /\ (<<f>> \o s)[1] = f
           /\ \A i \in 1..Len(s) : (<<f>> \o s)[i + 1] = s[i]
           /\ ToSet(<<f>> \o s) = {f} \cup ToSet(s)
<1> DEFINE t == <<f>> \o s
<1>0. <<f>> \in Seq(S) /\ Len(<<f>>) = 1 /\ <<f>>[1] = f /\ Len(s) \in Nat
  OBVIOUS
<1>1. PICK g \in Seq(S) : g = <<f>> /\ Len(g) = 1 /\ g[1] = f /\ Len(s) \in Nat
  BY <1>0, Zenon
<1>2. /\ t \in Seq(S) /\ Len(t) = 1 + Len(s)
      /\ \A i \in 1..1 : t[i] = g[i]
      /\ \A i \in 1..Len(s) : t[1 + i] = s[i]
  <2>1. /\ g \o s \in Seq(S) /\ Len(g \o s) = Len(g) + Len(s)
        /\ \A i \in 1..Len(g) : (g \o s)[i] = g[i]
        /\ \A i \in 1..Len(s) : (g \o s)[Len(g) + i] = s[i]
    BY ConcatFacts
  <2>2. t = g \o s
    BY <1>1
  <2> HIDE DEF t
  <2> QED BY <1>1, <2>1, <2>2
<1> HIDE DEF t
<1>3. /\ Len(t) = Len(s) + 1 /\ t[1] = f
      /\ \A i \in 1..Len(s) : t[i + 1] = s[i]
  <2>1. \A i \in 1..Len(s) : 1 + i = i + 1
    BY <1>1
  <2>2. 1 + Len(s) = Len(s) + 1 /\ 1 \in 1..1
    BY <1>1
  <2> QED BY <1>1, <1>2, <2>1, <2>2
<1>4. ToSet(t) = {f} \cup ToSet(s)
  <2>1. \A x : x \in ToSet(t) <=> \E i \in 1..Len(t) : t[i] = x
    BY <1>2, SetOf
  <2>2. \A x : x \in ToSet(s) <=> \E i \in 1..Len(s) : s[i] = x
    BY SetOf
  <2>3. ASSUME NEW x \in ToSet(t) PROVE x \in {f} \cup ToSet(s)
    <3>1. PICK i \in 1..Len(t) : t[i] = x
      BY <2>1
    <3>2. i = 1 \/ (i - 1 \in 1..Len(s) /\ (i - 1) + 1 = i)
      BY <1>1, <1>3
    <3> QED BY <1>3, <2>2, <3>1, <3>2
  <2>4. ASSUME NEW x \in {f} \cup ToSet(s) PROVE x \in ToSet(t)
    <3>1. CASE x = f
      <4>1. 1 \in 1..Len(t)
        BY <1>1, <1>3
      <4> QED BY <1>3, <2>1, <3>1, <4>1
    <3>2. CASE x \in ToSet(s)
      <4>1. PICK i \in 1..Len(s) : s[i] = x
        BY <2>2, <3>2
      <4>2. i + 1 \in 1..Len(t)
        BY <1>1, <1>3
      <4> QED BY <1>3, <2>1, <4>1, <4>2
    <3> QED BY <3>1, <3>2
  <2> QED BY <2>3, <2>4
<1> QED BY <1>2, <1>3, <1>4 DEF t

LEMMA InsertAtFacts ==
    ASSUME NEW S, NEW s \in Seq(S), NEW i \in 1..Len(s) + 1, NEW e \in S
    PROVE  /\ InsertAt(s, i, e) \in Seq(S) /\ Len(InsertAt(s, i, e)) = Len(s) + 1
           /\ \A k \in 1..i - 1 : InsertAt(s, i, e)[k] = s[k]
           /\ InsertAt(s, i, e)[i] = e
           /\ \A k \in i..Len(s) : InsertAt(s, i, e)[k + 1] = s[k]
<1>1. Len(s) \in Nat /\ \A k \in 1..Len(s) : s[k] \in S
  OBVIOUS
<1>a. LET a == SubSeq(s, 1, i - 1)
      IN  a \in Seq(S) /\ Len(a) = i - 1 /\ \A k \in 1..i - 1 : a[k] = s[k]
  BY <1>1
<1>b. LET b == SubSeq(s, i, Len(s))
      IN  b \in Seq(S) /\ Len(b) = Len(s) - i + 1 /\ \A k \in 1..Len(s) - i + 1 : b[k] = s[i + k - 1]
  BY <1>1
<1>2. PICK a \in Seq(S) : a = SubSeq(s, 1, i - 1) /\ Len(a) = i - 1
                          /\ \A k \in 1..i - 1 : a[k] = s[k]
  BY <1>a, Zenon
<1>3. PICK b \in Seq(S) : b = SubSeq(s, i, Len(s)) /\ Len(b) = Len(s) - i + 1
                          /\ \A k \in 1..Len(s) - i + 1 : b[k] = s[i + k - 1]
  BY <1>b, Zenon
<1>4. PICK c : c = <<e>> \o b
  OBVIOUS
<1>5. /\ c \in Seq(S) /\ Len(c) = Len(s) - i + 2 /\ c[1] = e
      /\ \A k \in 1..Len(b) : c[k + 1] = b[k]
  <2>1. /\ <<e>> \o b \in Seq(S) /\ Len(<<e>> \o b) = Len(b) + 1
        /\ (<<e>> \o b)[1] = e
        /\ \A k \in 1..Len(b) : (<<e>> \o b)[k + 1] = b[k]
    BY PushFacts
  <2>2. /\ c \in Seq(S) /\ Len(c) = Len(b) + 1 /\ c[1] = e
        /\ \A k \in 1..Len(b) : c[k + 1] = b[k]
    BY <1>4, <2>1, Zenon
  <2>3. Len(b) + 1 = Len(s) - i + 2
    BY <1>1, <1>3
  <2> QED BY <2>2, <2>3
<1>6. PICK t : t = a \o c
  OBVIOUS
<1>7. t = InsertAt(s, i, e)
  <2>1. (a \o <<e>>) \o b = a \o (<<e>> \o b)
    BY ConcatAssociative
  <2> QED BY <1>2, <1>3, <1>4, <1>6, <2>1 DEF InsertAt
<1>8. /\ t \in Seq(S) /\ Len(t) = Len(a) + Len(c)
      /\ \A k \in 1..Len(a) : t[k] = a[k]
      /\ \A k \in 1..Len(c) : t[Len(a) + k] = c[k]
  <2>1. /\ a \o c \in Seq(S) /\ Len(a \o c) = Len(a) + Len(c)
        /\ \A k \in 1..Len(a) : (a \o c)[k] = a[k]
        /\ \A k \in 1..Len(c) : (a \o c)[Len(a) + k] = c[k]
    <3>1. c \in Seq(S)
      BY <1>5
    <3> QED BY <3>1, ConcatFacts
  <2> QED BY <1>6, <2>1, Zenon
<1>9. /\ Len(t) = Len(s) + 1
      /\ \A k \in 1..i - 1 : t[k] = s[k]
      /\ t[i] = e
      /\ \A k \in i..Len(s) : t[k + 1] = s[k]
  <2>1. Len(t) = Len(s) + 1 /\ \A k \in 1..i - 1 : t[k] = s[k]
    <3>1. Len(a) = i - 1 /\ Len(c) = Len(s) - i + 2 /\ Len(t) = Len(a) + Len(c)
      BY <1>2, <1>5, <1>8
    <3>2. Len(t) = Len(s) + 1
      BY <1>1, <3>1
    <3>3. ASSUME NEW k \in 1..i - 1 PROVE t[k] = s[k]
      BY <1>2, <1>8, <3>1
    <3> QED BY <3>2, <3>3
  <2>2. t[i] = e
    <3>1. 1 \in 1..Len(c) /\ Len(a) + 1 = i
      BY <1>1, <1>2, <1>5
    <3> QED BY <1>5, <1>8, <3>1
  <2>3. ASSUME NEW k \in i..Len(s) PROVE t[k + 1] = s[k]
    <3> DEFINE l == k - i + 1
    <3>1. l \in 1..Len(b) /\ l + 1 \in 1..Len(c) /\ Len(a) + (l + 1) = k + 1 /\ i + l - 1 = k
      BY <1>1, <1>2, <1>3, <1>5
    <3>2. l \in 1..Len(s) - i + 1
      BY <1>1
    <3> HIDE DEF l
    <3>3. t[Len(a) + (l + 1)] = c[l + 1] /\ c[l + 1] = b[l] /\ b[l] = s[i + l - 1]
      BY <1>3, <1>5, <1>8, <3>1, <3>2
    <3> QED BY <3>1, <3>3
  <2> QED BY <2>1, <2>2, <2>3
<1> QED BY <1>7, <1>8, <1>9

LEMMA MinFacts ==
  ASSUME NEW S \in SUBSET Nat, S # {}
  PROVE  Min(S) \in S /\ \A y \in S : Min(S) <= y
<1>1. \E x \in S : \A y \in S : x <= y
  BY SmallestOf
<1> QED BY <1>1, Zenon DEF Min

\* The largest of numbers that have an upper bound.
LEMMA MaxFacts ==
  ASSUME NEW S \in SUBSET Nat, S # {}, NEW n \in Nat, \A y \in S : y <= n
  PROVE  Max(S) \in S /\ \A y \in S : Max(S) >= y
<1> DEFINE B == {b \in Nat : \A y \in S : y <= b}
<1>1. B \in SUBSET Nat /\ n \in B
  OBVIOUS
<1> HIDE DEF B
<1>2. PICK b \in B : \A c \in B : b <= c
  BY <1>1, SmallestOf
<1>3. b \in Nat /\ \A y \in S : y <= b
  BY <1>2 DEF B
<1>4. b \in S
  <2> SUFFICES ASSUME b \notin S PROVE FALSE
    OBVIOUS
  <2>1. \A y \in S : y <= b - 1 /\ y # b
    BY <1>3
  <2>2. PICK y \in S : TRUE
    OBVIOUS
  <2>3. b - 1 \in Nat
    BY <1>3, <2>1, <2>2
  <2>4. b - 1 \in B
    BY <2>1, <2>3 DEF B
  <2> QED BY <1>2, <1>3, <2>4
<1>5. \E x \in S : \A y \in S : x >= y
  BY <1>3, <1>4
<1> QED BY <1>5, Zenon DEF Max

\* What holds of 0, and of a number if of the one before, holds of all.
LEMMA Upwards ==
  ASSUME NEW n \in Nat, NEW P, 0 \in P, \A i \in 1..n : i - 1 \in P => i \in P
  PROVE  \A i \in 0..n : i \in P
<1> SUFFICES ASSUME NEW i \in 0..n, i \notin P PROVE FALSE
  OBVIOUS
<1> DEFINE N == {k \in 0..n : k \notin P}
<1>1. i \in N /\ N \in SUBSET Nat
  OBVIOUS
<1> HIDE DEF N
<1>2. PICK k \in N : \A y \in N : k <= y
  BY <1>1, SmallestOf
<1>3. k \in 0..n /\ k \notin P
  BY <1>2 DEF N
<1>4. k \in 1..n /\ k - 1 \in 0..n /\ ~(k <= k - 1)
  BY <1>3
<1>5. k - 1 \notin N
  BY <1>2, <1>4
<1>6. k - 1 \in P
  BY <1>4, <1>5 DEF N
<1> QED BY <1>3, <1>4, <1>6

\* A finite set of numbers has an upper bound.
LEMMA Bounded ==
  ASSUME NEW S \in SUBSET Nat, IsFiniteSet(S)
  PROVE  \E n \in Nat : \A y \in S : y <= n
<1>1. PICK s \in Seq(S) : \A x \in S : \E i \in 1..Len(s) : s[i] = x
  BY Zenon DEF IsFiniteSet
<1>2. Len(s) \in Nat /\ \A i \in 1..Len(s) : s[i] \in S
  BY <1>1
<1> DEFINE P == {i \in 0..Len(s) : \E n \in Nat : \A k \in 1..i : s[k] <= n}
<1>3. 0 \in P
  <2>1. 0 \in 0..Len(s) /\ \A k \in 1..0 : s[k] <= 0
    BY <1>2
  <2> QED BY <2>1
<1>4. ASSUME NEW i \in 1..Len(s), i - 1 \in P PROVE i \in P
  <2>1. PICK n \in Nat : \A k \in 1..i - 1 : s[k] <= n
    BY <1>4
  <2> DEFINE m == IF s[i] <= n THEN n ELSE s[i]
  <2>2. m \in Nat /\ n <= m /\ s[i] <= m
    <3>1. s[i] \in Nat
      BY <1>2
    <3> QED BY <2>1, <3>1
  <2> HIDE DEF m
  <2>3. ASSUME NEW k \in 1..i PROVE s[k] <= m
    <3>1. CASE k = i
      BY <2>2, <3>1
    <3>2. CASE k # i
      <4>1. k \in 1..i - 1 /\ k \in 1..Len(s)
        BY <1>2, <3>2
      <4>2. s[k] <= n /\ s[k] \in Nat
        BY <1>2, <2>1, <4>1
      <4> QED BY <2>2, <4>2
    <3> QED BY <3>1, <3>2
  <2>4. i \in 0..Len(s)
    BY <1>2
  <2> QED BY <2>2, <2>3, <2>4
<1> HIDE DEF P
<1>5. Len(s) \in P
  <2>1. \A i \in 0..Len(s) : i \in P
    BY <1>2, <1>3, <1>4, Upwards
  <2> QED BY <1>2, <2>1
<1>6. PICK n \in Nat : \A k \in 1..Len(s) : s[k] <= n
  BY <1>5 DEF P
<1> QED BY <1>1, <1>6

\* A recursive function on places, whose values are in S, exists.
Recursive(S, a, step, m) ==
  \E f \in [0..m -> S] :
    /\ f[0] = a
    /\ \A i \in 1..m : f[i] = step[<<f[i - 1], i>>]

LEMMA Recursion ==
  ASSUME NEW S, NEW a \in S, NEW step \in [S \X Nat -> S], NEW m \in Nat
  PROVE  Recursive(S, a, step, m)
<1> DEFINE Does(f, n) == /\ f \in [0..n -> S] /\ f[0] = a
                         /\ \A i \in 1..n : f[i] = step[<<f[i - 1], i>>]
           P == {n \in 0..m : \E f : Does(f, n)}
<1>1. 0 \in P
  <2>1. [i \in 0..0 |-> a] \in [0..0 -> S] /\ [i \in 0..0 |-> a][0] = a
    OBVIOUS
  <2>2. \A i \in 1..0 : FALSE
    OBVIOUS
  <2>3. \E f : Does(f, 0)
    BY <2>1, <2>2
  <2> QED BY <2>3
<1>2. ASSUME NEW n \in 1..m, n - 1 \in P PROVE n \in P
  <2>1. PICK f : Does(f, n - 1)
    BY <1>2
  <2> DEFINE g == [i \in 0..n |-> IF i = n THEN step[<<f[n - 1], n>>] ELSE f[i]]
  <2>2. /\ n - 1 \in 0..n - 1 /\ n \in Nat
        /\ \A i \in 0..n : i # n => i \in 0..n - 1
        /\ \A i \in 1..n : i - 1 \in 0..n - 1 /\ i - 1 # n /\ i \in 0..n /\ i - 1 \in 0..n
    OBVIOUS
  <2>3. f[n - 1] \in S
    BY <2>1, <2>2
  <2>4. step[<<f[n - 1], n>>] \in S
    BY <2>2, <2>3
  <2>5. \A i \in 0..n - 1 : g[i] = f[i] /\ f[i] \in S
    BY <2>1
  <2>6. g \in [0..n -> S]
    <3>1. \A i \in 0..n : g[i] \in S
      BY <2>2, <2>4, <2>5
    <3> QED BY <3>1
  <2>7. g[n] = step[<<f[n - 1], n>>]
    BY <2>2
  <2> HIDE DEF g
  <2>8. ASSUME NEW i \in 1..n PROVE g[i] = step[<<g[i - 1], i>>]
    <3>1. g[i - 1] = f[i - 1]
      BY <2>2, <2>5
    <3>2. CASE i = n
      BY <2>7, <3>1, <3>2
    <3>3. CASE i # n
      <4>1. i \in 1..n - 1 /\ i \in 0..n - 1
        BY <2>2, <3>3
      <4> QED BY <2>1, <2>5, <3>1, <4>1
    <3> QED BY <3>2, <3>3
  <2>9. g[0] = a
    <3>1. 0 \in 0..n - 1
      BY <2>2
    <3> QED BY <2>1, <2>5, <3>1
  <2>10. n \in 0..m
    OBVIOUS
  <2> QED BY <2>6, <2>8, <2>9, <2>10
<1> HIDE DEF P
<1>3. m \in P
  <2>1. \A i \in 0..m : i \in P
    BY <1>1, <1>2, Upwards
  <2> QED BY <2>1
<1> QED BY <1>3 DEF P, Recursive

-----------------------------------------------------------------------------
(* Lists that are sorted by the numbers of windows.                        *)

Ascending(s, wd) ==
  \A i, j \in 1..Len(s) : i < j => wd[s[i]].id < wd[s[j]].id

Inserted(s, wd, w) ==
  InsertAt(s, Min({i \in 1..Len(s) : wd[s[i]].id >= wd[w].id} \cup {Len(s) + 1}), w)

LEMMA AddAscending ==
  ASSUME NEW s \in Seq(Windows), NEW wd, \A x \in Windows : wd[x].id \in Nat,
         Ascending(s, wd), NEW w \in Windows,
         \A x \in ToSet(s) : wd[x].id # wd[w].id
  PROVE  /\ Inserted(s, wd, w) \in Seq(Windows) /\ Ascending(Inserted(s, wd, w), wd)
         /\ ToSet(Inserted(s, wd, w)) = ToSet(s) \cup {w}
<1> DEFINE L == {i \in 1..Len(s) : wd[s[i]].id >= wd[w].id} \cup {Len(s) + 1}
<1>1. /\ Len(s) \in Nat /\ \A i \in 1..Len(s) : s[i] \in Windows /\ s[i] \in ToSet(s)
      /\ \A x : x \in ToSet(s) <=> \E i \in 1..Len(s) : s[i] = x
  BY SetOf
<1>2. PICK p : p = Min(L)
  OBVIOUS
<1>3. p \in L /\ \A i \in L : p <= i
  <2>1. L \in SUBSET Nat /\ L # {}
    BY <1>1
  <2> HIDE DEF L
  <2>2. Min(L) \in L /\ \A y \in L : Min(L) <= y
    BY <2>1, MinFacts
  <2> QED BY <1>2, <2>2, Zenon
<1>4. p \in 1..Len(s) + 1
  BY <1>1, <1>3
<1>5. \A i \in 1..Len(s) : i < p => wd[s[i]].id < wd[w].id
  <2> SUFFICES ASSUME NEW i \in 1..Len(s), i < p PROVE wd[s[i]].id < wd[w].id
    OBVIOUS
  <2>1. i \notin L
    BY <1>1, <1>3, <1>4
  <2>2. ~(wd[s[i]].id >= wd[w].id)
    BY <2>1
  <2>3. wd[s[i]].id \in Nat /\ wd[w].id \in Nat
    BY <1>1
  <2> QED BY <2>2, <2>3
<1>6. \A i \in 1..Len(s) : i >= p => wd[w].id < wd[s[i]].id
  <2> SUFFICES ASSUME NEW i \in 1..Len(s), i >= p PROVE wd[w].id < wd[s[i]].id
    OBVIOUS
  <2>1. p \in 1..Len(s)
    BY <1>1, <1>4
  <2>2. wd[s[p]].id >= wd[w].id
    <3>1. p # Len(s) + 1
      BY <1>1, <2>1
    <3> QED BY <1>3, <3>1
  <2>3. /\ wd[s[p]].id \in Nat /\ wd[w].id \in Nat /\ wd[s[i]].id \in Nat
        /\ wd[s[p]].id # wd[w].id
    BY <1>1, <2>1
  <2>4. p = i \/ wd[s[p]].id < wd[s[i]].id
    BY <1>1, <2>1 DEF Ascending
  <2> QED BY <2>2, <2>3, <2>4
<1>7. PICK t \in Seq(Windows) :
        /\ t = InsertAt(s, p, w) /\ Len(t) = Len(s) + 1
        /\ \A k \in 1..p - 1 : t[k] = s[k]
        /\ t[p] = w
        /\ \A k \in p..Len(s) : t[k + 1] = s[k]
  <2>1. /\ InsertAt(s, p, w) \in Seq(Windows) /\ Len(InsertAt(s, p, w)) = Len(s) + 1
        /\ \A k \in 1..p - 1 : InsertAt(s, p, w)[k] = s[k]
        /\ InsertAt(s, p, w)[p] = w
        /\ \A k \in p..Len(s) : InsertAt(s, p, w)[k + 1] = s[k]
    BY <1>4, InsertAtFacts
  <2> QED BY <2>1, Zenon
<1>8. t = Inserted(s, wd, w)
  BY <1>2, <1>7, Zenon DEF Inserted
<1> HIDE DEF L
<1>t. /\ Len(t) \in Nat
      /\ \A x : x \in ToSet(t) <=> \E i \in 1..Len(t) : t[i] = x
  BY SetOf
<1> DEFINE from(k) == IF k < p THEN k ELSE k - 1
<1>9. \A k \in 1..Len(t) : k # p => from(k) \in 1..Len(s) /\ t[k] = s[from(k)]
  <2> SUFFICES ASSUME NEW k \in 1..Len(t), k # p
               PROVE  from(k) \in 1..Len(s) /\ t[k] = s[from(k)]
    OBVIOUS
  <2>1. CASE k < p
    <3>1. from(k) = k /\ k \in 1..p - 1 /\ k \in 1..Len(s)
      BY <1>1, <1>4, <2>1
    <3> QED BY <1>7, <3>1
  <2>2. CASE ~(k < p)
    <3>1. from(k) = k - 1 /\ k - 1 \in p..Len(s) /\ k - 1 \in 1..Len(s) /\ (k - 1) + 1 = k
      BY <1>1, <1>4, <1>7, <2>2
    <3> QED BY <1>7, <3>1
  <2> QED BY <2>1, <2>2
<1>10. ASSUME NEW i \in 1..Len(t), NEW j \in 1..Len(t), i < j
       PROVE  wd[t[i]].id < wd[t[j]].id
  <2>1. CASE i = p
    <3>1. j # p /\ from(j) >= p
      BY <1>4, <1>10, <2>1
    <3>2. from(j) \in 1..Len(s) /\ t[j] = s[from(j)]
      BY <1>9, <3>1
    <3> HIDE DEF from
    <3> QED BY <1>6, <1>7, <2>1, <3>1, <3>2
  <2>2. CASE j = p
    <3>1. i # p /\ from(i) < p
      BY <1>4, <1>10, <2>2
    <3>2. from(i) \in 1..Len(s) /\ t[i] = s[from(i)]
      BY <1>9, <3>1
    <3> HIDE DEF from
    <3> QED BY <1>5, <1>7, <2>2, <3>1, <3>2
  <2>3. CASE i # p /\ j # p
    <3>1. from(i) < from(j)
      BY <1>4, <1>10, <2>3
    <3>2. /\ from(i) \in 1..Len(s) /\ t[i] = s[from(i)]
          /\ from(j) \in 1..Len(s) /\ t[j] = s[from(j)]
      BY <1>9, <2>3
    <3> HIDE DEF from
    <3> QED BY <3>1, <3>2 DEF Ascending
  <2> QED BY <2>1, <2>2, <2>3
<1>11. Ascending(t, wd)
  BY <1>10 DEF Ascending
<1>12. ToSet(t) = ToSet(s) \cup {w}
  <2>1. ASSUME NEW x \in ToSet(t) PROVE x \in ToSet(s) \cup {w}
    <3>1. PICK k \in 1..Len(t) : t[k] = x
      BY <1>t
    <3> HIDE DEF from
    <3> QED BY <1>1, <1>7, <1>9, <3>1
  <2>2. w \in ToSet(t)
    <3>1. p \in 1..Len(t)
      BY <1>1, <1>4, <1>7
    <3> QED BY <1>7, <1>t, <3>1
  <2>3. ASSUME NEW k \in 1..Len(s) PROVE s[k] \in ToSet(t)
    <3>1. k \in 1..p - 1 \/ k \in p..Len(s)
      BY <1>1, <1>4
    <3>2. k \in 1..Len(t) /\ k + 1 \in 1..Len(t)
      BY <1>1, <1>7
    <3> QED BY <1>7, <1>t, <3>1, <3>2
  <2> QED BY <1>1, <2>1, <2>2, <2>3
<1> QED BY <1>8, <1>11, <1>12

\* Numbers may change as long as their order does not.
LEMMA DropAscending ==
  ASSUME NEW s \in Seq(Windows), NEW wd, NEW wd2, \A x \in Windows : wd[x].id \in Nat,
         Ascending(s, wd), NEW w \in ToSet(s),
         \A x, y \in ToSet(s) \ {w} : wd[x].id < wd[y].id => wd2[x].id < wd2[y].id
  PROVE  /\ RemoveFirst(s, w) \in Seq(Windows)
         /\ Ascending(RemoveFirst(s, w), wd2)
         /\ ToSet(RemoveFirst(s, w)) = ToSet(s) \ {w}
<1>1. /\ Len(s) \in Nat /\ \A i \in 1..Len(s) : s[i] \in Windows /\ s[i] \in ToSet(s)
      /\ \A x : x \in ToSet(s) <=> \E i \in 1..Len(s) : s[i] = x
  BY SetOf
<1>2. \A i, j \in 1..Len(s) : s[i] = s[j] => i = j
  <2> SUFFICES ASSUME NEW i \in 1..Len(s), NEW j \in 1..Len(s), s[i] = s[j], i < j
               PROVE  FALSE
    BY <1>1
  <2>1. wd[s[i]].id < wd[s[j]].id /\ wd[s[i]].id \in Nat
    BY <1>1 DEF Ascending
  <2> QED BY <2>1
<1> DEFINE I == {k \in 1..Len(s) : s[k] = w}
<1>3. PICK i \in 1..Len(s) : s[i] = w /\ RemoveFirst(s, w) = RemoveAt(s, i)
  <2>1. SelectInSeq(s, LAMBDA v : v = w) = IF I # {} THEN Min(I) ELSE 0
    BY Zenon DEF SelectInSeq
  <2>2. I # {} /\ I \in SUBSET Nat /\ \E k \in 1..Len(s) : s[k] = w
    BY <1>1
  <2>3. Min(I) \in 1..Len(s) /\ s[Min(I)] = w
    <3> HIDE DEF I
    <3>1. Min(I) \in I
      BY <2>2, MinFacts
    <3> QED BY <3>1 DEF I
  <2>4. RemoveFirst(s, w) = RemoveAt(s, SelectInSeq(s, LAMBDA v : v = w))
    BY <2>2, Zenon DEF RemoveFirst
  <2>5. SelectInSeq(s, LAMBDA v : v = w) = Min(I)
    BY <2>1, <2>2, Zenon
  <2> HIDE DEF I
  <2> QED BY <2>3, <2>4, <2>5, Zenon
<1> HIDE DEF I
<1>4. PICK t \in Seq(Windows) :
        /\ t = RemoveFirst(s, w) /\ Len(t) = Len(s) - 1
        /\ \A k \in 1..i - 1 : t[k] = s[k]
        /\ \A k \in i..Len(s) - 1 : t[k] = s[k + 1]
  <2>1. /\ RemoveAt(s, i) \in Seq(Windows) /\ Len(RemoveAt(s, i)) = Len(s) - 1
        /\ \A k \in 1..i - 1 : RemoveAt(s, i)[k] = s[k]
        /\ \A k \in i..Len(s) - 1 : RemoveAt(s, i)[k] = s[k + 1]
    BY RemoveAtFacts
  <2> QED BY <1>3, <2>1, Zenon
<1>t. /\ Len(t) \in Nat
      /\ \A x : x \in ToSet(t) <=> \E k \in 1..Len(t) : t[k] = x
  BY SetOf
<1> DEFINE q(k) == IF k < i THEN k ELSE k + 1
<1>5. \A k \in 1..Len(t) : q(k) \in 1..Len(s) /\ q(k) # i /\ t[k] = s[q(k)]
  <2> SUFFICES ASSUME NEW k \in 1..Len(t)
               PROVE  q(k) \in 1..Len(s) /\ q(k) # i /\ t[k] = s[q(k)]
    OBVIOUS
  <2>1. CASE k < i
    <3>1. q(k) = k /\ k \in 1..i - 1 /\ k \in 1..Len(s)
      BY <1>1, <1>4, <2>1
    <3> QED BY <1>4, <2>1, <3>1
  <2>2. CASE ~(k < i)
    <3>1. q(k) = k + 1 /\ k \in i..Len(s) - 1 /\ k + 1 \in 1..Len(s) /\ k + 1 # i
      BY <1>1, <1>4, <2>2
    <3> QED BY <1>4, <3>1
  <2> QED BY <2>1, <2>2
<1>6. \A n \in 1..Len(s) : n # i => \E m \in 1..Len(t) : q(m) = n
  <2> SUFFICES ASSUME NEW n \in 1..Len(s), n # i
               PROVE  \E m \in 1..Len(t) : q(m) = n
    OBVIOUS
  <2>1. CASE n < i
    <3>1. n \in 1..Len(t) /\ q(n) = n
      BY <1>1, <1>4, <2>1
    <3> QED BY <3>1
  <2>2. CASE ~(n < i)
    <3>1. n - 1 \in 1..Len(t) /\ q(n - 1) = n
      BY <1>1, <1>4, <2>2
    <3> QED BY <3>1
  <2> QED BY <2>1, <2>2
<1>7. \A k, m \in 1..Len(t) : k < m => q(k) < q(m)
  BY <1>1, <1>4
<1> HIDE DEF q
<1>8. \A k \in 1..Len(t) : t[k] \in ToSet(s) \ {w}
  <2> SUFFICES ASSUME NEW k \in 1..Len(t) PROVE t[k] \in ToSet(s) \ {w}
    OBVIOUS
  <2>1. q(k) \in 1..Len(s) /\ q(k) # i /\ t[k] = s[q(k)]
    BY <1>5
  <2>2. s[q(k)] # w
    BY <1>2, <1>3, <2>1
  <2> QED BY <1>1, <2>1, <2>2
<1>9. ASSUME NEW k \in 1..Len(t), NEW m \in 1..Len(t), k < m
      PROVE  wd2[t[k]].id < wd2[t[m]].id
  <2>1. wd[s[q(k)]].id < wd[s[q(m)]].id
    BY <1>5, <1>7, <1>9 DEF Ascending
  <2>2. wd[t[k]].id < wd[t[m]].id
    BY <1>5, <2>1
  <2> QED BY <1>8, <2>2
<1>10. Ascending(t, wd2)
  BY <1>9 DEF Ascending
<1>11. ToSet(t) = ToSet(s) \ {w}
  <2>1. ASSUME NEW x \in ToSet(s) \ {w} PROVE x \in ToSet(t)
    <3>1. PICK n \in 1..Len(s) : s[n] = x
      BY <1>1
    <3>2. PICK m \in 1..Len(t) : q(m) = n
      BY <1>3, <1>6, <3>1
    <3> QED BY <1>5, <1>t, <3>1, <3>2
  <2> QED BY <1>8, <1>t, <2>1
<1> QED BY <1>4, <1>10, <1>11

LEMMA ListIsShort ==
  ASSUME NEW s \in Seq(Windows), NEW wd, \A x \in Windows : wd[x].id \in Nat,
         Ascending(s, wd)
  PROVE  Len(s) <= MaxWindows
<1>0. MaxWindows \in Nat /\ Windows = 1..MaxWindows
  BY Constants DEF Windows
<1>1. Len(s) \in Nat /\ s \in [1..Len(s) -> Windows] /\ \A i \in 1..Len(s) : s[i] \in Windows
  OBVIOUS
<1>2. \A i, j \in 1..Len(s) : s[i] = s[j] => i = j
  <2> SUFFICES ASSUME NEW i \in 1..Len(s), NEW j \in 1..Len(s), s[i] = s[j], i < j
               PROVE  FALSE
    BY <1>1
  <2>1. wd[s[i]].id < wd[s[j]].id /\ wd[s[i]].id \in Nat
    BY <1>1 DEF Ascending
  <2> QED BY <2>1
<1>3. s \in Injection(1..Len(s), Windows)
  BY <1>1, <1>2 DEF Injection, IsInjective
<1>4. /\ IsFiniteSet(1..Len(s)) /\ Cardinality(1..Len(s)) = Len(s)
      /\ IsFiniteSet(Windows) /\ Cardinality(Windows) = MaxWindows
  <2>1. /\ IsFiniteSet(1..Len(s))
        /\ Cardinality(1..Len(s)) = IF 1 > Len(s) THEN 0 ELSE Len(s) - 1 + 1
    BY <1>1, FS_Interval
  <2>2. /\ IsFiniteSet(1..MaxWindows)
        /\ Cardinality(1..MaxWindows) = IF 1 > MaxWindows THEN 0 ELSE MaxWindows - 1 + 1
    BY <1>0, FS_Interval
  <2> QED BY <1>0, <1>1, <2>1, <2>2
<1>5. Cardinality(1..Len(s)) <= Cardinality(Windows)
  BY <1>3, <1>4, FS_Injection
<1> QED BY <1>4, <1>5

-----------------------------------------------------------------------------
(* The state, and what functions leave as it is.                           *)

StateT == [window : [Windows -> WindowT], list : Seq(Windows), current : Windows, last : Int,
           sessions : SUBSET Sessions, session : Sessions \cup {None}]

\* The greatest number of a window that is not floating.
Most == 999

LEMMA NumberFacts ==
  /\ Most \in Nat /\ 2 <= Most /\ ContactsId \in Nat /\ Most < ContactsId
  /\ Shorts \subseteq Nat
  /\ \A i \in Nat : i <= ContactsId => i \in Shorts /\ Number(i) = i
  /\ \A i \in Shorts : i > 1 => i - 1 \in Shorts
<1>1. Most \in Nat /\ 2 <= Most /\ ContactsId \in Nat /\ Most < ContactsId /\ ContactsId <= 1000
  BY DEF Most, ContactsId
<1>2. PICK b \in Nat : Shorts = 0..b /\ 1000 <= b
  <2> DEFINE b == 65535
  <2>1. Shorts = 0..b
    BY DEF Shorts
  <2>2. b \in Nat /\ 1000 <= b
    OBVIOUS
  <2> HIDE DEF b
  <2> QED BY <2>1, <2>2
<1>3. ASSUME NEW i \in Nat, i <= ContactsId PROVE i \in Shorts /\ Number(i) = i
  <2> DEFINE c == 65536
  <2>1. Number(i) = i % c
    BY DEF Number
  <2>2. c \in Nat /\ 1000 < c
    OBVIOUS
  <2> HIDE DEF c
  <2>3. i <= 1000
    BY <1>1, <1>3
  <2>4. Number(i) = i
    BY <2>1, <2>2, <2>3
  <2> QED BY <1>2, <2>3, <2>4
<1>4. /\ Shorts \subseteq Nat
      /\ \A i \in Shorts : i > 1 => i - 1 \in Shorts
  BY <1>2
<1> QED BY <1>1, <1>3, <1>4

\* A window as it may be in the list.
Proper(r) ==
  IF r.floating THEN r.id = ContactsId /\ r.session = None /\ r.target = Contacts
  ELSE r.id <= Most

Shape(u) ==
  /\ u \in StateT
  /\ Ascending(u.list, u.window)
  /\ Status \in Listed(u) /\ u.window[Status].id = 1
  /\ Debug \in Listed(u) /\ u.window[Debug].id = 0
  /\ \A w \in Listed(u) : Proper(u.window[w])
  /\ \A w \in Windows \ Listed(u) : u.window[w] = Unused
  /\ u.current \in Listed(u) /\ ~u.window[u.current].floating

\* The windows stay in their places.
InPlace(u, v) ==
  /\ v \in StateT /\ v.list = u.list /\ v.sessions = u.sessions
  /\ \A x \in Windows : /\ v.window[x].id = u.window[x].id
                        /\ v.window[x].floating = u.window[x].floating

LEMMA ConstantFacts ==
  /\ None \notin Sessions /\ Status \in Windows /\ Debug \in Windows /\ Status # Debug
  /\ NoTarget \notin Targets /\ Contacts \in Targets /\ Sessions \in SUBSET Nat
BY Constants DEF None, Status, Debug, Windows

LEMMA WindowFacts ==
  ASSUME NEW r \in WindowT
  PROVE  /\ r.id \in Shorts /\ r.id \in Nat
         /\ r.session \in Sessions \cup {None}
         /\ r.target \in Targets \cup {NoTarget}
         /\ r.floating \in BOOLEAN
<1>1. /\ r.id \in Shorts /\ r.session \in Sessions \cup {None}
      /\ r.target \in Targets \cup {NoTarget} /\ r.floating \in BOOLEAN
  BY DEF WindowT
<1>2. Shorts \subseteq Nat
  BY NumberFacts
<1> QED BY <1>1, <1>2

\* A window that is given a session.
LEMMA GivenFacts ==
  ASSUME NEW r \in WindowT, NEW s \in Sessions \cup {None}
  PROVE  LET t == [r EXCEPT !.session = s]
         IN  /\ t \in WindowT /\ t.id = r.id /\ t.target = r.target
             /\ t.floating = r.floating /\ t.session = s
BY DEF WindowT

LEMMA TypeFacts ==
  ASSUME NEW u \in StateT
  PROVE  /\ u.window \in [Windows -> WindowT] /\ u.list \in Seq(Windows) /\ u.current \in Windows
         /\ u.last \in Int /\ u.sessions \subseteq Sessions /\ u.session \in Sessions \cup {None}
         /\ Listed(u) \subseteq Windows
         /\ \A w \in Windows :
              /\ u.window[w] \in WindowT /\ u.window[w].id \in Shorts /\ u.window[w].id \in Nat
              /\ u.window[w].session \in Sessions \cup {None}
              /\ u.window[w].target \in Targets \cup {NoTarget}
              /\ u.window[w].floating \in BOOLEAN
<1>1. /\ u.window \in [Windows -> WindowT] /\ u.list \in Seq(Windows) /\ u.current \in Windows
      /\ u.last \in Int /\ u.sessions \subseteq Sessions /\ u.session \in Sessions \cup {None}
  BY DEF StateT
<1>2. Listed(u) \subseteq Windows
  BY <1>1, SetOf DEF Listed
<1>3. ASSUME NEW w \in Windows
      PROVE  /\ u.window[w] \in WindowT /\ u.window[w].id \in Shorts /\ u.window[w].id \in Nat
             /\ u.window[w].session \in Sessions \cup {None}
             /\ u.window[w].target \in Targets \cup {NoTarget}
             /\ u.window[w].floating \in BOOLEAN
  <2>1. u.window[w] \in WindowT
    BY <1>1
  <2> QED BY <2>1, WindowFacts
<1> QED BY <1>1, <1>2, <1>3

LEMMA ReplaceFacts ==
  ASSUME NEW wd \in [Windows -> WindowT], NEW w \in Windows, NEW r \in WindowT
  PROVE  LET t == [wd EXCEPT ![w] = r]
         IN  /\ t \in [Windows -> WindowT] /\ t[w] = r
             /\ \A x \in Windows : x # w => t[x] = wd[x]
OBVIOUS

Put(u, wd, s) == [u EXCEPT !.window = wd, !.session = s]

LEMMA PutFacts ==
  ASSUME NEW u \in StateT, NEW wd \in [Windows -> WindowT], NEW s \in Sessions \cup {None}
  PROVE  /\ Put(u, wd, s) \in StateT
         /\ Put(u, wd, s).window = wd /\ Put(u, wd, s).session = s
         /\ Put(u, wd, s).list = u.list /\ Put(u, wd, s).current = u.current
         /\ Put(u, wd, s).last = u.last /\ Put(u, wd, s).sessions = u.sessions
BY DEF StateT, Put

\* One window's session, and session_current, are set.
Give(u, w, s, ss) == [u EXCEPT !.window[w].session = s, !.session = ss]

Given(u, w, s, ss, v) ==
  /\ InPlace(u, v) /\ v.current = u.current /\ v.last = u.last
  /\ \A x \in Windows : v.window[x].target = u.window[x].target
  /\ \A x \in Windows : x # w => v.window[x] = u.window[x]
  /\ v.window[w].session = s /\ v.session = ss

LEMMA GiveFacts ==
  ASSUME NEW u \in StateT, NEW w \in Windows, NEW s \in Sessions \cup {None},
         NEW ss \in Sessions \cup {None}
  PROVE  Given(u, w, s, ss, Give(u, w, s, ss))
<1>1. u.window \in [Windows -> WindowT] /\ u.window[w] \in WindowT
  BY TypeFacts
<1>2. LET t == [u.window[w] EXCEPT !.session = s]
      IN  /\ t \in WindowT /\ t.id = u.window[w].id /\ t.target = u.window[w].target
          /\ t.floating = u.window[w].floating /\ t.session = s
  BY <1>1, GivenFacts
<1>3. PICK r \in WindowT : /\ r = [u.window[w] EXCEPT !.session = s]
                           /\ r.id = u.window[w].id /\ r.target = u.window[w].target
                           /\ r.floating = u.window[w].floating /\ r.session = s
  BY <1>2, Zenon
<1>4. LET t == [u.window EXCEPT ![w] = r]
      IN  /\ t \in [Windows -> WindowT] /\ t[w] = r
          /\ \A x \in Windows : x # w => t[x] = u.window[x]
  BY <1>1, ReplaceFacts
<1>5. PICK wd \in [Windows -> WindowT] :
        /\ wd = [u.window EXCEPT ![w] = r] /\ wd[w] = r
        /\ \A x \in Windows : x # w => wd[x] = u.window[x]
  BY <1>4, Zenon
<1>6. /\ Put(u, wd, ss) \in StateT /\ Put(u, wd, ss).window = wd /\ Put(u, wd, ss).session = ss
      /\ Put(u, wd, ss).list = u.list /\ Put(u, wd, ss).current = u.current
      /\ Put(u, wd, ss).last = u.last /\ Put(u, wd, ss).sessions = u.sessions
  BY PutFacts
<1>7. [u EXCEPT !.window[w].session = s, !.session = ss] = Put(u, wd, ss)
  BY <1>3, <1>5, Zenon DEF Put
<1>8. PICK v \in StateT : /\ v = Give(u, w, s, ss)
                          /\ v.window = wd /\ v.session = ss
                          /\ v.list = u.list /\ v.current = u.current /\ v.last = u.last
                          /\ v.sessions = u.sessions
  BY <1>6, <1>7, Zenon DEF Give
<1>9. \A x \in Windows : /\ v.window[x].id = u.window[x].id
                         /\ v.window[x].floating = u.window[x].floating
                         /\ v.window[x].target = u.window[x].target
  BY <1>3, <1>5, <1>8
<1>10. InPlace(u, v)
  BY <1>8, <1>9 DEF InPlace
<1>11. /\ \A x \in Windows : x # w => v.window[x] = u.window[x]
       /\ v.window[w].session = s
  BY <1>3, <1>5, <1>8
<1> QED BY <1>8, <1>9, <1>10, <1>11, Zenon DEF Given

\* What SetSession() makes of u.
Assigned(u, w, s, v) ==
  /\ InPlace(u, v) /\ v.current = u.current /\ v.last = u.last
  /\ \A x \in Windows : v.window[x].target = u.window[x].target
  /\ \A x \in Windows : x # w \/ s = None => v.window[x] = u.window[x]
  /\ s # None => v.window[w].session = s
  /\ v.session = IF s # None /\ u.window[w].session # s /\ w = u.current THEN s ELSE u.session

LEMMA SetSessionFacts ==
  ASSUME NEW u \in StateT, NEW w \in Windows, NEW s \in Sessions \cup {None}
  PROVE  Assigned(u, w, s, SetSession(u, w, s))
<1>1. CASE s = None \/ u.window[w].session = s
  BY <1>1 DEF SetSession, InPlace, Assigned
<1>2. CASE ~(s = None \/ u.window[w].session = s)
  <2>1. PICK ss \in Sessions \cup {None} : ss = IF w = u.current THEN s ELSE u.session
    BY TypeFacts
  <2>2. SetSession(u, w, s) = Give(u, w, s, ss)
    BY <1>2, <2>1, Zenon DEF SetSession, Give
  <2>3. PICK v : v = Give(u, w, s, ss) /\ Given(u, w, s, ss, v)
    BY GiveFacts
  <2>4. Assigned(u, w, s, v)
    BY <1>2, <2>1, <2>3 DEF Assigned, Given
  <2> QED BY <2>2, <2>3, <2>4
<1> QED BY <1>1, <1>2

-----------------------------------------------------------------------------
(* What a state of shape tells of its windows.                             *)

LEMMA ShapeFacts ==
  ASSUME NEW u, Shape(u)
  PROVE  /\ u \in StateT /\ Listed(u) \subseteq Windows
         /\ \A x, y \in Listed(u) : u.window[x].id = u.window[y].id => x = y
         /\ \A x \in Listed(u) \ {Status, Debug} : u.window[x].id >= 2
         /\ \A x \in Listed(u) : u.window[x].floating <=> u.window[x].id = ContactsId
         /\ ~u.window[Status].floating /\ ~u.window[Debug].floating
<1>1. u \in StateT /\ Listed(u) \subseteq Windows /\ u.list \in Seq(Windows)
  BY TypeFacts DEF Shape
<1>2. /\ \A w \in Windows : u.window[w].id \in Nat /\ u.window[w].floating \in BOOLEAN
      /\ \A x : x \in Listed(u) <=> \E i \in 1..Len(u.list) : u.list[i] = x
      /\ Len(u.list) \in Nat
  BY <1>1, TypeFacts, SetOf DEF Listed
<1>3. ASSUME NEW x \in Listed(u), NEW y \in Listed(u), u.window[x].id = u.window[y].id
      PROVE  x = y
  <2>1. PICK i \in 1..Len(u.list) : u.list[i] = x
    BY <1>2
  <2>2. PICK j \in 1..Len(u.list) : u.list[j] = y
    BY <1>2
  <2>3. i < j => u.window[x].id < u.window[y].id
    BY <2>1, <2>2 DEF Shape, Ascending
  <2>4. j < i => u.window[y].id < u.window[x].id
    BY <2>1, <2>2 DEF Shape, Ascending
  <2>5. x \in Windows /\ u.window[x].id \in Nat /\ u.window[y].id \in Nat
    BY <1>1, <1>2
  <2>6. i = j
    BY <1>2, <1>3, <2>3, <2>4, <2>5
  <2> QED BY <2>1, <2>2, <2>6
<1>4. \A x \in Listed(u) \ {Status, Debug} : u.window[x].id >= 2
  BY <1>1, <1>2, <1>3 DEF Shape
<1>5. \A x \in Listed(u) : u.window[x].floating <=> u.window[x].id = ContactsId
  BY <1>1, <1>2, NumberFacts DEF Shape, Proper
<1>6. ~u.window[Status].floating /\ ~u.window[Debug].floating
  BY <1>5, NumberFacts DEF Shape
<1> QED BY <1>1, <1>3, <1>4, <1>5, <1>6, Zenon

LEMMA FirstFacts ==
  ASSUME NEW u \in StateT, NEW S
  PROVE  /\ First(u, S) = None <=> Listed(u) \cap S = {}
         /\ First(u, S) # None => First(u, S) \in Listed(u) \cap S
<1>1. /\ u.list \in Seq(Windows) /\ Len(u.list) \in Nat
      /\ \A i \in 1..Len(u.list) : u.list[i] \in Windows
      /\ \A x : x \in Listed(u) <=> \E i \in 1..Len(u.list) : u.list[i] = x
  BY TypeFacts, SetOf DEF Listed
<1>2. None \notin Windows
  BY DEF None, Windows
<1>3. Places(u, S) \in SUBSET Nat /\ (Places(u, S) = {} <=> Listed(u) \cap S = {})
  BY <1>1 DEF Places
<1>4. CASE Places(u, S) = {}
  BY <1>3, <1>4 DEF First
<1>5. CASE Places(u, S) # {}
  <2>1. Min(Places(u, S)) \in Places(u, S)
    BY <1>3, <1>5, MinFacts
  <2>2. First(u, S) = u.list[Min(Places(u, S))]
    BY <1>5 DEF First
  <2>3. First(u, S) \in Listed(u) \cap S /\ First(u, S) \in Windows
    BY <1>1, <2>1, <2>2 DEF Places
  <2> QED BY <1>2, <1>3, <1>5, <2>3
<1> QED BY <1>4, <1>5

\* Windows that stay in their places keep their order.
LEMMA InPlaceShape ==
  ASSUME NEW u, Shape(u), NEW v, InPlace(u, v),
         \A x \in Windows : u.window[x].floating \/ x \notin Listed(u) => v.window[x] = u.window[x],
         v.current \in Listed(u), ~v.window[v.current].floating
  PROVE  Shape(v) /\ Listed(v) = Listed(u)
<1>1. /\ u \in StateT /\ v \in StateT /\ v.list = u.list /\ Listed(v) = Listed(u)
      /\ \A x \in Windows : /\ v.window[x].id = u.window[x].id
                            /\ v.window[x].floating = u.window[x].floating
      /\ Listed(u) \subseteq Windows /\ \A i \in 1..Len(u.list) : u.list[i] \in Windows
  BY ShapeFacts, TypeFacts DEF InPlace, Listed
<1>2. Ascending(v.list, v.window)
  BY <1>1 DEF Shape, Ascending
<1>3. \A x \in Listed(v) : Proper(v.window[x])
  BY <1>1 DEF Shape, Proper
<1>4. \A x \in Windows \ Listed(v) : v.window[x] = Unused
  BY <1>1 DEF Shape
<1> QED BY <1>1, <1>2, <1>3, <1>4, ConstantFacts DEF Shape

\* What WindowSwitch() makes of u.
Switched(u, id, v) ==
  /\ Shape(v) /\ InPlace(u, v) /\ v.window = u.window
  /\ \/ v = u /\ \A x \in Listed(u) : u.window[x].id = id => u.window[x].floating
     \/ /\ u.window[v.current].id = id
        /\ v.session = IF id # 0 /\ u.window[v.current].session # None
                       THEN u.window[v.current].session ELSE u.session

LEMMA WindowSwitchFacts ==
  ASSUME NEW u, Shape(u), NEW id
  PROVE  Switched(u, id, WindowSwitch(u, id))
<1>1. /\ u \in StateT /\ Listed(u) \subseteq Windows /\ u.current \in Windows
      /\ u.window[u.current].id \in Int /\ u.last \in Int /\ u.session \in Sessions \cup {None}
      /\ \A x \in Windows : u.window[x].session \in Sessions \cup {None}
  BY ShapeFacts, TypeFacts
<1> DEFINE w == First(u, {v \in Docked(u) : u.window[v].id = id})
<1>2. /\ w = None => \A x \in Listed(u) : u.window[x].id = id => u.window[x].floating
      /\ w # None => w \in Listed(u) /\ ~u.window[w].floating /\ u.window[w].id = id
  BY <1>1, FirstFacts DEF Docked
<1>3. CASE w = None
  <2>1. WindowSwitch(u, id) = u
    BY <1>3 DEF WindowSwitch
  <2>2. InPlace(u, u)
    BY <1>1 DEF InPlace
  <2> QED BY <1>2, <1>3, <2>1, <2>2 DEF Switched
<1>4. CASE w # None
  <2>1. PICK last \in Int : last = IF id # u.window[u.current].id THEN u.window[u.current].id ELSE u.last
    BY <1>1
  <2>2. PICK s \in Sessions \cup {None} :
          s = IF id # 0 /\ u.window[w].session # None THEN u.window[w].session ELSE u.session
    BY <1>1, <1>2, <1>4
  <2>3. WindowSwitch(u, id) = [u EXCEPT !.last = last, !.session = s, !.current = w]
    BY <1>4, <2>1, <2>2, Zenon DEF WindowSwitch
  <2>4. PICK v : v = WindowSwitch(u, id)
    OBVIOUS
  <2>5. w \in Windows
    BY <1>1, <1>2, <1>4
  <2> HIDE DEF w
  <2>6. /\ v \in StateT /\ v.window = u.window /\ v.list = u.list /\ v.sessions = u.sessions
        /\ v.current = w /\ v.session = s
    BY <1>1, <2>3, <2>4, <2>5 DEF StateT
  <2>7. InPlace(u, v)
    BY <2>6 DEF InPlace
  <2>8. Shape(v)
    BY <1>2, <1>4, <2>6, <2>7, InPlaceShape
  <2> QED BY <1>2, <1>4, <2>2, <2>4, <2>6, <2>7, <2>8 DEF Switched
<1> QED BY <1>3, <1>4

-----------------------------------------------------------------------------
(* What is to be proved of a state, and what gives windows their sessions. *)

Live(u) ==
  /\ \A w \in Listed(u) : u.window[w].session \in u.sessions \cup {None}
  /\ u.session \in u.sessions \cup {None}

Sound(u) == Shape(u) /\ Live(u)

\* The session of the current window is session_current, but for s, which is being removed.
Leads(u, s) ==
  u.current # Debug /\ u.window[u.current].session \notin {None, s}
    => u.session = u.window[u.current].session

\* The status and the debug window have no target, and a session together.
Plain(u) == u.window[Status].target = NoTarget /\ u.window[Debug].target = NoTarget
Twin(u)  == u.window[Debug].session # None => u.window[Status].session # None

Follows(u) == Leads(u, None) /\ Plain(u) /\ Twin(u)

LEMMA SwitchKeeps ==
  ASSUME NEW u, Sound(u), NEW id
  PROVE  LET v == WindowSwitch(u, id)
         IN  /\ Sound(v) /\ \A s : Leads(u, s) => Leads(v, s)
             /\ Plain(u) => Plain(v)
             /\ Twin(u) => Twin(v)
<1>1. Shape(u) /\ Live(u) /\ Listed(u) \subseteq Windows
  BY ShapeFacts DEF Sound
<1>2. PICK v : v = WindowSwitch(u, id) /\ Switched(u, id, v)
  BY <1>1, WindowSwitchFacts
<1>3. /\ Listed(v) = Listed(u) /\ v.sessions = u.sessions /\ v.current \in Listed(u)
  BY <1>2 DEF Switched, InPlace, Listed, Shape
<1>4. Sound(v)
  BY <1>1, <1>2, <1>3 DEF Sound, Live, Switched
<1>5. ASSUME NEW s, Leads(u, s) PROVE Leads(v, s)
  <2>1. CASE v = u
    BY <1>5, <2>1
  <2>2. CASE /\ u.window[v.current].id = id
             /\ v.session = IF id # 0 /\ u.window[v.current].session # None
                            THEN u.window[v.current].session ELSE u.session
    <3>1. v.current # Debug => id # 0
      BY <1>1, <1>3, <2>2, ShapeFacts DEF Shape
    <3> QED BY <1>2, <1>3, <1>5, <2>2, <3>1 DEF Leads, Switched
  <2> QED BY <1>2, <2>1, <2>2 DEF Switched
<1>6. (Plain(u) => Plain(v)) /\ (Twin(u) => Twin(v))
  BY <1>2 DEF Switched, Plain, Twin
<1> QED BY <1>2, <1>4, <1>5, <1>6

\* A window and, for the status and the debug window, the other of them are given a session.
Shared(u, w, s, v) ==
  /\ InPlace(u, v) /\ v.current = u.current
  /\ \A x \in Windows :
       /\ v.window[x].target = u.window[x].target
       /\ \/ v.window[x] = u.window[x]
          \/ x \in {w, Status, Debug} /\ v.window[x].session = s /\ s # None
       /\ x # w /\ w \notin {Status, Debug} => v.window[x] = u.window[x]
  /\ s # None => v.window[w].session = s
  /\ s # None /\ u.window[w].session # s /\ w \in {Status, Debug}
       => v.window[Status].session = s /\ v.window[Debug].session = s
  /\ v.session = IF v.window[u.current].session # u.window[u.current].session
                 THEN s ELSE u.session

LEMMA SessionSetFacts ==
  ASSUME NEW u \in StateT, NEW w \in Windows, NEW s \in Sessions \cup {None}
  PROVE  Shared(u, w, s, WindowSessionSet(u, w, s))
<1>0. Status \in Windows /\ Debug \in Windows /\ Status # Debug /\ u.current \in Windows
  BY ConstantFacts, TypeFacts
<1>a. PICK v : v = WindowSessionSet(u, w, s)
  OBVIOUS
<1>1. CASE s = None \/ u.window[w].session = s
  <2>1. v = u
    BY <1>1, <1>a DEF WindowSessionSet
  <2> QED BY <1>1, <1>a, <2>1 DEF InPlace, Shared
<1>2. CASE ~(s = None \/ u.window[w].session = s) /\ w \notin {Status, Debug}
  <2>1. v = SetSession(u, w, s)
    BY <1>2, <1>a, Zenon DEF WindowSessionSet
  <2>2. Assigned(u, w, s, v)
    BY <2>1, SetSessionFacts
  <2> QED BY <1>0, <1>2, <1>a, <2>2 DEF Assigned, Shared
<1>3. ASSUME ~(s = None \/ u.window[w].session = s), NEW o \in {Status, Debug},
             w \in {Status, Debug} \ {o}, v = SetSession(SetSession(u, w, s), o, s)
      PROVE  Shared(u, w, s, v)
  <2>1. PICK m : m = SetSession(u, w, s) /\ Assigned(u, w, s, m)
    BY SetSessionFacts
  <2>2. m \in StateT /\ o \in Windows /\ o # w
    BY <1>0, <1>3, <2>1 DEF Assigned, InPlace
  <2>3. Assigned(m, o, s, v)
    BY <1>3, <2>1, <2>2, SetSessionFacts
  <2>4. InPlace(u, v)
    BY <2>1, <2>3 DEF Assigned, InPlace
  <2>5. /\ v.window[w].session = s /\ v.window[o].session = s
        /\ \A x \in Windows : x \notin {w, o} => v.window[x] = u.window[x]
        /\ m.window[o] = u.window[o]
    BY <1>3, <2>1, <2>2, <2>3 DEF Assigned
  <2>6. v.session = IF v.window[u.current].session # u.window[u.current].session
                    THEN s ELSE u.session
    BY <1>0, <1>3, <2>1, <2>2, <2>3, <2>5 DEF Assigned
  <2> QED BY <1>0, <1>3, <2>1, <2>3, <2>4, <2>5, <2>6 DEF Assigned, Shared
<1>4. CASE ~(s = None \/ u.window[w].session = s) /\ w = Status
  <2>1. v = SetSession(SetSession(u, w, s), Debug, s)
    BY <1>4, <1>a DEF WindowSessionSet
  <2> QED BY <1>0, <1>3, <1>4, <1>a, <2>1
<1>5. CASE ~(s = None \/ u.window[w].session = s) /\ w = Debug
  <2>1. v = SetSession(SetSession(u, w, s), Status, s)
    BY <1>0, <1>5, <1>a, Zenon DEF WindowSessionSet
  <2> QED BY <1>0, <1>3, <1>5, <1>a, <2>1
<1> QED BY <1>1, <1>2, <1>4, <1>5

LEMMA SessionSetKeeps ==
  ASSUME NEW u, Sound(u), NEW w \in Listed(u), ~u.window[w].floating,
         NEW s \in u.sessions \cup {None}
  PROVE  LET v == WindowSessionSet(u, w, s)
         IN  /\ Sound(v) /\ \A r : Leads(u, r) => Leads(v, r)
             /\ Plain(u) => Plain(v)
             /\ Twin(u) => Twin(v)
<1>1. /\ Shape(u) /\ Live(u) /\ u \in StateT /\ Listed(u) \subseteq Windows
      /\ s \in Sessions \cup {None} /\ w \in Windows
      /\ Status \in Windows /\ Debug \in Windows /\ Status # Debug /\ u.current \in Windows
      /\ ~u.window[Status].floating /\ ~u.window[Debug].floating
      /\ Status \in Listed(u) /\ Debug \in Listed(u)
  BY ShapeFacts, ConstantFacts, TypeFacts DEF Sound, Shape
<1>2. PICK v : v = WindowSessionSet(u, w, s) /\ Shared(u, w, s, v)
  BY <1>1, SessionSetFacts
<1>3. Shape(v) /\ Listed(v) = Listed(u)
  <2>1. \A x \in Windows : u.window[x].floating \/ x \notin Listed(u) => v.window[x] = u.window[x]
    BY <1>1, <1>2 DEF Shared
  <2>2. v.current \in Listed(u) /\ ~v.window[v.current].floating
    BY <1>1, <1>2 DEF Shared, Shape, InPlace
  <2> QED BY <1>1, <1>2, <2>1, <2>2, InPlaceShape DEF Shared
<1>4. v.sessions = u.sessions
  BY <1>2 DEF Shared, InPlace
<1>5. Live(v)
  BY <1>1, <1>2, <1>3, <1>4 DEF Shared, Live
<1>6. \A r : Leads(u, r) => Leads(v, r)
  BY <1>1, <1>2 DEF Shared, Leads
<1>7. Plain(u) => Plain(v)
  BY <1>1, <1>2 DEF Shared, Plain
<1>8. ASSUME Twin(u), v.window[Debug].session # None PROVE v.window[Status].session # None
  <2>1. CASE v.window[Debug] = u.window[Debug]
    BY <1>1, <1>2, <1>8, <2>1 DEF Shared, Twin
  <2>2. CASE v.window[Debug] # u.window[Debug]
    <3>1. s # None /\ w \in {Status, Debug}
      BY <1>1, <1>2, <2>2 DEF Shared
    <3>2. CASE u.window[w].session # s
      BY <1>2, <3>1, <3>2 DEF Shared
    <3>3. CASE u.window[w].session = s
      BY <1>2, <2>2, <3>1, <3>3, Zenon DEF WindowSessionSet
    <3> QED BY <3>2, <3>3
  <2> QED BY <2>1, <2>2
<1> QED BY <1>2, <1>3, <1>5, <1>6, <1>7, <1>8 DEF Sound, Twin

-----------------------------------------------------------------------------
(* One window's session or target is set.                                  *)

WithSession(u, w, s) == [u EXCEPT !.window[w].session = s]
WithTarget(u, w, t)  == [u EXCEPT !.window[w].target = t]

Altered(u, w, v) ==
  /\ InPlace(u, v) /\ v.current = u.current /\ v.session = u.session
  /\ \A x \in Windows : x # w => v.window[x] = u.window[x]

LEMMA AlteredShape ==
  ASSUME NEW u, Shape(u), NEW w \in Listed(u), ~u.window[w].floating, NEW v, Altered(u, w, v)
  PROVE  Shape(v) /\ Listed(v) = Listed(u)
<1>1. Listed(u) \subseteq Windows /\ InPlace(u, v) /\ v.current = u.current
  BY ShapeFacts DEF Altered
<1>2. \A x \in Windows : u.window[x].floating \/ x \notin Listed(u) => v.window[x] = u.window[x]
  BY DEF Altered
<1>3. v.current \in Listed(u) /\ ~v.window[v.current].floating
  BY <1>1 DEF Shape, InPlace
<1> QED BY <1>1, <1>2, <1>3, InPlaceShape

LEMMA WithSessionFacts ==
  ASSUME NEW u \in StateT, NEW w \in Windows, NEW s \in Sessions \cup {None}
  PROVE  LET v == WithSession(u, w, s)
         IN  /\ Altered(u, w, v) /\ v.window[w].session = s
             /\ v.window[w].target = u.window[w].target
<1>1. PICK ss \in Sessions \cup {None} : ss = u.session
  BY TypeFacts
<1>2. PICK v : v = Give(u, w, s, ss) /\ Given(u, w, s, ss, v)
  BY GiveFacts
<1>3. v = WithSession(u, w, s)
  BY <1>1, <1>2 DEF Give, WithSession, StateT
<1> QED BY <1>1, <1>2, <1>3 DEF Given, Altered

LEMMA TargetedFacts ==
  ASSUME NEW r \in WindowT, NEW t \in Targets \cup {NoTarget}
  PROVE  LET q == [r EXCEPT !.target = t]
         IN  /\ q \in WindowT /\ q.id = r.id /\ q.target = t
             /\ q.floating = r.floating /\ q.session = r.session
BY DEF WindowT

LEMMA WithTargetFacts ==
  ASSUME NEW u \in StateT, NEW w \in Windows, NEW t \in Targets \cup {NoTarget}
  PROVE  LET v == WithTarget(u, w, t)
         IN  /\ Altered(u, w, v) /\ v.window[w].target = t
             /\ v.window[w].session = u.window[w].session
<1>1. u.window \in [Windows -> WindowT] /\ u.window[w] \in WindowT
  BY TypeFacts
<1>2. LET q == [u.window[w] EXCEPT !.target = t]
      IN  /\ q \in WindowT /\ q.id = u.window[w].id /\ q.target = t
          /\ q.floating = u.window[w].floating /\ q.session = u.window[w].session
  BY <1>1, TargetedFacts
<1>3. PICK r \in WindowT : /\ r = [u.window[w] EXCEPT !.target = t]
                           /\ r.id = u.window[w].id /\ r.target = t
                           /\ r.floating = u.window[w].floating
                           /\ r.session = u.window[w].session
  BY <1>2, Zenon
<1>4. LET q == [u.window EXCEPT ![w] = r]
      IN  /\ q \in [Windows -> WindowT] /\ q[w] = r
          /\ \A x \in Windows : x # w => q[x] = u.window[x]
  BY <1>1, ReplaceFacts
<1>5. PICK wd \in [Windows -> WindowT] :
        /\ wd = [u.window EXCEPT ![w] = r] /\ wd[w] = r
        /\ \A x \in Windows : x # w => wd[x] = u.window[x]
  BY <1>4, Zenon
<1>6. WithTarget(u, w, t) = [u EXCEPT !.window = wd]
  BY <1>3, <1>5, Zenon DEF WithTarget
<1>7. [u EXCEPT !.window = wd] = Put(u, wd, u.session)
  BY DEF Put, StateT
<1>8. PICK v : v = Put(u, wd, u.session)
  OBVIOUS
<1>9. /\ v \in StateT /\ v.window = wd /\ v.session = u.session
      /\ v.list = u.list /\ v.current = u.current /\ v.sessions = u.sessions
  BY <1>8, TypeFacts, PutFacts
<1>10. \A x \in Windows : /\ v.window[x].id = u.window[x].id
                          /\ v.window[x].floating = u.window[x].floating
  BY <1>3, <1>5, <1>9
<1>11. Altered(u, w, v) /\ v.window[w].target = t /\ v.window[w].session = u.window[w].session
  BY <1>3, <1>5, <1>9, <1>10 DEF Altered, InPlace
<1> QED BY <1>6, <1>7, <1>8, <1>11

LEMMA WithSessionKeeps ==
  ASSUME NEW u, Sound(u), NEW w \in Listed(u), ~u.window[w].floating,
         NEW s \in u.sessions \cup {None}
  PROVE  LET v == WithSession(u, w, s)
         IN  /\ Sound(v) /\ Listed(v) = Listed(u) /\ Altered(u, w, v)
             /\ v.window[w].session = s /\ v.window[w].target = u.window[w].target
             /\ Plain(u) => Plain(v)
             /\ w \notin {Status, Debug} /\ Twin(u) => Twin(v)
<1>1. /\ Shape(u) /\ Live(u) /\ u \in StateT /\ w \in Windows /\ s \in Sessions \cup {None}
      /\ Listed(u) \subseteq Windows /\ Status \in Windows /\ Debug \in Windows
  BY ShapeFacts, TypeFacts, ConstantFacts DEF Sound
<1>2. PICK v : /\ v = WithSession(u, w, s) /\ Altered(u, w, v) /\ v.window[w].session = s
               /\ v.window[w].target = u.window[w].target
  BY <1>1, WithSessionFacts
<1>3. Shape(v) /\ Listed(v) = Listed(u)
  BY <1>1, <1>2, AlteredShape
<1>4. Live(v)
  BY <1>1, <1>2, <1>3 DEF Live, Altered, InPlace
<1>5. (Plain(u) => Plain(v)) /\ (w \notin {Status, Debug} /\ Twin(u) => Twin(v))
  BY <1>1, <1>2 DEF Plain, Twin, Altered
<1> QED BY <1>2, <1>3, <1>4, <1>5 DEF Sound

LEMMA WithTargetKeeps ==
  ASSUME NEW u, Sound(u), NEW w \in Listed(u), ~u.window[w].floating,
         NEW t \in Targets \cup {NoTarget}
  PROVE  LET v == WithTarget(u, w, t)
         IN  /\ Sound(v) /\ Listed(v) = Listed(u) /\ Altered(u, w, v)
             /\ v.window[w].session = u.window[w].session
             /\ \A s : Leads(u, s) => Leads(v, s)
             /\ (u.window[w].target = NoTarget => t = NoTarget) /\ Plain(u) => Plain(v)
             /\ Twin(u) => Twin(v)
<1>1. /\ Shape(u) /\ Live(u) /\ u \in StateT /\ w \in Windows /\ u.current \in Windows
      /\ Listed(u) \subseteq Windows /\ Status \in Windows /\ Debug \in Windows
  BY ShapeFacts, TypeFacts, ConstantFacts DEF Sound
<1>2. PICK v : /\ v = WithTarget(u, w, t) /\ Altered(u, w, v) /\ v.window[w].target = t
               /\ v.window[w].session = u.window[w].session
  BY <1>1, WithTargetFacts
<1>3. Shape(v) /\ Listed(v) = Listed(u)
  BY <1>1, <1>2, AlteredShape
<1>4. \A x \in Windows : v.window[x].session = u.window[x].session
  BY <1>2 DEF Altered
<1>5. Live(v)
  BY <1>1, <1>2, <1>3, <1>4 DEF Live, Altered, InPlace
<1>6. /\ (u.window[w].target = NoTarget => t = NoTarget) /\ Plain(u) => Plain(v)
      /\ Twin(u) => Twin(v)
  BY <1>1, <1>2, <1>4 DEF Plain, Twin, Altered
<1>7. \A s : Leads(u, s) => Leads(v, s)
  BY <1>1, <1>2, <1>4 DEF Leads, Altered
<1> QED BY <1>2, <1>3, <1>4, <1>5, <1>6, <1>7 DEF Sound

-----------------------------------------------------------------------------
(* The session of a window is cycled.                                      *)

LEMMA NameFacts ==
  ASSUME NEW s \in Sessions \cup {None}, NEW t \in Targets \cup {NoTarget}
  PROVE  /\ GetUid(s, t) \in Targets \cup {NoTarget}
         /\ s # None => GetNick(s, t) \in Targets \cup {NoTarget}
         /\ GetUid(s, NoTarget) = NoTarget /\ GetNick(s, NoTarget) = NoTarget
<1>1. /\ \A k \in Sessions, x \in Targets : /\ UidOf[k][x] \in Targets \cup {NoTarget}
                                            /\ NickOf[k][x] \in Targets \cup {NoTarget}
  BY Constants
<1> QED BY <1>1 DEF GetUid, GetNick

\* The window that is cycled, made ready.
Ready(u, w, allow, m) ==
  /\ Sound(m) /\ Listed(m) = Listed(u) /\ InPlace(u, m)
  /\ Cycled(u, w, allow) \in Listed(u) /\ ~m.window[Cycled(u, w, allow)].floating
  /\ \A x \in Windows : m.window[x].target = u.window[x].target
  /\ \A x \in Windows : x # Status => m.window[x] = u.window[x]
  /\ m.window[Cycled(u, w, allow)].session = u.window[w].session
  /\ allow # 4 => m = u
  /\ allow = 4 =>
       /\ m.current = Status
       /\ m.session = IF u.window[Status].session # None THEN u.window[Status].session
                      ELSE u.session

LEMMA PreparedFacts ==
  ASSUME NEW u, Sound(u), NEW w \in Listed(u), ~u.window[w].floating, NEW allow
  PROVE  Ready(u, w, allow, Prepared(u, w, allow))
<1>1. /\ Shape(u) /\ Live(u) /\ Listed(u) \subseteq Windows /\ u \in StateT
      /\ Status \in Windows /\ Status \in Listed(u) /\ u.window[Status].id = 1
      /\ ~u.window[Status].floating
      /\ \A x, y \in Listed(u) : u.window[x].id = u.window[y].id => x = y
  BY ShapeFacts, ConstantFacts DEF Sound, Shape
<1>2. CASE allow # 4
  <2>1. Prepared(u, w, allow) = u /\ Cycled(u, w, allow) = w /\ InPlace(u, u)
    BY <1>1, <1>2 DEF Prepared, Cycled, InPlace
  <2> QED BY <1>1, <1>2, <2>1 DEF Ready
<1>3. CASE allow = 4
  <2>1. PICK x : /\ x = WindowSwitch(u, 1) /\ Switched(u, 1, x) /\ Sound(x)
    BY <1>1, WindowSwitchFacts, SwitchKeeps
  <2>2. /\ Listed(x) = Listed(u) /\ InPlace(u, x) /\ x.window = u.window
        /\ x.sessions = u.sessions /\ x.current \in Listed(u) /\ Shape(x)
    BY <2>1 DEF Switched, InPlace, Listed, Shape
  <2>3. /\ x.current = Status
        /\ x.session = IF u.window[Status].session # None THEN u.window[Status].session
                       ELSE u.session
    BY <1>1, <2>1, <2>2 DEF Switched
  <2>4. u.window[w].session \in x.sessions \cup {None}
    BY <1>1, <2>2 DEF Live
  <2>5. PICK m : /\ m = WithSession(x, Status, u.window[w].session)
                 /\ Sound(m) /\ Listed(m) = Listed(x) /\ Altered(x, Status, m)
                 /\ m.window[Status].session = u.window[w].session
                 /\ m.window[Status].target = x.window[Status].target
    BY <1>1, <2>1, <2>2, <2>4, WithSessionKeeps
  <2>6. Prepared(u, w, allow) = m /\ Cycled(u, w, allow) = Status
    BY <1>3, <2>1, <2>5 DEF Prepared, Cycled, WithSession
  <2>7. /\ InPlace(u, m) /\ ~m.window[Status].floating
        /\ m.current = Status /\ m.session = x.session
        /\ \A y \in Windows : y # Status => m.window[y] = u.window[y]
    <3>1. InPlace(x, m) /\ m.current = x.current /\ m.session = x.session
      BY <2>5 DEF Altered
    <3>2. \A y \in Windows : y # Status => m.window[y] = x.window[y]
      BY <2>5 DEF Altered
    <3>3. InPlace(u, m)
      BY <2>2, <2>3, <3>1 DEF InPlace
    <3>4. ~m.window[Status].floating
      BY <1>1, <3>3 DEF InPlace
    <3>5. m.current = Status
      BY <2>2, <2>3, <3>1
    <3>6. \A y \in Windows : y # Status => m.window[y] = u.window[y]
      BY <2>2, <2>3, <3>2
    <3> QED BY <3>1, <3>3, <3>4, <3>5, <3>6
  <2>8. \A y \in Windows : m.window[y].target = u.window[y].target
    BY <2>2, <2>5, <2>7
  <2> QED BY <1>1, <1>3, <2>2, <2>3, <2>5, <2>6, <2>7, <2>8 DEF Ready
<1> QED BY <1>2, <1>3

\* What the cycle makes of u, when it does not depend on what sessions know.
Turned(u, w, allow, v) ==
  \/ /\ v = u
     /\ \/ u.sessions = {} \/ u.window[w].target # NoTarget
        \/ allow = 4 /\ u.window[Status].target # NoTarget
  \/ /\ u.sessions # {}
     /\ \E m : /\ Ready(u, w, allow, m)
               /\ \/ v = m /\ u.sessions \subseteq {u.window[w].session}
                  \/ \E new \in u.sessions, t \in Targets \cup {NoTarget} :
                       /\ new # u.window[w].session
                       /\ u.window[w].session = None => new = Min(u.sessions)
                       /\ m.window[Cycled(u, w, allow)].target = NoTarget => t = NoTarget
                       /\ v = WindowSessionSet(WithTarget(m, Cycled(u, w, allow), t),
                                               Cycled(u, w, allow), new)

LEMMA CycleFacts ==
  ASSUME NEW u, Sound(u), NEW w \in Listed(u), ~u.window[w].floating, NEW allow \in {0, 2, 4}
  PROVE  Turned(u, w, allow, WindowSessionCycle(u, w, allow))
<1> DEFINE m == Prepared(u, w, allow)
           o == Cycled(u, w, allow)
           own == m.window[o].session
           target == m.window[o].target
           known == GetUid(own, target)
           uid == IF known = NoTarget THEN target ELSE known
           fit == {s \in m.sessions \ {own} :
                     allow = 2 \/ target = NoTarget \/ (allow # 0 /\ GetUid(s, uid) # NoTarget)}
           new == Foremost(m, own, fit)
           nick == GetNick(new, uid)
           t == IF nick # NoTarget THEN nick ELSE uid
           early == \/ u.sessions = {}
                    \/ (allow = 0 /\ u.window[w].target # NoTarget)
                    \/ (allow = 4 /\ u.window[Status].target # NoTarget)
<1>a. PICK v : v = WindowSessionCycle(u, w, allow)
  OBVIOUS
<1>1. v = IF early THEN u
          ELSE IF fit = {} THEN m ELSE WindowSessionSet(WithTarget(m, o, t), o, new)
  BY <1>a DEF WindowSessionCycle, WithTarget
<1>2. CASE early
  BY <1>1, <1>2, <1>a DEF Turned
<1>3. CASE ~early
  <2>1. Ready(u, w, allow, m)
    BY PreparedFacts
  <2>2. /\ m.sessions = u.sessions /\ m \in StateT /\ o \in Windows /\ o \in Listed(u)
        /\ own = u.window[w].session /\ m.sessions \subseteq Sessions
        /\ own \in Sessions \cup {None} /\ target \in Targets \cup {NoTarget}
        /\ target = u.window[o].target
    <3>1. m.sessions = u.sessions /\ m \in StateT /\ o \in Listed(u) /\ own = u.window[w].session
      BY <2>1 DEF Ready, InPlace
    <3>2. Listed(u) \subseteq Windows
      BY ShapeFacts DEF Sound
    <3>3. o \in Windows
      BY <3>1, <3>2
    <3> HIDE DEF m, o
    <3> QED BY <2>1, <3>1, <3>3, TypeFacts DEF Ready
  <2>3. fit = u.sessions \ {own}
    <3>1. allow = 2 \/ target = NoTarget
      <4>1. CASE allow = 0
        BY <1>3, <2>2, <4>1 DEF Cycled
      <4>2. CASE allow = 4
        BY <1>3, <2>2, <4>2 DEF Cycled
      <4> QED BY <4>1, <4>2
    <3> QED BY <2>2, <3>1
  <2>4. CASE fit = {}
    <3>1. v = m
      BY <1>1, <1>3, <2>4
    <3>2. u.sessions \subseteq {u.window[w].session}
      BY <2>2, <2>3, <2>4
    <3>3. u.sessions # {}
      BY <1>3
    <3> HIDE DEF m
    <3> QED BY <1>a, <2>1, <3>1, <3>2, <3>3 DEF Turned
  <2>5. CASE fit # {}
    <3>1. v = WindowSessionSet(WithTarget(m, o, t), o, new)
      BY <1>1, <1>3, <2>5
    <3>2. new \in fit /\ (own = None => new = Min(u.sessions))
      <4>1. fit \in SUBSET Nat /\ fit \subseteq Sessions
        BY <2>2, ConstantFacts
      <4> DEFINE B == {s \in fit : own \in m.sessions /\ s > own}
      <4>2. new = Min(IF B = {} THEN fit ELSE B)
        BY DEF Foremost
      <4>3. B \in SUBSET Nat /\ B \subseteq fit
        BY <4>1
      <4>4. own = None => B = {} /\ fit = u.sessions
        BY <2>2, <2>3, ConstantFacts
      <4> HIDE DEF fit, B, new, own
      <4>5. CASE B = {}
        BY <2>5, <4>1, <4>2, <4>4, <4>5, MinFacts
      <4>6. CASE B # {}
        <5>1. Min(B) \in B
          BY <4>3, <4>6, MinFacts
        <5> QED BY <4>2, <4>3, <4>4, <4>6, <5>1
      <4> QED BY <4>5, <4>6
    <3>3. new \in u.sessions /\ new # u.window[w].session /\ new \in Sessions
      BY <2>2, <2>3, <3>2
    <3>4. t \in Targets \cup {NoTarget} /\ (target = NoTarget => t = NoTarget)
      <4> HIDE DEF new, own, target
      <4>1. known \in Targets \cup {NoTarget} /\ (target = NoTarget => known = NoTarget)
        BY <2>2, NameFacts
      <4>2. uid \in Targets \cup {NoTarget} /\ (target = NoTarget => uid = NoTarget)
        BY <2>2, <4>1
      <4> HIDE DEF known, uid
      <4>3. nick \in Targets \cup {NoTarget} /\ (uid = NoTarget => nick = NoTarget)
        BY <3>3, <4>2, NameFacts, ConstantFacts
      <4> QED BY <4>2, <4>3
    <3>5. u.sessions # {}
      BY <1>3
    <3> HIDE DEF m, o, t, new, fit, own, target
    <3>6. own = None => new = Min(u.sessions)
      BY <3>2
    <3>7. u.window[w].session = None => new = Min(u.sessions)
      BY <2>2, <3>6
    <3>8. m.window[o].target = NoTarget => t = NoTarget
      BY <3>4 DEF target
    <3> QED BY <1>a, <2>1, <3>1, <3>3, <3>4, <3>5, <3>7, <3>8 DEF Turned, o
  <2> QED BY <2>4, <2>5
<1> QED BY <1>2, <1>3

\* A window is turned from its session to the session new.
Moved(u, w, allow, new, v) ==
  /\ Sound(v) /\ InPlace(u, v)
  /\ v.window[Cycled(u, w, allow)].session = new
  /\ \A x \in Windows : v.window[x].session \in {u.window[x].session, new}
  /\ Cycled(u, w, allow) \in {Status, Debug}
       => v.window[Status].session = new /\ v.window[Debug].session = new
  /\ Plain(u) => Plain(v)
  /\ allow = 4 => v.current = Status /\ v.session = new
  /\ allow # 4 => /\ v.session \in {u.session, new}
                  /\ Twin(u) => Twin(v)
                  /\ \A s : Leads(u, s) => Leads(v, s)

LEMMA MovedFacts ==
  ASSUME NEW u, Sound(u), NEW w \in Listed(u), NEW allow, NEW m, Ready(u, w, allow, m),
         NEW new \in u.sessions, new # u.window[w].session, NEW t \in Targets \cup {NoTarget},
         m.window[Cycled(u, w, allow)].target = NoTarget => t = NoTarget
  PROVE  Moved(u, w, allow, new, WindowSessionSet(WithTarget(m, Cycled(u, w, allow), t),
                                                  Cycled(u, w, allow), new))
<1>1. PICK o : o = Cycled(u, w, allow)
  OBVIOUS
<1>2. /\ Sound(m) /\ Listed(m) = Listed(u) /\ InPlace(u, m) /\ m.sessions = u.sessions
      /\ o \in Listed(u) /\ ~m.window[o].floating /\ Listed(u) \subseteq Windows
      /\ m.window[o].session = u.window[w].session
      /\ Status \in Windows /\ Debug \in Windows /\ new # None /\ new \in Sessions
      /\ u.current \in Windows /\ m.current \in Windows /\ u.sessions \subseteq Sessions
      /\ \A x \in Windows : m.window[x].target = u.window[x].target
      /\ \A x \in Windows : x # Status => m.window[x] = u.window[x]
      /\ allow # 4 => m = u
      /\ allow = 4 => m.current = Status /\ o = Status
  <2>1. /\ Sound(m) /\ Listed(m) = Listed(u) /\ InPlace(u, m) /\ m.sessions = u.sessions
        /\ o \in Listed(u) /\ ~m.window[o].floating /\ Listed(u) \subseteq Windows
        /\ m.window[o].session = u.window[w].session /\ u \in StateT /\ m \in StateT
        /\ allow = 4 => o = Status
    BY <1>1, ShapeFacts DEF Ready, InPlace, Sound, Cycled
  <2>2. /\ \A x \in Windows : m.window[x].target = u.window[x].target
        /\ \A x \in Windows : x # Status => m.window[x] = u.window[x]
        /\ allow # 4 => m = u
        /\ allow = 4 => m.current = Status
    BY DEF Ready
  <2>3. /\ u.current \in Windows /\ m.current \in Windows /\ u.sessions \subseteq Sessions
        /\ Status \in Windows /\ Debug \in Windows /\ None \notin Sessions
    BY <2>1, TypeFacts, ConstantFacts
  <2> QED BY <2>1, <2>2, <2>3
<1>3. PICK n : /\ n = WithTarget(m, o, t) /\ Sound(n) /\ Listed(n) = Listed(m) /\ Altered(m, o, n)
               /\ n.window[o].session = m.window[o].session
               /\ \A s : Leads(m, s) => Leads(n, s)
               /\ (m.window[o].target = NoTarget => t = NoTarget) /\ Plain(m) => Plain(n)
               /\ Twin(m) => Twin(n)
  BY <1>2, WithTargetKeeps
<1>4. /\ InPlace(m, n) /\ n.sessions = m.sessions /\ n.current = m.current
      /\ n.session = m.session /\ n \in StateT /\ ~n.window[o].floating
      /\ \A x \in Windows : n.window[x].session = m.window[x].session
  BY <1>2, <1>3 DEF Altered, InPlace
<1>5. PICK v : /\ v = WindowSessionSet(n, o, new) /\ Sound(v) /\ Shared(n, o, new, v)
               /\ \A s : Leads(n, s) => Leads(v, s)
               /\ Plain(n) => Plain(v)
               /\ Twin(n) => Twin(v)
  <2>1. o \in Listed(n) /\ o \in Windows /\ new \in n.sessions \cup {None}
        /\ new \in Sessions \cup {None}
    BY <1>2, <1>3, <1>4
  <2> QED BY <1>3, <1>4, <2>1, SessionSetFacts, SessionSetKeeps
<1>6. InPlace(u, v)
  BY <1>2, <1>4, <1>5 DEF Shared, InPlace
<1>7. v.window[o].session = new
  BY <1>2, <1>5 DEF Shared
<1>8. \A x \in Windows : v.window[x].session \in {u.window[x].session, new}
  <2> SUFFICES ASSUME NEW x \in Windows PROVE v.window[x].session \in {u.window[x].session, new}
    OBVIOUS
  <2>1. v.window[x].session \in {n.window[x].session, new}
    BY <1>5 DEF Shared
  <2>2. n.window[x].session = u.window[x].session \/ (x = o /\ v.window[x].session = new)
    BY <1>2, <1>4, <1>7
  <2> QED BY <2>1, <2>2
<1>9. o \in {Status, Debug} => v.window[Status].session = new /\ v.window[Debug].session = new
  BY <1>2, <1>3, <1>5 DEF Shared
<1>10. Plain(u) => Plain(v)
  <2>1. Plain(u) => Plain(m)
    BY <1>2 DEF Plain
  <2> QED BY <1>1, <1>3, <1>5, <2>1
<1>11. ASSUME allow = 4 PROVE v.current = Status /\ v.session = new
  <2>1. v.current = Status /\ o = Status
    BY <1>2, <1>4, <1>5, <1>11 DEF Shared
  <2>2. n.window[Status].session # new
    BY <1>2, <1>3, <2>1
  <2> QED BY <1>2, <1>4, <1>5, <1>7, <1>11, <2>1, <2>2 DEF Shared
<1>12. ASSUME allow # 4
       PROVE  /\ v.session \in {u.session, new}
              /\ Twin(u) => Twin(v)
              /\ \A s : Leads(u, s) => Leads(v, s)
  <2>1. m = u
    BY <1>2, <1>12
  <2>2. v.session \in {u.session, new}
    BY <1>4, <1>5, <2>1 DEF Shared
  <2> QED BY <1>3, <1>5, <2>1, <2>2
<1> QED BY <1>1, <1>3, <1>5, <1>6, <1>7, <1>8, <1>9, <1>10, <1>11, <1>12 DEF Moved

LEMMA CycleKeeps ==
  ASSUME NEW u, Sound(u), NEW w \in Listed(u), ~u.window[w].floating, NEW allow \in {0, 2, 4}
  PROVE  LET v == WindowSessionCycle(u, w, allow)
         IN  Sound(v) /\ (w = u.current /\ Follows(u) => Follows(v))
<1>1. PICK v : v = WindowSessionCycle(u, w, allow) /\ Turned(u, w, allow, v)
  BY CycleFacts
<1>2. CASE v = u
  BY <1>1, <1>2
<1>3. ASSUME NEW m, Ready(u, w, allow, m), v = m, u.sessions # {},
             u.sessions \subseteq {u.window[w].session}
      PROVE  Sound(v) /\ (w = u.current /\ Follows(u) => Follows(v))
  <2>1. Sound(v)
    BY <1>3 DEF Ready
  <2>2. CASE allow # 4
    <3>1. v = u
      BY <1>3, <2>2 DEF Ready
    <3> QED BY <3>1
  <2>3. CASE allow = 4
    <3>1. /\ v.current = Status /\ v.window[Status].session = u.window[w].session
          /\ v.session = IF u.window[Status].session # None THEN u.window[Status].session
                         ELSE u.session
          /\ \A x \in Windows : v.window[x].target = u.window[x].target
      BY <1>3, <2>3 DEF Ready, Cycled
    <3>2. /\ Live(u) /\ Status \in Listed(u) /\ Status \in Windows /\ Debug \in Windows
          /\ u.window[w].session # None /\ u.sessions = {u.window[w].session}
      <4>1. None \notin u.sessions
        BY ShapeFacts, TypeFacts, ConstantFacts DEF Sound
      <4> QED BY <1>3, <4>1, ConstantFacts DEF Sound, Shape
    <3>3. ASSUME w = u.current, Follows(u) PROVE Follows(v)
      <4>1. v.session = u.window[w].session
        <5>1. CASE u.window[Status].session # None
          BY <3>1, <3>2, <5>1 DEF Live
        <5>2. CASE u.window[Status].session = None
          BY <3>1, <3>2, <3>3, <5>2 DEF Follows, Twin, Leads
        <5> QED BY <5>1, <5>2
      <4> QED BY <3>1, <3>2, <3>3, <4>1 DEF Follows, Leads, Plain, Twin
    <3> QED BY <2>1, <3>3
  <2> QED BY <2>2, <2>3
<1>4. ASSUME NEW m, Ready(u, w, allow, m),
             NEW new \in u.sessions, NEW t \in Targets \cup {NoTarget},
             new # u.window[w].session,
             m.window[Cycled(u, w, allow)].target = NoTarget => t = NoTarget,
             v = WindowSessionSet(WithTarget(m, Cycled(u, w, allow), t),
                                  Cycled(u, w, allow), new)
      PROVE  Sound(v) /\ (w = u.current /\ Follows(u) => Follows(v))
  <2>1. Moved(u, w, allow, new, v)
    BY <1>4, MovedFacts
  <2>2. CASE allow # 4
    BY <2>1, <2>2 DEF Moved, Follows
  <2>3. CASE allow = 4
    BY <2>1, <2>3 DEF Moved, Follows, Cycled, Leads, Twin
  <2> QED BY <2>2, <2>3
<1>5. \/ v = u
      \/ /\ u.sessions # {}
         /\ \E m : /\ Ready(u, w, allow, m)
                   /\ \/ v = m /\ u.sessions \subseteq {u.window[w].session}
                      \/ \E new \in u.sessions, t \in Targets \cup {NoTarget} :
                           /\ new # u.window[w].session
                           /\ m.window[Cycled(u, w, allow)].target = NoTarget => t = NoTarget
                           /\ v = WindowSessionSet(WithTarget(m, Cycled(u, w, allow), t),
                                                   Cycled(u, w, allow), new)
  BY <1>1 DEF Turned
<1> QED BY <1>1, <1>2, <1>3, <1>4, <1>5

\* What is so between two windows while a session is being removed.
Leaving(u, s) ==
  /\ Sound(u) /\ s \in u.sessions /\ u.session # s
  /\ u.sessions = {s} \/ s # Min(u.sessions)

\* The session s has been taken from window w; other windows have not been given it.
Left(u, w, s, v) ==
  /\ Leaving(v, s) /\ InPlace(u, v)
  /\ v.window[w].session # s
  /\ \A x \in Windows : u.window[x].session # s => v.window[x].session # s
  /\ /\ Leads(u, s) /\ Plain(u) /\ (u.sessions # {s} => Twin(u))
     => /\ Leads(v, s) /\ Plain(v) /\ (u.sessions # {s} => Twin(v))

LEMMA BereftFacts ==
  ASSUME NEW u, NEW s, Leaving(u, s), NEW w \in Listed(u), NEW allow \in {0, 2, 4}
  PROVE  Left(u, w, s, Bereft(u, w, s, allow))
<1>0. /\ Sound(u) /\ Shape(u) /\ Live(u) /\ s \in u.sessions /\ w \in Windows /\ s # None /\ u \in StateT
      /\ Status \in Windows /\ Debug \in Windows /\ Status # Debug /\ u.current \in Windows
      /\ s \in Sessions
  <2>1. /\ Sound(u) /\ Shape(u) /\ Live(u) /\ s \in u.sessions /\ w \in Windows /\ u \in StateT
    BY ShapeFacts DEF Leaving, Sound
  <2> QED BY <2>1, TypeFacts, ConstantFacts
<1>a. PICK v : v = Bereft(u, w, s, allow)
  OBVIOUS
<1>1. CASE u.window[w].session # s
  <2>1. v = u
    BY <1>1, <1>a DEF Bereft
  <2> QED BY <1>0, <1>1, <1>a, <2>1 DEF Left, InPlace
<1>2. CASE u.window[w].session = s
  <2>1. ~u.window[w].floating
    BY <1>0, <1>2 DEF Shape, Proper
  <2>2. PICK left :
          /\ left = WithSession(u, w, None) /\ Sound(left) /\ Listed(left) = Listed(u)
          /\ Altered(u, w, left) /\ left.window[w].session = None
          /\ left.window[w].target = u.window[w].target
          /\ Plain(u) => Plain(left)
          /\ w \notin {Status, Debug} /\ Twin(u) => Twin(left)
    BY <1>0, <2>1, WithSessionKeeps
  <2>3. /\ InPlace(u, left) /\ left.current = u.current /\ left.session = u.session
        /\ left.sessions = u.sessions /\ ~left.window[w].floating
        /\ \A x \in Windows : x # w => left.window[x] = u.window[x]
    BY <1>0, <2>1, <2>2 DEF Altered, InPlace
  <2>4. Leads(u, s) => Leads(left, s)
    BY <1>0, <2>2, <2>3 DEF Leads
  <2>5. Leaving(left, s)
    BY <2>2, <2>3 DEF Leaving
  <2>6. \A x \in Windows : u.window[x].session # s => left.window[x].session # s
    BY <1>0, <2>2, <2>3
  <2>7. CASE u.sessions = {s}
    <3>1. v = left
      BY <1>2, <1>a, <2>2, <2>7 DEF Bereft, WithSession
    <3> QED BY <1>0, <1>a, <2>2, <2>3, <2>4, <2>5, <2>6, <2>7, <3>1 DEF Left
  <2>8. CASE u.sessions # {s}
    <3>1. v = WindowSessionCycle(left, w, allow)
      BY <1>2, <1>a, <2>2, <2>8 DEF Bereft, WithSession
    <3>2. Turned(left, w, allow, v)
      BY <2>2, <2>3, <3>1, CycleFacts
    <3>3. CASE /\ v = left
               /\ \/ left.sessions = {} \/ left.window[w].target # NoTarget
                  \/ allow = 4 /\ left.window[Status].target # NoTarget
      <4>1. Plain(u) /\ Twin(u) => Twin(left)
        BY <1>0, <2>2, <2>3, <3>3 DEF Plain
      <4> QED BY <1>0, <1>a, <2>2, <2>3, <2>4, <2>5, <2>6, <3>3, <4>1 DEF Left
    <3>4. ASSUME NEW m, Ready(left, w, allow, m),
                 NEW new \in left.sessions, NEW t \in Targets \cup {NoTarget},
                 left.window[w].session = None => new = Min(left.sessions),
                 m.window[Cycled(left, w, allow)].target = NoTarget => t = NoTarget,
                 v = WindowSessionSet(WithTarget(m, Cycled(left, w, allow), t),
                                      Cycled(left, w, allow), new)
          PROVE  Left(u, w, s, v)
      <4>1. /\ new # s /\ new # None
        BY <1>0, <2>2, <2>3, <2>5, <2>8, <3>4, TypeFacts, ConstantFacts DEF Leaving
      <4>2. Moved(left, w, allow, new, v)
        BY <2>2, <3>4, <4>1, MovedFacts
      <4>3. /\ Sound(v) /\ InPlace(left, v) /\ InPlace(u, v) /\ v.sessions = u.sessions
        BY <2>3, <4>2 DEF Moved, InPlace
      <4>4. v.session # s
        BY <2>5, <4>1, <4>2 DEF Moved, Leaving
      <4>5. Leaving(v, s)
        BY <2>3, <2>5, <4>3, <4>4 DEF Leaving
      <4>6. /\ v.window[w].session # s
            /\ \A x \in Windows : u.window[x].session # s => v.window[x].session # s
        BY <1>0, <2>2, <2>6, <4>1, <4>2 DEF Moved
      <4>7. Plain(u) => Plain(v)
        BY <2>2, <4>2 DEF Moved
      <4>8. Leads(u, s) => Leads(v, s)
        <5>1. CASE allow # 4
          BY <2>4, <4>2, <5>1 DEF Moved
        <5>2. CASE allow = 4
          BY <4>2, <5>2 DEF Moved, Leads, Cycled
        <5> QED BY <5>1, <5>2
      <4>9. Twin(u) => Twin(v)
        <5>1. CASE Cycled(left, w, allow) \in {Status, Debug}
          BY <4>1, <4>2, <5>1 DEF Moved, Twin
        <5>2. CASE Cycled(left, w, allow) \notin {Status, Debug}
          BY <2>2, <4>2, <5>2 DEF Moved, Cycled
        <5> QED BY <5>1, <5>2
      <4> QED BY <4>3, <4>5, <4>6, <4>7, <4>8, <4>9 DEF Left
    <3>5. \A m : Ready(left, w, allow, m) /\ left.sessions \subseteq {left.window[w].session} => FALSE
      BY <1>0, <2>2, <2>3
    <3> QED BY <1>a, <3>2, <3>3, <3>4, <3>5 DEF Turned
  <2> QED BY <2>7, <2>8
<1> QED BY <1>1, <1>2

-----------------------------------------------------------------------------
(* Sessions are added, removed and read again.                             *)

WithSessions(u, S) == [u EXCEPT !.sessions = S]
WithCurrent(u, s)  == [u EXCEPT !.session = s]

LEMMA WithFacts ==
  ASSUME NEW u, Shape(u), NEW S \in SUBSET Sessions, NEW s \in Sessions \cup {None}
  PROVE  /\ Shape(WithSessions(u, S)) /\ WithSessions(u, S).sessions = S
         /\ WithSessions(u, S).window = u.window /\ WithSessions(u, S).list = u.list
         /\ WithSessions(u, S).current = u.current /\ WithSessions(u, S).session = u.session
         /\ Shape(WithCurrent(u, s)) /\ WithCurrent(u, s).session = s
         /\ WithCurrent(u, s).window = u.window /\ WithCurrent(u, s).list = u.list
         /\ WithCurrent(u, s).current = u.current /\ WithCurrent(u, s).sessions = u.sessions
<1>1. u \in StateT
  BY DEF Shape
<1>2. PICK v : v = WithSessions(u, S)
  OBVIOUS
<1>3. /\ v \in StateT /\ v.window = u.window /\ v.list = u.list /\ v.current = u.current
      /\ v.session = u.session /\ v.sessions = S
  BY <1>1, <1>2 DEF WithSessions, StateT
<1>4. Shape(v)
  BY <1>3 DEF Shape, Listed
<1>5. PICK x : x = WithCurrent(u, s)
  OBVIOUS
<1>6. /\ x \in StateT /\ x.window = u.window /\ x.list = u.list /\ x.current = u.current
      /\ x.sessions = u.sessions /\ x.session = s
  BY <1>1, <1>5 DEF WithCurrent, StateT
<1>7. Shape(x)
  BY <1>6 DEF Shape, Listed
<1> QED BY <1>2, <1>3, <1>4, <1>5, <1>6, <1>7

LEMMA AdoptedKeeps ==
  ASSUME NEW u, Sound(u), NEW w \in Listed(u), NEW s \in u.sessions
  PROVE  LET v == Adopted(u, w, s)
         IN  /\ Sound(v) /\ v.list = u.list /\ v.sessions = u.sessions
             /\ Follows(u) => Follows(v)
<1>1. PICK v : v = Adopted(u, w, s)
  OBVIOUS
<1>2. CASE v = u
  BY <1>1, <1>2
<1>3. CASE v = WindowSessionSet(u, w, s) /\ ~u.window[w].floating
  <2>1. /\ Sound(v) /\ \A r : Leads(u, r) => Leads(v, r)
        /\ Plain(u) => Plain(v)
        /\ Twin(u) => Twin(v)
    BY <1>3, SessionSetKeeps
  <2>2. u \in StateT /\ w \in Windows /\ s \in Sessions \cup {None}
    BY ShapeFacts, TypeFacts DEF Sound
  <2>3. Shared(u, w, s, v)
    BY <1>3, <2>2, SessionSetFacts
  <2> QED BY <1>1, <2>1, <2>3 DEF Shared, InPlace, Follows
<1> QED BY <1>1, <1>2, <1>3 DEF Adopted

LEMMA SessionAddKeeps ==
  ASSUME NEW u0, Sound(u0), NEW s \in Sessions
  PROVE  LET v == SessionAdd(u0, s)
         IN  Sound(v) /\ v.sessions = u0.sessions \cup {s} /\ (Follows(u0) => Follows(v))
<1>0. /\ Shape(u0) /\ Live(u0) /\ u0 \in StateT /\ u0.sessions \cup {s} \in SUBSET Sessions
      /\ u0.current \in Listed(u0) /\ ~u0.window[u0.current].floating /\ s # None
      /\ u0.session \in Sessions \cup {None}
  BY TypeFacts, ConstantFacts DEF Sound, Shape
<1> DEFINE u == [u0 EXCEPT !.sessions = @ \cup {s}]
           home == IF u.current \in {Status, Debug} /\ u.window[u.current].session = None
                   THEN WindowSessionSet(u, u.current, s) ELSE u
           known == [home EXCEPT !.session = IF @ = None THEN s ELSE @]
           L == known.list
           after[i \in 0..Len(known.list)] ==
             IF i = 0 THEN known ELSE Adopted(after[i - 1], known.list[i], s)
<1>a. SessionAdd(u0, s) = after[Len(L)]
  BY Zenon DEF SessionAdd
<1> HIDE DEF after
<1>1. u = WithSessions(u0, u0.sessions \cup {s})
  BY DEF WithSessions
<1> HIDE DEF u
<1>2. /\ Shape(u) /\ u.window = u0.window /\ u.list = u0.list /\ u.current = u0.current
      /\ u.session = u0.session /\ u.sessions = u0.sessions \cup {s}
  BY <1>0, <1>1, WithFacts
<1>3. Sound(u) /\ (Follows(u0) => Follows(u)) /\ Listed(u) = Listed(u0)
  BY <1>0, <1>2 DEF Sound, Live, Follows, Leads, Plain, Twin, Listed
<1>5. Sound(home) /\ home.list = u.list /\ home.sessions = u.sessions /\ (Follows(u) => Follows(home))
  <2>1. CASE home = u
    BY <1>3, <2>1
  <2>2. CASE home = WindowSessionSet(u, u.current, s)
    <3>1. u.current \in Listed(u) /\ ~u.window[u.current].floating /\ s \in u.sessions
      BY <1>0, <1>2, <1>3
    <3>2. /\ Sound(home) /\ \A r : Leads(u, r) => Leads(home, r)
          /\ Plain(u) => Plain(home)
          /\ Twin(u) => Twin(home)
      BY <1>3, <2>2, <3>1, SessionSetKeeps
    <3>3. u \in StateT /\ u.current \in Windows
      BY <1>3, ShapeFacts, TypeFacts DEF Sound
    <3>4. Shared(u, u.current, s, home)
      BY <2>2, <3>3, SessionSetFacts
    <3> QED BY <3>2, <3>4 DEF Shared, InPlace, Follows
  <2> QED BY <2>1, <2>2
<1> HIDE DEF home
<1>6. PICK now \in Sessions \cup {None} : now = IF home.session = None THEN s ELSE home.session
  <2>1. home.session \in Sessions \cup {None}
    BY <1>5, TypeFacts DEF Sound, Shape
  <2> QED BY <2>1
<1>7. known = WithCurrent(home, now)
  BY <1>6 DEF WithCurrent
<1> HIDE DEF known
<1>8. /\ Shape(known) /\ known.session = now /\ known.window = home.window
      /\ known.list = home.list /\ known.current = home.current /\ known.sessions = home.sessions
  BY <1>5, <1>6, <1>7, WithFacts DEF Sound
<1>9. Sound(known)
  BY <1>2, <1>5, <1>6, <1>8 DEF Sound, Live, Listed
<1>10. Follows(home) => Follows(known)
  BY <1>6, <1>8 DEF Follows, Leads, Plain, Twin
<1>11. L \in Seq(Windows) /\ Len(L) \in Nat /\ \A i \in 1..Len(L) : L[i] \in ToSet(L)
  <2>1. L \in Seq(Windows)
    BY <1>9, TypeFacts DEF Sound, Shape
  <2> HIDE DEF L
  <2> QED BY <2>1, SetOf
<1> DEFINE G == {x \in StateT : /\ Sound(x) /\ x.list = L /\ x.sessions = u0.sessions \cup {s}
                                /\ Follows(u0) => Follows(x)}
           step == [p \in G \X Nat |-> IF p[2] \in 1..Len(L) THEN Adopted(p[1], L[p[2]], s) ELSE p[1]]
<1>13. known \in G
  BY <1>2, <1>3, <1>5, <1>8, <1>9, <1>10 DEF Sound, Shape
<1>14. ASSUME NEW x \in G, NEW i \in 1..Len(L) PROVE Adopted(x, L[i], s) \in G
  <2>1. L[i] \in Listed(x) /\ s \in x.sessions /\ Sound(x)
    BY <1>11 DEF Listed
  <2>2. PICK v : v = Adopted(x, L[i], s)
    OBVIOUS
  <2>3. Sound(v) /\ v.list = x.list /\ v.sessions = x.sessions /\ (Follows(x) => Follows(v))
    BY <2>1, <2>2, AdoptedKeeps
  <2> QED BY <2>2, <2>3 DEF Sound, Shape
<1> HIDE DEF G, L
<1>15. step \in [G \X Nat -> G]
  BY <1>14
<1>16. PICK f \in [0..Len(L) -> G] : /\ f[0] = known
                                     /\ \A i \in 1..Len(L) : f[i] = step[<<f[i - 1], i>>]
  <2>1. Len(L) \in Nat
    BY <1>11
  <2> HIDE DEF step
  <2>2. Recursive(G, known, step, Len(L))
    BY <1>13, <1>15, <2>1, Recursion
  <2> QED BY <2>2 DEF Recursive
<1>17. \A i \in 1..Len(L) : f[i - 1] \in G /\ f[i] = Adopted(f[i - 1], L[i], s)
  <2> SUFFICES ASSUME NEW i \in 1..Len(L)
               PROVE  f[i - 1] \in G /\ f[i] = Adopted(f[i - 1], L[i], s)
    OBVIOUS
  <2>1. i - 1 \in 0..Len(L) /\ i \in Nat
    BY <1>11
  <2>2. f[i - 1] \in G
    BY <2>1
  <2> QED BY <1>16, <2>1, <2>2
<1>18. f = [i \in 0..Len(L) |-> IF i = 0 THEN known ELSE Adopted(f[i - 1], L[i], s)]
  <2>1. \A i \in 0..Len(L) : f[i] = IF i = 0 THEN known ELSE Adopted(f[i - 1], L[i], s)
    <3>1. \A i \in 0..Len(L) : i = 0 \/ i \in 1..Len(L)
      BY <1>11
    <3> QED BY <1>16, <1>17, <3>1
  <2> QED BY <2>1
<1>19. after = [i \in 0..Len(L) |-> IF i = 0 THEN known ELSE Adopted(after[i - 1], L[i], s)]
  BY <1>18, Zenon DEF after, L
<1> DEFINE P == {i \in 0..Len(L) : after[i] \in G}
<1>20. \A i \in 0..Len(L) : i \in P
  <2>1. 0 \in P
    <3>1. 0 \in 0..Len(L)
      BY <1>11
    <3> QED BY <1>13, <1>19, <3>1
  <2>2. ASSUME NEW i \in 1..Len(L), i - 1 \in P PROVE i \in P
    <3>1. i \in 0..Len(L) /\ i # 0
      OBVIOUS
    <3>2. after[i] = Adopted(after[i - 1], L[i], s)
      BY <1>19, <3>1
    <3> QED BY <1>14, <2>2, <3>1, <3>2
  <2> HIDE DEF P
  <2> QED BY <1>11, <2>1, <2>2, Upwards
<1>21. after[Len(L)] \in G
  BY <1>11, <1>20
<1> QED BY <1>a, <1>21 DEF G

\* The session s is still in the list, and what is so of windows.
Departs(x, s, follows) ==
  /\ Leaving(x, s)
  /\ follows => Leads(x, s) /\ Plain(x) /\ (x.sessions # {s} => Twin(x))

LEMMA DepartedKeeps ==
  ASSUME NEW m, NEW s, NEW follows, Departs(m, s, follows),
         \A w \in Listed(m) : m.window[w].session # s
  PROVE  LET v == WithSessions(m, m.sessions \ {s}) IN Sound(v) /\ (follows => Follows(v))
<1>1. /\ Sound(m) /\ Shape(m) /\ Live(m) /\ m \in StateT /\ m.session # s /\ s \in Sessions
      /\ Debug \in Listed(m) /\ m.current \in Listed(m) /\ m.session \in Sessions \cup {None}
      /\ m.sessions \ {s} \in SUBSET Sessions
  <2>1. /\ Sound(m) /\ Shape(m) /\ Live(m) /\ m \in StateT /\ m.session # s /\ s \in m.sessions
        /\ Debug \in Listed(m) /\ m.current \in Listed(m)
    BY DEF Departs, Leaving, Sound, Shape
  <2> QED BY <2>1, TypeFacts
<1>2. PICK v : v = WithSessions(m, m.sessions \ {s})
  OBVIOUS
<1>3. /\ Shape(v) /\ v.window = m.window /\ v.list = m.list /\ v.current = m.current
      /\ v.session = m.session /\ v.sessions = m.sessions \ {s}
  BY <1>1, <1>2, WithFacts
<1>4. Sound(v)
  BY <1>1, <1>3 DEF Sound, Live, Listed
<1>5. ASSUME follows PROVE Follows(v)
  <2>1. Leads(m, s) /\ Plain(m) /\ (m.sessions # {s} => Twin(m))
    BY <1>5, Zenon DEF Departs
  <2>2. m.window[m.current].session # s
    BY <1>1
  <2>3. Leads(v, None) /\ Plain(v)
    BY <1>3, <2>1, <2>2 DEF Leads, Plain
  <2>4. m.sessions = {s} => m.window[Debug].session = None
    BY <1>1 DEF Live
  <2>5. Twin(v)
    BY <1>3, <2>1, <2>4 DEF Twin
  <2> QED BY <2>3, <2>5 DEF Follows
<1> QED BY <1>2, <1>4, <1>5

LEMMA SessionRemoveKeeps ==
  ASSUME NEW u0, Sound(u0), NEW s \in u0.sessions, u0.sessions = {s} \/ s # Min(u0.sessions),
         NEW allow \in {0, 2, 4}
  PROVE  LET v == SessionRemove(u0, s, allow) IN Sound(v) /\ (Follows(u0) => Follows(v))
<1> DEFINE u == [u0 EXCEPT !.session = IF @ = s THEN None ELSE @]
           L == u.list
           after[i \in 0..Len(u.list)] == IF i = 0 THEN u ELSE Bereft(after[i - 1], u.list[i], s, allow)
           m == after[Len(L)]
<1>a. SessionRemove(u0, s, allow) = WithSessions(m, m.sessions \ {s})
  <2>1. SessionRemove(u0, s, allow) = [m EXCEPT !.sessions = @ \ {s}]
    BY Zenon DEF SessionRemove
  <2> HIDE DEF m
  <2> QED BY <2>1 DEF WithSessions
<1> HIDE DEF after
<1>1. PICK now \in Sessions \cup {None} : now = IF u0.session = s THEN None ELSE u0.session
  BY TypeFacts DEF Sound, Shape
<1>2. u = WithCurrent(u0, now)
  BY <1>1 DEF WithCurrent
<1> HIDE DEF u
<1>3. /\ Shape(u) /\ u.session = now /\ u.window = u0.window /\ u.list = u0.list
      /\ u.current = u0.current /\ u.sessions = u0.sessions
  BY <1>1, <1>2, WithFacts DEF Sound
<1>4. s \in Sessions /\ s # None
  BY TypeFacts, ConstantFacts DEF Sound, Shape
<1>5. Leaving(u, s)
  <2>1. Live(u0)
    BY DEF Sound
  <2>2. Live(u) /\ u.session # s
    BY <1>1, <1>3, <1>4, <2>1 DEF Live, Listed
  <2> QED BY <1>3, <2>2 DEF Leaving, Sound
<1>6. Departs(u, s, Follows(u0))
  <2>1. Follows(u0) => Leads(u, s) /\ Plain(u) /\ Twin(u)
    BY <1>1, <1>3 DEF Follows, Leads, Plain, Twin
  <2> QED BY <1>5, <2>1 DEF Departs
<1>7. L \in Seq(Windows) /\ Len(L) \in Nat /\ \A i \in 1..Len(L) : L[i] \in ToSet(L)
  <2>1. L \in Seq(Windows)
    BY <1>3, TypeFacts DEF Shape
  <2> HIDE DEF L
  <2> QED BY <2>1, SetOf
<1>b. \A w : w \in ToSet(L) <=> \E i \in 1..Len(L) : L[i] = w
  BY <1>7, SetOf
<1> DEFINE G == {x \in StateT : Departs(x, s, Follows(u0)) /\ x.list = L}
           step == [p \in G \X Nat |-> IF p[2] \in 1..Len(L) THEN Bereft(p[1], L[p[2]], s, allow)
                                       ELSE p[1]]
<1>8. u \in G
  BY <1>3, <1>6 DEF Shape
<1>9. ASSUME NEW x \in G, NEW i \in 1..Len(L)
      PROVE  /\ Bereft(x, L[i], s, allow) \in G
             /\ Bereft(x, L[i], s, allow).window[L[i]].session # s
             /\ \A w \in Windows : x.window[w].session # s
                  => Bereft(x, L[i], s, allow).window[w].session # s
  <2>1. Leaving(x, s) /\ L[i] \in Listed(x)
    BY <1>7 DEF Departs, Listed
  <2>2. PICK v : v = Bereft(x, L[i], s, allow) /\ Left(x, L[i], s, v)
    BY <2>1, BereftFacts
  <2>3. Leaving(v, s) /\ v \in StateT /\ v.list = x.list /\ v.sessions = x.sessions
    BY <2>2 DEF Left, InPlace
  <2>4. Departs(v, s, Follows(u0))
    BY <2>2, <2>3 DEF Left, Departs
  <2>5. v \in G
    BY <2>3, <2>4
  <2> HIDE DEF G
  <2> QED BY <2>2, <2>5 DEF Left
<1> HIDE DEF G, L
<1>10. step \in [G \X Nat -> G]
  BY <1>9
<1>11. PICK f \in [0..Len(L) -> G] : /\ f[0] = u
                                     /\ \A i \in 1..Len(L) : f[i] = step[<<f[i - 1], i>>]
  <2>1. Len(L) \in Nat
    BY <1>7
  <2> HIDE DEF step
  <2>2. Recursive(G, u, step, Len(L))
    BY <1>8, <1>10, <2>1, Recursion
  <2> QED BY <2>2 DEF Recursive
<1>12. \A i \in 1..Len(L) : f[i - 1] \in G /\ f[i] = Bereft(f[i - 1], L[i], s, allow)
  <2> SUFFICES ASSUME NEW i \in 1..Len(L)
               PROVE  f[i - 1] \in G /\ f[i] = Bereft(f[i - 1], L[i], s, allow)
    OBVIOUS
  <2>1. i - 1 \in 0..Len(L) /\ i \in Nat
    BY <1>7
  <2>2. f[i - 1] \in G
    BY <2>1
  <2> QED BY <1>11, <2>1, <2>2
<1>13. f = [i \in 0..Len(L) |-> IF i = 0 THEN u ELSE Bereft(f[i - 1], L[i], s, allow)]
  <2>1. \A i \in 0..Len(L) : f[i] = IF i = 0 THEN u ELSE Bereft(f[i - 1], L[i], s, allow)
    <3>1. \A i \in 0..Len(L) : i = 0 \/ i \in 1..Len(L)
      BY <1>7
    <3> QED BY <1>11, <1>12, <3>1
  <2> QED BY <2>1
<1>14. after = [i \in 0..Len(L) |-> IF i = 0 THEN u ELSE Bereft(after[i - 1], L[i], s, allow)]
  BY <1>13, Zenon DEF after, L
<1> DEFINE P == {i \in 0..Len(L) : after[i] \in G /\ \A k \in 1..i : after[i].window[L[k]].session # s}
<1>15. \A i \in 0..Len(L) : i \in P
  <2>1. 0 \in P
    <3>1. 0 \in 0..Len(L) /\ \A k \in 1..0 : FALSE
      BY <1>7
    <3> QED BY <1>8, <1>14, <3>1
  <2>2. ASSUME NEW i \in 1..Len(L), i - 1 \in P PROVE i \in P
    <3>1. i \in 0..Len(L) /\ i # 0 /\ \A k \in 1..i : k = i \/ k \in 1..i - 1
      OBVIOUS
    <3>2. after[i] = Bereft(after[i - 1], L[i], s, allow)
      BY <1>14, <3>1
    <3>3. /\ after[i - 1] \in G
          /\ \A k \in 1..i - 1 : after[i - 1].window[L[k]].session # s
      BY <2>2
    <3>4. /\ after[i] \in G /\ after[i].window[L[i]].session # s
          /\ \A w \in Windows : after[i - 1].window[w].session # s => after[i].window[w].session # s
      BY <1>9, <3>2, <3>3
    <3>5. \A k \in 1..i : L[k] \in Windows
      BY <1>7
    <3>6. \A k \in 1..i : after[i].window[L[k]].session # s
      BY <3>1, <3>3, <3>4, <3>5
    <3> QED BY <3>1, <3>4, <3>6
  <2> HIDE DEF P
  <2> QED BY <1>7, <2>1, <2>2, Upwards
<1>16. m \in G /\ \A k \in 1..Len(L) : m.window[L[k]].session # s
  BY <1>7, <1>15
<1> HIDE DEF m
<1>17. Departs(m, s, Follows(u0)) /\ \A w \in Listed(m) : m.window[w].session # s
  BY <1>b, <1>16 DEF G, Listed
<1>18. PICK v : v = WithSessions(m, m.sessions \ {s})
  OBVIOUS
<1>19. Sound(v) /\ (Follows(u0) => Follows(v))
  BY <1>17, <1>18, DepartedKeeps
<1> QED BY <1>a, <1>18, <1>19

\* sessions_free(): no window has a session.
Freed(u) ==
  [u EXCEPT !.sessions = {}, !.session = None,
            !.window = [w \in Windows |-> [@[w] EXCEPT !.session = None]]]

LEMMA FreedKeeps ==
  ASSUME NEW u, Sound(u)
  PROVE  Sound(Freed(u)) /\ (Follows(u) => Follows(Freed(u)))
<1>1. Shape(u) /\ u \in StateT
  BY DEF Sound, Shape
<1> DEFINE wd == [w \in Windows |-> [u.window[w] EXCEPT !.session = None]]
<1>2. ASSUME NEW w \in Windows
      PROVE  /\ wd[w] \in WindowT /\ wd[w].id = u.window[w].id
             /\ wd[w].target = u.window[w].target
             /\ wd[w].floating = u.window[w].floating /\ wd[w].session = None
  <2>1. u.window[w] \in WindowT /\ None \in Sessions \cup {None}
    BY <1>1, TypeFacts
  <2>2. LET t == [u.window[w] EXCEPT !.session = None]
        IN  /\ t \in WindowT /\ t.id = u.window[w].id /\ t.target = u.window[w].target
            /\ t.floating = u.window[w].floating /\ t.session = None
    BY <2>1, GivenFacts
  <2>3. wd[w] = [u.window[w] EXCEPT !.session = None]
    OBVIOUS
  <2> QED BY <2>2, <2>3, Zenon
<1>3. ASSUME NEW w \in Windows, u.window[w] = Unused PROVE wd[w] = Unused
  BY <1>3 DEF Unused
<1>4. wd \in [Windows -> WindowT]
  BY <1>2
<1>5. PICK v : v = Freed(u)
  OBVIOUS
<1>6. v = [u EXCEPT !.sessions = {}, !.session = None, !.window = wd]
  BY <1>5 DEF Freed
<1> HIDE DEF wd
<1>7. /\ v \in StateT /\ v.window = wd /\ v.list = u.list /\ v.current = u.current
      /\ v.sessions = {} /\ v.session = None
  BY <1>1, <1>4, <1>6 DEF StateT
<1>8. Status \in Windows /\ Debug \in Windows /\ u.current \in Windows /\ Listed(u) \subseteq Windows
      /\ \A i \in 1..Len(u.list) : u.list[i] \in Windows
  BY <1>1, TypeFacts, ConstantFacts
<1>9. Shape(v)
  <2>1. Ascending(v.list, v.window)
    BY <1>1, <1>2, <1>7, <1>8 DEF Shape, Ascending
  <2>2. Listed(v) = Listed(u)
    BY <1>7 DEF Listed
  <2>3. \A w \in Listed(v) : Proper(v.window[w])
    BY <1>1, <1>2, <1>7, <1>8, <2>2 DEF Shape, Proper
  <2>4. \A w \in Windows \ Listed(v) : v.window[w] = Unused
    BY <1>1, <1>3, <1>7, <2>2 DEF Shape
  <2>5. v.current \in Listed(v) /\ ~v.window[v.current].floating
    BY <1>1, <1>2, <1>7, <1>8, <2>2 DEF Shape
  <2>6. /\ Status \in Listed(v) /\ v.window[Status].id = 1
        /\ Debug \in Listed(v) /\ v.window[Debug].id = 0
    BY <1>1, <1>2, <1>7, <1>8, <2>2 DEF Shape
  <2> QED BY <1>7, <2>1, <2>3, <2>4, <2>5, <2>6 DEF Shape
<1>10. Live(v)
  BY <1>2, <1>7, <1>8 DEF Live, Listed
<1>11. Follows(u) => Follows(v)
  BY <1>2, <1>7, <1>8 DEF Follows, Leads, Plain, Twin
<1> QED BY <1>5, <1>9, <1>10, <1>11 DEF Sound

LEMMA SessionReadKeeps ==
  ASSUME NEW u, Sound(u), NEW file \in SUBSET Sessions
  PROVE  LET v == SessionRead(u, file) IN Sound(v) /\ (Follows(u) => Follows(v))
<1> DEFINE m == Max(file \cup {0})
           freed == Freed(u)
           read[n \in 0..Max(file \cup {0})] ==
             IF n = 0 THEN freed ELSE IF n \in file THEN SessionAdd(read[n - 1], n) ELSE read[n - 1]
<1>1. SessionRead(u, file) = read[m]
  BY Zenon DEF SessionRead, Freed
<1> HIDE DEF read
<1>2. m \in Nat
  <2>1. IsFiniteSet(file) /\ file \in SUBSET Nat
    BY Constants, FS_Subset
  <2>2. PICK n \in Nat : \A y \in file : y <= n
    BY <2>1, Bounded
  <2>3. file \cup {0} \in SUBSET Nat /\ file \cup {0} # {} /\ \A y \in file \cup {0} : y <= n
    BY <2>1, <2>2
  <2>4. Max(file \cup {0}) \in file \cup {0}
    BY <2>3, MaxFacts
  <2> QED BY <2>3, <2>4
<1> HIDE DEF m
<1>3. Sound(freed) /\ (Follows(u) => Follows(freed))
  BY FreedKeeps
<1> DEFINE G == {x \in StateT : Sound(x) /\ (Follows(u) => Follows(x))}
           step == [p \in G \X Nat |-> IF p[2] \in file THEN SessionAdd(p[1], p[2]) ELSE p[1]]
<1>4. freed \in G
  BY <1>3 DEF Sound, Shape
<1>5. ASSUME NEW x \in G, NEW n \in file PROVE SessionAdd(x, n) \in G
  <2>1. PICK v : v = SessionAdd(x, n)
    OBVIOUS
  <2>2. Sound(v) /\ (Follows(x) => Follows(v))
    BY <2>1, SessionAddKeeps
  <2> QED BY <2>1, <2>2 DEF Sound, Shape
<1> HIDE DEF G, freed
<1>6. step \in [G \X Nat -> G]
  BY <1>5
<1>7. PICK f \in [0..m -> G] : f[0] = freed /\ \A n \in 1..m : f[n] = step[<<f[n - 1], n>>]
  <2> HIDE DEF step
  <2>1. Recursive(G, freed, step, m)
    BY <1>2, <1>4, <1>6, Recursion
  <2> QED BY <2>1 DEF Recursive
<1>8. \A n \in 1..m : /\ f[n - 1] \in G
                      /\ f[n] = IF n \in file THEN SessionAdd(f[n - 1], n) ELSE f[n - 1]
  <2> SUFFICES ASSUME NEW n \in 1..m
               PROVE  /\ f[n - 1] \in G
                      /\ f[n] = IF n \in file THEN SessionAdd(f[n - 1], n) ELSE f[n - 1]
    OBVIOUS
  <2>1. n - 1 \in 0..m /\ n \in Nat
    BY <1>2
  <2>2. f[n - 1] \in G
    BY <2>1
  <2> QED BY <1>7, <2>1, <2>2
<1>9. f = [n \in 0..m |-> IF n = 0 THEN freed
                          ELSE IF n \in file THEN SessionAdd(f[n - 1], n) ELSE f[n - 1]]
  <2>1. \A n \in 0..m : f[n] = IF n = 0 THEN freed
                               ELSE IF n \in file THEN SessionAdd(f[n - 1], n) ELSE f[n - 1]
    <3>1. \A n \in 0..m : n = 0 \/ n \in 1..m
      BY <1>2
    <3> QED BY <1>7, <1>8, <3>1
  <2> QED BY <2>1
<1>10. read = [n \in 0..m |-> IF n = 0 THEN freed
                              ELSE IF n \in file THEN SessionAdd(read[n - 1], n) ELSE read[n - 1]]
  BY <1>9, Zenon DEF read, m
<1> DEFINE P == {n \in 0..m : read[n] \in G}
<1>11. \A n \in 0..m : n \in P
  <2>1. 0 \in P
    BY <1>2, <1>4, <1>10
  <2>2. ASSUME NEW n \in 1..m, n - 1 \in P PROVE n \in P
    <3>1. n \in 0..m /\ n # 0
      OBVIOUS
    <3>2. read[n] = IF n \in file THEN SessionAdd(read[n - 1], n) ELSE read[n - 1]
      BY <1>10, <3>1
    <3> QED BY <1>5, <2>2, <3>1, <3>2
  <2> HIDE DEF P
  <2> QED BY <1>2, <2>1, <2>2, Upwards
<1>12. read[m] \in G
  BY <1>2, <1>11
<1> QED BY <1>1, <1>12 DEF G

LEMMA SessionSwKeeps ==
  ASSUME NEW u, Sound(u), NEW s \in u.sessions
  PROVE  LET v == SessionSw(u, s) IN Sound(v) /\ (Follows(u) => Follows(v))
<1>1. PICK home : home = IF u.window[u.current].target # NoTarget /\ u.window[u.current].id # 0
                         THEN WindowSwitch(u, 1) ELSE u
  OBVIOUS
<1>2. Sound(home) /\ home.sessions = u.sessions /\ (Follows(u) => Follows(home))
  <2>1. CASE home = u
    BY <2>1
  <2>2. CASE home = WindowSwitch(u, 1)
    <3>1. Switched(u, 1, home)
      BY <2>2, WindowSwitchFacts DEF Sound
    <3> QED BY <2>2, <3>1, SwitchKeeps DEF Switched, InPlace, Follows
  <2> QED BY <1>1, <2>1, <2>2
<1>3. PICK v : v = SessionSw(u, s)
  OBVIOUS
<1>4. CASE v = u
  BY <1>3, <1>4
<1>5. CASE v = WindowSessionSet(home, home.current, s)
  <2>1. home.current \in Listed(home) /\ ~home.window[home.current].floating /\ s \in home.sessions
    BY <1>2 DEF Sound, Shape
  <2> QED BY <1>2, <1>3, <1>5, <2>1, SessionSetKeeps DEF Follows
<1> QED BY <1>1, <1>3, <1>4, <1>5 DEF SessionSw

-----------------------------------------------------------------------------
(* Windows are found and made.                                             *)

\* The window w is put into the list.
Added(u, w, v) ==
  /\ v \in StateT /\ Ascending(v.list, v.window) /\ Listed(v) = Listed(u) \cup {w}
  /\ v.window = u.window /\ v.current = u.current /\ v.session = u.session
  /\ v.sessions = u.sessions

LEMMA WindowsAddFacts ==
  ASSUME NEW u \in StateT, Ascending(u.list, u.window), NEW w \in Windows,
         \A x \in Listed(u) : u.window[x].id # u.window[w].id
  PROVE  Added(u, w, WindowsAdd(u, w))
<1> DEFINE t == Inserted(u.list, u.window, w)
<1>1. u.list \in Seq(Windows) /\ \A x \in Windows : u.window[x].id \in Nat
  BY TypeFacts
<1>2. t \in Seq(Windows) /\ Ascending(t, u.window) /\ ToSet(t) = ToSet(u.list) \cup {w}
  BY <1>1, AddAscending DEF Listed
<1>3. WindowsAdd(u, w) = [u EXCEPT !.list = t]
  BY DEF WindowsAdd, Inserted
<1> HIDE DEF t
<1>4. PICK v : v = [u EXCEPT !.list = t]
  OBVIOUS
<1>5. /\ v \in StateT /\ v.list = t /\ v.window = u.window /\ v.current = u.current
      /\ v.session = u.session /\ v.sessions = u.sessions
  BY <1>2, <1>4 DEF StateT
<1> QED BY <1>2, <1>3, <1>4, <1>5 DEF Added, Listed

\* The place that the next window gets.
LEMMA AllocatedFacts ==
  ASSUME NEW u \in StateT, CanAllocate(u)
  PROVE  Allocated(u) \in Windows /\ Allocated(u) \notin Listed(u)
<1>1. Listed(u) \subseteq Windows
  BY TypeFacts
<1>2. Windows \ Listed(u) \in SUBSET Nat /\ Windows \ Listed(u) # {}
  <2>1. Windows \in SUBSET Nat
    BY DEF Windows
  <2>2. Windows \ Listed(u) # {}
    BY <1>1 DEF CanAllocate
  <2> QED BY <2>1, <2>2
<1>3. Min(Windows \ Listed(u)) \in Windows \ Listed(u)
  BY <1>2, MinFacts
<1> QED BY <1>3 DEF Allocated

\* A new window w, which has the number id.
Made(u, w, r, v) ==
  /\ Shape(v) /\ w \in Windows /\ w \notin Listed(u) /\ Listed(v) = Listed(u) \cup {w}
  /\ v.window[w] = r /\ \A x \in Windows : x # w => v.window[x] = u.window[x]
  /\ v.current = u.current /\ v.session = u.session /\ v.sessions = u.sessions

Fresh(t, s, id, floating) == [id |-> id, session |-> s, target |-> t, floating |-> floating]

\* What WindowMake() asks of its arguments.
MayMake(u, t, s, id, floating) ==
  /\ Shape(u) /\ CanAllocate(u)
  /\ t \in Targets \cup {NoTarget} /\ s \in Sessions \cup {None}
  /\ id \in Nat /\ id <= ContactsId /\ floating \in BOOLEAN
  /\ Proper(Fresh(t, s, id, floating))
  /\ \A x \in Listed(u) : u.window[x].id # id

LEMMA WindowMakeFacts ==
  ASSUME NEW u, NEW t, NEW s, NEW id, NEW floating, MayMake(u, t, s, id, floating)
  PROVE  Made(u, Allocated(u), Fresh(t, s, id, floating), WindowMake(u, t, s, id, floating))
<1>0. /\ Shape(u) /\ CanAllocate(u)
      /\ t \in Targets \cup {NoTarget} /\ s \in Sessions \cup {None}
      /\ id \in Nat /\ id <= ContactsId /\ floating \in BOOLEAN
      /\ Proper(Fresh(t, s, id, floating))
      /\ \A x \in Listed(u) : u.window[x].id # id
  BY Zenon DEF MayMake
<1>1. /\ u \in StateT /\ Listed(u) \subseteq Windows /\ u.window \in [Windows -> WindowT]
      /\ u.list \in Seq(Windows) /\ \A i \in 1..Len(u.list) : u.list[i] \in Listed(u)
  <2>1. u \in StateT /\ Listed(u) \subseteq Windows /\ u.list \in Seq(Windows)
    BY <1>0, ShapeFacts, TypeFacts
  <2> QED BY <1>0, <2>1, TypeFacts, SetOf DEF Listed
<1>2. PICK w \in Windows : w = Allocated(u) /\ w \notin Listed(u)
  BY <1>0, <1>1, AllocatedFacts
<1>3. Fresh(t, s, id, floating) \in WindowT
  <2>1. id \in Shorts
    BY <1>0, NumberFacts
  <2> QED BY <1>0, <2>1 DEF WindowT, Fresh
<1>4. PICK r \in WindowT : r = Fresh(t, s, id, floating)
  BY <1>0, <1>3
<1>5. r.id = id /\ Proper(r) /\ NewNumber(id) = id
  BY <1>0, <1>4, NumberFacts DEF Fresh, NewNumber
<1>6. LET q == [u.window EXCEPT ![w] = r]
      IN  /\ q \in [Windows -> WindowT] /\ q[w] = r
          /\ \A x \in Windows : x # w => q[x] = u.window[x]
  BY <1>0, <1>1, ReplaceFacts
<1>7. PICK wd \in [Windows -> WindowT] :
        /\ wd = [u.window EXCEPT ![w] = r] /\ wd[w] = r
        /\ \A x \in Windows : x # w => wd[x] = u.window[x]
  BY <1>0, <1>6, Zenon
<1>8. PICK x : x = [u EXCEPT !.window = wd]
  OBVIOUS
<1>9. /\ x \in StateT /\ x.window = wd /\ x.list = u.list /\ x.current = u.current
      /\ x.session = u.session /\ x.sessions = u.sessions
  BY <1>0, <1>1, <1>8 DEF StateT
<1>10. WindowMake(u, t, s, id, floating) = WindowsAdd(x, w)
  <2>1. r = [id |-> NewNumber(id), session |-> s, target |-> t, floating |-> floating]
    BY <1>0, <1>4, <1>5 DEF Fresh
  <2> QED BY <1>0, <1>2, <1>7, <1>8, <2>1, Zenon DEF WindowMake
<1>11. Ascending(x.list, x.window)
  <2>1. \A i \in 1..Len(u.list) : wd[u.list[i]] = u.window[u.list[i]]
    BY <1>0, <1>1, <1>2, <1>7
  <2>2. Ascending(u.list, u.window)
    BY <1>0 DEF Shape
  <2> QED BY <1>9, <2>1, <2>2 DEF Ascending
<1>12. \A y \in Listed(x) : x.window[y].id # x.window[w].id
  BY <1>0, <1>1, <1>2, <1>5, <1>7, <1>9 DEF Listed
<1>13. PICK v : v = WindowMake(u, t, s, id, floating) /\ Added(x, w, v)
  BY <1>0, <1>9, <1>10, <1>11, <1>12, WindowsAddFacts
<1>14. /\ v \in StateT /\ Ascending(v.list, v.window) /\ Listed(v) = Listed(u) \cup {w}
       /\ v.window = wd /\ v.current = u.current /\ v.session = u.session
       /\ v.sessions = u.sessions
  BY <1>0, <1>9, <1>13 DEF Added, Listed
<1>15. /\ Status \in Listed(u) /\ Debug \in Listed(u) /\ Status \in Windows /\ Debug \in Windows
       /\ u.current \in Windows /\ u.current \in Listed(u)
  BY <1>0, <1>1, ConstantFacts DEF Shape
<1>16. \A y \in Listed(v) : Proper(v.window[y])
  BY <1>0, <1>1, <1>2, <1>5, <1>7, <1>14 DEF Shape
<1>17. \A y \in Windows \ Listed(v) : v.window[y] = Unused
  BY <1>0, <1>7, <1>14 DEF Shape
<1>18. Shape(v)
  <2>1. /\ v.window[Status].id = 1 /\ v.window[Debug].id = 0 /\ ~v.window[v.current].floating
    BY <1>0, <1>2, <1>7, <1>14, <1>15 DEF Shape
  <2> QED BY <1>0, <1>14, <1>15, <1>16, <1>17, <2>1 DEF Shape
<1> QED BY <1>0, <1>2, <1>4, <1>7, <1>13, <1>14, <1>18 DEF Made

\* What the windows at places up to n of a list tell of the number a that is free so far.
Free(ids, n, a) ==
  /\ 2 <= a.id /\ a.id <= Most /\ (a.id = 2 \/ a.id <= n)
  /\ \A k \in 1..n : ids[k] # a.id
  /\ a.found => \E k \in 1..n : a.id < ids[k]
  /\ ~a.found => \A k \in 1..n : ids[k] < a.id

Found == [id : Nat, found : BOOLEAN]

\* What Past() makes of a.
Passed(a, id, b) ==
  /\ b \in Found
  /\ a.found \/ id < 2 => b = a
  /\ ~a.found /\ id >= 2 /\ id > a.id => b.id = a.id /\ b.found
  /\ ~a.found /\ id >= 2 /\ ~(id > a.id) /\ id < Most => b.id = id + 1 /\ ~b.found

LEMMA PastFacts ==
  ASSUME NEW a \in Found, NEW id \in Nat
  PROVE  Passed(a, id, Past(a, id))
<1>0. a.id \in Nat /\ a.found \in BOOLEAN
  BY DEF Found
<1>1. CASE a.found \/ id < 2
  <2>1. Past(a, id) = a
    BY <1>1 DEF Past
  <2> QED BY <1>1, <2>1 DEF Passed
<1>2. CASE ~(a.found \/ id < 2) /\ id > a.id
  <2>1. Past(a, id) = [a EXCEPT !.found = TRUE]
    BY <1>2 DEF Past
  <2>2. PICK b : b = Past(a, id)
    OBVIOUS
  <2>3. b \in Found /\ b.id = a.id /\ b.found
    BY <2>1, <2>2 DEF Found
  <2> QED BY <1>2, <2>2, <2>3 DEF Passed
<1>3. CASE ~(a.found \/ id < 2) /\ ~(id > a.id)
  <2>1. PICK n \in Nat : n = (IF id \in 999..1999 THEN 2000 ELSE id + 1)
    OBVIOUS
  <2>2. Past(a, id) = [a EXCEPT !.id = n]
    BY <1>3, <2>1 DEF Past
  <2>3. PICK b : b = Past(a, id)
    OBVIOUS
  <2>4. b \in Found /\ b.id = n /\ b.found = a.found
    BY <2>2, <2>3 DEF Found
  <2>5. id < Most => n = id + 1
    BY <2>1 DEF Most
  <2> QED BY <1>3, <2>3, <2>4, <2>5 DEF Passed
<1> QED BY <1>1, <1>2, <1>3

LEMMA FreeStep ==
  ASSUME NEW m \in Nat, m <= Most, NEW ids \in [1..m -> Nat],
         \A i, j \in 1..m : i < j => ids[i] < ids[j],
         \E k \in 1..m : ids[k] = 0, \E k \in 1..m : ids[k] = 1,
         NEW n \in 1..m, NEW a \in Found, Free(ids, n - 1, a)
  PROVE  Free(ids, n, Past(a, ids[n]))
<1>1. /\ n \in Nat /\ m \in Nat /\ n <= m /\ m <= Most /\ Most \in Nat /\ ids[n] \in Nat /\ a.id \in Nat /\ a.found \in BOOLEAN
      /\ 2 <= a.id /\ a.id <= Most /\ (a.id = 2 \/ a.id <= n - 1)
      /\ \A k \in 1..n : k = n \/ k \in 1..n - 1
      /\ 1..n - 1 \subseteq 1..m /\ 1..n - 1 \subseteq 1..n /\ n \in 1..n
      /\ \A k \in 1..m : ids[k] \in Nat
  BY NumberFacts DEF Free, Found
<1>2. \A k \in 1..n - 1 : ids[k] < ids[n]
  BY <1>1
<1>3. PICK b \in Found : b = Past(a, ids[n]) /\ Passed(a, ids[n], b)
  <2>1. PICK b : b = Past(a, ids[n]) /\ Passed(a, ids[n], b)
    BY <1>1, PastFacts
  <2> QED BY <2>1 DEF Passed
<1>4. CASE a.found
  <2>1. b = a
    BY <1>1, <1>3, <1>4 DEF Passed
  <2>2. PICK k \in 1..n - 1 : a.id < ids[k]
    BY <1>4 DEF Free
  <2>3. a.id < ids[n]
    <3>1. ids[k] < ids[n]
      BY <1>2
    <3>2. ids[k] \in Nat /\ ids[n] \in Nat /\ a.id \in Nat
      BY <1>1
    <3> QED BY <2>2, <3>1, <3>2
  <2>4. \A j \in 1..n : ids[j] # a.id
    BY <1>1, <2>3 DEF Free
  <2>5. \E j \in 1..n : a.id < ids[j]
    BY <1>1, <2>3
  <2>6. 2 <= a.id /\ a.id <= Most /\ (a.id = 2 \/ a.id <= n)
    BY <1>1
  <2> QED BY <1>3, <1>4, <2>1, <2>4, <2>5, <2>6 DEF Free
<1>5. CASE ~a.found /\ ids[n] < 2
  <2>1. b = a
    BY <1>1, <1>3, <1>5 DEF Passed
  <2>2. \A j \in 1..n : ids[j] < a.id
    <3>1. \A j \in 1..n - 1 : ids[j] < a.id
      BY <1>5 DEF Free
    <3>2. ids[n] < a.id
      BY <1>1, <1>5
    <3> QED BY <1>1, <3>1, <3>2
  <2>3. \A j \in 1..n : ids[j] # a.id
    BY <1>1, <2>2
  <2> QED BY <1>1, <1>3, <1>5, <2>1, <2>2, <2>3 DEF Free
<1>6. CASE ~a.found /\ ids[n] >= 2 /\ ids[n] > a.id
  <2>1. b.id = a.id /\ b.found
    BY <1>1, <1>3, <1>6 DEF Passed
  <2>2. \A j \in 1..n : ids[j] # a.id
    BY <1>1, <1>6 DEF Free
  <2> QED BY <1>1, <1>3, <1>6, <2>1, <2>2 DEF Free
<1>7. CASE ~a.found /\ ids[n] >= 2 /\ ~(ids[n] > a.id)
  <2>1. n >= 3
    <3>1. PICK k \in 1..m : ids[k] = 0
      OBVIOUS
    <3>2. PICK j \in 1..m : ids[j] = 1
      OBVIOUS
    <3>3. k # j
      BY <3>1, <3>2
    <3>4. k < n /\ j < n
      <4>1. ~(n < k) /\ ~(n < j)
        <5>1. n < k => ids[n] < ids[k]
          OBVIOUS
        <5>2. n < j => ids[n] < ids[j]
          OBVIOUS
        <5> QED BY <1>1, <1>7, <3>1, <3>2, <5>1, <5>2
      <4>2. n # k /\ n # j
        BY <1>7, <3>1, <3>2
      <4> QED BY <1>1, <4>1, <4>2
    <3> QED BY <1>1, <3>3, <3>4
  <2>2. ids[n] < Most /\ ids[n] + 1 <= n
    <3>1. /\ ids[n] \in Nat /\ a.id \in Nat /\ n \in Nat /\ m \in Nat /\ Most \in Nat
          /\ n <= m /\ m <= Most /\ (a.id = 2 \/ a.id <= n - 1) /\ ids[n] <= a.id
      BY <1>1, <1>7
    <3> QED BY <2>1, <3>1
  <2>3. b.id = ids[n] + 1 /\ ~b.found
    BY <1>1, <1>3, <1>7, <2>2 DEF Passed
  <2>4. \A j \in 1..n : ids[j] < b.id
    <3>1. ASSUME NEW j \in 1..n
          PROVE  ids[j] \in Nat /\ ids[j] <= ids[n]
      <4>1. ids[j] \in Nat /\ ids[n] \in Nat
        BY <1>1
      <4>2. j = n \/ ids[j] < ids[n]
        BY <1>1, <1>2
      <4> QED BY <4>1, <4>2
    <3> QED BY <1>1, <2>3, <3>1
  <2>5. \A j \in 1..n : ids[j] # b.id
    BY <1>1, <2>3, <2>4
  <2>6. 2 <= b.id /\ b.id <= Most /\ b.id <= n
    <3>1. ids[n] \in Nat /\ ids[n] >= 2
      BY <1>1, <1>7
    <3> QED BY <1>1, <2>2, <2>3, <3>1
  <2> QED BY <1>3, <2>3, <2>4, <2>5, <2>6 DEF Free
<1> QED BY <1>1, <1>4, <1>5, <1>6, <1>7

\* window_new() finds a number that no window has, as long as there are not too many windows.
LEMMA FreeIdFacts ==
  ASSUME NEW u, Shape(u), MaxWindows <= Most
  PROVE  /\ FreeId(u) \in Nat /\ 2 <= FreeId(u) /\ FreeId(u) <= Most
         /\ \A x \in Listed(u) : u.window[x].id # FreeId(u)
<1> DEFINE n == Len(u.list)
           first == [id |-> 2, found |-> FALSE]
           free[i \in 0..Len(u.list)] ==
             IF i = 0 THEN first ELSE Past(free[i - 1], u.window[u.list[i]].id)
<1>1. FreeId(u) = free[n].id
  BY Zenon DEF FreeId
<1> HIDE DEF free
<1>2. /\ u \in StateT /\ u.list \in Seq(Windows) /\ n \in Nat
      /\ \A x \in Windows : u.window[x].id \in Nat
      /\ \A i \in 1..n : u.list[i] \in Windows
      /\ \A x : x \in Listed(u) <=> \E i \in 1..n : u.list[i] = x
  <2>1. u \in StateT
    BY DEF Shape
  <2>2. u.list \in Seq(Windows) /\ \A x \in Windows : u.window[x].id \in Nat
    BY <2>1, TypeFacts
  <2> QED BY <2>1, <2>2, SetOf DEF Listed
<1>3. n <= MaxWindows /\ MaxWindows \in Nat
  BY <1>2, ListIsShort, Constants DEF Shape
<1>4. n \in Nat /\ n <= Most
  <2>1. n \in Nat /\ n <= MaxWindows /\ MaxWindows \in Nat /\ MaxWindows <= Most /\ Most \in Nat
    BY <1>2, <1>3, NumberFacts
  <2> HIDE DEF n
  <2>2. n <= Most
    BY <2>1
  <2> QED BY <2>1, <2>2
<1> DEFINE ids == [i \in 1..n |-> u.window[u.list[i]].id]
<1>5. /\ ids \in [1..n -> Nat] /\ \A i, j \in 1..n : i < j => ids[i] < ids[j]
      /\ \E k \in 1..n : ids[k] = 0
      /\ \E k \in 1..n : ids[k] = 1
  <2>1. ids \in [1..n -> Nat]
    BY <1>2
  <2>2. \A i, j \in 1..n : i < j => ids[i] < ids[j]
    BY DEF Shape, Ascending
  <2>3. PICK k \in 1..n : u.list[k] = Debug
    BY <1>2 DEF Shape
  <2>4. PICK j \in 1..n : u.list[j] = Status
    BY <1>2 DEF Shape
  <2>5. ids[k] = 0 /\ ids[j] = 1
    BY <2>3, <2>4 DEF Shape
  <2> QED BY <2>1, <2>2, <2>5
<1>6. \A i \in 1..n : ids[i] = u.window[u.list[i]].id
  OBVIOUS
<1> DEFINE step == [p \in Found \X Nat |-> IF p[2] \in 1..n THEN Past(p[1], ids[p[2]]) ELSE p[1]]
<1>7. first \in Found
  BY DEF Found
<1> HIDE DEF ids, n, first
<1>8. ASSUME NEW a \in Found, NEW i \in 1..n PROVE Past(a, ids[i]) \in Found
  BY <1>5, PastFacts DEF Passed
<1>9. step \in [Found \X Nat -> Found]
  BY <1>8
<1>10. PICK f \in [0..n -> Found] : /\ f[0] = first
                                    /\ \A i \in 1..n : f[i] = step[<<f[i - 1], i>>]
  <2>1. n \in Nat
    BY <1>2
  <2> HIDE DEF step
  <2>2. Recursive(Found, first, step, n)
    BY <1>7, <1>9, <2>1, Recursion
  <2> QED BY <2>2 DEF Recursive
<1>11. \A i \in 1..n : f[i] = Past(f[i - 1], u.window[u.list[i]].id)
  <2> SUFFICES ASSUME NEW i \in 1..n PROVE f[i] = Past(f[i - 1], u.window[u.list[i]].id)
    OBVIOUS
  <2>1. i - 1 \in 0..n /\ i \in Nat
    BY <1>2
  <2>2. f[i - 1] \in Found
    BY <2>1
  <2> QED BY <1>6, <1>10, <2>1, <2>2
<1>12. f = [i \in 0..n |-> IF i = 0 THEN first ELSE Past(f[i - 1], u.window[u.list[i]].id)]
  <2>1. \A i \in 0..n : f[i] = IF i = 0 THEN first ELSE Past(f[i - 1], u.window[u.list[i]].id)
    <3>1. \A i \in 0..n : i = 0 \/ i \in 1..n
      BY <1>2
    <3> QED BY <1>10, <1>11, <3>1
  <2> QED BY <2>1
<1>13. free = [i \in 0..n |-> IF i = 0 THEN first ELSE Past(free[i - 1], u.window[u.list[i]].id)]
  BY <1>12, Zenon DEF free, n
<1> DEFINE P == {i \in 0..n : free[i] \in Found /\ Free(ids, i, free[i])}
<1>14. \A i \in 0..n : i \in P
  <2>1. 0 \in P
    <3>1. 0 \in 0..n /\ \A k \in 1..0 : FALSE
      BY <1>2
    <3>2. free[0] = first /\ first.id = 2 /\ first.found = FALSE
      BY <1>13, <3>1 DEF first
    <3> QED BY <1>7, <3>1, <3>2, NumberFacts DEF Free
  <2>2. ASSUME NEW i \in 1..n, i - 1 \in P PROVE i \in P
    <3>1. i \in 0..n /\ i # 0
      OBVIOUS
    <3>2. free[i] = Past(free[i - 1], ids[i])
      BY <1>6, <1>13, <3>1
    <3>3. free[i - 1] \in Found /\ Free(ids, i - 1, free[i - 1])
      BY <2>2
    <3>4. Free(ids, i, free[i])
      BY <1>4, <1>5, <3>2, <3>3, FreeStep
    <3> QED BY <1>8, <3>1, <3>2, <3>3, <3>4
  <2> HIDE DEF P
  <2> QED BY <1>2, <2>1, <2>2, Upwards
<1>15. free[n] \in Found /\ Free(ids, n, free[n])
  BY <1>2, <1>14
<1>16. \A x \in Listed(u) : u.window[x].id # free[n].id
  BY <1>2, <1>6, <1>15 DEF Free
<1> QED BY <1>1, <1>15, <1>16 DEF Free, Found

LEMMA WindowFindFacts ==
  ASSUME NEW u \in StateT, NEW s, NEW t
  PROVE  LET f == WindowFind(u, s, t)
         IN  f # None => /\ f \in Listed(u) /\ u.window[f].session = s
                         /\ t # NoTarget => u.window[f].target # NoTarget
                         /\ s = None => u.window[f].target = t
<1> DEFINE own   == {w \in Windows : u.window[w].session = s}
           exact == First(u, {w \in own : u.window[w].target = t})
           alike == First(u, {w \in own : u.window[w].target \in {UidOf[s][t], NickOf[s][t]} \ {NoTarget}})
<1>1. WindowFind(u, s, t) = IF exact # None \/ s = None THEN exact ELSE alike
  BY DEF WindowFind
<1>2. exact # None => exact \in Listed(u) /\ u.window[exact].session = s /\ u.window[exact].target = t
  BY FirstFacts
<1>3. alike # None => /\ alike \in Listed(u) /\ u.window[alike].session = s
                      /\ u.window[alike].target # NoTarget
  BY FirstFacts
<1> HIDE DEF exact, alike
<1> QED BY <1>1, <1>2, <1>3

\* A window of the kind is in the list, so it is found.
LEMMA WindowFound ==
  ASSUME NEW u \in StateT, NEW s, NEW t, NEW w \in Listed(u),
         u.window[w].session = s, u.window[w].target = t
  PROVE  WindowFind(u, s, t) # None
<1> DEFINE own   == {v \in Windows : u.window[v].session = s}
           exact == First(u, {v \in own : u.window[v].target = t})
           alike == First(u, {v \in own : u.window[v].target \in {UidOf[s][t], NickOf[s][t]} \ {NoTarget}})
<1>1. WindowFind(u, s, t) = IF exact # None \/ s = None THEN exact ELSE alike
  BY DEF WindowFind
<1>2. w \in Listed(u) \cap {v \in own : u.window[v].target = t}
  BY TypeFacts
<1>3. exact # None
  BY <1>2, FirstFacts
<1> HIDE DEF exact, alike
<1> QED BY <1>1, <1>3

LEMMA MadeKeeps ==
  ASSUME NEW u, Sound(u), NEW w, NEW r, NEW v, Made(u, w, r, v),
         r.session \in u.sessions \cup {None}
  PROVE  Sound(v) /\ (Follows(u) => Follows(v))
<1>1. /\ Shape(u) /\ Live(u) /\ Listed(u) \subseteq Windows
      /\ Status \in Listed(u) /\ Debug \in Listed(u) /\ u.current \in Listed(u)
  BY ShapeFacts DEF Sound, Shape
<1>2. /\ w \notin Listed(u) /\ Listed(v) = Listed(u) \cup {w} /\ v.window[w] = r
      /\ \A x \in Listed(u) : v.window[x] = u.window[x]
      /\ v.current = u.current /\ v.session = u.session /\ v.sessions = u.sessions
  BY <1>1 DEF Made
<1>3. Sound(v)
  BY <1>1, <1>2 DEF Sound, Live, Made
<1>4. Follows(u) => Follows(v)
  BY <1>1, <1>2 DEF Follows, Leads, Plain, Twin
<1> QED BY <1>3, <1>4

\* window_new() for a window that is not there.
LEMMA WindowNewFacts ==
  ASSUME NEW u, Sound(u), CanAllocate(u), MaxWindows <= Most, NEW t \in Targets \cup {NoTarget},
         NEW s \in u.sessions \cup {None}
  PROVE  LET v == WindowMake(u, t, s, FreeId(u), FALSE)
         IN  /\ Made(u, Allocated(u), Fresh(t, s, FreeId(u), FALSE), v)
             /\ Sound(v) /\ (Follows(u) => Follows(v))
<1>1. s \in Sessions \cup {None} /\ Shape(u)
  BY TypeFacts DEF Sound, Shape
<1>2. /\ FreeId(u) \in Nat /\ 2 <= FreeId(u) /\ FreeId(u) <= Most
      /\ \A x \in Listed(u) : u.window[x].id # FreeId(u)
  BY <1>1, FreeIdFacts
<1>3. PICK id : id = FreeId(u)
  OBVIOUS
<1>4. id \in Nat /\ id <= ContactsId /\ id <= Most
  BY <1>2, <1>3, NumberFacts
<1>5. Proper(Fresh(t, s, id, FALSE)) /\ Fresh(t, s, id, FALSE).session = s
  BY <1>4 DEF Proper, Fresh
<1>6. PICK v : v = WindowMake(u, t, s, id, FALSE) /\ Made(u, Allocated(u), Fresh(t, s, id, FALSE), v)
  <2>1. \A x \in Listed(u) : u.window[x].id # id
    BY <1>2, <1>3
  <2>2. MayMake(u, t, s, id, FALSE)
    BY <1>1, <1>4, <1>5, <2>1, Zenon DEF MayMake
  <2> QED BY <2>2, WindowMakeFacts, Zenon
<1>7. Sound(v) /\ (Follows(u) => Follows(v))
  BY <1>5, <1>6, MadeKeeps
<1> QED BY <1>3, <1>6, <1>7

LEMMA TakenKeeps ==
  ASSUME NEW u, Sound(u), NEW w \in Listed(u), ~u.window[w].floating,
         NEW t \in Targets \cup {NoTarget}, NEW s \in u.sessions \cup {None}
  PROVE  Sound(Taken(u, w, t, s)) /\ Listed(Taken(u, w, t, s)) = Listed(u)
<1>1. PICK m : m = WithTarget(u, w, t) /\ Sound(m) /\ Listed(m) = Listed(u) /\ Altered(u, w, m)
  BY WithTargetKeeps
<1>2. ~m.window[w].floating /\ m.sessions = u.sessions
  <2>1. w \in Windows
    BY ShapeFacts DEF Sound
  <2> QED BY <1>1, <2>1 DEF Altered, InPlace
<1>3. PICK v : v = WithSession(m, w, s) /\ Sound(v) /\ Listed(v) = Listed(m)
  BY <1>1, <1>2, WithSessionKeeps
<1>4. v = Taken(u, w, t, s)
  BY <1>1, <1>3, Zenon DEF Taken, WithSession, WithTarget
<1> QED BY <1>1, <1>3, <1>4

LEMMA UserSessionFacts ==
  ASSUME NEW u, Sound(u)
  PROVE  UserSession(u) \in u.sessions \cup {None}
BY DEF UserSession, Sound, Live, Shape

LEMMA IdleFacts ==
  ASSUME NEW u \in StateT, Idle(u) # None
  PROVE  Idle(u) \in Listed(u) /\ ~u.window[Idle(u)].floating
BY FirstFacts DEF Idle, Docked

LEMMA CmdWindowNewKeeps ==
  ASSUME NEW u0, Sound(u0), MaxWindows <= Most, NEW t \in (Targets \ {Contacts}) \cup {NoTarget},
         Exists(u0, t, UserSession(u0)) \/ CanAllocate(u0)
  PROVE  LET v == CmdWindowNew(u0, t) IN Sound(v) /\ (Follows(u0) => Follows(v))
<1> DEFINE us == UserSession(u0)
           u == WindowNew(u0, t, us)
           w == WindowOf(u0, t, us)
           own == u.window[u.current].session
           s == IF own # None \/ u.sessions = {} THEN own ELSE Min(u.sessions)
           set == WithSession(u, w, s)
           v == CmdWindowNew(u0, t)
<1>1. v = IF u.window[w].floating THEN set ELSE WindowSwitch(set, u.window[w].id)
  BY DEF CmdWindowNew, WithSession
<1>2. us \in u0.sessions \cup {None} /\ u0 \in StateT /\ t \in Targets \cup {NoTarget}
  BY UserSessionFacts DEF Sound, Shape
<1> HIDE DEF us, v
<1>3. /\ Sound(u) /\ w \in Listed(u) /\ ~u.window[w].floating /\ (Follows(u0) => Follows(u))
      /\ Plain(u0) => w \notin {Status, Debug}
  <2>1. CASE Exists(u0, t, us)
    <3>1. u = u0 /\ w = WindowFind(u0, us, t) /\ t # NoTarget /\ w # None
      BY <2>1 DEF WindowNew, WindowOf, Exists
    <3> HIDE DEF u, w
    <3>2. /\ w \in Listed(u0) /\ u0.window[w].session = us /\ u0.window[w].target # NoTarget
          /\ us = None => u0.window[w].target = t
      BY <1>2, <3>1, WindowFindFacts
    <3>3. ~u0.window[w].floating
      BY <3>1, <3>2 DEF Sound, Shape, Proper
    <3> QED BY <3>1, <3>2, <3>3 DEF Plain
  <2>2. CASE ~Exists(u0, t, us)
    <3>1. u = WindowMake(u0, t, us, FreeId(u0), FALSE) /\ w = Allocated(u0) /\ CanAllocate(u0)
      BY <2>2 DEF WindowNew, WindowOf, us
    <3> HIDE DEF u, w
    <3>2. /\ Made(u0, w, Fresh(t, us, FreeId(u0), FALSE), u)
          /\ Sound(u) /\ (Follows(u0) => Follows(u))
      BY <1>2, <3>1, WindowNewFacts
    <3>3. w \in Listed(u) /\ u.window[w].floating = FALSE /\ w \notin Listed(u0)
      BY <3>2 DEF Made, Fresh
    <3> QED BY <3>2, <3>3 DEF Sound, Shape
  <2> QED BY <2>1, <2>2
<1> HIDE DEF u, w
<1>4. s \in u.sessions \cup {None}
  <2>1. own \in u.sessions \cup {None}
    BY <1>3 DEF Sound, Live, Shape
  <2>2. u.sessions \in SUBSET Nat
    BY <1>3, TypeFacts, ConstantFacts DEF Sound, Shape
  <2>3. CASE u.sessions = {}
    BY <2>1, <2>3
  <2>4. CASE u.sessions # {}
    BY <2>1, <2>2, <2>4, MinFacts
  <2> QED BY <2>3, <2>4
<1> HIDE DEF s, own
<1>5. /\ Sound(set) /\ Listed(set) = Listed(u) /\ Altered(u, w, set)
      /\ Plain(u) => Plain(set)
      /\ w \notin {Status, Debug} /\ Twin(u) => Twin(set)
  BY <1>3, <1>4, WithSessionKeeps
<1> HIDE DEF set
<1>6. /\ w \in Windows /\ Shape(set) /\ w \in Listed(set) /\ ~set.window[w].floating
      /\ set.window[w].id = u.window[w].id
  <2>1. w \in Windows
    BY <1>3, ShapeFacts DEF Sound
  <2> QED BY <1>3, <1>5, <2>1 DEF Altered, InPlace, Sound
<1>7. PICK x : x = WindowSwitch(set, u.window[w].id)
  OBVIOUS
<1>8. /\ Sound(x)
      /\ Plain(set) => Plain(x)
      /\ Twin(set) => Twin(x)
  BY <1>5, <1>7, SwitchKeeps
<1>9. Switched(set, u.window[w].id, x)
  BY <1>6, <1>7, WindowSwitchFacts
<1>10. ASSUME Follows(u0) PROVE Follows(x)
  <2>1. Follows(u) /\ w \notin {Status, Debug}
    BY <1>3, <1>10 DEF Follows
  <2>2. Plain(x) /\ Twin(x)
    BY <1>5, <1>8, <2>1 DEF Follows
  <2>3. u.window[w].id # 0
    BY <1>6, <2>1, ShapeFacts
  <2>4. set.window[x.current].id = u.window[w].id
    BY <1>6, <1>9 DEF Switched
  <2>5. Leads(x, None)
    BY <1>6, <1>9, <2>3 DEF Switched, Leads
  <2> QED BY <2>2, <2>5 DEF Follows
<1> QED BY <1>1, <1>3, <1>7, <1>8, <1>10 DEF v

LEMMA CmdQueryKeeps ==
  ASSUME NEW u0, Sound(u0), MaxWindows <= Most, NEW t \in Targets,
         NEW s \in u0.sessions \cup {None}, NEW make, CanAllocate(u0)
  PROVE  LET v == CmdQuery(u0, t, s, make)
         IN  Sound(v) /\ (make = 2 /\ Follows(u0) => Follows(v))
<1> DEFINE found == WindowFind(u0, s, t)
           w == IF found # None THEN found
                ELSE IF make \in {1, 3} /\ Idle(u0) # None THEN Idle(u0)
                ELSE IF make = 0 THEN u0.current ELSE Allocated(u0)
           u == IF found # None THEN u0
                ELSE IF w \in Listed(u0) THEN Taken(u0, w, t, s)
                ELSE WindowMake(u0, t, s, FreeId(u0), FALSE)
           v == CmdQuery(u0, t, s, make)
<1>1. v = IF w = u.current THEN u ELSE WindowSwitch(u, u.window[w].id)
  BY Zenon DEF CmdQuery
<1>2. u0 \in StateT /\ t \in Targets \cup {NoTarget}
  BY DEF Sound, Shape
<1> HIDE DEF v
<1>3. Sound(u) /\ (make = 2 /\ Follows(u0) => Follows(u))
  <2>1. CASE found # None
    BY <2>1
  <2>2. CASE found = None
    <3>1. CASE make \in {1, 3} /\ Idle(u0) # None
      <4>1. w = Idle(u0)
        BY <2>2, <3>1, Zenon
      <4>2. w \in Listed(u0) /\ ~u0.window[w].floating
        BY <1>2, <3>1, <4>1, IdleFacts
      <4>3. u = Taken(u0, w, t, s)
        BY <2>2, <4>2, Zenon
      <4> HIDE DEF u, w
      <4> QED BY <1>2, <3>1, <4>2, <4>3, TakenKeeps
    <3>2. CASE ~(make \in {1, 3} /\ Idle(u0) # None) /\ make = 0
      <4>1. w = u0.current
        BY <2>2, <3>2, Zenon
      <4>2. w \in Listed(u0) /\ ~u0.window[w].floating
        BY <4>1 DEF Sound, Shape
      <4>3. u = Taken(u0, w, t, s)
        BY <2>2, <4>2, Zenon
      <4> HIDE DEF u, w
      <4> QED BY <1>2, <3>2, <4>2, <4>3, TakenKeeps
    <3>3. CASE ~(make \in {1, 3} /\ Idle(u0) # None) /\ make # 0
      <4>1. w = Allocated(u0)
        BY <2>2, <3>3, Zenon
      <4>2. w \notin Listed(u0)
        BY <1>2, <4>1, AllocatedFacts
      <4>3. u = WindowMake(u0, t, s, FreeId(u0), FALSE)
        BY <2>2, <4>2, Zenon
      <4> HIDE DEF u, w
      <4> QED BY <1>2, <4>3, WindowNewFacts
    <3> QED BY <3>1, <3>2, <3>3
  <2> QED BY <2>1, <2>2
<1> HIDE DEF u, w
<1>4. CASE w = u.current
  BY <1>1, <1>3, <1>4 DEF v
<1>5. CASE w # u.current
  BY <1>1, <1>3, <1>5, SwitchKeeps DEF v, Follows
<1> QED BY <1>4, <1>5

LEMMA PrintWindowKeeps ==
  ASSUME NEW u, Sound(u), MaxWindows <= Most, NEW t \in Targets, NEW s \in u.sessions, NEW make,
         CanAllocate(u)
  PROVE  LET v == PrintWindow(u, t, s, make)
         IN  Sound(v) /\ (make = 2 /\ Follows(u) => Follows(v))
<1> DEFINE name == IF NickOf[s][t] = NoTarget THEN t ELSE NickOf[s][t]
<1>1. u \in StateT /\ s \in u.sessions \cup {None} /\ s \in Sessions
  BY TypeFacts DEF Sound, Shape
<1>2. name \in Targets \cup {NoTarget}
  BY <1>1, Constants
<1> HIDE DEF name
<1>3. PICK v : v = PrintWindow(u, t, s, make)
  OBVIOUS
<1>4. CASE v = u
  BY <1>3, <1>4
<1>5. CASE v = Taken(u, Idle(u), name, s) /\ make = 1 /\ Idle(u) # None
  BY <1>1, <1>2, <1>3, <1>5, IdleFacts, TakenKeeps
<1>6. CASE v = WindowNew(u, name, s)
  <2>1. CASE v = WindowMake(u, name, s, FreeId(u), FALSE)
    BY <1>1, <1>2, <1>3, <2>1, WindowNewFacts
  <2> QED BY <1>3, <1>4, <1>6, <2>1 DEF WindowNew
<1>7. v = u \/ (v = Taken(u, Idle(u), name, s) /\ make = 1 /\ Idle(u) # None) \/ v = WindowNew(u, name, s)
  BY <1>3 DEF PrintWindow, name
<1> QED BY <1>4, <1>5, <1>6, <1>7

-----------------------------------------------------------------------------
(* Windows are left and killed.                                            *)

LEMMA WindowNextKeeps ==
  ASSUME NEW u, Sound(u)
  PROVE  Sound(WindowNext(u)) /\ (Follows(u) => Follows(WindowNext(u)))
<1>1. PICK id : WindowNext(u) = WindowSwitch(u, id)
  BY DEF WindowNext
<1> QED BY <1>1, SwitchKeeps DEF Follows

LEMMA WindowPrevKeeps ==
  ASSUME NEW u, Sound(u)
  PROVE  LET v == WindowPrev(u)
         IN  /\ Sound(v) /\ (Follows(u) => Follows(v))
             /\ v.window = u.window /\ v.list = u.list /\ v.sessions = u.sessions
<1>1. PICK v : v = WindowPrev(u)
  OBVIOUS
<1>2. v = u \/ \E id : v = WindowSwitch(u, id)
  BY <1>1 DEF WindowPrev
<1>3. ASSUME NEW id, v = WindowSwitch(u, id)
      PROVE  /\ Sound(v) /\ (Follows(u) => Follows(v))
             /\ v.window = u.window /\ v.list = u.list /\ v.sessions = u.sessions
  <2>1. Switched(u, id, v)
    BY <1>3, WindowSwitchFacts DEF Sound
  <2>2. /\ Sound(v) /\ \A s : Leads(u, s) => Leads(v, s)
        /\ Plain(u) => Plain(v)
        /\ Twin(u) => Twin(v)
    BY <1>3, SwitchKeeps
  <2> QED BY <2>1, <2>2 DEF Switched, InPlace, Follows
<1> QED BY <1>1, <1>2, <1>3

\* A window that is about to be killed is not the current one any more.
LEMMA WindowPrevLeaves ==
  ASSUME NEW u, Shape(u), u.current \notin {Status, Debug}
  PROVE  WindowPrev(u).current # u.current
<1> DEFINE docked == Places(u, Docked(u))
           stop   == {i \in docked : i > 1 /\ u.list[i] = u.current}
           before == IF stop = {} THEN docked ELSE {i \in docked : i < Min(stop)}
           prev   == u.list[Max(before)]
           id     == u.window[prev].id
           n      == Len(u.list)
<1>1. /\ u \in StateT /\ u.list \in Seq(Windows) /\ n \in Nat
      /\ \A x \in Windows : u.window[x].id \in Nat
      /\ \A i \in 1..n : u.list[i] \in Windows /\ u.list[i] \in Listed(u)
      /\ \A x : x \in Listed(u) <=> \E i \in 1..n : u.list[i] = x
      /\ \A x, y \in Listed(u) : u.window[x].id = u.window[y].id => x = y
      /\ ~u.window[Status].floating
      /\ \A i, j \in 1..n : i < j => u.window[u.list[i]].id < u.window[u.list[j]].id
      /\ \A x \in Listed(u) \ {Status, Debug} : u.window[x].id >= 2
      /\ Listed(u) \subseteq Windows
  BY ShapeFacts, TypeFacts, SetOf DEF Listed, Shape, Ascending
<1>2. PICK p \in 1..n : u.list[p] = u.current
  BY <1>1 DEF Shape
<1>3. PICK q \in 1..n : u.list[q] = Status
  BY <1>1 DEF Shape
<1>4. q < p
  <2>1. u.window[u.list[q]].id = 1 /\ u.window[u.list[p]].id >= 2
    BY <1>1, <1>2, <1>3 DEF Shape
  <2>2. ~(p < q) /\ p # q
    <3>1. p < q => u.window[u.list[p]].id < u.window[u.list[q]].id
      BY <1>1
    <3>2. u.window[u.list[p]].id \in Nat
      BY <1>1
    <3> QED BY <2>1, <3>1, <3>2
  <2> QED BY <1>1, <2>2
<1>5. docked \in SUBSET Nat /\ \A i \in docked : i \in 1..n /\ ~u.window[u.list[i]].floating
  BY <1>1 DEF Places, Docked
<1>6. p \in docked /\ q \in docked
  BY <1>1, <1>2, <1>3 DEF Places, Docked, Shape
<1>7. \A i \in 1..n : u.list[i] = u.list[p] => i = p
  <2> SUFFICES ASSUME NEW i \in 1..n, u.list[i] = u.list[p], i # p PROVE FALSE
    OBVIOUS
  <2>1. u.window[u.list[i]].id < u.window[u.list[p]].id \/ u.window[u.list[p]].id < u.window[u.list[i]].id
    BY <1>1
  <2> QED BY <1>1, <2>1
<1>8. stop = {p}
  BY <1>1, <1>2, <1>4, <1>5, <1>6, <1>7
<1>9. Min(stop) = p
  <2>1. stop \in SUBSET Nat /\ stop # {}
    BY <1>1, <1>8
  <2> HIDE DEF stop
  <2>2. Min(stop) \in stop
    BY <2>1, MinFacts
  <2> QED BY <1>8, <2>2
<1>10. before = {i \in docked : i < p}
  BY <1>8, <1>9
<1> HIDE DEF stop, docked, before
<1>11. Max(before) \in before /\ Max(before) >= q
  <2>a. \A y \in before : y \in docked /\ y < p
    BY <1>10
  <2>b. before \in SUBSET Nat
    BY <2>a, <1>5
  <2>c. q \in before
    BY <1>4, <1>6, <1>10
  <2>d. \A y \in before : y <= p
    BY <2>a, <2>b, <1>1
  <2>1. before \in SUBSET Nat /\ q \in before /\ \A y \in before : y <= p
    BY <2>b, <2>c, <2>d
  <2>2. p \in Nat /\ before # {}
    BY <2>1
  <2>3. Max(before) \in before /\ \A y \in before : Max(before) >= y
    BY <2>1, <2>2, MaxFacts
  <2> QED BY <2>1, <2>3
<1>12. /\ prev \in Listed(u) /\ ~u.window[prev].floating /\ id \in Nat /\ id # 0
       /\ id # u.window[u.current].id
  <2>1. PICK m \in 1..n : m = Max(before) /\ m >= q /\ m < p /\ ~u.window[u.list[m]].floating
    BY <1>5, <1>10, <1>11
  <2>2. u.window[u.list[m]].id < u.window[u.list[p]].id
    BY <1>1, <2>1
  <2>3. u.window[u.list[m]].id >= 1
    <3>1. m = q \/ u.window[u.list[q]].id < u.window[u.list[m]].id
      BY <1>1, <2>1
    <3>2. u.window[u.list[q]].id = 1
      BY <1>3 DEF Shape
    <3> QED BY <1>1, <2>1, <3>1, <3>2
  <2> QED BY <1>1, <1>2, <2>1, <2>2, <2>3
<1>13. WindowPrev(u) = WindowSwitch(u, id)
  BY <1>11, <1>12 DEF WindowPrev, before, stop, docked
<1> HIDE DEF prev, id
<1>14. PICK v : v = WindowSwitch(u, id) /\ Switched(u, id, v)
  BY WindowSwitchFacts
<1>15. u.window[v.current].id = id
  BY <1>12, <1>14 DEF Switched, id
<1> QED BY <1>12, <1>13, <1>14, <1>15

-----------------------------------------------------------------------------
(* Numbers change and windows leave the list.                              *)

LEMMA NumberedFacts ==
  ASSUME NEW r \in WindowT, NEW n \in Shorts
  PROVE  LET q == [r EXCEPT !.id = n]
         IN  /\ q \in WindowT /\ q.id = n /\ q.session = r.session
             /\ q.target = r.target /\ q.floating = r.floating
<1>1. PICK N : N = Shorts
  OBVIOUS
<1> QED BY <1>1 DEF WindowT

\* Numbers change, but not the order of the windows other than w.
Reordered(u, w, v) ==
  /\ v \in StateT /\ v.list = u.list /\ v.sessions = u.sessions /\ v.session = u.session
  /\ v.current = u.current
  /\ \A x \in Windows : /\ v.window[x].session = u.window[x].session
                        /\ v.window[x].target = u.window[x].target
                        /\ v.window[x].floating = u.window[x].floating
  /\ \A x \in Windows \ Listed(u) : v.window[x] = u.window[x]
  /\ \A x \in Listed(u) \ {w} : Proper(v.window[x])
  /\ v.window[Status].id = 1 /\ v.window[Debug].id = 0
  /\ \A x, y \in Listed(u) \ {w} :
       u.window[x].id < u.window[y].id => v.window[x].id < v.window[y].id

LEMMA NotReordered ==
  ASSUME NEW u, Shape(u), NEW w
  PROVE  Reordered(u, w, u)
BY DEF Reordered, Shape

\* The window w is out of the list.
Unlinked(u, w, v) ==
  /\ v \in StateT /\ Ascending(v.list, v.window) /\ Listed(v) = Listed(u) \ {w}
  /\ v.window = u.window /\ v.current = u.current /\ v.session = u.session
  /\ v.sessions = u.sessions

LEMMA UnlinkFacts ==
  ASSUME NEW u, u \in StateT, NEW w \in Listed(u), NEW wd,
         \A x \in Windows : wd[x].id \in Nat, Ascending(u.list, wd),
         \A x, y \in Listed(u) \ {w} : wd[x].id < wd[y].id => u.window[x].id < u.window[y].id
  PROVE  Unlinked(u, w, WindowsUnlink(u, w))
<1> DEFINE t == RemoveFirst(u.list, w)
<1>1. u.list \in Seq(Windows)
  BY TypeFacts
<1>2. t \in Seq(Windows) /\ Ascending(t, u.window) /\ ToSet(t) = ToSet(u.list) \ {w}
  BY <1>1, DropAscending DEF Listed
<1>3. WindowsUnlink(u, w) = [u EXCEPT !.list = t]
  BY DEF WindowsUnlink
<1> HIDE DEF t
<1>4. PICK v : v = [u EXCEPT !.list = t]
  OBVIOUS
<1>5. /\ v \in StateT /\ v.list = t /\ v.window = u.window /\ v.current = u.current
      /\ v.session = u.session /\ v.sessions = u.sessions
  BY <1>2, <1>4 DEF StateT
<1> QED BY <1>2, <1>3, <1>4, <1>5 DEF Unlinked, Listed

LEMMA ReorderedUnlinked ==
  ASSUME NEW u, Shape(u), NEW w \in Listed(u), NEW m, Reordered(u, w, m)
  PROVE  Unlinked(m, w, WindowsUnlink(m, w))
<1>1. \A x \in Windows : u.window[x].id \in Nat
  BY TypeFacts DEF Shape
<1>2. m \in StateT /\ m.list = u.list /\ Listed(m) = Listed(u) /\ Ascending(m.list, u.window)
  BY DEF Reordered, Listed, Shape
<1>3. \A x, y \in Listed(m) \ {w} : u.window[x].id < u.window[y].id => m.window[x].id < m.window[y].id
  BY <1>2 DEF Reordered
<1> QED BY <1>1, <1>2, <1>3, UnlinkFacts

\* windows_remove() of a window that is not the current one.
LEMMA RemovedKeeps ==
  ASSUME NEW u, Sound(u), NEW w \in Listed(u) \ {Status, Debug}, w # u.current,
         NEW m, Reordered(u, w, m)
  PROVE  LET v == WindowsRemove(m, w) IN Sound(v) /\ (Follows(u) => Follows(v))
<1>1. PICK l : l = WindowsUnlink(m, w) /\ Unlinked(m, w, l)
  BY ReorderedUnlinked DEF Sound
<1>2. /\ l \in StateT /\ w \in Windows /\ l.window \in [Windows -> WindowT] /\ Unused \in WindowT
      /\ Status \in Windows /\ Debug \in Windows /\ Listed(u) \subseteq Windows
  <2>1. l \in StateT /\ w \in Windows /\ Listed(u) \subseteq Windows
    BY <1>1, ShapeFacts DEF Unlinked, Sound
  <2>2. 0 \in Shorts
    BY NumberFacts
  <2>3. PICK N : N = Shorts
    OBVIOUS
  <2>4. Unused \in WindowT
    BY <2>2, <2>3 DEF Unused, WindowT
  <2> QED BY <2>1, <2>4, TypeFacts, ConstantFacts
<1>3. LET q == [l.window EXCEPT ![w] = Unused]
      IN  /\ q \in [Windows -> WindowT] /\ q[w] = Unused
          /\ \A x \in Windows : x # w => q[x] = l.window[x]
  BY <1>2, ReplaceFacts
<1>4. PICK wd \in [Windows -> WindowT] :
        /\ wd = [l.window EXCEPT ![w] = Unused] /\ wd[w] = Unused
        /\ \A x \in Windows : x # w => wd[x] = l.window[x]
  BY <1>3
<1>5. PICK v : v = Put(l, wd, l.session)
  OBVIOUS
<1>6. /\ v \in StateT /\ v.window = wd /\ v.session = l.session /\ v.list = l.list
      /\ v.current = l.current /\ v.sessions = l.sessions
  BY <1>2, <1>5, PutFacts, TypeFacts
<1>7. v = WindowsRemove(m, w)
  <2>1. WindowsRemove(m, w) = [l EXCEPT !.window = wd]
    BY <1>1, <1>4 DEF WindowsRemove
  <2>2. [l EXCEPT !.window = wd] = Put(l, wd, l.session)
    BY <1>2 DEF Put, StateT
  <2> QED BY <1>5, <2>1, <2>2
<1>8. /\ Listed(v) = Listed(u) \ {w} /\ Listed(v) = ToSet(v.list)
      /\ v.sessions = u.sessions /\ v.session = u.session /\ v.current = u.current
      /\ \A x \in Listed(v) : x \in Windows /\ v.window[x] = m.window[x]
  BY <1>1, <1>2, <1>4, <1>6 DEF Unlinked, Reordered, Listed
<1>9. Status \in Listed(v) /\ Debug \in Listed(v) /\ v.current \in Listed(v)
  BY <1>8 DEF Sound, Shape
<1>10. Shape(v)
  <2>1. Ascending(v.list, v.window)
    <3>1. \A i \in 1..Len(v.list) : v.list[i] \in Listed(v)
      BY <1>6, <1>8, SetOf, TypeFacts
    <3>2. \A i \in 1..Len(v.list) : v.window[v.list[i]] = l.window[v.list[i]]
      BY <1>1, <1>8, <3>1 DEF Unlinked
    <3> QED BY <1>1, <1>6, <3>2 DEF Ascending, Unlinked
  <2>2. \A x \in Listed(v) : Proper(v.window[x])
    BY <1>8 DEF Reordered
  <2>3. \A x \in Windows \ Listed(v) : v.window[x] = Unused
    BY <1>1, <1>4, <1>6, <1>8 DEF Reordered, Unlinked, Sound, Shape
  <2>4. ~v.window[v.current].floating
    BY <1>8, <1>9 DEF Reordered, Sound, Shape
  <2>5. v.window[Status].id = 1 /\ v.window[Debug].id = 0
    BY <1>8, <1>9 DEF Reordered
  <2> QED BY <1>6, <1>9, <2>1, <2>2, <2>3, <2>4, <2>5 DEF Shape
<1>11. \A x \in Listed(v) : /\ v.window[x].session = u.window[x].session
                            /\ v.window[x].target = u.window[x].target
  BY <1>8 DEF Reordered
<1>12. Live(v)
  BY <1>8, <1>11 DEF Sound, Live
<1>13. Follows(u) => Follows(v)
  BY <1>8, <1>9, <1>11 DEF Follows, Leads, Plain, Twin
<1> QED BY <1>7, <1>10, <1>12, <1>13 DEF Sound

\* config_sort_windows keeps the order.
LEMMA RenumberedFacts ==
  ASSUME NEW u, Shape(u), NEW w \in Listed(u) \ {Status, Debug}, ~u.window[w].floating
  PROVE  Reordered(u, w, Renumbered(u, w))
<1> DEFINE up(x) == x \in Listed(u) /\ ~u.window[x].floating /\ u.window[x].id > 1 /\ u.window[x].id > u.window[w].id
           new(x) == IF up(x) THEN [u.window[x] EXCEPT !.id = @ - 1] ELSE u.window[x]
<1>1. /\ u \in StateT /\ w \in Windows /\ Listed(u) \subseteq Windows
      /\ u.window \in [Windows -> WindowT] /\ u.session \in Sessions \cup {None}
      /\ \A x \in Windows : /\ u.window[x] \in WindowT /\ u.window[x].id \in Nat
                            /\ u.window[x].id \in Shorts
      /\ \A x, y \in Listed(u) : u.window[x].id = u.window[y].id => x = y
      /\ u.window[w].id >= 2
      /\ \A x \in Listed(u) : Proper(u.window[x])
      /\ Status \in Listed(u) /\ Debug \in Listed(u)
      /\ u.window[Status].id = 1 /\ u.window[Debug].id = 0
  BY ShapeFacts, TypeFacts DEF Shape
<1>2. ASSUME NEW x \in Windows
      PROVE  /\ new(x) \in WindowT /\ new(x).session = u.window[x].session
             /\ new(x).target = u.window[x].target /\ new(x).floating = u.window[x].floating
             /\ new(x).id = IF up(x) THEN u.window[x].id - 1 ELSE u.window[x].id
  <2>1. CASE up(x)
    <3>1. u.window[x].id - 1 \in Shorts
      BY <1>1, <2>1, NumberFacts
    <3>2. PICK n \in Shorts : n = u.window[x].id - 1
      BY <3>1
    <3>3. LET q == [u.window[x] EXCEPT !.id = n]
          IN  /\ q \in WindowT /\ q.id = n /\ q.session = u.window[x].session
              /\ q.target = u.window[x].target /\ q.floating = u.window[x].floating
      BY <1>1, NumberedFacts
    <3>4. new(x) = [u.window[x] EXCEPT !.id = n]
      BY <2>1, <3>2
    <3> QED BY <2>1, <3>2, <3>3, <3>4
  <2>2. CASE ~up(x)
    BY <1>1, <2>2
  <2> QED BY <2>1, <2>2
<1>3. PICK wd : wd = [x \in Windows |-> new(x)]
  OBVIOUS
<1>4. PICK v : v = Put(u, wd, u.session)
  OBVIOUS
<1>5. v = Renumbered(u, w)
  <2>1. [u EXCEPT !.window = wd] = Put(u, wd, u.session)
    BY <1>1 DEF Put, StateT
  <2>2. wd = [x \in Windows |->
               IF x \in Listed(u) /\ ~u.window[x].floating /\ u.window[x].id > 1 /\ u.window[x].id > u.window[w].id
               THEN [u.window[x] EXCEPT !.id = @ - 1] ELSE u.window[x]]
    BY <1>3, Zenon
  <2>3. Renumbered(u, w) = [u EXCEPT !.window = wd]
    BY <2>2, Zenon DEF Renumbered
  <2> QED BY <1>4, <2>1, <2>3
<1> HIDE DEF new
<1>6. wd \in [Windows -> WindowT] /\ \A x \in Windows : wd[x] = new(x)
  BY <1>2, <1>3
<1>7. /\ v \in StateT /\ v.window = wd /\ v.list = u.list /\ v.sessions = u.sessions
      /\ v.session = u.session /\ v.current = u.current
  BY <1>1, <1>4, <1>6, PutFacts
<1>8. \A x \in Windows : /\ v.window[x].session = u.window[x].session
                         /\ v.window[x].target = u.window[x].target
                         /\ v.window[x].floating = u.window[x].floating
                         /\ v.window[x].id = IF up(x) THEN u.window[x].id - 1 ELSE u.window[x].id
  BY <1>2, <1>6, <1>7
<1>9. \A x \in Windows \ Listed(u) : v.window[x] = u.window[x]
  BY <1>6, <1>7 DEF new
<1>10. \A x \in Listed(u) : Proper(v.window[x])
  BY <1>1, <1>8, NumberFacts DEF Proper
<1>11. v.window[Status].id = 1 /\ v.window[Debug].id = 0
  BY <1>1, <1>8
<1>12. ASSUME NEW x \in Listed(u) \ {w}, NEW y \in Listed(u) \ {w}, u.window[x].id < u.window[y].id
       PROVE  v.window[x].id < v.window[y].id
  <2>1. /\ u.window[x].id \in Nat /\ u.window[y].id \in Nat /\ u.window[w].id \in Nat
        /\ u.window[x].id # u.window[w].id
    BY <1>1
  <2>2. CASE ~up(y)
    BY <1>1, <1>8, <1>12, <2>1, <2>2
  <2>3. CASE up(x) /\ up(y)
    BY <1>1, <1>8, <1>12, <2>1, <2>3
  <2>4. CASE ~up(x) /\ up(y)
    <3>1. u.window[x].id < u.window[w].id \/ u.window[x].id <= 1
      BY <1>1, <1>12, <2>1, <2>4, NumberFacts DEF Proper
    <3>2. u.window[y].id > u.window[w].id
      BY <2>4
    <3>3. v.window[x].id = u.window[x].id /\ v.window[y].id = u.window[y].id - 1
      BY <1>1, <1>8, <2>4
    <3> QED BY <1>1, <2>1, <3>1, <3>2, <3>3
  <2> QED BY <2>2, <2>3, <2>4
<1> HIDE DEF up
<1> QED BY <1>5, <1>7, <1>8, <1>9, <1>10, <1>11, <1>12 DEF Reordered

LEMMA WindowKillKeeps ==
  ASSUME NEW u, Sound(u), NEW w \in Listed(u), NEW sort
  PROVE  LET v == WindowKill(u, w, sort) IN Sound(v) /\ (Follows(u) => Follows(v))
<1>1. PICK v : v = WindowKill(u, w, sort)
  OBVIOUS
<1>2. /\ Shape(u) /\ u.window[Status].id = 1 /\ ~u.window[Status].floating
      /\ \A x \in Listed(u) : u.window[x].id = u.window[Status].id => x = Status
      /\ Status \in Listed(u) /\ ~u.window[u.current].floating
  BY ShapeFacts DEF Sound, Shape
<1>3. CASE u.window[w].id = 1 /\ u.window[w].target # NoTarget
  <2>1. w = Status /\ v = WithTarget(u, w, NoTarget)
    BY <1>1, <1>2, <1>3 DEF WindowKill, WithTarget
  <2> QED BY <1>1, <1>2, <2>1, WithTargetKeeps DEF Follows
<1>4. CASE ~(u.window[w].id = 1 /\ u.window[w].target # NoTarget) /\ w \in {Status, Debug}
  BY <1>1, <1>4 DEF WindowKill
<1>5. CASE ~(u.window[w].id = 1 /\ u.window[w].target # NoTarget) /\ w \notin {Status, Debug}
  <2>1. PICK left : left = IF w = u.current THEN WindowPrev(u) ELSE u
    OBVIOUS
  <2>2. /\ Sound(left) /\ (Follows(u) => Follows(left)) /\ w # left.current
        /\ left.window = u.window /\ Listed(left) = Listed(u)
    <3>1. CASE w = u.current
      <4>1. left = WindowPrev(u)
        BY <2>1, <3>1
      <4>2. left.current # w
        BY <1>2, <1>5, <3>1, <4>1, WindowPrevLeaves
      <4> QED BY <4>1, <4>2, WindowPrevKeeps DEF Listed
    <3>2. CASE w # u.current
      BY <2>1, <3>2
    <3> QED BY <3>1, <3>2
  <2>3. PICK m : m = IF sort /\ ~u.window[w].floating THEN Renumbered(left, w) ELSE left
    OBVIOUS
  <2>4. Reordered(left, w, m)
    <3>1. CASE sort /\ ~u.window[w].floating
      <4>1. m = Renumbered(left, w)
        BY <2>3, <3>1
      <4> QED BY <1>5, <2>2, <3>1, <4>1, RenumberedFacts DEF Sound
    <3>2. CASE ~(sort /\ ~u.window[w].floating)
      <4>1. m = left
        BY <2>3, <3>2
      <4> QED BY <2>2, <4>1, NotReordered DEF Sound
    <3> QED BY <3>1, <3>2
  <2>5. v = WindowsRemove(m, w)
    BY <1>1, <1>5, <2>1, <2>3, Zenon DEF WindowKill
  <2> QED BY <1>1, <1>5, <2>2, <2>4, <2>5, RemovedKeeps
<1> QED BY <1>1, <1>3, <1>4, <1>5

LEMMA CmdWindowKillKeeps ==
  ASSUME NEW u, Sound(u), NEW w \in Listed(u), NEW sort
  PROVE  LET v == CmdWindowKill(u, w, sort) IN Sound(v) /\ (Follows(u) => Follows(v))
<1>1. PICK m : m = WindowKill(u, w, sort) /\ Sound(m) /\ (Follows(u) => Follows(m))
  BY WindowKillKeeps
<1>2. CmdWindowKill(u, w, sort) = WindowSwitch(m, m.window[m.current].id)
  BY <1>1 DEF CmdWindowKill
<1> QED BY <1>1, <1>2, SwitchKeeps DEF Follows

LEMMA ContactsGoneKeeps ==
  ASSUME NEW u, Sound(u), NEW sort
  PROVE  LET v == ContactsGone(u, sort) IN Sound(v) /\ (Follows(u) => Follows(v))
<1>1. PICK old : old = WindowFind(u, None, Contacts)
  OBVIOUS
<1>2. CASE old = None
  BY <1>1, <1>2 DEF ContactsGone
<1>3. CASE old # None
  <2>1. old \in Listed(u)
    BY <1>1, <1>3, WindowFindFacts DEF Sound, Shape
  <2>2. ContactsGone(u, sort) = WindowKill(u, old, sort)
    BY <1>1, <1>3 DEF ContactsGone
  <2> QED BY <2>1, <2>2, WindowKillKeeps
<1> QED BY <1>2, <1>3

LEMMA ContactsResetKeeps ==
  ASSUME NEW u, Sound(u), NEW sort, NEW show, CanAllocate(ContactsGone(u, sort))
  PROVE  LET v == ContactsReset(u, show, sort) IN Sound(v) /\ (Follows(u) => Follows(v))
<1>1. PICK g : g = ContactsGone(u, sort) /\ Sound(g) /\ (Follows(u) => Follows(g))
  BY ContactsGoneKeeps
<1>2. CASE ~(show /\ ~Exists(g, Contacts, None))
  BY <1>1, <1>2 DEF ContactsReset
<1>3. CASE show /\ ~Exists(g, Contacts, None)
  <2>1. ContactsReset(u, show, sort) = WindowMake(g, Contacts, None, ContactsId, TRUE)
    BY <1>1, <1>3, Zenon DEF ContactsReset
  <2>2. \A x \in Listed(g) : g.window[x].id # ContactsId
    <3> SUFFICES ASSUME NEW x \in Listed(g), g.window[x].id = ContactsId PROVE FALSE
      OBVIOUS
    <3>1. g.window[x].floating
      BY <1>1, ShapeFacts DEF Sound
    <3>2. g.window[x].session = None /\ g.window[x].target = Contacts
      BY <1>1, <3>1 DEF Sound, Shape, Proper
    <3>3. WindowFind(g, None, Contacts) # None
      BY <1>1, <3>2, WindowFound DEF Sound, Shape
    <3> QED BY <1>3, <3>3, Constants DEF Exists
  <2>3. Proper(Fresh(Contacts, None, ContactsId, TRUE))
    BY DEF Proper, Fresh
  <2>4. MayMake(g, Contacts, None, ContactsId, TRUE)
    <3>1. ContactsId \in Nat /\ ContactsId <= ContactsId
      BY NumberFacts
    <3>2. Contacts \in Targets \cup {NoTarget} /\ None \in Sessions \cup {None} /\ TRUE \in BOOLEAN
      BY Zenon, Constants
    <3>3. CanAllocate(g) /\ Shape(g)
      BY <1>1 DEF Sound
    <3> QED BY <2>2, <2>3, <3>1, <3>2, <3>3, Zenon DEF MayMake
  <2>5. PICK v : /\ v = WindowMake(g, Contacts, None, ContactsId, TRUE)
                 /\ Made(g, Allocated(g), Fresh(Contacts, None, ContactsId, TRUE), v)
    BY <2>4, WindowMakeFacts, Zenon
  <2>6. Fresh(Contacts, None, ContactsId, TRUE).session \in g.sessions \cup {None}
    BY DEF Fresh
  <2>7. Sound(v) /\ (Follows(g) => Follows(v))
    BY <1>1, <2>5, <2>6, MadeKeeps
  <2> QED BY <1>1, <2>1, <2>5, <2>7
<1> QED BY <1>2, <1>3
-----------------------------------------------------------------------------
(* Windows are moved and swapped.                                          *)

\* The windows are the same, with other numbers.
Relabelled(u, v) ==
  /\ v \in StateT /\ Ascending(v.list, v.window) /\ Listed(v) = Listed(u)
  /\ v.current = u.current /\ v.session = u.session /\ v.sessions = u.sessions
  /\ \A x \in Windows : /\ v.window[x].session = u.window[x].session
                        /\ v.window[x].target = u.window[x].target
                        /\ v.window[x].floating = u.window[x].floating
  /\ \A x \in Windows \ Listed(u) : v.window[x] = u.window[x]
  /\ \A x \in Listed(u) : Proper(v.window[x])
  /\ v.window[Status].id = 1 /\ v.window[Debug].id = 0

LEMMA RelabelledKeeps ==
  ASSUME NEW u, Sound(u), NEW v, Relabelled(u, v)
  PROVE  Sound(v) /\ (Follows(u) => Follows(v))
<1>1. Listed(u) \subseteq Windows /\ u.current \in Listed(u) /\ Status \in Windows /\ Debug \in Windows
  BY ShapeFacts, ConstantFacts DEF Sound, Shape
<1>2. Shape(v)
  BY <1>1 DEF Relabelled, Sound, Shape
<1>3. Live(v)
  BY <1>1 DEF Relabelled, Sound, Live
<1>4. Follows(u) => Follows(v)
  BY <1>1 DEF Relabelled, Follows, Leads, Plain, Twin
<1> QED BY <1>2, <1>3, <1>4 DEF Sound

\* A window is taken out and put back with another number.
LEMMA PutBackFacts ==
  ASSUME NEW u, Sound(u), NEW w \in Listed(u) \ {Status, Debug}, NEW m, Reordered(u, w, m),
         Proper(m.window[w]),
         \A x \in Listed(u) \ {w} : m.window[x].id # m.window[w].id
  PROVE  Relabelled(u, WindowsAdd(WindowsUnlink(m, w), w))
<1>1. PICK l : l = WindowsUnlink(m, w) /\ Unlinked(m, w, l)
  BY ReorderedUnlinked DEF Sound
<1>2. Listed(m) = Listed(u) /\ Listed(u) \subseteq Windows
  BY ShapeFacts DEF Reordered, Listed, Sound
<1>3. PICK v : v = WindowsAdd(l, w) /\ Added(l, w, v)
  BY <1>1, <1>2, WindowsAddFacts DEF Unlinked
<1>4. Listed(v) = Listed(u)
  BY <1>1, <1>2, <1>3 DEF Unlinked, Added
<1> QED BY <1>1, <1>2, <1>3, <1>4 DEF Relabelled, Reordered, Unlinked, Added

\* The number that window_real_move() gives to a window in between.
Shifted(id, from, dest) ==
  IF id \in dest .. from - 1 THEN id + 1
  ELSE IF id \in from + 1 .. dest THEN id - 1 ELSE id

LEMMA ShiftFacts ==
  ASSUME NEW from \in Nat, NEW dest \in Nat, 2 <= from, 2 <= dest, from <= Most, dest <= Most,
         from # dest
  PROVE  /\ \A id \in Shorts : Shifted(id, from, dest) \in Shorts
         /\ \A id \in Nat : id <= 1 \/ id > Most => Shifted(id, from, dest) = id
         /\ \A id \in Nat : id <= Most => Shifted(id, from, dest) <= Most
         /\ \A id \in Nat : id # from => Shifted(id, from, dest) # dest
         /\ \A id, k \in Nat : id # from /\ k # from /\ id < k
              => Shifted(id, from, dest) < Shifted(k, from, dest)
<1>1. ASSUME NEW id \in Nat
      PROVE  /\ Shifted(id, from, dest) = IF dest <= id /\ id < from THEN id + 1
                                          ELSE IF from < id /\ id <= dest THEN id - 1 ELSE id
  BY DEF Shifted
<1>2. \A id \in Nat : id <= 1 \/ id > Most => Shifted(id, from, dest) = id
  BY <1>1, NumberFacts
<1>3. \A id \in Nat : id <= Most => Shifted(id, from, dest) <= Most /\ Shifted(id, from, dest) \in Nat
  BY <1>1, NumberFacts
<1>4. \A id \in Nat : id # from => Shifted(id, from, dest) # dest
  BY <1>1, NumberFacts
<1>5. \A id, k \in Nat : id # from /\ k # from /\ id < k
        => Shifted(id, from, dest) < Shifted(k, from, dest)
  BY <1>1, NumberFacts
<1>6. ASSUME NEW id \in Shorts PROVE Shifted(id, from, dest) \in Shorts
  <2>1. id \in Nat
    BY NumberFacts
  <2>2. CASE id > Most
    BY <1>2, <2>1, <2>2
  <2>3. CASE id <= Most
    <3>1. PICK n : n = Shifted(id, from, dest)
      OBVIOUS
    <3>2. n \in Nat /\ n <= Most
      BY <1>3, <2>1, <2>3, <3>1
    <3> QED BY <3>1, <3>2, NumberFacts
  <2> QED BY <2>1, <2>2, <2>3, NumberFacts
<1> QED BY <1>2, <1>3, <1>4, <1>5, <1>6

LEMMA WindowRealMoveFacts ==
  ASSUME NEW u, Sound(u), NEW w \in Listed(u), NEW dest \in Nat, 2 <= dest, dest <= Most,
         2 <= u.window[w].id, u.window[w].id <= Most, u.window[w].id # dest
  PROVE  Relabelled(u, WindowRealMove(u, w, dest))
<1> DEFINE from == u.window[w].id
           Shift(id) == IF WindowExist(u, dest) = None THEN id ELSE Shifted(id, from, dest)
           new(x) == IF x = w THEN [u.window[w] EXCEPT !.id = dest]
                     ELSE IF x \in Listed(u) THEN [u.window[x] EXCEPT !.id = Shift(@)] ELSE u.window[x]
<1>1. /\ u \in StateT /\ w \in Windows /\ Listed(u) \subseteq Windows
      /\ u.window \in [Windows -> WindowT] /\ u.session \in Sessions \cup {None}
      /\ \A x \in Windows : /\ u.window[x] \in WindowT /\ u.window[x].id \in Nat
                            /\ u.window[x].id \in Shorts
      /\ \A x, y \in Listed(u) : u.window[x].id = u.window[y].id => x = y
      /\ \A x \in Listed(u) : Proper(u.window[x])
      /\ Status \in Listed(u) /\ Debug \in Listed(u)
      /\ u.window[Status].id = 1 /\ u.window[Debug].id = 0
  BY ShapeFacts, TypeFacts DEF Sound, Shape
<1>2. w \notin {Status, Debug} /\ ~u.window[w].floating
  BY <1>1, NumberFacts DEF Proper
<1>3. /\ \A id \in Shorts : Shift(id) \in Shorts
      /\ \A id \in Nat : id <= 1 \/ id > Most => Shift(id) = id
      /\ \A id \in Nat : id <= Most => Shift(id) <= Most
      /\ \A id, k \in Nat : id # from /\ k # from /\ id < k => Shift(id) < Shift(k)
  <2>1. from \in Nat
    BY <1>1
  <2> HIDE DEF from
  <2>2. /\ 2 <= from /\ from <= Most /\ from # dest
    BY DEF from
  <2> QED BY <2>1, <2>2, ShiftFacts
<1>4. \A x \in Listed(u) \ {w} : Shift(u.window[x].id) # dest
  <2>1. CASE WindowExist(u, dest) = None
    <3>1. Listed(u) \cap {y \in Windows : u.window[y].id = dest} = {}
      BY <1>1, <2>1, FirstFacts DEF WindowExist
    <3> QED BY <1>1, <2>1, <3>1
  <2>2. CASE WindowExist(u, dest) # None
    <3>1. from \in Nat /\ \A x \in Listed(u) \ {w} : u.window[x].id \in Nat /\ u.window[x].id # from
      BY <1>1
    <3> QED BY <2>2, <3>1, ShiftFacts
  <2> QED BY <2>1, <2>2
<1>5. dest \in Shorts /\ Number(dest) = dest
  BY NumberFacts
<1>6. ASSUME NEW x \in Windows
      PROVE  /\ new(x) \in WindowT /\ new(x).session = u.window[x].session
             /\ new(x).target = u.window[x].target /\ new(x).floating = u.window[x].floating
             /\ x = w => new(x).id = dest
             /\ x \in Listed(u) \ {w} => new(x).id = Shift(u.window[x].id)
  <2>1. CASE x = w
    BY <1>1, <1>5, <2>1, NumberedFacts
  <2>2. CASE x # w /\ x \in Listed(u)
    <3>1. PICK n \in Shorts : n = Shift(u.window[x].id)
      BY <1>1, <1>3
    <3>2. LET q == [u.window[x] EXCEPT !.id = n]
          IN  /\ q \in WindowT /\ q.id = n /\ q.session = u.window[x].session
              /\ q.target = u.window[x].target /\ q.floating = u.window[x].floating
      BY <1>1, NumberedFacts
    <3>3. new(x) = [u.window[x] EXCEPT !.id = n]
      BY <2>2, <3>1
    <3> HIDE DEF new
    <3> QED BY <2>2, <3>1, <3>2, <3>3
  <2>3. CASE x # w /\ x \notin Listed(u)
    BY <1>1, <2>3
  <2> QED BY <2>1, <2>2, <2>3
<1>7. PICK wd : wd = [x \in Windows |-> new(x)]
  OBVIOUS
<1>8. PICK m : m = Put(u, wd, u.session)
  OBVIOUS
<1>9. WindowRealMove(u, w, dest) = WindowsAdd(WindowsUnlink(m, w), w)
  <2>1. [u EXCEPT !.window = wd] = Put(u, wd, u.session)
    BY <1>1 DEF Put, StateT
  <2>2. WindowRealMove(u, w, dest) = WindowsAdd(WindowsUnlink([u EXCEPT !.window = wd], w), w)
    BY <1>5, <1>7, Zenon DEF WindowRealMove, Shifted
  <2> QED BY <1>8, <2>1, <2>2
<1> HIDE DEF new
<1>10. wd \in [Windows -> WindowT] /\ \A x \in Windows : wd[x] = new(x)
  BY <1>6, <1>7
<1>11. /\ m \in StateT /\ m.window = wd /\ m.list = u.list /\ m.sessions = u.sessions
       /\ m.session = u.session /\ m.current = u.current
  BY <1>1, <1>8, <1>10, PutFacts
<1>12. \A x \in Windows : /\ m.window[x].session = u.window[x].session
                          /\ m.window[x].target = u.window[x].target
                          /\ m.window[x].floating = u.window[x].floating
                          /\ x \in Listed(u) \ {w} => m.window[x].id = Shift(u.window[x].id)
  BY <1>6, <1>10, <1>11
<1>13. \A x \in Windows \ Listed(u) : m.window[x] = u.window[x]
  BY <1>10, <1>11 DEF new
<1>14. m.window[w].id = dest
  BY <1>1, <1>6, <1>10, <1>11
<1> HIDE DEF Shift
<1>15. \A x \in Listed(u) \ {w} : Proper(m.window[x])
  BY <1>1, <1>3, <1>12, NumberFacts DEF Proper
<1>16. m.window[Status].id = 1 /\ m.window[Debug].id = 0
  BY <1>1, <1>2, <1>3, <1>12
<1>17. \A x, y \in Listed(u) \ {w} :
         u.window[x].id < u.window[y].id => m.window[x].id < m.window[y].id
  BY <1>1, <1>3, <1>12
<1>18. Reordered(u, w, m)
  BY <1>11, <1>12, <1>13, <1>15, <1>16, <1>17 DEF Reordered
<1>19. Proper(m.window[w])
  BY <1>1, <1>2, <1>12, <1>14 DEF Proper
<1>20. \A x \in Listed(u) \ {w} : m.window[x].id # m.window[w].id
  BY <1>1, <1>4, <1>12, <1>14
<1> QED BY <1>2, <1>9, <1>18, <1>19, <1>20, PutBackFacts

\* The numbers of two windows are exchanged.
Exchanged(u, v, w) ==
  [u EXCEPT !.window[v].id = u.window[w].id, !.window[w].id = u.window[v].id]

\* The windows v and w have exchanged their numbers.
Swapped(u, v, w, x) ==
  /\ x \in StateT /\ x.list = u.list /\ x.sessions = u.sessions
  /\ x.session = u.session /\ x.current = u.current
  /\ \A y \in Windows : /\ x.window[y].session = u.window[y].session
                        /\ x.window[y].target = u.window[y].target
                        /\ x.window[y].floating = u.window[y].floating
  /\ \A y \in Windows : y \notin {v, w} => x.window[y] = u.window[y]
  /\ x.window[v].id = u.window[w].id /\ x.window[w].id = u.window[v].id

LEMMA ExchangedFacts ==
  ASSUME NEW u \in StateT, NEW v \in Windows, NEW w \in Windows, v # w
  PROVE  Swapped(u, v, w, Exchanged(u, v, w))
<1>1. /\ u.window \in [Windows -> WindowT] /\ u.session \in Sessions \cup {None}
      /\ u.window[v] \in WindowT /\ u.window[w] \in WindowT
      /\ u.window[v].id \in Shorts /\ u.window[w].id \in Shorts
  BY TypeFacts
<1>2. PICK i \in Shorts : i = u.window[w].id
  BY <1>1
<1>3. PICK j \in Shorts : j = u.window[v].id
  BY <1>1
<1>4. PICK p \in WindowT : /\ p = [u.window[v] EXCEPT !.id = i] /\ p.id = i
                           /\ p.session = u.window[v].session
                           /\ p.target = u.window[v].target /\ p.floating = u.window[v].floating
  <2>1. LET q == [u.window[v] EXCEPT !.id = i]
        IN  /\ q \in WindowT /\ q.id = i /\ q.session = u.window[v].session
            /\ q.target = u.window[v].target /\ q.floating = u.window[v].floating
    BY <1>1, NumberedFacts
  <2> QED BY <2>1
<1>5. PICK q \in WindowT : /\ q = [u.window[w] EXCEPT !.id = j] /\ q.id = j
                           /\ q.session = u.window[w].session
                           /\ q.target = u.window[w].target /\ q.floating = u.window[w].floating
  <2>1. LET q == [u.window[w] EXCEPT !.id = j]
        IN  /\ q \in WindowT /\ q.id = j /\ q.session = u.window[w].session
            /\ q.target = u.window[w].target /\ q.floating = u.window[w].floating
    BY <1>1, NumberedFacts
  <2> QED BY <2>1
<1>6. PICK wd \in [Windows -> WindowT] :
        /\ wd = [u.window EXCEPT ![v] = p] /\ wd[v] = p
        /\ \A y \in Windows : y # v => wd[y] = u.window[y]
  <2>1. LET t == [u.window EXCEPT ![v] = p]
        IN  /\ t \in [Windows -> WindowT] /\ t[v] = p
            /\ \A y \in Windows : y # v => t[y] = u.window[y]
    BY <1>1, ReplaceFacts
  <2> QED BY <2>1
<1>7. PICK wd2 \in [Windows -> WindowT] :
        /\ wd2 = [wd EXCEPT ![w] = q] /\ wd2[w] = q
        /\ \A y \in Windows : y # w => wd2[y] = wd[y]
  <2>1. LET t == [wd EXCEPT ![w] = q]
        IN  /\ t \in [Windows -> WindowT] /\ t[w] = q
            /\ \A y \in Windows : y # w => t[y] = wd[y]
    BY ReplaceFacts
  <2> QED BY <2>1
<1>8. PICK x : x = Put(u, wd2, u.session)
  OBVIOUS
<1>9. x = Exchanged(u, v, w)
  <2>1. PICK m : m = Put(u, wd, u.session)
    OBVIOUS
  <2>2. [u EXCEPT !.window[v].id = i] = m
    <3>1. [u EXCEPT !.window[v].id = i] = [u EXCEPT !.window = wd]
      BY <1>4, <1>6, Zenon
    <3>2. [u EXCEPT !.window = wd] = Put(u, wd, u.session)
      BY <1>1 DEF Put, StateT
    <3> QED BY <2>1, <3>1, <3>2
  <2>3. m \in StateT /\ m.window = wd /\ m.session = u.session
    BY <1>1, <2>1, PutFacts
  <2>4. wd[w] = u.window[w]
    BY <1>6
  <2>5. [m EXCEPT !.window[w].id = j] = [m EXCEPT !.window = wd2]
    BY <1>5, <1>7, <2>3, <2>4, Zenon
  <2>6. [m EXCEPT !.window = wd2] = Put(u, wd2, u.session)
    BY <1>1, <2>1 DEF Put, StateT
  <2>7. Exchanged(u, v, w) = [m EXCEPT !.window[w].id = j]
    BY <1>2, <1>3, <2>2, Zenon DEF Exchanged
  <2> QED BY <1>8, <2>5, <2>6, <2>7
<1>10. /\ x \in StateT /\ x.window = wd2 /\ x.list = u.list /\ x.sessions = u.sessions
       /\ x.session = u.session /\ x.current = u.current
  BY <1>1, <1>8, PutFacts
<1>11. \A y \in Windows : /\ wd2[y].session = u.window[y].session
                          /\ wd2[y].target = u.window[y].target
                          /\ wd2[y].floating = u.window[y].floating
  BY <1>4, <1>5, <1>6, <1>7
<1>12. \A y \in Windows : y \notin {v, w} => wd2[y] = u.window[y]
  BY <1>6, <1>7
<1>13. wd2[v].id = i /\ wd2[w].id = j
  BY <1>4, <1>5, <1>6, <1>7
<1> QED BY <1>2, <1>3, <1>9, <1>10, <1>11, <1>12, <1>13, Zenon DEF Swapped

LEMMA WindowMoveFacts ==
  ASSUME NEW u, Sound(u), NEW v \in Listed(u) \ {Status, Debug}, NEW w \in Listed(u) \ {Status, Debug},
         v # w, ~u.window[v].floating, ~u.window[w].floating
  PROVE  Relabelled(u, WindowMove(u, v, w))
<1>1. /\ u \in StateT /\ v \in Windows /\ w \in Windows /\ Listed(u) \subseteq Windows
      /\ \A x \in Windows : u.window[x].id \in Nat
      /\ \A x, y \in Listed(u) : u.window[x].id = u.window[y].id => x = y
      /\ \A x \in Listed(u) : Proper(u.window[x])
      /\ Status \in Listed(u) /\ Debug \in Listed(u)
      /\ u.window[Status].id = 1 /\ u.window[Debug].id = 0
  BY ShapeFacts, TypeFacts DEF Sound, Shape
<1>2. PICK k : k = WindowsUnlink(u, v) /\ Unlinked(u, v, k)
  BY NotReordered, ReorderedUnlinked DEF Sound
<1>3. PICK l : l = WindowsUnlink(k, w) /\ Unlinked(k, w, l)
  <2>1. k \in StateT /\ w \in Listed(k) /\ Ascending(k.list, k.window)
    BY <1>2 DEF Unlinked
  <2>2. \A x \in Windows : k.window[x].id \in Nat
    BY <2>1, TypeFacts
  <2> QED BY <2>1, <2>2, UnlinkFacts
<1>4. /\ l \in StateT /\ Ascending(l.list, l.window) /\ Listed(l) = Listed(u) \ {v, w}
      /\ l.window = u.window /\ l.current = u.current /\ l.session = u.session
      /\ l.sessions = u.sessions
  BY <1>2, <1>3 DEF Unlinked
<1>5. PICK x : x = Exchanged(l, v, w) /\ Swapped(l, v, w, x)
  BY <1>1, <1>4, ExchangedFacts
<1>6. WindowMove(u, v, w) = WindowsAdd(WindowsAdd(x, v), w)
  <2>1. x = [l EXCEPT !.window[v].id = u.window[w].id, !.window[w].id = u.window[v].id]
    BY <1>4, <1>5, Zenon DEF Exchanged
  <2> QED BY <1>2, <1>3, <2>1, Zenon DEF WindowMove
<1>7. Listed(x) = Listed(u) \ {v, w} /\ \A i \in 1..Len(x.list) : x.list[i] \in Listed(x)
  BY <1>4, <1>5, SetOf, TypeFacts DEF Listed, Swapped
<1>8. Ascending(x.list, x.window)
  <2>1. \A i \in 1..Len(x.list) : x.window[x.list[i]] = l.window[x.list[i]]
    BY <1>1, <1>5, <1>7 DEF Swapped
  <2> QED BY <1>4, <1>5, <2>1 DEF Ascending, Swapped
<1>9. \A y \in Listed(x) : y \in Windows /\ x.window[y].id # x.window[v].id /\ x.window[y].id # x.window[w].id
  BY <1>1, <1>4, <1>5, <1>7 DEF Swapped
<1>10. PICK a : a = WindowsAdd(x, v) /\ Added(x, v, a)
  BY <1>1, <1>5, <1>8, <1>9, WindowsAddFacts DEF Swapped
<1>11. \A y \in Listed(a) : a.window[y].id # a.window[w].id
  <2>1. x.window[v].id # x.window[w].id
    BY <1>1, <1>4, <1>5 DEF Swapped
  <2> QED BY <1>9, <1>10, <2>1 DEF Added
<1>12. PICK b : b = WindowsAdd(a, w) /\ Added(a, w, b)
  BY <1>1, <1>10, <1>11, WindowsAddFacts DEF Added
<1>13. /\ b \in StateT /\ Ascending(b.list, b.window) /\ Listed(b) = Listed(u) /\ b.window = x.window
       /\ b.current = u.current /\ b.session = u.session /\ b.sessions = u.sessions
  BY <1>4, <1>5, <1>7, <1>10, <1>12 DEF Added, Swapped
<1>14. \A y \in Windows : /\ b.window[y].session = u.window[y].session
                          /\ b.window[y].target = u.window[y].target
                          /\ b.window[y].floating = u.window[y].floating
  BY <1>4, <1>5, <1>13 DEF Swapped
<1>15. \A y \in Windows : y \notin {v, w} => b.window[y] = u.window[y]
  BY <1>4, <1>5, <1>13 DEF Swapped
<1>16. b.window[v].id = u.window[w].id /\ b.window[w].id = u.window[v].id
  BY <1>4, <1>5, <1>13 DEF Swapped
<1>17. \A y \in Listed(u) : Proper(b.window[y])
  BY <1>1, <1>14, <1>15, <1>16 DEF Proper
<1>18. b.window[Status].id = 1 /\ b.window[Debug].id = 0
  BY <1>1, <1>15
<1>19. \A y \in Windows \ Listed(u) : b.window[y] = u.window[y]
  BY <1>15
<1> QED BY <1>6, <1>10, <1>12, <1>13, <1>14, <1>17, <1>18, <1>19 DEF Relabelled

LEMMA CmdWindowMoveKeeps ==
  ASSUME NEW u, Sound(u), NEW w \in Listed(u), NEW dest \in Nat, 2 <= dest, dest <= Most,
         2 <= u.window[w].id, u.window[w].id <= Most, u.window[w].id # dest
  PROVE  LET v == CmdWindowMove(u, w, dest) IN Sound(v) /\ (Follows(u) => Follows(v))
<1>1. PICK m : m = WindowRealMove(u, w, dest) /\ Relabelled(u, m)
  BY WindowRealMoveFacts
<1>2. Sound(m) /\ (Follows(u) => Follows(m))
  BY <1>1, RelabelledKeeps
<1>3. CmdWindowMove(u, w, dest) = WindowSwitch(m, dest)
  BY <1>1 DEF CmdWindowMove
<1> QED BY <1>2, <1>3, SwitchKeeps DEF Follows

LEMMA CmdWindowSwapKeeps ==
  ASSUME NEW u0, Sound(u0), NEW w \in Listed(u0), NEW dest \in Nat, 2 <= dest, dest <= Most,
         2 <= u0.window[w].id, u0.window[w].id <= Most, u0.window[w].id # dest,
         WindowExist(u0, dest) # None \/ CanAllocate(u0)
  PROVE  LET v == CmdWindowSwap(u0, w, dest) IN Sound(v) /\ (Follows(u0) => Follows(v))
<1>1. PICK u : u = IF WindowExist(u0, dest) = None THEN WindowMake(u0, NoTarget, None, dest, FALSE) ELSE u0
  OBVIOUS
<1>2. /\ Sound(u) /\ (Follows(u0) => Follows(u)) /\ w \in Listed(u)
      /\ u.window[w] = u0.window[w]
  <2>1. CASE WindowExist(u0, dest) = None
    <3>1. u = WindowMake(u0, NoTarget, None, dest, FALSE)
      BY <1>1, <2>1
    <3>2. \A x \in Listed(u0) : u0.window[x].id # dest
      <4>1. Listed(u0) \cap {x \in Windows : u0.window[x].id = dest} = {}
        BY <2>1, FirstFacts DEF WindowExist, Sound, Shape
      <4> QED BY <4>1, ShapeFacts DEF Sound
    <3>3. MayMake(u0, NoTarget, None, dest, FALSE)
      <4>1. Proper(Fresh(NoTarget, None, dest, FALSE))
        BY DEF Proper, Fresh
      <4>2. dest \in Nat /\ dest <= ContactsId
        BY NumberFacts
      <4>3. Shape(u0) /\ CanAllocate(u0)
        BY <2>1 DEF Sound
      <4>4. NoTarget \in Targets \cup {NoTarget} /\ None \in Sessions \cup {None} /\ FALSE \in BOOLEAN
        BY Zenon
      <4> QED BY <3>2, <4>1, <4>2, <4>3, <4>4, Zenon DEF MayMake
    <3>4. PICK r : r = Fresh(NoTarget, None, dest, FALSE)
      OBVIOUS
    <3>5. Made(u0, Allocated(u0), r, u)
      BY <3>1, <3>3, <3>4, WindowMakeFacts, Zenon
    <3>6. r.session \in u0.sessions \cup {None}
      BY <3>4 DEF Fresh
    <3>7. w \in Windows
      BY ShapeFacts DEF Sound
    <3> QED BY <3>5, <3>6, <3>7, MadeKeeps DEF Made
  <2>2. CASE WindowExist(u0, dest) # None
    BY <1>1, <2>2
  <2> QED BY <2>1, <2>2
<1>3. PICK v : v = WindowExist(u, dest)
  OBVIOUS
<1>4. PICK m : m = IF v = None THEN u ELSE WindowMove(u, w, v)
  OBVIOUS
<1>5. Sound(m) /\ (Follows(u) => Follows(m))
  <2>1. CASE v = None
    BY <1>2, <1>4, <2>1
  <2>2. CASE v # None
    <3>1. v \in Listed(u) /\ u.window[v].id = dest
      BY <1>2, <1>3, <2>2, FirstFacts DEF WindowExist, Sound, Shape
    <3>2. /\ v \notin {Status, Debug} /\ w \notin {Status, Debug} /\ v # w
          /\ ~u.window[v].floating /\ ~u.window[w].floating
      BY <1>2, <3>1, NumberFacts DEF Sound, Shape, Proper
    <3>3. Relabelled(u, m)
      BY <1>2, <1>4, <2>2, <3>1, <3>2, WindowMoveFacts
    <3> QED BY <1>2, <3>3, RelabelledKeeps
  <2> QED BY <2>1, <2>2
<1>6. CmdWindowSwap(u0, w, dest) = WindowSwitch(m, dest)
  BY <1>1, <1>3, <1>4, Zenon DEF CmdWindowSwap
<1> QED BY <1>2, <1>5, <1>6, SwitchKeeps DEF Follows

-----------------------------------------------------------------------------
(* The program.                                                            *)

LEMMA InitSound ==
  ASSUME Init
  PROVE  Sound(ui) /\ Follows(ui)
<1>1. PICK N : N = Shorts
  OBVIOUS
<1>2. 0 \in Shorts /\ 1 \in Shorts
  BY NumberFacts
<1>3. /\ Status \in Windows /\ Debug \in Windows /\ Status # Debug
  BY ConstantFacts
<1>4. PICK z \in WindowT : z = Unused
  <2>1. Unused \in WindowT
    BY <1>1, <1>2 DEF Unused, WindowT
  <2> QED BY <2>1
<1>5. /\ z.id = 0 /\ z.session = None /\ z.target = NoTarget /\ z.floating = FALSE
  BY <1>4 DEF Unused
<1>6. PICK one \in WindowT : /\ one = [Unused EXCEPT !.id = 1] /\ one.id = 1 /\ one.session = None
                             /\ one.target = NoTarget /\ one.floating = FALSE
  <2>1. LET q == [z EXCEPT !.id = 1]
        IN  /\ q \in WindowT /\ q.id = 1 /\ q.session = z.session
            /\ q.target = z.target /\ q.floating = z.floating
    BY <1>2, NumberedFacts
  <2>2. PICK q : q = [z EXCEPT !.id = 1]
    OBVIOUS
  <2>3. /\ q \in WindowT /\ q.id = 1 /\ q.session = None
        /\ q.target = NoTarget /\ q.floating = FALSE
    BY <1>5, <2>1, <2>2
  <2> QED BY <1>4, <2>2, <2>3
<1>7. [Unused EXCEPT !.id = 0] = z
  <2>1. [Unused EXCEPT !.id = 0] = Unused
    <3>1. Unused.id = 0 /\ DOMAIN Unused = {"id", "session", "target", "floating"}
      BY DEF Unused
    <3> QED BY <3>1 DEF Unused
  <2> QED BY <1>4, <2>1
<1>8. PICK wd : wd = [w \in Windows |-> IF w = Status THEN one ELSE z]
  OBVIOUS
<1>9. /\ wd \in [Windows -> WindowT] /\ wd[Status] = one
      /\ \A w \in Windows : w # Status => wd[w] = z
  BY <1>3, <1>8
<1>10. ui = [window |-> wd, list |-> <<Debug, Status>>, current |-> Status, last |-> -1,
             sessions |-> {}, session |-> None]
  BY <1>4, <1>6, <1>7, <1>8, Zenon DEF Init
<1>11. /\ ui.window = wd /\ ui.list = <<Debug, Status>> /\ ui.current = Status
       /\ ui.sessions = {} /\ ui.session = None
  BY <1>10
<1>12. ui \in StateT
  <2>1. <<Debug, Status>> \in Seq(Windows)
    BY <1>3
  <2>2. -1 \in Int
    OBVIOUS
  <2> QED BY <1>3, <1>9, <1>10, <2>1, <2>2 DEF StateT
<1>13. Listed(ui) = {Debug, Status}
  BY <1>11 DEF Listed, ToSet
<1>14. Ascending(ui.list, ui.window)
  <2> SUFFICES ASSUME NEW i \in 1..Len(ui.list), NEW j \in 1..Len(ui.list), i < j
               PROVE  ui.window[ui.list[i]].id < ui.window[ui.list[j]].id
    BY DEF Ascending
  <2>1. Len(ui.list) = 2 /\ ui.list[1] = Debug /\ ui.list[2] = Status
    BY <1>11
  <2>2. i = 1 /\ j = 2
    BY <2>1
  <2>3. ui.window[Debug] = z /\ ui.window[Status] = one
    BY <1>3, <1>9, <1>11
  <2>4. ui.window[Debug].id < ui.window[Status].id
    BY <1>5, <1>6, <2>3
  <2> QED BY <2>1, <2>2, <2>4
<1>15. \A w \in Listed(ui) : Proper(ui.window[w])
  <2>1. Proper(z) /\ Proper(one)
    BY <1>5, <1>6, NumberFacts DEF Proper
  <2>2. ui.window[Debug] = z /\ ui.window[Status] = one
    BY <1>3, <1>9, <1>11
  <2> QED BY <1>13, <2>1, <2>2
<1>16. \A w \in Windows \ Listed(ui) : ui.window[w] = Unused
  BY <1>4, <1>9, <1>11, <1>13
<1>17. Shape(ui)
  BY <1>3, <1>5, <1>6, <1>9, <1>11, <1>12, <1>13, <1>14, <1>15, <1>16 DEF Shape
<1>18. Live(ui) /\ Follows(ui)
  BY <1>3, <1>5, <1>6, <1>9, <1>11, <1>13 DEF Live, Follows, Leads, Plain, Twin
<1> QED BY <1>17, <1>18 DEF Sound

\* The assumptions: users move windows to numbers below those of floating windows, and three
\* values of window_session_allow; the first session is not removed before the others.
Ordinary ==
  /\ Ids \subseteq 0..Most /\ MaxWindows <= Most /\ Allows \subseteq {0, 2, 4} /\ ~RemoveAny

\* What a step keeps; Follows is kept unless a conversation takes over the window it is read in.
Keeps(u, v) == Sound(v) /\ (MakeWindows \subseteq {2} /\ Follows(u) => Follows(v))

LEMMA NumberOfMoved ==
  ASSUME Ordinary, Sound(ui), NEW w \in Listed(ui), NEW dest \in Ids,
         ui.window[w].id \in Ids \ {0, 1, dest}, dest \notin {0, 1}
  PROVE  /\ dest \in Nat /\ 2 <= dest /\ dest <= Most
         /\ 2 <= ui.window[w].id /\ ui.window[w].id <= Most /\ ui.window[w].id # dest
<1>1. \A i \in Ids : i \in Nat /\ i <= Most
  BY DEF Ordinary
<1>2. ui.window[w].id \in Nat
  BY ShapeFacts, TypeFacts DEF Sound
<1> QED BY <1>1, <1>2

LEMMA StepKeeps ==
  ASSUME Ordinary, Sound(ui), Next
  PROVE  Keeps(ui, ui')
<1>1. /\ MaxWindows <= Most /\ \A allow \in Allows : allow \in {0, 2, 4}
      /\ ui.current \in Listed(ui) /\ ~ui.window[ui.current].floating
      /\ ui.sessions \subseteq Sessions
  BY TypeFacts DEF Ordinary, Sound, Shape
<1>2. CASE AddSession
  BY <1>2, SessionAddKeeps DEF AddSession, Keeps
<1>3. CASE RemoveSession
  <2>1. PICK s \in ui.sessions, allow \in Allows :
          /\ RemoveAny \/ ui.sessions = {s} \/ s # Min(ui.sessions)
          /\ ui' = SessionRemove(ui, s, allow)
    BY <1>3 DEF RemoveSession
  <2>2. ui.sessions = {s} \/ s # Min(ui.sessions)
    BY <2>1 DEF Ordinary
  <2> QED BY <1>1, <2>1, <2>2, SessionRemoveKeeps DEF Keeps
<1>4. CASE ReadSessions
  BY <1>4, SessionReadKeeps DEF ReadSessions, Keeps
<1>5. CASE SwitchSession
  BY <1>5, SessionSwKeeps DEF SwitchSession, Keeps
<1>6. CASE CycleSession
  BY <1>1, <1>6, CycleKeeps DEF CycleSession, Keeps
<1>7. CASE NewWindow
  BY <1>1, <1>7, CmdWindowNewKeeps DEF NewWindow, Keeps
<1>8. CASE SwitchWindow
  <2>1. PICK id : ui' = WindowSwitch(ui, id)
    BY <1>8 DEF SwitchWindow
  <2> QED BY <2>1, SwitchKeeps DEF Keeps, Follows
<1>9. CASE KillWindow
  BY <1>9, CmdWindowKillKeeps DEF KillWindow, Keeps
<1>10. CASE NextWindow
  BY <1>10, WindowNextKeeps DEF NextWindow, Keeps
<1>11. CASE PrevWindow
  BY <1>11, WindowPrevKeeps DEF PrevWindow, Keeps
<1>12. CASE MoveWindow
  BY <1>12, NumberOfMoved, CmdWindowMoveKeeps DEF MoveWindow, Keeps
<1>13. CASE SwapWindows
  BY <1>13, NumberOfMoved, CmdWindowSwapKeeps DEF SwapWindows, Keeps
<1>14. CASE Query
  <2>1. PICK t \in Targets, s \in {UserSession(ui)} \cup ui.sessions, make \in MakeWindows :
          CanAllocate(ui) /\ ui' = CmdQuery(ui, t, s, make)
    BY <1>14 DEF Query
  <2>2. s \in ui.sessions \cup {None}
    BY UserSessionFacts
  <2> QED BY <1>1, <2>1, <2>2, CmdQueryKeeps DEF Keeps
<1>15. CASE Message
  <2>1. PICK t \in Targets, s \in ui.sessions, make \in MakeWindows :
          CanAllocate(ui) /\ ui' = PrintWindow(ui, t, s, make)
    BY <1>15 DEF Message
  <2> QED BY <1>1, <2>1, PrintWindowKeeps DEF Keeps
<1>16. CASE ResetContacts
  BY <1>16, ContactsResetKeeps DEF ResetContacts, Keeps
<1> QED BY <1>2, <1>3, <1>4, <1>5, <1>6, <1>7, <1>8, <1>9, <1>10, <1>11, <1>12, <1>13, <1>14,
           <1>15, <1>16 DEF Next

\* Whatever the constants within the assumptions, every reachable state is sound.
THEOREM StateSound ==
  ASSUME Ordinary
  PROVE  Spec => []Sound(ui)
<1>1. Init => Sound(ui)
  BY InitSound
<1>2. Sound(ui) /\ [Next]_vars => Sound(ui)'
  <2> SUFFICES ASSUME Sound(ui), [Next]_vars PROVE Sound(ui')
    OBVIOUS
  <2>1. CASE Next
    BY <2>1, StepKeeps DEF Keeps
  <2>2. CASE UNCHANGED vars
    BY <2>2 DEF vars
  <2> QED BY <2>1, <2>2
<1> QED BY <1>1, <1>2, PTL DEF Spec

LEMMA SoundTyped ==
  ASSUME Sound(ui)
  PROVE  TypeOK
<1>1. /\ ui \in StateT /\ \A w \in Windows : ui.window[w].id \in Nat
      /\ ui.list \in Seq(Windows)
  BY TypeFacts DEF Sound, Shape
<1>2. IsInjective(ui.list)
  <2>1. \A i, j \in 1..Len(ui.list) : i < j => ui.window[ui.list[i]].id < ui.window[ui.list[j]].id
    BY DEF Sound, Shape, Ascending
  <2>2. DOMAIN ui.list = 1..Len(ui.list) /\ Len(ui.list) \in Nat
    BY <1>1
  <2>3. ASSUME NEW i \in 1..Len(ui.list), NEW j \in 1..Len(ui.list), ui.list[i] = ui.list[j], i # j
        PROVE  FALSE
    <3>1. ui.list[i] \in Windows /\ ui.window[ui.list[i]].id \in Nat
      BY <1>1
    <3>2. ui.window[ui.list[i]].id < ui.window[ui.list[j]].id \/ ui.window[ui.list[j]].id < ui.window[ui.list[i]].id
      BY <2>1, <2>2, <2>3
    <3> QED BY <2>3, <3>1, <3>2
  <2> QED BY <2>2, <2>3 DEF IsInjective
<1> QED BY <1>1, <1>2, TypeFacts DEF TypeOK, Sound, Shape

\* Each part of the state keeps its type, the list holds no window twice, and nothing that is
\* not in the list is in use.
THEOREM TypeCorrect ==
  ASSUME Ordinary
  PROVE  Spec => []TypeOK
BY StateSound, SoundTyped, PTL

\* When the first of several sessions stays and window_session_allow is not 1 (Ordinary): no
\* window points to a session that was removed, session_current neither, and window_current is
\* in the list.  In the two cases excluded session_remove() hands windows to the very session
\* it removes; the theorem says that there is no third.
THEOREM SessionsPointersLive ==
  ASSUME Ordinary
  PROVE  Spec => []PointersLive
<1>1. Sound(ui) => PointersLive
  BY DEF Sound, Live, Shape, PointersLive
<1> QED BY <1>1, StateSound, PTL

\* The list is sorted by numbers that are all different, and the two windows that main()
\* allocated keep theirs.
THEOREM SessionsWindowsOrdered ==
  ASSUME Ordinary
  PROVE  Spec => []WindowsOrdered
<1>1. Sound(ui) => WindowsOrdered
  BY DEF Sound, Shape, Ascending, WindowsOrdered
<1> QED BY <1>1, StateSound, PTL

\* The session of the window that the user looks at is session_current.
THEOREM SessionsFollowWindow ==
  ASSUME Ordinary, MakeWindows \subseteq {2}
  PROVE  Spec => []SessionFollowsWindow
<1> DEFINE Inv == Sound(ui) /\ Follows(ui)
<1>1. Init => Inv
  BY InitSound
<1>2. Inv /\ [Next]_vars => Inv'
  <2> SUFFICES ASSUME Inv, [Next]_vars PROVE Sound(ui') /\ Follows(ui')
    OBVIOUS
  <2>1. CASE Next
    BY <2>1, StepKeeps DEF Keeps
  <2>2. CASE UNCHANGED vars
    BY <2>2 DEF vars
  <2> QED BY <2>1, <2>2
<1>3. Inv => SessionFollowsWindow
  BY DEF Follows, Leads, SessionFollowsWindow
<1> QED BY <1>1, <1>2, <1>3, PTL DEF Spec
=============================================================================
