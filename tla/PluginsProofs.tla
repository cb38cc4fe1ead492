---------------------------- MODULE PluginsProofs ----------------------------
(***************************************************************************)
(* Proofs about Plugins, for any plugins, queries, priorities and depths:  *)
(* the three properties of the run plugins.  All assume Guarded, as that   *)
(* run does: no plugin is unloaded below a frame of its own, or while      *)
(* another one is unloaded.                                                *)
(***************************************************************************)
EXTENDS Plugins, SequenceTheorems, WellFoundedInduction, TLAPS

Guarded == UnloadAny = FALSE

Typed ==
    /\ plugins \in Seq(Plugins) /\ IsInjective(plugins)
    /\ prio \in [Plugins -> Prios \cup {0}]
    /\ queries \in [Queries -> Seq(Owners)]
    /\ watch \in [Plugins -> {None, "idle", "running", "freed", "last"}]
    /\ timers \subseteq Plugins /\ sessions \subseteq Plugins
    /\ frames \in Seq(FrameT)

\* The code of the plugins that are listed is mapped, and the handlers of every
\* query are theirs and the program's.
Listed ==
    /\ code = ToSet(plugins)
    /\ \A q \in Queries :
         IsInjective(queries[q]) /\ ToSet(queries[q]) = ToSet(plugins) \cup {Core}

\* How far a walk of the handlers list got: what it owes and has passed, it has
\* called, and it has called nothing that lies ahead.
Reached(f, list, n) ==
    /\ n \in 1..Len(list) /\ list[n] = f.plugin
    /\ \A k \in 1..n : list[k] \in f.owed => list[k] \in ToSet(f.called)
    /\ \A r \in ToSet(f.called) : \E k \in 1..n : list[k] = r

Walk(f, list) ==
    /\ f.only # None => f.owed \subseteq {f.only}
    /\ \E n \in 1..Len(list) : Reached(f, list, n)

Placed(f) ==
    /\ IsInjective(f.called)
    /\ f.kind # "emit" => f.plugin \in Plugins
    /\ f.kind = "emit" => f.id \in Queries
    /\ f.kind = "unload" => f.phase \in {"watches", "timers", "sessions", "session", "queries"}

InCode(f) == f.plugin # Core => f.plugin \in code

Walking(f) == f.kind = "emit" /\ ~f.moved => Walk(f, queries[f.id])

\* What plugin_unload() has done so far stays done.
Unloaded(f) ==
    /\ f.phase = "watches" => watch[f.plugin] \in {None, "idle"}
    /\ f.phase = "timers" => watch[f.plugin] \in {None, "last"}
    /\ f.phase \in {"sessions", "session", "queries"} =>
         watch[f.plugin] = None /\ f.plugin \notin timers
    /\ f.phase = "queries" => f.plugin \notin sessions

Holding(f) ==
    /\ f.kind = "watch" => watch[f.plugin] \in {"running", "freed"}
    /\ f.kind = "last" => watch[f.plugin] = "last"
    /\ f.kind = "unload" => Unloaded(f)

Fits(f) == Placed(f) /\ InCode(f) /\ Walking(f) /\ Holding(f)

Fitting == \A f \in ToSet(frames) : Fits(f)

\* The frame f may be above the frame g: the loop calls on an empty stack, one
\* plugin is unloaded at a time, and not below a frame of its own.
MayBeAbove(f, g) ==
    /\ f.kind \notin {"watch", "timer"}
    /\ f.kind = "unload" => g.kind # "unload" /\ g.plugin # f.plugin
    /\ g.kind = "unload" => g.phase # "watches"
    /\ g.kind = "unload" /\ f.kind \in Loaders => f.plugin # g.plugin
    /\ f.kind = "last" /\ g.kind = "last" => f.plugin # g.plugin

Stacked(fs) == \A i, j \in 1..Len(fs) : i < j => MayBeAbove(fs[i], fs[j])

LastIsThere ==
    \A p \in Plugins : watch[p] = "last" =>
        \E f \in ToSet(frames) : f.kind = "last" /\ f.plugin = p

Nothing(p) == watch[p] = None /\ p \notin timers \cup sessions
NothingHeld == \A p \in Plugins \ ToSet(plugins) : Nothing(p)

IInv ==
    /\ Typed /\ Listed /\ NothingHeld
    /\ Fitting /\ Stacked(frames) /\ LastIsThere

-----------------------------------------------------------------------------
(* Sequences.                                                              *)

\* The frames of plugin_load() are spoken of by the set of their kinds.
USE DEF Loaders

LEMMA SmallestOf ==
  ASSUME NEW S \in SUBSET Nat, S # {}
  PROVE  \E x \in S : \A y \in S : x <= y
<1>1. IsWellFoundedOn(OpToRel(<, Nat), Nat)
  BY NatLessThanWellFounded
<1>2. PICK x \in S : \A y \in S : ~(<<y, x>> \in OpToRel(<, Nat))
  BY <1>1, WFMin
<1>3. \A y \in S : x <= y
  <2> SUFFICES ASSUME NEW y \in S PROVE x <= y
    OBVIOUS
  <2>1. ~(<<y, x>> \in OpToRel(<, Nat))
    BY <1>2
  <2>2. x \in Nat /\ y \in Nat
    OBVIOUS
  <2>3. y < x => <<y, x>> \in OpToRel(<, Nat)
    BY <2>2, Zenon DEF OpToRel
  <2>4. ~(y < x)
    BY <2>1, <2>3, Zenon
  <2> QED BY <2>2, <2>4
<1> QED BY <1>3

LEMMA ConcatFacts ==
    ASSUME NEW S, NEW s \in Seq(S), NEW t \in Seq(S)
    PROVE  /\ s \o t \in Seq(S) /\ Len(s \o t) = Len(s) + Len(t)
           /\ \A i \in 1..Len(s) : (s \o t)[i] = s[i]
           /\ \A i \in 1..Len(t) : (s \o t)[Len(s) + i] = t[i]
<1>1. /\ s \o t \in Seq(S) /\ Len(s \o t) = Len(s) + Len(t)
      /\ \A i \in 1..Len(s) + Len(t) :
           (s \o t)[i] = IF i <= Len(s) THEN s[i] ELSE t[i - Len(s)]
  BY ConcatProperties
<1>2. Len(s) \in Nat /\ Len(t) \in Nat
  OBVIOUS
<1> QED BY <1>1, <1>2

LEMMA RemoveAtFacts ==
    ASSUME NEW S, NEW s \in Seq(S), NEW i \in 1..Len(s)
    PROVE  /\ RemoveAt(s, i) \in Seq(S) /\ Len(RemoveAt(s, i)) = Len(s) - 1
           /\ \A k \in 1..i - 1 : RemoveAt(s, i)[k] = s[k]
           /\ \A k \in i..Len(s) - 1 : RemoveAt(s, i)[k] = s[k + 1]
<1>1. Len(s) \in Nat /\ \A k \in 1..Len(s) : s[k] \in S
  OBVIOUS
<1>a. LET a == SubSeq(s, 1, i - 1)
      IN  a \in Seq(S) /\ Len(a) = i - 1 /\ \A k \in 1..i - 1 : a[k] = s[k]
  BY <1>1
<1>b. LET b == SubSeq(s, i + 1, Len(s))
      IN  b \in Seq(S) /\ Len(b) = Len(s) - i /\ \A k \in 1..Len(s) - i : b[k] = s[i + k]
  BY <1>1
<1>2. PICK a \in Seq(S) : a = SubSeq(s, 1, i - 1) /\ Len(a) = i - 1
                          /\ \A k \in 1..i - 1 : a[k] = s[k]
  BY <1>a, Zenon
<1>3. PICK b \in Seq(S) : b = SubSeq(s, i + 1, Len(s)) /\ Len(b) = Len(s) - i
                          /\ \A k \in 1..Len(s) - i : b[k] = s[i + k]
  BY <1>b, Zenon
<1>4. RemoveAt(s, i) = a \o b
  BY <1>2, <1>3 DEF RemoveAt
<1>5. /\ a \o b \in Seq(S) /\ Len(a \o b) = Len(a) + Len(b)
      /\ \A k \in 1..Len(a) : (a \o b)[k] = a[k]
      /\ \A k \in 1..Len(b) : (a \o b)[Len(a) + k] = b[k]
  BY ConcatFacts
<1>6. ASSUME NEW k \in i..Len(s) - 1
      PROVE  (a \o b)[k] = s[k + 1]
  <2> DEFINE l == k - (i - 1)
  <2>1. l \in 1..Len(b) /\ Len(a) + l = k /\ i + l = k + 1 /\ l \in 1..Len(s) - i
    BY <1>1, <1>2, <1>3
  <2> HIDE DEF l
  <2>2. (a \o b)[Len(a) + l] = b[l]
    BY <1>5, <2>1
  <2>3. b[l] = s[i + l]
    BY <1>3, <2>1
  <2> QED BY <2>1, <2>2, <2>3
<1>7. Len(a \o b) = Len(s) - 1 /\ \A k \in 1..i - 1 : (a \o b)[k] = s[k]
  <2>1. Len(a) = i - 1 /\ Len(b) = Len(s) - i
    BY <1>2, <1>3
  <2>2. (i - 1) + (Len(s) - i) = Len(s) - 1
    BY <1>1
  <2>3. \A k \in 1..i - 1 : (a \o b)[k] = a[k]
    BY <1>5, <2>1
  <2>4. \A k \in 1..i - 1 : (a \o b)[k] = s[k]
    BY <1>2, <2>3
  <2> QED BY <1>5, <2>1, <2>2, <2>4
<1> QED BY <1>4, <1>5, <1>6, <1>7, Zenon

LEMMA SetOf ==
    ASSUME NEW S, NEW s \in Seq(S)
    PROVE  /\ Len(s) \in Nat /\ ToSet(s) \subseteq S
           /\ \A x : x \in ToSet(s) <=> \E i \in 1..Len(s) : s[i] = x
           /\ IsInjective(s) <=> \A i, j \in 1..Len(s) : s[i] = s[j] => i = j
<1>1. Len(s) \in Nat /\ DOMAIN s = 1..Len(s) /\ \A i \in 1..Len(s) : s[i] \in S
  OBVIOUS
<1>2. \A x : x \in ToSet(s) <=> \E i \in 1..Len(s) : s[i] = x
  BY <1>1, Zenon DEF ToSet
<1>3. ToSet(s) \subseteq S
  BY <1>1, <1>2
<1>4. IsInjective(s) <=> \A i, j \in 1..Len(s) : s[i] = s[j] => i = j
  BY <1>1, Zenon DEF IsInjective
<1> QED BY <1>1, <1>2, <1>3, <1>4

LEMMA PushFacts ==
    ASSUME NEW S, NEW f \in S, NEW s \in Seq(S)
    PROVE  /\ <<f>> \o s \in Seq(S) /\ Len(<<f>> \o s) = Len(s) + 1
           /\ (<<f>> \o s)[1] = f
           /\ \A i \in 1..Len(s) : (<<f>> \o s)[i + 1] = s[i]
           /\ ToSet(<<f>> \o s) = {f} \cup ToSet(s)
<1> DEFINE t == <<f>> \o s
<1>0. <<f>> \in Seq(S) /\ Len(<<f>>) = 1 /\ <<f>>[1] = f /\ Len(s) \in Nat
  OBVIOUS
<1>1. PICK g \in Seq(S) : g = <<f>> /\ Len(g) = 1 /\ g[1] = f /\ Len(s) \in Nat
  BY <1>0, Zenon
<1>2. /\ t \in Seq(S) /\ Len(t) = 1 + Len(s)
      /\ \A i \in 1..1 : t[i] = g[i]
      /\ \A i \in 1..Len(s) : t[1 + i] = s[i]
  <2>1. /\ g \o s \in Seq(S) /\ Len(g \o s) = Len(g) + Len(s)
        /\ \A i \in 1..Len(g) : (g \o s)[i] = g[i]
        /\ \A i \in 1..Len(s) : (g \o s)[Len(g) + i] = s[i]
    BY ConcatFacts
  <2>2. t = g \o s
    BY <1>1
  <2> HIDE DEF t
  <2> QED BY <1>1, <2>1, <2>2
<1> HIDE DEF t
<1>3. /\ Len(t) = Len(s) + 1 /\ t[1] = f
      /\ \A i \in 1..Len(s) : t[i + 1] = s[i]
  <2>1. \A i \in 1..Len(s) : 1 + i = i + 1
    BY <1>1
  <2>2. 1 + Len(s) = Len(s) + 1 /\ 1 \in 1..1
    BY <1>1
  <2> QED BY <1>1, <1>2, <2>1, <2>2
<1>4. ToSet(t) = {f} \cup ToSet(s)
  <2>1. \A x : x \in ToSet(t) <=> \E i \in 1..Len(t) : t[i] = x
    BY <1>2, SetOf
  <2>2. \A x : x \in ToSet(s) <=> \E i \in 1..Len(s) : s[i] = x
    BY SetOf
  <2>3. ASSUME NEW x \in ToSet(t) PROVE x \in {f} \cup ToSet(s)
    <3>1. PICK i \in 1..Len(t) : t[i] = x
      BY <2>1
    <3>2. i = 1 \/ (i - 1 \in 1..Len(s) /\ (i - 1) + 1 = i)
      BY <1>1, <1>3
    <3> QED BY <1>3, <2>2, <3>1, <3>2
  <2>4. ASSUME NEW x \in {f} \cup ToSet(s) PROVE x \in ToSet(t)
    <3>1. CASE x = f
      <4>1. 1 \in 1..Len(t)
        BY <1>1, <1>3
      <4> QED BY <1>3, <2>1, <3>1, <4>1
    <3>2. CASE x \in ToSet(s)
      <4>1. PICK i \in 1..Len(s) : s[i] = x
        BY <2>2, <3>2
      <4>2. i + 1 \in 1..Len(t)
        BY <1>1, <1>3
      <4> QED BY <1>3, <2>1, <4>1, <4>2
    <3> QED BY <3>1, <3>2
  <2> QED BY <2>3, <2>4
<1> QED BY <1>2, <1>3, <1>4 DEF t

LEMMA TailFacts ==
    ASSUME NEW S, NEW s \in Seq(S), s # << >>
    PROVE  /\ Head(s) \in S /\ Tail(s) \in Seq(S) /\ Head(s) = s[1]
           /\ Len(s) \in Nat /\ Len(s) >= 1 /\ Len(Tail(s)) = Len(s) - 1
           /\ \A i \in 1..Len(s) - 1 : Tail(s)[i] = s[i + 1]
           /\ ToSet(s) = {Head(s)} \cup ToSet(Tail(s))
<1>1. /\ Head(s) \in S /\ Tail(s) \in Seq(S) /\ Head(s) = s[1]
      /\ Len(s) \in Nat /\ Len(s) >= 1 /\ Len(Tail(s)) = Len(s) - 1
      /\ \A i \in 1..Len(s) - 1 : Tail(s)[i] = s[i + 1]
  OBVIOUS
<1> DEFINE t == Tail(s)
<1> HIDE DEF t
<1>2. \A x : x \in ToSet(s) <=> \E i \in 1..Len(s) : s[i] = x
  BY SetOf
<1>3. \A x : x \in ToSet(t) <=> \E i \in 1..Len(t) : t[i] = x
  BY <1>1, SetOf DEF t
<1>4. ASSUME NEW x \in ToSet(s) PROVE x \in {Head(s)} \cup ToSet(t)
  <2>1. PICK i \in 1..Len(s) : s[i] = x
    BY <1>2
  <2>2. i = 1 \/ (i - 1 \in 1..Len(s) - 1 /\ (i - 1) + 1 = i)
    BY <1>1
  <2> QED BY <1>1, <1>3, <2>1, <2>2 DEF t
<1>5. ASSUME NEW x \in {Head(s)} \cup ToSet(t) PROVE x \in ToSet(s)
  <2>1. CASE x = Head(s)
    <3>1. 1 \in 1..Len(s)
      BY <1>1
    <3> QED BY <1>1, <1>2, <2>1, <3>1
  <2>2. CASE x \in ToSet(t)
    <3>1. PICK i \in 1..Len(t) : t[i] = x
      BY <1>3, <2>2
    <3>2. i + 1 \in 1..Len(s) /\ i \in 1..Len(s) - 1
      BY <1>1 DEF t
    <3> QED BY <1>1, <1>2, <3>1, <3>2 DEF t
  <2> QED BY <2>1, <2>2
<1>6. ToSet(s) = {Head(s)} \cup ToSet(t)
  BY <1>4, <1>5
<1> QED BY <1>1, <1>6 DEF t

\* The place of e in a list.
LEMMA IndexFacts ==
    ASSUME NEW S, NEW s \in Seq(S), NEW e
    PROVE  LET i == SelectInSeq(s, LAMBDA r : r = e)
           IN  /\ e \notin ToSet(s) => i = 0
               /\ e \in ToSet(s) => i \in 1..Len(s) /\ s[i] = e
<1> DEFINE I == {k \in 1..Len(s) : s[k] = e}
<1>1. SelectInSeq(s, LAMBDA r : r = e) = IF I # {} THEN Min(I) ELSE 0
  BY Zenon DEF SelectInSeq
<1>2. Len(s) \in Nat /\ \A x : x \in ToSet(s) <=> \E i \in 1..Len(s) : s[i] = x
  BY SetOf
<1>3. I # {} => Min(I) \in I
  <2> SUFFICES ASSUME I # {} PROVE Min(I) \in I
    OBVIOUS
  <2>1. I \in SUBSET Nat
    BY <1>2
  <2> HIDE DEF I
  <2>2. \E x \in I : \A y \in I : x <= y
    BY <2>1, SmallestOf
  <2> QED BY <2>2, Zenon DEF Min
<1>4. e \in ToSet(s) <=> I # {}
  BY <1>2
<1> QED BY <1>1, <1>3, <1>4

LEMMA InsertAtFacts ==
    ASSUME NEW S, NEW s \in Seq(S), NEW i \in 1..Len(s) + 1, NEW e \in S
    PROVE  /\ InsertAt(s, i, e) \in Seq(S)
           /\ ToSet(InsertAt(s, i, e)) = ToSet(s) \cup {e}
           /\ IsInjective(s) /\ e \notin ToSet(s) => IsInjective(InsertAt(s, i, e))
<1>1. Len(s) \in Nat /\ \A k \in 1..Len(s) : s[k] \in S
  OBVIOUS
<1>a. LET a == SubSeq(s, 1, i - 1)
      IN  a \in Seq(S) /\ Len(a) = i - 1 /\ \A k \in 1..i - 1 : a[k] = s[k]
  BY <1>1
<1>b. LET b == SubSeq(s, i, Len(s))
      IN  b \in Seq(S) /\ Len(b) = Len(s) - i + 1 /\ \A k \in 1..Len(s) - i + 1 : b[k] = s[i + k - 1]
  BY <1>1
<1>2. PICK a \in Seq(S) : a = SubSeq(s, 1, i - 1) /\ Len(a) = i - 1
                          /\ \A k \in 1..i - 1 : a[k] = s[k]
  BY <1>a, Zenon
<1>3. PICK b \in Seq(S) : b = SubSeq(s, i, Len(s)) /\ Len(b) = Len(s) - i + 1
                          /\ \A k \in 1..Len(s) - i + 1 : b[k] = s[i + k - 1]
  BY <1>b, Zenon
<1>4. PICK c : c = <<e>> \o b
  OBVIOUS
<1>5. /\ c \in Seq(S) /\ Len(c) = Len(s) - i + 2 /\ c[1] = e
      /\ \A k \in 1..Len(b) : c[k + 1] = b[k]
  <2>1. /\ <<e>> \o b \in Seq(S) /\ Len(<<e>> \o b) = Len(b) + 1
        /\ (<<e>> \o b)[1] = e
        /\ \A k \in 1..Len(b) : (<<e>> \o b)[k + 1] = b[k]
    BY PushFacts
  <2>2. /\ c \in Seq(S) /\ Len(c) = Len(b) + 1 /\ c[1] = e
        /\ \A k \in 1..Len(b) : c[k + 1] = b[k]
    BY <1>4, <2>1, Zenon
  <2>3. Len(b) + 1 = Len(s) - i + 2
    BY <1>1, <1>3
  <2> QED BY <2>2, <2>3
<1>6. PICK t : t = a \o c
  OBVIOUS
<1>7. t = InsertAt(s, i, e)
  <2>1. (a \o <<e>>) \o b = a \o (<<e>> \o b)
    BY ConcatAssociative
  <2> QED BY <1>2, <1>3, <1>4, <1>6, <2>1 DEF InsertAt
<1>8. /\ t \in Seq(S) /\ Len(t) = Len(a) + Len(c)
      /\ \A k \in 1..Len(a) : t[k] = a[k]
      /\ \A k \in 1..Len(c) : t[Len(a) + k] = c[k]
  <2>1. /\ a \o c \in Seq(S) /\ Len(a \o c) = Len(a) + Len(c)
        /\ \A k \in 1..Len(a) : (a \o c)[k] = a[k]
        /\ \A k \in 1..Len(c) : (a \o c)[Len(a) + k] = c[k]
    <3>1. c \in Seq(S)
      BY <1>5
    <3> QED BY <3>1, ConcatFacts
  <2> QED BY <1>6, <2>1, Zenon
<1>9. /\ Len(t) = Len(s) + 1
      /\ \A k \in 1..i - 1 : t[k] = s[k]
      /\ t[i] = e
      /\ \A k \in i..Len(s) : t[k + 1] = s[k]
  <2>1. Len(t) = Len(s) + 1 /\ \A k \in 1..i - 1 : t[k] = s[k]
    <3>1. Len(a) = i - 1 /\ Len(c) = Len(s) - i + 2 /\ Len(t) = Len(a) + Len(c)
      BY <1>2, <1>5, <1>8
    <3>2. Len(t) = Len(s) + 1
      BY <1>1, <3>1
    <3>3. ASSUME NEW k \in 1..i - 1 PROVE t[k] = s[k]
      BY <1>2, <1>8, <3>1
    <3> QED BY <3>2, <3>3
  <2>2. t[i] = e
    <3>1. 1 \in 1..Len(c) /\ Len(a) + 1 = i
      BY <1>1, <1>2, <1>5
    <3> QED BY <1>5, <1>8, <3>1
  <2>3. ASSUME NEW k \in i..Len(s) PROVE t[k + 1] = s[k]
    <3> DEFINE l == k - i + 1
    <3>1. l \in 1..Len(b) /\ l + 1 \in 1..Len(c) /\ Len(a) + (l + 1) = k + 1 /\ i + l - 1 = k
      BY <1>1, <1>2, <1>3, <1>5
    <3>2. l \in 1..Len(s) - i + 1
      BY <1>1
    <3> HIDE DEF l
    <3>3. t[Len(a) + (l + 1)] = c[l + 1] /\ c[l + 1] = b[l] /\ b[l] = s[i + l - 1]
      BY <1>3, <1>5, <1>8, <3>1, <3>2
    <3> QED BY <3>1, <3>3
  <2> QED BY <2>1, <2>2, <2>3
<1>s. /\ \A x : x \in ToSet(s) <=> \E k \in 1..Len(s) : s[k] = x
      /\ IsInjective(s) <=> \A k, l \in 1..Len(s) : s[k] = s[l] => k = l
  BY SetOf
<1>t. /\ \A x : x \in ToSet(t) <=> \E k \in 1..Len(t) : t[k] = x
      /\ IsInjective(t) <=> \A k, l \in 1..Len(t) : t[k] = t[l] => k = l
  BY <1>8, SetOf
<1>10. \A k \in 1..Len(t) :
         \/ k = i
         \/ k \in 1..i - 1 /\ k \in 1..Len(s)
         \/ k - 1 \in i..Len(s) /\ k - 1 \in 1..Len(s) /\ (k - 1) + 1 = k
  BY <1>1, <1>9
<1>11. ASSUME NEW x \in ToSet(t) PROVE x \in ToSet(s) \cup {e}
  <2>1. PICK k \in 1..Len(t) : t[k] = x
    BY <1>t
  <2>2. CASE k = i
    BY <1>9, <2>1, <2>2
  <2>3. CASE k \in 1..i - 1 /\ k \in 1..Len(s)
    BY <1>9, <1>s, <2>1, <2>3
  <2>4. CASE k - 1 \in i..Len(s) /\ k - 1 \in 1..Len(s) /\ (k - 1) + 1 = k
    <3>1. t[(k - 1) + 1] = s[k - 1]
      BY <1>9, <2>4
    <3> QED BY <1>s, <2>1, <2>4, <3>1
  <2> QED BY <1>10, <2>2, <2>3, <2>4
<1>12. ASSUME NEW k \in 1..Len(s) PROVE s[k] \in ToSet(t)
  <2>1. k \in 1..i - 1 \/ k \in i..Len(s)
    BY <1>1
  <2>2. k \in 1..Len(t) /\ k + 1 \in 1..Len(t)
    BY <1>1, <1>9
  <2> QED BY <1>9, <1>t, <2>1, <2>2
<1>13. e \in ToSet(t)
  <2>1. i \in 1..Len(t)
    BY <1>1, <1>9
  <2> QED BY <1>9, <1>t, <2>1
<1>14. ToSet(t) = ToSet(s) \cup {e}
  BY <1>11, <1>12, <1>13, <1>s
<1>15. ASSUME IsInjective(s), e \notin ToSet(s) PROVE IsInjective(t)
  <2> SUFFICES ASSUME NEW k \in 1..Len(t), NEW l \in 1..Len(t), t[k] = t[l]
               PROVE  k = l
    BY <1>t
  <2> DEFINE p(n) == IF n < i THEN n ELSE n - 1
  <2>1. \A n \in 1..Len(t) : n # i => p(n) \in 1..Len(s) /\ t[n] = s[p(n)]
    <3> SUFFICES ASSUME NEW n \in 1..Len(t), n # i
                 PROVE  p(n) \in 1..Len(s) /\ t[n] = s[p(n)]
      OBVIOUS
    <3>1. CASE n < i
      <4>1. p(n) = n /\ n \in 1..i - 1 /\ n \in 1..Len(s)
        BY <1>1, <3>1
      <4> QED BY <1>9, <4>1
    <3>2. CASE ~(n < i)
      <4>1. p(n) = n - 1 /\ n - 1 \in i..Len(s) /\ n - 1 \in 1..Len(s) /\ (n - 1) + 1 = n
        BY <1>1, <1>9, <3>2
      <4> QED BY <1>9, <4>1
    <3> QED BY <3>1, <3>2
  <2>2. \A n \in 1..Len(t) : n # i => t[n] # e
    BY <1>15, <1>s, <2>1
  <2>3. k = i \/ l = i => k = l
    BY <1>9, <2>2
  <2>4. k # i /\ l # i => p(k) = p(l)
    <3> HIDE DEF p
    <3> QED BY <1>15, <1>s, <2>1
  <2>5. k # i /\ l # i /\ p(k) = p(l) => k = l
    BY <1>1, <1>9
  <2> QED BY <2>3, <2>4, <2>5
<1> QED BY <1>7, <1>8, <1>14, <1>15

LEMMA AddSortedFacts ==
    ASSUME NEW S, NEW s \in Seq(S), NEW p \in S, NEW pr
    PROVE  /\ AddSorted(s, p, pr) \in Seq(S)
           /\ ToSet(AddSorted(s, p, pr)) = ToSet(s) \cup {p}
           /\ IsInjective(s) /\ p \notin ToSet(s) => IsInjective(AddSorted(s, p, pr))
<1> DEFINE I == {k \in 1..Len(s) : PrioOf(s[k], pr) <= PrioOf(p, pr)}
           i == IF I # {} THEN Min(I) ELSE 0
<1>1. SelectInSeq(s, LAMBDA r : PrioOf(r, pr) <= PrioOf(p, pr)) = i
  BY Zenon DEF SelectInSeq
<1>2. AddSorted(s, p, pr) = InsertAt(s, IF i = 0 THEN Len(s) + 1 ELSE i, p)
  BY <1>1, Zenon DEF AddSorted
<1>3. i \in 0..Len(s) /\ Len(s) \in Nat
  <2>1. Len(s) \in Nat /\ I \in SUBSET Nat /\ I \subseteq 1..Len(s)
    OBVIOUS
  <2> HIDE DEF I
  <2>2. I # {} => \E x \in I : \A y \in I : x <= y
    BY <2>1, SmallestOf
  <2>3. I # {} => Min(I) \in I
    BY <2>2, Zenon DEF Min
  <2>4. i \in {0} \cup 1..Len(s)
    BY <2>1, <2>3
  <2> HIDE DEF i
  <2> QED BY <2>1, <2>4
<1> HIDE DEF i
<1>4. PICK k \in 1..Len(s) + 1 : AddSorted(s, p, pr) = InsertAt(s, k, p)
  <2>1. (IF i = 0 THEN Len(s) + 1 ELSE i) \in 1..Len(s) + 1
    BY <1>3
  <2> QED BY <1>2, <2>1, Zenon
<1> QED BY <1>4, InsertAtFacts

\* Up to its m-th element, t has what s has up to its n-th, but for p.
UpTo(s, n, t, m, p) ==
    /\ t[m] = s[n]
    /\ \A x : (\E k \in 1..m : t[k] = x) <=> x # p /\ (\E k \in 1..n : s[k] = x)

\* What a list loses, and how far what is left of it reaches.
LEMMA WithoutFacts ==
    ASSUME NEW S, NEW s \in Seq(S), IsInjective(s), NEW p
    PROVE  /\ Without(s, p) \in Seq(S) /\ IsInjective(Without(s, p))
           /\ ToSet(Without(s, p)) = ToSet(s) \ {p}
           /\ \A n \in 1..Len(s) : s[n] # p =>
                \E m \in 1..Len(Without(s, p)) : UpTo(s, n, Without(s, p), m, p)
<1> DEFINE t == Without(s, p)
<1>s. /\ Len(s) \in Nat
      /\ \A x : x \in ToSet(s) <=> \E k \in 1..Len(s) : s[k] = x
      /\ \A k, l \in 1..Len(s) : s[k] = s[l] => k = l
  BY SetOf
<1>1. CASE p \notin ToSet(s)
  <2>1. t = s
    BY <1>s, <1>1, Zenon DEF Without, RemoveFirst
  <2>2. \A k \in 1..Len(s) : s[k] # p
    BY <1>s, <1>1
  <2> HIDE DEF t
  <2>3. \A n \in 1..Len(s) : \E m \in 1..Len(t) : UpTo(s, n, t, m, p)
    <3> SUFFICES ASSUME NEW n \in 1..Len(s) PROVE UpTo(s, n, s, n, p)
      BY <2>1
    <3>1. \A k \in 1..n : s[k] # p
      BY <1>s, <2>2
    <3> QED BY <3>1 DEF UpTo
  <2>4. ToSet(t) = ToSet(s) \ {p}
    BY <1>1, <2>1
  <2> QED BY <2>1, <2>3, <2>4 DEF t
<1>2. CASE p \in ToSet(s)
  <2>1. PICK i \in 1..Len(s) : s[i] = p /\ t = RemoveAt(s, i)
    <3>1. \E k \in 1..Len(s) : s[k] = p
      BY <1>s, <1>2
    <3>2. t = RemoveAt(s, SelectInSeq(s, LAMBDA v : v = p))
      BY <3>1, Zenon DEF Without, RemoveFirst
    <3>3. SelectInSeq(s, LAMBDA v : v = p) \in 1..Len(s) /\ s[SelectInSeq(s, LAMBDA v : v = p)] = p
      BY <1>2, IndexFacts, Zenon
    <3> QED BY <3>2, <3>3, Zenon
  <2>2. /\ t \in Seq(S) /\ Len(t) = Len(s) - 1
        /\ \A k \in 1..i - 1 : t[k] = s[k]
        /\ \A k \in i..Len(s) - 1 : t[k] = s[k + 1]
    <3>1. /\ RemoveAt(s, i) \in Seq(S) /\ Len(RemoveAt(s, i)) = Len(s) - 1
          /\ \A k \in 1..i - 1 : RemoveAt(s, i)[k] = s[k]
          /\ \A k \in i..Len(s) - 1 : RemoveAt(s, i)[k] = s[k + 1]
      BY RemoveAtFacts
    <3> QED BY <2>1, <3>1, Zenon
  <2> HIDE DEF t
  <2> DEFINE q(k) == IF k < i THEN k ELSE k + 1
  <2>3. \A k \in 1..Len(t) : q(k) \in 1..Len(s) /\ q(k) # i /\ t[k] = s[q(k)]
    <3> SUFFICES ASSUME NEW k \in 1..Len(t)
                 PROVE  q(k) \in 1..Len(s) /\ q(k) # i /\ t[k] = s[q(k)]
      OBVIOUS
    <3>1. CASE k < i
      <4>1. q(k) = k /\ k \in 1..i - 1 /\ k \in 1..Len(s)
        BY <1>s, <2>2, <3>1
      <4> QED BY <2>2, <3>1, <4>1
    <3>2. CASE ~(k < i)
      <4>1. q(k) = k + 1 /\ k \in i..Len(s) - 1 /\ k + 1 \in 1..Len(s) /\ k + 1 # i
        BY <1>s, <2>2, <3>2
      <4> QED BY <2>2, <4>1
    <3> QED BY <3>1, <3>2
  <2>4. \A k, l \in 1..Len(t) : q(k) = q(l) => k = l
    BY <1>s, <2>2
  <2>5. \A n \in 1..Len(s) : n # i => \E m \in 1..Len(t) : q(m) = n
    <3> SUFFICES ASSUME NEW n \in 1..Len(s), n # i
                 PROVE  \E m \in 1..Len(t) : q(m) = n
      OBVIOUS
    <3>1. CASE n < i
      <4>1. n \in 1..Len(t) /\ q(n) = n
        BY <1>s, <2>2, <3>1
      <4> QED BY <4>1
    <3>2. CASE ~(n < i)
      <4>1. n - 1 \in 1..Len(t) /\ q(n - 1) = n
        BY <1>s, <2>2, <3>2
      <4> QED BY <4>1
    <3> QED BY <3>1, <3>2
  <2>6. \A k, m \in 1..Len(t) : k <= m <=> q(k) <= q(m)
    BY <1>s, <2>2
  <2> HIDE DEF q
  <2>7. \A k \in 1..Len(s) : s[k] = p <=> k = i
    BY <1>s, <2>1
  <2>t. /\ \A x : x \in ToSet(t) <=> \E k \in 1..Len(t) : t[k] = x
        /\ IsInjective(t) <=> \A k, l \in 1..Len(t) : t[k] = t[l] => k = l
    BY <2>2, SetOf
  <2>8. IsInjective(t)
    <3>1. ASSUME NEW k \in 1..Len(t), NEW l \in 1..Len(t), t[k] = t[l]
          PROVE  k = l
      <4>1. q(k) = q(l)
        BY <1>s, <2>3, <3>1
      <4> QED BY <2>4, <4>1
    <3> QED BY <2>t, <3>1
  <2>9. ToSet(t) = ToSet(s) \ {p}
    <3>1. ASSUME NEW x \in ToSet(t) PROVE x \in ToSet(s) \ {p}
      <4>1. PICK k \in 1..Len(t) : t[k] = x
        BY <2>t
      <4> QED BY <1>s, <2>3, <2>7, <4>1
    <3>2. ASSUME NEW x \in ToSet(s) \ {p} PROVE x \in ToSet(t)
      <4>1. PICK n \in 1..Len(s) : s[n] = x
        BY <1>s
      <4>2. PICK m \in 1..Len(t) : q(m) = n
        BY <2>5, <2>7, <4>1
      <4> QED BY <2>3, <2>t, <4>1, <4>2
    <3> QED BY <3>1, <3>2
  <2>10. ASSUME NEW n \in 1..Len(s), s[n] # p
         PROVE  \E m \in 1..Len(t) : UpTo(s, n, t, m, p)
    <3>1. PICK m \in 1..Len(t) : q(m) = n
      BY <2>5, <2>7, <2>10
    <3>0. \A k \in 1..m : k \in 1..Len(t) /\ k <= m
      BY <2>2
    <3>2. ASSUME NEW x, NEW k \in 1..m, t[k] = x
          PROVE  x # p /\ (\E l \in 1..n : s[l] = x)
      <4>1. q(k) \in 1..Len(s) /\ q(k) # i /\ s[q(k)] = x /\ q(k) <= n
        BY <2>3, <2>6, <3>0, <3>1, <3>2
      <4>2. q(k) \in 1..n
        BY <4>1
      <4> QED BY <2>7, <4>1, <4>2
    <3>3. ASSUME NEW x, x # p, NEW k \in 1..n, s[k] = x
          PROVE  \E l \in 1..m : t[l] = x
      <4>1. k \in 1..Len(s) /\ k # i /\ k <= n
        BY <1>s, <2>7, <3>3
      <4>2. PICK l \in 1..Len(t) : q(l) = k
        BY <2>5, <4>1
      <4>3. l <= m
        BY <2>6, <3>1, <4>1, <4>2
      <4>4. l \in 1..m
        BY <4>3
      <4> QED BY <2>3, <3>3, <4>2, <4>4
    <3>4. t[m] = s[n]
      BY <2>3, <3>1
    <3> QED BY <3>2, <3>3, <3>4 DEF UpTo
  <2> QED BY <2>2, <2>8, <2>9, <2>10 DEF t
<1> QED BY <1>1, <1>2

LEMMA ResortFacts ==
    ASSUME NEW s \in Seq(Owners), IsInjective(s), NEW pr
    PROVE  /\ Resort(s, pr) \in Seq(Owners) /\ IsInjective(Resort(s, pr))
           /\ ToSet(Resort(s, pr)) = ToSet(s)
<1> DEFINE Sorts(f, m) ==
             f = [n \in 0..m |-> IF n = 0 THEN << >> ELSE AddSorted(f[n - 1], s[n], pr)]
<1>s. /\ Len(s) \in Nat /\ \A k \in 1..Len(s) : s[k] \in Owners
      /\ \A x : x \in ToSet(s) <=> \E k \in 1..Len(s) : s[k] = x
      /\ \A k, l \in 1..Len(s) : s[k] = s[l] => k = l
  BY SetOf
<1>1. \A m \in Nat : \E f : Sorts(f, m)
  <2> SUFFICES ASSUME NEW m \in Nat, ~(\E f : Sorts(f, m)) PROVE FALSE
    OBVIOUS
  <2> DEFINE N == {k \in Nat : ~(\E f : Sorts(f, k))}
  <2>1. m \in N /\ N \in SUBSET Nat
    OBVIOUS
  <2> HIDE DEF N
  <2>2. PICK k \in N : \A y \in N : k <= y
    BY <2>1, SmallestOf
  <2>3. k \in Nat /\ ~(\E f : Sorts(f, k))
    BY DEF N
  <2>4. CASE k = 0
    <3>1. Sorts([n \in 0..0 |-> << >>], 0)
      OBVIOUS
    <3> QED BY <2>3, <2>4, <3>1
  <2>5. CASE k # 0
    <3>1. k - 1 \in Nat /\ ~(k <= k - 1)
      BY <2>3, <2>5
    <3>2. PICK g : Sorts(g, k - 1)
      BY <2>2, <3>1 DEF N
    <3> DEFINE f == [n \in 0..k |-> IF n = k THEN AddSorted(g[k - 1], s[k], pr) ELSE g[n]]
    <3>3. \A n \in 0..k - 1 : g[n] = IF n = 0 THEN << >> ELSE AddSorted(g[n - 1], s[n], pr)
      BY <3>2
    <3>4. \A n \in 0..k - 1 : f[n] = g[n]
      BY <2>3, <3>1
    <3>5. \A n \in 0..k : f[n] = IF n = 0 THEN << >> ELSE AddSorted(f[n - 1], s[n], pr)
      <4> SUFFICES ASSUME NEW n \in 0..k
                   PROVE  f[n] = IF n = 0 THEN << >> ELSE AddSorted(f[n - 1], s[n], pr)
        OBVIOUS
      <4>1. CASE n = k
        <5>1. f[n] = AddSorted(g[k - 1], s[k], pr) /\ n # 0 /\ n - 1 \in 0..k - 1
          BY <2>3, <2>5, <4>1
        <5> HIDE DEF f
        <5> QED BY <3>4, <4>1, <5>1
      <4>2. CASE n # k
        <5>1. n \in 0..k - 1 /\ (n # 0 => n - 1 \in 0..k - 1)
          BY <2>3, <4>2
        <5> HIDE DEF f
        <5> QED BY <3>3, <3>4, <5>1
      <4> QED BY <4>1, <4>2
    <3>6. f = [n \in 0..k |-> f[n]]
      OBVIOUS
    <3> HIDE DEF f
    <3>7. Sorts(f, k)
      BY <3>5, <3>6
    <3> QED BY <2>3, <3>7
  <2> QED BY <2>4, <2>5
<1>2. PICK g : /\ Resort(s, pr) = g[Len(s)]
               /\ g = [n \in 0..Len(s) |-> IF n = 0 THEN << >> ELSE AddSorted(g[n - 1], s[n], pr)]
  <2>1. \E f : f = [n \in 0..Len(s) |-> IF n = 0 THEN << >> ELSE AddSorted(f[n - 1], s[n], pr)]
    BY <1>s, <1>1
  <2> QED BY <2>1, Zenon DEF Resort
<1>3. g[0] = << >> /\ \A n \in 1..Len(s) : g[n] = AddSorted(g[n - 1], s[n], pr)
  BY <1>s, <1>2
<1> DEFINE Right(n) == /\ g[n] \in Seq(Owners) /\ IsInjective(g[n])
                       /\ \A x : x \in ToSet(g[n]) <=> \E k \in 1..n : s[k] = x
<1>4. \A n \in 0..Len(s) : Right(n)
  <2> SUFFICES ASSUME NEW m \in 0..Len(s), ~Right(m) PROVE FALSE
    OBVIOUS
  <2> DEFINE N == {k \in 0..Len(s) : ~Right(k)}
  <2>1. m \in N /\ N \in SUBSET Nat
    OBVIOUS
  <2> HIDE DEF N
  <2>2. PICK n \in N : \A y \in N : n <= y
    BY <2>1, SmallestOf
  <2>3. n \in 0..Len(s) /\ ~Right(n)
    BY DEF N
  <2>4. CASE n = 0
    <3>0. << >> \in Seq(Owners) /\ Len(<< >>) = 0
      OBVIOUS
    <3>1. PICK z \in Seq(Owners) : z = << >> /\ Len(z) = 0
      BY <3>0, Zenon
    <3>2. /\ \A x : x \in ToSet(z) <=> \E i \in 1..Len(z) : z[i] = x
          /\ IsInjective(z) <=> \A i, j \in 1..Len(z) : z[i] = z[j] => i = j
      BY SetOf
    <3>3. \A k : k \notin 1..0
      OBVIOUS
    <3>4. IsInjective(z) /\ \A x : x \notin ToSet(z)
      BY <3>1, <3>2, <3>3
    <3>5. \A x : ~ \E k \in 1..n : s[k] = x
      BY <2>4, <3>3
    <3>6. g[n] = z
      BY <1>3, <2>4, <3>1
    <3> QED BY <2>3, <3>4, <3>5, <3>6
  <2>5. CASE n # 0
    <3>1. n - 1 \in 0..Len(s) /\ ~(n <= n - 1) /\ n \in 1..Len(s) /\ n - 1 \in Nat
      BY <1>s, <2>3, <2>5
    <3>2. Right(n - 1)
      BY <2>2, <3>1 DEF N
    <3>3. PICK h \in Seq(Owners) : h = g[n - 1]
      BY <3>2
    <3>4. PICK e \in Owners : e = s[n]
      BY <1>s, <3>1
    <3>5. e \notin ToSet(h)
      <4> SUFFICES ASSUME e \in ToSet(h) PROVE FALSE
        OBVIOUS
      <4>1. PICK k \in 1..n - 1 : s[k] = s[n]
        BY <3>2, <3>3, <3>4
      <4>2. k \in 1..Len(s) /\ k # n
        BY <1>s, <3>1
      <4> QED BY <1>s, <3>1, <4>1, <4>2
    <3>6. /\ AddSorted(h, e, pr) \in Seq(Owners)
          /\ ToSet(AddSorted(h, e, pr)) = ToSet(h) \cup {e}
          /\ IsInjective(AddSorted(h, e, pr))
      <4>1. IsInjective(h)
        BY <3>2, <3>3
      <4> QED BY <3>5, <4>1, AddSortedFacts
    <3>7. g[n] = AddSorted(h, e, pr)
      BY <1>3, <3>1, <3>3, <3>4
    <3>8. \A x : x \in ToSet(h) <=> \E k \in 1..n - 1 : s[k] = x
      BY <3>2, <3>3
    <3>9. \A k : k \in 1..n <=> k \in 1..n - 1 \/ k = n
      BY <3>1
    <3>10. \A x : x \in ToSet(g[n]) <=> \E k \in 1..n : s[k] = x
      BY <3>4, <3>6, <3>7, <3>8, <3>9
    <3> QED BY <2>3, <3>6, <3>7, <3>10
  <2> QED BY <2>4, <2>5
<1>5. Right(Len(s))
  <2>1. Len(s) \in 0..Len(s)
    BY <1>s
  <2> HIDE DEF Right
  <2> QED BY <1>4, <2>1
<1>6. ToSet(g[Len(s)]) = ToSet(s)
  BY <1>s, <1>5
<1> QED BY <1>2, <1>5, <1>6

LEMMA AppendFacts ==
    ASSUME NEW S, NEW s \in Seq(S), NEW e \in S
    PROVE  /\ Append(s, e) \in Seq(S) /\ Len(Append(s, e)) = Len(s) + 1
           /\ \A i \in 1..Len(s) : Append(s, e)[i] = s[i]
           /\ ToSet(Append(s, e)) = ToSet(s) \cup {e}
           /\ IsInjective(s) /\ e \notin ToSet(s) => IsInjective(Append(s, e))
<1>0. /\ Append(s, e) \in Seq(S) /\ Len(Append(s, e)) = Len(s) + 1
      /\ \A i \in 1..Len(s) : Append(s, e)[i] = s[i]
      /\ Append(s, e)[Len(s) + 1] = e
  BY AppendProperties
<1>1. PICK t \in Seq(S) : /\ t = Append(s, e) /\ Len(t) = Len(s) + 1
                          /\ \A i \in 1..Len(s) : t[i] = s[i]
                          /\ t[Len(s) + 1] = e
  BY <1>0, Zenon
<1>s. /\ Len(s) \in Nat
      /\ \A x : x \in ToSet(s) <=> \E k \in 1..Len(s) : s[k] = x
      /\ IsInjective(s) <=> \A k, l \in 1..Len(s) : s[k] = s[l] => k = l
  BY SetOf
<1>t. /\ \A x : x \in ToSet(t) <=> \E k \in 1..Len(t) : t[k] = x
      /\ IsInjective(t) <=> \A k, l \in 1..Len(t) : t[k] = t[l] => k = l
  BY SetOf
<1>2. \A k : k \in 1..Len(t) <=> k \in 1..Len(s) \/ k = Len(s) + 1
  BY <1>1, <1>s
<1>3. ToSet(t) = ToSet(s) \cup {e}
  BY <1>1, <1>2, <1>s, <1>t
<1>4. IsInjective(s) /\ e \notin ToSet(s) => IsInjective(t)
  BY <1>1, <1>2, <1>s, <1>t
<1> QED BY <1>1, <1>3, <1>4

LEMMA OneFacts ==
    ASSUME NEW S, NEW e \in S
    PROVE  /\ <<e>> \in Seq(S) /\ Len(<<e>>) = 1 /\ <<e>>[1] = e
           /\ ToSet(<<e>>) = {e} /\ IsInjective(<<e>>)
<1>0. <<e>> \in Seq(S) /\ Len(<<e>>) = 1 /\ <<e>>[1] = e
  OBVIOUS
<1>1. PICK t \in Seq(S) : t = <<e>> /\ Len(t) = 1 /\ t[1] = e
  BY <1>0, Zenon
<1>2. /\ \A x : x \in ToSet(t) <=> \E k \in 1..Len(t) : t[k] = x
      /\ IsInjective(t) <=> \A k, l \in 1..Len(t) : t[k] = t[l] => k = l
  BY SetOf
<1>3. \A k : k \in 1..Len(t) <=> k = 1
  BY <1>1
<1> QED BY <1>1, <1>2, <1>3

LEMMA NoneFacts ==
    ASSUME NEW S
    PROVE  << >> \in Seq(S) /\ ToSet(<< >>) = {} /\ IsInjective(<< >>)
<1>0. << >> \in Seq(S) /\ Len(<< >>) = 0
  OBVIOUS
<1>1. PICK z \in Seq(S) : z = << >> /\ Len(z) = 0
  BY <1>0, Zenon
<1>2. /\ \A x : x \in ToSet(z) <=> \E i \in 1..Len(z) : z[i] = x
      /\ IsInjective(z) <=> \A i, j \in 1..Len(z) : z[i] = z[j] => i = j
  BY SetOf
<1>3. \A k : k \notin 1..0
  OBVIOUS
<1> QED BY <1>1, <1>2, <1>3

-----------------------------------------------------------------------------
(* The stack.                                                              *)

LEMMA StackedPush ==
    ASSUME NEW f \in FrameT, NEW s \in Seq(FrameT), Stacked(s),
           \A g \in ToSet(s) : MayBeAbove(f, g)
    PROVE  Stacked(<<f>> \o s)
<1>1. PICK t : t = <<f>> \o s
  OBVIOUS
<1>2. /\ t \in Seq(FrameT) /\ Len(t) = Len(s) + 1 /\ t[1] = f /\ Len(s) \in Nat
      /\ \A i \in 1..Len(s) : t[i + 1] = s[i]
      /\ \A x : x \in ToSet(s) <=> \E i \in 1..Len(s) : s[i] = x
  BY <1>1, PushFacts, SetOf
<1>3. ASSUME NEW i \in 1..Len(t), NEW j \in 1..Len(t), i < j
      PROVE  MayBeAbove(t[i], t[j])
  <2>1. j - 1 \in 1..Len(s) /\ (j - 1) + 1 = j /\ t[j] = s[j - 1]
    <3>1. j - 1 \in 1..Len(s) /\ (j - 1) + 1 = j
      BY <1>2, <1>3
    <3>2. t[(j - 1) + 1] = s[j - 1]
      BY <1>2, <3>1
    <3> QED BY <3>1, <3>2
  <2>2. CASE i = 1
    <3>1. s[j - 1] \in ToSet(s)
      BY <1>2, <2>1
    <3> QED BY <1>2, <2>1, <2>2, <3>1, Zenon
  <2>3. CASE i # 1
    <3>1. i - 1 \in 1..Len(s) /\ (i - 1) + 1 = i /\ i - 1 < j - 1
      BY <1>2, <1>3, <2>3
    <3>2. t[(i - 1) + 1] = s[i - 1]
      BY <1>2, <3>1
    <3>3. MayBeAbove(s[i - 1], s[j - 1])
      BY <2>1, <3>1 DEF Stacked
    <3> QED BY <2>1, <3>1, <3>2, <3>3, Zenon
  <2> QED BY <2>2, <2>3
<1> QED BY <1>1, <1>3 DEF Stacked

LEMMA StackedTail ==
    ASSUME NEW s \in Seq(FrameT), s # << >>, Stacked(s)
    PROVE  /\ Stacked(Tail(s))
           /\ \A g \in ToSet(Tail(s)) : MayBeAbove(Head(s), g)
<1>0. /\ Head(s) = s[1] /\ Tail(s) \in Seq(FrameT)
      /\ Len(s) \in Nat /\ Len(s) >= 1 /\ Len(Tail(s)) = Len(s) - 1
      /\ \A i \in 1..Len(s) - 1 : Tail(s)[i] = s[i + 1]
  BY TailFacts
<1>1. PICK t \in Seq(FrameT) : t = Tail(s) /\ Len(t) = Len(s) - 1
                               /\ \A i \in 1..Len(t) : t[i] = s[i + 1]
  BY <1>0, Zenon
<1>2. \A x : x \in ToSet(t) <=> \E i \in 1..Len(t) : t[i] = x
  BY SetOf
<1>3. ASSUME NEW i \in 1..Len(t), NEW j \in 1..Len(t), i < j
      PROVE  MayBeAbove(t[i], t[j])
  <2>1. i + 1 \in 1..Len(s) /\ j + 1 \in 1..Len(s) /\ i + 1 < j + 1
    BY <1>0, <1>1, <1>3
  <2>2. MayBeAbove(s[i + 1], s[j + 1])
    BY <2>1 DEF Stacked
  <2>3. t[i] = s[i + 1] /\ t[j] = s[j + 1]
    BY <1>1
  <2> QED BY <2>2, <2>3, Zenon
<1>4. ASSUME NEW g \in ToSet(t)
      PROVE  MayBeAbove(s[1], g)
  <2>1. PICK i \in 1..Len(t) : t[i] = g
    BY <1>2
  <2>2. 1 \in 1..Len(s) /\ i + 1 \in 1..Len(s) /\ 1 < i + 1
    BY <1>0, <1>1
  <2>3. MayBeAbove(s[1], s[i + 1])
    BY <2>2 DEF Stacked
  <2>4. g = s[i + 1]
    BY <1>1, <2>1
  <2> QED BY <2>3, <2>4, Zenon
<1> QED BY <1>0, <1>1, <1>3, <1>4 DEF Stacked

\* What changed in a stack does not matter for what may be above what.
Alike(f, g) == f.kind = g.kind /\ f.plugin = g.plugin /\ f.phase = g.phase

LEMMA StackedAlike ==
    ASSUME NEW s \in Seq(FrameT), NEW t \in Seq(FrameT), Stacked(s), Len(t) = Len(s),
           \A i \in 1..Len(s) : Alike(t[i], s[i])
    PROVE  Stacked(t)
<1> SUFFICES ASSUME NEW i \in 1..Len(t), NEW j \in 1..Len(t), i < j
             PROVE  MayBeAbove(t[i], t[j])
  BY DEF Stacked
<1>1. MayBeAbove(s[i], s[j]) /\ Alike(t[i], s[i]) /\ Alike(t[j], s[j])
  BY DEF Stacked
<1> QED BY <1>1, Zenon DEF MayBeAbove, Alike

LEMMA MovedFacts ==
    ASSUME NEW s \in Seq(FrameT), Stacked(s)
    PROVE  /\ Moved(s) \in Seq(FrameT) /\ Stacked(Moved(s))
           /\ \A g \in ToSet(Moved(s)) : \E f \in ToSet(s) :
                /\ Alike(g, f) /\ g.id = f.id
                /\ g = f \/ IsInjective(g.called)
                /\ g.kind = "emit" => g.moved
           /\ \A f \in ToSet(s) : \E g \in ToSet(Moved(s)) : Alike(g, f)
<1> DEFINE e(f) == IF f.kind = "emit"
                     THEN [f EXCEPT !.moved = TRUE, !.called = << >>, !.owed = {}] ELSE f
<1>s. /\ Len(s) \in Nat /\ \A i \in 1..Len(s) : s[i] \in FrameT
      /\ \A x : x \in ToSet(s) <=> \E k \in 1..Len(s) : s[k] = x
  BY SetOf
<1>1. \A f \in FrameT : /\ e(f) \in FrameT /\ Alike(e(f), f) /\ e(f).id = f.id
                        /\ e(f).kind = "emit" => e(f).moved /\ e(f).called = << >>
                        /\ f.kind # "emit" => e(f) = f
  <2> SUFFICES ASSUME NEW f \in FrameT
               PROVE  /\ e(f) \in FrameT /\ Alike(e(f), f) /\ e(f).id = f.id
                      /\ e(f).kind = "emit" => e(f).moved /\ e(f).called = << >>
                      /\ f.kind # "emit" => e(f) = f
    OBVIOUS
  <2>1. << >> \in Seq(Owners)
    OBVIOUS
  <2> QED BY <2>1 DEF FrameT, Alike
<1>2. Moved(s) = [i \in 1..Len(s) |-> e(s[i])]
  BY DEF Moved
<1> HIDE DEF e
<1>3. \A i \in 1..Len(s) : e(s[i]) \in FrameT
  BY <1>1, <1>s
<1>4. PICK t \in Seq(FrameT) : t = Moved(s) /\ Len(t) = Len(s)
                               /\ \A i \in 1..Len(s) : t[i] = e(s[i])
  BY <1>2, <1>3, <1>s
<1>t. \A x : x \in ToSet(t) <=> \E k \in 1..Len(t) : t[k] = x
  BY SetOf
<1>5. \A i \in 1..Len(s) : Alike(t[i], s[i])
  BY <1>1, <1>4, <1>s
<1>6. Stacked(t)
  BY <1>4, <1>5, StackedAlike
<1>7. ASSUME NEW g \in ToSet(t)
      PROVE  \E f \in ToSet(s) :
                /\ Alike(g, f) /\ g.id = f.id
                /\ g = f \/ IsInjective(g.called)
                /\ g.kind = "emit" => g.moved
  <2>1. PICK i \in 1..Len(s) : g = e(s[i])
    BY <1>4, <1>t
  <2>2. s[i] \in FrameT /\ s[i] \in ToSet(s)
    BY <1>s
  <2>3. IsInjective(<< >>)
    BY NoneFacts
  <2>4. Alike(g, s[i]) => (g.kind = "emit" <=> s[i].kind = "emit")
    BY DEF Alike
  <2> QED BY <1>1, <2>1, <2>2, <2>3, <2>4
<1>8. ASSUME NEW f \in ToSet(s) PROVE \E g \in ToSet(t) : Alike(g, f)
  <2>1. PICK i \in 1..Len(s) : s[i] = f
    BY <1>s
  <2>2. t[i] \in ToSet(t)
    BY <1>4, <1>t
  <2> QED BY <1>5, <2>1, <2>2
<1> QED BY <1>4, <1>6, <1>7, <1>8

\* What is left of a walk when the handlers of p are freed.
Freed(f, p) == [f EXCEPT !.owed = f.owed \ {p}, !.called = Without(f.called, p)]

LEMMA DisconnectedFacts ==
    ASSUME NEW s \in Seq(FrameT), Stacked(s), NEW p,
           \A f \in ToSet(s) : IsInjective(f.called)
    PROVE  /\ Disconnected(s, p) \in Seq(FrameT) /\ Stacked(Disconnected(s, p))
           /\ \A g \in ToSet(Disconnected(s, p)) : \E f \in ToSet(s) :
                Alike(g, f) /\ g = Freed(f, p)
           /\ \A f \in ToSet(s) : \E g \in ToSet(Disconnected(s, p)) : Alike(g, f)
<1> DEFINE e(f) == [f EXCEPT !.owed = f.owed \ {p}, !.called = Without(f.called, p)]
<1>s. /\ Len(s) \in Nat /\ \A i \in 1..Len(s) : s[i] \in FrameT
      /\ \A x : x \in ToSet(s) <=> \E k \in 1..Len(s) : s[k] = x
  BY SetOf
<1>1. \A f \in FrameT : IsInjective(f.called) => e(f) \in FrameT /\ Alike(e(f), f)
  <2> SUFFICES ASSUME NEW f \in FrameT, IsInjective(f.called)
               PROVE  e(f) \in FrameT /\ Alike(e(f), f)
    OBVIOUS
  <2>1. f.called \in Seq(Owners)
    BY DEF FrameT
  <2>2. Without(f.called, p) \in Seq(Owners)
    BY <2>1, WithoutFacts
  <2> QED BY <2>2 DEF FrameT, Alike
<1>2. Disconnected(s, p) = [i \in 1..Len(s) |-> e(s[i])]
  BY DEF Disconnected
<1>e. \A f : e(f) = Freed(f, p)
  BY DEF Freed
<1> HIDE DEF e
<1>3. \A i \in 1..Len(s) : s[i] \in ToSet(s) /\ e(s[i]) \in FrameT /\ Alike(e(s[i]), s[i])
  BY <1>1, <1>s
<1>4. PICK t \in Seq(FrameT) : t = Disconnected(s, p) /\ Len(t) = Len(s)
                               /\ \A i \in 1..Len(s) : t[i] = e(s[i])
  BY <1>2, <1>3, <1>s
<1>t. \A x : x \in ToSet(t) <=> \E k \in 1..Len(t) : t[k] = x
  BY SetOf
<1>5. \A i \in 1..Len(s) : Alike(t[i], s[i])
  BY <1>3, <1>4
<1>6. Stacked(t)
  BY <1>4, <1>5, StackedAlike
<1>7. ASSUME NEW g \in ToSet(t)
      PROVE  \E f \in ToSet(s) : Alike(g, f) /\ g = e(f)
  <2>1. PICK i \in 1..Len(s) : g = t[i]
    BY <1>4, <1>t
  <2> QED BY <1>3, <1>4, <2>1
<1>8. ASSUME NEW f \in ToSet(s) PROVE \E g \in ToSet(t) : Alike(g, f)
  <2>1. PICK i \in 1..Len(s) : s[i] = f
    BY <1>s
  <2>2. t[i] \in ToSet(t)
    BY <1>4, <1>t
  <2> QED BY <1>5, <2>1, <2>2
<1> QED BY <1>4, <1>6, <1>7, <1>8, <1>e

-----------------------------------------------------------------------------
(* Steps.                                                                  *)

LEMMA TopFacts ==
    ASSUME IInv, frames # << >>
    PROVE  /\ Top \in FrameT /\ Fits(Top)
           /\ Tail(frames) \in Seq(FrameT) /\ Stacked(Tail(frames))
           /\ ToSet(frames) = {Top} \cup ToSet(Tail(frames))
           /\ \A g \in ToSet(Tail(frames)) : g \in FrameT /\ Fits(g) /\ MayBeAbove(Top, g)
<1>1. frames \in Seq(FrameT) /\ Stacked(frames)
  BY DEF IInv, Typed
<1>2. /\ Head(frames) \in FrameT /\ Tail(frames) \in Seq(FrameT)
      /\ ToSet(frames) = {Head(frames)} \cup ToSet(Tail(frames))
  BY <1>1, TailFacts
<1>3. Stacked(Tail(frames)) /\ \A g \in ToSet(Tail(frames)) : MayBeAbove(Head(frames), g)
  BY <1>1, StackedTail
<1>4. ToSet(Tail(frames)) \subseteq FrameT
  BY <1>2, SetOf
<1> QED BY <1>2, <1>3, <1>4 DEF IInv, Fitting, Top

LEMMA EmptyFacts ==
    ASSUME IInv
    PROVE  /\ frames = << >> => ToSet(frames) = {}
           /\ ToSet(frames) \subseteq FrameT /\ \A f \in ToSet(frames) : Fits(f)
<1>1. frames \in Seq(FrameT)
  BY DEF IInv, Typed
<1>2. ToSet(frames) \subseteq FrameT
  BY <1>1, SetOf
<1>3. ToSet(<< >>) = {}
  BY NoneFacts
<1> QED BY <1>2, <1>3 DEF IInv, Fitting

\* While any code runs, no plugin has its watches still to be freed.
LEMMA RunningFacts ==
    ASSUME IInv, Running
    PROVE  \A g \in ToSet(frames) : g.kind = "unload" => g.phase # "watches"
<1>1. CASE frames = << >>
  BY <1>1, EmptyFacts
<1>2. CASE frames # << >>
  <2>1. Top.kind # "unload"
    BY <1>2 DEF Running
  <2>2. \A g \in ToSet(Tail(frames)) : MayBeAbove(Top, g)
    BY <1>2, TopFacts
  <2>3. ToSet(frames) = {Top} \cup ToSet(Tail(frames))
    BY <1>2, TopFacts
  <2> QED BY <2>1, <2>2, <2>3 DEF MayBeAbove
<1> QED BY <1>1, <1>2

\* A callback of a watch or timer, called by the loop, is all there is.
LEMMA BottomFacts ==
    ASSUME IInv, frames # << >>, Top.kind \in {"watch", "timer"}
    PROVE  ToSet(frames) = {Top} /\ ToSet(Tail(frames)) = {}
<1>1. \A g \in ToSet(Tail(frames)) : MayBeAbove(Top, g)
  BY TopFacts
<1>2. ToSet(frames) = {Top} \cup ToSet(Tail(frames))
  BY TopFacts
<1> QED BY <1>1, <1>2 DEF MayBeAbove

\* The plugins that are listed are those with code and things of their own.
LEMMA OwnFacts ==
    ASSUME IInv, NEW p \in Plugins
    PROVE  /\ p # Core
           /\ p \in ToSet(plugins) <=> p \in code
           /\ watch[p] # None \/ p \in timers \/ p \in sessions => p \in ToSet(plugins)
           /\ \A f \in ToSet(frames) : f.plugin = p => p \in ToSet(plugins)
<1>1. p # Core
  BY Constants
<1>2. p \in ToSet(plugins) <=> p \in code
  BY DEF IInv, Listed
<1>3. watch[p] # None \/ p \in timers \/ p \in sessions => p \in ToSet(plugins)
  BY DEF IInv, NothingHeld, Nothing
<1>4. \A f \in ToSet(frames) : f.plugin = p => p \in ToSet(plugins)
  BY <1>1, <1>2 DEF IInv, Fitting, Fits, InCode
<1> QED BY <1>1, <1>2, <1>3, <1>4

LEMMA MatchingFacts ==
    ASSUME NEW s \in Seq(Owners), NEW only \in Owners \cup {None}, Matching(s, only) # << >>
    PROVE  /\ Head(Matching(s, only)) \in ToSet(s)
           /\ only = None => Matching(s, only) = s /\ Len(s) >= 1 /\ Head(Matching(s, only)) = s[1]
           /\ only # None => Head(Matching(s, only)) = only /\ ToSet(Matching(s, only)) = {only}
<1>1. CASE only = None
  <2>1. Matching(s, only) = s /\ s # << >>
    BY <1>1 DEF Matching
  <2>2. Head(s) = s[1] /\ Len(s) >= 1 /\ ToSet(s) = {Head(s)} \cup ToSet(Tail(s))
    BY <2>1, TailFacts
  <2> QED BY <1>1, <2>1, <2>2
<1>2. CASE only # None
  <2>1. only \in ToSet(s) /\ Matching(s, only) = <<only>>
    BY <1>2 DEF Matching
  <2>2. Head(<<only>>) = only
    OBVIOUS
  <2>3. ToSet(<<only>>) = {only}
    BY OneFacts
  <2> QED BY <1>2, <2>1, <2>2, <2>3
<1> QED BY <1>1, <1>2

LEMMA QueriesFacts ==
    ASSUME IInv, NEW q \in Queries
    PROVE  /\ queries[q] \in Seq(Owners) /\ IsInjective(queries[q])
           /\ ToSet(queries[q]) = ToSet(plugins) \cup {Core}
           /\ ToSet(queries[q]) = code \cup {Core}
BY DEF IInv, Typed, Listed

\* What query_emit() leaves on the stack.
LEMMA EmittedFacts ==
    ASSUME IInv, NEW s \in Seq(FrameT), Stacked(s),
           \A g \in ToSet(s) : g.kind = "unload" => g.phase # "watches",
           NEW id \in Queries, NEW only \in Owners \cup {None}
    PROVE  /\ Emitted(s, id, only) \in Seq(FrameT) /\ Stacked(Emitted(s, id, only))
           /\ ToSet(s) \subseteq ToSet(Emitted(s, id, only))
           /\ \A g \in ToSet(Emitted(s, id, only)) : g \in ToSet(s) \/ Fits(g)
<1> DEFINE m == Matching(queries[id], only)
           f == [kind |-> "emit", plugin |-> Head(m), phase |-> None, id |-> id, only |-> only,
                 called |-> <<Head(m)>>, owed |-> ToSet(m), moved |-> FALSE]
<1>q. PICK list \in Seq(Owners) : /\ list = queries[id] /\ IsInjective(list)
                                  /\ ToSet(list) = code \cup {Core}
  BY QueriesFacts
<1>l. /\ Len(list) \in Nat /\ ToSet(list) \subseteq Owners
      /\ \A x : x \in ToSet(list) <=> \E k \in 1..Len(list) : list[k] = x
  BY SetOf
<1>1. Emitted(s, id, only) = s \/ (m # << >> /\ Emitted(s, id, only) = <<f>> \o s)
  BY Zenon DEF Emitted
<1>2. ASSUME m # << >>, Emitted(s, id, only) = <<f>> \o s
      PROVE  /\ Emitted(s, id, only) \in Seq(FrameT) /\ Stacked(Emitted(s, id, only))
             /\ ToSet(s) \subseteq ToSet(Emitted(s, id, only))
             /\ \A g \in ToSet(Emitted(s, id, only)) : g \in ToSet(s) \/ Fits(g)
  <2>1. PICK h : h = Head(m)
    OBVIOUS
  <2>2. /\ h \in ToSet(list)
        /\ only = None => m = list /\ Len(list) >= 1 /\ h = list[1]
        /\ only # None => h = only /\ ToSet(m) = {only}
    BY <1>2, <1>q, <2>1, MatchingFacts, Zenon
  <2>3. h \in Owners /\ ToSet(m) \subseteq Owners
    BY <1>l, <2>2
  <2>4. <<h>> \in Seq(Owners) /\ ToSet(<<h>>) = {h} /\ IsInjective(<<h>>)
    BY <2>3, OneFacts
  <2>5. PICK c \in Seq(Owners) : c = <<h>> /\ ToSet(c) = {h} /\ IsInjective(c)
    BY <2>4, Zenon
  <2>6. PICK o \in SUBSET Owners : o = ToSet(m)
    BY <2>3
  <2>7. PICK g : g = [kind |-> "emit", plugin |-> h, phase |-> None, id |-> id, only |-> only,
                      called |-> c, owed |-> o, moved |-> FALSE]
    OBVIOUS
  <2>8. g = f
    BY <2>1, <2>5, <2>6, <2>7, Zenon
  <2>9. /\ g \in FrameT /\ g.kind = "emit" /\ g.plugin = h /\ g.id = id /\ g.only = only
        /\ g.called = c /\ g.owed = o
    BY <2>3, <2>7 DEF FrameT, Kinds, Phases
  <2> HIDE DEF f
  <2>10. Walk(g, list)
    <3>1. only # None => g.owed \subseteq {only}
      BY <2>2, <2>6, <2>9
    <3>2. PICK n \in 1..Len(list) : list[n] = h /\ (only = None => n = 1)
      <4>1. CASE only = None
        <5>1. 1 \in 1..Len(list)
          BY <1>l, <2>2, <4>1
        <5> QED BY <2>2, <4>1, <5>1
      <4>2. CASE only # None
        BY <1>l, <2>2, <4>2
      <4> QED BY <4>1, <4>2
    <3>3. \A k \in 1..n : list[k] \in g.owed => list[k] \in ToSet(g.called)
      <4>1. CASE only = None
        <5>1. \A k \in 1..n : k = 1
          BY <3>2, <4>1
        <5> QED BY <2>2, <2>5, <2>9, <4>1, <5>1
      <4>2. CASE only # None
        BY <2>2, <2>5, <2>6, <2>9, <4>2
      <4> QED BY <4>1, <4>2
    <3>4. \A r \in ToSet(g.called) : \E k \in 1..n : list[k] = r
      <4>1. n \in 1..n
        BY <1>l
      <4> QED BY <2>5, <2>9, <3>2, <4>1
    <3>5. Reached(g, list, n)
      BY <2>9, <3>2, <3>3, <3>4 DEF Reached
    <3> QED BY <2>9, <3>1, <3>5 DEF Walk
  <2>11. Fits(g)
    <3>1. Placed(g)
      BY <2>5, <2>9 DEF Placed
    <3>2. InCode(g)
      BY <1>q, <2>2, <2>9 DEF InCode
    <3>3. Walking(g)
      BY <1>q, <2>9, <2>10 DEF Walking
    <3>4. Holding(g)
      BY <2>9 DEF Holding
    <3> QED BY <3>1, <3>2, <3>3, <3>4 DEF Fits
  <2>12. \A x \in ToSet(s) : MayBeAbove(g, x)
    BY <2>9 DEF MayBeAbove
  <2>13. PICK t : t = <<g>> \o s /\ t = Emitted(s, id, only)
    BY <1>2, <2>8
  <2>14. t \in Seq(FrameT) /\ ToSet(t) = {g} \cup ToSet(s) /\ Stacked(t)
    BY <2>9, <2>12, <2>13, PushFacts, StackedPush
  <2> QED BY <2>11, <2>13, <2>14
<1> QED BY <1>1, <1>2

\* The function on top goes on to its next part.
LEMMA ToFacts ==
    ASSUME IInv, frames # << >>, NEW ph \in Phases
    PROVE  \E t \in FrameT :
             /\ t.kind = Top.kind /\ t.plugin = Top.plugin /\ t.phase = ph
             /\ t.called = Top.called /\ t.id = Top.id
             /\ To(ph) \in Seq(FrameT) /\ Stacked(To(ph))
             /\ ToSet(To(ph)) = {t} \cup ToSet(Tail(frames))
             /\ \A g \in ToSet(Tail(frames)) : MayBeAbove(t, g)
<1>1. PICK h \in FrameT, r \in Seq(FrameT) :
        /\ h = Top /\ r = Tail(frames) /\ Stacked(r)
        /\ \A g \in ToSet(r) : MayBeAbove(h, g)
  BY TopFacts, Zenon
<1>2. PICK t \in FrameT : /\ t = [h EXCEPT !.phase = ph]
                          /\ t.kind = h.kind /\ t.plugin = h.plugin /\ t.phase = ph
                          /\ t.called = h.called /\ t.id = h.id
  <2>1. LET t == [h EXCEPT !.phase = ph]
        IN  /\ t \in FrameT /\ t.kind = h.kind /\ t.plugin = h.plugin /\ t.phase = ph
            /\ t.called = h.called /\ t.id = h.id
    BY DEF FrameT
  <2> QED BY <2>1, Zenon
<1>3. \A g \in ToSet(r) : MayBeAbove(t, g)
  BY <1>1, <1>2 DEF MayBeAbove
<1>4. PICK s : s = <<t>> \o r /\ s = To(ph)
  BY <1>1, <1>2, Zenon DEF To
<1>5. s \in Seq(FrameT) /\ ToSet(s) = {t} \cup ToSet(r) /\ Stacked(s)
  <2>1. <<t>> \o r \in Seq(FrameT) /\ ToSet(<<t>> \o r) = {t} \cup ToSet(r)
    BY PushFacts
  <2>2. Stacked(<<t>> \o r)
    BY <1>1, <1>3, StackedPush
  <2> QED BY <1>4, <2>1, <2>2
<1> QED BY <1>1, <1>2, <1>3, <1>4, <1>5
\* Steps that change the stack only.
LEMMA FramesOnly ==
    ASSUME IInv, UNCHANGED <<lists, things>>,
           frames' \in Seq(FrameT), Stacked(frames'),
           \A g \in ToSet(frames') : Fits(g),
           \A f \in ToSet(frames) : f.kind = "last" =>
             \E g \in ToSet(frames') : g.kind = "last" /\ g.plugin = f.plugin
    PROVE  IInv'
<1>1. Typed'
  BY DEF IInv, Typed, lists, things
<1>2. Listed'
  BY DEF IInv, Listed, lists
<1>3. NothingHeld'
  BY DEF IInv, NothingHeld, Nothing, lists, things
<1>4. Fitting'
  <2> SUFFICES ASSUME NEW g \in ToSet(frames') PROVE Fits(g)'
    BY Zenon DEF Fitting
  <2>1. Fits(g)
    OBVIOUS
  <2>2. Placed(g)'
    BY <2>1 DEF Fits, Placed
  <2>3. InCode(g)'
    BY <2>1 DEF Fits, InCode, lists
  <2>4. Walking(g)'
    BY <2>1 DEF Fits, Walking, lists, Walk, Reached
  <2>5. Holding(g)'
    BY <2>1 DEF Fits, Holding, Unloaded, things
  <2> QED BY <2>2, <2>3, <2>4, <2>5 DEF Fits
<1>5. LastIsThere'
  <2> SUFFICES ASSUME NEW p \in Plugins, watch[p] = "last"
               PROVE  \E f \in ToSet(frames') : f.kind = "last" /\ f.plugin = p
    BY Zenon DEF LastIsThere, things
  <2>1. PICK f \in ToSet(frames) : f.kind = "last" /\ f.plugin = p
    BY DEF IInv, LastIsThere
  <2> QED BY <2>1
<1> QED BY <1>1, <1>2, <1>3, <1>4, <1>5 DEF IInv

LEMMA EmitStep ==
    ASSUME IInv, NEW id \in Queries, Emit(id)
    PROVE  IInv'
<1>1. frames \in Seq(FrameT) /\ Stacked(frames)
  BY DEF IInv, Typed
<1>2. Running /\ frames' = Emitted(frames, id, None) /\ UNCHANGED <<lists, things>>
  BY DEF Emit
<1>3. \A g \in ToSet(frames) : g.kind = "unload" => g.phase # "watches"
  BY <1>2, RunningFacts
<1>4. /\ Emitted(frames, id, None) \in Seq(FrameT) /\ Stacked(Emitted(frames, id, None))
      /\ ToSet(frames) \subseteq ToSet(Emitted(frames, id, None))
      /\ \A g \in ToSet(Emitted(frames, id, None)) : g \in ToSet(frames) \/ Fits(g)
  BY <1>1, <1>3, EmittedFacts
<1>5. \A g \in ToSet(frames) : Fits(g)
  BY EmptyFacts
<1> QED BY <1>2, <1>4, <1>5, FramesOnly

LEMMA HandlerReturnStep ==
    ASSUME IInv, NEW stop \in BOOLEAN, HandlerReturn(stop)
    PROVE  IInv'
<1>0. frames # << >> /\ Top.kind = "emit" /\ UNCHANGED <<lists, things>>
  BY DEF HandlerReturn
<1>1. PICK f \in FrameT, r \in Seq(FrameT) :
        /\ f = Top /\ r = Tail(frames) /\ Stacked(r) /\ Fits(f)
        /\ ToSet(frames) = {f} \cup ToSet(r)
        /\ \A g \in ToSet(r) : Fits(g) /\ MayBeAbove(f, g)
  BY <1>0, TopFacts, Zenon
<1>2. CASE frames' = r
  BY <1>0, <1>1, <1>2, FramesOnly
<1>3. CASE frames' # r
  <2>q. PICK list \in Seq(Owners) : /\ list = queries[f.id] /\ IsInjective(list)
                                    /\ ToSet(list) = code \cup {Core}
    <3>1. f.id \in Queries
      BY <1>0, <1>1 DEF Fits, Placed
    <3> QED BY <3>1, QueriesFacts
  <2>l. /\ Len(list) \in Nat /\ ToSet(list) \subseteq Owners
        /\ \A k \in 1..Len(list) : list[k] \in Owners
        /\ \A x : x \in ToSet(list) <=> \E k \in 1..Len(list) : list[k] = x
        /\ \A k, l \in 1..Len(list) : list[k] = list[l] => k = l
    <3>1. /\ Len(list) \in Nat /\ ToSet(list) \subseteq Owners
          /\ \A x : x \in ToSet(list) <=> \E k \in 1..Len(list) : list[k] = x
          /\ IsInjective(list) <=> \A k, l \in 1..Len(list) : list[k] = list[l] => k = l
      BY SetOf
    <3>2. \A k \in 1..Len(list) : list[k] \in Owners
      OBVIOUS
    <3> QED BY <2>q, <3>1, <3>2
  <2> DEFINE i == SelectInSeq(list, LAMBDA e : e = f.plugin)
  <2>i. /\ i \in 0..Len(list)
        /\ f.plugin \in ToSet(list) => i \in 1..Len(list) /\ list[i] = f.plugin
    <3>1. /\ f.plugin \notin ToSet(list) => i = 0
          /\ f.plugin \in ToSet(list) => i \in 1..Len(list) /\ list[i] = f.plugin
      BY IndexFacts, Zenon
    <3> HIDE DEF i
    <3> QED BY <2>l, <3>1
  <2>1. Rest(f) = Matching(SubSeq(list, i + 1, Len(list)), f.only)
    BY <2>q, Zenon DEF Rest
  <2>2. /\ Rest(f) # << >>
        /\ frames' = <<[f EXCEPT !.plugin = Head(Rest(f)),
                                 !.called = IF f.moved THEN @ ELSE Append(@, Head(Rest(f)))]>> \o r
    BY <1>1, <1>3, Zenon DEF HandlerReturn
  <2> HIDE DEF i
  <2>3. PICK n \in Nat : n = i /\ n \in 0..Len(list)
    BY <2>i, <2>l
  <2>4. PICK rest \in Seq(Owners) :
          /\ rest = SubSeq(list, n + 1, Len(list)) /\ Len(rest) = Len(list) - n
          /\ \A k \in 1..Len(list) - n : rest[k] = list[n + k]
    <3>1. LET rest == SubSeq(list, n + 1, Len(list))
          IN  /\ rest \in Seq(Owners) /\ Len(rest) = Len(list) - n
              /\ \A k \in 1..Len(list) - n : rest[k] = list[n + k]
      BY <2>l, <2>3
    <3> QED BY <3>1, Zenon
  <2>5. PICK next : next = Head(Rest(f))
    OBVIOUS
  <2>6. /\ next \in ToSet(rest)
        /\ f.only = None => Len(rest) >= 1 /\ next = rest[1]
        /\ f.only # None => next = f.only
    <3>1. f.only \in Owners \cup {None}
      BY DEF FrameT
    <3>2. Rest(f) = Matching(rest, f.only)
      BY <2>1, <2>3, <2>4
    <3> QED BY <2>2, <2>5, <3>1, <3>2, MatchingFacts
  <2>7. PICK m \in 1..Len(list) : /\ n < m /\ list[m] = next
                                  /\ f.only = None => m = n + 1
    <3>1. PICK k \in 1..Len(rest) : rest[k] = next /\ (f.only = None => k = 1)
      <4>1. \A x : x \in ToSet(rest) <=> \E k \in 1..Len(rest) : rest[k] = x
        BY SetOf
      <4>2. Len(rest) >= 1 => 1 \in 1..Len(rest)
        BY <2>4, <2>l, <2>3
      <4> QED BY <2>6, <4>1, <4>2
    <3>2. n + k \in 1..Len(list) /\ n < n + k /\ k \in 1..Len(list) - n
      BY <2>3, <2>4, <2>l
    <3> QED BY <2>4, <3>1, <3>2
  <2>8. next \in Owners /\ next \in code \cup {Core}
    BY <2>7, <2>l, <2>q
  <2>9. PICK c \in Seq(Owners) :
          /\ c = IF f.moved THEN f.called ELSE Append(f.called, next)
          /\ f.moved => c = f.called
          /\ ~f.moved => ToSet(c) = ToSet(f.called) \cup {next}
          /\ ~f.moved /\ next \notin ToSet(f.called) => IsInjective(c)
    <3>1. f.called \in Seq(Owners) /\ IsInjective(f.called) /\ f.moved \in BOOLEAN
      BY <1>1 DEF FrameT, Fits, Placed
    <3>2. PICK d \in Seq(Owners) : d = f.called /\ IsInjective(d)
      BY <3>1
    <3>3. /\ Append(d, next) \in Seq(Owners)
          /\ ToSet(Append(d, next)) = ToSet(d) \cup {next}
          /\ next \notin ToSet(d) => IsInjective(Append(d, next))
      BY <2>8, <3>2, AppendFacts
    <3>4. CASE f.moved
      BY <3>1, <3>4
    <3>5. CASE ~f.moved
      BY <3>2, <3>3, <3>5
    <3> QED BY <3>4, <3>5
  <2>10. PICK g \in FrameT :
           /\ g = [f EXCEPT !.plugin = next, !.called = IF f.moved THEN @ ELSE Append(@, next)]
           /\ g.kind = "emit" /\ g.plugin = next /\ g.called = c /\ g.id = f.id
           /\ g.only = f.only /\ g.owed = f.owed /\ g.moved = f.moved
    <3>1. [f EXCEPT !.plugin = next, !.called = IF f.moved THEN @ ELSE Append(@, next)]
            = [f EXCEPT !.plugin = next, !.called = c]
      BY <2>9 DEF FrameT
    <3>2. LET g == [f EXCEPT !.plugin = next, !.called = c]
          IN  /\ g \in FrameT
              /\ g.kind = f.kind /\ g.plugin = next /\ g.called = c /\ g.id = f.id
              /\ g.only = f.only /\ g.owed = f.owed /\ g.moved = f.moved
      BY <2>8 DEF FrameT
    <3>3. f.kind = "emit"
      BY <1>0, <1>1
    <3> QED BY <3>1, <3>2, <3>3, Zenon
  <2>11. ASSUME ~f.moved
         PROVE  IsInjective(c) /\ Walk(g, list)
    <3>1. Walk(f, list)
      BY <1>0, <1>1, <2>11, <2>q DEF Fits, Walking
    <3>2. PICK h \in 1..Len(list) : Reached(f, list, h)
      BY <3>1 DEF Walk
    <3>3. h = n
      <4>1. list[h] = f.plugin /\ f.plugin \in ToSet(list)
        BY <3>2, <2>l DEF Reached
      <4>2. n \in 1..Len(list) /\ list[n] = f.plugin
        BY <2>i, <2>3, <4>1
      <4> QED BY <2>l, <4>1, <4>2
    <3>4. next \notin ToSet(f.called)
      <4> SUFFICES ASSUME next \in ToSet(f.called) PROVE FALSE
        OBVIOUS
      <4>1. PICK k \in 1..n : list[k] = next
        BY <3>2, <3>3 DEF Reached
      <4>2. k \in 1..Len(list) /\ k # m
        BY <2>l, <2>3, <2>7
      <4> QED BY <2>l, <2>7, <4>1, <4>2
    <3>5. \A k \in 1..m : list[k] \in g.owed => list[k] \in ToSet(g.called)
      <4> SUFFICES ASSUME NEW k \in 1..m, list[k] \in f.owed
                   PROVE  list[k] \in ToSet(c)
        BY <2>10
      <4>1. CASE f.only = None
        <5>1. k \in 1..n \/ k = m
          BY <2>7, <2>3, <4>1
        <5>2. k \in 1..n => list[k] \in ToSet(f.called)
          BY <3>2, <3>3 DEF Reached
        <5> QED BY <2>7, <2>9, <2>11, <5>1, <5>2
      <4>2. CASE f.only # None
        <5>1. list[k] = next
          BY <2>6, <3>1, <4>2 DEF Walk
        <5> QED BY <2>9, <2>11, <5>1
      <4> QED BY <4>1, <4>2
    <3>6. ASSUME NEW x \in ToSet(g.called)
          PROVE  \E k \in 1..m : list[k] = x
      <4>1. CASE x = next
        <5>1. m \in 1..m
          BY <2>l
        <5> QED BY <2>7, <4>1, <5>1
      <4>2. CASE x \in ToSet(f.called)
        <5>1. PICK k \in 1..n : list[k] = x
          BY <3>2, <3>3, <4>2 DEF Reached
        <5>2. k \in 1..m
          BY <2>7, <2>3, <2>l
        <5> QED BY <5>1, <5>2
      <4> QED BY <2>9, <2>10, <2>11, <3>6, <4>1, <4>2
    <3>7. Reached(g, list, m)
      BY <2>7, <2>10, <3>5, <3>6 DEF Reached
    <3>8. g.only # None => g.owed \subseteq {g.only}
      BY <2>10, <3>1 DEF Walk
    <3> QED BY <2>9, <2>11, <3>4, <3>7, <3>8 DEF Walk
  <2>12. Fits(g)
    <3>1. IsInjective(c)
      BY <1>1, <2>9, <2>11 DEF Fits, Placed
    <3>2. Placed(g)
      BY <1>0, <1>1, <2>10, <3>1 DEF Fits, Placed
    <3>3. InCode(g)
      BY <2>8, <2>10 DEF InCode
    <3>4. Walking(g)
      BY <2>10, <2>11, <2>q DEF Walking
    <3>5. Holding(g)
      BY <2>10 DEF Holding
    <3> QED BY <3>2, <3>3, <3>4, <3>5 DEF Fits
  <2>13. \A x \in ToSet(r) : MayBeAbove(g, x)
    BY <1>0, <1>1, <2>10 DEF MayBeAbove
  <2>14. PICK t : t = <<g>> \o r /\ t = frames'
    BY <2>2, <2>5, <2>10
  <2>15. t \in Seq(FrameT) /\ ToSet(t) = {g} \cup ToSet(r) /\ Stacked(t)
    <3>1. <<g>> \o r \in Seq(FrameT) /\ ToSet(<<g>> \o r) = {g} \cup ToSet(r)
      BY PushFacts
    <3>2. Stacked(<<g>> \o r)
      BY <1>1, <2>13, StackedPush
    <3> QED BY <2>14, <3>1, <3>2
  <2> QED BY <1>0, <1>1, <2>12, <2>14, <2>15, FramesOnly
<1> QED BY <1>2, <1>3

LEMMA FrameFacts ==
    ASSUME NEW kind \in Kinds, NEW p \in Plugins, NEW ph \in Phases
    PROVE  /\ Frame(kind, p, ph) \in FrameT /\ Frame(kind, p, ph).kind = kind
           /\ Frame(kind, p, ph).plugin = p /\ Frame(kind, p, ph).phase = ph
           /\ IsInjective(Frame(kind, p, ph).called)
<1>1. << >> \in Seq(Owners) /\ IsInjective(<< >>)
  BY NoneFacts
<1>2. PICK z \in Seq(Owners) : z = << >> /\ IsInjective(z)
  BY <1>1, Zenon
<1>3. Frame(kind, p, ph) = [kind |-> kind, plugin |-> p, phase |-> ph, id |-> None,
                            only |-> None, called |-> z, owed |-> {}, moved |-> FALSE]
  BY <1>2, Zenon DEF Frame
<1>4. p \in Owners
  BY DEF Owners
<1> QED BY <1>2, <1>3, <1>4 DEF FrameT

LEMMA LoopCallsStep ==
    ASSUME IInv, NEW kind \in {"watch", "timer"}, NEW p \in Plugins, LoopCalls(kind, p)
    PROVE  IInv'
<1>0. /\ frames = << >> /\ UNCHANGED <<lists, timers, sessions>>
      /\ frames' = <<Frame(kind, p, None)>>
  BY DEF LoopCalls
<1>1. \/ kind = "watch" /\ watch[p] = "idle" /\ watch' = [watch EXCEPT ![p] = "running"]
      \/ kind = "timer" /\ p \in timers /\ watch' = watch
  BY DEF LoopCalls
<1>2. p \in ToSet(plugins) /\ p \in code
  <2>1. watch[p] # None \/ p \in timers
    BY <1>1 DEF None
  <2> QED BY <2>1, OwnFacts
<1>3. PICK f \in FrameT : /\ f = Frame(kind, p, None) /\ f.kind = kind /\ f.plugin = p
                          /\ IsInjective(f.called)
  <2>1. kind \in Kinds /\ None \in Phases
    BY DEF Kinds, Phases
  <2>2. /\ Frame(kind, p, None) \in FrameT /\ Frame(kind, p, None).kind = kind
        /\ Frame(kind, p, None).plugin = p
        /\ IsInjective(Frame(kind, p, None).called)
    BY <2>1, FrameFacts
  <2> QED BY <2>2, Zenon
<1>4. <<f>> \in Seq(FrameT) /\ ToSet(<<f>>) = {f} /\ Len(<<f>>) = 1
  BY OneFacts
<1>5. ToSet(frames) = {}
  BY <1>0, EmptyFacts
<1>6. Typed'
  <2>1. watch' \in [Plugins -> {None, "idle", "running", "freed", "last"}]
    BY <1>1 DEF IInv, Typed
  <2> QED BY <1>0, <1>3, <1>4, <2>1 DEF IInv, Typed, lists
<1>7. Listed'
  BY <1>0 DEF IInv, Listed, lists
<1>8. NothingHeld'
  BY <1>0, <1>1, <1>2 DEF IInv, Typed, NothingHeld, Nothing, lists
<1>9. Fitting'
  <2>1. kind = "watch" => watch'[p] = "running"
    BY <1>1 DEF IInv, Typed
  <2>2. Placed(f)'
    BY <1>3 DEF Placed
  <2>3. InCode(f)'
    BY <1>0, <1>2, <1>3 DEF InCode, lists
  <2>4. Walking(f)'
    BY <1>3 DEF Walking
  <2>5. Holding(f)'
    BY <1>3, <2>1 DEF Holding
  <2>6. Fits(f)'
    BY <2>2, <2>3, <2>4, <2>5 DEF Fits
  <2>7. ToSet(frames') = {f}
    BY <1>0, <1>3, <1>4
  <2> QED BY <2>6, <2>7, Zenon DEF Fitting
<1>10. Stacked(frames)'
  <2>1. Stacked(<<f>>)
    BY <1>4 DEF Stacked
  <2> QED BY <1>0, <1>3, <2>1
<1>11. LastIsThere'
  <2> SUFFICES ASSUME NEW q \in Plugins, watch'[q] = "last" PROVE FALSE
    BY Zenon DEF LastIsThere
  <2>1. watch[q] = "last"
    BY <1>1 DEF IInv, Typed
  <2> QED BY <1>5, <2>1 DEF IInv, LastIsThere
<1> QED BY <1>6, <1>7, <1>8, <1>9, <1>10, <1>11 DEF IInv

\* Steps that change what one listed plugin holds, and the stack.
LEMMA ThingsAndFrames ==
    ASSUME IInv, NEW p \in Plugins, p \in ToSet(plugins), UNCHANGED lists,
           watch' \in [Plugins -> {None, "idle", "running", "freed", "last"}],
           timers' \subseteq Plugins, sessions' \subseteq Plugins,
           \A q \in Plugins \ {p} : /\ watch'[q] = watch[q] /\ (q \in timers' <=> q \in timers)
                                    /\ (q \in sessions' <=> q \in sessions),
           frames' \in Seq(FrameT), Stacked(frames'),
           \A g \in ToSet(frames') :
             /\ Fits(g) \/ (Placed(g) /\ InCode(g) /\ Walking(g) /\ g.plugin = p)
             /\ g.plugin = p => Holding(g)',
           \A q \in Plugins : watch'[q] = "last" =>
             \E g \in ToSet(frames') : g.kind = "last" /\ g.plugin = q
    PROVE  IInv'
<1>1. Typed'
  BY DEF IInv, Typed, lists
<1>2. Listed'
  BY DEF IInv, Listed, lists
<1>3. NothingHeld'
  BY DEF IInv, NothingHeld, Nothing, lists
<1>4. Fitting'
  <2> SUFFICES ASSUME NEW g \in ToSet(frames') PROVE Fits(g)'
    BY Zenon DEF Fitting
  <2>1. /\ Placed(g) /\ InCode(g) /\ Walking(g)
        /\ g.plugin # p => Fits(g)
    BY DEF Fits
  <2>2. Placed(g)'
    BY <2>1 DEF Placed
  <2>3. InCode(g)'
    BY <2>1 DEF InCode, lists
  <2>4. Walking(g)'
    BY <2>1 DEF Walking, lists, Walk, Reached
  <2>5. Holding(g)'
    <3>1. CASE g.plugin = p
      BY <3>1
    <3>2. CASE g.plugin # p
      <4>1. Fits(g)
        BY <2>1, <3>2
      <4> QED BY <3>2, <4>1 DEF Fits, Placed, Holding, Unloaded
    <3> QED BY <3>1, <3>2
  <2> QED BY <2>2, <2>3, <2>4, <2>5 DEF Fits
<1>5. LastIsThere'
  BY DEF LastIsThere
<1> QED BY <1>1, <1>2, <1>3, <1>4, <1>5 DEF IInv

LEMMA ThingsOnly ==
    ASSUME IInv, NEW p \in Plugins, p \in ToSet(plugins), UNCHANGED <<lists, frames>>,
           watch' \in [Plugins -> {None, "idle", "running", "freed", "last"}],
           timers' \subseteq Plugins, sessions' \subseteq Plugins,
           \A q \in Plugins \ {p} : /\ watch'[q] = watch[q] /\ (q \in timers' <=> q \in timers)
                                    /\ (q \in sessions' <=> q \in sessions),
           watch'[p] = "last" => watch[p] = "last",
           \A f \in ToSet(frames) : f.plugin = p => Holding(f)'
    PROVE  IInv'
<1>1. frames' \in Seq(FrameT) /\ Stacked(frames') /\ UNCHANGED lists
  BY DEF IInv, Typed
<1>2. \A g \in ToSet(frames') : Fits(g) /\ (g.plugin = p => Holding(g)')
  BY EmptyFacts
<1>3. \A q \in Plugins : watch'[q] = "last" =>
        \E g \in ToSet(frames') : g.kind = "last" /\ g.plugin = q
  BY DEF IInv, LastIsThere
<1> QED BY <1>1, <1>2, <1>3, ThingsAndFrames

LEMMA OpensStep ==
    ASSUME IInv, NEW p \in Plugins, Opens(p)
    PROVE  IInv'
<1>0. /\ frames # << >> /\ Top.plugin = p /\ Top.kind \in {"watch", "timer"}
      /\ UNCHANGED <<lists, frames>>
  BY DEF Opens
<1>1. \/ watch[p] = None /\ watch' = [watch EXCEPT ![p] = "idle"] /\ UNCHANGED <<timers, sessions>>
      \/ timers' = timers \cup {p} /\ UNCHANGED <<watch, sessions>>
      \/ sessions' = sessions \cup {p} /\ UNCHANGED <<watch, timers>>
  BY DEF Opens
<1>2. ToSet(frames) = {Top} /\ Fits(Top)
  BY <1>0, BottomFacts, TopFacts
<1>3. p \in ToSet(plugins)
  BY <1>0, <1>2, OwnFacts
<1>4. Holding(Top)'
  <2>1. PICK f : f = Top
    OBVIOUS
  <2>2. Fits(f) /\ f.kind \in {"watch", "timer"} /\ f.plugin = p
    BY <1>0, <1>2, <2>1
  <2>3. f.kind = "watch" => watch'[p] = watch[p]
    BY <1>1, <2>2 DEF Fits, Holding, None
  <2>4. Holding(f)'
    BY <2>2, <2>3 DEF Fits, Holding
  <2>5. Top' = Top
    BY <1>0 DEF Top
  <2> QED BY <2>1, <2>4, <2>5 DEF Holding, Unloaded
<1>5. \A f \in ToSet(frames) : Holding(f)'
  <2> SUFFICES ASSUME NEW f \in ToSet(frames) PROVE Holding(f)'
    OBVIOUS
  <2>1. f = Top /\ Top' = Top
    BY <1>0, <1>2 DEF Top
  <2> QED BY <1>4, <2>1 DEF Holding, Unloaded
<1>6. /\ watch' \in [Plugins -> {None, "idle", "running", "freed", "last"}]
      /\ timers' \subseteq Plugins /\ sessions' \subseteq Plugins
      /\ \A q \in Plugins \ {p} : /\ watch'[q] = watch[q] /\ (q \in timers' <=> q \in timers)
                                  /\ (q \in sessions' <=> q \in sessions)
      /\ watch'[p] = "last" => watch[p] = "last"
  BY <1>1 DEF IInv, Typed
<1> QED BY <1>0, <1>3, <1>5, <1>6, ThingsOnly

LEMMA LastCallStep ==
    ASSUME IInv, NEW p \in Plugins, LastCall(p)
    PROVE  IInv'
<1>0. /\ frames # << >> /\ Top = Frame("last", p, None) /\ p \in sessions
      /\ timers' = timers \cup {p}
      /\ UNCHANGED <<lists, watch, sessions, frames>>
  BY DEF LastCall
<1>1. Top.kind = "last" /\ Top.plugin = p
  BY <1>0 DEF Frame
<1>2. p \in ToSet(plugins)
  BY <1>0, OwnFacts
<1>3. watch[p] = "last"
  <2>1. Fits(Top)
    BY <1>0, TopFacts
  <2> QED BY <1>1, <2>1 DEF Fits, Holding
<1>4. \A f \in ToSet(frames) : f.plugin = p => Holding(f)'
  <2> SUFFICES ASSUME NEW f \in ToSet(frames), f.plugin = p PROVE Holding(f)'
    OBVIOUS
  <2>1. Fits(f)
    BY EmptyFacts
  <2> QED BY <1>0, <1>3, <2>1 DEF Fits, Holding, Unloaded, None
<1>5. /\ watch' \in [Plugins -> {None, "idle", "running", "freed", "last"}]
      /\ timers' \subseteq Plugins /\ sessions' \subseteq Plugins
      /\ \A q \in Plugins \ {p} : /\ watch'[q] = watch[q] /\ (q \in timers' <=> q \in timers)
                                  /\ (q \in sessions' <=> q \in sessions)
      /\ watch'[p] = "last" => watch[p] = "last"
  BY <1>0 DEF IInv, Typed
<1> QED BY <1>0, <1>2, <1>4, <1>5, ThingsOnly

\* watch_free() of the watch of p, with the stack as s: the watch is called a
\* last time, on top of it, when it does not run.
LEMMA FreedFacts ==
    ASSUME IInv, NEW p \in Plugins, p \in ToSet(plugins), NEW s \in Seq(FrameT), Stacked(s),
           \A g \in ToSet(s) : g.kind = "unload" => g.phase # "watches",
           watch[p] = "idle" => \A g \in ToSet(s) : g.kind = "last" => g.plugin # p
    PROVE  /\ WatchFreed(p) \in [Plugins -> {None, "idle", "running", "freed", "last"}]
           /\ \A q \in Plugins \ {p} : WatchFreed(p)[q] = watch[q]
           /\ WatchFreed(p)[p] = IF watch[p] = "idle" THEN "last"
                                 ELSE IF watch[p] = "running" THEN "freed" ELSE watch[p]
           /\ LastCalled(p, s) \in Seq(FrameT) /\ Stacked(LastCalled(p, s))
           /\ ToSet(s) \subseteq ToSet(LastCalled(p, s))
           /\ \A g \in ToSet(LastCalled(p, s)) :
                \/ g \in ToSet(s)
                \/ /\ watch[p] = "idle" /\ Placed(g) /\ InCode(g) /\ Walking(g)
                   /\ g.plugin = p /\ g.kind = "last"
           /\ watch[p] = "idle" =>
                \E g \in ToSet(LastCalled(p, s)) : g.kind = "last" /\ g.plugin = p
<1>1. watch \in [Plugins -> {None, "idle", "running", "freed", "last"}]
  BY DEF IInv, Typed
<1>2. WatchFreed(p) =
        [watch EXCEPT ![p] = IF watch[p] = "idle" THEN "last"
                             ELSE IF watch[p] = "running" THEN "freed" ELSE watch[p]]
  BY <1>1 DEF WatchFreed
<1>3. CASE watch[p] = "idle"
  <2>1. "last" \in Kinds /\ None \in Phases
    BY DEF Kinds, Phases
  <2>2. /\ Frame("last", p, None) \in FrameT /\ Frame("last", p, None).kind = "last"
        /\ Frame("last", p, None).plugin = p
        /\ IsInjective(Frame("last", p, None).called)
    BY <2>1, FrameFacts
  <2>3. PICK f \in FrameT : /\ f = Frame("last", p, None) /\ f.kind = "last" /\ f.plugin = p
                            /\ IsInjective(f.called)
    BY <2>2, Zenon
  <2>4. PICK t : t = <<f>> \o s /\ t = LastCalled(p, s)
    BY <1>3, <2>3 DEF LastCalled
  <2>5. \A g \in ToSet(s) : MayBeAbove(f, g)
    BY <1>3, <2>3 DEF MayBeAbove
  <2>6. t \in Seq(FrameT) /\ ToSet(t) = {f} \cup ToSet(s) /\ Stacked(t)
    <3>1. <<f>> \o s \in Seq(FrameT) /\ ToSet(<<f>> \o s) = {f} \cup ToSet(s)
      BY PushFacts
    <3>2. Stacked(<<f>> \o s)
      BY <2>5, StackedPush
    <3> QED BY <2>4, <3>1, <3>2
  <2>7. Placed(f) /\ InCode(f) /\ Walking(f)
    <3>1. p \in code
      BY OwnFacts
    <3> QED BY <2>3, <3>1 DEF Placed, InCode, Walking
  <2> QED BY <1>1, <1>2, <1>3, <2>3, <2>4, <2>6, <2>7
<1>4. CASE watch[p] # "idle"
  <2>1. LastCalled(p, s) = s
    BY <1>4 DEF LastCalled
  <2> QED BY <1>1, <1>2, <1>4, <2>1
<1> QED BY <1>3, <1>4

LEMMA ClosesStep ==
    ASSUME IInv, NEW p \in Plugins, Closes(p)
    PROVE  IInv'
<1>0. /\ Running /\ watch[p] # None /\ UNCHANGED <<lists, timers, sessions>>
      /\ watch' = WatchFreed(p) /\ frames' = LastCalled(p, frames)
  BY DEF Closes
<1>1. p \in ToSet(plugins)
  BY <1>0, OwnFacts
<1>2. frames \in Seq(FrameT) /\ Stacked(frames)
  BY DEF IInv, Typed
<1>3. \A g \in ToSet(frames) : g.kind = "unload" => g.phase # "watches"
  BY <1>0, RunningFacts
<1>4. \A g \in ToSet(frames) : Fits(g)
  BY EmptyFacts
<1>5. watch[p] = "idle" => \A g \in ToSet(frames) : g.kind = "last" => g.plugin # p
  BY <1>4 DEF Fits, Holding
<1>6. /\ watch' \in [Plugins -> {None, "idle", "running", "freed", "last"}]
      /\ \A q \in Plugins \ {p} : watch'[q] = watch[q]
      /\ watch'[p] = IF watch[p] = "idle" THEN "last"
                     ELSE IF watch[p] = "running" THEN "freed" ELSE watch[p]
      /\ frames' \in Seq(FrameT) /\ Stacked(frames')
      /\ ToSet(frames) \subseteq ToSet(frames')
      /\ \A g \in ToSet(frames') :
           \/ g \in ToSet(frames)
           \/ /\ watch[p] = "idle" /\ Placed(g) /\ InCode(g) /\ Walking(g)
              /\ g.plugin = p /\ g.kind = "last"
      /\ watch[p] = "idle" => \E g \in ToSet(frames') : g.kind = "last" /\ g.plugin = p
  <2>1. /\ WatchFreed(p) \in [Plugins -> {None, "idle", "running", "freed", "last"}]
        /\ \A q \in Plugins \ {p} : WatchFreed(p)[q] = watch[q]
        /\ WatchFreed(p)[p] = IF watch[p] = "idle" THEN "last"
                              ELSE IF watch[p] = "running" THEN "freed" ELSE watch[p]
        /\ LastCalled(p, frames) \in Seq(FrameT) /\ Stacked(LastCalled(p, frames))
        /\ ToSet(frames) \subseteq ToSet(LastCalled(p, frames))
        /\ \A g \in ToSet(LastCalled(p, frames)) :
             \/ g \in ToSet(frames)
             \/ /\ watch[p] = "idle" /\ Placed(g) /\ InCode(g) /\ Walking(g)
                /\ g.plugin = p /\ g.kind = "last"
        /\ watch[p] = "idle" =>
             \E g \in ToSet(LastCalled(p, frames)) : g.kind = "last" /\ g.plugin = p
    BY <1>1, <1>2, <1>3, <1>5, FreedFacts
  <2> QED BY <1>0, <2>1, Zenon
<1>7. \A g \in ToSet(frames') : Fits(g) \/ (Placed(g) /\ InCode(g) /\ Walking(g) /\ g.plugin = p)
  BY <1>4, <1>6
<1>8. \A g \in ToSet(frames') : g.plugin = p => Holding(g)'
  <2> SUFFICES ASSUME NEW g \in ToSet(frames'), g.plugin = p PROVE Holding(g)'
    OBVIOUS
  <2>1. CASE g \in ToSet(frames)
    <3>1. Fits(g)
      BY <1>4, <2>1
    <3>2. g.kind = "unload" => g.phase # "watches"
      BY <1>3, <2>1
    <3>3. g.kind = "watch" => watch'[p] \in {"running", "freed"}
      BY <1>6, <3>1 DEF Fits, Holding
    <3>4. g.kind = "last" => watch'[p] = "last"
      BY <1>6, <3>1 DEF Fits, Holding
    <3>5. g.kind = "unload" => Unloaded(g)'
      BY <1>0, <1>6, <3>1, <3>2 DEF Fits, Placed, Holding, Unloaded
    <3> QED BY <3>3, <3>4, <3>5 DEF Holding
  <2>2. CASE g \notin ToSet(frames)
    <3>1. g.kind = "last" /\ watch'[p] = "last"
      BY <1>6, <2>2
    <3> QED BY <3>1 DEF Holding
  <2> QED BY <2>1, <2>2
<1>9. \A q \in Plugins : watch'[q] = "last" =>
        \E g \in ToSet(frames') : g.kind = "last" /\ g.plugin = q
  <2> SUFFICES ASSUME NEW q \in Plugins, watch'[q] = "last"
               PROVE  \E g \in ToSet(frames') : g.kind = "last" /\ g.plugin = q
    OBVIOUS
  <2>1. CASE q = p /\ watch[p] = "idle"
    BY <1>6, <2>1
  <2>2. CASE ~(q = p /\ watch[p] = "idle")
    <3>1. watch[q] = "last"
      BY <1>6, <2>2
    <3>2. PICK g \in ToSet(frames) : g.kind = "last" /\ g.plugin = q
      BY <3>1 DEF IInv, LastIsThere
    <3> QED BY <1>6, <3>2
  <2> QED BY <2>1, <2>2
<1>10. UNCHANGED lists /\ timers' \subseteq Plugins /\ sessions' \subseteq Plugins
       /\ timers' = timers /\ sessions' = sessions
  BY <1>0 DEF IInv, Typed
<1> QED BY <1>1, <1>6, <1>7, <1>8, <1>9, <1>10, ThingsAndFrames

LEMMA CallReturnStep ==
    ASSUME IInv, CallReturn
    PROVE  IInv'
<1>0. /\ frames # << >> /\ Top.kind \in {"watch", "timer", "last"}
      /\ UNCHANGED <<lists, timers, sessions>>
  BY DEF CallReturn
<1>1. PICK f \in FrameT, r \in Seq(FrameT) :
        /\ f = Top /\ r = Tail(frames) /\ Stacked(r) /\ Fits(f)
        /\ ToSet(frames) = {f} \cup ToSet(r)
        /\ \A g \in ToSet(r) : Fits(g) /\ MayBeAbove(f, g)
  BY <1>0, TopFacts, Zenon
<1>2. PICK p \in Plugins : p = f.plugin
  BY <1>0, <1>1 DEF Fits, Placed
<1>3. p \in ToSet(plugins)
  BY <1>1, <1>2, OwnFacts
<1>4. /\ frames' = IF f.kind = "watch" /\ watch[p] = "freed" THEN <<Frame("last", p, None)>> \o r ELSE r
      /\ watch' = [watch EXCEPT ![p] = CASE f.kind = "timer" -> @
                                         [] f.kind = "last"  -> None
                                         [] OTHER            -> IF @ = "freed" THEN "last" ELSE "idle"]
  BY <1>1, <1>2, Zenon DEF CallReturn
<1>5. UNCHANGED lists /\ timers' \subseteq Plugins /\ sessions' \subseteq Plugins
      /\ timers' = timers /\ sessions' = sessions
  BY <1>0 DEF IInv, Typed
<1>w. watch \in [Plugins -> {None, "idle", "running", "freed", "last"}]
  BY DEF IInv, Typed
<1>6. CASE f.kind = "timer"
  <2>1. frames' = r /\ watch' = watch /\ ToSet(r) = {}
    <3>1. ToSet(r) = {}
      BY <1>0, <1>1, <1>6, BottomFacts
    <3> QED BY <1>4, <1>6, <1>w, <3>1
  <2>2. \A q \in Plugins : watch'[q] # "last"
    <3> SUFFICES ASSUME NEW q \in Plugins, watch[q] = "last" PROVE FALSE
      BY <2>1
    <3>1. PICK g \in ToSet(frames) : g.kind = "last" /\ g.plugin = q
      BY DEF IInv, LastIsThere
    <3> QED BY <1>1, <1>6, <2>1, <3>1
  <2>3. watch' \in [Plugins -> {None, "idle", "running", "freed", "last"}]
        /\ \A q \in Plugins \ {p} : watch'[q] = watch[q]
    BY <1>w, <2>1
  <2> QED BY <1>1, <1>3, <1>5, <2>1, <2>2, <2>3, ThingsAndFrames
<1>7. CASE f.kind = "watch"
  <2>1. ToSet(r) = {}
    BY <1>0, <1>1, <1>7, BottomFacts
  <2>2. \A q \in Plugins : watch[q] # "last"
    <3> SUFFICES ASSUME NEW q \in Plugins, watch[q] = "last" PROVE FALSE
      OBVIOUS
    <3>1. PICK g \in ToSet(frames) : g.kind = "last" /\ g.plugin = q
      BY DEF IInv, LastIsThere
    <3> QED BY <1>1, <1>7, <2>1, <3>1
  <2>3. watch' = [watch EXCEPT ![p] = IF watch[p] = "freed" THEN "last" ELSE "idle"]
    BY <1>4, <1>7, <1>w
  <2>4. watch' \in [Plugins -> {None, "idle", "running", "freed", "last"}]
        /\ \A q \in Plugins \ {p} : watch'[q] = watch[q]
    BY <1>w, <2>3
  <2>5. CASE watch[p] # "freed"
    <3>1. frames' = r
      BY <1>4, <2>5
    <3>2. \A q \in Plugins : watch'[q] # "last"
      BY <1>w, <2>2, <2>3, <2>5
    <3> QED BY <1>1, <1>3, <1>5, <2>1, <2>4, <3>1, <3>2, ThingsAndFrames
  <2>6. CASE watch[p] = "freed"
    <3>1. "last" \in Kinds /\ None \in Phases
      BY DEF Kinds, Phases
    <3>2. /\ Frame("last", p, None) \in FrameT /\ Frame("last", p, None).kind = "last"
          /\ Frame("last", p, None).plugin = p
          /\ IsInjective(Frame("last", p, None).called)
      BY <3>1, FrameFacts
    <3>3. PICK g \in FrameT : /\ g = Frame("last", p, None) /\ g.kind = "last" /\ g.plugin = p
                              /\ IsInjective(g.called)
      BY <3>2, Zenon
    <3>4. frames' = <<g>> \o r
      BY <1>4, <1>7, <2>6, <3>3
    <3>5. frames' \in Seq(FrameT) /\ ToSet(frames') = {g} /\ Stacked(frames')
      <4>1. <<g>> \o r \in Seq(FrameT) /\ ToSet(<<g>> \o r) = {g} \cup ToSet(r)
        BY PushFacts
      <4>2. Stacked(<<g>> \o r)
        BY <1>1, <2>1, StackedPush
      <4> QED BY <2>1, <3>4, <4>1, <4>2
    <3>6. Placed(g) /\ InCode(g) /\ Walking(g)
      <4>1. p \in code
        BY <1>3, OwnFacts
      <4> QED BY <3>3, <4>1 DEF Placed, InCode, Walking
    <3>7. watch'[p] = "last"
      BY <1>w, <2>3, <2>6
    <3>8. Holding(g)'
      BY <3>3, <3>7 DEF Holding
    <3>9. \A q \in Plugins : watch'[q] = "last" => q = p
      BY <1>w, <2>2, <2>4
    <3>10. \A x \in ToSet(frames') : x = g
      BY <3>5
    <3>11. /\ \A x \in ToSet(frames') :
                /\ Fits(x) \/ (Placed(x) /\ InCode(x) /\ Walking(x) /\ x.plugin = p)
                /\ x.plugin = p => Holding(x)'
           /\ \A q \in Plugins : watch'[q] = "last" =>
                \E x \in ToSet(frames') : x.kind = "last" /\ x.plugin = q
      <4>1. \A x : x = g => Holding(x)'
        BY <3>8 DEF Holding, Unloaded
      <4> QED BY <3>3, <3>5, <3>6, <3>9, <3>10, <4>1
    <3> QED BY <1>3, <1>5, <2>4, <3>5, <3>11, ThingsAndFrames
  <2> QED BY <2>5, <2>6
<1>8. CASE f.kind = "last"
  <2>1. frames' = r
    BY <1>4, <1>8
  <2>2. watch' = [watch EXCEPT ![p] = None]
    BY <1>4, <1>8, <1>w
  <2>3. /\ watch' \in [Plugins -> {None, "idle", "running", "freed", "last"}]
        /\ \A q \in Plugins \ {p} : watch'[q] = watch[q]
        /\ watch'[p] = None /\ watch[p] = "last"
    BY <1>1, <1>2, <1>8, <1>w, <2>2 DEF Fits, Holding
  <2>4. \A g \in ToSet(r) : g.plugin = p => Holding(g)'
    <3> SUFFICES ASSUME NEW g \in ToSet(r), g.plugin = p PROVE Holding(g)'
      OBVIOUS
    <3>1. Fits(g) /\ MayBeAbove(f, g)
      BY <1>1
    <3>2. g.kind # "watch" /\ g.kind # "last"
      BY <1>2, <1>8, <2>3, <3>1 DEF Fits, Holding, MayBeAbove
    <3>3. g.kind = "unload" => Unloaded(g)'
      BY <1>5, <2>3, <3>1 DEF Fits, Holding, Unloaded, MayBeAbove, None
    <3> QED BY <3>2, <3>3 DEF Holding
  <2>5. \A q \in Plugins : watch'[q] = "last" =>
          \E g \in ToSet(frames') : g.kind = "last" /\ g.plugin = q
    <3> SUFFICES ASSUME NEW q \in Plugins, watch'[q] = "last"
                 PROVE  \E g \in ToSet(r) : g.kind = "last" /\ g.plugin = q
      BY <2>1
    <3>1. q # p /\ watch[q] = "last"
      BY <2>3 DEF None
    <3>2. PICK g \in ToSet(frames) : g.kind = "last" /\ g.plugin = q
      BY <3>1 DEF IInv, LastIsThere
    <3> QED BY <1>1, <1>2, <3>1, <3>2
  <2> QED BY <1>1, <1>3, <1>5, <2>1, <2>3, <2>4, <2>5, ThingsAndFrames
<1> QED BY <1>0, <1>1, <1>6, <1>7, <1>8
LEMMA LoadingStep ==
    ASSUME IInv, NEW p \in Plugins, NEW n \in Prios, NEW kind \in Loaders, Load(p, n, kind)
    PROVE  IInv'
<1>0. /\ Running /\ p \notin ToSet(plugins)
      /\ prio' = [prio EXCEPT ![p] = n]
      /\ plugins' = AddSorted(plugins, p, prio')
      /\ code' = code \cup {p}
      /\ queries' = [q \in Queries |-> Append(queries[q], p)]
      /\ watch' = [watch EXCEPT ![p] = "idle"]
      /\ frames' = <<Frame(kind, p, "vars")>> \o frames
      /\ UNCHANGED <<timers, sessions>>
  BY DEF Load
<1>w. /\ watch \in [Plugins -> {None, "idle", "running", "freed", "last"}]
      /\ frames \in Seq(FrameT) /\ Stacked(frames)
      /\ plugins \in Seq(Plugins) /\ IsInjective(plugins) /\ code = ToSet(plugins)
  BY DEF IInv, Typed, Listed
<1>1. p # Core /\ p \in Owners /\ p \notin code /\ \A f \in ToSet(frames) : f.plugin # p
  BY <1>0, OwnFacts DEF Owners
<1>2. /\ plugins' \in Seq(Plugins) /\ IsInjective(plugins')
      /\ ToSet(plugins') = ToSet(plugins) \cup {p}
  BY <1>0, <1>w, AddSortedFacts
<1>3. PICK f \in FrameT : /\ f = Frame(kind, p, "vars") /\ f.kind = kind /\ f.plugin = p
                          /\ IsInjective(f.called)
  <2>1. kind \in Kinds /\ "vars" \in Phases
    BY DEF Kinds, Phases
  <2>2. /\ Frame(kind, p, "vars") \in FrameT /\ Frame(kind, p, "vars").kind = kind
        /\ Frame(kind, p, "vars").plugin = p
        /\ IsInjective(Frame(kind, p, "vars").called)
    BY <2>1, FrameFacts
  <2> QED BY <2>2, Zenon
<1>4. \A g \in ToSet(frames) : MayBeAbove(f, g)
  <2>1. \A g \in ToSet(frames) : g.kind = "unload" => g.phase # "watches"
    BY <1>0, RunningFacts
  <2> QED BY <1>1, <1>3, <2>1 DEF MayBeAbove
<1>5. frames' \in Seq(FrameT) /\ ToSet(frames') = {f} \cup ToSet(frames) /\ Stacked(frames')
  <2>1. <<f>> \o frames \in Seq(FrameT) /\ ToSet(<<f>> \o frames) = {f} \cup ToSet(frames)
    BY <1>w, PushFacts
  <2>2. Stacked(<<f>> \o frames)
    BY <1>4, <1>w, StackedPush
  <2> QED BY <1>0, <1>3, <2>1, <2>2
<1>6. ASSUME NEW q \in Queries
      PROVE  /\ queries'[q] \in Seq(Owners) /\ IsInjective(queries'[q])
             /\ ToSet(queries'[q]) = ToSet(plugins') \cup {Core}
             /\ Len(queries'[q]) = Len(queries[q]) + 1 /\ Len(queries[q]) \in Nat
             /\ \A k \in 1..Len(queries[q]) : queries'[q][k] = queries[q][k]
  <2>1. PICK l \in Seq(Owners) : /\ l = queries[q] /\ IsInjective(l)
                                 /\ ToSet(l) = ToSet(plugins) \cup {Core}
    BY QueriesFacts
  <2>2. p \notin ToSet(l) /\ Len(l) \in Nat
    BY <1>0, <1>1, <2>1
  <2>3. /\ Append(l, p) \in Seq(Owners) /\ Len(Append(l, p)) = Len(l) + 1
        /\ \A i \in 1..Len(l) : Append(l, p)[i] = l[i]
        /\ ToSet(Append(l, p)) = ToSet(l) \cup {p}
        /\ IsInjective(Append(l, p))
    BY <1>1, <2>1, <2>2, AppendFacts
  <2>4. queries'[q] = Append(l, p)
    BY <1>0, <2>1
  <2>5. ToSet(l) \cup {p} = ToSet(plugins') \cup {Core}
    BY <1>2, <2>1
  <2> QED BY <2>1, <2>2, <2>3, <2>4, <2>5
<1>7. Typed'
  <2>1. prio' \in [Plugins -> Prios \cup {0}]
    BY <1>0 DEF IInv, Typed
  <2>2. watch' \in [Plugins -> {None, "idle", "running", "freed", "last"}]
    BY <1>0, <1>w
  <2>3. queries' \in [Queries -> Seq(Owners)]
    <3>1. \A q \in Queries : Append(queries[q], p) \in Seq(Owners)
      BY <1>0, <1>6
    <3> QED BY <1>0, <3>1
  <2>4. timers' \subseteq Plugins /\ sessions' \subseteq Plugins
    BY <1>0 DEF IInv, Typed
  <2> QED BY <1>2, <1>5, <2>1, <2>2, <2>3, <2>4 DEF Typed
<1>8. Listed'
  <2>1. code' = ToSet(plugins')
    BY <1>0, <1>2, <1>w
  <2> QED BY <1>6, <2>1 DEF Listed
<1>9. NothingHeld'
  BY <1>0, <1>2, <1>w DEF IInv, NothingHeld, Nothing
<1>10. Fitting'
  <2> SUFFICES ASSUME NEW g \in ToSet(frames') PROVE Fits(g)'
    BY Zenon DEF Fitting
  <2>1. CASE g \in ToSet(frames)
    <3>1. Fits(g) /\ g.plugin # p
      BY <1>1, <2>1, EmptyFacts
    <3>2. Placed(g)'
      BY <3>1 DEF Fits, Placed
    <3>3. InCode(g)'
      BY <1>0, <3>1 DEF Fits, InCode
    <3>4. Walking(g)'
      <4> SUFFICES ASSUME g.kind = "emit", ~g.moved PROVE Walk(g, queries'[g.id])
        BY DEF Walking
      <4>1. g.id \in Queries /\ Walk(g, queries[g.id])
        BY <3>1 DEF Fits, Placed, Walking
      <4>2. PICK l, m : l = queries[g.id] /\ m = queries'[g.id]
        OBVIOUS
      <4>3. PICK k \in 1..Len(l) : Reached(g, l, k)
        BY <4>1, <4>2 DEF Walk
      <4>4. Len(m) = Len(l) + 1 /\ Len(l) \in Nat /\ \A i \in 1..Len(l) : m[i] = l[i]
        BY <1>6, <4>1, <4>2
      <4>5. k \in 1..Len(m) /\ \A i \in 1..k : m[i] = l[i]
        BY <4>4
      <4>6. Reached(g, m, k)
        BY <4>3, <4>4, <4>5 DEF Reached
      <4> QED BY <4>1, <4>2, <4>5, <4>6 DEF Walk
    <3>5. Holding(g)'
      <4>1. g.plugin \in Plugins => watch'[g.plugin] = watch[g.plugin]
        BY <1>0, <1>w, <3>1
      <4> QED BY <1>0, <3>1, <4>1 DEF Fits, Placed, Holding, Unloaded
    <3> QED BY <3>2, <3>3, <3>4, <3>5 DEF Fits
  <2>2. CASE g = f
    <3>1. Placed(f)'
      BY <1>3 DEF Placed
    <3>2. InCode(f)'
      BY <1>0, <1>3 DEF InCode
    <3>3. Walking(f)'
      BY <1>3 DEF Walking
    <3>4. Holding(f)'
      BY <1>3 DEF Holding
    <3> QED BY <2>2, <3>1, <3>2, <3>3, <3>4 DEF Fits, Placed, InCode, Walking, Holding, Unloaded
  <2> QED BY <1>5, <2>1, <2>2
<1>11. LastIsThere'
  <2> SUFFICES ASSUME NEW q \in Plugins, watch'[q] = "last"
               PROVE  \E g \in ToSet(frames') : g.kind = "last" /\ g.plugin = q
    BY Zenon DEF LastIsThere
  <2>1. watch[q] = "last"
    BY <1>0, <1>w
  <2>2. PICK g \in ToSet(frames) : g.kind = "last" /\ g.plugin = q
    BY <2>1 DEF IInv, LastIsThere
  <2> QED BY <1>5, <2>2
<1> QED BY <1>5, <1>7, <1>8, <1>9, <1>10, <1>11 DEF IInv

LEMMA ReconnectedFacts ==
    ASSUME IInv, NEW pr
    PROVE  /\ Reconnected(queries, pr) \in [Queries -> Seq(Owners)]
           /\ \A q \in Queries : /\ IsInjective(Reconnected(queries, pr)[q])
                                 /\ ToSet(Reconnected(queries, pr)[q]) = ToSet(plugins) \cup {Core}
<1>1. ASSUME NEW q \in Queries
      PROVE  /\ Resort(queries[q], pr) \in Seq(Owners) /\ IsInjective(Resort(queries[q], pr))
             /\ ToSet(Resort(queries[q], pr)) = ToSet(plugins) \cup {Core}
  <2>1. PICK l \in Seq(Owners) : /\ l = queries[q] /\ IsInjective(l)
                                 /\ ToSet(l) = ToSet(plugins) \cup {Core}
    BY QueriesFacts
  <2> QED BY <2>1, ResortFacts
<1> QED BY <1>1 DEF Reconnected

\* Steps that sort the lists again, with the stack as s.
LEMMA MovedStep ==
    ASSUME IInv, UNCHANGED <<code, things>>, NEW s \in Seq(FrameT), Stacked(s),
           ToSet(s) \subseteq ToSet(frames),
           \A f \in ToSet(frames) : f.kind = "last" => f \in ToSet(s),
           frames' = Moved(s),
           plugins' \in Seq(Plugins), IsInjective(plugins'), ToSet(plugins') = ToSet(plugins),
           prio' \in [Plugins -> Prios \cup {0}],
           NEW pr, queries' = Reconnected(queries, pr)
    PROVE  IInv'
<1>1. /\ queries' \in [Queries -> Seq(Owners)]
      /\ \A q \in Queries : IsInjective(queries'[q]) /\ ToSet(queries'[q]) = ToSet(plugins) \cup {Core}
  BY ReconnectedFacts
<1>2. /\ frames' \in Seq(FrameT) /\ Stacked(frames')
      /\ \A g \in ToSet(frames') : \E f \in ToSet(s) :
           /\ Alike(g, f) /\ g.id = f.id
           /\ g = f \/ IsInjective(g.called)
           /\ g.kind = "emit" => g.moved
      /\ \A f \in ToSet(s) : \E g \in ToSet(frames') : Alike(g, f)
  BY MovedFacts
<1>3. Typed'
  BY <1>1, <1>2 DEF IInv, Typed, things
<1>4. Listed'
  BY <1>1 DEF IInv, Listed
<1>5. NothingHeld'
  BY DEF IInv, NothingHeld, Nothing, things
<1>6. Fitting'
  <2> SUFFICES ASSUME NEW g \in ToSet(frames') PROVE Fits(g)'
    BY Zenon DEF Fitting
  <2>1. PICK f \in ToSet(s) : /\ Alike(g, f) /\ g.id = f.id
                              /\ g = f \/ IsInjective(g.called)
                              /\ g.kind = "emit" => g.moved
    BY <1>2
  <2>2. Fits(f)
    BY EmptyFacts
  <2>3. Placed(g)'
    BY <2>1, <2>2 DEF Fits, Placed, Alike
  <2>4. InCode(g)'
    BY <2>1, <2>2 DEF Fits, InCode, Alike
  <2>5. Walking(g)'
    BY <2>1 DEF Walking
  <2>6. Holding(g)'
    BY <2>1, <2>2 DEF Fits, Holding, Unloaded, Alike, things
  <2> QED BY <2>3, <2>4, <2>5, <2>6 DEF Fits
<1>7. LastIsThere'
  <2> SUFFICES ASSUME NEW q \in Plugins, watch[q] = "last"
               PROVE  \E g \in ToSet(frames') : g.kind = "last" /\ g.plugin = q
    BY Zenon DEF LastIsThere, things
  <2>1. PICK f \in ToSet(s) : f.kind = "last" /\ f.plugin = q
    BY DEF IInv, LastIsThere
  <2> QED BY <1>2, <2>1 DEF Alike
<1> QED BY <1>2, <1>3, <1>4, <1>5, <1>6, <1>7 DEF IInv

LEMMA SetPrioStep ==
    ASSUME IInv, NEW p \in Plugins, NEW n \in Prios, SetPrio(p, n)
    PROVE  IInv'
<1>0. /\ p \in ToSet(plugins) /\ prio' = [prio EXCEPT ![p] = n]
      /\ plugins' = AddSorted(Without(plugins, p), p, prio')
      /\ queries' = Reconnected(queries, prio')
      /\ frames' = Moved(frames)
      /\ UNCHANGED <<code, things>>
  BY DEF SetPrio
<1>1. plugins \in Seq(Plugins) /\ IsInjective(plugins) /\ frames \in Seq(FrameT) /\ Stacked(frames)
  BY DEF IInv, Typed
<1>2. /\ Without(plugins, p) \in Seq(Plugins) /\ IsInjective(Without(plugins, p))
      /\ ToSet(Without(plugins, p)) = ToSet(plugins) \ {p}
  BY <1>1, WithoutFacts
<1>3. PICK l \in Seq(Plugins) : l = Without(plugins, p) /\ IsInjective(l)
                                /\ ToSet(l) = ToSet(plugins) \ {p}
  BY <1>2
<1>4. /\ AddSorted(l, p, prio') \in Seq(Plugins)
      /\ ToSet(AddSorted(l, p, prio')) = ToSet(l) \cup {p}
      /\ IsInjective(AddSorted(l, p, prio'))
  BY <1>3, AddSortedFacts
<1>5. plugins' \in Seq(Plugins) /\ IsInjective(plugins') /\ ToSet(plugins') = ToSet(plugins)
  BY <1>0, <1>3, <1>4
<1>6. prio' \in [Plugins -> Prios \cup {0}]
  BY <1>0 DEF IInv, Typed
<1> QED BY <1>0, <1>1, <1>5, <1>6, MovedStep
LEMMA LoadStepStep ==
    ASSUME IInv, LoadStep
    PROVE  IInv'
<1>0. frames # << >> /\ Top.kind \in Loaders
      /\ UNCHANGED <<plugins, prio, code, watch, timers>>
  BY DEF LoadStep
<1>1. PICK f \in FrameT, r \in Seq(FrameT) :
        /\ f = Top /\ r = Tail(frames) /\ Stacked(r) /\ Fits(f)
        /\ ToSet(frames) = {f} \cup ToSet(r)
        /\ \A g \in ToSet(r) : Fits(g) /\ MayBeAbove(f, g)
  BY <1>0, TopFacts, Zenon
<1>2. PICK p \in Plugins : p = f.plugin
  BY <1>0, <1>1 DEF Fits, Placed
<1>3. p \in ToSet(plugins) /\ p \in Owners \cup {None}
  BY <1>1, <1>2, OwnFacts DEF Owners
<1>4. \A g \in ToSet(r) : g.kind = "unload" => g.phase # "watches" /\ g.plugin # p
  BY <1>0, <1>1, <1>2 DEF MayBeAbove
<1>5. ASSUME NEW ph \in Phases
      PROVE  \E t \in FrameT :
               /\ Fits(t) /\ t.kind = f.kind /\ t.plugin = p
               /\ To(ph) \in Seq(FrameT) /\ Stacked(To(ph))
               /\ ToSet(To(ph)) = {t} \cup ToSet(r)
  <2>1. PICK t \in FrameT :
             /\ t.kind = f.kind /\ t.plugin = f.plugin /\ t.phase = ph
             /\ t.called = f.called /\ t.id = f.id
             /\ To(ph) \in Seq(FrameT) /\ Stacked(To(ph))
             /\ ToSet(To(ph)) = {t} \cup ToSet(r)
    BY <1>0, <1>1, ToFacts
  <2>2. Fits(t)
    BY <1>0, <1>1, <2>1 DEF Fits, Placed, InCode, Walking, Holding
  <2> QED BY <1>2, <2>1, <2>2
<1>6. ASSUME NEW ph \in Phases, frames' = Emitted(To(ph), SetVars, p), UNCHANGED <<lists, things>>
      PROVE  IInv'
  <2>1. PICK t \in FrameT : /\ Fits(t) /\ t.kind = f.kind /\ t.plugin = p
                            /\ To(ph) \in Seq(FrameT) /\ Stacked(To(ph))
                            /\ ToSet(To(ph)) = {t} \cup ToSet(r)
    BY <1>5
  <2>2. \A g \in ToSet(To(ph)) : g.kind = "unload" => g.phase # "watches"
    BY <1>0, <1>1, <1>4, <2>1
  <2>3. PICK s \in Seq(FrameT) : s = To(ph) /\ Stacked(s)
    BY <2>1
  <2>4. SetVars \in Queries
    BY Constants
  <2>5. /\ Emitted(s, SetVars, p) \in Seq(FrameT) /\ Stacked(Emitted(s, SetVars, p))
        /\ ToSet(s) \subseteq ToSet(Emitted(s, SetVars, p))
        /\ \A g \in ToSet(Emitted(s, SetVars, p)) : g \in ToSet(s) \/ Fits(g)
    BY <1>3, <2>2, <2>3, <2>4, EmittedFacts
  <2>6. /\ frames' \in Seq(FrameT) /\ Stacked(frames')
        /\ ToSet(s) \subseteq ToSet(frames')
        /\ \A g \in ToSet(frames') : g \in ToSet(s) \/ Fits(g)
    BY <1>6, <2>3, <2>5
  <2>7. \A g \in ToSet(frames') : Fits(g)
    BY <1>1, <2>1, <2>3, <2>6
  <2>8. \A g \in ToSet(frames) : g.kind = "last" =>
          \E h \in ToSet(frames') : h.kind = "last" /\ h.plugin = g.plugin
    BY <1>0, <1>1, <2>1, <2>3, <2>6
  <2> QED BY <1>6, <2>6, <2>7, <2>8, FramesOnly
<1>7. CASE /\ f.phase = "vars" /\ frames' = Emitted(To("config"), SetVars, p)
           /\ UNCHANGED <<sessions, queries>>
  <2>1. "config" \in Phases
    BY DEF Phases
  <2> QED BY <1>0, <1>6, <1>7, <2>1 DEF lists, things
<1>8. CASE /\ f.phase = "postinit" /\ frames' = Emitted(To("reconnect"), SetVars, p)
           /\ UNCHANGED <<sessions, queries>>
  <2>1. "reconnect" \in Phases
    BY DEF Phases
  <2> QED BY <1>0, <1>6, <1>8, <2>1 DEF lists, things
<1>9. CASE /\ f.phase = "config" /\ sessions' \in {sessions, sessions \cup ({p} \ UI)}
           /\ frames' = To("postinit") /\ UNCHANGED queries
  <2>0. "postinit" \in Phases
    BY DEF Phases
  <2>1. PICK t \in FrameT : /\ Fits(t) /\ t.kind = f.kind /\ t.plugin = p
                            /\ To("postinit") \in Seq(FrameT) /\ Stacked(To("postinit"))
                            /\ ToSet(To("postinit")) = {t} \cup ToSet(r)
    BY <1>5, <2>0
  <2>2. \A g \in ToSet(frames') : /\ Fits(g)
                                  /\ g.kind = "unload" => g.plugin # p
    BY <1>0, <1>1, <1>4, <1>9, <2>1
  <2>3. \A g \in ToSet(frames') : g.plugin = p => Holding(g)'
    <3> SUFFICES ASSUME NEW g \in ToSet(frames'), g.plugin = p PROVE Holding(g)'
      OBVIOUS
    <3>1. Fits(g) /\ g.kind # "unload"
      BY <2>2
    <3> QED BY <1>0, <3>1 DEF Fits, Holding
  <2>4. \A q \in Plugins : watch'[q] = "last" =>
          \E g \in ToSet(frames') : g.kind = "last" /\ g.plugin = q
    <3> SUFFICES ASSUME NEW q \in Plugins, watch[q] = "last"
                 PROVE  \E g \in ToSet(frames') : g.kind = "last" /\ g.plugin = q
      BY <1>0
    <3>1. PICK g \in ToSet(frames) : g.kind = "last" /\ g.plugin = q
      BY DEF IInv, LastIsThere
    <3> QED BY <1>0, <1>1, <1>9, <2>1, <3>1
  <2>5. /\ UNCHANGED lists /\ watch' \in [Plugins -> {None, "idle", "running", "freed", "last"}]
        /\ timers' \subseteq Plugins /\ sessions' \subseteq Plugins
        /\ \A q \in Plugins \ {p} : /\ watch'[q] = watch[q] /\ (q \in timers' <=> q \in timers)
                                    /\ (q \in sessions' <=> q \in sessions)
    BY <1>0, <1>9 DEF IInv, Typed, lists
  <2> QED BY <1>3, <1>9, <2>1, <2>2, <2>3, <2>4, <2>5, ThingsAndFrames
<1>10. CASE f.kind # "load" /\ frames' = r /\ UNCHANGED queries /\ UNCHANGED sessions
  <2>1. UNCHANGED <<lists, things>>
    BY <1>0, <1>10 DEF lists, things
  <2> QED BY <1>0, <1>1, <1>10, <2>1, FramesOnly
<1>12. CASE f.phase = "config" /\ UNCHANGED sessions /\ frames' = To("reconnect") /\ UNCHANGED queries
  <2>0. "reconnect" \in Phases
    BY DEF Phases
  <2>1. PICK t \in FrameT : /\ Fits(t) /\ t.kind = f.kind /\ t.plugin = p
                            /\ To("reconnect") \in Seq(FrameT) /\ Stacked(To("reconnect"))
                            /\ ToSet(To("reconnect")) = {t} \cup ToSet(r)
    BY <1>5, <2>0
  <2>2. \A g \in ToSet(frames') : Fits(g)
    BY <1>1, <1>12, <2>1
  <2>3. \A g \in ToSet(frames) : g.kind = "last" =>
          \E h \in ToSet(frames') : h.kind = "last" /\ h.plugin = g.plugin
    BY <1>0, <1>1, <1>12, <2>1 DEF Loaders
  <2>4. UNCHANGED <<lists, things>>
    BY <1>0, <1>12 DEF lists, things
  <2> QED BY <1>12, <2>1, <2>2, <2>3, <2>4, FramesOnly
<1>11. CASE frames' = Moved(r) /\ queries' = Reconnected(queries, prio) /\ UNCHANGED sessions
  <2>1. UNCHANGED <<code, things>>
    BY <1>0, <1>11 DEF things
  <2>2. /\ plugins' \in Seq(Plugins) /\ IsInjective(plugins') /\ ToSet(plugins') = ToSet(plugins)
        /\ prio' \in [Plugins -> Prios \cup {0}]
    BY <1>0 DEF IInv, Typed
  <2>3. ToSet(r) \subseteq ToSet(frames) /\ \A g \in ToSet(frames) : g.kind = "last" => g \in ToSet(r)
    BY <1>0, <1>1
  <2> QED BY <1>1, <1>11, <2>1, <2>2, <2>3, MovedStep
<1> QED BY <1>0, <1>1, <1>2, <1>7, <1>8, <1>9, <1>10, <1>11, <1>12, Zenon DEF LoadStep

LEMMA UnloadStep ==
    ASSUME Guarded, IInv, NEW p \in Plugins, Unload(p)
    PROVE  IInv'
<1>0. /\ Running /\ p \in ToSet(plugins) /\ ~Below(p)
      /\ \E expert \in ExpertModes : ~Refused(p, expert)
      /\ frames' = <<Frame("unload", p, "watches")>> \o frames
      /\ UNCHANGED <<lists, things>>
  BY DEF Unload, Guarded
<1>1. /\ frames \in Seq(FrameT) /\ Stacked(frames)
      /\ watch \in [Plugins -> {None, "idle", "running", "freed", "last"}]
  BY DEF IInv, Typed
<1>2. \A f \in ToSet(frames) :
        /\ f.kind # "unload"
        /\ ~(f.plugin = p /\ f.kind \in {"timer", "last", "emit"} \cup Loaders)
  <2> SUFFICES ASSUME NEW f \in ToSet(frames)
               PROVE  /\ f.kind # "unload"
                      /\ ~(f.plugin = p /\ f.kind \in {"timer", "last", "emit"} \cup Loaders)
    OBVIOUS
  <2>1. PICK i \in 1..Len(frames) : frames[i] = f
    BY <1>1, SetOf
  <2> QED BY <1>0, <2>1 DEF Below
<1>3. watch[p] \notin {"running", "freed"}
  BY <1>0 DEF Refused
<1>4. \A f \in ToSet(frames) : f.plugin # p
  <2> SUFFICES ASSUME NEW f \in ToSet(frames), f.plugin = p PROVE FALSE
    OBVIOUS
  <2>1. Fits(f) /\ f \in FrameT
    BY EmptyFacts
  <2>2. f.kind \in Kinds
    BY <2>1 DEF FrameT
  <2>3. f.kind # "watch"
    BY <1>3, <2>1 DEF Fits, Holding
  <2> QED BY <1>2, <2>2, <2>3 DEF Kinds
<1>5. watch[p] \in {None, "idle"}
  <2>1. watch[p] # "last"
    BY <1>4 DEF IInv, LastIsThere
  <2> QED BY <1>1, <1>3, <2>1
<1>6. PICK f \in FrameT : /\ f = Frame("unload", p, "watches") /\ f.kind = "unload"
                          /\ f.plugin = p /\ f.phase = "watches" /\ IsInjective(f.called)
  <2>1. "unload" \in Kinds /\ "watches" \in Phases
    BY DEF Kinds, Phases
  <2>2. /\ Frame("unload", p, "watches") \in FrameT /\ Frame("unload", p, "watches").kind = "unload"
        /\ Frame("unload", p, "watches").plugin = p /\ Frame("unload", p, "watches").phase = "watches"
        /\ IsInjective(Frame("unload", p, "watches").called)
    BY <2>1, FrameFacts
  <2> QED BY <2>2, Zenon
<1>7. Fits(f)
  <2>1. p \in code
    BY <1>0, OwnFacts
  <2> QED BY <1>5, <1>6, <2>1 DEF Fits, Placed, InCode, Walking, Holding, Unloaded
<1>8. \A g \in ToSet(frames) : MayBeAbove(f, g)
  BY <1>2, <1>4, <1>6 DEF MayBeAbove
<1>9. frames' \in Seq(FrameT) /\ ToSet(frames') = {f} \cup ToSet(frames) /\ Stacked(frames')
  <2>1. <<f>> \o frames \in Seq(FrameT) /\ ToSet(<<f>> \o frames) = {f} \cup ToSet(frames)
    BY <1>1, PushFacts
  <2>2. Stacked(<<f>> \o frames)
    BY <1>1, <1>8, StackedPush
  <2> QED BY <1>0, <1>6, <2>1, <2>2
<1>10. \A g \in ToSet(frames') : Fits(g)
  BY <1>7, <1>9, EmptyFacts
<1> QED BY <1>0, <1>9, <1>10, FramesOnly

\* plugin_unload() is on top: what lies below it is not of its plugin, and
\* cannot be called for it any more.
LEMMA UnloadingFacts ==
    ASSUME IInv, NEW ph, Unloading(ph)
    PROVE  \E p \in Plugins, r \in Seq(FrameT) :
             /\ Top.plugin = p /\ r = Tail(frames) /\ p \in ToSet(plugins) /\ Stacked(r)
             /\ Fits(Top) /\ Top.kind = "unload" /\ Top.phase = ph /\ frames # << >>
             /\ ToSet(frames) = {Top} \cup ToSet(r)
             /\ \A g \in ToSet(r) : Fits(g) /\ g.kind # "unload" /\ g.plugin # p
             /\ watch[p] # "last"
<1>0. frames # << >> /\ Top.kind = "unload" /\ Top.phase = ph
  BY DEF Unloading
<1>1. PICK f \in FrameT, r \in Seq(FrameT) :
        /\ f = Top /\ r = Tail(frames) /\ Stacked(r) /\ Fits(f)
        /\ ToSet(frames) = {f} \cup ToSet(r)
        /\ \A g \in ToSet(r) : Fits(g) /\ MayBeAbove(f, g)
  BY <1>0, TopFacts, Zenon
<1>2. PICK p \in Plugins : p = f.plugin
  BY <1>0, <1>1 DEF Fits, Placed
<1>3. p \in ToSet(plugins)
  BY <1>1, <1>2, OwnFacts
<1>4. \A g \in ToSet(r) : g.kind # "unload" /\ g.plugin # p
  BY <1>0, <1>1, <1>2 DEF MayBeAbove
<1>5. watch[p] # "last"
  <2> SUFFICES ASSUME watch[p] = "last" PROVE FALSE
    OBVIOUS
  <2>1. PICK g \in ToSet(frames) : g.kind = "last" /\ g.plugin = p
    BY DEF IInv, LastIsThere
  <2> QED BY <1>0, <1>1, <1>4, <2>1
<1> QED BY <1>0, <1>1, <1>2, <1>3, <1>4, <1>5

LEMMA UnloadWatchesStep ==
    ASSUME IInv, UnloadWatches
    PROVE  IInv'
<1>1. PICK p \in Plugins, r \in Seq(FrameT) :
        /\ Top.plugin = p /\ r = Tail(frames) /\ p \in ToSet(plugins) /\ Stacked(r)
        /\ Fits(Top) /\ Top.kind = "unload" /\ Top.phase = "watches" /\ frames # << >>
        /\ ToSet(frames) = {Top} \cup ToSet(r)
        /\ \A g \in ToSet(r) : Fits(g) /\ g.kind # "unload" /\ g.plugin # p
        /\ watch[p] # "last"
  BY UnloadingFacts DEF UnloadWatches
<1>2. PICK t \in FrameT :
        /\ t.kind = "unload" /\ t.plugin = p /\ t.phase = "timers" /\ t.called = Top.called
        /\ To("timers") \in Seq(FrameT) /\ Stacked(To("timers"))
        /\ ToSet(To("timers")) = {t} \cup ToSet(r)
  <2>1. "timers" \in Phases
    BY DEF Phases
  <2> QED BY <1>1, <2>1, ToFacts
<1>3. PICK s \in Seq(FrameT) : s = To("timers") /\ Stacked(s) /\ ToSet(s) = {t} \cup ToSet(r)
  BY <1>2
<1>4. /\ watch' = WatchFreed(p) /\ frames' = LastCalled(p, s)
      /\ UNCHANGED <<lists, timers, sessions>>
  BY <1>1, <1>3 DEF UnloadWatches
<1>5. /\ \A g \in ToSet(s) : g.kind = "unload" => g.phase # "watches"
      /\ \A g \in ToSet(s) : g.kind = "last" => g.plugin # p
  BY <1>1, <1>2, <1>3
<1>6. /\ watch' \in [Plugins -> {None, "idle", "running", "freed", "last"}]
      /\ \A q \in Plugins \ {p} : watch'[q] = watch[q]
      /\ watch'[p] = IF watch[p] = "idle" THEN "last"
                     ELSE IF watch[p] = "running" THEN "freed" ELSE watch[p]
      /\ frames' \in Seq(FrameT) /\ Stacked(frames')
      /\ ToSet(s) \subseteq ToSet(frames')
      /\ \A g \in ToSet(frames') :
           \/ g \in ToSet(s)
           \/ /\ watch[p] = "idle" /\ Placed(g) /\ InCode(g) /\ Walking(g)
              /\ g.plugin = p /\ g.kind = "last"
      /\ watch[p] = "idle" => \E g \in ToSet(frames') : g.kind = "last" /\ g.plugin = p
  <2>1. /\ WatchFreed(p) \in [Plugins -> {None, "idle", "running", "freed", "last"}]
        /\ \A q \in Plugins \ {p} : WatchFreed(p)[q] = watch[q]
        /\ WatchFreed(p)[p] = IF watch[p] = "idle" THEN "last"
                              ELSE IF watch[p] = "running" THEN "freed" ELSE watch[p]
        /\ LastCalled(p, s) \in Seq(FrameT) /\ Stacked(LastCalled(p, s))
        /\ ToSet(s) \subseteq ToSet(LastCalled(p, s))
        /\ \A g \in ToSet(LastCalled(p, s)) :
             \/ g \in ToSet(s)
             \/ /\ watch[p] = "idle" /\ Placed(g) /\ InCode(g) /\ Walking(g)
                /\ g.plugin = p /\ g.kind = "last"
        /\ watch[p] = "idle" =>
             \E g \in ToSet(LastCalled(p, s)) : g.kind = "last" /\ g.plugin = p
    BY <1>1, <1>3, <1>5, FreedFacts
  <2> QED BY <1>4, <2>1, Zenon
<1>7. watch[p] \in {None, "idle"}
  BY <1>1 DEF Fits, Holding, Unloaded
<1>8. Placed(t) /\ InCode(t) /\ Walking(t) /\ Holding(t)'
  <2>1. Placed(t)
    BY <1>1, <1>2 DEF Fits, Placed
  <2>2. InCode(t)
    BY <1>1, <1>2 DEF Fits, InCode
  <2>3. Walking(t)
    BY <1>2 DEF Walking
  <2>4. watch'[p] \in {None, "last"}
    BY <1>6, <1>7 DEF None
  <2>5. Holding(t)'
    BY <1>2, <2>4 DEF Holding, Unloaded
  <2> QED BY <2>1, <2>2, <2>3, <2>5
<1>9. ASSUME NEW g \in ToSet(frames')
      PROVE  /\ Fits(g) \/ (Placed(g) /\ InCode(g) /\ Walking(g) /\ g.plugin = p)
             /\ g.plugin = p => Holding(g)'
  <2>1. CASE g \in ToSet(r)
    BY <1>1, <2>1
  <2>2. CASE g = t
    BY <1>2, <1>8, <2>2 DEF Holding, Unloaded
  <2>3. CASE /\ watch[p] = "idle" /\ Placed(g) /\ InCode(g) /\ Walking(g)
             /\ g.plugin = p /\ g.kind = "last"
    BY <1>6, <2>3 DEF Holding
  <2> QED BY <1>3, <1>6, <2>1, <2>2, <2>3
<1>10. \A q \in Plugins : watch'[q] = "last" =>
         \E g \in ToSet(frames') : g.kind = "last" /\ g.plugin = q
  <2> SUFFICES ASSUME NEW q \in Plugins, watch'[q] = "last"
               PROVE  \E g \in ToSet(frames') : g.kind = "last" /\ g.plugin = q
    OBVIOUS
  <2>1. CASE q = p
    BY <1>1, <1>6, <1>7, <2>1 DEF None
  <2>2. CASE q # p
    <3>1. watch[q] = "last"
      BY <1>6, <2>2
    <3>2. PICK g \in ToSet(frames) : g.kind = "last" /\ g.plugin = q
      BY <3>1 DEF IInv, LastIsThere
    <3> QED BY <1>1, <1>3, <1>6, <3>2
  <2> QED BY <2>1, <2>2
<1>11. UNCHANGED lists /\ timers' \subseteq Plugins /\ sessions' \subseteq Plugins
       /\ timers' = timers /\ sessions' = sessions
  BY <1>4 DEF IInv, Typed
<1> QED BY <1>1, <1>6, <1>9, <1>10, <1>11, ThingsAndFrames
\* The parts of plugin_unload() that free what the plugin holds.
LEMMA UnloadThings ==
    ASSUME IInv, NEW from \in Phases, NEW ph \in {"sessions", "queries"}, Unloading(from),
           UNCHANGED lists, frames' = To(ph),
           watch' = watch, watch[Top.plugin] # "last" => watch[Top.plugin] = None,
           timers' \in {timers, timers \ {Top.plugin}}, Top.plugin \notin timers',
           sessions' \in {sessions, sessions \ {Top.plugin}},
           ph = "queries" => Top.plugin \notin sessions'
    PROVE  IInv'
<1>1. PICK p \in Plugins, r \in Seq(FrameT) :
        /\ Top.plugin = p /\ r = Tail(frames) /\ p \in ToSet(plugins) /\ Stacked(r)
        /\ Fits(Top) /\ Top.kind = "unload" /\ Top.phase = from /\ frames # << >>
        /\ ToSet(frames) = {Top} \cup ToSet(r)
        /\ \A g \in ToSet(r) : Fits(g) /\ g.kind # "unload" /\ g.plugin # p
        /\ watch[p] # "last"
  BY UnloadingFacts
<1>2. PICK t \in FrameT :
        /\ t.kind = "unload" /\ t.plugin = p /\ t.phase = ph /\ t.called = Top.called
        /\ To(ph) \in Seq(FrameT) /\ Stacked(To(ph))
        /\ ToSet(To(ph)) = {t} \cup ToSet(r)
  <2>1. ph \in Phases
    BY DEF Phases
  <2> QED BY <1>1, <2>1, ToFacts
<1>3. watch[p] = None
  BY <1>1
<1>4. Placed(t) /\ InCode(t) /\ Walking(t) /\ Holding(t)'
  <2>1. Placed(t)
    BY <1>1, <1>2 DEF Fits, Placed
  <2>2. InCode(t)
    BY <1>1, <1>2 DEF Fits, InCode
  <2>3. Walking(t)
    BY <1>2 DEF Walking
  <2>4. Holding(t)'
    BY <1>1, <1>2, <1>3 DEF Holding, Unloaded
  <2> QED BY <2>1, <2>2, <2>3, <2>4
<1>5. ASSUME NEW g \in ToSet(frames')
      PROVE  /\ Fits(g) \/ (Placed(g) /\ InCode(g) /\ Walking(g) /\ g.plugin = p)
             /\ g.plugin = p => Holding(g)'
  <2>1. CASE g \in ToSet(r)
    BY <1>1, <2>1
  <2>2. CASE g = t
    BY <1>2, <1>4, <2>2 DEF Holding, Unloaded
  <2> QED BY <1>2, <2>1, <2>2
<1>6. \A q \in Plugins : watch'[q] = "last" =>
        \E g \in ToSet(frames') : g.kind = "last" /\ g.plugin = q
  <2> SUFFICES ASSUME NEW q \in Plugins, watch[q] = "last"
               PROVE  \E g \in ToSet(frames') : g.kind = "last" /\ g.plugin = q
    OBVIOUS
  <2>1. PICK g \in ToSet(frames) : g.kind = "last" /\ g.plugin = q
    BY DEF IInv, LastIsThere
  <2> QED BY <1>1, <1>2, <2>1
<1>7. /\ watch' \in [Plugins -> {None, "idle", "running", "freed", "last"}]
      /\ timers' \subseteq Plugins /\ sessions' \subseteq Plugins
      /\ \A q \in Plugins \ {p} : /\ watch'[q] = watch[q] /\ (q \in timers' <=> q \in timers)
                                  /\ (q \in sessions' <=> q \in sessions)
  BY <1>1 DEF IInv, Typed
<1> QED BY <1>1, <1>2, <1>5, <1>6, <1>7, ThingsAndFrames

LEMMA UnloadTimersStep ==
    ASSUME IInv, UnloadTimers
    PROVE  IInv'
<1>1. /\ Unloading("timers") /\ timers' = timers \ {Top.plugin} /\ frames' = To("sessions")
      /\ UNCHANGED lists /\ UNCHANGED watch /\ UNCHANGED sessions
  BY DEF UnloadTimers, lists
<1>2. watch[Top.plugin] \in {None, "last"}
  <2>1. Fits(Top) /\ Top.kind = "unload" /\ Top.phase = "timers"
    BY <1>1, UnloadingFacts
  <2> QED BY <2>1 DEF Fits, Holding, Unloaded
<1>3. "timers" \in Phases
  BY DEF Phases
<1> QED BY <1>1, <1>2, <1>3, UnloadThings

LEMMA UnloadSessionStep ==
    ASSUME IInv, UnloadSession
    PROVE  IInv'
<1>1. /\ Unloading("sessions") /\ UNCHANGED <<lists, things>>
      /\ frames' = IF Top.plugin \in sessions THEN Emitted(To("session"), Removed, None) ELSE To("queries")
  BY DEF UnloadSession
<1>2. PICK p \in Plugins, r \in Seq(FrameT) :
        /\ Top.plugin = p /\ r = Tail(frames) /\ p \in ToSet(plugins) /\ Stacked(r)
        /\ Fits(Top) /\ Top.kind = "unload" /\ Top.phase = "sessions" /\ frames # << >>
        /\ ToSet(frames) = {Top} \cup ToSet(r)
        /\ \A g \in ToSet(r) : Fits(g) /\ g.kind # "unload" /\ g.plugin # p
        /\ watch[p] # "last"
  BY <1>1, UnloadingFacts
<1>3. watch[p] = None /\ p \notin timers
  BY <1>2 DEF Fits, Holding, Unloaded
<1>4. CASE p \notin sessions
  <2>1. frames' = To("queries") /\ UNCHANGED lists
        /\ watch' = watch /\ timers' = timers /\ sessions' = sessions
    BY <1>1, <1>2, <1>4 DEF things
  <2>2. "sessions" \in Phases
    BY DEF Phases
  <2> QED BY <1>1, <1>2, <1>3, <1>4, <2>1, <2>2, UnloadThings
<1>5. CASE p \in sessions
  <2>1. PICK t \in FrameT :
          /\ t.kind = "unload" /\ t.plugin = p /\ t.phase = "session" /\ t.called = Top.called
          /\ To("session") \in Seq(FrameT) /\ Stacked(To("session"))
          /\ ToSet(To("session")) = {t} \cup ToSet(r)
    <3>1. "session" \in Phases
      BY DEF Phases
    <3> QED BY <1>2, <3>1, ToFacts
  <2>2. Fits(t)
    BY <1>2, <1>3, <2>1 DEF Fits, Placed, InCode, Walking, Holding, Unloaded
  <2>3. PICK s \in Seq(FrameT) : s = To("session") /\ Stacked(s) /\ ToSet(s) = {t} \cup ToSet(r)
    BY <2>1
  <2>4. \A g \in ToSet(s) : g.kind = "unload" => g.phase # "watches"
    BY <1>2, <2>1, <2>3
  <2>5. Removed \in Queries
    BY Constants
  <2>6. /\ Emitted(s, Removed, None) \in Seq(FrameT) /\ Stacked(Emitted(s, Removed, None))
        /\ ToSet(s) \subseteq ToSet(Emitted(s, Removed, None))
        /\ \A g \in ToSet(Emitted(s, Removed, None)) : g \in ToSet(s) \/ Fits(g)
    BY <2>3, <2>4, <2>5, EmittedFacts
  <2>7. /\ frames' \in Seq(FrameT) /\ Stacked(frames') /\ ToSet(s) \subseteq ToSet(frames')
        /\ \A g \in ToSet(frames') : g \in ToSet(s) \/ Fits(g)
    BY <1>1, <1>2, <1>5, <2>3, <2>6
  <2>8. \A g \in ToSet(frames') : Fits(g)
    BY <1>2, <2>2, <2>3, <2>7
  <2>9. \A g \in ToSet(frames) : g.kind = "last" =>
          \E h \in ToSet(frames') : h.kind = "last" /\ h.plugin = g.plugin
    BY <1>2, <2>3, <2>7
  <2> QED BY <1>1, <2>7, <2>8, <2>9, FramesOnly
<1> QED BY <1>4, <1>5

LEMMA UnloadSessionFreeStep ==
    ASSUME IInv, UnloadSessionFree
    PROVE  IInv'
<1>1. /\ Unloading("session") /\ sessions' = sessions \ {Top.plugin} /\ frames' = To("queries")
      /\ UNCHANGED lists /\ UNCHANGED watch /\ UNCHANGED timers
  BY DEF UnloadSessionFree, lists
<1>2. watch[Top.plugin] = None /\ Top.plugin \notin timers
  <2>1. Fits(Top) /\ Top.kind = "unload" /\ Top.phase = "session"
    BY <1>1, UnloadingFacts
  <2> QED BY <2>1 DEF Fits, Holding, Unloaded
<1>3. "session" \in Phases
  BY DEF Phases
<1> QED BY <1>1, <1>2, <1>3, UnloadThings

LEMMA UnloadRestStep ==
    ASSUME IInv, UnloadRest
    PROVE  IInv'
<1>1. PICK p \in Plugins, r \in Seq(FrameT) :
        /\ Top.plugin = p /\ r = Tail(frames) /\ p \in ToSet(plugins) /\ Stacked(r)
        /\ Fits(Top) /\ Top.kind = "unload" /\ Top.phase = "queries" /\ frames # << >>
        /\ ToSet(frames) = {Top} \cup ToSet(r)
        /\ \A g \in ToSet(r) : Fits(g) /\ g.kind # "unload" /\ g.plugin # p
        /\ watch[p] # "last"
  BY UnloadingFacts DEF UnloadRest
<1>2. /\ queries' = [q \in Queries |-> Without(queries[q], p)]
      /\ plugins' = Without(plugins, p)
      /\ code' = code \ {p}
      /\ prio' = [prio EXCEPT ![p] = 0]
      /\ frames' = Disconnected(r, p)
      /\ UNCHANGED things
  BY <1>1 DEF UnloadRest
<1>3. watch[p] = None /\ p \notin timers /\ p \notin sessions /\ p # Core
  BY <1>1, OwnFacts DEF Fits, Holding, Unloaded
<1>4. /\ plugins' \in Seq(Plugins) /\ IsInjective(plugins')
      /\ ToSet(plugins') = ToSet(plugins) \ {p}
  <2>1. plugins \in Seq(Plugins) /\ IsInjective(plugins)
    BY DEF IInv, Typed
  <2>2. /\ Without(plugins, p) \in Seq(Plugins) /\ IsInjective(Without(plugins, p))
        /\ ToSet(Without(plugins, p)) = ToSet(plugins) \ {p}
    BY <2>1, WithoutFacts
  <2> QED BY <1>2, <2>2
<1>5. ASSUME NEW q \in Queries
      PROVE  /\ Without(queries[q], p) \in Seq(Owners) /\ IsInjective(Without(queries[q], p))
             /\ ToSet(Without(queries[q], p)) = ToSet(plugins') \cup {Core}
  <2>1. PICK l \in Seq(Owners) : /\ l = queries[q] /\ IsInjective(l)
                                 /\ ToSet(l) = ToSet(plugins) \cup {Core}
    BY QueriesFacts
  <2>2. /\ Without(l, p) \in Seq(Owners) /\ IsInjective(Without(l, p))
        /\ ToSet(Without(l, p)) = ToSet(l) \ {p}
    BY <2>1, WithoutFacts
  <2> QED BY <1>3, <1>4, <2>1, <2>2
<1>6. /\ frames' \in Seq(FrameT) /\ Stacked(frames')
      /\ \A g \in ToSet(frames') : \E f \in ToSet(r) :
           Alike(g, f) /\ g = Freed(f, p)
      /\ \A f \in ToSet(r) : \E g \in ToSet(frames') : Alike(g, f)
  <2>1. \A f \in ToSet(r) : IsInjective(f.called)
    BY <1>1 DEF Fits, Placed
  <2>2. Stacked(r)
    BY <1>1
  <2>3. /\ Disconnected(r, p) \in Seq(FrameT) /\ Stacked(Disconnected(r, p))
        /\ \A g \in ToSet(Disconnected(r, p)) : \E f \in ToSet(r) :
             Alike(g, f) /\ g = Freed(f, p)
        /\ \A f \in ToSet(r) : \E g \in ToSet(Disconnected(r, p)) : Alike(g, f)
    BY <2>1, <2>2, DisconnectedFacts
  <2>4. frames' = Disconnected(r, p)
    BY <1>2
  <2> QED BY <2>3, <2>4, Zenon
<1>7. Typed'
  BY <1>2, <1>4, <1>5, <1>6 DEF IInv, Typed, things
<1>8. Listed'
  <2>1. code' = ToSet(plugins')
    BY <1>2, <1>4 DEF IInv, Listed
  <2> QED BY <1>2, <1>5, <2>1 DEF Listed
<1>9. NothingHeld'
  BY <1>2, <1>3, <1>4 DEF IInv, NothingHeld, Nothing, things
<1>10. Fitting'
  <2> SUFFICES ASSUME NEW g \in ToSet(frames') PROVE Fits(g)'
    BY Zenon DEF Fitting
  <2>1. PICK f \in ToSet(r) : Alike(g, f) /\ g = Freed(f, p)
    BY <1>6
  <2>2. Fits(f) /\ f.plugin # p /\ f \in FrameT
    BY <1>1, EmptyFacts
  <2>3. PICK c \in Seq(Owners) : c = f.called /\ IsInjective(c)
    BY <2>2 DEF Fits, Placed, FrameT
  <2>4. /\ Without(c, p) \in Seq(Owners) /\ IsInjective(Without(c, p))
        /\ ToSet(Without(c, p)) = ToSet(c) \ {p}
    BY <2>3, WithoutFacts
  <2>5. /\ g.kind = f.kind /\ g.plugin = f.plugin /\ g.phase = f.phase /\ g.id = f.id
        /\ g.only = f.only /\ g.moved = f.moved
        /\ g.owed = f.owed \ {p} /\ g.called = Without(c, p)
    BY <2>1, <2>2, <2>3 DEF FrameT, Freed
  <2>6. Placed(g)'
    BY <2>2, <2>4, <2>5 DEF Fits, Placed
  <2>7. InCode(g)'
    BY <1>2, <2>2, <2>5 DEF Fits, InCode
  <2>8. Holding(g)'
    BY <1>2, <2>2, <2>5 DEF Fits, Holding, Unloaded, things
  <2>9. Walking(g)'
    <3> SUFFICES ASSUME f.kind = "emit", ~f.moved PROVE Walk(g, queries'[f.id])
      BY <2>5 DEF Walking
    <3>1. f.id \in Queries /\ Walk(f, queries[f.id])
      BY <2>2 DEF Fits, Placed, Walking
    <3>2. PICK l \in Seq(Owners) : l = queries[f.id] /\ IsInjective(l)
      BY <3>1, QueriesFacts
    <3>3. PICK m : m = queries'[f.id] /\ m = Without(l, p)
      BY <1>2, <3>1, <3>2
    <3>4. PICK n \in 1..Len(l) : Reached(f, l, n)
      BY <3>1, <3>2 DEF Walk
    <3>5. l[n] = f.plugin /\ l[n] # p
      BY <2>2, <3>4 DEF Reached
    <3>u. PICK k \in 1..Len(m) : UpTo(l, n, m, k, p)
      <4>1. \E k \in 1..Len(Without(l, p)) : UpTo(l, n, Without(l, p), k, p)
        BY <3>2, <3>5, WithoutFacts
      <4> QED BY <3>3, <4>1
    <3>6. /\ m[k] = l[n]
          /\ \A x : (\E i \in 1..k : m[i] = x) <=> x # p /\ (\E i \in 1..n : l[i] = x)
      BY <3>u, Zenon DEF UpTo
    <3>7. \A i \in 1..k : m[i] \in g.owed => m[i] \in ToSet(g.called)
      <4> SUFFICES ASSUME NEW i \in 1..k, m[i] \in f.owed, m[i] # p
                   PROVE  m[i] \in ToSet(c)
        BY <2>4, <2>5
      <4>1. PICK j \in 1..n : l[j] = m[i]
        BY <3>6
      <4> QED BY <2>3, <3>4, <4>1 DEF Reached
    <3>8. \A x \in ToSet(g.called) : \E i \in 1..k : m[i] = x
      <4> SUFFICES ASSUME NEW x \in ToSet(c), x # p
                   PROVE  \E i \in 1..k : m[i] = x
        BY <2>4, <2>5
      <4>1. \E j \in 1..n : l[j] = x
        BY <2>3, <3>4 DEF Reached
      <4> QED BY <3>6, <4>1
    <3>9. Reached(g, m, k)
      BY <2>5, <3>5, <3>6, <3>7, <3>8 DEF Reached
    <3>10. g.only # None => g.owed \subseteq {g.only}
      BY <2>5, <3>1 DEF Walk
    <3> QED BY <3>3, <3>9, <3>10 DEF Walk
  <2> QED BY <2>6, <2>7, <2>8, <2>9 DEF Fits
<1>11. LastIsThere'
  <2> SUFFICES ASSUME NEW q \in Plugins, watch[q] = "last"
               PROVE  \E g \in ToSet(frames') : g.kind = "last" /\ g.plugin = q
    BY <1>2, Zenon DEF LastIsThere, things
  <2>1. PICK f \in ToSet(frames) : f.kind = "last" /\ f.plugin = q
    BY DEF IInv, LastIsThere
  <2>2. f \in ToSet(r)
    BY <1>1, <2>1
  <2>3. PICK g \in ToSet(frames') : Alike(g, f)
    BY <1>6, <2>2
  <2> QED BY <2>1, <2>3 DEF Alike
<1> QED BY <1>6, <1>7, <1>8, <1>9, <1>10, <1>11 DEF IInv

-----------------------------------------------------------------------------
(* What follows.                                                           *)

LEMMA InitInv ==
    ASSUME Init
    PROVE  IInv
<1>1. /\ plugins = << >> /\ prio = [p \in Plugins |-> 0] /\ code = {}
      /\ queries = [q \in Queries |-> <<Core>>]
      /\ watch = [p \in Plugins |-> None] /\ timers = {} /\ sessions = {}
      /\ frames = << >>
  BY DEF Init
<1>2. /\ plugins \in Seq(Plugins) /\ ToSet(plugins) = {} /\ IsInjective(plugins)
      /\ frames \in Seq(FrameT) /\ ToSet(frames) = {}
  <2>1. << >> \in Seq(Plugins) /\ << >> \in Seq(FrameT) /\ ToSet(<< >>) = {} /\ IsInjective(<< >>)
    BY NoneFacts
  <2> QED BY <1>1, <2>1
<1>3. /\ <<Core>> \in Seq(Owners) /\ ToSet(<<Core>>) = {Core} /\ IsInjective(<<Core>>)
  <2>1. Core \in Owners
    BY DEF Owners
  <2> QED BY <2>1, OneFacts
<1>4. Typed
  BY <1>1, <1>2, <1>3 DEF Typed
<1>5. Listed
  BY <1>1, <1>2, <1>3 DEF Listed
<1>6. NothingHeld
  BY <1>1 DEF NothingHeld, Nothing
<1>7. Fitting /\ LastIsThere
  BY <1>1, <1>2 DEF Fitting, LastIsThere, None
<1>8. Stacked(frames)
  <2>1. Len(frames) = 0
    BY <1>1
  <2>2. \A i : i \notin 1..0
    OBVIOUS
  <2> QED BY <2>1, <2>2 DEF Stacked
<1> QED BY <1>4, <1>5, <1>6, <1>7, <1>8 DEF IInv

\* Every step keeps what the proofs say of the lists, of what plugins hold and
\* of the stack, the steps inside plugin_load() and plugin_unload() among them.
THEOREM Inductive ==
    ASSUME Guarded
    PROVE  Spec => []IInv
<1>1. Init => IInv
  BY InitInv
<1>2. IInv /\ [Next]_vars => IInv'
  <2> SUFFICES ASSUME IInv, [Next]_vars PROVE IInv'
    OBVIOUS
  <2>1. CASE \E id \in Queries \ {Removed, SetVars} : Emit(id)
    BY <2>1, EmitStep
  <2>2. CASE \E stop \in BOOLEAN : HandlerReturn(stop)
    BY <2>2, HandlerReturnStep
  <2>3. CASE \E p \in Plugins : LoopCalls("watch", p) \/ LoopCalls("timer", p) \/ Opens(p)
                                \/ Closes(p) \/ LastCall(p)
    BY <2>3, LoopCallsStep, OpensStep, ClosesStep, LastCallStep
  <2>4. CASE CallReturn
    BY <2>4, CallReturnStep
  <2>5. CASE \E p \in Plugins, n \in Prios, kind \in Loaders : Load(p, n, kind)
    BY <2>5, LoadingStep
  <2>6. CASE LoadStep
    BY <2>6, LoadStepStep
  <2>7. CASE \E p \in Plugins, n \in Prios : SetPrio(p, n)
    BY <2>7, SetPrioStep
  <2>8. CASE \E p \in Plugins : Unload(p)
    BY <2>8, UnloadStep
  <2>9. CASE UnloadWatches
    BY <2>9, UnloadWatchesStep
  <2>10. CASE UnloadTimers
    BY <2>10, UnloadTimersStep
  <2>11. CASE UnloadSession
    BY <2>11, UnloadSessionStep
  <2>12. CASE UnloadSessionFree
    BY <2>12, UnloadSessionFreeStep
  <2>13. CASE UnloadRest
    BY <2>13, UnloadRestStep
  <2>14. CASE UNCHANGED vars
    <3>1. /\ UNCHANGED <<lists, things>> /\ frames' = frames
          /\ frames \in Seq(FrameT) /\ Stacked(frames)
      BY <2>14 DEF vars, lists, things, IInv, Typed
    <3>2. \A g \in ToSet(frames') : Fits(g)
      BY <3>1, EmptyFacts
    <3> QED BY <3>1, <3>2, FramesOnly
  <2> QED BY <2>1, <2>2, <2>3, <2>4, <2>5, <2>6, <2>7, <2>8, <2>9, <2>10, <2>11, <2>12, <2>13,
             <2>14 DEF Next
<1> QED BY <1>1, <1>2, PTL DEF Spec

\* No frame returns into code that was unmapped, when nobody unloads a plugin from
\* its own timers, handlers, last calls or load, nor while one is unloaded
\* (Guarded; the XXX of plugin_unload() concedes that it does not look at those).
\* The check that it makes, for the handlers of watches, is then enough however
\* deep the stack is, and what it does before dlclose() starts no code that is
\* left under way.
THEOREM ReturnsIntoCode ==
    ASSUME Guarded
    PROVE  Spec => []CodeIsThere
<1>1. IInv => CodeIsThere
  <2> SUFFICES ASSUME IInv, NEW i \in 1..Len(frames) PROVE InCode(frames[i])
    BY DEF CodeIsThere, InCode
  <2>1. frames \in Seq(FrameT)
    BY DEF IInv, Typed
  <2>2. frames[i] \in ToSet(frames)
    BY <2>1, SetOf
  <2> QED BY <2>2 DEF IInv, Fitting, Fits
<1> QED BY <1>1, Inductive, PTL

\* plugin_unload() leaves no watch, timer, session or handler of the plugin,
\* whatever last calls and handlers did between its parts.
THEOREM LeavesNothing ==
    ASSUME Guarded
    PROVE  Spec => []NothingLeft
<1>1. IInv => NothingLeft
  <2> SUFFICES ASSUME IInv, NEW p \in Plugins \ ToSet(plugins)
               PROVE  /\ watch[p] = None /\ p \notin timers \cup sessions \cup code
                      /\ \A q \in Queries : p \notin ToSet(queries[q])
    BY DEF NothingLeft
  <2>1. Nothing(p) /\ p \notin code /\ p # Core
    BY OwnFacts DEF IInv, NothingHeld
  <2>2. \A q \in Queries : p \notin ToSet(queries[q])
    BY <2>1, QueriesFacts
  <2> QED BY <2>1, <2>2 DEF Nothing
<1> QED BY <1>1, Inductive, PTL

\* What EachCalledOnce says of one walk.
CalledRight(f) ==
    LET list == queries[f.id]
        passed == ToSet(SubSeq(list, 1, SelectInSeq(list, LAMBDA r : r = f.plugin)))
    IN  /\ IsInjective(f.called)
        /\ f.plugin \in ToSet(list)
        /\ passed \cap f.owed \subseteq ToSet(f.called)

\* query_emit_id() calls each handler at most once and passes over none, though
\* handlers load and unload plugins while it walks.
THEOREM CalledOnce ==
    ASSUME Guarded
    PROVE  Spec => []EachCalledOnce
<1>1. IInv => EachCalledOnce
  <2> SUFFICES ASSUME IInv, NEW i \in 1..Len(frames), frames[i].kind = "emit", ~frames[i].moved
               PROVE  CalledRight(frames[i])
    BY Zenon DEF EachCalledOnce, CalledRight
  <2>1. PICK f : f = frames[i] /\ f \in ToSet(frames)
    <3>1. frames \in Seq(FrameT)
      BY DEF IInv, Typed
    <3> QED BY <3>1, SetOf
  <2>2. f.id \in Queries /\ IsInjective(f.called) /\ Walk(f, queries[f.id])
    BY <2>1 DEF IInv, Fitting, Fits, Placed, Walking
  <2>3. PICK list \in Seq(Owners) : list = queries[f.id] /\ IsInjective(list)
    BY <2>2, QueriesFacts
  <2>4. PICK n \in 1..Len(list) : Reached(f, list, n)
    BY <2>2, <2>3 DEF Walk
  <2>5. /\ Len(list) \in Nat /\ list[n] = f.plugin /\ f.plugin \in ToSet(list)
        /\ \A k, l \in 1..Len(list) : list[k] = list[l] => k = l
    <3>1. /\ Len(list) \in Nat
          /\ \A x : x \in ToSet(list) <=> \E k \in 1..Len(list) : list[k] = x
          /\ IsInjective(list) <=> \A k, l \in 1..Len(list) : list[k] = list[l] => k = l
      BY SetOf
    <3> QED BY <2>3, <2>4, <3>1 DEF Reached
  <2>6. SelectInSeq(list, LAMBDA r : r = f.plugin) = n
    <3>1. PICK j : j = SelectInSeq(list, LAMBDA r : r = f.plugin)
      OBVIOUS
    <3>2. j \in 1..Len(list) /\ list[j] = f.plugin
      BY <2>5, <3>1, IndexFacts, Zenon
    <3>3. j = n
      BY <2>5, <3>2
    <3> QED BY <3>1, <3>3, Zenon
  <2>7. PICK s \in Seq(Owners) : /\ s = SubSeq(list, 1, n) /\ Len(s) = n
                                 /\ \A k \in 1..n : s[k] = list[k]
    <3>1. LET s == SubSeq(list, 1, n)
          IN  s \in Seq(Owners) /\ Len(s) = n /\ \A k \in 1..n : s[k] = list[k]
      BY <2>5
    <3> QED BY <3>1, Zenon
  <2>8. ToSet(s) \cap f.owed \subseteq ToSet(f.called)
    <3> SUFFICES ASSUME NEW x \in ToSet(s), x \in f.owed PROVE x \in ToSet(f.called)
      OBVIOUS
    <3>0. \A y : y \in ToSet(s) <=> \E k \in 1..Len(s) : s[k] = y
      BY SetOf
    <3>1. PICK k \in 1..n : s[k] = x
      BY <2>7, <3>0
    <3> QED BY <2>4, <2>7, <3>1 DEF Reached
  <2>9. SubSeq(list, 1, SelectInSeq(list, LAMBDA r : r = f.plugin)) = s
    BY <2>6, <2>7, Zenon
  <2>10. CalledRight(f)
    BY <2>2, <2>3, <2>5, <2>8, <2>9, Zenon DEF CalledRight
  <2> QED BY <2>1, <2>10, Zenon
<1> QED BY <1>1, Inductive, PTL
==============================================================================
