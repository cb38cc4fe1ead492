--------------------------- MODULE MsgQueueProofs ---------------------------
(***************************************************************************)
(* Proofs about MsgQueue, for any accounts, people, targets and bounds:    *)
(* the four properties of the run msgqueue.  NoneTwice assumes that every  *)
(* target is one person (Alone), as it is in that run: a conference of gg  *)
(* is sent once per entry and per recipient.  With at most one account     *)
(* whose server answers (OneAnswers) `mistaken` stays empty, and NoneLost  *)
(* is without its exception.                                               *)
(***************************************************************************)
EXTENDS MsgQueue, FiniteSetTheorems, SequenceTheorems, WellFoundedInduction, TLAPS

Alone == \A to \in Targets : \E p \in People : to = {p}

\* A message is what its command said; x is an entry or something on the wire.
Says(x) ==
    /\ x.msg \in 1..Len(given)
    /\ x.session = given[x.msg].session

\* The entry e stands for its message; those of the accounts that do not
\* answer have no number.
Stands(e) ==
    /\ Says(e) /\ e.to = given[e.msg].to
    /\ e.session \notin Answered => e.seq = Offline

OnWires == [session : Answered, to : People, msg : Messages, seq : Nat \ {0}]

Typed ==
    /\ given \in Seq([session : Sessions, to : SUBSET People])
    /\ Len(given) <= MaxMessages
    /\ queue \in Seq(Entries)
    /\ disk \subseteq [name : Nat, entry : Entries]
    /\ link \in [Sessions -> {"down", "connecting", "up"}]
    /\ wire \subseteq OnWires
    /\ walk \in [at : {"idle", "flush", "read", "write", "off"},
                 session : Sessions \cup {"none"}, i : Nat]
    /\ seq \in [Sessions -> Nat]
    /\ sends \in [Pairs -> Nat] /\ breaks \in [Pairs -> Nat]
    /\ settled \subseteq Pairs /\ mistaken \subseteq Pairs
    /\ refused \subseteq Messages /\ restored \subseteq Messages

\* What is on a connection was sent on it, and has a number of its own there.
Carried ==
    /\ IsFiniteSet(wire)
    /\ \A w \in wire :
         /\ Says(w) /\ w.to \in given[w.msg].to
         /\ w.seq <= seq[w.session]
         /\ link[w.session] = "up"
         /\ sends[<<w.msg, w.to>>] > 0
    /\ \A v, w \in wire : v.session = w.session /\ v.seq = w.seq => v = w

Known ==
    /\ \A i \in 1..Len(queue) : Stands(queue[i])
    /\ \A f \in disk : Stands(f.entry)
    /\ \A m \in 1..Len(given) : given[m].to # {}
    /\ \A x \in Pairs :
         x[1] \notin 1..Len(given) \/ x[2] \notin given[x[1]].to => sends[x] = 0

\* What the program does says where the entries are and which links are up.
Phase ==
    /\ walk.at \in {"idle", "flush"} => disk = {}
    /\ walk.at = "idle" => walk = Idle
    /\ walk.at \in {"flush", "write"} => walk.i \in 1..Len(queue) + 1
    /\ walk.at = "flush" => walk.session \in Sessions /\ link[walk.session] = "up"
    /\ walk.at = "write" =>
         disk = {[name |-> k - 1, entry |-> [queue[k] EXCEPT !.mark = FALSE]] :
                    k \in 1..walk.i - 1}
    /\ walk.at = "off" => queue = << >>
    /\ walk.at \in {"read", "off"} => wire = {} /\ \A s \in Sessions : link[s] = "down"

\* The entry that the flush will still come to: its number is of an earlier
\* connection and says nothing.
Ahead(i) ==
    /\ walk.at = "flush" /\ walk.session = queue[i].session
    /\ queue[i].mark /\ walk.i <= i

\* w has the number of the entry e, on the connection of e's account.
Answers(w, e) == w.session = e.session /\ w.seq = e.seq

\* What the wire has under an entry's number is the entry's message.
Numbered ==
    \A i \in 1..Len(queue) :
        \/ link[queue[i].session] # "up"
        \/ Ahead(i)
        \/ /\ queue[i].seq <= seq[queue[i].session]
           /\ \A w \in wire : Answers(w, queue[i]) => w.msg = queue[i].msg

Holds(e, m, p) == e.msg = m /\ p \in e.to

\* The entry that will bring m to p: no answer of its account for another
\* removes it.
Brings(i, m, p) ==
    /\ Holds(queue[i], m, p)
    /\ Ahead(i) \/ \A w \in wire : Answers(w, queue[i]) => w.to = p

Cared(m, p) ==
    \/ \E i \in 1..Len(queue) : Brings(i, m, p)
    \/ \E f \in disk : Holds(f.entry, m, p)
    \/ <<m, p>> \in settled \cup mistaken
    \/ given[m].session \notin Answered /\ sends[<<m, p>>] > 0

AllCared == \A m \in 1..Len(given) : \A p \in given[m].to : Cared(m, p)

\* What an entry waits for while its session is up.
OnWire(e) == \E w \in wire : w.session = e.session /\ w.msg = e.msg /\ w.seq = e.seq

Refused(e) == e.seq = Unsent /\ e.msg \in refused

Attended ==
    \A i \in 1..Len(queue) : link[queue[i].session] = "up" =>
        OnWire(queue[i]) \/ Ahead(i) \/ Refused(queue[i])

\* A message that was neither refused nor read from disk is sent to all of its
\* recipients at once.
NotSent(m) == \A p \in given[m].to : sends[<<m, p>>] = 0
Plain(m) == m \notin restored \cup refused
AtOnce ==
    \A m \in 1..Len(given) :
        m \in refused \/ NotSent(m) \/ \A p \in given[m].to : sends[<<m, p>>] > 0

\* What was never sent lies behind what was given before it.
InOrder ==
    \A i, j \in 1..Len(queue) :
        (/\ i < j /\ queue[i].session = queue[j].session
         /\ NotSent(queue[j].msg) /\ Plain(queue[j].msg))
            => queue[i].msg <= queue[j].msg

NotPassed ==
    \A i \in 1..Len(queue) : \A m \in 1..Len(given) :
        (/\ NotSent(queue[i].msg) /\ Plain(queue[i].msg)
         /\ queue[i].msg < m /\ given[m].session = queue[i].session)
            => NotSent(m)

\* With one recipient to a message there is one entry and one thing on the
\* wire of each, and an entry was sent as often as connections took it away.
HasEntry(m) ==
    \/ \E i \in 1..Len(queue) : queue[i].msg = m
    \/ \E f \in disk : f.entry.msg = m
HasWire(m) == \E w \in wire : w.msg = m

Single ==
    /\ \A m \in 1..Len(given) : \E p \in People : given[m].to = {p}
    /\ \A i, j \in 1..Len(queue) : queue[i].msg = queue[j].msg => i = j
    /\ \A f, h \in disk : f.entry.msg = h.entry.msg => f = h
    /\ walk.at = "read" => \A f \in disk, i \in 1..Len(queue) : f.entry.msg # queue[i].msg
    /\ \A v, w \in wire : v.msg = w.msg => v = w
    /\ walk.at = "flush" =>
         \A i \in 1..Len(queue) : Flushable(queue[i]) => ~HasWire(queue[i].msg)
    /\ \A i \in 1..Len(queue) : HasWire(queue[i].msg) => OnWire(queue[i])
    /\ \A x \in Pairs :
         /\ sends[x] <= 1 + breaks[x]
         /\ HasEntry(x[1]) => IF HasWire(x[1]) THEN sends[x] <= 1 + breaks[x]
                              ELSE sends[x] <= breaks[x]

\* With one account that answers, its answers can meet no other's entries.
OneAnswers == \A g, h \in Answered : g = h

IInv ==
    /\ Typed /\ Carried /\ Known /\ Phase
    /\ Numbered /\ AllCared /\ Attended
    /\ AtOnce /\ InOrder /\ NotPassed
    /\ Alone => Single
    /\ OneAnswers => mistaken = {}

-----------------------------------------------------------------------------
(* Places.                                                                 *)

LEMMA SmallestOf ==
  ASSUME NEW S \in SUBSET Nat, S # {}
  PROVE  \E x \in S : \A y \in S : x <= y
<1>1. IsWellFoundedOn(OpToRel(<, Nat), Nat)
  BY NatLessThanWellFounded
<1>2. PICK x \in S : \A y \in S : ~(<<y, x>> \in OpToRel(<, Nat))
  BY <1>1, WFMin
<1>3. \A y \in S : x <= y
  <2> SUFFICES ASSUME NEW y \in S PROVE x <= y
    OBVIOUS
  <2>1. ~(<<y, x>> \in OpToRel(<, Nat))
    BY <1>2
  <2>2. x \in Nat /\ y \in Nat
    OBVIOUS
  <2>3. y < x => <<y, x>> \in OpToRel(<, Nat)
    BY <2>2, Zenon DEF OpToRel
  <2>4. ~(y < x)
    BY <2>1, <2>3, Zenon
  <2> QED BY <2>2, <2>4
<1> QED BY <1>3

LEMMA PlaceFacts ==
    ASSUME NEW n \in Nat, NEW K \in SUBSET (1..n)
    PROVE  /\ Cardinality(K) \in Nat
           /\ \A j \in 1..Cardinality(K) : Place(K, j) \in K
           /\ \A i, j \in 1..Cardinality(K) : i < j => Place(K, i) < Place(K, j)
           /\ \A i \in K : \E j \in 1..Cardinality(K) : Place(K, j) = i
<1> DEFINE u(i) == {k \in K : k <= i}
           c == [i \in 0..n |-> Cardinality(u(i))]
<1>0. \A k \in K : k \in 1..n /\ k \in 0..n
  OBVIOUS
<1>1. IsFiniteSet(K) /\ Cardinality(K) \in Nat
  <2>1. IsFiniteSet(1..n)
    BY FS_Interval
  <2> QED BY <2>1, FS_Subset, FS_CardinalityType
<1>2. \A i \in 0..n : IsFiniteSet(u(i)) /\ c[i] \in Nat /\ c[i] <= Cardinality(K)
  <2> SUFFICES ASSUME NEW i \in 0..n
               PROVE  IsFiniteSet(u(i)) /\ c[i] \in Nat /\ c[i] <= Cardinality(K)
    OBVIOUS
  <2>1. u(i) \in SUBSET K /\ c[i] = Cardinality(u(i))
    OBVIOUS
  <2> HIDE DEF u, c
  <2> QED BY <1>1, <2>1, FS_Subset, FS_CardinalityType
<1>3. \A i \in 1..n : c[i] = IF i \in K THEN c[i - 1] + 1 ELSE c[i - 1]
  <2> SUFFICES ASSUME NEW i \in 1..n
               PROVE  c[i] = IF i \in K THEN c[i - 1] + 1 ELSE c[i - 1]
    OBVIOUS
  <2>0. \A k \in K : k <= i <=> (k <= i - 1 \/ k = i)
    BY <1>0
  <2>1. i \in K => u(i) = u(i - 1) \cup {i}
    BY <2>0
  <2>2. i \notin K => u(i) = u(i - 1)
    BY <2>0
  <2>3. i \notin u(i - 1) /\ i - 1 \in 0..n /\ i \in 0..n
    BY <1>0
  <2>a. c[i] = Cardinality(u(i)) /\ c[i - 1] = Cardinality(u(i - 1))
    BY <2>3
  <2>4. IsFiniteSet(u(i - 1))
    BY <1>2, <2>3
  <2> HIDE DEF u
  <2>5. Cardinality(u(i - 1) \cup {i}) = Cardinality(u(i - 1)) + 1
    BY <2>3, <2>4, FS_AddElement
  <2> HIDE DEF c
  <2> QED BY <2>1, <2>2, <2>5, <2>a
<1>4. \A i, j \in 0..n : i <= j => c[i] <= c[j]
  <2> SUFFICES ASSUME NEW i \in 0..n, NEW j \in 0..n, i <= j
               PROVE  c[i] <= c[j]
    OBVIOUS
  <2>0. \A k \in K : k <= i => k <= j
    BY <1>0
  <2>1. u(i) \in SUBSET u(j)
    BY <2>0
  <2>2. IsFiniteSet(u(j)) /\ c[i] = Cardinality(u(i)) /\ c[j] = Cardinality(u(j))
    BY <1>2
  <2> HIDE DEF u, c
  <2> QED BY <2>1, <2>2, FS_Subset
<1>5. c[0] = 0 /\ c[n] = Cardinality(K)
  <2>0. \A k \in K : ~(k <= 0) /\ k <= n
    BY <1>0
  <2>1. u(0) = {} /\ u(n) = K
    BY <2>0
  <2>2. c[0] = Cardinality(u(0)) /\ c[n] = Cardinality(u(n))
    OBVIOUS
  <2> HIDE DEF u, c
  <2> QED BY <2>1, <2>2, FS_EmptySet
<1>a. \A i \in 0..n : c[i] \in Nat /\ c[i] <= Cardinality(K)
  BY <1>2
<1> HIDE DEF c, u
<1>6. \A i \in 0..n, j \in K : i < j => c[i] < c[j]
  <2> SUFFICES ASSUME NEW i \in 0..n, NEW j \in K, i < j
               PROVE  c[i] < c[j]
    OBVIOUS
  <2>1. j \in 1..n /\ j - 1 \in 0..n /\ j \in 0..n /\ i <= j - 1
    BY <1>0
  <2>2. c[j] = c[j - 1] + 1 /\ c[i] <= c[j - 1]
    BY <1>3, <1>4, <2>1
  <2> QED BY <1>a, <2>1, <2>2
<1>7. \A i, j \in K : c[i] = c[j] => i = j
  <2> SUFFICES ASSUME NEW i \in K, NEW j \in K, i # j
               PROVE  c[i] # c[j]
    OBVIOUS
  <2>1. i \in 0..n /\ j \in 0..n /\ (i < j \/ j < i)
    BY <1>0
  <2> QED BY <1>a, <1>6, <2>1
<1>8. ASSUME NEW j \in 1..Cardinality(K)
      PROVE  \E i \in K : c[i] = j
  <2> DEFINE S == {i \in 0..n : c[i] >= j}
  <2>1. n \in S /\ S \in SUBSET Nat
    BY <1>1, <1>5
  <2>2. PICK x \in S : \A y \in S : x <= y
    BY <2>1, SmallestOf
  <2>3. x \in 0..n /\ x # 0 /\ c[x] >= j
    BY <1>1, <1>5
  <2>4. x \in 1..n /\ x - 1 \in 0..n /\ ~(x <= x - 1)
    BY <2>3
  <2>5. ~(c[x - 1] >= j)
    BY <2>2, <2>4
  <2>6. c[x] = IF x \in K THEN c[x - 1] + 1 ELSE c[x - 1]
    BY <1>3, <2>4
  <2>7. c[x] \in Nat /\ c[x - 1] \in Nat /\ j \in Nat
    BY <1>1, <1>a, <2>3, <2>4
  <2> QED BY <2>3, <2>5, <2>6, <2>7
<1>9. \A j \in 1..Cardinality(K) : Place(K, j) \in K /\ c[Place(K, j)] = j
  <2> SUFFICES ASSUME NEW j \in 1..Cardinality(K)
               PROVE  Place(K, j) \in K /\ c[Place(K, j)] = j
    OBVIOUS
  <2>1. \A i \in K : c[i] = Cardinality({k \in K : k <= i})
    <3> SUFFICES ASSUME NEW i \in K PROVE c[i] = Cardinality({k \in K : k <= i})
      OBVIOUS
    <3>1. i \in 0..n
      BY <1>0
    <3> QED BY <3>1 DEF c, u
  <2>2. PICK i \in K : Cardinality({k \in K : k <= i}) = j
    BY <1>8, <2>1
  <2>3. Place(K, j) \in K /\ Cardinality({k \in K : k <= Place(K, j)}) = j
    BY <2>2 DEF Place
  <2> QED BY <2>1, <2>3
<1>10. \A i, j \in 1..Cardinality(K) : i < j => Place(K, i) < Place(K, j)
  <2> SUFFICES ASSUME NEW i \in 1..Cardinality(K), NEW j \in 1..Cardinality(K), i < j
               PROVE  Place(K, i) < Place(K, j)
    OBVIOUS
  <2>1. /\ Place(K, i) \in K /\ c[Place(K, i)] = i
        /\ Place(K, j) \in K /\ c[Place(K, j)] = j
    BY <1>9
  <2>2. Place(K, i) \in 0..n /\ Place(K, j) \in 0..n
    BY <1>0, <2>1
  <2>3. Place(K, j) <= Place(K, i) => j <= i
    BY <1>4, <2>1, <2>2
  <2> QED BY <1>1, <2>2, <2>3
<1>11. \A i \in K : \E j \in 1..Cardinality(K) : Place(K, j) = i
  <2> SUFFICES ASSUME NEW i \in K
               PROVE  \E j \in 1..Cardinality(K) : Place(K, j) = i
    OBVIOUS
  <2>1. i \in 1..n /\ i \in 0..n /\ 0 \in 0..n /\ 0 < i
    BY <1>0
  <2>2. c[i] \in 1..Cardinality(K)
    BY <1>1, <1>a, <1>5, <1>6, <2>1
  <2>3. Place(K, c[i]) \in K /\ c[Place(K, c[i])] = c[i]
    BY <1>9, <2>2
  <2> QED BY <1>7, <2>2, <2>3
<1> QED BY <1>1, <1>9, <1>10, <1>11

LEMMA KeptFacts ==
    ASSUME queue \in Seq(Entries), NEW K \in SUBSET (1..Len(queue))
    PROVE  /\ Kept(K) \in Seq(Entries) /\ Len(Kept(K)) \in Nat
           /\ \A j \in 1..Len(Kept(K)) : Place(K, j) \in K /\ Kept(K)[j] = queue[Place(K, j)]
           /\ \A i, j \in 1..Len(Kept(K)) : i < j => Place(K, i) < Place(K, j)
           /\ \A i \in K : \E j \in 1..Len(Kept(K)) : Place(K, j) = i
<1>1. Len(queue) \in Nat /\ \A i \in 1..Len(queue) : queue[i] \in Entries
  OBVIOUS
<1>2. /\ Cardinality(K) \in Nat
      /\ \A j \in 1..Cardinality(K) : Place(K, j) \in K
      /\ \A i, j \in 1..Cardinality(K) : i < j => Place(K, i) < Place(K, j)
      /\ \A i \in K : \E j \in 1..Cardinality(K) : Place(K, j) = i
  BY <1>1, PlaceFacts
<1>3. \A j \in 1..Cardinality(K) : queue[Place(K, j)] \in Entries
  BY <1>1, <1>2
<1>4. Kept(K) \in Seq(Entries) /\ Len(Kept(K)) = Cardinality(K)
      /\ \A j \in 1..Cardinality(K) : Kept(K)[j] = queue[Place(K, j)]
  BY <1>2, <1>3 DEF Kept
<1> QED BY <1>2, <1>4

LEMMA ConcatFacts ==
    ASSUME NEW S, NEW s \in Seq(S), NEW t \in Seq(S)
    PROVE  /\ s \o t \in Seq(S) /\ Len(s \o t) = Len(s) + Len(t)
           /\ \A i \in 1..Len(s) : (s \o t)[i] = s[i]
           /\ \A i \in 1..Len(t) : (s \o t)[Len(s) + i] = t[i]
<1>1. /\ s \o t \in Seq(S) /\ Len(s \o t) = Len(s) + Len(t)
      /\ \A i \in 1..Len(s) + Len(t) :
           (s \o t)[i] = IF i <= Len(s) THEN s[i] ELSE t[i - Len(s)]
  BY ConcatProperties
<1>2. Len(s) \in Nat /\ Len(t) \in Nat
  OBVIOUS
<1> QED BY <1>1, <1>2

LEMMA RemoveAtFacts ==
    ASSUME NEW S, NEW s \in Seq(S), NEW i \in 1..Len(s)
    PROVE  /\ RemoveAt(s, i) \in Seq(S) /\ Len(RemoveAt(s, i)) = Len(s) - 1
           /\ \A k \in 1..i - 1 : RemoveAt(s, i)[k] = s[k]
           /\ \A k \in i..Len(s) - 1 : RemoveAt(s, i)[k] = s[k + 1]
<1>1. Len(s) \in Nat /\ \A k \in 1..Len(s) : s[k] \in S
  OBVIOUS
<1>a. LET a == SubSeq(s, 1, i - 1)
      IN  a \in Seq(S) /\ Len(a) = i - 1 /\ \A k \in 1..i - 1 : a[k] = s[k]
  BY <1>1
<1>b. LET b == SubSeq(s, i + 1, Len(s))
      IN  b \in Seq(S) /\ Len(b) = Len(s) - i /\ \A k \in 1..Len(s) - i : b[k] = s[i + k]
  BY <1>1
<1>2. PICK a \in Seq(S) : a = SubSeq(s, 1, i - 1) /\ Len(a) = i - 1
                          /\ \A k \in 1..i - 1 : a[k] = s[k]
  BY <1>a, Zenon
<1>3. PICK b \in Seq(S) : b = SubSeq(s, i + 1, Len(s)) /\ Len(b) = Len(s) - i
                          /\ \A k \in 1..Len(s) - i : b[k] = s[i + k]
  BY <1>b, Zenon
<1>4. RemoveAt(s, i) = a \o b
  BY <1>2, <1>3 DEF RemoveAt
<1>5. /\ a \o b \in Seq(S) /\ Len(a \o b) = Len(a) + Len(b)
      /\ \A k \in 1..Len(a) : (a \o b)[k] = a[k]
      /\ \A k \in 1..Len(b) : (a \o b)[Len(a) + k] = b[k]
  BY ConcatFacts
<1>6. ASSUME NEW k \in i..Len(s) - 1
      PROVE  (a \o b)[k] = s[k + 1]
  <2> DEFINE l == k - (i - 1)
  <2>1. l \in 1..Len(b) /\ Len(a) + l = k /\ i + l = k + 1 /\ l \in 1..Len(s) - i
    BY <1>1, <1>2, <1>3
  <2> HIDE DEF l
  <2>2. (a \o b)[Len(a) + l] = b[l]
    BY <1>5, <2>1
  <2>3. b[l] = s[i + l]
    BY <1>3, <2>1
  <2> QED BY <2>1, <2>2, <2>3
<1>7. Len(a \o b) = Len(s) - 1 /\ \A k \in 1..i - 1 : (a \o b)[k] = s[k]
  <2>1. Len(a) = i - 1 /\ Len(b) = Len(s) - i
    BY <1>2, <1>3
  <2>2. (i - 1) + (Len(s) - i) = Len(s) - 1
    BY <1>1
  <2>3. \A k \in 1..i - 1 : (a \o b)[k] = a[k]
    BY <1>5, <2>1
  <2>4. \A k \in 1..i - 1 : (a \o b)[k] = s[k]
    BY <1>2, <2>3
  <2> QED BY <1>5, <2>1, <2>2, <2>4
<1> QED BY <1>4, <1>5, <1>6, <1>7, Zenon

-----------------------------------------------------------------------------
(* Sending.                                                                *)

LEMMA SetToSeqFacts ==
    ASSUME NEW S, IsFiniteSet(S)
    PROVE  LET z == SetToSeq(S)
           IN  /\ Cardinality(S) \in Nat /\ Len(z) = Cardinality(S) /\ z \in Seq(S)
               /\ \A i \in 1..Len(z) : z[i] \in S
               /\ \A i, j \in 1..Len(z) : z[i] = z[j] => i = j
               /\ \A x \in S : \E i \in 1..Len(z) : z[i] = x
<1>1. Cardinality(S) \in Nat /\ ExistsBijection(1..Cardinality(S), S)
  BY FS_CardinalityType
<1>2. \E f \in [1..Cardinality(S) -> S] : IsInjective(f)
  BY <1>1 DEF ExistsBijection, Bijection, Injection, IsInjective
<1>3. SetToSeq(S) \in [1..Cardinality(S) -> S] /\ IsInjective(SetToSeq(S))
  BY <1>2 DEF SetToSeq
<1>4. SetToSeq(S) \in Surjection(1..Cardinality(S), S)
  <2>1. SetToSeq(S) \in Injection(1..Cardinality(S), S)
    BY <1>3 DEF Injection, IsInjective
  <2>2. IsFiniteSet(1..Cardinality(S)) /\ Cardinality(1..Cardinality(S)) = Cardinality(S)
    BY <1>1, FS_Interval
  <2> QED BY <2>1, <2>2, FS_Injection
<1>5. \A x \in S : \E i \in 1..Cardinality(S) : SetToSeq(S)[i] = x
  BY <1>4 DEF Surjection
<1>6. \A i, j \in 1..Cardinality(S) : SetToSeq(S)[i] = SetToSeq(S)[j] => i = j
  BY <1>3 DEF IsInjective
<1>7. SetToSeq(S) \in Seq(S) /\ Len(SetToSeq(S)) = Cardinality(S)
  BY <1>1, <1>3
<1> QED BY <1>1, <1>3, <1>5, <1>6, <1>7

\* S is one thing to each of to.
OneEach(S, s, to, m) ==
    /\ IsFiniteSet(S)
    /\ \A w \in S : w.session = s /\ w.msg = m /\ w.to \in to
    /\ \A p \in to : \E w \in S : w.to = p
    /\ \A v, w \in S : v.to = w.to => v = w

\* What Put() leaves for the recipients z.
PutLeaves(out, z, s, to, m, R) ==
    /\ OneEach(out.sent, s, to \ R, m)
    /\ Cardinality(out.sent) + Cardinality(R) = Len(z) /\ Len(z) \in Nat
    /\ Cardinality(out.sent) \in Nat /\ Cardinality(R) \in Nat
    /\ Len(z) = Cardinality(to)
    /\ out.entries = [i \in 1..Len(z) |-> out.entries[i]]
    /\ Len(out.entries) = Len(z) /\ DOMAIN out.entries = 1..Len(z)
    /\ \A i \in 1..Len(z) :
         /\ z[i] \in to
         /\ out.entries[i] = Entry(s, to, m, IF z[i] \in R THEN Unsent ELSE seq[s] + i)
    /\ \A p \in to : \E i \in 1..Len(z) : z[i] = p
    /\ \A w \in out.sent : \E i \in 1..Len(z) :
         z[i] \notin R
         /\ w = [session |-> s, to |-> z[i], msg |-> m, seq |-> seq[s] + i]
    /\ \A i \in 1..Len(z) : z[i] \notin R =>
         [session |-> s, to |-> z[i], msg |-> m, seq |-> seq[s] + i] \in out.sent

LEMMA PutFacts ==
    ASSUME Typed, NEW s \in Sessions, NEW to \in SUBSET People, NEW m \in Messages,
           link[s] = "up", NEW R \in SUBSET to
    PROVE  PutLeaves(Put(s, to, m, R), SetToSeq(to), s, to, m, R)
<1> DEFINE z == SetToSeq(to)
           D == {i \in 1..Len(z) : z[i] \notin R}
           rec(i) == [session |-> s, to |-> z[i], msg |-> m, seq |-> seq[s] + i]
           S == {rec(i) : i \in D}
           f == [i \in D |-> rec(i)]
<1>1. IsFiniteSet(to) /\ IsFiniteSet(R) /\ IsFiniteSet(to \ R)
  BY QueueAssumption, FS_Subset
<1>2. /\ Cardinality(to) \in Nat /\ Len(z) = Cardinality(to)
      /\ \A i \in 1..Len(z) : z[i] \in to
      /\ \A i, j \in 1..Len(z) : z[i] = z[j] => i = j
      /\ \A p \in to : \E i \in 1..Len(z) : z[i] = p
  BY <1>1, SetToSeqFacts
<1>3. Put(s, to, m, R).sent = S
  <2>1. {k \in 1..Len(z) : link[s] = "up" /\ z[k] \notin R} = D
    OBVIOUS
  <2> QED BY <2>1 DEF Put
<1>4. Put(s, to, m, R).entries =
        [i \in 1..Len(z) |-> Entry(s, to, m, IF z[i] \in R THEN Unsent ELSE seq[s] + i)]
  BY DEF Put
<1>5. seq[s] \in Nat
  BY DEF Typed
<1> HIDE DEF z
<1>6. \A i \in D : i \in 1..Len(z) /\ z[i] \in to \ R
  BY <1>2
<1>7. \A p \in to \ R : \E i \in D : z[i] = p
  BY <1>2
<1>8. \A w \in S : \E i \in D : w = rec(i)
  OBVIOUS
<1>9. \A i \in D : rec(i) \in S
  OBVIOUS
<1>10. \A i \in D : rec(i).session = s /\ rec(i).msg = m /\ rec(i).to = z[i]
  OBVIOUS
\* The sent are as many as those who are not refused.
<1>11. Cardinality(S) = Cardinality(to \ R) /\ IsFiniteSet(S)
  <2> DEFINE g == [p \in to \ R |-> rec(CHOOSE i \in D : z[i] = p)]
  <2>1. \A p \in to \ R : (CHOOSE i \in D : z[i] = p) \in D /\ z[CHOOSE i \in D : z[i] = p] = p
    BY <1>7
  <2>2. g \in [to \ R -> S] /\ \A p \in to \ R : g[p].to = p
    BY <1>9, <1>10, <2>1
  <2>3. \A p, q \in to \ R : g[p] = g[q] => p = q
    BY <2>2
  <2>4. \A w \in S : \E p \in to \ R : g[p] = w
    <3> SUFFICES ASSUME NEW w \in S PROVE \E p \in to \ R : g[p] = w
      OBVIOUS
    <3>0. PICK i \in D : w = rec(i)
      BY <1>8
    <3>1. z[i] \in to \ R
      BY <1>6
    <3>2. PICK k : k = CHOOSE j \in D : z[j] = z[i]
      OBVIOUS
    <3>3. k \in D /\ z[k] = z[i]
      BY <2>1, <3>1, <3>2
    <3>4. k = i
      BY <1>2, <1>6, <3>3
    <3>5. g[z[i]] = rec(k)
      BY <3>1, <3>2
    <3> QED BY <3>0, <3>1, <3>4, <3>5
  <2> HIDE DEF g, S
  <2>5. g \in Bijection(to \ R, S)
    BY <2>2, <2>3, <2>4 DEF Bijection, Injection, Surjection, IsInjective
  <2> QED BY <1>1, <2>5, FS_Bijection DEF ExistsBijection
<1>12. Cardinality(to \ R) + Cardinality(R) = Cardinality(to)
       /\ Cardinality(to \ R) \in Nat /\ Cardinality(R) \in Nat
  <2>1. R \cap to = R /\ to \cap R = R
    OBVIOUS
  <2>2. Cardinality(to \ R) = Cardinality(to) - Cardinality(to \cap R)
    BY <1>1, FS_Difference
  <2>3. Cardinality(to \ R) \in Nat /\ Cardinality(R) \in Nat
    BY <1>1, FS_CardinalityType
  <2>4. Cardinality(to \ R) = Cardinality(to) - Cardinality(R)
    BY <2>1, <2>2, Zenon
  <2>5. PICK a \in Nat, b \in Nat, c \in Nat :
          a = Cardinality(to \ R) /\ b = Cardinality(R) /\ c = Cardinality(to)
    BY <1>2, <2>3
  <2>6. a = c - b => a + b = c
    OBVIOUS
  <2> QED BY <2>4, <2>5, <2>6
<1> HIDE DEF S, rec
<1>13. \A v, w \in S : v.to = w.to => v = w
  <2> SUFFICES ASSUME NEW v \in S, NEW w \in S, v.to = w.to PROVE v = w
    OBVIOUS
  <2>1. PICK i \in D : v = rec(i)
    BY <1>8
  <2>2. PICK j \in D : w = rec(j)
    BY <1>8
  <2> QED BY <1>2, <1>6, <1>10, <2>1, <2>2
<1>14. OneEach(S, s, to \ R, m)
  <2>1. \A w \in S : w.session = s /\ w.msg = m /\ w.to \in to \ R
    BY <1>6, <1>8, <1>10
  <2>2. \A p \in to \ R : \E w \in S : w.to = p
    BY <1>7, <1>9, <1>10
  <2> QED BY <1>11, <1>13, <2>1, <2>2 DEF OneEach
<1>15. \A w \in S : \E i \in 1..Len(z) : z[i] \notin R /\ w = rec(i)
  BY <1>6, <1>8
<1>16. \A i \in 1..Len(z) : z[i] \notin R => rec(i) \in S
  BY <1>9
<1>17. Cardinality(S) \in Nat /\ Cardinality(S) + Cardinality(R) = Len(z) /\ Len(z) \in Nat
  BY <1>2, <1>11, <1>12
<1>18. /\ Len(Put(s, to, m, R).entries) = Len(z) /\ DOMAIN Put(s, to, m, R).entries = 1..Len(z)
       /\ \A i \in 1..Len(z) : Put(s, to, m, R).entries[i] =
            Entry(s, to, m, IF z[i] \in R THEN Unsent ELSE seq[s] + i)
       /\ Put(s, to, m, R).entries = [i \in 1..Len(z) |-> Put(s, to, m, R).entries[i]]
  BY <1>2, <1>4
<1> QED BY <1>2, <1>3, <1>12, <1>14, <1>15, <1>16, <1>17, <1>18 DEF z, rec, PutLeaves

LEMMA PutOnceFacts ==
    ASSUME Typed, NEW s \in Sessions, NEW to \in SUBSET People, NEW m \in Messages,
           link[s] = "up", NEW quiet
    PROVE  LET out == PutOnce(s, to, m, quiet)
           IN  /\ OneEach(out.sent, s, to, m)
               /\ Cardinality(out.sent) \in Nat
               /\ out.entries = << >>
<1> DEFINE rec(p) == [session |-> s, to |-> p, msg |-> m, seq |-> seq[s] + 1]
           R == {rec(p) : p \in to}
           f == [p \in to |-> rec(p)]
<1>1. IsFiniteSet(to)
  BY QueueAssumption, FS_Subset
<1>2. PutOnce(s, to, m, quiet).sent = R /\ PutOnce(s, to, m, quiet).entries = << >>
  BY DEF PutOnce
<1>3. f \in Surjection(to, R)
  BY DEF Surjection
<1>4. IsFiniteSet(R)
  <2> HIDE DEF f, R
  <2> QED BY <1>1, <1>3, FS_Surjection
<1>5. Cardinality(R) \in Nat
  BY <1>4, FS_CardinalityType
<1>6. \A w \in R : \E p \in to : w = rec(p)
  OBVIOUS
<1>7. \A p \in to : rec(p) \in R
  OBVIOUS
<1>8. \A p \in to : rec(p).session = s /\ rec(p).msg = m /\ rec(p).to = p
  OBVIOUS
<1> HIDE DEF R, rec
<1>9. \A w \in R : w.session = s /\ w.msg = m /\ w.to \in to /\ w = rec(w.to)
  <2> SUFFICES ASSUME NEW w \in R
               PROVE  w.session = s /\ w.msg = m /\ w.to \in to /\ w = rec(w.to)
    OBVIOUS
  <2>1. PICK p \in to : w = rec(p)
    BY <1>6
  <2> QED BY <1>8, <2>1
<1>10. \A v, w \in R : v.to = w.to => v = w
  BY <1>9
<1>11. \A p \in to : \E w \in R : w.to = p
  BY <1>7, <1>8
<1> QED BY <1>2, <1>4, <1>5, <1>9, <1>10, <1>11 DEF OneEach

HowMany(R, q, p) == Cardinality({w \in R : w.msg = q /\ w.to = p})

LEMMA CountFacts ==
    ASSUME NEW R, NEW s, NEW to, NEW m, OneEach(R, s, to, m), NEW q, NEW p
    PROVE  /\ q = m /\ p \in to => HowMany(R, q, p) = 1
           /\ ~(q = m /\ p \in to) => HowMany(R, q, p) = 0
<1>1. ASSUME q = m, p \in to
      PROVE  HowMany(R, q, p) = 1
  <2>1. PICK v \in R : v.to = p
    BY <1>1 DEF OneEach
  <2>2. {w \in R : w.msg = q /\ w.to = p} = {v}
    BY <1>1, <2>1 DEF OneEach
  <2> QED BY <2>2, FS_Singleton DEF HowMany
<1>2. ASSUME ~(q = m /\ p \in to)
      PROVE  HowMany(R, q, p) = 0
  <2>1. {w \in R : w.msg = q /\ w.to = p} = {}
    BY <1>2 DEF OneEach
  <2> QED BY <2>1, FS_EmptySet DEF HowMany
<1> QED BY <1>1, <1>2

\* What a command leaves: E is what goes into the queue, R was refused.
NewEntries(E, s, to, m) ==
    /\ E \in Seq(Entries) /\ Len(E) \in Nat
    /\ \A i \in 1..Len(E) :
         /\ E[i] \in Entries
         /\ E[i].session = s /\ E[i].to = to /\ E[i].msg = m /\ ~E[i].mark
         /\ E[i].seq <= seq'[s]
         /\ E[i].seq <= 0 \/ (link[s] = "up" /\ E[i].seq > seq[s])
         /\ s \notin Answered => E[i].seq = Offline
    /\ link[s] # "up" => \A i \in 1..Len(E) : E[i].seq <= 0
    /\ \A p : to = {p} => Len(E) <= 1

NewWire(s, to, m, R) ==
    /\ seq' \in [Sessions -> Nat] /\ seq[s] <= seq'[s]
    /\ \A r \in Sessions : r # s => seq'[r] = seq[r]
    /\ wire' \subseteq OnWires
    /\ IsFiniteSet(wire') /\ wire \subseteq wire'
    /\ \A w \in wire' \ wire :
         /\ link[s] = "up" /\ s \in Answered
         /\ w.session = s /\ w.msg = m /\ w.to \in to /\ w.to \notin R
         /\ seq[s] < w.seq /\ w.seq <= seq'[s]
    /\ \A v, w \in wire' \ wire : v.seq = w.seq \/ v.to = w.to => v = w

NewSends(s, to, m, R) ==
    /\ sends' \in [Pairs -> Nat]
    /\ \A x \in Pairs :
         sends'[x] = IF link[s] = "up" /\ x[1] = m /\ x[2] \in to \ R
                     THEN sends[x] + 1 ELSE sends[x]
    /\ refused' = IF R = {} THEN refused ELSE refused \cup {m}

\* Every entry is on the wire or was refused, and everybody has an entry.
Matching(E, s, to, R) ==
    /\ \A i \in 1..Len(E) :
         \/ \E w \in wire' \ wire : w.seq = E[i].seq
         \/ E[i].seq = Unsent /\ R # {}
    /\ \A p \in to \ R : \E i \in 1..Len(E) : \E w \in wire' \ wire :
         w.seq = E[i].seq /\ w.to = p
    /\ \A p \in R : \E i \in 1..Len(E) : E[i].seq = Unsent

Delivery(E, s, to, m, quiet, R) ==
    /\ NewEntries(E, s, to, m) /\ NewWire(s, to, m, R) /\ NewSends(s, to, m, R)
    /\ link[s] = "up" /\ s \in Answered => Matching(E, s, to, R)
    /\ link[s] = "up" /\ s \notin Answered => E = << >>
    /\ link[s] # "up" /\ (s \in Answered \/ ~quiet) /\ to # {} => Len(E) >= 1
    /\ link[s] # "up" \/ s \notin Answered => R = {}

LEMMA SendsOf ==
    ASSUME Typed, NEW s \in Sessions, NEW to \in SUBSET People, NEW m \in Messages,
           NEW R \in SUBSET to,
           NEW out, Transmit(s, m, out, R), OneEach(out.sent, s, to \ R, m), link[s] = "up"
    PROVE  NewSends(s, to, m, R)
<1> DEFINE n(x) == Cardinality({w \in out.sent : <<w.msg, w.to>> = x})
<1>1. sends' = [x \in Pairs |-> sends[x] + n(x)]
      /\ refused' = IF R = {} THEN refused ELSE refused \cup {m}
  BY DEF Transmit
<1>2. ASSUME NEW x \in Pairs
      PROVE  n(x) = IF x[1] = m /\ x[2] \in to \ R THEN 1 ELSE 0
  <2>1. x = <<x[1], x[2]>>
    BY DEF Pairs
  <2>2. PICK S : S = out.sent
    OBVIOUS
  <2>a. PICK T : T = to \ R
    OBVIOUS
  <2>3. OneEach(S, s, T, m)
    BY <2>2, <2>a
  <2>4. PICK q, p : q = x[1] /\ p = x[2]
    OBVIOUS
  <2>5. /\ q = m /\ p \in T => HowMany(S, q, p) = 1
        /\ ~(q = m /\ p \in T) => HowMany(S, q, p) = 0
    BY <2>3, CountFacts
  <2>6. {w \in out.sent : <<w.msg, w.to>> = x} = {w \in S : w.msg = q /\ w.to = p}
    BY <2>1, <2>2, <2>4
  <2> QED BY <2>4, <2>5, <2>6, <2>a DEF HowMany
<1> HIDE DEF n
<1>3. \A x \in Pairs : sends[x] \in Nat
  BY DEF Typed
<1>4. \A x \in Pairs : sends'[x] = IF x[1] = m /\ x[2] \in to \ R THEN sends[x] + 1 ELSE sends[x]
  BY <1>1, <1>2, <1>3
<1>5. \A x \in Pairs : sends[x] + n(x) \in Nat
  BY <1>2, <1>3
<1>6. sends' \in [Pairs -> Nat]
  BY <1>1, <1>5
<1> QED BY <1>1, <1>4, <1>6 DEF NewSends

LEMMA DeliveredAnswered ==
    ASSUME Typed, Carried, NEW s \in Answered, NEW to \in SUBSET People, NEW m \in Messages,
           NEW quiet \in BOOLEAN, link[s] = "up", NEW R \in Refusals(s, to),
           Transmit(s, m, Command(s, to, m, quiet, R), R)
    PROVE  Delivery(Command(s, to, m, quiet, R).entries, s, to, m, quiet, R)
<1>0. s \in Sessions /\ R \in SUBSET to
  BY QueueAssumption DEF Refusals
<1>1. PICK out : out = Put(s, to, m, R)
  OBVIOUS
<1>2. Command(s, to, m, quiet, R) = out
  BY <1>1 DEF Command
<1>z. PICK z : z = SetToSeq(to)
  OBVIOUS
<1>r. PICK rec : rec = [i \in 1..Len(z) |->
                          [session |-> s, to |-> z[i], msg |-> m, seq |-> seq[s] + i]]
  OBVIOUS
<1>3. /\ OneEach(out.sent, s, to \ R, m)
      /\ Cardinality(out.sent) + Cardinality(R) = Len(z) /\ Len(z) \in Nat
      /\ Cardinality(out.sent) \in Nat /\ Cardinality(R) \in Nat
      /\ Len(z) = Cardinality(to)
      /\ out.entries = [i \in 1..Len(z) |-> out.entries[i]]
      /\ Len(out.entries) = Len(z) /\ DOMAIN out.entries = 1..Len(z)
      /\ \A i \in 1..Len(z) :
           /\ z[i] \in to
           /\ out.entries[i] = Entry(s, to, m, IF z[i] \in R THEN Unsent ELSE seq[s] + i)
      /\ \A p \in to : \E i \in 1..Len(z) : z[i] = p
      /\ \A w \in out.sent : \E i \in 1..Len(z) : z[i] \notin R /\ w = rec[i]
      /\ \A i \in 1..Len(z) : z[i] \notin R => rec[i] \in out.sent
  <2>1. link[s] = "up" /\ R \in SUBSET to
    BY <1>0
  <2>6. PutLeaves(out, z, s, to, m, R)
    BY <1>0, <1>1, <1>z, <2>1, PutFacts
  <2>2. /\ OneEach(out.sent, s, to \ R, m)
        /\ Cardinality(out.sent) + Cardinality(R) = Len(z) /\ Len(z) \in Nat
        /\ Cardinality(out.sent) \in Nat /\ Cardinality(R) \in Nat
        /\ Len(z) = Cardinality(to)
        /\ out.entries = [i \in 1..Len(z) |-> out.entries[i]]
        /\ Len(out.entries) = Len(z) /\ DOMAIN out.entries = 1..Len(z)
        /\ \A i \in 1..Len(z) :
             /\ z[i] \in to
             /\ out.entries[i] = Entry(s, to, m, IF z[i] \in R THEN Unsent ELSE seq[s] + i)
        /\ \A p \in to : \E i \in 1..Len(z) : z[i] = p
        /\ \A w \in out.sent : \E i \in 1..Len(z) :
             z[i] \notin R
             /\ w = [session |-> s, to |-> z[i], msg |-> m, seq |-> seq[s] + i]
        /\ \A i \in 1..Len(z) : z[i] \notin R =>
             [session |-> s, to |-> z[i], msg |-> m, seq |-> seq[s] + i] \in out.sent
    BY <2>6 DEF PutLeaves
  <2>3. \A i \in 1..Len(z) :
          rec[i] = [session |-> s, to |-> z[i], msg |-> m, seq |-> seq[s] + i]
    BY <1>r
  <2>4. \A w \in out.sent : \E i \in 1..Len(z) : z[i] \notin R /\ w = rec[i]
    BY <2>2, <2>3
  <2>5. \A i \in 1..Len(z) : z[i] \notin R => rec[i] \in out.sent
    BY <2>2, <2>3
  <2> QED BY <2>2, <2>4, <2>5
<1>4. PICK n \in Nat : n = Len(z)
  BY <1>3
<1>5. PICK S : S = out.sent
  OBVIOUS
<1>6. PICK E : E = out.entries
  OBVIOUS
<1>7. /\ seq' = [seq EXCEPT ![s] = @ + Cardinality(S) + Cardinality(R)]
      /\ wire' = wire \cup {w \in S : w.session \in Answered}
  BY <1>2, <1>5 DEF Transmit
<1>8. seq[s] \in Nat /\ seq \in [Sessions -> Nat]
  BY <1>0 DEF Typed
<1>b. /\ seq' \in [Sessions -> Nat] /\ seq'[s] = seq[s] + n
      /\ \A r \in Sessions : r # s => seq'[r] = seq[r]
  <2>1. seq[s] + Cardinality(S) + Cardinality(R) = seq[s] + n /\ seq[s] + n \in Nat
    BY <1>3, <1>4, <1>5, <1>8
  <2>2. seq' = [seq EXCEPT ![s] = seq[s] + n]
    BY <1>7, <2>1
  <2> QED BY <1>0, <1>8, <2>1, <2>2
<1>9. /\ IsFiniteSet(S)
      /\ \A w \in S : w.session = s /\ w.msg = m /\ w.to \in to \ R
      /\ \A p \in to \ R : \E w \in S : w.to = p
      /\ \A v, w \in S : v.to = w.to => v = w
  BY <1>3, <1>5 DEF OneEach
<1>10. wire' = wire \cup S
  BY <1>7, <1>9
<1>11. \A i \in 1..n : /\ rec[i].seq = seq[s] + i /\ rec[i].to = z[i]
                       /\ seq[s] + i \in Nat \ {0} /\ seq[s] < seq[s] + i
                       /\ seq[s] + i <= seq'[s]
                       /\ rec[i] \in [session : Answered, to : {z[i]}, msg : Messages,
                                      seq : Nat \ {0}]
  <2> SUFFICES ASSUME NEW i \in 1..n
               PROVE  /\ rec[i].seq = seq[s] + i /\ rec[i].to = z[i]
                      /\ seq[s] + i \in Nat \ {0} /\ seq[s] < seq[s] + i
                      /\ seq[s] + i <= seq'[s]
                      /\ rec[i] \in [session : Answered, to : {z[i]}, msg : Messages,
                                     seq : Nat \ {0}]
    OBVIOUS
  <2>1. seq[s] + i \in Nat \ {0} /\ seq[s] < seq[s] + i /\ seq[s] + i <= seq'[s]
    BY <1>8, <1>b
  <2>2. rec[i] = [session |-> s, to |-> z[i], msg |-> m, seq |-> seq[s] + i]
    BY <1>4, <1>r
  <2> QED BY <2>1, <2>2
<1>c. \A w \in S : \E i \in 1..n : z[i] \notin R /\ w = rec[i]
  BY <1>3, <1>4, <1>5
<1>d. \A w \in S : seq[s] < w.seq /\ w.seq <= seq'[s] /\ w \in OnWires
  <2> SUFFICES ASSUME NEW w \in S
               PROVE  seq[s] < w.seq /\ w.seq <= seq'[s] /\ w \in OnWires
    OBVIOUS
  <2>1. PICK i \in 1..n : w = rec[i]
    BY <1>c
  <2>2. z[i] \in People
    BY <1>3, <1>4
  <2> QED BY <1>11, <2>1, <2>2 DEF OnWires
<1>13. \A w \in wire : w.session = s => w.seq \in Int /\ w.seq <= seq[s]
  <2>1. \A w \in wire : w \in OnWires /\ w.seq <= seq[w.session]
    BY DEF Typed, Carried
  <2>2. \A w \in OnWires : w.seq \in Int
    BY DEF OnWires
  <2> QED BY <2>1, <2>2
<1>14. wire' \ wire = S
  <2>1. \A w \in S : w \notin wire
    BY <1>8, <1>9, <1>13, <1>d DEF OnWires
  <2> QED BY <1>10, <2>1
<1>e. \A v, w \in S : v.seq = w.seq => v = w
  <2> SUFFICES ASSUME NEW v \in S, NEW w \in S, v.seq = w.seq PROVE v = w
    OBVIOUS
  <2>1. PICK i \in 1..n : v = rec[i]
    BY <1>c
  <2>2. PICK j \in 1..n : w = rec[j]
    BY <1>c
  <2>3. seq[s] + i = seq[s] + j
    BY <1>11, <2>1, <2>2
  <2>4. i = j
    BY <1>8, <2>3
  <2> QED BY <2>1, <2>2, <2>4
<1>15. NewWire(s, to, m, R)
  <2>1. seq[s] <= seq'[s]
    BY <1>8, <1>b
  <2>2. wire' \subseteq OnWires
    BY <1>10, <1>d DEF Typed
  <2>3. IsFiniteSet(wire')
    BY <1>9, <1>10, FS_Union DEF Carried
  <2>4. \A v, w \in S : v.seq = w.seq \/ v.to = w.to => v = w
    BY <1>9, <1>e
  <2> QED BY <1>9, <1>10, <1>14, <1>b, <1>d, <2>1, <2>2, <2>3, <2>4 DEF NewWire
<1>16. NewSends(s, to, m, R)
  BY <1>0, <1>2, <1>3, SendsOf
<1>17. /\ Len(E) = n /\ DOMAIN E = 1..n
       /\ \A i \in 1..n : E[i] = Entry(s, to, m, IF z[i] \in R THEN Unsent ELSE seq[s] + i)
  BY <1>3, <1>4, <1>6
<1>18. ASSUME NEW i \in 1..n
       PROVE  /\ E[i] \in Entries
              /\ E[i].session = s /\ E[i].to = to /\ E[i].msg = m /\ ~E[i].mark
              /\ E[i].seq = IF z[i] \in R THEN Unsent ELSE seq[s] + i
              /\ E[i].seq <= seq'[s] /\ (E[i].seq <= 0 \/ E[i].seq > seq[s])
  <2>1. PICK q : q = IF z[i] \in R THEN Unsent ELSE seq[s] + i
    OBVIOUS
  <2>2. E[i] = [session |-> s, to |-> to, msg |-> m, seq |-> q, mark |-> FALSE]
    BY <1>17, <2>1 DEF Entry
  <2>3. q \in {Unsent} \cup Nat /\ q <= seq'[s] /\ (q <= 0 \/ q > seq[s])
    BY <1>8, <1>b, <2>1 DEF Unsent
  <2> QED BY <1>0, <2>1, <2>2, <2>3 DEF Entries
<1>19. E = [i \in 1..n |-> E[i]]
  BY <1>3, <1>4, <1>6
<1>20. E \in Seq(Entries) /\ Len(E) = n
  BY <1>17, <1>18, <1>19
<1>21. \A p : to = {p} => n <= 1
  <2>1. n = Cardinality(to)
    BY <1>3, <1>4
  <2> SUFFICES ASSUME NEW p, to = {p} PROVE n <= 1
    OBVIOUS
  <2>2. Cardinality({p}) = 1
    BY FS_Singleton
  <2> QED BY <2>1, <2>2
<1>22. NewEntries(E, s, to, m)
  BY <1>18, <1>20, <1>21 DEF NewEntries
<1>23. Matching(E, s, to, R)
  <2>1. ASSUME NEW i \in 1..n
        PROVE  (\E w \in S : w.seq = E[i].seq) \/ (E[i].seq = Unsent /\ R # {})
    <3>1. CASE z[i] \in R
      BY <1>18, <3>1
    <3>2. CASE z[i] \notin R
      <4>1. rec[i] \in S /\ rec[i].seq = seq[s] + i
        BY <1>3, <1>4, <1>5, <1>11, <3>2
      <4> QED BY <1>18, <3>2, <4>1
    <3> QED BY <3>1, <3>2
  <2>2. ASSUME NEW p \in to \ R
        PROVE  \E i \in 1..n : \E w \in S : w.seq = E[i].seq /\ w.to = p
    <3>1. PICK i \in 1..n : z[i] = p
      BY <1>3, <1>4
    <3>2. rec[i] \in S /\ rec[i].seq = seq[s] + i /\ rec[i].to = p
      BY <1>3, <1>4, <1>5, <1>11, <3>1
    <3>3. E[i].seq = seq[s] + i
      BY <1>18, <3>1
    <3> QED BY <3>2, <3>3
  <2>3. ASSUME NEW p \in R
        PROVE  \E i \in 1..n : E[i].seq = Unsent
    <3>1. PICK i \in 1..n : z[i] = p
      BY <1>0, <1>3, <1>4
    <3> QED BY <1>18, <3>1
  <2> QED BY <1>14, <1>20, <2>1, <2>2, <2>3 DEF Matching
<1> QED BY <1>2, <1>6, <1>15, <1>16, <1>22, <1>23 DEF Delivery

LEMMA DeliveredOnce ==
    ASSUME Typed, Carried, NEW s \in Sessions \ Answered, NEW to \in SUBSET People,
           NEW m \in Messages, NEW quiet \in BOOLEAN, link[s] = "up", NEW R \in Refusals(s, to),
           Transmit(s, m, Command(s, to, m, quiet, R), R)
    PROVE  Delivery(Command(s, to, m, quiet, R).entries, s, to, m, quiet, R)
<1>0. R = {} /\ to \ R = to
  BY DEF Refusals
<1>1. PICK out : out = PutOnce(s, to, m, quiet)
  OBVIOUS
<1>2. Command(s, to, m, quiet, R) = out
  BY <1>1 DEF Command
<1>3. OneEach(out.sent, s, to, m) /\ Cardinality(out.sent) \in Nat /\ out.entries = << >>
  BY <1>1, PutOnceFacts
<1>4. PICK n \in Nat : n = Cardinality(out.sent)
  BY <1>3
<1>5. /\ seq' = [seq EXCEPT ![s] = @ + n + 0]
      /\ wire' = wire \cup {w \in out.sent : w.session \in Answered}
  BY <1>0, <1>2, <1>4, FS_EmptySet DEF Transmit
<1>6. /\ seq' \in [Sessions -> Nat] /\ seq[s] <= seq'[s]
      /\ \A r \in Sessions : r # s => seq'[r] = seq[r]
  <2>1. seq \in [Sessions -> Nat] /\ seq[s] \in Nat /\ seq[s] + n + 0 \in Nat
        /\ seq[s] <= seq[s] + n + 0
    BY DEF Typed
  <2> QED BY <1>5, <2>1
<1>7. wire' = wire
  <2>1. \A w \in out.sent : w.session \notin Answered
    BY <1>3 DEF OneEach
  <2> QED BY <1>5, <2>1
<1>8. NewWire(s, to, m, R)
  BY <1>6, <1>7 DEF NewWire, Typed, Carried
<1>9. NewSends(s, to, m, R)
  BY <1>0, <1>2, <1>3, SendsOf
<1>10. NewEntries(<< >>, s, to, m)
  <2>1. << >> \in Seq(Entries) /\ Len(<< >>) = 0 /\ \A i : i \notin 1..0
    OBVIOUS
  <2> QED BY <2>1 DEF NewEntries
<1> QED BY <1>0, <1>2, <1>3, <1>8, <1>9, <1>10 DEF Delivery

LEMMA DeliveredDown ==
    ASSUME Typed, Carried, NEW s \in Sessions, NEW to \in SUBSET People,
           NEW m \in Messages, NEW quiet \in BOOLEAN, link[s] # "up", NEW R \in Refusals(s, to),
           Transmit(s, m, Command(s, to, m, quiet, R), R)
    PROVE  Delivery(Command(s, to, m, quiet, R).entries, s, to, m, quiet, R)
<1>0. R = {}
  BY DEF Refusals
<1>1. PICK out : out = Command(s, to, m, quiet, R)
  OBVIOUS
<1>2. out.sent = {}
  BY <1>1 DEF Command, Put, PutOnce
<1>3. PICK E : E = out.entries
  OBVIOUS
<1>4. /\ seq' = [seq EXCEPT ![s] = @ + 0 + 0] /\ wire' = wire /\ refused' = refused
      /\ sends' = [x \in Pairs |-> sends[x] + Cardinality({w \in {} : <<w.msg, w.to>> = x})]
  BY <1>0, <1>1, <1>2, FS_EmptySet DEF Transmit
<1>5. /\ seq \in [Sessions -> Nat] /\ seq[s] \in Nat /\ seq[s] + 0 + 0 = seq[s]
      /\ \A x \in Pairs : sends[x] \in Nat
  BY DEF Typed
<1>6. seq' = seq
  BY <1>4, <1>5
<1>7. NewWire(s, to, m, R)
  BY <1>4, <1>5, <1>6 DEF NewWire, Typed, Carried
<1>8. NewSends(s, to, m, R)
  <2>1. \A x \in Pairs : Cardinality({w \in {} : <<w.msg, w.to>> = x}) = 0
    <3>1. \A x : {w \in {} : <<w.msg, w.to>> = x} = {}
      OBVIOUS
    <3> QED BY <3>1, FS_EmptySet
  <2>2. sends' = [x \in Pairs |-> sends[x]]
    <3>1. \A x \in Pairs : sends[x] + Cardinality({w \in {} : <<w.msg, w.to>> = x}) = sends[x]
      BY <1>5, <2>1
    <3> QED BY <1>4, <3>1
  <2> QED BY <1>0, <1>4, <1>5, <2>2 DEF NewSends
<1>9. PICK n \in Nat, q \in {Offline, Unsent} :
        /\ E = [i \in 1..n |-> Entry(s, to, m, q)]
        /\ \A p : to = {p} => n <= 1
        /\ (s \in Answered \/ ~quiet) /\ to # {} => n >= 1
        /\ s \notin Answered => q = Offline
  <2>1. CASE s \in Answered
    <3>1. IsFiniteSet(to)
      BY QueueAssumption, FS_Subset
    <3>2. PICK z : z = SetToSeq(to)
      OBVIOUS
    <3>3. Cardinality(to) \in Nat /\ Len(z) = Cardinality(to)
      BY <3>1, <3>2, SetToSeqFacts
    <3>4. link[s] \in {"down", "connecting"}
      BY DEF Typed
    <3>5. \E q \in {Offline, Unsent} : E = [i \in 1..Len(z) |-> Entry(s, to, m, q)]
      BY <1>1, <1>3, <2>1, <3>2, <3>4 DEF Command, Put
    <3>6. ASSUME NEW p, to = {p}
          PROVE  Len(z) <= 1
      <4>1. Cardinality({p}) = 1
        BY FS_Singleton
      <4> QED BY <3>3, <3>6, <4>1
    <3>7. to # {} => Len(z) >= 1
      <4>1. to # {} => Cardinality(to) # 0
        BY <3>1, FS_EmptySet
      <4> QED BY <3>3, <4>1
    <3> QED BY <2>1, <3>3, <3>5, <3>6, <3>7
  <2>2. CASE s \notin Answered /\ quiet
    <3>1. E = << >>
      BY <1>1, <1>3, <2>2 DEF Command, PutOnce
    <3>2. E = [i \in 1..0 |-> Entry(s, to, m, Offline)]
      BY <3>1
    <3> QED BY <2>2, <3>2
  <2>3. CASE s \notin Answered /\ ~quiet
    <3>1. E = <<Entry(s, to, m, Offline)>>
      BY <1>1, <1>3, <2>3 DEF Command, PutOnce
    <3>2. E = [i \in 1..1 |-> Entry(s, to, m, Offline)]
      BY <3>1
    <3> QED BY <2>3, <3>2
  <2> QED BY <2>1, <2>2, <2>3
<1>10. Entry(s, to, m, q) \in Entries
  <2>1. q \in {Unsent} \cup Nat
    BY DEF Offline
  <2> QED BY <2>1 DEF Entry, Entries
<1>11. E \in Seq(Entries) /\ Len(E) = n /\ \A i \in 1..n : E[i] = Entry(s, to, m, q)
  BY <1>9, <1>10
<1>12. /\ Entry(s, to, m, q).session = s /\ Entry(s, to, m, q).to = to
       /\ Entry(s, to, m, q).msg = m /\ ~Entry(s, to, m, q).mark
       /\ Entry(s, to, m, q).seq = q /\ q <= 0 /\ q <= seq'[s]
  BY <1>5, <1>6 DEF Entry, Offline, Unsent
<1>13. NewEntries(E, s, to, m)
  BY <1>9, <1>10, <1>11, <1>12 DEF NewEntries
<1> QED BY <1>0, <1>1, <1>3, <1>7, <1>8, <1>9, <1>11, <1>13 DEF Delivery

LEMMA Delivered ==
    ASSUME Typed, Carried, NEW s \in Sessions, NEW to \in SUBSET People, NEW m \in Messages,
           NEW quiet \in BOOLEAN, NEW R \in Refusals(s, to),
           Transmit(s, m, Command(s, to, m, quiet, R), R)
    PROVE  Delivery(Command(s, to, m, quiet, R).entries, s, to, m, quiet, R)
  BY DeliveredAnswered, DeliveredOnce, DeliveredDown

-----------------------------------------------------------------------------
(* What a step leaves alone.                                               *)

LEMMA QueueFacts ==
    ASSUME Typed
    PROVE  /\ Len(queue) \in Nat
           /\ \A i \in 1..Len(queue) :
                /\ queue[i] \in Entries /\ queue[i].session \in Sessions
                /\ queue[i].to \in SUBSET People /\ queue[i].msg \in Messages
                /\ queue[i].msg \in Nat /\ queue[i].seq \in Int
           /\ Len(given) \in Nat
           /\ \A m \in 1..Len(given) :
                given[m].session \in Sessions /\ given[m].to \in SUBSET People
           /\ \A m \in 1..Len(given) : m \in Messages
           /\ \A w \in wire : /\ w.session \in Sessions /\ w.session \in Answered
                              /\ w.msg \in Messages /\ w.msg \in Nat
                              /\ w.to \in People /\ w.seq \in Int /\ w.seq >= 1
           /\ \A s \in Sessions : seq[s] \in Int
           /\ \A f \in disk : f.entry \in Entries
<1>1. Len(queue) \in Nat /\ \A i \in 1..Len(queue) : queue[i] \in Entries
  BY DEF Typed
<1>2. \A e \in Entries : /\ e.session \in Sessions /\ e.to \in SUBSET People
                         /\ e.msg \in Messages /\ e.msg \in Nat /\ e.seq \in Int
  BY QueueAssumption DEF Entries, Messages, Unsent
<1>3. Len(given) \in Nat /\ Len(given) <= MaxMessages /\ MaxMessages \in Nat
      /\ \A m \in 1..Len(given) :
           given[m].session \in Sessions /\ given[m].to \in SUBSET People
  <2>1. given \in Seq([session : Sessions, to : SUBSET People]) /\ Len(given) <= MaxMessages
    BY DEF Typed
  <2>2. PICK C : C = [session : Sessions, to : SUBSET People]
    OBVIOUS
  <2>3. given \in Seq(C)
    BY <2>1, <2>2
  <2>4. \A m \in 1..Len(given) : given[m] \in C
    BY <2>3
  <2>5. \A c \in C : c.session \in Sessions /\ c.to \in SUBSET People
    BY <2>2
  <2> QED BY <2>1, <2>3, <2>4, <2>5, QueueAssumption
<1>4. \A m \in 1..Len(given) : m \in Messages
  BY <1>3 DEF Messages
<1>5. \A w \in wire : w \in [session : Answered, to : People, msg : Messages, seq : Nat \ {0}]
  BY DEF Typed, OnWires
<1>6. \A w \in wire : /\ w.session \in Sessions /\ w.session \in Answered
                      /\ w.msg \in Messages /\ w.msg \in Nat
                      /\ w.to \in People /\ w.seq \in Int /\ w.seq >= 1
  BY <1>5, QueueAssumption DEF Messages
<1>7. (\A s \in Sessions : seq[s] \in Int) /\ \A f \in disk : f.entry \in Entries
  BY DEF Typed
<1> QED BY <1>1, <1>2, <1>3, <1>4, <1>6, <1>7

\* Nothing but connections and the walk changes, and no entry comes ahead that
\* was not.
LEMMA StillStep ==
    ASSUME IInv,
           UNCHANGED <<given, queue, disk, wire, sends, settled, mistaken, refused, restored>>,
           \A i \in 1..Len(queue) : Ahead(i)' <=> Ahead(i)
    PROVE  Known' /\ AllCared' /\ AtOnce' /\ InOrder' /\ NotPassed' /\ (OneAnswers => mistaken' = {})
<1>1. Known'
  BY DEF IInv, Known, Stands, Says
<1>2. AllCared'
  <2> SUFFICES ASSUME NEW m \in 1..Len(given), NEW p \in given[m].to
               PROVE  Cared(m, p)'
    BY DEF AllCared
  <2>1. \A i \in 1..Len(queue) : Brings(i, m, p) => Brings(i, m, p)'
    BY DEF Brings, Holds, Answers
  <2>2. \A f \in disk : Holds(f.entry, m, p) => Holds(f.entry, m, p)'
    BY DEF Holds
  <2>3. Cared(m, p)
    BY DEF IInv, AllCared
  <2> QED BY <2>1, <2>2, <2>3 DEF Cared
<1>3. AtOnce' /\ InOrder' /\ NotPassed'
  BY DEF IInv, AtOnce, InOrder, NotPassed, NotSent, Plain
<1> QED BY <1>1, <1>2, <1>3 DEF IInv

LEMMA StillSingle ==
    ASSUME Single, UNCHANGED <<given, queue, disk, wire, sends, breaks>>,
           walk'.at = "flush" => walk.at = "flush" /\ walk'.session = walk.session,
           walk'.at = "read" => walk.at = "read" \/ queue = << >>
    PROVE  Single'
<1>1. \A m : HasEntry(m)' <=> HasEntry(m)
  BY DEF HasEntry
<1>2. \A m : HasWire(m)' <=> HasWire(m)
  BY DEF HasWire
<1>3. walk'.at = "flush" =>
        \A i \in 1..Len(queue') : Flushable(queue[i])' => ~HasWire(queue[i].msg)'
  BY <1>2 DEF Single, Flushable
<1>4. walk'.at = "read" => \A f \in disk', i \in 1..Len(queue') : f.entry.msg # queue'[i].msg
  BY DEF Single
<1>5. \A x \in Pairs :
        /\ sends'[x] <= 1 + breaks'[x]
        /\ HasEntry(x[1])' => IF HasWire(x[1])' THEN sends'[x] <= 1 + breaks'[x]
                              ELSE sends'[x] <= breaks'[x]
  BY <1>1, <1>2 DEF Single
<1>6. \A i \in 1..Len(queue') : HasWire(queue[i].msg)' => OnWire(queue[i])'
  BY <1>2 DEF Single, OnWire, HasWire
<1> QED BY <1>3, <1>4, <1>5, <1>6 DEF Single

-----------------------------------------------------------------------------
(* The steps that move no message.                                         *)

LEMMA ConnectStep ==
    ASSUME IInv, NEW s \in Sessions, Connect(s)
    PROVE  IInv'
<1>1. /\ walk = Idle /\ link[s] = "down" /\ link' = [link EXCEPT ![s] = "connecting"]
      /\ seq' = [seq EXCEPT ![s] = 0]
      /\ UNCHANGED <<given, queue, disk, wire, walk, sends, breaks, settled, mistaken, refused,
                     restored>>
  BY DEF Connect
<1>2. \A r \in Sessions : link'[r] = "up" => link[r] = "up" /\ r # s /\ seq'[r] = seq[r]
  BY <1>1 DEF IInv, Typed
<1>3. \A r \in Sessions : link[r] = "up" => link'[r] = "up" /\ seq'[r] = seq[r]
  BY <1>1 DEF IInv, Typed
<1>4. Typed'
  <2>1. seq' \in [Sessions -> Nat] /\ link' \in [Sessions -> {"down", "connecting", "up"}]
    BY <1>1 DEF IInv, Typed
  <2> QED BY <1>1, <2>1 DEF IInv, Typed
<1>5. Carried'
  BY <1>1, <1>3, QueueFacts DEF IInv, Carried, Says
<1>6. Phase'
  BY <1>1 DEF IInv, Phase, Idle
<1>7. \A i \in 1..Len(queue) : ~Ahead(i) /\ ~Ahead(i)'
  BY <1>1 DEF Ahead, Idle
<1>8. Attended' /\ Numbered'
  BY <1>1, <1>2, <1>7, QueueFacts DEF IInv, Attended, Numbered, OnWire, Refused, Answers
<1>9. Alone => Single'
  BY <1>1, StillSingle DEF IInv, Idle
<1> QED BY <1>1, <1>4, <1>5, <1>6, <1>7, <1>8, <1>9, StillStep DEF IInv

\* Steps of the walk alone.
LEMMA WalkStep ==
    ASSUME IInv, UNCHANGED <<given, queue, disk, link, wire, seq, sends, breaks, settled, mistaken,
                             refused, restored>>,
           \A i \in 1..Len(queue) : Ahead(i)' <=> Ahead(i),
           walk' \in [at : {"idle", "flush", "read", "write", "off"},
                      session : Sessions \cup {"none"}, i : Nat],
           Phase',
           walk'.at = "flush" => walk.at = "flush" /\ walk'.session = walk.session,
           walk'.at = "read" => walk.at = "read" \/ queue = << >>
    PROVE  IInv'
<1>1. Typed' /\ Carried'
  BY DEF IInv, Typed, Carried, Says
<1>2. Attended' /\ Numbered'
  BY DEF IInv, Attended, Numbered, OnWire, Refused, Answers
<1>3. Alone => Single'
  BY StillSingle DEF IInv
<1> QED BY <1>1, <1>2, <1>3, StillStep DEF IInv

LEMMA FlushPassStep ==
    ASSUME IInv, FlushPass
    PROVE  IInv'
<1>1. /\ walk.at = "flush" /\ walk.i <= Len(queue) /\ ~Flushable(queue[walk.i])
      /\ walk' = [walk EXCEPT !.i = @ + 1]
      /\ UNCHANGED <<given, queue, disk, link, wire, seq, sends, breaks, settled, mistaken,
                     refused, restored>>
  BY DEF FlushPass
<1>2. /\ walk'.at = walk.at /\ walk'.session = walk.session /\ walk'.i = walk.i + 1
      /\ walk.i \in Nat /\ walk.i \in 1..Len(queue) /\ Len(queue) \in Nat
  BY <1>1, QueueFacts DEF IInv, Typed, Phase
<1>3. walk' \in [at : {"idle", "flush", "read", "write", "off"},
                 session : Sessions \cup {"none"}, i : Nat]
  <2>1. walk \in [at : {"idle", "flush", "read", "write", "off"},
                  session : Sessions \cup {"none"}, i : Nat]
    BY DEF IInv, Typed
  <2>2. walk.i + 1 \in Nat
    BY <1>2
  <2> QED BY <1>1, <2>1, <2>2
<1>4. Phase'
  <2>1. walk'.i \in 1..Len(queue) + 1
    BY <1>2
  <2> QED BY <1>1, <1>2, <2>1 DEF IInv, Phase
<1>5. ASSUME NEW i \in 1..Len(queue)
      PROVE  Ahead(i)' <=> Ahead(i)
  <2>1. Ahead(i) => i # walk.i
    BY <1>1 DEF Ahead, Flushable
  <2> QED BY <1>1, <1>2, <2>1 DEF Ahead
<1> QED BY <1>1, <1>2, <1>3, <1>4, <1>5, WalkStep

LEMMA FlushEndStep ==
    ASSUME IInv, FlushEnd
    PROVE  IInv'
<1>1. /\ walk.at = "flush" /\ walk.i > Len(queue) /\ walk' = Idle
      /\ UNCHANGED <<given, queue, disk, link, wire, seq, sends, breaks, settled, mistaken,
                     refused, restored>>
  BY DEF FlushEnd
<1>2. walk.i \in Nat /\ Len(queue) \in Nat
  BY QueueFacts DEF IInv, Typed
<1>3. walk' \in [at : {"idle", "flush", "read", "write", "off"},
                 session : Sessions \cup {"none"}, i : Nat]
  BY <1>1 DEF Idle
<1>4. Phase'
  BY <1>1 DEF IInv, Phase, Idle
<1>5. \A i \in 1..Len(queue) : ~Ahead(i) /\ ~Ahead(i)'
  BY <1>1, <1>2 DEF Ahead, Idle
<1> QED BY <1>1, <1>3, <1>4, <1>5, WalkStep DEF Idle

LEMMA ExitStep ==
    ASSUME IInv, Exit
    PROVE  IInv'
<1>1. /\ walk = Idle /\ walk' = [at |-> "write", session |-> "none", i |-> 1]
      /\ UNCHANGED <<given, queue, disk, link, wire, seq, sends, breaks, settled, mistaken,
                     refused, restored>>
  BY DEF Exit
<1>2. walk' \in [at : {"idle", "flush", "read", "write", "off"},
                 session : Sessions \cup {"none"}, i : Nat]
  BY <1>1
<1>3. Phase'
  <2>1. disk = {} /\ 1 \in 1..Len(queue) + 1
    BY <1>1, QueueFacts DEF IInv, Phase, Idle
  <2>2. disk' = {[name |-> k - 1, entry |-> [queue'[k] EXCEPT !.mark = FALSE]] :
                    k \in 1..walk'.i - 1}
    <3>1. walk'.i - 1 = 0 /\ \A k : k \notin 1..0
      BY <1>1
    <3> QED BY <1>1, <2>1, <3>1
  <2> QED BY <1>1, <2>1, <2>2 DEF Phase
<1>4. \A i \in 1..Len(queue) : ~Ahead(i) /\ ~Ahead(i)'
  BY <1>1 DEF Ahead, Idle
<1> QED BY <1>1, <1>2, <1>3, <1>4, WalkStep

LEMMA StartStep ==
    ASSUME IInv, Start
    PROVE  IInv'
<1>1. /\ walk.at = "off" /\ walk' = [at |-> "read", session |-> "none", i |-> 0]
      /\ UNCHANGED <<given, queue, disk, link, wire, seq, sends, breaks, settled, mistaken,
                     refused, restored>>
  BY DEF Start
<1>2. queue = << >>
  BY <1>1 DEF IInv, Phase
<1>3. walk' \in [at : {"idle", "flush", "read", "write", "off"},
                 session : Sessions \cup {"none"}, i : Nat]
  BY <1>1
<1>4. Phase'
  BY <1>1 DEF IInv, Phase
<1>5. \A i \in 1..Len(queue) : ~Ahead(i) /\ ~Ahead(i)'
  BY <1>1 DEF Ahead
<1> QED BY <1>1, <1>2, <1>3, <1>4, <1>5, WalkStep

LEMMA ReadEndStep ==
    ASSUME IInv, ReadEnd
    PROVE  IInv'
<1>1. /\ walk.at = "read" /\ disk = {} /\ walk' = Idle
      /\ UNCHANGED <<given, queue, disk, link, wire, seq, sends, breaks, settled, mistaken,
                     refused, restored>>
  BY DEF ReadEnd
<1>2. walk' \in [at : {"idle", "flush", "read", "write", "off"},
                 session : Sessions \cup {"none"}, i : Nat]
  BY <1>1 DEF Idle
<1>3. Phase'
  BY <1>1 DEF IInv, Phase, Idle
<1>4. \A i \in 1..Len(queue) : ~Ahead(i) /\ ~Ahead(i)'
  BY <1>1 DEF Ahead, Idle
<1> QED BY <1>1, <1>2, <1>3, <1>4, WalkStep DEF Idle

LEMMA UpStep ==
    ASSUME IInv, NEW s \in Sessions, Up(s)
    PROVE  IInv'
<1>1. /\ walk = Idle /\ link[s] = "connecting" /\ link' = [link EXCEPT ![s] = "up"]
      /\ queue' = Marked
      /\ walk' = IF queue = << >> THEN Idle ELSE [at |-> "flush", session |-> s, i |-> 1]
      /\ UNCHANGED <<given, disk, wire, seq, sends, breaks, settled, mistaken, refused, restored>>
  BY DEF Up
<1>2. Typed /\ Len(queue) \in Nat
  BY QueueFacts DEF IInv
<1>3. ASSUME NEW i \in 1..Len(queue)
      PROVE  /\ [queue[i] EXCEPT !.mark = TRUE] \in Entries
             /\ LET e == [queue[i] EXCEPT !.mark = TRUE]
                IN  /\ e.session = queue[i].session /\ e.to = queue[i].to
                    /\ e.msg = queue[i].msg /\ e.seq = queue[i].seq /\ e.mark
  <2>1. queue[i] \in Entries
    BY <1>2, QueueFacts
  <2> QED BY <2>1 DEF Entries
<1>4. queue' \in Seq(Entries) /\ Len(queue') = Len(queue)
  BY <1>1, <1>2, <1>3 DEF Marked
<1>5. \A i \in 1..Len(queue) :
        /\ queue'[i].session = queue[i].session /\ queue'[i].to = queue[i].to
        /\ queue'[i].msg = queue[i].msg /\ queue'[i].seq = queue[i].seq /\ queue'[i].mark
  BY <1>1, <1>3 DEF Marked
<1>6. \A r \in Sessions : link'[r] = "up" <=> link[r] = "up" \/ r = s
  BY <1>1, <1>2 DEF Typed
<1>7. \A w \in wire : w.session # s
  BY <1>1 DEF IInv, Carried
<1>8. Typed'
  <2>1. link' \in [Sessions -> {"down", "connecting", "up"}]
    BY <1>1, <1>2 DEF Typed
  <2>2. walk' \in [at : {"idle", "flush", "read", "write", "off"},
                   session : Sessions \cup {"none"}, i : Nat]
    BY <1>1 DEF Idle
  <2> QED BY <1>1, <1>2, <1>4, <2>1, <2>2 DEF Typed
<1>9. Carried'
  BY <1>1, <1>2, <1>6, QueueFacts DEF IInv, Carried, Says
<1>10. Known'
  <2>1. \A i \in 1..Len(queue') : Stands(queue[i])'
    <3> SUFFICES ASSUME NEW i \in 1..Len(queue)
                 PROVE  Stands(queue[i])'
      BY <1>4
    <3>1. Stands(queue[i])
      BY DEF IInv, Known
    <3> QED BY <1>1, <1>5, <3>1 DEF Stands, Says
  <2>2. \A f \in disk' : Stands(f.entry)'
    BY <1>1 DEF IInv, Known, Stands, Says
  <2> QED BY <1>1, <2>1, <2>2 DEF IInv, Known
<1>11. Phase'
  <2>1. disk = {}
    BY <1>1 DEF IInv, Phase, Idle
  <2>2. link'[s] = "up" /\ (queue # << >> => 1 \in 1..Len(queue') + 1)
    BY <1>2, <1>4, <1>6
  <2> QED BY <1>1, <2>1, <2>2 DEF Phase, Idle
<1>12. AllCared'
  <2> SUFFICES ASSUME NEW m \in 1..Len(given), NEW p \in given[m].to
               PROVE  Cared(m, p)'
    BY <1>1 DEF AllCared
  <2>1. Cared(m, p)
    BY DEF IInv, AllCared
  <2>2. \A i \in 1..Len(queue) : Brings(i, m, p) => Brings(i, m, p)'
    BY <1>1, <1>5 DEF Brings, Holds, Answers, Ahead, Idle
  <2>3. \A f \in disk : Holds(f.entry, m, p) => Holds(f.entry, m, p)'
    BY <1>1 DEF Holds
  <2> QED BY <1>1, <1>4, <2>1, <2>2, <2>3 DEF Cared
<1>13. Attended'
  <2> SUFFICES ASSUME NEW i \in 1..Len(queue), link'[queue'[i].session] = "up"
               PROVE  OnWire(queue[i])' \/ Ahead(i)' \/ Refused(queue[i])'
    BY <1>4 DEF Attended
  <2>0. queue[i].session \in Sessions
    BY <1>2, QueueFacts
  <2>1. CASE queue[i].session = s
    <3>1. queue # << >> /\ 1 <= i
      BY <1>2
    <3> QED BY <1>1, <1>5, <2>1, <3>1 DEF Ahead
  <2>2. CASE queue[i].session # s
    <3>1. link[queue[i].session] = "up"
      BY <1>5, <1>6, <2>0, <2>2
    <3>2. OnWire(queue[i]) \/ Refused(queue[i])
      BY <1>1, <3>1 DEF IInv, Attended, Ahead, Idle
    <3> QED BY <1>1, <1>5, <3>2 DEF OnWire, Refused
  <2> QED BY <2>1, <2>2
<1>18. Numbered'
  <2> SUFFICES ASSUME NEW i \in 1..Len(queue), link'[queue'[i].session] = "up", ~Ahead(i)'
               PROVE  /\ queue'[i].seq <= seq'[queue'[i].session]
                      /\ \A w \in wire' : Answers(w, queue'[i]) => w.msg = queue'[i].msg
    BY <1>4 DEF Numbered, Answers
  <2>0. queue[i].session \in Sessions
    BY <1>2, QueueFacts
  <2>1. queue[i].session # s
    <3>1. queue # << >> /\ 1 <= i
      BY <1>2
    <3> QED BY <1>1, <1>5, <3>1 DEF Ahead
  <2>2. link[queue[i].session] = "up" /\ ~Ahead(i)
    BY <1>1, <1>5, <1>6, <2>0, <2>1 DEF Ahead, Idle
  <2>3. /\ queue[i].seq <= seq[queue[i].session]
        /\ \A w \in wire : Answers(w, queue[i]) => w.msg = queue[i].msg
    BY <2>2 DEF IInv, Numbered
  <2> QED BY <1>1, <1>5, <2>3 DEF Answers
<1>14. AtOnce'
  BY <1>1 DEF IInv, AtOnce, NotSent
<1>15. InOrder'
  BY <1>1, <1>4, <1>5 DEF IInv, InOrder, NotSent, Plain
<1>16. NotPassed'
  BY <1>1, <1>4, <1>5 DEF IInv, NotPassed, NotSent, Plain
<1>17. ASSUME Single
       PROVE  Single'
  <2>1. \A m : HasEntry(m)' <=> HasEntry(m)
    BY <1>1, <1>4, <1>5 DEF HasEntry
  <2>2. \A m : HasWire(m)' <=> HasWire(m)
    BY <1>1 DEF HasWire
  <2>3. \A i, j \in 1..Len(queue') : queue'[i].msg = queue'[j].msg => i = j
    BY <1>4, <1>5, <1>17 DEF Single
  <2>4. ASSUME NEW i \in 1..Len(queue), walk'.at = "flush", Flushable(queue[i])'
        PROVE  ~HasWire(queue[i].msg)'
    <3>1. queue'[i].session = s
      BY <1>1, <2>4 DEF Flushable, Idle
    <3>2. given[queue[i].msg].session = s
      BY <1>5, <3>1 DEF IInv, Known, Stands, Says
    <3>3. \A w \in wire : w.msg # queue[i].msg
      BY <1>7, <3>2 DEF IInv, Carried, Says
    <3> QED BY <1>1, <1>5, <3>3 DEF HasWire
  <2>5. walk'.at # "read"
    BY <1>1 DEF Idle
  <2>6. \A x \in Pairs :
          /\ sends'[x] <= 1 + breaks'[x]
          /\ HasEntry(x[1])' => IF HasWire(x[1])' THEN sends'[x] <= 1 + breaks'[x]
                                ELSE sends'[x] <= breaks'[x]
    BY <1>1, <1>17, <2>1, <2>2 DEF Single
  <2>7. \A i \in 1..Len(queue') : HasWire(queue[i].msg)' => OnWire(queue[i])'
    BY <1>1, <1>4, <1>5, <1>17 DEF Single, HasWire, OnWire
  <2> QED BY <1>1, <1>4, <1>17, <2>3, <2>4, <2>5, <2>6, <2>7 DEF Single
<1> QED BY <1>1, <1>8, <1>9, <1>10, <1>11, <1>12, <1>13, <1>14, <1>15, <1>16, <1>17, <1>18 DEF IInv

-----------------------------------------------------------------------------
(* The steps that break connections.                                       *)

LEMMA BrokenFacts ==
    ASSUME Typed, Carried, NEW S, Broken(S)
    PROVE  /\ wire' = {w \in wire : w.session \notin S}
           /\ breaks' \in [Pairs -> Nat]
           /\ \A x \in Pairs : breaks'[x] >= breaks[x]
           /\ \A w \in wire : w.session \in S => breaks'[<<w.msg, w.to>>] >= 1 + breaks[<<w.msg, w.to>>]
<1> DEFINE taken(x) == {w \in wire : w.session \in S /\ <<w.msg, w.to>> = x}
           n(x) == Cardinality(taken(x))
<1>1. breaks' = [x \in Pairs |-> breaks[x] + n(x)] /\ wire' = {w \in wire : w.session \notin S}
  BY DEF Broken
<1>2. \A x : taken(x) \in SUBSET wire
  OBVIOUS
<1>3. \A x, w : w \in taken(x) <=> w \in wire /\ w.session \in S /\ <<w.msg, w.to>> = x
  OBVIOUS
<1> HIDE DEF taken
<1>4. \A x : IsFiniteSet(taken(x)) /\ n(x) \in Nat
  BY <1>2, FS_Subset, FS_CardinalityType DEF Carried
<1>5. \A x : taken(x) # {} => n(x) # 0
  BY <1>4, FS_EmptySet
<1> HIDE DEF n
<1>6. \A x \in Pairs : breaks[x] \in Nat /\ breaks[x] + n(x) \in Nat
  BY <1>4 DEF Typed
<1>7. ASSUME NEW w \in wire, w.session \in S
      PROVE  breaks'[<<w.msg, w.to>>] >= 1 + breaks[<<w.msg, w.to>>]
  <2>1. PICK x : x = <<w.msg, w.to>>
    OBVIOUS
  <2>2. x \in Pairs
    BY <2>1, QueueFacts DEF Pairs
  <2>3. n(x) # 0 /\ n(x) \in Nat
    BY <1>3, <1>4, <1>5, <1>7, <2>1
  <2> QED BY <1>1, <1>6, <2>1, <2>2, <2>3
<1>8. \A x \in Pairs : breaks'[x] >= breaks[x]
  BY <1>1, <1>4, <1>6
<1> QED BY <1>1, <1>6, <1>7, <1>8

LEMMA BrokenSingle ==
    ASSUME Typed, Carried, Known, Single, NEW S, Broken(S), UNCHANGED <<given, sends>>
    PROVE  \A x \in Pairs :
             /\ sends'[x] <= 1 + breaks'[x]
             /\ HasEntry(x[1]) => IF HasWire(x[1])' THEN sends'[x] <= 1 + breaks'[x]
                                  ELSE sends'[x] <= breaks'[x]
<1> SUFFICES ASSUME NEW x \in Pairs
             PROVE  /\ sends'[x] <= 1 + breaks'[x]
                    /\ HasEntry(x[1]) => IF HasWire(x[1])' THEN sends'[x] <= 1 + breaks'[x]
                                         ELSE sends'[x] <= breaks'[x]
  OBVIOUS
<1>1. /\ breaks'[x] \in Nat /\ breaks[x] \in Nat /\ sends[x] \in Nat /\ sends'[x] = sends[x]
      /\ breaks'[x] >= breaks[x]
  BY BrokenFacts DEF Typed
<1>2. /\ sends[x] <= 1 + breaks[x]
      /\ HasEntry(x[1]) => IF HasWire(x[1]) THEN sends[x] <= 1 + breaks[x]
                           ELSE sends[x] <= breaks[x]
  BY DEF Single
<1>3. ASSUME HasWire(x[1]), ~HasWire(x[1])'
      PROVE  sends[x] <= breaks'[x]
  <2>1. PICK w \in wire : w.msg = x[1]
    BY <1>3 DEF HasWire
  <2>2. w \notin wire'
    BY <1>3, <2>1 DEF HasWire
  <2>3. w.session \in S
    BY <2>2, BrokenFacts
  <2>4. w.msg \in 1..Len(given) /\ w.to \in given[w.msg].to
    BY DEF Carried, Says
  <2>a. x = <<x[1], x[2]>>
    BY DEF Pairs
  <2>5. CASE x[2] = w.to
    <3>1. x = <<w.msg, w.to>>
      BY <2>1, <2>5, <2>a
    <3>2. breaks'[x] >= 1 + breaks[x]
      BY <2>3, <3>1, BrokenFacts
    <3> QED BY <1>1, <1>2, <3>2
  <2>6. CASE x[2] # w.to
    <3>1. PICK p : given[x[1]].to = {p}
      BY <2>1, <2>4 DEF Single
    <3>2. x[2] \notin given[x[1]].to
      BY <2>1, <2>4, <2>6, <3>1
    <3>3. sends[x] = 0
      BY <3>2 DEF Known
    <3> QED BY <1>1, <3>3
  <2> QED BY <2>5, <2>6
<1>4. sends'[x] <= 1 + breaks'[x]
  BY <1>1, <1>2
<1>5. ~HasWire(x[1]) /\ HasEntry(x[1]) => sends[x] <= breaks'[x]
  BY <1>1, <1>2
<1> QED BY <1>1, <1>3, <1>4, <1>5

LEMMA DownStep ==
    ASSUME IInv, NEW s \in Sessions, Down(s)
    PROVE  IInv'
<1>1. /\ walk = Idle /\ link[s] # "down" /\ link' = [link EXCEPT ![s] = "down"]
      /\ Broken({s})
      /\ UNCHANGED <<given, queue, disk, walk, seq, sends, settled, mistaken, refused, restored>>
  BY DEF Down
<1>2. Typed /\ Carried /\ Known
  BY DEF IInv
<1>3. wire' = {w \in wire : w.session # s} /\ breaks' \in [Pairs -> Nat]
  BY <1>1, <1>2, BrokenFacts
<1>4. \A r \in Sessions : link'[r] = "up" <=> link[r] = "up" /\ r # s
  BY <1>1, <1>2 DEF Typed
<1>5. Typed'
  <2>1. link' \in [Sessions -> {"down", "connecting", "up"}]
    BY <1>1, <1>2 DEF Typed
  <2>2. wire' \subseteq OnWires
    BY <1>2, <1>3 DEF Typed
  <2> QED BY <1>1, <1>2, <1>3, <2>1, <2>2 DEF Typed
<1>6. Carried'
  <2>1. IsFiniteSet(wire')
    BY <1>2, <1>3, FS_Subset DEF Carried
  <2>2. \A w \in wire' : w \in wire /\ w.session \in Sessions /\ w.session # s
    BY <1>2, <1>3, QueueFacts
  <2> QED BY <1>1, <1>2, <1>4, <2>1, <2>2 DEF Carried, Says
<1>7. Known'
  BY <1>1, <1>2, <1>3 DEF Known, Stands, Says
<1>8. Phase'
  BY <1>1 DEF IInv, Phase, Idle
<1>9. AllCared'
  <2> SUFFICES ASSUME NEW m \in 1..Len(given), NEW p \in given[m].to
               PROVE  Cared(m, p)'
    BY <1>1 DEF AllCared
  <2>1. Cared(m, p)
    BY DEF IInv, AllCared
  <2>2. \A i \in 1..Len(queue) : Brings(i, m, p) => Brings(i, m, p)'
    BY <1>1, <1>3 DEF Brings, Holds, Answers, Ahead, Idle
  <2>3. \A f \in disk : Holds(f.entry, m, p) => Holds(f.entry, m, p)'
    BY <1>1 DEF Holds
  <2> QED BY <1>1, <2>1, <2>2, <2>3 DEF Cared
<1>10. Attended'
  <2> SUFFICES ASSUME NEW i \in 1..Len(queue), link'[queue[i].session] = "up"
               PROVE  OnWire(queue[i])' \/ Refused(queue[i])'
    BY <1>1 DEF Attended
  <2>1. queue[i].session \in Sessions
    BY <1>2, QueueFacts
  <2>2. link[queue[i].session] = "up" /\ queue[i].session # s
    BY <1>4, <2>1
  <2>3. OnWire(queue[i]) \/ Refused(queue[i])
    BY <1>1, <2>2 DEF IInv, Attended, Ahead, Idle
  <2> QED BY <1>1, <1>3, <2>2, <2>3 DEF OnWire, Refused
<1>13. Numbered'
  <2> SUFFICES ASSUME NEW i \in 1..Len(queue), link'[queue[i].session] = "up"
               PROVE  /\ queue[i].seq <= seq[queue[i].session]
                      /\ \A w \in wire' : Answers(w, queue[i]) => w.msg = queue[i].msg
    BY <1>1 DEF Numbered, Answers
  <2>1. queue[i].session \in Sessions
    BY <1>2, QueueFacts
  <2>2. link[queue[i].session] = "up" /\ ~Ahead(i)
    BY <1>1, <1>4, <2>1 DEF Ahead, Idle
  <2> QED BY <1>3, <2>2 DEF IInv, Numbered
<1>11. AtOnce' /\ InOrder' /\ NotPassed'
  BY <1>1 DEF IInv, AtOnce, InOrder, NotPassed, NotSent, Plain
<1>12. ASSUME Single
       PROVE  Single'
  <2>1. \A m : HasEntry(m)' <=> HasEntry(m)
    BY <1>1 DEF HasEntry
  <2>2. \A x \in Pairs :
          /\ sends'[x] <= 1 + breaks'[x]
          /\ HasEntry(x[1]) => IF HasWire(x[1])' THEN sends'[x] <= 1 + breaks'[x]
                               ELSE sends'[x] <= breaks'[x]
    BY <1>1, <1>2, <1>12, BrokenSingle
  <2>3. \A v, w \in wire' : v.msg = w.msg => v = w
    BY <1>3, <1>12 DEF Single
  <2>4. ASSUME NEW i \in 1..Len(queue), HasWire(queue[i].msg)'
        PROVE  OnWire(queue[i])'
    <3>1. PICK w \in wire : w.msg = queue[i].msg /\ w \in wire'
      BY <1>1, <1>3, <2>4 DEF HasWire
    <3>2. PICK v \in wire : v.session = queue[i].session /\ v.msg = queue[i].msg /\ v.seq = queue[i].seq
      BY <1>12, <3>1 DEF Single, HasWire, OnWire
    <3>3. v = w
      BY <1>12, <3>1, <3>2 DEF Single
    <3> QED BY <1>1, <3>1, <3>2, <3>3 DEF OnWire
  <2> QED BY <1>1, <1>12, <2>1, <2>2, <2>3, <2>4 DEF Single, Idle
<1> QED BY <1>1, <1>5, <1>6, <1>7, <1>8, <1>9, <1>10, <1>11, <1>12, <1>13 DEF IInv

\* The program ends: what the queue brought is on disk, or settled.
LEMMA StoppedStep ==
    ASSUME IInv, Stopped, UNCHANGED <<given, disk, seq, sends, mistaken, refused, restored>>,
           settled \subseteq settled', settled' \subseteq Pairs,
           \A m \in 1..Len(given) : \A p \in given[m].to :
             (\E i \in 1..Len(queue) : Brings(i, m, p))
               => \/ <<m, p>> \in settled'
                  \/ \E f \in disk : f.entry.msg = m /\ p \in f.entry.to
    PROVE  IInv'
<1>1. /\ walk' = [at |-> "off", session |-> "none", i |-> 0]
      /\ queue' = << >> /\ link' = [s \in Sessions |-> "down"]
      /\ Broken(Sessions)
  BY DEF Stopped
<1>2. Typed /\ Carried /\ Known
  BY DEF IInv
<1>3. wire' = {} /\ breaks' \in [Pairs -> Nat]
  <2>1. wire' = {w \in wire : w.session \notin Sessions} /\ breaks' \in [Pairs -> Nat]
    BY <1>1, <1>2, BrokenFacts
  <2>2. \A w \in wire : w.session \in Sessions
    BY <1>2, QueueFacts
  <2> QED BY <2>1, <2>2
<1>4. Len(queue') = 0 /\ \A i : i \notin 1..Len(queue')
  BY <1>1
<1>5. Typed'
  <2>1. queue' \in Seq(Entries) /\ link' \in [Sessions -> {"down", "connecting", "up"}]
    BY <1>1
  <2>2. walk' \in [at : {"idle", "flush", "read", "write", "off"},
                   session : Sessions \cup {"none"}, i : Nat]
    BY <1>1
  <2> QED BY <1>2, <1>3, <2>1, <2>2 DEF Typed
<1>6. Carried'
  BY <1>3, FS_EmptySet DEF Carried
<1>7. Known'
  BY <1>2, <1>3, <1>4 DEF Known, Stands, Says
<1>8. Phase'
  BY <1>1, <1>3 DEF Phase
<1>9. AllCared'
  <2> SUFFICES ASSUME NEW m \in 1..Len(given), NEW p \in given[m].to
               PROVE  Cared(m, p)'
    BY DEF AllCared
  <2>1. Cared(m, p)
    BY DEF IInv, AllCared
  <2>2. \A f \in disk : (Holds(f.entry, m, p) <=> f.entry.msg = m /\ p \in f.entry.to)
                        /\ (Holds(f.entry, m, p)' <=> Holds(f.entry, m, p))
    BY DEF Holds
  <2> QED BY <2>1, <2>2 DEF Cared
<1>10. Attended' /\ Numbered' /\ InOrder' /\ NotPassed'
  BY <1>4 DEF Attended, Numbered, InOrder, NotPassed
<1>11. AtOnce'
  BY DEF IInv, AtOnce, NotSent
<1>12. ASSUME Single
       PROVE  Single'
  <2>1. \A m : HasEntry(m)' => HasEntry(m)
    BY <1>4 DEF HasEntry
  <2>2. \A x \in Pairs :
          /\ sends'[x] <= 1 + breaks'[x]
          /\ HasEntry(x[1]) => IF HasWire(x[1])' THEN sends'[x] <= 1 + breaks'[x]
                               ELSE sends'[x] <= breaks'[x]
    BY <1>1, <1>2, <1>12, BrokenSingle
  <2>3. \A m \in 1..Len(given) : \E p \in People : given[m].to = {p}
    BY <1>12 DEF Single
  <2>4. \A f, h \in disk' : f.entry.msg = h.entry.msg => f = h
    BY <1>12 DEF Single
  <2> QED BY <1>1, <1>3, <1>4, <2>1, <2>2, <2>3, <2>4 DEF Single
<1> QED BY <1>5, <1>6, <1>7, <1>8, <1>9, <1>10, <1>11, <1>12 DEF IInv

LEMMA WriteEndStep ==
    ASSUME IInv, WriteEnd
    PROVE  IInv'
<1>1. walk.at = "write" /\ walk.i > Len(queue) /\ Stopped
      /\ UNCHANGED <<given, disk, seq, sends, settled, mistaken, refused, restored>>
  BY DEF WriteEnd
<1>2. Typed /\ Len(queue) \in Nat /\ walk.i \in Nat
  BY QueueFacts DEF IInv, Typed
<1>3. walk.i \in 1..Len(queue) + 1
  BY <1>1 DEF IInv, Phase
<1>4. walk.i - 1 = Len(queue)
  BY <1>1, <1>2, <1>3
<1>5. disk = {[name |-> k - 1, entry |-> [queue[k] EXCEPT !.mark = FALSE]] :
                 k \in 1..Len(queue)}
  BY <1>1, <1>4 DEF IInv, Phase
<1>6. ASSUME NEW m, NEW p, NEW i \in 1..Len(queue), Brings(i, m, p)
      PROVE  \E f \in disk : f.entry.msg = m /\ p \in f.entry.to
  <2>1. [name |-> i - 1, entry |-> [queue[i] EXCEPT !.mark = FALSE]] \in disk
    BY <1>5
  <2>2. queue[i] \in Entries
    BY <1>2, QueueFacts
  <2>3. LET e == [queue[i] EXCEPT !.mark = FALSE]
        IN  e.msg = m /\ p \in e.to
    BY <1>6, <2>2 DEF Brings, Holds, Entries
  <2> QED BY <2>1, <2>3
<1>7. settled \subseteq settled' /\ settled' \subseteq Pairs
  BY <1>1, <1>2 DEF Typed
<1>8. \A m \in 1..Len(given) : \A p \in given[m].to :
        (\E i \in 1..Len(queue) : Brings(i, m, p))
          => \/ <<m, p>> \in settled'
             \/ \E f \in disk : f.entry.msg = m /\ p \in f.entry.to
  BY <1>6
<1> QED BY <1>1, <1>7, <1>8, StoppedStep

LEMMA CrashStep ==
    ASSUME IInv, Crash
    PROVE  IInv'
<1>1. Stopped /\ settled' = settled \cup (Queued \ OnDisk)
      /\ UNCHANGED <<given, disk, seq, sends, mistaken, refused, restored>>
  BY DEF Crash
<1>2. Typed /\ Len(queue) \in Nat
  BY QueueFacts DEF IInv
<1>3. ASSUME NEW m \in 1..Len(given), NEW p \in given[m].to,
             NEW i \in 1..Len(queue), Brings(i, m, p)
      PROVE  \/ <<m, p>> \in settled'
             \/ \E f \in disk : f.entry.msg = m /\ p \in f.entry.to
  <2>1. <<m, p>> \in Queued
    BY <1>2, <1>3 DEF Queued, Of, Range, Brings, Holds, Typed
  <2>2. CASE <<m, p>> \in OnDisk
    <3>1. \E f \in disk : <<m, p>> \in {f.entry.msg} \X f.entry.to
      BY <2>2 DEF OnDisk, Of
    <3> QED BY <3>1
  <2> QED BY <1>1, <2>1, <2>2
<1>4. Queued \subseteq Pairs
  <2>1. \A e \in Range(queue) : \E i \in 1..Len(queue) : e = queue[i]
    BY <1>2 DEF Range, Typed
  <2>2. \A e \in Range(queue) : e.msg \in Messages /\ e.to \in SUBSET People
    BY <1>2, <2>1, QueueFacts
  <2> QED BY <2>2 DEF Queued, Of, Pairs
<1>5. settled \subseteq settled' /\ settled' \subseteq Pairs
  BY <1>1, <1>2, <1>4 DEF Typed
<1>6. \A m \in 1..Len(given) : \A p \in given[m].to :
        (\E i \in 1..Len(queue) : Brings(i, m, p))
          => \/ <<m, p>> \in settled'
             \/ \E f \in disk : f.entry.msg = m /\ p \in f.entry.to
  BY <1>3
<1> QED BY <1>1, <1>5, <1>6, StoppedStep

-----------------------------------------------------------------------------
(* The steps that take entries out of the queue.                           *)

LEMMA FewerStep ==
    ASSUME IInv, walk = Idle,
           NEW K \in SUBSET (1..Len(queue)), queue' = Kept(K),
           wire' \subseteq wire, settled \subseteq settled', settled' \subseteq Pairs,
           mistaken \subseteq mistaken', mistaken' \subseteq Pairs, OneAnswers => mistaken' = {},
           UNCHANGED <<given, disk, link, walk, seq, sends, breaks, refused, restored>>,
           \A i \in (1..Len(queue)) \ K : \A p :
              Brings(i, queue[i].msg, p) => <<queue[i].msg, p>> \in settled' \cup mistaken',
           \A i \in K : \A e : e = queue[i] /\ OnWire(e) => OnWire(e)',
           Single => \A i \in K : \A m : m = queue[i].msg /\ HasWire(m) => HasWire(m)'
    PROVE  IInv'
<1>1. Typed /\ Carried /\ Known
  BY DEF IInv
<1>2. /\ queue' \in Seq(Entries) /\ Len(queue') \in Nat
      /\ \A j \in 1..Len(queue') : Place(K, j) \in K /\ queue'[j] = queue[Place(K, j)]
      /\ \A i, j \in 1..Len(queue') : i < j => Place(K, i) < Place(K, j)
      /\ \A i \in K : \E j \in 1..Len(queue') : Place(K, j) = i
  <2>1. queue \in Seq(Entries)
    BY <1>1 DEF Typed
  <2> QED BY <2>1, KeptFacts
<1>3. Len(queue) \in Nat /\ \A j \in 1..Len(queue') : Place(K, j) \in 1..Len(queue)
  BY <1>1, <1>2, QueueFacts
<1>4. Typed'
  BY <1>1, <1>2 DEF Typed
<1>5. Carried'
  BY <1>1, FS_Subset DEF Carried, Says
<1>6. Known'
  <2>1. \A e : Stands(e) => Stands(e)'
    BY DEF Stands, Says
  <2>2. \A j \in 1..Len(queue') : Stands(queue[j])'
    BY <1>1, <1>2, <1>3, <2>1 DEF Known
  <2> QED BY <1>1, <2>1, <2>2 DEF Known
<1>7. Phase'
  BY DEF IInv, Phase, Idle
<1>b. \A i : ~Ahead(i) /\ ~Ahead(i)'
  BY DEF Ahead, Idle
<1>8. AllCared'
  <2> SUFFICES ASSUME NEW m \in 1..Len(given), NEW p \in given[m].to
               PROVE  Cared(m, p)'
    BY DEF AllCared
  <2>1. Cared(m, p)
    BY DEF IInv, AllCared
  <2>2. \A f \in disk : Holds(f.entry, m, p) => Holds(f.entry, m, p)'
    BY DEF Holds
  <2>3. ASSUME NEW i \in 1..Len(queue), Brings(i, m, p)
        PROVE  Cared(m, p)'
    <3>1. CASE i \in K
      <4>1. PICK j \in 1..Len(queue') : Place(K, j) = i
        BY <1>2, <3>1
      <4>2. queue'[j] = queue[i]
        BY <1>2, <4>1
      <4>3. Brings(j, m, p)'
        BY <1>b, <2>3, <4>2 DEF Brings, Holds, Answers
      <4> QED BY <4>3 DEF Cared
    <3>2. CASE i \notin K
      <4>1. queue[i].msg = m
        BY <2>3 DEF Brings, Holds
      <4>2. <<m, p>> \in settled' \cup mistaken'
        BY <2>3, <3>2, <4>1
      <4> QED BY <4>2 DEF Cared
    <3> QED BY <3>1, <3>2
  <2> QED BY <2>1, <2>2, <2>3 DEF Cared
<1>9. Attended'
  <2> SUFFICES ASSUME NEW j \in 1..Len(queue'), link[queue'[j].session] = "up"
               PROVE  OnWire(queue[j])' \/ Refused(queue[j])'
    BY DEF Attended
  <2>1. PICK i \in K : i = Place(K, j) /\ queue'[j] = queue[i] /\ i \in 1..Len(queue)
    BY <1>2
  <2>2. PICK e : e = queue[i]
    OBVIOUS
  <2>3. OnWire(e) \/ Refused(e)
    BY <1>b, <2>1, <2>2 DEF IInv, Attended, OnWire, Refused
  <2>4. OnWire(e)' \/ Refused(e)'
    BY <2>2, <2>3 DEF Refused
  <2> QED BY <2>1, <2>2, <2>4 DEF OnWire, Refused
<1>14. Numbered'
  <2> SUFFICES ASSUME NEW j \in 1..Len(queue'), link[queue'[j].session] = "up"
               PROVE  /\ queue'[j].seq <= seq[queue'[j].session]
                      /\ \A w \in wire' : Answers(w, queue'[j]) => w.msg = queue'[j].msg
    BY DEF Numbered, Answers
  <2>1. PICK i \in 1..Len(queue) : queue'[j] = queue[i]
    BY <1>2, <1>3
  <2>2. /\ queue[i].seq <= seq[queue[i].session]
        /\ \A w \in wire : Answers(w, queue[i]) => w.msg = queue[i].msg
    BY <1>b, <2>1 DEF IInv, Numbered
  <2> QED BY <2>1, <2>2
<1>10. AtOnce'
  BY DEF IInv, AtOnce, NotSent
<1>a. \A m : NotSent(m)' <=> NotSent(m)
  BY DEF NotSent
<1>11. InOrder'
  <2> SUFFICES ASSUME NEW i \in 1..Len(queue'), NEW j \in 1..Len(queue'), i < j,
                      queue'[i].session = queue'[j].session,
                      NotSent(queue[j].msg)', Plain(queue'[j].msg)
               PROVE  queue'[i].msg <= queue'[j].msg
    BY DEF InOrder, Plain
  <2>1. PICK k \in 1..Len(queue), l \in 1..Len(queue) :
          k < l /\ queue'[i] = queue[k] /\ queue'[j] = queue[l]
    BY <1>2, <1>3
  <2>2. NotSent(queue[l].msg) /\ Plain(queue[l].msg)
    BY <2>1 DEF NotSent, Plain
  <2> QED BY <2>1, <2>2 DEF IInv, InOrder
<1>12. NotPassed'
  <2> SUFFICES ASSUME NEW i \in 1..Len(queue'), NEW m \in 1..Len(given),
                      NotSent(queue[i].msg)', Plain(queue'[i].msg),
                      queue'[i].msg < m, given[m].session = queue'[i].session
               PROVE  NotSent(m)'
    BY DEF NotPassed, Plain
  <2>1. PICK k \in 1..Len(queue) : queue'[i] = queue[k]
    BY <1>2, <1>3
  <2>2. NotSent(queue[k].msg) /\ Plain(queue[k].msg)
    BY <2>1 DEF NotSent, Plain
  <2> QED BY <1>a, <2>1, <2>2 DEF IInv, NotPassed
<1>13. ASSUME Single
       PROVE  Single'
  <2>1. \A i, j \in 1..Len(queue') : queue'[i].msg = queue'[j].msg => i = j
    <3> SUFFICES ASSUME NEW i \in 1..Len(queue'), NEW j \in 1..Len(queue'),
                        queue'[i].msg = queue'[j].msg
                 PROVE  i = j
      OBVIOUS
    <3>0. /\ Place(K, i) \in 1..Len(queue) /\ queue'[i] = queue[Place(K, i)]
          /\ Place(K, j) \in 1..Len(queue) /\ queue'[j] = queue[Place(K, j)]
      BY <1>2, <1>3
    <3>a. \A k, l \in 1..Len(queue) : queue[k].msg = queue[l].msg => k = l
      BY <1>13 DEF Single
    <3>1. Place(K, i) = Place(K, j) /\ Place(K, i) \in Int
      BY <3>0, <3>a
    <3>2. ~(i < j) /\ ~(j < i)
      BY <1>2, <3>1
    <3> QED BY <1>2, <3>2
  <2>2. ASSUME NEW m, HasEntry(m)'
        PROVE  HasEntry(m) /\ (HasWire(m) => HasWire(m)')
    <3>1. disk = {}
      BY DEF IInv, Phase, Idle
    <3>2. PICK j \in 1..Len(queue') : queue'[j].msg = m
      BY <2>2, <3>1 DEF HasEntry
    <3>3. PICK i \in K : queue[i].msg = m /\ i \in 1..Len(queue)
      BY <1>2, <3>2
    <3>4. HasWire(m) => HasWire(m)'
      BY <1>13, <3>3
    <3> QED BY <3>3, <3>4 DEF HasEntry
  <2>3. \A x \in Pairs :
          /\ sends'[x] <= 1 + breaks'[x]
          /\ HasEntry(x[1])' => IF HasWire(x[1])' THEN sends'[x] <= 1 + breaks'[x]
                                ELSE sends'[x] <= breaks'[x]
    BY <1>13, <2>2 DEF Single
  <2>4. walk'.at # "flush" /\ walk'.at # "read"
    BY DEF Idle
  <2>5. \A v, w \in wire' : v.msg = w.msg => v = w
    BY <1>13 DEF Single
  <2>6. ASSUME NEW j \in 1..Len(queue'), HasWire(queue[j].msg)'
        PROVE  OnWire(queue[j])'
    <3>1. PICK i \in K : queue'[j] = queue[i] /\ i \in 1..Len(queue)
      BY <1>2
    <3>2. PICK e : e = queue[i]
      OBVIOUS
    <3>3. HasWire(queue[i].msg)
      BY <2>6, <3>1 DEF HasWire
    <3>4. OnWire(e)
      BY <1>13, <3>1, <3>2, <3>3 DEF Single, OnWire
    <3>5. OnWire(e)'
      BY <3>2, <3>4
    <3> QED BY <3>1, <3>2, <3>5 DEF OnWire
  <2> QED BY <1>13, <2>1, <2>3, <2>4, <2>5, <2>6 DEF Single
<1> QED BY <1>4, <1>5, <1>6, <1>7, <1>8, <1>9, <1>10, <1>11, <1>12, <1>13, <1>14 DEF IInv

LEMMA AckStep ==
    ASSUME IInv, NEW w \in wire, Ack(w)
    PROVE  IInv'
<1>1. /\ walk = Idle /\ wire' = wire \ {w} /\ queue' = Unanswered(w.seq)
      /\ settled' = settled \cup {<<w.msg, w.to>>}
      /\ mistaken' = mistaken \cup OfOthers(w.session, w.seq)
      /\ UNCHANGED <<given, disk, link, walk, seq, sends, breaks, refused, restored>>
  BY DEF Ack
<1>2. Typed /\ Carried /\ Known
  BY DEF IInv
<1>3. PICK K \in SUBSET (1..Len(queue)) :
        queue' = Kept(K) /\ \A i \in 1..Len(queue) : i \in K <=> queue[i].seq # w.seq
  <2>1. PICK K : K = {i \in 1..Len(queue) : queue[i].seq # w.seq}
    OBVIOUS
  <2>2. queue' = Kept(K)
    BY <1>1, <2>1 DEF Unanswered
  <2>3. K \in SUBSET (1..Len(queue)) /\ \A i \in 1..Len(queue) : i \in K <=> queue[i].seq # w.seq
    BY <2>1
  <2> QED BY <2>2, <2>3
<1>4. settled' \subseteq Pairs
  <2>1. <<w.msg, w.to>> \in Pairs
    BY <1>2, QueueFacts DEF Pairs
  <2> QED BY <1>1, <1>2, <2>1 DEF Typed
<1>a. \A e \in Range(queue) : \E i \in 1..Len(queue) : e = queue[i]
  BY <1>2 DEF Range, Typed
<1>b. \A e \in Range(queue) : e.msg \in Messages /\ e.to \in SUBSET People /\ Stands(e)
                              /\ e.session \in Sessions
  BY <1>2, <1>a, QueueFacts DEF Known
<1>c. mistaken' \subseteq Pairs
  <2>1. OfOthers(w.session, w.seq) \subseteq Pairs
    BY <1>b DEF OfOthers, Of, Pairs
  <2> QED BY <1>1, <1>2, <2>1 DEF Typed
<1>d. OneAnswers => mistaken' = {}
  <2> SUFFICES ASSUME OneAnswers
               PROVE  OfOthers(w.session, w.seq) = {}
    BY <1>1 DEF IInv
  <2>1. w.session \in Answered /\ w.seq >= 1 /\ w.seq \in Int
    BY <1>2, QueueFacts
  <2>2. \A e \in Range(queue) : e.session # w.session => e.seq # w.seq
    BY <1>b, <2>1 DEF OneAnswers, Stands, Offline
  <2> QED BY <2>2 DEF OfOthers, Of
<1>5. ASSUME NEW i \in (1..Len(queue)) \ K, NEW p, Brings(i, queue[i].msg, p)
      PROVE  <<queue[i].msg, p>> \in settled' \cup mistaken'
  <2>1. queue[i].seq = w.seq
    BY <1>3
  <2>2. CASE queue[i].session = w.session
    <3>1. link[queue[i].session] = "up" /\ ~Ahead(i) /\ Answers(w, queue[i])
      BY <1>1, <1>2, <2>1, <2>2 DEF Carried, Ahead, Idle, Answers
    <3>2. w.to = p
      BY <1>5, <3>1 DEF Brings
    <3>3. w.msg = queue[i].msg
      BY <3>1 DEF IInv, Numbered
    <3> QED BY <1>1, <3>2, <3>3
  <2>3. CASE queue[i].session # w.session
    <3>1. queue[i] \in Range(queue) /\ p \in queue[i].to
      BY <1>2, <1>5 DEF Brings, Holds, Range, Typed
    <3>2. <<queue[i].msg, p>> \in OfOthers(w.session, w.seq)
      BY <2>1, <2>3, <3>1 DEF OfOthers, Of
    <3> QED BY <1>1, <3>2
  <2> QED BY <2>2, <2>3
<1>6. ASSUME NEW i \in K, NEW e, e = queue[i], OnWire(e)
      PROVE  OnWire(e)'
  <2>1. PICK v \in wire : v.session = e.session /\ v.msg = e.msg /\ v.seq = e.seq
    BY <1>6 DEF OnWire
  <2>2. v # w
    BY <1>3, <1>6, <2>1
  <2> QED BY <1>1, <2>1, <2>2 DEF OnWire
<1>7. ASSUME Single, NEW i \in K, NEW m, m = queue[i].msg, HasWire(m)
      PROVE  HasWire(m)'
  <2>1. OnWire(queue[i])
    BY <1>7 DEF Single
  <2>2. PICK u \in wire : u.msg = m /\ u.seq = queue[i].seq
    BY <1>7, <2>1 DEF OnWire
  <2>3. u # w
    BY <1>3, <2>2
  <2> QED BY <1>1, <2>2, <2>3 DEF HasWire
<1>8. settled \subseteq settled' /\ mistaken \subseteq mistaken'
  BY <1>1
<1> QED BY <1>1, <1>3, <1>4, <1>c, <1>d, <1>5, <1>6, <1>7, <1>8, FewerStep

LEMMA ClearStep ==
    ASSUME IInv, NEW to, Clear(to)
    PROVE  IInv'
<1>1. /\ walk = Idle /\ queue' = Kept({i \in 1..Len(queue) : queue[i].to # to})
      /\ settled' = settled \cup Of({e \in Range(queue) : e.to = to})
      /\ UNCHANGED <<given, disk, link, wire, walk, seq, sends, breaks, mistaken,
                     refused, restored>>
  BY DEF Clear
<1>2. Typed
  BY DEF IInv
<1>3. PICK K \in SUBSET (1..Len(queue)) :
        queue' = Kept(K) /\ \A i \in 1..Len(queue) : i \in K <=> queue[i].to # to
  <2>1. PICK K : K = {i \in 1..Len(queue) : queue[i].to # to}
    OBVIOUS
  <2>2. queue' = Kept(K)
    BY <1>1, <2>1
  <2>3. K \in SUBSET (1..Len(queue)) /\ \A i \in 1..Len(queue) : i \in K <=> queue[i].to # to
    BY <2>1
  <2> QED BY <2>2, <2>3
<1>4. \A e \in Range(queue) : \E i \in 1..Len(queue) : e = queue[i]
  <2>1. queue \in Seq(Entries)
    BY <1>2 DEF Typed
  <2>2. DOMAIN queue = 1..Len(queue)
    BY <2>1
  <2> QED BY <2>2, Zenon DEF Range
<1>5. settled' \subseteq Pairs
  <2>1. \A e \in Range(queue) : e.msg \in Messages /\ e.to \in SUBSET People
    BY <1>2, <1>4, QueueFacts
  <2>2. Of({e \in Range(queue) : e.to = to}) \subseteq Pairs
    BY <2>1 DEF Of, Pairs
  <2> QED BY <1>1, <1>2, <2>2 DEF Typed
<1>6. ASSUME NEW i \in (1..Len(queue)) \ K, NEW p, Brings(i, queue[i].msg, p)
      PROVE  <<queue[i].msg, p>> \in settled' \cup mistaken'
  <2>1. queue[i].to = to /\ queue[i] \in Range(queue) /\ p \in queue[i].to
    BY <1>2, <1>3, <1>6 DEF Brings, Holds, Range, Typed
  <2>2. <<queue[i].msg, p>> \in Of({e \in Range(queue) : e.to = to})
    BY <2>1 DEF Of
  <2> QED BY <1>1, <2>2
<1>7. \A e : OnWire(e) => OnWire(e)'
  BY <1>1 DEF OnWire
<1>8. \A m : HasWire(m) => HasWire(m)'
  BY <1>1 DEF HasWire
<1>9. /\ settled \subseteq settled' /\ mistaken \subseteq mistaken' /\ mistaken' \subseteq Pairs
      /\ wire' \subseteq wire /\ (OneAnswers => mistaken' = {})
  BY <1>1, <1>2 DEF IInv, Typed
<1> QED BY <1>1, <1>3, <1>5, <1>6, <1>7, <1>8, <1>9, FewerStep

LEMMA ClearAllStep ==
    ASSUME IInv, ClearAll
    PROVE  IInv'
<1>1. /\ walk = Idle /\ queue' = << >> /\ settled' = settled \cup Queued
      /\ UNCHANGED <<given, disk, link, wire, walk, seq, sends, breaks, mistaken,
                     refused, restored>>
  BY DEF ClearAll
<1>2. Typed
  BY DEF IInv
<1>3. Kept({}) = << >>
  BY FS_EmptySet DEF Kept
<1>4. \A e \in Range(queue) : \E i \in 1..Len(queue) : e = queue[i]
  <2>1. queue \in Seq(Entries)
    BY <1>2 DEF Typed
  <2>2. DOMAIN queue = 1..Len(queue)
    BY <2>1
  <2> QED BY <2>2, Zenon DEF Range
<1>5. settled' \subseteq Pairs
  <2>1. \A e \in Range(queue) : e.msg \in Messages /\ e.to \in SUBSET People
    BY <1>2, <1>4, QueueFacts
  <2>2. Queued \subseteq Pairs
    BY <2>1 DEF Queued, Of, Pairs
  <2> QED BY <1>1, <1>2, <2>2 DEF Typed
<1>6. ASSUME NEW i \in 1..Len(queue), NEW p, Brings(i, queue[i].msg, p)
      PROVE  <<queue[i].msg, p>> \in settled' \cup mistaken'
  <2>1. queue[i] \in Range(queue) /\ p \in queue[i].to
    BY <1>2, <1>6 DEF Brings, Holds, Range, Typed
  <2> QED BY <1>1, <2>1 DEF Queued, Of
<1>7. /\ settled \subseteq settled' /\ mistaken \subseteq mistaken' /\ mistaken' \subseteq Pairs
      /\ wire' \subseteq wire /\ (OneAnswers => mistaken' = {})
  BY <1>1, <1>2 DEF IInv, Typed
<1> QED BY <1>1, <1>3, <1>5, <1>6, <1>7, FewerStep

-----------------------------------------------------------------------------
(* The files.                                                              *)

LEMMA WriteOneStep ==
    ASSUME IInv, WriteOne
    PROVE  IInv'
<1> DEFINE file(k) == [name |-> k - 1, entry |-> [queue[k] EXCEPT !.mark = FALSE]]
<1>1. /\ walk.at = "write" /\ walk.i <= Len(queue) /\ walk' = [walk EXCEPT !.i = @ + 1]
      /\ disk' = {f \in disk : f.name # walk.i - 1} \cup {file(walk.i)}
      /\ UNCHANGED <<given, queue, link, wire, seq, sends, breaks, settled, mistaken,
                     refused, restored>>
  BY DEF WriteOne, FileName
<1>2. Typed /\ Known /\ Len(queue) \in Nat
  BY QueueFacts DEF IInv
<1>3. walk.i \in 1..Len(queue) /\ walk.i \in Nat
  BY <1>1, <1>2 DEF IInv, Phase, Typed
<1>4. walk'.at = walk.at /\ walk'.session = walk.session /\ walk'.i = walk.i + 1
      /\ walk' \in [at : {"idle", "flush", "read", "write", "off"},
                    session : Sessions \cup {"none"}, i : Nat]
  <2>1. walk \in [at : {"idle", "flush", "read", "write", "off"},
                  session : Sessions \cup {"none"}, i : Nat]
    BY <1>2 DEF Typed
  <2>2. walk.i + 1 \in Nat
    BY <1>3
  <2> QED BY <1>1, <2>1, <2>2
<1>5. disk = {file(k) : k \in 1..walk.i - 1}
  BY <1>1 DEF IInv, Phase
<1>6. \A k \in 1..Len(queue) :
        /\ file(k) \in [name : Nat, entry : Entries] /\ file(k).name = k - 1
        /\ file(k).entry.session = queue[k].session /\ file(k).entry.to = queue[k].to
        /\ file(k).entry.msg = queue[k].msg /\ file(k).entry.seq = queue[k].seq
  <2> SUFFICES ASSUME NEW k \in 1..Len(queue)
               PROVE  /\ file(k) \in [name : Nat, entry : Entries] /\ file(k).name = k - 1
                      /\ file(k).entry.session = queue[k].session
                      /\ file(k).entry.to = queue[k].to
                      /\ file(k).entry.msg = queue[k].msg /\ file(k).entry.seq = queue[k].seq
    OBVIOUS
  <2>1. queue[k] \in Entries /\ k - 1 \in Nat
    BY <1>2, QueueFacts
  <2>2. PICK e : e = [queue[k] EXCEPT !.mark = FALSE]
    OBVIOUS
  <2>3. /\ e \in Entries /\ e.session = queue[k].session /\ e.to = queue[k].to
        /\ e.msg = queue[k].msg /\ e.seq = queue[k].seq
    BY <2>1, <2>2 DEF Entries
  <2>4. file(k) = [name |-> k - 1, entry |-> e]
    BY <2>2
  <2> QED BY <2>1, <2>3, <2>4
<1> HIDE DEF file
<1>7. \A f \in disk : f.name # walk.i - 1
  <2> SUFFICES ASSUME NEW k \in 1..walk.i - 1
               PROVE  file(k).name # walk.i - 1
    BY <1>5
  <2>1. k \in 1..Len(queue) /\ k # walk.i
    BY <1>2, <1>3
  <2> QED BY <1>3, <1>6, <2>1
<1>8. disk' = {file(k) : k \in 1..walk'.i - 1}
  <2>1. \A k : k \in 1..walk'.i - 1 <=> k \in 1..walk.i - 1 \/ k = walk.i
    BY <1>3, <1>4
  <2>2. {f \in disk : f.name # walk.i - 1} = disk
    BY <1>7
  <2> QED BY <1>1, <1>5, <2>1, <2>2
<1>9. \A f \in disk' : \E k \in 1..Len(queue) : f = file(k)
  <2>1. \A k \in 1..walk'.i - 1 : k \in 1..Len(queue)
    BY <1>2, <1>3, <1>4
  <2> QED BY <1>8, <2>1
<1>10. Typed'
  <2>1. disk' \subseteq [name : Nat, entry : Entries]
    BY <1>6, <1>9
  <2> QED BY <1>1, <1>2, <1>4, <2>1 DEF Typed
<1>11. Carried'
  BY <1>1 DEF IInv, Carried, Says
<1>12. Known'
  <2>1. \A e : Stands(e) => Stands(e)'
    BY <1>1 DEF Stands, Says
  <2>2. ASSUME NEW f \in disk' PROVE Stands(f.entry)'
    <3>1. PICK k \in 1..Len(queue) : f = file(k)
      BY <1>9
    <3>2. Stands(queue[k])
      BY <1>2 DEF Known
    <3>3. Stands(f.entry)
      BY <1>6, <3>1, <3>2 DEF Stands, Says
    <3> QED BY <2>1, <3>3
  <2>3. \A i \in 1..Len(queue') : Stands(queue[i])'
    BY <1>1, <1>2 DEF Known, Stands, Says
  <2> QED BY <1>1, <1>2, <2>2, <2>3 DEF Known
<1>13. Phase'
  <2>1. walk'.i \in 1..Len(queue) + 1
    BY <1>2, <1>3, <1>4
  <2>2. disk' = {[name |-> k - 1, entry |-> [queue'[k] EXCEPT !.mark = FALSE]] :
                    k \in 1..walk'.i - 1}
    BY <1>1, <1>8 DEF file
  <2> QED BY <1>1, <1>4, <2>1, <2>2 DEF Phase
<1>14. AllCared'
  <2> SUFFICES ASSUME NEW m \in 1..Len(given), NEW p \in given[m].to
               PROVE  Cared(m, p)'
    BY <1>1 DEF AllCared
  <2>1. Cared(m, p)
    BY DEF IInv, AllCared
  <2>2. \A i \in 1..Len(queue) : Brings(i, m, p) => Brings(i, m, p)'
    BY <1>1 DEF Brings, Holds, Answers, Ahead
  <2>3. \A f \in disk : f \in disk' /\ (Holds(f.entry, m, p) => Holds(f.entry, m, p)')
    BY <1>1, <1>7 DEF Holds
  <2> QED BY <1>1, <2>1, <2>2, <2>3 DEF Cared
<1>15. Attended' /\ Numbered'
  BY <1>1, <1>4 DEF IInv, Attended, Numbered, OnWire, Refused, Answers, Ahead
<1>16. AtOnce' /\ InOrder' /\ NotPassed'
  BY <1>1 DEF IInv, AtOnce, InOrder, NotPassed, NotSent, Plain
<1>17. ASSUME Single
       PROVE  Single'
  <2>1. \A m : HasEntry(m)' => HasEntry(m)
    BY <1>1, <1>6, <1>9 DEF HasEntry
  <2>2. \A m : HasWire(m)' <=> HasWire(m)
    BY <1>1 DEF HasWire
  <2>3. ASSUME NEW f \in disk', NEW h \in disk', f.entry.msg = h.entry.msg
        PROVE  f = h
    <3>1. PICK k \in 1..Len(queue) : f = file(k)
      BY <1>9
    <3>2. PICK l \in 1..Len(queue) : h = file(l)
      BY <1>9
    <3>3. k = l
      BY <1>6, <1>17, <2>3, <3>1, <3>2 DEF Single
    <3> QED BY <3>1, <3>2, <3>3
  <2>4. \A x \in Pairs :
          /\ sends'[x] <= 1 + breaks'[x]
          /\ HasEntry(x[1])' => IF HasWire(x[1])' THEN sends'[x] <= 1 + breaks'[x]
                                ELSE sends'[x] <= breaks'[x]
    BY <1>1, <1>17, <2>1, <2>2 DEF Single
  <2>5. \A i \in 1..Len(queue') : HasWire(queue[i].msg)' => OnWire(queue[i])'
    BY <1>1, <1>17 DEF Single, HasWire, OnWire
  <2> QED BY <1>1, <1>4, <1>17, <2>3, <2>4, <2>5 DEF Single
<1> QED BY <1>1, <1>10, <1>11, <1>12, <1>13, <1>14, <1>15, <1>16, <1>17 DEF IInv

LEMMA ReadOneStep ==
    ASSUME IInv, NEW f \in disk, ReadOne(f)
    PROVE  IInv'
<1>1. /\ walk.at = "read" /\ queue' = queue \o <<f.entry>> /\ disk' = disk \ {f}
      /\ restored' = restored \cup {f.entry.msg}
      /\ UNCHANGED <<given, link, wire, walk, seq, sends, breaks, settled, mistaken, refused>>
  BY DEF ReadOne, Appended
<1>2. Typed /\ Known /\ Len(queue) \in Nat /\ f.entry \in Entries
  BY QueueFacts DEF IInv
<1>3. /\ queue' \in Seq(Entries) /\ Len(queue') = Len(queue) + 1
      /\ \A i \in 1..Len(queue) : queue'[i] = queue[i]
      /\ queue'[Len(queue) + 1] = f.entry
  <2>1. queue \in Seq(Entries) /\ <<f.entry>> \in Seq(Entries)
        /\ Len(<<f.entry>>) = 1 /\ <<f.entry>>[1] = f.entry /\ 1 \in 1..1
    BY <1>2 DEF Typed
  <2> QED BY <1>1, <2>1, ConcatFacts
<1>4. \A i \in 1..Len(queue') : i \in 1..Len(queue) \/ (i = Len(queue) + 1 /\ queue'[i] = f.entry)
  BY <1>2, <1>3
<1>5. \A i \in 1..Len(queue) : i \in 1..Len(queue')
  BY <1>2, <1>3
<1>6. wire = {} /\ \A s \in Sessions : link[s] # "up"
  BY <1>1 DEF IInv, Phase
<1>7. f.entry.msg \in Messages
  BY <1>2 DEF Entries
<1>8. Typed'
  BY <1>1, <1>2, <1>3, <1>7 DEF Typed
<1>9. Carried'
  BY <1>1 DEF IInv, Carried, Says
<1>10. Known'
  <2>1. \A e : Stands(e) => Stands(e)'
    BY <1>1 DEF Stands, Says
  <2>2. \A i \in 1..Len(queue') : Stands(queue'[i])
    BY <1>2, <1>3, <1>4 DEF Known
  <2>3. \A i \in 1..Len(queue') : Stands(queue[i])'
    BY <1>1, <2>2 DEF Stands, Says
  <2> QED BY <1>1, <1>2, <2>1, <2>3 DEF Known
<1>11. Phase'
  BY <1>1, <1>6 DEF IInv, Phase
<1>12. AllCared'
  <2> SUFFICES ASSUME NEW m \in 1..Len(given), NEW p \in given[m].to
               PROVE  Cared(m, p)'
    BY <1>1 DEF AllCared
  <2>1. Cared(m, p)
    BY DEF IInv, AllCared
  <2>2. \A i \in 1..Len(queue) : Brings(i, m, p) => Brings(i, m, p)'
    BY <1>1, <1>3 DEF Brings, Holds, Answers, Ahead
  <2>3. \A h \in disk : Holds(h.entry, m, p) => Holds(h.entry, m, p)'
    BY DEF Holds
  <2>5. Len(queue) + 1 \in 1..Len(queue')
    BY <1>2, <1>3
  <2>6. \A i \in 1..Len(queue) : Brings(i, m, p) => Cared(m, p)'
    BY <1>5, <2>2 DEF Cared
  <2>7. Holds(f.entry, m, p) => Cared(m, p)'
    <3>1. PICK k : k = Len(queue) + 1 /\ k \in 1..Len(queue')
      BY <2>5
    <3>2. Holds(f.entry, m, p) => Brings(k, m, p)'
      BY <1>1, <1>3, <1>6, <3>1 DEF Brings, Holds
    <3> QED BY <3>1, <3>2 DEF Cared
  <2>8. \A h \in disk : Holds(h.entry, m, p) => Cared(m, p)'
    <3> SUFFICES ASSUME NEW h \in disk, Holds(h.entry, m, p), h # f
                 PROVE  Cared(m, p)'
      BY <2>7
    <3>1. h \in disk' /\ Holds(h.entry, m, p)'
      BY <1>1, <2>3
    <3> QED BY <3>1 DEF Cared
  <2> QED BY <1>1, <2>1, <2>6, <2>8 DEF Cared
<1>13. Attended' /\ Numbered'
  <2>1. \A i \in 1..Len(queue') : queue'[i].session \in Sessions
    BY <1>2, <1>3, <1>4, QueueFacts DEF Entries
  <2> QED BY <1>1, <1>6, <2>1 DEF Attended, Numbered
<1>14. AtOnce'
  BY <1>1 DEF IInv, AtOnce, NotSent
<1>15. InOrder'
  <2> SUFFICES ASSUME NEW i \in 1..Len(queue'), NEW j \in 1..Len(queue'), i < j,
                      queue'[i].session = queue'[j].session,
                      NotSent(queue[j].msg)', Plain(queue[j].msg)'
               PROVE  queue'[i].msg <= queue'[j].msg
    BY DEF InOrder
  <2>1. j \in 1..Len(queue) /\ i \in 1..Len(queue)
    BY <1>1, <1>2, <1>3, <1>4 DEF Plain
  <2>2. queue'[i] = queue[i] /\ queue'[j] = queue[j] /\ Plain(queue[j].msg)
    BY <1>1, <1>3, <2>1 DEF Plain
  <2>3. NotSent(queue[j].msg)
    BY <1>1, <2>2 DEF NotSent
  <2> QED BY <2>1, <2>2, <2>3 DEF IInv, InOrder
<1>16. NotPassed'
  <2> SUFFICES ASSUME NEW i \in 1..Len(queue'), NEW m \in 1..Len(given),
                      NotSent(queue[i].msg)', Plain(queue[i].msg)',
                      queue'[i].msg < m, given[m].session = queue'[i].session
               PROVE  NotSent(m)'
    BY <1>1 DEF NotPassed
  <2>1. i \in 1..Len(queue)
    BY <1>1, <1>4 DEF Plain
  <2>2. queue'[i] = queue[i] /\ Plain(queue[i].msg)
    BY <1>1, <1>3, <2>1 DEF Plain
  <2>3. NotSent(queue[i].msg)
    BY <1>1, <2>2 DEF NotSent
  <2>4. NotSent(m)
    BY <2>1, <2>2, <2>3 DEF IInv, NotPassed
  <2> QED BY <1>1, <2>4 DEF NotSent
<1>17. ASSUME Single
       PROVE  Single'
  <2>1. ASSUME NEW m, HasEntry(m)'
        PROVE  HasEntry(m)
    <3>1. CASE \E i \in 1..Len(queue') : queue'[i].msg = m
      BY <1>3, <1>4, <3>1 DEF HasEntry
    <3>2. CASE \E h \in disk' : h.entry.msg = m
      BY <1>1, <3>2 DEF HasEntry
    <3> QED BY <2>1, <3>1, <3>2 DEF HasEntry
  <2>2. \A m : HasWire(m)' <=> HasWire(m)
    BY <1>1 DEF HasWire
  <2>3. \A i \in 1..Len(queue) : queue[i].msg # f.entry.msg
    BY <1>1, <1>17 DEF Single
  <2>4. \A i, j \in 1..Len(queue') : queue'[i].msg = queue'[j].msg => i = j
    BY <1>3, <1>4, <1>17, <2>3 DEF Single
  <2>5. \A h \in disk', i \in 1..Len(queue') : h.entry.msg # queue'[i].msg
    <3> SUFFICES ASSUME NEW h \in disk', NEW i \in 1..Len(queue')
                 PROVE  h.entry.msg # queue'[i].msg
      OBVIOUS
    <3>1. h \in disk /\ h # f
      BY <1>1
    <3>2. h.entry.msg # f.entry.msg
      BY <1>17, <3>1 DEF Single
    <3>3. \A k \in 1..Len(queue) : h.entry.msg # queue[k].msg
      BY <1>1, <1>17, <3>1 DEF Single
    <3> QED BY <1>3, <1>4, <3>2, <3>3
  <2>6. \A x \in Pairs :
          /\ sends'[x] <= 1 + breaks'[x]
          /\ HasEntry(x[1])' => IF HasWire(x[1])' THEN sends'[x] <= 1 + breaks'[x]
                                ELSE sends'[x] <= breaks'[x]
    BY <1>1, <1>17, <2>1, <2>2 DEF Single
  <2>7. \A h, k \in disk' : h.entry.msg = k.entry.msg => h = k
    BY <1>1, <1>17 DEF Single
  <2>8. \A i \in 1..Len(queue') : ~HasWire(queue[i].msg)'
    BY <1>1, <1>6 DEF HasWire
  <2> QED BY <1>1, <1>17, <2>4, <2>5, <2>6, <2>7, <2>8 DEF Single
<1> QED BY <1>1, <1>8, <1>9, <1>10, <1>11, <1>12, <1>13, <1>14, <1>15, <1>16, <1>17 DEF IInv

-----------------------------------------------------------------------------
(* The steps that send.                                                    *)

LEMMA MsgStep ==
    ASSUME IInv, NEW s \in Sessions, NEW to \in Targets,
           NEW R \in Refusals(s, to), Msg(s, to, R)
    PROVE  IInv'
<1>1. PICK m : m = Len(given) + 1
  OBVIOUS
<1>2. PICK E : E = Command(s, to, m, FALSE, R).entries
  OBVIOUS
<1>3. /\ walk = Idle /\ m <= MaxMessages
      /\ given' = Append(given, [session |-> s, to |-> to])
      /\ queue' = queue \o E
      /\ Transmit(s, m, Command(s, to, m, FALSE, R), R)
      /\ UNCHANGED <<disk, link, walk, breaks, settled, mistaken, restored>>
  BY <1>1, <1>2 DEF Msg, Appended
<1>4. Typed /\ Carried /\ Known /\ Len(given) \in Nat /\ Len(queue) \in Nat
  BY QueueFacts DEF IInv
<1>5. to \in SUBSET People /\ to # {}
  BY QueueAssumption
<1>6. m \in Messages /\ m \in Nat /\ m \in 1..m /\ m >= 1
  BY <1>1, <1>3, <1>4, QueueAssumption DEF Messages
<1>7. Delivery(E, s, to, m, FALSE, R)
  <2>1. PICK shut \in BOOLEAN : shut = FALSE
    OBVIOUS
  <2>2. E = Command(s, to, m, shut, R).entries /\ Transmit(s, m, Command(s, to, m, shut, R), R)
    BY <1>2, <1>3, <2>1
  <2>3. Delivery(E, s, to, m, shut, R)
    BY <1>4, <1>5, <1>6, <2>2, Delivered
  <2> QED BY <2>1, <2>3
<1>8. /\ given' \in Seq([session : Sessions, to : SUBSET People]) /\ Len(given') = m
      /\ \A k \in 1..Len(given) : given'[k] = given[k]
      /\ given'[m] = [session |-> s, to |-> to]
  <2>1. PICK C : C = [session : Sessions, to : SUBSET People]
    OBVIOUS
  <2>2. PICK c : c = [session |-> s, to |-> to]
    OBVIOUS
  <2>3. given \in Seq(C) /\ c \in C
    BY <1>4, <1>5, <2>1, <2>2 DEF Typed
  <2>4. given' = Append(given, c)
    BY <1>3, <2>2
  <2>5. /\ given' \in Seq(C) /\ Len(given') = Len(given) + 1
        /\ \A k \in 1..Len(given) : given'[k] = given[k]
        /\ given'[Len(given) + 1] = c
    BY <2>3, <2>4, AppendProperties
  <2> QED BY <1>1, <2>1, <2>2, <2>5
<1>9. \A k \in 1..Len(given') : k = m \/ (k \in 1..Len(given) /\ k # m /\ k < m)
  BY <1>1, <1>4, <1>8
<1>10. given'[m].session = s /\ given'[m].to = to
  BY <1>8
<1>11. \A k \in 1..Len(given) : k \in 1..Len(given') /\ k # m /\ k < m
  BY <1>1, <1>4, <1>8
<1>12. NewEntries(E, s, to, m) /\ NewWire(s, to, m, R) /\ NewSends(s, to, m, R)
  BY <1>7 DEF Delivery
<1>r. /\ refused \subseteq refused' /\ refused' \subseteq Messages
      /\ R # {} => m \in refused' /\ link[s] = "up" /\ s \in Answered
  BY <1>4, <1>6, <1>7, <1>12 DEF NewSends, Typed, Delivery
<1>i. \A i : ~Ahead(i) /\ ~Ahead(i)'
  BY <1>3 DEF Ahead, Idle
<1>13. E \in Seq(Entries) /\ Len(E) \in Nat
  BY <1>12 DEF NewEntries
<1>14. /\ queue' \in Seq(Entries) /\ Len(queue') = Len(queue) + Len(E)
       /\ \A i \in 1..Len(queue) : queue'[i] = queue[i]
       /\ \A i \in 1..Len(E) : queue'[Len(queue) + i] = E[i]
  <2>1. queue \in Seq(Entries)
    BY <1>4 DEF Typed
  <2> QED BY <1>3, <1>13, <2>1, ConcatFacts
<1>15. ASSUME NEW i \in 1..Len(queue'), i \notin 1..Len(queue)
       PROVE  \E k \in 1..Len(E) : i = Len(queue) + k /\ queue'[i] = E[k]
  <2>1. PICK k : k = i - Len(queue)
    OBVIOUS
  <2>2. k \in 1..Len(E) /\ i = Len(queue) + k
    BY <1>4, <1>13, <1>14, <1>15, <2>1
  <2> QED BY <1>14, <2>2
<1>16. \A i \in 1..Len(queue), k \in 1..Len(E) :
         i \in 1..Len(queue') /\ Len(queue) + k \in 1..Len(queue')
  BY <1>4, <1>13, <1>14
<1>17. \A i \in 1..Len(queue) : i \in 1..Len(queue') /\ queue[i].msg < m /\ queue[i].msg # m
                                /\ queue[i].msg \in 1..Len(given)
  <2>1. \A i \in 1..Len(queue) : queue[i].msg \in 1..Len(given)
    BY <1>4 DEF Known, Stands, Says
  <2> QED BY <1>4, <1>11, <1>13, <1>14, <2>1
<1>18. \A k \in 1..Len(E) : E[k].session = s /\ E[k].to = to /\ E[k].msg = m
  BY <1>12 DEF NewEntries
<1>19. \A w \in wire : w \in wire' /\ w.msg \in 1..Len(given) /\ w.msg # m
  BY <1>4, <1>11, <1>12 DEF Carried, Says, NewWire
<1>20. disk = {}
  BY <1>3 DEF IInv, Phase, Idle
<1>21. \A k \in 1..Len(given) : NotSent(k)' <=> NotSent(k)
  <2> SUFFICES ASSUME NEW k \in 1..Len(given)
               PROVE  \A p \in given[k].to : sends'[<<k, p>>] = sends[<<k, p>>]
    BY <1>8 DEF NotSent
  <2> SUFFICES ASSUME NEW p \in given[k].to
               PROVE  sends'[<<k, p>>] = sends[<<k, p>>]
    OBVIOUS
  <2>1. PICK x : x = <<k, p>>
    OBVIOUS
  <2>2. x \in Pairs /\ x[1] # m
    BY <1>4, <1>11, <2>1, QueueFacts DEF Pairs
  <2> QED BY <1>12, <2>1, <2>2 DEF NewSends
<1>22. \A p \in to : sends'[<<m, p>>] = IF link[s] = "up" /\ p \notin R THEN 1 ELSE 0
  <2> SUFFICES ASSUME NEW p \in to
               PROVE  sends'[<<m, p>>] = IF link[s] = "up" /\ p \notin R THEN 1 ELSE 0
    OBVIOUS
  <2>1. PICK x : x = <<m, p>>
    OBVIOUS
  <2>2. x \in Pairs /\ x[1] = m /\ x[2] = p
    BY <1>5, <1>6, <2>1 DEF Pairs
  <2>3. sends[x] = 0
    <3>1. m \notin 1..Len(given)
      BY <1>1, <1>4
    <3> QED BY <1>4, <2>2, <3>1 DEF Known
  <2> QED BY <1>12, <2>1, <2>2, <2>3 DEF NewSends
<1>23. Typed'
  BY <1>3, <1>4, <1>8, <1>12, <1>14, <1>r DEF Typed, NewWire, NewSends
<1>n. ASSUME NEW v \in wire, NEW w \in wire' \ wire
      PROVE  ~(v.session = w.session /\ v.seq = w.seq)
  <2>1. w.session = s /\ seq[s] < w.seq
    BY <1>12 DEF NewWire
  <2>2. v.seq \in Int /\ v.seq <= seq[v.session] /\ seq[s] \in Int
    BY <1>4, QueueFacts DEF Carried
  <2>3. w \in OnWires
    BY <1>12 DEF NewWire
  <2>4. w.seq \in Int
    BY <2>3 DEF OnWires
  <2> QED BY <2>1, <2>2, <2>4
<1>24. Carried'
  <2>1. IsFiniteSet(wire')
    BY <1>12 DEF NewWire
  <2>2. ASSUME NEW w \in wire'
        PROVE  /\ Says(w)' /\ w.to \in given'[w.msg].to
               /\ w.seq <= seq'[w.session]
               /\ link'[w.session] = "up"
               /\ sends'[<<w.msg, w.to>>] > 0
    <3>1. CASE w \in wire
      <4>1. /\ Says(w) /\ w.to \in given[w.msg].to
            /\ w.seq <= seq[w.session] /\ link[w.session] = "up" /\ sends[<<w.msg, w.to>>] > 0
        BY <1>4, <3>1 DEF Carried
      <4>2. w.seq <= seq'[w.session]
        <5>1. /\ w.seq \in Int /\ seq[w.session] \in Int /\ seq'[w.session] \in Int
              /\ seq[w.session] <= seq'[w.session]
          BY <1>4, <1>12, <3>1, QueueFacts DEF NewWire
        <5> QED BY <4>1, <5>1
      <4>3. PICK x : x = <<w.msg, w.to>>
        OBVIOUS
      <4>4. x \in Pairs /\ x[1] # m
        BY <1>4, <1>19, <3>1, <4>3, QueueFacts DEF Pairs
      <4>5. sends'[x] = sends[x]
        BY <1>12, <4>4 DEF NewSends
      <4> QED BY <1>3, <1>8, <1>11, <4>1, <4>2, <4>3, <4>5 DEF Says
    <3>2. CASE w \notin wire
      <4>1. /\ link[s] = "up" /\ w.session = s /\ w.msg = m /\ w.to \in to /\ w.to \notin R
            /\ w.seq <= seq'[s]
        BY <1>12, <3>2 DEF NewWire
      <4>2. sends'[<<w.msg, w.to>>] > 0
        BY <1>22, <4>1
      <4> QED BY <1>3, <1>6, <1>8, <1>10, <4>1, <4>2 DEF Says
    <3> QED BY <3>1, <3>2
  <2>3. ASSUME NEW v \in wire', NEW w \in wire', v.session = w.session, v.seq = w.seq
        PROVE  v = w
    <3>1. v \in wire <=> w \in wire
      BY <1>n, <2>3
    <3> QED BY <1>4, <1>12, <2>3, <3>1 DEF Carried, NewWire
  <2> QED BY <2>1, <2>2, <2>3 DEF Carried
<1>25. Known'
  <2>1. \A e : Stands(e) => Stands(e)'
    <3> SUFFICES ASSUME NEW e, Stands(e) PROVE Stands(e)'
      OBVIOUS
    <3>1. e.msg \in 1..Len(given') /\ given'[e.msg] = given[e.msg]
      BY <1>8, <1>11 DEF Stands, Says
    <3> QED BY <3>1 DEF Stands, Says
  <2>2. ASSUME NEW k \in 1..Len(E) PROVE Stands(E[k])'
    <3>1. /\ E[k].session = s /\ E[k].to = to /\ E[k].msg = m
          /\ s \notin Answered => E[k].seq = Offline
      BY <1>12 DEF NewEntries
    <3> QED BY <1>6, <1>8, <1>10, <3>1 DEF Stands, Says
  <2>3. ASSUME NEW i \in 1..Len(queue') PROVE Stands(queue[i])'
    <3>1. PICK e : e = queue'[i]
      OBVIOUS
    <3>2. Stands(e)'
      <4>1. CASE i \in 1..Len(queue)
        <5>1. e = queue[i] /\ Stands(e)
          BY <1>4, <1>14, <3>1, <4>1 DEF Known, Stands, Says
        <5> QED BY <2>1, <5>1
      <4>2. CASE i \notin 1..Len(queue)
        <5>1. PICK k \in 1..Len(E) : e = E[k]
          BY <1>15, <3>1, <4>2
        <5> QED BY <2>2, <5>1 DEF Stands, Says
      <4> QED BY <4>1, <4>2
    <3> QED BY <3>1, <3>2 DEF Stands, Says
  <2>4. \A k \in 1..Len(given') : given'[k].to # {}
    BY <1>4, <1>5, <1>8, <1>9, <1>10 DEF Known
  <2>5. ASSUME NEW x \in Pairs,
               x[1] \notin 1..Len(given') \/ x[2] \notin given'[x[1]].to
        PROVE  sends'[x] = 0
    <3>1. CASE x[1] = m
      <4>1. x[2] \notin to /\ x[1] \notin 1..Len(given)
        BY <1>6, <1>8, <1>10, <1>11, <2>5, <3>1
      <4> QED BY <1>4, <1>12, <4>1 DEF NewSends, Known
    <3>2. CASE x[1] # m
      <4>1. x[1] \notin 1..Len(given) \/ x[2] \notin given[x[1]].to
        BY <1>8, <1>11, <2>5
      <4> QED BY <1>4, <1>12, <3>2, <4>1 DEF NewSends, Known
    <3> QED BY <3>1, <3>2
  <2>6. \A f \in disk' : Stands(f.entry)'
    BY <1>3, <1>20
  <2> QED BY <2>3, <2>4, <2>5, <2>6 DEF Known
\* No new number meets an entry that was in the queue.
<1>o. ASSUME NEW i \in 1..Len(queue), NEW w \in wire' \ wire
      PROVE  ~Answers(w, queue[i])
  <2>1. w.session = s /\ link[s] = "up" /\ seq[s] < w.seq /\ w.seq \in Int
    BY <1>12 DEF NewWire, OnWires
  <2>2. queue[i].session = s => queue[i].seq <= seq[s]
    BY <1>i, <2>1 DEF IInv, Numbered
  <2>3. queue[i].seq \in Int /\ seq[s] \in Int
    BY <1>4, QueueFacts
  <2> QED BY <2>1, <2>2, <2>3 DEF Answers
<1>p. ASSUME NEW j \in 1..Len(E), NEW w \in wire
      PROVE  ~Answers(w, E[j])
  <2>1. /\ w.seq \in Int /\ w.seq >= 1 /\ w.seq <= seq[w.session] /\ seq[s] \in Int
    BY <1>4, QueueFacts DEF Carried
  <2>2. /\ E[j].session = s /\ E[j].seq \in Int
        /\ E[j].seq <= 0 \/ E[j].seq > seq[s]
    BY <1>12 DEF NewEntries, Entries, Unsent
  <2> QED BY <2>1, <2>2 DEF Answers
<1>26. Phase'
  BY <1>3, <1>20 DEF Phase, Idle
<1>27. AllCared'
  <2> SUFFICES ASSUME NEW k \in 1..Len(given'), NEW p \in given'[k].to
               PROVE  Cared(k, p)'
    BY DEF AllCared
  <2>1. CASE k # m
    <3>1. k \in 1..Len(given) /\ given'[k] = given[k]
      BY <1>8, <1>9, <2>1
    <3>2. Cared(k, p)
      BY <3>1 DEF IInv, AllCared
    <3>3. ASSUME NEW i \in 1..Len(queue), Brings(i, k, p)
          PROVE  Cared(k, p)'
      <4>1. queue'[i] = queue[i] /\ Holds(queue[i], k, p)
        BY <1>14, <3>3 DEF Brings
      <4>2. \A w \in wire : Answers(w, queue[i]) => w.to = p
        BY <1>i, <3>3 DEF Brings
      <4>3. \A w \in wire' : Answers(w, queue[i]) => w.to = p
        BY <1>o, <4>2
      <4>5. PICK e : e = queue[i] /\ e = queue'[i]
        BY <4>1
      <4>6. Holds(e, k, p) /\ \A w \in wire' : w.session = e.session /\ w.seq = e.seq => w.to = p
        BY <4>1, <4>3, <4>5 DEF Answers
      <4>4. Brings(i, k, p)'
        BY <4>5, <4>6 DEF Brings, Holds, Answers
      <4> QED BY <1>17, <4>4 DEF Cared
    <3>4. <<k, p>> \in settled \cup mistaken => Cared(k, p)'
      BY <1>3 DEF Cared
    <3>5. ASSUME given[k].session \notin Answered, sends[<<k, p>>] > 0
          PROVE  Cared(k, p)'
      <4>1. PICK x : x = <<k, p>>
        OBVIOUS
      <4>2. x \in Pairs /\ x[1] # m
        BY <1>4, <2>1, <3>1, <4>1, QueueFacts DEF Pairs
      <4>3. sends'[<<k, p>>] > 0
        BY <1>12, <3>5, <4>1, <4>2 DEF NewSends
      <4> QED BY <3>1, <3>5, <4>3 DEF Cared
    <3> QED BY <1>20, <3>2, <3>3, <3>4, <3>5 DEF Cared
  <2>2. CASE k = m
    <3>1. p \in to
      BY <1>10, <2>2
    <3>2. ASSUME NEW j \in 1..Len(E), \A w \in wire' : Answers(w, E[j]) => w.to = p
          PROVE  Cared(k, p)'
      <4>1. PICK l : l = Len(queue) + j /\ l \in 1..Len(queue') /\ queue'[l] = E[j]
        BY <1>14, <1>16, <3>2, QueueFacts
      <4>2. Brings(l, k, p)'
        BY <1>18, <2>2, <3>1, <3>2, <4>1 DEF Brings, Holds, Answers
      <4> QED BY <4>1, <4>2 DEF Cared
    <3>6. CASE p \in R
      <4>1. PICK j \in 1..Len(E) : E[j].seq = Unsent
        BY <1>7, <1>r, <3>6 DEF Delivery, Matching
      <4>2. \A w \in wire' : w.seq >= 1 /\ w.seq \in Int
        BY <1>12 DEF NewWire, OnWires
      <4>3. \A w \in wire' : ~Answers(w, E[j])
        BY <4>1, <4>2 DEF Answers, Unsent
      <4> QED BY <3>2, <4>3
    <3>3. CASE link[s] = "up" /\ s \in Answered /\ p \notin R
      <4>1. PICK j \in 1..Len(E) : \E w \in wire' \ wire : w.seq = E[j].seq /\ w.to = p
        BY <1>7, <3>1, <3>3 DEF Delivery, Matching
      <4>2. PICK w \in wire' \ wire : w.seq = E[j].seq /\ w.to = p
        BY <4>1
      <4>3. \A v \in wire' : Answers(v, E[j]) => v = w
        BY <1>12, <1>18, <1>24, <4>2 DEF Carried, Answers, NewWire
      <4> QED BY <3>2, <4>2, <4>3
    <3>4. CASE link[s] = "up" /\ s \notin Answered
      <4>0. p \notin R
        BY <1>r, <3>4
      <4>1. sends'[<<k, p>>] > 0
        BY <1>22, <2>2, <3>1, <3>4, <4>0
      <4> QED BY <1>10, <2>2, <3>4, <4>1 DEF Cared
    <3>5. CASE link[s] # "up"
      <4>1. 1 \in 1..Len(E)
        BY <1>5, <1>7, <1>13, <3>5 DEF Delivery
      <4>2. E[1].seq <= 0 /\ E[1].seq \in Int
        BY <1>12, <3>5, <4>1 DEF NewEntries, Entries, Unsent
      <4>3. \A w \in wire' : w.seq >= 1 /\ w.seq \in Int
        BY <1>12 DEF NewWire, OnWires
      <4>4. \A w \in wire' : ~Answers(w, E[1])
        BY <4>2, <4>3 DEF Answers
      <4> QED BY <3>2, <4>1, <4>4
    <3> QED BY <3>3, <3>4, <3>5, <3>6
  <2> QED BY <2>1, <2>2
<1>28. Attended'
  <2> SUFFICES ASSUME NEW i \in 1..Len(queue'), link'[queue'[i].session] = "up"
               PROVE  OnWire(queue[i])' \/ Refused(queue[i])'
    BY DEF Attended
  <2>1. CASE i \in 1..Len(queue)
    <3>1. queue'[i] = queue[i]
      BY <1>14, <2>1
    <3>2. OnWire(queue[i]) \/ Refused(queue[i])
      BY <1>3, <1>i, <2>1, <3>1 DEF IInv, Attended
    <3> QED BY <1>19, <1>r, <3>1, <3>2 DEF OnWire, Refused
  <2>2. CASE i \notin 1..Len(queue)
    <3>1. PICK j \in 1..Len(E) : queue'[i] = E[j]
      BY <1>15, <2>2
    <3>2. E[j].session = s /\ E[j].msg = m /\ link[s] = "up"
      BY <1>3, <1>18, <3>1
    <3>3. s \in Answered
      BY <1>7, <3>2 DEF Delivery
    <3>4. (\E w \in wire' \ wire : w.seq = E[j].seq) \/ (E[j].seq = Unsent /\ R # {})
      BY <1>7, <3>2, <3>3 DEF Delivery, Matching
    <3>5. \A w \in wire' \ wire : w.session = s /\ w.msg = m
      BY <1>12 DEF NewWire
    <3> QED BY <1>r, <3>1, <3>2, <3>4, <3>5 DEF OnWire, Refused
  <2> QED BY <2>1, <2>2
<1>33. Numbered'
  <2> SUFFICES ASSUME NEW i \in 1..Len(queue'), link'[queue'[i].session] = "up"
               PROVE  /\ queue'[i].seq <= seq'[queue'[i].session]
                      /\ \A w \in wire' : Answers(w, queue'[i]) => w.msg = queue'[i].msg
    BY DEF Numbered, Answers
  <2>1. CASE i \in 1..Len(queue)
    <3>1. queue'[i] = queue[i]
      BY <1>14, <2>1
    <3>2. /\ queue[i].seq <= seq[queue[i].session]
          /\ \A w \in wire : Answers(w, queue[i]) => w.msg = queue[i].msg
      BY <1>3, <1>i, <2>1, <3>1 DEF IInv, Numbered
    <3>3. queue[i].seq <= seq'[queue[i].session]
      <4>1. /\ queue[i].seq \in Int /\ seq[queue[i].session] \in Int
            /\ seq'[queue[i].session] \in Int /\ seq[queue[i].session] <= seq'[queue[i].session]
        BY <1>4, <1>12, <2>1, QueueFacts DEF NewWire
      <4> QED BY <3>2, <4>1
    <3> QED BY <1>o, <2>1, <3>1, <3>2, <3>3
  <2>2. CASE i \notin 1..Len(queue)
    <3>1. PICK j \in 1..Len(E) : queue'[i] = E[j]
      BY <1>15, <2>2
    <3>2. E[j].seq <= seq'[s] /\ E[j].session = s /\ E[j].msg = m
      BY <1>12 DEF NewEntries
    <3>3. \A w \in wire' : Answers(w, E[j]) => w \notin wire
      BY <1>p
    <3>4. \A w \in wire' \ wire : w.msg = m
      BY <1>12 DEF NewWire
    <3> QED BY <3>1, <3>2, <3>3, <3>4
  <2> QED BY <2>1, <2>2
<1>29. AtOnce'
  <2> SUFFICES ASSUME NEW k \in 1..Len(given')
               PROVE  \/ k \in refused' \/ NotSent(k)'
                      \/ \A p \in given'[k].to : sends'[<<k, p>>] > 0
    BY DEF AtOnce
  <2>1. CASE k = m
    <3>1. CASE R = {}
      BY <1>10, <1>22, <2>1, <3>1 DEF NotSent
    <3> QED BY <1>r, <2>1, <3>1
  <2>2. CASE k # m
    <3>1. k \in 1..Len(given) /\ given'[k] = given[k]
      BY <1>8, <1>9, <2>2
    <3>2. k \in refused \/ NotSent(k) \/ \A p \in given[k].to : sends[<<k, p>>] > 0
      BY <3>1 DEF IInv, AtOnce
    <3>3. ASSUME NEW p \in given[k].to, sends[<<k, p>>] > 0
          PROVE  sends'[<<k, p>>] > 0
      <4>1. PICK x : x = <<k, p>>
        OBVIOUS
      <4>2. x \in Pairs /\ x[1] # m
        BY <1>4, <2>2, <3>1, <4>1, QueueFacts DEF Pairs
      <4> QED BY <1>12, <3>3, <4>1, <4>2 DEF NewSends
    <3> QED BY <1>21, <1>r, <3>1, <3>2, <3>3
  <2> QED BY <2>1, <2>2
<1>30. InOrder'
  <2> SUFFICES ASSUME NEW i \in 1..Len(queue'), NEW j \in 1..Len(queue'), i < j,
                      queue'[i].session = queue'[j].session,
                      NotSent(queue[j].msg)', Plain(queue[j].msg)'
               PROVE  queue'[i].msg <= queue'[j].msg
    BY DEF InOrder
  <2>1. CASE j \in 1..Len(queue)
    <3>1. i \in 1..Len(queue) /\ queue'[i] = queue[i] /\ queue'[j] = queue[j]
      BY <1>4, <1>14, <2>1
    <3>2. NotSent(queue[j].msg) /\ Plain(queue[j].msg)
      BY <1>3, <1>17, <1>21, <1>r, <2>1, <3>1 DEF NotSent, Plain
    <3> QED BY <1>3, <2>1, <3>1, <3>2 DEF IInv, InOrder
  <2>2. CASE j \notin 1..Len(queue)
    <3>1. queue'[j].msg = m
      BY <1>15, <1>18, <2>2
    <3>2. queue'[i].msg = m \/ (i \in 1..Len(queue) /\ queue'[i] = queue[i])
      BY <1>14, <1>15, <1>18
    <3>3. i \in 1..Len(queue) => queue[i].msg < m /\ queue[i].msg \in Int
      BY <1>17
    <3> QED BY <1>6, <3>1, <3>2, <3>3
  <2> QED BY <2>1, <2>2
<1>31. NotPassed'
  <2> SUFFICES ASSUME NEW i \in 1..Len(queue'), NEW k \in 1..Len(given'),
                      NotSent(queue[i].msg)', Plain(queue[i].msg)',
                      queue'[i].msg < k, given'[k].session = queue'[i].session
               PROVE  NotSent(k)'
    BY DEF NotPassed
  <2>1. i \in 1..Len(queue) /\ queue'[i] = queue[i]
    <3>1. queue'[i].msg = m => i \in 1..Len(queue)
      BY <1>6, <1>8
    <3> QED BY <1>14, <1>15, <1>18, <3>1
  <2>2. NotSent(queue[i].msg) /\ Plain(queue[i].msg)
    BY <1>3, <1>17, <1>21, <1>r, <2>1 DEF NotSent, Plain
  <2>3. CASE k # m
    <3>1. k \in 1..Len(given) /\ given'[k] = given[k]
      BY <1>8, <1>9, <2>3
    <3>2. NotSent(k)
      BY <1>3, <2>1, <2>2, <3>1 DEF IInv, NotPassed
    <3> QED BY <1>21, <3>1, <3>2
  <2>4. CASE k = m
    <3>1. queue[i].session = s
      BY <1>10, <2>1, <2>4
    <3>2. ASSUME link[s] = "up" PROVE FALSE
      <4>1. OnWire(queue[i])
        BY <1>i, <2>1, <2>2, <3>1, <3>2 DEF IInv, Attended, Refused, Plain
      <4>2. PICK w \in wire : w.msg = queue[i].msg
        BY <4>1 DEF OnWire
      <4>3. w.to \in given[w.msg].to /\ sends[<<w.msg, w.to>>] > 0
        BY <1>4 DEF Carried
      <4>4. sends[<<w.msg, w.to>>] = 0
        BY <2>2, <4>2, <4>3 DEF NotSent
      <4> QED BY <4>3, <4>4
    <3> QED BY <1>10, <1>22, <2>4, <3>2 DEF NotSent
  <2> QED BY <2>3, <2>4
<1>32. ASSUME Alone
       PROVE  Single'
  <2>1. Single /\ \E p \in People : to = {p}
    BY <1>32 DEF IInv, Alone
  <2>2. PICK p \in People : to = {p}
    BY <2>1
  <2>3. Len(E) <= 1
    BY <1>12, <2>2 DEF NewEntries
  <2>4. \A k \in 1..Len(given') : \E q \in People : given'[k].to = {q}
    BY <1>8, <1>9, <1>10, <2>1, <2>2 DEF Single
  <2>5. \A i, j \in 1..Len(queue') : queue'[i].msg = queue'[j].msg => i = j
    <3> SUFFICES ASSUME NEW i \in 1..Len(queue'), NEW j \in 1..Len(queue'),
                        queue'[i].msg = queue'[j].msg
                 PROVE  i = j
      OBVIOUS
    <3>1. CASE i \in 1..Len(queue) /\ j \in 1..Len(queue)
      BY <1>14, <2>1, <3>1 DEF Single
    <3>2. CASE i \notin 1..Len(queue) /\ j \notin 1..Len(queue)
      <4>1. PICK k \in 1..Len(E), l \in 1..Len(E) : i = Len(queue) + k /\ j = Len(queue) + l
        BY <1>15, <3>2
      <4>2. k = l
        BY <1>13, <2>3
      <4> QED BY <4>1, <4>2
    <3>3. CASE i \in 1..Len(queue) /\ j \notin 1..Len(queue)
      <4>1. queue'[i].msg = queue[i].msg /\ queue[i].msg # m
        BY <1>14, <1>17, <3>3
      <4>2. queue'[j].msg = m
        BY <1>15, <1>18, <3>3
      <4> QED BY <4>1, <4>2
    <3>4. CASE i \notin 1..Len(queue) /\ j \in 1..Len(queue)
      <4>1. queue'[j].msg = queue[j].msg /\ queue[j].msg # m
        BY <1>14, <1>17, <3>4
      <4>2. queue'[i].msg = m
        BY <1>15, <1>18, <3>4
      <4> QED BY <4>1, <4>2
    <3> QED BY <3>1, <3>2, <3>3, <3>4
  <2>6. \A v, w \in wire' : v.msg = w.msg => v = w
    <3> SUFFICES ASSUME NEW v \in wire', NEW w \in wire', v.msg = w.msg PROVE v = w
      OBVIOUS
    <3>1. \A u \in wire' \ wire : u.msg = m /\ u.to = p
      BY <1>12, <2>2 DEF NewWire
    <3>2. v \in wire <=> w \in wire
      BY <1>19, <3>1
    <3>3. v \in wire /\ w \in wire => v = w
      BY <2>1 DEF Single
    <3>4. v \in wire' \ wire /\ w \in wire' \ wire => v = w
      BY <1>12, <3>1 DEF NewWire
    <3> QED BY <3>2, <3>3, <3>4
  <2>7. ASSUME NEW x \in Pairs
        PROVE  /\ sends'[x] <= 1 + breaks'[x]
               /\ HasEntry(x[1])' => IF HasWire(x[1])' THEN sends'[x] <= 1 + breaks'[x]
                                     ELSE sends'[x] <= breaks'[x]
    <3>1. breaks'[x] = breaks[x] /\ breaks[x] \in Nat /\ sends[x] \in Nat
      BY <1>3, <1>4 DEF Typed
    <3>2. CASE x[1] # m
      <4>1. sends'[x] = sends[x]
        BY <1>12, <3>2 DEF NewSends
      <4>2. HasEntry(x[1])' => HasEntry(x[1])
        BY <1>3, <1>14, <1>15, <1>18, <3>2 DEF HasEntry
      <4>3. HasWire(x[1]) => HasWire(x[1])'
        BY <1>19 DEF HasWire
      <4> QED BY <2>1, <3>1, <4>1, <4>2, <4>3 DEF Single
    <3>3. CASE x[1] = m
      <4>1. sends[x] = 0
        BY <1>1, <1>4, <3>3 DEF Known
      <4>2. sends'[x] = IF link[s] = "up" /\ x[2] \in to \ R THEN 1 ELSE 0
        BY <1>12, <3>3, <4>1 DEF NewSends
      <4>3. ASSUME link[s] = "up", x[2] \in to \ R, HasEntry(m)' PROVE HasWire(m)'
        <5>1. PICK i \in 1..Len(queue') : queue'[i].msg = m
          BY <1>3, <1>20, <4>3 DEF HasEntry
        <5>2. i \notin 1..Len(queue)
          BY <1>14, <1>17, <5>1
        <5>3. PICK j \in 1..Len(E) : queue'[i] = E[j]
          BY <1>15, <5>2
        <5>4. s \in Answered
          BY <1>7, <4>3, <5>3 DEF Delivery
        <5>5. \E l \in 1..Len(E) : \E w \in wire' \ wire : w.seq = E[l].seq /\ w.to = x[2]
          BY <1>7, <4>3, <5>4 DEF Delivery, Matching
        <5> QED BY <1>12, <5>5 DEF HasWire, NewWire
      <4>4. HasEntry(x[1])' /\ sends'[x] # 0 => HasWire(x[1])'
        BY <3>3, <4>2, <4>3
      <4>5. sends'[x] = 0 \/ sends'[x] = 1
        BY <4>2
      <4> QED BY <3>1, <4>4, <4>5
    <3> QED BY <3>2, <3>3
  <2>8. walk'.at # "flush" /\ walk'.at # "read"
    BY <1>3 DEF Idle
  <2>9. \A f, h \in disk' : f.entry.msg = h.entry.msg => f = h
    BY <1>3, <1>20
  <2>10. ASSUME NEW i \in 1..Len(queue'), HasWire(queue[i].msg)'
         PROVE  OnWire(queue[i])'
    <3>1. PICK w \in wire' : w.msg = queue'[i].msg
      BY <2>10 DEF HasWire
    <3>2. CASE i \in 1..Len(queue)
      <4>1. queue'[i] = queue[i] /\ queue[i].msg # m
        BY <1>14, <1>17, <3>2
      <4>2. w \in wire
        BY <1>12, <3>1, <4>1 DEF NewWire
      <4>3. OnWire(queue[i])
        BY <2>1, <3>1, <3>2, <4>1, <4>2 DEF Single, HasWire
      <4> QED BY <1>19, <4>1, <4>3 DEF OnWire
    <3>3. CASE i \notin 1..Len(queue)
      <4>1. PICK j \in 1..Len(E) : queue'[i] = E[j]
        BY <1>15, <3>3
      <4>2. E[j].session = s /\ E[j].msg = m
        BY <1>18
      <4>3. w \in wire' \ wire
        BY <1>19, <3>1, <4>1, <4>2
      <4>4. link[s] = "up" /\ s \in Answered /\ w.to \in to /\ w.to \notin R
        BY <1>12, <4>3 DEF NewWire
      <4>5. R = {}
        BY <2>2, <4>4 DEF Refusals
      <4>6. PICK u \in wire' \ wire : u.seq = E[j].seq
        BY <1>7, <4>4, <4>5 DEF Delivery, Matching
      <4>7. u.session = s /\ u.msg = m
        BY <1>12, <4>6 DEF NewWire
      <4> QED BY <4>1, <4>2, <4>6, <4>7 DEF OnWire
    <3> QED BY <3>2, <3>3
  <2> QED BY <2>4, <2>5, <2>6, <2>7, <2>8, <2>9, <2>10 DEF Single
<1> QED BY <1>23, <1>24, <1>25, <1>26, <1>27, <1>28, <1>29, <1>30, <1>31, <1>32, <1>33, <1>3 DEF IInv

\* r is q without its i-th entry and with E behind it.
Flushed(r, q, E, i) ==
    /\ r \in Seq(Entries) /\ Len(r) = (Len(q) - 1) + Len(E)
    /\ \A k \in 1..Len(q) : k < i => k \in 1..Len(r) /\ r[k] = q[k]
    /\ \A k \in 1..Len(q) : k > i => k - 1 \in 1..Len(r) /\ r[k - 1] = q[k]
    /\ \A l \in 1..Len(E) : \E j \in 1..Len(r) : r[j] = E[l]
    /\ \A j \in 1..Len(r) :
         \/ j < i /\ j \in 1..Len(q) /\ r[j] = q[j]
         \/ j >= i /\ j + 1 \in 1..Len(q) /\ r[j] = q[j + 1]
         \/ /\ j >= Len(q)
            /\ \E l \in 1..Len(E) : j = (Len(q) - 1) + l /\ r[j] = E[l]

LEMMA FlushedQueue ==
    ASSUME NEW q \in Seq(Entries), NEW E \in Seq(Entries), NEW i \in 1..Len(q)
    PROVE  Flushed(RemoveAt(q \o E, i), q, E, i)
<1>1. Len(q) \in Nat /\ Len(E) \in Nat
  OBVIOUS
<1>2. PICK c : c = q \o E
  OBVIOUS
<1>3. /\ c \in Seq(Entries) /\ Len(c) = Len(q) + Len(E)
      /\ \A k \in 1..Len(q) : c[k] = q[k]
      /\ \A l \in 1..Len(E) : c[Len(q) + l] = E[l]
  BY <1>2, ConcatFacts
<1>4. i \in 1..Len(c)
  BY <1>1, <1>3
<1>5. PICK r : r = RemoveAt(c, i)
  OBVIOUS
<1>6. /\ r \in Seq(Entries) /\ Len(r) = Len(c) - 1
      /\ \A k \in 1..i - 1 : r[k] = c[k]
      /\ \A k \in i..Len(c) - 1 : r[k] = c[k + 1]
  BY <1>3, <1>4, <1>5, RemoveAtFacts
<1>7. Len(r) = (Len(q) - 1) + Len(E)
  BY <1>1, <1>3, <1>6
<1>8. ASSUME NEW k \in 1..Len(q), k < i
      PROVE  k \in 1..Len(r) /\ r[k] = q[k]
  <2>1. k \in 1..i - 1 /\ k \in 1..Len(r)
    BY <1>1, <1>7, <1>8
  <2> QED BY <1>3, <1>6, <2>1
<1>9. ASSUME NEW k \in 1..Len(q), k > i
      PROVE  k - 1 \in 1..Len(r) /\ r[k - 1] = q[k]
  <2>1. k - 1 \in i..Len(c) - 1 /\ k - 1 \in 1..Len(r) /\ (k - 1) + 1 = k
    BY <1>1, <1>3, <1>7, <1>9
  <2>2. r[k - 1] = c[(k - 1) + 1]
    BY <1>6, <2>1
  <2> QED BY <1>3, <2>1, <2>2
<1>10. ASSUME NEW l \in 1..Len(E)
       PROVE  \E j \in 1..Len(r) : j = (Len(q) - 1) + l /\ r[j] = E[l]
  <2>1. PICK j : j = (Len(q) - 1) + l
    OBVIOUS
  <2>2. j \in i..Len(c) - 1 /\ j \in 1..Len(r) /\ j + 1 = Len(q) + l
    BY <1>1, <1>3, <1>7, <2>1
  <2>3. r[j] = c[Len(q) + l]
    BY <1>6, <2>2
  <2> QED BY <1>3, <2>1, <2>2, <2>3
<1>11. ASSUME NEW j \in 1..Len(r)
       PROVE  \/ j < i /\ j \in 1..Len(q) /\ r[j] = q[j]
              \/ j >= i /\ j + 1 \in 1..Len(q) /\ r[j] = q[j + 1]
              \/ /\ j >= Len(q)
                 /\ \E l \in 1..Len(E) : j = (Len(q) - 1) + l /\ r[j] = E[l]
  <2>1. CASE j < i
    <3>1. j \in 1..Len(q)
      BY <1>1, <2>1
    <3> QED BY <1>8, <2>1, <3>1
  <2>2. CASE j >= i /\ j < Len(q)
    <3>1. PICK k : k = j + 1
      OBVIOUS
    <3>2. k \in 1..Len(q) /\ k > i /\ k - 1 = j
      BY <1>1, <2>2, <3>1
    <3> QED BY <1>9, <2>2, <3>1, <3>2
  <2>3. CASE j >= Len(q)
    <3>1. PICK l : l = j - (Len(q) - 1)
      OBVIOUS
    <3>2. l \in 1..Len(E) /\ j = (Len(q) - 1) + l
      BY <1>1, <1>7, <2>3, <3>1
    <3>3. r[j] = E[l]
      BY <1>10, <3>2
    <3> QED BY <2>3, <3>2, <3>3
  <2> QED BY <1>1, <2>1, <2>2, <2>3
<1>12. Flushed(r, q, E, i)
  BY <1>6, <1>7, <1>8, <1>9, <1>10, <1>11 DEF Flushed
<1> QED BY <1>2, <1>5, <1>12

LEMMA FlushSendStep ==
    ASSUME IInv, FlushSend
    PROVE  IInv'
<1>1. PICK e : e = queue[walk.i]
  OBVIOUS
<1>2. PICK s, to, m, h : s = e.session /\ to = e.to /\ m = e.msg /\ h = walk.i
  OBVIOUS
<1>r. PICK R \in Refusals(s, to) :
        /\ queue' = RemoveAt(Appended(Command(s, to, m, TRUE, R).entries), h)
        /\ Transmit(s, m, Command(s, to, m, TRUE, R), R)
  BY <1>1, <1>2 DEF FlushSend
<1>3. PICK E : E = Command(s, to, m, TRUE, R).entries
  OBVIOUS
<1>4. /\ walk.at = "flush" /\ h <= Len(queue) /\ e.mark /\ s = walk.session
      /\ queue' = RemoveAt(queue \o E, h)
      /\ Transmit(s, m, Command(s, to, m, TRUE, R), R)
      /\ walk' = [walk EXCEPT !.i = @]
      /\ UNCHANGED <<given, disk, link, breaks, settled, mistaken, restored>>
  BY <1>1, <1>2, <1>3, <1>r DEF FlushSend, Flushable, Appended, AfterRemoval
<1>5. Typed /\ Carried /\ Known /\ Len(given) \in Nat /\ Len(queue) \in Nat
  BY QueueFacts DEF IInv
<1>6. h \in 1..Len(queue) /\ link[s] = "up"
  BY <1>2, <1>4, <1>5 DEF IInv, Phase
<1>7. walk' = walk
  BY <1>4, <1>5 DEF Typed
<1>8. /\ s \in Sessions /\ to \in SUBSET People /\ m \in Messages
      /\ m \in 1..Len(given) /\ given[m].session = s /\ given[m].to = to
  <2>1. s \in Sessions /\ to \in SUBSET People /\ m \in Messages
    BY <1>1, <1>2, <1>5, <1>6, QueueFacts
  <2>2. Stands(e)
    BY <1>1, <1>2, <1>5, <1>6 DEF Known
  <2> QED BY <1>2, <2>1, <2>2 DEF Stands, Says
<1>9. to # {}
  BY <1>5, <1>8 DEF Known
<1>10. Delivery(E, s, to, m, TRUE, R)
  <2>1. PICK quiet \in BOOLEAN : quiet = TRUE
    OBVIOUS
  <2>2. E = Command(s, to, m, quiet, R).entries /\ Transmit(s, m, Command(s, to, m, quiet, R), R)
    BY <1>3, <1>4, <2>1
  <2>3. Delivery(E, s, to, m, quiet, R)
    BY <1>5, <1>8, <2>2, Delivered
  <2> QED BY <2>1, <2>3
<1>11. NewEntries(E, s, to, m) /\ NewWire(s, to, m, R) /\ NewSends(s, to, m, R)
       /\ (s \in Answered => Matching(E, s, to, R))
       /\ (s \notin Answered => E = << >> /\ R = {})
  BY <1>6, <1>10 DEF Delivery
<1>12. E \in Seq(Entries) /\ Len(E) \in Nat
       /\ \A l \in 1..Len(E) : /\ E[l].session = s /\ E[l].to = to /\ E[l].msg = m
                               /\ ~E[l].mark
  BY <1>11 DEF NewEntries
<1>f. /\ refused \subseteq refused' /\ refused' \subseteq Messages /\ (R # {} => m \in refused')
      /\ seq[s] \in Int
  BY <1>5, <1>8, <1>11, QueueFacts DEF NewSends, Typed
<1>13. /\ queue' \in Seq(Entries) /\ Len(queue') = (Len(queue) - 1) + Len(E)
       /\ \A k \in 1..Len(queue) : k < h => k \in 1..Len(queue') /\ queue'[k] = queue[k]
       /\ \A k \in 1..Len(queue) : k > h => k - 1 \in 1..Len(queue') /\ queue'[k - 1] = queue[k]
       /\ \A l \in 1..Len(E) : \E j \in 1..Len(queue') : queue'[j] = E[l]
       /\ \A j \in 1..Len(queue') :
            \/ j < h /\ j \in 1..Len(queue) /\ queue'[j] = queue[j]
            \/ j >= h /\ j + 1 \in 1..Len(queue) /\ queue'[j] = queue[j + 1]
            \/ /\ j >= Len(queue)
               /\ \E l \in 1..Len(E) : j = (Len(queue) - 1) + l /\ queue'[j] = E[l]
  <2>1. PICK q : q = queue
    OBVIOUS
  <2>2. q \in Seq(Entries) /\ h \in 1..Len(q)
    BY <1>5, <1>6, <2>1 DEF Typed
  <2>3. Flushed(RemoveAt(q \o E, h), q, E, h)
    BY <1>12, <2>2, FlushedQueue
  <2>4. Flushed(queue', queue, E, h)
    BY <1>4, <2>1, <2>3
  <2> QED BY <2>4 DEF Flushed
\* Where an entry of the new queue comes from.
<1>14. ASSUME NEW j \in 1..Len(queue')
       PROVE  \/ \E k \in 1..Len(queue) :
                   /\ k # h /\ queue'[j] = queue[k]
                   /\ k < h => j = k
                   /\ k > h => j = k - 1
              \/ j >= Len(queue) /\ \E l \in 1..Len(E) : j = (Len(queue) - 1) + l /\ queue'[j] = E[l]
  <2>1. CASE j < h /\ j \in 1..Len(queue) /\ queue'[j] = queue[j]
    BY <1>6, <2>1
  <2>2. CASE j >= h /\ j + 1 \in 1..Len(queue) /\ queue'[j] = queue[j + 1]
    <3>1. j + 1 # h /\ ~(j + 1 < h) /\ j = (j + 1) - 1
      BY <1>6, <1>12, <1>13, <2>2
    <3> QED BY <2>2, <3>1
  <2> QED BY <1>13, <2>1, <2>2
<1>15. \A k \in 1..Len(queue) : k # h => \E j \in 1..Len(queue') : queue'[j] = queue[k]
  <2> SUFFICES ASSUME NEW k \in 1..Len(queue), k # h
               PROVE  \E j \in 1..Len(queue') : queue'[j] = queue[k]
    OBVIOUS
  <2>1. k < h \/ k > h
    BY <1>6
  <2> QED BY <1>13, <2>1
<1>16. \A w \in wire : w \in wire' /\ w.seq \in Int /\ w.seq >= 1 /\ w.seq <= seq[w.session]
  BY <1>5, <1>11, QueueFacts DEF Carried, NewWire
<1>17. /\ \A r \in Sessions : seq[r] \in Int /\ seq'[r] \in Int /\ seq[r] <= seq'[r]
       /\ IsFiniteSet(wire')
       /\ \A w \in wire' \ wire : /\ s \in Answered /\ w.session = s /\ w.msg = m
                                  /\ w.to \in to /\ w.to \notin R
                                  /\ seq[s] < w.seq /\ w.seq <= seq'[s] /\ w.seq \in Int
       /\ \A v, w \in wire' \ wire : v.seq = w.seq \/ v.to = w.to => v = w
       /\ \A w \in wire' : w.seq \in Int /\ w.seq >= 1
  <2>1. \A w \in wire' : w.seq \in Int /\ w.seq >= 1
    BY <1>11 DEF NewWire, OnWires
  <2>2. \A r \in Sessions : seq[r] \in Int /\ seq'[r] \in Int /\ seq[r] <= seq'[r]
    BY <1>5, <1>11, QueueFacts DEF NewWire
  <2> QED BY <1>11, <2>1, <2>2 DEF NewWire
\* Who was written to.
<1>18. \A k \in 1..Len(given) : k # m => \A p \in given[k].to : sends'[<<k, p>>] = sends[<<k, p>>]
  <2> SUFFICES ASSUME NEW k \in 1..Len(given), k # m, NEW p \in given[k].to
               PROVE  sends'[<<k, p>>] = sends[<<k, p>>]
    OBVIOUS
  <2>1. PICK x : x = <<k, p>>
    OBVIOUS
  <2>2. x \in Pairs /\ x[1] # m
    BY <1>5, <2>1, QueueFacts DEF Pairs
  <2> QED BY <1>11, <2>1, <2>2 DEF NewSends
<1>19. \A p \in to : /\ sends'[<<m, p>>] >= sends[<<m, p>>] /\ sends[<<m, p>>] \in Int
                     /\ p \notin R => sends'[<<m, p>>] = sends[<<m, p>>] + 1 /\ sends'[<<m, p>>] > 0
                     /\ sends'[<<m, p>>] \in Int
  <2> SUFFICES ASSUME NEW p \in to
               PROVE  /\ sends'[<<m, p>>] >= sends[<<m, p>>] /\ sends[<<m, p>>] \in Int
                      /\ p \notin R => sends'[<<m, p>>] = sends[<<m, p>>] + 1 /\ sends'[<<m, p>>] > 0
                      /\ sends'[<<m, p>>] \in Int
    OBVIOUS
  <2>1. PICK x : x = <<m, p>>
    OBVIOUS
  <2>2. x \in Pairs /\ x[1] = m /\ x[2] = p /\ sends[x] \in Nat
    BY <1>5, <1>8, <2>1 DEF Pairs, Typed
  <2> QED BY <1>6, <1>11, <2>1, <2>2 DEF NewSends
<1>20. \A k \in 1..Len(given) : k # m => (NotSent(k)' <=> NotSent(k))
  BY <1>4, <1>18 DEF NotSent
<1>21. ~NotSent(m)' \/ m \in refused'
  <2> SUFFICES ASSUME R = {} PROVE ~NotSent(m)'
    BY <1>f
  <2>1. PICK p \in to : TRUE
    BY <1>9
  <2>2. p \in given'[m].to /\ sends'[<<m, p>>] # 0
    BY <1>4, <1>8, <1>19, <2>1
  <2> QED BY <2>2 DEF NotSent
<1>22. Typed'
  BY <1>4, <1>5, <1>7, <1>11, <1>13, <1>f DEF Typed, NewWire, NewSends
<1>23. Carried'
  <2>1. ASSUME NEW w \in wire'
        PROVE  /\ Says(w)' /\ w.to \in given'[w.msg].to
               /\ w.seq <= seq'[w.session]
               /\ link'[w.session] = "up"
               /\ sends'[<<w.msg, w.to>>] > 0
    <3>1. CASE w \in wire
      <4>1. /\ Says(w) /\ w.to \in given[w.msg].to
            /\ w.seq <= seq[w.session] /\ link[w.session] = "up" /\ sends[<<w.msg, w.to>>] > 0
        BY <1>5, <3>1 DEF Carried
      <4>2. w.seq <= seq'[w.session]
        <5>1. w.session \in Sessions
          BY <1>5, <3>1, QueueFacts
        <5> QED BY <1>16, <1>17, <3>1, <5>1
      <4>3. sends'[<<w.msg, w.to>>] > 0
        BY <1>5, <1>8, <1>18, <1>19, <3>1, <4>1, QueueFacts DEF Says
      <4> QED BY <1>4, <4>1, <4>2, <4>3 DEF Says
    <3>2. CASE w \notin wire
      <4>1. /\ w.session = s /\ w.msg = m /\ w.to \in to /\ w.to \notin R /\ w.seq <= seq'[s]
        BY <1>17, <3>2
      <4>2. sends'[<<w.msg, w.to>>] > 0
        BY <1>19, <4>1
      <4> QED BY <1>4, <1>6, <1>8, <4>1, <4>2 DEF Says
    <3> QED BY <3>1, <3>2
  <2>2. ASSUME NEW v \in wire', NEW w \in wire', v.session = w.session, v.seq = w.seq
        PROVE  v = w
    <3>0. ASSUME NEW u \in wire, NEW x \in wire' \ wire, u.session = x.session
          PROVE  u.seq # x.seq
      <4>1. x.session = s /\ seq[s] < x.seq /\ x.seq \in Int
        BY <1>17
      <4>2. u.seq \in Int /\ u.seq <= seq[s]
        BY <1>16, <3>0, <4>1
      <4> QED BY <1>f, <4>1, <4>2
    <3>1. v \in wire <=> w \in wire
      BY <2>2, <3>0
    <3> QED BY <1>5, <1>17, <2>2, <3>1 DEF Carried
  <2> QED BY <1>17, <2>1, <2>2 DEF Carried
\* Of the entries that the walk has passed no new number is one's number.
<1>24. ASSUME NEW k \in 1..Len(queue), ~Ahead(k)
       PROVE  \A w \in wire' : Answers(w, queue[k]) => w \in wire
  <2> SUFFICES ASSUME NEW w \in wire' \ wire, w.session = queue[k].session, w.seq = queue[k].seq
               PROVE  FALSE
    BY DEF Answers
  <2>1. queue[k].session = s /\ seq[s] < w.seq /\ w.seq \in Int
    BY <1>17
  <2>2. queue[k].seq <= seq[s]
    BY <1>6, <1>24, <2>1 DEF IInv, Numbered
  <2> QED BY <1>f, <2>1, <2>2
<1>25. ASSUME NEW l \in 1..Len(E)
       PROVE  /\ \A w \in wire' : Answers(w, E[l]) => w.msg = m /\ w \notin wire
              /\ \A v, w \in wire' : Answers(v, E[l]) /\ Answers(w, E[l]) => v = w
              /\ \/ \E w \in wire' \ wire : Answers(w, E[l])
                 \/ E[l].seq = Unsent /\ R # {}
              /\ s \in Answered
  <2>1. s \in Answered
    BY <1>11
  <2>2. ASSUME NEW w \in wire', Answers(w, E[l])
        PROVE  w.msg = m /\ w \notin wire
    <3>1. /\ E[l].session = s /\ E[l].seq \in Int
          /\ E[l].seq <= 0 \/ E[l].seq > seq[s]
      BY <1>11 DEF NewEntries, Entries, Unsent
    <3>2. w \notin wire
      BY <1>16, <1>f, <2>2, <3>1 DEF Answers
    <3> QED BY <1>17, <3>2
  <2>3. \A v, w \in wire' : Answers(v, E[l]) /\ Answers(w, E[l]) => v = w
    BY <1>23 DEF Answers, Carried
  <2>4. (\E w \in wire' \ wire : w.seq = E[l].seq) \/ (E[l].seq = Unsent /\ R # {})
    BY <1>11, <2>1 DEF Matching
  <2>5. \A w \in wire' \ wire : w.session = E[l].session
    BY <1>12, <1>17
  <2> QED BY <2>1, <2>2, <2>3, <2>4, <2>5 DEF Answers
\* What the walk has still to come to, it comes to later.
<1>35. ASSUME NEW k \in 1..Len(queue), NEW j \in 1..Len(queue'), k # h, queue'[j] = queue[k],
              k < h => j = k, k > h => j = k - 1, Ahead(k)
       PROVE  Ahead(j)'
  <2>1. h <= k /\ k > h
    BY <1>2, <1>6, <1>35 DEF Ahead
  <2>2. h <= j
    BY <1>6, <1>35, <2>1
  <2> QED BY <1>2, <1>7, <1>35, <2>2 DEF Ahead
<1>26. Known'
  <2>1. \A k \in 1..Len(queue) : Stands(queue[k])
    BY <1>5 DEF Known
  <2>2. ASSUME NEW l \in 1..Len(E)
        PROVE  Stands(E[l])
    <3>1. s \notin Answered => E[l].seq = Offline
      BY <1>11 DEF NewEntries
    <3> QED BY <1>8, <1>12, <3>1 DEF Stands, Says
  <2>3. \A j \in 1..Len(queue') : Stands(queue[j])'
    BY <1>4, <1>14, <2>1, <2>2 DEF Stands, Says
  <2>4. disk = {}
    BY <1>4 DEF IInv, Phase
  <2>5. ASSUME NEW x \in Pairs,
               x[1] \notin 1..Len(given) \/ x[2] \notin given[x[1]].to
        PROVE  sends'[x] = 0
    <3>1. ~(x[1] = m /\ x[2] \in to)
      BY <1>8, <2>5
    <3> QED BY <1>5, <1>11, <2>5, <3>1 DEF NewSends, Known
  <2> QED BY <1>4, <1>5, <2>3, <2>4, <2>5 DEF Known
<1>27. Phase'
  <2>1. h \in 1..Len(queue') + 1
    BY <1>5, <1>6, <1>12, <1>13
  <2> QED BY <1>2, <1>4, <1>7, <2>1 DEF IInv, Phase
<1>28. AllCared'
  <2> SUFFICES ASSUME NEW k \in 1..Len(given), NEW p \in given[k].to
               PROVE  Cared(k, p)'
    BY <1>4 DEF AllCared
  <2>0. Cared(k, p) /\ disk = {}
    BY <1>4 DEF IInv, AllCared, Phase
  <2>1. ASSUME NEW i \in 1..Len(queue), Brings(i, k, p), i # h
        PROVE  Cared(k, p)'
    <3>1. PICK j \in 1..Len(queue') : queue'[j] = queue[i] /\ (i < h => j = i) /\ (i > h => j = i - 1)
      BY <1>6, <1>13, <2>1
    <3>2. CASE Ahead(i)
      <4>1. Ahead(j)'
        BY <1>35, <2>1, <3>1, <3>2
      <4>2. Brings(j, k, p)'
        BY <2>1, <3>1, <4>1 DEF Brings, Holds
      <4> QED BY <4>2 DEF Cared
    <3>3. CASE ~Ahead(i)
      <4>1. \A w \in wire' : Answers(w, queue[i]) => w.to = p
        BY <1>24, <2>1, <3>3 DEF Brings
      <4>2. Brings(j, k, p)'
        BY <2>1, <3>1, <4>1 DEF Brings, Holds, Answers
      <4> QED BY <4>2 DEF Cared
    <3> QED BY <3>2, <3>3
  <2>2. ASSUME Brings(h, k, p)
        PROVE  Cared(k, p)'
    <3>1. k = m /\ p \in to
      BY <1>1, <1>2, <2>2 DEF Brings, Holds
    <3>2. CASE s \in Answered
      <4>1. \E l \in 1..Len(E) : \A v \in wire' : Answers(v, E[l]) => v.to = p
        <5>1. CASE p \in R
          <6>1. PICK l \in 1..Len(E) : E[l].seq = Unsent
            BY <1>11, <3>2, <5>1 DEF Matching
          <6>2. \A v \in wire' : ~Answers(v, E[l])
            BY <1>17, <6>1 DEF Answers, Unsent
          <6> QED BY <6>2
        <5>2. CASE p \notin R
          <6>1. PICK l \in 1..Len(E) : \E w \in wire' \ wire : w.seq = E[l].seq /\ w.to = p
            BY <1>11, <3>1, <3>2, <5>2 DEF Matching
          <6>2. PICK w \in wire' \ wire : w.seq = E[l].seq /\ w.to = p
            BY <6>1
          <6>3. Answers(w, E[l])
            BY <1>12, <1>17, <6>2 DEF Answers
          <6> QED BY <1>25, <6>2, <6>3
        <5> QED BY <5>1, <5>2
      <4>2. PICK l \in 1..Len(E) : \A v \in wire' : Answers(v, E[l]) => v.to = p
        BY <4>1
      <4>3. PICK j \in 1..Len(queue') : queue'[j] = E[l]
        BY <1>13
      <4>4. Brings(j, k, p)'
        BY <1>12, <3>1, <4>2, <4>3 DEF Brings, Holds, Answers
      <4> QED BY <4>4 DEF Cared
    <3>3. CASE s \notin Answered
      BY <1>4, <1>8, <1>11, <1>19, <3>1, <3>3 DEF Cared
    <3> QED BY <3>2, <3>3
  <2>3. <<k, p>> \in settled \cup mistaken => Cared(k, p)'
    BY <1>4 DEF Cared
  <2>4. given[k].session \notin Answered /\ sends[<<k, p>>] > 0 => Cared(k, p)'
    BY <1>4, <1>8, <1>18, <1>19 DEF Cared
  <2> QED BY <2>0, <2>1, <2>2, <2>3, <2>4 DEF Cared
<1>29. Attended'
  <2> SUFFICES ASSUME NEW j \in 1..Len(queue'), link'[queue'[j].session] = "up"
               PROVE  OnWire(queue[j])' \/ Ahead(j)' \/ Refused(queue[j])'
    BY DEF Attended
  <2>1. ASSUME NEW k \in 1..Len(queue), k # h, queue'[j] = queue[k],
               k < h => j = k, k > h => j = k - 1
        PROVE  OnWire(queue[j])' \/ Ahead(j)' \/ Refused(queue[j])'
    <3>1. OnWire(queue[k]) \/ Ahead(k) \/ Refused(queue[k])
      BY <1>4, <2>1 DEF IInv, Attended
    <3>2. OnWire(queue[k]) => OnWire(queue[j])'
      BY <1>16, <2>1 DEF OnWire
    <3>3. Ahead(k) => Ahead(j)'
      BY <1>35, <2>1
    <3>4. Refused(queue[k]) => Refused(queue[j])'
      BY <1>f, <2>1 DEF Refused
    <3> QED BY <3>1, <3>2, <3>3, <3>4
  <2>2. ASSUME NEW l \in 1..Len(E), queue'[j] = E[l]
        PROVE  OnWire(queue[j])' \/ Refused(queue[j])'
    <3>1. (\E w \in wire' \ wire : Answers(w, E[l])) \/ (E[l].seq = Unsent /\ R # {})
      BY <1>25
    <3> QED BY <1>12, <1>17, <1>f, <2>2, <3>1 DEF OnWire, Answers, Refused
  <2> QED BY <1>14, <2>1, <2>2
<1>36. Numbered'
  <2> SUFFICES ASSUME NEW j \in 1..Len(queue'), link'[queue'[j].session] = "up"
               PROVE  \/ Ahead(j)'
                      \/ /\ queue'[j].seq <= seq'[queue'[j].session]
                         /\ \A w \in wire' : Answers(w, queue'[j]) => w.msg = queue'[j].msg
    BY DEF Numbered, Answers
  <2>1. ASSUME NEW k \in 1..Len(queue), k # h, queue'[j] = queue[k],
               k < h => j = k, k > h => j = k - 1, ~Ahead(k)
        PROVE  /\ queue'[j].seq <= seq'[queue'[j].session]
               /\ \A w \in wire' : Answers(w, queue'[j]) => w.msg = queue'[j].msg
    <3>1. /\ queue[k].seq <= seq[queue[k].session]
          /\ \A w \in wire : Answers(w, queue[k]) => w.msg = queue[k].msg
      BY <1>4, <2>1 DEF IInv, Numbered
    <3>2. queue[k].session \in Sessions /\ queue[k].seq \in Int
      BY <1>5, QueueFacts
    <3>3. queue[k].seq <= seq'[queue[k].session]
      BY <1>17, <3>1, <3>2
    <3> QED BY <1>24, <2>1, <3>1, <3>3
  <2>2. ASSUME NEW l \in 1..Len(E), queue'[j] = E[l]
        PROVE  /\ queue'[j].seq <= seq'[queue'[j].session]
               /\ \A w \in wire' : Answers(w, queue'[j]) => w.msg = queue'[j].msg
    <3>1. E[l].seq <= seq'[s] /\ E[l].session = s /\ E[l].msg = m
      BY <1>11 DEF NewEntries
    <3> QED BY <1>25, <2>2, <3>1
  <2> QED BY <1>14, <1>35, <2>1, <2>2
<1>30. AtOnce'
  <2> SUFFICES ASSUME NEW k \in 1..Len(given)
               PROVE  \/ k \in refused' \/ NotSent(k)'
                      \/ \A p \in given[k].to : sends'[<<k, p>>] > 0
    BY <1>4 DEF AtOnce
  <2>1. CASE k = m
    BY <1>8, <1>19, <1>f, <2>1
  <2>2. CASE k # m
    BY <1>18, <1>20, <1>f, <2>2 DEF IInv, AtOnce
  <2> QED BY <2>1, <2>2
\* An entry that was not sent is an old one.
<1>31. ASSUME NEW j \in 1..Len(queue'), NotSent(queue[j].msg)', Plain(queue[j].msg)'
       PROVE  \E k \in 1..Len(queue) :
                /\ k # h /\ queue'[j] = queue[k]
                /\ k < h => j = k
                /\ k > h => j = k - 1
                /\ queue[k].msg # m /\ queue[k].msg \in 1..Len(given)
                /\ NotSent(queue[k].msg) /\ Plain(queue[k].msg)
  <2>0. PICK k : k = queue'[j].msg
    OBVIOUS
  <2>1. k # m
    BY <1>21, <1>31, <2>0 DEF NotSent, Plain
  <2>2. PICK i \in 1..Len(queue) : /\ i # h /\ queue'[j] = queue[i]
                                   /\ i < h => j = i
                                   /\ i > h => j = i - 1
    BY <1>12, <1>14, <2>0, <2>1
  <2>3. queue[i].msg = k /\ k \in 1..Len(given)
    BY <1>5, <2>0, <2>2 DEF Known, Stands, Says
  <2>4. NotSent(k)'
    BY <1>31, <2>0 DEF NotSent
  <2>5. NotSent(k)
    BY <1>20, <2>1, <2>3, <2>4
  <2>6. Plain(k)
    BY <1>4, <1>f, <1>31, <2>0 DEF Plain
  <2> QED BY <2>0, <2>1, <2>2, <2>3, <2>5, <2>6
<1>32. InOrder'
  <2> SUFFICES ASSUME NEW i \in 1..Len(queue'), NEW j \in 1..Len(queue'), i < j,
                      queue'[i].session = queue'[j].session,
                      NotSent(queue[j].msg)', Plain(queue[j].msg)'
               PROVE  queue'[i].msg <= queue'[j].msg
    BY DEF InOrder
  <2>1. PICK k \in 1..Len(queue) :
          /\ k # h /\ queue'[j] = queue[k]
          /\ k < h => j = k
          /\ k > h => j = k - 1
          /\ queue[k].msg # m /\ queue[k].msg \in 1..Len(given)
          /\ NotSent(queue[k].msg) /\ Plain(queue[k].msg)
    BY <1>31
  <2>2. j < Len(queue) \/ j = k
    BY <1>5, <1>6, <2>1
  <2>3. ~(i >= Len(queue))
    BY <1>5, <1>12, <1>13, <2>2
  <2>4. PICK l \in 1..Len(queue) : /\ l # h /\ queue'[i] = queue[l]
                                   /\ l < h => i = l
                                   /\ l > h => i = l - 1
    BY <1>5, <1>14, <2>3
  <2>5. l < k
    BY <1>6, <2>1, <2>4
  <2> QED BY <2>1, <2>4, <2>5 DEF IInv, InOrder
<1>33. NotPassed'
  <2> SUFFICES ASSUME NEW j \in 1..Len(queue'), NEW n \in 1..Len(given),
                      NotSent(queue[j].msg)', Plain(queue[j].msg)',
                      queue'[j].msg < n, given[n].session = queue'[j].session
               PROVE  NotSent(n)'
    BY <1>4 DEF NotPassed
  <2>1. PICK k \in 1..Len(queue) :
          /\ k # h /\ queue'[j] = queue[k]
          /\ k < h => j = k
          /\ k > h => j = k - 1
          /\ queue[k].msg # m /\ queue[k].msg \in 1..Len(given)
          /\ NotSent(queue[k].msg) /\ Plain(queue[k].msg)
    BY <1>31
  <2>2. CASE n # m
    BY <1>20, <2>1, <2>2 DEF IInv, NotPassed
  <2>3. CASE n = m
    <3>1. queue[k].session = s /\ queue[k].msg < m
      BY <1>8, <2>1, <2>3
    <3>2. CASE k < h
      <4>1. ~Ahead(k)
        BY <1>2, <1>6, <3>2 DEF Ahead
      <4>2. OnWire(queue[k])
        BY <1>6, <2>1, <3>1, <4>1 DEF IInv, Attended, Refused, Plain
      <4>3. PICK w \in wire : w.msg = queue[k].msg
        BY <4>2 DEF OnWire
      <4>4. w.to \in given[w.msg].to /\ sends[<<w.msg, w.to>>] > 0
        BY <1>5 DEF Carried
      <4>5. sends[<<w.msg, w.to>>] = 0
        BY <2>1, <4>3, <4>4 DEF NotSent
      <4> QED BY <4>4, <4>5
    <3>3. CASE k > h
      <4>1. queue[h].msg = m /\ queue[h].session = s
        BY <1>1, <1>2
      <4>2. queue[h].msg <= queue[k].msg
        BY <1>6, <2>1, <3>1, <3>3, <4>1 DEF IInv, InOrder
      <4> QED BY <1>8, <2>1, <3>1, <4>1, <4>2
    <3> QED BY <1>6, <2>1, <3>2, <3>3
  <2> QED BY <2>2, <2>3
<1>34. ASSUME Single
       PROVE  Single'
  <2>1. PICK p \in People : to = {p}
    BY <1>8, <1>34 DEF Single
  <2>2. Len(E) <= 1
    BY <1>11, <2>1 DEF NewEntries
  <2>3. \A k \in 1..Len(queue) : k # h => queue[k].msg # m
    BY <1>1, <1>2, <1>6, <1>34 DEF Single
  <2>4. ~HasWire(m)
    <3>1. Flushable(queue[h])
      BY <1>1, <1>2, <1>4 DEF Flushable
    <3> QED BY <1>1, <1>2, <1>4, <1>6, <3>1, <1>34 DEF Single
  <2>5. ASSUME NEW i \in 1..Len(queue'), NEW j \in 1..Len(queue'), queue'[i].msg = queue'[j].msg
        PROVE  i = j
    <3>1. CASE \E k \in 1..Len(queue) : /\ k # h /\ queue'[i] = queue[k]
                                        /\ k < h => i = k
                                        /\ k > h => i = k - 1
      <4>1. PICK k \in 1..Len(queue) : /\ k # h /\ queue'[i] = queue[k]
                                       /\ k < h => i = k
                                       /\ k > h => i = k - 1
        BY <3>1
      <4>2. queue'[j].msg # m
        BY <2>3, <2>5, <4>1
      <4>3. PICK l \in 1..Len(queue) : /\ l # h /\ queue'[j] = queue[l]
                                       /\ l < h => j = l
                                       /\ l > h => j = l - 1
        BY <1>12, <1>14, <4>2
      <4>4. k = l
        BY <1>34, <2>5, <4>1, <4>3 DEF Single
      <4> QED BY <1>6, <4>1, <4>3, <4>4
    <3>2. CASE \E l \in 1..Len(E) : i = (Len(queue) - 1) + l /\ queue'[i] = E[l]
      <4>1. PICK l \in 1..Len(E) : i = (Len(queue) - 1) + l /\ queue'[i] = E[l]
        BY <3>2
      <4>2. queue'[j].msg = m
        BY <1>12, <2>5, <4>1
      <4>3. PICK k \in 1..Len(E) : j = (Len(queue) - 1) + k
        BY <1>14, <2>3, <4>2
      <4>4. k = l
        BY <1>12, <2>2
      <4> QED BY <4>1, <4>3, <4>4
    <3> QED BY <1>14, <3>1, <3>2
  <2>6. ASSUME NEW v \in wire', NEW w \in wire', v.msg = w.msg
        PROVE  v = w
    <3>1. \A u \in wire : u.msg # m
      BY <2>4 DEF HasWire
    <3>2. \A u \in wire' \ wire : u.msg = m /\ u.to = p
      BY <1>17, <2>1
    <3>3. v \in wire <=> w \in wire
      BY <2>6, <3>1, <3>2
    <3>4. v \in wire /\ w \in wire => v = w
      BY <1>34, <2>6 DEF Single
    <3>5. v \in wire' \ wire /\ w \in wire' \ wire => v = w
      BY <1>17, <3>2
    <3> QED BY <3>3, <3>4, <3>5
  <2>7. ASSUME NEW j \in 1..Len(queue'), Flushable(queue[j])'
        PROVE  ~HasWire(queue[j].msg)'
    <3>1. queue'[j].mark /\ queue'[j].session = walk.session
      BY <1>7, <2>7 DEF Flushable
    <3>2. PICK k \in 1..Len(queue) : k # h /\ queue'[j] = queue[k]
      BY <1>12, <1>14, <3>1
    <3>3. ~HasWire(queue[k].msg) /\ queue[k].msg # m
      BY <1>4, <1>34, <2>3, <3>1, <3>2 DEF Single, Flushable
    <3>4. \A w \in wire' : w.msg # queue[k].msg
      BY <1>17, <3>3 DEF HasWire
    <3> QED BY <3>2, <3>4 DEF HasWire
  <2>8. ASSUME NEW x \in Pairs
        PROVE  /\ sends'[x] <= 1 + breaks'[x]
               /\ HasEntry(x[1])' => IF HasWire(x[1])' THEN sends'[x] <= 1 + breaks'[x]
                                     ELSE sends'[x] <= breaks'[x]
    <3>1. breaks'[x] = breaks[x] /\ breaks[x] \in Nat /\ sends[x] \in Nat
      BY <1>4, <1>5 DEF Typed
    <3>2. CASE x[1] # m
      <4>1. sends'[x] = sends[x]
        BY <1>11, <3>2 DEF NewSends
      <4>2. HasEntry(x[1])' => HasEntry(x[1])
        BY <1>4, <1>12, <1>14, <3>2 DEF HasEntry
      <4>3. HasWire(x[1]) => HasWire(x[1])'
        BY <1>16 DEF HasWire
      <4> QED BY <1>34, <3>1, <4>1, <4>2, <4>3 DEF Single
    <3>3. CASE x[1] = m
      <4>1. sends[x] <= breaks[x]
        <5>1. HasEntry(m)
          BY <1>1, <1>2, <1>6 DEF HasEntry
        <5> QED BY <1>34, <2>4, <3>3, <5>1 DEF Single
      <4>2. sends'[x] = IF x[2] \in to \ R THEN sends[x] + 1 ELSE sends[x]
        BY <1>6, <1>11, <3>3 DEF NewSends
      <4>4. ASSUME HasEntry(m)', x[2] \in to \ R PROVE HasWire(m)'
        <5>0. disk' = {}
          BY <1>4 DEF IInv, Phase
        <5>1. PICK j \in 1..Len(queue') : queue'[j].msg = m
          BY <4>4, <5>0 DEF HasEntry
        <5>2. PICK l \in 1..Len(E) : queue'[j] = E[l]
          BY <1>14, <2>3, <5>1
        <5>3. \E k \in 1..Len(E) : \E w \in wire' \ wire : w.seq = E[k].seq /\ w.to = x[2]
          BY <1>11, <1>25, <4>4, <5>2 DEF Matching
        <5> QED BY <1>17, <5>3 DEF HasWire
      <4>5. HasEntry(x[1])' /\ x[2] \in to \ R => HasWire(x[1])'
        BY <3>3, <4>4
      <4> QED BY <3>1, <4>1, <4>2, <4>5
    <3> QED BY <3>2, <3>3
  <2>9. walk'.at # "read"
    BY <1>4, <1>7
  <2>10. \A f, g \in disk' : f.entry.msg = g.entry.msg => f = g
    BY <1>4, <1>34 DEF Single
  <2>11. ASSUME NEW j \in 1..Len(queue'), HasWire(queue[j].msg)'
         PROVE  OnWire(queue[j])'
    <3>1. PICK w \in wire' : w.msg = queue'[j].msg
      BY <2>11 DEF HasWire
    <3>2. ASSUME NEW k \in 1..Len(queue), k # h, queue'[j] = queue[k]
          PROVE  OnWire(queue[j])'
      <4>1. w \in wire
        BY <1>17, <2>3, <3>1, <3>2
      <4>2. OnWire(queue[k])
        BY <1>34, <3>1, <3>2, <4>1 DEF Single, HasWire
      <4> QED BY <1>16, <3>2, <4>2 DEF OnWire
    <3>3. ASSUME NEW l \in 1..Len(E), queue'[j] = E[l]
          PROVE  OnWire(queue[j])'
      <4>1. w \in wire' \ wire
        BY <1>12, <2>4, <3>1, <3>3 DEF HasWire
      <4>2. w.to \in to /\ w.to \notin R
        BY <1>17, <4>1
      <4>3. R = {}
        BY <2>1, <4>2 DEF Refusals
      <4>4. PICK u \in wire' \ wire : Answers(u, E[l])
        BY <1>25, <4>3
      <4> QED BY <1>12, <1>17, <3>3, <4>4 DEF OnWire, Answers
    <3> QED BY <1>14, <3>2, <3>3
  <2> QED BY <1>4, <1>34, <2>5, <2>6, <2>7, <2>8, <2>9, <2>10, <2>11 DEF Single
<1> QED BY <1>22, <1>23, <1>26, <1>27, <1>28, <1>29, <1>30, <1>32, <1>33, <1>34, <1>36, <1>4 DEF IInv

-----------------------------------------------------------------------------
(* The invariant and what follows from it.                                 *)

LEMMA InitGood == Init => IInv
<1> SUFFICES ASSUME Init PROVE IInv
  OBVIOUS
<1>1. /\ given = << >> /\ queue = << >> /\ disk = {} /\ wire = {}
      /\ link = [s \in Sessions |-> "down"]
      /\ walk = [at |-> "read", session |-> "none", i |-> 0]
      /\ seq = [s \in Sessions |-> 0]
      /\ sends = [x \in Pairs |-> 0] /\ breaks = [x \in Pairs |-> 0]
      /\ settled = {} /\ mistaken = {} /\ refused = {} /\ restored = {}
  BY DEF Init
<1>2. Len(given) = 0 /\ Len(queue) = 0 /\ \A i : i \notin 1..0
  BY <1>1
<1>3. Typed
  <2>1. given \in Seq([session : Sessions, to : SUBSET People]) /\ queue \in Seq(Entries)
    BY <1>1
  <2>2. Len(given) <= MaxMessages /\ seq \in [Sessions -> Nat]
    BY <1>1, <1>2, QueueAssumption
  <2>3. link \in [Sessions -> {"down", "connecting", "up"}]
        /\ sends \in [Pairs -> Nat] /\ breaks \in [Pairs -> Nat]
    BY <1>1
  <2>4. walk \in [at : {"idle", "flush", "read", "write", "off"},
                  session : Sessions \cup {"none"}, i : Nat]
    BY <1>1
  <2> QED BY <1>1, <2>1, <2>2, <2>3, <2>4 DEF Typed
<1>4. Carried
  BY <1>1, FS_EmptySet DEF Carried
<1>5. Known
  BY <1>1, <1>2 DEF Known
<1>6. Phase
  BY <1>1 DEF Phase
<1>7. AllCared /\ Attended /\ Numbered /\ AtOnce /\ InOrder /\ NotPassed
  BY <1>2 DEF AllCared, Attended, Numbered, AtOnce, InOrder, NotPassed
<1>8. Single
  <2>1. \A m : ~HasEntry(m)
    BY <1>1, <1>2 DEF HasEntry
  <2> QED BY <1>1, <1>2, <2>1 DEF Single
<1> QED BY <1>1, <1>3, <1>4, <1>5, <1>6, <1>7, <1>8 DEF IInv

LEMMA StepGood == IInv /\ [Next]_vars => IInv'
<1> SUFFICES ASSUME IInv, [Next]_vars PROVE IInv'
  OBVIOUS
<1>1. ASSUME UNCHANGED vars PROVE IInv'
  <2>1. UNCHANGED <<given, queue, disk, link, wire, walk, seq, sends, breaks, settled, mistaken,
                    refused, restored>>
    BY <1>1 DEF vars
  <2>a. Typed'
    BY <2>1 DEF IInv, Typed
  <2>b. Carried'
    BY <2>1 DEF IInv, Carried, Says
  <2>c. Phase'
    BY <2>1 DEF IInv, Phase
  <2>2. Typed' /\ Carried' /\ Phase'
    BY <2>a, <2>b, <2>c
  <2>3. Attended' /\ Numbered'
    BY <2>1 DEF IInv, Attended, Numbered, OnWire, Refused, Answers, Ahead
  <2>5. \A i \in 1..Len(queue) : Ahead(i)' <=> Ahead(i)
    BY <2>1 DEF Ahead
  <2>4. Alone => Single'
    BY <2>1, StillSingle DEF IInv
  <2> QED BY <2>1, <2>2, <2>3, <2>4, <2>5, StillStep DEF IInv
<1>2. ASSUME User PROVE IInv'
  BY <1>2, MsgStep, ClearStep, ClearAllStep, ExitStep DEF User
<1>3. ASSUME Network PROVE IInv'
  BY <1>3, ConnectStep, UpStep, DownStep, AckStep DEF Network
<1>4. ASSUME Program PROVE IInv'
  BY <1>4, FlushPassStep, FlushSendStep, FlushEndStep, WriteOneStep, WriteEndStep,
     ReadOneStep, ReadEndStep DEF Program
<1>5. ASSUME Crash \/ Start PROVE IInv'
  BY <1>5, CrashStep, StartStep
<1> QED BY <1>1, <1>2, <1>3, <1>4, <1>5 DEF Next

\* What was given, what is queued, what is on a connection and what was sent
\* agree in every reachable state, for any accounts, people and targets.
THEOREM Inductive == Spec => []IInv
<1>1. Init => IInv
  BY InitGood
<1>2. IInv /\ [Next]_vars => IInv'
  BY StepGood
<1> QED BY <1>1, <1>2, PTL DEF Spec

\* The variables keep their types, and the walk of msg_queue_flush() never
\* stands beyond the end of a list that is shortened and lengthened under it.
THEOREM TypeCorrect == Spec => []TypeOK
<1>1. IInv => TypeOK
  <2> SUFFICES ASSUME IInv PROVE TypeOK
    OBVIOUS
  <2>1. walk.at \in {"idle", "flush", "read", "write", "off"}
    BY DEF IInv, Typed
  <2>2. walk.at \in {"flush", "write"} => walk.i \in 1..(Len(queue) + 1)
    BY DEF IInv, Phase
  <2> QED BY <2>1, <2>2 DEF IInv, Typed, OnWires, TypeOK
<1> QED BY <1>1, Inductive, PTL

\* A message stays in the queue or on disk until its own answer comes; flush,
\* refusals, exit and start keep it, and of the entries of its own account an
\* answer takes away only that of the message it answers, although the numbers
\* begin anew with every connection and entries of earlier connections lie in
\* the queue (msg_queue_remove_seq, msg_queue_flush, msg_queue_write,
\* msg_queue_read).  Not promised, and excepted by `mistaken`: that it is kept
\* from the answers to other accounts, which msg_queue_remove_seq() does not
\* tell from its own.
THEOREM NoMessageLost == Spec => []NoneLost
<1>1. IInv => NoneLost
  <2> SUFFICES ASSUME IInv, NEW m \in 1..Len(given), NEW p \in given[m].to
               PROVE  \/ <<m, p>> \in Queued \cup OnDisk \cup settled \cup mistaken
                      \/ given[m].session \notin Answered /\ sends[<<m, p>>] > 0
    BY DEF NoneLost
  <2>1. Cared(m, p)
    BY DEF IInv, AllCared
  <2>2. ASSUME NEW i \in 1..Len(queue), Brings(i, m, p)
        PROVE  <<m, p>> \in Queued
    <3>1. queue[i] \in Range(queue)
      BY DEF IInv, Typed, Range
    <3> QED BY <2>2, <3>1 DEF Queued, Of, Brings, Holds
  <2>3. ASSUME NEW f \in disk, Holds(f.entry, m, p)
        PROVE  <<m, p>> \in OnDisk
    BY <2>3 DEF OnDisk, Of, Holds
  <2> QED BY <2>1, <2>2, <2>3 DEF Cared
<1> QED BY <1>1, Inductive, PTL

\* Where only one account answers (one of gg with any of jabber and icq), no
\* answer is mistaken for another, and no message is lost at all: the entries
\* of the other accounts have the number 0, which libgadu never gives
\* (jabber_command_msg, msg_queue_remove_seq).
THEOREM OneAccountKeepsAll ==
    ASSUME OneAnswers PROVE Spec => [](NoneLost /\ mistaken = {})
<1>1. IInv => mistaken = {}
  BY DEF IInv
<1> QED BY <1>1, Inductive, NoMessageLost, PTL

\* Once the flush of a session that came up is over, nothing of it lies in the
\* queue untried, however the flush moved the list: it is on the connection or
\* libgadu refused it there (msg_queue_flush).
THEOREM NothingWaits == Spec => []NoneWaits
<1>1. IInv => NoneWaits
  <2> SUFFICES ASSUME IInv, walk = Idle, NEW e \in Range(queue), link[e.session] = "up"
               PROVE  OnWire(e) \/ Refused(e)
    BY DEF NoneWaits, OnWire, Refused
  <2>1. PICK i \in 1..Len(queue) : e = queue[i]
    BY DEF IInv, Typed, Range
  <2>2. OnWire(queue[i]) \/ Refused(queue[i])
    BY <2>1 DEF IInv, Attended, Ahead, Idle
  <2> QED BY <2>1, <2>2 DEF OnWire, Refused
<1> QED BY <1>1, Inductive, PTL

\* Messages to one person leave in the order in which they were given, unless
\* one of them was refused or on disk in between (msg_queue_flush,
\* gg_command_msg).
THEOREM NothingOvertakes == Spec => []NoneOvertakes
<1>1. IInv => NoneOvertakes
  <2> SUFFICES ASSUME IInv, NEW m2 \in 1..Len(given), NEW m1 \in 1..(m2 - 1),
                      NEW p \in given[m1].to \cap given[m2].to,
                      given[m1].session = given[m2].session,
                      sends[<<m2, p>>] > 0, sends[<<m1, p>>] = 0,
                      Plain(m1), <<m1, p>> \in Queued
               PROVE  FALSE
    BY DEF NoneOvertakes, Plain
  <2>1. m1 \in 1..Len(given) /\ m1 < m2
    BY QueueFacts DEF IInv
  <2>2. PICK i \in 1..Len(queue) : queue[i].msg = m1
    <3>1. PICK e \in Range(queue) : <<m1, p>> \in {e.msg} \X e.to
      BY DEF Queued, Of
    <3>2. \E i \in 1..Len(queue) : e = queue[i]
      BY DEF IInv, Typed, Range
    <3> QED BY <3>1, <3>2
  <2>3. queue[i].session = given[m1].session
    BY <2>2 DEF IInv, Known, Stands, Says
  <2>4. ~(sends[<<m1, p>>] > 0)
    OBVIOUS
  <2>5. NotSent(m1)
    BY <2>1, <2>4 DEF IInv, AtOnce, Plain
  <2>6. NotSent(m2)
    BY <2>1, <2>2, <2>3, <2>5 DEF IInv, NotPassed
  <2>7. sends[<<m2, p>>] = 0
    BY <2>6 DEF NotSent
  <2> QED BY <2>7
<1> QED BY <1>1, Inductive, PTL

\* When every target is one person, a message goes out a second time only for
\* a connection that broke under it (the mark of msg_queue_flush()).
THEOREM NothingTwice == ASSUME Alone PROVE Spec => []NoneTwice
<1>1. IInv => NoneTwice
  BY DEF IInv, Single, NoneTwice
<1> QED BY <1>1, Inductive, PTL
=============================================================================
