--------------------------- MODULE EkgLoopProofs ---------------------------
(***************************************************************************)
(* Proofs about EkgLoop, for any number of watches, any descriptors and    *)
(* any budget.  When no handler calls ekg_loop(), and when handlers do but *)
(* are gentle (Gentle below): the types, and that no activation ever holds *)
(* a dangling pointer or re-enters a watch, although handlers free and add *)
(* watches in the middle of walks; and that EkgLoop implements             *)
(* WatchContract.  With any number of nested loops and any handlers: that  *)
(* no watch is served for what select() reported of an older one (at the   *)
(* end).                                                                   *)
(*                                                                         *)
(* The command that the loop gives between reading a watch and dispatching *)
(* it may do what handlers do; the watch stays alive because the command   *)
(* spares the watches of the keyboard, and because nothing that is called  *)
(* under it ends the last call of one of them: the conjunct Pinned.        *)
(*                                                                         *)
(* The invariant is stated of an arbitrary stack s, list c, marks r and    *)
(* queues q, because most steps build the next stack out of a pop, a       *)
(* change of the top and a push; there is one lemma for each.              *)
(***************************************************************************)
EXTENDS EkgLoop, FiniteSetTheorems, SequenceTheorems, WellFoundedInduction, TLAPS

Marks == [Watches -> {-1, 0, 1, 2}]
IsHandler(f) == f.at \in {"event", "final"}
AtWork(f)    == f.at \in {"event", "final", "autoback"}

\* What handlers refrain from where some of them wait in a loop of their own:
\* they free no watch whose handler runs, set no timeout, and close nothing,
\* nor does ekg2 for them at the end of a stream.  Where they do not, nested
\* loops free a watch under the handler that waits.
Gentle ==
  ~FreeRunning /\ TimedKinds = {} /\ "close" \notin Api /\ "readline" \notin Kinds

Manageable == MaxLoops = 1 \/ Gentle

\* The outermost activation is a loop.  None runs below a last call.
Rooted(s) ==
  /\ s[1].at = "loop"
  /\ MaxLoops = 1 => \A i \in 2..Len(s) : s[i].at # "loop"
  /\ \A i, j \in 1..Len(s) : (i < j /\ s[j].at = "loop") => s[i].at # "final"

\* The node that a loop stands on is in the list; while anything runs above the
\* loop it is that of the watch that the loop serves.
Walks(s, c) ==
  \A i \in 1..Len(s) :
    (s[i].at = "loop" /\ s[i].cur # BeforeHead) =>
      IF i = Len(s) THEN c[s[i].cur] \in {"live", "empty"}
      ELSE AtWork(s[i + 1]) /\ s[i + 1].w = s[i].cur

\* The mark of a watch says whether its handler is on the stack, and why.
Marked(s, c, r) ==
  \A i \in 1..Len(s) :
    /\ s[i].at = "event" => c[s[i].w] = "live" /\ r[s[i].w] \in {-1, 1}
    /\ s[i].at = "final" => c[s[i].w] = "live" /\ r[s[i].w] = 2
    /\ s[i].at = "autoback" => c[s[i].w] = "live"

Owned(s, r) ==
  \A w \in Watches : r[w] # 0 => \E i \in 1..Len(s) : IsHandler(s[i]) /\ s[i].w = w

Distinct(s) ==
  \A i, j \in 1..Len(s) :
    (IsHandler(s[i]) /\ IsHandler(s[j]) /\ s[i].w = s[j].w) => i = j

\* What a write handler was given is still in the buffer.
Given(s, q) ==
  \A i \in 1..Len(s) :
    (s[i].at = "event" /\ s[i].how = "write") => s[i].n <= q[s[i].w]

Good(s, c, r, q) ==
  /\ s \in Seq(Frames) /\ Len(s) >= 1
  /\ r \in Marks
  /\ Rooted(s)
  /\ Walks(s, c)
  /\ Marked(s, c, r)
  /\ Owned(s, r)
  /\ Distinct(s)
  /\ Given(s, q)

\* /_autoback stands between the loop that serves the keyboard's watch and what
\* that command calls, which neither waits in a loop nor handles such watches.
Pinned(s, d) ==
  \A i \in 1..Len(s) : s[i].at = "autoback" =>
    /\ d[s[i].w] \in Stdin
    /\ i - 1 \in 1..Len(s)
    /\ s[i - 1].at = "loop" /\ s[i - 1].cur = s[i].w
    /\ \A j \in 1..Len(s) : i < j =>
         /\ s[j].at # "loop"
         /\ AtWork(s[j]) => d[s[j].w] \notin Stdin
         /\ s[j].at = "remove" => s[j].fd \notin Stdin

Typed ==
  /\ cell \in [Watches -> {"unused", "live", "empty", "freed"}]
  /\ kind \in [Watches -> AllKinds]
  /\ type \in [Watches -> {"READ", "WRITE", "NONE"}]
  /\ fd \in [Watches -> Fds \cup {0}]
  /\ queue \in [Watches -> Nat]
  /\ corked \subseteq Watches
  /\ open \subseteq Fds
  /\ nremoved \in Nat

\* What is kept where handlers are gentle: no running watch is condemned, for
\* watch_remove() does not find any that runs below it.
Tame(s, r, y, d) ==
  /\ \A i \in 1..Len(s) : /\ s[i].at = "event" => s[i].how # "line"
                          /\ s[i].at = "final" => ~s[i].shut
  /\ \A i, j \in 1..Len(s) :
       (j < i /\ s[i].at = "remove" /\ s[j].at = "event") =>
         ~(d[s[j].w] = s[i].fd /\ y[s[j].w] \in s[i].type)
  /\ \A w \in Watches : r[w] # 1

Settled ==
  /\ open = Fds
  /\ \A w \in Watches : /\ cell[w] = "live" => fd[w] \in Fds
                        /\ type[w] = "READ" => kind[w] = "read"

Core == Typed /\ Good(stack, cell, removed, queue)

IInv ==
  /\ Core
  /\ Pinned(stack, fd)
  /\ Gentle => Tame(stack, removed, type, fd) /\ Settled

-----------------------------------------------------------------------------
(* Sequences. *)

LEMMA PopFacts ==
  ASSUME NEW S, NEW s \in Seq(S), Len(s) >= 1
  PROVE  /\ SubSeq(s, 1, Len(s) - 1) \in Seq(S)
         /\ Len(SubSeq(s, 1, Len(s) - 1)) = Len(s) - 1
         /\ \A i \in 1..Len(s) - 1 : SubSeq(s, 1, Len(s) - 1)[i] = s[i]
<1>1. Len(s) \in Nat /\ \A i \in 1..Len(s) : s[i] \in S
  OBVIOUS
<1>2. Len(s) - 1 \in Int /\ \A i \in 1..Len(s) - 1 : s[i] \in S
  BY <1>1
<1>3. /\ SubSeq(s, 1, Len(s) - 1) \in Seq(S)
      /\ Len(SubSeq(s, 1, Len(s) - 1)) = IF 1 <= Len(s) - 1 THEN Len(s) - 1 - 1 + 1 ELSE 0
      /\ \A i \in 1..Len(s) - 1 - 1 + 1 : SubSeq(s, 1, Len(s) - 1)[i] = s[1 + i - 1]
  BY <1>2, SubSeqProperties
<1>4. Len(s) - 1 - 1 + 1 = Len(s) - 1 /\ \A i \in Nat : 1 + i - 1 = i
  BY <1>1
<1> QED BY <1>1, <1>3, <1>4

LEMMA PushFacts ==
  ASSUME NEW S, NEW s \in Seq(S), NEW f \in S
  PROVE  /\ Append(s, f) \in Seq(S)
         /\ Len(Append(s, f)) = Len(s) + 1
         /\ \A i \in 1..Len(s) : Append(s, f)[i] = s[i]
         /\ Append(s, f)[Len(s) + 1] = f
  BY AppendProperties

-----------------------------------------------------------------------------
(* Building stacks. *)

LEMMA FrameFacts ==
  ASSUME NEW f \in Frames
  PROVE  /\ f.at \in {"loop", "event", "final", "callback", "autoback", "remove"}
         /\ IsHandler(f) \/ AtWork(f) => f.w \in Watches /\ f.calls \in Nat
         /\ f.at = "callback" => f.calls \in Nat
         /\ f.at = "loop" => f.cur \in 1..BeforeHead
         /\ f.at = "remove" => f.type \in {{"READ"}, {"WRITE"}}
  BY DEF Frames, IsHandler, AtWork

\* If a loop is on top of s it has called nothing, or just served w.
Serves(s, w) == s[Len(s)].at = "loop" => s[Len(s)].cur \in {BeforeHead, w}

\* An activation that is not of a handler returns; nodes that are empty may go.
LEMMA PopOther ==
  ASSUME NEW s, NEW c, NEW r, NEW q, NEW c2, Good(s, c, r, q),
         ~IsHandler(s[Len(s)]), Len(s) # 1,
         \A v \in Watches : c[v] = "live" => c2[v] = "live"
  PROVE  /\ Good(SubSeq(s, 1, Len(s) - 1), c2, r, q)
         /\ AtWork(s[Len(s)]) => Serves(SubSeq(s, 1, Len(s) - 1), s[Len(s)].w)
<1> DEFINE t == SubSeq(s, 1, Len(s) - 1)
<1>1. s \in Seq(Frames) /\ Len(s) >= 1 /\ Len(s) \in Nat
  BY DEF Good
<1>2. /\ t \in Seq(Frames) /\ Len(t) = Len(s) - 1
      /\ \A i \in 1..Len(s) - 1 : t[i] = s[i]
  BY <1>1, PopFacts
<1> HIDE DEF t
<1>4. Len(t) >= 1 /\ Len(t) \in Nat /\ \A i \in 1..Len(t) : i \in 1..Len(s) /\ t[i] = s[i]
  BY <1>1, <1>2
<1>f. \A i \in 1..Len(s) : s[i] \in Frames
  BY <1>1
<1>5. Rooted(t)
  <2>1. 1 \in 1..Len(t) /\ \A i \in 2..Len(t) : i \in 1..Len(t) /\ i \in 2..Len(s)
    BY <1>1, <1>2, <1>4
  <2> QED BY <2>1, <1>4 DEF Good, Rooted
<1>a. ASSUME NEW i \in 1..Len(t), t[i].at = "loop", t[i].cur # BeforeHead
      PROVE  /\ i = Len(t) => /\ AtWork(s[Len(s)]) /\ t[i].cur = s[Len(s)].w
                              /\ c2[t[i].cur] = "live"
             /\ i # Len(t) => AtWork(t[i + 1]) /\ t[i + 1].w = t[i].cur
  <2>1. i \in 1..Len(s) /\ i # Len(s) /\ t[i] = s[i] /\ i + 1 \in 1..Len(s)
    BY <1>1, <1>2, <1>4
  <2>2. AtWork(s[i + 1]) /\ s[i + 1].w = s[i].cur
    BY <1>a, <2>1 DEF Good, Walks
  <2>3. CASE i = Len(t)
    <3>1. i + 1 = Len(s)
      BY <1>1, <1>2, <2>3
    <3>2. s[i + 1].at = "autoback"
      BY <2>2, <3>1 DEF AtWork, IsHandler
    <3>3. c[s[i + 1].w] = "live"
      BY <2>1, <3>2 DEF Good, Marked
    <3>4. s[i + 1].w \in Watches
      BY <1>f, <2>1, <2>2, FrameFacts
    <3> QED BY <2>1, <2>2, <2>3, <3>1, <3>3, <3>4
  <2>4. CASE i # Len(t)
    <3>1. i + 1 \in 1..Len(t)
      BY <1>1, <1>2, <2>1, <2>4
    <3> QED BY <1>4, <2>1, <2>2, <2>4, <3>1
  <2> QED BY <2>3, <2>4
<1>w. Walks(t, c2)
  BY <1>a DEF Walks
<1>v. AtWork(s[Len(s)]) => Serves(t, s[Len(s)].w)
  <2>1. Len(t) \in 1..Len(t)
    BY <1>4
  <2> QED BY <1>a, <2>1 DEF Serves
<1>6. Marked(t, c2, r)
  <2> SUFFICES ASSUME NEW i \in 1..Len(t), AtWork(t[i])
               PROVE  /\ t[i].at = "event" => c2[t[i].w] = "live" /\ r[t[i].w] \in {-1, 1}
                      /\ t[i].at = "final" => c2[t[i].w] = "live" /\ r[t[i].w] = 2
                      /\ t[i].at = "autoback" => c2[t[i].w] = "live"
    BY DEF Marked, AtWork
  <2>1. t[i] = s[i] /\ i \in 1..Len(s) /\ t[i].w \in Watches
    BY <1>4, <1>f, FrameFacts
  <2> QED BY <2>1 DEF Good, Marked
<1>8. Distinct(t) /\ Given(t, q)
  BY <1>4 DEF Good, Distinct, Given, IsHandler
<1>7. Owned(t, r)
  <2> SUFFICES ASSUME NEW w \in Watches, r[w] # 0
               PROVE  \E i \in 1..Len(t) : IsHandler(t[i]) /\ t[i].w = w
    BY DEF Owned
  <2>1. PICK i \in 1..Len(s) : IsHandler(s[i]) /\ s[i].w = w
    BY DEF Good, Owned
  <2>2. i # Len(s)
    BY <2>1
  <2>3. i \in 1..Len(t)
    BY <1>1, <1>2, <2>1, <2>2
  <2> QED BY <2>1, <2>3, <1>4
<1> QED BY <1>2, <1>4, <1>5, <1>w, <1>v, <1>6, <1>7, <1>8 DEF Good, t

\* A handler of w returns; what is changed is changed at w.
LEMMA PopHandler ==
  ASSUME NEW s, NEW c, NEW r, NEW q, NEW c2, NEW q2, NEW w, Good(s, c, r, q),
         IsHandler(s[Len(s)]), w = s[Len(s)].w,
         c2[w] \in {"live", "empty"},
         c2[w] = "live" \/ \A i \in 1..Len(s) : s[i].at = "autoback" => s[i].w # w,
         \A v \in Watches : v # w => c2[v] = c[v] /\ q2[v] = q[v]
  PROVE  /\ Good(SubSeq(s, 1, Len(s) - 1), c2, [r EXCEPT ![w] = 0], q2)
         /\ Serves(SubSeq(s, 1, Len(s) - 1), w)
<1> DEFINE t == SubSeq(s, 1, Len(s) - 1)
           r2 == [r EXCEPT ![w] = 0]
<1>1. s \in Seq(Frames) /\ Len(s) >= 1 /\ Len(s) \in Nat
  BY DEF Good
<1>2. /\ t \in Seq(Frames) /\ Len(t) = Len(s) - 1
      /\ \A i \in 1..Len(s) - 1 : t[i] = s[i]
  BY <1>1, PopFacts
<1>3. Len(s) # 1
  BY DEF Good, Rooted, IsHandler
<1>4. \A i \in 1..Len(s) : s[i] \in Frames
  BY <1>1
<1>5. w \in Watches
  BY <1>1, <1>4, FrameFacts
<1> HIDE DEF t
<1>6. /\ Len(t) >= 1 /\ Len(t) \in Nat
      /\ \A i \in 1..Len(t) : i \in 1..Len(s) /\ i # Len(s) /\ t[i] = s[i]
  BY <1>1, <1>2, <1>3
<1>7. \A i \in 1..Len(t) : IsHandler(t[i]) => t[i].w \in Watches /\ t[i].w # w
  <2> SUFFICES ASSUME NEW i \in 1..Len(t), IsHandler(t[i])
               PROVE  t[i].w \in Watches /\ t[i].w # w
    OBVIOUS
  <2>1. Len(s) \in 1..Len(s)
    BY <1>1
  <2> QED BY <1>4, <1>6, <2>1, FrameFacts DEF Good, Distinct
<1>8. /\ r2 \in Marks /\ r2[w] = 0
      /\ \A v \in Watches : v # w => r2[v] = r[v]
  BY <1>5 DEF Good, Marks
<1> HIDE DEF r2
<1>9. Rooted(t)
  <2>1. 1 \in 1..Len(t) /\ \A i \in 2..Len(t) : i \in 1..Len(t) /\ i \in 2..Len(s)
    BY <1>1, <1>2, <1>6
  <2> QED BY <2>1, <1>6 DEF Good, Rooted
<1>a. ASSUME NEW i \in 1..Len(t), t[i].at = "loop", t[i].cur # BeforeHead
      PROVE  /\ i = Len(t) => t[i].cur = w
             /\ i # Len(t) => AtWork(t[i + 1]) /\ t[i + 1].w = t[i].cur
  <2>1. i \in 1..Len(s) /\ i # Len(s) /\ t[i] = s[i]
    BY <1>6
  <2>2. AtWork(s[i + 1]) /\ s[i + 1].w = s[i].cur
    BY <1>a, <2>1 DEF Good, Walks
  <2>3. /\ i = Len(t) => i + 1 = Len(s)
        /\ i # Len(t) => i + 1 \in 1..Len(t)
    BY <1>1, <1>2
  <2> QED BY <1>6, <2>1, <2>2, <2>3
<1>b. Serves(t, w) /\ Walks(t, c2)
  <2>1. Len(t) \in 1..Len(t)
    BY <1>6
  <2> QED BY <1>a, <2>1 DEF Serves, Walks
<1>10. Marked(t, c2, r2)
  <2>1. \A i \in 1..Len(t) : t[i].at = "autoback" => c2[t[i].w] = "live"
    <3> SUFFICES ASSUME NEW i \in 1..Len(t), t[i].at = "autoback"
                 PROVE  c2[t[i].w] = "live"
      OBVIOUS
    <3>1. i \in 1..Len(s) /\ t[i] = s[i] /\ c[s[i].w] = "live"
      BY <1>6 DEF Good, Marked
    <3>2. s[i].w \in Watches
      BY <1>4, <3>1, FrameFacts DEF AtWork
    <3>3. CASE s[i].w = w
      BY <3>1, <3>3
    <3>4. CASE s[i].w # w
      BY <3>1, <3>2, <3>4
    <3> QED BY <3>3, <3>4
  <2> QED BY <2>1, <1>6, <1>7, <1>8 DEF Good, Marked, IsHandler
<1>11. Distinct(t)
  BY <1>6 DEF Good, Distinct, IsHandler
<1>12. Given(t, q2)
  BY <1>6, <1>7 DEF Good, Given, IsHandler
<1>13. Owned(t, r2)
  <2> SUFFICES ASSUME NEW v \in Watches, r2[v] # 0
               PROVE  \E i \in 1..Len(t) : IsHandler(t[i]) /\ t[i].w = v
    BY DEF Owned
  <2>1. v # w /\ r[v] # 0
    BY <1>8
  <2>2. PICK i \in 1..Len(s) : IsHandler(s[i]) /\ s[i].w = v
    BY <2>1 DEF Good, Owned
  <2>3. i \in 1..Len(t)
    BY <1>1, <1>2, <2>1, <2>2
  <2> QED BY <2>2, <2>3, <1>6
<1> QED BY <1>2, <1>6, <1>8, <1>9, <1>b, <1>10, <1>11, <1>12, <1>13 DEF Good, t, r2

\* The top activation goes on: its budget, its next line, the next node.
LEMMA Replace ==
  ASSUME NEW s, NEW c, NEW r, NEW q, NEW f \in Frames, Good(s, c, r, q),
         f.at = s[Len(s)].at,
         IsHandler(f) \/ AtWork(f) => f.w = s[Len(s)].w,
         f.at = "event" => f.how = s[Len(s)].how,
         (f.at = "event" /\ f.how = "write") => f.n = s[Len(s)].n,
         (f.at = "loop" /\ f.cur # BeforeHead) => c[f.cur] \in {"live", "empty"}
  PROVE  Good(Append(SubSeq(s, 1, Len(s) - 1), f), c, r, q)
<1> DEFINE t == Append(SubSeq(s, 1, Len(s) - 1), f)
<1>1. s \in Seq(Frames) /\ Len(s) >= 1 /\ Len(s) \in Nat /\ Len(s) \in 1..Len(s)
  BY DEF Good
<1>2. /\ SubSeq(s, 1, Len(s) - 1) \in Seq(Frames) /\ Len(SubSeq(s, 1, Len(s) - 1)) = Len(s) - 1
      /\ \A i \in 1..Len(s) - 1 : SubSeq(s, 1, Len(s) - 1)[i] = s[i]
  BY <1>1, PopFacts
<1>3. /\ t \in Seq(Frames) /\ Len(t) = Len(s)
      /\ \A i \in 1..Len(s) - 1 : t[i] = s[i]
      /\ t[Len(s)] = f
  BY <1>1, <1>2, PushFacts
<1> HIDE DEF t
<1>4. \A i \in 1..Len(s) : i # Len(s) => t[i] = s[i]
  BY <1>1, <1>3
<1>5. /\ \A i \in 1..Len(s) : t[i].at = s[i].at
      /\ \A i \in 1..Len(s) : IsHandler(t[i]) \/ AtWork(t[i]) => t[i].w = s[i].w
      /\ \A i \in 1..Len(s) : t[i].at = "event" => t[i].how = s[i].how
      /\ \A i \in 1..Len(s) : (t[i].at = "event" /\ t[i].how = "write") => t[i].n = s[i].n
  BY <1>1, <1>3, <1>4
<1>6. Rooted(t)
  <2>1. 1 \in 1..Len(s) /\ \A i \in 2..Len(s) : i \in 1..Len(s)
    BY <1>1
  <2> QED BY <2>1, <1>3, <1>5 DEF Good, Rooted
<1>w. Walks(t, c)
  <2> SUFFICES ASSUME NEW i \in 1..Len(s), t[i].at = "loop", t[i].cur # BeforeHead
               PROVE  IF i = Len(s) THEN c[t[i].cur] \in {"live", "empty"}
                      ELSE AtWork(t[i + 1]) /\ t[i + 1].w = t[i].cur
    BY <1>3 DEF Walks
  <2>1. CASE i = Len(s)
    BY <1>3, <2>1
  <2>2. CASE i # Len(s)
    <3>1. t[i] = s[i] /\ i + 1 \in 1..Len(s)
      BY <1>1, <1>4, <2>2
    <3>2. AtWork(s[i + 1]) /\ s[i + 1].w = s[i].cur
      BY <2>2, <3>1 DEF Good, Walks
    <3>3. t[i + 1].at = s[i + 1].at
      BY <1>5, <3>1
    <3>4. AtWork(t[i + 1])
      BY <3>2, <3>3 DEF AtWork
    <3> QED BY <1>5, <2>2, <3>1, <3>2, <3>4
  <2> QED BY <2>1, <2>2
<1>7. Marked(t, c, r)
  BY <1>3, <1>5 DEF Good, Marked, IsHandler, AtWork
<1>8. Owned(t, r)
  BY <1>3, <1>5 DEF Good, Owned, IsHandler
<1>9. Distinct(t)
  BY <1>3, <1>5 DEF Good, Distinct, IsHandler
<1>10. Given(t, q)
  BY <1>3, <1>5 DEF Good, Given, IsHandler
<1> QED BY <1>1, <1>3, <1>6, <1>w, <1>7, <1>8, <1>9, <1>10 DEF Good, t

\* A callback, /_autoback, a watch_remove() or a loop starts.
LEMMA PushOther ==
  ASSUME NEW s, NEW c, NEW r, NEW q, NEW f \in Frames, Good(s, c, r, q),
         f.at \in {"callback", "autoback", "remove", "loop"},
         f.at # "autoback" => (s[Len(s)].at = "loop" => s[Len(s)].cur = BeforeHead),
         f.at = "autoback" => c[f.w] = "live" /\ Serves(s, f.w),
         f.at = "loop" => /\ MaxLoops # 1 /\ f.cur = BeforeHead
                          /\ \A i \in 1..Len(s) : s[i].at # "final"
  PROVE  Good(Append(s, f), c, r, q)
<1> DEFINE t == Append(s, f)
<1>1. s \in Seq(Frames) /\ Len(s) >= 1 /\ Len(s) \in Nat
  BY DEF Good
<1>2. /\ t \in Seq(Frames) /\ Len(t) = Len(s) + 1
      /\ \A i \in 1..Len(s) : t[i] = s[i]
      /\ t[Len(s) + 1] = f
  BY <1>1, PushFacts
<1> HIDE DEF t
<1>3. \A i \in 1..Len(t) : (i \in 1..Len(s) /\ t[i] = s[i]) \/ t[i] = f
  BY <1>1, <1>2
<1>4. \A i \in 1..Len(s) : i \in 1..Len(t)
  BY <1>1, <1>2
<1>5. Rooted(t)
  <2>1. 1 \in 1..Len(s) /\ \A i \in 2..Len(t) : i \in 1..Len(t) /\ (i \in 1..Len(s) => i \in 2..Len(s))
    BY <1>1, <1>2
  <2>2. t[1] = s[1]
    BY <2>1, <1>2
  <2>3. ASSUME MaxLoops = 1, NEW i \in 2..Len(t) PROVE t[i].at # "loop"
    BY <2>1, <2>3, <1>3 DEF Good, Rooted
  <2>4. ASSUME NEW i \in 1..Len(t), NEW j \in 1..Len(t), i < j, t[j].at = "loop"
        PROVE  t[i].at # "final"
    <3>1. i \in 1..Len(s) /\ t[i] = s[i]
      BY <1>1, <1>2, <2>4
    <3>2. (j \in 1..Len(s) /\ t[j] = s[j]) \/ t[j] = f
      BY <1>3
    <3> QED BY <2>4, <3>1, <3>2 DEF Good, Rooted
  <2> QED BY <2>2, <2>3, <2>4 DEF Good, Rooted
<1>w. Walks(t, c)
  <2> SUFFICES ASSUME NEW i \in 1..Len(t), t[i].at = "loop", t[i].cur # BeforeHead
               PROVE  IF i = Len(t) THEN c[t[i].cur] \in {"live", "empty"}
                      ELSE AtWork(t[i + 1]) /\ t[i + 1].w = t[i].cur
    BY DEF Walks
  <2>2. CASE i = Len(s) + 1
    BY <1>1, <1>2, <2>2
  <2>4. CASE i = Len(s)
    <3>1. i # Len(t) /\ t[i] = s[i] /\ t[i + 1] = f
      BY <1>1, <1>2, <2>4
    <3>2. f.at = "autoback" /\ f.w = s[i].cur
      BY <2>4, <3>1 DEF Serves
    <3> QED BY <3>1, <3>2 DEF AtWork
  <2>3. CASE i # Len(s) /\ i # Len(s) + 1
    <3>1. i \in 1..Len(s) /\ i + 1 \in 1..Len(s) /\ i # Len(t)
      BY <1>1, <1>2, <2>3
    <3> QED BY <1>2, <2>3, <3>1 DEF Good, Walks
  <2> QED BY <2>2, <2>3, <2>4
<1>6. Marked(t, c, r)
  BY <1>3 DEF Good, Marked
<1>7. Owned(t, r)
  BY <1>2, <1>4 DEF Good, Owned
<1>8. Distinct(t)
  BY <1>3 DEF Good, Distinct, IsHandler
<1>9. Given(t, q)
  BY <1>3 DEF Good, Given
<1> QED BY <1>1, <1>2, <1>5, <1>w, <1>6, <1>7, <1>8, <1>9 DEF Good, t

\* A handler starts on a watch that is in nobody's hands.
LEMMA PushHandler ==
  ASSUME NEW s, NEW c, NEW r, NEW q, NEW f \in Frames, NEW w, NEW m, Good(s, c, r, q),
         IsHandler(f), w = f.w, c[w] = "live", r[w] = 0, Serves(s, w),
         m = IF f.at = "event" THEN -1 ELSE 2,
         (f.at = "event" /\ f.how = "write") => f.n <= q[w]
  PROVE  Good(Append(s, f), c, [r EXCEPT ![w] = m], q)
<1> DEFINE t == Append(s, f)
           r2 == [r EXCEPT ![w] = m]
<1>1. s \in Seq(Frames) /\ Len(s) >= 1 /\ Len(s) \in Nat
  BY DEF Good
<1>2. /\ t \in Seq(Frames) /\ Len(t) = Len(s) + 1
      /\ \A i \in 1..Len(s) : t[i] = s[i]
      /\ t[Len(s) + 1] = f
  BY <1>1, PushFacts
<1>w. w \in Watches
  BY FrameFacts
<1>r. /\ r2 \in Marks /\ r2[w] = m
      /\ \A v \in Watches : v # w => r2[v] = r[v]
  BY <1>w DEF Good, Marks
<1> HIDE DEF t, r2
<1>3. \A i \in 1..Len(t) : (i \in 1..Len(s) /\ t[i] = s[i]) \/ (i = Len(s) + 1 /\ t[i] = f)
  BY <1>1, <1>2
<1>4. Len(t) \in 1..Len(t) /\ \A i \in 1..Len(s) : i \in 1..Len(t)
  BY <1>1, <1>2
<1>5. \A i \in 1..Len(s) : IsHandler(s[i]) => s[i].w \in Watches /\ s[i].w # w
  <2>1. \A i \in 1..Len(s) : s[i] \in Frames
    BY <1>1
  <2> QED BY <2>1, FrameFacts DEF Good, Marked, IsHandler
<1>6. Rooted(t)
  <2>1. 1 \in 1..Len(s) /\ \A i \in 2..Len(t) : i \in 1..Len(t) /\ (i \in 1..Len(s) => i \in 2..Len(s))
    BY <1>1, <1>2
  <2>2. t[1] = s[1] /\ f.at # "loop"
    BY <2>1, <1>2 DEF IsHandler
  <2>3. ASSUME MaxLoops = 1, NEW i \in 2..Len(t) PROVE t[i].at # "loop"
    BY <2>1, <2>2, <2>3, <1>3 DEF Good, Rooted
  <2>4. ASSUME NEW i \in 1..Len(t), NEW j \in 1..Len(t), i < j, t[j].at = "loop"
        PROVE  t[i].at # "final"
    <3>1. i \in 1..Len(s) /\ t[i] = s[i]
      BY <1>1, <1>2, <2>4
    <3>2. j \in 1..Len(s) /\ t[j] = s[j]
      BY <1>3, <2>2, <2>4
    <3> QED BY <2>4, <3>1, <3>2 DEF Good, Rooted
  <2> QED BY <2>2, <2>3, <2>4 DEF Good, Rooted
<1>x. Walks(t, c)
  <2> SUFFICES ASSUME NEW i \in 1..Len(t), t[i].at = "loop", t[i].cur # BeforeHead
               PROVE  IF i = Len(t) THEN c[t[i].cur] \in {"live", "empty"}
                      ELSE AtWork(t[i + 1]) /\ t[i + 1].w = t[i].cur
    BY DEF Walks
  <2>1. i # Len(t) /\ i \in 1..Len(s) /\ t[i] = s[i]
    BY <1>1, <1>2 DEF IsHandler
  <2>2. CASE i = Len(s)
    BY <1>2, <2>1, <2>2 DEF Serves, IsHandler, AtWork
  <2>3. CASE i # Len(s)
    <3>1. i + 1 \in 1..Len(s)
      BY <1>1, <2>1, <2>3
    <3> QED BY <1>2, <2>1, <2>3, <3>1 DEF Good, Walks
  <2> QED BY <2>2, <2>3
<1>7. Marked(t, c, r2)
  <2>a. \A i \in 1..Len(t) : t[i].at = "autoback" => c[t[i].w] = "live"
    BY <1>3 DEF Good, Marked, IsHandler
  <2> SUFFICES ASSUME NEW i \in 1..Len(t), IsHandler(t[i])
               PROVE  /\ t[i].at = "event" => c[t[i].w] = "live" /\ r2[t[i].w] \in {-1, 1}
                      /\ t[i].at = "final" => c[t[i].w] = "live" /\ r2[t[i].w] = 2
    BY <2>a DEF Marked, IsHandler
  <2>1. CASE i \in 1..Len(s) /\ t[i] = s[i]
    BY <2>1, <1>5, <1>r DEF Good, Marked
  <2>2. CASE t[i] = f
    BY <2>2, <1>r DEF IsHandler
  <2> QED BY <2>1, <2>2, <1>3
<1>8. Owned(t, r2)
  <2> SUFFICES ASSUME NEW v \in Watches, r2[v] # 0
               PROVE  \E i \in 1..Len(t) : IsHandler(t[i]) /\ t[i].w = v
    BY DEF Owned
  <2>1. CASE v = w
    BY <2>1, <1>2, <1>4
  <2>2. CASE v # w
    BY <2>2, <1>r, <1>2, <1>4 DEF Good, Owned
  <2> QED BY <2>1, <2>2
<1>9. Distinct(t)
  <2> SUFFICES ASSUME NEW i \in 1..Len(t), NEW j \in 1..Len(t),
                      IsHandler(t[i]), IsHandler(t[j]), t[i].w = t[j].w
               PROVE  i = j
    BY DEF Distinct
  <2> QED BY <1>3, <1>5 DEF Good, Distinct
<1>10. Given(t, q)
  BY <1>3 DEF Good, Given
<1> QED BY <1>1, <1>2, <1>r, <1>6, <1>x, <1>7, <1>8, <1>9, <1>10 DEF Good, t, r2

-----------------------------------------------------------------------------
(* The activations that the actions make. *)

LEMMA NewFrames ==
  ASSUME NEW w \in Watches
  PROVE  /\ \A shut \in BOOLEAN : /\ FinalFrame(w, shut) \in Frames
                                 /\ FinalFrame(w, shut).at = "final"
                                 /\ FinalFrame(w, shut).w = w
         /\ \A how \in {"plain", "timeout", "line", "write"}, n \in Nat, eof \in BOOLEAN :
              /\ EventFrame(w, how, n, eof) \in Frames
              /\ EventFrame(w, how, n, eof).at = "event"
              /\ EventFrame(w, how, n, eof).w = w
              /\ EventFrame(w, how, n, eof).how = how
              /\ EventFrame(w, how, n, eof).n = n
         /\ AutobackFrame(w) \in Frames
         /\ AutobackFrame(w).at = "autoback" /\ AutobackFrame(w).w = w
  BY CallsAssumption DEF FinalFrame, EventFrame, AutobackFrame, Frames

LEMMA FreeGood ==
  ASSUME NEW s, NEW r, NEW w \in Watches, NEW shut \in BOOLEAN, Serves(s, w),
         Good(s, cell, r, queue), cell[w] = "live", WatchFree(w, r, s, shut)
  PROVE  Good(stack', cell, removed', queue)
<1>1. CASE removed' = r /\ stack' = s
  BY <1>1
<1>2. CASE r[w] \in {-1, 1} /\ removed' = [r EXCEPT ![w] = 1] /\ stack' = s
  <2>1. /\ removed' \in Marks /\ removed'[w] = 1
        /\ \A v \in Watches : v # w => removed'[v] = r[v]
    BY <1>2 DEF Good, Marks
  <2>2. s \in Seq(Frames) /\ \A i \in 1..Len(s) : s[i] \in Frames
    BY DEF Good
  <2>3. Marked(s, cell, removed')
    <3> SUFFICES ASSUME NEW i \in 1..Len(s)
                 PROVE  /\ s[i].at = "event" => cell[s[i].w] = "live" /\ removed'[s[i].w] \in {-1, 1}
                        /\ s[i].at = "final" => cell[s[i].w] = "live" /\ removed'[s[i].w] = 2
      BY DEF Good, Marked
    <3>1. IsHandler(s[i]) => s[i].w \in Watches
      BY <2>2, FrameFacts
    <3> QED BY <3>1, <2>1, <1>2 DEF Good, Marked, IsHandler
  <2>4. Owned(s, removed')
    BY <2>1, <1>2 DEF Good, Owned
  <2> QED BY <1>2, <2>1, <2>3, <2>4 DEF Good
<1>3. CASE r[w] = 0 /\ removed' = [r EXCEPT ![w] = 2] /\ stack' = Append(s, FinalFrame(w, shut))
  <2> DEFINE f == FinalFrame(w, shut)
  <2>1. f \in Frames /\ f.at = "final" /\ f.w = w
    BY NewFrames
  <2> HIDE DEF f
  <2>2. Good(Append(s, f), cell, [r EXCEPT ![w] = 2], queue)
    BY <2>1, <1>3, PushHandler DEF IsHandler
  <2> QED BY <2>2, <1>3 DEF f
<1> QED BY <1>1, <1>2, <1>3 DEF WatchFree

LEMMA StartGood ==
  ASSUME NEW s, NEW w \in Watches, NEW how \in {"plain", "timeout", "line", "write"},
         NEW n \in Nat, NEW eof \in BOOLEAN, NEW q,
         Good(s, cell, removed, q), cell[w] = "live", removed[w] = 0, Serves(s, w),
         how = "write" => n <= q[w],
         Start(w, s, how, n, eof)
  PROVE  Good(stack', cell, removed', q)
<1> DEFINE f == EventFrame(w, how, n, eof)
<1>1. f \in Frames /\ f.at = "event" /\ f.w = w /\ f.how = how /\ f.n = n
  BY NewFrames
<1> HIDE DEF f
<1>2. Good(Append(s, f), cell, [removed EXCEPT ![w] = -1], q)
  BY <1>1, PushHandler DEF IsHandler
<1> QED BY <1>2 DEF Start, f

LEMMA TopFacts ==
  ASSUME IInv
  PROVE  /\ stack \in Seq(Frames) /\ Depth \in Nat /\ Depth >= 1
         /\ Top \in Frames /\ Depth \in 1..Depth
         /\ Top.at \in {"loop", "event", "final", "callback", "autoback", "remove"}
         /\ MaxLoops = 1 /\ Top.at = "loop" => Depth = 1
         /\ Top.at \in {"event", "final", "autoback"} => Top.w \in Watches /\ cell[Top.w] = "live"
<1>1. stack \in Seq(Frames) /\ Depth \in Nat /\ Depth >= 1 /\ Depth \in 1..Depth
  BY DEF IInv, Core, Good, Depth
<1>2. Top \in Frames
  BY <1>1 DEF Top, Depth
<1>3. MaxLoops = 1 /\ Top.at = "loop" => Depth = 1
  <2>1. Depth # 1 => Depth \in 2..Depth
    BY <1>1
  <2> QED BY <2>1 DEF IInv, Core, Good, Rooted, Top, Depth
<1>4. Top.at \in {"event", "final", "autoback"} => cell[Top.w] = "live"
  BY <1>1 DEF IInv, Core, Good, Marked, Top, Depth
<1> QED BY <1>1, <1>2, <1>3, <1>4, FrameFacts DEF AtWork

\* The top is replaced.
LEMMA OnTopFacts ==
  ASSUME IInv, NEW f \in Frames
  PROVE  /\ OnTop(f) \in Seq(Frames) /\ Len(OnTop(f)) = Depth /\ OnTop(f)[Depth] = f
         /\ \A i \in 1..Depth : i # Depth => OnTop(f)[i] = stack[i]
<1>1. stack \in Seq(Frames) /\ Len(stack) >= 1 /\ Depth = Len(stack) /\ Depth \in Nat
  BY DEF IInv, Core, Good, Depth
<1>2. /\ Below \in Seq(Frames) /\ Len(Below) = Depth - 1
      /\ \A i \in 1..Depth - 1 : Below[i] = stack[i]
  BY <1>1, PopFacts DEF Below
<1>3. /\ OnTop(f) \in Seq(Frames) /\ Len(OnTop(f)) = Depth
      /\ \A i \in 1..Depth - 1 : OnTop(f)[i] = Below[i]
      /\ OnTop(f)[Depth] = f
  BY <1>1, <1>2, PushFacts DEF OnTop
<1>4. \A i \in 1..Depth : i # Depth => i \in 1..Depth - 1
  BY <1>1
<1> QED BY <1>2, <1>3, <1>4

\* While a loop is running, or gives /_autoback, no handler of a watch that it may
\* call runs, nor does a last call.
LEMMA LoopFacts ==
  ASSUME Manageable, IInv, Top.at \in {"loop", "autoback"}
  PROVE  /\ MaxLoops = 1 \/ Depth = 1 => \A w \in Watches : removed[w] = 0
         /\ \A w \in Watches : removed[w] \in {-1, 0}
         /\ \A w \in Watches : (cell[w] = "live" /\ fd[w] \notin open) => removed[w] = 0
         /\ \A w \in Watches : TimedKinds # {} => removed[w] = 0
<1>1. Top = stack[Depth] /\ Depth = Len(stack) /\ Depth \in Nat /\ Depth >= 1
      /\ removed \in Marks
  BY TopFacts DEF Top, Depth, IInv, Core, Good
<1>2. ASSUME MaxLoops = 1 \/ Depth = 1, NEW w \in Watches
      PROVE  removed[w] = 0
  <2>1. \A i \in 1..Depth : ~IsHandler(stack[i])
    <3>1. CASE Depth = 1 \/ Top.at = "loop"
      <4>1. Depth = 1
        BY <1>2, <3>1, TopFacts
      <4> QED BY <1>1, <4>1 DEF IsHandler
    <3>2. CASE MaxLoops = 1 /\ Top.at = "autoback"
      <4>1. Depth \in 1..Depth /\ Depth - 1 \in 1..Depth /\ stack[Depth - 1].at = "loop"
        BY <1>1, <3>2 DEF IInv, Pinned
      <4>2. ~(Depth - 1 \in 2..Depth)
        BY <1>1, <3>2, <4>1 DEF IInv, Core, Good, Rooted
      <4>3. \A i \in 1..Depth : i = Depth \/ i = Depth - 1
        BY <1>1, <4>1, <4>2
      <4> QED BY <1>1, <3>2, <4>1, <4>3 DEF IsHandler
    <3> QED BY <1>2, <3>1, <3>2
  <2> QED BY <1>1, <2>1 DEF IInv, Core, Good, Owned
<1>4. ASSUME Gentle, NEW w \in Watches
      PROVE  removed[w] \in {-1, 0}
  <2>1. removed[w] # 1
    BY <1>4 DEF IInv, Tame
  <2>2. removed[w] # 2
    <3> SUFFICES ASSUME removed[w] = 2 PROVE FALSE
      OBVIOUS
    <3>1. PICK i \in 1..Len(stack) : IsHandler(stack[i]) /\ stack[i].w = w
      BY DEF IInv, Core, Good, Owned
    <3>2. stack[i].at = "final"
      BY <3>1 DEF IInv, Core, Good, Marked, IsHandler
    <3>3. PICK j \in 1..Len(stack) : stack[j].at = "loop" /\ i < j
      <4>1. CASE Top.at = "loop"
        BY <1>1, <3>2, <4>1
      <4>2. CASE Top.at = "autoback"
        <5>1. Depth - 1 \in 1..Depth /\ stack[Depth - 1].at = "loop"
          BY <1>1, <4>2 DEF IInv, Pinned
        <5>2. i # Depth - 1 /\ i # Depth
          BY <1>1, <3>2, <4>2, <5>1
        <5> QED BY <1>1, <5>1, <5>2
      <4> QED BY <4>1, <4>2
    <3> QED BY <1>1, <3>2, <3>3 DEF IInv, Core, Good, Rooted
  <2> QED BY <1>1, <2>1, <2>2 DEF Marks
<1>5. Gentle => TimedKinds = {} /\ \A w \in Watches : cell[w] = "live" => fd[w] \in open
  BY DEF Gentle, IInv, Settled
<1> QED BY <1>2, <1>4, <1>5 DEF Manageable

LEMMA SpentGood ==
  ASSUME IInv, InHandler, Top.calls > 0
  PROVE  /\ Good(Spent, cell, removed, queue)
         /\ Len(Spent) = Depth /\ Spent \in Seq(Frames)
         /\ Spent[Depth].at = Top.at /\ Top.at # "loop"
         /\ IsHandler(Top) \/ AtWork(Top) => Spent[Depth].w = Top.w
         /\ Top.at = "event" => Spent[Depth].how = Top.how
         /\ Top.at = "final" => Spent[Depth].shut = Top.shut
         /\ \A i \in 1..Depth : i # Depth => Spent[i] = stack[i]
         /\ \A w \in Watches : Serves(Spent, w)
<1> DEFINE f == [Top EXCEPT !.calls = @ - 1]
<1>1. f \in Frames /\ f.at = Top.at /\ (IsHandler(f) \/ AtWork(f) => f.w = Top.w)
      /\ (f.at = "event" => f.how = Top.how /\ f.n = Top.n) /\ f.at # "loop"
      /\ (f.at = "final" => f.shut = Top.shut)
  BY TopFacts DEF Frames, InHandler, IsHandler, AtWork
<1> HIDE DEF f
<1>2. Good(OnTop(f), cell, removed, queue)
  BY <1>1, Replace DEF IInv, Core, OnTop, Below, Top, Depth
<1>3. Spent = OnTop(f)
  BY DEF Spent, f
<1>4. Len(Spent) = Depth /\ Spent \in Seq(Frames) /\ Spent[Depth] = f
      /\ \A i \in 1..Depth : i # Depth => Spent[i] = stack[i]
  BY <1>1, <1>3, OnTopFacts
<1> QED BY <1>1, <1>2, <1>3, <1>4 DEF Serves, IsHandler, AtWork

LEMMA LoopFrameFacts ==
  ASSUME IInv, Top.at = "loop"
  PROVE  Top \in [at : {"loop"}, pc : LoopPc, cur : 1..BeforeHead, rd : SUBSET Fds,
                  wd : SUBSET Fds, top : 0..MaxWatches]
  BY TopFacts DEF Frames

LEMMA LoopGood ==
  ASSUME IInv, Top.at = "loop", NEW f \in Frames, f.at = "loop",
         f.cur # BeforeHead => cell[f.cur] \in {"live", "empty"}
  PROVE  Good(OnTop(f), cell, removed, queue)
<1>1. ~IsHandler(f) /\ ~AtWork(f) /\ f.at # "event" /\ f.at = Top.at
  BY DEF IsHandler, AtWork
<1>2. Good(stack, cell, removed, queue)
  BY DEF IInv, Core
<1>3. Good(Append(SubSeq(stack, 1, Len(stack) - 1), f), cell, removed, queue)
  BY <1>1, <1>2, Replace DEF Top, Depth
<1> QED BY <1>3 DEF OnTop, Below, Depth

LEMMA GotoGood ==
  ASSUME IInv, Top.at = "loop", NEW pc \in LoopPc
  PROVE  /\ Good(Goto(pc), cell, removed, queue)
         /\ Goto(pc)[Len(Goto(pc))].cur = BeforeHead
<1> DEFINE f == [Top EXCEPT !.pc = pc, !.cur = BeforeHead]
<1>1. f \in Frames /\ f.at = "loop" /\ f.cur = BeforeHead
  <2>1. BeforeHead \in 1..BeforeHead
    BY WatchesAssumption DEF BeforeHead
  <2>2. f \in [at : {"loop"}, pc : LoopPc, cur : 1..BeforeHead, rd : SUBSET Fds,
               wd : SUBSET Fds, top : 0..MaxWatches]
    BY <2>1, LoopFrameFacts
  <2> QED BY <2>2, LoopFrameFacts DEF Frames
<1> HIDE DEF f
<1>2. Good(OnTop(f), cell, removed, queue)
  BY <1>1, LoopGood
<1>3. OnTop(f)[Len(OnTop(f))] = f
  BY <1>1, OnTopFacts
<1> QED BY <1>1, <1>2, <1>3 DEF Goto, f

LEMMA AdvanceGood ==
  ASSUME IInv, Top.at = "loop", NEW n \in Ahead
  PROVE  /\ n \in Watches /\ cell[n] \in {"live", "empty"}
         /\ Good(Advance(n), cell, removed, queue)
         /\ Serves(Advance(n), n)
<1> DEFINE f == [Top EXCEPT !.cur = n]
<1>1. n \in Watches /\ cell[n] \in {"live", "empty"}
  BY DEF Ahead, Following, Nodes
<1>2. f \in Frames /\ f.at = "loop" /\ f.cur = n
  <2>1. n \in 1..BeforeHead
    BY <1>1, WatchesAssumption DEF BeforeHead, Watches
  <2>2. f \in [at : {"loop"}, pc : LoopPc, cur : 1..BeforeHead, rd : SUBSET Fds,
               wd : SUBSET Fds, top : 0..MaxWatches]
    BY <2>1, LoopFrameFacts
  <2> QED BY <2>2, LoopFrameFacts DEF Frames
<1> HIDE DEF f
<1>3. Good(OnTop(f), cell, removed, queue)
  BY <1>1, <1>2, LoopGood
<1>4. Serves(OnTop(f), n)
  BY <1>2, OnTopFacts DEF Serves
<1> QED BY <1>1, <1>3, <1>4 DEF Advance, f

LEMMA BottomFrame ==
  /\ LoopFrame("timers") \in Frames
  /\ LoopFrame("timers").at = "loop" /\ LoopFrame("timers").cur = BeforeHead
  BY WatchesAssumption DEF LoopFrame, Frames, LoopPc, BeforeHead

LEMMA LeaveGood ==
  ASSUME Manageable, IInv, Top.at = "loop", NEW c,
         \A v \in Watches : cell[v] = "live" => c[v] = "live"
  PROVE  Good(Leave, c, removed, queue)
<1> DEFINE f == LoopFrame("timers")
           t == <<f>>
<1>1. f \in Frames /\ f.at = "loop" /\ f.cur = BeforeHead
  BY BottomFrame
<1>2. CASE Depth = 1
  <2>2. Leave = t
    BY <1>2 DEF Leave
  <2> HIDE DEF f
  <2>3. t \in Seq(Frames) /\ Len(t) = 1 /\ t[1] = f
    BY <1>1
  <2> HIDE DEF t
  <2>4. \A i \in 1..Len(t) : i = 1 /\ t[i] = f
    BY <2>3
  <2>5. \A i \in 2..Len(t) : FALSE
    BY <2>3
  <2>6. Rooted(t) /\ Walks(t, c)
    BY <1>1, <2>3, <2>4, <2>5 DEF Rooted, Walks
  <2>7. Marked(t, c, removed) /\ Distinct(t) /\ Given(t, queue)
    BY <1>1, <2>4 DEF Marked, Distinct, Given, IsHandler
  <2>8. Owned(t, removed) /\ removed \in Marks
    BY <1>2, LoopFacts DEF Owned, IInv, Core, Good
  <2> QED BY <2>2, <2>3, <2>6, <2>7, <2>8 DEF Good
<1>3. CASE Depth # 1
  <2>1. Good(stack, cell, removed, queue) /\ ~IsHandler(stack[Len(stack)]) /\ Len(stack) # 1
    BY <1>3 DEF IInv, Core, Top, Depth, IsHandler
  <2>2. Good(SubSeq(stack, 1, Len(stack) - 1), c, removed, queue)
    BY <2>1, PopOther
  <2> QED BY <1>3, <2>2 DEF Leave, Below, Depth
<1> QED BY <1>2, <1>3

-----------------------------------------------------------------------------
(* The invariant is inductive. *)

LEMMA InitGood == Init => IInv
<1> SUFFICES ASSUME Init PROVE IInv
  OBVIOUS
<1>1. Typed
  BY DEF Init, Typed, AllKinds
<1> DEFINE f == LoopFrame("timers")
<1>2. f \in Frames /\ f.at = "loop" /\ f.cur = BeforeHead
  BY WatchesAssumption DEF LoopFrame, Frames, LoopPc, BeforeHead
<1>3. stack = <<f>> /\ removed \in Marks /\ \A w \in Watches : removed[w] = 0
  BY DEF Init, Marks
<1> HIDE DEF f
<1>4. stack \in Seq(Frames) /\ Len(stack) = 1 /\ stack[1] = f
  BY <1>2, <1>3
<1>5. \A i \in 1..Len(stack) : i = 1 /\ stack[i] = f
  BY <1>4
<1>6. \A i \in 2..Len(stack) : FALSE
  BY <1>4
<1>7. Rooted(stack) /\ Walks(stack, cell)
  BY <1>2, <1>4, <1>5, <1>6 DEF Rooted, Walks
<1>8. Marked(stack, cell, removed) /\ Distinct(stack) /\ Given(stack, queue)
  BY <1>2, <1>5 DEF Marked, Distinct, Given, IsHandler
<1>9. Owned(stack, removed)
  BY <1>3 DEF Owned
<1>10. Tame(stack, removed, type, fd)
  BY <1>2, <1>3, <1>4, <1>5 DEF Tame
<1>11. Settled
  BY DEF Init, Settled
<1>12. Pinned(stack, fd)
  BY <1>2, <1>5 DEF Pinned
<1> QED BY <1>1, <1>3, <1>4, <1>7, <1>8, <1>9, <1>10, <1>11, <1>12 DEF IInv, Core, Good

LEMMA SelectFrame ==
  ASSUME IInv, SelectReady
  PROVE  \E f \in Frames : stack' = OnTop(f) /\ f.at = "loop" /\ f.cur = BeforeHead
<1> DEFINE top == Cardinality({n \in Watches : cell[n] # "unused"})
<1>1. top \in 0..MaxWatches
  <2>1. IsFiniteSet(1..MaxWatches) /\ Cardinality(1..MaxWatches) = MaxWatches
    BY WatchesAssumption, FS_Interval
  <2>2. Cardinality({n \in Watches : cell[n] # "unused"}) <= Cardinality(1..MaxWatches)
        /\ IsFiniteSet({n \in Watches : cell[n] # "unused"})
    BY <2>1, FS_Subset DEF Watches
  <2> QED BY <2>1, <2>2, FS_CardinalityType, WatchesAssumption
<1>2. Top.at = "loop" /\ Top \in Frames /\ ReadSet \subseteq Fds /\ WriteSet \subseteq Fds
  BY TopFacts DEF SelectReady, LoopAt, IInv, Core, Typed
<1>3. PICK r \in SUBSET ReadSet, w \in SUBSET WriteSet :
        stack' = OnTop([Top EXCEPT !.pc = "scan", !.cur = BeforeHead, !.rd = r, !.wd = w, !.top = top])
  BY DEF SelectReady
<1> DEFINE f == [Top EXCEPT !.pc = "scan", !.cur = BeforeHead, !.rd = r, !.wd = w, !.top = top]
<1> HIDE DEF top
<1>4. f \in Frames /\ f.at = "loop" /\ f.cur = BeforeHead
  <2>1. BeforeHead \in 1..BeforeHead /\ "scan" \in LoopPc
    BY WatchesAssumption DEF BeforeHead, LoopPc
  <2>2. f \in [at : {"loop"}, pc : LoopPc, cur : 1..BeforeHead, rd : SUBSET Fds,
               wd : SUBSET Fds, top : 0..MaxWatches]
    BY <1>1, <1>2, <2>1, LoopFrameFacts
  <2> QED BY <1>2, <2>2, LoopFrameFacts DEF Frames
<1>5. stack' = OnTop(f)
  BY <1>3 DEF f
<1> HIDE DEF f
<1> QED BY <1>4, <1>5

\* The dispatch of a watch, by its loop or when /_autoback is done.
LEMMA DispatchGood ==
  ASSUME Manageable, IInv, Top.at \in {"loop", "autoback"},
         NEW n \in Watches, cell[n] = "live", NEW f, NEW s,
         Good(s, cell, removed, queue), Serves(s, n), Dispatch(n, f, s)
  PROVE  Good(stack', cell, removed', queue)
<1>i. Idle(n) => removed[n] = 0
  BY LoopFacts DEF Idle
<1>1. CASE Ignore(s)
  BY <1>1 DEF Ignore
<1>2. CASE WatchHandle(n, s)
  <2>1. CASE Idle(n) /\ Start(n, s, "plain", 0, FALSE)
    <3>1. "plain" \in {"plain", "timeout", "line", "write"} /\ "plain" # "write"
          /\ 0 \in Nat /\ FALSE \in BOOLEAN
      OBVIOUS
    <3> QED BY <1>i, <2>1, <3>1, StartGood
  <2> QED BY <1>1, <1>2, <2>1 DEF WatchHandle
<1>3. CASE WatchHandleLine(n, s)
  <2>2. CASE Idle(n) /\ removed' = [removed EXCEPT ![n] = 0] /\ stack' = s
    <3>1. removed' = removed
      BY <1>i, <2>2 DEF IInv, Core, Good, Marks
    <3> QED BY <2>2, <3>1
  <2>3. CASE Idle(n) /\ \E k \in 0..MaxLines, eof \in BOOLEAN : Start(n, s, "line", k, eof)
    BY <1>i, <2>3, StartGood, LinesAssumption
  <2> QED BY <1>1, <1>3, <2>2, <2>3 DEF WatchHandleLine
<1>4. CASE WatchHandleWrite(n, s)
  <2>2. CASE Idle(n) /\ Start(n, s, "write", queue[n], FALSE)
    <3>1. queue[n] \in Nat /\ queue[n] <= queue[n]
      BY DEF IInv, Core, Typed
    <3> QED BY <1>i, <2>2, <3>1, StartGood
  <2> QED BY <1>1, <1>4, <2>2 DEF WatchHandleWrite
<1> QED BY <1>1, <1>2, <1>3, <1>4 DEF Dispatch

\* Steps of ekg_loop() itself.
LEMMA LoopStep ==
  ASSUME Manageable, IInv, Loop
  PROVE  Core'
<1>1. CASE LoopTimers
  <2>1. Top.at = "loop" /\ Good(Goto("reap"), cell, removed, queue)
        /\ Goto("reap")[Len(Goto("reap"))].cur = BeforeHead
    BY <1>1, GotoGood DEF LoopTimers, LoopAt, LoopPc
  <2>2. CallbackFrame \in Frames /\ CallbackFrame.at = "callback"
    BY CallsAssumption DEF CallbackFrame, Frames
  <2>3. Good(Append(Goto("reap"), CallbackFrame), cell, removed, queue)
    BY <2>1, <2>2, PushOther
  <2> QED BY <1>1, <2>1, <2>3 DEF LoopTimers, IInv, Core, Typed, fields
<1>2. CASE LoopChildren
  <2>1. Top.at = "loop" /\ Good(Goto("select"), cell, removed, queue)
        /\ Goto("select")[Len(Goto("select"))].cur = BeforeHead
    BY <1>2, GotoGood DEF LoopChildren, LoopAt, LoopPc
  <2>2. CallbackFrame \in Frames /\ CallbackFrame.at = "callback"
    BY CallsAssumption DEF CallbackFrame, Frames
  <2>3. Good(Append(Goto("select"), CallbackFrame), cell, removed, queue)
    BY <2>1, <2>2, PushOther
  <2> QED BY <1>2, <2>1, <2>3 DEF LoopChildren, IInv, Core, Typed, fields
<1>3. CASE LoopReap
  <2>1. Top.at = "loop" /\ Good(Goto("children"), cell, removed, queue)
    BY <1>3, GotoGood DEF LoopReap, LoopAt, LoopPc
  <2>2. Good(stack', cell, removed', queue)
    <3>1. CASE Ahead = {} /\ stack' = Goto("children") /\ UNCHANGED removed
      BY <3>1, <2>1
    <3>2. CASE \E n \in Ahead : Ignore(Advance(n))
      BY <3>2, <2>1, AdvanceGood DEF Ignore
    <3>3. CASE \E n \in Ahead : removed[n] = 1
      BY <3>3, <2>1, AdvanceGood, LoopFacts
    <3> QED BY <1>3, <3>1, <3>2, <3>3 DEF LoopReap
  <2> QED BY <1>3, <2>2 DEF LoopReap, IInv, Core, Typed, fields
<1>4. CASE SelectBad
  <2>1. Good(Goto("bad"), cell, removed, queue)
    BY <1>4, GotoGood DEF SelectBad, LoopAt, LoopPc
  <2> QED BY <1>4, <2>1 DEF SelectBad, IInv, Core, Typed, fields
<1>5. CASE SelectInterrupted
  <2>1. Good(Leave, cell, removed, queue)
    BY <1>5, LeaveGood DEF SelectInterrupted, LoopAt
  <2> QED BY <1>5, <2>1 DEF SelectInterrupted, IInv, Core, Typed, fields
<1>6. CASE SelectReady
  <2>1. PICK f \in Frames : stack' = OnTop(f) /\ f.at = "loop" /\ f.cur = BeforeHead
    BY <1>6, SelectFrame
  <2>2. Good(OnTop(f), cell, removed, queue)
    BY <1>6, <2>1, LoopGood DEF SelectReady, LoopAt
  <2> QED BY <1>6, <2>1, <2>2 DEF SelectReady, IInv, Core, Typed, fields
<1>7. CASE LoopBad
  <2>1. Top.at = "loop" /\ Good(Leave, cell, removed, queue)
    BY <1>7, LeaveGood DEF LoopBad, LoopAt
  <2>2. Good(stack', cell, removed', queue)
    <3>1. CASE Ahead = {} /\ stack' = Leave /\ UNCHANGED removed
      BY <3>1, <2>1
    <3>2. CASE \E n \in Ahead : Ignore(Advance(n))
      BY <3>2, <2>1, AdvanceGood DEF Ignore
    <3>3. CASE \E n \in Ahead : cell[n] = "live" /\ WatchFree(n, removed, Advance(n), FALSE)
      BY <3>3, <2>1, AdvanceGood, FreeGood
    <3> QED BY <1>7, <3>1, <3>2, <3>3 DEF LoopBad
  <2> QED BY <1>7, <2>2 DEF LoopBad, IInv, Core, Typed, fields
<1>8. CASE LoopScan
  <2>1. Top.at = "loop"
    BY <1>8 DEF LoopScan, LoopAt
  <2>2. PICK n \in Ahead :
          \/ Ignore(Advance(n))
          \/ cell[n] = "live" /\ Dispatch(n, Top, Advance(n))
          \/ /\ cell[n] = "live" /\ removed' = removed
             /\ stack' = Append(Advance(n), AutobackFrame(n))
          \/ cell[n] = "live" /\ TimedKinds # {} /\ WatchTimeout(n, Advance(n))
    BY <1>8 DEF LoopScan
  <2>3. /\ n \in Watches /\ removed[n] \in {-1, 0} /\ (TimedKinds # {} => removed[n] = 0)
        /\ Good(Advance(n), cell, removed, queue) /\ Serves(Advance(n), n)
    BY <2>1, AdvanceGood, LoopFacts
  <2>4. ASSUME cell[n] = "live", TimedKinds # {}, WatchTimeout(n, Advance(n))
        PROVE  Good(stack', cell, removed', queue)
    <3>1. Start(n, Advance(n), "timeout", 0, FALSE)
      BY <2>4 DEF WatchTimeout
    <3>2. "timeout" \in {"plain", "timeout", "line", "write"} /\ "timeout" # "write"
          /\ 0 \in Nat /\ FALSE \in BOOLEAN
      OBVIOUS
    <3> QED BY <2>3, <2>4, <3>1, <3>2, StartGood
  <2>5. ASSUME cell[n] = "live", removed' = removed,
               stack' = Append(Advance(n), AutobackFrame(n))
        PROVE  Good(stack', cell, removed', queue)
    <3> DEFINE f == AutobackFrame(n)
    <3>1. f \in Frames /\ f.at = "autoback" /\ f.w = n
      BY <2>3, NewFrames
    <3> HIDE DEF f
    <3>2. Good(Append(Advance(n), f), cell, removed, queue)
      BY <2>3, <2>5, <3>1, PushOther
    <3> QED BY <2>5, <3>2 DEF f
  <2>9. Good(stack', cell, removed', queue)
    BY <2>1, <2>2, <2>3, <2>4, <2>5, DispatchGood DEF Ignore
  <2> QED BY <1>8, <2>9 DEF LoopScan, IInv, Core, Typed, fields
<1>9. CASE LoopCleanup
  <2>0. \A v \in Watches : cell[v] = "live" => cell'[v] = "live"
    BY <1>9 DEF LoopCleanup
  <2>1. Good(Leave, cell', removed, queue)
    BY <1>9, <2>0, LeaveGood DEF LoopCleanup, LoopAt
  <2>2. cell' \in [Watches -> {"unused", "live", "empty", "freed"}]
    BY <1>9 DEF LoopCleanup, IInv, Core, Typed
  <2> QED BY <1>9, <2>1, <2>2 DEF LoopCleanup, IInv, Core, Typed, fields
<1> QED BY <1>1, <1>2, <1>3, <1>4, <1>5, <1>6, <1>7, <1>8, <1>9 DEF Loop

\* A new watch, or more data in a buffer, disturbs no activation.
LEMMA Grow ==
  ASSUME NEW s, NEW c, NEW r, NEW q, NEW c2, NEW q2, Good(s, c, r, q),
         q \in [Watches -> Nat], q2 \in [Watches -> Nat],
         \A v \in Watches : c[v] \in {"live", "empty"} => c2[v] = c[v],
         \A v \in Watches : q[v] <= q2[v]
  PROVE  Good(s, c2, r, q2)
<1>1. s \in Seq(Frames) /\ Len(s) >= 1 /\ \A i \in 1..Len(s) : s[i] \in Frames
  BY DEF Good
<1>2. \A i \in 1..Len(s) : s[i].at \in {"event", "final", "autoback"} => s[i].w \in Watches
  BY <1>1, FrameFacts DEF AtWork
<1>3. Walks(s, c2)
  <2> SUFFICES ASSUME NEW i \in 1..Len(s), s[i].at = "loop", s[i].cur # BeforeHead
               PROVE  c[s[i].cur] \in {"live", "empty"} => c2[s[i].cur] \in {"live", "empty"}
    BY DEF Good, Walks
  <2>1. s[i].cur \in Watches
    BY <1>1, FrameFacts, WatchesAssumption DEF BeforeHead, Watches
  <2> QED BY <2>1
<1>4. Marked(s, c2, r)
  BY <1>2 DEF Good, Marked
<1>5. Given(s, q2)
  <2> SUFFICES ASSUME NEW i \in 1..Len(s), s[i].at = "event", s[i].how = "write"
               PROVE  s[i].n <= q2[s[i].w]
    BY DEF Given
  <2>1. s[i].w \in Watches /\ s[i].n <= q[s[i].w] /\ s[i].n \in Nat
    BY <1>1, <1>2 DEF Good, Given, Frames
  <2> QED BY <2>1
<1> QED BY <1>1, <1>3, <1>4, <1>5 DEF Good

\* What handlers call.
LEMMA CallStep ==
  ASSUME Manageable, IInv, Calls
  PROVE  Core'
<1>1. InHandler /\ Top.calls > 0 =>
        /\ Good(Spent, cell, removed, queue)
        /\ Spent[Len(Spent)].at # "loop"
        /\ \A w \in Watches : Serves(Spent, w)
  BY SpentGood
<1>q. queue \in [Watches -> Nat] /\ removed \in Marks
  BY DEF IInv, Core, Typed, Good
<1>2. ASSUME NEW f \in Fds, NEW k \in Kinds, WatchAdd(f, k)
      PROVE  Core'
  <2>1. PICK w \in Watches :
          /\ cell[w] = "unused"
          /\ cell' = [cell EXCEPT ![w] = "live"]
          /\ kind' = [kind EXCEPT ![w] = k]
          /\ type' = [type EXCEPT ![w] = IF k \in {"read", "readline"} THEN "READ" ELSE "WRITE"]
          /\ fd' = [fd EXCEPT ![w] = f]
    BY <1>2 DEF WatchAdd
  <2>2. Good(Spent, cell, removed, queue)
    BY <1>1, <1>2 DEF WatchAdd, May
  <2>3. \A v \in Watches : cell[v] \in {"live", "empty"} => cell'[v] = cell[v]
    BY <2>1 DEF IInv, Core, Typed
  <2>4. \A v \in Watches : queue[v] <= queue[v]
    BY <1>q
  <2>5. Good(Spent, cell', removed, queue)
    BY <2>2, <2>3, <2>4, <1>q, Grow
  <2>6. Typed'
    BY <1>2, <2>1, KindsAssumption DEF WatchAdd, IInv, Core, Typed, AllKinds
  <2> QED BY <1>2, <2>5, <2>6 DEF WatchAdd, IInv, Core
<1>3. ASSUME NEW w \in Watches, CallFree(w)
      PROVE  Core'
  <2>1. Good(Spent, cell, removed, queue) /\ cell[w] = "live" /\ Serves(Spent, w)
    BY <1>1, <1>3 DEF CallFree, May, Freeable, Live
  <2>2. Good(stack', cell, removed', queue)
    BY <1>3, <2>1, FreeGood DEF CallFree
  <2> QED BY <1>3, <2>2 DEF CallFree, IInv, Core, Typed, fields
<1>4. ASSUME NEW w \in Watches, CallFreeManually(w)
      PROVE  Core'
  <2>1. Good(Spent, cell, removed, queue) /\ cell[w] = "live" /\ Serves(Spent, w)
    BY <1>1, <1>4 DEF CallFreeManually, May, Freeable, Live
  <2>2. Good(stack', cell, removed', queue)
    BY <1>4, <2>1, FreeGood DEF CallFreeManually
  <2>3. type' \in [Watches -> {"READ", "WRITE", "NONE"}]
    BY <1>4 DEF CallFreeManually, IInv, Core, Typed
  <2> QED BY <1>4, <2>2, <2>3 DEF CallFreeManually, IInv, Core, Typed
<1>5. ASSUME NEW w \in Watches, CallWrite(w)
      PROVE  Core'
  <2>1. Good(Spent, cell, removed, queue) /\ cell[w] = "live" /\ removed[w] <= 0
        /\ Serves(Spent, w)
    BY <1>1, <1>5 DEF CallWrite, May, Writable, Live
  <2>2. queue' \in [Watches -> Nat] /\ (\A v \in Watches : queue[v] <= queue'[v]) /\ 1 <= queue'[w]
    BY <1>5, <1>q DEF CallWrite
  <2>3. Good(Spent, cell, removed, queue')
    BY <2>1, <2>2, <1>q, Grow
  <2>4. CASE Idle(w) /\ Start(w, Spent, "write", 1, FALSE)
    <3>1. removed[w] = 0
      BY <2>1, <2>4, <1>q DEF Idle, Marks
    <3>2. Good(stack', cell, removed', queue')
      BY <2>1, <2>2, <2>3, <2>4, <3>1, StartGood
    <3> QED BY <1>5, <2>2, <3>2 DEF CallWrite, IInv, Core, Typed, fields
  <2>5. CASE Ignore(Spent)
    BY <1>5, <2>2, <2>3, <2>5 DEF CallWrite, IInv, Core, Typed, fields, Ignore
  <2> QED BY <1>5, <2>4, <2>5 DEF CallWrite
<1>6. ASSUME NEW w \in Watches, CallCork(w)
      PROVE  Core'
  <2>1. Good(Spent, cell, removed, queue)
    BY <1>1, <1>6 DEF CallCork, May
  <2> QED BY <1>6, <2>1 DEF CallCork, IInv, Core, Typed, fields
<1>7. ASSUME NEW w \in Watches, CallCommit(w)
      PROVE  Core'
  <2>1. Good(Spent, cell, removed, queue) /\ cell[w] = "live" /\ removed[w] <= 0
        /\ Serves(Spent, w)
    BY <1>1, <1>7 DEF CallCommit, May, Writable, Live
  <2>2. CASE Idle(w) /\ Start(w, Spent, "write", queue[w], FALSE)
    <3>1. removed[w] = 0
      BY <2>1, <2>2, <1>q DEF Idle, Marks
    <3>2. queue[w] \in Nat /\ queue[w] <= queue[w]
      BY <1>q
    <3>3. Good(stack', cell, removed', queue)
      BY <2>1, <2>2, <3>1, <3>2, StartGood
    <3> QED BY <1>7, <3>3 DEF CallCommit, IInv, Core, Typed, fields
  <2>3. CASE Ignore(Spent)
    BY <1>7, <2>1, <2>3 DEF CallCommit, IInv, Core, Typed, fields, Ignore
  <2> QED BY <1>7, <2>2, <2>3 DEF CallCommit
<1>8. ASSUME NEW f \in Fds, NEW t \in {{"READ"}, {"WRITE"}}, CallRemove(f, t)
      PROVE  Core'
  <2>1. Good(Spent, cell, removed, queue) /\ Spent[Len(Spent)].at # "loop"
    BY <1>1, <1>8 DEF CallRemove, May
  <2>2. RemoveFrame(f, t) \in Frames /\ RemoveFrame(f, t).at = "remove"
    BY DEF RemoveFrame, Frames
  <2>3. Good(Append(Spent, RemoveFrame(f, t)), cell, removed, queue)
    BY <2>1, <2>2, PushOther
  <2> QED BY <1>8, <2>3 DEF CallRemove, IInv, Core, Typed, fields
<1>9. ASSUME MaxLoops = 1, CallLoop
      PROVE  FALSE
  <2>1. Depth \in Nat /\ Depth >= 1 /\ stack[1].at = "loop"
    BY TopFacts DEF IInv, Core, Good, Rooted
  <2>2. 1 \in Loops /\ IsFiniteSet(Loops)
    <3>1. IsFiniteSet(1..Depth)
      BY <2>1, FS_Interval
    <3> QED BY <2>1, <3>1, FS_Subset DEF Loops
  <2>3. Cardinality(Loops) # 0 /\ Cardinality(Loops) \in Nat
    BY <2>2, FS_EmptySet, FS_CardinalityType
  <2> QED BY <1>9, <2>3 DEF CallLoop
<1>9n. ASSUME MaxLoops # 1, CallLoop
       PROVE  Core'
  <2>1. /\ Good(Spent, cell, removed, queue) /\ Len(Spent) = Depth
        /\ Spent[Depth].at = Top.at /\ Top.at # "loop"
        /\ \A i \in 1..Depth : i # Depth => Spent[i] = stack[i]
    BY <1>9n, SpentGood DEF CallLoop, May
  <2>2. \A i \in 1..Depth : Spent[i].at # "final"
    BY <1>9n, <2>1 DEF CallLoop, Top
  <2>3. PICK f \in Frames : f = LoopFrame("timers") /\ f.at = "loop" /\ f.cur = BeforeHead
    BY BottomFrame, Zenon
  <2>4. Good(Append(Spent, f), cell, removed, queue)
    BY <1>9n, <2>1, <2>2, <2>3, PushOther
  <2> QED BY <1>9n, <2>3, <2>4 DEF CallLoop, IInv, Core, Typed, fields
<1>10. ASSUME CallOpen
       PROVE  Core'
  <2>1. Good(Spent, cell, removed, queue)
    BY <1>1, <1>10 DEF CallOpen, May
  <2> QED BY <1>10, <2>1 DEF CallOpen, IInv, Core, Typed, fields
<1>11. ASSUME NEW f \in Fds, CallClose(f)
       PROVE  Core'
  <2>1. Good(Spent, cell, removed, queue)
    BY <1>1, <1>11 DEF CallClose, May
  <2> QED BY <1>11, <2>1 DEF CallClose, IInv, Core, Typed, fields
<1> QED BY <1>2, <1>3, <1>4, <1>5, <1>6, <1>7, <1>8, <1>9, <1>9n, <1>10, <1>11 DEF Calls

\* A handler returned, and nothing but its mark changed.
LEMMA ReturnGood ==
  ASSUME IInv, Top.at \in {"event", "final"}, NEW q,
         \A v \in Watches : v # Top.w => q[v] = queue[v]
  PROVE  Good(Below, cell, Forget(Top.w), q) /\ Serves(Below, Top.w)
<1>1. IsHandler(stack[Len(stack)]) /\ Top = stack[Len(stack)] /\ cell[Top.w] = "live"
  BY TopFacts DEF IsHandler, Top, Depth
<1>2. Good(stack, cell, removed, queue)
  BY DEF IInv, Core
<1>3. /\ Good(SubSeq(stack, 1, Len(stack) - 1), cell, [removed EXCEPT ![Top.w] = 0], q)
      /\ Serves(SubSeq(stack, 1, Len(stack) - 1), Top.w)
  BY <1>1, <1>2, PopHandler
<1> QED BY <1>3 DEF Below, Depth, Forget

\* An activation that is neither a loop nor a handler of a watch returns.
LEMMA BottomStays ==
  ASSUME IInv, Top.at \in {"callback", "autoback", "remove"}
  PROVE  /\ Good(Below, cell, removed, queue)
         /\ Top.at = "autoback" => Serves(Below, Top.w)
<1>1. Good(stack, cell, removed, queue) /\ ~IsHandler(stack[Len(stack)])
  BY DEF IInv, Core, Top, Depth, IsHandler
<1>2. Len(stack) # 1
  BY DEF IInv, Core, Good, Rooted, Top, Depth
<1>3. /\ Good(SubSeq(stack, 1, Len(stack) - 1), cell, removed, queue)
      /\ AtWork(stack[Len(stack)]) =>
           Serves(SubSeq(stack, 1, Len(stack) - 1), stack[Len(stack)].w)
  BY <1>1, <1>2, PopOther
<1> QED BY <1>3 DEF AtWork, Below, Depth, Top

\* A watch that is being freed is not the one that waits for /_autoback.
LEMMA PinnedFinal ==
  ASSUME IInv, Top.at = "final", NEW i \in 1..Len(stack), stack[i].at = "autoback"
  PROVE  stack[i].w # Top.w
<1>1. Top = stack[Len(stack)] /\ Len(stack) \in Nat /\ Len(stack) \in 1..Len(stack)
  BY TopFacts DEF Top, Depth
<1>2. i < Len(stack)
  BY <1>1
<1> QED BY <1>1, <1>2 DEF IInv, Pinned, AtWork

LEMMA ReturnStep ==
  ASSUME Manageable, IInv, Returns
  PROVE  Core'
<1>1. ASSUME NEW res \in {-1, 0}, PlainReturn(res)
      PROVE  Core'
  <2>1. Good(Below, cell, Forget(Top.w), queue) /\ Top.w \in Watches /\ cell[Top.w] = "live"
        /\ Serves(Below, Top.w)
    BY <1>1, ReturnGood, TopFacts DEF PlainReturn, Running
  <2>2. Good(stack', cell, removed', queue)
    BY <1>1, <2>1, FreeGood DEF PlainReturn
  <2> QED BY <1>1, <2>2 DEF PlainReturn, IInv, Core, Typed, fields
<1>2. ASSUME NEW res \in {-1, 0}, LineReturn(res)
      PROVE  Core'
  <2>1. Good(Below, cell, Forget(Top.w), queue) /\ Top.w \in Watches /\ cell[Top.w] = "live"
        /\ Serves(Below, Top.w) /\ Top \in Frames /\ Top.at = "event" /\ Top.how = "line"
    BY <1>2, ReturnGood, TopFacts DEF LineReturn, Running
  <2>2. Good(stack', cell, removed', queue)
    <3>1. CASE Top.n > 1 /\ stack' = OnTop([Top EXCEPT !.n = @ - 1]) /\ UNCHANGED removed
      <4> DEFINE f == [Top EXCEPT !.n = @ - 1]
      <4>1. f \in Frames /\ f.at = "event" /\ f.w = Top.w /\ f.how = "line"
        BY <2>1, <3>1 DEF Frames
      <4> HIDE DEF f
      <4>2. Good(Append(SubSeq(stack, 1, Len(stack) - 1), f), cell, removed, queue)
        BY <2>1, <4>1, Replace DEF IInv, Core, Top, Depth
      <4> QED BY <3>1, <4>2 DEF OnTop, Below, Depth, f
    <3>2. CASE WatchFree(Top.w, Forget(Top.w), Below, TRUE)
      BY <2>1, <3>2, FreeGood
    <3>3. CASE removed' = Forget(Top.w) /\ stack' = Below
      BY <2>1, <3>3
    <3> QED BY <1>2, <3>1, <3>2, <3>3 DEF LineReturn
  <2> QED BY <1>2, <2>2 DEF LineReturn, IInv, Core, Typed, fields
<1>3. ASSUME NEW res \in -1..MaxQueue + 1, WriteReturn(res)
      PROVE  Core'
  <2>1. Top.w \in Watches /\ cell[Top.w] = "live" /\ Top.at = "event" /\ Top.how = "write"
        /\ Top \in Frames
    BY <1>3, TopFacts DEF WriteReturn, Running
  <2>2. CASE WatchFree(Top.w, Forget(Top.w), Below, FALSE) /\ UNCHANGED queue
    <3>1. Good(Below, cell, Forget(Top.w), queue) /\ Serves(Below, Top.w)
      BY <2>1, ReturnGood
    <3>2. Good(stack', cell, removed', queue)
      BY <2>1, <2>2, <3>1, FreeGood
    <3> QED BY <1>3, <2>2, <3>2 DEF WriteReturn, IInv, Core, Typed, fields
  <2>3. CASE /\ res \in Nat
             /\ queue' = [queue EXCEPT ![Top.w] = @ - Clipped(res, Top.n)]
             /\ removed' = Forget(Top.w) /\ stack' = Below
    <3>1. Top.n <= queue[Top.w] /\ Top.n \in Nat
      <4>1. Top.n \in Nat
        BY <2>1 DEF Frames
      <4> QED BY <4>1, <2>1, TopFacts DEF IInv, Core, Good, Given, Top, Depth
    <3>2. queue[Top.w] \in Nat
      BY <2>1 DEF IInv, Core, Typed
    <3>3. queue[Top.w] - Clipped(res, Top.n) \in Nat
      BY <2>3, <3>1, <3>2 DEF Clipped
    <3>4. queue' \in [Watches -> Nat] /\ \A v \in Watches : v # Top.w => queue'[v] = queue[v]
      BY <2>1, <2>3, <3>3 DEF IInv, Core, Typed
    <3>5. Good(Below, cell, Forget(Top.w), queue')
      BY <2>1, <3>4, ReturnGood
    <3> QED BY <1>3, <2>3, <3>4, <3>5 DEF WriteReturn, IInv, Core, Typed, fields
  <2> QED BY <1>3, <2>2, <2>3 DEF WriteReturn
<1>4. ASSUME FinalReturn
      PROVE  Core'
  <2>1. Top.w \in Watches /\ cell[Top.w] = "live" /\ Top.at = "final"
    BY <1>4, TopFacts DEF FinalReturn, Running
  <2>2. IsHandler(stack[Len(stack)]) /\ Top = stack[Len(stack)]
    BY <2>1 DEF IsHandler, Top, Depth
  <2>3. /\ cell'[Top.w] \in {"live", "empty"}
        /\ \A v \in Watches : v # Top.w => cell'[v] = cell[v] /\ queue'[v] = queue[v]
    BY <1>4, <2>1 DEF FinalReturn, IInv, Core, Typed
  <2>4. Good(stack, cell, removed, queue)
    BY DEF IInv, Core
  <2>a. \A i \in 1..Len(stack) : stack[i].at = "autoback" => stack[i].w # Top.w
    BY <2>1, PinnedFinal
  <2>5. Good(SubSeq(stack, 1, Len(stack) - 1), cell', [removed EXCEPT ![Top.w] = 0], queue')
    BY <2>2, <2>3, <2>4, <2>a, PopHandler
  <2>6. Good(stack', cell', removed', queue')
    BY <1>4, <2>5 DEF FinalReturn, Below, Depth, Forget
  <2>7. Typed'
    BY <1>4, <2>1 DEF FinalReturn, IInv, Core, Typed, AllKinds
  <2> QED BY <2>6, <2>7 DEF IInv, Core
<1>5. ASSUME CallbackReturn
      PROVE  Core'
  <2>1. Good(Below, cell, removed, queue)
    BY <1>5, BottomStays DEF CallbackReturn, Running
  <2> QED BY <1>5, <2>1 DEF CallbackReturn, IInv, Core, Typed, fields
<1>6. ASSUME RemoveNext
      PROVE  Core'
  <2>1. Good(Below, cell, removed, queue)
    BY <1>6, BottomStays DEF RemoveNext, Running
  <2>2. Good(stack', cell, removed', queue)
    <3>1. CASE stack' = Below /\ UNCHANGED removed
      BY <2>1, <3>1
    <3>2. CASE \E w \in Matching(Top.fd, Top.type) : WatchFree(w, removed, stack, FALSE)
      <4>1. \A w \in Watches : Serves(stack, w)
        BY <1>6 DEF RemoveNext, Running, Serves, Top, Depth
      <4> QED BY <3>2, <4>1, FreeGood DEF Matching, Live, IInv, Core
    <3> QED BY <1>6, <3>1, <3>2 DEF RemoveNext
  <2> QED BY <1>6, <2>2 DEF RemoveNext, IInv, Core, Typed, fields
<1>7. ASSUME AutobackReturn
      PROVE  Core'
  <2>1. /\ Top.at = "autoback" /\ Good(Below, cell, removed, queue) /\ Serves(Below, Top.w)
        /\ Top.w \in Watches /\ cell[Top.w] = "live"
    BY <1>7, BottomStays, TopFacts DEF AutobackReturn, Running
  <2>2. Good(stack', cell, removed', queue)
    BY <1>7, <2>1, DispatchGood DEF AutobackReturn
  <2> QED BY <1>7, <2>2 DEF AutobackReturn, IInv, Core, Typed, fields
<1> QED BY <1>1, <1>2, <1>3, <1>4, <1>5, <1>6, <1>7 DEF Returns

-----------------------------------------------------------------------------
(* /_autoback stays where it is. *)

Automatic(s) == \E i \in 1..Len(s) : s[i].at = "autoback"

LEMMA PinnedPop ==
  ASSUME NEW s \in Seq(Frames), Len(s) >= 1, NEW d, Pinned(s, d)
  PROVE  /\ SubSeq(s, 1, Len(s) - 1) \in Seq(Frames) /\ Pinned(SubSeq(s, 1, Len(s) - 1), d)
         /\ Automatic(SubSeq(s, 1, Len(s) - 1)) =>
              /\ s[Len(s)].at # "loop"
              /\ AtWork(s[Len(s)]) => d[s[Len(s)].w] \notin Stdin
<1> DEFINE t == SubSeq(s, 1, Len(s) - 1)
<1>1. /\ t \in Seq(Frames) /\ Len(t) = Len(s) - 1 /\ \A i \in 1..Len(s) - 1 : t[i] = s[i]
      /\ Len(s) \in Nat /\ Len(s) \in 1..Len(s)
  BY PopFacts
<1> HIDE DEF t
<1>2. \A i \in 1..Len(t) : i \in 1..Len(s) /\ t[i] = s[i] /\ i < Len(s)
  BY <1>1
<1>3. \A i \in 1..Len(t) : i - 1 \in 1..Len(s) => i - 1 \in 1..Len(t)
  BY <1>1
<1>4. Pinned(t, d)
  BY <1>2, <1>3 DEF Pinned
<1>5. Automatic(t) => /\ s[Len(s)].at # "loop"
                      /\ AtWork(s[Len(s)]) => d[s[Len(s)].w] \notin Stdin
  BY <1>1, <1>2 DEF Automatic, Pinned
<1> QED BY <1>1, <1>4, <1>5 DEF t

LEMMA PinnedPush ==
  ASSUME NEW s \in Seq(Frames), NEW f \in Frames, NEW d, Pinned(s, d),
         f.at = "autoback" => /\ d[f.w] \in Stdin /\ Len(s) >= 1
                              /\ s[Len(s)].at = "loop" /\ s[Len(s)].cur = f.w,
         Automatic(s) => /\ f.at # "loop"
                         /\ AtWork(f) => d[f.w] \notin Stdin
                         /\ f.at = "remove" => f.fd \notin Stdin
  PROVE  Pinned(Append(s, f), d)
<1> DEFINE t == Append(s, f)
<1>1. /\ t \in Seq(Frames) /\ Len(t) = Len(s) + 1 /\ Len(s) \in Nat
      /\ \A i \in 1..Len(s) : t[i] = s[i]
      /\ t[Len(s) + 1] = f
  BY PushFacts
<1> HIDE DEF t
<1> SUFFICES ASSUME NEW i \in 1..Len(t), t[i].at = "autoback"
             PROVE  /\ d[t[i].w] \in Stdin
                    /\ i - 1 \in 1..Len(t)
                    /\ t[i - 1].at = "loop" /\ t[i - 1].cur = t[i].w
                    /\ \A j \in 1..Len(t) : i < j =>
                         /\ t[j].at # "loop"
                         /\ AtWork(t[j]) => d[t[j].w] \notin Stdin
                         /\ t[j].at = "remove" => t[j].fd \notin Stdin
  BY DEF Pinned, t
<1>2. CASE i \in 1..Len(s)
  <2>1. s[i].at = "autoback" /\ t[i] = s[i] /\ Automatic(s)
    BY <1>1, <1>2 DEF Automatic
  <2>2. /\ d[s[i].w] \in Stdin /\ i - 1 \in 1..Len(s)
        /\ s[i - 1].at = "loop" /\ s[i - 1].cur = s[i].w
    BY <1>2, <2>1 DEF Pinned
  <2>3. i - 1 \in 1..Len(t) /\ t[i - 1] = s[i - 1]
    BY <1>1, <2>2
  <2>4. ASSUME NEW j \in 1..Len(t), i < j
        PROVE  /\ t[j].at # "loop"
               /\ AtWork(t[j]) => d[t[j].w] \notin Stdin
               /\ t[j].at = "remove" => t[j].fd \notin Stdin
    <3>1. CASE j \in 1..Len(s)
      BY <1>1, <1>2, <2>1, <2>4, <3>1 DEF Pinned
    <3>2. CASE j = Len(s) + 1
      BY <1>1, <2>1, <3>2
    <3> QED BY <1>1, <3>1, <3>2
  <2> QED BY <2>1, <2>2, <2>3, <2>4
<1>3. CASE i = Len(s) + 1
  <2>1. t[i] = f /\ f.at = "autoback"
    BY <1>1, <1>3
  <2>2. Len(s) \in 1..Len(s) /\ i - 1 = Len(s) /\ i - 1 \in 1..Len(t) /\ t[i - 1] = s[Len(s)]
    BY <1>1, <1>3, <2>1
  <2>3. \A j \in 1..Len(t) : ~(i < j)
    BY <1>1, <1>3
  <2> QED BY <2>1, <2>2, <2>3
<1> QED BY <1>1, <1>2, <1>3

\* Where a loop is on top, it gives no /_autoback.
LEMMA PinnedLoop ==
  ASSUME NEW s \in Seq(Frames), Len(s) >= 1, NEW d, Pinned(s, d), s[Len(s)].at = "loop"
  PROVE  ~Automatic(s)
<1>1. Len(s) \in Nat /\ Len(s) \in 1..Len(s) /\ \A i \in 1..Len(s) : i = Len(s) \/ i < Len(s)
  OBVIOUS
<1> QED BY <1>1 DEF Automatic, Pinned

\* The top goes on.
LEMMA PinnedTop ==
  ASSUME IInv, NEW f \in Frames, f.at = Top.at, f.at # "remove",
         AtWork(f) => f.w = Top.w
  PROVE  /\ OnTop(f) \in Seq(Frames) /\ Pinned(OnTop(f), fd)
         /\ Len(OnTop(f)) = Depth /\ Depth >= 1 /\ OnTop(f)[Depth] = f
         /\ Automatic(OnTop(f)) => Autoback
         /\ f.at = "loop" => ~Automatic(OnTop(f))
<1> DEFINE t == OnTop(f)
<1>1. /\ t \in Seq(Frames) /\ Len(t) = Depth /\ t[Depth] = f /\ Len(stack) = Depth
      /\ \A i \in 1..Depth : i # Depth => t[i] = stack[i]
      /\ Top = stack[Depth] /\ Depth \in 1..Depth /\ Depth >= 1 /\ Depth \in Nat
  BY OnTopFacts, TopFacts DEF Top, Depth
<1> HIDE DEF t
<1>2. \A i \in 1..Depth :
        /\ t[i].at = stack[i].at
        /\ AtWork(t[i]) => t[i].w = stack[i].w
        /\ t[i].at = "remove" => t[i] = stack[i]
  BY <1>1
<1>3. \A i \in 1..Depth : AtWork(t[i]) <=> AtWork(stack[i])
  BY <1>2 DEF AtWork
<1>4. Pinned(t, fd)
  <2> SUFFICES ASSUME NEW i \in 1..Depth, t[i].at = "autoback"
               PROVE  /\ fd[t[i].w] \in Stdin
                      /\ i - 1 \in 1..Depth
                      /\ t[i - 1].at = "loop" /\ t[i - 1].cur = t[i].w
                      /\ \A j \in 1..Depth : i < j =>
                           /\ t[j].at # "loop"
                           /\ AtWork(t[j]) => fd[t[j].w] \notin Stdin
                           /\ t[j].at = "remove" => t[j].fd \notin Stdin
    BY <1>1 DEF Pinned
  <2>1. stack[i].at = "autoback" /\ t[i].w = stack[i].w
    BY <1>2 DEF AtWork
  <2>2. /\ fd[stack[i].w] \in Stdin /\ i - 1 \in 1..Depth
        /\ stack[i - 1].at = "loop" /\ stack[i - 1].cur = stack[i].w
        /\ \A j \in 1..Depth : i < j =>
             /\ stack[j].at # "loop"
             /\ AtWork(stack[j]) => fd[stack[j].w] \notin Stdin
             /\ stack[j].at = "remove" => stack[j].fd \notin Stdin
    BY <1>1, <2>1 DEF IInv, Pinned
  <2>3. t[i - 1] = stack[i - 1]
    BY <1>1, <2>2
  <2> QED BY <1>2, <1>3, <2>1, <2>2, <2>3
<1>5. Automatic(t) => Autoback
  BY <1>1, <1>2 DEF Automatic, Autoback
<1>6. f.at = "loop" => ~Automatic(t)
  BY <1>1, <1>4, PinnedLoop
<1> QED BY <1>1, <1>4, <1>5, <1>6 DEF t

\* Descriptors change, but not those of the watches in hand.
LEMMA PinnedChange ==
  ASSUME NEW s, NEW d, NEW d2, Pinned(s, d),
         \A i \in 1..Len(s) : AtWork(s[i]) => d2[s[i].w] = d[s[i].w]
  PROVE  Pinned(s, d2)
BY DEF Pinned, AtWork

\* What the helpers push.
LEMMA FreePushes ==
  ASSUME NEW w \in Watches, NEW r, NEW s, NEW shut \in BOOLEAN, WatchFree(w, r, s, shut)
  PROVE  \/ stack' = s
         \/ \E g \in Frames : g.at = "final" /\ g.w = w /\ stack' = Append(s, g)
<1>1. FinalFrame(w, shut) \in Frames /\ FinalFrame(w, shut).at = "final"
      /\ FinalFrame(w, shut).w = w
  BY NewFrames
<1>2. stack' = s \/ stack' = Append(s, FinalFrame(w, shut))
  BY DEF WatchFree
<1> QED BY <1>1, <1>2, Zenon

LEMMA StartPushes ==
  ASSUME NEW w \in Watches, NEW s, NEW how \in {"plain", "timeout", "line", "write"},
         NEW n \in Nat, NEW eof \in BOOLEAN, Start(w, s, how, n, eof)
  PROVE  \E g \in Frames : g.at = "event" /\ g.w = w /\ stack' = Append(s, g)
<1>1. EventFrame(w, how, n, eof) \in Frames /\ EventFrame(w, how, n, eof).at = "event"
      /\ EventFrame(w, how, n, eof).w = w
  BY NewFrames
<1>2. stack' = Append(s, EventFrame(w, how, n, eof))
  BY DEF Start
<1> QED BY <1>1, <1>2, Zenon

LEMMA DispatchPushes ==
  ASSUME NEW w \in Watches, queue[w] \in Nat, NEW f, NEW s, Dispatch(w, f, s)
  PROVE  \/ stack' = s
         \/ \E g \in Frames : g.at = "event" /\ g.w = w /\ stack' = Append(s, g)
<1>1. \/ stack' = s
      \/ \E how \in {"plain", "line", "write"}, n \in Nat, eof \in BOOLEAN : Start(w, s, how, n, eof)
  <2>1. ASSUME WatchHandle(w, s)
        PROVE  stack' = s \/ Start(w, s, "plain", 0, FALSE)
    BY <2>1 DEF WatchHandle, Ignore
  <2>2. ASSUME WatchHandleLine(w, s)
        PROVE  stack' = s \/ \E n \in Nat, eof \in BOOLEAN : Start(w, s, "line", n, eof)
    BY <2>2, LinesAssumption DEF WatchHandleLine, Ignore
  <2>3. ASSUME WatchHandleWrite(w, s)
        PROVE  stack' = s \/ Start(w, s, "write", queue[w], FALSE)
    BY <2>3 DEF WatchHandleWrite, Ignore
  <2>4. 0 \in Nat /\ FALSE \in BOOLEAN
    OBVIOUS
  <2> QED BY <2>1, <2>2, <2>3, <2>4 DEF Dispatch, Ignore
<1> QED BY <1>1, StartPushes

\* Steps of ekg_loop(): a loop is on top, so nothing is pinned.
LEMMA LoopPinned ==
  ASSUME IInv, Loop
  PROVE  Pinned(stack', fd')
<1>1. Top.at = "loop" /\ fd' = fd
  BY DEF Loop, LoopTimers, LoopChildren, LoopReap, SelectBad, SelectInterrupted, SelectReady,
         LoopBad, LoopScan, LoopCleanup, LoopAt, fields
<1>2. ASSUME NEW f \in Frames, f.at = "loop",
             \/ stack' = OnTop(f)
             \/ \E g \in Frames : /\ stack' = Append(OnTop(f), g)
                                  /\ g.at = "autoback" => fd[g.w] \in Stdin /\ f.cur = g.w
      PROVE  Pinned(stack', fd)
  <2>1. /\ OnTop(f) \in Seq(Frames) /\ Pinned(OnTop(f), fd)
        /\ Len(OnTop(f)) = Depth /\ Depth >= 1 /\ OnTop(f)[Depth] = f
        /\ ~Automatic(OnTop(f))
    BY <1>1, <1>2, PinnedTop DEF AtWork
  <2> QED BY <1>2, <2>1, PinnedPush
<1>g. \A pc \in LoopPc : \E f \in Frames : Goto(pc) = OnTop(f) /\ f.at = "loop"
  <2> SUFFICES ASSUME NEW pc \in LoopPc
               PROVE  \E f \in Frames : Goto(pc) = OnTop(f) /\ f.at = "loop"
    OBVIOUS
  <2> DEFINE f == [Top EXCEPT !.pc = pc, !.cur = BeforeHead]
  <2>1. BeforeHead \in 1..BeforeHead
    BY WatchesAssumption DEF BeforeHead
  <2>2. f \in [at : {"loop"}, pc : LoopPc, cur : 1..BeforeHead, rd : SUBSET Fds,
               wd : SUBSET Fds, top : 0..MaxWatches]
    BY <1>1, <2>1, LoopFrameFacts
  <2>3. f \in Frames /\ f.at = "loop"
    BY <2>2 DEF Frames
  <2>4. Goto(pc) = OnTop(f)
    BY DEF Goto
  <2> HIDE DEF f
  <2> QED BY <2>3, <2>4
<1>a. \A n \in Ahead : \E f \in Frames : Advance(n) = OnTop(f) /\ f.at = "loop" /\ f.cur = n
  <2> SUFFICES ASSUME NEW n \in Ahead
               PROVE  \E f \in Frames : Advance(n) = OnTop(f) /\ f.at = "loop" /\ f.cur = n
    OBVIOUS
  <2> DEFINE f == [Top EXCEPT !.cur = n]
  <2>1. n \in 1..BeforeHead
    BY <1>1, AdvanceGood, WatchesAssumption DEF BeforeHead, Watches
  <2>2. f \in [at : {"loop"}, pc : LoopPc, cur : 1..BeforeHead, rd : SUBSET Fds,
               wd : SUBSET Fds, top : 0..MaxWatches]
    BY <1>1, <2>1, LoopFrameFacts
  <2>3. f \in Frames /\ f.at = "loop" /\ f.cur = n
    BY <1>1, <2>2, LoopFrameFacts DEF Frames
  <2>4. Advance(n) = OnTop(f)
    BY DEF Advance
  <2> HIDE DEF f
  <2> QED BY <2>3, <2>4
<1>l. stack' = Leave => Pinned(stack', fd)
  <2> DEFINE f == LoopFrame("timers")
             t == <<f>>
  <2>1. f.at = "loop"
    BY DEF LoopFrame
  <2> HIDE DEF f
  <2>2. Len(t) = 1 /\ t[1] = f
    OBVIOUS
  <2> HIDE DEF t
  <2>3. \A i \in 1..Len(t) : t[i].at = "loop"
    BY <2>1, <2>2
  <2>4. Pinned(t, fd)
    BY <2>3 DEF Pinned
  <2>5. stack \in Seq(Frames) /\ Len(stack) >= 1 /\ Pinned(stack, fd)
    BY TopFacts DEF Depth, IInv
  <2>6. Pinned(Below, fd)
    BY <2>5, PinnedPop DEF Below, Depth
  <2>7. Leave = t \/ Leave = Below
    BY DEF Leave, t, f
  <2> QED BY <2>4, <2>6, <2>7
<1>n. ASSUME NEW n \in Ahead,
             \/ stack' = Advance(n)
             \/ \E g \in Frames : /\ stack' = Append(Advance(n), g)
                                  /\ g.at = "autoback" => fd[g.w] \in Stdin /\ n = g.w
      PROVE  Pinned(stack', fd)
  <2>1. PICK f \in Frames : Advance(n) = OnTop(f) /\ f.at = "loop" /\ f.cur = n
    BY <1>a
  <2> QED BY <1>2, <1>n, <2>1
<1>c. CallbackFrame \in Frames /\ CallbackFrame.at = "callback"
  BY CallsAssumption DEF CallbackFrame, Frames
<1>p. ASSUME NEW pc \in LoopPc,
             stack' = Goto(pc) \/ stack' = Append(Goto(pc), CallbackFrame)
      PROVE  Pinned(stack', fd)
  <2>1. PICK f \in Frames : Goto(pc) = OnTop(f) /\ f.at = "loop"
    BY <1>g
  <2> HIDE DEF CallbackFrame
  <2> QED BY <1>2, <1>c, <1>p, <2>1
<1>3. CASE LoopTimers \/ LoopChildren
  <2>1. PICK pc \in LoopPc : stack' = Goto(pc) \/ stack' = Append(Goto(pc), CallbackFrame)
    BY <1>3 DEF LoopTimers, LoopChildren, LoopPc
  <2> QED BY <1>1, <1>p, <2>1
<1>4. CASE LoopReap
  <2>1. "children" \in LoopPc
    BY DEF LoopPc
  <2>2. CASE stack' = Goto("children")
    BY <1>1, <1>p, <2>1, <2>2
  <2>3. CASE \E n \in Ahead : Ignore(Advance(n))
    BY <1>1, <1>n, <2>3 DEF Ignore
  <2>4. ASSUME NEW n \in Ahead, WatchFree(n, Forget(n), Advance(n), FALSE)
        PROVE  Pinned(stack', fd)
    <3>1. n \in Watches
      BY <1>1, AdvanceGood
    <3>2. \/ stack' = Advance(n)
          \/ \E g \in Frames : g.at = "final" /\ g.w = n /\ stack' = Append(Advance(n), g)
      BY <2>4, <3>1, FreePushes
    <3> QED BY <1>n, <3>2
  <2> QED BY <1>1, <1>4, <2>2, <2>3, <2>4 DEF LoopReap
<1>5. CASE SelectBad
  <2>1. "bad" \in LoopPc /\ stack' = Goto("bad")
    BY <1>5 DEF LoopPc, SelectBad
  <2> QED BY <1>1, <1>p, <2>1
<1>6. CASE SelectInterrupted \/ LoopCleanup
  BY <1>1, <1>6, <1>l DEF SelectInterrupted, LoopCleanup
<1>7. CASE SelectReady
  <2>1. PICK f \in Frames : stack' = OnTop(f) /\ f.at = "loop"
    BY <1>7, SelectFrame
  <2> QED BY <1>1, <1>2, <2>1
<1>8. CASE LoopBad
  <2>1. CASE stack' = Leave
    BY <1>1, <1>l, <2>1
  <2>2. CASE \E n \in Ahead : Ignore(Advance(n))
    BY <1>1, <1>n, <2>2 DEF Ignore
  <2>3. ASSUME NEW n \in Ahead, WatchFree(n, removed, Advance(n), FALSE)
        PROVE  Pinned(stack', fd)
    <3>1. n \in Watches
      BY <1>1, AdvanceGood
    <3>2. \/ stack' = Advance(n)
          \/ \E g \in Frames : g.at = "final" /\ g.w = n /\ stack' = Append(Advance(n), g)
      BY <2>3, <3>1, FreePushes
    <3> QED BY <1>n, <3>2
  <2> QED BY <1>1, <1>8, <2>1, <2>2, <2>3 DEF LoopBad
<1>9. CASE LoopScan
  <2>1. PICK n \in Ahead :
          \/ Ignore(Advance(n))
          \/ Dispatch(n, Top, Advance(n))
          \/ fd[n] \in Stdin /\ stack' = Append(Advance(n), AutobackFrame(n))
          \/ WatchTimeout(n, Advance(n))
    BY <1>9 DEF LoopScan
  <2>2. n \in Watches /\ queue[n] \in Nat
    BY <1>1, AdvanceGood DEF IInv, Core, Typed
  <2>3. CASE Ignore(Advance(n))
    BY <1>1, <1>n, <2>3 DEF Ignore
  <2>4. CASE Dispatch(n, Top, Advance(n))
    <3>1. \/ stack' = Advance(n)
          \/ \E g \in Frames : g.at = "event" /\ g.w = n /\ stack' = Append(Advance(n), g)
      BY <2>2, <2>4, DispatchPushes
    <3> QED BY <1>1, <1>n, <3>1
  <2>5. CASE fd[n] \in Stdin /\ stack' = Append(Advance(n), AutobackFrame(n))
    <3>1. AutobackFrame(n) \in Frames /\ AutobackFrame(n).w = n
      BY <2>2, NewFrames
    <3> QED BY <1>1, <1>n, <2>5, <3>1
  <2>6. CASE WatchTimeout(n, Advance(n))
    <3>1. "timeout" \in {"plain", "timeout", "line", "write"} /\ 0 \in Nat /\ FALSE \in BOOLEAN
          /\ Start(n, Advance(n), "timeout", 0, FALSE)
      BY <2>6 DEF WatchTimeout
    <3>2. \E g \in Frames : g.at = "event" /\ g.w = n /\ stack' = Append(Advance(n), g)
      BY <2>2, <3>1, StartPushes
    <3> QED BY <1>1, <1>n, <3>2
  <2> QED BY <2>1, <2>3, <2>4, <2>5, <2>6
<1> QED BY <1>3, <1>4, <1>5, <1>6, <1>7, <1>8, <1>9 DEF Loop

\* What is called while a command runs: the keyboard's watches are spared.
LEMMA CallPinned ==
  ASSUME IInv, Calls
  PROVE  Pinned(stack', fd')
<1>0. InHandler /\ Top.calls > 0
  BY DEF Calls, WatchAdd, CallFree, CallFreeManually, CallWrite, CallCork, CallCommit, CallRemove,
         CallLoop, CallOpen, CallClose, May
<1>1. /\ Spent \in Seq(Frames) /\ Pinned(Spent, fd)
      /\ Automatic(Spent) => Autoback
  <2> DEFINE f == [Top EXCEPT !.calls = @ - 1]
  <2>1. f \in Frames /\ f.at = Top.at /\ f.at # "remove" /\ (AtWork(f) => f.w = Top.w)
    BY <1>0, TopFacts DEF Frames, InHandler, AtWork
  <2> HIDE DEF f
  <2>2. /\ OnTop(f) \in Seq(Frames) /\ Pinned(OnTop(f), fd)
        /\ Automatic(OnTop(f)) => Autoback
    BY <2>1, PinnedTop
  <2> QED BY <2>2 DEF Spent, f
<1>2. ASSUME fd' = fd,
             \/ stack' = Spent
             \/ \E g \in Frames : /\ stack' = Append(Spent, g) /\ g.at # "autoback"
                                  /\ Autoback => /\ g.at # "loop"
                                                 /\ AtWork(g) => fd[g.w] \notin Stdin
                                                 /\ g.at = "remove" => g.fd \notin Stdin
      PROVE  Pinned(stack', fd')
  BY <1>1, <1>2, PinnedPush
<1>3. ASSUME NEW f \in Fds, NEW k \in Kinds, WatchAdd(f, k)
      PROVE  Pinned(stack', fd')
  <2>1. PICK w \in Watches : cell[w] = "unused" /\ fd' = [fd EXCEPT ![w] = f]
    BY <1>3 DEF WatchAdd
  <2>2. \A v \in Watches : v # w => fd'[v] = fd[v]
    BY <2>1 DEF IInv, Core, Typed
  <2>3. Good(Spent, cell, removed, queue)
    BY <1>0, SpentGood
  <2>4. ASSUME NEW i \in 1..Len(Spent), AtWork(Spent[i])
        PROVE  fd'[Spent[i].w] = fd[Spent[i].w]
    <3>1. Spent[i].w \in Watches
      BY <1>1, <2>4, FrameFacts
    <3>2. cell[Spent[i].w] = "live"
      BY <2>3, <2>4 DEF Good, Marked, AtWork
    <3> QED BY <2>1, <2>2, <3>1, <3>2
  <2>5. Pinned(Spent, fd')
    BY <1>1, <2>4, PinnedChange
  <2> QED BY <1>3, <2>5 DEF WatchAdd
<1>4. ASSUME NEW w \in Watches, CallFree(w) \/ CallFreeManually(w)
      PROVE  Pinned(stack', fd')
  <2>1. WatchFree(w, removed, Spent, FALSE) /\ fd' = fd /\ (Autoback => fd[w] \notin Stdin)
    BY <1>4 DEF CallFree, CallFreeManually, Freeable, Spared, fields
  <2>2. \/ stack' = Spent
        \/ \E g \in Frames : g.at = "final" /\ g.w = w /\ stack' = Append(Spent, g)
    BY <2>1, FreePushes
  <2> QED BY <1>2, <2>1, <2>2
<1>5. ASSUME NEW w \in Watches, CallWrite(w) \/ CallCork(w) \/ CallCommit(w)
      PROVE  Pinned(stack', fd')
  <2>1. fd' = fd /\ (Autoback => fd[w] \notin Stdin) /\ queue[w] \in Nat /\ 1 \in Nat
    BY <1>5 DEF CallWrite, CallCork, CallCommit, Writable, Spared, fields, IInv, Core, Typed
  <2>2. stack' = Spent \/ \E n \in Nat : Start(w, Spent, "write", n, FALSE)
    BY <1>5, <2>1 DEF CallWrite, CallCork, CallCommit, Ignore
  <2>3. \/ stack' = Spent
        \/ \E g \in Frames : g.at = "event" /\ g.w = w /\ stack' = Append(Spent, g)
    BY <2>2, StartPushes
  <2> QED BY <1>2, <2>1, <2>3
<1>6. ASSUME NEW f \in Fds, NEW t \in {{"READ"}, {"WRITE"}}, CallRemove(f, t)
      PROVE  Pinned(stack', fd')
  <2>1. RemoveFrame(f, t) \in Frames /\ RemoveFrame(f, t).at = "remove" /\ RemoveFrame(f, t).fd = f
    BY DEF RemoveFrame, Frames
  <2>2. fd' = fd /\ (Autoback => f \notin Stdin) /\ stack' = Append(Spent, RemoveFrame(f, t))
    BY <1>6 DEF CallRemove, Spared, fields
  <2> HIDE DEF RemoveFrame
  <2> QED BY <1>2, <2>1, <2>2 DEF AtWork
<1>7. CASE CallLoop
  <2>1. ~Autoback /\ fd' = fd /\ stack' = Append(Spent, LoopFrame("timers"))
    BY <1>7 DEF CallLoop, fields
  <2> QED BY <1>2, <2>1, BottomFrame
<1>8. CASE CallOpen \/ \E f \in Fds : CallClose(f)
  BY <1>2, <1>8 DEF CallOpen, CallClose, fields
<1> QED BY <1>3, <1>4, <1>5, <1>6, <1>7, <1>8 DEF Calls

LEMMA ReturnPinned ==
  ASSUME IInv, Returns
  PROVE  Pinned(stack', fd')
<1>1. stack \in Seq(Frames) /\ Len(stack) >= 1 /\ Pinned(stack, fd) /\ Top = stack[Len(stack)]
  BY TopFacts DEF Depth, Top, IInv
<1>2. /\ Below \in Seq(Frames) /\ Pinned(Below, fd)
      /\ (Automatic(Below) /\ AtWork(Top)) => fd[Top.w] \notin Stdin
  BY <1>1, PinnedPop DEF Below, Depth
<1>3. ASSUME fd' = fd, AtWork(Top),
             \/ stack' = Below
             \/ \E g \in Frames : /\ stack' = Append(Below, g)
                                  /\ g.at \in {"event", "final"} /\ g.w = Top.w
      PROVE  Pinned(stack', fd')
  BY <1>2, <1>3, PinnedPush DEF AtWork
<1>4. ASSUME fd' = fd, Top.at = "event", NEW shut \in BOOLEAN,
             \/ WatchFree(Top.w, Forget(Top.w), Below, shut)
             \/ stack' = Below
      PROVE  Pinned(stack', fd')
  <2>1. Top.w \in Watches /\ AtWork(Top)
    BY <1>4, TopFacts DEF AtWork
  <2>2. \/ stack' = Below
        \/ \E g \in Frames : g.at = "final" /\ g.w = Top.w /\ stack' = Append(Below, g)
    BY <1>4, <2>1, FreePushes
  <2> QED BY <1>3, <1>4, <2>1, <2>2
<1>5. ASSUME NEW res \in {-1, 0}, PlainReturn(res)
      PROVE  Pinned(stack', fd')
  BY <1>4, <1>5 DEF PlainReturn, Running, fields
<1>6. ASSUME NEW res \in {-1, 0}, LineReturn(res)
      PROVE  Pinned(stack', fd')
  <2>1. Top.at = "event" /\ Top.how = "line" /\ Top \in Frames /\ fd' = fd
    BY <1>6, TopFacts DEF LineReturn, Running, fields
  <2>2. CASE Top.n > 1 /\ stack' = OnTop([Top EXCEPT !.n = @ - 1])
    <3> DEFINE f == [Top EXCEPT !.n = @ - 1]
    <3>1. f \in Frames /\ f.at = "event" /\ f.w = Top.w
      BY <2>1, <2>2 DEF Frames
    <3> HIDE DEF f
    <3>2. Pinned(OnTop(f), fd)
      BY <2>1, <3>1, PinnedTop
    <3> QED BY <2>1, <2>2, <3>2 DEF f
  <2>3. CASE WatchFree(Top.w, Forget(Top.w), Below, TRUE) \/ stack' = Below
    BY <1>4, <2>1, <2>3
  <2> QED BY <1>6, <2>2, <2>3 DEF LineReturn
<1>7. ASSUME NEW res \in -1..MaxQueue + 1, WriteReturn(res)
      PROVE  Pinned(stack', fd')
  BY <1>4, <1>7 DEF WriteReturn, Running, fields
<1>8. CASE FinalReturn
  <2>1. Top.at = "final" /\ Top.w \in Watches /\ stack' = Below
    BY <1>8, TopFacts DEF FinalReturn, Running
  <2>2. \A v \in Watches : v # Top.w => fd'[v] = fd[v]
    BY <1>8, <2>1 DEF FinalReturn, IInv, Core, Typed
  <2>3. ASSUME NEW i \in 1..Len(Below), AtWork(Below[i])
        PROVE  Below[i].w \in Watches /\ Below[i].w # Top.w
    <3>1. /\ Len(Below) = Len(stack) - 1 /\ \A j \in 1..Len(stack) - 1 : Below[j] = stack[j]
          /\ Len(stack) \in Nat
      BY <1>1, PopFacts DEF Below, Depth
    <3>2. i \in 1..Len(stack) /\ i # Len(stack) /\ Below[i] = stack[i] /\ Len(stack) \in 1..Len(stack)
      BY <3>1
    <3>3. CASE stack[i].at = "autoback"
      BY <2>1, <3>2, <3>3, <1>2, <2>3, FrameFacts, PinnedFinal
    <3>4. CASE IsHandler(stack[i])
      BY <1>1, <1>2, <2>1, <2>3, <3>2, <3>4, FrameFacts DEF IInv, Core, Good, Distinct, IsHandler
    <3> QED BY <2>3, <3>2, <3>3, <3>4 DEF AtWork, IsHandler
  <2>4. \A i \in 1..Len(Below) : AtWork(Below[i]) => fd'[Below[i].w] = fd[Below[i].w]
    BY <2>2, <2>3
  <2> QED BY <1>2, <2>1, <2>4, PinnedChange
<1>9. CASE CallbackReturn
  BY <1>2, <1>9 DEF CallbackReturn, fields
<1>10. CASE AutobackReturn
  <2>1. Top.at = "autoback" /\ Top.w \in Watches /\ queue[Top.w] \in Nat /\ fd' = fd
    BY <1>10, TopFacts DEF AutobackReturn, Running, fields, IInv, Core, Typed
  <2>2. \/ stack' = Below
        \/ \E g \in Frames : g.at = "event" /\ g.w = Top.w /\ stack' = Append(Below, g)
    BY <1>10, <2>1, DispatchPushes DEF AutobackReturn
  <2> QED BY <1>3, <2>1, <2>2 DEF AtWork
<1>11. CASE RemoveNext
  <2>1. Top.at = "remove" /\ fd' = fd
    BY <1>11 DEF RemoveNext, Running, fields
  <2>2. ASSUME NEW w \in Matching(Top.fd, Top.type), WatchFree(w, removed, stack, FALSE)
        PROVE  Pinned(stack', fd)
    <3>1. w \in Watches /\ fd[w] = Top.fd
      BY DEF Matching, Live
    <3>2. \/ stack' = stack
          \/ \E g \in Frames : g.at = "final" /\ g.w = w /\ stack' = Append(stack, g)
      BY <2>2, <3>1, FreePushes
    <3>3. Automatic(stack) => Top.fd \notin Stdin
      <4>1. Len(stack) \in 1..Len(stack) /\ \A i \in 1..Len(stack) : i = Len(stack) \/ i < Len(stack)
        BY <1>1
      <4> QED BY <1>1, <2>1, <4>1 DEF Automatic, Pinned
    <3> QED BY <1>1, <3>1, <3>2, <3>3, PinnedPush
  <2>3. stack' = Below \/ \E w \in Matching(Top.fd, Top.type) : WatchFree(w, removed, stack, FALSE)
    BY <1>11 DEF RemoveNext
  <2> QED BY <1>2, <2>1, <2>2, <2>3
<1> QED BY <1>5, <1>6, <1>7, <1>8, <1>9, <1>10, <1>11 DEF Returns

-----------------------------------------------------------------------------
(* Gentle handlers. *)

LEMMA TamePop ==
  ASSUME NEW s \in Seq(Frames), Len(s) >= 1, NEW r, NEW y, NEW d, Tame(s, r, y, d)
  PROVE  Tame(SubSeq(s, 1, Len(s) - 1), r, y, d)
<1> DEFINE t == SubSeq(s, 1, Len(s) - 1)
<1>1. t \in Seq(Frames) /\ Len(t) = Len(s) - 1 /\ \A i \in 1..Len(s) - 1 : t[i] = s[i]
  BY PopFacts
<1> HIDE DEF t
<1>2. \A i \in 1..Len(t) : i \in 1..Len(s) /\ t[i] = s[i]
  BY <1>1
<1>3. Tame(t, r, y, d)
  BY <1>2 DEF Tame
<1> QED BY <1>3 DEF t

LEMMA TamePush ==
  ASSUME NEW s \in Seq(Frames), NEW f \in Frames, NEW r, NEW y, NEW d, Tame(s, r, y, d),
         f.at = "event" => f.how # "line",
         f.at = "final" => ~f.shut,
         f.at = "remove" => \A j \in 1..Len(s) :
           s[j].at = "event" => ~(d[s[j].w] = f.fd /\ y[s[j].w] \in f.type)
  PROVE  Tame(Append(s, f), r, y, d)
<1> DEFINE t == Append(s, f)
<1>1. /\ t \in Seq(Frames) /\ Len(t) = Len(s) + 1 /\ Len(s) \in Nat
      /\ \A i \in 1..Len(s) : t[i] = s[i]
      /\ t[Len(s) + 1] = f
  BY PushFacts
<1> HIDE DEF t
<1>2. \A i \in 1..Len(t) : (i \in 1..Len(s) /\ t[i] = s[i]) \/ (i = Len(s) + 1 /\ t[i] = f)
  BY <1>1
<1>3. \A i \in 1..Len(t) : /\ t[i].at = "event" => t[i].how # "line"
                           /\ t[i].at = "final" => ~t[i].shut
  BY <1>2 DEF Tame
<1>4. ASSUME NEW i \in 1..Len(t), NEW j \in 1..Len(t),
             j < i, t[i].at = "remove", t[j].at = "event"
      PROVE  ~(d[t[j].w] = t[i].fd /\ y[t[j].w] \in t[i].type)
  <2>1. j \in 1..Len(s) /\ t[j] = s[j]
    BY <1>1, <1>2, <1>4
  <2> QED BY <1>2, <1>4, <2>1 DEF Tame
<1>5. Tame(t, r, y, d)
  BY <1>3, <1>4 DEF Tame
<1> QED BY <1>5 DEF t

\* The top goes on.
LEMMA TameTop ==
  ASSUME IInv, NEW f \in Frames, NEW r, NEW y, NEW d, Tame(stack, r, y, d),
         f.at = Top.at, f.at # "remove",
         f.at = "event" => f.w = Top.w /\ f.how = Top.how,
         f.at = "final" => f.shut = Top.shut
  PROVE  OnTop(f) \in Seq(Frames) /\ Tame(OnTop(f), r, y, d)
<1> DEFINE t == OnTop(f)
<1>1. /\ t \in Seq(Frames) /\ Len(t) = Len(stack) /\ t[Len(stack)] = f
      /\ \A i \in 1..Len(stack) : i # Len(stack) => t[i] = stack[i]
      /\ Top = stack[Len(stack)] /\ Len(stack) \in 1..Len(stack)
  BY OnTopFacts, TopFacts DEF Top, Depth
<1> HIDE DEF t
<1>2. \A i \in 1..Len(stack) :
        /\ t[i].at = stack[i].at
        /\ t[i].at = "event" => t[i].w = stack[i].w /\ t[i].how = stack[i].how
        /\ t[i].at = "final" => t[i].shut = stack[i].shut
        /\ t[i].at = "remove" => t[i] = stack[i]
  BY <1>1
<1>3. Tame(t, r, y, d)
  BY <1>1, <1>2 DEF Tame
<1> QED BY <1>1, <1>3 DEF t

\* Marks change, and what the watches that a handler runs for are.
LEMMA TameChange ==
  ASSUME NEW s, NEW r, NEW y, NEW d, Tame(s, r, y, d), s \in Seq(Frames),
         NEW r2, NEW y2, NEW d2, \A w \in Watches : r2[w] # 1,
         \A i \in 1..Len(s) : s[i].at = "event" =>
           \/ y2[s[i].w] = "NONE"
           \/ y2[s[i].w] = y[s[i].w] /\ d2[s[i].w] = d[s[i].w]
  PROVE  Tame(s, r2, y2, d2)
<1>1. ASSUME NEW i \in 1..Len(s), NEW j \in 1..Len(s),
             j < i, s[i].at = "remove", s[j].at = "event"
      PROVE  ~(d2[s[j].w] = s[i].fd /\ y2[s[j].w] \in s[i].type)
  <2>1. s[i].type \in {{"READ"}, {"WRITE"}}
    BY <1>1, FrameFacts
  <2>2. ~(d[s[j].w] = s[i].fd /\ y[s[j].w] \in s[i].type)
    BY <1>1 DEF Tame
  <2> QED BY <1>1, <2>1, <2>2
<1> QED BY <1>1 DEF Tame

LEMMA TameFree ==
  ASSUME NEW s \in Seq(Frames), NEW r \in Marks, NEW y, NEW d, Tame(s, r, y, d),
         NEW w \in Watches, r[w] \notin {-1, 1}, NEW shut \in BOOLEAN, ~shut,
         WatchFree(w, r, s, shut)
  PROVE  Tame(stack', removed', y, d)
<1>1. CASE removed' = r /\ stack' = s
  BY <1>1
<1>2. CASE removed' = [r EXCEPT ![w] = 2] /\ stack' = Append(s, FinalFrame(w, shut))
  <2>1. PICK f \in Frames : f = FinalFrame(w, shut) /\ f.at = "final"
    <3>1. FinalFrame(w, shut) \in Frames /\ FinalFrame(w, shut).at = "final"
      BY NewFrames
    <3> QED BY <3>1, Zenon
  <2>2. ~f.shut
    BY <2>1 DEF FinalFrame
  <2>3. Tame(Append(s, f), r, y, d) /\ Append(s, f) \in Seq(Frames)
    BY <2>1, <2>2, TamePush, PushFacts
  <2>4. \A v \in Watches : removed'[v] # 1
    BY <1>2 DEF Tame, Marks
  <2>5. Tame(Append(s, f), removed', y, d)
    BY <2>3, <2>4, TameChange
  <2> QED BY <1>2, <2>1, <2>5
<1> QED BY <1>1, <1>2 DEF WatchFree

LEMMA TameStart ==
  ASSUME NEW s \in Seq(Frames), removed \in Marks, NEW y, NEW d, Tame(s, removed, y, d),
         NEW w \in Watches, NEW how \in {"plain", "timeout", "write"}, NEW n \in Nat,
         NEW eof \in BOOLEAN, Start(w, s, how, n, eof)
  PROVE  Tame(stack', removed', y, d)
<1>1. PICK f \in Frames : f = EventFrame(w, how, n, eof) /\ f.at = "event" /\ f.how = how
  <2>1. /\ EventFrame(w, how, n, eof) \in Frames
        /\ EventFrame(w, how, n, eof).at = "event" /\ EventFrame(w, how, n, eof).how = how
    BY NewFrames
  <2> QED BY <2>1, Zenon
<1>2. Tame(Append(s, f), removed, y, d) /\ Append(s, f) \in Seq(Frames)
  BY <1>1, TamePush, PushFacts
<1>3. \A v \in Watches : removed'[v] # 1
  BY DEF Start, Tame, Marks
<1>4. Tame(Append(s, f), removed', y, d)
  BY <1>2, <1>3, TameChange
<1> QED BY <1>1, <1>4 DEF Start

LEMMA GentleFacts ==
  ASSUME Gentle, IInv
  PROVE  /\ Tame(stack, removed, type, fd) /\ Settled /\ removed \in Marks
         /\ Below \in Seq(Frames) /\ Tame(Below, removed, type, fd)
         /\ Top.at = "event" => Top.how # "line"
         /\ Top.at = "final" => ~Top.shut
         /\ \A i \in 1..Depth : stack[i].at = "event" => removed[stack[i].w] = -1
<1>1. Tame(stack, removed, type, fd) /\ Settled /\ removed \in Marks
      /\ stack \in Seq(Frames) /\ Len(stack) >= 1 /\ Depth = Len(stack) /\ Depth \in 1..Depth
  BY TopFacts DEF IInv, Core, Good, Depth
<1>2. Below \in Seq(Frames) /\ Tame(Below, removed, type, fd)
  BY <1>1, PopFacts, TamePop DEF Below
<1>3. /\ Top.at = "event" => Top.how # "line"
      /\ Top.at = "final" => ~Top.shut
  BY <1>1 DEF Tame, Top
<1>4. ASSUME NEW i \in 1..Depth, stack[i].at = "event"
      PROVE  removed[stack[i].w] = -1
  <2>1. stack[i].w \in Watches /\ removed[stack[i].w] \in {-1, 1}
    BY <1>1, <1>4, FrameFacts DEF IInv, Core, Good, Marked, IsHandler
  <2> QED BY <1>1, <2>1 DEF Tame
<1> QED BY <1>1, <1>2, <1>3, <1>4

LEMMA GotoTame ==
  ASSUME IInv, Gentle, Top.at = "loop", NEW pc \in LoopPc
  PROVE  Goto(pc) \in Seq(Frames) /\ Tame(Goto(pc), removed, type, fd)
<1> DEFINE f == [Top EXCEPT !.pc = pc, !.cur = BeforeHead]
<1>1. f \in Frames /\ f.at = "loop"
  <2>1. BeforeHead \in 1..BeforeHead
    BY WatchesAssumption DEF BeforeHead
  <2>2. f \in [at : {"loop"}, pc : LoopPc, cur : 1..BeforeHead, rd : SUBSET Fds,
               wd : SUBSET Fds, top : 0..MaxWatches]
    BY <2>1, LoopFrameFacts
  <2> QED BY <2>2, LoopFrameFacts DEF Frames
<1> HIDE DEF f
<1>2. OnTop(f) \in Seq(Frames) /\ Tame(OnTop(f), removed, type, fd)
  BY <1>1, GentleFacts, TameTop
<1> QED BY <1>2 DEF Goto, f

LEMMA AdvanceTame ==
  ASSUME IInv, Gentle, Top.at = "loop", NEW n \in Ahead
  PROVE  Advance(n) \in Seq(Frames) /\ Tame(Advance(n), removed, type, fd)
<1> DEFINE f == [Top EXCEPT !.cur = n]
<1>1. f \in Frames /\ f.at = "loop"
  <2>1. n \in 1..BeforeHead
    BY AdvanceGood, WatchesAssumption DEF BeforeHead, Watches
  <2>2. f \in [at : {"loop"}, pc : LoopPc, cur : 1..BeforeHead, rd : SUBSET Fds,
               wd : SUBSET Fds, top : 0..MaxWatches]
    BY <2>1, LoopFrameFacts
  <2> QED BY <2>2, LoopFrameFacts DEF Frames
<1> HIDE DEF f
<1>2. OnTop(f) \in Seq(Frames) /\ Tame(OnTop(f), removed, type, fd)
  BY <1>1, GentleFacts, TameTop
<1> QED BY <1>2 DEF Advance, f

LEMMA LeaveTame ==
  ASSUME IInv, Gentle, Top.at = "loop"
  PROVE  Tame(Leave, removed, type, fd)
<1> DEFINE f == LoopFrame("timers")
           t == <<f>>
<1>1. f.at = "loop"
  BY DEF LoopFrame
<1> HIDE DEF f
<1>2. Len(t) = 1 /\ t[1] = f
  OBVIOUS
<1> HIDE DEF t
<1>3. \A i \in 1..Len(t) : t[i].at = "loop"
  BY <1>1, <1>2
<1>4. Tame(t, removed, type, fd)
  BY <1>3, GentleFacts DEF Tame
<1>5. Leave = t \/ Leave = Below
  BY DEF Leave, t, f
<1> QED BY <1>4, <1>5, GentleFacts

LEMMA DispatchTame ==
  ASSUME Gentle, IInv, NEW n \in Watches, NEW f, NEW s \in Seq(Frames),
         Tame(s, removed, type, fd), queue[n] \in Nat, Dispatch(n, f, s)
  PROVE  Tame(stack', removed', type, fd)
<1>1. Settled /\ removed \in Marks
  BY GentleFacts
<1>2. ~(HasBuf(n) /\ type[n] = "READ")
  BY <1>1 DEF Settled, HasBuf
<1>3. \/ Ignore(s)
      \/ Start(n, s, "plain", 0, FALSE)
      \/ Start(n, s, "write", queue[n], FALSE)
  BY <1>2 DEF Dispatch, WatchHandle, WatchHandleWrite
<1>4. 0 \in Nat /\ "plain" \in {"plain", "timeout", "write"}
      /\ "write" \in {"plain", "timeout", "write"}
  OBVIOUS
<1> QED BY <1>1, <1>3, <1>4, TameStart DEF Ignore

LEMMA LoopTame ==
  ASSUME Gentle, IInv, Loop
  PROVE  Tame(stack', removed', type', fd')
<1>g. /\ Tame(stack, removed, type, fd) /\ Settled /\ removed \in Marks
  BY GentleFacts
<1>1. Top.at = "loop" /\ type' = type /\ fd' = fd
  BY DEF Loop, LoopTimers, LoopChildren, LoopReap, SelectBad, SelectInterrupted, SelectReady,
         LoopBad, LoopScan, LoopCleanup, LoopAt, fields
<1>m. Manageable
  BY DEF Manageable
<1>2. ASSUME NEW pc \in LoopPc, UNCHANGED removed,
             stack' = Goto(pc) \/ stack' = Append(Goto(pc), CallbackFrame)
      PROVE  Tame(stack', removed', type, fd)
  <2>1. Goto(pc) \in Seq(Frames) /\ Tame(Goto(pc), removed, type, fd)
    BY <1>1, GotoTame
  <2>2. PICK f \in Frames : f = CallbackFrame /\ f.at = "callback"
    <3>1. CallbackFrame \in Frames /\ CallbackFrame.at = "callback"
      BY CallsAssumption DEF CallbackFrame, Frames
    <3> QED BY <3>1, Zenon
  <2>3. Tame(Append(Goto(pc), f), removed, type, fd)
    BY <2>1, <2>2, TamePush
  <2> QED BY <1>2, <2>1, <2>2, <2>3
<1>3. ASSUME NEW n \in Ahead, Ignore(Advance(n))
      PROVE  Tame(stack', removed', type, fd)
  BY <1>1, <1>3, AdvanceTame DEF Ignore
<1>4. CASE LoopTimers \/ LoopChildren
  <2>1. PICK pc \in LoopPc : /\ stack' = Goto(pc) \/ stack' = Append(Goto(pc), CallbackFrame)
                             /\ UNCHANGED removed
    BY <1>4 DEF LoopTimers, LoopChildren, LoopPc
  <2> QED BY <1>1, <1>2, <2>1
<1>5. CASE LoopReap
  <2>1. \A n \in Ahead : removed[n] # 1
    BY <1>1, <1>g, AdvanceGood DEF Tame
  <2>2. \/ stack' = Goto("children") /\ UNCHANGED removed
        \/ \E n \in Ahead : Ignore(Advance(n))
    BY <1>5, <2>1 DEF LoopReap
  <2>3. "children" \in LoopPc
    BY DEF LoopPc
  <2> QED BY <1>1, <1>2, <1>3, <2>2, <2>3
<1>6. CASE SelectBad
  <2>1. "bad" \in LoopPc /\ stack' = Goto("bad") /\ UNCHANGED removed
    BY <1>6 DEF LoopPc, SelectBad
  <2> QED BY <1>1, <1>2, <2>1
<1>7. CASE SelectInterrupted \/ LoopCleanup
  <2>1. stack' = Leave /\ removed' = removed
    BY <1>7 DEF SelectInterrupted, LoopCleanup
  <2> QED BY <1>1, <2>1, LeaveTame
<1>8. CASE SelectReady
  <2>1. PICK f \in Frames : stack' = OnTop(f) /\ f.at = "loop"
    BY <1>8, SelectFrame
  <2>2. removed' = removed
    BY <1>8 DEF SelectReady
  <2> QED BY <1>1, <1>g, <2>1, <2>2, TameTop
<1>9. CASE LoopBad
  <2>1. \A n \in Ahead : cell[n] = "live" => fd[n] \in open
    BY <1>1, <1>g, AdvanceGood DEF Settled
  <2>2. \/ stack' = Leave /\ UNCHANGED removed
        \/ \E n \in Ahead : Ignore(Advance(n))
    BY <1>9, <2>1 DEF LoopBad
  <2> QED BY <1>1, <1>3, <2>2, LeaveTame
<1>10. CASE LoopScan
  <2>1. PICK n \in Ahead :
          \/ Ignore(Advance(n))
          \/ cell[n] = "live" /\ Dispatch(n, Top, Advance(n))
          \/ stack' = Append(Advance(n), AutobackFrame(n)) /\ UNCHANGED removed
          \/ kind[n] \in TimedKinds
    BY <1>10 DEF LoopScan
  <2>2. n \in Watches /\ Advance(n) \in Seq(Frames) /\ Tame(Advance(n), removed, type, fd)
        /\ queue[n] \in Nat
    BY <1>1, AdvanceGood, AdvanceTame DEF IInv, Core, Typed
  <2>3. CASE Dispatch(n, Top, Advance(n))
    BY <1>1, <2>2, <2>3, DispatchTame
  <2>4. CASE stack' = Append(Advance(n), AutobackFrame(n)) /\ UNCHANGED removed
    <3>1. AutobackFrame(n) \in Frames /\ AutobackFrame(n).at = "autoback"
      BY <2>2, NewFrames
    <3> HIDE DEF AutobackFrame
    <3>2. Tame(Append(Advance(n), AutobackFrame(n)), removed, type, fd)
      BY <2>2, <3>1, TamePush
    <3> QED BY <1>1, <2>4, <3>2
  <2> QED BY <1>1, <1>3, <2>1, <2>3, <2>4 DEF Gentle
<1> QED BY <1>4, <1>5, <1>6, <1>7, <1>8, <1>9, <1>10 DEF Loop

LEMMA CallTame ==
  ASSUME Gentle, IInv, Calls
  PROVE  Tame(stack', removed', type', fd')
<1>g. /\ Tame(stack, removed, type, fd) /\ Settled /\ removed \in Marks
      /\ \A i \in 1..Depth : stack[i].at = "event" => removed[stack[i].w] = -1
  BY GentleFacts
<1>0. InHandler /\ Top.calls > 0
  BY DEF Calls, WatchAdd, CallFree, CallFreeManually, CallWrite, CallCork, CallCommit, CallRemove,
         CallLoop, CallOpen, CallClose, May
<1>1. Spent \in Seq(Frames) /\ Tame(Spent, removed, type, fd)
  <2> DEFINE f == [Top EXCEPT !.calls = @ - 1]
  <2>1. /\ f \in Frames /\ f.at = Top.at /\ f.at # "remove"
        /\ f.at = "event" => f.w = Top.w /\ f.how = Top.how
        /\ f.at = "final" => f.shut = Top.shut
    BY <1>0, TopFacts DEF Frames, InHandler
  <2> HIDE DEF f
  <2>2. OnTop(f) \in Seq(Frames) /\ Tame(OnTop(f), removed, type, fd)
    BY <1>g, <2>1, TameTop
  <2> QED BY <2>2 DEF Spent, f
<1>2. \A i \in 1..Len(Spent) : Spent[i].at = "event" =>
        /\ Spent[i].w \in Watches
        /\ cell[Spent[i].w] = "live"
        /\ removed[Spent[i].w] = -1
  <2> SUFFICES ASSUME NEW i \in 1..Len(Spent), Spent[i].at = "event"
               PROVE  /\ Spent[i].w \in Watches /\ cell[Spent[i].w] = "live"
                      /\ removed[Spent[i].w] = -1
    OBVIOUS
  <2>1. Good(Spent, cell, removed, queue)
    BY <1>0, SpentGood
  <2>2. Spent[i].w \in Watches
    BY <1>1, FrameFacts DEF IsHandler
  <2>3. cell[Spent[i].w] = "live" /\ removed[Spent[i].w] \in {-1, 1}
    BY <2>1 DEF Good, Marked
  <2>4. removed[Spent[i].w] # 1
    BY <1>g, <2>2 DEF Tame
  <2> QED BY <2>2, <2>3, <2>4
<1>f. ASSUME NEW w \in Freeable
      PROVE  removed[w] \in {0, 2}
  <2>1. ~FreeRunning
    BY DEF Gentle
  <2>2. FreeRunning \/ removed[w] \in {0, 2}
    BY DEF Freeable
  <2> QED BY <2>1, <2>2, Zenon
<1>3. ASSUME NEW f \in Fds, NEW k \in Kinds, WatchAdd(f, k)
      PROVE  Tame(stack', removed', type', fd')
  <2>1. PICK w \in Watches :
          /\ cell[w] = "unused"
          /\ type' = [type EXCEPT ![w] = IF k \in {"read", "readline"} THEN "READ" ELSE "WRITE"]
          /\ fd' = [fd EXCEPT ![w] = f]
    BY <1>3 DEF WatchAdd
  <2>2. \A v \in Watches : v # w => type'[v] = type[v] /\ fd'[v] = fd[v]
    BY <2>1 DEF IInv, Core, Typed
  <2>3. \A i \in 1..Len(Spent) : Spent[i].at = "event" => Spent[i].w # w
    BY <1>2, <2>1
  <2>4. \A v \in Watches : removed[v] # 1
    BY <1>g DEF Tame
  <2>5. Tame(Spent, removed, type', fd')
    BY <1>1, <1>2, <2>2, <2>3, <2>4, TameChange
  <2> QED BY <1>3, <2>5 DEF WatchAdd
<1>4. ASSUME NEW w \in Watches, CallFree(w)
      PROVE  Tame(stack', removed', type', fd')
  <2>1. removed[w] \notin {-1, 1}
    BY <1>4, <1>f DEF CallFree
  <2>2. WatchFree(w, removed, Spent, FALSE) /\ UNCHANGED <<type, fd>>
    BY <1>4 DEF CallFree, fields
  <2> QED BY <1>1, <1>g, <2>1, <2>2, TameFree
<1>5. ASSUME NEW w \in Watches, CallFreeManually(w)
      PROVE  Tame(stack', removed', type', fd')
  <2>0. removed[w] \notin {-1, 1}
    BY <1>5, <1>f DEF CallFreeManually
  <2>1. /\ WatchFree(w, removed, Spent, FALSE) /\ UNCHANGED fd
        /\ type' = [type EXCEPT ![w] = "NONE"]
    BY <1>5 DEF CallFreeManually
  <2>2. \A v \in Watches : type'[v] \in {"NONE", type[v]}
    BY <2>1 DEF IInv, Core, Typed
  <2>3. \A v \in Watches : removed[v] # 1
    BY <1>g DEF Tame
  <2>4. Tame(Spent, removed, type', fd)
    BY <1>1, <1>2, <2>2, <2>3, TameChange
  <2>5. Tame(stack', removed', type', fd)
    BY <1>1, <1>g, <2>0, <2>1, <2>4, TameFree
  <2> QED BY <2>1, <2>5
<1>6. ASSUME NEW w \in Watches, CallWrite(w) \/ CallCork(w) \/ CallCommit(w)
      PROVE  Tame(stack', removed', type', fd')
  <2>1. UNCHANGED <<type, fd>> /\ queue[w] \in Nat /\ 1 \in Nat
    BY <1>6 DEF CallWrite, CallCork, CallCommit, fields, IInv, Core, Typed
  <2>2. \/ stack' = Spent /\ removed' = removed
        \/ \E n \in Nat : Start(w, Spent, "write", n, FALSE)
    BY <1>6, <2>1 DEF CallWrite, CallCork, CallCommit, Ignore
  <2>3. "write" \in {"plain", "timeout", "write"}
    OBVIOUS
  <2> QED BY <1>1, <1>g, <2>1, <2>2, <2>3, TameStart
<1>7. ASSUME NEW f \in Fds, NEW t \in {{"READ"}, {"WRITE"}}, CallRemove(f, t)
      PROVE  Tame(stack', removed', type', fd')
  <2>1. PICK g \in Frames : g = RemoveFrame(f, t) /\ g.at = "remove" /\ g.fd = f /\ g.type = t
    <3>1. RemoveFrame(f, t) \in Frames /\ RemoveFrame(f, t).at = "remove"
          /\ RemoveFrame(f, t).fd = f /\ RemoveFrame(f, t).type = t
      BY DEF RemoveFrame, Frames
    <3> QED BY <3>1, Zenon
  <2>2. ASSUME NEW j \in 1..Len(Spent), Spent[j].at = "event"
        PROVE  ~(fd[Spent[j].w] = f /\ type[Spent[j].w] \in t)
    <3>1. Spent[j].w \in Watches /\ cell[Spent[j].w] = "live" /\ removed[Spent[j].w] = -1
      BY <1>2, <2>2
    <3>2. Spent[j].w \notin Freeable
      BY <1>f, <3>1
    <3>3. Matching(f, t) \subseteq Freeable
      BY <1>7 DEF CallRemove
    <3>4. Spent[j].w \notin Matching(f, t)
      BY <3>2, <3>3
    <3> QED BY <3>1, <3>4 DEF Matching, Live
  <2>3. Tame(Append(Spent, g), removed, type, fd)
    BY <1>1, <2>1, <2>2, TamePush
  <2> QED BY <1>7, <2>1, <2>3 DEF CallRemove, fields
<1>8. CASE CallLoop
  <2>1. PICK g \in Frames : g = LoopFrame("timers") /\ g.at = "loop"
    BY BottomFrame, Zenon
  <2>2. Tame(Append(Spent, g), removed, type, fd)
    BY <1>1, <2>1, TamePush
  <2> QED BY <1>8, <2>1, <2>2 DEF CallLoop, fields
<1>9. CASE CallOpen \/ \E f \in Fds : CallClose(f)
  <2>1. stack' = Spent /\ UNCHANGED <<removed, type, fd>>
    BY <1>9 DEF CallOpen, CallClose, fields
  <2> QED BY <1>1, <2>1
<1> QED BY <1>3, <1>4, <1>5, <1>6, <1>7, <1>8, <1>9 DEF Calls

LEMMA ReturnTame ==
  ASSUME Gentle, IInv, Returns
  PROVE  Tame(stack', removed', type', fd')
<1>g. /\ Tame(stack, removed, type, fd) /\ Settled /\ removed \in Marks
      /\ Below \in Seq(Frames) /\ Tame(Below, removed, type, fd)
      /\ Top.at = "event" => Top.how # "line"
      /\ \A i \in 1..Depth : stack[i].at = "event" => removed[stack[i].w] = -1
  BY GentleFacts
<1>1. ASSUME Top.at \in {"event", "final"}
      PROVE  /\ Top.w \in Watches /\ Forget(Top.w) \in Marks /\ Forget(Top.w)[Top.w] = 0
             /\ \A v \in Watches : Forget(Top.w)[v] # 1
             /\ Tame(Below, Forget(Top.w), type, fd)
  <2>1. Top.w \in Watches
    BY <1>1, TopFacts
  <2>2. /\ Forget(Top.w) \in Marks /\ Forget(Top.w)[Top.w] = 0
        /\ \A v \in Watches : Forget(Top.w)[v] # 1
    BY <1>g, <2>1 DEF Forget, Marks, Tame
  <2>3. Tame(Below, Forget(Top.w), type, fd)
    BY <1>g, <2>2, TameChange
  <2> QED BY <2>1, <2>2, <2>3
<1>2. ASSUME Top.at = "event", UNCHANGED <<type, fd>>,
             \/ WatchFree(Top.w, Forget(Top.w), Below, FALSE)
             \/ removed' = Forget(Top.w) /\ stack' = Below
      PROVE  Tame(stack', removed', type', fd')
  <2>1. CASE WatchFree(Top.w, Forget(Top.w), Below, FALSE)
    <3>1. Forget(Top.w)[Top.w] \notin {-1, 1}
      BY <1>1, <1>2
    <3>2. Tame(stack', removed', type, fd)
      BY <1>1, <1>2, <1>g, <2>1, <3>1, TameFree
    <3> QED BY <1>2, <3>2
  <2> QED BY <1>1, <1>2, <2>1
<1>3. ASSUME NEW res \in {-1, 0}, PlainReturn(res)
      PROVE  Tame(stack', removed', type', fd')
  BY <1>2, <1>3 DEF PlainReturn, Running, fields
<1>4. ASSUME NEW res \in {-1, 0}, LineReturn(res)
      PROVE  FALSE
  BY <1>g, <1>4 DEF LineReturn, Running
<1>5. ASSUME NEW res \in -1..MaxQueue + 1, WriteReturn(res)
      PROVE  Tame(stack', removed', type', fd')
  BY <1>2, <1>5 DEF WriteReturn, Running, fields
<1>6. CASE FinalReturn
  <2>1. PICK w \in Watches :
          /\ w = Top.w /\ Top.at = "final" /\ stack' = Below /\ removed' = Forget(w)
          /\ type' = [type EXCEPT ![w] = "NONE"] /\ fd' = [fd EXCEPT ![w] = 0]
    BY <1>6, TopFacts DEF FinalReturn, Running
  <2>2. /\ type'[w] = "NONE"
        /\ \A v \in Watches : v # w => type'[v] = type[v] /\ fd'[v] = fd[v]
    BY <2>1 DEF IInv, Core, Typed
  <2>3. \A i \in 1..Len(Below) : Below[i].at = "event" => Below[i].w \in Watches
    BY <1>g, FrameFacts DEF IsHandler
  <2>4. /\ \A v \in Watches : removed'[v] # 1
        /\ \A i \in 1..Len(Below) : Below[i].at = "event" =>
             \/ type'[Below[i].w] = "NONE"
             \/ type'[Below[i].w] = type[Below[i].w] /\ fd'[Below[i].w] = fd[Below[i].w]
    BY <1>1, <2>1, <2>2, <2>3
  <2>5. Tame(Below, removed', type', fd')
    BY <1>g, <2>4, TameChange
  <2> QED BY <2>1, <2>5
<1>7. CASE CallbackReturn
  BY <1>7, <1>g DEF CallbackReturn, fields
<1>8. CASE RemoveNext
  <2>1. Top.at = "remove" /\ UNCHANGED <<type, fd>>
    BY <1>8 DEF RemoveNext, Running, fields
  <2>2. CASE stack' = Below /\ UNCHANGED removed
    BY <1>g, <2>1, <2>2
  <2>3. ASSUME NEW w \in Matching(Top.fd, Top.type), WatchFree(w, removed, stack, FALSE)
        PROVE  Tame(stack', removed', type, fd)
    <3>1. w \in Watches /\ fd[w] = Top.fd /\ type[w] \in Top.type /\ removed[w] <= 0
      BY DEF Matching, Live
    <3>2. removed[w] # -1
      <4> SUFFICES ASSUME removed[w] = -1 PROVE FALSE
        OBVIOUS
      <4>1. PICK i \in 1..Len(stack) : IsHandler(stack[i]) /\ stack[i].w = w
        BY <3>1 DEF IInv, Core, Good, Owned
      <4>2. stack[i].at = "event"
        BY <4>1 DEF IInv, Core, Good, Marked, IsHandler
      <4>3. i < Len(stack) /\ Len(stack) \in 1..Len(stack)
        BY <2>1, <4>2, TopFacts DEF Top, Depth
      <4> QED BY <1>g, <2>1, <3>1, <4>1, <4>2, <4>3 DEF Tame, Top, Depth
    <3>3. removed[w] \notin {-1, 1} /\ stack \in Seq(Frames)
      BY <3>1, <3>2, TopFacts
    <3> QED BY <1>g, <2>3, <3>1, <3>3, TameFree
  <2> QED BY <1>8, <2>1, <2>2, <2>3 DEF RemoveNext
<1>9. CASE AutobackReturn
  <2>1. Top.w \in Watches /\ queue[Top.w] \in Nat /\ UNCHANGED <<type, fd>>
    BY <1>9, TopFacts DEF AutobackReturn, Running, fields, IInv, Core, Typed
  <2> QED BY <1>9, <1>g, <2>1, DispatchTame DEF AutobackReturn
<1> QED BY <1>3, <1>4, <1>5, <1>6, <1>7, <1>8, <1>9 DEF Returns

LEMMA SettledStep ==
  ASSUME Gentle, IInv, Next
  PROVE  Settled'
<1>1. Settled /\ (Top.at = "final" => ~Top.shut) /\ (Top.at = "final" => Top.w \in Watches)
  BY GentleFacts, TopFacts
<1>2. ASSUME UNCHANGED open, UNCHANGED fd, \A w \in Watches : cell'[w] = "live" => cell[w] = "live",
             UNCHANGED kind, \A w \in Watches : type'[w] \in {"NONE", type[w]}
      PROVE  Settled'
  BY <1>1, <1>2 DEF Settled
<1>3. ASSUME NEW f \in Fds, NEW k \in Kinds, WatchAdd(f, k)
      PROVE  Settled'
  <2>1. PICK w \in Watches :
          /\ cell' = [cell EXCEPT ![w] = "live"]
          /\ kind' = [kind EXCEPT ![w] = k]
          /\ type' = [type EXCEPT ![w] = IF k \in {"read", "readline"} THEN "READ" ELSE "WRITE"]
          /\ fd' = [fd EXCEPT ![w] = f]
    BY <1>3 DEF WatchAdd
  <2>2. open' = open /\ k # "readline"
    BY <1>3 DEF WatchAdd, Gentle
  <2>3. /\ fd'[w] \in Fds /\ (type'[w] = "READ" => kind'[w] = "read")
        /\ \A v \in Watches : v # w => /\ cell'[v] = cell[v] /\ kind'[v] = kind[v]
                                       /\ type'[v] = type[v] /\ fd'[v] = fd[v]
    BY <2>1, <2>2 DEF IInv, Core, Typed
  <2> QED BY <1>1, <2>2, <2>3 DEF Settled
<1>4. CASE FinalReturn
  <2>1. PICK w \in Watches :
          /\ cell' = [cell EXCEPT ![w] = "empty"]
          /\ kind' = [kind EXCEPT ![w] = "read"]
          /\ type' = [type EXCEPT ![w] = "NONE"]
          /\ fd' = [fd EXCEPT ![w] = 0]
    BY <1>1, <1>4 DEF FinalReturn, Running
  <2>2. open' = open
    BY <1>1, <1>4 DEF FinalReturn, Running
  <2>3. /\ cell'[w] = "empty" /\ type'[w] = "NONE"
        /\ \A v \in Watches : v # w => /\ cell'[v] = cell[v] /\ kind'[v] = kind[v]
                                       /\ type'[v] = type[v] /\ fd'[v] = fd[v]
    BY <2>1 DEF IInv, Core, Typed
  <2> QED BY <1>1, <2>2, <2>3 DEF Settled
<1>5. CASE CallOpen
  BY <1>1, <1>5 DEF CallOpen, Settled, fields
<1>6. ASSUME NEW f \in Fds, CallClose(f)
      PROVE  FALSE
  BY <1>6 DEF CallClose, May, Gentle
<1>7. ASSUME NEW w \in Watches, CallFreeManually(w)
      PROVE  Settled'
  <2>1. UNCHANGED <<open, fd, cell, kind>> /\ type' = [type EXCEPT ![w] = "NONE"]
    BY <1>7 DEF CallFreeManually
  <2>2. \A v \in Watches : type'[v] \in {"NONE", type[v]}
    BY <2>1 DEF IInv, Core, Typed
  <2> QED BY <1>2, <2>1, <2>2
<1>8. CASE LoopCleanup
  <2>1. UNCHANGED <<open, fd, kind, type>> /\ \A w \in Watches : cell'[w] = "live" => cell[w] = "live"
    BY <1>8 DEF LoopCleanup, fields
  <2> QED BY <1>2, <2>1
<1>9. ASSUME UNCHANGED <<cell, fields, open>>
      PROVE  Settled'
  BY <1>1, <1>9 DEF Settled, fields
<1>10. CASE Loop
  BY <1>8, <1>9, <1>10 DEF Loop, LoopTimers, LoopChildren, LoopReap, SelectBad, SelectInterrupted,
                          SelectReady, LoopBad, LoopScan
<1>11. CASE Calls
  BY <1>3, <1>5, <1>6, <1>7, <1>9, <1>11
     DEF Calls, CallFree, CallWrite, CallCork, CallCommit, CallRemove, CallLoop
<1>12. CASE Returns
  BY <1>4, <1>9, <1>12 DEF Returns, PlainReturn, LineReturn, WriteReturn, CallbackReturn, AutobackReturn, RemoveNext
<1> QED BY <1>10, <1>11, <1>12 DEF Next

LEMMA Inductive ==
  ASSUME Manageable
  PROVE  Spec => []IInv
<1>1. ASSUME IInv, [Next]_vars
      PROVE  IInv'
  <2>1. CASE Next
    <3>1. Core'
      BY <1>1, <2>1, LoopStep, CallStep, ReturnStep DEF Next
    <3>2. Gentle => Tame(stack, removed, type, fd)' /\ Settled'
      BY <1>1, <2>1, LoopTame, CallTame, ReturnTame, SettledStep DEF Next
    <3>3. Pinned(stack, fd)'
      BY <1>1, <2>1, LoopPinned, CallPinned, ReturnPinned DEF Next
    <3> QED BY <3>1, <3>2, <3>3 DEF IInv
  <2>2. CASE UNCHANGED vars
    BY <1>1, <2>2 DEF vars, IInv, Core, Typed, Settled
  <2> QED BY <1>1, <2>1, <2>2
<1> QED BY <1>1, InitGood, PTL DEF Spec

-----------------------------------------------------------------------------
(* The theorems. *)

\* Without nested loops, or with as many as handlers like to run if these are
\* gentle, every variable keeps its type; in particular the length of a write
\* buffer never becomes negative, although handlers queue data while
\* watch_handle_write() is removing what was sent.
THEOREM TypeCorrect ==
  ASSUME Manageable
  PROVE  Spec => []TypeOK
<1>1. IInv => TypeOK
  <2> SUFFICES ASSUME IInv PROVE TypeOK
    OBVIOUS
  <2>1. stack # <<>>
    BY DEF IInv, Core, Good
  <2> QED BY <2>1 DEF IInv, Core, Typed, Good, Marks, TypeOK
<1> QED BY <1>1, Inductive, PTL

\* Without nested loops no activation ever holds a pointer to a freed watch
\* or to a released list node, whatever watches handlers free while ekg_loop(),
\* watch_handle() or watch_remove() use them.  Nor does any where gentle
\* handlers wait in loops of their own, each of which calls other handlers and
\* releases the nodes that are empty, in the middle of the walks of the loops
\* that wait.
THEOREM MemorySafe ==
  ASSUME Manageable
  PROVE  Spec => []NoUseAfterFree
<1>1. IInv => NoUseAfterFree
  <2> SUFFICES ASSUME IInv, NEW i \in 1..Depth PROVE Holds(stack[i])
    BY DEF NoUseAfterFree
  <2>1. stack \in Seq(Frames) /\ stack[i] \in Frames /\ Depth = Len(stack) /\ Depth \in Nat
    BY DEF IInv, Core, Good, Depth
  <2>2. CASE AtWork(stack[i])
    BY <2>1, <2>2 DEF IInv, Core, Good, Marked, Holds, AtWork
  <2>3. ASSUME stack[i].at = "loop", stack[i].cur # BeforeHead
        PROVE  cell[stack[i].cur] \in {"live", "empty"}
    <3>1. CASE i = Depth
      BY <2>1, <2>3, <3>1 DEF IInv, Core, Good, Walks
    <3>2. CASE i # Depth
      <4>1. i + 1 \in 1..Depth
        BY <2>1, <3>2
      <4>2. AtWork(stack[i + 1]) /\ stack[i + 1].w = stack[i].cur
        BY <2>1, <2>3, <3>2 DEF IInv, Core, Good, Walks
      <4>3. cell[stack[i + 1].w] = "live"
        BY <2>1, <4>1, <4>2 DEF IInv, Core, Good, Marked, AtWork
      <4> QED BY <4>2, <4>3
    <3> QED BY <3>1, <3>2
  <2> QED BY <2>1, <2>2, <2>3 DEF Holds, AtWork
<1> QED BY <1>1, Inductive, PTL

\* Without nested loops, or with gentle handlers, the handler of a watch is never
\* entered again while it runs, and the last call is not mixed with another.
THEOREM NotReentered ==
  ASSUME Manageable
  PROVE  Spec => []NoReentry
<1>1. IInv => NoReentry
  BY DEF IInv, Core, Good, Distinct, IsHandler, NoReentry, Handling, Depth
<1> QED BY <1>1, Inductive, PTL

-----------------------------------------------------------------------------
(* The contract of a watch.                                                *)

LEMMA SmallestOf ==
  ASSUME NEW S \in SUBSET Nat, S # {}
  PROVE  \E x \in S : \A y \in S : x <= y
<1>1. IsWellFoundedOn(OpToRel(<, Nat), Nat)
  BY NatLessThanWellFounded
<1>2. PICK x \in S : \A y \in S : ~(<<y, x>> \in OpToRel(<, Nat))
  BY <1>1, WFMin
<1>3. \A y \in S : x <= y
  <2> SUFFICES ASSUME NEW y \in S PROVE x <= y
    OBVIOUS
  <2>1. ~(<<y, x>> \in OpToRel(<, Nat))
    BY <1>2
  <2>2. x \in Nat /\ y \in Nat
    OBVIOUS
  <2>3. y < x => <<y, x>> \in OpToRel(<, Nat)
    BY <2>2, Zenon DEF OpToRel
  <2>4. ~(y < x)
    BY <2>1, <2>3, Zenon
  <2> QED BY <2>2, <2>4
<1> QED BY <1>3

\* The next one of the sequences that HandlersOf() builds.
With(h, f) == IF f.at \in {"event", "final"} THEN Append(h, f.w) ELSE h

\* g are the first m + 1 of them.
Collects(g, s, m) == g = [n \in 0..m |-> IF n = 0 THEN <<>> ELSE With(g[n - 1], s[n])]

LEMMA CollectsExists ==
  ASSUME NEW s, NEW m \in Nat
  PROVE  \E g : Collects(g, s, m)
<1> SUFFICES ASSUME ~(\E g : Collects(g, s, m)) PROVE FALSE
  OBVIOUS
<1> DEFINE N == {k \in Nat : ~(\E g : Collects(g, s, k))}
<1>1. m \in N /\ N \in SUBSET Nat
  OBVIOUS
<1> HIDE DEF N
<1>2. PICK k \in N : \A y \in N : k <= y
  BY <1>1, SmallestOf
<1>3. k \in Nat /\ ~(\E g : Collects(g, s, k))
  BY DEF N
<1>4. CASE k = 0
  <2>1. Collects([n \in 0..0 |-> <<>>], s, 0)
    BY DEF Collects
  <2> QED BY <1>3, <1>4, <2>1
<1>5. CASE k # 0
  <2>1. k - 1 \in Nat /\ ~(k <= k - 1)
    BY <1>3, <1>5
  <2>2. PICK g : Collects(g, s, k - 1)
    BY <1>2, <2>1 DEF N
  <2> DEFINE f == [n \in 0..k |-> IF n = k THEN With(g[k - 1], s[k]) ELSE g[n]]
  <2>3. \A n \in 0..k - 1 : g[n] = IF n = 0 THEN <<>> ELSE With(g[n - 1], s[n])
    BY <2>2 DEF Collects
  <2>4. \A n \in 0..k - 1 : f[n] = g[n]
    BY <1>3, <2>1
  <2>5. \A n \in 0..k : f[n] = IF n = 0 THEN <<>> ELSE With(f[n - 1], s[n])
    <3> SUFFICES ASSUME NEW n \in 0..k
                 PROVE  f[n] = IF n = 0 THEN <<>> ELSE With(f[n - 1], s[n])
      OBVIOUS
    <3>1. CASE n = k
      <4>1. f[n] = With(g[k - 1], s[k]) /\ n # 0 /\ n - 1 \in 0..k - 1
        BY <1>3, <1>5, <3>1
      <4> HIDE DEF f
      <4> QED BY <2>4, <3>1, <4>1
    <3>2. CASE n # k
      <4>1. n \in 0..k - 1 /\ (n # 0 => n - 1 \in 0..k - 1)
        BY <1>3, <3>2
      <4> HIDE DEF f
      <4> QED BY <2>3, <2>4, <4>1
    <3> QED BY <3>1, <3>2
  <2>6. f = [n \in 0..k |-> f[n]]
    OBVIOUS
  <2> HIDE DEF f
  <2>7. Collects(f, s, k)
    BY <2>5, <2>6 DEF Collects
  <2> QED BY <1>3, <2>7
<1> QED BY <1>4, <1>5

LEMMA HandlersCollect ==
  ASSUME NEW s, Len(s) \in Nat
  PROVE  \E g : /\ HandlersOf(s) = g[Len(s)] /\ g[0] = <<>>
                /\ \A n \in 1..Len(s) : g[n] = With(g[n - 1], s[n])
<1>1. \E g : g = [n \in 0..Len(s) |-> IF n = 0 THEN <<>>
                                      ELSE IF s[n].at \in {"event", "final"}
                                        THEN Append(g[n - 1], s[n].w) ELSE g[n - 1]]
  <2>1. PICK g : Collects(g, s, Len(s))
    BY CollectsExists
  <2>2. g = [n \in 0..Len(s) |-> IF n = 0 THEN <<>>
                                 ELSE IF s[n].at \in {"event", "final"}
                                   THEN Append(g[n - 1], s[n].w) ELSE g[n - 1]]
    BY <2>1, Zenon DEF Collects, With
  <2> QED BY <2>2, Zenon
<1>2. PICK g : /\ HandlersOf(s) = g[Len(s)]
               /\ g = [n \in 0..Len(s) |-> IF n = 0 THEN <<>>
                                          ELSE IF s[n].at \in {"event", "final"}
                                            THEN Append(g[n - 1], s[n].w) ELSE g[n - 1]]
  BY <1>1, Zenon DEF HandlersOf
<1>3. \A n \in 0..Len(s) : g[n] = IF n = 0 THEN <<>>
                                  ELSE IF s[n].at \in {"event", "final"}
                                    THEN Append(g[n - 1], s[n].w) ELSE g[n - 1]
  BY <1>2, Zenon
<1>4. 0 \in 0..Len(s) /\ \A n \in 1..Len(s) : n \in 0..Len(s) /\ n # 0
  OBVIOUS
<1>5. g[0] = <<>> /\ \A n \in 1..Len(s) : g[n] = With(g[n - 1], s[n])
  BY <1>3, <1>4, Zenon DEF With
<1> QED BY <1>2, <1>5

\* The handlers of activations with one more on top.
LEMMA HandlersPush ==
  ASSUME NEW s \in Seq(Frames), NEW f \in Frames
  PROVE  /\ HandlersOf(s) \in Seq(Watches)
         /\ HandlersOf(Append(s, f)) = With(HandlersOf(s), f)
<1>1. PICK t \in Seq(Frames) : /\ t = Append(s, f) /\ Len(t) = Len(s) + 1
                               /\ \A i \in 1..Len(s) : t[i] = s[i]
                               /\ t[Len(s) + 1] = f
  BY PushFacts
<1>2. PICK g : /\ HandlersOf(s) = g[Len(s)] /\ g[0] = <<>>
               /\ \A n \in 1..Len(s) : g[n] = With(g[n - 1], s[n])
  BY HandlersCollect
<1>3. PICK h : /\ HandlersOf(t) = h[Len(t)] /\ h[0] = <<>>
               /\ \A n \in 1..Len(t) : h[n] = With(h[n - 1], t[n])
  <2>1. Len(t) \in Nat
    BY <1>1
  <2> QED BY <2>1, HandlersCollect
<1>4. \A n \in 0..Len(s) : g[n] = h[n] /\ g[n] \in Seq(Watches)
  <2> DEFINE Right(n) == g[n] = h[n] /\ g[n] \in Seq(Watches)
  <2> SUFFICES ASSUME NEW m \in 0..Len(s), ~Right(m) PROVE FALSE
    OBVIOUS
  <2> DEFINE N == {k \in 0..Len(s) : ~Right(k)}
  <2>1. m \in N /\ N \in SUBSET Nat
    OBVIOUS
  <2> HIDE DEF N
  <2>2. PICK n \in N : \A y \in N : n <= y
    BY <2>1, SmallestOf
  <2>3. n \in 0..Len(s) /\ ~Right(n)
    BY DEF N
  <2>4. n # 0
    <3>1. <<>> \in Seq(Watches)
      OBVIOUS
    <3> QED BY <1>2, <1>3, <2>3, <3>1
  <2>5. n - 1 \in 0..Len(s) /\ ~(n <= n - 1) /\ n \in 1..Len(s) /\ n \in 1..Len(t)
    BY <1>1, <2>3, <2>4
  <2>6. Right(n - 1)
    BY <2>2, <2>5 DEF N
  <2>7. g[n] = With(g[n - 1], s[n]) /\ h[n] = With(h[n - 1], s[n]) /\ s[n] \in Frames
    BY <1>1, <1>2, <1>3, <2>5
  <2>8. With(g[n - 1], s[n]) \in Seq(Watches)
    BY <2>6, <2>7, FrameFacts DEF With, IsHandler
  <2> QED BY <2>3, <2>6, <2>7, <2>8
<1>5. Len(s) \in 0..Len(s) /\ Len(t) \in 1..Len(t) /\ Len(t) - 1 = Len(s)
  BY <1>1
<1>6. h[Len(t)] = With(h[Len(s)], f)
  BY <1>1, <1>3, <1>5
<1> QED BY <1>1, <1>2, <1>3, <1>4, <1>5, <1>6

LEMMA StackIs ==
  ASSUME NEW S, NEW s \in Seq(S), Len(s) >= 1
  PROVE  s = Append(SubSeq(s, 1, Len(s) - 1), s[Len(s)])
<1>1. PICK b \in Seq(S) : /\ b = SubSeq(s, 1, Len(s) - 1) /\ Len(b) = Len(s) - 1
                          /\ \A i \in 1..Len(s) - 1 : b[i] = s[i]
  BY PopFacts
<1>2. s[Len(s)] \in S /\ Len(s) \in Nat
  OBVIOUS
<1>3. PICK t \in Seq(S) : /\ t = Append(b, s[Len(s)]) /\ Len(t) = Len(b) + 1
                          /\ \A i \in 1..Len(b) : t[i] = b[i]
                          /\ t[Len(b) + 1] = s[Len(s)]
  BY <1>2, PushFacts
<1>4. Len(t) = Len(s) /\ \A i \in 1..Len(s) : t[i] = s[i]
  BY <1>1, <1>2, <1>3
<1>5. t = s
  BY <1>4, SeqEqual
<1> QED BY <1>1, <1>3, <1>5

\* What the handlers are when the innermost activation returns, changes, or
\* calls.
LEMMA HandlersFacts ==
  ASSUME IInv
  PROVE  /\ HandlersOf(Below) \in Seq(Watches) /\ HandlersOf(stack) \in Seq(Watches)
         /\ Below \in Seq(Frames)
         /\ HandlersOf(stack) = With(HandlersOf(Below), Top)
         /\ \A f \in Frames : (f.at = Top.at /\ (IsHandler(f) => f.w = Top.w)) =>
              OnTop(f) \in Seq(Frames) /\ HandlersOf(OnTop(f)) = HandlersOf(stack)
<1>1. stack \in Seq(Frames) /\ Len(stack) >= 1 /\ Len(stack) \in Nat
      /\ Top \in Frames /\ Top = stack[Len(stack)] /\ Below = SubSeq(stack, 1, Len(stack) - 1)
  BY TopFacts DEF IInv, Core, Good, Top, Below, Depth
<1>2. Below \in Seq(Frames)
  BY <1>1, PopFacts
<1>3. stack = Append(Below, Top)
  BY <1>1, StackIs
<1>4. HandlersOf(Below) \in Seq(Watches) /\ HandlersOf(Append(Below, Top)) = With(HandlersOf(Below), Top)
  BY <1>1, <1>2, HandlersPush
<1>5. HandlersOf(stack) \in Seq(Watches)
  BY <1>1, HandlersPush
<1>6. ASSUME NEW f \in Frames, f.at = Top.at, IsHandler(f) => f.w = Top.w
      PROVE  OnTop(f) \in Seq(Frames) /\ HandlersOf(OnTop(f)) = HandlersOf(stack)
  <2>1. HandlersOf(Append(Below, f)) = With(HandlersOf(Below), f) /\ Append(Below, f) \in Seq(Frames)
    BY <1>2, HandlersPush, PushFacts
  <2>2. With(HandlersOf(Below), f) = With(HandlersOf(Below), Top)
    BY <1>6 DEF With, IsHandler
  <2>3. HandlersOf(OnTop(f)) = With(HandlersOf(Below), Top) /\ OnTop(f) \in Seq(Frames)
    BY <2>1, <2>2, Zenon DEF OnTop
  <2> QED BY <2>3, <1>3, <1>4, Zenon
<1> QED BY <1>2, <1>3, <1>4, <1>5, <1>6, Zenon

\* The innermost of the calls.
LEMMA InnermostFacts ==
  ASSUME NEW h \in Seq(Watches), NEW w \in Watches
  PROVE  /\ Append(h, w) # <<>>
         /\ Append(h, w)[Len(Append(h, w))] = w
         /\ SubSeq(Append(h, w), 1, Len(Append(h, w)) - 1) = h
<1>1. PICK t \in Seq(Watches) : /\ t = Append(h, w) /\ Len(t) = Len(h) + 1
                                /\ \A i \in 1..Len(h) : t[i] = h[i]
                                /\ t[Len(h) + 1] = w
  BY PushFacts
<1>2. t # <<>> /\ t[Len(t)] = w /\ Len(t) >= 1 /\ Len(h) \in Nat
  BY <1>1
<1>3. PICK b \in Seq(Watches) : /\ b = SubSeq(t, 1, Len(t) - 1) /\ Len(b) = Len(t) - 1
                                /\ \A i \in 1..Len(t) - 1 : b[i] = t[i]
  BY <1>2, PopFacts
<1>4. Len(b) = Len(h) /\ \A i \in 1..Len(h) : b[i] = h[i]
  BY <1>1, <1>2, <1>3
<1>5. b = h
  BY <1>4, SeqEqual
<1> QED BY <1>1, <1>2, <1>3, <1>5, Zenon

\* A watch moves to the phase p, and no other does.
LEMMA PhaseMoves ==
  ASSUME NEW w \in Watches,
         \A v \in Watches : v # w => cell'[v] = cell[v] /\ removed'[v] = removed[v]
  PROVE  PhaseOf(cell', removed') = [PhaseOf(cell, removed) EXCEPT ![w] = PhaseOf(cell', removed')[w]]
<1>1. \A v \in Watches : v # w => PhaseOf(cell', removed')[v] = PhaseOf(cell, removed)[v]
  BY DEF PhaseOf
<1>2. /\ PhaseOf(cell', removed') = [v \in Watches |-> PhaseOf(cell', removed')[v]]
      /\ PhaseOf(cell, removed) = [v \in Watches |-> PhaseOf(cell, removed)[v]]
  BY DEF PhaseOf
<1> HIDE DEF PhaseOf
<1> QED BY <1>1, <1>2

\* What the owner of a watch sees of a step.
Promised ==
  \/ Contract!Next
  \/ PhaseOf(cell', removed') = PhaseOf(cell, removed) /\ HandlersOf(stack') = HandlersOf(stack)

\* Nothing.
LEMMA Unseen ==
  ASSUME HandlersOf(stack') = HandlersOf(stack),
         \A w \in Watches : PhaseOf(cell', removed')[w] = PhaseOf(cell, removed)[w]
  PROVE  Promised
<1>1. PhaseOf(cell', removed') = PhaseOf(cell, removed)
  <2>1. /\ PhaseOf(cell', removed') = [w \in Watches |-> PhaseOf(cell', removed')[w]]
        /\ PhaseOf(cell, removed) = [w \in Watches |-> PhaseOf(cell, removed)[w]]
    BY DEF PhaseOf
  <2> HIDE DEF PhaseOf
  <2> QED BY <2>1
<1> QED BY <1>1 DEF Promised

\* A handler is called, for an event or for the last time.
LEMMA SeenCall ==
  ASSUME IInv, NEW w \in Watches, UNCHANGED cell, cell[w] = "live", removed[w] = 0,
         NEW m \in {-1, 2}, removed' = [removed EXCEPT ![w] = m],
         HandlersOf(stack') = Append(HandlersOf(stack), w)
  PROVE  Promised
<1>1. removed'[w] = m /\ \A v \in Watches : v # w => removed'[v] = removed[v]
  BY DEF IInv, Core, Good, Marks
<1>2. PhaseOf(cell', removed') = [PhaseOf(cell, removed) EXCEPT ![w] = PhaseOf(cell', removed')[w]]
  BY <1>1, PhaseMoves
<1>3. /\ PhaseOf(cell, removed)[w] = "idle"
      /\ m = -1 => PhaseOf(cell', removed')[w] = "running"
      /\ m = 2 => PhaseOf(cell', removed')[w] = "closing"
  BY <1>1 DEF PhaseOf
<1>4. Contract!Call(w) \/ Contract!Close(w)
  BY <1>2, <1>3 DEF Contract!Call, Contract!Close, Contract!Becomes
<1> QED BY <1>4 DEF Promised, Contract!Next

\* The handler of w returned, and the watch stays or has its last call.
LEMMA SeenReturn ==
  ASSUME IInv, Top.at = "event", UNCHANGED cell,
         \/ removed' = Forget(Top.w) /\ HandlersOf(stack') = HandlersOf(Below)
         \/ removed' = [Forget(Top.w) EXCEPT ![Top.w] = 2] /\ HandlersOf(stack') = HandlersOf(stack)
  PROVE  Promised
<1>1. PICK w \in Watches : w = Top.w
  BY TopFacts
<1>2. cell[w] = "live" /\ removed[w] \in {-1, 1}
  BY <1>1, TopFacts DEF IInv, Core, Good, Marked, Top, Depth
<1>3. /\ removed'[w] \in {0, 2} /\ \A v \in Watches : v # w => removed'[v] = removed[v]
      /\ removed'[w] = 0 => HandlersOf(stack') = HandlersOf(Below)
      /\ removed'[w] = 2 => HandlersOf(stack') = HandlersOf(stack)
  BY <1>1 DEF IInv, Core, Good, Marks, Forget
<1>4. PhaseOf(cell', removed') = [PhaseOf(cell, removed) EXCEPT ![w] = PhaseOf(cell', removed')[w]]
  BY <1>3, PhaseMoves
<1>5. /\ PhaseOf(cell, removed)[w] = "running"
      /\ removed'[w] = 0 => PhaseOf(cell', removed')[w] = "idle"
      /\ removed'[w] = 2 => PhaseOf(cell', removed')[w] = "closing"
  BY <1>2, <1>3 DEF PhaseOf
<1>6. HandlersOf(stack) = Append(HandlersOf(Below), w) /\ HandlersOf(Below) \in Seq(Watches)
  BY <1>1, HandlersFacts DEF With
<1>7. /\ HandlersOf(stack) # <<>>
      /\ HandlersOf(stack)[Len(HandlersOf(stack))] = w
      /\ SubSeq(HandlersOf(stack), 1, Len(HandlersOf(stack)) - 1) = HandlersOf(Below)
  BY <1>6, InnermostFacts
<1>8. Contract!Return \/ Contract!ReturnAndClose
  BY <1>3, <1>4, <1>5, <1>7
     DEF Contract!Return, Contract!ReturnAndClose, Contract!Becomes, Contract!Innermost, Contract!Returned
<1> QED BY <1>8 DEF Promised, Contract!Next

\* watch_free() for a watch that is live, called by whoever is on top of s.
LEMMA SeenFree ==
  ASSUME IInv, NEW s \in Seq(Frames), HandlersOf(s) = HandlersOf(stack),
         NEW w \in Watches, cell[w] = "live", NEW shut \in BOOLEAN,
         WatchFree(w, removed, s, shut), UNCHANGED cell
  PROVE  Promised
<1>1. CASE removed' = removed /\ stack' = s
  <2>1. \A v \in Watches : PhaseOf(cell', removed')[v] = PhaseOf(cell, removed)[v]
    BY <1>1
  <2> QED BY <1>1, <2>1, Unseen
<1>2. CASE removed[w] \in {-1, 1} /\ removed' = [removed EXCEPT ![w] = 1] /\ stack' = s
  <2>1. removed'[w] = 1 /\ \A v \in Watches : v # w => removed'[v] = removed[v]
    BY <1>2 DEF IInv, Core, Good, Marks
  <2>2. \A v \in Watches : PhaseOf(cell', removed')[v] = PhaseOf(cell, removed)[v]
    BY <1>2, <2>1 DEF PhaseOf
  <2> QED BY <1>2, <2>2, Unseen
<1>3. CASE removed[w] = 0 /\ removed' = [removed EXCEPT ![w] = 2] /\ stack' = Append(s, FinalFrame(w, shut))
  <2>1. PICK f \in Frames : f = FinalFrame(w, shut) /\ f.at = "final" /\ f.w = w
    BY NewFrames
  <2>2. HandlersOf(stack') = Append(HandlersOf(stack), w)
    <3>1. HandlersOf(Append(s, f)) = With(HandlersOf(s), f)
      BY HandlersPush
    <3> QED BY <1>3, <2>1, <3>1 DEF With
  <2> QED BY <1>3, <2>2, SeenCall
<1> QED BY <1>1, <1>2, <1>3 DEF WatchFree

\* watch_free() by the function whose handler has returned.
LEMMA SeenFreeReturn ==
  ASSUME IInv, Top.at = "event", NEW shut \in BOOLEAN,
         WatchFree(Top.w, Forget(Top.w), Below, shut), UNCHANGED cell
  PROVE  Promised
<1>1. PICK w \in Watches : w = Top.w
  BY TopFacts
<1>2. Forget(w)[w] = 0
  BY DEF IInv, Core, Good, Marks, Forget
<1>3. CASE removed' = Forget(w) /\ stack' = Below
  BY <1>1, <1>3, SeenReturn
<1>4. CASE removed' = [Forget(w) EXCEPT ![w] = 2] /\ stack' = Append(Below, FinalFrame(w, shut))
  <2>1. PICK f \in Frames : f = FinalFrame(w, shut) /\ f.at = "final" /\ f.w = w
    BY NewFrames
  <2>2. HandlersOf(stack') = HandlersOf(stack)
    <3>1. HandlersOf(Append(Below, f)) = With(HandlersOf(Below), f)
      BY HandlersFacts, HandlersPush
    <3>2. HandlersOf(stack) = With(HandlersOf(Below), Top)
      BY HandlersFacts
    <3> QED BY <1>1, <1>4, <2>1, <3>1, <3>2 DEF With
  <2> QED BY <1>1, <1>4, <2>2, SeenReturn
<1> QED BY <1>1, <1>2, <1>3, <1>4 DEF WatchFree

\* A handler is started by whoever is on top of s.
LEMMA SeenStart ==
  ASSUME IInv, NEW s \in Seq(Frames), HandlersOf(s) = HandlersOf(stack),
         NEW w \in Watches, cell[w] = "live", removed[w] = 0,
         NEW how \in {"plain", "timeout", "line", "write"}, NEW n \in Nat, NEW eof \in BOOLEAN,
         Start(w, s, how, n, eof), UNCHANGED cell
  PROVE  Promised
<1>1. PICK f \in Frames : f = EventFrame(w, how, n, eof) /\ f.at = "event" /\ f.w = w
  BY NewFrames
<1>2. HandlersOf(Append(s, f)) = With(HandlersOf(s), f)
  BY HandlersPush
<1>3. HandlersOf(stack') = Append(HandlersOf(stack), w) /\ removed' = [removed EXCEPT ![w] = -1]
  BY <1>1, <1>2 DEF Start, With
<1> QED BY <1>3, SeenCall

\* Watches and marks stay; activations that are no handlers come, change or go.
LEMMA SeenNothing ==
  ASSUME UNCHANGED <<cell, removed>>, HandlersOf(stack') = HandlersOf(stack)
  PROVE  Promised
  BY DEF Promised

\* A watch is dispatched by whoever is on top of s.
LEMMA DispatchSeen ==
  ASSUME Manageable, IInv, Top.at \in {"loop", "autoback"},
         NEW n \in Watches, cell[n] = "live", NEW f,
         NEW s \in Seq(Frames), HandlersOf(s) = HandlersOf(stack),
         Dispatch(n, f, s) \/ (TimedKinds # {} /\ WatchTimeout(n, s)), UNCHANGED cell
  PROVE  Promised
<1>1. /\ queue[n] \in Nat
      /\ Idle(n) => removed[n] = 0
      /\ TimedKinds # {} => removed[n] = 0
  BY LoopFacts DEF IInv, Core, Typed, Idle
<1>2. \/ /\ stack' = s
         /\ removed' = removed \/ (removed[n] = 0 /\ removed' = [removed EXCEPT ![n] = 0])
      \/ /\ removed[n] = 0
         /\ \E how \in {"plain", "timeout", "line", "write"}, k \in Nat, eof \in BOOLEAN :
              Start(n, s, how, k, eof)
  <2>1. 0 \in Nat /\ FALSE \in BOOLEAN /\ \A k \in 0..MaxLines : k \in Nat
    BY LinesAssumption
  <2>2. CASE Ignore(s)
    BY <2>2 DEF Ignore
  <2>3. CASE TimedKinds # {} /\ WatchTimeout(n, s)
    BY <1>1, <2>1, <2>3 DEF WatchTimeout
  <2>4. CASE Dispatch(n, f, s)
    <3>1. WatchHandle(n, s) \/ WatchHandleLine(n, s) \/ WatchHandleWrite(n, s) \/ Ignore(s)
      BY <2>4 DEF Dispatch
    <3>2. CASE WatchHandle(n, s)
      BY <1>1, <2>1, <3>2 DEF WatchHandle, Ignore
    <3>3. CASE WatchHandleLine(n, s)
      <4>1. CASE Idle(n) /\ \E k \in 0..MaxLines, eof \in BOOLEAN : Start(n, s, "line", k, eof)
        <5>1. PICK k \in 0..MaxLines, eof \in BOOLEAN : Start(n, s, "line", k, eof)
          BY <4>1
        <5>2. k \in Nat
          BY <2>1
        <5> QED BY <1>1, <4>1, <5>1, <5>2
      <4> QED BY <1>1, <3>3, <4>1 DEF WatchHandleLine, Ignore
    <3>4. CASE WatchHandleWrite(n, s)
      BY <1>1, <2>1, <3>4 DEF WatchHandleWrite, Ignore
    <3> QED BY <2>2, <3>1, <3>2, <3>3, <3>4
  <2> QED BY <2>3, <2>4
<1>3. CASE /\ stack' = s
           /\ removed' = removed \/ (removed[n] = 0 /\ removed' = [removed EXCEPT ![n] = 0])
  <2>1. removed' = removed
    BY <1>3 DEF IInv, Core, Good, Marks
  <2> QED BY <1>3, <2>1, SeenNothing
<1>4. CASE /\ removed[n] = 0
           /\ \E how \in {"plain", "timeout", "line", "write"}, k \in Nat, eof \in BOOLEAN :
                Start(n, s, how, k, eof)
  BY <1>4, SeenStart
<1> QED BY <1>2, <1>3, <1>4

LEMMA LoopSeen ==
  ASSUME Manageable, IInv, Loop
  PROVE  Promised
<1>0. /\ Top.at = "loop" /\ Top \in Frames
      /\ \A w \in Watches : /\ removed[w] \in {-1, 0}
                            /\ TimedKinds # {} => removed[w] = 0
      /\ \A f \in Frames : f.at = "loop" =>
           OnTop(f) \in Seq(Frames) /\ HandlersOf(OnTop(f)) = HandlersOf(stack)
  <2>1. Top.at = "loop"
    BY DEF Loop, LoopTimers, LoopChildren, LoopReap, SelectBad, SelectInterrupted, SelectReady,
           LoopBad, LoopScan, LoopCleanup, LoopAt
  <2>2. \A f \in Frames : f.at = "loop" => ~IsHandler(f)
    BY DEF IsHandler
  <2> QED BY <2>1, <2>2, LoopFacts, TopFacts, HandlersFacts
<1>1. ASSUME NEW pc \in LoopPc
      PROVE  Goto(pc) \in Seq(Frames) /\ HandlersOf(Goto(pc)) = HandlersOf(stack)
  <2> DEFINE f == [Top EXCEPT !.pc = pc, !.cur = BeforeHead]
  <2>1. f \in Frames /\ f.at = "loop"
    <3>1. BeforeHead \in 1..BeforeHead
      BY WatchesAssumption DEF BeforeHead
    <3>2. f \in [at : {"loop"}, pc : LoopPc, cur : 1..BeforeHead, rd : SUBSET Fds,
                 wd : SUBSET Fds, top : 0..MaxWatches]
      BY <1>0, <3>1, LoopFrameFacts
    <3> QED BY <3>2, <1>0, LoopFrameFacts DEF Frames
  <2> HIDE DEF f
  <2>2. OnTop(f) \in Seq(Frames) /\ HandlersOf(OnTop(f)) = HandlersOf(stack)
    BY <1>0, <2>1
  <2> QED BY <2>2 DEF Goto, f
<1>2. ASSUME NEW n \in Ahead
      PROVE  /\ n \in Watches /\ cell[n] \in {"live", "empty"}
             /\ Advance(n) \in Seq(Frames) /\ HandlersOf(Advance(n)) = HandlersOf(stack)
  <2> DEFINE f == [Top EXCEPT !.cur = n]
  <2>1. n \in Watches /\ cell[n] \in {"live", "empty"}
    BY <1>2 DEF Ahead, Following, Nodes
  <2>2. f \in Frames /\ f.at = "loop"
    <3>1. n \in 1..BeforeHead
      BY <2>1, WatchesAssumption DEF BeforeHead, Watches
    <3>2. f \in [at : {"loop"}, pc : LoopPc, cur : 1..BeforeHead, rd : SUBSET Fds,
                 wd : SUBSET Fds, top : 0..MaxWatches]
      BY <1>0, <3>1, LoopFrameFacts
    <3> QED BY <3>2, <1>0, LoopFrameFacts DEF Frames
  <2> HIDE DEF f
  <2>3. OnTop(f) \in Seq(Frames) /\ HandlersOf(OnTop(f)) = HandlersOf(stack)
    BY <1>0, <2>2
  <2> QED BY <2>1, <2>3 DEF Advance, f
<1>3. HandlersOf(Leave) = HandlersOf(stack)
  <2>0. CASE Depth # 1
    <3>1. HandlersOf(stack) = HandlersOf(Below)
      BY <1>0, HandlersFacts DEF With
    <3> QED BY <2>0, <3>1 DEF Leave
  <2> SUFFICES ASSUME Depth = 1 PROVE HandlersOf(Leave) = HandlersOf(stack)
    BY <2>0
  <2>1. Depth = 1 /\ stack \in Seq(Frames) /\ Depth = Len(stack)
    BY TopFacts DEF Depth
  <2>2. PICK e \in Seq(Frames) : e = <<>>
    <3>1. <<>> \in Seq(Frames)
      OBVIOUS
    <3> QED BY <3>1, Zenon
  <2>3. PICK f \in Frames : f = LoopFrame("timers") /\ f.at = "loop"
    BY BottomFrame, Zenon
  <2>4. Append(e, f) = <<f>> /\ Append(e, Top) = <<Top>>
    BY <2>2
  <2>5. HandlersOf(<<f>>) = HandlersOf(<<Top>>)
    <3>1. HandlersOf(Append(e, f)) = HandlersOf(e) /\ HandlersOf(Append(e, Top)) = HandlersOf(e)
      BY <1>0, <2>3, HandlersPush DEF With
    <3> QED BY <2>4, <3>1
  <2>6. stack = <<Top>>
    BY <2>1 DEF Top
  <2> QED BY <2>1, <2>3, <2>5, <2>6 DEF Leave
<1>4. CASE LoopTimers \/ LoopChildren
  <2>1. PICK pc \in LoopPc :
          /\ stack' = Goto(pc) \/ stack' = Append(Goto(pc), CallbackFrame)
          /\ UNCHANGED <<cell, removed>>
    BY <1>4 DEF LoopTimers, LoopChildren, LoopPc
  <2>2. CallbackFrame \in Frames /\ CallbackFrame.at = "callback"
    BY CallsAssumption DEF CallbackFrame, Frames
  <2>3. HandlersOf(Append(Goto(pc), CallbackFrame)) = HandlersOf(Goto(pc))
    BY <1>1, <2>2, HandlersPush DEF With
  <2> QED BY <1>1, <2>1, <2>3, SeenNothing
<1>5. CASE LoopReap
  <2>1. stack' = Goto("children") \/ \E n \in Ahead : stack' = Advance(n)
    <3>1. \A n \in Ahead : removed[n] # 1
      BY <1>0, <1>2
    <3> QED BY <1>5, <3>1 DEF LoopReap, Ignore
  <2>2. UNCHANGED <<cell, removed>>
    <3>1. \A n \in Ahead : removed[n] # 1
      BY <1>0, <1>2
    <3> QED BY <1>5, <3>1 DEF LoopReap, Ignore
  <2>3. "children" \in LoopPc
    BY DEF LoopPc
  <2> QED BY <1>1, <1>2, <2>1, <2>2, <2>3, SeenNothing
<1>6. CASE SelectBad
  <2>1. "bad" \in LoopPc /\ stack' = Goto("bad") /\ UNCHANGED <<cell, removed>>
    BY <1>6 DEF LoopPc, SelectBad
  <2> QED BY <1>1, <2>1, SeenNothing
<1>7. CASE SelectInterrupted
  BY <1>3, <1>7, SeenNothing DEF SelectInterrupted
<1>8. CASE SelectReady
  <2> DEFINE k == Cardinality({n \in Watches : cell[n] # "unused"})
  <2>1. PICK r \in SUBSET ReadSet, w \in SUBSET WriteSet :
          stack' = OnTop([Top EXCEPT !.pc = "scan", !.cur = BeforeHead, !.rd = r, !.wd = w, !.top = k])
    BY <1>8 DEF SelectReady
  <2>2. r \in SUBSET Fds /\ w \in SUBSET Fds /\ UNCHANGED <<cell, removed>>
    BY <1>8 DEF SelectReady, IInv, Core, Typed
  <2>3. k \in 0..MaxWatches
    <3>1. IsFiniteSet(Watches) /\ Cardinality(Watches) = MaxWatches
      BY FS_Interval, WatchesAssumption DEF Watches
    <3>2. {n \in Watches : cell[n] # "unused"} \subseteq Watches
      OBVIOUS
    <3> QED BY <3>1, <3>2, FS_Subset, FS_CardinalityType, WatchesAssumption
  <2> HIDE DEF k
  <2> DEFINE f == [Top EXCEPT !.pc = "scan", !.cur = BeforeHead, !.rd = r, !.wd = w, !.top = k]
  <2>4. f \in Frames /\ f.at = "loop"
    <3>1. BeforeHead \in 1..BeforeHead /\ "scan" \in LoopPc
      BY WatchesAssumption DEF BeforeHead, LoopPc
    <3>2. f \in [at : {"loop"}, pc : LoopPc, cur : 1..BeforeHead, rd : SUBSET Fds,
                 wd : SUBSET Fds, top : 0..MaxWatches]
      BY <1>0, <2>2, <2>3, <3>1, LoopFrameFacts
    <3> QED BY <3>2, <1>0, LoopFrameFacts DEF Frames
  <2>5. stack' = OnTop(f)
    BY <2>1
  <2> HIDE DEF f
  <2> QED BY <1>0, <2>2, <2>4, <2>5, SeenNothing
<1>9. CASE LoopBad
  <2>1. UNCHANGED cell
    BY <1>9 DEF LoopBad
  <2>2. CASE stack' = Leave /\ UNCHANGED removed
    BY <1>3, <2>1, <2>2, SeenNothing
  <2>3. ASSUME NEW n \in Ahead, Ignore(Advance(n))
        PROVE  Promised
    BY <1>2, <2>1, <2>3, SeenNothing DEF Ignore
  <2>4. ASSUME NEW n \in Ahead, cell[n] = "live", WatchFree(n, removed, Advance(n), FALSE)
        PROVE  Promised
    BY <1>2, <2>1, <2>4, SeenFree
  <2> QED BY <1>9, <2>2, <2>3, <2>4 DEF LoopBad
<1>10. CASE LoopScan
  <2>1. UNCHANGED cell
    BY <1>10 DEF LoopScan
  <2>2. PICK n \in Ahead :
          \/ Ignore(Advance(n))
          \/ /\ cell[n] = "live"
             /\ Dispatch(n, Top, Advance(n)) \/ (TimedKinds # {} /\ WatchTimeout(n, Advance(n)))
          \/ removed' = removed /\ stack' = Append(Advance(n), AutobackFrame(n))
    BY <1>10 DEF LoopScan
  <2>3. CASE Ignore(Advance(n))
    BY <1>2, <2>1, <2>3, SeenNothing DEF Ignore
  <2>4. CASE /\ cell[n] = "live"
             /\ Dispatch(n, Top, Advance(n)) \/ (TimedKinds # {} /\ WatchTimeout(n, Advance(n)))
    BY <1>0, <1>2, <2>1, <2>4, DispatchSeen
  <2>5. CASE removed' = removed /\ stack' = Append(Advance(n), AutobackFrame(n))
    <3>1. AutobackFrame(n) \in Frames /\ AutobackFrame(n).at = "autoback"
      BY <1>2, NewFrames
    <3>2. HandlersOf(Append(Advance(n), AutobackFrame(n))) = HandlersOf(Advance(n))
      BY <1>2, <3>1, HandlersPush DEF With
    <3> QED BY <1>2, <2>1, <2>5, <3>2, SeenNothing
  <2> QED BY <2>2, <2>3, <2>4, <2>5
<1>11. CASE LoopCleanup
  <2>1. stack' = Leave /\ removed' = removed
    BY <1>11 DEF LoopCleanup
  <2>2. \A w \in Watches : cell'[w] = cell[w] \/ (cell[w] = "empty" /\ cell'[w] = "freed")
    BY <1>11 DEF LoopCleanup
  <2>3. \A w \in Watches : PhaseOf(cell', removed')[w] = PhaseOf(cell, removed)[w]
    BY <2>1, <2>2 DEF PhaseOf
  <2> QED BY <1>3, <2>1, <2>3, Unseen
<1> QED BY <1>4, <1>5, <1>6, <1>7, <1>8, <1>9, <1>10, <1>11 DEF Loop

\* While handlers run, no watch that is unused is marked.
LEMMA UnusedIsUnmarked ==
  ASSUME IInv, NEW w \in Watches, cell[w] = "unused"
  PROVE  removed[w] = 0
<1> SUFFICES ASSUME removed[w] # 0 PROVE FALSE
  OBVIOUS
<1>1. PICK i \in 1..Len(stack) : IsHandler(stack[i]) /\ stack[i].w = w
  BY DEF IInv, Core, Good, Owned
<1> QED BY <1>1 DEF IInv, Core, Good, Marked, IsHandler

LEMMA CallSeen ==
  ASSUME IInv, Calls
  PROVE  Promised
<1>0. InHandler /\ Top.calls > 0
  BY DEF Calls, WatchAdd, CallFree, CallFreeManually, CallWrite, CallCork, CallCommit, CallRemove,
         CallLoop, CallOpen, CallClose, May
<1>1. Spent \in Seq(Frames) /\ HandlersOf(Spent) = HandlersOf(stack)
  <2> DEFINE f == [Top EXCEPT !.calls = @ - 1]
  <2>1. f \in Frames /\ f.at = Top.at /\ (IsHandler(f) => f.w = Top.w)
    BY <1>0, TopFacts DEF Frames, InHandler, IsHandler
  <2> HIDE DEF f
  <2>2. OnTop(f) \in Seq(Frames) /\ HandlersOf(OnTop(f)) = HandlersOf(stack)
    BY <2>1, HandlersFacts
  <2> QED BY <2>2 DEF Spent, f
<1>2. ASSUME NEW f \in Fds, NEW k \in Kinds, WatchAdd(f, k)
      PROVE  Promised
  <2>1. PICK w \in Watches : cell[w] = "unused" /\ cell' = [cell EXCEPT ![w] = "live"]
    BY <1>2 DEF WatchAdd
  <2>2. stack' = Spent /\ removed' = removed /\ removed[w] = 0
    BY <1>2, <2>1, UnusedIsUnmarked DEF WatchAdd
  <2>3. cell'[w] = "live" /\ \A v \in Watches : v # w => cell'[v] = cell[v]
    BY <2>1 DEF IInv, Core, Typed
  <2>4. PhaseOf(cell', removed') = [PhaseOf(cell, removed) EXCEPT ![w] = PhaseOf(cell', removed')[w]]
    BY <2>2, <2>3, PhaseMoves
  <2>5. PhaseOf(cell, removed)[w] = "unused" /\ PhaseOf(cell', removed')[w] = "idle"
    BY <2>1, <2>2, <2>3 DEF PhaseOf
  <2>6. Contract!Register(w)
    BY <1>1, <2>2, <2>4, <2>5 DEF Contract!Register, Contract!Becomes
  <2> QED BY <2>6 DEF Promised, Contract!Next
<1>3. ASSUME NEW w \in Watches, CallFree(w) \/ CallFreeManually(w)
      PROVE  Promised
  <2>1. cell[w] = "live" /\ WatchFree(w, removed, Spent, FALSE) /\ UNCHANGED cell
    BY <1>3 DEF CallFree, CallFreeManually, Freeable, Live
  <2> QED BY <1>1, <2>1, SeenFree
<1>4. ASSUME NEW w \in Watches, CallWrite(w) \/ CallCork(w) \/ CallCommit(w)
      PROVE  Promised
  <2>1. w \in Writable /\ UNCHANGED cell
    BY <1>4 DEF CallWrite, CallCork, CallCommit
  <2>2. cell[w] = "live" /\ removed[w] \in {-1, 0} /\ queue[w] \in Nat
    <3>1. cell[w] = "live" /\ removed[w] <= 0
      BY <2>1 DEF Writable, Live
    <3>2. removed[w] \in {-1, 0, 1, 2} /\ queue[w] \in Nat
      BY DEF IInv, Core, Typed, Good, Marks
    <3> QED BY <3>1, <3>2
  <2>3. \/ stack' = Spent /\ removed' = removed
        \/ /\ removed[w] # -1
           /\ \E n \in Nat : Start(w, Spent, "write", n, FALSE)
    <3>1. 1 \in Nat
      OBVIOUS
    <3> QED BY <1>4, <2>2, <3>1 DEF CallWrite, CallCork, CallCommit, Ignore, Idle
  <2>4. CASE stack' = Spent /\ removed' = removed
    BY <1>1, <2>1, <2>4, SeenNothing
  <2>5. CASE removed[w] # -1 /\ \E n \in Nat : Start(w, Spent, "write", n, FALSE)
    BY <1>1, <2>1, <2>2, <2>5, SeenStart
  <2> QED BY <2>3, <2>4, <2>5
<1>5. CASE \/ \E f \in Fds, t \in {{"READ"}, {"WRITE"}} : CallRemove(f, t)
           \/ CallLoop
  <2>1. PICK g \in Frames : /\ g.at \in {"remove", "loop"} /\ stack' = Append(Spent, g)
                            /\ UNCHANGED <<cell, removed>>
    <3>1. \A f \in Fds, t \in {{"READ"}, {"WRITE"}} :
            RemoveFrame(f, t) \in Frames /\ RemoveFrame(f, t).at = "remove"
      BY DEF RemoveFrame, Frames
    <3> QED BY <1>5, <3>1, BottomFrame DEF CallRemove, CallLoop
  <2>2. HandlersOf(Append(Spent, g)) = HandlersOf(Spent)
    BY <1>1, <2>1, HandlersPush DEF With
  <2> QED BY <1>1, <2>1, <2>2, SeenNothing
<1>6. CASE CallOpen \/ \E f \in Fds : CallClose(f)
  <2>1. stack' = Spent /\ UNCHANGED <<cell, removed>>
    BY <1>6 DEF CallOpen, CallClose
  <2> QED BY <1>1, <2>1, SeenNothing
<1> QED BY <1>2, <1>3, <1>4, <1>5, <1>6 DEF Calls

LEMMA ReturnSeen ==
  ASSUME Manageable, IInv, Returns
  PROVE  Promised
<1>1. ASSUME NEW res \in {-1, 0}, PlainReturn(res) \/ LineReturn(res)
      PROVE  Promised
  <2>1. Top.at = "event" /\ UNCHANGED cell
    BY <1>1 DEF PlainReturn, LineReturn, Running
  <2>2. ASSUME NEW shut \in BOOLEAN, WatchFree(Top.w, Forget(Top.w), Below, shut)
        PROVE  Promised
    BY <2>1, <2>2, SeenFreeReturn
  <2>3. CASE removed' = Forget(Top.w) /\ stack' = Below
    BY <2>1, <2>3, SeenReturn
  <2>4. CASE stack' = OnTop([Top EXCEPT !.n = @ - 1]) /\ Top.n > 1 /\ UNCHANGED removed
    <3> DEFINE f == [Top EXCEPT !.n = @ - 1]
    <3>1. f \in Frames /\ f.at = Top.at /\ (IsHandler(f) => f.w = Top.w)
      <4>1. Top \in Frames
        BY TopFacts
      <4> QED BY <2>1, <2>4, <4>1 DEF Frames
    <3>2. stack' = OnTop(f)
      BY <2>4
    <3> HIDE DEF f
    <3>3. HandlersOf(OnTop(f)) = HandlersOf(stack)
      BY <3>1, HandlersFacts
    <3> QED BY <2>1, <2>4, <3>2, <3>3, SeenNothing
  <2>5. TRUE \in BOOLEAN /\ FALSE \in BOOLEAN
    OBVIOUS
  <2> QED BY <1>1, <2>2, <2>3, <2>4, <2>5 DEF PlainReturn, LineReturn
<1>2. ASSUME NEW res \in -1..MaxQueue + 1, WriteReturn(res)
      PROVE  Promised
  <2>1. Top.at = "event" /\ UNCHANGED cell
    BY <1>2 DEF WriteReturn, Running
  <2>2. CASE WatchFree(Top.w, Forget(Top.w), Below, FALSE)
    BY <2>1, <2>2, SeenFreeReturn
  <2>3. CASE removed' = Forget(Top.w) /\ stack' = Below
    BY <2>1, <2>3, SeenReturn
  <2> QED BY <1>2, <2>2, <2>3 DEF WriteReturn
<1>3. CASE FinalReturn
  <2>1. PICK w \in Watches : w = Top.w /\ Top.at = "final"
    BY <1>3, TopFacts DEF FinalReturn, Running
  <2>2. cell[w] = "live" /\ removed[w] = 2
    BY <2>1, TopFacts DEF IInv, Core, Good, Marked, Top, Depth
  <2>3. cell' = [cell EXCEPT ![w] = "empty"] /\ removed' = [removed EXCEPT ![w] = 0] /\ stack' = Below
    BY <1>3, <2>1 DEF FinalReturn, Forget
  <2>4. /\ cell'[w] = "empty"
        /\ \A v \in Watches : v # w => cell'[v] = cell[v] /\ removed'[v] = removed[v]
    BY <2>3 DEF IInv, Core, Typed, Good, Marks
  <2>5. PhaseOf(cell', removed') = [PhaseOf(cell, removed) EXCEPT ![w] = PhaseOf(cell', removed')[w]]
    BY <2>4, PhaseMoves
  <2>6. PhaseOf(cell, removed)[w] = "closing" /\ PhaseOf(cell', removed')[w] = "gone"
    BY <2>2, <2>4 DEF PhaseOf
  <2>7. HandlersOf(stack) = Append(HandlersOf(Below), w) /\ HandlersOf(Below) \in Seq(Watches)
    BY <2>1, HandlersFacts DEF With
  <2>8. /\ HandlersOf(stack) # <<>>
        /\ HandlersOf(stack)[Len(HandlersOf(stack))] = w
        /\ SubSeq(HandlersOf(stack), 1, Len(HandlersOf(stack)) - 1) = HandlersOf(Below)
    BY <2>7, InnermostFacts
  <2>9. Contract!Closed
    BY <2>3, <2>5, <2>6, <2>8
       DEF Contract!Closed, Contract!Becomes, Contract!Innermost, Contract!Returned
  <2> QED BY <2>9 DEF Promised, Contract!Next
<1>4. CASE CallbackReturn
  <2>1. Top.at = "callback" /\ stack' = Below /\ UNCHANGED <<cell, removed>>
    BY <1>4 DEF CallbackReturn, Running
  <2>2. HandlersOf(Below) = HandlersOf(stack)
    BY <2>1, HandlersFacts DEF With
  <2> QED BY <2>1, <2>2, SeenNothing
<1>5. CASE RemoveNext
  <2>1. Top.at = "remove" /\ UNCHANGED cell
    BY <1>5 DEF RemoveNext, Running
  <2>2. CASE stack' = Below /\ UNCHANGED removed
    <3>1. HandlersOf(Below) = HandlersOf(stack)
      BY <2>1, HandlersFacts DEF With
    <3> QED BY <2>1, <2>2, <3>1, SeenNothing
  <2>3. CASE \E w \in Matching(Top.fd, Top.type) : WatchFree(w, removed, stack, FALSE)
    <3>1. PICK w \in Watches : cell[w] = "live" /\ WatchFree(w, removed, stack, FALSE)
      BY <2>3 DEF Matching, Live
    <3>2. stack \in Seq(Frames)
      BY TopFacts
    <3> QED BY <2>1, <3>1, <3>2, SeenFree
  <2> QED BY <1>5, <2>2, <2>3 DEF RemoveNext
<1>6. CASE AutobackReturn
  <2>1. Top.at = "autoback" /\ UNCHANGED cell /\ Dispatch(Top.w, stack[Depth - 1], Below)
    BY <1>6 DEF AutobackReturn, Running
  <2>2. Top.w \in Watches /\ cell[Top.w] = "live"
    BY <2>1, TopFacts
  <2>3. Below \in Seq(Frames) /\ HandlersOf(Below) = HandlersOf(stack)
    BY <2>1, HandlersFacts DEF With
  <2> QED BY <2>1, <2>2, <2>3, DispatchSeen
<1> QED BY <1>1, <1>2, <1>3, <1>4, <1>5, <1>6 DEF Returns

\* Without nested loops, or with any number of them and gentle handlers, ekg2
\* keeps its contract with the owner of every watch:
\* whatever other handlers free meanwhile, handlers of a watch are called one
\* at a time, while it is registered, return in order, and there is exactly
\* one last call, after which none comes.
THEOREM ContractKept ==
  ASSUME Manageable
  PROVE  Spec => KeepsContract
<1>1. Init => Contract!Init
  <2> SUFFICES ASSUME Init PROVE Contract!Init
    OBVIOUS
  <2>1. PhaseOf(cell, removed) = [w \in Watches |-> "unused"]
    BY DEF Init, PhaseOf
  <2>2. HandlersOf(stack) = <<>>
    <3>1. PICK f \in Frames : f = LoopFrame("timers") /\ f.at = "loop"
      BY BottomFrame, Zenon
    <3>2. PICK e \in Seq(Frames) : e = <<>> /\ Len(e) = 0
      <4>1. <<>> \in Seq(Frames) /\ Len(<<>>) = 0
        OBVIOUS
      <4> QED BY <4>1, Zenon
    <3>3. HandlersOf(e) = <<>>
      BY <3>2, HandlersCollect
    <3>4. HandlersOf(Append(e, f)) = HandlersOf(e)
      BY <3>1, HandlersPush DEF With
    <3>5. Append(e, f) = <<f>>
      BY <3>2
    <3> QED BY <3>1, <3>3, <3>4, <3>5 DEF Init
  <2> QED BY <2>1, <2>2 DEF Contract!Init
<1>2. IInv /\ [Next]_vars => [Contract!Next]_(Contract!vars)
  <2> SUFFICES ASSUME IInv, [Next]_vars PROVE Promised
    BY DEF Promised, Contract!vars
  <2>1. CASE Next
    BY <2>1, LoopSeen, CallSeen, ReturnSeen DEF Next
  <2>2. CASE UNCHANGED vars
    BY <2>2 DEF vars, Promised
  <2> QED BY <2>1, <2>2
<1> QED BY <1>1, <1>2, Inductive, PTL DEF Spec, KeepsContract, Contract!Spec

-----------------------------------------------------------------------------
(* The descriptors that a walk serves, for any number of nested loops.     *)
(* Frames has counts that nested loops can make negative, so this          *)
(* invariant has types of its own.                                         *)

Acts ==
  [at : {"loop"}, pc : LoopPc, cur : 1..BeforeHead, rd : SUBSET (Fds \cup {0}),
   wd : SUBSET (Fds \cup {0}), top : Nat]
  \cup [at : {"event"}, w : Watches, how : {"plain", "timeout", "line", "write"},
        n : Int, eof : BOOLEAN, calls : Int]
  \cup [at : {"final"}, w : Watches, shut : BOOLEAN, calls : Int]
  \cup [at : {"callback"}, calls : Int]
  \cup [at : {"autoback"}, w : Watches, calls : Int]
  \cup [at : {"remove"}, fd : Fds, type : {{"READ"}, {"WRITE"}}]

Scanning(f) == f.at = "loop" /\ f.pc = "scan"

\* What a frame of ekg_loop() may be dispatching: nothing yet, and then there
\* is nothing above it and no watch is newer than select(); or an old watch.
Scans(f, c) ==
  IF f.cur = BeforeHead THEN \A w \in Watches : c[w] # "unused" => w <= f.top
  ELSE f.cur <= f.top

Fresh(s, c) ==
  /\ s \in Seq(Acts) /\ Len(s) >= 1
  /\ s[1].at = "loop"
  /\ \A i \in 1..Len(s) :
       Scanning(s[i]) => Scans(s[i], c) /\ (s[i].cur = BeforeHead => i = Len(s))
  /\ \A i \in 2..Len(s) :
       (s[i].at \in {"event", "autoback"} /\ Scanning(s[i - 1])) => s[i].w = s[i - 1].cur

\* Watches are allocated in their order.
Allotted(c) == \A v, w \in Watches : (v < w /\ c[w] # "unused") => c[v] # "unused"

TypedLoosely ==
  /\ cell \in [Watches -> {"unused", "live", "empty", "freed"}]
  /\ fd \in [Watches -> Fds \cup {0}]
  /\ queue \in [Watches -> Int]

FInv == TypedLoosely /\ Allotted(cell) /\ Fresh(stack, cell)

LEMMA PopFresh ==
  ASSUME NEW s, NEW c, Fresh(s, c), Len(s) # 1
  PROVE  Fresh(SubSeq(s, 1, Len(s) - 1), c)
<1> DEFINE t == SubSeq(s, 1, Len(s) - 1)
<1>1. s \in Seq(Acts) /\ Len(s) >= 1 /\ Len(s) \in Nat /\ s[1].at = "loop"
  BY DEF Fresh
<1>2. /\ t \in Seq(Acts) /\ Len(t) = Len(s) - 1
      /\ \A i \in 1..Len(s) - 1 : t[i] = s[i]
  BY <1>1, PopFacts
<1> HIDE DEF t
<1>4. Len(t) >= 1 /\ Len(t) \in Nat /\ \A i \in 1..Len(t) : i \in 1..Len(s) /\ i # Len(s) /\ t[i] = s[i]
  BY <1>1, <1>2
<1>5. t[1].at = "loop"
  BY <1>1, <1>4
<1>6. ASSUME NEW i \in 1..Len(t), Scanning(t[i])
      PROVE  Scans(t[i], c) /\ (t[i].cur = BeforeHead => i = Len(t))
  BY <1>4, <1>6 DEF Fresh
<1>7. ASSUME NEW i \in 2..Len(t), t[i].at \in {"event", "autoback"} /\ Scanning(t[i - 1])
      PROVE  t[i].w = t[i - 1].cur
  <2>1. i \in 1..Len(t) /\ i - 1 \in 1..Len(t) /\ i \in 2..Len(s)
    BY <1>1, <1>4
  <2> QED BY <1>4, <1>7, <2>1 DEF Fresh
<1> QED BY <1>2, <1>4, <1>5, <1>6, <1>7 DEF Fresh, t

LEMMA ReplaceFresh ==
  ASSUME NEW s, NEW c, Fresh(s, c), NEW f \in Acts, f.at = s[Len(s)].at,
         f.at \in {"event", "autoback"} => f.w = s[Len(s)].w,
         Scanning(f) => Scans(f, c)
  PROVE  Fresh(Append(SubSeq(s, 1, Len(s) - 1), f), c)
<1> DEFINE b == SubSeq(s, 1, Len(s) - 1)
           t == Append(b, f)
<1>1. s \in Seq(Acts) /\ Len(s) >= 1 /\ Len(s) \in Nat /\ s[1].at = "loop"
  BY DEF Fresh
<1>2. /\ b \in Seq(Acts) /\ Len(b) = Len(s) - 1
      /\ \A i \in 1..Len(s) - 1 : b[i] = s[i]
  BY <1>1, PopFacts
<1> HIDE DEF b
<1>3. /\ t \in Seq(Acts) /\ Len(t) = Len(b) + 1
      /\ \A i \in 1..Len(b) : t[i] = b[i]
      /\ t[Len(b) + 1] = f
  BY <1>2, PushFacts
<1> HIDE DEF t
<1>4. /\ Len(t) = Len(s) /\ t[Len(s)] = f
      /\ \A i \in 1..Len(s) : i # Len(s) => t[i] = s[i]
  BY <1>1, <1>2, <1>3
<1>5. t[1].at = "loop"
  BY <1>1, <1>4
<1>6. ASSUME NEW i \in 1..Len(t), Scanning(t[i])
      PROVE  Scans(t[i], c) /\ (t[i].cur = BeforeHead => i = Len(t))
  BY <1>4, <1>6 DEF Fresh
<1>7. ASSUME NEW i \in 2..Len(t), t[i].at \in {"event", "autoback"} /\ Scanning(t[i - 1])
      PROVE  t[i].w = t[i - 1].cur
  <2>1. i \in 1..Len(s) /\ i - 1 \in 1..Len(s) /\ i \in 2..Len(s) /\ i - 1 # Len(s)
    BY <1>1, <1>4
  <2>2. t[i - 1] = s[i - 1]
    BY <1>4, <2>1
  <2>3. s[i].at \in {"event", "autoback"} /\ s[i].w = t[i].w
    BY <1>4, <1>7, <2>1
  <2> QED BY <1>7, <2>1, <2>2, <2>3 DEF Fresh
<1> QED BY <1>1, <1>3, <1>4, <1>5, <1>6, <1>7 DEF Fresh, t, b

LEMMA PushFresh ==
  ASSUME NEW s, NEW c, Fresh(s, c), NEW f \in Acts, ~Scanning(f),
         Scanning(s[Len(s)]) => s[Len(s)].cur # BeforeHead,
         (f.at \in {"event", "autoback"} /\ Scanning(s[Len(s)])) => f.w = s[Len(s)].cur
  PROVE  Fresh(Append(s, f), c)
<1> DEFINE t == Append(s, f)
<1>1. s \in Seq(Acts) /\ Len(s) >= 1 /\ Len(s) \in Nat /\ s[1].at = "loop"
  BY DEF Fresh
<1>2. /\ t \in Seq(Acts) /\ Len(t) = Len(s) + 1
      /\ \A i \in 1..Len(s) : t[i] = s[i]
      /\ t[Len(s) + 1] = f
  BY <1>1, PushFacts
<1> HIDE DEF t
<1>5. t[1].at = "loop" /\ Len(t) >= 1
  BY <1>1, <1>2
<1>6. ASSUME NEW i \in 1..Len(t), Scanning(t[i])
      PROVE  Scans(t[i], c) /\ (t[i].cur = BeforeHead => i = Len(t))
  <2>1. i # Len(s) + 1
    BY <1>2, <1>6
  <2>2. i \in 1..Len(s) /\ t[i] = s[i]
    BY <1>1, <1>2, <2>1
  <2> QED BY <1>6, <2>2 DEF Fresh
<1>7. ASSUME NEW i \in 2..Len(t), t[i].at \in {"event", "autoback"} /\ Scanning(t[i - 1])
      PROVE  t[i].w = t[i - 1].cur
  <2>1. i - 1 \in 1..Len(s) /\ t[i - 1] = s[i - 1]
    BY <1>1, <1>2
  <2>2. CASE i = Len(s) + 1
    <3>1. i - 1 = Len(s) /\ t[i] = f
      BY <1>1, <1>2, <2>2
    <3> QED BY <1>7, <2>1, <3>1
  <2>3. CASE i # Len(s) + 1
    <3>1. i \in 2..Len(s) /\ i \in 1..Len(s)
      BY <1>1, <1>2, <2>3
    <3>2. t[i] = s[i]
      BY <3>1, <1>2
    <3> QED BY <1>7, <2>1, <3>1, <3>2 DEF Fresh
  <2> QED BY <2>2, <2>3
<1> QED BY <1>2, <1>5, <1>6, <1>7 DEF Fresh, t

LEMMA ActFacts ==
  ASSUME FInv
  PROVE  /\ stack \in Seq(Acts) /\ Depth \in Nat /\ Depth >= 1 /\ Depth = Len(stack)
         /\ Top \in Acts /\ Top = stack[Len(stack)]
         /\ Below = SubSeq(stack, 1, Len(stack) - 1)
         /\ \A f : OnTop(f) = Append(SubSeq(stack, 1, Len(stack) - 1), f)
  BY DEF FInv, Fresh, Top, Depth, Below, OnTop

LEMMA NewActs ==
  ASSUME NEW w \in Watches
  PROVE  /\ \A shut \in BOOLEAN : /\ FinalFrame(w, shut) \in Acts
                                 /\ FinalFrame(w, shut).at = "final"
         /\ \A how \in {"plain", "timeout", "line", "write"}, n \in Int, eof \in BOOLEAN :
              /\ EventFrame(w, how, n, eof) \in Acts
              /\ EventFrame(w, how, n, eof).at = "event"
              /\ EventFrame(w, how, n, eof).w = w
         /\ AutobackFrame(w) \in Acts
         /\ AutobackFrame(w).at = "autoback" /\ AutobackFrame(w).w = w
  BY CallsAssumption DEF FinalFrame, EventFrame, AutobackFrame, Acts

\* watch_free() leaves the activations or makes a last call.
LEMMA FreeFresh ==
  ASSUME NEW s, NEW r, NEW w \in Watches, NEW shut \in BOOLEAN, Fresh(s, cell),
         Scanning(s[Len(s)]) => s[Len(s)].cur # BeforeHead,
         WatchFree(w, r, s, shut)
  PROVE  Fresh(stack', cell)
<1>1. CASE stack' = s
  BY <1>1
<1>2. CASE stack' = Append(s, FinalFrame(w, shut))
  <2> DEFINE f == FinalFrame(w, shut)
  <2>1. f \in Acts /\ f.at = "final"
    BY NewActs
  <2> HIDE DEF f
  <2>2. Fresh(Append(s, f), cell)
    BY <2>1, PushFresh DEF Scanning
  <2> QED BY <1>2, <2>2 DEF f
<1> QED BY <1>1, <1>2 DEF WatchFree

\* A handler is started.
LEMMA StartFresh ==
  ASSUME NEW s, NEW w \in Watches, NEW how \in {"plain", "timeout", "line", "write"},
         NEW n \in Int, NEW eof \in BOOLEAN, Fresh(s, cell),
         Scanning(s[Len(s)]) => s[Len(s)].cur # BeforeHead /\ w = s[Len(s)].cur,
         Start(w, s, how, n, eof)
  PROVE  Fresh(stack', cell)
<1> DEFINE f == EventFrame(w, how, n, eof)
<1>1. f \in Acts /\ f.at = "event" /\ f.w = w
  BY NewActs
<1> HIDE DEF f
<1>2. Fresh(Append(s, f), cell)
  BY <1>1, PushFresh DEF Scanning
<1> QED BY <1>2 DEF Start, f

LEMMA SpentFresh ==
  ASSUME FInv, InHandler
  PROVE  Fresh(Spent, cell) /\ ~Scanning(Spent[Len(Spent)])
<1> DEFINE f == [Top EXCEPT !.calls = @ - 1]
<1>0. Top \in Acts /\ Top.at # "loop"
  BY ActFacts DEF InHandler
<1>1. f \in Acts /\ f.at = Top.at /\ (f.at \in {"event", "autoback"} => f.w = Top.w) /\ f.at # "loop"
  BY <1>0 DEF Acts
<1> HIDE DEF f
<1>2. Fresh(OnTop(f), cell)
  BY <1>1, ReplaceFresh, ActFacts DEF FInv, Scanning
<1>3. OnTop(f)[Len(OnTop(f))] = f
  <2>1. Below \in Seq(Acts)
    BY ActFacts, PopFacts
  <2>2. Len(OnTop(f)) = Len(Below) + 1 /\ OnTop(f)[Len(Below) + 1] = f
    BY <1>1, <2>1, PushFacts DEF OnTop
  <2> QED BY <2>2
<1> QED BY <1>1, <1>2, <1>3 DEF Spent, f, Scanning

\* A change of the loop's own frame.
LEMMA LoopFresh ==
  ASSUME FInv, Top.at = "loop", NEW f \in Acts, f.at = "loop",
         Scanning(f) => Scans(f, cell)
  PROVE  /\ Fresh(OnTop(f), cell)
         /\ OnTop(f)[Len(OnTop(f))] = f
<1>1. Fresh(OnTop(f), cell)
  BY ReplaceFresh, ActFacts DEF FInv
<1>2. Below \in Seq(Acts)
  BY ActFacts, PopFacts
<1>3. Len(OnTop(f)) = Len(Below) + 1 /\ OnTop(f)[Len(Below) + 1] = f
  BY <1>2, PushFacts DEF OnTop
<1> QED BY <1>1, <1>3

LEMMA GotoFresh ==
  ASSUME FInv, Top.at = "loop", NEW pc \in LoopPc, pc # "scan"
  PROVE  Fresh(Goto(pc), cell) /\ ~Scanning(Goto(pc)[Len(Goto(pc))])
<1> DEFINE f == [Top EXCEPT !.pc = pc, !.cur = BeforeHead]
<1>0. BeforeHead \in 1..BeforeHead
  BY WatchesAssumption DEF BeforeHead
<1>1. f \in Acts /\ f.at = "loop" /\ f.pc = pc
  BY <1>0, ActFacts DEF Acts
<1> HIDE DEF f
<1>2. Fresh(OnTop(f), cell) /\ OnTop(f)[Len(OnTop(f))] = f
  BY <1>1, LoopFresh DEF Scanning
<1> QED BY <1>1, <1>2 DEF Goto, f, Scanning

\* The walk goes to the next node: a scan keeps to what select() saw.
LEMMA AdvanceFresh ==
  ASSUME FInv, Top.at = "loop", NEW n \in Ahead
  PROVE  /\ n \in Watches
         /\ Fresh(Advance(n), cell)
         /\ Advance(n)[Len(Advance(n))].cur = n /\ n # BeforeHead
<1> DEFINE f == [Top EXCEPT !.cur = n]
<1>1. n \in Watches /\ cell[n] \in {"live", "empty"} /\ n < Top.cur
  BY DEF Ahead, Following, Nodes
<1>2. n \in 1..BeforeHead /\ n # BeforeHead /\ n \in Nat
  BY <1>1, WatchesAssumption DEF BeforeHead, Watches
<1>3. f \in Acts /\ f.at = "loop" /\ f.cur = n /\ f.pc = Top.pc /\ f.top = Top.top
      /\ Top.top \in Nat /\ Top.cur \in 1..BeforeHead
  BY <1>2, ActFacts DEF Acts
<1> HIDE DEF f
<1>4. Scanning(f) => Scans(f, cell)
  <2> SUFFICES ASSUME Scanning(f) PROVE n <= Top.top
    BY <1>2, <1>3 DEF Scans
  <2>1. Len(stack) \in 1..Len(stack) /\ Scanning(stack[Len(stack)])
    BY <1>3, ActFacts DEF Scanning
  <2>2. Scans(Top, cell)
    BY <2>1, ActFacts DEF FInv, Fresh
  <2>3. CASE Top.cur = BeforeHead
    BY <1>1, <2>2, <2>3 DEF Scans
  <2>4. CASE Top.cur # BeforeHead
    <3>1. Top.cur <= Top.top
      BY <2>2, <2>4 DEF Scans
    <3> QED BY <3>1, <1>1, <1>2, <1>3
  <2> QED BY <2>3, <2>4
<1>5. Fresh(OnTop(f), cell) /\ OnTop(f)[Len(OnTop(f))] = f
  BY <1>3, <1>4, LoopFresh
<1> QED BY <1>1, <1>2, <1>3, <1>5 DEF Advance, f

\* The innermost activation returns; what is then on top is not a walk that
\* has not begun.
LEMMA BelowFresh ==
  ASSUME FInv, Depth # 1
  PROVE  /\ Fresh(Below, cell)
         /\ Scanning(Below[Len(Below)]) => Below[Len(Below)].cur # BeforeHead
<1>1. /\ stack \in Seq(Acts) /\ Len(stack) >= 1 /\ Len(stack) \in Nat /\ Len(stack) # 1
      /\ Below = SubSeq(stack, 1, Len(stack) - 1) /\ Fresh(stack, cell)
  BY ActFacts DEF FInv
<1>2. Fresh(Below, cell)
  BY <1>1, PopFresh
<1>3. Len(Below) = Len(stack) - 1 /\ \A i \in 1..Len(stack) - 1 : Below[i] = stack[i]
  BY <1>1, PopFacts
<1>4. Len(Below) \in 1..Len(stack) /\ Below[Len(Below)] = stack[Len(Below)] /\ Len(Below) # Len(stack)
  BY <1>1, <1>3
<1>5. Scanning(stack[Len(Below)]) => stack[Len(Below)].cur # BeforeHead
  BY <1>4, <1>1 DEF Fresh
<1> QED BY <1>2, <1>4, <1>5

LEMMA HandlerFresh ==
  ASSUME FInv, Top.at # "loop"
  PROVE  Depth # 1
  BY ActFacts DEF FInv, Fresh

\* Watches that go, and, while the innermost activation is a handler,
\* watches that come, change nothing.
LEMMA CellFresh ==
  ASSUME NEW s, NEW c, NEW c2, Fresh(s, c),
         \/ \A w \in Watches : c2[w] # "unused" => c[w] # "unused"
         \/ ~Scanning(s[Len(s)])
  PROVE  Fresh(s, c2)
<1>1. ASSUME NEW i \in 1..Len(s), Scanning(s[i])
      PROVE  Scans(s[i], c2)
  <2>1. Scans(s[i], c) /\ (s[i].cur = BeforeHead => i = Len(s))
    BY <1>1 DEF Fresh
  <2>2. s[i].cur = BeforeHead => \A w \in Watches : c2[w] # "unused" => c[w] # "unused"
    BY <1>1, <2>1
  <2> QED BY <2>1, <2>2 DEF Scans
<1> QED BY <1>1 DEF Fresh

LEMMA LeaveFresh ==
  ASSUME FInv, Top.at = "loop"
  PROVE  Fresh(Leave, cell)
<1>1. CASE Depth # 1
  BY <1>1, BelowFresh DEF Leave
<1>2. CASE Depth = 1
  <2> DEFINE f == LoopFrame("timers")
             t == <<f>>
  <2>1. f \in Acts /\ f.at = "loop" /\ f.pc = "timers"
    BY WatchesAssumption DEF LoopFrame, Acts, LoopPc, BeforeHead
  <2>2. Leave = t
    BY <1>2 DEF Leave
  <2> HIDE DEF f
  <2>3. t \in Seq(Acts) /\ Len(t) = 1 /\ t[1] = f
    BY <2>1
  <2> HIDE DEF t
  <2>4. \A i \in 1..Len(t) : t[i] = f
    BY <2>3
  <2>5. \A i \in 2..Len(t) : FALSE
    BY <2>3
  <2> QED BY <2>1, <2>2, <2>3, <2>4, <2>5 DEF Fresh, Scanning
<1> QED BY <1>1, <1>2

-----------------------------------------------------------------------------

LEMMA InitFresh == Init => FInv
<1> SUFFICES ASSUME Init PROVE FInv
  OBVIOUS
<1>1. TypedLoosely /\ Allotted(cell)
  BY DEF Init, TypedLoosely, Allotted
<1> DEFINE f == LoopFrame("timers")
<1>2. f \in Acts /\ f.at = "loop" /\ f.pc = "timers"
  BY WatchesAssumption DEF LoopFrame, Acts, LoopPc, BeforeHead
<1>3. stack = <<f>>
  BY DEF Init
<1> HIDE DEF f
<1>4. stack \in Seq(Acts) /\ Len(stack) = 1 /\ stack[1] = f
  BY <1>2, <1>3
<1>5. \A i \in 1..Len(stack) : stack[i] = f
  BY <1>4
<1>6. \A i \in 2..Len(stack) : FALSE
  BY <1>4
<1> QED BY <1>1, <1>2, <1>4, <1>5, <1>6 DEF FInv, Fresh, Scanning

LEMMA KeepFresh ==
  ASSUME FInv, Fresh(stack', cell'), UNCHANGED <<cell, fd, queue>>
  PROVE  FInv'
  BY DEF FInv, TypedLoosely, Allotted

\* When select() is called there is no watch newer than those it answers for.
LEMMA SelectFresh ==
  ASSUME FInv
  PROVE  /\ Cardinality({n \in Watches : cell[n] # "unused"}) \in Nat
         /\ \A w \in Watches : cell[w] # "unused" => w <= Cardinality({n \in Watches : cell[n] # "unused"})
<1> DEFINE U == {n \in Watches : cell[n] # "unused"}
<1>1. IsFiniteSet(Watches) /\ IsFiniteSet(U)
  <2>1. IsFiniteSet(Watches)
    BY FS_Interval, WatchesAssumption DEF Watches
  <2> QED BY <2>1, FS_Subset
<1>2. Cardinality(U) \in Nat
  BY <1>1, FS_CardinalityType
<1>3. ASSUME NEW w \in Watches, cell[w] # "unused"
      PROVE  w <= Cardinality(U)
  <2>1. w \in Nat /\ w >= 1
    BY WatchesAssumption DEF Watches
  <2>2. 1..w \subseteq U
    <3> SUFFICES ASSUME NEW v \in 1..w PROVE v \in U
      OBVIOUS
    <3>1. v \in Watches
      BY <2>1, WatchesAssumption DEF Watches
    <3>2. cell[v] # "unused"
      BY <1>3, <3>1, <2>1 DEF FInv, Allotted
    <3> QED BY <3>1, <3>2
  <2>3. IsFiniteSet(1..w) /\ Cardinality(1..w) = w
    <3>1. IsFiniteSet(1..w) /\ Cardinality(1..w) = IF 1 > w THEN 0 ELSE w - 1 + 1
      BY <2>1, FS_Interval
    <3> QED BY <2>1, <3>1
  <2>4. Cardinality(1..w) <= Cardinality(U)
    BY <1>1, <2>2, FS_Subset
  <2> QED BY <2>3, <2>4
<1> QED BY <1>2, <1>3

\* A watch is dispatched by whoever is on top of s, in a walk for this watch only.
LEMMA DispatchFresh ==
  ASSUME FInv, NEW n \in Watches, NEW f, NEW s, Fresh(s, cell),
         Scanning(s[Len(s)]) => s[Len(s)].cur # BeforeHead /\ n = s[Len(s)].cur,
         Dispatch(n, f, s) \/ WatchTimeout(n, s)
  PROVE  Fresh(stack', cell)
<1>1. queue[n] \in Int
  BY DEF FInv, TypedLoosely
<1>2. \/ stack' = s
      \/ \E how \in {"plain", "timeout", "line", "write"}, k \in Int, eof \in BOOLEAN :
           Start(n, s, how, k, eof)
  <2>1. 0 \in Int /\ FALSE \in BOOLEAN /\ \A k \in 0..MaxLines : k \in Int
    BY LinesAssumption
  <2>2. CASE Dispatch(n, f, s)
    <3>1. WatchHandle(n, s) \/ WatchHandleLine(n, s) \/ WatchHandleWrite(n, s) \/ Ignore(s)
      BY <2>2 DEF Dispatch
    <3>2. CASE WatchHandleLine(n, s)
      <4>1. CASE \E k \in 0..MaxLines, eof \in BOOLEAN : Start(n, s, "line", k, eof)
        <5>1. PICK k \in 0..MaxLines, eof \in BOOLEAN : Start(n, s, "line", k, eof)
          BY <4>1
        <5>2. k \in Int
          BY <2>1
        <5> QED BY <5>1, <5>2
      <4> QED BY <3>2, <4>1 DEF WatchHandleLine, Ignore
    <3>3. CASE WatchHandle(n, s)
      BY <2>1, <3>3 DEF WatchHandle, Ignore
    <3>4. CASE WatchHandleWrite(n, s)
      BY <1>1, <2>1, <3>4 DEF WatchHandleWrite, Ignore
    <3> QED BY <3>1, <3>2, <3>3, <3>4 DEF Ignore
  <2>3. CASE WatchTimeout(n, s)
    BY <2>1, <2>3 DEF WatchTimeout
  <2> QED BY <2>2, <2>3
<1> QED BY <1>2, StartFresh

\* Steps of ekg_loop() itself.
LEMMA LoopStepFresh ==
  ASSUME FInv, Loop
  PROVE  FInv'
<1>1. CASE LoopTimers \/ LoopChildren
  <2>1. PICK pc \in {"reap", "select"} :
          /\ Top.at = "loop"
          /\ stack' = Goto(pc) \/ stack' = Append(Goto(pc), CallbackFrame)
          /\ UNCHANGED <<cell, fields, removed, queue, corked, open, nremoved>>
    BY <1>1 DEF LoopTimers, LoopChildren, LoopAt
  <2>2. Fresh(Goto(pc), cell) /\ ~Scanning(Goto(pc)[Len(Goto(pc))])
    BY <2>1, GotoFresh DEF LoopPc
  <2>3. CallbackFrame \in Acts /\ CallbackFrame.at = "callback"
    BY CallsAssumption DEF CallbackFrame, Acts
  <2>4. Fresh(Append(Goto(pc), CallbackFrame), cell)
    BY <2>2, <2>3, PushFresh DEF Scanning
  <2> QED BY <2>1, <2>2, <2>4, KeepFresh DEF fields
<1>2. CASE LoopReap
  <2>1. Top.at = "loop" /\ UNCHANGED <<cell, fd, queue>>
    BY <1>2 DEF LoopReap, LoopAt, fields
  <2>2. CASE stack' = Goto("children")
    <3>1. Fresh(Goto("children"), cell)
      BY <2>1, GotoFresh DEF LoopPc
    <3> QED BY <2>1, <2>2, <3>1, KeepFresh
  <2>3. ASSUME NEW n \in Ahead,
               Ignore(Advance(n)) \/ WatchFree(n, Forget(n), Advance(n), FALSE)
        PROVE  FInv'
    <3>1. n \in Watches /\ Fresh(Advance(n), cell)
          /\ Advance(n)[Len(Advance(n))].cur # BeforeHead
      BY <2>1, <2>3, AdvanceFresh
    <3>2. Fresh(stack', cell)
      BY <2>3, <3>1, FreeFresh DEF Ignore
    <3> QED BY <2>1, <3>2, KeepFresh
  <2> QED BY <1>2, <2>2, <2>3 DEF LoopReap
<1>3. CASE SelectBad
  <2>1. Fresh(Goto("bad"), cell) /\ UNCHANGED <<cell, fd, queue>>
    BY <1>3, GotoFresh DEF SelectBad, LoopAt, LoopPc, fields
  <2> QED BY <1>3, <2>1, KeepFresh DEF SelectBad
<1>4. CASE SelectInterrupted
  <2>1. Fresh(Leave, cell) /\ UNCHANGED <<cell, fd, queue>>
    BY <1>4, LeaveFresh DEF SelectInterrupted, LoopAt, fields
  <2> QED BY <1>4, <2>1, KeepFresh DEF SelectInterrupted
<1>5. CASE SelectReady
  <2> DEFINE k == Cardinality({n \in Watches : cell[n] # "unused"})
  <2>1. PICK r \in SUBSET ReadSet, w \in SUBSET WriteSet :
          stack' = OnTop([Top EXCEPT !.pc = "scan", !.cur = BeforeHead, !.rd = r, !.wd = w, !.top = k])
    BY <1>5 DEF SelectReady
  <2>2. Top.at = "loop" /\ UNCHANGED <<cell, fd, queue>>
    BY <1>5 DEF SelectReady, LoopAt, fields
  <2>3. k \in Nat /\ \A v \in Watches : cell[v] # "unused" => v <= k
    BY SelectFresh
  <2> HIDE DEF k
  <2>4. r \in SUBSET (Fds \cup {0}) /\ w \in SUBSET (Fds \cup {0})
    BY DEF ReadSet, WriteSet, Live, FInv, TypedLoosely
  <2>5. BeforeHead \in 1..BeforeHead /\ Top \in Acts
    BY WatchesAssumption, ActFacts DEF BeforeHead
  <2> DEFINE f == [Top EXCEPT !.pc = "scan", !.cur = BeforeHead, !.rd = r, !.wd = w, !.top = k]
  <2>6. f \in Acts /\ f.at = "loop" /\ f.cur = BeforeHead /\ f.top = k
    BY <2>2, <2>3, <2>4, <2>5 DEF Acts, LoopPc
  <2>7. stack' = OnTop(f)
    BY <2>1
  <2> HIDE DEF f
  <2>8. Scans(f, cell)
    BY <2>3, <2>6 DEF Scans
  <2>9. Fresh(OnTop(f), cell)
    BY <2>2, <2>6, <2>8, LoopFresh
  <2> QED BY <2>2, <2>7, <2>9, KeepFresh
<1>6. CASE LoopBad
  <2>1. Top.at = "loop" /\ UNCHANGED <<cell, fd, queue>>
    BY <1>6 DEF LoopBad, LoopAt, fields
  <2>2. CASE stack' = Leave
    BY <2>1, <2>2, LeaveFresh, KeepFresh
  <2>3. ASSUME NEW n \in Ahead,
               Ignore(Advance(n)) \/ WatchFree(n, removed, Advance(n), FALSE)
        PROVE  FInv'
    <3>1. n \in Watches /\ Fresh(Advance(n), cell)
          /\ Advance(n)[Len(Advance(n))].cur # BeforeHead
      BY <2>1, <2>3, AdvanceFresh
    <3>2. Fresh(stack', cell)
      BY <2>3, <3>1, FreeFresh DEF Ignore
    <3> QED BY <2>1, <3>2, KeepFresh
  <2> QED BY <1>6, <2>2, <2>3 DEF LoopBad
<1>7. CASE LoopScan
  <2>1. Top.at = "loop" /\ UNCHANGED <<cell, fd, queue>>
    BY <1>7 DEF LoopScan, LoopAt, fields
  <2>2. PICK n \in Ahead :
          \/ Ignore(Advance(n))
          \/ Dispatch(n, Top, Advance(n)) \/ WatchTimeout(n, Advance(n))
          \/ stack' = Append(Advance(n), AutobackFrame(n))
    BY <1>7 DEF LoopScan
  <2>3. n \in Watches /\ Fresh(Advance(n), cell)
        /\ Advance(n)[Len(Advance(n))].cur = n /\ n # BeforeHead
    BY <2>1, <2>2, AdvanceFresh
  <2>4. CASE stack' = Append(Advance(n), AutobackFrame(n))
    <3> DEFINE g == AutobackFrame(n)
    <3>1. g \in Acts /\ g.at = "autoback" /\ g.w = n
      BY <2>3, NewActs
    <3> HIDE DEF g
    <3>2. Fresh(Append(Advance(n), g), cell)
      BY <2>3, <3>1, PushFresh DEF Scanning
    <3>3. stack' = Append(Advance(n), g)
      BY <2>4 DEF g
    <3> QED BY <2>1, <3>2, <3>3, KeepFresh
  <2>5. CASE Ignore(Advance(n))
    BY <2>1, <2>3, <2>5, KeepFresh DEF Ignore
  <2>6. CASE Dispatch(n, Top, Advance(n)) \/ WatchTimeout(n, Advance(n))
    <3>1. Fresh(stack', cell)
      BY <2>3, <2>6, DispatchFresh
    <3> QED BY <2>1, <3>1, KeepFresh
  <2> QED BY <2>2, <2>4, <2>5, <2>6
<1>8. CASE LoopCleanup
  <2>1. Top.at = "loop" /\ stack' = Leave /\ UNCHANGED <<fd, queue>>
    BY <1>8 DEF LoopCleanup, LoopAt, fields
  <2>2. \A w \in Watches : cell'[w] = IF nremoved > 0 /\ cell[w] = "empty" THEN "freed" ELSE cell[w]
    BY <1>8 DEF LoopCleanup
  <2>3. \A w \in Watches : cell'[w] # "unused" <=> cell[w] # "unused"
    BY <2>2
  <2>4. Fresh(stack', cell')
    BY <2>1, <2>3, LeaveFresh, CellFresh
  <2>5. cell' \in [Watches -> {"unused", "live", "empty", "freed"}]
    BY <1>8, <2>2 DEF LoopCleanup, FInv, TypedLoosely
  <2> QED BY <2>1, <2>3, <2>4, <2>5 DEF FInv, TypedLoosely, Allotted
<1> QED BY <1>1, <1>2, <1>3, <1>4, <1>5, <1>6, <1>7, <1>8 DEF Loop

\* Calls of a handler.
LEMMA CallStepFresh ==
  ASSUME FInv, Calls
  PROVE  FInv'
<1>0. ASSUME InHandler
      PROVE  Fresh(Spent, cell) /\ ~Scanning(Spent[Len(Spent)]) /\ Top.at # "loop"
  BY <1>0, SpentFresh DEF InHandler
<1>1. ASSUME NEW f \in Fds, NEW k \in Kinds, WatchAdd(f, k)
      PROVE  FInv'
  <2>1. PICK w \in Watches :
          /\ cell[w] = "unused"
          /\ \A v \in Watches : v < w => cell[v] # "unused"
          /\ cell' = [cell EXCEPT ![w] = "live"]
          /\ fd' = [fd EXCEPT ![w] = f]
    BY <1>1 DEF WatchAdd
  <2>2. InHandler /\ stack' = Spent /\ UNCHANGED queue
    BY <1>1 DEF WatchAdd, May
  <2>3. Fresh(stack', cell')
    BY <1>0, <2>2, CellFresh
  <2>4. /\ cell' \in [Watches -> {"unused", "live", "empty", "freed"}] /\ cell'[w] = "live"
        /\ \A v \in Watches : v # w => cell'[v] = cell[v]
    BY <2>1 DEF FInv, TypedLoosely
  <2>5. Allotted(cell')
    BY <2>1, <2>4 DEF FInv, Allotted
  <2>6. fd' \in [Watches -> Fds \cup {0}]
    BY <2>1 DEF FInv, TypedLoosely
  <2> QED BY <2>2, <2>3, <2>4, <2>5, <2>6 DEF FInv, TypedLoosely
<1>2. ASSUME NEW w \in Watches, CallFree(w) \/ CallFreeManually(w)
      PROVE  FInv'
  <2>1. InHandler /\ WatchFree(w, removed, Spent, FALSE) /\ UNCHANGED <<cell, fd, queue>>
    BY <1>2 DEF CallFree, CallFreeManually, May, fields
  <2>2. Fresh(stack', cell)
    BY <1>0, <2>1, FreeFresh
  <2> QED BY <2>1, <2>2, KeepFresh
<1>3. ASSUME NEW f \in Fds, NEW t \in {{"READ"}, {"WRITE"}}, CallRemove(f, t)
      PROVE  FInv'
  <2>1. InHandler /\ stack' = Append(Spent, RemoveFrame(f, t)) /\ UNCHANGED <<cell, fd, queue>>
    BY <1>3 DEF CallRemove, May, fields
  <2> DEFINE g == RemoveFrame(f, t)
  <2>2. g \in Acts /\ g.at = "remove"
    BY DEF RemoveFrame, Acts
  <2>3. stack' = Append(Spent, g)
    BY <2>1
  <2> HIDE DEF g
  <2>4. Fresh(stack', cell)
    BY <1>0, <2>1, <2>2, <2>3, PushFresh DEF Scanning
  <2> QED BY <2>1, <2>4, KeepFresh
<1>4. ASSUME NEW w \in Watches, CallWrite(w)
      PROVE  FInv'
  <2>1. InHandler /\ UNCHANGED <<cell, fd>> /\ queue' = [queue EXCEPT ![w] = @ + 1]
        /\ (Start(w, Spent, "write", 1, FALSE) \/ stack' = Spent)
    BY <1>4 DEF CallWrite, May, fields, Ignore
  <2>2. Fresh(stack', cell)
    <3>1. 1 \in Int /\ FALSE \in BOOLEAN /\ "write" \in {"plain", "timeout", "line", "write"}
      OBVIOUS
    <3> QED BY <1>0, <2>1, <3>1, StartFresh
  <2>3. queue' \in [Watches -> Int]
    BY <2>1 DEF FInv, TypedLoosely
  <2> QED BY <2>1, <2>2, <2>3 DEF FInv, TypedLoosely, Allotted
<1>5. ASSUME NEW w \in Watches, CallCork(w) \/ CallCommit(w)
      PROVE  FInv'
  <2>1. InHandler /\ UNCHANGED <<cell, fd, queue>>
        /\ (Start(w, Spent, "write", queue[w], FALSE) \/ stack' = Spent)
    BY <1>5 DEF CallCork, CallCommit, May, fields, Ignore
  <2>2. queue[w] \in Int
    BY DEF FInv, TypedLoosely
  <2>3. Fresh(stack', cell)
    BY <1>0, <2>1, <2>2, StartFresh
  <2> QED BY <2>1, <2>3, KeepFresh
<1>6. CASE CallLoop
  <2>1. InHandler /\ stack' = Append(Spent, LoopFrame("timers")) /\ UNCHANGED <<cell, fd, queue>>
    BY <1>6 DEF CallLoop, May, fields
  <2> DEFINE g == LoopFrame("timers")
  <2>2. g \in Acts /\ g.at = "loop" /\ g.pc = "timers"
    BY WatchesAssumption DEF LoopFrame, Acts, LoopPc, BeforeHead
  <2>3. stack' = Append(Spent, g)
    BY <2>1
  <2> HIDE DEF g
  <2>4. Fresh(stack', cell)
    BY <1>0, <2>1, <2>2, <2>3, PushFresh DEF Scanning
  <2> QED BY <2>1, <2>4, KeepFresh
<1>7. CASE CallOpen \/ \E f \in Fds : CallClose(f)
  <2>1. InHandler /\ stack' = Spent /\ UNCHANGED <<cell, fd, queue>>
    BY <1>7 DEF CallOpen, CallClose, May, fields
  <2> QED BY <1>0, <2>1, KeepFresh
<1> QED BY <1>1, <1>2, <1>3, <1>4, <1>5, <1>6, <1>7 DEF Calls

\* Handlers and functions that return.
LEMMA ReturnStepFresh ==
  ASSUME FInv, Returns
  PROVE  FInv'
<1>0. ASSUME Top.at # "loop"
      PROVE  /\ Fresh(Below, cell)
             /\ Scanning(Below[Len(Below)]) => Below[Len(Below)].cur # BeforeHead
  BY <1>0, BelowFresh, HandlerFresh
<1>a. Top.at \in {"event", "autoback"} => Top.w \in Watches
  <2>1. Top \in Acts
    BY ActFacts
  <2> QED BY <2>1 DEF Acts
<1>1. ASSUME NEW res \in {-1, 0}, PlainReturn(res) \/ LineReturn(res)
      PROVE  FInv'
  <2>1. Top.at = "event" /\ UNCHANGED <<cell, fd, queue>>
    BY <1>1 DEF PlainReturn, LineReturn, Running, fields
  <2>2. CASE \E shut \in BOOLEAN : WatchFree(Top.w, Forget(Top.w), Below, shut)
    <3>1. Fresh(stack', cell)
      BY <1>0, <1>a, <2>1, <2>2, FreeFresh
    <3> QED BY <2>1, <3>1, KeepFresh
  <2>3. CASE stack' = Below
    BY <1>0, <2>1, <2>3, KeepFresh
  <2>4. CASE stack' = OnTop([Top EXCEPT !.n = @ - 1]) /\ Top.how = "line"
    <3> DEFINE f == [Top EXCEPT !.n = @ - 1]
    <3>0. Top \in Acts
      BY ActFacts
    <3>1. f \in Acts /\ f.at = "event" /\ f.w = Top.w
      BY <2>1, <3>0 DEF Acts
    <3>2. stack' = OnTop(f)
      BY <2>4
    <3> HIDE DEF f
    <3>3. Fresh(OnTop(f), cell)
      BY <2>1, <3>1, ReplaceFresh, ActFacts DEF FInv, Scanning
    <3> QED BY <2>1, <3>2, <3>3, KeepFresh
  <2> QED BY <1>1, <2>2, <2>3, <2>4 DEF PlainReturn, LineReturn
<1>2. ASSUME NEW res \in -1..MaxQueue + 1, WriteReturn(res)
      PROVE  FInv'
  <2>1. Top.at = "event" /\ UNCHANGED <<cell, fd>>
    BY <1>2 DEF WriteReturn, Running, fields
  <2>2. Fresh(stack', cell)
    BY <1>0, <1>2, <1>a, <2>1, FreeFresh DEF WriteReturn
  <2>3. queue' \in [Watches -> Int]
    <3>1. CASE UNCHANGED queue
      BY <3>1 DEF FInv, TypedLoosely
    <3>2. CASE queue' = [queue EXCEPT ![Top.w] = @ - Clipped(res, Top.n)]
      <4>1. Top.n \in Int
        <5>1. Top \in Acts
          BY ActFacts
        <5> QED BY <2>1, <5>1 DEF Acts
      <4>2. Clipped(res, Top.n) \in Int
        BY <4>1, QueueAssumption DEF Clipped
      <4> HIDE DEF Clipped
      <4> QED BY <1>a, <2>1, <3>2, <4>2 DEF FInv, TypedLoosely
    <3> QED BY <1>2, <3>1, <3>2 DEF WriteReturn
  <2> QED BY <2>1, <2>2, <2>3 DEF FInv, TypedLoosely, Allotted
<1>3. CASE FinalReturn
  <2>0. Top \in Acts /\ Top.at = "final"
    BY <1>3, ActFacts DEF FinalReturn, Running
  <2>1. Top.w \in Watches
    BY <2>0 DEF Acts
  <2>2. /\ cell' = [cell EXCEPT ![Top.w] = "empty"] /\ cell[Top.w] = "live"
        /\ fd' = [fd EXCEPT ![Top.w] = 0]
        /\ queue' = [queue EXCEPT ![Top.w] = 0]
        /\ stack' = Below
    BY <1>3, <2>0 DEF FinalReturn, Sane, Holds
  <2>3. /\ cell' \in [Watches -> {"unused", "live", "empty", "freed"}]
        /\ fd' \in [Watches -> Fds \cup {0}] /\ queue' \in [Watches -> Int]
        /\ \A v \in Watches : cell'[v] # "unused" <=> cell[v] # "unused"
    BY <2>1, <2>2 DEF FInv, TypedLoosely
  <2>4. Fresh(stack', cell')
    BY <1>0, <2>0, <2>2, <2>3, CellFresh
  <2> QED BY <2>3, <2>4 DEF FInv, TypedLoosely, Allotted
<1>4. CASE CallbackReturn
  <2>1. Top.at = "callback" /\ stack' = Below /\ UNCHANGED <<cell, fd, queue>>
    BY <1>4 DEF CallbackReturn, Running, fields
  <2> QED BY <1>0, <2>1, KeepFresh
<1>5. CASE RemoveNext
  <2>1. Top.at = "remove" /\ UNCHANGED <<cell, fd, queue>>
    BY <1>5 DEF RemoveNext, Running, fields
  <2>2. CASE stack' = Below
    BY <1>0, <2>1, <2>2, KeepFresh
  <2>3. CASE \E w \in Matching(Top.fd, Top.type) : WatchFree(w, removed, stack, FALSE)
    <3>1. PICK w \in Watches : WatchFree(w, removed, stack, FALSE)
      BY <2>3 DEF Matching, Live
    <3>2. Fresh(stack, cell) /\ ~Scanning(stack[Len(stack)])
      BY <2>1, ActFacts DEF FInv, Scanning
    <3>3. Fresh(stack', cell)
      BY <3>1, <3>2, FreeFresh
    <3> QED BY <2>1, <3>3, KeepFresh
  <2> QED BY <1>5, <2>2, <2>3 DEF RemoveNext
<1>6. CASE AutobackReturn
  <2>1. Top.at = "autoback" /\ UNCHANGED <<cell, fd, queue>>
        /\ Dispatch(Top.w, stack[Depth - 1], Below)
    BY <1>6 DEF AutobackReturn, Running, fields
  <2>2. Fresh(Below, cell) /\ Depth # 1
        /\ (Scanning(Below[Len(Below)]) => Below[Len(Below)].cur # BeforeHead)
    BY <1>0, <2>1, HandlerFresh
  <2>3. Scanning(Below[Len(Below)]) => Top.w = Below[Len(Below)].cur
    <3>1. stack \in Seq(Acts) /\ Len(stack) \in Nat /\ Len(stack) >= 1 /\ Len(stack) # 1
          /\ Below = SubSeq(stack, 1, Len(stack) - 1) /\ Top = stack[Len(stack)]
      BY <2>2, ActFacts
    <3>2. Len(Below) = Len(stack) - 1 /\ \A i \in 1..Len(stack) - 1 : Below[i] = stack[i]
      BY <3>1, PopFacts
    <3>3. /\ Len(stack) \in 2..Len(stack) /\ Below[Len(Below)] = stack[Len(stack) - 1]
          /\ stack[Len(stack)].at \in {"event", "autoback"}
      BY <2>1, <3>1, <3>2
    <3> QED BY <3>1, <3>3 DEF FInv, Fresh
  <2>4. Fresh(stack', cell)
    BY <1>a, <2>1, <2>2, <2>3, DispatchFresh
  <2> QED BY <2>1, <2>4, KeepFresh
<1> QED BY <1>1, <1>2, <1>3, <1>4, <1>5, <1>6 DEF Returns

LEMMA FreshInductive == Spec => []FInv
<1>1. ASSUME FInv, [Next]_vars
      PROVE  FInv'
  <2>1. CASE Next
    BY <1>1, <2>1, LoopStepFresh, CallStepFresh, ReturnStepFresh DEF Next
  <2>2. CASE UNCHANGED vars
    BY <1>1, <2>2 DEF vars, FInv, TypedLoosely, Allotted
  <2> QED BY <1>1, <2>1, <2>2
<1> QED BY <1>1, InitFresh, PTL DEF Spec

\* A watch that was added while ekg_loop() served what select() had reported,
\* perhaps with the number of a descriptor that was closed meanwhile, is not
\* served for it: with any number of nested loops, whatever the handlers do.
THEOREM ServesNoNewcomer == Spec => []NoStaleReadiness
<1>1. FInv => NoStaleReadiness
  <2> SUFFICES ASSUME FInv, NEW i \in 2..Depth,
                      stack[i].at = "event", Scanning(stack[i - 1])
               PROVE  stack[i].w <= stack[i - 1].top
    BY DEF NoStaleReadiness, Scanning
  <2>1. /\ i \in 2..Len(stack) /\ i - 1 \in 1..Len(stack) /\ i - 1 # Len(stack)
    BY ActFacts
  <2>2. /\ stack[i].w = stack[i - 1].cur
        /\ Scans(stack[i - 1], cell) /\ stack[i - 1].cur # BeforeHead
    BY <2>1 DEF FInv, Fresh
  <2> QED BY <2>2 DEF Scans
<1> QED BY <1>1, FreshInductive, PTL

=============================================================================
