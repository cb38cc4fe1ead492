---------------------------- MODULE TimersProofs ----------------------------
(***************************************************************************)
(* Proofs about Timers, for any number of timers, of loops nested in one   *)
(* another and of commands, any clock and any periods: the five properties *)
(* of the run timers.                                                      *)
(*                                                                         *)
(* Two assumptions exclude what the code leaves to its users (Guarded): no *)
(* command removes the timer that executes it, and the command of a timer  *)
(* that runs once does not call ekg_loop().  Where they do not hold, a     *)
(* freed timer is used.  OnceOnly needs the second only; AgainInside, what *)
(* is left of it without that, needs neither.  That no period wraps at     *)
(* 2^32 (NoWrap) is needed for NotEarly only.                              *)
(*                                                                         *)
(* The invariant is stated of an arbitrary list tm, clock nw and stack s,  *)
(* the values before and after a step.                                     *)
(***************************************************************************)
EXTENDS Timers, SequenceTheorems, WellFoundedInduction, TLAPS

Guarded == ~RemoveOwn /\ ~WaitOnce
NoWrap  == \A secs \in Periods : secs * Milli < Wrap

\* The timers; what name one has does not matter, and Numeral() ends at 9.
Struct(n) ==
  [state : {"unused", "live", "freed"}, name : {n}, at : BOOLEAN,
   persist : BOOLEAN, period : Nat, ends : Nat, asked : Nat, every : Nat,
   since : Nat, started : BOOLEAN]

IsLive(tm, t) == t \in Timers /\ tm[t].state = "live"

Typed(tm, nw, s) ==
  /\ DOMAIN tm = Timers /\ tm = [t \in Timers |-> tm[t]]
  /\ \A t \in Timers : tm[t] \in Struct(tm[t].name)
  /\ nw \in 0..MaxTime
  /\ s \in Seq(Frames) /\ Len(s) >= 1

\* A new timer comes after all that there ever were.
Appending(tm) ==
  \A t, u \in Timers : t < u /\ tm[t].state = "unused" => tm[u].state = "unused"

\* A callback runs above the pass that stands on its timer; only a persistent
\* timer's has a loop above it; select() is left before anything else is done.
Nested(tm, s) ==
  /\ s[1].at # "call"
  /\ \A i \in 1..Len(s) : s[i].at = "call" =>
       /\ i > 1 /\ s[i - 1].at = "pass" /\ s[i - 1].cur = s[i].t
       /\ IsLive(tm, s[i].t)
       /\ s[i - 1].again = tm[s[i].t].persist
       /\ i < Len(s) => tm[s[i].t].persist
  /\ \A i \in 1..Len(s) - 1 :
       s[i].at # "wait" /\ (s[i].at = "pass" => s[i + 1].at = "call")

Standing(tm, s) ==
  \A i \in 1..Len(s) : s[i].at = "pass" => s[i].cur = 0 \/ IsLive(tm, s[i].cur)

\* The inner loop read the clock later.
HasTv(f) == f.at \in {"pass", "wait"}
Clocks(nw, s) ==
  \A i \in 1..Len(s) : HasTv(s[i]) =>
    /\ s[i].tv <= nw
    /\ \A j \in 1..i : HasTv(s[j]) => s[j].tv <= s[i].tv

\* What a pass that began at tv has behind it.
Served(r, tv) == r.ends > tv \/ (r.period = 0 /\ r.ends >= tv)

Behind(tm, s) ==
  \A i \in 1..Len(s) : s[i].at = "pass" =>
    \A t \in Timers : IsLive(tm, t) =>
      /\ t < s[i].cur => Served(tm[t], s[i].tv)
      /\ t = s[i].cur => Served(tm[t], s[i].tv) \/ (i < Len(s) /\ ~tm[t].persist)

\* select() sleeps to the end of no timer.
Sleep(tm, s) ==
  s[Len(s)].at = "wait" =>
    \A t \in Timers : IsLive(tm, t) => s[Len(s)].tv + s[Len(s)].left <= tm[t].ends

\* A timer that runs once and was started is the one that is being executed.
Once(tm, s) ==
  \A t \in Timers : (IsLive(tm, t) /\ tm[t].started /\ ~tm[t].persist) =>
    s[Len(s)].at = "call" /\ s[Len(s)].t = t

\* The end of a timer that is still to come is not before what was asked for.
Asked(tm) ==
  NoWrap => \A t \in Timers : IsLive(tm, t) =>
    /\ tm[t].period = tm[t].every
    /\ (tm[t].started /\ ~tm[t].persist) \/ tm[t].ends >= tm[t].since + tm[t].asked

Good(tm, nw, s) ==
  /\ Typed(tm, nw, s)
  /\ Appending(tm)
  /\ Nested(tm, s)
  /\ Standing(tm, s)
  /\ Clocks(nw, s)
  /\ Behind(tm, s)
  /\ Sleep(tm, s)
  /\ Once(tm, s)
  /\ Asked(tm)

IInv == Good(timer, now, stack)

-----------------------------------------------------------------------------
(* Sets of numbers. *)

LEMMA SmallestOf ==
  ASSUME NEW S \in SUBSET Nat, S # {}
  PROVE  \E x \in S : \A y \in S : x <= y
<1>1. IsWellFoundedOn(OpToRel(<, Nat), Nat)
  BY NatLessThanWellFounded
<1>2. PICK x \in S : \A y \in S : ~(<<y, x>> \in OpToRel(<, Nat))
  BY <1>1, WFMin
<1>3. \A y \in S : x <= y
  <2> SUFFICES ASSUME NEW y \in S PROVE x <= y
    OBVIOUS
  <2>1. ~(<<y, x>> \in OpToRel(<, Nat))
    BY <1>2
  <2>2. x \in Nat /\ y \in Nat
    OBVIOUS
  <2>3. y < x => <<y, x>> \in OpToRel(<, Nat)
    BY <2>2, Zenon DEF OpToRel
  <2>4. ~(y < x)
    BY <2>1, <2>3, Zenon
  <2> QED BY <2>2, <2>4
<1> QED BY <1>3

LEMMA LeastOf ==
  ASSUME NEW S \in SUBSET Int, S # {}, NEW b \in Nat, \A x \in S : x + b >= 0
  PROVE  Least(S) \in S /\ \A y \in S : Least(S) <= y
<1> DEFINE U == {x + b : x \in S}
<1>a. \A x \in S : x + b \in Nat
  OBVIOUS
<1>1. U \in SUBSET Nat /\ U # {}
  BY <1>a
<1>2. PICK u \in U : \A y \in U : u <= y
  BY <1>1, SmallestOf
<1>3. PICK x \in S : u = x + b
  OBVIOUS
<1>4. \A y \in S : x <= y
  <2> SUFFICES ASSUME NEW y \in S PROVE x <= y
    OBVIOUS
  <2>1. y + b \in U
    OBVIOUS
  <2> QED BY <1>2, <1>3, <2>1
<1> QED BY <1>4 DEF Least

-----------------------------------------------------------------------------
(* Sequences: a change of the top, a push, a pop. *)

LEMMA PopFacts ==
  ASSUME NEW S, NEW s \in Seq(S), Len(s) >= 1
  PROVE  /\ SubSeq(s, 1, Len(s) - 1) \in Seq(S)
         /\ Len(SubSeq(s, 1, Len(s) - 1)) = Len(s) - 1
         /\ \A i \in 1..Len(s) - 1 : SubSeq(s, 1, Len(s) - 1)[i] = s[i]
<1>1. Len(s) \in Nat /\ \A i \in 1..Len(s) : s[i] \in S
  OBVIOUS
<1>2. Len(s) - 1 \in Int /\ \A i \in 1..Len(s) - 1 : s[i] \in S
  BY <1>1
<1>3. /\ SubSeq(s, 1, Len(s) - 1) \in Seq(S)
      /\ Len(SubSeq(s, 1, Len(s) - 1)) = IF 1 <= Len(s) - 1 THEN Len(s) - 1 - 1 + 1 ELSE 0
      /\ \A i \in 1..Len(s) - 1 - 1 + 1 : SubSeq(s, 1, Len(s) - 1)[i] = s[1 + i - 1]
  BY <1>2, SubSeqProperties
<1>4. Len(s) - 1 - 1 + 1 = Len(s) - 1 /\ \A i \in Nat : 1 + i - 1 = i
  BY <1>1
<1> QED BY <1>1, <1>3, <1>4

LEMMA TopFacts ==
  ASSUME NEW S, NEW s \in Seq(S), Len(s) >= 1, NEW f \in S
  PROVE  LET z == Append(SubSeq(s, 1, Len(s) - 1), f)
         IN  /\ z \in Seq(S) /\ Len(z) = Len(s)
             /\ \A i \in 1..Len(s) - 1 : z[i] = s[i]
             /\ z[Len(s)] = f
<1> DEFINE b == SubSeq(s, 1, Len(s) - 1)
<1>1. /\ b \in Seq(S) /\ Len(b) = Len(s) - 1
      /\ \A i \in 1..Len(s) - 1 : b[i] = s[i]
  BY PopFacts
<1> HIDE DEF b
<1>2. /\ Append(b, f) \in Seq(S) /\ Len(Append(b, f)) = Len(b) + 1
      /\ \A i \in 1..Len(b) : Append(b, f)[i] = b[i]
      /\ Append(b, f)[Len(b) + 1] = f
  BY <1>1, AppendProperties
<1>3. /\ Append(b, f) \in Seq(S) /\ Len(Append(b, f)) = Len(s)
      /\ \A i \in 1..Len(s) - 1 : Append(b, f)[i] = s[i]
      /\ Append(b, f)[Len(s)] = f
  BY <1>1, <1>2
<1> QED BY <1>3 DEF b

LEMMA PushFacts ==
  ASSUME NEW S, NEW s \in Seq(S), NEW f \in S
  PROVE  /\ Append(s, f) \in Seq(S) /\ Len(Append(s, f)) = Len(s) + 1
         /\ \A i \in 1..Len(s) : Append(s, f)[i] = s[i]
         /\ Append(s, f)[Len(s) + 1] = f
  BY AppendProperties

-----------------------------------------------------------------------------
(* Frames and timers. *)

LEMMA FrameFacts ==
  ASSUME NEW f \in Frames
  PROVE  /\ f.at \in {"pass", "call", "wait", "handlers"}
         /\ f.at = "pass" => f.tv \in 0..MaxTime /\ f.cur \in -1..MaxTimers
                             /\ f.again \in BOOLEAN
         /\ f.at = "call" => f.t \in Timers /\ f.calls \in 0..MaxCalls
         /\ f.at = "wait" => f.tv \in 0..MaxTime /\ f.left \in 0..Milli
  BY DEF Frames

LEMMA CalledFacts ==
  ASSUME NEW f \in Frames, f.at = "call", f.calls > 0
  PROVE  LET g == [f EXCEPT !.calls = @ - 1]
         IN  g \in Frames /\ g.at = "call" /\ g.t = f.t
<1>1. f \in [at : {"call"}, t : Timers, calls : 0..MaxCalls]
  BY DEF Frames
<1>2. f.calls - 1 \in 0..MaxCalls
  BY <1>1, BoundsAssumption
<1> QED BY <1>1, <1>2 DEF Frames

LEMMA PassFacts ==
  ASSUME NEW f \in Frames, f.at = "pass", NEW c \in -1..MaxTimers
  PROVE  /\ [f EXCEPT !.cur = c] \in Frames
         /\ [f EXCEPT !.cur = c].at = "pass"
         /\ [f EXCEPT !.cur = c].tv = f.tv
         /\ [f EXCEPT !.cur = c].cur = c
         /\ [f EXCEPT !.cur = c].again = f.again
<1>1. f \in [at : {"pass"}, tv : 0..MaxTime, cur : -1..MaxTimers, again : BOOLEAN]
  BY DEF Frames
<1> QED BY <1>1 DEF Frames

LEMMA TimerFacts ==
  ASSUME NEW tm, NEW nw, NEW s, Typed(tm, nw, s), NEW t \in Timers
  PROVE  /\ tm[t].state \in {"unused", "live", "freed"}
         /\ tm[t].persist \in BOOLEAN /\ tm[t].started \in BOOLEAN
         /\ tm[t].at \in BOOLEAN
         /\ tm[t].period \in Nat /\ tm[t].ends \in Nat /\ tm[t].asked \in Nat
         /\ tm[t].every \in Nat /\ tm[t].since \in Nat
  BY DEF Typed, Struct

LEMMA ClearTimer ==
  ASSUME NEW state \in {"unused", "freed"}
  PROVE  NoTimer(state) \in Struct(NoTimer(state).name) /\ NoTimer(state).state = state
  BY DEF NoTimer, Struct

-----------------------------------------------------------------------------
(* Steps of the clock and of a callback's budget. *)

\* z differs from s only in what a callback may still do.
Alike(s, z) ==
  /\ z \in Seq(Frames) /\ Len(z) = Len(s)
  /\ \A i \in 1..Len(s) - 1 : z[i] = s[i]
  /\ \/ z[Len(s)] = s[Len(s)]
     \/ s[Len(s)].at = "call" /\ z[Len(s)].at = "call" /\ z[Len(s)].t = s[Len(s)].t

LEMMA AlikeGood ==
  ASSUME NEW tm, NEW nw, NEW s, NEW z, Good(tm, nw, s), Alike(s, z)
  PROVE  Good(tm, nw, z)
<1>1. Len(s) \in Nat /\ Len(s) >= 1 /\ s \in Seq(Frames)
      /\ Len(z) = Len(s) /\ z \in Seq(Frames)
  BY DEF Good, Typed, Alike
<1>2. \A i \in 1..Len(s) : /\ z[i].at = s[i].at
                           /\ s[i].at # "call" => z[i] = s[i]
                           /\ s[i].at = "call" => z[i].t = s[i].t
  <2> SUFFICES ASSUME NEW i \in 1..Len(s)
               PROVE  /\ z[i].at = s[i].at
                      /\ s[i].at # "call" => z[i] = s[i]
                      /\ s[i].at = "call" => z[i].t = s[i].t
    OBVIOUS
  <2>1. CASE i = Len(s)
    BY <2>1 DEF Alike
  <2>2. CASE i # Len(s)
    BY <1>1, <2>2 DEF Alike
  <2> QED BY <2>1, <2>2
<1>3. Typed(tm, nw, z)
  BY <1>1 DEF Good, Typed
<1>4. Nested(tm, z)
  <2>1. z[1].at # "call"
    BY <1>1, <1>2 DEF Good, Nested
  <2>2. ASSUME NEW i \in 1..Len(z), z[i].at = "call"
        PROVE  /\ i > 1 /\ z[i - 1].at = "pass" /\ z[i - 1].cur = z[i].t
               /\ IsLive(tm, z[i].t)
               /\ z[i - 1].again = tm[z[i].t].persist
               /\ i < Len(z) => tm[z[i].t].persist
    BY <1>1, <1>2, <2>2 DEF Good, Nested
  <2>3. ASSUME NEW i \in 1..Len(z) - 1
        PROVE  z[i].at # "wait" /\ (z[i].at = "pass" => z[i + 1].at = "call")
    BY <1>1, <1>2, <2>3 DEF Good, Nested
  <2> QED BY <2>1, <2>2, <2>3 DEF Nested
<1>5. Standing(tm, z)
  BY <1>1, <1>2 DEF Good, Standing
<1>6. Clocks(nw, z)
  <2> SUFFICES ASSUME NEW i \in 1..Len(z), HasTv(z[i]),
                      NEW j \in 1..i, HasTv(z[j])
               PROVE  z[i].tv <= nw /\ z[j].tv <= z[i].tv
    BY DEF Clocks
  <2>1. j \in 1..Len(s) /\ i \in 1..Len(s)
    BY <1>1
  <2>2. z[i] = s[i] /\ z[j] = s[j]
    BY <1>2, <2>1 DEF HasTv
  <2> QED BY <2>1, <2>2 DEF Good, Clocks
<1>7. Behind(tm, z)
  BY <1>1, <1>2 DEF Good, Behind
<1>8. Sleep(tm, z) /\ Once(tm, z)
  BY <1>1, <1>2 DEF Good, Sleep, Once
<1> QED BY <1>3, <1>4, <1>5, <1>6, <1>7, <1>8 DEF Good

LEMMA LaterGood ==
  ASSUME NEW tm, NEW nw, NEW s, Good(tm, nw, s), NEW d \in Nat, nw + d <= MaxTime
  PROVE  Good(tm, nw + d, s)
<1>1. nw \in Nat /\ nw + d \in 0..MaxTime /\ nw <= nw + d
  BY TimersAssumption DEF Good, Typed
<1>2. s \in Seq(Frames) /\ \A i \in 1..Len(s) : HasTv(s[i]) => s[i].tv \in Nat
  BY FrameFacts, TimersAssumption DEF Good, Typed, HasTv
<1>3. Typed(tm, nw + d, s)
  BY <1>1 DEF Good, Typed
<1>4. Clocks(nw + d, s)
  BY <1>1, <1>2 DEF Good, Clocks
<1> QED BY <1>3, <1>4 DEF Good

-----------------------------------------------------------------------------
(* Commands. *)

LEMMA AddGood ==
  ASSUME NEW tm, NEW nw, NEW s, Good(tm, nw, s), s[Len(s)].at # "wait",
         NEW t \in Timers, tm[t].state = "unused",
         \A u \in Timers : u < t => tm[u].state # "unused",
         NEW r, r \in Struct(r.name), r.state = "live", ~r.started,
         NoWrap => r.period = r.every /\ r.ends >= r.since + r.asked
  PROVE  Good([tm EXCEPT ![t] = r], nw, s)
<1> DEFINE m == [tm EXCEPT ![t] = r]
<1>1. DOMAIN m = Timers /\ m[t] = r /\ \A u \in Timers : u # t => m[u] = tm[u]
  BY DEF Good, Typed
<1>2. m = [u \in Timers |-> m[u]]
  BY DEF Good, Typed
<1> HIDE DEF m
<1>3. Len(s) \in Nat /\ Len(s) >= 1 /\ s \in Seq(Frames)
  BY DEF Good, Typed
<1>4. \A u : IsLive(m, u) => u = t \/ (IsLive(tm, u) /\ m[u] = tm[u])
  BY <1>1 DEF IsLive
<1>5. \A u : IsLive(tm, u) => IsLive(m, u) /\ m[u] = tm[u] /\ u < t
  <2> SUFFICES ASSUME NEW u, IsLive(tm, u) PROVE IsLive(m, u) /\ m[u] = tm[u] /\ u < t
    OBVIOUS
  <2>1. u \in Timers /\ u # t /\ ~(t < u)
    BY DEF IsLive, Good, Appending
  <2> QED BY <1>1, <2>1, TimersAssumption DEF IsLive, Timers
<1>6. Typed(m, nw, s)
  BY <1>1, <1>2 DEF Good, Typed
<1>7. Appending(m)
  BY <1>1 DEF Good, Appending
<1>8. Nested(m, s)
  BY <1>3, <1>5 DEF Good, Nested
<1>9. Standing(m, s)
  BY <1>3, <1>5 DEF Good, Standing
<1>10. Clocks(nw, s)
  BY DEF Good
<1>11. Behind(m, s)
  <2> SUFFICES ASSUME NEW i \in 1..Len(s), s[i].at = "pass",
                      NEW u \in Timers, IsLive(m, u)
               PROVE  /\ u < s[i].cur => Served(m[u], s[i].tv)
                      /\ u = s[i].cur =>
                           Served(m[u], s[i].tv) \/ (i < Len(s) /\ ~m[u].persist)
    BY DEF Behind
  <2>1. s[i].cur = 0 \/ IsLive(tm, s[i].cur)
    BY DEF Good, Standing
  <2>2. CASE u = t
    BY <1>5, <2>1, <2>2, TimersAssumption DEF Timers, IsLive
  <2>3. CASE u # t
    BY <1>4, <2>3 DEF Good, Behind
  <2> QED BY <2>2, <2>3
<1>12. Sleep(m, s)
  BY DEF Sleep
<1>13. Once(m, s)
  BY <1>1, <1>4 DEF Good, Once
<1>14. Asked(m)
  BY <1>1, <1>4 DEF Good, Asked
<1> QED BY <1>6, <1>7, <1>8, <1>9, <1>10, <1>11, <1>12, <1>13, <1>14 DEF Good, m

LEMMA RemoveGood ==
  ASSUME NEW tm, NEW nw, NEW s, Good(tm, nw, s), s[Len(s)].at \notin {"wait", "pass"},
         NEW ts, \A t \in ts : IsLive(tm, t),
         \A i \in 1..Len(s) : s[i].at = "call" => s[i].t \notin ts
  PROVE  Good([t \in Timers |-> IF t \in ts THEN NoTimer("freed") ELSE tm[t]], nw, s)
<1> DEFINE m == [t \in Timers |-> IF t \in ts THEN NoTimer("freed") ELSE tm[t]]
<1>1. /\ DOMAIN m = Timers /\ m = [u \in Timers |-> m[u]]
      /\ \A u \in Timers : (u \in ts => m[u] = NoTimer("freed")) /\ (u \notin ts => m[u] = tm[u])
  OBVIOUS
<1> HIDE DEF m
<1>2. NoTimer("freed").state = "freed" /\ NoTimer("freed") \in Struct(NoTimer("freed").name)
  BY ClearTimer
<1>3. Len(s) \in Nat /\ Len(s) >= 1 /\ s \in Seq(Frames)
  BY DEF Good, Typed
<1>4. \A u : IsLive(m, u) <=> IsLive(tm, u) /\ u \notin ts
  BY <1>1, <1>2 DEF IsLive
<1>5. \A u : IsLive(m, u) => m[u] = tm[u]
  BY <1>1, <1>4 DEF IsLive
<1>6. Typed(m, nw, s)
  <2>1. ASSUME NEW u \in Timers PROVE m[u] \in Struct(m[u].name)
    BY <1>1, <1>2 DEF Good, Typed
  <2> QED BY <1>1, <2>1 DEF Good, Typed
<1>7. Appending(m)
  <2> SUFFICES ASSUME NEW t \in Timers, NEW u \in Timers, t < u, m[t].state = "unused"
               PROVE  m[u].state = "unused"
    BY DEF Appending
  <2>1. t \notin ts /\ tm[t].state = "unused"
    BY <1>1, <1>2
  <2>2. tm[u].state = "unused"
    BY <2>1 DEF Good, Appending
  <2> QED BY <1>1, <2>2 DEF IsLive
<1>8. Nested(m, s)
  BY <1>3, <1>4, <1>5 DEF Good, Nested
<1>9. Standing(m, s)
  <2> SUFFICES ASSUME NEW i \in 1..Len(s), s[i].at = "pass", s[i].cur # 0
               PROVE  IsLive(m, s[i].cur)
    BY DEF Standing
  <2>1. i \in 1..Len(s) - 1 /\ i + 1 \in 1..Len(s) /\ (i + 1) - 1 = i
    BY <1>3
  <2>2. s[i + 1].at = "call" /\ s[i + 1].t = s[i].cur
    BY <2>1 DEF Good, Nested
  <2> QED BY <1>4, <2>1, <2>2 DEF Good, Standing
<1>10. Clocks(nw, s)
  BY DEF Good
<1>11. Behind(m, s)
  BY <1>4, <1>5 DEF Good, Behind
<1>12. Sleep(m, s)
  BY DEF Sleep
<1>13. Once(m, s)
  BY <1>4, <1>5 DEF Good, Once
<1>14. Asked(m)
  BY <1>4, <1>5 DEF Good, Asked
<1> QED BY <1>6, <1>7, <1>8, <1>9, <1>10, <1>11, <1>12, <1>13, <1>14 DEF Good, m

LEMMA PushPassGood ==
  ASSUME NEW tm, NEW nw, NEW s, Good(tm, nw, s),
         \/ s[Len(s)].at = "handlers"
         \/ s[Len(s)].at = "call" /\ tm[s[Len(s)].t].persist
  PROVE  Good(tm, nw, Append(s, NewPass(nw)))
<1> DEFINE f == NewPass(nw)
           z == Append(s, f)
<1>1. Len(s) \in Nat /\ Len(s) >= 1 /\ s \in Seq(Frames) /\ nw \in 0..MaxTime
  BY DEF Good, Typed
<1>2. f \in Frames /\ f.at = "pass" /\ f.cur = 0 /\ f.tv = nw
  BY <1>1, TimersAssumption DEF NewPass, Frames
<1> HIDE DEF f
<1>3. /\ z \in Seq(Frames) /\ Len(z) = Len(s) + 1
      /\ \A i \in 1..Len(s) : z[i] = s[i]
      /\ z[Len(s) + 1] = f
  BY <1>1, <1>2, PushFacts
<1> HIDE DEF z
<1>4. \A i \in 1..Len(z) : i \in 1..Len(s) \/ (i = Len(z) /\ z[i] = f)
  BY <1>1, <1>3
<1>5. Typed(tm, nw, z)
  BY <1>1, <1>3 DEF Good, Typed
<1>6. Nested(tm, z)
  <2>1. z[1].at # "call"
    BY <1>1, <1>3 DEF Good, Nested
  <2>2. ASSUME NEW i \in 1..Len(z), z[i].at = "call"
        PROVE  /\ i > 1 /\ z[i - 1].at = "pass" /\ z[i - 1].cur = z[i].t
               /\ IsLive(tm, z[i].t)
               /\ z[i - 1].again = tm[z[i].t].persist
               /\ i < Len(z) => tm[z[i].t].persist
    <3>1. i \in 1..Len(s) /\ z[i] = s[i]
      BY <1>2, <1>3, <1>4, <2>2
    <3>2. i > 1 /\ i - 1 \in 1..Len(s) /\ z[i - 1] = s[i - 1]
      BY <1>1, <1>3, <2>2, <3>1 DEF Good, Nested
    <3> QED BY <2>2, <3>1, <3>2 DEF Good, Nested
  <2>3. ASSUME NEW i \in 1..Len(z) - 1
        PROVE  z[i].at # "wait" /\ (z[i].at = "pass" => z[i + 1].at = "call")
    <3>1. i \in 1..Len(s) /\ z[i] = s[i]
      BY <1>1, <1>3
    <3>2. CASE i = Len(s)
      BY <3>1, <3>2
    <3>3. CASE i # Len(s)
      BY <1>1, <1>3, <3>1, <3>3 DEF Good, Nested
    <3> QED BY <3>2, <3>3
  <2> QED BY <2>1, <2>2, <2>3 DEF Nested
<1>7. Standing(tm, z)
  BY <1>2, <1>3, <1>4 DEF Good, Standing
<1>8. Clocks(nw, z)
  <2> SUFFICES ASSUME NEW i \in 1..Len(z), HasTv(z[i]),
                      NEW j \in 1..i, HasTv(z[j])
               PROVE  z[i].tv <= nw /\ z[j].tv <= z[i].tv
    BY DEF Clocks
  <2>1. \A k \in 1..Len(s) : HasTv(s[k]) => s[k].tv <= nw
    BY DEF Good, Clocks
  <2>2. CASE i \in 1..Len(s)
    <3>1. j \in 1..Len(s) /\ z[i] = s[i] /\ z[j] = s[j]
      BY <1>1, <1>3, <2>2
    <3> QED BY <2>2, <3>1 DEF Good, Clocks
  <2>3. CASE i = Len(z) /\ z[i] = f
    <3>1. j \in 1..Len(s) \/ z[j] = f
      BY <1>1, <1>4, <2>3
    <3> QED BY <1>1, <1>2, <1>3, <2>1, <2>3, <3>1
  <2> QED BY <1>4, <2>2, <2>3
<1>9. Behind(tm, z)
  <2> SUFFICES ASSUME NEW i \in 1..Len(z), z[i].at = "pass",
                      NEW u \in Timers, IsLive(tm, u)
               PROVE  /\ u < z[i].cur => Served(tm[u], z[i].tv)
                      /\ u = z[i].cur =>
                           Served(tm[u], z[i].tv) \/ (i < Len(z) /\ ~tm[u].persist)
    BY DEF Behind
  <2>1. CASE i \in 1..Len(s)
    BY <1>1, <1>3, <2>1 DEF Good, Behind
  <2>2. CASE z[i] = f
    BY <1>2, <2>2, TimersAssumption DEF Timers
  <2> QED BY <1>4, <2>1, <2>2
<1>10. Sleep(tm, z)
  BY <1>2, <1>3 DEF Sleep
<1>11. Once(tm, z)
  BY <1>1 DEF Good, Once
<1> QED BY <1>5, <1>6, <1>7, <1>8, <1>9, <1>10, <1>11 DEF Good, z, f

-----------------------------------------------------------------------------
(* ekg_loop().                                                             *)

LEMMA FollowingFacts ==
  ASSUME NEW c \in Nat, NEW t \in Following(c)
  PROVE  /\ IsLive(timer, t) /\ t > c
         /\ \A u \in Timers : IsLive(timer, u) => u <= c \/ t <= u
<1> SUFFICES ASSUME NEW u \in Timers, IsLive(timer, u), ~(u <= c)
             PROVE  t <= u
  BY DEF Following, Live, IsLive
<1> QED BY TimersAssumption DEF Following, Live, IsLive, Timers

LEMMA NoneFollowing ==
  ASSUME NEW c \in Nat, Following(c) = {}
  PROVE  \A u \in Timers : IsLive(timer, u) => u <= c
<1> SUFFICES ASSUME NEW v \in Timers, IsLive(timer, v), v > c
             PROVE  FALSE
  BY TimersAssumption DEF Timers
<1> DEFINE S == {u \in Live : u > c}
<1>1. S \in SUBSET Nat /\ v \in S
  BY TimersAssumption DEF Live, IsLive, Timers
<1>2. PICK x \in S : \A y \in S : x <= y
  BY <1>1, SmallestOf
<1>3. x \in Following(c)
  BY <1>2 DEF Following
<1> QED BY <1>3

LEMMA PrecedingFacts ==
  ASSUME NEW t \in Timers
  PROVE  /\ Preceding(t) \in {0} \cup Live /\ Preceding(t) < t
         /\ \A u \in Timers : IsLive(timer, u) /\ u < t => u <= Preceding(t)
<1> DEFINE L == {0} \cup Live
           S == {MaxTimers - u : u \in {w \in L : w < t}}
<1>1. L \subseteq 0..MaxTimers /\ t \in 1..MaxTimers /\ MaxTimers \in Nat
  BY TimersAssumption DEF Live, Timers
<1>2. S \in SUBSET Nat /\ MaxTimers - 0 \in S
  <2>1. \A u \in L : MaxTimers - u \in Nat
    BY <1>1
  <2>2. 0 \in {w \in L : w < t}
    BY <1>1
  <2> QED BY <2>1, <2>2
<1>3. PICK x \in S : \A y \in S : x <= y
  BY <1>2, SmallestOf
<1>4. PICK p \in {w \in L : w < t} : x = MaxTimers - p
  OBVIOUS
<1>5. \A u \in Live : u < t => u <= p
  <2> SUFFICES ASSUME NEW u \in Live, u < t PROVE u <= p
    OBVIOUS
  <2>1. MaxTimers - u \in S
    OBVIOUS
  <2>2. MaxTimers - p <= MaxTimers - u
    BY <1>3, <1>4, <2>1
  <2> QED BY <1>1, <1>4, <2>2
<1>6. \E q \in {0} \cup Live : q < t /\ \A u \in Live : u < t => u <= q
  BY <1>4, <1>5
<1>7. Preceding(t) \in {0} \cup Live /\ Preceding(t) < t
      /\ \A u \in Live : u < t => u <= Preceding(t)
  BY <1>6 DEF Preceding
<1> QED BY <1>7 DEF IsLive, Live

\* What a change of the innermost loop has to keep.
LEMMA TopGood ==
  ASSUME NEW tm, NEW nw, NEW s, NEW z, Good(tm, nw, s), s[Len(s)].at # "call",
         z \in Seq(Frames), Len(z) = Len(s), \A i \in 1..Len(s) - 1 : z[i] = s[i],
         NEW f, z[Len(s)] = f,
         f.at # "call",
         f.at = "pass" => f.cur = 0 \/ IsLive(tm, f.cur),
         HasTv(f) => HasTv(s[Len(s)]) /\ f.tv = s[Len(s)].tv,
         f.at = "pass" => \A t \in Timers : IsLive(tm, t) /\ t <= f.cur => Served(tm[t], f.tv),
         f.at = "wait" => \A t \in Timers : IsLive(tm, t) => f.tv + f.left <= tm[t].ends
  PROVE  Good(tm, nw, z)
<1>1. Len(s) \in Nat /\ Len(s) >= 1 /\ s \in Seq(Frames)
  BY DEF Good, Typed
<1>2. \A i \in 1..Len(s) : i \in 1..Len(s) - 1 \/ i = Len(s)
  BY <1>1
<1>3. Typed(tm, nw, z)
  BY <1>1 DEF Good, Typed
<1>4. Nested(tm, z)
  <2>1. z[1].at # "call"
    BY <1>1 DEF Good, Nested
  <2>2. ASSUME NEW i \in 1..Len(z), z[i].at = "call"
        PROVE  /\ i > 1 /\ z[i - 1].at = "pass" /\ z[i - 1].cur = z[i].t
               /\ IsLive(tm, z[i].t)
               /\ z[i - 1].again = tm[z[i].t].persist
               /\ i < Len(z) => tm[z[i].t].persist
    <3>1. i \in 1..Len(s) - 1 /\ z[i] = s[i] /\ s[i].at = "call"
      BY <1>1, <1>2, <2>2
    <3>2. i > 1 /\ i - 1 \in 1..Len(s) - 1 /\ z[i - 1] = s[i - 1] /\ i < Len(s)
      BY <1>1, <3>1 DEF Good, Nested
    <3> QED BY <3>1, <3>2 DEF Good, Nested
  <2>3. ASSUME NEW i \in 1..Len(z) - 1
        PROVE  z[i].at # "wait" /\ (z[i].at = "pass" => z[i + 1].at = "call")
    <3>1. z[i] = s[i] /\ i + 1 \in 1..Len(s)
      BY <1>1
    <3>2. s[i].at # "wait" /\ (s[i].at = "pass" => s[i + 1].at = "call")
      BY DEF Good, Nested
    <3>3. CASE i + 1 = Len(s)
      BY <3>1, <3>2, <3>3
    <3>4. CASE i + 1 # Len(s)
      BY <1>1, <3>1, <3>2, <3>4
    <3> QED BY <3>3, <3>4
  <2> QED BY <2>1, <2>2, <2>3 DEF Nested
<1>5. Standing(tm, z)
  BY <1>1, <1>2 DEF Good, Standing
<1>6. Clocks(nw, z)
  <2>1. \A i \in 1..Len(s) : HasTv(z[i]) => HasTv(s[i]) /\ z[i].tv = s[i].tv
    BY <1>1, <1>2
  <2> SUFFICES ASSUME NEW i \in 1..Len(z), HasTv(z[i]),
                      NEW j \in 1..i, HasTv(z[j])
               PROVE  z[i].tv <= nw /\ z[j].tv <= z[i].tv
    BY DEF Clocks
  <2>2. j \in 1..Len(s) /\ i \in 1..Len(s)
    BY <1>1
  <2> QED BY <2>1, <2>2 DEF Good, Clocks
<1>7. Behind(tm, z)
  <2> SUFFICES ASSUME NEW i \in 1..Len(z), z[i].at = "pass",
                      NEW u \in Timers, IsLive(tm, u)
               PROVE  /\ u < z[i].cur => Served(tm[u], z[i].tv)
                      /\ u = z[i].cur =>
                           Served(tm[u], z[i].tv) \/ (i < Len(z) /\ ~tm[u].persist)
    BY DEF Behind
  <2>1. CASE i \in 1..Len(s) - 1
    BY <1>1, <2>1 DEF Good, Behind
  <2>2. CASE i = Len(s)
    <3>1. u \in Nat /\ f.cur \in Int
      BY <2>2, TimersAssumption DEF Timers, IsLive
    <3> QED BY <2>2, <3>1
  <2> QED BY <1>2, <2>1, <2>2
<1>8. Sleep(tm, z)
  BY DEF Sleep
<1>9. Once(tm, z)
  BY DEF Good, Once
<1> QED BY <1>3, <1>4, <1>5, <1>6, <1>7, <1>8, <1>9 DEF Good

LEMMA PopGood ==
  ASSUME NEW tm, NEW nw, NEW s, Good(tm, nw, s), s[Len(s)].at = "handlers", Len(s) > 1
  PROVE  Good(tm, nw, SubSeq(s, 1, Len(s) - 1))
<1> DEFINE z == SubSeq(s, 1, Len(s) - 1)
<1>1. Len(s) \in Nat /\ Len(s) >= 2 /\ s \in Seq(Frames)
  BY DEF Good, Typed
<1>2. z \in Seq(Frames) /\ Len(z) = Len(s) - 1 /\ \A i \in 1..Len(s) - 1 : z[i] = s[i]
  BY <1>1, PopFacts
<1> HIDE DEF z
<1>3. z[Len(z)].at \notin {"pass", "wait"}
  <2>1. Len(s) - 1 \in 1..Len(s) - 1 /\ (Len(s) - 1) + 1 = Len(s)
    BY <1>1
  <2> QED BY <1>2, <2>1 DEF Good, Nested
<1>4. Typed(tm, nw, z)
  BY <1>1, <1>2 DEF Good, Typed
<1>5. Nested(tm, z)
  <2>1. 1 \in 1..Len(s) - 1 /\ z[1].at # "call"
    BY <1>1, <1>2 DEF Good, Nested
  <2>2. ASSUME NEW i \in 1..Len(z), z[i].at = "call"
        PROVE  /\ i > 1 /\ z[i - 1].at = "pass" /\ z[i - 1].cur = z[i].t
               /\ IsLive(tm, z[i].t)
               /\ z[i - 1].again = tm[z[i].t].persist
               /\ i < Len(z) => tm[z[i].t].persist
    <3>1. i \in 1..Len(s) /\ i < Len(s) /\ z[i] = s[i] /\ (i > 1 => z[i - 1] = s[i - 1])
      BY <1>1, <1>2
    <3> QED BY <2>2, <3>1 DEF Good, Nested
  <2>3. ASSUME NEW i \in 1..Len(z) - 1
        PROVE  z[i].at # "wait" /\ (z[i].at = "pass" => z[i + 1].at = "call")
    <3>1. i \in 1..Len(s) - 1 /\ z[i] = s[i] /\ z[i + 1] = s[i + 1]
      BY <1>1, <1>2
    <3> QED BY <3>1 DEF Good, Nested
  <2> QED BY <2>1, <2>2, <2>3 DEF Nested
<1>6. Standing(tm, z)
  BY <1>1, <1>2 DEF Good, Standing
<1>7. Clocks(nw, z)
  BY <1>1, <1>2 DEF Good, Clocks
<1>8. Behind(tm, z)
  <2> SUFFICES ASSUME NEW i \in 1..Len(z), z[i].at = "pass",
                      NEW u \in Timers, IsLive(tm, u)
               PROVE  /\ u < z[i].cur => Served(tm[u], z[i].tv)
                      /\ u = z[i].cur =>
                           Served(tm[u], z[i].tv) \/ (i < Len(z) /\ ~tm[u].persist)
    BY DEF Behind
  <2>1. i # Len(z) /\ i \in 1..Len(s) /\ z[i] = s[i]
    BY <1>1, <1>2, <1>3
  <2> QED BY <1>1, <1>2, <2>1 DEF Good, Behind
<1>9. Sleep(tm, z)
  BY <1>3 DEF Sleep
<1>10. Once(tm, z)
  BY DEF Good, Once
<1> QED BY <1>4, <1>5, <1>6, <1>7, <1>8, <1>9, <1>10 DEF Good, z

LEMMA StartGood ==
  ASSUME IInv, NEW t \in Timers, PassStart(t)
  PROVE  IInv'
<1> DEFINE f == stack[Len(stack)]
           g == [f EXCEPT !.cur = t, !.again = timer[t].persist]
           r == [timer[t] EXCEPT !.ends = IF timer[t].persist THEN f.tv + timer[t].period ELSE @,
                                 !.asked = timer[t].every, !.since = f.tv, !.started = TRUE]
<1>1. /\ Len(stack) \in Nat /\ Len(stack) >= 1 /\ stack \in Seq(Frames)
      /\ now \in 0..MaxTime /\ MaxTime \in Nat
  BY TimersAssumption DEF IInv, Good, Typed
<1>2. /\ f \in Frames /\ f.at = "pass" /\ f.tv \in Nat
      /\ f.cur \in Nat /\ t \in Following(f.cur) /\ f.tv >= timer[t].ends
      /\ f.cur = 0 \/ IsLive(timer, f.cur)
  <2>1. f \in Frames /\ f.at = "pass" /\ f.tv >= timer[t].ends
    BY <1>1 DEF PassStart, InPass, Top, Depth, Expired
  <2>2. f.cur = 0 \/ IsLive(timer, f.cur)
    BY <1>1, <2>1 DEF IInv, Good, Standing
  <2> QED BY <1>1, <2>1, <2>2, FrameFacts, TimersAssumption
        DEF PassStart, Top, Depth, IsLive, Timers
<1>3. g \in Frames /\ g.at = "pass" /\ g.tv = f.tv /\ g.cur = t /\ g.again = timer[t].persist
  <2>1. timer[t].persist \in BOOLEAN /\ t \in -1..MaxTimers
    BY TimerFacts, TimersAssumption DEF IInv, Good, Timers
  <2>2. f \in [at : {"pass"}, tv : 0..MaxTime, cur : -1..MaxTimers, again : BOOLEAN]
    BY <1>2 DEF Frames
  <2> HIDE DEF f
  <2> QED BY <2>1, <2>2 DEF Frames
<1>4. CallFrame(t) \in Frames /\ CallFrame(t).at = "call" /\ CallFrame(t).t = t
  BY BoundsAssumption DEF CallFrame, Frames
<1>5. /\ timer' = [timer EXCEPT ![t] = r] /\ now' = now
      /\ stack' = Append(Append(SubSeq(stack, 1, Len(stack) - 1), g), CallFrame(t))
  BY DEF PassStart, Started, OnTop, Below, Top, Depth
<1>6. /\ r \in Struct(r.name) /\ r.state = "live" /\ r.persist = timer[t].persist
      /\ r.period = timer[t].period /\ r.every = timer[t].every
      /\ r.asked = timer[t].every /\ r.since = f.tv /\ r.started
      /\ r.ends = IF timer[t].persist THEN f.tv + timer[t].period ELSE timer[t].ends
  <2>1. timer[t] \in Struct(timer[t].name) /\ timer[t].state = "live"
    BY <1>2, FollowingFacts DEF IInv, Good, Typed, IsLive
  <2>2. f.tv \in Nat
    BY <1>2
  <2>3. /\ timer[t].persist \in BOOLEAN /\ timer[t].period \in Nat
        /\ timer[t].ends \in Nat /\ timer[t].every \in Nat
        /\ (IF timer[t].persist THEN f.tv + timer[t].period ELSE timer[t].ends) \in Nat
    BY <2>1, <2>2 DEF Struct
  <2> HIDE DEF f
  <2> QED BY <2>1, <2>2, <2>3 DEF Struct
<1> HIDE DEF g, r
<1>7. /\ stack' \in Seq(Frames) /\ Len(stack') = Len(stack) + 1
      /\ \A i \in 1..Len(stack) - 1 : stack'[i] = stack[i]
      /\ stack'[Len(stack)] = g
      /\ stack'[Len(stack) + 1] = CallFrame(t)
  <2> DEFINE b == Append(SubSeq(stack, 1, Len(stack) - 1), g)
  <2>1. /\ b \in Seq(Frames) /\ Len(b) = Len(stack)
        /\ \A i \in 1..Len(stack) - 1 : b[i] = stack[i]
        /\ b[Len(stack)] = g
    BY <1>1, <1>3, TopFacts
  <2>2. stack' = Append(b, CallFrame(t))
    BY <1>5
  <2> HIDE DEF b
  <2>3. /\ stack' \in Seq(Frames) /\ Len(stack') = Len(b) + 1
        /\ \A i \in 1..Len(b) : stack'[i] = b[i]
        /\ stack'[Len(b) + 1] = CallFrame(t)
    BY <1>4, <2>1, <2>2, PushFacts
  <2> QED BY <1>1, <2>1, <2>3
<1>8. /\ DOMAIN timer' = Timers /\ timer' = [u \in Timers |-> timer'[u]]
      /\ timer'[t] = r /\ \A u \in Timers : u # t => timer'[u] = timer[u]
  BY <1>5 DEF IInv, Good, Typed
<1> HIDE DEF f
<1>9. IsLive(timer, t) /\ t > f.cur
  BY <1>2, FollowingFacts
<1>10. \A u : IsLive(timer', u) <=> IsLive(timer, u)
  BY <1>6, <1>8, <1>9 DEF IsLive
<1>11. \A u \in Timers : timer'[u].persist = timer[u].persist
  BY <1>6, <1>8
<1>12. \A i \in 1..Len(stack') : i \in 1..Len(stack) - 1 \/ i = Len(stack) \/ i = Len(stack) + 1
  BY <1>1, <1>7
<1>13. Typed(timer', now', stack')
  <2>1. \A u \in Timers : timer'[u] \in Struct(timer'[u].name)
    BY <1>6, <1>8 DEF IInv, Good, Typed
  <2> QED BY <1>1, <1>5, <1>7, <1>8, <2>1 DEF Typed
<1>14. Appending(timer')
  BY <1>6, <1>8, <1>9 DEF IInv, Good, Appending, IsLive
<1>15. Nested(timer', stack')
  <2>1. stack'[1].at # "call"
    BY <1>1, <1>3, <1>7 DEF IInv, Good, Nested
  <2>2. ASSUME NEW i \in 1..Len(stack'), stack'[i].at = "call"
        PROVE  /\ i > 1 /\ stack'[i - 1].at = "pass" /\ stack'[i - 1].cur = stack'[i].t
               /\ IsLive(timer', stack'[i].t)
               /\ stack'[i - 1].again = timer'[stack'[i].t].persist
               /\ i < Len(stack') => timer'[stack'[i].t].persist
    <3>1. CASE i \in 1..Len(stack) - 1
      <4>1. i \in 1..Len(stack) /\ stack[i].at = "call" /\ i < Len(stack)
        BY <1>1, <1>7, <2>2, <3>1
      <4>2. /\ i > 1 /\ stack[i - 1].at = "pass" /\ stack[i - 1].cur = stack[i].t
            /\ IsLive(timer, stack[i].t)
            /\ stack[i - 1].again = timer[stack[i].t].persist
            /\ timer[stack[i].t].persist
        BY <4>1 DEF IInv, Good, Nested
      <4>3. i - 1 \in 1..Len(stack) - 1 /\ stack'[i - 1] = stack[i - 1] /\ stack'[i] = stack[i]
        BY <1>1, <1>7, <3>1, <4>2
      <4> QED BY <1>10, <1>11, <4>2, <4>3 DEF IsLive
    <3>2. CASE i = Len(stack)
      BY <1>3, <1>7, <2>2, <3>2
    <3>3. CASE i = Len(stack) + 1
      BY <1>1, <1>3, <1>4, <1>7, <1>9, <1>10, <1>11, <3>3
    <3> QED BY <1>12, <3>1, <3>2, <3>3
  <2>3. ASSUME NEW i \in 1..Len(stack') - 1
        PROVE  stack'[i].at # "wait" /\ (stack'[i].at = "pass" => stack'[i + 1].at = "call")
    <3>1. CASE i = Len(stack)
      BY <1>3, <1>4, <1>7, <3>1
    <3>2. CASE i \in 1..Len(stack) - 1
      <4>1. stack[i].at # "wait" /\ (stack[i].at = "pass" => stack[i + 1].at = "call")
        BY <3>2 DEF IInv, Good, Nested
      <4>2. CASE i + 1 = Len(stack)
        BY <1>2, <1>7, <3>2, <4>1, <4>2 DEF f
      <4>3. CASE i + 1 # Len(stack)
        BY <1>1, <1>7, <3>2, <4>1, <4>3
      <4> QED BY <4>2, <4>3
    <3> QED BY <1>1, <1>7, <3>1, <3>2
  <2> QED BY <2>1, <2>2, <2>3 DEF Nested
<1>16. Standing(timer', stack')
  <2> SUFFICES ASSUME NEW i \in 1..Len(stack'), stack'[i].at = "pass"
               PROVE  stack'[i].cur = 0 \/ IsLive(timer', stack'[i].cur)
    BY DEF Standing
  <2>1. CASE i \in 1..Len(stack) - 1
    BY <1>1, <1>7, <1>10, <2>1 DEF IInv, Good, Standing
  <2>2. CASE i = Len(stack)
    BY <1>3, <1>7, <1>9, <1>10, <2>2
  <2>3. CASE i = Len(stack) + 1
    BY <1>4, <1>7, <2>3
  <2> QED BY <1>12, <2>1, <2>2, <2>3
<1>17. Clocks(now', stack')
  <2>1. \A i \in 1..Len(stack') : HasTv(stack'[i]) =>
          i \in 1..Len(stack) /\ HasTv(stack[i]) /\ stack'[i].tv = stack[i].tv
    <3> SUFFICES ASSUME NEW i \in 1..Len(stack'), HasTv(stack'[i])
                 PROVE  i \in 1..Len(stack) /\ HasTv(stack[i]) /\ stack'[i].tv = stack[i].tv
      OBVIOUS
    <3>1. CASE i \in 1..Len(stack) - 1
      BY <1>1, <1>7, <3>1
    <3>2. CASE i = Len(stack)
      BY <1>1, <1>2, <1>3, <1>7, <3>2 DEF HasTv, f
    <3>3. CASE i = Len(stack) + 1
      BY <1>4, <1>7, <3>3 DEF HasTv
    <3> QED BY <1>12, <3>1, <3>2, <3>3
  <2> SUFFICES ASSUME NEW i \in 1..Len(stack'), HasTv(stack'[i]),
                      NEW j \in 1..i, HasTv(stack'[j])
               PROVE  stack'[i].tv <= now' /\ stack'[j].tv <= stack'[i].tv
    BY DEF Clocks
  <2>2. j \in 1..Len(stack')
    BY <1>1, <1>7
  <2> QED BY <1>5, <2>1, <2>2 DEF IInv, Good, Clocks
<1>18. \A i \in 1..Len(stack) : HasTv(stack[i]) => stack[i].tv \in Nat /\ stack[i].tv <= f.tv
  BY <1>1, <1>2, FrameFacts DEF IInv, Good, Clocks, HasTv, f
<1>19. \A u \in Timers, tv \in Nat : tv <= f.tv /\ Served(timer[u], tv) => Served(timer'[u], tv)
  <2> SUFFICES ASSUME NEW u \in Timers, NEW tv \in Nat, tv <= f.tv, Served(timer[u], tv)
               PROVE  Served(timer'[u], tv)
    OBVIOUS
  <2>1. timer[u].period \in Nat
    BY TimerFacts DEF IInv, Good
  <2>2. CASE u = t
    BY <1>2, <1>6, <1>8, <2>1, <2>2 DEF Served
  <2>3. CASE u # t
    BY <1>8, <2>3
  <2> QED BY <2>2, <2>3
<1>20. timer[t].persist => Served(timer'[t], f.tv)
  <2>1. timer[t].period \in Nat
    BY TimerFacts DEF IInv, Good
  <2> QED BY <1>2, <1>6, <1>8, <2>1 DEF Served
<1>21. Behind(timer', stack')
  <2> SUFFICES ASSUME NEW i \in 1..Len(stack'), stack'[i].at = "pass",
                      NEW u \in Timers, IsLive(timer', u)
               PROVE  /\ u < stack'[i].cur => Served(timer'[u], stack'[i].tv)
                      /\ u = stack'[i].cur =>
                           \/ Served(timer'[u], stack'[i].tv)
                           \/ i < Len(stack') /\ ~timer'[u].persist
    BY DEF Behind
  <2>1. CASE i \in 1..Len(stack) - 1
    <3>1. /\ i \in 1..Len(stack) /\ stack'[i] = stack[i] /\ i < Len(stack')
          /\ stack[i].tv \in Nat /\ stack[i].tv <= f.tv
      BY <1>1, <1>7, <1>18, <2>1 DEF HasTv
    <3>2. /\ u < stack[i].cur => Served(timer[u], stack[i].tv)
          /\ u = stack[i].cur => Served(timer[u], stack[i].tv) \/ ~timer[u].persist
      BY <1>10, <3>1 DEF IInv, Good, Behind
    <3> QED BY <1>11, <1>19, <3>1, <3>2
  <2>2. CASE i = Len(stack)
    <3>1. u < t => u <= f.cur
      <4>1. u <= f.cur \/ t <= u
        BY <1>2, <1>10, FollowingFacts
      <4> QED BY <1>2, <4>1, TimersAssumption DEF Timers
    <3>2. u <= f.cur => Served(timer[u], f.tv)
      <4>1. /\ u < f.cur => Served(timer[u], f.tv)
            /\ u = f.cur => Served(timer[u], f.tv) \/ Len(stack) < Len(stack)
        BY <1>1, <1>2, <1>10 DEF IInv, Good, Behind, f
      <4> QED BY <1>1, <1>2, <4>1, TimersAssumption DEF Timers
    <3> QED BY <1>1, <1>2, <1>3, <1>7, <1>11, <1>19, <1>20, <2>2, <3>1, <3>2
  <2>3. CASE i = Len(stack) + 1
    BY <1>4, <1>7, <2>3
  <2> QED BY <1>12, <2>1, <2>2, <2>3
<1>22. Sleep(timer', stack')
  BY <1>4, <1>7 DEF Sleep
<1>23. Once(timer', stack')
  <2> SUFFICES ASSUME NEW u \in Timers, IsLive(timer', u), timer'[u].started, ~timer'[u].persist
               PROVE  stack'[Len(stack')].at = "call" /\ stack'[Len(stack')].t = u
    BY DEF Once
  <2>1. u = t
    BY <1>2, <1>8, <1>10 DEF IInv, Good, Once, f
  <2> QED BY <1>4, <1>7, <2>1
<1>24. Asked(timer')
  <2> SUFFICES ASSUME NoWrap, NEW u \in Timers, IsLive(timer', u)
               PROVE  /\ timer'[u].period = timer'[u].every
                      /\ \/ timer'[u].started /\ ~timer'[u].persist
                         \/ timer'[u].ends >= timer'[u].since + timer'[u].asked
    BY DEF Asked
  <2>1. timer[u].period \in Nat /\ timer[u].period = timer[u].every
    BY <1>10, TimerFacts DEF IInv, Good, Asked
  <2>2. CASE u = t
    BY <1>2, <1>6, <1>8, <2>1, <2>2
  <2>3. CASE u # t
    BY <1>8, <1>10, <2>3 DEF IInv, Good, Asked
  <2> QED BY <2>2, <2>3
<1> QED BY <1>13, <1>14, <1>15, <1>16, <1>17, <1>21, <1>22, <1>23, <1>24 DEF IInv, Good

LEMMA ReturnGood ==
  ASSUME IInv, NEW res \in {-1, 0}, CallReturn(res)
  PROVE  IInv'
<1> DEFINE t == stack[Len(stack)].t
           loop == stack[Len(stack) - 1]
           gone == Gone(res, loop.again)
           c == IF gone THEN Resume(t) ELSE t
           g == [loop EXCEPT !.cur = c]
           z == Append(SubSeq(stack, 1, Len(stack) - 2), g)
           m == [u \in Timers |-> IF u \in (IF gone THEN Live \cap {t} ELSE {})
                                  THEN NoTimer("freed") ELSE timer[u]]
<1>1. /\ Len(stack) \in Nat /\ Len(stack) >= 1 /\ stack \in Seq(Frames)
      /\ now \in 0..MaxTime /\ MaxTime \in Nat
  BY TimersAssumption DEF IInv, Good, Typed
<1>2. stack[Len(stack)].at = "call" /\ Len(stack) \in 1..Len(stack)
  BY <1>1 DEF CallReturn, Top, Depth
<1>3. /\ Len(stack) > 1 /\ loop.at = "pass" /\ loop.cur = t
      /\ IsLive(timer, t) /\ loop.again = timer[t].persist
  BY <1>2 DEF IInv, Good, Nested
<1>4. /\ t \in Timers /\ loop \in Frames /\ loop.tv \in Nat /\ t \in Nat
      /\ loop.again \in BOOLEAN
  BY <1>1, <1>3, FrameFacts, TimersAssumption DEF IsLive, Timers
<1>5. stack' = z /\ timer' = m
  BY DEF CallReturn, TimersRemove, Top, Depth
<1>6. PICK d \in 0..Slow : now + d <= MaxTime /\ now' = now + d
  BY DEF CallReturn
<1>7. gone => \A i \in 1..Len(stack) - 1 : stack[i].at = "call" => stack[i].t # t
  <2>1. CASE res = -1
    <3>1. Calls(t) = {Len(stack)}
      BY <2>1 DEF CallReturn, Top, Depth
    <3>2. \A i \in 1..Len(stack) : (stack[i].at = "call" /\ stack[i].t = t) => i \in Calls(t)
      BY DEF Calls, Depth
    <3> QED BY <1>1, <3>1, <3>2
  <2>2. CASE res = 0
    <3>1. gone => ~timer[t].persist
      BY <1>3, <1>4, <2>2 DEF Gone
    <3>2. \A i \in 1..Len(stack) - 1 : stack[i].at = "call" => timer[stack[i].t].persist
      BY <1>1 DEF IInv, Good, Nested
    <3> QED BY <3>1, <3>2
  <2> QED BY <2>1, <2>2
<1>8. ~gone => timer[t].persist
  BY <1>3, <1>4 DEF Gone
<1>9. /\ c \in Nat /\ c <= MaxTimers /\ c <= t
      /\ ~gone => c = t
      /\ gone => /\ c = 0 \/ (IsLive(timer, c) /\ c # t)
                 /\ c < t
  <2>1. MaxTimers \in Nat /\ t <= MaxTimers
    BY <1>4, TimersAssumption DEF Timers
  <2>2. CASE gone
    <3>1. c = Preceding(t)
      BY <1>3, <2>2 DEF Resume, Live, IsLive
    <3>2. Preceding(t) \in {0} \cup Live /\ Preceding(t) < t
      BY <1>4, PrecedingFacts
    <3> QED BY <1>4, <2>1, <2>2, <3>1, <3>2, TimersAssumption DEF Live, IsLive, Timers
  <2>3. CASE ~gone
    BY <1>4, <2>1, <2>3
  <2> QED BY <2>2, <2>3
<1>10. g \in Frames /\ g.at = "pass" /\ g.tv = loop.tv /\ g.cur = c
  <2>1. c \in -1..MaxTimers
    BY <1>9, TimersAssumption
  <2> HIDE DEF c, loop
  <2> QED BY <1>3, <1>4, <2>1, PassFacts
<1>11. /\ DOMAIN m = Timers /\ m = [u \in Timers |-> m[u]]
       /\ \A u \in Timers : \/ gone /\ u = t /\ m[u] = NoTimer("freed")
                            \/ ~(gone /\ u = t) /\ m[u] = timer[u]
  BY <1>3 DEF Live, IsLive
<1>12. /\ z \in Seq(Frames) /\ Len(z) = Len(stack) - 1
       /\ \A i \in 1..Len(stack) - 2 : z[i] = stack[i]
       /\ z[Len(stack) - 1] = g
  <2> HIDE DEF g
  <2> DEFINE b == SubSeq(stack, 1, Len(stack) - 1)
  <2>1. /\ b \in Seq(Frames) /\ Len(b) = Len(stack) - 1
        /\ \A i \in 1..Len(stack) - 1 : b[i] = stack[i]
    BY <1>1, PopFacts
  <2>2. SubSeq(b, 1, Len(b) - 1) = SubSeq(stack, 1, Len(stack) - 2)
    BY <1>1, <1>3, <2>1
  <2> HIDE DEF b
  <2>3. /\ Append(SubSeq(b, 1, Len(b) - 1), g) \in Seq(Frames)
        /\ Len(Append(SubSeq(b, 1, Len(b) - 1), g)) = Len(b)
        /\ \A i \in 1..Len(b) - 1 : Append(SubSeq(b, 1, Len(b) - 1), g)[i] = b[i]
        /\ Append(SubSeq(b, 1, Len(b) - 1), g)[Len(b)] = g
    BY <1>1, <1>3, <1>10, <2>1, TopFacts
  <2>4. z = Append(SubSeq(b, 1, Len(b) - 1), g)
    BY <2>2
  <2> HIDE DEF z
  <2> QED BY <1>1, <1>3, <2>1, <2>3, <2>4
<1> HIDE DEF z, m, g
<1>13. NoTimer("freed").state = "freed" /\ NoTimer("freed") \in Struct(NoTimer("freed").name)
  BY ClearTimer
<1>14. \A u : IsLive(m, u) <=> IsLive(timer, u) /\ ~(gone /\ u = t)
  BY <1>11, <1>13 DEF IsLive
<1>15. \A u : IsLive(m, u) => m[u] = timer[u]
  BY <1>11, <1>14 DEF IsLive
<1>16. \A i \in 1..Len(z) : i \in 1..Len(stack) - 2 \/ i = Len(stack) - 1
  BY <1>1, <1>12
<1> HIDE DEF c, gone
<1>17. Good(m, now, z)
  <2>1. Typed(m, now, z)
    <3>1. ASSUME NEW u \in Timers PROVE m[u] \in Struct(m[u].name)
      BY <1>11, <1>13 DEF IInv, Good, Typed
    <3> QED BY <1>1, <1>3, <1>11, <1>12, <3>1 DEF Typed
  <2>2. Appending(m)
    <3> SUFFICES ASSUME NEW v \in Timers, NEW u \in Timers, v < u, m[v].state = "unused"
                 PROVE  m[u].state = "unused"
      BY DEF Appending
    <3>1. timer[v].state = "unused"
      BY <1>11, <1>13
    <3>2. timer[u].state = "unused"
      BY <3>1 DEF IInv, Good, Appending
    <3> QED BY <1>3, <1>11, <3>2 DEF IsLive
  <2>3. Nested(m, z)
    <3>1. z[1].at # "call"
      BY <1>1, <1>3, <1>10, <1>12 DEF IInv, Good, Nested
    <3>2. ASSUME NEW i \in 1..Len(z), z[i].at = "call"
          PROVE  /\ i > 1 /\ z[i - 1].at = "pass" /\ z[i - 1].cur = z[i].t
                 /\ IsLive(m, z[i].t)
                 /\ z[i - 1].again = m[z[i].t].persist
                 /\ i < Len(z) => m[z[i].t].persist
      <4>1. i \in 1..Len(stack) - 2 /\ z[i] = stack[i]
        BY <1>10, <1>12, <1>16, <3>2
      <4>2. i \in 1..Len(stack) /\ i < Len(stack) /\ i \in 1..Len(stack) - 1
        BY <1>1, <4>1
      <4>3. /\ i > 1 /\ stack[i - 1].at = "pass" /\ stack[i - 1].cur = stack[i].t
            /\ IsLive(timer, stack[i].t)
            /\ stack[i - 1].again = timer[stack[i].t].persist
            /\ timer[stack[i].t].persist
        BY <3>2, <4>1, <4>2 DEF IInv, Good, Nested
      <4>4. z[i - 1] = stack[i - 1]
        BY <1>1, <1>12, <4>1, <4>3
      <4>5. IsLive(m, stack[i].t)
        BY <1>7, <1>14, <3>2, <4>1, <4>2, <4>3
      <4> QED BY <1>15, <4>1, <4>3, <4>4, <4>5
    <3>3. ASSUME NEW i \in 1..Len(z) - 1
          PROVE  z[i].at # "wait" /\ (z[i].at = "pass" => z[i + 1].at = "call")
      <4>1. i \in 1..Len(stack) - 2 /\ z[i] = stack[i] /\ i \in 1..Len(stack) - 1
        BY <1>1, <1>12
      <4>2. stack[i].at # "wait" /\ (stack[i].at = "pass" => stack[i + 1].at = "call")
        BY <4>1 DEF IInv, Good, Nested
      <4>3. CASE i + 1 = Len(stack) - 1
        BY <1>3, <4>1, <4>2, <4>3
      <4>4. CASE i + 1 # Len(stack) - 1
        <5>1. i + 1 \in 1..Len(stack) - 2
          BY <1>1, <4>1, <4>4
        <5> QED BY <1>12, <4>1, <4>2, <5>1
      <4> QED BY <4>3, <4>4
    <3> QED BY <3>1, <3>2, <3>3 DEF Nested
  <2>4. Standing(m, z)
    <3> SUFFICES ASSUME NEW i \in 1..Len(z), z[i].at = "pass", z[i].cur # 0
                 PROVE  IsLive(m, z[i].cur)
      BY DEF Standing
    <3>1. CASE i \in 1..Len(stack) - 2
      <4>1. /\ z[i] = stack[i] /\ i \in 1..Len(stack) - 1 /\ i \in 1..Len(stack)
            /\ i + 1 \in 1..Len(stack) /\ (i + 1) - 1 = i /\ i + 1 \in 1..Len(stack) - 1
        BY <1>1, <1>12, <3>1
      <4>2. stack[i + 1].at = "call" /\ IsLive(timer, stack[i].cur)
        BY <4>1 DEF IInv, Good, Nested, Standing
      <4>3. stack[i + 1].t = stack[i].cur
        BY <4>1, <4>2 DEF IInv, Good, Nested
      <4> QED BY <1>7, <1>14, <4>1, <4>2, <4>3
    <3>2. CASE i = Len(stack) - 1
      BY <1>3, <1>9, <1>10, <1>12, <1>14, <3>2
    <3> QED BY <1>16, <3>1, <3>2
  <2>5. Clocks(now, z)
    <3>1. \A i \in 1..Len(z) : /\ i \in 1..Len(stack)
                               /\ HasTv(z[i]) => HasTv(stack[i]) /\ z[i].tv = stack[i].tv
      <4> SUFFICES ASSUME NEW i \in 1..Len(z)
                   PROVE  /\ i \in 1..Len(stack)
                          /\ HasTv(z[i]) => HasTv(stack[i]) /\ z[i].tv = stack[i].tv
        OBVIOUS
      <4>1. CASE i \in 1..Len(stack) - 2
        BY <1>1, <1>12, <4>1
      <4>2. CASE i = Len(stack) - 1
        BY <1>1, <1>3, <1>10, <1>12, <4>2 DEF HasTv
      <4> QED BY <1>16, <4>1, <4>2
    <3> SUFFICES ASSUME NEW i \in 1..Len(z), HasTv(z[i]),
                        NEW j \in 1..i, HasTv(z[j])
                 PROVE  z[i].tv <= now /\ z[j].tv <= z[i].tv
      BY DEF Clocks
    <3>2. j \in 1..Len(z)
      BY <1>1, <1>12
    <3> QED BY <3>1, <3>2 DEF IInv, Good, Clocks
  <2>6. Behind(m, z)
    <3> SUFFICES ASSUME NEW i \in 1..Len(z), z[i].at = "pass",
                        NEW u \in Timers, IsLive(m, u)
                 PROVE  /\ u < z[i].cur => Served(m[u], z[i].tv)
                        /\ u = z[i].cur =>
                             Served(m[u], z[i].tv) \/ (i < Len(z) /\ ~m[u].persist)
      BY DEF Behind
    <3>1. IsLive(timer, u) /\ m[u] = timer[u] /\ u \in Nat
      BY <1>14, <1>15, TimersAssumption DEF Timers
    <3>2. CASE i \in 1..Len(stack) - 2
      <4>1. z[i] = stack[i] /\ i \in 1..Len(stack) /\ i < Len(z)
        BY <1>1, <1>12, <3>2
      <4> QED BY <3>1, <4>1 DEF IInv, Good, Behind
    <3>3. CASE i = Len(stack) - 1
      <4>1. /\ u < t => Served(timer[u], loop.tv)
            /\ u = t => Served(timer[u], loop.tv) \/ ~timer[u].persist
        <5>1. Len(stack) - 1 \in 1..Len(stack)
          BY <1>1, <1>3
        <5> QED BY <1>3, <3>1, <5>1 DEF IInv, Good, Behind
      <4>2. z[i].cur = c /\ z[i].tv = loop.tv
        BY <1>10, <1>12, <3>3
      <4>3. CASE gone
        BY <1>4, <1>9, <3>1, <4>1, <4>2, <4>3
      <4>4. CASE ~gone
        BY <1>8, <1>9, <3>1, <4>1, <4>2, <4>4
      <4> QED BY <4>3, <4>4
    <3> QED BY <1>16, <3>2, <3>3
  <2>7. Sleep(m, z)
    BY <1>10, <1>12 DEF Sleep
  <2>8. Once(m, z)
    BY <1>8, <1>14, <1>15 DEF IInv, Good, Once
  <2>9. Asked(m)
    BY <1>14, <1>15 DEF IInv, Good, Asked
  <2> QED BY <2>1, <2>2, <2>3, <2>4, <2>5, <2>6, <2>7, <2>8, <2>9 DEF Good
<1>18. d \in Nat
  BY SlowAssumption
<1>19. Good(m, now + d, z)
  BY <1>6, <1>17, <1>18, LaterGood
<1> QED BY <1>5, <1>6, <1>19 DEF IInv

LEMMA SelectTimeoutFacts ==
  ASSUME IInv, InPass, Following(Top.cur) = {}
  PROVE  /\ Top \in Frames /\ Top.tv \in Nat /\ Top.tv <= MaxTime
         /\ SelectTimeout \in 0..Milli
         /\ \A t \in Timers : IsLive(timer, t) =>
              /\ Served(timer[t], Top.tv)
              /\ Top.tv + SelectTimeout <= timer[t].ends
<1>1. /\ Len(stack) \in 1..Len(stack) /\ stack \in Seq(Frames) /\ Top = stack[Len(stack)]
      /\ MaxTime \in Nat /\ Milli \in Nat
  BY TimersAssumption, UnitsAssumption DEF IInv, Good, Typed, Top, Depth
<1>2. Top \in Frames /\ Top.at = "pass" /\ Top.tv \in Nat /\ Top.tv <= MaxTime
  BY <1>1, FrameFacts DEF InPass
<1>3. Top.cur \in Nat
  BY <1>1, <1>2, TimersAssumption DEF IInv, Good, Standing, IsLive, Timers
<1>4. ASSUME NEW t \in Timers, IsLive(timer, t)
      PROVE  Served(timer[t], Top.tv) /\ timer[t].ends - Top.tv \in Nat
  <2>1. t <= Top.cur /\ t \in Nat
    BY <1>3, <1>4, NoneFollowing, TimersAssumption DEF Timers
  <2>2. Served(timer[t], Top.tv)
    BY <1>1, <1>2, <1>3, <1>4, <2>1 DEF IInv, Good, Behind
  <2>3. timer[t].ends \in Nat
    BY TimerFacts DEF IInv, Good
  <2> QED BY <1>2, <2>2, <2>3 DEF Served
<1> DEFINE left == {timer[t].ends - Top.tv : t \in {u \in Live : timer[u].ends - Top.tv < Milli}}
<1>5. left \in SUBSET Nat
  BY <1>4 DEF Live, IsLive
<1>6. left \cup {Milli} \in SUBSET Int /\ left \cup {Milli} # {}
      /\ \A x \in left \cup {Milli} : x \in Nat /\ x + 0 >= 0
  <2> HIDE DEF left
  <2>1. \A x \in left \cup {Milli} : x \in Nat
    BY <1>1, <1>5
  <2>2. \A x \in Nat : x + 0 >= 0
    OBVIOUS
  <2> QED BY <2>1, <2>2
<1>7. /\ Least(left \cup {Milli}) \in left \cup {Milli}
      /\ \A y \in left \cup {Milli} : Least(left \cup {Milli}) <= y
  <2> HIDE DEF left
  <2> QED BY <1>6, LeastOf
<1>8. SelectTimeout = Least(left \cup {Milli})
  <2>1. Least(left \cup {Milli}) \in Nat
    <3> HIDE DEF left
    <3> QED BY <1>6, <1>7
  <2>2. ~(Least(left \cup {Milli}) < 0)
    <3> HIDE DEF left
    <3> QED BY <2>1
  <2> QED BY <2>2, Zenon DEF SelectTimeout
<1>9. SelectTimeout \in 0..Milli
  BY <1>1, <1>5, <1>7, <1>8
<1>10. ASSUME NEW t \in Timers, IsLive(timer, t)
       PROVE  Top.tv + SelectTimeout <= timer[t].ends
  <2>1. timer[t].ends \in Nat /\ timer[t].ends - Top.tv \in Nat
    BY <1>4, <1>10, TimerFacts DEF IInv, Good
  <2>2. CASE timer[t].ends - Top.tv < Milli
    <3>1. timer[t].ends - Top.tv \in left
      BY <1>10, <2>2 DEF Live, IsLive
    <3>2. SelectTimeout <= timer[t].ends - Top.tv
      BY <1>7, <1>8, <3>1
    <3> QED BY <1>2, <1>9, <2>1, <3>2
  <2>3. CASE ~(timer[t].ends - Top.tv < Milli)
    BY <1>1, <1>2, <1>9, <2>1, <2>3
  <2> QED BY <2>2, <2>3
<1> QED BY <1>2, <1>4, <1>9, <1>10

LEMMA Product ==
  ASSUME NEW a \in Nat, NEW b \in Nat
  PROVE  a * b \in Nat
  OBVIOUS

LEMMA MillisFacts ==
  ASSUME NEW secs \in Periods
  PROVE  /\ secs * Milli \in Nat /\ Millis(secs) \in Nat
         /\ NoWrap => Millis(secs) = secs * Milli
<1>1. secs * Milli \in Nat
  BY Product, UnitsAssumption, InputsAssumption
<1>2. \A x, w \in Nat : w > 0 => x % w \in Nat /\ (x < w => x % w = x)
  OBVIOUS
<1> QED BY <1>1, <1>2, UnitsAssumption DEF Millis, NoWrap

LEMMA InitGood ==
  ASSUME Init PROVE IInv
<1>1. /\ NoTimer("unused") \in Struct(NoTimer("unused").name)
      /\ NoTimer("unused").state = "unused"
  BY ClearTimer
<1>2. /\ DOMAIN timer = Timers /\ timer = [t \in Timers |-> timer[t]]
      /\ \A t \in Timers : timer[t] = NoTimer("unused")
  BY DEF Init
<1>3. NewPass(0) \in Frames /\ NewPass(0).at = "pass" /\ NewPass(0).cur = 0 /\ NewPass(0).tv = 0
  BY TimersAssumption DEF NewPass, Frames
<1>4. Len(stack) = 1 /\ stack[1] = NewPass(0) /\ stack \in Seq(Frames) /\ now = 0
  BY <1>3 DEF Init
<1>5. \A t : ~IsLive(timer, t)
  BY <1>1, <1>2 DEF IsLive
<1>6. Typed(timer, now, stack) /\ Appending(timer)
  BY <1>1, <1>2, <1>4, TimersAssumption DEF Typed, Appending
<1>7. Nested(timer, stack) /\ Standing(timer, stack) /\ Clocks(now, stack)
  BY <1>3, <1>4 DEF Nested, Standing, Clocks, HasTv
<1>8. Behind(timer, stack) /\ Sleep(timer, stack) /\ Once(timer, stack) /\ Asked(timer)
  BY <1>5 DEF Behind, Sleep, Once, Asked
<1> QED BY <1>6, <1>7, <1>8 DEF IInv, Good

-----------------------------------------------------------------------------
(* The step.                                                               *)

LEMMA CommandStack ==
  ASSUME IInv, Command
  PROVE  /\ stack[Len(stack)].at \in {"call", "handlers"}
         /\ Alike(stack, stack')
         /\ Good(timer, now, stack')
<1>1. /\ Len(stack) \in Nat /\ Len(stack) >= 1 /\ stack \in Seq(Frames)
      /\ Top = stack[Len(stack)] /\ Top \in Frames
  BY DEF IInv, Good, Typed, Top, Depth
<1>2. Top.at \in {"call", "handlers"}
  BY DEF Command, InHandlers
<1>3. CASE Top.at = "call" /\ Top.calls > 0 /\ stack' = OnTop([Top EXCEPT !.calls = @ - 1])
  <2> DEFINE g == [Top EXCEPT !.calls = @ - 1]
  <2>1. g \in Frames /\ g.at = "call" /\ g.t = Top.t
    BY <1>1, <1>3, CalledFacts
  <2>2. stack' = Append(SubSeq(stack, 1, Len(stack) - 1), g)
    BY <1>3 DEF OnTop, Below, Depth
  <2> HIDE DEF g
  <2>3. /\ stack' \in Seq(Frames) /\ Len(stack') = Len(stack)
        /\ \A i \in 1..Len(stack) - 1 : stack'[i] = stack[i]
        /\ stack'[Len(stack)] = g
    BY <1>1, <2>1, <2>2, TopFacts
  <2>4. Alike(stack, stack')
    BY <1>1, <1>3, <2>1, <2>3 DEF Alike
  <2> QED BY <1>1, <1>2, <2>4, AlikeGood DEF IInv
<1>4. CASE UNCHANGED stack
  <2>1. Alike(stack, stack')
    BY <1>1, <1>4 DEF Alike
  <2> QED BY <1>1, <1>2, <2>1, AlikeGood DEF IInv
<1> QED BY <1>3, <1>4 DEF Command

LEMMA TimerAddGood ==
  ASSUME IInv, Command, NEW n, NEW secs \in Periods, NEW per \in BOOLEAN,
         NEW freq \in Periods, NEW byAt \in BOOLEAN,
         TimerAdd(n, secs, per, freq, byAt), now' = now
  PROVE  IInv'
<1>1. PICK t \in Timers :
    /\ timer[t].state = "unused"
    /\ \A u \in Timers : u < t => timer[u].state # "unused"
    /\ timer' = [timer EXCEPT ![t] =
         [state |-> "live", name |-> n, at |-> byAt, persist |-> per,
          period |-> Millis(freq), ends |-> now + Millis(secs),
          asked |-> secs * Milli, every |-> freq * Milli, since |-> now, started |-> FALSE]]
  BY DEF TimerAdd
<1> DEFINE r == [state |-> "live", name |-> n, at |-> byAt, persist |-> per,
                 period |-> Millis(freq), ends |-> now + Millis(secs),
                 asked |-> secs * Milli, every |-> freq * Milli, since |-> now,
                 started |-> FALSE]
<1>2. now \in Nat
  BY TimersAssumption DEF IInv, Good, Typed
<1>3. /\ r \in Struct(r.name) /\ r.state = "live" /\ ~r.started
      /\ NoWrap => r.period = r.every /\ r.ends >= r.since + r.asked
  <2>1. /\ secs * Milli \in Nat /\ freq * Milli \in Nat
        /\ Millis(secs) \in Nat /\ Millis(freq) \in Nat /\ now + Millis(secs) \in Nat
        /\ NoWrap => Millis(secs) = secs * Milli /\ Millis(freq) = freq * Milli
    BY <1>2, MillisFacts
  <2>2. NoWrap => now + Millis(secs) >= now + secs * Milli
    BY <1>2, <2>1
  <2> QED BY <1>2, <2>1, <2>2 DEF Struct
<1> HIDE DEF r
<1>4. Good(timer, now, stack') /\ stack'[Len(stack')].at # "wait"
  BY CommandStack DEF Alike
<1>5. Good([timer EXCEPT ![t] = r], now, stack')
  BY <1>1, <1>3, <1>4, AddGood
<1> QED BY <1>1, <1>5 DEF IInv, r

LEMMA RemovalGood ==
  ASSUME Guarded, IInv, Command, NEW ts \in SUBSET Live, MayRemove(ts),
         TimersRemove(ts), now' = now
  PROVE  IInv'
<1>1. ts \cap Executing = {}
  BY DEF Guarded, MayRemove
<1>2. Good(timer, now, stack') /\ Alike(stack, stack')
      /\ stack[Len(stack)].at \in {"call", "handlers"}
  BY CommandStack
<1>3. Len(stack) \in Nat /\ Len(stack) >= 1
  BY DEF IInv, Good, Typed
<1>4. stack'[Len(stack')].at \notin {"wait", "pass"}
  BY <1>2 DEF Alike
<1>5. ASSUME NEW i \in 1..Len(stack'), stack'[i].at = "call"
      PROVE  stack'[i].t \notin ts
  <2>1. i \in 1..Len(stack) /\ stack[i].at = "call" /\ stack[i].t = stack'[i].t
    <3>1. CASE i = Len(stack)
      BY <1>2, <1>5, <3>1 DEF Alike
    <3>2. CASE i # Len(stack)
      BY <1>2, <1>3, <1>5, <3>2 DEF Alike
    <3> QED BY <3>1, <3>2
  <2>2. stack[i].t \in Executing
    BY <2>1 DEF Executing, Depth
  <2> QED BY <1>1, <2>1, <2>2
<1>6. \A t \in ts : IsLive(timer, t)
  BY DEF Live, IsLive
<1>7. Good([t \in Timers |-> IF t \in ts THEN NoTimer("freed") ELSE timer[t]], now, stack')
  BY <1>2, <1>4, <1>5, <1>6, RemoveGood
<1> QED BY <1>7 DEF TimersRemove, IInv

LEMMA CmdLoopGood ==
  ASSUME Guarded, IInv, CmdLoop
  PROVE  IInv'
<1>1. /\ Len(stack) \in Nat /\ Len(stack) >= 1 /\ stack \in Seq(Frames)
      /\ Top = stack[Len(stack)] /\ Top \in Frames
  BY DEF IInv, Good, Typed, Top, Depth
<1>2. timer' = timer /\ now' = now
  BY DEF CmdLoop
<1>3. CASE /\ Top.at = "call" /\ Top.calls > 0
           /\ stack' = Append(OnTop([Top EXCEPT !.calls = @ - 1]), NewPass(now))
  <2> DEFINE g == [Top EXCEPT !.calls = @ - 1]
             b == Append(SubSeq(stack, 1, Len(stack) - 1), g)
  <2>1. g \in Frames /\ g.at = "call" /\ g.t = Top.t
    BY <1>1, <1>3, CalledFacts
  <2>2. stack' = Append(b, NewPass(now))
    BY <1>3 DEF OnTop, Below, Depth
  <2> HIDE DEF g
  <2>3. /\ b \in Seq(Frames) /\ Len(b) = Len(stack)
        /\ \A i \in 1..Len(stack) - 1 : b[i] = stack[i]
        /\ b[Len(stack)] = g
    BY <1>1, <2>1, TopFacts
  <2> HIDE DEF b
  <2>4. Alike(stack, b)
    BY <1>1, <1>3, <2>1, <2>3 DEF Alike
  <2>5. Good(timer, now, b)
    BY <2>4, AlikeGood DEF IInv
  <2>6. b[Len(b)].at = "call" /\ timer[b[Len(b)].t].persist
    BY <1>1, <1>3, <2>1, <2>3 DEF CmdLoop, Guarded
  <2>7. Good(timer, now, Append(b, NewPass(now)))
    BY <2>5, <2>6, PushPassGood
  <2> QED BY <1>2, <2>2, <2>7 DEF IInv
<1>4. CASE InHandlers /\ stack' = Append(stack, NewPass(now))
  <2>1. Good(timer, now, Append(stack, NewPass(now)))
    BY <1>1, <1>4, PushPassGood DEF IInv, InHandlers
  <2> QED BY <1>2, <1>4, <2>1 DEF IInv
<1> QED BY <1>3, <1>4 DEF CmdLoop

LEMMA CommandsGood ==
  ASSUME Guarded, IInv, Commands
  PROVE  IInv'
<1>1. ASSUME NEW secs \in Periods, NEW per \in BOOLEAN, CmdTimerAddUnnamed(secs, per)
      PROVE  IInv'
  BY <1>1, TimerAddGood DEF CmdTimerAddUnnamed
<1>2. ASSUME NEW secs \in Periods, NEW per \in BOOLEAN, NEW n \in Names,
             CmdTimerAdd(n, secs, per)
      PROVE  IInv'
  BY <1>2, TimerAddGood DEF CmdTimerAdd
<1>3. ASSUME NEW secs \in Periods, NEW freq \in Periods \cup {0}, NEW n,
             AtAdd(n, secs, freq)
      PROVE  IInv'
  <2>1. PICK f \in Periods, per \in BOOLEAN : TimerAdd(n, secs, per, f, TRUE)
    BY <1>3 DEF AtAdd
  <2> QED BY <1>3, <2>1, TimerAddGood DEF AtAdd
<1>4. ASSUME NEW n \in Names, RemoveNamed(n)
      PROVE  IInv'
  BY <1>4, RemovalGood DEF RemoveNamed
<1>5. ASSUME NEW byAt \in BOOLEAN, CmdDelAll(byAt)
      PROVE  IInv'
  BY <1>5, RemovalGood DEF CmdDelAll
<1> QED BY <1>1, <1>2, <1>3, <1>4, <1>5, CmdLoopGood
      DEF Commands, CmdAtAddUnnamed, CmdAtAdd, CmdTimerDel, CmdAtDel

LEMMA SkipGood ==
  ASSUME IInv, NEW t \in Timers, PassSkip(t)
  PROVE  IInv'
<1> DEFINE g == [Top EXCEPT !.cur = t]
<1>1. /\ Len(stack) \in Nat /\ Len(stack) >= 1 /\ stack \in Seq(Frames)
      /\ Len(stack) \in 1..Len(stack)
      /\ Top = stack[Len(stack)] /\ Top \in Frames /\ Top.at = "pass"
  BY DEF IInv, Good, Typed, Top, Depth, PassSkip, InPass
<1>2. Top.cur \in Nat /\ Top.tv \in Nat /\ t \in -1..MaxTimers
  BY <1>1, FrameFacts, TimersAssumption DEF IInv, Good, Standing, IsLive, Timers
<1>3. g \in Frames /\ g.at = "pass" /\ g.tv = Top.tv /\ g.cur = t
  BY <1>1, <1>2, PassFacts
<1>4. stack' = Append(SubSeq(stack, 1, Len(stack) - 1), g) /\ timer' = timer /\ now' = now
  BY DEF PassSkip, OnTop, Below, Depth
<1> HIDE DEF g
<1>5. /\ stack' \in Seq(Frames) /\ Len(stack') = Len(stack)
      /\ \A i \in 1..Len(stack) - 1 : stack'[i] = stack[i]
      /\ stack'[Len(stack)] = g
  BY <1>1, <1>3, <1>4, TopFacts
<1>6. IsLive(timer, t) /\ t \in Following(Top.cur)
  BY <1>2, FollowingFacts DEF PassSkip
<1>7. ASSUME NEW u \in Timers, IsLive(timer, u), u <= g.cur
      PROVE  Served(timer[u], g.tv)
  <2>1. timer[t].ends \in Nat
    BY TimerFacts DEF IInv, Good
  <2>2. CASE u = t
    BY <1>2, <1>3, <2>1, <2>2 DEF PassSkip, Expired, Served
  <2>3. CASE u # t
    <3>1. u <= Top.cur \/ t <= u
      BY <1>2, <1>6, <1>7, FollowingFacts
    <3>2. u <= Top.cur
      BY <1>2, <1>3, <1>7, <2>3, <3>1, TimersAssumption DEF Timers
    <3> QED BY <1>1, <1>2, <1>3, <1>7, <3>2, TimersAssumption DEF IInv, Good, Behind, Timers
  <2> QED BY <2>2, <2>3
<1>8. Good(timer, now, stack')
  <2>1. g.at # "wait" /\ HasTv(Top)
    BY <1>1, <1>3 DEF HasTv
  <2> QED BY <1>1, <1>3, <1>5, <1>6, <1>7, <2>1, TopGood DEF IInv
<1> QED BY <1>4, <1>8 DEF IInv

LEMMA PassEndGood ==
  ASSUME IInv, PassEnd
  PROVE  IInv'
<1> DEFINE g == [at |-> "wait", tv |-> Top.tv, left |-> SelectTimeout]
<1>1. /\ Len(stack) \in Nat /\ Len(stack) >= 1 /\ stack \in Seq(Frames)
      /\ Top = stack[Len(stack)] /\ Top.at = "pass"
  BY DEF IInv, Good, Typed, Top, Depth, PassEnd, InPass
<1>2. /\ Top.tv \in 0..MaxTime /\ SelectTimeout \in 0..Milli
      /\ \A t \in Timers : IsLive(timer, t) => Top.tv + SelectTimeout <= timer[t].ends
  BY SelectTimeoutFacts, TimersAssumption DEF PassEnd
<1>3. g \in Frames /\ g.at = "wait" /\ g.tv = Top.tv /\ g.left = SelectTimeout
  BY <1>2 DEF Frames
<1>4. stack' = Append(SubSeq(stack, 1, Len(stack) - 1), g) /\ timer' = timer /\ now' = now
  BY DEF PassEnd, OnTop, Below, Depth
<1> HIDE DEF g
<1>5. /\ stack' \in Seq(Frames) /\ Len(stack') = Len(stack)
      /\ \A i \in 1..Len(stack) - 1 : stack'[i] = stack[i]
      /\ stack'[Len(stack)] = g
  BY <1>1, <1>3, <1>4, TopFacts
<1>6. Good(timer, now, stack')
  <2>1. g.at # "pass" /\ g.at # "call" /\ HasTv(Top)
    BY <1>1, <1>3 DEF HasTv
  <2> QED BY <1>1, <1>2, <1>3, <1>5, <2>1, TopGood DEF IInv
<1> QED BY <1>4, <1>6 DEF IInv

LEMMA SelectReturnGood ==
  ASSUME IInv, SelectReturn
  PROVE  IInv'
<1> DEFINE g == [at |-> "handlers"]
<1>1. /\ Len(stack) \in Nat /\ Len(stack) >= 1 /\ stack \in Seq(Frames)
      /\ Top = stack[Len(stack)] /\ Top \in Frames /\ Top.at = "wait"
  BY DEF IInv, Good, Typed, Top, Depth, SelectReturn, InWait
<1>2. PICK d \in 0..Top.left : now + d <= MaxTime /\ now' = now + d
  BY DEF SelectReturn
<1>3. d \in Nat
  BY <1>1, FrameFacts, UnitsAssumption
<1>4. g \in Frames /\ g.at = "handlers"
  BY DEF Frames
<1>5. stack' = Append(SubSeq(stack, 1, Len(stack) - 1), g) /\ timer' = timer
  BY DEF SelectReturn, OnTop, Below, Depth
<1> HIDE DEF g
<1>6. /\ stack' \in Seq(Frames) /\ Len(stack') = Len(stack)
      /\ \A i \in 1..Len(stack) - 1 : stack'[i] = stack[i]
      /\ stack'[Len(stack)] = g
  BY <1>1, <1>4, <1>5, TopFacts
<1>7. Good(timer, now, stack')
  <2>1. g.at # "pass" /\ g.at # "call" /\ g.at # "wait" /\ ~HasTv(g)
    BY <1>4 DEF HasTv
  <2> QED BY <1>1, <1>6, <2>1, TopGood DEF IInv
<1>8. Good(timer, now + d, stack')
  BY <1>2, <1>3, <1>7, LaterGood
<1> QED BY <1>2, <1>5, <1>8 DEF IInv

LEMMA LoopReturnGood ==
  ASSUME IInv, LoopReturn
  PROVE  IInv'
<1>1. /\ Len(stack) \in Nat /\ Len(stack) >= 1 /\ stack \in Seq(Frames)
      /\ now \in 0..MaxTime
      /\ stack[Len(stack)].at = "handlers" /\ timer' = timer /\ now' = now
  BY DEF IInv, Good, Typed, Top, Depth, LoopReturn, InHandlers
<1>2. CASE Len(stack) > 1
  <2>1. stack' = SubSeq(stack, 1, Len(stack) - 1)
    BY <1>2 DEF LoopReturn, Below, Depth
  <2> QED BY <1>1, <1>2, <2>1, PopGood DEF IInv
<1>3. CASE ~(Len(stack) > 1)
  <2>0. Len(stack) = 1
    <3>1. \A n \in Nat : n >= 1 /\ ~(n > 1) => n = 1
      OBVIOUS
    <3> QED BY <1>1, <1>3, <3>1
  <2>1. stack' = <<NewPass(now)>>
    BY <1>3 DEF LoopReturn, Depth
  <2>2. NewPass(now) \in Frames /\ NewPass(now).at = "pass" /\ NewPass(now).cur = 0
        /\ NewPass(now).tv = now
    BY <1>1, TimersAssumption DEF NewPass, Frames
  <2>3. Len(stack') = 1 /\ stack'[1] = NewPass(now) /\ stack' \in Seq(Frames)
    BY <2>1, <2>2
  <2>4. Typed(timer, now, stack')
    BY <2>3 DEF IInv, Good, Typed
  <2>5. Nested(timer, stack') /\ Standing(timer, stack') /\ Sleep(timer, stack')
    BY <2>2, <2>3 DEF Nested, Standing, Sleep
  <2>6. Clocks(now, stack')
    BY <1>1, <2>2, <2>3 DEF Clocks, HasTv
  <2>7. Behind(timer, stack')
    BY <2>2, <2>3, TimersAssumption DEF Behind, Timers
  <2>8. Once(timer, stack')
    BY <1>1 DEF IInv, Good, Once
  <2> QED BY <1>1, <2>4, <2>5, <2>6, <2>7, <2>8 DEF IInv, Good
<1> QED BY <1>2, <1>3

LEMMA StepGood ==
  ASSUME Guarded, IInv, [Next]_vars
  PROVE  IInv'
<1>1. ASSUME UNCHANGED vars PROVE IInv'
  BY <1>1 DEF vars, IInv
<1> QED BY <1>1, CommandsGood, StartGood, SkipGood, ReturnGood, PassEndGood,
          SelectReturnGood, LoopReturnGood DEF Next, Loop

-----------------------------------------------------------------------------
(* Part of a stack. *)

LEMMA SubSeqFacts ==
  ASSUME NEW S, NEW s \in Seq(S), NEW n \in 0..Len(s)
  PROVE  /\ SubSeq(s, 1, n) \in Seq(S) /\ Len(SubSeq(s, 1, n)) = n
         /\ \A i \in 1..n : SubSeq(s, 1, n)[i] = s[i]
<1>1. Len(s) \in Nat /\ n \in Nat /\ \A i \in 1..n : s[i] \in S
  OBVIOUS
<1>2. /\ SubSeq(s, 1, n) \in Seq(S)
      /\ Len(SubSeq(s, 1, n)) = IF 1 <= n THEN n - 1 + 1 ELSE 0
      /\ \A i \in 1..n - 1 + 1 : SubSeq(s, 1, n)[i] = s[1 + i - 1]
  BY <1>1, SubSeqProperties
<1>3. n - 1 + 1 = n /\ \A i \in Nat : 1 + i - 1 = i
  BY <1>1
<1> QED BY <1>1, <1>2, <1>3

-----------------------------------------------------------------------------
(* Without Guarded: a command may remove the timer that executes it, and    *)
(* whichever command may call ekg_loop().                                  *)

IsSeq(s) == \E V : s \in Seq(V)

Loose(f) ==
  /\ f.at = "pass" => /\ f.again \in BOOLEAN
                      /\ f = [at |-> "pass", tv |-> f.tv, cur |-> f.cur, again |-> f.again]
  /\ f.at = "call" => f = [at |-> "call", t |-> f.t, calls |-> f.calls]

Full(r) ==
  /\ r.persist \in BOOLEAN /\ r.started \in BOOLEAN
  /\ r = [state |-> r.state, name |-> r.name, at |-> r.at, persist |-> r.persist,
          period |-> r.period, ends |-> r.ends, asked |-> r.asked, every |-> r.every,
          since |-> r.since, started |-> r.started]

\* A timer that is to run once and was started is being executed, above a pass
\* that knows that it does not come again; if its command may not call
\* ekg_loop(), nothing is above it.
Inside(tm, s) ==
  /\ tm = [t \in Timers |-> tm[t]] /\ \A t \in Timers : Full(tm[t])
  /\ IsSeq(s) /\ Len(s) >= 1 /\ \A i \in 1..Len(s) : Loose(s[i])
  /\ \A i \in 1..Len(s) : s[i].at = "call" =>
       /\ i > 1 /\ s[i - 1].at = "pass"
       /\ s[i].t \in Timers /\ tm[s[i].t].state # "unused"
       /\ IsLive(tm, s[i].t) => s[i - 1].again = tm[s[i].t].persist
       /\ IsLive(tm, s[i].t) /\ ~WaitOnce /\ i < Len(s) => tm[s[i].t].persist
  /\ \A t \in Timers : IsLive(tm, t) /\ tm[t].started /\ ~tm[t].persist =>
       \E i \in 1..Len(s) : s[i].at = "call" /\ s[i].t = t

LEMMA AnySubSeq ==
  ASSUME NEW s, IsSeq(s), NEW n \in 0..Len(s)
  PROVE  /\ IsSeq(SubSeq(s, 1, n)) /\ Len(SubSeq(s, 1, n)) = n
         /\ \A i \in 1..n : SubSeq(s, 1, n)[i] = s[i]
<1>1. PICK V : s \in Seq(V)
  BY DEF IsSeq
<1> QED BY <1>1, SubSeqFacts DEF IsSeq

LEMMA AnyPush ==
  ASSUME NEW s, IsSeq(s), NEW f
  PROVE  /\ IsSeq(Append(s, f)) /\ Len(s) \in Nat /\ Len(Append(s, f)) = Len(s) + 1
         /\ \A i \in 1..Len(s) : Append(s, f)[i] = s[i]
         /\ Append(s, f)[Len(s) + 1] = f
<1>1. PICK V : s \in Seq(V)
  BY DEF IsSeq
<1>2. PICK W : W = V \cup {f}
  OBVIOUS
<1>3. s \in Seq(W) /\ f \in W
  BY <1>1, <1>2
<1> QED BY <1>3, AppendProperties DEF IsSeq

LEMMA AnyTop ==
  ASSUME NEW s, IsSeq(s), NEW n \in 1..Len(s), NEW f
  PROVE  LET z == Append(SubSeq(s, 1, n - 1), f)
         IN  IsSeq(z) /\ Len(z) = n /\ z[n] = f /\ \A i \in 1..n - 1 : z[i] = s[i]
<1>1. PICK b, m : b = SubSeq(s, 1, m) /\ m = n - 1
  OBVIOUS
<1>2. Len(s) \in Nat /\ m \in 0..Len(s) /\ m + 1 = n
  BY <1>1, AnyPush
<1>3. IsSeq(b) /\ Len(b) = m /\ \A i \in 1..m : b[i] = s[i]
  BY <1>1, <1>2, AnySubSeq
<1>4. /\ IsSeq(Append(b, f)) /\ Len(Append(b, f)) = m + 1
      /\ \A i \in 1..m : Append(b, f)[i] = b[i]
      /\ Append(b, f)[m + 1] = f
  BY <1>3, AnyPush
<1> QED BY <1>1, <1>2, <1>3, <1>4

LEMMA InsideKept ==
  ASSUME NEW tm, NEW s, Inside(tm, s), NEW z, IsSeq(z), Len(z) = Len(s),
         \A i \in 1..Len(s) - 1 : z[i] = s[i], Loose(z[Len(s)]),
         z[Len(s)].at = "call" <=> s[Len(s)].at = "call",
         s[Len(s)].at = "call" => z[Len(s)].t = s[Len(s)].t
  PROVE  Inside(tm, z)
<1>1. Len(s) \in Nat /\ Len(s) >= 1 /\ IsSeq(s)
  BY AnyPush DEF Inside
<1>2. ASSUME NEW i \in 1..Len(z)
      PROVE  /\ Loose(z[i]) /\ (z[i].at = "call" <=> s[i].at = "call")
             /\ z[i].at = "call" => z[i].t = s[i].t
  <2>1. CASE i = Len(s)
    BY <2>1
  <2>2. CASE i # Len(s)
    <3>1. i \in 1..Len(s) - 1 /\ z[i] = s[i]
      BY <1>1, <1>2, <2>2
    <3> QED BY <1>1, <3>1 DEF Inside
  <2> QED BY <2>1, <2>2
<1>3. ASSUME NEW i \in 1..Len(z), z[i].at = "call", i > 1
      PROVE  z[i - 1] = s[i - 1]
  BY <1>1, <1>3
<1>4. ASSUME NEW i \in 1..Len(z), z[i].at = "call"
      PROVE  /\ i > 1 /\ z[i - 1].at = "pass"
             /\ z[i].t \in Timers /\ tm[z[i].t].state # "unused"
             /\ IsLive(tm, z[i].t) => z[i - 1].again = tm[z[i].t].persist
             /\ IsLive(tm, z[i].t) /\ ~WaitOnce /\ i < Len(z) => tm[z[i].t].persist
  <2>1. i \in 1..Len(s) /\ s[i].at = "call" /\ z[i].t = s[i].t
    BY <1>2, <1>4
  <2>2. /\ i > 1 /\ s[i - 1].at = "pass"
        /\ s[i].t \in Timers /\ tm[s[i].t].state # "unused"
        /\ IsLive(tm, s[i].t) => s[i - 1].again = tm[s[i].t].persist
        /\ IsLive(tm, s[i].t) /\ ~WaitOnce /\ i < Len(s) => tm[s[i].t].persist
    BY <2>1 DEF Inside
  <2> QED BY <1>3, <1>4, <2>1, <2>2
<1>5. ASSUME NEW t \in Timers, IsLive(tm, t) /\ tm[t].started /\ ~tm[t].persist
      PROVE  \E i \in 1..Len(z) : z[i].at = "call" /\ z[i].t = t
  <2>1. PICK i \in 1..Len(s) : s[i].at = "call" /\ s[i].t = t
    BY <1>5 DEF Inside
  <2> QED BY <1>2, <2>1
<1> QED BY <1>1, <1>2, <1>4, <1>5 DEF Inside

\* A frame that is no callback's comes on top.
LEMMA InsidePush ==
  ASSUME NEW tm, NEW s, Inside(tm, s), NEW f, Loose(f), f.at # "call",
         s[Len(s)].at = "call" /\ ~WaitOnce => tm[s[Len(s)].t].persist
  PROVE  Inside(tm, Append(s, f))
<1>1. PICK z : z = Append(s, f)
  OBVIOUS
<1>2. /\ IsSeq(z) /\ Len(s) \in Nat /\ Len(s) >= 1 /\ Len(z) = Len(s) + 1
      /\ \A i \in 1..Len(s) : z[i] = s[i]
      /\ z[Len(s) + 1] = f
  BY <1>1, AnyPush DEF Inside
<1>3. ASSUME NEW i \in 1..Len(z) PROVE (i \in 1..Len(s) /\ z[i] = s[i]) \/ z[i] = f
  BY <1>2
<1>4. \A i \in 1..Len(z) : Loose(z[i])
  BY <1>3 DEF Inside
<1>5. ASSUME NEW i \in 1..Len(z), z[i].at = "call"
      PROVE  /\ i > 1 /\ z[i - 1].at = "pass"
             /\ z[i].t \in Timers /\ tm[z[i].t].state # "unused"
             /\ IsLive(tm, z[i].t) => z[i - 1].again = tm[z[i].t].persist
             /\ IsLive(tm, z[i].t) /\ ~WaitOnce /\ i < Len(z) => tm[z[i].t].persist
  <2>1. i \in 1..Len(s) /\ z[i] = s[i]
    BY <1>3, <1>5
  <2>2. /\ i > 1 /\ s[i - 1].at = "pass"
        /\ s[i].t \in Timers /\ tm[s[i].t].state # "unused"
        /\ IsLive(tm, s[i].t) => s[i - 1].again = tm[s[i].t].persist
        /\ IsLive(tm, s[i].t) /\ ~WaitOnce /\ i < Len(s) => tm[s[i].t].persist
    BY <1>5, <2>1 DEF Inside
  <2>3. i - 1 \in 1..Len(s) /\ z[i - 1] = s[i - 1]
    BY <1>2, <2>1, <2>2
  <2>4. IsLive(tm, s[i].t) /\ ~WaitOnce => tm[s[i].t].persist
    <3>1. CASE i = Len(s)
      BY <1>5, <2>1, <3>1
    <3>2. CASE i # Len(s)
      <4>1. i < Len(s)
        BY <1>2, <2>1, <3>2
      <4> QED BY <2>2, <4>1
    <3> QED BY <3>1, <3>2
  <2> QED BY <2>1, <2>2, <2>3, <2>4
<1>6. ASSUME NEW t \in Timers, IsLive(tm, t) /\ tm[t].started /\ ~tm[t].persist
      PROVE  \E i \in 1..Len(z) : z[i].at = "call" /\ z[i].t = t
  <2>1. PICK i \in 1..Len(s) : s[i].at = "call" /\ s[i].t = t
    BY <1>6 DEF Inside
  <2>2. i \in 1..Len(z) /\ z[i] = s[i]
    BY <1>2, <2>1
  <2> QED BY <2>1, <2>2
<1>7. Inside(tm, z)
  BY <1>2, <1>4, <1>5, <1>6 DEF Inside
<1> QED BY <1>1, <1>7

\* The top goes: no callback, or that of a timer that is gone or comes again.
LEMMA InsidePop ==
  ASSUME NEW tm, NEW s, Inside(tm, s), Len(s) > 1,
         s[Len(s)].at = "call" => ~IsLive(tm, s[Len(s)].t) \/ tm[s[Len(s)].t].persist
  PROVE  Inside(tm, SubSeq(s, 1, Len(s) - 1))
<1>1. PICK z : z = SubSeq(s, 1, Len(s) - 1)
  OBVIOUS
<1>2. /\ IsSeq(z) /\ Len(s) \in Nat /\ Len(z) = Len(s) - 1 /\ Len(z) >= 1
      /\ \A i \in 1..Len(s) - 1 : z[i] = s[i]
  <2>1. IsSeq(s) /\ Len(s) \in Nat
    BY AnyPush DEF Inside
  <2>2. Len(s) - 1 \in 0..Len(s)
    BY <2>1
  <2> QED BY <1>1, <2>1, <2>2, AnySubSeq
<1>3. ASSUME NEW i \in 1..Len(z) PROVE i \in 1..Len(s) /\ i < Len(s) /\ z[i] = s[i]
  BY <1>2
<1>4. \A i \in 1..Len(z) : Loose(z[i])
  BY <1>3 DEF Inside
<1>5. ASSUME NEW i \in 1..Len(z), z[i].at = "call"
      PROVE  /\ i > 1 /\ z[i - 1].at = "pass"
             /\ z[i].t \in Timers /\ tm[z[i].t].state # "unused"
             /\ IsLive(tm, z[i].t) => z[i - 1].again = tm[z[i].t].persist
             /\ IsLive(tm, z[i].t) /\ ~WaitOnce /\ i < Len(z) => tm[z[i].t].persist
  <2>1. /\ i > 1 /\ s[i - 1].at = "pass"
        /\ s[i].t \in Timers /\ tm[s[i].t].state # "unused"
        /\ IsLive(tm, s[i].t) => s[i - 1].again = tm[s[i].t].persist
        /\ IsLive(tm, s[i].t) /\ ~WaitOnce /\ i < Len(s) => tm[s[i].t].persist
    BY <1>3, <1>5 DEF Inside
  <2>2. z[i - 1] = s[i - 1]
    BY <1>2, <2>1
  <2> QED BY <1>3, <2>1, <2>2
<1>6. ASSUME NEW t \in Timers, IsLive(tm, t) /\ tm[t].started /\ ~tm[t].persist
      PROVE  \E i \in 1..Len(z) : z[i].at = "call" /\ z[i].t = t
  <2>1. PICK i \in 1..Len(s) : s[i].at = "call" /\ s[i].t = t
    BY <1>6 DEF Inside
  <2>2. i # Len(s)
    BY <1>6, <2>1
  <2>3. i \in 1..Len(z) /\ z[i] = s[i]
    BY <1>2, <2>1, <2>2
  <2> QED BY <2>1, <2>3
<1>7. Inside(tm, z)
  BY <1>2, <1>4, <1>5, <1>6 DEF Inside
<1> QED BY <1>1, <1>7

\* Timers are made and removed.
LEMMA InsideTimers ==
  ASSUME NEW tm, NEW s, Inside(tm, s), NEW un, un = [t \in Timers |-> un[t]],
         \A t \in Timers : Full(un[t]),
         \A t \in Timers : \/ un[t] = tm[t]
                           \/ un[t].state = "freed"
                           \/ tm[t].state = "unused" /\ ~un[t].started
  PROVE  Inside(un, s)
<1>1. ASSUME NEW i \in 1..Len(s), s[i].at = "call"
      PROVE  /\ i > 1 /\ s[i - 1].at = "pass"
             /\ s[i].t \in Timers /\ un[s[i].t].state # "unused"
             /\ IsLive(un, s[i].t) => s[i - 1].again = un[s[i].t].persist
             /\ IsLive(un, s[i].t) /\ ~WaitOnce /\ i < Len(s) => un[s[i].t].persist
  <2>1. /\ i > 1 /\ s[i - 1].at = "pass"
        /\ s[i].t \in Timers /\ tm[s[i].t].state # "unused"
        /\ IsLive(tm, s[i].t) => s[i - 1].again = tm[s[i].t].persist
        /\ IsLive(tm, s[i].t) /\ ~WaitOnce /\ i < Len(s) => tm[s[i].t].persist
    BY <1>1 DEF Inside
  <2>2. un[s[i].t] = tm[s[i].t] \/ un[s[i].t].state = "freed"
    BY <2>1
  <2> QED BY <2>1, <2>2 DEF IsLive
<1>2. ASSUME NEW t \in Timers, IsLive(un, t) /\ un[t].started /\ ~un[t].persist
      PROVE  \E i \in 1..Len(s) : s[i].at = "call" /\ s[i].t = t
  <2>1. un[t] = tm[t]
    BY <1>2 DEF IsLive
  <2> QED BY <1>2, <2>1 DEF Inside, IsLive
<1> QED BY <1>1, <1>2 DEF Inside

\* A callback is entered above the pass that stands on its timer.
LEMMA InsideCall ==
  ASSUME NEW tm, NEW s, Inside(tm, s), s[Len(s)].at = "pass",
         NEW t \in Timers, IsLive(tm, t), s[Len(s)].again = tm[t].persist,
         NEW f, Loose(f), f.at = "call", f.t = t,
         NEW r, Full(r), r.state = "live", r.persist = tm[t].persist
  PROVE  Inside([tm EXCEPT ![t] = r], Append(s, f))
<1>1. PICK z, un : z = Append(s, f) /\ un = [tm EXCEPT ![t] = r]
  OBVIOUS
<1>2. /\ IsSeq(z) /\ Len(s) \in Nat /\ Len(s) >= 1 /\ Len(z) = Len(s) + 1
      /\ \A i \in 1..Len(s) : z[i] = s[i]
      /\ z[Len(s) + 1] = f
  BY <1>1, AnyPush DEF Inside
<1>3. /\ un = [u \in Timers |-> un[u]]
      /\ un[t] = r /\ \A u \in Timers : u # t => un[u] = tm[u]
  BY <1>1 DEF Inside
<1>4. \A u \in Timers : Full(un[u])
  BY <1>3 DEF Inside
<1>5. \A u \in Timers : /\ IsLive(un, u) <=> IsLive(tm, u)
                        /\ un[u].persist = tm[u].persist
                        /\ tm[u].state # "unused" => un[u].state # "unused"
  BY <1>3 DEF IsLive
<1>6. ASSUME NEW i \in 1..Len(z)
      PROVE  (i \in 1..Len(s) /\ z[i] = s[i]) \/ (i = Len(s) + 1 /\ z[i] = f)
  BY <1>2
<1>7. \A i \in 1..Len(z) : Loose(z[i])
  BY <1>6 DEF Inside
<1>8. ASSUME NEW i \in 1..Len(z), z[i].at = "call"
      PROVE  /\ i > 1 /\ z[i - 1].at = "pass"
             /\ z[i].t \in Timers /\ un[z[i].t].state # "unused"
             /\ IsLive(un, z[i].t) => z[i - 1].again = un[z[i].t].persist
             /\ IsLive(un, z[i].t) /\ ~WaitOnce /\ i < Len(z) => un[z[i].t].persist
  <2>1. CASE i \in 1..Len(s) /\ z[i] = s[i]
    <3>1. /\ i > 1 /\ s[i - 1].at = "pass"
          /\ s[i].t \in Timers /\ tm[s[i].t].state # "unused"
          /\ IsLive(tm, s[i].t) => s[i - 1].again = tm[s[i].t].persist
          /\ IsLive(tm, s[i].t) /\ ~WaitOnce /\ i < Len(s) => tm[s[i].t].persist
      BY <1>8, <2>1 DEF Inside
    <3>2. i - 1 \in 1..Len(s) /\ z[i - 1] = s[i - 1]
      BY <1>2, <2>1, <3>1
    <3>3. i < Len(s)
      <4>1. i # Len(s)
        BY <1>8, <2>1
      <4> QED BY <1>2, <2>1, <4>1
    <3> QED BY <1>5, <2>1, <3>1, <3>2, <3>3
  <2>2. CASE i = Len(s) + 1 /\ z[i] = f
    <3>1. i - 1 = Len(s) /\ i > 1 /\ z[i - 1] = s[Len(s)] /\ i = Len(z)
      BY <1>2, <2>2
    <3>2. z[i].t = t /\ un[t].state = "live" /\ un[t].persist = tm[t].persist
      BY <1>3, <2>2
    <3>3. ~(i < Len(z))
      BY <1>2, <3>1
    <3> QED BY <3>1, <3>2, <3>3
  <2> QED BY <1>6, <2>1, <2>2
<1>9. ASSUME NEW u \in Timers, IsLive(un, u) /\ un[u].started /\ ~un[u].persist
      PROVE  \E i \in 1..Len(z) : z[i].at = "call" /\ z[i].t = u
  <2>1. CASE u = t
    <3>1. Len(s) + 1 \in 1..Len(z)
      BY <1>2
    <3> QED BY <1>2, <2>1, <3>1
  <2>2. CASE u # t
    <3>1. un[u] = tm[u]
      BY <1>3, <2>2
    <3>2. PICK i \in 1..Len(s) : s[i].at = "call" /\ s[i].t = u
      BY <1>9, <3>1 DEF Inside, IsLive
    <3>3. i \in 1..Len(z) /\ z[i] = s[i]
      BY <1>2, <3>2
    <3> QED BY <3>2, <3>3
  <2> QED BY <2>1, <2>2
<1>10. Inside(un, z)
  BY <1>2, <1>3, <1>4, <1>7, <1>8, <1>9 DEF Inside
<1> QED BY <1>1, <1>10

\* A pass alone: no timer that is to run once may be waiting for its end.
LEMMA InsideAlone ==
  ASSUME NEW tm, tm = [t \in Timers |-> tm[t]], \A t \in Timers : Full(tm[t]),
         \A t \in Timers : ~(IsLive(tm, t) /\ tm[t].started /\ ~tm[t].persist),
         NEW tv
  PROVE  Inside(tm, <<NewPass(tv)>>)
<1>1. PICK z : z = <<NewPass(tv)>>
  OBVIOUS
<1>2. z \in Seq({NewPass(tv)}) /\ Len(z) = 1 /\ z[1] = NewPass(tv)
  BY <1>1
<1>3. IsSeq(z)
  BY <1>2 DEF IsSeq
<1>a. NewPass(tv).at = "pass" /\ Loose(NewPass(tv))
  BY DEF NewPass, Loose
<1>4. \A i \in 1..Len(z) : z[i].at = "pass" /\ Loose(z[i])
  BY <1>2, <1>a
<1>5. Inside(tm, z)
  BY <1>2, <1>3, <1>4 DEF Inside
<1> QED BY <1>1, <1>5

-----------------------------------------------------------------------------
LEMMA InsideInit ==
  ASSUME Init PROVE Inside(timer, stack)
<1>1. /\ timer = [t \in Timers |-> timer[t]]
      /\ \A t \in Timers : Full(timer[t]) /\ timer[t].state = "unused"
  BY DEF Init, NoTimer, Full
<1>2. \A t \in Timers : ~IsLive(timer, t)
  BY <1>1 DEF IsLive
<1>3. stack = <<NewPass(0)>>
  BY DEF Init
<1> QED BY <1>1, <1>2, <1>3, InsideAlone

LEMMA InsideTop ==
  ASSUME Inside(timer, stack)
  PROVE  /\ Depth \in Nat /\ Depth >= 1 /\ Depth \in 1..Depth /\ IsSeq(stack)
         /\ Loose(Top) /\ Top = stack[Len(stack)]
<1>1. Len(stack) \in Nat /\ Len(stack) >= 1
  BY AnyPush DEF Inside
<1>2. Len(stack) \in 1..Len(stack)
  BY <1>1
<1> QED BY <1>1, <1>2 DEF Inside, Depth, Top

\* The innermost activation changes and stays what it is.
LEMMA InsideOnTop ==
  ASSUME Inside(timer, stack), NEW f, Loose(f), f.at = "call" <=> Top.at = "call",
         Top.at = "call" => f.t = Top.t
  PROVE  Inside(timer, OnTop(f)) /\ Len(OnTop(f)) = Len(stack) /\ OnTop(f)[Len(stack)] = f
<1>1. /\ Len(stack) \in Nat /\ Len(stack) >= 1 /\ Len(stack) \in 1..Len(stack)
      /\ IsSeq(stack) /\ Top = stack[Len(stack)]
  BY InsideTop DEF Depth
<1>a. /\ f.at = "call" <=> stack[Len(stack)].at = "call"
      /\ stack[Len(stack)].at = "call" => f.t = stack[Len(stack)].t
  BY <1>1
<1>2. PICK z, n : z = Append(SubSeq(stack, 1, n - 1), f) /\ n = Len(stack)
  OBVIOUS
<1>b. IsSeq(stack) /\ n \in 1..Len(stack)
  BY <1>1, <1>2
<1>c. IsSeq(z) /\ Len(z) = n /\ z[n] = f /\ \A i \in 1..n - 1 : z[i] = stack[i]
  BY <1>2, <1>b, AnyTop
<1>3. /\ IsSeq(z) /\ Len(z) = Len(stack) /\ z[Len(stack)] = f
      /\ \A i \in 1..Len(stack) - 1 : z[i] = stack[i]
  BY <1>2, <1>c
<1>4. Inside(timer, z)
  BY <1>1, <1>3, <1>a, InsideKept
<1>5. OnTop(f) = z
  BY <1>2 DEF OnTop, Below, Depth
<1> QED BY <1>3, <1>4, <1>5

LEMMA InsideCalled ==
  ASSUME Inside(timer, stack), Top.at = "call"
  PROVE  LET f == [Top EXCEPT !.calls = @ - 1] IN Loose(f) /\ f.at = "call" /\ f.t = Top.t
<1>1. Top = [at |-> "call", t |-> Top.t, calls |-> Top.calls]
  BY InsideTop DEF Loose
<1> QED BY <1>1 DEF Loose

LEMMA InsideCommand ==
  ASSUME Inside(timer, stack), Command
  PROVE  Inside(timer, stack')
<1>1. CASE Top.at = "call" /\ stack' = OnTop([Top EXCEPT !.calls = @ - 1])
  BY <1>1, InsideCalled, InsideOnTop
<1>2. CASE UNCHANGED stack
  BY <1>2
<1> QED BY <1>1, <1>2 DEF Command

LEMMA InsideAdd ==
  ASSUME NEW s, Inside(timer, s), NEW n, NEW secs, NEW per \in BOOLEAN, NEW freq,
         NEW byAt, TimerAdd(n, secs, per, freq, byAt)
  PROVE  Inside(timer', s)
<1>1. PICK t, r :
        /\ t \in Timers /\ timer[t].state = "unused" /\ timer' = [timer EXCEPT ![t] = r]
        /\ r = [state |-> "live", name |-> n, at |-> byAt, persist |-> per,
                period |-> Millis(freq), ends |-> now + Millis(secs),
                asked |-> secs * Milli, every |-> freq * Milli, since |-> now,
                started |-> FALSE]
  BY DEF TimerAdd
<1>2. Full(r) /\ ~r.started
  BY <1>1 DEF Full
<1>3. timer = [u \in Timers |-> timer[u]] /\ \A u \in Timers : Full(timer[u])
  BY DEF Inside
<1>4. PICK un : un = timer'
  OBVIOUS
<1>5. /\ un = [u \in Timers |-> un[u]]
      /\ un[t] = r /\ \A u \in Timers : u # t => un[u] = timer[u]
  BY <1>1, <1>3, <1>4
<1>6. Inside(un, s)
  <2>1. \A u \in Timers : Full(un[u])
    BY <1>2, <1>3, <1>5
  <2>2. \A u \in Timers : un[u] = timer[u] \/ (timer[u].state = "unused" /\ ~un[u].started)
    BY <1>1, <1>2, <1>5
  <2> QED BY <1>5, <2>1, <2>2, InsideTimers
<1> QED BY <1>4, <1>6

LEMMA InsideRemove ==
  ASSUME NEW s, Inside(timer, s), NEW ts, TimersRemove(ts)
  PROVE  Inside(timer', s) /\ \A t \in ts : ~IsLive(timer', t)
<1>1. PICK un : un = timer'
  OBVIOUS
<1>2. /\ un = [t \in Timers |-> un[t]]
      /\ \A t \in Timers : un[t] = IF t \in ts THEN NoTimer("freed") ELSE timer[t]
  BY <1>1 DEF TimersRemove
<1>3. NoTimer("freed").state = "freed" /\ Full(NoTimer("freed"))
  BY DEF NoTimer, Full
<1>4. \A t \in Timers : Full(un[t]) /\ (un[t] = timer[t] \/ un[t].state = "freed")
  BY <1>2, <1>3 DEF Inside
<1>5. Inside(un, s)
  BY <1>2, <1>4, InsideTimers
<1>6. \A t \in ts : ~IsLive(un, t)
  BY <1>2, <1>3 DEF IsLive
<1> QED BY <1>1, <1>5, <1>6

LEMMA InsideNewPass ==
  ASSUME NEW tv PROVE Loose(NewPass(tv)) /\ NewPass(tv).at = "pass"
  BY DEF NewPass, Loose

LEMMA InsideCmdLoop ==
  ASSUME Inside(timer, stack), CmdLoop
  PROVE  Inside(timer', stack')
<1>1. timer' = timer /\ Loose(NewPass(now)) /\ NewPass(now).at = "pass"
  BY InsideNewPass DEF CmdLoop
<1>2. CASE /\ Top.at = "call"
           /\ stack' = Append(OnTop([Top EXCEPT !.calls = @ - 1]), NewPass(now))
  <2>1. PICK f : /\ f = [Top EXCEPT !.calls = @ - 1]
                 /\ Loose(f) /\ f.at = "call" /\ f.t = Top.t
    BY <1>2, InsideCalled
  <2>2. Inside(timer, OnTop(f)) /\ Len(OnTop(f)) = Len(stack) /\ OnTop(f)[Len(stack)] = f
    BY <1>2, <2>1, InsideOnTop
  <2>3. ~WaitOnce => timer[f.t].persist
    BY <1>2, <2>1 DEF CmdLoop
  <2>4. PICK z : z = OnTop(f)
    OBVIOUS
  <2>5. Inside(timer, Append(z, NewPass(now)))
    BY <1>1, <2>2, <2>3, <2>4, InsidePush
  <2> QED BY <1>1, <1>2, <2>1, <2>4, <2>5
<1>3. CASE InHandlers /\ stack' = Append(stack, NewPass(now))
  <2>1. stack[Len(stack)].at # "call"
    BY <1>3, InsideTop DEF InHandlers
  <2>2. Inside(timer, Append(stack, NewPass(now)))
    BY <1>1, <2>1, InsidePush
  <2> QED BY <1>1, <1>3, <2>2
<1> QED BY <1>2, <1>3 DEF CmdLoop

LEMMA InsideCommands ==
  ASSUME Inside(timer, stack), Commands
  PROVE  Inside(timer', stack')
<1>1. ASSUME NEW n, NEW secs, NEW per \in BOOLEAN, NEW freq, NEW byAt, Command,
             TimerAdd(n, secs, per, freq, byAt)
      PROVE  Inside(timer', stack')
  <2>1. PICK z : z = stack'
    OBVIOUS
  <2>2. Inside(timer, z)
    BY <1>1, <2>1, InsideCommand
  <2> QED BY <1>1, <2>1, <2>2, InsideAdd
<1>2. ASSUME NEW ts, Command, TimersRemove(ts)
      PROVE  Inside(timer', stack')
  <2>1. PICK z : z = stack'
    OBVIOUS
  <2>2. Inside(timer, z)
    BY <1>2, <2>1, InsideCommand
  <2> QED BY <1>2, <2>1, <2>2, InsideRemove
<1>3. ASSUME NEW n, NEW secs, NEW freq, AtAdd(n, secs, freq)
      PROVE  Inside(timer', stack')
  <2>1. PICK per \in BOOLEAN, every \in {freq, secs} : TimerAdd(n, secs, per, every, TRUE)
    BY <1>3 DEF AtAdd
  <2> QED BY <1>1, <1>3, <2>1 DEF AtAdd
<1>4. ASSUME NEW n, RemoveNamed(n)
      PROVE  Inside(timer', stack')
  BY <1>2, <1>4 DEF RemoveNamed
<1>5. CASE \E secs \in Periods, per \in BOOLEAN :
             \/ CmdTimerAddUnnamed(secs, per)
             \/ \E n \in Names : CmdTimerAdd(n, secs, per)
  BY <1>1, <1>5 DEF CmdTimerAddUnnamed, CmdTimerAdd
<1>6. CASE \E secs \in Periods, freq \in Periods \cup {0} :
             \/ CmdAtAddUnnamed(secs, freq)
             \/ \E n \in Names : CmdAtAdd(n, secs, freq)
  BY <1>3, <1>6 DEF CmdAtAddUnnamed, CmdAtAdd
<1>7. CASE \E n \in Names : CmdTimerDel(n) \/ CmdAtDel(n)
  BY <1>4, <1>7 DEF CmdTimerDel, CmdAtDel
<1>8. CASE \E byAt \in BOOLEAN : CmdDelAll(byAt)
  BY <1>2, <1>8 DEF CmdDelAll
<1> QED BY <1>5, <1>6, <1>7, <1>8, InsideCmdLoop DEF Commands

LEMMA LoosePass ==
  ASSUME NEW tv, NEW c, NEW again \in BOOLEAN
  PROVE  Loose([at |-> "pass", tv |-> tv, cur |-> c, again |-> again])
<1>1. PICK f : f = [at |-> "pass", tv |-> tv, cur |-> c, again |-> again]
  OBVIOUS
<1>2. f.at = "pass" /\ f.tv = tv /\ f.cur = c /\ f.again = again
  BY <1>1
<1>3. Loose(f)
  BY <1>1, <1>2 DEF Loose
<1> QED BY <1>1, <1>3

LEMMA InsideCur ==
  ASSUME Inside(timer, stack), Top.at = "pass", NEW c, NEW again \in BOOLEAN
  PROVE  LET f == [Top EXCEPT !.cur = c, !.again = again]
             g == [Top EXCEPT !.cur = c]
         IN  Loose(f) /\ f.at = "pass" /\ f.again = again /\ Loose(g) /\ g.at = "pass"
<1>1. /\ Top = [at |-> "pass", tv |-> Top.tv, cur |-> Top.cur, again |-> Top.again]
      /\ Top.again \in BOOLEAN
  BY InsideTop DEF Loose
<1>2. PICK f, g : /\ f = [Top EXCEPT !.cur = c, !.again = again]
                  /\ g = [Top EXCEPT !.cur = c]
  OBVIOUS
<1>a. g = [at |-> "pass", tv |-> Top.tv, cur |-> c, again |-> Top.again]
  BY <1>1, <1>2
<1>b. f = [g EXCEPT !.again = again]
  BY <1>1, <1>2, <1>a
<1>c. f = [at |-> "pass", tv |-> Top.tv, cur |-> c, again |-> again]
  BY <1>a, <1>b
<1>3. Loose([at |-> "pass", tv |-> Top.tv, cur |-> c, again |-> again])
      /\ Loose([at |-> "pass", tv |-> Top.tv, cur |-> c, again |-> Top.again])
  BY <1>1, LoosePass
<1> QED BY <1>2, <1>3, <1>a, <1>c

LEMMA InsideStart ==
  ASSUME Inside(timer, stack), NEW t \in Timers, PassStart(t)
  PROVE  Inside(timer', stack')
<1>1. /\ Top.at = "pass" /\ IsLive(timer, t) /\ Full(timer[t])
      /\ timer[t].persist \in BOOLEAN
  BY DEF PassStart, InPass, Following, Live, IsLive, Inside, Full
<1>2. PICK f : /\ f = [Top EXCEPT !.cur = t, !.again = timer[t].persist]
               /\ Loose(f) /\ f.at = "pass" /\ f.again = timer[t].persist
  BY <1>1, InsideCur
<1>a. Inside(timer, OnTop(f)) /\ Len(OnTop(f)) = Len(stack) /\ OnTop(f)[Len(stack)] = f
  BY <1>1, <1>2, InsideOnTop
<1>3. PICK z : z = OnTop(f) /\ Inside(timer, z) /\ z[Len(z)] = f
  BY <1>a
<1>4. Loose(CallFrame(t)) /\ CallFrame(t).at = "call" /\ CallFrame(t).t = t
  BY DEF CallFrame, Loose
<1>5. PICK r : r = Started(t)
  OBVIOUS
<1>6. Full(r) /\ r.state = timer[t].state /\ r.persist = timer[t].persist
  BY <1>1, <1>5 DEF Started, Full
<1>7. r.state = "live"
  BY <1>1, <1>6 DEF IsLive
<1>8. Inside([timer EXCEPT ![t] = r], Append(z, CallFrame(t)))
  BY <1>1, <1>2, <1>3, <1>4, <1>6, <1>7, InsideCall
<1>9. timer' = [timer EXCEPT ![t] = r] /\ stack' = Append(z, CallFrame(t))
  BY <1>2, <1>3, <1>5 DEF PassStart
<1> QED BY <1>8, <1>9

LEMMA InsideReturn ==
  ASSUME Inside(timer, stack), NEW res, CallReturn(res)
  PROVE  Inside(timer', stack')
<1>1. /\ Len(stack) \in Nat /\ Len(stack) \in 1..Len(stack) /\ IsSeq(stack)
      /\ Top = stack[Len(stack)] /\ stack[Len(stack)].at = "call"
  BY InsideTop DEF Depth, CallReturn
<1>2. PICK t, m, loop, gone :
        /\ t = Top.t /\ m = Len(stack) - 1 /\ loop = stack[m]
        /\ gone = Gone(res, loop.again)
  OBVIOUS
<1>3. /\ Len(stack) > 1 /\ loop.at = "pass" /\ t \in Timers
      /\ IsLive(timer, t) => loop.again = timer[t].persist
  BY <1>1, <1>2 DEF Inside
<1>4. m \in 1..Len(stack) /\ m - 1 = Len(stack) - 2 /\ m >= 1
  BY <1>1, <1>2, <1>3
<1>5. /\ Loose(loop) /\ loop.again \in BOOLEAN
  BY <1>2, <1>3, <1>4 DEF Inside, Loose
<1>6. PICK ts, c :
        /\ ts = (IF gone THEN Live \cap {t} ELSE {}) /\ TimersRemove(ts)
        /\ c = (IF gone THEN Resume(t) ELSE t)
        /\ stack' = Append(SubSeq(stack, 1, Len(stack) - 2), [loop EXCEPT !.cur = c])
  BY <1>2 DEF CallReturn, Depth
<1>7. PICK un : un = timer' /\ Inside(un, stack) /\ \A u \in ts : ~IsLive(un, u)
  BY <1>6, InsideRemove
<1>8. ~IsLive(un, t) \/ un[t].persist
  <2>1. CASE gone
    <3>1. CASE IsLive(timer, t)
      BY <1>3, <1>6, <1>7, <2>1, <3>1 DEF Live, IsLive
    <3>2. CASE ~IsLive(timer, t)
      <4>1. ts = {}
        BY <1>3, <1>6, <3>2 DEF Live, IsLive
      <4>2. un[t] = timer[t]
        BY <1>3, <1>6, <1>7, <4>1 DEF TimersRemove
      <4> QED BY <3>2, <4>2 DEF IsLive
    <3> QED BY <3>1, <3>2
  <2>2. CASE ~gone
    <3>1. loop.again
      BY <1>2, <2>2 DEF Gone
    <3>2. un[t] = timer[t]
      BY <1>3, <1>6, <1>7, <2>2 DEF TimersRemove
    <3> QED BY <1>3, <3>1, <3>2 DEF IsLive
  <2> QED BY <2>1, <2>2
<1>9. PICK b : b = SubSeq(stack, 1, Len(stack) - 1) /\ Inside(un, b)
  BY <1>1, <1>2, <1>3, <1>7, <1>8, InsidePop
<1>10. Len(b) = m /\ \A i \in 1..m : b[i] = stack[i]
  <2>1. m \in 0..Len(stack)
    BY <1>4
  <2> QED BY <1>1, <1>2, <1>9, <2>1, AnySubSeq
<1>11. PICK f : f = [loop EXCEPT !.cur = c]
  OBVIOUS
<1>12. Loose(f) /\ f.at = "pass"
  <2>1. loop = [at |-> "pass", tv |-> loop.tv, cur |-> loop.cur, again |-> loop.again]
    BY <1>3, <1>5 DEF Loose
  <2> QED BY <1>5, <1>11, <2>1 DEF Loose
<1>13. PICK z : z = Append(SubSeq(stack, 1, m - 1), f)
  OBVIOUS
<1>14. IsSeq(z) /\ Len(z) = m /\ z[m] = f /\ \A i \in 1..m - 1 : z[i] = stack[i]
  BY <1>1, <1>4, <1>13, AnyTop
<1>15. /\ b[Len(b)].at = "pass" /\ z[Len(b)] = f /\ Len(z) = Len(b)
       /\ \A i \in 1..Len(b) - 1 : z[i] = b[i]
  BY <1>2, <1>3, <1>4, <1>10, <1>14
<1>16. Inside(un, z)
  BY <1>9, <1>12, <1>14, <1>15, InsideKept
<1>17. stack' = z
  BY <1>4, <1>6, <1>11, <1>13
<1> QED BY <1>7, <1>16, <1>17

LEMMA InsideLoop ==
  ASSUME Inside(timer, stack), Loop
  PROVE  Inside(timer', stack')
<1>1. ASSUME NEW t \in Timers, PassSkip(t)
      PROVE  Inside(timer', stack')
  <2>1. PICK f : f = [Top EXCEPT !.cur = t] /\ Loose(f) /\ f.at = "pass"
    BY <1>1, InsideCur DEF PassSkip, InPass
  <2>2. Inside(timer, OnTop(f))
    BY <1>1, <2>1, InsideOnTop DEF PassSkip, InPass
  <2> QED BY <1>1, <2>1, <2>2 DEF PassSkip
<1>2. ASSUME PassEnd
      PROVE  Inside(timer', stack')
  <2>a. PICK f : f = [at |-> "wait", tv |-> Top.tv, left |-> SelectTimeout]
    OBVIOUS
  <2>b. f.at = "wait"
    BY <2>a
  <2>1. Loose(f) /\ f.at = "wait"
    BY <2>b DEF Loose
  <2>2. Inside(timer, OnTop(f))
    BY <1>2, <2>1, InsideOnTop DEF PassEnd, InPass
  <2> QED BY <1>2, <2>a, <2>2 DEF PassEnd
<1>3. ASSUME SelectReturn
      PROVE  Inside(timer', stack')
  <2>a. PICK f : f = [at |-> "handlers"]
    OBVIOUS
  <2>b. f.at = "handlers"
    BY <2>a
  <2>1. Loose(f) /\ f.at = "handlers"
    BY <2>b DEF Loose
  <2>2. Inside(timer, OnTop(f))
    BY <1>3, <2>1, InsideOnTop DEF SelectReturn, InWait
  <2> QED BY <1>3, <2>a, <2>2 DEF SelectReturn
<1>4. ASSUME LoopReturn
      PROVE  Inside(timer', stack')
  <2>1. /\ Len(stack) \in Nat /\ Len(stack) >= 1 /\ stack[Len(stack)].at = "handlers"
        /\ timer' = timer
    BY <1>4, InsideTop DEF LoopReturn, InHandlers, Depth
  <2>2. CASE Len(stack) > 1
    <3>1. Inside(timer, SubSeq(stack, 1, Len(stack) - 1))
      BY <2>1, <2>2, InsidePop
    <3> QED BY <1>4, <2>1, <2>2, <3>1 DEF LoopReturn, Below, Depth
  <2>3. CASE ~(Len(stack) > 1)
    <3>n. PICK n : n = Len(stack) /\ n \in Nat /\ n >= 1 /\ ~(n > 1)
      BY <2>1, <2>3
    <3>a. Len(stack) = 1
      BY <3>n
    <3>b. \A i \in 1..Len(stack) : i = Len(stack)
      BY <3>a
    <3>1. \A i \in 1..Len(stack) : stack[i].at # "call"
      BY <2>1, <3>b
    <3>2. /\ timer = [t \in Timers |-> timer[t]] /\ \A t \in Timers : Full(timer[t])
          /\ \A t \in Timers : ~(IsLive(timer, t) /\ timer[t].started /\ ~timer[t].persist)
      BY <3>1 DEF Inside
    <3>3. Inside(timer, <<NewPass(now)>>)
      BY <3>2, InsideAlone
    <3> QED BY <1>4, <2>1, <2>3, <3>3 DEF LoopReturn, Depth
  <2> QED BY <2>2, <2>3
<1> QED BY <1>1, <1>2, <1>3, <1>4, InsideStart, InsideReturn DEF Loop

LEMMA InsideSpec == Spec => []Inside(timer, stack)
<1>1. Init => Inside(timer, stack)
  BY InsideInit
<1>2. Inside(timer, stack) /\ [Next]_vars => Inside(timer, stack)'
  BY InsideCommands, InsideLoop DEF Next, vars
<1> QED BY <1>1, <1>2, PTL DEF Spec

-----------------------------------------------------------------------------
(* The theorems.                                                           *)

\* Every reachable state satisfies the invariant.
THEOREM Inductive ==
  ASSUME Guarded
  PROVE  Spec => []IInv
<1>1. Init => IInv
  BY InitGood
<1>2. IInv /\ [Next]_vars => IInv'
  BY StepGood
<1> QED BY <1>1, <1>2, PTL DEF Spec

\* If no command removes the timer that executes it and none of a timer that runs
\* once calls ekg_loop(), then no pass stands on a timer that was freed and no
\* callback's timer is freed under it, whatever other timers commands and nested
\* loops remove and add in the middle of a pass (ekg.c:197-237, timers_removei).
\* The code makes sure of neither: either use frees the timer that ekg.c:203 is
\* about to take out.
THEOREM NothingFreedIsUsed ==
  ASSUME Guarded
  PROVE  Spec => []NoUseAfterFree
<1>1. IInv => NoUseAfterFree
  <2> SUFFICES ASSUME IInv, NEW i \in 1..Depth PROVE Holds(stack[i])
    BY DEF NoUseAfterFree
  <2>1. i \in 1..Len(stack) /\ stack[i] \in Frames
    BY DEF IInv, Good, Typed, Depth
  <2>2. stack[i].at = "pass" => stack[i].cur = 0 \/ IsLive(timer, stack[i].cur)
    BY <2>1 DEF IInv, Good, Standing
  <2>3. stack[i].at = "call" => IsLive(timer, stack[i].t)
    BY <2>1 DEF IInv, Good, Nested
  <2>4. \A t : IsLive(timer, t) => t \in Live /\ t # -1
    BY TimersAssumption DEF IsLive, Live, Timers
  <2>5. stack[i].at = "pass" => stack[i].cur # -1 /\ (stack[i].cur # 0 => stack[i].cur \in Live)
    BY <2>2, <2>4
  <2>6. stack[i].at = "call" => stack[i].t \in Live
    BY <2>3, <2>4
  <2> QED BY <2>5, <2>6 DEF Holds
<1> QED BY <1>1, Inductive, PTL

\* Under the same two assumptions, a pass that reaches the end of the list has
\* served every timer that was due when it began, whatever else was removed and
\* added under it.
THEOREM DueAreServed ==
  ASSUME Guarded
  PROVE  Spec => []EachServed
<1>1. IInv => EachServed
  <2> SUFFICES ASSUME IInv, InPass, Following(Top.cur) = {}, NEW t \in Live
               PROVE  timer[t].ends > Top.tv \/ timer[t].period = 0
    BY DEF EachServed
  <2>1. t \in Timers /\ IsLive(timer, t)
    BY DEF Live, IsLive
  <2> QED BY <2>1, SelectTimeoutFacts DEF Served
<1> QED BY <1>1, Inductive, PTL

\* Under the same two assumptions, select() never sleeps over the end of a timer.
THEOREM NeverOversleeps ==
  ASSUME Guarded
  PROVE  Spec => Punctual
<1>1. IInv /\ [Next]_vars
        => [InWait => \A t \in Live : now' <= timer[t].ends + (now - Top.tv)]_vars
  <2> SUFFICES ASSUME IInv, Next, InWait, NEW t \in Live
               PROVE  now' <= timer[t].ends + (now - Top.tv)
    OBVIOUS
  <2>1. /\ Top = stack[Len(stack)] /\ Top \in Frames /\ Top.at = "wait" /\ now \in Nat
    BY TimersAssumption DEF IInv, Good, Typed, Top, Depth, InWait
  <2>2. SelectReturn
    BY <2>1 DEF Next, Loop, Commands, CmdTimerAddUnnamed, CmdTimerAdd, CmdAtAdd,
          CmdAtAddUnnamed, AtAdd, CmdTimerDel, CmdAtDel, RemoveNamed, CmdDelAll, CmdLoop,
          Command, InHandlers, InPass, PassStart, PassSkip, CallReturn, PassEnd, LoopReturn
  <2>3. PICK d \in 0..Top.left : now' = now + d
    BY <2>2 DEF SelectReturn
  <2>4. Top.tv \in Nat /\ Top.left \in Nat /\ timer[t].ends \in Nat
    BY <2>1, FrameFacts, TimerFacts, TimersAssumption, UnitsAssumption DEF IInv, Good, Live
  <2>5. Top.tv + Top.left <= timer[t].ends
    BY <2>1 DEF IInv, Good, Sleep, Live, IsLive
  <2> QED BY <2>1, <2>3, <2>4, <2>5
<1> QED BY <1>1, Inductive, PTL DEF Spec, Punctual

\* Of any commands, without an assumption: a timer that is to run once is executed
\* a second time only while its own command is still being executed, that is, by
\* a loop that this command called (ekg.c:197-206).
AgainInside ==
  [][\A t \in Timers : PassStart(t) /\ timer[t].started /\ ~timer[t].persist
                         => t \in Executing]_vars
THEOREM AgainOnlyInside == Spec => AgainInside
<1>1. Inside(timer, stack) /\ [Next]_vars
        => [\A t \in Timers : PassStart(t) /\ timer[t].started /\ ~timer[t].persist
                                => t \in Executing]_vars
  <2> SUFFICES ASSUME Inside(timer, stack), NEW t \in Timers, PassStart(t),
                      timer[t].started, ~timer[t].persist
               PROVE  t \in Executing
    OBVIOUS
  <2>1. IsLive(timer, t)
    BY DEF PassStart, Following, Live, IsLive
  <2>2. PICK i \in 1..Len(stack) : stack[i].at = "call" /\ stack[i].t = t
    BY <2>1 DEF Inside
  <2> QED BY <2>2 DEF Executing, Depth
<1> QED BY <1>1, InsideSpec, PTL DEF Spec, AgainInside

\* A timer that is to run once is executed once, whatever other timers and loops
\* there are and whatever its command removes, its own timer included, as long
\* as that command does not call ekg_loop(): the pass takes the timer out only
\* after the call (ekg.c:202-206), so that a loop inside it finds it again.
THEOREM ExecutedOnce ==
  ASSUME ~WaitOnce PROVE Spec => OnceOnly
<1>1. Inside(timer, stack) /\ [Next]_vars
        => [\A t \in Timers : PassStart(t) /\ timer[t].started => timer[t].persist]_vars
  <2> SUFFICES ASSUME Inside(timer, stack), NEW t \in Timers, PassStart(t),
                      timer[t].started, ~timer[t].persist
               PROVE  FALSE
    OBVIOUS
  <2>1. IsLive(timer, t) /\ Top.at = "pass"
    BY DEF PassStart, InPass, Following, Live, IsLive
  <2>2. PICK i \in 1..Len(stack) : stack[i].at = "call" /\ stack[i].t = t
    BY <2>1 DEF Inside
  <2>3. i # Len(stack) /\ Len(stack) \in Nat
    BY <2>1, <2>2, InsideTop DEF Depth
  <2>4. i < Len(stack)
    BY <2>2, <2>3
  <2> QED BY <2>1, <2>2, <2>4 DEF Inside
<1> QED BY <1>1, InsideSpec, PTL DEF Spec, OnceOnly

\* Under the same two assumptions, and when no period wraps, a command is not
\* executed before the time its user asked for has passed since it was given or
\* last executed.
THEOREM NeverEarly ==
  ASSUME Guarded, NoWrap
  PROVE  Spec => NotEarly
<1>1. IInv /\ [Next]_vars
        => [\A t \in Timers : PassStart(t) => Top.tv >= timer[t].since + timer[t].asked]_vars
  <2> SUFFICES ASSUME IInv, NEW t \in Timers, PassStart(t)
               PROVE  Top.tv >= timer[t].since + timer[t].asked
    OBVIOUS
  <2>1. /\ Len(stack) \in 1..Len(stack) /\ Top = stack[Len(stack)] /\ Top.at = "pass"
        /\ Top \in Frames
    BY DEF IInv, Good, Typed, PassStart, InPass, Top, Depth
  <2>2. IsLive(timer, t)
    BY DEF PassStart, Following, Live, IsLive
  <2>3. timer[t].ends >= timer[t].since + timer[t].asked
    BY <2>1, <2>2 DEF IInv, Good, Once, Asked
  <2>4. /\ Top.tv \in Nat /\ timer[t].ends \in Nat /\ timer[t].since \in Nat
        /\ timer[t].asked \in Nat
    BY <2>1, FrameFacts, TimerFacts, TimersAssumption DEF IInv, Good
  <2>5. Top.tv >= timer[t].ends
    BY DEF PassStart, Expired
  <2> QED BY <2>3, <2>4, <2>5
<1> QED BY <1>1, Inductive, PTL DEF Spec, NotEarly
=============================================================================
