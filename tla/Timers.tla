------------------------------- MODULE Timers -------------------------------
(***************************************************************************)
(* The timers of ekg2: the list in ekg/stuff.c, the pass of ekg_loop()     *)
(* over it (ekg/ekg.c), its computation of how long select() may sleep,    *)
(* and the commands /timer and /at of ekg/commands.c.                      *)
(*                                                                         *)
(* A timer is known by the order of its creation; timers_add() appends, so *)
(* the list goes from smaller to larger numbers.  Removal frees at once.   *)
(* Time is counted in ticks; a second has Milli of them, as it has 1000    *)
(* milliseconds in the code, and a period wraps at Wrap, as it does at     *)
(* 2^32 there.                                                             *)
(***************************************************************************)
EXTENDS Integers, Sequences, FiniteSets

CONSTANTS
  MaxTimers,   \* bound: calls of timer_add() in a behaviour
  MaxTime,     \* bound: the clock
  MaxCalls,    \* bound: timer commands given by one callback
  MaxLoops,    \* activations of ekg_loop(): 1 is never nested
  Milli,       \* ticks in a second
  Wrap,        \* the number of values of an unsigned int
  Periods,     \* seconds that users ask for
  Names,       \* names that users give
  DelCommands, \* the commands used to remove by name: "timer", "at"
  Slow,        \* ticks that the command of a timer may take
  WaitOnce,    \* may the command of a timer that runs once call ekg_loop()?
  RemoveOwn    \* may a command remove the timer that executes it?

ASSUME TimersAssumption == MaxTimers \in Nat \ {0} /\ MaxTime \in Nat
ASSUME BoundsAssumption == MaxCalls \in Nat /\ MaxLoops \in Nat \ {0}
ASSUME UnitsAssumption  == Milli \in Nat \ {0} /\ Wrap \in Nat \ {0}
ASSUME InputsAssumption == Periods \subseteq Nat /\ Names \subseteq STRING
ASSUME DelAssumption    == DelCommands \subseteq {"timer", "at"}
ASSUME UseAssumption    == WaitOnce \in BOOLEAN /\ RemoveOwn \in BOOLEAN
ASSUME SlowAssumption   == Slow \in Nat

VARIABLES
  timer,    \* number |-> struct timer
  now,      \* gettimeofday()
  stack     \* the activations of ekg_loop() and of callbacks, the innermost last

vars == <<timer, now, stack>>

\* A timer that is not there.  The last four fields of one that is are its
\* history: the ticks its user asked for until its next and between its later
\* starts, the time it was made or last started, whether it ever was.
NoTimer(state) ==
  [state |-> state, name |-> "", at |-> FALSE, persist |-> FALSE, period |-> 0,
   ends |-> 0, asked |-> 0, every |-> 0, since |-> 0, started |-> FALSE]

Timers == 1..MaxTimers
Live   == {t \in Timers : timer[t].state = "live"}

\* xstrcasecmp().
Folded(n) == CASE n = "A" -> "a" [] n = "B" -> "b" [] OTHER -> n
Same(m, n) == Folded(m) = Folded(n)

Numeral(i) == <<"1", "2", "3", "4", "5", "6", "7", "8", "9">>[i]

Depth   == Len(stack)
Top     == stack[Depth]
Below   == SubSeq(stack, 1, Depth - 1)
OnTop(f) == Append(Below, f)

\* ekg_loop(): tv is read at its start, cur is the timer the pass is at, 0 the
\* list itself, -1 the NULL that timers_removei() gave back.
NewPass(tv) == [at |-> "pass", tv |-> tv, cur |-> 0, again |-> FALSE]
CallFrame(t) == [at |-> "call", t |-> t, calls |-> MaxCalls]

InPass == Top.at = "pass"
InWait == Top.at = "wait"
InHandlers == Top.at = "handlers"

\* The pointers that an activation dereferences when control is back in it.
Holds(f) ==
  CASE f.at = "pass" -> f.cur # -1 /\ (f.cur # 0 => f.cur \in Live)
    [] f.at = "call" -> f.t \in Live
    [] OTHER -> TRUE
Sane == Holds(Top)

-----------------------------------------------------------------------------
(* The list. *)

Following(c) == {t \in Live : t > c /\ \A u \in Live : u > c => t <= u}
Preceding(t) == CHOOSE p \in {0} \cup Live :
                  p < t /\ \A u \in Live : u < t => u <= p

\* Slip: timers_removei() gives the element after the removed one.
ResumeNext(t) ==
  IF t \notin Live THEN -1
  ELSE IF Following(t) = {} THEN t ELSE CHOOSE n \in Following(t) : TRUE

\* Slip: timers_removei() gives the removed element itself.
ResumeItself(t) == t

\* What timers_removei(t) returns: the place from which the walk goes on.
Resume(t) == IF t \in Live THEN Preceding(t) ELSE -1

\* timer_add_ms() without a name: the first number that no timer has.
FreeNumber ==
  Numeral(CHOOSE i \in 1..MaxTimers + 1 :
            /\ \A t \in Live : timer[t].name # Numeral(i)
            /\ \A j \in 1..i - 1 : \E t \in Live : timer[t].name = Numeral(j))

\* timer_add(): seconds become milliseconds in an unsigned int.
Millis(secs) == (secs * Milli) % Wrap

\* timer_add(n, secs, per), which /at follows by t->at = 1, t->period = freq * 1000.
TimerAdd(n, secs, per, freq, byAt) ==
  \E t \in Timers :
    /\ timer[t].state = "unused"
    /\ \A u \in Timers : u < t => timer[u].state # "unused"
    /\ timer' = [timer EXCEPT ![t] =
         [state |-> "live", name |-> n, at |-> byAt, persist |-> per,
          period |-> Millis(freq), ends |-> now + Millis(secs),
          asked |-> secs * Milli, every |-> freq * Milli, since |-> now, started |-> FALSE]]

\* timers_removei() of each.
TimersRemove(ts) ==
  timer' = [t \in Timers |-> IF t \in ts THEN NoTimer("freed") ELSE timer[t]]

-----------------------------------------------------------------------------
(* Commands, given by the user (in the handlers of the watches, which      *)
(* ekg_loop() runs after select()) or by the command of a timer.           *)

Executing == {stack[i].t : i \in {j \in 1..Depth : stack[j].at = "call"}}
MayRemove(ts) == RemoveOwn \/ ts \cap Executing = {}

\* A command is executed: by a callback out of its budget, by the user freely.
Command ==
  \/ Top.at = "call" /\ Top.calls > 0 /\ stack' = OnTop([Top EXCEPT !.calls = @ - 1])
  \/ InHandlers /\ UNCHANGED stack

\* /timer --add [name] [*/]secs command
CmdTimerAdd(n, secs, per) ==
  /\ Command
  /\ \A t \in Live : ~timer[t].at => ~Same(timer[t].name, n)
  /\ TimerAdd(n, secs, per, secs, FALSE)
  /\ UNCHANGED now

CmdTimerAddUnnamed(secs, per) ==
  /\ Command
  /\ TimerAdd(FreeNumber, secs, per, secs, FALSE)
  /\ UNCHANGED now

\* /at --add [name] time[/freq] command.  A time that is past is moved by freq
\* until it is not, or refused; without freq the plan is not persistent.
AtAdd(n, secs, freq) ==
  /\ Command
  /\ secs > 0
  /\ TimerAdd(n, secs, freq # 0, IF freq # 0 THEN freq ELSE secs, TRUE)
  /\ UNCHANGED now

CmdAtAdd(n, secs, freq) ==
  (\A t \in Live : ~Same(timer[t].name, n)) /\ AtAdd(n, secs, freq)

CmdAtAddUnnamed(secs, freq) == AtAdd(FreeNumber, secs, freq)

\* timer_remove(NULL, n)
RemoveNamed(n) ==
  LET ts == {t \in Live : Same(timer[t].name, n)}
  IN /\ Command
     /\ ts # {} /\ MayRemove(ts)
     /\ TimersRemove(ts)
     /\ UNCHANGED now

\* /timer --del name
CmdTimerDel(n) == "timer" \in DelCommands /\ RemoveNamed(n)

\* /at --del name
CmdAtDel(n) == "at" \in DelCommands /\ RemoveNamed(n)

\* timer_remove_user(), of /timer --del * and /at --del *
CmdDelAll(byAt) ==
  LET ts == {t \in Live : timer[t].at = byAt}
  IN /\ Command
     /\ ts # {} /\ MayRemove(ts)
     /\ TimersRemove(ts)
     /\ UNCHANGED now

\* A command that waits for an answer calls ekg_loop().
CmdLoop ==
  /\ Top.at = "call" => WaitOnce \/ timer[Top.t].persist
  /\ Cardinality({i \in 1..Depth : stack[i].at # "call"}) < MaxLoops
  /\ \/ /\ Top.at = "call" /\ Top.calls > 0
        /\ stack' = Append(OnTop([Top EXCEPT !.calls = @ - 1]), NewPass(now))
     \/ InHandlers /\ stack' = Append(stack, NewPass(now))
  /\ UNCHANGED <<timer, now>>

-----------------------------------------------------------------------------
(* ekg_loop(). *)

Expired(t) == Top.tv >= timer[t].ends

\* Slip: the end of a persistent timer is not moved.
StartedUnmoved(t) ==
  [timer[t] EXCEPT !.asked = timer[t].every, !.since = Top.tv, !.started = TRUE]

Started(t) ==
  [timer[t] EXCEPT !.ends = IF timer[t].persist THEN Top.tv + timer[t].period ELSE @,
                   !.asked = timer[t].every, !.since = Top.tv, !.started = TRUE]

\* t->function(0, t->data) is called; a persistent timer is moved first.
PassStart(t) ==
  /\ Sane /\ InPass /\ t \in Following(Top.cur) /\ Expired(t)
  /\ stack' = Append(OnTop([Top EXCEPT !.cur = t, !.again = timer[t].persist]), CallFrame(t))
  /\ timer' = [timer EXCEPT ![t] = Started(t)]
  /\ UNCHANGED now

PassSkip(t) ==
  /\ Sane /\ InPass /\ t \in Following(Top.cur) /\ ~Expired(t)
  /\ stack' = OnTop([Top EXCEPT !.cur = t])
  /\ UNCHANGED <<timer, now>>

\* Slip: persist is only looked at when the callback returns -1.
GoneAsked(res, again) == res = -1 /\ ~again

\* What a callback that returns res leaves to do: timers_removei(), unless the
\* timer is to come again.
Gone(res, again) == res = -1 \/ ~again

Calls(t) == {i \in 1..Depth : stack[i].at = "call" /\ stack[i].t = t}

\* timer_handle_command() returns 0; a callback that returns -1 does not wait.
CallReturn(res) ==
  /\ Top.at = "call"
  /\ res = -1 => Calls(Top.t) = {Depth}
  /\ LET t    == Top.t
         loop == stack[Depth - 1]
         gone == Gone(res, loop.again)
     IN /\ TimersRemove(IF gone THEN Live \cap {t} ELSE {})
        /\ stack' = Append(SubSeq(stack, 1, Depth - 2),
                           [loop EXCEPT !.cur = IF gone THEN Resume(t) ELSE t])
  /\ \E d \in 0..Slow : now + d <= MaxTime /\ now' = now + d

\* The pass is over; how long may select() sleep?  Timers further than a
\* second away do not count, and the past is one microsecond: no tick.
Least(S) == CHOOSE x \in S : \A y \in S : x <= y

\* Slip: select() always sleeps for a second.
SelectSecond == Milli

SelectTimeout ==
  LET left == {timer[t].ends - Top.tv : t \in {u \in Live : timer[u].ends - Top.tv < Milli}}
      wait == Least(left \cup {Milli})
  IN  IF wait < 0 THEN 0 ELSE wait

PassEnd ==
  /\ Sane /\ InPass /\ Following(Top.cur) = {}
  /\ stack' = OnTop([at |-> "wait", tv |-> Top.tv, left |-> SelectTimeout])
  /\ UNCHANGED <<timer, now>>

\* select() returns, after what it was given or before.
SelectReturn ==
  /\ InWait
  /\ \E d \in 0..Top.left : now + d <= MaxTime /\ now' = now + d
  /\ stack' = OnTop([at |-> "handlers"])
  /\ UNCHANGED timer

\* ekg_loop() returns to the command that called it, or to main(), which calls
\* it again.
LoopReturn ==
  /\ InHandlers
  /\ stack' = IF Depth > 1 THEN Below ELSE <<NewPass(now)>>
  /\ UNCHANGED <<timer, now>>

Init ==
  /\ timer = [t \in Timers |-> NoTimer("unused")]
  /\ now = 0
  /\ stack = <<NewPass(0)>>

Commands ==
  \/ \E secs \in Periods, per \in BOOLEAN :
       \/ CmdTimerAddUnnamed(secs, per)
       \/ \E n \in Names : CmdTimerAdd(n, secs, per)
  \/ \E secs \in Periods, freq \in Periods \cup {0} :
       \/ CmdAtAddUnnamed(secs, freq)
       \/ \E n \in Names : CmdAtAdd(n, secs, freq)
  \/ \E n \in Names : CmdTimerDel(n) \/ CmdAtDel(n)
  \/ \E byAt \in BOOLEAN : CmdDelAll(byAt)
  \/ CmdLoop

Loop == \/ \E t \in Timers : PassStart(t) \/ PassSkip(t)
        \/ \E res \in {-1, 0} : CallReturn(res)
        \/ PassEnd \/ SelectReturn \/ LoopReturn

Next == Commands \/ Loop

Spec == Init /\ [][Next]_vars

-----------------------------------------------------------------------------
(* Properties. *)

Frames ==
  [at : {"pass"}, tv : 0..MaxTime, cur : -1..MaxTimers, again : BOOLEAN]
  \cup [at : {"call"}, t : Timers, calls : 0..MaxCalls]
  \cup [at : {"wait"}, tv : 0..MaxTime, left : 0..Milli]
  \cup [at : {"handlers"}]

TypeOK ==
  /\ timer \in [Timers -> [state : {"unused", "live", "freed"}, name : STRING,
                            at : BOOLEAN, persist : BOOLEAN, period : 0..Wrap - 1,
                            ends : Nat, asked : Nat, every : Nat,
                            since : 0..MaxTime, started : BOOLEAN]]
  /\ now \in 0..MaxTime
  /\ stack \in Seq(Frames) /\ stack # <<>>

\* The pass never stands on a timer that was freed, nor on the NULL that
\* timers_removei() gives for one it does not find.
NoUseAfterFree == \A i \in 1..Depth : Holds(stack[i])

\* A command is not executed before the time its user asked for has passed,
\* since it was given or, for a persistent timer, since the last time.
NotEarly == [][\A t \in Timers : PassStart(t) => Top.tv >= timer[t].since + timer[t].asked]_vars

\* select() never sleeps over the end of a timer, however the pass before it, its
\* commands and the loops nested in them came by the list: a timer is late by no
\* more than the time since tv was read (ekg.c:182, 288-321).
Punctual ==
  [][InWait => \A t \in Live : now' <= timer[t].ends + (now - Top.tv)]_vars

\* When a pass is over it has served every timer that was due, whatever
\* timers were removed and added on the way.  (A period of zero is due again.)
EachServed == (Sane /\ InPass /\ Following(Top.cur) = {})
                => \A t \in Live : timer[t].ends > Top.tv \/ timer[t].period = 0

\* A timer that is to run once is executed once.
OnceOnly == [][\A t \in Timers : PassStart(t) /\ timer[t].started => timer[t].persist]_vars

\* /at --del removes a plan of /at.
AtRemovesPlans ==
  [][\A t \in Live : (\E n \in Names : CmdAtDel(n)) /\ t \notin Live' => timer[t].at]_vars

=============================================================================
