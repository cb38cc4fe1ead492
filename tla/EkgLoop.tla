------------------------------ MODULE EkgLoop ------------------------------
(***************************************************************************)
(* The watches of ekg2 (ekg/plugins.c) and the main loop that serves them  *)
(* (ekg_loop() in ekg/ekg.c).                                              *)
(*                                                                         *)
(* The program is single-threaded: what makes it hard is that handlers of  *)
(* watches, timers and children are called from the middle of a walk along *)
(* the list of watches, and may add watches, free any watch (their own     *)
(* too), queue data, close descriptors, or call ekg_loop() again.  The     *)
(* state is therefore the list, and the call stack of the functions that   *)
(* hold a pointer into it.                                                 *)
(*                                                                         *)
(* A watch is named by the order of its allocation: watch_add() puts it at *)
(* the head of the list, so a walk goes from larger names to smaller ones. *)
(***************************************************************************)
EXTENDS Integers, Sequences, FiniteSets

CONSTANTS
  MaxWatches,   \* bound: calls of watch_add() in a behaviour
  Fds,          \* descriptor numbers
  Stdin,        \* the descriptor of the keyboard, 0, as a set
  Kinds,        \* the kinds of watch that handlers add
  TimedKinds,   \* the kinds that get a watch_timeout_set()
  Api,          \* what handlers call: a subset of ApiNames
  FreeRunning,  \* may handlers free a watch whose handler is running?
  MaxCalls,     \* bound: calls a handler makes in one activation
  MaxLines,     \* bound: lines that one read() completes
  MaxQueue,     \* bound: units of data queued on a watch
  MaxLoops      \* activations of ekg_loop() on the stack: 1 is never nested

AllKinds == {"read", "write", "readline", "writeline", "rawline"}
ApiNames == {"add", "free", "manual", "remove", "write", "cork", "loop",
             "open", "close"}

ASSUME WatchesAssumption == MaxWatches \in Nat \ {0}
ASSUME FdsAssumption     == Fds \subseteq Nat
ASSUME StdinAssumption   == Stdin \subseteq Fds
ASSUME KindsAssumption   == Kinds \subseteq AllKinds
ASSUME TimedAssumption   == TimedKinds \subseteq AllKinds \ {"rawline"}
ASSUME ApiAssumption     == Api \subseteq ApiNames
ASSUME FreeAssumption    == FreeRunning \in BOOLEAN
ASSUME CallsAssumption   == MaxCalls \in Nat
ASSUME LinesAssumption   == MaxLines \in Nat
ASSUME QueueAssumption   == MaxQueue \in Nat
ASSUME LoopsAssumption   == MaxLoops \in Nat \ {0}

VARIABLES
  cell,      \* watch |-> its list node: unused, live, empty (freed, node kept), freed
  kind,      \* watch |-> how watch_add() made it
  type,      \* watch |-> w->type: READ, WRITE or NONE
  fd,        \* watch |-> w->fd
  removed,   \* watch |-> w->removed: 0, -1 running, 1 running and to go, 2 going
  queue,     \* watch |-> length of w->buf of a write-line watch
  corked,    \* the watches whose transfer_limit is -1
  open,      \* the descriptors that are open
  nremoved,  \* ekg_watches_removed
  stack      \* the activations, the innermost last

vars == <<cell, kind, type, fd, removed, queue, corked, open, nremoved, stack>>
fields == <<kind, type, fd>>

Watches == 1..MaxWatches
BeforeHead == MaxWatches + 1      \* a walk that has not reached a node yet

-----------------------------------------------------------------------------
(* The list of watches. *)

Nodes == {w \in Watches : cell[w] \in {"live", "empty"}}
Live  == {w \in Watches : cell[w] = "live"}

\* Slip: watch_add() appends to the list.
FollowingAppended(c) ==
  LET after == {n \in Nodes : c = BeforeHead \/ n > c}
  IN  {n \in after : \A m \in after : n <= m}

\* The node after c, as a set: it is empty at the end of the list.
Following(c) ==
  LET after == {n \in Nodes : n < c}
  IN  {n \in after : \A m \in after : m <= n}

HasBuf(w)     == kind[w] \in {"readline", "writeline", "rawline"}
HasHandler(w) == kind[w] # "rawline"
Idle(w)       == removed[w] # -1

\* Slip: a watch that is condemned is found again.
MatchingCondemned(f, t) == {w \in Live : fd[w] = f /\ type[w] \in t}

\* watch_find(): what is being freed or is running but condemned is not found.
Matching(f, t) == {w \in Live : fd[w] = f /\ type[w] \in t /\ removed[w] <= 0}

\* watch_free() refuses a write-line watch of a plugin that has no handler.
Refused(w) == type[w] = "WRITE" /\ kind[w] = "rawline"

\* FD_SET of ekg_loop().
WantsRead(w)  == type[w] = "READ"
WantsWrite(w) == type[w] = "WRITE" /\ (HasBuf(w) => queue[w] > 0)
ReadSet  == {fd[w] : w \in {v \in Live : WantsRead(v)}}
WriteSet == {fd[w] : w \in {v \in Live : WantsWrite(v)}}

-----------------------------------------------------------------------------
(* Activations. *)

LoopPc == {"timers", "reap", "children", "select", "bad", "scan"}

LoopFrame(pc)        == [at |-> "loop", pc |-> pc, cur |-> BeforeHead,
                         rd |-> {}, wd |-> {}, top |-> MaxWatches]
EventFrame(w, how, n, eof) ==
  [at |-> "event", w |-> w, how |-> how, n |-> n, eof |-> eof,
   calls |-> IF HasHandler(w) THEN MaxCalls ELSE 0]
FinalFrame(w, shut)  == [at |-> "final", w |-> w, shut |-> shut,
                         calls |-> IF HasHandler(w) THEN MaxCalls ELSE 0]
CallbackFrame        == [at |-> "callback", calls |-> MaxCalls]
AutobackFrame(w)     == [at |-> "autoback", w |-> w, calls |-> MaxCalls]
RemoveFrame(f, t)    == [at |-> "remove", fd |-> f, type |-> t]

Depth   == Len(stack)
Top     == stack[Depth]
Below   == SubSeq(stack, 1, Depth - 1)       \* what is left when Top returns
OnTop(f) == Append(Below, f)                 \* Top has moved to f
Loops   == {i \in 1..Depth : stack[i].at = "loop"}

Running(at) == Top.at = at
LoopAt(pc)  == Top.at = "loop" /\ Top.pc = pc
InHandler   == Top.at \in {"event", "final", "callback", "autoback"}

\* /_autoback is being given, from between `w = l->data' and the dispatch of w.
Autoback == \E i \in 1..Depth : stack[i].at = "autoback"

\* The pointers that an activation dereferences when control is back in it.
Holds(f) ==
  CASE f.at \in {"event", "final", "autoback"} -> cell[f.w] = "live"
    [] f.at = "loop" -> f.cur # BeforeHead => cell[f.cur] \in {"live", "empty"}
    [] OTHER -> TRUE

\* Nothing is specified once a dangling pointer is used: the model stops.
Sane == Holds(Top)

-----------------------------------------------------------------------------
(* watch_free(w), called when the activations are s and the marks are r. *)

\* Slip: a running watch is freed at once.
WatchFreeRunning(w, r, s, shut) ==
  \/ /\ r[w] = 2 \/ (r[w] = 0 /\ Refused(w))
     /\ removed' = r
     /\ stack' = s
  \/ /\ r[w] \in {-1, 1} \/ (r[w] = 0 /\ ~Refused(w))
     /\ removed' = [r EXCEPT ![w] = 2]
     /\ stack' = Append(s, FinalFrame(w, shut))

\* Slip: the last call of a watch is not marked as such.
WatchFreeTwice(w, r, s, shut) ==
  \/ /\ r[w] = 0 /\ Refused(w)
     /\ removed' = r
     /\ stack' = s
  \/ /\ r[w] \in {-1, 1}
     /\ removed' = [r EXCEPT ![w] = 1]
     /\ stack' = s
  \/ /\ r[w] = 2 \/ (r[w] = 0 /\ ~Refused(w))
     /\ removed' = [r EXCEPT ![w] = 2]
     /\ stack' = Append(s, FinalFrame(w, shut))

WatchFree(w, r, s, shut) ==
  \/ /\ \/ r[w] = 2
        \/ r[w] = 0 /\ Refused(w)
     /\ removed' = r
     /\ stack' = s
  \/ /\ r[w] \in {-1, 1}
     /\ removed' = [r EXCEPT ![w] = 1]
     /\ stack' = s
  \/ /\ r[w] = 0 /\ ~Refused(w)
     /\ removed' = [r EXCEPT ![w] = 2]
     /\ stack' = Append(s, FinalFrame(w, shut))

Forget(w) == [removed EXCEPT ![w] = 0]

\* Slip: the node is unlinked at once, as list_remove() does.
FinalReturnUnlinked ==
  /\ Sane /\ Running("final")
  /\ cell' = [cell EXCEPT ![Top.w] = "freed"]
  /\ kind' = [kind EXCEPT ![Top.w] = "read"]
  /\ type' = [type EXCEPT ![Top.w] = "NONE"]
  /\ fd' = [fd EXCEPT ![Top.w] = 0]
  /\ removed' = Forget(Top.w)
  /\ queue' = [queue EXCEPT ![Top.w] = 0]
  /\ corked' = corked \ {Top.w}
  /\ open' = IF Top.shut THEN open \ {fd[Top.w]} ELSE open
  /\ stack' = Below
  /\ UNCHANGED nremoved

\* watch_free_data() is done (what the watch held is reset to its initial
\* values, for nothing may read it any more): list_remove_safe(), the count, and, when
\* watch_handle_line() made the call, close().
FinalReturn ==
  /\ Sane /\ Running("final")
  /\ cell' = [cell EXCEPT ![Top.w] = "empty"]
  /\ kind' = [kind EXCEPT ![Top.w] = "read"]
  /\ type' = [type EXCEPT ![Top.w] = "NONE"]
  /\ fd' = [fd EXCEPT ![Top.w] = 0]
  /\ removed' = Forget(Top.w)
  /\ queue' = [queue EXCEPT ![Top.w] = 0]
  /\ corked' = corked \ {Top.w}
  /\ open' = IF Top.shut THEN open \ {fd[Top.w]} ELSE open
  /\ nremoved' = nremoved + 1
  /\ stack' = Below

-----------------------------------------------------------------------------
(* Dispatch: watch_handle(), watch_handle_line(), watch_handle_write() and *)
(* the timeout call start a handler on top of the activations s.           *)

Start(w, s, how, n, eof) ==
  /\ removed' = [removed EXCEPT ![w] = -1]
  /\ stack' = Append(s, EventFrame(w, how, n, eof))

Ignore(s) == removed' = removed /\ stack' = s

WatchHandle(w, s) ==
  \/ ~Idle(w) /\ Ignore(s)
  \/ Idle(w) /\ Start(w, s, "plain", 0, FALSE)

\* read() completes n lines; at the end of the stream the rest is a line too.
WatchHandleLine(w, s) ==
  \/ ~Idle(w) /\ Ignore(s)
  \/ /\ Idle(w)
     /\ \E n \in 0..MaxLines, eof \in BOOLEAN :
          /\ eof => n > 0
          /\ \/ n > 0 /\ Start(w, s, "line", n, eof)
             \/ /\ n = 0
                /\ removed' = [removed EXCEPT ![w] = 0]
                /\ stack' = s

WatchHandleWrite(w, s) ==
  \/ (~Idle(w) \/ w \in corked \/ queue[w] = 0) /\ Ignore(s)
  \/ /\ Idle(w) /\ w \notin corked /\ queue[w] > 0
     /\ Start(w, s, "write", queue[w], FALSE)

WatchTimeout(w, s) == Start(w, s, "timeout", 0, FALSE)

\* Slip: only the result of the handler counts.
PlainReturnKept(res) ==
  /\ Sane /\ Running("event") /\ Top.how \in {"plain", "timeout"}
  /\ \/ res = -1 /\ WatchFree(Top.w, Forget(Top.w), Below, FALSE)
     \/ res # -1 /\ removed' = Forget(Top.w) /\ stack' = Below
  /\ UNCHANGED <<cell, fields, queue, corked, open, nremoved>>

\* watch_handle() and the timeout branch of ekg_loop(): the handler returned.
PlainReturn(res) ==
  /\ Sane /\ Running("event") /\ Top.how \in {"plain", "timeout"}
  /\ \/ /\ res = -1 \/ removed[Top.w] = 1
        /\ WatchFree(Top.w, Forget(Top.w), Below, FALSE)
     \/ /\ res # -1 /\ removed[Top.w] # 1
        /\ removed' = Forget(Top.w)
        /\ stack' = Below
  /\ UNCHANGED <<cell, fields, queue, corked, open, nremoved>>

\* watch_handle_line(): the next line, or the end of the function.
LineReturn(res) ==
  /\ Sane /\ Running("event") /\ Top.how = "line"
  /\ \/ /\ res # -1 /\ Top.n > 1
        /\ stack' = OnTop([Top EXCEPT !.n = @ - 1])
        /\ UNCHANGED removed
     \/ /\ res = -1 \/ (Top.n = 1 /\ (Top.eof \/ removed[Top.w] = 1))
        /\ WatchFree(Top.w, Forget(Top.w), Below, TRUE)
     \/ /\ res # -1 /\ Top.n = 1 /\ ~Top.eof /\ removed[Top.w] # 1
        /\ removed' = Forget(Top.w)
        /\ stack' = Below
  /\ UNCHANGED <<cell, fields, queue, corked, open, nremoved>>

Clipped(res, n) == IF res > n THEN n ELSE res

\* Slip: a handler may claim more than it was given.
WriteReturnUnclipped(res) ==
  /\ Sane /\ Running("event") /\ Top.how = "write"
  /\ res >= 0
  /\ queue' = [queue EXCEPT ![Top.w] = @ - res]
  /\ removed' = Forget(Top.w)
  /\ stack' = Below
  /\ UNCHANGED <<cell, fields, corked, open, nremoved>>

\* watch_handle_write(): the handler, or write(), took res units or failed.  A
\* handler that says it took more than it was given took all.
WriteReturn(res) ==
  /\ Sane /\ Running("event") /\ Top.how = "write"
  /\ \/ /\ res = -1
        /\ WatchFree(Top.w, Forget(Top.w), Below, FALSE)
        /\ UNCHANGED queue
     \/ /\ res \in Nat
        /\ queue' = [queue EXCEPT ![Top.w] = @ - Clipped(res, Top.n)]
        /\ removed' = Forget(Top.w)
        /\ stack' = Below
  /\ UNCHANGED <<cell, fields, corked, open, nremoved>>

CallbackReturn ==
  /\ Running("callback")
  /\ stack' = Below
  /\ UNCHANGED <<cell, fields, removed, queue, corked, open, nremoved>>

-----------------------------------------------------------------------------
(* What handlers call.  Each call takes one unit of the handler's budget.  *)

May(call) == InHandler /\ Top.calls > 0 /\ call \in Api
Spent     == OnTop([Top EXCEPT !.calls = @ - 1])

\* A handler may free any watch, its own included; it does not write to one
\* that it, or another, has asked to free.  /_autoback, which sends a status,
\* leaves the keyboard's watches to the interface.
Spared(f) == Autoback /\ f \in Stdin
Freeable  == {w \in Live : /\ FreeRunning \/ removed[w] \in {0, 2}
                          /\ ~Spared(fd[w])}
Writable  == {w \in Live : /\ removed[w] <= 0 /\ kind[w] \in {"writeline", "rawline"}
                          /\ ~Spared(fd[w])}

WatchAdd(f, k) ==
  /\ May("add")
  /\ f \in open
  /\ \E w \in Watches :
       /\ cell[w] = "unused"
       /\ \A v \in Watches : v < w => cell[v] # "unused"
       /\ cell' = [cell EXCEPT ![w] = "live"]
       /\ kind' = [kind EXCEPT ![w] = k]
       /\ type' = [type EXCEPT ![w] = IF k \in {"read", "readline"} THEN "READ" ELSE "WRITE"]
       /\ fd' = [fd EXCEPT ![w] = f]
  /\ stack' = Spent
  /\ UNCHANGED <<removed, queue, corked, open, nremoved>>

CallFree(w) ==
  /\ May("free")
  /\ w \in Freeable
  /\ WatchFree(w, removed, Spent, FALSE)
  /\ UNCHANGED <<cell, fields, queue, corked, open, nremoved>>

\* What plugins do with a write-line watch: w->type = WATCH_NONE; watch_free(w).
CallFreeManually(w) ==
  /\ May("manual")
  /\ w \in Freeable
  /\ kind[w] \in {"writeline", "rawline"}
  /\ type' = [type EXCEPT ![w] = "NONE"]
  /\ WatchFree(w, removed, Spent, FALSE)
  /\ UNCHANGED <<cell, kind, fd, queue, corked, open, nremoved>>

CallRemove(f, t) ==
  /\ May("remove")
  /\ ~Spared(f)
  /\ Matching(f, t) \subseteq Freeable
  /\ stack' = Append(Spent, RemoveFrame(f, t))
  /\ UNCHANGED <<cell, fields, removed, queue, corked, open, nremoved>>

\* One turn of the while loop of watch_remove(): the first match in the list.
RemoveNext ==
  /\ Running("remove")
  /\ LET found == Matching(Top.fd, Top.type)
     IN \/ /\ found = {}
           /\ stack' = Below
           /\ UNCHANGED removed
        \/ \E w \in found :
             /\ \A v \in found : v <= w
             /\ WatchFree(w, removed, stack, FALSE)
  /\ UNCHANGED <<cell, fields, queue, corked, open, nremoved>>

\* watch_write(): append, and try to send at once if nothing was waiting.
CallWrite(w) ==
  /\ May("write")
  /\ w \in Writable
  /\ queue[w] < MaxQueue
  /\ queue' = [queue EXCEPT ![w] = @ + 1]
  /\ \/ /\ queue[w] = 0 /\ Idle(w) /\ w \notin corked
        /\ Start(w, Spent, "write", 1, FALSE)
     \/ /\ queue[w] > 0 \/ ~Idle(w) \/ w \in corked
        /\ Ignore(Spent)
  /\ UNCHANGED <<cell, fields, corked, open, nremoved>>

\* transfer_limit = -1; and transfer_limit = 0 with watch_handle_write().
CallCork(w) ==
  /\ May("cork")
  /\ w \in Writable
  /\ corked' = corked \cup {w}
  /\ stack' = Spent
  /\ UNCHANGED <<cell, fields, removed, queue, open, nremoved>>

CallCommit(w) ==
  /\ May("cork")
  /\ w \in Writable \cap corked
  /\ corked' = corked \ {w}
  /\ \/ (~Idle(w) \/ queue[w] = 0) /\ Ignore(Spent)
     \/ Idle(w) /\ queue[w] > 0 /\ Start(w, Spent, "write", queue[w], FALSE)
  /\ UNCHANGED <<cell, fields, queue, open, nremoved>>

\* A command that waits for an answer calls ekg_loop() itself; none does so
\* while a watch is being freed, nor is /_autoback such a command.
CallLoop ==
  /\ May("loop")
  /\ ~Autoback
  /\ \A i \in 1..Depth : stack[i].at # "final"
  /\ Cardinality(Loops) < MaxLoops
  /\ stack' = Append(Spent, LoopFrame("timers"))
  /\ UNCHANGED <<cell, fields, removed, queue, corked, open, nremoved>>

\* socket(), open(): the lowest number that is free.
CallOpen ==
  /\ May("open")
  /\ \E f \in Fds \ open :
       /\ \A g \in Fds \ open : f <= g
       /\ open' = open \cup {f}
  /\ stack' = Spent
  /\ UNCHANGED <<cell, fields, removed, queue, corked, nremoved>>

CallClose(f) ==
  /\ May("close")
  /\ f \in open
  /\ open' = open \ {f}
  /\ stack' = Spent
  /\ UNCHANGED <<cell, fields, removed, queue, corked, nremoved>>

-----------------------------------------------------------------------------
(* ekg_loop(). *)

Goto(pc) == OnTop([Top EXCEPT !.pc = pc, !.cur = BeforeHead])

\* The passes over timers and over children: each may call functions that do
\* what handlers do.
LoopTimers ==
  /\ LoopAt("timers")
  /\ \/ stack' = Goto("reap")
     \/ stack' = Append(Goto("reap"), CallbackFrame)
  /\ UNCHANGED <<cell, fields, removed, queue, corked, open, nremoved>>

LoopChildren ==
  /\ LoopAt("children")
  /\ \/ stack' = Goto("select")
     \/ stack' = Append(Goto("select"), CallbackFrame)
  /\ UNCHANGED <<cell, fields, removed, queue, corked, open, nremoved>>

\* A walk: l = l->next, which is read after what was called for l returned.
Ahead      == Following(Top.cur)
Advance(n) == OnTop([Top EXCEPT !.cur = n])

LoopReap ==
  /\ Sane /\ LoopAt("reap")
  /\ \/ /\ Ahead = {}
        /\ stack' = Goto("children")
        /\ UNCHANGED removed
     \/ \E n \in Ahead :
          \/ /\ ~(cell[n] = "live" /\ removed[n] = 1)
             /\ Ignore(Advance(n))
          \/ /\ cell[n] = "live" /\ removed[n] = 1
             /\ WatchFree(n, Forget(n), Advance(n), FALSE)
  /\ UNCHANGED <<cell, fields, queue, corked, open, nremoved>>

\* ekg_loop() returns: to the handler that called it, or to main(), whose
\* loop calls it again.
Leave == IF Depth = 1 THEN <<LoopFrame("timers")>> ELSE Below

\* select() fails with EBADF exactly when a bad descriptor was asked for.
SelectBad ==
  /\ LoopAt("select")
  /\ ~(ReadSet \cup WriteSet \subseteq open)
  /\ stack' = Goto("bad")
  /\ UNCHANGED <<cell, fields, removed, queue, corked, open, nremoved>>

\* select() fails with EINTR: ekg_loop() returns at once.
SelectInterrupted ==
  /\ LoopAt("select")
  /\ ReadSet \cup WriteSet \subseteq open
  /\ stack' = Leave
  /\ UNCHANGED <<cell, fields, removed, queue, corked, open, nremoved>>

\* The watches that exist now are those up to Top.top: select() answers for them.
SelectReady ==
  /\ LoopAt("select")
  /\ ReadSet \cup WriteSet \subseteq open
  /\ \E r \in SUBSET ReadSet, w \in SUBSET WriteSet :
       stack' = OnTop([Top EXCEPT !.pc = "scan", !.cur = BeforeHead, !.rd = r, !.wd = w,
                                  !.top = Cardinality({n \in Watches : cell[n] # "unused"})])
  /\ UNCHANGED <<cell, fields, removed, queue, corked, open, nremoved>>

\* Slip: fstat() is not looked at.
LoopBadIdle ==
  /\ Sane /\ LoopAt("bad")
  /\ \/ Ahead = {} /\ stack' = Leave
     \/ \E n \in Ahead : stack' = Advance(n)
  /\ UNCHANGED <<cell, fields, removed, queue, corked, open, nremoved>>

\* After EBADF: free the watches whose descriptor fstat() refuses, and return.
LoopBad ==
  /\ Sane /\ LoopAt("bad")
  /\ \/ /\ Ahead = {}
        /\ stack' = Leave
        /\ UNCHANGED removed
     \/ \E n \in Ahead :
          \/ /\ ~(cell[n] = "live" /\ fd[n] \notin open)
             /\ Ignore(Advance(n))
          \/ /\ cell[n] = "live" /\ fd[n] \notin open
             /\ WatchFree(n, removed, Advance(n), FALSE)
  /\ UNCHANGED <<cell, fields, queue, corked, open, nremoved>>

\* The dispatch of one watch that select() found ready, by its exact type; f is
\* the loop, s the activations when it calls.
Dispatch(w, f, s) ==
  \/ /\ ~HasBuf(w)
     /\ \/ type[w] = "WRITE" /\ fd[w] \in f.wd
        \/ type[w] = "READ" /\ fd[w] \in f.rd
     /\ WatchHandle(w, s)
  \/ HasBuf(w) /\ type[w] = "READ" /\ fd[w] \in f.rd /\ WatchHandleLine(w, s)
  \/ HasBuf(w) /\ type[w] = "WRITE" /\ fd[w] \in f.wd /\ WatchHandleWrite(w, s)
  \/ /\ \/ type[w] = "NONE"
        \/ type[w] = "READ" /\ fd[w] \notin f.rd
        \/ type[w] = "WRITE" /\ fd[w] \notin f.wd
     /\ Ignore(s)

\* When the keyboard is ready, sessions that are away and have auto_back 2 are
\* given /_autoback before the dispatch.
LoopScan ==
  /\ Sane /\ LoopAt("scan")
  /\ \E n \in Ahead :
       LET ready == fd[n] \in Top.rd \cup Top.wd
       IN \/ /\ cell[n] = "empty"
             /\ Ignore(Advance(n))
          \/ /\ cell[n] = "live" /\ ready
             /\ Dispatch(n, Top, Advance(n))
          \/ /\ cell[n] = "live" /\ ready
             /\ fd[n] \in Stdin
             /\ removed' = removed
             /\ stack' = Append(Advance(n), AutobackFrame(n))
          \/ /\ cell[n] = "live" /\ ~ready
             /\ Ignore(Advance(n))
          \/ /\ cell[n] = "live" /\ ~ready
             /\ kind[n] \in TimedKinds
             /\ WatchTimeout(n, Advance(n))
  /\ UNCHANGED <<cell, fields, queue, corked, open, nremoved>>

AutobackReturn ==
  /\ Sane /\ Running("autoback")
  /\ Dispatch(Top.w, stack[Depth - 1], Below)
  /\ UNCHANGED <<cell, fields, queue, corked, open, nremoved>>

\* The end of the pass: list_cleanup(), if anything was removed.
LoopCleanup ==
  /\ Sane /\ LoopAt("scan")
  /\ Ahead = {}
  /\ cell' = [w \in Watches |->
                IF nremoved > 0 /\ cell[w] = "empty" THEN "freed" ELSE cell[w]]
  /\ nremoved' = 0
  /\ stack' = Leave
  /\ UNCHANGED <<fields, removed, queue, corked, open>>

-----------------------------------------------------------------------------
Init ==
  /\ cell = [w \in Watches |-> "unused"]
  /\ kind = [w \in Watches |-> "read"]
  /\ type = [w \in Watches |-> "NONE"]
  /\ fd = [w \in Watches |-> 0]
  /\ removed = [w \in Watches |-> 0]
  /\ queue = [w \in Watches |-> 0]
  /\ corked = {}
  /\ open = Fds
  /\ nremoved = 0
  /\ stack = <<LoopFrame("timers")>>

Loop == \/ LoopTimers \/ LoopReap \/ LoopChildren
        \/ SelectBad \/ SelectInterrupted \/ SelectReady
        \/ LoopBad \/ LoopScan \/ LoopCleanup

Calls == \/ \E f \in Fds, k \in Kinds : WatchAdd(f, k)
         \/ \E w \in Watches : \/ CallFree(w) \/ CallFreeManually(w)
                               \/ CallWrite(w) \/ CallCork(w) \/ CallCommit(w)
         \/ \E f \in Fds, t \in {{"READ"}, {"WRITE"}} : CallRemove(f, t)
         \/ CallLoop
         \/ CallOpen
         \/ \E f \in Fds : CallClose(f)

Returns == \/ \E res \in {-1, 0} : PlainReturn(res) \/ LineReturn(res)
           \/ \E res \in -1..MaxQueue + 1 : WriteReturn(res)
           \/ FinalReturn
           \/ CallbackReturn
           \/ AutobackReturn
           \/ RemoveNext

Next == Loop \/ Calls \/ Returns

Spec == Init /\ [][Next]_vars

\* The program keeps executing, and select() is not interrupted for ever.
FairSpec == Spec /\ WF_vars(Next) /\ SF_vars(SelectReady)

-----------------------------------------------------------------------------
(* Properties. *)

Frames ==
  [at : {"loop"}, pc : LoopPc, cur : 1..BeforeHead, rd : SUBSET Fds, wd : SUBSET Fds,
   top : 0..MaxWatches]
  \cup [at : {"event"}, w : Watches, how : {"plain", "timeout", "line", "write"},
        n : Nat, eof : BOOLEAN, calls : Nat]
  \cup [at : {"final"}, w : Watches, shut : BOOLEAN, calls : Nat]
  \cup [at : {"callback"}, calls : Nat]
  \cup [at : {"autoback"}, w : Watches, calls : Nat]
  \cup [at : {"remove"}, fd : Fds, type : {{"READ"}, {"WRITE"}}]

TypeOK ==
  /\ cell \in [Watches -> {"unused", "live", "empty", "freed"}]
  /\ kind \in [Watches -> AllKinds]
  /\ type \in [Watches -> {"READ", "WRITE", "NONE"}]
  /\ fd \in [Watches -> Fds \cup {0}]
  /\ removed \in [Watches -> {-1, 0, 1, 2}]
  /\ queue \in [Watches -> Nat]
  /\ corked \subseteq Watches
  /\ open \subseteq Fds
  /\ nremoved \in Nat
  /\ stack \in Seq(Frames) /\ stack # <<>>

\* No activation holds a pointer to a watch that was freed or to a list node
\* that list_cleanup() released: every function that control will return to
\* reads its watch, or l->next, when it does.
NoUseAfterFree == \A i \in 1..Depth : Holds(stack[i])

\* The handlers being executed are handlers of different watches: a watch
\* whose handler runs, whether for an event or for the last time, is not
\* executed again under it.
Handling == {i \in 1..Depth : stack[i].at \in {"event", "final"}}
NoReentry == \A i, j \in Handling : stack[i].w = stack[j].w => i = j

\* select() answers for the watches that existed when it was called.  A
\* watch added during the walk may have got a descriptor number that was
\* reported ready for a socket closed meanwhile: it must not be dispatched.
NoStaleReadiness ==
  \A i \in 2..Depth :
    (/\ stack[i].at = "event" /\ stack[i].how # "timeout"
     /\ stack[i - 1].at = "loop" /\ stack[i - 1].pc = "scan")
       => stack[i].w <= stack[i - 1].top

\* Where the watches are in their lives when the nodes are c and the marks r.
PhaseOf(c, r) ==
  [w \in Watches |->
     CASE c[w] = "unused" -> "unused"
       [] c[w] = "live" /\ r[w] = 0 -> "idle"
       [] c[w] = "live" /\ r[w] \in {-1, 1} -> "running"
       [] c[w] = "live" /\ r[w] = 2 -> "closing"
       [] OTHER -> "gone"]

\* The watches whose handlers are among the activations s, in their order.
HandlersOf(s) ==
  LET handlers[n \in 0..Len(s)] ==
        IF n = 0 THEN <<>>
        ELSE IF s[n].at \in {"event", "final"} THEN Append(handlers[n - 1], s[n].w)
        ELSE handlers[n - 1]
  IN  handlers[Len(s)]

\* The contract of a watch with its owner.
Contract == INSTANCE WatchContract WITH
  Watches <- Watches, phase <- PhaseOf(cell, removed), calls <- HandlersOf(stack)

\* The program keeps the contract: handlers of a watch run one at a time and
\* return in the order they were called; the last call tells the owner that
\* the watch goes, there is exactly one, and none comes after it.
KeepsContract == Contract!Spec

\* The first watch that watch_remove() finds is one that watch_free() refuses
\* (plugins.c:905): it finds the same one for ever, and the program hangs.
Hangs ==
  /\ Running("remove")
  /\ \E w \in Matching(Top.fd, Top.type) :
       /\ \A v \in Matching(Top.fd, Top.type) : v <= w
       /\ removed[w] = 0 /\ Refused(w)

\* A watch that watch_free() found running is freed when it stops running,
\* unless the program hangs.  The request for a write-line watch is overwritten
\* when its handler reports success (plugins.c:1049): it may be forgotten.
RemovalCompletes ==
  \A w \in Watches :
    (removed[w] = 1) ~>
       \/ cell[w] # "live" \/ Hangs
       \/ kind[w] = "writeline" /\ removed[w] = 0

\* watch_remove() ends, whatever last calls add and free while it searches the
\* list again and again, except in the one way that the comment in it (here can
\* be deadlock) has in mind.
RemoveEnds == Running("remove") ~> (Depth = 1 \/ Hangs)

\* A bad descriptor does not stop the loop from serving the others: the pass
\* over bad descriptors makes select() succeed again, unless the descriptor is
\* that of a watch which watch_free() refuses and which has data to send.
Obstinate == {w \in Live : Refused(w) /\ WantsWrite(w) /\ fd[w] \notin open}
Recovers == LoopAt("bad") ~> (LoopAt("scan") \/ Obstinate # {} \/ Hangs)

=============================================================================
