--------------------------- MODULE WatchContract ---------------------------
(***************************************************************************)
(* What ekg2 promises to the owner of a watch (ekg/plugins.h), whatever    *)
(* the main loop does to keep it: the watch is served while it is          *)
(* registered, its handler is never entered again while it runs, and it    *)
(* is told once, by a last call with type 1, that the watch goes away.     *)
(***************************************************************************)
EXTENDS Sequences, Naturals

CONSTANT Watches    \* names of watches, each used once

VARIABLES
  phase,   \* watch |-> where it is in its life
  calls    \* the watches whose handlers are being executed, the innermost last

vars == <<phase, calls>>

Phases == {"unused", "idle", "running", "closing", "gone"}

Innermost == calls[Len(calls)]
Returned  == SubSeq(calls, 1, Len(calls) - 1)
Becomes(w, from, to) == phase[w] = from /\ phase' = [phase EXCEPT ![w] = to]

Init == phase = [w \in Watches |-> "unused"] /\ calls = <<>>

Register(w) == Becomes(w, "unused", "idle") /\ UNCHANGED calls

\* An event, a line, room for data, or a timeout.
Call(w) == Becomes(w, "idle", "running") /\ calls' = Append(calls, w)

\* The handler returned: the watch stays, or the last call follows at once.
Return ==
  /\ calls # <<>>
  /\ Becomes(Innermost, "running", "idle")
  /\ calls' = Returned

ReturnAndClose ==
  /\ calls # <<>>
  /\ Becomes(Innermost, "running", "closing")
  /\ UNCHANGED calls

\* Somebody frees a watch whose handler is not running.
Close(w) == Becomes(w, "idle", "closing") /\ calls' = Append(calls, w)

Closed ==
  /\ calls # <<>>
  /\ Becomes(Innermost, "closing", "gone")
  /\ calls' = Returned

Next == \/ \E w \in Watches : Register(w) \/ Call(w) \/ Close(w)
        \/ Return \/ ReturnAndClose \/ Closed

Spec == Init /\ [][Next]_vars

=============================================================================
