------------------------------ MODULE Plugins -------------------------------
(***************************************************************************)
(* Plugins and queries: plugins.c, /plugin, config_read_plugins().         *)
(*                                                                         *)
(* The stack of C frames is a sequence: callbacks of the loop, walks of    *)
(* query_emit_id() over the handlers of a query, and plugin_load() and     *)
(* plugin_unload(), which call handlers and callbacks half-way.  Whatever  *)
(* runs on top may emit queries and give /plugin commands; the frames      *)
(* below go on with lists, pointers and code that were changed meanwhile.  *)
(***************************************************************************)
EXTENDS Integers, Sequences, FiniteSets, SequencesExt

CONSTANTS
  Plugins,      \* plugins that can be loaded
  Core,         \* the program itself, as an owner of handlers
  UI,           \* those of class PLUGIN_UI
  Queries,      \* queries that all connect to: Removed, SetVars and others
  Removed,      \* SESSION_REMOVED
  SetVars,      \* SET_VARS_DEFAULT and CONFIG_POSTINIT, emitted to one plugin
  Prios,        \* priorities that users give
  MaxNested,    \* walks inside walks, 32 in the code
  MaxFrames,    \* a bound of the model on commands given inside handlers and callbacks
  ExpertModes,  \* the values that users give config_expert_mode
  UnloadAny     \* whether a plugin may be unloaded below a callback of its own

None == "none"
CorePrio == -666

ASSUME Constants ==
  /\ Core \notin Plugins  /\ None \notin Plugins \cup {Core}  /\ UI \subseteq Plugins
  /\ {Removed, SetVars} \subseteq Queries  /\ Prios \subseteq Nat
  /\ {MaxNested, MaxFrames} \subseteq Nat  /\ ExpertModes \subseteq BOOLEAN  /\ UnloadAny \in BOOLEAN

VARIABLES
  plugins,      \* the list of plugins, highest priority first
  prio,         \* plugin_t.prio
  code,         \* plugins whose shared object is mapped
  queries,      \* for each query, the plugins whose handlers are connected, as listed
  watch,        \* the watch of each plugin: removed is 0, -1 (runs), 1 (freed as it runs) or 2 (last call)
  timers,       \* plugins that have a timer
  sessions,     \* plugins that have a session
  frames        \* the stack, top first

vars == <<plugins, prio, code, queries, watch, timers, sessions, frames>>
lists == <<plugins, prio, code, queries>>
things == <<watch, timers, sessions>>

Owners == Plugins \cup {Core}

Kinds  == {"watch", "timer", "last", "emit", "load", "read", "start", "unload"}
Loaders == {"load", "read", "start"}
Phases == {None, "vars", "config", "postinit", "reconnect", "watches", "timers", "sessions", "session", "queries"}
FrameT == [kind : Kinds, plugin : Owners, phase : Phases, id : Queries \cup {None},
           only : Owners \cup {None}, called : Seq(Owners), owed : SUBSET Owners, moved : BOOLEAN]

\* A frame of plugin_load() or plugin_unload(), and of a callback of a plugin's watch or timer.
Frame(kind, p, phase) == [kind |-> kind, plugin |-> p, phase |-> phase, id |-> None, only |-> None,
                          called |-> << >>, owed |-> {}, moved |-> FALSE]

Init ==
  /\ plugins = << >>  /\ prio = [p \in Plugins |-> 0]  /\ code = {}
  /\ queries = [q \in Queries |-> <<Core>>]
  /\ watch = [p \in Plugins |-> None]  /\ timers = {}  /\ sessions = {}
  /\ frames = << >>

Top == Head(frames)

\* The stack when the function on top goes on to its next part.
To(phase) == <<[Top EXCEPT !.phase = phase]>> \o Tail(frames)

\* Code that can do anything runs: a callback, a handler, or a command of the user.
Running == frames # << >> => Top.kind \in {"watch", "timer", "last", "emit"}

(***************************************************************************)
(* Lists by priority                                                       *)
(***************************************************************************)

PrioOf(p, pr) == IF p = Core THEN CorePrio ELSE pr[p]

\* LIST_ADD_SORTED2(): before the first element of the same or a lower priority.
AddSorted(list, p, pr) ==
  LET i == SelectInSeq(list, LAMBDA r : PrioOf(r, pr) <= PrioOf(p, pr))
  IN InsertAt(list, IF i = 0 THEN Len(list) + 1 ELSE i, p)

\* list_resort3(): elements of equal priority change their order.
Resort(list, pr) ==
  LET sorted[n \in 0 .. Len(list)] ==
        IF n = 0 THEN << >> ELSE AddSorted(sorted[n - 1], list[n], pr)
  IN sorted[Len(list)]

Without(list, p) == RemoveFirst(list, p)

\* queries_reconnect(), and what it means for the walks that stand somewhere in the lists: what
\* they call from now on is not recorded.
Reconnected(qs, pr) == [q \in Queries |-> Resort(qs[q], pr)]
Moved(fs) == [i \in 1 .. Len(fs) |-> IF fs[i].kind = "emit"
                                       THEN [fs[i] EXCEPT !.moved = TRUE, !.called = << >>, !.owed = {}] ELSE fs[i]]

(***************************************************************************)
(* query_emit_id(), query_emit()                                           *)
(***************************************************************************)

Depth == Cardinality({i \in 1 .. Len(frames) : frames[i].kind = "emit"})

\* The handlers of a part of the list that a walk calls.
Matching(list, only) == IF only = None THEN list ELSE IF only \in ToSet(list) THEN <<only>> ELSE << >>

\* The stack with a walk that has called its first handler; without one that matches, and when
\* too many walks are under way, nothing is called.
Emitted(fs, id, only) ==
  LET m == Matching(queries[id], only)
  IN IF m = << >> \/ Depth >= MaxNested THEN fs
     ELSE <<[kind |-> "emit", plugin |-> Head(m), phase |-> None, id |-> id, only |-> only,
             called |-> <<Head(m)>>, owed |-> ToSet(m), moved |-> FALSE]>> \o fs

\* A slip: the walk goes on from the element that it finds at the same place.
RestByPlace(f) ==
  LET n == Len(f.called) IN Matching(SubSeq(queries[f.id], n + 1, Len(queries[f.id])), f.only)

\* What the walk finds behind q, through q->next.
Rest(f) ==
  LET i == SelectInSeq(queries[f.id], LAMBDA r : r = f.plugin)
  IN Matching(SubSeq(queries[f.id], i + 1, Len(queries[f.id])), f.only)

Emit(id) ==
  /\ Running  /\ Depth < MaxNested
  /\ frames' = Emitted(frames, id, None)
  /\ UNCHANGED <<lists, things>>

\* A handler returns; with -1 the walk ends, else it goes to the next one.
HandlerReturn(stop) ==
  /\ frames # << >>  /\ Top.kind = "emit"
  /\ frames' = IF stop \/ Rest(Top) = << >> THEN Tail(frames)
               ELSE LET next == Head(Rest(Top))
                    IN <<[Top EXCEPT !.plugin = next, !.called = IF Top.moved THEN @ ELSE Append(@, next)]>> \o Tail(frames)
  /\ UNCHANGED <<lists, things>>

(***************************************************************************)
(* Callbacks of the loop                                                   *)
(***************************************************************************)

LoopCalls(kind, p) ==
  /\ frames = << >>
  /\ \/ kind = "watch" /\ watch[p] = "idle" /\ watch' = [watch EXCEPT ![p] = "running"]
     \/ kind = "timer" /\ p \in timers /\ UNCHANGED watch
  /\ frames' = <<Frame(kind, p, None)>>
  /\ UNCHANGED <<lists, timers, sessions>>

\* What a plugin opens and closes: a session connects with a watch and times its retries.
Opens(p) ==
  /\ frames # << >>  /\ Top.plugin = p  /\ Top.kind \in {"watch", "timer"}
  /\ \/ watch[p] = None /\ watch' = [watch EXCEPT ![p] = "idle"] /\ UNCHANGED <<timers, sessions>>
     \/ timers' = timers \cup {p} /\ UNCHANGED <<watch, sessions>>
     \/ p \notin UI /\ sessions' = sessions \cup {p} /\ UNCHANGED <<watch, timers>>
  /\ UNCHANGED <<lists, frames>>

\* watch_free(): a handler that runs goes on, one that does not is called a last time.
WatchFreed(p) == [watch EXCEPT ![p] = CASE @ = "idle" -> "last" [] @ = "running" -> "freed" [] OTHER -> @]
LastCalled(p, fs) == IF watch[p] = "idle" THEN <<Frame("last", p, None)>> \o fs ELSE fs

\* A session is disconnected by a command, a callback or a handler.
Closes(p) ==
  /\ Running  /\ watch[p] # None  /\ Len(frames) < MaxFrames
  /\ watch' = WatchFreed(p)
  /\ frames' = LastCalled(p, frames)
  /\ UNCHANGED <<lists, timers, sessions>>

\* The last call of a watch's handler: a session that was connected is to be connected again.
LastCall(p) ==
  /\ frames # << >>  /\ Top = Frame("last", p, None)  /\ p \in sessions
  /\ timers' = timers \cup {p}
  /\ UNCHANGED <<lists, watch, sessions, frames>>

\* A callback returns; a watch that it freed meanwhile is now called a last time.
CallReturn ==
  /\ frames # << >>  /\ Top.kind \in {"watch", "timer", "last"}
  /\ LET p == Top.plugin
     IN /\ frames' = IF Top.kind = "watch" /\ watch[p] = "freed" THEN <<Frame("last", p, None)>> \o Tail(frames)
                     ELSE Tail(frames)
        /\ watch' = [watch EXCEPT ![p] = CASE Top.kind = "timer" -> @
                                           [] Top.kind = "last"  -> None
                                           [] OTHER              -> IF @ = "freed" THEN "last" ELSE "idle"]
  /\ UNCHANGED <<lists, timers, sessions>>

(***************************************************************************)
(* plugin_load(), plugin_register()                                        *)
(***************************************************************************)

\* plugin_init() registers the plugin, whose code is mapped, and connects its handlers at the end
\* of the lists.  (One that fails has not registered anything, its code is unmapped again, and so
\* nothing is changed.)  The kind is "load" for /plugin, "start" for main(), which reads the file of
\* plugins, and "read" for /reload and scripts.
Load(p, n, kind) ==
  /\ Running  /\ p \notin ToSet(plugins)  /\ Len(frames) < MaxFrames
  /\ kind = "start" => frames = << >>
  /\ prio' = [prio EXCEPT ![p] = n]
  /\ plugins' = AddSorted(plugins, p, prio')
  /\ code' = code \cup {p}
  /\ queries' = [q \in Queries |-> Append(queries[q], p)]
  /\ watch' = [watch EXCEPT ![p] = "idle"]
  /\ frames' = <<Frame(kind, p, "vars")>> \o frames
  /\ UNCHANGED <<timers, sessions>>

\* in_autoexec as the frame on top finds it: main() sets it, and so does plugin_load() while the
\* plugin's files are read and CONFIG_POSTINIT is emitted.
InAutoexec ==
  \E i \in 1 .. Len(frames) :
    frames[i].kind = "start" \/ (frames[i].kind \in Loaders /\ frames[i].phase = "reconnect")

\* plugin_load() goes on: its variables; its configuration and sessions, but not in_autoexec; and
\* queries_reconnect() when it was called for /plugin.
LoadStep ==
  /\ frames # << >>  /\ Top.kind \in Loaders
  /\ LET p == Top.plugin
     IN \/ /\ Top.phase = "vars"
           /\ frames' = Emitted(To("config"), SetVars, p)
           /\ UNCHANGED <<sessions, queries>>
        \/ /\ Top.phase = "config"
           /\ IF InAutoexec THEN UNCHANGED sessions /\ frames' = To("reconnect")
              ELSE sessions' \in {sessions, sessions \cup ({p} \ UI)} /\ frames' = To("postinit")
           /\ UNCHANGED queries
        \/ /\ Top.phase = "postinit"
           /\ frames' = Emitted(To("reconnect"), SetVars, p)
           /\ UNCHANGED <<sessions, queries>>
        \/ /\ Top.phase = "reconnect"
           /\ IF Top.kind # "load" THEN frames' = Tail(frames) /\ UNCHANGED queries
              ELSE frames' = Moved(Tail(frames)) /\ queries' = Reconnected(queries, prio)
           /\ UNCHANGED sessions
  /\ UNCHANGED <<plugins, prio, code, watch, timers>>

\* /plugin with a priority.
SetPrio(p, n) ==
  /\ Running  /\ p \in ToSet(plugins)
  /\ prio' = [prio EXCEPT ![p] = n]
  /\ plugins' = AddSorted(Without(plugins, p), p, prio')
  /\ queries' = Reconnected(queries, prio')
  /\ frames' = Moved(frames)
  /\ UNCHANGED <<code, things>>

(***************************************************************************)
(* plugin_unload(), plugin_unregister()                                    *)
(***************************************************************************)

\* A slip: a watch that was freed as it runs is not looked for.
RefusedRunning(p, expert) ==
  (~expert /\ UI \cap ToSet(plugins) = {p}) \/ watch[p] = "running"

\* The two checks of plugin_unload(): the last user interface stays, but for experts, and so does a
\* plugin with a watch whose handler runs.
Refused(p, expert) ==
  (~expert /\ UI \cap ToSet(plugins) = {p}) \/ watch[p] \in {"running", "freed"}

\* What the program does not check, and nobody should do: unload a plugin from one of its timers,
\* handlers or last calls, while it is loaded, or while a plugin is unloaded.
Below(p) == \E i \in 1 .. Len(frames) :
              frames[i].kind = "unload" \/ (frames[i].plugin = p /\ frames[i].kind \in {"timer", "last", "emit"} \cup Loaders)

Unload(p) ==
  /\ Running  /\ p \in ToSet(plugins)  /\ Len(frames) < MaxFrames
  /\ \E expert \in ExpertModes : ~Refused(p, expert)
  /\ UnloadAny \/ ~Below(p)
  /\ frames' = <<Frame("unload", p, "watches")>> \o frames
  /\ UNCHANGED <<lists, things>>

\* Handlers that are freed are not owed a call.
Disconnected(fs, p) ==
  [i \in 1 .. Len(fs) |-> [fs[i] EXCEPT !.owed = @ \ {p}, !.called = Without(@, p)]]

Unloading(phase) == frames # << >> /\ Top.kind = "unload" /\ Top.phase = phase

\* A slip: the timers are removed before the watches.
UnloadWatchesLate ==
  /\ Unloading("watches")
  /\ watch' = WatchFreed(Top.plugin)
  /\ frames' = LastCalled(Top.plugin, To("sessions"))
  /\ timers' = timers \ {Top.plugin}
  /\ UNCHANGED <<lists, sessions>>

UnloadWatches ==
  /\ Unloading("watches")
  /\ watch' = WatchFreed(Top.plugin)
  /\ frames' = LastCalled(Top.plugin, To("timers"))
  /\ UNCHANGED <<lists, timers, sessions>>

UnloadTimers ==
  /\ Unloading("timers")
  /\ timers' = timers \ {Top.plugin}
  /\ frames' = To("sessions")
  /\ UNCHANGED <<lists, watch, sessions>>

\* session_remove() tells everybody, then frees the session.
UnloadSession ==
  /\ Unloading("sessions")
  /\ frames' = IF Top.plugin \in sessions THEN Emitted(To("session"), Removed, None) ELSE To("queries")
  /\ UNCHANGED <<lists, things>>

UnloadSessionFree ==
  /\ Unloading("session")
  /\ sessions' = sessions \ {Top.plugin}
  /\ frames' = To("queries")
  /\ UNCHANGED <<lists, watch, timers>>

\* Nothing is called any more: handlers, variables and commands are freed, the code is unmapped.
UnloadRest ==
  /\ Unloading("queries")
  /\ queries' = [q \in Queries |-> Without(queries[q], Top.plugin)]
  /\ plugins' = Without(plugins, Top.plugin)
  /\ code' = code \ {Top.plugin}
  /\ prio' = [prio EXCEPT ![Top.plugin] = 0]
  /\ frames' = Disconnected(Tail(frames), Top.plugin)
  /\ UNCHANGED things

Next ==
  \/ \E id \in Queries \ {Removed, SetVars} : Emit(id)
  \/ \E stop \in BOOLEAN : HandlerReturn(stop)
  \/ \E p \in Plugins : LoopCalls("watch", p) \/ LoopCalls("timer", p) \/ Opens(p) \/ Closes(p) \/ LastCall(p)
  \/ CallReturn
  \/ \E p \in Plugins, n \in Prios, kind \in Loaders : Load(p, n, kind)
  \/ LoadStep
  \/ \E p \in Plugins, n \in Prios : SetPrio(p, n)
  \/ \E p \in Plugins : Unload(p)
  \/ UnloadWatches \/ UnloadTimers \/ UnloadSession \/ UnloadSessionFree \/ UnloadRest

Spec == Init /\ [][Next]_vars

(***************************************************************************)
(* Properties                                                              *)
(***************************************************************************)

\* Every part of the state holds values of its type, and a plugin is listed once.
TypeOK ==
  /\ plugins \in Seq(Plugins)  /\ IsInjective(plugins)
  /\ prio \in [Plugins -> Prios \cup {0}]  /\ code \subseteq Plugins
  /\ queries \in [Queries -> Seq(Owners)]  /\ \A q \in Queries : IsInjective(queries[q])
  /\ watch \in [Plugins -> {None, "idle", "running", "freed", "last"}]
  /\ timers \subseteq Plugins  /\ sessions \subseteq Plugins
  /\ frames \in Seq(FrameT)

\* When a frame returns, the code that it returns to is still mapped (plugins.c:486: "If any
\* plugin has backtrace here, and we try to remove it from memory. ekg2 do SEGV").
CodeIsThere ==
  \A i \in 1 .. Len(frames) : frames[i].plugin # Core => frames[i].plugin \in code

\* Nothing of a plugin that is gone is left in a list: no handler, watch, timer or session that
\* would be called, or lead, into it.
NothingLeft ==
  \A p \in Plugins \ ToSet(plugins) :
    /\ watch[p] = None  /\ p \notin timers \cup sessions \cup code
    /\ \A q \in Queries : p \notin ToSet(queries[q])

\* A walk calls no handler twice, and passes over none that was connected when it began and still
\* is, whatever plugins are loaded and unloaded from the handlers; it stands on a handler
\* that is connected.  A walk whose list was sorted again below it is not promised this.
EachCalledOnce ==
  \A i \in 1 .. Len(frames) :
    LET f == frames[i]
        list == queries[f.id]
        passed == ToSet(SubSeq(list, 1, SelectInSeq(list, LAMBDA r : r = f.plugin)))
    IN f.kind = "emit" /\ ~f.moved =>
         /\ IsInjective(f.called)
         /\ f.plugin \in ToSet(list)
         /\ passed \cap f.owed \subseteq ToSet(f.called)
=============================================================================
