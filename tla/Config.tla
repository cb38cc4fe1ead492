------------------------------- MODULE Config -------------------------------
(***************************************************************************)
(* Settings in memory and in files: config_read(), config_write(),         *)
(* session_read(), session_write(), userlist_write() and                   *)
(* metacontact_write(); who calls them - /save, the autosave of            *)
(* ekg_loop(), ekg_exit(), /reload, loading a plugin, main() - and         *)
(* config_changed, by which the program knows that something is not saved. *)
(*                                                                         *)
(* A value is 0, the default, or 1.  A file that is opened for writing is  *)
(* empty until it is closed; opening may fail; a save may be cut short by  *)
(* the end of the process, and leaves the open files empty (what stdio     *)
(* writes of them before its buffers are full).  layout is the variables   *)
(* that are computed when saving: windows_layout, session_default.         *)
(* Rosters that are written when sessions go are one step.                 *)
(***************************************************************************)
EXTENDS Naturals, Integers, FiniteSets, SequencesExt

CONSTANTS
    PluginOrder,       \* all plugins, in the order of the list `plugins'
    UI,                \* those of class PLUGIN_UI
    Protocols,         \* those of class PLUGIN_PROTOCOL
    Keepers,           \* protocols that write rosters on SESSION_REMOVED (irc)
    Telling,           \* those whose /away raises ekg2_reason_changed (gg)
    DefaultUI,         \* what main() loads when no interface is loaded
    DefaultProtocols,  \* what main() loads when no protocol is loaded
    Frontends,         \* what the user may ask for by -F: sets of plugins
    Owner,             \* [session -> the protocol its uid belongs to]
    Defaulted,         \* plugins, or "core", whose variable SET_VARS_DEFAULT resets
    AutoSave,          \* is auto_save on
    SaveQuit,          \* values of save_quit
    MayFail,           \* kinds of files that fopen() may refuse to write
    DiskFull,          \* may a file be cut short (nobody asks fclose())
    QuietToo,          \* may /set --quiet be given, which does not raise the flag
    ReloadAny,         \* may /reload come when a file lacks what is loaded
    MaxEdits,          \* bound: commands of the user
    MaxFails,          \* bound: failures of fopen()
    MaxStarts,         \* bound: starts of the program
    MaxCuts            \* bound: saves that are cut short

Plugins == Range(PluginOrder)
Sessions == DOMAIN Owner

ASSUME ConfigAssumption ==
    /\ PluginOrder \in Seq(Plugins) /\ IsInjective(PluginOrder) /\ "core" \notin Plugins
    /\ IsFiniteSet(Sessions)
    /\ UI \cup Protocols \subseteq Plugins /\ UI \cap Protocols = {}
    /\ Keepers \cup Telling \subseteq Protocols
    /\ DefaultUI \in UI /\ DefaultProtocols \subseteq Protocols
    /\ Owner \in [Sessions -> Protocols]
    /\ Defaulted \subseteq Plugins \cup {"core"}
    /\ Frontends \subseteq SUBSET UI
    /\ SaveQuit \subseteq 0..2
    /\ {MaxEdits, MaxFails, MaxStarts, MaxCuts} \subseteq Nat

VARIABLES
    mem,      \* what is set in memory
    disk,     \* [file -> what reading it gives]
    there,    \* the files that exist
    changed,  \* config_changed
    reason,   \* ekg2_reason_changed
    running,  \* is there a process
    job,      \* the save under way: [by, calls, todo, failed]
    left,     \* what the last ekg_exit() left behind: [mem, saved]
    torn,     \* files opened for writing and not closed
    cuts,     \* saves that were cut short
    edits, fails, starts

vars == <<mem, disk, there, changed, reason, running, job, left, torn, cuts,
          edits, fails, starts>>
bounds == <<edits, fails, starts>>

Absent == -1     \* no line for it in the file; no such session

-----------------------------------------------------------------------------
(* Files                                                                   *)

PluginsFile  == <<"plugins", "core">>
ConfigFile   == <<"config", "core">>
Metacontacts == <<"metacontacts", "core">>
ScriptsVar   == <<"scripts-var", "core">>
ConfigOf(p)   == <<"config", p>>
SessionsOf(p) == <<"sessions", p>>
Userlist(s)   == <<"userlist", s>>

Files == {PluginsFile, ConfigFile, Metacontacts, ScriptsVar}
         \cup {ConfigOf(p) : p \in Plugins}
         \cup {SessionsOf(p) : p \in Protocols}
         \cup {Userlist(s) : s \in Sessions}

Of(p) == {s \in Sessions : Owner[s] = p}

\* The memory of a program that has read nothing.
Nothing ==
    [plugins |-> {}, lists |-> 0, set |-> 0, layout |-> 0, windows |-> 0,
     var |-> [p \in Plugins |-> 0], session |-> [s \in Sessions |-> Absent],
     roster |-> [s \in Sessions |-> 0], meta |-> 0]

\* What is written to file f: lists are aliases, /on and timers; set and layout
\* are variables, layout the one that windows_save() computes.
Content(m, f) ==
    CASE f = PluginsFile   -> m.plugins
      [] f = ConfigFile    -> [lists |-> m.lists, set |-> m.set, layout |-> m.layout]
      [] f = Metacontacts  -> m.meta
      [] f = ScriptsVar    -> 0
      [] f[1] = "config" /\ f # ConfigFile -> m.var[f[2]]
      [] f[1] = "sessions" -> [s \in Of(f[2]) |-> m.session[s]]
      [] f[1] = "userlist" -> m.roster[f[2]]

\* What reading an empty file gives.
Empty(f) ==
    CASE f = ConfigFile -> [lists |-> 0, set |-> Absent, layout |-> Absent]
      [] f[1] = "config" /\ f # ConfigFile -> Absent
      [] OTHER -> Content(Nothing, f)

\* variable_set() of a variable that may have no line.
Read(old, line) == IF line = Absent THEN old ELSE line

\* config_read(NULL) but for main()'s flushes the lists and resets some variables.
Flushed(m) ==
    [m EXCEPT !.lists = 0,
              !.set = IF "core" \in Defaulted THEN 0 ELSE @,
              !.var = [p \in Plugins |-> IF p \in Defaulted THEN 0 ELSE @[p]]]

\* config_read(): a variable without a line keeps its value.
ReadConfig(m, d) ==
    [m EXCEPT !.lists = d[ConfigFile].lists,
              !.set = Read(@, d[ConfigFile].set),
              !.layout = Read(@, d[ConfigFile].layout)]

ReadVars(m, ps, d) ==
    [m EXCEPT !.var = [p \in Plugins |->
        IF p \in ps THEN Read(@[p], d[ConfigOf(p)]) ELSE @[p]]]

\* session_read() of the files of protocols ps, of which no session is left;
\* the handlers of SESSION_ADDED read the rosters.
ReadSessions(m, ps, d) ==
    LET line(s) == d[SessionsOf(Owner[s])][s]
    IN [m EXCEPT
         !.session = [s \in Sessions |-> IF Owner[s] \in ps THEN line(s) ELSE @[s]],
         !.roster = [s \in Sessions |->
            IF Owner[s] \notin ps THEN @[s]
            ELSE IF line(s) = Absent THEN 0 ELSE d[Userlist(s)]]]

\* What main() makes of the files, with the interfaces asked for by -F.
Started(front) ==
    LET listed == disk[PluginsFile] \cup front
        seen == IF listed \cap UI = {} THEN listed \cup {DefaultUI} ELSE listed
        all == IF seen \cap Protocols = {} THEN seen \cup DefaultProtocols ELSE seen
        core == ReadConfig([Nothing EXCEPT !.plugins = all], disk)
        read == IF ConfigFile \in there THEN ReadVars(core, all, disk) ELSE core
    IN [ReadSessions(read, all \cap Protocols, disk) EXCEPT
            !.windows = read.layout, !.meta = disk[Metacontacts]]

-----------------------------------------------------------------------------
(* What the user does                                                      *)

NotSaved == [mem |-> Nothing, saved |-> << >>]
NoJob == [by |-> "none", calls |-> << >>, todo |-> << >>, failed |-> FALSE]
AtRest == running /\ job = NoJob

Command ==
    /\ AtRest
    /\ edits < MaxEdits
    /\ edits' = edits + 1
    /\ UNCHANGED <<running, left, cuts, fails, starts>>

Edit(m, flag) ==
    /\ Command
    /\ mem' = m
    /\ changed' = (changed \/ flag)
    /\ UNCHANGED <<disk, there, torn, reason, job>>

Other(v) == 1 - v

\* /alias, /on, /timer, /at
ChangeList == Edit([mem EXCEPT !.lists = Other(@)], TRUE)

\* /set of a variable of the core, and of one of a plugin
Set(flag) ==
    /\ flag \/ QuietToo
    /\ Edit([mem EXCEPT !.set = Other(@)], flag)
SetVar(p) ==
    /\ p \in mem.plugins
    /\ Edit([mem EXCEPT !.var[p] = Other(@)], TRUE)

\* windows are opened and closed
ChangeWindows == Edit([mem EXCEPT !.windows = Other(@)], FALSE)

\* /session --add: the handler of SESSION_ADDED reads the roster
SessionAdd(s) ==
    /\ Owner[s] \in mem.plugins
    /\ mem.session[s] = Absent
    /\ Edit([mem EXCEPT !.session[s] = 0, !.roster[s] = disk[Userlist(s)]], TRUE)

\* /session --set
SessionSet(s) ==
    /\ mem.session[s] # Absent
    /\ Edit([mem EXCEPT !.session[s] = Other(@)], TRUE)

\* /away, /back with a reason
ChangeStatus(s) ==
    /\ Owner[s] \in Telling
    /\ mem.session[s] # Absent
    /\ Command
    /\ mem' = [mem EXCEPT !.session[s] = Other(@)]
    /\ reason' = TRUE
    /\ UNCHANGED <<disk, there, torn, changed, job>>

\* /add, /del
ChangeRoster(s) ==
    /\ mem.session[s] # Absent
    /\ Edit([mem EXCEPT !.roster[s] = Other(@)], TRUE)

\* /metacontact: --add and --del set the flag, --add-item and --del-item do not
ChangeMeta(flag) == Edit([mem EXCEPT !.meta = Other(@)], flag)

\* Userlists that the handlers of SESSION_REMOVED write when sessions ss go.
Kept(m, ss) ==
    {Userlist(s) : s \in {x \in ss : Owner[x] \in Keepers /\ m.session[x] # Absent}}

WriteNow(m, fs) ==
    /\ disk' = [f \in Files |-> IF f \in fs THEN Content(m, f) ELSE disk[f]]
    /\ there' = there \cup fs
    /\ torn' = torn \ fs

Without(m, ss) ==
    [m EXCEPT !.session = [s \in Sessions |-> IF s \in ss THEN Absent ELSE @[s]],
              !.roster = [s \in Sessions |-> IF s \in ss THEN 0 ELSE @[s]]]

\* /session --del
SessionDel(s) ==
    /\ mem.session[s] # Absent
    /\ Command
    /\ mem' = Without(mem, {s})
    /\ changed' = TRUE
    /\ WriteNow(mem, Kept(mem, {s}))
    /\ UNCHANGED <<reason, job>>

\* /plugin +p
PluginLoad(p) ==
    /\ p \notin mem.plugins
    /\ LET loaded == ReadVars([mem EXCEPT !.plugins = @ \cup {p}], {p}, disk)
       IN Edit(ReadSessions(loaded, {p} \cap Protocols, disk), TRUE)

\* /plugin -p; the last interface stays
PluginUnload(p) ==
    /\ p \in mem.plugins
    /\ p \in UI => mem.plugins \cap UI # {p}
    /\ Command
    /\ mem' = [Without(mem, Of(p)) EXCEPT !.plugins = @ \ {p}, !.var[p] = 0]
    /\ changed' = TRUE
    /\ WriteNow(mem, Kept(mem, Of(p)))
    /\ UNCHANGED <<reason, job>>

-----------------------------------------------------------------------------
(* /reload                                                                 *)

\* /reload loads what a start would load, and every variable has a line.
FilesComplete ==
    /\ mem.plugins \cup disk[PluginsFile] = Started({}).plugins
    /\ disk[ConfigFile].set # Absent
    /\ \A p \in Started({}).plugins : disk[ConfigOf(p)] # Absent

\* config_read_plugins(): plugins of the file that are not loaded.
Missing == disk[PluginsFile] \ mem.plugins

WithMissing ==
    ReadSessions(ReadVars([mem EXCEPT !.plugins = @ \cup Missing], Missing, disk),
                 Missing \cap Protocols, disk)

ReloadNoPlugins ==
    /\ PluginsFile \notin there
    /\ Edit(mem, FALSE)

\* config_read(NULL) flushes before it finds that there is no file.
ReloadNoConfig ==
    /\ PluginsFile \in there
    /\ ConfigFile \notin there
    /\ Edit(Flushed(WithMissing), Missing # {})

\* session_read(NULL) returns what it returns for the last protocol.
LastProtocolRead(m) ==
    LET ps == SelectSeq(PluginOrder, LAMBDA p : p \in m.plugins \cap Protocols)
    IN ps = << >> \/ SessionsOf(Last(ps)) \in there

ReloadAll ==
    LET m == WithMissing
        flushed == [Flushed(m) EXCEPT !.meta = 0]
        core == ReadVars(ReadConfig(flushed, disk), m.plugins, disk)
        read == ReadSessions(core, m.plugins \cap Protocols, disk')
    IN /\ {PluginsFile, ConfigFile} \subseteq there
       /\ ReloadAny \/ FilesComplete
       /\ Command
       /\ WriteNow(m, Kept(m, Sessions))
       /\ IF LastProtocolRead(m) /\ Metacontacts \in there
          THEN /\ mem' = [read EXCEPT !.meta = disk[Metacontacts]]
               /\ changed' = FALSE
          ELSE /\ mem' = read
               /\ changed' = (changed \/ Missing # {})
       /\ UNCHANGED <<reason, job>>

Reload == ReloadNoPlugins \/ ReloadNoConfig \/ ReloadAll

-----------------------------------------------------------------------------
(* Saving                                                                  *)

Open(f) == <<"open", f>>
Close(f) == <<"close", f>>
Whole(f) == <<Open(f), Close(f)>>

\* Slip: every file is opened before the first one is closed.
ConfigWriteAtOnce ==
    LET ps == SelectSeq(PluginOrder, LAMBDA p : p \in mem.plugins)
        fs == <<PluginsFile, ConfigFile>> \o [i \in 1..Len(ps) |-> ConfigOf(ps[i])]
    IN [i \in 1..Len(fs) |-> Open(fs[i])] \o [i \in 1..Len(fs) |-> Close(fs[i])]

\* The steps for some plugins, in the order of the list of plugins.
ForEach(steps) ==
    FlattenSeq([i \in 1..Len(PluginOrder) |->
        IF PluginOrder[i] \in DOMAIN steps THEN steps[PluginOrder[i]] ELSE << >>])

ConfigWrite ==
    Whole(PluginsFile) \o Whole(ConfigFile)
    \o ForEach([p \in mem.plugins |-> Whole(ConfigOf(p))])

\* One protocol's file; every roster is written while it is open.
SessionsSteps(p) ==
    LET ss == SetToSeq({s \in Of(p) : mem.session[s] # Absent})
    IN <<Open(SessionsOf(p))>>
       \o FlattenSeq([i \in 1..Len(ss) |-> Whole(Userlist(ss[i]))])
       \o <<Close(SessionsOf(p))>>

\* Slip: a file for every protocol there is.
SessionWriteAll == ForEach([p \in Protocols |-> SessionsSteps(p)])

SessionWrite ==
    ForEach([p \in mem.plugins \cap Protocols |-> SessionsSteps(p)])

Steps(call) ==
    CASE call = "config"   -> ConfigWrite
      [] call = "sessions" -> SessionWrite
      [] call = "meta"     -> Whole(Metacontacts)
      [] call = "scripts"  -> Whole(ScriptsVar)

Everything == <<"config", "sessions", "meta", "scripts">>

Begin(by, calls) == job' = [by |-> by, calls |-> calls, todo |-> << >>, failed |-> FALSE]

\* /save tries everything, whatever fails.
Save ==
    /\ Command
    /\ mem' = [mem EXCEPT !.layout = mem.windows]
    /\ Begin("save", <<"sessions", "config", "meta", "scripts">>)
    /\ UNCHANGED <<disk, there, torn, changed, reason>>

\* ekg_loop(), when auto_save seconds are over
Autosave ==
    /\ AtRest
    /\ AutoSave
    /\ changed
    /\ Begin("autosave", <<"config", "sessions">>)
    /\ UNCHANGED <<mem, disk, there, changed, reason, running, left, torn, cuts,
                   bounds>>

\* Calls that are still made: autosave and ekg_exit() chain theirs by && and ||.
Calls == IF job.failed /\ job.by # "save" THEN << >> ELSE job.calls

Call ==
    /\ running
    /\ job.todo = << >>
    /\ Calls # << >>
    /\ job' = [job EXCEPT !.todo = Steps(Head(Calls)), !.calls = Tail(Calls)]
    /\ UNCHANGED <<mem, disk, there, changed, reason, running, left, torn, cuts,
                   bounds>>

\* fopen(f, "w")
OpenFile ==
    \E f \in Files :
        /\ running
        /\ job.todo # << >>
        /\ Head(job.todo) = Open(f)
        /\ disk' = [disk EXCEPT ![f] = Empty(f)]
        /\ there' = there \cup {f}
        /\ torn' = torn \cup {f}
        /\ job' = [job EXCEPT !.todo = Tail(@)]
        /\ UNCHANGED <<mem, changed, reason, running, left, cuts, bounds>>

\* What is left of a call when f cannot be opened: config_write() gives up,
\* session_write() goes on behind f.
AfterFailure(f) ==
    IF f[1] \in {"sessions", "userlist"}
    THEN SubSeq(job.todo, Min({i \in 1..Len(job.todo) : job.todo[i] = Close(f)}) + 1,
                Len(job.todo))
    ELSE << >>

\* Nobody asks what userlist_write() returned.
OpenFails ==
    \E f \in Files :
        /\ running
        /\ job.todo # << >>
        /\ Head(job.todo) = Open(f)
        /\ f[1] \in MayFail
        /\ fails < MaxFails
        /\ fails' = fails + 1
        /\ job' = [job EXCEPT !.todo = AfterFailure(f),
                              !.failed = @ \/ f[1] # "userlist"]
        /\ UNCHANGED <<mem, disk, there, changed, reason, running, left, torn,
                       cuts, edits, starts>>

CloseFile ==
    \E f \in Files :
        /\ running
        /\ job.todo # << >>
        /\ Head(job.todo) = Close(f)
        /\ \/ disk' = [disk EXCEPT ![f] = Content(mem, f)]
           \/ DiskFull /\ UNCHANGED disk
        /\ torn' = torn \ {f}
        /\ job' = [job EXCEPT !.todo = Tail(@)]
        /\ UNCHANGED <<there, mem, changed, reason, running, left, cuts, bounds>>

Done == running /\ job.todo = << >> /\ Calls = << >>

\* Slip: the flag is cleared whether or not the writes succeeded.
ClearedAnyway == job.by \in {"save", "autosave"}

\* Slip: autosave leaves the flag to /save.
ClearedBySave == job.by = "save" /\ ~job.failed

Cleared == job.by \in {"save", "autosave"} /\ ~job.failed

\* The end of /save and of the autosave
SaveEnd ==
    /\ Done
    /\ job.by \in {"save", "autosave"}
    /\ changed' = (changed /\ ~Cleared)
    /\ reason' = (reason /\ ~Cleared)
    /\ job' = NoJob
    /\ UNCHANGED <<mem, disk, there, running, left, torn, cuts, bounds>>

-----------------------------------------------------------------------------
(* The end of the program, and its start                                   *)

\* Slip: sessions are freed before they are saved.
AtExitFreed(m) == Without([m EXCEPT !.plugins = @ \ UI], Sessions)

\* What is in memory when ekg_exit() comes to saving: interfaces are gone.
AtExit(m) ==
    [m EXCEPT !.plugins = @ \ UI,
              !.var = [p \in Plugins |-> IF p \in UI THEN 0 ELSE @[p]]]

\* Slip: config_write_partly() writes into the file itself.
PartlyInPlace(d) == [d EXCEPT ![ConfigFile] = [Empty(ConfigFile) EXCEPT !.layout = mem.windows]]

\* config_write_partly() writes a new file and renames it.
Partly(d) == [d EXCEPT ![ConfigFile].layout = mem.windows]

\* The calls that save_quit and the user's answer make of the two flags, with
\* keep_reason on and no speech_app (which takes the question away, ekg.c:1100).
Answers(quit) ==
    CASE quit = 2 -> {Everything}
      [] quit = 1 /\ changed -> {Everything, << >>}
      [] quit = 1 /\ ~changed /\ reason -> {<<"sessions">>, << >>}
      [] OTHER -> {<< >>}

\* ekg_exit(), up to where it saves
Exit ==
    \E quit \in SaveQuit : \E calls \in Answers(quit) :
        /\ mem' = AtExit([mem EXCEPT !.layout = mem.windows])
        /\ \/ /\ disk' = IF ConfigFile \in there THEN Partly(disk) ELSE disk
              /\ UNCHANGED fails
           \/ /\ ConfigFile \in there /\ "config" \in MayFail
              /\ fails < MaxFails
              /\ fails' = fails + 1
              /\ UNCHANGED disk
        /\ Begin("exit", calls)
        /\ left' = IF calls = << >> THEN NotSaved ELSE [mem |-> mem, saved |-> calls]
        /\ UNCHANGED <<there, changed, reason, running, torn, edits, starts>>

\* The user quits.
Quit == AtRest /\ Exit /\ UNCHANGED cuts

\* SIGHUP and SIGTERM call ekg_exit() wherever the program is; a second signal
\* inside ekg_exit() is not modelled.
Signal ==
    /\ running
    /\ job.by \in {"save", "autosave"}
    /\ cuts < MaxCuts
    /\ Exit
    /\ cuts' = cuts + 1

\* Nothing of the process is left.
Gone ==
    /\ mem' = Nothing
    /\ running' = FALSE
    /\ job' = NoJob
    /\ changed' = FALSE /\ reason' = FALSE

\* ekg_exit(), from where it has saved: sessions are freed and
\* script_variables_free() writes its file once more.
ExitEnd ==
    /\ Done
    /\ job.by = "exit"
    /\ WriteNow(mem, Kept(mem, Sessions) \cup {ScriptsVar})
    /\ Gone
    /\ left' = IF job.failed THEN NotSaved ELSE left
    /\ UNCHANGED <<cuts, bounds>>

\* The process is killed, the machine stops.
Crash ==
    /\ running
    /\ \/ job = NoJob /\ UNCHANGED cuts
       \/ job # NoJob /\ cuts < MaxCuts /\ cuts' = cuts + 1
    /\ Gone
    /\ left' = NotSaved
    /\ UNCHANGED <<disk, there, torn, bounds>>

\* main()
Start(front) ==
    /\ ~running
    /\ starts < MaxStarts
    /\ starts' = starts + 1
    /\ mem' = Started(front)
    /\ running' = TRUE
    /\ changed' = (front # {})
    /\ left' = NotSaved
    /\ UNCHANGED <<disk, there, reason, job, torn, cuts, edits, fails>>

-----------------------------------------------------------------------------

\* The first start finds no file, or those of a run in which everything was
\* saved with the default plugins.
InitialFiles ==
    LET first == [Nothing EXCEPT !.plugins = DefaultProtocols \cup {DefaultUI},
                                 !.session = [s \in Sessions |->
                                    IF Owner[s] \in DefaultProtocols THEN 0 ELSE Absent]]
        files == {f \in Files : \/ f[2] \in first.plugins \cup {"core"}
                               \/ f[2] \in UNION {Of(p) : p \in DefaultProtocols}}
    IN {[there |-> {}, disk |-> [f \in Files |-> Empty(f)]],
        [there |-> files, disk |-> [f \in Files |->
            IF f \in files THEN Content(first, f) ELSE Empty(f)]]}

Init ==
    /\ mem = Nothing
    /\ \E i \in InitialFiles : disk = i.disk /\ there = i.there
    /\ changed = FALSE /\ reason = FALSE
    /\ running = FALSE
    /\ job = NoJob
    /\ left = NotSaved
    /\ torn = {}
    /\ cuts = 0 /\ edits = 0 /\ fails = 0 /\ starts = 0

EditNext ==
    \/ ChangeList \/ ChangeWindows
    \/ \E p \in Plugins : SetVar(p)
    \/ \E s \in Sessions : \/ SessionAdd(s) \/ SessionSet(s) \/ SessionDel(s)
                           \/ ChangeStatus(s) \/ ChangeRoster(s)
    \/ \E flag \in BOOLEAN : ChangeMeta(flag) \/ Set(flag)
    \/ \E p \in Plugins : PluginLoad(p) \/ PluginUnload(p)

Saving == Call \/ OpenFile \/ OpenFails \/ CloseFile \/ SaveEnd \/ ExitEnd

Next ==
    \/ EditNext \/ Reload \/ Save \/ Autosave \/ Saving
    \/ Quit \/ Signal \/ Crash
    \/ \E front \in Frontends : Start(front)

\* The program is one thread that goes on: it finishes what it has begun, and
\* ekg_loop() comes to the autosave again and again.  A /set of auto_save sets the
\* time back; users do not do that for ever (MaxEdits).
Spec == Init /\ [][Next]_vars /\ WF_vars(Saving) /\ WF_vars(Autosave)

-----------------------------------------------------------------------------
(* Properties                                                              *)

\* m and what a start makes of the files agree on plugins ps; with no protocol
\* loaded the start loads the default ones.
Agree(m, ps) ==
    LET r == Started({})
    IN m.plugins \cap Protocols # {} =>
         /\ m.plugins \cap ps = r.plugins \cap ps
         /\ m.lists = r.lists /\ m.set = r.set
         /\ \A p \in ps : m.var[p] = r.var[p]
         /\ m.session = r.session /\ m.roster = r.roster

\* While both flags are down the files hold everything that is set, metacontacts
\* excepted (ekg.c:226 clears the flag without writing them, --add-item does not
\* raise it): whatever was edited, loaded, reloaded, whatever of a save failed
\* (commands.c:1646-1659, ekg.c:226-231, commands.c:2431-2453).
NothingForgotten ==
    AtRest /\ ~changed /\ ~reason => Agree(mem, Plugins)

\* When ekg_exit() has saved what the user agreed to save and nothing failed, the
\* next start finds everything as it was left, what belongs to interfaces
\* excepted: they are gone before saving (ekg.c:1093).  When only the sessions
\* were to be saved, the rest had been, unless a signal cut that short.
QuitSaves ==
    ~running =>
        /\ left.saved = Everything =>
              /\ Agree(left.mem, Plugins \ UI)
              /\ Started({}).meta = left.mem.meta
              /\ Started({}).windows = left.mem.windows
        /\ left.saved = <<"sessions">> /\ torn = {} => Agree(left.mem, Plugins \ UI)

FilesOf(p) ==
    {ConfigOf(p), SessionsOf(p)} \cup {Userlist(s) : s \in Of(p)}

\* The files of a plugin that is not loaded are left alone by every save, exit,
\* /reload and crash, also when the list of plugins itself was lost
\* (configfile.c:524, sessions.c:912).
UnloadedKept ==
    [][\A p \in Plugins \ mem.plugins : \A f \in FilesOf(p) \cap Files :
            disk'[f] = disk[f]]_vars

\* A save that is cut short costs at most one file of settings and one roster
\* (configfile.c:502-544, sessions.c:923-962, configfile.c:664).
CutCostsOne ==
    LET cut == cuts + (IF job = NoJob THEN 0 ELSE 1)
        rosters == {Userlist(s) : s \in Sessions}
    IN /\ Cardinality(torn \ rosters) <= cut
       /\ Cardinality(torn \cap rosters) <= cut

\* With auto_save on, a change is saved in the end, if fopen() does not fail for
\* ever and the program does not end before (ekg.c:222-231).
ChangesSaved == []<>(~changed \/ ~running)
=============================================================================
