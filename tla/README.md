# A verification development for ekg2

ekg2 is a single-threaded, multi-protocol instant messenger for the terminal.
Its core (`src/ekg/`) owns a main loop, lists of watches, timers, children and
query handlers, sessions with their rosters and windows, and the commands; every
protocol, interface and filter is a plugin (`src/plugins/`) that registers
handlers with the core.  Nothing runs in parallel, and yet most of what is hard
in this code is concurrency: a handler is called from the middle of a walk along
a list, and may change that list, call the function that walks it, or free the
very thing that is being served.

This directory holds TLA+ models of the core, TLC configurations for small
instances, and TLAPS proofs.  Line numbers refer to this repository; the exact
lines behind every definition are in `PROJECT.json` under `map`.

## 1. Inventory

| Component | State it keeps | Operations | Interacts through | What is hard |
|---|---|---|---|---|
| watches, main loop (`plugins.c`, `ekg.c`, `dynstuff.c`) | list `watches` with emptied nodes, `watch_t.removed`, buffers, `ekg_watches_removed` | `watch_add`, `watch_free`, `watch_remove`, `watch_handle*`, `watch_write`, `ekg_loop` | handlers of every plugin | re-entrancy, removal during a walk, nested loops, bad and reused descriptors |
| timers (`stuff.c`, `commands.c`) | list `timers`, the oldest first, the clock read once per loop | `timer_add`, `timer_remove*`, `/timer`, `/at`, the pass of `ekg_loop` | callbacks that give commands | removal below the walk, `select()` timeouts, 32-bit periods |
| connecting (`net.c`, `srv.c`) | `ekg_connect_data`: servers and two address queues | `ekg_connect`, its loop, handlers and abort; a resolver child | watches, a callback into the plugin | failure of one step of several, sessions that vanish, abort |
| sessions up and down (`protocol.c`, `sessions.c`, a protocol plugin) | `connected`, `connecting`, the "reconnect" timer, the plugin's pointer to its attempt | `/connect`, `/disconnect`, `/reconnect`, `protocol_connected`, `protocol_disconnected`, `session_remove` | queries, timers, watches, `ekg_connect` | three owners of one fact; timeouts racing commands |
| queries (`plugins.c`) | per-id lists of handlers by priority, a nesting counter | `query_connect`, `query_emit*`, `query_free` | every component | handlers that register, free, or emit the query they serve |
| plugins (`plugins.c`) | list of plugins by priority | load, register, unload, unregister | takes away watches, timers, sessions, queries, variables, commands | code unloaded under its own frames |
| message queue (`msgqueue.c`) | messages of sessions that are down; files under `queue/` | add, remove, flush, write, read | `/msg`, `protocol_connected`, exit and start | walk over a list that commands change; a crash between write and unlink |
| buffers (`stuff.c`) | bounded lists with a pointer to the last line | add, tail, remove, flush | conferences, debug window | the limit of one line |
| sessions, windows (`sessions.c`, `windows.c`) | sessions, current session, windows pointing at both | add, remove, switch, kill, cycle | each other, interfaces | dangling current session or window |
| userlist (`userlist.c`, an xmpp account's `jabber_handlers*`) | rosters with resources by priority, statuses | add, remove, resources, `protocol_status` | protocols, commands | pushes, probes and presences that cross |
| metacontacts (`metacontacts.c`) | items by priority, found by session and name | add, remove, rename | userlist | references by name |
| protocol: messages, statuses, dcc (`protocol.c`) | dcc list | message, status and acknowledgement handlers, dcc add/close | queries, windows, userlist, message queue | statuses of several resources |
| irc channels (`plugins/irc`) | people, channels, each one's list of the other, windows | JOIN, PART, KICK, QUIT, NICK, MODE, NAMES; `/join`, `/part`, closing a window | windows, the server's stream | raw pointers both ways, requests that cross |
| events (`events.c`) | `/on` handlers | add, remove, check | queries, commands | handlers that remove themselves |
| configuration, start and exit (`configfile.c`, `vars.c`, `sessions.c`, `ekg.c`) | variables, a file per plugin, protocol, session and for the rest, `config_changed`, `ekg2_reason_changed` | set, read, write, `/save`, `/reload`, autosave, `main`, `ekg_exit` | everything that is saved; signals | one of many writes fails; the program ends between two of them; two flags for ten files |
| scripts, audio, themes, log, recode, emoticons, bindings, aliases | their own lists | - | - | mostly text |
| the rest of the protocols (jabber, gg, irc, icq, feed, polchat, rivchat, xmsg) | connections over watches | their protocols | core | nntp waits in a nested `ekg_loop()` |
| interfaces (ncurses, readline, gtk), remote control (rc, remote, httprc_xajax, ioctld), logs (logs, logsqlite, logsoracle, mail), interpreters (perl, python), filters (gpg, sim, rot13, ...) | - | - | queries, watches | readline waits in its own loop |

`remote/` is a separate client program with its own copy of the core;
`compat/`, `contrib/`, `m4/`, `po/` and `docs/` hold portability code, scripts,
build files, translations and documentation.

What makes these correct, in words: no function ever continues with a pointer
to something a handler freed; a handler is not entered again while it runs and
gets exactly one last call; a removal that was asked for happens; the loop
survives bad descriptors; timers are neither early, lost, late nor executed
twice; a session has one connection or one attempt, whoever fails or gives up;
a session that went down against its user's will is tried again; no window
points to a session that is gone, and numbers name one window; no code is
unmapped below a frame of it, and nothing of an unloaded plugin stays behind; a
message is neither lost, repeated, forgotten nor overtaken, over breaking
connections, exits and starts; what is not marked as changed is in the files, and the
files are whole; and when the network is quiet, the userlist and
the channels' lists are what the server knows.

## 2. Modules

| Module | What it is |
|---|---|
| `EkgLoop` | watches and the main loop: the list of watches and the stack of activations |
| `WatchContract` | abstract: what a watch promises its owner; `EkgLoop` implements it |
| `EkgLoopProofs` | proofs about `EkgLoop`, and that it implements `WatchContract` |
| `Timers` | timers, the pass over them, `select()`'s timeout, `/timer`, `/at` |
| `TimersProofs` | proofs about `Timers` |
| `Connect` | `ekg_connect()`, the session it is for, and the reconnect timer |
| `Sessions`, `MCSessions` | sessions and the windows that point to them, `/session`, `/window`, `/query`; an instance with three sessions |
| `SessionsProofs` | proofs about `Sessions` |
| `Plugins` | queries and plugins: nested walks over handlers, loading and unloading below them |
| `PluginsProofs` | proofs about `Plugins` |
| `MsgQueue`, `MCMsgQueue` | the message queue, `/msg` of gg and jabber, flush, exit, crash and start; an instance with symmetric people and gg accounts |
| `MsgQueueProofs` | proofs about `MsgQueue` |
| `Presence` | an xmpp account's roster and resources against a server |
| `JabberProofs` | proofs about `Connect` and `Presence`, the two sides of an xmpp account |
| `Config`, `MCConfig` | settings in memory and in files: reading, saving, autosave, `/reload`, exit and start; an instance with an interface and two protocols |
| `ConfigProofs` | proofs about `Config` |
| `Irc`, `MCIrc` | channels and people of an irc session against a server; an instance with symmetric nicks |
| `IrcProofs` | proofs about `Irc` |

Definitions whose comment starts with *Slip* are variants that a plausible
mistake would give (a missing test, a wrong order).  Nothing uses them in the
specifications; they exist so that every property can be shown to fail when the
code is changed that way (`mutants` in `PROJECT.json`).

### EkgLoop

A watch is a number, in the order of allocation.  `list_add_beginning()` puts
new ones first, so a walk visits decreasing numbers and `Following(c)` is the
next node.  `cell` is the life of the node: `live`, then `empty` when
`list_remove_safe()` has taken the data out, then `freed` by `list_cleanup()`.
`removed` is the field of `watch_t`: 0, -1 running, 1 running and asked to go,
2 in its last call.

`stack` is the call stack as far as it holds pointers: frames of `ekg_loop()`
(its place in the function and in the list), of a handler (`event`), of the last
call that `watch_free_data()` makes (`final`), of timer and child callbacks, of
`watch_remove()`, and of the command `/_autoback`, which the loop gives for a session
that is away when the keyboard is ready, between reading the watch and dispatching it
(`ekg.c:380`).  A step is one stretch of code between two calls or
returns.  `Holds(f)` says that what frame `f` will dereference is still there;
the model stops where it is not (`Sane`), for the C program is then undefined.

Handlers are arbitrary: each may make up to `MaxCalls` calls of the interface
(`Api`) - add, free, remove, write, cork, open or close a descriptor, run the
loop - and return 0 or -1.  Assumptions about them, each of which the plugins
keep: a handler does not write to a watch whose removal was asked for
(`Writable`); no last call runs a nested loop (`CallLoop`).  `/_autoback` may do what
a handler may, but it touches no watch of the keyboard (`Spared`) and waits in no loop:
gg, irc, jabber and icq have it, and each only sends a status.  A watch has a
descriptor number that may be closed and reused under it.

Left out: the text in buffers (only the number of units), lists of timers and
children (their passes are `CallbackFrame`), permissions, `READ|WRITE` watches,
and dates.  A timeout may fire for any idle watch of a kind in `TimedKinds`.
`watch_timeout_set()` is declared (`plugins.h:213`) and called, but no file of
this snapshot defines it.

### Timers

A timer is a number in the order of creation; the list goes upwards.  `timer`
holds the structure and its history, `now` the clock, `stack` the activations
(`pass`, `call`, `wait` in `select()`, `handlers` of descriptors).  `Resume(t)` is
what `timers_removei()` gives the walk.  Seconds become `Milli` ticks in an
unsigned integer of `Wrap` values.  A callback that returns -1 does not wait.

### Connect

All code here runs in handlers that finish before the next begins, so an action
is one handler or command with everything it calls; the functions it calls are
operators from a state to a state, or to a set of states where system calls may
fail or succeed.  `session` is `session_t` with the plugin's part, `attempt` the
`ekg_connect_data`; queues are counts, since only emptiness matters.  `wanted`,
`outcome` and `refused` are history.  With `ResolverMayFail` `ekg_resolver4()` may
return NULL (`pipe()` or `fork()` failed): `ekg_connect_loop()` stores it and reports
success (`net.c:435`), the attempt waits for nothing (`Stranded`), and to abort it
writes through the NULL pointer (`net.c:451`): the outcome `crashed`.

The caller is `plugins/jabber`, the only plugin that uses `ekg_connect()`; gg and
irc have their own connecting.  When the watch of a freed attempt is served once more it finds
`data == NULL` and goes, so it is not in the model.  Left out: name resolution
itself, SRV, families other than "preferred" and "other", SSL, the userlist and
status work of the same handlers, `/connect` refused for want of a password or a
lock, and Tlen accounts, which connect to a hub first (`jabber.c:821`): the second
attempt of those is not kept by the plugin, and would break `Abortable`.

### Sessions

No code here waits, so an action is one command, message or key with all that it
calls.  `ui` is the state: the structures of windows, the sorted list of them,
`window_current`, `window_last_id`, the sessions, `session_current`.  Functions of
`windows.c` and `sessions.c` are operators from a state to the state they leave,
under their own names.  Window numbers are unsigned shorts (`Number`).  Whom a
session knows (`get_uid()`, `get_nickname()`) is a constant.  Users switch to, move
and swap windows by any of `Ids`; variables `make_window` and
`window_session_allow` are read as any of `MakeWindows` and `Allows` at each use.
Left out: what windows show, activity, splits, the lastlog, and `/window new` or
`/window move` applied to the contacts window.

### Plugins

`frames` is the C stack, the top first: callbacks of the loop (`watch`, `timer`,
`last`), walks of `query_emit_id()` (`emit`), and `plugin_load()` and
`plugin_unload()`, which call handlers and callbacks half-way (`phase`).  A walk
stands on a handler (`plugin`) of a query's list; `called` and `owed` are its
history, `moved` says that `queries_reconnect()` linked its list anew below it.
`plugin_load()` is called in three ways (`Loaders`): by `/plugin`; by `main()`, under
`in_autoexec`, where the phases of settings are skipped (`plugins.c:335`); and by
`/reload`, for each plugin of the file, without it.  A `plugin_init()` that fails leaves
nothing behind and is no step.  `config_expert_mode` is any of `ExpertModes`: it skips the
test for the last interface, not that for running watches (`plugins.c:414`, `Refused`).
Each plugin has one handler per query, at most one watch, one timer, one session.
What runs on top may emit queries, open and close its watch, and give `/plugin`
commands, up to `MaxNested` walks and `MaxFrames` frames.  Which code is mapped
(`code`) is what `dlclose()` leaves.

### MsgQueue

A message is the number of the `/msg` that gave it.  `queue` is `msgs_queue`, `disk`
the files, `link` each session's connection, `wire` what gg's server has not
answered; `walk` is where `msg_queue_flush()`, `msg_queue_write()` or
`msg_queue_read()` stands between two messages.  `/msg` runs inside the flush and
changes the list below it.  libgadu (external) numbers messages per `g->sess`: `seq` is
the last number of each session's connection, and every connection starts at 0, so that
connections and accounts do share numbers.  It may refuse any sending (`Refusals`), and
the entry then waits with the number -1.  Only gg answers with numbers: jabber hands
NULL to `protocol_message_ack` (`jabber_handlers.c:822`).  `sends`, `breaks`, `settled`,
`mistaken`, `refused`, `restored` are history for the properties.  A crash is the end of the process at any step; files whose
`unlink()` was done are gone.  Left out: conferences, several recipients where a
protocol takes them together, full disks, sessions removed with messages queued.

### Presence

The program's side is three handlers (`TakeRoster`, `TakePush`, `TakePresence`) and
three commands; the server's side is external.  Both streams keep their order, as
TCP does.  A *show* is a status with its description; resources are numbers in the
order of their names.  `userlist` has for each contact its entry, with the
resources in the order in which `userlist_resource_add()` puts them.  A push
removes and adds the entry, and `/auth --probe` asks for the presences again
(`jabber_handlers_iq_result.inc:561`, `:609`).  Left out: nicknames and groups,
subscription requests, errors, conferences, Tlen, ignored contacts, contacts
added before the roster has come, and `auto_user_add` (off by default), by which
`protocol_status()` adds an entry for somebody who has none (`protocol.c:349`): the server
sends presences of contacts of the roster only, and `PresenceFindsEntry` is proved of each
that is read.  Its specification is `PresenceSpec`, as
`JabberProofs` extends it together with `Connect`.

### Config

`mem` is what is set in memory and `disk` what reading each file would give, both
cut down to one bit per kind of thing: what `config` holds (aliases, `/on` and timers;
variables; those computed when saving), variables of each plugin, sessions, rosters,
metacontacts, and the set of plugins.  `Content(m, f)` says what is written to a file,
`Read...` what reading it does to memory.  A `/reload` flushes before (`Flushed`,
`configfile.c:192`): the lists, and the variables of those plugins and of the core that
`variable_set_default()` and the handlers of SET_VARS_DEFAULT reset (`Defaulted`); another
variable keeps its value when the file has no line of it.
`job` is a save under way: the functions still to be called and the files still to be
opened and closed, in the order of `config_write()` and `session_write()`.  Between
two of these `fopen()` may fail, a signal may run `ekg_exit()` on top, or the process
may be killed; an opened file is empty until it is closed.  Edits, `/reload`, loading
and unloading run at rest.  `Started` is `main()`; `left` remembers what the last
exit had in memory and what it saved.  Behind constants, because the code fails there
(see below): `/set --quiet` (`QuietToo`), a `/reload` of files that lack what is loaded
(`ReloadAny`), a full disk (`DiskFull`).  Left out: `/away` of irc, which raises no flag,
`speech_app`, `keep_reason` off, priorities of plugins, and the crash files of SIGSEGV.

### Irc

`known` is what `people.c` keeps: people with their channels, channels with the
people on them, and windows with their userlists.  People are named by nick, and
so are pointers to them.  `live` says that a channel's `window` pointer still leads to
a window.  Every handler of a message is an action that takes the first message
of the stream; `/join`, `/part`, `/cycle` and closing a window send.  The server
(external) knows who is where, and takes our lines in their order, while people
join, part, kick, quit, rename and give modes.  `close_windows` is either.  Of
prefixes there is the operator's; one channel may have none.  `ChanTypes` are the channels
that CHANTYPES names, "#!" if the server did not say (`misc.c:493`): only these are joined
by `/join` and left with their windows (`irc.c:1733`).  Others are joined and left by
`/quote`, and such a one goes on without its window, though the comment above
`irc_window_kill()` says that PART is sent when we are on the channel.  A kick is a part of
somebody, ourselves included.  Left out: connecting, messages, awaylog, topic, ban
and access lists, rejoining by itself (it is the user's `/join`), nick collisions
and encodings.

## 3. Runs

| Run | Instance | What it shows |
|---|---|---|
| `loop_flat` | 2 watches of every kind with a buffer and plain reading ones, 2 descriptors, one of them the keyboard's, 2 calls per handler | no dangling pointer, no re-entry, no dispatch on readiness of an earlier owner of a number, refinement of `WatchContract`, types |
| `loop_nested` | 2 watches, 1 descriptor, a nested `ekg_loop()`, no freeing of a running watch, no timeouts | no dangling pointer under re-entry |
| `loop_live` | 2 watches of the same kinds, fairness | removals asked for complete, `watch_remove()` ends, the loop recovers from bad descriptors, each but for one end that the property names |
| `timers` | 3 timers, 3 ticks, two names (one a numeral), slow commands and commands that wait in a nested loop | no dangling pointer, each timer due is served in its pass, none early, overslept, or executed twice when it is to run once |
| `connect` | 2 attempts, 2 servers, 2 addresses per queue, immediate refusals, resolvers that cannot be started | one connection or attempt, abortable, `connecting` is true, reconnection, attempts end unless stranded |
| `sessions` | 3 sessions, 4 windows, 2 people | nothing points to a freed session or window, numbers are distinct and sorted, the current session is that of the window |
| `plugins` | a protocol and an interface, 3 queries, 2 walks, 4 frames, `config_expert_mode` 0 and 1 | code is there while a frame of it is, nothing is left of an unloaded plugin, walks call every handler once |
| `msgqueue` | 3 accounts (2 of gg, 1 of jabber), 2 people, 2 messages, 2 sendings of each, 2 starts | no message lost but to the answer of another account, none sent twice for nothing, left lying, or overtaken |
| `presence` | 1 contact with 2 resources, 2 priorities, 3 stanzas to us and 2 from us | when all is quiet the userlist is the server's truth and the status shown is that of the resource of highest priority |
| `config` | an interface, gg and irc with a session each, 2 commands of the user, 1 failing `fopen()`, 1 save cut short, 2 starts | nothing forgotten, a saved exit is read back, a cut costs one file, files of absent plugins are kept, autosave saves |
| `irc` | 2 channels (one without operators and not of CHANTYPES), 3 nicks, 2 messages each way | the lists stay linked; when all is quiet they are the truth |
| `bug_irc_window` | the same | violated: MODE for a channel whose window the user has just closed uses the freed window |

Bounds.  Two watches are the smallest instance in which a handler frees the watch
being visited, the one before and the one after, and a descriptor is reused; two
calls allow "close and open", "free and add".  `MaxQueue` and `MaxLines` of 1 (2 in
`loop_live`) separate "nothing", "something" and "the rest".  Two loops are one
nested.  Three timers are a walk with a first, middle and last element; the clock
lets a timer of one second (2 ticks) start, and be late for its next time (with 5 ticks
the run takes three times as long and also passes).  In `Connect` two servers and two
addresses give first, middle and last tries; a second attempt is needed because
a removed session leaves one behind.  In `Sessions` four windows are the two that
always exist and two more, so that one can be before, on or after another; three
sessions are needed for a cycle that passes over one.  Two plugins of different
classes with the core's handler first or last make walks of three handlers, whose
middle and ends can go; two nested walks are the re-entry of one query.  Two
messages are one that waits and one that follows it, of one account or of two whose
numbers are the same, and two sendings of each one before and one after a break;
two starts are one restart.  A contact has its own resources and no code relates
two contacts, so one is enough, two resources are a first and a second; three stanzas
are a push with two presences.  In `Config`
the two protocols are of different kinds (one writes rosters when sessions go, one
raises a flag for `/away`); two commands are one
before and one after a save, a `/reload` or a load; two starts and one cut are a save
that is cut, the start after it and its exit.  Three nicks are we, one person and a name to change
to or a second person; one channel of two tells what happens to a person on
another channel.  Counters that grow without limit in the
program (allocations, the clock) are cut off by guards that name the bound.

`CHECK_DEADLOCK FALSE` stands where the model may rightly stop: the clock of
`Timers` at its bound, the user of `Connect` who does nothing more, after the session
is removed, and `MsgQueue` and `Config` when the program has ended after its last start.

Fairness.  `EkgLoop`: `WF(Next)`, the program keeps executing, as one thread
does; `SF(SelectReady)`, `select()` is not interrupted every time it is reached.
Nothing is assumed of handlers but that they return.  `Connect`: a resolver
child ends and closes its pipe; a connection is made, refused or timed out by
the system; `ekg_loop()` serves the watch or timer then ready.  Those are weak
fairness on `ResolverEnd`, on the two results of `connect()`, and on the timer; none
of it helps an attempt that has no resolver to wait for.
A server that never answers after the socket is up is not assumed away.
`Config`: a save that was begun goes on (`WF(Saving)`: the program is one thread), and
`ekg_loop()` comes to the autosave again (`WF(Autosave)`); `/set` sets its time back,
which users do finitely often.

### Where code and documentation disagree

The violation run is documented, with the lines quoted, under `findings`.  The
passing runs exclude what follows by constants with a name, and check all the
rest; each item names the instance in which TLC finds the violation.  There is
no run of its own for them.

*Watches*

* A handler frees its watch and waits in a nested `ekg_loop()`: the reap pass there
  (`ekg.c:214`) frees the running watch, against `plugins.c:900`.  `NoUseAfterFree`
  with one watch of kind `read`, `Api = {"add", "free", "loop"}`,
  `FreeRunning = TRUE`, `MaxCalls = MaxLoops = 2`.
* The same without any handler freeing what runs: a descriptor is closed under a handler
  that waits, `select()` fails, the pass over bad descriptors (`ekg.c:339`) asks for the
  removal of the running watch, and the reap pass of the nested loop carries it out.
  `NoUseAfterFree` with one watch of kind `read`, `Api = {"add", "close", "loop"}`,
  `MaxCalls = MaxLoops = 2`.  The end of a stream (`plugins.c:980`) closes as well: two
  watches, `Kinds = {"read", "readline"}` and one descriptor, `Api = {"add", "loop"}`,
  `MaxLoops = 3`.
* A handler of a write-line watch frees it and reports success: `plugins.c:1049`
  overwrites the mark and the removal is forgotten, against `plugins.h:186`.
  `loop_live` has such watches; `RemovalCompletes` excepts exactly this end (live, with
  the mark 0 again), and TLC finds it violated without the exception.
* `watch_remove()` for the descriptor of a write-line watch without handler:
  `watch_free()` refuses the watch (`plugins.c:905`), `watch_find()` finds it again, and
  the program hangs, as the comment "here can be deadlock" (`plugins.c:1198`) fears.
  `Hangs` is that state; `RemoveEnds` says that there is no other way not to end, and
  TLC finds it violated without `Hangs`.
* The descriptor of a write-line watch without handler is closed: `watch_free()`
  refuses it and every later `select()` fails while it has data to send, against the
  comment at `ekg.c:327`.  `Recovers` excepts it (`Obstinate`), and TLC finds it
  violated without the exception.
* A nested loop calls the timeout handler of a watch that is running
  (`ekg.c:359` does not test `removed`).  `NoReentry` with `TimedKinds = {"read"}`,
  `MaxLoops = 2`.

*Timers*

* A command that stops its own timer frees it while the pass stands on it
  (`ekg.c:203`); `docs/commands-pl.txt:542` says `--del` stops a timer, without
  exception.  `NoUseAfterFree` with `RemoveOwn = TRUE`, two timers.
* A once-only timer whose command waits is executed again: `OnceOnly` with
  `WaitOnce = TRUE`.
* `seconds * 1000` wraps: `NotEarly` with `Milli = 4`, `Wrap = 8`, `Periods = {1, 2}`.
* `/at --del` also removes a timer of `/timer` (`commands.c:3254`), against
  `docs/commands-pl.txt:91`: `AtRemovesPlans`.

*Connecting*

* When no resolver can be started for a server, `ekg_connect_loop()` returns 1 all the
  same (`net.c:435`; its callers take that for "go on"), and nothing calls for the
  attempt again: `/connect` is refused with `during_connect`, the reconnect timer is not
  set, and `/disconnect` writes through `current_watch`, which is NULL (`net.c:451`),
  against "allowing user to abort connecting" (`net.c:87`).  The run has this
  (`ResolverMayFail = TRUE`), and `AttemptEnds` excepts the attempt that is `Stranded`;
  TLC finds it violated without the exception.  `ConnectingIsTrue` and `KeepsTrying`
  hold, but a stranded session is "connecting" until the program ends.
* An address that `connect()` refuses at once makes `ekg_connect_loop()` go on with
  the next server, whatever other addresses were found (`net.c:426`, against its
  comments at 372-373 and 85): `TriesAll` with `MaxAddresses = 1`.
* With a reconnect timer pending, `/disconnect` removes the timer and returns, also
  while a manual `/connect` is under way (`plugins/jabber/commands.c:168`, against
  `commands-en.txt:161`): `DisconnectObeyed` with `MaxAddresses = 1`.

*Sessions and windows*

* `session_remove()` looks for another session for each window while the removed
  one is still in the list (`sessions.c:279`), so windows keep pointing to the first
  session when it is removed, against `sessions.c:237`: `PointersLive` with
  `RemoveAny = TRUE`, two sessions, three windows.  With `window_session_allow` 1 it
  happens to any session which alone knows the person of the window: `Allows = {1}`
  and a `UidOf` where only session 2 knows somebody.
* With `make_window` 0 or 1 `/query` and messages set the session of the current
  window without `session_current`: `SessionFollowsWindow` with `MakeWindows = {0}`.
* A window number is an unsigned short: `Ids = {2, 65537}` gives a second window 1,
  and 1000 (the contacts window's) or -1 two windows of one number:
  `WindowsOrdered`.
* Not in the model: `lastlog->w` keeps a killed window (`windows.c:765`);
  `/window new __contacts` makes a window the interface takes for its own.

*Plugins and queries*

* A plugin may be unloaded below a timer, a query's handler, a last call or a load
  of its own (the XXX at `plugins.c:436`): `CodeIsThere`, `NothingLeft` and
  `EachCalledOnce` with `UnloadAny = TRUE`.
* A `/plugin` with a priority inside a walk links the lists anew: handlers are called
  again or passed over, and for ever if one handler does it each time.
  `EachCalledOnce` excepts such walks (`moved`).
* Plugins read from a file are connected behind each other, whatever their
  priorities, until the first `/plugin` sorts them (`configfile.c:164`).

*Messages*

* One gg `/msg` to several people puts one entry per person into the queue, each
  with the whole list (`plugins/gg/commands.c:816`); the flush gives each entry to
  everybody: n people get n copies, n * n after the next reconnect.
  `NoneTwice` with `Targets = {{a}, {a, b}}`.
* An answer removes every entry with its number, of whatever account
  (`msgqueue.c:116`), and libgadu gives the same numbers to every connection: with two gg
  accounts the answer to one takes from the queue a message of the other that is not
  answered, as the @todo above `protocol_message_ack()` fears (`protocol.c:907`).  The model
  does so too (`mistaken`), and `NoneLost` excepts just that; without the exception TLC
  finds it violated in the run `msgqueue`.
* `msg_queue_flush()` removes a message whatever `/msg` returned; a message with an
  unknown nick is gone.  Not in the model.

*Presence*

* A resource that changes its priority stays where it is (`jabber_handlers.c:1649`,
  "here resort, stupido"), and the first is shown as the "highest prio"
  (`protocol.c:459`).  Excepted by `InOrder`.
* "unavailable" from a resource that is not listed adds it (`jabber_handlers.c:1646`).
  Excepted by `InOrder`.
* `EVENT_ONLINE` and `EVENT_OFFLINE` come for every resource, though another one is
  there (`protocol.c:445`); an item whose nickname differs is announced by
  `USERLIST_RENAMED` but keeps its old nickname.  Not in the model.

*Settings and files*

* The autosave clears `config_changed` without having written the metacontacts
  (`ekg.c:226`, against `commands.c:1649`), and `--add-item` and `--del-item` never raise
  it: `NothingForgotten` excepts them.
* `/set --quiet` changes a variable and raises no flag (`commands.c:1793`):
  `NothingForgotten` with `QuietToo = TRUE`.
* Nobody asks what `userlist_write()` returned (`sessions.c:937`): `NothingForgotten` with
  `"userlist"` in `MayFail`.  Nor is `fprintf()` or `fclose()` asked: `NothingForgotten` and
  `QuitSaves` with `DiskFull = TRUE`.
* `/reload` clears the flag though plugins loaded since the last save are not in the
  file: `NothingForgotten` with `ReloadAny = TRUE`, `MaxEdits = 3`.  It returns before it
  reads the metacontacts, which it has destroyed, when the last protocol has no
  sessions file (`commands.c:2444`).
* `ekg_exit()` destroys the interfaces before it saves (`ekg.c:1093`), so `plugins` is
  written without them and their variables are not written, while
  `docs/vars-pl.txt:336` says that the configuration is saved.  `QuitSaves` excepts them.
* irc, icq and feed write rosters when sessions are removed, so also at an exit whose
  user declined to save (`irc.c:244`).
* Not in the model: a parameter of a session that is unset has no line
  (`sessions.c:956`) and comes back with its default; with `speech_app` set a changed
  configuration is not asked about at exit (`ekg.c:1100`).

*irc*

* `/names` reads `chan->window->userlist` like the MODE of `bug_irc_window`
  (`irc.c:1982`).
* Closing the window of a channel that is not of CHANTYPES sends no PART (`irc.c:1733`): the
  program stays on the channel without its window, against the comment above
  (`irc.c:1715`).  `Accurate` asks for windows of the others only.
* NAMES shows the highest prefix only, so a voice below an operator is lost.  Not
  in the model.

## 4. Proofs

Every theorem is for any value of the constants that the assumptions in the modules
admit; what it needs beyond them is named in its statement and here.

**`EkgLoopProofs`**, when no handler calls `ekg_loop()` (`MaxLoops = 1`), and for any
number of nested loops when handlers are `Gentle`: they free no running watch, set no
timeouts, close no descriptor, and add no watch of kind `readline`, for which ekg2
closes the descriptor itself (`loop_nested` is such an instance).  None of the four can
be left out: section 3 has a counterexample for each.

* `TypeCorrect`: `Spec => []TypeOK`;
* `MemorySafe`: `Spec => []NoUseAfterFree`;
* `NotReentered`: `Spec => []NoReentry`;
* `ContractKept`: `Spec => KeepsContract`, the refinement of `WatchContract`;

and for any number of nested loops and any handlers `ServesNoNewcomer`:
`Spec => []NoStaleReadiness`.

None of these is inductive.  A frame's watch is live because nobody frees it
while it runs, which holds because its mark says so, which holds because a mark
is reset only by the frame that set it - of which there is one.  The invariant
`IInv` is `Typed` and, of the stack: `Rooted` (a loop is the bottom frame, and none
runs above a last call), `Walks` (the node that a loop stands on is in the list), `Marked`
(a handler's watch is live and marked as running, and that of `/_autoback` is live), `Owned` (a mark that is not 0 has a
frame), `Distinct` (two handler frames are of two watches) and `Given` (what a write
handler was given is still in the buffer, without which a length could become
negative).  `Pinned` is why the watch survives `/_autoback`, though it is not marked: it is
the keyboard's and the loop stands on it, the command frees no such watch, waits in no
loop, and calls no `watch_remove()` for that descriptor, and nothing that it does call
is a handler of one.  Since most steps build a stack by a pop, a change of the top and a push,
there is one lemma for each of these, and a step per action on top of them.

A nested loop runs `list_cleanup()` in the middle of the walks of the loops below it.
That their nodes survive it is because a loop that waits either stands at the head or
has called the handler of the very watch it stands on (`Walks`), which is live, while
`list_cleanup()` takes empty nodes only.  And the watch stays live while the handler
waits because nobody marks it for removal (`Tame`): `watch_remove()`, which control
returns to with no handler above it, does not find a running watch that was there when
it was called, as types and descriptors of running watches do not change to what
it looks for; and the pass over bad descriptors finds none (`Settled`).

For the contract, the phase of a watch is a function of its cell and mark (`PhaseOf`),
so that most steps are shown to leave the abstract phase and the abstract stack of
handlers (`HandlersOf`, which forgets loops and callbacks) or to change both as one
action of `WatchContract` does; `Promised` is what a step owes, and there is one lemma
per kind of step (`SeenCall`, `SeenReturn`, `SeenFree`, ...).

Stale readiness needs another argument.  Watches are allocated in their order
(`Allotted`), and a walk that began does not meet a watch that is newer than its
`select()` (`Fresh`): it stands at the head of the list only as long as nothing runs
above it, and goes to older watches from there.  Memory need not be safe for that,
which is why it holds with nested loops too.

**`TimersProofs`** proves all five properties of the run `timers`.  `NothingFreedIsUsed`
(`NoUseAfterFree`), `DueAreServed` (`EachServed`), `NeverOversleeps` (`Punctual`) and
`NeverEarly` (`NotEarly`) assume `Guarded`: no command removes the timer that executes it,
and the command of a timer that runs once does not call `ekg_loop()`.  The code prevents
neither, and with either a freed timer is used (section 3): what is proved is that other
removals, additions and nested loops do no harm.  `NeverEarly` also assumes that no period
wraps (`NoWrap`).  The invariant (`Good`) relates
each pass on the stack to the timers behind the one it stands on, which have all been
served in it (`Behind`); clocks grow up the stack (`Clocks`), or an inner loop could
serve a timer with a time that the outer pass takes for due again; and the callback of
a timer that runs once is the top of the stack (`Once`).

`AgainOnlyInside` and `ExecutedOnce` (`OnceOnly`) need less, and an invariant of their own
(`Inside`): a timer that is to run once and was started has a callback on the stack, above a
pass that knows that it does not come again.  So it is executed a second time only while its
own command is being executed, which assumes nothing (`AgainInside`); and it is executed once
if the commands of such timers call no `ekg_loop()` (`~WaitOnce`), also if they remove their
own timers.

**`MsgQueueProofs`** proves for any accounts, people, recipients and bounds `TypeCorrect`,
`NoMessageLost` (`NoneLost`), `NothingWaits` (`NoneWaits`), `NothingOvertakes`
(`NoneOvertakes`), and `NothingTwice` (`NoneTwice`) when every target is one person
(`Alone`, see section 3).  `NoneLost` excepts what the answer to another account removes;
where only one account answers (`OneAnswers`), `OneAccountKeepsAll` says that this never
happens.  Its invariant says where a message is at any time
(`Cared`): an entry of the queue or a file that no answer to its own account for another
message removes, or on the wire, settled or `mistaken`.  Within an account that rests on
numbers that one connection never gives twice (`Carried`), and on the entries that earlier
connections left: a broken connection takes its answers with it, and the flush, which is
over before the next answer is read, gives the entries it finds a number of the new
connection (`Ahead`, `Attended`, `Stands`).  Order needs `InOrder` of
what was never sent and `NotPassed`; `AtOnce`, that a message goes to all its recipients
in one step, keeps both from being stated per recipient.  `Single` is the sharper
account for `Alone`: an entry was sent as often as connections took it away.

**`PluginsProofs`** assumes `Guarded`, that no plugin is unloaded below a frame of its own
or during another unload (`UnloadAny = FALSE`).  Of frames of its own the code itself
refuses only a running watch; what it lets happen below a timer, a query's handler, a last
call or a load, the XXX of `plugins.c:436`, is assumed away and fails (section 3).  Shown is
that nothing else is needed.  It proves for any plugins, queries, priorities and depths
`ReturnsIntoCode` (`CodeIsThere`), `LeavesNothing` (`NothingLeft`) and `CalledOnce`
(`EachCalledOnce`).  The lists of all queries hold the same owners (`Listed`): without it a walk might end before a handler it owes.  A walk
knows how far it got (`Reached`): what it owes and has passed, it has called, and
nothing ahead.  That survives the handlers that other frames register and remove
because both keep the order of the rest; `queries_reconnect()` does not, which is why
`moved` walks are excepted.  Frames restrict what may be above them (`MayBeAbove`).

**`SessionsProofs`** assumes `Ordinary`: users give windows numbers up to 999, there are
at most 999 windows, `window_session_allow` is 0, 2 or 4, and the first of several
sessions is not removed (`~RemoveAny`).  Numbers beyond the range of the contacts
window, `window_session_allow` 1 and the removal of the first session are what section
3 shows to fail.  Nothing is assumed of whom a session knows, nor of the number of
sessions.  `TypeCorrect`, `SessionsPointersLive` (`PointersLive`) and
`SessionsWindowsOrdered` (`WindowsOrdered`) need no more; `SessionsFollowWindow`
(`SessionFollowsWindow`) also needs `MakeWindows \subseteq {2}` (the default, 6, modulo 4;
`stuff.c:163`).  The invariant is `Sound`.  Its part `Shape` says that the list is in the
order of numbers (`Ascending`), which windows may be in it (`Proper`: a floating window
is the contacts window with number 1000, the others stay clear of it), and that what is
not in it is unused; without the last a new window would inherit a session.  Its part
`Live` is about pointers.  `Follows` is stronger than `SessionFollowsWindow`: the
status and the debug window have no target (`Plain`), and the debug window has a session
only if the status window has one (`Twin`), because `window_session_cycle()` may change the
status window instead of the one it was called for.
All are of an arbitrary state, so that there is one lemma per function (`...Keeps`).
Moving, swapping and renumbering break the order and restore it; `Reordered` and
`Relabelled` say what of the list is left alone between.  While `session_remove()` goes
along the windows the session is still listed; `Departs` says what holds meanwhile, and
that no window it has passed has the session, for a window that asks gets the first
session, which is another.

**`JabberProofs`**, of `Connect`, needs no assumption but those on the constants' types,
and proves for any number of attempts, servers and addresses: `TypeCorrect`,
`AlwaysAbortable`, `NeverTwoConnections`, `ConnectingMeansIt`, `TimerThere`
(`KeepsTrying` and `OneTimer`) and `FailureIsLast`.  The invariant `IInv` ties the
three owners together (`Agree`): an attempt is pending exactly if the plugin
points to it; there is no socket then; a session is connecting or connected
exactly if there is one or the other.  It is stated of an arbitrary state
(`Sound(st)`), because a handler passes through several before it returns, and
there is one lemma for each function: what `jabber_handle_disconnect()` or
`ekg_connect_loop()` leaves of a sound state is sound.  A stranded attempt counts as
pending, which is what the code takes it for; aborting one ends the program, and with it
the session.  `KeepsTrying` is kept apart
(`Trying`): it is broken for a moment inside `/reconnect`.

**`JabberProofs`**, of `Presence`, assumes what the module does - finite sets of contacts
and resources, shows of people who are there that no show of people who are gone equals - and
proves for any such sets, any priorities and streams of any length `OnlineIsShown`
(`ShowsOnline`), `HighestIsShown` (`ShowsHighest`), `PresenceTypeSafety` and
`PresencesFindEntries`.  Nothing that
these say holds while stanzas are on their way, so the invariant (`EntriesFollow`) is about what
an entry will know when they are read.  For that only the last of them count: of those that
reset the entry, the roster and pushes (`Sequel`), and, of each resource, of those that reset the
entry or tell of the resource (`Ends`).  If there is one that tells, it tells the truth; if it is a
push, the contact is going to be probed or is not to be seen; if there is none, the entry knows
the truth already, or a probe waits.  Two more parts keep handlers from what they do wrong:
presences come to contacts that have an entry then (`Heard`), and a resource that
leaves is not known as one that has already left (`Farewell`), or an early return of
`protocol_status()` would leave the status of one that is gone.  There is a lemma
for each way to read a stanza (`ReadReset`, `ReadPresence`, `ReadOther`) and to send some
(`SendReset`, `SendNews`, `SendOther`), and `HandleFacts` says what
`jabber_handle_presence()` makes of an entry: that its status is that of its first
resource, while all that are listed are there, is part of it (`EntrySound`).

**`IrcProofs`** assumes that the two bounds are numbers, and proves for any set of
channels, any set of nicks and streams of any length every invariant of the run
`irc`: `TypeCorrect`, `AlwaysLinked` and `AlwaysAccurate`.  `Linked` alone is not
inductive: `irc_nick_change()` breaks it when somebody already has the new nick, and
that nobody has depends on everything that is still on its way.  So the invariant
`IInv` *foresees*: there is a sequence of views of the world, the first of which is
what the program knows now, each next one what one message of the stream makes of
it (`Step`), and the last of which is the server's truth.  The server keeps it so,
as it tells what it does (one lemma per step of the server); the program keeps the
rest, as every handler does to the view exactly what its message says (`Handled`, one
lemma per handler, on top of one per function of `people.c`).  `Sound` says of an
arbitrary state of the lists that channel, people and window fit each other.  A
channel whose window is gone is on its way out: some view is without it, or PART is
on its way, or it is not of CHANTYPES (`Leaving`); hence when everything has arrived every
other channel has its window, and a window that is there shows the members.

**`ConfigProofs`** proves for any plugins, protocols, sessions and bounds, without more
assumptions, `StateSound` (the invariant `Sound`), `OneFilePerCut` (`CutCostsOne`) and
`UnloadedStays` (`UnloadedKept`).  `Sound` says that what is still to be done of a save is
a `Series`: every file is opened once and closed behind that, and while it is open nothing
is done but, for a file of sessions, writing rosters.  That holds of `config_write()` and
`session_write()` because it holds of the pieces, which are of different files
(`Complete`, `ForEachComplete`), and it survives a step, and the jump behind a file that
could not be opened.  So at most one file of settings and one roster are open at any
time (`Opened`), and `torn` is these and what earlier cuts left.

`NothingIsForgotten` (`NothingForgotten`) and `ExitSaves` (`QuitSaves`) need four assumptions, each of
which section 3 shows to be needed for the first, and which the run makes too: files can
be written to their end (`~DiskFull`), rosters can be opened (`"userlist" \notin MayFail`), no
`/set --quiet` (`~QuietToo`), and `/reload` finds files that name what is loaded and hold a
line of every variable (`~ReloadAny`).  `NothingForgotten` is about a program at rest; what has
to be kept is `Holds`: at any time, while no flag is up, the files *that are not open* hold what
is in memory.  A file that is closed holds it at once (`CoreCloses`), so a save that fails half
way, or is never finished, does no harm; one that is through and clears the flag has written
everything it was begun for (`Written`).  `FilesSound` and `Ordered` are there for one line of
`config_read()`, which reads no plugin's variables when the core's file does not exist: a save
opens that file before those of plugins.  For the exit, `Leaves` remembers what was in memory
when `ekg_exit()` began; when only sessions are saved, `Holds` of that moment is what the other
files still hold when it has ended, for nobody has opened them since (`OnlySessions`).

TLC found the invariants true of the instances before they were proved (that of `Irc`
with the views computed, that of `Presence` with its quantifiers bounded). Where a model
folds along a sequence, or selects from one, and is reasoned about, it does so by a
recursive function (`Resort`, `HandlersOf`) or by places (`Kept`), and a lemma says what
the model uses of it; what holds of all arguments is proved by a smallest
counterexample, as the library's induction cannot be instantiated.

Only model-checked: every liveness property, which is out of the prover's reach.
Every safety property of the passing runs is a theorem, some under assumptions that the
theorem states.

## 5. Not modelled, and the plan

Not modelled at all: formatting, parsing, text conversion, drawing, databases,
interpreters and the wire protocols; `components` in `PROJECT.json` gives the
reason for each.  Signals that run query handlers between two instructions
(`ekg.c:418`) would need a step everywhere.

Done: `EkgLoop`, `WatchContract`, `Timers`, `Connect`, `Sessions`, `Plugins` (with
queries), `MsgQueue`, `Presence`, `Irc` and `Config`, each with its run.

To model later, with the properties each is for:

* the bounded buffers (`stuff.c:436`): the last `max_lines` lines in order, with the
  case of one line, where the line that `last` leads to is freed;
* metacontacts, which keep items of rosters by name, over `Presence`;
* `protocol_message()` and dcc; events of `/on`;
* the Tlen hub in `Connect`, whose second attempt the plugin does not keep
  (`jabber.c:868`);
* nntp's `while (...) ekg_loop()` (`nntp.c:781`), which never ends when the connection
  breaks; icq's FLAP and SNAC numbers.
