------------------------------ MODULE Connect ------------------------------
(***************************************************************************)
(* Connecting a session: ekg_connect() of ekg/net.c, which resolves names  *)
(* and tries addresses one after another; the plugin that calls it         *)
(* (plugins/jabber); and what the core does when a session goes up or down *)
(* (ekg/protocol.c), where the timer that reconnects is.                   *)
(*                                                                         *)
(* All of it runs in handlers of one thread.  A handler runs to its end,   *)
(* and calls the others' functions on its way: an action is a handler or a *)
(* command, and an operator on states is a function it calls.  A function  *)
(* whose system calls may fail or succeed gives a set of states.           *)
(***************************************************************************)
EXTENDS Naturals, FiniteSets

CONSTANTS
  MaxAttempts,   \* ekg_connect_data that exist at once; freed ones are reused
  MaxHosts,      \* bound: servers in the session's list
  MaxAddresses,  \* bound: addresses in each of the two queues of an attempt
  RefusedAtOnce, \* may socket() or connect() fail without waiting?
  ResolverMayFail \* may pipe() or fork() fail, so that no resolver is started?

ASSUME AttemptsAssumption  == MaxAttempts \in Nat \ {0}
ASSUME HostsAssumption     == MaxHosts \in Nat \ {0}
ASSUME AddressesAssumption == MaxAddresses \in Nat
ASSUME RefusedAssumption   == RefusedAtOnce \in BOOLEAN
ASSUME ResolverAssumption  == ResolverMayFail \in BOOLEAN

VARIABLES
  session,  \* session_t and jabber_private_t
  attempt   \* number |-> struct ekg_connect_data

vars == <<session, attempt>>

Attempts == 1..MaxAttempts

\* What happened to an attempt: it goes on, or the reason why it was freed, or
\* that the program crashed over it.
Outcomes == {"none", "pending", "connected", "failed", "aborted", "vanished", "crashed"}

\* links are the sockets given to the plugin, connect_watch is the attempt whose
\* internal watch the plugin keeps, or 0, and timers are those named "reconnect".
\* wanted is history: does the user want the session to be up?
NoSession == [present |-> FALSE, connected |-> FALSE, connecting |-> FALSE, links |-> 0,
              connect_watch |-> 0, timers |-> 0, auto |-> FALSE, wanted |-> FALSE]

\* current is what current_watch waits for, if it is not NULL.  The queues are given by their
\* lengths; refused is history: the last address was refused at once.
NoAttempt == [outcome |-> "none", current |-> "nothing", resolver_queue |-> 0,
              connect_queue |-> 0, connect_queue2 |-> 0, refused |-> FALSE]

Sessions ==
  [present : BOOLEAN, connected : BOOLEAN, connecting : BOOLEAN, links : Nat,
   connect_watch : Attempts \cup {0}, timers : Nat, auto : BOOLEAN, wanted : BOOLEAN]

AttemptStates ==
  [outcome : Outcomes, current : {"nothing", "resolver", "connect"},
   resolver_queue : 0..MaxHosts, connect_queue : 0..MaxAddresses,
   connect_queue2 : 0..MaxAddresses, refused : BOOLEAN]

Pending(a) == attempt[a].outcome = "pending"
Waiting(a, for) == Pending(a) /\ attempt[a].current = for

\* No resolver could be started, and nobody will call for this attempt again.
Stranded(a) == Waiting(a, "nothing")

\* The state that handlers work on.
Now == [session |-> session, attempt |-> attempt]
Becomes(states) == \E st \in states : session' = st.session /\ attempt' = st.attempt

-----------------------------------------------------------------------------
(* ekg/protocol.c *)

\* The "reconnect" timer, if the user wants it and there is none.
ReconnectTimer(s) == IF s.auto /\ s.timers = 0 THEN [s EXCEPT !.timers = @ + 1] ELSE s

\* Slip: a failed attempt is not followed by another.
ProtocolDisconnectedNetwork(s, type) ==
  LET down == IF s.connected THEN [s EXCEPT !.connected = FALSE]
              ELSE [s EXCEPT !.connecting = FALSE]
  IN  IF type = "network" THEN ReconnectTimer(down) ELSE down

\* protocol_disconnected(): type is how the session went down.
ProtocolDisconnected(s, type) ==
  LET down == IF s.connected THEN [s EXCEPT !.connected = FALSE]
              ELSE [s EXCEPT !.connecting = FALSE]
  IN  IF type \in {"network", "failure"} THEN ReconnectTimer(down) ELSE down

\* protocol_connected(), with the timer_remove_session() it makes.
ProtocolConnected(s) == [s EXCEPT !.connecting = FALSE, !.connected = TRUE, !.timers = 0]

-----------------------------------------------------------------------------
(* ekg/net.c and plugins/jabber/jabber.c *)

\* ekg_connect_data_free(c)
DataFree(st, c, why) ==
  [st EXCEPT !.attempt[c] = [@ EXCEPT !.outcome = why, !.current = "nothing"]]

\* ekg_connect_abort(c) writes to current_watch: where that is NULL the program
\* is gone, and its session with it.
Abort(st, c) ==
  IF st.attempt[c].current = "nothing"
    THEN [DataFree(st, c, "crashed") EXCEPT !.session = NoSession]
    ELSE DataFree(st, c, "aborted")

\* The core is told, the socket is closed, the pointer is forgotten.
Told(s, type) ==
  [ProtocolDisconnected(s, type) EXCEPT !.connect_watch = 0, !.links = IF @ > 0 THEN @ - 1 ELSE 0]

\* Slip: the attempt is left alone.
HandleDisconnectOnly(st, type) ==
  IF st.session.connected \/ st.session.connecting
    THEN [st EXCEPT !.session = Told(@, type)] ELSE st

\* jabber_handle_disconnect(), with watch_free(j->connect_watch), whose handler
\* is ekg_connect_abort().
HandleDisconnect(st, type) ==
  LET c    == st.session.connect_watch
      told == [st EXCEPT !.session = Told(@, type)]
  IN  IF ~st.session.connected /\ ~st.session.connecting THEN st
      ELSE IF c # 0 /\ st.attempt[c].outcome = "pending" THEN Abort(told, c)
      ELSE told

\* Slip: the plugin forgets its pointer only.
AsyncFailedSilently(st) == [st EXCEPT !.session.connect_watch = 0]

\* jabber_handle_connect2(-1), the async of an attempt that failed.
AsyncFailed(st) == HandleDisconnect([st EXCEPT !.session.connect_watch = 0], "failure")

\* The watches that ekg_resolver4() may return.
ResolverWatches == IF ResolverMayFail THEN {"resolver", "nothing"} ELSE {"resolver"}

NextServer(r, watch) == [r EXCEPT !.resolver_queue = @ - 1, !.current = watch]

\* The attempt takes the next server, or gives up.
ResolveNext(st, c) ==
  IF st.attempt[c].resolver_queue > 0
    THEN {[st EXCEPT !.attempt[c] = NextServer(@, watch)] : watch \in ResolverWatches}
    ELSE {DataFree(AsyncFailed(st), c, "failed")}

\* Slip: an address is taken from the preferred family's queue only.
ShiftAddressPreferred(r) == [r EXCEPT !.connect_queue = @ - 1]

\* array_shift() of the preferred family's queue, else of the other.
ShiftAddress(r) ==
  IF r.connect_queue > 0 THEN [r EXCEPT !.connect_queue = @ - 1]
  ELSE [r EXCEPT !.connect_queue2 = @ - 1]

HasAddress(r) == r.connect_queue > 0 \/ r.connect_queue2 > 0

\* Slip: nothing is done for a session that is gone.
ConnectLoopVanished(st, c) ==
  IF ~st.session.present THEN {st}
  ELSE IF ~HasAddress(st.attempt[c]) THEN ResolveNext(st, c)
  ELSE {[st EXCEPT !.attempt[c] = [ShiftAddress(@) EXCEPT !.current = "connect"]]}

\* ekg_connect_loop(c).  A refusal goes on with the next server.
ConnectLoop(st, c) ==
  LET shifted(refused) == [ShiftAddress(st.attempt[c]) EXCEPT !.refused = refused]
      waits   == [st EXCEPT !.attempt[c] = [shifted(FALSE) EXCEPT !.current = "connect"]]
      refuses == [st EXCEPT !.attempt[c] = shifted(TRUE)]
  IN  IF ~st.session.present THEN {DataFree(st, c, "vanished")}
      ELSE IF ~HasAddress(st.attempt[c]) THEN ResolveNext(st, c)
      ELSE {waits} \cup (IF RefusedAtOnce THEN ResolveNext(refuses, c) ELSE {})

-----------------------------------------------------------------------------
(* Commands and timers. *)

\* The attempts that ekg_connect() may allocate, one that this handler frees not
\* among them: another address, or the same one for another attempt.
Unused == {c \in Attempts : ~Pending(c) /\ session.connect_watch # c}

\* The attempt that ekg_connect() makes: its ekg_connect_loop() has no address
\* yet and takes the first server.
Started(hosts, watch) ==
  [outcome |-> "pending", current |-> watch, resolver_queue |-> hosts - 1,
   connect_queue |-> 0, connect_queue2 |-> 0, refused |-> FALSE]

Connecting(st, hosts, c, watch) ==
  [session |-> [st.session EXCEPT !.connect_watch = c, !.connecting = TRUE],
   attempt |-> [st.attempt EXCEPT ![c] = Started(hosts, watch)]]

\* jabber_command_connect()
CommandConnect(st) ==
  IF st.session.connecting \/ st.session.connected THEN {st}
  ELSE {Connecting(st, hosts, c, watch) :
          hosts \in 1..MaxHosts, c \in Unused, watch \in ResolverWatches}

\* jabber_command_disconnect()
CommandDisconnect(st) ==
  IF st.session.timers > 0 THEN [st EXCEPT !.session.timers = 0]
  ELSE HandleDisconnect(st, IF st.session.connecting THEN "stopped" ELSE "user")

Wants(states, yes) == {[st EXCEPT !.session.wanted = yes] : st \in states}

UserConnect ==
  /\ session.present /\ ~session.connected /\ ~session.connecting
  /\ Becomes(Wants(CommandConnect(Now), TRUE))

UserDisconnect ==
  /\ session.present
  /\ session.timers > 0 \/ session.connected \/ session.connecting
  /\ Becomes(Wants({CommandDisconnect(Now)}, FALSE))

\* jabber_command_reconnect()
UserReconnect ==
  /\ session.present /\ (session.connected \/ session.connecting)
  /\ LET down == CommandDisconnect(Now)
     IN  Becomes(IF down.session.present THEN Wants(CommandConnect(down), TRUE) ELSE {down})

\* protocol_reconnect_handler(), whose timer is removed when it returns.
ReconnectTimerFires ==
  LET returned(st) == [st EXCEPT !.session.timers = IF @ > 0 THEN @ - 1 ELSE 0]
  IN /\ session.present /\ session.timers > 0
     /\ Becomes(IF session.connected THEN {returned(Now)}
                ELSE {returned(st) : st \in CommandConnect(Now)})

\* session_remove(): /disconnect for a session that is connected; a socket that
\* is being negotiated is dropped with its watch, whose last call disconnects.
\* An attempt that is under way is not stopped.
SessionRemove ==
  LET asked   == IF session.connected THEN CommandDisconnect(Now) ELSE Now
      dropped == IF asked.session.links > 0 THEN HandleDisconnect(asked, "network") ELSE asked
  IN /\ session.present
     /\ Becomes({[dropped EXCEPT !.session = NoSession]})

-----------------------------------------------------------------------------
(* Handlers of watches. *)

\* ekg_connect_resolver_handler(): a line with an address.
ResolverLine(c) ==
  /\ session.present /\ Waiting(c, "resolver")
  /\ \E queue \in {"connect_queue", "connect_queue2"} :
       /\ attempt[c][queue] < MaxAddresses
       /\ attempt' = [attempt EXCEPT ![c][queue] = @ + 1]
  /\ UNCHANGED session

\* The same, with EOR, the end of the pipe, or no session: its last call.
ResolverEnd(c) ==
  /\ Waiting(c, "resolver")
  /\ Becomes(ConnectLoop(Now, c))

\* ekg_connect_handler(): an error, the timeout, or no session.
ConnectFails(c) ==
  /\ Waiting(c, "connect")
  /\ Becomes(ConnectLoop(Now, c))

\* Slip: the plugin keeps its pointer to an attempt that is over.
ConnectSucceedsKept(c) ==
  /\ session.present /\ Waiting(c, "connect")
  /\ Becomes({DataFree([Now EXCEPT !.session.links = @ + 1], c, "connected")})

\* jabber_handle_connect2() and jabber_handle_connect(): the plugin has a socket.
\* (A Tlen account, which asks a hub for its server first, is not modelled.)
HandleConnect(s) == [s EXCEPT !.connect_watch = 0, !.links = @ + 1]

\* ekg_connect_handler(): the plugin takes the socket.
ConnectSucceeds(c) ==
  /\ session.present /\ Waiting(c, "connect")
  /\ Becomes({DataFree([Now EXCEPT !.session = HandleConnect(@)], c, "connected")})

\* jabber_handle_stream(): the server has accepted the session.
StreamUp ==
  /\ session.present /\ session.links > 0 /\ session.connecting
  /\ session' = ProtocolConnected(session)
  /\ UNCHANGED attempt

\* jabber_handle_stream() and the handlers of its stanzas: the socket is
\* closed, or the server has refused the session.
StreamDown ==
  /\ session.present /\ session.links > 0
  /\ \E type \in {"network", "failure"} : Becomes({HandleDisconnect(Now, type)})

Init ==
  /\ session \in {[NoSession EXCEPT !.present = TRUE, !.auto = auto] : auto \in BOOLEAN}
  /\ attempt = [c \in Attempts |-> NoAttempt]

Users == UserConnect \/ UserDisconnect \/ UserReconnect \/ SessionRemove

Handlers == \/ \E c \in Attempts : \/ ResolverLine(c) \/ ResolverEnd(c)
                                   \/ ConnectFails(c) \/ ConnectSucceeds(c)
            \/ StreamUp \/ StreamDown \/ ReconnectTimerFires

Next == Users \/ Handlers

Spec == Init /\ [][Next]_vars

\* The resolver's child ends and closes its pipe, a connection is made, refused
\* or timed out by the system, and ekg_loop() serves watches and timers.
Fairness ==
  /\ \A c \in Attempts : /\ WF_vars(ResolverEnd(c))
                         /\ WF_vars(ConnectFails(c) \/ ConnectSucceeds(c))
  /\ WF_vars(ReconnectTimerFires)

FairSpec == Spec /\ Fairness

-----------------------------------------------------------------------------
(* Properties. *)

\* A session and an attempt have the fields of the structures.
TypeOK == session \in Sessions /\ attempt \in [Attempts -> AttemptStates]

\* A session never has two connections, nor a connection and an attempt that
\* may become another: whoever stops or loses one stops it completely.
OneConnection ==
  session.present => session.links + Cardinality({c \in Attempts : Pending(c)}) <= 1

\* The plugin can reach the attempt that is under way in order to abort it, and
\* its pointer never leads to an attempt that was freed.  (That aborting a
\* stranded attempt ends the program is in Abort.)
Abortable ==
  session.present => /\ \A c \in Attempts : Pending(c) => session.connect_watch = c
                     /\ session.connect_watch # 0 => Pending(session.connect_watch)

\* A session that says it is connecting has a socket or an attempt, whose end
\* ends that: otherwise /connect would be refused for ever with "during_connect".
\* (A stranded attempt has no end: see AttemptEnds.)
ConnectingIsTrue ==
  session.connecting => session.links > 0 \/ \E c \in Attempts : Pending(c)

\* With auto_reconnect, a session that is down against the will of its user has
\* a timer that will bring it up.
KeepsTrying ==
  (/\ session.present /\ session.auto /\ session.wanted
   /\ ~session.connected /\ ~session.connecting) => session.timers > 0

\* The timer is one, and none waits behind a session that is up.
OneTimer == session.timers <= (IF session.connected THEN 0 ELSE 1)

AllTried(a) == a.connect_queue = 0 /\ a.connect_queue2 = 0

\* An attempt fails only when every server was asked and, unless the last
\* address was refused at once, every address of both families tried.
FailsLast ==
  \A c \in Attempts :
    attempt[c].outcome = "failed" => /\ attempt[c].resolver_queue = 0
                                     /\ attempt[c].refused \/ AllTried(attempt[c])

\* Every attempt ends, that of a session which was removed meanwhile too, unless
\* no resolver could be started for its next server: ekg_connect_loop() then
\* reports success (net.c:435) and nothing will call it again.
AttemptEnds == \A c \in Attempts : Pending(c) ~> (~Pending(c) \/ Stranded(c))

\* All addresses that were found are tried before an attempt fails.
TriesAll ==
  \A c \in Attempts : attempt[c].outcome = "failed" => AllTried(attempt[c])

\* After /disconnect the session is neither up nor going up.
DisconnectObeyed ==
  [][UserDisconnect => ~session'.connected /\ ~session'.connecting]_vars

=============================================================================
