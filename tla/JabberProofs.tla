-------------------------- MODULE JabberProofs --------------------------
(***************************************************************************)
(* Proofs about the two sides of an account on a server: how it is         *)
(* connected (Connect) and what it then knows of its contacts (Presence).  *)
(*                                                                         *)
(* Connect, for any number of attempts, servers and addresses: a session   *)
(* has one connection or attempt, its plugin can abort it, and a session   *)
(* that is down against its user's will has the timer that reconnects it.  *)
(* The invariant is stated of an arbitrary state st, for a handler works   *)
(* its way through several before the next one is reached; there is one    *)
(* lemma for each function that handlers call.                             *)
(*                                                                         *)
(* Presence, for any contacts, resources, priorities and shows: when all   *)
(* is quiet the resources that an entry lists as being there are those     *)
(* that are.  The invariant is stated of one contact: what its entry will  *)
(* know once the stanzas on their way are read.  There is a lemma for each *)
(* way to put a stanza into the stream, or to take one out of it, and one  *)
(* for each action.                                                        *)
(***************************************************************************)
EXTENDS Connect, Presence, FiniteSetTheorems, SequenceTheorems, WellFoundedInduction, TLAPS

States == [session : Sessions, attempt : [Attempts -> AttemptStates]]

\* What the plugin's pointer, the socket and the session's flags say of each
\* other, while there is a session.
Agree(s, at) ==
  /\ \A c \in Attempts : at[c].outcome = "pending" => s.connect_watch = c
  /\ s.connect_watch # 0 => at[s.connect_watch].outcome = "pending"
  /\ s.links \in {0, 1}
  /\ s.links = 1 => s.connect_watch = 0
  /\ s.connecting => s.links = 1 \/ s.connect_watch # 0
  /\ s.links = 1 \/ s.connect_watch # 0 => s.connecting \/ s.connected
  /\ s.connected => s.links = 1 /\ ~s.connecting

\* One timer at most, and none of a session that is up.
Timed(s) == s.timers \in {0, 1} /\ (s.connected => s.timers = 0)

Thorough(at) ==
  \A c \in Attempts :
    at[c].outcome = "failed" => at[c].resolver_queue = 0 /\ (at[c].refused \/ AllTried(at[c]))

Sound(st) ==
  /\ st \in States
  /\ Thorough(st.attempt)
  /\ Timed(st.session)
  /\ IF st.session.present THEN Agree(st.session, st.attempt) ELSE st.session = NoSession

\* KeepsTrying, of any session.
Trying(s) ==
  (s.present /\ s.auto /\ s.wanted /\ ~s.connected /\ ~s.connecting) => s.timers > 0

IInv == Sound(Now) /\ Trying(session)

-----------------------------------------------------------------------------
(* What the functions do with a sound state. *)

\* Both functions that tell the core leave a session that is down.
LEMMA DisconnectedFacts ==
  ASSUME NEW s \in Sessions, NEW type, s.connected => ~s.connecting
  PROVE  LET d == ProtocolDisconnected(s, type) IN
         /\ d \in Sessions
         /\ ~d.connected /\ ~d.connecting
         /\ d.present = s.present /\ d.links = s.links /\ d.wanted = s.wanted /\ d.auto = s.auto
         /\ d.connect_watch = s.connect_watch
         /\ s.timers \in {0, 1} => d.timers \in {0, 1}
         /\ (type \in {"network", "failure"} /\ s.auto) => d.timers > 0
<1> DEFINE down == IF s.connected THEN [s EXCEPT !.connected = FALSE]
                   ELSE [s EXCEPT !.connecting = FALSE]
           d == ProtocolDisconnected(s, type)
<1>1. /\ down \in Sessions
      /\ ~down.connected /\ ~down.connecting
      /\ down.present = s.present /\ down.links = s.links /\ down.wanted = s.wanted
      /\ down.auto = s.auto /\ down.connect_watch = s.connect_watch /\ down.timers = s.timers
  <2>1. CASE s.connected
    BY <2>1 DEF Sessions
  <2>2. CASE ~s.connected
    BY <2>2 DEF Sessions
  <2> QED BY <2>1, <2>2
<1> HIDE DEF down
<1>2. d = IF type \in {"network", "failure"} THEN ReconnectTimer(down) ELSE down
  BY DEF ProtocolDisconnected, down
<1>3. LET r == ReconnectTimer(down) IN
      /\ r \in Sessions
      /\ r.connected = down.connected /\ r.connecting = down.connecting
      /\ r.present = down.present /\ r.links = down.links /\ r.wanted = down.wanted
      /\ r.auto = down.auto /\ r.connect_watch = down.connect_watch
      /\ down.timers \in {0, 1} => r.timers \in {0, 1}
      /\ down.auto => r.timers > 0
  <2>1. CASE down.auto /\ down.timers = 0
    <3>1. ReconnectTimer(down) = [down EXCEPT !.timers = 1]
      BY <1>1, <2>1 DEF ReconnectTimer, Sessions
    <3> QED BY <1>1, <3>1 DEF Sessions
  <2>2. CASE ~(down.auto /\ down.timers = 0)
    BY <1>1, <2>2 DEF ReconnectTimer, Sessions
  <2> QED BY <2>1, <2>2
<1> QED BY <1>1, <1>2, <1>3

\* What the record of an attempt keeps when it is freed.
Ended(new, old, why) ==
  /\ new.outcome = why
  /\ new.resolver_queue = old.resolver_queue /\ new.refused = old.refused
  /\ new.connect_queue = old.connect_queue /\ new.connect_queue2 = old.connect_queue2

LEMMA DataFreeFacts ==
  ASSUME NEW st \in States, NEW c \in Attempts, NEW why \in Outcomes
  PROVE  LET f == DataFree(st, c, why) IN
         /\ f \in States
         /\ f.session = st.session
         /\ Ended(f.attempt[c], st.attempt[c], why)
         /\ \A d \in Attempts : d # c => f.attempt[d] = st.attempt[d]
<1> DEFINE a == [st.attempt[c] EXCEPT !.outcome = why, !.current = "nothing"]
<1>1. st.session \in Sessions /\ st.attempt \in [Attempts -> AttemptStates]
  BY DEF States
<1>2. a \in AttemptStates /\ Ended(a, st.attempt[c], why)
  BY <1>1 DEF AttemptStates, Ended
<1>3. DataFree(st, c, why) = [session |-> st.session, attempt |-> [st.attempt EXCEPT ![c] = a]]
  BY <1>1 DEF DataFree, States
<1> HIDE DEF a
<1>4. [st.attempt EXCEPT ![c] = a] \in [Attempts -> AttemptStates]
  BY <1>1, <1>2
<1>5. DataFree(st, c, why) \in States
  BY <1>1, <1>3, <1>4 DEF States
<1>6. DataFree(st, c, why).session = st.session
  BY <1>3
<1>7. DataFree(st, c, why).attempt = [st.attempt EXCEPT ![c] = a]
  BY <1>3
<1>8. /\ DataFree(st, c, why).attempt[c] = a
      /\ \A d \in Attempts : d # c => DataFree(st, c, why).attempt[d] = st.attempt[d]
  BY <1>1, <1>7
<1> QED BY <1>2, <1>5, <1>6, <1>8

LEMMA ToldFacts ==
  ASSUME NEW s \in Sessions, NEW type, s.connected => ~s.connecting,
         s.links \in {0, 1}, s.timers \in {0, 1}
  PROVE  LET t == Told(s, type) IN
         /\ t \in Sessions
         /\ ~t.connected /\ ~t.connecting /\ t.links = 0 /\ t.connect_watch = 0
         /\ t.present = s.present /\ t.wanted = s.wanted
         /\ Timed(t)
         /\ type \in {"network", "failure"} => Trying(t)
<1> DEFINE d == ProtocolDisconnected(s, type)
           t == Told(s, type)
<1>1. /\ d \in Sessions
      /\ ~d.connected /\ ~d.connecting
      /\ d.present = s.present /\ d.links = s.links /\ d.wanted = s.wanted /\ d.auto = s.auto
      /\ d.timers \in {0, 1}
      /\ (type \in {"network", "failure"} /\ s.auto) => d.timers > 0
  BY DisconnectedFacts
<1> HIDE DEF d
<1> DEFINE e == [d EXCEPT !.connect_watch = 0]
<1>2. /\ e \in Sessions
      /\ ~e.connected /\ ~e.connecting /\ e.links = d.links /\ e.connect_watch = 0
      /\ e.present = d.present /\ e.wanted = d.wanted /\ e.timers = d.timers /\ e.auto = d.auto
  BY <1>1 DEF Sessions
<1>3. t = [e EXCEPT !.links = IF e.links > 0 THEN e.links - 1 ELSE 0]
  BY <1>1 DEF Told, d, Sessions
<1> HIDE DEF e
<1>5. t = [e EXCEPT !.links = 0]
  BY <1>1, <1>2, <1>3
<1>6. /\ t \in Sessions
      /\ ~t.connected /\ ~t.connecting /\ t.links = 0 /\ t.connect_watch = 0
      /\ t.present = e.present /\ t.wanted = e.wanted /\ t.timers = e.timers /\ t.auto = e.auto
  BY <1>2, <1>5 DEF Sessions
<1> HIDE DEF t
<1>4. Timed(t) /\ (type \in {"network", "failure"} => Trying(t))
  BY <1>1, <1>2, <1>6 DEF Timed, Trying
<1> QED BY <1>1, <1>2, <1>4, <1>6 DEF t

\* A session that is down, has no connection and no attempt, is sound.
LEMMA IdleSound ==
  ASSUME NEW st \in States, Thorough(st.attempt), Timed(st.session), st.session.present,
         ~st.session.connected, ~st.session.connecting,
         st.session.links = 0, st.session.connect_watch = 0,
         \A c \in Attempts : st.attempt[c].outcome # "pending"
  PROVE  Sound(st)
  BY DEF Sound, Agree

LEMMA HandleDisconnectSound ==
  ASSUME NEW st, NEW type, Sound(st), st.session.present
  PROVE  LET h == HandleDisconnect(st, type) IN
         /\ Sound(h)
         /\ ~h.session.connected /\ ~h.session.connecting
         /\ h.session.present => h.session.wanted = st.session.wanted
         /\ (type \in {"network", "failure"} /\ Trying(st.session)) => Trying(h.session)
<1> DEFINE s == st.session
           c == s.connect_watch
           h == HandleDisconnect(st, type)
           informed == [st EXCEPT !.session = Told(@, type)]
<1>1. /\ st \in States /\ s \in Sessions /\ st.attempt \in [Attempts -> AttemptStates]
      /\ Thorough(st.attempt) /\ Timed(s) /\ Agree(s, st.attempt)
  BY DEF Sound, States
<1>2. CASE ~s.connected /\ ~s.connecting
  <2>1. h = st
    BY <1>2 DEF HandleDisconnect
  <2> QED BY <1>2, <2>1
<1>3. CASE s.connected \/ s.connecting
  <2>1. /\ Told(s, type) \in Sessions
        /\ ~Told(s, type).connected /\ ~Told(s, type).connecting
        /\ Told(s, type).links = 0 /\ Told(s, type).connect_watch = 0
        /\ Told(s, type).present /\ Told(s, type).wanted = s.wanted
        /\ Timed(Told(s, type))
        /\ type \in {"network", "failure"} => Trying(Told(s, type))
    BY <1>1, ToldFacts DEF Agree, Timed
  <2>2. informed \in States /\ informed.session = Told(s, type) /\ informed.attempt = st.attempt
    BY <1>1, <2>1 DEF States
  <2>3. CASE c = 0
    <3>1. h = informed
      BY <1>3, <2>3 DEF HandleDisconnect
    <3>2. \A e \in Attempts : informed.attempt[e].outcome # "pending"
      BY <1>1, <2>2, <2>3 DEF Agree, Attempts
    <3>3. Sound(informed)
      BY <1>1, <2>1, <2>2, <3>2, IdleSound
    <3> QED BY <2>1, <2>2, <3>1, <3>3
  <2>4. CASE c # 0
    <3>1. c \in Attempts /\ st.attempt[c].outcome = "pending"
      BY <1>1, <2>4 DEF Agree, Sessions
    <3>2. informed \in States /\ informed.attempt[c] = st.attempt[c] /\ h = Abort(informed, c)
      BY <1>3, <2>2, <2>4, <3>1 DEF HandleDisconnect
    <3> HIDE DEF informed, c, h
    <3>3. ASSUME NEW why \in {"aborted", "crashed"}
          PROVE  LET f == DataFree(informed, c, why) IN
                 /\ f \in States /\ f.session = Told(s, type)
                 /\ Thorough(f.attempt)
                 /\ \A e \in Attempts : f.attempt[e].outcome # "pending"
      <4> DEFINE f == DataFree(informed, c, why)
      <4>1. why \in Outcomes
        BY DEF Outcomes
      <4>2. /\ f \in States /\ f.session = informed.session
            /\ Ended(f.attempt[c], informed.attempt[c], why)
            /\ \A e \in Attempts : e # c => f.attempt[e] = informed.attempt[e]
        BY <3>1, <3>2, <4>1, DataFreeFacts
      <4> HIDE DEF f
      <4>3. f.attempt[c].outcome = why
        BY <4>2 DEF Ended
      <4>4. \A e \in Attempts : e # c => st.attempt[e].outcome # "pending"
        BY <1>1 DEF Agree, c
      <4>5. \A e \in Attempts : f.attempt[e].outcome # "pending"
        BY <2>2, <4>2, <4>3, <4>4
      <4>6. Thorough(f.attempt)
        BY <1>1, <2>2, <4>2, <4>3 DEF Thorough
      <4> QED BY <2>2, <4>2, <4>5, <4>6 DEF f
    <3>4. CASE st.attempt[c].current # "nothing"
      <4>1. h = DataFree(informed, c, "aborted")
        BY <3>2, <3>4 DEF Abort
      <4>2. /\ h \in States /\ h.session = Told(s, type) /\ Thorough(h.attempt)
            /\ \A e \in Attempts : h.attempt[e].outcome # "pending"
        BY <3>3, <4>1
      <4>3. Sound(h)
        BY <2>1, <4>2, IdleSound
      <4> QED BY <2>1, <4>2, <4>3 DEF h
    <3>5. CASE st.attempt[c].current = "nothing"
      <4> DEFINE f == DataFree(informed, c, "crashed")
      <4>1. h = [f EXCEPT !.session = NoSession]
        BY <3>2, <3>5 DEF Abort
      <4>2. f \in States /\ Thorough(f.attempt)
        BY <3>3
      <4> HIDE DEF f
      <4>3. /\ NoSession \in Sessions /\ Timed(NoSession) /\ Trying(NoSession)
            /\ ~NoSession.present /\ ~NoSession.connected /\ ~NoSession.connecting
        BY DEF NoSession, Sessions, Timed, Trying
      <4>4. h \in States /\ h.session = NoSession /\ h.attempt = f.attempt
        BY <4>1, <4>2, <4>3 DEF States
      <4>5. Sound(h)
        BY <4>2, <4>3, <4>4 DEF Sound
      <4> QED BY <4>3, <4>4, <4>5 DEF h
    <3> QED BY <3>4, <3>5
  <2> QED BY <2>3, <2>4
<1> QED BY <1>2, <1>3

\* A handler may change the record of its own attempt.
LEMMA UpdateSound ==
  ASSUME NEW st, Sound(st), NEW c \in Attempts, st.attempt[c].outcome = "pending",
         NEW a \in AttemptStates, a.outcome = "pending"
  PROVE  LET u == [st EXCEPT !.attempt[c] = a] IN
         Sound(u) /\ u.session = st.session /\ u.attempt[c] = a
<1> DEFINE u == [st EXCEPT !.attempt[c] = a]
<1>1. /\ st \in States /\ st.session \in Sessions /\ st.attempt \in [Attempts -> AttemptStates]
      /\ Thorough(st.attempt) /\ Timed(st.session)
  BY DEF Sound, States
<1>2. u.session = st.session /\ u.attempt = [st.attempt EXCEPT ![c] = a]
  BY <1>1 DEF States
<1>3. u.attempt[c] = a /\ \A d \in Attempts : d # c => u.attempt[d] = st.attempt[d]
  BY <1>1, <1>2
<1>4. u.attempt \in [Attempts -> AttemptStates]
  BY <1>1, <1>2
<1>5. u \in States
  BY <1>1, <1>2, <1>4 DEF States
<1> HIDE DEF u
<1>6. \A d \in Attempts : (u.attempt[d].outcome = "pending") <=> (st.attempt[d].outcome = "pending")
  BY <1>3
<1>7. Thorough(u.attempt)
  BY <1>1, <1>3 DEF Thorough
<1>8. st.session.present => Agree(u.session, u.attempt)
  <2>1. st.session.connect_watch \in Attempts \cup {0}
    BY <1>1 DEF Sessions
  <2> QED BY <1>2, <1>6, <2>1 DEF Sound, Agree
<1>9. Sound(u)
  BY <1>1, <1>2, <1>5, <1>7, <1>8 DEF Sound
<1> QED BY <1>2, <1>3, <1>9 DEF u

LEMMA ResolveNextSound ==
  ASSUME NEW st, Sound(st), st.session.present, Trying(st.session),
         NEW c \in Attempts, st.attempt[c].outcome = "pending",
         st.attempt[c].refused \/ AllTried(st.attempt[c]),
         NEW r \in ResolveNext(st, c)
  PROVE  Sound(r) /\ Trying(r.session)
<1> DEFINE s == st.session
<1>1. /\ st \in States /\ s \in Sessions /\ st.attempt \in [Attempts -> AttemptStates]
      /\ Thorough(st.attempt) /\ Timed(s) /\ Agree(s, st.attempt)
  BY DEF Sound, States
<1>2. /\ s.connect_watch = c /\ s.connecting /\ ~s.connected /\ s.links = 0
      /\ c # 0
  BY <1>1 DEF Agree, Attempts
<1>3. CASE st.attempt[c].resolver_queue > 0
  <2>0. PICK watch \in ResolverWatches : r = [st EXCEPT !.attempt[c] = NextServer(@, watch)]
    BY <1>3 DEF ResolveNext
  <2> DEFINE a == NextServer(st.attempt[c], watch)
  <2>1. st.attempt[c] \in AttemptStates
    BY <1>1
  <2>2. st.attempt[c].resolver_queue - 1 \in 0..MaxHosts
    BY <1>3, <2>1, HostsAssumption DEF AttemptStates
  <2>3. a \in AttemptStates /\ a.outcome = "pending"
    <3>1. watch \in {"nothing", "resolver", "connect"}
      BY DEF ResolverWatches
    <3> QED BY <1>3, <2>1, <2>2, <3>1 DEF AttemptStates, NextServer
  <2>4. r = [st EXCEPT !.attempt[c] = a]
    BY <2>0
  <2> HIDE DEF a
  <2>5. Sound(r) /\ r.session = s
    BY <2>3, <2>4, UpdateSound
  <2> QED BY <2>5
<1>4. CASE ~(st.attempt[c].resolver_queue > 0)
  <2> DEFINE cleared == [s EXCEPT !.connect_watch = 0]
             informed == Told(cleared, "failure")
             h == [session |-> informed, attempt |-> st.attempt]
  <2>1. /\ cleared \in Sessions /\ cleared.connecting /\ ~cleared.connected
        /\ cleared.links = 0 /\ cleared.timers = s.timers /\ cleared.connect_watch = 0
        /\ cleared.present
    BY <1>1, <1>2 DEF Sessions
  <2>2. /\ informed \in Sessions /\ ~informed.connected /\ ~informed.connecting
        /\ informed.links = 0 /\ informed.connect_watch = 0 /\ informed.present
        /\ Timed(informed) /\ Trying(informed)
    <3> HIDE DEF cleared
    <3>1. cleared.links \in {0, 1} /\ cleared.timers \in {0, 1}
      BY <1>1, <2>1 DEF Timed
    <3> QED BY <2>1, <3>1, ToldFacts
  <2>3. [st EXCEPT !.session.connect_watch = 0] = [session |-> cleared, attempt |-> st.attempt]
    BY <1>1 DEF States
  <2>4. AsyncFailed(st) = h
    <3> HIDE DEF cleared
    <3>1. AsyncFailed(st) = HandleDisconnect([session |-> cleared, attempt |-> st.attempt], "failure")
      BY <2>3 DEF AsyncFailed
    <3> QED BY <2>1, <3>1 DEF HandleDisconnect
  <2> HIDE DEF informed
  <2>5. h \in States /\ h.session = informed /\ h.attempt = st.attempt
    BY <1>1, <2>2 DEF States
  <2> HIDE DEF h
  <2>6. r = DataFree(h, c, "failed")
    BY <1>4, <2>4 DEF ResolveNext
  <2>7. "failed" \in Outcomes
    BY DEF Outcomes
  <2>8. /\ r \in States /\ r.session = informed /\ Ended(r.attempt[c], st.attempt[c], "failed")
        /\ \A d \in Attempts : d # c => r.attempt[d] = st.attempt[d]
    <3>1. LET f == DataFree(h, c, "failed") IN
          /\ f \in States
          /\ f.session = h.session
          /\ Ended(f.attempt[c], h.attempt[c], "failed")
          /\ \A d \in Attempts : d # c => f.attempt[d] = h.attempt[d]
      BY <2>5, <2>7, DataFreeFacts
    <3> QED BY <2>5, <2>6, <3>1
  <2>9. \A d \in Attempts : r.attempt[d].outcome # "pending"
    BY <1>1, <1>2, <2>8 DEF Agree, Ended
  <2>10. Thorough(r.attempt)
    <3>1. st.attempt[c].resolver_queue = 0
      BY <1>1, <1>4 DEF AttemptStates
    <3> QED BY <1>1, <2>8, <3>1 DEF Thorough, Ended, AllTried
  <2>11. Sound(r)
    BY <2>2, <2>8, <2>9, <2>10, IdleSound
  <2> QED BY <2>2, <2>8, <2>11
<1> QED BY <1>3, <1>4

\* An address leaves one of the two queues, and the record remains one of an
\* attempt.
LEMMA ShiftAddressTyped ==
  ASSUME NEW r \in AttemptStates, HasAddress(r)
  PROVE  ShiftAddress(r) \in AttemptStates /\ ShiftAddress(r).outcome = r.outcome
<1>1. CASE r.connect_queue > 0
  <2>1. r.connect_queue - 1 \in 0..MaxAddresses
    BY <1>1, AddressesAssumption DEF AttemptStates
  <2> QED BY <1>1, <2>1 DEF ShiftAddress, AttemptStates
<1>2. CASE ~(r.connect_queue > 0)
  <2>1. r.connect_queue2 - 1 \in 0..MaxAddresses
    BY <1>2, AddressesAssumption DEF AttemptStates, HasAddress
  <2> QED BY <1>2, <2>1 DEF ShiftAddress, AttemptStates
<1> QED BY <1>1, <1>2

LEMMA ConnectLoopSound ==
  ASSUME NEW st, Sound(st), Trying(st.session),
         NEW c \in Attempts, st.attempt[c].outcome = "pending",
         NEW t \in ConnectLoop(st, c)
  PROVE  Sound(t) /\ Trying(t.session)
<1> DEFINE a == ShiftAddress(st.attempt[c])
           waiting == [[a EXCEPT !.refused = FALSE] EXCEPT !.current = "connect"]
           refused == [a EXCEPT !.refused = TRUE]
<1>1. /\ st \in States /\ st.attempt \in [Attempts -> AttemptStates]
      /\ st.attempt[c] \in AttemptStates /\ Thorough(st.attempt) /\ Timed(st.session)
  BY DEF Sound, States
<1>2. CASE ~st.session.present
  <2>1. t = DataFree(st, c, "vanished")
    BY <1>2 DEF ConnectLoop
  <2>2. "vanished" \in Outcomes
    BY DEF Outcomes
  <2>3. /\ t \in States /\ t.session = st.session
        /\ Ended(t.attempt[c], st.attempt[c], "vanished")
        /\ \A d \in Attempts : d # c => t.attempt[d] = st.attempt[d]
    BY <1>1, <2>1, <2>2, DataFreeFacts
  <2>4. Thorough(t.attempt)
    BY <1>1, <2>3 DEF Thorough, Ended
  <2> QED BY <1>1, <1>2, <2>3, <2>4 DEF Sound
<1>3. CASE st.session.present /\ ~HasAddress(st.attempt[c])
  <2>1. t \in ResolveNext(st, c)
    BY <1>3 DEF ConnectLoop
  <2>2. AllTried(st.attempt[c])
    BY <1>1, <1>3 DEF AllTried, HasAddress, AttemptStates
  <2> QED BY <1>3, <2>1, <2>2, ResolveNextSound
<1>4. CASE st.session.present /\ HasAddress(st.attempt[c])
  <2>1. a \in AttemptStates /\ a.outcome = "pending"
    BY <1>1, <1>4, ShiftAddressTyped
  <2>2. CASE t = [st EXCEPT !.attempt[c] = waiting]
    <3>1. waiting \in AttemptStates /\ waiting.outcome = "pending"
      <4> HIDE DEF a
      <4>1. [a EXCEPT !.refused = FALSE] \in AttemptStates
            /\ [a EXCEPT !.refused = FALSE].outcome = "pending"
        BY <2>1 DEF AttemptStates
      <4> QED BY <4>1 DEF AttemptStates
    <3> HIDE DEF waiting
    <3> QED BY <2>2, <3>1, UpdateSound
  <2>3. CASE t \in ResolveNext([st EXCEPT !.attempt[c] = refused], c)
    <3> DEFINE u == [st EXCEPT !.attempt[c] = refused]
    <3>1. refused \in AttemptStates /\ refused.outcome = "pending" /\ refused.refused
      <4> HIDE DEF a
      <4> QED BY <2>1 DEF AttemptStates
    <3> HIDE DEF refused
    <3>2. Sound(u) /\ u.session = st.session /\ u.attempt[c] = refused
      BY <3>1, UpdateSound
    <3> HIDE DEF u
    <3> QED BY <1>4, <2>3, <3>1, <3>2, ResolveNextSound DEF u
  <2>4. \/ t = [st EXCEPT !.attempt[c] = waiting]
        \/ t \in ResolveNext([st EXCEPT !.attempt[c] = refused], c)
    BY <1>4 DEF ConnectLoop
  <2> QED BY <2>2, <2>3, <2>4
<1> QED BY <1>2, <1>3, <1>4

-----------------------------------------------------------------------------
(* Commands. *)

LEMMA CommandConnectSound ==
  ASSUME NEW st, Sound(st), st.session.present, NEW t \in CommandConnect(st)
  PROVE  /\ Sound(t) /\ t.session.present
         /\ t.session.connecting \/ t.session.connected
         /\ t.session.timers = st.session.timers
<1>1. /\ st \in States /\ st.session \in Sessions /\ st.attempt \in [Attempts -> AttemptStates]
      /\ Thorough(st.attempt) /\ Timed(st.session) /\ Agree(st.session, st.attempt)
  BY DEF Sound, States
<1>2. CASE st.session.connecting \/ st.session.connected
  <2>1. CommandConnect(st) = {st}
    BY <1>2 DEF CommandConnect
  <2>2. t = st
    BY <2>1
  <2> QED BY <1>2, <2>2
<1>3. CASE ~(st.session.connecting \/ st.session.connected)
  <2>1. PICK hosts \in 1..MaxHosts, c \in Unused, watch \in ResolverWatches :
          t = Connecting(st, hosts, c, watch)
    <3>1. CommandConnect(st) = {Connecting(st, hosts, c, watch) :
                                  hosts \in 1..MaxHosts, c \in Unused, watch \in ResolverWatches}
      BY <1>3 DEF CommandConnect
    <3> QED BY <3>1
  <2> DEFINE a == Started(hosts, watch)
             w == [st.session EXCEPT !.connect_watch = c]
             s == [w EXCEPT !.connecting = TRUE]
  <2>2. c \in Attempts
    BY DEF Unused
  <2>3. a \in AttemptStates /\ a.outcome = "pending"
    <3>1. hosts - 1 \in 0..MaxHosts
      BY HostsAssumption
    <3>2. 0 \in 0..MaxAddresses /\ 0 \in 0..MaxHosts
      BY HostsAssumption, AddressesAssumption
    <3>3. watch \in {"nothing", "resolver", "connect"}
      BY DEF ResolverWatches
    <3> QED BY <3>1, <3>2, <3>3 DEF Started, AttemptStates, Outcomes
  <2>4. /\ w \in Sessions /\ w.connect_watch = c /\ w.links = st.session.links
        /\ w.connected = st.session.connected /\ w.timers = st.session.timers /\ w.present
    BY <1>1, <2>2 DEF Sessions
  <2>5. /\ s \in Sessions /\ s.connect_watch = c /\ s.links = st.session.links /\ s.connecting
        /\ ~s.connected /\ s.timers = st.session.timers /\ s.present
    <3> HIDE DEF w
    <3> QED BY <1>3, <2>4 DEF Sessions
  <2>6. t = [session |-> s, attempt |-> [st.attempt EXCEPT ![c] = a]]
    BY <2>1 DEF Connecting
  <2> HIDE DEF a, s
  <2>7. /\ t.session = s /\ t.attempt[c] = a
        /\ \A d \in Attempts : d # c => t.attempt[d] = st.attempt[d]
        /\ t.attempt \in [Attempts -> AttemptStates]
    BY <1>1, <2>2, <2>3, <2>6
  <2>8. t \in States
    BY <2>5, <2>6, <2>7 DEF States
  <2>9. Thorough(t.attempt)
    BY <1>1, <2>3, <2>7 DEF Thorough
  <2>10. /\ st.session.links = 0
         /\ \A d \in Attempts : st.attempt[d].outcome # "pending"
    BY <1>1, <1>3 DEF Agree, Attempts
  <2>11. Agree(t.session, t.attempt)
    BY <2>2, <2>3, <2>5, <2>7, <2>10 DEF Agree, Attempts
  <2>12. Timed(t.session)
    BY <1>1, <2>5, <2>7 DEF Timed
  <2> QED BY <2>5, <2>7, <2>8, <2>9, <2>11, <2>12 DEF Sound
<1> QED BY <1>2, <1>3

\* The number of timers, and what the user wants, may change on their own.
LEMMA TimersSound ==
  ASSUME NEW st, Sound(st), st.session.present, NEW n \in {0, 1}, st.session.connected => n = 0
  PROVE  LET u == [st EXCEPT !.session.timers = n] IN
         /\ Sound(u) /\ u.session.present /\ u.session.wanted = st.session.wanted
         /\ u.session.connected = st.session.connected
         /\ u.session.connecting = st.session.connecting
<1> DEFINE s == [st.session EXCEPT !.timers = n]
           u == [st EXCEPT !.session.timers = n]
<1>1. /\ st \in States /\ st.session \in Sessions /\ st.attempt \in [Attempts -> AttemptStates]
      /\ Thorough(st.attempt) /\ Agree(st.session, st.attempt)
  BY DEF Sound, States
<1>2. /\ s \in Sessions /\ s.present /\ s.wanted = st.session.wanted /\ s.timers = n
      /\ s.connected = st.session.connected /\ s.connecting = st.session.connecting
      /\ s.connect_watch = st.session.connect_watch /\ s.links = st.session.links
  BY <1>1 DEF Sessions
<1>3. u = [session |-> s, attempt |-> st.attempt]
  BY <1>1 DEF States
<1> HIDE DEF s, u
<1>4. u \in States /\ u.session = s /\ u.attempt = st.attempt
  BY <1>1, <1>2, <1>3 DEF States
<1>5. Agree(s, st.attempt) /\ Timed(s)
  BY <1>1, <1>2 DEF Agree, Timed
<1>6. Sound(u)
  BY <1>1, <1>2, <1>4, <1>5 DEF Sound
<1> QED BY <1>2, <1>4, <1>6 DEF u

LEMMA WantedSound ==
  ASSUME NEW st, Sound(st), st.session.present, NEW yes \in BOOLEAN
  PROVE  LET u == [st EXCEPT !.session.wanted = yes] IN
         /\ Sound(u) /\ u.session.wanted = yes
         /\ u.session.connected = st.session.connected
         /\ u.session.connecting = st.session.connecting
<1> DEFINE s == [st.session EXCEPT !.wanted = yes]
           u == [st EXCEPT !.session.wanted = yes]
<1>1. /\ st \in States /\ st.session \in Sessions /\ st.attempt \in [Attempts -> AttemptStates]
      /\ Thorough(st.attempt) /\ Agree(st.session, st.attempt) /\ Timed(st.session)
  BY DEF Sound, States
<1>2. /\ s \in Sessions /\ s.present /\ s.wanted = yes /\ s.timers = st.session.timers
      /\ s.connected = st.session.connected /\ s.connecting = st.session.connecting
      /\ s.connect_watch = st.session.connect_watch /\ s.links = st.session.links
  BY <1>1 DEF Sessions
<1>3. u = [session |-> s, attempt |-> st.attempt]
  BY <1>1 DEF States
<1> HIDE DEF s, u
<1>4. u \in States /\ u.session = s /\ u.attempt = st.attempt
  BY <1>1, <1>2, <1>3 DEF States
<1>5. Agree(s, st.attempt) /\ Timed(s)
  BY <1>1, <1>2 DEF Agree, Timed
<1>6. Sound(u)
  BY <1>1, <1>2, <1>4, <1>5 DEF Sound
<1> QED BY <1>2, <1>4, <1>6 DEF u

LEMMA CommandDisconnectSound ==
  ASSUME NEW st, Sound(st), st.session.present
  PROVE  LET d == CommandDisconnect(st) IN
         Sound(d) /\ (d.session.present \/ d.session = NoSession)
<1>1. CASE st.session.timers > 0
  <2>1. CommandDisconnect(st) = [st EXCEPT !.session.timers = 0]
    BY <1>1 DEF CommandDisconnect
  <2> QED BY <2>1, TimersSound
<1>2. CASE ~(st.session.timers > 0)
  <2>1. PICK type : CommandDisconnect(st) = HandleDisconnect(st, type)
    BY <1>2 DEF CommandDisconnect
  <2> QED BY <2>1, HandleDisconnectSound DEF Sound
<1> QED BY <1>1, <1>2

-----------------------------------------------------------------------------
(* Every step preserves the invariant. *)

\* An action that becomes one of several states which are all good.
LEMMA BecomesGood ==
  ASSUME NEW states, \A t \in states : Sound(t) /\ Trying(t.session), Becomes(states)
  PROVE  IInv'
<1>1. PICK t \in states : session' = t.session /\ attempt' = t.attempt
  BY DEF Becomes
<1>2. Sound(t) /\ Trying(t.session)
  BY <1>1
<1>3. Now' = t
  BY <1>1, <1>2 DEF Now, Sound, States
<1> QED BY <1>1, <1>2, <1>3 DEF IInv

\* What IInv says of the state that a handler finds.
LEMMA NowFacts ==
  ASSUME IInv
  PROVE  /\ Sound(Now) /\ Trying(Now.session)
         /\ Now.session = session /\ Now.attempt = attempt
         /\ session \in Sessions /\ attempt \in [Attempts -> AttemptStates]
         /\ Thorough(attempt) /\ Timed(session)
         /\ session.present => Agree(session, attempt)
  BY DEF IInv, Sound, Now, States

LEMMA InitGood == Init => IInv
<1> SUFFICES ASSUME Init PROVE IInv
  OBVIOUS
<1>1. PICK auto \in BOOLEAN : session = [NoSession EXCEPT !.present = TRUE, !.auto = auto]
  BY DEF Init
<1>2. session = [present |-> TRUE, connected |-> FALSE, connecting |-> FALSE, links |-> 0,
                 connect_watch |-> 0, timers |-> 0, auto |-> auto, wanted |-> FALSE]
  BY <1>1 DEF NoSession
<1>3. attempt = [c \in Attempts |-> NoAttempt] /\ NoAttempt \in AttemptStates
  <2>1. 0 \in 0..MaxHosts /\ 0 \in 0..MaxAddresses
    BY HostsAssumption, AddressesAssumption
  <2>2. NoAttempt \in AttemptStates
    BY <2>1 DEF NoAttempt, AttemptStates, Outcomes
  <2> QED BY <2>2 DEF Init
<1>4. \A c \in Attempts : attempt[c].outcome = "none"
  BY <1>3 DEF NoAttempt
<1>5. session \in Sessions /\ attempt \in [Attempts -> AttemptStates]
  BY <1>2, <1>3 DEF Sessions
<1>6. Now \in States /\ Now.session = session /\ Now.attempt = attempt
  BY <1>5 DEF Now, States
<1>7. Thorough(attempt) /\ Timed(session) /\ Agree(session, attempt) /\ Trying(session)
  BY <1>2, <1>4 DEF Thorough, Timed, Agree, Trying
<1> QED BY <1>2, <1>6, <1>7 DEF IInv, Sound

LEMMA UserConnectGood == IInv /\ UserConnect => IInv'
<1> SUFFICES ASSUME IInv, UserConnect PROVE IInv'
  OBVIOUS
<1>1. session.present /\ Becomes(Wants(CommandConnect(Now), TRUE))
  BY DEF UserConnect
<1>2. ASSUME NEW t \in Wants(CommandConnect(Now), TRUE)
      PROVE  Sound(t) /\ Trying(t.session)
  <2>1. PICK u \in CommandConnect(Now) : t = [u EXCEPT !.session.wanted = TRUE]
    BY <1>2 DEF Wants
  <2>2. Sound(u) /\ u.session.present /\ (u.session.connecting \/ u.session.connected)
    BY <1>1, NowFacts, CommandConnectSound
  <2>3. /\ Sound(t) /\ t.session.connected = u.session.connected
        /\ t.session.connecting = u.session.connecting
    BY <2>1, <2>2, WantedSound
  <2> QED BY <2>2, <2>3 DEF Trying
<1> QED BY <1>1, <1>2, BecomesGood

LEMMA UserDisconnectGood == IInv /\ UserDisconnect => IInv'
<1> SUFFICES ASSUME IInv, UserDisconnect PROVE IInv'
  OBVIOUS
<1>1. session.present /\ Becomes(Wants({CommandDisconnect(Now)}, FALSE))
  BY DEF UserDisconnect
<1>2. ASSUME NEW t \in Wants({CommandDisconnect(Now)}, FALSE)
      PROVE  Sound(t) /\ Trying(t.session)
  <2>1. t = [CommandDisconnect(Now) EXCEPT !.session.wanted = FALSE]
    BY <1>2 DEF Wants
  <2>2. /\ Sound(CommandDisconnect(Now))
        /\ CommandDisconnect(Now).session.present \/ CommandDisconnect(Now).session = NoSession
    BY <1>1, NowFacts, CommandDisconnectSound
  <2>3. CASE CommandDisconnect(Now).session.present
    <3>1. Sound(t) /\ t.session.wanted = FALSE
      BY <2>1, <2>2, <2>3, WantedSound
    <3> QED BY <3>1 DEF Trying
  <2>4. CASE CommandDisconnect(Now).session = NoSession
    <3> DEFINE d == CommandDisconnect(Now)
    <3>1. d \in States /\ d.session = NoSession
      BY <2>2, <2>4 DEF Sound
    <3>2. t = [d EXCEPT !.session.wanted = FALSE]
      BY <2>1
    <3> HIDE DEF d
    <3>3. [NoSession EXCEPT !.wanted = FALSE] = NoSession
      <4>1. NoSession \in Sessions /\ NoSession.wanted = FALSE
        BY DEF NoSession, Sessions
      <4>2. \A s \in Sessions : s.wanted = FALSE => [s EXCEPT !.wanted = FALSE] = s
        BY DEF Sessions
      <4> QED BY <4>1, <4>2
    <3>4. t = d
      BY <3>1, <3>2, <3>3 DEF States
    <3> QED BY <2>2, <2>4, <3>4 DEF d, Trying, NoSession
  <2> QED BY <2>2, <2>3, <2>4
<1> QED BY <1>1, <1>2, BecomesGood

LEMMA UserReconnectGood == IInv /\ UserReconnect => IInv'
<1> SUFFICES ASSUME IInv, UserReconnect PROVE IInv'
  OBVIOUS
<1> DEFINE d == CommandDisconnect(Now)
<1>1. /\ session.present
      /\ Becomes(IF d.session.present THEN Wants(CommandConnect(d), TRUE) ELSE {d})
  BY DEF UserReconnect
<1>2. Sound(d)
  BY <1>1, NowFacts, CommandDisconnectSound
<1> HIDE DEF d
<1>3. ASSUME d.session.present, NEW t \in Wants(CommandConnect(d), TRUE)
      PROVE  Sound(t) /\ Trying(t.session)
  <2>1. PICK u \in CommandConnect(d) : t = [u EXCEPT !.session.wanted = TRUE]
    BY <1>3 DEF Wants
  <2>2. Sound(u) /\ u.session.present /\ (u.session.connecting \/ u.session.connected)
    BY <1>2, <1>3, CommandConnectSound
  <2>3. /\ Sound(t) /\ t.session.connected = u.session.connected
        /\ t.session.connecting = u.session.connecting
    BY <2>1, <2>2, WantedSound
  <2> QED BY <2>2, <2>3 DEF Trying
<1>4. ~d.session.present => Trying(d.session)
  BY DEF Trying
<1> QED BY <1>1, <1>2, <1>3, <1>4, BecomesGood

LEMMA SessionRemoveGood == IInv /\ SessionRemove => IInv'
<1> SUFFICES ASSUME IInv, SessionRemove PROVE IInv'
  OBVIOUS
<1> DEFINE left    == IF session.connected THEN CommandDisconnect(Now) ELSE Now
           dropped == IF left.session.links > 0 THEN HandleDisconnect(left, "network") ELSE left
           gone    == [dropped EXCEPT !.session = NoSession]
<1>1. session.present /\ Becomes({gone})
  BY DEF SessionRemove
<1>2. Sound(left) /\ (left.session.present \/ left.session = NoSession)
  BY <1>1, NowFacts, CommandDisconnectSound
<1>3. Sound(dropped)
  <2> HIDE DEF left
  <2>1. NoSession.links = 0
    BY DEF NoSession
  <2> QED BY <1>2, <2>1, HandleDisconnectSound
<1> HIDE DEF dropped
<1>4. NoSession \in Sessions /\ Timed(NoSession) /\ ~NoSession.present
  BY DEF NoSession, Sessions, Timed
<1>5. gone \in States /\ gone.session = NoSession /\ gone.attempt = dropped.attempt
  BY <1>3, <1>4 DEF Sound, States
<1> HIDE DEF gone
<1>6. Sound(gone) /\ Trying(gone.session)
  BY <1>3, <1>4, <1>5 DEF Sound, Trying
<1> QED BY <1>1, <1>6, BecomesGood

LEMMA ReconnectTimerGood == IInv /\ ReconnectTimerFires => IInv'
<1> SUFFICES ASSUME IInv, ReconnectTimerFires PROVE IInv'
  OBVIOUS
<1> DEFINE returned(st) == [st EXCEPT !.session.timers = IF @ > 0 THEN @ - 1 ELSE 0]
<1>1. session.present /\ ~session.connected /\ session.timers = 1
  BY NowFacts DEF ReconnectTimerFires, Timed
<1>2. Becomes({returned(st) : st \in CommandConnect(Now)})
  BY <1>1 DEF ReconnectTimerFires
<1>3. ASSUME NEW t \in {returned(st) : st \in CommandConnect(Now)}
      PROVE  Sound(t) /\ Trying(t.session)
  <2>1. PICK u \in CommandConnect(Now) : t = returned(u)
    BY <1>3
  <2>2. /\ Sound(u) /\ u.session.present /\ (u.session.connecting \/ u.session.connected)
        /\ u.session.timers = 1
    BY <1>1, NowFacts, CommandConnectSound
  <2>3. t = [u EXCEPT !.session.timers = 0]
    BY <2>1, <2>2
  <2>4. u.session.connected => 0 = 0
    OBVIOUS
  <2>5. /\ Sound(t) /\ t.session.connected = u.session.connected
        /\ t.session.connecting = u.session.connecting
    BY <2>2, <2>3, TimersSound
  <2> QED BY <2>2, <2>5 DEF Trying
<1> QED BY <1>2, <1>3, BecomesGood

LEMMA ResolverLineGood ==
  ASSUME IInv, NEW c \in Attempts, ResolverLine(c) PROVE IInv'
<1>1. PICK queue \in {"connect_queue", "connect_queue2"} :
        /\ attempt[c][queue] < MaxAddresses
        /\ attempt' = [attempt EXCEPT ![c][queue] = @ + 1]
  BY DEF ResolverLine
<1> DEFINE a == [attempt[c] EXCEPT ![queue] = @ + 1]
           u == [Now EXCEPT !.attempt[c] = a]
<1>2. attempt[c].outcome = "pending" /\ session' = session
  BY DEF ResolverLine, Waiting, Pending
<1>3. a \in AttemptStates /\ a.outcome = "pending"
  <2>1. attempt[c] \in AttemptStates
    BY NowFacts
  <2>2. attempt[c][queue] + 1 \in 0..MaxAddresses
    BY <1>1, <2>1, AddressesAssumption DEF AttemptStates
  <2>3. CASE queue = "connect_queue"
    BY <1>2, <2>1, <2>2, <2>3 DEF AttemptStates
  <2>4. CASE queue = "connect_queue2"
    BY <1>2, <2>1, <2>2, <2>4 DEF AttemptStates
  <2> QED BY <2>3, <2>4
<1>4. attempt' = [attempt EXCEPT ![c] = a]
  BY <1>1, NowFacts
<1> HIDE DEF a
<1>5. Sound(u) /\ u.session = session
  BY <1>2, <1>3, NowFacts, UpdateSound
<1>6. Now' = u
  BY <1>2, <1>4 DEF Now
<1> QED BY <1>2, <1>5, <1>6 DEF IInv, Trying

LEMMA ConnectLoopGood ==
  ASSUME IInv, NEW c \in Attempts, Pending(c), Becomes(ConnectLoop(Now, c)) PROVE IInv'
<1>1. \A t \in ConnectLoop(Now, c) : Sound(t) /\ Trying(t.session)
  BY NowFacts, ConnectLoopSound DEF Pending
<1> QED BY <1>1, BecomesGood

LEMMA ConnectSucceedsGood ==
  ASSUME IInv, NEW c \in Attempts, ConnectSucceeds(c) PROVE IInv'
<1> DEFINE w == [session EXCEPT !.connect_watch = 0]
           s == [w EXCEPT !.links = @ + 1]
           u == [session |-> s, attempt |-> attempt]
           t == DataFree(u, c, "connected")
<1>1. session.present /\ attempt[c].outcome = "pending"
  BY DEF ConnectSucceeds, Waiting, Pending
<1>2. [Now EXCEPT !.session = HandleConnect(@)] = u
  BY NowFacts DEF Now, HandleConnect
<1>3. Becomes({t})
  BY <1>2 DEF ConnectSucceeds
<1>4. /\ session.connect_watch = c /\ c # 0 /\ session.links = 0
      /\ session.connecting /\ ~session.connected
  BY <1>1, NowFacts DEF Agree, Attempts
<1>5. /\ w \in Sessions /\ w.connect_watch = 0 /\ w.links = 0 /\ w.connecting /\ ~w.connected
      /\ w.timers = session.timers /\ w.present
  BY <1>1, <1>4, NowFacts DEF Sessions
<1>6. /\ s \in Sessions /\ s.connect_watch = 0 /\ s.links = 1 /\ s.connecting /\ ~s.connected
      /\ s.timers = session.timers /\ s.present
  <2> HIDE DEF w
  <2> QED BY <1>5 DEF Sessions
<1> HIDE DEF s
<1>7. u \in States /\ u.session = s /\ u.attempt = attempt /\ "connected" \in Outcomes
  BY <1>6, NowFacts DEF States, Outcomes
<1> HIDE DEF u
<1>8. /\ t \in States /\ t.session = s /\ Ended(t.attempt[c], attempt[c], "connected")
      /\ \A d \in Attempts : d # c => t.attempt[d] = attempt[d]
  BY <1>7, DataFreeFacts
<1> HIDE DEF t
<1>9. \A d \in Attempts : t.attempt[d].outcome # "pending"
  BY <1>1, <1>4, <1>8, NowFacts DEF Agree, Ended
<1>10. Thorough(t.attempt) /\ Timed(s)
  BY <1>6, <1>8, NowFacts DEF Thorough, Ended, Timed
<1>11. Agree(s, t.attempt)
  BY <1>6, <1>9 DEF Agree
<1>12. Sound(t) /\ Trying(t.session)
  BY <1>6, <1>8, <1>10, <1>11 DEF Sound, Trying
<1> QED BY <1>3, <1>12, BecomesGood

LEMMA StreamUpGood == IInv /\ StreamUp => IInv'
<1> SUFFICES ASSUME IInv, StreamUp PROVE IInv'
  OBVIOUS
<1> DEFINE a == [session EXCEPT !.connecting = FALSE]
           b == [a EXCEPT !.connected = TRUE]
           s == [b EXCEPT !.timers = 0]
<1>1. /\ session.present /\ session.links = 1 /\ session' = s /\ attempt' = attempt
      /\ session.connect_watch = 0
  BY NowFacts DEF StreamUp, ProtocolConnected, Agree
<1>2. a \in Sessions /\ ~a.connecting /\ a.links = 1 /\ a.connect_watch = 0 /\ a.present
  BY <1>1, NowFacts DEF Sessions
<1>3. /\ b \in Sessions /\ ~b.connecting /\ b.links = 1 /\ b.connect_watch = 0 /\ b.present
      /\ b.connected
  <2> HIDE DEF a
  <2> QED BY <1>2 DEF Sessions
<1>4. /\ s \in Sessions /\ ~s.connecting /\ s.links = 1 /\ s.connect_watch = 0 /\ s.present
      /\ s.connected /\ s.timers = 0
  <2> HIDE DEF b
  <2> QED BY <1>3 DEF Sessions
<1> HIDE DEF s
<1>5. \A c \in Attempts : attempt[c].outcome # "pending"
  BY <1>1, NowFacts DEF Agree, Attempts
<1>6. Agree(s, attempt) /\ Timed(s) /\ Trying(s)
  BY <1>4, <1>5 DEF Agree, Timed, Trying
<1>7. Now' = [session |-> s, attempt |-> attempt]
  BY <1>1 DEF Now
<1>8. Sound([session |-> s, attempt |-> attempt])
  BY <1>4, <1>6, NowFacts DEF Sound, States
<1> QED BY <1>1, <1>6, <1>7, <1>8 DEF IInv

LEMMA StreamDownGood == IInv /\ StreamDown => IInv'
<1> SUFFICES ASSUME IInv, StreamDown PROVE IInv'
  OBVIOUS
<1>1. PICK type \in {"network", "failure"} : Becomes({HandleDisconnect(Now, type)})
  BY DEF StreamDown
<1>2. session.present
  BY DEF StreamDown
<1>3. Sound(HandleDisconnect(Now, type)) /\ Trying(HandleDisconnect(Now, type).session)
  BY <1>2, NowFacts, HandleDisconnectSound
<1> QED BY <1>1, <1>3, BecomesGood

LEMMA NextGood == IInv /\ [Next]_vars => IInv'
<1> SUFFICES ASSUME IInv, [Next]_vars PROVE IInv'
  OBVIOUS
<1>1. CASE Users
  BY <1>1, UserConnectGood, UserDisconnectGood, UserReconnectGood, SessionRemoveGood DEF Users
<1>2. CASE Handlers
  <2>1. ASSUME NEW c \in Attempts, ResolverLine(c) PROVE IInv'
    BY <2>1, ResolverLineGood
  <2>2. ASSUME NEW c \in Attempts, ResolverEnd(c) \/ ConnectFails(c) PROVE IInv'
    BY <2>2, ConnectLoopGood DEF ResolverEnd, ConnectFails, Waiting
  <2>3. ASSUME NEW c \in Attempts, ConnectSucceeds(c) PROVE IInv'
    BY <2>3, ConnectSucceedsGood
  <2> QED BY <1>2, <2>1, <2>2, <2>3, StreamUpGood, StreamDownGood, ReconnectTimerGood DEF Handlers
<1>3. CASE UNCHANGED vars
  BY <1>3 DEF vars, IInv, Now, Trying
<1> QED BY <1>1, <1>2, <1>3 DEF Next

THEOREM Invariance == Spec => []IInv
  BY InitGood, NextGood, PTL DEF Spec

-----------------------------------------------------------------------------
(* What follows from the invariant. *)

\* The fields of the session and of the attempts keep their types: no queue of
\* an attempt is ever shifted when it is empty.
THEOREM TypeCorrect == Spec => []TypeOK
<1>1. IInv => TypeOK
  BY NowFacts DEF TypeOK
<1> QED BY <1>1, Invariance, PTL

\* Whatever the user, the network and the timer do, the plugin's pointer leads
\* to the attempt that is under way, and never to a freed one.
THEOREM AlwaysAbortable == Spec => []Abortable
<1>1. IInv => Abortable
  <2> SUFFICES ASSUME IInv, session.present PROVE Abortable
    BY DEF Abortable
  <2>1. session.connect_watch \in Attempts \cup {0} /\ Agree(session, attempt)
    BY NowFacts DEF Sessions
  <2> QED BY <2>1 DEF Abortable, Agree, Pending
<1> QED BY <1>1, Invariance, PTL

\* A session has at most one socket or attempt.
THEOREM NeverTwoConnections == Spec => []OneConnection
<1>1. IInv => OneConnection
  <2> SUFFICES ASSUME IInv, session.present
               PROVE  session.links + Cardinality({c \in Attempts : Pending(c)}) <= 1
    BY DEF OneConnection
  <2> DEFINE pending == {c \in Attempts : Pending(c)}
  <2>1. Agree(session, attempt) /\ session.connect_watch \in Attempts \cup {0}
    BY NowFacts DEF Sessions
  <2>2. CASE session.connect_watch = 0
    <3>1. pending = {}
      BY <2>1, <2>2 DEF Agree, Pending, Attempts
    <3>2. Cardinality(pending) = 0
      BY <3>1, FS_EmptySet
    <3> QED BY <2>1, <3>2 DEF Agree
  <2>3. CASE session.connect_watch # 0
    <3>1. pending = {session.connect_watch}
      BY <2>1, <2>3 DEF Agree, Pending
    <3>2. Cardinality(pending) = 1
      BY <3>1, FS_Singleton
    <3>3. session.links = 0
      BY <2>1, <2>3 DEF Agree
    <3> QED BY <3>2, <3>3
  <2> QED BY <2>2, <2>3
<1> QED BY <1>1, Invariance, PTL

\* A session that says it is connecting has a socket or an attempt, so that
\* /connect is not refused longer than these last.
THEOREM ConnectingMeansIt == Spec => []ConnectingIsTrue
<1>1. IInv => ConnectingIsTrue
  <2> SUFFICES ASSUME IInv, session.connecting
               PROVE  session.links > 0 \/ \E c \in Attempts : Pending(c)
    BY DEF ConnectingIsTrue
  <2>1. session.present
    BY NowFacts DEF IInv, Sound, NoSession
  <2>2. Agree(session, attempt) /\ session.connect_watch \in Attempts \cup {0}
    BY <2>1, NowFacts DEF Sessions
  <2> QED BY <2>2 DEF Agree, Pending
<1> QED BY <1>1, Invariance, PTL

\* A session that went down, or failed to go up, against the will of a user who
\* wants it reconnected has the timer that tries again; and there is one timer.
THEOREM TimerThere == Spec => [](KeepsTrying /\ OneTimer)
<1>1. IInv => KeepsTrying /\ OneTimer
  BY NowFacts DEF IInv, Trying, KeepsTrying, OneTimer, Timed
<1> QED BY <1>1, Invariance, PTL

\* An attempt fails only after all servers and, but for the last address being
\* refused at once, all addresses.
THEOREM FailureIsLast == Spec => []FailsLast
<1>1. IInv => FailsLast
  BY NowFacts DEF FailsLast, Thorough
<1> QED BY <1>1, Invariance, PTL

-----------------------------------------------------------------------------
(* Presence: sequences and finite sets. *)

LEMMA SmallestOf ==
  ASSUME NEW S \in SUBSET Nat, S # {}
  PROVE  \E x \in S : \A y \in S : x <= y
<1>1. IsWellFoundedOn(OpToRel(<, Nat), Nat)
  BY NatLessThanWellFounded
<1>2. PICK x \in S : \A y \in S : ~(<<y, x>> \in OpToRel(<, Nat))
  BY <1>1, WFMin
<1>3. \A y \in S : x <= y
  <2> SUFFICES ASSUME NEW y \in S PROVE x <= y
    OBVIOUS
  <2>1. ~(<<y, x>> \in OpToRel(<, Nat))
    BY <1>2
  <2>2. x \in Nat /\ y \in Nat
    OBVIOUS
  <2>3. y < x => <<y, x>> \in OpToRel(<, Nat)
    BY <2>2, Zenon DEF OpToRel
  <2>4. ~(y < x)
    BY <2>1, <2>3, Zenon
  <2> QED BY <2>2, <2>4
<1> QED BY <1>3

LEMMA MinIn ==
  ASSUME NEW S \in SUBSET Nat, S # {}
  PROVE  Min(S) \in S
<1>1. \E x \in S : \A y \in S : x <= y
  BY SmallestOf
<1> QED BY <1>1, Zenon DEF Min

LEMMA ConcatFacts ==
    ASSUME NEW S, NEW s \in Seq(S), NEW t \in Seq(S)
    PROVE  /\ s \o t \in Seq(S) /\ Len(s \o t) = Len(s) + Len(t)
           /\ \A i \in 1..Len(s) : (s \o t)[i] = s[i]
           /\ \A i \in 1..Len(t) : (s \o t)[Len(s) + i] = t[i]
<1>1. /\ s \o t \in Seq(S) /\ Len(s \o t) = Len(s) + Len(t)
      /\ \A i \in 1..Len(s) + Len(t) :
           (s \o t)[i] = IF i <= Len(s) THEN s[i] ELSE t[i - Len(s)]
  BY ConcatProperties
<1>2. Len(s) \in Nat /\ Len(t) \in Nat
  OBVIOUS
<1> QED BY <1>1, <1>2

\* What holds of 0, and of a number if of the one before, holds of all.
LEMMA Upwards ==
  ASSUME NEW n \in Nat, NEW P, 0 \in P, \A i \in 1..n : i - 1 \in P => i \in P
  PROVE  \A i \in 0..n : i \in P
<1> SUFFICES ASSUME NEW i \in 0..n, i \notin P PROVE FALSE
  OBVIOUS
<1> DEFINE N == {k \in 0..n : k \notin P}
<1>1. i \in N /\ N \in SUBSET Nat
  OBVIOUS
<1> HIDE DEF N
<1>2. PICK k \in N : \A y \in N : k <= y
  BY <1>1, SmallestOf
<1>3. k \in 0..n /\ k \notin P
  BY <1>2 DEF N
<1>4. k \in 1..n /\ k - 1 \in 0..n /\ ~(k <= k - 1)
  BY <1>3
<1>5. k - 1 \notin N
  BY <1>2, <1>4
<1>6. k - 1 \in P
  BY <1>4, <1>5 DEF N
<1> QED BY <1>3, <1>4, <1>6

\* A recursive function on places, whose values are in S, exists.
Recursive(S, a, step, m) ==
  \E f \in [0..m -> S] :
    /\ f[0] = a
    /\ \A i \in 1..m : f[i] = step[<<f[i - 1], i>>]

LEMMA Recursion ==
  ASSUME NEW S, NEW a \in S, NEW step \in [S \X Nat -> S], NEW m \in Nat
  PROVE  Recursive(S, a, step, m)
<1> DEFINE Does(f, n) == /\ f \in [0..n -> S] /\ f[0] = a
                         /\ \A i \in 1..n : f[i] = step[<<f[i - 1], i>>]
           P == {n \in 0..m : \E f : Does(f, n)}
<1>1. 0 \in P
  <2>1. [i \in 0..0 |-> a] \in [0..0 -> S] /\ [i \in 0..0 |-> a][0] = a
    OBVIOUS
  <2>2. \A i \in 1..0 : FALSE
    OBVIOUS
  <2>3. \E f : Does(f, 0)
    BY <2>1, <2>2
  <2> QED BY <2>3
<1>2. ASSUME NEW n \in 1..m, n - 1 \in P PROVE n \in P
  <2>1. PICK f : Does(f, n - 1)
    BY <1>2
  <2> DEFINE g == [i \in 0..n |-> IF i = n THEN step[<<f[n - 1], n>>] ELSE f[i]]
  <2>2. /\ n - 1 \in 0..n - 1 /\ n \in Nat
        /\ \A i \in 0..n : i # n => i \in 0..n - 1
        /\ \A i \in 1..n : i - 1 \in 0..n - 1 /\ i - 1 # n /\ i \in 0..n /\ i - 1 \in 0..n
    OBVIOUS
  <2>3. f[n - 1] \in S
    BY <2>1, <2>2
  <2>4. step[<<f[n - 1], n>>] \in S
    BY <2>2, <2>3
  <2>5. \A i \in 0..n - 1 : g[i] = f[i] /\ f[i] \in S
    BY <2>1
  <2>6. g \in [0..n -> S]
    <3>1. \A i \in 0..n : g[i] \in S
      BY <2>2, <2>4, <2>5
    <3> QED BY <3>1
  <2>7. g[n] = step[<<f[n - 1], n>>]
    BY <2>2
  <2> HIDE DEF g
  <2>8. ASSUME NEW i \in 1..n PROVE g[i] = step[<<g[i - 1], i>>]
    <3>1. g[i - 1] = f[i - 1]
      BY <2>2, <2>5
    <3>2. CASE i = n
      BY <2>7, <3>1, <3>2
    <3>3. CASE i # n
      <4>1. i \in 1..n - 1 /\ i \in 0..n - 1
        BY <2>2, <3>3
      <4> QED BY <2>1, <2>5, <3>1, <4>1
    <3> QED BY <3>2, <3>3
  <2>9. g[0] = a
    <3>1. 0 \in 0..n - 1
      BY <2>2
    <3> QED BY <2>1, <2>5, <3>1
  <2>10. n \in 0..m
    OBVIOUS
  <2> QED BY <2>6, <2>8, <2>9, <2>10
<1> HIDE DEF P
<1>3. m \in P
  <2>1. \A i \in 0..m : i \in P
    BY <1>1, <1>2, Upwards
  <2> QED BY <2>1
<1> QED BY <1>3 DEF P, Recursive

LEMMA SetToSeqFacts ==
    ASSUME NEW S, IsFiniteSet(S)
    PROVE  LET z == SetToSeq(S)
           IN  /\ Cardinality(S) \in Nat /\ Len(z) = Cardinality(S) /\ z \in Seq(S)
               /\ \A i \in 1..Len(z) : z[i] \in S
               /\ \A i, j \in 1..Len(z) : z[i] = z[j] => i = j
               /\ \A x \in S : \E i \in 1..Len(z) : z[i] = x
<1>1. Cardinality(S) \in Nat /\ ExistsBijection(1..Cardinality(S), S)
  BY FS_CardinalityType
<1>2. \E f \in [1..Cardinality(S) -> S] : IsInjective(f)
  BY <1>1 DEF ExistsBijection, Bijection, Injection, IsInjective
<1>3. SetToSeq(S) \in [1..Cardinality(S) -> S] /\ IsInjective(SetToSeq(S))
  BY <1>2 DEF SetToSeq
<1>4. SetToSeq(S) \in Surjection(1..Cardinality(S), S)
  <2>1. SetToSeq(S) \in Injection(1..Cardinality(S), S)
    BY <1>3 DEF Injection, IsInjective
  <2>2. IsFiniteSet(1..Cardinality(S)) /\ Cardinality(1..Cardinality(S)) = Cardinality(S)
    BY <1>1, FS_Interval
  <2> QED BY <2>1, <2>2, FS_Injection
<1>5. \A x \in S : \E i \in 1..Cardinality(S) : SetToSeq(S)[i] = x
  BY <1>4 DEF Surjection
<1>6. \A i, j \in 1..Cardinality(S) : SetToSeq(S)[i] = SetToSeq(S)[j] => i = j
  BY <1>3 DEF IsInjective
<1>7. SetToSeq(S) \in Seq(S) /\ Len(SetToSeq(S)) = Cardinality(S)
  BY <1>1, <1>3
<1> QED BY <1>1, <1>3, <1>5, <1>6, <1>7

\* FlattenSeq() puts the sequences one behind the other.
Flattened(S, seqs, f) ==
  /\ f \in [0 .. Len(seqs) -> Seq(S)] /\ f[0] = << >>
  /\ \A i \in 1 .. Len(seqs) : f[i] = f[i - 1] \o seqs[i]
  /\ FlattenSeq(seqs) = f[Len(seqs)]

LEMMA FlattenFacts ==
  ASSUME NEW S, NEW seqs \in Seq(Seq(S))
  PROVE  \E f : Flattened(S, seqs, f)
<1> DEFINE n == Len(seqs)
           step == [x \in Seq(S) \X Nat |-> IF x[2] \in 1..n THEN x[1] \o seqs[x[2]] ELSE << >>]
<1>1. n \in Nat /\ \A i \in 1..n : seqs[i] \in Seq(S)
  BY ElementOfSeq
<1>2. << >> \in Seq(S)
  OBVIOUS
<1>3. step \in [Seq(S) \X Nat -> Seq(S)]
  <2>1. ASSUME NEW a \in Seq(S), NEW i \in 1..n PROVE a \o seqs[i] \in Seq(S)
    BY <1>1, ConcatProperties
  <2>2. \A x \in Seq(S) \X Nat : step[x] \in Seq(S)
    BY <1>2, <2>1
  <2> QED BY <2>2
<1>4. ASSUME NEW a \in Seq(S), NEW i \in 1..n PROVE step[<<a, i>>] = a \o seqs[i]
  <2>1. <<a, i>> \in Seq(S) \X Nat /\ <<a, i>>[1] = a /\ <<a, i>>[2] = i
    OBVIOUS
  <2> QED BY <2>1
<1> HIDE DEF step, n
<1>5. PICK f \in [0..n -> Seq(S)] : f[0] = << >> /\ \A i \in 1..n : f[i] = step[<<f[i - 1], i>>]
  <2>1. Recursive(Seq(S), << >>, step, n)
    BY <1>1, <1>2, <1>3, Recursion
  <2> QED BY <2>1 DEF Recursive
<1>6. ASSUME NEW i \in 1..n
      PROVE  i - 1 \in 0..n /\ i \in 0..n /\ f[i - 1] \in Seq(S) /\ f[i] = f[i - 1] \o seqs[i]
  <2>1. i - 1 \in 0..n /\ i \in 0..n
    BY <1>1
  <2>2. f[i - 1] \in Seq(S)
    BY <2>1
  <2>3. f[i] = step[<<f[i - 1], i>>]
    BY <1>5
  <2> QED BY <1>4, <2>1, <2>2, <2>3
<1>7. FlattenSeq(seqs) = f[n]
  <2>1. CASE n = 0
    <3>1. seqs = << >>
      BY <2>1, EmptySeq DEF n
    <3> QED BY <1>5, <2>1, <3>1 DEF FlattenSeq, n
  <2>2. CASE n # 0
    <3> DEFINE flatten[i \in 1..Len(seqs)] == IF i = 1 THEN seqs[i] ELSE flatten[i - 1] \o seqs[i]
               g == [i \in 1..n |-> f[i]]
    <3>1. FlattenSeq(seqs) = flatten[n]
      BY <2>2 DEF FlattenSeq, n
    <3>2. f[1] = seqs[1]
      <4>1. 1 \in 1..n /\ 1 - 1 = 0
        BY <1>1, <2>2
      <4>2. f[1] = f[0] \o seqs[1] /\ seqs[1] \in Seq(S)
        BY <1>1, <1>6, <4>1
      <4> QED BY <1>5, <4>2, ConcatEmptySeq
    <3>3. g = [i \in 1..n |-> IF i = 1 THEN seqs[i] ELSE g[i - 1] \o seqs[i]]
      <4>1. ASSUME NEW i \in 1..n PROVE g[i] = IF i = 1 THEN seqs[i] ELSE g[i - 1] \o seqs[i]
        <5>1. i # 1 => i - 1 \in 1..n
          BY <1>1
        <5> QED BY <1>6, <3>2, <5>1
      <4> QED BY <4>1
    <3>4. flatten = [i \in 1..n |-> IF i = 1 THEN seqs[i] ELSE flatten[i - 1] \o seqs[i]]
      BY <3>3, Zenon DEF n
    <3> HIDE DEF flatten
    <3> DEFINE P == {i \in 0..n : i = 0 \/ flatten[i] = f[i]}
    <3>5. ASSUME NEW i \in 1..n, i - 1 \in P PROVE i \in P
      <4>1. i = 1 \/ (i - 1 # 0 /\ i - 1 \in 1..n)
        BY <1>1
      <4>2. flatten[i] = IF i = 1 THEN seqs[i] ELSE flatten[i - 1] \o seqs[i]
        BY <3>4
      <4> QED BY <1>6, <3>2, <3>5, <4>1, <4>2
    <3>6. 0 \in P
      BY <1>1
    <3> HIDE DEF P
    <3>7. n \in P
      <4>1. \A i \in 0..n : i \in P
        BY <1>1, <3>5, <3>6, Upwards
      <4> QED BY <1>1, <4>1
    <3> QED BY <2>2, <3>1, <3>7 DEF P
  <2> QED BY <2>1, <2>2
<1> QED BY <1>5, <1>6, <1>7 DEF Flattened, n

\* The elements of the result are those of the sequences.
LEMMA FlattenElements ==
  ASSUME NEW S, NEW seqs \in Seq(Seq(S))
  PROVE  LET z == FlattenSeq(seqs) IN
         /\ z \in Seq(S)
         /\ \A k \in 1..Len(z) : \E j \in 1..Len(seqs) : \E i \in 1..Len(seqs[j]) : z[k] = seqs[j][i]
         /\ \A j \in 1..Len(seqs) : \A i \in 1..Len(seqs[j]) : \E k \in 1..Len(z) : z[k] = seqs[j][i]
<1>1. PICK f : Flattened(S, seqs, f)
  BY FlattenFacts
<1> DEFINE n == Len(seqs)
           From(z, m) == \A k \in 1..Len(z) : \E j \in 1..m : \E i \in 1..Len(seqs[j]) : z[k] = seqs[j][i]
           Into(z, m) == \A j \in 1..m : \A i \in 1..Len(seqs[j]) : \E k \in 1..Len(z) : z[k] = seqs[j][i]
           P == {m \in 0..n : From(f[m], m) /\ Into(f[m], m)}
<1>2. n \in Nat /\ \A j \in 1..n : seqs[j] \in Seq(S)
  BY ElementOfSeq
<1>3. 0 \in P
  BY <1>1, <1>2 DEF Flattened
<1>4. ASSUME NEW m \in 1..n, m - 1 \in P PROVE m \in P
  <2> DEFINE a == f[m - 1]  b == seqs[m]  z == f[m]
  <2>0. m - 1 \in 0..n
    BY <1>2
  <2>1. a \in Seq(S) /\ b \in Seq(S) /\ z = a \o b
    BY <1>1, <1>2, <2>0, Zenon DEF Flattened
  <2>3. From(a, m - 1) /\ Into(a, m - 1)
    BY <1>4 DEF P
  <2>7. b = seqs[m]
    OBVIOUS
  <2> HIDE DEF a, b, z
  <2>2. /\ z \in Seq(S) /\ Len(z) = Len(a) + Len(b) /\ Len(a) \in Nat /\ Len(b) \in Nat
        /\ \A i \in 1..Len(a) : z[i] = a[i]
        /\ \A i \in 1..Len(b) : z[Len(a) + i] = b[i]
    BY <2>1, ConcatFacts
  <2>4. m - 1 \in Nat /\ (\A j \in 1..m : j \in 1..m - 1 \/ j = m) /\ (\A j \in 1..m - 1 : j \in 1..m)
    OBVIOUS
  <2>5. From(z, m)
    <3> SUFFICES ASSUME NEW k \in 1..Len(z)
                 PROVE  \E j \in 1..m : \E i \in 1..Len(seqs[j]) : z[k] = seqs[j][i]
      OBVIOUS
    <3>1. CASE k <= Len(a)
      <4>1. k \in 1..Len(a)
        BY <2>2, <3>1
      <4>2. PICK j \in 1..m - 1 : \E i \in 1..Len(seqs[j]) : a[k] = seqs[j][i]
        BY <2>3, <4>1
      <4> QED BY <2>2, <2>4, <4>1, <4>2
    <3>2. CASE k > Len(a)
      <4>1. k - Len(a) \in 1..Len(b) /\ Len(a) + (k - Len(a)) = k
        BY <2>2, <3>2
      <4>2. z[k] = b[k - Len(a)]
        BY <2>2, <4>1
      <4> QED BY <2>4, <2>7, <4>1, <4>2
    <3>3. k <= Len(a) \/ k > Len(a)
      BY <2>2
    <3> QED BY <3>1, <3>2, <3>3
  <2>6. Into(z, m)
    <3> SUFFICES ASSUME NEW j \in 1..m, NEW i \in 1..Len(seqs[j])
                 PROVE  \E k \in 1..Len(z) : z[k] = seqs[j][i]
      OBVIOUS
    <3>1. CASE j \in 1..m - 1
      <4>1. PICK k \in 1..Len(a) : a[k] = seqs[j][i]
        BY <2>3, <3>1
      <4>2. k \in 1..Len(z)
        BY <2>2
      <4>3. z[k] = a[k]
        BY <2>2
      <4> QED BY <4>1, <4>2, <4>3
    <3>2. CASE j = m
      <4>1. i \in 1..Len(b)
        BY <2>7, <3>2
      <4>2. Len(a) + i \in 1..Len(z) /\ z[Len(a) + i] = b[i]
        BY <2>2, <4>1
      <4> QED BY <2>7, <3>2, <4>2
    <3> QED BY <2>4, <3>1, <3>2
  <2>8. m \in 0..n
    OBVIOUS
  <2> QED BY <2>5, <2>6, <2>8 DEF P, z
<1>5. n \in P
  <2>1. \A m \in 0..n : m \in P
    BY <1>2, <1>3, <1>4, Upwards
  <2>2. n \in 0..n
    BY <1>2
  <2> HIDE DEF n
  <2> QED BY <2>1, <2>2
<1>6. FlattenSeq(seqs) = f[n] /\ f[n] \in Seq(S)
  BY <1>1, <1>2 DEF Flattened
<1>7. From(f[n], n) /\ Into(f[n], n)
  BY <1>5 DEF P
<1> HIDE DEF P
<1> QED BY <1>6, <1>7

-----------------------------------------------------------------------------
(* What is known of one contact. *)

Statuses == Present \cup NotHere
Subs     == {"absent", "none", "to"}
PrioT    == Prios \cup {DefaultPrio}

ResourceT == [name : Resources, prio : PrioT, show : Statuses]
EntryT    == [there : {TRUE}, auth : BOOLEAN, status : Statuses, resources : Seq(ResourceT)]
Entries   == EntryT \cup {NoEntry}
OnlineT   == [prio : Prios, show : Present] \cup {Gone}

\* Entry e has resource x, of name r.
In(rs, r, x)  == \E i \in 1..Len(rs) : rs[i] = x /\ x.name = r
Has(e, r, x) == e.there /\ In(e.resources, r, x)

Single(rs) == \A i, j \in 1..Len(rs) : rs[i].name = rs[j].name => i = j
AllHere(rs) == \A i \in 1..Len(rs) : rs[i].show \in Present

\* An entry whose resources are all there has the status of the first.
EntrySound(e) ==
  /\ Single(e.resources)
  /\ e.resources = << >> => e.status \in NotHere
  /\ e.resources # << >> /\ AllHere(e.resources) => e.status = e.resources[1].show

Stanzas ==
  [kind : {"roster"}, items : [Contacts -> Subs]]
    \cup [kind : {"push"}, contact : Contacts, sub : Subs]
    \cup [kind : {"presence"}, contact : Contacts, res : Resources, prio : PrioT, show : Present \cup Away]
    \cup [kind : {"presence"}, contact : Contacts, res : {Bare}, prio : PrioT, show : Away]

Requests == [kind : {"get", "presence"}] \cup [kind : {"probe", "set", "remove"}, contact : Contacts]

-----------------------------------------------------------------------------
(* The invariant: what the program knows of a contact, once it has read    *)
(* what is on its way, is the server's truth.  Only the last stanzas count *)
(* that reset the entry, or tell of a resource.                            *)

Resets(m, c)   == m.kind = "roster" \/ (m.kind = "push" /\ m.contact = c)
Sub(m, c)      == IF m.kind = "roster" THEN m.items[c] ELSE m.sub
From(m, c)     == m.kind = "presence" /\ m.contact = c
Tells(m, c, r) == From(m, c) /\ m.res = r

ResetsAt(s, c)  == {i \in 1..Len(s) : Resets(s[i], c)}
NewsAt(s, c, r) == {i \in 1..Len(s) : Resets(s[i], c) \/ Tells(s[i], c, r)}

\* i is the last of the places P that are not behind n; there is none.
Latest(P, n, i) == i \in P /\ i <= n /\ \A j \in P : j <= n => j <= i
Nothing(P, n)   == \A j \in P : j > n

\* set: an item of the contact is on its way to the server.
Agreed(s, c, e, sub, set) ==
  \/ e.there /\ sub # "absent" /\ (e.auth <=> sub = "to")
  \/ ~e.there /\ sub = "absent"
  \/ e = NewEntry /\ sub = "absent" /\ set /\ \A i \in 1..Len(s) : ~From(s[i], c)

\* sub is the contact's item at the server.
Sequel(s, c, e, sub, set) ==
  /\ \A q : Latest(ResetsAt(s, c), Len(s), q) => Sub(s[q], c) = sub
  /\ Nothing(ResetsAt(s, c), Len(s)) => Agreed(s, c, e, sub, set)

\* Presences come to contacts that have an entry then.
Enrolled(s, n, c, e) ==
  /\ \A q : Latest(ResetsAt(s, c), n, q) => Sub(s[q], c) # "absent"
  /\ Nothing(ResetsAt(s, c), n) => e.there

Heard(s, c, e) == \A i \in 1..Len(s) : From(s[i], c) => Enrolled(s, i - 1, c, e)

\* A resource that leaves is not known as one that is not there.
Ready(s, n, c, r, e) ==
  /\ \A q : Latest(NewsAt(s, c, r), n, q) => Resets(s[q], c) \/ s[q].show \in Present
  /\ Nothing(NewsAt(s, c, r), n) => \A x : Has(e, r, x) => x.show \in Present

Farewell(s, c, r, e) ==
  \A i \in 1..Len(s) : Tells(s[i], c, r) /\ s[i].show \in Away => Ready(s, i - 1, c, r, e)

\* x is what is true of a resource: o if we see it (t), or not there.
Fits(x, t, o) == IF t THEN x.prio = o.prio /\ x.show = o.show ELSE x.show \in NotHere

\* probe: the contact is going to be asked.
Ends(s, c, r, e, t, o, probe) ==
  /\ \A q : Latest(NewsAt(s, c, r), Len(s), q) /\ Tells(s[q], c, r) => Fits(s[q], t, o)
  /\ Nothing(NewsAt(s, c, r), Len(s)) =>
       /\ \A x : Has(e, r, x) => Fits(x, t, o)
       /\ t => probe \/ \E x : Has(e, r, x)

\* t: the contact's presences are sent to us; on is who is there.
Follows(s, c, e, sub, set, probe, t, on) ==
  /\ Sequel(s, c, e, sub, set)
  /\ Heard(s, c, e)
  /\ \A r \in Resources : /\ Farewell(s, c, r, e)
                          /\ Ends(s, c, r, e, t /\ on[r] # Gone, on[r], probe)

Leads(a, b) == a => b

-----------------------------------------------------------------------------
(* Places. *)

LEMMA LatestShift ==
  ASSUME NEW P \in SUBSET (Nat \ {0}), NEW Q \in SUBSET (Nat \ {0}), NEW n \in Nat,
         \A i \in Nat \ {0} : i \in Q <=> i + 1 \in P
  PROVE  /\ \A i : Latest(Q, n, i) => i \in Nat \ {0} /\ Latest(P, n + 1, i + 1)
         /\ Nothing(Q, n) /\ 1 \notin P => Nothing(P, n + 1)
         /\ Nothing(Q, n) /\ 1 \in P => Latest(P, n + 1, 1)
<1>1. ASSUME NEW j \in P PROVE j = 1 \/ (j - 1 \in Q /\ j - 1 \in Nat \ {0} /\ j \in Nat)
  <2>1. j \in Nat \ {0} /\ (j = 1 \/ j - 1 \in Nat \ {0}) /\ (j - 1) + 1 = j
    OBVIOUS
  <2> QED BY <2>1
<1>2. ASSUME NEW i, Latest(Q, n, i) PROVE i \in Nat \ {0} /\ Latest(P, n + 1, i + 1)
  <2>1. i \in Q /\ i \in Nat \ {0} /\ i <= n /\ \A j \in Q : j <= n => j <= i
    BY <1>2 DEF Latest
  <2>2. i + 1 \in P /\ i + 1 <= n + 1
    BY <2>1
  <2>3. ASSUME NEW j \in P, j <= n + 1 PROVE j <= i + 1
    <3>1. CASE j = 1
      BY <2>1, <3>1
    <3>2. CASE j # 1
      <4>1. j - 1 \in Q /\ j - 1 \in Nat /\ j \in Nat /\ j - 1 <= n
        BY <1>1, <2>3, <3>2
      <4>2. j - 1 <= i
        BY <2>1, <4>1
      <4> QED BY <2>1, <4>1, <4>2
    <3> QED BY <3>1, <3>2
  <2> QED BY <2>1, <2>2, <2>3 DEF Latest
<1>3. ASSUME Nothing(Q, n), NEW j \in P, j # 1 PROVE j > n + 1
  <2>1. j - 1 \in Q /\ j - 1 \in Nat /\ j \in Nat
    BY <1>1, <1>3
  <2>2. j - 1 > n
    BY <1>3, <2>1 DEF Nothing
  <2> QED BY <2>1, <2>2
<1>4. Nothing(Q, n) /\ 1 \notin P => Nothing(P, n + 1)
  BY <1>3 DEF Nothing
<1>5. ASSUME Nothing(Q, n), 1 \in P PROVE Latest(P, n + 1, 1)
  <2>1. ASSUME NEW j \in P, j <= n + 1 PROVE j <= 1
    <3>1. j \in Nat
      OBVIOUS
    <3>2. j # 1 => j > n + 1
      BY <1>3, <1>5
    <3> QED BY <2>1, <3>1, <3>2
  <2> QED BY <1>5, <2>1 DEF Latest
<1> QED BY <1>2, <1>4, <1>5

\* Q has the places of P up to n, and others behind it.
Extended(P, Q, n, k) ==
  /\ k <= n => /\ \A i : Latest(Q, k, i) => Latest(P, k, i)
               /\ Nothing(Q, k) => Nothing(P, k)
  /\ k >= n /\ (\A j \in Q : j > n => j > k) =>
       /\ \A i : Latest(Q, k, i) => Latest(P, n, i)
       /\ Nothing(Q, k) => Nothing(P, n)
  /\ \A j \in Q : n < j /\ j <= k =>
       /\ ~Nothing(Q, k)
       /\ \A i : Latest(Q, k, i) => i \in Nat /\ n < i /\ i <= k

LEMMA LatestExtend ==
  ASSUME NEW n \in Nat, NEW P \in SUBSET (1..n), NEW Q \in SUBSET (Nat \ {0}), NEW k \in Nat,
         \A i \in 1..n : i \in P <=> i \in Q
  PROVE  Extended(P, Q, n, k)
<1>1. (\A j \in P : j \in Q /\ j \in Nat /\ j <= n) /\ (\A j \in Q : j \in Nat /\ (j <= n => j \in P))
  OBVIOUS
<1>2. ASSUME k <= n PROVE /\ \A i : Latest(Q, k, i) => Latest(P, k, i)
                          /\ Nothing(Q, k) => Nothing(P, k)
  <2>1. \A i \in Nat : i <= k => i <= n
    BY <1>2
  <2> QED BY <1>1, <2>1 DEF Latest, Nothing
<1>3. ASSUME k >= n, \A j \in Q : j > n => j > k
      PROVE  /\ \A i : Latest(Q, k, i) => Latest(P, n, i)
             /\ Nothing(Q, k) => Nothing(P, n)
  <2>1. ASSUME NEW i, Latest(Q, k, i) PROVE Latest(P, n, i)
    <3>1. i \in Q /\ i \in Nat /\ i <= k /\ \A j \in Q : j <= k => j <= i
      BY <1>1, <2>1 DEF Latest
    <3>2. i <= n
      BY <1>3, <3>1
    <3>3. \A j \in P : j <= k
      BY <1>1, <1>3
    <3> QED BY <1>1, <3>1, <3>2, <3>3 DEF Latest
  <2>2. ASSUME Nothing(Q, k) PROVE Nothing(P, n)
    <3>1. \A j \in P : j > k /\ j <= n /\ j \in Nat
      BY <1>1, <2>2 DEF Nothing
    <3> QED BY <1>3, <3>1 DEF Nothing
  <2> QED BY <2>1, <2>2
<1>4. ASSUME NEW j \in Q, n < j, j <= k
      PROVE  /\ ~Nothing(Q, k)
             /\ \A i : Latest(Q, k, i) => i \in Nat /\ n < i /\ i <= k
  <2>1. ~Nothing(Q, k)
    BY <1>1, <1>4 DEF Nothing
  <2>2. ASSUME NEW i, Latest(Q, k, i) PROVE i \in Nat /\ n < i /\ i <= k
    <3>1. i \in Q /\ i <= k /\ j <= i
      BY <1>4, <2>2 DEF Latest
    <3>2. i \in Nat /\ j \in Nat
      BY <3>1
    <3> QED BY <1>4, <3>1, <3>2
  <2> QED BY <2>1, <2>2
<1> QED BY <1>2, <1>3, <1>4 DEF Extended

LEMMA PlacesFacts ==
  ASSUME NEW s \in Seq(Stanzas), NEW c, NEW r
  PROVE  /\ ResetsAt(s, c) \in SUBSET (1..Len(s)) /\ NewsAt(s, c, r) \in SUBSET (1..Len(s))
         /\ ResetsAt(s, c) \in SUBSET (Nat \ {0}) /\ NewsAt(s, c, r) \in SUBSET (Nat \ {0})
         /\ \A i \in 1..Len(s) : /\ i \in ResetsAt(s, c) <=> Resets(s[i], c)
                                 /\ i \in NewsAt(s, c, r) <=> (Resets(s[i], c) \/ Tells(s[i], c, r))
         /\ ResetsAt(s, c) \subseteq NewsAt(s, c, r)
<1>1. Len(s) \in Nat
  OBVIOUS
<1> QED BY <1>1 DEF ResetsAt, NewsAt

LEMMA TailFacts ==
  ASSUME NEW s \in Seq(Stanzas), s # << >>
  PROVE  /\ Tail(s) \in Seq(Stanzas) /\ Len(s) \in Nat \ {0} /\ Len(Tail(s)) = Len(s) - 1
         /\ s[1] \in Stanzas
         /\ \A i \in 1..Len(Tail(s)) : i + 1 \in 1..Len(s) /\ Tail(s)[i] = s[i + 1] /\ i - 1 \in Nat
<1>1. Len(s) \in Nat \ {0}
  BY EmptySeq
<1>2. s[1] \in Stanzas
  BY <1>1, ElementOfSeq
<1>3. Tail(s) \in Seq(Stanzas) /\ Len(Tail(s)) = Len(s) - 1 /\ \A i \in 1..Len(Tail(s)) : Tail(s)[i] = s[i + 1]
  BY HeadTailProperties
<1> QED BY <1>1, <1>2, <1>3

\* The places of the rest are those behind the first.
LEMMA TailPlaces ==
  ASSUME NEW s \in Seq(Stanzas), s # << >>, NEW c, NEW r
  PROVE  /\ \A i \in Nat \ {0} : i \in ResetsAt(Tail(s), c) <=> i + 1 \in ResetsAt(s, c)
         /\ \A i \in Nat \ {0} : i \in NewsAt(Tail(s), c, r) <=> i + 1 \in NewsAt(s, c, r)
<1>1. \A i \in Nat \ {0} : i \in 1..Len(Tail(s)) <=> i + 1 \in 1..Len(s)
  BY TailFacts
<1> QED BY <1>1, TailFacts DEF ResetsAt, NewsAt

\* z is s without its first stanza.
TailLast(s, z, c, r, n) ==
  /\ \A i : Latest(ResetsAt(z, c), n, i) =>
        i \in Nat \ {0} /\ Latest(ResetsAt(s, c), n + 1, i + 1) /\ z[i] = s[i + 1]
  /\ \A i : Latest(NewsAt(z, c, r), n, i) =>
        i \in Nat \ {0} /\ Latest(NewsAt(s, c, r), n + 1, i + 1) /\ z[i] = s[i + 1]
  /\ Nothing(ResetsAt(z, c), n) =>
        IF Resets(s[1], c) THEN Latest(ResetsAt(s, c), n + 1, 1) ELSE Nothing(ResetsAt(s, c), n + 1)
  /\ Nothing(NewsAt(z, c, r), n) =>
        IF Resets(s[1], c) \/ Tells(s[1], c, r) THEN Latest(NewsAt(s, c, r), n + 1, 1)
        ELSE Nothing(NewsAt(s, c, r), n + 1)
  /\ Nothing(NewsAt(z, c, r), n) => Nothing(ResetsAt(z, c), n)

\* The last places of the rest.
LEMMA TailLatest ==
  ASSUME NEW s \in Seq(Stanzas), s # << >>, NEW c, NEW r, NEW n \in Nat
  PROVE  TailLast(s, Tail(s), c, r, n)
<1> DEFINE P == ResetsAt(s, c)  Q == ResetsAt(Tail(s), c)
           M == NewsAt(s, c, r) N == NewsAt(Tail(s), c, r)
<1>1. /\ P \in SUBSET (Nat \ {0}) /\ Q \in SUBSET (Nat \ {0}) /\ M \in SUBSET (Nat \ {0}) /\ N \in SUBSET (Nat \ {0})
      /\ Q \subseteq N /\ Q \subseteq 1..Len(Tail(s)) /\ N \subseteq 1..Len(Tail(s))
      /\ 1 \in P <=> Resets(s[1], c)
      /\ 1 \in M <=> (Resets(s[1], c) \/ Tells(s[1], c, r))
  <2>1. 1 \in 1..Len(s) /\ Tail(s) \in Seq(Stanzas)
    BY TailFacts
  <2>2. /\ P \in SUBSET (Nat \ {0}) /\ M \in SUBSET (Nat \ {0})
        /\ 1 \in P <=> Resets(s[1], c)
        /\ 1 \in M <=> (Resets(s[1], c) \/ Tells(s[1], c, r))
    BY <2>1, PlacesFacts
  <2>3. Q \in SUBSET (Nat \ {0}) /\ N \in SUBSET (Nat \ {0}) /\ Q \subseteq N /\ Q \subseteq 1..Len(Tail(s)) /\ N \subseteq 1..Len(Tail(s))
    BY <2>1, PlacesFacts
  <2> QED BY <2>2, <2>3
<1>2. /\ \A i \in Nat \ {0} : i \in Q <=> i + 1 \in P
      /\ \A i \in Nat \ {0} : i \in N <=> i + 1 \in M
  BY TailPlaces
<1>3. \A i \in 1..Len(Tail(s)) : Tail(s)[i] = s[i + 1]
  BY TailFacts
<1> HIDE DEF P, Q, M, N
<1>4. /\ \A i : Latest(Q, n, i) => i \in Nat \ {0} /\ Latest(P, n + 1, i + 1)
      /\ Nothing(Q, n) /\ 1 \notin P => Nothing(P, n + 1)
      /\ Nothing(Q, n) /\ 1 \in P => Latest(P, n + 1, 1)
  BY <1>1, <1>2, LatestShift
<1>5. /\ \A i : Latest(N, n, i) => i \in Nat \ {0} /\ Latest(M, n + 1, i + 1)
      /\ Nothing(N, n) /\ 1 \notin M => Nothing(M, n + 1)
      /\ Nothing(N, n) /\ 1 \in M => Latest(M, n + 1, 1)
  BY <1>1, <1>2, LatestShift
<1>6. \A i : (Latest(Q, n, i) \/ Latest(N, n, i)) => Tail(s)[i] = s[i + 1]
  BY <1>1, <1>3 DEF Latest
<1>7. Nothing(N, n) => Nothing(Q, n)
  BY <1>1 DEF Nothing
<1> QED BY <1>1, <1>4, <1>5, <1>6, <1>7 DEF P, Q, M, N, TailLast

LEMMA StanzaFacts ==
  ASSUME NEW m \in Stanzas
  PROVE  /\ m.kind \in {"roster", "push", "presence"}
         /\ m.kind = "roster" => m.items \in [Contacts -> Subs]
         /\ m.kind = "push" => m.contact \in Contacts /\ m.sub \in Subs
         /\ m.kind = "presence" => /\ m.contact \in Contacts /\ m.res \in Resources \cup {Bare}
                                   /\ m.prio \in PrioT /\ m.show \in Present \cup Away
                                   /\ m.res = Bare => m.show \in Away
<1>1. Bare \notin Resources
  BY PresenceAssumption DEF Bare
<1> QED BY <1>1 DEF Stanzas

LEMMA ShowFacts ==
  /\ Away \subseteq NotHere /\ Present \cap NotHere = {} /\ "na" \in Away /\ "na" \in NotHere
  /\ "unknown" \in NotHere /\ "unknown" \notin Away
  /\ \A show \in Present \cup Away : show \in NotHere => show \in Away
  /\ Bare \notin Resources /\ Resources \subseteq Nat
BY PresenceAssumption DEF NotHere, Bare

-----------------------------------------------------------------------------
(* The program reads a stanza. *)

\* What a new entry, or none, knows.
Renewed(e, sub) ==
  /\ \A r, x : ~Has(e, r, x)
  /\ IF sub = "absent" THEN ~e.there ELSE e.there /\ (e.auth <=> sub = "to")

\* A contact that we see is asked for its presence.
Probed(m, c, t, sub, probe) == (t => sub = "to") /\ (Sub(m, c) = "to" /\ t => probe)

\* The stanza resets the entry.
LEMMA ReadReset ==
  ASSUME NEW s \in Seq(Stanzas), s # << >>, NEW c \in Contacts, NEW e, NEW e2, NEW sub, NEW set, NEW set2,
         NEW probe, NEW probe2, NEW t, NEW on,
         Follows(s, c, e, sub, set, probe, t, on), Resets(s[1], c), Renewed(e2, Sub(s[1], c)),
         Probed(s[1], c, t, sub, probe2)
  PROVE  Follows(Tail(s), c, e2, sub, set2, probe2, t, on)
<1> DEFINE z == Tail(s)
           L == Len(z)
<1>1. z \in Seq(Stanzas) /\ L \in Nat /\ Len(s) = L + 1 /\ \A i \in 1..L : i + 1 \in 1..Len(s) /\ z[i] = s[i + 1] /\ i - 1 \in Nat /\ (i - 1) + 1 = i
  BY TailFacts
<1>2. ASSUME NEW n \in Nat, NEW r
      PROVE  /\ \A i : Latest(ResetsAt(z, c), n, i) => Latest(ResetsAt(s, c), n + 1, i + 1) /\ z[i] = s[i + 1]
             /\ \A i : Latest(NewsAt(z, c, r), n, i) => Latest(NewsAt(s, c, r), n + 1, i + 1) /\ z[i] = s[i + 1]
             /\ Nothing(ResetsAt(z, c), n) => Latest(ResetsAt(s, c), n + 1, 1)
             /\ Nothing(NewsAt(z, c, r), n) => Nothing(ResetsAt(z, c), n)
  <2>1. TailLast(s, z, c, r, n)
    BY TailLatest
  <2> HIDE DEF z
  <2> QED BY <2>1 DEF TailLast
<1> HIDE DEF z, L
<1>3. Sequel(z, c, e2, sub, set2)
  <2>1. \A q : Latest(ResetsAt(s, c), Len(s), q) => Sub(s[q], c) = sub
    BY DEF Follows, Sequel
  <2>2. \A q : Latest(ResetsAt(z, c), L, q) => Sub(z[q], c) = sub
    BY <1>1, <1>2, <2>1
  <2>3. Nothing(ResetsAt(z, c), L) => Sub(s[1], c) = sub
    BY <1>1, <1>2, <2>1
  <2>4. Nothing(ResetsAt(z, c), L) => Agreed(z, c, e2, sub, set2)
    BY <2>3 DEF Agreed, Renewed
  <2> QED BY <2>2, <2>4 DEF Sequel, L
<1>4. Heard(z, c, e2)
  <2> SUFFICES ASSUME NEW i \in 1..L, From(z[i], c) PROVE Enrolled(z, i - 1, c, e2)
    BY DEF Heard, L
  <2>1. Enrolled(s, i, c, e)
    <3>1. From(s[i + 1], c) /\ i + 1 \in 1..Len(s) /\ (i + 1) - 1 = i
      BY <1>1
    <3> QED BY <3>1 DEF Follows, Heard
  <2>2. \A q : Latest(ResetsAt(z, c), i - 1, q) => Sub(z[q], c) # "absent"
    BY <1>1, <1>2, <2>1 DEF Enrolled
  <2>3. Nothing(ResetsAt(z, c), i - 1) => Sub(s[1], c) # "absent"
    BY <1>1, <1>2, <2>1 DEF Enrolled
  <2> QED BY <2>2, <2>3 DEF Enrolled, Renewed
<1>5. ASSUME NEW r \in Resources PROVE Farewell(z, c, r, e2)
  <2> SUFFICES ASSUME NEW i \in 1..L, Tells(z[i], c, r), z[i].show \in Away PROVE Ready(z, i - 1, c, r, e2)
    BY DEF Farewell, L
  <2>1. Ready(s, i, c, r, e)
    <3>1. Tells(s[i + 1], c, r) /\ s[i + 1].show \in Away /\ i + 1 \in 1..Len(s) /\ (i + 1) - 1 = i
      BY <1>1
    <3> QED BY <3>1 DEF Follows, Farewell
  <2>2. \A q : Latest(NewsAt(z, c, r), i - 1, q) => Resets(z[q], c) \/ z[q].show \in Present
    BY <1>1, <1>2, <2>1 DEF Ready
  <2> QED BY <2>2 DEF Ready, Renewed
<1>6. ASSUME NEW r \in Resources PROVE Ends(z, c, r, e2, t /\ on[r] # Gone, on[r], probe2)
  <2>1. Ends(s, c, r, e, t /\ on[r] # Gone, on[r], probe)
    BY DEF Follows
  <2>2. \A q : Latest(NewsAt(z, c, r), L, q) /\ Tells(z[q], c, r) => Fits(z[q], t /\ on[r] # Gone, on[r])
    <3> SUFFICES ASSUME NEW q, Latest(NewsAt(z, c, r), L, q), Tells(z[q], c, r) PROVE Fits(z[q], t /\ on[r] # Gone, on[r])
      OBVIOUS
    <3>1. Latest(NewsAt(s, c, r), Len(s), q + 1) /\ z[q] = s[q + 1]
      BY <1>1, <1>2
    <3> QED BY <2>1, <3>1 DEF Ends
  <2>3. Nothing(NewsAt(z, c, r), L) /\ t => probe2
    <3>1. Nothing(NewsAt(z, c, r), L) => Latest(ResetsAt(s, c), Len(s), 1)
      BY <1>1, <1>2
    <3>2. Nothing(NewsAt(z, c, r), L) => Sub(s[1], c) = sub
      BY <3>1 DEF Follows, Sequel
    <3> QED BY <3>2 DEF Probed
  <2> QED BY <2>2, <2>3 DEF Ends, L, Renewed
<1> QED BY <1>3, <1>4, <1>5, <1>6 DEF Follows, z

\* What a presence does to an entry.
Effect(e, m, e2) ==
  /\ e2.there /\ e2.auth = e.auth
  /\ \A r \in Resources : r # m.res => \A x : Has(e2, r, x) <=> Has(e, r, x)
  /\ \A x : Has(e2, m.res, x) =>
       IF m.show \in Present THEN x.prio = m.prio /\ x.show = m.show ELSE x.show \in NotHere
  /\ m.show \in Present /\ m.res \in Resources => \E x : Has(e2, m.res, x)

\* The stanza is a presence of the contact.
LEMMA ReadPresence ==
  ASSUME NEW s \in Seq(Stanzas), s # << >>, NEW c \in Contacts, NEW e, NEW e2, NEW sub, NEW set,
         NEW probe, NEW t, NEW on, \A r \in Resources : on[r] # Gone => on[r].show \in Present,
         Follows(s, c, e, sub, set, probe, t, on), From(s[1], c), Effect(e, s[1], e2)
  PROVE  Follows(Tail(s), c, e2, sub, set, probe, t, on)
<1> DEFINE z == Tail(s)
           L == Len(z)
<1>1. z \in Seq(Stanzas) /\ L \in Nat /\ Len(s) = L + 1 /\ \A i \in 1..L : i + 1 \in 1..Len(s) /\ z[i] = s[i + 1] /\ i - 1 \in Nat /\ (i - 1) + 1 = i
  BY TailFacts
<1>2. s[1].show \in Present \cup Away /\ ~Resets(s[1], c) /\ s[1].res \in Resources \cup {Bare}
  <2>1. s[1] \in Stanzas /\ s[1].kind = "presence"
    BY TailFacts DEF From
  <2> QED BY <2>1, StanzaFacts DEF Resets
<1>3. ASSUME NEW n \in Nat, NEW r
      PROVE  /\ \A i : Latest(ResetsAt(z, c), n, i) => Latest(ResetsAt(s, c), n + 1, i + 1) /\ z[i] = s[i + 1]
             /\ \A i : Latest(NewsAt(z, c, r), n, i) => Latest(NewsAt(s, c, r), n + 1, i + 1) /\ z[i] = s[i + 1]
             /\ Nothing(ResetsAt(z, c), n) => Nothing(ResetsAt(s, c), n + 1)
             /\ Nothing(NewsAt(z, c, r), n) /\ s[1].res # r => Nothing(NewsAt(s, c, r), n + 1)
             /\ Nothing(NewsAt(z, c, r), n) /\ s[1].res = r => Latest(NewsAt(s, c, r), n + 1, 1)
  <2>1. ~Resets(s[1], c) /\ (Tells(s[1], c, r) <=> s[1].res = r)
    BY <1>2 DEF Tells
  <2>2. TailLast(s, z, c, r, n)
    BY TailLatest
  <2> HIDE DEF z
  <2> QED BY <2>1, <2>2 DEF TailLast
<1> HIDE DEF z, L
<1>4. Sequel(z, c, e2, sub, set)
  <2>1. \A q : Latest(ResetsAt(z, c), L, q) => Sub(z[q], c) = sub
    BY <1>1, <1>3 DEF Follows, Sequel
  <2>2. ASSUME Nothing(ResetsAt(z, c), L) PROVE Agreed(z, c, e2, sub, set)
    <3>1. Agreed(s, c, e, sub, set)
      BY <1>1, <1>3, <2>2 DEF Follows, Sequel
    <3>2. e.there
      <4>1. 1 \in 1..Len(s) /\ 1 - 1 = 0
        BY <1>1
      <4>2. Enrolled(s, 0, c, e)
        BY <4>1 DEF Follows, Heard
      <4>3. Nothing(ResetsAt(s, c), 0)
        BY DEF Nothing, ResetsAt
      <4> QED BY <4>2, <4>3 DEF Enrolled
    <3>3. ~(\A i \in 1..Len(s) : ~From(s[i], c))
      BY <1>1
    <3> QED BY <3>1, <3>2, <3>3 DEF Agreed, Effect
  <2> QED BY <2>1, <2>2 DEF Sequel, L
<1>5. Heard(z, c, e2)
  <2> SUFFICES ASSUME NEW i \in 1..L, From(z[i], c) PROVE Enrolled(z, i - 1, c, e2)
    BY DEF Heard, L
  <2>1. Enrolled(s, i, c, e)
    <3>1. From(s[i + 1], c) /\ i + 1 \in 1..Len(s) /\ (i + 1) - 1 = i
      BY <1>1
    <3> QED BY <3>1 DEF Follows, Heard
  <2>2. \A q : Latest(ResetsAt(z, c), i - 1, q) => Sub(z[q], c) # "absent"
    BY <1>1, <1>3, <2>1 DEF Enrolled
  <2> QED BY <2>2 DEF Enrolled, Effect
<1>6. ASSUME NEW r \in Resources PROVE Farewell(z, c, r, e2)
  <2> SUFFICES ASSUME NEW i \in 1..L, Tells(z[i], c, r), z[i].show \in Away PROVE Ready(z, i - 1, c, r, e2)
    BY DEF Farewell, L
  <2>1. Ready(s, i, c, r, e)
    <3>1. Tells(s[i + 1], c, r) /\ s[i + 1].show \in Away /\ i + 1 \in 1..Len(s) /\ (i + 1) - 1 = i
      BY <1>1
    <3> QED BY <3>1 DEF Follows, Farewell
  <2>2. \A q : Latest(NewsAt(z, c, r), i - 1, q) => Resets(z[q], c) \/ z[q].show \in Present
    BY <1>1, <1>3, <2>1 DEF Ready
  <2>3. ASSUME Nothing(NewsAt(z, c, r), i - 1), NEW x, Has(e2, r, x) PROVE x.show \in Present
    <3>1. CASE s[1].res = r
      <4>1. Latest(NewsAt(s, c, r), i, 1)
        BY <1>1, <1>3, <2>3, <3>1, ZenonT(40)
      <4>2. s[1].show \in Present
        BY <1>2, <2>1, <4>1 DEF Ready
      <4> QED BY <2>3, <3>1, <4>2 DEF Effect
    <3>2. CASE s[1].res # r
      <4>1. Nothing(NewsAt(s, c, r), i)
        BY <1>1, <1>3, <2>3, <3>2
      <4>2. Has(e, r, x)
        BY <2>3, <3>2 DEF Effect
      <4> QED BY <2>1, <4>1, <4>2 DEF Ready
    <3> QED BY <3>1, <3>2
  <2> QED BY <2>2, <2>3 DEF Ready
<1>7. ASSUME NEW r \in Resources PROVE Ends(z, c, r, e2, t /\ on[r] # Gone, on[r], probe)
  <2> DEFINE tt == t /\ on[r] # Gone
  <2>1. Ends(s, c, r, e, tt, on[r], probe)
    BY DEF Follows
  <2>2. tt => on[r].show \in Present
    OBVIOUS
  <2> HIDE DEF tt
  <2>3. \A q : Latest(NewsAt(z, c, r), L, q) /\ Tells(z[q], c, r) => Fits(z[q], tt, on[r])
    <3> SUFFICES ASSUME NEW q, Latest(NewsAt(z, c, r), L, q), Tells(z[q], c, r) PROVE Fits(z[q], tt, on[r])
      OBVIOUS
    <3>1. Latest(NewsAt(s, c, r), Len(s), q + 1) /\ z[q] = s[q + 1]
      BY <1>1, <1>3
    <3> QED BY <2>1, <3>1 DEF Ends
  <2>4. ASSUME Nothing(NewsAt(z, c, r), L)
        PROVE  (\A x : Has(e2, r, x) => Fits(x, tt, on[r])) /\ (tt => probe \/ \E x : Has(e2, r, x))
    <3>1. CASE s[1].res = r
      <4>1. Latest(NewsAt(s, c, r), Len(s), 1) /\ Tells(s[1], c, r)
        BY <1>1, <1>3, <2>4, <3>1 DEF Tells
      <4>2. Fits(s[1], tt, on[r])
        BY <2>1, <4>1 DEF Ends
      <4>3. tt => s[1].show \in Present
        BY <2>2, <4>2 DEF Fits
      <4>4. ~tt => s[1].show \notin Present
        BY <4>2, ShowFacts DEF Fits
      <4>5. \A x : Has(e2, r, x) => Fits(x, tt, on[r])
        BY <3>1, <4>2, <4>3, <4>4 DEF Effect, Fits
      <4> QED BY <3>1, <4>3, <4>5 DEF Effect
    <3>2. CASE s[1].res # r
      <4>1. Nothing(NewsAt(s, c, r), Len(s))
        BY <1>1, <1>3, <2>4, <3>2
      <4>2. \A x : Has(e2, r, x) <=> Has(e, r, x)
        BY <3>2 DEF Effect
      <4> QED BY <2>1, <4>1, <4>2 DEF Ends
    <3> QED BY <3>1, <3>2
  <2>5. Ends(z, c, r, e2, tt, on[r], probe)
    BY <2>3, <2>4 DEF Ends, L
  <2> QED BY <2>5 DEF tt
<1> QED BY <1>4, <1>5, <1>6, <1>7 DEF Follows, z

\* The stanza is not about the contact.
LEMMA ReadOther ==
  ASSUME NEW s \in Seq(Stanzas), s # << >>, NEW c \in Contacts, NEW e, NEW sub, NEW set, NEW probe, NEW t, NEW on,
         NEW set2, NEW probe2,
         Follows(s, c, e, sub, set, probe, t, on), ~Resets(s[1], c), ~From(s[1], c),
         Leads(set, set2), Leads(probe, probe2)
  PROVE  Follows(Tail(s), c, e, sub, set2, probe2, t, on)
<1> DEFINE z == Tail(s)
           L == Len(z)
<1>1. z \in Seq(Stanzas) /\ L \in Nat /\ Len(s) = L + 1 /\ \A i \in 1..L : i + 1 \in 1..Len(s) /\ z[i] = s[i + 1] /\ i - 1 \in Nat /\ (i - 1) + 1 = i
  BY TailFacts
<1>2. ASSUME NEW n \in Nat, NEW r
      PROVE  /\ \A i : Latest(ResetsAt(z, c), n, i) => Latest(ResetsAt(s, c), n + 1, i + 1) /\ z[i] = s[i + 1]
             /\ \A i : Latest(NewsAt(z, c, r), n, i) => Latest(NewsAt(s, c, r), n + 1, i + 1) /\ z[i] = s[i + 1]
             /\ Nothing(ResetsAt(z, c), n) => Nothing(ResetsAt(s, c), n + 1)
             /\ Nothing(NewsAt(z, c, r), n) => Nothing(NewsAt(s, c, r), n + 1)
  <2>1. ~Resets(s[1], c) /\ ~Tells(s[1], c, r)
    BY DEF Tells
  <2>2. TailLast(s, z, c, r, n)
    BY TailLatest
  <2> HIDE DEF z
  <2> QED BY <2>1, <2>2 DEF TailLast
<1> HIDE DEF z, L
<1>3. Sequel(z, c, e, sub, set2)
  <2>1. \A q : Latest(ResetsAt(z, c), L, q) => Sub(z[q], c) = sub
    BY <1>1, <1>2 DEF Follows, Sequel
  <2>2. ASSUME Nothing(ResetsAt(z, c), L) PROVE Agreed(z, c, e, sub, set2)
    <3>1. Agreed(s, c, e, sub, set)
      BY <1>1, <1>2, <2>2 DEF Follows, Sequel
    <3> QED BY <1>1, <3>1 DEF Agreed, L, Leads
  <2> QED BY <2>1, <2>2 DEF Sequel, L
<1>4. Heard(z, c, e)
  <2> SUFFICES ASSUME NEW i \in 1..L, From(z[i], c) PROVE Enrolled(z, i - 1, c, e)
    BY DEF Heard, L
  <2>1. Enrolled(s, i, c, e)
    <3>1. From(s[i + 1], c) /\ i + 1 \in 1..Len(s) /\ (i + 1) - 1 = i
      BY <1>1
    <3> QED BY <3>1 DEF Follows, Heard
  <2> QED BY <1>1, <1>2, <2>1 DEF Enrolled
<1>5. ASSUME NEW r \in Resources PROVE Farewell(z, c, r, e)
  <2> SUFFICES ASSUME NEW i \in 1..L, Tells(z[i], c, r), z[i].show \in Away PROVE Ready(z, i - 1, c, r, e)
    BY DEF Farewell, L
  <2>1. Ready(s, i, c, r, e)
    <3>1. Tells(s[i + 1], c, r) /\ s[i + 1].show \in Away /\ i + 1 \in 1..Len(s) /\ (i + 1) - 1 = i
      BY <1>1
    <3> QED BY <3>1 DEF Follows, Farewell
  <2> QED BY <1>1, <1>2, <2>1 DEF Ready
<1>6. ASSUME NEW r \in Resources PROVE Ends(z, c, r, e, t /\ on[r] # Gone, on[r], probe2)
  <2>1. Ends(s, c, r, e, t /\ on[r] # Gone, on[r], probe)
    BY DEF Follows
  <2>2. \A q : Latest(NewsAt(z, c, r), L, q) /\ Tells(z[q], c, r) => Fits(z[q], t /\ on[r] # Gone, on[r])
    <3> SUFFICES ASSUME NEW q, Latest(NewsAt(z, c, r), L, q), Tells(z[q], c, r) PROVE Fits(z[q], t /\ on[r] # Gone, on[r])
      OBVIOUS
    <3>1. Latest(NewsAt(s, c, r), Len(s), q + 1) /\ z[q] = s[q + 1]
      BY <1>1, <1>2
    <3> QED BY <2>1, <3>1 DEF Ends
  <2>3. Nothing(NewsAt(z, c, r), L) => Nothing(NewsAt(s, c, r), Len(s))
    BY <1>1, <1>2
  <2> QED BY <2>1, <2>2, <2>3 DEF Ends, L, Leads
<1> QED BY <1>3, <1>4, <1>5, <1>6 DEF Follows, z

-----------------------------------------------------------------------------
(* Stanzas u are sent behind s. *)

\* No stanza of u that is not behind place k of s \o u resets; nor tells of r.
NoReset(s, u, k, c)   == \A j \in 1..Len(u) : Len(s) + j <= k => ~Resets(u[j], c)
NoNews(s, u, k, c, r) == \A j \in 1..Len(u) : Len(s) + j <= k => ~Resets(u[j], c) /\ ~Tells(u[j], c, r)

\* i is a place of z that holds a stanza of u.
Sent(s, u, z, k, i, j) == j \in 1..Len(u) /\ i = Len(s) + j /\ z[i] = u[j] /\ i <= k

Early(s, z, c, r, k) ==
  /\ \A i : Latest(ResetsAt(z, c), k, i) => Latest(ResetsAt(s, c), k, i) /\ z[i] = s[i]
  /\ \A i : Latest(NewsAt(z, c, r), k, i) => Latest(NewsAt(s, c, r), k, i) /\ z[i] = s[i]
  /\ Nothing(ResetsAt(z, c), k) => Nothing(ResetsAt(s, c), k)
  /\ Nothing(NewsAt(z, c, r), k) => Nothing(NewsAt(s, c, r), k)

Late(s, u, z, c, r, k) ==
  /\ NoReset(s, u, k, c) =>
       /\ \A i : Latest(ResetsAt(z, c), k, i) => Latest(ResetsAt(s, c), Len(s), i) /\ z[i] = s[i]
       /\ Nothing(ResetsAt(z, c), k) => Nothing(ResetsAt(s, c), Len(s))
  /\ NoNews(s, u, k, c, r) =>
       /\ \A i : Latest(NewsAt(z, c, r), k, i) => Latest(NewsAt(s, c, r), Len(s), i) /\ z[i] = s[i]
       /\ Nothing(NewsAt(z, c, r), k) => Nothing(NewsAt(s, c, r), Len(s))
  /\ ~NoReset(s, u, k, c) =>
       /\ ~Nothing(ResetsAt(z, c), k)
       /\ \A i : Latest(ResetsAt(z, c), k, i) => \E j : Sent(s, u, z, k, i, j) /\ Resets(u[j], c)
  /\ ~NoNews(s, u, k, c, r) =>
       /\ ~Nothing(NewsAt(z, c, r), k)
       /\ \A i : Latest(NewsAt(z, c, r), k, i) =>
                   \E j : Sent(s, u, z, k, i, j) /\ (Resets(u[j], c) \/ Tells(u[j], c, r))

LEMMA CatFacts ==
  ASSUME NEW s \in Seq(Stanzas), NEW u \in Seq(Stanzas), NEW z, z = s \o u
  PROVE  /\ z \in Seq(Stanzas) /\ Len(s) \in Nat /\ Len(u) \in Nat /\ Len(z) = Len(s) + Len(u)
         /\ \A i \in 1..Len(s) : z[i] = s[i] /\ i \in 1..Len(z)
         /\ \A i \in 1..Len(u) : z[Len(s) + i] = u[i] /\ Len(s) + i \in 1..Len(z)
         /\ \A i \in 1..Len(z) : i \notin 1..Len(s) => i - Len(s) \in 1..Len(u) /\ Len(s) + (i - Len(s)) = i
<1>1. /\ z \in Seq(Stanzas) /\ Len(z) = Len(s) + Len(u)
      /\ \A i \in 1..Len(s) : z[i] = s[i]
      /\ \A i \in 1..Len(u) : z[Len(s) + i] = u[i]
  BY ConcatFacts
<1>2. Len(s) \in Nat /\ Len(u) \in Nat
  OBVIOUS
<1> QED BY <1>1, <1>2

LEMMA CatLast ==
  ASSUME NEW s \in Seq(Stanzas), NEW u \in Seq(Stanzas), NEW z, z = s \o u, NEW c, NEW r, NEW k \in Nat
  PROVE  /\ k <= Len(s) => Early(s, z, c, r, k)
         /\ k >= Len(s) /\ k <= Len(z) => Late(s, u, z, c, r, k)
<1> DEFINE P == ResetsAt(s, c)  Q == ResetsAt(z, c)
           M == NewsAt(s, c, r) N == NewsAt(z, c, r)
           n == Len(s)
<1>1. /\ z \in Seq(Stanzas) /\ n \in Nat /\ Len(u) \in Nat /\ Len(z) = n + Len(u)
      /\ \A i \in 1..n : z[i] = s[i] /\ i \in 1..Len(z)
      /\ \A i \in 1..Len(u) : z[n + i] = u[i] /\ n + i \in 1..Len(z)
      /\ \A i \in 1..Len(z) : i \notin 1..n => i - n \in 1..Len(u) /\ n + (i - n) = i
  BY CatFacts
<1>2. /\ P \in SUBSET (1..n) /\ M \in SUBSET (1..n)
      /\ \A i \in 1..n : /\ i \in P <=> Resets(s[i], c)
                         /\ i \in M <=> (Resets(s[i], c) \/ Tells(s[i], c, r))
  BY PlacesFacts
<1>3. /\ Q \in SUBSET (Nat \ {0}) /\ N \in SUBSET (Nat \ {0})
      /\ Q \in SUBSET (1..Len(z)) /\ N \in SUBSET (1..Len(z))
      /\ \A i \in 1..Len(z) : /\ i \in Q <=> Resets(z[i], c)
                              /\ i \in N <=> (Resets(z[i], c) \/ Tells(z[i], c, r))
  <2>1. z \in Seq(Stanzas)
    BY <1>1
  <2> QED BY <2>1, PlacesFacts
<1>4. (\A i \in 1..n : i \in P <=> i \in Q) /\ (\A i \in 1..n : i \in M <=> i \in N)
  BY <1>1, <1>2, <1>3
<1> HIDE DEF P, Q, M, N, n
<1>5. /\ k <= n => /\ \A i : Latest(Q, k, i) => Latest(P, k, i)
                   /\ Nothing(Q, k) => Nothing(P, k)
      /\ k >= n /\ (\A j \in Q : j > n => j > k) =>
           /\ \A i : Latest(Q, k, i) => Latest(P, n, i)
           /\ Nothing(Q, k) => Nothing(P, n)
      /\ \A j \in Q : n < j /\ j <= k =>
           /\ ~Nothing(Q, k)
           /\ \A i : Latest(Q, k, i) => i \in Nat /\ n < i /\ i <= k
  <2>1. n \in Nat /\ P \in SUBSET (1..n) /\ Q \in SUBSET (Nat \ {0}) /\ \A i \in 1..n : i \in P <=> i \in Q
    BY <1>1, <1>2, <1>3, <1>4
  <2>2. Extended(P, Q, n, k)
    BY <2>1, LatestExtend
  <2> QED BY <2>2 DEF Extended
<1>6. /\ k <= n => /\ \A i : Latest(N, k, i) => Latest(M, k, i)
                   /\ Nothing(N, k) => Nothing(M, k)
      /\ k >= n /\ (\A j \in N : j > n => j > k) =>
           /\ \A i : Latest(N, k, i) => Latest(M, n, i)
           /\ Nothing(N, k) => Nothing(M, n)
      /\ \A j \in N : n < j /\ j <= k =>
           /\ ~Nothing(N, k)
           /\ \A i : Latest(N, k, i) => i \in Nat /\ n < i /\ i <= k
  <2>1. n \in Nat /\ M \in SUBSET (1..n) /\ N \in SUBSET (Nat \ {0}) /\ \A i \in 1..n : i \in M <=> i \in N
    BY <1>1, <1>2, <1>3, <1>4
  <2>2. Extended(M, N, n, k)
    BY <2>1, LatestExtend
  <2> QED BY <2>2 DEF Extended
<1>7. \A m, i : (Latest(P, m, i) \/ Latest(M, m, i)) => z[i] = s[i]
  BY <1>1, <1>2 DEF Latest
<1>8. k <= n => Early(s, z, c, r, k)
  BY <1>5, <1>6, <1>7 DEF Early, P, Q, M, N
<1>9. ASSUME k >= n, k <= Len(z) PROVE Late(s, u, z, c, r, k)
  <2>1. NoReset(s, u, k, c) => \A j \in Q : j > n => j > k
    <3> SUFFICES ASSUME NoReset(s, u, k, c), NEW j \in Q, j > n, ~(j > k) PROVE FALSE
      OBVIOUS
    <3>1. j \in 1..Len(z) /\ j - n \in 1..Len(u) /\ n + (j - n) = j /\ Resets(z[j], c) /\ j <= k
      BY <1>1, <1>3, <1>9
    <3> QED BY <1>1, <3>1 DEF NoReset, n
  <2>2. NoNews(s, u, k, c, r) => \A j \in N : j > n => j > k
    <3> SUFFICES ASSUME NoNews(s, u, k, c, r), NEW j \in N, j > n, ~(j > k) PROVE FALSE
      OBVIOUS
    <3>1. j \in 1..Len(z) /\ (Resets(z[j], c) \/ Tells(z[j], c, r))
      BY <1>3
    <3>2. j - n \in 1..Len(u) /\ n + (j - n) = j /\ j <= k
      BY <1>1, <1>9, <3>1
    <3> QED BY <1>1, <3>1, <3>2 DEF NoNews, n
  <2>3. ASSUME ~NoReset(s, u, k, c) PROVE \E j \in Q : n < j /\ j <= k
    <3>1. PICK j \in 1..Len(u) : Len(s) + j <= k /\ Resets(u[j], c)
      BY <2>3 DEF NoReset
    <3>2. n + j \in 1..Len(z) /\ z[n + j] = u[j] /\ n < n + j /\ n + j <= k
      BY <1>1, <3>1 DEF n
    <3> QED BY <1>3, <3>1, <3>2
  <2>4. ASSUME ~NoNews(s, u, k, c, r) PROVE \E j \in N : n < j /\ j <= k
    <3>1. PICK j \in 1..Len(u) : Len(s) + j <= k /\ (Resets(u[j], c) \/ Tells(u[j], c, r))
      BY <2>4 DEF NoNews
    <3>2. n + j \in 1..Len(z) /\ z[n + j] = u[j] /\ n < n + j /\ n + j <= k
      BY <1>1, <3>1 DEF n
    <3> QED BY <1>3, <3>1, <3>2
  <2>5. ASSUME NEW i \in 1..Len(z), n < i, i <= k PROVE \E j : Sent(s, u, z, k, i, j) /\ u[j] = z[i]
    <3>1. i - n \in 1..Len(u) /\ n + (i - n) = i
      BY <1>1, <2>5
    <3>2. Sent(s, u, z, k, i, i - n) /\ u[i - n] = z[i]
      BY <1>1, <2>5, <3>1 DEF Sent, n
    <3> QED BY <3>2
  <2>6. ASSUME ~NoReset(s, u, k, c)
        PROVE  /\ ~Nothing(Q, k)
               /\ \A i : Latest(Q, k, i) => \E j : Sent(s, u, z, k, i, j) /\ Resets(u[j], c)
    <3>1. ~Nothing(Q, k) /\ \A i : Latest(Q, k, i) => i \in Nat /\ n < i /\ i <= k
      BY <1>5, <2>3, <2>6
    <3>2. ASSUME NEW i, Latest(Q, k, i) PROVE \E j : Sent(s, u, z, k, i, j) /\ Resets(u[j], c)
      <4>1. i \in 1..Len(z) /\ Resets(z[i], c) /\ n < i /\ i <= k
        BY <1>3, <3>1, <3>2 DEF Latest
      <4> QED BY <2>5, <4>1
    <3> QED BY <3>1, <3>2
  <2>7. ASSUME ~NoNews(s, u, k, c, r)
        PROVE  /\ ~Nothing(N, k)
               /\ \A i : Latest(N, k, i) =>
                    \E j : Sent(s, u, z, k, i, j) /\ (Resets(u[j], c) \/ Tells(u[j], c, r))
    <3>1. ~Nothing(N, k) /\ \A i : Latest(N, k, i) => i \in Nat /\ n < i /\ i <= k
      BY <1>6, <2>4, <2>7
    <3>2. ASSUME NEW i, Latest(N, k, i)
          PROVE  \E j : Sent(s, u, z, k, i, j) /\ (Resets(u[j], c) \/ Tells(u[j], c, r))
      <4>1. i \in 1..Len(z) /\ (Resets(z[i], c) \/ Tells(z[i], c, r)) /\ n < i /\ i <= k
        BY <1>3, <3>1, <3>2 DEF Latest
      <4> QED BY <2>5, <4>1
    <3> QED BY <3>1, <3>2
  <2>8. NoReset(s, u, k, c) =>
          /\ \A i : Latest(Q, k, i) => Latest(P, n, i) /\ z[i] = s[i]
          /\ Nothing(Q, k) => Nothing(P, n)
    BY <1>5, <1>7, <1>9, <2>1
  <2>9. NoNews(s, u, k, c, r) =>
          /\ \A i : Latest(N, k, i) => Latest(M, n, i) /\ z[i] = s[i]
          /\ Nothing(N, k) => Nothing(M, n)
    BY <1>6, <1>7, <1>9, <2>2
  <2> QED BY <2>6, <2>7, <2>8, <2>9 DEF Late, P, Q, M, N, n
<1> QED BY <1>8, <1>9 DEF n

\* Nothing changes about what was sent before.
LEMMA CatKeeps ==
  ASSUME NEW s \in Seq(Stanzas), NEW u \in Seq(Stanzas), NEW z, z = s \o u, NEW c, NEW r, NEW e
  PROVE  /\ Heard(s, c, e) => \A i \in 1..Len(s) : From(z[i], c) => Enrolled(z, i - 1, c, e)
         /\ Farewell(s, c, r, e) =>
              \A i \in 1..Len(s) : Tells(z[i], c, r) /\ z[i].show \in Away => Ready(z, i - 1, c, r, e)
<1>1. Len(s) \in Nat /\ \A i \in 1..Len(s) : z[i] = s[i] /\ i - 1 \in Nat /\ i - 1 <= Len(s)
  BY CatFacts
<1>2. ASSUME NEW i \in 1..Len(s) PROVE Early(s, z, c, r, i - 1)
  BY <1>1, CatLast
<1>3. ASSUME Heard(s, c, e), NEW i \in 1..Len(s), From(z[i], c) PROVE Enrolled(z, i - 1, c, e)
  <2>1. Enrolled(s, i - 1, c, e)
    BY <1>1, <1>3 DEF Heard
  <2> QED BY <1>2, <2>1 DEF Enrolled, Early
<1>4. ASSUME Farewell(s, c, r, e), NEW i \in 1..Len(s), Tells(z[i], c, r), z[i].show \in Away
      PROVE  Ready(z, i - 1, c, r, e)
  <2>1. Ready(s, i - 1, c, r, e)
    BY <1>1, <1>4 DEF Farewell
  <2> QED BY <1>2, <2>1 DEF Ready, Early
<1> QED BY <1>3, <1>4

\* What is sent resets the entry.
LEMMA SendReset ==
  ASSUME NEW s \in Seq(Stanzas), NEW m \in Stanzas, NEW z, z = s \o <<m>>, NEW c \in Contacts,
         NEW e, NEW set, NEW probe, NEW t, NEW on,
         Resets(m, c), Heard(s, c, e), \A r \in Resources : Farewell(s, c, r, e)
  PROVE  /\ Follows(z, c, e, Sub(m, c), set, probe, t, on)
         /\ \A r \in Resources : Ready(z, Len(z), c, r, e)
<1> DEFINE u == <<m>>
           n == Len(s)
<1>1. u \in Seq(Stanzas) /\ Len(u) = 1 /\ u[1] = m /\ z = s \o u
  OBVIOUS
<1> HIDE DEF u
<1>2. /\ z \in Seq(Stanzas) /\ n \in Nat /\ Len(z) = n + 1
      /\ \A i \in 1..n : z[i] = s[i]
      /\ z[n + 1] = m
      /\ \A i \in 1..Len(z) : i \notin 1..n => i = n + 1
  BY <1>1, CatFacts
<1>3. ASSUME NEW r
      PROVE  /\ ~Nothing(ResetsAt(z, c), Len(z)) /\ ~Nothing(NewsAt(z, c, r), Len(z))
             /\ \A i : Latest(ResetsAt(z, c), Len(z), i) => z[i] = m
             /\ \A i : Latest(NewsAt(z, c, r), Len(z), i) => z[i] = m
  <2>0. Len(z) \in Nat /\ Len(z) >= Len(s) /\ Len(z) <= Len(z)
    BY <1>2
  <2>1. Late(s, u, z, c, r, Len(z))
    BY <1>1, <2>0, CatLast
  <2>2. ~NoReset(s, u, Len(z), c) /\ ~NoNews(s, u, Len(z), c, r)
    BY <1>1, <1>2 DEF NoReset, NoNews
  <2>3. \A i, j : Sent(s, u, z, Len(z), i, j) => z[i] = m
    BY <1>1 DEF Sent
  <2> QED BY <2>1, <2>2, <2>3 DEF Late
<1>4. m.kind # "presence"
  BY DEF Resets
<1> HIDE DEF n
<1>5. Sequel(z, c, e, Sub(m, c), set)
  BY <1>3 DEF Sequel
<1>6. Heard(z, c, e)
  <2>1. \A i \in 1..n : From(z[i], c) => Enrolled(z, i - 1, c, e)
    BY <1>1, CatKeeps DEF n
  <2>2. ~From(z[n + 1], c)
    BY <1>2, <1>4 DEF From
  <2> QED BY <1>2, <2>1, <2>2 DEF Heard
<1>7. ASSUME NEW r \in Resources PROVE Farewell(z, c, r, e)
  <2>1. \A i \in 1..n : Tells(z[i], c, r) /\ z[i].show \in Away => Ready(z, i - 1, c, r, e)
    BY <1>1, CatKeeps DEF n
  <2>2. ~Tells(z[n + 1], c, r)
    BY <1>2, <1>4 DEF From, Tells
  <2> QED BY <1>2, <2>1, <2>2 DEF Farewell
<1>8. ASSUME NEW r \in Resources PROVE Ends(z, c, r, e, t /\ on[r] # Gone, on[r], probe)
  BY <1>3, <1>4 DEF Ends, Tells, From
<1>9. ASSUME NEW r \in Resources PROVE Ready(z, Len(z), c, r, e)
  BY <1>3 DEF Ready
<1> QED BY <1>5, <1>6, <1>7, <1>8, <1>9 DEF Follows

\* u does not tell of r, and nothing changes; or it tells the truth.
Silent(u, c, r, t, o, probe, t2, o2, probe2) ==
  /\ \A j \in 1..Len(u) : ~Tells(u[j], c, r)
  /\ t <=> t2
  /\ t2 => o2 = o /\ (probe => probe2)

Telling(u, c, r, t, o) ==
  /\ \E j \in 1..Len(u) : Tells(u[j], c, r)
  /\ \A j \in 1..Len(u) : Tells(u[j], c, r) => Fits(u[j], t, o)

\* At most one stanza tells of r.
Once(u, c, r) == \A i, j \in 1..Len(u) : Tells(u[i], c, r) /\ Tells(u[j], c, r) => i = j

Greeting(u, c, r) == \A j \in 1..Len(u) : Tells(u[j], c, r) => u[j].show \in Present

\* u may be sent: presences of the contact, as true as they can be, and what is
\* not about it.
Sendable(s, u, c, e, sub, probe, t, on, probe2, t2, on2) ==
  /\ \A j \in 1..Len(u) : ~Resets(u[j], c) /\ (From(u[j], c) => sub # "absent")
  /\ \A r \in Resources :
        \/ Silent(u, c, r, t /\ on[r] # Gone, on[r], probe, t2 /\ on2[r] # Gone, on2[r], probe2)
        \/ Telling(u, c, r, t2 /\ on2[r] # Gone, on2[r])
  /\ \A r \in Resources : Greeting(u, c, r) \/ (Once(u, c, r) /\ Ready(s, Len(s), c, r, e))

LEMMA SendNews ==
  ASSUME NEW s \in Seq(Stanzas), NEW u \in Seq(Stanzas), NEW z, z = s \o u, NEW c \in Contacts,
         NEW e, NEW sub, NEW set, NEW set2, NEW probe, NEW probe2, NEW t, NEW t2,
         NEW on, NEW on2,
         Follows(s, c, e, sub, set, probe, t, on), Leads(set, set2) \/ sub # "absent",
         Sendable(s, u, c, e, sub, probe, t, on, probe2, t2, on2)
  PROVE  Follows(z, c, e, sub, set2, probe2, t2, on2)
<1>0. /\ \A j \in 1..Len(u) : ~Resets(u[j], c) /\ (From(u[j], c) => sub # "absent")
      /\ \A r \in Resources :
            \/ Silent(u, c, r, t /\ on[r] # Gone, on[r], probe, t2 /\ on2[r] # Gone, on2[r], probe2)
            \/ Telling(u, c, r, t2 /\ on2[r] # Gone, on2[r])
      /\ \A r \in Resources : Greeting(u, c, r) \/ (Once(u, c, r) /\ Ready(s, Len(s), c, r, e))
  BY DEF Sendable
<1> DEFINE n == Len(s)
<1>1. /\ z \in Seq(Stanzas) /\ n \in Nat /\ Len(u) \in Nat /\ Len(z) = n + Len(u)
      /\ \A i \in 1..n : z[i] = s[i] /\ i \in 1..Len(z)
      /\ \A i \in 1..Len(u) : z[n + i] = u[i] /\ n + i \in 1..Len(z)
      /\ \A i \in 1..Len(z) : i \notin 1..n => i - n \in 1..Len(u) /\ n + (i - n) = i
  BY CatFacts
<1>2. \A k : NoReset(s, u, k, c)
  BY <1>0 DEF NoReset
<1>3. ASSUME NEW k \in Nat, k >= n, k <= Len(z), NEW r PROVE Late(s, u, z, c, r, k)
  BY <1>1, <1>3, CatLast
<1>4. Sequel(s, c, e, sub, set) /\ Heard(s, c, e)
  BY DEF Follows
<1>5. Sequel(z, c, e, sub, set2)
  <2>1. Late(s, u, z, c, 0, Len(z))
    BY <1>1, <1>3
  <2>2. \A q : Latest(ResetsAt(z, c), Len(z), q) => Sub(z[q], c) = sub
    BY <1>2, <1>4, <2>1 DEF Late, Sequel
  <2>3. ASSUME Nothing(ResetsAt(z, c), Len(z)) PROVE Agreed(z, c, e, sub, set2)
    <3>1. Agreed(s, c, e, sub, set)
      BY <1>2, <1>4, <2>1, <2>3 DEF Late, Sequel
    <3>2. sub = "absent" => \A i \in 1..Len(z) : (i \in 1..n /\ From(z[i], c)) => From(s[i], c)
      BY <1>1
    <3>3. sub = "absent" => \A i \in 1..Len(z) : i \notin 1..n => ~From(z[i], c)
      BY <1>0, <1>1
    <3> QED BY <3>1, <3>2, <3>3 DEF Agreed, n, Leads
  <2> QED BY <2>2, <2>3 DEF Sequel
<1>6. Heard(z, c, e)
  <2>1. \A i \in 1..n : From(z[i], c) => Enrolled(z, i - 1, c, e)
    BY <1>4, CatKeeps
  <2>2. ASSUME NEW i \in 1..Len(z), i \notin 1..n, From(z[i], c) PROVE Enrolled(z, i - 1, c, e)
    <3>1. sub # "absent"
      BY <1>0, <1>1, <2>2
    <3>2. i - 1 \in Nat /\ i - 1 >= n /\ i - 1 <= Len(z)
      BY <1>1, <2>2
    <3>3. Late(s, u, z, c, 0, i - 1)
      BY <1>3, <3>2
    <3>4. \A q : Latest(ResetsAt(z, c), i - 1, q) => Sub(z[q], c) # "absent"
      BY <1>2, <1>4, <3>1, <3>3 DEF Late, Sequel
    <3>5. Nothing(ResetsAt(z, c), i - 1) => Agreed(s, c, e, sub, set)
      BY <1>2, <1>4, <3>3 DEF Late, Sequel
    <3> QED BY <3>1, <3>4, <3>5 DEF Enrolled, Agreed
  <2> QED BY <2>1, <2>2 DEF Heard
<1>7. ASSUME NEW r \in Resources PROVE Farewell(z, c, r, e)
  <2>1. Farewell(s, c, r, e)
    BY DEF Follows
  <2>2. \A i \in 1..n : Tells(z[i], c, r) /\ z[i].show \in Away => Ready(z, i - 1, c, r, e)
    BY <2>1, CatKeeps
  <2>3. ASSUME NEW i \in 1..Len(z), i \notin 1..n, Tells(z[i], c, r), z[i].show \in Away
        PROVE  Ready(z, i - 1, c, r, e)
    <3>1. i - n \in 1..Len(u) /\ z[i] = u[i - n] /\ i - 1 \in Nat /\ i - 1 >= n /\ i - 1 <= Len(z)
      BY <1>1, <2>3
    <3>2. ~Greeting(u, c, r)
      BY <2>3, <3>1, ShowFacts DEF Greeting
    <3>3. Once(u, c, r) /\ Ready(s, n, c, r, e)
      BY <1>0, <3>2
    <3>4. NoNews(s, u, i - 1, c, r)
      <4> SUFFICES ASSUME NEW j \in 1..Len(u), n + j <= i - 1, Tells(u[j], c, r) PROVE FALSE
        BY <1>0 DEF NoNews
      <4>1. j = i - n
        BY <2>3, <3>1, <3>3 DEF Once
      <4> QED BY <1>1, <3>1, <4>1
    <3>5. Late(s, u, z, c, r, i - 1)
      BY <1>3, <3>1
    <3> QED BY <3>3, <3>4, <3>5 DEF Late, Ready
  <2> QED BY <2>2, <2>3 DEF Farewell
<1>8. ASSUME NEW r \in Resources PROVE Ends(z, c, r, e, t2 /\ on2[r] # Gone, on2[r], probe2)
  <2> DEFINE T == t /\ on[r] # Gone
             T2 == t2 /\ on2[r] # Gone
  <2>1. Ends(s, c, r, e, T, on[r], probe)
    BY DEF Follows
  <2>2. Late(s, u, z, c, r, Len(z))
    BY <1>1, <1>3
  <2>3. \/ Silent(u, c, r, T, on[r], probe, T2, on2[r], probe2)
        \/ Telling(u, c, r, T2, on2[r])
    BY <1>0
  <2> HIDE DEF T, T2
  <2>4. CASE Silent(u, c, r, T, on[r], probe, T2, on2[r], probe2)
    <3>1. NoNews(s, u, Len(z), c, r)
      BY <1>0, <2>4 DEF NoNews, Silent
    <3>2. \A x : Fits(x, T, on[r]) => Fits(x, T2, on2[r])
      BY <2>4 DEF Fits, Silent
    <3>3. \A q : Latest(NewsAt(z, c, r), Len(z), q) /\ Tells(z[q], c, r) => Fits(z[q], T2, on2[r])
      <4> SUFFICES ASSUME NEW q, Latest(NewsAt(z, c, r), Len(z), q), Tells(z[q], c, r)
                   PROVE  Fits(z[q], T2, on2[r])
        OBVIOUS
      <4>1. Latest(NewsAt(s, c, r), Len(s), q) /\ z[q] = s[q]
        BY <2>2, <3>1 DEF Late
      <4> QED BY <2>1, <3>2, <4>1 DEF Ends
    <3>4. Nothing(NewsAt(z, c, r), Len(z)) => Nothing(NewsAt(s, c, r), Len(s))
      BY <2>2, <3>1 DEF Late
    <3>5. Nothing(NewsAt(z, c, r), Len(z)) =>
            /\ \A x : Has(e, r, x) => Fits(x, T2, on2[r])
            /\ T2 => probe2 \/ \E x : Has(e, r, x)
      BY <2>1, <2>4, <3>2, <3>4 DEF Ends, Silent
    <3>6. Ends(z, c, r, e, T2, on2[r], probe2)
      BY <3>3, <3>5 DEF Ends
    <3> QED BY <3>6 DEF T2
  <2>5. CASE Telling(u, c, r, T2, on2[r])
    <3>1. ~NoNews(s, u, Len(z), c, r)
      <4>1. PICK j \in 1..Len(u) : Tells(u[j], c, r)
        BY <2>5 DEF Telling
      <4>2. Len(s) + j <= Len(z)
        BY <1>1
      <4> QED BY <4>1, <4>2 DEF NoNews
    <3>2. ~Nothing(NewsAt(z, c, r), Len(z))
      BY <2>2, <3>1 DEF Late
    <3>3. \A q : Latest(NewsAt(z, c, r), Len(z), q) => Fits(z[q], T2, on2[r])
      <4> SUFFICES ASSUME NEW q, Latest(NewsAt(z, c, r), Len(z), q) PROVE Fits(z[q], T2, on2[r])
        OBVIOUS
      <4>1. PICK j : Sent(s, u, z, Len(z), q, j) /\ (Resets(u[j], c) \/ Tells(u[j], c, r))
        BY <2>2, <3>1 DEF Late
      <4>2. j \in 1..Len(u) /\ z[q] = u[j]
        BY <4>1 DEF Sent
      <4>3. Tells(u[j], c, r)
        BY <1>0, <4>1, <4>2
      <4> QED BY <2>5, <4>2, <4>3 DEF Telling
    <3>4. Ends(z, c, r, e, T2, on2[r], probe2)
      BY <3>2, <3>3 DEF Ends
    <3> QED BY <3>4 DEF T2
  <2> QED BY <2>3, <2>4, <2>5
<1> QED BY <1>5, <1>6, <1>7, <1>8 DEF Follows

-----------------------------------------------------------------------------
(* Resources and the status shown. *)

LEMMA ConcatLens ==
  ASSUME NEW S, NEW a \in Seq(S), NEW b \in Seq(S), NEW z, z = a \o b, NEW n, n = Len(a)
  PROVE  /\ z \in Seq(S) /\ Len(z) = n + Len(b)
         /\ \A k \in 1..n : z[k] = a[k]
         /\ \A k \in 1..Len(b) : z[n + k] = b[k]
BY ConcatFacts

LEMMA FindFacts ==
  ASSUME NEW rs \in Seq(ResourceT), NEW name
  PROVE  LET i == ResourceFind(rs, name) IN
         \/ i = 0 /\ \A k \in 1..Len(rs) : rs[k].name # name
         \/ i \in 1..Len(rs) /\ i # 0 /\ rs[i].name = name
<1> DEFINE found == {i \in 1..Len(rs) : rs[i].name = name}
<1>1. CASE found = {}
  <2>1. ResourceFind(rs, name) = 0
    BY <1>1 DEF ResourceFind
  <2> QED BY <1>1, <2>1
<1>2. CASE found # {}
  <2>1. ResourceFind(rs, name) = Min(found)
    BY <1>2 DEF ResourceFind
  <2>2. found \in SUBSET Nat
    OBVIOUS
  <2> HIDE DEF found
  <2>3. Min(found) \in found
    BY <1>2, <2>2, MinIn
  <2>4. ResourceFind(rs, name) \in found
    BY <2>1, <2>3
  <2> QED BY <2>4 DEF found
<1> QED BY <1>1, <1>2

\* x is put in at place at.
PutIn(rs, z, at, x) ==
  /\ z \in Seq(ResourceT) /\ Len(z) = Len(rs) + 1 /\ at \in 1..Len(rs) + 1 /\ z[at] = x
  /\ \A k \in 1..Len(rs) : k < at => z[k] = rs[k]
  /\ \A k \in 1..Len(rs) : k >= at => z[k + 1] = rs[k]
  /\ \A k \in 1..Len(z) : k # at => \/ k < at /\ k \in 1..Len(rs) /\ z[k] = rs[k]
                                    \/ k > at /\ k - 1 \in 1..Len(rs) /\ z[k] = rs[k - 1]

LEMMA AddFacts ==
  ASSUME NEW rs \in Seq(ResourceT), NEW name \in Resources, NEW prio \in PrioT
  PROVE  \E at : PutIn(rs, ResourceAdd(rs, name, prio), at, [name |-> name, prio |-> prio, show |-> "na"])
<1> DEFINE x == [name |-> name, prio |-> prio, show |-> "na"]
           S == {i \in 1..Len(rs) : Before(x, rs[i])} \cup {Len(rs) + 1}
<1>1. x \in ResourceT
  BY ShowFacts DEF ResourceT, Statuses
<1>2. ResourceAdd(rs, name, prio) = InsertAt(rs, Min(S), x)
  BY DEF ResourceAdd
<1>3. Len(rs) \in Nat
  OBVIOUS
<1>4. S \in SUBSET Nat /\ S # {} /\ S \subseteq 1..Len(rs) + 1
  BY <1>3
<1> HIDE DEF x, S
<1>5. PICK at : at = Min(S)
  OBVIOUS
<1>6. at \in 1..Len(rs) + 1
  BY <1>4, <1>5, MinIn
<1> DEFINE a == SubSeq(rs, 1, at - 1)
           b == SubSeq(rs, at, Len(rs))
           z == (a \o <<x>>) \o b
<1>7. ResourceAdd(rs, name, prio) = z
  BY <1>2, <1>5 DEF InsertAt
<1>8. a \in Seq(ResourceT) /\ Len(a) = at - 1 /\ \A k \in 1..at - 1 : a[k] = rs[k]
  <2>1. \A k \in 1..at - 1 : rs[k] \in ResourceT
    BY <1>3, <1>6, ElementOfSeq
  <2>2. at - 1 \in Nat /\ 1 \in Int
    BY <1>6
  <2> QED BY <1>3, <1>6, <2>1, <2>2, SubSeqProperties
<1>9. b \in Seq(ResourceT) /\ Len(b) = Len(rs) - at + 1 /\ \A k \in 1..Len(b) : b[k] = rs[at + k - 1]
  <2>1. \A k \in at..Len(rs) : rs[k] \in ResourceT
    BY <1>3, <1>6, ElementOfSeq
  <2> QED BY <1>3, <1>6, <2>1, SubSeqProperties
<1> HIDE DEF a, b
<1>10. <<x>> \in Seq(ResourceT) /\ Len(<<x>>) = 1 /\ <<x>>[1] = x
  BY <1>1
<1> DEFINE w == a \o <<x>>
<1>11. w \in Seq(ResourceT) /\ Len(w) = at /\ (\A k \in 1..at - 1 : w[k] = rs[k]) /\ w[at] = x
  <2>1. /\ w \in Seq(ResourceT) /\ Len(w) = (at - 1) + Len(<<x>>)
        /\ \A k \in 1..at - 1 : w[k] = a[k]
        /\ \A k \in 1..Len(<<x>>) : w[(at - 1) + k] = <<x>>[k]
    BY <1>8, <1>10, ConcatLens
  <2> HIDE DEF w
  <2>2. 1 \in 1..Len(<<x>>) /\ (at - 1) + 1 = at
    BY <1>6, <1>10
  <2> QED BY <1>8, <1>10, <2>1, <2>2
<1>12. z = w \o b
  OBVIOUS
<1> HIDE DEF w, z
<1>17. /\ z \in Seq(ResourceT) /\ Len(z) = at + Len(b)
       /\ \A k \in 1..at : z[k] = w[k]
       /\ \A k \in 1..Len(b) : z[at + k] = b[k]
  <2>1. w \in Seq(ResourceT) /\ b \in Seq(ResourceT) /\ at = Len(w)
    BY <1>9, <1>11
  <2> QED BY <1>12, <2>1, ConcatLens
<1>13. /\ \A k \in 1..Len(rs) : k < at => z[k] = rs[k]
       /\ z[at] = x /\ Len(z) = Len(rs) + 1
  <2>1. at \in 1..at /\ Len(z) = Len(rs) + 1
    BY <1>3, <1>6, <1>9, <1>17
  <2>2. \A k \in 1..Len(rs) : k < at => k \in 1..at - 1 /\ k \in 1..at
    BY <1>3, <1>6
  <2> QED BY <1>11, <1>17, <2>1, <2>2
<1>14. ASSUME NEW k \in 1..Len(rs), k >= at PROVE z[k + 1] = rs[k]
  <2>1. k - at + 1 \in 1..Len(b) /\ at + (k - at + 1) = k + 1 /\ at + (k - at + 1) - 1 = k
    <3>1. k \in Int /\ at \in Int /\ Len(b) = Len(rs) - at + 1 /\ k <= Len(rs) /\ at <= k
      BY <1>6, <1>9, <1>14
    <3> QED BY <1>3, <3>1
  <2> QED BY <1>9, <1>17, <2>1
<1>15. ASSUME NEW k \in 1..Len(z), k # at
       PROVE  \/ k < at /\ k \in 1..Len(rs) /\ z[k] = rs[k]
              \/ k > at /\ k - 1 \in 1..Len(rs) /\ z[k] = rs[k - 1]
  <2>1. CASE k < at
    <3>1. k \in 1..Len(rs)
      BY <1>3, <1>6, <1>13, <2>1
    <3> QED BY <1>13, <2>1, <3>1
  <2>2. CASE k > at
    <3>1. k - 1 \in 1..Len(rs) /\ k - 1 >= at /\ (k - 1) + 1 = k
      BY <1>3, <1>6, <1>13, <2>2
    <3> QED BY <1>14, <2>2, <3>1
  <2> QED BY <1>6, <1>15, <2>1, <2>2
<1>16. PutIn(rs, z, at, x)
  BY <1>6, <1>17, <1>13, <1>14, <1>15 DEF PutIn
<1> QED BY <1>7, <1>16 DEF x, z

\* The one at place i is taken out.
TakenOut(rs, z, i) ==
  /\ z \in Seq(ResourceT) /\ Len(z) = Len(rs) - 1
  /\ \A k \in 1..Len(rs) : k < i => k \in 1..Len(z) /\ z[k] = rs[k]
  /\ \A k \in 1..Len(rs) : k > i => k - 1 \in 1..Len(z) /\ z[k - 1] = rs[k]
  /\ \A k \in 1..Len(z) : \/ k < i /\ k \in 1..Len(rs) /\ z[k] = rs[k]
                          \/ k >= i /\ k + 1 \in 1..Len(rs) /\ z[k] = rs[k + 1]

LEMMA RemoveFacts ==
  ASSUME NEW rs \in Seq(ResourceT), NEW i \in 1..Len(rs)
  PROVE  TakenOut(rs, RemoveAt(rs, i), i)
<1> DEFINE a == SubSeq(rs, 1, i - 1)
           b == SubSeq(rs, i + 1, Len(rs))
           z == a \o b
<1>1. RemoveAt(rs, i) = z
  BY DEF RemoveAt
<1>2. Len(rs) \in Nat
  OBVIOUS
<1>3. a \in Seq(ResourceT) /\ Len(a) = i - 1 /\ \A k \in 1..i - 1 : a[k] = rs[k]
  <2>1. \A k \in 1..i - 1 : rs[k] \in ResourceT
    BY <1>2, ElementOfSeq
  <2> QED BY <1>2, <2>1, SubSeqProperties
<1>4. b \in Seq(ResourceT) /\ Len(b) = Len(rs) - i /\ \A k \in 1..Len(b) : b[k] = rs[i + k]
  <2>1. \A k \in i + 1..Len(rs) : rs[k] \in ResourceT
    BY <1>2, ElementOfSeq
  <2>2. /\ b \in Seq(ResourceT) /\ Len(b) = (IF i + 1 <= Len(rs) THEN Len(rs) - (i + 1) + 1 ELSE 0)
        /\ \A k \in 1..Len(b) : b[k] = rs[(i + 1) + k - 1]
    BY <1>2, <2>1, SubSeqProperties
  <2> HIDE DEF b
  <2>3. Len(b) = Len(rs) - i
    BY <1>2, <2>2
  <2>4. \A k \in 1..Len(b) : (i + 1) + k - 1 = i + k
    BY <1>2, <2>3
  <2> QED BY <2>2, <2>3, <2>4
<1>10. z = a \o b
  OBVIOUS
<1> HIDE DEF a, b, z
<1>5. /\ z \in Seq(ResourceT) /\ Len(z) = (i - 1) + Len(b)
      /\ \A k \in 1..i - 1 : z[k] = a[k]
      /\ \A k \in 1..Len(b) : z[(i - 1) + k] = b[k]
  <2>1. a \in Seq(ResourceT) /\ b \in Seq(ResourceT) /\ i - 1 = Len(a)
    BY <1>3, <1>4
  <2>2. PICK n : n = i - 1
    OBVIOUS
  <2>3. /\ z \in Seq(ResourceT) /\ Len(z) = n + Len(b)
        /\ \A k \in 1..n : z[k] = a[k]
        /\ \A k \in 1..Len(b) : z[n + k] = b[k]
    BY <1>10, <2>1, <2>2, ConcatLens
  <2> QED BY <2>2, <2>3
<1>6. Len(z) = Len(rs) - 1
  BY <1>2, <1>4, <1>5
<1>7. ASSUME NEW k \in 1..Len(rs), k < i PROVE k \in 1..Len(z) /\ z[k] = rs[k]
  BY <1>2, <1>3, <1>5, <1>6, <1>7
<1>8. ASSUME NEW k \in 1..Len(rs), k > i PROVE k - 1 \in 1..Len(z) /\ z[k - 1] = rs[k]
  <2>1. k - i \in 1..Len(b) /\ (i - 1) + (k - i) = k - 1 /\ i + (k - i) = k
    BY <1>2, <1>4, <1>8
  <2>2. z[k - 1] = rs[k]
    BY <1>4, <1>5, <2>1
  <2> QED BY <1>2, <1>6, <1>8, <2>2
<1>9. ASSUME NEW k \in 1..Len(z)
      PROVE  \/ k < i /\ k \in 1..Len(rs) /\ z[k] = rs[k]
             \/ k >= i /\ k + 1 \in 1..Len(rs) /\ z[k] = rs[k + 1]
  <2>1. k \in 1..Len(rs) /\ k + 1 \in 1..Len(rs) /\ (k + 1) - 1 = k
    BY <1>2, <1>6
  <2>2. k + 1 > i => z[(k + 1) - 1] = rs[k + 1]
    BY <1>8, <2>1
  <2> QED BY <1>7, <2>1, <2>2
<1>11. TakenOut(rs, z, i)
  BY <1>5, <1>6, <1>7, <1>8, <1>9 DEF TakenOut
<1> QED BY <1>1, <1>11 DEF z

LEMMA ShowExcept ==
  ASSUME NEW rs \in Seq(ResourceT), NEW i \in 1..Len(rs), NEW show \in Statuses, NEW z, z = [rs EXCEPT ![i].show = show]
  PROVE  /\ z \in Seq(ResourceT) /\ Len(z) = Len(rs)
         /\ \A k \in 1..Len(rs) : k # i => z[k] = rs[k]
         /\ z[i] = [name |-> rs[i].name, prio |-> rs[i].prio, show |-> show]
<1>1. rs[i] \in ResourceT
  BY ElementOfSeq
<1>2. [rs[i] EXCEPT !.show = show] = [name |-> rs[i].name, prio |-> rs[i].prio, show |-> show]
  BY <1>1 DEF ResourceT
<1>3. [name |-> rs[i].name, prio |-> rs[i].prio, show |-> show] \in ResourceT
  BY <1>1 DEF ResourceT
<1>4. \A x \in ResourceT : /\ [rs EXCEPT ![i] = x] \in Seq(ResourceT) /\ Len([rs EXCEPT ![i] = x]) = Len(rs)
                           /\ \A k \in 1..Len(rs) : k # i => [rs EXCEPT ![i] = x][k] = rs[k]
                           /\ [rs EXCEPT ![i] = x][i] = x
  BY ExceptSeq
<1>5. z = [rs EXCEPT ![i] = [name |-> rs[i].name, prio |-> rs[i].prio, show |-> show]]
  BY <1>2
<1> QED BY <1>3, <1>4, <1>5

LEMMA PrioExcept ==
  ASSUME NEW rs \in Seq(ResourceT), NEW i \in 1..Len(rs), NEW prio \in PrioT, NEW z, z = [rs EXCEPT ![i].prio = prio]
  PROVE  /\ z \in Seq(ResourceT) /\ Len(z) = Len(rs)
         /\ \A k \in 1..Len(rs) : k # i => z[k] = rs[k]
         /\ z[i] = [name |-> rs[i].name, prio |-> prio, show |-> rs[i].show]
<1>1. rs[i] \in ResourceT
  BY ElementOfSeq
<1>2. [rs[i] EXCEPT !.prio = prio] = [name |-> rs[i].name, prio |-> prio, show |-> rs[i].show]
  BY <1>1 DEF ResourceT
<1>3. [name |-> rs[i].name, prio |-> prio, show |-> rs[i].show] \in ResourceT
  BY <1>1 DEF ResourceT
<1>4. \A x \in ResourceT : /\ [rs EXCEPT ![i] = x] \in Seq(ResourceT) /\ Len([rs EXCEPT ![i] = x]) = Len(rs)
                           /\ \A k \in 1..Len(rs) : k # i => [rs EXCEPT ![i] = x][k] = rs[k]
                           /\ [rs EXCEPT ![i] = x][i] = x
  BY ExceptSeq
<1>5. z = [rs EXCEPT ![i] = [name |-> rs[i].name, prio |-> prio, show |-> rs[i].show]]
  BY <1>2
<1> QED BY <1>3, <1>4, <1>5

\* A resource is added, as nobody has seen it yet, removed, or has another
\* priority.
Added(rs, z, m) ==
  \E i \in 1..Len(z) : z[i].name = m.res /\ z[i].prio = m.prio /\ z[i].show = "na"

Removed(rs, z, m) ==
  /\ m.show \in Away
  /\ \A k \in 1..Len(z) : z[k].name # m.res
  /\ \E i \in 1..Len(rs) : rs[i].name = m.res
  /\ \A k \in 1..Len(rs) : rs[k].name # m.res => \E j \in 1..Len(z) : z[j] = rs[k]

Changed(rs, z, m) ==
  /\ m.show \in Present /\ Len(z) = Len(rs)
  /\ \A k \in 1..Len(rs) : z[k].show = rs[k].show
  /\ \E i \in 1..Len(z) : z[i].name = m.res /\ z[i].prio = m.prio

OthersKept(rs, z, res) == \A r : r # res => \A x : In(z, r, x) <=> In(rs, r, x)

LEMMA AddedFacts ==
  ASSUME NEW rs \in Seq(ResourceT), Single(rs), NEW m \in Stanzas, m.kind = "presence", m.res \in Resources,
         \A k \in 1..Len(rs) : rs[k].name # m.res, NEW z, z = ResourceAdd(rs, m.res, m.prio)
  PROVE  z \in Seq(ResourceT) /\ Single(z) /\ OthersKept(rs, z, m.res) /\ Added(rs, z, m)
<1> DEFINE x == [name |-> m.res, prio |-> m.prio, show |-> "na"]
<1>1. m.prio \in PrioT
  BY StanzaFacts
<1>2. PICK at : PutIn(rs, z, at, x)
  BY <1>1, AddFacts
<1>3. x.name = m.res /\ x.prio = m.prio /\ x.show = "na"
  OBVIOUS
<1> HIDE DEF x
<1>4. /\ z \in Seq(ResourceT) /\ Len(rs) \in Nat /\ Len(z) = Len(rs) + 1 /\ at \in 1..Len(z) /\ z[at] = x
      /\ \A k \in 1..Len(rs) : k < at => z[k] = rs[k]
      /\ \A k \in 1..Len(rs) : k >= at => z[k + 1] = rs[k]
      /\ \A k \in 1..Len(z) : k # at => \/ k < at /\ k \in 1..Len(rs) /\ z[k] = rs[k]
                                        \/ k > at /\ k - 1 \in 1..Len(rs) /\ z[k] = rs[k - 1]
  BY <1>2 DEF PutIn
<1>5. Single(z)
  <2> SUFFICES ASSUME NEW i \in 1..Len(z), NEW j \in 1..Len(z), z[i].name = z[j].name PROVE i = j
    BY DEF Single
  <2>1. CASE i = at /\ j # at
    BY <1>3, <1>4, <2>1, ZenonT(40)
  <2>2. CASE i # at /\ j = at
    BY <1>3, <1>4, <2>2, ZenonT(40)
  <2>3. CASE i # at /\ j # at
    <3>1. PICK k \in 1..Len(rs) : z[i] = rs[k] /\ ((k = i /\ i < at) \/ (k = i - 1 /\ i > at))
      BY <1>4, <2>3
    <3>2. PICK l \in 1..Len(rs) : z[j] = rs[l] /\ ((l = j /\ j < at) \/ (l = j - 1 /\ j > at))
      BY <1>4, <2>3
    <3>3. k = l
      BY <3>1, <3>2 DEF Single
    <3> QED BY <1>4, <3>1, <3>2, <3>3
  <2> QED BY <2>1, <2>2, <2>3
<1>6. ASSUME NEW r, r # m.res, NEW y PROVE In(z, r, y) <=> In(rs, r, y)
  <2>1. ASSUME In(z, r, y) PROVE In(rs, r, y)
    <3>1. PICK k \in 1..Len(z) : z[k] = y /\ y.name = r
      BY <2>1 DEF In
    <3>2. k # at
      BY <1>3, <1>4, <1>6, <3>1
    <3> QED BY <1>4, <3>1, <3>2 DEF In
  <2>2. ASSUME In(rs, r, y) PROVE In(z, r, y)
    <3>1. PICK k \in 1..Len(rs) : rs[k] = y /\ y.name = r
      BY <2>2 DEF In
    <3>2. k \in 1..Len(z) /\ k + 1 \in 1..Len(z) /\ (k < at \/ k >= at)
      BY <1>4
    <3> QED BY <1>4, <3>1, <3>2 DEF In
  <2> QED BY <2>1, <2>2
<1>7. Added(rs, z, m)
  BY <1>3, <1>4 DEF Added
<1> QED BY <1>4, <1>5, <1>6, <1>7 DEF OthersKept

LEMMA RemovedFacts ==
  ASSUME NEW rs \in Seq(ResourceT), Single(rs), NEW m \in Stanzas, m.kind = "presence", m.show \in Away,
         NEW i \in 1..Len(rs), rs[i].name = m.res, NEW z, z = RemoveAt(rs, i)
  PROVE  z \in Seq(ResourceT) /\ Single(z) /\ OthersKept(rs, z, m.res) /\ Removed(rs, z, m)
<1>1. TakenOut(rs, z, i)
  BY RemoveFacts
<1>2. /\ z \in Seq(ResourceT) /\ Len(rs) \in Nat /\ Len(z) = Len(rs) - 1
      /\ \A k \in 1..Len(rs) : k < i => k \in 1..Len(z) /\ z[k] = rs[k]
      /\ \A k \in 1..Len(rs) : k > i => k - 1 \in 1..Len(z) /\ z[k - 1] = rs[k]
      /\ \A k \in 1..Len(z) : \/ k < i /\ k \in 1..Len(rs) /\ z[k] = rs[k]
                              \/ k >= i /\ k + 1 \in 1..Len(rs) /\ z[k] = rs[k + 1]
  BY <1>1 DEF TakenOut
<1>3. ASSUME NEW k \in 1..Len(rs), k # i PROVE \E j \in 1..Len(z) : z[j] = rs[k]
  <2>1. k < i \/ k > i
    BY <1>3
  <2> QED BY <1>2, <2>1
<1>4. ASSUME NEW k \in 1..Len(z)
      PROVE  \E j \in 1..Len(rs) : /\ j # i /\ z[k] = rs[j]
                                   /\ ((j = k /\ k < i) \/ (j = k + 1 /\ k >= i))
  <2>1. CASE k < i /\ k \in 1..Len(rs) /\ z[k] = rs[k]
    BY <2>1
  <2>2. CASE k >= i /\ k + 1 \in 1..Len(rs) /\ z[k] = rs[k + 1]
    <3>1. k + 1 # i
      BY <2>2
    <3> QED BY <2>2, <3>1
  <2> QED BY <1>2, <2>1, <2>2
<1>5. Single(z)
  <2> SUFFICES ASSUME NEW a \in 1..Len(z), NEW b \in 1..Len(z), z[a].name = z[b].name PROVE a = b
    BY DEF Single
  <2>1. PICK k \in 1..Len(rs) : z[a] = rs[k] /\ ((k = a /\ a < i) \/ (k = a + 1 /\ a >= i))
    BY <1>4
  <2>2. PICK l \in 1..Len(rs) : z[b] = rs[l] /\ ((l = b /\ b < i) \/ (l = b + 1 /\ b >= i))
    BY <1>4
  <2>3. k = l
    BY <2>1, <2>2 DEF Single
  <2> QED BY <1>2, <2>1, <2>2, <2>3
<1>6. \A k \in 1..Len(z) : z[k].name # m.res
  BY <1>4 DEF Single
<1>7. ASSUME NEW r, r # m.res, NEW y PROVE In(z, r, y) <=> In(rs, r, y)
  <2>1. In(z, r, y) => In(rs, r, y)
    BY <1>4 DEF In
  <2>2. ASSUME In(rs, r, y) PROVE In(z, r, y)
    <3>1. PICK k \in 1..Len(rs) : rs[k] = y /\ y.name = r
      BY <2>2 DEF In
    <3>2. k # i
      BY <1>7, <3>1
    <3> QED BY <1>3, <3>1, <3>2 DEF In
  <2> QED BY <2>1, <2>2
<1>8. Removed(rs, z, m)
  BY <1>3, <1>6 DEF Removed
<1> QED BY <1>2, <1>5, <1>7, <1>8 DEF OthersKept

\* A resource is replaced by another of the same name.
LEMMA ReplacedFacts ==
  ASSUME NEW rs \in Seq(ResourceT), Single(rs), NEW i \in 1..Len(rs), NEW z \in Seq(ResourceT),
         Len(z) = Len(rs), \A k \in 1..Len(rs) : k # i => z[k] = rs[k], z[i].name = rs[i].name
  PROVE  Single(z) /\ OthersKept(rs, z, rs[i].name)
<1>1. \A k \in 1..Len(rs) : z[k].name = rs[k].name
  OBVIOUS
<1>2. Single(z)
  BY <1>1 DEF Single
<1>3. ASSUME NEW r, r # rs[i].name, NEW y PROVE In(z, r, y) <=> In(rs, r, y)
  BY <1>3 DEF In
<1> QED BY <1>2, <1>3 DEF OthersKept

LEMMA ResourcesFacts ==
  ASSUME NEW rs \in Seq(ResourceT), Single(rs), NEW m \in Stanzas, m.kind = "presence", m.res \in Resources,
         NEW z, z = PresenceResources(rs, m)
  PROVE  /\ z \in Seq(ResourceT) /\ Single(z) /\ OthersKept(rs, z, m.res)
         /\ Added(rs, z, m) \/ Removed(rs, z, m) \/ Changed(rs, z, m)
<1>1. PICK i : i = ResourceFind(rs, m.res)
  OBVIOUS
<1>2. \/ i = 0 /\ \A k \in 1..Len(rs) : rs[k].name # m.res
      \/ i \in 1..Len(rs) /\ i # 0 /\ rs[i].name = m.res
  BY <1>1, FindFacts
<1>3. z = IF i = 0 THEN ResourceAdd(rs, m.res, m.prio)
          ELSE IF m.show \in Away THEN RemoveAt(rs, i) ELSE [rs EXCEPT ![i].prio = m.prio]
  BY <1>1 DEF PresenceResources
<1>4. CASE i = 0
  <2>1. z = ResourceAdd(rs, m.res, m.prio) /\ \A k \in 1..Len(rs) : rs[k].name # m.res
    BY <1>2, <1>3, <1>4
  <2> QED BY <2>1, AddedFacts
<1>5. CASE i # 0 /\ m.show \in Away
  <2>1. z = RemoveAt(rs, i) /\ i \in 1..Len(rs) /\ rs[i].name = m.res
    BY <1>2, <1>3, <1>5
  <2> QED BY <1>5, <2>1, RemovedFacts
<1>6. CASE i # 0 /\ m.show \notin Away
  <2>1. z = [rs EXCEPT ![i].prio = m.prio] /\ i \in 1..Len(rs) /\ rs[i].name = m.res
    BY <1>2, <1>3, <1>6
  <2>2. m.prio \in PrioT /\ m.show \in Present
    BY <1>6, StanzaFacts
  <2>3. /\ z \in Seq(ResourceT) /\ Len(z) = Len(rs)
        /\ \A k \in 1..Len(rs) : k # i => z[k] = rs[k]
        /\ z[i] = [name |-> rs[i].name, prio |-> m.prio, show |-> rs[i].show]
    BY <2>1, <2>2, PrioExcept
  <2>4. z[i].name = rs[i].name /\ z[i].prio = m.prio /\ z[i].show = rs[i].show
    BY <2>3
  <2>5. Single(z) /\ OthersKept(rs, z, m.res)
    <3>1. Single(z) /\ OthersKept(rs, z, rs[i].name)
      BY <2>1, <2>3, <2>4, ReplacedFacts
    <3> QED BY <2>1, <3>1
  <2>6. Changed(rs, z, m)
    BY <2>1, <2>2, <2>3, <2>4 DEF Changed
  <2> QED BY <2>3, <2>5, <2>6
<1> QED BY <1>4, <1>5, <1>6

\* What protocol_status() makes of entry e, whose resource res, at place i, or
\* none, has the show that came.
StatusGiven(e, e2, i, show) ==
  /\ e2 \in EntryT /\ e2.auth = e.auth
  /\ Len(e2.resources) = Len(e.resources)
  /\ \A k \in 1..Len(e.resources) : k # i => e2.resources[k] = e.resources[k]
  /\ i # 0 => e2.resources[i] = [name |-> e.resources[i].name, prio |-> e.resources[i].prio, show |-> show]
  /\ \/ e2.status = Shown(e2.resources, show)
     \/ e2 = e /\ show = IF i = 0 THEN e.status ELSE e.resources[i].show

LEMMA EntryFacts ==
  ASSUME NEW auth \in BOOLEAN, NEW status \in Statuses, NEW rs \in Seq(ResourceT), NEW e, e = Entry(auth, status, rs)
  PROVE  e \in EntryT /\ e.there /\ e.auth = auth /\ e.status = status /\ e.resources = rs
BY DEF Entry, EntryT

LEMMA ShownFacts ==
  ASSUME NEW rs \in Seq(ResourceT), NEW show \in Statuses
  PROVE  Shown(rs, show) \in Statuses /\ (rs = << >> => Shown(rs, show) = show)
         /\ (rs # << >> => Shown(rs, show) = rs[1].show)
<1>1. rs # << >> => rs[1] \in ResourceT
  <2>1. rs # << >> => 1 \in 1..Len(rs)
    BY EmptySeq
  <2> QED BY <2>1, ElementOfSeq
<1>2. rs # << >> => rs[1].show \in Statuses
  BY <1>1 DEF ResourceT
<1> QED BY <1>2 DEF Shown

LEMMA StatusFacts ==
  ASSUME NEW e \in EntryT, NEW res, NEW show \in Statuses, NEW i, i = ResourceFind(e.resources, res)
  PROVE  StatusGiven(e, ProtocolStatus(e, res, show), i, show)
<1> DEFINE rs == e.resources
           st == IF i = 0 THEN e.status ELSE e.resources[i].show
           z  == IF i = 0 THEN e.resources ELSE [e.resources EXCEPT ![i].show = show]
           e2 == ProtocolStatus(e, res, show)
<1>1. rs \in Seq(ResourceT) /\ e.auth \in BOOLEAN /\ e.there
  BY DEF EntryT
<1>2. (i = 0 \/ i \in 1..Len(rs)) /\ (i # 0 => i \in 1..Len(rs))
  BY <1>1, FindFacts
<1>3. e2 = IF show = st THEN e ELSE Entry(e.auth, Shown(z, show), z)
  BY DEF ProtocolStatus
<1>4. /\ z \in Seq(ResourceT) /\ Len(z) = Len(rs)
      /\ \A k \in 1..Len(rs) : k # i => z[k] = rs[k]
      /\ i # 0 => z[i] = [name |-> rs[i].name, prio |-> rs[i].prio, show |-> show]
  <2>1. CASE i = 0
    BY <1>1, <2>1
  <2>2. CASE i # 0
    <3>1. z = [rs EXCEPT ![i].show = show] /\ i \in 1..Len(rs)
      BY <1>2, <2>2
    <3> HIDE DEF z
    <3> QED BY <1>1, <3>1, ShowExcept
  <2> QED BY <2>1, <2>2
<1> HIDE DEF z, e2
<1>5. CASE show = st
  <2>1. e2 = e
    BY <1>3, <1>5
  <2>2. i # 0 => rs[i] = [name |-> rs[i].name, prio |-> rs[i].prio, show |-> show]
    <3>1. i # 0 => rs[i] \in ResourceT /\ rs[i].show = show
      BY <1>1, <1>2, <1>5, ElementOfSeq
    <3> QED BY <3>1 DEF ResourceT
  <2>3. StatusGiven(e, e2, i, show)
    BY <1>5, <2>1, <2>2 DEF StatusGiven
  <2> QED BY <2>3 DEF e2
<1>6. CASE show # st
  <2>1. e2 = Entry(e.auth, Shown(z, show), z)
    BY <1>3, <1>6
  <2>2. e2 \in EntryT /\ e2.auth = e.auth /\ e2.status = Shown(z, show) /\ e2.resources = z
    <3>1. Shown(z, show) \in Statuses
      BY <1>4, ShownFacts
    <3> QED BY <1>1, <1>4, <2>1, <3>1, EntryFacts
  <2>3. StatusGiven(e, e2, i, show)
    BY <1>4, <2>2 DEF StatusGiven
  <2> QED BY <2>3 DEF e2
<1> QED BY <1>5, <1>6

\* An entry is sound when its status was given anew.
LEMMA GivenSound ==
  ASSUME NEW e \in EntryT, NEW show \in Statuses, Single(e.resources), e.status = Shown(e.resources, show),
         e.resources = << >> => show \in NotHere
  PROVE  EntrySound(e)
<1>1. e.resources \in Seq(ResourceT)
  BY DEF EntryT
<1> QED BY <1>1, ShownFacts DEF EntrySound

LEMMA ResourceTFacts ==
  ASSUME NEW rs \in Seq(ResourceT), NEW i \in 1..Len(rs)
  PROVE  rs[i].name \in Resources /\ rs[i].prio \in PrioT /\ rs[i].show \in Statuses
<1>1. rs[i] \in ResourceT
  BY ElementOfSeq
<1> QED BY <1>1 DEF ResourceT

LEMMA HandleFacts ==
  ASSUME NEW e \in EntryT, EntrySound(e), NEW m \in Stanzas, m.kind = "presence",
         m.show \in Away => \A x : Has(e, m.res, x) => x.show \in Present
  PROVE  LET e2 == HandlePresence(e, m) IN e2 \in EntryT /\ EntrySound(e2) /\ Effect(e, m, e2)
<1> DEFINE rs == e.resources
           show == IF m.show \in Away /\ ~e.auth THEN "unknown" ELSE m.show
           z == IF m.res = Bare THEN e.resources ELSE PresenceResources(e.resources, m)
           e1 == [e EXCEPT !.resources = z]
           e2 == HandlePresence(e, m)
<1>1. /\ rs \in Seq(ResourceT) /\ e.auth \in BOOLEAN /\ e.there /\ e.status \in Statuses /\ Single(rs)
  BY DEF EntryT, EntrySound
<1>2. /\ m.res \in Resources \cup {Bare} /\ m.show \in Present \cup Away /\ (m.res = Bare => m.show \in Away)
      /\ m.prio \in PrioT
  BY StanzaFacts
<1>3. /\ show \in Statuses
      /\ m.show \in Present => show = m.show
      /\ m.show \notin Present => m.show \in Away /\ show \in NotHere
  BY <1>2, ShowFacts DEF Statuses
<1>4. /\ z \in Seq(ResourceT) /\ Single(z)
      /\ m.res # Bare => OthersKept(rs, z, m.res) /\ (Added(rs, z, m) \/ Removed(rs, z, m) \/ Changed(rs, z, m))
      /\ m.res = Bare => z = rs
  <2>1. CASE m.res = Bare
    BY <1>1, <2>1
  <2>2. CASE m.res # Bare
    <3>1. z = PresenceResources(rs, m) /\ m.res \in Resources
      BY <1>2, <2>2
    <3> HIDE DEF z
    <3>2. /\ z \in Seq(ResourceT) /\ Single(z) /\ OthersKept(rs, z, m.res)
          /\ Added(rs, z, m) \/ Removed(rs, z, m) \/ Changed(rs, z, m)
      BY <1>1, <3>1, ResourcesFacts
    <3> QED BY <2>2, <3>2
  <2> QED BY <2>1, <2>2
<1>5. e2 = ProtocolStatus(e1, m.res, show)
  BY DEF HandlePresence
<1> HIDE DEF show, z, e2
<1>6. e1 \in EntryT /\ e1.there /\ e1.auth = e.auth /\ e1.status = e.status /\ e1.resources = z
  BY <1>4 DEF EntryT
<1> HIDE DEF e1
<1>7. PICK i : i = ResourceFind(z, m.res)
  OBVIOUS
<1>8. \/ i = 0 /\ \A k \in 1..Len(z) : z[k].name # m.res
      \/ i \in 1..Len(z) /\ i # 0 /\ z[i].name = m.res
  BY <1>4, <1>7, FindFacts
<1>9. StatusGiven(e1, e2, i, show)
  BY <1>3, <1>5, <1>6, <1>7, StatusFacts
<1>10. PICK w : w = e2.resources
  OBVIOUS
<1>11. /\ e2 \in EntryT /\ e2.auth = e.auth /\ Len(w) = Len(z)
       /\ \A k \in 1..Len(z) : k # i => w[k] = z[k]
       /\ i # 0 => w[i].name = z[i].name /\ w[i].prio = z[i].prio /\ w[i].show = show
       /\ \/ e2.status = Shown(w, show)
          \/ e2.status = e.status /\ w = z /\ show = IF i = 0 THEN e.status ELSE z[i].show
  BY <1>6, <1>9, <1>10 DEF StatusGiven
<1>12. w \in Seq(ResourceT) /\ e2.there
  BY <1>10, <1>11 DEF EntryT
<1>13. \A k \in 1..Len(z) : w[k].name = z[k].name
  BY <1>8, <1>11
<1>14. Single(w)
  BY <1>4, <1>11, <1>13 DEF Single
<1>15. \A r : r # m.res => \A x : In(w, r, x) <=> In(z, r, x)
  <2> SUFFICES ASSUME NEW r, r # m.res, NEW x PROVE In(w, r, x) <=> In(z, r, x)
    OBVIOUS
  <2>1. \A k \in 1..Len(z) : z[k].name = r => k # i
    BY <1>8
  <2> QED BY <1>11, <1>13, <2>1 DEF In
<1>16. Effect(e, m, e2)
  <2>1. \A r \in Resources : r # m.res => \A x : Has(e2, r, x) <=> Has(e, r, x)
    <3> SUFFICES ASSUME NEW r \in Resources, r # m.res, NEW x PROVE In(w, r, x) <=> In(rs, r, x)
      BY <1>1, <1>10, <1>12 DEF Has
    <3>1. In(z, r, x) <=> In(rs, r, x)
      BY <1>4 DEF OthersKept
    <3> QED BY <1>15, <3>1
  <2>2. ASSUME NEW x, Has(e2, m.res, x)
        PROVE  IF m.show \in Present THEN x.prio = m.prio /\ x.show = m.show ELSE x.show \in NotHere
    <3>1. PICK k \in 1..Len(w) : w[k] = x /\ x.name = m.res
      BY <1>10, <2>2 DEF Has, In
    <3>2. k = i /\ i # 0 /\ x.show = show /\ x.prio = z[i].prio /\ i \in 1..Len(z)
      BY <1>4, <1>8, <1>11, <1>13, <3>1 DEF Single
    <3>3. m.show \in Present => z[i].prio = m.prio
      <4>1. CASE m.res = Bare
        BY <1>2, <4>1, ShowFacts
      <4>2. CASE m.res # Bare
        BY <1>4, <1>8, <3>2, <4>2, ShowFacts DEF Added, Removed, Changed, Single
      <4> QED BY <4>1, <4>2
    <3> QED BY <1>3, <3>2, <3>3
  <2>3. ASSUME m.show \in Present, m.res \in Resources PROVE \E x : Has(e2, m.res, x)
    <3>1. m.res # Bare
      BY <2>3, ShowFacts
    <3>2. \E k \in 1..Len(z) : z[k].name = m.res
      BY <1>4, <2>3, <3>1, ShowFacts DEF Added, Removed, Changed
    <3>3. PICK k \in 1..Len(z) : w[k].name = m.res
      BY <1>13, <3>2
    <3> QED BY <1>10, <1>11, <1>12, <3>3 DEF Has, In
  <2> QED BY <1>11, <1>12, <2>1, <2>2, <2>3 DEF Effect
<1>17. EntrySound(e2)
  <2>1. CASE e2.status = Shown(w, show)
    <3>1. w = << >> => show \in NotHere
      <4>1. ASSUME w = << >>, m.show \in Present PROVE FALSE
        <5>1. Len(w) = 0 /\ Len(z) = 0
          BY <1>11, <4>1
        <5>2. m.res # Bare
          BY <1>2, <4>1, ShowFacts
        <5> QED BY <1>4, <4>1, <5>1, <5>2, ShowFacts DEF Added, Removed, Changed
      <4> QED BY <1>3, <4>1
    <3> QED BY <1>3, <1>10, <1>11, <1>14, <2>1, <3>1, GivenSound
  <2>2. CASE e2.status = e.status /\ w = z /\ show = IF i = 0 THEN e.status ELSE z[i].show
    <3>1. (z = << >> => e.status \in NotHere) /\ (z # << >> /\ AllHere(z) => e.status = z[1].show)
      <4>1. CASE m.res = Bare
        BY <1>4, <4>1 DEF EntrySound
      <4>2. CASE m.res # Bare /\ Added(rs, z, m)
        <5>1. z # << >> /\ ~AllHere(z)
          BY <4>2, ShowFacts DEF Added, AllHere
        <5> QED BY <5>1
      <4>3. CASE m.res # Bare /\ Removed(rs, z, m)
        <5>1. i = 0 /\ m.show \in Away /\ e.status \in NotHere
          BY <1>3, <1>8, <2>2, <4>3, ShowFacts DEF Removed
        <5>2. ASSUME AllHere(z) PROVE AllHere(rs)
          <6> SUFFICES ASSUME NEW k \in 1..Len(rs) PROVE rs[k].show \in Present
            BY DEF AllHere
          <6>1. CASE rs[k].name = m.res
            <7>1. Has(e, m.res, rs[k])
              BY <1>1, <6>1 DEF Has, In
            <7> QED BY <5>1, <7>1
          <6>2. CASE rs[k].name # m.res
            BY <4>3, <5>2, <6>2 DEF Removed, AllHere
          <6> QED BY <6>1, <6>2
        <5>3. rs # << >>
          BY <4>3 DEF Removed
        <5>4. ~AllHere(rs)
          <6> SUFFICES ASSUME AllHere(rs) PROVE FALSE
            OBVIOUS
          <6>1. e.status = rs[1].show
            BY <5>3 DEF EntrySound
          <6>2. 1 \in 1..Len(rs)
            BY <1>1, <5>3, EmptySeq
          <6> QED BY <5>1, <6>1, <6>2, ShowFacts DEF AllHere
        <5> QED BY <5>1, <5>2, <5>4
      <4>4. CASE m.res # Bare /\ Changed(rs, z, m)
        <5>1. Len(z) = Len(rs) /\ Len(z) # 0 /\ (\A k \in 1..Len(rs) : z[k].show = rs[k].show)
          BY <4>4 DEF Changed
        <5>2. rs # << >> /\ z # << >> /\ 1 \in 1..Len(rs)
          BY <1>1, <5>1, EmptySeq
        <5>3. AllHere(z) => AllHere(rs)
          BY <5>1 DEF AllHere
        <5> QED BY <5>1, <5>2, <5>3 DEF EntrySound
      <4> QED BY <1>4, <4>1, <4>2, <4>3, <4>4
    <3> QED BY <1>4, <1>10, <2>2, <3>1 DEF EntrySound
  <2> QED BY <1>11, <2>1, <2>2
<1> QED BY <1>11, <1>16, <1>17 DEF e2

-----------------------------------------------------------------------------
(* The invariant. *)

Waits(o, kind, c) == \E i \in 1..Len(o) : o[i].kind = kind /\ o[i].contact = c

PresenceTyped ==
  /\ link \in {"down", "roster", "up"}
  /\ userlist \in [Contacts -> Entries] /\ \A c \in Contacts : userlist[c].there => EntrySound(userlist[c])
  /\ stream \in Seq(Stanzas) /\ out \in Seq(Requests)
  /\ Len(stream) <= MaxStream /\ Len(out) <= MaxOut
  /\ roster \in [Contacts -> Subs] /\ online \in [Contacts -> [Resources -> OnlineT]]
  /\ asked \in BOOLEAN /\ told \in BOOLEAN

\* The roster is asked for, and comes before everything else.
Phases ==
  /\ told => asked
  /\ ~asked => stream = << >>
  /\ ~told => \A i \in 1..Len(stream) : stream[i].kind # "presence"
  /\ \A i \in 2..Len(stream) : stream[i].kind # "roster"
  /\ link = "down" => ~asked /\ out = << >>
  /\ link = "roster" => /\ ~told /\ \A c \in Contacts : userlist[c] = NoEntry
                        /\ IF asked THEN out = << >> /\ stream # << >> /\ stream[1].kind = "roster"
                           ELSE out = <<[kind |-> "get"]>>
  /\ link = "up" => /\ asked /\ \A i \in 1..Len(out) : out[i].kind # "get"
                    /\ \A i \in 1..Len(stream) : stream[i].kind # "roster"

Contact(c) ==
  Follows(stream, c, userlist[c], roster[c], Waits(out, "set", c), Waits(out, "probe", c), Sees(c), online[c])

PresenceInv == PresenceTyped /\ Phases /\ (asked => \A c \in Contacts : Contact(c))

-----------------------------------------------------------------------------
(* One contact. *)

\* The contact has an entry when its presence comes.
LEMMA HeadFacts ==
  ASSUME NEW s \in Seq(Stanzas), s # << >>, NEW c \in Contacts, NEW e, NEW sub, NEW set, NEW probe, NEW t, NEW on,
         Follows(s, c, e, sub, set, probe, t, on), From(s[1], c)
  PROVE  e.there /\ (s[1].show \in Away /\ s[1].res \in Resources =>
                       \A x : Has(e, s[1].res, x) => x.show \in Present)
<1>1. 1 \in 1..Len(s) /\ 1 - 1 = 0
  BY TailFacts
<1>2. Nothing(ResetsAt(s, c), 0) /\ \A r : Nothing(NewsAt(s, c, r), 0)
  BY DEF Nothing, ResetsAt, NewsAt
<1>3. Enrolled(s, 0, c, e)
  BY <1>1 DEF Follows, Heard
<1>4. ASSUME s[1].show \in Away, s[1].res \in Resources PROVE Ready(s, 0, c, s[1].res, e)
  <2>1. Farewell(s, c, s[1].res, e) /\ Tells(s[1], c, s[1].res)
    BY <1>4 DEF Follows, Tells
  <2> QED BY <1>1, <1>4, <2>1 DEF Farewell
<1> QED BY <1>2, <1>3, <1>4 DEF Enrolled, Ready

\* /add of a contact without an entry.
LEMMA NewFollows ==
  ASSUME NEW s \in Seq(Stanzas), NEW c \in Contacts, NEW e, NEW sub, NEW set, NEW probe, NEW t, NEW on, NEW probe2,
         Follows(s, c, e, sub, set, probe, t, on), ~e.there, Leads(probe, probe2)
  PROVE  Follows(s, c, NewEntry, sub, TRUE, probe2, t, on)
<1>1. NewEntry.there /\ \A r, x : ~Has(NewEntry, r, x) /\ ~Has(e, r, x)
  BY DEF NewEntry, Entry, Has, In
<1>2. Sequel(s, c, e, sub, set) /\ Heard(s, c, e)
  BY DEF Follows
<1>3. Sequel(s, c, NewEntry, sub, TRUE)
  <2>1. ASSUME Nothing(ResetsAt(s, c), Len(s)) PROVE Agreed(s, c, NewEntry, sub, TRUE)
    <3>1. Agreed(s, c, e, sub, set)
      BY <1>2, <2>1 DEF Sequel
    <3>2. sub = "absent"
      BY <1>1, <3>1 DEF Agreed
    <3>3. ASSUME NEW i \in 1..Len(s), From(s[i], c) PROVE FALSE
      <4>1. Enrolled(s, i - 1, c, e)
        BY <1>2, <3>3 DEF Heard
      <4>2. Nothing(ResetsAt(s, c), i - 1)
        <5>1. \A j \in ResetsAt(s, c) : j \in 1..Len(s)
          BY DEF ResetsAt
        <5>2. \A j \in 1..Len(s) : ~(j > Len(s))
          OBVIOUS
        <5> QED BY <2>1, <5>1, <5>2 DEF Nothing
      <4> QED BY <4>1, <4>2 DEF Enrolled
    <3> QED BY <3>2, <3>3 DEF Agreed
  <2> QED BY <1>2, <2>1 DEF Sequel
<1>4. Heard(s, c, NewEntry)
  BY <1>1, <1>2 DEF Heard, Enrolled
<1>5. ASSUME NEW r \in Resources PROVE Farewell(s, c, r, NewEntry)
  <2>1. Farewell(s, c, r, e)
    BY DEF Follows
  <2> QED BY <1>1, <2>1 DEF Farewell, Ready
<1>6. ASSUME NEW r \in Resources PROVE Ends(s, c, r, NewEntry, t /\ on[r] # Gone, on[r], probe2)
  <2>1. Ends(s, c, r, e, t /\ on[r] # Gone, on[r], probe)
    BY DEF Follows
  <2> QED BY <1>1, <2>1 DEF Ends, Leads
<1> QED BY <1>3, <1>4, <1>5, <1>6 DEF Follows

\* What is sent is not about the contact.
LEMMA SendOther ==
  ASSUME NEW s \in Seq(Stanzas), NEW u \in Seq(Stanzas), NEW z, z = s \o u, NEW c \in Contacts,
         NEW e, NEW sub, NEW set, NEW set2, NEW probe, NEW probe2, NEW t, NEW on,
         Follows(s, c, e, sub, set, probe, t, on), Leads(set, set2), Leads(probe, probe2),
         \A j \in 1..Len(u) : ~Resets(u[j], c) /\ ~From(u[j], c)
  PROVE  Follows(z, c, e, sub, set2, probe2, t, on)
<1>1. \A r : \A j \in 1..Len(u) : ~Tells(u[j], c, r)
  BY DEF Tells
<1>2. \A r \in Resources : Silent(u, c, r, t /\ on[r] # Gone, on[r], probe, t /\ on[r] # Gone, on[r], probe2)
  BY <1>1 DEF Silent, Leads
<1>3. \A r \in Resources : Greeting(u, c, r)
  BY <1>1 DEF Greeting
<1>4. Leads(set, set2) \/ sub # "absent"
  OBVIOUS
<1>5. \A j \in 1..Len(u) : ~Resets(u[j], c) /\ (From(u[j], c) => sub # "absent")
  OBVIOUS
<1>6. Sendable(s, u, c, e, sub, probe, t, on, probe2, t, on)
  BY <1>2, <1>3, <1>5 DEF Sendable
<1> QED BY <1>4, <1>6, SendNews

\* Nothing is sent.
LEMMA Stays ==
  ASSUME NEW s \in Seq(Stanzas), NEW c \in Contacts,
         NEW e, NEW sub, NEW set, NEW set2, NEW probe, NEW probe2, NEW t, NEW on,
         Follows(s, c, e, sub, set, probe, t, on), Leads(set, set2), Leads(probe, probe2)
  PROVE  Follows(s, c, e, sub, set2, probe2, t, on)
<1>1. PICK u : u = << >>
  OBVIOUS
<1>2. u \in Seq(Stanzas) /\ s = s \o u /\ \A j \in 1..Len(u) : ~Resets(u[j], c) /\ ~From(u[j], c)
  BY <1>1, ConcatEmptySeq
<1> QED BY <1>2, SendOther

LEMMA WaitsFacts ==
  ASSUME NEW o \in Seq(Requests), NEW kind, NEW c
  PROVE  /\ \A a \in Requests : /\ Append(o, a) \in Seq(Requests)
                                /\ Waits(o, kind, c) => Waits(Append(o, a), kind, c)
                                /\ a.kind = kind /\ a.contact = c => Waits(Append(o, a), kind, c)
         /\ o # << >> => /\ Tail(o) \in Seq(Requests)
                         /\ o[1] \in Requests
                         /\ \A i \in 1..Len(Tail(o)) : i + 1 \in 1..Len(o) /\ Tail(o)[i] = o[i + 1]
                         /\ Waits(o, kind, c) => (o[1].kind = kind /\ o[1].contact = c) \/ Waits(Tail(o), kind, c)
<1>1. ASSUME NEW a \in Requests
      PROVE  /\ Append(o, a) \in Seq(Requests)
             /\ Waits(o, kind, c) => Waits(Append(o, a), kind, c)
             /\ a.kind = kind /\ a.contact = c => Waits(Append(o, a), kind, c)
  <2>1. /\ Append(o, a) \in Seq(Requests) /\ Len(Append(o, a)) = Len(o) + 1
        /\ \A i \in 1..Len(o) : Append(o, a)[i] = o[i] /\ i \in 1..Len(o) + 1
        /\ Append(o, a)[Len(o) + 1] = a /\ Len(o) + 1 \in 1..Len(o) + 1
    OBVIOUS
  <2> QED BY <2>1 DEF Waits
<1>2. ASSUME o # << >>
      PROVE  /\ Tail(o) \in Seq(Requests)
             /\ o[1] \in Requests
             /\ \A i \in 1..Len(Tail(o)) : i + 1 \in 1..Len(o) /\ Tail(o)[i] = o[i + 1]
             /\ Waits(o, kind, c) => (o[1].kind = kind /\ o[1].contact = c) \/ Waits(Tail(o), kind, c)
  <2>1. /\ Len(o) \in Nat \ {0} /\ o[1] \in Requests /\ Tail(o) \in Seq(Requests) /\ Len(Tail(o)) = Len(o) - 1
        /\ \A i \in 1..Len(Tail(o)) : Tail(o)[i] = o[i + 1]
    <3>1. Len(o) \in Nat \ {0}
      BY <1>2, EmptySeq
    <3>2. o[1] \in Requests
      BY <3>1, ElementOfSeq
    <3> QED BY <1>2, <3>1, <3>2, HeadTailProperties
  <2>2. \A i \in 1..Len(Tail(o)) : i + 1 \in 1..Len(o)
    BY <2>1
  <2>3. \A i \in 1..Len(o) : i = 1 \/ (i - 1 \in 1..Len(Tail(o)) /\ Tail(o)[i - 1] = o[i])
    BY <2>1
  <2> QED BY <2>1, <2>2, <2>3 DEF Waits
<1> QED BY <1>1, <1>2

LEMMA RequestFacts ==
  /\ [kind |-> "get"] \in Requests /\ [kind |-> "presence"] \in Requests
  /\ \A c \in Contacts : /\ [kind |-> "set", contact |-> c] \in Requests
                         /\ [kind |-> "remove", contact |-> c] \in Requests
                         /\ [kind |-> "probe", contact |-> c] \in Requests
  /\ \A a \in Requests : a.kind \in {"probe", "set", "remove"} => a.contact \in Contacts
  /\ \A a \in Requests : a.kind \in {"get", "presence", "probe", "set", "remove"}
BY DEF Requests

-----------------------------------------------------------------------------
(* What the server sends. *)

LEMMA OnlineFacts ==
  ASSUME PresenceTyped, NEW c \in Contacts, NEW r \in Resources
  PROVE  /\ r \in Here(c) <=> online[c][r] # Gone
         /\ online[c][r] # Gone => online[c][r].prio \in Prios /\ online[c][r].show \in Present
         /\ online[c] \in [Resources -> OnlineT]
<1>1. online[c] \in [Resources -> OnlineT] /\ online[c][r] \in OnlineT
  BY DEF PresenceTyped
<1> QED BY <1>1 DEF Here, OnlineT

LEMMA PresenceStanza ==
  ASSUME NEW c \in Contacts, NEW r \in Resources, NEW prio \in PrioT, NEW show \in Present \cup Away
  PROVE  LET m == [kind |-> "presence", contact |-> c, res |-> r, prio |-> prio, show |-> show] IN
         m \in Stanzas /\ m.kind = "presence" /\ m.contact = c /\ m.res = r /\ m.prio = prio /\ m.show = show
BY DEF Stanzas

LEMMA PushStanza ==
  ASSUME NEW c \in Contacts, NEW sub \in Subs
  PROVE  /\ Push(c, sub) \in Stanzas /\ Push(c, sub).kind = "push" /\ Push(c, sub).contact = c
         /\ Push(c, sub).sub = sub /\ Sub(Push(c, sub), c) = sub /\ Resets(Push(c, sub), c)
         /\ \A d : d # c => ~Resets(Push(c, sub), d) /\ ~From(Push(c, sub), d)
         /\ ~From(Push(c, sub), c)
BY DEF Push, Stanzas, Sub, Resets, From

LEMMA OneStanza ==
  ASSUME NEW m \in Stanzas
  PROVE  <<m>> \in Seq(Stanzas) /\ Len(<<m>>) = 1 /\ <<m>>[1] = m /\ \A j \in 1..1 : j = 1
OBVIOUS

LEMMA FromResourceFacts ==
  ASSUME PresenceTyped, NEW c \in Contacts, NEW r \in Here(c)
  PROVE  LET m == FromResource(c, r) IN
         /\ m \in Stanzas /\ m.kind = "presence" /\ m.contact = c /\ m.res = r
         /\ m.prio = online[c][r].prio /\ m.show = online[c][r].show /\ m.show \in Present
<1>1. r \in Resources /\ online[c][r].prio \in PrioT /\ online[c][r].show \in Present
  BY OnlineFacts DEF Here, PrioT
<1> QED BY <1>1, PresenceStanza DEF FromResource

LEMMA UnavailableFacts ==
  ASSUME NEW c \in Contacts, NEW show \in Away
  PROVE  /\ \A r \in Resources \cup {Bare} :
              LET m == Unavailable(c, r, show) IN
              m \in Stanzas /\ m.kind = "presence" /\ m.contact = c /\ m.res = r /\ m.show = show
BY DEF Unavailable, Stanzas, PrioT

\* u tells of the resources that are there, once of each, and of nobody else.
Speaks(u, c) ==
  /\ u \in Seq(Stanzas)
  /\ \A j \in 1..Len(u) : u[j].kind = "presence" /\ u[j].contact = c /\ u[j].res \in Here(c)
  /\ \A r \in Here(c) : \E j \in 1..Len(u) : u[j].res = r
  /\ \A r : Once(u, c, r)

LEMMA SpeaksFacts ==
  ASSUME PresenceTyped, NEW c \in Contacts, NEW say,
         say \in [Here(c) -> Stanzas],
         \A r \in Here(c) : say[r].kind = "presence" /\ say[r].contact = c /\ say[r].res = r
  PROVE  LET u == SetToSeq({say[r] : r \in Here(c)}) IN
         Speaks(u, c) /\ \A j \in 1..Len(u) : u[j] = say[u[j].res]
<1> DEFINE H == Here(c)
           S == {say[r] : r \in H}
           u == SetToSeq(S)
<1>1. IsFiniteSet(H)
  BY PresenceAssumption, FS_Subset DEF Here
<1> HIDE DEF H
<1>2. say \in Surjection(H, S)
  BY DEF Surjection, H
<1>3. IsFiniteSet(S)
  BY <1>1, <1>2, FS_Surjection
<1>4. S \subseteq Stanzas /\ (\A m \in S : \E r \in H : m = say[r]) /\ \A r \in H : say[r] \in S
  BY DEF H
<1> HIDE DEF S
<1>5. /\ u \in Seq(S)
      /\ \A i \in 1..Len(u) : u[i] \in S
      /\ \A i, j \in 1..Len(u) : u[i] = u[j] => i = j
      /\ \A x \in S : \E i \in 1..Len(u) : u[i] = x
  BY <1>3, SetToSeqFacts
<1> HIDE DEF u
<1>6. u \in Seq(Stanzas)
  BY <1>4, <1>5
<1>7. \A r \in H : say[r].kind = "presence" /\ say[r].contact = c /\ say[r].res = r
  BY DEF H
<1>8. \A j \in 1..Len(u) : u[j].kind = "presence" /\ u[j].contact = c /\ u[j].res \in H /\ u[j] = say[u[j].res]
  <2> SUFFICES ASSUME NEW j \in 1..Len(u)
               PROVE  u[j].kind = "presence" /\ u[j].contact = c /\ u[j].res \in H /\ u[j] = say[u[j].res]
    OBVIOUS
  <2>1. PICK r \in H : u[j] = say[r]
    BY <1>4, <1>5
  <2> QED BY <1>7, <2>1
<1>9. \A r \in H : \E j \in 1..Len(u) : u[j].res = r
  BY <1>4, <1>5, <1>7
<1>10. \A r : Once(u, c, r)
  <2> SUFFICES ASSUME NEW r, NEW i \in 1..Len(u), NEW j \in 1..Len(u), u[i].res = r, u[j].res = r
               PROVE  i = j
    BY DEF Once, Tells
  <2>1. u[i] = u[j]
    BY <1>8
  <2> QED BY <1>5, <2>1
<1> QED BY <1>6, <1>8, <1>9, <1>10 DEF Speaks, u, S, H

LEMMA PresencesFacts ==
  ASSUME PresenceTyped, NEW c \in Contacts
  PROVE  /\ Speaks(Presences(c), c)
         /\ \A j \in 1..Len(Presences(c)) : Presences(c)[j] = FromResource(c, Presences(c)[j].res)
<1> DEFINE say == [r \in Here(c) |-> FromResource(c, r)]
<1>1. \A r \in Here(c) : FromResource(c, r) \in Stanzas /\ FromResource(c, r).kind = "presence"
                         /\ FromResource(c, r).contact = c /\ FromResource(c, r).res = r
  BY FromResourceFacts
<1>2. PICK f : f = say
  OBVIOUS
<1>3. f \in [Here(c) -> Stanzas] /\ \A r \in Here(c) : f[r] = FromResource(c, r)
  BY <1>1, <1>2
<1>4. {f[r] : r \in Here(c)} = {FromResource(c, r) : r \in Here(c)}
  BY <1>3
<1>5. \A r \in Here(c) : f[r].kind = "presence" /\ f[r].contact = c /\ f[r].res = r
  BY <1>1, <1>3
<1> HIDE DEF say
<1>6. Speaks(Presences(c), c) /\ \A j \in 1..Len(Presences(c)) : Presences(c)[j] = f[Presences(c)[j].res]
  BY <1>3, <1>4, <1>5, SpeaksFacts DEF Presences
<1> QED BY <1>3, <1>6 DEF Speaks

\* What is sent for a contact that lets us see it no longer.
Unavailables(c) == SetToSeq({Unavailable(c, r, "na") : r \in Here(c)})

LEMMA UnavailablesFacts ==
  ASSUME PresenceTyped, NEW c \in Contacts
  PROVE  /\ Speaks(Unavailables(c), c)
         /\ \A j \in 1..Len(Unavailables(c)) : Unavailables(c)[j].show = "na"
<1> DEFINE say == [r \in Here(c) |-> Unavailable(c, r, "na")]
<1>1. \A r \in Here(c) : LET m == Unavailable(c, r, "na") IN
        m \in Stanzas /\ m.kind = "presence" /\ m.contact = c /\ m.res = r /\ m.show = "na"
  <2>1. "na" \in Away /\ Here(c) \subseteq Resources \cup {Bare}
    BY PresenceAssumption DEF Here
  <2> QED BY <2>1, UnavailableFacts
<1>2. PICK f : f = say
  OBVIOUS
<1>3. f \in [Here(c) -> Stanzas] /\ \A r \in Here(c) : f[r] = Unavailable(c, r, "na")
  BY <1>1, <1>2
<1>4. {f[r] : r \in Here(c)} = {Unavailable(c, r, "na") : r \in Here(c)}
  BY <1>3
<1>5. \A r \in Here(c) : f[r].kind = "presence" /\ f[r].contact = c /\ f[r].res = r /\ f[r].show = "na"
  BY <1>1, <1>3
<1> HIDE DEF say
<1>6. Speaks(Unavailables(c), c) /\ \A j \in 1..Len(Unavailables(c)) : Unavailables(c)[j] = f[Unavailables(c)[j].res]
  BY <1>3, <1>4, <1>5, SpeaksFacts DEF Unavailables
<1> QED BY <1>5, <1>6 DEF Speaks

-----------------------------------------------------------------------------
(* Presences that are sent. *)

\* u tells of all that are there of the contacts cs, and of nobody else.
Reports(u, cs) ==
  /\ u \in Seq(Stanzas)
  /\ \A j \in 1..Len(u) : /\ u[j].kind = "presence" /\ u[j].contact \in cs
                          /\ u[j].res \in Here(u[j].contact)
                          /\ u[j] = FromResource(u[j].contact, u[j].res)
  /\ \A d \in cs : \A r \in Here(d) : \E j \in 1..Len(u) : u[j].contact = d /\ u[j].res = r

LEMMA PresencesReport ==
  ASSUME PresenceTyped, NEW c \in Contacts
  PROVE  Reports(Presences(c), {c})
BY PresencesFacts DEF Reports, Speaks

LEMMA FlatReport ==
  ASSUME PresenceTyped, NEW cs \in SUBSET Contacts
  PROVE  Reports(FlattenSeq(SetToSeq({Presences(c) : c \in cs})), cs)
<1> DEFINE S == {Presences(c) : c \in cs}
           q == SetToSeq(S)
           u == FlattenSeq(q)
<1>1. IsFiniteSet(cs)
  BY PresenceAssumption, FS_Subset
<1>2. PICK f : f = [c \in cs |-> Presences(c)]
  OBVIOUS
<1>3. f \in Surjection(cs, S)
  BY <1>2 DEF Surjection
<1>4. IsFiniteSet(S)
  BY <1>1, <1>3, FS_Surjection
<1>5. /\ \A c \in cs : Reports(Presences(c), {c}) /\ Presences(c) \in S
      /\ \A x \in S : \E c \in cs : x = Presences(c)
  BY PresencesReport
<1>6. S \subseteq Seq(Stanzas)
  BY <1>5 DEF Reports
<1> HIDE DEF S
<1>7. /\ q \in Seq(S)
      /\ \A i \in 1..Len(q) : q[i] \in S
      /\ \A x \in S : \E i \in 1..Len(q) : q[i] = x
  BY <1>4, SetToSeqFacts
<1> HIDE DEF q
<1>8. q \in Seq(Seq(Stanzas))
  BY <1>6, <1>7
<1>9. /\ u \in Seq(Stanzas)
      /\ \A k \in 1..Len(u) : \E j \in 1..Len(q) : \E i \in 1..Len(q[j]) : u[k] = q[j][i]
      /\ \A j \in 1..Len(q) : \A i \in 1..Len(q[j]) : \E k \in 1..Len(u) : u[k] = q[j][i]
  BY <1>8, FlattenElements
<1> HIDE DEF u
<1>10. ASSUME NEW k \in 1..Len(u)
       PROVE  /\ u[k].kind = "presence" /\ u[k].contact \in cs
              /\ u[k].res \in Here(u[k].contact)
              /\ u[k] = FromResource(u[k].contact, u[k].res)
  <2>1. PICK j \in 1..Len(q) : \E i \in 1..Len(q[j]) : u[k] = q[j][i]
    BY <1>9
  <2>2. PICK c \in cs : q[j] = Presences(c)
    BY <1>5, <1>7
  <2>3. Reports(q[j], {c})
    BY <1>5, <2>2
  <2>4. PICK i \in 1..Len(q[j]) : u[k] = q[j][i]
    BY <2>1
  <2> QED BY <2>3, <2>4 DEF Reports
<1>11. ASSUME NEW d \in cs, NEW r \in Here(d) PROVE \E k \in 1..Len(u) : u[k].contact = d /\ u[k].res = r
  <2>1. Reports(Presences(d), {d}) /\ Presences(d) \in S
    BY <1>5
  <2>2. PICK j \in 1..Len(q) : q[j] = Presences(d)
    BY <1>7, <2>1
  <2>3. PICK i \in 1..Len(q[j]) : q[j][i].contact = d /\ q[j][i].res = r
    BY <2>1, <2>2 DEF Reports
  <2> QED BY <1>9, <2>3
<1> QED BY <1>9, <1>10, <1>11 DEF Reports, u, q, S

\* Contact c is one of those, or nothing changes for it.
Reported(cs, c, sub, t, t2, probe, probe2) ==
  IF c \in cs THEN sub # "absent" /\ t2 ELSE (t <=> t2) /\ (probe => probe2)

LEMMA ReportsSendable ==
  ASSUME PresenceTyped, NEW cs \in SUBSET Contacts, NEW u, Reports(u, cs), NEW c \in Contacts,
         NEW s, NEW e, NEW sub, NEW probe, NEW probe2, NEW t, NEW t2,
         Reported(cs, c, sub, t, t2, probe, probe2)
  PROVE  Sendable(s, u, c, e, sub, probe, t, online[c], probe2, t2, online[c])
<1>1. ASSUME NEW j \in 1..Len(u)
      PROVE  /\ ~Resets(u[j], c)
             /\ From(u[j], c) => /\ c \in cs /\ u[j].res \in Here(c) /\ u[j].show \in Present
                                 /\ u[j].prio = online[c][u[j].res].prio
                                 /\ u[j].show = online[c][u[j].res].show
  <2>1. u[j].contact \in Contacts /\ u[j].res \in Here(u[j].contact) /\ u[j].kind = "presence" /\ u[j].contact \in cs
    BY DEF Reports
  <2>2. PICK d, r : d = u[j].contact /\ r = u[j].res /\ u[j] = FromResource(d, r)
    BY DEF Reports
  <2>3. d \in Contacts /\ r \in Here(d)
    BY <2>1, <2>2
  <2>4. u[j].prio = online[d][r].prio /\ u[j].show = online[d][r].show /\ u[j].show \in Present
    BY <2>2, <2>3, FromResourceFacts
  <2> QED BY <2>1, <2>2, <2>4 DEF Resets, From
<1>2. \A r \in Resources : Greeting(u, c, r)
  BY <1>1 DEF Greeting, Tells
<1>3. \A j \in 1..Len(u) : ~Resets(u[j], c) /\ (From(u[j], c) => sub # "absent")
  BY <1>1 DEF Reported
<1>4. ASSUME NEW r \in Resources
      PROVE  \/ Silent(u, c, r, t /\ online[c][r] # Gone, online[c][r], probe, t2 /\ online[c][r] # Gone, online[c][r], probe2)
             \/ Telling(u, c, r, t2 /\ online[c][r] # Gone, online[c][r])
  <2>1. r \in Here(c) <=> online[c][r] # Gone
    BY OnlineFacts
  <2>2. CASE c \in cs /\ r \in Here(c)
    <3>1. \E j \in 1..Len(u) : u[j].contact = c /\ u[j].res = r
      BY <2>2 DEF Reports
    <3>2. \E j \in 1..Len(u) : Tells(u[j], c, r)
      BY <3>1 DEF Reports, Tells, From
    <3>3. ASSUME NEW j \in 1..Len(u), Tells(u[j], c, r)
          PROVE  u[j].prio = online[c][r].prio /\ u[j].show = online[c][r].show
      <4>1. From(u[j], c) /\ u[j].res = r
        BY <3>3 DEF Tells
      <4> QED BY <1>1, <4>1
    <3>4. t2 /\ online[c][r] # Gone
      BY <2>1, <2>2 DEF Reported
    <3> QED BY <3>2, <3>3, <3>4 DEF Telling, Fits
  <2>3. CASE ~(c \in cs /\ r \in Here(c))
    <3>1. \A j \in 1..Len(u) : ~Tells(u[j], c, r)
      BY <1>1, <2>3 DEF Tells
    <3>2. (t /\ online[c][r] # Gone) <=> (t2 /\ online[c][r] # Gone)
      BY <2>1, <2>3 DEF Reported
    <3>3. t2 /\ online[c][r] # Gone => (probe => probe2)
      BY <2>1, <2>3 DEF Reported
    <3> QED BY <3>1, <3>2, <3>3 DEF Silent
  <2> QED BY <2>2, <2>3
<1> QED BY <1>2, <1>3, <1>4 DEF Sendable

\* Nothing is sent of the resources of a contact that we do not see, or that
\* is not there.
Muted(u, c, sub, t, on, t2, on2) ==
  /\ \A j \in 1..Len(u) : ~Resets(u[j], c) /\ (From(u[j], c) => sub # "absent")
  /\ \A r \in Resources : /\ \A j \in 1..Len(u) : ~Tells(u[j], c, r)
                          /\ ~(t /\ on[r] # Gone) /\ ~(t2 /\ on2[r] # Gone)

LEMMA MutedSendable ==
  ASSUME NEW u, NEW c, NEW s, NEW e, NEW sub, NEW probe, NEW probe2, NEW t, NEW t2, NEW on, NEW on2,
         Muted(u, c, sub, t, on, t2, on2)
  PROVE  Sendable(s, u, c, e, sub, probe, t, on, probe2, t2, on2)
<1>1. \A r \in Resources : Greeting(u, c, r)
  BY DEF Muted, Greeting
<1>2. \A r \in Resources : Silent(u, c, r, t /\ on[r] # Gone, on[r], probe, t2 /\ on2[r] # Gone, on2[r], probe2)
  BY DEF Muted, Silent
<1>3. \A j \in 1..Len(u) : ~Resets(u[j], c) /\ (From(u[j], c) => sub # "absent")
  BY DEF Muted
<1> QED BY <1>1, <1>2, <1>3 DEF Sendable

\* A resource that we saw may leave.
LEMMA MayLeave ==
  ASSUME NEW s, NEW c, NEW r, NEW e, NEW t, NEW o, NEW probe, Ends(s, c, r, e, t, o, probe), Leads(TRUE, t),
         o.show \in Present
  PROVE  Ready(s, Len(s), c, r, e)
<1>1. \A x : Fits(x, t, o) => x.show \in Present
  BY DEF Fits, Leads
<1>2. ASSUME NEW q, Latest(NewsAt(s, c, r), Len(s), q) PROVE Resets(s[q], c) \/ s[q].show \in Present
  <2>1. Resets(s[q], c) \/ Tells(s[q], c, r)
    BY <1>2 DEF Latest, NewsAt
  <2> QED BY <1>1, <1>2, <2>1 DEF Ends
<1>3. Nothing(NewsAt(s, c, r), Len(s)) => \A x : Has(e, r, x) => x.show \in Present
  BY <1>1 DEF Ends
<1> QED BY <1>2, <1>3 DEF Ready

-----------------------------------------------------------------------------
(* The steps of the program. *)

LEMMA NewEntries ==
  /\ NoEntry \in Entries /\ ~NoEntry.there /\ Renewed(NoEntry, "absent")
  /\ NewEntry \in EntryT /\ EntrySound(NewEntry)
  /\ \A sub \in Subs \ {"absent"} : /\ ItemEntry(sub) \in EntryT /\ EntrySound(ItemEntry(sub))
                                    /\ Renewed(ItemEntry(sub), sub)
<1>1. NoEntry \in Entries /\ ~NoEntry.there /\ Renewed(NoEntry, "absent")
  BY DEF Entries, NoEntry, Renewed, Has
<1>2. \A a \in BOOLEAN, st \in NotHere :
        Entry(a, st, << >>) \in EntryT /\ EntrySound(Entry(a, st, << >>)) /\ Entry(a, st, << >>).there
        /\ Entry(a, st, << >>).auth = a /\ \A r, x : ~Has(Entry(a, st, << >>), r, x)
  BY DEF Entry, EntryT, EntrySound, Single, Statuses, Has, In
<1>3. "na" \in NotHere /\ "unknown" \in NotHere
  BY PresenceAssumption DEF NotHere
<1> QED BY <1>1, <1>2, <1>3 DEF NewEntry, ItemEntry, Subs, Renewed

LEMMA EntryIs ==
  ASSUME PresenceTyped, NEW c \in Contacts
  PROVE  /\ userlist[c].there <=> userlist[c] \in EntryT
         /\ userlist[c].there => EntrySound(userlist[c])
         /\ ~userlist[c].there => userlist[c] = NoEntry
<1>1. userlist[c] \in Entries /\ (userlist[c].there => EntrySound(userlist[c]))
  BY DEF PresenceTyped
<1>2. PICK e : e = userlist[c]
  OBVIOUS
<1>3. (\A x \in EntryT : x.there) /\ ~NoEntry.there
  BY DEF EntryT, NoEntry
<1>4. e \in EntryT \/ e = NoEntry
  BY <1>1, <1>2 DEF Entries
<1>5. e.there <=> e \in EntryT
  BY <1>3, <1>4
<1> QED BY <1>1, <1>2, <1>4, <1>5

LEMMA StreamFacts ==
  ASSUME PresenceTyped, stream # << >>
  PROVE  /\ Tail(stream) \in Seq(Stanzas) /\ stream[1] \in Stanzas /\ Len(Tail(stream)) <= MaxStream
         /\ 1 \in 1..Len(stream)
         /\ \A i \in 1..Len(Tail(stream)) : Tail(stream)[i] = stream[i + 1] /\ i + 1 \in 1..Len(stream) /\ i + 1 \in 2..Len(stream)
         /\ \A i \in 2..Len(Tail(stream)) : Tail(stream)[i] = stream[i + 1] /\ i + 1 \in 2..Len(stream)
<1>1. stream \in Seq(Stanzas) /\ Len(stream) <= MaxStream /\ MaxStream \in Nat
  BY PresenceAssumption DEF PresenceTyped
<1> QED BY <1>1, TailFacts

LEMMA OutFacts ==
  ASSUME PresenceTyped
  PROVE  /\ Len(out) \in Nat
         /\ \A a \in Requests : Append(out, a) \in Seq(Requests) /\ Len(Append(out, a)) = Len(out) + 1
                                /\ \A i \in 1..Len(Append(out, a)) : (i \in 1..Len(out) /\ Append(out, a)[i] = out[i]) \/ Append(out, a)[i] = a
         /\ out # << >> => /\ Tail(out) \in Seq(Requests) /\ Len(Tail(out)) <= MaxOut /\ out[1] \in Requests /\ 1 \in 1..Len(out)
                           /\ \A i \in 1..Len(Tail(out)) : i + 1 \in 1..Len(out) /\ Tail(out)[i] = out[i + 1]
<1>1. out \in Seq(Requests) /\ Len(out) <= MaxOut /\ MaxOut \in Nat
  BY PresenceAssumption DEF PresenceTyped
<1>2. out # << >> => Len(out) \in Nat \ {0}
  BY <1>1, EmptySeq
<1>3. out # << >> => /\ Tail(out) \in Seq(Requests) /\ Len(Tail(out)) = Len(out) - 1 /\ out[1] \in Requests
                     /\ \A i \in 1..Len(Tail(out)) : Tail(out)[i] = out[i + 1]
  BY <1>1, <1>2, HeadTailProperties, ElementOfSeq
<1> QED BY <1>1, <1>2, <1>3

LEMMA ConnectKeeps ==
  ASSUME PresenceInv, Connect
  PROVE  PresenceInv'
<1>1. PresenceTyped /\ Phases
  BY DEF PresenceInv
<1>2. link = "down" /\ link' = "roster" /\ userlist' = [c \in Contacts |-> NoEntry] /\ out' = <<[kind |-> "get"]>>
      /\ stream' = stream /\ roster' = roster /\ online' = online /\ asked' = asked /\ told' = told
  BY DEF Connect, server
<1>3. ~asked /\ ~told /\ stream = << >>
  BY <1>1, <1>2 DEF Phases
<1>4. out' \in Seq(Requests) /\ Len(out') = 1 /\ MaxOut >= 1
  BY <1>2, RequestFacts, PresenceAssumption
<1>5. userlist' \in [Contacts -> Entries] /\ \A c \in Contacts : userlist'[c] = NoEntry
  BY <1>2, NewEntries
<1>6. PresenceTyped'
  BY <1>1, <1>2, <1>4, <1>5, NewEntries DEF PresenceTyped
<1>7. Phases'
  BY <1>2, <1>3, <1>5 DEF Phases
<1> QED BY <1>2, <1>3, <1>6, <1>7 DEF PresenceInv

LEMMA BreakKeeps ==
  ASSUME PresenceInv, Break
  PROVE  PresenceInv'
<1>1. PresenceTyped /\ Phases
  BY DEF PresenceInv
<1>2. link' = "down" /\ userlist' = [c \in Contacts |-> NoEntry] /\ out' = << >>
      /\ stream' = << >> /\ roster' = roster /\ online' = online /\ asked' = FALSE /\ told' = FALSE
  BY DEF Break
<1>3. userlist' \in [Contacts -> Entries] /\ \A c \in Contacts : userlist'[c] = NoEntry
  BY <1>2, NewEntries
<1>4. /\ out' \in Seq(Requests) /\ Len(out') = 0 /\ stream' \in Seq(Stanzas) /\ Len(stream') = 0
      /\ 0 <= MaxOut /\ 0 <= MaxStream
  BY <1>2, PresenceAssumption
<1>5. PresenceTyped'
  <2>1. asked' \in BOOLEAN /\ told' \in BOOLEAN /\ link' \in {"down", "roster", "up"}
    BY <1>2
  <2>2. /\ Len(stream') <= MaxStream /\ Len(out') <= MaxOut
        /\ roster' \in [Contacts -> Subs] /\ online' \in [Contacts -> [Resources -> OnlineT]]
    BY <1>1, <1>2, <1>4 DEF PresenceTyped
  <2>3. \A c \in Contacts : userlist'[c].there => EntrySound(userlist'[c])
    BY <1>3, NewEntries
  <2> QED BY <1>3, <1>4, <2>1, <2>2, <2>3 DEF PresenceTyped
<1>6. Phases'
  BY <1>2 DEF Phases
<1> QED BY <1>2, <1>5, <1>6 DEF PresenceInv

\* The server's side stays as it is.
LEMMA ServerStays ==
  ASSUME NEW c, NEW z, NEW e, UNCHANGED server, z = stream', e = userlist'[c],
         Follows(z, c, e, roster[c], Waits(out', "set", c), Waits(out', "probe", c), Sees(c), online[c])
  PROVE  Contact(c)'
BY DEF Contact, Sees, server

LEMMA TakeRosterKeeps ==
  ASSUME PresenceInv, TakeRoster
  PROVE  PresenceInv'
<1>1. PresenceTyped /\ Phases
  BY DEF PresenceInv
<1>2. /\ stream # << >> /\ stream[1].kind = "roster" /\ Len(out) < MaxOut
      /\ userlist' = [c \in Contacts |-> IF stream[1].items[c] = "absent" THEN userlist[c] ELSE ItemEntry(stream[1].items[c])]
      /\ link' = "up" /\ out' = Append(out, [kind |-> "presence"]) /\ stream' = Tail(stream)
      /\ roster' = roster /\ online' = online /\ asked' = asked /\ told' = told
  BY DEF TakeRoster, server
<1>3. asked /\ ~told /\ (\A c \in Contacts : userlist[c] = NoEntry) /\ out = << >>
  <2>1. link # "up" /\ link # "down" /\ link \in {"down", "roster", "up"}
    BY <1>1, <1>2, StreamFacts DEF Phases, PresenceTyped
  <2> QED BY <1>1, <1>2, <2>1 DEF Phases
<1>4. stream[1].items \in [Contacts -> Subs]
  BY <1>1, <1>2, StreamFacts DEF Stanzas
<1>5. ASSUME NEW c \in Contacts
      PROVE  /\ userlist'[c] \in Entries /\ (userlist'[c].there => EntrySound(userlist'[c]))
             /\ Renewed(userlist'[c], Sub(stream[1], c)) /\ Resets(stream[1], c)
  <2>1. PICK sub : sub = stream[1].items[c]
    OBVIOUS
  <2>2. sub \in Subs /\ Sub(stream[1], c) = sub /\ Resets(stream[1], c)
    BY <1>2, <1>4, <2>1 DEF Sub, Resets
  <2>3. userlist'[c] = IF sub = "absent" THEN NoEntry ELSE ItemEntry(sub)
    BY <1>2, <1>3, <2>1
  <2> QED BY <2>2, <2>3, NewEntries DEF Entries
<1>6. ASSUME NEW c \in Contacts PROVE Contact(c)'
  <2>1. Follows(stream, c, userlist[c], roster[c], Waits(out, "set", c), Waits(out, "probe", c), Sees(c), online[c])
    BY <1>3 DEF PresenceInv, Contact
  <2>2. Probed(stream[1], c, Sees(c), roster[c], Waits(out', "probe", c))
    BY <1>3 DEF Probed, Sees
  <2>3. PICK e2 : e2 = userlist'[c]
    OBVIOUS
  <2>4. Renewed(e2, Sub(stream[1], c)) /\ Resets(stream[1], c)
    BY <1>5, <2>3
  <2>5. stream \in Seq(Stanzas) /\ stream # << >>
    BY <1>1, <1>2 DEF PresenceTyped
  <2>6. Follows(Tail(stream), c, e2, roster[c], Waits(out', "set", c), Waits(out', "probe", c), Sees(c), online[c])
    BY <2>1, <2>2, <2>4, <2>5, ReadReset
  <2> QED BY <1>2, <2>3, <2>6, ServerStays DEF server
<1>7. PresenceTyped'
  <2>1. stream' \in Seq(Stanzas) /\ Len(stream') <= MaxStream
    BY <1>1, <1>2, StreamFacts
  <2>2. out' \in Seq(Requests) /\ Len(out') <= MaxOut
    BY <1>1, <1>2, OutFacts, RequestFacts, PresenceAssumption
  <2>3. userlist' \in [Contacts -> Entries]
    <3>1. userlist' = [c \in Contacts |-> userlist'[c]]
      BY <1>2
    <3> QED BY <1>5, <3>1
  <2>4. roster' \in [Contacts -> Subs] /\ online' \in [Contacts -> [Resources -> OnlineT]] /\ asked' \in BOOLEAN /\ told' \in BOOLEAN
    BY <1>1, <1>2 DEF PresenceTyped
  <2>5. link' \in {"down", "roster", "up"}
    BY <1>2
  <2> QED BY <1>5, <2>1, <2>2, <2>3, <2>4, <2>5 DEF PresenceTyped
<1>8. Phases'
  <2>1. \A i \in 1..Len(stream') : stream'[i].kind # "presence" /\ stream'[i].kind # "roster"
    BY <1>1, <1>2, <1>3, StreamFacts DEF Phases
  <2>2. \A i \in 2..Len(stream') : stream'[i].kind # "roster"
    BY <1>1, <1>2, <1>3, StreamFacts DEF Phases
  <2>3. \A i \in 1..Len(out') : out'[i].kind # "get"
    BY <1>2, <1>3
  <2> QED BY <1>2, <1>3, <2>1, <2>2, <2>3 DEF Phases
<1> QED BY <1>6, <1>7, <1>8 DEF PresenceInv

\* The stanza stream[1] is taken when the roster has come.
LEMMA TakingPhases ==
  ASSUME PresenceTyped, Phases, stream # << >>, stream[1].kind # "roster", stream' = Tail(stream),
         link' = link, UNCHANGED server,
         \A i \in 1..Len(out') : (i \in 1..Len(out) /\ out'[i] = out[i]) \/ out'[i].kind # "get"
  PROVE  Phases'
<1>1. link = "up" /\ asked
  BY StreamFacts DEF PresenceTyped, Phases
<1>2. asked' = asked /\ told' = told
  BY DEF server
<1>3. /\ \A i \in 1..Len(stream') : stream'[i].kind # "roster" /\ (~told => stream'[i].kind # "presence")
      /\ \A i \in 2..Len(stream') : stream'[i].kind # "roster"
  BY <1>1, StreamFacts DEF Phases
<1>4. \A i \in 1..Len(out') : out'[i].kind # "get"
  BY <1>1 DEF Phases
<1> QED BY <1>1, <1>2, <1>3, <1>4 DEF Phases

LEMMA OutGrows ==
  ASSUME PresenceTyped,
         out' = out \/ \E a \in Requests : a.kind # "get" /\ Len(out) < MaxOut /\ out' = Append(out, a)
  PROVE  /\ out' \in Seq(Requests) /\ Len(out') <= MaxOut
         /\ \A i \in 1..Len(out') : (i \in 1..Len(out) /\ out'[i] = out[i]) \/ out'[i].kind # "get"
         /\ \A kind, c : Leads(Waits(out, kind, c), Waits(out', kind, c))
<1>1. out \in Seq(Requests) /\ Len(out) <= MaxOut /\ MaxOut \in Nat
  BY PresenceAssumption DEF PresenceTyped
<1>2. CASE out' = out
  BY <1>1, <1>2 DEF Leads
<1>3. CASE \E a \in Requests : a.kind # "get" /\ Len(out) < MaxOut /\ out' = Append(out, a)
  <2>1. PICK a \in Requests : a.kind # "get" /\ Len(out) < MaxOut /\ out' = Append(out, a)
    BY <1>3
  <2>2. \A kind, c : Waits(out, kind, c) => Waits(Append(out, a), kind, c)
    BY <1>1, WaitsFacts
  <2>3. \A kind, c : Leads(Waits(out, kind, c), Waits(out', kind, c))
    BY <2>1, <2>2 DEF Leads
  <2>4. /\ Append(out, a) \in Seq(Requests) /\ Len(Append(out, a)) = Len(out) + 1
        /\ \A i \in 1..Len(Append(out, a)) : (i \in 1..Len(out) /\ Append(out, a)[i] = out[i]) \/ Append(out, a)[i] = a
    BY OutFacts
  <2> QED BY <1>1, <2>1, <2>3, <2>4
<1> QED BY <1>2, <1>3

LEMMA EntryReplaced ==
  ASSUME NEW f \in [Contacts -> Entries], NEW d \in Contacts, NEW e \in Entries, NEW g, g = [f EXCEPT ![d] = e]
  PROVE  g \in [Contacts -> Entries] /\ g[d] = e /\ \A c \in Contacts : c # d => g[c] = f[c]
OBVIOUS

LEMMA TakePushKeeps ==
  ASSUME PresenceInv, TakePush
  PROVE  PresenceInv'
<1>1. PresenceTyped /\ Phases
  BY DEF PresenceInv
<1> DEFINE m == stream[1]
           d == m.contact
           new == IF m.sub = "absent" THEN NoEntry ELSE ItemEntry(m.sub)
<1>2. /\ stream # << >> /\ m.kind = "push" /\ stream' = Tail(stream)
      /\ userlist' = [userlist EXCEPT ![d] = new]
      /\ Len(out) + Len(IF m.sub = "absent" THEN << >> ELSE Probe(d)) <= MaxOut
      /\ out' = out \o IF m.sub = "absent" THEN << >> ELSE Probe(d)
      /\ link' = link /\ UNCHANGED server
  BY DEF TakePush
<1>3. m \in Stanzas
  BY <1>1, <1>2, StreamFacts
<1>4. d \in Contacts /\ m.sub \in Subs /\ Sub(m, d) = m.sub /\ Resets(m, d)
      /\ \A c : ~From(m, c) /\ (c # d => ~Resets(m, c))
  BY <1>2, <1>3 DEF Stanzas, Sub, Resets, From
<1>5. link = "up" /\ asked
  <2>1. link # "down" /\ link # "roster" /\ link \in {"down", "roster", "up"}
    BY <1>1, <1>2, StreamFacts DEF Phases, PresenceTyped
  <2> QED BY <1>1, <2>1 DEF Phases
<1>6. new \in Entries /\ (new.there => EntrySound(new)) /\ Renewed(new, m.sub)
  BY <1>4, NewEntries DEF Entries
<1> HIDE DEF new
<1>7. userlist' \in [Contacts -> Entries] /\ userlist'[d] = new /\ \A c \in Contacts : c # d => userlist'[c] = userlist[c]
  <2>1. userlist \in [Contacts -> Entries]
    BY <1>1 DEF PresenceTyped
  <2> QED BY <1>2, <1>4, <1>6, <2>1, EntryReplaced
<1>8. /\ out' = out \/ \E a \in Requests : a.kind # "get" /\ Len(out) < MaxOut /\ out' = Append(out, a)
      /\ m.sub # "absent" => Waits(out', "probe", d)
  <2>0. out \in Seq(Requests) /\ MaxOut \in Nat /\ Len(out) \in Nat
    BY <1>1, PresenceAssumption DEF PresenceTyped
  <2>1. CASE m.sub = "absent"
    BY <1>2, <2>0, <2>1, ConcatEmptySeq
  <2>2. CASE m.sub # "absent"
    <3>1. PICK a : a = [kind |-> "probe", contact |-> d]
      OBVIOUS
    <3>2. a \in Requests /\ a.kind = "probe" /\ a.contact = d
      BY <1>4, <3>1, RequestFacts
    <3>3. out' = out \o <<a>> /\ Len(out) + Len(<<a>>) <= MaxOut
      BY <1>2, <2>2, <3>1 DEF Probe
    <3>4. out' = Append(out, a) /\ Len(out) < MaxOut
      BY <2>0, <3>2, <3>3, AppendIsConcat
    <3>5. Waits(Append(out, a), "probe", d)
      BY <2>0, <3>2, WaitsFacts
    <3> QED BY <3>2, <3>4, <3>5
  <2> QED BY <2>1, <2>2
<1>9. /\ out' \in Seq(Requests) /\ Len(out') <= MaxOut
      /\ \A i \in 1..Len(out') : (i \in 1..Len(out) /\ out'[i] = out[i]) \/ out'[i].kind # "get"
      /\ \A kind, c : Leads(Waits(out, kind, c), Waits(out', kind, c))
  BY <1>1, <1>8, OutGrows
<1>10. ASSUME NEW c \in Contacts PROVE Contact(c)'
  <2>1. Follows(stream, c, userlist[c], roster[c], Waits(out, "set", c), Waits(out, "probe", c), Sees(c), online[c])
    BY <1>5 DEF PresenceInv, Contact
  <2>2. stream \in Seq(Stanzas) /\ stream # << >>
    BY <1>1, <1>2 DEF PresenceTyped
  <2>3. CASE c = d
    <3>1. Probed(m, c, Sees(c), roster[c], Waits(out', "probe", c))
      BY <1>4, <1>8, <2>3 DEF Probed, Sees
    <3>2. Renewed(new, Sub(m, c)) /\ Resets(m, c)
      BY <1>4, <1>6, <2>3
    <3> HIDE DEF m, d
    <3>3. Follows(Tail(stream), c, new, roster[c], Waits(out', "set", c), Waits(out', "probe", c), Sees(c), online[c])
      BY <2>1, <2>2, <3>1, <3>2, ReadReset DEF m
    <3> QED BY <1>2, <1>7, <2>3, <3>3, ServerStays
  <2>4. CASE c # d
    <3>1. ~From(m, c) /\ ~Resets(m, c)
      BY <1>4, <2>4
    <3>2. Leads(Waits(out, "set", c), Waits(out', "set", c)) /\ Leads(Waits(out, "probe", c), Waits(out', "probe", c))
      BY <1>9
    <3>3. Follows(Tail(stream), c, userlist[c], roster[c], Waits(out', "set", c), Waits(out', "probe", c), Sees(c), online[c])
      BY <2>1, <2>2, <3>1, <3>2, ReadOther
    <3> QED BY <1>2, <1>7, <2>4, <3>3, ServerStays
  <2> QED BY <2>3, <2>4
<1>11. PresenceTyped'
  <2>1. stream' \in Seq(Stanzas) /\ Len(stream') <= MaxStream
    BY <1>1, <1>2, StreamFacts
  <2>2. \A c \in Contacts : userlist'[c].there => EntrySound(userlist'[c])
    BY <1>1, <1>6, <1>7 DEF PresenceTyped
  <2> QED BY <1>1, <1>2, <1>7, <1>9, <2>1, <2>2 DEF PresenceTyped, server
<1>12. Phases'
  BY <1>1, <1>2, <1>9, TakingPhases
<1> QED BY <1>10, <1>11, <1>12 DEF PresenceInv

LEMMA TakePresenceKeeps ==
  ASSUME PresenceInv, TakePresence
  PROVE  PresenceInv'
<1>1. PresenceTyped /\ Phases
  BY DEF PresenceInv
<1> DEFINE m == stream[1]
           d == m.contact
           e == userlist[d]
           new == HandlePresence(e, m)
<1>2. /\ stream # << >> /\ m.kind = "presence" /\ stream' = Tail(stream)
      /\ userlist' = [userlist EXCEPT ![d] = IF @.there THEN HandlePresence(@, m) ELSE @]
      /\ link' = link /\ out' = out /\ UNCHANGED server
  BY DEF TakePresence
<1>3. m \in Stanzas
  BY <1>1, <1>2, StreamFacts
<1>4. d \in Contacts /\ m.res \in Resources \cup {Bare} /\ From(m, d)
      /\ \A c : ~Resets(m, c) /\ (c # d => ~From(m, c))
  BY <1>2, <1>3 DEF Stanzas, Resets, From
<1>5. link = "up" /\ asked
  <2>1. link # "down" /\ link # "roster" /\ link \in {"down", "roster", "up"}
    BY <1>1, <1>2, StreamFacts DEF Phases, PresenceTyped
  <2> QED BY <1>1, <2>1 DEF Phases
<1>6. \A c \in Contacts :
        Follows(stream, c, userlist[c], roster[c], Waits(out, "set", c), Waits(out, "probe", c), Sees(c), online[c])
  BY <1>5 DEF PresenceInv, Contact
<1>7. stream \in Seq(Stanzas) /\ stream # << >>
  BY <1>1, <1>2 DEF PresenceTyped
<1>8. e.there /\ (m.show \in Away /\ m.res \in Resources => \A x : Has(e, m.res, x) => x.show \in Present)
  <2>1. Follows(stream, d, e, roster[d], Waits(out, "set", d), Waits(out, "probe", d), Sees(d), online[d])
    BY <1>4, <1>6
  <2>2. d \in Contacts /\ From(m, d)
    BY <1>4
  <2> HIDE DEF d, e
  <2> QED BY <1>7, <2>1, <2>2, HeadFacts
<1>9. e \in EntryT /\ EntrySound(e)
  BY <1>1, <1>4, <1>8, EntryIs
<1>10. m.show \in Away => \A x : Has(e, m.res, x) => x.show \in Present
  <2>1. \A x : ~Has(e, Bare, x)
    <3> SUFFICES ASSUME NEW x, Has(e, Bare, x) PROVE FALSE
      OBVIOUS
    <3>1. PICK k \in 1..Len(e.resources) : e.resources[k] = x /\ x.name = Bare
      BY DEF Has, In
    <3>2. e.resources \in Seq(ResourceT)
      BY <1>9 DEF EntryT
    <3>3. x \in ResourceT
      BY <3>1, <3>2
    <3> QED BY <3>1, <3>3, PresenceAssumption DEF ResourceT, Bare
  <2> QED BY <1>4, <1>8, <2>1
<1> HIDE DEF m, d, e
<1>11. new \in EntryT /\ EntrySound(new) /\ Effect(e, m, new)
  BY <1>2, <1>3, <1>9, <1>10, HandleFacts
<1> HIDE DEF new
<1>12. userlist' \in [Contacts -> Entries] /\ userlist'[d] = new /\ \A c \in Contacts : c # d => userlist'[c] = userlist[c]
  <2>1. userlist \in [Contacts -> Entries] /\ new \in Entries
    BY <1>1, <1>11 DEF PresenceTyped, Entries
  <2>2. userlist' = [userlist EXCEPT ![d] = new]
    BY <1>2, <1>8 DEF e, new
  <2> QED BY <1>4, <2>1, <2>2, EntryReplaced
<1>13. ASSUME NEW c \in Contacts PROVE Contact(c)'
  <2>1. Follows(stream, c, userlist[c], roster[c], Waits(out, "set", c), Waits(out, "probe", c), Sees(c), online[c])
    BY <1>6
  <2>2. CASE c = d
    <3>1. \A r \in Resources : online[c][r] # Gone => online[c][r].show \in Present
      BY <1>1, OnlineFacts
    <3>2. From(stream[1], c) /\ Effect(userlist[c], stream[1], new)
      BY <1>4, <1>11, <2>2 DEF e, m
    <3>3. Follows(Tail(stream), c, new, roster[c], Waits(out, "set", c), Waits(out, "probe", c), Sees(c), online[c])
      BY <1>7, <2>1, <3>1, <3>2, ReadPresence
    <3> QED BY <1>2, <1>12, <2>2, <3>3, ServerStays
  <2>3. CASE c # d
    <3>1. ~From(stream[1], c) /\ ~Resets(stream[1], c)
      BY <1>4, <2>3 DEF m
    <3>2. Leads(Waits(out, "set", c), Waits(out, "set", c)) /\ Leads(Waits(out, "probe", c), Waits(out, "probe", c))
      BY DEF Leads
    <3>3. Follows(Tail(stream), c, userlist[c], roster[c], Waits(out, "set", c), Waits(out, "probe", c), Sees(c), online[c])
      BY <1>7, <2>1, <3>1, <3>2, ReadOther
    <3> QED BY <1>2, <1>12, <2>3, <3>3, ServerStays
  <2> QED BY <2>2, <2>3
<1>14. PresenceTyped'
  <2>1. stream' \in Seq(Stanzas) /\ Len(stream') <= MaxStream
    BY <1>1, <1>2, StreamFacts
  <2>2. \A c \in Contacts : userlist'[c].there => EntrySound(userlist'[c])
    BY <1>1, <1>11, <1>12 DEF PresenceTyped
  <2> QED BY <1>1, <1>2, <1>12, <2>1, <2>2 DEF PresenceTyped, server
<1>15. Phases'
  BY <1>1, <1>2, TakingPhases DEF m
<1> QED BY <1>13, <1>14, <1>15 DEF PresenceInv

\* A command sets or removes an item; it adds the contact c, or changes no entry.
LEMMA CommandKeeps ==
  ASSUME PresenceInv, NEW d \in Contacts, CommandAdd(d) \/ CommandModify(d) \/ CommandDel(d)
  PROVE  PresenceInv'
<1>1. PresenceTyped /\ Phases
  BY DEF PresenceInv
<1>2. link = "up" /\ link' = link /\ stream' = stream /\ UNCHANGED server /\ asked
  BY <1>1 DEF CommandAdd, CommandModify, CommandDel, client, Phases
<1>3. out' = out \/ \E a \in Requests : a.kind # "get" /\ Len(out) < MaxOut /\ out' = Append(out, a)
  <2>1. PICK a, b : a = [kind |-> "set", contact |-> d] /\ b = [kind |-> "remove", contact |-> d]
    OBVIOUS
  <2>2. a \in Requests /\ a.kind # "get" /\ b \in Requests /\ b.kind # "get"
    BY <2>1, RequestFacts
  <2>3. Len(out) < MaxOut /\ (out' = Append(out, a) \/ out' = Append(out, b))
    BY <2>1 DEF CommandAdd, CommandModify, CommandDel
  <2> QED BY <2>2, <2>3
<1>4. /\ out' \in Seq(Requests) /\ Len(out') <= MaxOut
      /\ \A i \in 1..Len(out') : (i \in 1..Len(out) /\ out'[i] = out[i]) \/ out'[i].kind # "get"
      /\ \A kind, c : Leads(Waits(out, kind, c), Waits(out', kind, c))
  BY <1>1, <1>3, OutGrows
<1>5. \/ userlist' = userlist
      \/ /\ ~userlist[d].there /\ Waits(out', "set", d)
         /\ userlist' \in [Contacts -> Entries] /\ userlist'[d] = NewEntry
         /\ \A c \in Contacts : c # d => userlist'[c] = userlist[c]
  <2>1. CASE CommandAdd(d)
    <3>1. ~userlist[d].there /\ userlist' = [userlist EXCEPT ![d] = NewEntry]
      BY <2>1 DEF CommandAdd
    <3>2. userlist \in [Contacts -> Entries] /\ NewEntry \in Entries
      BY <1>1, NewEntries DEF PresenceTyped, Entries
    <3>3. userlist' \in [Contacts -> Entries] /\ userlist'[d] = NewEntry /\ \A c \in Contacts : c # d => userlist'[c] = userlist[c]
      BY <3>1, <3>2, EntryReplaced
    <3>4. PICK a : a = [kind |-> "set", contact |-> d]
      OBVIOUS
    <3>5. a \in Requests /\ a.kind = "set" /\ a.contact = d /\ out' = Append(out, a) /\ out \in Seq(Requests)
      BY <1>1, <2>1, <3>4, RequestFacts DEF CommandAdd, PresenceTyped
    <3>6. Waits(Append(out, a), "set", d)
      BY <3>5, WaitsFacts
    <3> QED BY <3>1, <3>3, <3>5, <3>6
  <2>2. CASE CommandModify(d) \/ CommandDel(d)
    BY <2>2 DEF CommandModify, CommandDel, client
  <2> QED BY <2>1, <2>2
<1>6. ASSUME NEW c \in Contacts PROVE Contact(c)'
  <2>1. Follows(stream, c, userlist[c], roster[c], Waits(out, "set", c), Waits(out, "probe", c), Sees(c), online[c])
    BY <1>2 DEF PresenceInv, Contact
  <2>2. stream \in Seq(Stanzas)
    BY <1>1 DEF PresenceTyped
  <2>3. Leads(Waits(out, "set", c), Waits(out', "set", c)) /\ Leads(Waits(out, "probe", c), Waits(out', "probe", c))
    BY <1>4
  <2>4. CASE userlist'[c] = userlist[c]
    <3>1. Follows(stream, c, userlist[c], roster[c], Waits(out', "set", c), Waits(out', "probe", c), Sees(c), online[c])
      BY <2>1, <2>2, <2>3, Stays
    <3> QED BY <1>2, <2>4, <3>1, ServerStays
  <2>5. CASE userlist'[c] # userlist[c]
    <3>1. ~userlist[c].there /\ userlist'[c] = NewEntry /\ Waits(out', "set", c)
      BY <1>5, <2>5
    <3>2. Follows(stream, c, NewEntry, roster[c], TRUE, Waits(out', "probe", c), Sees(c), online[c])
      BY <2>1, <2>2, <2>3, <3>1, NewFollows
    <3>3. Leads(TRUE, Waits(out', "set", c)) /\ Leads(Waits(out', "probe", c), Waits(out', "probe", c))
      BY <3>1 DEF Leads
    <3>4. Follows(stream, c, NewEntry, roster[c], Waits(out', "set", c), Waits(out', "probe", c), Sees(c), online[c])
      BY <2>2, <3>2, <3>3, Stays
    <3> QED BY <1>2, <3>1, <3>4, ServerStays
  <2> QED BY <2>4, <2>5
<1>7. PresenceTyped'
  <2>1. userlist' \in [Contacts -> Entries] /\ \A c \in Contacts : userlist'[c].there => EntrySound(userlist'[c])
    BY <1>1, <1>5, NewEntries DEF PresenceTyped
  <2> QED BY <1>1, <1>2, <1>4, <2>1 DEF PresenceTyped, server
<1>8. Phases'
  BY <1>1, <1>2, <1>4 DEF Phases, server
<1> QED BY <1>6, <1>7, <1>8 DEF PresenceInv

-----------------------------------------------------------------------------
(* The steps of the server. *)

LEMMA ContactIs ==
  ASSUME NEW c, NEW z, NEW e, NEW sub, NEW t, NEW on,
         z = stream', e = userlist'[c], sub = roster'[c], t = Sees(c)', on = online'[c],
         Follows(z, c, e, sub, Waits(out', "set", c), Waits(out', "probe", c), t, on)
  PROVE  Contact(c)'
BY DEF Contact

LEMMA LinkIsUp ==
  ASSUME PresenceTyped, Phases, out # << >>, out[1].kind # "get"
  PROVE  link = "up" /\ asked
<1>1. link # "down" /\ link # "roster" /\ link \in {"down", "roster", "up"}
  BY DEF Phases, PresenceTyped
<1> QED BY <1>1 DEF Phases

LEMMA OutShrinks ==
  ASSUME PresenceTyped, out # << >>, out' = Tail(out)
  PROVE  /\ out' \in Seq(Requests) /\ Len(out') <= MaxOut /\ out[1] \in Requests
         /\ \A i \in 1..Len(out') : i + 1 \in 1..Len(out) /\ out'[i] = out[i + 1]
         /\ \A kind, c : ~(out[1].kind = kind /\ out[1].contact = c) => Leads(Waits(out, kind, c), Waits(out', kind, c))
<1>1. out \in Seq(Requests)
  BY DEF PresenceTyped
<1>2. \A kind, c : Waits(out, kind, c) => (out[1].kind = kind /\ out[1].contact = c) \/ Waits(Tail(out), kind, c)
  BY <1>1, WaitsFacts
<1> QED BY <1>2, OutFacts DEF Leads

\* u is sent: the phases stay.
LEMMA SendPhases ==
  ASSUME PresenceTyped, Phases, NEW u \in Seq(Stanzas), stream' = stream \o u,
         link' = link, userlist' = userlist, asked' = asked, told' = told \/ link = "up",
         Leads(told, told'), Leads(told', asked), u = << >> \/ asked,
         \A j \in 1..Len(u) : u[j].kind # "roster" /\ (u[j].kind = "presence" => told'),
         out' = out \/ (link = "up" /\ \A i \in 1..Len(out') : i + 1 \in 1..Len(out) /\ out'[i] = out[i + 1])
  PROVE  Phases'
<1>1. /\ Len(stream) \in Nat /\ Len(u) \in Nat /\ Len(stream') = Len(stream) + Len(u)
      /\ \A i \in 1..Len(stream) : stream'[i] = stream[i] /\ i \in 1..Len(stream')
      /\ \A i \in 1..Len(stream') : i \notin 1..Len(stream) =>
            i - Len(stream) \in 1..Len(u) /\ stream'[i] = u[i - Len(stream)]
  <2>1. stream \in Seq(Stanzas)
    BY DEF PresenceTyped
  <2>2. PICK s, z : s = stream /\ z = stream' /\ s \in Seq(Stanzas) /\ z = s \o u
    BY <2>1
  <2>3. /\ Len(s) \in Nat /\ Len(u) \in Nat /\ Len(z) = Len(s) + Len(u)
        /\ \A i \in 1..Len(s) : z[i] = s[i] /\ i \in 1..Len(z)
        /\ \A i \in 1..Len(u) : z[Len(s) + i] = u[i] /\ Len(s) + i \in 1..Len(z)
        /\ \A i \in 1..Len(z) : i \notin 1..Len(s) => i - Len(s) \in 1..Len(u) /\ Len(s) + (i - Len(s)) = i
    BY <2>2, CatFacts
  <2>4. \A i \in 1..Len(z) : i \notin 1..Len(s) => i - Len(s) \in 1..Len(u) /\ z[i] = u[i - Len(s)]
    <3> SUFFICES ASSUME NEW i \in 1..Len(z), i \notin 1..Len(s)
                 PROVE  i - Len(s) \in 1..Len(u) /\ z[i] = u[i - Len(s)]
      OBVIOUS
    <3>1. PICK k : k = i - Len(s)
      OBVIOUS
    <3> QED BY <2>3, <3>1
  <2> QED BY <2>2, <2>3, <2>4
<1>2. \A i \in 1..Len(stream') : (stream'[i].kind = "roster" => i \in 1..Len(stream) /\ stream'[i] = stream[i])
  BY <1>1
<1>3. (told' => asked') /\ (~asked' => stream' = << >>)
  <2>1. ASSUME ~asked' PROVE stream' = << >>
    <3>1. u = << >> /\ stream = << >>
      BY <2>1 DEF Phases
    <3> QED BY <3>1
  <2> QED BY <2>1 DEF Leads
<1>4. ~told' => \A i \in 1..Len(stream') : stream'[i].kind # "presence"
  BY <1>1 DEF Phases, Leads
<1>5. \A i \in 2..Len(stream') : stream'[i].kind # "roster"
  <2> SUFFICES ASSUME NEW i \in 2..Len(stream'), stream'[i].kind = "roster" PROVE FALSE
    OBVIOUS
  <2>1. i \in 1..Len(stream')
    BY <1>1
  <2>2. i \in 2..Len(stream) /\ stream[i].kind = "roster"
    BY <1>1, <1>2, <2>1
  <2> QED BY <2>2 DEF Phases
<1>6. link' = "down" => ~asked' /\ out' = << >>
  BY DEF Phases
<1>7. ASSUME link' = "roster"
      PROVE  /\ ~told' /\ \A c \in Contacts : userlist'[c] = NoEntry
             /\ IF asked' THEN out' = << >> /\ stream' # << >> /\ stream'[1].kind = "roster"
                ELSE out' = <<[kind |-> "get"]>>
  <2>1. link = "roster" /\ out' = out
    BY <1>7
  <2>2. asked => stream # << >> /\ stream[1].kind = "roster" /\ out = << >>
    BY <2>1 DEF Phases
  <2>3. asked => 1 \in 1..Len(stream) /\ stream' # << >> /\ stream'[1] = stream[1]
    <3>1. ASSUME asked PROVE 1 \in 1..Len(stream) /\ Len(stream') # 0
      <4>1. stream \in Seq(Stanzas) /\ stream # << >>
        BY <2>2, <3>1 DEF PresenceTyped
      <4>2. Len(stream) # 0
        BY <4>1, EmptySeq
      <4> QED BY <1>1, <4>2
    <3>2. stream' = << >> => Len(stream') = 0
      OBVIOUS
    <3> QED BY <1>1, <3>1, <3>2
  <2>4. ~asked => out = <<[kind |-> "get"]>>
    BY <2>1 DEF Phases
  <2>5. ~told' /\ \A c \in Contacts : userlist'[c] = NoEntry
    BY <1>7, <2>1 DEF Phases
  <2> QED BY <2>1, <2>2, <2>3, <2>4, <2>5
<1>8. link' = "up" => /\ asked' /\ \A i \in 1..Len(out') : out'[i].kind # "get"
                      /\ \A i \in 1..Len(stream') : stream'[i].kind # "roster"
  BY <1>2 DEF Phases
<1> QED BY <1>3, <1>4, <1>5, <1>6, <1>7, <1>8 DEF Phases

\* Of what the server does, the types.
LEMMA SendTyped ==
  ASSUME PresenceTyped, NEW u \in Seq(Stanzas), stream' = stream \o u, Len(stream) + Len(u) <= MaxStream,
         link' = link, userlist' = userlist, asked' \in BOOLEAN, told' \in BOOLEAN,
         out' \in Seq(Requests), Len(out') <= MaxOut,
         roster' \in [Contacts -> Subs], online' \in [Contacts -> [Resources -> OnlineT]]
  PROVE  PresenceTyped'
<1>1. stream \in Seq(Stanzas)
  BY DEF PresenceTyped
<1>2. stream' \in Seq(Stanzas) /\ Len(stream') = Len(stream) + Len(u)
  BY <1>1, ConcatProperties
<1>3. userlist \in [Contacts -> Entries] /\ link \in {"down", "roster", "up"}
      /\ \A c \in Contacts : userlist[c].there => EntrySound(userlist[c])
  BY DEF PresenceTyped
<1> QED BY <1>2, <1>3 DEF PresenceTyped

LEMMA ServerGetKeeps ==
  ASSUME PresenceInv, ServerGet
  PROVE  PresenceInv'
<1>1. PresenceTyped /\ Phases
  BY DEF PresenceInv
<1>2. PICK m : m = [kind |-> "roster", items |-> roster]
  OBVIOUS
<1>3. /\ out # << >> /\ out[1].kind = "get" /\ Len(stream) + Len(<<m>>) <= MaxStream /\ stream' = stream \o <<m>>
      /\ asked' = TRUE /\ out' = Tail(out) /\ link' = link /\ userlist' = userlist
      /\ roster' = roster /\ online' = online /\ told' = told
  BY <1>2 DEF ServerGet, Send, client
<1>4. link = "roster" /\ ~asked /\ ~told /\ out = <<[kind |-> "get"]>> /\ stream = << >>
      /\ \A c \in Contacts : userlist[c] = NoEntry
  <2>1. link # "up" /\ link # "down" /\ link \in {"down", "roster", "up"}
    BY <1>1, <1>3, OutFacts DEF Phases, PresenceTyped
  <2>2. link = "roster"
    BY <2>1
  <2>3. ~told /\ (\A c \in Contacts : userlist[c] = NoEntry) /\ IF asked THEN out = << >> ELSE out = <<[kind |-> "get"]>>
    BY <1>1, <2>2 DEF Phases
  <2>4. ~asked
    BY <1>3, <2>3
  <2> QED BY <1>1, <2>2, <2>3, <2>4 DEF Phases
<1>5. m \in Stanzas /\ m.kind = "roster" /\ m.items = roster
  BY <1>1, <1>2 DEF Stanzas, PresenceTyped
<1>6. stream' = <<m>> /\ out' = << >>
  BY <1>3, <1>4
<1>7. ASSUME NEW c \in Contacts PROVE Contact(c)'
  <2>1. PICK e, z, t : e = userlist'[c] /\ z = stream' /\ t = Sees(c)'
    OBVIOUS
  <2>2. PICK s : s = << >>
    OBVIOUS
  <2>3. s \in Seq(Stanzas) /\ z = s \o <<m>> /\ Len(s) = 0
    BY <1>3, <1>4, <2>1, <2>2
  <2>4. Heard(s, c, e) /\ \A r \in Resources : Farewell(s, c, r, e)
    BY <2>3 DEF Heard, Farewell
  <2>5. Resets(m, c) /\ Sub(m, c) = roster[c]
    BY <1>5 DEF Resets, Sub
  <2>6. Follows(z, c, e, roster[c], Waits(out', "set", c), Waits(out', "probe", c), t, online[c])
    BY <1>5, <2>3, <2>4, <2>5, SendReset
  <2> QED BY <1>3, <2>1, <2>6, ContactIs
<1>8. PresenceTyped'
  <2>1. <<m>> \in Seq(Stanzas)
    BY <1>5
  <2>2. out' \in Seq(Requests) /\ Len(out') <= MaxOut
    BY <1>1, <1>3, OutFacts
  <2>3. PICK u : u = <<m>>
    OBVIOUS
  <2>4. u \in Seq(Stanzas) /\ stream' = stream \o u /\ Len(stream) + Len(u) <= MaxStream
    BY <1>3, <2>1, <2>3
  <2>5. roster' \in [Contacts -> Subs] /\ online' \in [Contacts -> [Resources -> OnlineT]] /\ asked' \in BOOLEAN /\ told' \in BOOLEAN
    BY <1>1, <1>3 DEF PresenceTyped
  <2>6. link' = link /\ userlist' = userlist
    BY <1>3
  <2> QED BY <1>1, <2>2, <2>4, <2>5, <2>6, SendTyped
<1>9. Phases'
  <2>1. /\ \A i \in 1..Len(stream') : stream'[i].kind # "presence"
        /\ \A i \in 2..Len(stream') : FALSE
        /\ stream' # << >> /\ stream'[1].kind = "roster"
    BY <1>5, <1>6
  <2> QED BY <1>3, <1>4, <1>6, <2>1 DEF Phases
<1> QED BY <1>7, <1>8, <1>9 DEF PresenceInv

LEMMA ServerPresenceKeeps ==
  ASSUME PresenceInv, ServerPresence
  PROVE  PresenceInv'
<1>1. PresenceTyped /\ Phases
  BY DEF PresenceInv
<1>2. PICK cs, u : /\ cs = {x \in Contacts : roster[x] = "to"}
                   /\ u = FlattenSeq(SetToSeq({Presences(c) : c \in cs}))
  OBVIOUS
<1>3. /\ out # << >> /\ out[1].kind = "presence" /\ Len(stream) + Len(u) <= MaxStream /\ stream' = stream \o u
      /\ told' = TRUE /\ out' = Tail(out) /\ link' = link /\ userlist' = userlist
      /\ roster' = roster /\ online' = online /\ asked' = asked
  BY <1>2 DEF ServerPresence, Send, client
<1>4. link = "up" /\ asked
  BY <1>1, <1>3, LinkIsUp
<1>5. cs \in SUBSET Contacts /\ Reports(u, cs)
  BY <1>1, <1>2, FlatReport
<1>6. u \in Seq(Stanzas) /\ \A j \in 1..Len(u) : u[j].kind = "presence"
  BY <1>5 DEF Reports
<1>7. /\ out' \in Seq(Requests) /\ Len(out') <= MaxOut
      /\ \A i \in 1..Len(out') : i + 1 \in 1..Len(out) /\ out'[i] = out[i + 1]
      /\ \A c : Leads(Waits(out, "set", c), Waits(out', "set", c)) /\ Leads(Waits(out, "probe", c), Waits(out', "probe", c))
  BY <1>1, <1>3, OutShrinks
<1>8. ASSUME NEW c \in Contacts PROVE Contact(c)'
  <2>1. PICK z, t : z = stream' /\ t = Sees(c)'
    OBVIOUS
  <2>2. Follows(stream, c, userlist[c], roster[c], Waits(out, "set", c), Waits(out, "probe", c), Sees(c), online[c])
    BY <1>4 DEF PresenceInv, Contact
  <2>3. t <=> roster[c] = "to"
    BY <1>3, <2>1 DEF Sees
  <2>4. Reported(cs, c, roster[c], Sees(c), t, Waits(out, "probe", c), Waits(out', "probe", c))
    <3>1. c \in cs <=> roster[c] = "to"
      BY <1>2
    <3>2. Leads(Waits(out, "probe", c), Waits(out', "probe", c))
      BY <1>7
    <3> QED BY <2>3, <3>1, <3>2 DEF Reported, Leads, Sees
  <2>5. Sendable(stream, u, c, userlist[c], roster[c], Waits(out, "probe", c), Sees(c), online[c],
                 Waits(out', "probe", c), t, online[c])
    BY <1>1, <1>5, <2>4, ReportsSendable
  <2>6. stream \in Seq(Stanzas) /\ z = stream \o u
    BY <1>1, <1>3, <2>1 DEF PresenceTyped
  <2>7. Leads(Waits(out, "set", c), Waits(out', "set", c)) \/ roster[c] # "absent"
    BY <1>7
  <2>8. Follows(z, c, userlist[c], roster[c], Waits(out', "set", c), Waits(out', "probe", c), t, online[c])
    BY <1>6, <2>2, <2>5, <2>6, <2>7, SendNews
  <2> QED BY <1>3, <2>1, <2>8, ContactIs
<1>9. PresenceTyped'
  <2>1. roster' \in [Contacts -> Subs] /\ online' \in [Contacts -> [Resources -> OnlineT]] /\ asked' \in BOOLEAN /\ told' \in BOOLEAN
    BY <1>1, <1>3 DEF PresenceTyped
  <2>2. link' = link /\ userlist' = userlist
    BY <1>3
  <2> QED BY <1>1, <1>3, <1>6, <1>7, <2>1, <2>2, SendTyped
<1>10. Phases'
  <2>1. Leads(told, told') /\ Leads(told', asked)
    BY <1>3, <1>4 DEF Leads
  <2>2. \A j \in 1..Len(u) : u[j].kind # "roster" /\ (u[j].kind = "presence" => told')
    BY <1>3, <1>6
  <2> QED BY <1>1, <1>3, <1>4, <1>6, <1>7, <2>1, <2>2, SendPhases
<1> QED BY <1>8, <1>9, <1>10 DEF PresenceInv

LEMMA ServerProbeKeeps ==
  ASSUME PresenceInv, ServerProbe
  PROVE  PresenceInv'
<1>1. PresenceTyped /\ Phases
  BY DEF PresenceInv
<1>2. PICK d, u : /\ d = out[1].contact
                  /\ u = IF Sees(d) THEN Answer(d) ELSE << >>
  OBVIOUS
<1>3. /\ out # << >> /\ out[1].kind = "probe" /\ Len(stream) + Len(u) <= MaxStream /\ stream' = stream \o u
      /\ told' = told /\ out' = Tail(out) /\ link' = link /\ userlist' = userlist
      /\ roster' = roster /\ online' = online /\ asked' = asked
  BY <1>2 DEF ServerProbe, Send, client, server
<1>4. link = "up" /\ asked
  BY <1>1, <1>3, LinkIsUp
<1>5. /\ out' \in Seq(Requests) /\ Len(out') <= MaxOut /\ out[1] \in Requests
      /\ \A i \in 1..Len(out') : i + 1 \in 1..Len(out) /\ out'[i] = out[i + 1]
      /\ \A c : Leads(Waits(out, "set", c), Waits(out', "set", c))
      /\ \A c : c # d => Leads(Waits(out, "probe", c), Waits(out', "probe", c))
  BY <1>1, <1>2, <1>3, OutShrinks
<1>6. d \in Contacts
  BY <1>2, <1>3, <1>5, RequestFacts
<1>7. /\ u \in Seq(Stanzas) /\ \A j \in 1..Len(u) : u[j].kind = "presence" /\ u[j].contact = d
      /\ \/ Sees(d) /\ Reports(u, {d})
         \/ /\ \A j \in 1..Len(u) : \A r \in Resources : ~Tells(u[j], d, r)
            /\ Sees(d) => \A r \in Resources : online[d][r] = Gone
            /\ ~Sees(d) => u = << >>
  <2>1. CASE ~Sees(d)
    BY <1>2, <2>1
  <2>2. CASE Sees(d) /\ Here(d) # {}
    <3>1. u = Presences(d)
      BY <1>2, <2>2 DEF Answer
    <3>2. Reports(u, {d})
      BY <1>1, <1>6, <3>1, PresencesReport
    <3> QED BY <2>2, <3>2 DEF Reports
  <2>3. CASE Sees(d) /\ Here(d) = {}
    <3>1. PICK m : m = Unavailable(d, Bare, "na")
      OBVIOUS
    <3>2. m \in Stanzas /\ m.kind = "presence" /\ m.contact = d /\ m.res = Bare
      <4>1. "na" \in Away /\ Bare \in Resources \cup {Bare}
        BY PresenceAssumption
      <4>2. \A r \in Resources \cup {Bare} : LET x == Unavailable(d, r, "na") IN
              x \in Stanzas /\ x.kind = "presence" /\ x.contact = d /\ x.res = r
        BY <1>6, <4>1, UnavailableFacts
      <4> QED BY <3>1, <4>1, <4>2
    <3>3. u = <<m>>
      BY <1>2, <2>3, <3>1 DEF Answer
    <3>4. \A r \in Resources : r # Bare
      BY PresenceAssumption DEF Bare
    <3>5. \A r \in Resources : online[d][r] = Gone
      BY <2>3 DEF Here
    <3> QED BY <2>3, <3>2, <3>3, <3>4, <3>5 DEF Tells
  <2> QED BY <2>1, <2>2, <2>3
<1>8. ASSUME NEW c \in Contacts PROVE Contact(c)'
  <2>1. Follows(stream, c, userlist[c], roster[c], Waits(out, "set", c), Waits(out, "probe", c), Sees(c), online[c])
    BY <1>4 DEF PresenceInv, Contact
  <2>2. PICK z, p : z = stream' /\ p = Waits(out', "probe", c)
    OBVIOUS
  <2>3. stream \in Seq(Stanzas) /\ z = stream \o u
    BY <1>1, <1>3, <2>2 DEF PresenceTyped
  <2>4. Follows(z, c, userlist[c], roster[c], Waits(out', "set", c), p, Sees(c), online[c])
    <3>1. CASE c # d
      <4>1. \A j \in 1..Len(u) : ~Resets(u[j], c) /\ ~From(u[j], c)
        BY <1>7, <3>1 DEF Resets, From
      <4>2. Leads(Waits(out, "set", c), Waits(out', "set", c)) /\ Leads(Waits(out, "probe", c), p)
        BY <1>5, <2>2, <3>1
      <4> QED BY <1>7, <2>1, <2>3, <4>1, <4>2, SendOther
    <3>2. CASE c = d
      <4>1. Sendable(stream, u, c, userlist[c], roster[c], Waits(out, "probe", c), Sees(c), online[c], p, Sees(c), online[c])
        <5>1. CASE Sees(d) /\ Reports(u, {d})
          <6>1. Reported({d}, c, roster[c], Sees(c), Sees(c), Waits(out, "probe", c), p)
            BY <3>2, <5>1 DEF Reported, Sees
          <6> QED BY <1>1, <1>6, <5>1, <6>1, ReportsSendable
        <5>2. CASE /\ \A j \in 1..Len(u) : \A r \in Resources : ~Tells(u[j], d, r)
                   /\ Sees(d) => \A r \in Resources : online[d][r] = Gone
                   /\ ~Sees(d) => u = << >>
          <6>1. \A j \in 1..Len(u) : ~Resets(u[j], c) /\ (From(u[j], c) => roster[c] # "absent")
            <7>1. \A j \in 1..Len(u) : ~Resets(u[j], c)
              BY <1>7 DEF Resets
            <7>2. Sees(d) => roster[c] # "absent"
              BY <3>2 DEF Sees
            <7> QED BY <5>2, <7>1, <7>2
          <6>2. \A r \in Resources : ~(Sees(c) /\ online[c][r] # Gone)
            BY <3>2, <5>2
          <6>3. Muted(u, c, roster[c], Sees(c), online[c], Sees(c), online[c])
            BY <3>2, <5>2, <6>1, <6>2 DEF Muted
          <6> QED BY <6>3, MutedSendable
        <5> QED BY <1>7, <5>1, <5>2
      <4>2. Leads(Waits(out, "set", c), Waits(out', "set", c)) \/ roster[c] # "absent"
        BY <1>5
      <4> QED BY <1>7, <2>1, <2>3, <4>1, <4>2, SendNews
    <3> QED BY <3>1, <3>2
  <2>5. PICK t : t = Sees(c)'
    OBVIOUS
  <2>6. Follows(z, c, userlist[c], roster[c], Waits(out', "set", c), Waits(out', "probe", c), Sees(c), online[c])
    BY <2>2, <2>4
  <2> QED BY <1>3, <2>2, <2>6, ServerStays DEF server
<1>9. PresenceTyped'
  <2>1. roster' \in [Contacts -> Subs] /\ online' \in [Contacts -> [Resources -> OnlineT]] /\ asked' \in BOOLEAN /\ told' \in BOOLEAN
    BY <1>1, <1>3 DEF PresenceTyped
  <2>2. link' = link /\ userlist' = userlist
    BY <1>3
  <2> QED BY <1>1, <1>3, <1>5, <1>7, <2>1, <2>2, SendTyped
<1>10. Phases'
  <2>1. Leads(told, told') /\ Leads(told', asked)
    BY <1>3, <1>4 DEF Leads
  <2>2. \A j \in 1..Len(u) : u[j].kind # "roster" /\ (u[j].kind = "presence" => told')
    <3>1. u # << >> => told
      BY <1>7 DEF Sees
    <3>2. u = << >> => Len(u) = 0
      OBVIOUS
    <3> QED BY <1>3, <1>7, <3>1, <3>2
  <2> QED BY <1>1, <1>3, <1>4, <1>5, <1>7, <2>1, <2>2, SendPhases
<1> QED BY <1>8, <1>9, <1>10 DEF PresenceInv

\* What the server does is not about the contact.
LEMMA SeenStays ==
  ASSUME NEW c, NEW z, told' = told, roster'[c] = roster[c], online'[c] = online[c], userlist'[c] = userlist[c], z = stream',
         Follows(z, c, userlist[c], roster[c], Waits(out', "set", c), Waits(out', "probe", c), Sees(c), online[c])
  PROVE  Contact(c)'
BY DEF Contact, Sees

LEMMA ItemReplaced ==
  ASSUME PresenceTyped, NEW d \in Contacts, NEW sub \in Subs, roster' = [roster EXCEPT ![d] = sub]
  PROVE  roster' \in [Contacts -> Subs] /\ roster'[d] = sub /\ \A c \in Contacts : c # d => roster'[c] = roster[c]
<1>1. roster \in [Contacts -> Subs]
  BY DEF PresenceTyped
<1> QED BY <1>1

\* The push of an item, and presences of its contact, are sent.
LEMMA PushKeepsOthers ==
  ASSUME PresenceTyped, NEW d \in Contacts, NEW u \in Seq(Stanzas), stream' = stream \o u,
         \A j \in 1..Len(u) : /\ u[j].kind \in {"push", "presence"} /\ u[j].contact = d,
         NEW c \in Contacts, c # d,
         Follows(stream, c, userlist[c], roster[c], Waits(out, "set", c), Waits(out, "probe", c), Sees(c), online[c]),
         Leads(Waits(out, "set", c), Waits(out', "set", c)), Leads(Waits(out, "probe", c), Waits(out', "probe", c)),
         told' = told, roster'[c] = roster[c], online'[c] = online[c], userlist' = userlist
  PROVE  Contact(c)'
<1>1. PICK z : z = stream'
  OBVIOUS
<1>2. stream \in Seq(Stanzas) /\ z = stream \o u
  BY <1>1 DEF PresenceTyped
<1>3. \A j \in 1..Len(u) : ~Resets(u[j], c) /\ ~From(u[j], c)
  BY DEF Resets, From
<1>4. Follows(z, c, userlist[c], roster[c], Waits(out', "set", c), Waits(out', "probe", c), Sees(c), online[c])
  BY <1>2, <1>3, SendOther
<1> QED BY <1>1, <1>4, SeenStays

LEMMA ItemKeeps ==
  ASSUME PresenceInv, NEW d \in Contacts, NEW sub \in Subs,
         out # << >>, out[1].kind \in {"set", "remove"}, out[1].contact = d, out' = Tail(out),
         roster' = [roster EXCEPT ![d] = sub], Send(<<Push(d, sub)>>),
         UNCHANGED <<client, online, asked, told>>
  PROVE  PresenceInv'
<1>1. PresenceTyped /\ Phases
  BY DEF PresenceInv
<1>2. PICK m, u : m = Push(d, sub) /\ u = <<m>>
  OBVIOUS
<1>3. /\ Len(stream) + Len(u) <= MaxStream /\ stream' = stream \o u
      /\ link' = link /\ userlist' = userlist /\ online' = online /\ asked' = asked /\ told' = told
  BY <1>2 DEF Send, client
<1>4. link = "up" /\ asked
  BY <1>1, LinkIsUp
<1>5. m \in Stanzas /\ m.kind = "push" /\ m.contact = d /\ Sub(m, d) = sub /\ Resets(m, d)
  BY <1>2, PushStanza
<1>6. u \in Seq(Stanzas) /\ \A j \in 1..Len(u) : u[j].kind = "push" /\ u[j].contact = d
  BY <1>2, <1>5
<1>7. /\ out' \in Seq(Requests) /\ Len(out') <= MaxOut
      /\ \A i \in 1..Len(out') : i + 1 \in 1..Len(out) /\ out'[i] = out[i + 1]
      /\ \A c : c # d => /\ Leads(Waits(out, "set", c), Waits(out', "set", c))
                         /\ Leads(Waits(out, "probe", c), Waits(out', "probe", c))
  BY <1>1, OutShrinks
<1>8. roster' \in [Contacts -> Subs] /\ roster'[d] = sub /\ \A c \in Contacts : c # d => roster'[c] = roster[c]
  BY <1>1, ItemReplaced
<1>9. ASSUME NEW c \in Contacts PROVE Contact(c)'
  <2>1. Follows(stream, c, userlist[c], roster[c], Waits(out, "set", c), Waits(out, "probe", c), Sees(c), online[c])
    BY <1>4 DEF PresenceInv, Contact
  <2>2. CASE c # d
    <3>1. \A j \in 1..Len(u) : /\ u[j].kind \in {"push", "presence"} /\ u[j].contact = d
      BY <1>6
    <3>2. Leads(Waits(out, "set", c), Waits(out', "set", c)) /\ Leads(Waits(out, "probe", c), Waits(out', "probe", c))
      BY <1>7, <2>2
    <3>3. told' = told /\ roster'[c] = roster[c] /\ online'[c] = online[c] /\ userlist' = userlist
      BY <1>3, <1>8, <2>2
    <3> QED BY <1>1, <1>3, <1>6, <2>1, <2>2, <3>1, <3>2, <3>3, PushKeepsOthers
  <2>3. CASE c = d
    <3>1. PICK z, t : z = stream' /\ t = Sees(c)'
      OBVIOUS
    <3>2. stream \in Seq(Stanzas) /\ z = stream \o <<m>>
      BY <1>1, <1>2, <1>3, <3>1 DEF PresenceTyped
    <3>3. Heard(stream, c, userlist[c]) /\ \A r \in Resources : Farewell(stream, c, r, userlist[c])
      BY <2>1 DEF Follows
    <3>4. Resets(m, c) /\ Sub(m, c) = sub
      BY <1>5, <2>3
    <3>5. Follows(z, c, userlist[c], sub, Waits(out', "set", c), Waits(out', "probe", c), t, online[c])
      BY <1>5, <3>2, <3>3, <3>4, SendReset
    <3> QED BY <1>3, <1>8, <2>3, <3>1, <3>5, ContactIs
  <2> QED BY <2>2, <2>3
<1>10. PresenceTyped'
  <2>1. online' \in [Contacts -> [Resources -> OnlineT]] /\ asked' \in BOOLEAN /\ told' \in BOOLEAN
    BY <1>1, <1>3 DEF PresenceTyped
  <2>2. link' = link /\ userlist' = userlist
    BY <1>3
  <2> QED BY <1>1, <1>3, <1>6, <1>7, <1>8, <2>1, <2>2, SendTyped
<1>11. Phases'
  <2>1. Leads(told, told') /\ Leads(told', asked)
    BY <1>3, <1>4 DEF Leads
  <2>2. \A j \in 1..Len(u) : u[j].kind # "roster" /\ (u[j].kind = "presence" => told')
    BY <1>6
  <2> QED BY <1>1, <1>3, <1>4, <1>6, <1>7, <2>1, <2>2, SendPhases
<1> QED BY <1>9, <1>10, <1>11 DEF PresenceInv

LEMMA ServerSetKeeps ==
  ASSUME PresenceInv, ServerSet
  PROVE  PresenceInv'
<1>1. PresenceTyped
  BY DEF PresenceInv
<1>2. PICK d, sub : d = out[1].contact /\ sub = IF roster[d] = "absent" THEN "none" ELSE roster[d]
  OBVIOUS
<1>3. /\ out # << >> /\ out[1].kind = "set" /\ out' = Tail(out) /\ roster' = [roster EXCEPT ![d] = sub]
      /\ Send(<<Push(d, sub)>>) /\ UNCHANGED <<client, online, asked, told>>
  BY <1>2 DEF ServerSet
<1>4. d \in Contacts
  BY <1>1, <1>2, <1>3, OutFacts, RequestFacts
<1>5. sub \in Subs
  <2>1. roster[d] \in Subs
    BY <1>1, <1>4 DEF PresenceTyped
  <2> QED BY <1>2, <2>1 DEF Subs
<1> QED BY <1>2, <1>3, <1>4, <1>5, ItemKeeps

LEMMA ServerRemoveKeeps ==
  ASSUME PresenceInv, ServerRemove
  PROVE  PresenceInv'
<1>1. PresenceTyped
  BY DEF PresenceInv
<1>2. PICK d : d = out[1].contact
  OBVIOUS
<1>3. /\ out # << >> /\ out[1].kind = "remove" /\ out' = Tail(out) /\ roster' = [roster EXCEPT ![d] = "absent"]
      /\ Send(<<Push(d, "absent")>>) /\ UNCHANGED <<client, online, asked, told>>
  BY <1>2 DEF ServerRemove
<1>4. d \in Contacts /\ "absent" \in Subs
  BY <1>1, <1>2, <1>3, OutFacts, RequestFacts DEF Subs
<1> QED BY <1>2, <1>3, <1>4, ItemKeeps

LEMMA OnlineReplaced ==
  ASSUME PresenceTyped, NEW d \in Contacts, NEW r \in Resources, NEW o \in OnlineT, online' = [online EXCEPT ![d][r] = o]
  PROVE  /\ online' \in [Contacts -> [Resources -> OnlineT]]
         /\ \A c \in Contacts : c # d => online'[c] = online[c]
         /\ online'[d][r] = o /\ \A x \in Resources : x # r => online'[d][x] = online[d][x]
<1>1. online \in [Contacts -> [Resources -> OnlineT]] /\ online[d] \in [Resources -> OnlineT]
  BY DEF PresenceTyped
<1>2. PICK f : f = [online[d] EXCEPT ![r] = o]
  OBVIOUS
<1>3. f \in [Resources -> OnlineT] /\ f[r] = o /\ \A x \in Resources : x # r => f[x] = online[d][x]
  BY <1>1, <1>2
<1>4. online' = [online EXCEPT ![d] = f]
  BY <1>2
<1> QED BY <1>1, <1>3, <1>4

\* o is what is true of the resource r of d now, and m says so.
Says(m, d, r, o) ==
  /\ m \in Stanzas /\ m.kind = "presence" /\ m.contact = d /\ m.res = r
  /\ \/ m.show \in Present /\ o # Gone /\ m.prio = o.prio /\ m.show = o.show
     \/ m.show \in Away /\ o = Gone /\ online[d][r] # Gone

LEMMA MoveSendable ==
  ASSUME PresenceTyped, NEW d \in Contacts, NEW r \in Resources, NEW o \in OnlineT, online' = [online EXCEPT ![d][r] = o],
         NEW m, Says(m, d, r, o), NEW s, NEW e, NEW sub, NEW set, NEW probe, NEW t, Leads(TRUE, t), sub = "to",
         Follows(s, d, e, sub, set, probe, t, online[d]), NEW on2, on2 = online'[d]
  PROVE  Sendable(s, <<m>>, d, e, sub, probe, t, online[d], probe, t, on2)
<1>1. PICK u : u = <<m>>
  OBVIOUS
<1>2. Len(u) = 1 /\ u[1] = m /\ \A j \in 1..Len(u) : j = 1
  BY <1>1
<1>3. \A j \in 1..Len(u) : ~Resets(u[j], d) /\ (From(u[j], d) => sub # "absent")
  BY <1>2 DEF Says, Resets
<1>4. Tells(m, d, r) /\ \A x : x # r => ~Tells(m, d, x)
  BY DEF Says, Tells, From
<1>5. on2[r] = o /\ \A x \in Resources : x # r => on2[x] = online[d][x]
  BY OnlineReplaced
<1>6. ASSUME NEW x \in Resources
      PROVE  \/ Silent(u, d, x, t /\ online[d][x] # Gone, online[d][x], probe, t /\ on2[x] # Gone, on2[x], probe)
             \/ Telling(u, d, x, t /\ on2[x] # Gone, on2[x])
  <2>1. CASE x # r
    BY <1>2, <1>4, <1>5, <2>1 DEF Silent
  <2>2. CASE x = r
    <3>1. Fits(m, t /\ o # Gone, o)
      BY ShowFacts DEF Says, Fits, Leads
    <3>2. Telling(u, d, r, t /\ o # Gone, o)
      BY <1>2, <1>4, <3>1 DEF Telling
    <3> QED BY <1>5, <2>2, <3>2
  <2> QED BY <2>1, <2>2
<1>7. ASSUME NEW x \in Resources PROVE Greeting(u, d, x) \/ (Once(u, d, x) /\ Ready(s, Len(s), d, x, e))
  <2>1. CASE x # r \/ m.show \in Present
    BY <1>2, <1>4, <2>1 DEF Greeting
  <2>2. CASE x = r /\ m.show \notin Present
    <3>1. online[d][r] # Gone
      BY <2>2 DEF Says
    <3>2. online[d][r].show \in Present
      BY <3>1, OnlineFacts
    <3>3. Ends(s, d, r, e, t /\ online[d][r] # Gone, online[d][r], probe)
      BY DEF Follows
    <3>4. Leads(TRUE, t /\ online[d][r] # Gone)
      BY <3>1 DEF Leads
    <3>5. Ready(s, Len(s), d, r, e)
      BY <3>2, <3>3, <3>4, MayLeave
    <3> QED BY <1>2, <2>2, <3>5 DEF Once
  <2> QED BY <2>1, <2>2
<1> QED BY <1>1, <1>3, <1>6, <1>7 DEF Sendable

LEMMA MoveKeeps ==
  ASSUME PresenceInv, NEW d \in Contacts, NEW r \in Resources, NEW o \in OnlineT, online' = [online EXCEPT ![d][r] = o],
         NEW m, Says(m, d, r, o), IF Sees(d) THEN Send(<<m>>) ELSE UNCHANGED stream,
         UNCHANGED <<client, out, roster, asked, told>>
  PROVE  PresenceInv'
<1>1. PresenceTyped /\ Phases
  BY DEF PresenceInv
<1>2. PICK u : u = IF Sees(d) THEN <<m>> ELSE << >>
  OBVIOUS
<1>3. link' = link /\ userlist' = userlist /\ out' = out /\ roster' = roster /\ asked' = asked /\ told' = told
  BY DEF client
<1>4. m \in Stanzas /\ m.kind = "presence" /\ m.contact = d
  BY DEF Says
<1>5. stream \in Seq(Stanzas) /\ Len(stream) <= MaxStream /\ MaxStream \in Nat
  BY <1>1, PresenceAssumption DEF PresenceTyped
<1>6. /\ u \in Seq(Stanzas) /\ \A j \in 1..Len(u) : u[j].kind = "presence" /\ u[j].contact = d
      /\ Len(stream) + Len(u) <= MaxStream /\ stream' = stream \o u
  <2>1. CASE Sees(d)
    BY <1>2, <1>4, <2>1 DEF Send
  <2>2. CASE ~Sees(d)
    BY <1>2, <1>5, <2>2, ConcatEmptySeq
  <2> QED BY <2>1, <2>2
<1>7. /\ online' \in [Contacts -> [Resources -> OnlineT]]
      /\ \A c \in Contacts : c # d => online'[c] = online[c]
  BY <1>1, OnlineReplaced
<1>8. ASSUME asked, NEW c \in Contacts PROVE Contact(c)'
  <2>1. Follows(stream, c, userlist[c], roster[c], Waits(out, "set", c), Waits(out, "probe", c), Sees(c), online[c])
    BY <1>8 DEF PresenceInv, Contact
  <2>2. CASE c # d
    <3>1. \A j \in 1..Len(u) : /\ u[j].kind \in {"push", "presence"} /\ u[j].contact = d
      BY <1>6
    <3>2. Leads(Waits(out, "set", c), Waits(out', "set", c)) /\ Leads(Waits(out, "probe", c), Waits(out', "probe", c))
      BY <1>3 DEF Leads
    <3>3. told' = told /\ roster'[c] = roster[c] /\ online'[c] = online[c] /\ userlist' = userlist
      BY <1>3, <1>7, <2>2
    <3> QED BY <1>1, <1>6, <2>1, <2>2, <3>1, <3>2, <3>3, PushKeepsOthers
  <2>3. CASE c = d
    <3>1. PICK z, on2 : z = stream' /\ on2 = online'[d]
      OBVIOUS
    <3>2. Sendable(stream, u, c, userlist[c], roster[c], Waits(out, "probe", c), Sees(c), online[c],
                   Waits(out, "probe", c), Sees(c), on2)
      <4>1. CASE Sees(d)
        <5>1. Leads(TRUE, Sees(c)) /\ roster[c] = "to"
          BY <2>3, <4>1 DEF Leads, Sees
        <5>2. u = <<m>>
          BY <1>2, <4>1
        <5> QED BY <1>1, <2>1, <2>3, <3>1, <5>1, <5>2, MoveSendable
      <4>2. CASE ~Sees(d)
        <5>1. Len(u) = 0
          BY <1>2, <4>2
        <5>2. Muted(u, c, roster[c], Sees(c), online[c], Sees(c), on2)
          BY <2>3, <4>2, <5>1 DEF Muted
        <5> QED BY <5>2, MutedSendable
      <4> QED BY <4>1, <4>2
    <3>3. z = stream \o u /\ (Leads(Waits(out, "set", c), Waits(out, "set", c)) \/ roster[c] # "absent")
      BY <1>6, <3>1 DEF Leads
    <3>4. Follows(z, c, userlist[c], roster[c], Waits(out, "set", c), Waits(out, "probe", c), Sees(c), on2)
      BY <1>5, <1>6, <2>1, <3>2, <3>3, SendNews
    <3>5. Sees(c)' = Sees(c)
      BY <1>3 DEF Sees
    <3> QED BY <1>3, <2>3, <3>1, <3>4, <3>5 DEF Contact
  <2> QED BY <2>2, <2>3
<1>9. PresenceTyped'
  <2>1. /\ roster' \in [Contacts -> Subs] /\ asked' \in BOOLEAN /\ told' \in BOOLEAN
        /\ out' \in Seq(Requests) /\ Len(out') <= MaxOut
    BY <1>1, <1>3 DEF PresenceTyped
  <2>2. link' = link /\ userlist' = userlist
    BY <1>3
  <2> QED BY <1>1, <1>6, <1>7, <2>1, <2>2, SendTyped
<1>10. Phases'
  <2>1. Leads(told, told') /\ Leads(told', asked)
    BY <1>1, <1>3 DEF Leads, Phases
  <2>2. u = << >> \/ told
    BY <1>2 DEF Sees
  <2>3. u = << >> \/ asked
    BY <1>1, <2>2 DEF Phases
  <2>4. \A j \in 1..Len(u) : u[j].kind # "roster" /\ (u[j].kind = "presence" => told')
    <3>1. u = << >> => Len(u) = 0
      OBVIOUS
    <3> QED BY <1>3, <1>6, <2>2, <3>1
  <2> QED BY <1>1, <1>3, <1>6, <2>1, <2>3, <2>4, SendPhases
<1>11. asked' => \A c \in Contacts : Contact(c)'
  BY <1>3, <1>8
<1> QED BY <1>9, <1>10, <1>11 DEF PresenceInv

LEMMA AppearsKeeps ==
  ASSUME PresenceInv, NEW c \in Contacts, NEW r \in Resources, NEW prio \in Prios, NEW show \in Present,
         Appears(c, r, prio, show)
  PROVE  PresenceInv'
<1>1. PICK m, o : /\ m = [kind |-> "presence", contact |-> c, res |-> r, prio |-> prio, show |-> show]
                  /\ o = [prio |-> prio, show |-> show]
  OBVIOUS
<1>2. /\ online' = [online EXCEPT ![c][r] = o]
      /\ IF Sees(c) THEN Send(<<m>>) ELSE UNCHANGED stream
      /\ UNCHANGED <<client, out, roster, asked, told>>
  BY <1>1 DEF Appears
<1>3. o \in OnlineT /\ o # Gone /\ o.prio = prio /\ o.show = show
  <2>1. show # "na"
    BY PresenceAssumption
  <2> QED BY <1>1, <2>1 DEF OnlineT, Gone
<1>4. m \in Stanzas /\ m.kind = "presence" /\ m.contact = c /\ m.res = r /\ m.prio = prio /\ m.show = show
  BY <1>1 DEF Stanzas, PrioT
<1>5. Says(m, c, r, o)
  BY <1>3, <1>4 DEF Says
<1> QED BY <1>2, <1>3, <1>5, MoveKeeps

LEMMA LeavesKeeps ==
  ASSUME PresenceInv, NEW c \in Contacts, NEW r \in Resources, NEW show \in Away, Leaves(c, r, show)
  PROVE  PresenceInv'
<1>1. PICK m : m = Unavailable(c, r, show)
  OBVIOUS
<1>2. /\ online[c][r] # Gone /\ online' = [online EXCEPT ![c][r] = Gone]
      /\ IF Sees(c) THEN Send(<<m>>) ELSE UNCHANGED stream
      /\ UNCHANGED <<client, out, roster, asked, told>>
  BY <1>1 DEF Leaves
<1>3. Gone \in OnlineT
  BY DEF OnlineT
<1>4. m \in Stanzas /\ m.kind = "presence" /\ m.contact = c /\ m.res = r /\ m.show = show
  BY <1>1, UnavailableFacts
<1>5. Says(m, c, r, Gone)
  BY <1>2, <1>4 DEF Says
<1> QED BY <1>2, <1>3, <1>5, MoveKeeps

LEMMA ChangeKeeps ==
  ASSUME PresenceInv, NEW d \in Contacts, NEW sub \in {"to", "none"}, NEW w \in Seq(Stanzas),
         \A j \in 1..Len(w) : w[j].kind = "presence" /\ w[j].contact = d,
         roster' = [roster EXCEPT ![d] = sub], Change(d, sub, w), UNCHANGED <<client, out, online, asked, told>>,
         told => \A s : (\A r \in Resources : Ready(s, Len(s), d, r, userlist[d])) =>
            Sendable(s, w, d, userlist[d], sub, Waits(out, "probe", d), Sees(d)', online[d],
                     Waits(out, "probe", d), Sees(d)', online[d])
  PROVE  PresenceInv'
<1>1. PresenceTyped /\ Phases
  BY DEF PresenceInv
<1>2. PICK m, v, u : /\ m = Push(d, sub) /\ v = (IF told THEN w ELSE << >>)
                     /\ u = IF asked THEN <<m>> \o v ELSE << >>
  OBVIOUS
<1>3. link' = link /\ userlist' = userlist /\ out' = out /\ online' = online /\ asked' = asked /\ told' = told
  BY DEF client
<1>4. m \in Stanzas /\ m.kind = "push" /\ m.contact = d /\ Sub(m, d) = sub /\ Resets(m, d)
  <2>1. sub \in Subs
    BY DEF Subs
  <2> QED BY <1>2, <2>1, PushStanza
<1>5. stream \in Seq(Stanzas) /\ Len(stream) <= MaxStream /\ MaxStream \in Nat
  BY <1>1, PresenceAssumption DEF PresenceTyped
<1>6. /\ v \in Seq(Stanzas) /\ \A j \in 1..Len(v) : told /\ v[j].kind = "presence" /\ v[j].contact = d
      /\ <<m>> \in Seq(Stanzas)
  BY <1>2, <1>4
<1>7. /\ <<m>> \o v \in Seq(Stanzas)
      /\ \A j \in 1..Len(<<m>> \o v) : /\ (<<m>> \o v)[j].kind = "push" \/ ((<<m>> \o v)[j].kind = "presence" /\ told)
                                       /\ (<<m>> \o v)[j].contact = d
  <2>1. PICK a, z : a = <<m>> /\ z = a \o v
    OBVIOUS
  <2>2. a \in Seq(Stanzas) /\ Len(a) = 1 /\ a[1] = m
    BY <1>6, <2>1
  <2>3. /\ z \in Seq(Stanzas) /\ Len(v) \in Nat /\ Len(z) = 1 + Len(v)
        /\ \A i \in 1..1 : z[i] = a[i]
        /\ \A i \in 1..Len(v) : z[1 + i] = v[i]
        /\ \A i \in 1..Len(z) : i \notin 1..1 => i - 1 \in 1..Len(v) /\ 1 + (i - 1) = i
    BY <1>6, <2>1, <2>2, CatFacts
  <2>4. \A j \in 1..Len(z) : (z[j].kind = "push" \/ (z[j].kind = "presence" /\ told)) /\ z[j].contact = d
    <3> SUFFICES ASSUME NEW j \in 1..Len(z)
                 PROVE  (z[j].kind = "push" \/ (z[j].kind = "presence" /\ told)) /\ z[j].contact = d
      OBVIOUS
    <3>1. CASE j = 1
      BY <1>4, <2>2, <2>3, <3>1
    <3>2. CASE j # 1
      <4>1. PICK k : k = j - 1
        OBVIOUS
      <4>2. k \in 1..Len(v) /\ z[j] = v[k]
        BY <2>3, <3>2, <4>1
      <4> QED BY <1>6, <4>2
    <3> QED BY <3>1, <3>2
  <2> QED BY <2>1, <2>3, <2>4
<1>8. /\ u \in Seq(Stanzas) /\ Len(stream) + Len(u) <= MaxStream /\ stream' = stream \o u
      /\ \A j \in 1..Len(u) : (u[j].kind = "push" \/ (u[j].kind = "presence" /\ told)) /\ u[j].contact = d
  <2>1. CASE asked
    <3>1. Send(<<m>> \o v)
      BY <1>2, <2>1 DEF Change
    <3> QED BY <1>2, <1>7, <2>1, <3>1 DEF Send
  <2>2. CASE ~asked
    <3>1. u = << >> /\ stream' = stream
      BY <1>2, <2>2 DEF Change
    <3> QED BY <1>5, <3>1, ConcatEmptySeq
  <2> QED BY <2>1, <2>2
<1>9. roster' \in [Contacts -> Subs] /\ roster'[d] = sub /\ \A c \in Contacts : c # d => roster'[c] = roster[c]
  <2>1. sub \in Subs
    BY DEF Subs
  <2> QED BY <1>1, <2>1, ItemReplaced
<1>10. ASSUME asked, NEW c \in Contacts PROVE Contact(c)'
  <2>1. Follows(stream, c, userlist[c], roster[c], Waits(out, "set", c), Waits(out, "probe", c), Sees(c), online[c])
    BY <1>10 DEF PresenceInv, Contact
  <2>2. CASE c # d
    <3>1. \A j \in 1..Len(u) : /\ u[j].kind \in {"push", "presence"} /\ u[j].contact = d
      BY <1>8
    <3>2. Leads(Waits(out, "set", c), Waits(out', "set", c)) /\ Leads(Waits(out, "probe", c), Waits(out', "probe", c))
      BY <1>3 DEF Leads
    <3>3. told' = told /\ roster'[c] = roster[c] /\ online'[c] = online[c] /\ userlist' = userlist
      BY <1>3, <1>9, <2>2
    <3> QED BY <1>1, <1>8, <2>1, <2>2, <3>1, <3>2, <3>3, PushKeepsOthers
  <2>3. CASE c = d
    <3>1. PICK s1, z, e, on : s1 = stream \o <<m>> /\ z = stream' /\ e = userlist[d] /\ on = online[d]
      OBVIOUS
    <3>2. Heard(stream, d, e) /\ \A r \in Resources : Farewell(stream, d, r, e)
      BY <2>1, <2>3, <3>1 DEF Follows
    <3>3. /\ Follows(s1, d, e, sub, Waits(out, "set", d), Waits(out, "probe", d), Sees(d)', on)
          /\ \A r \in Resources : Ready(s1, Len(s1), d, r, e)
      BY <1>4, <1>5, <3>1, <3>2, SendReset
    <3>4. s1 \in Seq(Stanzas) /\ z = s1 \o v
      <4>1. z = stream \o (<<m>> \o v)
        BY <1>2, <1>8, <1>10, <3>1
      <4>2. PICK a : a = <<m>>
        OBVIOUS
      <4>3. a \in Seq(Stanzas) /\ v \in Seq(Stanzas) /\ stream \in Seq(Stanzas)
        BY <1>5, <1>6, <4>2
      <4>4. stream \o a \in Seq(Stanzas)
        BY <4>3, ConcatProperties
      <4>5. (stream \o a) \o v = stream \o (a \o v)
        BY <4>3, ConcatAssociative
      <4> QED BY <3>1, <4>1, <4>2, <4>4, <4>5
    <3>5. Follows(z, d, e, sub, Waits(out, "set", d), Waits(out, "probe", d), Sees(d)', on)
      <4>1. CASE told
        <5>1. Sendable(s1, w, d, e, sub, Waits(out, "probe", d), Sees(d)', on, Waits(out, "probe", d), Sees(d)', on)
          BY <3>1, <3>3, <4>1
        <5>2. z = s1 \o w
          BY <1>2, <3>4, <4>1
        <5>3. Leads(Waits(out, "set", d), Waits(out, "set", d)) \/ sub # "absent"
          BY DEF Leads
        <5> QED BY <3>3, <3>4, <5>1, <5>2, <5>3, SendNews
      <4>2. CASE ~told
        <5>1. z = s1
          BY <1>2, <3>4, <4>2, ConcatEmptySeq
        <5> QED BY <3>3, <5>1
      <4> QED BY <4>1, <4>2
    <3>6. userlist'[d] = e /\ roster'[d] = sub /\ online'[d] = on /\ out' = out
      BY <1>3, <1>9, <3>1
    <3> QED BY <2>3, <3>1, <3>5, <3>6 DEF Contact
  <2> QED BY <2>2, <2>3
<1>11. PresenceTyped'
  <2>1. /\ online' \in [Contacts -> [Resources -> OnlineT]] /\ asked' \in BOOLEAN /\ told' \in BOOLEAN
        /\ out' \in Seq(Requests) /\ Len(out') <= MaxOut
    BY <1>1, <1>3 DEF PresenceTyped
  <2>2. link' = link /\ userlist' = userlist
    BY <1>3
  <2> QED BY <1>1, <1>8, <1>9, <2>1, <2>2, SendTyped
<1>12. Phases'
  <2>1. Leads(told, told') /\ Leads(told', asked)
    BY <1>1, <1>3 DEF Leads, Phases
  <2>2. u = << >> \/ asked
    BY <1>2
  <2>3. \A j \in 1..Len(u) : u[j].kind # "roster" /\ (u[j].kind = "presence" => told')
    BY <1>3, <1>8
  <2> QED BY <1>1, <1>3, <1>8, <2>1, <2>2, <2>3, SendPhases
<1>13. asked' => \A c \in Contacts : Contact(c)'
  BY <1>3, <1>10
<1> QED BY <1>11, <1>12, <1>13 DEF PresenceInv

LEMMA ApproveKeeps ==
  ASSUME PresenceInv, NEW d \in Contacts, Approve(d)
  PROVE  PresenceInv'
<1>1. PresenceTyped
  BY DEF PresenceInv
<1>2. PICK w : w = Presences(d)
  OBVIOUS
<1>3. Reports(w, {d})
  BY <1>1, <1>2, PresencesReport
<1>4. w \in Seq(Stanzas) /\ \A j \in 1..Len(w) : w[j].kind = "presence" /\ w[j].contact = d
  BY <1>3 DEF Reports
<1>5. /\ roster' = [roster EXCEPT ![d] = "to"] /\ Change(d, "to", w)
      /\ UNCHANGED <<client, out, online, asked, told>>
  BY <1>2 DEF Approve
<1>6. roster'[d] = "to"
  BY <1>1, <1>5, ItemReplaced DEF Subs
<1>7. ASSUME told, NEW s
      PROVE  Sendable(s, w, d, userlist[d], "to", Waits(out, "probe", d), Sees(d)', online[d],
                      Waits(out, "probe", d), Sees(d)', online[d])
  <2>1. Reported({d}, d, "to", Sees(d)', Sees(d)', Waits(out, "probe", d), Waits(out, "probe", d))
    BY <1>5, <1>6, <1>7 DEF Reported, Sees
  <2> QED BY <1>1, <1>3, <2>1, ReportsSendable
<1> QED BY <1>4, <1>5, <1>7, ChangeKeeps

LEMMA RevokeKeeps ==
  ASSUME PresenceInv, NEW d \in Contacts, Revoke(d)
  PROVE  PresenceInv'
<1>1. PresenceTyped
  BY DEF PresenceInv
<1>2. PICK w : w = Unavailables(d)
  OBVIOUS
<1>3. Speaks(w, d) /\ \A j \in 1..Len(w) : w[j].show = "na"
  BY <1>1, <1>2, UnavailablesFacts
<1>4. w \in Seq(Stanzas) /\ \A j \in 1..Len(w) : w[j].kind = "presence" /\ w[j].contact = d /\ w[j].res \in Here(d)
  BY <1>3 DEF Speaks
<1>5. /\ roster' = [roster EXCEPT ![d] = "none"] /\ Change(d, "none", w)
      /\ UNCHANGED <<client, out, online, asked, told>>
  BY <1>2 DEF Revoke, Unavailables
<1>6. ~Sees(d)'
  <2>1. roster'[d] = "none"
    BY <1>1, <1>5, ItemReplaced DEF Subs
  <2> QED BY <2>1 DEF Sees
<1>7. ASSUME NEW s, \A r \in Resources : Ready(s, Len(s), d, r, userlist[d])
      PROVE  Sendable(s, w, d, userlist[d], "none", Waits(out, "probe", d), Sees(d)', online[d],
                      Waits(out, "probe", d), Sees(d)', online[d])
  <2>1. \A j \in 1..Len(w) : ~Resets(w[j], d) /\ (From(w[j], d) => "none" # "absent")
    BY <1>4 DEF Resets
  <2>2. ASSUME NEW r \in Resources
        PROVE  \/ Silent(w, d, r, Sees(d)' /\ online[d][r] # Gone, online[d][r], Waits(out, "probe", d),
                         Sees(d)' /\ online[d][r] # Gone, online[d][r], Waits(out, "probe", d))
               \/ Telling(w, d, r, Sees(d)' /\ online[d][r] # Gone, online[d][r])
    <3>1. CASE \E j \in 1..Len(w) : Tells(w[j], d, r)
      <4>1. "na" \in NotHere
        BY PresenceAssumption DEF NotHere
      <4>2. \A j \in 1..Len(w) : Fits(w[j], Sees(d)' /\ online[d][r] # Gone, online[d][r])
        BY <1>3, <1>6, <4>1 DEF Fits
      <4> QED BY <3>1, <4>2 DEF Telling
    <3>2. CASE ~\E j \in 1..Len(w) : Tells(w[j], d, r)
      BY <3>2 DEF Silent
    <3> QED BY <3>1, <3>2
  <2>3. \A r \in Resources : Once(w, d, r) /\ Ready(s, Len(s), d, r, userlist[d])
    BY <1>3, <1>7 DEF Speaks
  <2> QED BY <2>1, <2>2, <2>3 DEF Sendable
<1> QED BY <1>4, <1>5, <1>7, ChangeKeeps

-----------------------------------------------------------------------------
(* The theorems. *)

LEMMA PresenceInitInv ==
  ASSUME PresenceInit
  PROVE  PresenceInv
<1>1. /\ link = "down" /\ userlist = [c \in Contacts |-> NoEntry] /\ stream = << >> /\ out = << >>
      /\ roster \in [Contacts -> {"absent", "to"}]
      /\ online = [c \in Contacts |-> [r \in Resources |-> Gone]]
      /\ asked = FALSE /\ told = FALSE
  BY DEF PresenceInit
<1>2. userlist \in [Contacts -> Entries] /\ \A c \in Contacts : ~userlist[c].there
  BY <1>1, NewEntries
<1>3. online \in [Contacts -> [Resources -> OnlineT]]
  BY <1>1 DEF OnlineT
<1>4. stream \in Seq(Stanzas) /\ out \in Seq(Requests) /\ Len(stream) <= MaxStream /\ Len(out) <= MaxOut
  <2>1. 0 <= MaxStream /\ 0 <= MaxOut
    BY PresenceAssumption
  <2> QED BY <1>1, <2>1
<1>5. roster \in [Contacts -> Subs]
  BY <1>1 DEF Subs
<1>6. PresenceTyped
  BY <1>1, <1>2, <1>3, <1>4, <1>5 DEF PresenceTyped
<1>7. Phases
  BY <1>1 DEF Phases
<1> QED BY <1>1, <1>6, <1>7 DEF PresenceInv

LEMMA PresenceStep ==
  ASSUME PresenceInv, [PresenceNext]_presenceVars
  PROVE  PresenceInv'
<1>1. CASE Program
  BY <1>1, ConnectKeeps, TakeRosterKeeps, TakePushKeeps, TakePresenceKeeps, CommandKeeps DEF Program
<1>2. CASE Server
  <2>1. CASE ServerGet \/ ServerPresence \/ ServerProbe \/ ServerSet \/ ServerRemove
    BY <2>1, ServerGetKeeps, ServerPresenceKeeps, ServerProbeKeeps, ServerSetKeeps, ServerRemoveKeeps
  <2>2. CASE \E c \in Contacts : Approve(c) \/ Revoke(c)
    BY <2>2, ApproveKeeps, RevokeKeeps
  <2>3. CASE \E c \in Contacts, r \in Resources :
               \/ \E prio \in Prios, show \in Present : Appears(c, r, prio, show)
               \/ \E show \in Away : Leaves(c, r, show)
    BY <2>3, AppearsKeeps, LeavesKeeps
  <2> QED BY <1>2, <2>1, <2>2, <2>3 DEF Server
<1>3. CASE Break
  BY <1>3, BreakKeeps
<1>4. CASE UNCHANGED presenceVars
  BY <1>4 DEF presenceVars, PresenceInv, PresenceTyped, Phases, Contact, Sees
<1> QED BY <1>1, <1>2, <1>3, <1>4 DEF PresenceNext

\* Once all that is on its way is read, what an entry knows is the truth.
THEOREM EntriesFollow == PresenceSpec => []PresenceInv
<1>1. PresenceInit => PresenceInv
  BY PresenceInitInv
<1>2. PresenceInv /\ [PresenceNext]_presenceVars => PresenceInv'
  BY PresenceStep
<1> QED BY <1>1, <1>2, PTL DEF PresenceSpec

\* No resource is listed twice, and the bounds are kept.
LEMMA PresenceTypes ==
  ASSUME PresenceInv
  PROVE  PresenceTypeOK
<1>1. PresenceTyped
  BY DEF PresenceInv
<1>2. ASSUME NEW c \in Contacts, userlist[c].there
      PROVE  /\ userlist[c].auth \in BOOLEAN
             /\ userlist[c].status \in Present \cup NotHere
             /\ userlist[c].resources \in Seq([name : Resources, prio : Prios \cup {DefaultPrio}, show : Present \cup NotHere])
             /\ Distinct(userlist[c].resources)
  <2>1. PICK e : e = userlist[c]
    OBVIOUS
  <2>2. e \in EntryT /\ EntrySound(e)
    BY <1>1, <1>2, <2>1, EntryIs
  <2>3. e.auth \in BOOLEAN /\ e.status \in Statuses /\ e.resources \in Seq(ResourceT)
    BY <2>2 DEF EntryT
  <2>4. DOMAIN e.resources = 1..Len(e.resources)
    BY <2>3
  <2>5. Distinct(e.resources)
    BY <2>2, <2>4 DEF EntrySound, Single, Distinct
  <2> QED BY <2>1, <2>3, <2>5 DEF Statuses, ResourceT, PrioT
<1> QED BY <1>1, <1>2 DEF PresenceTypeOK, PresenceTyped, Subs

\* The variables of Presence keep their types, and no resource is listed twice.
THEOREM PresenceTypeSafety == PresenceSpec => []PresenceTypeOK
<1>1. PresenceInv => PresenceTypeOK
  BY PresenceTypes
<1> QED BY <1>1, EntriesFollow, PTL

\* When all is quiet: of a contact, and of its resource r.
LEMMA QuietFacts ==
  ASSUME PresenceInv, Quiet, NEW c \in Contacts
  PROVE  /\ userlist[c].there <=> roster[c] # "absent"
         /\ userlist[c].there => (userlist[c].auth <=> roster[c] = "to")
         /\ \A r \in Resources :
              /\ \A x : Has(userlist[c], r, x) => Fits(x, Sees(c) /\ online[c][r] # Gone, online[c][r])
              /\ Sees(c) /\ online[c][r] # Gone => \E x : Has(userlist[c], r, x)
<1>1. link = "up" /\ told /\ stream = << >> /\ out = << >>
  BY DEF Quiet
<1>2. Contact(c)
  BY <1>1 DEF PresenceInv, Phases
<1>3. PICK s, e, p, q : /\ s = stream /\ e = userlist[c]
                        /\ p = Waits(out, "set", c) /\ q = Waits(out, "probe", c)
  OBVIOUS
<1>4. Len(s) = 0 /\ ~p /\ ~q
  BY <1>1, <1>3 DEF Waits
<1>5. Follows(s, c, e, roster[c], p, q, Sees(c), online[c])
  BY <1>2, <1>3 DEF Contact
<1>6. Nothing(ResetsAt(s, c), Len(s)) /\ \A r : Nothing(NewsAt(s, c, r), Len(s))
  BY <1>4 DEF Nothing, ResetsAt, NewsAt
<1>7. Agreed(s, c, e, roster[c], p)
  BY <1>5, <1>6 DEF Follows, Sequel
<1>8. /\ e.there <=> roster[c] # "absent"
      /\ e.there => (e.auth <=> roster[c] = "to")
  BY <1>4, <1>7 DEF Agreed
<1>9. ASSUME NEW r \in Resources
      PROVE  /\ \A x : Has(e, r, x) => Fits(x, Sees(c) /\ online[c][r] # Gone, online[c][r])
             /\ Sees(c) /\ online[c][r] # Gone => \E x : Has(e, r, x)
  <2>1. Ends(s, c, r, e, Sees(c) /\ online[c][r] # Gone, online[c][r], q)
    BY <1>5 DEF Follows
  <2> QED BY <1>4, <1>6, <2>1 DEF Ends
<1> QED BY <1>3, <1>8, <1>9

\* The same, of an entry: each resource that is listed, and each that is there.
LEMMA QuietEntry ==
  ASSUME PresenceInv, Quiet, NEW c \in Contacts, userlist[c].there, NEW rs, rs = userlist[c].resources
  PROVE  /\ rs \in Seq(ResourceT) /\ Single(rs)
         /\ \A i \in 1..Len(rs) : rs[i].show \in NotHere
               \/ /\ Sees(c) /\ rs[i].name \in Here(c)
                  /\ rs[i].prio = online[c][rs[i].name].prio /\ rs[i].show = online[c][rs[i].name].show
         /\ \A r \in Here(c) : Sees(c) => \E i \in 1..Len(rs) :
               /\ rs[i].name = r /\ rs[i].prio = online[c][r].prio /\ rs[i].show = online[c][r].show
               /\ rs[i].show \in Present
<1>1. PresenceTyped
  BY DEF PresenceInv
<1>2. PICK e : e = userlist[c]
  OBVIOUS
<1>3. e \in EntryT /\ EntrySound(e) /\ e.there
  BY <1>1, <1>2, EntryIs
<1>4. rs \in Seq(ResourceT) /\ Single(rs) /\ rs = e.resources
  BY <1>2, <1>3 DEF EntryT, EntrySound
<1>5. \A r \in Resources :
         /\ \A x : Has(e, r, x) => Fits(x, Sees(c) /\ online[c][r] # Gone, online[c][r])
         /\ Sees(c) /\ online[c][r] # Gone => \E x : Has(e, r, x)
  BY <1>2, QuietFacts
<1>6. ASSUME NEW i \in 1..Len(rs), rs[i].show \notin NotHere
      PROVE  /\ Sees(c) /\ rs[i].name \in Here(c)
             /\ rs[i].prio = online[c][rs[i].name].prio /\ rs[i].show = online[c][rs[i].name].show
  <2>1. PICK x, r : x = rs[i] /\ r = x.name
    OBVIOUS
  <2>2. x \in ResourceT
    BY <1>4, <2>1
  <2>3. r \in Resources /\ Has(e, r, x)
    BY <1>3, <1>4, <2>1, <2>2 DEF Has, In, ResourceT
  <2>4. Fits(x, Sees(c) /\ online[c][r] # Gone, online[c][r])
    BY <1>5, <2>3
  <2>5. Sees(c) /\ online[c][r] # Gone /\ x.prio = online[c][r].prio /\ x.show = online[c][r].show
    BY <1>6, <2>1, <2>4 DEF Fits
  <2> QED BY <2>1, <2>3, <2>5 DEF Here
<1>7. ASSUME NEW r \in Here(c), Sees(c)
      PROVE  \E i \in 1..Len(rs) : /\ rs[i].name = r /\ rs[i].prio = online[c][r].prio /\ rs[i].show = online[c][r].show
                                   /\ rs[i].show \in Present
  <2>1. r \in Resources /\ online[c][r] # Gone
    BY DEF Here
  <2>2. online[c][r].show \in Present
    BY <1>1, <2>1, OnlineFacts
  <2>3. PICK x : Has(e, r, x)
    BY <1>5, <1>7, <2>1
  <2>4. x.prio = online[c][r].prio /\ x.show = online[c][r].show
    <3>1. Fits(x, Sees(c) /\ online[c][r] # Gone, online[c][r])
      BY <1>5, <2>1, <2>3
    <3> QED BY <1>7, <2>1, <3>1 DEF Fits
  <2>5. PICK i \in 1..Len(rs) : rs[i] = x /\ x.name = r
    BY <1>4, <2>3 DEF Has, In
  <2> QED BY <2>2, <2>4, <2>5
<1>8. \A i \in 1..Len(rs) : rs[i].show \in NotHere
         \/ /\ Sees(c) /\ rs[i].name \in Here(c)
            /\ rs[i].prio = online[c][rs[i].name].prio /\ rs[i].show = online[c][rs[i].name].show
  BY <1>6
<1> QED BY <1>4, <1>7, <1>8

LEMMA OnlineShown ==
  ASSUME PresenceInv
  PROVE  ShowsOnline
<1> SUFFICES ASSUME Quiet, NEW c \in Contacts
             PROVE  /\ userlist[c].there <=> roster[c] # "absent"
                    /\ userlist[c].there => /\ userlist[c].auth <=> roster[c] = "to"
                                            /\ Listed(userlist[c]) = Visible(c)
  BY DEF ShowsOnline
<1>1. ASSUME userlist[c].there PROVE Listed(userlist[c]) = Visible(c)
  <2>1. PICK rs : rs = userlist[c].resources
    OBVIOUS
  <2>2. /\ rs \in Seq(ResourceT)
        /\ \A i \in 1..Len(rs) : rs[i].show \in NotHere
              \/ /\ Sees(c) /\ rs[i].name \in Here(c)
                 /\ rs[i].prio = online[c][rs[i].name].prio /\ rs[i].show = online[c][rs[i].name].show
        /\ \A r \in Here(c) : Sees(c) => \E i \in 1..Len(rs) :
              /\ rs[i].name = r /\ rs[i].prio = online[c][r].prio /\ rs[i].show = online[c][r].show
              /\ rs[i].show \in Present
    BY <1>1, <2>1, QuietEntry
  <2>3. \A y : y \in Listed(userlist[c]) <=>
          \E i \in 1..Len(rs) : rs[i].show \notin NotHere /\ y = <<rs[i].name, rs[i].show>>
    <3>1. DOMAIN rs = 1..Len(rs)
      BY <2>2
    <3> QED BY <2>1, <3>1 DEF Listed
  <2>4. \A y : y \in Visible(c) <=> \E r \in Here(c) : Sees(c) /\ y = <<r, online[c][r].show>>
    BY DEF Visible
  <2>5. ASSUME NEW y \in Listed(userlist[c]) PROVE y \in Visible(c)
    <3>1. PICK i \in 1..Len(rs) : rs[i].show \notin NotHere /\ y = <<rs[i].name, rs[i].show>>
      BY <2>3
    <3>2. PICK r, show : r = rs[i].name /\ show = rs[i].show
      OBVIOUS
    <3>3. Sees(c) /\ r \in Here(c) /\ show = online[c][r].show
      BY <2>2, <3>1, <3>2
    <3> QED BY <2>4, <3>1, <3>2, <3>3
  <2>6. ASSUME NEW y \in Visible(c) PROVE y \in Listed(userlist[c])
    <3>1. PICK r \in Here(c) : Sees(c) /\ y = <<r, online[c][r].show>>
      BY <2>4
    <3>2. PICK i \in 1..Len(rs) : rs[i].name = r /\ rs[i].show = online[c][r].show /\ rs[i].show \in Present
      BY <2>2, <3>1
    <3>3. rs[i].show \notin NotHere
      BY <3>2, ShowFacts
    <3> QED BY <2>3, <3>1, <3>2, <3>3
  <2> QED BY <2>5, <2>6
<1> QED BY <1>1, QuietFacts

\* When all is quiet the entries are the server's roster, and the resources
\* listed as being there are those that are, with the shows they have
\* (jabber_handle_iq_roster, jabber_handle_presence).
THEOREM OnlineIsShown == PresenceSpec => []ShowsOnline
<1>1. PresenceInv => ShowsOnline
  BY OnlineShown
<1> QED BY <1>1, EntriesFollow, PTL

LEMMA Descending ==
  ASSUME NEW rs \in Seq(ResourceT), \A i \in 1..(Len(rs) - 1) : rs[i].prio >= rs[i + 1].prio
  PROVE  \A i \in 1..Len(rs) : rs[i].prio <= rs[1].prio
<1> DEFINE n == Len(rs)
           P == {0} \cup {i \in 1..n : rs[i].prio <= rs[1].prio}
<1>1. n \in Nat /\ \A i \in 1..n : rs[i].prio \in Nat
  <2>1. \A i \in 1..n : rs[i] \in ResourceT
    OBVIOUS
  <2>2. PrioT \subseteq Nat
    BY PresenceAssumption DEF PrioT, DefaultPrio
  <2>3. \A x \in ResourceT : x.prio \in PrioT
    BY DEF ResourceT
  <2>4. n \in Nat
    OBVIOUS
  <2> HIDE DEF n
  <2> QED BY <2>1, <2>2, <2>3, <2>4
<1>2. ASSUME NEW i \in 1..n, i - 1 \in P PROVE i \in P
  <2>1. CASE i = 1
    BY <1>1, <2>1
  <2>2. CASE i # 1
    <3>1. PICK k : k = i - 1
      OBVIOUS
    <3>2. k \in 1..(n - 1) /\ k \in 1..n /\ k + 1 = i /\ 1 \in 1..n
      BY <1>1, <2>2, <3>1
    <3>3. rs[k].prio <= rs[1].prio /\ rs[k].prio >= rs[i].prio
      BY <1>2, <3>1, <3>2
    <3>4. rs[k].prio \in Nat /\ rs[i].prio \in Nat /\ rs[1].prio \in Nat
      BY <1>1, <3>2
    <3> QED BY <3>3, <3>4
  <2> QED BY <2>1, <2>2
<1>3. 0 \in P
  OBVIOUS
<1> HIDE DEF P
<1>4. \A i \in 0..n : i \in P
  BY <1>1, <1>2, <1>3, Upwards
<1> QED BY <1>1, <1>4 DEF P

LEMMA HighestShown ==
  ASSUME PresenceInv
  PROVE  ShowsHighest
<1> SUFFICES ASSUME Quiet, NEW c \in Contacts, userlist[c].there, InOrder(userlist[c].resources)
             PROVE  IF Visible(c) = {} THEN userlist[c].status \in NotHere
                    ELSE \E r \in Here(c) : /\ \A x \in Here(c) : online[c][x].prio <= online[c][r].prio
                                            /\ userlist[c].status = online[c][r].show
  BY DEF ShowsHighest
<1>1. PICK rs, status : rs = userlist[c].resources /\ status = userlist[c].status
  OBVIOUS
<1>2. /\ rs \in Seq(ResourceT)
      /\ \A i \in 1..Len(rs) : rs[i].show \in NotHere
            \/ /\ Sees(c) /\ rs[i].name \in Here(c)
               /\ rs[i].prio = online[c][rs[i].name].prio /\ rs[i].show = online[c][rs[i].name].show
      /\ \A r \in Here(c) : Sees(c) => \E i \in 1..Len(rs) :
            /\ rs[i].name = r /\ rs[i].prio = online[c][r].prio /\ rs[i].show = online[c][r].show
            /\ rs[i].show \in Present
  BY <1>1, QuietEntry
<1>3. /\ \A i \in 1..(Len(rs) - 1) : rs[i].prio >= rs[i + 1].prio
      /\ \A i \in 1..Len(rs) : rs[i].show \in Present
  BY <1>1 DEF InOrder
<1>4. /\ rs = << >> => status \in NotHere
      /\ rs # << >> => status = rs[1].show
  <2>1. EntrySound(userlist[c])
    BY EntryIs DEF PresenceInv
  <2> QED BY <1>1, <1>3, <2>1 DEF EntrySound, AllHere
<1>5. Visible(c) = {} <=> ~(Sees(c) /\ Here(c) # {})
  BY DEF Visible
<1>6. \A i \in 1..Len(rs) : Sees(c) /\ rs[i].name \in Here(c) /\ rs[i].prio = online[c][rs[i].name].prio
                            /\ rs[i].show = online[c][rs[i].name].show
  BY <1>2, <1>3, ShowFacts
<1>7. rs # << >> => 1 \in 1..Len(rs)
  BY <1>2, EmptySeq
<1>8. CASE rs = << >>
  <2>1. Len(rs) = 0
    BY <1>8
  <2>2. Visible(c) = {}
    BY <1>2, <1>5, <2>1
  <2> QED BY <1>1, <1>4, <1>8, <2>2
<1>9. CASE rs # << >>
  <2>1. PICK r : r = rs[1].name
    OBVIOUS
  <2>2. Sees(c) /\ r \in Here(c) /\ rs[1].prio = online[c][r].prio /\ status = online[c][r].show
    BY <1>4, <1>6, <1>7, <1>9, <2>1
  <2>3. \A i \in 1..Len(rs) : rs[i].prio <= rs[1].prio
    BY <1>2, <1>3, Descending
  <2>4. ASSUME NEW x \in Here(c) PROVE online[c][x].prio <= online[c][r].prio
    <3>1. PICK i \in 1..Len(rs) : rs[i].prio = online[c][x].prio
      BY <1>2, <2>2
    <3>2. rs[i].prio <= rs[1].prio
      BY <2>3
    <3> QED BY <2>2, <3>1, <3>2
  <2> QED BY <1>1, <1>5, <2>2, <2>4
<1> QED BY <1>8, <1>9

\* When all is quiet a contact is shown with the status of its resource of the
\* highest priority, and as not there when it has none (protocol_status).
THEOREM HighestIsShown == PresenceSpec => []ShowsHighest
<1>1. PresenceInv => ShowsHighest
  BY HighestShown
<1> QED BY <1>1, EntriesFollow, PTL

\* A presence that is read finds the entry of its contact, so that nothing of
\* protocol_status() depends on what it does for somebody who has none: it
\* returns, or with auto_user_add adds an entry (protocol.c:349).
PresenceFindsEntry ==
  stream # << >> /\ stream[1].kind = "presence" => userlist[stream[1].contact].there

THEOREM PresencesFindEntries == PresenceSpec => []PresenceFindsEntry
<1>1. PresenceInv => PresenceFindsEntry
  <2> SUFFICES ASSUME PresenceInv, stream # << >>, stream[1].kind = "presence"
               PROVE  userlist[stream[1].contact].there
    BY DEF PresenceFindsEntry
  <2>1. PresenceTyped /\ Phases /\ stream \in Seq(Stanzas)
    BY DEF PresenceInv, PresenceTyped
  <2>2. PICK m, d : m = stream[1] /\ d = m.contact
    OBVIOUS
  <2>3. m \in Stanzas
    BY <2>1, <2>2, StreamFacts
  <2>4. d \in Contacts /\ From(m, d)
    BY <2>2, <2>3 DEF Stanzas, From
  <2>5. asked
    BY <2>1 DEF Phases
  <2>6. Follows(stream, d, userlist[d], roster[d], Waits(out, "set", d), Waits(out, "probe", d), Sees(d), online[d])
    BY <2>4, <2>5 DEF PresenceInv, Contact
  <2>7. userlist[d].there
    BY <2>1, <2>2, <2>4, <2>6, HeadFacts
  <2> QED BY <2>2, <2>7
<1> QED BY <1>1, EntriesFollow, PTL
=============================================================================
