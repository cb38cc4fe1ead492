------------------------------ MODULE Presence ------------------------------
(***************************************************************************)
(* What an xmpp account knows of its contacts: the roster that             *)
(* jabber_handle_iq_roster() builds, the resources that                    *)
(* jabber_handle_presence() adds and removes, and the status that          *)
(* protocol_status() (src/ekg/protocol.c) shows for a contact, against an  *)
(* XMPP server (external) that sends rosters, pushes and presences in one  *)
(* stream, answers probes, and whose contacts come, change and go.         *)
(*                                                                         *)
(* A "show" is a status with its description.  Resources are numbered in   *)
(* the order of their names.  A contact has one entry: commands that       *)
(* would add one before the roster has come are left out.                  *)
(***************************************************************************)
EXTENDS Naturals, FiniteSets, SequencesExt

CONSTANTS
    Contacts,   \* the uids
    Resources,  \* the names of resources, positive numbers
    Prios,      \* the priorities that contacts choose
    Present,    \* shows of somebody who is there
    Away,       \* shows of somebody who is gone
    MaxStream,  \* bound: stanzas on their way to the program
    MaxOut      \* bound: stanzas on their way to the server

ASSUME PresenceAssumption ==
    /\ IsFiniteSet(Contacts)
    /\ IsFiniteSet(Resources) /\ Resources \subseteq Nat \ {0}
    /\ Prios \subseteq Nat
    /\ "na" \in Away /\ "unknown" \notin Away
    /\ (Away \cup {"unknown"}) \cap Present = {}
    /\ MaxStream \in Nat /\ MaxOut \in Nat \ {0}

VARIABLES
    link,      \* "down", "roster" (__roster_retrieved is 0) or "up"
    userlist,  \* per contact NoEntry, or its entry
    stream,    \* stanzas on their way to the program
    out,       \* stanzas on their way to the server
    roster,    \* server: per contact "absent", "none" or "to" (we may see it)
    online,    \* server: per contact and resource Gone or [prio, show]
    asked,     \* server: the roster was asked for, so we are sent its changes
    told       \* server: our own presence has come, so we are sent others'

client == <<link, userlist>>
server == <<roster, online, asked, told>>
presenceVars == <<link, userlist, stream, out, roster, online, asked, told>>

Bare == 0              \* a stanza from the contact, not from a resource
NoEntry == [there |-> FALSE]
Gone == [prio |-> 0, show |-> "na"]
DefaultPrio == 10      \* of a stanza without <priority>
NotHere == Away \cup {"unknown"}

Entry(auth, status, resources) ==
    [there |-> TRUE, auth |-> auth, status |-> status, resources |-> resources]

\* userlist_add(): nobody has seen the contact yet.
NewEntry == Entry(FALSE, "na", << >>)

-----------------------------------------------------------------------------
(* Resources and the status shown (userlist.c, protocol.c)                 *)

\* userlist_resource_compare(): r is put before x.
Before(r, x) == r.prio > x.prio \/ (r.prio = x.prio /\ r.name <= x.name)

\* userlist_resource_add(): behind all it sorts after.
ResourceAdd(rs, name, prio) ==
    LET r == [name |-> name, prio |-> prio, show |-> "na"]
        at == Min({i \in 1..Len(rs) : Before(r, rs[i])} \cup {Len(rs) + 1})
    IN InsertAt(rs, at, r)

\* userlist_resource_find(): its place, or 0.
ResourceFind(rs, name) ==
    LET found == {i \in 1..Len(rs) : rs[i].name = name}
    IN IF found = {} THEN 0 ELSE Min(found)

\* Slip: the contact's status is always the one that came.
ShownLast(rs, show) == show

\* The status of the first resource, "highest prio", or the one that came.
Shown(rs, show) == IF rs = << >> THEN show ELSE rs[1].show

\* protocol_status() for a contact of the userlist: the same status as before
\* changes nothing.
ProtocolStatus(e, res, show) ==
    LET i == ResourceFind(e.resources, res)
        st == IF i = 0 THEN e.status ELSE e.resources[i].show
        rs == IF i = 0 THEN e.resources
              ELSE [e.resources EXCEPT ![i].show = show]
    IN IF show = st THEN e
       ELSE Entry(e.auth, Shown(rs, show), rs)

\* The resource of a stanza is removed or given its priority, where it stands,
\* when it is known, and added, whatever the stanza says, when it is not.
PresenceResources(rs, m) ==
    LET i == ResourceFind(rs, m.res)
    IN IF i = 0 THEN ResourceAdd(rs, m.res, m.prio)
       ELSE IF m.show \in Away THEN RemoveAt(rs, i)
       ELSE [rs EXCEPT ![i].prio = m.prio]

\* jabber_handle_presence(): without authorisation "unavailable" means unknown.
HandlePresence(e, m) ==
    LET show == IF m.show \in Away /\ ~e.auth THEN "unknown" ELSE m.show
        rs == IF m.res = Bare THEN e.resources ELSE PresenceResources(e.resources, m)
    IN ProtocolStatus([e EXCEPT !.resources = rs], m.res, show)

\* The entry of a roster's item, added anew.
ItemEntry(sub) ==
    IF sub = "to" THEN Entry(TRUE, "na", << >>) ELSE Entry(FALSE, "unknown", << >>)

-----------------------------------------------------------------------------
(* The program                                                             *)

\* jabber_session_connected(): the old userlist is freed, the roster asked for.
Connect ==
    /\ link = "down"
    /\ link' = "roster"
    /\ userlist' = [c \in Contacts |-> NoEntry]
    /\ out' = <<[kind |-> "get"]>>
    /\ UNCHANGED <<stream, server>>

\* The connection breaks: protocol_disconnected() and jabber_handle_disconnect()
\* on this side, the end of our presence on the other.
Break ==
    /\ link # "down"
    /\ link' = "down"
    /\ userlist' = [c \in Contacts |-> NoEntry]
    /\ stream' = << >> /\ out' = << >>
    /\ asked' = FALSE /\ told' = FALSE
    /\ UNCHANGED <<roster, online>>

\* jabber_handle_iq_roster(), the first one: all items are added, and our
\* presence is sent.
TakeRoster ==
    /\ stream # << >> /\ stream[1].kind = "roster"
    /\ Len(out) < MaxOut
    /\ userlist' = [c \in Contacts |->
                      IF stream[1].items[c] = "absent" THEN userlist[c]
                      ELSE ItemEntry(stream[1].items[c])]
    /\ link' = "up"
    /\ out' = Append(out, [kind |-> "presence"])
    /\ stream' = Tail(stream)
    /\ UNCHANGED server

\* Slip: nobody is asked for what the removed entry knew.
ProbeNobody(c) == << >>

Probe(c) == <<[kind |-> "probe", contact |-> c]>>

\* The same for an item that changed: the entry is removed, added anew unless
\* the item was removed, and the contact is asked for its presence.
TakePush ==
    /\ stream # << >> /\ stream[1].kind = "push"
    /\ LET m == stream[1]
           probe == IF m.sub = "absent" THEN << >> ELSE Probe(m.contact)
       IN /\ Len(out) + Len(probe) <= MaxOut
          /\ userlist' = [userlist EXCEPT ![m.contact] =
                            IF m.sub = "absent" THEN NoEntry ELSE ItemEntry(m.sub)]
          /\ out' = out \o probe
    /\ stream' = Tail(stream)
    /\ UNCHANGED <<link, server>>

\* A presence of somebody without an entry changes nothing here, with
\* auto_user_add off; JabberProofs shows that none comes (PresenceFindsEntry).
TakePresence ==
    /\ stream # << >> /\ stream[1].kind = "presence"
    /\ LET m == stream[1]
       IN userlist' = [userlist EXCEPT ![m.contact] =
                         IF @.there THEN HandlePresence(@, m) ELSE @]
    /\ stream' = Tail(stream)
    /\ UNCHANGED <<link, out, server>>

\* /add: an item is set, and /auth --request adds the entry.
CommandAdd(c) ==
    /\ link = "up"
    /\ ~userlist[c].there
    /\ Len(out) < MaxOut
    /\ userlist' = [userlist EXCEPT ![c] = NewEntry]
    /\ out' = Append(out, [kind |-> "set", contact |-> c])
    /\ UNCHANGED <<link, stream, server>>

\* /modify sets the item with another name or other groups.
CommandModify(c) ==
    /\ link = "up"
    /\ userlist[c].there
    /\ Len(out) < MaxOut
    /\ out' = Append(out, [kind |-> "set", contact |-> c])
    /\ UNCHANGED <<client, stream, server>>

\* /del asks the server alone: the entry goes with the push.
CommandDel(c) ==
    /\ link = "up"
    /\ userlist[c].there
    /\ Len(out) < MaxOut
    /\ out' = Append(out, [kind |-> "remove", contact |-> c])
    /\ UNCHANGED <<client, stream, server>>

-----------------------------------------------------------------------------
(* The server and the contacts                                             *)

Here(c) == {r \in Resources : online[c][r] # Gone}

FromResource(c, r) ==
    [kind |-> "presence", contact |-> c, res |-> r,
     prio |-> online[c][r].prio, show |-> online[c][r].show]

Unavailable(c, r, show) ==
    [kind |-> "presence", contact |-> c, res |-> r,
     prio |-> DefaultPrio, show |-> show]

Push(c, sub) == [kind |-> "push", contact |-> c, sub |-> sub]

\* What the contact's resources tell us; a probe is answered also when there
\* are none.
Presences(c) == SetToSeq({FromResource(c, r) : r \in Here(c)})

Answer(c) == IF Here(c) = {} THEN <<Unavailable(c, Bare, "na")>> ELSE Presences(c)

Send(stanzas) ==
    /\ Len(stream) + Len(stanzas) <= MaxStream
    /\ stream' = stream \o stanzas

Sees(c) == told /\ roster[c] = "to"

ServerGet ==
    /\ out # << >> /\ out[1].kind = "get"
    /\ Send(<<[kind |-> "roster", items |-> roster]>>)
    /\ asked' = TRUE
    /\ out' = Tail(out)
    /\ UNCHANGED <<client, roster, online, told>>

ServerPresence ==
    /\ out # << >> /\ out[1].kind = "presence"
    /\ told' = TRUE
    /\ Send(FlattenSeq(SetToSeq({Presences(c) : c \in {x \in Contacts : roster[x] = "to"}})))
    /\ out' = Tail(out)
    /\ UNCHANGED <<client, roster, online, asked>>

ServerProbe ==
    /\ out # << >> /\ out[1].kind = "probe"
    /\ Send(IF Sees(out[1].contact) THEN Answer(out[1].contact) ELSE << >>)
    /\ out' = Tail(out)
    /\ UNCHANGED <<client, server>>

\* A set item is pushed back to all clients of the account.
ServerSet ==
    /\ out # << >> /\ out[1].kind = "set"
    /\ LET c == out[1].contact
           sub == IF roster[c] = "absent" THEN "none" ELSE roster[c]
       IN /\ roster' = [roster EXCEPT ![c] = sub]
          /\ Send(<<Push(c, sub)>>)
    /\ out' = Tail(out)
    /\ UNCHANGED <<client, online, asked, told>>

ServerRemove ==
    /\ out # << >> /\ out[1].kind = "remove"
    /\ roster' = [roster EXCEPT ![out[1].contact] = "absent"]
    /\ Send(<<Push(out[1].contact, "absent")>>)
    /\ out' = Tail(out)
    /\ UNCHANGED <<client, online, asked, told>>

\* A resource comes, changes its priority or its show.
Appears(c, r, prio, show) ==
    /\ online[c][r] # [prio |-> prio, show |-> show]
    /\ online' = [online EXCEPT ![c][r] = [prio |-> prio, show |-> show]]
    /\ IF Sees(c)
       THEN Send(<<[kind |-> "presence", contact |-> c, res |-> r,
                    prio |-> prio, show |-> show]>>)
       ELSE UNCHANGED stream
    /\ UNCHANGED <<client, out, roster, asked, told>>

Leaves(c, r, show) ==
    /\ online[c][r] # Gone
    /\ online' = [online EXCEPT ![c][r] = Gone]
    /\ IF Sees(c) THEN Send(<<Unavailable(c, r, show)>>) ELSE UNCHANGED stream
    /\ UNCHANGED <<client, out, roster, asked, told>>

\* An item's change is pushed to those who know the roster, followed by
\* presences for those who are there themselves.
Change(c, sub, presences) ==
    IF ~asked THEN UNCHANGED stream
    ELSE Send(<<Push(c, sub)>> \o IF told THEN presences ELSE << >>)

\* The contact lets us see it: our item changes, and its presences come.
Approve(c) ==
    /\ roster[c] = "none"
    /\ roster' = [roster EXCEPT ![c] = "to"]
    /\ Change(c, "to", Presences(c))
    /\ UNCHANGED <<client, out, online, asked, told>>

\* It lets us no longer.
Revoke(c) ==
    /\ roster[c] = "to"
    /\ roster' = [roster EXCEPT ![c] = "none"]
    /\ Change(c, "none", SetToSeq({Unavailable(c, r, "na") : r \in Here(c)}))
    /\ UNCHANGED <<client, out, online, asked, told>>

-----------------------------------------------------------------------------
PresenceInit ==
    /\ link = "down"
    /\ userlist = [c \in Contacts |-> NoEntry]
    /\ stream = << >> /\ out = << >>
    /\ roster \in [Contacts -> {"absent", "to"}]
    /\ online = [c \in Contacts |-> [r \in Resources |-> Gone]]
    /\ asked = FALSE /\ told = FALSE

Program == \/ Connect \/ TakeRoster \/ TakePush \/ TakePresence
           \/ \E c \in Contacts : CommandAdd(c) \/ CommandModify(c) \/ CommandDel(c)

Server == \/ ServerGet \/ ServerPresence \/ ServerProbe \/ ServerSet \/ ServerRemove
          \/ \E c \in Contacts : Approve(c) \/ Revoke(c)
          \/ \E c \in Contacts, r \in Resources :
                \/ \E prio \in Prios, show \in Present : Appears(c, r, prio, show)
                \/ \E show \in Away : Leaves(c, r, show)

PresenceNext == Program \/ Server \/ Break

PresenceSpec == PresenceInit /\ [][PresenceNext]_presenceVars

-----------------------------------------------------------------------------
(* Properties                                                              *)

Distinct(rs) == \A i, j \in DOMAIN rs : rs[i].name = rs[j].name => i = j

\* The variables keep their types, and no resource is listed twice
\* (userlist_resource_add() does not look).
PresenceTypeOK ==
    /\ link \in {"down", "roster", "up"}
    /\ \A c \in Contacts : userlist[c].there =>
          /\ userlist[c].auth \in BOOLEAN
          /\ userlist[c].status \in Present \cup NotHere
          /\ userlist[c].resources \in
                Seq([name : Resources, prio : Prios \cup {DefaultPrio},
                     show : Present \cup NotHere])
          /\ Distinct(userlist[c].resources)
    /\ Len(stream) <= MaxStream /\ Len(out) <= MaxOut
    /\ roster \in [Contacts -> {"absent", "none", "to"}]

\* Everything that was sent has arrived and was answered.
Quiet == link = "up" /\ told /\ stream = << >> /\ out = << >>

\* The server's truth: who is there for us to see.
Visible(c) ==
    {<<r, online[c][r].show>> : r \in IF Sees(c) THEN Here(c) ELSE {}}

Listed(e) ==
    {<<e.resources[i].name, e.resources[i].show>> :
        i \in {j \in DOMAIN e.resources : e.resources[j].show \notin NotHere}}

\* When all is quiet the entries are the server's roster, and the resources
\* listed as being there are those that are, with the shows they have, after
\* any crossing of pushes, which forget an entry's resources, probes, changes
\* and broken connections (jabber_handle_iq_roster, jabber_handle_presence).
ShowsOnline ==
    Quiet => \A c \in Contacts :
        /\ userlist[c].there <=> roster[c] # "absent"
        /\ userlist[c].there => /\ userlist[c].auth <=> roster[c] = "to"
                                /\ Listed(userlist[c]) = Visible(c)

\* A list in which a resource's priority changed in place is no longer sorted
\* (jabber_handlers.c:1649); one that was told of a resource leaving that it
\* did not know has an entry of somebody who is not there.
InOrder(rs) ==
    /\ \A i \in 1..(Len(rs) - 1) : rs[i].prio >= rs[i + 1].prio
    /\ \A i \in 1..Len(rs) : rs[i].show \in Present

\* When all is quiet a contact is shown with the status of its resource of the
\* highest priority, and as not there when it has none (protocol_status).
ShowsHighest ==
    Quiet => \A c \in Contacts : userlist[c].there /\ InOrder(userlist[c].resources) =>
        IF Visible(c) = {} THEN userlist[c].status \in NotHere
        ELSE \E r \in Here(c) :
                /\ \A x \in Here(c) : online[c][x].prio <= online[c][r].prio
                /\ userlist[c].status = online[c][r].show
=============================================================================
