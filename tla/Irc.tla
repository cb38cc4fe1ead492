-------------------------------- MODULE Irc --------------------------------
(***************************************************************************)
(* The channels of an irc session and the people on them: the three lists  *)
(* of plugins/irc/people.c that lead to each other (people, channels, and  *)
(* each one's list of the other), the userlists of the channels' windows,  *)
(* and the handlers of plugins/irc/misc.c that keep them, against a server *)
(* (external) that sends one stream of messages.                           *)
(*                                                                         *)
(* A person is named by its nick, and so are the pointers to it; it is     *)
(* freed with its last channel.  One mode is told apart, the operator's.   *)
(* Joining again after a kick or a reconnect (autoacts.c) is the user's    *)
(* /join, and a /nick what the server may do by itself.                    *)
(***************************************************************************)
EXTENDS Naturals, FiniteSets, Sequences

CONSTANTS
    Channels,
    Modeless,   \* the channels of them that have no operators ("+" channels)
    ChanTypes,  \* the channels of them whose first letter is in CHANTYPES
    Nicks,      \* the nicks in use, our own included
    MaxStream,  \* bound: messages on their way to the program
    MaxOut      \* bound: messages on their way to the server

ASSUME IrcAssumption ==
    /\ IsFiniteSet(Channels) /\ IsFiniteSet(Nicks)
    /\ Modeless \subseteq Channels /\ ChanTypes \subseteq Channels
    /\ {MaxStream, MaxOut} \subseteq Nat

VARIABLES
    up,       \* the session is connected
    nick,     \* j->nick
    known,    \* what people.c keeps: see Knowledge
    stream,   \* messages on their way to the program
    out,      \* messages on their way to the server
    members,  \* server: who is on which channel, and how
    own       \* server: our nick

vars == <<up, nick, known, stream, out, members, own>>
client == <<nick, known>>
world == <<up, members, own>>

Modes == {"out", "plain", "op"}
Nowhere == [c \in Channels |-> "out"]
Empty == [n \in Nicks |-> "out"]

\* channel_t with the people on it, and whether its window pointer leads to a
\* window; a window with its userlist; people_t with its channels.
NoChannel == [joined |-> FALSE, onchan |-> {}, live |-> FALSE]
NoWindow == [open |-> FALSE, list |-> Empty]
OpenWindow == [open |-> TRUE, list |-> Empty]

Knowledge == [people : [Nicks -> [Channels -> Modes]],
              channels : [Channels -> [joined : BOOLEAN, onchan : SUBSET Nicks,
                                       live : BOOLEAN]],
              windows : [Channels -> [open : BOOLEAN, list : [Nicks -> Modes]]]]

-----------------------------------------------------------------------------
(* people.c                                                                *)

\* irc_find_person()
Known(k, n) == k.people[n] # Nowhere

\* irc_add_person_int() for those named with a mode: the window's userlist, the
\* channel's people and the person's channels each get what they do not have.
AddPeople(k, c, names) ==
    [people |-> [n \in Nicks |-> [d \in Channels |->
        IF d = c /\ k.people[n][d] = "out" THEN names[n] ELSE k.people[n][d]]],
     channels |-> [k.channels EXCEPT ![c].onchan = @ \cup {n \in Nicks : names[n] # "out"}],
     windows |-> [k.windows EXCEPT ![c].list = [n \in Nicks |->
        IF k.windows[c].open /\ k.windows[c].list[n] = "out" THEN names[n]
        ELSE k.windows[c].list[n]]]]

AddPerson(k, c, n, mode) == AddPeople(k, c, [Empty EXCEPT ![n] = mode])

\* Slip: the person is freed when it leaves any channel.
DelPersonChannelFreed(k, c, n) ==
    [people |-> [k.people EXCEPT ![n] = Nowhere],
     channels |-> [k.channels EXCEPT ![c].onchan = @ \ {n}],
     windows |-> [k.windows EXCEPT ![c].list[n] = "out"]]

\* irc_del_person_channel_int() for each of a set of <<nick, channel>>
Without(k, gone) ==
    [people |-> [n \in Nicks |-> [c \in Channels |->
        IF <<n, c>> \in gone THEN "out" ELSE k.people[n][c]]],
     channels |-> [c \in Channels |->
        [k.channels[c] EXCEPT !.onchan = {n \in @ : <<n, c>> \notin gone}]],
     windows |-> [c \in Channels |-> [k.windows[c] EXCEPT !.list = [n \in Nicks |->
        IF <<n, c>> \in gone THEN "out" ELSE k.windows[c].list[n]]]]]

DelPersonChannel(k, c, n) == Without(k, {<<n, c>>})

\* irc_del_person(): from all its channels.
DelPerson(k, n) == Without(k, {n} \X {c \in Channels : k.people[n][c] # "out"})

\* irc_del_channel(); the window goes too if close_windows is set.
DelChannel(k, c, close) ==
    IF ~k.channels[c].joined THEN k
    ELSE [Without(k, k.channels[c].onchan \X {c}) EXCEPT
             !.channels[c] = NoChannel,
             !.windows[c] = IF close THEN NoWindow ELSE @]

\* irc_add_channel(), and the window that window_new() makes or finds.
AddChannel(k, c) ==
    LET l == IF k.windows[c].open THEN k ELSE [k EXCEPT !.windows[c] = OpenWindow]
    IN IF k.channels[c].joined THEN l
       ELSE [l EXCEPT !.channels[c] = [joined |-> TRUE, onchan |-> {}, live |-> TRUE]]

\* What f says of the old nick, said of the new one.
Moved(f, old, new, none) == [f EXCEPT ![new] = f[old], ![old] = none]

\* The person of one nick, wherever a pointer leads to it, gets another.
Renamed(k, old, new) ==
    [k EXCEPT !.people = Moved(k.people, old, new, Nowhere),
              !.channels = [c \in Channels |->
                 IF old \in k.channels[c].onchan
                 THEN [k.channels[c] EXCEPT !.onchan = (@ \ {old}) \cup {new}]
                 ELSE k.channels[c]]]

\* Slip: the windows keep the old nick.
NickChangePeople(k, old, new) == IF Known(k, old) THEN Renamed(k, old, new) ELSE k

\* irc_nick_change(): in the windows of the person's channels, and its own.
NickChange(k, old, new) ==
    IF ~Known(k, old) THEN k
    ELSE [Renamed(k, old, new) EXCEPT !.windows = [c \in Channels |->
            IF k.people[old][c] # "out" /\ k.windows[c].list[old] # "out"
            THEN [k.windows[c] EXCEPT !.list = Moved(k.windows[c].list, old, new, "out")]
            ELSE k.windows[c]]]

\* irc_c_mode(): the person's mode, and its entry in the userlist of the
\* channel's window, reached through the pointer of the channel.
SetMode(k, c, n, mode) ==
    IF k.people[n][c] = "out" THEN k
    ELSE [k EXCEPT !.people[n][c] = mode,
                   !.windows[c].list[n] =
                      IF k.channels[c].live /\ @ # "out" THEN mode ELSE @]

\* Slip: the people are not freed.
FreePeopleChannels(k) ==
    [k EXCEPT !.channels = [c \in Channels |-> NoChannel],
              !.windows = [c \in Channels |->
        IF k.channels[c].joined /\ k.windows[c].open THEN OpenWindow ELSE k.windows[c]]]

\* irc_free_people()
FreePeople(k) ==
    [people |-> [n \in Nicks |-> Nowhere],
     channels |-> [c \in Channels |-> NoChannel],
     windows |-> [c \in Channels |->
        IF k.channels[c].joined /\ k.windows[c].open THEN OpenWindow ELSE k.windows[c]]]

-----------------------------------------------------------------------------
(* The program                                                             *)

Used(n) == \E c \in Channels : members[c][n] # "out"

ToServer(messages) ==
    /\ Len(out) + Len(messages) <= MaxOut
    /\ out' = out \o messages

Line(command, c) == [kind |-> command, chan |-> c]

\* The server welcomes us (001) by a nick.
Connect(n) ==
    /\ ~up /\ ~Used(n)
    /\ up' = TRUE /\ nick' = n /\ own' = n
    /\ UNCHANGED <<known, stream, out, members>>

\* irc_handle_disconnect(), and the end of us on the other side.
Disconnect ==
    /\ up
    /\ up' = FALSE
    /\ known' = FreePeople(known)
    /\ stream' = << >> /\ out' = << >>
    /\ members' = [c \in Channels |-> [members[c] EXCEPT ![own] = "out"]]
    /\ UNCHANGED <<nick, own>>

\* /join, /part and /cycle: irc_getchan() wants a channel of CHANTYPES.
CommandJopacy(commands, c) ==
    /\ up /\ c \in ChanTypes
    /\ ToServer([i \in DOMAIN commands |-> Line(commands[i], c)])
    /\ UNCHANGED <<client, stream, world>>

\* /quote JOIN or PART: nobody looks at the channel.
CommandQuote(command, c) ==
    /\ up
    /\ ToServer(<<Line(command, c)>>)
    /\ UNCHANGED <<client, stream, world>>

\* The user closes a window: irc_window_kill() leaves its channel, if CHANTYPES
\* says that it is one.
WindowKill(c) ==
    /\ known.windows[c].open
    /\ known' = [known EXCEPT !.windows[c] = NoWindow, !.channels[c].live = FALSE]
    /\ IF up /\ c \in ChanTypes /\ known.channels[c].joined THEN ToServer(<<Line("PART", c)>>)
       ELSE UNCHANGED out
    /\ UNCHANGED <<nick, stream, world>>

Take(kind) ==
    /\ stream # << >> /\ Head(stream).kind = kind
    /\ stream' = Tail(stream)

m == Head(stream)

\* irc_c_join()
TakeJoin ==
    /\ Take("JOIN")
    /\ known' = IF m.nick = nick THEN AddChannel(known, m.chan)
                ELSE IF known.channels[m.chan].joined
                THEN AddPerson(known, m.chan, m.nick, "plain")
                ELSE known
    /\ UNCHANGED <<nick, out, world>>

\* irc_c_namerpl(), irc_add_people()
TakeNames ==
    /\ Take("353")
    /\ known' = IF ~known.channels[m.chan].joined THEN known
                ELSE AddPeople(known, m.chan, m.names)
    /\ UNCHANGED <<nick, out, world>>

\* irc_c_part(), and irc_c_kick() for who was kicked
TakePart(close) ==
    /\ Take("PART")
    /\ known' = IF m.nick = nick THEN DelChannel(known, m.chan, close)
                ELSE IF known.channels[m.chan].joined /\ Known(known, m.nick)
                THEN DelPersonChannel(known, m.chan, m.nick)
                ELSE known
    /\ UNCHANGED <<nick, out, world>>

\* irc_c_quit()
TakeQuit ==
    /\ Take("QUIT")
    /\ known' = DelPerson(known, m.nick)
    /\ UNCHANGED <<nick, out, world>>

\* irc_c_nick()
TakeNick ==
    /\ Take("NICK")
    /\ known' = NickChange(known, m.nick, m.new)
    /\ nick' = IF m.nick = nick THEN m.new ELSE nick
    /\ UNCHANGED <<out, world>>

TakeMode ==
    /\ Take("MODE")
    /\ known' = SetMode(known, m.chan, m.nick, m.mode)
    /\ UNCHANGED <<nick, out, world>>

-----------------------------------------------------------------------------
(* The server                                                              *)

Sees(c) == up /\ members[c][own] # "out"

Tell(us, messages) ==
    IF us THEN /\ Len(stream) + Len(messages) <= MaxStream
               /\ stream' = stream \o messages
    ELSE UNCHANGED stream

About(kind, c, n) == [kind |-> kind, chan |-> c, nick |-> n]

Obey(kind) ==
    /\ out # << >> /\ Head(out).kind = kind
    /\ out' = Tail(out)

\* Whoever comes first is the operator.
Entering(c) == IF members[c] = Empty /\ c \notin Modeless THEN "op" ELSE "plain"

\* We are told who is there.
ServerJoin ==
    /\ Obey("JOIN")
    /\ LET c == Head(out).chan
           names == [members[c] EXCEPT ![own] = Entering(c)]
           new == members[c][own] = "out"
       IN /\ members' = IF new THEN [members EXCEPT ![c] = names] ELSE members
          /\ Tell(new, <<About("JOIN", c, own), [kind |-> "353", chan |-> c, names |-> names]>>)
    /\ UNCHANGED <<client, up, own>>

ServerPart ==
    /\ Obey("PART")
    /\ LET c == Head(out).chan
       IN /\ members' = [members EXCEPT ![c][own] = "out"]
          /\ Tell(members[c][own] # "out", <<About("PART", c, own)>>)
    /\ UNCHANGED <<client, up, own>>

Other(n) == ~(up /\ n = own)

Joins(c, n) ==
    /\ Other(n) /\ members[c][n] = "out"
    /\ members' = [members EXCEPT ![c][n] = Entering(c)]
    /\ Tell(Sees(c), <<About("JOIN", c, n)>>)

\* Somebody leaves, or is kicked, perhaps we.
Parts(c, n) ==
    /\ members[c][n] # "out"
    /\ members' = [members EXCEPT ![c][n] = "out"]
    /\ Tell(Sees(c), <<About("PART", c, n)>>)

Moded(c, n, mode) ==
    /\ c \notin Modeless /\ members[c][n] \notin {"out", mode}
    /\ members' = [members EXCEPT ![c][n] = mode]
    /\ Tell(Sees(c), <<[kind |-> "MODE", chan |-> c, nick |-> n, mode |-> mode]>>)

Shared(n) == \E c \in Channels : members[c][n] # "out" /\ Sees(c)

Quits(n) ==
    /\ Other(n) /\ Used(n)
    /\ members' = [c \in Channels |-> [members[c] EXCEPT ![n] = "out"]]
    /\ Tell(Shared(n), <<[kind |-> "QUIT", nick |-> n]>>)

\* Somebody, perhaps we, gets a nick that nobody has.
IsRenamed(n, new) ==
    /\ (Used(n) \/ ~Other(n)) /\ ~Used(new) /\ Other(new)
    /\ members' = [c \in Channels |-> Moved(members[c], n, new, "out")]
    /\ own' = IF Other(n) THEN own ELSE new
    /\ Tell(Shared(n) \/ ~Other(n), <<[kind |-> "NICK", nick |-> n, new |-> new]>>)

People ==
    /\ \/ /\ \/ \E c \in Channels, n \in Nicks :
                   \/ Joins(c, n) \/ Parts(c, n)
                   \/ \E mode \in {"plain", "op"} : Moded(c, n, mode)
             \/ \E n \in Nicks : Quits(n)
          /\ UNCHANGED own
       \/ \E n, new \in Nicks : IsRenamed(n, new)
    /\ UNCHANGED <<client, out, up>>

-----------------------------------------------------------------------------
Init ==
    /\ up = FALSE
    /\ nick \in Nicks /\ own = nick
    /\ known = [people |-> [n \in Nicks |-> Nowhere],
                channels |-> [c \in Channels |-> NoChannel],
                windows |-> [c \in Channels |-> NoWindow]]
    /\ stream = << >> /\ out = << >>
    /\ members = [c \in Channels |-> Empty]

Program ==
    \/ \E n \in Nicks : Connect(n)
    \/ Disconnect
    \/ \E c \in Channels :
          \/ WindowKill(c)
          \/ \E command \in {"JOIN", "PART"} : CommandQuote(command, c)
          \/ \E commands \in {<<"JOIN">>, <<"PART">>, <<"PART", "JOIN">>} :
                CommandJopacy(commands, c)
    \/ TakeJoin \/ TakeNames \/ TakeQuit \/ TakeNick \/ TakeMode
    \/ \E close \in BOOLEAN : TakePart(close)

Next == Program \/ ServerJoin \/ ServerPart \/ People

Spec == Init /\ [][Next]_vars

-----------------------------------------------------------------------------
(* Properties                                                              *)

\* The variables keep their types; no channel is known, nor anybody on one,
\* that we are not on, and none at all without a connection (irc_free_people).
TypeOK ==
    /\ up \in BOOLEAN /\ {nick, own} \subseteq Nicks
    /\ known \in Knowledge
    /\ \A c \in Channels : known.channels[c].joined \/ known.channels[c] = NoChannel
    /\ up \/ /\ \A c \in Channels : known.channels[c] = NoChannel
             /\ \A n \in Nicks : known.people[n] = Nowhere
    /\ Len(stream) <= MaxStream /\ Len(out) <= MaxOut
    /\ members \in [Channels -> [Nicks -> Modes]]

\* The lists lead to each other and to nothing that was freed: a person is on
\* the list of exactly the channels that are on its list, and a channel's
\* window shows nobody who is not on the channel (people.c).
Linked ==
    \A c \in Channels :
        /\ known.channels[c].onchan = {n \in Nicks : known.people[n][c] # "out"}
        /\ {n \in Nicks : known.windows[c].list[n] # "out"} \subseteq known.channels[c].onchan

\* When everything has arrived the program knows the truth: its nick, the
\* channels it is on, who else is there and who is an operator, in the people's
\* lists and in the windows, whatever came between its own requests (misc.c);
\* and it has a window for every channel that closing one would leave.
Accurate ==
    up /\ stream = << >> /\ out = << >> =>
        /\ nick = own
        /\ \A c \in Channels :
              /\ known.channels[c].joined <=> members[c][own] # "out"
              /\ known.channels[c].joined => /\ [n \in Nicks |-> known.people[n][c]] = members[c]
                                             /\ known.channels[c].live \/ c \notin ChanTypes
                                             /\ known.channels[c].live =>
                                                   known.windows[c].list = members[c]

\* "We can't use chan->window->userlist, cause window could be already
\* destroyed" (people.c): irc_c_mode() never meets a channel whose window is
\* gone.
WindowThere ==
    stream # << >> /\ m.kind = "MODE" /\ known.people[m.nick][m.chan] # "out"
    => known.channels[m.chan].live
=============================================================================
