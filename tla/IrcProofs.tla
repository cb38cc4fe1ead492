----------------------------- MODULE IrcProofs -----------------------------
(***************************************************************************)
(* Proofs about Irc, for all channels, nicks and lengths of the streams:   *)
(* the lists stay linked (Linked), and are the truth when everything has   *)
(* arrived (Accurate).                                                     *)
(*                                                                         *)
(* The argument foresees what the program will know: h[1] is its view now, *)
(* and h[i + 1] what one message of the stream makes of h[i].  Its last    *)
(* view is the server's truth, whatever is still on its way; the server    *)
(* keeps it so, as it tells what it does, and the program keeps the rest   *)
(* of h, as each handler does to the view what the message says.           *)
(***************************************************************************)
EXTENDS Irc, TLAPS

\* What a window and a channel say of the people, and nothing else.
Local(k, c) ==
    /\ k.channels[c].onchan = {n \in Nicks : k.people[n][c] # "out"}
    /\ k.channels[c].joined \/ k.channels[c] = NoChannel
    /\ k.windows[c].open \/ k.windows[c].list = Empty
    /\ \A n \in Nicks : k.windows[c].list[n] # "out" => k.people[n][c] # "out"
    /\ k.channels[c].live =>
          /\ k.channels[c].joined /\ k.windows[c].open
          /\ \A n \in Nicks : k.windows[c].list[n] = k.people[n][c]

Sound(k) == k \in Knowledge /\ \A c \in Channels : Local(k, c)

Messages ==
    [kind : {"JOIN", "PART"}, chan : Channels, nick : Nicks]
    \cup [kind : {"353"}, chan : Channels, names : [Nicks -> Modes]]
    \cup [kind : {"QUIT"}, nick : Nicks]
    \cup [kind : {"NICK"}, nick : Nicks, new : Nicks]
    \cup [kind : {"MODE"}, chan : Channels, nick : Nicks, mode : {"plain", "op"}]

Lines == [kind : {"JOIN", "PART"}, chan : Channels]

Typed ==
    /\ up \in BOOLEAN /\ nick \in Nicks /\ own \in Nicks
    /\ members \in [Channels -> [Nicks -> Modes]]
    /\ stream \in Seq(Messages) /\ out \in Seq(Lines)
    /\ Len(stream) <= MaxStream /\ Len(out) <= MaxOut
    /\ Sound(known)

\* Without a connection nothing is known and nothing under way.
Down ==
    ~up => /\ stream = << >> /\ out = << >>
           /\ \A c \in Channels : ~known.channels[c].joined

-----------------------------------------------------------------------------
\* A view of the world: our nick, the channels we are on, and who is on which.
ViewOf(k, me) ==
    [nick |-> me, on |-> [c \in Channels |-> k.channels[c].joined], who |-> k.people]

View == ViewOf(known, nick)

\* The mode a message leaves a nick with on a channel.
Leaves(p, msg, n, c) ==
    CASE msg.kind = "JOIN" ->
            IF n = msg.nick /\ c = msg.chan /\ n # p.nick /\ p.on[c] /\ p.who[n][c] = "out"
            THEN "plain" ELSE p.who[n][c]
      [] msg.kind = "353" ->
            IF c = msg.chan /\ p.on[c] /\ p.who[n][c] = "out"
            THEN msg.names[n] ELSE p.who[n][c]
      [] msg.kind = "PART" ->
            IF c = msg.chan /\ msg.nick \in {n, p.nick} THEN "out" ELSE p.who[n][c]
      [] msg.kind = "QUIT" -> IF n = msg.nick THEN "out" ELSE p.who[n][c]
      [] msg.kind = "NICK" ->
            IF n = msg.nick THEN "out"
            ELSE IF n = msg.new THEN p.who[msg.nick][c] ELSE p.who[n][c]
      [] OTHER -> IF n = msg.nick /\ c = msg.chan /\ p.who[n][c] # "out"
                  THEN msg.mode ELSE p.who[n][c]

Step(p, msg) ==
    [nick |-> IF msg.kind = "NICK" /\ msg.nick = p.nick THEN msg.new ELSE p.nick,
     on |-> [c \in Channels |->
        IF msg.kind \in {"JOIN", "PART"} /\ msg.chan = c /\ msg.nick = p.nick
        THEN msg.kind = "JOIN" ELSE p.on[c]],
     who |-> [n \in Nicks |-> [c \in Channels |-> Leaves(p, msg, n, c)]]]

\* Nobody gets a nick that somebody of the view has.
Fits(p, msg) ==
    msg.kind = "NICK" =>
        msg.new # msg.nick /\ \A c \in Channels : p.who[msg.new][c] = "out"

Replay(h, v, s) ==
    /\ DOMAIN h = 1 .. Len(s) + 1
    /\ h[1] = v
    /\ \A i \in 1 .. Len(s) : Fits(h[i], s[i]) /\ h[i + 1] = Step(h[i], s[i])

Truth(p) ==
    /\ p.nick = own
    /\ \A c \in Channels : p.on[c] <=> members[c][own] # "out"
    /\ \A c \in Channels, n \in Nicks :
          p.who[n][c] = IF p.on[c] THEN members[c][n] ELSE "out"

\* The window is gone of a channel that we are leaving, or have left, or that
\* nobody leaves with its window.
Leaving(h, c) ==
    \/ c \notin ChanTypes
    \/ \E i \in 1 .. Len(stream) + 1 : ~h[i].on[c]
    \/ \E j \in 1 .. Len(out) : out[j] = Line("PART", c)

Foreseen(h) ==
    /\ Replay(h, View, stream)
    /\ up => Truth(h[Len(stream) + 1])
    /\ \A c \in Channels : known.channels[c].joined /\ ~known.channels[c].live => Leaving(h, c)

IInv == Typed /\ Down /\ \E h : Foreseen(h)

-----------------------------------------------------------------------------
(* The operators on what people.c keeps                                    *)

ChannelType == [joined : BOOLEAN, onchan : SUBSET Nicks, live : BOOLEAN]
WindowType == [open : BOOLEAN, list : [Nicks -> Modes]]

\* Records with one field changed, written out.
LEMMA ChannelExcept ==
  ASSUME NEW ch \in ChannelType, NEW s, NEW l
  PROVE  /\ [ch EXCEPT !.onchan = s] = [joined |-> ch.joined, onchan |-> s, live |-> ch.live]
         /\ [ch EXCEPT !.live = l] = [joined |-> ch.joined, onchan |-> ch.onchan, live |-> l]
BY DEF ChannelType

\* The same of windows.
LEMMA WindowExcept ==
  ASSUME NEW w \in WindowType, NEW l
  PROVE  [w EXCEPT !.list = l] = [open |-> w.open, list |-> l]
BY DEF WindowType

\* What a sound k looks like, field by field.
LEMMA SoundParts ==
  ASSUME NEW k, Sound(k)
  PROVE  /\ k = [people |-> k.people, channels |-> k.channels, windows |-> k.windows]
         /\ k.people \in [Nicks -> [Channels -> Modes]]
         /\ k.channels \in [Channels -> ChannelType]
         /\ k.windows \in [Channels -> WindowType]
BY DEF Sound, Knowledge, ChannelType, WindowType

\* A channel and its window, where people on a channel is the function col.
Fit(ch, w, col) ==
    /\ ch.joined \in BOOLEAN /\ ch.live \in BOOLEAN
    /\ w.open \in BOOLEAN
    /\ w.list \in [Nicks -> Modes]
    /\ ch.onchan = {n \in Nicks : col[n] # "out"}
    /\ ~ch.joined => ~ch.live /\ \A n \in Nicks : col[n] = "out"
    /\ ~w.open => \A n \in Nicks : w.list[n] = "out"
    /\ \A n \in Nicks : w.list[n] # "out" => col[n] # "out"
    /\ ch.live => w.open /\ \A n \in Nicks : w.list[n] = col[n]

Col(p, c) == [n \in Nicks |-> p[n][c]]

\* In a sound k every channel fits its window and its people.
LEMMA SoundFit ==
  ASSUME NEW k, Sound(k), NEW c \in Channels
  PROVE  Fit(k.channels[c], k.windows[c], Col(k.people, c))
BY DEF Sound, Knowledge, Local, NoChannel, Empty, Fit, Col

\* k is sound whose channels all fit.
LEMMA FitSound ==
  ASSUME NEW p \in [Nicks -> [Channels -> Modes]], NEW ch \in [Channels -> ChannelType],
         NEW w \in [Channels -> WindowType],
         \A c \in Channels : Fit(ch[c], w[c], Col(p, c))
  PROVE  Sound([people |-> p, channels |-> ch, windows |-> w])
<1> DEFINE k == [people |-> p, channels |-> ch, windows |-> w]
<1>1. k \in Knowledge BY DEF Knowledge, ChannelType, WindowType
<1>2. ASSUME NEW c \in Channels PROVE Local(k, c)
  <2>1. /\ k.channels[c] = ch[c] /\ k.windows[c] = w[c]
        /\ \A n \in Nicks : k.people[n][c] = Col(p, c)[n]
    BY DEF Col
  <2>2. k.channels[c].onchan = {n \in Nicks : k.people[n][c] # "out"}
    BY <2>1, <1>2 DEF Fit
  <2>3. ch[c].joined \/ ch[c] = NoChannel
    <3>1. ch[c] = [joined |-> ch[c].joined, onchan |-> ch[c].onchan, live |-> ch[c].live]
      BY DEF ChannelType
    <3>2. ~ch[c].joined => ch[c].onchan = {} /\ ch[c].live = FALSE /\ ch[c].joined = FALSE
      BY DEF Fit
    <3> QED BY <3>1, <3>2 DEF NoChannel
  <2>4. w[c].open \/ w[c].list = Empty BY DEF Fit, Empty
  <2> QED BY <2>1, <2>2, <2>3, <2>4 DEF Local, Fit
<1> QED BY <1>1, <1>2 DEF Sound

\* irc_del_person_channel_int() keeps k sound, and takes out who is to go.
LEMMA WithoutSound ==
  ASSUME NEW k, Sound(k), NEW gone
  PROVE  /\ Sound(Without(k, gone))
         /\ \A n \in Nicks, c \in Channels : Without(k, gone).people[n][c] =
               IF <<n, c>> \in gone THEN "out" ELSE k.people[n][c]
         /\ \A c \in Channels :
               /\ Without(k, gone).channels[c].joined = k.channels[c].joined
               /\ Without(k, gone).channels[c].live = k.channels[c].live
<1> DEFINE p == [n \in Nicks |-> [c \in Channels |->
                   IF <<n, c>> \in gone THEN "out" ELSE k.people[n][c]]]
           on == [c \in Channels |-> {n \in k.channels[c].onchan : <<n, c>> \notin gone}]
           ls == [c \in Channels |-> [n \in Nicks |->
                    IF <<n, c>> \in gone THEN "out" ELSE k.windows[c].list[n]]]
           ch == [c \in Channels |-> [k.channels[c] EXCEPT !.onchan = on[c]]]
           w == [c \in Channels |-> [k.windows[c] EXCEPT !.list = ls[c]]]
<1>1. Without(k, gone) = [people |-> p, channels |-> ch, windows |-> w] BY DEF Without
<1>2. p \in [Nicks -> [Channels -> Modes]] BY SoundParts DEF Modes
<1>3. ASSUME NEW c \in Channels
      PROVE  /\ ch[c] \in ChannelType /\ w[c] \in WindowType
             /\ Fit(ch[c], w[c], Col(p, c))
             /\ ch[c].joined = k.channels[c].joined /\ ch[c].live = k.channels[c].live
  <2>1. k.channels[c] \in ChannelType /\ k.windows[c] \in WindowType BY SoundParts
  <2>2. /\ ch[c] = [joined |-> k.channels[c].joined, onchan |-> on[c],
                   live |-> k.channels[c].live]
        /\ w[c] = [open |-> k.windows[c].open, list |-> ls[c]]
    <3> HIDE DEF on, ls
    <3> QED BY <2>1, ChannelExcept, WindowExcept
  <2>3. /\ ch[c].joined = k.channels[c].joined /\ ch[c].onchan = on[c]
        /\ ch[c].live = k.channels[c].live
        /\ w[c].open = k.windows[c].open /\ w[c].list = ls[c]
    <3> HIDE DEF on, ls, ch, w
    <3> QED BY <2>2
  <2>4. Fit(k.channels[c], k.windows[c], Col(k.people, c)) BY SoundFit
  <2>5. /\ \A n \in Nicks : Col(p, c)[n] =
              IF <<n, c>> \in gone THEN "out" ELSE Col(k.people, c)[n]
        /\ on[c] = {n \in Nicks : Col(p, c)[n] # "out"}
    BY <2>4 DEF Col, Fit
  <2>6. /\ ls[c] \in [Nicks -> Modes]
        /\ \A n \in Nicks : ls[c][n] =
              IF <<n, c>> \in gone THEN "out" ELSE k.windows[c].list[n]
    BY <2>4 DEF Fit, Modes
  <2> HIDE DEF on, ls, ch, w, p
  <2>7. Fit(ch[c], w[c], Col(p, c))
    <3> DEFINE co == Col(k.people, c)
               cn == Col(p, c)
               wo == k.windows[c]
    <3> HIDE DEF co, cn, wo
    <3>1. /\ wo.open = w[c].open /\ \A n \in Nicks : w[c].list[n] = IF <<n, c>> \in gone THEN "out" ELSE wo.list[n]
      BY <2>3, <2>6 DEF wo
    <3>2. \A n \in Nicks : cn[n] = IF <<n, c>> \in gone THEN "out" ELSE co[n]
      BY <2>5 DEF co, cn
    <3>3. Fit(k.channels[c], wo, co) BY <2>4 DEF wo, co
    <3>4. ch[c].onchan = {n \in Nicks : cn[n] # "out"} BY <2>3, <2>5 DEF cn
    <3>5. /\ ch[c].joined \in BOOLEAN /\ ch[c].live \in BOOLEAN /\ w[c].open \in BOOLEAN
          /\ w[c].list \in [Nicks -> Modes]
      BY <2>3, <2>6, <3>1, <3>3 DEF Fit
    <3>6. ~ch[c].joined => ~ch[c].live /\ \A n \in Nicks : cn[n] = "out"
      BY <2>3, <3>2, <3>3 DEF Fit
    <3>7. /\ ~w[c].open => \A n \in Nicks : w[c].list[n] = "out"
          /\ \A n \in Nicks : w[c].list[n] # "out" => cn[n] # "out"
      BY <3>1, <3>2, <3>3 DEF Fit
    <3>8. ch[c].live => w[c].open /\ \A n \in Nicks : w[c].list[n] = cn[n]
      BY <2>3, <3>1, <3>2, <3>3 DEF Fit
    <3>9. Fit(ch[c], w[c], cn) BY <3>4, <3>5, <3>6, <3>7, <3>8 DEF Fit
    <3> QED BY <3>9 DEF cn
  <2>8. on[c] \in SUBSET Nicks BY <2>5
  <2>9. ch[c] \in ChannelType /\ w[c] \in WindowType
    BY <2>2, <2>4, <2>6, <2>8 DEF ChannelType, WindowType, Fit
  <2> QED BY <2>3, <2>7, <2>9
<1>4. ch \in [Channels -> ChannelType] /\ w \in [Channels -> WindowType]
  <2>2. /\ ch = [c \in Channels |-> ch[c]] /\ w = [c \in Channels |-> w[c]] OBVIOUS
  <2> HIDE DEF ch, w
  <2> QED BY <1>3, <2>2
<1>5. Sound(Without(k, gone))
  <2> HIDE DEF p, ch, w
  <2> QED BY <1>1, <1>2, <1>3, <1>4, FitSound
<1>6. Without(k, gone).channels = ch /\ Without(k, gone).people = p BY <1>1
<1>7. \A n \in Nicks, c \in Channels :
         p[n][c] = IF <<n, c>> \in gone THEN "out" ELSE k.people[n][c]
  OBVIOUS
<1> HIDE DEF ch, p
<1> QED BY <1>3, <1>5, <1>6, <1>7

\* k with other people, and with one channel and its window replaced.
Replaced(k, p, c, x, y) ==
    [people |-> p, channels |-> [k.channels EXCEPT ![c] = x],
     windows |-> [k.windows EXCEPT ![c] = y]]

\* k stays sound when one channel and its window are replaced by such as fit.
LEMMA OneChannel ==
  ASSUME NEW k, Sound(k), NEW c \in Channels, NEW x \in ChannelType, NEW y \in WindowType,
         NEW p \in [Nicks -> [Channels -> Modes]],
         \A d \in Channels \ {c} : Col(p, d) = Col(k.people, d),
         Fit(x, y, Col(p, c)),
         NEW r, r = Replaced(k, p, c, x, y)
  PROVE  /\ Sound(r)
         /\ r.people = p
         /\ r.channels[c] = x
         /\ \A d \in Channels \ {c} : r.channels[d] = k.channels[d]
<1> DEFINE ch == [k.channels EXCEPT ![c] = x]
           w == [k.windows EXCEPT ![c] = y]
<1>1. k.channels \in [Channels -> ChannelType] /\ k.windows \in [Channels -> WindowType]
  BY SoundParts
<1>2. /\ ch \in [Channels -> ChannelType] /\ w \in [Channels -> WindowType]
      /\ ch[c] = x /\ w[c] = y
      /\ \A d \in Channels \ {c} : ch[d] = k.channels[d] /\ w[d] = k.windows[d]
  BY <1>1
<1>3. r = [people |-> p, channels |-> ch, windows |-> w] BY DEF Replaced
<1> HIDE DEF ch, w
<1>4. ASSUME NEW d \in Channels PROVE Fit(ch[d], w[d], Col(p, d))
  <2>1. CASE d = c BY <2>1, <1>2
  <2>2. CASE d # c
    <3>1. Fit(k.channels[d], k.windows[d], Col(k.people, d)) BY SoundFit
    <3> QED BY <2>2, <3>1, <1>2
  <2> QED BY <2>1, <2>2
<1>5. Sound(r) BY <1>2, <1>3, <1>4, FitSound
<1> QED BY <1>2, <1>3, <1>5

\* irc_add_person_int() keeps k sound, and adds who was not there.
LEMMA AddPeopleSound ==
  ASSUME NEW k, Sound(k), NEW c \in Channels, k.channels[c].joined,
         NEW names \in [Nicks -> Modes],
         NEW r, r = AddPeople(k, c, names)
  PROVE  /\ Sound(r)
         /\ \A n \in Nicks, d \in Channels : r.people[n][d] =
               IF d = c /\ k.people[n][d] = "out" THEN names[n] ELSE k.people[n][d]
         /\ \A d \in Channels : /\ r.channels[d].joined = k.channels[d].joined
                               /\ r.channels[d].live = k.channels[d].live
<1> DEFINE p == [n \in Nicks |-> [d \in Channels |->
                   IF d = c /\ k.people[n][d] = "out" THEN names[n] ELSE k.people[n][d]]]
           on == k.channels[c].onchan \cup {n \in Nicks : names[n] # "out"}
           ls == [n \in Nicks |->
                   IF k.windows[c].open /\ k.windows[c].list[n] = "out" THEN names[n]
                   ELSE k.windows[c].list[n]]
           x == [joined |-> k.channels[c].joined, onchan |-> on, live |-> k.channels[c].live]
           y == [open |-> k.windows[c].open, list |-> ls]
<1>1. k.channels[c] \in ChannelType /\ k.windows[c] \in WindowType BY SoundParts
<1>2. p \in [Nicks -> [Channels -> Modes]] BY SoundParts
<1>3. \A d \in Channels \ {c} : Col(p, d) = Col(k.people, d) BY DEF Col
<1>4. Fit(k.channels[c], k.windows[c], Col(k.people, c)) BY SoundFit
<1>5. Fit(x, y, Col(p, c))
  <2>1. \A n \in Nicks : Col(p, c)[n] =
           IF Col(k.people, c)[n] = "out" THEN names[n] ELSE Col(k.people, c)[n]
    BY DEF Col
  <2>2. on = {n \in Nicks : Col(p, c)[n] # "out"}
    <3> HIDE DEF p
    <3> QED BY <1>4, <2>1 DEF Fit
  <2>3. ls \in [Nicks -> Modes] BY <1>4 DEF Fit
  <2>4. \A n \in Nicks : ls[n] =
           IF k.windows[c].open /\ k.windows[c].list[n] = "out" THEN names[n]
           ELSE k.windows[c].list[n]
    OBVIOUS
  <2> HIDE DEF p, on, ls
  <2> QED BY <1>4, <2>1, <2>2, <2>3, <2>4 DEF Fit
<1>6. x \in ChannelType /\ y \in WindowType
  <2> HIDE DEF p
  <2> QED BY <1>1, <1>5 DEF ChannelType, WindowType, Fit
<1>7. /\ [k.channels EXCEPT ![c].onchan = @ \cup {n \in Nicks : names[n] # "out"}]
           = [k.channels EXCEPT ![c] = x]
      /\ [k.windows EXCEPT ![c].list = ls] = [k.windows EXCEPT ![c] = y]
  <2> HIDE DEF ls
  <2> QED BY <1>1, ChannelExcept, WindowExcept, SoundParts
<1>8. r = Replaced(k, p, c, x, y) BY <1>7 DEF AddPeople, Replaced
<1>9. \A n \in Nicks, d \in Channels : p[n][d] =
         IF d = c /\ k.people[n][d] = "out" THEN names[n] ELSE k.people[n][d]
  OBVIOUS
<1>10. x.joined = k.channels[c].joined /\ x.live = k.channels[c].live OBVIOUS
<1> HIDE DEF p, x, y
<1>11. /\ Sound(r) /\ r.people = p /\ r.channels[c] = x
       /\ \A d \in Channels \ {c} : r.channels[d] = k.channels[d]
  BY <1>2, <1>3, <1>5, <1>6, <1>8, OneChannel
<1> QED BY <1>9, <1>10, <1>11

\* The channel is gone, and nothing else.
Deleted(k, c, r) ==
    /\ \A n \in Nicks, d \in Channels :
          r.people[n][d] = IF d = c THEN "out" ELSE k.people[n][d]
    /\ r.channels[c].joined = FALSE
    /\ \A d \in Channels \ {c} : /\ r.channels[d].joined = k.channels[d].joined
                                /\ r.channels[d].live = k.channels[d].live

\* irc_del_channel() keeps k sound: everybody leaves the channel with us.
LEMMA DelChannelSound ==
  ASSUME NEW k, Sound(k), NEW c \in Channels, NEW close,
         NEW r, r = DelChannel(k, c, close)
  PROVE  Sound(r) /\ Deleted(k, c, r)
<1>1. Fit(k.channels[c], k.windows[c], Col(k.people, c)) BY SoundFit
<1>2. CASE ~k.channels[c].joined
  <2>1. r = k BY <1>2 DEF DelChannel
  <2>2. k.channels[c].joined = FALSE /\ \A n \in Nicks : k.people[n][c] = "out"
    BY <1>1, <1>2 DEF Fit, Col
  <2> QED BY <2>1, <2>2 DEF Deleted
<1>3. CASE k.channels[c].joined
  <2> DEFINE gone == k.channels[c].onchan \X {c}
             q == Without(k, gone)
             y == IF close THEN NoWindow ELSE q.windows[c]
  <2>1. \A n \in Nicks, d \in Channels :
           <<n, d>> \in gone <=> d = c /\ k.people[n][c] # "out"
    <3>1. ASSUME NEW n \in Nicks, NEW d \in Channels
          PROVE  <<n, d>> \in gone <=> n \in k.channels[c].onchan /\ d = c
      OBVIOUS
    <3>2. \A n \in Nicks : n \in k.channels[c].onchan <=> k.people[n][c] # "out"
      BY <1>1 DEF Fit, Col
    <3> QED BY <3>1, <3>2
  <2> HIDE DEF gone
  <2>2. /\ Sound(q)
        /\ \A n \in Nicks, d \in Channels :
              q.people[n][d] = IF <<n, d>> \in gone THEN "out" ELSE k.people[n][d]
        /\ \A d \in Channels : /\ q.channels[d].joined = k.channels[d].joined
                              /\ q.channels[d].live = k.channels[d].live
    BY WithoutSound
  <2>3. \A n \in Nicks, d \in Channels :
           q.people[n][d] = IF d = c THEN "out" ELSE k.people[n][d]
    <3> SUFFICES ASSUME NEW n \in Nicks, NEW d \in Channels
                 PROVE  q.people[n][d] = IF d = c THEN "out" ELSE k.people[n][d]
      OBVIOUS
    <3>1. q.people[n][d] = IF <<n, d>> \in gone THEN "out" ELSE k.people[n][d] BY <2>2
    <3>2. <<n, d>> \in gone <=> d = c /\ k.people[n][c] # "out" BY <2>1
    <3> HIDE DEF q
    <3> QED BY <3>1, <3>2
  <2>4. r = [q EXCEPT !.channels[c] = NoChannel,
                      !.windows[c] = IF close THEN NoWindow ELSE @]
    BY <1>3 DEF DelChannel, gone
  <2> HIDE DEF q
  <2>5. /\ q = [people |-> q.people, channels |-> q.channels, windows |-> q.windows]
        /\ q.people \in [Nicks -> [Channels -> Modes]]
        /\ q.channels \in [Channels -> ChannelType]
        /\ q.windows \in [Channels -> WindowType]
    BY <2>2, SoundParts
  <2>6. r = Replaced(q, q.people, c, NoChannel, y)
    BY <2>4, <2>5 DEF Replaced
  <2>7. Fit(NoChannel, y, Col(q.people, c))
    <3>1. Fit(q.channels[c], q.windows[c], Col(q.people, c)) BY <2>2, SoundFit
    <3>2. \A n \in Nicks : Col(q.people, c)[n] = "out" BY <2>3 DEF Col
    <3>3. NoChannel.onchan = {} /\ ~NoChannel.joined /\ ~NoChannel.live BY DEF NoChannel
    <3>4. /\ y.open \in BOOLEAN /\ y.list \in [Nicks -> Modes]
          /\ \A n \in Nicks : y.list[n] = "out"
      <4>1. CASE close BY <4>1 DEF NoWindow, Empty, Modes
      <4>2. CASE ~close BY <4>2, <3>1, <3>2 DEF Fit
      <4> QED BY <4>1, <4>2
    <3> DEFINE col == Col(q.people, c)
    <3> HIDE DEF y, col
    <3>5. \A n \in Nicks : col[n] = "out" BY <3>2 DEF col
    <3>6. NoChannel.onchan = {n \in Nicks : col[n] # "out"} BY <3>3, <3>5
    <3>7. NoChannel.joined \in BOOLEAN /\ NoChannel.live \in BOOLEAN BY DEF NoChannel
    <3>8. Fit(NoChannel, y, col) BY <3>3, <3>4, <3>5, <3>6, <3>7 DEF Fit
    <3> QED BY <3>8 DEF col
  <2>8. NoChannel \in ChannelType /\ y \in WindowType
    BY <2>5 DEF NoChannel, ChannelType, NoWindow, WindowType, Empty, Modes
  <2>9. NoChannel.joined = FALSE BY DEF NoChannel
  <2> HIDE DEF y
  <2>10. /\ Sound(r) /\ r.people = q.people /\ r.channels[c] = NoChannel
         /\ \A d \in Channels \ {c} : r.channels[d] = q.channels[d]
    <3>1. Sound(q) BY <2>2
    <3>2. q.people \in [Nicks -> [Channels -> Modes]] BY <2>5
    <3>3. \A d \in Channels \ {c} : Col(q.people, d) = Col(q.people, d) OBVIOUS
    <3> QED BY <2>6, <2>7, <2>8, <3>1, <3>2, <3>3, OneChannel
  <2> QED BY <2>2, <2>3, <2>9, <2>10 DEF Deleted
<1> QED BY <1>2, <1>3

\* irc_add_channel() keeps k sound; a new channel leads to an open window.
LEMMA AddChannelSound ==
  ASSUME NEW k, Sound(k), NEW c \in Channels, NEW r, r = AddChannel(k, c)
  PROVE  /\ Sound(r)
         /\ r.people = k.people
         /\ \A d \in Channels : r.channels[d].joined <=> d = c \/ k.channels[d].joined
         /\ k.channels[c].joined \/ r.channels[c].live
         /\ k.channels[c].joined => r.channels[c].live = k.channels[c].live
         /\ \A d \in Channels \ {c} : r.channels[d].live = k.channels[d].live
<1> DEFINE y == IF k.windows[c].open THEN k.windows[c] ELSE OpenWindow
           x == IF k.channels[c].joined THEN k.channels[c]
                ELSE [joined |-> TRUE, onchan |-> {}, live |-> TRUE]
<1>1. Fit(k.channels[c], k.windows[c], Col(k.people, c)) BY SoundFit
<1>2. /\ k = [people |-> k.people, channels |-> k.channels, windows |-> k.windows]
      /\ k.people \in [Nicks -> [Channels -> Modes]]
      /\ k.channels \in [Channels -> ChannelType]
      /\ k.windows \in [Channels -> WindowType]
  BY SoundParts
<1>3. r = Replaced(k, k.people, c, x, y) BY <1>2 DEF AddChannel, Replaced
<1>4. x \in ChannelType /\ y \in WindowType
  BY <1>2 DEF ChannelType, WindowType, OpenWindow, Empty, Modes
<1>5. /\ y.open = TRUE /\ y.list \in [Nicks -> Modes]
      /\ \A n \in Nicks : y.list[n] = k.windows[c].list[n]
  <2>1. CASE k.windows[c].open BY <1>1, <2>1 DEF Fit
  <2>2. CASE ~k.windows[c].open BY <1>1, <2>2 DEF Fit, OpenWindow, Empty, Modes
  <2> QED BY <2>1, <2>2
<1>6. /\ x.joined = TRUE /\ x.onchan = {n \in Nicks : Col(k.people, c)[n] # "out"}
      /\ x.live = IF k.channels[c].joined THEN k.channels[c].live ELSE TRUE
  <2>1. CASE k.channels[c].joined BY <1>1, <2>1 DEF Fit
  <2>2. CASE ~k.channels[c].joined BY <1>1, <2>2 DEF Fit
  <2> QED BY <2>1, <2>2
<1> HIDE DEF x, y
<1>7. Fit(x, y, Col(k.people, c)) BY <1>1, <1>5, <1>6 DEF Fit
<1>8. /\ Sound(r) /\ r.people = k.people /\ r.channels[c] = x
      /\ \A d \in Channels \ {c} : r.channels[d] = k.channels[d]
  BY <1>2, <1>3, <1>4, <1>7, OneChannel
<1>9. \A d \in Channels : k.channels[d].joined \in BOOLEAN BY <1>2 DEF ChannelType
<1> QED BY <1>6, <1>8, <1>9

\* irc_c_mode() keeps k sound: a person and a window's entry change together.
LEMMA SetModeSound ==
  ASSUME NEW k, Sound(k), NEW c \in Channels, NEW n \in Nicks, NEW mode, mode \in Modes, mode # "out",
         NEW r, r = SetMode(k, c, n, mode)
  PROVE  /\ Sound(r)
         /\ \A i \in Nicks, d \in Channels : r.people[i][d] =
               IF i = n /\ d = c /\ k.people[i][d] # "out" THEN mode ELSE k.people[i][d]
         /\ \A d \in Channels : /\ r.channels[d].joined = k.channels[d].joined
                               /\ r.channels[d].live = k.channels[d].live
<1>1. CASE k.people[n][c] = "out"
  <2>1. r = k BY <1>1 DEF SetMode
  <2> QED BY <1>1, <2>1
<1>2. CASE k.people[n][c] # "out"
  <2> DEFINE p == [k.people EXCEPT ![n][c] = mode]
             new == IF k.channels[c].live /\ k.windows[c].list[n] # "out" THEN mode
                    ELSE k.windows[c].list[n]
             x == k.channels[c]
             y == [open |-> k.windows[c].open, list |-> [k.windows[c].list EXCEPT ![n] = new]]
  <2>1. Fit(k.channels[c], k.windows[c], Col(k.people, c)) BY SoundFit
  <2>2. /\ k = [people |-> k.people, channels |-> k.channels, windows |-> k.windows]
        /\ k.people \in [Nicks -> [Channels -> Modes]]
        /\ k.channels \in [Channels -> ChannelType]
        /\ k.windows \in [Channels -> WindowType]
        /\ k.channels[c] \in ChannelType /\ k.windows[c] \in WindowType
    BY SoundParts
  <2>3. [k.windows EXCEPT ![c].list[n] = IF k.channels[c].live /\ @ # "out" THEN mode ELSE @]
          = [k.windows EXCEPT ![c] = y]
    <3>1. [k.windows EXCEPT ![c].list[n] = IF k.channels[c].live /\ @ # "out" THEN mode ELSE @]
            = [k.windows EXCEPT ![c] =
                 [k.windows[c] EXCEPT !.list = [k.windows[c].list EXCEPT ![n] = new]]]
      OBVIOUS
    <3> HIDE DEF new
    <3> QED BY <3>1, <2>2, WindowExcept
  <2>4. r = [people |-> p, channels |-> k.channels,
             windows |-> [k.windows EXCEPT ![c].list[n] =
                            IF k.channels[c].live /\ @ # "out" THEN mode ELSE @]]
    BY <1>2, <2>2 DEF SetMode
  <2>5. [k.channels EXCEPT ![c] = x] = k.channels BY <2>2
  <2>6. r = Replaced(k, p, c, x, y)
    <3> HIDE DEF p, x, y
    <3> QED BY <2>3, <2>4, <2>5 DEF Replaced
  <2>7. /\ p \in [Nicks -> [Channels -> Modes]]
        /\ \A i \in Nicks, d \in Channels : p[i][d] =
              IF i = n /\ d = c /\ k.people[i][d] # "out" THEN mode ELSE k.people[i][d]
    BY <1>2, <2>2 DEF Modes
  <2>8. /\ \A d \in Channels \ {c} : Col(p, d) = Col(k.people, d)
        /\ \A i \in Nicks : Col(p, c)[i] =
              IF i = n THEN mode ELSE Col(k.people, c)[i]
        /\ Col(k.people, c)[n] # "out" /\ mode # "out"
    <3> HIDE DEF p
    <3> QED BY <1>2, <2>7 DEF Col
  <2>9. /\ y.open = k.windows[c].open /\ y.list \in [Nicks -> Modes]
        /\ \A i \in Nicks : y.list[i] = IF i = n THEN new ELSE k.windows[c].list[i]
    BY <2>1 DEF Fit, Modes
  <2>10. Fit(x, y, Col(p, c))
    <3> DEFINE co == Col(k.people, c)
               cn == Col(p, c)
               wo == k.windows[c]
    <3> HIDE DEF co, cn, wo, y
    <3>1. /\ \A i \in Nicks : cn[i] = IF i = n THEN mode ELSE co[i]
          /\ co[n] # "out" /\ mode # "out"
      BY <2>8 DEF cn, co
    <3>2. Fit(x, wo, co) BY <2>1 DEF wo, co
    <3>3. /\ y.open = wo.open /\ y.list \in [Nicks -> Modes]
          /\ \A i \in Nicks : y.list[i] = IF i = n THEN new ELSE wo.list[i]
          /\ new = IF x.live /\ wo.list[n] # "out" THEN mode ELSE wo.list[n]
      BY <2>9 DEF wo
    <3> HIDE DEF x, new
    <3>4. x.onchan = {i \in Nicks : cn[i] # "out"} BY <3>1, <3>2 DEF Fit
    <3>5. Fit(x, y, cn) BY <3>1, <3>2, <3>3, <3>4 DEF Fit
    <3> QED BY <3>5 DEF cn
  <2>11. x \in ChannelType /\ y \in WindowType BY <2>1, <2>2, <2>9 DEF WindowType, Fit
  <2>12. x.joined = k.channels[c].joined /\ x.live = k.channels[c].live OBVIOUS
  <2> HIDE DEF p, y, x, new
  <2>13. /\ Sound(r) /\ r.people = p /\ r.channels[c] = x
         /\ \A d \in Channels \ {c} : r.channels[d] = k.channels[d]
    BY <2>6, <2>7, <2>8, <2>10, <2>11, OneChannel
  <2> QED BY <2>7, <2>12, <2>13
<1> QED BY <1>1, <1>2

\* The window of a channel is gone: WindowKill of Irc.
Killed(k, c) == [k EXCEPT !.windows[c] = NoWindow, !.channels[c].live = FALSE]

\* A closed window leaves k sound, and nobody forgotten.
LEMMA KillSound ==
  ASSUME NEW k, Sound(k), NEW c \in Channels, NEW r, r = Killed(k, c)
  PROVE  /\ Sound(r)
         /\ r.people = k.people
         /\ \A d \in Channels : r.channels[d].joined = k.channels[d].joined
         /\ \A d \in Channels \ {c} : r.channels[d].live = k.channels[d].live
<1> DEFINE x == [joined |-> k.channels[c].joined, onchan |-> k.channels[c].onchan, live |-> FALSE]
<1>1. Fit(k.channels[c], k.windows[c], Col(k.people, c)) BY SoundFit
<1>2. /\ k = [people |-> k.people, channels |-> k.channels, windows |-> k.windows]
      /\ k.people \in [Nicks -> [Channels -> Modes]]
      /\ k.channels \in [Channels -> ChannelType]
      /\ k.windows \in [Channels -> WindowType]
      /\ k.channels[c] \in ChannelType /\ k.windows[c] \in WindowType
  BY SoundParts
<1>3. [k.channels EXCEPT ![c].live = FALSE] = [k.channels EXCEPT ![c] = x]
  BY <1>2, ChannelExcept
<1>4. r = Replaced(k, k.people, c, x, NoWindow)
  <2>1. r = [people |-> k.people, channels |-> [k.channels EXCEPT ![c].live = FALSE],
             windows |-> [k.windows EXCEPT ![c] = NoWindow]]
    BY <1>2 DEF Killed
  <2> HIDE DEF x
  <2> QED BY <1>3, <2>1 DEF Replaced
<1>5. x \in ChannelType /\ NoWindow \in WindowType
  BY <1>2 DEF ChannelType, WindowType, NoWindow, Empty, Modes
<1>6. /\ NoWindow.open = FALSE /\ NoWindow.list \in [Nicks -> Modes]
      /\ \A n \in Nicks : NoWindow.list[n] = "out"
  BY DEF NoWindow, Empty, Modes
<1>7. /\ x.joined = k.channels[c].joined /\ x.live = FALSE
      /\ x.onchan = k.channels[c].onchan
  OBVIOUS
<1> HIDE DEF x
<1>8. Fit(x, NoWindow, Col(k.people, c)) BY <1>1, <1>6, <1>7 DEF Fit
<1>9. /\ Sound(r) /\ r.people = k.people /\ r.channels[c] = x
      /\ \A d \in Channels \ {c} : r.channels[d] = k.channels[d]
  BY <1>2, <1>4, <1>5, <1>8, OneChannel
<1> QED BY <1>7, <1>9

\* irc_nick_change() keeps k sound if the new nick is nobody's: every list that
\* led to the person leads to it still.
LEMMA NickChangeSound ==
  ASSUME NEW k, Sound(k), NEW old \in Nicks, NEW new \in Nicks, new # old,
         k.people[new] = Nowhere, NEW r, r = NickChange(k, old, new)
  PROVE  /\ Sound(r)
         /\ \A n \in Nicks, d \in Channels : r.people[n][d] =
               IF n = old THEN "out" ELSE IF n = new THEN k.people[old][d] ELSE k.people[n][d]
         /\ \A d \in Channels : /\ r.channels[d].joined = k.channels[d].joined
                               /\ r.channels[d].live = k.channels[d].live
<1>1. \A d \in Channels : k.people[new][d] = "out" BY DEF Nowhere
<1>2. CASE ~Known(k, old)
  <2>1. r = k BY <1>2 DEF NickChange
  <2>2. \A d \in Channels : k.people[old][d] = "out" BY <1>2 DEF Known, Nowhere
  <2> QED BY <1>1, <2>1, <2>2
<1>3. CASE Known(k, old)
  <2> DEFINE p == Moved(k.people, old, new, Nowhere)
             on(c) == (k.channels[c].onchan \ {old}) \cup {new}
             ch == [c \in Channels |->
                      IF old \in k.channels[c].onchan
                      THEN [k.channels[c] EXCEPT !.onchan = (@ \ {old}) \cup {new}]
                      ELSE k.channels[c]]
             w == [c \in Channels |->
                     IF k.people[old][c] # "out" /\ k.windows[c].list[old] # "out"
                     THEN [k.windows[c] EXCEPT !.list =
                             Moved(k.windows[c].list, old, new, "out")]
                     ELSE k.windows[c]]
  <2>1. /\ k = [people |-> k.people, channels |-> k.channels, windows |-> k.windows]
        /\ k.people \in [Nicks -> [Channels -> Modes]]
        /\ k.channels \in [Channels -> ChannelType]
        /\ k.windows \in [Channels -> WindowType]
    BY SoundParts
  <2>2. r = [people |-> p, channels |-> ch, windows |-> w]
    <3>1. Renamed(k, old, new) = [people |-> p, channels |-> ch, windows |-> k.windows]
      <4>1. Renamed(k, old, new) = [k EXCEPT !.people = p, !.channels = ch]
        BY DEF Renamed
      <4> HIDE DEF p, ch
      <4> QED BY <2>1, <4>1
    <3>2. r = [Renamed(k, old, new) EXCEPT !.windows = w] BY <1>3 DEF NickChange
    <3> HIDE DEF p, ch, w
    <3> QED BY <3>1, <3>2
  <2>3. Nowhere \in [Channels -> Modes] BY DEF Nowhere, Modes
  <2>4. /\ p \in [Nicks -> [Channels -> Modes]]
        /\ \A n \in Nicks : p[n] =
              IF n = old THEN Nowhere ELSE IF n = new THEN k.people[old] ELSE k.people[n]
    BY <2>1, <2>3 DEF Moved
  <2> HIDE DEF p
  <2>5. \A n \in Nicks, d \in Channels : p[n][d] =
           IF n = old THEN "out" ELSE IF n = new THEN k.people[old][d] ELSE k.people[n][d]
    BY <2>4 DEF Nowhere
  <2>6. ASSUME NEW c \in Channels
        PROVE  /\ ch[c] \in ChannelType /\ w[c] \in WindowType
               /\ ch[c].joined = k.channels[c].joined /\ ch[c].live = k.channels[c].live
               /\ Fit(ch[c], w[c], Col(p, c))
    <3> DEFINE co == Col(k.people, c)
               cn == Col(p, c)
               kc == k.channels[c]
               kw == k.windows[c]
               x == ch[c]
               y == w[c]
    <3>1. Fit(kc, kw, co) BY SoundFit
    <3>2. kc \in ChannelType /\ kw \in WindowType BY <2>1
    <3>3. /\ \A n \in Nicks : cn[n] = IF n = old THEN "out" ELSE IF n = new THEN co[old] ELSE co[n]
          /\ co[new] = "out"
      BY <1>1, <2>5 DEF Col
    <3>4. co[old] = k.people[old][c] BY DEF Col
    <3>5. x = IF old \in kc.onchan
              THEN [joined |-> kc.joined, onchan |-> (kc.onchan \ {old}) \cup {new}, live |-> kc.live]
              ELSE kc
      <4>1. x = IF old \in kc.onchan
                THEN [kc EXCEPT !.onchan = (kc.onchan \ {old}) \cup {new}] ELSE kc
        OBVIOUS
      <4> HIDE DEF x, kc
      <4> QED BY <3>2, <4>1, ChannelExcept
    <3>6. y = IF co[old] # "out" /\ kw.list[old] # "out"
              THEN [open |-> kw.open, list |-> Moved(kw.list, old, new, "out")] ELSE kw
      <4>1. y = IF co[old] # "out" /\ kw.list[old] # "out"
                THEN [kw EXCEPT !.list = Moved(kw.list, old, new, "out")] ELSE kw
        BY <3>4
      <4> HIDE DEF y, kw, co
      <4> QED BY <3>2, <4>1, WindowExcept
    <3>7. /\ Moved(kw.list, old, new, "out") \in [Nicks -> Modes]
          /\ \A n \in Nicks : Moved(kw.list, old, new, "out")[n] =
               IF n = old THEN "out" ELSE IF n = new THEN kw.list[old] ELSE kw.list[n]
      <4>1. kw.list \in [Nicks -> Modes] /\ "out" \in Modes BY <3>1 DEF Fit, Modes
      <4> HIDE DEF kw
      <4> QED BY <4>1 DEF Moved
    <3> HIDE DEF co, cn, kc, kw, ch, w, x, y
    <3>8. /\ x.joined = kc.joined /\ x.live = kc.live
          /\ x.onchan = IF old \in kc.onchan THEN (kc.onchan \ {old}) \cup {new} ELSE kc.onchan
      BY <3>5
    <3>9. /\ y.open = kw.open
          /\ y.list = IF co[old] # "out" /\ kw.list[old] # "out"
                      THEN Moved(kw.list, old, new, "out") ELSE kw.list
      BY <3>6
    <3>10. /\ y.list \in [Nicks -> Modes]
           /\ \A n \in Nicks : y.list[n] =
                 IF n = old THEN "out" ELSE IF n = new THEN kw.list[old] ELSE kw.list[n]
      <4>1. kw.list[new] = "out" BY <3>1, <3>3 DEF Fit
      <4>2. CASE kw.list[old] = "out" BY <4>1, <4>2, <3>1, <3>9 DEF Fit
      <4>3. CASE kw.list[old] # "out"
        <5>1. co[old] # "out" BY <4>3, <3>1 DEF Fit
        <5> QED BY <5>1, <4>3, <3>7, <3>9
      <4> QED BY <4>2, <4>3
    <3>11. x.onchan = {n \in Nicks : cn[n] # "out"}
      <4>1. \A n \in Nicks : n \in kc.onchan <=> co[n] # "out" BY <3>1 DEF Fit
      <4>2. kc.onchan \subseteq Nicks BY <3>1 DEF Fit
      <4> QED BY <3>3, <3>8, <4>1, <4>2
    <3>12. Fit(x, y, cn) BY <3>1, <3>3, <3>8, <3>9, <3>10, <3>11 DEF Fit
    <3>13. x \in ChannelType /\ y \in WindowType
      <4>1. x.onchan \in SUBSET Nicks BY <3>11
      <4>2. x = [joined |-> kc.joined, onchan |-> x.onchan, live |-> kc.live]
        BY <3>2, <3>5 DEF ChannelType
      <4>3. y = [open |-> kw.open, list |-> y.list] BY <3>2, <3>6 DEF WindowType
      <4>4. kc.joined \in BOOLEAN /\ kc.live \in BOOLEAN /\ kw.open \in BOOLEAN
        BY <3>1 DEF Fit
      <4> QED BY <4>1, <4>2, <4>3, <4>4, <3>10 DEF ChannelType, WindowType
    <3> QED BY <3>8, <3>12, <3>13 DEF x, y, cn, kc
  <2>7. ch \in [Channels -> ChannelType] /\ w \in [Channels -> WindowType]
    <3>1. ch = [c \in Channels |-> ch[c]] /\ w = [c \in Channels |-> w[c]] OBVIOUS
    <3> HIDE DEF ch, w
    <3> QED BY <2>6, <3>1
  <2> HIDE DEF ch, w
  <2>8. Sound(r) BY <2>2, <2>4, <2>6, <2>7, FitSound
  <2>9. r.people = p /\ r.channels = ch BY <2>2
  <2> QED BY <2>5, <2>6, <2>8, <2>9
<1> QED BY <1>2, <1>3

\* irc_free_people() leaves nobody and no channel, and no window with a list.
LEMMA FreePeopleSound ==
  ASSUME NEW k, Sound(k), NEW r, r = FreePeople(k)
  PROVE  /\ Sound(r)
         /\ r.people = [n \in Nicks |-> Nowhere]
         /\ \A d \in Channels : r.channels[d] = NoChannel
<1> DEFINE p == [n \in Nicks |-> Nowhere]
           ch == [c \in Channels |-> NoChannel]
           w == [c \in Channels |->
                   IF k.channels[c].joined /\ k.windows[c].open THEN OpenWindow
                   ELSE k.windows[c]]
<1>1. r = [people |-> p, channels |-> ch, windows |-> w] BY DEF FreePeople
<1>2. /\ p \in [Nicks -> [Channels -> Modes]]
      /\ ch \in [Channels -> ChannelType]
      /\ \A c \in Channels, n \in Nicks : Col(p, c)[n] = "out"
  BY DEF Nowhere, Modes, NoChannel, ChannelType, Col
<1>3. w \in [Channels -> WindowType]
  BY SoundParts DEF OpenWindow, WindowType, Empty, Modes
<1>4. ASSUME NEW c \in Channels PROVE Fit(ch[c], w[c], Col(p, c))
  <2> DEFINE cn == Col(p, c)
             y == w[c]
  <2>1. Fit(k.channels[c], k.windows[c], Col(k.people, c)) BY SoundFit
  <2>2. /\ y.open \in BOOLEAN /\ y.list \in [Nicks -> Modes]
        /\ \A n \in Nicks : y.list[n] = "out"
    <3>1. CASE k.channels[c].joined /\ k.windows[c].open
      BY <3>1 DEF OpenWindow, Empty, Modes
    <3>2. CASE ~(k.channels[c].joined /\ k.windows[c].open)
      <4>1. y = k.windows[c] BY <3>2
      <4> QED BY <3>2, <4>1, <2>1 DEF Fit
    <3> QED BY <3>1, <3>2
  <2>3. \A n \in Nicks : cn[n] = "out" BY <1>2
  <2> HIDE DEF cn, y
  <2>4. /\ NoChannel.joined = FALSE /\ NoChannel.live = FALSE
        /\ NoChannel.onchan = {n \in Nicks : cn[n] # "out"}
    BY <2>3 DEF NoChannel
  <2>5. Fit(NoChannel, y, cn) BY <2>2, <2>3, <2>4 DEF Fit
  <2> QED BY <2>5 DEF y, cn
<1>5. \A d \in Channels : ch[d] = NoChannel OBVIOUS
<1> HIDE DEF p, ch, w
<1>6. Sound(r) BY <1>1, <1>2, <1>3, <1>4, FitSound
<1>7. r.people = p /\ r.channels = ch BY <1>1
<1> QED BY <1>5, <1>6, <1>7 DEF p

-----------------------------------------------------------------------------
(* Each handler does to the view what its message says.                    *)

\* What a message has, by its kind.
LEMMA MessageParts ==
  ASSUME NEW msg \in Messages
  PROVE  /\ msg.kind \in {"JOIN", "PART", "353", "QUIT", "NICK", "MODE"}
         /\ msg.kind \in {"JOIN", "PART", "353", "MODE"} => msg.chan \in Channels
         /\ msg.kind \in {"JOIN", "PART", "QUIT", "NICK", "MODE"} => msg.nick \in Nicks
         /\ msg.kind = "353" => msg.names \in [Nicks -> Modes]
         /\ msg.kind = "NICK" => msg.new \in Nicks
         /\ msg.kind = "MODE" => msg.mode \in {"plain", "op"}
BY DEF Messages

\* What the view shows.
LEMMA ViewParts ==
  ASSUME NEW k, NEW me
  PROVE  /\ ViewOf(k, me).nick = me
         /\ \A c \in Channels : ViewOf(k, me).on[c] = k.channels[c].joined
         /\ ViewOf(k, me).who = k.people
BY DEF ViewOf

\* To be shown of a k that is what a message makes of a view.
LEMMA ViewIs ==
  ASSUME NEW k, Sound(k), NEW me, NEW p, NEW msg,
         me = IF msg.kind = "NICK" /\ msg.nick = p.nick THEN msg.new ELSE p.nick,
         \A c \in Channels : k.channels[c].joined =
            IF msg.kind \in {"JOIN", "PART"} /\ msg.chan = c /\ msg.nick = p.nick
            THEN msg.kind = "JOIN" ELSE p.on[c],
         \A n \in Nicks, c \in Channels : k.people[n][c] = Leaves(p, msg, n, c)
  PROVE  ViewOf(k, me) = Step(p, msg)
<1>1. [c \in Channels |-> k.channels[c].joined] = Step(p, msg).on BY DEF Step
<1>2. k.people = Step(p, msg).who
  <2>1. k.people \in [Nicks -> [Channels -> Modes]] BY SoundParts
  <2>2. k.people = [n \in Nicks |-> [c \in Channels |-> k.people[n][c]]] BY <2>1
  <2>3. Step(p, msg).who = [n \in Nicks |-> [c \in Channels |-> Leaves(p, msg, n, c)]]
    BY DEF Step
  <2> QED BY <2>2, <2>3
<1>3. me = Step(p, msg).nick BY DEF Step
<1>4. Step(p, msg) = [nick |-> Step(p, msg).nick, on |-> Step(p, msg).on,
                      who |-> Step(p, msg).who]
  BY DEF Step
<1> QED BY <1>1, <1>2, <1>3, <1>4 DEF ViewOf

\* What a handler may do: k, with our nick me, becomes r and you.
Handled(k, me, r, you, msg) ==
    /\ Sound(r)
    /\ ViewOf(r, you) = Step(ViewOf(k, me), msg)
    /\ \A c \in Channels : r.channels[c].joined /\ ~r.channels[c].live
                         => k.channels[c].joined /\ ~k.channels[c].live

\* irc_c_join() does to the view what JOIN says.
LEMMA JoinHandled ==
  ASSUME NEW k, Sound(k), NEW me \in Nicks, NEW msg \in Messages, msg.kind = "JOIN",
         NEW r, r = IF msg.nick = me THEN AddChannel(k, msg.chan)
                    ELSE IF k.channels[msg.chan].joined
                    THEN AddPerson(k, msg.chan, msg.nick, "plain")
                    ELSE k
  PROVE  Handled(k, me, r, me, msg)
<1> DEFINE p == ViewOf(k, me)
           c == msg.chan
           n == msg.nick
<1>1. c \in Channels /\ n \in Nicks BY MessageParts
<1>2. /\ p.nick = me /\ p.who = k.people
      /\ \A d \in Channels : p.on[d] = k.channels[d].joined
  BY ViewParts
<1>3. \A i \in Nicks, d \in Channels : Leaves(p, msg, i, d) =
         IF i = n /\ d = c /\ i # me /\ k.channels[d].joined /\ k.people[i][d] = "out"
         THEN "plain" ELSE k.people[i][d]
  <2> HIDE DEF p
  <2> QED BY <1>2 DEF Leaves
<1>4. \A d \in Channels : k.channels[d].joined \in BOOLEAN BY SoundFit DEF Fit
<1> HIDE DEF c, n, p
<1>5. CASE n = me
  <2>1. r = AddChannel(k, c) BY <1>5 DEF n, c
  <2>2. /\ Sound(r) /\ r.people = k.people
        /\ \A d \in Channels : r.channels[d].joined <=> d = c \/ k.channels[d].joined
        /\ k.channels[c].joined \/ r.channels[c].live
        /\ k.channels[c].joined => r.channels[c].live = k.channels[c].live
        /\ \A d \in Channels \ {c} : r.channels[d].live = k.channels[d].live
    BY <1>1, <2>1, AddChannelSound
  <2>3. \A d \in Channels : r.channels[d].joined \in BOOLEAN BY <2>2, SoundFit DEF Fit
  <2>4. \A d \in Channels : r.channels[d].joined =
           IF msg.kind \in {"JOIN", "PART"} /\ c = d /\ n = p.nick
           THEN msg.kind = "JOIN" ELSE p.on[d]
    BY <1>2, <1>4, <1>5, <2>2, <2>3
  <2>5. \A i \in Nicks, d \in Channels : r.people[i][d] = Leaves(p, msg, i, d)
    BY <1>3, <1>5, <2>2
  <2>6. ViewOf(r, me) = Step(p, msg)
    BY <1>2, <2>2, <2>4, <2>5, ViewIs DEF c, n
  <2> QED BY <2>2, <2>6 DEF Handled, p
<1>6. CASE n # me /\ k.channels[c].joined
  <2> DEFINE names == [Empty EXCEPT ![n] = "plain"]
  <2>1. /\ names \in [Nicks -> Modes]
        /\ \A i \in Nicks : names[i] = IF i = n THEN "plain" ELSE "out"
    BY <1>1 DEF Empty, Modes
  <2>2. r = AddPeople(k, c, names) BY <1>6 DEF AddPerson, n, c
  <2> HIDE DEF names
  <2>3. /\ Sound(r)
        /\ \A i \in Nicks, d \in Channels : r.people[i][d] =
              IF d = c /\ k.people[i][d] = "out" THEN names[i] ELSE k.people[i][d]
        /\ \A d \in Channels : /\ r.channels[d].joined = k.channels[d].joined
                              /\ r.channels[d].live = k.channels[d].live
    BY <1>1, <1>6, <2>1, <2>2, AddPeopleSound
  <2>4. \A d \in Channels : r.channels[d].joined =
           IF msg.kind \in {"JOIN", "PART"} /\ c = d /\ n = p.nick
           THEN msg.kind = "JOIN" ELSE p.on[d]
    BY <1>2, <1>6, <2>3
  <2>5. \A i \in Nicks, d \in Channels : r.people[i][d] = Leaves(p, msg, i, d)
    BY <1>3, <1>6, <2>1, <2>3
  <2>6. ViewOf(r, me) = Step(p, msg)
    BY <1>2, <2>3, <2>4, <2>5, ViewIs DEF c, n
  <2> QED BY <2>3, <2>6 DEF Handled, p
<1>7. CASE n # me /\ ~k.channels[c].joined
  <2>1. r = k BY <1>7 DEF n, c
  <2>2. \A d \in Channels : r.channels[d].joined =
           IF msg.kind \in {"JOIN", "PART"} /\ c = d /\ n = p.nick
           THEN msg.kind = "JOIN" ELSE p.on[d]
    BY <1>2, <1>7, <2>1
  <2>3. \A i \in Nicks, d \in Channels : r.people[i][d] = Leaves(p, msg, i, d)
    BY <1>3, <1>7, <2>1
  <2>4. ViewOf(r, me) = Step(p, msg)
    BY <1>2, <2>1, <2>2, <2>3, ViewIs DEF c, n
  <2> QED BY <2>1, <2>4 DEF Handled, p
<1> QED BY <1>5, <1>6, <1>7

\* irc_c_namerpl() does to the view what 353 says.
LEMMA NamesHandled ==
  ASSUME NEW k, Sound(k), NEW me \in Nicks, NEW msg \in Messages, msg.kind = "353",
         NEW r, r = IF ~k.channels[msg.chan].joined THEN k
                    ELSE AddPeople(k, msg.chan, msg.names)
  PROVE  Handled(k, me, r, me, msg)
<1> DEFINE p == ViewOf(k, me)
           c == msg.chan
           names == msg.names
<1>1. c \in Channels /\ names \in [Nicks -> Modes] BY MessageParts
<1>2. /\ p.nick = me /\ p.who = k.people
      /\ \A d \in Channels : p.on[d] = k.channels[d].joined
  BY ViewParts
<1>3. \A i \in Nicks, d \in Channels : Leaves(p, msg, i, d) =
         IF d = c /\ k.channels[d].joined /\ k.people[i][d] = "out"
         THEN names[i] ELSE k.people[i][d]
  <2> HIDE DEF p
  <2> QED BY <1>2 DEF Leaves
<1> HIDE DEF c, names, p
<1>4. /\ Sound(r)
      /\ \A d \in Channels : /\ r.channels[d].joined = k.channels[d].joined
                            /\ r.channels[d].live = k.channels[d].live
      /\ \A i \in Nicks, d \in Channels : r.people[i][d] = Leaves(p, msg, i, d)
  <2>1. CASE k.channels[c].joined
    <3>1. r = AddPeople(k, c, names) BY <2>1 DEF c, names
    <3>2. /\ Sound(r)
          /\ \A i \in Nicks, d \in Channels : r.people[i][d] =
                IF d = c /\ k.people[i][d] = "out" THEN names[i] ELSE k.people[i][d]
          /\ \A d \in Channels : /\ r.channels[d].joined = k.channels[d].joined
                                /\ r.channels[d].live = k.channels[d].live
      BY <1>1, <2>1, <3>1, AddPeopleSound
    <3> QED BY <1>3, <2>1, <3>2
  <2>2. CASE ~k.channels[c].joined
    <3>1. r = k BY <2>2 DEF c
    <3> QED BY <1>3, <2>2, <3>1
  <2> QED BY <2>1, <2>2
<1>5. \A d \in Channels : r.channels[d].joined =
         IF msg.kind \in {"JOIN", "PART"} /\ c = d /\ msg.nick = p.nick
         THEN msg.kind = "JOIN" ELSE p.on[d]
  BY <1>2, <1>4
<1>6. ViewOf(r, me) = Step(p, msg) BY <1>2, <1>4, <1>5, ViewIs DEF c
<1> QED BY <1>4, <1>6 DEF Handled, p

\* irc_c_part() and irc_c_kick() do to the view what PART and KICK say.
LEMMA PartHandled ==
  ASSUME NEW k, Sound(k), NEW me \in Nicks, NEW msg \in Messages, msg.kind = "PART",
         NEW close,
         NEW r, r = IF msg.nick = me THEN DelChannel(k, msg.chan, close)
                    ELSE IF k.channels[msg.chan].joined /\ Known(k, msg.nick)
                    THEN DelPersonChannel(k, msg.chan, msg.nick)
                    ELSE k
  PROVE  Handled(k, me, r, me, msg)
<1> DEFINE p == ViewOf(k, me)
           c == msg.chan
           n == msg.nick
<1>1. c \in Channels /\ n \in Nicks BY MessageParts
<1>2. /\ p.nick = me /\ p.who = k.people
      /\ \A d \in Channels : p.on[d] = k.channels[d].joined
  BY ViewParts
<1>3. \A i \in Nicks, d \in Channels : Leaves(p, msg, i, d) =
         IF d = c /\ n \in {i, me} THEN "out" ELSE k.people[i][d]
  <2> HIDE DEF p
  <2> QED BY <1>2 DEF Leaves
<1> HIDE DEF c, n, p
<1>4. CASE n = me
  <2>1. r = DelChannel(k, c, close) BY <1>4 DEF n, c
  <2>2. /\ Sound(r)
        /\ \A i \in Nicks, d \in Channels :
              r.people[i][d] = IF d = c THEN "out" ELSE k.people[i][d]
        /\ r.channels[c].joined = FALSE
        /\ \A d \in Channels \ {c} : /\ r.channels[d].joined = k.channels[d].joined
                                    /\ r.channels[d].live = k.channels[d].live
    <3>1. Sound(r) /\ Deleted(k, c, r) BY <1>1, <2>1, DelChannelSound
    <3> QED BY <3>1 DEF Deleted
  <2>3. \A d \in Channels : r.channels[d].joined =
           IF msg.kind \in {"JOIN", "PART"} /\ c = d /\ n = p.nick
           THEN msg.kind = "JOIN" ELSE p.on[d]
    BY <1>2, <1>4, <2>2
  <2>4. \A i \in Nicks, d \in Channels : r.people[i][d] = Leaves(p, msg, i, d)
    BY <1>3, <1>4, <2>2
  <2>5. ViewOf(r, me) = Step(p, msg)
    BY <1>2, <2>2, <2>3, <2>4, ViewIs DEF c, n
  <2> QED BY <2>2, <2>5 DEF Handled, p
<1>5. CASE n # me
  <2>1. /\ Sound(r)
        /\ \A i \in Nicks, d \in Channels :
              r.people[i][d] = IF i = n /\ d = c THEN "out" ELSE k.people[i][d]
        /\ \A d \in Channels : /\ r.channels[d].joined = k.channels[d].joined
                              /\ r.channels[d].live = k.channels[d].live
    <3>1. CASE k.channels[c].joined /\ Known(k, n)
      <4> DEFINE gone == {<<n, c>>}
      <4>1. r = Without(k, gone) BY <1>5, <3>1 DEF DelPersonChannel, n, c
      <4>2. \A i \in Nicks, d \in Channels : <<i, d>> \in gone <=> i = n /\ d = c OBVIOUS
      <4> HIDE DEF gone
      <4>3. /\ Sound(r)
            /\ \A i \in Nicks, d \in Channels :
                  r.people[i][d] = IF <<i, d>> \in gone THEN "out" ELSE k.people[i][d]
            /\ \A d \in Channels : /\ r.channels[d].joined = k.channels[d].joined
                                  /\ r.channels[d].live = k.channels[d].live
        BY <4>1, WithoutSound
      <4> QED BY <4>2, <4>3
    <3>2. CASE ~(k.channels[c].joined /\ Known(k, n))
      <4>1. r = k BY <1>5, <3>2 DEF n, c
      <4>2. k.people[n][c] = "out"
        <5>1. CASE ~Known(k, n) BY <1>1, <5>1 DEF Known, Nowhere
        <5>2. CASE ~k.channels[c].joined
          <6>1. Fit(k.channels[c], k.windows[c], Col(k.people, c)) BY <1>1, SoundFit
          <6> QED BY <1>1, <5>2, <6>1 DEF Fit, Col
        <5> QED BY <3>2, <5>1, <5>2
      <4> QED BY <4>1, <4>2
    <3> QED BY <3>1, <3>2
  <2>2. \A d \in Channels : r.channels[d].joined =
           IF msg.kind \in {"JOIN", "PART"} /\ c = d /\ n = p.nick
           THEN msg.kind = "JOIN" ELSE p.on[d]
    BY <1>2, <1>5, <2>1
  <2>3. \A i \in Nicks, d \in Channels : r.people[i][d] = Leaves(p, msg, i, d)
    BY <1>3, <1>5, <2>1
  <2>4. ViewOf(r, me) = Step(p, msg)
    BY <1>2, <2>1, <2>2, <2>3, ViewIs DEF c, n
  <2> QED BY <2>1, <2>4 DEF Handled, p
<1> QED BY <1>4, <1>5

\* irc_c_quit() does to the view what QUIT says.
LEMMA QuitHandled ==
  ASSUME NEW k, Sound(k), NEW me \in Nicks, NEW msg \in Messages, msg.kind = "QUIT",
         NEW r, r = DelPerson(k, msg.nick)
  PROVE  Handled(k, me, r, me, msg)
<1> DEFINE p == ViewOf(k, me)
           n == msg.nick
           gone == {n} \X {d \in Channels : k.people[n][d] # "out"}
<1>1. n \in Nicks BY MessageParts
<1>2. /\ p.nick = me /\ p.who = k.people
      /\ \A d \in Channels : p.on[d] = k.channels[d].joined
  BY ViewParts
<1>3. \A i \in Nicks, d \in Channels : Leaves(p, msg, i, d) =
         IF i = n THEN "out" ELSE k.people[i][d]
  <2> HIDE DEF p
  <2> QED BY <1>2 DEF Leaves
<1>4. r = Without(k, gone) BY DEF DelPerson
<1>5. ASSUME NEW i \in Nicks, NEW d \in Channels
      PROVE  <<i, d>> \in gone <=> i = n /\ k.people[n][d] # "out"
  OBVIOUS
<1> HIDE DEF n, p, gone
<1>6. /\ Sound(r)
      /\ \A i \in Nicks, d \in Channels :
            r.people[i][d] = IF <<i, d>> \in gone THEN "out" ELSE k.people[i][d]
      /\ \A d \in Channels : /\ r.channels[d].joined = k.channels[d].joined
                            /\ r.channels[d].live = k.channels[d].live
  BY <1>4, WithoutSound
<1>7. \A d \in Channels : r.channels[d].joined =
         IF msg.kind \in {"JOIN", "PART"} /\ msg.chan = d /\ n = p.nick
         THEN msg.kind = "JOIN" ELSE p.on[d]
  BY <1>2, <1>6
<1>8. ASSUME NEW i \in Nicks, NEW d \in Channels
      PROVE  r.people[i][d] = Leaves(p, msg, i, d)
  <2>1. r.people[i][d] = IF <<i, d>> \in gone THEN "out" ELSE k.people[i][d] BY <1>6
  <2>2. <<i, d>> \in gone <=> i = n /\ k.people[n][d] # "out" BY <1>5
  <2> QED BY <1>3, <2>1, <2>2
<1>9. ViewOf(r, me) = Step(p, msg) BY <1>2, <1>6, <1>7, <1>8, ViewIs DEF n
<1> QED BY <1>6, <1>9 DEF Handled, p

\* irc_c_nick() does to the view what NICK says, if the new nick is nobody's.
LEMMA NickHandled ==
  ASSUME NEW k, Sound(k), NEW me \in Nicks, NEW msg \in Messages, msg.kind = "NICK",
         Fits(ViewOf(k, me), msg),
         NEW r, r = NickChange(k, msg.nick, msg.new),
         NEW you, you = IF msg.nick = me THEN msg.new ELSE me
  PROVE  Handled(k, me, r, you, msg)
<1> DEFINE p == ViewOf(k, me)
           old == msg.nick
           new == msg.new
<1>1. old \in Nicks /\ new \in Nicks BY MessageParts
<1>2. /\ p.nick = me /\ p.who = k.people
      /\ \A d \in Channels : p.on[d] = k.channels[d].joined
  BY ViewParts
<1>3. \A i \in Nicks, d \in Channels : Leaves(p, msg, i, d) =
         IF i = old THEN "out" ELSE IF i = new THEN k.people[old][d] ELSE k.people[i][d]
  <2> HIDE DEF p
  <2> QED BY <1>2 DEF Leaves
<1>4. new # old /\ k.people[new] = Nowhere
  <2> HIDE DEF p
  <2>1. Fits(p, msg) BY DEF p
  <2>2. new # old /\ \A d \in Channels : k.people[new][d] = "out"
    BY <1>2, <2>1 DEF Fits
  <2>3. k.people[new] \in [Channels -> Modes] BY <1>1, SoundParts
  <2>4. k.people[new] = [d \in Channels |-> k.people[new][d]] BY <2>3
  <2> QED BY <2>2, <2>4 DEF Nowhere
<1>5. r = NickChange(k, old, new) OBVIOUS
<1> HIDE DEF old, new, p
<1>6. /\ Sound(r)
      /\ \A i \in Nicks, d \in Channels : r.people[i][d] =
            IF i = old THEN "out" ELSE IF i = new THEN k.people[old][d] ELSE k.people[i][d]
      /\ \A d \in Channels : /\ r.channels[d].joined = k.channels[d].joined
                            /\ r.channels[d].live = k.channels[d].live
  BY <1>1, <1>4, <1>5, NickChangeSound
<1>7. \A d \in Channels : r.channels[d].joined =
         IF msg.kind \in {"JOIN", "PART"} /\ msg.chan = d /\ old = p.nick
         THEN msg.kind = "JOIN" ELSE p.on[d]
  BY <1>2, <1>6
<1>8. \A i \in Nicks, d \in Channels : r.people[i][d] = Leaves(p, msg, i, d)
  BY <1>3, <1>6
<1>9. ViewOf(r, you) = Step(p, msg) BY <1>2, <1>6, <1>7, <1>8, ViewIs DEF old, new
<1> QED BY <1>6, <1>9 DEF Handled, p

\* irc_c_mode() does to the view what MODE says.
LEMMA ModeHandled ==
  ASSUME NEW k, Sound(k), NEW me \in Nicks, NEW msg \in Messages, msg.kind = "MODE",
         NEW r, r = SetMode(k, msg.chan, msg.nick, msg.mode)
  PROVE  Handled(k, me, r, me, msg)
<1> DEFINE p == ViewOf(k, me)
           c == msg.chan
           n == msg.nick
           mode == msg.mode
<1>1. c \in Channels /\ n \in Nicks /\ mode \in Modes /\ mode # "out"
  BY MessageParts DEF Modes
<1>2. /\ p.nick = me /\ p.who = k.people
      /\ \A d \in Channels : p.on[d] = k.channels[d].joined
  BY ViewParts
<1>3. \A i \in Nicks, d \in Channels : Leaves(p, msg, i, d) =
         IF i = n /\ d = c /\ k.people[i][d] # "out" THEN mode ELSE k.people[i][d]
  <2> HIDE DEF p
  <2> QED BY <1>2 DEF Leaves
<1>4. r = SetMode(k, c, n, mode) OBVIOUS
<1> HIDE DEF c, n, mode, p
<1>5. /\ Sound(r)
      /\ \A i \in Nicks, d \in Channels : r.people[i][d] =
            IF i = n /\ d = c /\ k.people[i][d] # "out" THEN mode ELSE k.people[i][d]
      /\ \A d \in Channels : /\ r.channels[d].joined = k.channels[d].joined
                            /\ r.channels[d].live = k.channels[d].live
  BY <1>1, <1>4, SetModeSound
<1>6. \A d \in Channels : r.channels[d].joined =
         IF msg.kind \in {"JOIN", "PART"} /\ c = d /\ n = p.nick
         THEN msg.kind = "JOIN" ELSE p.on[d]
  BY <1>2, <1>5
<1>7. \A i \in Nicks, d \in Channels : r.people[i][d] = Leaves(p, msg, i, d)
  BY <1>3, <1>5
<1>8. ViewOf(r, me) = Step(p, msg) BY <1>2, <1>5, <1>6, <1>7, ViewIs DEF c, n
<1> QED BY <1>5, <1>8 DEF Handled, p

-----------------------------------------------------------------------------
(* What is foreseen, as messages are taken and sent                        *)

\* What is known is sound.
LEMMA SoundTyped == Typed => Sound(known) BY DEF Typed

\* The first message of the stream fits the view.
LEMMA HeadFits ==
  ASSUME Typed, NEW h, Foreseen(h), stream # << >>
  PROVE  m \in Messages /\ Fits(View, m) /\ h[1] = View /\ h[2] = Step(View, m)
<1>1. stream \in Seq(Messages) BY DEF Typed
<1>2. Len(stream) \in Nat /\ Len(stream) > 0 /\ m \in Messages /\ m = stream[1]
  BY <1>1 DEF m
<1>3. 1 \in 1 .. Len(stream) BY <1>2
<1>4. /\ h[1] = View
      /\ \A i \in 1 .. Len(stream) : Fits(h[i], stream[i]) /\ h[i + 1] = Step(h[i], stream[i])
  BY DEF Foreseen, Replay
<1>5. Fits(h[1], stream[1]) /\ h[1 + 1] = Step(h[1], stream[1]) BY <1>3, <1>4
<1> QED BY <1>2, <1>4, <1>5

\* A replay goes on after its first message.
LEMMA ReplayTail ==
  ASSUME NEW s \in Seq(Messages), s # << >>, NEW h, NEW v, Replay(h, v, s),
         NEW g, g = [i \in 1 .. Len(s) |-> h[i + 1]]
  PROVE  Replay(g, h[2], Tail(s))
<1>1. /\ Len(s) \in Nat /\ Len(s) > 0 /\ Len(Tail(s)) = Len(s) - 1
      /\ \A i \in 1 .. Len(s) - 1 : Tail(s)[i] = s[i + 1]
  OBVIOUS
<1>2. \A i \in 1 .. Len(s) : Fits(h[i], s[i]) /\ h[i + 1] = Step(h[i], s[i]) BY DEF Replay
<1>3. DOMAIN g = 1 .. Len(Tail(s)) + 1 BY <1>1
<1>4. \A i \in 1 .. Len(s) : g[i] = h[i + 1] OBVIOUS
<1>5. ASSUME NEW i \in 1 .. Len(Tail(s))
      PROVE  Fits(g[i], Tail(s)[i]) /\ g[i + 1] = Step(g[i], Tail(s)[i])
  <2>1. i + 1 \in 1 .. Len(s) /\ i \in 1 .. Len(s) - 1 /\ i \in 1 .. Len(s) BY <1>1
  <2>2. g[i] = h[i + 1] /\ g[i + 1] = h[i + 1 + 1] /\ Tail(s)[i] = s[i + 1]
    BY <1>1, <1>4, <2>1
  <2> QED BY <1>2, <2>1, <2>2
<1>6. g[1] = h[2] BY <1>1
<1> QED BY <1>3, <1>5, <1>6 DEF Replay

\* A replay goes on with one more message.
LEMMA ReplayAppend ==
  ASSUME NEW s \in Seq(Messages), NEW msg \in Messages, NEW h, NEW v, Replay(h, v, s),
         Fits(h[Len(s) + 1], msg)
  PROVE  \E g : /\ Replay(g, v, Append(s, msg))
                /\ \A i \in 1 .. Len(s) + 1 : g[i] = h[i]
                /\ g[Len(s) + 2] = Step(h[Len(s) + 1], msg)
<1> DEFINE t == Append(s, msg)
           last == Step(h[Len(s) + 1], msg)
           g == [i \in 1 .. Len(s) + 2 |-> IF i = Len(s) + 2 THEN last ELSE h[i]]
<1>1. /\ Len(s) \in Nat /\ Len(t) = Len(s) + 1
      /\ \A i \in 1 .. Len(s) : t[i] = s[i]
      /\ t[Len(s) + 1] = msg
  OBVIOUS
<1>2. /\ h[1] = v
      /\ \A i \in 1 .. Len(s) : Fits(h[i], s[i]) /\ h[i + 1] = Step(h[i], s[i])
  BY DEF Replay
<1> HIDE DEF t, last
<1>3. /\ \A i \in 1 .. Len(s) + 1 : g[i] = h[i]
      /\ g[Len(s) + 2] = last
      /\ DOMAIN g = 1 .. Len(t) + 1
  BY <1>1
<1> HIDE DEF g
<1>4. ASSUME NEW i \in 1 .. Len(t) PROVE Fits(g[i], t[i]) /\ g[i + 1] = Step(g[i], t[i])
  <2>1. CASE i = Len(s) + 1
    <3>1. g[i] = h[i] /\ g[i + 1] = last /\ t[i] = msg BY <1>1, <1>3, <2>1
    <3> QED BY <2>1, <3>1 DEF last
  <2>2. CASE i # Len(s) + 1
    <3>1. i \in 1 .. Len(s) /\ i \in 1 .. Len(s) + 1 /\ i + 1 \in 1 .. Len(s) + 1
      BY <1>1, <2>2
    <3>2. g[i] = h[i] /\ g[i + 1] = h[i + 1] /\ t[i] = s[i] BY <1>1, <1>3, <3>1
    <3> QED BY <1>2, <3>1, <3>2
  <2> QED BY <2>1, <2>2
<1>5. g[1] = v BY <1>1, <1>2, <1>3
<1>6. Replay(g, v, t) BY <1>3, <1>4, <1>5 DEF Replay
<1> QED BY <1>3, <1>6 DEF t, last

\* The program takes a message and does what it says.
LEMMA Consumed ==
  ASSUME Typed, NEW h, Foreseen(h), stream # << >>, stream' = Tail(stream),
         UNCHANGED <<out, world>>, Handled(known, nick, known', nick', m)
  PROVE  \E g : Foreseen(g)'
<1>0. PICK g : g = [i \in 1 .. Len(stream) |-> h[i + 1]] OBVIOUS
<1>1. stream \in Seq(Messages) BY DEF Typed
<1>2. Len(stream) \in Nat /\ Len(stream) > 0 /\ Len(stream') = Len(stream) - 1 BY <1>1
<1>3. h[1] = View /\ h[2] = Step(View, m) BY HeadFits
<1>4. View' = h[2] BY <1>3 DEF Handled, View
<1>5. Replay(g, View', stream')
  <2>1. Replay(h, View, stream) BY DEF Foreseen
  <2>2. Replay(g, h[2], Tail(stream)) BY <1>0, <1>1, <2>1, ReplayTail
  <2> QED BY <1>4, <2>2
<1>6. \A i \in 1 .. Len(stream) : g[i] = h[i + 1] BY <1>0
<1>7. up' => Truth(g[Len(stream) + 1])'
  <2>1. PICK last : last = h[Len(stream) + 1] OBVIOUS
  <2>2. up => Truth(last) BY <2>1 DEF Foreseen
  <2>3. up' => Truth(last)' BY <2>2 DEF Truth, world
  <2>4. g[Len(stream') + 1] = last BY <1>2, <1>6, <2>1
  <2> QED BY <2>3, <2>4 DEF Truth
<1>8. ASSUME NEW c \in Channels, known'.channels[c].joined, ~known'.channels[c].live
      PROVE  Leaving(g, c)'
  <2>1. known.channels[c].joined /\ ~known.channels[c].live BY <1>8 DEF Handled
  <2>2. Leaving(h, c) BY <2>1 DEF Foreseen
  <2>3. CASE \E i \in 1 .. Len(stream) + 1 : ~h[i].on[c]
    <3>1. PICK i \in 1 .. Len(stream) + 1 : ~h[i].on[c] BY <2>3
    <3>2. h[1].on[c] BY <1>3, <2>1, ViewParts DEF View
    <3>3. i # 1 BY <3>1, <3>2
    <3>4. i - 1 \in 1 .. Len(stream) /\ i - 1 \in 1 .. Len(stream') + 1 /\ i - 1 + 1 = i
      BY <1>2, <3>3
    <3>5. g[i - 1] = h[i] BY <1>6, <3>4
    <3> QED BY <3>1, <3>4, <3>5 DEF Leaving
  <2>4. CASE \E j \in 1 .. Len(out) : out[j] = Line("PART", c) BY <2>4 DEF Leaving
  <2>5. CASE c \notin ChanTypes BY <2>5 DEF Leaving
  <2> QED BY <2>2, <2>3, <2>4, <2>5 DEF Leaving
<1>9. Foreseen(g)' BY <1>5, <1>7, <1>8 DEF Foreseen
<1> QED BY <1>9

\* A line that asks the server to part us from c is on its way.
Parting(lines, c) == \E j \in 1 .. Len(lines) : lines[j] = Line("PART", c)

\* The server sends something, or nothing, and the last view is the truth.
LEMMA Told ==
  ASSUME Typed, NEW h, Foreseen(h), UNCHANGED client,
         NEW g, Replay(g, View, stream'), Len(stream') \in Nat, Len(stream') >= Len(stream),
         \A i \in 1 .. Len(stream) + 1 : g[i] = h[i],
         NEW last, last = g[Len(stream') + 1], up' => Truth(last)',
         \A c \in Channels : Parting(out, c) => Parting(out', c) \/ ~last.on[c]
  PROVE  Foreseen(g)'
<1>1. Len(stream) \in Nat BY DEF Typed
<1>2. View' = View BY DEF View, client
<1>3. ASSUME NEW c \in Channels, known'.channels[c].joined, ~known'.channels[c].live
      PROVE  Leaving(g, c)'
  <2>1. known.channels[c].joined /\ ~known.channels[c].live BY <1>3 DEF client
  <2>2. Leaving(h, c) BY <2>1 DEF Foreseen
  <2>3. CASE \E i \in 1 .. Len(stream) + 1 : ~h[i].on[c]
    <3>1. PICK i \in 1 .. Len(stream) + 1 : ~h[i].on[c] BY <2>3
    <3>2. i \in 1 .. Len(stream') + 1 /\ g[i] = h[i] BY <1>1
    <3> QED BY <3>1, <3>2 DEF Leaving
  <2>4. CASE Parting(out, c)
    <3>1. CASE Parting(out', c) BY <3>1 DEF Parting, Leaving
    <3>2. CASE ~last.on[c]
      <4>1. Len(stream') + 1 \in 1 .. Len(stream') + 1 BY <1>1
      <4> QED BY <3>2, <4>1 DEF Leaving
    <3> QED BY <2>4, <3>1, <3>2
  <2>5. CASE c \notin ChanTypes BY <2>5 DEF Leaving
  <2> QED BY <2>2, <2>3, <2>4, <2>5 DEF Leaving, Parting
<1>4. (up => Truth(g[Len(stream) + 1]))' OBVIOUS
<1> QED BY <1>2, <1>3, <1>4 DEF Foreseen

\* What a step of a view shows.
LEMMA StepParts ==
  ASSUME NEW p, NEW msg
  PROVE  /\ Step(p, msg).nick =
               IF msg.kind = "NICK" /\ msg.nick = p.nick THEN msg.new ELSE p.nick
         /\ \A c \in Channels : Step(p, msg).on[c] =
               IF msg.kind \in {"JOIN", "PART"} /\ msg.chan = c /\ msg.nick = p.nick
               THEN msg.kind = "JOIN" ELSE p.on[c]
         /\ \A n \in Nicks, c \in Channels : Step(p, msg).who[n][c] = Leaves(p, msg, n, c)
BY DEF Step

\* The server tells us one thing.
LEMMA ToldOne ==
  ASSUME Typed, up, NEW h, Foreseen(h), UNCHANGED client,
         NEW msg \in Messages, stream' = stream \o <<msg>>,
         NEW p, p = h[Len(stream) + 1], Fits(p, msg), Truth(Step(p, msg))',
         \A c \in Channels : Parting(out, c) => Parting(out', c) \/ ~Step(p, msg).on[c]
  PROVE  \E g : Foreseen(g)'
<1>1. /\ stream \in Seq(Messages) /\ Len(stream) \in Nat
      /\ stream' = Append(stream, msg) /\ Len(stream') = Len(stream) + 1
  BY DEF Typed
<1>2. Replay(h, View, stream) BY DEF Foreseen
<1>3. PICK g : /\ Replay(g, View, Append(stream, msg))
               /\ \A i \in 1 .. Len(stream) + 1 : g[i] = h[i]
               /\ g[Len(stream) + 2] = Step(p, msg)
  BY <1>1, <1>2, ReplayAppend
<1>4. PICK last : last = Step(p, msg) OBVIOUS
<1>5. last = g[Len(stream') + 1] BY <1>1, <1>3, <1>4
<1>6. Truth(last)' BY <1>4
<1>7. \A c \in Channels : Parting(out, c) => Parting(out', c) \/ ~last.on[c] BY <1>4
<1>8. Replay(g, View, stream') BY <1>1, <1>3
<1>9. Len(stream') \in Nat /\ Len(stream') >= Len(stream) BY <1>1
<1>10. \A i \in 1 .. Len(stream) + 1 : g[i] = h[i] BY <1>3
<1>11. Foreseen(g)' BY <1>5, <1>6, <1>7, <1>8, <1>9, <1>10, Told
<1> QED BY <1>11

\* The server tells us nothing.
LEMMA ToldNothing ==
  ASSUME Typed, NEW h, Foreseen(h), UNCHANGED <<client, stream>>,
         NEW p, p = h[Len(stream) + 1], up' => Truth(p)',
         \A c \in Channels : Parting(out, c) => Parting(out', c) \/ ~p.on[c]
  PROVE  \E g : Foreseen(g)'
<1>1. stream' = stream /\ Len(stream) \in Nat BY DEF Typed
<1>2. Replay(h, View, stream') BY <1>1 DEF Foreseen
<1>3. Foreseen(h)' BY <1>1, <1>2, Told
<1> QED BY <1>3

-----------------------------------------------------------------------------
(* The steps of the program                                                *)

\* A handler that does what its message says keeps the invariant.
LEMMA TakeStep ==
  ASSUME IInv, stream # << >>, stream' = Tail(stream), UNCHANGED <<out, world>>,
         nick' \in Nicks, Handled(known, nick, known', nick', m)
  PROVE  IInv'
<1>1. Typed /\ Down BY DEF IInv
<1>2. PICK h : Foreseen(h) BY DEF IInv
<1>3. (\E g : Foreseen(g))'
  <2>1. \E g : Foreseen(g)' BY <1>1, <1>2, Consumed
  <2> QED BY <2>1
<1>4. Typed'
  <2>1. Sound(known)' BY DEF Handled
  <2>2. stream' \in Seq(Messages) /\ Len(stream') <= MaxStream
    BY <1>1, IrcAssumption DEF Typed
  <2> QED BY <1>1, <2>1, <2>2 DEF Typed, world
<1>5. Down' BY <1>1 DEF Down, world
<1> QED BY <1>3, <1>4, <1>5 DEF IInv

\* Every handler keeps the invariant.
LEMMA TakesStep ==
  ASSUME IInv,
         TakeJoin \/ TakeNames \/ (\E close \in BOOLEAN : TakePart(close))
         \/ TakeQuit \/ TakeNick \/ TakeMode
  PROVE  IInv'
<1>1. Typed BY DEF IInv
<1>2. PICK h : Foreseen(h) BY DEF IInv
<1>3. Sound(known) /\ nick \in Nicks BY <1>1 DEF Typed
<1>4. CASE TakeJoin
  <2>1. stream # << >> /\ stream' = Tail(stream) /\ m.kind = "JOIN" /\ nick' = nick
        /\ UNCHANGED <<out, world>>
    BY <1>4 DEF TakeJoin, Take, m
  <2>2. m \in Messages BY <1>1, <1>2, <2>1, HeadFits
  <2>3. known' = IF m.nick = nick THEN AddChannel(known, m.chan)
                 ELSE IF known.channels[m.chan].joined
                 THEN AddPerson(known, m.chan, m.nick, "plain") ELSE known
    BY <1>4 DEF TakeJoin
  <2>4. Handled(known, nick, known', nick', m) BY <1>3, <2>1, <2>2, <2>3, JoinHandled
  <2> QED BY <1>3, <2>1, <2>4, TakeStep
<1>5. CASE TakeNames
  <2>1. stream # << >> /\ stream' = Tail(stream) /\ m.kind = "353" /\ nick' = nick
        /\ UNCHANGED <<out, world>>
    BY <1>5 DEF TakeNames, Take, m
  <2>2. m \in Messages BY <1>1, <1>2, <2>1, HeadFits
  <2>3. known' = IF ~known.channels[m.chan].joined THEN known
                 ELSE AddPeople(known, m.chan, m.names)
    BY <1>5 DEF TakeNames
  <2>4. Handled(known, nick, known', nick', m) BY <1>3, <2>1, <2>2, <2>3, NamesHandled
  <2> QED BY <1>3, <2>1, <2>4, TakeStep
<1>6. CASE \E close \in BOOLEAN : TakePart(close)
  <2> PICK close \in BOOLEAN : TakePart(close) BY <1>6
  <2>1. stream # << >> /\ stream' = Tail(stream) /\ m.kind = "PART" /\ nick' = nick
        /\ UNCHANGED <<out, world>>
    BY DEF TakePart, Take, m
  <2>2. m \in Messages BY <1>1, <1>2, <2>1, HeadFits
  <2>3. known' = IF m.nick = nick THEN DelChannel(known, m.chan, close)
                 ELSE IF known.channels[m.chan].joined /\ Known(known, m.nick)
                 THEN DelPersonChannel(known, m.chan, m.nick) ELSE known
    BY DEF TakePart
  <2>4. Handled(known, nick, known', nick', m) BY <1>3, <2>1, <2>2, <2>3, PartHandled
  <2> QED BY <1>3, <2>1, <2>4, TakeStep
<1>7. CASE TakeQuit
  <2>1. stream # << >> /\ stream' = Tail(stream) /\ m.kind = "QUIT" /\ nick' = nick
        /\ UNCHANGED <<out, world>>
    BY <1>7 DEF TakeQuit, Take, m
  <2>2. m \in Messages BY <1>1, <1>2, <2>1, HeadFits
  <2>3. known' = DelPerson(known, m.nick) BY <1>7 DEF TakeQuit
  <2>4. Handled(known, nick, known', nick', m) BY <1>3, <2>1, <2>2, <2>3, QuitHandled
  <2> QED BY <1>3, <2>1, <2>4, TakeStep
<1>8. CASE TakeNick
  <2>1. stream # << >> /\ stream' = Tail(stream) /\ m.kind = "NICK"
        /\ nick' = (IF m.nick = nick THEN m.new ELSE nick) /\ UNCHANGED <<out, world>>
    BY <1>8 DEF TakeNick, Take, m
  <2>2. m \in Messages /\ Fits(ViewOf(known, nick), m)
    BY <1>1, <1>2, <2>1, HeadFits DEF View
  <2>3. known' = NickChange(known, m.nick, m.new) BY <1>8 DEF TakeNick
  <2>4. Handled(known, nick, known', nick', m) BY <1>3, <2>1, <2>2, <2>3, NickHandled
  <2>5. nick' \in Nicks BY <1>3, <2>1, <2>2, MessageParts
  <2> QED BY <2>1, <2>4, <2>5, TakeStep
<1>9. CASE TakeMode
  <2>1. stream # << >> /\ stream' = Tail(stream) /\ m.kind = "MODE" /\ nick' = nick
        /\ UNCHANGED <<out, world>>
    BY <1>9 DEF TakeMode, Take, m
  <2>2. m \in Messages BY <1>1, <1>2, <2>1, HeadFits
  <2>3. known' = SetMode(known, m.chan, m.nick, m.mode) BY <1>9 DEF TakeMode
  <2>4. Handled(known, nick, known', nick', m) BY <1>3, <2>1, <2>2, <2>3, ModeHandled
  <2> QED BY <1>3, <2>1, <2>4, TakeStep
<1> QED BY <1>4, <1>5, <1>6, <1>7, <1>8, <1>9

\* Nothing is under way: the view is all there is.
LEMMA Alone ==
  ASSUME NEW v
  PROVE  \E h : Replay(h, v, << >>) /\ h[1] = v
<1>1. PICK h : h = [i \in 1 .. 1 |-> v] OBVIOUS
<1>2. Len(<< >>) = 0 OBVIOUS
<1>3. h[1] = v /\ DOMAIN h = 1 .. Len(<< >>) + 1 BY <1>1, <1>2
<1>4. \A i \in 1 .. Len(<< >>) : Fits(h[i], << >>[i]) /\ h[i + 1] = Step(h[i], << >>[i])
  BY <1>2
<1> QED BY <1>3, <1>4 DEF Replay

\* The welcome keeps the invariant: nothing is known yet, and nothing is the truth.
LEMMA ConnectStep ==
  ASSUME IInv, NEW n \in Nicks, Connect(n)
  PROVE  IInv'
<1>1. Typed /\ Down BY DEF IInv
<1>2. /\ ~up /\ ~Used(n) /\ up' = TRUE /\ nick' = n /\ own' = n
      /\ UNCHANGED <<known, stream, out, members>>
  BY DEF Connect
<1>3. stream = << >> /\ \A c \in Channels : ~known.channels[c].joined BY <1>1, <1>2 DEF Down
<1>4. Typed' BY <1>1, <1>2 DEF Typed
<1>5. Down' BY <1>2 DEF Down
<1>6. PICK h : Replay(h, View', << >>) /\ h[1] = View' BY Alone
<1>7. stream' = << >> /\ Len(stream') = 0 BY <1>2, <1>3
<1>8. PICK v : v = View' OBVIOUS
<1>9. Truth(v)'
  <2>1. /\ v.nick = n /\ v.who = known.people
        /\ \A c \in Channels : v.on[c] = known.channels[c].joined
    BY <1>2, <1>8, ViewParts DEF View
  <2>2. \A c \in Channels : members[c][n] = "out" BY <1>2 DEF Used
  <2>3. ASSUME NEW c \in Channels, NEW i \in Nicks PROVE known.people[i][c] = "out"
    <3>1. Fit(known.channels[c], known.windows[c], Col(known.people, c))
      BY <1>1, SoundFit, SoundTyped
    <3> QED BY <1>3, <3>1 DEF Fit, Col
  <2> QED BY <1>2, <1>3, <2>1, <2>2, <2>3 DEF Truth
<1>10. Foreseen(h)'
  <2>1. h[Len(stream') + 1] = v BY <1>6, <1>7, <1>8
  <2>2. (up => Truth(h[Len(stream) + 1]))' BY <1>9, <2>1
  <2> QED BY <1>2, <1>3, <1>6, <1>7, <2>2 DEF Foreseen
<1>11. (\E g : Foreseen(g))' BY <1>10
<1> QED BY <1>4, <1>5, <1>11 DEF IInv

\* irc_handle_disconnect() keeps the invariant.
LEMMA DisconnectStep ==
  ASSUME IInv, Disconnect
  PROVE  IInv'
<1>1. Typed /\ Down BY DEF IInv
<1>2. /\ up' = FALSE /\ known' = FreePeople(known) /\ stream' = << >> /\ out' = << >>
      /\ members' = [c \in Channels |-> [members[c] EXCEPT ![own] = "out"]]
      /\ UNCHANGED <<nick, own>>
  BY DEF Disconnect
<1>3. Sound(known') /\ \A d \in Channels : known'.channels[d] = NoChannel
  BY <1>1, <1>2, FreePeopleSound, SoundTyped
<1>4. \A d \in Channels : ~known'.channels[d].joined BY <1>3 DEF NoChannel
<1>5. members' \in [Channels -> [Nicks -> Modes]] BY <1>1, <1>2 DEF Typed, Modes
<1>6. Typed'
  <2>1. Len(stream') = 0 /\ Len(out') = 0 /\ MaxStream >= 0 /\ MaxOut >= 0
    BY <1>2, IrcAssumption
  <2>2. stream' \in Seq(Messages) /\ out' \in Seq(Lines) BY <1>2
  <2>3. up' \in BOOLEAN /\ nick' \in Nicks /\ own' \in Nicks BY <1>1, <1>2 DEF Typed
  <2>4. Len(stream') <= MaxStream /\ Len(out') <= MaxOut BY <2>1, IrcAssumption
  <2> QED BY <1>3, <1>5, <2>2, <2>3, <2>4 DEF Typed
<1>7. Down' BY <1>2, <1>4 DEF Down
<1>8. PICK h : Replay(h, View', << >>) /\ h[1] = View' BY Alone
<1>9. Foreseen(h)' BY <1>2, <1>4, <1>8 DEF Foreseen
<1>10. (\E g : Foreseen(g))' BY <1>9
<1> QED BY <1>6, <1>7, <1>10 DEF IInv

\* A PART on its way stays so when lines are added.
LEMMA PartingGrows ==
  ASSUME NEW a \in Seq(Lines), NEW b \in Seq(Lines), NEW c, Parting(a, c)
  PROVE  Parting(a \o b, c)
<1>1. PICK j \in 1 .. Len(a) : a[j] = Line("PART", c) BY DEF Parting
<1>2. Len(a) \in Nat /\ Len(b) \in Nat /\ Len(a \o b) = Len(a) + Len(b) OBVIOUS
<1>3. j \in 1 .. Len(a \o b) /\ (a \o b)[j] = a[j] BY <1>2
<1> QED BY <1>1, <1>3 DEF Parting

\* A PART on its way stays so until the server takes it.
LEMMA PartingTail ==
  ASSUME NEW a \in Seq(Lines), a # << >>, NEW c, Parting(a, c)
  PROVE  Parting(Tail(a), c) \/ Head(a) = Line("PART", c)
<1>1. PICK j \in 1 .. Len(a) : a[j] = Line("PART", c) BY DEF Parting
<1>2. CASE j = 1 BY <1>1, <1>2
<1>3. CASE j # 1
  <2>1. Len(a) \in Nat /\ Len(Tail(a)) = Len(a) - 1 OBVIOUS
  <2>2. j - 1 \in 1 .. Len(Tail(a)) /\ Tail(a)[j - 1] = a[j] BY <1>3, <2>1
  <2> QED BY <1>1, <2>2 DEF Parting
<1> QED BY <1>2, <1>3

\* The program sends lines, and learns nothing.
LEMMA Sending ==
  ASSUME IInv, NEW lines \in Seq(Lines), up \/ lines = << >>,
         out' = out \o lines, Len(out') <= MaxOut,
         UNCHANGED <<nick, stream, world>>, Sound(known'), View' = View,
         \A c \in Channels :
            known'.channels[c].joined /\ ~known'.channels[c].live
            => \/ known.channels[c].joined /\ ~known.channels[c].live
               \/ c \notin ChanTypes \/ Parting(out', c)
  PROVE  IInv'
<1>1. Typed /\ Down BY DEF IInv
<1>2. PICK h : Foreseen(h) BY DEF IInv
<1>3. out \in Seq(Lines) /\ out' \in Seq(Lines) BY <1>1 DEF Typed
<1>4. Typed'
  <2>1. Sound(known)' OBVIOUS
  <2> QED BY <1>1, <1>3, <2>1 DEF Typed, world
<1>5. Down'
  <2>1. ASSUME ~up
        PROVE  out' = << >> /\ \A c \in Channels : ~known'.channels[c].joined
    <3>1. /\ stream = << >> /\ out = << >> /\ lines = << >>
          /\ \A c \in Channels : ~known.channels[c].joined
      BY <1>1, <2>1 DEF Down
    <3>2. \A c \in Channels : known'.channels[c].joined = known.channels[c].joined
      <4>1. \A c \in Channels : ViewOf(known', nick').on[c] = known'.channels[c].joined
        BY ViewParts
      <4>2. \A c \in Channels : ViewOf(known, nick).on[c] = known.channels[c].joined
        BY ViewParts
      <4>3. ViewOf(known', nick') = ViewOf(known, nick) BY DEF View
      <4> QED BY <4>1, <4>2, <4>3
    <3> QED BY <3>1, <3>2
  <2> QED BY <1>1, <2>1 DEF Down, world
<1>6. PICK last : last = h[Len(stream) + 1] OBVIOUS
<1>7. up' => Truth(h[Len(stream) + 1])'
  <2>1. up => Truth(last) BY <1>2, <1>6 DEF Foreseen
  <2>2. up' => Truth(last)' BY <2>1 DEF Truth, world
  <2>3. h[Len(stream') + 1] = last BY <1>6
  <2> QED BY <2>2, <2>3
<1>8. ASSUME NEW c \in Channels, known'.channels[c].joined, ~known'.channels[c].live
      PROVE  Leaving(h, c)'
  <2>1. CASE Parting(out', c) BY <2>1 DEF Leaving, Parting
  <2>2. CASE known.channels[c].joined /\ ~known.channels[c].live
    <3>1. Leaving(h, c) BY <1>2, <2>2 DEF Foreseen
    <3>2. CASE \E i \in 1 .. Len(stream) + 1 : ~h[i].on[c] BY <3>2 DEF Leaving
    <3>3. CASE Parting(out, c)
      <4>1. Parting(out', c) BY <1>3, <3>3, PartingGrows
      <4> QED BY <4>1 DEF Leaving, Parting
    <3>4. CASE c \notin ChanTypes BY <3>4 DEF Leaving
    <3> QED BY <3>1, <3>2, <3>3, <3>4 DEF Leaving, Parting
  <2>3. CASE c \notin ChanTypes BY <2>3 DEF Leaving
  <2> QED BY <1>8, <2>1, <2>2, <2>3
<1>9. Replay(h, View, stream)' BY <1>2 DEF Foreseen
<1>10. Foreseen(h)' BY <1>7, <1>8, <1>9 DEF Foreseen
<1>11. (\E g : Foreseen(g))' BY <1>10
<1> QED BY <1>4, <1>5, <1>11 DEF IInv

\* /join, /part and /cycle keep the invariant.
LEMMA CommandStep ==
  ASSUME IInv, NEW c \in Channels,
         NEW commands \in {<<"JOIN">>, <<"PART">>, <<"PART", "JOIN">>},
         CommandJopacy(commands, c)
  PROVE  IInv'
<1> DEFINE lines == [i \in DOMAIN commands |-> Line(commands[i], c)]
<1>1. Typed BY DEF IInv
<1>2. /\ up /\ out' = out \o lines /\ Len(out) + Len(lines) <= MaxOut
      /\ UNCHANGED <<nick, known, stream>> /\ UNCHANGED world
  BY DEF CommandJopacy, ToServer, client
<1>3. Line("JOIN", c) \in Lines /\ Line("PART", c) \in Lines BY DEF Line, Lines
<1>4. lines \in Seq(Lines)
  <2>1. CASE commands = <<"JOIN">>
    <3>1. lines = <<Line("JOIN", c)>> BY <2>1
    <3> QED BY <1>3, <3>1
  <2>2. CASE commands = <<"PART">>
    <3>1. lines = <<Line("PART", c)>> BY <2>2
    <3> QED BY <1>3, <3>1
  <2>3. CASE commands = <<"PART", "JOIN">>
    <3>1. lines = <<Line("PART", c), Line("JOIN", c)>> BY <2>3
    <3> QED BY <1>3, <3>1
  <2> QED BY <2>1, <2>2, <2>3
<1> HIDE DEF lines
<1>5. Len(out') <= MaxOut
  <2>1. out \in Seq(Lines) BY <1>1 DEF Typed
  <2> QED BY <1>2, <1>4, <2>1
<1>6. View' = View BY <1>2 DEF View
<1>7. Sound(known') BY <1>1, <1>2, SoundTyped
<1> QED BY <1>2, <1>4, <1>5, <1>6, <1>7, Sending

\* /quote keeps the invariant.
LEMMA QuoteStep ==
  ASSUME IInv, NEW c \in Channels, NEW command \in {"JOIN", "PART"},
         CommandQuote(command, c)
  PROVE  IInv'
<1>1. Typed BY DEF IInv
<1>2. PICK lines : lines = <<Line(command, c)>> OBVIOUS
<1>3. /\ up /\ out' = out \o lines /\ Len(out) + Len(lines) <= MaxOut
      /\ UNCHANGED <<nick, known, stream>> /\ UNCHANGED world
  BY <1>2 DEF CommandQuote, ToServer, client
<1>4. lines \in Seq(Lines) BY <1>2 DEF Line, Lines
<1>5. Len(out') <= MaxOut
  <2>1. out \in Seq(Lines) BY <1>1 DEF Typed
  <2> QED BY <1>3, <1>4, <2>1
<1>6. View' = View BY <1>3 DEF View
<1>7. Sound(known') BY <1>1, <1>3, SoundTyped
<1> QED BY <1>3, <1>4, <1>5, <1>6, <1>7, Sending

\* irc_window_kill() keeps the invariant, as it sends PART for the channels of
\* CHANTYPES.
LEMMA WindowKillStep ==
  ASSUME IInv, NEW c \in Channels, WindowKill(c)
  PROVE  IInv'
<1>1. Typed /\ Down BY DEF IInv
<1>2. known' = Killed(known, c) /\ UNCHANGED <<nick, stream, world>>
  BY DEF WindowKill, Killed
<1>3. /\ Sound(known') /\ known'.people = known.people
      /\ \A d \in Channels : known'.channels[d].joined = known.channels[d].joined
      /\ \A d \in Channels \ {c} : known'.channels[d].live = known.channels[d].live
  BY <1>1, <1>2, KillSound, SoundTyped
<1>4. View' = View
  <2>1. [d \in Channels |-> known'.channels[d].joined]
          = [d \in Channels |-> known.channels[d].joined]
    BY <1>3
  <2> QED BY <1>2, <1>3, <2>1 DEF View, ViewOf
<1>5. out \in Seq(Lines) /\ Len(out) <= MaxOut BY <1>1 DEF Typed
<1>6. CASE up /\ c \in ChanTypes /\ known.channels[c].joined
  <2>1. PICK lines : lines = <<Line("PART", c)>> OBVIOUS
  <2>2. lines \in Seq(Lines) BY <2>1 DEF Line, Lines
  <2>3. out' = out \o lines /\ Len(out) + Len(lines) <= MaxOut
    BY <1>6, <2>1 DEF WindowKill, ToServer
  <2>4. Len(out') <= MaxOut BY <1>5, <2>2, <2>3
  <2>5. Parting(out', c)
    <3>1. /\ Len(out) \in Nat /\ Len(out') = Len(out) + 1
          /\ out'[Len(out) + 1] = Line("PART", c)
      BY <1>5, <2>1, <2>2, <2>3
    <3>2. Len(out) + 1 \in 1 .. Len(out') BY <3>1
    <3> QED BY <3>1, <3>2 DEF Parting
  <2>6. \A d \in Channels : known'.channels[d].joined /\ ~known'.channels[d].live
           => \/ known.channels[d].joined /\ ~known.channels[d].live
              \/ d \notin ChanTypes \/ Parting(out', d)
    BY <1>3, <2>5
  <2> QED BY <1>2, <1>3, <1>4, <1>6, <2>2, <2>3, <2>4, <2>6, Sending
<1>7. CASE ~(up /\ c \in ChanTypes /\ known.channels[c].joined)
  <2>1. PICK lines : lines = << >> OBVIOUS
  <2>2. out' = out BY <1>7 DEF WindowKill
  <2>3. lines \in Seq(Lines) /\ out' = out \o lines BY <1>5, <2>1, <2>2
  <2>4. c \notin ChanTypes \/ ~known.channels[c].joined BY <1>1, <1>7 DEF Down
  <2>5. \A d \in Channels : known'.channels[d].joined /\ ~known'.channels[d].live
           => \/ known.channels[d].joined /\ ~known.channels[d].live
              \/ d \notin ChanTypes \/ Parting(out', d)
    BY <1>3, <2>4
  <2>6. Len(out') <= MaxOut BY <1>5, <2>2
  <2> QED BY <1>2, <1>3, <1>4, <2>1, <2>3, <2>5, <2>6, Sending
<1> QED BY <1>6, <1>7

-----------------------------------------------------------------------------
(* The steps of the server                                                 *)

MembersType == [Channels -> [Nicks -> Modes]]

\* What is left to show of a step of the server.
LEMMA ServerStep ==
  ASSUME IInv, UNCHANGED <<nick, known, up>>, own' \in Nicks, members' \in MembersType,
         out' \in Seq(Lines), Len(out') <= MaxOut, up \/ out' = << >>,
         stream' \in Seq(Messages), Len(stream') <= MaxStream, up \/ stream' = << >>,
         \E g : Foreseen(g)'
  PROVE  IInv'
<1>1. Typed /\ Down BY DEF IInv
<1>2. Sound(known)' BY <1>1 DEF Typed
<1>3. Typed' BY <1>1, <1>2 DEF Typed, MembersType
<1>4. Down' BY <1>1 DEF Down
<1>5. (\E g : Foreseen(g))' OBVIOUS
<1> QED BY <1>3, <1>4, <1>5 DEF IInv

\* What people do, told to us by one message or not at all.
LEMMA PeopleTold ==
  ASSUME IInv, UNCHANGED <<nick, known, out, up>>, own' \in Nicks, members' \in MembersType,
         NEW msg \in Messages, NEW us, us => up, Tell(us, <<msg>>),
         \A p : up /\ Truth(p) => IF us THEN Fits(p, msg) /\ Truth(Step(p, msg))' ELSE Truth(p)'
  PROVE  IInv'
<1>1. Typed /\ Down BY DEF IInv
<1>2. PICK h : Foreseen(h) BY DEF IInv
<1>3. PICK p : p = h[Len(stream) + 1] OBVIOUS
<1>4. up => Truth(p) BY <1>2, <1>3 DEF Foreseen
<1>5. /\ stream \in Seq(Messages) /\ Len(stream) <= MaxStream
      /\ out \in Seq(Lines) /\ Len(out) <= MaxOut
  BY <1>1 DEF Typed
<1>6. up \/ (out' = << >> /\ stream = << >>) BY <1>1 DEF Down
<1>7. \A c \in Channels : Parting(out, c) => Parting(out', c) OBVIOUS
<1>8. CASE us
  <2>1. up /\ Len(stream) + Len(<<msg>>) <= MaxStream /\ stream' = stream \o <<msg>>
    BY <1>8 DEF Tell
  <2>2. stream' \in Seq(Messages) /\ Len(stream') <= MaxStream BY <1>5, <2>1
  <2>3. Fits(p, msg) /\ Truth(Step(p, msg))' BY <1>4, <1>8, <2>1
  <2>4. \A c \in Channels : Parting(out, c) => Parting(out', c) \/ ~Step(p, msg).on[c]
    BY <1>7
  <2>5. UNCHANGED client BY DEF client
  <2>6. \E g : Foreseen(g)' BY <1>1, <1>2, <1>3, <2>1, <2>3, <2>4, <2>5, ToldOne
  <2> QED BY <1>5, <1>6, <2>1, <2>2, <2>6, ServerStep
<1>9. CASE ~us
  <2>1. stream' = stream BY <1>9 DEF Tell
  <2>2. up' => Truth(p)' BY <1>4, <1>9
  <2>3. \A c \in Channels : Parting(out, c) => Parting(out', c) \/ ~p.on[c] BY <1>7
  <2>4. UNCHANGED <<client, stream>> BY <2>1 DEF client
  <2>5. \E g : Foreseen(g)' BY <1>1, <1>2, <1>3, <2>2, <2>3, <2>4, ToldNothing
  <2> QED BY <1>5, <1>6, <2>1, <2>5, ServerStep
<1> QED BY <1>8, <1>9

\* Somebody joins.
LEMMA JoinsStep ==
  ASSUME IInv, NEW c \in Channels, NEW n \in Nicks, Joins(c, n),
         UNCHANGED <<nick, known, out, up, own>>
  PROVE  IInv'
<1> DEFINE msg == About("JOIN", c, n)
           us == Sees(c)
<1>1. Typed BY DEF IInv
<1>2. /\ ~(up /\ n = own) /\ members[c][n] = "out" /\ members \in MembersType /\ own \in Nicks
      /\ members' = [members EXCEPT ![c][n] = Entering(c)]
      /\ Tell(us, <<msg>>)
  BY <1>1 DEF Joins, Other, Typed, MembersType
<1>3. Entering(c) \in Modes /\ Entering(c) # "out" BY DEF Entering, Modes
<1>4. /\ members' \in MembersType
      /\ \A d \in Channels, i \in Nicks :
            members'[d][i] = IF d = c /\ i = n THEN Entering(c) ELSE members[d][i]
  BY <1>2, <1>3 DEF MembersType
<1>5. msg \in Messages /\ msg.kind = "JOIN" /\ msg.chan = c /\ msg.nick = n
  BY DEF About, Messages
<1>6. us <=> up /\ members[c][own] # "out" BY DEF Sees
<1>7. us => Entering(c) = "plain"
  <2>1. us => members[c] # Empty BY <1>2, <1>6 DEF Empty
  <2> QED BY <2>1 DEF Entering
<1> HIDE DEF msg, us
<1>8. ASSUME NEW p, up, Truth(p)
      PROVE  IF us THEN Fits(p, msg) /\ Truth(Step(p, msg))' ELSE Truth(p)'
  <2>1. /\ p.nick = own /\ \A d \in Channels : p.on[d] <=> members[d][own] # "out"
        /\ \A d \in Channels, i \in Nicks :
              p.who[i][d] = IF p.on[d] THEN members[d][i] ELSE "out"
    BY <1>8 DEF Truth
  <2>2. CASE us
    <3>1. PICK q : q = Step(p, msg) OBVIOUS
    <3>2. /\ q.nick = own
          /\ \A d \in Channels : q.on[d] = p.on[d]
          /\ \A i \in Nicks, d \in Channels : q.who[i][d] =
                IF i = n /\ d = c /\ p.on[d] /\ p.who[i][d] = "out"
                THEN "plain" ELSE p.who[i][d]
      BY <1>2, <1>5, <1>8, <2>1, <3>1, StepParts DEF Leaves
    <3>3. Truth(q)' BY <1>2, <1>4, <1>6, <1>7, <1>8, <2>1, <2>2, <3>2 DEF Truth
    <3>4. Fits(p, msg) BY <1>5 DEF Fits
    <3> QED BY <2>2, <3>1, <3>3, <3>4
  <2>3. CASE ~us
    <3>1. Truth(p)' BY <1>2, <1>4, <1>6, <1>8, <2>1, <2>3 DEF Truth
    <3> QED BY <2>3, <3>1
  <2> QED BY <2>2, <2>3
<1> QED BY <1>2, <1>4, <1>5, <1>6, <1>8, PeopleTold

\* Somebody parts or is kicked, perhaps we.
LEMMA PartsStep ==
  ASSUME IInv, NEW c \in Channels, NEW n \in Nicks, Parts(c, n),
         UNCHANGED <<nick, known, out, up, own>>
  PROVE  IInv'
<1> DEFINE msg == About("PART", c, n)
           us == Sees(c)
<1>1. Typed BY DEF IInv
<1>2. /\ members[c][n] # "out" /\ members \in MembersType /\ own \in Nicks
      /\ members' = [members EXCEPT ![c][n] = "out"]
      /\ Tell(us, <<msg>>)
  BY <1>1 DEF Parts, Typed, MembersType
<1>3. /\ members' \in MembersType
      /\ \A d \in Channels, i \in Nicks :
            members'[d][i] = IF d = c /\ i = n THEN "out" ELSE members[d][i]
  BY <1>2 DEF MembersType, Modes
<1>4. msg \in Messages /\ msg.kind = "PART" /\ msg.chan = c /\ msg.nick = n
  BY DEF About, Messages
<1>5. us <=> up /\ members[c][own] # "out" BY DEF Sees
<1> HIDE DEF msg, us
<1>6. ASSUME NEW p, up, Truth(p)
      PROVE  IF us THEN Fits(p, msg) /\ Truth(Step(p, msg))' ELSE Truth(p)'
  <2>1. /\ p.nick = own /\ \A d \in Channels : p.on[d] <=> members[d][own] # "out"
        /\ \A d \in Channels, i \in Nicks :
              p.who[i][d] = IF p.on[d] THEN members[d][i] ELSE "out"
    BY <1>6 DEF Truth
  <2>2. CASE us
    <3>1. PICK q : q = Step(p, msg) OBVIOUS
    <3>2. /\ q.nick = own
          /\ \A d \in Channels : q.on[d] <=> p.on[d] /\ ~(d = c /\ n = own)
          /\ \A i \in Nicks, d \in Channels : q.who[i][d] =
                IF d = c /\ n \in {i, own} THEN "out" ELSE p.who[i][d]
      <4>1. q.nick = own BY <1>4, <2>1, <3>1, StepParts
      <4>2. ASSUME NEW d \in Channels PROVE q.on[d] <=> p.on[d] /\ ~(d = c /\ n = own)
        <5>1. q.on[d] = IF c = d /\ n = own THEN msg.kind = "JOIN" ELSE p.on[d]
          BY <1>4, <2>1, <3>1, StepParts
        <5>2. CASE d = c /\ n = own BY <5>1, <5>2, <1>4
        <5>3. CASE ~(d = c /\ n = own) BY <5>1, <5>3
        <5> QED BY <5>2, <5>3
      <4>3. \A i \in Nicks, d \in Channels : q.who[i][d] =
              IF d = c /\ n \in {i, own} THEN "out" ELSE p.who[i][d]
        BY <1>4, <2>1, <3>1, StepParts DEF Leaves
      <4> QED BY <4>1, <4>2, <4>3
    <3>3. Truth(q)' BY <1>2, <1>3, <1>5, <1>6, <2>1, <2>2, <3>2 DEF Truth
    <3>4. Fits(p, msg) BY <1>4 DEF Fits
    <3> QED BY <2>2, <3>1, <3>3, <3>4
  <2>3. CASE ~us
    <3>1. Truth(p)' BY <1>2, <1>3, <1>5, <1>6, <2>1, <2>3 DEF Truth
    <3> QED BY <2>3, <3>1
  <2> QED BY <2>2, <2>3
<1> QED BY <1>2, <1>3, <1>4, <1>5, <1>6, PeopleTold

\* Somebody gets a mode.
LEMMA ModedStep ==
  ASSUME IInv, NEW c \in Channels, NEW n \in Nicks, NEW mode \in {"plain", "op"},
         Moded(c, n, mode), UNCHANGED <<nick, known, out, up, own>>
  PROVE  IInv'
<1> DEFINE msg == [kind |-> "MODE", chan |-> c, nick |-> n, mode |-> mode]
           us == Sees(c)
<1>1. Typed BY DEF IInv
<1>2. /\ members[c][n] # "out" /\ members \in MembersType /\ own \in Nicks
      /\ members' = [members EXCEPT ![c][n] = mode]
      /\ Tell(us, <<msg>>)
  BY <1>1 DEF Moded, Typed, MembersType
<1>3. /\ members' \in MembersType
      /\ \A d \in Channels, i \in Nicks :
            members'[d][i] = IF d = c /\ i = n THEN mode ELSE members[d][i]
  BY <1>2 DEF MembersType, Modes
<1>4. /\ msg \in Messages /\ msg.kind = "MODE" /\ msg.chan = c /\ msg.nick = n
      /\ msg.mode = mode /\ mode # "out"
  BY DEF Messages
<1>5. us <=> up /\ members[c][own] # "out" BY DEF Sees
<1> HIDE DEF msg, us
<1>6. ASSUME NEW p, up, Truth(p)
      PROVE  IF us THEN Fits(p, msg) /\ Truth(Step(p, msg))' ELSE Truth(p)'
  <2>1. /\ p.nick = own /\ \A d \in Channels : p.on[d] <=> members[d][own] # "out"
        /\ \A d \in Channels, i \in Nicks :
              p.who[i][d] = IF p.on[d] THEN members[d][i] ELSE "out"
    BY <1>6 DEF Truth
  <2>2. CASE us
    <3>1. PICK q : q = Step(p, msg) OBVIOUS
    <3>2. /\ q.nick = own
          /\ \A d \in Channels : q.on[d] = p.on[d]
          /\ \A i \in Nicks, d \in Channels : q.who[i][d] =
                IF i = n /\ d = c /\ p.who[i][d] # "out" THEN mode ELSE p.who[i][d]
      BY <1>4, <2>1, <3>1, StepParts DEF Leaves
    <3>3. Truth(q)' BY <1>2, <1>3, <1>4, <1>5, <1>6, <2>1, <2>2, <3>2 DEF Truth
    <3>4. Fits(p, msg) BY <1>4 DEF Fits
    <3> QED BY <2>2, <3>1, <3>3, <3>4
  <2>3. CASE ~us
    <3>1. Truth(p)' BY <1>2, <1>3, <1>4, <1>5, <1>6, <2>1, <2>3 DEF Truth
    <3> QED BY <2>3, <3>1
  <2> QED BY <2>2, <2>3
<1> QED BY <1>2, <1>3, <1>4, <1>5, <1>6, PeopleTold

\* Somebody quits.
LEMMA QuitsStep ==
  ASSUME IInv, NEW n \in Nicks, Quits(n), UNCHANGED <<nick, known, out, up, own>>
  PROVE  IInv'
<1> DEFINE msg == [kind |-> "QUIT", nick |-> n]
           us == Shared(n)
<1>1. Typed BY DEF IInv
<1>2. /\ ~(up /\ n = own) /\ members \in MembersType /\ own \in Nicks
      /\ members' = [c \in Channels |-> [members[c] EXCEPT ![n] = "out"]]
      /\ Tell(us, <<msg>>)
  BY <1>1 DEF Quits, Other, Typed, MembersType
<1>3. /\ members' \in MembersType
      /\ \A d \in Channels, i \in Nicks :
            members'[d][i] = IF i = n THEN "out" ELSE members[d][i]
  BY <1>2 DEF MembersType, Modes
<1>4. msg \in Messages /\ msg.kind = "QUIT" /\ msg.nick = n BY DEF Messages
<1>5. us <=> \E c \in Channels : members[c][n] # "out" /\ up /\ members[c][own] # "out"
  BY DEF Shared, Sees
<1> HIDE DEF msg, us
<1>6. ASSUME NEW p, up, Truth(p)
      PROVE  IF us THEN Fits(p, msg) /\ Truth(Step(p, msg))' ELSE Truth(p)'
  <2>1. /\ p.nick = own /\ \A d \in Channels : p.on[d] <=> members[d][own] # "out"
        /\ \A d \in Channels, i \in Nicks :
              p.who[i][d] = IF p.on[d] THEN members[d][i] ELSE "out"
    BY <1>6 DEF Truth
  <2>2. CASE us
    <3>1. PICK q : q = Step(p, msg) OBVIOUS
    <3>2. /\ q.nick = own
          /\ \A d \in Channels : q.on[d] = p.on[d]
          /\ \A i \in Nicks, d \in Channels :
                q.who[i][d] = IF i = n THEN "out" ELSE p.who[i][d]
      BY <1>4, <2>1, <3>1, StepParts DEF Leaves
    <3>3. Truth(q)' BY <1>2, <1>3, <1>6, <2>1, <2>2, <3>2 DEF Truth
    <3>4. Fits(p, msg) BY <1>4 DEF Fits
    <3> QED BY <2>2, <3>1, <3>3, <3>4
  <2>3. CASE ~us
    <3>1. Truth(p)' BY <1>2, <1>3, <1>5, <1>6, <2>1, <2>3 DEF Truth
    <3> QED BY <2>3, <3>1
  <2> QED BY <2>2, <2>3
<1> QED BY <1>2, <1>3, <1>4, <1>5, <1>6, PeopleTold

\* Somebody, perhaps we, gets another nick, which nobody has.
LEMMA IsRenamedStep ==
  ASSUME IInv, NEW n \in Nicks, NEW new \in Nicks, IsRenamed(n, new),
         UNCHANGED <<nick, known, out, up>>
  PROVE  IInv'
<1> DEFINE msg == [kind |-> "NICK", nick |-> n, new |-> new]
           us == Shared(n) \/ ~Other(n)
<1>1. Typed BY DEF IInv
<1>2. /\ \A c \in Channels : members[c][new] = "out"
      /\ ~(up /\ new = own)
      /\ new # n
      /\ members \in MembersType /\ own \in Nicks
      /\ members' = [c \in Channels |-> Moved(members[c], n, new, "out")]
      /\ own' = IF Other(n) THEN own ELSE new
      /\ Tell(us, <<msg>>)
  BY <1>1 DEF IsRenamed, Used, Other, Typed, MembersType
<1>3. /\ members' \in MembersType
      /\ \A d \in Channels, i \in Nicks : members'[d][i] =
            IF i = n THEN "out" ELSE IF i = new THEN members[d][n] ELSE members[d][i]
  BY <1>2 DEF MembersType, Modes, Moved
<1>4. msg \in Messages /\ msg.kind = "NICK" /\ msg.nick = n /\ msg.new = new BY DEF Messages
<1>5. /\ us <=> \/ \E c \in Channels : members[c][n] # "out" /\ up /\ members[c][own] # "out"
                \/ up /\ n = own
      /\ own' = IF up /\ n = own THEN new ELSE own
  BY <1>2 DEF Shared, Sees, Other
<1> HIDE DEF msg, us
<1>6. ASSUME NEW p, up, Truth(p)
      PROVE  IF us THEN Fits(p, msg) /\ Truth(Step(p, msg))' ELSE Truth(p)'
  <2>1. /\ p.nick = own /\ \A d \in Channels : p.on[d] <=> members[d][own] # "out"
        /\ \A d \in Channels, i \in Nicks :
              p.who[i][d] = IF p.on[d] THEN members[d][i] ELSE "out"
    BY <1>6 DEF Truth
  <2>2. CASE us
    <3>1. PICK q : q = Step(p, msg) OBVIOUS
    <3>2. /\ q.nick = IF n = own THEN new ELSE own
          /\ \A d \in Channels : q.on[d] = p.on[d]
          /\ \A i \in Nicks, d \in Channels : q.who[i][d] =
                IF i = n THEN "out" ELSE IF i = new THEN p.who[n][d] ELSE p.who[i][d]
      BY <1>4, <2>1, <3>1, StepParts DEF Leaves
    <3>3. Truth(q)'
      <4>1. q.nick = own' BY <1>5, <1>6, <3>2
      <4>2. \A d \in Channels : q.on[d] <=> members'[d][own'] # "out"
        BY <1>2, <1>3, <1>5, <1>6, <2>1, <3>2
      <4>3. \A d \in Channels, i \in Nicks :
               q.who[i][d] = IF q.on[d] THEN members'[d][i] ELSE "out"
        BY <1>2, <1>3, <2>1, <3>2
      <4> QED BY <4>1, <4>2, <4>3 DEF Truth
    <3>4. Fits(p, msg)
      <4>1. \A d \in Channels : p.who[new][d] = "out" BY <1>2, <2>1
      <4> QED BY <1>2, <1>4, <4>1 DEF Fits
    <3> QED BY <2>2, <3>1, <3>3, <3>4
  <2>3. CASE ~us
    <3>1. own' = own /\ n # own BY <1>5, <1>6, <2>3
    <3>2. Truth(p)' BY <1>2, <1>3, <1>5, <1>6, <2>1, <2>3, <3>1 DEF Truth
    <3> QED BY <2>3, <3>2
  <2> QED BY <2>2, <2>3
<1>7. own' \in Nicks BY <1>2
<1> QED BY <1>2, <1>3, <1>4, <1>5, <1>6, <1>7, PeopleTold

\* The server takes a line; it is up that the line came from.
LEMMA Obeyed ==
  ASSUME IInv, NEW kind \in {"JOIN", "PART"}, Obey(kind)
  PROVE  /\ up /\ Head(out).kind = kind /\ Head(out).chan \in Channels
         /\ out' \in Seq(Lines) /\ Len(out') <= MaxOut
         /\ \A c \in Channels : Parting(out, c) =>
               Parting(out', c) \/ (kind = "PART" /\ Head(out).chan = c)
<1>1. Typed /\ Down BY DEF IInv
<1>2. out # << >> /\ Head(out).kind = kind /\ out' = Tail(out) BY DEF Obey
<1>3. up BY <1>1, <1>2 DEF Down
<1>4. out \in Seq(Lines) /\ Len(out) <= MaxOut BY <1>1 DEF Typed
<1>5. Head(out) \in Lines BY <1>2, <1>4
<1>6. out' \in Seq(Lines) /\ Len(out') <= MaxOut BY <1>2, <1>4, IrcAssumption
<1>7. ASSUME NEW c \in Channels, Parting(out, c), ~Parting(out', c)
      PROVE  kind = "PART" /\ Head(out).chan = c
  <2>1. Head(out) = Line("PART", c) BY <1>2, <1>4, <1>7, PartingTail
  <2> QED BY <1>2, <2>1 DEF Line
<1>8. Head(out).chan \in Channels BY <1>5 DEF Lines
<1> QED BY <1>2, <1>3, <1>6, <1>7, <1>8

\* The server parts us, and tells us if we were there.
LEMMA ServerPartStep ==
  ASSUME IInv, ServerPart
  PROVE  IInv'
<1> DEFINE c == Head(out).chan
           us == members[c][own] # "out"
<1>0. PICK msg : msg = About("PART", c, own) OBVIOUS
<1>1. Typed BY DEF IInv
<1>2. PICK h : Foreseen(h) BY DEF IInv
<1>3. PICK p : p = h[Len(stream) + 1] OBVIOUS
<1>4. /\ Obey("PART") /\ members' = [members EXCEPT ![c][own] = "out"]
      /\ Tell(us, <<msg>>) /\ UNCHANGED <<nick, known, up, own>> /\ UNCHANGED client
  BY <1>0 DEF ServerPart, client
<1>5. /\ up /\ c \in Channels /\ out' \in Seq(Lines) /\ Len(out') <= MaxOut
      /\ \A d \in Channels : Parting(out, d) => Parting(out', d) \/ c = d
  BY <1>4, Obeyed
<1>6. /\ own \in Nicks /\ members \in MembersType
      /\ stream \in Seq(Messages) /\ Len(stream) <= MaxStream
  BY <1>1 DEF Typed, MembersType
<1>7. msg \in Messages /\ msg.kind = "PART" /\ msg.chan = c /\ msg.nick = own
  BY <1>0, <1>5, <1>6 DEF About, Messages
<1> HIDE DEF c
<1>8. /\ members' \in MembersType
      /\ \A d \in Channels, i \in Nicks :
            members'[d][i] = IF d = c /\ i = own THEN "out" ELSE members[d][i]
  BY <1>4, <1>5, <1>6 DEF MembersType, Modes
<1>9. /\ p.nick = own /\ \A d \in Channels : p.on[d] <=> members[d][own] # "out"
      /\ \A d \in Channels, i \in Nicks :
            p.who[i][d] = IF p.on[d] THEN members[d][i] ELSE "out"
  BY <1>2, <1>3, <1>5 DEF Foreseen, Truth
<1>10. CASE us
  <2>1. Len(stream) + Len(<<msg>>) <= MaxStream /\ stream' = stream \o <<msg>>
    BY <1>4, <1>10 DEF Tell
  <2>2. stream' \in Seq(Messages) /\ Len(stream') <= MaxStream BY <1>6, <1>7, <2>1
  <2>3. PICK q : q = Step(p, msg) OBVIOUS
  <2>4. /\ q.nick = own
        /\ \A d \in Channels : IF c = d THEN ~q.on[d] ELSE q.on[d] = p.on[d]
        /\ \A i \in Nicks, d \in Channels : q.who[i][d] =
              IF d = c THEN "out" ELSE p.who[i][d]
    <3>1. q.nick = own BY <1>7, <1>9, <2>3, StepParts
    <3>2. ASSUME NEW d \in Channels PROVE IF c = d THEN ~q.on[d] ELSE q.on[d] = p.on[d]
      <4>1. q.on[d] = IF c = d THEN msg.kind = "JOIN" ELSE p.on[d]
        BY <1>7, <1>9, <2>3, StepParts
      <4>2. CASE c = d BY <4>1, <4>2, <1>7
      <4>3. CASE c # d BY <4>1, <4>3
      <4> QED BY <4>2, <4>3
    <3>3. \A i \in Nicks, d \in Channels : q.who[i][d] = IF d = c THEN "out" ELSE p.who[i][d]
      BY <1>7, <1>9, <2>3, StepParts DEF Leaves
    <3> QED BY <3>1, <3>2, <3>3
  <2>5. Truth(q)' BY <1>4, <1>6, <1>8, <1>9, <2>4 DEF Truth
  <2>6. Fits(p, msg) BY <1>7 DEF Fits
  <2>7. \A d \in Channels : Parting(out, d) => Parting(out', d) \/ ~Step(p, msg).on[d]
    BY <1>5, <2>3, <2>4
  <2>8. Truth(Step(p, msg))' BY <2>3, <2>5
  <2>9. \E g : Foreseen(g)'
    BY <1>1, <1>2, <1>3, <1>4, <1>5, <1>7, <2>1, <2>6, <2>7, <2>8, ToldOne
  <2> QED BY <1>4, <1>5, <1>6, <1>8, <2>2, <2>9, ServerStep
<1>11. CASE ~us
  <2>1. stream' = stream BY <1>4, <1>11 DEF Tell
  <2>2. Truth(p)' BY <1>4, <1>6, <1>8, <1>9, <1>11 DEF Truth
  <2>3. \A d \in Channels : Parting(out, d) => Parting(out', d) \/ ~p.on[d]
    BY <1>5, <1>9, <1>11
  <2>4. UNCHANGED <<client, stream>> BY <1>4, <2>1
  <2>5. \E g : Foreseen(g)' BY <1>1, <1>2, <1>3, <2>2, <2>3, <2>4, ToldNothing
  <2> QED BY <1>4, <1>5, <1>6, <1>8, <2>1, <2>5, ServerStep
<1> QED BY <1>10, <1>11

\* The server lets us in and tells us who is there, by two messages.
LEMMA ServerJoinStep ==
  ASSUME IInv, ServerJoin
  PROVE  IInv'
<1> DEFINE c == Head(out).chan
           names == [members[c] EXCEPT ![own] = Entering(c)]
           us == members[c][own] = "out"
           joins == About("JOIN", c, own)
           tells == [kind |-> "353", chan |-> c, names |-> names]
<1>1. Typed BY DEF IInv
<1>2. PICK h : Foreseen(h) BY DEF IInv
<1>3. PICK p : p = h[Len(stream) + 1] OBVIOUS
<1>4. /\ Obey("JOIN") /\ members' = (IF us THEN [members EXCEPT ![c] = names] ELSE members)
      /\ Tell(us, <<joins, tells>>) /\ UNCHANGED <<nick, known, up, own>> /\ UNCHANGED client
  BY DEF ServerJoin, client
<1>5. /\ up /\ c \in Channels /\ out' \in Seq(Lines) /\ Len(out') <= MaxOut
      /\ \A d \in Channels : Parting(out, d) => Parting(out', d)
  BY <1>4, Obeyed
<1>6. /\ own \in Nicks /\ members \in MembersType
      /\ stream \in Seq(Messages) /\ Len(stream) <= MaxStream
  BY <1>1 DEF Typed, MembersType
<1>7. Entering(c) \in Modes /\ Entering(c) # "out" BY DEF Entering, Modes
<1> HIDE DEF c
<1>8. /\ names \in [Nicks -> Modes]
      /\ \A i \in Nicks : names[i] = IF i = own THEN Entering(c) ELSE members[c][i]
  BY <1>5, <1>6, <1>7 DEF MembersType
<1> HIDE DEF names
<1>9. /\ joins \in Messages /\ joins.kind = "JOIN" /\ joins.chan = c /\ joins.nick = own
      /\ tells \in Messages /\ tells.kind = "353" /\ tells.chan = c /\ tells.names = names
  BY <1>5, <1>6, <1>8 DEF About, Messages
<1> HIDE DEF joins, tells
<1>10. /\ p.nick = own /\ \A d \in Channels : p.on[d] <=> members[d][own] # "out"
       /\ \A d \in Channels, i \in Nicks :
             p.who[i][d] = IF p.on[d] THEN members[d][i] ELSE "out"
  BY <1>2, <1>3, <1>5 DEF Foreseen, Truth
<1>11. CASE us
  <2>1. /\ Len(stream) + Len(<<joins, tells>>) <= MaxStream
        /\ stream' = stream \o <<joins, tells>>
    BY <1>4, <1>11 DEF Tell
  <2>2. /\ stream' = Append(Append(stream, joins), tells)
        /\ stream' \in Seq(Messages) /\ Len(stream') = Len(stream) + 2
        /\ Len(stream') <= MaxStream /\ Len(stream) \in Nat
    BY <1>6, <1>9, <2>1
  <2>3. /\ members' \in MembersType
        /\ \A d \in Channels, i \in Nicks : members'[d][i] =
              IF d = c THEN names[i] ELSE members[d][i]
    BY <1>4, <1>5, <1>6, <1>8, <1>11 DEF MembersType
  <2>4. PICK s : s = Append(stream, joins) OBVIOUS
  <2>5. s \in Seq(Messages) /\ Len(s) = Len(stream) + 1 BY <1>6, <1>9, <2>4
  <2>6. PICK q : q = Step(p, joins) OBVIOUS
  <2>7. PICK last : last = Step(q, tells) OBVIOUS
  <2>8. PICK f : /\ Replay(f, View, s)
                 /\ \A i \in 1 .. Len(stream) + 1 : f[i] = h[i]
                 /\ f[Len(stream) + 2] = q
    <3>1. Replay(h, View, stream) BY <1>2 DEF Foreseen
    <3>2. Fits(p, joins) BY <1>9 DEF Fits
    <3> QED BY <1>3, <1>6, <1>9, <2>4, <2>6, <3>1, <3>2, ReplayAppend
  <2>9. PICK g : /\ Replay(g, View, Append(s, tells))
                 /\ \A i \in 1 .. Len(s) + 1 : g[i] = f[i]
                 /\ g[Len(s) + 2] = last
    <3>1. f[Len(s) + 1] = q BY <2>2, <2>5, <2>8
    <3>2. Fits(f[Len(s) + 1], tells) BY <1>9 DEF Fits
    <3> QED BY <1>9, <2>5, <2>7, <2>8, <3>1, <3>2, ReplayAppend
  <2>10. /\ q.nick = own
         /\ \A d \in Channels : q.on[d] <=> d = c \/ p.on[d]
         /\ \A i \in Nicks, d \in Channels : q.who[i][d] = p.who[i][d]
    <3>1. q.nick = own BY <1>9, <1>10, <2>6, StepParts
    <3>2. ASSUME NEW d \in Channels PROVE q.on[d] <=> d = c \/ p.on[d]
      <4>1. q.on[d] = IF c = d THEN joins.kind = "JOIN" ELSE p.on[d]
        BY <1>9, <1>10, <2>6, StepParts
      <4>2. CASE c = d BY <4>1, <4>2, <1>9
      <4>3. CASE c # d BY <4>1, <4>3
      <4> QED BY <4>2, <4>3
    <3>3. \A i \in Nicks, d \in Channels : q.who[i][d] = p.who[i][d]
      BY <1>9, <1>10, <2>6, StepParts DEF Leaves
    <3> QED BY <3>1, <3>2, <3>3
  <2>11. /\ last.nick = own
         /\ \A d \in Channels : last.on[d] = q.on[d]
         /\ \A i \in Nicks, d \in Channels : last.who[i][d] =
               IF d = c /\ q.on[d] /\ q.who[i][d] = "out" THEN names[i] ELSE q.who[i][d]
    BY <1>9, <2>7, <2>10, StepParts DEF Leaves
  <2>12. Truth(last)'
    <3>1. last.nick = own' BY <1>4, <2>11
    <3>2. \A d \in Channels : last.on[d] <=> members'[d][own'] # "out"
      BY <1>4, <1>6, <1>7, <1>8, <1>10, <2>3, <2>10, <2>11
    <3>3. ASSUME NEW d \in Channels, NEW i \in Nicks
          PROVE  last.who[i][d] = IF last.on[d] THEN members'[d][i] ELSE "out"
      <4>1. CASE d = c
        <5>1. q.on[d] /\ q.who[i][d] = "out" BY <4>1, <1>10, <1>11, <2>10
        <5>2. last.on[d] /\ last.who[i][d] = names[i] BY <4>1, <5>1, <2>11
        <5> QED BY <4>1, <5>2, <2>3
      <4>2. CASE d # c
        <5>1. last.who[i][d] = p.who[i][d] /\ (last.on[d] <=> p.on[d])
          BY <4>2, <2>10, <2>11
        <5> QED BY <4>2, <5>1, <1>10, <2>3
      <4> QED BY <4>1, <4>2
    <3> QED BY <3>1, <3>2, <3>3 DEF Truth
  <2>13. Replay(g, View, stream') BY <2>2, <2>4, <2>9
  <2>14. \A i \in 1 .. Len(stream) + 1 : g[i] = h[i]
    <3>1. \A i \in 1 .. Len(stream) + 1 : i \in 1 .. Len(s) + 1 BY <2>2, <2>5
    <3> QED BY <2>8, <2>9, <3>1
  <2>15. last = g[Len(stream') + 1] BY <2>2, <2>5, <2>9
  <2>16. Len(stream') \in Nat /\ Len(stream') >= Len(stream) BY <2>2
  <2>17. \A d \in Channels : Parting(out, d) => Parting(out', d) \/ ~last.on[d] BY <1>5
  <2>18. Foreseen(g)'
    BY <1>1, <1>2, <1>4, <2>12, <2>13, <2>14, <2>15, <2>16, <2>17, Told
  <2> QED BY <1>4, <1>5, <1>6, <2>2, <2>3, <2>18, ServerStep
<1>12. CASE ~us
  <2>1. stream' = stream /\ members' = members BY <1>4, <1>12 DEF Tell
  <2>2. Truth(p)' BY <1>4, <1>10, <2>1 DEF Truth
  <2>3. \A d \in Channels : Parting(out, d) => Parting(out', d) \/ ~p.on[d] BY <1>5
  <2>4. UNCHANGED <<client, stream>> BY <1>4, <2>1
  <2>5. \E g : Foreseen(g)' BY <1>1, <1>2, <1>3, <2>2, <2>3, <2>4, ToldNothing
  <2> QED BY <1>4, <1>5, <1>6, <2>1, <2>5, ServerStep
<1> QED BY <1>11, <1>12

-----------------------------------------------------------------------------
(* The theorems                                                            *)

\* At the start nothing is known and nothing under way.
LEMMA InitIInv == Init => IInv
<1> SUFFICES ASSUME Init PROVE IInv
  OBVIOUS
<1> DEFINE p == [n \in Nicks |-> Nowhere]
           ch == [c \in Channels |-> NoChannel]
           w == [c \in Channels |-> NoWindow]
<1>1. /\ up = FALSE /\ nick \in Nicks /\ own \in Nicks
      /\ known = [people |-> p, channels |-> ch, windows |-> w]
      /\ stream = << >> /\ out = << >>
      /\ members = [c \in Channels |-> Empty]
  BY DEF Init
<1>2. /\ p \in [Nicks -> [Channels -> Modes]]
      /\ ch \in [Channels -> ChannelType] /\ w \in [Channels -> WindowType]
  BY DEF Nowhere, Modes, NoChannel, ChannelType, NoWindow, WindowType, Empty
<1>3. ASSUME NEW c \in Channels PROVE Fit(ch[c], w[c], Col(p, c))
  <2> DEFINE cn == Col(p, c)
  <2>1. \A n \in Nicks : cn[n] = "out" BY DEF Col, Nowhere
  <2> HIDE DEF cn
  <2>2. /\ NoChannel.joined = FALSE /\ NoChannel.live = FALSE
        /\ NoChannel.onchan = {n \in Nicks : cn[n] # "out"}
    BY <2>1 DEF NoChannel
  <2>3. /\ NoWindow.open = FALSE /\ NoWindow.list \in [Nicks -> Modes]
        /\ \A n \in Nicks : NoWindow.list[n] = "out"
    BY DEF NoWindow, Empty, Modes
  <2>4. Fit(NoChannel, NoWindow, cn) BY <2>1, <2>2, <2>3 DEF Fit
  <2> QED BY <2>4 DEF cn
<1>4. \A c \in Channels : ~known.channels[c].joined BY <1>1 DEF NoChannel
<1>5. Sound(known)
  <2> HIDE DEF p, ch, w
  <2> QED BY <1>1, <1>2, <1>3, FitSound
<1>6. members \in [Channels -> [Nicks -> Modes]] BY <1>1 DEF Empty, Modes
<1>7. stream \in Seq(Messages) /\ out \in Seq(Lines) /\ Len(stream) = 0 /\ Len(out) = 0
  BY <1>1
<1>8. Typed
  <2>1. Len(stream) <= MaxStream /\ Len(out) <= MaxOut BY <1>7, IrcAssumption
  <2>2. up \in BOOLEAN /\ nick \in Nicks /\ own \in Nicks BY <1>1
  <2> HIDE DEF p, ch, w
  <2> QED BY <1>5, <1>6, <1>7, <2>1, <2>2 DEF Typed
<1>9. Down BY <1>1, <1>4 DEF Down
<1>10. PICK h : Replay(h, View, << >>) BY Alone
<1>11. Foreseen(h) BY <1>1, <1>4, <1>10 DEF Foreseen
<1> QED BY <1>8, <1>9, <1>11 DEF IInv

\* Whatever people do keeps the invariant.
LEMMA PeopleStep ==
  ASSUME IInv, People
  PROVE  IInv'
<1>1. UNCHANGED <<nick, known, out, up>> BY DEF People, client
<1>2. CASE \E n, new \in Nicks : IsRenamed(n, new) BY <1>1, <1>2, IsRenamedStep
<1>3. CASE UNCHANGED own /\ \E n \in Nicks : Quits(n) BY <1>1, <1>3, QuitsStep
<1>4. CASE UNCHANGED own /\ \E c \in Channels, n \in Nicks :
              \/ Joins(c, n) \/ Parts(c, n)
              \/ \E mode \in {"plain", "op"} : Moded(c, n, mode)
  BY <1>1, <1>4, JoinsStep, PartsStep, ModedStep
<1> QED BY <1>2, <1>3, <1>4 DEF People

\* Every step keeps the invariant.
LEMMA NextIInv == IInv /\ [Next]_vars => IInv'
<1> SUFFICES ASSUME IInv, [Next]_vars PROVE IInv'
  OBVIOUS
<1>1. CASE \E n \in Nicks : Connect(n) BY <1>1, ConnectStep
<1>2. CASE Disconnect BY <1>2, DisconnectStep
<1>3. CASE \E c \in Channels : WindowKill(c) BY <1>3, WindowKillStep
<1>4. CASE \E c \in Channels :
              \E commands \in {<<"JOIN">>, <<"PART">>, <<"PART", "JOIN">>} :
                 CommandJopacy(commands, c)
  BY <1>4, CommandStep
<1>5. CASE TakeJoin \/ TakeNames \/ (\E close \in BOOLEAN : TakePart(close))
           \/ TakeQuit \/ TakeNick \/ TakeMode
  BY <1>5, TakesStep
<1>6. CASE ServerJoin BY <1>6, ServerJoinStep
<1>7. CASE ServerPart BY <1>7, ServerPartStep
<1>8. CASE People BY <1>8, PeopleStep
<1>9. CASE UNCHANGED vars
  <2>1. UNCHANGED <<up, nick, known, stream, out, members, own>> BY <1>9 DEF vars
  <2>2. Typed' BY <2>1 DEF IInv, Typed
  <2>3. Down' BY <2>1 DEF IInv, Down
  <2>4. PICK h : Foreseen(h) BY DEF IInv
  <2>5. View' = View BY <2>1 DEF View
  <2>6. Foreseen(h)' BY <2>1, <2>4, <2>5 DEF Foreseen, Truth, Leaving
  <2>7. (\E g : Foreseen(g))' BY <2>6
  <2> QED BY <2>2, <2>3, <2>7 DEF IInv
<1>10. CASE \E c \in Channels : \E command \in {"JOIN", "PART"} : CommandQuote(command, c)
  BY <1>10, QuoteStep
<1>11. CASE Program BY <1>11, <1>1, <1>2, <1>3, <1>4, <1>5, <1>10 DEF Program
<1> QED BY <1>6, <1>7, <1>8, <1>9, <1>11 DEF Next

\* The invariant holds.
LEMMA Always == Spec => []IInv
BY InitIInv, NextIInv, PTL DEF Spec

\* The variables keep their types, and no channel and nobody is known without
\* a connection: irc_free_people() leaves nothing behind.
THEOREM TypeCorrect == Spec => []TypeOK
<1>1. IInv => TypeOK
  <2> SUFFICES ASSUME IInv PROVE TypeOK
    OBVIOUS
  <2>1. Typed /\ Down BY DEF IInv
  <2>2. \A c \in Channels : known.channels[c].joined \/ known.channels[c] = NoChannel
    BY <2>1 DEF Typed, Sound, Local
  <2>3. ASSUME ~up, NEW n \in Nicks PROVE known.people[n] = Nowhere
    <3>1. ASSUME NEW c \in Channels PROVE known.people[n][c] = "out"
      <4>1. Fit(known.channels[c], known.windows[c], Col(known.people, c))
        BY <2>1, SoundFit, SoundTyped
      <4>2. ~known.channels[c].joined BY <2>1, <2>3 DEF Down
      <4> QED BY <4>1, <4>2 DEF Fit, Col
    <3>2. known.people[n] \in [Channels -> Modes] BY <2>1, SoundParts, SoundTyped
    <3>3. known.people[n] = [c \in Channels |-> known.people[n][c]] BY <3>2
    <3> QED BY <3>1, <3>3 DEF Nowhere
  <2>4. ~up => \A c \in Channels : known.channels[c] = NoChannel
    BY <2>1, <2>2 DEF Down
  <2>5. known \in Knowledge BY <2>1 DEF Typed, Sound
  <2> QED BY <2>1, <2>2, <2>3, <2>4, <2>5 DEF Typed, TypeOK
<1> QED BY <1>1, Always, PTL

\* The lists lead to each other and to nothing that was freed (people.c),
\* however messages, the user's commands and closed windows come in between.
THEOREM AlwaysLinked == Spec => []Linked
<1>1. IInv => Linked
  <2> SUFFICES ASSUME IInv, NEW c \in Channels
               PROVE  /\ known.channels[c].onchan = {n \in Nicks : known.people[n][c] # "out"}
                      /\ {n \in Nicks : known.windows[c].list[n] # "out"}
                            \subseteq known.channels[c].onchan
    BY DEF Linked
  <2>1. Local(known, c) BY DEF IInv, Typed, Sound
  <2> QED BY <2>1 DEF Local
<1> QED BY <1>1, Always, PTL

\* When everything has arrived, our nick, the channels, the people and the
\* userlists of the channels' windows are what the server has: no handler of misc.c loses or
\* invents anybody, whatever was under way meanwhile.
THEOREM AlwaysAccurate == Spec => []Accurate
<1>1. IInv => Accurate
  <2> SUFFICES ASSUME IInv, up, stream = << >>, out = << >>
               PROVE  /\ nick = own
                      /\ \A c \in Channels :
                            /\ known.channels[c].joined <=> members[c][own] # "out"
                            /\ known.channels[c].joined =>
                                  /\ [n \in Nicks |-> known.people[n][c]] = members[c]
                                  /\ known.channels[c].live \/ c \notin ChanTypes
                                  /\ known.channels[c].live =>
                                        known.windows[c].list = members[c]
    BY DEF Accurate
  <2>1. Typed BY DEF IInv
  <2>2. PICK h : Foreseen(h) BY DEF IInv
  <2>3. Len(stream) = 0 /\ Len(out) = 0 OBVIOUS
  <2>4. h[1] = View /\ Truth(View) BY <2>2, <2>3 DEF Foreseen, Replay
  <2>5. /\ nick = own
        /\ \A c \in Channels : known.channels[c].joined <=> members[c][own] # "out"
        /\ \A c \in Channels, n \in Nicks : known.people[n][c] =
              IF known.channels[c].joined THEN members[c][n] ELSE "out"
    BY <2>4, ViewParts DEF Truth, View
  <2>6. ASSUME NEW c \in Channels, known.channels[c].joined
        PROVE  /\ [n \in Nicks |-> known.people[n][c]] = members[c]
               /\ known.channels[c].live \/ c \notin ChanTypes
               /\ known.channels[c].live => known.windows[c].list = members[c]
    <3>1. members[c] \in [Nicks -> Modes] BY <2>1 DEF Typed
    <3>2. [n \in Nicks |-> known.people[n][c]] = members[c] BY <2>5, <2>6, <3>1
    <3>3. known.channels[c].live \/ c \notin ChanTypes
      <4>1. ASSUME ~known.channels[c].live, c \in ChanTypes PROVE FALSE
        <5>1. Leaving(h, c) BY <2>2, <2>6, <4>1 DEF Foreseen
        <5>2. ~h[1].on[c] BY <5>1, <4>1, <2>3 DEF Leaving
        <5> QED BY <2>4, <2>6, <5>2, ViewParts DEF View
      <4> QED BY <4>1
    <3>6. ASSUME known.channels[c].live PROVE known.windows[c].list = members[c]
      <4>1. Fit(known.channels[c], known.windows[c], Col(known.people, c))
        BY <2>1, SoundFit, SoundTyped
      <4>2. /\ known.windows[c].list \in [Nicks -> Modes]
            /\ \A n \in Nicks : known.windows[c].list[n] = members[c][n]
        BY <2>5, <2>6, <3>6, <4>1 DEF Fit, Col
      <4> QED BY <3>1, <4>2
    <3> QED BY <3>2, <3>3, <3>6
  <2> QED BY <2>5, <2>6
<1> QED BY <1>1, Always, PTL
=============================================================================
