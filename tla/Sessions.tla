------------------------------ MODULE Sessions ------------------------------
(***************************************************************************)
(* Sessions and the windows that show them: sessions.c, windows.c, and the *)
(* commands and messages that open windows (commands.c, themes.c).         *)
(*                                                                         *)
(* Windows are structures in a list sorted by a number that users change;  *)
(* they point to sessions, and so does session_current.  No code here      *)
(* waits, so an action is one command, message or binding, with all that   *)
(* it calls: every function is an operator from the state `ui' to the      *)
(* state it leaves.                                                        *)
(***************************************************************************)
EXTENDS Integers, Sequences, FiniteSets, SequencesExt

CONSTANTS
  Sessions,     \* sessions that may be added: numbers, in the order of uids
  Targets,      \* uids and nicknames of people, names of special windows
  NoTarget,     \* a window without target
  Contacts,     \* the target of the interface's floating window
  UidOf,        \* UidOf[s][t]: get_uid(), NoTarget if s does not know t
  NickOf,       \* NickOf[s][t]: get_nickname(), likewise
  MaxWindows,   \* structures that are allocated at the same time
  Ids,          \* numbers that users give to /window move and swap
  Allows,       \* values of the variable window_session_allow
  MakeWindows,  \* values of the variable make_window, modulo 4
  RemoveAny     \* FALSE: the first session is removed only when it is the only one

None == 0       \* no session, no window
Windows == 1 .. MaxWindows
Status  == 1    \* window_status and window_debug, allocated by main()
Debug   == 2
ContactsId == 1000

ASSUME Constants ==
  /\ Sessions \subseteq Nat \ {0}  /\ IsFiniteSet(Sessions)
  /\ MaxWindows \in Nat \ {0, 1}
  /\ Contacts \in Targets  /\ NoTarget \notin Targets
  /\ UidOf  \in [Sessions -> [Targets -> Targets \cup {NoTarget}]]
  /\ NickOf \in [Sessions -> [Targets -> Targets \cup {NoTarget}]]
  /\ Ids \subseteq Int  /\ Allows \subseteq {0, 1, 2, 4}
  /\ MakeWindows \subseteq 0 .. 3  /\ RemoveAny \in BOOLEAN

VARIABLE ui

vars == <<ui>>

Shorts == 0 .. 65535
Number(n) == n % 65536      \* what an unsigned short keeps of a number

(***************************************************************************)
(* window_t, and the state: the list of windows, window_current,           *)
(* window_last_id, the sessions and session_current.                       *)
(***************************************************************************)
WindowT == [id : Shorts, session : Sessions \cup {None}, target : Targets \cup {NoTarget}, floating : BOOLEAN]

Unused == [id |-> 0, session |-> None, target |-> NoTarget, floating |-> FALSE]

Init ==
  ui = [window   |-> [w \in Windows |-> IF w = Status THEN [Unused EXCEPT !.id = 1]
                                        ELSE IF w = Debug THEN [Unused EXCEPT !.id = 0] ELSE Unused],
        list     |-> <<Debug, Status>>,
        current  |-> Status,
        last     |-> -1,
        sessions |-> {},
        session  |-> None]

Listed(u) == ToSet(u.list)

Docked(u) == {w \in Windows : ~u.window[w].floating}

\* Where windows of S are in the list, and the first of them, or None.
Places(u, S) == {i \in 1 .. Len(u.list) : u.list[i] \in S}
First(u, S)  == IF Places(u, S) = {} THEN None ELSE u.list[Min(Places(u, S))]

\* get_uid() and get_nickname() of a session that may be missing or a target that may be.
GetUid(s, t)  == IF t = NoTarget THEN NoTarget
                 ELSE IF s # None THEN UidOf[s][t]
                 ELSE IF \E k \in Sessions : UidOf[k][t] = t THEN t ELSE NoTarget
GetNick(s, t) == IF t = NoTarget THEN NoTarget ELSE NickOf[s][t]

(***************************************************************************)
(* Finding and making windows                                              *)
(***************************************************************************)

WindowExist(u, id) == First(u, {w \in Windows : u.window[w].id = id})

\* window_find_s() for a target: the very name, or the uid or nickname of the same person.
WindowFind(u, s, t) ==
  LET own   == {w \in Windows : u.window[w].session = s}
      exact == First(u, {w \in own : u.window[w].target = t})
      alike == First(u, {w \in own : u.window[w].target \in {UidOf[s][t], NickOf[s][t]} \ {NoTarget}})
  IN IF exact # None \/ s = None THEN exact ELSE alike

\* windows_add(): before the first window whose number is not smaller.
WindowsAdd(u, w) ==
  LET larger == {i \in 1 .. Len(u.list) : u.window[u.list[i]].id >= u.window[w].id}
  IN [u EXCEPT !.list = InsertAt(@, Min(larger \cup {Len(@) + 1}), w)]

WindowsUnlink(u, w) == [u EXCEPT !.list = RemoveFirst(@, w)]

\* A slip: the number of windows, as if none were ever removed.
FreeIdCounted(u) == Len(u.list)

\* What a window with number id makes of the number that was free so far.
Past(a, id) ==
  IF a.found \/ id < 2 THEN a
  ELSE IF id > a.id THEN [a EXCEPT !.found = TRUE]
  ELSE IF id \in 999 .. 1999 THEN [a EXCEPT !.id = 2000]
  ELSE [a EXCEPT !.id = id + 1]

\* The number of a new window: the first gap, found by going along the list.
FreeId(u) ==
  LET free[i \in 0 .. Len(u.list)] ==
        IF i = 0 THEN [id |-> 2, found |-> FALSE] ELSE Past(free[i - 1], u.window[u.list[i]].id)
  IN free[Len(u.list)].id

CanAllocate(u) == Listed(u) # Windows
Allocated(u) == Min(Windows \ Listed(u))

\* window_new() takes -1 for the number of the debug window.
NewNumber(id) == IF id = -1 THEN 0 ELSE Number(id)

\* window_new() when there is no such window yet.
WindowMake(u, t, s, id, floating) ==
  LET w == Allocated(u)
  IN WindowsAdd([u EXCEPT !.window[w] = [id |-> NewNumber(id), session |-> s, target |-> t, floating |-> floating]], w)

Exists(u, t, s) == t # NoTarget /\ WindowFind(u, s, t) # None

\* window_new(t, s, 0): the state, and the window that is returned.
WindowNew(u, t, s) == IF Exists(u, t, s) THEN u ELSE WindowMake(u, t, s, FreeId(u), FALSE)
WindowOf(u, t, s)  == IF Exists(u, t, s) THEN WindowFind(u, s, t) ELSE Allocated(u)

(***************************************************************************)
(* Switching, killing and moving windows                                   *)
(***************************************************************************)

\* A slip: session_current is left as it is.
WindowSwitchOnly(u, id) ==
  LET w == First(u, {v \in Docked(u) : u.window[v].id = id})
      old == u.window[u.current].id
  IN IF w = None THEN u ELSE [u EXCEPT !.last = IF id # old THEN old ELSE @, !.current = w]

WindowSwitch(u, id) ==
  LET w == First(u, {v \in Docked(u) : u.window[v].id = id})
      old == u.window[u.current].id
  IN IF w = None THEN u
     ELSE [u EXCEPT !.last = IF id # old THEN old ELSE @,
                    !.session = IF id # 0 /\ u.window[w].session # None THEN u.window[w].session ELSE @,
                    !.current = w]

WindowNext(u) ==
  LET after == {i \in Places(u, Docked(u)) : \E k \in 1 .. i - 1 : u.list[k] = u.current}
  IN WindowSwitch(u, u.window[IF after = {} THEN Status ELSE u.list[Min(after)]].id)

\* The window before the current one; from the status window, whose predecessor is the debug
\* window with the number 0, and from the first window of the list, the last one.
WindowPrev(u) ==
  LET docked == Places(u, Docked(u))
      stop   == {i \in docked : i > 1 /\ u.list[i] = u.current}
      before == IF stop = {} THEN docked ELSE {i \in docked : i < Min(stop)}
      prev   == u.list[Max(before)]
  IN IF before = {} THEN u
     ELSE WindowSwitch(u, u.window[IF u.window[prev].id = 0 THEN u.list[Max(docked)] ELSE prev].id)

WindowsRemove(u, w) == [WindowsUnlink(u, w) EXCEPT !.window[w] = Unused]

\* config_sort_windows: the windows behind the killed one move up.
Renumbered(u, w) ==
  [u EXCEPT !.window = [v \in Windows |->
     IF v \in Listed(u) /\ ~u.window[v].floating /\ u.window[v].id > 1 /\ u.window[v].id > u.window[w].id
     THEN [u.window[v] EXCEPT !.id = @ - 1] ELSE u.window[v]]]

WindowKill(u, w, sort) ==
  LET left == IF w = u.current THEN WindowPrev(u) ELSE u
  IN IF u.window[w].id = 1 /\ u.window[w].target # NoTarget
     THEN [u EXCEPT !.window[w].target = NoTarget]
     ELSE IF w \in {Status, Debug} THEN u
     ELSE WindowsRemove(IF sort /\ ~u.window[w].floating THEN Renumbered(left, w) ELSE left, w)

\* window_move(), the exchange of two numbers: both windows are taken out and put in again.
WindowMove(u, v, w) ==
  LET swapped == [WindowsUnlink(WindowsUnlink(u, v), w) EXCEPT
                    !.window[v].id = u.window[w].id, !.window[w].id = u.window[v].id]
  IN WindowsAdd(WindowsAdd(swapped, v), w)

\* window_real_move(): the windows in between make room.
WindowRealMove(u, w, dest) ==
  LET from == u.window[w].id
      Shift(id) == IF WindowExist(u, dest) = None THEN id
                   ELSE IF id \in dest .. from - 1 THEN id + 1
                   ELSE IF id \in from + 1 .. dest THEN id - 1 ELSE id
      moved == [u EXCEPT !.window = [x \in Windows |->
                  IF x = w THEN [u.window[w] EXCEPT !.id = Number(dest)]
                  ELSE IF x \in Listed(u) THEN [u.window[x] EXCEPT !.id = Shift(@)] ELSE u.window[x]]]
  IN WindowsAdd(WindowsUnlink(moved, w), w)

(***************************************************************************)
(* Sessions of windows                                                     *)
(***************************************************************************)

SetSession(u, w, s) ==
  IF s = None \/ u.window[w].session = s THEN u
  ELSE [u EXCEPT !.window[w].session = s, !.session = IF w = u.current THEN s ELSE @]

\* window_session_set(): the status and the debug window keep the same session.
WindowSessionSet(u, w, s) ==
  IF s = None \/ u.window[w].session = s THEN u
  ELSE CASE w = Status -> SetSession(SetSession(u, w, s), Debug, s)
         [] w = Debug  -> SetSession(SetSession(u, w, s), Status, s)
         [] OTHER      -> SetSession(u, w, s)

\* The session that window_session_cycle() comes to first: those behind the window's own, then
\* from the first one on.
Foremost(u, own, S) ==
  LET behind == {s \in S : own \in u.sessions /\ s > own}
  IN Min(IF behind = {} THEN S ELSE behind)

\* The window whose session is changed: with window_session_allow 4 the status window, which
\* becomes the current one and first takes the session of the window.
Cycled(u, w, allow) == IF allow = 4 THEN Status ELSE w
Prepared(u, w, allow) ==
  IF allow # 4 THEN u ELSE [WindowSwitch(u, 1) EXCEPT !.window[Status].session = u.window[w].session]

WindowSessionCycle(u0, w0, allow) ==
  LET u == Prepared(u0, w0, allow)
      w == Cycled(u0, w0, allow)
      own    == u.window[w].session
      target == u.window[w].target
      known  == GetUid(own, target)
      uid    == IF known = NoTarget THEN target ELSE known
      fit == {s \in u.sessions \ {own} :
                allow = 2 \/ target = NoTarget \/ (allow # 0 /\ GetUid(s, uid) # NoTarget)}
      new == Foremost(u, own, fit)
      nick == GetNick(new, uid)
  IN IF \/ u0.sessions = {}
        \/ allow = 0 /\ u0.window[w0].target # NoTarget
        \/ allow = 4 /\ u0.window[Status].target # NoTarget
     THEN u0
     ELSE IF fit = {} THEN u
     ELSE WindowSessionSet([u EXCEPT !.window[w].target = IF nick # NoTarget THEN nick ELSE uid], w, new)

(***************************************************************************)
(* Sessions                                                                *)
(***************************************************************************)

\* A window without session is given s, if s knows whom it is for.
Adopted(u, w, s) ==
  IF u.window[w].session = None /\ ~u.window[w].floating /\ GetUid(s, u.window[w].target) # NoTarget
  THEN WindowSessionSet(u, w, s) ELSE u

\* session_add(): the new session takes the windows of the people it knows.
SessionAdd(u0, s) ==
  LET u == [u0 EXCEPT !.sessions = @ \cup {s}]
      home == IF u.current \in {Status, Debug} /\ u.window[u.current].session = None
              THEN WindowSessionSet(u, u.current, s) ELSE u
      known == [home EXCEPT !.session = IF @ = None THEN s ELSE @]
      after[i \in 0 .. Len(known.list)] ==
        IF i = 0 THEN known ELSE Adopted(after[i - 1], known.list[i], s)
  IN after[Len(known.list)]

\* A slip: windows are looked at only if there is another session to give them.
BereftIfMany(u, w, s, allow) ==
  IF u.window[w].session # s \/ u.sessions = {s} THEN u
  ELSE WindowSessionCycle([u EXCEPT !.window[w].session = None], w, allow)

\* A window of the session s is given another one, if there is one.
Bereft(u, w, s, allow) ==
  LET left == [u EXCEPT !.window[w].session = None]
  IN IF u.window[w].session # s THEN u
     ELSE IF u.sessions = {s} THEN left
     ELSE WindowSessionCycle(left, w, allow)

\* session_remove(): windows look for another session while this one is still in the list;
\* commands and messages that follow find it gone.
SessionRemove(u0, s, allow) ==
  LET u == [u0 EXCEPT !.session = IF @ = s THEN None ELSE @]
      after[i \in 0 .. Len(u.list)] ==
        IF i = 0 THEN u ELSE Bereft(after[i - 1], u.list[i], s, allow)
  IN [after[Len(u.list)] EXCEPT !.sessions = @ \ {s}]

\* session_read(): sessions_free() and the sessions of the file, in its order.
SessionRead(u, file) ==
  LET freed == [u EXCEPT !.sessions = {}, !.session = None,
                         !.window = [w \in Windows |-> [@[w] EXCEPT !.session = None]]]
      read[n \in 0 .. Max(file \cup {0})] ==
        IF n = 0 THEN freed ELSE IF n \in file THEN SessionAdd(read[n - 1], n) ELSE read[n - 1]
  IN read[Max(file \cup {0})]

\* /session --sw
SessionSw(u, s) ==
  LET home == IF u.window[u.current].target # NoTarget /\ u.window[u.current].id # 0
              THEN WindowSwitch(u, 1) ELSE u
  IN IF u.window[u.current].session = s THEN u ELSE WindowSessionSet(home, home.current, s)

(***************************************************************************)
(* Commands and messages that open windows                                 *)
(***************************************************************************)

\* The session of a command that the user types: the window's, else the current one.
UserSession(u) == IF u.window[u.current].session # None THEN u.window[u.current].session ELSE u.session

\* /window new: the window takes the session of the current one.
CmdWindowNew(u0, t) ==
  LET u   == WindowNew(u0, t, UserSession(u0))
      w   == WindowOf(u0, t, UserSession(u0))
      own == u.window[u.current].session
      s   == IF own # None \/ u.sessions = {} THEN own ELSE Min(u.sessions)
      set == [u EXCEPT !.window[w].session = s]
  IN IF u.window[w].floating THEN set ELSE WindowSwitch(set, u.window[w].id)

\* /window kill, and /window switch to the window that is then the current one.
CmdWindowKill(u0, w, sort) ==
  LET u == WindowKill(u0, w, sort) IN WindowSwitch(u, u.window[u.current].id)

\* /window move and /window swap; swap makes the window that it is to change with.
CmdWindowMove(u, w, dest) == WindowSwitch(WindowRealMove(u, w, dest), dest)

CmdWindowSwap(u0, w, dest) ==
  LET u == IF WindowExist(u0, dest) = None THEN WindowMake(u0, NoTarget, None, dest, FALSE) ELSE u0
      v == WindowExist(u, dest)
  IN WindowSwitch(IF v = None THEN u ELSE WindowMove(u, w, v), dest)

Taken(u, w, t, s) == [u EXCEPT !.window[w].target = t, !.window[w].session = s]

\* The window that a conversation takes over when make_window is 1, None when it gets a new one.
Idle(u) == First(u, {w \in Docked(u) : u.window[w].id > 1 /\ u.window[w].target = NoTarget})

\* /query, for a person whose session is given by hand or is the current one.
CmdQuery(u0, t, s, make) ==
  LET found == WindowFind(u0, s, t)
      w == IF found # None THEN found
           ELSE IF make \in {1, 3} /\ Idle(u0) # None THEN Idle(u0)
           ELSE IF make = 0 THEN u0.current ELSE Allocated(u0)
      u == IF found # None THEN u0
           ELSE IF w \in Listed(u0) THEN Taken(u0, w, t, s)
           ELSE WindowMake(u0, t, s, FreeId(u0), FALSE)
  IN IF w = u.current THEN u ELSE WindowSwitch(u, u.window[w].id)

\* print_window_find() for a message of the session from a person: the window may be in use by
\* the time the user looks at it, so nothing is switched.
PrintWindow(u, t, s, make) ==
  LET name == IF NickOf[s][t] = NoTarget THEN t ELSE NickOf[s][t]
  IN IF WindowFind(u, s, t) # None \/ make = 0 THEN u
     ELSE IF make = 1 /\ Idle(u) # None THEN Taken(u, Idle(u), name, s)
     ELSE WindowNew(u, name, s)

\* ncurses_contacts_changed(): the contacts window is made anew, or only destroyed.
ContactsGone(u, sort) ==
  LET old == WindowFind(u, None, Contacts) IN IF old = None THEN u ELSE WindowKill(u, old, sort)

ContactsReset(u, show, sort) ==
  LET gone == ContactsGone(u, sort)
  IN IF show /\ ~Exists(gone, Contacts, None)
     THEN WindowMake(gone, Contacts, None, ContactsId, TRUE) ELSE gone

(***************************************************************************)
(* The program                                                             *)
(***************************************************************************)

AddSession == \E s \in Sessions \ ui.sessions : ui' = SessionAdd(ui, s)

RemoveSession ==
  \E s \in ui.sessions, allow \in Allows :
    /\ RemoveAny \/ ui.sessions = {s} \/ s # Min(ui.sessions)
    /\ ui' = SessionRemove(ui, s, allow)

ReadSessions == \E file \in SUBSET Sessions : ui' = SessionRead(ui, file)

SwitchSession == \E s \in ui.sessions : ui' = SessionSw(ui, s)

CycleSession == \E allow \in Allows : ui' = WindowSessionCycle(ui, ui.current, allow)

\* Of the special names none is given to /window new: see the README for "__contacts".
NewWindow ==
  \E t \in (Targets \ {Contacts}) \cup {NoTarget} :
    /\ Exists(ui, t, UserSession(ui)) \/ CanAllocate(ui)
    /\ ui' = CmdWindowNew(ui, t)

SwitchWindow == \E id \in {ui.last} \cup {ui.window[w].id : w \in Listed(ui)} : ui' = WindowSwitch(ui, id)

KillWindow == \E w \in Listed(ui), sort \in BOOLEAN : ui' = CmdWindowKill(ui, w, sort)

NextWindow == ui' = WindowNext(ui)

PrevWindow == ui' = WindowPrev(ui)

MoveWindow ==
  \E w \in Listed(ui), dest \in Ids :
    /\ ui.window[w].id \in Ids \ {0, 1, dest}  /\ dest \notin {0, 1}
    /\ ui' = CmdWindowMove(ui, w, dest)

SwapWindows ==
  \E w \in Listed(ui), dest \in Ids :
    /\ ui.window[w].id \in Ids \ {0, 1, dest}  /\ dest \notin {0, 1}
    /\ WindowExist(ui, dest) # None \/ CanAllocate(ui)
    /\ ui' = CmdWindowSwap(ui, w, dest)

Query ==
  \E t \in Targets, s \in {UserSession(ui)} \cup ui.sessions, make \in MakeWindows :
    /\ GetUid(s, t) # NoTarget  /\ CanAllocate(ui)
    /\ ui' = CmdQuery(ui, t, s, make)

Message ==
  \E t \in Targets, s \in ui.sessions, make \in MakeWindows :
    /\ GetUid(s, t) = t  /\ CanAllocate(ui)
    /\ ui' = PrintWindow(ui, t, s, make)

ResetContacts ==
  \E show, sort \in BOOLEAN :
    /\ CanAllocate(ContactsGone(ui, sort))
    /\ ui' = ContactsReset(ui, show, sort)

Next ==
  \/ AddSession \/ RemoveSession \/ ReadSessions \/ SwitchSession \/ CycleSession
  \/ NewWindow \/ SwitchWindow \/ KillWindow \/ NextWindow \/ PrevWindow
  \/ MoveWindow \/ SwapWindows \/ Query \/ Message \/ ResetContacts

Spec == Init /\ [][Next]_vars

(***************************************************************************)
(* Properties                                                              *)
(***************************************************************************)

\* Each part of the state holds values of its type; the list holds a window once, and what is
\* not in the list is not in use.
TypeOK ==
  /\ ui.window \in [Windows -> WindowT]
  /\ ui.list \in Seq(Windows)  /\ IsInjective(ui.list)  /\ {Status, Debug} \subseteq Listed(ui)
  /\ \A w \in Windows \ Listed(ui) : ui.window[w] = Unused
  /\ ui.current \in Windows  /\ ui.last \in Int
  /\ ui.sessions \subseteq Sessions  /\ ui.session \in Sessions \cup {None}

\* Nothing points to memory that was freed: the sessions of windows and session_current are in
\* the list of sessions, window_current in the list of windows, whatever was removed, read
\* again, cycled or moved before.
PointersLive ==
  /\ \A w \in Listed(ui) : ui.window[w].session \in ui.sessions \cup {None}
  /\ ui.session \in ui.sessions \cup {None}
  /\ ui.current \in Listed(ui)

\* The list stays sorted by numbers that are all different, which window_new() relies on to find
\* a free one (windows.c:291) and every command that names a window by its number; the status
\* window keeps number 1 and the debug window number 0.
WindowsOrdered ==
  /\ \A i, j \in 1 .. Len(ui.list) : i < j => ui.window[ui.list[i]].id < ui.window[ui.list[j]].id
  /\ ui.window[Status].id = 1  /\ ui.window[Debug].id = 0

\* session_current, which commands fall back to, is the session of the window that the user
\* looks at, when that window has one (the debug window aside, which does not set it).
SessionFollowsWindow ==
  LET own == ui.window[ui.current].session
  IN ui.current # Debug /\ own # None => ui.session = own
=============================================================================
