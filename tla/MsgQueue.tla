------------------------------ MODULE MsgQueue ------------------------------
(***************************************************************************)
(* The queue of messages (src/ekg/msgqueue.c) with those who fill and      *)
(* empty it: /msg of plugins/gg, which queues every message until the      *)
(* server has answered it, /msg of plugins/jabber (icq does the same),     *)
(* which queues what is given while the session is down, the flush when a  *)
(* session goes up, /queue --clear, and the files written by ekg_exit()    *)
(* and read by main().                                                     *)
(*                                                                         *)
(* A message is the number of the /msg that gave it.  Connections break,   *)
(* and with them what the server has not answered yet; libgadu may refuse  *)
(* a sending; the program exits, crashes and starts again.                 *)
(*                                                                         *)
(* libgadu, which is not part of the repository, numbers the messages of   *)
(* each connection (g->sess) on its own.  Here every connection starts at  *)
(* 0, so that connections do share numbers, and an answer removes the      *)
(* entries with its number of every account, as the @todo above            *)
(* protocol_message_ack() says; `mistaken` keeps what goes away like that. *)
(***************************************************************************)
EXTENDS Naturals, Integers, FiniteSets, SequencesExt

CONSTANTS
    Sessions,     \* the accounts
    Answered,     \* those whose server answers every message (gg)
    People,       \* who messages are sent to
    Targets,      \* what the user may write to: sets of people
    MaxMessages,  \* bound: commands /msg given by the user
    MaxSends,     \* bound: how often one message goes to one person
    MaxStarts,    \* bound: starts of the program
    MaxQueue      \* bound: entries of the queue

ASSUME QueueAssumption ==
    /\ IsFiniteSet(People) /\ IsFiniteSet(Sessions)
    /\ Answered \subseteq Sessions
    /\ Targets \subseteq (SUBSET People) \ {{}}
    /\ {MaxMessages, MaxSends, MaxStarts, MaxQueue} \subseteq Nat

VARIABLES
    given,     \* the commands /msg so far: [session, to]
    queue,     \* msgs_queue
    disk,      \* the files of queue/: [name, entry]
    link,      \* per session "down", "connecting" (g->sess exists), "up"
    wire,      \* what is on a connection and not answered: [session, to, msg, seq]
    walk,      \* what the program is doing: [at, session, i]
    starts,    \* how often the program was started
    seq,       \* per session the last sequence number of its connection
    sends,     \* [<<msg, person>> -> how often it was put on a connection]
    breaks,    \* [<<msg, person>> -> how often a connection took it away]
    settled,   \* <<msg, person>> answered, cleared by the user or lost in a crash
    mistaken,  \* <<msg, person>> removed by the answer to another account
    refused,   \* messages that libgadu refused on a connection that was up
    restored   \* messages that were read from disk

vars == <<given, queue, disk, link, wire, walk, starts, seq, sends, breaks,
          settled, mistaken, refused, restored>>

Messages == 1..MaxMessages
Pairs == Messages \X People
Offline == 0          \* seq "offline"
Unsent  == -1         \* seq "-1": libgadu refused, as it does until it is connected

Idle == [at |-> "idle", session |-> "none", i |-> 0]

Entry(s, to, m, q) ==
    [session |-> s, to |-> to, msg |-> m, seq |-> q, mark |-> FALSE]

\* The pairs that entries stand for.
Of(entries) == UNION {{e.msg} \X e.to : e \in entries}
Queued == Of(Range(queue))
OnDisk == Of({f.entry : f \in disk})

-----------------------------------------------------------------------------
(* /msg                                                                    *)

\* Slip: the new entry is put at the head of the list.
AppendedFirst(entries) == entries \o queue

Appended(entries) == queue \o entries

\* gg_command_msg() for session s, once per recipient: the message goes to
\* libgadu when there is a g->sess, and into the queue in any case, with the
\* whole list of recipients.  libgadu refuses the messages to R.
Put(s, to, m, R) ==
    LET nicks == SetToSeq(to)
        Goes(i) == link[s] = "up" /\ nicks[i] \notin R
        Number(i) == IF Goes(i) THEN seq[s] + i
                     ELSE IF link[s] = "down" THEN Offline ELSE Unsent
    IN [entries |-> [i \in 1..Len(nicks) |-> Entry(s, to, m, Number(i))],
        sent    |-> {[session |-> s, to |-> nicks[i], msg |-> m, seq |-> seq[s] + i] :
                        i \in {k \in 1..Len(nicks) : Goes(k)}}]

\* jabber_command_msg() and icq_command_msg(): on the connection when there is
\* one, otherwise into the queue, but not when told to be quiet.
PutOnce(s, to, m, quiet) ==
    [entries |-> IF link[s] = "up" \/ quiet THEN << >>
                 ELSE <<Entry(s, to, m, Offline)>>,
     sent    |-> IF link[s] # "up" THEN {}
                 ELSE {[session |-> s, to |-> p, msg |-> m, seq |-> seq[s] + 1] :
                           p \in to}]

Command(s, to, m, quiet, R) ==
    IF s \in Answered THEN Put(s, to, m, R) ELSE PutOnce(s, to, m, quiet)

\* What a sending to `to` can be refused for: a failing write(), no memory.
Refusals(s, to) ==
    IF s \in Answered /\ link[s] = "up" THEN SUBSET to ELSE {{}}

\* What a command of session s for message m does to the connections; only gg
\* waits for an answer.
Transmit(s, m, out, R) ==
    /\ seq' = [seq EXCEPT ![s] = @ + Cardinality(out.sent) + Cardinality(R)]
    /\ wire' = wire \cup {w \in out.sent : w.session \in Answered}
    /\ sends' = [x \in Pairs |->
                   sends[x] + Cardinality({w \in out.sent : <<w.msg, w.to>> = x})]
    /\ \A x \in Pairs : sends'[x] <= MaxSends
    /\ refused' = IF R = {} THEN refused ELSE refused \cup {m}

\* The user gives /msg; plugins/jabber takes one recipient.
Msg(s, to, R) ==
    LET m == Len(given) + 1
        out == Command(s, to, m, FALSE, R)
    IN /\ walk = Idle
       /\ m <= MaxMessages
       /\ s \in Answered \/ Cardinality(to) = 1
       /\ Len(queue) + Len(out.entries) <= MaxQueue
       /\ given' = Append(given, [session |-> s, to |-> to])
       /\ queue' = Appended(out.entries)
       /\ Transmit(s, m, out, R)
       /\ UNCHANGED <<disk, link, walk, starts, breaks, settled, mistaken, restored>>

-----------------------------------------------------------------------------
(* Connections                                                             *)

\* A new g->sess, with numbers of its own.
Connect(s) ==
    /\ walk = Idle
    /\ link[s] = "down"
    /\ link' = [link EXCEPT ![s] = "connecting"]
    /\ seq' = [seq EXCEPT ![s] = 0]
    /\ UNCHANGED <<given, queue, disk, wire, walk, starts, sends, breaks,
                   settled, mistaken, refused, restored>>

Marked == [i \in 1..Len(queue) |-> [queue[i] EXCEPT !.mark = TRUE]]

\* protocol_connected(): msg_queue_flush() marks what is in the queue now.
Up(s) ==
    /\ walk = Idle
    /\ link[s] = "connecting"
    /\ link' = [link EXCEPT ![s] = "up"]
    /\ queue' = Marked
    /\ walk' = IF queue = << >> THEN Idle
               ELSE [at |-> "flush", session |-> s, i |-> 1]
    /\ UNCHANGED <<given, disk, wire, starts, seq, sends, breaks, settled,
                   mistaken, refused, restored>>

\* Slip: also what was added during the flush.
FlushableAny(e) == e.session = walk.session

Flushable(e) == e.mark /\ e.session = walk.session

\* Slip: the walk goes on after the element that moved into the freed place.
AfterRemovalNext(i) == i + 1

\* msgs_queue_removei() answers the element before the removed one.
AfterRemoval(i) == i

\* The entry is passed over.
FlushPass ==
    /\ walk.at = "flush"
    /\ walk.i <= Len(queue)
    /\ ~Flushable(queue[walk.i])
    /\ walk' = [walk EXCEPT !.i = @ + 1]
    /\ UNCHANGED <<given, queue, disk, link, wire, starts, seq, sends, breaks,
                   settled, mistaken, refused, restored>>

\* The entry is given to /msg, quietly, and removed, whatever /msg returned.
FlushSend ==
    /\ walk.at = "flush"
    /\ walk.i <= Len(queue)
    /\ Flushable(queue[walk.i])
    /\ LET e == queue[walk.i]
       IN \E R \in Refusals(e.session, e.to) :
            LET out == Command(e.session, e.to, e.msg, TRUE, R)
            IN /\ queue' = RemoveAt(Appended(out.entries), walk.i)
               /\ Transmit(e.session, e.msg, out, R)
    /\ walk' = [walk EXCEPT !.i = AfterRemoval(@)]
    /\ UNCHANGED <<given, disk, link, starts, breaks, settled, mistaken, restored>>

FlushEnd ==
    /\ walk.at = "flush"
    /\ walk.i > Len(queue)
    /\ walk' = Idle
    /\ UNCHANGED <<given, queue, disk, link, wire, starts, seq, sends, breaks,
                   settled, mistaken, refused, restored>>

\* What the connections of the sessions S carried is neither answered nor
\* known to be lost.
Broken(S) ==
    /\ wire' = {w \in wire : w.session \notin S}
    /\ breaks' = [x \in Pairs |-> breaks[x] +
                    Cardinality({w \in wire : w.session \in S
                                              /\ <<w.msg, w.to>> = x})]

Down(s) ==
    /\ walk = Idle
    /\ link[s] # "down"
    /\ link' = [link EXCEPT ![s] = "down"]
    /\ Broken({s})
    /\ UNCHANGED <<given, queue, disk, walk, starts, seq, sends, settled,
                   mistaken, refused, restored>>

\* The j-th of the places K, and what the queue is without the others.
Place(K, j) == CHOOSE i \in K : Cardinality({k \in K : k <= i}) = j
Kept(K) == [j \in 1..Cardinality(K) |-> queue[Place(K, j)]]

\* What msg_queue_remove_seq() leaves.
Unanswered(q) == Kept({i \in 1..Len(queue) : queue[i].seq # q})

\* What it takes away of other accounts than s.
OfOthers(s, q) == Of({e \in Range(queue) : e.seq = q /\ e.session # s})

\* protocol_message_ack(): msg_queue_remove_seq(), of whatever session, and
\* whatever the server's answer was.
Ack(w) ==
    /\ walk = Idle
    /\ w \in wire
    /\ wire' = wire \ {w}
    /\ queue' = Unanswered(w.seq)
    /\ settled' = settled \cup {<<w.msg, w.to>>}
    /\ mistaken' = mistaken \cup OfOthers(w.session, w.seq)
    /\ UNCHANGED <<given, disk, link, walk, starts, seq, sends, breaks, refused, restored>>

\* /queue --clear with a target, msg_queue_remove_uid(), and without.
Clear(to) ==
    /\ walk = Idle
    /\ to \in {e.to : e \in Range(queue)}
    /\ queue' = Kept({i \in 1..Len(queue) : queue[i].to # to})
    /\ settled' = settled \cup Of({e \in Range(queue) : e.to = to})
    /\ UNCHANGED <<given, disk, link, wire, walk, starts, seq, sends, breaks,
                   mistaken, refused, restored>>

ClearAll ==
    /\ walk = Idle
    /\ queue # << >>
    /\ queue' = << >>
    /\ settled' = settled \cup Queued
    /\ UNCHANGED <<given, disk, link, wire, walk, starts, seq, sends, breaks,
                   mistaken, refused, restored>>

-----------------------------------------------------------------------------
(* Exit, crash and start                                                   *)

\* ekg_exit() begins with msg_queue_write().
Exit ==
    /\ walk = Idle
    /\ walk' = [at |-> "write", session |-> "none", i |-> 1]
    /\ UNCHANGED <<given, queue, disk, link, wire, starts, seq, sends, breaks,
                   settled, mistaken, refused, restored>>

\* Slip: the name is the time alone.
FileNameTime(i) == 0

\* The number that follows the time in the file's name; all the messages may
\* have been given in one second.
FileName(i) == i - 1

WriteOne ==
    /\ walk.at = "write"
    /\ walk.i <= Len(queue)
    /\ disk' = {f \in disk : f.name # FileName(walk.i)}
                 \cup {[name |-> FileName(walk.i),
                        entry |-> [queue[walk.i] EXCEPT !.mark = FALSE]]}
    /\ walk' = [walk EXCEPT !.i = @ + 1]
    /\ UNCHANGED <<given, queue, link, wire, starts, seq, sends, breaks,
                   settled, mistaken, refused, restored>>

\* The rest of ekg_exit(): the connections are closed, the lists freed.
Stopped ==
    /\ walk' = [at |-> "off", session |-> "none", i |-> 0]
    /\ queue' = << >>
    /\ link' = [s \in Sessions |-> "down"]
    /\ Broken(Sessions)

WriteEnd ==
    /\ walk.at = "write"
    /\ walk.i > Len(queue)
    /\ Stopped
    /\ UNCHANGED <<given, disk, starts, seq, sends, settled, mistaken,
                   refused, restored>>

\* The program dies; what was not on disk is lost with it.
Crash ==
    /\ walk.at # "off"
    /\ Stopped
    /\ settled' = settled \cup (Queued \ OnDisk)
    /\ UNCHANGED <<given, disk, starts, seq, sends, mistaken, refused,
                   restored>>

Start ==
    /\ walk.at = "off"
    /\ starts < MaxStarts
    /\ starts' = starts + 1
    /\ walk' = [at |-> "read", session |-> "none", i |-> 0]
    /\ UNCHANGED <<given, queue, disk, link, wire, seq, sends, breaks,
                   settled, mistaken, refused, restored>>

\* msg_queue_read(): in the order of readdir(), each file unlinked when read.
ReadOne(f) ==
    /\ walk.at = "read"
    /\ f \in disk
    /\ queue' = Appended(<<f.entry>>)
    /\ disk' = disk \ {f}
    /\ restored' = restored \cup {f.entry.msg}
    /\ UNCHANGED <<given, link, wire, walk, starts, seq, sends, breaks,
                   settled, mistaken, refused>>

ReadEnd ==
    /\ walk.at = "read"
    /\ disk = {}
    /\ walk' = Idle
    /\ UNCHANGED <<given, queue, disk, link, wire, starts, seq, sends, breaks,
                   settled, mistaken, refused, restored>>

-----------------------------------------------------------------------------
Init ==
    /\ given = << >> /\ queue = << >> /\ disk = {} /\ wire = {}
    /\ link = [s \in Sessions |-> "down"]
    /\ walk = [at |-> "read", session |-> "none", i |-> 0]
    /\ starts = 1 /\ seq = [s \in Sessions |-> 0]
    /\ sends = [x \in Pairs |-> 0] /\ breaks = [x \in Pairs |-> 0]
    /\ settled = {} /\ mistaken = {} /\ refused = {} /\ restored = {}

User == \/ \E s \in Sessions, to \in Targets :
             \E R \in Refusals(s, to) : Msg(s, to, R)
        \/ \E to \in Targets : Clear(to)
        \/ ClearAll
        \/ Exit

Network == \/ \E s \in Sessions : Connect(s) \/ Up(s) \/ Down(s)
           \/ \E w \in wire : Ack(w)

Program == \/ FlushPass \/ FlushSend \/ FlushEnd
           \/ WriteOne \/ WriteEnd
           \/ \E f \in disk : ReadOne(f)
           \/ ReadEnd

Next == User \/ Network \/ Program \/ Crash \/ Start

Spec == Init /\ [][Next]_vars

-----------------------------------------------------------------------------
(* Properties                                                              *)

Entries == [session : Sessions, to : SUBSET People, msg : Messages,
            seq : {Unsent} \cup Nat, mark : BOOLEAN]

\* The variables keep their types; the walk of msg_queue_flush() stays inside
\* the list or stands at its end.
TypeOK ==
    /\ given \in Seq([session : Sessions, to : SUBSET People])
    /\ Len(given) <= MaxMessages
    /\ queue \in Seq(Entries)
    /\ disk \subseteq [name : Nat, entry : Entries]
    /\ link \in [Sessions -> {"down", "connecting", "up"}]
    /\ wire \subseteq [session : Answered, to : People, msg : Messages,
                       seq : Nat \ {0}]
    /\ walk.at \in {"idle", "flush", "read", "write", "off"}
    /\ walk.at \in {"flush", "write"} => walk.i \in 1..(Len(queue) + 1)
    /\ seq \in [Sessions -> Nat]
    /\ sends \in [Pairs -> Nat] /\ breaks \in [Pairs -> Nat]
    /\ settled \subseteq Pairs /\ mistaken \subseteq Pairs
    /\ refused \subseteq Messages /\ restored \subseteq Messages

\* A message is in the queue or on disk until the server has answered it
\* (gg) or it was sent (jabber), through breaking connections, refusals,
\* flushes, exits and starts, unless its user cleared it or a crash took the
\* queue (msg_queue_add, msg_queue_flush, msg_queue_write, msg_queue_read).
\* The code does not keep one thing, and `mistaken` excepts it: an answer to
\* another account that has the number of the entry.  An answer never takes
\* away an entry of its own account that it is not the answer to, although
\* entries of earlier connections, with their old numbers, lie in the queue.
NoneLost ==
    \A m \in 1..Len(given) : \A p \in given[m].to :
        \/ <<m, p>> \in Queued \cup OnDisk \cup settled \cup mistaken
        \/ given[m].session \notin Answered /\ sends[<<m, p>>] > 0

\* A message is sent again only for a connection that broke before the server
\* had answered (the mark of msg_queue_flush()).
NoneTwice ==
    \A x \in Pairs : sends[x] <= 1 + breaks[x]

\* While a session is up none of its messages lies in the queue without being
\* on the connection, unless libgadu refused it there: what was given while
\* the session was down, or given and not answered on an earlier connection,
\* was tried again when it came up.  What was refused waits for the next time.
NoneWaits ==
    walk = Idle =>
        \A e \in Range(queue) : link[e.session] = "up" =>
            \/ \E w \in wire : w.session = e.session /\ w.msg = e.msg /\ w.seq = e.seq
            \/ e.seq = Unsent /\ e.msg \in refused

\* A message does not overtake an earlier one to the same person that still
\* waits for its first sending, except one that libgadu refused or that an
\* exit put on disk: readdir() has no order (msg_queue_flush, msg_queue_read).
NoneOvertakes ==
    \A m2 \in 1..Len(given) : \A m1 \in 1..(m2 - 1) :
        \A p \in given[m1].to \cap given[m2].to :
            (/\ given[m1].session = given[m2].session
             /\ sends[<<m2, p>>] > 0
             /\ sends[<<m1, p>>] = 0)
                => m1 \in restored \cup refused \/ <<m1, p>> \notin Queued
=============================================================================
