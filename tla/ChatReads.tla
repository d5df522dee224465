------------------------------ MODULE ChatReads ------------------------------
(***************************************************************************)
(* What is read of one club chat room (app/services/chat_service.py,       *)
(* app/repositories/chat.py, the routes in app/routers/chat.py and         *)
(* cleanup_inactive_chat_rooms in app/tasks/cleanup.py): messages posted   *)
(* over HTTP and over a WebSocket, deleted, paged through and counted as   *)
(* unread, the reader's mark, and the task that deletes a room in which    *)
(* nobody has written for a month.                                         *)
(*                                                                         *)
(* A message is dated by the start of the transaction that stores it.  An  *)
(* HTTP request begins one and commits it soon; a WebSocket handler has    *)
(* one open, from its handshake or from its last message, until its next   *)
(* message.  Messages are numbered in the order in which they are stored.  *)
(***************************************************************************)
EXTENDS Integers, FiniteSets

CONSTANTS
  Tab,         \* the reader's tabs, each marking at most one message at a time
  Retention,   \* the 30 days, in the instants of the clock
  PageSize,    \* limit of a page of messages
  MaxMessages, \* bound: messages ever posted
  MaxTime      \* bound on the clock

ASSUME BoundAssumption ==
  /\ Retention \in Nat \ {0} /\ PageSize \in Nat \ {0}
  /\ MaxMessages \in Nat /\ MaxTime \in Nat

Message == 1..MaxMessages
Time == 0..MaxTime
Null == 0     \* last_read_message_id is NULL
NoRow == -1   \* there is no row, no transaction

VARIABLES
  room,     \* "none", "open" or "deleted"
  created,  \* its created_at
  msgs,     \* message -> [date, stored], for those that are there
  posted,   \* how many were ever posted
  time,     \* of the database
  mark,     \* message_reads of the reader: a message, Null or NoRow
  socket,   \* start of the transaction of the sender's WebSocket, NoRow without
  marking,  \* tab -> the mark it is setting, and the row it has read
  counting, \* the unread count under way: the row it has read
  pager,    \* a client that pages back through the messages
  pass      \* the task: what it has selected and deleted

chat == <<room, created, msgs, posted>>
vars == <<chat, time, mark, socket, marking, counting, pager, pass>>

NotMarking == [on |-> Null, row |-> NoRow]
NotCounting == [busy |-> FALSE, row |-> NoRow, lost |-> FALSE]
NotPaging == [busy |-> FALSE, cursor |-> Null, seen |-> {}, since |-> {}, lost |-> FALSE]
NoPass == [stage |-> "asleep", cutoff |-> 0, doomed |-> {}, late |-> {}]

Row == Message \cup {Null, NoRow}

(* Only the type of the state.                                             *)
TypeOK ==
  /\ room \in {"none", "open", "deleted"}
  /\ created \in Time
  /\ msgs \in UNION {[S -> [date : Time, stored : Time]] : S \in SUBSET Message}
  /\ posted \in 0..MaxMessages
  /\ time \in Time
  /\ mark \in Row
  /\ socket \in Time \cup {NoRow}
  /\ marking \in [Tab -> [on : Message \cup {Null}, row : Row]]
  /\ counting \in [busy : BOOLEAN, row : Row, lost : BOOLEAN]
  /\ pager \in [busy : BOOLEAN, cursor : Message \cup {Null},
                seen : SUBSET Message, since : SUBSET Message, lost : BOOLEAN]
  /\ pass \in [stage : {"asleep", "selected", "purged"}, cutoff : Int,
               doomed : SUBSET Message, late : SUBSET Message]

Init ==
  /\ room = "none"
  /\ created = 0
  /\ msgs = [m \in {} |-> 0]
  /\ posted = 0
  /\ time = 0
  /\ mark = NoRow
  /\ socket = NoRow
  /\ marking = [b \in Tab |-> NotMarking]
  /\ counting = NotCounting
  /\ pager = NotPaging
  /\ pass = NoPass

-----------------------------------------------------------------------------
(* Helpers.                                                                *)

Stored == DOMAIN msgs

(* Mutant of UnsetMark: no foreign key from marks to messages.             *)
KeepMark(S) == mark

(* A deleted message takes itself out of the mark (ON DELETE SET NULL).    *)
UnsetMark(S) == IF mark \in S THEN Null ELSE mark

(* Whoever has read a mark or taken a cursor is left with what is gone.    *)
Delete(S) ==
  /\ msgs' = [m \in Stored \ S |-> msgs[m]]
  /\ counting' = [counting EXCEPT !.lost = counting.lost \/ counting.row \in S]
  /\ pager' = [pager EXCEPT !.lost = pager.lost \/ pager.cursor \in S,
                            !.since = pager.since \ S]

(* A message is stored now, by a transaction that began at t.              *)
Store(t) ==
  /\ room = "open"
  /\ posted < MaxMessages
  /\ posted' = posted + 1
  /\ msgs' = [m \in Stored \cup {posted + 1} |->
                IF m \in Stored THEN msgs[m] ELSE [date |-> t, stored |-> time]]
  /\ pass' = [pass EXCEPT !.late = IF pass.stage = "asleep" THEN {} ELSE pass.late \cup {posted + 1}]
  /\ UNCHANGED <<room, created>>

(* Mutant of Older: the tie left unbroken, as in list_messages.            *)
OlderByDate(m, c) == msgs[m].date < msgs[c].date

(* The order of pages: timestamp, then id.                                 *)
Older(m, c) ==
  msgs[m].date < msgs[c].date \/ (msgs[m].date = msgs[c].date /\ m < c)

(* Pages and counts write nothing, and neither does a mark before its last *)
(* step, so that a reader does one of the three at a time.                 *)
NoneMarks == \A b \in Tab : marking[b] = NotMarking
NoneCounts == ~counting.busy

-----------------------------------------------------------------------------
(* Rooms and messages.                                                     *)

(* create_chat_room_service; its check-then-insert of the name is that of  *)
(* EventRooms.                                                             *)
CreateRoom ==
  /\ room = "none"
  /\ room' = "open"
  /\ created' = time
  /\ UNCHANGED <<msgs, posted, time, mark, socket, marking, counting, pager, pass>>

(* send_message_service: a request that began at this instant or the last. *)
SendMessage(t) ==
  /\ t \in {time - 1, time} \cap Time
  /\ Store(t)
  /\ UNCHANGED <<time, mark, socket, marking, counting, pager>>

(* The handshake's reads, after its rollback, begin a transaction.         *)
OpenSocket ==
  /\ room = "open"
  /\ socket = NoRow
  /\ socket' = time
  /\ UNCHANGED <<chat, time, mark, marking, counting, pager, pass>>

(* Mutant of SocketMessage: the loop goes on after the socket's end.       *)
SocketMessageAnyhow ==
  /\ Store(socket)
  /\ socket' = time
  /\ UNCHANGED <<time, mark, marking, counting, pager>>

(* The handler commits the message, and refreshes it in a new transaction. *)
SocketMessage ==
  /\ socket # NoRow
  /\ Store(socket)
  /\ socket' = time
  /\ UNCHANGED <<time, mark, marking, counting, pager>>

CloseSocket ==
  /\ socket # NoRow
  /\ socket' = NoRow
  /\ UNCHANGED <<chat, time, mark, marking, counting, pager, pass>>

(* delete_message_service, by its sender or an organizer.                  *)
DeleteMessage(m) ==
  /\ m \in Stored
  /\ Delete({m})
  /\ mark' = UnsetMark({m})
  /\ UNCHANGED <<room, created, posted, time, socket, marking, pass>>

-----------------------------------------------------------------------------
(* The reader's mark: mark_room_as_read_service.                           *)

FindMark(b, m) ==
  /\ marking[b] = NotMarking /\ ~pager.busy /\ NoneCounts
  /\ room = "open"
  /\ m \in Stored
  /\ marking' = [marking EXCEPT ![b] = [on |-> m, row |-> mark]]
  /\ UNCHANGED <<chat, time, mark, socket, counting, pager, pass>>

(* A row is inserted if none was read, and updated if it differs from what *)
(* was read; the other tab may have inserted it, and the message be gone.  *)
MaySetMark(b) ==
  /\ marking[b].row = NoRow => mark = NoRow
  /\ marking[b].row # NoRow => mark # NoRow
  /\ marking[b].on # marking[b].row => marking[b].on \in Stored

(* Mutant of NewMark: ON CONFLICT DO NOTHING.                              *)
NewMarkIfNone(b) == IF marking[b].row = NoRow THEN marking[b].on ELSE mark

NewMark(b) == IF marking[b].on # marking[b].row THEN marking[b].on ELSE mark

SetMark(b) ==
  /\ marking[b].on # Null
  /\ MaySetMark(b)
  /\ mark' = NewMark(b)
  /\ marking' = [marking EXCEPT ![b] = NotMarking]
  /\ UNCHANGED <<chat, time, socket, counting, pager, pass>>

SetMarkFails(b) ==
  /\ marking[b].on # Null
  /\ ~MaySetMark(b)
  /\ marking' = [marking EXCEPT ![b] = NotMarking]
  /\ UNCHANGED <<chat, time, mark, socket, counting, pager, pass>>

-----------------------------------------------------------------------------
(* get_unread_count_service: the mark, then the count.                     *)

FindMarkToCount ==
  /\ room = "open"
  /\ NoneCounts /\ NoneMarks /\ ~pager.busy
  /\ counting' = [busy |-> TRUE, row |-> mark, lost |-> FALSE]
  /\ UNCHANGED <<chat, time, mark, socket, marking, pager, pass>>

(* Without a mark every message; after a marked one, those dated later: no *)
(* message is later than one that is gone.                                 *)
Unread(row) ==
  IF row \in {NoRow, Null} THEN Stored
  ELSE {m \in Stored : row \in Stored /\ msgs[m].date > msgs[row].date}

CountUnread ==
  /\ counting.busy
  /\ counting' = NotCounting
  /\ UNCHANGED <<chat, time, mark, socket, marking, pager, pass>>

-----------------------------------------------------------------------------
(* list_messages_service: the first page, and the one before a cursor.     *)

(* The newest of S, as many as a page takes.                               *)
Pages(S) ==
  {P \in SUBSET S : /\ Cardinality(P) = PageSize \/ P = S
                    /\ Cardinality(P) <= PageSize
                    /\ \A m \in P, n \in S \ P : ~Older(m, n)}

Oldest(S) == CHOOSE m \in S : \A n \in S \ {m} : ~Older(n, m)

GetPage(S, since) ==
  \E page \in Pages(S) :
    pager' = IF page = {} THEN NotPaging
             ELSE [pager EXCEPT !.busy = TRUE, !.cursor = Oldest(page),
                                !.seen = pager.seen \cup page, !.since = since]

FirstPage ==
  /\ room = "open"
  /\ ~pager.busy /\ NoneCounts /\ NoneMarks
  /\ GetPage(Stored, Stored)
  /\ UNCHANGED <<chat, time, mark, socket, marking, counting, pass>>

(* Nothing is older than a cursor that is gone.                            *)
NextPage ==
  /\ room = "open"
  /\ pager.busy
  /\ GetPage({m \in Stored : pager.cursor \in Stored /\ Older(m, pager.cursor)}, pager.since)
  /\ UNCHANGED <<chat, time, mark, socket, marking, counting, pass>>

-----------------------------------------------------------------------------
(* cleanup_inactive_chat_rooms.                                            *)

(* Mutant of IsStale: any room without recent messages, however new.       *)
IsStaleWhateverItsAge(cutoff) == \A m \in Stored : msgs[m].date < cutoff

IsStale(cutoff) == created < cutoff /\ \A m \in Stored : msgs[m].date < cutoff

SelectRoom ==
  /\ pass.stage = "asleep"
  /\ room = "open"
  /\ IsStale(time - Retention)
  /\ pass' = [NoPass EXCEPT !.stage = "selected", !.cutoff = time - Retention]
  /\ UNCHANGED <<chat, time, mark, socket, marking, counting, pager>>

(* The DELETE of what is there now, seen by others when it commits.        *)
PurgeMessages ==
  /\ pass.stage = "selected"
  /\ pass' = [pass EXCEPT !.stage = "purged", !.doomed = Stored]
  /\ UNCHANGED <<chat, time, mark, socket, marking, counting, pager>>

(* The DELETE of the room, which a message stored since makes fail.        *)
DeleteRoom ==
  /\ pass.stage = "purged"
  /\ Stored \subseteq pass.doomed
  /\ room' = "deleted"
  /\ Delete(Stored)
  /\ mark' = NoRow
  /\ pass' = NoPass
  /\ UNCHANGED <<created, posted, time, socket, marking>>

(* That, or any error or the end of the process.                           *)
PassFails ==
  /\ pass.stage # "asleep"
  /\ pass' = NoPass
  /\ UNCHANGED <<chat, time, mark, socket, marking, counting, pager>>

Tick ==
  /\ time < MaxTime
  /\ time' = time + 1
  /\ UNCHANGED <<chat, mark, socket, marking, counting, pager, pass>>

-----------------------------------------------------------------------------
Next ==
  \/ CreateRoom
  \/ \E t \in Time : SendMessage(t)
  \/ OpenSocket \/ SocketMessage \/ CloseSocket
  \/ \E m \in Message : DeleteMessage(m)
  \/ \E b \in Tab : (\E m \in Message : FindMark(b, m)) \/ SetMark(b) \/ SetMarkFails(b)
  \/ FindMarkToCount \/ CountUnread
  \/ FirstPage \/ NextPage
  \/ SelectRoom \/ PurgeMessages \/ DeleteRoom \/ PassFails
  \/ Tick

Spec == Init /\ [][Next]_vars

-----------------------------------------------------------------------------
(* Properties.                                                             *)

Answered == counting.busy /\ ~counting'.busy

(* A count takes in every message whose transaction began after the marked *)
(* message was stored, however messages and marks come and go, unless that *)
(* message was deleted while it was counting (get_unread_count_service     *)
(* compares dates with a subquery that is NULL for a message that is gone).*)
LaterMessagesCount ==
  [][Answered =>
       \/ counting.lost
       \/ \A m \in Stored :
            (counting.row \in Stored => msgs[m].date > msgs[counting.row].stored)
            => m \in Unread(counting.row)]_vars

(* A mark that was answered stands: the row has the message asked for, or  *)
(* the row was changed by others since the request had read it             *)
(* (mark_room_as_read_service, with two tabs and deletions in between).    *)
AnsweredMarksStand ==
  [][\A b \in Tab : marking[b] # NotMarking /\ marking'[b] = NotMarking =>
       \/ mark' = marking[b].on
       \/ mark # marking[b].row
       \/ marking[b].on \notin Stored]_vars

(* Whoever pages back to the end has seen all that was there from the      *)
(* first page on, unless the cursor was deleted before the next page       *)
(* (list_messages_paginated).                                              *)
PagesAreComplete ==
  [][pager.busy /\ ~pager'.busy => pager.lost \/ pager.since \subseteq pager.seen]_vars

(* A room is deleted only if it is a month old and nobody has written for  *)
(* a month, but for what was stored after it was selected, or was dated    *)
(* before it was stored (cleanup_inactive_chat_rooms selects, purges and   *)
(* deletes in separate statements).                                        *)
OnlyQuietRoomsGo ==
  [][room = "open" /\ room' = "deleted" =>
       /\ created < pass.cutoff
       /\ \A m \in Stored :
            \/ msgs[m].stored < pass.cutoff
            \/ m \in pass.late
            \/ msgs[m].date < msgs[m].stored]_vars

=============================================================================
