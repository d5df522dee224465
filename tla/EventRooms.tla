----------------------------- MODULE EventRooms -----------------------------
(***************************************************************************)
(* The events of one club and the chat rooms that come and go with them:   *)
(* creating, editing, rescheduling and cancelling an event, opening and    *)
(* deleting its room, and the hourly pass that counts a room down and      *)
(* deletes it (app/routers/events.py, create_event_service in              *)
(* app/services/club_service.py, app/services/chat_service.py,             *)
(* app/tasks/cleanup.py).                                                  *)
(*                                                                         *)
(* Requests come from organizers; who is one is ClubMembership's matter.   *)
(* A request reads the event, works on the ORM object it got, and commits  *)
(* later: only the attributes it changed are written.  Transactions are    *)
(* READ COMMITTED and other requests, the pass and time itself may go on   *)
(* between two steps.                                                      *)
(***************************************************************************)
EXTENDS Integers, FiniteSets

CONSTANTS
  Event, Room, Title,
  Request,      \* slots for requests in flight
  Cleaner,      \* the clean-up task
  Horizon,      \* bound: the last instant of the run
  MaxMishaps,   \* bound: how often the pass is broken off or beaten by a message
  Date,         \* the dates events are given
  DayOf,        \* the UTC day of an instant
  Grace         \* _EVENT_CHAT_GRACE_PERIOD

Instant == 0 .. Horizon

ASSUME TimeAssumption ==
  /\ Horizon \in Nat /\ MaxMishaps \in Nat /\ Grace \in Nat \ {0}
  /\ Date \subseteq Nat
  /\ DayOf \in [Instant -> Int]
  /\ \A s, t \in Instant : s <= t => DayOf[s] <= DayOf[t]
ASSUME CleanerAssumption == Cleaner \notin Request

Status == {"scheduled", "cancelled", "rescheduled"}
EventRow == [title : Title, date : Date, status : Status]
NoEvent == [title |-> "none", date |-> -1, status |-> "none"]

(* The attributes an UPDATE sets; those it does not are as in NoEvent.     *)
Sets == [title : Title \cup {"none"}, date : Date \cup {-1}, status : Status \cup {"none"}]

Call == [op : {"none", "open", "update", "reschedule", "cancel", "drop"},
         stage : {"idle", "read", "absent", "cleared"},
         of : Event \cup {"none"},
         sets : Sets]

Pass == [stage : {"idle", "started", "posting", "cleared"},
         now : Instant, tx : Instant,
         todo : SUBSET Room, doomed : SUBSET Room, moved : SUBSET Event]

VARIABLES
  clock,
  event,      \* the rows of events, or NoEvent
  titles,     \* history: every title an event has had
  live,       \* the ids of the rows of chat_rooms
  used,       \* the ids ever given out
  roomOf,     \* chat_rooms.event_id
  nameOf,     \* chat_rooms.name, by the title it was made from
  said,       \* how many countdown messages of a room bear which timestamp
  call,       \* requests in flight
  pass,       \* the clean-up pass
  cleared,    \* per transaction: rooms whose messages and bans it has deleted
  late,       \* ... and those of them that were written to after that
  mishaps

rooms == <<live, used, roomOf, nameOf, said>>
vars == <<clock, event, titles, rooms, call, pass, cleared, late, mishaps>>

Deleter == Request \cup {Cleaner}
Silent == [t \in Instant |-> 0]
IdleCall == [op |-> "none", stage |-> "idle", of |-> "none", sets |-> NoEvent]
IdlePass == [stage |-> "idle", now |-> 0, tx |-> 0, todo |-> {}, doomed |-> {}, moved |-> {}]

(* Events may be older than the rooms: those have none until one is asked  *)
(* for (get_or_create_event_chat_room).                                    *)
Init ==
  /\ clock = 0 /\ mishaps = 0
  /\ event \in [Event -> {row \in EventRow : row.status = "scheduled"} \cup {NoEvent}]
  /\ titles = [e \in Event |-> IF event[e] = NoEvent THEN {} ELSE {event[e].title}]
  /\ live = {} /\ used = {}
  /\ roomOf = [rm \in Room |-> "none"]
  /\ nameOf = [rm \in Room |-> "none"]
  /\ said = [rm \in Room |-> Silent]
  /\ call = [r \in Request |-> IdleCall]
  /\ pass = IdlePass
  /\ cleared = [d \in Deleter |-> {}]
  /\ late = [d \in Deleter |-> {}]

(* Only the type of the state.                                             *)
TypeOK ==
  /\ clock \in Instant /\ mishaps \in 0 .. MaxMishaps
  /\ event \in [Event -> EventRow \cup {NoEvent}]
  /\ titles \in [Event -> SUBSET Title]
  /\ live \in SUBSET Room /\ used \in SUBSET Room
  /\ roomOf \in [Room -> Event \cup {"none"}]
  /\ nameOf \in [Room -> Title \cup {"none"}]
  /\ said \in [Room -> [Instant -> Nat]]
  /\ call \in [Request -> Call]
  /\ pass \in Pass
  /\ cleared \in [Deleter -> SUBSET Room]
  /\ late \in [Deleter -> SUBSET Room]

---------------------------------------------------------------------------
(* Rooms.                                                                  *)

RoomsOf(e) == {rm \in live : roomOf[rm] = e}

(* Mutant of NameFree: no unique constraint on the name.                   *)
AnyName(t) == t \in Title

NameFree(t) == \A rm \in live : nameOf[rm] # t     \* uq_chat_rooms_club_name

(* A row is inserted into chat_rooms, with an id never given out before.   *)
InsertRoom(e, t) ==
  \E rm \in Room \ used :
    /\ used' = used \cup {rm}
    /\ live' = live \cup {rm}
    /\ roomOf' = [roomOf EXCEPT ![rm] = e]
    /\ nameOf' = [nameOf EXCEPT ![rm] = t]
    /\ UNCHANGED said

(* The children of the rooms R are deleted, in a transaction still open.   *)
ClearChildren(d, R) == cleared' = [cleared EXCEPT ![d] = R]

(* A child of rm is committed: whoever has cleared the room has missed it. *)
AddChild(rm) ==
  late' = [d \in Deleter |-> IF rm \in cleared[d] THEN late[d] \cup {rm} ELSE late[d]]

(* The cleared rooms are deleted.  A child that came late refers to its    *)
(* room: the statement then fails (RollBack).                              *)
DeleteRooms(d) ==
  /\ late[d] = {}
  /\ live' = live \ cleared[d]
  /\ roomOf' = [rm \in Room |-> IF rm \in cleared[d] THEN "none" ELSE roomOf[rm]]
  /\ nameOf' = [rm \in Room |-> IF rm \in cleared[d] THEN "none" ELSE nameOf[rm]]
  /\ said' = [rm \in Room |-> IF rm \in cleared[d] THEN Silent ELSE said[rm]]
  /\ late' = [x \in Deleter |-> late[x] \ cleared[d]]
  /\ cleared' = [cleared EXCEPT ![d] = {}]
  /\ UNCHANGED used

RollBack(d) ==
  /\ cleared' = [cleared EXCEPT ![d] = {}]
  /\ late' = [late EXCEPT ![d] = {}]
  /\ UNCHANGED rooms

NoDeletion == UNCHANGED <<cleared, late>>

(* A user's message, or a ban, is stored in a room being deleted.  At any  *)
(* other time it makes no difference to anything here.                     *)
WriteLate(rm) ==
  /\ rm \in live
  /\ \E d \in Deleter : rm \in cleared[d] \ late[d]
  /\ mishaps < MaxMishaps /\ mishaps' = mishaps + 1
  /\ AddChild(rm)
  /\ UNCHANGED <<clock, event, titles, rooms, call, pass, cleared>>

(* Mutant of DeleteMessage: of a message that is not there.                *)
DeleteAnyMessage(rm, t) ==
  /\ rm \in live
  /\ said' = [said EXCEPT ![rm][t] = @ - 1]
  /\ UNCHANGED <<clock, event, titles, live, used, roomOf, nameOf, call, pass,
                 cleared, late, mishaps>>

(* An organizer deletes a countdown message.                               *)
DeleteMessage(rm, t) ==
  /\ rm \in live /\ said[rm][t] > 0
  /\ said' = [said EXCEPT ![rm][t] = @ - 1]
  /\ UNCHANGED <<clock, event, titles, live, used, roomOf, nameOf, call, pass,
                 cleared, late, mishaps>>

---------------------------------------------------------------------------
(* Requests.                                                               *)

Finish(r) == call' = [call EXCEPT ![r] = IdleCall]
Advance(r, s) == call' = [call EXCEPT ![r].stage = s]
At(r, o, s) == call[r].op = o /\ call[r].stage = s

(* create_event_service: the event and its room in one transaction.  With  *)
(* the name taken the whole request fails and nothing changes.             *)
CreateEvent(e, row) ==
  /\ event[e] = NoEvent
  /\ NameFree(row.title)
  /\ event' = [event EXCEPT ![e] = row]
  /\ titles' = [titles EXCEPT ![e] = {row.title}]
  /\ InsertRoom(e, row.title)
  /\ UNCHANGED <<clock, call, pass, mishaps>> /\ NoDeletion

(* What the ORM will write of the attributes a request assigns to the      *)
(* event it read: those whose value is another than the one read.          *)
Changes(read, object) ==
  [title  |-> IF object.title  = read.title  THEN NoEvent.title  ELSE object.title,
   date   |-> IF object.date   = read.date   THEN NoEvent.date   ELSE object.date,
   status |-> IF object.status = read.status THEN NoEvent.status ELSE object.status]

(* The row after the UPDATE: other attributes stay as they are by now.     *)
Updated(row, sets) ==
  [title  |-> IF sets.title  = NoEvent.title  THEN row.title  ELSE sets.title,
   date   |-> IF sets.date   = NoEvent.date   THEN row.date   ELSE sets.date,
   status |-> IF sets.status = NoEvent.status THEN row.status ELSE sets.status]

(* A request reads its event and assigns to it.                            *)
Begin(r, o, e, sets) ==
  /\ call[r] = IdleCall
  /\ event[e] # NoEvent
  /\ call' = [call EXCEPT ![r] = [op |-> o, stage |-> "read", of |-> e, sets |-> sets]]
  /\ UNCHANGED <<clock, event, titles, rooms, pass, mishaps>> /\ NoDeletion

BeginUpdate(r, e, t, d) ==
  Begin(r, "update", e, Changes(event[e], [event[e] EXCEPT !.title = t, !.date = d]))
BeginReschedule(r, e, d) ==
  Begin(r, "reschedule", e,
        Changes(event[e], [event[e] EXCEPT !.date = d, !.status = "rescheduled"]))
BeginCancel(r, e) ==
  Begin(r, "cancel", e, Changes(event[e], [event[e] EXCEPT !.status = "cancelled"]))

(* Opening a room assigns nothing, but keeps the title it read.            *)
BeginOpen(r, e) == Begin(r, "open", e, [NoEvent EXCEPT !.title = event[e].title])

(* pass.moved is a history: the events whose date changed since the pass   *)
(* in progress looked.                                                     *)
WriteEvent(r) ==
  LET e == call[r].of
      row == Updated(event[e], call[r].sets)
  IN  /\ event' = [event EXCEPT ![e] = row]
      /\ titles' = [titles EXCEPT ![e] = @ \cup {row.title}]
      /\ pass' = [pass EXCEPT !.moved =
           IF pass.stage \in {"posting", "cleared"} /\ row.date # event[e].date
           THEN @ \cup {e} ELSE @]

(* update_event and reschedule_event end.                                  *)
SaveEvent(r) ==
  /\ At(r, "update", "read") \/ At(r, "reschedule", "read")
  /\ WriteEvent(r)
  /\ Finish(r)
  /\ UNCHANGED <<clock, rooms, mishaps>> /\ NoDeletion

(* cancel_event empties the event's room; scalar_one_or_none raises when   *)
(* there are two.                                                          *)
ClearForCancel(r) ==
  /\ At(r, "cancel", "read")
  /\ Cardinality(RoomsOf(call[r].of)) <= 1
  /\ ClearChildren(r, RoomsOf(call[r].of))
  /\ Advance(r, "cleared")
  /\ UNCHANGED <<clock, event, titles, rooms, pass, late, mishaps>>

CommitCancel(r) ==
  /\ At(r, "cancel", "cleared")
  /\ WriteEvent(r)
  /\ DeleteRooms(r)
  /\ Finish(r)
  /\ UNCHANGED <<clock, mishaps>>

(* delete_chat_room_service.                                               *)
ClearForDrop(r, rm) ==
  /\ call[r] = IdleCall
  /\ rm \in live
  /\ ClearChildren(r, {rm})
  /\ call' = [call EXCEPT ![r].op = "drop", ![r].stage = "cleared"]
  /\ UNCHANGED <<clock, event, titles, rooms, pass, late, mishaps>>

CommitDrop(r) ==
  /\ At(r, "drop", "cleared")
  /\ DeleteRooms(r)
  /\ Finish(r)
  /\ UNCHANGED <<clock, event, titles, pass, mishaps>>

(* create_event_chat_room_service: look for a room of the event ...        *)
FindRoom(r) ==
  /\ At(r, "open", "read")
  /\ IF RoomsOf(call[r].of) = {} THEN Advance(r, "absent") ELSE Finish(r)
  /\ UNCHANGED <<clock, event, titles, rooms, pass, mishaps>> /\ NoDeletion

(* ... and make one, named after the title that was read.                  *)
OpenRoom(r) ==
  /\ At(r, "open", "absent")
  /\ NameFree(call[r].sets.title)
  /\ InsertRoom(call[r].of, call[r].sets.title)
  /\ Finish(r)
  /\ UNCHANGED <<clock, event, titles, pass, mishaps>> /\ NoDeletion

(* A request fails: the name is taken, a late child, two rooms, a database *)
(* error.                                                                  *)
Abort(r) ==
  /\ call[r] # IdleCall
  /\ RollBack(r)
  /\ Finish(r)
  /\ UNCHANGED <<clock, event, titles, pass, mishaps>>

---------------------------------------------------------------------------
(* run_event_chat_lifecycle_pass.  `now' is fixed at its start; tx is the  *)
(* instant its current transaction began, which is what func.now() gives.  *)

(* Mutant of Expired: the grace period is left out.                        *)
ExpiredAtOnce(rm, t) == t >= event[roomOf[rm]].date

Expired(rm, t) == t >= event[roomOf[rm]].date + Grace

(* Mutant of AlreadyPostedToday: since now, not since midnight.            *)
AlreadyPostedSince(rm) == \E t \in Instant : said[rm][t] > 0 /\ t >= pass.now

AlreadyPostedToday(rm) == \E t \in Instant : said[rm][t] > 0 /\ DayOf[t] >= DayOf[pass.now]

(* Mutant of StartPass: an exception ends the loop of the task.            *)
StartPassUntilError ==
  /\ pass.stage = "idle" /\ mishaps = 0
  /\ pass' = [pass EXCEPT !.stage = "started", !.now = clock]
  /\ UNCHANGED <<clock, event, titles, rooms, call, mishaps>> /\ NoDeletion

StartPass ==
  /\ pass.stage = "idle"
  /\ pass' = [pass EXCEPT !.stage = "started", !.now = clock]
  /\ UNCHANGED <<clock, event, titles, rooms, call, mishaps>> /\ NoDeletion

SelectRooms ==
  /\ pass.stage = "started"
  /\ LET over == {rm \in live : event[roomOf[rm]].date < pass.now}
         expired == {rm \in over : Expired(rm, pass.now)}
     IN  pass' = [pass EXCEPT !.stage = "posting", !.tx = clock,
                              !.todo = over \ expired, !.doomed = expired]
  /\ UNCHANGED <<clock, event, titles, rooms, call, mishaps>> /\ NoDeletion

SkipCountdown(rm) ==
  /\ pass.stage = "posting" /\ rm \in pass.todo
  /\ AlreadyPostedToday(rm)
  /\ pass' = [pass EXCEPT !.todo = @ \ {rm}]
  /\ UNCHANGED <<clock, event, titles, rooms, call, mishaps>> /\ NoDeletion

(* Inserted and committed; the refresh begins the next transaction.        *)
PostCountdown(rm) ==
  /\ pass.stage = "posting" /\ rm \in pass.todo
  /\ ~AlreadyPostedToday(rm)
  /\ rm \in live
  /\ said' = [said EXCEPT ![rm][pass.tx] = @ + 1]
  /\ AddChild(rm)
  /\ pass' = [pass EXCEPT !.todo = @ \ {rm}, !.tx = clock]
  /\ UNCHANGED <<clock, event, titles, live, used, roomOf, nameOf, call, cleared, mishaps>>

EndPass == pass' = IdlePass

(* The room is gone: the insert fails and the exception ends the pass.     *)
CountdownFails(rm) ==
  /\ pass.stage = "posting" /\ rm \in pass.todo
  /\ rm \notin live
  /\ EndPass
  /\ UNCHANGED <<clock, event, titles, rooms, call, mishaps>> /\ NoDeletion

NothingToDelete ==
  /\ pass.stage = "posting" /\ pass.todo = {} /\ pass.doomed = {}
  /\ EndPass
  /\ UNCHANGED <<clock, event, titles, rooms, call, mishaps>> /\ NoDeletion

ClearDoomed ==
  /\ pass.stage = "posting" /\ pass.todo = {} /\ pass.doomed # {}
  /\ ClearChildren(Cleaner, pass.doomed)
  /\ pass' = [pass EXCEPT !.stage = "cleared"]
  /\ UNCHANGED <<clock, event, titles, rooms, call, late, mishaps>>

DeleteDoomed ==
  /\ pass.stage = "cleared"
  /\ DeleteRooms(Cleaner)
  /\ EndPass
  /\ UNCHANGED <<clock, event, titles, call, mishaps>>

DeleteDoomedFails ==
  /\ pass.stage = "cleared" /\ late[Cleaner] # {}
  /\ RollBack(Cleaner)
  /\ EndPass
  /\ UNCHANGED <<clock, event, titles, call, mishaps>>

(* A database error, or the process is stopped and started again.          *)
BreakOff ==
  /\ pass.stage # "idle"
  /\ mishaps < MaxMishaps /\ mishaps' = mishaps + 1
  /\ RollBack(Cleaner)
  /\ EndPass
  /\ UNCHANGED <<clock, event, titles, call>>

PassStep ==
  \/ StartPass
  \/ SelectRooms
  \/ \E rm \in Room : SkipCountdown(rm) \/ PostCountdown(rm) \/ CountdownFails(rm)
  \/ NothingToDelete
  \/ ClearDoomed
  \/ DeleteDoomed
  \/ DeleteDoomedFails

RequestStep(r) ==
  \/ \E e \in Event : \/ BeginOpen(r, e)
                      \/ BeginCancel(r, e)
                      \/ \E d \in Date : BeginReschedule(r, e, d)
                      \/ \E t \in Title, d \in Date : BeginUpdate(r, e, t, d)
  \/ SaveEvent(r)
  \/ ClearForCancel(r)
  \/ CommitCancel(r)
  \/ \E rm \in Room : ClearForDrop(r, rm)
  \/ CommitDrop(r)
  \/ FindRoom(r)
  \/ OpenRoom(r)
  \/ Abort(r)

Tick ==
  /\ clock < Horizon /\ clock' = clock + 1
  /\ UNCHANGED <<event, titles, rooms, call, pass, mishaps>> /\ NoDeletion

Next ==
  \/ \E e \in Event, t \in Title, d \in Date :
       CreateEvent(e, [title |-> t, date |-> d, status |-> "scheduled"])
  \/ \E r \in Request : RequestStep(r)
  \/ \E rm \in Room : WriteLate(rm)
  \/ \E rm \in Room, t \in Instant : DeleteMessage(rm, t)
  \/ PassStep
  \/ BreakOff
  \/ Tick

Spec == Init /\ [][Next]_vars

(* The task's loop goes on for ever and survives every exception.          *)
FairSpec == Spec /\ WF_vars(PassStep)

---------------------------------------------------------------------------
(* Properties.                                                             *)

(* A room never holds two countdown messages of one day: neither passes    *)
(* that roll over midnight nor repeated passes after an error post twice   *)
(* (app/tasks/cleanup.py, docstring of cleanup_expired_event_chat_rooms).  *)
OneCountdownPerDay ==
  \A rm \in Room : \A s, t \in Instant :
    said[rm][s] > 0 /\ said[rm][t] > 0 /\ DayOf[s] = DayOf[t] => s = t /\ said[rm][s] = 1

(* What keeps an event from having two rooms, with nothing unique about    *)
(* event_id, is the name: there are two at once only if the event's title  *)
(* was changed, the second having been named after another title           *)
(* (get_or_create_event_chat_room, app/services/chat_service.py:311).      *)
TwoRoomsOnlyIfRenamed ==
  \A e \in Event : \A rm1, rm2 \in RoomsOf(e) :
    rm1 # rm2 => \E s, t \in titles[e] : s # t

GraceIsOver(rm) == clock >= event[roomOf[rm]].date + Grace

(* The room the pass deletes is past its grace period, unless its event    *)
(* was moved after the pass looked at the date.                            *)
RoomsOutliveTheGrace ==
  [][pass.stage = "cleared" /\ pass'.stage = "idle" =>
       \A rm \in live \ live' : GraceIsOver(rm) \/ roomOf[rm] \in pass.moved]_vars

(* A room whose grace period is over does not stay, whatever late          *)
(* messages, errors and restarts its deletion runs into.                   *)
ExpiredRoomsGo ==
  \A rm \in Room :
    (rm \in live /\ GraceIsOver(rm)) ~> (rm \notin live \/ ~GraceIsOver(rm))
=============================================================================
