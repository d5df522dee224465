-------------------------- MODULE EventRoomsProofs --------------------------
(***************************************************************************)
(* Proofs about EventRooms, for any events, rooms, requests, dates, days   *)
(* and grace period.                                                       *)
(*                                                                         *)
(* The argument.  Names: a room is named after a title its event has had   *)
(* (an opener remembers one, CallShape), and names of rooms that are there *)
(* at once differ (NamesDiffer), so two rooms of an event take two titles. *)
(* Countdowns: tx, which dates the next message, is never before now,      *)
(* which says what "today" is (PassClock), so a message that finds nothing *)
(* since the midnight before now is the first of the day it bears.         *)
(* Deletion: a doomed room stays over its date unless that date is moved   *)
(* (DoomedAreOver), because ids are never given out twice (LiveRooms).     *)
(***************************************************************************)
EXTENDS EventRooms, TLAPS

EventTitled ==
  \A e \in Event : event[e] # NoEvent => event[e].title \in titles[e]

CallShape ==
  \A r \in Request : call[r].op \in {"open", "update", "reschedule", "cancel"} =>
    /\ call[r].of \in Event
    /\ event[call[r].of] # NoEvent
    /\ call[r].op = "open" => call[r].sets.title \in titles[call[r].of]

LiveRooms ==
  /\ live \subseteq used
  /\ \A rm \in live :
       /\ roomOf[rm] \in Event
       /\ event[roomOf[rm]] # NoEvent
       /\ nameOf[rm] \in titles[roomOf[rm]]

NamesDiffer ==
  \A rm1, rm2 \in live : nameOf[rm1] = nameOf[rm2] => rm1 = rm2

PassClock ==
  /\ pass.stage # "idle" => pass.now <= clock
  /\ pass.stage = "posting" => pass.now <= pass.tx

PassRooms ==
  /\ pass.doomed \subseteq used
  /\ cleared[Cleaner] = IF pass.stage = "cleared" THEN pass.doomed ELSE {}

DoomedAreOver ==
  pass.stage \in {"posting", "cleared"} =>
    \A rm \in pass.doomed \cap live : GraceIsOver(rm) \/ roomOf[rm] \in pass.moved

IInv ==
  /\ TypeOK
  /\ EventTitled
  /\ CallShape
  /\ LiveRooms
  /\ NamesDiffer
  /\ OneCountdownPerDay
  /\ PassClock
  /\ PassRooms
  /\ DoomedAreOver

---------------------------------------------------------------------------
(* The helpers.                                                            *)

LEMMA RowIsThere == \A row \in EventRow : row # NoEvent
BY DEF EventRow, NoEvent, Status

LEMMA IdleTyped == IdleCall \in Call /\ (0 \in Instant => IdlePass \in Pass)
BY DEF IdleCall, Call, Sets, NoEvent, IdlePass, Pass

LEMMA EditTyped ==
  ASSUME NEW c \in Call
  PROVE  /\ [c EXCEPT !.op = "drop", !.stage = "cleared"] \in Call
         /\ [c EXCEPT !.stage = "absent"] \in Call
BY DEF Call

(* From here on the types of a request and of the pass are seen through.   *)
USE DEF Call, Pass

(* What an object lost of its attributes still types.                      *)
LEMMA ChangesTyped ==
  ASSUME NEW read, NEW object \in EventRow
  PROVE  Changes(read, object) \in Sets
BY DEF Changes, EventRow, NoEvent, Sets

LEMMA UpdatedTyped ==
  ASSUME NEW row \in EventRow, NEW sets \in Sets
  PROVE  Updated(row, sets) \in EventRow
BY DEF Updated, EventRow, NoEvent, Sets

(* What the UPDATE at the end of a request leaves: a row for every event   *)
(* that had one, titles only added, and a note of every date that changed  *)
(* under the pass.                                                         *)
LEMMA WriteEventFacts ==
  ASSUME TypeOK, CallShape, EventTitled, NEW r \in Request,
         call[r].op \in {"update", "reschedule", "cancel"}, WriteEvent(r)
  PROVE  /\ event' \in [Event -> EventRow \cup {NoEvent}]
         /\ titles' \in [Event -> SUBSET Title]
         /\ \A e \in Event :
              /\ event[e] # NoEvent => event'[e] # NoEvent
              /\ titles[e] \subseteq titles'[e]
              /\ event'[e] # NoEvent => event'[e].title \in titles'[e]
         /\ pass' = [pass EXCEPT !.moved = pass'.moved]
         /\ pass'.moved \in SUBSET Event
         /\ pass.moved \subseteq pass'.moved
         /\ pass.stage \in {"posting", "cleared"} =>
              \A e \in Event : event'[e].date = event[e].date \/ e \in pass'.moved
PROOF
<1> DEFINE e0 == call[r].of
           row == Updated(event[e0], call[r].sets)
<1>1. e0 \in Event /\ event[e0] # NoEvent
  BY DEF CallShape
<1>2. call[r].sets \in Sets
  BY DEF TypeOK
<1>3. row \in EventRow
  BY <1>1, <1>2, UpdatedTyped DEF TypeOK
<1>4. row # NoEvent /\ row.title \in Title
  BY <1>3, RowIsThere DEF EventRow
<1>5. /\ event' = [event EXCEPT ![e0] = row]
      /\ titles' = [titles EXCEPT ![e0] = @ \cup {row.title}]
      /\ pass' = [pass EXCEPT !.moved =
           IF pass.stage \in {"posting", "cleared"} /\ row.date # event[e0].date
           THEN @ \cup {e0} ELSE @]
  BY DEF WriteEvent
<1> HIDE DEF e0, row
<1>6. /\ pass' = [pass EXCEPT !.moved = pass'.moved]
      /\ pass'.moved \in SUBSET Event
      /\ pass.moved \subseteq pass'.moved
      /\ pass.stage \in {"posting", "cleared"} /\ row.date # event[e0].date => e0 \in pass'.moved
  BY <1>1, <1>5 DEF TypeOK
<1>7. \A e \in Event : event'[e] = IF e = e0 THEN row ELSE event[e]
  BY <1>5 DEF TypeOK
<1>8. \A e \in Event : titles'[e] = IF e = e0 THEN titles[e0] \cup {row.title} ELSE titles[e]
  BY <1>5 DEF TypeOK
<1>9. event' \in [Event -> EventRow \cup {NoEvent}] /\ titles' \in [Event -> SUBSET Title]
  BY <1>3, <1>4, <1>5 DEF TypeOK
<1> QED
  BY <1>1, <1>4, <1>6, <1>7, <1>8, <1>9 DEF EventTitled

(* Deleting rooms takes the cleared ones away and leaves the others alone. *)
LEMMA DeleteRoomsFacts ==
  ASSUME TypeOK, OneCountdownPerDay, NEW d \in Deleter, DeleteRooms(d)
  PROVE  /\ live' = live \ cleared[d]
         /\ used' = used
         /\ \A rm \in live' : roomOf'[rm] = roomOf[rm] /\ nameOf'[rm] = nameOf[rm]
         /\ live' \in SUBSET Room
         /\ roomOf' \in [Room -> Event \cup {"none"}]
         /\ nameOf' \in [Room -> Title \cup {"none"}]
         /\ said' \in [Room -> [Instant -> Nat]]
         /\ late' \in [Deleter -> SUBSET Room]
         /\ cleared' \in [Deleter -> SUBSET Room]
         /\ \A x \in Deleter : cleared'[x] = IF x = d THEN {} ELSE cleared[x]
         /\ OneCountdownPerDay'
PROOF
<1>1. Silent \in [Instant -> Nat] /\ \A t \in Instant : Silent[t] = 0
  BY DEF Silent
<1>2. \A rm \in Room : said'[rm] = IF rm \in cleared[d] THEN Silent ELSE said[rm]
  BY DEF DeleteRooms
<1>3. OneCountdownPerDay'
  <2> SUFFICES ASSUME NEW rm \in Room, NEW s \in Instant, NEW t \in Instant,
                      said'[rm][s] > 0, said'[rm][t] > 0, DayOf[s] = DayOf[t]
               PROVE  s = t /\ said'[rm][s] = 1
    BY DEF OneCountdownPerDay
  <2>1. said'[rm] = said[rm]
    BY <1>1, <1>2
  <2> QED
    BY <2>1 DEF OneCountdownPerDay
<1>4. said' \in [Room -> [Instant -> Nat]]
  BY <1>1 DEF DeleteRooms, TypeOK
<1> QED
  BY <1>3, <1>4 DEF DeleteRooms, TypeOK

(* A room is inserted under an id that was in nobody's hands.              *)
LEMMA InsertRoomFacts ==
  ASSUME TypeOK, NEW e \in Event, NEW t \in Title, InsertRoom(e, t)
  PROVE  \E rm \in Room \ used :
           /\ live' = live \cup {rm} /\ used' = used \cup {rm}
           /\ roomOf' \in [Room -> Event \cup {"none"}]
           /\ nameOf' \in [Room -> Title \cup {"none"}]
           /\ roomOf'[rm] = e /\ nameOf'[rm] = t
           /\ \A x \in Room \ {rm} : roomOf'[x] = roomOf[x] /\ nameOf'[x] = nameOf[x]
           /\ said' = said
BY DEF InsertRoom, TypeOK

LEMMA RollBackFacts ==
  ASSUME TypeOK, NEW d \in Deleter, RollBack(d)
  PROVE  /\ cleared' \in [Deleter -> SUBSET Room]
         /\ late' \in [Deleter -> SUBSET Room]
         /\ \A x \in Deleter : cleared'[x] = IF x = d THEN {} ELSE cleared[x]
         /\ UNCHANGED <<live, used, roomOf, nameOf, said>>
BY DEF RollBack, rooms, TypeOK

---------------------------------------------------------------------------
(* The invariant.                                                          *)

LEMMA InitIInv == Init => IInv
PROOF
<1> SUFFICES ASSUME Init PROVE IInv
  OBVIOUS
<1>1. 0 \in Instant /\ 0 \in 0 .. MaxMishaps
  BY TimeAssumption DEF Instant
<1>2. Silent \in [Instant -> Nat] /\ \A t \in Instant : Silent[t] = 0
  BY DEF Silent
<1>3. TypeOK
  <2>1. event \in [Event -> EventRow \cup {NoEvent}]
    BY DEF Init
  <2>2. titles \in [Event -> SUBSET Title]
    <3>1. \A e \in Event : event[e] # NoEvent => event[e].title \in Title
      BY <2>1 DEF EventRow
    <3> QED
      BY <3>1 DEF Init
  <2> QED
    BY <1>1, <1>2, <2>1, <2>2, IdleTyped DEF Init, TypeOK
<1>4. OneCountdownPerDay
  BY <1>2 DEF Init, OneCountdownPerDay
<1>5. Cleaner \in Deleter
  BY DEF Deleter
<1> QED
  BY <1>3, <1>4, <1>5
  DEF Init, IInv, EventTitled, CallShape, LiveRooms, NamesDiffer, PassClock,
      PassRooms, DoomedAreOver, IdleCall, IdlePass

(* The event of a room that is there has a row, and the row a date.        *)
LEMMA LiveDates ==
  ASSUME IInv PROVE \A rm \in live : event[roomOf[rm]].date \in Int
PROOF
<1>1. Date \subseteq Int
  BY TimeAssumption
<1>2. \A e \in Event : event[e] # NoEvent => event[e].date \in Int
  BY <1>1 DEF IInv, TypeOK, EventRow
<1> QED
  BY <1>2 DEF IInv, LiveRooms

(* Steps that touch neither an event nor a room, nor a request but to end  *)
(* it or move it on.                                                       *)
LEMMA TablesKept ==
  ASSUME IInv, UNCHANGED <<event, titles, rooms>>,
         \/ call' = call
         \/ \E r \in Request : Finish(r) \/ \E s \in {"absent", "cleared"} : Advance(r, s)
  PROVE  EventTitled' /\ CallShape' /\ LiveRooms' /\ NamesDiffer' /\ OneCountdownPerDay'
PROOF
<1> DEFINE EndedOrSame(q) == \/ call'[q].op = "none"
                             \/ /\ call'[q].op = call[q].op
                                /\ call'[q].of = call[q].of
                                /\ call'[q].sets = call[q].sets
<1>1. \A q \in Request : EndedOrSame(q)
  <2>1. CASE call' = call
    BY <2>1
  <2>2. ASSUME NEW r \in Request, Finish(r) PROVE \A q \in Request : EndedOrSame(q)
    BY <2>2 DEF IInv, TypeOK, Finish, IdleCall
  <2>3. ASSUME NEW r \in Request, NEW s \in {"absent", "cleared"}, Advance(r, s)
        PROVE  \A q \in Request : EndedOrSame(q)
    BY <2>3 DEF IInv, TypeOK, Advance
  <2> QED
    BY <2>1, <2>2, <2>3
<1>2. CallShape'
  BY <1>1 DEF IInv, CallShape
<1> QED
  BY <1>2 DEF IInv, EventTitled, LiveRooms, NamesDiffer, OneCountdownPerDay, rooms

(* Deleting rooms, for a request or for the pass.                          *)
LEMMA RoomsDeleted ==
  ASSUME IInv, NEW d \in Deleter, DeleteRooms(d),
         event' \in [Event -> EventRow \cup {NoEvent}],
         \A e \in Event : /\ event[e] # NoEvent => event'[e] # NoEvent
                          /\ titles[e] \subseteq titles'[e]
  PROVE  LiveRooms' /\ NamesDiffer' /\ OneCountdownPerDay'
PROOF
<1>1. /\ live' = live \ cleared[d]
      /\ used' = used
      /\ \A rm \in live' : roomOf'[rm] = roomOf[rm] /\ nameOf'[rm] = nameOf[rm]
      /\ OneCountdownPerDay'
  BY DeleteRoomsFacts DEF IInv
<1>2. LiveRooms'
  BY <1>1 DEF IInv, LiveRooms
<1>3. NamesDiffer'
  BY <1>1 DEF IInv, NamesDiffer
<1> QED
  BY <1>1, <1>2, <1>3

(* A room is inserted for an event that is there.                          *)
LEMMA RoomInserted ==
  ASSUME IInv, NEW e \in Event, NEW t \in Title, InsertRoom(e, t), NameFree(t),
         event'[e] # NoEvent, t \in titles'[e],
         \A x \in Event \ {e} : event'[x] = event[x] /\ titles'[x] = titles[x],
         event[e] # NoEvent => event'[e] = event[e] /\ titles'[e] = titles[e],
         pass' = pass, cleared' = cleared, clock' = clock
  PROVE  /\ live' \in SUBSET Room /\ used' \in SUBSET Room
         /\ roomOf' \in [Room -> Event \cup {"none"}]
         /\ nameOf' \in [Room -> Title \cup {"none"}]
         /\ said' = said
         /\ LiveRooms' /\ NamesDiffer' /\ OneCountdownPerDay'
         /\ PassClock' /\ PassRooms' /\ DoomedAreOver'
PROOF
<1>1. PICK rm \in Room \ used :
        /\ live' = live \cup {rm} /\ used' = used \cup {rm}
        /\ roomOf' \in [Room -> Event \cup {"none"}]
        /\ nameOf' \in [Room -> Title \cup {"none"}]
        /\ roomOf'[rm] = e /\ nameOf'[rm] = t
        /\ \A x \in Room \ {rm} : roomOf'[x] = roomOf[x] /\ nameOf'[x] = nameOf[x]
        /\ said' = said
  BY InsertRoomFacts DEF IInv
<1>2. live \subseteq Room /\ live \subseteq used /\ used \subseteq Room
  BY DEF IInv, TypeOK, LiveRooms
<1>3. \A x \in live : /\ roomOf'[x] = roomOf[x] /\ nameOf'[x] = nameOf[x]
                      /\ roomOf[x] \in Event
                      /\ event[roomOf[x]] # NoEvent
                      /\ nameOf[x] \in titles[roomOf[x]]
                      /\ event'[roomOf[x]] = event[roomOf[x]]
                      /\ titles'[roomOf[x]] = titles[roomOf[x]]
  BY <1>1, <1>2 DEF IInv, LiveRooms
<1>4. LiveRooms'
  BY <1>1, <1>2, <1>3 DEF LiveRooms
<1>5. NamesDiffer'
  BY <1>1, <1>2, <1>3 DEF IInv, NamesDiffer, NameFree
<1>6. PassRooms' /\ PassClock'
  BY <1>1 DEF IInv, PassRooms, PassClock
<1>7. DoomedAreOver'
  BY <1>1, <1>2, <1>3 DEF IInv, DoomedAreOver, PassRooms, GraceIsOver
<1>8. OneCountdownPerDay'
  BY <1>1 DEF IInv, OneCountdownPerDay
<1> QED
  BY <1>1, <1>2, <1>4, <1>5, <1>6, <1>7, <1>8

LEMMA NextIInv == IInv /\ [Next]_vars => IInv'
PROOF
<1> SUFFICES ASSUME IInv, [Next]_vars PROVE IInv'
  OBVIOUS
<1> USE DEF NoDeletion
<1>0. /\ TypeOK /\ EventTitled /\ CallShape /\ LiveRooms /\ NamesDiffer
      /\ OneCountdownPerDay /\ PassClock /\ PassRooms /\ DoomedAreOver
  BY DEF IInv
<1>d. Cleaner \in Deleter /\ Request \subseteq Deleter /\ Cleaner \notin Request
  BY CleanerAssumption DEF Deleter
<1>1. ASSUME NEW e \in Event, NEW t \in Title, NEW d \in Date,
             CreateEvent(e, [title |-> t, date |-> d, status |-> "scheduled"])
      PROVE  IInv'
  <2> DEFINE row == [title |-> t, date |-> d, status |-> "scheduled"]
  <2>1. row \in EventRow /\ row # NoEvent /\ row.title = t
    BY RowIsThere DEF EventRow, Status
  <2>2. /\ event[e] = NoEvent
        /\ NameFree(t)
        /\ event' = [event EXCEPT ![e] = row]
        /\ titles' = [titles EXCEPT ![e] = {t}]
        /\ InsertRoom(e, t)
        /\ UNCHANGED <<clock, call, pass, mishaps, cleared, late>>
    BY <1>1 DEF CreateEvent
  <2> HIDE DEF row
  <2>3. /\ \A x \in Event : event'[x] = IF x = e THEN row ELSE event[x]
        /\ \A x \in Event : titles'[x] = IF x = e THEN {t} ELSE titles[x]
    BY <2>2, <1>0 DEF TypeOK
  <2>4. /\ live' \in SUBSET Room /\ used' \in SUBSET Room
        /\ roomOf' \in [Room -> Event \cup {"none"}]
        /\ nameOf' \in [Room -> Title \cup {"none"}]
        /\ said' = said
        /\ LiveRooms' /\ NamesDiffer' /\ OneCountdownPerDay'
        /\ PassClock' /\ PassRooms' /\ DoomedAreOver'
    BY <2>1, <2>2, <2>3, RoomInserted
  <2>5. TypeOK'
    BY <1>0, <2>1, <2>2, <2>4 DEF TypeOK
  <2>6. EventTitled'
    BY <1>0, <2>1, <2>3 DEF EventTitled
  <2>7. CallShape'
    BY <1>0, <2>2, <2>3 DEF CallShape
  <2> QED
    BY <2>4, <2>5, <2>6, <2>7 DEF IInv
<1>2. ASSUME NEW r \in Request, NEW e \in Event,
             NEW o \in {"open", "update", "reschedule", "cancel"}, NEW sets \in Sets,
             o = "open" => sets.title \in titles[e],
             Begin(r, o, e, sets)
      PROVE  IInv'
  <2>1. /\ event[e] # NoEvent
        /\ call' = [call EXCEPT ![r] = [op |-> o, stage |-> "read", of |-> e, sets |-> sets]]
        /\ UNCHANGED <<clock, event, titles, live, used, roomOf, nameOf, said, pass, mishaps,
                       cleared, late>>
    BY <1>2 DEF Begin, rooms
  <2>2. TypeOK'
    BY <1>0, <2>1 DEF TypeOK
  <2>3. CallShape'
    BY <1>0, <1>2, <2>1 DEF CallShape, TypeOK
  <2> QED
    BY <1>0, <2>1, <2>2, <2>3
    DEF IInv, EventTitled, LiveRooms, NamesDiffer, OneCountdownPerDay, PassClock,
        PassRooms, DoomedAreOver, GraceIsOver
<1>3. ASSUME NEW r \in Request, SaveEvent(r) PROVE IInv'
  <2>1. /\ call[r].op \in {"update", "reschedule", "cancel"}
        /\ WriteEvent(r) /\ Finish(r)
        /\ UNCHANGED <<clock, live, used, roomOf, nameOf, said, mishaps, cleared, late>>
    BY <1>3 DEF SaveEvent, At, rooms
  <2>2. /\ event' \in [Event -> EventRow \cup {NoEvent}]
        /\ titles' \in [Event -> SUBSET Title]
        /\ \A e \in Event :
             /\ event[e] # NoEvent => event'[e] # NoEvent
             /\ titles[e] \subseteq titles'[e]
             /\ event'[e] # NoEvent => event'[e].title \in titles'[e]
        /\ pass' = [pass EXCEPT !.moved = pass'.moved]
        /\ pass'.moved \in SUBSET Event
        /\ pass.moved \subseteq pass'.moved
        /\ pass.stage \in {"posting", "cleared"} =>
             \A e \in Event : event'[e].date = event[e].date \/ e \in pass'.moved
    BY <1>0, <2>1, WriteEventFacts
  <2>3. /\ pass'.stage = pass.stage /\ pass'.now = pass.now /\ pass'.tx = pass.tx
        /\ pass'.todo = pass.todo /\ pass'.doomed = pass.doomed
        /\ pass' \in Pass
    BY <1>0, <2>2 DEF TypeOK
  <2>4. \A q \in Request : call'[q] = IF q = r THEN IdleCall ELSE call[q]
    BY <1>0, <2>1 DEF Finish, TypeOK
  <2>5. TypeOK'
    BY <1>0, <2>1, <2>2, <2>3, IdleTyped DEF TypeOK, Finish
  <2>6. EventTitled'
    BY <2>2 DEF EventTitled
  <2>7. CallShape'
    BY <1>0, <2>2, <2>4 DEF CallShape, IdleCall
  <2>8. LiveRooms' /\ NamesDiffer'
    BY <1>0, <2>1, <2>2 DEF LiveRooms, NamesDiffer
  <2>9. OneCountdownPerDay' /\ PassClock' /\ PassRooms'
    BY <1>0, <2>1, <2>3 DEF OneCountdownPerDay, PassClock, PassRooms
  <2>10. DoomedAreOver'
    BY <1>0, <2>1, <2>2, <2>3 DEF DoomedAreOver, GraceIsOver, LiveRooms
  <2> QED
    BY <2>5, <2>6, <2>7, <2>8, <2>9, <2>10 DEF IInv
<1>4. ASSUME NEW r \in Request, ClearForCancel(r) PROVE IInv'
  <2>1. /\ ClearChildren(r, RoomsOf(call[r].of)) /\ Advance(r, "cleared")
        /\ UNCHANGED <<clock, event, titles, rooms, pass, late, mishaps>>
    BY <1>4 DEF ClearForCancel
  <2>2. RoomsOf(call[r].of) \subseteq Room
    BY <1>0 DEF RoomsOf, TypeOK
  <2>3. TypeOK'
    BY <1>0, <1>d, <2>1, <2>2 DEF TypeOK, ClearChildren, Advance, rooms
  <2>4. EventTitled' /\ CallShape' /\ LiveRooms' /\ NamesDiffer' /\ OneCountdownPerDay'
    BY <2>1, TablesKept
  <2>5. cleared'[Cleaner] = cleared[Cleaner]
    BY <1>0, <1>d, <2>1 DEF ClearChildren, TypeOK
  <2> QED
    BY <1>0, <2>1, <2>3, <2>4, <2>5
    DEF IInv, PassClock, PassRooms, DoomedAreOver, GraceIsOver, rooms
<1>5. ASSUME NEW r \in Request, CommitCancel(r) PROVE IInv'
  <2>1. /\ call[r].op = "cancel"
        /\ WriteEvent(r) /\ DeleteRooms(r) /\ Finish(r)
        /\ UNCHANGED <<clock, mishaps>>
    BY <1>5 DEF CommitCancel, At
  <2>2. /\ event' \in [Event -> EventRow \cup {NoEvent}]
        /\ titles' \in [Event -> SUBSET Title]
        /\ \A e \in Event :
             /\ event[e] # NoEvent => event'[e] # NoEvent
             /\ titles[e] \subseteq titles'[e]
             /\ event'[e] # NoEvent => event'[e].title \in titles'[e]
        /\ pass' = [pass EXCEPT !.moved = pass'.moved]
        /\ pass'.moved \in SUBSET Event
        /\ pass.moved \subseteq pass'.moved
        /\ pass.stage \in {"posting", "cleared"} =>
             \A e \in Event : event'[e].date = event[e].date \/ e \in pass'.moved
    BY <1>0, <2>1, WriteEventFacts
  <2>3. /\ pass'.stage = pass.stage /\ pass'.now = pass.now /\ pass'.tx = pass.tx
        /\ pass'.todo = pass.todo /\ pass'.doomed = pass.doomed
        /\ pass' \in Pass
    BY <1>0, <2>2 DEF TypeOK
  <2>4. \A q \in Request : call'[q] = IF q = r THEN IdleCall ELSE call[q]
    BY <1>0, <2>1 DEF Finish, TypeOK
  <2>5. /\ live' = live \ cleared[r] /\ used' = used
        /\ \A rm \in live' : roomOf'[rm] = roomOf[rm] /\ nameOf'[rm] = nameOf[rm]
        /\ live' \in SUBSET Room
        /\ roomOf' \in [Room -> Event \cup {"none"}]
        /\ nameOf' \in [Room -> Title \cup {"none"}]
        /\ said' \in [Room -> [Instant -> Nat]]
        /\ late' \in [Deleter -> SUBSET Room]
        /\ cleared' \in [Deleter -> SUBSET Room]
        /\ cleared'[Cleaner] = cleared[Cleaner]
    BY <1>0, <1>d, <2>1, DeleteRoomsFacts
  <2>6. TypeOK'
    BY <1>0, <2>1, <2>2, <2>3, <2>5, IdleTyped DEF TypeOK, Finish
  <2>7. EventTitled'
    BY <2>2 DEF EventTitled
  <2>8. CallShape'
    BY <1>0, <2>2, <2>4 DEF CallShape, IdleCall
  <2>9. LiveRooms' /\ NamesDiffer' /\ OneCountdownPerDay'
    BY <1>d, <2>1, <2>2, RoomsDeleted
  <2>10. PassClock' /\ PassRooms'
    BY <1>0, <2>1, <2>3, <2>5 DEF PassClock, PassRooms
  <2>11. DoomedAreOver'
    BY <1>0, <2>1, <2>2, <2>3, <2>5 DEF DoomedAreOver, GraceIsOver, LiveRooms
  <2> QED
    BY <2>6, <2>7, <2>8, <2>9, <2>10, <2>11 DEF IInv
<1>6. ASSUME NEW r \in Request, NEW rm \in Room, ClearForDrop(r, rm) PROVE IInv'
  <2>1. /\ ClearChildren(r, {rm})
        /\ call' = [call EXCEPT ![r].op = "drop", ![r].stage = "cleared"]
        /\ UNCHANGED <<clock, event, titles, live, used, roomOf, nameOf, said, pass, late,
                       mishaps>>
    BY <1>6 DEF ClearForDrop, rooms
  <2>2. TypeOK'
    <3>1. cleared' \in [Deleter -> SUBSET Room]
      BY <1>0, <1>d, <2>1 DEF TypeOK, ClearChildren
    <3>2. call[r].op = "none"
      BY <1>6 DEF ClearForDrop, IdleCall
    <3>3. [call[r] EXCEPT !.op = "drop", !.stage = "cleared"] \in Call
      BY <1>0, EditTyped DEF TypeOK
    <3>4. call' = [call EXCEPT ![r] = [call[r] EXCEPT !.op = "drop", !.stage = "cleared"]]
      BY <1>0, <2>1 DEF TypeOK
    <3> QED
      BY <1>0, <2>1, <3>1, <3>3, <3>4 DEF TypeOK
  <2>3. CallShape'
    BY <1>0, <2>1 DEF CallShape, TypeOK
  <2>4. cleared'[Cleaner] = cleared[Cleaner]
    BY <1>0, <1>d, <2>1 DEF ClearChildren, TypeOK
  <2> QED
    BY <1>0, <2>1, <2>2, <2>3, <2>4
    DEF IInv, EventTitled, LiveRooms, NamesDiffer, OneCountdownPerDay, PassClock,
        PassRooms, DoomedAreOver, GraceIsOver
<1>7. ASSUME NEW r \in Request, CommitDrop(r) PROVE IInv'
  <2>1. /\ DeleteRooms(r) /\ Finish(r)
        /\ UNCHANGED <<clock, event, titles, pass, mishaps>>
    BY <1>7 DEF CommitDrop
  <2>2. /\ live' = live \ cleared[r] /\ used' = used
        /\ \A rm \in live' : roomOf'[rm] = roomOf[rm] /\ nameOf'[rm] = nameOf[rm]
        /\ live' \in SUBSET Room
        /\ roomOf' \in [Room -> Event \cup {"none"}]
        /\ nameOf' \in [Room -> Title \cup {"none"}]
        /\ said' \in [Room -> [Instant -> Nat]]
        /\ late' \in [Deleter -> SUBSET Room]
        /\ cleared' \in [Deleter -> SUBSET Room]
        /\ cleared'[Cleaner] = cleared[Cleaner]
    BY <1>0, <1>d, <2>1, DeleteRoomsFacts
  <2>3. TypeOK'
    BY <1>0, <2>1, <2>2, IdleTyped DEF TypeOK, Finish
  <2>4. EventTitled'
    BY <1>0, <2>1 DEF EventTitled
  <2>5. CallShape'
    BY <1>0, <2>1 DEF CallShape, Finish, IdleCall, TypeOK
  <2>6. LiveRooms' /\ NamesDiffer' /\ OneCountdownPerDay'
    BY <1>0, <1>d, <2>1, RoomsDeleted DEF TypeOK
  <2>7. PassClock' /\ PassRooms' /\ DoomedAreOver'
    BY <1>0, <2>1, <2>2 DEF PassClock, PassRooms, DoomedAreOver, GraceIsOver
  <2> QED
    BY <2>3, <2>4, <2>5, <2>6, <2>7 DEF IInv
<1>8. ASSUME NEW r \in Request, FindRoom(r) PROVE IInv'
  <2>1. /\ Advance(r, "absent") \/ Finish(r)
        /\ UNCHANGED <<clock, event, titles, rooms, pass, mishaps, cleared, late>>
    BY <1>8 DEF FindRoom
  <2>2. TypeOK'
    <3>1. CASE Advance(r, "absent")
      <4>1. [call[r] EXCEPT !.stage = "absent"] \in Call
        BY <1>0, EditTyped DEF TypeOK
      <4>2. call' = [call EXCEPT ![r] = [call[r] EXCEPT !.stage = "absent"]]
        BY <1>0, <3>1 DEF TypeOK, Advance
      <4> QED
        BY <1>0, <2>1, <4>1, <4>2 DEF TypeOK, rooms
    <3>2. CASE Finish(r)
      BY <1>0, <2>1, <3>2, IdleTyped DEF TypeOK, Finish, rooms
    <3> QED
      BY <2>1, <3>1, <3>2
  <2>3. EventTitled' /\ CallShape' /\ LiveRooms' /\ NamesDiffer' /\ OneCountdownPerDay'
    BY <2>1, TablesKept
  <2> QED
    BY <1>0, <2>1, <2>2, <2>3
    DEF IInv, PassClock, PassRooms, DoomedAreOver, GraceIsOver, rooms
<1>9. ASSUME NEW r \in Request, OpenRoom(r) PROVE IInv'
  <2> DEFINE e == call[r].of
             t == call[r].sets.title
  <2>1. /\ call[r].op = "open"
        /\ NameFree(t) /\ InsertRoom(e, t) /\ Finish(r)
        /\ UNCHANGED <<clock, event, titles, pass, mishaps, cleared, late>>
    BY <1>9 DEF OpenRoom, At
  <2>2. e \in Event /\ event[e] # NoEvent /\ t \in titles[e] /\ t \in Title
    BY <1>0, <2>1 DEF CallShape, TypeOK
  <2> HIDE DEF e, t
  <2>3. /\ live' \in SUBSET Room /\ used' \in SUBSET Room
        /\ roomOf' \in [Room -> Event \cup {"none"}]
        /\ nameOf' \in [Room -> Title \cup {"none"}]
        /\ said' = said
        /\ LiveRooms' /\ NamesDiffer' /\ OneCountdownPerDay'
        /\ PassClock' /\ PassRooms' /\ DoomedAreOver'
    BY <2>1, <2>2, RoomInserted
  <2>4. TypeOK'
    BY <1>0, <2>1, <2>3, IdleTyped DEF TypeOK, Finish
  <2>5. EventTitled'
    BY <1>0, <2>1 DEF EventTitled
  <2>6. CallShape'
    BY <1>0, <2>1 DEF CallShape, Finish, IdleCall, TypeOK
  <2> QED
    BY <2>3, <2>4, <2>5, <2>6 DEF IInv
<1>10. ASSUME NEW r \in Request, Abort(r) PROVE IInv'
  <2>1. /\ RollBack(r) /\ Finish(r)
        /\ UNCHANGED <<clock, event, titles, pass, mishaps, rooms>>
    BY <1>10 DEF Abort, RollBack
  <2>2. /\ cleared' \in [Deleter -> SUBSET Room]
        /\ late' \in [Deleter -> SUBSET Room]
        /\ cleared'[Cleaner] = cleared[Cleaner]
    BY <1>0, <1>d, <2>1, RollBackFacts
  <2>3. TypeOK'
    BY <1>0, <2>1, <2>2, IdleTyped DEF TypeOK, Finish, rooms
  <2>4. EventTitled' /\ CallShape' /\ LiveRooms' /\ NamesDiffer' /\ OneCountdownPerDay'
    BY <2>1, TablesKept
  <2> QED
    BY <1>0, <2>1, <2>2, <2>3, <2>4
    DEF IInv, PassClock, PassRooms, DoomedAreOver, GraceIsOver, rooms
<1>11. ASSUME NEW rm \in Room, WriteLate(rm) PROVE IInv'
  <2>1. /\ mishaps < MaxMishaps /\ mishaps' = mishaps + 1 /\ AddChild(rm)
        /\ UNCHANGED <<clock, event, titles, rooms, call, pass, cleared>>
    BY <1>11 DEF WriteLate
  <2>2. TypeOK'
    BY <1>0, <2>1, TimeAssumption DEF TypeOK, AddChild, rooms
  <2>3. EventTitled' /\ CallShape' /\ LiveRooms' /\ NamesDiffer' /\ OneCountdownPerDay'
    BY <2>1, TablesKept
  <2> QED
    BY <1>0, <2>1, <2>2, <2>3
    DEF IInv, PassClock, PassRooms, DoomedAreOver, GraceIsOver, rooms
<1>12. ASSUME NEW rm \in Room, NEW t \in Instant, DeleteMessage(rm, t) PROVE IInv'
  <2>1. /\ said[rm][t] > 0
        /\ said' = [said EXCEPT ![rm][t] = @ - 1]
        /\ UNCHANGED <<clock, event, titles, live, used, roomOf, nameOf, call, pass,
                       cleared, late, mishaps>>
    BY <1>12 DEF DeleteMessage
  <2>2. TypeOK'
    BY <1>0, <2>1 DEF TypeOK
  <2>3. \A x \in Room : \A s \in Instant :
          said'[x][s] = IF x = rm /\ s = t THEN said[x][s] - 1 ELSE said[x][s]
    BY <1>0, <2>1 DEF TypeOK
  <2>4. OneCountdownPerDay'
    BY <1>0, <2>3 DEF OneCountdownPerDay, TypeOK
  <2> QED
    BY <1>0, <2>1, <2>2, <2>4
    DEF IInv, EventTitled, CallShape, LiveRooms, NamesDiffer, PassClock, PassRooms,
        DoomedAreOver, GraceIsOver
<1>13. ASSUME StartPass PROVE IInv'
  <2>1. /\ pass.stage = "idle"
        /\ pass' = [pass EXCEPT !.stage = "started", !.now = clock]
        /\ UNCHANGED <<clock, event, titles, rooms, call, mishaps, cleared, late>>
    BY <1>13 DEF StartPass
  <2>2. TypeOK'
    BY <1>0, <2>1 DEF TypeOK, rooms
  <2>3. EventTitled' /\ CallShape' /\ LiveRooms' /\ NamesDiffer' /\ OneCountdownPerDay'
    BY <2>1, TablesKept
  <2>4. PassClock' /\ PassRooms' /\ DoomedAreOver'
    BY <1>0, <2>1 DEF PassClock, PassRooms, DoomedAreOver, TypeOK, rooms, Instant
  <2> QED
    BY <2>2, <2>3, <2>4 DEF IInv
<1>14. ASSUME SelectRooms PROVE IInv'
  <2> DEFINE over == {rm \in live : event[roomOf[rm]].date < pass.now}
             expired == {rm \in over : Expired(rm, pass.now)}
  <2>1. /\ pass.stage = "started"
        /\ pass' = [pass EXCEPT !.stage = "posting", !.tx = clock,
                                !.todo = over \ expired, !.doomed = expired]
        /\ UNCHANGED <<clock, event, titles, rooms, call, mishaps, cleared, late>>
    BY <1>14 DEF SelectRooms
  <2>2. expired \subseteq live /\ over \subseteq Room
    BY <1>0 DEF TypeOK
  <2>3. \A rm \in expired : GraceIsOver(rm)
    <3>1. TAKE rm \in expired
    <3>2. pass.now >= event[roomOf[rm]].date + Grace /\ pass.now <= clock
      BY <1>0, <2>1 DEF Expired, PassClock
    <3>3. event[roomOf[rm]].date \in Int
      BY <2>2, LiveDates
    <3>4. pass.now \in Int /\ clock \in Int /\ Grace \in Int
      BY <1>0, TimeAssumption DEF TypeOK, Instant
    <3> QED
      BY <3>2, <3>3, <3>4 DEF GraceIsOver
  <2> HIDE DEF over, expired
  <2>4. TypeOK'
    BY <1>0, <2>1, <2>2 DEF TypeOK, rooms
  <2>5. EventTitled' /\ CallShape' /\ LiveRooms' /\ NamesDiffer' /\ OneCountdownPerDay'
    BY <2>1, TablesKept
  <2>6. PassClock'
    BY <1>0, <2>1 DEF PassClock, TypeOK
  <2>7. PassRooms'
    BY <1>0, <2>1, <2>2 DEF PassRooms, TypeOK, LiveRooms, rooms
  <2>8. DoomedAreOver'
    BY <1>0, <2>1, <2>3 DEF DoomedAreOver, GraceIsOver, TypeOK, rooms
  <2> QED
    BY <2>4, <2>5, <2>6, <2>7, <2>8 DEF IInv
<1>15. ASSUME NEW rm \in Room, SkipCountdown(rm) PROVE IInv'
  <2>1. /\ pass' = [pass EXCEPT !.todo = @ \ {rm}]
        /\ UNCHANGED <<clock, event, titles, rooms, call, mishaps, cleared, late>>
    BY <1>15 DEF SkipCountdown
  <2>2. TypeOK'
    BY <1>0, <2>1 DEF TypeOK, rooms
  <2>3. EventTitled' /\ CallShape' /\ LiveRooms' /\ NamesDiffer' /\ OneCountdownPerDay'
    BY <2>1, TablesKept
  <2>4. PassClock' /\ PassRooms' /\ DoomedAreOver'
    BY <1>0, <2>1
    DEF PassClock, PassRooms, DoomedAreOver, GraceIsOver, TypeOK, rooms
  <2> QED
    BY <2>2, <2>3, <2>4 DEF IInv
<1>16. ASSUME NEW rm \in Room, PostCountdown(rm) PROVE IInv'
  <2>1. /\ pass.stage = "posting" /\ ~AlreadyPostedToday(rm)
        /\ said' = [said EXCEPT ![rm][pass.tx] = @ + 1]
        /\ AddChild(rm)
        /\ pass' = [pass EXCEPT !.todo = @ \ {rm}, !.tx = clock]
        /\ UNCHANGED <<clock, event, titles, live, used, roomOf, nameOf, call, cleared, mishaps>>
    BY <1>16 DEF PostCountdown
  <2>2. pass.tx \in Instant /\ pass.now \in Instant /\ clock \in Instant
    BY <1>0 DEF TypeOK
  <2>3. TypeOK'
    <3>1. said[rm] \in [Instant -> Nat] /\ said[rm][pass.tx] + 1 \in Nat
      BY <1>0, <2>2 DEF TypeOK
    <3>2. said' = [said EXCEPT ![rm] = [said[rm] EXCEPT ![pass.tx] = said[rm][pass.tx] + 1]]
      BY <1>0, <2>1 DEF TypeOK
    <3>3. said' \in [Room -> [Instant -> Nat]]
      BY <1>0, <3>1, <3>2 DEF TypeOK
    <3>4. late' \in [Deleter -> SUBSET Room]
      BY <1>0, <2>1 DEF TypeOK, AddChild
    <3>5. pass' \in Pass
      BY <1>0, <2>1, <2>2 DEF TypeOK
    <3> QED
      BY <1>0, <2>1, <3>3, <3>4, <3>5 DEF TypeOK
  <2>4. \A x \in Room : \A s \in Instant :
          said'[x][s] = IF x = rm /\ s = pass.tx THEN said[x][s] + 1 ELSE said[x][s]
    BY <1>0, <2>1, <2>2 DEF TypeOK
  <2>5. \A s \in Instant : said[rm][s] > 0 => DayOf[s] < DayOf[pass.tx]
    <3>1. DayOf[pass.now] <= DayOf[pass.tx]
      BY <1>0, <2>1, <2>2, TimeAssumption DEF PassClock
    <3>2. \A s \in Instant : said[rm][s] > 0 => ~(DayOf[s] >= DayOf[pass.now])
      BY <2>1 DEF AlreadyPostedToday
    <3>3. \A s \in Instant : DayOf[s] \in Int
      BY TimeAssumption
    <3> QED
      BY <2>2, <3>1, <3>2, <3>3
  <2>6. OneCountdownPerDay'
    <3> SUFFICES ASSUME NEW x \in Room, NEW s \in Instant, NEW t \in Instant,
                        said'[x][s] > 0, said'[x][t] > 0, DayOf[s] = DayOf[t]
                 PROVE  s = t /\ said'[x][s] = 1
      BY DEF OneCountdownPerDay
    <3>1. \A u \in Instant : said[x][u] \in Nat /\ DayOf[u] \in Int
      BY <1>0, TimeAssumption DEF TypeOK
    <3>2. said[rm][pass.tx] = 0
      BY <2>2, <2>5, <3>1, <1>0, TimeAssumption DEF TypeOK
    <3> QED
      BY <1>0, <2>2, <2>4, <2>5, <3>1, <3>2 DEF OneCountdownPerDay
  <2>7. PassClock' /\ PassRooms' /\ DoomedAreOver'
    BY <1>0, <2>1 DEF PassClock, PassRooms, DoomedAreOver, GraceIsOver, TypeOK
  <2> QED
    BY <1>0, <2>1, <2>3, <2>6, <2>7
    DEF IInv, EventTitled, CallShape, LiveRooms, NamesDiffer
<1>17. ASSUME EndPass, UNCHANGED <<clock, event, titles, rooms, call, cleared, late>>,
              mishaps' \in 0 .. MaxMishaps, pass.stage # "cleared"
       PROVE  IInv'
  <2>1. TypeOK'
    BY <1>0, <1>17, TimeAssumption DEF TypeOK, EndPass, IdlePass, rooms, Instant
  <2>2. EventTitled' /\ CallShape' /\ LiveRooms' /\ NamesDiffer' /\ OneCountdownPerDay'
    BY <1>17, TablesKept
  <2>3. PassClock' /\ PassRooms' /\ DoomedAreOver'
    BY <1>0, <1>17 DEF PassClock, PassRooms, DoomedAreOver, EndPass, IdlePass
  <2> QED
    BY <2>1, <2>2, <2>3 DEF IInv
<1>18. ASSUME ClearDoomed PROVE IInv'
  <2>1. /\ pass.stage = "posting"
        /\ ClearChildren(Cleaner, pass.doomed)
        /\ pass' = [pass EXCEPT !.stage = "cleared"]
        /\ UNCHANGED <<clock, event, titles, rooms, call, late, mishaps>>
    BY <1>18 DEF ClearDoomed
  <2>2. TypeOK'
    BY <1>0, <1>d, <2>1 DEF TypeOK, ClearChildren, rooms
  <2>3. EventTitled' /\ CallShape' /\ LiveRooms' /\ NamesDiffer' /\ OneCountdownPerDay'
    BY <2>1, TablesKept
  <2>4. PassClock' /\ PassRooms' /\ DoomedAreOver'
    BY <1>0, <1>d, <2>1
    DEF PassClock, PassRooms, DoomedAreOver, GraceIsOver, TypeOK, ClearChildren, rooms
  <2> QED
    BY <2>2, <2>3, <2>4 DEF IInv
<1>19. ASSUME DeleteDoomed PROVE IInv'
  <2>1. /\ DeleteRooms(Cleaner) /\ EndPass
        /\ UNCHANGED <<clock, event, titles, call, mishaps>>
    BY <1>19 DEF DeleteDoomed
  <2>2. /\ live' \in SUBSET Room /\ used' = used
        /\ roomOf' \in [Room -> Event \cup {"none"}]
        /\ nameOf' \in [Room -> Title \cup {"none"}]
        /\ said' \in [Room -> [Instant -> Nat]]
        /\ late' \in [Deleter -> SUBSET Room]
        /\ cleared' \in [Deleter -> SUBSET Room]
        /\ cleared'[Cleaner] = {}
    BY <1>0, <1>d, <2>1, DeleteRoomsFacts
  <2>3. TypeOK'
    BY <1>0, <2>1, <2>2, TimeAssumption DEF TypeOK, EndPass, IdlePass, Instant
  <2>4. EventTitled' /\ CallShape'
    BY <1>0, <2>1 DEF EventTitled, CallShape
  <2>5. LiveRooms' /\ NamesDiffer' /\ OneCountdownPerDay'
    BY <1>0, <1>d, <2>1, RoomsDeleted DEF TypeOK
  <2>6. PassClock' /\ PassRooms' /\ DoomedAreOver'
    BY <2>1, <2>2 DEF PassClock, PassRooms, DoomedAreOver, EndPass, IdlePass
  <2> QED
    BY <2>3, <2>4, <2>5, <2>6 DEF IInv
<1>20. ASSUME RollBack(Cleaner), EndPass, mishaps' \in 0 .. MaxMishaps,
              UNCHANGED <<clock, event, titles, call>>
       PROVE  IInv'
  <2>1. /\ cleared' \in [Deleter -> SUBSET Room]
        /\ late' \in [Deleter -> SUBSET Room]
        /\ cleared'[Cleaner] = {}
        /\ UNCHANGED rooms
    BY <1>0, <1>d, <1>20, RollBackFacts DEF rooms
  <2>2. TypeOK'
    BY <1>0, <1>20, <2>1, TimeAssumption DEF TypeOK, EndPass, IdlePass, rooms, Instant
  <2>3. EventTitled' /\ CallShape' /\ LiveRooms' /\ NamesDiffer' /\ OneCountdownPerDay'
    BY <1>20, <2>1, TablesKept
  <2>4. PassClock' /\ PassRooms' /\ DoomedAreOver'
    BY <1>20, <2>1 DEF PassClock, PassRooms, DoomedAreOver, EndPass, IdlePass
  <2> QED
    BY <2>2, <2>3, <2>4 DEF IInv
<1>21. ASSUME Tick PROVE IInv'
  <2>1. /\ clock < Horizon /\ clock' = clock + 1
        /\ UNCHANGED <<event, titles, rooms, call, pass, mishaps, cleared, late>>
    BY <1>21 DEF Tick
  <2>2. clock \in Int /\ clock' \in Instant /\ pass.now \in Int
    BY <1>0, <2>1, TimeAssumption DEF TypeOK, Instant
  <2>3. TypeOK'
    BY <1>0, <2>1, <2>2 DEF TypeOK, rooms
  <2>4. EventTitled' /\ CallShape' /\ LiveRooms' /\ NamesDiffer' /\ OneCountdownPerDay'
    BY <2>1, TablesKept
  <2>5. PassClock' /\ PassRooms'
    BY <1>0, <2>1, <2>2 DEF PassClock, PassRooms, rooms
  <2>6. DoomedAreOver'
    <3>1. \A rm \in live : event[roomOf[rm]].date \in Int
      BY LiveDates
    <3>2. \A rm \in live : GraceIsOver(rm) => GraceIsOver(rm)'
      BY <2>1, <2>2, <3>1, TimeAssumption DEF GraceIsOver, rooms
    <3> QED
      BY <1>0, <2>1, <3>2 DEF DoomedAreOver, rooms
  <2> QED
    BY <2>3, <2>4, <2>5, <2>6 DEF IInv
<1>22. CASE UNCHANGED vars
  BY <1>0, <1>22
  DEF IInv, vars, rooms, TypeOK, EventTitled, CallShape, LiveRooms, NamesDiffer,
      OneCountdownPerDay, PassClock, PassRooms, DoomedAreOver, GraceIsOver
<1>23. ASSUME NEW r \in Request, RequestStep(r) PROVE IInv'
  <2>1. ASSUME NEW e \in Event, event[e] # NoEvent
        PROVE  event[e] \in EventRow /\ event[e].title \in titles[e]
    BY <1>0, <2>1 DEF TypeOK, EventTitled
  <2>2. ASSUME NEW e \in Event, BeginOpen(r, e) PROVE IInv'
    <3>1. event[e] \in EventRow /\ event[e].title \in titles[e]
      BY <2>1, <2>2 DEF BeginOpen, Begin
    <3>2. [NoEvent EXCEPT !.title = event[e].title] \in Sets
      BY <3>1 DEF NoEvent, Sets, EventRow
    <3>3. [NoEvent EXCEPT !.title = event[e].title].title \in titles[e]
      BY <3>1 DEF NoEvent
    <3> QED
      BY <1>2, <2>2, <3>2, <3>3 DEF BeginOpen
  <2>3. ASSUME NEW e \in Event, BeginCancel(r, e) PROVE IInv'
    <3>1. [event[e] EXCEPT !.status = "cancelled"] \in EventRow
      BY <2>1, <2>3 DEF BeginCancel, Begin, EventRow, Status
    <3>2. Changes(event[e], [event[e] EXCEPT !.status = "cancelled"]) \in Sets
      BY <3>1, ChangesTyped
    <3> QED
      BY <1>2, <2>3, <3>2 DEF BeginCancel
  <2>4. ASSUME NEW e \in Event, NEW d \in Date, BeginReschedule(r, e, d) PROVE IInv'
    <3>1. [event[e] EXCEPT !.date = d, !.status = "rescheduled"] \in EventRow
      BY <2>1, <2>4 DEF BeginReschedule, Begin, EventRow, Status
    <3>2. Changes(event[e], [event[e] EXCEPT !.date = d, !.status = "rescheduled"]) \in Sets
      BY <3>1, ChangesTyped
    <3> QED
      BY <1>2, <2>4, <3>2 DEF BeginReschedule
  <2>5. ASSUME NEW e \in Event, NEW t \in Title, NEW d \in Date, BeginUpdate(r, e, t, d)
        PROVE  IInv'
    <3>1. [event[e] EXCEPT !.title = t, !.date = d] \in EventRow
      BY <2>1, <2>5 DEF BeginUpdate, Begin, EventRow
    <3>2. Changes(event[e], [event[e] EXCEPT !.title = t, !.date = d]) \in Sets
      BY <3>1, ChangesTyped
    <3> QED
      BY <1>2, <2>5, <3>2 DEF BeginUpdate
  <2> QED
    BY <1>3, <1>4, <1>5, <1>6, <1>7, <1>8, <1>9, <1>10, <1>23, <2>2, <2>3, <2>4, <2>5
    DEF RequestStep
<1>24. mishaps \in 0 .. MaxMishaps /\ (mishaps < MaxMishaps => mishaps + 1 \in 0 .. MaxMishaps)
  BY <1>0, TimeAssumption DEF TypeOK
<1>25. ASSUME NEW rm \in Room, CountdownFails(rm) PROVE IInv'
  BY <1>17, <1>24, <1>25 DEF CountdownFails
<1>26. CASE NothingToDelete
  BY <1>17, <1>24, <1>26 DEF NothingToDelete
<1>27. CASE DeleteDoomedFails
  BY <1>20, <1>24, <1>27 DEF DeleteDoomedFails
<1>28. CASE BreakOff
  BY <1>20, <1>24, <1>28 DEF BreakOff
<1> QED
  BY <1>1, <1>11, <1>12, <1>13, <1>14, <1>15, <1>16, <1>18, <1>19, <1>21, <1>22, <1>23,
     <1>25, <1>26, <1>27, <1>28
  DEF Next, PassStep

---------------------------------------------------------------------------
(* The theorems.                                                           *)

THEOREM Invariance == Spec => []IInv
PROOF
<1>1. Init => IInv
  BY InitIInv
<1>2. IInv /\ [Next]_vars => IInv'
  BY NextIInv
<1> QED
  BY <1>1, <1>2, PTL DEF Spec

(* The tables, the requests and the pass keep their types.                 *)
THEOREM TypeCorrect == Spec => []TypeOK
PROOF
<1>1. IInv => TypeOK
  BY DEF IInv
<1> QED
  BY <1>1, Invariance, PTL

(* However a pass and midnight cross, a room never holds two countdown     *)
(* messages of one day (the check in run_event_chat_lifecycle_pass).       *)
THEOREM CountdownIsDaily == Spec => []OneCountdownPerDay
PROOF
<1>1. IInv => OneCountdownPerDay
  BY DEF IInv
<1> QED
  BY <1>1, Invariance, PTL

(* Two rooms of one event at once take two titles of that event: for one   *)
(* title the unique name stands in for the constraint event_id lacks.      *)
THEOREM RoomsFollowTitles == Spec => []TwoRoomsOnlyIfRenamed
PROOF
<1>1. IInv => TwoRoomsOnlyIfRenamed
  <2> SUFFICES ASSUME IInv, NEW e \in Event, NEW rm1 \in RoomsOf(e), NEW rm2 \in RoomsOf(e),
                      rm1 # rm2
               PROVE  \E s, t \in titles[e] : s # t
    BY DEF TwoRoomsOnlyIfRenamed
  <2>1. nameOf[rm1] \in titles[e] /\ nameOf[rm2] \in titles[e]
    BY DEF IInv, LiveRooms, RoomsOf
  <2>2. nameOf[rm1] # nameOf[rm2]
    BY DEF IInv, NamesDiffer, RoomsOf
  <2> QED
    BY <2>1, <2>2
<1> QED
  BY <1>1, Invariance, PTL

(* The pass deletes a room before its time only if the event was moved     *)
(* between the pass's one look at the date and the deletion.               *)
THEOREM GraceIsKept == Spec => RoomsOutliveTheGrace
PROOF
<1>1. IInv /\ [Next]_vars =>
        [pass.stage = "cleared" /\ pass'.stage = "idle" =>
           \A rm \in live \ live' : GraceIsOver(rm) \/ roomOf[rm] \in pass.moved]_vars
  <2> SUFFICES ASSUME IInv, [Next]_vars, pass.stage = "cleared", pass'.stage = "idle",
                      NEW rm \in live \ live'
               PROVE  GraceIsOver(rm) \/ roomOf[rm] \in pass.moved
    OBVIOUS
  <2>1. rm \in cleared[Cleaner]
    <3>1. DeleteDoomed \/ live' = live \/ pass'.stage = pass.stage
      BY DEF Next, PassStep, RequestStep, vars, rooms, CreateEvent, BeginOpen, BeginUpdate,
          BeginReschedule, BeginCancel, Begin, SaveEvent, ClearForCancel, CommitCancel,
          WriteEvent, ClearForDrop, CommitDrop, FindRoom, OpenRoom, Abort, RollBack,
          WriteLate, DeleteMessage, StartPass, SelectRooms, SkipCountdown, PostCountdown,
          CountdownFails, NothingToDelete, ClearDoomed, DeleteDoomedFails, BreakOff, Tick,
          IInv, TypeOK
    <3> QED
      BY <3>1 DEF DeleteDoomed, DeleteRooms
  <2>2. rm \in pass.doomed
    BY <2>1 DEF IInv, PassRooms
  <2> QED
    BY <2>2 DEF IInv, DoomedAreOver
<1> QED
  BY <1>1, Invariance, PTL DEF Spec, RoomsOutliveTheGrace
=============================================================================
