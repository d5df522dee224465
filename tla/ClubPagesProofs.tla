--------------------------- MODULE ClubPagesProofs ---------------------------
(***************************************************************************)
(* Proofs about ClubPages, for any accounts, clubs, requests, events and   *)
(* number of commits.                                                      *)
(*                                                                         *)
(* The argument.  What a request loaded is what is there, or the request   *)
(* has been crossed (LoadedRowsStand), so what it writes is what was asked.*)
(* The id of a club that is being created is nobody else's, and its owner  *)
(* has no club, or the request has been crossed (FreshClubs).  A reader is *)
(* entitled as soon as what it loaded, or what is there now, entitles it   *)
(* (EntitledSoFar).  A page under way to the site has what a visitor would *)
(* see now, or the site is yet to be told, or was not told, or the page    *)
(* will be refused (DraftsAreFresh).                                       *)
(***************************************************************************)
EXTENDS ClubPages, FiniteSetTheorems, WellFoundedInduction, TLAPS

(* What is known of a call by the stage it is in.                          *)
CallShape ==
  \A r \in Request :
    /\ stage[r] = "idle" => call[r] = NoCall
    /\ stage[r] # "idle" => call[r].club \in Club
    /\ stage[r] = "checked" => call[r].op \in CheckedOps /\ call[r].by \in User
    /\ stage[r] = "loaded" =>
         \/ call[r].op \in EditOps \cup ReadOps /\ row[r] \in ClubRow
         \/ call[r].op \in EventOps /\ row[r] \in EventRow /\ call[r].event \in Event
    /\ stage[r] \in {"allowed", "barred", "counted"} => call[r].op \in ReadOps /\ row[r] \in ClubRow
    /\ stage[r] = "counted" => call[r].op = "get"
    /\ stage[r] = "written" => call[r].op \notin ReadOps

(* Members and events are those of clubs that are there.                   *)
NoOrphans ==
  /\ \A c \in Club : ~Present(c) => role[c] = NoMembers
  /\ \A e \in Event : event[e] # Unplanned => Present(event[e].club)

(* A club that is about to be created.                                     *)
FreshClubs ==
  \A r \in Request :
    stage[r] = "checked" /\ call[r].op = "create" =>
      /\ ~Present(call[r].club)
      /\ \A q \in Request \ {r} : call[q].club # call[r].club
      /\ r \in crossed \/ ~Owns(call[r].by)

LoadedRowsStand ==
  \A r \in Request :
    stage[r] = "loaded" /\ call[r].op \in EditOps =>
      row[r] = club[call[r].club] \/ r \in crossed

(* What was loaded, or is there, entitles only who is noted as entitled.   *)
EntitledSoFar ==
  \A r \in Request :
    call[r].op \in ReadOps =>
      /\ Entitles(call[r].by, club[call[r].club], role[call[r].club]) => r \in entitled
      /\ stage[r] = "loaded" /\ Entitles(call[r].by, row[r], NoMembers) => r \in entitled

(* The page a reader is putting together is that of the club as it is.     *)
UpToDate(r) ==
  /\ row[r] = club[call[r].club]
  /\ stage[r] \in {"allowed", "counted"} => row[r].public
  /\ stage[r] = "barred" => ~row[r].public
  /\ stage[r] = "counted" => draft[r].count = CountMembers(call[r].club)

(* The site is going to be told of a change, or was not told of the last.  *)
Outdated(c) ==
  c \in untold \/ \E r \in Request : stage[r] = "written" /\ call[r].club = c

DraftsAreFresh ==
  \A r \in Request :
    ForSite(r) /\ r \in current /\ stage[r] \in {"loaded", "allowed", "barred", "counted"} =>
      UpToDate(r) \/ Outdated(call[r].club)

IInv ==
  /\ TypeOK
  /\ CallShape
  /\ NoOrphans
  /\ FreshClubs
  /\ SecondClubsOverlapped
  /\ LoadedRowsStand
  /\ EditsShow
  /\ EntitledSoFar
  /\ PrivateClubsStayPrivate
  /\ DraftsAreFresh
  /\ ToldSitesAreFresh

-----------------------------------------------------------------------------
(* The helpers.                                                            *)

LEMMA ClubRows == NoClub \notin ClubRow /\ Unplanned \notin EventRow /\ NoClub \notin EventRow
BY DEF NoClub, ClubRow, Unplanned, EventRow

LEMMA CountMembersType ==
  ASSUME NEW c PROVE CountMembers(c) \in 0..Cardinality(User)
<1>1. {u \in User : role[c][u] # "none"} \in SUBSET User
  OBVIOUS
<1> QED
  BY <1>1, AccountAssumption, FS_Subset, FS_CardinalityType DEF CountMembers

LEMMA LargestEvent ==
  ASSUME NEW S \in SUBSET Event, S # {}
  PROVE  \E e \in S : \A d \in S : d <= e
<1> DEFINE T == {k \in Nat : \E e \in S : k = MaxEvents - e}
<1>1. \A e \in S : e \in Nat /\ MaxEvents - e \in T
  BY BoundAssumption DEF Event
<1>2. T \in SUBSET Nat /\ T # {}
  BY <1>1
<1>3. PICK k \in T : \A j \in T : ~ (<<j, k>> \in OpToRel(<, Nat))
  BY <1>2, NatLessThanWellFounded, WFMin
<1>4. \A j \in T : ~ (j < k)
  BY <1>3 DEF OpToRel
<1>5. PICK e \in S : k = MaxEvents - e
  OBVIOUS
<1>6. \A d \in S : d <= e
  BY <1>1, <1>4, <1>5, BoundAssumption
<1> QED
  BY <1>6

LEMMA ChampionHasWon ==
  ASSUME NEW c, Won(c) # {}
  PROVE  (CHOOSE e \in Won(c) : \A d \in Won(c) : d <= e) \in Won(c)
<1>1. Won(c) \in SUBSET Event
  BY DEF Won
<1>2. \E e \in Won(c) : \A d \in Won(c) : d <= e
  BY <1>1, LargestEvent
<1> QED
  BY <1>2

LEMMA ChampionType ==
  ASSUME TypeOK, NEW c
  PROVE  CurrentChampion(c) \in User \cup {Nobody}
<1>1. CASE Won(c) = {}
  BY <1>1 DEF CurrentChampion
<1>2. CASE Won(c) # {}
  <2> DEFINE e == CHOOSE e \in Won(c) : \A d \in Won(c) : d <= e
  <2>1. e \in Event
    BY <1>2, ChampionHasWon DEF Won
  <2>2. event[e].winner \in User \cup {Nobody}
    BY <2>1 DEF TypeOK, EventRow, Unplanned
  <2> QED
    BY <1>2, <2>2 DEF CurrentChampion
<1> QED
  BY <1>1, <1>2

(* What a visitor sees of a club depends on its row, its members and the   *)
(* events somebody has won.                                                *)
LEMMA PageKept ==
  ASSUME NEW c, club'[c] = club[c], role'[c] = role[c],
         \A e \in Event : event'[e] = event[e] \/ (e \notin Won(c) /\ e \notin Won(c)')
  PROVE  /\ CountMembers(c)' = CountMembers(c)
         /\ CurrentChampion(c)' = CurrentChampion(c)
         /\ PublicPage(c)' = PublicPage(c)
<1>1. Won(c)' = Won(c)
  BY DEF Won
<1>2. CurrentChampion(c)' = CurrentChampion(c)
  <2>1. CASE Won(c) = {}
    BY <1>1, <2>1 DEF CurrentChampion
  <2>2. CASE Won(c) # {}
    <3> DEFINE e == CHOOSE e \in Won(c) : \A d \in Won(c) : d <= e
    <3>1. e \in Won(c) /\ e \in Event
      <4>1. Won(c) \subseteq Event
        BY DEF Won
      <4> QED
        BY <2>2, <4>1, ChampionHasWon
    <3>2. event'[e] = event[e]
      BY <1>1, <3>1
    <3> QED
      BY <1>1, <2>2, <3>2 DEF CurrentChampion
  <2> QED
    BY <2>1, <2>2
<1>3. CountMembers(c)' = CountMembers(c)
  BY DEF CountMembers
<1>4. Present(c)' <=> Present(c)
  BY DEF Present
<1> QED
  BY <1>2, <1>3, <1>4 DEF PublicPage

LEMMA EditedTyped ==
  ASSUME NEW op \in EditOps, NEW cl \in ClubRow
  PROVE  /\ Edited(op, cl) \in ClubRow
         /\ Edited(op, cl).owner = cl.owner
         /\ Edited(op, Edited(op, cl)) = Edited(op, cl)
BY DEF EditOps, ClubRow, Edited

LEMMA FlushedClub ==
  ASSUME NEW now \in ClubRow, NEW was \in ClubRow, NEW new \in ClubRow, new.owner = was.owner
  PROVE  /\ Flushed(now, was, new) \in ClubRow
         /\ Flushed(now, was, new).owner = now.owner
         /\ now = was => Flushed(now, was, new) = new
BY DEF ClubRow, Flushed

LEMMA FlushedEvent ==
  ASSUME NEW now \in EventRow, NEW was \in EventRow, NEW new \in EventRow, new.club = was.club
  PROVE  /\ Flushed(now, was, new) \in EventRow
         /\ Flushed(now, was, new).club = now.club
BY DEF EventRow, Flushed

LEMMA EventEditedTyped ==
  ASSUME NEW op \in EventOps, NEW ev \in EventRow, NEW w \in User \cup {Nobody}
  PROVE  EventEdited(op, ev, w) \in EventRow /\ EventEdited(op, ev, w).club = ev.club
BY DEF EventOps, EventRow, EventEdited

-----------------------------------------------------------------------------
(* Steps that commit.                                                      *)

Committing(r) ==
  \/ CreateClub(r) \/ CommitEdit(r) \/ ChangeMember(r)
  \/ DeleteClub(r) \/ PlanEvent(r) \/ CommitEvent(r)

(* A step that commits changes one club, with its members and events.      *)
LEMMA CommitFacts ==
  ASSUME TypeOK, CallShape, NoOrphans, FreshClubs, NEW r \in Request, Committing(r)
  PROVE  \E c \in Club, op \in EditOps \cup EventOps \cup CheckedOps \cup {"role"} :
           /\ Commits(r, op, c)
           /\ stage[r] # "idle" => call[r].op = op /\ call[r].club = c
           /\ stage[r] = "idle" => op = "role" /\ Present(c)
           /\ stage[r] # "written" /\ call[r].op \notin ReadOps
           /\ \A d \in Club \ {c} : club'[d] = club[d] /\ role'[d] = role[d]
           /\ \A e \in Event :
                \/ event'[e] = event[e]
                \/ event[e].club = c /\ event'[e] = Unplanned
                \/ event'[e].club = c /\ event[e] = Unplanned
                \/ event[e].club = c /\ event'[e].club = c
<1> USE DEF TypeOK
<1>1. CASE CreateClub(r)
  BY <1>1 DEF CreateClub, CallShape, CheckedOps, ReadOps
<1>2. CASE CommitEdit(r)
  BY <1>2 DEF CommitEdit, CallShape, EditOps, ReadOps
<1>3. CASE ChangeMember(r)
  BY <1>3 DEF ChangeMember, CallShape, NoCall, ReadOps
<1>4. CASE DeleteClub(r)
  BY <1>4 DEF DeleteClub, CallShape, CheckedOps, ReadOps
<1>5. CASE PlanEvent(r)
  BY <1>5 DEF PlanEvent, CallShape, CheckedOps, ReadOps
<1>6. CASE CommitEvent(r)
  <2>1. /\ call[r].event \in Event /\ row[r] \in EventRow
        /\ call[r].winner \in User \cup {Nobody}
        /\ call[r].op \in EventOps
    BY <1>6, ClubRows DEF CommitEvent, CallShape, Call, EventOps, EditOps, ReadOps
  <2>2. event[call[r].event] \in EventRow
    BY <1>6, <2>1, AccountAssumption DEF CommitEvent, CallShape, Unplanned
  <2>3. event'[call[r].event].club = call[r].club
    BY <1>6, <2>1, <2>2, EventEditedTyped, FlushedEvent DEF CommitEvent
  <2> QED
    BY <1>6, <2>1, <2>3 DEF CommitEvent, CallShape, EventOps, ReadOps
<1> QED
  BY <1>1, <1>2, <1>3, <1>4, <1>5, <1>6 DEF Committing

-----------------------------------------------------------------------------
(* One lemma per conjunct of the invariant.                                *)
(* Types, by the part of the state.                                        *)
TablesTyped ==
  /\ club \in [Club -> ClubRow \cup {NoClub}]
  /\ role \in [Club -> [User -> {"none", "member", "organizer"}]]
  /\ event \in [Event -> EventRow \cup {Unplanned}]
  /\ kept \in SUBSET Club

WebTyped ==
  /\ writes \in 0..MaxWrites
  /\ site \in [Club -> Page]
  /\ untold \in SUBSET Club
  /\ doubled \in SUBSET Club

RequestsTyped ==
  /\ call \in [Request -> Call]
  /\ stage \in [Request -> Stage]
  /\ row \in [Request -> ClubRow \cup EventRow \cup {NoClub}]
  /\ draft \in [Request -> Page]
  /\ crossed \cup entitled \cup current \subseteq Request

LEMMA TypeParts == TypeOK <=> TablesTyped /\ WebTyped /\ RequestsTyped
BY DEF TypeOK, TablesTyped, WebTyped, RequestsTyped

LEMMA TypePartsNext == TablesTyped' /\ WebTyped' /\ RequestsTyped' => TypeOK'
BY DEF TypeOK, TablesTyped, WebTyped, RequestsTyped

LEMMA ConstantsTyped == NoCall \in Call /\ NoPage \in Page
<1>1. Cardinality(User) \in Nat
  BY AccountAssumption, FS_CardinalityType
<1> QED
  BY <1>1 DEF NoCall, NoPage, Call, Page, Viewer

LEMMA OpensTyped ==
  ASSUME RequestsTyped, NEW r \in Request,
         NEW op \in EditOps \cup EventOps \cup CheckedOps \cup ReadOps, NEW u \in Viewer,
         NEW c \in Club, NEW e \in Event \cup {NoEvent}, NEW w \in User \cup {Nobody},
         Opens(r, op, u, c, e, w)
  PROVE  call' \in [Request -> Call]
<1>1. [op |-> op, by |-> u, club |-> c, event |-> e, winner |-> w] \in Call
  BY DEF Call
<1> QED
  BY <1>1 DEF Opens, RequestsTyped

LEMMA DoneTyped ==
  ASSUME RequestsTyped, NEW r \in Request, Done(r)
  PROVE  RequestsTyped'
BY ConstantsTyped DEF RequestsTyped, Done, Goto, Stage

LEMMA CommitsTyped ==
  ASSUME RequestsTyped, WebTyped, NEW r \in Request, NEW c \in Club,
         NEW op \in EditOps \cup EventOps \cup CheckedOps \cup {"role"}, Commits(r, op, c)
  PROVE  RequestsTyped' /\ (doubled' \in SUBSET Club => WebTyped')
<1>1. [NoCall EXCEPT !.op = op, !.club = c] \in Call
  BY DEF NoCall, Call, Viewer
<1>2. call' \in [Request -> Call] /\ row' \in [Request -> ClubRow \cup EventRow \cup {NoClub}]
  BY <1>1 DEF Commits, RequestsTyped
<1>3. stage' \in [Request -> Stage] /\ draft' = draft
  BY DEF Commits, RequestsTyped, Goto, Stage
<1>4. crossed' \cup entitled' \cup current' \subseteq Request
  BY DEF Commits, RequestsTyped, Touched
<1>5. writes' \in 0..MaxWrites /\ site' = site /\ untold' = untold
  BY BoundAssumption DEF Commits, WebTyped, web
<1> QED
  BY <1>2, <1>3, <1>4, <1>5 DEF RequestsTyped, WebTyped

LEMMA OpensReadTyped ==
  ASSUME TypeOK, NEW r \in Request, NEW op \in ReadOps, NEW u \in Viewer, NEW c \in Club,
         NEW t \in Stage, OpensRead(r, op, u, c, t)
  PROVE  TypeOK'
<1>1. RequestsTyped /\ Opens(r, op, u, c, NoEvent, Nobody)
  BY TypeParts DEF OpensRead
<1>2. call' \in [Request -> Call]
  BY <1>1, OpensTyped
<1>3. RequestsTyped'
  BY <1>1, <1>2 DEF OpensRead, RequestsTyped, TypeOK, Goto
<1> QED
  BY <1>3, TypePartsNext DEF TypeOK, OpensRead, TablesTyped, WebTyped, tables, web

LEMMA AnswerTyped ==
  ASSUME TypeOK, NEW r \in Request, NEW page \in Page, Answer(r, page)
  PROVE  TypeOK'
<1>1. RequestsTyped'
  BY TypeParts, DoneTyped DEF Answer
<1>2. site' \in [Club -> Page]
  BY DEF TypeOK, Answer
<1> QED
  BY <1>1, <1>2, TypePartsNext DEF TypeOK, Answer, TablesTyped, WebTyped, tables

LEMMA TypeKept ==
  ASSUME TypeOK, CallShape, NoOrphans, FreshClubs, [Next]_vars
  PROVE  TypeOK'
<1>1. CASE UNCHANGED vars
  BY <1>1 DEF vars, TypeOK, tables, web, reads
<1>2. ASSUME NEW r \in Request, LookForOwnClub(r)
      PROVE  TypeOK'
  <2>1. call' \in [Request -> Call]
    BY <1>2, TypeParts, OpensTyped, AccountAssumption DEF LookForOwnClub, Viewer, EditOps, EventOps, CheckedOps, ReadOps
  <2>2. row' \in [Request -> ClubRow \cup EventRow \cup {NoClub}]
    BY <1>2 DEF LookForOwnClub, TypeOK, reads
  <2> QED
    BY <1>2, <2>1, <2>2 DEF LookForOwnClub, TypeOK, Goto, Stage, tables, web, reads
<1>3. ASSUME NEW r \in Request, CreateClub(r)
      PROVE  TypeOK'
  <2>1. RequestsTyped' /\ (doubled' \in SUBSET Club => WebTyped')
    BY <1>3, CommitFacts, CommitsTyped, TypeParts DEF Committing
  <2>2. TablesTyped' /\ doubled' \in SUBSET Club
    BY <1>3 DEF CreateClub, TypeOK, TablesTyped, ClubRow, CallShape
  <2> QED
    BY <2>1, <2>2, TypePartsNext DEF TypeOK, WebTyped
<1>4. ASSUME NEW r \in Request, LoadForEdit(r)
      PROVE  TypeOK'
  <2>1. call' \in [Request -> Call]
    BY <1>4, TypeParts, OpensTyped, AccountAssumption DEF LoadForEdit, Viewer, EditOps, EventOps, CheckedOps, ReadOps, IsOrganizer
  <2>2. row' \in [Request -> ClubRow \cup EventRow \cup {NoClub}]
    BY <1>4 DEF LoadForEdit, TypeOK, reads
  <2> QED
    BY <1>4, <2>1, <2>2 DEF LoadForEdit, TypeOK, Goto, Stage, tables, web, reads
<1>5. ASSUME NEW r \in Request, CommitEdit(r)
      PROVE  TypeOK'
  <2>1. RequestsTyped' /\ (doubled' \in SUBSET Club => WebTyped')
    BY <1>5, CommitFacts, CommitsTyped, TypeParts DEF Committing
  <2>2. TablesTyped' /\ doubled' \in SUBSET Club
    <3>1. call[r].op \in EditOps /\ row[r] \in ClubRow /\ club[call[r].club] \in ClubRow
      BY <1>5 DEF CommitEdit, CallShape, TypeOK, Present, EditOps, EventOps
    <3>2. Flushed(club[call[r].club], row[r], Edited(call[r].op, row[r])) \in ClubRow
      BY <3>1, EditedTyped, FlushedClub
    <3> QED
      BY <1>5, <3>2 DEF CommitEdit, TypeOK, TablesTyped
  <2> QED
    BY <2>1, <2>2, TypePartsNext DEF TypeOK, WebTyped
<1>6. ASSUME NEW r \in Request, ChangeMember(r)
      PROVE  TypeOK'
  <2>1. RequestsTyped' /\ (doubled' \in SUBSET Club => WebTyped')
    BY <1>6, CommitFacts, CommitsTyped, TypeParts DEF Committing
  <2>2. TablesTyped' /\ doubled' \in SUBSET Club
    BY <1>6 DEF ChangeMember, TypeOK, TablesTyped
  <2> QED
    BY <2>1, <2>2, TypePartsNext DEF TypeOK, WebTyped
<1>7. ASSUME NEW r \in Request, CheckOrganizer(r)
      PROVE  TypeOK'
  <2>1. call' \in [Request -> Call]
    BY <1>7, TypeParts, OpensTyped, AccountAssumption DEF CheckOrganizer, Viewer, EditOps, EventOps, CheckedOps, ReadOps, IsOrganizer
  <2>2. row' \in [Request -> ClubRow \cup EventRow \cup {NoClub}]
    BY <1>7 DEF CheckOrganizer, TypeOK, reads
  <2> QED
    BY <1>7, <2>1, <2>2 DEF CheckOrganizer, TypeOK, Goto, Stage, tables, web, reads
<1>8. ASSUME NEW r \in Request, DeleteClub(r)
      PROVE  TypeOK'
  <2>1. RequestsTyped' /\ (doubled' \in SUBSET Club => WebTyped')
    BY <1>8, CommitFacts, CommitsTyped, TypeParts DEF Committing
  <2>2. TablesTyped' /\ doubled' \in SUBSET Club
    BY <1>8 DEF DeleteClub, TypeOK, TablesTyped, NoMembers
  <2> QED
    BY <2>1, <2>2, TypePartsNext DEF TypeOK, WebTyped
<1>9. ASSUME NEW r \in Request, PlanEvent(r)
      PROVE  TypeOK'
  <2>1. RequestsTyped' /\ (doubled' \in SUBSET Club => WebTyped')
    BY <1>9, CommitFacts, CommitsTyped, TypeParts DEF Committing
  <2>2. TablesTyped' /\ doubled' \in SUBSET Club
    BY <1>9 DEF PlanEvent, TypeOK, TablesTyped, CallShape, EventRow
  <2> QED
    BY <2>1, <2>2, TypePartsNext DEF TypeOK, WebTyped
<1>10. ASSUME NEW r \in Request, StoreDraw(r)
      PROVE  TypeOK'
  <2>1. RequestsTyped'
    BY <1>10, DoneTyped, TypeParts DEF StoreDraw
  <2> QED
    BY <1>10, <2>1, TypePartsNext, BoundAssumption DEF StoreDraw, TypeOK, TablesTyped, WebTyped, tables, web, CallShape
<1>11. ASSUME NEW r \in Request, LoadEvent(r)
      PROVE  TypeOK'
  <2>1. PICK u \in User, e \in Event, op \in EventOps, w \in User \cup {Nobody} :
             /\ event[e] # Unplanned
             /\ Opens(r, op, u, event[e].club, e, w)
             /\ row' = [row EXCEPT ![r] = event[e]]
    BY <1>11 DEF LoadEvent
  <2>2. event[e].club \in Club
    BY <2>1 DEF TypeOK, EventRow
  <2>3. call' \in [Request -> Call]
    BY <2>1, <2>2, TypeParts, OpensTyped DEF Viewer
  <2>4. row' \in [Request -> ClubRow \cup EventRow \cup {NoClub}]
    BY <2>1 DEF TypeOK
  <2> QED
    BY <1>11, <2>3, <2>4 DEF LoadEvent, TypeOK, Goto, Stage, tables, web
<1>12. ASSUME NEW r \in Request, CommitEvent(r)
      PROVE  TypeOK'
  <2>1. RequestsTyped' /\ (doubled' \in SUBSET Club => WebTyped')
    BY <1>12, CommitFacts, CommitsTyped, TypeParts DEF Committing
  <2>2. TablesTyped' /\ doubled' \in SUBSET Club
    <3>1. /\ call[r].event \in Event /\ row[r] \in EventRow
          /\ call[r].winner \in User \cup {Nobody} /\ call[r].op \in EventOps
      BY <1>12, ClubRows DEF CommitEvent, TypeOK, CallShape, Call, EventOps, EditOps, ReadOps
    <3>2. event[call[r].event] \in EventRow
      BY <1>12, <3>1, AccountAssumption DEF CommitEvent, TypeOK, CallShape, Unplanned
    <3>3. Flushed(event[call[r].event], row[r], EventEdited(call[r].op, row[r], call[r].winner)) \in EventRow
      BY <3>1, <3>2, EventEditedTyped, FlushedEvent
    <3> QED
      BY <1>12, <3>3 DEF CommitEvent, TypeOK, TablesTyped
  <2> QED
    BY <2>1, <2>2, TypePartsNext DEF TypeOK, WebTyped
<1>13. ASSUME NEW r \in Request, RollBack(r)
      PROVE  TypeOK'
  <2>1. RequestsTyped'
    BY <1>13, DoneTyped, TypeParts DEF RollBack
  <2> QED
    BY <1>13, <2>1, TypePartsNext DEF RollBack, TypeOK, TablesTyped, WebTyped, tables, web
<1>14. ASSUME NEW r \in Request, Revalidate(r)
      PROVE  TypeOK'
  <2>1. call' \in [Request -> Call] /\ site' \in [Club -> Page]
    BY <1>14, ConstantsTyped DEF Revalidate, TypeOK
  <2> QED
    BY <1>14, <2>1 DEF Revalidate, TypeOK, Goto, Stage, tables, reads
<1>15. ASSUME NEW r \in Request, RevalidateFails(r)
      PROVE  TypeOK'
  <2>1. RequestsTyped'
    BY <1>15, DoneTyped, TypeParts DEF RevalidateFails
  <2> QED
    BY <1>15, <2>1, TypePartsNext, BoundAssumption DEF RevalidateFails, TypeOK, TablesTyped, WebTyped, tables, web, CallShape, CheckedOps
<1>16. ASSUME NEW r \in Request, GetClub(r)
      PROVE  TypeOK'
  BY <1>16, OpensReadTyped, AccountAssumption DEF GetClub, ReadOps, Viewer, Stage
<1>17. ASSUME NEW r \in Request, ReadEvents(r)
      PROVE  TypeOK'
  BY <1>17, OpensReadTyped, AccountAssumption DEF ReadEvents, ReadOps, Viewer, Stage
<1>18. ASSUME NEW r \in Request, ListClubs(r)
      PROVE  TypeOK'
  BY <1>18, OpensReadTyped, AccountAssumption DEF ListClubs, ReadOps, Viewer, Stage
<1>19. ASSUME NEW r \in Request, ListMyClubs(r)
      PROVE  TypeOK'
  BY <1>19, OpensReadTyped, AccountAssumption DEF ListMyClubs, ReadOps, Viewer, Stage
<1>20. ASSUME NEW r \in Request, ListEvents(r)
      PROVE  TypeOK'
  <2>1. PICK u \in Viewer, e \in Event : event[e] # Unplanned /\ OpensRead(r, "list", u, event[e].club, "allowed")
    BY <1>20 DEF ListEvents
  <2>2. event[e].club \in Club
    BY <2>1 DEF TypeOK, EventRow
  <2> QED
    BY <2>1, <2>2, OpensReadTyped DEF ReadOps, Stage
<1>21. ASSUME NEW r \in Request, Authorize(r)
      PROVE  TypeOK'
  BY <1>21 DEF Authorize, TypeOK, Goto, Stage, tables, web, reads
<1>22. ASSUME NEW r \in Request, ShowStub(r)
      PROVE  TypeOK'
  <2>1. ClubStub(CountMembers(call[r].club)) \in Page
    BY CountMembersType DEF ClubStub, NoPage, Page
  <2> QED
    BY <1>22, <2>1, AnswerTyped DEF ShowStub
<1>23. ASSUME NEW r \in Request, ShowNoEvents(r)
      PROVE  TypeOK'
  BY <1>23, AnswerTyped, ConstantsTyped DEF ShowNoEvents
<1>24. ASSUME NEW r \in Request, ShowEvents(r)
      PROVE  TypeOK'
  BY <1>24, AnswerTyped, ConstantsTyped DEF ShowEvents
<1>25. ASSUME NEW r \in Request, ShowSignedIn(r)
      PROVE  TypeOK'
  BY <1>25, AnswerTyped, ConstantsTyped DEF ShowSignedIn
<1>26. ASSUME NEW r \in Request, Count(r)
      PROVE  TypeOK'
  <2>1. draft' \in [Request -> Page]
    BY <1>26, CountMembersType DEF Count, TypeOK, Page
  <2> QED
    BY <1>26, <2>1 DEF Count, TypeOK, Goto, Stage, tables, web
<1>27. ASSUME NEW r \in Request, ShowClub(r)
      PROVE  TypeOK'
  <2>1. ClubResponse(row[r].status, draft[r].count, CurrentChampion(call[r].club)) \in Page
    BY <1>27, ChampionType DEF ShowClub, CallShape, TypeOK, ClubRow, ClubResponse, Page
  <2> QED
    BY <1>27, <2>1, AnswerTyped DEF ShowClub
<1> QED
  BY <1>1, <1>2, <1>3, <1>4, <1>5, <1>6, <1>7, <1>8, <1>9, <1>10,
     <1>11, <1>12, <1>13, <1>14, <1>15, <1>16, <1>17, <1>18, <1>19, <1>20,
     <1>21, <1>22, <1>23, <1>24, <1>25, <1>26, <1>27 DEF Next

-----------------------------------------------------------------------------
(* The steps, by what they do to the request that takes them.              *)

(* A request that will change something begins.                            *)
Starting(r) ==
  /\ \E op \in CheckedOps \cup EditOps \cup EventOps, u \in User, c \in Club,
        e \in Event \cup {NoEvent}, w \in User \cup {Nobody} :
       /\ Opens(r, op, u, c, e, w)
       /\ IF op = "create" THEN ~Present(c) /\ ~Owns(u) /\ \A q \in Request : call[q].club # c
                           ELSE Present(c)
       /\ \/ op \in CheckedOps /\ Goto(r, "checked") /\ row' = row
          \/ op \in EditOps /\ Goto(r, "loaded") /\ row' = [row EXCEPT ![r] = club[c]]
          \/ /\ op \in EventOps /\ Goto(r, "loaded")
             /\ e \in Event /\ event[e] \in EventRow /\ row' = [row EXCEPT ![r] = event[e]]
  /\ UNCHANGED <<tables, web, draft, crossed, doubled, entitled, current>>

(* A reader begins.                                                        *)
Reading(r) ==
  \E op \in ReadOps, u \in Viewer, c \in Club, s \in {"loaded", "allowed"} :
    /\ OpensRead(r, op, u, c, s)
    /\ Present(c)
    /\ s = "allowed" => op = "list" /\ Entitles(u, club[c], role[c])

(* A request ends; the page it made may be kept.                           *)
Finishing(r) ==
  /\ stage[r] # "idle" /\ Done(r)
  /\ UNCHANGED <<club, role, event, doubled>>
  /\ untold' = IF stage[r] = "written" THEN untold \cup {call[r].club} ELSE untold
  /\ \/ site' = site
     \/ /\ ForSite(r) /\ r \in current
        /\ \/ /\ stage[r] = "barred"
              /\ site' = [site EXCEPT ![call[r].club] = ClubStub(CountMembers(call[r].club))]
           \/ /\ stage[r] = "counted"
              /\ site' = [site EXCEPT ![call[r].club] =
                   ClubResponse(row[r].status, draft[r].count, CurrentChampion(call[r].club))]

LEMMA StepKinds ==
  ASSUME TypeOK, CallShape, NoOrphans, Next
  PROVE  \E r \in Request :
           \/ Committing(r) \/ Starting(r) \/ Reading(r) \/ Finishing(r)
           \/ Authorize(r) \/ Count(r) \/ Revalidate(r)
<1>1. PICK r \in Request :
        \/ LookForOwnClub(r) \/ CreateClub(r)
        \/ LoadForEdit(r) \/ CommitEdit(r)
        \/ ChangeMember(r)
        \/ CheckOrganizer(r) \/ DeleteClub(r) \/ PlanEvent(r) \/ StoreDraw(r)
        \/ LoadEvent(r) \/ CommitEvent(r)
        \/ RollBack(r) \/ Revalidate(r) \/ RevalidateFails(r)
        \/ GetClub(r) \/ ReadEvents(r) \/ ListClubs(r) \/ ListMyClubs(r) \/ ListEvents(r)
        \/ Authorize(r) \/ ShowStub(r) \/ ShowNoEvents(r) \/ ShowEvents(r)
        \/ ShowSignedIn(r) \/ Count(r) \/ ShowClub(r)
  BY DEF Next
<1>2. \A u \in User, c \in Club : role[c][u] # "none" => Present(c)
  BY DEF NoOrphans, NoMembers
<1>3. ASSUME LookForOwnClub(r)
      PROVE  Starting(r)
  BY <1>3, AccountAssumption DEF LookForOwnClub, Starting, CheckedOps, reads
<1>4. ASSUME LoadForEdit(r)
      PROVE  Starting(r)
  BY <1>2, <1>4 DEF LoadForEdit, Starting, IsOrganizer, EditOps
<1>5. ASSUME CheckOrganizer(r)
      PROVE  Starting(r)
  BY <1>2, <1>5 DEF CheckOrganizer, Starting, IsOrganizer, CheckedOps, reads
<1>6. ASSUME LoadEvent(r)
      PROVE  Starting(r)
  <2>1. PICK u \in User, e \in Event, op \in EventOps, w \in User \cup {Nobody} :
          /\ event[e] # Unplanned
          /\ Opens(r, op, u, event[e].club, e, w)
    BY <1>6 DEF LoadEvent
  <2>2. event[e] \in EventRow /\ event[e].club \in Club /\ Present(event[e].club)
    BY <2>1 DEF TypeOK, EventRow, NoOrphans
  <2>3. op # "create" /\ row' = [row EXCEPT ![r] = event[e]]
    BY <1>6, <2>1 DEF LoadEvent, Opens, EventOps, TypeOK
  <2> QED
    BY <1>6, <2>1, <2>2, <2>3 DEF LoadEvent, Starting
<1>7. ASSUME StoreDraw(r) \/ RollBack(r) \/ RevalidateFails(r)
      PROVE  Finishing(r)
  BY <1>7 DEF StoreDraw, RollBack, RevalidateFails, Finishing, tables, web
<1>8. ASSUME GetClub(r) \/ ReadEvents(r)
      PROVE  Reading(r)
  BY <1>8 DEF GetClub, ReadEvents, Reading, ReadOps
<1>9. ASSUME ListClubs(r)
      PROVE  Reading(r)
  BY <1>9 DEF ListClubs, Reading, ReadOps, Listed, IsMember, Entitles, Present
<1>10. ASSUME ListMyClubs(r)
       PROVE  Reading(r)
  <2>1. PICK u \in User, c \in Club :
          /\ IsMember(u, c) \/ club[c].owner = u
          /\ OpensRead(r, "list", u, c, "allowed")
    BY <1>10 DEF ListMyClubs
  <2>2. Present(c)
    <3>1. CASE IsMember(u, c)
      BY <1>2, <3>1 DEF IsMember
    <3>2. CASE club[c].owner = u
      BY <3>2, AccountAssumption DEF Present, NoClub
    <3> QED
      BY <2>1, <3>1, <3>2
  <2> QED
    BY <2>1, <2>2 DEF Reading, ReadOps, Viewer, IsMember, Entitles, Present
<1>11. ASSUME ListEvents(r)
       PROVE  Reading(r)
  <2>1. PICK u \in Viewer, e \in Event :
          /\ event[e] # Unplanned
          /\ ListedEvents(u, event[e].club)
          /\ OpensRead(r, "list", u, event[e].club, "allowed")
    BY <1>11 DEF ListEvents
  <2>2. event[e].club \in Club /\ Present(event[e].club)
    BY <2>1 DEF TypeOK, EventRow, NoOrphans
  <2> QED
    BY <2>1, <2>2 DEF Reading, ReadOps, ListedEvents, Listed, IsMember, Entitles, Present
<1>12. ASSUME ShowStub(r) \/ ShowNoEvents(r) \/ ShowEvents(r) \/ ShowSignedIn(r) \/ ShowClub(r)
       PROVE  Finishing(r)
  BY <1>12 DEF ShowStub, ShowNoEvents, ShowEvents, ShowSignedIn, ShowClub,
               Answer, ForSite, Finishing, tables
<1> QED
  BY <1>1, <1>3, <1>4, <1>5, <1>6, <1>7, <1>8, <1>9, <1>10, <1>11, <1>12 DEF Committing

-----------------------------------------------------------------------------
(* The other conjuncts of the invariant.                                   *)

LEMMA ShapeKept ==
  ASSUME TypeOK, CallShape, NoOrphans, FreshClubs, [Next]_vars
  PROVE  CallShape'
<1>1. CASE UNCHANGED vars
  BY <1>1 DEF CallShape, vars, reads
<1>2. ASSUME NEW r \in Request, Committing(r)
      PROVE  CallShape'
  <2>1. PICK c \in Club, op \in EditOps \cup EventOps \cup CheckedOps \cup {"role"} : Commits(r, op, c)
    BY <1>2, CommitFacts
  <2>2. op \notin ReadOps /\ call'[r].club = c /\ call'[r].op = op /\ stage'[r] = "written"
    BY <2>1 DEF Commits, TypeOK, Goto, NoCall, EditOps, EventOps, CheckedOps, ReadOps
  <2>3. \A q \in Request \ {r} : call'[q] = call[q] /\ stage'[q] = stage[q] /\ row'[q] = row[q]
    BY <2>1 DEF Commits, TypeOK, Goto
  <2> QED
    BY <2>2, <2>3 DEF CallShape
<1>3. ASSUME NEW r \in Request, Starting(r)
      PROVE  CallShape'
  <2>1. \A q \in Request \ {r} : call'[q] = call[q] /\ stage'[q] = stage[q] /\ row'[q] = row[q]
    BY <1>3 DEF Starting, TypeOK, Goto, Opens
  <2>2. call'[r].club \in Club /\ call'[r].by \in User
    BY <1>3 DEF Starting, TypeOK, Opens
  <2>3. \/ stage'[r] = "checked" /\ call'[r].op \in CheckedOps
        \/ stage'[r] = "loaded" /\ call'[r].op \in EditOps /\ row'[r] \in ClubRow
        \/ /\ stage'[r] = "loaded" /\ call'[r].op \in EventOps
           /\ row'[r] \in EventRow /\ call'[r].event \in Event
    <3>1. PICK op \in CheckedOps \cup EditOps \cup EventOps, u \in User, c \in Club,
               e \in Event \cup {NoEvent}, w \in User \cup {Nobody} :
            /\ Opens(r, op, u, c, e, w)
            /\ op = "create" \/ Present(c)
            /\ \/ op \in CheckedOps /\ Goto(r, "checked")
               \/ op \in EditOps /\ Goto(r, "loaded") /\ row' = [row EXCEPT ![r] = club[c]]
               \/ /\ op \in EventOps /\ Goto(r, "loaded")
                  /\ e \in Event /\ event[e] \in EventRow /\ row' = [row EXCEPT ![r] = event[e]]
      BY <1>3 DEF Starting
    <3>2. call'[r].op = op /\ call'[r].event = e
      BY <3>1 DEF Opens, TypeOK
    <3>3. op \in EditOps => club[c] \in ClubRow
      BY <3>1 DEF EditOps, Present, TypeOK
    <3> QED
      BY <3>1, <3>2, <3>3 DEF Goto, TypeOK
  <2> QED
    BY <2>1, <2>2, <2>3 DEF CallShape
<1>4. ASSUME NEW r \in Request, Reading(r)
      PROVE  CallShape'
  <2>1. \A q \in Request \ {r} : call'[q] = call[q] /\ stage'[q] = stage[q] /\ row'[q] = row[q]
    BY <1>4 DEF Reading, OpensRead, TypeOK, Goto, Opens
  <2>2. /\ call'[r].club \in Club /\ call'[r].op \in ReadOps /\ row'[r] \in ClubRow
        /\ stage'[r] \in {"loaded", "allowed"}
    BY <1>4 DEF Reading, OpensRead, TypeOK, Goto, Opens, Present
  <2> QED
    BY <2>1, <2>2 DEF CallShape
<1>5. ASSUME NEW r \in Request, Finishing(r)
      PROVE  CallShape'
  <2>1. \A q \in Request \ {r} : call'[q] = call[q] /\ stage'[q] = stage[q] /\ row'[q] = row[q]
    BY <1>5 DEF Finishing, Done, TypeOK, Goto
  <2>2. stage'[r] = "idle" /\ call'[r] = NoCall
    BY <1>5 DEF Finishing, Done, TypeOK, Goto
  <2> QED
    BY <2>1, <2>2 DEF CallShape
<1>6. ASSUME NEW r \in Request, Authorize(r)
      PROVE  CallShape'
  BY <1>6 DEF Authorize, CallShape, TypeOK, Goto, reads, EditOps, EventOps, ReadOps
<1>7. ASSUME NEW r \in Request, Count(r)
      PROVE  CallShape'
  BY <1>7 DEF Count, CallShape, TypeOK, Goto, ForSite
<1>8. ASSUME NEW r \in Request, Revalidate(r)
      PROVE  CallShape'
  BY <1>8 DEF Revalidate, CallShape, TypeOK, Goto, reads
<1> QED
  BY <1>1, <1>2, <1>3, <1>4, <1>5, <1>6, <1>7, <1>8, StepKinds

LEMMA OrphansKept ==
  ASSUME TypeOK, CallShape, NoOrphans, FreshClubs, [Next]_vars
  PROVE  NoOrphans'
<1>1. CASE UNCHANGED vars
  BY <1>1 DEF NoOrphans, Present, vars, tables
<1>2. ASSUME NEW r \in Request, Committing(r)
      PROVE  NoOrphans'
  <2>1. PICK c \in Club :
          /\ \A d \in Club \ {c} : club'[d] = club[d] /\ role'[d] = role[d]
          /\ \A e \in Event :
               \/ event'[e] = event[e]
               \/ event[e].club = c /\ event'[e] = Unplanned
               \/ event'[e].club = c /\ event[e] = Unplanned
               \/ event[e].club = c /\ event'[e].club = c
          /\ stage[r] # "idle" => call[r].club = c
          /\ stage[r] = "idle" => Present(c)
    BY <1>2, CommitFacts
  <2>2. CASE DeleteClub(r)
    <3>1. call[r].club = c /\ \A e \in Event : event'[e] # Unplanned => event'[e].club # c
      BY <2>1, <2>2 DEF DeleteClub, TypeOK
    <3>2. \A e \in Event : event'[e] # Unplanned => event'[e] = event[e]
      BY <2>2 DEF DeleteClub
    <3>3. role'[c] = NoMembers
      BY <2>2, <3>1 DEF DeleteClub, TypeOK
    <3>4. \A e \in Event : event[e] # Unplanned => event[e].club \in Club
      BY DEF TypeOK, EventRow
    <3> QED
      BY <2>1, <3>1, <3>2, <3>3, <3>4 DEF NoOrphans, Present
  <2>3. CASE ~DeleteClub(r)
    <3>1. Present(c)'
      <4>1. CASE CreateClub(r)
        BY <2>1, <4>1 DEF CreateClub, Present, TypeOK, NoClub
      <4>2. CASE CommitEdit(r)
        <5>1. call[r].club = c /\ call[r].op \in EditOps /\ row[r] \in ClubRow /\ club[c] \in ClubRow
          BY <2>1, <4>2 DEF CommitEdit, CallShape, TypeOK, Present, EditOps, EventOps
        <5>2. Flushed(club[c], row[r], Edited(call[r].op, row[r])) \in ClubRow
          BY <5>1, EditedTyped, FlushedClub
        <5> QED
          BY <4>2, <5>1, <5>2, ClubRows DEF CommitEdit, TypeOK, Present
      <4>3. CASE ChangeMember(r)
        BY <2>1, <4>3 DEF ChangeMember, Present
      <4>4. CASE PlanEvent(r)
        BY <2>1, <4>4 DEF PlanEvent, Present
      <4>5. CASE CommitEvent(r)
        <5>1. call[r].event \in Event /\ call[r].club = c /\ event[call[r].event] # Unplanned
          BY <2>1, <4>5, AccountAssumption, ClubRows DEF CommitEvent, CallShape, Unplanned, EventOps, EditOps, ReadOps
        <5> QED
          BY <4>5, <5>1 DEF CommitEvent, NoOrphans, Present
      <4> QED
        BY <1>2, <2>3, <4>1, <4>2, <4>3, <4>4, <4>5 DEF Committing
    <3>2. \A e \in Event : event[e] # Unplanned => event[e].club \in Club
      BY DEF TypeOK, EventRow
    <3> QED
      BY <2>1, <3>1, <3>2 DEF NoOrphans, Present
  <2> QED
    BY <2>2, <2>3
<1>3. ASSUME NEW r \in Request, Starting(r)
      PROVE  NoOrphans'
  BY <1>3 DEF NoOrphans, Present, Starting, tables
<1>4. ASSUME NEW r \in Request, Reading(r)
      PROVE  NoOrphans'
  BY <1>4 DEF NoOrphans, Present, Reading, OpensRead, tables
<1>5. ASSUME NEW r \in Request, Finishing(r)
      PROVE  NoOrphans'
  BY <1>5 DEF NoOrphans, Present, Finishing
<1>6. ASSUME NEW r \in Request, Authorize(r)
      PROVE  NoOrphans'
  BY <1>6 DEF NoOrphans, Present, Authorize, tables
<1>7. ASSUME NEW r \in Request, Count(r)
      PROVE  NoOrphans'
  BY <1>7 DEF NoOrphans, Present, Count, tables
<1>8. ASSUME NEW r \in Request, Revalidate(r)
      PROVE  NoOrphans'
  BY <1>8 DEF NoOrphans, Present, Revalidate, tables
<1> QED
  BY <1>1, <1>2, <1>3, <1>4, <1>5, <1>6, <1>7, <1>8, StepKinds

LEMMA FreshKept ==
  ASSUME TypeOK, CallShape, NoOrphans, FreshClubs, [Next]_vars
  PROVE  FreshClubs'
<1>1. CASE UNCHANGED vars
  BY <1>1 DEF FreshClubs, Present, Owns, vars, tables
<1>2. ASSUME NEW r \in Request, Committing(r)
      PROVE  FreshClubs'
  <2>1. PICK c \in Club, op \in EditOps \cup EventOps \cup CheckedOps \cup {"role"} :
          /\ Commits(r, op, c)
          /\ \A d \in Club \ {c} : club'[d] = club[d]
          /\ stage[r] # "idle" => call[r].club = c
          /\ stage[r] = "idle" => Present(c)
    BY <1>2, CommitFacts
  <2>2. call'[r].club = c /\ stage'[r] = "written"
    BY <2>1 DEF Commits, TypeOK, Goto, NoCall
  <2>3. \A q \in Request \ {r} : call'[q] = call[q] /\ stage'[q] = stage[q]
    BY <2>1 DEF Commits, TypeOK, Goto
  <2> SUFFICES ASSUME NEW q \in Request, stage'[q] = "checked", call'[q].op = "create"
               PROVE  /\ ~Present(call[q].club)'
                      /\ \A p \in Request \ {q} : call'[p].club # call'[q].club
                      /\ q \in crossed' \/ ~Owns(call[q].by)'
    BY <2>2, <2>3 DEF FreshClubs
  <2>4. q # r /\ stage[q] = "checked" /\ call[q].op = "create" /\ call'[q] = call[q]
    BY <2>2, <2>3
  <2>5. /\ call[q].club \in Club /\ ~Present(call[q].club)
        /\ \A p \in Request \ {q} : call[p].club # call[q].club
        /\ q \in crossed \/ ~Owns(call[q].by)
    BY <2>4 DEF FreshClubs, CallShape
  <2>6. call[q].club # c
    BY <2>1, <2>4, <2>5
  <2>7. ~Present(call[q].club)'
    BY <2>1, <2>4, <2>5, <2>6 DEF Present
  <2>8. q \in crossed' \/ ~Owns(call[q].by)'
    <3>1. crossed \subseteq crossed'
      BY <2>1 DEF Commits
    <3>2. CASE club'[c] = club[c]
      BY <2>1, <2>4, <2>5, <3>1, <3>2 DEF Owns
    <3>3. CASE club'[c] # club[c] /\ club'[c].owner = call[q].by
      BY <2>1, <2>4, <3>3 DEF Commits, Touched
    <3>4. CASE club'[c].owner # call[q].by
      BY <2>1, <2>4, <2>5, <3>1, <3>4 DEF Owns
    <3> QED
      BY <3>2, <3>3, <3>4
  <2> QED
    BY <2>2, <2>3, <2>4, <2>5, <2>6, <2>7, <2>8
<1>3. ASSUME NEW r \in Request, Starting(r)
      PROVE  FreshClubs'
  <2>1. PICK op \in CheckedOps \cup EditOps \cup EventOps, u \in User, c \in Club,
             e \in Event \cup {NoEvent}, w \in User \cup {Nobody} :
          /\ Opens(r, op, u, c, e, w)
          /\ IF op = "create" THEN ~Present(c) /\ ~Owns(u) /\ \A q \in Request : call[q].club # c
                              ELSE Present(c)
          /\ Goto(r, "checked") \/ Goto(r, "loaded")
    BY <1>3 DEF Starting
  <2>2. call'[r].op = op /\ call'[r].by = u /\ call'[r].club = c
    BY <2>1 DEF Opens, TypeOK
  <2>3. \A q \in Request \ {r} : call'[q] = call[q] /\ stage'[q] = stage[q]
    BY <2>1 DEF Opens, TypeOK, Goto
  <2>4. club' = club /\ crossed' = crossed
    BY <1>3 DEF Starting, tables
  <2> QED
    BY <2>1, <2>2, <2>3, <2>4 DEF FreshClubs, Present, Owns
<1>4. ASSUME NEW r \in Request, Reading(r)
      PROVE  FreshClubs'
  <2>1. PICK op \in ReadOps, u \in Viewer, c \in Club, s \in {"loaded", "allowed"} :
          OpensRead(r, op, u, c, s) /\ Present(c)
    BY <1>4 DEF Reading
  <2>2. call'[r].club = c /\ stage'[r] # "checked"
    BY <2>1 DEF OpensRead, Opens, TypeOK, Goto
  <2>3. \A q \in Request \ {r} : call'[q] = call[q] /\ stage'[q] = stage[q]
    BY <2>1 DEF OpensRead, Opens, TypeOK, Goto
  <2>4. club' = club /\ crossed' = crossed
    BY <2>1 DEF OpensRead, tables
  <2> QED
    BY <2>1, <2>2, <2>3, <2>4 DEF FreshClubs, Present, Owns
<1>5. ASSUME NEW r \in Request, Finishing(r)
      PROVE  FreshClubs'
  <2>1. \A q \in Request :
          \/ stage'[q] # "checked" /\ call'[q].club \in {call[q].club, Nobody}
          \/ stage'[q] = stage[q] /\ call'[q] = call[q] /\ (q \in crossed => q \in crossed')
    BY <1>5 DEF Finishing, Done, TypeOK, Goto, NoCall
  <2>2. \A q \in Request : stage[q] = "checked" => call[q].club \in Club
    BY DEF CallShape
  <2> QED
    BY <1>5, <2>1, <2>2, AccountAssumption DEF FreshClubs, Present, Owns, Finishing
<1>6. ASSUME NEW r \in Request, Authorize(r)
      PROVE  FreshClubs'
  <2>1. \A q \in Request :
          \/ stage'[q] # "checked" /\ call'[q].club \in {call[q].club, Nobody}
          \/ stage'[q] = stage[q] /\ call'[q] = call[q] /\ (q \in crossed => q \in crossed')
    BY <1>6 DEF Authorize, TypeOK, Goto, NoCall
  <2>2. \A q \in Request : stage[q] = "checked" => call[q].club \in Club
    BY DEF CallShape
  <2> QED
    BY <1>6, <2>1, <2>2, AccountAssumption DEF FreshClubs, Present, Owns, Authorize, tables
<1>7. ASSUME NEW r \in Request, Count(r)
      PROVE  FreshClubs'
  <2>1. \A q \in Request :
          \/ stage'[q] # "checked" /\ call'[q].club \in {call[q].club, Nobody}
          \/ stage'[q] = stage[q] /\ call'[q] = call[q] /\ (q \in crossed => q \in crossed')
    BY <1>7 DEF Count, TypeOK, Goto, NoCall
  <2>2. \A q \in Request : stage[q] = "checked" => call[q].club \in Club
    BY DEF CallShape
  <2> QED
    BY <1>7, <2>1, <2>2, AccountAssumption DEF FreshClubs, Present, Owns, Count, tables
<1>8. ASSUME NEW r \in Request, Revalidate(r)
      PROVE  FreshClubs'
  <2>1. \A q \in Request :
          \/ stage'[q] # "checked" /\ call'[q].club \in {call[q].club, Nobody}
          \/ stage'[q] = stage[q] /\ call'[q] = call[q] /\ (q \in crossed => q \in crossed')
    BY <1>8 DEF Revalidate, TypeOK, Goto, NoCall
  <2>2. \A q \in Request : stage[q] = "checked" => call[q].club \in Club
    BY DEF CallShape
  <2> QED
    BY <1>8, <2>1, <2>2, AccountAssumption DEF FreshClubs, Present, Owns, Revalidate, tables
<1> QED
  BY <1>1, <1>2, <1>3, <1>4, <1>5, <1>6, <1>7, <1>8, StepKinds

(* Two clubs of one owner: the second was asked for before the first was   *)
(* there.                                                                  *)
LEMMA SecondKept ==
  ASSUME TypeOK, CallShape, NoOrphans, FreshClubs, SecondClubsOverlapped, [Next]_vars
  PROVE  SecondClubsOverlapped'
<1>1. CASE UNCHANGED vars
  BY <1>1 DEF SecondClubsOverlapped, Present, vars, tables
<1>2. ASSUME NEW r \in Request, Committing(r)
      PROVE  SecondClubsOverlapped'
  <2>1. CASE CreateClub(r)
    <3> DEFINE c == call[r].club
               u == call[r].by
    <3>1. c \in Club /\ u \in User /\ (r \in crossed \/ ~Owns(u))
      BY <2>1 DEF CreateClub, CallShape, FreshClubs
    <3>2. club'[c].owner = u /\ \A d \in Club \ {c} : club'[d] = club[d]
      BY <2>1, <3>1 DEF CreateClub, TypeOK
    <3>3. doubled' = IF r \in crossed THEN doubled \cup {c} ELSE doubled
      BY <2>1 DEF CreateClub
    <3> HIDE DEF c, u
    <3> QED
      BY <3>1, <3>2, <3>3 DEF SecondClubsOverlapped, Present, Owns
  <2>2. CASE CommitEdit(r)
    <3> DEFINE c == call[r].club
    <3>1. c \in Club /\ call[r].op \in EditOps /\ row[r] \in ClubRow /\ club[c] \in ClubRow
      BY <2>2 DEF CommitEdit, CallShape, TypeOK, Present, EditOps, EventOps
    <3>2. Flushed(club[c], row[r], Edited(call[r].op, row[r])).owner = club[c].owner
      BY <3>1, EditedTyped, FlushedClub
    <3>3. /\ club'[c].owner = club[c].owner
          /\ \A d \in Club \ {c} : club'[d] = club[d]
          /\ doubled' = doubled
      BY <2>2, <3>1, <3>2 DEF CommitEdit, TypeOK
    <3>4. Present(c)
      BY <2>2 DEF CommitEdit
    <3> HIDE DEF c
    <3> QED
      BY <3>1, <3>3, <3>4 DEF SecondClubsOverlapped, Present
  <2>3. CASE DeleteClub(r)
    <3> DEFINE c == call[r].club
    <3>1. c \in Club
      BY <2>3 DEF DeleteClub, CallShape
    <3>2. /\ club'[c] = NoClub
          /\ \A d \in Club \ {c} : club'[d] = club[d]
          /\ doubled' = doubled \ {c}
      BY <2>3, <3>1 DEF DeleteClub, TypeOK
    <3>3. \A d \in Club : Present(d) => club[d].owner # Nobody
      BY AccountAssumption DEF Present, TypeOK, ClubRow
    <3>4. NoClub.owner = Nobody
      BY DEF NoClub
    <3> HIDE DEF c
    <3> QED
      BY <3>1, <3>2, <3>3, <3>4 DEF SecondClubsOverlapped, Present
  <2>4. CASE ChangeMember(r) \/ PlanEvent(r) \/ CommitEvent(r)
    BY <2>4 DEF ChangeMember, PlanEvent, CommitEvent, SecondClubsOverlapped, Present
  <2> QED
    BY <1>2, <2>1, <2>2, <2>3, <2>4 DEF Committing
<1>3. ASSUME NEW r \in Request, Starting(r)
      PROVE  SecondClubsOverlapped'
  BY <1>3 DEF SecondClubsOverlapped, Present, Starting, tables
<1>4. ASSUME NEW r \in Request, Reading(r)
      PROVE  SecondClubsOverlapped'
  BY <1>4 DEF SecondClubsOverlapped, Present, Reading, OpensRead, tables
<1>5. ASSUME NEW r \in Request, Finishing(r)
      PROVE  SecondClubsOverlapped'
  BY <1>5 DEF SecondClubsOverlapped, Present, Finishing
<1>6. ASSUME NEW r \in Request, Authorize(r)
      PROVE  SecondClubsOverlapped'
  BY <1>6 DEF SecondClubsOverlapped, Present, Authorize, tables
<1>7. ASSUME NEW r \in Request, Count(r)
      PROVE  SecondClubsOverlapped'
  BY <1>7 DEF SecondClubsOverlapped, Present, Count, tables
<1>8. ASSUME NEW r \in Request, Revalidate(r)
      PROVE  SecondClubsOverlapped'
  BY <1>8 DEF SecondClubsOverlapped, Present, Revalidate, tables
<1> QED
  BY <1>1, <1>2, <1>3, <1>4, <1>5, <1>6, <1>7, <1>8, StepKinds

LEMMA RowsKept ==
  ASSUME TypeOK, CallShape, NoOrphans, FreshClubs, LoadedRowsStand, [Next]_vars
  PROVE  LoadedRowsStand'
<1>1. CASE UNCHANGED vars
  BY <1>1 DEF LoadedRowsStand, vars, tables, reads
<1>2. ASSUME NEW r \in Request, Committing(r)
      PROVE  LoadedRowsStand'
  <2>1. PICK c \in Club, op \in EditOps \cup EventOps \cup CheckedOps \cup {"role"} :
          /\ Commits(r, op, c)
          /\ stage[r] # "idle" => call[r].op = op /\ call[r].club = c
          /\ stage[r] = "idle" => op = "role" /\ Present(c)
          /\ stage[r] # "written" /\ call[r].op \notin ReadOps
          /\ \A d \in Club \ {c} : club'[d] = club[d] /\ role'[d] = role[d]
          /\ \A e \in Event :
               \/ event'[e] = event[e]
               \/ event[e].club = c /\ event'[e] = Unplanned
               \/ event'[e].club = c /\ event[e] = Unplanned
               \/ event[e].club = c /\ event'[e].club = c
    BY <1>2, CommitFacts
  <2>2. /\ call'[r].club = c /\ call'[r].op = op /\ op \notin ReadOps /\ call'[r].by = Nobody
        /\ stage'[r] = "written"
    BY <2>1 DEF Commits, TypeOK, Goto, NoCall, EditOps, EventOps, CheckedOps, ReadOps
  <2>3. \A q \in Request \ {r} :
          call'[q] = call[q] /\ stage'[q] = stage[q] /\ row'[q] = row[q] /\ draft'[q] = draft[q]
    BY <2>1 DEF Commits, TypeOK, Goto
  <2>4. \A q \in Request \ {r} :
          stage[q] \in {"loaded", "written"} /\ call[q].club \in Club =>
            club'[call[q].club] = club[call[q].club] \/ q \in crossed'
    BY <2>1 DEF Commits, Touched
  <2>5. \A q \in Request : q \in crossed => q \in crossed'
    BY <2>1 DEF Commits
  <2> QED
    BY <2>2, <2>3, <2>4, <2>5 DEF LoadedRowsStand, CallShape
<1>3. ASSUME NEW r \in Request, Starting(r)
      PROVE  LoadedRowsStand'
  <2>1. PICK op \in CheckedOps \cup EditOps \cup EventOps, u \in User, c \in Club,
             e \in Event \cup {NoEvent}, w \in User \cup {Nobody} :
          /\ Opens(r, op, u, c, e, w)
          /\ \/ op \in CheckedOps /\ Goto(r, "checked") /\ row' = row
             \/ op \in EditOps /\ Goto(r, "loaded") /\ row' = [row EXCEPT ![r] = club[c]]
             \/ /\ op \in EventOps /\ Goto(r, "loaded")
                /\ row' = [row EXCEPT ![r] = event[e]]
    BY <1>3 DEF Starting
  <2>2. /\ call'[r].op = op /\ call'[r].by = u /\ call'[r].club = c /\ op \notin ReadOps
        /\ stage[r] = "idle" /\ stage'[r] \in {"checked", "loaded"}
        /\ op \in EditOps => row'[r] = club[c]
    BY <2>1 DEF Opens, TypeOK, Goto, EditOps, EventOps, CheckedOps, ReadOps
  <2>3. \A q \in Request \ {r} :
          call'[q] = call[q] /\ stage'[q] = stage[q] /\ row'[q] = row[q] /\ draft'[q] = draft[q]
    BY <1>3, <2>1 DEF Starting, Opens, TypeOK, Goto
  <2>4. UNCHANGED <<tables, web, draft, crossed, doubled, entitled, current>>
    BY <1>3 DEF Starting
  <2> QED
    BY <2>2, <2>3, <2>4 DEF LoadedRowsStand, tables
<1>4. ASSUME NEW r \in Request, Reading(r)
      PROVE  LoadedRowsStand'
  <2>1. PICK op \in ReadOps, u \in Viewer, c \in Club, s \in {"loaded", "allowed"} :
          /\ OpensRead(r, op, u, c, s)
          /\ Present(c)
          /\ s = "allowed" => op = "list" /\ Entitles(u, club[c], role[c])
    BY <1>4 DEF Reading
  <2>2. /\ call'[r].op = op /\ call'[r].by = u /\ call'[r].club = c /\ op \in ReadOps
        /\ stage[r] = "idle" /\ stage'[r] = s /\ row'[r] = club[c]
    BY <2>1 DEF OpensRead, Opens, TypeOK, Goto
  <2>3. \A q \in Request \ {r} :
          call'[q] = call[q] /\ stage'[q] = stage[q] /\ row'[q] = row[q] /\ draft'[q] = draft[q]
    BY <2>1 DEF OpensRead, Opens, TypeOK, Goto
  <2>4. /\ UNCHANGED <<tables, web, draft, crossed, doubled>>
        /\ entitled' = IF Entitles(u, club[c], role[c]) THEN entitled \cup {r} ELSE entitled
        /\ current' = current \cup {r}
    BY <2>1 DEF OpensRead
  <2> QED
    BY <2>2, <2>3, <2>4 DEF LoadedRowsStand, EditOps, ReadOps, tables
<1>5. ASSUME NEW r \in Request, Finishing(r)
      PROVE  LoadedRowsStand'
  <2>1. stage'[r] = "idle" /\ call'[r] = NoCall
    BY <1>5 DEF Finishing, Done, TypeOK, Goto
  <2>2. \A q \in Request \ {r} :
          call'[q] = call[q] /\ stage'[q] = stage[q] /\ row'[q] = row[q] /\ draft'[q] = draft[q]
    BY <1>5 DEF Finishing, Done, TypeOK, Goto
  <2>3. /\ club' = club /\ role' = role /\ event' = event
        /\ crossed' = crossed \ {r} /\ entitled' = entitled \ {r} /\ current' = current \ {r}
    BY <1>5 DEF Finishing, Done
  <2> QED
    BY <2>1, <2>2, <2>3 DEF LoadedRowsStand
<1>6. ASSUME NEW r \in Request, Authorize(r)
      PROVE  LoadedRowsStand'
  BY <1>6 DEF Authorize, LoadedRowsStand, TypeOK, Goto, tables, reads
<1>7. ASSUME NEW r \in Request, Count(r)
      PROVE  LoadedRowsStand'
  BY <1>7 DEF Count, LoadedRowsStand, TypeOK, Goto, tables
<1>8. ASSUME NEW r \in Request, Revalidate(r)
      PROVE  LoadedRowsStand'
  <2>1. stage'[r] = "idle" /\ call'[r] = NoCall
    BY <1>8 DEF Revalidate, TypeOK, Goto
  <2>2. \A q \in Request \ {r} : call'[q] = call[q] /\ stage'[q] = stage[q]
    BY <1>8 DEF Revalidate, TypeOK, Goto
  <2>3. /\ club' = club /\ role' = role /\ event' = event /\ row' = row /\ draft' = draft
        /\ crossed' = crossed \ {r} /\ entitled' = entitled
        /\ current' = current \ {q \in Request : call[q].club = call[r].club}
    BY <1>8 DEF Revalidate, tables, reads
  <2> QED
    BY <2>1, <2>2, <2>3 DEF LoadedRowsStand
<1> QED
  BY <1>1, <1>2, <1>3, <1>4, <1>5, <1>6, <1>7, <1>8, StepKinds

(* What an edit writes is what was asked, if nobody crossed it.            *)
LEMMA EditsKept ==
  ASSUME TypeOK, CallShape, NoOrphans, FreshClubs, LoadedRowsStand, EditsShow, [Next]_vars
  PROVE  EditsShow'
<1>1. CASE UNCHANGED vars
  BY <1>1 DEF EditsShow, vars, tables
<1>2. ASSUME NEW r \in Request, Committing(r)
      PROVE  EditsShow'
  <2>1. PICK c \in Club, op \in EditOps \cup EventOps \cup CheckedOps \cup {"role"} :
          /\ Commits(r, op, c)
          /\ stage[r] # "idle" => call[r].op = op /\ call[r].club = c
          /\ stage[r] = "idle" => op = "role" /\ Present(c)
          /\ stage[r] # "written" /\ call[r].op \notin ReadOps
          /\ \A d \in Club \ {c} : club'[d] = club[d] /\ role'[d] = role[d]
          /\ \A e \in Event :
               \/ event'[e] = event[e]
               \/ event[e].club = c /\ event'[e] = Unplanned
               \/ event'[e].club = c /\ event[e] = Unplanned
               \/ event[e].club = c /\ event'[e].club = c
    BY <1>2, CommitFacts
  <2>2. /\ call'[r].club = c /\ call'[r].op = op /\ op \notin ReadOps /\ call'[r].by = Nobody
        /\ stage'[r] = "written"
    BY <2>1 DEF Commits, TypeOK, Goto, NoCall, EditOps, EventOps, CheckedOps, ReadOps
  <2>3. \A q \in Request \ {r} :
          call'[q] = call[q] /\ stage'[q] = stage[q] /\ row'[q] = row[q] /\ draft'[q] = draft[q]
    BY <2>1 DEF Commits, TypeOK, Goto
  <2>4. \A q \in Request \ {r} :
          stage[q] \in {"loaded", "written"} /\ call[q].club \in Club =>
            club'[call[q].club] = club[call[q].club] \/ q \in crossed'
    BY <2>1 DEF Commits, Touched
  <2>5. \A q \in Request : q \in crossed => q \in crossed'
    BY <2>1 DEF Commits
  <2>6. op \in EditOps => Edited(op, club'[c]) = club'[c] \/ r \in crossed'
    <3> SUFFICES ASSUME op \in EditOps, r \notin crossed
                 PROVE  Edited(op, club'[c]) = club'[c]
      BY <2>5
    <3>1. CommitEdit(r)
      BY <1>2, <2>1 DEF Committing, CreateClub, DeleteClub, PlanEvent, CommitEvent, ChangeMember,
                        EditOps, EventOps
    <3>2. /\ call[r].club = c /\ call[r].op = op /\ row[r] \in ClubRow /\ row[r] = club[c]
      BY <2>1, <3>1 DEF CommitEdit, CallShape, LoadedRowsStand, EditOps, EventOps
    <3>3. club'[c] = Edited(op, row[r])
      BY <3>1, <3>2, EditedTyped, FlushedClub DEF CommitEdit, TypeOK
    <3> QED
      BY <3>2, <3>3, EditedTyped
  <2> QED
    BY <2>2, <2>3, <2>4, <2>5, <2>6 DEF EditsShow, CallShape
<1>3. ASSUME NEW r \in Request, Starting(r)
      PROVE  EditsShow'
  <2>1. PICK op \in CheckedOps \cup EditOps \cup EventOps, u \in User, c \in Club,
             e \in Event \cup {NoEvent}, w \in User \cup {Nobody} :
          /\ Opens(r, op, u, c, e, w)
          /\ \/ op \in CheckedOps /\ Goto(r, "checked") /\ row' = row
             \/ op \in EditOps /\ Goto(r, "loaded") /\ row' = [row EXCEPT ![r] = club[c]]
             \/ /\ op \in EventOps /\ Goto(r, "loaded")
                /\ row' = [row EXCEPT ![r] = event[e]]
    BY <1>3 DEF Starting
  <2>2. /\ call'[r].op = op /\ call'[r].by = u /\ call'[r].club = c /\ op \notin ReadOps
        /\ stage[r] = "idle" /\ stage'[r] \in {"checked", "loaded"}
        /\ op \in EditOps => row'[r] = club[c]
    BY <2>1 DEF Opens, TypeOK, Goto, EditOps, EventOps, CheckedOps, ReadOps
  <2>3. \A q \in Request \ {r} :
          call'[q] = call[q] /\ stage'[q] = stage[q] /\ row'[q] = row[q] /\ draft'[q] = draft[q]
    BY <1>3, <2>1 DEF Starting, Opens, TypeOK, Goto
  <2>4. UNCHANGED <<tables, web, draft, crossed, doubled, entitled, current>>
    BY <1>3 DEF Starting
  <2> QED
    BY <2>2, <2>3, <2>4 DEF EditsShow, tables
<1>4. ASSUME NEW r \in Request, Reading(r)
      PROVE  EditsShow'
  <2>1. PICK op \in ReadOps, u \in Viewer, c \in Club, s \in {"loaded", "allowed"} :
          /\ OpensRead(r, op, u, c, s)
          /\ Present(c)
          /\ s = "allowed" => op = "list" /\ Entitles(u, club[c], role[c])
    BY <1>4 DEF Reading
  <2>2. /\ call'[r].op = op /\ call'[r].by = u /\ call'[r].club = c /\ op \in ReadOps
        /\ stage[r] = "idle" /\ stage'[r] = s /\ row'[r] = club[c]
    BY <2>1 DEF OpensRead, Opens, TypeOK, Goto
  <2>3. \A q \in Request \ {r} :
          call'[q] = call[q] /\ stage'[q] = stage[q] /\ row'[q] = row[q] /\ draft'[q] = draft[q]
    BY <2>1 DEF OpensRead, Opens, TypeOK, Goto
  <2>4. /\ UNCHANGED <<tables, web, draft, crossed, doubled>>
        /\ entitled' = IF Entitles(u, club[c], role[c]) THEN entitled \cup {r} ELSE entitled
        /\ current' = current \cup {r}
    BY <2>1 DEF OpensRead
  <2> QED
    BY <2>2, <2>3, <2>4 DEF EditsShow, tables
<1>5. ASSUME NEW r \in Request, Finishing(r)
      PROVE  EditsShow'
  <2>1. stage'[r] = "idle" /\ call'[r] = NoCall
    BY <1>5 DEF Finishing, Done, TypeOK, Goto
  <2>2. \A q \in Request \ {r} :
          call'[q] = call[q] /\ stage'[q] = stage[q] /\ row'[q] = row[q] /\ draft'[q] = draft[q]
    BY <1>5 DEF Finishing, Done, TypeOK, Goto
  <2>3. /\ club' = club /\ role' = role /\ event' = event
        /\ crossed' = crossed \ {r} /\ entitled' = entitled \ {r} /\ current' = current \ {r}
    BY <1>5 DEF Finishing, Done
  <2> QED
    BY <2>1, <2>2, <2>3 DEF EditsShow
<1>6. ASSUME NEW r \in Request, Authorize(r)
      PROVE  EditsShow'
  BY <1>6 DEF Authorize, EditsShow, TypeOK, Goto, tables
<1>7. ASSUME NEW r \in Request, Count(r)
      PROVE  EditsShow'
  BY <1>7 DEF Count, EditsShow, TypeOK, Goto, tables
<1>8. ASSUME NEW r \in Request, Revalidate(r)
      PROVE  EditsShow'
  <2>1. stage'[r] = "idle" /\ call'[r] = NoCall
    BY <1>8 DEF Revalidate, TypeOK, Goto
  <2>2. \A q \in Request \ {r} : call'[q] = call[q] /\ stage'[q] = stage[q]
    BY <1>8 DEF Revalidate, TypeOK, Goto
  <2>3. /\ club' = club /\ role' = role /\ event' = event /\ row' = row /\ draft' = draft
        /\ crossed' = crossed \ {r} /\ entitled' = entitled
        /\ current' = current \ {q \in Request : call[q].club = call[r].club}
    BY <1>8 DEF Revalidate, tables, reads
  <2> QED
    BY <2>1, <2>2, <2>3 DEF EditsShow
<1> QED
  BY <1>1, <1>2, <1>3, <1>4, <1>5, <1>6, <1>7, <1>8, StepKinds

LEMMA EntitledKept ==
  ASSUME TypeOK, CallShape, NoOrphans, FreshClubs, EntitledSoFar, [Next]_vars
  PROVE  EntitledSoFar'
<1>1. CASE UNCHANGED vars
  BY <1>1 DEF EntitledSoFar, vars, tables, reads
<1>2. ASSUME NEW r \in Request, Committing(r)
      PROVE  EntitledSoFar'
  <2>1. PICK c \in Club, op \in EditOps \cup EventOps \cup CheckedOps \cup {"role"} :
          /\ Commits(r, op, c)
          /\ stage[r] # "idle" => call[r].op = op /\ call[r].club = c
          /\ stage[r] = "idle" => op = "role" /\ Present(c)
          /\ stage[r] # "written" /\ call[r].op \notin ReadOps
          /\ \A d \in Club \ {c} : club'[d] = club[d] /\ role'[d] = role[d]
          /\ \A e \in Event :
               \/ event'[e] = event[e]
               \/ event[e].club = c /\ event'[e] = Unplanned
               \/ event'[e].club = c /\ event[e] = Unplanned
               \/ event[e].club = c /\ event'[e].club = c
    BY <1>2, CommitFacts
  <2>2. /\ call'[r].club = c /\ call'[r].op = op /\ op \notin ReadOps /\ call'[r].by = Nobody
        /\ stage'[r] = "written"
    BY <2>1 DEF Commits, TypeOK, Goto, NoCall, EditOps, EventOps, CheckedOps, ReadOps
  <2>3. \A q \in Request \ {r} :
          call'[q] = call[q] /\ stage'[q] = stage[q] /\ row'[q] = row[q] /\ draft'[q] = draft[q]
    BY <2>1 DEF Commits, TypeOK, Goto
  <2>4. \A q \in Request :
          /\ q \in entitled => q \in entitled'
          /\ /\ call[q].op \in ReadOps /\ call[q].club = c
             /\ Entitles(call[q].by, club'[c], role'[c])
             => q \in entitled'
    BY <2>1 DEF Commits
  <2>5. \A q \in Request : call[q].op \in ReadOps => stage[q] # "idle" /\ call[q].club \in Club
    BY DEF CallShape, NoCall, ReadOps
  <2> QED
    BY <2>1, <2>2, <2>3, <2>4, <2>5 DEF EntitledSoFar
<1>3. ASSUME NEW r \in Request, Starting(r)
      PROVE  EntitledSoFar'
  <2>1. PICK op \in CheckedOps \cup EditOps \cup EventOps, u \in User, c \in Club,
             e \in Event \cup {NoEvent}, w \in User \cup {Nobody} :
          /\ Opens(r, op, u, c, e, w)
          /\ \/ op \in CheckedOps /\ Goto(r, "checked") /\ row' = row
             \/ op \in EditOps /\ Goto(r, "loaded") /\ row' = [row EXCEPT ![r] = club[c]]
             \/ /\ op \in EventOps /\ Goto(r, "loaded")
                /\ row' = [row EXCEPT ![r] = event[e]]
    BY <1>3 DEF Starting
  <2>2. /\ call'[r].op = op /\ call'[r].by = u /\ call'[r].club = c /\ op \notin ReadOps
        /\ stage[r] = "idle" /\ stage'[r] \in {"checked", "loaded"}
        /\ op \in EditOps => row'[r] = club[c]
    BY <2>1 DEF Opens, TypeOK, Goto, EditOps, EventOps, CheckedOps, ReadOps
  <2>3. \A q \in Request \ {r} :
          call'[q] = call[q] /\ stage'[q] = stage[q] /\ row'[q] = row[q] /\ draft'[q] = draft[q]
    BY <1>3, <2>1 DEF Starting, Opens, TypeOK, Goto
  <2>4. UNCHANGED <<tables, web, draft, crossed, doubled, entitled, current>>
    BY <1>3 DEF Starting
  <2> QED
    BY <2>2, <2>3, <2>4 DEF EntitledSoFar, tables
<1>4. ASSUME NEW r \in Request, Reading(r)
      PROVE  EntitledSoFar'
  <2>1. PICK op \in ReadOps, u \in Viewer, c \in Club, s \in {"loaded", "allowed"} :
          /\ OpensRead(r, op, u, c, s)
          /\ Present(c)
          /\ s = "allowed" => op = "list" /\ Entitles(u, club[c], role[c])
    BY <1>4 DEF Reading
  <2>2. /\ call'[r].op = op /\ call'[r].by = u /\ call'[r].club = c /\ op \in ReadOps
        /\ stage[r] = "idle" /\ stage'[r] = s /\ row'[r] = club[c]
    BY <2>1 DEF OpensRead, Opens, TypeOK, Goto
  <2>3. \A q \in Request \ {r} :
          call'[q] = call[q] /\ stage'[q] = stage[q] /\ row'[q] = row[q] /\ draft'[q] = draft[q]
    BY <2>1 DEF OpensRead, Opens, TypeOK, Goto
  <2>4. /\ UNCHANGED <<tables, web, draft, crossed, doubled>>
        /\ entitled' = IF Entitles(u, club[c], role[c]) THEN entitled \cup {r} ELSE entitled
        /\ current' = current \cup {r}
    BY <2>1 DEF OpensRead
  <2>5. Entitles(u, club[c], NoMembers) => Entitles(u, club[c], role[c])
    BY DEF Entitles, NoMembers
  <2> QED
    BY <2>2, <2>3, <2>4, <2>5 DEF EntitledSoFar, tables
<1>5. ASSUME NEW r \in Request, Finishing(r)
      PROVE  EntitledSoFar'
  <2>1. stage'[r] = "idle" /\ call'[r] = NoCall
    BY <1>5 DEF Finishing, Done, TypeOK, Goto
  <2>2. \A q \in Request \ {r} :
          call'[q] = call[q] /\ stage'[q] = stage[q] /\ row'[q] = row[q] /\ draft'[q] = draft[q]
    BY <1>5 DEF Finishing, Done, TypeOK, Goto
  <2>3. /\ club' = club /\ role' = role /\ event' = event
        /\ crossed' = crossed \ {r} /\ entitled' = entitled \ {r} /\ current' = current \ {r}
    BY <1>5 DEF Finishing, Done
  <2> QED
    BY <2>1, <2>2, <2>3 DEF EntitledSoFar, NoCall, ReadOps
<1>6. ASSUME NEW r \in Request, Authorize(r)
      PROVE  EntitledSoFar'
  BY <1>6 DEF Authorize, EntitledSoFar, TypeOK, Goto, tables, reads
<1>7. ASSUME NEW r \in Request, Count(r)
      PROVE  EntitledSoFar'
  BY <1>7 DEF Count, EntitledSoFar, TypeOK, Goto, tables
<1>8. ASSUME NEW r \in Request, Revalidate(r)
      PROVE  EntitledSoFar'
  <2>1. stage'[r] = "idle" /\ call'[r] = NoCall
    BY <1>8 DEF Revalidate, TypeOK, Goto
  <2>2. \A q \in Request \ {r} : call'[q] = call[q] /\ stage'[q] = stage[q]
    BY <1>8 DEF Revalidate, TypeOK, Goto
  <2>3. /\ club' = club /\ role' = role /\ event' = event /\ row' = row /\ draft' = draft
        /\ crossed' = crossed \ {r} /\ entitled' = entitled
        /\ current' = current \ {q \in Request : call[q].club = call[r].club}
    BY <1>8 DEF Revalidate, tables, reads
  <2> QED
    BY <2>1, <2>2, <2>3 DEF EntitledSoFar, NoCall, ReadOps
<1> QED
  BY <1>1, <1>2, <1>3, <1>4, <1>5, <1>6, <1>7, <1>8, StepKinds

(* The row and the membership are looked at at different moments; either   *)
(* of them entitles.                                                       *)
LEMMA PrivateKept ==
  ASSUME TypeOK, CallShape, NoOrphans, FreshClubs, EntitledSoFar, PrivateClubsStayPrivate, [Next]_vars
  PROVE  PrivateClubsStayPrivate'
<1>1. CASE UNCHANGED vars
  BY <1>1 DEF PrivateClubsStayPrivate, vars
<1>2. ASSUME NEW r \in Request, Committing(r)
      PROVE  PrivateClubsStayPrivate'
  <2>1. PICK c \in Club, op \in EditOps \cup EventOps \cup CheckedOps \cup {"role"} :
          /\ Commits(r, op, c)
          /\ stage[r] # "idle" => call[r].op = op /\ call[r].club = c
          /\ stage[r] = "idle" => op = "role" /\ Present(c)
          /\ stage[r] # "written" /\ call[r].op \notin ReadOps
          /\ \A d \in Club \ {c} : club'[d] = club[d] /\ role'[d] = role[d]
          /\ \A e \in Event :
               \/ event'[e] = event[e]
               \/ event[e].club = c /\ event'[e] = Unplanned
               \/ event'[e].club = c /\ event[e] = Unplanned
               \/ event[e].club = c /\ event'[e].club = c
    BY <1>2, CommitFacts
  <2>2. /\ call'[r].club = c /\ call'[r].op = op /\ op \notin ReadOps /\ call'[r].by = Nobody
        /\ stage'[r] = "written"
    BY <2>1 DEF Commits, TypeOK, Goto, NoCall, EditOps, EventOps, CheckedOps, ReadOps
  <2>3. \A q \in Request \ {r} :
          call'[q] = call[q] /\ stage'[q] = stage[q] /\ row'[q] = row[q] /\ draft'[q] = draft[q]
    BY <2>1 DEF Commits, TypeOK, Goto
  <2>4. entitled \subseteq entitled'
    BY <2>1 DEF Commits
  <2> QED
    BY <2>2, <2>3, <2>4 DEF PrivateClubsStayPrivate
<1>3. ASSUME NEW r \in Request, Starting(r)
      PROVE  PrivateClubsStayPrivate'
  <2>1. PICK op \in CheckedOps \cup EditOps \cup EventOps, u \in User, c \in Club,
             e \in Event \cup {NoEvent}, w \in User \cup {Nobody} :
          /\ Opens(r, op, u, c, e, w)
          /\ \/ op \in CheckedOps /\ Goto(r, "checked") /\ row' = row
             \/ op \in EditOps /\ Goto(r, "loaded") /\ row' = [row EXCEPT ![r] = club[c]]
             \/ /\ op \in EventOps /\ Goto(r, "loaded")
                /\ row' = [row EXCEPT ![r] = event[e]]
    BY <1>3 DEF Starting
  <2>2. /\ call'[r].op = op /\ call'[r].by = u /\ call'[r].club = c /\ op \notin ReadOps
        /\ stage[r] = "idle" /\ stage'[r] \in {"checked", "loaded"}
        /\ op \in EditOps => row'[r] = club[c]
    BY <2>1 DEF Opens, TypeOK, Goto, EditOps, EventOps, CheckedOps, ReadOps
  <2>3. \A q \in Request \ {r} :
          call'[q] = call[q] /\ stage'[q] = stage[q] /\ row'[q] = row[q] /\ draft'[q] = draft[q]
    BY <1>3, <2>1 DEF Starting, Opens, TypeOK, Goto
  <2>4. UNCHANGED <<tables, web, draft, crossed, doubled, entitled, current>>
    BY <1>3 DEF Starting
  <2> QED
    BY <2>2, <2>3, <2>4 DEF PrivateClubsStayPrivate
<1>4. ASSUME NEW r \in Request, Reading(r)
      PROVE  PrivateClubsStayPrivate'
  <2>1. PICK op \in ReadOps, u \in Viewer, c \in Club, s \in {"loaded", "allowed"} :
          /\ OpensRead(r, op, u, c, s)
          /\ Present(c)
          /\ s = "allowed" => op = "list" /\ Entitles(u, club[c], role[c])
    BY <1>4 DEF Reading
  <2>2. /\ call'[r].op = op /\ call'[r].by = u /\ call'[r].club = c /\ op \in ReadOps
        /\ stage[r] = "idle" /\ stage'[r] = s /\ row'[r] = club[c]
    BY <2>1 DEF OpensRead, Opens, TypeOK, Goto
  <2>3. \A q \in Request \ {r} :
          call'[q] = call[q] /\ stage'[q] = stage[q] /\ row'[q] = row[q] /\ draft'[q] = draft[q]
    BY <2>1 DEF OpensRead, Opens, TypeOK, Goto
  <2>4. /\ UNCHANGED <<tables, web, draft, crossed, doubled>>
        /\ entitled' = IF Entitles(u, club[c], role[c]) THEN entitled \cup {r} ELSE entitled
        /\ current' = current \cup {r}
    BY <2>1 DEF OpensRead
  <2> QED
    BY <2>1, <2>2, <2>3, <2>4 DEF PrivateClubsStayPrivate
<1>5. ASSUME NEW r \in Request, Finishing(r)
      PROVE  PrivateClubsStayPrivate'
  <2>1. stage'[r] = "idle" /\ call'[r] = NoCall
    BY <1>5 DEF Finishing, Done, TypeOK, Goto
  <2>2. \A q \in Request \ {r} :
          call'[q] = call[q] /\ stage'[q] = stage[q] /\ row'[q] = row[q] /\ draft'[q] = draft[q]
    BY <1>5 DEF Finishing, Done, TypeOK, Goto
  <2>3. /\ club' = club /\ role' = role /\ event' = event
        /\ crossed' = crossed \ {r} /\ entitled' = entitled \ {r} /\ current' = current \ {r}
    BY <1>5 DEF Finishing, Done
  <2> QED
    BY <2>1, <2>2, <2>3 DEF PrivateClubsStayPrivate
<1>6. ASSUME NEW r \in Request, Authorize(r)
      PROVE  PrivateClubsStayPrivate'
  <2>1. call[r].op \in ReadOps /\ stage[r] = "loaded" /\ row[r] \in ClubRow /\ call[r].club \in Club
    BY <1>6, ClubRows DEF Authorize, CallShape, EditOps, EventOps, ReadOps
  <2>2. CanView(r) => r \in entitled
    <3>1. CASE row[r].public \/ call[r].by \in Admin \cup {row[r].owner}
      BY <2>1, <3>1, ClubRows DEF EntitledSoFar, Entitles
    <3>2. CASE IsMember(call[r].by, call[r].club)
      <4>1. Present(call[r].club)
        BY <2>1, <3>2 DEF IsMember, NoOrphans, NoMembers
      <4> QED
        BY <2>1, <3>2, <4>1 DEF EntitledSoFar, Entitles, IsMember, Present
    <3> QED
      BY <3>1, <3>2 DEF CanView
  <2> QED
    BY <1>6, <2>2 DEF Authorize, PrivateClubsStayPrivate, TypeOK, Goto
<1>7. ASSUME NEW r \in Request, Count(r)
      PROVE  PrivateClubsStayPrivate'
  BY <1>7 DEF Count, PrivateClubsStayPrivate, TypeOK, Goto
<1>8. ASSUME NEW r \in Request, Revalidate(r)
      PROVE  PrivateClubsStayPrivate'
  <2>1. stage'[r] = "idle" /\ call'[r] = NoCall
    BY <1>8 DEF Revalidate, TypeOK, Goto
  <2>2. \A q \in Request \ {r} : call'[q] = call[q] /\ stage'[q] = stage[q]
    BY <1>8 DEF Revalidate, TypeOK, Goto
  <2>3. /\ club' = club /\ role' = role /\ event' = event /\ row' = row /\ draft' = draft
        /\ crossed' = crossed \ {r} /\ entitled' = entitled
        /\ current' = current \ {q \in Request : call[q].club = call[r].club}
    BY <1>8 DEF Revalidate, tables, reads
  <2> QED
    BY <2>1, <2>2, <2>3 DEF PrivateClubsStayPrivate
<1> QED
  BY <1>1, <1>2, <1>3, <1>4, <1>5, <1>6, <1>7, <1>8, StepKinds

LEMMA DraftsKept ==
  ASSUME TypeOK, CallShape, NoOrphans, FreshClubs, DraftsAreFresh, [Next]_vars
  PROVE  DraftsAreFresh'
<1>1. CASE UNCHANGED vars
  <2>1. \A q \in Request : ForSite(q)' <=> ForSite(q)
    BY <1>1 DEF ForSite, vars
  <2>2. \A q \in Request : UpToDate(q)' <=> UpToDate(q)
    BY <1>1 DEF UpToDate, CountMembers, vars, tables, reads
  <2>3. \A q \in Request : Outdated(call[q].club)' <=> Outdated(call[q].club)
    BY <1>1 DEF Outdated, vars, web
  <2> QED
    BY <1>1, <2>1, <2>2, <2>3 DEF DraftsAreFresh, vars
<1>2. ASSUME NEW r \in Request, Committing(r)
      PROVE  DraftsAreFresh'
  <2>1. PICK c \in Club, op \in EditOps \cup EventOps \cup CheckedOps \cup {"role"} :
          /\ Commits(r, op, c)
          /\ stage[r] # "idle" => call[r].op = op /\ call[r].club = c
          /\ stage[r] = "idle" => op = "role" /\ Present(c)
          /\ stage[r] # "written" /\ call[r].op \notin ReadOps
          /\ \A d \in Club \ {c} : club'[d] = club[d] /\ role'[d] = role[d]
          /\ \A e \in Event :
               \/ event'[e] = event[e]
               \/ event[e].club = c /\ event'[e] = Unplanned
               \/ event'[e].club = c /\ event[e] = Unplanned
               \/ event[e].club = c /\ event'[e].club = c
    BY <1>2, CommitFacts
  <2>2. /\ call'[r].club = c /\ call'[r].op = op /\ op \notin ReadOps /\ call'[r].by = Nobody
        /\ stage'[r] = "written"
    BY <2>1 DEF Commits, TypeOK, Goto, NoCall, EditOps, EventOps, CheckedOps, ReadOps
  <2>3. \A q \in Request \ {r} :
          call'[q] = call[q] /\ stage'[q] = stage[q] /\ row'[q] = row[q] /\ draft'[q] = draft[q]
    BY <2>1 DEF Commits, TypeOK, Goto
  <2> SUFFICES ASSUME NEW q \in Request, ForSite(q)', q \in current',
                      stage'[q] \in {"loaded", "allowed", "barred", "counted"}
               PROVE  UpToDate(q)' \/ Outdated(call[q].club)'
    BY DEF DraftsAreFresh
  <2>4. q # r /\ call'[q] = call[q] /\ ForSite(q) /\ q \in current
    BY <2>1, <2>2, <2>3 DEF ForSite, Commits
  <2>5. CASE call[q].club = c
    BY <2>2, <2>4, <2>5 DEF Outdated
  <2>6. CASE call[q].club # c
    <3>1. call[q].club \in Club
      BY <2>3, <2>4 DEF CallShape
    <3>2. club'[call[q].club] = club[call[q].club] /\ role'[call[q].club] = role[call[q].club]
      BY <2>1, <2>6, <3>1
    <3>3. UpToDate(q) => UpToDate(q)'
      BY <2>3, <2>4, <3>2 DEF UpToDate, CountMembers
    <3>4. Outdated(call[q].club) => Outdated(call[q].club)'
      BY <2>1, <2>3, <2>4 DEF Outdated, Commits, web
    <3> QED
      BY <2>3, <2>4, <3>3, <3>4 DEF DraftsAreFresh
  <2> QED
    BY <2>5, <2>6
<1>3. ASSUME NEW r \in Request, Starting(r)
      PROVE  DraftsAreFresh'
  <2>1. PICK op \in CheckedOps \cup EditOps \cup EventOps, u \in User, c \in Club,
             e \in Event \cup {NoEvent}, w \in User \cup {Nobody} :
          /\ Opens(r, op, u, c, e, w)
          /\ \/ op \in CheckedOps /\ Goto(r, "checked") /\ row' = row
             \/ op \in EditOps /\ Goto(r, "loaded") /\ row' = [row EXCEPT ![r] = club[c]]
             \/ /\ op \in EventOps /\ Goto(r, "loaded")
                /\ row' = [row EXCEPT ![r] = event[e]]
    BY <1>3 DEF Starting
  <2>2. /\ call'[r].op = op /\ call'[r].by = u /\ call'[r].club = c /\ op \notin ReadOps
        /\ stage[r] = "idle" /\ stage'[r] \in {"checked", "loaded"}
        /\ op \in EditOps => row'[r] = club[c]
    BY <2>1 DEF Opens, TypeOK, Goto, EditOps, EventOps, CheckedOps, ReadOps
  <2>3. \A q \in Request \ {r} :
          call'[q] = call[q] /\ stage'[q] = stage[q] /\ row'[q] = row[q] /\ draft'[q] = draft[q]
    BY <1>3, <2>1 DEF Starting, Opens, TypeOK, Goto
  <2>4. UNCHANGED <<tables, web, draft, crossed, doubled, entitled, current>>
    BY <1>3 DEF Starting
  <2> SUFFICES ASSUME NEW q \in Request, ForSite(q)', q \in current',
                      stage'[q] \in {"loaded", "allowed", "barred", "counted"}
               PROVE  UpToDate(q)' \/ Outdated(call[q].club)'
    BY DEF DraftsAreFresh
  <2>5. q # r /\ call'[q] = call[q] /\ ForSite(q) /\ q \in current
    BY <2>2, <2>3, <2>4, AccountAssumption DEF ForSite
  <2>6. UpToDate(q) => UpToDate(q)'
    BY <2>3, <2>4, <2>5 DEF UpToDate, CountMembers, tables
  <2>7. Outdated(call[q].club) => Outdated(call[q].club)'
    BY <2>2, <2>3, <2>4, <2>5 DEF Outdated, web
  <2> QED
    BY <2>3, <2>5, <2>6, <2>7 DEF DraftsAreFresh
<1>4. ASSUME NEW r \in Request, Reading(r)
      PROVE  DraftsAreFresh'
  <2>1. PICK op \in ReadOps, u \in Viewer, c \in Club, s \in {"loaded", "allowed"} :
          /\ OpensRead(r, op, u, c, s)
          /\ Present(c)
          /\ s = "allowed" => op = "list" /\ Entitles(u, club[c], role[c])
    BY <1>4 DEF Reading
  <2>2. /\ call'[r].op = op /\ call'[r].by = u /\ call'[r].club = c /\ op \in ReadOps
        /\ stage[r] = "idle" /\ stage'[r] = s /\ row'[r] = club[c]
    BY <2>1 DEF OpensRead, Opens, TypeOK, Goto
  <2>3. \A q \in Request \ {r} :
          call'[q] = call[q] /\ stage'[q] = stage[q] /\ row'[q] = row[q] /\ draft'[q] = draft[q]
    BY <2>1 DEF OpensRead, Opens, TypeOK, Goto
  <2>4. /\ UNCHANGED <<tables, web, draft, crossed, doubled>>
        /\ entitled' = IF Entitles(u, club[c], role[c]) THEN entitled \cup {r} ELSE entitled
        /\ current' = current \cup {r}
    BY <2>1 DEF OpensRead
  <2> SUFFICES ASSUME NEW q \in Request, ForSite(q)', q \in current',
                      stage'[q] \in {"loaded", "allowed", "barred", "counted"}
               PROVE  UpToDate(q)' \/ Outdated(call[q].club)'
    BY DEF DraftsAreFresh
  <2>5. CASE q = r
    BY <2>1, <2>2, <2>4, <2>5 DEF UpToDate, ForSite, tables
  <2>6. CASE q # r
    <3>1. call'[q] = call[q] /\ ForSite(q) /\ q \in current
      BY <2>3, <2>4, <2>6 DEF ForSite
    <3>2. UpToDate(q) => UpToDate(q)'
      BY <2>3, <2>4, <2>6, <3>1 DEF UpToDate, CountMembers, tables
    <3>3. Outdated(call[q].club) => Outdated(call[q].club)'
      BY <2>2, <2>3, <2>4, <3>1 DEF Outdated, web
    <3> QED
      BY <2>3, <2>6, <3>1, <3>2, <3>3 DEF DraftsAreFresh
  <2> QED
    BY <2>5, <2>6
<1>5. ASSUME NEW r \in Request, Finishing(r)
      PROVE  DraftsAreFresh'
  <2>1. stage'[r] = "idle" /\ call'[r] = NoCall
    BY <1>5 DEF Finishing, Done, TypeOK, Goto
  <2>2. \A q \in Request \ {r} :
          call'[q] = call[q] /\ stage'[q] = stage[q] /\ row'[q] = row[q] /\ draft'[q] = draft[q]
    BY <1>5 DEF Finishing, Done, TypeOK, Goto
  <2>3. /\ club' = club /\ role' = role /\ event' = event
        /\ crossed' = crossed \ {r} /\ entitled' = entitled \ {r} /\ current' = current \ {r}
    BY <1>5 DEF Finishing, Done
  <2> SUFFICES ASSUME NEW q \in Request, ForSite(q)', q \in current',
                      stage'[q] \in {"loaded", "allowed", "barred", "counted"}
               PROVE  UpToDate(q)' \/ Outdated(call[q].club)'
    BY DEF DraftsAreFresh
  <2>4. q # r /\ call'[q] = call[q] /\ ForSite(q) /\ q \in current
    BY <2>1, <2>2, <2>3 DEF ForSite
  <2>5. UpToDate(q) => UpToDate(q)'
    BY <2>2, <2>3, <2>4 DEF UpToDate, CountMembers
  <2>6. Outdated(call[q].club) => Outdated(call[q].club)'
    BY <1>5, <2>2, <2>4 DEF Outdated, Finishing
  <2> QED
    BY <2>2, <2>4, <2>5, <2>6 DEF DraftsAreFresh
<1>6. ASSUME NEW r \in Request, Authorize(r)
      PROVE  DraftsAreFresh'
  <2> SUFFICES ASSUME NEW q \in Request, ForSite(q)', q \in current',
                      stage'[q] \in {"loaded", "allowed", "barred", "counted"}
               PROVE  UpToDate(q)' \/ Outdated(call[q].club)'
    BY DEF DraftsAreFresh
  <2>1. /\ call' = call /\ row' = row /\ draft' = draft /\ untold' = untold
        /\ club' = club /\ role' = role /\ current' = current
    BY <1>6 DEF Authorize, tables, web, reads
  <2>2. ForSite(q) /\ q \in current
    BY <2>1 DEF ForSite
  <2>3. /\ stage[r] = "loaded" /\ stage'[r] = IF CanView(r) THEN "allowed" ELSE "barred"
        /\ \A p \in Request \ {r} : stage'[p] = stage[p]
    BY <1>6 DEF Authorize, Goto, TypeOK
  <2>4. Outdated(call[q].club) => Outdated(call[q].club)'
    BY <2>1, <2>3 DEF Outdated
  <2>5. CASE q = r
    <3>1. CanView(q) <=> row[q].public
      BY <1>6, <2>2, <2>5, ClubRows, AccountAssumption DEF CanView, ForSite, Authorize, CallShape, ClubRow, EditOps, EventOps, ReadOps
    <3>2. UpToDate(q) => UpToDate(q)'
      BY <2>1, <2>3, <2>5, <3>1 DEF UpToDate
    <3> QED
      BY <2>1, <2>2, <2>3, <2>4, <2>5, <3>2 DEF DraftsAreFresh
  <2>6. CASE q # r
    <3>1. UpToDate(q) => UpToDate(q)'
      BY <2>1, <2>3, <2>6 DEF UpToDate, CountMembers
    <3> QED
      BY <2>1, <2>2, <2>3, <2>4, <2>6, <3>1 DEF DraftsAreFresh
  <2> QED
    BY <2>5, <2>6
<1>7. ASSUME NEW r \in Request, Count(r)
      PROVE  DraftsAreFresh'
  <2> SUFFICES ASSUME NEW q \in Request, ForSite(q)', q \in current',
                      stage'[q] \in {"loaded", "allowed", "barred", "counted"}
               PROVE  UpToDate(q)' \/ Outdated(call[q].club)'
    BY DEF DraftsAreFresh
  <2>1. /\ call' = call /\ row' = row /\ untold' = untold
        /\ club' = club /\ role' = role /\ current' = current
    BY <1>7 DEF Count, tables, web
  <2>2. ForSite(q) /\ q \in current
    BY <2>1 DEF ForSite
  <2>3. /\ stage[r] = "allowed" /\ stage'[r] = "counted"
        /\ \A p \in Request \ {r} : stage'[p] = stage[p] /\ draft'[p] = draft[p]
    BY <1>7 DEF Count, Goto, TypeOK
  <2>4. Outdated(call[q].club) => Outdated(call[q].club)'
    BY <2>1, <2>3 DEF Outdated
  <2>5. draft'[r].count = CountMembers(call[r].club)
    BY <1>7 DEF Count, TypeOK, Page
  <2>6. CountMembers(call[q].club)' = CountMembers(call[q].club)
    BY <2>1 DEF CountMembers
  <2>7. UpToDate(q) => UpToDate(q)'
    <3>1. CASE q = r
      BY <2>1, <2>3, <2>5, <2>6, <3>1 DEF UpToDate
    <3>2. CASE q # r
      BY <2>1, <2>3, <2>6, <3>2 DEF UpToDate
    <3> QED
      BY <3>1, <3>2
  <2> QED
    BY <2>1, <2>2, <2>3, <2>4, <2>7 DEF DraftsAreFresh
<1>8. ASSUME NEW r \in Request, Revalidate(r)
      PROVE  DraftsAreFresh'
  <2>1. stage'[r] = "idle" /\ call'[r] = NoCall
    BY <1>8 DEF Revalidate, TypeOK, Goto
  <2>2. \A q \in Request \ {r} : call'[q] = call[q] /\ stage'[q] = stage[q]
    BY <1>8 DEF Revalidate, TypeOK, Goto
  <2>3. /\ club' = club /\ role' = role /\ event' = event /\ row' = row /\ draft' = draft
        /\ crossed' = crossed \ {r} /\ entitled' = entitled
        /\ current' = current \ {q \in Request : call[q].club = call[r].club}
    BY <1>8 DEF Revalidate, tables, reads
  <2> SUFFICES ASSUME NEW q \in Request, ForSite(q)', q \in current',
                      stage'[q] \in {"loaded", "allowed", "barred", "counted"}
               PROVE  UpToDate(q)' \/ Outdated(call[q].club)'
    BY DEF DraftsAreFresh
  <2>4. ForSite(q) /\ q # r /\ call'[q] = call[q] /\ q \in current /\ call[q].club # call[r].club
    BY <2>1, <2>2, <2>3 DEF ForSite
  <2>5. UpToDate(q) => UpToDate(q)'
    BY <2>2, <2>3, <2>4 DEF UpToDate, CountMembers
  <2>6. Outdated(call[q].club) => Outdated(call[q].club)'
    BY <1>8, <2>2, <2>4 DEF Outdated, Revalidate
  <2> QED
    BY <2>2, <2>4, <2>5, <2>6 DEF DraftsAreFresh
<1> QED
  BY <1>1, <1>2, <1>3, <1>4, <1>5, <1>6, <1>7, <1>8, StepKinds

(* A change of a club leaves the pages of the others as they were.         *)
LEMMA SitesKept ==
  ASSUME TypeOK, CallShape, NoOrphans, FreshClubs, DraftsAreFresh, ToldSitesAreFresh, [Next]_vars
  PROVE  ToldSitesAreFresh'
<1>1. CASE UNCHANGED vars
  <2> SUFFICES ASSUME NEW d \in Club
               PROVE  site'[d] \in {NoPage, PublicPage(d)'} \/ Outdated(d)'
    BY DEF ToldSitesAreFresh, Outdated
  <2>8. CountMembers(d)' = CountMembers(d) /\ PublicPage(d)' = PublicPage(d)
    BY <1>1, PageKept DEF vars, tables
  <2>9. Outdated(d) => Outdated(d)'
    BY <1>1 DEF Outdated, vars, web
  <2> QED
    BY <1>1, <2>8, <2>9 DEF ToldSitesAreFresh, Outdated, vars, web
<1>2. ASSUME NEW r \in Request, Committing(r)
      PROVE  ToldSitesAreFresh'
  <2>1. PICK c \in Club, op \in EditOps \cup EventOps \cup CheckedOps \cup {"role"} :
          /\ Commits(r, op, c)
          /\ stage[r] # "idle" => call[r].op = op /\ call[r].club = c
          /\ stage[r] = "idle" => op = "role" /\ Present(c)
          /\ stage[r] # "written" /\ call[r].op \notin ReadOps
          /\ \A d \in Club \ {c} : club'[d] = club[d] /\ role'[d] = role[d]
          /\ \A e \in Event :
               \/ event'[e] = event[e]
               \/ event[e].club = c /\ event'[e] = Unplanned
               \/ event'[e].club = c /\ event[e] = Unplanned
               \/ event[e].club = c /\ event'[e].club = c
    BY <1>2, CommitFacts
  <2>2. /\ call'[r].club = c /\ call'[r].op = op /\ op \notin ReadOps /\ call'[r].by = Nobody
        /\ stage'[r] = "written"
    BY <2>1 DEF Commits, TypeOK, Goto, NoCall, EditOps, EventOps, CheckedOps, ReadOps
  <2>3. \A q \in Request \ {r} :
          call'[q] = call[q] /\ stage'[q] = stage[q] /\ row'[q] = row[q] /\ draft'[q] = draft[q]
    BY <2>1 DEF Commits, TypeOK, Goto
  <2> SUFFICES ASSUME NEW d \in Club
               PROVE  site'[d] \in {NoPage, PublicPage(d)'} \/ Outdated(d)'
    BY DEF ToldSitesAreFresh, Outdated
  <2>4. site' = site /\ untold' = untold
    BY <2>1 DEF Commits, web
  <2>5. CASE d = c
    BY <2>2, <2>5 DEF Outdated
  <2>6. CASE d # c
    <3>1. Nobody # d
      BY AccountAssumption
    <3>2. \A e \in Event : event'[e] = event[e] \/ (e \notin Won(d) /\ e \notin Won(d)')
      BY <2>1, <2>6, <3>1 DEF Won, Unplanned
    <3>3. PublicPage(d)' = PublicPage(d)
      BY <2>1, <2>6, <3>2, PageKept
    <3>4. Outdated(d) => Outdated(d)'
      BY <2>1, <2>3, <2>4 DEF Outdated
    <3> QED
      BY <2>4, <3>3, <3>4 DEF ToldSitesAreFresh, Outdated
  <2> QED
    BY <2>5, <2>6
<1>3. ASSUME NEW r \in Request, Starting(r)
      PROVE  ToldSitesAreFresh'
  <2>1. PICK op \in CheckedOps \cup EditOps \cup EventOps, u \in User, c \in Club,
             e \in Event \cup {NoEvent}, w \in User \cup {Nobody} :
          /\ Opens(r, op, u, c, e, w)
          /\ \/ op \in CheckedOps /\ Goto(r, "checked") /\ row' = row
             \/ op \in EditOps /\ Goto(r, "loaded") /\ row' = [row EXCEPT ![r] = club[c]]
             \/ /\ op \in EventOps /\ Goto(r, "loaded")
                /\ row' = [row EXCEPT ![r] = event[e]]
    BY <1>3 DEF Starting
  <2>2. /\ call'[r].op = op /\ call'[r].by = u /\ call'[r].club = c /\ op \notin ReadOps
        /\ stage[r] = "idle" /\ stage'[r] \in {"checked", "loaded"}
        /\ op \in EditOps => row'[r] = club[c]
    BY <2>1 DEF Opens, TypeOK, Goto, EditOps, EventOps, CheckedOps, ReadOps
  <2>3. \A q \in Request \ {r} :
          call'[q] = call[q] /\ stage'[q] = stage[q] /\ row'[q] = row[q] /\ draft'[q] = draft[q]
    BY <1>3, <2>1 DEF Starting, Opens, TypeOK, Goto
  <2>4. UNCHANGED <<tables, web, draft, crossed, doubled, entitled, current>>
    BY <1>3 DEF Starting
  <2> SUFFICES ASSUME NEW d \in Club
               PROVE  site'[d] \in {NoPage, PublicPage(d)'} \/ Outdated(d)'
    BY DEF ToldSitesAreFresh, Outdated
  <2>8. CountMembers(d)' = CountMembers(d) /\ PublicPage(d)' = PublicPage(d)
    BY <2>4, PageKept DEF tables
  <2>9. Outdated(d) => Outdated(d)'
    BY <2>2, <2>3, <2>4 DEF Outdated, web
  <2> QED
    BY <2>4, <2>8, <2>9 DEF ToldSitesAreFresh, Outdated, web
<1>4. ASSUME NEW r \in Request, Reading(r)
      PROVE  ToldSitesAreFresh'
  <2>1. PICK op \in ReadOps, u \in Viewer, c \in Club, s \in {"loaded", "allowed"} :
          /\ OpensRead(r, op, u, c, s)
          /\ Present(c)
          /\ s = "allowed" => op = "list" /\ Entitles(u, club[c], role[c])
    BY <1>4 DEF Reading
  <2>2. /\ call'[r].op = op /\ call'[r].by = u /\ call'[r].club = c /\ op \in ReadOps
        /\ stage[r] = "idle" /\ stage'[r] = s /\ row'[r] = club[c]
    BY <2>1 DEF OpensRead, Opens, TypeOK, Goto
  <2>3. \A q \in Request \ {r} :
          call'[q] = call[q] /\ stage'[q] = stage[q] /\ row'[q] = row[q] /\ draft'[q] = draft[q]
    BY <2>1 DEF OpensRead, Opens, TypeOK, Goto
  <2>4. /\ UNCHANGED <<tables, web, draft, crossed, doubled>>
        /\ entitled' = IF Entitles(u, club[c], role[c]) THEN entitled \cup {r} ELSE entitled
        /\ current' = current \cup {r}
    BY <2>1 DEF OpensRead
  <2> SUFFICES ASSUME NEW d \in Club
               PROVE  site'[d] \in {NoPage, PublicPage(d)'} \/ Outdated(d)'
    BY DEF ToldSitesAreFresh, Outdated
  <2>8. CountMembers(d)' = CountMembers(d) /\ PublicPage(d)' = PublicPage(d)
    BY <2>4, PageKept DEF tables
  <2>9. Outdated(d) => Outdated(d)'
    BY <2>2, <2>3, <2>4 DEF Outdated, web
  <2> QED
    BY <2>4, <2>8, <2>9 DEF ToldSitesAreFresh, Outdated, web
<1>5. ASSUME NEW r \in Request, Finishing(r)
      PROVE  ToldSitesAreFresh'
  <2>1. stage'[r] = "idle" /\ call'[r] = NoCall
    BY <1>5 DEF Finishing, Done, TypeOK, Goto
  <2>2. \A q \in Request \ {r} :
          call'[q] = call[q] /\ stage'[q] = stage[q] /\ row'[q] = row[q] /\ draft'[q] = draft[q]
    BY <1>5 DEF Finishing, Done, TypeOK, Goto
  <2>3. /\ club' = club /\ role' = role /\ event' = event
        /\ crossed' = crossed \ {r} /\ entitled' = entitled \ {r} /\ current' = current \ {r}
    BY <1>5 DEF Finishing, Done
  <2> SUFFICES ASSUME NEW d \in Club
               PROVE  site'[d] \in {NoPage, PublicPage(d)'} \/ Outdated(d)'
    BY DEF ToldSitesAreFresh, Outdated
  <2>8. CountMembers(d)' = CountMembers(d) /\ PublicPage(d)' = PublicPage(d)
    BY <2>3, PageKept DEF tables
  <2>9. Outdated(d) => Outdated(d)'
    BY <1>5, <2>2 DEF Outdated, Finishing
  <2>10. CASE site'[d] = site[d]
    BY <2>8, <2>9, <2>10 DEF ToldSitesAreFresh, Outdated
  <2>11. CASE site'[d] # site[d]
    <3>1. /\ d = call[r].club /\ ForSite(r) /\ r \in current
          /\ \/ stage[r] = "barred" /\ site'[d] = ClubStub(CountMembers(d))
             \/ /\ stage[r] = "counted"
                /\ site'[d] = ClubResponse(row[r].status, draft[r].count, CurrentChampion(d))
      BY <1>5, <2>11 DEF Finishing, TypeOK
    <3>2. UpToDate(r) \/ Outdated(d)
      BY <3>1 DEF DraftsAreFresh
    <3>3. row[r] \in ClubRow
      BY <3>1 DEF CallShape
    <3>4. UpToDate(r) => site'[d] = PublicPage(d)
      BY <3>1, <3>3, ClubRows DEF UpToDate, PublicPage, Present
    <3> QED
      BY <2>8, <2>9, <3>2, <3>4
  <2> QED
    BY <2>10, <2>11
<1>6. ASSUME NEW r \in Request, Authorize(r)
      PROVE  ToldSitesAreFresh'
  <2> SUFFICES ASSUME NEW d \in Club
               PROVE  site'[d] \in {NoPage, PublicPage(d)'} \/ Outdated(d)'
    BY DEF ToldSitesAreFresh, Outdated
  <2>1. /\ stage[r] = "loaded" /\ stage'[r] # "written" /\ \A q \in Request \ {r} : stage'[q] = stage[q]
        /\ call' = call /\ site' = site /\ untold' = untold
        /\ club' = club /\ role' = role /\ event' = event
    BY <1>6 DEF Authorize, Goto, TypeOK, tables, web
  <2>8. CountMembers(d)' = CountMembers(d) /\ PublicPage(d)' = PublicPage(d)
    BY <2>1, PageKept DEF tables
  <2>9. Outdated(d) => Outdated(d)'
    BY <2>1 DEF Outdated
  <2> QED
    BY <2>1, <2>8, <2>9 DEF ToldSitesAreFresh, Outdated
<1>7. ASSUME NEW r \in Request, Count(r)
      PROVE  ToldSitesAreFresh'
  <2> SUFFICES ASSUME NEW d \in Club
               PROVE  site'[d] \in {NoPage, PublicPage(d)'} \/ Outdated(d)'
    BY DEF ToldSitesAreFresh, Outdated
  <2>1. /\ stage[r] = "allowed" /\ stage'[r] # "written" /\ \A q \in Request \ {r} : stage'[q] = stage[q]
        /\ call' = call /\ site' = site /\ untold' = untold
        /\ club' = club /\ role' = role /\ event' = event
    BY <1>7 DEF Count, Goto, TypeOK, tables, web
  <2>8. CountMembers(d)' = CountMembers(d) /\ PublicPage(d)' = PublicPage(d)
    BY <2>1, PageKept DEF tables
  <2>9. Outdated(d) => Outdated(d)'
    BY <2>1 DEF Outdated
  <2> QED
    BY <2>1, <2>8, <2>9 DEF ToldSitesAreFresh, Outdated
<1>8. ASSUME NEW r \in Request, Revalidate(r)
      PROVE  ToldSitesAreFresh'
  <2>1. stage'[r] = "idle" /\ call'[r] = NoCall
    BY <1>8 DEF Revalidate, TypeOK, Goto
  <2>2. \A q \in Request \ {r} : call'[q] = call[q] /\ stage'[q] = stage[q]
    BY <1>8 DEF Revalidate, TypeOK, Goto
  <2>3. /\ club' = club /\ role' = role /\ event' = event /\ row' = row /\ draft' = draft
        /\ crossed' = crossed \ {r} /\ entitled' = entitled
        /\ current' = current \ {q \in Request : call[q].club = call[r].club}
    BY <1>8 DEF Revalidate, tables, reads
  <2> SUFFICES ASSUME NEW d \in Club
               PROVE  site'[d] \in {NoPage, PublicPage(d)'} \/ Outdated(d)'
    BY DEF ToldSitesAreFresh, Outdated
  <2>8. CountMembers(d)' = CountMembers(d) /\ PublicPage(d)' = PublicPage(d)
    BY <2>3, PageKept DEF tables
  <2>9. CASE d = call[r].club
    BY <1>8, <2>9 DEF Revalidate, TypeOK
  <2>10. CASE d # call[r].club
    <3>1. Outdated(d) => Outdated(d)'
      BY <1>8, <2>2, <2>10 DEF Outdated, Revalidate
    <3>2. site'[d] = site[d]
      BY <1>8, <2>10 DEF Revalidate, TypeOK
    <3> QED
      BY <2>8, <3>1, <3>2 DEF ToldSitesAreFresh, Outdated
  <2> QED
    BY <2>9, <2>10
<1> QED
  BY <1>1, <1>2, <1>3, <1>4, <1>5, <1>6, <1>7, <1>8, StepKinds

-----------------------------------------------------------------------------
(* The invariant.                                                          *)

LEMMA InitIInv == Init => IInv
<1> SUFFICES ASSUME Init PROVE IInv
  OBVIOUS
<1>1. /\ stage = [r \in Request |-> "idle"] /\ call = [r \in Request |-> NoCall]
      /\ row = [r \in Request |-> NoClub] /\ draft = [r \in Request |-> NoPage]
      /\ site = [c \in Club |-> NoPage]
  BY DEF Init
<1>2. TypeOK /\ NoOrphans /\ SecondClubsOverlapped
  <2>1. /\ kept = {} /\ writes = 0 /\ untold = {} /\ doubled = {}
        /\ crossed = {} /\ entitled = {} /\ current = {}
    BY DEF Init
  <2>2. CASE /\ club = [c \in Club |-> NoClub]
             /\ role = [c \in Club |-> NoMembers]
             /\ event = [e \in Event |-> Unplanned]
    BY <1>1, <2>1, <2>2, ConstantsTyped, BoundAssumption
       DEF TypeOK, NoOrphans, SecondClubsOverlapped, Present, NoMembers, Stage
  <2>3. CASE ~(/\ club = [c \in Club |-> NoClub]
               /\ role = [c \in Club |-> NoMembers]
               /\ event = [e \in Event |-> Unplanned])
    <3>1. PICK c \in Club, u \in Creator, p \in BOOLEAN :
            /\ club = [d \in Club |->
                 IF d = c THEN [owner |-> u, public |-> p, status |-> "active"] ELSE NoClub]
            /\ role = [d \in Club |->
                 IF d = c THEN [v \in User |-> IF v = u THEN "organizer" ELSE "member"] ELSE NoMembers]
            /\ event = [e \in Event |->
                 IF e = MaxEvents
                 THEN [club |-> c, status |-> "held", hasWinner |-> FALSE, winner |-> Nobody]
                 ELSE Unplanned]
      BY <2>3 DEF Init
    <3>2. [owner |-> u, public |-> p, status |-> "active"] \in ClubRow
      BY AccountAssumption DEF ClubRow
    <3>3. club \in [Club -> ClubRow \cup {NoClub}] /\ club[c] \in ClubRow
      BY <3>1, <3>2
    <3>4. role \in [Club -> [User -> {"none", "member", "organizer"}]]
      BY <3>1 DEF NoMembers
    <3>5. event \in [Event -> EventRow \cup {Unplanned}]
      BY <3>1 DEF EventRow
    <3>6. TypeOK
      BY <1>1, <2>1, <3>3, <3>4, <3>5, ConstantsTyped, BoundAssumption DEF TypeOK, Stage
    <3>7. Present(c) /\ \A d \in Club \ {c} : ~Present(d) /\ role[d] = NoMembers
      BY <3>1, <3>3, ClubRows DEF Present
    <3>8. NoOrphans
      BY <3>1, <3>7 DEF NoOrphans
    <3>9. SecondClubsOverlapped
      <4>1. \A d \in Club \ {c} : club[d] = NoClub
        BY <3>1
      <4>2. club[c].owner # NoClub.owner
        BY <3>3, AccountAssumption DEF ClubRow, NoClub
      <4> QED
        BY <4>1, <4>2, <3>7 DEF SecondClubsOverlapped
    <3> QED
      BY <3>6, <3>8, <3>9
  <2> QED
    BY <2>2, <2>3
<1>3. CallShape /\ FreshClubs /\ LoadedRowsStand /\ EditsShow
  BY <1>1 DEF CallShape, FreshClubs, LoadedRowsStand, EditsShow
<1>4. EntitledSoFar /\ PrivateClubsStayPrivate /\ DraftsAreFresh
  BY <1>1 DEF EntitledSoFar, PrivateClubsStayPrivate, DraftsAreFresh, NoCall, ReadOps
<1>5. ToldSitesAreFresh
  BY <1>1 DEF ToldSitesAreFresh
<1> QED
  BY <1>2, <1>3, <1>4, <1>5 DEF IInv

LEMMA NextIInv == IInv /\ [Next]_vars => IInv'
BY TypeKept, ShapeKept, OrphansKept, FreshKept, SecondKept, RowsKept, EditsKept,
   EntitledKept, PrivateKept, DraftsKept, SitesKept DEF IInv

(* The strengthened invariant holds in every state of the specification.   *)
THEOREM Invariance == Spec => []IInv
BY InitIInv, NextIInv, PTL DEF Spec

-----------------------------------------------------------------------------
(* The results.                                                            *)

(* Every variable keeps its type, for any accounts, clubs and requests.    *)
THEOREM TypeCorrect == Spec => []TypeOK
BY Invariance, PTL DEF IInv

(* create_club_service: whoever owns two clubs asked for one of them while *)
(* the other was being created.                                            *)
THEOREM OwnersHaveOneClub == Spec => []SecondClubsOverlapped
BY Invariance, PTL DEF IInv

(* update_club, pause_club, cancel_club, reschedule_club: a committed edit *)
(* leaves the club as was asked, unless somebody changed it since it was   *)
(* loaded.                                                                 *)
THEOREM EditsTakeEffect == Spec => []EditsShow
BY Invariance, PTL DEF IInv

(* can_view_club and the lists: nobody is shown a private club that could  *)
(* not have seen it at some moment of the request.                         *)
THEOREM PrivacyHolds == Spec => []PrivateClubsStayPrivate
BY Invariance, PTL DEF IInv

(* revalidate_club: the site keeps no page that a visitor would not get    *)
(* now, once it has been told of every change.                             *)
THEOREM SitesAreFresh == Spec => []ToldSitesAreFresh
BY Invariance, PTL DEF IInv

=============================================================================
