----------------------------- MODULE ClubPages -----------------------------
(***************************************************************************)
(* Clubs as records and as pages: an organizer creates a club, edits,      *)
(* pauses, cancels, reschedules and deletes it, plans events and names     *)
(* their winners; visitors and members read the page of a club, or part of *)
(* it, in several statements; and the web site that renders the pages      *)
(* keeps the answers until a webhook tells it to forget them               *)
(* (app/routers/clubs.py, app/services/club_service.py, revalidate.py,     *)
(* event_service.py and routers/randomizer.py).                            *)
(*                                                                         *)
(* A request is a slot.  Its transaction is READ COMMITTED: between two of *)
(* its statements any other request may commit.  An edit writes only the   *)
(* columns whose new value differs from the value it loaded.               *)
(*                                                                         *)
(* Names, pictures, dates and descriptions are left out; of the events,    *)
(* who attends (EventRooms and ClubMembership say who may), so that here   *)
(* anybody may turn out to have won.                                       *)
(***************************************************************************)
EXTENDS Naturals, FiniteSets

CONSTANTS
  User,       \* accounts that create and join clubs
  Creator,    \* those of them with the role organizer
  Admin,      \* accounts with the role admin, none of them in a club
  Nobody,     \* whoever is not signed in
  Club,       \* ids of clubs
  Request,    \* slots for requests in flight
  MaxEvents,  \* bound: events ever planned
  MaxWrites   \* bound: commits

ASSUME AccountAssumption ==
  /\ IsFiniteSet(User) /\ Creator \subseteq User
  /\ User \cap Admin = {} /\ Nobody \notin User \cup Admin \cup Club
ASSUME BoundAssumption == MaxEvents \in Nat /\ MaxWrites \in Nat

Viewer == User \cup Admin \cup {Nobody}

(* Events are numbered in the order of their dates.                        *)
Event == 1..MaxEvents
NoEvent == 0

VARIABLES
  club,      \* clubs: id -> row, NoClub without one
  role,      \* club_members: club -> account -> role, "none" without a row
  event,     \* events: number -> row, Unplanned without one
  kept,      \* clubs with rows that the deletion of a club leaves out
  writes,    \* commits so far
  site,      \* web site: club -> the page it keeps, NoPage without one
  untold,    \* history: clubs whose latest change the site was not told
  call,      \* request -> what was asked, by whom, of which club
  stage,     \* request -> its next statement
  row,       \* request -> the row it loaded
  draft,     \* request -> the page it puts together
  crossed,   \* history: requests whose row another has changed since
  doubled,   \* history: clubs created by a request that was crossed
  entitled,  \* history: readers that might see the club at some moment
  current    \* web site: readers that began after its latest webhook

tables == <<club, role, event, kept>>
web == <<site, untold>>
reads == <<row, draft>>
vars == <<tables, writes, web, call, stage, reads, crossed, doubled, entitled, current>>

NoClub == [owner |-> Nobody, public |-> FALSE, status |-> "none"]
Unplanned == [club |-> Nobody, status |-> "none", hasWinner |-> FALSE, winner |-> Nobody]
NoPage == [kind |-> "none", status |-> "none", count |-> 0, champion |-> Nobody]
NoCall == [op |-> "none", by |-> Nobody, club |-> Nobody, event |-> NoEvent, winner |-> Nobody]

EditOps == {"pause", "cancel", "reschedule", "publish", "hide"}
EventOps == {"postpone", "crown", "credit", "discredit"}
CheckedOps == {"create", "delete", "plan", "draw"}
ReadOps == {"get", "events", "list"}

ClubRow == [owner : User, public : BOOLEAN, status : {"active", "paused", "cancelled"}]
EventRow == [club : Club, status : {"scheduled", "held"}, hasWinner : BOOLEAN,
             winner : User \cup {Nobody}]
Page == [kind : {"none", "club", "stub"}, status : {"active", "paused", "cancelled", "none"},
         count : 0..Cardinality(User), champion : User \cup {Nobody}]
Call == [op : EditOps \cup EventOps \cup CheckedOps \cup ReadOps \cup {"role", "none"},
         by : Viewer, club : Club \cup {Nobody}, event : Event \cup {NoEvent},
         winner : User \cup {Nobody}]

Stage == {
  "idle",
  "checked",   \* the caller may; nothing loaded that matters later
  "loaded",    \* has loaded the row it is about to write or to show
  "allowed",   \* a reader: the caller may see the club
  "barred",    \* get, events: the caller may not
  "counted",   \* get by the site: has counted the members
  "written" }  \* has committed; the answer and the webhook are due

(* Only the type of the state.                                             *)
TypeOK ==
  /\ club \in [Club -> ClubRow \cup {NoClub}]
  /\ role \in [Club -> [User -> {"none", "member", "organizer"}]]
  /\ event \in [Event -> EventRow \cup {Unplanned}]
  /\ kept \in SUBSET Club
  /\ writes \in 0..MaxWrites
  /\ site \in [Club -> Page]
  /\ untold \in SUBSET Club
  /\ call \in [Request -> Call]
  /\ stage \in [Request -> Stage]
  /\ row \in [Request -> ClubRow \cup EventRow \cup {NoClub}]
  /\ draft \in [Request -> Page]
  /\ doubled \in SUBSET Club
  /\ crossed \cup entitled \cup current \subseteq Request

NoMembers == [u \in User |-> "none"]

(* There is no club yet, or one that has been there for a while: everybody *)
(* has joined, and its latest event was held and has no winner so far.     *)
Init ==
  /\ \/ /\ club = [c \in Club |-> NoClub]
        /\ role = [c \in Club |-> NoMembers]
        /\ event = [e \in Event |-> Unplanned]
     \/ \E c \in Club, u \in Creator, p \in BOOLEAN :
          /\ club = [d \in Club |->
               IF d = c THEN [owner |-> u, public |-> p, status |-> "active"] ELSE NoClub]
          /\ role = [d \in Club |->
               IF d = c THEN [v \in User |-> IF v = u THEN "organizer" ELSE "member"] ELSE NoMembers]
          /\ event = [e \in Event |->
               IF e = MaxEvents
               THEN [club |-> c, status |-> "held", hasWinner |-> FALSE, winner |-> Nobody]
               ELSE Unplanned]
  /\ kept = {}
  /\ writes = 0
  /\ site = [c \in Club |-> NoPage]
  /\ untold = {}
  /\ call = [r \in Request |-> NoCall]
  /\ stage = [r \in Request |-> "idle"]
  /\ row = [r \in Request |-> NoClub]
  /\ draft = [r \in Request |-> NoPage]
  /\ crossed = {} /\ doubled = {} /\ entitled = {} /\ current = {}

-----------------------------------------------------------------------------
(* Helpers.                                                                *)

Present(c) == club[c] # NoClub
IsMember(u, c) == u \in User /\ role[c][u] # "none"
IsOrganizer(u, c) == u \in User /\ role[c][u] = "organizer"

(* Mutant of Owns: only an active club counts.                             *)
OwnsActive(u) == \E c \in Club : club[c].owner = u /\ club[c].status = "active"

(* "You already own a club": a club of any status counts.                  *)
Owns(u) == \E c \in Club : club[c].owner = u

CountMembers(c) == Cardinality({u \in User : role[c][u] # "none"})

(* The winner of the latest held event that has one.                       *)
Won(c) == {e \in Event : /\ event[e].club = c /\ event[e].status = "held"
                         /\ event[e].hasWinner /\ event[e].winner # Nobody}
CurrentChampion(c) ==
  IF Won(c) = {} THEN Nobody
  ELSE event[CHOOSE e \in Won(c) : \A d \in Won(c) : d <= e].winner

ClubResponse(status, n, u) == [kind |-> "club", status |-> status, count |-> n, champion |-> u]
ClubStub(n) == [NoPage EXCEPT !.kind = "stub", !.count = n]

(* What a visitor gets who asks now and is not crossed.                    *)
PublicPage(c) ==
  IF ~Present(c) THEN NoPage
  ELSE IF club[c].public
       THEN ClubResponse(club[c].status, CountMembers(c), CurrentChampion(c))
       ELSE ClubStub(CountMembers(c))

(* Who is meant to see a club with this row and these members.             *)
Entitles(u, cl, members) ==
  cl # NoClub /\ (cl.public \/ u \in Admin \cup {cl.owner} \/ (u \in User /\ members[u] # "none"))

Goto(r, s) == stage' = [stage EXCEPT ![r] = s]

Opens(r, op, u, c, e, w) ==
  /\ stage[r] = "idle"
  /\ call' = [call EXCEPT ![r] = [op |-> op, by |-> u, club |-> c, event |-> e, winner |-> w]]

(* Nothing of a request that is over is kept.                              *)
Done(r) ==
  /\ Goto(r, "idle")
  /\ call' = [call EXCEPT ![r] = NoCall]
  /\ row' = [row EXCEPT ![r] = NoClub]
  /\ draft' = [draft EXCEPT ![r] = NoPage]
  /\ crossed' = crossed \ {r}
  /\ entitled' = entitled \ {r}
  /\ current' = current \ {r}

(* The requests that loaded the row of club c, or checked what a new club  *)
(* of its owner changes.                                                   *)
Touched(c) ==
  {q \in Request :
     \/ stage[q] \in {"loaded", "written"} /\ call[q].club = c
     \/ stage[q] = "checked" /\ call[q].op = "create" /\ call[q].by = club'[c].owner}

(* Request r, which was to do op, commits a change of club c: what remains *)
(* is to answer and to tell the site.                                      *)
Commits(r, op, c) ==
  /\ writes < MaxWrites
  /\ writes' = writes + 1
  /\ Goto(r, "written")
  /\ call' = [call EXCEPT ![r] = [NoCall EXCEPT !.op = op, !.club = c]]
  /\ row' = [row EXCEPT ![r] = NoClub]
  /\ crossed' = IF club'[c] = club[c] THEN crossed ELSE crossed \cup (Touched(c) \ {r})
  /\ entitled' = entitled \cup
       {q \in Request : call[q].op \in ReadOps /\ call[q].club = c
                          /\ Entitles(call[q].by, club'[c], role'[c])}
  /\ UNCHANGED <<web, draft, current>>

-----------------------------------------------------------------------------
(* Creation: the look for a club of the caller and the insertion of one    *)
(* are statements of their own.                                            *)

LookForOwnClub(r) ==
  \E u \in Creator, c \in Club :
    /\ ~Present(c) /\ ~Owns(u)
    /\ \A q \in Request : call[q].club # c
    /\ Opens(r, "create", u, c, NoEvent, Nobody)
    /\ Goto(r, "checked")
    /\ UNCHANGED <<tables, writes, web, reads, crossed, doubled, entitled, current>>

CreateClub(r) ==
  LET u == call[r].by
      c == call[r].club
  IN /\ stage[r] = "checked" /\ call[r].op = "create"
     /\ \E p \in BOOLEAN :
          club' = [club EXCEPT ![c] = [owner |-> u, public |-> p, status |-> "active"]]
     /\ role' = [role EXCEPT ![c][u] = "organizer"]
     /\ doubled' = IF r \in crossed THEN doubled \cup {c} ELSE doubled
     /\ Commits(r, call[r].op, c)
     /\ UNCHANGED <<event, kept>>

-----------------------------------------------------------------------------
(* Edits.                                                                  *)

LoadForEdit(r) ==
  \E u \in User, c \in Club, op \in EditOps :
    /\ IsOrganizer(u, c)
    /\ Opens(r, op, u, c, NoEvent, Nobody)
    /\ Goto(r, "loaded")
    /\ row' = [row EXCEPT ![r] = club[c]]
    /\ UNCHANGED <<tables, writes, web, draft, crossed, doubled, entitled, current>>

(* Mutant of Edited: a misspelt status.                                    *)
EditedMisspelt(op, cl) ==
  CASE op = "pause" -> [cl EXCEPT !.status = "paused"]
    [] op = "cancel" -> [cl EXCEPT !.status = "canceled"]
    [] op = "reschedule" -> [cl EXCEPT !.status = "active"]
    [] op = "publish" -> [cl EXCEPT !.public = TRUE]
    [] op = "hide" -> [cl EXCEPT !.public = FALSE]

(* The columns an edit sets on the row it loaded.                          *)
Edited(op, cl) ==
  CASE op = "pause" -> [cl EXCEPT !.status = "paused"]
    [] op = "cancel" -> [cl EXCEPT !.status = "cancelled"]
    [] op = "reschedule" -> [cl EXCEPT !.status = "active"]
    [] op = "publish" -> [cl EXCEPT !.public = TRUE]
    [] op = "hide" -> [cl EXCEPT !.public = FALSE]

(* Mutant of Flushed: a field that is false counts as one not given.       *)
FlushedTruthy(now, was, new) ==
  [f \in DOMAIN now |->
     IF new[f] # was[f] /\ (f = "public" => new[f]) THEN new[f] ELSE now[f]]

(* What reaches the table: the columns that differ from the loaded ones.   *)
Flushed(now, was, new) ==
  [f \in DOMAIN now |-> IF new[f] # was[f] THEN new[f] ELSE now[f]]

CommitEdit(r) ==
  LET c == call[r].club
  IN /\ stage[r] = "loaded" /\ call[r].op \in EditOps /\ Present(c)
     /\ club' = [club EXCEPT ![c] = Flushed(@, row[r], Edited(call[r].op, row[r]))]
     /\ role' = role
     /\ Commits(r, call[r].op, c)
     /\ UNCHANGED <<event, kept, doubled>>

-----------------------------------------------------------------------------
(* Members come, go and change roles; each of these requests takes the     *)
(* lock on the club, verifies and commits (ClubMembership has the steps).  *)
ChangeMember(r) ==
  \E by, u \in User, c \in Club, new \in {"none", "member", "organizer"} :
    /\ Present(c) /\ u # club[c].owner /\ role[c][u] # new
    /\ IsOrganizer(by, c) \/ (by = u /\ new = "none")
    /\ IF IsMember(u, c) THEN TRUE ELSE new = "member"
    /\ stage[r] = "idle"
    /\ role' = [role EXCEPT ![c][u] = new]
    /\ club' = club
    /\ Commits(r, "role", c)
    /\ UNCHANGED <<event, kept, doubled>>

-----------------------------------------------------------------------------
(* Deletion, and the requests that only need an organizer to ask.          *)

CheckOrganizer(r) ==
  \E u \in User, c \in Club, op \in {"delete", "plan", "draw"} :
    /\ IsOrganizer(u, c)
    /\ Opens(r, op, u, c, NoEvent, Nobody)
    /\ Goto(r, "checked")
    /\ UNCHANGED <<tables, writes, web, reads, crossed, doubled, entitled, current>>

(* The club, its members and its events go in one transaction that holds   *)
(* the lock.  Quizzes, votes and draws are not among what it deletes: they *)
(* refer to the club, which therefore stays.                               *)
DeleteClub(r) ==
  LET c == call[r].club
  IN /\ stage[r] = "checked" /\ call[r].op = "delete"
     /\ Present(c) /\ club[c].owner = call[r].by
     /\ c \notin kept
     /\ club' = [club EXCEPT ![c] = NoClub]
     /\ role' = [role EXCEPT ![c] = NoMembers]
     /\ event' = [e \in Event |-> IF event[e].club = c THEN Unplanned ELSE event[e]]
     /\ doubled' = doubled \ {c}
     /\ Commits(r, call[r].op, c)
     /\ UNCHANGED kept

PlanEvent(r) ==
  LET c == call[r].club
  IN /\ stage[r] = "checked" /\ call[r].op = "plan" /\ Present(c)
     /\ \E e \in Event :
          /\ event[e] = Unplanned
          /\ event' = [event EXCEPT ![e] =
               [club |-> c, status |-> "scheduled", hasWinner |-> FALSE, winner |-> Nobody]]
     /\ club' = club /\ role' = role
     /\ Commits(r, call[r].op, c)
     /\ UNCHANGED <<kept, doubled>>

(* A draw of the randomizer is stored; the site is not told of it.         *)
StoreDraw(r) ==
  /\ stage[r] = "checked" /\ call[r].op = "draw" /\ Present(call[r].club)
  /\ kept' = kept \cup {call[r].club}
  /\ writes < MaxWrites /\ writes' = writes + 1
  /\ Done(r)
  /\ UNCHANGED <<club, role, event, web, doubled>>

-----------------------------------------------------------------------------
(* Events: a status, whether there is a winner and who it is, written like *)
(* the columns of a club.  Postponed stands for cancelled, too; an update  *)
(* may say only whether there is a winner; nothing makes an event held.    *)

LoadEvent(r) ==
  \E u \in User, e \in Event, op \in EventOps, w \in User \cup {Nobody} :
    /\ event[e] # Unplanned /\ IsOrganizer(u, event[e].club)
    /\ IF op = "crown" THEN event[e].status = "held" /\ w # Nobody ELSE w = Nobody
    /\ Opens(r, op, u, event[e].club, e, w)
    /\ Goto(r, "loaded")
    /\ row' = [row EXCEPT ![r] = event[e]]
    /\ UNCHANGED <<tables, writes, web, draft, crossed, doubled, entitled, current>>

EventEdited(op, ev, w) ==
  CASE op = "postpone" -> [ev EXCEPT !.status = "scheduled"]
    [] op = "crown" -> [ev EXCEPT !.hasWinner = TRUE, !.winner = w]
    [] op = "credit" -> [ev EXCEPT !.hasWinner = TRUE]
    [] op = "discredit" -> [ev EXCEPT !.hasWinner = FALSE]

CommitEvent(r) ==
  LET e == call[r].event
  IN /\ stage[r] = "loaded" /\ call[r].op \in EventOps
     /\ event[e].club = call[r].club
     /\ event' = [event EXCEPT ![e] =
                    Flushed(@, row[r], EventEdited(call[r].op, row[r], call[r].winner))]
     /\ club' = club /\ role' = role
     /\ Commits(r, call[r].op, call[r].club)
     /\ UNCHANGED <<kept, doubled>>

-----------------------------------------------------------------------------
(* A request that fails before it commits, or finds the club gone, is      *)
(* rolled back.                                                            *)
RollBack(r) ==
  /\ stage[r] \in {"checked", "loaded"} /\ call[r].op \notin ReadOps
  /\ Done(r)
  /\ UNCHANGED <<tables, writes, web, doubled>>

(* Mutant of Revalidate: private clubs are thought not to be on the site.  *)
RevalidatePublic(r) ==
  LET c == call[r].club
  IN /\ stage[r] = "written" /\ (Present(c) \/ call[r].op = "delete")
     /\ site' = IF Present(c) /\ ~club[c].public THEN site ELSE [site EXCEPT ![c] = NoPage]
     /\ untold' = untold \ {c}
     /\ Goto(r, "idle")
     /\ call' = [call EXCEPT ![r] = NoCall]
     /\ crossed' = crossed \ {r}
     /\ current' = current \ {q \in Request : call[q].club = c}
     /\ UNCHANGED <<tables, writes, reads, doubled, entitled>>

(* After the commit the row is read again, the answer built and the site   *)
(* told, which then forgets the page, also one that is on its way to it.   *)
Revalidate(r) ==
  LET c == call[r].club
  IN /\ stage[r] = "written" /\ (Present(c) \/ call[r].op = "delete")
     /\ site' = [site EXCEPT ![c] = NoPage]
     /\ untold' = untold \ {c}
     /\ Goto(r, "idle")
     /\ call' = [call EXCEPT ![r] = NoCall]
     /\ crossed' = crossed \ {r}
     /\ current' = current \ {q \in Request : call[q].club = c}
     /\ UNCHANGED <<tables, writes, reads, doubled, entitled>>

(* The answer cannot be built, or the webhook times out or is refused.     *)
RevalidateFails(r) ==
  /\ stage[r] = "written"
  /\ untold' = untold \cup {call[r].club}
  /\ Done(r)
  /\ UNCHANGED <<tables, writes, site, doubled>>

-----------------------------------------------------------------------------
(* Reading the page of a club, statement by statement.                     *)

OpensRead(r, op, u, c, s) ==
  /\ Opens(r, op, u, c, NoEvent, Nobody)
  /\ Goto(r, s)
  /\ row' = [row EXCEPT ![r] = club[c]]
  /\ entitled' = IF Entitles(u, club[c], role[c]) THEN entitled \cup {r} ELSE entitled
  /\ current' = current \cup {r}
  /\ UNCHANGED <<tables, writes, web, draft, crossed, doubled>>

GetClub(r) ==
  \E u \in Viewer, c \in Club : Present(c) /\ OpensRead(r, "get", u, c, "loaded")

(* Mutant of Listed: clubs that have members, whoever they are.            *)
ListedOfAnyMember(u, c) == club[c].public \/ \E v \in User : IsMember(v, c)

(* A list is made of what one statement selects.                           *)
Listed(u, c) == club[c].public \/ IsMember(u, c)

ListClubs(r) ==
  \E u \in Viewer, c \in Club :
    /\ Present(c) /\ Listed(u, c)
    /\ OpensRead(r, "list", u, c, "allowed")

ListMyClubs(r) ==
  \E u \in User, c \in Club :
    /\ IsMember(u, c) \/ club[c].owner = u
    /\ OpensRead(r, "list", u, c, "allowed")

(* The events of a club, or one of them with its club.                     *)
ReadEvents(r) ==
  \E u \in Viewer, c \in Club : Present(c) /\ OpensRead(r, "events", u, c, "loaded")

(* The events of all clubs: one statement selects and counts them.         *)
ListedEvents(u, c) == u \in Admin \/ Listed(u, c)

ListEvents(r) ==
  \E u \in Viewer, e \in Event :
    LET c == event[e].club
    IN /\ event[e] # Unplanned
       /\ ListedEvents(u, c)
       /\ OpensRead(r, "list", u, c, "allowed")

(* The row says whether the club is public and whose it is; the membership *)
(* is looked up now.                                                       *)
CanView(r) ==
  LET u == call[r].by
  IN IF row[r].public THEN TRUE
     ELSE u # Nobody /\ (u \in Admin \/ row[r].owner = u \/ IsMember(u, call[r].club))

Authorize(r) ==
  /\ stage[r] = "loaded" /\ call[r].op \in ReadOps
  /\ Goto(r, IF CanView(r) THEN "allowed" ELSE "barred")
  /\ UNCHANGED <<tables, writes, web, call, reads, crossed, doubled, entitled, current>>

(* The web site asks like any visitor and keeps what it gets, unless it    *)
(* was told to forget the club in the meantime: that it drops a page it    *)
(* asked for before the webhook is an assumption about the web site, whose *)
(* code is not in this repository.                                         *)
ForSite(r) == call[r].by = Nobody /\ call[r].op = "get"

Answer(r, page) ==
  /\ site' = IF ForSite(r) /\ r \in current
             THEN [site EXCEPT ![call[r].club] = page] ELSE site
  /\ Done(r)
  /\ UNCHANGED <<tables, writes, untold, doubled>>

ShowStub(r) ==
  /\ stage[r] = "barred" /\ call[r].op = "get"
  /\ Answer(r, ClubStub(CountMembers(call[r].club)))

(* No events, or "Event not found".                                        *)
ShowNoEvents(r) ==
  /\ stage[r] = "barred" /\ call[r].op = "events"
  /\ Answer(r, NoPage)

(* The events, counted and marked with what the caller attends.            *)
ShowEvents(r) ==
  /\ stage[r] = "allowed" /\ call[r].op = "events"
  /\ Answer(r, NoPage)

(* Members, and lists in bulk, are shown the same; nobody keeps it.        *)
ShowSignedIn(r) ==
  /\ stage[r] = "allowed" /\ call[r].op # "events" /\ ~ForSite(r)
  /\ Answer(r, NoPage)

Count(r) ==
  /\ stage[r] = "allowed" /\ ForSite(r)
  /\ draft' = [draft EXCEPT ![r].count = CountMembers(call[r].club)]
  /\ Goto(r, "counted")
  /\ UNCHANGED <<tables, writes, web, call, row, crossed, doubled, entitled, current>>

ShowClub(r) ==
  /\ stage[r] = "counted"
  /\ Answer(r, ClubResponse(row[r].status, draft[r].count, CurrentChampion(call[r].club)))

-----------------------------------------------------------------------------

Next == \E r \in Request :
  \/ LookForOwnClub(r) \/ CreateClub(r)
  \/ LoadForEdit(r) \/ CommitEdit(r)
  \/ ChangeMember(r)
  \/ CheckOrganizer(r) \/ DeleteClub(r) \/ PlanEvent(r) \/ StoreDraw(r)
  \/ LoadEvent(r) \/ CommitEvent(r)
  \/ RollBack(r) \/ Revalidate(r) \/ RevalidateFails(r)
  \/ GetClub(r) \/ ReadEvents(r) \/ ListClubs(r) \/ ListMyClubs(r) \/ ListEvents(r)
  \/ Authorize(r) \/ ShowStub(r) \/ ShowNoEvents(r) \/ ShowEvents(r)
  \/ ShowSignedIn(r) \/ Count(r) \/ ShowClub(r)

Spec == Init /\ [][Next]_vars

-----------------------------------------------------------------------------
(* Properties.                                                             *)

(* An account has two clubs only if it asked for both at once: ownership   *)
(* is looked up in one statement and given in a later one, with nothing    *)
(* unique about organizer_id (create_club_service).                        *)
SecondClubsOverlapped ==
  \A c, d \in Club :
    Present(c) /\ c # d /\ club[c].owner = club[d].owner => c \in doubled \/ d \in doubled

(* When an edit is answered the club is as was asked, although columns     *)
(* that seemed to have that value already were not written, unless another *)
(* request changed the club since this one loaded it (update_club,         *)
(* pause_club, cancel_club, reschedule_club).                              *)
EditsShow ==
  \A r \in Request :
    stage[r] = "written" /\ call[r].op \in EditOps =>
      \/ Edited(call[r].op, club[call[r].club]) = club[call[r].club]
      \/ r \in crossed

(* "the client's next render sees fresh data" (revalidate_club): the page  *)
(* the web site keeps is the one a visitor would get now, unless a change  *)
(* is committed and its webhook still due, or the webhook failed.          *)
ToldSitesAreFresh ==
  \A c \in Club :
    \/ site[c] \in {NoPage, PublicPage(c)}
    \/ c \in untold
    \/ \E r \in Request : stage[r] = "written" /\ call[r].club = c

(* Whoever is shown a club might see it at some moment while the request   *)
(* ran: the row and the membership are read in different statements, and   *)
(* the rest of the page after both (can_view_club, list_public_or_member). *)
PrivateClubsStayPrivate ==
  \A r \in Request :
    call[r].op \in ReadOps /\ stage[r] \in {"allowed", "counted"} => r \in entitled

=============================================================================
