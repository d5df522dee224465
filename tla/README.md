# Formal models of the Book Club backend

TLA+ models of the FastAPI service in `src/app`, the TLC configurations that
check them on small instances, and TLAPS proofs of what they guarantee for every
instance. The service keeps clubs, their members and bans, events with
attendance, book votes, quizzes and chat rooms in PostgreSQL, and live chat
sessions in the memory of its one process.

Contents: [what is checked](#modules) and [how it relates to the code](#correspondence),
[runs](#runs), [proofs](#proofs), [inventory of the system](#inventory),
[plan](#plan), [what is left out](#not-modelled).

## How to run

    tlc -config MCClubRoles.cfg MCClubMembership      # any .cfg with the MC module of its name
    tlapm ClubMembershipProofs.tla                    # likewise every other ...Proofs.tla

## Modules

| module | models | checked by | proved in |
|---|---|---|---|
| `ClubRoster` | what a club promises about its roster: each change of a role is one step, entitled in the state it takes effect in | as `RosterSpec` of `ClubMembership` | `ClubMembershipProofs` |
| `ClubMembership` | the requests that change members, roles, bans, join requests and attendance, one database statement at a time | `MCClubMembership` | `ClubMembershipProofs` |
| `ChatGateway` | the WebSocket sessions of one chat room, the ConnectionManager, kicks; access changes as `ClubRoster` allows | `MCChatGateway` | `ChatGatewayProofs` |
| `EventRooms` | a club's events and their chat rooms: create, edit, reschedule, cancel, open, delete, and the hourly clean-up pass | `MCEventRooms` | `EventRoomsProofs` |
| `ClubPages` | clubs and their pages: creation, edits, deletion, planning events and naming winners, reads in several statements, the web site's cache and the webhook | `MCClubPages` | `ClubPagesProofs` |
| `ChatReads` | what is read of a chat room: messages and their dates, read marks, unread counts, pages of history, the clean-up of quiet rooms | `MCChatReads` | `ChatReadsProofs` |
| `Ballot` | what a round promises of every request: it takes effect in one step, once, while it is under way, or not at all | as `BallotSpec` of `BookVote` | `BookVoteProofs` |
| `BookVote` | one voting round: books put up and taken off, votes cast, moved and withdrawn, the closing | `MCBookVote` | `BookVoteProofs` |
| `Quiz` | one quiz: questions and their order, sessions, attempts and boards | `MCQuiz` | `QuizProofs` |
| `OneTimeCodes` | what the service promises of every secret it leaves in Redis for one later request | as `CodesSpec` of `SignIn` | `SignInProofs` |
| `SignIn` | tabs of browsers that sign in through the provider or with a password, register, refresh, sign out and get WebSocket tickets; the users' rows | `MCSignIn` | `SignInProofs` |

`ChatGateway` instantiates `ClubRoster` for everything that changes a role, and
`ClubMembership` is proved to implement `ClubRoster`. So the chat model faces any
sequence of role changes the club model can produce, without its requests and
locks. `SignIn` is proved to implement `OneTimeCodes` in the same way: whoever
presents a verifier, a handoff code or a ticket may rely on the three actions of
that module alone. `BookVote` is proved to implement `Ballot`, where every request is
one step. `EventRooms`, `ClubPages`, `ChatReads`, `BookVote` and `Quiz` meet
the rest in a few steps, which they have as actions of their own: what deleting a
room does to the sockets in it is `RoomDropped` and `RoomDeleted` in `ChatGateway`;
memberships come and go by `ChangeMember` in `ClubPages`; who may ask for what in a
round or a quiz is the matter of `ClubMembership`.

## Correspondence

`PROJECT.json` maps every definition to the lines it translates. In short:

### ClubMembership

State: `club`, `role`, `ban`, `joinReq`, `attending` are the committed rows of
`clubs`, `club_members`, `club_bans`, `club_join_requests` and (for one event
that is far enough away) `event_attendees`. A request in flight is a slot `r` with
`call[r]` and `stage[r]`; a stage is the last thing the request learned from the
database, so each action is one statement, or one flush and commit, of a READ
COMMITTED transaction, and any other request may act between two of them.

* `lock_club_for_update` is `Acquire`/`Refuse`: a request in stage *waiting* may
  go on only when nobody is *granted*. The re-reads that follow
  (`_lock_club_and_recheck_actor`, `_get_member_fresh`, `_count_organizers`) are
  part of the same action: they come after the lock is held, and the proof
  (`GrantsStayValid`) is that nobody can change what they read before the commit.
* Inserts of rows that refer to the club need a key-share lock on its row, which
  PostgreSQL withholds while it is held FOR UPDATE: `ClubReferable`. This is the
  only thing that keeps an approval, which takes no lock itself, out of another
  request's locked section.
* Unique constraints and foreign keys decide between the success and the failure
  action of an insert (`JoinInsert`/`JoinInsertFails`,
  `ApproveInsert`/`ApproveInsertFails`, `CommitBan`/`FailBan`).
* `Abort` is every way a transaction can end early: statement timeout
  (`command_timeout`), deadlock victim, dropped connection, restart.
* A ban of a given duration expires when time passes it (`BanExpires`); its row
  stays.

### ChatGateway

One room, one process, one event loop: code between two awaits is atomic and an
action is such a stretch. `phase[c]` is where the coroutine of socket `c` is
suspended. `active` and `presence` are the ConnectionManager's two dictionaries
at this room, which the code updates separately. A broadcast copies the list and
awaits one send per socket (`sendTo`); a kick copies the user's sockets and awaits
one close per socket (`sweep`). `link` is the transport: a vanished client is
not noticed until a send or a receive fails, and a send to it may also succeed.

* `CheckAccess` takes the reads of `_ws_authenticate` before `get_active_ban` as
  one: of two changes that fall between them, each leads where the same change
  just before or just after both does. `CheckBan` and `CompleteHandshake` stay
  separate, because that gap is where a kick is missed.
* `ReceiveMessage` asks for a ban and fills the cache in one step: the cache is a
  local variable of the handler that nobody else sees. `BanCacheExpires` may
  happen at any time, which covers every duration of the cache.
* A sweep has the steps of its request: committed, looked up, list copied, one
  close at a time. Lookups are best-effort in the code (`try/except` around
  them), so `LookUpFails` gives up.
* `excuse` is a history variable and constrains nothing: it records, at the step
  that lets a socket slip, which of four known ways that was.
* A slot is used for a new socket only when nothing in the process refers to the
  old one, as objects are distinct in the code.
* The one room stands for the room that a kick looks up. `kick_user_from_event_room`
  takes the first room of the event that the database returns: of an event that has
  two (`EventRooms`), the other is not swept, which no property here speaks of.

### EventRooms

Time is `clock`, the UTC day of an instant is `DayOf`, and the grace period is
`Grace` instants (five days in the code). A room is an id in `live`; ids are never
given out twice. A run may begin with an event that has no room, the "older event"
of `get_or_create_event_chat_room`'s docstring. `said[rm][t]` counts the countdown messages of a room by
timestamp. Other messages matter only to a deletion that has already emptied the
room, so that is the only time the model has them (`WriteLate`).

* A request reads its event and assigns to the ORM object. What a commit writes is
  the attributes that differ from what was *read* (`Changes`), on top of what the
  row is by then (`Updated`).
* A deletion is two steps: the children first, the room at the commit. `cleared`
  and `late` are per transaction: a child committed in between refers to the room
  and the second step fails (`Abort`, `DeleteDoomedFails`). This is one mechanism
  for `cancel_event`, `delete_chat_room` and the pass.
* `update_event`'s own deletion branch (`routers/events.py:149`) is not modelled: it
  asks for a `status` that `EventUpdatePayload` forbids, and so no endpoint ever
  sets *held* or *active* either.
* The pass reads all dates once. `now` is taken before, and a message is dated by
  the start of the database transaction it is in (`tx`): the first begins with the
  selection, each later one with the refresh after a commit. An exception ends the
  pass, and the loop begins another.
* There is one pass at a time: `main.py:141` asks for one instance with background
  tasks. The clocks of the service and the database are taken as one.
* An organizer may delete the countdown message (`DeleteMessage`), after which the
  next pass writes it again: `OneCountdownPerDay` is about the messages the room
  holds, which is what the code checks, and not about what members saw.
* A name is taken as the title it is made from. Two limits of the code stay outside:
  a title of more than about 90 characters makes a name too long for
  `chat_rooms.name`, and a title is not free again before its first room is gone; either
  way the creation of the event fails as a whole.

### ClubPages

`club`, `role`, `event` are committed rows; `kept` stands for the tables that refer
to a club and that its deletion leaves out (quizzes, votes, draws), of which
`StoreDraw` fills one. A request loads a row (`row`), and what an edit writes is
`Flushed`: the columns whose new value differs from the loaded one. `site` is the
web site's cache, external code: `Answer` fills it from a page that began after the
latest webhook (`current`), and `Revalidate` empties it by the tags that
`revalidate.py` names. That the site drops a page which it asked for before a webhook
and receives after it is an assumption about code that is not in this repository;
`ToldSitesAreFresh` and `SitesAreFresh` are conditional on it. `RevalidateFails` is every way in which the webhook does not
arrive: the call is made once, after the commit, and its failure is logged.

* A read is `OpensRead` (the club's row), `CanView` (the membership, asked only of a
  private club), `Count` and `ShowClub`; the listings decide in one statement
  (`Listed`, `ListedEvents`). An administrator sees everything.
* The champion of a club is that of its events that are *held*, have a winner and
  say so (`hasWinner`). An event is rescheduled or cancelled ("postpone"), given a
  winner ("crown"), or edited to say that it has one or none (`has_winner` of
  `update_event`: "credit", "discredit"). No endpoint makes an event *held*; a run
  may begin with one, as the database may hold one.
* Four history variables say who was crossed, by whom a club was created twice, who
  was entitled at some moment and which club the site was not told of. They
  constrain nothing.

### ChatReads

Messages are numbered in the order they are stored and carry the date their
transaction began at. An HTTP request dates its message with its own start
(`SendMessage(t)`, any `t` up to now), a WebSocket handler with the end of its
previous message (`socket`). The mark of the reader is a row that two tabs look
for (`FindMark`) and write (`SetMark`, `SetMarkFails`), and that the foreign key
resets when its message goes (`Delete`). The count and the pages compare dates with
a subquery on a message that may be gone (`Unread`, `Pages`), and the task selects,
purges and deletes in three statements (`SelectRoom`, `PurgeMessages`, `DeleteRoom`)
or fails (`PassFails`).

### BookVote and Ballot

One round. A closer reads the books (`seen`), then the votes (`counts`), then
writes the winner; a voter reads the round and its earlier vote, deletes it and
inserts another. The row lock that a deletion takes is held until the commit:
`ForgetRow` is what the others find afterwards. `missed` and `late` are history:
the kinds of commits a closer did not see. The refinement keeps the tables and the
calls as they are and maps `busy` to the requests whose stage is not *idle*: reading,
counting and flushing are steps that `Ballot` does not see, the commit is the one it
sees. `Ballot` is loose where the code is: a vote asked for in an open round may land in
a closed one, and any book may be announced (that is `VerdictStands`).

### Quiz

A request of an organizer reads (`CountQuestions`, `FindQuestions`) and writes in a
later statement: a new question gets the number of questions as its position, an
edit or an order writes what differs from what was read (`Write`). An order is any
list of ids (`schemas/quizzes.py:67` asks for no more): some questions may be missing
from it, and an id that is repeated, or gone, takes up a place. The last place of an id
is the one that stays (`Placed`), so that the order `[q1, q1]` puts the only question
at position 1, where the next one added will be, too. An order that finds no question
changes nothing and is no step. The changed rows of an order go to the driver
as one `executemany`, whose row count is not reported, so that a row that is gone by
then is noticed (`ChangeFails`) or not (`ReorderQuestions`). Questions are
listed by position, and questions that share one may come in either order
(`Listings`). A player's page is a listing; the answers are sent by index
and marked by index against a listing read anew (`MarkAnswers`). An
attempt and a session are dated by the start of their transactions, and a board is
what is dated from its session on (`Since`).

### SignIn and OneTimeCodes

A sign-in is an attempt, a number; everything random made for it goes by that
number. `redis` are the keys that are there; `flowCookie`, `challenge` and `jar` are the
browser's cookies, shared by its tabs. A client signs out with the two tokens of one
session (`Logout`), by its cookies or by itself: `logout` would also take an
Authorization header of one session beside the refresh cookie of another. A step is what the service does between two
awaits on Redis, the provider or the database. `GetDel` is the only way to take a
key; `KeyExpires` and `CookieExpires` are their times to live. Every await has its
failing branch (`CallbackBreaks`, `RequestBreaks`, `ExchangeLost`, `GiveUp`).
`_get_or_create_user` is four statements (`FindById`, `FindByEmail`, `Relink`,
`InsertUser`) with the conflict of two insertions. The refinement maps `live` to
`redis`; `issued` and `uses` are history variables of both.

## Runs

| run | what it shows |
|---|---|
| `club_roles` | Three requests, three accounts, promote/demote/remove/approve: what a request verified under the lock stands until it commits; the owner keeps the rank; each change is one its own caller is entitled to when it takes effect; the roster refines `ClubRoster`. |
| `club_admission` | All operations, two requests, under fairness: a deleted club leaves no row behind; nobody is a member without a join request; every request is answered. |
| `chat_sessions` | Two tabs of one account, broadcasts, bans, room deletions, under fairness: presence is exactly the users with a socket; a banned user's cached "not banned" never outlives the kick; vanished sessions are dropped. |
| `chat_access` | One socket in an event's room against every change of membership, rank, attendance and room with two sweeps at once: a socket without entitlement is about to be closed or has one of four excuses. |
| `event_rooms` | An event, two rooms, two requests and the pass: at most one countdown message a day in a room; two rooms of an event only after a change of title; a room goes early only if the date moved under the pass. |
| `event_expiry` | Under the fairness of the task's loop: a room past its grace period goes. |
| `club_pages` | Two requests of any kind, two clubs, one event, a failing webhook: two clubs of one owner were asked for at once; an answered edit shows unless it was crossed; the site keeps no old page once it was told; a private club is shown only to somebody who might see it while the request ran. |
| `chat_reads` | Two tabs, three messages, a count, a pager and the task: counts miss only what was dated in the past, marks and pages stand but for what crossed them, and only quiet rooms go. |
| `book_vote` | Two members, two books, two requests: a vote goes only by being withdrawn, the verdict is the leader's but for what was committed behind the closer, and every request acts whole or not at all (`BallotSpec`). |
| `quiz` | Two questions, four edits, one session, a player in two tabs: positions stay 0, 1, 2, ... but for orders and deletions that say otherwise and for crossed requests; an attempt is marked as its player saw the questions, unless the list shifted or positions tie, and stands on its session's board. |
| `sign_in` | Two tabs of one browser, two identities of one address: codes work once (`CodesSpec`), a failure has a cause, sessions resolve to their user, a sign-out holds. |
| `club_banned_member` (violation) | Asking to join, being banned, then being approved makes a banned user a member. |

The violated property quotes what the code and its tests say; it is a finding in
`PROJECT.json` with the lines on both sides.

Many properties have the form "or it was crossed by ...". Each
exception is a kind of step that can break the promise, kept as narrow as the code
allows, so that the properties also say what the code does *not* guarantee:

* `UnentitledAreAccountedFor` names the ways a socket outlives its right: a
  handshake overtaken by the removal, a kick that could not look up its rooms, a
  demotion, which closes nothing, and an event cancelled or cleaned up, which
  deletes a room and leaves its sockets.
* `TwoRoomsOnlyIfRenamed` bounds the promise that "every event ends up with exactly
  one chat room" (`chat_service.py:312`): a change of title between two openings
  breaks it, and cancelling the event then fails. `RoomsOutliveTheGrace` bounds
  "Event chat rooms stay active for 5 days after the event date" (`cleanup.py:94`):
  only a date moved under a pass breaks it.
* `SecondClubsOverlapped`: two creations at once give one organizer two clubs.
  `EditsShow`: of two edits that cross, one is answered 200 without effect when the
  value it asks for is the one it had loaded.
* `VerdictStands`: a closed round may name a book that is gone, or not the leader.
* `LaterMessagesCount`: a WebSocket message dated before the mark is not counted as
  unread, however late it came; a count whose marked message is deleted
  under it is zero. `OnlyQuietRoomsGo`: a message posted while the task
  is between its statements goes with the room.
* `PositionsAreEven`: an order that repeats an id or leaves a question out, the
  deletion of a question that is not the last, and requests that cross leave gaps and
  ties, until an order lists every question once.
  `MarkedAsShown`: answers are marked against other questions if one was deleted,
  moved or added before others since they were shown, or if two share a position,
  whose order each query decides anew. A corrected answer, or a question
  added at the end, is no excuse: the answers given are marked against their own questions, by
  the key of the moment.
* `FailuresAreAccountedFor`: two tabs that sign in at once share cookies, and one of
  them fails. `LogoutHolds`: a refresh in flight signs the browser in again.

Other behaviour that the models have and no property speaks of: a former member's
approved join request answers "member" to every later attempt to join; the row of
an expired ban makes the next ban of that user fail; a ban between the check and
the insert of `attend_event` leaves a banned attendee; a client that vanishes before
the snapshot is sent stays in presence after its handler has ended; a club with a
quiz, a vote or a draw can never be deleted; a winner may cancel attendance after
being named. Outside the models, for who reads the code next: the listings of
public clubs and of quizzes paginate without an ORDER BY, and rescheduled events are
counted by `count_upcoming_events` but filtered out of the lists of events.

### Bounds, and why they are enough

* Club: the owner and one or two other accounts. Every guard is about an actor, a
  target and "some other organizer", so three accounts take all the parts. Two
  requests show every crossing of two operations; three in `club_roles` let an
  approval run beside two locked requests.
* Chat: two sockets of one user are what presence and the copies of lists turn
  on; one socket and two sweeps what access turns on. Bans, expiry, removal and
  re-admission may repeat without bound: the state is finite as it is, and no
  counter is capped.
* Symmetry: requests and non-owner accounts (`club_roles`), sweeps
  (`chat_access`), in runs without liveness only.
* Events: one event, two of its rooms, two titles and two dates; two requests make
  every pair of openings, changes and deletions (`event_rooms`, with symmetric
  requests, rooms and titles, three instants on two days); one request and four instants for
  the liveness (`event_expiry`). `Horizon` stops the clock, ids run out after two
  rooms (an older event can have both at once), and `MaxMishaps` = 1 limits how often the pass is broken off or a child comes
  late, as an endless row of accidents would keep any room alive.
* Pages: two requests and two commits on a club that is there, or on none: one
  commit that a request crosses and the one that it makes, which is the smallest
  instance of every property and of each of its exceptions. `MaxWrites` = 2 keeps the
  product of edits, reads, memberships and webhooks within minutes; the
  inductive invariant is free of it. One event, *held* and without a winner at first.
* Reads: three messages give a cursor, a tie of dates and one more; pages of one
  message make every page boundary; a retention of one of three instants lets a
  room become quiet, and be written to late.
* Votes: an organizer and a member, two books, two requests that may both close.
* Quiz: two questions; `MaxOrder` = 2 makes every order of one or two ids, repeated,
  incomplete or with one that is gone among them; four edits are two additions and
  two that cross; a session and an attempt that begin at the same or at different instants.
* Sign-in: two tabs of one browser meet in its cookies, two identities meet in
  the row of their address; two attempts in all. A session is given at most one WebSocket
  ticket, ever: tickets are random keys that have nothing in common.
* The proofs lift the safety properties to any number of accounts, requests,
  sockets, sweeps, clubs, messages, books, questions, tabs and sign-ins.

`CHECK_DEADLOCK FALSE` is set in the chat runs: ghost sockets (`chat_ghost`) keep
their slot for ever, and with every slot taken, the room and the club deleted and
no user left, the model really stops. In `chat_reads`, `book_vote`, `club_pages` and
`sign_in` the system stops when its bounds are used up (messages and time, a closed
round, commits, attempts) and every request has been answered.

### Fairness

* `ClubMembership!FairSpec`: strong fairness of each request's next statement. The
  event loop keeps scheduling every handler, statements have a 15 s timeout, and
  PostgreSQL queues the waiters of a row lock, so that a waiter for whom the row
  becomes free again and again gets it. No fairness is assumed of clients, of
  expiry or of aborts.
* `ChatGateway!FairSpec`: weak fairness of each handler's and each sweep's next
  step: the event loop runs every coroutine that can go on, and sends and closes
  have the server's timeouts behind them. Nothing is assumed about clients
  (messages, vanishing, connecting), the cache's expiry or changes of access. A
  receive on a transport that is gone fails eventually: uvicorn's pings.
* `EventRooms!FairSpec`: weak fairness of the pass's next step. The task's loop
  survives every exception but its cancellation. Nothing is assumed of requests,
  of time or of accidents.
* The other modules state no fairness: what they promise is safety, and every
  request in them may be given up at any step.

## Proofs

The proof modules are for any sets of users, requests, sockets, sweeps, events, rooms,
clubs, tabs and identities and for any bounds. The assumptions are those on the
constants: the owner is an account, `UserOf` maps slots to users, the target *everyone*
is not a user, the task is not a request, dates and the grace period are
numbers, accounts and members are finitely many (they are counted),
administrators have no role in clubs, and a tab has one browser and an identity one address.

**ClubMembershipProofs.** The inductive invariant adds four facts to the checked
ones: at most one request is between lock and commit (`OneHolder`); while one is,
the club exists (`HolderHasClub`); a request to leave is made by the leaver
(`LeaveIsOwnCall`); a decision under way read a row that only the deletion of the
club removes (`DecisionHasRow`). `OneHolder` is the heart: roles change at the
commit of a holder or at an approval's insert, which needs the row unlocked, so
nothing a holder verified can change before it commits (`LockProtectsChecks`). The
owner's rank (`OwnerIsSafe`), the right of every caller (`CallersAreEntitled`) and the
refinement of `ClubRoster` (`ImplementsRoster`) follow from the commits being
permitted in the state they happen in. `DeletionIsComplete` and
`AdmissionIsByRequest` are the remaining parts.

**ChatGatewayProofs.** A socket is registered on the strength of an answer that
may be old, so the invariant follows the answer: from the moment access was read
a handshake is entitled or excused (`HandshakeExcused`), and until it registers
nothing else in the process knows its socket (`FreshHandshake`), so no sweep of an
earlier socket takes that excuse away. `OnlyTheLoopAsks` says that a ban answer is
held in the receive loop only, `SweepShape` what a sweep looks like in each stage,
`RoomGone` that without the room every socket is being closed or excused, which
the sweep that spares organizers needs. Results: `PresenceIsExact`,
`RevocationIsAccountedFor`, `BanReachesTheCache`, `LoopExitIsClean`.

**EventRoomsProofs.** Rooms are named after a title their event has had
(`LiveRooms`), which an opener carries from its read (`CallShape`), and names of rooms
that are there at once differ (`NamesDiffer`): so two rooms take two titles
(`RoomsFollowTitles`). A message is dated `tx`, never before `now`, whose midnight
the check goes back to (`PassClock`), so a message that finds none since then is the
first of its own day even when that is tomorrow (`CountdownIsDaily`). A doomed room is
over its date or was moved since (`DoomedAreOver`), and stays the same room because
ids are not reused (`GraceIsKept`). Assumed: days are monotone in time.

**ClubPagesProofs.** Calls are what their stage says (`CallShape`), and no member or
event is left of a club that is gone (`NoOrphans`). What a request loaded is what is
there or the request was crossed (`LoadedRowsStand`), which gives `EditsTakeEffect`.
The id of a club under creation is nobody else's and its owner owns no other
unless the request was crossed (`FreshClubs`), which gives `OwnersHaveOneClub`. A
reader is entitled as soon as what it loaded, or what is there now, entitles it
(`EntitledSoFar`): the row and the membership are from different moments, but a
club that was public when loaded was public then, and membership is asked last
(`PrivacyHolds`). A page on its way to the site is what a visitor would see now, or
the site is yet to be told, or was not told, or will refuse the page
(`DraftsAreFresh`), which gives `SitesAreFresh`.

**ChatReadsProofs.** No message is dated after it was stored (`DatesPrecede`), a
mark is on a message that is there (`MarkStands`), a count still finds its message
or knows that it lost it (`CountStands`), and what the task found quiet stays quiet
but for messages that came later (`PassStands`). The order of pages, by date and
then by id, is total and has a least element, so that what a client has not seen
is older than its cursor (`PagerStands`).

**BookVoteProofs.** A book goes only in a state in which it has no votes, and a vote
is inserted only while its book is there (`VotesKeepTheirOptions`, which the
runs have as part of `BallotSpec`). A request that
moves or withdraws a vote still holds the row it read, or knows that it went
(`RowsAreCurrent`): `VotesGoOnlyWithdrawn`. What a closer has read is what is there but
for the kinds of commits it missed (`ReadingsAreExplained`), so that the leader of
the one is the leader of the other but for those kinds: `VerdictIsExplained`.
`ImplementsBallot` is the refinement: of the statements of a request only the last
changes the round (`DoneEnds`, `StillBusy`), a book that is put up was not up before,
because the number it is asked for under is nobody else's (`BooksAreFresh`), and a vote
that is withdrawn is still the one its member named (`RowsAreCurrent`).

**QuizProofs.** Positions are in step when they are distinct and fill an interval
(`InStep`); a request that was not crossed still knows how many questions there are,
or where each is (`Placing`). Any list gives an id its last place (`LastPlace`), and
one that lists every question once gives each its own (`PlacedAt`) and is as long as
there are questions (`PermutedCardinality`). Nothing has begun
later than now, so that the session a player was shown began no later than the
attempt that follows, wherever that attempt is on its way (`SessionsBegan`,
`Entered`): `BoardsAreComplete`. A page that is not stale holds the questions that come
first, in their order (`Shown`, `Leading`), and stays so while the list does not shift
(`StillLeading`). Where no two questions share a position, each stands behind as
many as have a lower one (`LedAt`), whatever gaps there are: the list that answers are
marked against begins with the page they were given on (`ListingBeginsWith`), and each is
marked against its own question (`MarksOfOwnList`): `MarkingIsFair`.

**SignInProofs.** An attempt belongs to one tab until its session is in a browser
(`Single`), and a session to one browser (`OneJar`); the one number of an attempt
goes through a tab, Redis and a jar in that order (`Shape`). Whoever is signing out
has had the session revoked or knows that it was not (`Leaving`), a refresh that
outlives the sign-out is noted (`Refreshing`): `SignOutHolds`. Whoever has a session
has a row, until another identity takes the address (`Settled`): `SessionsAreOfUsers`.
`FailuresAreExplained` rests on `Blameless`: what the next step of a sign-in needs, its
verifier, its code, its cookies and its row, is there and its own (`Belongs`,
`Unclaimed`), unless it has an excuse (`Excused`). A step keeps that of its own tab
(`OwnKept`); from every other tab it takes nothing, or it excuses that tab
(`OthersSpared`, `OthersRespected`), and excuses stay (`StepIsSteady`). So no proof has to
follow two tabs through their actions at once. `CodesAreOneTime` is the refinement: a step issues one code, uses one, drops one or
leaves them alone. `CodesWorkOnce` carries `OneTimeCodes!UsedAtMostOnce` over to
`SignIn`, by an invariant of the abstract module alone.

Every invariant and every action property that a passing run checks is stated by a
theorem, and so are the three refinements. Only model-checked are the liveness properties
(`RequestsEnd`, `GoneSessionsAreDropped`, `ExpiredRoomsGo`): they rest on fairness, and so
on ENABLED, which the proof system does not reach. The violated property is
false, and has no theorem.

## Inventory

State is in PostgreSQL unless said otherwise. One instance runs (`render.yaml`).

| component | state | operations | what makes it correct | what makes it hard |
|---|---|---|---|---|
| membership and roles (`services/club_service.py`, `routers/members.py`, `dependencies.py`) | `club_members`, the club's row lock | remove, change role, leave, organizer check | owner keeps the rank; ranks are checked in the state they are changed in | statements of concurrent requests; writers without the lock |
| admission (same, `routers/clubs.py`) | `club_join_requests` | join, approve, reject, list | members asked; banned users are not members | stale reads, unique constraints, retry |
| club bans | `club_bans` | ban, unban, expiry, list | a ban ends membership and attendance | expired rows, attend's check-then-insert |
| club life cycle | `clubs` and everything that refers to it | create, update, delete | one club per organizer; deletion is complete | no constraint behind the check; tables left out of the cascade |
| attendance and events (`services/event_service.py`, `routers/events.py`) | `events`, `event_attendees` | attend, cancel, reschedule, cancel event, winner | one room per event; rooms go after the grace period and not before | read-then-write without locks, ORM objects that write only what they changed; the winner needs status *held*, which no endpoint sets |
| chat sessions (`routers/chat.py`, `services/chat_connections.py`) | process memory: lists of sockets, presence, ban cache | handshake, broadcast, receive, kick, close | presence exact; no posting without the right | interleaving at every await, dead sockets |
| chat rooms (`services/chat_service.py`) | `chat_rooms`, `chat_messages`, `message_reads`, `chat_room_bans` | create, post, page, mark read, unread, ban, delete | marks and pages survive deletions | check-then-insert, dangling cursors |
| background tasks (`tasks/cleanup.py`) | none of their own | countdown message, delete expired and inactive rooms, retention | one message per day; live rooms are kept | select-then-delete beside requests |
| pages and the web site (`services/club_service.py`, `services/revalidate.py`) | the site's cache, external | read a club, list, revalidate | nobody is shown what is not for them; no page stays old | statements of one read; webhooks late, lost or overtaken |
| book votes (`services/book_vote_service.py`) | rounds, options, votes | open, add, remove, vote, unvote, close | the winner has the most votes | closing beside voting |
| quizzes (`services/quiz_service.py`, `routers/quizzes.py`) | quizzes, questions, attempts, sessions | edit, reorder, submit, leaderboard | scoring matches what was shown | edits beside attempts |
| connection pool (`database.py`) | five connections | checkout, release, wait 10 s | requests are served | WebSockets hold connections |
| sign-in (`routers/auth.py`) | Redis codes with TTL, `users` | OAuth start, callback, exchange, ws-ticket, refresh, logout | a code works once; every exit clears its cookies | abandoned, repeated, failing flows |
| flood limiter (`services/chat_flood.py`) | memory: counts and stamps; Redis window; breaker | acquire, release, is_limited | at most 10 messages in 10 s | await between arming and disarming |
| rate limiter (`limiter.py`) | breaker | check | limits hold while Redis is down | clock read twice |
| CSP store, book search cache | hourly budget; bounded dictionary | store; search | bounds hold | requests in flight |
| likes, randomizer, users, upload, geocoding, routing, analytics, health | rows or nothing | CRUD and external calls | | little shared state |

Interactions: routers call services in the request's own database session; after a
commit, removals, bans, cancelled attendances and deletions call the
ConnectionManager (in process, best-effort); REST posts and the bot broadcast
through it; WebSocket handlers authenticate with a ticket from Redis and read
membership and bans from the database; the tasks delete rooms under the feet of
their sockets; edits of a club end with a webhook after the connection is released.

`PROJECT.json` lists every hazard at its line, with the properties that cover it.

## Plan

The order in which the modules came, by importance:

1. `ClubRoster`, `ClubMembership`, proofs.
2. `ChatGateway` over `ClubRoster`, proofs.
3. `EventRooms`: events, their rooms and the clean-up pass, proofs.
4. `OneTimeCodes` and `SignIn`, with the refinement and proofs.
5. `ClubPages`: creation, edits, pages and the web site, proofs.
6. `ChatReads`, `BookVote`, `Quiz`, proofs; `Ballot`, which `BookVote` refines.

Still worth doing, in this order:

7. What presence lists say: `ChatGateway` follows whom a broadcast has yet to reach,
   not which list it carries, so that the order of two broadcasts is left open.
8. `ChatFlood` and the limiter's breaker, if a model of real time is wanted: what
   they promise is a rate.
9. `ConnectionPool`: requests, sockets and tasks at five connections, with the
   driver's waiting modelled from its documentation.

## Not modelled

* Input validation, response building, logging, error classes, settings, health:
  no state, or a pure read of it.
* Authentication tokens are taken as valid while the provider honours the session;
  cryptography is the provider's.
* External services (identity provider, geocoding, routing, book search, storage,
  mail) keep no state here. The provider, Redis and the web site appear as far as the
  flows depend on them, and are marked external in the map.
* The connection pool: it belongs to the driver. What a request finds that waits
  for a connection in vain is the failing branch every module has.
* The chat flood limiter and the request rate limiter: sliding windows and a breaker,
  which promise rates, the first by its own comment up to twice the budget. A faithful
  model needs real time; without it only the shape of a counter would be left.
* CSP reports, analytics, likes, support submissions, the book search cache, profiles
  and avatars, upload: single-statement inserts, a toggle behind a unique
  constraint, a bounded dictionary without an await inside.
* Password reset and the resending of confirmations: one call to the provider each.
* The closing of registration three days before an event: a comparison with the
  clock in front of `attend_event`.
* Migrations, which run alone before the service starts; the constraints they create
  are in the models of the tables.

`PROJECT.json` lists every component with its status and these reasons.
