--------------------------- MODULE ClubMembership ---------------------------
(***************************************************************************)
(* The membership of one book club: who belongs to it and in which role,   *)
(* who is banned, who asked to join, and who attends its next event        *)
(* (app/services/club_service.py, with the repository and the routers that *)
(* call it, and the attend half of app/services/event_service.py).         *)
(*                                                                         *)
(* Clients call operations concurrently.  Each call is one HTTP request    *)
(* with one READ COMMITTED transaction; between two of its statements any  *)
(* other request may commit.  A request is a slot r \in Request with       *)
(*   call[r]   what was called, by whom, on whom                           *)
(*   stage[r]  the last thing it learned from the database                 *)
(* and everything else is the committed contents of the tables.            *)
(*                                                                         *)
(* Two families of operations:                                             *)
(*   - remove, ban, promote, demote, leave and delete take the club's row  *)
(*     lock (SELECT ... FOR UPDATE), read what they need under it, write,  *)
(*     and release it by committing: waiting -> granted -> idle;           *)
(*   - join, approve, reject, unban and attend take no lock: each reads,   *)
(*     and later writes on the strength of what it read.                   *)
(* The lock still reaches the second family in one place: inserting a row  *)
(* that references the club needs a key-share lock on the club's row,      *)
(* which the database withholds while somebody holds it FOR UPDATE.        *)
(*                                                                         *)
(* attending stands for one event of the club that is still three days     *)
(* away or more, so that attending it is open and removal erases it.       *)
(***************************************************************************)
CONSTANTS
  User,      \* the accounts
  Owner,     \* clubs.organizer_id: the account that created the club
  Request,   \* slots for requests in flight
  Op         \* the operations clients call

LockedOps == {"remove", "ban", "promote", "demote", "leave", "delete"}
UnlockedOps == {"join", "approve", "reject", "unban", "attend"}
SelfOps == {"leave", "delete", "join", "attend"}

ASSUME OwnerAssumption == Owner \in User
ASSUME OpAssumption == Op \subseteq LockedOps \cup UnlockedOps

VARIABLES
  club,       \* is the club's row there
  role,       \* club_members: the role of each account, "none" without a row
  ban,        \* club_bans: no row, a row in force, a row past expires_at
  joinReq,    \* club_join_requests: no row, or the row's status
  attending,  \* event_attendees of the coming event
  call,       \* request slot -> the call it serves
  stage       \* request slot -> how far that call has come

tables == <<club, role, ban, joinReq, attending>>
vars == <<club, role, ban, joinReq, attending, call, stage>>

Stage == {
  "idle",
  "waiting",         \* checked the caller, now asking for the club's row lock
  "granted",         \* holds the lock and passed every check; writes next
  "authorised",      \* approve, reject: the caller was an organizer
  "pending_seen",    \* approve, reject: the request was pending
  "update_only",     \* approve: the user is a member already
  "insert_member",   \* approve: the user is not a member yet
  "retry",           \* approve: the insert hit the unique constraint
  "not_banned",      \* join: no ban in force
  "not_member",      \* join: no membership row
  "flip_request",    \* join: found a rejected request
  "insert_request",  \* join: found no request
  "told_member",     \* join: answering "member" because of an approved request
  "may_attend",      \* attend: every check passed, inserts next
  "attended" }       \* attend: inserted, now asks for membership

Call == [op : LockedOps \cup UnlockedOps \cup {"none"}, by : User, on : User]
NoCall == [op |-> "none", by |-> Owner, on |-> Owner]

(* Only the type of the state.                                             *)
TypeOK ==
  /\ club \in {"present", "deleted"}
  /\ role \in [User -> {"none", "member", "organizer"}]
  /\ ban \in [User -> {"none", "active", "expired"}]
  /\ joinReq \in [User -> {"none", "pending", "approved", "rejected"}]
  /\ attending \in SUBSET User
  /\ call \in [Request -> Call]
  /\ stage \in [Request -> Stage]

Init ==
  /\ club = "present"
  /\ role = [u \in User |-> IF u = Owner THEN "organizer" ELSE "none"]
  /\ ban = [u \in User |-> "none"]
  /\ joinReq = [u \in User |-> "none"]
  /\ attending = {}
  /\ call = [r \in Request |-> NoCall]
  /\ stage = [r \in Request |-> "idle"]

-----------------------------------------------------------------------------
(* Reads.                                                                  *)

IsOrganizer(u) == role[u] = "organizer"

IsBanned(u) == ban[u] = "active"

(* _count_organizers(...) <= 1 fails to hold, for an organizer u.          *)
NotLastOrganizer(u) == \E v \in User \ {u} : IsOrganizer(v)

(* Mutant of RowUnlocked: the SELECT lost its FOR UPDATE.                  *)
RowNeverLocked == TRUE

(* Nobody is between lock_club_for_update and the end of its transaction.  *)
RowUnlocked == \A r \in Request : stage[r] # "granted"

(* Mutant of ClubReferable: the tables lost their foreign keys to clubs.   *)
NoForeignKey == RowUnlocked

(* An insert whose foreign key is the club's row can go through.           *)
ClubReferable == club = "present" /\ RowUnlocked

(* A request moves to its next statement.                                  *)
Advance(r, s) ==
  /\ stage' = [stage EXCEPT ![r] = s]
  /\ UNCHANGED call

(* A request is over: answered, or failed and rolled back.                 *)
Done(r) ==
  /\ stage' = [stage EXCEPT ![r] = "idle"]
  /\ call' = [call EXCEPT ![r] = NoCall]

-----------------------------------------------------------------------------
(* A client calls an operation and passes its first check.  A call that    *)
(* fails that check changes nothing and is not a step.                     *)

FirstCheck(op, by) ==
  \/ /\ op \in {"remove", "ban", "promote", "demote", "delete",
                "approve", "reject", "unban"}
     /\ IsOrganizer(by)
  \/ op = "leave"
  \/ op = "join" /\ club = "present" /\ ~IsBanned(by)
  \/ op = "attend" /\ club = "present" /\ ~IsBanned(by) /\ by \notin attending

FirstStage(op) ==
  CASE op \in LockedOps -> "waiting"
    [] op \in {"approve", "reject", "unban"} -> "authorised"
    [] op = "join" -> "not_banned"
    [] op = "attend" -> "may_attend"

Begin(r, op, by, on) ==
  /\ stage[r] = "idle"
  /\ op \in SelfOps => on = by
  /\ FirstCheck(op, by)
  /\ call' = [call EXCEPT ![r] = [op |-> op, by |-> by, on |-> on]]
  /\ stage' = [stage EXCEPT ![r] = FirstStage(op)]
  /\ UNCHANGED tables

-----------------------------------------------------------------------------
(* The checks a locked operation makes once it holds the club's row.       *)

MayRemove(a, u) ==
  /\ IsOrganizer(a)
  /\ role[u] # "none"
  /\ u # Owner
  /\ IsOrganizer(u) => a \in {u, Owner} /\ NotLastOrganizer(u)

MayBan(a, u) ==
  /\ IsOrganizer(a)
  /\ u \notin {Owner, a}
  /\ IsOrganizer(u) => a = Owner /\ NotLastOrganizer(u)

(* Mutant of MayPromote: the actor is not re-read under the lock.          *)
MayPromoteUnchecked(a, u) == a \in User /\ role[u] = "member"

(* Mutant of MayPromote: the member is not re-read under the lock.         *)
MayPromoteStranger(a, u) == IsOrganizer(a) /\ ~IsOrganizer(u)

MayPromote(a, u) == IsOrganizer(a) /\ role[u] = "member"

MayDemote(a, u) ==
  /\ IsOrganizer(a)
  /\ IsOrganizer(u)
  /\ u # Owner
  /\ a \in {u, Owner}
  /\ NotLastOrganizer(u)

MayLeave(u) ==
  /\ u # Owner
  /\ role[u] # "none"
  /\ IsOrganizer(u) => NotLastOrganizer(u)

Permitted(c) ==
  \/ c.op = "remove" /\ MayRemove(c.by, c.on)
  \/ c.op = "ban" /\ MayBan(c.by, c.on)
  \/ c.op = "promote" /\ MayPromote(c.by, c.on)
  \/ c.op = "demote" /\ MayDemote(c.by, c.on)
  \/ c.op = "leave" /\ MayLeave(c.by)
  \/ c.op = "delete" /\ c.by = Owner

(* lock_club_for_update returns and the checks under it pass.              *)
Acquire(r) ==
  /\ stage[r] = "waiting"
  /\ ClubReferable
  /\ Permitted(call[r])
  /\ Advance(r, "granted")
  /\ UNCHANGED tables

(* Mutant of Refuse: the error is answered but the transaction stays open. *)
RefuseKeepsLock(r) ==
  /\ stage[r] = "waiting"
  /\ RowUnlocked
  /\ club = "deleted" \/ ~Permitted(call[r])
  /\ stage' = [stage EXCEPT ![r] = "granted"]
  /\ call' = [call EXCEPT ![r] = NoCall]
  /\ UNCHANGED tables

(* ... or one fails: the error rolls back and lets go of the lock at once. *)
Refuse(r) ==
  /\ stage[r] = "waiting"
  /\ RowUnlocked
  /\ club = "deleted" \/ ~Permitted(call[r])
  /\ Done(r)
  /\ UNCHANGED tables

(* Mutant of RemoveMember: the account loses its entry altogether.         *)
RemoveMemberEntry(u) ==
  /\ role' = [v \in DOMAIN role \ {u} |-> role[v]]
  /\ attending' = attending \ {u}

(* ClubRepository.remove_member: the row goes, and the seat at the event.  *)
RemoveMember(u) ==
  /\ role' = [role EXCEPT ![u] = "none"]
  /\ attending' = attending \ {u}

CommitRemoval(r) ==
  /\ stage[r] = "granted"
  /\ call[r].op \in {"remove", "leave"}
  /\ RemoveMember(call[r].on)
  /\ Done(r)
  /\ UNCHANGED <<club, ban, joinReq>>

CommitBan(r) ==
  LET u == call[r].on
  IN /\ stage[r] = "granted"
     /\ call[r].op = "ban"
     /\ ban[u] = "none"
     /\ ban' = [ban EXCEPT ![u] = "active"]
     /\ RemoveMember(u)
     /\ Done(r)
     /\ UNCHANGED <<club, joinReq>>

(* club_bans is unique per club and user, whether or not the row it has    *)
(* is still in force: the insert fails and takes the removal with it.      *)
FailBan(r) ==
  /\ stage[r] = "granted"
  /\ call[r].op = "ban"
  /\ ban[call[r].on] # "none"
  /\ Done(r)
  /\ UNCHANGED tables

CommitRole(r) ==
  /\ stage[r] = "granted"
  /\ \/ call[r].op = "promote" /\ role' = [role EXCEPT ![call[r].on] = "organizer"]
     \/ call[r].op = "demote" /\ role' = [role EXCEPT ![call[r].on] = "member"]
  /\ Done(r)
  /\ UNCHANGED <<club, ban, joinReq, attending>>

(* ClubRepository.cascade_delete.                                          *)
CommitDelete(r) ==
  /\ stage[r] = "granted"
  /\ call[r].op = "delete"
  /\ club' = "deleted"
  /\ role' = [u \in User |-> "none"]
  /\ ban' = [u \in User |-> "none"]
  /\ joinReq' = [u \in User |-> "none"]
  /\ attending' = {}
  /\ Done(r)
-----------------------------------------------------------------------------
(* request_join_club_service: the ban was checked first, then membership,  *)
(* then the request's row, each in a statement of its own.                 *)

JoinAsMember(r) ==
  /\ stage[r] = "not_banned"
  /\ role[call[r].by] # "none"
  /\ Done(r)
  /\ UNCHANGED tables

JoinNotMember(r) ==
  /\ stage[r] = "not_banned"
  /\ role[call[r].by] = "none"
  /\ Advance(r, "not_member")
  /\ UNCHANGED tables

JoinReadRequest(r) ==
  /\ stage[r] = "not_member"
  /\ \/ joinReq[call[r].by] = "pending" /\ Done(r)
     \/ joinReq[call[r].by] = "approved" /\ Advance(r, "told_member")
     \/ joinReq[call[r].by] = "rejected" /\ Advance(r, "flip_request")
     \/ joinReq[call[r].by] = "none" /\ Advance(r, "insert_request")
  /\ UNCHANGED tables

JoinToldMember(r) ==
  /\ stage[r] = "told_member"
  /\ Done(r)
  /\ UNCHANGED tables

(* The row that was read as rejected is set to pending whatever it holds   *)
(* by now; if it is gone the update fails.                                 *)
JoinFlip(r) ==
  LET u == call[r].by
  IN /\ stage[r] = "flip_request"
     /\ joinReq' = [joinReq EXCEPT ![u] = IF @ = "none" THEN @ ELSE "pending"]
     /\ Done(r)
     /\ UNCHANGED <<club, role, ban, attending>>

JoinInsert(r) ==
  /\ stage[r] = "insert_request"
  /\ ClubReferable
  /\ joinReq[call[r].by] = "none"
  /\ joinReq' = [joinReq EXCEPT ![call[r].by] = "pending"]
  /\ Done(r)
  /\ UNCHANGED <<club, role, ban, attending>>

(* IntegrityError: a row is there already, or the club is gone.            *)
JoinInsertFails(r) ==
  /\ stage[r] = "insert_request"
  /\ RowUnlocked
  /\ club = "deleted" \/ joinReq[call[r].by] # "none"
  /\ Done(r)
  /\ UNCHANGED tables

-----------------------------------------------------------------------------
(* approve_join_request_service and reject_join_request_service.           *)

ReadPending(r) ==
  /\ stage[r] = "authorised"
  /\ call[r].op \in {"approve", "reject"}
  /\ IF joinReq[call[r].on] = "pending" THEN Advance(r, "pending_seen") ELSE Done(r)
  /\ UNCHANGED tables

(* Mutant of CommitReject: the rejected request's row is deleted.          *)
RejectDeletesRow(r) ==
  /\ stage[r] = "pending_seen"
  /\ call[r].op = "reject"
  /\ joinReq' = [joinReq EXCEPT ![call[r].on] = "none"]
  /\ Done(r)
  /\ UNCHANGED <<club, role, ban, attending>>

CommitReject(r) ==
  LET u == call[r].on
  IN /\ stage[r] = "pending_seen"
     /\ call[r].op = "reject"
     /\ joinReq' = [joinReq EXCEPT ![u] = IF @ = "none" THEN @ ELSE "rejected"]
     /\ Done(r)
     /\ UNCHANGED <<club, role, ban, attending>>

ApproveReadMember(r) ==
  /\ stage[r] = "pending_seen"
  /\ call[r].op = "approve"
  /\ Advance(r, IF role[call[r].on] = "none" THEN "insert_member" ELSE "update_only")
  /\ UNCHANGED tables

(* The request's row exists unless the club was deleted; then nothing is   *)
(* updated, which is an error (update_only) or ends the retry (retry).     *)
MarkApproved(u) ==
  joinReq' = [joinReq EXCEPT ![u] = IF @ = "none" THEN @ ELSE "approved"]

ApproveUpdate(r) ==
  /\ stage[r] \in {"update_only", "retry"}
  /\ MarkApproved(call[r].on)
  /\ Done(r)
  /\ UNCHANGED <<club, role, ban, attending>>

ApproveInsert(r) ==
  LET u == call[r].on
  IN /\ stage[r] = "insert_member"
     /\ ClubReferable
     /\ role[u] = "none"
     /\ role' = [role EXCEPT ![u] = "member"]
     /\ MarkApproved(u)
     /\ Done(r)
     /\ UNCHANGED <<club, ban, attending>>

(* IntegrityError: somebody else inserted the member, or the club is gone. *)
ApproveInsertFails(r) ==
  /\ stage[r] = "insert_member"
  /\ RowUnlocked
  /\ club = "deleted" \/ role[call[r].on] # "none"
  /\ Advance(r, "retry")
  /\ UNCHANGED tables

(* unban_user_service: reads the rows and deletes those very rows, so the  *)
(* two statements act as one, and a row deleted meanwhile is no step.      *)
Unban(r) ==
  /\ stage[r] = "authorised"
  /\ call[r].op = "unban"
  /\ ban' = [ban EXCEPT ![call[r].on] = "none"]
  /\ Done(r)
  /\ UNCHANGED <<club, role, joinReq, attending>>

-----------------------------------------------------------------------------
(* attend_event_service, and cancel_attendance_service.                    *)

CommitAttend(r) ==
  LET u == call[r].by
  IN /\ stage[r] = "may_attend"
     /\ IF club = "present" /\ u \notin attending
          THEN Advance(r, "attended") /\ attending' = attending \cup {u}
          ELSE Done(r) /\ UNCHANGED attending
     /\ UNCHANGED <<club, role, ban, joinReq>>

(* _resolve_join_request_status: asks to join on the attendee's behalf.    *)
AttendThenJoin(r) ==
  LET u == call[r].by
  IN /\ stage[r] = "attended"
     /\ IF role[u] = "none" /\ club = "present" /\ ~IsBanned(u)
          THEN Advance(r, "not_banned")
          ELSE Done(r)
     /\ UNCHANGED tables

CancelAttendance(u) ==
  /\ u \in attending
  /\ attending' = attending \ {u}
  /\ UNCHANGED <<club, role, ban, joinReq, call, stage>>

-----------------------------------------------------------------------------
(* The environment.                                                        *)

(* A ban with a duration passes its expires_at.                            *)
BanExpires(u) ==
  /\ ban[u] = "active"
  /\ ban' = [ban EXCEPT ![u] = "expired"]
  /\ UNCHANGED <<club, role, joinReq, attending, call, stage>>

(* A statement or lock timeout, a dropped connection, a crash of the       *)
(* server: the transaction is rolled back and its lock released.           *)
Abort(r) ==
  /\ stage[r] # "idle"
  /\ Done(r)
  /\ UNCHANGED tables

Locked(r) ==
  \/ CommitRemoval(r) \/ CommitBan(r) \/ FailBan(r)
  \/ CommitRole(r) \/ CommitDelete(r)

Join(r) ==
  \/ JoinAsMember(r) \/ JoinNotMember(r) \/ JoinReadRequest(r) \/ JoinToldMember(r)
  \/ JoinFlip(r) \/ JoinInsert(r) \/ JoinInsertFails(r)

Decide(r) ==
  \/ ReadPending(r) \/ CommitReject(r) \/ ApproveReadMember(r)
  \/ ApproveUpdate(r) \/ ApproveInsert(r) \/ ApproveInsertFails(r) \/ Unban(r)

Attend(r) == CommitAttend(r) \/ AttendThenJoin(r)

(* The next statement of a request that is being served.                   *)
Serve(r) == Acquire(r) \/ Refuse(r) \/ Locked(r) \/ Join(r) \/ Decide(r) \/ Attend(r)

Next ==
  \/ \E r \in Request :
       \/ \E op \in Op, by, on \in User : Begin(r, op, by, on)
       \/ Serve(r)
       \/ Abort(r)
  \/ \E u \in User : CancelAttendance(u) \/ BanExpires(u)

Spec == Init /\ [][Next]_vars

(* The event loop keeps running every handler; the database hands the row  *)
(* lock to its waiters in turn, so that no waiter is passed over forever.  *)
FairSpec == Spec /\ \A r \in Request : SF_vars(Serve(r))

-----------------------------------------------------------------------------
(* Properties.                                                             *)

(* As long as the club exists its owner has an organizer row: no sequence  *)
(* of removals, bans, demotions and departures, in any interleaving, takes *)
(* it away.  (The guards CANNOT_REMOVE_OWNER, CANNOT_DEMOTE_OWNER and      *)
(* OWNER_CANNOT_LEAVE of club_service.py.)                                 *)
OwnerStaysOrganizer == club = "present" => IsOrganizer(Owner)

(* What a locked operation verified is still true when it writes, although *)
(* its caller, its target and the organizer count were read in earlier     *)
(* statements: the purpose of lock_club_for_update and of re-reading the   *)
(* actor after the wait (_lock_club_and_recheck_actor).                    *)
GrantsStayValid == \A r \in Request : stage[r] = "granted" => Permitted(call[r])

(* Deleting the club leaves no row of it behind, even with requests in     *)
(* flight that go on to insert (delete_club_cascade).                      *)
DeletedClubIsEmpty ==
  club = "deleted" =>
    /\ \A u \in User : role[u] = "none" /\ ban[u] = "none" /\ joinReq[u] = "none"
    /\ attending = {}

(* Everybody in the club but its owner has a join request on record, so    *)
(* nobody is admitted who did not ask: repeated, crossing approvals and    *)
(* rejections included (approve_join_request_service).                     *)
MembersAsked ==
  \A u \in User \ {Owner} : role[u] # "none" => joinReq[u] # "none"

(* A ban "removes" the membership, and a banned account is told 403 when   *)
(* it asks to join (ban_user_service, request_join_club_service): so no    *)
(* account is at once banned and a member.  Approving ignores bans.        *)
BannedIsNotMember == \A u \in User : IsBanned(u) => role[u] = "none"

(* The roster that the tables hold changes as ClubRoster says.             *)
Roster == INSTANCE ClubRoster
RosterSpec == Roster!Spec

(* A change of the roster in which the caller of c is the actor.           *)
MadeBy(c) ==
  \/ Roster!Admit(c.on)
  \/ Roster!Promote(c.by, c.on)
  \/ Roster!Demote(c.by, c.on)
  \/ Roster!Dismiss(c.by, c.on)
  \/ c.by = c.on /\ Roster!Leave(c.on)
  \/ c.by = Owner /\ Roster!Disband

(* ClubRoster hides whose change it is; this names the actor.  The roster  *)
(* changes only when a request ends, for the account it was called for,    *)
(* and its very caller is entitled to the change at that moment, after all *)
(* the waiting (_lock_club_and_recheck_actor,                              *)
(* _require_owner_to_act_on_organizer).                                    *)
ChangesAreEntitled ==
  [][<<club, role>>' # <<club, role>> =>
       \E r \in Request : stage[r] # "idle" /\ stage'[r] = "idle" /\ MadeBy(call[r])]_vars

(* Every request is answered: none waits for the row lock forever, and no  *)
(* holder keeps it (lock_club_for_update and the commits that end it).     *)
RequestsEnd == \A r \in Request : stage[r] # "idle" ~> stage[r] = "idle"

=============================================================================
