------------------------ MODULE ClubMembershipProofs ------------------------
(***************************************************************************)
(* Proofs about ClubMembership, for any accounts, any number of requests   *)
(* in flight and any set of operations.                                    *)
(*                                                                         *)
(* The argument.  Roles change in two ways: at the commit of a locked      *)
(* operation and at the insert of an approval, and the insert needs the    *)
(* club's row unlocked.  So while one request is between its checks and    *)
(* its commit (granted) nothing it checked can change: at most one request *)
(* is granted (OneHolder), and its permission stands (GrantsStayValid).    *)
(* From that every commit is permitted in the state it happens in, which   *)
(* gives the owner's rank and the implementation of ClubRoster.            *)
(***************************************************************************)
EXTENDS ClubMembership, TLAPS

OneHolder ==
  \A r, s \in Request : stage[r] = "granted" /\ stage[s] = "granted" => r = s

HolderHasClub ==
  \A r \in Request :
    stage[r] = "granted" => club = "present" /\ call[r].op \in LockedOps

LeaveIsOwnCall ==
  \A r \in Request : call[r].op = "leave" => call[r].on = call[r].by

(* An approval or rejection under way read a row that only the deletion of *)
(* the club removes.                                                       *)
DecisionHasRow ==
  \A r \in Request :
    /\ stage[r] \in {"pending_seen", "update_only", "insert_member", "retry"}
    /\ club = "present"
    => joinReq[call[r].on] # "none"

IInv ==
  /\ TypeOK
  /\ OneHolder
  /\ HolderHasClub
  /\ LeaveIsOwnCall
  /\ DecisionHasRow
  /\ OwnerStaysOrganizer
  /\ GrantsStayValid
  /\ DeletedClubIsEmpty
  /\ MembersAsked
-----------------------------------------------------------------------------
(* The tables, the calls and the stages always hold values of their types. *)
LEMMA TypeInit == Init => TypeOK
BY OwnerAssumption DEF Init, TypeOK, NoCall, Call, Stage

LEMMA TypeStep == TypeOK /\ [Next]_vars => TypeOK'
<1> SUFFICES ASSUME TypeOK, [Next]_vars PROVE TypeOK'
  OBVIOUS
<1> USE OwnerAssumption, OpAssumption
<1> USE DEF TypeOK, tables, Advance, Done
<1>1. NoCall \in Call
  BY DEF NoCall, Call
<1>2. ASSUME NEW r \in Request, NEW op \in Op, NEW by \in User, NEW on \in User,
             Begin(r, op, by, on)
      PROVE  TypeOK'
  <2>1. [op |-> op, by |-> by, on |-> on] \in Call
    BY DEF Call
  <2>2. FirstStage(op) \in Stage
    BY DEF FirstStage, Stage, LockedOps, UnlockedOps
  <2>3. QED
    BY <1>2, <2>1, <2>2 DEF Begin
<1>3. ASSUME NEW r \in Request, Acquire(r) \/ Refuse(r) PROVE TypeOK'
  BY <1>1, <1>3 DEF Acquire, Refuse, Stage
<1>4. ASSUME NEW r \in Request, Locked(r) PROVE TypeOK'
  <2>1. call[r].on \in User
    BY DEF Call
  <2>2. CASE CommitRemoval(r) \/ CommitBan(r) \/ FailBan(r)
    BY <1>1, <2>1, <2>2 DEF CommitRemoval, CommitBan, FailBan, RemoveMember, Stage
  <2>3. CASE CommitRole(r) \/ CommitDelete(r)
    BY <1>1, <2>1, <2>3 DEF CommitRole, CommitDelete, Stage
  <2>4. QED
    BY <1>4, <2>2, <2>3 DEF Locked
<1>5. ASSUME NEW r \in Request, Join(r) PROVE TypeOK'
  BY <1>1, <1>5 DEF Join, JoinAsMember, JoinNotMember, JoinReadRequest, JoinToldMember,
                    JoinFlip, JoinInsert, JoinInsertFails, Stage
<1>6. ASSUME NEW r \in Request, Decide(r) PROVE TypeOK'
  BY <1>1, <1>6 DEF Decide, ReadPending, CommitReject, ApproveReadMember, ApproveUpdate,
                    ApproveInsert, ApproveInsertFails, Unban, MarkApproved, Stage
<1>7. ASSUME NEW r \in Request, Attend(r) PROVE TypeOK'
  <2>1. call[r].by \in User
    BY DEF Call
  <2>2. QED
    BY <1>1, <1>7, <2>1 DEF Attend, CommitAttend, AttendThenJoin, Stage
<1>8. ASSUME NEW r \in Request, Abort(r) PROVE TypeOK'
  BY <1>1, <1>8 DEF Abort, Stage
<1>9. ASSUME NEW u \in User, CancelAttendance(u) \/ BanExpires(u) PROVE TypeOK'
  BY <1>9 DEF CancelAttendance, BanExpires
<1>10. CASE UNCHANGED vars
  BY <1>10 DEF vars
<1>11. QED
  BY <1>2, <1>3, <1>4, <1>5, <1>6, <1>7, <1>8, <1>9, <1>10 DEF Next, Serve

THEOREM TypeCorrect == Spec => []TypeOK
<1>1. QED
  BY TypeInit, TypeStep, PTL DEF Spec

-----------------------------------------------------------------------------
LEMMA IInvInit == Init => IInv
<1> SUFFICES ASSUME Init PROVE IInv
  OBVIOUS
<1>1. TypeOK
  BY TypeInit
<1>2. QED
  BY <1>1, OwnerAssumption
  DEF Init, IInv, OneHolder, HolderHasClub, LeaveIsOwnCall, DecisionHasRow, NoCall,
      OwnerStaysOrganizer, GrantsStayValid, DeletedClubIsEmpty, MembersAsked, IsOrganizer

(* A step that leaves roles and club alone and grants nothing new keeps    *)
(* every grant valid.                                                      *)
LEMMA GrantsFrame ==
  ASSUME TypeOK, NEW r \in Request, OneHolder, HolderHasClub, GrantsStayValid,
         UNCHANGED <<club, role>>,
         NEW s \in Stage \ {"granted"},
         stage' = [stage EXCEPT ![r] = s],
         \A q \in Request \ {r} : call'[q] = call[q]
  PROVE  OneHolder' /\ HolderHasClub' /\ GrantsStayValid'
<1>1. \A q \in Request : stage'[q] = "granted" => q # r /\ stage[q] = "granted" /\ call'[q] = call[q]
  BY DEF TypeOK
<1>2. OneHolder' /\ HolderHasClub'
  BY <1>1 DEF OneHolder, HolderHasClub
<1>3. GrantsStayValid'
  BY <1>1 DEF GrantsStayValid, Permitted, MayRemove, MayBan, MayPromote, MayDemote, MayLeave,
              IsOrganizer, NotLastOrganizer
<1>4. QED
  BY <1>2, <1>3

(* After a step of the only holder, or one taken with the row unlocked,    *)
(* nobody is granted.                                                      *)
LEMMA NobodyGranted ==
  ASSUME \A q \in Request : stage'[q] # "granted"
  PROVE  OneHolder' /\ HolderHasClub' /\ GrantsStayValid'
BY DEF OneHolder, HolderHasClub, GrantsStayValid

LEMMA BeginStep ==
  ASSUME IInv, NEW r \in Request, NEW op \in Op, NEW by \in User, NEW on \in User,
         Begin(r, op, by, on), TypeOK'
  PROVE  IInv'
<1> USE DEF IInv, Begin, tables
<1>1. FirstStage(op) \in Stage \ {"granted", "pending_seen", "update_only", "insert_member", "retry"}
  BY OpAssumption DEF FirstStage, Stage, LockedOps, UnlockedOps
<1>2. OneHolder' /\ HolderHasClub' /\ GrantsStayValid'
  BY <1>1, GrantsFrame DEF TypeOK
<1>3. LeaveIsOwnCall'
  BY DEF LeaveIsOwnCall, SelfOps, TypeOK
<1>4. DecisionHasRow'
  BY <1>1 DEF DecisionHasRow, TypeOK
<1>5. OwnerStaysOrganizer' /\ DeletedClubIsEmpty' /\ MembersAsked'
  BY DEF OwnerStaysOrganizer, DeletedClubIsEmpty, MembersAsked, IsOrganizer
<1>6. QED
  BY <1>2, <1>3, <1>4, <1>5

(* A request that ends, or moves to a stage that decides nothing, without  *)
(* touching roles, the club, or any row of joinReq and ban in the way the  *)
(* invariant minds.                                                        *)
LEMMA QuietStep ==
  ASSUME IInv, TypeOK', NEW r \in Request,
         UNCHANGED <<club, role>>,
         \A u \in User : joinReq[u] # "none" => joinReq'[u] # "none",
         club = "deleted" => UNCHANGED <<ban, joinReq, attending>>,
         NEW s \in Stage \ {"granted"},
         stage' = [stage EXCEPT ![r] = s],
         s \in {"pending_seen", "update_only", "insert_member", "retry"} /\ club = "present"
           => joinReq'[call[r].on] # "none",
         \/ UNCHANGED call
         \/ s = "idle" /\ call' = [call EXCEPT ![r] = NoCall]
  PROVE  IInv'
<1> USE DEF IInv
<1>1. \A q \in Request \ {r} : call'[q] = call[q] /\ stage'[q] = stage[q]
  BY DEF TypeOK
<1>2. OneHolder' /\ HolderHasClub' /\ GrantsStayValid'
  BY <1>1, GrantsFrame
<1>3. LeaveIsOwnCall'
  BY DEF LeaveIsOwnCall, NoCall, TypeOK
<1>4. DecisionHasRow'
  <2>1. SUFFICES ASSUME NEW q \in Request, club = "present",
                        stage'[q] \in {"pending_seen", "update_only", "insert_member", "retry"}
                 PROVE  joinReq'[call'[q].on] # "none"
    BY DEF DecisionHasRow
  <2>2. call[q].on \in User
    BY DEF TypeOK, Call
  <2>3. CASE q = r
    <3>1. s = stage'[q]
      BY <2>3 DEF TypeOK
    <3>2. QED
      BY <2>1, <2>3, <3>1
  <2>4. CASE q # r
    BY <1>1, <2>1, <2>2, <2>4 DEF DecisionHasRow
  <2>5. QED
    BY <2>3, <2>4
<1>5. OwnerStaysOrganizer' /\ DeletedClubIsEmpty' /\ MembersAsked'
  BY DEF OwnerStaysOrganizer, DeletedClubIsEmpty, MembersAsked, IsOrganizer
<1>6. QED
  BY <1>2, <1>3, <1>4, <1>5

(* Getting the lock: the row was free, so the new holder is the only one.  *)
LEMMA AcquireStep ==
  ASSUME IInv, TypeOK', NEW r \in Request, Acquire(r)
  PROVE  IInv'
<1> USE DEF IInv, Acquire, Advance, tables
<1>1. stage' = [stage EXCEPT ![r] = "granted"] /\ \A q \in Request : stage[q] # "granted"
  BY DEF ClubReferable, RowUnlocked
<1>2. OneHolder'
  BY <1>1 DEF OneHolder, TypeOK
<1>3. call[r].op \in LockedOps
  BY DEF Permitted, LockedOps
<1>4. HolderHasClub'
  BY <1>1, <1>3 DEF HolderHasClub, ClubReferable, TypeOK
<1>5. Permitted(call[r])'
  BY DEF Permitted, MayRemove, MayBan, MayPromote, MayDemote, MayLeave, IsOrganizer, NotLastOrganizer
<1>6. GrantsStayValid'
  BY <1>1, <1>5 DEF GrantsStayValid, TypeOK
<1>7. LeaveIsOwnCall' /\ DecisionHasRow'
  BY DEF LeaveIsOwnCall, DecisionHasRow, TypeOK
<1>8. OwnerStaysOrganizer' /\ DeletedClubIsEmpty' /\ MembersAsked'
  BY DEF OwnerStaysOrganizer, DeletedClubIsEmpty, MembersAsked, IsOrganizer
<1>9. QED
  BY <1>2, <1>4, <1>6, <1>7, <1>8

(* The end of a request when nobody else holds the lock.                   *)
LEMMA DoneFrame ==
  ASSUME IInv, TypeOK', NEW r \in Request, Done(r),
         \A q \in Request \ {r} : stage[q] # "granted",
         club' = "deleted" \/ \A u \in User : joinReq[u] # "none" => joinReq'[u] # "none",
         club' = "present" => club = "present"
  PROVE  OneHolder' /\ HolderHasClub' /\ GrantsStayValid' /\ LeaveIsOwnCall' /\ DecisionHasRow'
<1> USE DEF IInv, Done
<1>1. \A q \in Request : stage'[q] # "granted"
  BY DEF TypeOK
<1>2. LeaveIsOwnCall'
  BY DEF LeaveIsOwnCall, NoCall, TypeOK
<1>3. DecisionHasRow'
  <2>1. SUFFICES ASSUME NEW q \in Request, club' = "present",
                        stage'[q] \in {"pending_seen", "update_only", "insert_member", "retry"}
                 PROVE  joinReq'[call'[q].on] # "none"
    BY DEF DecisionHasRow
  <2>2. q # r
    BY <2>1 DEF TypeOK
  <2>3. call[q].on \in User
    BY DEF TypeOK, Call
  <2>4. QED
    BY <2>1, <2>2, <2>3 DEF DecisionHasRow, TypeOK
<1>4. QED
  BY <1>1, <1>2, <1>3, NobodyGranted

(* The commits that end a locked operation.                                *)
LEMMA CommitStep ==
  ASSUME IInv, TypeOK', NEW r \in Request, Locked(r)
  PROVE  IInv'
<1> USE DEF IInv
<1>1. stage[r] = "granted" /\ Done(r)
  BY DEF Locked, CommitRemoval, CommitBan, FailBan, CommitRole, CommitDelete
<1>2. \A q \in Request \ {r} : stage[q] # "granted"
  BY <1>1 DEF OneHolder
<1>3. club = "present" /\ Permitted(call[r]) /\ call[r].on \in User
  BY <1>1 DEF HolderHasClub, GrantsStayValid, TypeOK, Call
<1>4. CASE CommitRemoval(r) \/ CommitBan(r)
  <2>1. call[r].on # Owner
    BY <1>3, <1>4, <1>1 DEF CommitRemoval, CommitBan, Permitted, MayRemove, MayBan, MayLeave, LeaveIsOwnCall
  <2>2. OwnerStaysOrganizer' /\ MembersAsked' /\ club' = "present" /\ UNCHANGED joinReq
    BY <1>3, <1>4, <2>1, OwnerAssumption
    DEF CommitRemoval, CommitBan, RemoveMember, OwnerStaysOrganizer, MembersAsked, IsOrganizer, TypeOK
  <2>3. QED
    BY <1>1, <1>2, <1>3, <2>2, DoneFrame DEF DeletedClubIsEmpty
<1>5. CASE FailBan(r)
  <2>1. UNCHANGED tables
    BY <1>5 DEF FailBan
  <2>2. OwnerStaysOrganizer' /\ MembersAsked' /\ DeletedClubIsEmpty'
    BY <2>1 DEF OwnerStaysOrganizer, MembersAsked, DeletedClubIsEmpty, IsOrganizer, tables
  <2>3. QED
    BY <1>1, <1>2, <2>1, <2>2, DoneFrame DEF tables
<1>6. CASE CommitRole(r)
  <2>1. call[r].op = "demote" => call[r].on # Owner
    BY <1>3 DEF Permitted, MayDemote
  <2>2. role[call[r].on] # "none" /\ club' = "present" /\ UNCHANGED joinReq
    BY <1>3, <1>6 DEF CommitRole, Permitted, MayPromote, MayDemote, IsOrganizer
  <2>3. OwnerStaysOrganizer' /\ MembersAsked'
    BY <1>3, <1>6, <2>1, <2>2, OwnerAssumption
    DEF CommitRole, OwnerStaysOrganizer, MembersAsked, IsOrganizer, TypeOK
  <2>4. QED
    BY <1>1, <1>2, <1>3, <2>2, <2>3, DoneFrame DEF DeletedClubIsEmpty
<1>7. CASE CommitDelete(r)
  <2>1. club' = "deleted" /\ OwnerStaysOrganizer' /\ MembersAsked' /\ DeletedClubIsEmpty'
    BY <1>7 DEF CommitDelete, OwnerStaysOrganizer, MembersAsked, DeletedClubIsEmpty
  <2>2. QED
    BY <1>1, <1>2, <2>1, DoneFrame
<1>8. QED
  BY <1>4, <1>5, <1>6, <1>7 DEF Locked

(* The one unlocked step that changes a role needs the row unlocked.       *)
LEMMA ApproveInsertStep ==
  ASSUME IInv, TypeOK', NEW r \in Request, ApproveInsert(r)
  PROVE  IInv'
<1> USE DEF IInv, ApproveInsert
<1>1. club = "present" /\ \A q \in Request : stage[q] # "granted"
  BY DEF ClubReferable, RowUnlocked
<1>2. call[r].on \in User /\ joinReq[call[r].on] # "none"
  BY <1>1 DEF DecisionHasRow, TypeOK, Call
<1>3. \A u \in User : joinReq[u] # "none" => joinReq'[u] # "none"
  BY <1>2 DEF MarkApproved, TypeOK
<1>4. OwnerStaysOrganizer' /\ MembersAsked'
  BY <1>1, <1>2, <1>3, OwnerAssumption DEF OwnerStaysOrganizer, MembersAsked, IsOrganizer, TypeOK
<1>5. QED
  BY <1>1, <1>3, <1>4, DoneFrame DEF DeletedClubIsEmpty

(* Everything else leaves roles and the club alone.                        *)
LEMMA RefuseAbortStep ==
  ASSUME IInv, TypeOK', NEW r \in Request, Refuse(r) \/ Abort(r)
  PROVE  IInv'
<1>1. UNCHANGED tables /\ Done(r) /\ "idle" \in Stage
  BY DEF Refuse, Abort, Stage
<1>2. QED
  BY <1>1, QuietStep DEF Done, tables

LEMMA JoinStep ==
  ASSUME IInv, TypeOK', NEW r \in Request, Join(r)
  PROVE  IInv'
<1> USE DEF IInv
<1>0. call[r].by \in User
  BY DEF TypeOK, Call
<1>1. UNCHANGED <<club, role, ban, attending>>
  BY DEF Join, JoinAsMember, JoinNotMember, JoinReadRequest, JoinToldMember, JoinFlip,
         JoinInsert, JoinInsertFails, tables
<1>2. PICK s \in {"idle", "not_member", "told_member", "flip_request", "insert_request"} :
        /\ stage' = [stage EXCEPT ![r] = s]
        /\ UNCHANGED call \/ (s = "idle" /\ call' = [call EXCEPT ![r] = NoCall])
  BY DEF Join, JoinAsMember, JoinNotMember, JoinReadRequest, JoinToldMember, JoinFlip,
         JoinInsert, JoinInsertFails, Done, Advance
<1>3. \A u \in User : joinReq[u] # "none" => joinReq'[u] # "none"
  BY DEF Join, JoinAsMember, JoinNotMember, JoinReadRequest, JoinToldMember, JoinFlip,
         JoinInsert, JoinInsertFails, tables, TypeOK
<1>4. ASSUME club = "deleted" PROVE UNCHANGED joinReq
  <2>1. CASE JoinFlip(r)
    BY <1>0, <1>4, <2>1 DEF JoinFlip, DeletedClubIsEmpty, TypeOK
  <2>2. CASE ~JoinFlip(r)
    BY <1>4, <2>2 DEF Join, JoinAsMember, JoinNotMember, JoinReadRequest, JoinToldMember,
                      JoinInsert, JoinInsertFails, ClubReferable, tables
  <2>3. QED
    BY <2>1, <2>2
<1>5. s \in Stage \ {"granted"}
  BY <1>2 DEF Stage
<1>6. QED
  BY <1>1, <1>2, <1>3, <1>4, <1>5, QuietStep

LEMMA DecideStep ==
  ASSUME IInv, TypeOK', NEW r \in Request, Decide(r)
  PROVE  IInv'
<1> USE DEF IInv
<1>0. call[r].on \in User
  BY DEF TypeOK, Call
<1>1. CASE ReadPending(r)
  <2>1. UNCHANGED tables
    BY <1>1 DEF ReadPending
  <2>2. PICK s \in {"idle", "pending_seen"} :
          /\ stage' = [stage EXCEPT ![r] = s]
          /\ s = "pending_seen" => joinReq[call[r].on] = "pending" /\ UNCHANGED call
          /\ s = "idle" => call' = [call EXCEPT ![r] = NoCall]
    BY <1>1 DEF ReadPending, Done, Advance
  <2>3. s \in Stage \ {"granted"}
    BY <2>2 DEF Stage
  <2>4. QED
    BY <2>1, <2>2, <2>3, QuietStep DEF tables
<1>2. CASE CommitReject(r) \/ ApproveUpdate(r) \/ Unban(r)
  <2>1. UNCHANGED <<club, role, attending>> /\ Done(r) /\ "idle" \in Stage
    BY <1>2 DEF CommitReject, ApproveUpdate, Unban, Stage
  <2>2. \A u \in User : joinReq[u] # "none" => joinReq'[u] # "none"
    BY <1>2 DEF CommitReject, ApproveUpdate, Unban, MarkApproved, TypeOK
  <2>3. ASSUME club = "deleted" PROVE UNCHANGED <<ban, joinReq>>
    BY <1>0, <1>2, <2>3
    DEF CommitReject, ApproveUpdate, Unban, MarkApproved, DeletedClubIsEmpty, TypeOK
  <2>4. QED
    BY <2>1, <2>2, <2>3, QuietStep DEF Done
<1>3. CASE ApproveReadMember(r) \/ ApproveInsertFails(r)
  <2>1. UNCHANGED tables /\ UNCHANGED call
    BY <1>3 DEF ApproveReadMember, ApproveInsertFails, Advance
  <2>2. PICK s \in {"insert_member", "update_only", "retry"} : stage' = [stage EXCEPT ![r] = s]
    BY <1>3 DEF ApproveReadMember, ApproveInsertFails, Advance
  <2>3. s \in Stage \ {"granted"}
    BY <2>2 DEF Stage
  <2>4. club = "present" => joinReq[call[r].on] # "none"
    BY <1>3 DEF ApproveReadMember, ApproveInsertFails, DecisionHasRow
  <2>5. QED
    BY <2>1, <2>2, <2>3, <2>4, QuietStep DEF tables
<1>4. CASE ApproveInsert(r)
  BY <1>4, ApproveInsertStep
<1>5. QED
  BY <1>1, <1>2, <1>3, <1>4 DEF Decide

LEMMA AttendStep ==
  ASSUME IInv, TypeOK', NEW r \in Request, Attend(r)
  PROVE  IInv'
<1>1. UNCHANGED <<club, role, ban, joinReq>> /\ (club = "deleted" => UNCHANGED attending)
  BY DEF Attend, CommitAttend, AttendThenJoin, tables
<1>2. PICK s \in {"idle", "attended", "not_banned"} :
        /\ stage' = [stage EXCEPT ![r] = s]
        /\ UNCHANGED call \/ (s = "idle" /\ call' = [call EXCEPT ![r] = NoCall])
  BY DEF Attend, CommitAttend, AttendThenJoin, Done, Advance
<1>3. s \in Stage \ {"granted"}
  BY <1>2 DEF Stage
<1>4. QED
  BY <1>1, <1>2, <1>3, QuietStep

LEMMA EnvironmentStep ==
  ASSUME IInv, NEW u \in User, CancelAttendance(u) \/ BanExpires(u), TypeOK'
  PROVE  IInv'
<1> USE DEF IInv
<1>1. UNCHANGED <<club, role, joinReq, call, stage>>
  BY DEF CancelAttendance, BanExpires
<1>2. OneHolder' /\ HolderHasClub' /\ LeaveIsOwnCall' /\ DecisionHasRow'
  BY <1>1 DEF OneHolder, HolderHasClub, LeaveIsOwnCall, DecisionHasRow
<1>3. OwnerStaysOrganizer' /\ GrantsStayValid' /\ MembersAsked'
  BY <1>1 DEF OwnerStaysOrganizer, GrantsStayValid, MembersAsked, Permitted, MayRemove, MayBan,
              MayPromote, MayDemote, MayLeave, IsOrganizer, NotLastOrganizer
<1>4. DeletedClubIsEmpty'
  BY <1>1 DEF CancelAttendance, BanExpires, DeletedClubIsEmpty
<1>5. QED
  BY <1>2, <1>3, <1>4

LEMMA IInvStep == IInv /\ [Next]_vars => IInv'
<1> SUFFICES ASSUME IInv, [Next]_vars PROVE IInv'
  OBVIOUS
<1>1. TypeOK'
  BY TypeStep DEF IInv
<1>2. CASE \E r \in Request, op \in Op, by, on \in User : Begin(r, op, by, on)
  BY <1>1, <1>2, BeginStep
<1>3. ASSUME NEW r \in Request, Serve(r) PROVE IInv'
  BY <1>1, <1>3, AcquireStep, RefuseAbortStep, CommitStep, JoinStep, DecideStep, AttendStep DEF Serve
<1>4. CASE \E r \in Request : Abort(r)
  BY <1>1, <1>4, RefuseAbortStep
<1>5. CASE \E u \in User : CancelAttendance(u) \/ BanExpires(u)
  BY <1>1, <1>5, EnvironmentStep
<1>6. CASE UNCHANGED vars
  BY <1>1, <1>6
  DEF vars, IInv, OneHolder, HolderHasClub, LeaveIsOwnCall, DecisionHasRow, OwnerStaysOrganizer,
      GrantsStayValid, DeletedClubIsEmpty, MembersAsked, Permitted, MayRemove, MayBan, MayPromote,
      MayDemote, MayLeave, IsOrganizer, NotLastOrganizer
<1>7. QED
  BY <1>2, <1>3, <1>4, <1>5, <1>6 DEF Next

(* The inductive invariant holds throughout, whatever the calls.           *)
THEOREM Invariance == Spec => []IInv
<1>1. QED
  BY IInvInit, IInvStep, PTL DEF Spec

(* However removals, bans, demotions, departures and approvals cross, the  *)
(* owner of an existing club is one of its organizers.                     *)
THEOREM OwnerIsSafe == Spec => []OwnerStaysOrganizer
<1>1. IInv => OwnerStaysOrganizer
  BY DEF IInv
<1>2. QED
  BY <1>1, Invariance, PTL

(* What a request verified under the row lock holds until it commits.      *)
THEOREM LockProtectsChecks == Spec => []GrantsStayValid
<1>1. IInv => GrantsStayValid
  BY DEF IInv
<1>2. QED
  BY <1>1, Invariance, PTL

(* No request in flight writes a row of a club that has been deleted.      *)
THEOREM DeletionIsComplete == Spec => []DeletedClubIsEmpty
<1>1. IInv => DeletedClubIsEmpty
  BY DEF IInv
<1>2. QED
  BY <1>1, Invariance, PTL

(* Whoever is in the club, its owner apart, has asked to join it.          *)
THEOREM AdmissionIsByRequest == Spec => []MembersAsked
<1>1. IInv => MembersAsked
  BY DEF IInv
<1>2. QED
  BY <1>1, Invariance, PTL

-----------------------------------------------------------------------------
(* Only the commits and the insert of an approval touch the roster.        *)
LEMMA RosterFrame ==
  ASSUME [Next]_vars
  PROVE  \/ UNCHANGED <<club, role>>
         \/ \E r \in Request : CommitRemoval(r) \/ CommitBan(r) \/ CommitRole(r) \/ CommitDelete(r)
         \/ \E r \in Request : ApproveInsert(r)
<1> USE DEF tables
<1>1. ASSUME NEW r \in Request, NEW op \in Op, NEW by \in User, NEW on \in User,
             Begin(r, op, by, on)
      PROVE  UNCHANGED <<club, role>>
  BY <1>1 DEF Begin
<1>2. ASSUME NEW r \in Request, Acquire(r) \/ Refuse(r) \/ FailBan(r) \/ Abort(r)
      PROVE  UNCHANGED <<club, role>>
  BY <1>2 DEF Acquire, Refuse, FailBan, Abort
<1>3. ASSUME NEW r \in Request, Join(r) PROVE UNCHANGED <<club, role>>
  BY <1>3 DEF Join, JoinAsMember, JoinNotMember, JoinReadRequest, JoinToldMember, JoinFlip,
              JoinInsert, JoinInsertFails
<1>4. ASSUME NEW r \in Request, Decide(r), ~ApproveInsert(r) PROVE UNCHANGED <<club, role>>
  BY <1>4 DEF Decide, ReadPending, CommitReject, ApproveReadMember, ApproveUpdate,
              ApproveInsertFails, Unban
<1>5. ASSUME NEW r \in Request, Attend(r) PROVE UNCHANGED <<club, role>>
  BY <1>5 DEF Attend, CommitAttend, AttendThenJoin
<1>6. ASSUME NEW u \in User, CancelAttendance(u) \/ BanExpires(u) PROVE UNCHANGED <<club, role>>
  BY <1>6 DEF CancelAttendance, BanExpires
<1>7. CASE UNCHANGED vars
  BY <1>7 DEF vars
<1>8. QED
  BY <1>1, <1>2, <1>3, <1>4, <1>5, <1>6, <1>7 DEF Next, Serve, Locked

(* A change of the roster is the work of a request that ends in that step, *)
(* and its caller is entitled to it: GrantsStayValid for the commits.      *)
LEMMA CallerStep ==
  ASSUME IInv, [Next]_vars, <<club, role>>' # <<club, role>>
  PROVE  \E r \in Request : stage[r] # "idle" /\ stage'[r] = "idle" /\ MadeBy(call[r])
<1>1. ASSUME NEW r \in Request,
             CommitRemoval(r) \/ CommitBan(r) \/ CommitRole(r) \/ CommitDelete(r)
      PROVE  MadeBy(call[r])
  <2> DEFINE a == call[r].by
             u == call[r].on
  <2>1. Permitted(call[r])
    BY <1>1 DEF CommitRemoval, CommitBan, CommitRole, CommitDelete, IInv, GrantsStayValid
  <2>2. CASE CommitRemoval(r) /\ call[r].op = "remove"
    <3>1. MayRemove(a, u)
      BY <2>1, <2>2 DEF Permitted
    <3>2. Roster!Dismiss(a, u)
      BY <2>2, <3>1 DEF CommitRemoval, RemoveMember, MayRemove, IsOrganizer, Roster!Dismiss, Roster!MayUnseat
    <3>3. QED
      BY <3>2 DEF MadeBy
  <2>3. CASE CommitRemoval(r) /\ call[r].op = "leave"
    <3>1. MayLeave(u) /\ a = u
      BY <2>1, <2>3 DEF Permitted, IInv, LeaveIsOwnCall
    <3>2. Roster!Leave(u)
      BY <2>3, <3>1 DEF CommitRemoval, RemoveMember, MayLeave, Roster!Leave
    <3>3. QED
      BY <3>1, <3>2 DEF MadeBy
  <2>4. CASE CommitBan(r)
    <3>1. MayBan(a, u)
      BY <2>1, <2>4 DEF Permitted, CommitBan
    <3>2. Roster!Dismiss(a, u)
      BY <2>4, <3>1 DEF CommitBan, RemoveMember, MayBan, IsOrganizer, Roster!Dismiss, Roster!MayUnseat
    <3>3. QED
      BY <3>2 DEF MadeBy
  <2>5. CASE CommitRole(r) /\ call[r].op = "promote"
    <3>1. MayPromote(a, u)
      BY <2>1, <2>5 DEF Permitted
    <3>2. Roster!Promote(a, u)
      BY <2>5, <3>1 DEF CommitRole, MayPromote, IsOrganizer, Roster!Promote
    <3>3. QED
      BY <3>2 DEF MadeBy
  <2>6. CASE CommitRole(r) /\ call[r].op = "demote"
    <3>1. MayDemote(a, u)
      BY <2>1, <2>6 DEF Permitted
    <3>2. Roster!Demote(a, u)
      BY <2>6, <3>1 DEF CommitRole, MayDemote, IsOrganizer, Roster!Demote, Roster!MayUnseat
    <3>3. QED
      BY <3>2 DEF MadeBy
  <2>7. CASE CommitDelete(r)
    BY <2>1, <2>7 DEF CommitDelete, Permitted, Roster!Disband, MadeBy
  <2>8. QED
    BY <1>1, <2>2, <2>3, <2>4, <2>5, <2>6, <2>7 DEF CommitRemoval, CommitRole
<1>2. ASSUME NEW r \in Request, ApproveInsert(r) PROVE MadeBy(call[r])
  BY <1>2 DEF ApproveInsert, ClubReferable, Roster!Admit, MadeBy
<1>3. PICK r \in Request : \/ CommitRemoval(r) \/ CommitBan(r) \/ CommitRole(r) \/ CommitDelete(r)
                          \/ ApproveInsert(r)
  BY RosterFrame
<1>4. stage[r] # "idle" /\ stage'[r] = "idle"
  BY <1>3 DEF CommitRemoval, CommitBan, CommitRole, CommitDelete, ApproveInsert, Done, IInv, TypeOK
<1>5. QED
  BY <1>1, <1>2, <1>3, <1>4

(* Hiding the caller leaves a step of ClubRoster.                          *)
LEMMA RosterStep == IInv /\ [Next]_vars => [Roster!Next]_(Roster!vars)
<1> SUFFICES ASSUME IInv, [Next]_vars, <<club, role>>' # <<club, role>>
             PROVE  Roster!Next
  BY DEF Roster!vars
<1>1. PICK r \in Request : MadeBy(call[r])
  BY CallerStep
<1>2. call[r].by \in User /\ call[r].on \in User
  BY DEF IInv, TypeOK, Call
<1>3. QED
  BY <1>1, <1>2 DEF MadeBy, Roster!Next

(* Seen from the roster alone, the requests, the lock and the tables do    *)
(* what ClubRoster promises: one entitled change at a time (remove, ban,   *)
(* promote, demote, leave, approve, delete).                               *)
THEOREM ImplementsRoster == Spec => RosterSpec
<1>1. Init => Roster!Init
  BY DEF Init, Roster!Init
<1>2. QED
  BY <1>1, RosterStep, Invariance, PTL DEF Spec, RosterSpec, Roster!Spec

(* Whoever changes the roster is entitled to when the change takes effect, *)
(* however long the request waited for the lock and whatever was committed *)
(* meanwhile.                                                              *)
THEOREM CallersAreEntitled == Spec => ChangesAreEntitled
<1> DEFINE Entitled ==
      <<club, role>>' # <<club, role>> =>
        \E r \in Request : stage[r] # "idle" /\ stage'[r] = "idle" /\ MadeBy(call[r])
<1>1. IInv /\ [Next]_vars => [Entitled]_vars
  BY CallerStep
<1> HIDE DEF Entitled
<1>2. Spec => [][Entitled]_vars
  BY <1>1, Invariance, PTL DEF Spec
<1>3. QED
  BY <1>2 DEF Entitled, ChangesAreEntitled

=============================================================================
