----------------------------- MODULE ClubRoster -----------------------------
(***************************************************************************)
(* What one book club promises about its roster, with no requests, locks   *)
(* or transactions in sight: every change of a role happens in one step,   *)
(* and whoever makes it is entitled to it in the very state it takes       *)
(* effect in.  ClubMembership, where each change is a request of several   *)
(* database statements, is checked and proved to implement this, each      *)
(* request with its own caller as the actor.                               *)
(*                                                                         *)
(* Admission is deliberately loose: approvals take no lock, so all that is *)
(* promised of Admit is that it only ever adds a plain member.             *)
(***************************************************************************)
CONSTANTS User, Owner

VARIABLES club, role

vars == <<club, role>>

Init ==
  /\ club = "present"
  /\ role = [u \in User |-> IF u = Owner THEN "organizer" ELSE "none"]

(* The owner can never be unseated; another organizer only by themselves   *)
(* or by the owner; a plain member by any organizer.                       *)
MayUnseat(a, u) ==
  /\ role[a] = "organizer"
  /\ u # Owner
  /\ role[u] = "organizer" => a \in {u, Owner}

Admit(u) ==
  /\ club = "present"
  /\ role[u] = "none"
  /\ role' = [role EXCEPT ![u] = "member"]
  /\ UNCHANGED club

Promote(a, u) ==
  /\ role[a] = "organizer"
  /\ role[u] = "member"
  /\ role' = [role EXCEPT ![u] = "organizer"]
  /\ UNCHANGED club

Demote(a, u) ==
  /\ role[u] = "organizer"
  /\ MayUnseat(a, u)
  /\ role' = [role EXCEPT ![u] = "member"]
  /\ UNCHANGED club

Dismiss(a, u) ==
  /\ MayUnseat(a, u)
  /\ role' = [role EXCEPT ![u] = "none"]
  /\ UNCHANGED club

Leave(u) ==
  /\ u # Owner
  /\ role' = [role EXCEPT ![u] = "none"]
  /\ UNCHANGED club

Disband ==
  /\ club' = "deleted"
  /\ role' = [u \in User |-> "none"]

Next ==
  \/ \E u \in User : Admit(u) \/ Leave(u)
  \/ \E a, u \in User : Promote(a, u) \/ Demote(a, u) \/ Dismiss(a, u)
  \/ Disband

Spec == Init /\ [][Next]_vars
=============================================================================
