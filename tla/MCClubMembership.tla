-------------------------- MODULE MCClubMembership --------------------------
(***************************************************************************)
(* Instances of ClubMembership for TLC.                                    *)
(***************************************************************************)
EXTENDS ClubMembership, TLC

CONSTANTS o, a, b, r1, r2, r3

(* The owner is the one account, and the requests are alike.               *)
Symmetry == Permutations(User \ {Owner}) \cup Permutations(Request)

=============================================================================
