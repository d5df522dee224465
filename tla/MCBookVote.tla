----------------------------- MODULE MCBookVote -----------------------------
(***************************************************************************)
(* An instance of BookVote for TLC.                                        *)
(***************************************************************************)
EXTENDS BookVote, TLC

CONSTANTS o, m, r1, r2, r3

(* Requests are alike.                                                     *)
Symmetry == Permutations(Request)

=============================================================================
