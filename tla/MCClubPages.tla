---------------------------- MODULE MCClubPages ----------------------------
(***************************************************************************)
(* An instance of ClubPages for TLC.                                       *)
(***************************************************************************)
EXTENDS ClubPages, TLC

CONSTANTS o, m, a, nobody, c1, c2, r1, r2

(* Requests are alike, and so are the ids of clubs.                        *)
Symmetry == Permutations(Request) \cup Permutations(Club)

=============================================================================
