--------------------------- MODULE MCChatGateway ---------------------------
(***************************************************************************)
(* Instances of ChatGateway for TLC: one or two connections of one user,   *)
(* two as in two browser tabs.  o is the owner, whose access is never      *)
(* withdrawn singly; a may be removed, demoted or fail to attend.          *)
(***************************************************************************)
EXTENDS ChatGateway, TLC

CONSTANTS o, a, c1, c2, s1, s2, all

OneOfA == c1 :> a
BothOfOwner == c1 :> o @@ c2 :> o

Sweepers == Permutations(Sweeper)
=============================================================================
