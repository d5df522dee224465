---------------------------- MODULE MCChatReads ----------------------------
(* Instances of ChatReads for TLC.                                         *)
EXTENDS ChatReads, TLC
CONSTANTS b1, b2
Symmetry == Permutations(Tab)
=============================================================================
