---------------------------- MODULE MCEventRooms ----------------------------
(* Instances of EventRooms for TLC: midnight is before every odd instant.  *)
EXTENDS EventRooms, TLC
CONSTANT Last
MCDayOf == [t \in 0 .. Last |-> (t + 1) \div 2]
Symmetry == Permutations(Request) \cup Permutations(Room) \cup Permutations(Title)
=============================================================================
