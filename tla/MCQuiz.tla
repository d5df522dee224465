------------------------------- MODULE MCQuiz -------------------------------
(* An instance of Quiz for TLC: a player who alternates the answers.       *)
EXTENDS Quiz, TLC
CONSTANTS p1, r1, r2
MCGuess == [p \in Player |-> [q \in Question |-> q % 2]]
MCKey == [q \in Question |-> q % 2]
Symmetry == Permutations(Request)
=============================================================================
