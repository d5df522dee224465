---------------------------- MODULE OneTimeCodes ----------------------------
(***************************************************************************)
(* What the service promises about every secret it leaves in Redis for one *)
(* later request to present: a code is given out once, it is good for one  *)
(* use, and once used or lapsed it is never good again.  The verifier of   *)
(* an OAuth flow, the code that hands a session over to the web client and *)
(* the ticket of a WebSocket are such codes (SignIn).                      *)
(***************************************************************************)
EXTENDS Naturals

CONSTANT Code

VARIABLES
  issued,  \* the codes given out so far
  live,    \* those that would still be accepted
  uses     \* how often each was accepted

Init ==
  /\ issued = {}
  /\ live = {}
  /\ uses = [c \in Code |-> 0]

Issue(c) ==
  /\ c \notin issued
  /\ issued' = issued \cup {c}
  /\ live' = live \cup {c}
  /\ UNCHANGED uses

Use(c) ==
  /\ c \in live
  /\ live' = live \ {c}
  /\ uses' = [uses EXCEPT ![c] = @ + 1]
  /\ UNCHANGED issued

Lapse(c) ==
  /\ c \in live
  /\ live' = live \ {c}
  /\ UNCHANGED <<issued, uses>>

Next == \E c \in Code : Issue(c) \/ Use(c) \/ Lapse(c)

Spec == Init /\ [][Next]_<<issued, live, uses>>

(* No code is accepted twice, and one that still works was never accepted. *)
UsedAtMostOnce == \A c \in Code : uses[c] <= 1 /\ (c \in live => uses[c] = 0)

=============================================================================
