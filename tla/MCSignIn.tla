------------------------------ MODULE MCSignIn ------------------------------
(***************************************************************************)
(* An instance of SignIn for TLC: the tabs of one browser, and identities  *)
(* that share an address.                                                  *)
(***************************************************************************)
EXTENDS SignIn, TLC

CONSTANTS t1, t2, b1, id1, id2, e

OneBrowser == [t \in Tab |-> b1]
OneAddress == [k \in Identity |-> e]

(* Tabs are alike, and so are the identities of one address.               *)
Symmetry == Permutations(Tab) \cup Permutations(Identity)

=============================================================================
