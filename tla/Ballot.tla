------------------------------- MODULE Ballot -------------------------------
(***************************************************************************)
(* What a voting round promises, with no statements, locks or rollbacks:   *)
(* whatever a request does to the round it does in one step, while it is   *)
(* under way, and once; or it does nothing.  So a vote moves from book to  *)
(* book without a moment in which the member has none or two, a book goes  *)
(* only when nobody votes for it, and a vote is withdrawn only while it is *)
(* for the very book that its member named.                                *)
(*                                                                         *)
(* Deliberately loose: a request that was asked for while the round was    *)
(* open may take effect after it has closed, and which book is announced   *)
(* is the matter of VerdictStands in BookVote.                             *)
(***************************************************************************)
CONSTANTS Member, Organizer, Request, Book, None

VARIABLES
  status, winner, options, vote,   \* the round, as in BookVote
  call,                            \* request -> what was asked, by whom, of which book
  busy                             \* the requests that are under way

round == <<status, winner, options, vote>>
vars == <<round, call, busy>>

ManageOps == {"create", "add", "remove", "close"}
Call == [op : ManageOps \cup {"vote", "unvote"}, by : Member, on : Book \cup {None}]

Init ==
  /\ status = "none"
  /\ winner = None
  /\ options = {}
  /\ vote = [m \in Member |-> None]
  /\ call \in [Request -> Call]
  /\ busy = {}

MayAsk(c) ==
  /\ c.op \in ManageOps => c.by \in Organizer
  /\ c.op \in {"add", "remove", "vote", "close"} => status = "open"

Ask(r, c) ==
  /\ r \notin busy
  /\ MayAsk(c)
  /\ call' = [call EXCEPT ![r] = c]
  /\ busy' = busy \cup {r}
  /\ UNCHANGED round

(* The answer, which comes with the effect of the request or without any.  *)
Ends(r) ==
  /\ r \in busy
  /\ busy' = busy \ {r}
  /\ UNCHANGED call

HasNoEffect(r) == Ends(r) /\ UNCHANGED round

Open(r) ==
  /\ Ends(r)
  /\ call[r].op = "create"
  /\ status = "none"
  /\ status' = "open"
  /\ UNCHANGED <<winner, options, vote>>

PutUp(r) ==
  /\ Ends(r)
  /\ call[r].op = "add"
  /\ call[r].on \notin options
  /\ options' = options \cup {call[r].on}
  /\ UNCHANGED <<status, winner, vote>>

TakeOff(r) ==
  /\ Ends(r)
  /\ call[r].op = "remove"
  /\ \A m \in Member : vote[m] # call[r].on
  /\ options' = options \ {call[r].on}
  /\ UNCHANGED <<status, winner, vote>>

Cast(r) ==
  /\ Ends(r)
  /\ call[r].op = "vote"
  /\ call[r].on \in options
  /\ vote' = [vote EXCEPT ![call[r].by] = call[r].on]
  /\ UNCHANGED <<status, winner, options>>

Withdraw(r) ==
  /\ Ends(r)
  /\ call[r].op = "unvote"
  /\ vote[call[r].by] = call[r].on
  /\ vote' = [vote EXCEPT ![call[r].by] = None]
  /\ UNCHANGED <<status, winner, options>>

Announce(r) ==
  /\ Ends(r)
  /\ call[r].op = "close"
  /\ status' = "closed"
  /\ winner' \in Book \cup {winner}
  /\ UNCHANGED <<options, vote>>

Next ==
  \E r \in Request :
    \/ \E c \in Call : Ask(r, c)
    \/ HasNoEffect(r) \/ Open(r) \/ PutUp(r) \/ TakeOff(r)
    \/ Cast(r) \/ Withdraw(r) \/ Announce(r)

Spec == Init /\ [][Next]_vars
=============================================================================
