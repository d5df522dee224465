------------------------------ MODULE BookVote ------------------------------
(***************************************************************************)
(* One voting round of a club (app/services/book_vote_service.py and its   *)
(* repository): organizers open it, put books up, take books without votes *)
(* off and close it; members vote, move their vote and withdraw it.        *)
(*                                                                         *)
(* A request is a slot; call[r] says what was asked, and stage[r], row[r], *)
(* seen[r] and counts[r] what it has read.  Its transaction is READ        *)
(* COMMITTED: between two of its statements any other request may commit.  *)
(* The one row lock that matters is on a vote that a request has deleted   *)
(* and not committed: whoever else deletes it waits.                       *)
(***************************************************************************)
EXTENDS Naturals, FiniteSets

CONSTANTS
  Member,      \* the members of the club
  Organizer,   \* those who may manage the round
  Request,     \* slots for requests in flight
  MaxOptions   \* bound: books ever put up

ASSUME MemberAssumption == IsFiniteSet(Member) /\ Organizer \subseteq Member
ASSUME BoundAssumption == MaxOptions \in Nat

(* Books are numbered in the order of created_at.                          *)
Option == 1..MaxOptions
None == 0

VARIABLES
  status,   \* of the round; "none" before it exists
  winner,   \* winner_option_id
  options,  \* the books that are up
  vote,     \* book_vote_votes: member -> option, None without a row
  dated,    \* the last created_at given to a book
  call,     \* request -> what was asked, by whom, of which book
  stage,    \* request -> its next statement
  row,      \* vote, unvote: is the vote row it read (still) there
  seen,     \* close: the books it read
  counts,   \* close: the votes it counted
  missed,   \* history: close -> kinds of commits since it read
  late      \* history: kinds of commits that the verdict does not take in

tables == <<status, winner, options, vote>>
reads == <<row, seen, counts>>
history == <<missed, late>>
vars == <<tables, dated, call, stage, reads, history>>

ManageOps == {"create", "add", "remove", "close"}
VoteOps == {"vote", "unvote"}

Kind == {"vote", "unvote", "add", "remove"}

Stage == {
  "idle",
  "checked",    \* the caller, the book and an open round, where asked for
  "uncounted",  \* remove: the book has no votes
  "replaces",   \* vote: the member has a vote for another book
  "moving",     \* vote: ... which this transaction has deleted
  "listed",     \* close: has read the books
  "counted" }   \* close: has counted the votes

(* Only the type of the state.                                             *)
TypeOK ==
  /\ status \in {"none", "open", "closed"}
  /\ winner \in Option \cup {None}
  /\ options \in SUBSET Option
  /\ vote \in [Member -> Option \cup {None}]
  /\ dated \in 0..MaxOptions
  /\ call \in [Request -> [op : ManageOps \cup VoteOps, by : Member, on : Option \cup {None}]]
  /\ stage \in [Request -> Stage]
  /\ row \in [Request -> {"none", "there", "gone"}]
  /\ seen \in [Request -> SUBSET Option]
  /\ counts \in [Request -> [Option -> Nat]]
  /\ missed \in [Request -> SUBSET Kind]
  /\ late \in SUBSET Kind

NoVotes == [o \in Option |-> 0]

Init ==
  /\ status = "none"
  /\ winner = None
  /\ options = {}
  /\ vote = [m \in Member |-> None]
  /\ dated = 0
  /\ call \in [Request -> [op : {"vote"}, by : Member, on : {None}]]
  /\ stage = [r \in Request |-> "idle"]
  /\ row = [r \in Request |-> "none"]
  /\ seen = [r \in Request |-> {}]
  /\ counts = [r \in Request |-> NoVotes]
  /\ missed = [r \in Request |-> {}]
  /\ late = {}

-----------------------------------------------------------------------------
(* Helpers.                                                                *)

VotesFor(o) == Cardinality({m \in Member : vote[m] = o})

Goto(r, s) == stage' = [stage EXCEPT ![r] = s]

(* Answered, failed and rolled back, or committed.                         *)
Done(r) ==
  /\ Goto(r, "idle")
  /\ seen' = [seen EXCEPT ![r] = {}]
  /\ counts' = [counts EXCEPT ![r] = NoVotes]

(* Mutant of ForgetRow: rows are deleted by member and not by their id, so *)
(* that whoever has read one finds the member's next one in its place.     *)
ForgetOwnRow(r, m) == row' = [row EXCEPT ![r] = "none"]

(* Rows of m that requests have read are no longer there.                  *)
ForgetRow(r, m) ==
  row' = [q \in Request |->
            CASE q = r -> "none"
              [] q # r /\ row[q] = "there" /\ call[q].by = m -> "gone"
              [] OTHER -> row[q]]

(* The row of the vote that request r read is being deleted by another.    *)
RowLocked(r) ==
  \E q \in Request \ {r} : stage[q] = "moving" /\ row[q] = "there" /\ call[q].by = call[r].by

(* A commit of some kind: closers that have read past it miss it, and so   *)
(* does the verdict of a round that is closed.                             *)
Commits(kind) ==
  /\ missed' = [q \in Request |->
       IF stage[q] = "counted" \/ (stage[q] = "listed" /\ kind \in {"add", "remove"})
       THEN missed[q] \cup {kind}
       ELSE missed[q]]
  /\ late' = IF status = "closed" THEN late \cup {kind} ELSE late

(* The book with the most votes, the oldest of those that share the lead:  *)
(* max over the books in the order of created_at.                          *)
Leader(S, n) ==
  CHOOSE o \in S : \A p \in S : n[p] < n[o] \/ (n[p] = n[o] /\ o <= p)

-----------------------------------------------------------------------------
(* A request arrives and passes its checks.  One that fails them changes   *)
(* nothing and is not a step.                                              *)

Checks(op, by, o) ==
  /\ op \in ManageOps => by \in Organizer
  /\ op = "create" => status = "none" /\ o = None
  /\ op = "add" => status = "open" /\ o = dated + 1 /\ o \in Option
  /\ op = "close" => status = "open" /\ o = None
  /\ op \in {"remove", "vote", "unvote"} => o \in options
  /\ op \in {"remove", "vote"} => status = "open"

Begin(r, op, by, o) ==
  /\ stage[r] = "idle"
  /\ Checks(op, by, o)
  /\ call' = [call EXCEPT ![r] = [op |-> op, by |-> by, on |-> o]]
  /\ dated' = IF op = "add" THEN o ELSE dated
  /\ row' = [row EXCEPT ![r] = "none"]
  /\ Goto(r, "checked")
  /\ UNCHANGED <<tables, seen, counts, history>>

At(r, op, s) == call[r].op = op /\ stage[r] = s

(* create_round_service.                                                   *)
CreateRound(r) ==
  /\ At(r, "create", "checked")
  /\ status = "none"
  /\ status' = "open"
  /\ Done(r)
  /\ UNCHANGED <<winner, options, vote, dated, call, row, history>>

(* Mutant of AddOption: dated by its commit, not by its request.           *)
AddOptionDatedAtCommit(r) ==
  /\ At(r, "add", "checked")
  /\ options' = options \cup {dated + 1}
  /\ Commits("add")
  /\ Done(r)
  /\ UNCHANGED <<status, winner, vote, dated, call, row>>

(* add_option_service commits, into a round that may be closed by now.     *)
AddOption(r) ==
  /\ At(r, "add", "checked")
  /\ options' = options \cup {call[r].on}
  /\ Commits("add")
  /\ Done(r)
  /\ UNCHANGED <<status, winner, vote, dated, call, row>>

-----------------------------------------------------------------------------
(* remove_option_service.                                                  *)

(* count_votes_for_option.                                                 *)
CountForRemoval(r) ==
  /\ At(r, "remove", "checked")
  /\ IF VotesFor(call[r].on) = 0
     THEN Goto(r, "uncounted") /\ UNCHANGED <<seen, counts>>
     ELSE Done(r)
  /\ UNCHANGED <<tables, dated, call, row, history>>

(* The DELETE, which the foreign key of a vote cast since would fail.      *)
RemoveOption(r) ==
  /\ At(r, "remove", "uncounted")
  /\ VotesFor(call[r].on) = 0
  /\ options' = options \ {call[r].on}
  /\ Commits("remove")
  /\ Done(r)
  /\ UNCHANGED <<status, winner, vote, dated, call, row>>

RemoveOptionFails(r) ==
  /\ At(r, "remove", "uncounted")
  /\ VotesFor(call[r].on) > 0
  /\ Done(r)
  /\ UNCHANGED <<tables, dated, call, row, history>>

-----------------------------------------------------------------------------
(* vote_service and unvote_service.                                        *)

(* get_user_vote: a vote for this very book is the answer already.         *)
FindVote(r) ==
  LET v == vote[call[r].by]
  IN /\ At(r, "vote", "checked")
     /\ v # call[r].on
     /\ row' = [row EXCEPT ![r] = IF v = None THEN "none" ELSE "there"]
     /\ Goto(r, IF v = None THEN "moving" ELSE "replaces")
     /\ UNCHANGED <<tables, dated, call, seen, counts, history>>

AlreadyVoted(r) ==
  /\ At(r, "vote", "checked")
  /\ vote[call[r].by] = call[r].on
  /\ Done(r)
  /\ UNCHANGED <<tables, dated, call, row, history>>

(* Mutant of DeleteOld: the old vote's deletion is committed by itself.    *)
DeleteOldAndCommit(r) ==
  /\ At(r, "vote", "replaces")
  /\ vote' = IF row[r] = "there" THEN [vote EXCEPT ![call[r].by] = None] ELSE vote
  /\ ForgetRow(r, call[r].by)
  /\ Goto(r, "moving")
  /\ UNCHANGED <<status, winner, options, dated, call, seen, counts, history>>

(* The flush deletes the row that was read, if it is still there.          *)
DeleteOld(r) ==
  /\ At(r, "vote", "replaces")
  /\ ~RowLocked(r)
  /\ Goto(r, "moving")
  /\ UNCHANGED <<tables, dated, call, reads, history>>

(* The new row refers to the book, and is the member's only one.           *)
MayInsertVote(r) ==
  /\ call[r].on \in options
  /\ vote[call[r].by] = None \/ row[r] = "there"

CastVote(r) ==
  /\ At(r, "vote", "moving")
  /\ ~RowLocked(r)
  /\ MayInsertVote(r)
  /\ vote' = [vote EXCEPT ![call[r].by] = call[r].on]
  /\ ForgetRow(r, call[r].by)
  /\ Commits("vote")
  /\ Done(r)
  /\ UNCHANGED <<status, winner, options, dated, call>>

(* The insert fails, and the rollback brings the old vote back.            *)
CastVoteFails(r) ==
  /\ At(r, "vote", "moving")
  /\ ~RowLocked(r)
  /\ ~MayInsertVote(r)
  /\ Done(r)
  /\ UNCHANGED <<tables, dated, call, row, history>>

(* unvote_service reads the member's vote ...                              *)
FindVoteToDrop(r) ==
  /\ At(r, "unvote", "checked")
  /\ IF vote[call[r].by] = call[r].on
     THEN /\ row' = [row EXCEPT ![r] = "there"]
          /\ Goto(r, "replaces")
          /\ UNCHANGED <<seen, counts>>
     ELSE Done(r) /\ UNCHANGED row
  /\ UNCHANGED <<tables, dated, call, history>>

(* ... and deletes that row, closed round or not.                          *)
DropVote(r) ==
  /\ At(r, "unvote", "replaces")
  /\ ~RowLocked(r)
  /\ vote' = IF row[r] = "there" THEN [vote EXCEPT ![call[r].by] = None] ELSE vote
  /\ ForgetRow(r, call[r].by)
  /\ Commits("unvote")
  /\ Done(r)
  /\ UNCHANGED <<status, winner, options, dated, call>>

-----------------------------------------------------------------------------
(* close_round_service.                                                    *)

ListOptions(r) ==
  /\ At(r, "close", "checked")
  /\ seen' = [seen EXCEPT ![r] = options]
  /\ Goto(r, "listed")
  /\ UNCHANGED <<tables, dated, call, row, counts, history>>

(* get_vote_counts, in a statement of its own.                             *)
CountVotes(r) ==
  /\ At(r, "close", "listed")
  /\ counts' = [counts EXCEPT ![r] = [o \in Option |-> VotesFor(o)]]
  /\ Goto(r, "counted")
  /\ UNCHANGED <<tables, dated, call, row, seen, history>>

(* Mutant of Verdict: the last of those that share the lead.               *)
VerdictLast(r) ==
  IF seen[r] = {} THEN winner
  ELSE CHOOSE o \in seen[r] : \A p \in seen[r] :
         counts[r][p] < counts[r][o] \/ (counts[r][p] = counts[r][o] /\ p <= o)

(* The winner that the UPDATE stores; a round without books leaves the     *)
(* column as it is, since nothing in it changed.                           *)
Verdict(r) == IF seen[r] = {} THEN winner ELSE Leader(seen[r], counts[r])

CloseRound(r) ==
  /\ At(r, "close", "counted")
  /\ status' = "closed"
  /\ winner' = Verdict(r)
  /\ late' = missed[r] \cup (IF seen[r] = {} THEN late ELSE {})
  /\ missed' = [missed EXCEPT ![r] = {}]
  /\ Done(r)
  /\ UNCHANGED <<options, vote, dated, call, row>>

(* A timeout, a lost connection, a restart.                                *)
Abort(r) ==
  /\ stage[r] # "idle"
  /\ Done(r)
  /\ missed' = [missed EXCEPT ![r] = {}]
  /\ UNCHANGED <<tables, dated, call, row, late>>

-----------------------------------------------------------------------------
Next ==
  \E r \in Request :
    \/ \E op \in ManageOps \cup VoteOps, by \in Member, o \in Option \cup {None} :
         Begin(r, op, by, o)
    \/ CreateRound(r) \/ AddOption(r)
    \/ CountForRemoval(r) \/ RemoveOption(r) \/ RemoveOptionFails(r)
    \/ FindVote(r) \/ AlreadyVoted(r) \/ DeleteOld(r) \/ CastVote(r) \/ CastVoteFails(r)
    \/ FindVoteToDrop(r) \/ DropVote(r)
    \/ ListOptions(r) \/ CountVotes(r) \/ CloseRound(r)
    \/ Abort(r)

Spec == Init /\ [][Next]_vars

-----------------------------------------------------------------------------
(* Properties.                                                             *)

(* The verdict of a closed round is the leader of the votes and books it   *)
(* holds, the older one in a tie, except for what was committed after its  *)
(* closer had read: only a removal puts a book in office that is not up,   *)
(* only a book put up leaves the office empty, and only votes that moved,  *)
(* or were for such a book, let another book have more (close_round_service*)
(* reads books and counts in separate statements, and takes no lock).      *)
VerdictStands ==
  status = "closed" =>
    /\ winner \notin options \cup {None} => "remove" \in late
    /\ winner = None /\ options # {} => "add" \in late
    /\ winner \in options /\ (\E o \in options : VotesFor(o) > VotesFor(winner)) =>
         late \cap {"vote", "unvote", "add"} # {}
    /\ late = {} => \A o \in options : VotesFor(o) = VotesFor(winner) => winner <= o

(* A member who has voted is without a vote again only by withdrawing it:  *)
(* moving a vote that fails half-way, or crosses another request of the    *)
(* same member, never loses it (vote_service deletes, flushes, inserts).   *)
VotesAreNotLost ==
  [][\A m \in Member : vote[m] # None /\ vote'[m] = None =>
       \E r \in Request : call[r] = [op |-> "unvote", by |-> m, on |-> vote[m]]
                          /\ stage[r] # "idle" /\ stage'[r] = "idle"]_vars

(* Every request acts on the round as Ballot says: whole, once, while it   *)
(* is under way, or not at all, although it takes several statements and   *)
(* others commit in between (vote_service flushes a deletion before it     *)
(* inserts; unvote_service reads, then deletes; remove_option_service      *)
(* counts votes, then deletes, and a vote may come in between).            *)
Poll == INSTANCE Ballot WITH Book <- Option, busy <- {r \in Request : stage[r] # "idle"}
BallotSpec == Poll!Spec

=============================================================================
