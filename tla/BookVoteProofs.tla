--------------------------- MODULE BookVoteProofs ---------------------------
(***************************************************************************)
(* Proofs about BookVote, for any finite set of members, any requests and  *)
(* any number of books.                                                    *)
(*                                                                         *)
(* The argument.  Votes and books: a book is deleted only in a state where *)
(* it has no votes.  Moving votes: a request that withdraws a vote still   *)
(* holds the row of the vote it was called for, or knows that the row went *)
(* (RowsAreCurrent).  The verdict: what a closer has read is what is there *)
(* but for the kinds of commits it has missed (ReadingsAreExplained), so   *)
(* the leader of what it read is the leader of what is there, but for the  *)
(* kinds of commits in late.  The ballot: the one statement of a request   *)
(* that changes the round is the one it is answered by, and the book,      *)
(* the vote or the absence of votes that it goes by is still what it read  *)
(* or is asked for anew by that statement (BallotStep, BooksAreFresh).     *)
(***************************************************************************)
EXTENDS BookVote, FiniteSetTheorems, WellFoundedInduction, TLAPS

(* Every vote is for a book that is up.                                    *)
VotesHaveOptions == \A m \in Member : vote[m] # None => vote[m] \in options

(* An unvote deletes the very vote that it was asked to.                   *)
RowsAreCurrent ==
  \A r \in Request :
    At(r, "unvote", "replaces") /\ row[r] = "there" => vote[call[r].by] = call[r].on

(* A book that is being put up is one of the numbered ones.                *)
BooksAreNumbered ==
  \A r \in Request : call[r].op = "add" => call[r].on \in Option

(* What the books and votes read by a closer have to do with those there.  *)
ReadingsAreExplained ==
  \A r \in Request :
    /\ stage[r] \in {"listed", "counted"} =>
         /\ "remove" \notin missed[r] => seen[r] \subseteq options
         /\ "add" \notin missed[r] => options \subseteq seen[r]
    /\ stage[r] = "counted" =>
         /\ {"vote", "unvote"} \cap missed[r] = {} =>
              \A o \in Option : counts[r][o] = VotesFor(o)
         /\ \A o \in Option : counts[r][o] <= Cardinality(Member)

(* Only a closed round has a winner.                                       *)
NoEarlyWinner == status # "closed" => winner = None

IInv ==
  /\ TypeOK
  /\ VotesHaveOptions
  /\ BooksAreNumbered
  /\ RowsAreCurrent
  /\ ReadingsAreExplained
  /\ NoEarlyWinner
  /\ VerdictStands

-----------------------------------------------------------------------------
(* Counting.                                                               *)

LEMMA VotesForType ==
  \A o : VotesFor(o) \in Nat /\ VotesFor(o) <= Cardinality(Member)
<1> SUFFICES ASSUME NEW o
             PROVE  VotesFor(o) \in Nat /\ VotesFor(o) <= Cardinality(Member)
  OBVIOUS
<1> {m \in Member : vote[m] = o} \in SUBSET Member
  OBVIOUS
<1> QED
  BY MemberAssumption, FS_Subset, FS_CardinalityType DEF VotesFor

LEMMA NoVotesFor ==
  ASSUME NEW o, VotesFor(o) = 0
  PROVE  \A m \in Member : vote[m] # o
<1> {m \in Member : vote[m] = o} \in SUBSET Member
  OBVIOUS
<1> {m \in Member : vote[m] = o} = {}
  BY MemberAssumption, FS_Subset, FS_EmptySet DEF VotesFor
<1> QED
  OBVIOUS

LEMMA SmallestNumber ==
  ASSUME NEW T \in SUBSET Nat, T # {}
  PROVE  \E x \in T : \A y \in T : x <= y
<1>1. PICK x \in T : \A y \in T : ~ (<<y, x>> \in OpToRel(<, Nat))
  BY NatLessThanWellFounded, WFMin
<1>2. \A y \in T : ~ (y < x)
  BY <1>1 DEF OpToRel
<1> QED
  BY <1>2

(* max over a list with a key finds the first of the largest.              *)
LEMMA LeaderLeads ==
  ASSUME NEW S \in SUBSET Option, S # {}, NEW n \in [Option -> Nat], NEW b \in Nat,
         \A o \in S : n[o] <= b
  PROVE  /\ Leader(S, n) \in S
         /\ \A p \in S : n[p] < n[Leader(S, n)] \/ (n[p] = n[Leader(S, n)] /\ Leader(S, n) <= p)
<1> DEFINE T == {k \in 0..b : \E o \in S : k = b - n[o]}
           U(m) == {o \in S : n[o] = m}
<1>0. S \subseteq Nat /\ \A o \in S : n[o] \in Nat
  BY BoundAssumption DEF Option
<1>1. \A o \in S : b - n[o] \in T
  BY <1>0
<1>2. PICK k \in T : \A j \in T : k <= j
  <2>1. T \in SUBSET Nat /\ T # {}
    BY <1>1
  <2> QED
    BY <2>1, SmallestNumber
<1>3. PICK o1 \in S : k = b - n[o1]
  OBVIOUS
<1>4. \A p \in S : n[p] <= n[o1]
  BY <1>0, <1>1, <1>2, <1>3
<1>5. PICK o \in U(n[o1]) : \A p \in U(n[o1]) : o <= p
  <2>1. U(n[o1]) \in SUBSET Nat /\ U(n[o1]) # {}
    BY <1>0
  <2> QED
    BY <2>1, SmallestNumber
<1>6. o \in S /\ \A p \in S : n[p] < n[o] \/ (n[p] = n[o] /\ o <= p)
  BY <1>0, <1>4, <1>5
<1> QED
  BY <1>6 DEF Leader

-----------------------------------------------------------------------------
LEMMA InitIInv == Init => IInv
<1> SUFFICES ASSUME Init
             PROVE  IInv
  OBVIOUS
<1>1. TypeOK
  BY BoundAssumption DEF Init, TypeOK, Option, None, NoVotes, Stage, Kind, ManageOps, VoteOps
<1>2. VotesHaveOptions /\ NoEarlyWinner /\ VerdictStands
  BY DEF Init, VotesHaveOptions, NoEarlyWinner, VerdictStands
<1>3. RowsAreCurrent /\ ReadingsAreExplained /\ BooksAreNumbered
  BY DEF Init, BooksAreNumbered, RowsAreCurrent, ReadingsAreExplained, At
<1> QED
  BY <1>1, <1>2, <1>3 DEF IInv

(* What CloseRound writes is the leader of what its request read.          *)
LEMMA VerdictLeads ==
  ASSUME TypeOK, ReadingsAreExplained, NEW r \in Request, stage[r] = "counted", seen[r] # {}
  PROVE  /\ Verdict(r) \in seen[r]
         /\ \A p \in seen[r] :
              \/ counts[r][p] < counts[r][Verdict(r)]
              \/ counts[r][p] = counts[r][Verdict(r)] /\ Verdict(r) <= p
<1>1. seen[r] \in SUBSET Option /\ counts[r] \in [Option -> Nat]
  BY DEF TypeOK
<1>2. Cardinality(Member) \in Nat /\ \A o \in seen[r] : counts[r][o] <= Cardinality(Member)
  BY <1>1, MemberAssumption, FS_CardinalityType DEF ReadingsAreExplained
<1> QED
  BY <1>1, <1>2, LeaderLeads DEF Verdict

LEMMA VotesForKept ==
  ASSUME vote' = vote
  PROVE  \A o : VotesFor(o)' = VotesFor(o)
BY DEF VotesFor

(* One lemma per conjunct of the invariant.                                *)
LEMMA TypeKept ==
  ASSUME TypeOK, BooksAreNumbered, ReadingsAreExplained, [Next]_vars
  PROVE  TypeOK'
<1> USE DEF TypeOK, tables, reads, history, Done, Goto, At, Commits, ForgetRow,
            Stage, Kind, NoVotes
<1>1. CASE UNCHANGED vars
  BY <1>1 DEF vars
<1>2. ASSUME NEW r \in Request, NEW op \in ManageOps \cup VoteOps, NEW by \in Member,
             NEW o \in Option \cup {None}, Begin(r, op, by, o)
      PROVE  TypeOK'
  <2>1. dated' \in 0..MaxOptions
    BY <1>2, BoundAssumption DEF Begin, Checks, Option
  <2>2. call' \in [Request -> [op : ManageOps \cup VoteOps, by : Member, on : Option \cup {None}]]
    BY <1>2 DEF Begin
  <2> QED
    BY <1>2, <2>1, <2>2 DEF Begin, Checks
<1>3. ASSUME NEW r \in Request, CreateRound(r)
      PROVE  TypeOK'
  BY <1>3 DEF CreateRound
<1>4. ASSUME NEW r \in Request, AddOption(r)
      PROVE  TypeOK'
  <2>1. call[r].on \in Option
    BY <1>4 DEF AddOption, BooksAreNumbered
  <2> QED
    BY <1>4, <2>1 DEF AddOption
<1>5. ASSUME NEW r \in Request, CountForRemoval(r)
      PROVE  TypeOK'
  <2>1. CASE VotesFor(call[r].on) = 0
    BY <1>5, <2>1 DEF CountForRemoval
  <2>2. CASE VotesFor(call[r].on) # 0
    <3>1. UNCHANGED <<tables, dated, call, row, history>> /\ Done(r)
      BY <1>5, <2>2 DEF CountForRemoval
    <3> QED
      BY <3>1
  <2> QED
    BY <2>1, <2>2
<1>6. ASSUME NEW r \in Request, RemoveOption(r)
      PROVE  TypeOK'
  BY <1>6 DEF RemoveOption
<1>7. ASSUME NEW r \in Request, RemoveOptionFails(r)
      PROVE  TypeOK'
  BY <1>7 DEF RemoveOptionFails
<1>8. ASSUME NEW r \in Request, FindVote(r)
      PROVE  TypeOK'
  BY <1>8 DEF FindVote
<1>9. ASSUME NEW r \in Request, AlreadyVoted(r)
      PROVE  TypeOK'
  BY <1>9 DEF AlreadyVoted
<1>10. ASSUME NEW r \in Request, DeleteOld(r)
      PROVE  TypeOK'
  BY <1>10 DEF DeleteOld
<1>11. ASSUME NEW r \in Request, CastVote(r)
      PROVE  TypeOK'
  BY <1>11 DEF CastVote
<1>12. ASSUME NEW r \in Request, CastVoteFails(r)
      PROVE  TypeOK'
  BY <1>12 DEF CastVoteFails
<1>13. ASSUME NEW r \in Request, FindVoteToDrop(r)
      PROVE  TypeOK'
  <2>1. CASE vote[call[r].by] = call[r].on
    BY <1>13, <2>1 DEF FindVoteToDrop
  <2>2. CASE vote[call[r].by] # call[r].on
    <3>1. UNCHANGED <<tables, dated, call, row, history>> /\ Done(r)
      BY <1>13, <2>2 DEF FindVoteToDrop
    <3> QED
      BY <3>1
  <2> QED
    BY <2>1, <2>2
<1>14. ASSUME NEW r \in Request, DropVote(r)
      PROVE  TypeOK'
  BY <1>14 DEF DropVote
<1>15. ASSUME NEW r \in Request, ListOptions(r)
      PROVE  TypeOK'
  BY <1>15 DEF ListOptions
<1>16. ASSUME NEW r \in Request, CountVotes(r)
      PROVE  TypeOK'
  BY <1>16, VotesForType DEF CountVotes
<1>17. ASSUME NEW r \in Request, CloseRound(r)
      PROVE  TypeOK'
  <2>1. Verdict(r) \in Option \cup {None}
    <3>1. CASE seen[r] = {}
      BY <3>1 DEF Verdict
    <3>2. CASE seen[r] # {}
      BY <3>2, <1>17, VerdictLeads DEF CloseRound
    <3> QED
      BY <3>1, <3>2
  <2> QED
    BY <1>17, <2>1 DEF CloseRound
<1>18. ASSUME NEW r \in Request, Abort(r)
      PROVE  TypeOK'
  BY <1>18 DEF Abort
<1> QED
  BY <1>1, <1>2, <1>3, <1>4, <1>5, <1>6, <1>7, <1>8, <1>9, <1>10,
     <1>11, <1>12, <1>13, <1>14, <1>15, <1>16, <1>17, <1>18 DEF Next

LEMMA VotesKept ==
  ASSUME TypeOK, VotesHaveOptions, [Next]_vars
  PROVE  VotesHaveOptions'
<1> USE DEF TypeOK, VotesHaveOptions, tables, reads, history, Done, Goto, At, Commits, ForgetRow
<1>1. CASE UNCHANGED vars
  BY <1>1 DEF vars
<1>2. ASSUME NEW r \in Request, NEW op \in ManageOps \cup VoteOps, NEW by \in Member,
             NEW o \in Option \cup {None}, Begin(r, op, by, o)
      PROVE  VotesHaveOptions'
  BY <1>2 DEF Begin, Checks
<1>3. ASSUME NEW r \in Request, CreateRound(r)
      PROVE  VotesHaveOptions'
  BY <1>3 DEF CreateRound
<1>4. ASSUME NEW r \in Request, AddOption(r)
      PROVE  VotesHaveOptions'
  BY <1>4 DEF AddOption
<1>5. ASSUME NEW r \in Request, CountForRemoval(r)
      PROVE  VotesHaveOptions'
  BY <1>5 DEF CountForRemoval
<1>6. ASSUME NEW r \in Request, RemoveOption(r)
      PROVE  VotesHaveOptions'
  BY <1>6, NoVotesFor DEF RemoveOption
<1>7. ASSUME NEW r \in Request, RemoveOptionFails(r)
      PROVE  VotesHaveOptions'
  BY <1>7 DEF RemoveOptionFails
<1>8. ASSUME NEW r \in Request, FindVote(r)
      PROVE  VotesHaveOptions'
  BY <1>8 DEF FindVote
<1>9. ASSUME NEW r \in Request, AlreadyVoted(r)
      PROVE  VotesHaveOptions'
  BY <1>9 DEF AlreadyVoted
<1>10. ASSUME NEW r \in Request, DeleteOld(r)
      PROVE  VotesHaveOptions'
  BY <1>10 DEF DeleteOld
<1>11. ASSUME NEW r \in Request, CastVote(r)
      PROVE  VotesHaveOptions'
  BY <1>11 DEF CastVote, MayInsertVote
<1>12. ASSUME NEW r \in Request, CastVoteFails(r)
      PROVE  VotesHaveOptions'
  BY <1>12 DEF CastVoteFails
<1>13. ASSUME NEW r \in Request, FindVoteToDrop(r)
      PROVE  VotesHaveOptions'
  BY <1>13 DEF FindVoteToDrop
<1>14. ASSUME NEW r \in Request, DropVote(r)
      PROVE  VotesHaveOptions'
  BY <1>14 DEF DropVote
<1>15. ASSUME NEW r \in Request, ListOptions(r)
      PROVE  VotesHaveOptions'
  BY <1>15 DEF ListOptions
<1>16. ASSUME NEW r \in Request, CountVotes(r)
      PROVE  VotesHaveOptions'
  BY <1>16 DEF CountVotes
<1>17. ASSUME NEW r \in Request, CloseRound(r)
      PROVE  VotesHaveOptions'
  BY <1>17 DEF CloseRound
<1>18. ASSUME NEW r \in Request, Abort(r)
      PROVE  VotesHaveOptions'
  BY <1>18 DEF Abort
<1> QED
  BY <1>1, <1>2, <1>3, <1>4, <1>5, <1>6, <1>7, <1>8, <1>9, <1>10,
     <1>11, <1>12, <1>13, <1>14, <1>15, <1>16, <1>17, <1>18 DEF Next

LEMMA BooksKept ==
  ASSUME TypeOK, BooksAreNumbered, [Next]_vars
  PROVE  BooksAreNumbered'
<1> USE DEF TypeOK, BooksAreNumbered, tables, reads, history, Done, Goto, At, Commits, ForgetRow
<1>1. CASE UNCHANGED vars
  BY <1>1 DEF vars
<1>2. ASSUME NEW r \in Request, NEW op \in ManageOps \cup VoteOps, NEW by \in Member,
             NEW o \in Option \cup {None}, Begin(r, op, by, o)
      PROVE  BooksAreNumbered'
  BY <1>2 DEF Begin, Checks
<1>3. ASSUME NEW r \in Request, CreateRound(r)
      PROVE  BooksAreNumbered'
  BY <1>3 DEF CreateRound
<1>4. ASSUME NEW r \in Request, AddOption(r)
      PROVE  BooksAreNumbered'
  BY <1>4 DEF AddOption
<1>5. ASSUME NEW r \in Request, CountForRemoval(r)
      PROVE  BooksAreNumbered'
  BY <1>5 DEF CountForRemoval
<1>6. ASSUME NEW r \in Request, RemoveOption(r)
      PROVE  BooksAreNumbered'
  BY <1>6 DEF RemoveOption
<1>7. ASSUME NEW r \in Request, RemoveOptionFails(r)
      PROVE  BooksAreNumbered'
  BY <1>7 DEF RemoveOptionFails
<1>8. ASSUME NEW r \in Request, FindVote(r)
      PROVE  BooksAreNumbered'
  BY <1>8 DEF FindVote
<1>9. ASSUME NEW r \in Request, AlreadyVoted(r)
      PROVE  BooksAreNumbered'
  BY <1>9 DEF AlreadyVoted
<1>10. ASSUME NEW r \in Request, DeleteOld(r)
      PROVE  BooksAreNumbered'
  BY <1>10 DEF DeleteOld
<1>11. ASSUME NEW r \in Request, CastVote(r)
      PROVE  BooksAreNumbered'
  BY <1>11 DEF CastVote
<1>12. ASSUME NEW r \in Request, CastVoteFails(r)
      PROVE  BooksAreNumbered'
  BY <1>12 DEF CastVoteFails
<1>13. ASSUME NEW r \in Request, FindVoteToDrop(r)
      PROVE  BooksAreNumbered'
  BY <1>13 DEF FindVoteToDrop
<1>14. ASSUME NEW r \in Request, DropVote(r)
      PROVE  BooksAreNumbered'
  BY <1>14 DEF DropVote
<1>15. ASSUME NEW r \in Request, ListOptions(r)
      PROVE  BooksAreNumbered'
  BY <1>15 DEF ListOptions
<1>16. ASSUME NEW r \in Request, CountVotes(r)
      PROVE  BooksAreNumbered'
  BY <1>16 DEF CountVotes
<1>17. ASSUME NEW r \in Request, CloseRound(r)
      PROVE  BooksAreNumbered'
  BY <1>17 DEF CloseRound
<1>18. ASSUME NEW r \in Request, Abort(r)
      PROVE  BooksAreNumbered'
  BY <1>18 DEF Abort
<1> QED
  BY <1>1, <1>2, <1>3, <1>4, <1>5, <1>6, <1>7, <1>8, <1>9, <1>10,
     <1>11, <1>12, <1>13, <1>14, <1>15, <1>16, <1>17, <1>18 DEF Next

LEMMA RowsKept ==
  ASSUME TypeOK, RowsAreCurrent, [Next]_vars
  PROVE  RowsAreCurrent'
<1> USE DEF TypeOK, RowsAreCurrent, tables, reads, history, Done, Goto, At, Commits, ForgetRow
<1>1. CASE UNCHANGED vars
  BY <1>1 DEF vars
<1>2. ASSUME NEW r \in Request, NEW op \in ManageOps \cup VoteOps, NEW by \in Member,
             NEW o \in Option \cup {None}, Begin(r, op, by, o)
      PROVE  RowsAreCurrent'
  BY <1>2 DEF Begin, Checks
<1>3. ASSUME NEW r \in Request, CreateRound(r)
      PROVE  RowsAreCurrent'
  BY <1>3 DEF CreateRound
<1>4. ASSUME NEW r \in Request, AddOption(r)
      PROVE  RowsAreCurrent'
  BY <1>4 DEF AddOption
<1>5. ASSUME NEW r \in Request, CountForRemoval(r)
      PROVE  RowsAreCurrent'
  BY <1>5, SMTT(30) DEF CountForRemoval
<1>6. ASSUME NEW r \in Request, RemoveOption(r)
      PROVE  RowsAreCurrent'
  BY <1>6 DEF RemoveOption
<1>7. ASSUME NEW r \in Request, RemoveOptionFails(r)
      PROVE  RowsAreCurrent'
  BY <1>7 DEF RemoveOptionFails
<1>8. ASSUME NEW r \in Request, FindVote(r)
      PROVE  RowsAreCurrent'
  BY <1>8 DEF FindVote
<1>9. ASSUME NEW r \in Request, AlreadyVoted(r)
      PROVE  RowsAreCurrent'
  BY <1>9 DEF AlreadyVoted
<1>10. ASSUME NEW r \in Request, DeleteOld(r)
      PROVE  RowsAreCurrent'
  BY <1>10 DEF DeleteOld
<1>11. ASSUME NEW r \in Request, CastVote(r)
      PROVE  RowsAreCurrent'
  BY <1>11 DEF CastVote
<1>12. ASSUME NEW r \in Request, CastVoteFails(r)
      PROVE  RowsAreCurrent'
  BY <1>12 DEF CastVoteFails
<1>13. ASSUME NEW r \in Request, FindVoteToDrop(r)
      PROVE  RowsAreCurrent'
  BY <1>13 DEF FindVoteToDrop
<1>14. ASSUME NEW r \in Request, DropVote(r)
      PROVE  RowsAreCurrent'
  BY <1>14 DEF DropVote
<1>15. ASSUME NEW r \in Request, ListOptions(r)
      PROVE  RowsAreCurrent'
  BY <1>15 DEF ListOptions
<1>16. ASSUME NEW r \in Request, CountVotes(r)
      PROVE  RowsAreCurrent'
  BY <1>16 DEF CountVotes
<1>17. ASSUME NEW r \in Request, CloseRound(r)
      PROVE  RowsAreCurrent'
  BY <1>17 DEF CloseRound
<1>18. ASSUME NEW r \in Request, Abort(r)
      PROVE  RowsAreCurrent'
  BY <1>18 DEF Abort
<1> QED
  BY <1>1, <1>2, <1>3, <1>4, <1>5, <1>6, <1>7, <1>8, <1>9, <1>10,
     <1>11, <1>12, <1>13, <1>14, <1>15, <1>16, <1>17, <1>18 DEF Next

LEMMA ReadingsKept ==
  ASSUME TypeOK, ReadingsAreExplained, [Next]_vars
  PROVE  ReadingsAreExplained'
<1> USE DEF TypeOK, ReadingsAreExplained, tables, reads, history, Done, Goto, At, Commits, ForgetRow
<1>1. CASE UNCHANGED vars
  BY <1>1, VotesForKept DEF vars
<1>2. ASSUME NEW r \in Request, NEW op \in ManageOps \cup VoteOps, NEW by \in Member,
             NEW o \in Option \cup {None}, Begin(r, op, by, o)
      PROVE  ReadingsAreExplained'
  BY <1>2, VotesForKept DEF Begin, Checks
<1>3. ASSUME NEW r \in Request, CreateRound(r)
      PROVE  ReadingsAreExplained'
  BY <1>3, VotesForKept DEF CreateRound
<1>4. ASSUME NEW r \in Request, AddOption(r)
      PROVE  ReadingsAreExplained'
  BY <1>4, VotesForKept DEF AddOption
<1>5. ASSUME NEW r \in Request, CountForRemoval(r)
      PROVE  ReadingsAreExplained'
  BY <1>5, VotesForKept DEF CountForRemoval
<1>6. ASSUME NEW r \in Request, RemoveOption(r)
      PROVE  ReadingsAreExplained'
  BY <1>6, VotesForKept DEF RemoveOption
<1>7. ASSUME NEW r \in Request, RemoveOptionFails(r)
      PROVE  ReadingsAreExplained'
  BY <1>7, VotesForKept DEF RemoveOptionFails
<1>8. ASSUME NEW r \in Request, FindVote(r)
      PROVE  ReadingsAreExplained'
  BY <1>8, VotesForKept DEF FindVote
<1>9. ASSUME NEW r \in Request, AlreadyVoted(r)
      PROVE  ReadingsAreExplained'
  BY <1>9, VotesForKept DEF AlreadyVoted
<1>10. ASSUME NEW r \in Request, DeleteOld(r)
      PROVE  ReadingsAreExplained'
  BY <1>10, VotesForKept DEF DeleteOld
<1>11. ASSUME NEW r \in Request, CastVote(r)
      PROVE  ReadingsAreExplained'
  BY <1>11 DEF CastVote
<1>12. ASSUME NEW r \in Request, CastVoteFails(r)
      PROVE  ReadingsAreExplained'
  BY <1>12, VotesForKept DEF CastVoteFails
<1>13. ASSUME NEW r \in Request, FindVoteToDrop(r)
      PROVE  ReadingsAreExplained'
  BY <1>13, VotesForKept DEF FindVoteToDrop
<1>14. ASSUME NEW r \in Request, DropVote(r)
      PROVE  ReadingsAreExplained'
  BY <1>14 DEF DropVote
<1>15. ASSUME NEW r \in Request, ListOptions(r)
      PROVE  ReadingsAreExplained'
  BY <1>15, VotesForKept DEF ListOptions
<1>16. ASSUME NEW r \in Request, CountVotes(r)
      PROVE  ReadingsAreExplained'
  BY <1>16, VotesForKept, VotesForType DEF CountVotes
<1>17. ASSUME NEW r \in Request, CloseRound(r)
      PROVE  ReadingsAreExplained'
  BY <1>17, VotesForKept DEF CloseRound
<1>18. ASSUME NEW r \in Request, Abort(r)
      PROVE  ReadingsAreExplained'
  BY <1>18, VotesForKept DEF Abort
<1> QED
  BY <1>1, <1>2, <1>3, <1>4, <1>5, <1>6, <1>7, <1>8, <1>9, <1>10,
     <1>11, <1>12, <1>13, <1>14, <1>15, <1>16, <1>17, <1>18 DEF Next

LEMMA WinnerKept ==
  ASSUME TypeOK, NoEarlyWinner, [Next]_vars
  PROVE  NoEarlyWinner'
<1> USE DEF NoEarlyWinner, tables, reads, history, Done, Goto, At, Commits, ForgetRow
<1>1. CASE UNCHANGED vars
  BY <1>1 DEF vars
<1>2. ASSUME NEW r \in Request, NEW op \in ManageOps \cup VoteOps, NEW by \in Member,
             NEW o \in Option \cup {None}, Begin(r, op, by, o)
      PROVE  NoEarlyWinner'
  BY <1>2 DEF Begin, Checks
<1>3. ASSUME NEW r \in Request, CreateRound(r)
      PROVE  NoEarlyWinner'
  BY <1>3 DEF CreateRound
<1>4. ASSUME NEW r \in Request, AddOption(r)
      PROVE  NoEarlyWinner'
  BY <1>4 DEF AddOption
<1>5. ASSUME NEW r \in Request, CountForRemoval(r)
      PROVE  NoEarlyWinner'
  BY <1>5 DEF CountForRemoval
<1>6. ASSUME NEW r \in Request, RemoveOption(r)
      PROVE  NoEarlyWinner'
  BY <1>6 DEF RemoveOption
<1>7. ASSUME NEW r \in Request, RemoveOptionFails(r)
      PROVE  NoEarlyWinner'
  BY <1>7 DEF RemoveOptionFails
<1>8. ASSUME NEW r \in Request, FindVote(r)
      PROVE  NoEarlyWinner'
  BY <1>8 DEF FindVote
<1>9. ASSUME NEW r \in Request, AlreadyVoted(r)
      PROVE  NoEarlyWinner'
  BY <1>9 DEF AlreadyVoted
<1>10. ASSUME NEW r \in Request, DeleteOld(r)
      PROVE  NoEarlyWinner'
  BY <1>10 DEF DeleteOld
<1>11. ASSUME NEW r \in Request, CastVote(r)
      PROVE  NoEarlyWinner'
  BY <1>11 DEF CastVote
<1>12. ASSUME NEW r \in Request, CastVoteFails(r)
      PROVE  NoEarlyWinner'
  BY <1>12 DEF CastVoteFails
<1>13. ASSUME NEW r \in Request, FindVoteToDrop(r)
      PROVE  NoEarlyWinner'
  BY <1>13 DEF FindVoteToDrop
<1>14. ASSUME NEW r \in Request, DropVote(r)
      PROVE  NoEarlyWinner'
  BY <1>14 DEF DropVote
<1>15. ASSUME NEW r \in Request, ListOptions(r)
      PROVE  NoEarlyWinner'
  BY <1>15 DEF ListOptions
<1>16. ASSUME NEW r \in Request, CountVotes(r)
      PROVE  NoEarlyWinner'
  BY <1>16 DEF CountVotes
<1>17. ASSUME NEW r \in Request, CloseRound(r)
      PROVE  NoEarlyWinner'
  BY <1>17 DEF CloseRound
<1>18. ASSUME NEW r \in Request, Abort(r)
      PROVE  NoEarlyWinner'
  BY <1>18 DEF Abort
<1> QED
  BY <1>1, <1>2, <1>3, <1>4, <1>5, <1>6, <1>7, <1>8, <1>9, <1>10,
     <1>11, <1>12, <1>13, <1>14, <1>15, <1>16, <1>17, <1>18 DEF Next

LEMMA VerdictKept ==
  ASSUME TypeOK, ReadingsAreExplained, NoEarlyWinner, VerdictStands, [Next]_vars
  PROVE  VerdictStands'
<1> USE DEF TypeOK, VerdictStands, tables, reads, history, Done, Goto, At, Commits, ForgetRow
<1>1. CASE UNCHANGED vars
  BY <1>1, VotesForKept DEF vars
<1>2. ASSUME NEW r \in Request, NEW op \in ManageOps \cup VoteOps, NEW by \in Member,
             NEW o \in Option \cup {None}, Begin(r, op, by, o)
      PROVE  VerdictStands'
  BY <1>2, VotesForKept DEF Begin, Checks
<1>3. ASSUME NEW r \in Request, CreateRound(r)
      PROVE  VerdictStands'
  BY <1>3, VotesForKept DEF CreateRound
<1>4. ASSUME NEW r \in Request, AddOption(r)
      PROVE  VerdictStands'
  BY <1>4, VotesForKept DEF AddOption
<1>5. ASSUME NEW r \in Request, CountForRemoval(r)
      PROVE  VerdictStands'
  BY <1>5, VotesForKept DEF CountForRemoval
<1>6. ASSUME NEW r \in Request, RemoveOption(r)
      PROVE  VerdictStands'
  BY <1>6, VotesForKept DEF RemoveOption
<1>7. ASSUME NEW r \in Request, RemoveOptionFails(r)
      PROVE  VerdictStands'
  BY <1>7, VotesForKept DEF RemoveOptionFails
<1>8. ASSUME NEW r \in Request, FindVote(r)
      PROVE  VerdictStands'
  BY <1>8, VotesForKept DEF FindVote
<1>9. ASSUME NEW r \in Request, AlreadyVoted(r)
      PROVE  VerdictStands'
  BY <1>9, VotesForKept DEF AlreadyVoted
<1>10. ASSUME NEW r \in Request, DeleteOld(r)
      PROVE  VerdictStands'
  BY <1>10, VotesForKept DEF DeleteOld
<1>11. ASSUME NEW r \in Request, CastVote(r)
      PROVE  VerdictStands'
  BY <1>11 DEF CastVote
<1>12. ASSUME NEW r \in Request, CastVoteFails(r)
      PROVE  VerdictStands'
  BY <1>12, VotesForKept DEF CastVoteFails
<1>13. ASSUME NEW r \in Request, FindVoteToDrop(r)
      PROVE  VerdictStands'
  BY <1>13, VotesForKept DEF FindVoteToDrop
<1>14. ASSUME NEW r \in Request, DropVote(r)
      PROVE  VerdictStands'
  BY <1>14 DEF DropVote
<1>15. ASSUME NEW r \in Request, ListOptions(r)
      PROVE  VerdictStands'
  BY <1>15, VotesForKept DEF ListOptions
<1>16. ASSUME NEW r \in Request, CountVotes(r)
      PROVE  VerdictStands'
  BY <1>16, VotesForKept DEF CountVotes
<1>17. ASSUME NEW r \in Request, CloseRound(r)
      PROVE  VerdictStands'
  <2>1. status' = "closed" /\ winner' = Verdict(r) /\ options' = options
        /\ late' = missed[r] \cup (IF seen[r] = {} THEN late ELSE {})
    BY <1>17 DEF CloseRound
  <2>2. \A o : VotesFor(o)' = VotesFor(o)
    BY <1>17, VotesForKept DEF CloseRound
  <2>3. stage[r] = "counted"
    BY <1>17 DEF CloseRound
  <2>4. CASE seen[r] = {}
    <3>1. winner' = winner /\ late' = missed[r] \cup late
      BY <2>1, <2>4 DEF Verdict
    <3>2. CASE status = "closed"
      BY <2>1, <2>2, <3>1, <3>2
    <3>3. CASE status # "closed"
      <4>1. winner' = None
        BY <3>1, <3>3 DEF NoEarlyWinner
      <4>2. options # {} => "add" \in late'
        BY <2>3, <2>4, <3>1 DEF ReadingsAreExplained
      <4>3. None \notin options /\ \A o \in options : None <= o
        BY BoundAssumption DEF Option, None
      <4> QED
        BY <2>1, <4>1, <4>2, <4>3
    <3> QED
      BY <3>2, <3>3
  <2>5. CASE seen[r] # {}
    <3>1. late' = missed[r]
      BY <2>1, <2>5
    <3>2. /\ winner' \in seen[r]
          /\ \A p \in seen[r] :
               \/ counts[r][p] < counts[r][winner']
               \/ counts[r][p] = counts[r][winner'] /\ winner' <= p
      BY <2>1, <2>3, <2>5, VerdictLeads
    <3>3. winner' \in Option /\ winner' # None /\ counts[r] \in [Option -> Nat]
      BY <3>2, BoundAssumption DEF Option, None
    <3>4. winner' \notin options \cup {None} => "remove" \in late'
      BY <2>3, <3>1, <3>2 DEF ReadingsAreExplained
    <3>5. late' \cap {"vote", "unvote", "add"} = {} =>
            \A o \in options : o \in seen[r] /\ counts[r][o] = VotesFor(o)
                               /\ counts[r][winner'] = VotesFor(winner')
      BY <2>3, <3>1, <3>3 DEF ReadingsAreExplained
    <3>6. \A o \in seen[r] : counts[r][o] \in Nat /\ counts[r][winner'] \in Nat
      BY <3>2, <3>3
    <3>7. (\E o \in options : VotesFor(o) > VotesFor(winner')) => late' \cap {"vote", "unvote", "add"} # {}
      BY <3>2, <3>5, <3>6
    <3>8. late' = {} => \A o \in options : VotesFor(o) = VotesFor(winner') => winner' <= o
      BY <3>2, <3>5, <3>6
    <3>9. \A o : (VotesFor(o))' = VotesFor(o)
      BY <2>2
    <3>10. VotesFor(winner)' = VotesFor(winner')
      BY <1>17 DEF CloseRound, VotesFor
    <3> QED
      BY <2>1, <3>3, <3>4, <3>7, <3>8, <3>9, <3>10
  <2> QED
    BY <2>4, <2>5
<1>18. ASSUME NEW r \in Request, Abort(r)
      PROVE  VerdictStands'
  BY <1>18, VotesForKept DEF Abort
<1> QED
  BY <1>1, <1>2, <1>3, <1>4, <1>5, <1>6, <1>7, <1>8, <1>9, <1>10,
     <1>11, <1>12, <1>13, <1>14, <1>15, <1>16, <1>17, <1>18 DEF Next

-----------------------------------------------------------------------------
LEMMA NextIInv == IInv /\ [Next]_vars => IInv'
BY TypeKept, VotesKept, BooksKept, RowsKept, ReadingsKept, WinnerKept, VerdictKept DEF IInv

(* The strengthened invariant holds in every state of the specification.   *)
THEOREM Invariance == Spec => []IInv
<1>1. IInv /\ [Next]_vars => IInv'
  BY NextIInv
<1> QED
  BY InitIInv, <1>1, PTL DEF Spec

(* The state of a round has its type, in every reachable state.            *)
THEOREM TypeCorrect == Spec => []TypeOK
<1>1. IInv => TypeOK
  BY DEF IInv
<1> QED
  BY <1>1, Invariance, PTL

(* However requests cross, no vote is left for a book that was taken off   *)
(* (remove_option_service, vote_service and the foreign key between them). *)
THEOREM VotesKeepTheirOptions == Spec => []VotesHaveOptions
<1>1. IInv => VotesHaveOptions
  BY DEF IInv
<1> QED
  BY <1>1, Invariance, PTL

(* Whatever number of members, books and requests, crossing closes         *)
(* included, the verdict of a closed round is right but for what was       *)
(* committed behind its closer's back (close_round_service).               *)
THEOREM VerdictIsExplained == Spec => []VerdictStands
<1>1. IInv => VerdictStands
  BY DEF IInv
<1> QED
  BY <1>1, Invariance, PTL

(* A member's vote goes only when that member withdraws it (vote_service). *)
THEOREM VotesGoOnlyWithdrawn == Spec => VotesAreNotLost
<1> DEFINE Withdrawn(m) ==
             \E r \in Request : /\ call[r] = [op |-> "unvote", by |-> m, on |-> vote[m]]
                               /\ stage[r] # "idle" /\ stage'[r] = "idle"
<1>1. ASSUME IInv, [Next]_vars, NEW m \in Member, vote[m] # None, vote'[m] = None
      PROVE  Withdrawn(m)
  <2>1. vote' # vote
    BY <1>1
  <2>2. PICK r \in Request : CastVote(r) \/ DropVote(r)
    BY <1>1, <2>1
    DEF Next, vars, tables, Begin, CreateRound, AddOption, CountForRemoval, RemoveOption,
        RemoveOptionFails, FindVote, AlreadyVoted, DeleteOld, CastVoteFails, FindVoteToDrop,
        ListOptions, CountVotes, CloseRound, Abort
  <2>3. CASE CastVote(r)
    <3>1. call[r].on \in options /\ vote' = [vote EXCEPT ![call[r].by] = call[r].on]
      BY <2>3 DEF CastVote, MayInsertVote
    <3>2. None \notin options
      BY <1>1, BoundAssumption DEF IInv, TypeOK, Option, None
    <3> QED
      BY <1>1, <3>1, <3>2 DEF IInv, TypeOK
  <2>4. CASE DropVote(r)
    <3>1. At(r, "unvote", "replaces") /\ row[r] = "there" /\ call[r].by = m
      BY <1>1, <2>4 DEF DropVote, IInv, TypeOK
    <3>2. vote[m] = call[r].on
      BY <1>1, <3>1 DEF IInv, RowsAreCurrent
    <3>3. call[r] = [op |-> "unvote", by |-> m, on |-> vote[m]]
      BY <1>1, <3>1, <3>2 DEF IInv, TypeOK, At
    <3>4. stage[r] # "idle" /\ stage'[r] = "idle"
      BY <1>1, <2>4, <3>1 DEF DropVote, Done, Goto, At, IInv, TypeOK
    <3> QED
      BY <3>3, <3>4
  <2> QED
    BY <2>2, <2>3, <2>4
<1>2. IInv /\ [Next]_vars =>
        [\A m \in Member : vote[m] # None /\ vote'[m] = None =>
           \E r \in Request : call[r] = [op |-> "unvote", by |-> m, on |-> vote[m]]
                            /\ stage[r] # "idle" /\ stage'[r] = "idle"]_vars
  BY <1>1
<1> QED
  BY <1>2, Invariance, PTL DEF Spec, VotesAreNotLost

-----------------------------------------------------------------------------
(* The round as a Ballot.                                                  *)

(* A book that is being put up is not up, and nobody else puts it up.      *)
BooksAreFresh ==
  /\ options \subseteq 1..dated
  /\ \A r \in Request :
       At(r, "add", "checked") => call[r].on \in (1..dated) \ options
  /\ \A r, q \in Request :
       At(r, "add", "checked") /\ At(q, "add", "checked") /\ r # q => call[r].on # call[q].on

LEMMA InitFresh == Init => BooksAreFresh
BY DEF Init, BooksAreFresh, At

(* A step that begins and commits no addition keeps the books fresh.       *)
LEMMA FreshIfSpared ==
  ASSUME TypeOK, BooksAreFresh, dated' = dated, options' \subseteq options, call' = call,
         \A r \in Request : stage'[r] = "checked" => stage[r] = "checked"
  PROVE  BooksAreFresh'
BY DEF TypeOK, BooksAreFresh, At

LEMMA FreshKept ==
  ASSUME TypeOK, BooksAreFresh, [Next]_vars
  PROVE  BooksAreFresh'
<1> USE DEF tables, reads, history, Done, Goto
<1>1. CASE UNCHANGED vars
  BY <1>1, FreshIfSpared DEF vars
<1>2. ASSUME NEW r \in Request, NEW op \in ManageOps \cup VoteOps, NEW by \in Member,
             NEW o \in Option \cup {None}, Begin(r, op, by, o)
      PROVE  BooksAreFresh'
  <2>1. /\ call' = [call EXCEPT ![r] = [op |-> op, by |-> by, on |-> o]]
        /\ stage' = [stage EXCEPT ![r] = "checked"]
        /\ options' = options
        /\ dated' = IF op = "add" THEN dated + 1 ELSE dated
        /\ op = "add" => o = dated + 1
    BY <1>2 DEF Begin, Checks
  <2>2. dated \in Nat /\ dated' \in Nat /\ 1..dated \subseteq 1..dated'
    BY <2>1, BoundAssumption DEF TypeOK
  <2>3. \A q \in Request \ {r} : call'[q] = call[q] /\ stage'[q] = stage[q]
    BY <2>1 DEF TypeOK
  <2>4. call'[r].op = op /\ call'[r].on = o
    BY <2>1 DEF TypeOK
  <2>5. op = "add" => o \in 1..dated' /\ o \notin 1..dated
    BY <2>1, <2>2
  <2>6. options' \subseteq 1..dated'
    BY <2>1, <2>2 DEF BooksAreFresh
  <2>7. ASSUME NEW q \in Request, At(q, "add", "checked")'
        PROVE  call'[q].on \in (1..dated') \ options'
    BY <2>1, <2>2, <2>3, <2>4, <2>5, <2>7 DEF BooksAreFresh, At
  <2>8. ASSUME NEW p \in Request, NEW q \in Request, p # q,
               At(p, "add", "checked")', At(q, "add", "checked")'
        PROVE  call'[p].on # call'[q].on
    <3>1. CASE p # r /\ q # r
      BY <2>3, <2>8, <3>1 DEF BooksAreFresh, At
    <3>2. CASE p = r
      BY <2>3, <2>4, <2>5, <2>8, <3>2 DEF BooksAreFresh, At
    <3>3. CASE q = r
      BY <2>3, <2>4, <2>5, <2>8, <3>3 DEF BooksAreFresh, At
    <3> QED
      BY <3>1, <3>2, <3>3
  <2> QED
    BY <2>6, <2>7, <2>8 DEF BooksAreFresh
<1>3. ASSUME NEW r \in Request, AddOption(r)
      PROVE  BooksAreFresh'
  <2>1. At(r, "add", "checked") /\ options' = options \cup {call[r].on}
        /\ call' = call /\ dated' = dated /\ stage' = [stage EXCEPT ![r] = "idle"]
    BY <1>3 DEF AddOption
  <2>2. stage'[r] = "idle" /\ \A q \in Request \ {r} : stage'[q] = stage[q]
    BY <2>1 DEF TypeOK
  <2> QED
    BY <2>1, <2>2 DEF BooksAreFresh, At
<1>4. ASSUME NEW r \in Request,
             \/ CreateRound(r) \/ RemoveOption(r) \/ RemoveOptionFails(r) \/ CountForRemoval(r)
             \/ FindVote(r) \/ AlreadyVoted(r) \/ DeleteOld(r) \/ CastVote(r) \/ CastVoteFails(r)
             \/ FindVoteToDrop(r) \/ DropVote(r)
             \/ ListOptions(r) \/ CountVotes(r) \/ CloseRound(r) \/ Abort(r)
      PROVE  BooksAreFresh'
  <2>1. /\ dated' = dated /\ call' = call
        /\ options' \subseteq options
        /\ \E s \in Stage \ {"checked"} : stage' = [stage EXCEPT ![r] = s]
    BY <1>4
    DEF CreateRound, RemoveOption, RemoveOptionFails, CountForRemoval, FindVote, AlreadyVoted,
        DeleteOld, CastVote, CastVoteFails, FindVoteToDrop, DropVote, ListOptions, CountVotes,
        CloseRound, Abort, Stage
  <2>2. \A q \in Request : stage'[q] = "checked" => stage[q] = "checked"
    BY <2>1 DEF TypeOK
  <2> QED
    BY <2>1, <2>2, FreshIfSpared
<1> QED
  BY <1>1, <1>2, <1>3, <1>4 DEF Next

(* In the eyes of the ballot, a request that goes on is still under way ...*)
LEMMA StillBusy ==
  ASSUME TypeOK, NEW r \in Request, stage[r] # "idle", NEW s \in Stage \ {"idle"}, Goto(r, s)
  PROVE  {q \in Request : stage[q] # "idle"}' = {q \in Request : stage[q] # "idle"}
BY DEF TypeOK, Goto

(* ... and one that is done has ended.                                     *)
LEMMA DoneEnds ==
  ASSUME TypeOK, NEW r \in Request, stage[r] # "idle", Done(r), call' = call
  PROVE  Poll!Ends(r)
<1>1. stage'[r] = "idle" /\ \A q \in Request \ {r} : stage'[q] = stage[q]
  BY DEF TypeOK, Done, Goto
<1> QED
  BY <1>1 DEF Poll!Ends

LEMMA BeginAsks ==
  ASSUME TypeOK, NEW r \in Request, NEW op \in ManageOps \cup VoteOps, NEW by \in Member,
         NEW o \in Option \cup {None}, Begin(r, op, by, o)
  PROVE  \E c \in Poll!Call : Poll!Ask(r, c)
<1> DEFINE c == [op |-> op, by |-> by, on |-> o]
<1>1. c \in Poll!Call
  BY DEF Poll!Call, Poll!ManageOps, ManageOps, VoteOps
<1>2. stage[r] = "idle" /\ stage' = [stage EXCEPT ![r] = "checked"]
      /\ call' = [call EXCEPT ![r] = c] /\ UNCHANGED tables
  BY DEF Begin, Goto
<1>3. stage'[r] = "checked" /\ \A q \in Request \ {r} : stage'[q] = stage[q]
  BY <1>2 DEF TypeOK
<1>4. {q \in Request : stage'[q] # "idle"} = {q \in Request : stage[q] # "idle"} \cup {r}
  BY <1>3
<1>5. Poll!MayAsk(c)
  BY DEF Begin, Checks, Poll!MayAsk, Poll!ManageOps, ManageOps
<1>6. Poll!Ask(r, c)
  BY <1>2, <1>4, <1>5 DEF Poll!Ask, Poll!round, tables
<1> QED
  BY <1>1, <1>6

(* Every step is a step of the ballot or leaves it alone.                  *)
LEMMA BallotStep ==
  ASSUME IInv, BooksAreFresh, [Next]_vars
  PROVE  [Poll!Next]_(Poll!vars)
<1> USE DEF At, tables, reads, history
<1>0. TypeOK
  BY DEF IInv
<1>1. CASE UNCHANGED vars
  BY <1>1 DEF vars, Poll!vars, Poll!round
<1>2. ASSUME NEW r \in Request, NEW op \in ManageOps \cup VoteOps, NEW by \in Member,
             NEW o \in Option \cup {None}, Begin(r, op, by, o)
      PROVE  [Poll!Next]_(Poll!vars)
  BY <1>0, <1>2, BeginAsks DEF Poll!Next
<1>3. ASSUME NEW r \in Request,
             \/ RemoveOptionFails(r) \/ AlreadyVoted(r) \/ CastVoteFails(r) \/ Abort(r)
      PROVE  [Poll!Next]_(Poll!vars)
  <2>1. stage[r] # "idle" /\ Done(r) /\ UNCHANGED <<tables, call>>
    BY <1>3 DEF RemoveOptionFails, AlreadyVoted, CastVoteFails, Abort
  <2>2. Poll!HasNoEffect(r)
    BY <1>0, <2>1, DoneEnds DEF Poll!HasNoEffect, Poll!round
  <2> QED
    BY <2>2 DEF Poll!Next
<1>4. ASSUME NEW r \in Request,
             FindVote(r) \/ DeleteOld(r) \/ ListOptions(r) \/ CountVotes(r)
      PROVE  [Poll!Next]_(Poll!vars)
  <2>1. stage[r] # "idle" /\ UNCHANGED <<tables, call>>
        /\ \E s \in Stage \ {"idle"} : Goto(r, s)
    BY <1>4 DEF FindVote, DeleteOld, ListOptions, CountVotes, Stage
  <2> QED
    BY <1>0, <2>1, StillBusy DEF Poll!vars, Poll!round
<1>5. ASSUME NEW r \in Request, CountForRemoval(r) \/ FindVoteToDrop(r)
      PROVE  [Poll!Next]_(Poll!vars)
  <2>1. stage[r] # "idle" /\ UNCHANGED <<tables, call>>
    BY <1>5 DEF CountForRemoval, FindVoteToDrop
  <2>2. (\E s \in Stage \ {"idle"} : Goto(r, s)) \/ Done(r)
    BY <1>5 DEF CountForRemoval, FindVoteToDrop, Stage
  <2>3. CASE \E s \in Stage \ {"idle"} : Goto(r, s)
    BY <1>0, <2>1, <2>3, StillBusy DEF Poll!vars, Poll!round
  <2>4. CASE Done(r)
    <3>1. Poll!HasNoEffect(r)
      BY <1>0, <2>1, <2>4, DoneEnds DEF Poll!HasNoEffect, Poll!round
    <3> QED
      BY <3>1 DEF Poll!Next
  <2> QED
    BY <2>2, <2>3, <2>4
<1>6. ASSUME NEW r \in Request, CreateRound(r)
      PROVE  [Poll!Next]_(Poll!vars)
  <2>1. Poll!Ends(r)
    BY <1>0, <1>6, DoneEnds DEF CreateRound
  <2>2. Poll!Open(r)
    BY <1>6, <2>1 DEF CreateRound, Poll!Open
  <2> QED
    BY <2>2 DEF Poll!Next
<1>7. ASSUME NEW r \in Request, AddOption(r)
      PROVE  [Poll!Next]_(Poll!vars)
  <2>1. Poll!Ends(r)
    BY <1>0, <1>7, DoneEnds DEF AddOption
  <2>2. call[r].on \notin options
    BY <1>7 DEF AddOption, BooksAreFresh
  <2>3. Poll!PutUp(r)
    BY <1>7, <2>1, <2>2 DEF AddOption, Poll!PutUp
  <2> QED
    BY <2>3 DEF Poll!Next
<1>8. ASSUME NEW r \in Request, RemoveOption(r)
      PROVE  [Poll!Next]_(Poll!vars)
  <2>1. Poll!Ends(r)
    BY <1>0, <1>8, DoneEnds DEF RemoveOption
  <2>2. \A m \in Member : vote[m] # call[r].on
    BY <1>8, NoVotesFor DEF RemoveOption
  <2>3. Poll!TakeOff(r)
    BY <1>8, <2>1, <2>2 DEF RemoveOption, Poll!TakeOff
  <2> QED
    BY <2>3 DEF Poll!Next
<1>9. ASSUME NEW r \in Request, CastVote(r)
      PROVE  [Poll!Next]_(Poll!vars)
  <2>1. Poll!Ends(r)
    BY <1>0, <1>9, DoneEnds DEF CastVote
  <2>2. Poll!Cast(r)
    BY <1>9, <2>1 DEF CastVote, MayInsertVote, Poll!Cast
  <2> QED
    BY <2>2 DEF Poll!Next
<1>10. ASSUME NEW r \in Request, DropVote(r)
       PROVE  [Poll!Next]_(Poll!vars)
  <2>1. Poll!Ends(r)
    BY <1>0, <1>10, DoneEnds DEF DropVote
  <2>2. CASE row[r] = "there"
    <3>1. vote[call[r].by] = call[r].on
      BY <1>10, <2>2 DEF DropVote, IInv, RowsAreCurrent
    <3>2. Poll!Withdraw(r)
      BY <1>10, <2>1, <2>2, <3>1 DEF DropVote, Poll!Withdraw
    <3> QED
      BY <3>2 DEF Poll!Next
  <2>3. CASE row[r] # "there"
    <3>1. Poll!HasNoEffect(r)
      BY <1>10, <2>1, <2>3 DEF DropVote, Poll!HasNoEffect, Poll!round
    <3> QED
      BY <3>1 DEF Poll!Next
  <2> QED
    BY <2>2, <2>3
<1>11. ASSUME NEW r \in Request, CloseRound(r)
       PROVE  [Poll!Next]_(Poll!vars)
  <2>1. Poll!Ends(r)
    BY <1>0, <1>11, DoneEnds DEF CloseRound
  <2>2. winner' \in Option \cup {winner}
    <3>1. CASE seen[r] = {}
      BY <1>11, <3>1 DEF CloseRound, Verdict
    <3>2. CASE seen[r] # {}
      <4>1. Verdict(r) \in seen[r] /\ seen[r] \subseteq Option
        BY <1>0, <1>11, <3>2, VerdictLeads DEF CloseRound, IInv, TypeOK
      <4> QED
        BY <1>11, <4>1 DEF CloseRound
    <3> QED
      BY <3>1, <3>2
  <2>3. Poll!Announce(r)
    BY <1>11, <2>1, <2>2 DEF CloseRound, Poll!Announce
  <2> QED
    BY <2>3 DEF Poll!Next
<1> QED
  BY <1>1, <1>2, <1>3, <1>4, <1>5, <1>6, <1>7, <1>8, <1>9, <1>10, <1>11 DEF Next

(* A round of any size behaves as Ballot: no request acts by halves, twice *)
(* or after its answer, in whatever order their statements come            *)
(* (vote_service, unvote_service, remove_option_service and the others).   *)
THEOREM ImplementsBallot == Spec => BallotSpec
<1>1. Init => Poll!Init
  <2>1. ASSUME Init
        PROVE  call \in [Request -> Poll!Call]
    BY <2>1 DEF Init, Poll!Call, Poll!ManageOps
  <2> QED
    BY <2>1 DEF Init, Poll!Init
<1>2. Spec => []BooksAreFresh
  <2>1. IInv /\ BooksAreFresh /\ [Next]_vars => BooksAreFresh'
    BY FreshKept DEF IInv
  <2> QED
    BY <2>1, InitFresh, Invariance, PTL DEF Spec
<1>3. IInv /\ BooksAreFresh /\ [Next]_vars => [Poll!Next]_(Poll!vars)
  BY BallotStep
<1> QED
  BY <1>1, <1>2, <1>3, Invariance, PTL DEF Spec, BallotSpec, Poll!Spec

=============================================================================
