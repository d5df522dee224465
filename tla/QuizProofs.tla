------------------------------ MODULE QuizProofs ------------------------------
(***************************************************************************)
(* Proofs about Quiz, for any players, requests, answers and number of     *)
(* questions, edits, sessions and instants.                                *)
(*                                                                         *)
(* The argument.  Nothing has begun later than now (SessionsBegan), so     *)
(* what a player was shown as the active session began no later than the   *)
(* attempt that follows from it, wherever that attempt is on its way       *)
(* (Entered).  Positions are in step when they are distinct and fill an    *)
(* interval (InStep); a request that was not crossed still knows how many  *)
(* questions there are, or where each one is (Placing).  A page that is    *)
(* not stale holds the first questions, in their order (Shown), and where  *)
(* no two share a position a question stands after as many as have a lower *)
(* one (LedAt): any listing begins with the page the answers were given on.*)
(***************************************************************************)
EXTENDS Quiz, FiniteSetTheorems, WellFoundedInduction, TLAPS

(* What a request in flight can be.                                        *)
CallShape ==
  \A r \in Request :
    /\ call[r].op = "submit" => call[r] \in Submission
    /\ stage[r] = "checked" => call[r].op = "submit"
    /\ call[r].op # "submit" => call[r] \in Edit /\ Len(call[r].list) \in Place

SessionsBegan ==
  /\ Len(sessions) <= MaxSessions
  /\ \A s \in DOMAIN sessions : sessions[s].startedAt <= time

(* A session number held by a client, a request or an attempt.             *)
BeganBy(s, t) == s # 0 => s \in DOMAIN sessions /\ sessions[s].startedAt <= t

Entered ==
  /\ \A u \in Player : BeganBy(game[u], time)
  /\ \A r \in Request : call[r].op = "submit" => BeganBy(call[r].session, call[r].at)
  /\ \A u \in Player : attempt[u] # NoAttempt => BeganBy(attempt[u].session, attempt[u].at)

Position(q) == questions[q].position

InStep ==
  /\ \A p, q \in DOMAIN questions : p # q => Position(p) # Position(q)
  /\ {Position(q) : q \in DOMAIN questions} = 0..(Cardinality(DOMAIN questions) - 1)

Permuted(s) == \A i, j \in DOMAIN s : i # j => s[i] # s[j]

Placing ==
  \A r \in Request :
    stage[r] = "read" =>
      /\ call[r].op = "add" /\ ~crossed[r] => number[r] = NextPosition
      /\ call[r].op = "delete" =>
           \E q \in Question : call[r].list = <<q>> /\ DOMAIN rows[r] \subseteq {q}
      /\ call[r].op \in {"update", "delete", "reorder"} =>
           DOMAIN rows[r] \subseteq ToSet(call[r].list)
      /\ call[r].op = "reorder" /\ ~crossed[r] =>
           /\ DOMAIN rows[r] = ToSet(call[r].list) \cap DOMAIN questions
           /\ \A q \in DOMAIN rows[r] : rows[r][q].position = Position(q)

InStepUnlessUneven == uneven \/ InStep

IInv ==
  /\ TypeOK /\ DOMAIN questions \subseteq 1..added
  /\ CallShape /\ SessionsBegan /\ Entered
  /\ Placing /\ InStepUnlessUneven

-----------------------------------------------------------------------------
(* Sets of questions and lists of them.                                    *)

LEMMA QuestionsAreFinite ==
  ASSUME NEW S \in SUBSET Question
  PROVE  IsFiniteSet(S) /\ Cardinality(S) \in 0..MaxQuestions
<1>1. IsFiniteSet(Question) /\ Cardinality(Question) = MaxQuestions
  BY FS_Interval, BoundAssumption DEF Question
<1>2. IsFiniteSet(S) /\ Cardinality(S) <= MaxQuestions
  BY <1>1, FS_Subset
<1> QED
  BY <1>2, FS_CardinalityType, BoundAssumption

LEMMA ListTyped ==
  ASSUME NEW S \in SUBSET Question, NEW s \in SetToSeqs(S)
  PROVE  /\ s \in Seq(Question) /\ Len(s) = Cardinality(S) /\ Len(s) \in 0..MaxQuestions
         /\ DOMAIN s = 1..Len(s) /\ Permuted(s) /\ ToSet(s) \subseteq S
<1>1. Cardinality(S) \in 0..MaxQuestions
  BY QuestionsAreFinite
<1>2. s \in [1..Cardinality(S) -> S] /\ \A i, j \in 1..Cardinality(S) : i # j => s[i] # s[j]
  BY DEF SetToSeqs
<1>3. s \in Seq(Question) /\ Len(s) = Cardinality(S)
  BY <1>1, <1>2, BoundAssumption
<1> QED
  BY <1>1, <1>2, <1>3, BoundAssumption DEF Permuted, ToSet

LEMMA PermutedCardinality ==
  ASSUME NEW s \in Seq(Question), Permuted(s)
  PROVE  Cardinality(ToSet(s)) = Len(s)
<1>1. s \in Bijection(1..Len(s), ToSet(s))
  BY DEF Permuted, ToSet, Bijection, Injection, Surjection, IsInjective
<1>2. ExistsBijection(1..Len(s), ToSet(s))
  BY <1>1 DEF ExistsBijection
<1>3. 1 \in Int /\ Len(s) \in Int /\ Len(s) >= 0
  OBVIOUS
<1>4. IsFiniteSet(1..Len(s)) /\ Cardinality(1..Len(s)) = IF 1 > Len(s) THEN 0 ELSE Len(s) - 1 + 1
  BY <1>3, FS_Interval
<1>5. Cardinality(1..Len(s)) = Len(s)
  BY <1>3, <1>4
<1> QED
  BY <1>2, <1>4, <1>5, FS_Bijection

LEMMA ListsAll ==
  ASSUME NEW S \in SUBSET Question, NEW s \in SetToSeqs(S)
  PROVE  ToSet(s) = S
<1>1. /\ s \in Seq(Question) /\ Permuted(s) /\ ToSet(s) \subseteq S
      /\ Len(s) = Cardinality(S)
  BY ListTyped
<1>2. Cardinality(ToSet(s)) = Cardinality(S)
  BY <1>1, PermutedCardinality
<1> QED
  BY <1>1, <1>2, QuestionsAreFinite, FS_Subset

LEMMA SmallestNumber ==
  ASSUME NEW T \in SUBSET Nat, T # {}
  PROVE  \E x \in T : \A y \in T : x <= y
<1>1. PICK x \in T : \A y \in T : ~ (<<y, x>> \in OpToRel(<, Nat))
  BY NatLessThanWellFounded, WFMin
<1>2. \A y \in T : ~ (y < x)
  BY <1>1 DEF OpToRel
<1> QED
  BY <1>2

(* The last of the places of an id.                                        *)
LEMMA LastPlace ==
  ASSUME NEW s \in Seq(Question), NEW q \in ToSet(s)
  PROVE  Placed(s, q) \in 0..(Len(s) - 1) /\ s[Placed(s, q) + 1] = q
<1> DEFINE n == Len(s)
           I == {i \in DOMAIN s : s[i] = q}
           T == {n - i : i \in I}
<1>1. n \in Nat /\ DOMAIN s = 1..n /\ I # {} /\ I \subseteq 1..n
  BY DEF ToSet
<1>2. PICK i \in I : \A j \in I : n - i <= n - j
  <2>1. T \in SUBSET Nat /\ T # {}
    BY <1>1
  <2>2. PICK t \in T : \A y \in T : t <= y
    BY <2>1, SmallestNumber
  <2> QED
    BY <2>2
<1>3. i \in I /\ \A j \in I : i >= j
  BY <1>1, <1>2
<1>4. Max(I) \in I
  BY <1>3 DEF Max
<1>5. Placed(s, q) = Max(I) - 1
  BY DEF Placed
<1> HIDE DEF n
<1> QED
  BY <1>1, <1>4, <1>5 DEF n

LEMMA PlacedAt ==
  ASSUME NEW s \in Seq(Question), Permuted(s)
  PROVE  \A i \in DOMAIN s : Placed(s, s[i]) = i - 1
<1> SUFFICES ASSUME NEW i \in DOMAIN s
             PROVE  Placed(s, s[i]) = i - 1
  OBVIOUS
<1>1. DOMAIN s = 1..Len(s) /\ Len(s) \in Nat /\ s[i] \in ToSet(s)
  BY DEF ToSet
<1>2. s[Placed(s, s[i]) + 1] = s[i] /\ Placed(s, s[i]) \in 0..(Len(s) - 1)
  BY <1>1, LastPlace
<1> QED
  BY <1>1, <1>2 DEF Permuted

-----------------------------------------------------------------------------
(* What the helpers do to the types.                                       *)

LEMMA RowsTyped ==
  ASSUME NEW f \in RowsOver(Question)
  PROVE  /\ DOMAIN f \in SUBSET Question
         /\ f \in [DOMAIN f -> Row]
         /\ \A q \in DOMAIN f : f[q] \in Row
BY DEF RowsOver

LEMMA RowsAre ==
  ASSUME NEW S \in SUBSET Question, NEW f \in [S -> Row]
  PROVE  f \in RowsOver(Question)
BY DEF RowsOver

LEMMA WantedTyped ==
  ASSUME TypeOK, CallShape, Placing, NEW r \in Request,
         stage[r] = "read", call[r].op \in {"update", "reorder"}
  PROVE  Wanted(r) \in [DOMAIN rows[r] -> Row]
<1>1. DOMAIN rows[r] \in SUBSET Question /\ \A q \in DOMAIN rows[r] : rows[r][q] \in Row
  BY RowsTyped DEF TypeOK
<1>2. ASSUME NEW q \in DOMAIN rows[r], call[r].op = "update"
      PROVE  [rows[r][q] EXCEPT !.correct = 1 - Key[q]] \in Row
  <2>1. Key[q] \in {0, 1}
    BY <1>1, AnswersAssumption DEF Answer
  <2> QED
    BY <1>1, <2>1 DEF Row, Answer
<1>3. ASSUME NEW q \in DOMAIN rows[r], call[r].op = "reorder"
      PROVE  [rows[r][q] EXCEPT !.position = Placed(call[r].list, q)] \in Row
  <2>1. /\ call[r].list \in Seq(Question) /\ Len(call[r].list) \in Place
        /\ q \in ToSet(call[r].list)
    BY <1>3 DEF CallShape, Edit, Placing
  <2>2. Placed(call[r].list, q) \in 0..(Len(call[r].list) - 1)
    BY <2>1, LastPlace
  <2>3. Placed(call[r].list, q) \in Place
    BY <2>1, <2>2, BoundAssumption DEF Place
  <2> QED
    BY <1>1, <2>3 DEF Row
<1> QED
  BY <1>2, <1>3 DEF Wanted

LEMMA WriteTyped ==
  ASSUME TypeOK, NEW r \in Request, NEW new \in [DOMAIN rows[r] -> Row]
  PROVE  Write(r, new) \in [DOMAIN questions -> Row]
<1>1. \A q \in DOMAIN questions : questions[q] \in Row
  BY RowsTyped DEF TypeOK
<1>2. ASSUME NEW q \in DOMAIN questions, q \in Changes(r, new)
      PROVE  [position |-> Merged(rows[r][q].position, new[q].position, questions[q].position),
              correct |-> Merged(rows[r][q].correct, new[q].correct, questions[q].correct)] \in Row
  <2>1. new[q] \in Row /\ questions[q] \in Row
    BY <1>1, <1>2 DEF Changes
  <2> QED
    BY <2>1 DEF Row, Merged
<1> QED
  BY <1>1, <1>2 DEF Write

LEMMA SessionDates ==
  ASSUME TypeOK
  PROVE  \A s \in DOMAIN sessions : sessions[s] \in Session /\ sessions[s].startedAt \in Nat
<1> SUFFICES ASSUME NEW s \in DOMAIN sessions
             PROVE  sessions[s] \in Session /\ sessions[s].startedAt \in Nat
  OBVIOUS
<1>1. sessions[s] \in Session
  BY DEF TypeOK
<1>2. sessions[s].startedAt \in 0..MaxTime
  BY <1>1 DEF Session
<1> QED
  BY <1>1, <1>2, BoundAssumption

LEMMA ActiveSessionTyped ==
  ASSUME TypeOK
  PROVE  ActiveSession = 0 \/ ActiveSession \in DOMAIN sessions
BY DEF ActiveSession

-----------------------------------------------------------------------------
(* Types: one lemma per group of actions.                                  *)

Typed == TypeOK /\ DOMAIN questions \subseteq 1..added

(* A request reads its questions.                                          *)
LEMMA ReadsTyped ==
  ASSUME IInv, NEW r \in Request, NEW c \in Edit, NEW rs \in RowsOver(Question),
         NEW n \in 0..MaxQuestions, Reads(r, c, rs, n)
  PROVE  Typed'
<1>1. edits' \in 0..MaxEdits
  BY BoundAssumption DEF IInv, TypeOK, Reads, Free
<1> QED
  BY <1>1 DEF IInv, TypeOK, Typed, Reads, Goto, quiz, client, history

LEMMA CountReads ==
  ASSUME IInv, NEW r \in Request, CountQuestions(r)
  PROVE  /\ NoCall \in Edit /\ NoRows \in RowsOver(Question) /\ NextPosition \in 0..MaxQuestions
         /\ Reads(r, NoCall, NoRows, NextPosition)
<1>1. NextPosition \in 0..MaxQuestions
  BY QuestionsAreFinite, RowsTyped DEF IInv, TypeOK, NextPosition
<1>2. NoRows \in [{} -> Row]
  BY DEF NoRows
<1>3. NoRows \in RowsOver(Question)
  BY <1>2, RowsAre
<1> QED
  BY <1>1, <1>3 DEF CountQuestions, NoCall, Edit

Found(list) == [q \in ToSet(list) \cap DOMAIN questions |-> questions[q]]

LEMMA FindReads ==
  ASSUME IInv, NEW r \in Request, NEW op \in {"update", "delete", "reorder"},
         NEW list \in Seq(Question), FindQuestions(r, op, list)
  PROVE  /\ [op |-> op, list |-> list] \in Edit /\ Found(list) \in RowsOver(Question)
         /\ 0 \in 0..MaxQuestions
         /\ Reads(r, [op |-> op, list |-> list], Found(list), 0)
<1>1. /\ ToSet(list) \cap DOMAIN questions \in SUBSET Question
      /\ \A q \in ToSet(list) \cap DOMAIN questions : questions[q] \in Row
  BY RowsTyped DEF IInv, TypeOK
<1>2. Found(list) \in [ToSet(list) \cap DOMAIN questions -> Row]
  BY <1>1 DEF Found
<1>3. Found(list) \in RowsOver(Question)
  BY <1>1, <1>2, RowsAre
<1> QED
  BY <1>3, BoundAssumption DEF FindQuestions, Edit, Found

(* What FindQuestions is asked for, of the three operations that use it.   *)
Asked(r, op, list) ==
  /\ list \in Seq(Question) /\ Len(list) \in Place
  /\ op = "delete" => \E q \in Question : list = <<q>>
  /\ FindQuestions(r, op, list)

LEMMA Asking ==
  ASSUME IInv, NEW r \in Request,
         \/ \E q \in Question : FindQuestions(r, "delete", <<q>>) \/ FindQuestions(r, "update", <<q>>)
         \/ FindOrder(r)
  PROVE  \E op \in {"update", "delete", "reorder"}, list \in Seq(Question) : Asked(r, op, list)
<1>1. CASE \E q \in Question : FindQuestions(r, "delete", <<q>>) \/ FindQuestions(r, "update", <<q>>)
  <2>1. PICK q \in Question : FindQuestions(r, "delete", <<q>>) \/ FindQuestions(r, "update", <<q>>)
    BY <1>1
  <2>2. <<q>> \in Seq(Question) /\ Len(<<q>>) \in Place
    BY <2>1, BoundAssumption DEF Question, Place
  <2> QED
    BY <2>1, <2>2 DEF Asked
<1>2. CASE FindOrder(r)
  <2>1. PICK n \in 1..MaxOrder : \E s \in [1..n -> 1..added] : FindQuestions(r, "reorder", s)
    BY <1>2 DEF FindOrder
  <2>2. PICK s \in [1..n -> 1..added] : FindQuestions(r, "reorder", s)
    BY <2>1
  <2>3. s \in [1..n -> Question] /\ n \in Nat
    BY <2>1, BoundAssumption DEF IInv, TypeOK, Question
  <2>4. s \in Seq(Question) /\ Len(s) = n
    BY <2>3
  <2>5. Len(s) \in Place
    BY <2>1, <2>4, BoundAssumption DEF Place
  <2> QED
    BY <2>2, <2>4, <2>5 DEF Asked
<1> QED
  BY <1>1, <1>2

LEMMA AskedReads ==
  ASSUME IInv, NEW r \in Request, NEW op \in {"update", "delete", "reorder"},
         NEW list \in Seq(Question), Asked(r, op, list)
  PROVE  /\ [op |-> op, list |-> list] \in Edit /\ Found(list) \in RowsOver(Question)
         /\ 0 \in 0..MaxQuestions
         /\ Reads(r, [op |-> op, list |-> list], Found(list), 0)
BY FindReads DEF Asked

(* A request ends.                                                         *)
LEMMA EndTyped ==
  ASSUME IInv, NEW r \in Request, End(r)
  PROVE  /\ edits' \in 0..MaxEdits
         /\ call' \in [Request -> Edit \cup Submission]
         /\ stage' \in [Request -> {"idle", "checked", "read"}]
         /\ rows' \in [Request -> RowsOver(Question)]
         /\ number' \in [Request -> 0..MaxQuestions]
<1>1. NoRows \in [{} -> Row]
  BY DEF NoRows
<1>2. NoRows \in RowsOver(Question)
  BY <1>1, RowsAre
<1>3. NoCall \in Edit /\ 0 \in 0..MaxQuestions
  BY BoundAssumption DEF NoCall, Edit
<1> QED
  BY <1>2, <1>3 DEF IInv, TypeOK, End, Goto

(* What it has done to the questions may be anything of their type.        *)
LEMMA CommitTyped ==
  ASSUME IInv, NEW r \in Request, End(r), Edited(r),
         uneven' \in BOOLEAN, questions' \in RowsOver(Question), added' \in 0..MaxQuestions,
         DOMAIN questions' \subseteq 1..added',
         UNCHANGED <<isActive, sessions, attempt, time, client>>
  PROVE  Typed'
<1>1. crossed' \in [Request -> BOOLEAN]
  BY DEF Edited, IInv, TypeOK
<1>2. stale' \in [Player -> BOOLEAN]
  BY DEF Edited
<1> QED
  BY <1>1, <1>2, EndTyped DEF IInv, TypeOK, Typed, client

LEMMA FailTyped ==
  ASSUME IInv, NEW r \in Request, End(r), NotEdited(r),
         attempt' \in [Player -> {NoAttempt} \cup Attempt],
         UNCHANGED <<questions, added, isActive, sessions, time, client, uneven>>
  PROVE  Typed'
<1>1. crossed' \in [Request -> BOOLEAN]
  BY DEF NotEdited, IInv, TypeOK
<1> QED
  BY <1>1, EndTyped DEF IInv, TypeOK, Typed, NotEdited, client

LEMMA QuestionsTyped ==
  ASSUME IInv
  PROVE  DOMAIN questions \in SUBSET Question /\ \A q \in DOMAIN questions : questions[q] \in Row
BY RowsTyped DEF IInv, TypeOK

LEMMA AddTyped ==
  ASSUME IInv, NEW r \in Request, AddQuestion(r)
  PROVE  Typed'
<1>1. added' \in 0..MaxQuestions /\ added + 1 \in Question
  BY BoundAssumption DEF IInv, TypeOK, AddQuestion, Question
<1>2. [position |-> number[r], correct |-> Key[added + 1]] \in Row
  <2>1. number[r] \in Place
    BY BoundAssumption DEF IInv, TypeOK, Place
  <2> QED
    BY <1>1, <2>1, AnswersAssumption DEF Row
<1>3. /\ questions' \in [DOMAIN questions \cup {added + 1} -> Row]
      /\ DOMAIN questions \cup {added + 1} \in SUBSET Question
  BY <1>1, <1>2, QuestionsTyped DEF AddQuestion, Exists
<1>4. questions' \in RowsOver(Question)
  BY <1>3, RowsAre
<1>5. DOMAIN questions' \subseteq 1..added'
  BY <1>1, <1>3 DEF IInv, TypeOK, AddQuestion
<1>6. uneven' \in BOOLEAN
  BY DEF IInv, TypeOK, AddQuestion
<1> QED
  BY <1>1, <1>4, <1>5, <1>6, CommitTyped DEF AddQuestion

LEMMA WriteCommits ==
  ASSUME IInv, NEW r \in Request, UpdateQuestion(r) \/ ReorderQuestions(r)
  PROVE  /\ questions' \in [DOMAIN questions -> Row]
         /\ questions' = Write(r, Wanted(r))
         /\ DOMAIN questions' = DOMAIN questions
<1>1. Wanted(r) \in [DOMAIN rows[r] -> Row]
  BY WantedTyped DEF IInv, UpdateQuestion, ReorderQuestions, At
<1>2. Write(r, Wanted(r)) \in [DOMAIN questions -> Row]
  BY <1>1, WriteTyped DEF IInv
<1> QED
  BY <1>2 DEF UpdateQuestion, ReorderQuestions

LEMMA WriteIsTyped ==
  ASSUME IInv, NEW r \in Request, UpdateQuestion(r) \/ ReorderQuestions(r)
  PROVE  Typed'
<1>1. questions' \in RowsOver(Question)
  BY WriteCommits, RowsAre, QuestionsTyped
<1>2. DOMAIN questions' \subseteq 1..added' /\ added' \in 0..MaxQuestions
  BY WriteCommits DEF IInv, TypeOK, UpdateQuestion, ReorderQuestions
<1>3. uneven' \in BOOLEAN
  BY DEF IInv, TypeOK, UpdateQuestion, ReorderQuestions
<1> QED
  BY <1>1, <1>2, <1>3, CommitTyped DEF UpdateQuestion, ReorderQuestions

LEMMA DeleteTyped ==
  ASSUME IInv, NEW r \in Request, DeleteQuestion(r)
  PROVE  Typed'
<1> DEFINE left == DOMAIN questions \ (DOMAIN rows[r] \cap DOMAIN questions)
<1>1. questions' = [q \in left |-> questions[q]]
  BY DEF DeleteQuestion
<1>2. left \in SUBSET Question /\ questions' \in [left -> Row]
  BY <1>1, QuestionsTyped
<1>3. questions' \in RowsOver(Question) /\ DOMAIN questions' \subseteq DOMAIN questions
  BY <1>2, RowsAre
<1>4. DOMAIN questions' \subseteq 1..added' /\ added' \in 0..MaxQuestions
  BY <1>3 DEF IInv, TypeOK, DeleteQuestion
<1>5. uneven' \in BOOLEAN
  BY DEF IInv, TypeOK, DeleteQuestion
<1> QED
  BY <1>3, <1>4, <1>5, CommitTyped DEF DeleteQuestion

LEMMA ShowTyped ==
  ASSUME IInv, NEW u \in Player, Show(u)
  PROVE  Typed'
<1>1. PICK s \in Listings : page' = [page EXCEPT ![u] = s]
  BY DEF Show
<1>2. s \in Seq(Question)
  BY <1>1, ListTyped, QuestionsTyped DEF Listings
<1>3. ActiveSession \in 0..MaxSessions
  BY ActiveSessionTyped, BoundAssumption DEF IInv, TypeOK, SessionsBegan
<1> QED
  BY <1>1, <1>2, <1>3 DEF Show, IInv, TypeOK, Typed, quiz, requests

LEMMA AskTyped ==
  ASSUME IInv, NEW r \in Request, NEW u \in Player, AskSubmit(r, u)
  PROVE  /\ Typed'
         /\ call'[r] = [op |-> "submit", list |-> page[u], by |-> u, at |-> time, session |-> game[u]]
         /\ call'[r] \in Submission
         /\ Len(page[u]) \in Nat
<1>1. [op |-> "submit", list |-> page[u], by |-> u, at |-> time, session |-> game[u]] \in Submission
  BY DEF IInv, TypeOK, Submission
<1>2. call'[r] = [op |-> "submit", list |-> page[u], by |-> u, at |-> time, session |-> game[u]]
  BY DEF AskSubmit, IInv, TypeOK
<1>3. Typed'
  BY <1>1 DEF AskSubmit, IInv, TypeOK, Typed, Goto, quiz, client
<1> QED
  BY <1>1, <1>2, <1>3 DEF IInv, TypeOK

LEMMA MarkTyped ==
  ASSUME IInv, NEW r \in Request, MarkAnswers(r)
  PROVE  Typed' /\ call'[r] = [call[r] EXCEPT !.list = <<>>] /\ call'[r] \in Submission
<1>1. PICK s \in Listings :
        number' = [number EXCEPT ![r] = Marks(AnswersTo(call[r].by, call[r].list), s)]
  BY DEF MarkAnswers
<1>2. DOMAIN s = 1..Len(s) /\ Len(s) \in 0..MaxQuestions
  BY ListTyped, QuestionsTyped DEF Listings
<1>3. IsFiniteSet(DOMAIN s) /\ Cardinality(DOMAIN s) <= MaxQuestions
  <2>1. 1 \in Int /\ Len(s) \in Int /\ Len(s) >= 0 /\ Len(s) <= MaxQuestions
    BY <1>2
  <2>2. IsFiniteSet(1..Len(s)) /\ Cardinality(1..Len(s)) = IF 1 > Len(s) THEN 0 ELSE Len(s) - 1 + 1
    BY <2>1, FS_Interval
  <2> QED
    BY <1>2, <2>1, <2>2, BoundAssumption
<1>4. \A T \in SUBSET DOMAIN s : Cardinality(T) \in 0..MaxQuestions
  BY <1>3, FS_Subset, FS_CardinalityType, BoundAssumption
<1>5. Marks(AnswersTo(call[r].by, call[r].list), s) \in 0..MaxQuestions
  BY <1>4 DEF Marks
<1>6. call[r] \in Submission
  BY DEF IInv, CallShape, MarkAnswers, At
<1>7. [call[r] EXCEPT !.list = <<>>] \in Submission
  <2>1. <<>> \in Seq(Question)
    OBVIOUS
  <2> QED
    BY <1>6, <2>1 DEF Submission
<1>8. call' = [call EXCEPT ![r] = [call[r] EXCEPT !.list = <<>>]]
  BY DEF MarkAnswers
<1>9. Typed'
  BY <1>1, <1>5, <1>7, <1>8 DEF MarkAnswers, NotEdited, Goto, IInv, TypeOK, Typed, quiz, client
<1> QED
  BY <1>7, <1>8, <1>9 DEF IInv, TypeOK

LEMMA SubmitTyped ==
  ASSUME IInv, NEW r \in Request, SubmitAttempt(r)
  PROVE  /\ Typed'
         /\ call[r] \in Submission
         /\ attempt' = [attempt EXCEPT ![call[r].by] =
              [score |-> number[r], at |-> call[r].at, session |-> call[r].session]]
<1>1. call[r] \in Submission
  BY DEF IInv, CallShape, SubmitAttempt, At
<1>2. attempt' = [attempt EXCEPT ![call[r].by] =
              [score |-> number[r], at |-> call[r].at, session |-> call[r].session]]
  BY DEF SubmitAttempt
<1>3. [score |-> number[r], at |-> call[r].at, session |-> call[r].session] \in Attempt
  BY <1>1 DEF IInv, TypeOK, Attempt, Submission
<1>4. attempt' \in [Player -> {NoAttempt} \cup Attempt]
  BY <1>2, <1>3 DEF IInv, TypeOK
<1> QED
  BY <1>1, <1>2, <1>4, FailTyped DEF SubmitAttempt

LEMMA OthersTyped ==
  ASSUME IInv,
         \/ \E r \in Request : ChangeFails(r) \/ SubmitFails(r)
         \/ \E v \in BOOLEAN : SetActive(v)
         \/ \E t \in 0..MaxTime : CreateSession(t)
         \/ \E s \in 1..MaxSessions : CloseSession(s)
         \/ Tick
  PROVE  Typed'
<1>1. CASE \E r \in Request : ChangeFails(r) \/ SubmitFails(r)
  BY <1>1, FailTyped DEF ChangeFails, SubmitFails, quiz, IInv, TypeOK
<1>2. CASE \E v \in BOOLEAN : SetActive(v)
  BY <1>2 DEF SetActive, IInv, TypeOK, Typed, client, requests, history
<1>3. CASE \E t \in 0..MaxTime : CreateSession(t)
  <2>1. PICK t \in 0..MaxTime : CreateSession(t)
    BY <1>3
  <2>2. [startedAt |-> t, open |-> TRUE] \in Session
    BY <2>1 DEF Session
  <2> QED
    BY <2>1, <2>2 DEF CreateSession, IInv, TypeOK, Typed, client, requests, history
<1>4. CASE \E s \in 1..MaxSessions : CloseSession(s)
  <2>1. PICK s \in 1..MaxSessions : CloseSession(s)
    BY <1>4
  <2>2. sessions' \in Seq(Session)
    <3>1. s \in DOMAIN sessions /\ sessions \in Seq(Session)
      BY <2>1 DEF CloseSession, IInv, TypeOK
    <3>2. sessions[s] \in Session
      BY <3>1
    <3>3. [sessions[s] EXCEPT !.open = FALSE] \in Session
      BY <3>2 DEF Session
    <3>4. sessions' = [sessions EXCEPT ![s] = [sessions[s] EXCEPT !.open = FALSE]]
      BY <2>1 DEF CloseSession
    <3> QED
      BY <3>1, <3>3, <3>4
  <2> QED
    BY <2>1, <2>2 DEF CloseSession, IInv, TypeOK, Typed, client, requests, history
<1>5. CASE Tick
  BY <1>5, BoundAssumption DEF Tick, IInv, TypeOK, Typed, quiz, client, requests, history
<1> QED
  BY <1>1, <1>2, <1>3, <1>4, <1>5

-----------------------------------------------------------------------------
(* Requests.  One that only reads, or ends, leaves the others as they are. *)

LEMMA NoCallIsEdit == NoCall \in Edit /\ NoCall.op = "add" /\ Len(NoCall.list) = 0
BY DEF NoCall, Edit

LEMMA PlacingOfReads ==
  ASSUME IInv, NEW r \in Request, NEW c \in Edit, NEW rs, NEW n, Reads(r, c, rs, n),
         Len(c.list) \in Place,
         c.op = "add" => n = NextPosition,
         c.op # "add" => rs = Found(c.list),
         c.op = "delete" => \E q \in Question : c.list = <<q>>
  PROVE  CallShape' /\ Placing'
<1>1. /\ call' = [call EXCEPT ![r] = c] /\ stage' = [stage EXCEPT ![r] = "read"]
      /\ rows' = [rows EXCEPT ![r] = rs] /\ number' = [number EXCEPT ![r] = n]
      /\ questions' = questions /\ crossed' = crossed
  BY DEF Reads, Goto, quiz, history
<1>2. /\ call'[r] = c /\ stage'[r] = "read" /\ rows'[r] = rs /\ number'[r] = n
      /\ \A p \in Request \ {r} :
           /\ call'[p] = call[p] /\ stage'[p] = stage[p]
           /\ rows'[p] = rows[p] /\ number'[p] = number[p]
  BY <1>1 DEF IInv, TypeOK
<1>3. NextPosition' = NextPosition /\ \A q \in DOMAIN questions : Position(q)' = Position(q)
  BY <1>1 DEF NextPosition, Position
<1>4. c.op \in {"add", "update", "delete", "reorder"}
  BY DEF Edit
<1>5. CallShape'
  BY <1>2, <1>4 DEF IInv, CallShape
<1>6. /\ DOMAIN Found(c.list) = ToSet(c.list) \cap DOMAIN questions
      /\ \A q \in DOMAIN Found(c.list) : Found(c.list)[q].position = Position(q)
  BY DEF Found, Position
<1>7. c.op = "delete" => \E q \in Question : c.list = <<q>> /\ DOMAIN Found(c.list) \subseteq {q}
  <2>1. \A q : ToSet(<<q>>) = {q}
    BY DEF ToSet
  <2> QED
    BY <1>6, <2>1
<1>8. Placing'
  <2> SUFFICES ASSUME NEW p \in Request, stage'[p] = "read"
               PROVE  /\ call'[p].op = "add" /\ ~crossed'[p] => number'[p] = NextPosition'
                      /\ call'[p].op = "delete" =>
                           \E q \in Question : call'[p].list = <<q>> /\ DOMAIN rows'[p] \subseteq {q}
                      /\ call'[p].op \in {"update", "delete", "reorder"} =>
                           DOMAIN rows'[p] \subseteq ToSet(call'[p].list)
                      /\ call'[p].op = "reorder" /\ ~crossed'[p] =>
                           /\ DOMAIN rows'[p] = ToSet(call'[p].list) \cap DOMAIN questions'
                           /\ \A q \in DOMAIN rows'[p] : rows'[p][q].position = Position(q)'
    BY DEF Placing
  <2>1. CASE p = r
    BY <1>1, <1>2, <1>3, <1>4, <1>6, <1>7, <2>1
  <2>2. CASE p # r
    <3>1. /\ call'[p] = call[p] /\ stage[p] = "read" /\ rows'[p] = rows[p] /\ number'[p] = number[p]
      BY <1>2, <2>2
    <3> QED
      BY <1>1, <1>3, <3>1 DEF IInv, Placing, Position
  <2> QED
    BY <2>1, <2>2
<1> QED
  BY <1>5, <1>8

LEMMA NothingMoved ==
  ASSUME ~Moves
  PROVE  DOMAIN questions' = DOMAIN questions /\ \A q \in DOMAIN questions : Position(q)' = Position(q)
BY DEF Moves, Shifts, Position

LEMMA PlacingOfEnd ==
  ASSUME IInv, NEW r \in Request, End(r),
         Edited(r) \/ (NotEdited(r) /\ questions' = questions)
  PROVE  CallShape' /\ Placing'
<1>1. /\ call'[r] = NoCall /\ stage'[r] = "idle"
      /\ \A p \in Request \ {r} :
           /\ call'[p] = call[p] /\ stage'[p] = stage[p]
           /\ rows'[p] = rows[p] /\ number'[p] = number[p]
  BY DEF IInv, TypeOK, End, Goto
<1>2. CallShape'
  BY <1>1, NoCallIsEdit, BoundAssumption DEF IInv, CallShape, Place
<1>3. \A p \in Request \ {r} : crossed[p] => crossed'[p]
  BY DEF Edited, NotEdited, IInv, TypeOK
<1>4. CASE Edited(r) /\ Moves
  <2>1. \A p \in Request \ {r} :
          stage'[p] = "read" /\ call'[p].op # "submit" => crossed'[p]
    BY <1>1, <1>4 DEF Edited
  <2> QED
    BY <1>1, <1>2, <2>1 DEF IInv, Placing
<1>5. CASE ~(Edited(r) /\ Moves)
  <2>0. DOMAIN questions' = DOMAIN questions /\ \A q \in DOMAIN questions : Position(q)' = Position(q)
    BY <1>5, NothingMoved DEF Position
  <2>1. NextPosition' = NextPosition
    BY <2>0 DEF NextPosition
  <2> SUFFICES ASSUME NEW p \in Request, stage'[p] = "read"
               PROVE  /\ call'[p].op = "add" /\ ~crossed'[p] => number'[p] = NextPosition'
                      /\ call'[p].op = "delete" =>
                           \E q \in Question : call'[p].list = <<q>> /\ DOMAIN rows'[p] \subseteq {q}
                      /\ call'[p].op \in {"update", "delete", "reorder"} =>
                           DOMAIN rows'[p] \subseteq ToSet(call'[p].list)
                      /\ call'[p].op = "reorder" /\ ~crossed'[p] =>
                           /\ DOMAIN rows'[p] = ToSet(call'[p].list) \cap DOMAIN questions'
                           /\ \A q \in DOMAIN rows'[p] : rows'[p][q].position = Position(q)'
    BY <1>2 DEF Placing
  <2>2. p # r
    BY <1>1
  <2>3. /\ call'[p] = call[p] /\ stage[p] = "read" /\ rows'[p] = rows[p] /\ number'[p] = number[p]
        /\ crossed[p] => crossed'[p]
    BY <1>1, <1>3, <2>2
  <2> QED
    BY <2>0, <2>1, <2>3 DEF IInv, Placing
<1> QED
  BY <1>4, <1>5

LEMMA PositionsOfUpdate ==
  ASSUME IInv, NEW r \in Request, UpdateQuestion(r)
  PROVE  /\ DOMAIN questions' = DOMAIN questions
         /\ \A q \in DOMAIN questions : Position(q)' = Position(q)
<1>1. questions' = Write(r, Wanted(r)) /\ DOMAIN questions' = DOMAIN questions
  BY WriteCommits
<1>2. \A q \in DOMAIN rows[r] : rows[r][q] \in Row
  BY RowsTyped DEF IInv, TypeOK
<1>3. \A q \in DOMAIN rows[r] : Wanted(r)[q].position = rows[r][q].position
  BY <1>2 DEF Wanted, UpdateQuestion, At, Row
<1>4. DOMAIN Wanted(r) = DOMAIN rows[r]
  BY DEF Wanted
<1>5. \A q \in DOMAIN questions : Write(r, Wanted(r))[q].position = questions[q].position
  BY <1>3, <1>4 DEF Write, Merged, Changes
<1> QED
  BY <1>1, <1>5 DEF Position

-----------------------------------------------------------------------------
(* Sessions and those who entered them.                                    *)

(* Who entered, in a step that leaves the sessions and the clock alone.    *)
LEMMA StillBegan ==
  ASSUME IInv, sessions' = sessions, time' = time
  PROVE  SessionsBegan' /\ \A s, t : BeganBy(s, t)' <=> BeganBy(s, t)
BY DEF IInv, SessionsBegan, BeganBy

LEMMA SessionsOfEnd ==
  ASSUME IInv, NEW r \in Request, End(r),
         UNCHANGED <<sessions, attempt, time, client>>
  PROVE  SessionsBegan' /\ Entered'
<1>1. /\ call'[r] = NoCall
      /\ \A p \in Request \ {r} : call'[p] = call[p]
      /\ game' = game
  BY DEF IInv, TypeOK, End, client
<1> QED
  BY <1>1, NoCallIsEdit DEF IInv, SessionsBegan, Entered, BeganBy

LEMMA SessionsOfReads ==
  ASSUME IInv, NEW r \in Request, NEW c \in Edit, NEW rs, NEW n, Reads(r, c, rs, n)
  PROVE  SessionsBegan' /\ Entered'
<1>1. /\ call'[r] = c /\ c.op # "submit"
      /\ \A p \in Request \ {r} : call'[p] = call[p]
      /\ sessions' = sessions /\ attempt' = attempt /\ time' = time /\ game' = game
  BY DEF IInv, TypeOK, Reads, quiz, client, Edit
<1> QED
  BY <1>1 DEF IInv, SessionsBegan, Entered, BeganBy

LEMMA SessionsOfShow ==
  ASSUME IInv, NEW u \in Player, Show(u)
  PROVE  SessionsBegan' /\ Entered'
<1>1. /\ game' = [game EXCEPT ![u] = ActiveSession]
      /\ sessions' = sessions /\ attempt' = attempt /\ time' = time /\ call' = call
  BY DEF Show, quiz, requests
<1>2. BeganBy(ActiveSession, time)
  BY ActiveSessionTyped DEF IInv, SessionsBegan, BeganBy
<1> QED
  BY <1>1, <1>2 DEF IInv, TypeOK, SessionsBegan, Entered, BeganBy

LEMMA SessionsOfAsk ==
  ASSUME IInv, NEW r \in Request, NEW u \in Player, AskSubmit(r, u)
  PROVE  SessionsBegan' /\ Entered'
<1>1. /\ \A p \in Request \ {r} : call'[p] = call[p]
      /\ call'[r].at = time /\ call'[r].session = game[u]
      /\ sessions' = sessions /\ attempt' = attempt /\ time' = time /\ game' = game
  BY AskTyped DEF IInv, TypeOK, AskSubmit, quiz, client
<1> QED
  BY <1>1 DEF IInv, SessionsBegan, Entered, BeganBy

LEMMA SessionsOfMark ==
  ASSUME IInv, NEW r \in Request, MarkAnswers(r)
  PROVE  SessionsBegan' /\ Entered'
<1>1. call[r] \in Submission /\ call'[r] = [call[r] EXCEPT !.list = <<>>]
  BY MarkTyped DEF IInv, CallShape, MarkAnswers, At
<1>2. call'[r].at = call[r].at /\ call'[r].session = call[r].session /\ call'[r].op = call[r].op
  BY <1>1 DEF Submission
<1>3. /\ \A p \in Request \ {r} : call'[p] = call[p]
      /\ sessions' = sessions /\ attempt' = attempt /\ time' = time /\ game' = game
  BY DEF IInv, TypeOK, MarkAnswers, quiz, client
<1> QED
  BY <1>2, <1>3 DEF IInv, SessionsBegan, Entered, BeganBy

LEMMA SessionsOfSubmit ==
  ASSUME IInv, NEW r \in Request, SubmitAttempt(r)
  PROVE  SessionsBegan' /\ Entered'
<1> DEFINE u == call[r].by
           a == [score |-> number[r], at |-> call[r].at, session |-> call[r].session]
<1>1. /\ call'[r] = NoCall
      /\ \A p \in Request \ {r} : call'[p] = call[p]
      /\ sessions' = sessions /\ time' = time /\ game' = game
  BY DEF IInv, TypeOK, SubmitAttempt, End, client
<1>2. /\ \A p \in Player \ {u} : attempt'[p] = attempt[p]
      /\ u \in Player /\ attempt'[u] = a
  BY SubmitTyped DEF IInv, TypeOK, Submission
<1>3. BeganBy(call[r].session, call[r].at)
  BY DEF SubmitAttempt, At, IInv, Entered
<1>4. a.at = call[r].at /\ a.session = call[r].session
  OBVIOUS
<1> HIDE DEF u, a
<1> QED
  BY <1>1, <1>2, <1>3, <1>4, NoCallIsEdit DEF IInv, SessionsBegan, Entered, BeganBy

LEMMA SessionsOfOthers ==
  ASSUME IInv,
         \/ \E v \in BOOLEAN : SetActive(v)
         \/ \E t \in 0..MaxTime : CreateSession(t)
         \/ \E s \in 1..MaxSessions : CloseSession(s)
         \/ Tick
  PROVE  SessionsBegan' /\ Entered'
<1>1. UNCHANGED <<attempt, game, call>>
  BY DEF SetActive, CreateSession, CloseSession, Tick, quiz, client, requests
<1>2. sessions \in Seq(Session) /\ time \in Nat
  BY DEF IInv, TypeOK
<1>3. /\ Len(sessions') <= MaxSessions
      /\ \A s \in DOMAIN sessions : s \in DOMAIN sessions' /\ sessions'[s].startedAt = sessions[s].startedAt
      /\ \A s \in DOMAIN sessions' : sessions'[s].startedAt <= time'
      /\ time <= time' /\ time' \in Nat
  <2>1. CASE \E v \in BOOLEAN : SetActive(v)
    BY <1>2, <2>1 DEF SetActive, IInv, SessionsBegan
  <2>2. CASE \E t \in 0..MaxTime : CreateSession(t)
    <3>1. PICK t \in 0..MaxTime : CreateSession(t)
      BY <2>2
    <3>2. sessions' = Append(sessions, [startedAt |-> t, open |-> TRUE]) /\ t <= time /\ time' = time
          /\ Len(sessions) < MaxSessions
      BY <3>1 DEF CreateSession
    <3> QED
      BY <1>2, <3>1, <3>2, BoundAssumption DEF IInv, SessionsBegan
  <2>3. CASE \E s \in 1..MaxSessions : CloseSession(s)
    <3>1. PICK s \in 1..MaxSessions : CloseSession(s)
      BY <2>3
    <3>2. /\ s \in DOMAIN sessions /\ time' = time
          /\ sessions' = [sessions EXCEPT ![s] = [sessions[s] EXCEPT !.open = FALSE]]
      BY <3>1 DEF CloseSession
    <3>3. sessions[s] \in Session
      BY <1>2, <3>2
    <3>4. [sessions[s] EXCEPT !.open = FALSE].startedAt = sessions[s].startedAt
      BY <3>3 DEF Session
    <3>5. Len(sessions') = Len(sessions) /\ DOMAIN sessions' = DOMAIN sessions
      BY <1>2, <3>2
    <3> QED
      BY <1>2, <3>2, <3>4, <3>5 DEF IInv, SessionsBegan
  <2>4. CASE Tick
    <3>1. sessions' = sessions /\ time' = time + 1
      BY <2>4 DEF Tick, quiz
    <3>2. \A s \in DOMAIN sessions : sessions[s].startedAt \in Nat
      BY SessionDates DEF IInv
    <3> QED
      BY <1>2, <3>1, <3>2 DEF IInv, SessionsBegan
  <2> QED
    BY <2>1, <2>2, <2>3, <2>4
<1>4. \A s : BeganBy(s, time) => BeganBy(s, time)'
  <2>1. \A s \in DOMAIN sessions : sessions[s].startedAt \in Nat
    BY SessionDates DEF IInv
  <2> QED
    BY <1>2, <1>3, <2>1 DEF BeganBy
<1>5. \A s, t : BeganBy(s, t) => (s # 0 => s \in DOMAIN sessions' /\ sessions'[s].startedAt <= t)
  BY <1>3 DEF BeganBy
<1> QED
  BY <1>1, <1>3, <1>4, <1>5 DEF IInv, SessionsBegan, Entered, BeganBy

-----------------------------------------------------------------------------
(* Positions.                                                              *)

LEMMA StepOfAdd ==
  ASSUME IInv, NEW r \in Request, AddQuestion(r)
  PROVE  InStepUnlessUneven'
<1> SUFFICES ASSUME ~uneven'
             PROVE  InStep'
  BY DEF InStepUnlessUneven
<1> DEFINE n == Cardinality(DOMAIN questions)
<1>1. InStep /\ number[r] = n
  BY DEF AddQuestion, At, IInv, InStepUnlessUneven, Placing, NextPosition
<1>2. IsFiniteSet(DOMAIN questions) /\ n \in Nat
  BY QuestionsTyped, QuestionsAreFinite
<1>3. PICK d : d = added + 1
  OBVIOUS
<1>4. d \notin DOMAIN questions
  BY <1>3 DEF IInv, TypeOK
<1>5. questions' = [q \in DOMAIN questions \cup {d} |->
                     IF q \in DOMAIN questions THEN questions[q]
                     ELSE [position |-> number[r], correct |-> Key[d]]]
  BY <1>3 DEF AddQuestion, Exists
<1>6. DOMAIN questions' = DOMAIN questions \cup {d}
  BY <1>5
<1>7. Cardinality(DOMAIN questions') = n + 1
  BY <1>2, <1>4, <1>6, FS_AddElement
<1>8. /\ \A q \in DOMAIN questions : Position(q)' = Position(q)
      /\ Position(d)' = n
  BY <1>1, <1>4, <1>5 DEF Position
<1>9. \A q \in DOMAIN questions : Position(q) \in 0..(n - 1)
  BY <1>1 DEF InStep
<1>10. \A p, q \in DOMAIN questions' : p # q => Position(p)' # Position(q)'
  BY <1>1, <1>2, <1>6, <1>8, <1>9 DEF InStep
<1>11. {Position(q)' : q \in DOMAIN questions'} = {Position(q) : q \in DOMAIN questions} \cup {n}
  BY <1>6, <1>8
<1>12. 0..(n - 1) \cup {n} = 0..n /\ 0..(Cardinality(DOMAIN questions') - 1) = 0..n
  BY <1>2, <1>7
<1>13. {Position(q) : q \in DOMAIN questions} = 0..(n - 1)
  BY <1>1 DEF InStep
<1>14. {Position(q)' : q \in DOMAIN questions'} = 0..(Cardinality(DOMAIN questions') - 1)
  BY <1>11, <1>12, <1>13
<1> QED
  BY <1>10, <1>14 DEF InStep

LEMMA StepOfDelete ==
  ASSUME IInv, NEW r \in Request, DeleteQuestion(r)
  PROVE  InStepUnlessUneven'
<1> SUFFICES ASSUME ~uneven'
             PROVE  InStep'
  BY DEF InStepUnlessUneven
<1> DEFINE n == Cardinality(DOMAIN questions)
           gone == DOMAIN rows[r] \cap DOMAIN questions
<1>1. PICK d \in Question : DOMAIN rows[r] \subseteq {d}
  BY DEF DeleteQuestion, At, IInv, Placing
<1>2. InStep /\ \A q \in gone, p \in DOMAIN questions : ~(questions[p].position > questions[q].position)
  BY DEF DeleteQuestion, IInv, InStepUnlessUneven
<1>3. questions' = [q \in DOMAIN questions \ gone |-> questions[q]]
  BY DEF DeleteQuestion
<1>4. CASE gone = {}
  <2>1. DOMAIN questions' = DOMAIN questions /\ \A q \in DOMAIN questions : questions'[q] = questions[q]
    BY <1>3, <1>4
  <2> QED
    BY <1>2, <2>1 DEF InStep, Position
<1>5. CASE gone # {}
  <2>1. gone = {d} /\ d \in DOMAIN questions
    BY <1>1, <1>5
  <2>2. IsFiniteSet(DOMAIN questions) /\ n \in Nat
    BY QuestionsTyped, QuestionsAreFinite
  <2>3. DOMAIN questions' = DOMAIN questions \ {d} /\ Cardinality(DOMAIN questions') = n - 1
    BY <1>3, <2>1, <2>2, FS_RemoveElement
  <2>4. \A q \in DOMAIN questions \ {d} : Position(q)' = Position(q)
    BY <1>3, <2>1 DEF Position
  <2>5. /\ \A p, q \in DOMAIN questions : p # q => Position(p) # Position(q)
        /\ {Position(q) : q \in DOMAIN questions} = 0..(n - 1)
    BY <1>2 DEF InStep
  <2>6. \A q \in DOMAIN questions : Position(q) \in 0..(n - 1) /\ Position(q) <= Position(d)
    <3>1. \A q \in DOMAIN questions : Position(q) \in 0..(n - 1)
      BY <2>5
    <3>2. \A p \in DOMAIN questions : ~(Position(p) > Position(d))
      BY <1>2, <2>1 DEF Position
    <3> QED
      BY <2>1, <2>2, <3>1, <3>2
  <2>7. Position(d) = n - 1
    <3>1. n - 1 \in 0..(n - 1)
      BY <2>1, <2>2, <2>6
    <3>2. PICK q \in DOMAIN questions : Position(q) = n - 1
      BY <2>5, <3>1
    <3> QED
      BY <2>1, <2>2, <2>6, <3>2
  <2>8. {Position(q) : q \in DOMAIN questions \ {d}} = 0..(n - 1 - 1)
    <3>1. \A q \in DOMAIN questions \ {d} : Position(q) \in 0..(n - 1 - 1)
      BY <2>1, <2>2, <2>5, <2>6, <2>7
    <3>2. ASSUME NEW i \in 0..(n - 1 - 1)
          PROVE  \E q \in DOMAIN questions \ {d} : Position(q) = i
      <4>1. i \in 0..(n - 1) /\ i # n - 1
        BY <2>2
      <4>2. PICK q \in DOMAIN questions : Position(q) = i
        BY <2>5, <4>1
      <4> QED
        BY <2>7, <4>1, <4>2
    <3> QED
      BY <3>1, <3>2
  <2>9. {Position(q)' : q \in DOMAIN questions'} = 0..(n - 1 - 1)
    BY <2>3, <2>4, <2>8
  <2> QED
    BY <2>3, <2>4, <2>5, <2>9 DEF InStep
<1> QED
  BY <1>4, <1>5

(* An order that lists every question once, and finds them as it read them.*)
LEMMA StepOfReorder ==
  ASSUME IInv, NEW r \in Request, ReorderQuestions(r),
         call[r].list \in SetToSeqs(DOMAIN questions), ~crossed[r]
  PROVE  InStep'
<1> DEFINE list == call[r].list
           n == Len(list)
<1>1. ToSet(list) = DOMAIN questions /\ list \in Seq(Question) /\ Permuted(list)
  BY QuestionsTyped, ListTyped, ListsAll
<1>2. /\ DOMAIN rows[r] = DOMAIN questions
      /\ \A q \in DOMAIN rows[r] : rows[r][q].position = Position(q)
  BY <1>1 DEF ReorderQuestions, At, IInv, Placing
<1>3. \A q \in DOMAIN rows[r] : rows[r][q] \in Row
  BY RowsTyped DEF IInv, TypeOK
<1>4. \A q \in DOMAIN questions :
        /\ Wanted(r)[q] = [rows[r][q] EXCEPT !.position = Placed(list, q)]
        /\ Wanted(r)[q].position = Placed(list, q)
  BY <1>2, <1>3 DEF Wanted, ReorderQuestions, At, Row
<1>5. DOMAIN Wanted(r) = DOMAIN questions
  BY <1>2 DEF Wanted
<1>6. questions' = Write(r, Wanted(r)) /\ DOMAIN questions' = DOMAIN questions
  BY WriteCommits
<1>7. ASSUME NEW q \in DOMAIN questions
      PROVE  Write(r, Wanted(r))[q].position = Placed(list, q)
  <2>1. CASE q \in Changes(r, Wanted(r))
    BY <1>2, <1>4, <2>1 DEF Write, Merged, Position
  <2>2. CASE q \notin Changes(r, Wanted(r))
    <3>1. Wanted(r)[q] = rows[r][q]
      BY <1>5, <2>2 DEF Changes
    <3>2. Write(r, Wanted(r))[q] = questions[q]
      BY <2>2 DEF Write
    <3> QED
      BY <1>2, <1>4, <3>1, <3>2 DEF Position
  <2> QED
    BY <2>1, <2>2
<1>8. \A q \in DOMAIN questions : Position(q)' = Placed(list, q)
  BY <1>6, <1>7 DEF Position
<1>9. /\ \A q \in ToSet(list) : Placed(list, q) \in 0..(n - 1) /\ list[Placed(list, q) + 1] = q
      /\ \A i \in DOMAIN list : Placed(list, list[i]) = i - 1
  BY <1>1, LastPlace, PlacedAt
<1>10. Cardinality(DOMAIN questions') = n
  BY <1>1, <1>6, PermutedCardinality
<1>11. {Position(q)' : q \in DOMAIN questions'} = 0..(n - 1)
  <2>1. \A q \in DOMAIN questions' : Position(q)' \in 0..(n - 1)
    BY <1>1, <1>6, <1>8, <1>9
  <2>2. ASSUME NEW i \in 0..(n - 1)
        PROVE  \E q \in DOMAIN questions' : Position(q)' = i
    <3>1. i + 1 \in DOMAIN list /\ i + 1 - 1 = i
      BY <1>1
    <3>2. list[i + 1] \in DOMAIN questions'
      BY <1>1, <1>6, <3>1 DEF ToSet
    <3> QED
      BY <1>6, <1>8, <1>9, <3>1, <3>2
  <2> QED
    BY <2>1, <2>2
<1>12. \A p, q \in DOMAIN questions' : p # q => Position(p)' # Position(q)'
  BY <1>1, <1>6, <1>8, <1>9
<1> QED
  BY <1>10, <1>11, <1>12 DEF InStep

(* Steps that move no question and do not touch uneven.                    *)
LEMMA StepOfOthers ==
  ASSUME IInv, uneven' = uneven, DOMAIN questions' = DOMAIN questions,
         \A q \in DOMAIN questions : Position(q)' = Position(q)
  PROVE  InStepUnlessUneven'
BY DEF IInv, InStepUnlessUneven, InStep

-----------------------------------------------------------------------------
(* The invariant.                                                          *)

LEMMA Beginning ==
  ASSUME Init
  PROVE  IInv
<1>1. NoRows \in [{} -> Row] /\ DOMAIN NoRows = {}
  BY DEF NoRows
<1>2. NoRows \in RowsOver(Question)
  BY <1>1, RowsAre
<1>3. TypeOK
  <2>1. <<>> \in Seq(Session) /\ <<>> \in Seq(Question)
    OBVIOUS
  <2>2. 0 \in 0..MaxQuestions /\ 0 \in 0..MaxEdits /\ 0 \in 0..MaxTime /\ 0 \in 0..MaxSessions
    BY BoundAssumption
  <2> QED
    BY <1>2, <2>1, <2>2, NoCallIsEdit DEF Init, TypeOK
<1>4. CallShape /\ SessionsBegan /\ Entered /\ Placing
  BY NoCallIsEdit, BoundAssumption DEF Init, CallShape, SessionsBegan, Entered, Placing, BeganBy, Place
<1>5. InStep
  BY <1>1, FS_EmptySet DEF Init, InStep
<1> QED
  BY <1>1, <1>3, <1>4, <1>5 DEF IInv, Init, InStepUnlessUneven

LEMMA Reading ==
  ASSUME IInv, NEW r \in Request,
         \/ CountQuestions(r)
         \/ \E op \in {"update", "delete", "reorder"}, list \in Seq(Question) : Asked(r, op, list)
  PROVE  IInv'
<1>1. \E c \in Edit, rs \in RowsOver(Question), n \in 0..MaxQuestions :
        /\ Reads(r, c, rs, n)
        /\ Len(c.list) \in Place
        /\ c.op = "add" => n = NextPosition
        /\ c.op # "add" => rs = Found(c.list)
        /\ c.op = "delete" => \E q \in Question : c.list = <<q>>
  <2>1. CASE CountQuestions(r)
    <3>1. Len(NoCall.list) \in Place
      BY NoCallIsEdit, BoundAssumption DEF Place
    <3> QED
      BY <2>1, <3>1, CountReads, NoCallIsEdit
  <2>2. CASE \E op \in {"update", "delete", "reorder"}, list \in Seq(Question) : Asked(r, op, list)
    <3>1. PICK op \in {"update", "delete", "reorder"}, list \in Seq(Question) : Asked(r, op, list)
      BY <2>2
    <3> DEFINE c == [op |-> op, list |-> list]
    <3>2. /\ c \in Edit /\ Found(list) \in RowsOver(Question) /\ 0 \in 0..MaxQuestions
          /\ Reads(r, c, Found(list), 0)
      BY <3>1, AskedReads
    <3>3. c.op = op /\ c.list = list
      OBVIOUS
    <3>4. /\ Len(list) \in Place
          /\ op = "delete" => \E q \in Question : list = <<q>>
      BY <3>1 DEF Asked
    <3> HIDE DEF c
    <3> QED
      BY <3>2, <3>3, <3>4
  <2> QED
    BY <2>1, <2>2
<1>2. PICK c \in Edit, rs \in RowsOver(Question), n \in 0..MaxQuestions :
        /\ Reads(r, c, rs, n)
        /\ Len(c.list) \in Place
        /\ c.op = "add" => n = NextPosition
        /\ c.op # "add" => rs = Found(c.list)
        /\ c.op = "delete" => \E q \in Question : c.list = <<q>>
  BY <1>1
<1>3. Typed'
  BY <1>2, ReadsTyped
<1>4. CallShape' /\ Placing'
  BY <1>2, PlacingOfReads
<1>5. SessionsBegan' /\ Entered'
  BY <1>2, SessionsOfReads
<1>6. questions' = questions /\ uneven' = uneven
  BY <1>2 DEF Reads, quiz, history
<1>7. InStepUnlessUneven'
  BY <1>6, StepOfOthers DEF Position
<1> QED
  BY <1>3, <1>4, <1>5, <1>7 DEF IInv, Typed

LEMMA Committing ==
  ASSUME IInv, NEW r \in Request,
         \/ AddQuestion(r) \/ DeleteQuestion(r) \/ ReorderQuestions(r)
         \/ UpdateQuestion(r) \/ ChangeFails(r)
  PROVE  IInv'
<1>1. Typed'
  BY AddTyped, DeleteTyped, WriteIsTyped, OthersTyped
<1>2. End(r) /\ UNCHANGED <<sessions, attempt, time, client>>
  BY DEF AddQuestion, DeleteQuestion, ReorderQuestions, UpdateQuestion, ChangeFails, quiz
<1>3. SessionsBegan' /\ Entered'
  BY <1>2, SessionsOfEnd
<1>4. ChangeFails(r) => NotEdited(r) /\ questions' = questions /\ uneven' = uneven
  BY DEF ChangeFails, quiz
<1>5. CallShape' /\ Placing'
  <2>1. Edited(r) \/ (NotEdited(r) /\ questions' = questions)
    BY <1>4 DEF AddQuestion, DeleteQuestion, ReorderQuestions, UpdateQuestion
  <2> QED
    BY <1>2, <2>1, PlacingOfEnd
<1>6. InStepUnlessUneven'
  <2>1. CASE UpdateQuestion(r)
    <3>1. uneven' = uneven
      BY <2>1 DEF UpdateQuestion
    <3> QED
      BY <2>1, <3>1, PositionsOfUpdate, StepOfOthers
  <2>2. CASE ChangeFails(r)
    BY <1>4, <2>2, StepOfOthers DEF Position
  <2>3. CASE ReorderQuestions(r)
    <3>1. CASE call[r].list \in SetToSeqs(DOMAIN questions) /\ ~crossed[r]
      BY <2>3, <3>1, StepOfReorder DEF InStepUnlessUneven
    <3>2. CASE ~(call[r].list \in SetToSeqs(DOMAIN questions) /\ ~crossed[r])
      <4>1. uneven' = (uneven \/ Moves)
        BY <2>3, <3>2 DEF ReorderQuestions
      <4>2. CASE uneven \/ Moves
        BY <4>1, <4>2 DEF InStepUnlessUneven
      <4>3. CASE ~uneven /\ ~Moves
        <5>1. uneven' = uneven
          BY <4>1, <4>3 DEF IInv, TypeOK
        <5> QED
          BY <4>3, <5>1, NothingMoved, StepOfOthers
      <4> QED
        BY <4>2, <4>3
    <3> QED
      BY <3>1, <3>2
  <2> QED
    BY <2>1, <2>2, <2>3, StepOfAdd, StepOfDelete
<1> QED
  BY <1>1, <1>3, <1>5, <1>6 DEF IInv, Typed

LEMMA Playing ==
  ASSUME IInv,
         \/ \E u \in Player : Show(u)
         \/ \E r \in Request, u \in Player : AskSubmit(r, u)
         \/ \E r \in Request : MarkAnswers(r) \/ SubmitAttempt(r) \/ SubmitFails(r)
  PROVE  IInv'
<1>1. questions' = questions /\ uneven' = uneven
  BY DEF Show, AskSubmit, MarkAnswers, NotEdited, SubmitAttempt, SubmitFails, quiz
<1>2. InStepUnlessUneven'
  BY <1>1, StepOfOthers DEF Position
<1>4. CASE \E u \in Player : Show(u)
  <2>1. PICK u \in Player : Show(u)
    BY <1>4
  <2>2. UNCHANGED <<call, stage, rows, number, crossed>>
    BY <2>1 DEF Show, requests
  <2>3. CallShape' /\ Placing'
    BY <1>1, <2>2 DEF IInv, CallShape, Placing, Position, NextPosition
  <2> QED
    BY <1>2, <2>1, <2>3, ShowTyped, SessionsOfShow DEF IInv, Typed
<1>5. CASE \E r \in Request, u \in Player : AskSubmit(r, u)
  <2>1. PICK r \in Request, u \in Player : AskSubmit(r, u)
    BY <1>5
  <2>2. /\ \A p \in Request \ {r} : call'[p] = call[p] /\ stage'[p] = stage[p] /\ crossed'[p] = crossed[p]
        /\ rows' = rows /\ number' = number /\ stage'[r] = "checked"
    BY <2>1 DEF AskSubmit, Goto, IInv, TypeOK
  <2>3. call'[r] \in Submission /\ call'[r].op = "submit"
    BY <2>1, AskTyped DEF Submission
  <2>4. CallShape' /\ Placing'
    BY <1>1, <2>2, <2>3 DEF IInv, CallShape, Placing, Position, NextPosition
  <2> QED
    BY <1>2, <2>1, <2>4, AskTyped, SessionsOfAsk DEF IInv, Typed
<1>6. CASE \E r \in Request : MarkAnswers(r)
  <2>1. PICK r \in Request : MarkAnswers(r)
    BY <1>6
  <2>2. /\ \A p \in Request \ {r} :
             call'[p] = call[p] /\ stage'[p] = stage[p] /\ crossed'[p] = crossed[p] /\ number'[p] = number[p]
        /\ rows' = rows /\ stage'[r] = "read"
    BY <2>1 DEF MarkAnswers, NotEdited, Goto, IInv, TypeOK
  <2>3. call'[r] \in Submission /\ call'[r].op = "submit"
    BY <2>1, MarkTyped DEF Submission
  <2>4. CallShape' /\ Placing'
    BY <1>1, <2>2, <2>3 DEF IInv, CallShape, Placing, Position, NextPosition
  <2> QED
    BY <1>2, <2>1, <2>4, MarkTyped, SessionsOfMark DEF IInv, Typed
<1>7. CASE \E r \in Request : SubmitAttempt(r)
  <2>1. PICK r \in Request : SubmitAttempt(r)
    BY <1>7
  <2>2. End(r) /\ NotEdited(r)
    BY <2>1 DEF SubmitAttempt
  <2> QED
    BY <1>1, <1>2, <2>1, <2>2, SubmitTyped, PlacingOfEnd, SessionsOfSubmit DEF IInv, Typed
<1>8. CASE \E r \in Request : SubmitFails(r)
  <2>1. PICK r \in Request : SubmitFails(r)
    BY <1>8
  <2>2. End(r) /\ NotEdited(r) /\ UNCHANGED <<sessions, attempt, time, client>>
    BY <2>1 DEF SubmitFails, quiz
  <2>3. Typed'
    BY <2>1, OthersTyped
  <2> QED
    BY <1>1, <1>2, <2>1, <2>2, <2>3, PlacingOfEnd, SessionsOfEnd DEF IInv, Typed
<1> QED
  BY <1>4, <1>5, <1>6, <1>7, <1>8

LEMMA Switching ==
  ASSUME IInv,
         \/ \E v \in BOOLEAN : SetActive(v)
         \/ \E t \in 0..MaxTime : CreateSession(t)
         \/ \E s \in 1..MaxSessions : CloseSession(s)
         \/ Tick
  PROVE  IInv'
<1>1. UNCHANGED <<questions, call, stage, rows, number, crossed, uneven>>
  BY DEF SetActive, CreateSession, CloseSession, Tick, quiz, client, requests, history
<1>2. CallShape' /\ Placing'
  BY <1>1 DEF IInv, CallShape, Placing, Position, NextPosition
<1>3. InStepUnlessUneven'
  BY <1>1, StepOfOthers DEF Position
<1> QED
  BY <1>2, <1>3, OthersTyped, SessionsOfOthers DEF IInv, Typed

(* IInv is inductive.                                                      *)
THEOREM Invariance == Spec => []IInv
<1>1. Init => IInv
  BY Beginning
<1>2. ASSUME IInv, [Next]_vars
      PROVE  IInv'
  <2>1. CASE \E r \in Request :
               \/ CountQuestions(r) \/ FindOrder(r)
               \/ \E q \in Question :
                    FindQuestions(r, "delete", <<q>>) \/ FindQuestions(r, "update", <<q>>)
    <3>1. PICK r \in Request :
               \/ CountQuestions(r) \/ FindOrder(r)
               \/ \E q \in Question :
                    FindQuestions(r, "delete", <<q>>) \/ FindQuestions(r, "update", <<q>>)
      BY <2>1
    <3> QED
      BY <1>2, <3>1, Asking, Reading
  <2>2. CASE \E r \in Request :
               \/ AddQuestion(r) \/ DeleteQuestion(r) \/ ReorderQuestions(r)
               \/ UpdateQuestion(r) \/ ChangeFails(r)
    BY <1>2, <2>2, Committing
  <2>3. CASE \/ \E u \in Player : Show(u)
             \/ \E r \in Request, u \in Player : AskSubmit(r, u)
             \/ \E r \in Request : MarkAnswers(r) \/ SubmitAttempt(r) \/ SubmitFails(r)
    BY <1>2, <2>3, Playing
  <2>4. CASE \/ \E v \in BOOLEAN : SetActive(v)
             \/ \E t \in 0..MaxTime : CreateSession(t)
             \/ \E s \in 1..MaxSessions : CloseSession(s)
             \/ Tick
    BY <1>2, <2>4, Switching
  <2>5. CASE UNCHANGED vars
    <3>1. UNCHANGED <<questions, added, edits, isActive, sessions, attempt, time, page, game,
                      stale, call, stage, rows, number, crossed, uneven>>
      BY <2>5 DEF vars, quiz, client, requests, history
    <3>2. TypeOK' /\ DOMAIN questions' \subseteq 1..added'
      BY <1>2, <3>1 DEF IInv, TypeOK
    <3>3. CallShape' /\ SessionsBegan' /\ Entered'
      BY <1>2, <3>1 DEF IInv, CallShape, SessionsBegan, Entered, BeganBy
    <3>4. Placing' /\ InStepUnlessUneven'
      BY <1>2, <3>1, StepOfOthers DEF IInv, Placing, Position, NextPosition
    <3> QED
      BY <3>2, <3>3, <3>4 DEF IInv
  <2> QED
    BY <1>2, <2>1, <2>2, <2>3, <2>4, <2>5 DEF Next
<1> QED
  BY <1>1, <1>2, PTL DEF Spec

-----------------------------------------------------------------------------
(* Marking.  A list that leads holds the questions that come first, in     *)
(* their order.                                                            *)
Leading(l) ==
  /\ Permuted(l) /\ ToSet(l) \subseteq DOMAIN questions /\ InOrder(l)
  /\ \A q \in DOMAIN questions \ ToSet(l), p \in ToSet(l) : Position(p) < Position(q)

LEMMA ListingsLead ==
  ASSUME TypeOK, NEW s \in Listings
  PROVE  s \in Seq(Question) /\ ToSet(s) = DOMAIN questions /\ Leading(s)
<1>1. DOMAIN questions \in SUBSET Question /\ s \in SetToSeqs(DOMAIN questions) /\ InOrder(s)
  BY RowsTyped DEF TypeOK, Listings
<1> QED
  BY <1>1, ListTyped, ListsAll DEF Leading

Before(q) == {p \in DOMAIN questions : Position(p) < Position(q)}

LEMMA LedAt ==
  ASSUME TypeOK, ~Tied, NEW l \in Seq(Question), Leading(l), NEW i \in DOMAIN l
  PROVE  Cardinality(Before(l[i])) = i - 1
<1> DEFINE f == [j \in 1..(i - 1) |-> l[j]]
<1>1. DOMAIN l = 1..Len(l) /\ Len(l) \in Nat /\ i \in 1..Len(l)
  OBVIOUS
<1>2. \A j \in DOMAIN l : l[j] \in ToSet(l) /\ l[j] \in DOMAIN questions
  BY DEF Leading, ToSet
<1>3. \A q \in DOMAIN questions : Position(q) \in Nat
  <2>1. \A q \in DOMAIN questions : questions[q] \in Row
    BY RowsTyped DEF TypeOK
  <2> QED
    BY <2>1, BoundAssumption DEF Row, Place, Position
<1>4. \A j, k \in DOMAIN l : j < k => Position(l[j]) < Position(l[k])
  <2> SUFFICES ASSUME NEW j \in DOMAIN l, NEW k \in DOMAIN l, j < k
               PROVE  Position(l[j]) < Position(l[k])
    OBVIOUS
  <2>1. Position(l[j]) <= Position(l[k])
    BY DEF Leading, InOrder, Position
  <2>2. l[j] # l[k]
    BY <1>1 DEF Leading, Permuted
  <2>3. Position(l[j]) # Position(l[k])
    BY <1>2, <2>2 DEF Tied, Position
  <2> QED
    BY <1>2, <1>3, <2>1, <2>3
<1>5. \A j \in 1..(i - 1) : j \in DOMAIN l /\ j < i
  BY <1>1
<1>6. f \in [1..(i - 1) -> Before(l[i])]
  BY <1>2, <1>4, <1>5 DEF Before
<1>7. \A j, k \in 1..(i - 1) : f[j] = f[k] => j = k
  BY <1>5 DEF Leading, Permuted
<1>8. \A p \in Before(l[i]) : \E j \in 1..(i - 1) : f[j] = p
  <2> SUFFICES ASSUME NEW p \in Before(l[i])
               PROVE  \E j \in 1..(i - 1) : l[j] = p
    OBVIOUS
  <2>1. p \in DOMAIN questions /\ Position(p) < Position(l[i])
    BY DEF Before
  <2>2. p \in ToSet(l)
    <3>1. p \notin ToSet(l) => Position(l[i]) < Position(p)
      BY <1>2, <2>1 DEF Leading
    <3> QED
      BY <1>2, <1>3, <2>1, <3>1
  <2>3. PICK j \in DOMAIN l : l[j] = p
    BY <2>2 DEF ToSet
  <2>4. ~(i < j) /\ i # j
    BY <1>2, <1>3, <1>4, <2>1, <2>3
  <2> QED
    BY <1>1, <2>3, <2>4
<1>9. f \in Bijection(1..(i - 1), Before(l[i]))
  BY <1>6, <1>7, <1>8 DEF Bijection, Injection, Surjection, IsInjective
<1>10. Cardinality(1..(i - 1)) = i - 1 /\ IsFiniteSet(1..(i - 1))
  <2>1. 1 \in Int /\ i \in Int /\ i - 1 \in Int /\ i >= 1
    BY <1>1
  <2>2. /\ IsFiniteSet(1..(i - 1))
        /\ Cardinality(1..(i - 1)) = IF 1 > i - 1 THEN 0 ELSE (i - 1) - 1 + 1
    BY <2>1, FS_Interval
  <2> QED
    BY <2>1, <2>2
<1> QED
  BY <1>9, <1>10, FS_Bijection DEF ExistsBijection

(* Any listing begins with a list that leads.                              *)
LEMMA ListingBeginsWith ==
  ASSUME TypeOK, ~Tied, NEW s \in Listings, NEW l \in Seq(Question), Leading(l), NEW i \in DOMAIN l
  PROVE  i \in DOMAIN s /\ s[i] = l[i]
<1>1. s \in Seq(Question) /\ ToSet(s) = DOMAIN questions /\ Leading(s)
  BY ListingsLead
<1>2. PICK k \in DOMAIN s : s[k] = l[i]
  BY <1>1 DEF Leading, ToSet
<1>3. Cardinality(Before(l[i])) = i - 1 /\ Cardinality(Before(l[i])) = k - 1
  BY <1>1, <1>2, LedAt
<1>4. i \in Int /\ k \in Int
  BY <1>1
<1> QED
  BY <1>2, <1>3, <1>4

(* Answers to a list that leads are marked each against its own question.  *)
LEMMA MarksOfOwnList ==
  ASSUME TypeOK, ~Tied, NEW s \in Listings, NEW l \in Seq(Question), Leading(l), NEW u \in Player
  PROVE  Marks(AnswersTo(u, l), s)
           = Cardinality({q \in ToSet(l) : q \in DOMAIN questions /\ Guess[u][q] = questions[q].correct})
<1> DEFINE right == {i \in DOMAIN l : Guess[u][l[i]] = questions[l[i]].correct}
           known == {q \in ToSet(l) : q \in DOMAIN questions /\ Guess[u][q] = questions[q].correct}
           f == [i \in right |-> l[i]]
<1>1. s \in Seq(Question)
  BY ListingsLead
<1>2. /\ DOMAIN l = 1..Len(l) /\ DOMAIN s = 1..Len(s) /\ Len(l) \in Nat
      /\ Permuted(l) /\ ToSet(l) \subseteq DOMAIN questions
  BY <1>1 DEF Leading
<1>3. Len(AnswersTo(u, l)) = Len(l) /\ \A i \in DOMAIN l : AnswersTo(u, l)[i] = Guess[u][l[i]]
  BY <1>2 DEF AnswersTo
<1>4. \A i \in DOMAIN l : i \in DOMAIN s /\ s[i] = l[i]
  BY ListingBeginsWith
<1>5. Marks(AnswersTo(u, l), s) = Cardinality(right)
  <2>1. \A i \in DOMAIN s : i <= Len(l) => i \in DOMAIN l
    BY <1>2
  <2>2. \A i \in DOMAIN l : i <= Len(l)
    BY <1>2
  <2>3. {i \in DOMAIN s : i <= Len(AnswersTo(u, l)) /\ AnswersTo(u, l)[i] = questions[s[i]].correct}
          = right
    BY <1>3, <1>4, <2>1, <2>2
  <2> QED
    BY <2>3 DEF Marks
<1>6. IsFiniteSet(right)
  <2>1. 1 \in Int /\ Len(l) \in Int
    BY <1>2
  <2>2. IsFiniteSet(1..Len(l))
    BY <2>1, FS_Interval
  <2>3. right \in SUBSET (1..Len(l))
    BY <1>2
  <2> QED
    BY <2>2, <2>3, FS_Subset
<1>7. f \in [right -> known] /\ \A q \in known : \E i \in right : f[i] = q
  BY <1>2 DEF ToSet
<1>8. \A i, j \in right : f[i] = f[j] => i = j
  BY <1>2 DEF Permuted
<1>9. f \in Bijection(right, known)
  BY <1>7, <1>8 DEF Bijection, Injection, Surjection, IsInjective
<1>10. Cardinality(known) = Cardinality(right)
  BY <1>6, <1>9, FS_Bijection DEF ExistsBijection
<1> QED
  BY <1>5, <1>10

(* What was shown and has not shifted since still leads.                   *)
Shown ==
  /\ \A u \in Player : ~stale[u] => Leading(page[u])
  /\ \A r \in Request : At(r, "submit", "checked") /\ ~crossed[r] => Leading(call[r].list)

LEMMA StillLeading ==
  ASSUME TypeOK, TypeOK', ~Shifts, NEW l, Leading(l)
  PROVE  Leading(l)'
<1>1. \A q \in DOMAIN questions : q \in DOMAIN questions' /\ questions'[q].position = questions[q].position
  BY DEF Shifts
<1>2. \A q \in DOMAIN questions' : questions'[q].position \in Nat
  <2>1. \A q \in DOMAIN questions' : questions'[q] \in Row
    BY RowsTyped DEF TypeOK
  <2> QED
    BY <2>1, BoundAssumption DEF Row, Place
<1>3. ASSUME NEW q \in DOMAIN questions' \ ToSet(l), NEW p \in ToSet(l)
      PROVE  Position(p)' < Position(q)'
  <2>1. p \in DOMAIN questions
    BY DEF Leading
  <2>2. CASE q \in DOMAIN questions
    BY <1>1, <1>3, <2>1, <2>2 DEF Leading, Position
  <2>3. CASE q \notin DOMAIN questions
    <3>1. ~(questions'[q].position <= questions[p].position)
      BY <1>3, <2>1, <2>3 DEF Shifts
    <3> QED
      BY <1>1, <1>2, <1>3, <2>1, <3>1 DEF Position
  <2> QED
    BY <2>2, <2>3
<1>4. InOrder(l)'
  <2>1. \A i \in DOMAIN l : l[i] \in DOMAIN questions
    BY DEF Leading, ToSet
  <2> QED
    BY <1>1, <2>1 DEF Leading, InOrder
<1> QED
  BY <1>1, <1>3, <1>4 DEF Leading, Permuted

LEMMA SameLeading ==
  ASSUME questions' = questions
  PROVE  \A l : Leading(l)' <=> Leading(l)
BY DEF Leading, InOrder, Position, Permuted

LEMMA ShownKept ==
  ASSUME IInv, IInv', Shown, [Next]_vars
  PROVE  Shown'
<1> USE DEF Shown, At
<1>1. ASSUME NEW r \in Request, AddQuestion(r) \/ DeleteQuestion(r) \/ ReorderQuestions(r)
                                \/ UpdateQuestion(r)
      PROVE  Shown'
  <2>1. /\ stage'[r] = "idle" /\ page' = page
        /\ \A p \in Request \ {r} : stage'[p] = stage[p] /\ call'[p] = call[p]
        /\ \A u \in Player : stale'[u] <=> stale[u] \/ Shifts
        /\ \A p \in Request \ {r} :
             ~crossed'[p] => ~crossed[p] /\ (At(p, "submit", "checked") => ~Shifts)
    <3>1. Edited(r) /\ End(r) /\ page' = page
      BY <1>1 DEF AddQuestion, DeleteQuestion, ReorderQuestions, UpdateQuestion, client
    <3>2. /\ stage'[r] = "idle"
          /\ \A p \in Request \ {r} : stage'[p] = stage[p] /\ call'[p] = call[p]
      BY <3>1 DEF End, Goto, IInv, TypeOK
    <3>3. \A u \in Player : stale'[u] <=> stale[u] \/ Shifts
      BY <3>1 DEF Edited
    <3>4. \A p \in Request \ {r} :
            ~crossed'[p] => ~crossed[p] /\ (At(p, "submit", "checked") => ~Shifts)
      BY <3>1, Zenon DEF Edited
    <3> QED
      BY <3>1, <3>2, <3>3, <3>4
  <2>2. ~Shifts => \A l : Leading(l) => Leading(l)'
    BY StillLeading DEF IInv
  <2> QED
    BY <2>1, <2>2
<1>2. ASSUME NEW r \in Request, ChangeFails(r) \/ SubmitAttempt(r) \/ SubmitFails(r)
      PROVE  Shown'
  <2>1. /\ stage'[r] = "idle"
        /\ \A p \in Request \ {r} : stage'[p] = stage[p] /\ call'[p] = call[p] /\ crossed'[p] = crossed[p]
        /\ UNCHANGED <<stale, page, questions>>
    BY <1>2 DEF ChangeFails, SubmitAttempt, SubmitFails, NotEdited, End, Goto, quiz, client,
                IInv, TypeOK
  <2> QED
    BY <2>1, SameLeading
<1>3. ASSUME NEW r \in Request, NEW c \in Edit, NEW rs, NEW n, Reads(r, c, rs, n)
      PROVE  Shown'
  <2>1. /\ stage'[r] = "read"
        /\ \A p \in Request \ {r} : stage'[p] = stage[p] /\ call'[p] = call[p]
        /\ UNCHANGED <<stale, page, questions, crossed>>
    BY <1>3 DEF Reads, Goto, quiz, client, history, IInv, TypeOK
  <2> QED
    BY <2>1, SameLeading
<1>4. ASSUME NEW u \in Player, Show(u)
      PROVE  Shown'
  <2>1. UNCHANGED <<questions, call, stage, crossed>>
    BY <1>4 DEF Show, quiz, requests
  <2>2. Leading(page'[u]) /\ \A v \in Player \ {u} : page'[v] = page[v] /\ stale'[v] = stale[v]
    BY <1>4, ListingsLead DEF Show, IInv, TypeOK
  <2> QED
    BY <2>1, <2>2, SameLeading
<1>5. ASSUME NEW r \in Request, NEW u \in Player, AskSubmit(r, u)
      PROVE  Shown'
  <2>1. call'[r].list = page[u] /\ crossed'[r] = stale[u]
    BY <1>5, AskTyped DEF AskSubmit, IInv, TypeOK
  <2>2. /\ \A p \in Request \ {r} : stage'[p] = stage[p] /\ call'[p] = call[p] /\ crossed'[p] = crossed[p]
        /\ UNCHANGED <<stale, page, questions>>
    BY <1>5 DEF AskSubmit, Goto, quiz, client, IInv, TypeOK
  <2> QED
    BY <2>1, <2>2, SameLeading
<1>6. ASSUME NEW r \in Request, MarkAnswers(r)
      PROVE  Shown'
  <2>1. /\ stage'[r] = "read"
        /\ \A p \in Request \ {r} : stage'[p] = stage[p] /\ call'[p] = call[p] /\ crossed'[p] = crossed[p]
        /\ UNCHANGED <<stale, page, questions>>
    BY <1>6 DEF MarkAnswers, NotEdited, Goto, quiz, client, IInv, TypeOK
  <2> QED
    BY <2>1, SameLeading
<1>7. CASE \/ \E v \in BOOLEAN : SetActive(v)
           \/ \E t \in 0..MaxTime : CreateSession(t)
           \/ \E s \in 1..MaxSessions : CloseSession(s)
           \/ Tick \/ UNCHANGED vars
  <2>1. UNCHANGED <<questions, call, stage, crossed, stale, page>>
    BY <1>7 DEF SetActive, CreateSession, CloseSession, Tick, vars, quiz, client, requests, history
  <2> QED
    BY <2>1, SameLeading
<1>8. ASSUME NEW r \in Request,
             \/ CountQuestions(r) \/ FindOrder(r)
             \/ \E q \in Question :
                  FindQuestions(r, "delete", <<q>>) \/ FindQuestions(r, "update", <<q>>)
      PROVE  \E c \in Edit : \E rs, n : Reads(r, c, rs, n)
  <2>1. CASE CountQuestions(r)
    BY <2>1, CountReads
  <2>2. CASE ~CountQuestions(r)
    BY <1>8, <2>2, Asking, AskedReads
  <2> QED
    BY <2>1, <2>2
<1>9. CASE \E r \in Request :
             \/ CountQuestions(r) \/ FindOrder(r)
             \/ \E q \in Question :
                  FindQuestions(r, "delete", <<q>>) \/ FindQuestions(r, "update", <<q>>)
  <2>1. PICK r \in Request : \E c \in Edit : \E rs, n : Reads(r, c, rs, n)
    BY <1>8, <1>9
  <2> QED
    BY <1>3, <2>1
<1> QED
  BY <1>1, <1>2, <1>4, <1>5, <1>6, <1>7, <1>9 DEF Next

(* A submission is read from "checked" by the step that marks it only.     *)
LEMMA OnlyMarking ==
  ASSUME IInv, [Next]_vars, NEW r \in Request, stage[r] = "checked", stage'[r] = "read"
  PROVE  MarkAnswers(r)
<1> USE DEF IInv, TypeOK
<1>1. ASSUME NEW p \in Request, End(p) PROVE FALSE
  BY <1>1 DEF End, Goto
<1>2. ASSUME NEW p \in Request, NEW c, NEW rs, NEW n, Reads(p, c, rs, n) PROVE FALSE
  BY <1>2 DEF Reads, Free, Goto
<1>3. ASSUME NEW p \in Request, \E u \in Player : AskSubmit(p, u) PROVE FALSE
  BY <1>3 DEF AskSubmit, Goto
<1>4. ASSUME UNCHANGED stage PROVE FALSE
  BY <1>4
<1>5. ASSUME NEW p \in Request, MarkAnswers(p) PROVE p = r
  BY <1>5 DEF MarkAnswers, Goto
<1>6. CASE \E p \in Request :
             \/ CountQuestions(p) \/ FindOrder(p)
             \/ \E q \in Question :
                  FindQuestions(p, "delete", <<q>>) \/ FindQuestions(p, "update", <<q>>)
  BY <1>2, <1>6 DEF CountQuestions, FindOrder, FindQuestions
<1>7. CASE \E p \in Request : \/ AddQuestion(p) \/ UpdateQuestion(p) \/ ReorderQuestions(p)
                              \/ ChangeFails(p) \/ DeleteQuestion(p)
                              \/ SubmitAttempt(p) \/ SubmitFails(p)
  BY <1>1, <1>7 DEF AddQuestion, UpdateQuestion, ReorderQuestions, ChangeFails, DeleteQuestion,
     SubmitAttempt, SubmitFails
<1>8. CASE \/ \E v \in BOOLEAN : SetActive(v)
           \/ \E t \in 0..MaxTime : CreateSession(t)
           \/ \E s \in 1..MaxSessions : CloseSession(s)
           \/ \E u \in Player : Show(u)
           \/ Tick \/ UNCHANGED vars
  BY <1>4, <1>8 DEF SetActive, CreateSession, CloseSession, Show, Tick, vars, requests
<1> QED
  BY <1>3, <1>5, <1>6, <1>7, <1>8 DEF Next

-----------------------------------------------------------------------------
(* Results.                                                                *)

(* Every variable keeps its type, however many requests cross.             *)
THEOREM TypeCorrect == Spec => []TypeOK
<1>1. IInv => TypeOK
  BY DEF IInv
<1> QED
  BY <1>1, Invariance, PTL

(* The positions of a quiz are 0, 1, 2, ... for any number of questions    *)
(* and requests, and for any list of ids in an order, but for what its     *)
(* organizers' requests crossed, moved without listing every question      *)
(* once, or deleted from the middle, until an order does list them so.     *)
THEOREM PositionsStayEven == Spec => []PositionsAreEven
<1>1. IInv => PositionsAreEven
  BY DEF IInv, InStepUnlessUneven, InStep, Position, PositionsAreEven
<1> QED
  BY <1>1, Invariance, PTL

(* However sessions open and close while players answer, an attempt begun  *)
(* under a session is on its board.                                        *)
THEOREM BoardsAreComplete == Spec => []BoardsKeepTheirPlayers
<1>1. IInv => BoardsKeepTheirPlayers
  <2> SUFFICES ASSUME IInv, NEW u \in Player, attempt[u] # NoAttempt, attempt[u].session # 0
               PROVE  u \in Board(attempt[u].session)
    BY DEF BoardsKeepTheirPlayers
  <2>1. BeganBy(attempt[u].session, attempt[u].at)
    BY DEF IInv, Entered
  <2>2. attempt[u] \in Attempt
    BY DEF IInv, TypeOK
  <2>3. attempt[u].at \in Nat
    BY <2>2, BoundAssumption DEF Attempt
  <2>4. \A s \in DOMAIN sessions : sessions[s].startedAt \in Nat
    BY SessionDates DEF IInv
  <2> QED
    BY <2>1, <2>3, <2>4 DEF BeganBy, Board, Since
<1> QED
  BY <1>1, Invariance, PTL

(* Answers given by index to the questions that were shown, and marked by  *)
(* index against a list read anew, are each marked against their own       *)
(* question, for any number of questions, players and requests, and        *)
(* whatever was corrected, or added at the end, in between, unless the     *)
(* list has shifted since it was shown or two questions share a position.  *)
THEOREM MarkingIsFair == Spec => MarkedAsShown
<1>1. Init => Shown
  <2>1. Leading(<<>>)
    BY DEF Leading, Permuted, ToSet, InOrder
  <2> QED
    BY <2>1 DEF Init, Shown, At
<1>2. ASSUME IInv, Shown, [Next]_vars, NEW r \in Request
      PROVE  At(r, "submit", "checked") /\ stage'[r] = "read" =>
               \/ number'[r] = Cardinality({q \in ToSet(call[r].list) :
                                  q \in DOMAIN questions
                                    /\ Guess[call[r].by][q] = questions[q].correct})
               \/ crossed[r]
               \/ Tied
  <2> SUFFICES ASSUME At(r, "submit", "checked"), stage'[r] = "read", ~crossed[r], ~Tied
               PROVE  number'[r] = Cardinality({q \in ToSet(call[r].list) :
                                     q \in DOMAIN questions
                                       /\ Guess[call[r].by][q] = questions[q].correct})
    OBVIOUS
  <2>1. MarkAnswers(r)
    BY <1>2, OnlyMarking DEF At
  <2>2. call[r].by \in Player /\ call[r].list \in Seq(Question) /\ Leading(call[r].list)
    BY <1>2 DEF At, IInv, CallShape, Submission, Shown
  <2>3. PICK s \in Listings :
          number'[r] = Marks(AnswersTo(call[r].by, call[r].list), s)
    BY <1>2, <2>1 DEF MarkAnswers, IInv, TypeOK
  <2> QED
    BY <1>2, <2>2, <2>3, MarksOfOwnList DEF IInv
<1>3. IInv /\ IInv' /\ Shown /\ [Next]_vars => Shown'
  BY ShownKept
<1>4. IInv /\ Shown /\ [Next]_vars =>
        [\A r \in Request : At(r, "submit", "checked") /\ stage'[r] = "read" =>
           \/ number'[r] = Cardinality({q \in ToSet(call[r].list) :
                              q \in DOMAIN questions
                                /\ Guess[call[r].by][q] = questions[q].correct})
           \/ crossed[r]
           \/ Tied]_vars
  BY <1>2
<1> QED
  BY <1>1, <1>3, <1>4, Invariance, PTL DEF Spec, MarkedAsShown

=============================================================================
