-------------------------------- MODULE Quiz --------------------------------
(***************************************************************************)
(* One quiz (app/routers/quizzes.py, app/services/quiz_service.py and its  *)
(* repository): organizers add, edit, delete and reorder questions, switch *)
(* the quiz on and off, and open and close sessions; players load the      *)
(* questions and send their answers, once.                                 *)
(*                                                                         *)
(* A request that writes what follows from what it read is a slot; call[r] *)
(* says what was asked, stage[r] where it is, and rows[r] and number[r]    *)
(* what it has read.  Between two statements others may commit.  Requests  *)
(* of one statement that matters are one step.  Who may ask for what is    *)
(* ClubMembership's matter.                                                *)
(***************************************************************************)
EXTENDS Integers, FiniteSets, SequencesExt

CONSTANTS
  Player,       \* users who take the quiz
  Request,      \* slots for requests in flight
  Guess,        \* player -> question -> the answer the player would give
  Key,          \* question -> the answer it is added with
  MaxQuestions, \* bound: questions ever added
  MaxEdits,     \* bound: requests of organizers about questions
  MaxOrder,     \* bound: ids in the order a request asks for
  MaxSessions,  \* bound: sessions ever opened
  MaxTime       \* bound on the clock

ASSUME BoundAssumption ==
  /\ MaxQuestions \in Nat /\ MaxEdits \in Nat /\ MaxOrder \in Nat
  /\ MaxSessions \in Nat /\ MaxTime \in Nat

Question == 1..MaxQuestions
Answer == {0, 1}

ASSUME AnswersAssumption ==
  Guess \in [Player -> [Question -> Answer]] /\ Key \in [Question -> Answer]

VARIABLES
  questions, \* question -> [position, correct], for those that exist
  added,     \* how many were ever added
  edits,     \* requests of organizers about them
  isActive,  \* quizzes.is_active
  sessions,  \* Seq of [startedAt, open], in the order of their commits
  attempt,   \* player -> NoAttempt or [score, at, session]
  time,      \* of the database; several transactions may begin at one instant
  page,      \* client: the questions in the order they were shown in
  game,      \* client: the session that was active then, 0 if none
  stale,     \* history: the list has shifted since it was shown
  call,      \* request -> what was asked
  stage,     \* request -> its next statement
  rows,      \* request -> the questions it read
  number,    \* add: the position it computed; submit: its score
  crossed,   \* history: what it was given or has read no longer holds
  uneven     \* history: something put the positions out of step

quiz == <<questions, added, isActive, sessions, attempt>>
client == <<page, game>>
requests == <<edits, call, stage, rows, number>>
history == <<stale, crossed, uneven>>
vars == <<quiz, time, client, requests, history>>

NoAttempt == [score |-> 0, at |-> -1, session |-> 0]
NoRows == [q \in {} |-> 0]
Place == 0..(MaxQuestions + MaxOrder)
Row == [position : Place, correct : Answer]
Session == [startedAt : 0..MaxTime, open : BOOLEAN]
RowsOver(S) == UNION {[T -> Row] : T \in SUBSET S}

NoCall == [op |-> "add", list |-> <<>>]
Edit == [op : {"add", "update", "delete", "reorder"}, list : Seq(Question)]
Submission == [op : {"submit"}, list : Seq(Question), by : Player, at : 0..MaxTime,
               session : 0..MaxSessions]
Attempt == [score : 0..MaxQuestions, at : 0..MaxTime, session : 0..MaxSessions]

(* Only the type of the state.                                             *)
TypeOK ==
  /\ questions \in RowsOver(Question)
  /\ added \in 0..MaxQuestions
  /\ edits \in 0..MaxEdits
  /\ isActive \in BOOLEAN
  /\ sessions \in Seq(Session)
  /\ attempt \in [Player -> {NoAttempt} \cup Attempt]
  /\ time \in 0..MaxTime
  /\ page \in [Player -> Seq(Question)]
  /\ game \in [Player -> 0..MaxSessions]
  /\ stale \in [Player -> BOOLEAN]
  /\ call \in [Request -> Edit \cup Submission]
  /\ stage \in [Request -> {"idle", "checked", "read"}]
  /\ rows \in [Request -> RowsOver(Question)]
  /\ number \in [Request -> 0..MaxQuestions]
  /\ crossed \in [Request -> BOOLEAN]
  /\ uneven \in BOOLEAN

Init ==
  /\ questions = NoRows
  /\ added = 0
  /\ edits = 0
  /\ isActive = FALSE
  /\ sessions = <<>>
  /\ attempt = [u \in Player |-> NoAttempt]
  /\ time = 0
  /\ page = [u \in Player |-> <<>>]
  /\ game = [u \in Player |-> 0]
  /\ stale = [u \in Player |-> FALSE]
  /\ call = [r \in Request |-> NoCall]
  /\ stage = [r \in Request |-> "idle"]
  /\ rows = [r \in Request |-> NoRows]
  /\ number = [r \in Request |-> 0]
  /\ crossed = [r \in Request |-> FALSE]
  /\ uneven = FALSE

-----------------------------------------------------------------------------
(* Helpers.                                                                *)

Exists(q) == q \in DOMAIN questions

(* Mutant of InOrder: the SELECT without its ORDER BY.                     *)
InAnyOrder(s) == TRUE

(* get_questions: ORDER BY position leaves those that share one unordered. *)
InOrder(s) ==
  \A i, j \in DOMAIN s : i < j => questions[s[i]].position <= questions[s[j]].position

Listings == {s \in SetToSeqs(DOMAIN questions) : InOrder(s)}

(* Answers are indexed by the list they were given for, and marked by the  *)
(* list s.                                                                 *)
Marks(answers, s) ==
  Cardinality({i \in DOMAIN s : i <= Len(answers) /\ answers[i] = questions[s[i]].correct})

(* The answers a player gives to the questions on a page.                  *)
AnswersTo(u, s) == [i \in DOMAIN s |-> Guess[u][s[i]]]

(* get_active_session: the one that started last of those still open.      *)
IsActiveSession(s) ==
  /\ sessions[s].open
  /\ \A t \in DOMAIN sessions :
       sessions[t].open => sessions[t].startedAt <= sessions[s].startedAt

ActiveSession ==
  IF \E s \in DOMAIN sessions : IsActiveSession(s)
  THEN CHOOSE s \in DOMAIN sessions : IsActiveSession(s)
  ELSE 0

(* Mutant of Since: created_at > started_at.                               *)
After(u, s) == attempt[u].at > sessions[s].startedAt

(* get_attempts_with_users_since: created_at >= started_at.                *)
Since(u, s) == attempt[u].at >= sessions[s].startedAt

(* get_quiz_leaderboard: whoever has an attempt since the session began,   *)
(* the session being closed or not.                                        *)
Board(s) == {u \in Player : attempt[u] # NoAttempt /\ Since(u, s)}

Goto(r, s) == stage' = [stage EXCEPT ![r] = s]

(* Answered, failed and rolled back, or committed.                         *)
End(r) ==
  /\ Goto(r, "idle")
  /\ call' = [call EXCEPT ![r] = NoCall]
  /\ rows' = [rows EXCEPT ![r] = NoRows]
  /\ number' = [number EXCEPT ![r] = 0]
  /\ UNCHANGED edits

At(r, op, s) == call[r].op = op /\ stage[r] = s

(* The commit takes a question away, moves one, or adds one elsewhere than  *)
(* at the end: the list is no longer the one that was shown.               *)
Shifts ==
  \/ \E q \in DOMAIN questions :
       ~(q \in DOMAIN questions' /\ questions'[q].position = questions[q].position)
  \/ \E q \in DOMAIN questions' \ DOMAIN questions, p \in DOMAIN questions :
       questions'[q].position <= questions[p].position

(* What it is to the requests that place questions, too.                   *)
Moves == Shifts \/ DOMAIN questions' # DOMAIN questions

Edited(r) ==
  /\ crossed' = [p \in Request |->
       p # r /\ \/ crossed[p]
                \/ At(p, "submit", "checked") /\ Shifts
                \/ call[p].op # "submit" /\ stage[p] = "read" /\ Moves]
  /\ stale' = [u \in Player |-> stale[u] \/ Shifts]

NotEdited(r) == crossed' = [crossed EXCEPT ![r] = FALSE] /\ UNCHANGED stale

-----------------------------------------------------------------------------
(* Organizers.                                                             *)

Free(r) == stage[r] = "idle" /\ edits < MaxEdits

(* A request has passed its checks and read what it will write from.       *)
Reads(r, c, rs, n) ==
  /\ Free(r)
  /\ edits' = edits + 1
  /\ call' = [call EXCEPT ![r] = c]
  /\ rows' = [rows EXCEPT ![r] = rs]
  /\ number' = [number EXCEPT ![r] = n]
  /\ Goto(r, "read")
  /\ UNCHANGED <<quiz, time, client, history>>

(* Mutant of NextPosition: off by one.                                     *)
NextPositionBelow == Cardinality(DOMAIN questions) - 1

(* count_questions.                                                        *)
NextPosition == Cardinality(DOMAIN questions)

CountQuestions(r) ==
  /\ added < MaxQuestions
  /\ Reads(r, NoCall, NoRows, NextPosition)

AddQuestion(r) ==
  /\ At(r, "add", "read")
  /\ added < MaxQuestions
  /\ added' = added + 1
  /\ questions' = [q \in DOMAIN questions \cup {added + 1} |->
                     IF Exists(q) THEN questions[q]
                     ELSE [position |-> number[r], correct |-> Key[added + 1]]]
  /\ uneven' = (uneven \/ crossed[r])
  /\ Edited(r)
  /\ End(r)
  /\ UNCHANGED <<isActive, sessions, attempt, time, client>>

(* get_question and get_questions_by_ids: of the questions the request     *)
(* lists those that are there; none for an update or deletion is a 404.    *)
FindQuestions(r, op, list) ==
  LET found == ToSet(list) \cap DOMAIN questions
  IN /\ found # {}
     /\ Reads(r, [op |-> op, list |-> list], [q \in found |-> questions[q]], 0)

(* Any list of ids: questions may be missing from it, or stand in it more  *)
(* than once, which only takes up places, as unknown ids would.            *)
FindOrder(r) ==
  /\ Free(r)
  /\ \E n \in 1..MaxOrder : \E s \in [1..n -> 1..added] : FindQuestions(r, "reorder", s)

(* Only what differs from what was read is written ...                     *)
Changes(r, new) == {q \in DOMAIN new : new[q] # rows[r][q]}

Merged(read, wanted, is) == IF wanted # read THEN wanted ELSE is

Write(r, new) ==
  [q \in DOMAIN questions |->
     IF q \notin Changes(r, new) THEN questions[q]
     ELSE [position |-> Merged(rows[r][q].position, new[q].position, questions[q].position),
           correct |-> Merged(rows[r][q].correct, new[q].correct, questions[q].correct)]]

(* Mutant of Placed: enumerate(ordered_ids, 1).                            *)
PlacedFromOne(s, q) == Max({i \in DOMAIN s : s[i] = q})

(* The last place an id has in the order is the one that stays.            *)
Placed(s, q) == Max({i \in DOMAIN s : s[i] = q}) - 1

(* update_question and reorder_questions: what the rows shall become; an   *)
(* update corrects the answer.                                             *)
Wanted(r) ==
  [q \in DOMAIN rows[r] |->
     IF call[r].op = "update" THEN [rows[r][q] EXCEPT !.correct = 1 - Key[q]]
     ELSE [rows[r][q] EXCEPT !.position = Placed(call[r].list, q)]]

UpdateQuestion(r) ==
  /\ At(r, "update", "read")
  /\ Changes(r, Wanted(r)) \subseteq DOMAIN questions
  /\ questions' = Write(r, Wanted(r))
  /\ Edited(r)
  /\ End(r)
  /\ UNCHANGED <<added, isActive, sessions, attempt, time, client, uneven>>

(* The rows of several changes go to the driver as one executemany, which  *)
(* does not report how many of them it found.                              *)
ReorderQuestions(r) ==
  /\ At(r, "reorder", "read")
  /\ \/ Changes(r, Wanted(r)) \subseteq DOMAIN questions
     \/ Cardinality(Changes(r, Wanted(r))) > 1
  /\ questions' = Write(r, Wanted(r))
  /\ uneven' = IF call[r].list \in SetToSeqs(DOMAIN questions) /\ ~crossed[r] THEN FALSE
               ELSE uneven \/ Moves
  /\ Edited(r)
  /\ End(r)
  /\ UNCHANGED <<added, isActive, sessions, attempt, time, client>>

(* ... and a changed row that is gone makes the flush fail, if noticed.    *)
ChangeFails(r) ==
  /\ call[r].op \in {"update", "reorder"} /\ stage[r] = "read"
  /\ ~(Changes(r, Wanted(r)) \subseteq DOMAIN questions)
  /\ NotEdited(r)
  /\ End(r)
  /\ UNCHANGED <<quiz, time, client, uneven>>

(* Deleting the question in the last position leaves the others in step;   *)
(* deleting one that is gone is no error.                                  *)
DeleteQuestion(r) ==
  LET gone == DOMAIN rows[r] \cap DOMAIN questions
  IN /\ At(r, "delete", "read")
     /\ questions' = [q \in DOMAIN questions \ gone |-> questions[q]]
     /\ uneven' = (uneven \/ \E q \in gone, p \in DOMAIN questions :
                               questions[p].position > questions[q].position)
     /\ Edited(r)
     /\ End(r)
     /\ UNCHANGED <<added, isActive, sessions, attempt, time, client>>

SetActive(v) ==
  /\ isActive' = v
  /\ UNCHANGED <<questions, added, sessions, attempt, time, client, requests, history>>

(* started_at is the start t of the transaction that commits now.          *)
CreateSession(t) ==
  /\ Len(sessions) < MaxSessions
  /\ t <= time
  /\ sessions' = Append(sessions, [startedAt |-> t, open |-> TRUE])
  /\ UNCHANGED <<questions, added, isActive, attempt, time, client, requests, history>>

CloseSession(s) ==
  /\ s \in DOMAIN sessions
  /\ sessions' = [sessions EXCEPT ![s].open = FALSE]
  /\ UNCHANGED <<questions, added, isActive, attempt, time, client, requests, history>>

-----------------------------------------------------------------------------
(* Players.                                                                *)

(* get_questions and get_active_session: what a player's client shows to   *)
(* a player who has yet to take the quiz (in as many tabs as there are     *)
(* requests).                                                              *)
Show(u) ==
  /\ attempt[u] = NoAttempt
  /\ \E s \in Listings : page' = [page EXCEPT ![u] = s]
  /\ game' = [game EXCEPT ![u] = ActiveSession]
  /\ stale' = [stale EXCEPT ![u] = FALSE]
  /\ UNCHANGED <<quiz, time, requests, crossed, uneven>>

(* A player sends the answers for the page; the quiz must be on.           *)
AskSubmit(r, u) ==
  /\ stage[r] = "idle"
  /\ isActive
  /\ page[u] # <<>>
  /\ call' = [call EXCEPT ![r] =
       [op |-> "submit", list |-> page[u], by |-> u, at |-> time, session |-> game[u]]]
  /\ crossed' = [crossed EXCEPT ![r] = stale[u]]
  /\ Goto(r, "checked")
  /\ UNCHANGED <<quiz, time, client, edits, rows, number, stale, uneven>>

(* The questions are read again and the answers marked.                    *)
MarkAnswers(r) ==
  /\ At(r, "submit", "checked")
  /\ \E s \in Listings :
       number' = [number EXCEPT ![r] = Marks(AnswersTo(call[r].by, call[r].list), s)]
  /\ call' = [call EXCEPT ![r].list = <<>>]
  /\ Goto(r, "read")
  /\ NotEdited(r)
  /\ UNCHANGED <<quiz, time, client, edits, rows, uneven>>

(* uq_quiz_attempts_quiz_user.                                             *)
MayAttempt(u) == attempt[u] = NoAttempt

SubmitAttempt(r) ==
  LET u == call[r].by
  IN /\ At(r, "submit", "read")
     /\ MayAttempt(u)
     /\ attempt' = [attempt EXCEPT ![u] =
          [score |-> number[r], at |-> call[r].at, session |-> call[r].session]]
     /\ NotEdited(r)
     /\ End(r)
     /\ UNCHANGED <<questions, added, isActive, sessions, time, client, uneven>>

SubmitFails(r) ==
  /\ At(r, "submit", "read")
  /\ ~MayAttempt(call[r].by)
  /\ NotEdited(r)
  /\ End(r)
  /\ UNCHANGED <<quiz, time, client, uneven>>

Tick ==
  /\ time < MaxTime
  /\ time' = time + 1
  /\ UNCHANGED <<quiz, client, requests, history>>

-----------------------------------------------------------------------------
Next ==
  \/ \E r \in Request :
       \/ CountQuestions(r) \/ AddQuestion(r)
       \/ \E q \in Question :
            FindQuestions(r, "delete", <<q>>) \/ FindQuestions(r, "update", <<q>>)
       \/ FindOrder(r)
       \/ UpdateQuestion(r) \/ ReorderQuestions(r) \/ ChangeFails(r) \/ DeleteQuestion(r)
       \/ \E u \in Player : AskSubmit(r, u)
       \/ MarkAnswers(r) \/ SubmitAttempt(r) \/ SubmitFails(r)
  \/ \E v \in BOOLEAN : SetActive(v)
  \/ \E t \in 0..MaxTime : CreateSession(t)
  \/ \E s \in 1..MaxSessions : CloseSession(s)
  \/ \E u \in Player : Show(u)
  \/ Tick

Spec == Init /\ [][Next]_vars

-----------------------------------------------------------------------------
(* Properties.                                                             *)

(* The positions are 0, 1, 2, ... without a gap or a tie, as long as, since *)
(* all questions were last put in order, each once, none was deleted from  *)
(* the middle, no other order moved any, and no request that placed some   *)
(* was crossed by another (add_question counts and inserts,                *)
(* reorder_questions writes what differs from what it read).               *)
PositionsAreEven ==
  uneven \/ {questions[q].position : q \in DOMAIN questions}
              = 0..(Cardinality(DOMAIN questions) - 1)

Tied == \E p, q \in DOMAIN questions : p # q /\ questions[p].position = questions[q].position

(* An attempt is marked as its player saw the questions: answers are sent  *)
(* by index and marked by index against a list read anew, and still each   *)
(* is marked against the question it was given for, by the key that one    *)
(* has now, whatever was corrected, or added at the end, in between; but   *)
(* not if a question was deleted, moved, or added before others, or two    *)
(* share a position (submit_quiz_attempt).                                 *)
MarkedAsShown ==
  [][\A r \in Request : At(r, "submit", "checked") /\ stage'[r] = "read" =>
       \/ number'[r] = Cardinality({q \in ToSet(call[r].list) :
                          q \in DOMAIN questions
                            /\ Guess[call[r].by][q] = questions[q].correct})
       \/ crossed[r]
       \/ Tied]_vars

(* Whoever answered while shown a session as the active one is on that     *)
(* session's board: both dates are starts of transactions, and a board     *)
(* begins with the instant its session does.                               *)
BoardsKeepTheirPlayers ==
  \A u \in Player :
    attempt[u] # NoAttempt /\ attempt[u].session # 0 => u \in Board(attempt[u].session)

=============================================================================
