------------------------- MODULE CasePipelineProofs -------------------------
(***************************************************************************)
(* Theorems of CasePipeline, for any sets of cases, workers and appeal     *)
(* requests and any bounds.                                                *)
(***************************************************************************)
EXTENDS CasePipeline, FiniteSetTheorems, TLAPS

-----------------------------------------------------------------------------
(* Types, and the worker and request variables that go with a state.       *)

\* A busy worker has a case, and an answer that its stage can give.
BusyWorkers ==
  \A w \in Workers :
    /\ pc[w] \in {"running", "answered"} => wcase[w] \in Cases
    /\ pc[w] = "answered" => answer[w] \in Outcomes(wstage[w])

\* A request past its check has a case.
BusyRequests ==
  \A r \in Appellants : request[r] \in {"checked", "accepted", "error"} => rcase[r] \in Cases

Typed == TypeOK /\ BusyWorkers /\ BusyRequests

\* Touch keeps a set of pairs of cases.
LEMMA TouchType ==
  ASSUME older \subseteq Cases \X Cases, NEW S \in SUBSET Cases
  PROVE  Touch(S) \subseteq Cases \X Cases
BY DEF Touch

\* Every outcome is one of the answers.
LEMMA OutcomesAreAnswers == \A s \in Stages : Outcomes(s) \subseteq Answers
BY DEF Outcomes, Answers, Stages

LEMMA InitTyped == Init => Typed
<1> SUFFICES ASSUME Init PROVE Typed
  OBVIOUS
<1>1. TypeOK
  BY BoundsAssumption DEF Init, TypeOK, Statuses, Stages, Revisions, Answers, WorkerStates, RequestStates
<1>2. BusyWorkers /\ BusyRequests
  BY DEF Init, BusyWorkers, BusyRequests
<1> QED
  BY <1>1, <1>2 DEF Typed

\* A worker that commits: what Complete does to the types.
LEMMA CompleteTyped ==
  ASSUME Typed, NEW w \in Workers, NEW st \in Statuses, NEW sg \in Stages, Complete(w, st, sg)
  PROVE  /\ wcase[w] \in Cases
         /\ status' \in [Cases -> Statuses]
         /\ stage' \in [Cases -> Stages]
         /\ attempts' \in [Cases -> [Stages -> Nat]]
         /\ lockedBy' \in [Cases -> Workers \union {NoWorker}]
         /\ expired' \subseteq Cases
         /\ older' \subseteq Cases \X Cases
         /\ appealUsed' \subseteq Cases
         /\ appeals' \subseteq Cases
         /\ pc' \in [Workers -> WorkerStates]
         /\ wcase' \in [Workers -> Cases \union {NoCase}]
         /\ wstage' \in [Workers -> Stages]
         /\ answer' \in [Workers -> Answers]
         /\ request' \in [Appellants -> RequestStates]
         /\ rcase' \in [Appellants -> Cases \union {NoCase}]
         /\ stalls' \in 0..MaxStalls
         /\ crashes' \in 0..MaxCrashes
         /\ BusyWorkers' /\ BusyRequests'
<1> USE DEF Typed, TypeOK
<1>1. wcase[w] \in Cases
  BY DEF BusyWorkers, Complete
<1>2. older' \subseteq Cases \X Cases
  BY <1>1, TouchType DEF Complete
<1>3. BusyWorkers' /\ BusyRequests'
  BY DEF BusyWorkers, BusyRequests, Complete, Leave, requestVars
<1> QED
  BY <1>1, <1>2, <1>3 DEF Complete, Leave, Unlocked, Stages, Answers, WorkerStates, requestVars, boundVars

LEMMA StepTyped ==
  ASSUME Typed, [Next]_vars
  PROVE  Typed'
<1> USE DEF Typed, TypeOK
<1>1. ASSUME NEW c \in Cases, Submit(c)
      PROVE  Typed'
  <2>1. older' \subseteq Cases \X Cases
    BY <1>1, TouchType DEF Submit
  <2>2. BusyWorkers' /\ BusyRequests'
    BY <1>1 DEF BusyWorkers, BusyRequests, Submit, workerVars, requestVars
  <2> QED
    BY <1>1, <2>1, <2>2 DEF Submit, Statuses, fileVars, workerVars, requestVars, boundVars
<1>2. ASSUME NEW c \in Cases, Elapse(c)
      PROVE  Typed'
  <2>1. BusyWorkers' /\ BusyRequests'
    BY <1>2 DEF BusyWorkers, BusyRequests, Elapse, workerVars, requestVars
  <2>2. stalls' \in 0..MaxStalls
    BY <1>2, BoundsAssumption DEF Elapse
  <2> QED
    BY <1>2, <2>1, <2>2 DEF Elapse, fileVars, workerVars, requestVars
<1>3. ASSUME NEW w \in Workers, Start(w) \/ PickNothing(w)
      PROVE  Typed'
  <2>1. BusyWorkers' /\ BusyRequests'
    BY <1>3 DEF BusyWorkers, BusyRequests, Start, PickNothing, requestVars
  <2> QED
    BY <1>3, <2>1 DEF Start, PickNothing, WorkerStates, dbVars, caseVars, fileVars, requestVars, boundVars
<1>4. ASSUME NEW w \in Workers, Reap(w)
      PROVE  Typed'
  <2>1. older' \subseteq Cases \X Cases
    BY <1>4, TouchType DEF Reap, Stale
  <2>2. BusyWorkers' /\ BusyRequests'
    BY <1>4 DEF BusyWorkers, BusyRequests, Reap, requestVars
  <2> QED
    BY <1>4, <2>1, <2>2 DEF Reap, Stale, Unlocked, Statuses, WorkerStates, fileVars, requestVars, boundVars
<1>5. ASSUME NEW w \in Workers, NEW c \in Cases, PickUp(w, c)
      PROVE  Typed'
  <2>1. older' \subseteq Cases \X Cases
    BY <1>5, TouchType DEF PickUp
  <2>2. BusyWorkers' /\ BusyRequests'
    BY <1>5 DEF BusyWorkers, BusyRequests, PickUp, requestVars
  <2>3. attempts' \in [Cases -> [Stages -> Nat]]
    BY <1>5 DEF PickUp
  <2> QED
    BY <1>5, <2>1, <2>2, <2>3 DEF PickUp, Statuses, WorkerStates, fileVars, requestVars, boundVars
<1>6. ASSUME NEW w \in Workers, Heartbeat(w)
      PROVE  Typed'
  <2>1. older' \subseteq Cases \X Cases
    BY <1>6, TouchType DEF Heartbeat, BusyWorkers
  <2>2. BusyWorkers' /\ BusyRequests'
    BY <1>6 DEF BusyWorkers, BusyRequests, Heartbeat, workerVars, requestVars
  <2> QED
    BY <1>6, <2>1, <2>2 DEF Heartbeat, fileVars, workerVars, requestVars, boundVars
<1>7. ASSUME NEW w \in Workers, NEW a \in Answers, Answer(w, a)
      PROVE  Typed'
  <2>1. BusyWorkers' /\ BusyRequests'
    BY <1>7 DEF BusyWorkers, BusyRequests, Answer, requestVars
  <2> QED
    BY <1>7, <2>1 DEF Answer, WorkerStates, dbVars, caseVars, fileVars, requestVars, boundVars
<1>8. ASSUME NEW w \in Workers, Commit(w)
      PROVE  Typed'
  <2>1. CASE CommitRaises(w) \/ CommitStale(w)
    <3>1. BusyWorkers' /\ BusyRequests'
      BY <2>1 DEF BusyWorkers, BusyRequests, CommitRaises, CommitStale, Leave, requestVars
    <3> QED
      BY <2>1, <3>1 DEF CommitRaises, CommitStale, Leave, Stages, Answers, WorkerStates,
                        dbVars, caseVars, fileVars, requestVars, boundVars
  <2>2. CASE Indict(w)
    BY <2>2, CompleteTyped DEF Indict, Statuses, Stages
  <2>3. CASE Dismiss(w)
    BY <2>3, CompleteTyped DEF Dismiss, Statuses, Stages
  <2>4. CASE Plead(w)
    BY <2>4, CompleteTyped DEF Plead, Statuses, Stages
  <2>5. CASE Sentence(w)
    <3>1. judgments' \in [Cases -> [Revisions -> Rulings \union {NoRuling}]]
      BY <2>5 DEF Sentence, Revisions
    <3> QED
      BY <2>5, <3>1, CompleteTyped DEF Sentence, Statuses, Stages
  <2>6. CASE Rejudge(w)
    <3>1. judgments' \in [Cases -> [Revisions -> Rulings \union {NoRuling}]]
      BY <2>6 DEF Rejudge, Revisions
    <3>2. revision' \in [Cases -> Revisions]
      BY <2>6 DEF Rejudge, RejudgmentRevision, Revisions
    <3>3. Complete(w, "SENTENCED", "rejudgment")
      BY <2>6 DEF Rejudge
    <3>4. wcase[w] \in Cases
      BY <3>3 DEF Complete, BusyWorkers
    <3>5. overturned' \subseteq Cases
      BY <2>6, <3>4 DEF Rejudge
    <3> QED
      BY <2>6, <3>1, <3>2, <3>3, <3>5, CompleteTyped DEF Rejudge, Statuses, Stages
  <2>7. CASE Retry(w)
    BY <2>7, CompleteTyped DEF Retry, Statuses
  <2>8. CASE GiveUp(w)
    <3>1. Complete(w, GivenUpStatus(wstage[w]), wstage[w])
      BY <2>8 DEF GiveUp
    <3>2. GivenUpStatus(wstage[w]) \in Statuses
      BY DEF GivenUpStatus, Statuses
    <3> QED
      BY <2>8, <3>1, <3>2, CompleteTyped DEF GiveUp
  <2> QED
    BY <1>8, <2>1, <2>2, <2>3, <2>4, <2>5, <2>6, <2>7, <2>8 DEF Commit
<1>9. ASSUME NEW w \in Workers, Crash(w)
      PROVE  Typed'
  <2>1. BusyWorkers' /\ BusyRequests'
    BY <1>9 DEF BusyWorkers, BusyRequests, Crash, Leave, requestVars
  <2>2. crashes' \in 0..MaxCrashes
    BY <1>9, BoundsAssumption DEF Crash
  <2> QED
    BY <1>9, <2>1, <2>2 DEF Crash, Leave, Stages, Answers, WorkerStates,
                            dbVars, caseVars, fileVars, requestVars
<1>10. ASSUME NEW r \in Appellants, NEW c \in Cases, AppealCheck(r, c) \/ AppealRefuse(r, c)
       PROVE  Typed'
  <2>1. BusyWorkers' /\ BusyRequests'
    BY <1>10 DEF BusyWorkers, BusyRequests, AppealCheck, AppealRefuse, workerVars
  <2> QED
    BY <1>10, <2>1 DEF AppealCheck, AppealRefuse, RequestStates, dbVars, caseVars, fileVars, workerVars, boundVars
<1>11. ASSUME NEW r \in Appellants, AppealAccept(r)
       PROVE  Typed'
  <2>1. rcase[r] \in Cases
    BY <1>11 DEF AppealAccept, BusyRequests
  <2>2. older' \subseteq Cases \X Cases
    BY <1>11, <2>1, TouchType DEF AppealAccept
  <2>3. BusyWorkers' /\ BusyRequests'
    BY <1>11 DEF BusyWorkers, BusyRequests, AppealAccept, workerVars
  <2> QED
    BY <1>11, <2>1, <2>2, <2>3 DEF AppealAccept, Statuses, Stages, RequestStates, workerVars, boundVars
<1>12. ASSUME NEW r \in Appellants, AppealRaises(r)
       PROVE  Typed'
  <2>1. BusyWorkers' /\ BusyRequests'
    BY <1>12 DEF BusyWorkers, BusyRequests, AppealRaises, workerVars
  <2> QED
    BY <1>12, <2>1 DEF AppealRaises, RequestStates, dbVars, caseVars, fileVars, workerVars, boundVars
<1>13. CASE UNCHANGED vars
  BY <1>13 DEF vars, BusyWorkers, BusyRequests
<1> QED
  BY <1>1, <1>2, <1>3, <1>4, <1>5, <1>6, <1>7, <1>8, <1>9, <1>10, <1>11, <1>12, <1>13 DEF Next


-----------------------------------------------------------------------------
(* The file of a case.                                                     *)

\* Between its check and its write a request's case can only be sentenced
\* once, or already appealed; an accepted request left its row.
CheckedRequests ==
  \A r \in Appellants :
    /\ request[r] = "checked" =>
         \/ rcase[r] \in appeals
         \/ status[rcase[r]] = "SENTENCED" /\ stage[rcase[r]] = "judgment"
    /\ request[r] = "accepted" => rcase[r] \in appeals

Record ==
  /\ FileMatchesStage
  /\ EndingMatchesStage
  /\ OverturnedWhenChanged
  /\ OneAppealPerCase
  /\ GivenUpWhenExhausted
  /\ CheckedRequests

\* A commit of a worker that holds the lock is about the very stage the case
\* is at, and its answer is one this stage can give.
LEMMA CompleteHolds ==
  ASSUME Typed, NEW w \in Workers, NEW st, NEW sg, Complete(w, st, sg)
  PROVE  /\ wcase[w] \in Cases
         /\ status[wcase[w]] = "WORKING"
         /\ lockedBy[wcase[w]] = w
         /\ stage[wcase[w]] = wstage[w]
         /\ answer[w] \in Outcomes(wstage[w])
BY DEF Typed, Complete, HoldsLock, BusyWorkers

LEMMA InitRecord == Init => Record
BY NullAssumption DEF Init, Record, FileMatchesStage, EndingMatchesStage, OverturnedWhenChanged,
   OneAppealPerCase, GivenUpWhenExhausted, CheckedRequests, Revisions

\* A step that leaves the file and the requests alone, and of each case at
\* most changes a status that is not its ending, keeps the record.
LEMMA RecordUndisturbed ==
  ASSUME Typed, Record,
         UNCHANGED <<stage, fileVars, requestVars, revision, appealUsed, rejudgmentFailed>>,
         \A d \in Cases :
           \/ status'[d] = status[d] /\ attempts'[d] = attempts[d]
           \/ status[d] = "ABSENT" /\ status'[d] = "QUEUED"
           \/ status[d] \in {"QUEUED", "WORKING"} /\ status'[d] \in {"QUEUED", "WORKING"}
  PROVE  Record'
<1> USE DEF Record, Typed, fileVars, requestVars
<1>1. FileMatchesStage'
  BY DEF FileMatchesStage, TypeOK
<1>2. EndingMatchesStage'
  BY DEF EndingMatchesStage, TypeOK
<1>3. OverturnedWhenChanged'
  BY DEF OverturnedWhenChanged
<1>4. OneAppealPerCase'
  BY DEF OneAppealPerCase
<1>5. GivenUpWhenExhausted'
  BY DEF GivenUpWhenExhausted, EndingMatchesStage
<1>6. CheckedRequests'
  BY DEF CheckedRequests, BusyRequests
<1> QED
  BY <1>1, <1>2, <1>3, <1>4, <1>5, <1>6

\* Case c leaves its stage for status st of stage sg, its appeal untouched.
Moved(c, st, sg) ==
  /\ c \in Cases
  /\ status[c] = "WORKING"
  /\ \A d \in Cases : status'[d] = IF d = c THEN st ELSE status[d]
  /\ \A d \in Cases : stage'[d] = IF d = c THEN sg ELSE stage[d]
  /\ UNCHANGED <<attempts, appealUsed, appeals, request, rcase>>

LEMMA CompleteMoves ==
  ASSUME Typed, NEW w \in Workers, NEW st, NEW sg, Complete(w, st, sg)
  PROVE  Moved(wcase[w], st, sg) /\ stage[wcase[w]] = wstage[w]
BY CompleteHolds DEF Typed, TypeOK, Complete, Moved, requestVars

\* A move other than into or out of the rejudgment keeps what concerns appeals.
LEMMA MoveKeepsAppeals ==
  ASSUME Typed, Record, NEW c, NEW st, NEW sg, Moved(c, st, sg),
         sg = "rejudgment" <=> stage[c] = "rejudgment"
  PROVE  OneAppealPerCase' /\ CheckedRequests'
<1>1. OneAppealPerCase'
  BY DEF Record, OneAppealPerCase, Moved
<1>2. CheckedRequests'
  BY DEF Record, CheckedRequests, Typed, BusyRequests, Moved
<1> QED
  BY <1>1, <1>2

LEMMA CommitRecord ==
  ASSUME Typed, Record, NEW w \in Workers, Commit(w)
  PROVE  Record'
<1> DEFINE c == wcase[w]
<1>1. CASE CommitRaises(w) \/ CommitStale(w)
  BY <1>1, RecordUndisturbed DEF CommitRaises, CommitStale, dbVars, caseVars
<1>2. CASE Indict(w)
  <2>1. answer[w] = "charges" /\ Complete(w, "QUEUED", "defense") /\ wstage[w] = "prosecution"
    BY <1>2, CompleteHolds, RulingsAssumption DEF Indict, Outcomes, Stages, Typed, TypeOK
  <2>2. Moved(c, "QUEUED", "defense") /\ stage[c] = "prosecution"
    BY <2>1, CompleteMoves
  <2>3. FileMatchesStage'
    BY <1>2, <2>2 DEF Record, FileMatchesStage, Moved, Indict
  <2>4. EndingMatchesStage'
    BY <1>2, <2>2 DEF Record, EndingMatchesStage, Moved, Indict
  <2>5. OverturnedWhenChanged'
    BY <1>2 DEF Record, OverturnedWhenChanged, Indict
  <2>6. GivenUpWhenExhausted'
    BY <1>2, <2>2 DEF Record, GivenUpWhenExhausted, EndingMatchesStage, Moved, Indict
  <2> QED
    BY <2>2, <2>3, <2>4, <2>5, <2>6, MoveKeepsAppeals DEF Record
<1>3. CASE Dismiss(w)
  <2>1. answer[w] = "no_charges" /\ Complete(w, "DISMISSED", "prosecution") /\ wstage[w] = "prosecution"
    BY <1>3, CompleteHolds, RulingsAssumption DEF Dismiss, Outcomes, Stages, Typed, TypeOK
  <2>2. Moved(c, "DISMISSED", "prosecution") /\ stage[c] = "prosecution"
    BY <2>1, CompleteMoves
  <2>3. FileMatchesStage'
    BY <1>3, <2>2 DEF Record, FileMatchesStage, Moved, Dismiss
  <2>4. EndingMatchesStage'
    BY <1>3, <2>2 DEF Record, EndingMatchesStage, Moved, Dismiss
  <2>5. OverturnedWhenChanged'
    BY <1>3 DEF Record, OverturnedWhenChanged, Dismiss
  <2>6. GivenUpWhenExhausted'
    BY <1>3, <2>2 DEF Record, GivenUpWhenExhausted, EndingMatchesStage, Moved, Dismiss
  <2> QED
    BY <2>2, <2>3, <2>4, <2>5, <2>6, MoveKeepsAppeals DEF Record
<1>4. CASE Plead(w)
  <2>1. answer[w] = "pleas" /\ Complete(w, "QUEUED", "judgment") /\ wstage[w] = "defense"
    BY <1>4, CompleteHolds, RulingsAssumption DEF Plead, Outcomes, Stages, Typed, TypeOK
  <2>2. Moved(c, "QUEUED", "judgment") /\ stage[c] = "defense"
    BY <2>1, CompleteMoves
  <2>3. FileMatchesStage'
    BY <1>4, <2>2 DEF Record, FileMatchesStage, Moved, Plead
  <2>4. EndingMatchesStage'
    BY <1>4, <2>2 DEF Record, EndingMatchesStage, Moved, Plead
  <2>5. OverturnedWhenChanged'
    BY <1>4 DEF Record, OverturnedWhenChanged, Plead
  <2>6. GivenUpWhenExhausted'
    BY <1>4, <2>2 DEF Record, GivenUpWhenExhausted, EndingMatchesStage, Moved, Plead
  <2> QED
    BY <2>2, <2>3, <2>4, <2>5, <2>6, MoveKeepsAppeals DEF Record
<1>5. CASE Sentence(w)
  <2>1. /\ answer[w] \in Rulings /\ answer[w] # NoRuling
        /\ Complete(w, "SENTENCED", "judgment") /\ wstage[w] = "judgment"
    BY <1>5, NullAssumption DEF Sentence
  <2>2. Moved(c, "SENTENCED", "judgment") /\ stage[c] = "judgment"
    BY <2>1, CompleteMoves
  <2>3. /\ \A d \in Cases \ {c} : judgments'[d] = judgments[d]
        /\ judgments'[c][0] = answer[w]
        /\ judgments'[c][1] = judgments[c][1]
        /\ UNCHANGED <<charges, pleas, overturned, revision, rejudgmentFailed>>
    BY <1>5, <2>2 DEF Sentence, Moved, Typed, TypeOK, Revisions
  <2>4. FileMatchesStage'
    BY <2>1, <2>2, <2>3 DEF Record, FileMatchesStage, Moved
  <2>5. EndingMatchesStage'
    BY <2>2, <2>3 DEF Record, EndingMatchesStage, Moved
  <2>6. OverturnedWhenChanged'
    <3>1. judgments[c][1] = NoRuling
      BY <2>2 DEF Record, FileMatchesStage, Moved, Typed, TypeOK
    <3> QED
      BY <2>3, <3>1 DEF Record, OverturnedWhenChanged
  <2>7. GivenUpWhenExhausted'
    BY <2>2, <2>3 DEF Record, GivenUpWhenExhausted, EndingMatchesStage, Moved
  <2> QED
    BY <2>2, <2>4, <2>5, <2>6, <2>7, MoveKeepsAppeals DEF Record
<1>6. CASE Rejudge(w)
  <2>1. /\ answer[w] \in Rulings /\ answer[w] # NoRuling
        /\ Complete(w, "SENTENCED", "rejudgment") /\ wstage[w] = "rejudgment"
    BY <1>6, NullAssumption DEF Rejudge
  <2>2. Moved(c, "SENTENCED", "rejudgment") /\ stage[c] = "rejudgment"
    BY <2>1, CompleteMoves
  <2>3. /\ \A d \in Cases \ {c} : judgments'[d] = judgments[d]
        /\ judgments'[c][1] = answer[w]
        /\ judgments'[c][0] = judgments[c][0]
        /\ \A d \in Cases : revision'[d] = IF d = c THEN 1 ELSE revision[d]
        /\ UNCHANGED <<charges, pleas, rejudgmentFailed>>
    BY <1>6, <2>2 DEF Rejudge, RejudgmentRevision, Moved, Typed, TypeOK, Revisions
  <2>4. FileMatchesStage'
    BY <2>1, <2>2, <2>3 DEF Record, FileMatchesStage, Moved
  <2>5. EndingMatchesStage'
    BY <2>2, <2>3 DEF Record, EndingMatchesStage, Moved
  <2>6. OverturnedWhenChanged'
    <3>1. judgments[c][1] = NoRuling
      BY <2>2 DEF Record, FileMatchesStage, Moved, Typed, TypeOK
    <3>2. c \notin overturned
      BY <2>2, <3>1 DEF Record, OverturnedWhenChanged, Moved
    <3>3. overturned' = IF answer[w] # judgments[c][0] THEN overturned \union {c} ELSE overturned
      BY <1>6 DEF Rejudge, Changed
    <3> QED
      BY <2>1, <2>3, <3>2, <3>3 DEF Record, OverturnedWhenChanged
  <2>7. GivenUpWhenExhausted'
    BY <2>2, <2>3 DEF Record, GivenUpWhenExhausted, EndingMatchesStage, Moved
  <2> QED
    BY <2>2, <2>4, <2>5, <2>6, <2>7, MoveKeepsAppeals DEF Record
<1>7. CASE Retry(w)
  <2>1. Moved(c, "QUEUED", wstage[w]) /\ stage[c] = wstage[w]
    BY <1>7, CompleteMoves DEF Retry
  <2>2. FileMatchesStage'
    BY <1>7, <2>1 DEF Record, FileMatchesStage, Moved, Retry
  <2>3. EndingMatchesStage'
    BY <1>7, <2>1 DEF Record, EndingMatchesStage, Moved, Retry
  <2>4. OverturnedWhenChanged'
    BY <1>7 DEF Record, OverturnedWhenChanged, Retry
  <2>5. GivenUpWhenExhausted'
    BY <1>7, <2>1 DEF Record, GivenUpWhenExhausted, EndingMatchesStage, Moved, Retry
  <2> QED
    BY <2>1, <2>2, <2>3, <2>4, <2>5, MoveKeepsAppeals DEF Record
<1>8. CASE GiveUp(w)
  <2>1. Moved(c, GivenUpStatus(wstage[w]), wstage[w]) /\ stage[c] = wstage[w]
    BY <1>8, CompleteMoves DEF GiveUp
  <2>2. attempts[c][wstage[w]] >= MAX_STAGE_ATTEMPTS
    BY <1>8 DEF GiveUp, Exhausted
  <2>3. FileMatchesStage'
    BY <1>8, <2>1 DEF Record, FileMatchesStage, Moved, GiveUp, GivenUpStatus
  <2>4. EndingMatchesStage'
    BY <1>8, <2>1 DEF Record, EndingMatchesStage, FileMatchesStage, Moved, GiveUp, GivenUpStatus
  <2>5. OverturnedWhenChanged'
    BY <1>8 DEF Record, OverturnedWhenChanged, GiveUp
  <2>6. GivenUpWhenExhausted'
    BY <1>8, <2>1, <2>2 DEF Record, GivenUpWhenExhausted, EndingMatchesStage, Moved, GiveUp
  <2> QED
    BY <2>1, <2>3, <2>4, <2>5, <2>6, MoveKeepsAppeals DEF Record
<1> QED
  BY <1>1, <1>2, <1>3, <1>4, <1>5, <1>6, <1>7, <1>8 DEF Commit

LEMMA AppealRecord ==
  ASSUME Typed, Record, NEW r \in Appellants, AppealAccept(r)
  PROVE  Record'
<1> USE DEF Record
<1> DEFINE c == rcase[r]
<1>1. /\ c \in Cases /\ c \notin appeals
      /\ status[c] = "SENTENCED" /\ stage[c] = "judgment"
  BY DEF AppealAccept, HasAppealRow, CheckedRequests, Typed, BusyRequests
<1>2. /\ \A d \in Cases : status'[d] = IF d = c THEN "QUEUED" ELSE status[d]
      /\ \A d \in Cases : stage'[d] = IF d = c THEN "rejudgment" ELSE stage[d]
      /\ appeals' = appeals \union {c} /\ appealUsed' = appealUsed \union {c}
      /\ \A q \in Appellants : request'[q] = IF q = r THEN "accepted" ELSE request[q]
      /\ UNCHANGED <<charges, pleas, judgments, overturned, revision, rejudgmentFailed, attempts, rcase>>
  BY <1>1 DEF AppealAccept, Typed, TypeOK
<1> HIDE DEF c
<1>3. FileMatchesStage'
  BY <1>1, <1>2 DEF FileMatchesStage, EndingMatchesStage
<1>4. EndingMatchesStage'
  BY <1>1, <1>2 DEF EndingMatchesStage
<1>5. OverturnedWhenChanged'
  BY <1>2 DEF OverturnedWhenChanged
<1>6. GivenUpWhenExhausted'
  BY <1>1, <1>2 DEF GivenUpWhenExhausted, EndingMatchesStage
<1>7. rcase[r] = c
  BY DEF c
<1>8. OneAppealPerCase'
  <2>1. \A d \in appealUsed' : \E q \in Appellants : request'[q] = "accepted" /\ rcase'[q] = d
    BY <1>2, <1>7 DEF OneAppealPerCase
  <2>2. \A q \in Appellants : request[q] = "accepted" => rcase[q] # c
    BY <1>1 DEF CheckedRequests
  <2> QED
    BY <1>1, <1>2, <1>7, <2>1, <2>2 DEF OneAppealPerCase
<1>9. CheckedRequests'
  BY <1>1, <1>2, <1>7 DEF CheckedRequests, Typed, BusyRequests
<1> QED
  BY <1>3, <1>4, <1>5, <1>6, <1>8, <1>9

LEMMA StepRecord ==
  ASSUME Typed, Record, [Next]_vars
  PROVE  Record'
<1>1. ASSUME NEW c \in Cases, Submit(c) \/ Elapse(c)
      PROVE  Record'
  BY <1>1, RecordUndisturbed DEF Submit, Elapse, Typed, TypeOK
<1>2. ASSUME NEW w \in Workers, NEW c \in Cases, PickUp(w, c)
      PROVE  Record'
  BY <1>2, RecordUndisturbed DEF PickUp, NextInLine, Typed, TypeOK
<1>3. ASSUME NEW w \in Workers, Reap(w)
      PROVE  Record'
  BY <1>3, RecordUndisturbed DEF Reap, Stale, Typed, TypeOK
<1>4. ASSUME NEW w \in Workers, Start(w) \/ PickNothing(w) \/ Heartbeat(w) \/ Crash(w)
      PROVE  Record'
  BY <1>4, RecordUndisturbed DEF Start, PickNothing, Heartbeat, Crash, dbVars, caseVars
<1>5. ASSUME NEW w \in Workers, NEW a \in Answers, Answer(w, a)
      PROVE  Record'
  BY <1>5, RecordUndisturbed DEF Answer, dbVars, caseVars
<1>6. ASSUME NEW w \in Workers, Commit(w)
      PROVE  Record'
  BY <1>6, CommitRecord
<1>7. ASSUME NEW r \in Appellants, AppealAccept(r)
      PROVE  Record'
  BY <1>7, AppealRecord
<1>8. ASSUME NEW r \in Appellants, NEW c \in Cases,
             AppealCheck(r, c) \/ AppealRefuse(r, c) \/ AppealRaises(r)
      PROVE  Record'
  <2> USE <1>8 DEF AppealCheck, AppealRefuse, AppealRaises, Typed, TypeOK
  <2>1. UNCHANGED dbVars
    OBVIOUS
  <2>2. /\ FileMatchesStage' /\ EndingMatchesStage'
        /\ OverturnedWhenChanged' /\ GivenUpWhenExhausted'
    BY <2>1 DEF Record, FileMatchesStage, EndingMatchesStage, OverturnedWhenChanged,
                GivenUpWhenExhausted, dbVars, caseVars, fileVars
  <2>3. \A q \in Appellants : /\ request[q] = "accepted" <=> request'[q] = "accepted"
                              /\ request[q] = "accepted" => rcase'[q] = rcase[q]
    OBVIOUS
  <2>4. OneAppealPerCase'
    BY <2>1, <2>3 DEF Record, OneAppealPerCase, dbVars, caseVars, fileVars
  <2>5. CheckedRequests'
    <3>1. Appealable(c) => stage[c] = "judgment" /\ status[c] = "SENTENCED"
      BY DEF Appealable, Record, OneAppealPerCase, EndingMatchesStage
    <3> QED
      BY <2>1, <3>1 DEF Record, CheckedRequests, BusyRequests, dbVars, caseVars, fileVars
  <2> QED
    BY <2>2, <2>4, <2>5 DEF Record
<1>9. CASE UNCHANGED vars
  BY <1>9, RecordUndisturbed DEF vars, fileVars, requestVars
<1>10. ASSUME NEW r \in Appellants, AppealRaises(r)
       PROVE  Record'
  <2>1. UNCHANGED dbVars /\ UNCHANGED rcase
    BY <1>10 DEF AppealRaises
  <2>2. \A q \in Appellants :
          request'[q] = request[q] \/ (request'[q] = "error" /\ request[q] = "checked")
    BY <1>10 DEF AppealRaises, Typed, TypeOK
  <2> QED
    BY <2>1, <2>2 DEF Record, FileMatchesStage, EndingMatchesStage, OverturnedWhenChanged, OneAppealPerCase,
       GivenUpWhenExhausted, CheckedRequests, dbVars, caseVars, fileVars
<1> QED
  BY <1>1, <1>2, <1>3, <1>4, <1>5, <1>6, <1>7, <1>8, <1>9, <1>10 DEF Next

-----------------------------------------------------------------------------
(* The lock and its owner.                                                 *)

\* A live worker owns no lock but that of the case it is busy with.
LEMMA OnlyItsCase ==
  ASSUME Typed, LockAgreement, NEW w \in Workers, w \notin Dead,
         NEW d \in Cases, lockedBy[d] = w
  PROVE  /\ status[d] = "WORKING"
         /\ pc[w] \in {"running", "answered"}
         /\ wcase[w] = d
         /\ wstage[w] = stage[d]
<1>1. w # NoWorker
  BY NullAssumption
<1> QED
  BY <1>1 DEF LockAgreement

LEMMA CompleteLockAgreement ==
  ASSUME Typed, LockAgreement, NEW w \in Workers, NEW st \in Statuses \ {"WORKING"},
         NEW sg, Complete(w, st, sg)
  PROVE  LockAgreement'
<1> USE DEF Typed, TypeOK
<1> SUFFICES ASSUME NEW d \in Cases
             PROVE  /\ status'[d] = "WORKING" <=> lockedBy'[d] # NoWorker
                    /\ status'[d] = "WORKING" =>
                         \/ lockedBy'[d] \in Dead'
                         \/ /\ pc'[lockedBy'[d]] \in {"running", "answered"}
                            /\ wcase'[lockedBy'[d]] = d
                            /\ wstage'[lockedBy'[d]] = stage'[d]
  BY DEF LockAgreement
<1>1. CASE d = wcase[w]
  BY <1>1, CompleteHolds DEF Complete, Unlocked
<1>2. CASE d # wcase[w]
  <2>1. lockedBy[d] # w
    BY <1>2, OnlyItsCase DEF Complete, Dead
  <2>2. /\ status'[d] = status[d] /\ stage'[d] = stage[d] /\ lockedBy'[d] = lockedBy[d]
    BY <1>2 DEF Complete, Unlocked
  <2> QED
    BY <2>1, <2>2, NullAssumption DEF LockAgreement, Complete, Leave, Dead
<1> QED
  BY <1>1, <1>2

LEMMA StepLockAgreement ==
  ASSUME Typed, Record, LockAgreement, [Next]_vars
  PROVE  LockAgreement'
<1> USE DEF Typed, TypeOK
<1>1. ASSUME NEW c \in Cases, Submit(c)
      PROVE  LockAgreement'
  BY <1>1 DEF LockAgreement, Submit, Dead, workerVars
<1>2. ASSUME NEW c \in Cases, Elapse(c)
      PROVE  LockAgreement'
  BY <1>2 DEF LockAgreement, Elapse, Dead, workerVars
<1>3. ASSUME NEW w \in Workers, Start(w) \/ PickNothing(w)
      PROVE  LockAgreement'
  <2>1. \A d \in Cases : lockedBy[d] # w
    BY <1>3, OnlyItsCase DEF Start, PickNothing, Dead
  <2> QED
    BY <1>3, <2>1 DEF LockAgreement, Start, PickNothing, Dead, dbVars, caseVars
<1>4. ASSUME NEW w \in Workers, Reap(w)
      PROVE  LockAgreement'
  BY <1>4, NullAssumption DEF LockAgreement, Reap, Stale, Unlocked, Dead
<1>5. ASSUME NEW w \in Workers, NEW c \in Cases, PickUp(w, c)
      PROVE  LockAgreement'
  <2> SUFFICES ASSUME NEW d \in Cases
               PROVE  /\ status'[d] = "WORKING" <=> lockedBy'[d] # NoWorker
                      /\ status'[d] = "WORKING" =>
                           \/ lockedBy'[d] \in Dead'
                           \/ /\ pc'[lockedBy'[d]] \in {"running", "answered"}
                              /\ wcase'[lockedBy'[d]] = d
                              /\ wstage'[lockedBy'[d]] = stage'[d]
    BY DEF LockAgreement
  <2>1. CASE d = c
    BY <1>5, <2>1, NullAssumption DEF PickUp
  <2>2. CASE d # c
    <3>1. lockedBy[d] # w
      BY <1>5, OnlyItsCase DEF PickUp, Dead
    <3> QED
      BY <1>5, <2>2, <3>1, NullAssumption DEF LockAgreement, PickUp, Dead
  <2> QED
    BY <2>1, <2>2
<1>6. ASSUME NEW w \in Workers, Heartbeat(w)
      PROVE  LockAgreement'
  BY <1>6 DEF LockAgreement, Heartbeat, Dead, workerVars
<1>7. ASSUME NEW w \in Workers, NEW a \in Answers, Answer(w, a)
      PROVE  LockAgreement'
  BY <1>7, NullAssumption DEF LockAgreement, Answer, Dead, dbVars, caseVars
<1>8. ASSUME NEW w \in Workers, Commit(w)
      PROVE  LockAgreement'
  <2>1. CASE CommitRaises(w)
    BY <2>1, NullAssumption DEF LockAgreement, CommitRaises, Leave, Dead, dbVars, caseVars
  <2>2. CASE CommitStale(w)
    \* The case of a lock that w held would be wcase[w], and w does not hold it.
    <3>1. ASSUME NEW d \in Cases, lockedBy[d] = w
          PROVE  FALSE
      <4>1. pc[w] = "answered" /\ ~HoldsLock(w) /\ w \notin Dead
        BY <2>2 DEF CommitStale, Dead
      <4> QED
        BY <3>1, <4>1, OnlyItsCase DEF HoldsLock
    <3> QED
      BY <2>2, <3>1, NullAssumption DEF LockAgreement, CommitStale, Leave, Dead, dbVars, caseVars
  <2>3. CASE Indict(w)
    BY <2>3, CompleteLockAgreement DEF Indict, Statuses
  <2>4. CASE Dismiss(w)
    BY <2>4, CompleteLockAgreement DEF Dismiss, Statuses
  <2>5. CASE Plead(w)
    BY <2>5, CompleteLockAgreement DEF Plead, Statuses
  <2>6. CASE Sentence(w)
    BY <2>6, CompleteLockAgreement DEF Sentence, Statuses
  <2>7. CASE Rejudge(w)
    <3>1. Complete(w, "SENTENCED", "rejudgment")
      BY <2>7 DEF Rejudge
    <3> QED
      BY <3>1, CompleteLockAgreement DEF Statuses
  <2>8. CASE Retry(w)
    BY <2>8, CompleteLockAgreement DEF Retry, Statuses
  <2>9. CASE GiveUp(w)
    <3>1. GivenUpStatus(wstage[w]) \in Statuses \ {"WORKING"}
      BY DEF GivenUpStatus, Statuses
    <3> QED
      BY <2>9, <3>1, CompleteLockAgreement DEF GiveUp
  <2> QED
    BY <1>8, <2>1, <2>2, <2>3, <2>4, <2>5, <2>6, <2>7, <2>8, <2>9 DEF Commit
<1>9. ASSUME NEW w \in Workers, Crash(w)
      PROVE  LockAgreement'
  BY <1>9, NullAssumption DEF LockAgreement, Crash, Leave, Dead, dbVars, caseVars
<1>10. ASSUME NEW r \in Appellants, NEW c \in Cases, AppealCheck(r, c) \/ AppealRefuse(r, c)
       PROVE  LockAgreement'
  BY <1>10 DEF LockAgreement, AppealCheck, AppealRefuse, Dead, dbVars, caseVars, workerVars
<1>11. CASE UNCHANGED vars
  BY <1>11 DEF vars, LockAgreement, Dead
<1>12. ASSUME NEW r \in Appellants, AppealRaises(r)
       PROVE  LockAgreement'
  BY <1>12 DEF LockAgreement, AppealRaises, Dead, dbVars, caseVars, workerVars
<1>13. ASSUME NEW r \in Appellants, AppealAccept(r)
       PROVE  LockAgreement'
  <2>1. rcase[r] \in Cases /\ status[rcase[r]] = "SENTENCED"
    BY <1>13 DEF AppealAccept, HasAppealRow, Record, CheckedRequests, BusyRequests
  <2> QED
    BY <1>13, <2>1 DEF LockAgreement, AppealAccept, Dead, workerVars
<1> QED
  BY <1>1, <1>2, <1>3, <1>4, <1>5, <1>6, <1>7, <1>8, <1>9, <1>10, <1>11, <1>12, <1>13 DEF Next

-----------------------------------------------------------------------------
(* Attempts and lost locks.                                                *)

\* A case that waits in its queue, or whose lock is lost but not yet reaped,
\* is going to be picked up once more.
GoesAround(c) ==
  \/ status[c] = "QUEUED"
  \/ status[c] = "WORKING" /\ (lockedBy[c] \in Dead \/ c \in expired)

Unreached(s) ==
  IF s = "prosecution" THEN {"defense", "judgment", "rejudgment"}
  ELSE IF s = "defense" THEN {"judgment", "rejudgment"}
  ELSE IF s = "judgment" THEN {"rejudgment"} ELSE {}

Lost == stalls + Cardinality(Dead)

\* A lost lock is paid for before the case is picked up again.
Counted(c) ==
  /\ \A s \in Stages : attempts[c][s] <= MAX_STAGE_ATTEMPTS + Lost
  /\ GoesAround(c) => attempts[c][stage[c]] + 1 <= MAX_STAGE_ATTEMPTS + Lost
  /\ \A s \in Unreached(stage[c]) : attempts[c][s] = 0
  /\ status[c] = "ABSENT" => attempts[c]["prosecution"] = 0

AttemptsCounted == \A c \in Cases : Counted(c)

LEMMA DeadCounted ==
  /\ IsFiniteSet(Dead) /\ Cardinality(Dead) \in Nat
  /\ IsFiniteSet(Dead') /\ Cardinality(Dead') \in Nat
  /\ Dead \subseteq Dead' => Cardinality(Dead) <= Cardinality(Dead')
  /\ \A w : w \notin Dead /\ Dead' = Dead \union {w}
              => Cardinality(Dead') = Cardinality(Dead) + 1
<1>1. Dead \subseteq Workers /\ Dead' \subseteq Workers
  BY DEF Dead
<1>2. IsFiniteSet(Dead) /\ IsFiniteSet(Dead')
  BY <1>1, WorkersAssumption, FS_Subset
<1> QED
  BY <1>2, FS_Subset, FS_CardinalityType, FS_AddElement

LEMMA LostIs ==
  ASSUME stalls \in Nat
  PROVE  /\ Lost \in Nat
         /\ Dead' = Dead /\ stalls' = stalls => Lost' = Lost
         /\ Dead' = Dead /\ stalls' = stalls + 1 => Lost' = Lost + 1
         /\ \A w : w \notin Dead /\ Dead' = Dead \union {w} /\ stalls' = stalls => Lost' = Lost + 1
BY DeadCounted DEF Lost

\* A case that comes to its queue for a stage that was not tried yet.
LEMMA CountsFromZero ==
  ASSUME NEW c \in Cases, Counted(c), Lost \in Nat, Lost' = Lost, attempts' = attempts,
         attempts[c][stage'[c]] = 0, Unreached(stage'[c]) \subseteq Unreached(stage[c]),
         status'[c] # "ABSENT"
  PROVE  Counted(c)'
BY BoundsAssumption DEF Counted

\* A step that neither loses a lock nor queues or picks up a case.
LEMMA CountsRest ==
  ASSUME Typed, NEW c \in Cases, Counted(c),
         attempts'[c] = attempts[c], Dead \subseteq Dead', stalls' \in Nat, stalls <= stalls',
         stage'[c] = stage[c], status'[c] = "ABSENT" => status[c] = "ABSENT",
         GoesAround(c)' => GoesAround(c)
  PROVE  Counted(c)'
<1>1. Lost \in Nat /\ Lost' \in Nat /\ Lost <= Lost'
  BY DeadCounted, BoundsAssumption DEF Lost, Typed, TypeOK
<1>2. \A s \in Stages : attempts[c][s] \in Nat
  BY DEF Typed, TypeOK
<1>3. stage[c] \in Stages
  BY DEF Typed, TypeOK
<1> QED
  BY <1>1, <1>2, <1>3, BoundsAssumption DEF Counted

\* A commit of the case's worker.
LEMMA CommitCounts ==
  ASSUME Typed, NEW w \in Workers, NEW st \in Statuses \ {"ABSENT", "WORKING"}, NEW sg \in Stages,
         Complete(w, st, sg), AttemptsCounted,
         st = "QUEUED" => IF sg = wstage[w] THEN ~ Exhausted(w) ELSE sg \in Unreached(wstage[w]),
         Unreached(sg) \subseteq Unreached(wstage[w])
  PROVE  AttemptsCounted'
<1> SUFFICES ASSUME NEW c \in Cases PROVE Counted(c)'
  BY DEF AttemptsCounted
<1>1. Dead' = Dead /\ stalls' = stalls /\ attempts' = attempts
  BY DEF Complete, Leave, Dead, boundVars, Typed, TypeOK
<1>2. Lost \in Nat /\ Lost' = Lost
  BY <1>1, DeadCounted, BoundsAssumption DEF Lost, Typed, TypeOK
<1>3. CASE c # wcase[w]
  <2>1. /\ status'[c] = status[c] /\ stage'[c] = stage[c] /\ lockedBy'[c] = lockedBy[c]
        /\ c \in expired' => c \in expired
    BY <1>3 DEF Complete, Unlocked, Typed, TypeOK
  <2> QED
    BY <1>1, <2>1, CountsRest, BoundsAssumption DEF AttemptsCounted, GoesAround, Typed, TypeOK
<1>4. CASE c = wcase[w]
  <2>1. /\ stage[c] = wstage[w] /\ status'[c] = st /\ stage'[c] = sg
    BY <1>4, CompleteHolds DEF Complete, Typed, TypeOK
  <2>2. Counted(c) /\ \A s \in Stages : attempts[c][s] \in Nat
    BY DEF AttemptsCounted, Typed, TypeOK
  <2>3. st = "QUEUED" => attempts[c][sg] + 1 <= MAX_STAGE_ATTEMPTS + Lost
    <3>1. CASE sg = wstage[w] /\ st = "QUEUED"
      BY <1>2, <1>4, <2>2, <3>1, BoundsAssumption DEF Exhausted
    <3>2. CASE sg # wstage[w] /\ st = "QUEUED"
      BY <1>2, <2>1, <2>2, <3>2, BoundsAssumption DEF Counted
    <3> QED
      BY <3>1, <3>2
  <2> QED
    BY <1>1, <1>2, <2>1, <2>2, <2>3 DEF Counted, GoesAround
<1> QED
  BY <1>3, <1>4

LEMMA StepCounts ==
  ASSUME Typed, Record, LockAgreement, AttemptsCounted, [Next]_vars
  PROVE  AttemptsCounted'
<1>0. stalls \in Nat /\ \A c \in Cases : Counted(c) /\ \A s \in Stages : attempts[c][s] \in Nat
  BY BoundsAssumption DEF AttemptsCounted, Typed, TypeOK
<1>1. ASSUME NEW c \in Cases, Submit(c)
      PROVE  AttemptsCounted'
  <2> SUFFICES ASSUME NEW d \in Cases PROVE Counted(d)'
    BY DEF AttemptsCounted
  <2>1. Dead' = Dead /\ stalls' = stalls
    BY <1>1 DEF Submit, Dead, workerVars, boundVars, Typed, TypeOK
  <2>2. CASE d # c
    <3>1. /\ attempts'[d] = attempts[d] /\ stage'[d] = stage[d] /\ status'[d] = status[d]
          /\ lockedBy'[d] = lockedBy[d] /\ expired' = expired
      BY <1>1, <2>2 DEF Submit, Typed, TypeOK
    <3>2. GoesAround(d)' => GoesAround(d)
      BY <2>1, <3>1 DEF GoesAround
    <3> QED
      BY <1>0, <2>1, <3>1, <3>2, CountsRest
  <2>3. CASE d = c
    <3>1. stage[c] = "prosecution" /\ status[c] = "ABSENT" /\ attempts'[c] = attempts[c]
          /\ stage'[c] = stage[c] /\ status'[c] = "QUEUED"
      BY <1>1 DEF Submit, Record, EndingMatchesStage, Typed, TypeOK
    <3>2. attempts' = attempts /\ attempts[c]["prosecution"] = 0
      BY <1>0, <1>1, <3>1 DEF Submit, Counted, Typed, TypeOK
    <3> QED
      BY <1>0, <2>1, <2>3, <3>1, <3>2, LostIs, CountsFromZero
  <2> QED
    BY <2>2, <2>3
<1>2. ASSUME NEW c \in Cases, Elapse(c)
      PROVE  AttemptsCounted'
  <2> SUFFICES ASSUME NEW d \in Cases PROVE Counted(d)'
    BY DEF AttemptsCounted
  <2>1. Dead' = Dead /\ stalls' \in Nat /\ stalls <= stalls'
    BY <1>0, <1>2 DEF Elapse, Dead, workerVars, Typed, TypeOK
  <2>2. CASE d # c \/ lockedBy[c] \in Dead
    <3>1. /\ attempts' = attempts /\ stage' = stage /\ status' = status
          /\ lockedBy' = lockedBy /\ (d \in expired' => d \in expired \/ d = c)
      BY <1>2 DEF Elapse, Typed, TypeOK
    <3>2. GoesAround(d)' => GoesAround(d)
      BY <2>1, <2>2, <3>1 DEF GoesAround
    <3> QED
      BY <1>0, <2>1, <3>1, <3>2, CountsRest
  <2>3. CASE d = c /\ lockedBy[c] \notin Dead
    <3>0. stalls' = stalls + 1
      BY <1>2, <2>3 DEF Elapse, Typed, TypeOK
    <3>1. Lost \in Nat /\ Lost' = Lost + 1
      BY <1>0, <2>1, <3>0, LostIs
    <3>2. attempts' = attempts /\ stage' = stage /\ status' = status
      BY <1>2 DEF Elapse, Typed, TypeOK
    <3> QED
      BY <1>0, <2>3, <3>1, <3>2, BoundsAssumption DEF Counted, Typed, TypeOK
  <2> QED
    BY <2>2, <2>3
<1>3. ASSUME NEW w \in Workers, Start(w) \/ PickNothing(w) \/ \E a \in Answers : Answer(w, a)
      PROVE  AttemptsCounted'
  <2>1. Dead' = Dead /\ stalls' = stalls
    BY <1>3 DEF Start, PickNothing, Answer, Dead, boundVars, Typed, TypeOK
  <2>2. UNCHANGED <<attempts, stage, status, lockedBy, expired>>
    BY <1>3 DEF Start, PickNothing, Answer, dbVars, caseVars, Typed, TypeOK
  <2> QED
    BY <1>0, <2>1, <2>2, CountsRest DEF AttemptsCounted, GoesAround
<1>4. ASSUME NEW w \in Workers, Reap(w)
      PROVE  AttemptsCounted'
  <2>1. Dead' = Dead /\ stalls' = stalls
    BY <1>4 DEF Reap, Dead, boundVars, Typed, TypeOK
  <2>2. ASSUME NEW d \in Cases
        PROVE  Counted(d)'
    <3>1. /\ attempts' = attempts /\ stage' = stage
          /\ status'[d] = "ABSENT" => status[d] = "ABSENT"
      BY <1>4 DEF Reap, Typed, TypeOK
    <3>2. GoesAround(d)' => GoesAround(d)
      BY <1>4, <2>1 DEF Reap, Stale, Unlocked, GoesAround, Typed, TypeOK
    <3> QED
      BY <1>0, <2>1, <3>1, <3>2, CountsRest
  <2> QED
    BY <2>2 DEF AttemptsCounted
<1>5. ASSUME NEW w \in Workers, NEW c \in Cases, PickUp(w, c)
      PROVE  AttemptsCounted'
  <2> SUFFICES ASSUME NEW d \in Cases PROVE Counted(d)'
    BY DEF AttemptsCounted
  <2>1. Dead' = Dead /\ stalls' = stalls
    BY <1>5 DEF PickUp, Dead, boundVars, Typed, TypeOK
  <2>2. CASE d # c
    <3>1. /\ attempts'[d] = attempts[d] /\ stage'[d] = stage[d] /\ status'[d] = status[d]
          /\ lockedBy'[d] = lockedBy[d] /\ (d \in expired' => d \in expired)
      BY <1>5, <2>2 DEF PickUp, Typed, TypeOK
    <3>2. GoesAround(d)' => GoesAround(d)
      BY <2>1, <3>1 DEF GoesAround
    <3> QED
      BY <1>0, <2>1, <3>1, <3>2, CountsRest
  <2>3. CASE d = c
    <3>1. Lost \in Nat /\ Lost' = Lost
      BY <1>0, <2>1, LostIs
    <3>2. /\ status[c] = "QUEUED" /\ status'[c] = "WORKING" /\ stage'[c] = stage[c]
          /\ stage[c] \in Stages /\ lockedBy'[c] = w /\ c \notin expired' /\ w \notin Dead
          /\ \A s \in Stages :
               attempts'[c][s] = IF s = stage[c] THEN attempts[c][s] + 1 ELSE attempts[c][s]
      BY <1>5 DEF PickUp, NextInLine, Dead, Typed, TypeOK
    <3>3. Unreached(stage[c]) \subseteq Stages \ {stage[c]}
      BY DEF Unreached, Stages, Typed, TypeOK
    <3>4. ~ GoesAround(c)'
      BY <2>1, <3>2 DEF GoesAround
    <3>5. \A s \in Stages : attempts'[c][s] <= MAX_STAGE_ATTEMPTS + Lost
      BY <1>0, <3>2 DEF Counted, GoesAround, Typed, TypeOK
    <3> QED
      BY <1>0, <2>3, <3>1, <3>2, <3>3, <3>4, <3>5 DEF Counted, Typed, TypeOK
  <2> QED
    BY <2>2, <2>3
<1>6. ASSUME NEW w \in Workers, Heartbeat(w)
      PROVE  AttemptsCounted'
  <2>1. Dead' = Dead /\ stalls' = stalls
    BY <1>6 DEF Heartbeat, Dead, workerVars, boundVars, Typed, TypeOK
  <2>2. /\ UNCHANGED <<attempts, stage, status, lockedBy>>
        /\ \A c \in Cases : c \in expired' => c \in expired
    BY <1>6 DEF Heartbeat
  <2> QED
    BY <1>0, <2>1, <2>2, CountsRest DEF AttemptsCounted, GoesAround
<1>7. ASSUME NEW w \in Workers, CommitRaises(w) \/ Crash(w)
      PROVE  AttemptsCounted'
  <2> SUFFICES ASSUME NEW d \in Cases PROVE Counted(d)'
    BY DEF AttemptsCounted
  <2>1. Dead' = Dead \union {w} /\ w \notin Dead /\ stalls' = stalls
    BY <1>7 DEF CommitRaises, Crash, Leave, Dead, boundVars, Typed, TypeOK
  <2>2. UNCHANGED <<attempts, stage, status, lockedBy, expired>>
    BY <1>7 DEF CommitRaises, Crash, dbVars, caseVars, Typed, TypeOK
  <2>3. Lost \in Nat /\ Lost' = Lost + 1
    BY <1>0, <2>1, LostIs
  <2> QED
    BY <1>0, <2>2, <2>3, BoundsAssumption DEF Counted, Typed, TypeOK
<1>8. ASSUME NEW w \in Workers, Commit(w)
      PROVE  AttemptsCounted'
  <2>0. wstage[w] \in Stages /\ (pc[w] = "answered" => answer[w] \in Outcomes(wstage[w]))
    BY DEF BusyWorkers, Typed, TypeOK
  <2>1. CASE CommitStale(w)
    <3>1. Dead' = Dead /\ stalls' = stalls
      BY <2>1 DEF CommitStale, Leave, Dead, boundVars, Typed, TypeOK
    <3>2. UNCHANGED <<attempts, stage, status, lockedBy, expired>>
      BY <2>1 DEF CommitStale, dbVars, caseVars, Typed, TypeOK
    <3>3. \A c \in Cases : GoesAround(c)' => GoesAround(c)
      BY <3>1, <3>2 DEF GoesAround
    <3> QED
      BY <1>0, <3>1, <3>2, <3>3, CountsRest DEF AttemptsCounted
  <2>2. CASE Indict(w)
    <3>1. Complete(w, "QUEUED", "defense") /\ wstage[w] = "prosecution"
      BY <2>0, <2>2, RulingsAssumption DEF Indict, Complete, Outcomes, Typed, TypeOK
    <3> QED
      BY <3>1, CommitCounts DEF Statuses, Stages, Unreached
  <2>3. CASE Dismiss(w)
    <3>1. Complete(w, "DISMISSED", "prosecution") /\ wstage[w] = "prosecution"
      BY <2>0, <2>3, RulingsAssumption DEF Dismiss, Complete, Outcomes, Typed, TypeOK
    <3> QED
      BY <3>1, CommitCounts DEF Statuses, Stages, Unreached
  <2>4. CASE Plead(w)
    <3>1. Complete(w, "QUEUED", "judgment") /\ wstage[w] = "defense"
      BY <2>0, <2>4, RulingsAssumption DEF Plead, Complete, Outcomes, Typed, TypeOK
    <3> QED
      BY <3>1, CommitCounts DEF Statuses, Stages, Unreached
  <2>5. CASE Sentence(w)
    <3>1. Complete(w, "SENTENCED", "judgment") /\ wstage[w] = "judgment"
      BY <2>5 DEF Sentence, Typed, TypeOK
    <3> QED
      BY <3>1, CommitCounts DEF Statuses, Stages, Unreached
  <2>6. CASE Rejudge(w)
    <3>1. Complete(w, "SENTENCED", "rejudgment") /\ wstage[w] = "rejudgment"
      BY <2>6 DEF Rejudge, Typed, TypeOK
    <3> QED
      BY <3>1, CommitCounts DEF Statuses, Stages, Unreached
  <2>7. CASE Retry(w)
    BY <2>0, <2>7, CommitCounts DEF Retry, Statuses
  <2>8. CASE GiveUp(w)
    <3>1. GivenUpStatus(wstage[w]) \in Statuses \ {"ABSENT", "WORKING", "QUEUED"}
      BY DEF GivenUpStatus, Statuses, Typed, TypeOK
    <3> QED
      BY <2>0, <2>8, <3>1, CommitCounts DEF GiveUp
  <2> QED
    BY <1>7, <1>8, <2>1, <2>2, <2>3, <2>4, <2>5, <2>6, <2>7, <2>8 DEF Commit
<1>9. ASSUME NEW r \in Appellants,
             AppealRaises(r) \/ \E c \in Cases : AppealCheck(r, c) \/ AppealRefuse(r, c)
      PROVE  AttemptsCounted'
  <2>1. Dead' = Dead /\ stalls' = stalls
    BY <1>9 DEF AppealCheck, AppealRefuse, AppealRaises, Dead, workerVars, boundVars, Typed, TypeOK
  <2>2. UNCHANGED <<attempts, stage, status, lockedBy, expired>>
    BY <1>9 DEF AppealCheck, AppealRefuse, AppealRaises, dbVars, caseVars, Typed, TypeOK
  <2> QED
    BY <1>0, <2>1, <2>2, CountsRest DEF AttemptsCounted, GoesAround
<1>10. ASSUME NEW r \in Appellants, AppealAccept(r)
       PROVE  AttemptsCounted'
  <2>0. PICK c : c = rcase[r]
    OBVIOUS
  <2>1. c \in Cases /\ status[c] = "SENTENCED" /\ stage[c] = "judgment"
    BY <1>10, <2>0 DEF AppealAccept, HasAppealRow, Record, CheckedRequests, BusyRequests, Typed, TypeOK
  <2>2. Dead' = Dead /\ stalls' = stalls
    BY <1>10 DEF AppealAccept, Dead, workerVars, boundVars, Typed, TypeOK
  <2>3. /\ attempts' = attempts /\ lockedBy' = lockedBy /\ expired' = expired
        /\ status' = [status EXCEPT ![c] = "QUEUED"] /\ stage' = [stage EXCEPT ![c] = "rejudgment"]
    BY <1>10, <2>0 DEF AppealAccept, Typed, TypeOK
  <2>4. Counted(c)'
    <3>1. status'[c] = "QUEUED" /\ stage'[c] = "rejudgment"
      BY <2>1, <2>3 DEF Typed, TypeOK
    <3>2. attempts[c]["rejudgment"] = 0
      BY <1>0, <2>1 DEF Counted, Unreached, Typed, TypeOK
    <3>3. Unreached("rejudgment") = {}
      BY DEF Unreached, Typed, TypeOK
    <3> QED
      BY <1>0, <2>1, <2>2, <2>3, <3>1, <3>2, <3>3, LostIs, CountsFromZero
  <2>5. ASSUME NEW d \in Cases \ {c}
        PROVE  Counted(d)'
    <3>1. status'[d] = status[d] /\ stage'[d] = stage[d]
      BY <2>3 DEF Typed, TypeOK
    <3>2. GoesAround(d)' => GoesAround(d)
      BY <2>2, <2>3, <3>1 DEF GoesAround
    <3> QED
      BY <1>0, <2>2, <2>3, <3>1, <3>2, CountsRest
  <2> QED
    BY <2>4, <2>5 DEF AttemptsCounted
<1>11. CASE UNCHANGED vars
  <2>1. Dead' = Dead /\ stalls' = stalls /\ UNCHANGED <<attempts, stage, status, lockedBy, expired>>
    BY <1>11 DEF vars, Dead, Typed, TypeOK
  <2> QED
    BY <1>0, <2>1, CountsRest DEF AttemptsCounted, GoesAround
<1> QED
  BY <1>1, <1>2, <1>3, <1>4, <1>5, <1>6, <1>7, <1>8, <1>9, <1>10, <1>11 DEF Next, Typed, TypeOK

-----------------------------------------------------------------------------
(* The theorems.                                                           *)

Inv == Typed /\ Record /\ LockAgreement

LEMMA Invariance == Spec => []Inv
<1>1. Init => Inv
  BY InitTyped, InitRecord DEF Inv, Init, LockAgreement
<1>2. Inv /\ [Next]_vars => Inv'
  BY StepTyped, StepRecord, StepLockAgreement DEF Inv
<1> QED
  BY <1>1, <1>2, PTL DEF Spec

\* Every variable keeps its type.
THEOREM TypeCorrect == Spec => []TypeOK
<1>1. Inv => TypeOK
  BY DEF Inv, Typed
<1> QED
  BY <1>1, Invariance, PTL

\* locked_by is a fence: no two workers hold one case, and the owner of a
\* lock is dead or busy with that stage of that case.
THEOREM LocksAgree == Spec => []LockAgreement
<1>1. Inv => LockAgreement
  BY DEF Inv
<1> QED
  BY <1>1, Invariance, PTL

\* However workers retry, die or are late, every stage's rows are written
\* once and a case's file is that of the stages behind it.
THEOREM FilesMatch == Spec => []FileMatchesStage
<1>1. Inv => FileMatchesStage
  BY DEF Inv, Record
<1> QED
  BY <1>1, Invariance, PTL

\* The original judgment is overturned exactly by a rejudgment that differs.
THEOREM OverturningCorrect == Spec => []OverturnedWhenChanged
<1>1. Inv => OverturnedWhenChanged
  BY DEF Inv, Record
<1> QED
  BY <1>1, Invariance, PTL

\* Of any number of racing appeals of a case at most one is accepted.
THEOREM OneAppeal == Spec => []OneAppealPerCase
<1>1. Inv => OneAppealPerCase
  BY DEF Inv, Record
<1> QED
  BY <1>1, Invariance, PTL

\* A case ends where its status says, and no stage is given up before its
\* attempts are used.
THEOREM EndingsAreRight == Spec => []EndingIsRight
<1>1. Inv => EndingIsRight
  BY DEF Inv, Record, EndingIsRight
<1> QED
  BY <1>1, Invariance, PTL

\* The unique indexes never refuse the worker that holds the lock: only a
\* late one can be killed by them.
HolderNeverCollides ==
  \A w \in Workers : pc[w] = "answered" /\ HoldsLock(w) => ~Collides(w)

THEOREM HoldersCommit == Spec => []HolderNeverCollides
<1>1. Inv => HolderNeverCollides
  <2> SUFFICES ASSUME Inv, NEW w \in Workers, pc[w] = "answered", HoldsLock(w)
               PROVE  ~Collides(w)
    BY DEF HolderNeverCollides
  <2>1. /\ wcase[w] \in Cases /\ answer[w] \in Outcomes(wstage[w])
        /\ status[wcase[w]] = "WORKING" /\ stage[wcase[w]] = wstage[w]
    BY DEF Inv, Typed, BusyWorkers, HoldsLock
  <2>2. FileMatchesStage
    BY DEF Inv, Record
  <2>3. /\ answer[w] = "charges" => wstage[w] = "prosecution"
        /\ answer[w] = "pleas" => wstage[w] = "defense"
    BY <2>1, RulingsAssumption DEF Outcomes
  <2> QED
    BY <2>1, <2>2, <2>3 DEF FileMatchesStage, Collides
<1> QED
  BY <1>1, Invariance, PTL

\* A worker that lost its lock changes nothing in the database.
THEOREM LateAnswersHarmless == Spec => LateAnswerChangesNothing
<1>1. Inv /\ [Next]_vars =>
        [\A w \in Workers :
           pc[w] = "answered" /\ pc'[w] # "answered" /\ lockedBy[wcase[w]] # w
             => UNCHANGED dbVars]_vars
  <2> SUFFICES ASSUME Inv, Next, NEW w \in Workers,
                      pc[w] = "answered", pc'[w] # "answered", lockedBy[wcase[w]] # w
               PROVE  UNCHANGED dbVars
    OBVIOUS
  <2> USE DEF Inv, Typed, TypeOK
  <2>1. ASSUME NEW c \in Cases, Submit(c) \/ Elapse(c)
        PROVE  FALSE
    BY <2>1 DEF Submit, Elapse, workerVars
  <2>2. ASSUME NEW v \in Workers,
               \/ Start(v) \/ Reap(v) \/ PickNothing(v) \/ Heartbeat(v)
               \/ \E c \in Cases : PickUp(v, c)
               \/ \E a \in Answers : Answer(v, a)
        PROVE  FALSE
    BY <2>2 DEF Start, Reap, PickNothing, Heartbeat, PickUp, Answer, workerVars
  <2>3. ASSUME NEW v \in Workers, CommitRaises(v) \/ CommitStale(v) \/ Crash(v)
        PROVE  UNCHANGED dbVars
    BY <2>3 DEF CommitRaises, CommitStale, Crash
  <2>4. ASSUME NEW v \in Workers, NEW st, NEW sg, Complete(v, st, sg)
        PROVE  FALSE
    BY <2>4 DEF Complete, HoldsLock, Leave
  <2>5. ASSUME NEW v \in Workers, Commit(v)
        PROVE  UNCHANGED dbVars
    BY <2>3, <2>4, <2>5 DEF Commit, Indict, Dismiss, Plead, Sentence, Rejudge, Retry, GiveUp
  <2>6. ASSUME NEW r \in Appellants,
               \/ AppealAccept(r) \/ AppealRaises(r)
               \/ \E c \in Cases : AppealCheck(r, c) \/ AppealRefuse(r, c)
        PROVE  FALSE
    BY <2>6 DEF AppealCheck, AppealRefuse, AppealAccept, AppealRaises, workerVars
  <2> QED
    BY <2>1, <2>2, <2>3, <2>5, <2>6 DEF Next
<1> QED
  BY <1>1, Invariance, PTL DEF Spec, LateAnswerChangesNothing

\* Rows are only added, never changed, and an ended case stays ended but for
\* its one appeal.
THEOREM RecordsFinal == Spec => RecordIsFinal
<1> DEFINE Final ==
      /\ charges \subseteq charges' /\ pleas \subseteq pleas'
      /\ appeals \subseteq appeals' /\ overturned \subseteq overturned'
      /\ \A c \in Cases :
           /\ \A v \in Revisions : judgments[c][v] # NoRuling => judgments'[c][v] = judgments[c][v]
           /\ status[c] \in {"DISMISSED", "FAILED"} => status'[c] = status[c]
           /\ status[c] = "SENTENCED" /\ status'[c] # "SENTENCED"
                => c \notin appealUsed /\ c \in appealUsed'
<1>1. Inv /\ [Next]_vars => [Final]_vars
  <2> SUFFICES ASSUME Inv, Next PROVE Final
    OBVIOUS
  <2> USE DEF Inv, Typed, TypeOK
  <2>1. ASSUME UNCHANGED fileVars, NEW c \in Cases,
               \A d \in Cases \ {c} : status'[d] = status[d],
               status[c] \notin {"DISMISSED", "FAILED", "SENTENCED"}
        PROVE  Final
    BY <2>1 DEF fileVars
  <2>2. ASSUME NEW c \in Cases, Submit(c) \/ Elapse(c) \/ \E w \in Workers : PickUp(w, c)
        PROVE  Final
    BY <2>1, <2>2 DEF Submit, Elapse, PickUp, NextInLine
  <2>3. ASSUME NEW w \in Workers, Reap(w)
        PROVE  Final
    BY <2>3 DEF Reap, Stale, fileVars
  <2>4. ASSUME UNCHANGED fileVars, status' = status
        PROVE  Final
    BY <2>4 DEF fileVars
  <2>5. ASSUME NEW w \in Workers,
               \/ Start(w) \/ PickNothing(w) \/ Heartbeat(w) \/ Crash(w)
               \/ CommitRaises(w) \/ CommitStale(w)
               \/ \E a \in Answers : Answer(w, a)
        PROVE  Final
    BY <2>4, <2>5 DEF Start, PickNothing, Heartbeat, Crash, CommitRaises, CommitStale, Answer, dbVars, caseVars
  <2>6. ASSUME NEW w \in Workers, NEW st, NEW sg, Complete(w, st, sg),
               charges \subseteq charges', pleas \subseteq pleas', overturned \subseteq overturned',
               \A d \in Cases, v \in Revisions :
                 judgments[d][v] # NoRuling => judgments'[d][v] = judgments[d][v]
        PROVE  Final
    BY <2>6, CompleteMoves DEF Moved
  <2>7. ASSUME NEW w \in Workers, Indict(w) \/ Dismiss(w) \/ Plead(w) \/ Retry(w) \/ GiveUp(w)
        PROVE  Final
    BY <2>6, <2>7 DEF Indict, Dismiss, Plead, Retry, GiveUp
  <2>8. ASSUME NEW w \in Workers, Sentence(w) \/ Rejudge(w)
        PROVE  Final
    \* Otherwise the INSERT of the judgment had been refused.
    <3>1. CASE Sentence(w)
      <4>1. Complete(w, "SENTENCED", "judgment") /\ judgments[wcase[w]][0] = NoRuling
        BY <3>1 DEF Sentence, Complete, Collides
      <4>2. charges' = charges /\ pleas' = pleas /\ overturned' = overturned
        BY <3>1 DEF Sentence
      <4>3. \A d \in Cases, v \in Revisions :
              judgments[d][v] # NoRuling => judgments'[d][v] = judgments[d][v]
        BY <3>1, <4>1 DEF Sentence, Revisions
      <4> QED
        BY <2>6, <4>1, <4>2, <4>3
    <3>2. CASE Rejudge(w)
      <4>1. Complete(w, "SENTENCED", "rejudgment") /\ judgments[wcase[w]][1] = NoRuling
        BY <3>2 DEF Rejudge, Complete, Collides
      <4>2. charges' = charges /\ pleas' = pleas /\ overturned \subseteq overturned'
        BY <3>2 DEF Rejudge
      <4>3. \A d \in Cases, v \in Revisions :
              judgments[d][v] # NoRuling => judgments'[d][v] = judgments[d][v]
        BY <3>2, <4>1 DEF Rejudge, Revisions
      <4> QED
        BY <2>6, <4>1, <4>2, <4>3
    <3> QED
      BY <2>8, <3>1, <3>2
  <2>9. ASSUME NEW r \in Appellants, AppealAccept(r)
        PROVE  Final
    BY <2>9 DEF AppealAccept, HasAppealRow, BusyRequests, Record, OneAppealPerCase, CheckedRequests
  <2>10. ASSUME NEW r \in Appellants,
                AppealRaises(r) \/ \E c \in Cases : AppealCheck(r, c) \/ AppealRefuse(r, c)
         PROVE  Final
    BY <2>4, <2>10 DEF AppealRaises, AppealCheck, AppealRefuse, dbVars, caseVars
  <2> QED
    BY <2>2, <2>3, <2>5, <2>7, <2>8, <2>9, <2>10 DEF Next, Commit
<1> QED
  BY <1>1, Invariance, PTL DEF Spec, RecordIsFinal

\* A stage is picked up at most MAX_STAGE_ATTEMPTS times, and once more for
\* each lock that was lost.
THEOREM AttemptsAreBudgeted == Spec => []AttemptsBudget
<1>1. Init => AttemptsCounted
  <2> SUFFICES ASSUME Init, NEW c \in Cases PROVE Counted(c)
    BY DEF AttemptsCounted
  <2>1. Lost \in Nat
    BY DeadCounted, BoundsAssumption DEF Init, Lost
  <2>2. /\ \A s \in Stages : attempts[c][s] = 0
        /\ ~ GoesAround(c) /\ stage[c] = "prosecution"
    BY DEF Init, GoesAround
  <2> QED
    BY <2>1, <2>2, BoundsAssumption DEF Counted, Unreached, Stages
<1>2. Inv /\ AttemptsCounted /\ [Next]_vars => AttemptsCounted'
  BY StepCounts DEF Inv
<1>3. Inv /\ AttemptsCounted => AttemptsBudget
  BY DeadCounted, BoundsAssumption DEF Inv, Typed, TypeOK, AttemptsCounted, Counted, Lost, AttemptsBudget
<1> QED
  BY <1>1, <1>2, <1>3, Invariance, PTL DEF Spec

\* The partial unique index keeps one active case per user, code and language.
THEOREM OneActive == Spec => []OneActivePerCode
<1>1. Init => OneActivePerCode
  BY DEF Init, OneActivePerCode, Active
<1>2. Inv /\ OneActivePerCode /\ [Next]_vars => OneActivePerCode'
  <2> SUFFICES ASSUME Inv, OneActivePerCode, [Next]_vars PROVE OneActivePerCode'
    OBVIOUS
  <2> USE DEF Inv, Typed, TypeOK
  <2>1. ASSUME Active' \subseteq Active
        PROVE  OneActivePerCode'
    BY <2>1 DEF OneActivePerCode
  <2>2. ASSUME NEW c \in Cases, Active' = Active \union {c}, CodeIsFree(c)
        PROVE  OneActivePerCode'
    BY <2>2 DEF OneActivePerCode, CodeIsFree
  <2>3. ASSUME NEW c \in Cases, Submit(c)
        PROVE  OneActivePerCode'
    BY <2>2, <2>3 DEF Submit, Active
  <2>4. ASSUME NEW r \in Appellants, AppealAccept(r)
        PROVE  OneActivePerCode'
    <3>1. rcase[r] \in Cases
      BY <2>4 DEF AppealAccept, BusyRequests
    <3> QED
      BY <2>2, <2>4, <3>1 DEF AppealAccept, Active
  <2>5. ASSUME NEW w \in Workers, Commit(w)
        PROVE  OneActivePerCode'
    <3>1. ASSUME NEW st, NEW sg, Complete(w, st, sg)
          PROVE  Active' \subseteq Active
      BY <3>1, CompleteMoves DEF Moved, Active
    <3>2. Active' \subseteq Active
      BY <2>5, <3>1 DEF Commit, CommitRaises, CommitStale, Indict, Dismiss, Plead, Sentence, Rejudge,
                        Retry, GiveUp, dbVars, caseVars, Active
    <3> QED
      BY <2>1, <3>2
  <2>6. ASSUME NEW c \in Cases, Elapse(c) \/ \E w \in Workers : PickUp(w, c)
        PROVE  Active' \subseteq Active
    BY <2>6 DEF Elapse, PickUp, NextInLine, Active
  <2>7. ASSUME NEW w \in Workers,
               \/ Start(w) \/ Reap(w) \/ PickNothing(w) \/ Heartbeat(w) \/ Crash(w)
               \/ \E a \in Answers : Answer(w, a)
        PROVE  Active' \subseteq Active
    BY <2>7 DEF Start, Reap, Stale, PickNothing, Heartbeat, Crash, Answer, dbVars, caseVars, Active
  <2>8. ASSUME NEW r \in Appellants,
               AppealRaises(r) \/ \E c \in Cases : AppealCheck(r, c) \/ AppealRefuse(r, c)
        PROVE  Active' \subseteq Active
    BY <2>8 DEF AppealRaises, AppealCheck, AppealRefuse, dbVars, caseVars, Active
  <2>9. CASE UNCHANGED vars
    BY <2>1, <2>9 DEF vars, Active
  <2> QED
    BY <2>1, <2>3, <2>4, <2>5, <2>6, <2>7, <2>8, <2>9 DEF Next
<1> QED
  BY <1>1, <1>2, Invariance, PTL DEF Spec

-----------------------------------------------------------------------------
(* The pipeline implements the lifecycle.                                  *)

\* Moving one case moves its phase.
LEMMA PhaseMoves ==
  ASSUME NEW c \in Cases, NEW st, NEW sg,
         \A d \in Cases : status'[d] = IF d = c THEN st ELSE status[d],
         \A d \in Cases : stage'[d] = IF d = c THEN sg ELSE stage[d]
  PROVE  Phase' = [Phase EXCEPT ![c] = IF st \in {"QUEUED", "WORKING"} THEN sg ELSE st]
BY DEF Phase, Active

\* A step that keeps active cases active at their stage is a stutter.
LEMMA PhaseStays ==
  ASSUME \A d \in Cases : stage'[d] = stage[d],
         \A d \in Cases :
           \/ status'[d] = status[d]
           \/ status[d] \in {"QUEUED", "WORKING"} /\ status'[d] \in {"QUEUED", "WORKING"}
  PROVE  Phase' = Phase
BY DEF Phase, Active

LEMMA CommitImplements ==
  ASSUME Inv, NEW w \in Workers, Commit(w)
  PROVE  Lifecycle!Next \/ UNCHANGED Lifecycle!vars
<1> DEFINE c == wcase[w]
<1> USE DEF Inv
<1>1. CASE CommitRaises(w) \/ CommitStale(w)
  BY <1>1, PhaseStays DEF CommitRaises, CommitStale, dbVars, caseVars, fileVars, Lifecycle!vars
<1>2. ASSUME NEW st, NEW sg, Complete(w, st, sg)
      PROVE  /\ c \in Cases
             /\ Phase[c] = wstage[w]
             /\ Phase' = [Phase EXCEPT ![c] = IF st \in {"QUEUED", "WORKING"} THEN sg ELSE st]
             /\ appealUsed' = appealUsed
  <2>1. Moved(c, st, sg) /\ stage[c] = wstage[w]
    BY <1>2, CompleteMoves
  <2>2. Phase[c] = wstage[w]
    BY <2>1 DEF Moved, Phase, Active
  <2> QED
    BY <2>1, <2>2, PhaseMoves DEF Moved
<1>3. ASSUME NEW st, NEW sg, Complete(w, st, sg)
      PROVE  answer[w] \in Outcomes(wstage[w]) /\ wstage[w] \in Stages
  BY <1>3, CompleteHolds DEF Typed, TypeOK
<1>4. CASE Indict(w)
  <2>1. Complete(w, "QUEUED", "defense") /\ wstage[w] = "prosecution"
    BY <1>3, <1>4, RulingsAssumption DEF Indict, Outcomes, Stages
  <2>2. Lifecycle!Prosecute(c)
    BY <1>2, <1>4, <2>1 DEF Indict, Lifecycle!Prosecute, Lifecycle!Move
  <2> QED
    BY <1>2, <2>1, <2>2 DEF Lifecycle!Next, Lifecycle!Progress
<1>5. CASE Dismiss(w)
  <2>1. Complete(w, "DISMISSED", "prosecution") /\ wstage[w] = "prosecution"
    BY <1>3, <1>5, RulingsAssumption DEF Dismiss, Outcomes, Stages
  <2>2. Lifecycle!Prosecute(c)
    BY <1>2, <1>5, <2>1 DEF Dismiss, Lifecycle!Prosecute, Lifecycle!Move
  <2> QED
    BY <1>2, <2>1, <2>2 DEF Lifecycle!Next, Lifecycle!Progress
<1>6. CASE Plead(w)
  <2>1. Complete(w, "QUEUED", "judgment") /\ wstage[w] = "defense"
    BY <1>3, <1>6, RulingsAssumption DEF Plead, Outcomes, Stages
  <2>2. Lifecycle!Defend(c)
    BY <1>2, <1>6, <2>1 DEF Plead, Lifecycle!Defend, Lifecycle!Move
  <2> QED
    BY <1>2, <2>1, <2>2 DEF Lifecycle!Next, Lifecycle!Progress
<1>7. CASE Sentence(w)
  <2>1. Complete(w, "SENTENCED", "judgment") /\ wstage[w] = "judgment" /\ answer[w] \in Rulings
    BY <1>7 DEF Sentence
  <2>2. Lifecycle!Sentence(c, answer[w])
    BY <1>2, <1>7, <2>1 DEF Sentence, Lifecycle!Sentence, Lifecycle!Move
  <2> QED
    BY <1>2, <2>1, <2>2 DEF Lifecycle!Next, Lifecycle!Progress
<1>8. CASE Rejudge(w)
  <2>1. Complete(w, "SENTENCED", "rejudgment") /\ wstage[w] = "rejudgment" /\ answer[w] \in Rulings
    BY <1>8 DEF Rejudge
  <2>2. Lifecycle!Rejudge(c, answer[w])
    BY <1>2, <1>8, <2>1 DEF Rejudge, Changed, Lifecycle!Rejudge, Lifecycle!Move
  <2> QED
    BY <1>2, <2>1, <2>2 DEF Lifecycle!Next, Lifecycle!Progress
<1>9. CASE Retry(w)
  <2>1. Complete(w, "QUEUED", wstage[w])
    BY <1>9 DEF Retry
  <2>2. Moved(c, "QUEUED", wstage[w]) /\ stage[c] = wstage[w]
    BY <2>1, CompleteMoves
  <2>3. Phase' = Phase
    BY <2>2, PhaseStays DEF Moved
  <2> QED
    BY <1>2, <1>9, <2>1, <2>3 DEF Retry, Lifecycle!vars
<1>10. CASE GiveUp(w)
  <2>1. Complete(w, GivenUpStatus(wstage[w]), wstage[w])
    BY <1>10 DEF GiveUp
  <2>2. CASE wstage[w] = "rejudgment"
    <3>1. Lifecycle!Uphold(c)
      BY <1>2, <1>10, <2>1, <2>2 DEF GiveUp, GivenUpStatus, Lifecycle!Uphold, Lifecycle!Move
    <3> QED
      BY <1>2, <2>1, <3>1 DEF Lifecycle!Next, Lifecycle!Progress
  <2>3. CASE wstage[w] # "rejudgment"
    <3>1. wstage[w] \in {"prosecution", "defense", "judgment"}
      BY <1>3, <2>1, <2>3 DEF Stages
    <3>2. Lifecycle!Fail(c)
      BY <1>2, <1>10, <2>1, <2>3, <3>1 DEF GiveUp, GivenUpStatus, Lifecycle!Fail, Lifecycle!Move
    <3> QED
      BY <1>2, <2>1, <3>2 DEF Lifecycle!Next, Lifecycle!Progress
  <2> QED
    BY <2>2, <2>3
<1> QED
  BY <1>1, <1>4, <1>5, <1>6, <1>7, <1>8, <1>9, <1>10 DEF Commit

\* Every step of the pipeline is a step of the lifecycle or changes nothing of it.
LEMMA StepImplements ==
  ASSUME Inv, [Next]_vars
  PROVE  Lifecycle!Next \/ UNCHANGED Lifecycle!vars
<1> USE DEF Inv, Typed, TypeOK
<1>1. ASSUME NEW c \in Cases, Submit(c)
      PROVE  Lifecycle!Next
  <2>1. stage[c] = "prosecution"
    BY <1>1 DEF Submit, Record, EndingMatchesStage
  <2>2. Phase[c] = "ABSENT" /\ Phase' = [Phase EXCEPT ![c] = "prosecution"]
    BY <1>1, <2>1, PhaseMoves DEF Submit, Phase, Active
  <2>3. Lifecycle!Submit(c)
    BY <1>1, <2>2 DEF Submit, fileVars, Lifecycle!Submit, Lifecycle!Move
  <2> QED
    BY <2>3 DEF Lifecycle!Next
<1>2. ASSUME NEW c \in Cases, Elapse(c) \/ \E w \in Workers : PickUp(w, c)
      PROVE  UNCHANGED Lifecycle!vars
  BY <1>2, PhaseStays DEF Elapse, PickUp, NextInLine, fileVars, Lifecycle!vars
<1>3. ASSUME NEW w \in Workers,
             \/ Start(w) \/ Reap(w) \/ PickNothing(w) \/ Heartbeat(w) \/ Crash(w)
             \/ \E a \in Answers : Answer(w, a)
      PROVE  UNCHANGED Lifecycle!vars
  BY <1>3, PhaseStays DEF Start, Reap, Stale, PickNothing, Heartbeat, Crash, Answer,
     dbVars, caseVars, fileVars, Lifecycle!vars
<1>4. ASSUME NEW w \in Workers, Commit(w)
      PROVE  Lifecycle!Next \/ UNCHANGED Lifecycle!vars
  BY <1>4, CommitImplements
<1>5. ASSUME NEW r \in Appellants, AppealAccept(r)
      PROVE  Lifecycle!Next
  <2> DEFINE c == rcase[r]
  <2>1. c \in Cases /\ status[c] = "SENTENCED" /\ c \notin appealUsed
    BY <1>5 DEF AppealAccept, HasAppealRow, BusyRequests, Record, CheckedRequests, OneAppealPerCase
  <2>2. Phase[c] = "SENTENCED" /\ Phase' = [Phase EXCEPT ![c] = "rejudgment"]
    BY <1>5, <2>1, PhaseMoves DEF AppealAccept, Phase, Active
  <2>3. Lifecycle!Appeal(c)
    BY <1>5, <2>1, <2>2 DEF AppealAccept, Lifecycle!Appeal, Lifecycle!Move
  <2> QED
    BY <2>1, <2>3 DEF Lifecycle!Next
<1>6. ASSUME NEW r \in Appellants,
             AppealRaises(r) \/ \E c \in Cases : AppealCheck(r, c) \/ AppealRefuse(r, c)
      PROVE  UNCHANGED Lifecycle!vars
  BY <1>6, PhaseStays DEF AppealRaises, AppealCheck, AppealRefuse, dbVars, caseVars, fileVars, Lifecycle!vars
<1>7. CASE UNCHANGED vars
  BY <1>7, PhaseStays DEF vars, Lifecycle!vars
<1> QED
  BY <1>1, <1>2, <1>3, <1>4, <1>5, <1>6, <1>7 DEF Next

\* Whatever the workers do, a case goes through the lifecycle: the pipeline
\* is a correct implementation of CaseLifecycle.
THEOREM Refinement == Spec => ImplementsLifecycle
<1>1. Init => Lifecycle!Init
  BY DEF Init, Lifecycle!Init, Phase, Active, Revisions, Lifecycle!Revisions
<1>2. Inv /\ [Next]_vars => [Lifecycle!Next]_Lifecycle!vars
  BY StepImplements
<1> QED
  BY <1>1, <1>2, Invariance, PTL DEF Spec, ImplementsLifecycle, Lifecycle!Spec
=============================================================================
