---------------------------- MODULE CasePipeline ----------------------------
(***************************************************************************)
(* The pipeline of Code Court: worker processes that poll the table cases, *)
(* lock one queued case, run one stage of its trial through the LLM        *)
(* provider and commit the outcome if they still hold the lock; the reaper *)
(* every worker runs first; the heartbeat that keeps a lock fresh; and the *)
(* appeal requests that put a sentenced case back in the queue.            *)
(*                                                                         *)
(* One action is one database transaction or one step between two of them. *)
(* The status column is a pair here: QUEUED_DEFENSE is status "QUEUED"     *)
(* with stage "defense", DEFENDING is "WORKING" with stage "defense".  The *)
(* stage of a finished case is the one that finished it (failed_stage).    *)
(***************************************************************************)
EXTENDS Naturals, FiniteSets

CONSTANTS
  Cases,                \* case rows, submitted or not yet
  Workers,              \* worker processes; a restart has a new worker_id
  Appellants,           \* requests POST /cases/{id}/appeal
  CodeOf,               \* user, code_hash and language of each case
  Rulings,              \* one verdict per charge, what two judgments differ in
  MAX_STAGE_ATTEMPTS,   \* 3 in the code
  MaxStalls,            \* bound: live workers whose lock grows stale
  MaxCrashes,           \* bound: worker processes that die
  NoCase, NoWorker, NoRuling

ASSUME BoundsAssumption ==
  /\ MAX_STAGE_ATTEMPTS \in Nat \ {0}
  /\ MaxStalls \in Nat
  /\ MaxCrashes \in Nat

\* Workers that died are counted in AttemptsBudget.
ASSUME WorkersAssumption == IsFiniteSet(Workers)

ASSUME NullAssumption ==
  /\ NoCase \notin Cases
  /\ NoWorker \notin Workers
  /\ NoRuling \notin Rulings

ASSUME RulingsAssumption ==
  /\ Rulings \intersect {"pending", "charges", "no_charges", "pleas", "failed"} = {}
  /\ NoRuling \notin {"pending", "charges", "no_charges", "pleas", "failed"}

VARIABLES
  \* table cases
  status, stage, attempts, lockedBy, revision, appealUsed, rejudgmentFailed,
  expired,      \* cases whose locked_at is more than LOCK_TIMEOUT_MINUTES old
  older,        \* <<c, d>>: c's updated_at is earlier than d's
  \* tables charges, pleas, appeals: the cases that have rows; table judgments
  charges, pleas, appeals, judgments, overturned,
  \* worker processes
  pc, wcase, wstage, answer,
  \* appeal requests
  request, rcase,
  \* how much of the bounds is used
  stalls, crashes

caseVars == <<status, stage, attempts, lockedBy, revision, appealUsed,
              rejudgmentFailed, expired, older>>
fileVars == <<charges, pleas, appeals, judgments, overturned>>
dbVars == <<caseVars, fileVars>>
workerVars == <<pc, wcase, wstage, answer>>
requestVars == <<request, rcase>>
boundVars == <<stalls, crashes>>
vars == <<status, stage, attempts, lockedBy, revision, appealUsed,
          rejudgmentFailed, expired, older,
          charges, pleas, appeals, judgments, overturned,
          pc, wcase, wstage, answer, request, rcase, stalls, crashes>>

Stages == {"prosecution", "defense", "judgment", "rejudgment"}
Statuses == {"ABSENT", "QUEUED", "WORKING", "SENTENCED", "DISMISSED", "FAILED"}
Revisions == {0, 1}
Answers == Rulings \union {"pending", "charges", "no_charges", "pleas", "failed"}
\* "polling": about to run the reaper; "picking": about to pick a case up;
\* "running": waiting for the provider; "answered": about to commit;
\* "killed": left run_worker_loop by an exception; "crashed": the process died.
WorkerStates == {"off", "polling", "picking", "running", "answered", "killed", "crashed"}
RequestStates == {"idle", "checked", "accepted", "refused", "error"}

TypeOK ==
  /\ status \in [Cases -> Statuses]
  /\ stage \in [Cases -> Stages]
  /\ attempts \in [Cases -> [Stages -> Nat]]
  /\ lockedBy \in [Cases -> Workers \union {NoWorker}]
  /\ revision \in [Cases -> Revisions]
  /\ appealUsed \subseteq Cases
  /\ rejudgmentFailed \subseteq Cases
  /\ expired \subseteq Cases
  /\ older \subseteq Cases \X Cases
  /\ charges \subseteq Cases
  /\ pleas \subseteq Cases
  /\ appeals \subseteq Cases
  /\ judgments \in [Cases -> [Revisions -> Rulings \union {NoRuling}]]
  /\ overturned \subseteq Cases
  /\ pc \in [Workers -> WorkerStates]
  /\ wcase \in [Workers -> Cases \union {NoCase}]
  /\ wstage \in [Workers -> Stages]
  /\ answer \in [Workers -> Answers]
  /\ request \in [Appellants -> RequestStates]
  /\ rcase \in [Appellants -> Cases \union {NoCase}]
  /\ stalls \in 0..MaxStalls
  /\ crashes \in 0..MaxCrashes

Init ==
  /\ status = [c \in Cases |-> "ABSENT"]
  /\ stage = [c \in Cases |-> "prosecution"]
  /\ attempts = [c \in Cases |-> [s \in Stages |-> 0]]
  /\ lockedBy = [c \in Cases |-> NoWorker]
  /\ revision = [c \in Cases |-> 0]
  /\ appealUsed = {}
  /\ rejudgmentFailed = {}
  /\ expired = {}
  /\ older = {}
  /\ charges = {}
  /\ pleas = {}
  /\ appeals = {}
  /\ judgments = [c \in Cases |-> [v \in Revisions |-> NoRuling]]
  /\ overturned = {}
  /\ pc = [w \in Workers |-> "off"]
  /\ wcase = [w \in Workers |-> NoCase]
  /\ wstage = [w \in Workers |-> "prosecution"]
  /\ answer = [w \in Workers |-> "pending"]
  /\ request = [r \in Appellants |-> "idle"]
  /\ rcase = [r \in Appellants |-> NoCase]
  /\ stalls = 0
  /\ crashes = 0
-----------------------------------------------------------------------------
(* The table cases.                                                        *)

Queued == {c \in Cases : status[c] = "QUEUED"}
Active == {c \in Cases : status[c] \in {"QUEUED", "WORKING"}}

\* Mutant: the filter of the index forgets the rejudgment statuses.
CodeIsFreeOnFirstTrial(c) ==
  \A d \in Active \ {c} : stage[d] = "rejudgment" \/ CodeOf[d] # CodeOf[c]

\* uq_cases_active_code: the row c may be active only if no other row of the
\* same user, code and language is.
CodeIsFree(c) == \A d \in Active \ {c} : CodeOf[d] # CodeOf[c]

\* Every UPDATE sets updated_at to now: the rows S become the newest, and
\* are not ordered among themselves.
Touch(S) == {p \in older : p[1] \notin S /\ p[2] \notin S}
              \union ((Cases \ S) \X S)

\* Mutant: locked_by is not reset.
StillLocked(S) == lockedBy

\* locked_by with the locks of the rows S given up.
Unlocked(S) == [c \in Cases |-> IF c \in S THEN NoWorker ELSE lockedBy[c]]

\* A case is submitted: the row is inserted, or the unique index refuses it.
Submit(c) ==
  /\ status[c] = "ABSENT"
  /\ CodeIsFree(c)
  /\ status' = [status EXCEPT ![c] = "QUEUED"]
  /\ older' = Touch({c})
  /\ UNCHANGED <<stage, attempts, lockedBy, revision, appealUsed,
                 rejudgmentFailed, expired, fileVars, workerVars,
                 requestVars, boundVars>>

\* Fifteen minutes pass without an update of locked_at.  A lock whose worker
\* is gone grows stale in the end; that of a worker that lives does so when
\* its process or its database connection stalls.
Dead == {w \in Workers : pc[w] \in {"killed", "crashed"}}

Elapse(c) ==
  /\ status[c] = "WORKING"
  /\ c \notin expired
  /\ \/ lockedBy[c] \in Dead /\ stalls' = stalls
     \/ lockedBy[c] \notin Dead /\ stalls < MaxStalls /\ stalls' = stalls + 1
  /\ expired' = expired \union {c}
  /\ UNCHANGED <<status, stage, attempts, lockedBy, revision, appealUsed,
                 rejudgmentFailed, older, fileVars, workerVars, requestVars,
                 crashes>>
-----------------------------------------------------------------------------
(* One turn of a worker: run_worker_once.                                  *)

Start(w) ==
  /\ pc[w] = "off"
  /\ pc' = [pc EXCEPT ![w] = "polling"]
  /\ UNCHANGED <<dbVars, wcase, wstage, answer, requestVars, boundVars>>

\* reap_stale_locks: one UPDATE per working status, one commit.  The number
\* of attempts is left alone.
\* Mutant: REJUDGING is missing from STAGE_REAP_MAP.
StaleFirstTrial == {c \in Cases : status[c] = "WORKING" /\ c \in expired /\ stage[c] # "rejudgment"}

Stale == {c \in Cases : status[c] = "WORKING" /\ c \in expired}

Reap(w) ==
  /\ pc[w] = "polling"
  /\ status' = [c \in Cases |-> IF c \in Stale THEN "QUEUED" ELSE status[c]]
  /\ lockedBy' = Unlocked(Stale)
  /\ expired' = expired \ Stale
  /\ older' = Touch(Stale)
  /\ pc' = [pc EXCEPT ![w] = "picking"]
  /\ UNCHANGED <<stage, attempts, revision, appealUsed, rejudgmentFailed,
                 fileVars, wcase, wstage, answer, requestVars, boundVars>>

\* SKIP LOCKED passes over a row another transaction holds.  Of a queued row
\* that is only a late worker's, between its INSERTs (whose foreign key locks
\* the case row) and its rollback.
MayBeSkipped(c) == \E w \in Workers : pc[w] = "answered" /\ wcase[w] = c

\* The oldest queued row by updated_at that is not skipped.
NextInLine(c) ==
  /\ status[c] = "QUEUED"
  /\ \A d \in Queued : <<d, c>> \in older => MayBeSkipped(d)

PickUp(w, c) ==
  /\ pc[w] = "picking"
  /\ NextInLine(c)
  /\ attempts' = [attempts EXCEPT ![c] = [@ EXCEPT ![stage[c]] = attempts[c][stage[c]] + 1]]
  /\ status' = [status EXCEPT ![c] = "WORKING"]
  /\ lockedBy' = [lockedBy EXCEPT ![c] = w]
  /\ expired' = expired \ {c}
  /\ older' = Touch({c})
  /\ pc' = [pc EXCEPT ![w] = "running"]
  /\ wcase' = [wcase EXCEPT ![w] = c]
  /\ wstage' = [wstage EXCEPT ![w] = stage[c]]
  /\ UNCHANGED <<stage, revision, appealUsed, rejudgmentFailed, fileVars,
                 answer, requestVars, boundVars>>

\* No row to pick: sleep for poll_interval, then the next turn.
PickNothing(w) ==
  /\ pc[w] = "picking"
  /\ \A c \in Queued : MayBeSkipped(c)
  /\ pc' = [pc EXCEPT ![w] = "polling"]
  /\ UNCHANGED <<dbVars, wcase, wstage, answer, requestVars, boundVars>>

\* heartbeat.beat while the stage runs: conditional on locked_by alone.
Heartbeat(w) ==
  /\ pc[w] = "running"
  /\ lockedBy[wcase[w]] = w
  /\ expired' = expired \ {wcase[w]}
  /\ older' = Touch({wcase[w]})
  /\ UNCHANGED <<status, stage, attempts, lockedBy, revision, appealUsed,
                 rejudgmentFailed, fileVars, workerVars, requestVars, boundVars>>

\* What _run_<stage> may return: a validated result or a failed outcome (the
\* provider raised, the schema is invalid, pleas or verdicts are missing).
Outcomes(s) ==
  IF s = "prosecution" THEN {"charges", "no_charges", "failed"}
  ELSE IF s = "defense" THEN {"pleas", "failed"}
  ELSE Rulings \union {"failed"}

Answer(w, a) ==
  /\ pc[w] = "running"
  /\ a \in Outcomes(wstage[w])
  /\ pc' = [pc EXCEPT ![w] = "answered"]
  /\ answer' = [answer EXCEPT ![w] = a]
  /\ UNCHANGED <<dbVars, wcase, wstage, requestVars, boundVars>>
-----------------------------------------------------------------------------
(* The commit of process_stage: the rows of the result are inserted, then  *)
(* the case row is updated if the worker still holds the lock.  Nothing of *)
(* the transaction is seen before it commits, so each outcome is a step.   *)

\* The INSERTs of a successful outcome violate uq(case_id, charge_index) of
\* charges, uq(charge_id) of pleas or uq(case_id, revision) of judgments.
Collides(w) ==
  LET c == wcase[w] IN
    \/ answer[w] = "charges" /\ c \in charges
    \/ answer[w] = "pleas" /\ c \in pleas
    \/ answer[w] \in Rulings /\ wstage[w] = "judgment" /\ judgments[c][0] # NoRuling
    \/ answer[w] \in Rulings /\ wstage[w] = "rejudgment" /\ judgments[c][1] # NoRuling

\* Mutants: the row is updated whatever its status and owner, or as long as
\* anybody works on it.
AnyRow(w) == TRUE
AnyWorkingRow(w) == status[wcase[w]] = "WORKING"

\* _conditional_complete finds the row: id, locked_by and working status.
HoldsLock(w) ==
  LET c == wcase[w] IN
    lockedBy[c] = w /\ status[c] = "WORKING" /\ stage[c] = wstage[w]

\* Worker w leaves its case and goes on to state s.
Leave(w, s) ==
  /\ pc' = [pc EXCEPT ![w] = s]
  /\ wcase' = [wcase EXCEPT ![w] = NoCase]
  /\ wstage' = [wstage EXCEPT ![w] = "prosecution"]
  /\ answer' = [answer EXCEPT ![w] = "pending"]

\* The unique violation is no _StaleCommit: it leaves run_worker_loop.
CommitRaises(w) ==
  /\ pc[w] = "answered"
  /\ Collides(w)
  /\ Leave(w, "killed")
  /\ UNCHANGED <<dbVars, requestVars, boundVars>>

\* Zero rows updated: _StaleCommit, everything is rolled back.
CommitStale(w) ==
  /\ pc[w] = "answered"
  /\ ~Collides(w)
  /\ ~HoldsLock(w)
  /\ Leave(w, "polling")
  /\ UNCHANGED <<dbVars, requestVars, boundVars>>

\* One row updated: the case goes to status st of stage sg, unlocked.
Complete(w, st, sg) ==
  LET c == wcase[w] IN
    /\ pc[w] = "answered"
    /\ ~Collides(w)
    /\ HoldsLock(w)
    /\ status' = [status EXCEPT ![c] = st]
    /\ stage' = [stage EXCEPT ![c] = sg]
    /\ lockedBy' = Unlocked({c})
    /\ expired' = expired \ {c}
    /\ older' = Touch({c})
    /\ Leave(w, "polling")
    /\ UNCHANGED <<attempts, appealUsed, appeals, requestVars, boundVars>>

Indict(w) ==
  /\ answer[w] = "charges"
  /\ charges' = charges \union {wcase[w]}
  /\ Complete(w, "QUEUED", "defense")
  /\ UNCHANGED <<pleas, judgments, overturned, revision, rejudgmentFailed>>

Dismiss(w) ==
  /\ answer[w] = "no_charges"
  /\ Complete(w, "DISMISSED", "prosecution")
  /\ UNCHANGED <<charges, pleas, judgments, overturned, revision, rejudgmentFailed>>

Plead(w) ==
  /\ answer[w] = "pleas"
  /\ pleas' = pleas \union {wcase[w]}
  /\ Complete(w, "QUEUED", "judgment")
  /\ UNCHANGED <<charges, judgments, overturned, revision, rejudgmentFailed>>

Sentence(w) ==
  /\ answer[w] \in Rulings
  /\ wstage[w] = "judgment"
  /\ judgments' = [judgments EXCEPT ![wcase[w]] = [@ EXCEPT ![0] = answer[w]]]
  /\ Complete(w, "SENTENCED", "judgment")
  /\ UNCHANGED <<charges, pleas, overturned, revision, rejudgmentFailed>>

\* Mutants: every rejudgment overturns; the revision is the attempt's number.
AlwaysChanged(w) == TRUE
RevisionOfAttempt(c) == attempts[c]["rejudgment"]

\* Some verdict differs from the original judgment's.
Changed(w) == answer[w] # judgments[wcase[w]][0]

RejudgmentRevision(c) == 1

Rejudge(w) ==
  LET c == wcase[w] IN
    /\ answer[w] \in Rulings
    /\ wstage[w] = "rejudgment"
    /\ judgments' = [judgments EXCEPT ![c] = [@ EXCEPT ![1] = answer[w]]]
    /\ overturned' = IF Changed(w) THEN overturned \union {c} ELSE overturned
    /\ revision' = [revision EXCEPT ![c] = RejudgmentRevision(c)]
    /\ Complete(w, "SENTENCED", "rejudgment")
    /\ UNCHANGED <<charges, pleas, rejudgmentFailed>>

\* Mutants: off by one, either way.
ExhaustedEarly(w) == attempts[wcase[w]][wstage[w]] >= MAX_STAGE_ATTEMPTS - 1
ExhaustedLate(w) == attempts[wcase[w]][wstage[w]] > MAX_STAGE_ATTEMPTS

Exhausted(w) == attempts[wcase[w]][wstage[w]] >= MAX_STAGE_ATTEMPTS

\* The stage failed and may be tried again: back to its queue.
Retry(w) ==
  /\ answer[w] = "failed"
  /\ ~Exhausted(w)
  /\ Complete(w, "QUEUED", wstage[w])
  /\ UNCHANGED <<charges, pleas, judgments, overturned, revision, rejudgmentFailed>>

\* A rejudgment that is given up leaves the case sentenced.
GivenUpStatus(s) == IF s = "rejudgment" THEN "SENTENCED" ELSE "FAILED"

\* The stage failed for the last time.
GiveUp(w) ==
  /\ answer[w] = "failed"
  /\ Exhausted(w)
  /\ Complete(w, GivenUpStatus(wstage[w]), wstage[w])
  /\ rejudgmentFailed' = IF wstage[w] = "rejudgment"
                           THEN rejudgmentFailed \union {wcase[w]}
                           ELSE rejudgmentFailed
  /\ UNCHANGED <<charges, pleas, judgments, overturned, revision>>

Commit(w) ==
  \/ CommitRaises(w) \/ CommitStale(w)
  \/ Indict(w) \/ Dismiss(w) \/ Plead(w) \/ Sentence(w) \/ Rejudge(w)
  \/ Retry(w) \/ GiveUp(w)

\* The process dies, or an exception nobody catches ends its loop, wherever
\* it is; what its last transaction did not commit is gone.
Crash(w) ==
  /\ pc[w] \notin {"off", "killed", "crashed"}
  /\ crashes < MaxCrashes
  /\ crashes' = crashes + 1
  /\ Leave(w, "crashed")
  /\ UNCHANGED <<dbVars, requestVars, stalls>>
-----------------------------------------------------------------------------
(* submit_appeal: the case is read and checked, then written; there is no  *)
(* lock between the two.                                                   *)

\* Mutant: appeals has no unique index on case_id.
NoAppealRow(c) == FALSE

HasAppealRow(c) == c \in appeals

Appealable(c) == status[c] = "SENTENCED" /\ c \notin appealUsed

AppealCheck(r, c) ==
  /\ request[r] = "idle"
  /\ Appealable(c)
  /\ request' = [request EXCEPT ![r] = "checked"]
  /\ rcase' = [rcase EXCEPT ![r] = c]
  /\ UNCHANGED <<dbVars, workerVars, boundVars>>

\* 409 APPEAL_ALREADY_USED.
AppealRefuse(r, c) ==
  /\ request[r] = "idle"
  /\ status[c] # "ABSENT"
  /\ ~Appealable(c)
  /\ request' = [request EXCEPT ![r] = "refused"]
  /\ UNCHANGED <<dbVars, workerVars, rcase, boundVars>>

AppealAccept(r) ==
  LET c == rcase[r] IN
    /\ request[r] = "checked"
    /\ ~HasAppealRow(c)
    /\ CodeIsFree(c)
    /\ appeals' = appeals \union {c}
    /\ appealUsed' = appealUsed \union {c}
    /\ status' = [status EXCEPT ![c] = "QUEUED"]
    /\ stage' = [stage EXCEPT ![c] = "rejudgment"]
    /\ older' = Touch({c})
    /\ request' = [request EXCEPT ![r] = "accepted"]
    /\ UNCHANGED <<attempts, lockedBy, revision, rejudgmentFailed, expired,
                   charges, pleas, judgments, overturned, workerVars, rcase,
                   boundVars>>

\* uq(case_id) of appeals or uq_cases_active_code refuses the commit, and no
\* handler expects it: 500, everything rolled back.
AppealRaises(r) ==
  /\ request[r] = "checked"
  /\ HasAppealRow(rcase[r]) \/ ~CodeIsFree(rcase[r])
  /\ request' = [request EXCEPT ![r] = "error"]
  /\ UNCHANGED <<dbVars, workerVars, rcase, boundVars>>
-----------------------------------------------------------------------------
Next ==
  \/ \E c \in Cases : Submit(c) \/ Elapse(c)
  \/ \E w \in Workers :
       \/ Start(w) \/ Reap(w) \/ PickNothing(w) \/ Heartbeat(w)
       \/ Commit(w) \/ Crash(w)
       \/ \E c \in Cases : PickUp(w, c)
       \/ \E a \in Answers : Answer(w, a)
  \/ \E r \in Appellants :
       \/ AppealAccept(r) \/ AppealRaises(r)
       \/ \E c \in Cases : AppealCheck(r, c) \/ AppealRefuse(r, c)

Spec == Init /\ [][Next]_vars

\* Workers keep running, the provider answers in the end, and time passes.
Fairness ==
  /\ \A w \in Workers :
       /\ WF_vars(Start(w))
       /\ WF_vars(Reap(w))
       /\ WF_vars(PickNothing(w) \/ \E c \in Cases : PickUp(w, c))
       /\ WF_vars(\E a \in Answers : Answer(w, a))
       /\ WF_vars(Commit(w))
  /\ \A c \in Cases : WF_vars(lockedBy[c] \in Dead /\ Elapse(c))

FairSpec == Spec /\ Fairness
-----------------------------------------------------------------------------
(* Properties.                                                             *)

\* The lock column and the workers agree: a working case is locked, and its
\* owner is dead or busy with just that stage of just that case.  So no two
\* workers hold one case and no worker holds two (locked_by as a fence).
LockAgreement ==
  \A c \in Cases :
    /\ status[c] = "WORKING" <=> lockedBy[c] # NoWorker
    /\ LET w == lockedBy[c] IN
         status[c] = "WORKING" =>
           \/ w \in Dead
           \/ pc[w] \in {"running", "answered"} /\ wcase[w] = c /\ wstage[w] = stage[c]

\* The rows of a case's file are exactly those of the stages behind it, in
\* every state: a stage takes effect once, whoever retries, dies or is late.
FileMatchesStage ==
  \A c \in Cases :
    /\ c \in charges <=> stage[c] # "prosecution"
    /\ c \in pleas <=> stage[c] \in {"judgment", "rejudgment"}
    /\ judgments[c][0] # NoRuling <=>
         stage[c] = "rejudgment" \/ (stage[c] = "judgment" /\ status[c] = "SENTENCED")
    /\ judgments[c][1] # NoRuling <=> revision[c] = 1
    /\ revision[c] = 1 => status[c] = "SENTENCED"

\* A case ends where its status says: dismissed by the prosecution alone,
\* failed before its first judgment alone, and after an appeal sentenced
\* either by the new judgment or, for good reason, by the old one.
EndingMatchesStage ==
  \A c \in Cases :
    /\ status[c] \in {"ABSENT", "DISMISSED"} => stage[c] = "prosecution"
    /\ status[c] = "FAILED" => stage[c] # "rejudgment"
    /\ status[c] = "SENTENCED" => stage[c] \in {"judgment", "rejudgment"}
    /\ revision[c] = 1 \/ c \in rejudgmentFailed <=>
         status[c] = "SENTENCED" /\ stage[c] = "rejudgment"
    /\ ~(revision[c] = 1 /\ c \in rejudgmentFailed)

\* The original judgment is overturned exactly when a rejudgment committed
\* that differs from it, so a failed or an equal one leaves it a precedent.
OverturnedWhenChanged ==
  \A c \in Cases :
    c \in overturned <=> judgments[c][1] \notin {NoRuling, judgments[c][0]}

\* The one appeal: appeal_used, the appeal row, the stage and the accepted
\* request all stand for the same single event, though requests check and
\* write in two steps.
OneAppealPerCase ==
  /\ appeals = appealUsed
  /\ \A c \in Cases : c \in appealUsed <=> stage[c] = "rejudgment"
  /\ \A c \in appealUsed : \E r \in Appellants : request[r] = "accepted" /\ rcase[r] = c
  /\ \A q, r \in Appellants :
       request[q] = "accepted" /\ request[r] = "accepted" /\ rcase[q] = rcase[r] => q = r

\* A stage is given up only after all the attempts it is entitled to, even
\* when some of them were lost to crashes and reaped.
GivenUpWhenExhausted ==
  \A c \in Cases :
    status[c] = "FAILED" \/ c \in rejudgmentFailed =>
      attempts[c][stage[c]] >= MAX_STAGE_ATTEMPTS

\* Both: a case ends at the stage its status says, and is failed, or its
\* rejudgment given up, only by a stage that used all of its attempts.
EndingIsRight == EndingMatchesStage /\ GivenUpWhenExhausted

\* The budget of provider calls the code does keep: a stage is picked up more
\* often than MAX_STAGE_ATTEMPTS only by as many locks as were lost, to a
\* worker's death or to a stall.
AttemptsBudget ==
  \A c \in Cases, s \in Stages :
    attempts[c][s] <= MAX_STAGE_ATTEMPTS + stalls + Cardinality(Dead)

\* At most one case of a user, code and language is on trial, although
\* appeals bring finished cases back.
OneActivePerCode ==
  \A c, d \in Active : CodeOf[c] = CodeOf[d] => c = d

\* A worker that lost its lock changes nothing in the database any more.
LateAnswerChangesNothing ==
  [][\A w \in Workers :
       pc[w] = "answered" /\ pc'[w] # "answered" /\ lockedBy[wcase[w]] # w
         => UNCHANGED dbVars]_vars

\* What a step may never do: drop or rewrite a row of the file, reopen a
\* dismissed or failed case, or reopen a sentenced one without using up its
\* appeal.
RecordIsFinal ==
  [][/\ charges \subseteq charges' /\ pleas \subseteq pleas'
     /\ appeals \subseteq appeals' /\ overturned \subseteq overturned'
     /\ \A c \in Cases :
          /\ \A v \in Revisions : judgments[c][v] # NoRuling => judgments'[c][v] = judgments[c][v]
          /\ status[c] \in {"DISMISSED", "FAILED"} => status'[c] = status[c]
          /\ status[c] = "SENTENCED" /\ status'[c] # "SENTENCED"
               => c \notin appealUsed /\ c \in appealUsed']_vars

\* Every case on trial ends, whatever crashes while some worker is left.
EveryTrialEnds ==
  \A c \in Cases : c \in Active ~> status[c] \in {"SENTENCED", "DISMISSED", "FAILED"}

\* A dead worker's case does not stay locked.
DeadLocksAreReaped ==
  \A c \in Cases : (lockedBy[c] \in Dead) ~> (lockedBy[c] \notin Dead)

\* worker.py 79 and 557: a completion that comes late is dropped quietly; it
\* does not end the worker that brought it.
LateWorkerSurvives == \A w \in Workers : pc[w] # "killed"

\* openapi.yaml 542 and api.md 30: an appeal of an existing case is accepted
\* or answered with 409.
AppealIsAnswered == \A r \in Appellants : request[r] # "error"

\* Where a case stands: at a stage, whether it waits or is worked on, or ended.
Phase == [c \in Cases |-> IF c \in Active THEN stage[c] ELSE status[c]]

\* The court without workers, locks, attempts and requests.
Lifecycle == INSTANCE CaseLifecycle WITH phase <- Phase

\* Picking up, reaping, retrying, crashing and late commits are stutters of
\* CaseLifecycle; every other step is one of its steps.
ImplementsLifecycle == Lifecycle!Spec

\* The same with its fairness: what the lifecycle must finish, it finishes.
ImplementsFairLifecycle == Lifecycle!FairSpec
=============================================================================
