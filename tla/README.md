# Code Court in TLA+

Code Court puts submitted code on trial: a prosecution, a defense and a judge,
each one call of an LLM provider, and one appeal. The trials are run by worker
processes that use a PostgreSQL table as their queue; a page in the browser
follows them. These modules model what is concurrent in it, from the code that
comes in to the page that shows the end, and what its validators let through.
TLC checks them on small instances, and TLAPS proves the main results for
every instance.

Paths below are relative to `server/app/` unless they start with another directory.

## 1. Inventory

| Part | State | Operations | What is hard | What makes it correct |
| --- | --- | --- | --- | --- |
| Trial pipeline (`services/worker.py`, `worker_main.py`) | columns `status`, `*_attempts`, `locked_at`, `locked_by`, `revision`, `rejudgment_failed_at`, `updated_at` of `cases`; tables `charges`, `pleas`, `judgments`; each worker's place in its loop | `reap_stale_locks`, `pick_up_next_case`, `heartbeat`, `process_stage` | workers die or stall anywhere; a reaped worker answers late; retries | locks are exclusive, a stage takes effect once, a case ends, endings are right |
| Appeal (`services/appeal.py`) | `appeal_used`, table `appeals` | `submit_appeal` | check and write are apart; makes an ended row active again | one appeal, whatever becomes of it |
| Submission (`services/case_submission.py`) | rows of `cases`, table `github_fetch_attempts` | `submit_case` and what it calls | five statements apart: cache, limits, insert, look-up | one trial per key, true answers, limits |
| Validation (`services/validation.py`) | loop variables | `validate_prosecution`, `validate_defense`, `validate_judgment` | discard, dedup, truncate, re-index, clamp | indices 0..n-1; no partial judgment |
| Precedents (`services/precedent.py`) | `judgments.precedent_verdict_ids` | `fetch_precedents` | a statement for each charge, read before the provider call, stored after it | budgets; gravest first; no overturned judgment |
| Sentence checklist (`services/sentence.py`) | `sentences.completed_at`, the boxes of the page | `toggle_sentence`, its box on the page | two revisions; toggles that cross, get lost or come from elsewhere; loads that rewrite a box | a box shows what is stored; a toggle is counted |
| Case reads (`services/case_read.py`) | none | detail, list, frequency | several statements per answer | one coherent picture |
| Case page (`client/app/cases/[id]/page.tsx`, `client/components/AppealModal.tsx`) | detail, error, interval, modal | load, poll, appeal, leave | overlapping polls, lost answers, two timers | shows the end of the trial, then is quiet |
| GitHub fetch (`services/github.py`) | none | `fetch_ref` | the branch moves; limits on a stream; failures | pinned commit, documented error |
| Code normalisation and hash (`services/code.py`) | none | `normalize_newlines`, `strip_comments` | quotes in comments, comments in strings | comments do not change the key |
| LLM provider (`services/llm_provider.py`) | none | four calls | any answer at any time | - |
| Rule catalog, authentication, CSRF, routers, schemas, other client pages | constants or none | - | - | - |

Workers and requests never call each other. They meet in the database, where
each statement or transaction is atomic, READ COMMITTED, and where the unique
indexes are the only constraint that spans transactions. A worker calls the
provider between two transactions, with a heartbeat task renewing its lock.
The page meets the server in HTTP requests alone; its callbacks interleave at
every `await`.

The hazards of the code, each with its line and the properties that cover it,
are listed in `PROJECT.json`.

## 2. Modules

`CaseLifecycle` is the abstract court. `CasePipeline` implements it, and
`Docket`, `CasePage`, `CaseReads` and `Precedents` compose with it: each takes
it as `Court == INSTANCE CaseLifecycle` and uses its actions as the steps that
workers take meanwhile, so that no module repeats the pipeline. `Intake` ends
where `Docket` begins, and `Validation` refines what an answer of the provider
is in `CasePipeline`.

### CaseLifecycle: what the court promises

A case is `ABSENT`, at one of four stages, or ended. Each stage takes effect
once, a judgment is never rewritten, a sentenced case may be appealed once, and
a rejudgment that is given up leaves the old judgment in force. There are no
workers, locks, attempts or requests in it. `FairSpec` adds that the court
finishes what it began (`WF` of `Progress` for each case).

### CasePipeline: workers, reaper, heartbeat, commits, appeals

One action is one transaction, or one step between two of them.

| Variables | Code |
| --- | --- |
| `status`, `stage` | the column `status`: `QUEUED_DEFENSE` is `"QUEUED"` with `"defense"`, `DEFENDING` is `"WORKING"` with `"defense"`; of an ended case `stage` is the stage that ended it |
| `attempts`, `lockedBy`, `revision`, `appealUsed`, `rejudgmentFailed` | the columns of these names |
| `expired` | the cases whose `locked_at` is older than `LOCK_TIMEOUT_MINUTES` |
| `older` | the order of `updated_at`, as a relation: rows of one UPDATE are not ordered among themselves |
| `charges`, `pleas`, `appeals`, `judgments`, `overturned` | which cases have rows in these tables; the ruling of each revision; `is_overturned` of revision 0 |
| `pc`, `wcase`, `wstage`, `answer` | a worker's place in `run_worker_loop` and the locals of `process_stage` |
| `request`, `rcase` | a request in `submit_appeal` |

| Actions | Code |
| --- | --- |
| `Submit` | the insert of `_submit_common` and the index `uq_cases_active_code` |
| `Elapse` | fifteen minutes without an update of `locked_at`: the worker is dead, or its process or its heartbeat stalls (`MaxStalls`) |
| `Start`, `Reap`, `PickUp`, `PickNothing` | `main`, `reap_stale_locks`, `pick_up_next_case` |
| `Heartbeat`, `Answer` | `heartbeat.beat`; a `_run_<stage>` returns, with any outcome its stage may have |
| `CommitRaises`, `CommitStale` | the INSERTs hit a unique index; the conditional UPDATE finds no row |
| `Indict`, `Dismiss`, `Plead`, `Sentence`, `Rejudge`, `Retry`, `GiveUp` | the successful commits of `process_stage`, one per branch |
| `Crash` | a process dies, or an exception that nobody catches ends its loop (`MaxCrashes`); a restarted process has a new `worker_id`, so it is another worker |
| `AppealCheck`, `AppealRefuse`, `AppealAccept`, `AppealRaises` | `submit_appeal`: read and check, 409, commit, or a unique violation |

A ruling stands for the verdicts of all charges; the only thing the code does
with two rulings is to ask whether they differ. What an answer says beyond
that is left out, and so are wording, timestamps as numbers and logging.

### Docket: submissions

Requests of users, each a sequence of statements: check the fetch limit,
record the attempt, fetch, look the cache up, check the daily limit, insert,
and, if the index refuses, look for the trial. Of the court it uses `Submit`,
`Progress` and `Appeal`. A row is named by the request that inserted it.
`createdAt` numbers the rows in the order of insertion; `recent` and
`recentFetches` are what is inside the 24-hour windows, and `Expire` lets
something leave.

### Intake: how code comes in

A paste, or a link whose branch is resolved to a commit (`Resolve`) and whose
file is then streamed in chunks (`Receive`, `Decode`), while somebody pushes to
the branch (`Push`). `Fail` is every way a fetch may end badly: a 404, another
status, a connection that breaks or times out, and a body that is no JSON,
which nobody catches. `Submit` is the length check of `_submit_common`.

| Variables, operators | Code |
| --- | --- |
| `origin`, `code`, `step`, `reply` | the locals of `submit_case` and its answer |
| `contents`, `head` | GitHub: the file at each commit, and where the branch is |
| `commit`, `received` | `commit_sha`; the length of `buffer` |
| `normalize_newlines`, `total_lines`, `Checked` | the functions of these names and `_validate_submission` |
| `Beyond` | the two comparisons of the streaming loop |
| `Kept`, `Stripped`, `strip_comments` | the scanner that removes comments, for Python and for the languages with `//` and `/* */`: what it keeps from a character on, in each state of `in_string` |

A file is a sequence of the characters these functions tell apart; `"backquote"`
is the third quote of JavaScript and TypeScript, and `"javascript"` stands for both.

### Validation: what is made of the provider's answers

The three functions of `services/validation.py` for one trial. Each is a loop
over a list; `Read...` takes one item through the body of the loop, with every
discard, reset and clamp, and `End...` is what follows the loop. What an answer
contains is free: any list, up to `MaxItems`, of items that are well-formed.
`Retry...` is every way in which an answer comes to nothing: a schema error at
any item, silence on all charges, a missing verdict, or (before the first item)
a rejudgment without `rebuttal_accepted`. The module says what the outcomes of
`CasePipeline`'s `Answer` stand for: `EndProsecution` is its `charges` or
`no_charges`, `EndDefense` its `pleas`, `EndJudgment` its rulings, `Retry...` its
`failed`; the two are not composed, since nothing can interfere with a validator.

| Variables | Code |
| --- | --- |
| `phase`, `read` | which loop runs, and how far it is |
| `charges`, `truncated` | `survivors`, `charges_truncated`; the charge of `charge_index` i is at i + 1 |
| `pleas`, `verdicts` | `by_index` and `candidates`, as functions on the indices; once a loop has ended, its result |
| `sentences` | the accepted sentences, in order |

Severities and efforts are their ranks, a reason is good or not. A rule of the
catalog that is inactive or of another language is one the model does not know.
The stable sort is given by what it is (`GravestFirst`: the permutation that
orders by severity, then by place), so that it can be reasoned about;
`GravestKept` compares it with places that are counted (`Place`): how many
charges are graver, or as grave and named before.

### Precedents: what a judge is shown

| Variables | Code |
| --- | --- |
| `lookup`, `unserved`, `remaining`, `found` | `fetch_precedents` for each case: where it is, the charges left, `remaining_budget`, the rows found for each charge |
| `cited` | the cases behind `judgments.precedent_verdict_ids` |
| `always`, `ever` | history: the verdicts that stood all the time since the lookup began, and those that stood at some time since |

`Begin`, one `Query` per charge, `Ask` (the provider is called), then `Judge`
(with `Court!Sentence` or `Court!Rejudge`), `Retry` or `GiveUp`. `Rows` is what
the SELECT may return: whatever agrees with its filter, its ORDER BY and its
LIMIT; verdicts of one case, or of cases of one moment, are not ordered among
themselves. `Proceed` is what other cases do meanwhile. `Workers` bounds the
lookups under way at once.

### CaseReads: detail, list and checklist

`view[q]` is what the statements of request `q` have returned so far, and an
action of a request is one statement: `ReadRow` to `ReadAppeal` are
`_get_owned_case` and `build_case_detail`, `CountCases` to `CountDone` are
`list_cases`, and `LoadSentence`, `Toggle`, `CountTotal` and `CountProgress` are
`toggle_sentence`: the load, the UPDATE with its commit (none if the row stays
not completed, since SQLAlchemy then has nothing to write), and the two counts.
`Try` is a step of the court with the rows of charges and pleas it adds.

| Variables | Code |
| --- | --- |
| `completed` | `sentences.completed_at` |
| `shown`, `ticked` | the page: the sentences of the detail it loaded last, and those with a `completed_at` in it |
| `kind`, `about`, `target`, `want`, `step`, `view` | a request: what it asks, of which cases or sentence, how far it is, what it has read |
| `crossed` | history: for each request, the sentences that another toggle was under way for while it was a toggle of them or a detail they are in |
| `unsure` | history: the boxes that may be wrong, see `BoxesAgree` |

A toggle is asked for by a `Click` on a box that is shown, which wants the
opposite of what the box shows, or by a `Call` of another page or client, which
wants anything and tells this page nothing. `Show` is `setDetail` in `loadDetail`:
it replaces all boxes by what the detail read, whenever that was. Since polls
overlap, a page may load several times at once (`GetCase`), so a detail read
before a toggle can arrive after its answer and untick the box. `ShowBox` sets one
box from an answer, if the box is still there. `Lose` ends a request at any of its
statements; a click that is lost to the page while the server goes on with it is
one that is lost, and a `Call`.

Whether the view with the boxes is displayed depends on the status, which is
`CasePage`'s; here boxes can be clicked as long as they are loaded. A page that is
left and opened again is one that loads again.

### CasePage: the page of a case

| Variables | Code |
| --- | --- |
| `page`, `shown`, `banner`, `modal` | the component is absent, open or unmounted; `detail`, `error`, `appealOpen` |
| `timers`, `ref` | the intervals that run (`start`, of the load; `again`, of an appeal) and `intervalRef.current` |
| `call`, `caller`, `answer`, `ahead` | the requests under way: what is asked, by which callback, the answer, and the answers given before it that have not arrived |
| `overtaken`, `blind` | history: an answer arrived after a younger one; the case was appealed and this page was not told |

A request is sent (`Open`, `Tick`, `SendAppeal`), served at a later moment
(`Serve`) or lost with or without its effect (`Lose`), and delivered at a later
one still, in any order (`Deliver`): `Mounted`, `EndPolled`, `StagePolled`,
`Reloaded`, `LoadFailed`, `SentToLogin`, `AppealAccepted` and `AppealFailed` are
what the callbacks do after their `await`. `Leave` is the cleanup of the effect,
`Expire` the end of the access token, `AppealElsewhere` an appeal from another
tab.

### MC modules and configurations

The `MC` modules only name instances: `MixedAsks` are the submissions that may
arrive, `Accusations`, `Replies`, `Decisions` and `Orders` the items of answers
(some to keep, some to correct, some to discard for each reason there is, and
duplicates that differ), `SomeFiles` the files. `SpecInCourt` of `MCPrecedents`
starts `Precedents` in the middle: one case is appealed, one defended, one
about to be submitted. From the empty court those states take many steps in
which no lookup is possible.

## 3. Runs

| Run | Question | Bounds | Why they are enough |
| --- | --- | --- | --- |
| `pipeline_one_case` | do locks, files, endings, overturning, appeals and attempts stay right in every interleaving? | 1 case, 2 workers, 3 attempts, 2 stalls, 1 crash, 2 appeals, 2 rulings | every stage can be retried to its limit, reaped twice, answered late and appealed by two requests; both workers may be late for each other |
| `pipeline_two_cases` | does the active index hold through appeals? does the pipeline implement the lifecycle? | 2 cases of one code, 2 workers, 1 attempt, 1 stall, 2 appeals | a trial, its retrial and an appeal of each can contend for the index |
| `pipeline_liveness` | does every trial end, is every dead worker's lock taken back, is the fair lifecycle implemented? | 1 case, 3 workers of which 2 may die, 2 attempts, 1 appeal | a stage can lose its worker twice in any state |
| `docket_safety` | true answers, sound retrials, limits | 3 requests, 2 users, 2 codes, 2 open at a time, limits of 1 | the limits are reached and overrun; a retrial may follow a retrial |
| `intake` | do stream and length check agree, is the code that of its commit, do comments leave the key alone? | all files of up to six characters in three alphabets, 1 push, limits of 3 lines and 5 characters, chunks of 2 bytes | files below, at and above both limits, wide characters and line ends that a chunk splits; a quote, an escape and a comment in every order |
| `validation` | are indictment, defense, judgment and sentences sound whatever the provider answers? | 2 rules with defaults at both ends, 2 lines, a cap of 2, answers of 4 charges, 2 pleas, 3 verdicts, 2 sentences | four distinct places can survive, so the cap cuts, with ties; each index can be named twice and one is out of range; both ends of the ranks are clamped |
| `precedents` | are budgets kept, the gravest charges served first, overturned judgments left out? | 3 cases of 2 languages, 2 rules, budgets of 2 and 3, 2 lookups at once, 2 rulings | the budget of the case cuts a charge short, two charges compete for it, and a shown judgment can be appealed and overturned before, between and after the statements |
| `case_reads` | do the statements of one answer fit together, do the boxes show what is stored? | 1 case, 2 requests at a time, 1 task ordered by both judgments | the court can move, and a click, a load or a toggle of another client can cross another one, between any two statements; requests go on for ever, so what one leaves behind meets every later one |
| `case_page` | is the right end shown, are the timers kept, is a quiet page right? | 1 case, 2 requests of the page at once, 1 ruling | a poll can overlap a poll, a load or an appeal; requests go on for ever |
| `pipeline_late_worker`, `appeal_retrial`, `page_stops` | see section 4 | as small as the case needs | the run ends with the counterexample |

Permutations of workers, requests and rulings are symmetries of the safety
runs; no liveness property is checked under symmetry. Deadlock is not checked
where all workers may have died, all requests been answered or the page left.
Every property of a passing run is paired in `PROJECT.json` with a change of the
code that breaks it, such as an UPDATE that does not ask for the owner of the
lock, a status missing in the reaper's table, or a comparison that is off by
one; the mutated operators stand next to the ones they change.

What the properties say:

- `LockAgreement`: `status`, `locked_by` and the workers agree; no two workers hold a case and none holds two.
- `FileMatchesStage`: charges, pleas and judgments exist exactly for the stages behind a case.
- `EndingIsRight` (`EndingMatchesStage` and `GivenUpWhenExhausted`), `OverturnedWhenChanged`, `OneAppealPerCase`: what several transactions must keep consistent up to the end of a case.
- `AttemptsBudget`: how far the attempts can really go: `MAX_STAGE_ATTEMPTS` plus the locks that were lost.
- `LateAnswerChangesNothing`, `RecordIsFinal`: what no step may do.
- `OneActivePerCode`, `AnswersAreTrue`, `RetrialsFollow`: the unique index and the answers that rely on it.
- `LimitBounds`: count-then-insert exceeds a limit by at most the other requests that are open.
- `CodeIsOfCommit`, `LinkLikePaste`, `CommentsChangeNothing`: the code that is tried, the answers about its length, and its key.
- `ChargesAreSound`, `DefenseSpeaks`, `JudgmentIsComplete`, `SentencesFit`: what each stage may take for granted of the one before.
- `GravestKept`: what truncation keeps.
- `BudgetKept`, `NothingBetterLeftOut`, `OverturnedLately`, `PrecedentsAgree`: how many precedents, which ones, and how stale they can be.
- `DetailIsCoherent`, `ListIsCoherent`: what a detail and a line of the list say fits, although it was read at several moments. The two counts of a line may be of two judgments only if the rejudgment was committed between its last two statements.
- `ToggleIsCounted`: the answer to a toggle counts that toggle, unless another one of its sentence crossed it.
- `BoxesAgree`: a box for which no click is under way shows what is stored, unless the answer that wrote it (to a click or to a load) crossed another toggle of the sentence, a click of it was lost since, or somebody else has changed the row since. The next click or load that meets no other toggle puts it right, because a toggle asks for a state and not for a change of it.
- `SentenceHasJudgment`, `TimersAreKept`, `QuietPageIsRight`: what the page shows in whatever order answers come, which timers can run, and that a page that has stopped asking is right unless it shows an error, was overtaken or not told of an appeal.
- `EveryTrialEnds`, `DeadLocksAreReaped`, `ImplementsFairLifecycle`, `EndIsShown`: progress.

### Fairness

`Fairness` in CasePipeline assumes, per worker, that its next step is taken:
`run_worker_loop` is an endless loop whose only wait is a sleep of two seconds,
and `asyncio` runs its task; that the provider answers (`WF` of `Answer`); and
that fifteen minutes pass for the lock of a dead worker. The
second is an assumption on the provider: `process_stage` sets no deadline, and a call
that never returns keeps its case for as long as the heartbeat beats. Crashes are bounded and one worker
never dies, which stands for a platform that restarts the worker service.
Nothing is assumed of appeals, heartbeats, stalls or submissions. A late
worker killed by a unique violation counts as dead; in the liveness run no
lock of a living worker expires (`MaxStalls = 0`), since otherwise all
workers could be lost in that way.

`Fairness` in CasePage assumes that a running interval fires again
(`setInterval`), that a request is served and what is answered arrives (`fetch`
settles), and that the court goes on, which is what `EveryTrialEnds` shows of
the pipeline. Nobody has to open or leave the page or to appeal, and nothing
has to be lost. `EndIsShown` speaks of pages that are `Calm` from some time on:
open, logged in, with no load lost, no answer overtaken and no appeal behind
their back; without one of these the code does not keep the promise.

## 4. Where the code and its documents disagree

Three of the disagreements have a run whose counterexample shows them:

| Run | What happens |
| --- | --- |
| `pipeline_late_worker` | `worker.py:557` and `docs/plans/plan.md:47` say that a late completion is dropped quietly. Its INSERTs come before the conditional UPDATE, so when the other worker has committed the stage, a unique index raises `IntegrityError`, which ends the worker. |
| `appeal_retrial` | `docs/api.md:30` allows the appeal of a sentenced case. While a forced retrial is on trial, the index refuses it, a 500. |
| `page_stops` | `docs/api.md:28` stops polling at a terminal status. A poll that was answered before the end and arrives after the terminal one puts its old status back, with the interval already cleared. |

Others are in the models, and the passing properties say what holds all the same:

- `plan.md:109` caps a stage at three attempts. The cap is compared when a failure is committed, so attempts that end in a crash are not held to it (`AttemptsBudget`).
- `openapi.yaml:542` answers a used appeal with 409. Of two appeals that pass the check together the second is a 500 (`OneAppealPerCase`).
- `api.md:27` answers a submission of a code on trial with that trial. If it ends between the refused insert and the look-up, `existing` is `None`: a 500 (`AnswersAreTrue`).
- `plan.md:323` says that a judged code is not tried again. A request that read the cache before the judgment and inserts after it opens a second trial (`RetrialsFollow`).
- `plan.md:314` relies on 20 submissions a day. Requests that count together insert together (`LimitBounds`).
- `docs/superpowers/specs/2026-09-07-adversarial-code-review-design.md:185` accepts the first of several sentences of one charge. `validate_judgment` accepts them all; only verdicts are kept apart by index (`SentencesFit`).
- `plan.md:102` overturns the first judgment with every rejudgment that succeeds. The code does so only if a verdict differs (`OverturnedWhenChanged`), so a case may be cited twice, with one voice (`PrecedentsAgree`).
- `plan.md:104` keeps a case whose rejudgment failed out of the precedents and the cache. The cache does (`Docket`'s `Cacheable`); the statement of `precedent.py:53` does not, and `plan.md:264` gives it the right to.
- `services/sentence.py:28` counts progress over all revisions, since there could be one only. Since appeals work, a toggle after a rejudgment answers with the sentences of both judgments, where the list (`case_read.py:200`) counts the current one (`ToggleIsCounted` claims that they are equal before the rejudgment only).
- The checklist of a page (`client/app/cases/[id]/page.tsx:47` and `:103`) has no order among its answers and hears of nobody else's toggles: a load that was read before a toggle and arrives after its answer unticks a completed sentence, and the box stays wrong after a toggle from another tab, until the next load or click (`BoxesAgree` says when).
- The limit of 20000 characters is one of bytes in the stream of a link (`github.py:128`), so a file of wide characters is refused by link and accepted by paste (`LinkLikePaste`).
- A `200` of GitHub whose body is no JSON is an exception that no handler expects, a 500 (`github.py:105`).
- The page starts the timer of an appeal after an `await`, without asking whether it is still there: left in between, it polls until the case ends, and a 401 of such a poll is an unhandled rejection (`page.tsx:132`; `TimersAreKept`).
- The list page (`client/app/cases/page.tsx`) pages by offset and stops offering more when as many items as `total` are there; a submission between two pages, or two quick clicks, repeats items and leaves others out. This one is not modelled.

## 5. Proofs

All theorems hold for all values of the constants that meet the named
assumptions of the modules: bounds are naturals (and at least one attempt is
allowed), null values are distinct from what they could be confused with, sets
that are counted are finite, catalogs and files have the fields the code reads.

| Module | About | Proved |
| --- | --- | --- |
| `CaseLifecycleProofs` | `CaseLifecycle` | `FilesAlwaysFit`: judgments, overturning, appeals and failed rejudgments fit the phase. Its lemmas, one for each action of the court, are what the modules that compose with it rely on |
| `CasePipelineProofs` | `CasePipeline` | types, `LockAgreement`, `FileMatchesStage`, `EndingIsRight`, `OverturnedWhenChanged`, `OneAppealPerCase`, `LateAnswerChangesNothing`, `RecordIsFinal`, `OneActivePerCode`, `AttemptsBudget`, `HoldersCommit`, the refinement of `CaseLifecycle` |
| `DocketProofs` | `Docket` | types, `OneTrialPerCode`, `AnswersAreTrue`, `RetrialsFollow`, `LimitBounds` |
| `ValidationProofs` | `Validation` | types, `ChargesAreSound`, `DefenseSpeaks`, `JudgmentIsComplete`, `SentencesFit`, `GravestKept` |
| `PrecedentsProofs` | `Precedents` | types, `BudgetKept`, `NothingBetterLeftOut`, `OverturnedLately` and `PrecedentsAgree`, `NoOwnPrecedent` |
| `CaseReadsProofs` | `CaseReads` | types, `DetailIsCoherent`, `ListIsCoherent`, `ToggleIsCounted`, `BoxesAgree` |
| `CasePageProofs` | `CasePage` | types, `SentenceHasJudgment`, `TimersAreKept`, `QuietPageIsRight` |
| `IntakeProofs` | `Intake` | types, `CodeIsOfCommit`, `LinkLikePaste`, `CommentsChangeNothing` |

**CasePipelineProofs.** The inductive invariant is `Inv == Typed /\ Record /\ LockAgreement`.

- `Typed` is `TypeOK` with `BusyWorkers` (a worker that runs or has answered has a case, and an answer its stage can give) and `BusyRequests`. A step of a worker writes to `wcase[w]`, so its type needs the first.
- `Record` is the conjunction of `FileMatchesStage`, `EndingMatchesStage`, `OverturnedWhenChanged`, `OneAppealPerCase`, `GivenUpWhenExhausted` and `CheckedRequests`. They need each other: that `Sentence` does not rewrite a judgment follows from the file, that `Rejudge` compares with an existing judgment from the stage, that a second appeal is refused from the agreement of the appeal row with the stage. `CheckedRequests` says what a checked request may still rely on although the case moved on: the case was sentenced before, so it is sentenced still or its appeal is used.
- `LockAgreement` gives the commit its fence: the row it finds is the one it works on.

Each conjunct has its own lemmas, one step per action. The lemmas on
`Complete`, the part that all commits share, carry most of the commits.
`HoldersCommit` says that a worker that still holds its lock never meets a
unique index, so the defect of `pipeline_late_worker` can only hit late
workers. `OneActive` follows from the guards of `Submit` and `AppealAccept`,
which are the index, and from the fact that no other step makes a row active.
`AttemptsBudget` follows from `AttemptsCounted`: a lost lock is paid for, as a stall
or as a dead worker, before its case is picked up again (`GoesAround`), and a stage
that is not reached yet has no attempts; dead workers can be counted since there
are finitely many (`WorkersAssumption`).
In `Refinement`, `Phase` is the stage of an active case and the status of any
other; picking up, reaping, retrying, late commits and crashes are stutters.

**DocketProofs.** To the properties themselves the invariant adds what a
request remembers while others move: `HitIsOld` (the cached case it read is of
its key, older than any row it may insert, and ended, or reopened by an appeal),
`RefusalHasTrial` (a request that looks for the trial that refused it knows that
there was one), `AnswerIsTrue` and `RowsAreCounted` (creation times are below the
number of rows). The limits have an invariant of their own, `LimitInv`: the recent
rows of a user together with the user's requests that have passed the check are
within the bound, since the open requests are; it counts finite sets.

**ValidationProofs.** The invariant is `TypeOK /\ ChargesAreSound /\
DefenseSpeaks /\ NoneMissing /\ SentencesFit`, where `NoneMissing` (no index is
`Missing` once sentences are read) carries the judgment from the loop that
checked it to the end. Three lemmas are about operators: `AsChargedSound` and
`AsSentencedSound` on what an item becomes, and `IndictmentSelects`, that a
truncated indictment takes each charge from a place of its own, hence has no
duplicates. `GravestKept` says where each charge ends up, which takes two facts
about the stable sort that `GravestFirst` only characterises: it exists
(`SortExists`, since the counted places are different numbers from 1 to the
length, `PlacesDiffer` and a count) and there is only one (`IndictmentIsOne`: in
any permutation that is ordered that way as many charges come before the k-th as
go before it, `SortedByPlace`).

**PrecedentsProofs.** The invariant says of each lookup that what is shown stood
since it began and agrees (`ShownFits`; a rejudgment that differs overturns, so
two standing judgments of a case agree), that what is shown and what is left
are the budget (`BudgetFits`), that charges are served in order (`OrderFits`), and
that every charge already served was served well (`ChoicesFit`), which stays true
because `always` only shrinks and what comes before a served charge is served.

**CasePageProofs.** The invariant is the types, the court's `FilesFit`,
`TimersFit` (at most one timer runs, `ref` names it, and who may still start one)
and `AnswersFit`: not only what is shown but every answer under way comes with
the judgment of its revision, and stays so however long it travels, because
judgments are never rewritten.
`QuietPageIsRight` needs `QuietInv` besides: an ending on its way is the present one, or
comes ahead of the answer to the appeal that undid it (`EndingsFit`); of two answers on
their way one was given first, and after the present ending nothing else was given
(`OrderFits`); so a page that nothing will wake shows the end or is loading it
(`StopFits`).

**CaseReadsProofs.** The invariant says what a row, once read, promises of the
statements after it (`Promise`): rows of past stages stay, a dismissal is final, the
judgment of a sentenced row stays, whatever the court does meanwhile. `DetailOf`,
`ListOf` and `ToggleFits` say, for each step of a request, what its statements so far
agree on. `Concerns` relates a request to the sentences it toggles or will show, and
`CrossingsKnown` says that such a request and a toggle of the sentence that are under
way together both know it (a detail knows of the toggle at least). So a toggle that
knows of no other finds in the database what it wrote, and a detail that knows of
none carries to the page what is stored still (`BoxesFit`). With `BoxesAgree` itself
these are inductive: an answer writes a box either rightly or as one that is `unsure`.

**IntakeProofs.** A commit that was found has one file, and the branch is not looked
at again: `FetchFits` carries the commit from its resolution to the submission.
The other two properties are about what recursive functions compute for files of
any length. They are proved without an induction theorem over an operator: a set of
numbers that is not empty has a least one (`LeastNumber`, from the well-foundedness
of strict inclusion on finite sets), so were a claim wrong, it would be wrong at a
first place, where one step of the recursion refutes it. That the recursions have
solutions at all is proved the same way (`NormalizedSolved`, `KeptSolved`): were
there none down to some character, there would be none down to the first such one.

- `LinkLikePaste` needs that a file which exceeds a limit in the stream exceeds it
  when checked (`CutOffRightly`): the newlines that a prefix contains are at most
  those of the whole (`NewlinesGrow`), and normalizing, which makes one newline of
  CR LF and one of CR, loses none that was counted (`NormalizedLines`).
- `CommentsChangeNothing` needs that the scanner, at the end of a code that is
  `Open`, is outside strings and comments, and that what it does before does not
  depend on what follows. `OpenFrom` is `Open` at a position and state of the scanner.
  At the last character it excludes an escape, a `/` that could begin a comment,
  and a comment that does not end (`OpenHasNoEscape`, `OpenHasNoSlash`,
  `OpenHasNoComment`), and at the end a string (`OpenHasNoString`); elsewhere each
  step is the same whatever is added and leads to a position where it holds
  again (`ScanStep`, `OpenSteps`). So whatever is added is scanned from the state
  outside (`ScansToEnd`), and what a comment and a string leave there is a
  matter of a few steps (`LineCommentLeaves`, `BlockCommentLeaves`, `StringStays`).

Every invariant and action property of a run is a theorem. Only model-checked is
liveness (`EveryTrialEnds`, `DeadLocksAreReaped`, `ImplementsFairLifecycle`,
`EndIsShown`): fairness and ENABLED are out of the prover's reach. The
disagreements of the violation runs are counterexamples and have no proof.

## 6. Not modelled

- `rule_frequency` (one statement), paging of the list, the origins of a case (`case_origin.py`), highlighted lines and rendering: no state that a property could be about.
- Parsing a GitHub link, white space and literals in the normalisation of code, SHA-256: functions on strings without control of their own. `Docket` takes key and language as given.
- The rule catalog is a constant of `Validation`; that a deployment keeps its rules is not a matter of the code.
- Authentication, CSRF, routers and schemas: stateless checks before a handler. Their 401, 404 and 400 answers change nothing.
- The other pages of the client: forms and presentation; of the list page see section 4.
- The provider is any outcome at any time; the real one is not part of the repository. So there is no deadline and no rate limit of it to model.
- Deadlocks of row locks. Every transaction locks one row of `cases`, but for `reap_stale_locks`, which updates the stale rows of the four working states in four statements. Two reapers at once could wait for each other only if one statement visited its rows in two orders; the database would abort one of them, which ends its worker like a `Crash`. Submissions and appeals that meet in a unique index wait for one transaction that waits for none of them.

## 7. Plan

1. The paging of the list page, with rows that arrive between two pages.
2. `Intake` composed with `Docket`: an accepted submission goes on as a request.
