------------------------------ MODULE CasePage ------------------------------
(***************************************************************************)
(* The page of one case in the browser: it loads the case, polls its       *)
(* progress until the trial has ended, loads it again, and may appeal,     *)
(* which starts a second timer.  The callbacks of one page interleave at   *)
(* every await, so a request is sent, served and delivered in three steps, *)
(* and answers may arrive in another order than they were given.           *)
(*                                                                         *)
(* The case itself is CaseLifecycle, with this case alone.                 *)
(***************************************************************************)
CONSTANTS
  Id,                \* the case that is shown
  Slots,             \* bound: the requests of the page under way at once
  Rulings, NoRuling,
  NoDetail, NoAnswer,
  Lost, Unauthorized, Refused  \* answers that are no case: thrown, 401, 409

VARIABLES
  \* the court: see CaseLifecycle
  phase, judgments, overturned, appealUsed, rejudgmentFailed,
  loggedIn,          \* the access token is still good
  \* React: the page is absent, open or left; detail, error, appealOpen
  page, shown, banner, modal,
  \* the timers that run, and intervalRef.current
  timers, ref,
  \* requests: what is called, by which callback, the answer, and the
  \* requests that were answered before this one and not yet delivered
  call, caller, answer, ahead,
  \* history: an answer was delivered after a younger one; the case was
  \* appealed and this page was not told
  overtaken, blind

courtVars == <<phase, judgments, overturned, appealUsed, rejudgmentFailed>>
viewVars == <<page, shown, banner, modal>>
timerVars == <<timers, ref>>
requestVars == <<call, caller, answer, ahead>>
historyVars == <<overtaken, blind>>
vars == <<phase, judgments, overturned, appealUsed, rejudgmentFailed, loggedIn,
          page, shown, banner, modal, timers, ref,
          call, caller, answer, ahead, overtaken, blind>>

Court == INSTANCE CaseLifecycle WITH Cases <- {Id}

Phases == {"ABSENT", "prosecution", "defense", "judgment", "rejudgment",
           "SENTENCED", "DISMISSED", "FAILED"}
TERMINAL == {"SENTENCED", "DISMISSED", "FAILED"}

\* What the page keeps of CaseDetail, and what its calls answer.
Details == [status : Phases, revision : Court!Revisions, appealUsed : BOOLEAN, judged : BOOLEAN]
Failures == {Lost, Unauthorized, Refused}
Answers == Details \union Failures

ASSUME AnswersAssumption ==
  /\ NoDetail \notin Details
  /\ NoAnswer \notin Answers
  /\ Failures \intersect Details = {}
  /\ Lost # Unauthorized /\ Lost # Refused /\ Unauthorized # Refused

ASSUME RulingAssumption == NoRuling \notin Rulings

Calls == {"none", "detail", "progress", "appeal"}
\* The first load, and the callbacks of the two timers.
Timers == {"start", "again"}
Callers == {"mount"} \union Timers

TypeOK ==
  /\ phase \in [{Id} -> Phases]
  /\ judgments \in [{Id} -> [Court!Revisions -> Rulings \union {NoRuling}]]
  /\ overturned \subseteq {Id}
  /\ appealUsed \subseteq {Id}
  /\ rejudgmentFailed \subseteq {Id}
  /\ loggedIn \in BOOLEAN
  /\ page \in {"absent", "open", "left"}
  /\ shown \in Details \union {NoDetail}
  /\ banner \in BOOLEAN
  /\ modal \in BOOLEAN
  /\ timers \subseteq Timers
  /\ ref \in Timers \union {"none"}
  /\ call \in [Slots -> Calls]
  /\ caller \in [Slots -> Callers]
  /\ answer \in [Slots -> Answers \union {NoAnswer}]
  /\ ahead \in [Slots -> SUBSET Slots]
  /\ overtaken \in BOOLEAN
  /\ blind \in BOOLEAN

Init ==
  /\ Court!Init
  /\ loggedIn = TRUE
  /\ page = "absent"
  /\ shown = NoDetail
  /\ banner = FALSE
  /\ modal = FALSE
  /\ timers = {}
  /\ ref = "none"
  /\ call = [s \in Slots |-> "none"]
  /\ caller = [s \in Slots |-> "mount"]
  /\ answer = [s \in Slots |-> NoAnswer]
  /\ ahead = [s \in Slots |-> {}]
  /\ overtaken = FALSE
  /\ blind = FALSE
-----------------------------------------------------------------------------
(* The server.                                                             *)

\* Mutant: revisions are counted from 1.
RevisionFromOne == IF judgments[Id][1] = NoRuling THEN 1 ELSE 2

\* cases.revision: set to 1 by the commit of a rejudgment.
Revision == IF judgments[Id][1] = NoRuling THEN 0 ELSE 1

\* build_case_detail and case_progress_dict at one moment.  A progress has no
\* judgment; the page reads nothing but its status and appeal_used.
CurrentDetail ==
  [status |-> phase[Id], revision |-> Revision, appealUsed |-> Id \in appealUsed,
   judged |-> phase[Id] = "SENTENCED"]

\* The same after submit_appeal.
AppealedDetail ==
  [status |-> "rejudgment", revision |-> Revision, appealUsed |-> TRUE, judged |-> FALSE]

Appealable == phase[Id] = "SENTENCED" /\ Id \notin appealUsed

Waiting(s) == call[s] # "none" /\ answer[s] = NoAnswer
Answered(s) == call[s] # "none" /\ answer[s] # NoAnswer

\* The answer a is on its way to the page.
Reply(s, a) ==
  /\ answer' = [answer EXCEPT ![s] = a]
  /\ ahead' = [ahead EXCEPT ![s] = {t \in Slots : Answered(t)}]
  /\ UNCHANGED <<call, caller>>

Serve(s) ==
  /\ Waiting(s)
  /\ \/ /\ ~loggedIn
        /\ Reply(s, Unauthorized)
        /\ UNCHANGED courtVars
     \/ /\ loggedIn
        /\ call[s] \in {"detail", "progress"}
        /\ Reply(s, CurrentDetail)
        /\ UNCHANGED courtVars
     \/ /\ loggedIn
        /\ call[s] = "appeal" /\ Appealable
        /\ Reply(s, AppealedDetail)
        /\ Court!Appeal(Id)
     \/ /\ loggedIn
        /\ call[s] = "appeal" /\ ~Appealable
        /\ Reply(s, Refused)
        /\ UNCHANGED courtVars
  /\ UNCHANGED <<loggedIn, viewVars, timerVars, historyVars>>

\* The network loses a request or its answer; request() throws NETWORK_ERROR.
\* An appeal may have been accepted.
Lose(s) ==
  /\ call[s] # "none"
  /\ answer[s] \in Details \union {NoAnswer}
  /\ answer' = [answer EXCEPT ![s] = Lost]
  /\ blind' = (blind \/ (call[s] = "appeal" /\ answer[s] # NoAnswer))
  /\ UNCHANGED <<courtVars, loggedIn, viewVars, timerVars, call, caller, ahead, overtaken>>

Try ==
  /\ Court!Progress(Id)
  /\ UNCHANGED <<loggedIn, viewVars, timerVars, requestVars, historyVars>>

\* Another page or script of the user.
SubmitElsewhere ==
  /\ Court!Submit(Id)
  /\ UNCHANGED <<loggedIn, viewVars, timerVars, requestVars, historyVars>>

AppealElsewhere ==
  /\ Court!Appeal(Id)
  /\ blind' = (page = "open")
  /\ UNCHANGED <<loggedIn, viewVars, timerVars, requestVars, overtaken>>

\* The access token runs out; the client has no call that renews it.
Expire ==
  /\ loggedIn
  /\ loggedIn' = FALSE
  /\ UNCHANGED <<courtVars, viewVars, timerVars, requestVars, historyVars>>
-----------------------------------------------------------------------------
(* The page.                                                               *)

Send(s, what, by) ==
  /\ call[s] = "none"
  /\ call' = [call EXCEPT ![s] = what]
  /\ caller' = [caller EXCEPT ![s] = by]
  /\ UNCHANGED <<answer, ahead>>

Open(s) ==
  /\ page = "absent"
  /\ phase[Id] # "ABSENT"
  /\ page' = "open"
  /\ Send(s, "detail", "mount")
  /\ UNCHANGED <<courtVars, loggedIn, shown, banner, modal, timerVars, historyVars>>

\* The cleanup of the effect: it clears the timer that ref names, if any.
LeavePage ==
  /\ page' = "left"
  /\ timers' = timers \ {ref}
  /\ UNCHANGED ref

Leave ==
  /\ page = "open"
  /\ LeavePage
  /\ UNCHANGED <<courtVars, loggedIn, shown, banner, modal, requestVars, historyVars>>

Tick(k, s) ==
  /\ k \in timers
  /\ Send(s, "progress", k)
  /\ UNCHANGED <<courtVars, loggedIn, viewVars, timerVars, historyVars>>

\* The request is over; an older answer still under way has been overtaken.
Over(s) ==
  /\ call' = [call EXCEPT ![s] = "none"]
  /\ answer' = [answer EXCEPT ![s] = NoAnswer]
  /\ UNCHANGED caller
Note(s) ==
  /\ ahead' = [t \in Slots |-> IF t = s THEN {} ELSE ahead[t] \ {s}]
  /\ overtaken' = (overtaken \/ ahead[s] # {})
  /\ UNCHANGED blind

\* setDetail and setError do nothing once the page is left.
ShowDetail(d) == shown' = IF page = "open" THEN d ELSE shown
ShowStatus(d) ==
  shown' = IF page = "open" /\ shown # NoDetail THEN [shown EXCEPT !.status = d.status] ELSE shown
ShowError == banner' = (banner \/ page = "open")

\* Mutant: the old timer stays in ref, out of the reach of the cleanup.
RunBesides(k) == timers' = timers \union {k} /\ ref' = IF ref = "none" THEN k ELSE ref

Run(k) == timers' = timers \union {k} /\ ref' = k

\* start(): the first load starts the timer of a trial that has not ended.
Mounted(s) ==
  /\ call[s] = "detail" /\ caller[s] = "mount"
  /\ answer[s] \in Details
  /\ ShowDetail(answer[s])
  /\ IF page = "open" /\ answer[s].status \notin TERMINAL THEN Run("start")
                                                          ELSE UNCHANGED timerVars
  /\ Over(s)
  /\ UNCHANGED <<page, banner, modal>>

\* Mutant: the last status is taken from the progress, without a load.
ShowEnd(s) ==
  /\ call[s] = "progress"
  /\ answer[s] \in Details
  /\ answer[s].status \in TERMINAL
  /\ timers' = timers \ {ref}
  /\ ShowStatus(answer[s])
  /\ Over(s)
  /\ UNCHANGED <<page, banner, modal, ref>>

\* A poll finds the end: whatever timer ref names by now is cleared, and the
\* callback goes on with loadDetail.
EndPolled(s) ==
  /\ call[s] = "progress"
  /\ answer[s] \in Details
  /\ answer[s].status \in TERMINAL
  /\ timers' = timers \ {ref}
  /\ call' = [call EXCEPT ![s] = "detail"]
  /\ answer' = [answer EXCEPT ![s] = NoAnswer]
  /\ UNCHANGED <<caller, viewVars, ref>>

StagePolled(s) ==
  /\ call[s] = "progress"
  /\ answer[s] \in Details
  /\ answer[s].status \notin TERMINAL
  /\ ShowStatus(answer[s])
  /\ Over(s)
  /\ UNCHANGED <<page, banner, modal, timerVars>>

Reloaded(s) ==
  /\ call[s] = "detail" /\ caller[s] # "mount"
  /\ answer[s] \in Details
  /\ ShowDetail(answer[s])
  /\ Over(s)
  /\ UNCHANGED <<page, banner, modal, timerVars>>

\* loadDetail puts the error banner up for good; the polls swallow theirs.
LoadFailed(s) ==
  /\ answer[s] = Lost
  /\ call[s] \in {"detail", "progress"}
  /\ IF call[s] = "detail" THEN ShowError ELSE UNCHANGED banner
  /\ Over(s)
  /\ UNCHANGED <<page, shown, modal, timerVars>>

\* 401: to the login page, which unmounts this one if it is still there.  A poll
\* of the first timer clears the timer itself; those of the second one have no
\* handler.
SentToLogin(s) ==
  /\ answer[s] = Unauthorized
  /\ call[s] \in {"detail", "progress"}
  /\ IF \/ call[s] = "detail" /\ page = "open"
        \/ call[s] = "progress" /\ caller[s] = "start"
       THEN LeavePage
       ELSE UNCHANGED <<page, timerVars>>
  /\ Over(s)
  /\ UNCHANGED <<shown, banner, modal>>

\* handleAppealSubmit after its await: it starts the second timer, and does
\* not ask whether the page is still there.
AppealAccepted(s) ==
  /\ call[s] = "appeal"
  /\ answer[s] \in Details
  /\ modal' = FALSE
  /\ shown' = IF page = "open" /\ shown # NoDetail
                THEN [shown EXCEPT !.status = answer[s].status, !.appealUsed = TRUE]
                ELSE shown
  /\ Run("again")
  /\ Over(s)
  /\ UNCHANGED <<page, banner>>

\* The modal shows the error and stays open.
AppealFailed(s) ==
  /\ call[s] = "appeal"
  /\ answer[s] \in Failures
  /\ Over(s)
  /\ UNCHANGED <<viewVars, timerVars>>

Deliver(s) ==
  /\ Answered(s)
  /\ \/ Mounted(s) \/ EndPolled(s) \/ StagePolled(s) \/ Reloaded(s)
     \/ LoadFailed(s) \/ SentToLogin(s) \/ AppealAccepted(s) \/ AppealFailed(s)
  /\ Note(s)
  /\ UNCHANGED <<courtVars, loggedIn>>

AppealOpen == \E s \in Slots : call[s] = "appeal"

\* JudgmentView offers an appeal; the modal can be cancelled until it is sent.
ToggleModal ==
  /\ page = "open" /\ ~banner /\ ~AppealOpen
  /\ \/ modal
     \/ /\ shown # NoDetail
        /\ shown.status = "SENTENCED" /\ shown.judged /\ ~shown.appealUsed
  /\ modal' = ~modal
  /\ UNCHANGED <<courtVars, loggedIn, page, shown, banner, timerVars, requestVars, historyVars>>

SendAppeal(s) ==
  /\ page = "open" /\ ~banner /\ modal /\ ~AppealOpen
  /\ Send(s, "appeal", "mount")
  /\ UNCHANGED <<courtVars, loggedIn, viewVars, timerVars, historyVars>>

Next ==
  \/ Try \/ SubmitElsewhere \/ AppealElsewhere \/ Expire
  \/ Leave \/ ToggleModal
  \/ \E s \in Slots : \/ Open(s) \/ SendAppeal(s)
                      \/ Serve(s) \/ Lose(s) \/ Deliver(s)
                      \/ \E k \in Timers : Tick(k, s)

Spec == Init /\ [][Next]_vars

\* A timer fires every two seconds, a request is served or lost and its
\* answer arrives, and the court goes on (CasePipeline).  Nobody has to open,
\* leave or appeal, and nothing has to be lost.
Fairness ==
  /\ WF_vars(Try)
  /\ \A k \in Timers : WF_vars(\E s \in Slots : Tick(k, s))
  /\ \A s \in Slots : WF_vars(Serve(s)) /\ WF_vars(Deliver(s))

FairSpec == Spec /\ Fairness
-----------------------------------------------------------------------------
(* Properties.                                                             *)

Idle == \A s \in Slots : call[s] = "none"

\* The page shows the end of the trial as it is in the database.
ShowsTheEnd ==
  /\ shown # NoDetail
  /\ shown.status \in TERMINAL
  /\ shown.status = phase[Id]
  /\ shown.revision = Revision
  /\ shown.judged <=> phase[Id] = "SENTENCED"
  /\ shown.appealUsed <=> Id \in appealUsed

\* JudgmentView renders nothing without a judgment: whatever order answers
\* come in, a sentenced case is shown with the judgment of its revision.
SentenceHasJudgment ==
  shown # NoDetail /\ shown.status = "SENTENCED" =>
    shown.judged /\ judgments[Id][shown.revision] # NoRuling

\* The two timers never run at once, and the one that runs is the one that
\* intervalRef names, so the callbacks and the cleanup can stop it; after the
\* cleanup only a timer of a late answer to an appeal may run.
TimersAreKept ==
  /\ timers \subseteq {ref}
  /\ page = "left" => "start" \notin timers

\* A page that has stopped asking shows the end as it is, unless it shows an
\* error, an answer was overtaken or the case was appealed behind its back.
QuietPageIsRight ==
  page = "open" /\ ~banner /\ Idle /\ timers = {} => ShowsTheEnd \/ overtaken \/ blind

\* api.md 28: the progress is polled until the status is terminal, so a page
\* that was told of every appeal and stopped asking shows a terminal status.
PollsUntilTheEnd ==
  page = "open" /\ ~banner /\ ~blind /\ Idle /\ timers = {} =>
    shown # NoDetail /\ shown.status \in TERMINAL

\* A page that stays open and logged in, over a network that loses nothing
\* any more, with no load lost, no answer overtaken and no appeal behind its
\* back, comes to show the end of the trial for good, and stops polling.
Calm ==
  /\ page = "open" /\ loggedIn /\ ~banner /\ ~overtaken /\ ~blind
  /\ \A s \in Slots : answer[s] # Lost
EndIsShown == (<>[]Calm) => <>[](ShowsTheEnd /\ timers = {})
=============================================================================
