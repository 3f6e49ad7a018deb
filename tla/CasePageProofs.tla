--------------------------- MODULE CasePageProofs ---------------------------
(***************************************************************************)
(* Theorems of CasePage, for any number of requests under way at once.     *)
(***************************************************************************)
EXTENDS CasePage, TLAPS

\* What a step of the court does to the case.
CourtSteps == INSTANCE CaseLifecycleProofs WITH Cases <- {Id}

-----------------------------------------------------------------------------
(* The inductive invariant.                                                *)

\* Nothing happens before the page is opened, nor besides its first load; and
\* while the first timer runs no appeal is possible: a trial is shown, and
\* the page sends polls alone.
TimersFit ==
  /\ timers \subseteq {ref}
  /\ page = "absent" =>
       timers = {} /\ shown = NoDetail /\ ~modal /\ \A s \in Slots : call[s] = "none"
  /\ \A s \in Slots :
       call[s] = "detail" /\ caller[s] = "mount" =>
         timers = {} /\ shown = NoDetail /\ ~modal /\ \A t \in Slots \ {s} : call[t] = "none"
  /\ \A s \in Slots : call[s] = "progress" => caller[s] \in Timers
  /\ "start" \in timers =>
       /\ page = "open" /\ ~modal
       /\ shown \in Details /\ shown.status \notin TERMINAL
       /\ \A s \in Slots : call[s] \in {"none", "progress"}

\* A detail that says SENTENCED has a judgment, in the database too.
HasJudgment(d) == d.status = "SENTENCED" => d.judged /\ judgments[Id][d.revision] # NoRuling

\* So it is with what is shown and with what is on its way.
AnswersFit ==
  /\ shown \in Details => HasJudgment(shown)
  /\ \A s \in Slots : call[s] = "none" => answer[s] = NoAnswer
  /\ \A s \in Slots :
       answer[s] \in Details =>
         /\ HasJudgment(answer[s])
         /\ call[s] = "appeal" => answer[s].status = "rejudgment"

Inv == TypeOK /\ CourtSteps!FilesFit /\ TimersFit /\ AnswersFit

LEMMA InvGives == Inv => SentenceHasJudgment /\ TimersAreKept
BY DEF Inv, TypeOK, TimersFit, AnswersFit, HasJudgment, SentenceHasJudgment,
   TimersAreKept

LEMMA InitInv == Init => Inv
<1> SUFFICES ASSUME Init PROVE Inv
  OBVIOUS
<1>1. CourtSteps!Init
  BY DEF Init, Court!Init, CourtSteps!Init, Court!Revisions, CourtSteps!Revisions
<1>2. TypeOK
  BY DEF Init, TypeOK, Court!Init, Phases, Court!Revisions, Timers, Callers, Calls
<1> QED
  BY <1>1, <1>2, CourtSteps!InitFits, AnswersAssumption
  DEF Init, Inv, TimersFit, AnswersFit, Answers
-----------------------------------------------------------------------------
(* Steps of the court.                                                     *)

\* What the court may do to the case while nobody looks.
CourtStep == Court!Submit(Id) \/ Court!Appeal(Id) \/ Court!Progress(Id)

LEMMA CourtTypes ==
  TypeOK <=>
    /\ CourtSteps!Types
    /\ loggedIn \in BOOLEAN
    /\ page \in {"absent", "open", "left"}
    /\ shown \in Details \union {NoDetail}
    /\ banner \in BOOLEAN
    /\ modal \in BOOLEAN
    /\ timers \subseteq Timers
    /\ ref \in Timers \union {"none"}
    /\ call \in [Slots -> Calls]
    /\ caller \in [Slots -> Callers]
    /\ answer \in [Slots -> Answers \union {NoAnswer}]
    /\ ahead \in [Slots -> SUBSET Slots]
    /\ overtaken \in BOOLEAN
    /\ blind \in BOOLEAN
BY DEF TypeOK, CourtSteps!Types, Phases, CourtSteps!Phases, Court!Revisions, CourtSteps!Revisions

\* The court keeps the files in order and takes no judgment back.
LEMMA CourtKeeps ==
  ASSUME Inv, CourtStep
  PROVE  /\ CourtSteps!Types' /\ CourtSteps!FilesFit'
         /\ \A d \in Details : HasJudgment(d) => HasJudgment(d)'
<1>1. CourtSteps!Types /\ CourtSteps!FilesFit
  BY CourtTypes DEF Inv
<1>2. CourtSteps!Court(Id)
  BY DEF CourtStep, CourtSteps!Court, Court!Submit, CourtSteps!Submit,
     Court!Progress, CourtSteps!Progress, Court!Appeal, CourtSteps!Appeal,
     Court!Prosecute, CourtSteps!Prosecute, Court!Defend, CourtSteps!Defend, Court!Fail, CourtSteps!Fail,
     Court!Uphold, CourtSteps!Uphold, Court!Sentence, CourtSteps!Sentence, Court!Rejudge, CourtSteps!Rejudge,
     Court!Move, CourtSteps!Move
<1>3. CourtSteps!Types' /\ CourtSteps!FilesFit'
  BY <1>1, <1>2, CourtSteps!StepTyped, CourtSteps!StepFits, RulingAssumption
<1>4. \A v \in Court!Revisions : judgments[Id][v] # NoRuling => judgments'[Id][v] # NoRuling
  <2>1. \/ judgments' = judgments
        \/ \E r \in Rulings, v \in Court!Revisions :
             judgments' = [judgments EXCEPT ![Id] = [@ EXCEPT ![v] = r]]
    BY DEF CourtStep, Court!Submit, Court!Progress, Court!Appeal, Court!Prosecute, Court!Defend,
       Court!Fail, Court!Uphold, Court!Sentence, Court!Rejudge, Court!Revisions
  <2> QED
    BY <2>1, <1>1, RulingAssumption DEF CourtSteps!Types, Court!Revisions, CourtSteps!Revisions
<1> QED
  BY <1>3, <1>4 DEF HasJudgment, Details

\* Nothing of the page is touched by such a step.
LEMMA ElsewhereKeeps ==
  ASSUME Inv, Try \/ SubmitElsewhere \/ AppealElsewhere
  PROVE  Inv'
<1>1. CourtStep /\ UNCHANGED <<loggedIn, viewVars, timerVars, requestVars, overtaken>>
      /\ blind' \in BOOLEAN
  BY DEF Try, SubmitElsewhere, AppealElsewhere, CourtStep, historyVars, Inv, TypeOK
<1>2. TypeOK'
  BY <1>1, CourtKeeps
  DEF Inv, TypeOK, CourtSteps!Types, Phases, CourtSteps!Phases, Court!Revisions,
      CourtSteps!Revisions, viewVars, timerVars, requestVars
<1>3. TimersFit'
  BY <1>1 DEF Inv, TimersFit, viewVars, timerVars, requestVars
<1>4. AnswersFit'
  BY <1>1, CourtKeeps DEF Inv, AnswersFit, viewVars, requestVars
<1> QED
  BY <1>1, <1>2, <1>3, <1>4, CourtKeeps DEF Inv
-----------------------------------------------------------------------------
(* Steps of the page that leave the court alone.                           *)

LEMMA CourtAtRest ==
  ASSUME Inv, UNCHANGED courtVars
  PROVE  /\ CourtSteps!FilesFit'
         /\ \A d : HasJudgment(d)' <=> HasJudgment(d)
         /\ UNCHANGED <<phase, judgments, overturned, appealUsed, rejudgmentFailed>>
BY DEF Inv, courtVars, CourtSteps!FilesFit, CourtSteps!FileFits, HasJudgment

LEMMA ViewKeeps ==
  ASSUME Inv, Expire \/ Leave \/ ToggleModal
  PROVE  Inv'
<1>1. UNCHANGED <<courtVars, requestVars, historyVars, shown, banner, ref>>
  BY DEF Expire, Leave, ToggleModal, LeavePage, viewVars, timerVars
<1>2. /\ loggedIn' \in BOOLEAN /\ page' \in {"absent", "open", "left"}
      /\ modal' \in BOOLEAN /\ timers' \subseteq timers
      /\ page' = "absent" <=> page = "absent"
      /\ "start" \in timers' => page' = page
      /\ modal' => modal \/ (page = "open" /\ shown # NoDetail /\ shown.status = "SENTENCED")
  <2> USE DEF Inv, TypeOK, TimersFit, viewVars, timerVars
  <2>1. CASE Expire
    BY <2>1 DEF Expire
  <2>2. CASE Leave
    BY <2>2 DEF Leave, LeavePage
  <2>3. CASE ToggleModal
    BY <2>3 DEF ToggleModal
  <2> QED
    BY <2>1, <2>2, <2>3
<1>3. TypeOK'
  BY <1>1, <1>2 DEF Inv, TypeOK, courtVars, requestVars, historyVars
<1>4. TimersFit'
  BY <1>1, <1>2 DEF Inv, TimersFit, requestVars, TERMINAL
<1>5. AnswersFit'
  BY <1>1, CourtAtRest DEF Inv, AnswersFit, requestVars
<1> QED
  BY <1>1, <1>3, <1>4, <1>5, CourtAtRest DEF Inv

LEMMA SendKeeps ==
  ASSUME Inv, NEW s \in Slots,
         Open(s) \/ SendAppeal(s) \/ \E k \in Timers : Tick(k, s)
  PROVE  Inv'
<1> USE DEF Inv
<1>1. /\ UNCHANGED <<courtVars, loggedIn, historyVars, shown, banner, modal, timerVars, answer, ahead>>
      /\ call[s] = "none"
  BY DEF Open, SendAppeal, Tick, Send, viewVars
<1>2. PICK what \in {"detail", "appeal", "progress"}, by \in Callers :
        /\ call' = [call EXCEPT ![s] = what] /\ caller' = [caller EXCEPT ![s] = by]
        /\ what = "detail" => page = "absent" /\ page' = "open"
        /\ what # "detail" => page' = page
        /\ what = "appeal" => page = "open" /\ modal
        /\ what = "progress" => by \in timers /\ by \in Timers
  BY DEF Open, SendAppeal, Tick, Send, viewVars, Callers, TypeOK
<1>3. TypeOK'
  BY <1>1, <1>2 DEF TypeOK, Calls, courtVars, timerVars, historyVars
<1>4. TimersFit'
  <2>1. CASE what = "detail"
    BY <1>1, <1>2, <2>1 DEF TimersFit, TypeOK, timerVars
  <2>2. CASE what = "appeal"
    BY <1>1, <1>2, <2>2 DEF TimersFit, TypeOK, timerVars
  <2>3. CASE what = "progress"
    BY <1>1, <1>2, <2>3 DEF TimersFit, TypeOK, timerVars, Timers
  <2> QED
    BY <1>2, <2>1, <2>2, <2>3
<1>5. AnswersFit'
  <2>1. answer[s] = NoAnswer
    BY <1>1 DEF AnswersFit
  <2> QED
    BY <1>1, <1>2, <2>1, AnswersAssumption, CourtAtRest DEF AnswersFit, TypeOK, Answers
<1> QED
  BY <1>1, <1>3, <1>4, <1>5, CourtAtRest
-----------------------------------------------------------------------------
(* The server and the network.                                             *)

\* What is answered tells the truth of its moment.
LEMMA AnswersAreGood ==
  ASSUME Inv
  PROVE  /\ CurrentDetail \in Details /\ HasJudgment(CurrentDetail)
         /\ AppealedDetail \in Details /\ HasJudgment(AppealedDetail)
         /\ AppealedDetail.status = "rejudgment"
<1>1. phase[Id] \in Phases /\ Revision \in Court!Revisions
  BY DEF Inv, TypeOK, Revision, Court!Revisions
<1>2. phase[Id] = "SENTENCED" => judgments[Id][Revision] # NoRuling
  BY DEF Inv, CourtSteps!FilesFit, CourtSteps!FileFits, Revision
<1>3. (phase[Id] = "SENTENCED") \in BOOLEAN /\ (Id \in appealUsed) \in BOOLEAN
  OBVIOUS
<1>4. CurrentDetail \in Details
  BY <1>1, <1>3 DEF CurrentDetail, Details
<1>5. AppealedDetail \in Details /\ AppealedDetail.status = "rejudgment"
  BY <1>1 DEF AppealedDetail, Details, Phases
<1>6. HasJudgment(CurrentDetail)
  BY <1>2 DEF CurrentDetail, HasJudgment
<1> QED
  BY <1>4, <1>5, <1>6 DEF HasJudgment

LEMMA ServeKeeps ==
  ASSUME Inv, NEW s \in Slots, Serve(s)
  PROVE  Inv'
<1> USE DEF Inv
<1>1. PICK a \in Answers :
        /\ Reply(s, a) /\ Waiting(s)
        /\ UNCHANGED <<loggedIn, viewVars, timerVars, historyVars>>
        /\ a \in Details => HasJudgment(a) /\ (call[s] = "appeal" => a.status = "rejudgment")
  BY AnswersAreGood, AnswersAssumption DEF Serve, Answers, Failures
<1>2. UNCHANGED courtVars \/ CourtStep
  BY DEF Serve, CourtStep
<1>3. /\ CourtSteps!Types' /\ CourtSteps!FilesFit'
      /\ \A d \in Details : HasJudgment(d) => HasJudgment(d)'
  <2>1. CASE UNCHANGED courtVars
    <3>1. CourtSteps!Types
      BY CourtTypes
    <3> QED
      BY <2>1, <3>1, CourtAtRest DEF CourtSteps!Types
  <2> QED
    BY <1>2, <2>1, CourtKeeps
<1>4. TypeOK'
  BY <1>1, <1>3
  DEF TypeOK, CourtSteps!Types, Phases, CourtSteps!Phases, Court!Revisions,
      CourtSteps!Revisions, viewVars, timerVars, historyVars, Reply
<1>5. TimersFit'
  BY <1>1 DEF TimersFit, viewVars, timerVars, Reply
<1>6. AnswersFit'
  BY <1>1, <1>3 DEF AnswersFit, viewVars, Reply, Waiting, TypeOK
<1> QED
  BY <1>3, <1>4, <1>5, <1>6

LEMMA LoseKeeps ==
  ASSUME Inv, NEW s \in Slots, Lose(s)
  PROVE  Inv'
<1> USE DEF Inv, Lose
<1>1. TypeOK'
  BY DEF TypeOK, courtVars, viewVars, timerVars, Answers, Failures
<1>2. TimersFit'
  BY DEF TimersFit, viewVars, timerVars
<1>3. AnswersFit'
  BY CourtAtRest, AnswersAssumption DEF AnswersFit, viewVars, TypeOK, Failures
<1> QED
  BY <1>1, <1>2, <1>3, CourtAtRest
-----------------------------------------------------------------------------
(* Callbacks of the page.                                                  *)

\* What every callback does to its request and its view.
LEMMA Callback ==
  ASSUME Inv, NEW s \in Slots, Deliver(s)
  PROVE  /\ UNCHANGED <<courtVars, loggedIn>> /\ Note(s)
         /\ call[s] \in {"detail", "progress", "appeal"} /\ answer[s] \in Answers
         /\ page # "absent" /\ page' \in {"open", "left"}
         /\ answer' = [answer EXCEPT ![s] = NoAnswer] /\ UNCHANGED caller
         /\ \/ call' = [call EXCEPT ![s] = "none"]
            \/ EndPolled(s) /\ call' = [call EXCEPT ![s] = "detail"]
         /\ banner' \in BOOLEAN /\ modal' \in BOOLEAN
         /\ modal' => modal
         /\ timers' \subseteq Timers /\ ref' \in Timers \union {"none"}
<1> USE DEF Inv, TypeOK, Deliver
<1>1. /\ UNCHANGED <<courtVars, loggedIn>> /\ Note(s)
      /\ call[s] \in {"detail", "progress", "appeal"} /\ answer[s] \in Answers
      /\ page \in {"open", "left"}
  BY DEF Answered, Calls, TimersFit
<1>2. CASE Mounted(s)
  BY <1>1, <1>2 DEF Mounted, Over, Run, Timers, timerVars
<1>3. CASE EndPolled(s)
  <2>1. UNCHANGED <<page, shown, banner, modal, ref, caller>> /\ timers' \subseteq timers
    BY <1>3 DEF EndPolled, viewVars
  <2>2. /\ call' = [call EXCEPT ![s] = "detail"] /\ answer' = [answer EXCEPT ![s] = NoAnswer]
    BY <1>3 DEF EndPolled
  <2> QED
    BY <1>1, <1>3, <2>1, <2>2
<1>4. CASE StagePolled(s) \/ Reloaded(s)
  BY <1>1, <1>4 DEF StagePolled, Reloaded, Over, timerVars
<1>5. CASE LoadFailed(s) \/ AppealFailed(s)
  <2>1. banner' \in BOOLEAN
    BY <1>5 DEF LoadFailed, AppealFailed, ShowError, viewVars
  <2>2. /\ UNCHANGED <<page, modal, timers, ref, caller>>
        /\ answer' = [answer EXCEPT ![s] = NoAnswer] /\ call' = [call EXCEPT ![s] = "none"]
    BY <1>5 DEF LoadFailed, AppealFailed, Over, timerVars, viewVars
  <2> QED
    BY <1>1, <2>1, <2>2
<1>6. CASE SentToLogin(s)
  BY <1>1, <1>6 DEF SentToLogin, LeavePage, Over, timerVars
<1>7. CASE AppealAccepted(s)
  BY <1>1, <1>7 DEF AppealAccepted, Over, Run, Timers
<1> QED
  BY <1>1, <1>2, <1>3, <1>4, <1>5, <1>6, <1>7

\* What is shown comes from an answer, or keeps its judgment.
LEMMA ShownIsGood ==
  ASSUME Inv, NEW s \in Slots, Deliver(s)
  PROVE  /\ shown' \in Details \union {NoDetail}
         /\ shown' \in Details => HasJudgment(shown')
<1> USE DEF Inv
<1>1. /\ answer[s] \in Details => HasJudgment(answer[s])
      /\ answer[s] \in Details /\ call[s] = "appeal" => answer[s].status = "rejudgment"
      /\ shown \in Details => HasJudgment(shown)
      /\ shown \in Details \union {NoDetail}
  BY DEF AnswersFit, TypeOK
<1>2. \/ shown' = shown
      \/ answer[s] \in Details /\ shown' = answer[s]
      \/ /\ answer[s] \in Details /\ answer[s].status # "SENTENCED" /\ shown \in Details
         /\ \/ shown' = [shown EXCEPT !.status = answer[s].status]
            \/ shown' = [shown EXCEPT !.status = answer[s].status, !.appealUsed = TRUE]
  BY <1>1 DEF Deliver, Mounted, EndPolled, StagePolled, Reloaded, LoadFailed, SentToLogin,
     AppealAccepted, AppealFailed, ShowDetail, ShowStatus, viewVars, TERMINAL
<1> QED
  BY <1>1, <1>2 DEF HasJudgment, Details

\* The timers fit after a callback: the first timer starts beside nothing
\* else, and an accepted appeal finds it stopped.
LEMMA TimersAfter ==
  ASSUME Inv, NEW s \in Slots, Deliver(s)
  PROVE  TimersFit'
<1> USE DEF Inv
<1>1. /\ call \in [Slots -> Calls] /\ answer[s] \in Answers
      /\ call[s] \in {"detail", "progress", "appeal"} /\ UNCHANGED caller
      /\ page # "absent" /\ page' # "absent"
      /\ modal' => modal
      /\ \A t \in Slots \ {s} : call'[t] = call[t]
      /\ call'[s] = "none" \/ (EndPolled(s) /\ call'[s] = "detail")
  BY Callback DEF TypeOK
<1>2. ASSUME NEW t \in Slots, call'[t] = "detail", caller'[t] = "mount" PROVE FALSE
  <2>1. CASE t = s
    BY <1>1, <1>2, <2>1 DEF EndPolled, TimersFit, Timers
  <2>2. CASE t # s
    BY <1>1, <1>2, <2>2 DEF TimersFit
  <2> QED
    BY <2>1, <2>2
<1>3. \A t \in Slots : call'[t] = "progress" => caller'[t] \in Timers
  BY <1>1 DEF TimersFit
<1>4. SUFFICES
      /\ timers' \subseteq {ref'}
      /\ "start" \in timers' =>
           /\ page' = "open" /\ ~modal'
           /\ shown' \in Details /\ shown'.status \notin TERMINAL
           /\ \A t \in Slots : call'[t] \in {"none", "progress"}
  BY <1>1, <1>2, <1>3 DEF TimersFit
<1>5. CASE UNCHANGED <<timers, ref, page, shown>> /\ call'[s] = "none"
  BY <1>1, <1>5 DEF TimersFit
<1>6. CASE Mounted(s)
  <2>1. /\ timers = {} /\ ~modal /\ \A t \in Slots \ {s} : call[t] = "none"
    BY <1>6 DEF Mounted, TimersFit
  <2>2. CASE page = "open" /\ answer[s].status \notin TERMINAL
    BY <1>1, <1>6, <2>1, <2>2 DEF Mounted, Run, ShowDetail, Over, TypeOK
  <2>3. CASE ~(page = "open" /\ answer[s].status \notin TERMINAL)
    BY <1>6, <2>1, <2>3 DEF Mounted, timerVars
  <2> QED
    BY <2>2, <2>3
<1>7. CASE EndPolled(s)
  <2>1. timers' = {}
    BY <1>7 DEF EndPolled, TimersFit
  <2> QED
    BY <2>1
<1>8. CASE StagePolled(s)
  <2>1. "start" \in timers => shown' \in Details /\ shown'.status \notin TERMINAL
    BY <1>8, AnswersAssumption, ShownIsGood DEF StagePolled, ShowStatus, TimersFit, Details
  <2>2. UNCHANGED <<timers, ref, page, modal>> /\ call'[s] = "none"
    BY <1>8 DEF StagePolled, timerVars, Over, TypeOK
  <2> QED
    BY <1>1, <2>1, <2>2 DEF TimersFit
<1>9. CASE Reloaded(s)
  <2>1. call[s] = "detail" /\ UNCHANGED <<timers, ref>>
    BY <1>9 DEF Reloaded, timerVars
  <2> QED
    BY <2>1 DEF TimersFit
<1>10. CASE LoadFailed(s) \/ AppealFailed(s)
  BY <1>5, <1>10 DEF LoadFailed, AppealFailed, Over, timerVars, viewVars, TypeOK
<1>11. CASE SentToLogin(s)
  <2>1. call'[s] = "none" /\ shown' = shown
    BY <1>11 DEF SentToLogin, Over, TypeOK
  <2>2. CASE page' = page /\ UNCHANGED timerVars
    BY <1>5, <2>1, <2>2 DEF timerVars
  <2>3. CASE LeavePage
    BY <2>3 DEF LeavePage, TimersFit
  <2> QED
    BY <1>11, <2>2, <2>3 DEF SentToLogin
<1>12. CASE AppealAccepted(s)
  <2>1. "start" \notin timers /\ timers \subseteq Timers
    BY <1>12 DEF AppealAccepted, TimersFit, TypeOK
  <2>2. timers' = timers \union {"again"} /\ ref' = "again"
    BY <1>12 DEF AppealAccepted, Run
  <2> QED
    BY <2>1, <2>2 DEF Timers
<1> QED
  BY <1>6, <1>7, <1>8, <1>9, <1>10, <1>11, <1>12 DEF Deliver

LEMMA DeliverKeeps ==
  ASSUME Inv, NEW s \in Slots, Deliver(s)
  PROVE  Inv'
<1> USE DEF Inv
<1>1. TypeOK'
  <2>1. /\ call' \in [Slots -> Calls] /\ answer' \in [Slots -> Answers \union {NoAnswer}]
    BY Callback DEF TypeOK, Calls
  <2>2. /\ ahead' = [t \in Slots |-> IF t = s THEN {} ELSE ahead[t] \ {s}]
        /\ overtaken' = (overtaken \/ ahead[s] # {}) /\ blind' = blind
    BY Callback DEF Note
  <2>3. ahead' \in [Slots -> SUBSET Slots]
    BY <2>2 DEF TypeOK
  <2>4. overtaken' \in BOOLEAN
    BY <2>2
  <2> QED
    BY <2>1, <2>2, <2>3, <2>4, Callback, ShownIsGood DEF TypeOK, courtVars
<1>2. AnswersFit'
  BY Callback, ShownIsGood, CourtAtRest, AnswersAssumption DEF AnswersFit, TypeOK, Answers
<1> QED
  BY <1>1, <1>2, TimersAfter, Callback, CourtAtRest
-----------------------------------------------------------------------------
LEMMA NextKeeps == Inv /\ [Next]_vars => Inv'
<1> SUFFICES ASSUME Inv, [Next]_vars PROVE Inv'
  OBVIOUS
<1>1. CASE UNCHANGED vars
  <2>1. UNCHANGED courtVars
    BY <1>1 DEF vars, courtVars
  <2>2. TypeOK' /\ TimersFit'
    BY <1>1 DEF Inv, vars, TypeOK, TimersFit
  <2>3. AnswersFit'
    BY <1>1, <2>1, CourtAtRest DEF Inv, vars, AnswersFit
  <2> QED
    BY <2>1, <2>2, <2>3, CourtAtRest DEF Inv
<1> QED
  BY <1>1, ElsewhereKeeps, ViewKeeps, SendKeeps, ServeKeeps, LoseKeeps, DeliverKeeps DEF Next

LEMMA InvHolds == Spec => []Inv
BY InitInv, NextKeeps, PTL DEF Spec

\* The variables of the page keep their types.
THEOREM PageTyped == Spec => []TypeOK
BY InvHolds, PTL DEF Inv

\* However answers overtake each other, a sentenced case is shown with the
\* judgment of the revision that is shown.
THEOREM SentenceIsShownWithJudgment == Spec => []SentenceHasJudgment
BY InvHolds, InvGives, PTL

\* At most one of the two timers runs, intervalRef names it, and the polling
\* of a trial never outlives the page.
THEOREM TimersStayKept == Spec => []TimersAreKept
BY InvHolds, InvGives, PTL
-----------------------------------------------------------------------------
(* A page that stops asking.                                               *)

\* A detail or progress of an ended trial, and one from before the appeal.
Ended(d) == d \in Details /\ d.status \in TERMINAL
BeforeAppeal(d) == ~ d.appealUsed /\ Id \in appealUsed

\* Nothing happened that QuietPageIsRight excuses.
Undisturbed == page = "open" /\ ~ banner /\ ~ overtaken /\ ~ blind

\* An accepted appeal is on its way to the page, whose second timer it starts.
Accepted(t) == call[t] = "appeal" /\ answer[t] \in Details

\* Nothing will start a timer any more, unless the user appeals.
Stopped ==
  /\ Undisturbed /\ timers = {}
  /\ \A s \in Slots : ~ Accepted(s) /\ ~ (call[s] = "detail" /\ caller[s] = "mount")

\* An ending on its way is the present one, or comes ahead of the answer to
\* the appeal that undid it.
EndingsFit ==
  \A s \in Slots : Ended(answer[s]) =>
    /\ answer[s] = CurrentDetail \/ BeforeAppeal(answer[s])
    /\ Undisturbed /\ BeforeAppeal(answer[s]) => \E t \in Slots : Accepted(t) /\ s \in ahead[t]

\* Of two answers on their way one was given first; after an ending that is
\* the present one no other answer was given.
OrderFits ==
  /\ \A s, t \in Slots : s \in ahead[t] => answer[s] # NoAnswer
  /\ \A s, t \in Slots : s # t /\ answer[s] \in Details /\ answer[t] \in Details =>
       /\ s \in ahead[t] \/ t \in ahead[s]
       /\ s \in ahead[t] /\ Ended(answer[s]) /\ answer[s] = CurrentDetail /\ call[t] # "appeal"
            => answer[t] = CurrentDetail

\* Once stopped, the page shows the end or loads it, and whatever is on its
\* way says the same.
StopFits ==
  Stopped =>
    /\ phase[Id] \in TERMINAL
    /\ ShowsTheEnd \/ \E s \in Slots : call[s] = "detail"
    /\ \A s \in Slots : answer[s] \in Details => answer[s] = CurrentDetail

QuietInv == Inv /\ EndingsFit /\ OrderFits /\ StopFits

LEMMA QuietGives == QuietInv => QuietPageIsRight
<1> SUFFICES ASSUME QuietInv, page = "open", ~ banner, Idle, timers = {}, ~ overtaken, ~ blind
             PROVE  ShowsTheEnd
  BY DEF QuietPageIsRight
<1>1. Stopped
  BY DEF Stopped, Undisturbed, Idle, Accepted
<1> QED
  BY <1>1 DEF QuietInv, StopFits, Idle

\* What is no detail.
LEMMA NoDetails ==
  /\ NoAnswer \notin Details /\ NoDetail \notin Details
  /\ Lost \notin Details /\ Unauthorized \notin Details /\ Refused \notin Details
BY AnswersAssumption DEF Answers, Failures

\* While the court rests, an ending stays what it is.
LEMMA EndsRest ==
  ASSUME UNCHANGED courtVars
  PROVE  /\ CurrentDetail' = CurrentDetail
         /\ \A d : BeforeAppeal(d)' <=> BeforeAppeal(d)
         /\ phase' = phase
         /\ shown' = shown => (ShowsTheEnd' <=> ShowsTheEnd)
BY DEF courtVars, CurrentDetail, Revision, BeforeAppeal, ShowsTheEnd

\* The present detail is the end as it is shown.
LEMMA CurrentShows ==
  ASSUME Inv, shown = CurrentDetail, Ended(shown)
  PROVE  ShowsTheEnd
BY NoDetails DEF ShowsTheEnd, CurrentDetail, Ended

\* The court goes on from an ending by an appeal alone, and leaves every
\* ending that was answered before behind.
LEMMA CourtLeavesEnds ==
  ASSUME Inv, CourtStep
  PROVE  /\ \A d : Ended(d) /\ (d = CurrentDetail \/ BeforeAppeal(d))
                     => BeforeAppeal(d)' /\ d # CurrentDetail'
         /\ ~ Court!Appeal(Id) =>
              /\ phase[Id] \notin TERMINAL
              /\ \A d : Ended(d) /\ d = CurrentDetail => FALSE
              /\ \A d : BeforeAppeal(d)' => BeforeAppeal(d)
<1>1. CASE Court!Appeal(Id)
  <2>1. Id \notin appealUsed /\ Id \in appealUsed'
    BY <1>1 DEF Court!Appeal
  <2>2. CurrentDetail.appealUsed = (Id \in appealUsed) /\ CurrentDetail'.appealUsed = (Id \in appealUsed)'
    BY Zenon DEF CurrentDetail
  <2>3. ASSUME NEW d, d = CurrentDetail \/ BeforeAppeal(d)
        PROVE  BeforeAppeal(d)' /\ d # CurrentDetail'
    <3>1. ~ d.appealUsed
      BY <2>1, <2>2, <2>3, Zenon DEF BeforeAppeal
    <3>2. d # CurrentDetail'
      BY <2>1, <2>2, <3>1, Zenon
    <3> QED
      BY <2>1, <3>1, <3>2 DEF BeforeAppeal
  <2> QED
    BY <1>1, <2>3
<1>2. CASE ~ Court!Appeal(Id)
  <2>1. phase[Id] \notin TERMINAL /\ appealUsed' = appealUsed
    BY <1>2 DEF CourtStep, Court!Submit, Court!Progress, Court!Prosecute, Court!Defend, Court!Fail,
       Court!Uphold, Court!Sentence, Court!Rejudge, Court!Move, TERMINAL
  <2>2. \A d : Ended(d) => d # CurrentDetail
    BY <2>1 DEF Ended, CurrentDetail
  <2>3. \A d : BeforeAppeal(d)' <=> BeforeAppeal(d)
    BY <2>1 DEF BeforeAppeal
  <2>4. ASSUME NEW d, Ended(d), BeforeAppeal(d) PROVE d # CurrentDetail'
    <3>1. ~ d.appealUsed /\ (Id \in appealUsed)'
      BY <2>1, <2>4 DEF BeforeAppeal
    <3>2. CurrentDetail'.appealUsed = (Id \in appealUsed)'
      BY Zenon DEF CurrentDetail
    <3> QED
      BY <3>1, <3>2, Zenon
  <2> QED
    BY <1>2, <2>1, <2>2, <2>3, <2>4
<1> QED
  BY <1>1, <1>2

LEMMA ElsewhereQuiet ==
  ASSUME QuietInv, Try \/ SubmitElsewhere \/ AppealElsewhere
  PROVE  EndingsFit' /\ OrderFits' /\ StopFits'
<1> USE DEF QuietInv
<1>1. /\ CourtStep /\ UNCHANGED <<loggedIn, viewVars, timerVars, requestVars, overtaken>>
      /\ Court!Appeal(Id) => blind' = (page = "open")
      /\ ~ Court!Appeal(Id) => blind' = blind
  <2>1. CASE Try
    <3>1. ~ Court!Appeal(Id)
      BY <2>1 DEF Try, Court!Progress, Court!Prosecute, Court!Defend, Court!Fail,
         Court!Uphold, Court!Sentence, Court!Rejudge, Court!Move, Court!Appeal
    <3> QED
      BY <2>1, <3>1 DEF Try, CourtStep, historyVars
  <2>2. CASE SubmitElsewhere
    BY <2>2 DEF SubmitElsewhere, CourtStep, historyVars, Court!Submit, Court!Appeal, Court!Move
  <2>3. CASE AppealElsewhere
    BY <2>3 DEF AppealElsewhere, CourtStep
  <2> QED
    BY <2>1, <2>2, <2>3
<1>2. Undisturbed' => ~ Court!Appeal(Id) /\ Undisturbed
  BY <1>1 DEF Undisturbed, viewVars
<1>3. \A t : Accepted(t)' <=> Accepted(t)
  BY <1>1 DEF Accepted, requestVars
<1>4. EndingsFit'
  BY <1>1, <1>2, <1>3, CourtLeavesEnds DEF EndingsFit, requestVars, Ended
<1>5. OrderFits'
  BY <1>1, CourtLeavesEnds DEF EndingsFit, OrderFits, requestVars, Ended
<1>6. StopFits'
  <2>1. ASSUME Stopped' PROVE FALSE
    <3>1. Stopped
      BY <1>1, <1>2, <1>3, <2>1 DEF Stopped, timerVars, requestVars
    <3> QED
      BY <1>1, <1>2, <2>1, <3>1, CourtLeavesEnds DEF StopFits, Stopped
  <2> QED
    BY <2>1 DEF StopFits
<1> QED
  BY <1>4, <1>5, <1>6

LEMMA ViewQuiet ==
  ASSUME QuietInv, Expire \/ Leave \/ ToggleModal
  PROVE  EndingsFit' /\ OrderFits' /\ StopFits'
<1> USE DEF QuietInv
<1>1. /\ UNCHANGED <<courtVars, requestVars, historyVars, shown, banner>>
      /\ (page' = page /\ timers' = timers) \/ page' = "left"
  BY DEF Expire, Leave, ToggleModal, LeavePage, viewVars, timerVars
<1>2. Undisturbed' => Undisturbed /\ timers' = timers
  BY <1>1 DEF Undisturbed, historyVars
<1>3. \A t : Accepted(t)' <=> Accepted(t)
  BY <1>1 DEF Accepted, requestVars
<1>4. EndingsFit' /\ OrderFits'
  BY <1>1, <1>2, <1>3, EndsRest DEF EndingsFit, OrderFits, requestVars, Ended
<1>5. Stopped' => Stopped
  BY <1>1, <1>2, <1>3 DEF Stopped, requestVars
<1>6. StopFits'
  BY <1>1, <1>5, EndsRest DEF StopFits, requestVars
<1> QED
  BY <1>4, <1>6

LEMMA SendQuiet ==
  ASSUME QuietInv, NEW s \in Slots,
         Open(s) \/ SendAppeal(s) \/ \E k \in Timers : Tick(k, s)
  PROVE  EndingsFit' /\ OrderFits' /\ StopFits'
<1> USE DEF QuietInv
<1>1. /\ UNCHANGED <<courtVars, historyVars, shown, banner, timers, answer, ahead>>
      /\ call[s] = "none" /\ answer[s] = NoAnswer
  BY DEF Open, SendAppeal, Tick, Send, viewVars, timerVars, Inv, AnswersFit
<1>2. PICK what \in {"detail", "appeal", "progress"}, by \in Callers :
        /\ call' = [call EXCEPT ![s] = what] /\ caller' = [caller EXCEPT ![s] = by]
        /\ what = "detail" => page = "absent" /\ by = "mount"
        /\ what # "detail" => page' = page
  BY DEF Open, SendAppeal, Tick, Send, viewVars, Callers
<1>3. /\ \A t \in Slots \ {s} : call'[t] = call[t] /\ caller'[t] = caller[t]
      /\ call'[s] = what /\ caller'[s] = by
  BY <1>2 DEF Inv, TypeOK
<1>4. \A t \in Slots : Accepted(t)' <=> Accepted(t)
  BY <1>1, <1>3, NoDetails DEF Accepted
<1>5. what = "detail" => \A t \in Slots : answer[t] = NoAnswer
  BY <1>2 DEF Inv, TimersFit, AnswersFit
<1>6. EndingsFit'
  <2>1. what # "detail" => (Undisturbed' <=> Undisturbed)
    BY <1>1, <1>2 DEF Undisturbed, historyVars
  <2> QED
    BY <1>1, <1>4, <1>5, <2>1, EndsRest, NoDetails DEF EndingsFit, Ended
<1>7. OrderFits'
  BY <1>1, <1>3, EndsRest, NoDetails DEF OrderFits, Ended
<1>8. StopFits'
  <2> SUFFICES ASSUME Stopped'
               PROVE  /\ phase'[Id] \in TERMINAL
                      /\ ShowsTheEnd' \/ \E t \in Slots : call'[t] = "detail"
                      /\ \A t \in Slots : answer'[t] \in Details => answer'[t] = CurrentDetail'
    BY DEF StopFits
  <2>1. what # "detail"
    BY <1>2, <1>3 DEF Stopped
  <2>2. Stopped
    BY <1>1, <1>2, <1>3, <1>4, <2>1 DEF Stopped, Undisturbed, historyVars
  <2> QED
    BY <1>1, <1>3, <2>2, EndsRest DEF StopFits
<1> QED
  BY <1>6, <1>7, <1>8

LEMMA ServeQuiet ==
  ASSUME QuietInv, NEW s \in Slots, Serve(s)
  PROVE  EndingsFit' /\ OrderFits' /\ StopFits'
<1> USE DEF QuietInv
<1>1. PICK a \in Answers :
        /\ Reply(s, a) /\ Waiting(s)
        /\ UNCHANGED <<viewVars, timerVars, historyVars>>
        /\ \/ UNCHANGED courtVars /\ a = CurrentDetail /\ call[s] # "appeal"
           \/ UNCHANGED courtVars /\ a \notin Details
           \/ Court!Appeal(Id) /\ a = AppealedDetail /\ call[s] = "appeal"
  BY AnswersAreGood, NoDetails DEF Serve, Answers, Failures
<1>2. /\ answer[s] = NoAnswer /\ answer'[s] = a
      /\ \A t \in Slots \ {s} : answer'[t] = answer[t] /\ ahead'[t] = ahead[t]
      /\ ahead'[s] = {t \in Slots : Answered(t)}
      /\ UNCHANGED <<call, caller>>
  BY <1>1 DEF Reply, Waiting, Inv, TypeOK
<1>3. \A t \in Slots : answer[t] \in Details => t \in ahead'[s]
  BY <1>2, NoDetails DEF Answered, Inv, AnswersFit
<1>4. \A t \in Slots : s \notin ahead[t]
  BY <1>2 DEF OrderFits
<1>5. \A t, u \in Slots : t \in ahead'[u] => answer'[t] # NoAnswer
  BY <1>2, AnswersAssumption DEF Answered, OrderFits
<1>6. CASE UNCHANGED courtVars /\ ((a = CurrentDetail /\ call[s] # "appeal") \/ a \notin Details)
  <2>1. \A t \in Slots : Accepted(t)' <=> Accepted(t)
    BY <1>2, <1>6, NoDetails DEF Accepted
  <2>2. Undisturbed' <=> Undisturbed
    BY <1>1 DEF Undisturbed, viewVars, historyVars
  <2>3. ~ BeforeAppeal(CurrentDetail)
    BY DEF BeforeAppeal, CurrentDetail
  <2>4. EndingsFit'
    <3>1. ASSUME NEW t \in Slots, Ended(answer'[t])
          PROVE  \/ answer'[t] = CurrentDetail /\ ~ BeforeAppeal(answer'[t])
                 \/ /\ Ended(answer[t]) /\ answer'[t] = answer[t]
                    /\ \A u \in Slots : Accepted(u) /\ t \in ahead[u] => t \in ahead'[u]
      <4>1. CASE t = s
        BY <1>2, <1>6, <2>3, <3>1, <4>1 DEF Ended
      <4>2. CASE t # s
        <5>1. ~ Accepted(s)
          BY <1>2, NoDetails DEF Accepted
        <5> QED
          BY <1>2, <3>1, <4>2, <5>1 DEF Ended
      <4> QED
        BY <4>1, <4>2
    <3> QED
      BY <1>2, <1>6, <2>1, <2>2, <3>1, EndsRest DEF EndingsFit, Ended
  <2>5. OrderFits'
    BY <1>2, <1>3, <1>4, <1>5, <1>6, EndsRest DEF OrderFits, Ended
  <2>6. Stopped' <=> Stopped
    BY <1>1, <1>2, <2>1, <2>2 DEF Stopped, timerVars
  <2>7. StopFits'
    BY <1>1, <1>2, <1>6, <2>6, EndsRest DEF StopFits, viewVars
  <2> QED
    BY <2>4, <2>5, <2>7
<1>7. CASE Court!Appeal(Id) /\ a = AppealedDetail /\ call[s] = "appeal"
  <2>1. /\ (Id \in appealUsed)'
        /\ \A d : Ended(d) /\ (d = CurrentDetail \/ BeforeAppeal(d)) => ~ d.appealUsed /\ d # CurrentDetail'
    BY <1>7, CourtLeavesEnds DEF CourtStep, BeforeAppeal, Court!Appeal
  <2>2. Accepted(s)' /\ ~ Ended(answer'[s])
    BY <1>2, <1>7, AnswersAreGood DEF Accepted, Ended, TERMINAL
  <2>3. ASSUME NEW t \in Slots, Ended(answer'[t])
        PROVE  ~ answer'[t].appealUsed /\ t \in ahead'[s]
    <3>1. t # s /\ answer'[t] = answer[t]
      BY <1>2, <2>2, <2>3
    <3>2. Ended(answer[t]) /\ t \in ahead'[s]
      BY <1>3, <2>3, <3>1 DEF Ended
    <3>3. answer[t] = CurrentDetail \/ BeforeAppeal(answer[t])
      BY <3>2 DEF EndingsFit
    <3>4. ~ answer[t].appealUsed
      BY <2>1, <3>2, <3>3, Zenon
    <3> QED
      BY <3>1, <3>2, <3>4, Zenon
  <2>6. EndingsFit'
    <3>1. \A t \in Slots : Ended(answer'[t]) => BeforeAppeal(answer[t])' /\ t \in ahead'[s]
      BY <2>1, <2>3 DEF BeforeAppeal
    <3> QED
      BY <2>2, <3>1 DEF EndingsFit, Ended
  <2>4. OrderFits'
    BY <1>2, <1>3, <1>4, <1>5, <1>7, <2>1, <2>2 DEF OrderFits, EndingsFit, Ended
  <2>5. StopFits'
    BY <2>2 DEF StopFits, Stopped
  <2> QED
    BY <2>4, <2>5, <2>6
<1> QED
  BY <1>1, <1>6, <1>7

LEMMA LoseQuiet ==
  ASSUME QuietInv, NEW s \in Slots, Lose(s)
  PROVE  EndingsFit' /\ OrderFits' /\ StopFits'
<1> USE DEF QuietInv
<1>1. /\ UNCHANGED <<courtVars, page, shown, banner, timers, call, caller, ahead, overtaken>>
      /\ answer'[s] = Lost /\ \A t \in Slots \ {s} : answer'[t] = answer[t]
      /\ blind' = (blind \/ (call[s] = "appeal" /\ answer[s] # NoAnswer))
  BY DEF Lose, Inv, TypeOK, viewVars, timerVars
<1>2. Undisturbed' => Undisturbed /\ ~ Accepted(s)
  BY <1>1, NoDetails DEF Undisturbed, Accepted
<1>3. \A t \in Slots : Accepted(t)' <=> Accepted(t) /\ t # s
  BY <1>1, NoDetails DEF Accepted
<1>4. EndingsFit'
  BY <1>1, <1>2, <1>3, EndsRest, NoDetails DEF EndingsFit, Ended
<1>5. OrderFits'
  BY <1>1, EndsRest, NoDetails, AnswersAssumption DEF OrderFits, Ended, Answers, Failures
<1>6. Stopped' => Stopped
  BY <1>1, <1>2, <1>3 DEF Stopped
<1>7. StopFits'
  BY <1>1, <1>6, EndsRest, NoDetails DEF StopFits
<1> QED
  BY <1>4, <1>5, <1>7

\* A callback that leaves the page stopped: the end was shown, or is loaded.
LEMMA DeliverStops ==
  ASSUME QuietInv, NEW s \in Slots, Deliver(s), Stopped', ahead[s] = {}, Undisturbed
  PROVE  /\ phase[Id] \in TERMINAL
         /\ ShowsTheEnd' \/ \E t \in Slots : call'[t] = "detail"
         /\ \A t \in Slots \ {s} : answer[t] \in Details => answer[t] = CurrentDetail
<1> USE DEF QuietInv
<1>1. /\ UNCHANGED <<courtVars, caller>>
      /\ \A t \in Slots \ {s} : call'[t] = call[t] /\ answer'[t] = answer[t]
  BY Callback DEF Inv, TypeOK
<1>2. page = "open" /\ page' = "open" /\ banner' = FALSE /\ timers' = {}
  <2>1. banner' \in BOOLEAN
    BY Callback
  <2> QED
    BY <2>1 DEF Stopped, Undisturbed
<1>3. \A t \in Slots \ {s} : ~ Accepted(t) /\ ~ (call[t] = "detail" /\ caller[t] = "mount")
  BY <1>1 DEF Stopped, Accepted
<1>4. ~ LeavePage
  BY <1>2 DEF LeavePage
<1>5. ~ AppealAccepted(s)
  BY <1>2 DEF AppealAccepted, Run
<1>6. \A d : Ended(d) /\ d = CurrentDetail => phase[Id] \in TERMINAL
  BY DEF Ended, CurrentDetail
<1>7. ASSUME Ended(answer[s]) PROVE answer[s] = CurrentDetail /\ phase[Id] \in TERMINAL
  <2>1. ~ Accepted(s)
    BY <1>7 DEF Accepted, Ended, Inv, AnswersFit, TERMINAL
  <2>2. ~ \E t \in Slots : Accepted(t) /\ s \in ahead[t]
    BY <1>3, <2>1
  <2> QED
    BY <1>6, <1>7, <2>2 DEF EndingsFit
<1>8. CASE Mounted(s)
  <2>1. answer[s] \in Details /\ shown' = answer[s]
    BY <1>2, <1>8 DEF Mounted, ShowDetail
  <2>2. answer[s].status \in TERMINAL
    BY <1>2, <1>8 DEF Mounted, Run
  <2>3. answer[s] = CurrentDetail /\ phase[Id] \in TERMINAL
    BY <1>7, <2>1, <2>2 DEF Ended
  <2>4. ShowsTheEnd'
    <3>1. shown' = CurrentDetail /\ CurrentDetail \in Details
      BY <2>1, <2>3
    <3> QED
      BY <1>1, <2>3, <3>1, EndsRest, NoDetails DEF ShowsTheEnd, CurrentDetail
  <2>5. \A t \in Slots \ {s} : answer[t] = NoAnswer
    BY <1>8 DEF Mounted, Inv, TimersFit, AnswersFit
  <2> QED
    BY <2>3, <2>4, <2>5, NoDetails
<1>9. CASE EndPolled(s)
  <2>1. answer[s] = CurrentDetail /\ phase[Id] \in TERMINAL /\ Ended(answer[s])
    BY <1>7, <1>9 DEF EndPolled, Ended
  <2>2. call'[s] = "detail"
    BY <1>9 DEF EndPolled, Inv, TypeOK
  <2>3. ASSUME NEW t \in Slots \ {s}, answer[t] \in Details PROVE answer[t] = CurrentDetail
    <3>1. s \in ahead[t]
      BY <2>1, <2>3 DEF OrderFits, Ended
    <3>2. call[t] # "appeal"
      BY <1>3, <2>3 DEF Accepted
    <3> QED
      BY <2>1, <2>3, <3>1, <3>2 DEF OrderFits, Ended
  <2> QED
    BY <2>1, <2>2, <2>3
<1>10. CASE ~ Mounted(s) /\ ~ EndPolled(s)
  <2>1. timers' = timers
    BY <1>4, <1>5, <1>10 DEF Deliver, StagePolled, Reloaded, LoadFailed, SentToLogin, AppealFailed, timerVars
  <2>2. ~ Accepted(s)
    BY <1>5, <1>10, NoDetails
    DEF Accepted, Deliver, StagePolled, Reloaded, LoadFailed, SentToLogin, AppealFailed, Failures
  <2>3. call[s] = "detail" => Reloaded(s)
    BY <1>2, <1>4, <1>10
    DEF Deliver, StagePolled, LoadFailed, ShowError, SentToLogin, AppealAccepted, AppealFailed
  <2>4. Stopped
    BY <1>2, <1>3, <2>1, <2>2, <2>3 DEF Stopped, Reloaded
  <2>5. /\ phase[Id] \in TERMINAL
        /\ \A t \in Slots : answer[t] \in Details => answer[t] = CurrentDetail
    BY <2>4 DEF StopFits
  <2>6. ShowsTheEnd' \/ \E t \in Slots : call'[t] = "detail"
    <3>1. CASE Reloaded(s)
      <4>1. shown' = CurrentDetail /\ CurrentDetail \in Details
        BY <1>2, <2>5, <3>1 DEF Reloaded, ShowDetail
      <4> QED
        BY <1>1, <2>5, <4>1, EndsRest, NoDetails DEF ShowsTheEnd, CurrentDetail
    <3>2. CASE ~ Reloaded(s)
      <4>1. call[s] # "detail"
        BY <2>3, <3>2
      <4>2. ~ StagePolled(s)
        BY <2>5 DEF StagePolled, CurrentDetail
      <4>3. shown' = shown
        BY <1>5, <1>10, <3>2, <4>2 DEF Deliver, LoadFailed, SentToLogin, AppealFailed, viewVars
      <4>4. ShowsTheEnd \/ \E t \in Slots \ {s} : call[t] = "detail"
        BY <2>4, <4>1 DEF StopFits
      <4> QED
        BY <1>1, <4>3, <4>4, EndsRest
    <3> QED
      BY <3>1, <3>2
  <2> QED
    BY <2>5, <2>6
<1> QED
  BY <1>8, <1>9, <1>10

LEMMA DeliverQuiet ==
  ASSUME QuietInv, NEW s \in Slots, Deliver(s)
  PROVE  EndingsFit' /\ OrderFits' /\ StopFits'
<1> USE DEF QuietInv
<1>1. /\ UNCHANGED courtVars
      /\ \A t \in Slots \ {s} : call'[t] = call[t] /\ answer'[t] = answer[t] /\ ahead'[t] = ahead[t] \ {s}
      /\ answer'[s] = NoAnswer /\ ahead'[s] = {}
  BY Callback DEF Inv, TypeOK, Note
<1>2. Undisturbed' => Undisturbed /\ ahead[s] = {}
  <2>1. page' = "open" => page = "open"
    BY DEF Deliver, Mounted, EndPolled, StagePolled, Reloaded, LoadFailed, SentToLogin,
       LeavePage, AppealAccepted, AppealFailed, viewVars
  <2>2. banner => banner'
    BY DEF Deliver, Mounted, EndPolled, StagePolled, Reloaded, LoadFailed, ShowError, SentToLogin,
       AppealAccepted, AppealFailed, viewVars
  <2>3. Note(s)
    BY Callback
  <2> QED
    BY <2>1, <2>2, <2>3 DEF Undisturbed, Note
<1>3. EndingsFit'
  <2>1. ASSUME NEW t \in Slots, Ended(answer'[t])
        PROVE  /\ t # s /\ Ended(answer[t]) /\ answer'[t] = answer[t]
               /\ \A u \in Slots \ {s} : Accepted(u) /\ t \in ahead[u] => Accepted(u)' /\ t \in ahead'[u]
    BY <1>1, <2>1, NoDetails DEF Ended, Accepted
  <2> QED
    BY <1>1, <1>2, <2>1, EndsRest DEF EndingsFit, Ended
<1>4. OrderFits'
  BY <1>1, EndsRest, NoDetails DEF OrderFits, Ended
<1>5. StopFits'
  <2> SUFFICES ASSUME Stopped'
               PROVE  /\ phase'[Id] \in TERMINAL
                      /\ ShowsTheEnd' \/ \E t \in Slots : call'[t] = "detail"
                      /\ \A t \in Slots : answer'[t] \in Details => answer'[t] = CurrentDetail'
    BY DEF StopFits
  <2>1. Undisturbed /\ ahead[s] = {}
    BY <1>2 DEF Stopped
  <2> QED
    BY <1>1, <2>1, DeliverStops, EndsRest, NoDetails
<1> QED
  BY <1>3, <1>4, <1>5

LEMMA InitQuiet == Init => QuietInv
<1> SUFFICES ASSUME Init PROVE QuietInv
  OBVIOUS
<1>1. /\ page # "open" /\ \A s \in Slots : answer[s] = NoAnswer /\ ahead[s] = {}
  BY DEF Init
<1>2. EndingsFit /\ OrderFits
  BY <1>1, NoDetails DEF EndingsFit, OrderFits, Ended
<1>3. StopFits
  BY <1>1 DEF StopFits, Stopped, Undisturbed
<1> QED
  BY <1>2, <1>3, InitInv DEF QuietInv

LEMMA NextQuiet == QuietInv /\ [Next]_vars => QuietInv'
<1> SUFFICES ASSUME QuietInv, [Next]_vars PROVE QuietInv'
  OBVIOUS
<1>1. Inv'
  BY NextKeeps DEF QuietInv
<1>2. CASE UNCHANGED vars
  <2>1. UNCHANGED <<courtVars, page, shown, banner, timers, call, caller, answer, ahead, overtaken, blind>>
    BY <1>2 DEF vars, courtVars
  <2>2. EndingsFit' /\ OrderFits'
    BY <2>1, EndsRest DEF QuietInv, EndingsFit, OrderFits, Ended, Accepted, Undisturbed
  <2>3. Stopped' => Stopped
    BY <2>1 DEF Stopped, Accepted, Undisturbed
  <2>4. StopFits'
    BY <2>1, <2>3, EndsRest DEF QuietInv, StopFits
  <2> QED
    BY <1>1, <2>2, <2>4 DEF QuietInv
<1> QED
  BY <1>1, <1>2, ElsewhereQuiet, ViewQuiet, SendQuiet, ServeQuiet, LoseQuiet, DeliverQuiet
  DEF Next, QuietInv

\* A page that stopped asking, with no error shown, no answer overtaken and no
\* appeal behind its back, shows the end of the trial as it is.
THEOREM QuietPagesAreRight == Spec => []QuietPageIsRight
BY InitQuiet, NextQuiet, QuietGives, PTL DEF Spec
=============================================================================
