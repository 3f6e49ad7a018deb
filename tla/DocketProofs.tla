---------------------------- MODULE DocketProofs ----------------------------
(***************************************************************************)
(* Theorems of Docket, for any requests, users, codes and limits.          *)
(***************************************************************************)
EXTENDS Docket, FiniteSetTheorems, TLAPS

\* What a step of the court does to a case.
CourtSteps == INSTANCE CaseLifecycleProofs WITH Cases <- Requests

-----------------------------------------------------------------------------
(* The inductive invariant.                                                *)

\* The cached case that was found ended, has the same key, and only a forced
\* request goes on with it.
HitIsOld(r) ==
  /\ step[r] \in {"absent", "check_fetch", "record_fetch", "fetch", "look_up"} => hit[r] = NoCase
  /\ hit[r] # NoCase =>
       /\ hit[r] \in SameKey(r)
       /\ phase[hit[r]] \in {"SENTENCED", "DISMISSED", "rejudgment"}
       /\ step[r] \in {"check_rate", "insert"} => ask[r].force

\* A request that looks for a trial was refused its row by one.
RefusalHasTrial(r) ==
  step[r] = "find" =>
    /\ ~ask[r].force
    /\ \E d \in SameKey(r) \ {r} : phase[d] # "ABSENT"

\* What AnswersAreTrue says of one request.
AnswerIsTrue(r) ==
  LET c == named[r] IN
    /\ reply[r] \in {"cached", "created", "in_progress"} => c \in SameKey(r)
    /\ reply[r] = "created" <=> r \in Rows
    /\ reply[r] = "created" => c = r
    /\ reply[r] = "cached" => phase[c] \in {"SENTENCED", "DISMISSED", "rejudgment"}
    /\ reply[r] \in {"cached", "in_progress"} => ~ask[r].force
    /\ reply[r] = "retrial_blocked" => ask[r].force
    /\ reply[r] = "error" =>
         /\ ~ask[r].force
         /\ \E d \in SameKey(r) \ {r} :
              phase[d] \in {"SENTENCED", "DISMISSED", "FAILED", "rejudgment"}

RequestIsRight(r) ==
  /\ step[r] # "absent" => ask[r] \in Asks
  /\ HitIsOld(r) /\ RefusalHasTrial(r) /\ AnswerIsTrue(r)

\* created_at counts the rows.
RowsAreCounted == \A r \in Rows : createdAt[r] <= Cardinality(Rows)

Inv ==
  /\ TypeOK
  /\ \A r \in Requests : RequestIsRight(r)
  /\ RowsAreCounted /\ OneTrialPerCode /\ RetrialsFollow

LEMMA AnswersFollow == Inv => AnswersAreTrue
BY DEF Inv, RequestIsRight, AnswerIsTrue, AnswersAreTrue

LEMMA RowsAreFinite == IsFiniteSet(Rows) /\ Cardinality(Rows) \in Nat
BY CountingAssumption, FS_Subset, FS_CardinalityType DEF Rows

LEMMA InitInv == Init => Inv
<1> SUFFICES ASSUME Init PROVE Inv
  OBVIOUS
<1>1. TypeOK
  BY DEF Init, TypeOK, Court!Init, Phases, Steps, Replies, Court!Revisions
<1>2. Rows = {}
  BY DEF Init, Court!Init, Rows
<1>3. \A r \in Requests : RequestIsRight(r)
  BY <1>2 DEF Init, RequestIsRight, HitIsOld, RefusalHasTrial, AnswerIsTrue
<1> QED
  BY <1>1, <1>2, <1>3 DEF Inv, RowsAreCounted, OneTrialPerCode, RetrialsFollow, OnTrial
-----------------------------------------------------------------------------
(* Steps of a request that inserts nothing.                                *)

\* What such a step of request r leaves alone.
Quiet(r) ==
  /\ UNCHANGED <<courtVars, createdAt, previous, recent>>
  /\ \A q \in Requests \ {r} :
       step'[q] = step[q] /\ reply'[q] = reply[q] /\ ask'[q] = ask[q]
         /\ hit'[q] = hit[q] /\ named'[q] = named[q]
  /\ r \in Rows => ask'[r] = ask[r]

LEMMA QuietKeys ==
  ASSUME Inv, NEW r \in Requests, Quiet(r)
  PROVE  /\ Rows' = Rows /\ OnTrial' = OnTrial
         /\ \A c \in Rows : ask'[c] = ask[c]
         /\ \A q \in Requests \ {r} : SameKey(q)' = SameKey(q)
         /\ ask'[r] = ask[r] => SameKey(r)' = SameKey(r)
BY DEF Quiet, courtVars, Rows, OnTrial, SameKey

\* If all is right with r after it, all is right.
LEMMA QuietStep ==
  ASSUME Inv, NEW r \in Requests, Quiet(r), TypeOK', RequestIsRight(r)'
  PROVE  Inv'
<1> USE DEF Inv
<1>1. phase' = phase /\ createdAt' = createdAt /\ previous' = previous
  BY DEF Quiet, courtVars
<1>2. \A q \in Requests \ {r} : RequestIsRight(q)'
  BY <1>1, QuietKeys DEF Quiet, RequestIsRight, HitIsOld, RefusalHasTrial, AnswerIsTrue
<1>3. RowsAreCounted' /\ OneTrialPerCode'
  BY <1>1, QuietKeys DEF RowsAreCounted, OneTrialPerCode, OnTrial
<1>4. RetrialsFollow'
  BY <1>1, QuietKeys DEF RetrialsFollow, Rows, SameKey
<1> QED
  BY <1>2, <1>3, <1>4

\* An answer or a next step keeps the types.
LEMMA AnswerTyped ==
  ASSUME TypeOK, NEW r \in Requests, NEW what \in Replies \ {"none"},
         NEW c \in Requests \union {NoCase}, Answer(r, what, c),
         UNCHANGED <<courtVars, rowVars, recentFetches, ask>>,
         hit' \in [Requests -> Requests \union {NoCase}]
  PROVE  TypeOK'
BY DEF TypeOK, Steps, Answer, courtVars, rowVars

LEMMA GotoTyped ==
  ASSUME TypeOK, NEW r \in Requests, NEW s \in Steps \ {"answered"}, Goto(r, s),
         step[r] # "answered",
         UNCHANGED <<courtVars, rowVars, recentFetches, ask>>,
         hit' \in [Requests -> Requests \union {NoCase}]
  PROVE  TypeOK'
BY DEF TypeOK, Goto, courtVars, rowVars

LEMMA ArriveKeeps ==
  ASSUME Inv, NEW r \in Requests, NEW a \in Asks, Arrive(r, a)
  PROVE  Inv'
<1> USE DEF Inv, Arrive, Goto, rowVars, courtVars
<1>1. r \notin Rows /\ reply[r] = "none" /\ hit[r] = NoCase
  BY DEF TypeOK, RequestIsRight, AnswerIsTrue, HitIsOld
<1>2. Quiet(r)
  BY <1>1 DEF Quiet, TypeOK
<1>3. TypeOK'
  BY <1>1 DEF TypeOK, Steps
<1>4. RequestIsRight(r)'
  BY <1>1, QuietKeys, <1>2 DEF RequestIsRight, HitIsOld, RefusalHasTrial, AnswerIsTrue, TypeOK
<1> QED
  BY <1>2, <1>3, <1>4, QuietStep

\* The steps of a link before the cache is looked at.
LEMMA FetchKeeps ==
  ASSUME Inv, NEW r \in Requests,
         CheckFetchRateLimit(r) \/ RecordFetchAttempt(r) \/ Fetch(r)
  PROVE  Inv'
<1> USE DEF Inv, CheckFetchRateLimit, RecordFetchAttempt, Fetch, Goto, Answer, rowVars, courtVars
<1>1. Quiet(r)
  BY DEF Quiet, TypeOK
<1>2. TypeOK'
  <2>1. CASE RecordFetchAttempt(r)
    <3>1. UNCHANGED <<courtVars, rowVars, ask, hit>> /\ step[r] = "record_fetch"
      BY <2>1
    <3>2. step' = [step EXCEPT ![r] = "fetch"] /\ UNCHANGED <<reply, named>>
      BY <2>1
    <3>3. recentFetches' \subseteq Requests
      BY <2>1 DEF TypeOK
    <3> QED
      BY ONLY TypeOK, r \in Requests, <3>1, <3>2, <3>3 DEF TypeOK, Steps, courtVars, rowVars
  <2>2. CASE CheckFetchRateLimit(r) \/ Fetch(r)
    <3>1. /\ UNCHANGED <<courtVars, rowVars, recentFetches, ask>>
          /\ hit' \in [Requests -> Requests \union {NoCase}]
          /\ step[r] # "answered"
      BY <2>2 DEF TypeOK
    <3>2. \/ \E s \in Steps \ {"answered"} : Goto(r, s)
          \/ \E what \in Replies \ {"none"} : Answer(r, what, NoCase)
      BY <2>2 DEF Steps, Replies
    <3> QED
      BY ONLY TypeOK, r \in Requests, <3>1, <3>2, AnswerTyped, GotoTyped
  <2> QED
    BY <2>1, <2>2
<1>3. RequestIsRight(r)'
  BY <1>1, QuietKeys DEF RequestIsRight, HitIsOld, RefusalHasTrial, AnswerIsTrue, TypeOK
<1> QED
  BY <1>1, <1>2, <1>3, QuietStep

LEMMA LookUpKeeps ==
  ASSUME Inv, NEW r \in Requests, LookUp(r)
  PROVE  Inv'
<1> USE DEF Inv
<1> PICK c \in Cached(r) :
      /\ hit' = [hit EXCEPT ![r] = c]
      /\ IF c # NoCase /\ ~ask[r].force THEN Answer(r, "cached", c) ELSE Goto(r, "check_rate")
  BY DEF LookUp
<1>0. step[r] = "look_up" /\ UNCHANGED <<courtVars, rowVars, recentFetches, ask>>
  BY DEF LookUp
<1>1. c # NoCase => c \in SameKey(r) /\ phase[c] \in {"SENTENCED", "DISMISSED"}
  BY DEF Cached, Newest, Cacheable
<1>2. c \in Requests \union {NoCase}
  BY <1>1 DEF SameKey, Rows
<1>3. Quiet(r)
  BY <1>0 DEF Quiet, TypeOK, Answer, Goto, rowVars
<1>4. TypeOK'
  <2>1. hit' \in [Requests -> Requests \union {NoCase}]
    BY <1>2 DEF TypeOK
  <2> QED
    BY <1>0, <1>2, <2>1, AnswerTyped, GotoTyped DEF Steps, Replies
<1>5. phase' = phase /\ SameKey(r)' = SameKey(r) /\ Rows' = Rows /\ ask' = ask
  BY <1>0, <1>3, QuietKeys DEF courtVars
<1>6. RequestIsRight(r)'
  BY <1>0, <1>1, <1>5 DEF RequestIsRight, HitIsOld, RefusalHasTrial, AnswerIsTrue, TypeOK, Answer, Goto
<1> QED
  BY <1>3, <1>4, <1>6, QuietStep

LEMMA RefusalsKeep ==
  ASSUME Inv, NEW r \in Requests, CheckRateLimit(r) \/ InsertRefused(r) \/ Find(r)
  PROVE  Inv'
<1> USE DEF Inv
<1>1. UNCHANGED <<courtVars, rowVars, recentFetches, ask, hit>>
  BY DEF CheckRateLimit, InsertRefused, Find
<1>2. Quiet(r)
  BY <1>1 DEF Quiet, TypeOK, CheckRateLimit, InsertRefused, Find, Answer, Goto, rowVars
<1>3. phase' = phase /\ SameKey(r)' = SameKey(r) /\ Rows' = Rows
  BY <1>1, <1>2, QuietKeys DEF courtVars
<1>4. CASE CheckRateLimit(r)
  <2>1. TypeOK'
    <3>1. step[r] = "check_rate" /\ hit' \in [Requests -> Requests \union {NoCase}]
      BY <1>1, <1>4 DEF CheckRateLimit, TypeOK
    <3>2. Goto(r, "insert") \/ Answer(r, "rate_limited", NoCase)
      BY <1>4 DEF CheckRateLimit
    <3> QED
      BY <1>1, <3>1, <3>2, AnswerTyped, GotoTyped DEF Steps, Replies
  <2>2. RequestIsRight(r)'
    BY <1>1, <1>3, <1>4 DEF CheckRateLimit, RequestIsRight, HitIsOld, RefusalHasTrial, AnswerIsTrue, TypeOK, Answer, Goto
  <2> QED
    BY <1>2, <2>1, <2>2, QuietStep
<1>5. CASE InsertRefused(r)
  <2>1. TypeOK'
    BY <1>1, <1>5 DEF InsertRefused, TypeOK, Steps, Replies, Answer, Goto, rowVars, courtVars
  <2>2. \E d \in SameKey(r) \ {r} : phase[d] # "ABSENT"
    BY <1>5 DEF InsertRefused, KeyIsTaken, OnTrial, Rows
  <2>3. RequestIsRight(r)'
    BY <1>1, <1>3, <1>5, <2>2 DEF InsertRefused, RequestIsRight, HitIsOld, RefusalHasTrial, AnswerIsTrue, TypeOK, Answer, Goto
  <2> QED
    BY <1>2, <2>1, <2>3, QuietStep
<1>6. CASE Find(r)
  <2>1. PICK what \in {"error", "in_progress"}, c \in Requests \union {NoCase} :
          /\ Answer(r, what, c)
          /\ what = "in_progress" => c \in SameKey(r)
          /\ what = "error" => InProgress(r) = {}
    BY <1>6 DEF Find, InProgress, SameKey, Rows
  <2>2. TypeOK'
    BY <1>1, <2>1 DEF TypeOK, Steps, Replies, Answer, rowVars, courtVars
  <2>3. \A d \in SameKey(r) : InProgress(r) = {} => phase[d] \in {"SENTENCED", "DISMISSED", "FAILED"}
    BY DEF InProgress, OnTrial, SameKey, Rows, TypeOK, Phases
  <2>4. /\ step[r] = "find" /\ reply[r] = "none" /\ r \notin Rows
        /\ ~ask[r].force /\ ask[r] \in Asks /\ HitIsOld(r)
        /\ \E d \in SameKey(r) \ {r} : phase[d] # "ABSENT"
    BY <1>6 DEF Find, RequestIsRight, RefusalHasTrial, AnswerIsTrue, TypeOK
  <2>5. /\ step'[r] = "answered" /\ reply'[r] = what /\ named'[r] = c
    BY <2>1 DEF Answer, TypeOK
  <2>6. HitIsOld(r)' /\ RefusalHasTrial(r)' /\ ask'[r] \in Asks
    BY <1>1, <1>3, <2>4, <2>5 DEF HitIsOld, RefusalHasTrial
  <2>7. AnswerIsTrue(r)'
    BY <1>1, <1>3, <2>1, <2>3, <2>4, <2>5 DEF AnswerIsTrue
  <2>8. RequestIsRight(r)'
    BY <2>6, <2>7 DEF RequestIsRight
  <2> QED
    BY <1>2, <2>2, <2>8, QuietStep
<1> QED
  BY <1>4, <1>5, <1>6

LEMMA ExpireKeeps ==
  ASSUME Inv, NEW r \in Requests, Expire(r)
  PROVE  Inv'
<1> USE DEF Inv, Expire, courtVars, requestVars
<1>1. /\ Rows' = Rows /\ OnTrial' = OnTrial /\ \A q \in Requests : SameKey(q)' = SameKey(q)
      /\ UNCHANGED <<phase, createdAt, previous, ask, step, hit, reply, named>>
  BY DEF Rows, OnTrial, SameKey
<1>2. TypeOK'
  BY DEF TypeOK
<1>3. \A q \in Requests : RequestIsRight(q)'
  BY <1>1 DEF RequestIsRight, HitIsOld, RefusalHasTrial, AnswerIsTrue
<1>4. RowsAreCounted' /\ RetrialsFollow'
  BY <1>1 DEF RowsAreCounted, RetrialsFollow, Rows
<1>5. OneTrialPerCode'
  BY <1>1 DEF OneTrialPerCode, OnTrial, Rows
<1> QED
  BY <1>2, <1>3, <1>4, <1>5
-----------------------------------------------------------------------------
(* Steps of the court and the insert.                                      *)

\* A row on trial stays, moves on, or ends; a row that ended may be appealed.
LEMMA CourtKeeps ==
  ASSUME Inv, NEW c \in Requests, Judge(c) \/ Appeal(c)
  PROVE  Inv'
<1> USE DEF Inv
<1>1. UNCHANGED <<rowVars, recentFetches, requestVars>>
  BY DEF Judge, Appeal
<1>2. CourtSteps!Types
  BY DEF TypeOK, CourtSteps!Types, CourtSteps!Phases, Phases, Court!Revisions, CourtSteps!Revisions
<1>3. /\ Judge(c) => CourtSteps!Progress(c)
      /\ Appeal(c) => CourtSteps!Appeal(c)
  BY DEF Judge, Appeal, Court!Progress, CourtSteps!Progress, Court!Appeal, CourtSteps!Appeal,
     Court!Prosecute, CourtSteps!Prosecute, Court!Defend, CourtSteps!Defend, Court!Fail, CourtSteps!Fail,
     Court!Uphold, CourtSteps!Uphold, Court!Sentence, CourtSteps!Sentence, Court!Rejudge, CourtSteps!Rejudge,
     Court!Move, CourtSteps!Move
<1>4. CourtSteps!Court(c)
  BY <1>3 DEF CourtSteps!Court
<1>5. CourtSteps!Types' /\ CourtSteps!Others(c)
  BY <1>2, <1>4, CourtSteps!StepTyped
<1>6. \/ /\ Judge(c) /\ c \in OnTrial
         /\ phase'[c] \in {"defense", "judgment", "SENTENCED", "DISMISSED", "FAILED"}
         /\ phase[c] = "rejudgment" => phase'[c] = "SENTENCED"
      \/ /\ Appeal(c) /\ ~KeyIsTaken(c)
         /\ phase[c] = "SENTENCED" /\ phase'[c] = "rejudgment"
  <2>1. CASE Judge(c)
    BY <1>2, <1>3, <2>1, CourtSteps!ProgressMoves DEF OnTrial, Rows, CourtSteps!Trying
  <2>2. CASE Appeal(c)
    BY <2>2, <1>2 DEF Appeal, Court!Appeal, Court!Move, CourtSteps!Types
  <2> QED
    BY <2>1, <2>2
<1>7. TypeOK'
  BY <1>1, <1>5 DEF TypeOK, CourtSteps!Types, CourtSteps!Phases, Phases, Court!Revisions,
     CourtSteps!Revisions, rowVars, requestVars
<1>8. /\ \A d \in Requests \ {c} : phase'[d] = phase[d]
      /\ Rows' = Rows /\ \A q \in Requests : SameKey(q)' = SameKey(q)
  BY <1>1, <1>5, <1>6 DEF CourtSteps!Others, Rows, OnTrial, SameKey, requestVars
<1>9. \A q \in Requests : RequestIsRight(q)'
  BY <1>1, <1>6, <1>8 DEF RequestIsRight, HitIsOld, RefusalHasTrial, AnswerIsTrue, requestVars, SameKey, Rows, OnTrial
<1>10. RowsAreCounted'
  BY <1>1, <1>8 DEF RowsAreCounted, rowVars
<1>11. OneTrialPerCode'
  BY <1>1, <1>6, <1>8 DEF OneTrialPerCode, OnTrial, KeyIsTaken, SameKey, Rows, requestVars
<1>12. RetrialsFollow'
  BY <1>1, <1>6, <1>8 DEF RetrialsFollow, rowVars, requestVars, SameKey, Rows, OnTrial
<1> QED
  BY <1>7, <1>9, <1>10, <1>11, <1>12

LEMMA InsertKeeps ==
  ASSUME Inv, NEW r \in Requests, Insert(r)
  PROVE  Inv'
<1> USE DEF Inv
<1>1. /\ step[r] = "insert" /\ ~KeyIsTaken(r)
      /\ phase[r] = "ABSENT" /\ phase' = [phase EXCEPT ![r] = "prosecution"]
      /\ UNCHANGED <<judgments, overturned, appealUsed, rejudgmentFailed, recentFetches, ask, hit>>
      /\ createdAt' = [createdAt EXCEPT ![r] = Cardinality(Rows) + 1]
      /\ previous' = [previous EXCEPT ![r] = hit[r]]
      /\ recent' = recent \union {r}
      /\ step' = [step EXCEPT ![r] = "answered"]
      /\ reply' = [reply EXCEPT ![r] = "created"] /\ named' = [named EXCEPT ![r] = r]
  BY DEF Insert, Court!Submit, Court!Move, Answer
<1>2. TypeOK'
  BY <1>1, RowsAreFinite DEF TypeOK, Phases, Steps, Replies
<1>3. /\ r \notin Rows /\ Rows' = Rows \union {r} /\ OnTrial' = OnTrial \union {r}
      /\ \A c \in Requests \ {r} : phase'[c] = phase[c]
  BY <1>1 DEF Rows, OnTrial, TypeOK
<1>4. /\ \A q \in Requests : SameKey(q) \subseteq SameKey(q)' /\ r \notin SameKey(q)
      /\ r \in SameKey(r)'
  BY <1>1, <1>3 DEF SameKey
<1>5. IsFiniteSet(Rows) /\ Cardinality(Rows)' = Cardinality(Rows) + 1
  BY <1>3, RowsAreFinite, FS_AddElement
<1>6. \A q \in Requests \ {r} : RequestIsRight(q)'
  <2> SUFFICES ASSUME NEW q \in Requests \ {r} PROVE RequestIsRight(q)'
    OBVIOUS
  <2>1. step'[q] = step[q] /\ reply'[q] = reply[q] /\ named'[q] = named[q]
    BY <1>1 DEF TypeOK
  <2>2. RequestIsRight(q)
    OBVIOUS
  <2>3. HitIsOld(q)'
    BY <2>1, <2>2, <1>1, <1>3, <1>4 DEF HitIsOld, RequestIsRight, TypeOK, SameKey, Rows
  <2>4. RefusalHasTrial(q)'
    BY <2>1, <2>2, <1>1, <1>3, <1>4 DEF RefusalHasTrial, RequestIsRight, TypeOK, SameKey, Rows
  <2>5. AnswerIsTrue(q)'
    <3>1. SameKey(q) \subseteq SameKey(q)' /\ q \in Rows' <=> q \in Rows
      BY <1>3, <1>4
    <3>2. \A d \in SameKey(q) : d # r /\ phase'[d] = phase[d]
      BY <1>3, <1>4 DEF SameKey, Rows
    <3> QED
      BY <2>1, <2>2, <3>1, <3>2, <1>1, <1>3, <1>4 DEF AnswerIsTrue, RequestIsRight
  <2> QED
    BY <2>1, <2>2, <2>3, <2>4, <2>5, <1>1 DEF RequestIsRight
<1>7. RequestIsRight(r)'
  BY <1>1, <1>3, <1>4 DEF RequestIsRight, HitIsOld, RefusalHasTrial, AnswerIsTrue, TypeOK, SameKey, Rows
<1>8. RowsAreCounted'
  <2>1. \A c \in Rows : createdAt'[c] = createdAt[c]
    BY <1>1, <1>3 DEF TypeOK, Rows
  <2>2. createdAt'[r] = Cardinality(Rows) + 1
    BY <1>1 DEF TypeOK
  <2> QED
    BY <2>1, <2>2, <1>3, <1>5, RowsAreFinite DEF RowsAreCounted, TypeOK, Rows
<1>9. OneTrialPerCode'
  BY <1>1, <1>3 DEF OneTrialPerCode, OnTrial, KeyIsTaken, SameKey, Rows
<1>10. RetrialsFollow'
  <2> SUFFICES ASSUME NEW q \in Rows', previous'[q] # NoCase
               PROVE  /\ ask'[q].force
                      /\ previous'[q] \in SameKey(q)'
                      /\ createdAt'[previous'[q]] < createdAt'[q]
                      /\ phase'[previous'[q]] \in {"SENTENCED", "DISMISSED", "rejudgment"}
    BY DEF RetrialsFollow
  <2>1. CASE q = r
    <3>1. previous'[r] = hit[r] /\ hit[r] \in SameKey(r) /\ hit[r] # r
      BY <1>1, <1>4, <2>1 DEF TypeOK, RequestIsRight, HitIsOld
    <3>2. createdAt'[r] = Cardinality(Rows) + 1 /\ createdAt'[hit[r]] = createdAt[hit[r]]
      BY <1>1, <3>1 DEF TypeOK, SameKey, Rows
    <3>3. createdAt[hit[r]] \in Nat /\ createdAt[hit[r]] <= Cardinality(Rows)
      BY <3>1 DEF TypeOK, SameKey, Rows, RowsAreCounted
    <3>4. ask[r].force /\ phase[hit[r]] \in {"SENTENCED", "DISMISSED", "rejudgment"}
      BY <1>1, <2>1, <3>1 DEF RequestIsRight, HitIsOld
    <3> QED
      BY <1>1, <1>3, <1>4, <2>1, <3>1, <3>2, <3>3, <3>4, RowsAreFinite DEF SameKey, Rows
  <2>2. CASE q # r
    <3>1. q \in Rows /\ q \in Requests /\ previous'[q] = previous[q]
      BY <1>1, <1>3, <2>2 DEF TypeOK, Rows
    <3>2. /\ ask[q].force /\ previous[q] \in SameKey(q)
          /\ createdAt[previous[q]] < createdAt[q]
          /\ phase[previous[q]] \in {"SENTENCED", "DISMISSED", "rejudgment"}
      BY <3>1 DEF RetrialsFollow
    <3>3. previous[q] \in Requests \ {r}
      BY <1>4, <3>1, <3>2 DEF SameKey, Rows
    <3> QED
      BY <1>1, <1>3, <1>4, <2>2, <3>1, <3>2, <3>3 DEF TypeOK
  <2> QED
    BY <2>1, <2>2
<1> QED
  BY <1>2, <1>6, <1>7, <1>8, <1>9, <1>10
-----------------------------------------------------------------------------
LEMMA NextKeeps == Inv /\ [Next]_vars => Inv'
<1> SUFFICES ASSUME Inv, [Next]_vars PROVE Inv'
  OBVIOUS
<1>1. CASE UNCHANGED vars
  BY <1>1 DEF vars, Inv, TypeOK, RequestIsRight, HitIsOld, RefusalHasTrial, AnswerIsTrue,
     RowsAreCounted, OneTrialPerCode, RetrialsFollow, OnTrial, SameKey, Rows
<1>2. ASSUME NEW r \in Requests,
             (\E a \in Asks : Arrive(r, a)) \/ Serve(r) \/ Expire(r) \/ Judge(r) \/ Appeal(r)
      PROVE  Inv'
  BY <1>2, ArriveKeeps, FetchKeeps, LookUpKeeps, RefusalsKeep, ExpireKeeps, CourtKeeps,
     InsertKeeps DEF Serve
<1> QED
  BY <1>1, <1>2 DEF Next

LEMMA InvHolds == Spec => []Inv
<1> QED
  BY InitInv, NextKeeps, PTL DEF Spec

\* The variables keep their types, for any limits and any number of requests.
THEOREM DocketTyped == Spec => []TypeOK
BY InvHolds, PTL DEF Inv

\* The unique index keeps one trial per user and code, whatever races.
THEOREM TrialsAreSingle == Spec => []OneTrialPerCode
BY InvHolds, PTL DEF Inv

\* Every answer of POST /cases is true when given and stays true.
THEOREM AnswersStayTrue == Spec => []AnswersAreTrue
BY InvHolds, AnswersFollow, PTL

\* A retrial follows an older, ended trial of its own code.
THEOREM RetrialsAreInOrder == Spec => []RetrialsFollow
BY InvHolds, PTL DEF Inv
-----------------------------------------------------------------------------
(* The limits.  A request that passed its check is counted already: then   *)
(* the count grows at a check alone, by one of the MaxConcurrent that are  *)
(* open, and only below the limit.                                         *)

At(s, u) == {r \in Requests : step[r] = s /\ ask[r].user = u}
CasesOf(u) == RecentOf(u) \union At("insert", u)
FetchesOf(u) == RecentFetchesOf(u) \union At("record_fetch", u)

LimitInv ==
  /\ TypeOK
  /\ Cardinality(Open) <= MaxConcurrent
  /\ \A r \in recent \union recentFetches : step[r] # "absent"
  /\ \A u \in Users :
       /\ Cardinality(CasesOf(u)) <= DAILY_CASE_LIMIT + MaxConcurrent - 1
       /\ Cardinality(FetchesOf(u)) <= FETCH_RATE_LIMIT + MaxConcurrent - 1

LEMMA SetsAreFinite ==
  ASSUME TypeOK, NEW u
  PROVE  /\ IsFiniteSet(Open) /\ IsFiniteSet(CasesOf(u)) /\ IsFiniteSet(FetchesOf(u))
         /\ Open \subseteq Requests /\ CasesOf(u) \subseteq Requests /\ FetchesOf(u) \subseteq Requests
<1>1. /\ Open \subseteq Requests /\ CasesOf(u) \subseteq Requests /\ FetchesOf(u) \subseteq Requests
  BY DEF Open, CasesOf, FetchesOf, At, RecentOf, RecentFetchesOf, TypeOK
<1> QED
  BY <1>1, CountingAssumption, FS_Subset

LEMMA SmallerSets ==
  ASSUME NEW S \in SUBSET Requests, NEW T \in SUBSET S, NEW n \in Nat, Cardinality(S) <= n
  PROVE  Cardinality(T) <= n
BY CountingAssumption, FS_Subset, FS_CardinalityType

\* Less than a limit of recent ones, and what is open, stay within the bound.
LEMMA CountAtCheck ==
  ASSUME NEW S \in SUBSET Requests, NEW T \in SUBSET Requests,
         NEW limit \in Nat, NEW n \in Nat, Cardinality(S) < limit, Cardinality(T) <= n
  PROVE  Cardinality(S \union T) <= limit + n - 1
<1>1. IsFiniteSet(S) /\ IsFiniteSet(T) /\ IsFiniteSet(S \intersect T)
  BY CountingAssumption, FS_Subset
<1>2. Cardinality(S \union T) = Cardinality(S) + Cardinality(T) - Cardinality(S \intersect T)
  BY <1>1, FS_Union
<1> QED
  BY <1>1, <1>2, FS_CardinalityType

LEMMA InitLimits == Init => LimitInv
<1> SUFFICES ASSUME Init PROVE LimitInv
  OBVIOUS
<1>1. TypeOK
  BY InitInv DEF Inv
<1>2. Open = {} /\ \A u \in Users : CasesOf(u) = {} /\ FetchesOf(u) = {}
  BY DEF Init, Open, CasesOf, FetchesOf, At, RecentOf, RecentFetchesOf
<1>3. recent \union recentFetches = {}
  BY DEF Init
<1> QED
  BY <1>1, <1>2, <1>3, FS_EmptySet, LimitsAssumption DEF LimitInv

\* A step that adds nothing to what is counted.
LEMMA NoMoreThanBefore ==
  ASSUME LimitInv, TypeOK', Open' \subseteq Open,
         \A r \in (recent \union recentFetches)' : step'[r] # "absent",
         \A u \in Users : CasesOf(u)' \subseteq CasesOf(u) /\ FetchesOf(u)' \subseteq FetchesOf(u)
  PROVE  LimitInv'
<1> USE DEF LimitInv
<1>1. Cardinality(Open)' <= MaxConcurrent
  BY SetsAreFinite, SmallerSets, LimitsAssumption
<1>2. ASSUME NEW u \in Users
      PROVE  /\ Cardinality(CasesOf(u)') <= DAILY_CASE_LIMIT + MaxConcurrent - 1
             /\ Cardinality(FetchesOf(u)') <= FETCH_RATE_LIMIT + MaxConcurrent - 1
  BY SetsAreFinite, SmallerSets, LimitsAssumption
<1> QED
  BY <1>1, <1>2

LEMMA StepLimits ==
  ASSUME Inv, LimitInv, TypeOK', NEW r \in Requests,
         (\E a \in Asks : Arrive(r, a)) \/ Serve(r) \/ Expire(r) \/ Judge(r) \/ Appeal(r)
  PROVE  LimitInv'
<1> USE DEF LimitInv
<1>1. CASE \E a \in Asks : Arrive(r, a)
  <2>1. PICK a \in Asks : Arrive(r, a)
    BY <1>1
  <2>2. /\ step[r] = "absent" /\ UNCHANGED <<recent, recentFetches>>
        /\ step' = [step EXCEPT ![r] = IF a.link THEN "check_fetch" ELSE "look_up"]
        /\ ask' = [ask EXCEPT ![r] = a]
        /\ Cardinality(Open) < MaxConcurrent
    BY <2>1 DEF Arrive, Goto, rowVars
  <2>3. Open' = Open \union {r} /\ r \notin Open
    BY <2>2 DEF Open, TypeOK
  <2>4. Cardinality(Open') <= MaxConcurrent
    <3>1. IsFiniteSet(Open)
      BY SetsAreFinite
    <3>2. Cardinality(Open \union {r}) = Cardinality(Open) + 1 /\ Cardinality(Open) \in Nat
      BY <2>3, <3>1, FS_AddElement, FS_CardinalityType
    <3> QED
      BY <2>2, <2>3, <3>2, LimitsAssumption
  <2>5. \A u \in Users : CasesOf(u)' \subseteq CasesOf(u) /\ FetchesOf(u)' \subseteq FetchesOf(u)
    <3>1. \A q \in Requests : q # r => ask'[q] = ask[q] /\ step'[q] = step[q]
      BY <2>2 DEF TypeOK
    <3>2. r \notin recent /\ r \notin recentFetches /\ step'[r] \notin {"insert", "record_fetch"}
      BY <2>2 DEF TypeOK
    <3> QED
      BY <3>1, <3>2, <2>2 DEF CasesOf, FetchesOf, At, RecentOf, RecentFetchesOf, TypeOK
  <2>6. \A q \in (recent \union recentFetches)' : step'[q] # "absent"
    BY <2>2 DEF TypeOK
  <2>7. ASSUME NEW u \in Users
        PROVE  /\ Cardinality(CasesOf(u)') <= DAILY_CASE_LIMIT + MaxConcurrent - 1
               /\ Cardinality(FetchesOf(u)') <= FETCH_RATE_LIMIT + MaxConcurrent - 1
    BY <2>5, SetsAreFinite, SmallerSets, LimitsAssumption
  <2> QED
    BY <2>4, <2>6, <2>7
<1>2. CASE CheckFetchRateLimit(r) \/ CheckRateLimit(r)
  <2>1. /\ UNCHANGED <<recent, recentFetches, ask>>
        /\ step[r] \in {"check_fetch", "check_rate"}
        /\ \E s \in {"record_fetch", "insert", "answered"} : step' = [step EXCEPT ![r] = s]
        /\ step'[r] = "insert" => CasesLeft(ask[r].user)
        /\ step'[r] = "record_fetch" => FetchesLeft(ask[r].user)
    BY <1>2 DEF CheckFetchRateLimit, CheckRateLimit, Answer, Goto, rowVars, TypeOK
  <2>2. Open' \subseteq Open
    BY <2>1 DEF Open, TypeOK
  <2>3. \A q \in (recent \union recentFetches)' : step'[q] # "absent"
    BY <2>1 DEF TypeOK
  <2>4. Cardinality(Open') <= MaxConcurrent
    BY <2>2, SetsAreFinite, SmallerSets, LimitsAssumption
  <2>5. ASSUME NEW u \in Users
        PROVE  /\ Cardinality(CasesOf(u)') <= DAILY_CASE_LIMIT + MaxConcurrent - 1
               /\ Cardinality(FetchesOf(u)') <= FETCH_RATE_LIMIT + MaxConcurrent - 1
    <3>1. /\ RecentOf(u)' = RecentOf(u) /\ RecentFetchesOf(u)' = RecentFetchesOf(u)
          /\ At("insert", u)' \subseteq Open' /\ At("record_fetch", u)' \subseteq Open'
      BY <2>1 DEF RecentOf, RecentFetchesOf, At, Open
    <3>2. /\ RecentOf(u) \in SUBSET Requests /\ RecentFetchesOf(u) \in SUBSET Requests
          /\ Open' \in SUBSET Requests
      BY DEF RecentOf, RecentFetchesOf, Open, TypeOK
    <3>3. Cardinality(At("insert", u)') <= MaxConcurrent /\ Cardinality(At("record_fetch", u)') <= MaxConcurrent
      BY <3>1, <3>2, <2>4, SmallerSets, LimitsAssumption
    <3>4. At("insert", u)' \in SUBSET Requests /\ At("record_fetch", u)' \in SUBSET Requests
      BY DEF At
    <3>5. Cardinality(CasesOf(u)') <= DAILY_CASE_LIMIT + MaxConcurrent - 1
      <4>1. CASE step'[r] = "insert" /\ ask[r].user = u
        BY <4>1, <2>1, <3>1, <3>2, <3>3, <3>4, CountAtCheck, LimitsAssumption DEF CasesOf, CasesLeft
      <4>2. CASE ~(step'[r] = "insert" /\ ask[r].user = u)
        <5>1. CasesOf(u)' \subseteq CasesOf(u)
          BY <4>2, <2>1, <3>1 DEF CasesOf, At, TypeOK
        <5> QED
          BY <5>1, SetsAreFinite, SmallerSets, LimitsAssumption
      <4> QED
        BY <4>1, <4>2
    <3>6. Cardinality(FetchesOf(u)') <= FETCH_RATE_LIMIT + MaxConcurrent - 1
      <4>1. CASE step'[r] = "record_fetch" /\ ask[r].user = u
        BY <4>1, <2>1, <3>1, <3>2, <3>3, <3>4, CountAtCheck, LimitsAssumption DEF FetchesOf, FetchesLeft
      <4>2. CASE ~(step'[r] = "record_fetch" /\ ask[r].user = u)
        <5>1. FetchesOf(u)' \subseteq FetchesOf(u)
          BY <4>2, <2>1, <3>1 DEF FetchesOf, At, TypeOK
        <5> QED
          BY <5>1, SetsAreFinite, SmallerSets, LimitsAssumption
      <4> QED
        BY <4>1, <4>2
    <3> QED
      BY <3>5, <3>6
  <2> QED
    BY <2>3, <2>4, <2>5
<1>3. CASE RecordFetchAttempt(r) \/ Fetch(r) \/ LookUp(r) \/ Insert(r) \/ InsertRefused(r) \/ Find(r)
  <2>1. /\ UNCHANGED ask
        /\ \E s \in Steps \ {"absent", "record_fetch", "insert"} : step' = [step EXCEPT ![r] = s]
        /\ step[r] \notin {"absent", "answered"}
        /\ recent' = IF step[r] = "insert" /\ step'[r] = "answered" /\ recent' # recent
                     THEN recent \union {r} ELSE recent
        /\ recentFetches' = IF step[r] = "record_fetch" THEN recentFetches \union {r} ELSE recentFetches
    BY <1>3 DEF RecordFetchAttempt, Fetch, LookUp, Insert, InsertRefused, Find, Goto, Answer,
       rowVars, Steps, TypeOK
  <2>2. Open' \subseteq Open
    BY <2>1 DEF Open, TypeOK
  <2>3. \A q \in (recent \union recentFetches)' : step'[q] # "absent"
    BY <2>1 DEF TypeOK
  <2>4. \A u \in Users : CasesOf(u)' \subseteq CasesOf(u) /\ FetchesOf(u)' \subseteq FetchesOf(u)
    BY <2>1 DEF CasesOf, FetchesOf, At, RecentOf, RecentFetchesOf, TypeOK
  <2> QED
    BY <2>2, <2>3, <2>4, NoMoreThanBefore
<1>4. CASE Expire(r) \/ Judge(r) \/ Appeal(r)
  <2>1. /\ UNCHANGED <<step, ask>>
        /\ recent' \subseteq recent /\ recentFetches' \subseteq recentFetches
    BY <1>4 DEF Expire, Judge, Appeal, requestVars, rowVars
  <2>2. Open' \subseteq Open
    BY <2>1 DEF Open
  <2>3. \A q \in (recent \union recentFetches)' : step'[q] # "absent"
    BY <2>1
  <2>4. \A u \in Users : CasesOf(u)' \subseteq CasesOf(u) /\ FetchesOf(u)' \subseteq FetchesOf(u)
    BY <2>1 DEF CasesOf, FetchesOf, At, RecentOf, RecentFetchesOf
  <2> QED
    BY <2>2, <2>3, <2>4, NoMoreThanBefore
<1> QED
  BY <1>1, <1>2, <1>3, <1>4 DEF Serve

LEMMA NextLimits == Inv /\ LimitInv /\ [Next]_vars => LimitInv'
<1> SUFFICES ASSUME Inv, LimitInv, [Next]_vars PROVE LimitInv'
  OBVIOUS
<1>1. TypeOK'
  BY NextKeeps DEF Inv
<1>2. CASE UNCHANGED vars
  BY <1>1, <1>2, NoMoreThanBefore DEF vars, LimitInv, Open, CasesOf, FetchesOf, At, RecentOf,
     RecentFetchesOf
<1> QED
  BY <1>1, <1>2, StepLimits DEF Next

LEMMA LimitsBound == LimitInv => LimitBounds
<1> SUFFICES ASSUME LimitInv, NEW u \in Users
             PROVE  /\ Cardinality(RecentOf(u)) <= DAILY_CASE_LIMIT + MaxConcurrent - 1
                    /\ Cardinality(RecentFetchesOf(u)) <= FETCH_RATE_LIMIT + MaxConcurrent - 1
  BY DEF LimitBounds
<1>1. RecentOf(u) \subseteq CasesOf(u) /\ RecentFetchesOf(u) \subseteq FetchesOf(u)
  BY DEF CasesOf, FetchesOf
<1> QED
  BY <1>1, SetsAreFinite, SmallerSets, LimitsAssumption DEF LimitInv

\* Checking a count and inserting later lets a user past a limit by less than
\* the number of requests that are open at a time, for any limit.
THEOREM LimitsHold == Spec => []LimitBounds
<1>1. Spec => []LimitInv
  BY InvHolds, InitLimits, NextLimits, PTL DEF Spec
<1> QED
  BY <1>1, LimitsBound, PTL
=============================================================================
