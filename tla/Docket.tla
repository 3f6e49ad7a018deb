------------------------------- MODULE Docket -------------------------------
(***************************************************************************)
(* POST /cases: requests that look for a cached trial, check two sliding   *)
(* 24-hour limits and insert a case row, in several database statements    *)
(* that other requests and the court interleave with.  What becomes of a   *)
(* row is CaseLifecycle, which CasePipeline implements.                    *)
(*                                                                         *)
(* A request inserts at most one row, so the row is named by its request.  *)
(***************************************************************************)
EXTENDS Naturals, FiniteSets

CONSTANTS
  Requests,           \* submissions, and the rows they may insert
  Users,
  Codes,              \* code_hash and language
  Rulings, NoRuling,
  DAILY_CASE_LIMIT,   \* 20 in the code
  FETCH_RATE_LIMIT,   \* 60 in the code
  Asks,               \* bound: the submissions that may arrive
  MaxConcurrent,      \* bound: requests open at a time
  NoCase, NoAsk

ASSUME LimitsAssumption ==
  /\ DAILY_CASE_LIMIT \in Nat \ {0}
  /\ FETCH_RATE_LIMIT \in Nat \ {0}
  /\ MaxConcurrent \in Nat \ {0}

\* A submission: pasted code or a GitHub link, with or without force_retrial.
Ask == [user : Users, code : Codes, force : BOOLEAN, link : BOOLEAN]

ASSUME AsksAssumption == Asks \subseteq Ask

ASSUME NamesAssumption == NoCase \notin Requests /\ NoAsk \notin Asks

\* There are finitely many rows to count.
ASSUME CountingAssumption == IsFiniteSet(Requests)

ASSUME RulingAssumption == NoRuling \notin Rulings

VARIABLES
  \* the court: see CaseLifecycle
  phase, judgments, overturned, appealUsed, rejudgmentFailed,
  \* table cases: created_at as a number, the rows of the last 24 hours,
  \* previous_case_id
  createdAt, recent, previous,
  \* table github_fetch_attempts: those of the last 24 hours
  recentFetches,
  \* requests: what is asked, the next step, the cached case found, the answer
  ask, step, hit, reply, named

courtVars == <<phase, judgments, overturned, appealUsed, rejudgmentFailed>>
rowVars == <<createdAt, recent, previous>>
requestVars == <<ask, step, hit, reply, named>>
vars == <<phase, judgments, overturned, appealUsed, rejudgmentFailed,
          createdAt, recent, previous, recentFetches,
          ask, step, hit, reply, named>>

Court == INSTANCE CaseLifecycle WITH Cases <- Requests

Steps == {"absent", "check_fetch", "record_fetch", "fetch",
          "look_up", "check_rate", "insert", "find", "answered"}
Replies == {"none", "cached", "created", "in_progress", "retrial_blocked",
            "rate_limited", "fetch_limited", "fetch_failed", "error"}
Phases == {"ABSENT", "prosecution", "defense", "judgment", "rejudgment",
           "SENTENCED", "DISMISSED", "FAILED"}

TypeOK ==
  /\ phase \in [Requests -> Phases]
  /\ judgments \in [Requests -> [Court!Revisions -> Rulings \union {NoRuling}]]
  /\ overturned \subseteq Requests
  /\ appealUsed \subseteq Requests
  /\ rejudgmentFailed \subseteq Requests
  /\ createdAt \in [Requests -> Nat]
  /\ recent \subseteq Requests
  /\ previous \in [Requests -> Requests \union {NoCase}]
  /\ recentFetches \subseteq Requests
  /\ ask \in [Requests -> Asks \union {NoAsk}]
  /\ step \in [Requests -> Steps]
  /\ hit \in [Requests -> Requests \union {NoCase}]
  /\ reply \in [Requests -> Replies]
  /\ named \in [Requests -> Requests \union {NoCase}]
  /\ \A r \in Requests : step[r] = "answered" <=> reply[r] # "none"

Init ==
  /\ Court!Init
  /\ createdAt = [r \in Requests |-> 0]
  /\ recent = {}
  /\ previous = [r \in Requests |-> NoCase]
  /\ recentFetches = {}
  /\ ask = [r \in Requests |-> NoAsk]
  /\ step = [r \in Requests |-> "absent"]
  /\ hit = [r \in Requests |-> NoCase]
  /\ reply = [r \in Requests |-> "none"]
  /\ named = [r \in Requests |-> NoCase]
-----------------------------------------------------------------------------
(* The table cases.                                                        *)

Rows == {c \in Requests : phase[c] # "ABSENT"}
SameKey(r) == {c \in Rows : ask[c].user = ask[r].user /\ ask[c].code = ask[r].code}
OnTrial == {c \in Rows : phase[c] \in {"prosecution", "defense", "judgment", "rejudgment"}}

\* Mutant: the cache forgets that a rejudgment may have failed, and returns
\* failed trials too.
AnyFinished(r) == {c \in SameKey(r) : c \notin OnTrial}

Cacheable(r) ==
  {c \in SameKey(r) : phase[c] \in {"SENTENCED", "DISMISSED"} /\ c \notin rejudgmentFailed}

Newest(S) == {c \in S : \A d \in S : createdAt[d] <= createdAt[c]}

\* _find_cached_case: what it may return.
Cached(r) == IF Cacheable(r) = {} THEN {NoCase} ELSE Newest(Cacheable(r))

\* uq_cases_active_code holds another row than r.
KeyIsTaken(r) == (SameKey(r) \intersect OnTrial) \ {r} # {}

RecentOf(u) == {c \in recent : ask[c].user = u}
RecentFetchesOf(u) == {r \in recentFetches : ask[r].user = u}

\* Mutant: the answer is not returned.
AnswerAndGoOn(r, what, c) ==
  /\ reply' = [reply EXCEPT ![r] = what]
  /\ named' = [named EXCEPT ![r] = c]
  /\ UNCHANGED step

\* Request r is answered, with the case c.
Answer(r, what, c) ==
  /\ step' = [step EXCEPT ![r] = "answered"]
  /\ reply' = [reply EXCEPT ![r] = what]
  /\ named' = [named EXCEPT ![r] = c]

Goto(r, s) ==
  /\ step' = [step EXCEPT ![r] = s]
  /\ UNCHANGED <<reply, named>>
-----------------------------------------------------------------------------
(* A request.                                                              *)

Open == {r \in Requests : step[r] \notin {"absent", "answered"}}

\* submit_case: a link is fetched first.
Arrive(r, a) ==
  /\ step[r] = "absent"
  /\ Cardinality(Open) < MaxConcurrent
  /\ ask' = [ask EXCEPT ![r] = a]
  /\ Goto(r, IF a.link THEN "check_fetch" ELSE "look_up")
  /\ UNCHANGED <<courtVars, rowVars, recentFetches, hit>>

FetchesLeft(u) == Cardinality(RecentFetchesOf(u)) < FETCH_RATE_LIMIT

CheckFetchRateLimit(r) ==
  /\ step[r] = "check_fetch"
  /\ IF FetchesLeft(ask[r].user) THEN Goto(r, "record_fetch")
                                 ELSE Answer(r, "fetch_limited", NoCase)
  /\ UNCHANGED <<courtVars, rowVars, recentFetches, ask, hit>>

RecordFetchAttempt(r) ==
  /\ step[r] = "record_fetch"
  /\ recentFetches' = recentFetches \union {r}
  /\ Goto(r, "fetch")
  /\ UNCHANGED <<courtVars, rowVars, ask, hit>>

\* GitHub gives the file, or the attempt is lost: 400 or 503.
Fetch(r) ==
  /\ step[r] = "fetch"
  /\ Goto(r, "look_up") \/ Answer(r, "fetch_failed", NoCase)
  /\ UNCHANGED <<courtVars, rowVars, recentFetches, ask, hit>>

LookUp(r) ==
  /\ step[r] = "look_up"
  /\ \E c \in Cached(r) :
       /\ hit' = [hit EXCEPT ![r] = c]
       /\ IF c # NoCase /\ ~ask[r].force THEN Answer(r, "cached", c)
                                         ELSE Goto(r, "check_rate")
  /\ UNCHANGED <<courtVars, rowVars, recentFetches, ask>>

\* Mutant: off by one.
CasesLeftLate(u) == Cardinality(RecentOf(u)) <= DAILY_CASE_LIMIT

CasesLeft(u) == Cardinality(RecentOf(u)) < DAILY_CASE_LIMIT

CheckRateLimit(r) ==
  /\ step[r] = "check_rate"
  /\ IF CasesLeft(ask[r].user) THEN Goto(r, "insert")
                               ELSE Answer(r, "rate_limited", NoCase)
  /\ UNCHANGED <<courtVars, rowVars, recentFetches, ask, hit>>

Insert(r) ==
  /\ step[r] = "insert"
  /\ ~KeyIsTaken(r)
  /\ Court!Submit(r)
  /\ createdAt' = [createdAt EXCEPT ![r] = Cardinality(Rows) + 1]
  /\ recent' = recent \union {r}
  /\ previous' = [previous EXCEPT ![r] = hit[r]]
  /\ Answer(r, "created", r)
  /\ UNCHANGED <<recentFetches, ask, hit>>

\* IntegrityError: a forced retrial is refused, another looks for the trial.
InsertRefused(r) ==
  /\ step[r] = "insert"
  /\ KeyIsTaken(r)
  /\ IF ask[r].force THEN Answer(r, "retrial_blocked", NoCase)
                     ELSE Goto(r, "find")
  /\ UNCHANGED <<courtVars, rowVars, recentFetches, ask, hit>>

\* Mutant: looks for the code only.
FoundByCode(r) == {c \in OnTrial : ask[c].code = ask[r].code}

\* _find_in_progress_case.
InProgress(r) == SameKey(r) \intersect OnTrial

\* The row that refused the insert may have ended: existing is None then.
Find(r) ==
  /\ step[r] = "find"
  /\ IF InProgress(r) = {} THEN Answer(r, "error", NoCase)
     ELSE \E c \in InProgress(r) : Answer(r, "in_progress", c)
  /\ UNCHANGED <<courtVars, rowVars, recentFetches, ask, hit>>
-----------------------------------------------------------------------------
(* Time and the court.                                                     *)

\* The oldest row of the last 24 hours, or a fetch attempt, leaves the window.
Expire(r) ==
  /\ \/ /\ r \in recent
        /\ \A c \in recent : createdAt[r] <= createdAt[c]
        /\ recent' = recent \ {r}
        /\ UNCHANGED recentFetches
     \/ /\ r \in recentFetches
        /\ recentFetches' = recentFetches \ {r}
        /\ UNCHANGED recent
  /\ UNCHANGED <<courtVars, createdAt, previous, requestVars>>

Judge(c) ==
  /\ Court!Progress(c)
  /\ UNCHANGED <<rowVars, recentFetches, requestVars>>

\* An appeal makes the row active again, if the index lets it.
Appeal(c) ==
  /\ Court!Appeal(c)
  /\ ~KeyIsTaken(c)
  /\ UNCHANGED <<rowVars, recentFetches, requestVars>>

Serve(r) ==
  \/ CheckFetchRateLimit(r) \/ RecordFetchAttempt(r) \/ Fetch(r)
  \/ LookUp(r) \/ CheckRateLimit(r) \/ Insert(r) \/ InsertRefused(r) \/ Find(r)

Next ==
  \E r \in Requests :
    \/ \E a \in Asks : Arrive(r, a)
    \/ Serve(r) \/ Expire(r) \/ Judge(r) \/ Appeal(r)

Spec == Init /\ [][Next]_vars
-----------------------------------------------------------------------------
(* Properties.                                                             *)

\* Racing submissions, retrials and appeals leave one trial per user and code,
\* so the scalar_one_or_none of _find_in_progress_case finds one row at most.
OneTrialPerCode ==
  \A c, d \in OnTrial :
    ask[c].user = ask[d].user /\ ask[c].code = ask[d].code => c = d

\* An answer names a case of the user's own code, in the state it speaks of:
\* one that the request made, one that is or was on trial, or one that ended
\* with a judgment or a dismissal (an appeal may have come since).  A forced
\* retrial alone is blocked, and a request fails with an unexpected error only
\* if it was not forced and the trial that refused its row has ended.
AnswersAreTrue ==
  \A r \in Requests :
    LET c == named[r] IN
      /\ reply[r] \in {"cached", "created", "in_progress"} => c \in SameKey(r)
      /\ reply[r] = "created" <=> r \in Rows
      /\ reply[r] = "created" => c = r
      /\ reply[r] = "cached" => phase[c] \in {"SENTENCED", "DISMISSED", "rejudgment"}
      /\ reply[r] \in {"cached", "in_progress"} => ~ask[r].force
      /\ reply[r] = "retrial_blocked" => ask[r].force
      /\ reply[r] = "error" =>
           /\ ~ask[r].force
           /\ \E d \in SameKey(r) \ {r} :
                phase[d] \in {"SENTENCED", "DISMISSED", "FAILED", "rejudgment"}

\* A retrial follows an ended trial of the same code that is older than it,
\* and only one that was asked for has a predecessor.
RetrialsFollow ==
  \A r \in Rows :
    previous[r] # NoCase =>
      /\ ask[r].force
      /\ previous[r] \in SameKey(r)
      /\ createdAt[previous[r]] < createdAt[r]
      /\ phase[previous[r]] \in {"SENTENCED", "DISMISSED", "rejudgment"}

\* What count-then-insert guarantees: the limits are exceeded by no more than
\* the requests that were open at the same time.
LimitBounds ==
  \A u \in Users :
    /\ Cardinality(RecentOf(u)) <= DAILY_CASE_LIMIT + MaxConcurrent - 1
    /\ Cardinality(RecentFetchesOf(u)) <= FETCH_RATE_LIMIT + MaxConcurrent - 1
=============================================================================
