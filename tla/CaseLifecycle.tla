--------------------------- MODULE CaseLifecycle ---------------------------
(***************************************************************************)
(* What the court promises about a case, whatever happens to the workers:  *)
(* every stage takes effect once, a judgment is never rewritten, a case    *)
(* ends, and a sentenced case may be appealed once.  There are no workers, *)
(* locks, attempts or requests here; CasePipeline implements this module.  *)
(***************************************************************************)
CONSTANTS Cases,     \* rows of the table cases, submitted or not yet
          Rulings,   \* what a judgment may say: one verdict for every charge
          NoRuling   \* no judgment row

VARIABLES phase,             \* where each case stands
          judgments,         \* the ruling of each revision of each case
          overturned,        \* cases whose judgment of revision 0 is_overturned
          appealUsed,        \* cases with appeal_used
          rejudgmentFailed   \* cases with rejudgment_failed_at set

vars == <<phase, judgments, overturned, appealUsed, rejudgmentFailed>>

Revisions == {0, 1}

Init ==
  /\ phase = [c \in Cases |-> "ABSENT"]
  /\ judgments = [c \in Cases |-> [v \in Revisions |-> NoRuling]]
  /\ overturned = {}
  /\ appealUsed = {}
  /\ rejudgmentFailed = {}

\* Case c goes from one phase to another and nothing else of it changes.
Move(c, from, to) ==
  /\ phase[c] = from
  /\ phase' = [phase EXCEPT ![c] = to]

Submit(c) ==
  /\ Move(c, "ABSENT", "prosecution")
  /\ UNCHANGED <<judgments, overturned, appealUsed, rejudgmentFailed>>

\* The prosecution charges the code, or finds nothing to charge.
Prosecute(c) ==
  /\ Move(c, "prosecution", "defense") \/ Move(c, "prosecution", "DISMISSED")
  /\ UNCHANGED <<judgments, overturned, appealUsed, rejudgmentFailed>>

Defend(c) ==
  /\ Move(c, "defense", "judgment")
  /\ UNCHANGED <<judgments, overturned, appealUsed, rejudgmentFailed>>

Sentence(c, r) ==
  /\ Move(c, "judgment", "SENTENCED")
  /\ judgments' = [judgments EXCEPT ![c] = [@ EXCEPT ![0] = r]]
  /\ UNCHANGED <<overturned, appealUsed, rejudgmentFailed>>

\* A stage before the first judgment is given up.
Fail(c) ==
  /\ \E s \in {"prosecution", "defense", "judgment"} : Move(c, s, "FAILED")
  /\ UNCHANGED <<judgments, overturned, appealUsed, rejudgmentFailed>>

Appeal(c) ==
  /\ c \notin appealUsed
  /\ Move(c, "SENTENCED", "rejudgment")
  /\ appealUsed' = appealUsed \union {c}
  /\ UNCHANGED <<judgments, overturned, rejudgmentFailed>>

\* The new judgment is added; the first one stays, overturned if it differs.
Rejudge(c, r) ==
  /\ Move(c, "rejudgment", "SENTENCED")
  /\ judgments' = [judgments EXCEPT ![c] = [@ EXCEPT ![1] = r]]
  /\ overturned' = IF r = judgments[c][0] THEN overturned
                                          ELSE overturned \union {c}
  /\ UNCHANGED <<appealUsed, rejudgmentFailed>>

\* The rejudgment is given up: the first judgment stands.
Uphold(c) ==
  /\ Move(c, "rejudgment", "SENTENCED")
  /\ rejudgmentFailed' = rejudgmentFailed \union {c}
  /\ UNCHANGED <<judgments, overturned, appealUsed>>

Progress(c) ==
  \/ Prosecute(c) \/ Defend(c) \/ Fail(c) \/ Uphold(c)
  \/ \E r \in Rulings : Sentence(c, r) \/ Rejudge(c, r)

Next == \E c \in Cases : Submit(c) \/ Appeal(c) \/ Progress(c)

Spec == Init /\ [][Next]_vars

\* Nobody has to submit or to appeal; the court has to finish what it began.
FairSpec == Spec /\ \A c \in Cases : WF_vars(Progress(c))
=============================================================================
