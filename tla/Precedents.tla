----------------------------- MODULE Precedents -----------------------------
(***************************************************************************)
(* The precedents a judge is shown: one statement for each charge, gravest *)
(* first, within a budget for the charge and one for the case.  Between    *)
(* two statements, and while the judge is asked, other cases are judged,   *)
(* appealed and overturned.                                                *)
(*                                                                         *)
(* The court is CaseLifecycle: a judgment or rejudgment is committed there *)
(* only after a lookup.                                                    *)
(***************************************************************************)
EXTENDS Naturals, Sequences, FiniteSets

CONSTANTS
  Cases, Rulings, NoRuling,
  Workers,                     \* how many: each conducts one lookup at a time
  Rules, Languages,
  LanguageOf,                  \* the language of each case
  CreatedAt,                   \* and when it was submitted
  ChargesOf,                   \* the charges the prosecution brings, by charge_index
  MAX_PRECEDENTS_PER_CHARGE,
  MAX_PRECEDENTS_PER_CASE

VARIABLES
  \* the court: see CaseLifecycle
  phase, judgments, overturned, appealUsed, rejudgmentFailed,
  \* the cases of the verdicts in judgments.precedent_verdict_ids
  cited,
  \* the lookup of each case: how far it is, the charges that were not served,
  \* what is left of the budget, and the verdicts found for each charge
  lookup, unserved, remaining, found,
  \* history: verdicts that stood all the time since the lookup began, and
  \* those that stood at some time since
  always, ever

courtVars == <<phase, judgments, overturned, appealUsed, rejudgmentFailed>>
lookupVars == <<lookup, unserved, remaining, found>>
historyVars == <<always, ever>>
vars == <<phase, judgments, overturned, appealUsed, rejudgmentFailed, cited,
          lookup, unserved, remaining, found, always, ever>>

Court == INSTANCE CaseLifecycle

Revisions == Court!Revisions
Ranks == 1 .. 3                \* _SEVERITY_RANK

ASSUME CasesAssumption ==
  /\ LanguageOf \in [Cases -> Languages]
  /\ CreatedAt \in [Cases -> Nat]
  /\ ChargesOf \in [Cases -> Seq([rule : Rules, rank : Ranks])]

ASSUME BudgetAssumption ==
  /\ Workers \in Nat
  /\ MAX_PRECEDENTS_PER_CHARGE \in Nat
  /\ MAX_PRECEDENTS_PER_CASE \in Nat

ASSUME RulingAssumption == NoRuling \notin Rulings

\* There are finitely many rows to order.
ASSUME CountingAssumption == IsFiniteSet(Cases)

Charges(c) == DOMAIN ChargesOf[c]
Indices == UNION {Charges(c) : c \in Cases}

\* A verdict is that of a judgment of a case on one of its charges.
Verdicts == {x \in Cases \X Revisions \X Indices : x[3] \in Charges(x[1])}

Phases == {"ABSENT", "prosecution", "defense", "judgment", "rejudgment",
           "SENTENCED", "DISMISSED", "FAILED"}

TypeOK ==
  /\ phase \in [Cases -> Phases]
  /\ judgments \in [Cases -> [Revisions -> Rulings \union {NoRuling}]]
  /\ overturned \subseteq Cases
  /\ appealUsed \subseteq Cases
  /\ rejudgmentFailed \subseteq Cases
  /\ cited \in [Cases -> [Revisions -> SUBSET Cases]]
  /\ lookup \in [Cases -> {"none", "reading", "asked"}]
  /\ unserved \in [Cases -> SUBSET Indices]
  /\ remaining \in [Cases -> 0 .. MAX_PRECEDENTS_PER_CASE]
  /\ found \in [Cases -> [Indices -> SUBSET Verdicts]]
  /\ always \in [Cases -> SUBSET Verdicts]
  /\ ever \in [Cases -> SUBSET Verdicts]

NothingFound == [i \in Indices |-> {}]

Init ==
  /\ Court!Init
  /\ cited = [c \in Cases |-> [v \in Revisions |-> {}]]
  /\ lookup = [c \in Cases |-> "none"]
  /\ unserved = [c \in Cases |-> {}]
  /\ remaining = [c \in Cases |-> 0]
  /\ found = [c \in Cases |-> NothingFound]
  /\ always = [c \in Cases |-> {}]
  /\ ever = [c \in Cases |-> {}]
-----------------------------------------------------------------------------
(* The statement for one charge.                                           *)

Rule(x) == ChargesOf[x[1]][x[3]].rule

\* The verdicts of judgments that were not overturned, of sentenced cases.
Standing ==
  {x \in Verdicts : /\ judgments[x[1]][x[2]] # NoRuling
                    /\ ~ (x[2] = 0 /\ x[1] \in overturned)
                    /\ phase[x[1]] = "SENTENCED"}

\* Mutant: judgments.is_overturned is not asked.
Candidates_WithOverturned(c, i) ==
  {x \in Verdicts : /\ judgments[x[1]][x[2]] # NoRuling
                    /\ phase[x[1]] = "SENTENCED"
                    /\ x[1] # c
                    /\ Rule(x) = ChargesOf[c][i].rule}

Candidates(c, i) == {x \in Standing : x[1] # c /\ Rule(x) = ChargesOf[c][i].rule}

\* Verdicts in the language of the case come first, then the newest cases.
Ahead(c, x, y) ==
  LET own(z) == LanguageOf[z[1]] = LanguageOf[c] IN
    \/ own(x) /\ ~own(y)
    \/ (own(x) <=> own(y)) /\ CreatedAt[x[1]] > CreatedAt[y[1]]

AtMost(m, n) == IF m < n THEN m ELSE n

\* Mutant: the rows are cut off before they are ordered.
Rows_Unordered(c, i, n) ==
  LET all == Candidates(c, i) IN
    {T \in SUBSET all : Cardinality(T) = AtMost(n, Cardinality(all))}

\* What the statement may return with LIMIT n: nothing says which of the
\* verdicts of one case, or of cases of one moment, come first.
Rows(c, i, n) ==
  LET all == Candidates(c, i) IN
    {T \in SUBSET all :
       /\ Cardinality(T) = AtMost(n, Cardinality(all))
       /\ \A x \in T, y \in all \ T : ~ Ahead(c, y, x)}
-----------------------------------------------------------------------------
(* A lookup.                                                               *)

\* ordered_charges: charge i of c comes before charge j.
Before(c, i, j) ==
  LET rank(k) == ChargesOf[c][k].rank IN rank(i) > rank(j) \/ (rank(i) = rank(j) /\ i < j)

\* Mutant: the budget of the case is forgotten.
TakeForCharge(left) == MAX_PRECEDENTS_PER_CHARGE

Take(left) == AtMost(MAX_PRECEDENTS_PER_CHARGE, left)

\* fetch_precedents begins, for a judgment or a rejudgment.
Begin(c) ==
  /\ phase[c] \in {"judgment", "rejudgment"} /\ lookup[c] = "none"
  /\ Cardinality({d \in Cases : lookup[d] # "none"}) < Workers
  /\ lookup' = [lookup EXCEPT ![c] = "reading"]
  /\ unserved' = [unserved EXCEPT ![c] = Charges(c)]
  /\ remaining' = [remaining EXCEPT ![c] = MAX_PRECEDENTS_PER_CASE]
  /\ UNCHANGED <<courtVars, cited, found>>

Query(c) ==
  /\ lookup[c] = "reading" /\ remaining[c] > 0
  /\ \E i \in unserved[c] :
       /\ \A j \in unserved[c] \ {i} : Before(c, i, j)
       /\ \E T \in Rows(c, i, Take(remaining[c])) :
            /\ found' = [found EXCEPT ![c] = [@ EXCEPT ![i] = T]]
            /\ remaining' = [remaining EXCEPT ![c] = @ - Cardinality(T)]
       /\ unserved' = [unserved EXCEPT ![c] = @ \ {i}]
  /\ UNCHANGED <<courtVars, cited, lookup>>

\* All charges are served or the budget is spent: the judge is asked.
Ask(c) ==
  /\ lookup[c] = "reading"
  /\ unserved[c] = {} \/ remaining[c] = 0
  /\ lookup' = [lookup EXCEPT ![c] = "asked"]
  /\ UNCHANGED <<courtVars, cited, unserved, remaining, found>>

\* The lookup of c is forgotten.
End(c) ==
  /\ lookup' = [lookup EXCEPT ![c] = "none"]
  /\ unserved' = [unserved EXCEPT ![c] = {}]
  /\ remaining' = [remaining EXCEPT ![c] = 0]
  /\ found' = [found EXCEPT ![c] = NothingFound]

\* The worker dies, or the judge's answer is no good: the next attempt looks
\* precedents up again.
Retry(c) ==
  /\ lookup[c] # "none"
  /\ End(c)
  /\ UNCHANGED <<courtVars, cited>>

\* precedent_verdict_ids of the judgment that is added.
Cite(c, v) ==
  cited' = [cited EXCEPT ![c] = [@ EXCEPT ![v] =
              {x[1] : x \in UNION {found[c][i] : i \in Indices}}]]

Judge(c, r) ==
  /\ lookup[c] = "asked"
  /\ \/ Court!Sentence(c, r) /\ Cite(c, 0)
     \/ Court!Rejudge(c, r) /\ Cite(c, 1)
  /\ End(c)

\* The attempts are used up.
GiveUp(c) ==
  /\ lookup[c] = "asked"
  /\ Court!Fail(c) \/ Court!Uphold(c)
  /\ End(c)
  /\ UNCHANGED cited

\* What happens to a case outside of its lookups.
Proceed(c) ==
  /\ \/ Court!Submit(c) \/ Court!Appeal(c) \/ Court!Prosecute(c) \/ Court!Defend(c)
     \/ phase[c] # "judgment" /\ Court!Fail(c)
  /\ UNCHANGED <<cited, lookupVars>>

Step ==
  \E c \in Cases : \/ Proceed(c) \/ Begin(c) \/ Query(c) \/ Ask(c) \/ Retry(c) \/ GiveUp(c)
                   \/ \E r \in Rulings : Judge(c, r)

\* The history of every lookup, after a step.
Remember ==
  LET now == Standing' IN
    /\ always' = [c \in Cases |->
         CASE lookup'[c] = "none" -> {}
           [] lookup[c] = "none" /\ lookup'[c] # "none" -> now
           [] OTHER -> always[c] \intersect now]
    /\ ever' = [c \in Cases |-> IF lookup'[c] = "none" THEN {} ELSE ever[c] \union now]

Next == Step /\ Remember

Spec == Init /\ [][Next]_vars
-----------------------------------------------------------------------------
(* Properties.                                                             *)

\* What is shown for the charges S of c.
Shown(c, S) == {p \in S \X Verdicts : p[2] \in found[c][p[1]]}

\* The number of verdicts found for the charges that come before i.
SpentBefore(c, i) == Cardinality(Shown(c, {j \in Charges(c) : Before(c, j, i)}))

\* A judge is shown no more than the budget of each charge and of the case,
\* the verdicts that come up for two charges counted twice.
BudgetKept ==
  \A c \in Cases :
    /\ \A i \in Indices : Cardinality(found[c][i]) <= MAX_PRECEDENTS_PER_CHARGE
    /\ Cardinality(Shown(c, Indices)) <= MAX_PRECEDENTS_PER_CASE

\* Whatever was judged, appealed or overturned between the statements: when
\* the judge is asked, a verdict that stood all the time and is not shown for
\* a charge of its rule had to give way to verdicts that are not behind it,
\* or to the precedents of graver charges.
NothingBetterLeftOut ==
  \A c \in Cases : lookup[c] = "asked" =>
    \A i \in Charges(c), y \in always[c] :
      y[1] # c /\ Rule(y) = ChargesOf[c][i].rule /\ y \notin found[c][i] =>
        /\ Cardinality(found[c][i]) =
             AtMost(MAX_PRECEDENTS_PER_CHARGE, MAX_PRECEDENTS_PER_CASE - SpentBefore(c, i))
        /\ \A x \in found[c][i] : ~ Ahead(c, y, x)

\* A judgment is shown that has been overturned by now, or is under appeal,
\* only if that came after the lookup had begun.
OverturnedLately == \A c \in Cases, i \in Indices : found[c][i] \subseteq ever[c]

\* The verdicts of one case that are shown for one charge agree: a judgment
\* of revision 0 is shown beside that of revision 1 only if it says the same.
PrecedentsAgree ==
  \A c \in Cases, i \in Indices : \A x, y \in found[c][i] :
    x[1] = y[1] => judgments[x[1]][x[2]] = judgments[y[1]][y[2]]

\* No judgment, first or second, cites one of its own case.
NoOwnPrecedent == \A c \in Cases, v \in Revisions : c \notin cited[c][v]
=============================================================================
