-------------------------- MODULE PrecedentsProofs --------------------------
(***************************************************************************)
(* Theorems of Precedents, for any cases, charges, budgets and number of   *)
(* workers.                                                                *)
(***************************************************************************)
EXTENDS Precedents, FiniteSetTheorems, TLAPS

\* What a step of the court does to a case.
CourtSteps == INSTANCE CaseLifecycleProofs

-----------------------------------------------------------------------------
(* Verdicts can be counted.                                                *)

LEMMA ChargesAreFinite == \A c \in Cases : Charges(c) \in SUBSET Nat /\ IsFiniteSet(Charges(c))
<1> SUFFICES ASSUME NEW c \in Cases PROVE Charges(c) \in SUBSET Nat /\ IsFiniteSet(Charges(c))
  OBVIOUS
<1>1. ChargesOf[c] \in Seq([rule : Rules, rank : Ranks])
  BY CasesAssumption
<1>2. Charges(c) = 1 .. Len(ChargesOf[c]) /\ Len(ChargesOf[c]) \in Nat
  BY <1>1 DEF Charges
<1> QED
  BY <1>2, FS_Interval

LEMMA IndicesAreFinite == IsFiniteSet(Indices)
<1> DEFINE S == {Charges(c) : c \in Cases}
           f == [c \in Cases |-> Charges(c)]
<1>1. f \in Surjection(Cases, S)
  BY DEF Surjection
<1>2. IsFiniteSet(S)
  BY <1>1, CountingAssumption, FS_Surjection
<1> QED
  BY <1>2, ChargesAreFinite, FS_UNION DEF Indices

LEMMA VerdictsAreFinite == IsFiniteSet(Verdicts)
<1>1. IsFiniteSet({0, 1})
  <2>1. IsFiniteSet({0} \union {1})
    BY FS_Singleton, FS_AddElement
  <2>2. {0, 1} = {0} \union {1}
    OBVIOUS
  <2> QED
    BY <2>1, <2>2
<1>2. IsFiniteSet(Cases \X {0, 1})
  BY <1>1, CountingAssumption, FS_Product
<1>3. IsFiniteSet((Cases \X {0, 1}) \X Indices)
  BY <1>2, IndicesAreFinite, FS_Product
<1> DEFINE T == Cases \X Revisions \X Indices
           f == [p \in (Cases \X {0, 1}) \X Indices |-> <<p[1][1], p[1][2], p[2]>>]
<1>4. f \in Surjection((Cases \X {0, 1}) \X Indices, T)
  <2>1. f \in [(Cases \X {0, 1}) \X Indices -> T]
    BY DEF Revisions, Court!Revisions
  <2>2. ASSUME NEW x \in T PROVE \E p \in (Cases \X {0, 1}) \X Indices : f[p] = x
    <3>1. <<<<x[1], x[2]>>, x[3]>> \in (Cases \X {0, 1}) \X Indices
      BY DEF Revisions, Court!Revisions
    <3> QED
      BY <3>1
  <2> QED
    BY <2>1, <2>2 DEF Surjection
<1>5. IsFiniteSet(T)
  BY <1>3, <1>4, FS_Surjection
<1> QED
  BY <1>5, FS_Subset DEF Verdicts

LEMMA SomeVerdicts ==
  ASSUME NEW T \in SUBSET Verdicts
  PROVE  IsFiniteSet(T) /\ Cardinality(T) \in Nat
BY VerdictsAreFinite, FS_Subset, FS_CardinalityType

\* A statement returns no more than its limit, and verdicts that stand.
LEMMA RowsAreFew ==
  ASSUME NEW c \in Cases, NEW i, NEW n \in Nat, NEW T \in Rows(c, i, n)
  PROVE  /\ T \subseteq Candidates(c, i) /\ T \subseteq Standing /\ T \subseteq Verdicts
         /\ IsFiniteSet(T) /\ Cardinality(T) \in 0 .. n
         /\ \A x \in T : x[1] # c
<1>1. T \subseteq Candidates(c, i) /\ Candidates(c, i) \subseteq Standing /\ Standing \subseteq Verdicts
  BY DEF Rows, Candidates, Standing
<1>2. Cardinality(T) = AtMost(n, Cardinality(Candidates(c, i)))
  BY DEF Rows
<1>3. IsFiniteSet(T) /\ Cardinality(T) \in Nat /\ Cardinality(Candidates(c, i)) \in Nat
  BY <1>1, SomeVerdicts
<1> QED
  BY <1>1, <1>2, <1>3 DEF AtMost, Candidates
-----------------------------------------------------------------------------
(* The inductive invariant, of the lookup of one case.                     *)

\* What is shown stood at some time since the lookup began, was judged, and
\* agrees with what else is shown of its case.
ShownFits(c) ==
  \A i \in Indices : \A x \in found[c][i] :
    /\ x[1] # c /\ x \in ever[c] /\ judgments[x[1]][x[2]] # NoRuling
    /\ \A y \in found[c][i] :
         x[1] = y[1] => judgments[x[1]][x[2]] = judgments[y[1]][y[2]]

\* What is shown and what is left are the budget.
BudgetFits(c) ==
  /\ \A i \in Indices : Cardinality(found[c][i]) <= MAX_PRECEDENTS_PER_CHARGE
  /\ lookup[c] # "none" =>
       Cardinality(Shown(c, Indices)) + remaining[c] = MAX_PRECEDENTS_PER_CASE
  /\ lookup[c] = "none" => found[c] = NothingFound

\* The charges are served in their order.
OrderFits(c) ==
  /\ unserved[c] \subseteq Charges(c)
  /\ \A i \in Indices : i \in unserved[c] \/ i \notin Charges(c) => found[c][i] = {}
  /\ \A i \in Charges(c) \ unserved[c], j \in unserved[c] : Before(c, i, j)
  /\ lookup[c] = "asked" => unserved[c] = {} \/ remaining[c] = 0

\* What NothingBetterLeftOut says of one charge.
ChoiceIsRight(c, i) ==
  \A y \in always[c] :
    y[1] # c /\ Rule(y) = ChargesOf[c][i].rule /\ y \notin found[c][i] =>
      /\ Cardinality(found[c][i]) =
           AtMost(MAX_PRECEDENTS_PER_CHARGE, MAX_PRECEDENTS_PER_CASE - SpentBefore(c, i))
      /\ \A x \in found[c][i] : ~ Ahead(c, y, x)

\* The charges that were served were served well.
ChoicesFit(c) ==
  lookup[c] # "none" =>
    /\ always[c] \subseteq Standing
    /\ \A i \in Charges(c) \ unserved[c] : ChoiceIsRight(c, i)

Fits(c) == ShownFits(c) /\ BudgetFits(c) /\ OrderFits(c) /\ ChoicesFit(c)

Inv ==
  /\ TypeOK /\ CourtSteps!FilesFit /\ NoOwnPrecedent
  /\ \A c \in Cases : Fits(c)

LEMMA InitInv == Init => Inv
<1> SUFFICES ASSUME Init PROVE Inv
  OBVIOUS
<1>1. CourtSteps!Types /\ CourtSteps!FilesFit
  BY CourtSteps!InitFits DEF Init, Court!Init, CourtSteps!Init, Court!Revisions, CourtSteps!Revisions
<1>2. TypeOK
  BY <1>1, BudgetAssumption
  DEF Init, TypeOK, CourtSteps!Types, Phases, CourtSteps!Phases, CourtSteps!Revisions, Revisions,
      Court!Revisions, NothingFound
<1>3. \A c \in Cases : Fits(c)
  <2> SUFFICES ASSUME NEW c \in Cases PROVE Fits(c)
    OBVIOUS
  <2>1. /\ lookup[c] = "none" /\ unserved[c] = {} /\ found[c] = NothingFound
        /\ \A i \in Indices : found[c][i] = {}
    BY DEF Init, NothingFound
  <2> QED
    BY <2>1, FS_EmptySet, BudgetAssumption DEF Fits, ShownFits, BudgetFits, OrderFits, ChoicesFit
<1> QED
  BY <1>1, <1>2, <1>3 DEF Init, Inv, NoOwnPrecedent
-----------------------------------------------------------------------------
(* The court.                                                              *)

CourtStep == \E c \in Cases : Court!Submit(c) \/ Court!Appeal(c) \/ Court!Progress(c)

\* The court keeps the files in order and never changes a judgment.
LEMMA CourtKeeps ==
  ASSUME Inv, CourtStep \/ UNCHANGED courtVars
  PROVE  /\ CourtSteps!Types' /\ CourtSteps!FilesFit'
         /\ \A d \in Cases, v \in Revisions :
              judgments[d][v] # NoRuling => judgments'[d][v] = judgments[d][v]
<1>1. CourtSteps!Types /\ CourtSteps!FilesFit
  BY DEF Inv, TypeOK, CourtSteps!Types, Phases, CourtSteps!Phases, Revisions, Court!Revisions,
     CourtSteps!Revisions
<1>2. CASE UNCHANGED courtVars
  BY <1>1, <1>2 DEF courtVars, CourtSteps!Types, CourtSteps!FilesFit, CourtSteps!FileFits
<1>3. CASE CourtStep
  <2>1. PICK c \in Cases : Court!Submit(c) \/ Court!Appeal(c) \/ Court!Progress(c)
    BY <1>3 DEF CourtStep
  <2>2. CourtSteps!Court(c)
    BY <2>1 DEF CourtSteps!Court, Court!Submit, CourtSteps!Submit,
       Court!Progress, CourtSteps!Progress, Court!Appeal, CourtSteps!Appeal,
       Court!Prosecute, CourtSteps!Prosecute, Court!Defend, CourtSteps!Defend, Court!Fail, CourtSteps!Fail,
       Court!Uphold, CourtSteps!Uphold, Court!Sentence, CourtSteps!Sentence, Court!Rejudge, CourtSteps!Rejudge,
       Court!Move, CourtSteps!Move
  <2>3. CourtSteps!Types' /\ CourtSteps!FilesFit'
    BY <1>1, <2>2, CourtSteps!StepTyped, CourtSteps!StepFits, RulingAssumption
  <2>4. \/ judgments' = judgments
        \/ \E r \in Rulings, v \in Revisions :
             /\ judgments' = [judgments EXCEPT ![c] = [@ EXCEPT ![v] = r]]
             /\ judgments[c][v] = NoRuling
    <3>1. CASE \E r \in Rulings : Court!Sentence(c, r)
      BY <3>1, <1>1 DEF Court!Sentence, Court!Move, Revisions, Court!Revisions,
         CourtSteps!FilesFit, CourtSteps!FileFits
    <3>2. CASE \E r \in Rulings : Court!Rejudge(c, r)
      BY <3>2, <1>1 DEF Court!Rejudge, Court!Move, Revisions, Court!Revisions,
         CourtSteps!FilesFit, CourtSteps!FileFits
    <3> QED
      BY <2>1, <3>1, <3>2 DEF Court!Submit, Court!Progress, Court!Appeal, Court!Prosecute,
         Court!Defend, Court!Fail, Court!Uphold
  <2> QED
    BY <2>3, <2>4, <1>1 DEF CourtSteps!Types, Revisions, Court!Revisions, CourtSteps!Revisions
<1> QED
  BY <1>2, <1>3

\* What Remember keeps of a lookup.
LEMMA Remembered ==
  ASSUME TypeOK, Remember, NEW c \in Cases
  PROVE  /\ lookup'[c] = "none" => always'[c] = {} /\ ever'[c] = {}
         /\ lookup'[c] # "none" => always'[c] \subseteq Standing' /\ ever[c] \subseteq ever'[c]
         /\ lookup'[c] # "none" => Standing' \subseteq ever'[c]
         /\ lookup'[c] # "none" /\ lookup[c] # "none" => always'[c] \subseteq always[c]
BY DEF Remember, TypeOK

\* A lookup that a step leaves alone.
LEMMA AtRest ==
  ASSUME Inv, Remember, CourtStep \/ UNCHANGED courtVars, NEW c \in Cases,
         lookup'[c] = lookup[c], unserved'[c] = unserved[c],
         remaining'[c] = remaining[c], found'[c] = found[c]
  PROVE  Fits(c)'
<1>1. Fits(c) /\ TypeOK
  BY DEF Inv
<1>2. ShownFits(c)'
  <2>1. CASE lookup[c] = "none"
    BY <1>1, <2>1 DEF Fits, BudgetFits, ShownFits, NothingFound
  <2>2. CASE lookup[c] # "none"
    <3>1. ever[c] \subseteq ever'[c]
      BY <1>1, <2>2, Remembered
    <3>2. \A i \in Indices : \A x \in found[c][i] : x[1] \in Cases /\ x[2] \in Revisions
      BY <1>1 DEF TypeOK, Verdicts
    <3>3. ShownFits(c)
      BY <1>1 DEF Fits
    <3> QED
      BY <3>1, <3>2, <3>3, CourtKeeps DEF ShownFits
  <2> QED
    BY <2>1, <2>2
<1>3. Shown(c, Indices)' = Shown(c, Indices) /\ \A i : SpentBefore(c, i)' = SpentBefore(c, i)
  BY DEF Shown, SpentBefore
<1>4. BudgetFits(c)' /\ OrderFits(c)'
  BY <1>1, <1>3 DEF Fits, BudgetFits, OrderFits
<1>5. ChoicesFit(c)'
  BY <1>1, <1>3, Remembered DEF Fits, ChoicesFit, ChoiceIsRight
<1> QED
  BY <1>2, <1>4, <1>5 DEF Fits
-----------------------------------------------------------------------------
(* The steps of a lookup.                                                  *)

LEMMA EndFits ==
  ASSUME Inv, Remember, NEW c \in Cases, End(c)
  PROVE  Fits(c)'
<1>1. /\ lookup'[c] = "none" /\ unserved'[c] = {} /\ found'[c] = NothingFound
      /\ \A i \in Indices : found'[c][i] = {}
  BY DEF End, Inv, TypeOK, NothingFound
<1> QED
  BY <1>1, FS_EmptySet, BudgetAssumption DEF Fits, ShownFits, BudgetFits, OrderFits, ChoicesFit

LEMMA NothingShown ==
  ASSUME NEW c \in Cases, NEW S, S \subseteq Indices, \A i \in Indices : found[c][i] = {}
  PROVE  Shown(c, S) = {}
BY DEF Shown

LEMMA BeginFits ==
  ASSUME Inv, Remember, NEW c \in Cases, Begin(c)
  PROVE  Fits(c)'
<1>1. /\ lookup[c] = "none" /\ lookup'[c] = "reading" /\ unserved'[c] = Charges(c)
      /\ remaining'[c] = MAX_PRECEDENTS_PER_CASE
      /\ UNCHANGED <<courtVars, found>>
  BY DEF Begin, Inv, TypeOK
<1>2. found[c] = NothingFound /\ \A i \in Indices : found[c][i] = {}
  BY <1>1 DEF Inv, Fits, BudgetFits, NothingFound
<1>3. Shown(c, Indices)' = {}
  BY <1>1, <1>2 DEF Shown
<1>4. always'[c] \subseteq Standing'
  BY <1>1, Remembered DEF Inv
<1>5. ShownFits(c)' /\ OrderFits(c)' /\ ChoicesFit(c)'
  BY <1>1, <1>2, <1>4 DEF ShownFits, OrderFits, ChoicesFit
<1>6. BudgetFits(c)'
  BY <1>1, <1>2, <1>3, FS_EmptySet, BudgetAssumption DEF BudgetFits
<1> QED
  BY <1>5, <1>6 DEF Fits

LEMMA AskFits ==
  ASSUME Inv, Remember, NEW c \in Cases, Ask(c)
  PROVE  Fits(c)'
<1>1. /\ lookup[c] = "reading" /\ lookup'[c] = "asked"
      /\ unserved[c] = {} \/ remaining[c] = 0
      /\ UNCHANGED <<courtVars, unserved, remaining, found>>
  BY DEF Ask, Inv, TypeOK
<1>2. Fits(c) /\ TypeOK
  BY DEF Inv
<1>3. Shown(c, Indices)' = Shown(c, Indices) /\ \A i : SpentBefore(c, i)' = SpentBefore(c, i)
  BY <1>1 DEF Shown, SpentBefore
<1>4. /\ always'[c] \subseteq always[c] /\ always'[c] \subseteq Standing'
      /\ ever[c] \subseteq ever'[c]
  BY <1>1, <1>2, Remembered
<1>5. ShownFits(c)'
  BY <1>1, <1>2, <1>4 DEF Fits, ShownFits, courtVars
<1>6. BudgetFits(c)' /\ OrderFits(c)'
  BY <1>1, <1>2, <1>3 DEF Fits, BudgetFits, OrderFits
<1>7. ChoicesFit(c)'
  BY <1>1, <1>2, <1>3, <1>4 DEF Fits, ChoicesFit, ChoiceIsRight
<1> QED
  BY <1>5, <1>6, <1>7 DEF Fits

\* Verdicts of one case that stand at one moment agree.
LEMMA StandingAgree ==
  ASSUME Inv, NEW x \in Standing, NEW y \in Standing, x[1] = y[1]
  PROVE  judgments[x[1]][x[2]] = judgments[y[1]][y[2]]
<1>1. x[1] \in Cases /\ x[2] \in {0, 1} /\ y[2] \in {0, 1}
  BY DEF Standing, Verdicts, Revisions, Court!Revisions
<1>2. CourtSteps!FileFits(x[1])
  BY <1>1 DEF Inv, CourtSteps!FilesFit
<1> QED
  BY <1>1, <1>2 DEF Standing, CourtSteps!FileFits

LEMMA ElementOfSequence ==
  ASSUME NEW S, NEW s \in Seq(S), NEW i \in DOMAIN s
  PROVE  s[i] \in S
OBVIOUS

\* Charges come in one order.
LEMMA BeforeIsAnOrder ==
  ASSUME NEW c \in Cases, NEW i \in Charges(c), NEW j \in Charges(c), Before(c, i, j)
  PROVE  ~ Before(c, j, i)
<1>1. i \in Nat /\ j \in Nat
  BY ChargesAreFinite
<1>2. ChargesOf[c] \in Seq([rule : Rules, rank : Ranks])
  BY CasesAssumption
<1>3. ChargesOf[c][i].rank \in Nat /\ ChargesOf[c][j].rank \in Nat
  <2>1. /\ ChargesOf[c][i] \in [rule : Rules, rank : Ranks]
        /\ ChargesOf[c][j] \in [rule : Rules, rank : Ranks]
    BY <1>2, ElementOfSequence DEF Charges
  <2> QED
    BY <2>1 DEF Ranks
<1> QED
  BY <1>1, <1>3 DEF Before

\* What is shown of one more charge adds up.
LEMMA OneMoreCharge ==
  ASSUME NEW c \in Cases, NEW i \in Indices, NEW T \in SUBSET Verdicts,
         TypeOK, found[c][i] = {}, found' = [found EXCEPT ![c] = [@ EXCEPT ![i] = T]]
  PROVE  Cardinality(Shown(c, Indices)') = Cardinality(Shown(c, Indices)) + Cardinality(T)
<1>1. /\ found[c] \in [Indices -> SUBSET Verdicts] /\ found'[c][i] = T
      /\ \A j \in Indices \ {i} : found'[c][j] = found[c][j]
  BY DEF TypeOK
<1>2. Shown(c, Indices)' = Shown(c, Indices) \union ({i} \X T)
  BY <1>1 DEF Shown
<1>3. Shown(c, Indices) \intersect ({i} \X T) = {}
  BY DEF Shown
<1>4. IsFiniteSet({i}) /\ Cardinality({i}) = 1 /\ IsFiniteSet(T) /\ Cardinality(T) \in Nat
  BY FS_Singleton, SomeVerdicts
<1>5. IsFiniteSet({i} \X T) /\ Cardinality({i} \X T) = Cardinality(T)
  <2>1. IsFiniteSet({i} \X T) /\ Cardinality({i} \X T) = 1 * Cardinality(T)
    BY <1>4, FS_Product
  <2> QED
    BY <2>1, <1>4
<1>6. IsFiniteSet(Shown(c, Indices))
  <2>1. IsFiniteSet(Indices \X Verdicts)
    BY IndicesAreFinite, VerdictsAreFinite, FS_Product
  <2> QED
    BY <2>1, FS_Subset DEF Shown
<1>7. Cardinality(Shown(c, Indices) \union ({i} \X T)) =
        Cardinality(Shown(c, Indices)) + Cardinality({i} \X T)
          - Cardinality(Shown(c, Indices) \intersect ({i} \X T))
  BY <1>5, <1>6, FS_Union
<1>8. Cardinality(Shown(c, Indices) \intersect ({i} \X T)) = 0
  BY <1>3, FS_EmptySet
<1>9. Cardinality(Shown(c, Indices)) \in Nat
  BY <1>6, FS_CardinalityType
<1> QED
  BY <1>2, <1>4, <1>5, <1>7, <1>8, <1>9

LEMMA QueryFits ==
  ASSUME Inv, Remember, NEW c \in Cases, Query(c)
  PROVE  Fits(c)'
<1> USE DEF Inv
<1>0. Fits(c) /\ TypeOK
  OBVIOUS
<1>1. /\ lookup[c] = "reading" /\ remaining[c] > 0 /\ UNCHANGED <<courtVars, lookup>>
      /\ remaining[c] \in 0 .. MAX_PRECEDENTS_PER_CASE
  BY DEF Query, TypeOK
<1>2. PICK i \in unserved[c] :
        /\ \A j \in unserved[c] \ {i} : Before(c, i, j)
        /\ \E T \in Rows(c, i, Take(remaining[c])) :
             /\ found' = [found EXCEPT ![c] = [@ EXCEPT ![i] = T]]
             /\ remaining' = [remaining EXCEPT ![c] = @ - Cardinality(T)]
        /\ unserved' = [unserved EXCEPT ![c] = @ \ {i}]
  BY DEF Query
<1>3. PICK T \in Rows(c, i, Take(remaining[c])) :
        /\ found' = [found EXCEPT ![c] = [@ EXCEPT ![i] = T]]
        /\ remaining' = [remaining EXCEPT ![c] = @ - Cardinality(T)]
  BY <1>2
<1>4. i \in Charges(c) /\ i \in Indices /\ found[c][i] = {} /\ Charges(c) \subseteq Indices
  BY <1>0, <1>2 DEF Fits, OrderFits, Indices
<1>5. /\ Take(remaining[c]) \in Nat /\ Take(remaining[c]) <= remaining[c]
      /\ Take(remaining[c]) <= MAX_PRECEDENTS_PER_CHARGE
  BY <1>1, BudgetAssumption DEF Take, AtMost
<1>6. /\ T \subseteq Candidates(c, i) /\ T \subseteq Standing /\ T \subseteq Verdicts
      /\ IsFiniteSet(T) /\ Cardinality(T) \in 0 .. Take(remaining[c])
      /\ \A x \in T : x[1] # c
  BY <1>3, <1>5, RowsAreFew
<1>7. /\ found'[c][i] = T /\ \A j \in Indices \ {i} : found'[c][j] = found[c][j]
      /\ remaining'[c] = remaining[c] - Cardinality(T)
      /\ unserved'[c] = unserved[c] \ {i}
  BY <1>0, <1>2, <1>3, <1>4 DEF TypeOK
<1>8. /\ always'[c] \subseteq always[c] /\ always'[c] \subseteq Standing'
      /\ ever[c] \subseteq ever'[c] /\ Standing' \subseteq ever'[c] /\ Standing' = Standing
  BY <1>0, <1>1, Remembered DEF courtVars, Standing
<1>9. ShownFits(c)'
  <2>1. judgments' = judgments
    BY <1>1 DEF courtVars
  <2>2. ASSUME NEW x \in T
        PROVE  x[1] # c /\ x \in ever'[c] /\ judgments[x[1]][x[2]] # NoRuling
               /\ \A y \in T : x[1] = y[1] => judgments[x[1]][x[2]] = judgments[y[1]][y[2]]
    BY <1>6, <1>8, StandingAgree DEF Standing
  <2> QED
    BY <1>0, <1>7, <1>8, <2>1, <2>2 DEF Fits, ShownFits
<1>10. BudgetFits(c)'
  <2>1. Cardinality(Shown(c, Indices)') = Cardinality(Shown(c, Indices)) + Cardinality(T)
    BY <1>0, <1>3, <1>4, <1>6, OneMoreCharge
  <2>2. Cardinality(Shown(c, Indices)) + remaining[c] = MAX_PRECEDENTS_PER_CASE
    BY <1>0, <1>1 DEF Fits, BudgetFits
  <2>3. Cardinality(Shown(c, Indices)) \in Nat
    BY <2>2, <1>1, BudgetAssumption, IndicesAreFinite, VerdictsAreFinite, FS_Product, FS_Subset,
       FS_CardinalityType DEF Shown
  <2>4. Cardinality(Shown(c, Indices)') + remaining'[c] = MAX_PRECEDENTS_PER_CASE
    BY <2>1, <2>2, <2>3, <1>1, <1>6, <1>7
  <2>5. \A j \in Indices : Cardinality(found'[c][j]) <= MAX_PRECEDENTS_PER_CHARGE
    BY <1>0, <1>5, <1>6, <1>7, BudgetAssumption DEF Fits, BudgetFits
  <2> QED
    BY <2>4, <2>5, <1>1 DEF BudgetFits
<1>11. OrderFits(c)'
  BY <1>0, <1>1, <1>2, <1>4, <1>7 DEF Fits, OrderFits, TypeOK
<1>12. ASSUME NEW j \in Charges(c) \ unserved[c]
       PROVE  ChoiceIsRight(c, j)'
  <2>1. Before(c, j, i) /\ ~ Before(c, i, j)
    BY <1>0, <1>2, <1>4, BeforeIsAnOrder DEF Fits, OrderFits
  <2>2. found'[c][j] = found[c][j]
    BY <1>2, <1>4, <1>7
  <2>3. SpentBefore(c, j)' = SpentBefore(c, j)
    BY <2>1, <1>4, <1>7 DEF SpentBefore, Shown
  <2>4. ChoiceIsRight(c, j)
    BY <1>0, <1>1 DEF Fits, ChoicesFit
  <2> QED
    BY <2>2, <2>3, <2>4, <1>8 DEF ChoiceIsRight
<1>13. ChoiceIsRight(c, i)'
  <2>1. ~ Before(c, i, i)
    BY <1>4, BeforeIsAnOrder
  <2> DEFINE graver == {j \in Charges(c) : Before(c, j, i)}
  <2>2. graver = Charges(c) \ unserved[c]
    BY <1>0, <1>2, <1>4, <2>1, BeforeIsAnOrder DEF Fits, OrderFits
  <2>3. /\ i \notin graver /\ graver \subseteq Indices
        /\ \A j \in Indices \ graver : found[c][j] = {}
    BY <1>0, <1>4, <2>1, <2>2 DEF Fits, OrderFits
  <2>4. SpentBefore(c, i)' = Cardinality(Shown(c, Indices))
    <3> HIDE DEF graver
    <3>1. {p \in graver \X Verdicts : p[2] \in found'[c][p[1]]} = Shown(c, Indices)
      BY <1>7, <2>3 DEF Shown
    <3> QED
      BY <3>1 DEF SpentBefore, Shown, graver
  <2>5. MAX_PRECEDENTS_PER_CASE - SpentBefore(c, i)' = remaining[c]
    <3>1. Cardinality(Shown(c, Indices)) + remaining[c] = MAX_PRECEDENTS_PER_CASE
      BY <1>0, <1>1 DEF Fits, BudgetFits
    <3>2. Cardinality(Shown(c, Indices)) \in Nat
      BY IndicesAreFinite, VerdictsAreFinite, FS_Product, FS_Subset, FS_CardinalityType DEF Shown
    <3> QED
      BY <2>4, <3>1, <3>2, <1>1
  <2>6. ASSUME NEW y \in always'[c], y[1] # c, Rule(y) = ChargesOf[c][i].rule, y \notin T
        PROVE  Cardinality(T) = Take(remaining[c]) /\ \A x \in T : ~ Ahead(c, y, x)
    <3>1. y \in Candidates(c, i)
      BY <1>8, <2>6 DEF Candidates
    <3>2. \A x \in T : ~ Ahead(c, y, x)
      BY <1>3, <2>6, <3>1 DEF Rows
    <3>3. Candidates(c, i) \in SUBSET Verdicts
      BY DEF Candidates, Standing
    <3>4. /\ Cardinality(Candidates(c, i)) \in Nat
          /\ Cardinality(Candidates(c, i)) # Cardinality(T)
          /\ Cardinality(T) <= Cardinality(Candidates(c, i))
      BY <1>6, <2>6, <3>1, <3>3, SomeVerdicts, FS_Subset
    <3>5. Cardinality(T) = AtMost(Take(remaining[c]), Cardinality(Candidates(c, i)))
      BY <1>3 DEF Rows
    <3> QED
      BY <3>2, <3>4, <3>5, <1>5, <1>6 DEF AtMost
  <2> QED
    BY <1>7, <2>5, <2>6 DEF ChoiceIsRight, Take, Rule
<1>14. ChoicesFit(c)'
  BY <1>7, <1>8, <1>12, <1>13 DEF ChoicesFit
<1> QED
  BY <1>9, <1>10, <1>11, <1>14 DEF Fits
-----------------------------------------------------------------------------
(* The steps of a case.                                                    *)

\* Every other lookup is at rest.
LEMMA OthersAtRest ==
  ASSUME Inv, Remember, NEW c \in Cases, CourtStep \/ UNCHANGED courtVars,
         UNCHANGED lookupVars \/ Begin(c) \/ Query(c) \/ Ask(c) \/ End(c)
  PROVE  \A d \in Cases \ {c} : Fits(d)'
<1> SUFFICES ASSUME NEW d \in Cases \ {c} PROVE Fits(d)'
  OBVIOUS
<1>1. /\ lookup'[d] = lookup[d] /\ unserved'[d] = unserved[d]
      /\ remaining'[d] = remaining[d] /\ found'[d] = found[d]
  BY DEF lookupVars, Begin, Query, Ask, End, Inv, TypeOK
<1> QED
  BY <1>1, AtRest

\* What a lookup may write.
LEMMA LookupTypes ==
  ASSUME TypeOK, NEW c \in Cases,
         UNCHANGED lookupVars \/ Begin(c) \/ Query(c) \/ Ask(c) \/ End(c)
  PROVE  /\ lookup' \in [Cases -> {"none", "reading", "asked"}]
         /\ unserved' \in [Cases -> SUBSET Indices]
         /\ remaining' \in [Cases -> 0 .. MAX_PRECEDENTS_PER_CASE]
         /\ found' \in [Cases -> [Indices -> SUBSET Verdicts]]
<1> USE DEF TypeOK
<1>1. CASE UNCHANGED lookupVars
  BY <1>1 DEF lookupVars
<1>2. CASE Begin(c)
  <2>1. Charges(c) \in SUBSET Indices
    BY DEF Indices
  <2>2. MAX_PRECEDENTS_PER_CASE \in 0 .. MAX_PRECEDENTS_PER_CASE
    BY BudgetAssumption
  <2> QED
    BY <1>2, <2>1, <2>2 DEF Begin
<1>3. CASE Query(c)
  <2>1. PICK i \in unserved[c] : \E T \in Rows(c, i, Take(remaining[c])) :
          /\ found' = [found EXCEPT ![c] = [@ EXCEPT ![i] = T]]
          /\ remaining' = [remaining EXCEPT ![c] = @ - Cardinality(T)]
          /\ unserved' = [unserved EXCEPT ![c] = @ \ {i}]
    BY <1>3 DEF Query
  <2>2. PICK T \in Rows(c, i, Take(remaining[c])) :
          /\ found' = [found EXCEPT ![c] = [@ EXCEPT ![i] = T]]
          /\ remaining' = [remaining EXCEPT ![c] = @ - Cardinality(T)]
          /\ unserved' = [unserved EXCEPT ![c] = @ \ {i}]
    BY <2>1
  <2>3. remaining[c] \in 0 .. MAX_PRECEDENTS_PER_CASE
    OBVIOUS
  <2>4. Take(remaining[c]) \in Nat /\ Take(remaining[c]) <= remaining[c]
    BY <2>3, BudgetAssumption DEF Take, AtMost
  <2>5. T \in SUBSET Verdicts /\ Cardinality(T) \in 0 .. Take(remaining[c])
    BY <2>4, RowsAreFew
  <2>6. remaining[c] - Cardinality(T) \in 0 .. MAX_PRECEDENTS_PER_CASE
    BY <2>3, <2>4, <2>5, BudgetAssumption
  <2>7. lookup' = lookup
    BY <1>3 DEF Query
  <2> QED
    BY <2>2, <2>5, <2>6, <2>7
<1>4. CASE Ask(c)
  BY <1>4 DEF Ask
<1>5. CASE End(c)
  <2>1. 0 \in 0 .. MAX_PRECEDENTS_PER_CASE /\ NothingFound \in [Indices -> SUBSET Verdicts]
    BY BudgetAssumption DEF NothingFound
  <2> QED
    BY <1>5, <2>1 DEF End
<1> QED
  BY <1>1, <1>2, <1>3, <1>4, <1>5

\* The types and the lookups, whatever is cited.
LEMMA LookupKeeps ==
  ASSUME Inv, Remember, NEW c \in Cases, CourtStep \/ UNCHANGED courtVars,
         UNCHANGED lookupVars \/ Begin(c) \/ Query(c) \/ Ask(c) \/ End(c),
         cited' \in [Cases -> [Revisions -> SUBSET Cases]], NoOwnPrecedent'
  PROVE  Inv'
<1>1. Fits(c)'
  BY EndFits, BeginFits, QueryFits, AskFits, AtRest DEF lookupVars
<1>2. CourtSteps!Types' /\ CourtSteps!FilesFit'
  BY CourtKeeps
<1>3. always' \in [Cases -> SUBSET Verdicts] /\ ever' \in [Cases -> SUBSET Verdicts]
  <2>1. Standing' \subseteq Verdicts
    BY DEF Standing
  <2> QED
    BY <2>1 DEF Remember, Inv, TypeOK
<1>4. TypeOK'
  BY <1>2, <1>3, LookupTypes
  DEF Inv, TypeOK, CourtSteps!Types, Phases, CourtSteps!Phases, Revisions, Court!Revisions,
      CourtSteps!Revisions
<1> QED
  BY <1>1, <1>2, <1>4, OthersAtRest DEF Inv

LEMMA StepKeeps ==
  ASSUME Inv, Remember, Step
  PROVE  Inv'
<1> USE DEF Inv
<1>1. PICK c \in Cases : \/ Proceed(c) \/ Begin(c) \/ Query(c) \/ Ask(c) \/ Retry(c) \/ GiveUp(c)
                         \/ \E r \in Rulings : Judge(c, r)
  BY DEF Step
<1>2. CASE Proceed(c) \/ Begin(c) \/ Query(c) \/ Ask(c) \/ Retry(c) \/ GiveUp(c)
  <2>1. CourtStep \/ UNCHANGED courtVars
    BY <1>2 DEF Proceed, Begin, Query, Ask, Retry, GiveUp, CourtStep, Court!Progress
  <2>2. UNCHANGED lookupVars \/ Begin(c) \/ Query(c) \/ Ask(c) \/ End(c)
    BY <1>2 DEF Proceed, Retry, GiveUp
  <2>3. cited' = cited
    BY <1>2 DEF Proceed, Begin, Query, Ask, Retry, GiveUp
  <2>4. cited' \in [Cases -> [Revisions -> SUBSET Cases]] /\ NoOwnPrecedent'
    BY <2>3 DEF TypeOK, NoOwnPrecedent
  <2> QED
    BY <2>1, <2>2, <2>4, LookupKeeps
<1>3. ASSUME NEW r \in Rulings, Judge(c, r)
      PROVE  Inv'
  <2>1. CourtStep /\ End(c)
    BY <1>3 DEF Judge, CourtStep, Court!Progress
  <2> DEFINE shown == {x[1] : x \in UNION {found[c][i] : i \in Indices}}
  <2>2. PICK v \in Revisions : cited' = [cited EXCEPT ![c] = [@ EXCEPT ![v] = shown]]
    BY <1>3 DEF Judge, Cite, Revisions, Court!Revisions
  <2>3. shown \subseteq Cases /\ c \notin shown
    BY DEF TypeOK, Verdicts, Fits, ShownFits
  <2>4. cited' \in [Cases -> [Revisions -> SUBSET Cases]] /\ NoOwnPrecedent'
    <3> HIDE DEF shown
    <3> QED
      BY <2>2, <2>3 DEF TypeOK, NoOwnPrecedent
  <2> QED
    BY <2>1, <2>4, LookupKeeps
<1> QED
  BY <1>1, <1>2, <1>3

LEMMA NextKeeps == Inv /\ [Next]_vars => Inv'
<1> SUFFICES ASSUME Inv, [Next]_vars PROVE Inv'
  OBVIOUS
<1>1. CASE UNCHANGED vars
  <2>1. TypeOK' /\ NoOwnPrecedent' /\ CourtSteps!FilesFit'
    BY <1>1 DEF Inv, vars, TypeOK, NoOwnPrecedent, CourtSteps!FilesFit, CourtSteps!FileFits
  <2>2. \A c \in Cases : Fits(c)'
    <3> SUFFICES ASSUME NEW c \in Cases PROVE Fits(c)'
      OBVIOUS
    <3>1. /\ Shown(c, Indices)' = Shown(c, Indices) /\ Standing' = Standing
          /\ \A i : SpentBefore(c, i)' = SpentBefore(c, i)
      BY <1>1 DEF vars, Shown, SpentBefore, Standing
    <3>2. ShownFits(c)' /\ BudgetFits(c)' /\ OrderFits(c)'
      BY <1>1, <3>1 DEF Inv, vars, Fits, ShownFits, BudgetFits, OrderFits
    <3>3. ChoicesFit(c)'
      BY <1>1, <3>1 DEF Inv, vars, Fits, ChoicesFit, ChoiceIsRight
    <3> QED
      BY <3>2, <3>3 DEF Fits
  <2> QED
    BY <2>1, <2>2 DEF Inv
<1>2. CASE Next
  BY <1>2, StepKeeps DEF Next
<1> QED
  BY <1>1, <1>2

LEMMA InvHolds == Spec => []Inv
BY InitInv, NextKeeps, PTL DEF Spec
-----------------------------------------------------------------------------
(* What follows for the properties.                                        *)

LEMMA FoundFits ==
  ASSUME Inv
  PROVE  OverturnedLately /\ PrecedentsAgree /\ BudgetKept
<1>1. ASSUME NEW c \in Cases
      PROVE  Cardinality(Shown(c, Indices)) <= MAX_PRECEDENTS_PER_CASE
  <2>1. Cardinality(Shown(c, Indices)) \in Nat
    BY IndicesAreFinite, VerdictsAreFinite, FS_Product, FS_Subset, FS_CardinalityType DEF Shown
  <2>2. CASE lookup[c] = "none"
    <3>1. Shown(c, Indices) = {}
      BY <2>2, NothingShown DEF Inv, Fits, BudgetFits, NothingFound
    <3> QED
      BY <3>1, FS_EmptySet, BudgetAssumption
  <2>3. CASE lookup[c] # "none"
    <3>1. remaining[c] \in Nat /\ Cardinality(Shown(c, Indices)) + remaining[c] = MAX_PRECEDENTS_PER_CASE
      BY <2>3 DEF Inv, TypeOK, Fits, BudgetFits
    <3> QED
      BY <2>1, <3>1, BudgetAssumption
  <2> QED
    BY <2>2, <2>3
<1>2. BudgetKept
  BY <1>1 DEF Inv, Fits, BudgetFits, BudgetKept
<1>3. OverturnedLately /\ PrecedentsAgree
  BY DEF Inv, Fits, ShownFits, OverturnedLately, PrecedentsAgree
<1> QED
  BY <1>2, <1>3

\* A charge that was not served when the judge is asked found nothing because
\* the graver ones took the whole budget.
LEMMA UnservedAreRight ==
  ASSUME Inv, NEW c \in Cases, lookup[c] = "asked", NEW i \in unserved[c]
  PROVE  ChoiceIsRight(c, i)
<1>1. Fits(c) /\ TypeOK
  BY DEF Inv
<1>2. /\ remaining[c] = 0 /\ i \in Charges(c) /\ Charges(c) \subseteq Indices
      /\ found[c][i] = {}
  BY <1>1 DEF Fits, OrderFits, Indices
<1>3. Cardinality(Shown(c, Indices)) = MAX_PRECEDENTS_PER_CASE
  <2>1. Cardinality(Shown(c, Indices)) \in Nat
    BY IndicesAreFinite, VerdictsAreFinite, FS_Product, FS_Subset, FS_CardinalityType DEF Shown
  <2>2. Cardinality(Shown(c, Indices)) + remaining[c] = MAX_PRECEDENTS_PER_CASE
    BY <1>1 DEF Fits, BudgetFits
  <2> QED
    BY <1>2, <2>1, <2>2
<1> DEFINE graver == {j \in Charges(c) : Before(c, j, i)}
<1>4. \A j \in Indices \ graver : found[c][j] = {}
  BY <1>1, <1>2 DEF Fits, OrderFits
<1>5. SpentBefore(c, i) = MAX_PRECEDENTS_PER_CASE
  <2>1. Shown(c, graver) = Shown(c, Indices)
    BY <1>2, <1>4 DEF Shown
  <2> QED
    BY <1>3, <2>1 DEF SpentBefore
<1>6. Cardinality(found[c][i]) = AtMost(MAX_PRECEDENTS_PER_CHARGE, MAX_PRECEDENTS_PER_CASE - SpentBefore(c, i))
  BY <1>2, <1>5, FS_EmptySet, BudgetAssumption DEF AtMost
<1> QED
  BY <1>2, <1>6 DEF ChoiceIsRight

LEMMA ChoicesAreRight ==
  ASSUME Inv
  PROVE  NothingBetterLeftOut
<1> SUFFICES ASSUME NEW c \in Cases, lookup[c] = "asked", NEW i \in Charges(c)
             PROVE  ChoiceIsRight(c, i)
  BY DEF NothingBetterLeftOut, ChoiceIsRight
<1>1. CASE i \in unserved[c]
  BY <1>1, UnservedAreRight
<1>2. CASE i \notin unserved[c]
  BY <1>2 DEF Inv, Fits, ChoicesFit
<1> QED
  BY <1>1, <1>2

\* The variables keep their types, for any charges and budgets.
THEOREM PrecedentsTyped == Spec => []TypeOK
BY InvHolds, PTL DEF Inv

\* A judge is never shown more than the two budgets.
THEOREM BudgetsHold == Spec => []BudgetKept
BY InvHolds, FoundFits, PTL

\* Between the statements nothing that stood all the time is passed over for
\* something behind it.
THEOREM GravestAreServedFirst == Spec => []NothingBetterLeftOut
BY InvHolds, ChoicesAreRight, PTL

\* A precedent was good law when the lookup began or later.
THEOREM PrecedentsStood == Spec => []OverturnedLately
BY InvHolds, FoundFits, PTL

\* The verdicts of one case that are shown for one charge agree, although a
\* query may read both of its judgments while a rejudgment is committed.
THEOREM RevisionsAgree == Spec => []PrecedentsAgree
BY InvHolds, FoundFits, PTL

\* No case is judged by its own precedent.
THEOREM NobodyCitesItself == Spec => []NoOwnPrecedent
BY InvHolds, PTL DEF Inv
=============================================================================
