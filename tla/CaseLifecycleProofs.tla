------------------------ MODULE CaseLifecycleProofs ------------------------
(***************************************************************************)
(* What every step of the court does to a case, for any sets of cases and  *)
(* rulings.  The modules that compose with CaseLifecycle instantiate this  *)
(* one in their proofs.                                                    *)
(***************************************************************************)
EXTENDS CaseLifecycle, TLAPS

Phases == {"ABSENT", "prosecution", "defense", "judgment", "rejudgment",
           "SENTENCED", "DISMISSED", "FAILED"}

Types ==
  /\ phase \in [Cases -> Phases]
  /\ judgments \in [Cases -> [Revisions -> Rulings \union {NoRuling}]]
  /\ overturned \subseteq Cases
  /\ appealUsed \subseteq Cases
  /\ rejudgmentFailed \subseteq Cases

\* The rows that go with a phase: there is a judgment from the first sentence
\* on, an appeal comes before the second judgment, the first is overturned
\* exactly when the second differs, and a given-up rejudgment leaves none.
FileFits(c) ==
  /\ phase[c] \in {"SENTENCED", "rejudgment"} <=> judgments[c][0] # NoRuling
  /\ c \in appealUsed => judgments[c][0] # NoRuling
  /\ phase[c] = "rejudgment" => c \in appealUsed /\ judgments[c][1] = NoRuling
  /\ judgments[c][1] # NoRuling =>
       phase[c] = "SENTENCED" /\ c \in appealUsed
  /\ c \in overturned <=> judgments[c][1] \notin {NoRuling, judgments[c][0]}
  /\ c \in rejudgmentFailed =>
       phase[c] = "SENTENCED" /\ c \in appealUsed /\ judgments[c][1] = NoRuling

FilesFit == \A c \in Cases : FileFits(c)

LEMMA InitFits == Init => Types /\ FilesFit
BY DEF Init, Types, Phases, FilesFit, FileFits, Revisions

\* A step of one case leaves the files of the others alone.
Others(c) ==
  \A d \in Cases \ {c} :
    /\ phase'[d] = phase[d]
    /\ judgments'[d] = judgments[d]
    /\ d \in overturned' <=> d \in overturned
    /\ d \in appealUsed' <=> d \in appealUsed
    /\ d \in rejudgmentFailed' <=> d \in rejudgmentFailed

LEMMA OthersFit ==
  ASSUME FilesFit, NEW c \in Cases, Others(c), FileFits(c)'
  PROVE  FilesFit'
BY DEF FilesFit, FileFits, Others

\* The ways a case may go.
Court(c) == Submit(c) \/ Appeal(c) \/ Progress(c)

LEMMA StepTyped ==
  ASSUME Types, NEW c \in Cases, Court(c)
  PROVE  Types' /\ Others(c)
<1> USE DEF Types, Others, Phases, Move
<1>1. CASE Submit(c) \/ Appeal(c) \/ Prosecute(c) \/ Defend(c) \/ Fail(c) \/ Uphold(c)
  BY <1>1 DEF Submit, Appeal, Prosecute, Defend, Fail, Uphold
<1>2. ASSUME NEW r \in Rulings, Sentence(c, r) \/ Rejudge(c, r)
      PROVE  Types' /\ Others(c)
  <2>1. judgments' \in [Cases -> [Revisions -> Rulings \union {NoRuling}]]
    BY <1>2 DEF Sentence, Rejudge, Revisions
  <2> QED
    BY <1>2, <2>1 DEF Sentence, Rejudge
<1> QED
  BY <1>1, <1>2 DEF Court, Progress

LEMMA StepFits ==
  ASSUME NoRuling \notin Rulings, Types, FilesFit, NEW c \in Cases, Court(c)
  PROVE  FilesFit'
<1> SUFFICES FileFits(c)'
  BY StepTyped, OthersFit
<1>0. FileFits(c)
  BY DEF FilesFit
<1> USE <1>0 DEF Types, FileFits, Move
<1>1. CASE Submit(c) \/ Appeal(c) \/ Prosecute(c) \/ Defend(c) \/ Fail(c) \/ Uphold(c)
  BY <1>1 DEF Submit, Appeal, Prosecute, Defend, Fail, Uphold
<1>2. ASSUME NEW r \in Rulings, Sentence(c, r)
      PROVE  FileFits(c)'
  BY <1>2 DEF Sentence, Revisions
<1>3. ASSUME NEW r \in Rulings, Rejudge(c, r)
      PROVE  FileFits(c)'
  BY <1>3 DEF Rejudge, Revisions
<1> QED
  BY <1>1, <1>2, <1>3 DEF Court, Progress

\* Whatever the court does with a case, its rows fit its phase.
THEOREM FilesAlwaysFit ==
  ASSUME NoRuling \notin Rulings
  PROVE  Spec => [](Types /\ FilesFit)
<1>1. Types /\ FilesFit /\ [Next]_vars => (Types /\ FilesFit)'
  <2> SUFFICES ASSUME Types, FilesFit, [Next]_vars PROVE Types' /\ FilesFit'
    OBVIOUS
  <2>1. ASSUME NEW c \in Cases, Court(c) PROVE Types' /\ FilesFit'
    BY <2>1, StepTyped, StepFits
  <2>2. CASE UNCHANGED vars
    BY <2>2 DEF vars, Types, FilesFit, FileFits
  <2> QED
    BY <2>1, <2>2 DEF Next, Court
<1> QED
  BY InitFits, <1>1, PTL DEF Spec
-----------------------------------------------------------------------------
(* What the modules that compose with the court ask of a step.             *)

Trying == {"prosecution", "defense", "judgment", "rejudgment"}

\* A step of the court takes a case on trial to the next stage or to an end,
\* and adds to the judgments and nothing else.
LEMMA ProgressMoves ==
  ASSUME Types, NEW c \in Cases, Progress(c)
  PROVE  /\ phase[c] \in Trying
         /\ phase'[c] \in {"defense", "judgment", "SENTENCED", "DISMISSED", "FAILED"}
         /\ phase'[c] # phase[c]
         /\ phase[c] = "rejudgment" => phase'[c] = "SENTENCED"
         /\ appealUsed' = appealUsed
         /\ rejudgmentFailed \subseteq rejudgmentFailed'
         /\ phase[c] # "rejudgment" => rejudgmentFailed' = rejudgmentFailed
BY DEF Types, Progress, Prosecute, Defend, Fail, Uphold, Sentence, Rejudge, Move, Trying
=============================================================================
