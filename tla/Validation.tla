----------------------------- MODULE Validation -----------------------------
(***************************************************************************)
(* What validation.py makes of the provider's answers in one trial.  An    *)
(* answer is a list that a loop reads one item at a time, so one action    *)
(* reads one item, or ends a loop with what the function returns.  Reading *)
(* is a loop of a single process: nothing interferes with it.  What one    *)
(* stage validated the next one relies on: the charges, in their order,    *)
(* are the indices that pleas, verdicts and sentences refer to.            *)
(*                                                                         *)
(* An answer that cannot be used raises or asks for a retry; the loop then *)
(* starts again with the next answer.  How often is CasePipeline's matter. *)
(* Severities and efforts are their ranks, _SEVERITY_RANK, _EFFORT_RANK.   *)
(***************************************************************************)
EXTENDS Integers, Sequences, FiniteSets

CONSTANTS
  Rules,           \* the rule_ids of the catalog that are active and fit the language
  Default,         \* default_severity of each of them
  Typical,         \* typical_effort of each of them
  TotalLines,      \* lines of the submitted code
  MAX_CHARGES,     \* 12 in the code
  RawCharges, RawPleas, RawVerdicts, RawSentences, \* well-formed items
  MaxItems,        \* bound: the items of an answer, for each loop
  Unanswered       \* a charge index that no item has named

LOW == 1
MEDIUM == 2
HIGH == 3
Ranks == LOW .. HIGH
NoSeverity == 0    \* final_severity is None
PleaValues == {"ADMIT", "DENY", "NO_RESPONSE"}
VerdictValues == {"SUSTAINED", "REDUCED", "DISMISSED"}
Loops == {"charges", "pleas", "verdicts", "sentences"}

ASSUME CatalogAssumption == Default \in [Rules -> Ranks] /\ Typical \in [Rules -> Ranks]

ASSUME LengthsAssumption ==
  TotalLines \in Nat \ {0} /\ MAX_CHARGES \in Nat \ {0} /\ MaxItems \in [Loops -> Nat]

\* The fields the parsers require; reasoned is _is_valid_reason of the reason.
ASSUME ItemsAssumption ==
  /\ \A c \in RawCharges :
       /\ DOMAIN c = {"rule", "start", "end", "severity", "adjusted", "reasoned"}
       /\ c.start \in Int /\ c.end \in Int /\ c.severity \in Ranks
       /\ c.adjusted \in BOOLEAN /\ c.reasoned \in BOOLEAN
  /\ RawPleas \subseteq [index : Int, plea : PleaValues]
  /\ RawVerdicts \subseteq
       [index : Int, verdict : VerdictValues, severity : Ranks \union {NoSeverity}]
  /\ RawSentences \subseteq
       [index : Int, start : Int, end : Int, effort : Ranks,
        adjusted : BOOLEAN, reasoned : BOOLEAN]
  /\ \A n \in PleaValues : Unanswered # n
  /\ Unanswered \notin RawVerdicts

VARIABLES
  phase,      \* the loop that runs, or how the trial ended
  read,       \* items of the answer read so far
  charges,    \* survivors; once the loop has ended, the charge of index i at i + 1
  truncated,  \* charges_truncated
  pleas,      \* by_index, completed when the loop ends
  verdicts,   \* candidates, which are the verdicts once none is missing
  sentences

vars == <<phase, read, charges, truncated, pleas, verdicts, sentences>>

Phases == Loops \union {"DISMISSED", "SENTENCED"}
Charges == [rule : Rules, start : 1..TotalLines, end : 1..TotalLines,
            severity : Ranks, adjusted : BOOLEAN]
Indices == 0 .. Len(charges) - 1
Judged == phase \in {"sentences", "SENTENCED"}

TypeOK ==
  /\ phase \in Phases
  /\ read \in Nat
  /\ charges \in Seq(Charges)
  /\ truncated \in BOOLEAN
  /\ phase = "pleas" => pleas \in [Indices -> PleaValues \union {Unanswered}]
  /\ phase = "verdicts" \/ Judged => pleas \in [Indices -> PleaValues]
  /\ phase = "verdicts" => verdicts \in [Indices -> RawVerdicts \union {Unanswered}]
  /\ Judged => verdicts \in [Indices -> RawVerdicts]
  /\ sentences \in Seq([index : Indices, start : 1..TotalLines, end : 1..TotalLines,
                        effort : Ranks, clamped : BOOLEAN, advisory : BOOLEAN])
  /\ ~Judged => sentences = <<>>

None == [i \in {} |-> Unanswered]

Init ==
  /\ phase = "charges"
  /\ read = 0
  /\ charges = <<>>
  /\ truncated = FALSE
  /\ pleas = None
  /\ verdicts = None
  /\ sentences = <<>>

InRange(item) == 1 <= item.start /\ item.start <= item.end /\ item.end <= TotalLines
WithinOneStep(a, b) == a - b \in -1..1

NextItem(loop) == phase = loop /\ read < MaxItems[loop] /\ read' = read + 1

-----------------------------------------------------------------------------
(* validate_prosecution *)

Admissible(item) ==
  /\ item.rule \in Rules
  /\ InRange(item)
  /\ WithinOneStep(item.severity, Default[item.rule])

\* An adjustment without a proper reason is undone, the charge is kept.
Baseless(item) == item.adjusted /\ ~item.reasoned
AsCharged(item) ==
  [rule |-> item.rule, start |-> item.start, end |-> item.end,
   severity |-> IF Baseless(item) THEN Default[item.rule] ELSE item.severity,
   adjusted |-> item.adjusted /\ item.reasoned]

RepeatedWithSameEnd(item) ==
  \E k \in DOMAIN charges :
    charges[k].rule = item.rule /\ charges[k].start = item.start /\ charges[k].end = item.end
Repeated(item) ==
  \E k \in DOMAIN charges : charges[k].rule = item.rule /\ charges[k].start = item.start

ReadCharge(item) ==
  /\ NextItem("charges")
  /\ charges' = IF Admissible(item) /\ ~Repeated(item)
                  THEN Append(charges, AsCharged(item)) ELSE charges
  /\ UNCHANGED <<phase, truncated, pleas, verdicts, sentences>>

InGivenOrder(s) == {[k \in DOMAIN s |-> k]}
\* The stable order by severity, the gravest first: place k is taken by f[k].
GravestFirst(s) ==
  {f \in [DOMAIN s -> DOMAIN s] :
     \A j, k \in DOMAIN s : j < k =>
       \/ s[f[j]].severity > s[f[k]].severity
       \/ s[f[j]].severity = s[f[k]].severity /\ f[j] < f[k]}

Indictments(s) ==
  IF Len(s) > MAX_CHARGES
    THEN {[k \in 1..MAX_CHARGES |-> s[f[k]]] : f \in GravestFirst(s)}
    ELSE {s}

EndProsecution ==
  /\ phase = "charges"
  /\ charges' \in Indictments(charges)
  /\ truncated' = (Len(charges) > MAX_CHARGES)
  /\ read' = 0
  /\ IF charges = <<>>
       THEN phase' = "DISMISSED" /\ pleas' = None
       ELSE phase' = "pleas" /\ pleas' = [i \in 0 .. Len(charges') - 1 |-> Unanswered]
  /\ UNCHANGED <<verdicts, sentences>>

-----------------------------------------------------------------------------
(* validate_defense *)

\* Of the items that name an index the first one counts, whatever it says.
Counts(answers, item) == item.index \in Indices /\ answers[item.index] = Unanswered

ReadPlea(item) ==
  /\ NextItem("pleas")
  /\ pleas' = IF Counts(pleas, item)
                THEN [pleas EXCEPT ![item.index] = item.plea] ELSE pleas
  /\ UNCHANGED <<phase, charges, truncated, verdicts, sentences>>

Filled(answers) ==
  [i \in Indices |-> IF answers[i] = Unanswered THEN "NO_RESPONSE" ELSE answers[i]]

NothingSaid(answers) == \A i \in Indices : answers[i] = Unanswered
Silent(answers) == \A i \in Indices : Filled(answers)[i] = "NO_RESPONSE"

EndDefense ==
  /\ phase = "pleas"
  /\ ~Silent(pleas)
  /\ phase' = "verdicts"
  /\ read' = 0
  /\ pleas' = Filled(pleas)
  /\ verdicts' = [i \in Indices |-> Unanswered]
  /\ UNCHANGED <<charges, truncated, sentences>>

-----------------------------------------------------------------------------
(* validate_judgment, the same for a rejudgment: one without               *)
(* rebuttal_accepted is a retry before anything is read.                   *)

ReadVerdict(item) ==
  /\ NextItem("verdicts")
  /\ verdicts' = IF Counts(verdicts, item)
                   THEN [verdicts EXCEPT ![item.index] = item] ELSE verdicts
  /\ UNCHANGED <<phase, charges, truncated, pleas, sentences>>

\* _is_valid_verdict
Valid(item, charged) ==
  \/ item.verdict = "DISMISSED" /\ item.severity = NoSeverity
  \/ item.verdict = "SUSTAINED" /\ item.severity = charged
  \/ item.verdict = "REDUCED" /\ charged = HIGH /\ item.severity = MEDIUM
  \/ item.verdict = "REDUCED" /\ charged # HIGH /\ item.severity = LOW

Unmentioned == {i \in Indices : verdicts[i] = Unanswered}
Missing ==
  {i \in Indices : verdicts[i] = Unanswered \/ ~Valid(verdicts[i], charges[i + 1].severity)}

EndVerdicts ==
  /\ phase = "verdicts"
  /\ Missing = {}
  /\ phase' = "sentences"
  /\ read' = 0
  /\ UNCHANGED <<charges, truncated, pleas, verdicts, sentences>>

Sentenceable == {i \in Indices : verdicts[i].verdict \in {"SUSTAINED", "REDUCED"}}

AtMost(a, b) == IF a < b THEN a ELSE b
AtLeast(a, b) == IF a > b THEN a ELSE b

\* _clamp_effort
Clamp(effort, typical) ==
  AtMost(AtLeast(effort, AtLeast(LOW, typical - 1)), AtMost(HIGH, typical + 1))

Effort(item, typical) == IF Baseless(item) THEN typical ELSE Clamp(item.effort, typical)

AdvisoryWhenLow(i) == verdicts[i].severity = LOW /\ verdicts[i].verdict = "REDUCED"
Advisory(i) == charges[i + 1].severity = LOW /\ verdicts[i].verdict = "REDUCED"

AsSentenced(item) ==
  LET typical == Typical[charges[item.index + 1].rule]
  IN  [index |-> item.index, start |-> item.start, end |-> item.end,
       effort |-> Effort(item, typical),
       clamped |-> ~Baseless(item) /\ Effort(item, typical) # item.effort,
       advisory |-> Advisory(item.index)]

ReadSentence(item) ==
  /\ NextItem("sentences")
  /\ sentences' = IF item.index \in Sentenceable /\ InRange(item)
                    THEN Append(sentences, AsSentenced(item)) ELSE sentences
  /\ UNCHANGED <<phase, charges, truncated, pleas, verdicts>>

EndJudgment ==
  /\ phase = "sentences"
  /\ phase' = "SENTENCED"
  /\ read' = 0
  /\ UNCHANGED <<charges, truncated, pleas, verdicts, sentences>>

-----------------------------------------------------------------------------
(* An answer that leads to another attempt at its stage: an item is        *)
(* malformed, or the answer, read to its end, is silent or incomplete.     *)

RetryProsecution ==
  /\ phase = "charges"
  /\ read' = 0
  /\ charges' = <<>>
  /\ UNCHANGED <<phase, truncated, pleas, verdicts, sentences>>

RetryDefense ==
  /\ phase = "pleas"
  /\ read' = 0
  /\ pleas' = [i \in Indices |-> Unanswered]
  /\ UNCHANGED <<phase, charges, truncated, verdicts, sentences>>

RetryJudgment ==
  /\ phase \in {"verdicts", "sentences"}
  /\ phase' = "verdicts"
  /\ read' = 0
  /\ verdicts' = [i \in Indices |-> Unanswered]
  /\ sentences' = <<>>
  /\ UNCHANGED <<charges, truncated, pleas>>

Next ==
  \/ \E item \in RawCharges : ReadCharge(item)
  \/ EndProsecution
  \/ RetryProsecution
  \/ \E item \in RawPleas : ReadPlea(item)
  \/ EndDefense
  \/ RetryDefense
  \/ \E item \in RawVerdicts : ReadVerdict(item)
  \/ EndVerdicts
  \/ \E item \in RawSentences : ReadSentence(item)
  \/ EndJudgment
  \/ RetryJudgment

Spec == Init /\ [][Next]_vars

-----------------------------------------------------------------------------
(* Properties *)

\* An indictment names no place of a rule twice, although the duplicates may
\* differ in lines, severity and reason, has at most MAX_CHARGES charges, and
\* stays within one step of the catalog after adjustments were undone
\* (validate_prosecution).
ChargesAreSound ==
  /\ \A j, k \in DOMAIN charges :
       charges[j].rule = charges[k].rule /\ charges[j].start = charges[k].start => j = k
  /\ phase # "charges" => Len(charges) <= MAX_CHARGES
  /\ \A k \in DOMAIN charges :
       /\ charges[k].start <= charges[k].end
       /\ WithinOneStep(charges[k].severity, Default[charges[k].rule])

\* Charge j of s goes before charge k: it is graver, or as grave and said first.
GoesBefore(s, j, k) ==
  \/ s[j].severity > s[k].severity
  \/ s[j].severity = s[k].severity /\ j < k

\* The place of charge k of s by severity.
Place(s, k) == 1 + Cardinality({j \in DOMAIN s : GoesBefore(s, j, k)})

\* Truncation keeps the gravest charges, gravest first, in the provider's order
\* where they are equally grave: of all that survived, each one that fewer than
\* MAX_CHARGES go before is indicted, at its place.  An indictment that is not
\* truncated keeps the provider's order throughout (validate_prosecution's sort,
\* slice and re-index).
GravestKept ==
  [][phase = "charges" /\ phase' = "pleas" =>
       /\ Len(charges') = AtMost(Len(charges), MAX_CHARGES)
       /\ truncated' <=> Len(charges) > Len(charges')
       /\ \A k \in DOMAIN charges :
            LET place == IF truncated' THEN Place(charges, k) ELSE k
            IN  place <= MAX_CHARGES => charges'[place] = charges[k]]_vars

\* No trial reaches the judge undefended: some charge has a plea other than
\* NO_RESPONSE, filled in or answered (validate_defense's needs_retry).
DefenseSpeaks ==
  phase = "verdicts" \/ Judged => \E i \in Indices : pleas[i] \in {"ADMIT", "DENY"}

\* A judgment is never partial and never raises a severity: each charge is
\* sustained as charged, lowered by exactly one step with LOW as the floor, or
\* dismissed without a severity (validate_judgment's missing).
JudgmentIsComplete ==
  Judged =>
    \A i \in Indices :
      verdicts[i].severity =
        CASE verdicts[i].verdict = "SUSTAINED" -> charges[i + 1].severity
          [] verdicts[i].verdict = "REDUCED" -> AtLeast(LOW, charges[i + 1].severity - 1)
          [] verdicts[i].verdict = "DISMISSED" -> NoSeverity

\* A sentence belongs to a charge that stands, its effort is within one step of
\* the rule's, and it is advisory exactly when the reduction could not lower the
\* severity (validate_judgment's sentences).
SentencesFit ==
  \A k \in DOMAIN sentences :
    LET i == sentences[k].index
    IN  /\ verdicts[i].verdict # "DISMISSED"
        /\ WithinOneStep(sentences[k].effort, Typical[charges[i + 1].rule])
        /\ sentences[k].advisory <=>
             verdicts[i].verdict = "REDUCED" /\ verdicts[i].severity = charges[i + 1].severity
=============================================================================
