-------------------------- MODULE CaseReadsProofs --------------------------
(***************************************************************************)
(* Theorems of CaseReads, for any cases, requests, tasks and orders.       *)
(***************************************************************************)
EXTENDS CaseReads, TLAPS

\* What a step of the court does to the case.
CourtSteps == INSTANCE CaseLifecycleProofs
-----------------------------------------------------------------------------
(* The inductive invariant.                                                *)

WithCharges == {"defense", "judgment", "rejudgment", "SENTENCED"}
WithPleas == {"judgment", "rejudgment", "SENTENCED"}

\* Charges and pleas of a case are those of the stages behind it.
FilesOf(c) ==
  /\ phase[c] \in WithCharges => c \in charges
  /\ phase[c] \in WithPleas => c \in pleas
  /\ c \in pleas => c \in charges
  /\ phase[c] \in {"ABSENT", "prosecution", "DISMISSED"} => c \notin charges

\* What a row of case c, once read, promises of the statements after it.
Promise(row, c) ==
  /\ row \in Row
  /\ row.status \in WithCharges => c \in charges
  /\ row.status \in WithPleas => c \in pleas
  /\ row.status = "DISMISSED" => phase[c] = "DISMISSED"
  /\ row.status = "SENTENCED" => Judged(c, 0) /\ Judged(c, row.revision)
  /\ row.appealUsed \/ row.revision = 1 => c \in appealUsed

\* What the statements of detail q have read so far, of case c, which is at
\* step now.
DetailOf(v, c, now) ==
  LET row == v.rows[c]
      judged == now \in {"verdicts", "sentences", "appeal", "answered"}
  IN
    /\ now # "row" => Promise(row, c)
    /\ now \notin {"row", "charges"} =>
         /\ row.status \in WithCharges => c \in v.charges
         /\ row.status = "DISMISSED" => c \notin v.charges
    /\ now = "pleas" => c \in v.charges
    /\ IF now \in {"row", "charges", "pleas"}
         THEN c \notin v.pleas
         ELSE /\ row.status \in WithPleas => c \in v.pleas
              /\ c \in v.pleas => c \in v.charges
    /\ v.judgment[c] =
         IF judged /\ row.status = "SENTENCED" THEN row.revision ELSE NoRevision
    /\ v.verdicts[c] = IF judged /\ now # "verdicts" THEN v.judgment[c] ELSE NoRevision
    /\ now = "answered" => (row.appealUsed \/ row.revision = 1 => c \in v.appeal)

DetailFits(q) ==
  kind[q] = "detail" =>
    /\ step[q] \in {"row", "charges", "pleas", "judgment", "verdicts", "sentences",
                    "appeal", "answered"}
    /\ \E c \in Rows : about[q] = {c} /\ DetailOf(view[q], c, step[q])

\* The sentences that were counted are those of one judgment of each case,
\* and all of them if that is still the current one.
TotalFits(total, C) ==
  /\ \A x \in total : Judged(x[1], x[2])
  /\ \A x, y \in total : x[1] = y[1] => x[2] = y[2]
  /\ \A x \in total, y \in CurrentSentences(C) :
       x[1] = y[1] /\ x[2] = y[2] => y \in total

\* What ListIsCoherent says of the two counts.
CountsFit(total, done) ==
  /\ \A x, y \in total : x[1] = y[1] => x[2] = y[2]
  /\ \A x, y \in done : x[1] = y[1] => x[2] = y[2]
  /\ \A x \in total, y \in done :
       x[1] = y[1] => y \in total \/ (x[2] = 0 /\ y[2] = 1)

\* What the statements of a list of the cases C have read, before step now.
ListOf(v, C, now) ==
  LET past(S) == now \notin {"count", "cases"} \union S
      sentenced == {c \in C : v.rows[c] \in Row /\ v.rows[c].status = "SENTENCED"}
  IN
    /\ now = "cases" => v.count \subseteq Rows
    /\ now \in {"count", "cases"} => v.total = {} /\ v.done = {}
    /\ past({}) => v.count \subseteq C
    /\ past({}) => \A c \in C : Promise(v.rows[c], c)
    /\ past({"charges_count"}) => sentenced \subseteq v.charges
    /\ past({"charges_count", "sustained"}) => \A c \in sentenced : v.verdicts[c] # NoRevision
    /\ now = "sentence_done" => TotalFits(v.total, C)
    /\ now = "answered" => CountsFit(v.total, v.done)

ListFits(q) ==
  kind[q] = "list" =>
    /\ step[q] \in {"count", "cases", "charges_count", "sustained", "sentence_total",
                    "sentence_done", "answered"}
    /\ ListOf(view[q], about[q], step[q])

\* The boxes a detail has read, of the cases C: each is right by now, or a
\* toggle of its sentence is among the excused.
BoxesOf(v, C, excused) ==
  /\ v.done \subseteq v.total
  /\ \A x \in v.total :
       /\ x[1] \in C
       /\ x \notin excused => (x \in v.done <=> x \in completed)

BoxesFit(q) == kind[q] = "detail" => BoxesOf(view[q], about[q], crossed[q])

\* A toggle, from its request to its answer.
ToggleFits(q) ==
  LET x == target[q]
      v == view[q]
      first == Revision(x[1]) = 0
  IN
    IF kind[q] \in Toggles
      THEN /\ step[q] \in {"load", "commit", "progress_total", "progress_done", "answered"}
           /\ x \in SentencesOf(x[1]) /\ about[q] = {x[1]}
           /\ step[q] \notin {"load", "commit"} /\ x \notin crossed[q] =>
                (x \in completed <=> want[q])
           /\ step[q] \in {"progress_done", "answered"} =>
                x \in v.total /\ (first => v.total = CurrentSentences({x[1]}))
           /\ step[q] = "answered" =>
                /\ x \notin crossed[q] => (x \in v.done <=> want[q])
                /\ first => v.done \subseteq v.total
      ELSE x = NoSentence

RequestFits(q) ==
  /\ kind[q] = "none" <=> step[q] = "none"
  /\ kind[q] = "none" \/ step[q] \in {"row", "count", "load"} => view[q] = Unread
  /\ DetailFits(q) /\ BoxesFit(q) /\ ListFits(q) /\ ToggleFits(q)

\* Request q toggles sentence x, or is a detail that x may be in.
Concerns(q, x) == target[q] = x \/ (kind[q] = "detail" /\ x[1] \in about[q])

\* A request knows of the other toggles of the sentences it is about.
CrossingsKnown ==
  \A q, r \in Requests :
    q # r /\ target[r] # NoSentence /\ Concerns(q, target[r]) => target[r] \in crossed[q]

Inv ==
  /\ TypeOK /\ CourtSteps!FilesFit
  /\ \A c \in Cases : FilesOf(c)
  /\ \A q \in Requests : RequestFits(q)
  /\ CrossingsKnown /\ BoxesAgree

LEMMA InvGives == Inv => DetailIsCoherent /\ ListIsCoherent /\ ToggleIsCounted /\ BoxesAgree
<1> SUFFICES ASSUME Inv
             PROVE  DetailIsCoherent /\ ListIsCoherent /\ ToggleIsCounted /\ BoxesAgree
  OBVIOUS
<1>1. DetailIsCoherent
  <2> SUFFICES ASSUME NEW q \in Requests, kind[q] = "detail", step[q] = "answered",
                      NEW c \in Cases, about[q] = {c}, DetailOf(view[q], c, "answered")
               PROVE  LET row == view[q].rows[c] IN
                        /\ row.status \in WithCharges => c \in view[q].charges
                        /\ row.status \in WithPleas => c \in view[q].pleas
                        /\ row.status = "DISMISSED" => c \notin view[q].charges
                        /\ row.status = "SENTENCED" <=> view[q].judgment[c] # NoRevision
                        /\ row.status = "SENTENCED" => view[q].judgment[c] = row.revision
                        /\ view[q].verdicts[c] = view[q].judgment[c]
                        /\ c \in view[q].pleas \/ view[q].verdicts[c] # NoRevision
                             => c \in view[q].charges
                        /\ row.appealUsed \/ row.revision = 1 => c \in view[q].appeal
    BY DEF Inv, RequestFits, DetailFits, DetailIsCoherent, WithCharges, WithPleas, Rows
  <2> DEFINE row == view[q].rows[c]
  <2>1. row \in Row
    BY DEF DetailOf, Promise
  <2>2. row.revision # NoRevision
    BY <2>1, NothingAssumption DEF Row
  <2> QED
    BY <2>2 DEF DetailOf, WithCharges, WithPleas
<1>2. ListIsCoherent
  <2> SUFFICES ASSUME NEW q \in Requests, kind[q] = "list", step[q] = "answered",
                      ListFits(q)
               PROVE  /\ view[q].count \subseteq about[q]
                      /\ \A c \in about[q] :
                           LET total == {x \in view[q].total : x[1] = c}
                               done == {x \in view[q].done : x[1] = c}
                           IN /\ \A x, y \in total : x[2] = y[2]
                              /\ \A x, y \in done : x[2] = y[2]
                              /\ \/ done \subseteq total
                                 \/ \A x \in total, y \in done : x[2] = 0 /\ y[2] = 1
                              /\ view[q].rows[c].status = "SENTENCED" =>
                                   c \in view[q].charges /\ view[q].verdicts[c] # NoRevision
    BY DEF Inv, RequestFits, ListIsCoherent
  <2>1. view[q].count \subseteq about[q] /\ CountsFit(view[q].total, view[q].done)
    BY DEF ListFits, ListOf
  <2>2. ASSUME NEW c \in about[q], view[q].rows[c].status = "SENTENCED"
        PROVE  c \in view[q].charges /\ view[q].verdicts[c] # NoRevision
    BY <2>2 DEF ListFits, ListOf, Promise
  <2>3. ASSUME NEW c \in about[q],
               NEW x \in view[q].done, x[1] = c, x \notin view[q].total,
               NEW y \in view[q].total, y[1] = c, NEW z \in view[q].done, z[1] = c
        PROVE  y[2] = 0 /\ z[2] = 1
    BY <2>1, <2>3 DEF CountsFit
  <2> QED
    BY <2>1, <2>2, <2>3 DEF CountsFit
<1>3. ToggleIsCounted
  BY DEF Inv, RequestFits, ToggleFits, ToggleIsCounted
<1> QED
  BY <1>1, <1>2, <1>3 DEF Inv

LEMMA InitInv == Init => Inv
<1> SUFFICES ASSUME Init PROVE Inv
  OBVIOUS
<1>1. CourtSteps!Types /\ CourtSteps!FilesFit
  BY CourtSteps!InitFits DEF Init, Court!Init, CourtSteps!Init, Court!Revisions, CourtSteps!Revisions
<1>2. Unread \in Views
  BY DEF Unread, Views
<1>3. TypeOK
  BY <1>1, <1>2 DEF Init, TypeOK, CourtSteps!Types, CourtSteps!Phases, CourtSteps!Revisions,
     Phases, Revisions, Court!Revisions, Steps, Toggles
<1>4. \A c \in Cases : FilesOf(c)
  BY DEF Init, Court!Init, FilesOf, WithCharges, WithPleas
<1>5. \A q \in Requests : RequestFits(q)
  BY DEF Init, RequestFits, DetailFits, BoxesFit, ListFits, ToggleFits, Toggles
<1> QED
  BY <1>1, <1>3, <1>4, <1>5 DEF Init, Inv, CrossingsKnown, BoxesAgree
-----------------------------------------------------------------------------
(* Steps of the court.                                                     *)

CourtStep(c) == Court!Submit(c) \/ Court!Appeal(c) \/ Court!Progress(c)

\* The tables only grow, an ended case without a judgment stays as it is, and
\* the sentences of a case change with its judgments alone.
Grown ==
  /\ Rows \subseteq Rows'
  /\ charges \subseteq charges' /\ pleas \subseteq pleas' /\ appealUsed \subseteq appealUsed'
  /\ \A c \in Cases :
       /\ phase[c] = "DISMISSED" => phase'[c] = "DISMISSED"
       /\ \A v \in {0, 1} : judgments[c][v] # NoRuling => judgments'[c][v] = judgments[c][v]

LEMMA CourtGrows ==
  ASSUME Inv, NEW c \in Cases, Try(c) \/ Submit(c) \/ Appeal(c)
  PROVE  /\ CourtSteps!Types' /\ CourtSteps!FilesFit' /\ Grown
         /\ charges' \subseteq Cases /\ pleas' \subseteq Cases
         /\ \A d \in Cases : FilesOf(d)'
         /\ UNCHANGED <<completed, pageVars, requestVars>>
<1>0. UNCHANGED <<completed, pageVars, requestVars>>
  BY DEF Try, Submit, Appeal
<1>1. CourtSteps!Types /\ CourtSteps!FilesFit
  BY DEF Inv, TypeOK, CourtSteps!Types, Phases, CourtSteps!Phases, Revisions, Court!Revisions, CourtSteps!Revisions
<1>2. CourtSteps!Court(c)
  BY DEF Try, Submit, Appeal, CourtSteps!Court, Court!Submit, CourtSteps!Submit,
     Court!Progress, CourtSteps!Progress, Court!Appeal, CourtSteps!Appeal,
     Court!Prosecute, CourtSteps!Prosecute, Court!Defend, CourtSteps!Defend, Court!Fail, CourtSteps!Fail,
     Court!Uphold, CourtSteps!Uphold, Court!Sentence, CourtSteps!Sentence, Court!Rejudge, CourtSteps!Rejudge,
     Court!Move, CourtSteps!Move
<1>3. CourtSteps!Types' /\ CourtSteps!FilesFit' /\ CourtSteps!Others(c)
  BY <1>1, <1>2, CourtSteps!StepTyped, CourtSteps!StepFits, NothingAssumption
<1>4. /\ appealUsed \subseteq appealUsed'
      /\ phase[c] \notin {"DISMISSED", "FAILED"}
      /\ phase[c] = "SENTENCED" => phase'[c] = "rejudgment"
      /\ phase'[c] # "ABSENT"
      /\ phase[c] = "ABSENT" => phase'[c] = "prosecution"
      /\ phase[c] = "prosecution" => phase'[c] \in {"defense", "DISMISSED", "FAILED"}
      /\ phase[c] = "defense" => phase'[c] \in {"judgment", "FAILED"}
      /\ phase[c] = "judgment" => phase'[c] \in {"SENTENCED", "FAILED"}
      /\ phase[c] = "rejudgment" => phase'[c] = "SENTENCED"
  BY <1>1 DEF Try, Submit, Appeal, Court!Submit, Court!Progress, Court!Appeal, Court!Prosecute,
     Court!Defend, Court!Fail, Court!Uphold, Court!Sentence, Court!Rejudge, Court!Move,
     CourtSteps!Types
<1>5. \A v \in {0, 1} : judgments[c][v] # NoRuling => judgments'[c][v] = judgments[c][v]
  <2>1. CASE judgments' = judgments
    BY <2>1
  <2>2. ASSUME NEW r \in Rulings, Court!Sentence(c, r) \/ Court!Rejudge(c, r)
        PROVE  \A v \in {0, 1} : judgments[c][v] # NoRuling => judgments'[c][v] = judgments[c][v]
    BY <2>2, <1>1 DEF Court!Sentence, Court!Rejudge, Court!Move, CourtSteps!Types,
       CourtSteps!Revisions, CourtSteps!FilesFit, CourtSteps!FileFits
  <2> QED
    BY <2>1, <2>2 DEF Try, Submit, Appeal, Court!Submit, Court!Progress, Court!Appeal, Court!Prosecute,
       Court!Defend, Court!Fail, Court!Uphold
<1>6. /\ charges' = charges \/ (phase[c] = "prosecution" /\ phase'[c] = "defense" /\ charges' = charges \union {c})
      /\ pleas' = pleas \/ (phase[c] = "defense" /\ phase'[c] = "judgment" /\ pleas' = pleas \union {c})
      /\ phase[c] = "prosecution" /\ phase'[c] = "defense" => c \in charges'
      /\ phase[c] = "defense" /\ phase'[c] = "judgment" => c \in pleas'
  BY DEF Try, Submit, Appeal, fileVars, Court!Submit, Court!Appeal, Court!Move
<1>7. Grown
  BY <1>3, <1>4, <1>5, <1>6 DEF Grown, Rows, CourtSteps!Others
<1>8. FilesOf(c)'
  BY <1>1, <1>4, <1>6 DEF Inv, FilesOf, WithCharges, WithPleas, CourtSteps!Types, CourtSteps!Phases
<1>9. \A d \in Cases \ {c} : FilesOf(d)'
  BY <1>3, <1>6 DEF Inv, FilesOf, CourtSteps!Others
<1> QED
  BY <1>0, <1>3, <1>6, <1>7, <1>8, <1>9 DEF Inv, TypeOK

\* The sentences of the cases C, before and after a step.
LEMMA SentencesAre ==
  ASSUME NEW C
  PROVE  /\ SentencesOfAll(C) = {x \in SentenceIds :
              x[1] \in C /\ judgments[x[1]][x[2]] # NoRuling /\ x[3] \in Orders[x[2]]}
         /\ SentencesOfAll(C)' = {x \in SentenceIds :
              x[1] \in C /\ judgments'[x[1]][x[2]] # NoRuling /\ x[3] \in Orders[x[2]]}
BY DEF SentencesOfAll, SentencesOf, Judged

LEMMA CurrentAre ==
  ASSUME NEW C
  PROVE  /\ CurrentSentences(C) = {x \in SentenceIds :
              /\ x[1] \in C /\ judgments[x[1]][x[2]] # NoRuling /\ x[3] \in Orders[x[2]]
              /\ x[2] = Revision(x[1])}
         /\ CurrentSentences(C)' = {x \in SentenceIds :
              /\ x[1] \in C /\ judgments'[x[1]][x[2]] # NoRuling /\ x[3] \in Orders[x[2]]
              /\ x[2] = Revision(x[1])'}
BY SentencesAre DEF CurrentSentences

LEMMA SentenceParts ==
  ASSUME NEW x \in SentenceIds
  PROVE  x[1] \in Cases /\ x[2] \in {0, 1}
BY DEF SentenceIds, Revisions, Court!Revisions

LEMMA CourtKeeps ==
  ASSUME Inv, NEW c \in Cases, Try(c) \/ Submit(c) \/ Appeal(c)
  PROVE  Inv'
<1>0. /\ CourtSteps!Types' /\ CourtSteps!FilesFit' /\ Grown
      /\ charges' \subseteq Cases /\ pleas' \subseteq Cases
      /\ \A d \in Cases : FilesOf(d)'
      /\ UNCHANGED <<completed, pageVars, requestVars>>
  BY CourtGrows
<1>1. TypeOK'
  BY <1>0 DEF Inv, TypeOK, requestVars, pageVars, CourtSteps!Types, CourtSteps!Phases,
     CourtSteps!Revisions, Phases, Revisions, Court!Revisions
<1>2. \A d \in Cases, v \in {0, 1} : judgments[d][v] # NoRuling => judgments'[d][v] # NoRuling
  BY <1>0 DEF Grown
<1>3. ASSUME NEW row, NEW d \in Cases, Promise(row, d)
      PROVE  Promise(row, d)'
  BY <1>0, <1>2, <1>3 DEF Promise, Grown, Judged, Row, Revisions, Court!Revisions
<1>4. \A d \in Cases : Revision(d)' = 0 => Revision(d) = 0
  BY <1>2 DEF Revision
<1>5. ASSUME NEW q \in Requests
      PROVE  RequestFits(q)'
  <2> USE <1>0 DEF requestVars
  <2>0. RequestFits(q)
    BY DEF Inv
  <2>1. DetailFits(q)'
    <3>1. ASSUME NEW v, NEW d \in Cases, NEW now, DetailOf(v, d, now)
          PROVE  DetailOf(v, d, now)'
      BY <3>1, <1>3 DEF DetailOf
    <3> QED
      BY <2>0, <3>1 DEF RequestFits, DetailFits, Grown, Rows
  <2>2. ListFits(q)'
    <3>0. about[q] \subseteq Cases
      BY DEF Inv, TypeOK
    <3>1. ASSUME kind[q] = "list", step[q] = "sentence_done",
                 TotalFits(view[q].total, about[q])
          PROVE  TotalFits(view[q].total, about[q])'
      <4>1. view[q].total \subseteq SentenceIds
        BY DEF Inv, TypeOK, Views
      <4>2. \A x \in view[q].total : Judged(x[1], x[2])'
        BY <3>1, <4>1, <1>2, SentenceParts DEF TotalFits, Judged
      <4>3. ASSUME NEW x \in view[q].total, NEW y \in CurrentSentences(about[q])',
                   x[1] = y[1], x[2] = y[2]
            PROVE  y \in view[q].total
        <5>1. /\ y \in SentenceIds /\ y[1] \in about[q] /\ y[3] \in Orders[y[2]]
              /\ y[2] = Revision(y[1])'
          BY <4>3, CurrentAre
        <5>2. judgments[y[1]][y[2]] # NoRuling
          BY <3>1, <4>3 DEF TotalFits, Judged
        <5>3. y[2] = Revision(y[1])
          BY <5>1, <5>2, <1>2, SentenceParts DEF Revision
        <5> QED
          BY <5>1, <5>2, <5>3, <3>1, <4>3, CurrentAre DEF TotalFits
      <4> QED
        BY <3>1, <4>2, <4>3 DEF TotalFits
    <3>2. Rows \subseteq Rows'
      BY DEF Grown
    <3> QED
      BY <2>0, <3>0, <3>1, <3>2, <1>3 DEF RequestFits, ListFits, ListOf, CountsFit
  <2>3. ToggleFits(q)'
    <3>0. /\ target' = target /\ want' = want /\ view' = view /\ step' = step /\ kind' = kind
          /\ about' = about /\ crossed' = crossed
      OBVIOUS
    <3>1. CASE kind[q] \in Toggles
      <4> DEFINE x == target[q]
      <4>0. x \in SentenceIds /\ x[1] \in Cases /\ x[2] \in {0, 1} /\ x \in SentencesOf(x[1])
        BY <2>0, <3>1, SentenceParts DEF RequestFits, ToggleFits, SentencesOf
      <4>1. x \in SentencesOf(x[1])'
        BY <4>0, <1>2 DEF SentencesOf, Judged
      <4>2. ASSUME Revision(x[1])' = 0
            PROVE  Revision(x[1]) = 0 /\ CurrentSentences({x[1]})' = CurrentSentences({x[1]})
        <5>1. Revision(x[1]) = 0 /\ judgments[x[1]][1] = NoRuling /\ judgments'[x[1]][1] = NoRuling
          BY <4>0, <4>2, <1>4 DEF Revision
        <5>2. judgments[x[1]][0] # NoRuling /\ judgments'[x[1]][0] # NoRuling
          BY <4>0, <5>1, <1>2 DEF SentencesOf, Judged
        <5>3. ASSUME NEW y \in SentenceIds, y[1] = x[1]
              PROVE  judgments'[y[1]][y[2]] # NoRuling <=> judgments[y[1]][y[2]] # NoRuling
          BY <5>1, <5>2, <5>3, SentenceParts
        <5>4. ASSUME NEW y
              PROVE  y \in CurrentSentences({x[1]})' <=> y \in CurrentSentences({x[1]})
          <6>1. y \in CurrentSentences({x[1]}) <=>
                  /\ y \in SentenceIds /\ y[1] = x[1] /\ y[3] \in Orders[y[2]]
                  /\ judgments[y[1]][y[2]] # NoRuling /\ y[2] = Revision(y[1])
            BY CurrentAre
          <6>2. y \in CurrentSentences({x[1]})' <=>
                  /\ y \in SentenceIds /\ y[1] = x[1] /\ y[3] \in Orders[y[2]]
                  /\ judgments'[y[1]][y[2]] # NoRuling /\ y[2] = Revision(y[1])'
            BY CurrentAre
          <6>3. y[1] = x[1] => Revision(y[1])' = Revision(y[1])
            BY <5>1, <4>2
          <6> QED
            BY <6>1, <6>2, <6>3, <5>3
        <5> QED
          BY <5>1, <5>4
      <4>3. /\ step[q] \in {"load", "commit", "progress_total", "progress_done", "answered"}
            /\ about[q] = {x[1]}
            /\ step[q] \notin {"load", "commit"} /\ x \notin crossed[q] =>
                 (x \in completed <=> want[q])
            /\ step[q] \in {"progress_done", "answered"} =>
                 x \in view[q].total /\ (Revision(x[1]) = 0 => view[q].total = CurrentSentences({x[1]}))
            /\ step[q] = "answered" =>
                 /\ x \notin crossed[q] => (x \in view[q].done <=> want[q])
                 /\ Revision(x[1]) = 0 => view[q].done \subseteq view[q].total
        BY <2>0, <3>1 DEF RequestFits, ToggleFits
      <4> QED
        BY <3>0, <3>1, <4>1, <4>2, <4>3 DEF ToggleFits
    <3>2. CASE kind[q] \notin Toggles
      BY <2>0, <3>0, <3>2 DEF RequestFits, ToggleFits
    <3> QED
      BY <3>1, <3>2
  <2>4. BoxesFit(q)'
    BY <2>0 DEF RequestFits, BoxesFit, BoxesOf
  <2> QED
    BY <2>0, <2>1, <2>2, <2>3, <2>4 DEF RequestFits
<1>6. CrossingsKnown'
  BY <1>0 DEF Inv, CrossingsKnown, Concerns, requestVars
<1>7. BoxesAgree'
  BY <1>0 DEF Inv, BoxesAgree, Clicking, Toggling, requestVars, pageVars
<1> QED
  BY <1>0, <1>1, <1>5, <1>6, <1>7 DEF Inv
-----------------------------------------------------------------------------
(* Steps of the requests.                                                  *)

CourtRests == UNCHANGED <<courtVars, fileVars>>

\* A step of request q leaves the other requests alone.
OthersRest(q) ==
  \A r \in Requests \ {q} :
    /\ kind'[r] = kind[r] /\ about'[r] = about[r] /\ target'[r] = target[r]
    /\ want'[r] = want[r] /\ step'[r] = step[r] /\ view'[r] = view[r]

\* While the court rests, so does what is derived from its rows.
LEMMA RowsRest ==
  ASSUME CourtRests
  PROVE  /\ CourtSteps!FilesFit => CourtSteps!FilesFit'
         /\ \A c : FilesOf(c) <=> FilesOf(c)'
         /\ \A row, c : Promise(row, c) <=> Promise(row, c)'
         /\ Rows' = Rows
         /\ \A c : Revision(c)' = Revision(c)
         /\ \A c : SentencesOf(c)' = SentencesOf(c)
         /\ \A C : SentencesOfAll(C)' = SentencesOfAll(C)
         /\ \A C : CurrentSentences(C)' = CurrentSentences(C)
         /\ \A v, c, now : DetailOf(v, c, now) <=> DetailOf(v, c, now)'
         /\ \A v, C, now : ListOf(v, C, now) <=> ListOf(v, C, now)'
<1> USE DEF CourtRests, courtVars, fileVars
<1>1. CourtSteps!FilesFit => CourtSteps!FilesFit'
  BY DEF CourtSteps!FilesFit, CourtSteps!FileFits
<1>2. \A c : FilesOf(c) <=> FilesOf(c)'
  BY DEF FilesOf
<1>3. \A row, c : Promise(row, c) <=> Promise(row, c)'
  BY DEF Promise, Judged
<1>4. Rows' = Rows /\ \A c : Revision(c)' = Revision(c)
  BY DEF Rows, Revision
<1>9. \A c : SentencesOf(c)' = SentencesOf(c)
  BY DEF SentencesOf, Judged
<1>5. \A C : SentencesOfAll(C)' = SentencesOfAll(C)
  BY <1>9 DEF SentencesOfAll
<1>6. \A C : CurrentSentences(C)' = CurrentSentences(C)
  BY <1>4, <1>5 DEF CurrentSentences
<1>7. \A v, c, now : DetailOf(v, c, now) <=> DetailOf(v, c, now)'
  BY <1>3 DEF DetailOf
<1>8. \A total, C : TotalFits(total, C) <=> TotalFits(total, C)'
  BY <1>6 DEF TotalFits, Judged
<1>10. \A v, C, now : ListOf(v, C, now) <=> ListOf(v, C, now)'
  BY <1>3, <1>4, <1>8 DEF ListOf, CountsFit
<1> QED
  BY <1>1, <1>2, <1>3, <1>4, <1>5, <1>6, <1>7, <1>9, <1>10

\* What a step of q has to show.
LEMMA RequestStep ==
  ASSUME Inv, NEW q \in Requests, CourtRests, OthersRest(q), TypeOK', RequestFits(q)',
         \A r \in Requests \ {q} :
           /\ crossed[r] \subseteq crossed'[r]
           /\ \A x \in SentenceIds :
                Concerns(r, x) /\ x \notin crossed'[r] => (x \in completed' <=> x \in completed),
         CrossingsKnown', BoxesAgree'
  PROVE  Inv'
<1>1. ASSUME NEW r \in Requests \ {q}
      PROVE  RequestFits(r)'
  <2>0. RequestFits(r)
    BY DEF Inv
  <2> USE <2>0, RowsRest DEF OthersRest, RequestFits
  <2>1. DetailFits(r)'
    BY DEF DetailFits
  <2>2. ListFits(r)'
    BY DEF ListFits
  <2>3. ToggleFits(r)'
    <3> DEFINE x == target[r]
               now == step[r]
    <3>1. /\ target'[r] = x /\ kind'[r] = kind[r] /\ step'[r] = now /\ about'[r] = about[r]
          /\ view'[r] = view[r] /\ want'[r] = want[r]
      OBVIOUS
    <3>2. /\ SentencesOf(x[1])' = SentencesOf(x[1]) /\ Revision(x[1])' = Revision(x[1])
          /\ CurrentSentences({x[1]})' = CurrentSentences({x[1]})
      OBVIOUS
    <3>3. CASE kind[r] \in Toggles
      <4>1. x \in SentenceIds
        BY <3>3 DEF ToggleFits, SentencesOf
      <4>2. /\ crossed[r] \subseteq crossed'[r]
            /\ x \notin crossed'[r] => (x \in completed' <=> x \in completed)
        BY <4>1 DEF Concerns
      <4> QED
        BY <3>1, <3>2, <3>3, <4>2 DEF ToggleFits
    <3>4. CASE kind[r] \notin Toggles
      BY <3>1, <3>4 DEF ToggleFits
    <3> QED
      BY <3>3, <3>4
  <2>4. BoxesFit(r)'
    <3>1. kind'[r] = kind[r] /\ view'[r] = view[r] /\ about'[r] = about[r]
      OBVIOUS
    <3>2. CASE kind[r] = "detail"
      <4>1. view[r].total \subseteq SentenceIds
        BY DEF Inv, TypeOK, Views
      <4>2. /\ crossed[r] \subseteq crossed'[r]
            /\ \A x \in SentenceIds : x[1] \in about[r] /\ x \notin crossed'[r] =>
                 (x \in completed' <=> x \in completed)
        BY <3>2 DEF Concerns
      <4> QED
        BY <3>1, <3>2, <4>1, <4>2 DEF BoxesFit, BoxesOf
    <3> QED
      BY <3>1, <3>2 DEF BoxesFit
  <2> QED
    BY <2>1, <2>2, <2>3, <2>4
<1> QED
  BY <1>1, RowsRest DEF Inv

\* A step that only reads.
Reads(q) ==
  /\ CourtRests /\ OthersRest(q)
  /\ UNCHANGED <<completed, pageVars, kind, target, want, crossed>>
  /\ kind[q] = "list" \/ about'[q] = about[q]

LEMMA ReadStep ==
  ASSUME Inv, NEW q \in Requests, Reads(q), TypeOK', RequestFits(q)'
  PROVE  Inv'
<1>1. BoxesAgree'
  BY DEF Inv, Reads, BoxesAgree, Clicking, Toggling, pageVars
<1>2. CrossingsKnown'
  <2> SUFFICES ASSUME NEW p \in Requests, NEW r \in Requests,
                      p # r, target[r] # NoSentence, Concerns(p, target[r])'
               PROVE  target[r] \in crossed[p]
    BY DEF CrossingsKnown, Reads
  <2>1. Concerns(p, target[r])
    BY DEF Concerns, Reads, OthersRest
  <2> QED
    BY <2>1 DEF Inv, CrossingsKnown
<1> QED
  BY <1>1, <1>2, RequestStep DEF Reads

LEMMA ReadReads ==
  ASSUME Inv, NEW q \in Requests, NEW now, NEW v \in Views, NEW s \in Steps, Read(q, now, v, s),
         CourtRests, UNCHANGED <<completed, pageVars>>
  PROVE  /\ Reads(q) /\ TypeOK' /\ step[q] = now
         /\ view'[q] = v /\ step'[q] = s /\ kind' = kind /\ about' = about
<1>1. OthersRest(q)
  BY DEF Read, OthersRest, Inv, TypeOK
<1>2. view' \in [Requests -> Views] /\ step' \in [Requests -> Steps]
  BY DEF Read, Inv, TypeOK
<1>3. TypeOK'
  BY <1>2 DEF Read, Inv, TypeOK, CourtRests, courtVars, fileVars, pageVars
<1>4. view'[q] = v /\ step'[q] = s
  BY DEF Read, Inv, TypeOK
<1> QED
  BY <1>1, <1>3, <1>4 DEF Reads, Read

\* A statement of a detail.
LEMMA DetailStep ==
  ASSUME Inv, NEW q \in Requests, NEW now, NEW v \in Views,
         NEW s \in {"charges", "pleas", "judgment", "verdicts", "sentences", "appeal", "answered"},
         Read(q, now, v, s), CourtRests, UNCHANGED <<completed, pageVars>>,
         kind[q] = "detail",
         \A c \in Rows : about[q] = {c} /\ DetailOf(view[q], c, now) => DetailOf(v, c, s),
         BoxesOf(view[q], about[q], crossed[q]) => BoxesOf(v, about[q], crossed[q])
  PROVE  Inv'
<1>1. s \in Steps
  BY DEF Steps
<1>2. /\ Reads(q) /\ TypeOK' /\ step[q] = now
      /\ view'[q] = v /\ step'[q] = s /\ kind' = kind /\ about' = about
  BY <1>1, ReadReads
<1>3. RequestFits(q)
  BY DEF Inv
<1>4. DetailFits(q)'
  BY <1>2, <1>3, RowsRest DEF RequestFits, DetailFits
<1>5. ListFits(q)' /\ ToggleFits(q)'
  BY <1>2, <1>3 DEF RequestFits, ListFits, ToggleFits, Reads, Toggles
<1>6. BoxesFit(q)'
  BY <1>2, <1>3 DEF RequestFits, BoxesFit, BoxesOf, Reads
<1>7. RequestFits(q)'
  BY <1>2, <1>3, <1>4, <1>5, <1>6 DEF RequestFits
<1> QED
  BY <1>2, <1>7, ReadStep

\* What a row says, as it is read.
LEMMA RowPromises ==
  ASSUME Inv, NEW c \in Rows
  PROVE  Promise(RowOf(c), c) /\ RowOf(c) \in Row
<1>1. c \in Cases /\ phase[c] \in Phases /\ FilesOf(c) /\ CourtSteps!FileFits(c)
  BY DEF Inv, Rows, TypeOK, CourtSteps!FilesFit
<1>2. RowOf(c) \in Row
  BY <1>1 DEF RowOf, Row, Revision, Revisions, Court!Revisions
<1>3. RowOf(c).status = phase[c] /\ RowOf(c).revision = Revision(c)
      /\ RowOf(c).appealUsed = (c \in appealUsed)
  BY DEF RowOf
<1>4. phase[c] = "SENTENCED" => Judged(c, 0) /\ Judged(c, Revision(c))
  BY <1>1 DEF Judged, Revision, CourtSteps!FileFits
<1>5. Revision(c) = 1 => c \in appealUsed
  BY <1>1 DEF Revision, CourtSteps!FileFits
<1> QED
  BY <1>1, <1>2, <1>3, <1>4, <1>5 DEF Promise, FilesOf

\* What a statement of a detail of case c finds, and what it has to show.
LEMMA ServeDetailKeeps ==
  ASSUME Inv, NEW q \in Requests, CourtRests, UNCHANGED <<completed, pageVars>>,
         kind[q] = "detail", ServeDetail(q)
  PROVE  Inv'
<1> DEFINE V == view[q]
<1>1. PICK c \in Rows : about[q] = {c} /\ DetailOf(V, c, step[q])
  BY DEF Inv, RequestFits, DetailFits
<1>2. V \in Views /\ c \in Cases /\ FilesOf(c)
  BY DEF Inv, TypeOK, Rows
<1>3. ASSUME NEW now, NEW v \in Views,
             NEW s \in {"charges", "pleas", "judgment", "verdicts", "sentences", "appeal", "answered"},
             Read(q, now, v, s), DetailOf(V, c, now) => DetailOf(v, c, s),
             BoxesOf(V, {c}, crossed[q]) => BoxesOf(v, {c}, crossed[q])
      PROVE  Inv'
  BY <1>1, <1>3, DetailStep
<1>4. CASE ReadRow(q)
  <2> DEFINE v == [V EXCEPT !.rows = RowsOf(about[q])]
  <2>1. Promise(RowOf(c), c) /\ RowOf(c) \in Row
    BY RowPromises
  <2>2. v \in Views /\ v.rows[c] = RowOf(c)
    BY <1>1, <1>2, <2>1 DEF Views, RowsOf
  <2>3. /\ v.charges = V.charges /\ v.pleas = V.pleas /\ v.judgment = V.judgment
        /\ v.verdicts = V.verdicts /\ v.appeal = V.appeal /\ v.total = V.total /\ v.done = V.done
    BY <1>2 DEF Views
  <2>4. V = Unread
    BY <1>4 DEF ReadRow, Read, Inv, RequestFits
  <2>5. DetailOf(v, c, "charges")
    BY <1>2, <2>1, <2>2, <2>3, <2>4 DEF DetailOf, Unread
  <2>6. BoxesOf(V, {c}, crossed[q]) => BoxesOf(v, {c}, crossed[q])
    BY <2>3 DEF BoxesOf
  <2> QED
    BY <1>3, <1>4, <2>2, <2>5, <2>6 DEF ReadRow
<1>5. CASE ReadCharges(q)
  <2> DEFINE v == [V EXCEPT !.charges = about[q] \intersect charges]
             s == IF about[q] \intersect charges # {} THEN "pleas" ELSE "judgment"
  <2>1. v \in Views /\ (c \in v.charges <=> c \in charges)
    BY <1>1, <1>2 DEF Views
  <2>2. /\ v.rows = V.rows /\ v.pleas = V.pleas /\ v.judgment = V.judgment
        /\ v.verdicts = V.verdicts /\ v.appeal = V.appeal /\ v.total = V.total /\ v.done = V.done
    BY <1>2 DEF Views
  <2>3. s = IF c \in charges THEN "pleas" ELSE "judgment"
    BY <1>1
  <2>4. DetailOf(V, c, "charges") => DetailOf(v, c, s)
    BY <1>2, <2>1, <2>2, <2>3 DEF DetailOf, Promise, FilesOf, WithCharges, WithPleas
  <2>5. BoxesOf(V, {c}, crossed[q]) => BoxesOf(v, {c}, crossed[q])
    BY <2>2 DEF BoxesOf
  <2> QED
    BY <1>3, <1>5, <2>1, <2>3, <2>4, <2>5 DEF ReadCharges
<1>6. CASE ReadPleas(q)
  <2> DEFINE v == [V EXCEPT !.pleas = about[q] \intersect pleas]
  <2>1. v \in Views /\ (c \in v.pleas <=> c \in pleas)
    BY <1>1, <1>2 DEF Views
  <2>2. /\ v.rows = V.rows /\ v.charges = V.charges /\ v.judgment = V.judgment
        /\ v.verdicts = V.verdicts /\ v.appeal = V.appeal /\ v.total = V.total /\ v.done = V.done
    BY <1>2 DEF Views
  <2>3. DetailOf(V, c, "pleas") => DetailOf(v, c, "judgment")
    BY <1>2, <2>1, <2>2 DEF DetailOf, Promise, FilesOf, WithCharges, WithPleas
  <2>4. BoxesOf(V, {c}, crossed[q]) => BoxesOf(v, {c}, crossed[q])
    BY <2>2 DEF BoxesOf
  <2> QED
    BY <1>3, <1>6, <2>1, <2>3, <2>4 DEF ReadPleas
<1>7. CASE ReadJudgment(q)
  <2> DEFINE v == [V EXCEPT !.judgment = WantedJudgment(q)]
             s == IF \E d \in about[q] : WantedJudgment(q)[d] # NoRevision
                    THEN "verdicts" ELSE "appeal"
  <2>1. step[q] = "judgment" /\ V.rows[c].status = "SENTENCED"
    BY <1>1, <1>7 DEF ReadJudgment, Read, WantsJudgment
  <2>2. V.rows[c] \in Row /\ Judged(c, V.rows[c].revision)
    BY <1>1, <2>1 DEF DetailOf, Promise
  <2>3. WantedJudgment(q)[c] = V.rows[c].revision /\ V.rows[c].revision # NoRevision
    BY <1>1, <1>2, <2>2, NothingAssumption DEF WantedJudgment, Row
  <2>4. WantedJudgment(q) \in [Cases -> Revisions \union {NoRevision}]
    BY <1>1, <2>2 DEF WantedJudgment, Row
  <2>5. v \in Views /\ v.judgment[c] = V.rows[c].revision
    BY <1>2, <2>3, <2>4 DEF Views
  <2>6. /\ v.rows = V.rows /\ v.charges = V.charges /\ v.pleas = V.pleas
        /\ v.verdicts = V.verdicts /\ v.appeal = V.appeal /\ v.total = V.total /\ v.done = V.done
    BY <1>2 DEF Views
  <2>7. s = "verdicts"
    BY <1>1, <2>3
  <2>8. DetailOf(V, c, "judgment") => DetailOf(v, c, s)
    BY <1>2, <2>1, <2>5, <2>6, <2>7 DEF DetailOf
  <2>9. Read(q, "judgment", v, s)
    BY <1>7 DEF ReadJudgment
  <2>10. BoxesOf(V, {c}, crossed[q]) => BoxesOf(v, {c}, crossed[q])
    BY <2>6 DEF BoxesOf
  <2> HIDE DEF v, s
  <2> QED
    BY <1>3, <2>5, <2>7, <2>8, <2>9, <2>10
<1>8. CASE SkipJudgment(q)
  <2>1. V.rows[c].status # "SENTENCED"
    BY <1>1, <1>8 DEF SkipJudgment, WantsJudgment
  <2>2. DetailOf(V, c, "judgment") => DetailOf(V, c, "appeal")
    BY <2>1 DEF DetailOf
  <2> QED
    BY <1>2, <1>3, <1>8, <2>2 DEF SkipJudgment
<1>9. CASE ReadVerdicts(q)
  <2> DEFINE v == [V EXCEPT !.verdicts = V.judgment]
  <2>1. v \in Views /\ v.verdicts = V.judgment
    BY <1>2 DEF Views
  <2>2. /\ v.rows = V.rows /\ v.charges = V.charges /\ v.pleas = V.pleas
        /\ v.judgment = V.judgment /\ v.appeal = V.appeal /\ v.total = V.total /\ v.done = V.done
    BY <1>2 DEF Views
  <2>3. DetailOf(V, c, "verdicts") => DetailOf(v, c, "sentences")
    BY <2>1, <2>2 DEF DetailOf
  <2>4. BoxesOf(V, {c}, crossed[q]) => BoxesOf(v, {c}, crossed[q])
    BY <2>2 DEF BoxesOf
  <2> QED
    BY <1>3, <1>9, <2>1, <2>3, <2>4 DEF ReadVerdicts
<1>10. CASE ReadSentences(q)
  <2> DEFINE found == {x \in SentencesOfAll(about[q]) : x[2] = V.judgment[x[1]]}
             v == [V EXCEPT !.total = found, !.done = found \intersect completed]
  <2>0. \A x \in found : x \in SentenceIds /\ x[1] = c
    BY <1>1, SentencesAre
  <2>1. v \in Views /\ v.total = found /\ v.done = found \intersect completed
    BY <1>2, <2>0 DEF Views
  <2>2. /\ v.rows = V.rows /\ v.charges = V.charges /\ v.pleas = V.pleas
        /\ v.judgment = V.judgment /\ v.verdicts = V.verdicts /\ v.appeal = V.appeal
    BY <1>2 DEF Views
  <2>3. DetailOf(V, c, "sentences") => DetailOf(v, c, "appeal")
    BY <2>2 DEF DetailOf
  <2>4. Read(q, "sentences", v, "appeal")
    BY <1>10 DEF ReadSentences
  <2>5. BoxesOf(v, {c}, crossed[q])
    BY <2>0, <2>1 DEF BoxesOf
  <2> HIDE DEF v
  <2> QED
    BY <1>3, <2>1, <2>3, <2>4, <2>5
<1>11. CASE ReadAppeal(q)
  <2> DEFINE v == [V EXCEPT !.appeal = about[q] \intersect appealUsed]
  <2>1. v \in Views /\ (c \in v.appeal <=> c \in appealUsed)
    BY <1>1, <1>2 DEF Views
  <2>2. /\ v.rows = V.rows /\ v.charges = V.charges /\ v.pleas = V.pleas
        /\ v.judgment = V.judgment /\ v.verdicts = V.verdicts
        /\ v.total = V.total /\ v.done = V.done
    BY <1>2 DEF Views
  <2>3. DetailOf(V, c, "appeal") => DetailOf(v, c, "answered")
    BY <2>1, <2>2 DEF DetailOf, Promise
  <2>4. BoxesOf(V, {c}, crossed[q]) => BoxesOf(v, {c}, crossed[q])
    BY <2>2 DEF BoxesOf
  <2> QED
    BY <1>3, <1>11, <2>1, <2>3, <2>4 DEF ReadAppeal
<1> QED
  BY <1>4, <1>5, <1>6, <1>7, <1>8, <1>9, <1>10, <1>11 DEF ServeDetail

LEMMA ServeListKeeps ==
  ASSUME Inv, NEW q \in Requests, CourtRests, UNCHANGED <<completed, pageVars>>,
         kind[q] = "list", ServeList(q)
  PROVE  Inv'
<1> DEFINE V == view[q]
           C == about[q]
<1>1. V \in Views /\ C \subseteq Cases /\ ListOf(V, C, step[q])
  BY DEF Inv, TypeOK, RequestFits, ListFits
<1>2. ASSUME NEW now, NEW v \in Views,
             NEW s \in {"cases", "sustained", "sentence_total", "sentence_done", "answered"},
             Read(q, now, v, s), ListOf(V, C, now) => ListOf(v, C, s)
      PROVE  Inv'
  <2>1. /\ Reads(q) /\ TypeOK' /\ step[q] = now
        /\ view'[q] = v /\ step'[q] = s /\ kind' = kind /\ about' = about
    BY <1>2, ReadReads DEF Steps
  <2>2. ListFits(q)'
    BY <1>1, <1>2, <2>1, RowsRest DEF ListFits
  <2>3. DetailFits(q)' /\ BoxesFit(q)' /\ ToggleFits(q)'
    BY <2>1 DEF Inv, RequestFits, DetailFits, BoxesFit, ToggleFits, Toggles, Reads
  <2>4. RequestFits(q)'
    BY <1>2, <2>1, <2>2, <2>3 DEF RequestFits
  <2> QED
    BY <2>1, <2>4, ReadStep
<1>3. \A c \in C : c \in Cases /\ FilesOf(c)
  BY <1>1 DEF Inv
<1>4. CASE CountCases(q)
  <2> DEFINE v == [V EXCEPT !.count = Rows]
  <2>1. v \in Views /\ v.count = Rows /\ v.total = V.total /\ v.done = V.done
    BY <1>1 DEF Views, Rows
  <2>2. ListOf(V, C, "count") => ListOf(v, C, "cases")
    BY <2>1 DEF ListOf
  <2> QED
    BY <1>2, <1>4, <2>1, <2>2 DEF CountCases
<1>5. CASE ReadCases(q)
  <2> DEFINE v == [V EXCEPT !.rows = RowsOf(Rows)]
             s == IF Rows = {} THEN "answered" ELSE "charges_count"
  <2>1. /\ step[q] = "cases" /\ about'[q] = Rows /\ view'[q] = v /\ step'[q] = s
        /\ kind' = kind /\ target' = target /\ want' = want /\ crossed' = crossed
    BY <1>5 DEF ReadCases, Inv, TypeOK
  <2>2. \A c \in Rows : Promise(RowOf(c), c) /\ RowOf(c) \in Row
    BY RowPromises
  <2>3. RowsOf(Rows) \in [Cases -> Row \union {NoRow}]
    BY <2>2 DEF RowsOf
  <2>4. /\ v \in Views /\ v.count = V.count /\ v.total = V.total /\ v.done = V.done
        /\ v.rows = RowsOf(Rows)
    BY <1>1, <2>3 DEF Views
  <2>5. Rows \subseteq Cases /\ \A c \in Rows : v.rows[c] = RowOf(c)
    BY <2>4 DEF RowsOf, Rows
  <2>6. /\ about' = [about EXCEPT ![q] = Rows] /\ view' = [view EXCEPT ![q] = v]
        /\ step' = [step EXCEPT ![q] = s]
    BY <1>5 DEF ReadCases
  <2>7. TypeOK'
    <3>1. s \in Steps
      BY DEF Steps
    <3> HIDE DEF v, s
    <3> QED
      BY <2>1, <2>4, <2>5, <2>6, <3>1 DEF Inv, TypeOK, CourtRests, courtVars, fileVars, pageVars
  <2>8. OthersRest(q)
    BY <2>1, <2>6 DEF OthersRest, Inv, TypeOK
  <2>9. V.count \subseteq Rows /\ V.total = {} /\ V.done = {}
    BY <1>1, <2>1 DEF ListOf
  <2>10. ListFits(q)'
    <3>1. CASE Rows = {}
      <4>1. step'[q] = "answered" /\ ListOf(v, {}, "answered")
        BY <2>1, <2>4, <2>9, <3>1 DEF ListOf, CountsFit
      <4> QED
        BY <2>1, <3>1, <4>1, RowsRest DEF ListFits
    <3>2. CASE Rows # {}
      <4>1. step'[q] = "charges_count"
        BY <2>1, <3>2
      <4>2. ListOf(v, Rows, "charges_count")
        BY <2>2, <2>4, <2>5, <2>9 DEF ListOf
      <4> HIDE DEF v, s
      <4> QED
        BY <2>1, <4>1, <4>2, RowsRest DEF ListFits
    <3> QED
      BY <3>1, <3>2
  <2>11. RequestFits(q)'
    BY <2>1, <2>10 DEF RequestFits, DetailFits, BoxesFit, ToggleFits, Toggles, Inv
  <2> QED
    BY <2>1, <2>7, <2>8, <2>11, ReadStep DEF Reads
<1>6. CASE CountCharges(q)
  <2> DEFINE v == [V EXCEPT !.charges = C \intersect charges]
  <2>1. v \in Views /\ v.charges = C \intersect charges /\ v.rows = V.rows /\ v.count = V.count
    BY <1>1 DEF Views
  <2>2. ListOf(V, C, "charges_count") => ListOf(v, C, "sustained")
    BY <2>1 DEF ListOf, Promise, WithCharges
  <2> QED
    BY <1>2, <1>6, <2>1, <2>2 DEF CountCharges
<1>7. CASE CountSustained(q)
  <2> DEFINE v == [V EXCEPT !.verdicts = CurrentJudgment(q)]
  <2>1. CurrentJudgment(q) \in [Cases -> Revisions \union {NoRevision}]
    BY DEF CurrentJudgment, Revision, Revisions, Court!Revisions
  <2>2. /\ v \in Views /\ v.verdicts = CurrentJudgment(q)
        /\ v.rows = V.rows /\ v.count = V.count /\ v.charges = V.charges
    BY <1>1, <2>1 DEF Views
  <2>3. ASSUME NEW c \in C, Judged(c, 0)
        PROVE  CurrentJudgment(q)[c] # NoRevision
    BY <1>1, <2>3, NothingAssumption DEF CurrentJudgment, Judged, Revision, Revisions, Court!Revisions
  <2>4. ListOf(V, C, "sustained") => ListOf(v, C, "sentence_total")
    BY <2>2, <2>3 DEF ListOf, Promise
  <2> QED
    BY <1>2, <1>7, <2>2, <2>4 DEF CountSustained
<1>8. CASE CountSentences(q)
  <2> DEFINE v == [V EXCEPT !.total = CurrentSentences(C)]
  <2>1. CurrentSentences(C) \subseteq SentenceIds
    BY CurrentAre
  <2>2. /\ v \in Views /\ v.total = CurrentSentences(C) /\ v.verdicts = V.verdicts
        /\ v.rows = V.rows /\ v.count = V.count /\ v.charges = V.charges
    BY <1>1, <2>1 DEF Views
  <2>3. TotalFits(CurrentSentences(C), C)
    BY CurrentAre DEF TotalFits, Judged
  <2>4. ListOf(V, C, "sentence_total") => ListOf(v, C, "sentence_done")
    BY <2>2, <2>3 DEF ListOf
  <2> QED
    BY <1>2, <1>8, <2>2, <2>4 DEF CountSentences
<1>9. CASE CountDone(q)
  <2> DEFINE done == CurrentSentences(C) \intersect completed
             v == [V EXCEPT !.done = done]
  <2>1. done \subseteq SentenceIds
    BY CurrentAre
  <2>2. /\ v \in Views /\ v.done = done /\ v.total = V.total /\ v.verdicts = V.verdicts
        /\ v.rows = V.rows /\ v.count = V.count /\ v.charges = V.charges
    BY <1>1, <2>1 DEF Views
  <2>3. ASSUME TotalFits(V.total, C)
        PROVE  CountsFit(V.total, done)
    <3>1. \A x, y \in V.total : x[1] = y[1] => x[2] = y[2]
      BY <2>3 DEF TotalFits
    <3>2. \A x, y \in done : x[1] = y[1] => x[2] = y[2]
      BY CurrentAre
    <3>3. ASSUME NEW x \in V.total, NEW y \in done, x[1] = y[1], y \notin V.total
          PROVE  x[2] = 0 /\ y[2] = 1
      <4>1. x \in SentenceIds /\ y \in SentenceIds /\ y \in CurrentSentences(C) /\ y[2] = Revision(y[1])
        BY <1>1, CurrentAre DEF Views
      <4>2. x[2] # y[2] /\ judgments[x[1]][x[2]] # NoRuling
        BY <2>3, <3>3, <4>1 DEF TotalFits, Judged
      <4> QED
        BY <3>3, <4>1, <4>2, SentenceParts DEF Revision
    <3> QED
      BY <3>1, <3>2, <3>3 DEF CountsFit
  <2>4. ListOf(V, C, "sentence_done") => ListOf(v, C, "answered")
    BY <2>2, <2>3 DEF ListOf
  <2> QED
    BY <1>2, <1>9, <2>2, <2>4 DEF CountDone
<1> QED
  BY <1>4, <1>5, <1>6, <1>7, <1>8, <1>9 DEF ServeList

\* A request that is closed; the places it leaves are those of one never sent.
Closes(q) ==
  /\ Close(q) /\ CourtRests /\ completed' = completed
  /\ shown' \subseteq SentenceIds /\ ticked' \subseteq shown' /\ unsure' \subseteq SentenceIds

LEMMA ClosingKeeps ==
  ASSUME Inv, NEW q \in Requests, Closes(q), BoxesAgree'
  PROVE  Inv'
<1>1. /\ OthersRest(q)
      /\ \A r \in Requests \ {q} : crossed'[r] = crossed[r]
  BY DEF Closes, Close, OthersRest, Inv, TypeOK
<1>2. /\ kind'[q] = "none" /\ about'[q] = {} /\ target'[q] = NoSentence /\ step'[q] = "none"
      /\ view'[q] = Unread
  BY DEF Closes, Close, Inv, TypeOK
<1>3. Unread \in Views
  BY DEF Unread, Views
<1>4. TypeOK'
  BY <1>3 DEF Inv, TypeOK, Steps, Toggles, Closes, Close, CourtRests, courtVars, fileVars
<1>5. RequestFits(q)'
  BY <1>2 DEF RequestFits, DetailFits, BoxesFit, ListFits, ToggleFits, Toggles
<1>6. CrossingsKnown'
  <2> SUFFICES ASSUME NEW p \in Requests, NEW r \in Requests,
                      p # r, target'[r] # NoSentence, Concerns(p, target[r])'
               PROVE  target'[r] \in crossed'[p]
    BY DEF CrossingsKnown
  <2>1. p # q /\ r # q
    BY <1>2 DEF Concerns
  <2>2. target'[r] = target[r] /\ crossed'[p] = crossed[p] /\ Concerns(p, target[r])
    BY <1>1, <2>1 DEF OthersRest, Concerns
  <2> QED
    BY <2>2 DEF Inv, CrossingsKnown
<1> QED
  BY <1>1, <1>4, <1>5, <1>6, RequestStep DEF Closes

\* Once q is closed, the clicks on a box are those of the others.
LEMMA ClicksLeft ==
  ASSUME Inv, NEW q \in Requests, Close(q), NEW x \in SentenceIds
  PROVE  Clicking(x)' = Clicking(x) \ {q}
BY NothingAssumption DEF Close, Clicking, Toggling, Inv, TypeOK, SentenceIds

LEMMA ShowKeeps ==
  ASSUME Inv, NEW q \in Requests, CourtRests, completed' = completed, Show(q)
  PROVE  Inv'
<1> DEFINE V == view[q]
<1>1. kind[q] = "detail" /\ Close(q)
  BY DEF Show, Answered
<1>2. /\ V.done \subseteq V.total /\ V.total \subseteq SentenceIds
      /\ \A x \in V.total :
           x[1] \in about[q] /\ (x \notin crossed[q] => (x \in V.done <=> x \in completed))
  BY <1>1 DEF Inv, TypeOK, Views, RequestFits, BoxesFit, BoxesOf
<1>3. BoxesAgree'
  <2> SUFFICES ASSUME NEW x \in shown', x \notin unsure', Clicking(x)' = {}
               PROVE  x \in ticked' <=> x \in completed
    BY DEF BoxesAgree
  <2>1. CASE x \in V.total
    BY <1>2, <2>1 DEF Show
  <2>2. CASE x \notin V.total
    <3>1. x \in shown /\ x[1] \notin about[q] /\ x \notin unsure
      BY <1>2, <2>2 DEF Show
    <3>2. Clicking(x) = {}
      BY <1>1, <3>1, ClicksLeft DEF Clicking, Inv, TypeOK
    <3>3. x \in ticked' <=> x \in ticked
      BY <1>2, <2>2, <3>1 DEF Show
    <3> QED
      BY <3>1, <3>2, <3>3 DEF Inv, BoxesAgree
  <2> QED
    BY <2>1, <2>2
<1>4. /\ shown' \subseteq SentenceIds /\ ticked' \subseteq shown' /\ unsure' \subseteq SentenceIds
  BY <1>2 DEF Show, Inv, TypeOK
<1> QED
  BY <1>1, <1>3, <1>4, ClosingKeeps DEF Closes

LEMMA ShowBoxKeeps ==
  ASSUME Inv, NEW q \in Requests, CourtRests, completed' = completed, ShowBox(q)
  PROVE  Inv'
<1>1. /\ target[q] \in SentenceIds /\ Close(q) /\ shown' = shown
      /\ target[q] \notin crossed[q] => (target[q] \in completed <=> want[q])
  BY DEF ShowBox, Answered, Inv, RequestFits, ToggleFits, Toggles, SentencesOf
<1>2. BoxesAgree'
  <2> SUFFICES ASSUME NEW x \in shown, x \notin unsure', Clicking(x)' = {}
               PROVE  x \in ticked' <=> x \in completed
    BY <1>1 DEF BoxesAgree
  <2>1. CASE x = target[q]
    BY <1>1, <2>1 DEF ShowBox
  <2>2. CASE x # target[q]
    <3>1. Clicking(x) = {}
      BY <1>1, <2>2, ClicksLeft DEF Clicking, Toggling, Inv, TypeOK
    <3> QED
      BY <2>2, <3>1 DEF ShowBox, Inv, BoxesAgree
  <2> QED
    BY <2>1, <2>2
<1>3. Closes(q)
  BY <1>1 DEF Closes, ShowBox, Inv, TypeOK
<1> QED
  BY <1>2, <1>3, ClosingKeeps

LEMMA DoneKeeps ==
  ASSUME Inv, NEW q \in Requests, CourtRests, completed' = completed, Done(q)
  PROVE  Inv'
<1>1. Close(q) /\ kind[q] # "click" /\ UNCHANGED pageVars
  BY DEF Done, Answered
<1>2. BoxesAgree'
  BY <1>1, ClicksLeft DEF Inv, TypeOK, BoxesAgree, Clicking, pageVars
<1>3. Closes(q)
  BY <1>1 DEF Closes, Inv, TypeOK, pageVars
<1> QED
  BY <1>2, <1>3, ClosingKeeps

LEMMA LoseKeeps ==
  ASSUME Inv, NEW q \in Requests, CourtRests, completed' = completed, Lose(q)
  PROVE  Inv'
<1>1. /\ Close(q) /\ shown' = shown /\ ticked' = ticked /\ unsure \subseteq unsure'
      /\ kind[q] = "click" => target[q] \in SentenceIds /\ target[q] \in unsure'
      /\ unsure' \subseteq unsure \union {target[q]} /\ (kind[q] # "click" => unsure' = unsure)
  BY DEF Lose, Inv, RequestFits, ToggleFits, Toggles, SentencesOf
<1>2. BoxesAgree'
  <2> SUFFICES ASSUME NEW x \in shown, x \notin unsure', Clicking(x)' = {}
               PROVE  x \in ticked <=> x \in completed
    BY <1>1 DEF BoxesAgree
  <2>1. Clicking(x) = {}
    BY <1>1, ClicksLeft DEF Clicking, Toggling, Inv, TypeOK
  <2> QED
    BY <1>1, <2>1 DEF Inv, BoxesAgree
<1>3. Closes(q)
  BY <1>1 DEF Closes, Inv, TypeOK
<1> QED
  BY <1>2, <1>3, ClosingKeeps

LEMMA GetCaseKeeps ==
  ASSUME Inv, NEW q \in Requests, CourtRests, UNCHANGED <<completed, pageVars>>,
         NEW c \in Cases, GetCase(q, c)
  PROVE  Inv'
<1>1. /\ c \in Rows /\ view[q] = Unread /\ target[q] = NoSentence
      /\ kind'[q] = "detail" /\ about'[q] = {c} /\ step'[q] = "row" /\ view' = view
      /\ target' = target /\ want' = want
      /\ crossed'[q] = {x \in SentenceIds : x[1] = c /\ Toggling(x) # {}}
      /\ \A r \in Requests \ {q} : crossed'[r] = crossed[r]
  BY DEF GetCase, Begin, Inv, TypeOK, RequestFits, ToggleFits, Toggles
<1>2. OthersRest(q)
  BY DEF GetCase, Begin, OthersRest, Inv, TypeOK
<1>3. TypeOK'
  BY DEF GetCase, Begin, Inv, TypeOK, Steps, Toggles, Rows, CourtRests, courtVars, fileVars, pageVars
<1>4. CrossingsKnown'
  <2> SUFFICES ASSUME NEW p \in Requests, NEW r \in Requests,
                      p # r, target[r] # NoSentence, Concerns(p, target[r])'
               PROVE  target[r] \in crossed'[p]
    BY <1>1 DEF CrossingsKnown
  <2>1. CASE p = q
    <3>1. target[r] \in SentenceIds /\ r \in Toggling(target[r])
      BY DEF Inv, TypeOK, Toggling
    <3>2. target[r][1] = c
      BY <1>1, <2>1 DEF Concerns
    <3> QED
      BY <1>1, <2>1, <3>1, <3>2
  <2>2. CASE p # q
    <3>1. Concerns(p, target[r]) /\ crossed'[p] = crossed[p]
      BY <1>1, <1>2, <2>2 DEF Concerns, OthersRest
    <3> QED
      BY <3>1 DEF Inv, CrossingsKnown
  <2> QED
    BY <2>1, <2>2
<1>5. BoxesAgree'
  <2> SUFFICES ASSUME NEW x \in shown \ unsure, Clicking(x)' = {}
               PROVE  x \in ticked <=> x \in completed
    BY DEF BoxesAgree, pageVars
  <2>1. Clicking(x) = {}
    BY <1>1, <1>2, NothingAssumption DEF OthersRest, Clicking, Toggling, Inv, TypeOK, SentenceIds
  <2> QED
    BY <2>1 DEF Inv, BoxesAgree
<1>6. DetailOf(Unread, c, "row") /\ BoxesOf(Unread, {c}, crossed'[q])
  BY DEF DetailOf, BoxesOf, Unread, Rows
<1>7. DetailFits(q)' /\ BoxesFit(q)'
  BY <1>1, <1>6, RowsRest DEF DetailFits, BoxesFit, BoxesOf, Unread
<1>8. RequestFits(q)'
  BY <1>1, <1>7 DEF RequestFits, ListFits, ToggleFits, Toggles
<1> QED
  BY <1>1, <1>2, <1>3, <1>4, <1>5, <1>8, RequestStep

LEMMA GetCasesKeeps ==
  ASSUME Inv, NEW q \in Requests, CourtRests, UNCHANGED <<completed, pageVars>>, GetCases(q)
  PROVE  Inv'
<1>1. /\ view[q] = Unread /\ target[q] = NoSentence
      /\ kind'[q] = "list" /\ about'[q] = {} /\ step'[q] = "count" /\ view' = view
      /\ target' = target /\ want' = want /\ crossed' = crossed
  BY DEF GetCases, Begin, Inv, TypeOK, RequestFits, ToggleFits, Toggles
<1>2. OthersRest(q) /\ TypeOK'
  BY DEF GetCases, Begin, OthersRest, Inv, TypeOK, Steps, Toggles, CourtRests, courtVars, fileVars,
     pageVars
<1>3. CrossingsKnown'
  <2> SUFFICES ASSUME NEW p \in Requests, NEW r \in Requests,
                      p # r, target[r] # NoSentence, Concerns(p, target[r])'
               PROVE  target[r] \in crossed[p]
    BY <1>1 DEF CrossingsKnown
  <2>1. Concerns(p, target[r])
    BY <1>1, <1>2 DEF Concerns, OthersRest
  <2> QED
    BY <2>1 DEF Inv, CrossingsKnown
<1>4. BoxesAgree'
  <2> SUFFICES ASSUME NEW x \in shown \ unsure, Clicking(x)' = {}
               PROVE  x \in ticked <=> x \in completed
    BY DEF BoxesAgree, pageVars
  <2>1. Clicking(x) = {}
    BY <1>1, <1>2, NothingAssumption DEF OthersRest, Clicking, Toggling, Inv, TypeOK, SentenceIds
  <2> QED
    BY <2>1 DEF Inv, BoxesAgree
<1>5. ListOf(Unread, {}, "count")
  BY DEF ListOf, Unread
<1>6. ListFits(q)'
  BY <1>1, <1>5, RowsRest DEF ListFits
<1>7. RequestFits(q)'
  BY <1>1, <1>6 DEF RequestFits, DetailFits, BoxesFit, ToggleFits, Toggles
<1> QED
  BY <1>1, <1>2, <1>3, <1>4, <1>7, RequestStep

LEMMA AskKeeps ==
  ASSUME Inv, NEW q \in Requests, CourtRests, UNCHANGED <<completed, pageVars>>,
         NEW x \in SentenceIds, Click(q, x) \/ \E w \in BOOLEAN : Call(q, x, w)
  PROVE  Inv'
<1>1. PICK what \in Toggles, w \in BOOLEAN : Ask(q, what, x, w)
  BY DEF Click, Call, Toggles
<1>2. /\ view[q] = Unread /\ target[q] = NoSentence /\ x \in SentencesOf(x[1]) /\ x[1] \in Cases
      /\ kind'[q] = what /\ about'[q] = {x[1]} /\ step'[q] = "load" /\ view' = view
      /\ target'[q] = x
  BY <1>1, SentenceParts DEF Ask, Begin, Inv, TypeOK, RequestFits, ToggleFits, Toggles
<1>3. OthersRest(q)
  BY <1>1 DEF Ask, Begin, OthersRest, Inv, TypeOK
<1>4. /\ \A r \in Requests : crossed[r] \subseteq crossed'[r] /\ crossed'[r] \subseteq SentenceIds
      /\ \A r \in Requests \ {q} : Concerns(r, x) => x \in crossed'[r]
      /\ \A r \in Requests \ {q} : target[r] = x => x \in crossed'[q]
  BY <1>1 DEF Ask, Toggling, Reading, Concerns, Inv, TypeOK
<1>5. TypeOK'
  <2>1. crossed' \in [Requests -> SUBSET SentenceIds]
    BY <1>1, <1>4 DEF Ask
  <2> QED
    BY <1>1, <1>2, <2>1 DEF Ask, Begin, Inv, TypeOK, Steps, CourtRests, courtVars, fileVars, pageVars
<1>6. CrossingsKnown'
  <2> SUFFICES ASSUME NEW p \in Requests, NEW r \in Requests,
                      p # r, target'[r] # NoSentence, Concerns(p, target[r])'
               PROVE  target'[r] \in crossed'[p]
    BY DEF CrossingsKnown
  <2>1. CASE p = q
    <3>1. target'[r] = target[r] /\ target[r] = x
      BY <1>2, <1>3, <2>1 DEF Concerns, OthersRest, Toggles
    <3> QED
      BY <1>4, <2>1, <3>1
  <2>2. CASE r = q
    <3>1. Concerns(p, x) /\ target'[r] = x
      BY <1>2, <1>3, <2>2 DEF Concerns, OthersRest
    <3> QED
      BY <1>4, <2>2, <3>1
  <2>3. CASE p # q /\ r # q
    <3>1. Concerns(p, target[r]) /\ target'[r] = target[r]
      BY <1>3, <2>3 DEF Concerns, OthersRest
    <3>2. target[r] \in crossed[p]
      BY <3>1 DEF Inv, CrossingsKnown
    <3> QED
      BY <1>4, <3>1, <3>2
  <2> QED
    BY <2>1, <2>2, <2>3
<1>7. BoxesAgree'
  <2> SUFFICES ASSUME NEW y \in shown \ unsure, Clicking(y)' = {}
               PROVE  y \in ticked <=> y \in completed
    BY DEF BoxesAgree, pageVars
  <2>1. Clicking(y) = {}
    BY <1>2, <1>3, NothingAssumption DEF OthersRest, Clicking, Toggling, Inv, TypeOK, SentenceIds
  <2> QED
    BY <2>1 DEF Inv, BoxesAgree
<1>8. x \in SentencesOf(x[1])'
  BY <1>2, RowsRest
<1>9. RequestFits(q)'
  BY <1>2, <1>8 DEF RequestFits, DetailFits, BoxesFit, ListFits, ToggleFits, Toggles
<1> QED
  BY <1>3, <1>4, <1>5, <1>6, <1>7, <1>9, RequestStep

LEMMA LoadKeeps ==
  ASSUME Inv, NEW q \in Requests, CourtRests, UNCHANGED <<completed, pageVars>>, LoadSentence(q)
  PROVE  Inv'
<1> DEFINE s == IF want[q] \/ target[q] \in completed THEN "commit" ELSE "progress_total"
<1>0. PICK x : x = target[q] /\ x = target'[q]
  BY DEF LoadSentence, Read
<1>1. Read(q, "load", view[q], s) /\ view[q] \in Views /\ s \in Steps
  BY DEF LoadSentence, Inv, TypeOK, Steps
<1> HIDE DEF s
<1>2. /\ Reads(q) /\ TypeOK' /\ step[q] = "load"
      /\ view'[q] = view[q] /\ step'[q] = s /\ kind' = kind /\ about' = about
  BY <1>1, ReadReads
<1>3. /\ kind[q] \in Toggles /\ x \in SentencesOf(x[1]) /\ about[q] = {x[1]}
  BY <1>0, <1>2 DEF Inv, TypeOK, RequestFits, DetailFits, ListFits, ToggleFits
<1>4. s \in {"commit", "progress_total"} /\ (s = "progress_total" => (x \in completed <=> want[q]))
  BY <1>0 DEF s, Inv, TypeOK
<1>5. SentencesOf(x[1])' = SentencesOf(x[1])
  BY RowsRest
<1>6. ToggleFits(q)'
  BY <1>0, <1>2, <1>3, <1>4, <1>5 DEF ToggleFits, Reads
<1>7. RequestFits(q)'
  BY <1>2, <1>3, <1>4, <1>6 DEF RequestFits, DetailFits, BoxesFit, ListFits, Toggles
<1> QED
  BY <1>2, <1>7, ReadStep

LEMMA ToggleKeeps ==
  ASSUME Inv, NEW q \in Requests, CourtRests, Toggle(q)
  PROVE  Inv'
<1>0. PICK x : x = target[q] /\ x = target'[q]
  BY DEF Toggle
<1>1. /\ kind[q] \in Toggles /\ x \in SentencesOf(x[1]) /\ about[q] = {x[1]}
      /\ x \in SentenceIds /\ step'[q] = "progress_total"
  BY <1>0 DEF Toggle, Inv, TypeOK, RequestFits, DetailFits, ListFits, ToggleFits, SentencesOf
<1>2. /\ completed' \subseteq SentenceIds
      /\ x \in completed' <=> want[q]
      /\ \A y : y # x => (y \in completed' <=> y \in completed)
  BY <1>0, <1>1 DEF Toggle, SetCompleted, Inv, TypeOK
<1>3. /\ unsure \subseteq unsure' /\ unsure' \subseteq SentenceIds
      /\ kind[q] = "call" /\ (x \in completed' <=> x \notin completed) => x \in unsure'
  BY <1>0, <1>1 DEF Toggle, Inv, TypeOK
<1>4. OthersRest(q) /\ TypeOK'
  BY <1>2, <1>3 DEF Toggle, OthersRest, Inv, TypeOK, Steps, CourtRests, courtVars, fileVars
<1>5. CrossingsKnown'
  BY DEF Toggle, Inv, CrossingsKnown, Concerns
<1>6. BoxesAgree'
  <2> SUFFICES ASSUME NEW y \in shown, y \notin unsure', Clicking(y)' = {}
               PROVE  y \in ticked <=> y \in completed'
    BY DEF BoxesAgree, Toggle
  <2>1. y \notin unsure /\ Clicking(y) = {}
    BY <1>3 DEF Toggle, Clicking, Toggling
  <2>2. y \in ticked <=> y \in completed
    BY <2>1 DEF Inv, BoxesAgree
  <2>3. CASE y # x
    BY <1>2, <2>2, <2>3
  <2>4. CASE y = x
    <3>1. kind[q] = "call"
      BY <1>0, <1>1, <2>1, <2>4 DEF Clicking, Toggling, Toggles
    <3> QED
      BY <1>3, <2>2, <2>4, <3>1
  <2> QED
    BY <2>3, <2>4
<1>7. ASSUME NEW r \in Requests \ {q}
      PROVE  /\ crossed[r] \subseteq crossed'[r]
             /\ \A y \in SentenceIds :
                  Concerns(r, y) /\ y \notin crossed'[r] => (y \in completed' <=> y \in completed)
  <2>1. crossed' = crossed
    BY DEF Toggle
  <2>2. Concerns(r, x) => x \in crossed[r]
    BY <1>0, <1>1, NothingAssumption DEF Inv, CrossingsKnown, SentenceIds
  <2> QED
    BY <1>2, <2>1, <2>2
<1>8. SentencesOf(x[1])' = SentencesOf(x[1])
  BY RowsRest
<1>9. RequestFits(q)'
  BY <1>0, <1>1, <1>2, <1>8 DEF Toggle, RequestFits, DetailFits, BoxesFit, ListFits, ToggleFits, Toggles
<1> QED
  BY <1>4, <1>5, <1>6, <1>7, <1>9, RequestStep

\* Until there is a rejudgment all sentences are current.
LEMMA FirstIsAll ==
  ASSUME Inv, NEW c \in Cases, Revision(c) = 0
  PROVE  SentencesOfAll({c}) = CurrentSentences({c})
<1>1. judgments[c][1] = NoRuling
  BY DEF Revision
<1> QED
  <2>1. \A x : x \in SentencesOfAll({c}) <=>
               x \in SentenceIds /\ x[1] = c /\ judgments[x[1]][x[2]] # NoRuling /\ x[3] \in Orders[x[2]]
    BY SentencesAre
  <2>2. \A x : x \in CurrentSentences({c}) <=>
               /\ x \in SentenceIds /\ x[1] = c /\ judgments[x[1]][x[2]] # NoRuling
               /\ x[3] \in Orders[x[2]] /\ x[2] = Revision(x[1])
    BY CurrentAre
  <2>3. \A x \in SentenceIds : x[1] = c /\ judgments[x[1]][x[2]] # NoRuling => x[2] = Revision(x[1])
    BY <1>1, SentenceParts
  <2> QED
    BY <2>1, <2>2, <2>3

LEMMA CountKeeps ==
  ASSUME Inv, NEW q \in Requests, CourtRests, UNCHANGED <<completed, pageVars>>,
         CountTotal(q) \/ CountProgress(q)
  PROVE  Inv'
<1>0. PICK x : x = target[q] /\ x = target'[q]
  BY DEF CountTotal, CountProgress, Read
<1> DEFINE V == view[q]
           all == SentencesOfAll({x[1]})
           first == Revision(x[1]) = 0
<1>1. /\ kind[q] \in Toggles /\ x \in SentencesOf(x[1]) /\ about[q] = {x[1]}
      /\ V \in Views /\ x \in SentenceIds /\ x[1] \in Cases
      /\ x \notin crossed[q] => (x \in completed <=> want[q])
      /\ step[q] = "progress_done" =>
           x \in V.total /\ (first => V.total = CurrentSentences({x[1]}))
  <2>1. step[q] \in {"progress_total", "progress_done"}
    BY DEF CountTotal, CountProgress, Read
  <2>2. kind[q] \in Toggles
    BY <2>1 DEF Inv, TypeOK, RequestFits, DetailFits, ListFits
  <2>3. V \in Views /\ ToggleFits(q)
    BY DEF Inv, TypeOK, RequestFits
  <2> QED
    BY <1>0, <2>1, <2>2, <2>3, SentenceParts DEF ToggleFits, SentencesOf
<1>2. all \subseteq SentenceIds /\ x \in all /\ (first => all = CurrentSentences({x[1]}))
  <2>1. x \in all
    BY <1>1 DEF SentencesOfAll
  <2>2. all \subseteq SentenceIds
    BY SentencesAre
  <2> QED
    BY <1>1, <2>1, <2>2, FirstIsAll
<1>3. CASE CountTotal(q)
  <2> DEFINE v == [V EXCEPT !.total = all]
  <2>1. v \in Views /\ v.total = all
    BY <1>1, <1>2 DEF Views
  <2>2. Read(q, "progress_total", v, "progress_done")
    BY <1>1, <1>3 DEF CountTotal
  <2> HIDE DEF v
  <2>3. /\ Reads(q) /\ TypeOK'
        /\ view'[q] = v /\ step'[q] = "progress_done" /\ kind' = kind /\ about' = about
    BY <2>1, <2>2, ReadReads DEF Steps
  <2>4. ToggleFits(q)'
    <3>1. x \in v.total /\ (first => v.total = CurrentSentences({x[1]}))
      BY <1>2, <2>1
    <3>2. /\ SentencesOf(x[1])' = SentencesOf(x[1]) /\ Revision(x[1])' = Revision(x[1])
          /\ CurrentSentences({x[1]})' = CurrentSentences({x[1]})
      BY RowsRest
    <3> QED
      BY <1>0, <1>1, <2>3, <3>1, <3>2 DEF ToggleFits, Reads
  <2>5. RequestFits(q)'
    BY <1>1, <2>3, <2>4 DEF RequestFits, DetailFits, BoxesFit, ListFits, Toggles
  <2> QED
    BY <2>3, <2>5, ReadStep
<1>4. CASE CountProgress(q)
  <2> DEFINE v == [V EXCEPT !.done = all \intersect completed]
  <2>1. v \in Views /\ v.done = all \intersect completed /\ v.total = V.total
    BY <1>1, <1>2 DEF Views
  <2>2. Read(q, "progress_done", v, "answered")
    BY <1>1, <1>4 DEF CountProgress
  <2> HIDE DEF v
  <2>3. /\ Reads(q) /\ TypeOK' /\ step[q] = "progress_done"
        /\ view'[q] = v /\ step'[q] = "answered" /\ kind' = kind /\ about' = about
    BY <2>1, <2>2, ReadReads DEF Steps
  <2>4. ToggleFits(q)'
    <3>1. /\ x \in v.total /\ (first => v.total = CurrentSentences({x[1]}))
          /\ x \notin crossed[q] => (x \in v.done <=> want[q])
          /\ first => v.done \subseteq v.total
      BY <1>1, <1>2, <2>1, <2>3
    <3>2. /\ SentencesOf(x[1])' = SentencesOf(x[1]) /\ Revision(x[1])' = Revision(x[1])
          /\ CurrentSentences({x[1]})' = CurrentSentences({x[1]})
      BY RowsRest
    <3> QED
      BY <1>0, <1>1, <2>3, <3>1, <3>2 DEF ToggleFits, Reads
  <2>5. RequestFits(q)'
    BY <1>1, <2>3, <2>4 DEF RequestFits, DetailFits, BoxesFit, ListFits, Toggles
  <2> QED
    BY <2>3, <2>5, ReadStep
<1> QED
  BY <1>3, <1>4
-----------------------------------------------------------------------------
(* The theorems.                                                           *)

LEMMA NextKeeps == Inv /\ [Next]_vars => Inv'
<1> SUFFICES ASSUME Inv, [Next]_vars PROVE Inv'
  OBVIOUS
<1>1. ASSUME NEW c \in Cases, Try(c) \/ Submit(c) \/ Appeal(c)
      PROVE  Inv'
  BY <1>1, CourtKeeps
<1>2. ASSUME NEW q \in Requests, Request(q), CourtRests
      PROVE  Inv'
  <2>1. step[q] \in {"row", "charges", "pleas", "judgment", "verdicts", "sentences", "appeal"}
          => kind[q] = "detail"
    BY DEF Inv, TypeOK, RequestFits, ListFits, ToggleFits, Toggles
  <2>2. step[q] \in {"count", "cases", "charges_count", "sustained", "sentence_total",
                     "sentence_done"} => kind[q] = "list"
    BY DEF Inv, TypeOK, RequestFits, DetailFits, ToggleFits, Toggles
  <2>3. CASE UNCHANGED <<completed, pageVars>> /\ ServeDetail(q)
    <3>1. kind[q] = "detail"
      BY <2>1, <2>3 DEF ServeDetail, ReadRow, ReadCharges, ReadPleas, ReadJudgment, SkipJudgment,
         ReadVerdicts, ReadSentences, ReadAppeal, Read
    <3> QED
      BY <1>2, <2>3, <3>1, ServeDetailKeeps
  <2>4. CASE UNCHANGED <<completed, pageVars>> /\ ServeList(q)
    <3>1. kind[q] = "list"
      BY <2>2, <2>4 DEF ServeList, CountCases, ReadCases, CountCharges, CountSustained,
         CountSentences, CountDone, Read
    <3> QED
      BY <1>2, <2>4, <3>1, ServeListKeeps
  <2> QED
    BY <1>2, <2>3, <2>4, GetCaseKeeps, GetCasesKeeps, AskKeeps, LoadKeeps, CountKeeps, ToggleKeeps,
       ShowKeeps, ShowBoxKeeps, DoneKeeps, LoseKeeps DEF Request, ServeToggle
<1>3. CASE UNCHANGED vars
  <2>1. CourtRests
    BY <1>3 DEF vars, CourtRests, courtVars, fileVars
  <2>2. TypeOK' /\ \A c \in Cases : FilesOf(c)'
    BY <1>3, <2>1, RowsRest DEF Inv, TypeOK, vars
  <2>3. ASSUME NEW q \in Requests
        PROVE  RequestFits(q)'
    <3>1. PICK x : x = target[q] /\ x = target'[q]
      BY <1>3 DEF vars
    <3>2. RequestFits(q)
      BY DEF Inv
    <3>3. DetailFits(q)' /\ BoxesFit(q)' /\ ListFits(q)'
      BY <1>3, <2>1, <3>2, RowsRest DEF vars, RequestFits, DetailFits, BoxesFit, BoxesOf, ListFits
    <3>4. /\ SentencesOf(x[1])' = SentencesOf(x[1]) /\ Revision(x[1])' = Revision(x[1])
          /\ CurrentSentences({x[1]})' = CurrentSentences({x[1]})
      BY <2>1, RowsRest
    <3>5. ToggleFits(q)'
      BY <1>3, <3>1, <3>2, <3>4 DEF vars, RequestFits, ToggleFits
    <3> QED
      BY <1>3, <3>2, <3>3, <3>5 DEF vars, RequestFits
  <2>4. CrossingsKnown' /\ BoxesAgree'
    BY <1>3 DEF vars, Inv, CrossingsKnown, Concerns, BoxesAgree, Clicking, Toggling
  <2> QED
    BY <2>1, <2>2, <2>3, <2>4, RowsRest DEF Inv
<1> QED
  BY <1>1, <1>2, <1>3 DEF Next, CourtRests

LEMMA InvHolds == Spec => []Inv
<1> QED
  BY InitInv, NextKeeps, PTL DEF Spec

\* The variables, and what the statements of a request have returned, keep
\* their types.
THEOREM ReadsTyped == Spec => []TypeOK
<1>1. Inv => TypeOK
  BY DEF Inv
<1> QED
  BY <1>1, InvHolds, PTL

\* GET /cases/{id} puts together statements of one moment each; what it
\* answers fits however the court moved between them.
THEOREM DetailsAreCoherent == Spec => []DetailIsCoherent
<1> QED
  BY InvGives, InvHolds, PTL

\* GET /cases counts in statements of their own; no line adds the sentences of
\* two judgments up.
THEOREM ListsAreCoherent == Spec => []ListIsCoherent
<1> QED
  BY InvGives, InvHolds, PTL

\* PATCH /sentences/{id} commits before it counts, and counts itself.
THEOREM TogglesAreCounted == Spec => []ToggleIsCounted
<1> QED
  BY InvGives, InvHolds, PTL

\* With any number of loads and clicks of the page and toggles of others under
\* way, a box without a click under way shows what the database holds, or a lost
\* click, a crossing or somebody else is to blame.
THEOREM BoxesStayRight == Spec => []BoxesAgree
<1> QED
  BY InvGives, InvHolds, PTL
=============================================================================
