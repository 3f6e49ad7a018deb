----------------------------- MODULE CaseReads -----------------------------
(***************************************************************************)
(* What is read of a case while the court goes on: the detail and the list *)
(* are put together from several statements, each at its own moment, and a *)
(* toggle of the checklist commits before it counts.  A page shows a box   *)
(* for each sentence of the detail it loaded last; a click changes its box *)
(* when it is answered, and every detail that arrives rewrites them all.   *)
(* Other pages and clients toggle sentences too, and tell this page        *)
(* nothing.                                                                *)
(*                                                                         *)
(* The court is CaseLifecycle, with the rows a stage adds.                 *)
(***************************************************************************)
EXTENDS Naturals, FiniteSets

CONSTANTS
  Cases,
  Requests,            \* GET /cases/{id}, GET /cases, PATCH /sentences/{id}
  Rulings, NoRuling,
  Tasks,
  Orders,              \* the tasks a judgment of each revision orders
  NoRow, NoRevision, NoSentence

VARIABLES
  \* the court: see CaseLifecycle
  phase, judgments, overturned, appealUsed, rejudgmentFailed,
  \* cases with rows in the tables charges and pleas
  charges, pleas,
  \* rows of sentences with completed_at
  completed,
  \* the page of each case: the sentences it has a box for, and the boxes ticked
  shown, ticked,
  \* requests: what is asked, of which case or sentence, how far it is, and
  \* what its statements have read
  kind, about, target, want, step, view,
  \* history: the sentences another toggle of which was under way together with
  \* a toggle or a detail, and the boxes that may be wrong: written by an answer
  \* that crossed a toggle, not written since a click of them was lost, or
  \* overtaken by somebody else's toggle
  crossed, unsure

courtVars == <<phase, judgments, overturned, appealUsed, rejudgmentFailed>>
fileVars == <<charges, pleas>>
pageVars == <<shown, ticked, unsure>>
requestVars == <<kind, about, target, want, step, view, crossed>>
vars == <<phase, judgments, overturned, appealUsed, rejudgmentFailed, charges, pleas,
          completed, shown, ticked, kind, about, target, want, step, view, crossed, unsure>>

Court == INSTANCE CaseLifecycle

Revisions == Court!Revisions

ASSUME OrdersAssumption == Orders \in [Revisions -> SUBSET Tasks]

ASSUME NothingAssumption ==
  /\ NoRevision \notin Revisions
  /\ NoSentence \notin Cases \X Revisions \X Tasks
  /\ NoRuling \notin Rulings

Phases == {"ABSENT", "prosecution", "defense", "judgment", "rejudgment",
           "SENTENCED", "DISMISSED", "FAILED"}
Row == [status : Phases, revision : Revisions, appealUsed : BOOLEAN]

ASSUME RowAssumption == NoRow \notin Row

\* A sentence belongs to the judgment of a case and a revision.
SentenceIds == Cases \X Revisions \X Tasks

\* What the statements of a request have returned, of each case.
Views == [rows     : [Cases -> Row \union {NoRow}],
          charges  : SUBSET Cases,
          pleas    : SUBSET Cases,
          judgment : [Cases -> Revisions \union {NoRevision}],
          verdicts : [Cases -> Revisions \union {NoRevision}],
          total    : SUBSET SentenceIds,
          done     : SUBSET SentenceIds,
          appeal   : SUBSET Cases,
          count    : SUBSET Cases]

Unread ==
  [rows |-> [c \in Cases |-> NoRow], charges |-> {}, pleas |-> {},
   judgment |-> [c \in Cases |-> NoRevision], verdicts |-> [c \in Cases |-> NoRevision],
   total |-> {}, done |-> {}, appeal |-> {}, count |-> {}]

Steps == {"none",
          "row", "charges", "pleas", "judgment", "verdicts", "sentences", "appeal",
          "count", "cases", "charges_count", "sustained", "sentence_total", "sentence_done",
          "load", "commit", "progress_total", "progress_done",
          "answered"}

\* Toggles: clicks on the page, and calls of other pages and clients.
Toggles == {"click", "call"}

TypeOK ==
  /\ phase \in [Cases -> Phases]
  /\ judgments \in [Cases -> [Revisions -> Rulings \union {NoRuling}]]
  /\ overturned \subseteq Cases
  /\ appealUsed \subseteq Cases
  /\ rejudgmentFailed \subseteq Cases
  /\ charges \subseteq Cases
  /\ pleas \subseteq Cases
  /\ completed \subseteq SentenceIds
  /\ shown \subseteq SentenceIds
  /\ ticked \subseteq shown
  /\ kind \in [Requests -> {"none", "detail", "list"} \union Toggles]
  /\ about \in [Requests -> SUBSET Cases]
  /\ target \in [Requests -> SentenceIds \union {NoSentence}]
  /\ want \in [Requests -> BOOLEAN]
  /\ step \in [Requests -> Steps]
  /\ view \in [Requests -> Views]
  /\ crossed \in [Requests -> SUBSET SentenceIds]
  /\ unsure \subseteq SentenceIds

Init ==
  /\ Court!Init
  /\ charges = {}
  /\ pleas = {}
  /\ completed = {}
  /\ shown = {}
  /\ ticked = {}
  /\ kind = [q \in Requests |-> "none"]
  /\ about = [q \in Requests |-> {}]
  /\ target = [q \in Requests |-> NoSentence]
  /\ want = [q \in Requests |-> FALSE]
  /\ step = [q \in Requests |-> "none"]
  /\ view = [q \in Requests |-> Unread]
  /\ crossed = [q \in Requests |-> {}]
  /\ unsure = {}
-----------------------------------------------------------------------------
(* The tables.                                                             *)

Rows == {c \in Cases : phase[c] # "ABSENT"}

\* cases.revision: set to 1 by the commit of a rejudgment.
Revision(c) == IF judgments[c][1] = NoRuling THEN 0 ELSE 1

RowOf(c) ==
  [status |-> phase[c], revision |-> Revision(c), appealUsed |-> c \in appealUsed]

Judged(c, v) == judgments[c][v] # NoRuling

\* The sentences of the judgments of c.
SentencesOf(c) == {x \in SentenceIds : x[1] = c /\ Judged(c, x[2]) /\ x[3] \in Orders[x[2]]}

\* Mutant: the filter of the revision is forgotten.
SentencesOfAll(C) == UNION {SentencesOf(c) : c \in C}

\* Those of the judgments with Judgment.revision == Case.revision.
CurrentSentences(C) == {x \in SentencesOfAll(C) : x[2] = Revision(x[1])}

\* The court adds charges and pleas with the stage.
Try(c) ==
  /\ Court!Progress(c)
  /\ charges' = IF phase[c] = "prosecution" /\ phase'[c] = "defense"
                  THEN charges \union {c} ELSE charges
  /\ pleas' = IF phase[c] = "defense" /\ phase'[c] = "judgment"
                THEN pleas \union {c} ELSE pleas
  /\ UNCHANGED <<completed, pageVars, requestVars>>

Submit(c) ==
  /\ Court!Submit(c)
  /\ UNCHANGED <<fileVars, completed, pageVars, requestVars>>

Appeal(c) ==
  /\ Court!Appeal(c)
  /\ UNCHANGED <<fileVars, completed, pageVars, requestVars>>
-----------------------------------------------------------------------------
(* Requests.                                                               *)

\* Request q has what its statement read, v, and goes on with step s.
Read(q, now, v, s) ==
  /\ step[q] = now
  /\ view' = [view EXCEPT ![q] = v]
  /\ step' = [step EXCEPT ![q] = s]
  /\ UNCHANGED <<kind, about, target, want, crossed>>

Begin(q, what, C, s) ==
  /\ step[q] = "none"
  /\ kind' = [kind EXCEPT ![q] = what]
  /\ about' = [about EXCEPT ![q] = C]
  /\ step' = [step EXCEPT ![q] = s]
  /\ UNCHANGED view

\* The rows of the cases C.
RowsOf(C) == [c \in Cases |-> IF c \in C THEN RowOf(c) ELSE NoRow]

\* The toggles of sentence x, and the details it may be in, that are under way.
Toggling(x) == {q \in Requests : target[q] = x}
Clicking(x) == {q \in Toggling(x) : kind[q] = "click"}
Reading(x) == {q \in Requests : kind[q] = "detail" /\ x[1] \in about[q]}

\* loadDetail, of a page that opens or of a poll that saw the end: polls
\* overlap, so one page may load several times at once.
GetCase(q, c) ==
  /\ c \in Rows
  /\ Begin(q, "detail", {c}, "row")
  /\ crossed' = [crossed EXCEPT ![q] = {x \in SentenceIds : x[1] = c /\ Toggling(x) # {}}]
  /\ UNCHANGED <<target, want>>

\* _get_owned_case, then build_case_detail.
ReadRow(q) ==
  Read(q, "row", [view[q] EXCEPT !.rows = RowsOf(about[q])], "charges")

ReadCharges(q) ==
  Read(q, "charges", [view[q] EXCEPT !.charges = about[q] \intersect charges],
       IF about[q] \intersect charges # {} THEN "pleas" ELSE "judgment")

ReadPleas(q) ==
  Read(q, "pleas", [view[q] EXCEPT !.pleas = about[q] \intersect pleas], "judgment")

\* The judgment of the revision that is current by now.  As a mutant: it is
\* what the detail looks for.
CurrentJudgment(q) ==
  [c \in Cases |-> IF c \in about[q] /\ Judged(c, Revision(c)) THEN Revision(c) ELSE NoRevision]

\* The judgment of the revision that was read with the row.
WantedJudgment(q) ==
  [c \in Cases |->
     IF c \in about[q] /\ Judged(c, view[q].rows[c].revision)
       THEN view[q].rows[c].revision ELSE NoRevision]

\* It is looked for only if the row was that of a sentenced case.
WantsJudgment(q) == \E c \in about[q] : view[q].rows[c].status = "SENTENCED"

ReadJudgment(q) ==
  /\ Read(q, "judgment", [view[q] EXCEPT !.judgment = WantedJudgment(q)],
          IF \E c \in about[q] : WantedJudgment(q)[c] # NoRevision
            THEN "verdicts" ELSE "appeal")
  /\ WantsJudgment(q)

SkipJudgment(q) ==
  /\ Read(q, "judgment", view[q], "appeal")
  /\ ~ WantsJudgment(q)

\* The verdicts were committed with their judgment, one for every charge.
ReadVerdicts(q) ==
  Read(q, "verdicts", [view[q] EXCEPT !.verdicts = view[q].judgment], "sentences")

ReadSentences(q) ==
  LET found == {x \in SentencesOfAll(about[q]) : x[2] = view[q].judgment[x[1]]} IN
    Read(q, "sentences",
         [view[q] EXCEPT !.total = found, !.done = found \intersect completed], "appeal")

ReadAppeal(q) ==
  Read(q, "appeal", [view[q] EXCEPT !.appeal = about[q] \intersect appealUsed], "answered")

\* list_cases.  All cases are on one page.
GetCases(q) ==
  /\ Begin(q, "list", {}, "count")
  /\ UNCHANGED <<target, want, crossed>>

CountCases(q) == Read(q, "count", [view[q] EXCEPT !.count = Rows], "cases")

ReadCases(q) ==
  /\ step[q] = "cases"
  /\ about' = [about EXCEPT ![q] = Rows]
  /\ view' = [view EXCEPT ![q] = [view[q] EXCEPT !.rows = RowsOf(Rows)]]
  /\ step' = [step EXCEPT ![q] = IF Rows = {} THEN "answered" ELSE "charges_count"]
  /\ UNCHANGED <<kind, target, want, crossed>>

CountCharges(q) ==
  Read(q, "charges_count", [view[q] EXCEPT !.charges = about[q] \intersect charges], "sustained")

\* The verdicts of the judgment of the current revision.
CountSustained(q) ==
  Read(q, "sustained", [view[q] EXCEPT !.verdicts = CurrentJudgment(q)], "sentence_total")

CountSentences(q) ==
  Read(q, "sentence_total", [view[q] EXCEPT !.total = CurrentSentences(about[q])],
       "sentence_done")

CountDone(q) ==
  Read(q, "sentence_done",
       [view[q] EXCEPT !.done = CurrentSentences(about[q]) \intersect completed], "answered")

\* PATCH /sentences/{id}: sentence x is to be completed (w), or not.
Ask(q, what, x, w) ==
  /\ x \in SentencesOf(x[1])
  /\ Begin(q, what, {x[1]}, "load")
  /\ target' = [target EXCEPT ![q] = x]
  /\ want' = [want EXCEPT ![q] = w]
  /\ crossed' =
       [r \in Requests |->
          IF r \in Toggling(x) \union Reading(x) \/ (r = q /\ Toggling(x) # {})
            THEN crossed[r] \union {x} ELSE crossed[r]]

\* A click on a box of the page asks for the opposite of what it shows.
Click(q, x) == x \in shown /\ Ask(q, "click", x, x \notin ticked)

\* Another page, whatever it shows, another client, or a click the server goes on
\* with although the page has lost it.
Call(q, x, w) == Ask(q, "call", x, w)

\* Mutant: a sentence stays completed.
SetOnly(S, x, w) == IF w THEN S \union {x} ELSE S

\* Mutant: a toggle turns the sentence over, whatever it asks for.
TurnedOver(S, x, w) == IF x \in S THEN S \ {x} ELSE S \union {x}

SetCompleted(S, x, w) == IF w THEN S \union {x} ELSE S \ {x}

\* _load_owned_sentence.  A row that is not completed and is not to be has not
\* changed for SQLAlchemy, so there is nothing to write; a new time always is.
LoadSentence(q) ==
  LET changes == want[q] \/ target[q] \in completed IN
    Read(q, "load", view[q], IF changes THEN "commit" ELSE "progress_total")

\* The UPDATE and its commit.  If somebody else's toggle changes the row, the
\* box on the page is no longer to be relied on.
Toggle(q) ==
  LET x == target[q] IN
    /\ step[q] = "commit"
    /\ completed' = SetCompleted(completed, x, want[q])
    /\ unsure' = IF kind[q] = "call" /\ (x \in completed' <=> x \notin completed)
                   THEN unsure \union {x} ELSE unsure
    /\ step' = [step EXCEPT ![q] = "progress_total"]
    /\ UNCHANGED <<kind, about, target, want, view, crossed, shown, ticked>>

\* _compute_progress counts the sentences of all revisions.
CountTotal(q) ==
  Read(q, "progress_total", [view[q] EXCEPT !.total = SentencesOfAll(about[q])],
       "progress_done")

CountProgress(q) ==
  Read(q, "progress_done",
       [view[q] EXCEPT !.done = SentencesOfAll(about[q]) \intersect completed], "answered")

\* A request is over, and its place is free for another.
Close(q) ==
  /\ kind' = [kind EXCEPT ![q] = "none"]
  /\ about' = [about EXCEPT ![q] = {}]
  /\ target' = [target EXCEPT ![q] = NoSentence]
  /\ want' = [want EXCEPT ![q] = FALSE]
  /\ step' = [step EXCEPT ![q] = "none"]
  /\ view' = [view EXCEPT ![q] = Unread]
  /\ crossed' = [crossed EXCEPT ![q] = {}]

Answered(q, kinds) == kind[q] \in kinds /\ step[q] = "answered" /\ Close(q)

\* loadDetail: setDetail replaces the boxes by those of the detail, each ticked
\* as the detail read it.
Show(q) ==
  LET others(S) == {x \in S : x[1] \notin about[q]} IN
    /\ Answered(q, {"detail"})
    /\ shown' = others(shown) \union view[q].total
    /\ ticked' = others(ticked) \union view[q].done
    /\ unsure' = (unsure \ view[q].total) \union crossed[q]

\* handleSentenceToggle: the box, if it is still there, becomes what the answer
\* says.
ShowBox(q) ==
  LET x == target[q] IN
    /\ Answered(q, {"click"})
    /\ ticked' = IF want[q] THEN ticked \union ({x} \intersect shown) ELSE ticked \ {x}
    /\ unsure' = IF x \in crossed[q] THEN unsure \union {x} ELSE unsure \ {x}
    /\ UNCHANGED shown

\* The list and what others asked for change no box.
Done(q) == Answered(q, {"list", "call"}) /\ UNCHANGED pageVars

\* A request fails at a statement, before it or after it, or its answer is lost.
\* handleSentenceToggle has no handler: the box stays as it is.
Lose(q) ==
  /\ kind[q] # "none"
  /\ unsure' = IF kind[q] = "click" THEN unsure \union {target[q]} ELSE unsure
  /\ Close(q)
  /\ UNCHANGED <<shown, ticked>>

ServeDetail(q) ==
  \/ ReadRow(q) \/ ReadCharges(q) \/ ReadPleas(q)
  \/ ReadJudgment(q) \/ SkipJudgment(q)
  \/ ReadVerdicts(q) \/ ReadSentences(q) \/ ReadAppeal(q)

ServeList(q) ==
  \/ CountCases(q) \/ ReadCases(q) \/ CountCharges(q) \/ CountSustained(q)
  \/ CountSentences(q) \/ CountDone(q)

ServeToggle(q) == LoadSentence(q) \/ CountTotal(q) \/ CountProgress(q)

Request(q) ==
  \/ /\ \/ \E c \in Cases : GetCase(q, c)
        \/ GetCases(q)
        \/ \E x \in SentenceIds : Click(q, x) \/ \E w \in BOOLEAN : Call(q, x, w)
        \/ ServeDetail(q) \/ ServeList(q) \/ ServeToggle(q)
     /\ UNCHANGED <<completed, pageVars>>
  \/ Toggle(q)
  \/ /\ Show(q) \/ ShowBox(q) \/ Done(q) \/ Lose(q)
     /\ UNCHANGED completed

Next ==
  \/ \E c \in Cases : Try(c) \/ Submit(c) \/ Appeal(c)
  \/ \E q \in Requests : Request(q) /\ UNCHANGED <<courtVars, fileVars>>

Spec == Init /\ [][Next]_vars
-----------------------------------------------------------------------------
(* Properties.                                                             *)

\* However the court moves between the statements of a detail, what it says
\* fits: the file is at least as far as the status, a sentenced case comes
\* with the judgment of its revision, pleas and verdicts have their charges
\* (charge_id_to_index knows them), and an appeal that was used is there.
DetailIsCoherent ==
  \A q \in Requests : kind[q] = "detail" /\ step[q] = "answered" =>
    \A c \in about[q] :
      LET row == view[q].rows[c] IN
        /\ row.status \in {"defense", "judgment", "rejudgment", "SENTENCED"} => c \in view[q].charges
        /\ row.status \in {"judgment", "rejudgment", "SENTENCED"} => c \in view[q].pleas
        /\ row.status = "DISMISSED" => c \notin view[q].charges
        /\ row.status = "SENTENCED" <=> view[q].judgment[c] # NoRevision
        /\ row.status = "SENTENCED" => view[q].judgment[c] = row.revision
        /\ view[q].verdicts[c] = view[q].judgment[c]
        /\ c \in view[q].pleas \/ view[q].verdicts[c] # NoRevision => c \in view[q].charges
        /\ row.appealUsed \/ row.revision = 1 => c \in view[q].appeal

\* A line of the list never adds the sentences of two judgments up, and more
\* are done than there are only if a judgment came between the two counts.
ListIsCoherent ==
  \A q \in Requests : kind[q] = "list" /\ step[q] = "answered" =>
    /\ view[q].count \subseteq about[q]
    /\ \A c \in about[q] :
         LET total == {x \in view[q].total : x[1] = c}
             done == {x \in view[q].done : x[1] = c}
         IN /\ \A x, y \in total : x[2] = y[2]
            /\ \A x, y \in done : x[2] = y[2]
            /\ \/ done \subseteq total
               \/ \A x \in total, y \in done : x[2] = 0 /\ y[2] = 1
            /\ view[q].rows[c].status = "SENTENCED" =>
                 c \in view[q].charges /\ view[q].verdicts[c] # NoRevision

\* The answer to a toggle counts the toggle itself, unless another one of the
\* same sentence crossed it; and until there is a rejudgment its total is the
\* one of the list.
ToggleIsCounted ==
  \A q \in Requests : kind[q] \in Toggles /\ step[q] = "answered" =>
    LET x == target[q] IN
      /\ x \in view[q].total
      /\ x \notin crossed[q] => (x \in view[q].done <=> want[q])
      /\ Revision(x[1]) = 0 =>
           view[q].total = CurrentSentences({x[1]}) /\ view[q].done \subseteq view[q].total

\* A box for which no click is under way shows what the database holds, however
\* loads, clicks and toggles of others overlapped before, unless one of these
\* is to blame: the answer that wrote the box last, to a click or a load,
\* crossed another toggle of the sentence; a click of it was lost since; or
\* somebody else has changed the row since.  After any of them, the next click
\* or load that crosses no toggle puts the box right: a click asks for a state
\* and not for a change of it (loadDetail, handleSentenceToggle,
\* toggle_sentence).
BoxesAgree ==
  \A x \in shown \ unsure :
    Clicking(x) = {} => (x \in ticked <=> x \in completed)
=============================================================================
