----------------------------- MODULE MCCaseReads -----------------------------
(* Instances of CaseReads for TLC.                                         *)
EXTENDS CaseReads, TLC

CONSTANTS c1, q1, q2, t1, guilty

OneCase == {c1}
TwoRequests == {q1, q2}
OneTask == {t1}
OneRuling == {guilty}

\* Each judgment orders the task.
OrderedTwice == [v \in {0, 1} |-> {t1}]

Symmetric == Permutations(Requests)
=============================================================================
