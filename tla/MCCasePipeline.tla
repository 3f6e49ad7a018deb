--------------------------- MODULE MCCasePipeline ---------------------------
(* Instances of CasePipeline for TLC.                                      *)
EXTENDS CasePipeline, TLC

CONSTANTS c1, c2, w1, w2, w3, r1, r2, guilty, innocent

OneCase == {c1}
TwoCases == {c1, c2}
TwoWorkers == {w1, w2}
ThreeWorkers == {w1, w2, w3}
OneAppellant == {r1}
TwoAppellants == {r1, r2}
TwoRulings == {guilty, innocent}

\* Every case is another code, or all are one user's same code.
DistinctCodes == [c \in Cases |-> c]
SameCode == [c \in Cases |-> "code"]

\* Processes, requests and rulings are interchangeable (safety runs only).
Symmetric == Permutations(Workers) \union Permutations(Appellants)
               \union Permutations(Rulings)
=============================================================================
