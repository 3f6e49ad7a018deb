---------------------------- MODULE MCPrecedents ----------------------------
(* Instances of Precedents for TLC.                                        *)
EXTENDS Precedents, TLC

CONSTANTS old, new, other, r1, r2, py, js, guilty, innocent

ThreeCases == {old, new, other}
TwoRules == {r1, r2}
TwoLanguages == {py, js}
TwoRulings == {guilty, innocent}

\* Two cases of one language and a younger one of another.
Language == [c \in ThreeCases |-> IF c = other THEN js ELSE py]
Age == [c \in ThreeCases |-> CASE c = old -> 1 [] c = new -> 2 [] c = other -> 3]

\* Two charges of one rule, the graver one last, and a charge nobody shares.
File == [c \in ThreeCases |->
  CASE c = new   -> <<[rule |-> r1, rank |-> 1], [rule |-> r1, rank |-> 3]>>
    [] c = old   -> <<[rule |-> r1, rank |-> 2], [rule |-> r2, rank |-> 2]>>
    [] c = other -> <<[rule |-> r1, rank |-> 2]>>]

\* The first case has been judged and appealed, and the second defended, when
\* the third is submitted.
InitInCourt ==
  /\ phase = [c \in ThreeCases |->
       CASE c = old -> "rejudgment" [] c = new -> "judgment" [] c = other -> "ABSENT"]
  /\ judgments = [c \in ThreeCases |-> [v \in {0, 1} |->
       IF c = old /\ v = 0 THEN guilty ELSE NoRuling]]
  /\ overturned = {} /\ appealUsed = {old} /\ rejudgmentFailed = {}
  /\ cited = [c \in ThreeCases |-> [v \in {0, 1} |-> {}]]
  /\ lookup = [c \in ThreeCases |-> "none"]
  /\ unserved = [c \in ThreeCases |-> {}]
  /\ remaining = [c \in ThreeCases |-> 0]
  /\ found = [c \in ThreeCases |-> NothingFound]
  /\ always = [c \in ThreeCases |-> {}]
  /\ ever = [c \in ThreeCases |-> {}]

SpecInCourt == InitInCourt /\ [][Next]_vars

\* Nothing but equality is asked of a ruling.
Symmetric == Permutations(TwoRulings)
=============================================================================
