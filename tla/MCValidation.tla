---------------------------- MODULE MCValidation ----------------------------
(* Instances of Validation for TLC.                                        *)
EXTENDS Validation

CONSTANTS style, danger, retired

CatalogRules == {style, danger}
DefaultSeverity == [r \in CatalogRules |-> IF r = style THEN LOW ELSE HIGH]
TypicalEffort == [r \in CatalogRules |-> IF r = style THEN LOW ELSE HIGH]

Claim(rule, start, end, severity, adjusted, reasoned) ==
  [rule |-> rule, start |-> start, end |-> end, severity |-> severity,
   adjusted |-> adjusted, reasoned |-> reasoned]

\* Charges to keep, to reset, to discard, and duplicates that differ.
Accusations ==
  {Claim(style, 1, 1, LOW, FALSE, FALSE),
   Claim(style, 1, 2, MEDIUM, TRUE, TRUE),
   Claim(style, 2, 2, MEDIUM, TRUE, FALSE),
   Claim(style, 1, 1, HIGH, TRUE, TRUE),
   Claim(danger, 1, 1, HIGH, FALSE, FALSE),
   Claim(danger, 2, 2, MEDIUM, TRUE, TRUE),
   Claim(danger, 2, 1, HIGH, FALSE, FALSE),
   Claim(danger, 2, 3, HIGH, FALSE, FALSE),
   Claim(retired, 1, 1, MEDIUM, FALSE, FALSE)}

\* Index 2 is out of range when at most two charges are kept.
Named == 0..2
Replies == [index : Named, plea : PleaValues]
Decisions == [index : Named, verdict : VerdictValues, severity : 0..3]
Orders ==
  [index : Named, start : {1}, end : {1}, effort : Ranks, adjusted : {FALSE}, reasoned : {FALSE}]
    \union [index : Named, start : {1}, end : {1}, effort : {LOW, HIGH},
            adjusted : {TRUE}, reasoned : BOOLEAN]
    \union [index : Named, start : {2}, end : {1, 3}, effort : {MEDIUM},
            adjusted : {FALSE}, reasoned : {FALSE}]

Lengths == [charges |-> 4, pleas |-> 2, verdicts |-> 3, sentences |-> 2]
=============================================================================
