----------------------------- MODULE MCCasePage -----------------------------
(* Instances of CasePage for TLC.                                          *)
EXTENDS CasePage

CONSTANTS c, s1, s2, guilty

TwoSlots == {s1, s2}
OneRuling == {guilty}
=============================================================================
