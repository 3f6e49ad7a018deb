------------------------------ MODULE MCIntake ------------------------------
(* Instances of Intake for TLC.                                            *)
EXTENDS Intake, SequencesExt

\* Lengths below, at and above the limits, and comments of both languages.
LongFiles == SeqOf({"a", "wide", "LF", "CR"}, 6)
HashFiles == SeqOf({"a", "LF", "'", "\"", "\\", "#"}, 4)
SlashFiles == SeqOf({"LF", "backquote", "/", "*"}, 5)
SomeFiles == LongFiles \union HashFiles \union SlashFiles

Pushed == <<"a">>
=============================================================================
