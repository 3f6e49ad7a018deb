------------------------------ MODULE MCDocket ------------------------------
(* Instances of Docket for TLC.                                            *)
EXTENDS Docket, TLC

CONSTANTS q1, q2, q3, u1, u2, k1, k2, guilty

ThreeRequests == {q1, q2, q3}
TwoUsers == {u1, u2}
TwoCodes == {k1, k2}
OneRuling == {guilty}

\* u1 pastes either code or links to k1; u2 pastes k1.
MixedAsks ==
  [user : {u1}, code : {k1, k2}, force : BOOLEAN, link : {FALSE}]
    \union [user : {u1}, code : {k1}, force : {FALSE}, link : {TRUE}]
    \union [user : {u2}, code : {k1}, force : {FALSE}, link : {FALSE}]

Symmetric == Permutations(Requests)
=============================================================================
