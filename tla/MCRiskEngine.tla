---------------------------- MODULE MCRiskEngine ----------------------------
(* A small instance of RiskEngine. *)
EXTENDS RiskEngine

CONSTANTS r1, r2, r3

ThreeRequests == {r1, r2, r3}
OneHigh == {r1}
OneWithoutIP == {r2}
=============================================================================
