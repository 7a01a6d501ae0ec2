---------------------------- MODULE MCBankAdapter ----------------------------
(* A small instance of BankAdapter. *)
EXTENDS BankAdapter

CONSTANTS c1, c2, c3

ThreeCallers == {c1, c2, c3}
=============================================================================
