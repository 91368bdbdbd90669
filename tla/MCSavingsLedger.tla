-------------------------- MODULE MCSavingsLedger --------------------------
(* Instances of SavingsLedger for TLC.                                      *)
EXTENDS SavingsLedger, TLC
=============================================================================
