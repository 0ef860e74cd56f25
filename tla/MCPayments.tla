------------------------------- MODULE MCPayments -------------------------------
(***************************************************************************)
(* Small instances of Payments.                                             *)
(***************************************************************************)
EXTENDS Payments, TLC

CONSTANTS c1, c2, k1

CardSymmetry == Permutations(Cards)
===============================================================================
