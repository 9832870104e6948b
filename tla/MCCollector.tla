---------------------------- MODULE MCCollector ----------------------------
(***************************************************************************)
(* Collector under TLC: accounts are interchangeable.                      *)
(***************************************************************************)
EXTENDS Collector, TLC

AccountSymmetry == Permutations(Account)
=============================================================================
