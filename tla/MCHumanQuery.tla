----------------------------- MODULE MCHumanQuery ------------------------------
(***************************************************************************)
(* HumanQuery for TLC: requests are interchangeable.                      *)
(***************************************************************************)
EXTENDS HumanQuery, TLC

Symmetry == Permutations(Calls)
================================================================================
