--------------------------------- MODULE MCChat --------------------------------
(***************************************************************************)
(* Chat for TLC.  The page requests of a tab are interchangeable.          *)
(***************************************************************************)
EXTENDS Chat, TLC

Symmetry == Permutations(Fetches)
================================================================================
