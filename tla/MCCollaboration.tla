---------------------------- MODULE MCCollaboration ----------------------------
(***************************************************************************)
(* Collaboration for TLC, in three parts: what the project and its mailbox *)
(* do, with every request; what is shown of it meanwhile, with fewer of    *)
(* them; and the keys of the command line, which shares nothing with the   *)
(* others.  The parts a behaviour is not about stay as they began.         *)
(***************************************************************************)
EXTENDS Collaboration, KeysFile, FiniteSets, TLC

CONSTANT MaxShown

VARIABLE part

ASSUME CollaborationAssumption == MaxShown \in Nat

MCInit == part \in {"project", "shown", "keys"} /\ CollaborationInit /\ KeysInit

FewRequests ==
  Cardinality({c \in Calls : pc'[c] # "idle"}) + Cardinality({a \in Assigners : step'[a] # "idle"})
    <= MaxShown

MCNext ==
  /\ part' = part
  /\ \/ part = "project" /\ Next /\ UNCHANGED <<view, keysVars>>
     \/ part = "shown" /\ CollaborationNext /\ FewRequests /\ UNCHANGED keysVars
     \/ part = "keys" /\ KeysNext /\ UNCHANGED collaborationVars

MCSpec == MCInit /\ [][MCNext]_<<part, collaborationVars, keysVars>>

Symmetry == Permutations(Calls) \cup Permutations(Assigners) \cup Permutations(Tasks)
================================================================================
