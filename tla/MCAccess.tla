------------------------------- MODULE MCAccess -------------------------------
(***************************************************************************)
(* SignIn and AgentAccess for TLC.  People and agents come in by different *)
(* doors that share no state, so a behaviour is about one of them; the     *)
(* other stays as it began.  Calls and Requests are the same set here.     *)
(***************************************************************************)
EXTENDS SignIn, AgentAccess, TLC

CONSTANT MaxAgentRequests

VARIABLE door

ASSUME AccessAssumption == SignInConstants /\ AccessConstants /\ MaxAgentRequests \in Nat

Init == door \in {"person", "agent"} /\ SignInInit /\ AccessInit

Next ==
  /\ door' = door
  /\ \/ door = "person" /\ SignInNext /\ UNCHANGED accessVars
     \/ door = "agent" /\ AccessNext /\ UNCHANGED signInVars
        /\ Cardinality({c \in Requests : req'[c] # Unmade}) <= MaxAgentRequests

Spec == Init /\ [][Next]_<<door, signInVars, accessVars>>

Symmetry == Permutations(Calls) \cup Permutations(Tabs)
================================================================================
