------------------------------ MODULE MCReached --------------------------------
(***************************************************************************)
(* QueryLink and Trust for TLC: the two ways an agent reaches a human, a   *)
(* link in an email and a conversation the human is invited to.  They      *)
(* share no state, so a behaviour is about one of them; the other stays    *)
(* as it began.                                                            *)
(***************************************************************************)
EXTENDS QueryLink, Trust, TLC

CONSTANTS Agent, Respelled, MaxCalls

VARIABLES way, calls

ASSUME ReachedAssumption == TrustConstants /\ MaxCalls \in Nat

MCAgents    == {Agent}
MCAddresses == (Humans \X {TRUE}) \cup (Respelled \X {FALSE})
MCCreator   == [k \in Conversations |-> Agent]

MCInit == way \in {"link", "invitation"} /\ calls = 0 /\ LinkInit /\ TrustInit

\* Bound: a second round is counted where one tab at most has been opened.
LinkBounds == rounds' > 1 => Cardinality({t \in Tabs : tab'[t].shows # "closed"}) <= 1

\* Bounds: MaxCalls requests, all of them after the conversations.
Bounds ==
  /\ calls' = calls + (IF \E c \in Requests : request[c] = Idle /\ request'[c] # Idle THEN 1 ELSE 0)
  /\ calls' <= MaxCalls
  /\ calls' > 0 => \A k \in Conversations : conversations'[k] # "none"
  /\ calls > 0 => UNCHANGED conversations

MCNext ==
  /\ way' = way
  /\ \/ way = "link" /\ LinkNext /\ LinkBounds /\ UNCHANGED <<calls, trustVars>>
     \/ way = "invitation" /\ TrustNext /\ Bounds /\ UNCHANGED linkVars

MCSpec == MCInit /\ [][MCNext]_<<way, calls, linkVars, trustVars>>

Symmetry == Permutations(Tabs) \cup Permutations(Answers)
    \cup Permutations(Requests)
================================================================================
