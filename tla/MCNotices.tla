------------------------------ MODULE MCNotices -------------------------------
(***************************************************************************)
(* Webhooks and ProjectHub for TLC: the two ways the service calls agents  *)
(* back.  They share no state, so a behaviour is about one of them; the    *)
(* other stays as it began.  Calls and Requests are the same set here.     *)
(***************************************************************************)
EXTENDS Webhooks, ProjectHub, TLC

CONSTANT MaxHubRequests

VARIABLE way

ASSUME HubAssumption == HubConstants /\ MaxHubRequests \in Nat

Init == way \in {"webhooks", "project"} /\ WebhookInit /\ HubInit

Next ==
  /\ way' = way
  /\ \/ way = "webhooks" /\ WebhookNext /\ UNCHANGED hubVars
     \/ way = "project" /\ HubNext /\ UNCHANGED webhookVars
        /\ Cardinality({r \in Requests : req'[r] # Unmade}) <= MaxHubRequests

Spec == Init /\ [][Next]_<<way, webhookVars, hubVars>>

Symmetry ==
  Permutations(Hooks) \cup Permutations(Calls) \cup Permutations(Dispatches) \cup Permutations(Streams)
================================================================================
