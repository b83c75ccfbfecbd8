------------------------------ MODULE QueryRecord ------------------------------
(***************************************************************************)
(* What a human query promises the agent that asked it, whatever requests  *)
(* are in flight: its status moves along one automaton, the decision of    *)
(* the human is recorded at most once, and a settled query never changes.  *)
(* The automaton is the one of the status column (schema/human-queries.ts) *)
(* as the writers of src/services/query.service.ts and                     *)
(* src/services/invitation.service.ts move it.  HumanQuery implements it.  *)
(***************************************************************************)
CONSTANTS
  Decisions,   \* the answers people may submit
  None         \* no decision

VARIABLES
  status,
  decision     \* the answer the record holds

recordVars == <<status, decision>>

Open    == {"pending", "assigned", "needs_context"}
Settled == {"answered", "expired", "cancelled"}
Status  == {"absent"} \cup Open \cup Settled

RecordTypeOK ==
  /\ status \in Status
  /\ decision \in Decisions \cup {None}

Init ==
  /\ status = "absent"
  /\ decision = None

--------------------------------------------------------------------------------
Create ==
  /\ status = "absent"
  /\ status' \in {"pending", "assigned"}
  /\ UNCHANGED decision

Move(from, to) ==
  /\ status \in from
  /\ status' = to
  /\ UNCHANGED decision

Assign   == Move({"pending"}, "assigned")
AskBack  == Move({"pending", "assigned"}, "needs_context")
Clarify  == Move({"needs_context"}, "assigned")
Withdraw == Move(Open, "cancelled")
Expire   == Move(Open, "expired")

Decide ==
  /\ status \in Open
  /\ status' = "answered"
  /\ decision' \in Decisions

Next == Create \/ Assign \/ AskBack \/ Clarify \/ Withdraw \/ Expire \/ Decide

Spec == Init /\ [][Next]_recordVars

================================================================================
