----------------------------- MODULE MCAgentClient -----------------------------
(***************************************************************************)
(* AgentClient for TLC: a call of any kind, beside one that registers from *)
(* the same address.  A listing of conversations comes to its end whatever *)
(* there is to list, and takes no part (see WholeListing).                 *)
(***************************************************************************)
EXTENDS AgentClient

CONSTANTS main, other

Any == [op : {"wait"}, sdk : {"typescript"}, budget : {2, None}]
         \cup [op : {"request"}, sdk : {"python"}]
         \cup [op : {"list"}, sdk : {"typescript"}, of : {"messages"}, pages : {2}]

MCListings == [c \in Calls |-> [op : {"list"}, sdk : {"typescript", "python"}, of : {"conversations"}, pages : {2}]]

MCJobs == [c \in Calls |-> IF c = main THEN Any ELSE [op : {"register"}, sdk : {"typescript"}]]
================================================================================
