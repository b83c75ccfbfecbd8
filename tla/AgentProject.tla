------------------------------ MODULE AgentProject -----------------------------
(***************************************************************************)
(* A project of agents (services/agent-project.service.ts) whose lead      *)
(* assigns tasks through the mailbox.  The project stores its own status   *)
(* and the list of its tasks; how far they are is read off the mailbox.    *)
(*                                                                         *)
(* Every task of the model is one of this project, so the mailbox moves    *)
(* as in TaskMailbox except that a task is sent by an assignment.  That    *)
(* the assignee is an active participant is not modelled: no code removes  *)
(* a participant, so the check never turns false.                          *)
(***************************************************************************)
EXTENDS TaskMailbox

CONSTANTS
  Assigners   \* requests of the lead that create a task, each made at most once

ASSUME ProjectConstants == None \notin Assigners

VARIABLES
  project,    \* the status column of agent_projects
  recorded,   \* tasks with a row in agent_project_tasks
  step,       \* where each assignment is, or how it ended
  sent        \* the task it has delivered

projectVars == <<project, recorded, step, sent>>
vars        == <<mailboxVars, projectVars>>

--------------------------------------------------------------------------------
ProjectStatus == {"active", "paused", "completed", "canceled"}

TypeOK ==
  /\ MailboxTypeOK
  /\ project \in ProjectStatus
  /\ recorded \in SUBSET Tasks
  /\ step \in [Assigners -> {"idle", "send", "record", "ok", "crashed"}]
  /\ sent \in [Assigners -> Tasks \cup {None}]

Init ==
  /\ MailboxInit
  /\ project = "active"
  /\ recorded = {}
  /\ step = [a \in Assigners |-> "idle"]
  /\ sent = [a \in Assigners |-> None]

\* How a task's state shows up in the project.
a2aStateToProjectTaskStatus(state) ==
  CASE state = "working"                -> "in_progress"
    [] state = "input_required"         -> "review"
    [] state \in {"failed", "rejected"} -> "failed"
    [] state \in {"completed", "canceled"} -> state
    [] OTHER                            -> "assigned"

projectTaskStatuses == {a2aStateToProjectTaskStatus(tasks[t].state) : t \in recorded}

computeProjectStatus(statuses) ==
  IF statuses = {"completed"} THEN "completed"
  ELSE IF statuses = {"canceled"} THEN "canceled"
  ELSE "active"

\* The status the lead is shown.
Status == IF project = "canceled" THEN "canceled"
          ELSE computeProjectStatus(projectTaskStatuses)

--------------------------------------------------------------------------------
StepTo(a, at) == step' = [step EXCEPT ![a] = at]

\* Mutant: only a completed project is turned away.
AssignCheckCanceled(a) ==
  /\ step[a] = "idle"
  /\ project # "completed"
  /\ StepTo(a, "send")
  /\ UNCHANGED <<mailboxVars, project, recorded, sent>>

\* createTask reads the project row and turns away a closed project.
AssignCheck(a) ==
  /\ step[a] = "idle"
  /\ project \notin {"canceled", "completed"}
  /\ StepTo(a, "send")
  /\ UNCHANGED <<mailboxVars, project, recorded, sent>>

\* The task is delivered to the assignee's mailbox ...
AssignSend(a) ==
  /\ step[a] = "send"
  /\ \E t \in Tasks : sendMessage(t) /\ sent' = [sent EXCEPT ![a] = t]
  /\ StepTo(a, "record")
  /\ UNCHANGED <<project, recorded>>

\* Mutant: a project closed in the meantime takes no record.
AssignRecordActive(a) ==
  /\ step[a] = "record"
  /\ recorded' = IF project = "active" THEN recorded \cup {sent[a]} ELSE recorded
  /\ StepTo(a, "ok")
  /\ UNCHANGED <<mailboxVars, project, sent>>

\* ... and then recorded in the project, by a statement of its own.
AssignRecord(a) ==
  /\ step[a] = "record"
  /\ recorded' = recorded \cup {sent[a]}
  /\ StepTo(a, "ok")
  /\ UNCHANGED <<mailboxVars, project, sent>>

\* An error on the way, or the death of the process: nothing is undone.
AssignCrash(a) ==
  /\ step[a] \in {"send", "record"}
  /\ StepTo(a, "crashed")
  /\ UNCHANGED <<mailboxVars, project, recorded, sent>>

\* The lead cancels.  A second cancellation that read the row before writes the same.
cancelProject ==
  /\ project # "canceled"
  /\ project' = "canceled"
  /\ UNCHANGED <<mailboxVars, recorded, step, sent>>

Assign(a) == AssignCheck(a) \/ AssignSend(a) \/ AssignRecord(a) \/ AssignCrash(a)

Next ==
  \/ cancelProject
  \/ \E a \in Assigners : Assign(a)
  \/ \E c \in Calls : Work(c) /\ UNCHANGED projectVars

Spec == Init /\ [][Next]_vars

--------------------------------------------------------------------------------
(* What a project promises *)

\* The project knows of every delivered task, but for the one an assignment has
\* sent and not recorded yet, or died before recording; and it lists no other.
DeliveriesAreKnown ==
  /\ \A t \in recorded : tasks[t].state # "absent"
  /\ \A t \in Tasks : tasks[t].state # "absent" /\ t \notin recorded =>
       \E a \in Assigners : sent[a] = t /\ step[a] \in {"record", "crashed"}

\* Once a project is canceled and the assignments that raced it are over, nothing
\* is delivered or recorded any more.
ProjectClosed == project = "canceled" /\ \A a \in Assigners : step[a] \notin {"send", "record"}

CanceledSettles ==
  [][ProjectClosed =>
       /\ ProjectClosed'
       /\ recorded' = recorded
       /\ \A t \in Tasks : tasks[t].state = "absent" => tasks'[t].state = "absent"]_vars

\* A project whose tasks have all ended for good shows another status only when the
\* lead cancels it or another task is recorded.
Done == \A t \in recorded : \E s \in Terminal : SettledAs(t, s)

StatusSettles ==
  [][Done /\ project' = project /\ recorded' = recorded
       => Done' /\ Status' = Status]_vars

\* The project moves its mailbox only as the mailbox may move.
KeepsMailbox == MailboxSpec

--------------------------------------------------------------------------------
(* What the repository says and the code does not keep *)

\* "409: The project is canceled or completed" (routes/agent/projects.ts): no task is
\* assigned in a project that the lead is shown as closed.
ClosedTakesNoTask ==
  [][\A a \in Assigners : step[a] = "idle" /\ step'[a] = "send" =>
       Status \notin {"canceled", "completed"}]_vars
================================================================================
