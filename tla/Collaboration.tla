------------------------------ MODULE Collaboration ----------------------------
(***************************************************************************)
(* What the agents of a project are shown: tasks with their threads        *)
(* (services/a2a-mailbox.service.ts) and the project as its lead or a      *)
(* member sees it (services/agent-project.service.ts).                     *)
(*                                                                         *)
(* A view is put together by several statements while the project and its  *)
(* mailbox move on.  Every entry shows the same: both bindings of the      *)
(* sender, the owner's routes, and the answer of every request that has    *)
(* just changed what it shows.  One member is assigned every task.         *)
(***************************************************************************)
EXTENDS AgentProject

CONSTANTS
  Readers   \* views being put together at the same time

VARIABLE view

collaborationVars == <<vars, view>>

--------------------------------------------------------------------------------
Nothing == [of |-> "nothing"]

\* A view of tasks: the rows that were read, what is still to be read of each, and
\* what was found attached.  "closed" is not shown: it says for which tasks the end
\* had settled when the row was read.
TaskView == [of : {"tasks"}, rows : UNION {[ts -> Live \cup Terminal] : ts \in SUBSET Tasks},
             due : SUBSET Tasks, attached : SUBSET Calls, closed : SUBSET Tasks]

\* A view of the project: by whom, the status column, the recorded tasks once they
\* are read and then their statuses.
ProjectView == [of : {"project"}, lead : BOOLEAN, row : ProjectStatus, closed : BOOLEAN,
                at : {"tasks", "states", "shown"}, tasks : SUBSET Tasks,
                statuses : UNION {[ts -> {"assigned", "in_progress", "review", "failed", "completed", "canceled"}] :
                                  ts \in SUBSET Tasks}]

CollaborationTypeOK ==
  /\ TypeOK
  /\ view \in [Readers -> {Nothing} \cup TaskView \cup ProjectView]

CollaborationInit == Init /\ view = [v \in Readers |-> Nothing]

Finished(v) ==
  \/ view[v] = Nothing
  \/ view[v].of = "tasks" /\ view[v].due = {}
  \/ view[v].of = "project" /\ view[v].at = "shown"

Shows(v, what) == view' = [view EXCEPT ![v] = what]

--------------------------------------------------------------------------------
(* Tasks *)

TaskSettled(t) == ThreadClosed(t) /\ \E s \in Terminal : SettledAs(t, s)

RowsOf(ts) ==
  [of |-> "tasks", rows |-> [t \in ts |-> tasks[t].state], due |-> ts,
   attached |-> {}, closed |-> {t \in ts : TaskSettled(t)}]

\* Mutant: the rows as they are, without thread and deliverables.
fetchTaskRowsBare(v, ts) ==
  /\ Finished(v)
  /\ Shows(v, [RowsOf(ts) EXCEPT !.due = {}])
  /\ UNCHANGED vars

\* One task, or every task of the mailbox, by one statement ...
fetchTaskRows(v, ts) ==
  /\ Finished(v)
  /\ Shows(v, RowsOf(ts))
  /\ UNCHANGED vars

\* ... and then what is attached to each.  Messages and artifacts are two tables, read
\* side by side; one step stands for both.
buildFullTaskResponse(v) ==
  /\ view[v].of = "tasks"
  /\ \E t \in view[v].due :
       Shows(v, [view[v] EXCEPT !.due = @ \ {t}, !.attached = @ \cup thread[t]])
  /\ UNCHANGED vars

\* getTaskAsSender, getTaskAsRecipient; who asks for another's task is turned away.
getTask(v) == \E t \in Tasks : tasks[t].state # "absent" /\ fetchTaskRows(v, {t})

\* listTasksAsSender, listTasksAsRecipient: the filters and the limit leave some of them.
listTasks(v) ==
  \E ts \in SUBSET {t \in Tasks : tasks[t].state # "absent"} : fetchTaskRows(v, ts)

LookAtTasks(v) == getTask(v) \/ listTasks(v) \/ buildFullTaskResponse(v)

--------------------------------------------------------------------------------
(* The project *)

\* The row, for the lead or for a member; another agent is turned away.
getProjectForAgent(v, lead) ==
  /\ Finished(v)
  /\ Shows(v, [of |-> "project", lead |-> lead, row |-> project,
               closed |-> ProjectClosed /\ \A t \in recorded : TaskSettled(t),
               at |-> "tasks", tasks |-> {}, statuses |-> <<>>])
  /\ UNCHANGED vars

\* The recorded tasks; a member's own are all of them here.
fetchTasks(v) ==
  /\ view[v].of = "project" /\ view[v].at = "tasks"
  /\ Shows(v, [view[v] EXCEPT !.tasks = recorded, !.at = "states"])
  /\ UNCHANGED vars

\* Their states, from the mailbox by one statement.
ReadStates(v) ==
  /\ view[v].of = "project" /\ view[v].at = "states"
  /\ Shows(v, [view[v] EXCEPT
                 !.statuses = [t \in view[v].tasks |-> a2aStateToProjectTaskStatus(tasks[t].state)],
                 !.at = "shown"])
  /\ UNCHANGED vars

Statuses(p) == {p.statuses[t] : t \in p.tasks}

\* Mutant: the status is derived whatever the lead has done.
ShownStatusDerived(p) == IF p.lead THEN computeProjectStatus(Statuses(p)) ELSE p.row

\* A member is shown the column, the lead what follows from the tasks.
ShownStatus(p) ==
  IF ~p.lead \/ p.row = "canceled" THEN p.row ELSE computeProjectStatus(Statuses(p))

LookAtProject(v) ==
  (\E lead \in BOOLEAN : getProjectForAgent(v, lead)) \/ fetchTasks(v) \/ ReadStates(v)

--------------------------------------------------------------------------------
Look(v) == LookAtTasks(v) \/ LookAtProject(v)

CollaborationNext ==
  \/ Next /\ UNCHANGED view
  \/ \E v \in Readers : Look(v)

CollaborationSpec == CollaborationInit /\ [][CollaborationNext]_collaborationVars

--------------------------------------------------------------------------------
(* What the views promise *)

\* A view of a task whose end had settled shows that end and the whole thread, what
\* its recipient delivered last included, and remains right.
EndedTaskIsWhole ==
  \A v \in Readers : Finished(v) /\ view[v].of = "tasks" =>
    \A t \in view[v].closed :
      view[v].rows[t] = tasks[t].state /\ thread[t] \subseteq view[v].attached

\* Whoever looks at a closed project whose tasks have ended sees it as it is and stays:
\* the lead and the member the same.
ClosedProjectIsWhole ==
  \A v \in Readers : Finished(v) /\ view[v].of = "project" /\ view[v].closed =>
    /\ ShownStatus(view[v]) = "canceled"
    /\ view[v].tasks = recorded
    /\ \A t \in recorded : view[v].statuses[t] = a2aStateToProjectTaskStatus(tasks[t].state)

--------------------------------------------------------------------------------
(* What the repository says and the code does not keep *)

\* "It is `completed` when every task is completed" (docs-site/content/docs/
\* agent-projects.mdx): the member is shown the column, which stays active.
CompletedIsShared ==
  \A v \in Readers : Finished(v) /\ view[v].of = "project" /\ view[v].row = "active" =>
    (Statuses(view[v]) = {"completed"} => ShownStatus(view[v]) = "completed")
================================================================================
