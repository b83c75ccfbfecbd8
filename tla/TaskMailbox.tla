------------------------------ MODULE TaskMailbox ------------------------------
(***************************************************************************)
(* Tasks that agents drop into each other's mailboxes                      *)
(* (services/a2a-mailbox.service.ts), the requests that move them, and the *)
(* events of their streams (publishTaskEvent).                             *)
(*                                                                         *)
(* No statement of this service is guarded or locked: a request reads the  *)
(* row, decides, and writes by id.  Each statement and each publication is *)
(* one step.  A request refused at its first read (another agent's task, a *)
(* terminal task) writes nothing and has no action.                        *)
(***************************************************************************)
EXTENDS Naturals

CONSTANTS
  Tasks,     \* a2a_tasks rows that may come to exist
  Calls,     \* requests of senders and recipients; each is made at most once
  Reports,   \* the states a recipient reports
  None       \* null

ASSUME MailboxConstants ==
  /\ Reports \subseteq {"submitted", "working", "input_required",
                        "completed", "failed", "canceled", "rejected"}
  /\ None \notin Tasks

VARIABLES
  tasks,     \* the row of each task
  thread,    \* calls whose message or artifact is attached to the task
  events,    \* what has been published on the task's channel
  op, pc,    \* what each call does, and where it is or how it ended
  subject,   \* the task it is about
  report,    \* the state it is to write
  wrote,     \* the version its write produced
  reread     \* the version it read back, to publish

rows        == <<tasks, thread, events>>
calls       == <<op, pc, subject, report, wrote, reread>>
mailboxVars == <<rows, calls>>

--------------------------------------------------------------------------------
Live     == {"submitted", "working", "input_required"}
Terminal == {"completed", "failed", "canceled", "rejected"}

\* The version stands for updated_at: every write of the row renews it.
Task   == [state : {"absent"} \cup Live \cup Terminal, version : Nat]
NoTask == [state |-> "absent", version |-> 0]

\* A status event carries the row that was read back, any other its message or artifact.
StatusEvent(version) == [kind |-> "task_status", version |-> version, by |-> None]
PostEvent(c)         == [kind |-> "post", version |-> 0, by |-> c]
Event == [kind : {"task_status", "post"}, version : Nat, by : Calls \cup {None}]

\* "error": the request failed after its write, when it notified.
Step  == {"write", "reread", "insert", "publish"}
Ended == {"ok", "error", "crashed"}

MailboxTypeOK ==
  /\ tasks \in [Tasks -> Task]
  /\ thread \in [Tasks -> SUBSET Calls]
  /\ events \in [Tasks -> SUBSET Event]
  /\ op \in [Calls -> {"none", "status", "cancel", "post"}]
  /\ pc \in [Calls -> {"idle"} \cup Step \cup Ended]
  /\ subject \in [Calls -> Tasks \cup {None}]
  /\ report \in [Calls -> Live \cup Terminal \cup {None}]
  /\ wrote \in [Calls -> Nat]
  /\ reread \in [Calls -> Nat]

MailboxInit ==
  /\ tasks = [t \in Tasks |-> NoTask]
  /\ thread = [t \in Tasks |-> {}]
  /\ events = [t \in Tasks |-> {}]
  /\ op = [c \in Calls |-> "none"]
  /\ pc = [c \in Calls |-> "idle"]
  /\ subject = [c \in Calls |-> None]
  /\ report = [c \in Calls |-> None]
  /\ wrote = [c \in Calls |-> 0]
  /\ reread = [c \in Calls |-> 0]

--------------------------------------------------------------------------------
\* Mutant: a canceled task is taken for a live one.
isTerminalUncanceled(state) == state \in Terminal \ {"canceled"}

isTerminalInternalState(state) == state \in Terminal

\* Mutant: a terminal task may be moved to another terminal state.
MayReportTerminal(state, new) == ~ (isTerminalInternalState(state) /\ ~ isTerminalInternalState(new))

\* The check of updateTaskStatus: a terminal task may only be reported again as it is.
MayReport(state, new) == ~ (isTerminalInternalState(state) /\ state # new)

Begin(c, o, t, new, at) ==
  /\ pc[c] = "idle"
  /\ tasks[t].state # "absent"
  /\ op' = [op EXCEPT ![c] = o]
  /\ pc' = [pc EXCEPT ![c] = at]
  /\ subject' = [subject EXCEPT ![c] = t]
  /\ report' = [report EXCEPT ![c] = new]
  /\ UNCHANGED <<rows, wrote, reread>>

Goto(c, at) ==
  /\ pc' = [pc EXCEPT ![c] = at]
  /\ UNCHANGED <<op, subject, report>>

\* The task and its first message are inserted in one transaction.
sendMessage(t) ==
  /\ tasks[t].state = "absent"
  /\ tasks' = [tasks EXCEPT ![t] = [state |-> "submitted", version |-> 1]]
  /\ UNCHANGED <<thread, events, calls>>

\* The recipient reports a state; the row is read and checked.
updateTaskStatus(c, t, new) ==
  /\ MayReport(tasks[t].state, new)
  /\ Begin(c, "status", t, new, "write")

\* Either side cancels: cancelTaskAsSender, cancelTaskAsRecipient.
cancelTask(c, t) ==
  /\ ~ isTerminalInternalState(tasks[t].state)
  /\ Begin(c, "cancel", t, "canceled", "write")

\* The recipient appends a message or an artifact: addTaskMessage, addTaskArtifact.
addToTask(c, t) ==
  /\ ~ isTerminalInternalState(tasks[t].state)
  /\ Begin(c, "post", t, None, "insert")

\* The UPDATE, by id.  A cancellation then only reads the row it returns.
WriteState(c) ==
  LET t == subject[c] IN
  /\ pc[c] = "write"
  /\ tasks' = [tasks EXCEPT ![t] = [state |-> report[c], version |-> @.version + 1]]
  /\ wrote' = [wrote EXCEPT ![c] = tasks[t].version + 1]
  /\ Goto(c, IF op[c] = "status" THEN "reread" ELSE "ok")
  /\ UNCHANGED <<thread, events, reread>>

\* Mutant: the row that was read for the check is published.
ReadBackBefore(c) ==
  /\ pc[c] = "reread"
  /\ reread' = [reread EXCEPT ![c] = wrote[c] - 1]
  /\ Goto(c, "publish")
  /\ UNCHANGED <<rows, wrote>>

\* The row is read again, whoever has written it by now.
ReadBack(c) ==
  /\ pc[c] = "reread"
  /\ reread' = [reread EXCEPT ![c] = tasks[subject[c]].version]
  /\ Goto(c, "publish")
  /\ UNCHANGED <<rows, wrote>>

InsertPost(c) ==
  /\ pc[c] = "insert"
  /\ thread' = [thread EXCEPT ![subject[c]] = @ \cup {c}]
  /\ Goto(c, "publish")
  /\ UNCHANGED <<tasks, events, wrote, reread>>

NewEvent(c) == IF op[c] = "status" THEN StatusEvent(reread[c]) ELSE PostEvent(c)

\* The event is published and the caller answered; Redis, or the lookup of the
\* sender's callback after it, may fail instead, and the caller gets an error.
Publish(c) ==
  /\ pc[c] = "publish"
  /\ \/ /\ events' = [events EXCEPT ![subject[c]] = @ \cup {NewEvent(c)}]
        /\ \E outcome \in {"ok", "error"} : Goto(c, outcome)
     \/ /\ UNCHANGED events
        /\ Goto(c, "error")
  /\ UNCHANGED <<tasks, thread, wrote, reread>>

\* The process that serves the call dies.
Crash(c) ==
  /\ pc[c] \in Step
  /\ Goto(c, "crashed")
  /\ UNCHANGED <<rows, wrote, reread>>

Serve(c) == WriteState(c) \/ ReadBack(c) \/ InsertPost(c) \/ Publish(c)

Work(c) ==
  \/ \E t \in Tasks : \/ \E new \in Reports : updateTaskStatus(c, t, new)
                      \/ cancelTask(c, t)
                      \/ addToTask(c, t)
  \/ Serve(c)
  \/ Crash(c)

MailboxNext == (\E t \in Tasks : sendMessage(t)) \/ (\E c \in Calls : Work(c))

MailboxSpec == MailboxInit /\ [][MailboxNext]_mailboxVars

--------------------------------------------------------------------------------
(* What the mailbox promises *)

\* Task t ended as s, and no call in flight is about to write another state.
SettledAs(t, s) ==
  /\ tasks[t].state = s
  /\ \A c \in Calls : pc[c] = "write" /\ subject[c] = t => report[c] = s

\* Task t has ended, and no call in flight is about to add to its thread.
ThreadClosed(t) ==
  /\ tasks[t].state \in Terminal
  /\ \A c \in Calls : ~ (pc[c] = "insert" /\ subject[c] = t)
  /\ \A c \in Calls : ~ (pc[c] = "write" /\ subject[c] = t /\ report[c] \notin Terminal)

\* Once the calls that raced a task's end are over, nothing moves it any more: no
\* later report, cancellation, message or artifact.
EndSettles ==
  [][\A t \in Tasks :
       /\ \A s \in Terminal : SettledAs(t, s) => SettledAs(t, s)'
       /\ ThreadClosed(t) => ThreadClosed(t)' /\ thread'[t] = thread[t]]_mailboxVars

\* A recipient whose call succeeded knows the sender's stream carried it: a status
\* event with its write or a later one, or its message.
SuccessWasTold ==
  \A c \in Calls :
    /\ pc[c] = "ok" /\ op[c] = "status" =>
         \E v \in wrote[c] .. tasks[subject[c]].version :
           StatusEvent(v) \in events[subject[c]]
    /\ pc[c] = "ok" /\ op[c] = "post" =>
         c \in thread[subject[c]] /\ PostEvent(c) \in events[subject[c]]

--------------------------------------------------------------------------------
(* What the repository says and the code does not keep *)

\* "Task is already in terminal state" (a2a-mailbox.service.ts): the 409 that either
\* side gets, so that a terminal task never takes another state.
TerminalIsFinal ==
  [][\A t \in Tasks : tasks[t].state \in Terminal =>
       tasks'[t].state = tasks[t].state]_tasks
================================================================================
