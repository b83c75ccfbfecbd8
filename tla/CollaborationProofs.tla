-------------------------- MODULE CollaborationProofs --------------------------
(***************************************************************************)
(* What TaskMailbox, AgentProject and Collaboration promise, for any       *)
(* number of tasks, requests, assignments and views, and what KeysFile     *)
(* promises, for any number of processes and names.                        *)
(***************************************************************************)
EXTENDS Collaboration, KeysFile, TLAPS

--------------------------------------------------------------------------------
(* The mailbox *)

USE MailboxConstants

\* Past its first read a call has a task that exists, and before its write a state.
CallsAim ==
  \A c \in Calls :
    /\ pc[c] # "idle" => subject[c] \in Tasks /\ tasks[subject[c]].state # "absent"
    /\ pc[c] = "write" => report[c] \in Live \cup Terminal

MailboxInv == MailboxTypeOK /\ CallsAim

\* The mailbox is empty at first, and nobody aims at anything.
LEMMA MailboxInvInit == MailboxInit => MailboxInv
BY DEF MailboxInit, MailboxInv, MailboxTypeOK, CallsAim, Task, NoTask

\* A call that begins is well typed, and aims at a task.
LEMMA BeginStep ==
  ASSUME MailboxInv, NEW c \in Calls, NEW t \in Tasks,
         NEW o \in {"status", "cancel", "post"},
         NEW new \in Live \cup Terminal \cup {None}, NEW at \in {"write", "insert"},
         at = "write" => new \in Live \cup Terminal,
         Begin(c, o, t, new, at)
  PROVE  MailboxInv'
BY DEF MailboxInv, MailboxTypeOK, CallsAim, Begin, Step, rows

\* Every step keeps the types and what calls aim at.
LEMMA MailboxInvStep == MailboxInv /\ [MailboxNext]_mailboxVars => MailboxInv'
<1> SUFFICES ASSUME MailboxInv, [MailboxNext]_mailboxVars PROVE MailboxInv'
  OBVIOUS
<1>1. ASSUME NEW t \in Tasks, sendMessage(t) PROVE MailboxInv'
  BY <1>1 DEF sendMessage, calls, MailboxInv, MailboxTypeOK, CallsAim, Task, Live
<1>2. ASSUME NEW c \in Calls, NEW t \in Tasks, NEW new \in Reports,
             updateTaskStatus(c, t, new)
      PROVE  MailboxInv'
  <2>1. new \in Live \cup Terminal
    BY DEF Live, Terminal
  <2>2. QED BY <1>2, <2>1, BeginStep DEF updateTaskStatus
<1>3. ASSUME NEW c \in Calls, NEW t \in Tasks, cancelTask(c, t) PROVE MailboxInv'
  <2>1. "canceled" \in Terminal
    BY DEF Terminal
  <2>2. QED BY <1>3, <2>1, BeginStep DEF cancelTask
<1>4. ASSUME NEW c \in Calls, NEW t \in Tasks, addToTask(c, t) PROVE MailboxInv'
  BY <1>4, BeginStep DEF addToTask
<1>5. ASSUME NEW c \in Calls, WriteState(c) PROVE MailboxInv'
  <2> USE DEF MailboxInv, MailboxTypeOK, CallsAim
  <2>1. subject[c] \in Tasks /\ report[c] \in Live \cup Terminal
    BY <1>5 DEF WriteState
  <2>2. tasks' \in [Tasks -> Task] /\ wrote' \in [Calls -> Nat]
    BY <1>5, <2>1 DEF WriteState, Task
  <2>3. \A t \in Tasks : tasks[t].state # "absent" => tasks'[t].state # "absent"
    BY <1>5, <2>1 DEF WriteState, Live, Terminal
  <2>4. CallsAim'
    BY <1>5, <2>1, <2>3 DEF WriteState, Goto
  <2>5. QED BY <1>5, <2>2, <2>4 DEF WriteState, Goto, Step, Ended
<1>6. ASSUME NEW c \in Calls, ReadBack(c) PROVE MailboxInv'
  BY <1>6 DEF ReadBack, Goto, rows, MailboxInv, MailboxTypeOK, CallsAim, Step, Task
<1>7. ASSUME NEW c \in Calls, InsertPost(c) PROVE MailboxInv'
  BY <1>7 DEF InsertPost, Goto, MailboxInv, MailboxTypeOK, CallsAim, Step
<1>8. ASSUME NEW c \in Calls, Publish(c) PROVE MailboxInv'
  <2> USE DEF MailboxInv, MailboxTypeOK, CallsAim
  <2>1. NewEvent(c) \in Event
    BY DEF NewEvent, StatusEvent, PostEvent, Event
  <2>2. events' \in [Tasks -> SUBSET Event]
    BY <1>8, <2>1 DEF Publish
  <2>3. QED BY <1>8, <2>2 DEF Publish, Goto, Ended
<1>9. ASSUME NEW c \in Calls, Crash(c) PROVE MailboxInv'
  BY <1>9 DEF Crash, Goto, rows, MailboxInv, MailboxTypeOK, CallsAim, Ended, Step
<1>10. CASE UNCHANGED mailboxVars
  BY <1>10 DEF mailboxVars, rows, calls, MailboxInv, MailboxTypeOK, CallsAim
<1>11. QED
  BY <1>1, <1>2, <1>3, <1>4, <1>5, <1>6, <1>7, <1>8, <1>9, <1>10
  DEF MailboxNext, Work, Serve

(* The type invariant of the mailbox's rows, events and requests. *)
THEOREM MailboxTypeCorrect == MailboxSpec => []MailboxTypeOK
<1>1. MailboxInv => MailboxTypeOK
  BY DEF MailboxInv
<1>2. QED BY <1>1, MailboxInvInit, MailboxInvStep, PTL DEF MailboxSpec

--------------------------------------------------------------------------------
(* The end of a task *)

\* What a step of the mailbox may not do to a task that has ended.
EndKept(t) ==
  /\ \A s \in Terminal : SettledAs(t, s) => SettledAs(t, s)'
  /\ ThreadClosed(t) => ThreadClosed(t)' /\ thread'[t] = thread[t]

\* A call that begins respects a task that has ended.
LEMMA BeginKeepsEnd ==
  ASSUME MailboxInv, NEW c \in Calls, NEW u \in Tasks, NEW t \in Tasks, NEW o, NEW new, NEW at,
         Begin(c, o, u, new, at), at \in {"write", "insert"},
         tasks[u].state \in Terminal => at = "write" /\ new = tasks[u].state
  PROVE  EndKept(t)
BY DEF MailboxInv, MailboxTypeOK, EndKept, SettledAs, ThreadClosed, Begin, rows

\* Every step respects a task that has ended.
LEMMA EndKeptStep ==
  ASSUME MailboxInv, [MailboxNext]_mailboxVars, NEW t \in Tasks
  PROVE  EndKept(t)
<1> USE DEF EndKept, SettledAs, ThreadClosed
<1>1. ASSUME NEW u \in Tasks, sendMessage(u) PROVE EndKept(t)
  BY <1>1 DEF sendMessage, calls, Terminal, MailboxInv, MailboxTypeOK
<1>2. ASSUME NEW c \in Calls, NEW u \in Tasks, NEW new \in Reports,
             updateTaskStatus(c, u, new)
      PROVE  EndKept(t)
  BY <1>2, BeginKeepsEnd DEF updateTaskStatus, MayReport, isTerminalInternalState
<1>3. ASSUME NEW c \in Calls, NEW u \in Tasks, cancelTask(c, u) PROVE EndKept(t)
  BY <1>3, BeginKeepsEnd DEF cancelTask, isTerminalInternalState
<1>4. ASSUME NEW c \in Calls, NEW u \in Tasks, addToTask(c, u) PROVE EndKept(t)
  BY <1>4, BeginKeepsEnd DEF addToTask, isTerminalInternalState
<1>5. ASSUME NEW c \in Calls, WriteState(c) PROVE EndKept(t)
  <2>1. tasks'[t].state = IF subject[c] = t THEN report[c] ELSE tasks[t].state
    BY <1>5 DEF WriteState, MailboxInv, MailboxTypeOK, CallsAim
  <2>2. pc[c] = "write" /\ thread' = thread /\ subject' = subject /\ report' = report
    BY <1>5 DEF WriteState, Goto
  <2>3. \A d \in Calls : pc'[d] \in {"write", "insert"} => pc'[d] = pc[d]
    BY <1>5 DEF WriteState, Goto, MailboxInv, MailboxTypeOK
  <2>4. QED BY <2>1, <2>2, <2>3
<1>6. ASSUME NEW c \in Calls, InsertPost(c) PROVE EndKept(t)
  BY <1>6 DEF InsertPost, Goto, MailboxInv, MailboxTypeOK, CallsAim
<1>7. ASSUME NEW c \in Calls, ReadBack(c) \/ Publish(c) \/ Crash(c) PROVE EndKept(t)
  BY <1>7 DEF ReadBack, Publish, Crash, Goto, rows, MailboxInv, MailboxTypeOK, Step
<1>8. CASE UNCHANGED mailboxVars
  BY <1>8 DEF mailboxVars, rows, calls
<1>9. QED
  BY <1>1, <1>2, <1>3, <1>4, <1>5, <1>6, <1>7, <1>8 DEF MailboxNext, Work, Serve

(* Once the calls that raced a task's end are over nothing moves it any more: the *)
(* checks of updateTaskStatus, updateTaskState and assertNotTerminal.             *)
THEOREM EndCorrect == MailboxSpec => EndSettles
<1>1. MailboxInv /\ [MailboxNext]_mailboxVars => \A t \in Tasks : EndKept(t)
  BY EndKeptStep
<1>2. MailboxInv /\ [MailboxNext]_mailboxVars =>
        [\A t \in Tasks :
           /\ \A s \in Terminal : SettledAs(t, s) => SettledAs(t, s)'
           /\ ThreadClosed(t) => ThreadClosed(t)' /\ thread'[t] = thread[t]]_mailboxVars
  BY <1>1 DEF EndKept
<1>3. QED BY <1>2, MailboxInvInit, MailboxInvStep, PTL DEF MailboxSpec, EndSettles

--------------------------------------------------------------------------------
(* What the sender is told *)

\* What call c has done of its work at each place, in terms of the rows.
OnItsWay(c) ==
  LET t == subject[c] IN
  /\ pc[c] = "write" => op[c] \in {"status", "cancel"}
  /\ pc[c] = "insert" => op[c] = "post"
  /\ pc[c] = "reread" => op[c] = "status" /\ wrote[c] <= tasks[t].version
  /\ pc[c] = "publish" =>
       \/ op[c] = "status" /\ wrote[c] <= reread[c] /\ reread[c] <= tasks[t].version
       \/ op[c] = "post" /\ c \in thread[t]

Told(c) ==
  LET t == subject[c] IN
  pc[c] = "ok" =>
    /\ op[c] = "status" => \E v \in wrote[c] .. tasks[t].version : StatusEvent(v) \in events[t]
    /\ op[c] = "post" => c \in thread[t] /\ PostEvent(c) \in events[t]

NewTasksUnversioned == \A t \in Tasks : tasks[t].state = "absent" => tasks[t].version = 0

ToldInv == NewTasksUnversioned /\ \A c \in Calls : OnItsWay(c) /\ Told(c)

\* What a call has told stays told: versions, threads and channels only grow.
Grows ==
  \A t \in Tasks :
    /\ tasks[t].version <= tasks'[t].version
    /\ thread[t] \subseteq thread'[t]
    /\ events[t] \subseteq events'[t]

\* A call that does not move keeps its claims while the rows grow.
LEMMA OthersStay ==
  ASSUME MailboxInv, MailboxInv', ToldInv, Grows, NEW d \in Calls,
         op'[d] = op[d], pc'[d] = pc[d], subject'[d] = subject[d],
         wrote'[d] = wrote[d], reread'[d] = reread[d]
  PROVE  OnItsWay(d)' /\ Told(d)'
<1>1. CASE pc[d] = "idle"
  BY <1>1 DEF OnItsWay, Told
<1>2. CASE pc[d] # "idle"
  <2> DEFINE t == subject[d]
  <2>1. /\ t \in Tasks
        /\ tasks[t].version \in Nat /\ tasks'[t].version \in Nat
        /\ wrote[d] \in Nat /\ reread[d] \in Nat
    BY <1>2 DEF MailboxInv, MailboxTypeOK, CallsAim, Task
  <2>2. OnItsWay(d)'
    BY <2>1 DEF OnItsWay, ToldInv, Grows
  <2>3. ASSUME pc[d] = "ok", op[d] = "status"
        PROVE  \E v \in wrote[d] .. tasks'[t].version : StatusEvent(v) \in events'[t]
    <3>1. PICK v \in wrote[d] .. tasks[t].version : StatusEvent(v) \in events[t]
      BY <2>3 DEF ToldInv, Told
    <3>2. v \in wrote[d] .. tasks'[t].version
      BY <2>1 DEF Grows
    <3>3. QED BY <2>1, <3>1, <3>2 DEF Grows
  <2>4. ASSUME pc[d] = "ok", op[d] = "post"
        PROVE  d \in thread'[t] /\ PostEvent(d) \in events'[t]
    BY <2>1, <2>4 DEF ToldInv, Told, Grows
  <2>5. Told(d)'
    BY <2>3, <2>4 DEF Told, StatusEvent, PostEvent
  <2>6. QED BY <2>2, <2>5
<1>3. QED BY <1>1, <1>2

\* A call that moved carries its own claims, the others keep theirs.
LEMMA OneMoves ==
  ASSUME MailboxInv, MailboxInv', ToldInv, Grows, NEW c \in Calls,
         \A d \in Calls \ {c} :
           /\ op'[d] = op[d] /\ pc'[d] = pc[d] /\ subject'[d] = subject[d]
           /\ wrote'[d] = wrote[d] /\ reread'[d] = reread[d],
         OnItsWay(c)' /\ Told(c)'
  PROVE  \A d \in Calls : OnItsWay(d)' /\ Told(d)'
BY OthersStay

\* Every step keeps what calls have told, and what they are about to.
LEMMA ToldStep == MailboxInv /\ MailboxInv' /\ ToldInv /\ [MailboxNext]_mailboxVars => ToldInv'
<1> SUFFICES ASSUME MailboxInv, MailboxInv', ToldInv, [MailboxNext]_mailboxVars
             PROVE  ToldInv'
  OBVIOUS
<1> DEFINE Same(d) == /\ op'[d] = op[d] /\ pc'[d] = pc[d] /\ subject'[d] = subject[d]
                      /\ wrote'[d] = wrote[d] /\ reread'[d] = reread[d]
<1>a. NewTasksUnversioned'
  <2> USE DEF NewTasksUnversioned, ToldInv, MailboxInv, MailboxTypeOK
  <2>1. ASSUME NEW t \in Tasks, sendMessage(t) PROVE NewTasksUnversioned'
    BY <2>1 DEF sendMessage
  <2>2. ASSUME NEW c \in Calls, WriteState(c) PROVE NewTasksUnversioned'
    BY <2>2 DEF WriteState, CallsAim, Live, Terminal
  <2>3. CASE tasks' = tasks
    BY <2>3
  <2>4. QED
    BY <2>1, <2>2, <2>3 DEF MailboxNext, mailboxVars, rows, Work, Serve, updateTaskStatus,
       cancelTask, addToTask, Begin, ReadBack, InsertPost, Publish, Crash
<1>1. ASSUME NEW t \in Tasks, sendMessage(t) PROVE \A d \in Calls : OnItsWay(d)' /\ Told(d)'
  <2>1. Grows
    BY <1>1 DEF sendMessage, Grows, ToldInv, NewTasksUnversioned,
       MailboxInv, MailboxTypeOK, Task
  <2>2. QED BY <1>1, <2>1, OthersStay DEF sendMessage, calls
<1>2. ASSUME NEW c \in Calls, NEW t \in Tasks, NEW o, NEW new, NEW at,
             Begin(c, o, t, new, at),
             \/ at = "write" /\ o \in {"status", "cancel"}
             \/ at = "insert" /\ o = "post"
      PROVE  \A d \in Calls : OnItsWay(d)' /\ Told(d)'
  <2>1. Grows
    BY <1>2 DEF Begin, rows, Grows, MailboxInv, MailboxTypeOK, Task
  <2>2. \A d \in Calls \ {c} : Same(d)
    BY <1>2 DEF Begin, MailboxInv, MailboxTypeOK
  <2>3. OnItsWay(c)' /\ Told(c)'
    BY <1>2 DEF Begin, OnItsWay, Told, MailboxInv, MailboxTypeOK
  <2>4. QED BY <2>1, <2>2, <2>3, OneMoves
<1>3. ASSUME NEW c \in Calls, WriteState(c) PROVE \A d \in Calls : OnItsWay(d)' /\ Told(d)'
  <2>0. subject[c] \in Tasks /\ tasks[subject[c]].version \in Nat
    BY <1>3 DEF WriteState, MailboxInv, MailboxTypeOK, CallsAim, Task
  <2>1. Grows
    BY <1>3, <2>0 DEF WriteState, Grows, MailboxInv, MailboxTypeOK, Task
  <2>2. \A d \in Calls \ {c} : Same(d)
    BY <1>3 DEF WriteState, Goto, MailboxInv, MailboxTypeOK
  <2>3. op[c] \in {"status", "cancel"} /\ op'[c] = op[c] /\ subject'[c] = subject[c]
    BY <1>3 DEF WriteState, Goto, ToldInv, OnItsWay
  <2>4. pc'[c] = (IF op[c] = "status" THEN "reread" ELSE "ok")
        /\ wrote'[c] = tasks[subject[c]].version + 1
        /\ tasks'[subject[c]].version = tasks[subject[c]].version + 1
    BY <1>3, <2>0 DEF WriteState, Goto, MailboxInv, MailboxTypeOK
  <2>5. OnItsWay(c)' /\ Told(c)'
    BY <2>0, <2>3, <2>4 DEF OnItsWay, Told
  <2>6. QED BY <2>1, <2>2, <2>5, OneMoves
<1>4. ASSUME NEW c \in Calls, ReadBack(c) PROVE \A d \in Calls : OnItsWay(d)' /\ Told(d)'
  <2>1. Grows
    BY <1>4 DEF ReadBack, rows, Grows, MailboxInv, MailboxTypeOK, Task
  <2>2. \A d \in Calls \ {c} : Same(d)
    BY <1>4 DEF ReadBack, Goto, MailboxInv, MailboxTypeOK
  <2>3. OnItsWay(c)' /\ Told(c)'
    BY <1>4 DEF ReadBack, Goto, rows, ToldInv, OnItsWay, Told, MailboxInv, MailboxTypeOK,
       CallsAim, Task
  <2>4. QED BY <2>1, <2>2, <2>3, OneMoves
<1>5. ASSUME NEW c \in Calls, InsertPost(c) PROVE \A d \in Calls : OnItsWay(d)' /\ Told(d)'
  <2>1. Grows
    BY <1>5 DEF InsertPost, Grows, MailboxInv, MailboxTypeOK, CallsAim, Task
  <2>2. \A d \in Calls \ {c} : Same(d)
    BY <1>5 DEF InsertPost, Goto, MailboxInv, MailboxTypeOK
  <2>3. OnItsWay(c)' /\ Told(c)'
    BY <1>5 DEF InsertPost, Goto, ToldInv, OnItsWay, Told, MailboxInv, MailboxTypeOK, CallsAim
  <2>4. QED BY <2>1, <2>2, <2>3, OneMoves
<1>6. ASSUME NEW c \in Calls, Publish(c) PROVE \A d \in Calls : OnItsWay(d)' /\ Told(d)'
  <2>1. Grows
    BY <1>6 DEF Publish, Goto, Grows, MailboxInv, MailboxTypeOK, CallsAim, Task
  <2>2. \A d \in Calls \ {c} : Same(d)
    BY <1>6 DEF Publish, Goto, MailboxInv, MailboxTypeOK
  <2>3. OnItsWay(c)'
    BY <1>6 DEF Publish, Goto, OnItsWay, MailboxInv, MailboxTypeOK
  <2>4. CASE pc'[c] = "error"
    BY <2>1, <2>2, <2>3, <2>4, OneMoves DEF Told
  <2>5. CASE pc'[c] = "ok"
    <3> DEFINE t == subject[c]
    <3>1. /\ t \in Tasks /\ events'[t] = events[t] \cup {NewEvent(c)}
          /\ tasks' = tasks /\ thread' = thread
          /\ op'[c] = op[c] /\ subject'[c] = t /\ wrote'[c] = wrote[c]
      BY <1>6, <2>5 DEF Publish, Goto, MailboxInv, MailboxTypeOK, CallsAim
    <3>2. CASE op[c] = "status"
      <4>1. reread[c] \in wrote[c] .. tasks[t].version
        BY <1>6, <3>1, <3>2 DEF Publish, ToldInv, OnItsWay, MailboxInv, MailboxTypeOK, Task
      <4>2. StatusEvent(reread[c]) \in events'[t]
        BY <3>1, <3>2 DEF NewEvent
      <4>3. Told(c)'
        BY <3>1, <3>2, <4>1, <4>2 DEF Told, StatusEvent, PostEvent
      <4>4. QED BY <2>1, <2>2, <2>3, <4>3, OneMoves
    <3>3. CASE op[c] = "post"
      <4>1. c \in thread[t] /\ PostEvent(c) \in events'[t]
        BY <1>6, <3>1, <3>3 DEF Publish, ToldInv, OnItsWay, NewEvent
      <4>2. Told(c)'
        BY <3>1, <3>3, <4>1 DEF Told, StatusEvent, PostEvent
      <4>3. QED BY <2>1, <2>2, <2>3, <4>2, OneMoves
    <3>4. QED BY <1>6, <3>2, <3>3 DEF Publish, ToldInv, OnItsWay
  <2>6. QED BY <1>6, <2>4, <2>5 DEF Publish, Goto, MailboxInv, MailboxTypeOK
<1>7. ASSUME NEW c \in Calls, Crash(c) PROVE \A d \in Calls : OnItsWay(d)' /\ Told(d)'
  <2>1. Grows
    BY <1>7 DEF Crash, rows, Grows, MailboxInv, MailboxTypeOK, Task
  <2>2. \A d \in Calls \ {c} : Same(d)
    BY <1>7 DEF Crash, Goto, MailboxInv, MailboxTypeOK
  <2>3. OnItsWay(c)' /\ Told(c)'
    BY <1>7 DEF Crash, Goto, OnItsWay, Told, MailboxInv, MailboxTypeOK
  <2>4. QED BY <2>1, <2>2, <2>3, OneMoves
<1>8. CASE UNCHANGED mailboxVars
  BY <1>8 DEF mailboxVars, rows, calls, ToldInv, OnItsWay, Told, NewTasksUnversioned
<1>9. ASSUME NEW c \in Calls, Work(c) PROVE \A d \in Calls : OnItsWay(d)' /\ Told(d)'
  <2>1. CASE Serve(c) \/ Crash(c)
    BY <2>1, <1>3, <1>4, <1>5, <1>6, <1>7 DEF Serve
  <2>2. ASSUME NEW t \in Tasks,
               (\E new \in Reports : updateTaskStatus(c, t, new)) \/ cancelTask(c, t) \/ addToTask(c, t)
        PROVE  \A d \in Calls : OnItsWay(d)' /\ Told(d)'
    BY <2>2, <1>2 DEF updateTaskStatus, cancelTask, addToTask
  <2>3. QED BY <1>9, <2>1, <2>2 DEF Work
<1>10. QED
  BY <1>1, <1>8, <1>9, <1>a DEF MailboxNext, ToldInv

(* A recipient whose call succeeded knows that the sender's stream carried it: the *)
(* order of write, read-back and publication in updateTaskStatus, addTaskMessage   *)
(* and addTaskArtifact.                                                            *)
THEOREM ToldCorrect == MailboxSpec => []SuccessWasTold
<1>1. MailboxInit => ToldInv
  BY DEF MailboxInit, ToldInv, OnItsWay, Told, NewTasksUnversioned, NoTask
<1>2. ToldInv => SuccessWasTold
  BY DEF ToldInv, Told, SuccessWasTold
<1>3. QED BY <1>1, <1>2, MailboxInvInit, MailboxInvStep, ToldStep, PTL DEF MailboxSpec

--------------------------------------------------------------------------------
(* The project *)

USE ProjectConstants

\* A step of the project is a step of the mailbox, or leaves it alone.
LEMMA MailboxStep == [Next]_vars => [MailboxNext]_mailboxVars
BY DEF Next, Assign, AssignCheck, AssignSend, AssignRecord, AssignCrash, cancelProject,
   MailboxNext, vars

(* A project moves its mailbox only as the mailbox may move: createTask delivers *)
(* through sendMessage and nothing else of the service writes a2a_tasks.         *)
THEOREM MailboxKept == Spec => KeepsMailbox
<1>1. Init => MailboxInit
  BY DEF Init
<1>2. QED BY <1>1, MailboxStep, PTL DEF Spec, KeepsMailbox, MailboxSpec

\* An assignment that has sent a task knows which.
SentAtRecord == \A a \in Assigners : step[a] = "record" => sent[a] \in Tasks

ProjectInv ==
  /\ MailboxInv
  /\ project \in ProjectStatus
  /\ recorded \in SUBSET Tasks
  /\ step \in [Assigners -> {"idle", "send", "record", "ok", "crashed"}]
  /\ sent \in [Assigners -> Tasks \cup {None}]
  /\ SentAtRecord

\* A project starts with the types it keeps.
LEMMA ProjectInvInit == Init => ProjectInv
BY MailboxInvInit DEF Init, ProjectInv, ProjectStatus, SentAtRecord

\* Every step keeps the types, and what assignments have sent.
LEMMA ProjectInvStep == ProjectInv /\ [Next]_vars => ProjectInv'
<1> SUFFICES ASSUME ProjectInv, [Next]_vars PROVE ProjectInv'
  OBVIOUS
<1>1. MailboxInv'
  BY MailboxStep, MailboxInvStep DEF ProjectInv
<1> USE DEF ProjectInv, SentAtRecord, StepTo
<1>2. CASE cancelProject
  BY <1>1, <1>2 DEF cancelProject, ProjectStatus
<1>3. ASSUME NEW a \in Assigners, AssignCheck(a) \/ AssignCrash(a) PROVE ProjectInv'
  BY <1>1, <1>3 DEF AssignCheck, AssignCrash
<1>4. ASSUME NEW a \in Assigners, AssignSend(a) PROVE ProjectInv'
  BY <1>1, <1>4 DEF AssignSend
<1>5. ASSUME NEW a \in Assigners, AssignRecord(a) PROVE ProjectInv'
  BY <1>1, <1>5 DEF AssignRecord
<1>6. CASE UNCHANGED projectVars
  BY <1>1, <1>6 DEF projectVars
<1>7. QED
  BY <1>2, <1>3, <1>4, <1>5, <1>6 DEF Next, Assign, vars

(* The type invariant of the project and of its mailbox. *)
THEOREM TypeCorrect == Spec => []TypeOK
<1>1. ProjectInv => TypeOK
  BY DEF ProjectInv, MailboxInv, TypeOK
<1>2. QED BY <1>1, ProjectInvInit, ProjectInvStep, PTL DEF Spec

--------------------------------------------------------------------------------
\* No step of the mailbox makes a task absent again, and only an assignment sends.
LEMMA TasksStay ==
  ASSUME ProjectInv, [Next]_vars, NEW t \in Tasks
  PROVE  /\ tasks[t].state # "absent" => tasks'[t].state # "absent"
         /\ tasks[t].state = "absent" /\ tasks'[t].state # "absent" =>
              \E a \in Assigners : AssignSend(a) /\ sent'[a] = t
<1> USE DEF ProjectInv, MailboxInv, MailboxTypeOK
<1>1. ASSUME NEW a \in Assigners, AssignSend(a) PROVE
             /\ tasks[t].state # "absent" => tasks'[t].state # "absent"
             /\ tasks[t].state = "absent" /\ tasks'[t].state # "absent" => sent'[a] = t
  BY <1>1 DEF AssignSend, sendMessage
<1>2. ASSUME NEW c \in Calls, WriteState(c) PROVE
             /\ tasks[t].state = "absent" <=> tasks'[t].state = "absent"
  BY <1>2 DEF WriteState, CallsAim, Live, Terminal
<1>3. CASE tasks' = tasks
  BY <1>3
<1>4. QED
  BY <1>1, <1>2, <1>3 DEF Next, Assign, AssignCheck, AssignRecord, AssignCrash, cancelProject,
     vars, mailboxVars, rows, Work, Serve, updateTaskStatus, cancelTask, addToTask, Begin,
     ReadBack, InsertPost, Publish, Crash

\* An assignment past its delivery has sent the task it names, and one before has not.
KnownInv ==
  /\ DeliveriesAreKnown
  /\ \A a \in Assigners : step[a] \in {"record", "ok"} =>
       sent[a] \in Tasks /\ tasks[sent[a]].state # "absent"
  /\ \A a \in Assigners : step[a] \in {"idle", "send"} => sent[a] = None
  /\ \A a \in Assigners : step[a] = "ok" => sent[a] \in recorded

\* Every step keeps the project's knowledge of its deliveries.
LEMMA KnownStep == ProjectInv /\ KnownInv /\ [Next]_vars => KnownInv'
<1> SUFFICES ASSUME ProjectInv, KnownInv, [Next]_vars PROVE KnownInv'
  OBVIOUS
<1>1. \A t \in Tasks : tasks[t].state # "absent" => tasks'[t].state # "absent"
  BY TasksStay
<1> USE DEF KnownInv, DeliveriesAreKnown, ProjectInv, StepTo
<1>2. ASSUME NEW a \in Assigners, AssignCheck(a) \/ AssignCrash(a) PROVE KnownInv'
  BY <1>2 DEF AssignCheck, AssignCrash, mailboxVars, rows
<1>3. ASSUME NEW a \in Assigners, AssignSend(a) PROVE KnownInv'
  <2>1. PICK t \in Tasks : sendMessage(t) /\ sent' = [sent EXCEPT ![a] = t]
    BY <1>3 DEF AssignSend
  <2>2. \A u \in Tasks \ {t} : tasks'[u] = tasks[u]
    BY <2>1 DEF sendMessage, MailboxInv, MailboxTypeOK
  <2>3. tasks'[t].state # "absent"
    BY <2>1 DEF sendMessage, MailboxInv, MailboxTypeOK
  <2>4. step' = [step EXCEPT ![a] = "record"] /\ recorded' = recorded /\ step[a] = "send"
    BY <1>3 DEF AssignSend
  <2>5. DeliveriesAreKnown'
    BY <1>1, <2>1, <2>2, <2>3, <2>4
  <2>6. QED BY <1>1, <2>1, <2>2, <2>3, <2>4, <2>5
<1>4. ASSUME NEW a \in Assigners, AssignRecord(a) PROVE KnownInv'
  <2>1. /\ step[a] = "record" /\ step' = [step EXCEPT ![a] = "ok"]
        /\ recorded' = recorded \cup {sent[a]} /\ sent' = sent /\ tasks' = tasks
    BY <1>4 DEF AssignRecord, mailboxVars, rows
  <2>2. DeliveriesAreKnown'
    BY <2>1
  <2>3. QED BY <2>1, <2>2
<1>5. ASSUME NEW c \in Calls, Work(c), UNCHANGED projectVars PROVE KnownInv'
  <2>1. \A t \in Tasks : tasks[t].state = "absent" => tasks'[t].state = "absent"
    <3>1. \A a \in Assigners : ~ AssignSend(a)
      BY <1>5 DEF AssignSend, projectVars
    <3>2. QED BY <3>1, TasksStay
  <2>2. recorded' = recorded /\ sent' = sent /\ step' = step
    BY <1>5 DEF projectVars
  <2>3. QED BY <1>1, <2>1, <2>2
<1>6. CASE cancelProject
  BY <1>6 DEF cancelProject, mailboxVars, rows
<1>7. CASE UNCHANGED vars
  BY <1>7 DEF vars, mailboxVars, rows, projectVars
<1>8. QED
  BY <1>2, <1>3, <1>4, <1>5, <1>6, <1>7 DEF Next, Assign

(* The project knows every delivered task but for the assignments in flight or   *)
(* cut short: createTask sends and then records.                                 *)
THEOREM KnownCorrect == Spec => []DeliveriesAreKnown
<1>1. Init => KnownInv
  BY DEF Init, MailboxInit, NoTask, KnownInv, DeliveriesAreKnown
<1>2. KnownInv => DeliveriesAreKnown
  BY DEF KnownInv
<1>3. QED BY <1>1, <1>2, ProjectInvInit, ProjectInvStep, KnownStep, PTL DEF Spec

\* A closed project stays closed: nothing of it is under way.
LEMMA ClosedStays ==
  ASSUME ProjectInv, [Next]_vars, ProjectClosed
  PROVE  /\ ProjectClosed'
         /\ recorded' = recorded
         /\ \A t \in Tasks : tasks[t].state = "absent" => tasks'[t].state = "absent"
<1>1. \A a \in Assigners : ~ (AssignCheck(a) \/ AssignSend(a) \/ AssignRecord(a) \/ AssignCrash(a))
  BY DEF ProjectClosed, AssignCheck, AssignSend, AssignRecord, AssignCrash
<1>2. project' = project /\ recorded' = recorded /\ step' = step
  BY <1>1 DEF Next, Assign, cancelProject, ProjectClosed, vars, projectVars
<1>3. QED BY <1>1, <1>2, TasksStay DEF ProjectClosed

(* Once a project is canceled and the assignments that raced it are over, nothing *)
(* is delivered or recorded: the check at the head of createTask.                 *)
THEOREM CanceledCorrect == Spec => CanceledSettles
<1>1. ProjectInv /\ [Next]_vars =>
        [ProjectClosed =>
           /\ ProjectClosed'
           /\ recorded' = recorded
           /\ \A t \in Tasks : tasks[t].state = "absent" => tasks'[t].state = "absent"]_vars
  BY ClosedStays
<1>2. QED BY <1>1, ProjectInvInit, ProjectInvStep, PTL DEF Spec, CanceledSettles

(* A project whose tasks have ended for good keeps the status it shows until the *)
(* lead cancels it or another task is recorded: buildProject over the mailbox.   *)
THEOREM StatusCorrect == Spec => StatusSettles
<1>1. ProjectInv /\ [Next]_vars =>
        [Done /\ project' = project /\ recorded' = recorded => Done' /\ Status' = Status]_vars
  <2> SUFFICES ASSUME ProjectInv, [Next]_vars, Done, project' = project, recorded' = recorded
               PROVE  Done' /\ Status' = Status
    OBVIOUS
  <2>1. \A t \in recorded : EndKept(t)
    BY MailboxStep, EndKeptStep DEF ProjectInv
  <2>2. Done'
    BY <2>1 DEF Done, EndKept
  <2>3. \A t \in recorded : tasks'[t].state = tasks[t].state
    BY <2>1 DEF Done, EndKept, SettledAs
  <2>4. projectTaskStatuses' = projectTaskStatuses
    BY <2>3 DEF projectTaskStatuses
  <2>5. QED BY <2>2, <2>4 DEF Status
<1>2. QED BY <1>1, ProjectInvInit, ProjectInvStep, PTL DEF Spec, StatusSettles

--------------------------------------------------------------------------------
(* What is shown meanwhile *)

ShownStatuses == {"assigned", "in_progress", "review", "failed", "completed", "canceled"}

\* A view in the making is right about the tasks whose end had settled ...
TasksInSight(v) ==
  view[v].of = "tasks" =>
    /\ view[v].closed \subseteq Tasks
    /\ \A t \in view[v].closed :
         /\ view[v].rows[t] \in Terminal /\ SettledAs(t, view[v].rows[t]) /\ ThreadClosed(t)
         /\ t \notin view[v].due => thread[t] \subseteq view[v].attached

\* ... and about a closed project, as far as it has read.
ProjectInSight(v) ==
  view[v].of = "project" /\ view[v].closed =>
    /\ ProjectClosed /\ view[v].row = "canceled"
    /\ \A t \in recorded : TaskSettled(t)
    /\ view[v].at # "tasks" => view[v].tasks = recorded
    /\ view[v].at = "shown" =>
         \A t \in recorded : view[v].statuses[t] = a2aStateToProjectTaskStatus(tasks[t].state)

Views == {Nothing} \cup TaskView \cup ProjectView

CollaborationInv ==
  /\ ProjectInv
  /\ KnownInv
  /\ view \in [Readers -> Views]
  /\ \A v \in Readers : TasksInSight(v) /\ ProjectInSight(v)

LEMMA CollaborationInitially == CollaborationInit => CollaborationInv
<1> SUFFICES ASSUME CollaborationInit PROVE CollaborationInv
  OBVIOUS
<1>1. ProjectInv BY ProjectInvInit DEF CollaborationInit
<1>2. KnownInv BY DEF CollaborationInit, Init, MailboxInit, NoTask, KnownInv, DeliveriesAreKnown
<1>3. \A v \in Readers : view[v].of = "nothing" BY DEF CollaborationInit, Nothing
<1>4. view \in [Readers -> Views] BY DEF CollaborationInit, Views
<1> QED BY <1>1, <1>2, <1>3, <1>4 DEF CollaborationInv, TasksInSight, ProjectInSight

\* What a step of the project or its mailbox leaves as it is.
LEMMA SettledStay ==
  ASSUME ProjectInv, [Next]_vars
  PROVE  /\ \A t \in Tasks : EndKept(t)
         /\ \A t \in Tasks : TaskSettled(t) => TaskSettled(t)' /\ tasks'[t].state = tasks[t].state
         /\ ProjectClosed => ProjectClosed' /\ recorded' = recorded
<1>1. ASSUME NEW t \in Tasks PROVE EndKept(t)
  BY MailboxStep, EndKeptStep DEF ProjectInv
<1>2. ASSUME NEW t \in Tasks, TaskSettled(t)
      PROVE  TaskSettled(t)' /\ tasks'[t].state = tasks[t].state
  BY <1>1, <1>2 DEF TaskSettled, EndKept, SettledAs
<1>3. ASSUME ProjectClosed PROVE ProjectClosed' /\ recorded' = recorded
  BY <1>3, ClosedStays
<1> QED BY <1>1, <1>2, <1>3

LEMMA UnseenStep == CollaborationInv /\ [Next]_vars /\ UNCHANGED view => CollaborationInv'
<1> SUFFICES ASSUME CollaborationInv, [Next]_vars, UNCHANGED view PROVE CollaborationInv'
  OBVIOUS
<1> USE DEF CollaborationInv
<1>1. ProjectInv' /\ KnownInv' BY ProjectInvStep, KnownStep
<1>2. recorded \subseteq Tasks BY DEF ProjectInv
<1>3. ASSUME NEW v \in Readers PROVE TasksInSight(v)'
  BY SettledStay DEF TasksInSight, EndKept
<1>4. ASSUME NEW v \in Readers PROVE ProjectInSight(v)'
  BY <1>2, SettledStay DEF ProjectInSight
<1> QED BY <1>1, <1>3, <1>4

\* Looking changes nothing.
LEMMA LookingLeaves ==
  ASSUME UNCHANGED vars
  PROVE  /\ \A t, s : SettledAs(t, s)' <=> SettledAs(t, s)
         /\ \A t : (TaskSettled(t)' <=> TaskSettled(t)) /\ (ThreadClosed(t)' <=> ThreadClosed(t))
         /\ ProjectClosed' <=> ProjectClosed
         /\ UNCHANGED <<tasks, thread, recorded>>
BY DEF vars, mailboxVars, rows, calls, projectVars, TaskSettled, ThreadClosed, SettledAs, ProjectClosed

\* A view is made or goes on; the others stay as they are.
LEMMA LookStep ==
  ASSUME CollaborationInv, UNCHANGED vars, NEW v \in Readers, NEW s \in Views, Shows(v, s),
         view'[v] = s => TasksInSight(v)' /\ ProjectInSight(v)'
  PROVE  CollaborationInv'
<1> USE DEF CollaborationInv
<1>1. /\ view' \in [Readers -> Views] /\ view'[v] = s
      /\ \A w \in Readers \ {v} : view'[w] = view[w]
  BY DEF Shows
<1>2. ProjectInv' /\ KnownInv' BY ProjectInvStep, KnownStep
<1>3. ASSUME NEW w \in Readers \ {v} PROVE TasksInSight(w)' /\ ProjectInSight(w)'
  <2> QED BY <1>1, LookingLeaves DEF TasksInSight, ProjectInSight
<1> QED BY <1>1, <1>2, <1>3

LEMMA FieldsOfViews ==
  /\ \A r \in TaskView : r.of = "tasks"
  /\ \A r \in ProjectView : r.of = "project"
  /\ Nothing.of = "nothing"
BY DEF TaskView, ProjectView, Nothing

LEMMA RowsAreViewed ==
  ASSUME CollaborationInv, NEW v \in Readers, NEW ts \in SUBSET Tasks,
         \A t \in ts : tasks[t].state # "absent", fetchTaskRows(v, ts)
  PROVE  CollaborationInv'
<1> DEFINE r == RowsOf(ts)
<1>1. r \in TaskView
  <2>1. [t \in ts |-> tasks[t].state] \in [ts -> Live \cup Terminal]
    BY DEF CollaborationInv, ProjectInv, MailboxInv, MailboxTypeOK, Task
  <2> QED BY <2>1 DEF RowsOf, TaskView
<1>2. /\ r.of = "tasks" /\ r.closed = {t \in ts : TaskSettled(t)} /\ r.due = ts
      /\ \A t \in ts : r.rows[t] = tasks[t].state
  BY DEF RowsOf
<1> HIDE DEF r
<1>3. ASSUME view'[v] = r PROVE TasksInSight(v)' /\ ProjectInSight(v)'
  <2>1. \A t \in ts : TaskSettled(t) =>
          /\ tasks[t].state \in Terminal /\ SettledAs(t, tasks[t].state) /\ ThreadClosed(t)
    BY DEF TaskSettled, SettledAs
  <2>2. UNCHANGED vars BY DEF fetchTaskRows
  <2>3. ASSUME NEW t \in ts, TaskSettled(t)
        PROVE  r.rows[t] \in Terminal /\ SettledAs(t, r.rows[t]) /\ ThreadClosed(t)'
    BY <1>2, <2>1, <2>2, <2>3, LookingLeaves
  <2>4. TasksInSight(v)' BY <1>2, <1>3, <2>2, <2>3, LookingLeaves DEF TasksInSight
  <2>5. ProjectInSight(v)' BY <1>2, <1>3 DEF ProjectInSight
  <2> QED BY <2>4, <2>5
<1> QED BY <1>1, <1>3, LookStep DEF fetchTaskRows, r, Views

LEMMA AttachedIsViewed ==
  ASSUME CollaborationInv, NEW v \in Readers, buildFullTaskResponse(v)
  PROVE  CollaborationInv'
<1>1. PICK t \in view[v].due :
        Shows(v, [view[v] EXCEPT !.due = @ \ {t}, !.attached = @ \cup thread[t]])
  BY DEF buildFullTaskResponse
<1> DEFINE r == [view[v] EXCEPT !.due = @ \ {t}, !.attached = @ \cup thread[t]]
<1>2. view[v] \in TaskView /\ view[v].of = "tasks" /\ UNCHANGED vars
  BY FieldsOfViews DEF buildFullTaskResponse, CollaborationInv, Views
<1>3. t \in Tasks /\ thread[t] \in SUBSET Calls
  BY <1>2 DEF TaskView, CollaborationInv, ProjectInv, MailboxInv, MailboxTypeOK
<1>4. /\ r \in TaskView /\ r.of = "tasks" /\ r.rows = view[v].rows /\ r.closed = view[v].closed
      /\ r.due = view[v].due \ {t} /\ r.attached = view[v].attached \cup thread[t]
  BY <1>2, <1>3 DEF TaskView
<1> HIDE DEF r
<1>5. ASSUME view'[v] = r PROVE TasksInSight(v)' /\ ProjectInSight(v)'
  <2>1. TasksInSight(v) BY DEF CollaborationInv
  <2>2. TasksInSight(v)' BY <1>2, <1>4, <1>5, <2>1, LookingLeaves DEF TasksInSight
  <2>3. ProjectInSight(v)' BY <1>4, <1>5 DEF ProjectInSight
  <2> QED BY <2>2, <2>3
<1> QED BY <1>1, <1>2, <1>4, <1>5, LookStep DEF r, Views

LEMMA ProjectIsViewed ==
  ASSUME CollaborationInv, NEW v \in Readers, NEW lead \in BOOLEAN, getProjectForAgent(v, lead)
  PROVE  CollaborationInv'
<1> DEFINE r == [of |-> "project", lead |-> lead, row |-> project,
                 closed |-> ProjectClosed /\ \A t \in recorded : TaskSettled(t),
                 at |-> "tasks", tasks |-> {}, statuses |-> <<>>]
<1>1. r \in ProjectView
  <2>1. <<>> \in [{} -> ShownStatuses]
    OBVIOUS
  <2>2. project \in ProjectStatus BY DEF CollaborationInv, ProjectInv
  <2>3. (ProjectClosed /\ \A t \in recorded : TaskSettled(t)) \in BOOLEAN OBVIOUS
  <2> QED BY <2>1, <2>2, <2>3 DEF ProjectView
<1>2. /\ r.of = "project" /\ r.row = project /\ r.at = "tasks"
      /\ r.closed => ProjectClosed /\ \A t \in recorded : TaskSettled(t)
  OBVIOUS
<1> HIDE DEF r
<1>3. ASSUME view'[v] = r PROVE TasksInSight(v)' /\ ProjectInSight(v)'
  <2>1. UNCHANGED vars BY DEF getProjectForAgent
  <2> QED BY <1>2, <1>3, <2>1, LookingLeaves DEF TasksInSight, ProjectInSight, ProjectClosed
<1> QED BY <1>1, <1>3, LookStep DEF getProjectForAgent, r, Views

LEMMA ProjectGoesOn ==
  ASSUME CollaborationInv, NEW v \in Readers, fetchTasks(v) \/ ReadStates(v)
  PROVE  CollaborationInv'
<1>1. /\ view[v] \in ProjectView /\ view[v].of = "project" /\ UNCHANGED vars
  BY FieldsOfViews DEF fetchTasks, ReadStates, CollaborationInv, Views
<1>2. recorded \subseteq Tasks BY DEF CollaborationInv, ProjectInv
<1>3. /\ UNCHANGED <<tasks, recorded>> /\ (ProjectClosed' <=> ProjectClosed)
      /\ \A t : TaskSettled(t)' <=> TaskSettled(t)
  BY <1>1, LookingLeaves
<1>4. CASE fetchTasks(v)
  <2> DEFINE r == [view[v] EXCEPT !.tasks = recorded, !.at = "states"]
  <2>1. /\ r \in ProjectView /\ r.of = "project" /\ r.row = view[v].row /\ r.closed = view[v].closed
        /\ r.at = "states" /\ r.tasks = recorded
    BY <1>1, <1>2 DEF ProjectView
  <2> HIDE DEF r
  <2>2. ASSUME view'[v] = r PROVE TasksInSight(v)' /\ ProjectInSight(v)'
    BY <1>1, <1>3, <2>1, <2>2 DEF CollaborationInv, TasksInSight, ProjectInSight
  <2> QED BY <1>1, <1>4, <2>1, <2>2, LookStep DEF fetchTasks, r, Views
<1>5. CASE ReadStates(v)
  <2> DEFINE f == [t \in view[v].tasks |-> a2aStateToProjectTaskStatus(tasks[t].state)]
             r == [view[v] EXCEPT !.statuses = f, !.at = "shown"]
  <2>1. view[v].tasks \in SUBSET Tasks BY <1>1 DEF ProjectView
  <2>2. \A t \in Tasks : a2aStateToProjectTaskStatus(tasks[t].state) \in
                           ShownStatuses
    BY DEF a2aStateToProjectTaskStatus, ShownStatuses
  <2>3. f \in [view[v].tasks -> ShownStatuses]
    BY <2>1, <2>2
  <2>4. \A t \in view[v].tasks : f[t] = a2aStateToProjectTaskStatus(tasks[t].state) OBVIOUS
  <2> HIDE DEF f
  <2>5. f \in UNION {[ts -> ShownStatuses] : ts \in SUBSET Tasks}
    BY <2>1, <2>3
  <2>6. /\ r \in ProjectView /\ r.of = "project" /\ r.row = view[v].row /\ r.closed = view[v].closed
        /\ r.at = "shown" /\ r.tasks = view[v].tasks /\ r.statuses = f
    BY <1>1, <2>5 DEF ProjectView, ShownStatuses
  <2> HIDE DEF r
  <2>7. ASSUME view'[v] = r PROVE TasksInSight(v)' /\ ProjectInSight(v)'
    <3>1. TasksInSight(v)' BY <2>6, <2>7 DEF TasksInSight
    <3>2. view[v].closed =>
            /\ ProjectClosed /\ view[v].row = "canceled" /\ view[v].tasks = recorded
            /\ \A t \in recorded : TaskSettled(t)
      BY <1>1, <1>5 DEF CollaborationInv, ProjectInSight, ReadStates
    <3> QED BY <1>3, <2>4, <2>6, <2>7, <3>1, <3>2 DEF ProjectInSight
  <2> QED BY <1>1, <1>5, <2>6, <2>7, LookStep DEF ReadStates, r, f, Views
<1> QED BY <1>4, <1>5

LEMMA CollaborationStep == CollaborationInv /\ [CollaborationNext]_collaborationVars => CollaborationInv'
<1> SUFFICES ASSUME CollaborationInv, [CollaborationNext]_collaborationVars PROVE CollaborationInv'
  OBVIOUS
<1>1. CASE Next /\ UNCHANGED view BY <1>1, UnseenStep
<1>2. CASE UNCHANGED collaborationVars BY <1>2, UnseenStep DEF collaborationVars
<1>3. ASSUME NEW v \in Readers, LookAtTasks(v) PROVE CollaborationInv'
  <2>1. CASE getTask(v) \/ listTasks(v)
    <3>1. PICK ts \in SUBSET Tasks : (\A t \in ts : tasks[t].state # "absent") /\ fetchTaskRows(v, ts)
      BY <2>1 DEF getTask, listTasks
    <3> QED BY <3>1, RowsAreViewed
  <2> QED BY <1>3, <2>1, AttachedIsViewed DEF LookAtTasks
<1>4. ASSUME NEW v \in Readers, LookAtProject(v) PROVE CollaborationInv'
  BY <1>4, ProjectIsViewed, ProjectGoesOn DEF LookAtProject
<1> QED BY <1>1, <1>2, <1>3, <1>4 DEF CollaborationNext, Look

(* The type invariant of the project, its mailbox and the views of them. *)
THEOREM CollaborationTypeCorrect == CollaborationSpec => []CollaborationTypeOK
<1>1. CollaborationInv => CollaborationTypeOK
  BY DEF CollaborationInv, ProjectInv, MailboxInv, TypeOK, CollaborationTypeOK, Views
<1> QED BY <1>1, CollaborationInitially, CollaborationStep, PTL DEF CollaborationSpec

(* Whatever was delivered or reported while a view was put together, a task that had *)
(* ended is shown with its end and its whole thread: fetchTaskRows, then             *)
(* buildFullTaskResponse, of a2a-mailbox.service.ts.                                 *)
THEOREM EndedTaskCorrect == CollaborationSpec => []EndedTaskIsWhole
<1>1. CollaborationInv => EndedTaskIsWhole
  <2> SUFFICES ASSUME CollaborationInv, NEW v \in Readers, Finished(v), view[v].of = "tasks",
                      NEW t \in view[v].closed
               PROVE  view[v].rows[t] = tasks[t].state /\ thread[t] \subseteq view[v].attached
    BY DEF EndedTaskIsWhole
  <2>1. view[v].due = {} BY FieldsOfViews DEF Finished
  <2> QED BY <2>1 DEF CollaborationInv, TasksInSight, SettledAs
<1> QED BY <1>1, CollaborationInitially, CollaborationStep, PTL DEF CollaborationSpec

(* The lead and a member see a closed project alike, with every task it has and its *)
(* last state: buildProject of agent-project.service.ts.                            *)
THEOREM ClosedProjectCorrect == CollaborationSpec => []ClosedProjectIsWhole
<1>1. CollaborationInv => ClosedProjectIsWhole
  <2> SUFFICES ASSUME CollaborationInv, NEW v \in Readers, Finished(v), view[v].of = "project", view[v].closed
               PROVE  /\ ShownStatus(view[v]) = "canceled" /\ view[v].tasks = recorded
                      /\ \A t \in recorded : view[v].statuses[t] = a2aStateToProjectTaskStatus(tasks[t].state)
    BY DEF ClosedProjectIsWhole
  <2>1. view[v].at = "shown" BY FieldsOfViews DEF Finished
  <2> QED BY <2>1 DEF CollaborationInv, ProjectInSight, ShownStatus
<1> QED BY <1>1, CollaborationInitially, CollaborationStep, PTL DEF CollaborationSpec

--------------------------------------------------------------------------------
(* The keys of the command line *)

\* A registration knows every key that was stored before the service answered it,
\* but those another registration has overlapped.
BeforeIsSeen ==
  \A p \in Processes : run[p] \in Registering =>
    /\ run[p].before \subseteq stored
    /\ run[p].at # "load" => run[p].before \ overlapped \subseteq run[p].seen

KeysInv == KeysTypeOK /\ KeysAreKept /\ BeforeIsSeen

LEMMA KeysInitially == KeysInit => KeysInv
BY DEF KeysInit, KeysInv, KeysTypeOK, KeysAreKept, BeforeIsSeen, Idle, Registering

\* What a process does to itself alone leaves the file and its history as they are.
LEMMA KeysStep == KeysInv /\ [KeysNext]_keysVars => KeysInv'
<1> SUFFICES ASSUME KeysInv, [KeysNext]_keysVars PROVE KeysInv'
  OBVIOUS
<1> USE DEF KeysInv, KeysTypeOK, KeysAreKept, BeforeIsSeen, Goes
<1>1. ASSUME NEW p \in Processes, NEW s \in Slugs, register(p, s) PROVE KeysInv'
  BY <1>1 DEF register, Registering
<1>2. ASSUME NEW p \in Processes, NEW s \in Slugs, Command(p, s) PROVE KeysInv'
  BY <1>2 DEF Command, Registering, Commanding
<1>3. ASSUME NEW p \in Processes, loadKeys(p) PROVE KeysInv'
  <2>1. run[p] \in Registering BY <1>3 DEF loadKeys, Registering, Idle, Over, Commanding
  <2>2. CASE file.whole
    <3> DEFINE r == [run[p] EXCEPT !.at = "change", !.seen = file.keys]
    <3>1. r \in Registering /\ r.seen = file.keys /\ r.before = run[p].before
      BY <2>1 DEF Registering
    <3>2. run' = [run EXCEPT ![p] = r] /\ UNCHANGED <<file, taken, stored, overlapped>>
      BY <1>3, <2>2 DEF loadKeys
    <3> HIDE DEF r
    <3> QED BY <2>1, <2>2, <3>1, <3>2
  <2>3. CASE ~file.whole
    BY <1>3, <2>3 DEF loadKeys, Registering, Over
  <2> QED BY <2>2, <2>3
<1>4. ASSUME NEW p \in Processes, Truncate(p) PROVE KeysInv'
  <2>1. run[p] \in Registering BY <1>4 DEF Truncate, Registering, Idle, Over, Commanding
  <2> QED BY <1>4, <2>1 DEF Truncate, Registering
<1>5. ASSUME NEW p \in Processes, saveKeys(p) PROVE KeysInv'
  <2>1. run[p] \in Registering BY <1>5 DEF saveKeys, Registering, Idle, Over, Commanding
  <2>2. KeysTypeOK' BY <1>5, <2>1 DEF saveKeys, Registering
  <2>3. KeysAreKept' BY <1>5, <2>1 DEF saveKeys, Registering
  <2>4. BeforeIsSeen' BY <1>5, <2>1 DEF saveKeys, Registering, Over
  <2> QED BY <2>2, <2>3, <2>4
<1>6. ASSUME NEW p \in Processes, Killed(p) PROVE KeysInv'
  BY <1>6 DEF Killed, Registering, Over
<1>7. CASE UNCHANGED keysVars
  BY <1>7 DEF keysVars, Registering
<1> QED BY <1>1, <1>2, <1>3, <1>4, <1>5, <1>6, <1>7 DEF KeysNext

\* The file, the processes and the history stay well formed.
THEOREM KeysTypeCorrect == KeysSpec => []KeysTypeOK
<1>1. KeysInv => KeysTypeOK BY DEF KeysInv
<1> QED BY <1>1, KeysInitially, KeysStep, PTL DEF KeysSpec

\* A stored key goes only to a registration answered before and saved after it,
\* whichever processes are killed, and at whichever statement.
THEOREM KeysKept == KeysSpec => []KeysAreKept
<1>1. KeysInv => KeysAreKept BY DEF KeysInv
<1> QED BY <1>1, KeysInitially, KeysStep, PTL DEF KeysSpec
================================================================================
