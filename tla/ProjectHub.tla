------------------------------ MODULE ProjectHub ------------------------------
(***************************************************************************)
(* What a project of agents shares besides its tasks' rows: participants,  *)
(* the share link that reads its contract, one callback per participant,   *)
(* the pushes that go to them, and the event streams of tasks.             *)
(*                                                                         *)
(* AgentProject and TaskMailbox have the rows of the tasks; here a task is *)
(* the request that assigned it, and a change of it the request that       *)
(* reported it.                                                            *)
(***************************************************************************)
EXTENDS Naturals, FiniteSets

CONSTANTS
  Agents,      \* the agents of the hub
  Lead,        \* the one that created the project
  Requests,    \* requests about the project; each is made at most once
  Streams,     \* requests for an event stream
  MaxAttempts, \* attempts of one push: maxAttempts
  Unset

\* What the constants stand for; MCNotices assumes it.
HubConstants ==
  /\ Lead \in Agents
  /\ MaxAttempts \in Nat \ {0}
  /\ Unset \notin Agents \cup Requests

VARIABLES
  members,   \* agents with a row in agent_project_participants
  share,     \* the rotation whose token is stored in a2a_project_shares
  callback,  \* of each agent, the request that registered its callback
  req,       \* what each request is, about whom, and how far it is
  push,      \* the push a task or a change caused
  received,  \* what the receivers of pushes have got
  channels,  \* tasks the process's one Redis subscriber is subscribed to
  stream,    \* the event streams
  heard      \* which changes each stream has passed on

hubVars == <<members, share, callback, req, push, received, channels, stream, heard>>

--------------------------------------------------------------------------------
Ops   == {"invite", "share", "register", "unregister", "assign", "report"}
Steps == {"insert", "delete", "hash", "inspect", "write", "publish", "notify", "done", "refused", "failed"}

\* `of` is the agent a request names, or the task a report is about; `saw` what a
\* rotation found stored.
Request == [op : Ops, step : Steps, of : Agents \cup Requests, saw : Requests \cup {Unset}]
Unmade  == [step |-> "unmade"]

Push   == [to : Requests, state : {"sending", "delivered", "failed", "lost"}, tried : 0..MaxAttempts]
NoPush == [state |-> "none"]

Stream == [task : Requests, state : {"subscribing", "aborted", "listening", "stuck", "closed"}]
NoStream == [state |-> "none"]

Participants == SUBSET Agents
Links        == Requests \cup {Unset}
Callbacks    == [Agents -> Requests \cup {Unset}]
Events       == [of : Requests, id : Requests \X Nat, to : Requests]

HubTypeOK ==
  /\ members \in Participants
  /\ share \in Links
  /\ callback \in Callbacks
  /\ req \in [Requests -> Request \cup {Unmade}]
  /\ push \in [Requests -> Push \cup {NoPush}]
  /\ received \subseteq Events
  /\ channels \in SUBSET Requests
  /\ stream \in [Streams -> Stream \cup {NoStream}]
  /\ heard \in [Streams -> SUBSET Requests]

\* createProject inserts the project and its lead's row in one transaction.
HubInit ==
  /\ members = {Lead}
  /\ share = Unset
  /\ callback = [a \in Agents |-> Unset]
  /\ req = [r \in Requests |-> Unmade]
  /\ push = [r \in Requests |-> NoPush]
  /\ received = {}
  /\ channels = {}
  /\ stream = [s \in Streams |-> NoStream]
  /\ heard = [s \in Streams |-> {}]

Make(r, op, of, step) ==
  /\ req[r] = Unmade
  /\ req' = [req EXCEPT ![r] = [op |-> op, step |-> step, of |-> of, saw |-> Unset]]

At(r, op, step) == req[r] # Unmade /\ req[r].op = op /\ req[r].step = step

Go(r, step) == req' = [req EXCEPT ![r].step = step]

IsTask(r)   == \E step \in {"notify", "done", "failed"} : At(r, "assign", step)
Assignee(t) == req[t].of

--------------------------------------------------------------------------------
(* Participants *)

\* The lead names an agent other than itself; a row that is there is renewed.
Invite(r, a) ==
  /\ a # Lead
  /\ Make(r, "invite", a, IF a \in members THEN "done" ELSE "insert")
  /\ UNCHANGED <<members, share, callback, push, received, channels, stream, heard>>

\* One row per agent and project: of two invitations that found none, one inserts.
InviteInsert(r) ==
  /\ At(r, "invite", "insert")
  /\ Go(r, IF req[r].of \in members THEN "failed" ELSE "done")
  /\ members' = members \cup {req[r].of}
  /\ UNCHANGED <<share, callback, push, received, channels, stream, heard>>

--------------------------------------------------------------------------------
(* The share link *)

\* The token that reads the contract is the stored one.
resolveProjectContract(r) == share = r

\* The lead asks for a link; the DELETE begins on the row it sees.
Share(r) ==
  /\ req[r] = Unmade
  /\ req' = [req EXCEPT ![r] = [op |-> "share", step |-> "delete", of |-> Lead, saw |-> share]]
  /\ UNCHANGED <<members, share, callback, push, received, channels, stream, heard>>

HoldsRow(o, s) == s # Unset /\ share = s /\ At(o, "share", "hash") /\ req[o].saw = s

\* Mutant: the row is deleted by a statement of its own.
ShareDeleteAtOnce(r) ==
  /\ At(r, "share", "delete")
  /\ share' = Unset
  /\ req' = [req EXCEPT ![r].step = "hash", ![r].saw = Unset]
  /\ UNCHANGED <<members, callback, push, received, channels, stream, heard>>

\* It waits for a transaction that has deleted the same row.
ShareDelete(r) ==
  /\ At(r, "share", "delete")
  /\ \A o \in Requests \ {r} : ~HoldsRow(o, req[r].saw)
  /\ Go(r, "hash")
  /\ UNCHANGED <<members, share, callback, push, received, channels, stream, heard>>

\* The token is hashed, inserted and the transaction committed; project_id is
\* unique, so a rotation that did not see the row of another fails.
ShareInsert(r) ==
  /\ At(r, "share", "hash")
  /\ IF share = req[r].saw THEN share' = r /\ Go(r, "done")
                           ELSE share' = share /\ Go(r, "failed")
  /\ UNCHANGED <<members, callback, push, received, channels, stream, heard>>

\* The process dies and the transaction with it.
ShareLost(r) ==
  /\ At(r, "share", "delete") \/ At(r, "share", "hash")
  /\ Go(r, "failed")
  /\ UNCHANGED <<members, share, callback, push, received, channels, stream, heard>>

--------------------------------------------------------------------------------
(* Callbacks *)

\* The caller must be a participant; then its URL is inspected.
Register(r, a) ==
  /\ a \in members
  /\ Make(r, "register", a, "inspect")
  /\ UNCHANGED <<members, share, callback, push, received, channels, stream, heard>>

Inspected(r) ==
  /\ At(r, "register", "inspect")
  /\ \E step \in {"write", "refused"} : Go(r, step)
  /\ UNCHANGED <<members, share, callback, push, received, channels, stream, heard>>

\* INSERT ... ON CONFLICT DO UPDATE: one callback per participant.
RegisterWrite(r) ==
  /\ At(r, "register", "write")
  /\ callback' = [callback EXCEPT ![req[r].of] = r]
  /\ Go(r, "done")
  /\ UNCHANGED <<members, share, push, received, channels, stream, heard>>

Unregister(r, a) ==
  /\ a \in members
  /\ Make(r, "unregister", a, IF callback[a] = Unset THEN "refused" ELSE "done")
  /\ callback' = [callback EXCEPT ![a] = Unset]
  /\ UNCHANGED <<members, share, push, received, channels, stream, heard>>

--------------------------------------------------------------------------------
(* Tasks, their changes, and what is pushed *)

\* The mailbox has the task as soon as the assignment's transaction commits.
Assign(r, a) ==
  /\ a \in members
  /\ Make(r, "assign", a, "notify")
  /\ UNCHANGED <<members, share, callback, push, received, channels, stream, heard>>

\* The assignee reports a change, which is written and then published.
Report(r, t) ==
  /\ IsTask(t)
  /\ Make(r, "report", t, "publish")
  /\ UNCHANGED <<members, share, callback, push, received, channels, stream, heard>>

\* Redis calls the subscriber; every handler of the task's channel passes it on.
Publish(r) ==
  /\ At(r, "report", "publish")
  /\ Go(r, "notify")
  /\ heard' = [s \in Streams |->
       IF /\ stream[s].state \in {"listening", "stuck"}
          /\ stream[s].task = req[r].of /\ req[r].of \in channels
       THEN heard[s] \cup {r} ELSE heard[s]]
  /\ UNCHANGED <<members, share, callback, push, received, channels, stream>>

\* task_new goes to the assignee, a change to the sender of the task: the lead.
Party(r) == IF req[r].op = "assign" THEN req[r].of ELSE Lead

\* Both read the callback there is now and do not wait for the delivery.
Notify(r) ==
  /\ At(r, "assign", "notify") \/ At(r, "report", "notify")
  /\ Go(r, "done")
  /\ push' = IF callback[Party(r)] = Unset THEN push
             ELSE [push EXCEPT ![r] = [to |-> callback[Party(r)], state |-> "sending", tried |-> 0]]
  /\ UNCHANGED <<members, share, callback, received, channels, stream, heard>>

\* The process dies, or a query fails, before the push is begun: the task stays.
NotifyFails(r) ==
  /\ At(r, "assign", "notify") \/ At(r, "report", "publish") \/ At(r, "report", "notify")
  /\ Go(r, "failed")
  /\ UNCHANGED <<members, share, callback, push, received, channels, stream, heard>>

\* The envelope is built once: its id is the same for every attempt.
eventId(r) == <<r, 0>>

Attempted(r, state) == push' = [push EXCEPT ![r].tried = @ + 1, ![r].state = state]

Receive(r) == received' = received \cup {[of |-> r, id |-> eventId(r), to |-> push[r].to]}

Delivered(r) ==
  /\ push[r].state = "sending"
  /\ Receive(r)
  /\ Attempted(r, "delivered")
  /\ UNCHANGED <<members, share, callback, req, channels, stream, heard>>

\* The URL is refused, does not answer in time, or answers with an error; the
\* receiver may have taken the event all the same.
AttemptFails(r) ==
  /\ push[r].state = "sending"
  /\ Receive(r) \/ received' = received
  /\ Attempted(r, IF push[r].tried + 1 < MaxAttempts THEN "sending" ELSE "failed")
  /\ UNCHANGED <<members, share, callback, req, channels, stream, heard>>

\* A push is kept in memory only.
PushLost(r) ==
  /\ push[r].state = "sending"
  /\ push' = [push EXCEPT ![r].state = "lost"]
  /\ UNCHANGED <<members, share, callback, req, received, channels, stream, heard>>

--------------------------------------------------------------------------------
(* Event streams: one subscriber for the whole process *)

\* The sender or the recipient of the task asks; SUBSCRIBE is sent and awaited.
StreamOpen(s, t) ==
  /\ IsTask(t)
  /\ stream[s] = NoStream
  /\ stream' = [stream EXCEPT ![s] = [task |-> t, state |-> "subscribing"]]
  /\ channels' = channels \cup {t}
  /\ UNCHANGED <<members, share, callback, req, push, received, heard>>

\* The handler is added once the subscription is acknowledged.  onAbort is told of
\* later aborts only: a stream that was aborted before keeps its handler for ever.
StreamListens(s) ==
  /\ stream[s].state \in {"subscribing", "aborted"}
  /\ stream' = [stream EXCEPT ![s].state = IF @ = "subscribing" THEN "listening" ELSE "stuck"]
  /\ UNCHANGED <<members, share, callback, req, push, received, channels, heard>>

StreamAborted(s) ==
  /\ stream[s].state = "subscribing"
  /\ stream' = [stream EXCEPT ![s].state = "aborted"]
  /\ UNCHANGED <<members, share, callback, req, push, received, channels, heard>>

\* Mutant: unsubscribe() without a channel.
StreamClosesAll(s) ==
  /\ stream[s].state = "listening"
  /\ stream' = [stream EXCEPT ![s].state = "closed"]
  /\ channels' = {}
  /\ UNCHANGED <<members, share, callback, req, push, received, heard>>

\* The client leaves: cleanup takes the handler off and unsubscribes the channel.
StreamCloses(s) ==
  /\ stream[s].state = "listening"
  /\ stream' = [stream EXCEPT ![s].state = "closed"]
  /\ channels' = channels \ {stream[s].task}
  /\ UNCHANGED <<members, share, callback, req, push, received, heard>>

--------------------------------------------------------------------------------
Serve(r) ==
  \/ InviteInsert(r)
  \/ ShareDelete(r) \/ ShareInsert(r) \/ ShareLost(r)
  \/ Inspected(r) \/ RegisterWrite(r)
  \/ Publish(r) \/ Notify(r) \/ NotifyFails(r)

SendOut(r) == Delivered(r) \/ AttemptFails(r) \/ PushLost(r)

Ask(r) ==
  \/ Share(r)
  \/ \E a \in Agents : Invite(r, a) \/ Register(r, a) \/ Unregister(r, a) \/ Assign(r, a)
  \/ \E t \in Requests : Report(r, t)

Watch(s) ==
  \/ \E t \in Requests : StreamOpen(s, t)
  \/ StreamListens(s) \/ StreamAborted(s) \/ StreamCloses(s)

HubNext ==
  \/ \E r \in Requests : Ask(r) \/ Serve(r) \/ SendOut(r)
  \/ \E s \in Streams : Watch(s)

HubSpec == HubInit /\ [][HubNext]_hubVars

--------------------------------------------------------------------------------
\* A project that has been shared has a link that reads its contract, and it is one
\* the lead was given: neither a rotation under way, nor one that dies, nor two at
\* once (upsertShare) leave the project without.
SharedHasLink ==
  \A r \in Requests : At(r, "share", "done") =>
    \E q \in Requests : At(q, "share", "done") /\ resolveProjectContract(q)

\* A change that is published is passed on by every stream that listens to its task,
\* unless another stream of that task has been closed by then (routes/a2a/stream.ts,
\* cleanup).
StreamsHear ==
  [][\A s \in Streams, r \in Requests :
       /\ At(r, "report", "publish") /\ At(r, "report", "notify")'
       /\ stream[s].state = "listening" /\ stream[s].task = req[r].of
       => \/ r \in heard'[s]
          \/ \E o \in Streams : stream[o].state = "closed" /\ stream[o].task = req[r].of]_hubVars
================================================================================
