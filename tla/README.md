# AgentDialog in TLA+

AgentDialog lets agents put questions to people. An agent asks over REST, MCP or
an SDK; the person answers in the web chat, through a one-click link or by email;
the answer is recorded once and read back by the agent. This directory holds a
model of that system in TLA+, the TLC runs that check it on small instances, and
proofs that TLAPS checks for instances of any size.

Paths below are those of the repository (`src/services/...`).

## 1. The system

### Components, their state and their operations

| Component | State | Operations |
|---|---|---|
| Human queries (`query.service.ts`) | `human_queries` row: status, rounds, pause, deadline, answer | create, respond, clarify, cancel, get and list (both expire lazily) |
| Invitations and trust (`invitation.service.ts`) | `invitations`, `conversation_participants`, `agent_trust_revocations` | create (with auto-accept), accept, decline, revoke, revoke trust |
| Query grants (`query-grant.service.ts`, `routes/public/queries.ts`) | `query_grants`: deadline, consumed | mint in the creation's transaction, resolve, consume after an answer |
| Inbound email (`email-response.service.ts`) | none of its own | a reply accepts the invitation, assigns the query and answers it |
| Admission and answer spaces (`admission/`, `lib/answer-space.ts`) | none | decide whether a question may be asked, whether an answer fits |
| Human sign-in (`auth.service.ts`) | code hash, attempts, session on the `humans` row; the browser's shared token | send code, verify, load, request, logout |
| Agents (`agent.service.ts`, `routes/agent/`) | `agents` row with its key | register, authorize, exchange, rotate, expire, sweep |
| Conversations, messages, files | `conversations`, `messages`, `files` | create, append, page, download |
| Webhooks (`webhook.service.ts`) | url, secrets with grace, failure count, active flag | register, update, rotate, delete, dispatch |
| Idempotency keys (`middleware/idempotency.ts`) | one Redis record per key, with a TTL | reserve, replay, refuse, complete, release |
| Rate limits (`middleware/rate-limit.ts`) | Redis counters and penalties | count, refuse, penalise |
| A2A mailbox (`a2a-mailbox.service.ts`) | `a2a_tasks`, their messages and artifacts | send, update status, append, cancel by either side, stream events |
| Agent projects (`agent-project.service.ts`, `a2a-project-*.service.ts`) | projects, participants, recorded tasks, share link, callbacks | create, invite, assign a task, cancel, view, share, push |
| MCP transport and OAuth (`mcp/`) | in-memory session table; one-use codes | authorize, exchange; open, use, close and sweep sessions |
| WebSocket hub (`ws/`) | sockets, subscriptions | authenticate, subscribe, broadcast, drop |
| Web client (`web/src/ws`, `web/src/stores`) | socket, queue, message lists | reconnect, resubscribe, fetch, merge pushes |
| SDKs, adapters and command line (`sdks/`, `scripts/a2a-cli.ts`) | a call's retries, pauses and budget; a file of keys | request, list, wait for an answer, ask, clarify; register a key |
| Documents, wording, pages | none | not modelled |

### How they interact

Every surface calls the same services, and the services share the PostgreSQL
rows. A query owns a conversation; the conversation carries an invitation; a
participant row is what entitles a person to answer. There is no background
worker: a query expires when somebody reads it, an invitation when somebody
accepts it too late. Redis carries events to sockets and streams, and the
idempotency and rate-limit records. Side effects (email, webhooks, events) happen
after the commit and are best effort.

### What is hard

* **Interleaving at READ COMMITTED.** A request reads a row, decides, and writes
  later. Some writes repeat the decision in their WHERE clause, some go by id.
* **Partial failure.** Some operations are one transaction, some are three
  statements, and some report a conflict after having committed.
* **Time.** Deadlines, a clock that is paused while the agent holds the turn, and
  expiry that needs a reader.
* **Retries and duplicates.** Mail providers, agents with idempotency keys,
  webhook and A2A deliveries.
* **Two spellings, two judges.** Questions and answers change their spelling on the
  way between SDK, wire and web client, and what is a complete answer is decided
  in the form and again on the server.

`PROJECT.json` lists every such hazard at its line, with the property that catches
it or, where the code does not keep what is promised, the statement that fails.

### What makes each component correct

* Queries: an acknowledged answer or cancel stands; a settled query is final;
  the recorded answer is genuine; whoever decides is entitled; an overdue query
  that is polled does not wait for ever; every request returns.
* Admission and answers: what reaches a person has passed the rules its stored risk
  demands; every answer the server takes can be entered; the agent reads what was
  entered; an agent that follows its refusals gets its question through.
* Invitations: nobody is seated without a first consent; an acceptance leaves a
  participant; a revocation of trust and a verdict stand.
* Grants: whoever is shown an answer has given it; a spent link has its answer.
* Idempotency: one key, one effect; a replay is the recorded response.
* Webhooks: one current secret however rotations race; the grace window; no
  webhook is switched off before it has failed often enough.
* Mailbox and projects: the end of a task settles; the last event published shows
  the state; a project's view matches its tasks; a shared project has a link.
* Sign-in and keys: tries are counted; a working sign-in is not thrown away; a key
  is handed to one caller.
* Hub and client: a live subscription misses no event the client could see; a page
  never loses or doubles a message.
* SDK calls: a wait ends within its budget, and a refused call gets through.

## 2. What is modelled

| Module | Models | Checked in |
|---|---|---|
| `QueryRecord` | the record of a query, as an agent may rely on it | abstract specification of the next two |
| `HumanQuery` | one query, its locks and every statement that touches it | `query_safety`, `query_progress`, `query_email` |
| `QueryLink` | the one-click link and the page it opens | `link_safety` |
| `AnswerSpace`, `Decidability`, `AnswerForm` | spaces and answers, admission, the form, as operators | through the next two |
| `QueryDialogue` | what is asked, admitted, shown, filled in, recorded, read | `dialogue_safety`, `dialogue_fits` |
| `AskHuman` | an agent that follows what its refusals tell it | `dialogue_safety` |
| `IdempotencyKey` | the requests that carry one key | `dialogue_safety` |
| `Trust` | invitations, seats in conversations, trust and its revocation | `link_safety` |
| `SignIn` | a person's codes and session, a browser's tabs | `access_safety` |
| `AgentAccess` | registration, authorization, rotation, MCP sessions | `access_safety` |
| `Webhooks` | registration, secrets, deliveries that count failures | `notice_safety` |
| `ProjectHub` | a project's participants, share link, pushes, streams | `notice_safety` |
| `TaskMailbox`, `AgentProject` | tasks between agents; a lead and its tasks | `project_safety` |
| `Collaboration` | what is shown of tasks and projects while they move | `project_safety` |
| `KeysFile` | the file of keys of the command line | `project_safety` |
| `ChatSocket`, `ChatStore`, `Chat` | a tab's socket, its message list, both together | `chat_safety` |
| `RateLimit`, `AgentClient` | the windows requests are counted in; SDK calls that wait for them | `client_progress`, `client_listing` |

How they compose. `AgentProject` extends `TaskMailbox` and is shown to implement
it; `Collaboration` extends both. `Chat` composes the socket with the store, and
`AgentClient` composes with `RateLimit`, step by step. `QueryDialogue` and
`AskHuman` are built from the operators of `Decidability`. `HumanQuery` and
`QueryLink` each implement `QueryRecord`.

Parts that share no state in the code are checked in one run where that keeps the
instances small: a variable (`part`, `door` or `way` of `MCQueryDialogue`,
`MCAccess`, `MCNotices`, `MCReached`, `MCCollaboration`) is chosen at the start and
says which part the behaviour is about; the others stay as they began.

In every module a request refused before its first write is a stuttering step or
has no action, requests are bounded by a set each member of which is used at most
once (or by the calls that run at the same time, where the model says so), and what
exists only for a property (`consents`, `cut`, `failed`, `streak`, `overlapped`,
`alone`, `missed`, `hidden`, `late`, `given`) is written and never read by a guard.

### `QueryRecord`: what a query promises

Two variables, the status and the decision on record, and one action per move of
the status column: create, assign, ask back, clarify, withdraw, expire, decide.
It says nothing of requests. It is the agent's view of a query, and the
specification that `HumanQuery` implements.

### `HumanQuery`: one query and every request that touches it

The rows are `query` (the `human_queries` row), `invitation` (the one its creation
inserts), `participants` (how many participant rows the person has; the schema
allows several) and `responses` (which calls have a response message in the
conversation). Each member of `Calls` is one HTTP request, tool call or email
that is made at most once; `op`, `pc` and `row` say what it does, where it is and
which query row it read. `lock` is the row lock of the invitation, `joins` the
calls that found no participant row and will insert one, `sweep` what each poller
has read.

A request is split where PostgreSQL lets others in: after every SELECT whose
result a later statement uses, at every autocommitted write, and at every COMMIT.

| Code | Steps of the model |
|---|---|
| `createQuery` | `CreateQuery` (one transaction; trust decides pending or assigned) |
| `respondQuery` | `RespondRead`, for a pending query `SelectInvitation`, `LockInvitation`, `FindParticipant`, then `RespondCommit` |
| `processEmailReply` | `EmailRead`, `SelectInvitation`, `LockInvitation`, `EmailCommit` or `EmailDropped`; after `EmailCommit` it goes on as an answer, from `RespondRead` |
| `updateQuery` | `ClarifyRead`, then `ClarifyWrite`, or `ClarifyUnfreeze` when the rounds are used up |
| `cancelQuery` | `CancelQuery` (one guarded UPDATE) |
| `acceptInvitation` | `InvitationRead`, then `InvitationLapse`, or `InvitationMark`, `FindParticipant`, `AcceptJoin`, `AcceptAssign` |
| `declineInvitation`, `revokeInvitation` | `InvitationRead`, `InvitationMark` |
| `getQuery`, `listHumanQueries` | `SweepRead`, `SweepWrite` |
| a process that dies | `Crash`: the transaction is rolled back, what was committed stays |

Abstractions, and why they lose nothing the properties look at:

* A request refused before its first write (wrong person, wrong status, answer
  that does not fit, inadmissible payload) is a stuttering step.
* The entitlement read of `respondQuery` is folded into the read of the query row:
  participant rows are never deleted, and a query past `pending` has one.
* An UPDATE of the query row is the last statement of its transaction, so its row
  lock is never held across a step; the invitation's is, and is modelled.
* The answer is the identity of the call that gave it. Respondents are the
  addressee: the checks on addresses decide who gets that far.
* The code does not compare an answer's time with the deadline, and neither does
  the model: an overdue query nobody has read can still be answered.

### `QueryLink`: the link in the email

Variables are the fields of the query row that the link depends on, the `grant`,
whether the email has `mailed` it, the person's row in `humans`, what each `tab`
shows, and `req`, how far the server is with each answer. Whoever moves the query
otherwise (app, agent, clock) is one action each; their statements are in
`HumanQuery`.

| Code | Steps of the model |
|---|---|
| `createQuery`, `mintQueryGrant` | `createQuery`: the grant takes the query's deadline, at low and medium risk |
| `PublicQueryPage.tsx` | `OpenLink`, `Load`, `Send`, `Unreachable`, `Receive` |
| `POST /public/queries/:token/respond` | `resolveQueryGrant`, `FindHuman`, `InsertHuman`, `ReadQuery`, `WriteAnswer` or `WriteReturn`, `consumeQueryGrant`; `Fail` at any of them |

`AnsweredMeansRecorded` relates what a tab shows to the record, through retries,
reloads and the other tab; `SpentByItsAnswer` says that a spent link has its answer.
A request keeps the status and the count of rounds it read: two that hand a query
back around a clarification of the first may count one round between them, since the
UPDATE is guarded by the status only.

### Questions and answers

`AnswerSpace` has the schema of spaces, the check of an answer and the two
spellings; `Decidability` the ordered rules of admission, elevation of risk and the
prior decision; `AnswerForm` what the inputs let a person enter. Numbers and dates
are integers, a text is its length, with the empty and the blank one apart, a
consequence is stated or not.

`QueryDialogue` takes one query through them. `createQuery` is the read of the
history (`CheckHistory`) and the insert; `updateQuery` is `ClarifyRead` and its write;
a tab has its card, its form and its list requests, which may return out of order;
an answer is `AnswerRead` and `AnswerWrite`. The agent reads with `getQuery` or
`listAgentQueries`. `GateHolds`: what a person holds has passed admission at its
stored risk, also after a clarification that raises it. `EveryDecisionCanBeGiven`:
what the server would record can be entered, blank texts apart.
`AgentReadsWhatWasGiven`: through four changes of spelling. Of a form of fields, all
that has a value arrives; a number that was emptied on an earlier card stays in the
form without one and is dropped on the wire.

`AskHuman` has the agent's side: a `tool` with its parameters (the two framework
adapters of the SDK, the MCP tool), a `draft`, the reasons it was `told`. It follows a
remedy within the fields of the call it makes, clarifies when the person hands the
query back, and asks again later. `RefusalsEnd`: no reason comes back, although
remedies raise the risk and decisions are made meanwhile, and every refusal has a
remedy that the call can carry.

### `IdempotencyKey`: the requests that carry one key

`record` is what Redis holds under the key: nothing, a reservation with the hash
of the body, or a completed response, identified by the request that produced it.
`pc` says where each attempt is or how it ended, `answer` whose response it was
given, `effects` whose handler has done its work. `unreserved` and `lapsed` only
remember that an attempt went on without a reservation, and that a record expired.

| Code (`middleware/idempotency.ts`) | Steps of the model |
|---|---|
| `SET NX EX 120` | `Reserve`, or `FindTaken` when the key is held |
| the `GET` and `decideFromRecord` | `Refuse` (in progress, or another body), `Replay`, `Proceed` (the key is gone) |
| `await next()` | `Handle`: success; error without work; error after work |
| `SET EX 86400`, errors swallowed | `Remember` |
| `DEL`, errors swallowed | `Release` |
| the two times to live | `Expire`, at any time |
| a process that dies | `Crash`, at any step |

The third outcome of `Handle` is what `POST /messages` and `POST /invitations` do
when the event or the email fails after the insert. Time is left out: expiry may
come at any moment, which includes a handler that outlasts its 120 seconds.

`RunsOnce` is conditional, and says so: no record has expired, nobody went on
unreserved, and a request whose caller was told of a failure does not count.
`AnswersAreGenuine` has no condition at all.

### `Trust`: invitations and what they leave behind

Every operation of `invitation.service.ts` is a sequence of autocommitted
statements, and `request` says at which of them each request is.

| Code | Steps of the model |
|---|---|
| conversation creation | `createConversation`, `AddOwner` |
| `createInvitation` | `CreateCheck`, `CreateInsert`; then `FindTrust`, `FindRevocation`, `MarkAutoAccepted`, `JoinAutoAccepted` |
| `acceptInvitation` | `AcceptRead`, then `Lapse`, or `AcceptMark`, `AcceptFind`, `AcceptEnter` |
| `declineInvitation`, `revokeInvitation` | `DeclineRead`, `RevokeRead`; `Write` |
| `routes/human/trusted-agents.ts` | `UntrustRead`, `UntrustWrite` |
| time, a process that dies | `TimePasses`, `Crash` |

An address is stored as the agent wrote it; `exact` says whether the human's own row
has the same spelling. The email of an invitation carries no token, only the
address of the list (`${APP_URL}/app/invitations`), and changes nothing.

### `SignIn`: a person and a browser

`account` is the row (code, attempts, session), `call` the requests, `token` what the
tabs share in `localStorage`, `tab` the page of each. `verifyCode` is `VerifyRead` and
`VerifyWrong` or `VerifyRight`; sending is `WriteCode` and `MailCode`; a sign-out, the
check of a request and expiry are one statement each. A browser takes the answer
when it comes (`TakeAnswer`), which may be after the person has signed in again.
`TriesAreCounted` holds as long as no comparison overlaps another; the counter is
written as the value read plus one.

### `AgentAccess`: an agent's key

Registration from a client or from the web form (which retries by itself), the
authorization of an MCP client with its one-use code, rotation, lifetimes with the
sweep, and the transport's table of sessions with its cap and its own sweep.
`KeysReachOneOwner`: a key is handed to one caller however often its code is
redeemed at once, and a key nobody holds was lost with an answer, a code or a
failed statement.

### `Webhooks`: calling agents back

A row has its secrets, its failure count and its flag. `rotateSecret`, activation and
registration read the row and write it later by id (`RotateRead`, `RotateWrite`, ...);
a delivery keeps the row of the dispatch until the receiver answers
(`DeliveryFails`, `DeliverySucceeds`, `DeliveryLost`). `NotDisabledEarly`: counts lose
failures and never invent one. `GraceKept`: unless two rotations overlap, a current
secret verifies for the grace window. The code takes the time of its expiry between
the SELECT and the UPDATE, which may wait for the row: the window is counted from
some moment since the rotation read it (`since`), not from the write.

### `TaskMailbox` and `AgentProject`

`tasks` are the rows, `thread` the messages and artifacts attached to them,
`events` what has been published on the channel of each task. A row's `version`
stands for `updated_at`: every write renews it, and an event of a status carries
the version that was read back to build it. A call is one request of the sender
or the recipient; a request refused at its first read writes nothing and has no
action.

| Code (`a2a-mailbox.service.ts`) | Steps of the model |
|---|---|
| `sendMessage` | `sendMessage` (one transaction) |
| `updateTaskStatus` | the read and its check; `WriteState`, by id; `ReadBack`; `Publish` |
| `cancelTaskAsSender`, `cancelTaskAsRecipient` | the read and its check; `WriteState` |
| `addTaskMessage`, `addTaskArtifact` | the read and its check; `InsertPost`; `Publish` |

Nothing here is locked and no write repeats its check, so nothing about a task is
final the moment it is written; what holds is that its end *settles*: when no call
that read the task before its end is still to write, no later call can move it
(`EndSettles`). `SuccessWasTold` says that a call which returned success has its
write, or a later one, among the published events. Cancelling publishes nothing.

Extends the mailbox with `project`, the stored status, `recorded`, the rows of
`agent_project_tasks`, and for each assignment its `step` and the task it `sent`.
`createTask` is `AssignCheck`, `AssignSend` (the mailbox's own transaction) and
`AssignRecord`; it may stop between any two of them (`AssignCrash`). What the lead
is shown, `Status`, is derived from the tasks by `a2aStateToProjectTaskStatus` and
`computeProjectStatus`, as in `buildProject`. `cancelProject` is one step: it
writes a constant, so a second one that read the row before changes nothing. The
check that the assignee is a participant is left out: no code removes one.

That a project moves its mailbox only as the mailbox may move (`KeepsMailbox`) is the
refinement proved in `CollaborationProofs`.

`Collaboration` adds readers. A view of tasks reads rows, then the thread of each; a
view of the project reads its row, its recorded tasks and their states. What has
ended for good is shown whole (`EndedTaskIsWhole`, `ClosedProjectIsWhole`).

`ProjectHub` has what a project shares besides: participants, the share link
(rotated by deleting and inserting, under a row lock), callbacks with their
inspection, pushes with their retries, and the event streams that share the
process's one Redis subscriber. `StreamsHear`: a stream hears what is published
unless another stream of the task was closed, for closing one unsubscribes all.

`KeysFile` has the file of `scripts/a2a-cli.ts`: every command is a process that
reads it, a registration also writes it (`Truncate`, then `saveKeys`), and any may be
killed. `KeysAreKept`: a stored key goes only to a registration that overlapped.

### `Chat`: one tab and one conversation

`ChatSocket` has the reconnecting socket with its queue, and the hub, whose check of a
subscription awaits the database; frames, checks and closings overtake one
another. `ChatStore` has the rows with the steps of an insertion (row, file,
publication) and the list with its three writers: pages, pushes, and the tab's
sends with their placeholders. `Chat` joins them with the view's mount and unmount
and with the acceptance that makes a person a participant.

### `RateLimit` and `AgentClient`

Each limiter's window is an entry that dies with it; every Redis command is a step
(`getPenalty`, `Count`, `ApplyPenaltyRead`, `ApplyPenaltySet`, `Refuse`). A call of an
SDK is asked, refused, paused and repeated; a listing goes page after page; a wait
polls ever more rarely within its budget. Time is `Tick`, in which every timer and
window grows shorter by one.

## 3. Runs

| Run | Instance | Shows |
|---|---|---|
| `query_safety` | four calls of any kind, a poller, crashes; one tick of timeout, three of time, two rounds; no email replies | `EntitledOnRecord`, `AcknowledgedStands`, `AnswerIsGenuine`, `ImplementsRecord` |
| `query_progress` | two calls, email replies among them, with fairness | `EveryCallReturns`, `OverdueIsSettled` |
| `query_email` | an email reply beside one other call | violated: `AnswerStands` |
| `link_safety` | two tabs, two answers, a query handed back and clarified; or four requests, two at a time, over two invitations, two conversations, two humans | `AnsweredMeansRecorded`, `SpentByItsAnswer`, `LinkImplementsRecord`; `SeatsAreConsented`, `AcceptedIsSeated`, `RevocationHolds`, `DecidedStays` |
| `dialogue_safety` | four questions, three clarifications, one tab; or an agent with one of three tools, three drafts and six spaces; or four attempts with one key and two bodies | `GateHolds`, `EveryDecisionCanBeGiven`, `AgentReadsWhatWasGiven`; `RefusalsEnd`; `RunsOnce`, `AnswersAreGenuine` |
| `dialogue_fits` | the first part of the same | violated: `RecordedFits` |
| `access_safety` | four requests of two tabs; or three requests of agents, two slugs, one session allowed | `TriesAreCounted`, `TokenKept`; `KeysReachOneOwner` |
| `notice_safety` | four requests and two events over two webhooks, limit 2; or three requests, two streams, two attempts | `OneCurrentSecret`, `NotDisabledEarly`, `GraceKept`; `SharedHasLink`, `StreamsHear` |
| `project_safety` | two assignments, three requests, two tasks; or three requests and a reader; or four runs of the command line | `SuccessWasTold`, `DeliveriesAreKnown`, `EndSettles`, `CanceledSettles`, `StatusSettles`; `EndedTaskIsWhole`, `ClosedProjectIsWhole`; `KeysAreKept` |
| `chat_safety` | a message of the tab and an upload, two connections, two page requests, pages of one | `SubscriptionsHold`, `NothingElseIsMissed`, `ShownOnce` |
| `client_progress` | a call of any kind beside a registration, windows of two and one, one repetition, with fairness | `EveryWaitEnds`, `EveryRequestEnds` |
| `client_listing` | one listing of two pages | violated: `WholeListing` |

### Why the bounds are enough

* Query: the timeout is one tick, so a query is overdue after two; a third leaves room
  for a pause, a clarification and a second deadline. Four calls ask back, clarify,
  ask back again and are refused (two rounds, the code's value), and make any
  conflict of two, three or four writers. One poller remembers one status.
* Link: two tabs with an answer each race for one row. A query is handed back a
  second time, by a request that read the first, only where one tab at most is open
  (`LinkBounds`): a second tab adds nothing to being out of rounds.
* Trust: consent, a later creation, the revocation and an answer to the invitation
  are four requests; two at a time make every race of one read and one write.
  The conversations are created first (`Bounds`).
* Keys of requests: three attempts for a lost reservation, a free key and the one who
  takes it; the fourth has another body.
* Webhooks: two deliveries of one dispatch count, with a limit of two; two rotations
  race and a third call deletes or switches.
* Mailbox: a report, a cancellation and a message race; two tasks, one ends while the
  other is under way. The views need fewer requests (`MaxShown`).
* Chat: the list loses or doubles a message only where a page, a push and a send
  meet, or a connection is replaced: two of each. `MaxEvents` bounds connections
  and messages together. The message of the query's answer takes no part in
  this run; what becomes of it is in section 5.
* Client: windows that one or two requests use up make refusals unavoidable.

Symmetry is used where requests are interchangeable, and only with invariants and
with properties of single steps; the runs with liveness use none.
`CHECK_DEADLOCK FALSE` stands where every request has been made and answered and
the system really stops.

### Fairness

`Serve(c)` is weakly fair for every call: the server carries on what it has begun,
and a statement that waits for a row lock gets it once it is free for good (the
lock is only taken once per call, so it cannot be stolen for ever). `Crash` is
never forced. The agent's polling is weakly fair because every status hint the
agent is given tells it to keep polling (`STATUS_HINTS`); the person's list of
queries is not, nor is making any request, nor the clock.

In `AgentClient` the client's runtime (`Run`), the service (`Serve`) and the clock
(`Tick`) are weakly fair; nobody need answer, crash or abort. `EveryRequestEnds`
names what may keep a call for ever: a connection gone silent, a wait without a
timeout for a query nobody answers, a Python listing whose next page is the first.
The other modules assume no fairness: what they promise is safety, and the code
runs nothing in the background that would have to get a turn.

## 4. What is proved

Eight modules of proofs. Each extends the modules it is about, and TLC found the
inductive invariants to hold on the instances above. What a theorem assumes of its
constants is an ASSUME, of its module or of the MC module, which TLC evaluates
(except that some theorems about `HumanQuery` leave out email replies, as said there).
Every safety property and every action property of the passing runs is a theorem.

| Module of proofs | About |
|---|---|
| `HumanQueryProofs` | `HumanQuery`, its refinement of `QueryRecord` |
| `DialogueProofs` | `QueryDialogue`, `AskHuman`, `IdempotencyKey` |
| `ReachedProofs` | `QueryLink`, its refinement of `QueryRecord`; `Trust` |
| `AccessProofs` | `SignIn`, `AgentAccess` |
| `NoticeProofs` | `Webhooks`, `ProjectHub` |
| `CollaborationProofs` | `TaskMailbox`, `AgentProject`, `Collaboration`, `KeysFile` |
| `ChatProofs` | `ChatSocket`, `ChatStore`, `Chat` |
| `ClientProofs` | `RateLimit`, `AgentClient` |

### Queries and links

`HumanQueryProofs` holds for any number of calls and pollers, any timeout and any
cap on rounds (`ConstantsOK` only says that they are naturals and that `None` is
neither a call nor a number).

* `TypeCorrect`. The type invariant is not inductive: `updateQuery` adds
  `now - pausedAt` to the deadline, which is a natural number only because a pause
  began in the past (`PausedInPast`, of the row and of every row that was read).
* `Entitled`. `EntitledInv` adds what a call is doing at each step (`OpAtStep`) and
  that a call past its check-then-insert has seen or will insert a participant
  (`MemberInTime`). It covers email replies and crashes.
* With `InboundEmail = FALSE`: `QuietCorrect` establishes the inductive invariant
  (types, `OpAtStep`, no email in flight, pollers remember only open statuses).
  From it follow `Acknowledged`, `Genuine`, `Final` and `Refinement`. The argument
  is that every guarded write asks for an open status (`FromStatusesOpen`,
  `SettledStep`), that a call newly reports success only in the step that writes
  (`NewlyAcknowledged`), and that each step maps to one move of the record
  (`RecordStep`).
* With email replies, from the same invariant without `NoEmail` (`WritersInv`). TLC
  refutes `AnswerStands` there, and these theorems say how far that goes.
  `OnlyMailUnsettles`: the assignment of a reply is the only step that writes a settled
  row. `RecordButMail`: it is also the only one that is no step of the record.
  `AnswersReal`: what stands in the row was still given by a call that reports success,
  and every acknowledged answer has its message in the conversation.
* `LockServed`: whoever holds the invitation's lock is in its transaction, at a step that
  waits for nothing, and a crash gives it back. `EveryCallReturns` rests on it.

`ReachedProofs` holds for any tabs and answers, any timeout and cap on rounds.

* `LinkTypeCorrect`, from `LinkInv`: a pause began in the past, and a request is
  served past its first step only with a grant (`GrantedBefore`).
* `LinkRefinesRecord` (`LinkImplementsRecord`): each guarded write asks for an open
  status, so every step is a move of the record or leaves it alone.
* `AnswerCorrect` and `SpentCorrect` (`AnsweredMeansRecorded`, `SpentByItsAnswer`),
  from `AnswerInv`: an answer past its write is the one on record
  (`WrittenIsRecorded`), a tab waits for what it sent itself (`AwaitsItsOwn`), and
  what is answered stays answered.

### The dialogue, refusals and keys of requests

`DialogueProofs` holds for any questions, patches, entries and tabs that have the
shapes which the SDK's types and `createQuerySchema` ask for (`QuestionConstants`),
and for any drafts and spaces of an agent that knows one form with a slot that is
not a text (`AskConstants`; without one, it could not follow every remedy).

* `GateCorrect` (`GateHolds`), from `DialogueGate`. Not only the row must have been
  judged (`Judged`) but also what a clarification is about to write (`AskIsSound`): it
  was judged against the row it read, and what else may be written meanwhile leaves
  alone the parts it does not write itself, the declared risk and `self_contained`.
  That elevation is never below the declared risk, nor below `high` for a large
  amount, is the lemma `Elevation`.
* `ReadCorrect` (`AgentReadsWhatWasGiven`), from `DialogueInv`, which adds what tabs
  hold (`TabsSound`) and that the recorded answer is the wire's spelling of what was
  given (`AnswerIsSound`). `ThereAndBack` is the lemma about the two spellings. The
  property used to say that the agent reads exactly the form; the attempt to prove it
  failed on an answer of fields, and TLC then found a form that had kept an emptied
  number across a clarification, which `answerToWire` drops. The question `Counted`
  of `MCQueryDialogue` is there since.
* `DecisionsCorrect` (`EveryDecisionCanBeGiven`). For each kind of space, the entries that
  lead to a decision are named and shown to reach it. For a form of fields they are as
  many as it has slots: after `n` of them it holds the first `n` values (`Held`), each a
  further input of the form (`UpTo`, `OneMore`). `Filled` is a recursive function; what it
  is at `n + 1` follows from what it is at `n` (`EntriesDefined`), and `Reached` climbs it
  from 0 by the least number at which a step would fail (`Induction`, from the
  library's theorem that `<` is well founded: no operator is passed to it). It assumes
  `ValueConstants` (nothing, empty and the values differ) and `SpaceConstants`: the
  spaces asked are made of the schema's types, and `Entries`, the bound on how much a
  form is filled in, leaves room for each of their slots. A web form has no such bound.
* `RefusalsCorrect` (`RefusalsEnd`), from `AskInv`: what the agent was told is cured in
  its draft (`Cured`). A refusal names what the draft lacks (`RefusalLacks`), so it is
  none of those; a remedy cures it, and takes back nothing that was cured before
  (`RemedyCures`). The last needs the order of the rules: a remedy that replaces the
  answer space is only named while that space has nothing that was cured (`Lacks`).
  `SomethingToDo` says that every refusal has a remedy which the call can carry;
  `ReceivedIsDraft`, that each tool lets the agent say what its draft says.

For any attempts that carry one key, bodies and assignment of bodies:

* `TypeCorrect`, the type invariant.
* `GenuineCorrect`, from `RecordIsGenuine`: whatever the record says is true. A
  completed record names a request that succeeded with the body it holds, so a
  replay is genuine whoever overwrote or deleted the key in between.
* `OnceCorrect`, from `OnceInv`. While nothing expired and nobody went on
  unreserved, whoever is inside holds the reservation (`HeldWhileRunning`), work
  that was done leaves the key taken (`TakenOnceDone`), and nobody else is inside
  (`DoneAlone`). The condition can only turn false, so each step starts from it.

### Trust

`ReachedProofs` holds for any agents, humans, conversations, invitations and requests.
Its theorems assume `TrustConstants` (who creates a conversation is an agent).

* `TrustTypeCorrect`, from `TrustInv`: a request holds an invitation that was made.
* `ConsentCorrect` (`SeatsAreConsented`), from `ConsentInv`: who is seated, accepted, or
  about to be either on trust has consented to that agent before, and consents only
  grow.
* `AcceptanceSeats` (`AcceptedIsSeated`), from `SeatInv`: an accepted invitation has its
  row, or a request that will write it, or one that died over it.
* `VerdictsStand` (`DecidedStays`): only requests that hold an invitation write it
  (`OnlyHoldersWrite`). `RevocationsHold` (`RevocationHolds`): nobody comes to hold it
  on trust once the revocation is stored.

### Sign-in and keys of agents

The theorems of `AccessProofs` assume `SignInConstants` and `AccessConstants`: at least
one try, at least one session, and that a code, a token and nothing differ.

* `SignInTypeCorrect`, `TriesCorrect` (`TriesAreCounted`) and `TokenCorrect` (`TokenKept`),
  from `SignInInv`. While no comparison has overlapped another, the one under way
  has the code and the count that the row still has (`ComparesTheRow`), so the count
  it writes is one more; each try is a request (`Tries`), and their set is finite. A
  token which is stored, sent, or on the row was given by a verification
  (`TokensAreGiven`), and one that was refused works no more (`RefusedIsOver`): the row
  has lost it, and a new one is another. A refusal that takes away a token that
  works was therefore the refusal of another.
* `AccessTypeCorrect` and `OneOwnerCorrect` (`KeysReachOneOwner`), from `AccessInv`. A code
  is redeemed by one exchange at most (`CodesAreRedeemedOnce`: the exchange that takes
  it deletes it), who is handed a key made it or redeemed its code
  (`KeysAreHandedOver`), and the key on a row says how far its request has come
  (`KeysAreMade`).

### Webhooks and the hub of projects

`NoticeProofs` holds for any webhooks, calls, dispatches, limit and grace window, and
for any agents, requests and streams with a lead among the agents (`HubConstants`).

* `WebhookTypeCorrect`, from `WebhookInv`: a call that rotates or activates names a row.
* `SecretCorrect` (`OneCurrentSecret`), from `SecretStated`: whatever a rotation read,
  it writes one secret that does not expire, and that is its own.
* `DisabledCorrect` (`NotDisabledEarly`), from `DisabledInv`: the count of a row, and the
  one each delivery keeps, are no more than the failures there were.
* `GraceCorrect` (`GraceKept`), from `GraceInv`: a rotation whose row another one has not
  overlapped still finds the secrets it read, and its window opens no earlier than
  that.
* `HubTypeCorrect` and `LinkCorrect` (`SharedHasLink`), from `HubInv`. A request names
  somebody (`RequestsName`), a push under way has attempts left (`AttemptsLeft`), and
  `LinkIsGiven`: the stored link was given to the lead, and once one was given there
  is always one. The DELETE and the INSERT of a rotation commit together, and only
  if it saw the row that is there.
* `HearingCorrect` (`StreamsHear`): the channel of a stream's task is subscribed unless a
  stream of that task was closed (`Subscribed`), and only a publication moves a
  report past its publication (`OnlyPublishing`).

### Tasks, projects and their views

`CollaborationProofs` holds for any tasks, calls, assignments, readers and set of
reported states, and for any slugs and processes of the command line.

* `MailboxTypeCorrect` and `TypeCorrect`. A call in flight must be about a task
  (`CallsAim`), or its write would have no row.
* `EndCorrect` (`EndSettles`): a call newly allowed to write passed its check on
  the state the task has now (`EndKept`), so the end of a task stands once the
  calls that read it earlier are over.
* `ToldCorrect` (`SuccessWasTold`), from `ToldInv`: versions, threads and events
  only grow (`Grows`), and the version a call reads back lies between the one it
  wrote and the one the row has.
* `MailboxKept` (`KeepsMailbox`): a step of a project is a step of its mailbox or
  leaves it alone. What was proved of the mailbox therefore holds in a project.
* `KnownCorrect` (`DeliveriesAreKnown`), from `KnownInv`; `CanceledCorrect` and
  `StatusCorrect` (`CanceledSettles`, `StatusSettles`), the last by `EndKept`.
* `CollaborationTypeCorrect`, `EndedTaskCorrect` (`EndedTaskIsWhole`) and
  `ClosedProjectCorrect` (`ClosedProjectIsWhole`), from `CollaborationInv`. The properties
  are about views that are complete; the invariant is about views in the making. What
  had settled when a view began is right in it as far as it has read: the rows of
  tasks and the threads attached so far (`TasksInSight`), the row of the project, the
  tasks recorded in it, their states (`ProjectInSight`). That what has settled stays so
  (`SettledStay`) is `EndSettles` and `CanceledSettles` over again, now for the reader.
* `KeysTypeCorrect` and `KeysKept` (`KeysAreKept`), from `KeysInv`: what was stored before a
  registration was answered is among the keys it has loaded, or was overlapped
  (`BeforeIsSeen`).

### A tab and its conversation

`ChatProofs` holds for any messages, page requests and connections, and any page
size. Its first lemmas are about sequences: the entries of a list that are kept
(`Kept`, by rank of their positions) are entries of the list, in its order, once each
(`KeptEntries`).

* `SubscriptionsCorrect` (`SubscriptionsHold`), from `SocketInv`. As long as a wanted
  conversation's connection lasts, its subscription is the last frame on its way, or
  is being checked, or has been answered (`WantedIsAsked`); what a closed connection
  still holds in the hub came late (`ClosedIsLate`).
* `ShownOnceCorrect` (`ShownOnce`), from `StoreInv`: rows, pages and the list each have a
  message once (`RowsOnce`, `PagesOnce`, `EachOnce`), and a placeholder waits for its own
  send (`PlaceholdersWait`), which takes it away when it ends.
* `NothingElseCorrect` (`NothingElseIsMissed`), from `AccountInv`: every published message
  is accounted for, in the list, on its way, taken out or cut short by a page, or missed
  when it was published. It stands on both of the others: a push reaches
  the tab because it is subscribed, and stays because the list keeps what it has.
* `ChatTypeCorrect`, the type invariant of all three modules.

### Clients and the windows they wait for

`ClientProofs` holds for any calls of one address, jobs, limits, windows, penalties,
retries and intervals. It assumes `RateLimitConstants` (limits and windows are not
zero) and `AgentClientConstants` (retries and intervals are naturals, jobs are jobs).
What it proves is the safety half of `EveryWaitEnds` and `EveryRequestEnds`.

* `ClientsCorrect` establishes the inductive invariant. `LimitInv`: an entry counts
  something as long as it lives and no longer (`WindowsEnd`: a count without a time to
  live would refuse for ever), lives no longer than `Longest`, and a request goes on
  with what its next command can use (`RequestSound`). `ClientInv`: each call's state
  fits its request and its job (`CallSound`).
* `RefusalsNeverProlong`: a window that is open only runs down, whatever refusals,
  penalties and races of counting happen meanwhile, and every tick shortens it.
  `RefusalsAreSound`: a refusal tells a wait between one tick and `Longest`, though the
  window may close between the count and the `TTL`.
* `BudgetsHold`: of the budget of a wait, time alone takes, through every refusal, pause
  and repetition; and no pause outlasts it.
* `CallsAreSound`. While a call pauses nothing of it is under way, so no response is taken
  for a later request's (`OneAtATime`). Repetitions are bounded, but for the pages of the
  TypeScript SDK (`RetriesBounded`). And no listing hands out anything beyond its
  first page, whatever its length and SDK (`FirstPageOnly`): the universal form of what
  `client_listing` finds.

### What is only model-checked

Liveness: `EveryCallReturns`, `OverdueIsSettled`, `EveryWaitEnds`, `EveryRequestEnds`. Their
fairness, with ENABLED, is beyond the prover. What each rests on is a theorem:
`LockServed` for the first, `RefusalsNeverProlong` and `BudgetsHold` for the last two.
The runs that TLC must refute have no theorem either.

## 5. What the repository says and the code does not keep

Three statements are runs that TLC refutes: `AnswerStands` (`query_email`),
`RecordedFits` (`dialogue_fits`) and `WholeListing` (`client_listing`); `PROJECT.json`
quotes the lines. The others are stated at the end of their modules. TLC refutes each
on the instance of a run that checks the module, with the exceptions named.

| Statement | Module | What happens |
|---|---|---|
| `PausedNeverExpires` | `HumanQuery` | the list's batch expiry takes a query that was handed back after it was read |
| `ExhaustedExpires` | `HumanQuery` | out of rounds, a query stays paused for ever unless its agent clarifies; refuted under the fairness of `query_progress` with one round allowed |
| `AcceptedWithAnswer` | `HumanQuery` | an answer that lost commits the acceptance it reports as failed |
| `ReturnsByTheLink` | `QueryLink` | a clarification moves the query's deadline and not the grant's |
| `FormIsOfItsCard` | `QueryDialogue` | a form filled in before a clarification keeps values for fields that are gone |
| `EveryRemedyIsOpen` | `AskHuman` | a refused clarification names `self_contained`, which a PATCH does not have |
| `EntryIsExclusive` | `IdempotencyKey` | an attempt that loses the `SET`, and reads a key freed in between, enters beside the next holder |
| `WorkIsDoneOnce` | `IdempotencyKey` | a request that fails after its work is repeated by the retry |
| `DeclinedIsFinal` | `Trust` | an acceptance that had read the invitation as pending overwrites a decline |
| `OneSeatEach` | `Trust` | an automatic acceptance does not look for a row: invited again, a person has two |
| `AcceptingIsTrusting` | `Trust` | nothing takes a revocation back, so accepting again does not list the agent |
| `PendingIsListed` | `Trust` | an invitation under another spelling of the address is in nobody's list |
| `FlagFollowsStreak` | `Webhooks` | a delivery dispatched before writes the flag it read |
| `TerminalIsFinal` | `TaskMailbox` | a report in flight overwrites an acknowledged cancellation |
| `ClosedTakesNoTask` | `AgentProject` | a project shown as completed takes a task |
| `CompletedIsShared` | `Collaboration` | a member is shown the column, which stays active |
| `EachHasItsKey` | `KeysFile` | of two that register at once, one is left without its key |
| `AnswerIsHeard` | `Chat` | a subscription refused before the answer made its human a participant is not repeated; refuted with the answer's message in place of the upload |
| `LastChance` | `AgentClient` | a wait whose last pause ends with its budget does not ask once more |
| `RefusalSaysWhen` | `AgentClient` | a 429 has its time in the body and no `Retry-After` |

Two facts met by reading. `updateQuery` counts how often a query was handed back, so
its refusal that a query "has already been clarified" the maximum number of times
comes one clarification earlier than it says. And a page of older messages is asked
for with a cursor the route does not take, so the web client's older pages never
load (`RefuseOlder`).

## 6. What is not modelled

* The inbound mail route's signature and parsing decide whether `processEmailReply` is
  called. Cryptography (hashes, tokens, signatures) is a yes or a no throughout.
* Single statements that decide nothing here: profile edits, renaming a
  conversation, reading a file back, what an agent says about itself, read receipts
  and typing, the text of a project's contract.
* The MCP tools that only call services modelled elsewhere, OAuth metadata and the
  registration of clients, whose identity nothing checks.
* The Python client repeats as the TypeScript one does; only its listing, its
  registration and its timeouts are in `AgentClient`.
* The stores of the web client that hold what one call returned, the voice-note
  player, landing pages and their animations, layout, wording, email templates, API
  descriptions, logging, migrations, configuration, the demonstration, administration
  and smoke scripts: they keep no state that another part depends on.
