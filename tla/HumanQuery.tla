------------------------------- MODULE HumanQuery ------------------------------
(***************************************************************************)
(* One human query of AgentDialog: its row in human_queries, the           *)
(* invitation that carries it, the participant rows of the person it is    *)
(* addressed to, and every request that reads or writes them.              *)
(*                                                                         *)
(* PostgreSQL runs each statement on what has been committed (READ         *)
(* COMMITTED), so a request is a sequence of steps: every SELECT whose     *)
(* result a later statement relies on, every autocommitted UPDATE or       *)
(* INSERT, and every COMMIT of a transaction is one step, and the steps of *)
(* different requests interleave freely.  What a transaction writes is     *)
(* visible at its commit; the row lock its UPDATE takes on the invitation  *)
(* is held until then.  Each UPDATE of the query row is the last statement *)
(* of its transaction, so its lock is never held across a step.            *)
(*                                                                         *)
(* A request that returns early before it has written anything is a        *)
(* stuttering step and has no action.                                      *)
(***************************************************************************)
EXTENDS Integers

CONSTANTS
  Calls,         \* requests that may write the query; each is made at most once
  Sweepers,      \* clients that poll GET /agent/queries/:id or GET /human/queries
  None,          \* null
  Timeout,       \* timeout_minutes of the query, in ticks
  MaxNow,        \* bound on the clock
  MaxRounds,     \* MAX_CLARIFICATION_ROUNDS
  InboundEmail   \* whether replies to the query's email reach the service

ASSUME ConstantsOK ==
  /\ None \notin Nat
  /\ None \notin Calls
  /\ Timeout \in Nat \ {0}
  /\ MaxNow \in Nat
  /\ MaxRounds \in Nat
  /\ InboundEmail \in BOOLEAN

VARIABLES
  now,           \* the clock
  query,         \* the human_queries row
  invitation,    \* the invitations row created with it
  participants,  \* how many conversation_participants rows the human has
  responses,     \* calls whose human_query_response message is in the conversation
  lock,          \* the transaction that holds the lock of the invitation row
  op,            \* what each call does
  pc,            \* where it is, or how it ended
  row,           \* the query row it read first
  joins,         \* calls that read no participant row and will insert one
  sweep          \* what each poller has read and not yet acted upon

rows  == <<query, invitation, participants, responses>>
tx    == <<lock, joins>>
calls == <<op, pc, row>>
vars  == <<now, rows, tx, calls, sweep>>

--------------------------------------------------------------------------------
(* Types *)

Open    == {"pending", "assigned", "needs_context"}
Settled == {"answered", "expired", "cancelled"}
Time    == Nat \cup {None}

Row ==
  [status    : {"absent"} \cup Open \cup Settled,
   rounds    : Nat,                  \* clarification_rounds
   pausedAt  : Time,
   expiresAt : Nat,
   answer    : Calls \cup {None}]    \* response_message_id, by the call that wrote it

NoRow == [status |-> "absent", rounds |-> 0, pausedAt |-> None,
          expiresAt |-> 0, answer |-> None]

Invitation ==
  [status    : {"pending", "accepted", "declined", "expired", "revoked"},
   expiresAt : Nat]

Responding == {"answer", "insufficient"}
Inviting   == {"accept", "decline", "revoke"}
Op         == Responding \cup Inviting \cup {"email", "clarify", "cancel"}

\* How a call ends: done, an error before its write, a write that found the row
\* in another status (409), or the process that served it died.
Ended == {"ok", "refused", "conflict", "crashed"}
Step  == {"select", "lock", "member", "commit", "reply", "unfreeze", "clarify",
          "lapse", "mark", "join", "assign"}

Idle  == [kind |-> "idle", status |-> "absent"]
Sweep == [kind : {"idle", "get", "list"}, status : {"absent"} \cup Open \cup Settled]

TypeOK ==
  /\ now \in Nat
  /\ query \in Row
  /\ invitation \in Invitation
  /\ participants \in Nat
  /\ responses \in SUBSET Calls
  /\ lock \in Calls \cup {None}
  /\ op \in [Calls -> Op \cup {"none"}]
  /\ pc \in [Calls -> {"idle"} \cup Step \cup Ended]
  /\ row \in [Calls -> Row]
  /\ joins \in SUBSET Calls
  /\ sweep \in [Sweepers -> Sweep]

Init ==
  /\ now = 0
  /\ query = NoRow
  /\ invitation = [status |-> "pending", expiresAt |-> 0]
  /\ participants = 0
  /\ responses = {}
  /\ lock = None
  /\ op = [c \in Calls |-> "none"]
  /\ pc = [c \in Calls |-> "idle"]
  /\ row = [c \in Calls |-> NoRow]
  /\ joins = {}
  /\ sweep = [s \in Sweepers |-> Idle]

--------------------------------------------------------------------------------
(* Steps of a call *)

\* Call c starts doing o with the row as it stands, and goes on at step `at`.
Begin(c, o, at) ==
  /\ op' = [op EXCEPT ![c] = o]
  /\ pc' = [pc EXCEPT ![c] = at]
  /\ row' = [row EXCEPT ![c] = query]

Goto(c, at) ==
  /\ pc' = [pc EXCEPT ![c] = at]
  /\ UNCHANGED <<op, row>>

\* Call c ends, and forgets what it read.
Return(c, outcome) ==
  /\ pc' = [pc EXCEPT ![c] = outcome]
  /\ row' = [row EXCEPT ![c] = NoRow]
  /\ joins' = joins \ {c}
  /\ UNCHANGED op

\* Rows a call adds when its pending INSERT takes effect.
Inserted(c) == IF c \in joins THEN 1 ELSE 0

Overdue == now > query.expiresAt

\* Mutant: a query somebody has accepted is no longer expired.
IsExpirableUnassigned ==
  \/ query.status = "pending"
  \/ query.status = "needs_context" /\ query.pausedAt = None

\* isExpirable: a paused needs_context is the agent's turn, and its clock is stopped.
IsExpirable ==
  \/ query.status \in {"pending", "assigned"}
  \/ query.status = "needs_context" /\ query.pausedAt = None

--------------------------------------------------------------------------------
(* createQuery: the conversation, the invitation, the row and its grant are  *)
(* one transaction.  A human who accepted an earlier invitation of the agent *)
(* and has not revoked it is joined and assigned at once.                    *)
CreateQuery ==
  /\ query.status = "absent"
  /\ \E trusted \in BOOLEAN :
       /\ query' = [query EXCEPT !.status = IF trusted THEN "assigned" ELSE "pending",
                                 !.expiresAt = now + Timeout]
       /\ invitation' = [status |-> IF trusted THEN "accepted" ELSE "pending",
                         expiresAt |-> now + Timeout]
       /\ participants' = participants + (IF trusted THEN 1 ELSE 0)
  /\ UNCHANGED <<now, responses, tx, calls, sweep>>

--------------------------------------------------------------------------------
(* respondQuery *)

\* The read and the entitlement check.  Participant rows are never deleted and
\* every status past pending has one, so reading them with the row loses nothing.
\* An email reply arrives here after its own transaction.
RespondRead(c, o) ==
  /\ o \in Responding
  /\ pc[c] = "idle" \/ (pc[c] = "reply" /\ o = "answer")
  /\ query.status \in Open
  /\ query.status # "pending" => participants > 0
  /\ Begin(c, o, IF query.status = "pending" THEN "select" ELSE "commit")
  /\ UNCHANGED <<now, rows, tx, sweep>>

\* Mutant: answering accepts the invitation and forgets the participant row.
AfterInvitationUnjoined(c) == "commit"

\* The email path goes on to insert the participant without looking for one.
AfterInvitation(c) == IF op[c] = "email" THEN "commit" ELSE "member"

\* acceptPendingInvitation: is there an invitation to accept?
SelectInvitation(c) ==
  /\ pc[c] = "select"
  /\ Goto(c, IF invitation.status = "pending" THEN "lock" ELSE AfterInvitation(c))
  /\ UNCHANGED <<now, rows, tx, sweep>>

\* UPDATE invitations ... WHERE id: waits for the row, then holds it.
LockInvitation(c) ==
  /\ pc[c] = "lock"
  /\ lock = None
  /\ lock' = c
  /\ Goto(c, AfterInvitation(c))
  /\ UNCHANGED <<now, rows, joins, sweep>>

\* The check half of check-then-insert, shared with acceptInvitation.
FindParticipant(c) ==
  /\ pc[c] = "member"
  /\ joins' = IF participants = 0 THEN joins \cup {c} ELSE joins
  /\ Goto(c, IF op[c] = "accept" THEN "join" ELSE "commit")
  /\ UNCHANGED <<now, rows, lock, sweep>>

\* Mutant: the transaction never gives its lock back.
CommitAcceptanceLocked(c, n) ==
  /\ invitation' = IF lock = c THEN [invitation EXCEPT !.status = "accepted"]
                   ELSE invitation
  /\ participants' = participants + n
  /\ UNCHANGED lock

\* What becomes visible of the acceptance at the commit, with n new participants.
CommitAcceptance(c, n) ==
  /\ invitation' = IF lock = c THEN [invitation EXCEPT !.status = "accepted"]
                   ELSE invitation
  /\ participants' = participants + n
  /\ lock' = IF lock = c THEN None ELSE lock

\* fromStatuses: decided by the row as it was read.
FromStatuses(c) ==
  IF row[c].status = "pending" THEN {"pending"}
  ELSE IF op[c] = "answer" THEN {"assigned", "needs_context"}
  ELSE {"assigned"}

Responded(c) ==
  IF op[c] = "answer"
  THEN [query EXCEPT !.status = "answered", !.answer = c]
  ELSE [query EXCEPT !.status = "needs_context",
                     !.rounds = row[c].rounds + 1,
                     !.pausedAt = now]

\* The transaction commits whether or not its guarded UPDATE found the row: the
\* ConflictError is thrown after it.
RespondCommit(c) ==
  /\ pc[c] = "commit"
  /\ op[c] \in Responding
  /\ CommitAcceptance(c, Inserted(c))
  /\ responses' = IF op[c] = "answer" THEN responses \cup {c} ELSE responses
  /\ \/ /\ query.status \in FromStatuses(c)
        /\ query' = Responded(c)
        /\ Return(c, "ok")
     \/ /\ query.status \notin FromStatuses(c)
        /\ UNCHANGED query
        /\ Return(c, "conflict")
  /\ UNCHANGED <<now, sweep>>

--------------------------------------------------------------------------------
(* processEmailReply, for a query that wants a text answer *)

EmailRead(c) ==
  /\ InboundEmail
  /\ pc[c] = "idle"
  /\ query.status \in Open \cup {"cancelled"}
  /\ ~Overdue
  /\ Begin(c, "email", IF query.status = "pending" THEN "select" ELSE "reply")
  /\ UNCHANGED <<now, rows, tx, sweep>>

\* The status is written by id alone.
EmailCommit(c) ==
  /\ pc[c] = "commit"
  /\ op[c] = "email"
  /\ CommitAcceptance(c, 1)
  /\ query' = [query EXCEPT !.status = "assigned"]
  /\ Goto(c, "reply")
  /\ UNCHANGED <<now, responses, joins, sweep>>

\* The reply is empty once its quotes are stripped, or respondQuery refuses it.
EmailDropped(c) ==
  /\ pc[c] = "reply"
  /\ Return(c, "refused")
  /\ UNCHANGED <<now, rows, lock, sweep>>

--------------------------------------------------------------------------------
(* updateQuery: the agent supplies what the human said was missing *)

ClarifyRead(c) ==
  /\ pc[c] = "idle"
  /\ query.status = "needs_context"
  /\ Begin(c, "clarify", IF query.rounds >= MaxRounds THEN "unfreeze" ELSE "clarify")
  /\ UNCHANGED <<now, rows, tx, sweep>>

\* Rounds exhausted: the clock starts again and the PATCH is refused.
ClarifyUnfreeze(c) ==
  /\ pc[c] = "unfreeze"
  /\ query' = IF query.status = "needs_context"
              THEN [query EXCEPT !.pausedAt = None] ELSE query
  /\ Return(c, "refused")
  /\ UNCHANGED <<now, invitation, participants, responses, lock, sweep>>

PausedFor(c) == IF row[c].pausedAt = None THEN 0 ELSE now - row[c].pausedAt

\* Gives back the time the agent held the turn, counted from the row it read.
ClarifyWrite(c) ==
  /\ pc[c] = "clarify"
  /\ \/ /\ query.status = "needs_context"
        /\ query' = [query EXCEPT !.status = "assigned",
                                  !.expiresAt = row[c].expiresAt + PausedFor(c),
                                  !.pausedAt = None]
        /\ Return(c, "ok")
     \/ /\ query.status # "needs_context"
        /\ UNCHANGED query
        /\ Return(c, "conflict")
  /\ UNCHANGED <<now, invitation, participants, responses, lock, sweep>>

\* Mutant: cancelQuery writes by id.
CancelQueryById(c) ==
  /\ pc[c] = "idle"
  /\ query.status # "absent"
  /\ query' = [query EXCEPT !.status = "cancelled", !.pausedAt = None]
  /\ op' = [op EXCEPT ![c] = "cancel"]
  /\ pc' = [pc EXCEPT ![c] = "ok"]
  /\ UNCHANGED <<now, invitation, participants, responses, tx, row, sweep>>

\* cancelQuery: one guarded UPDATE.
CancelQuery(c) ==
  /\ pc[c] = "idle"
  /\ query.status \in Open
  /\ query' = [query EXCEPT !.status = "cancelled", !.pausedAt = None]
  /\ op' = [op EXCEPT ![c] = "cancel"]
  /\ pc' = [pc EXCEPT ![c] = "ok"]
  /\ UNCHANGED <<now, invitation, participants, responses, tx, row, sweep>>

--------------------------------------------------------------------------------
(* acceptInvitation, declineInvitation, revokeInvitation: no transaction,    *)
(* every statement commits on its own                                        *)

InvitationRead(c, o) ==
  /\ o \in Inviting
  /\ pc[c] = "idle"
  /\ query.status # "absent"
  /\ invitation.status = "pending"
  /\ op' = [op EXCEPT ![c] = o]
  /\ pc' = [pc EXCEPT ![c] = IF o = "accept" /\ now > invitation.expiresAt
                             THEN "lapse" ELSE "mark"]
  /\ UNCHANGED <<now, rows, tx, row, sweep>>

\* An invitation accepted too late is marked expired, and the call refused.
InvitationLapse(c) ==
  /\ pc[c] = "lapse"
  /\ lock = None
  /\ invitation' = [invitation EXCEPT !.status = "expired"]
  /\ Return(c, "refused")
  /\ UNCHANGED <<now, query, participants, responses, lock, sweep>>

Verdict(o) ==
  CASE o = "accept" -> "accepted" [] o = "decline" -> "declined" [] OTHER -> "revoked"

\* The verdict is written by id, whatever the invitation has become.
InvitationMark(c) ==
  /\ pc[c] = "mark"
  /\ lock = None
  /\ invitation' = [invitation EXCEPT !.status = Verdict(op[c])]
  /\ \/ op[c] = "accept" /\ Goto(c, "member") /\ UNCHANGED joins
     \/ op[c] # "accept" /\ Return(c, "ok")
  /\ UNCHANGED <<now, query, participants, responses, lock, sweep>>

AcceptJoin(c) ==
  /\ pc[c] = "join"
  /\ participants' = participants + Inserted(c)
  /\ joins' = joins \ {c}
  /\ Goto(c, "assign")
  /\ UNCHANGED <<now, query, invitation, responses, lock, sweep>>

\* Mutant: not scoped to rows still pending.
AcceptAssignAnyway(c) ==
  /\ pc[c] = "assign"
  /\ query' = [query EXCEPT !.status = "assigned"]
  /\ Return(c, "ok")
  /\ UNCHANGED <<now, invitation, participants, responses, lock, sweep>>

\* The acceptance reaches the query, if it is still pending.
AcceptAssign(c) ==
  /\ pc[c] = "assign"
  /\ query' = IF query.status = "pending"
              THEN [query EXCEPT !.status = "assigned"] ELSE query
  /\ Return(c, "ok")
  /\ UNCHANGED <<now, invitation, participants, responses, lock, sweep>>

--------------------------------------------------------------------------------
(* Lazy expiry: nothing but a reader expires a query *)

\* getQuery (the agent, "get") and listHumanQueries (the human, "list") read an
\* overdue row they may expire.
SweepRead(s, kind) ==
  /\ kind \in {"get", "list"}
  /\ sweep[s] = Idle
  /\ Overdue /\ IsExpirable
  /\ kind = "list" => query.status = "pending" \/ participants > 0
  /\ sweep' = [sweep EXCEPT ![s] = [kind |-> kind, status |-> query.status]]
  /\ UNCHANGED <<now, rows, tx, calls>>

\* Mutant: the batch UPDATE goes by id alone.
ExpiresById(s) ==
  IF sweep[s].kind = "get" THEN query.status = sweep[s].status ELSE TRUE

\* getQuery's UPDATE asks for the status it read; the batch UPDATE of the list
\* asks for any status that can expire.
Expires(s) ==
  IF sweep[s].kind = "get" THEN query.status = sweep[s].status ELSE query.status \in Open

SweepWrite(s) ==
  /\ sweep[s] # Idle
  /\ query' = IF Expires(s) THEN [query EXCEPT !.status = "expired"] ELSE query
  /\ sweep' = [sweep EXCEPT ![s] = Idle]
  /\ UNCHANGED <<now, invitation, participants, responses, tx, calls>>

--------------------------------------------------------------------------------
(* The environment *)

\* The process serving c dies: its transaction is rolled back, what it committed stays.
Crash(c) ==
  /\ pc[c] \in Step
  /\ lock' = IF lock = c THEN None ELSE lock
  /\ Return(c, "crashed")
  /\ UNCHANGED <<now, rows, sweep>>

Tick ==
  /\ now < MaxNow
  /\ now' = now + 1
  /\ UNCHANGED <<rows, tx, calls, sweep>>

\* A request leaves the idle state when somebody makes it ...
Start(c) ==
  \/ \E o \in Responding : pc[c] = "idle" /\ RespondRead(c, o)
  \/ EmailRead(c)
  \/ ClarifyRead(c)
  \/ CancelQuery(c)
  \/ \E o \in Inviting : InvitationRead(c, o)

\* ... and the server then carries it on to its end.
Serve(c) ==
  \/ pc[c] = "reply" /\ RespondRead(c, "answer")
  \/ SelectInvitation(c) \/ LockInvitation(c) \/ FindParticipant(c)
  \/ RespondCommit(c) \/ EmailCommit(c) \/ EmailDropped(c)
  \/ ClarifyUnfreeze(c) \/ ClarifyWrite(c)
  \/ InvitationLapse(c) \/ InvitationMark(c) \/ AcceptJoin(c) \/ AcceptAssign(c)

Poll(s) ==
  \/ \E kind \in {"get", "list"} : SweepRead(s, kind)
  \/ SweepWrite(s)

Next ==
  \/ CreateQuery
  \/ \E c \in Calls : Start(c) \/ Serve(c) \/ Crash(c)
  \/ \E s \in Sweepers : Poll(s)
  \/ Tick

Spec == Init /\ [][Next]_vars

\* The server carries on every request it has begun, and the agent keeps polling,
\* as every status hint tells it to.  Nobody has to make a request.
Fairness ==
  /\ \A c \in Calls : WF_vars(Serve(c))
  /\ \A s \in Sweepers : WF_vars(SweepRead(s, "get") \/ SweepWrite(s))

FairSpec == Spec /\ Fairness

--------------------------------------------------------------------------------
(* What must hold *)

\* Whoever decides, or is being asked again, belongs to the conversation: past
\* `pending` a query has a participant row.  respondQuery's entitlement check and
\* its comment on crashes rely on it.
EntitledOnRecord ==
  query.status \in {"assigned", "needs_context", "answered"} => participants > 0

\* A human who was told that the answer was recorded finds that answer, and no
\* other, in an answered query, for ever.  "Losing a person's decision to a race is
\* the one thing this system may not do" (query.service.ts, getQuery).
AnswerStands ==
  \A c \in Calls :
    pc[c] = "ok" /\ op[c] = "answer" => query.status = "answered" /\ query.answer = c

\* An agent that was told its query is cancelled never sees it come back.
CancelStands ==
  \A c \in Calls : pc[c] = "ok" /\ op[c] = "cancel" => query.status = "cancelled"

\* What a caller was told stays true, whatever else was in flight.
AcknowledgedStands == AnswerStands /\ CancelStands

\* The answer a query holds was given by a call that reports success, and its
\* message is in the conversation; an unanswered query holds none.
AnswerIsGenuine ==
  /\ query.status = "answered" <=> query.answer # None
  /\ query.answer # None =>
       /\ query.answer \in responses
       /\ pc[query.answer] = "ok" /\ op[query.answer] = "answer"

\* A settled row is never written again: not by a late answer, a stale PATCH, a
\* second cancel or a sweep that read it before.
SettledIsFinal == [][query.status \in Settled => query' = query]_query

\* The query implements its abstract record.
Record == INSTANCE QueryRecord WITH
            Decisions <- Calls, status <- query.status, decision <- query.answer
ImplementsRecord == Record!Spec

\* No request blocks for ever: whoever waits for the invitation's lock gets it.
EveryCallReturns == \A c \in Calls : pc[c] \in Step ~> pc[c] \in Ended

\* An overdue query the agent polls does not keep the human waiting: it is settled,
\* or the human handed the turn back.
OverdueIsSettled ==
  (Overdue /\ query.status \in {"pending", "assigned"})
    ~> (query.status \in Settled \cup {"needs_context"})

--------------------------------------------------------------------------------
(* What the repository says and the code does not keep *)

\* "A *paused* needs_context query is deliberately excluded: the clock is frozen
\* while the turn is genuinely the agent's" (query.service.ts).
PausedNeverExpires ==
  [][~ /\ query.status = "needs_context"
       /\ query.pausedAt # None
       /\ query'.status = "expired"]_query

\* "... with the clarification rounds exhausted, the pause is not applied and the
\* query expires normally" (query.service.ts).
ExhaustedExpires ==
  (query.status = "needs_context" /\ query.rounds >= MaxRounds /\ Overdue)
    ~> (query.status \in Settled)

\* "... in the same transaction as the response, so a crash between the two never
\* leaves an answered query with no participant row, or an accepted invitation with
\* no answer" (query.service.ts).
AcceptedWithAnswer ==
  [][\A c \in Calls :
       /\ op[c] \in Responding /\ pc[c] = "commit" /\ pc'[c] # "commit"
       /\ invitation.status # "accepted" /\ invitation'.status = "accepted"
       => query'.status \in {"answered", "needs_context"}]_vars
================================================================================
