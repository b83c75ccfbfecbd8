---------------------------- MODULE HumanQueryProofs ---------------------------
(***************************************************************************)
(* Theorems about HumanQuery, for any number of requests and pollers, any  *)
(* timeout and any cap on clarifications.                                  *)
(***************************************************************************)
EXTENDS HumanQuery, TLAPS

\* A pause began in the past.  Giving a pause back (updateQuery) adds a natural
\* number to the deadline only because of this, so the type invariant needs it.
PausedInPast ==
  /\ query.pausedAt # None => query.pausedAt <= now
  /\ \A c \in Calls : row[c].pausedAt # None => row[c].pausedAt <= now

TypeInv == TypeOK /\ PausedInPast

LEMMA InitTypeInv == Init => TypeInv
BY ConstantsOK DEF ConstantsOK, Init, TypeInv, TypeOK, PausedInPast, NoRow, Row, Time,
                   Invitation, Sweep, Idle

\* What a step does to the clock and to the rows that requests have read.
LEMMA ClockStep ==
  ASSUME TypeOK, [Next]_vars
  PROVE  /\ now' \in Nat /\ now' >= now
         /\ query'.pausedAt \in {query.pausedAt, None, now}
         /\ \A c \in Calls : row'[c] \in {row[c], query, NoRow}
<1> USE DEF TypeOK
<1>0. CASE UNCHANGED vars
  BY <1>0 DEF vars, rows, tx, calls
<1>1. CASE CreateQuery
  BY <1>1 DEF CreateQuery, Row, tx, calls
<1>2. ASSUME NEW c \in Calls, Start(c)
      PROVE  /\ now' = now /\ query'.pausedAt \in {query.pausedAt, None}
             /\ \A d \in Calls : row'[d] \in {row[d], query}
  BY <1>2 DEF Start, RespondRead, EmailRead, ClarifyRead, CancelQuery, InvitationRead,
              Begin, Row, rows, tx
<1>3. ASSUME NEW c \in Calls, Serve(c)
      PROVE  /\ now' = now /\ query'.pausedAt \in {query.pausedAt, None, now}
             /\ \A d \in Calls : row'[d] \in {row[d], query, NoRow}
  <2>1. CASE RespondCommit(c)
    BY <2>1 DEF RespondCommit, Responded, Return, Row
  <2>2. CASE EmailCommit(c) \/ ClarifyUnfreeze(c) \/ ClarifyWrite(c) \/ AcceptAssign(c)
    BY <2>2 DEF EmailCommit, ClarifyUnfreeze, ClarifyWrite, AcceptAssign, Goto, Return, Row
  <2>3. CASE \/ RespondRead(c, "answer") \/ SelectInvitation(c) \/ LockInvitation(c)
             \/ FindParticipant(c) \/ EmailDropped(c) \/ InvitationLapse(c)
             \/ InvitationMark(c) \/ AcceptJoin(c)
    BY <2>3 DEF RespondRead, Begin, SelectInvitation, LockInvitation, FindParticipant,
                EmailDropped, InvitationLapse, InvitationMark, AcceptJoin, Goto, Return,
                rows, tx
  <2> QED BY <1>3, <2>1, <2>2, <2>3 DEF Serve
<1>4. ASSUME NEW c \in Calls, Crash(c)
      PROVE  now' = now /\ query' = query /\ \A d \in Calls : row'[d] \in {row[d], NoRow}
  BY <1>4 DEF Crash, Return, rows
<1>5. ASSUME NEW s \in Sweepers, Poll(s)
      PROVE  now' = now /\ query'.pausedAt = query.pausedAt /\ row' = row
  BY <1>5 DEF Poll, SweepRead, SweepWrite, Row, rows, tx, calls
<1>6. CASE Tick
  BY <1>6 DEF Tick, rows, tx, calls
<1> QED BY <1>0, <1>1, <1>2, <1>3, <1>4, <1>5, <1>6 DEF Next

LEMMA PauseStep == TypeInv /\ [Next]_vars => PausedInPast'
<1> SUFFICES ASSUME TypeInv, [Next]_vars PROVE PausedInPast'
  OBVIOUS
<1>1. \A t \in Time : t # None => t \in Nat
  BY DEF Time
<1>2. /\ query.pausedAt \in Time /\ now \in Nat
      /\ \A c \in Calls : row[c].pausedAt \in Time
  BY DEF TypeInv, TypeOK, Row
<1>3. query'.pausedAt # None => query'.pausedAt <= now'
  BY <1>1, <1>2, ClockStep DEF TypeInv, PausedInPast
<1>4. ASSUME NEW c \in Calls, row'[c].pausedAt # None PROVE row'[c].pausedAt <= now'
  <2>1. NoRow.pausedAt = None
    BY DEF NoRow
  <2> QED BY <1>1, <1>2, <1>4, <2>1, ClockStep DEF TypeInv, PausedInPast
<1> QED BY <1>3, <1>4 DEF PausedInPast

LEMMA TypeStep == TypeInv /\ [Next]_vars => TypeOK'
<1> SUFFICES ASSUME TypeOK, PausedInPast, [Next]_vars PROVE TypeOK'
  BY DEF TypeInv
<1> USE ConstantsOK DEF ConstantsOK
<1>0. CASE UNCHANGED vars
  BY <1>0 DEF TypeOK, vars, rows, tx, calls
<1>1. CASE CreateQuery
  <2>1. now + Timeout \in Nat
    BY DEF TypeOK
  <2>2. PICK trusted \in BOOLEAN :
          /\ query' = [query EXCEPT !.status = IF trusted THEN "assigned" ELSE "pending",
                                    !.expiresAt = now + Timeout]
          /\ invitation' = [status |-> IF trusted THEN "accepted" ELSE "pending",
                            expiresAt |-> now + Timeout]
          /\ participants' = participants + (IF trusted THEN 1 ELSE 0)
    BY <1>1 DEF CreateQuery
  <2>3. query' \in Row
    BY <2>1, <2>2 DEF TypeOK, Row, Open
  <2>4. invitation' \in Invitation /\ participants' \in Nat
    BY <2>1, <2>2 DEF Invitation, TypeOK
  <2> QED BY <1>1, <2>3, <2>4 DEF CreateQuery, TypeOK, tx, calls
<1>2. ASSUME NEW c \in Calls, Start(c) PROVE TypeOK'
  <2>1. ASSUME NEW o \in Responding, RespondRead(c, o) PROVE TypeOK'
    BY <2>1 DEF RespondRead, Begin, TypeOK, Op, Step, rows, tx
  <2>2. CASE EmailRead(c)
    BY <2>2 DEF EmailRead, Begin, TypeOK, Op, Step, rows, tx
  <2>3. CASE ClarifyRead(c)
    BY <2>3 DEF ClarifyRead, Begin, TypeOK, Op, Step, rows, tx
  <2>4. CASE CancelQuery(c)
    BY <2>4 DEF CancelQuery, TypeOK, Row, Time, Open, Settled, Op, Ended, tx
  <2>5. ASSUME NEW o \in Inviting, InvitationRead(c, o) PROVE TypeOK'
    BY <2>5 DEF InvitationRead, TypeOK, Op, Step, rows, tx
  <2> QED BY <1>2, <2>1, <2>2, <2>3, <2>4, <2>5 DEF Start
<1>3. ASSUME NEW c \in Calls, Serve(c) PROVE TypeOK'
  <2>1. CASE RespondRead(c, "answer")
    BY <2>1 DEF RespondRead, Responding, Begin, TypeOK, Op, Step, rows, tx
  <2>2. CASE SelectInvitation(c)
    BY <2>2 DEF SelectInvitation, AfterInvitation, Goto, TypeOK, Step, rows, tx
  <2>3. CASE LockInvitation(c)
    BY <2>3 DEF LockInvitation, AfterInvitation, Goto, TypeOK, Step, rows
  <2>4. CASE FindParticipant(c)
    BY <2>4 DEF FindParticipant, Goto, TypeOK, Step, rows
  <2>5. CASE RespondCommit(c)
    <3>0. row[c].rounds + 1 \in Nat
      BY DEF TypeOK, Row
    <3>1. Responded(c) \in Row
      BY <3>0 DEF Responded, TypeOK, Row, Time, Open, Settled
    <3>2. query' \in Row
      BY <2>5, <3>1 DEF RespondCommit, TypeOK
    <3>3. invitation' \in Invitation /\ participants' \in Nat /\ lock' \in Calls \cup {None}
      BY <2>5 DEF RespondCommit, CommitAcceptance, Inserted, TypeOK, Invitation
    <3>4. pc' \in [Calls -> {"idle"} \cup Step \cup Ended] /\ row' \in [Calls -> Row]
           /\ joins' \in SUBSET Calls /\ op' = op
      BY <2>5 DEF RespondCommit, Return, TypeOK, Ended, NoRow, Row, Time
    <3> QED BY <2>5, <3>2, <3>3, <3>4 DEF RespondCommit, TypeOK
  <2>6. CASE EmailCommit(c)
    BY <2>6 DEF EmailCommit, CommitAcceptance, Goto, TypeOK, Row, Invitation, Open, Step
  <2>7. CASE EmailDropped(c)
    BY <2>7 DEF EmailDropped, Return, TypeOK, Ended, NoRow, Row, Time, rows
  <2>8. CASE ClarifyUnfreeze(c)
    BY <2>8 DEF ClarifyUnfreeze, Return, TypeOK, Ended, NoRow, Row, Time
  <2>9. CASE ClarifyWrite(c)
    <3>1. row[c].expiresAt + PausedFor(c) \in Nat
      BY DEF PausedFor, PausedInPast, TypeOK, Row, Time
    <3>2. query' \in Row
      BY <2>9, <3>1 DEF ClarifyWrite, TypeOK, Row, Time, Open
    <3> QED BY <2>9, <3>2 DEF ClarifyWrite, Return, TypeOK, Ended, NoRow, Row, Time
  <2>10. CASE InvitationLapse(c)
    BY <2>10 DEF InvitationLapse, Return, TypeOK, Ended, NoRow, Row, Time, Invitation
  <2>11. CASE InvitationMark(c)
    BY <2>11 DEF InvitationMark, Verdict, Goto, Return, TypeOK, Ended, Step, NoRow, Row,
                 Time, Invitation
  <2>12. CASE AcceptJoin(c)
    BY <2>12 DEF AcceptJoin, Inserted, Goto, TypeOK, Step
  <2>13. CASE AcceptAssign(c)
    BY <2>13 DEF AcceptAssign, Return, TypeOK, Ended, NoRow, Row, Time, Open
  <2> QED BY <1>3, <2>1, <2>2, <2>3, <2>4, <2>5, <2>6, <2>7, <2>8, <2>9, <2>10, <2>11,
             <2>12, <2>13 DEF Serve
<1>4. ASSUME NEW c \in Calls, Crash(c) PROVE TypeOK'
  BY <1>4 DEF Crash, Return, TypeOK, Ended, NoRow, Row, Time, rows
<1>5. ASSUME NEW s \in Sweepers, Poll(s) PROVE TypeOK'
  <2>1. ASSUME NEW kind \in {"get", "list"}, SweepRead(s, kind) PROVE TypeOK'
    BY <2>1 DEF SweepRead, TypeOK, Sweep, Row, rows, tx, calls
  <2>2. CASE SweepWrite(s)
    BY <2>2 DEF SweepWrite, TypeOK, Sweep, Idle, Row, Settled, tx, calls
  <2> QED BY <1>5, <2>1, <2>2 DEF Poll
<1>6. CASE Tick
  BY <1>6 DEF Tick, TypeOK, rows, tx, calls
<1> QED BY <1>0, <1>1, <1>2, <1>3, <1>4, <1>5, <1>6 DEF Next

\* No request leaves a row, a lock or a snapshot malformed.
THEOREM TypeCorrect == Spec => []TypeOK
<1>1. TypeInv /\ [Next]_vars => TypeInv'
  BY TypeStep, PauseStep DEF TypeInv
<1>2. TypeInv => TypeOK
  BY DEF TypeInv
<1> QED BY InitTypeInv, <1>1, <1>2, PTL DEF Spec

--------------------------------------------------------------------------------
(* Who belongs to the conversation *)

\* What a call is doing, by the step it has reached.
OpAtStep ==
  \A c \in Calls :
    /\ pc[c] \in {"select", "lock", "commit"} => op[c] \in Responding \cup {"email"}
    /\ pc[c] = "member" => op[c] \in Responding \cup {"accept"}
    /\ pc[c] = "reply" => op[c] = "email"
    /\ pc[c] \in {"clarify", "unfreeze"} => op[c] = "clarify"
    /\ pc[c] = "mark" => op[c] \in Inviting
    /\ pc[c] \in {"lapse", "join", "assign"} => op[c] = "accept"

\* A call that has looked for the participant row either saw one or inserts one
\* before the query moves past `pending` on its account.
MemberInTime ==
  \A c \in Calls :
    /\ pc[c] = "commit" /\ op[c] \in Responding => c \in joins \/ participants > 0
    /\ pc[c] = "join" => c \in joins \/ participants > 0
    /\ pc[c] = "assign" => participants > 0

EntitledInv == OpAtStep /\ MemberInTime /\ EntitledOnRecord

LEMMA OpStep == TypeOK /\ OpAtStep /\ [Next]_vars => OpAtStep'
<1> SUFFICES ASSUME TypeOK, OpAtStep, [Next]_vars PROVE OpAtStep'
  OBVIOUS
<1> USE DEF TypeOK, OpAtStep
<1>0. CASE UNCHANGED vars
  BY <1>0 DEF vars, calls
<1>1. CASE CreateQuery \/ Tick \/ \E s \in Sweepers : Poll(s)
  BY <1>1 DEF CreateQuery, Tick, Poll, SweepRead, SweepWrite, calls
<1>2. ASSUME NEW c \in Calls, Start(c) PROVE OpAtStep'
  BY <1>2 DEF Start, RespondRead, EmailRead, ClarifyRead, CancelQuery, InvitationRead,
              Begin, Responding, Inviting
<1>3. ASSUME NEW c \in Calls, Serve(c) PROVE OpAtStep'
  <2>1. CASE RespondRead(c, "answer") \/ SelectInvitation(c) \/ LockInvitation(c)
    BY <2>1 DEF RespondRead, Begin, SelectInvitation, LockInvitation, AfterInvitation, Goto,
                Responding
  <2>2. CASE FindParticipant(c) \/ AcceptJoin(c) \/ EmailCommit(c)
    BY <2>2 DEF FindParticipant, AcceptJoin, EmailCommit, Goto, Responding
  <2>3. CASE \/ RespondCommit(c) \/ EmailDropped(c) \/ ClarifyUnfreeze(c) \/ ClarifyWrite(c)
             \/ InvitationLapse(c) \/ AcceptAssign(c)
    BY <2>3 DEF RespondCommit, EmailDropped, ClarifyUnfreeze, ClarifyWrite, InvitationLapse,
                AcceptAssign, Return
  <2>4. CASE InvitationMark(c)
    BY <2>4 DEF InvitationMark, Goto, Return, Inviting
  <2> QED BY <1>3, <2>1, <2>2, <2>3, <2>4 DEF Serve
<1>4. ASSUME NEW c \in Calls, Crash(c) PROVE OpAtStep'
  BY <1>4 DEF Crash, Return
<1> QED BY <1>0, <1>1, <1>2, <1>3, <1>4 DEF Next

LEMMA RespondReadMember ==
  ASSUME TypeOK, MemberInTime, EntitledOnRecord,
         NEW c \in Calls, NEW o \in Responding, RespondRead(c, o)
  PROVE  MemberInTime' /\ EntitledOnRecord'
<1>1. UNCHANGED <<query, participants, joins>>
  BY DEF RespondRead, rows, tx
<1>2. \A d \in Calls : d # c => pc'[d] = pc[d] /\ op'[d] = op[d]
  BY DEF RespondRead, Begin, TypeOK
<1>3. pc'[c] \in {"select", "commit"} /\ (pc'[c] = "commit" => participants > 0)
  BY DEF RespondRead, Begin, TypeOK, Open
<1> QED BY <1>1, <1>2, <1>3 DEF MemberInTime, EntitledOnRecord

LEMMA EntitledStep ==
  TypeOK /\ EntitledInv /\ [Next]_vars => MemberInTime' /\ EntitledOnRecord'
<1> SUFFICES ASSUME TypeOK, OpAtStep, MemberInTime, EntitledOnRecord, [Next]_vars
             PROVE  MemberInTime' /\ EntitledOnRecord'
  BY DEF EntitledInv
<1> USE DEF TypeOK, MemberInTime, EntitledOnRecord
<1>0. CASE UNCHANGED vars
  BY <1>0 DEF vars, rows, tx, calls
<1>1. CASE CreateQuery
  BY <1>1 DEF CreateQuery, Row, tx, calls
<1>2. ASSUME NEW c \in Calls, Start(c) PROVE MemberInTime' /\ EntitledOnRecord'
  <2>1. ASSUME NEW o \in Responding, RespondRead(c, o) PROVE MemberInTime' /\ EntitledOnRecord'
    BY <2>1, RespondReadMember
  <2>2. CASE EmailRead(c) \/ ClarifyRead(c)
    BY <2>2 DEF EmailRead, ClarifyRead, Begin, rows, tx
  <2>3. CASE CancelQuery(c)
    BY <2>3 DEF CancelQuery, Row, tx
  <2>4. ASSUME NEW o \in Inviting, InvitationRead(c, o) PROVE MemberInTime' /\ EntitledOnRecord'
    BY <2>4 DEF InvitationRead, rows, tx
  <2> QED BY <1>2, <2>1, <2>2, <2>3, <2>4 DEF Start
<1>3. ASSUME NEW c \in Calls, Serve(c) PROVE MemberInTime' /\ EntitledOnRecord'
  <2>1. CASE RespondRead(c, "answer")
    BY <2>1, RespondReadMember DEF Responding
  <2>9. CASE SelectInvitation(c) \/ LockInvitation(c)
    BY <2>9 DEF SelectInvitation, LockInvitation, AfterInvitation, Goto, OpAtStep, Responding,
                rows, tx
  <2>2. CASE FindParticipant(c)
    BY <2>2 DEF FindParticipant, Goto, rows
  <2>3. CASE RespondCommit(c)
    BY <2>3 DEF RespondCommit, CommitAcceptance, Inserted, Responded, Return, Row
  <2>4. CASE EmailCommit(c)
    BY <2>4 DEF EmailCommit, CommitAcceptance, Goto, Row
  <2>5. CASE EmailDropped(c) \/ InvitationLapse(c) \/ InvitationMark(c)
    BY <2>5 DEF EmailDropped, InvitationLapse, InvitationMark, Goto, Return, rows
  <2>6. CASE ClarifyUnfreeze(c) \/ ClarifyWrite(c)
    BY <2>6 DEF ClarifyUnfreeze, ClarifyWrite, Return, Row
  <2>7. CASE AcceptJoin(c)
    BY <2>7 DEF AcceptJoin, Inserted, Goto
  <2>8. CASE AcceptAssign(c)
    BY <2>8 DEF AcceptAssign, Return, Row
  <2> QED BY <1>3, <2>1, <2>2, <2>3, <2>4, <2>5, <2>6, <2>7, <2>8, <2>9 DEF Serve
<1>4. ASSUME NEW c \in Calls, Crash(c) PROVE MemberInTime' /\ EntitledOnRecord'
  BY <1>4 DEF Crash, Return, rows
<1>5. ASSUME NEW s \in Sweepers, Poll(s) PROVE MemberInTime' /\ EntitledOnRecord'
  BY <1>5 DEF Poll, SweepRead, SweepWrite, Row, rows, tx, calls
<1>6. CASE Tick
  BY <1>6 DEF Tick, rows, tx, calls
<1> QED BY <1>0, <1>1, <1>2, <1>3, <1>4, <1>5, <1>6 DEF Next

\* Past `pending`, a query always has a participant row: with email replies and
\* crashes, however the check-then-inserts interleave.
THEOREM Entitled == Spec => []EntitledOnRecord
<1>1. Init => EntitledInv
  BY DEF Init, EntitledInv, OpAtStep, MemberInTime, EntitledOnRecord, NoRow
<1>2. TypeOK /\ EntitledInv /\ [Next]_vars => EntitledInv'
  BY OpStep, EntitledStep DEF EntitledInv
<1>3. EntitledInv => EntitledOnRecord
  BY DEF EntitledInv
<1> QED BY TypeCorrect, <1>1, <1>2, <1>3, PTL DEF Spec

--------------------------------------------------------------------------------
(* Who writes the row.  The email path writes the status by id; everyone     *)
(* else asks for the status that it relies on.                               *)

\* What a poller remembers of the query is a status it may expire.
SweepOpen == \A s \in Sweepers : sweep[s] # Idle => sweep[s].status \in Open

WritersInv == TypeOK /\ OpAtStep /\ SweepOpen

\* A reply by mail puts the query back to `assigned`, whatever it was, and leaves
\* the rest of the row as it is.
MailReopens(c) ==
  /\ op[c] = "email" /\ pc[c] = "commit"
  /\ query' = [query EXCEPT !.status = "assigned"]

\* What a writer relies on when it decides, as in respondQuery.
LEMMA FromStatusesOpen == \A c \in Calls : FromStatuses(c) \subseteq Open
BY DEF FromStatuses, Open

LEMMA SweepOpenStep == TypeOK /\ SweepOpen /\ [Next]_vars => SweepOpen'
<1> SUFFICES ASSUME TypeOK, SweepOpen, [Next]_vars PROVE SweepOpen'
  OBVIOUS
<1> USE DEF TypeOK, SweepOpen
<1>0. CASE UNCHANGED vars
  BY <1>0 DEF vars
<1>1. CASE CreateQuery \/ Tick
  BY <1>1 DEF CreateQuery, Tick
<1>2. ASSUME NEW c \in Calls, Start(c) \/ Serve(c) \/ Crash(c) PROVE SweepOpen'
  <2>1. sweep' = sweep
    BY <1>2 DEF Start, Serve, Crash, RespondRead, EmailRead, ClarifyRead, CancelQuery,
                InvitationRead, SelectInvitation, LockInvitation, FindParticipant,
                RespondCommit, EmailCommit, EmailDropped, ClarifyUnfreeze, ClarifyWrite,
                InvitationLapse, InvitationMark, AcceptJoin, AcceptAssign
  <2> QED BY <2>1
<1>3. ASSUME NEW s \in Sweepers, Poll(s) PROVE SweepOpen'
  BY <1>3 DEF Poll, SweepRead, SweepWrite, IsExpirable, Open
<1> QED BY <1>0, <1>1, <1>2, <1>3 DEF Next

\* Every step but a mail reply's moves the query as its record allows.
LEMMA RecordStep ==
  ASSUME WritersInv, [Next]_vars, \A c \in Calls : ~EmailCommit(c)
  PROVE  [Record!Next]_Record!recordVars
<1> USE DEF WritersInv, TypeOK
<1> DEFINE Same == UNCHANGED <<query.status, query.answer>>
<1>10. Same => [Record!Next]_Record!recordVars
  BY DEF Record!recordVars
<1>0. CASE UNCHANGED vars
  BY <1>0, <1>10 DEF vars, rows
<1>1. CASE CreateQuery
  <2>1. Record!Create
    BY <1>1 DEF CreateQuery, Record!Create, Row
  <2> QED BY <2>1 DEF Record!Next
<1>2. ASSUME NEW c \in Calls, Start(c) PROVE [Record!Next]_Record!recordVars
  <2>1. CASE CancelQuery(c)
    <3>1. Record!Withdraw
      BY <2>1 DEF CancelQuery, Record!Withdraw, Record!Move, Record!Open, Open, Row
    <3> QED BY <3>1 DEF Record!Next
  <2>2. CASE ~CancelQuery(c)
    BY <1>2, <2>2, <1>10 DEF Start, RespondRead, EmailRead, ClarifyRead, InvitationRead, rows
  <2> QED BY <2>1, <2>2
<1>3. ASSUME NEW c \in Calls, Serve(c) PROVE [Record!Next]_Record!recordVars
  <2>1. CASE RespondCommit(c)
    <3>1. CASE query' = query
      BY <3>1, <1>10
    <3>2. CASE query.status \in FromStatuses(c) /\ query' = Responded(c)
      <4>1. CASE op[c] = "answer"
        <5>1. Record!Decide
          BY <3>2, <4>1, FromStatusesOpen
             DEF Responded, Record!Decide, Record!Open, Open, Row
        <5> QED BY <5>1 DEF Record!Next
      <4>2. CASE op[c] # "answer"
        <5>1. Record!AskBack
          BY <3>2, <4>2
             DEF FromStatuses, Responded, Record!AskBack, Record!Move, Row
        <5> QED BY <5>1 DEF Record!Next
      <4> QED BY <4>1, <4>2
    <3> QED BY <2>1, <3>1, <3>2 DEF RespondCommit
  <2>2. CASE ClarifyUnfreeze(c)
    BY <2>2, <1>10 DEF ClarifyUnfreeze, Row
  <2>3. CASE ClarifyWrite(c)
    <3>1. CASE query' = query
      BY <3>1, <1>10
    <3>2. CASE query' # query
      <4>1. Record!Clarify
        BY <2>3, <3>2 DEF ClarifyWrite, Record!Clarify, Record!Move, Row
      <4> QED BY <4>1 DEF Record!Next
    <3> QED BY <3>1, <3>2
  <2>4. CASE AcceptAssign(c)
    <3>1. CASE query' = query
      BY <3>1, <1>10
    <3>2. CASE query' # query
      <4>1. Record!Assign
        BY <2>4, <3>2 DEF AcceptAssign, Record!Assign, Record!Move, Row
      <4> QED BY <4>1 DEF Record!Next
    <3> QED BY <3>1, <3>2
  <2>5. CASE \/ RespondRead(c, "answer") \/ SelectInvitation(c) \/ LockInvitation(c)
             \/ FindParticipant(c) \/ EmailDropped(c) \/ InvitationLapse(c)
             \/ InvitationMark(c) \/ AcceptJoin(c)
    BY <2>5, <1>10 DEF RespondRead, SelectInvitation, LockInvitation, FindParticipant,
                       EmailDropped, InvitationLapse, InvitationMark, AcceptJoin, rows
  <2> QED BY <1>3, <2>1, <2>2, <2>3, <2>4, <2>5 DEF Serve
<1>4. ASSUME NEW c \in Calls, Crash(c) PROVE [Record!Next]_Record!recordVars
  BY <1>4, <1>10 DEF Crash, rows
<1>5. ASSUME NEW s \in Sweepers, Poll(s) PROVE [Record!Next]_Record!recordVars
  <2>1. CASE query' = query
    BY <2>1, <1>10
  <2>2. CASE query' # query
    <3>1. Record!Expire
      BY <1>5, <2>2 DEF Poll, SweepRead, SweepWrite, Expires, SweepOpen, rows, Row,
                        Record!Expire, Record!Move, Record!Open, Open
    <3> QED BY <3>1 DEF Record!Next
  <2> QED BY <2>1, <2>2
<1>6. CASE Tick
  BY <1>6, <1>10 DEF Tick, rows
<1> QED BY <1>0, <1>1, <1>2, <1>3, <1>4, <1>5, <1>6 DEF Next

\* A settled row is written by a mail reply only.
LEMMA SettledStep ==
  ASSUME WritersInv, [Next]_vars, query.status \in Settled, \A c \in Calls : ~EmailCommit(c)
  PROVE  query' = query
<1> USE DEF WritersInv, TypeOK, Settled
<1>0. CASE UNCHANGED vars
  BY <1>0 DEF vars, rows
<1>1. CASE CreateQuery \/ Tick
  BY <1>1 DEF CreateQuery, Tick, rows
<1>2. ASSUME NEW c \in Calls, Start(c) PROVE query' = query
  BY <1>2 DEF Start, RespondRead, EmailRead, ClarifyRead, CancelQuery, InvitationRead, rows,
              Open
<1>3. ASSUME NEW c \in Calls, Serve(c) PROVE query' = query
  <2>1. CASE RespondCommit(c)
    BY <2>1, FromStatusesOpen DEF RespondCommit, Open
  <2>2. CASE ClarifyUnfreeze(c) \/ ClarifyWrite(c) \/ AcceptAssign(c)
    BY <2>2 DEF ClarifyUnfreeze, ClarifyWrite, AcceptAssign
  <2>3. CASE \/ RespondRead(c, "answer") \/ SelectInvitation(c) \/ LockInvitation(c)
             \/ FindParticipant(c) \/ EmailDropped(c) \/ InvitationLapse(c)
             \/ InvitationMark(c) \/ AcceptJoin(c)
    BY <2>3 DEF RespondRead, SelectInvitation, LockInvitation, FindParticipant, EmailDropped,
                InvitationLapse, InvitationMark, AcceptJoin, rows
  <2> QED BY <1>3, <2>1, <2>2, <2>3 DEF Serve
<1>4. ASSUME NEW c \in Calls, Crash(c) PROVE query' = query
  BY <1>4 DEF Crash, rows
<1>5. ASSUME NEW s \in Sweepers, Poll(s) PROVE query' = query
  BY <1>5 DEF Poll, SweepRead, SweepWrite, Expires, SweepOpen, rows, Open
<1> QED BY <1>0, <1>1, <1>2, <1>3, <1>4, <1>5 DEF Next

\* A call that reported success has ended.
LEMMA OkStays ==
  ASSUME WritersInv, [Next]_vars, NEW d \in Calls, pc[d] = "ok"
  PROVE  pc'[d] = "ok" /\ op'[d] = op[d]
<1> USE DEF WritersInv, TypeOK
<1>0. CASE UNCHANGED vars
  BY <1>0 DEF vars, calls
<1>1. CASE CreateQuery \/ Tick \/ \E s \in Sweepers : Poll(s)
  BY <1>1 DEF CreateQuery, Tick, Poll, SweepRead, SweepWrite, calls
<1>2. ASSUME NEW c \in Calls, Start(c) PROVE pc'[d] = "ok" /\ op'[d] = op[d]
  BY <1>2 DEF Start, RespondRead, EmailRead, ClarifyRead, CancelQuery, InvitationRead, Begin
<1>3. ASSUME NEW c \in Calls, Serve(c) PROVE pc'[d] = "ok" /\ op'[d] = op[d]
  BY <1>3 DEF Serve, RespondRead, Begin, SelectInvitation, LockInvitation, FindParticipant,
              RespondCommit, EmailCommit, EmailDropped, ClarifyUnfreeze, ClarifyWrite,
              InvitationLapse, InvitationMark, AcceptJoin, AcceptAssign, Goto, Return
<1>4. ASSUME NEW c \in Calls, Crash(c) PROVE pc'[d] = "ok" /\ op'[d] = op[d]
  BY <1>4 DEF Crash, Return, Step
<1> QED BY <1>0, <1>1, <1>2, <1>3, <1>4 DEF Next

\* A call newly reports an answer or a cancel only in the step that records it.
LEMMA NewlyAcknowledged ==
  ASSUME WritersInv, [Next]_vars, NEW d \in Calls, pc'[d] = "ok", pc[d] # "ok"
  PROVE  /\ op'[d] = "answer" => query'.status = "answered" /\ query'.answer = d
         /\ op'[d] = "cancel" => query'.status = "cancelled"
<1> DEFINE Told == /\ op'[d] = "answer" => query'.status = "answered" /\ query'.answer = d
                   /\ op'[d] = "cancel" => query'.status = "cancelled"
<1> SUFFICES Told
  OBVIOUS
<1> USE DEF WritersInv, TypeOK
<1>0. CASE UNCHANGED vars
  BY <1>0 DEF vars, calls
<1>1. CASE CreateQuery \/ Tick \/ \E s \in Sweepers : Poll(s)
  BY <1>1 DEF CreateQuery, Tick, Poll, SweepRead, SweepWrite, calls
<1>2. ASSUME NEW c \in Calls, Start(c) PROVE Told
  <2>1. CASE CancelQuery(c)
    BY <2>1 DEF CancelQuery, Row
  <2>2. CASE ~CancelQuery(c)
    BY <1>2, <2>2 DEF Start, RespondRead, EmailRead, ClarifyRead, InvitationRead, Begin
  <2> QED BY <2>1, <2>2
<1>3. ASSUME NEW c \in Calls, Serve(c) PROVE Told
  <2>1. CASE RespondCommit(c)
    <3>1. op' = op /\ \A e \in Calls : e # c => pc'[e] = pc[e]
      BY <2>1 DEF RespondCommit, Return
    <3>2. d = c
      BY <3>1
    <3>3. query' = Responded(c) /\ op[c] \in Responding
      BY <2>1, <3>2 DEF RespondCommit, Return
    <3>4. op[c] = "answer" => query'.status = "answered" /\ query'.answer = c
      BY <3>3 DEF Responded, Row
    <3> QED BY <3>1, <3>2, <3>3, <3>4 DEF Responding
  <2>2. CASE ClarifyUnfreeze(c) \/ ClarifyWrite(c) \/ AcceptAssign(c) \/ InvitationMark(c)
    BY <2>2 DEF ClarifyUnfreeze, ClarifyWrite, AcceptAssign, InvitationMark, Goto, Return,
                OpAtStep, Inviting
  <2>3. CASE \/ RespondRead(c, "answer") \/ SelectInvitation(c) \/ LockInvitation(c)
             \/ FindParticipant(c) \/ EmailDropped(c) \/ InvitationLapse(c) \/ AcceptJoin(c)
             \/ EmailCommit(c)
    BY <2>3 DEF RespondRead, Begin, SelectInvitation, LockInvitation, AfterInvitation,
                FindParticipant, EmailDropped, InvitationLapse, AcceptJoin, EmailCommit, Goto,
                Return
  <2> QED BY <1>3, <2>1, <2>2, <2>3 DEF Serve
<1>4. ASSUME NEW c \in Calls, Crash(c) PROVE Told
  BY <1>4 DEF Crash, Return
<1> QED BY <1>0, <1>1, <1>2, <1>3, <1>4 DEF Next

\* An answer enters the row with the message that carries it, by the call that
\* reports it; messages are never deleted.
LEMMA AnswerWritten ==
  ASSUME WritersInv, [Next]_vars
  PROVE  /\ responses \subseteq responses'
         /\ query'.answer # query.answer =>
              /\ query'.answer \in responses'
              /\ pc'[query'.answer] = "ok" /\ op'[query'.answer] = "answer"
<1> DEFINE Kept == responses \subseteq responses' /\ query'.answer = query.answer
<1> USE DEF WritersInv, TypeOK
<1>0. CASE UNCHANGED vars
  BY <1>0 DEF vars, rows
<1>1. CASE CreateQuery \/ Tick
  BY <1>1 DEF CreateQuery, Tick, rows, Row
<1>2. ASSUME NEW c \in Calls, Start(c) PROVE Kept
  BY <1>2 DEF Start, RespondRead, EmailRead, ClarifyRead, CancelQuery, InvitationRead, rows,
              Row
<1>3. ASSUME NEW c \in Calls, Serve(c), ~RespondCommit(c) PROVE Kept
  <2>1. CASE \/ ClarifyUnfreeze(c) \/ ClarifyWrite(c) \/ AcceptAssign(c) \/ EmailCommit(c)
    BY <2>1 DEF ClarifyUnfreeze, ClarifyWrite, AcceptAssign, EmailCommit, Row
  <2>2. CASE \/ RespondRead(c, "answer") \/ SelectInvitation(c) \/ LockInvitation(c)
             \/ FindParticipant(c) \/ EmailDropped(c) \/ InvitationLapse(c)
             \/ InvitationMark(c) \/ AcceptJoin(c)
    BY <2>2 DEF RespondRead, SelectInvitation, LockInvitation, FindParticipant, EmailDropped,
                InvitationLapse, InvitationMark, AcceptJoin, rows
  <2> QED BY <1>3, <2>1, <2>2 DEF Serve
<1>4. ASSUME NEW c \in Calls, RespondCommit(c)
      PROVE  \/ Kept
             \/ /\ responses' = responses \cup {c} /\ query'.answer = c
                /\ pc'[c] = "ok" /\ op'[c] = "answer"
  <2>1. CASE query' = query
    BY <1>4, <2>1 DEF RespondCommit
  <2>2. CASE op[c] = "answer" /\ query' = Responded(c) /\ Return(c, "ok")
    <3>1. query'.answer = c
      BY <2>2 DEF Responded, Row
    <3>2. pc'[c] = "ok" /\ op'[c] = "answer"
      BY <2>2 DEF Return
    <3> QED BY <1>4, <2>2, <3>1, <3>2 DEF RespondCommit
  <2>3. CASE op[c] # "answer" /\ query' = Responded(c)
    BY <1>4, <2>3 DEF RespondCommit, Responded, Row
  <2> QED BY <1>4, <2>1, <2>2, <2>3 DEF RespondCommit
<1>5. ASSUME NEW c \in Calls, Crash(c) PROVE Kept
  BY <1>5 DEF Crash, rows
<1>6. ASSUME NEW s \in Sweepers, Poll(s) PROVE Kept
  BY <1>6 DEF Poll, SweepRead, SweepWrite, rows, Row
<1> QED BY <1>0, <1>1, <1>2, <1>3, <1>4, <1>5, <1>6 DEF Next

--------------------------------------------------------------------------------
(* With mail replies: what they can undo, and what not even they can *)

LEMMA WritersInit == Init => WritersInv
<1>1. Init => OpAtStep /\ SweepOpen
  BY DEF Init, OpAtStep, SweepOpen
<1> QED BY <1>1, InitTypeInv DEF WritersInv, TypeInv

\* The inductive invariant of all requests, mail replies among them.
LEMMA WritersCorrect == Spec => []WritersInv
<1>1. WritersInv /\ TypeOK' /\ [Next]_vars => WritersInv'
  BY OpStep, SweepOpenStep DEF WritersInv
<1> QED BY WritersInit, <1>1, TypeCorrect, PTL DEF Spec

\* What a mail reply's commit makes of the row.
LEMMA MailStep == ASSUME NEW c \in Calls, EmailCommit(c) PROVE MailReopens(c)
BY DEF EmailCommit, MailReopens

\* Whatever is in flight, a settled row changes only when a mail reply, which asks for
\* no status, puts it back to `assigned`: every other writer is guarded.
THEOREM OnlyMailUnsettles ==
  Spec => [][query.status \in Settled => query' = query \/ \E c \in Calls : MailReopens(c)]_query
<1>1. WritersInv /\ [Next]_vars =>
        [query.status \in Settled => query' = query \/ \E c \in Calls : MailReopens(c)]_query
  BY SettledStep, MailStep
<1> QED BY WritersCorrect, <1>1, PTL DEF Spec

\* The requests implement the query's abstract record but for the mail replies' step.
THEOREM RecordButMail ==
  Spec => Record!Init /\ [][Record!Next \/ \E c \in Calls : MailReopens(c)]_(Record!recordVars)
<1>1. Init => Record!Init
  BY DEF Init, Record!Init, NoRow
<1>2. WritersInv /\ [Next]_vars =>
        [Record!Next \/ \E c \in Calls : MailReopens(c)]_(Record!recordVars)
  BY RecordStep, MailStep
<1> QED BY WritersCorrect, <1>1, <1>2, PTL DEF Spec

\* An answered query has an answer; the answer a row holds, even one that a mail reply
\* has put back in question, was given by a call that reports success; and what anybody
\* was told is recorded is in the conversation.
AnswersAreReal ==
  /\ query.status = "answered" => query.answer # None
  /\ query.answer # None => pc[query.answer] = "ok" /\ op[query.answer] = "answer"
  /\ \A c \in Calls : pc[c] = "ok" /\ op[c] = "answer" => c \in responses

LEMMA RealStep == WritersInv /\ AnswersAreReal /\ [Next]_vars => AnswersAreReal'
<1> SUFFICES ASSUME WritersInv, AnswersAreReal, [Next]_vars PROVE AnswersAreReal'
  OBVIOUS
<1>1. query'.status = "answered" => query'.answer # None
  <2>1. CASE \E c \in Calls : EmailCommit(c)
    BY <2>1 DEF EmailCommit, WritersInv, TypeOK, Row
  <2>2. CASE Record!Decide
    BY <2>2, ConstantsOK DEF ConstantsOK, Record!Decide
  <2>3. CASE ~Record!Decide /\ Record!Next
    BY <2>3 DEF Record!Next, Record!Create, Record!Assign, Record!AskBack, Record!Clarify,
                Record!Withdraw, Record!Expire, Record!Move, Record!Open, AnswersAreReal
  <2>4. CASE UNCHANGED Record!recordVars
    BY <2>4 DEF Record!recordVars, AnswersAreReal
  <2> QED BY <2>1, <2>2, <2>3, <2>4, RecordStep
<1>2. ASSUME query'.answer # None
      PROVE  pc'[query'.answer] = "ok" /\ op'[query'.answer] = "answer"
  <2>1. CASE query'.answer = query.answer
    <3>1. query.answer \in Calls
      BY <1>2, <2>1 DEF WritersInv, TypeOK, Row
    <3> QED BY <1>2, <2>1, <3>1, OkStays DEF AnswersAreReal
  <2>2. CASE query'.answer # query.answer
    BY <2>2, AnswerWritten
  <2> QED BY <2>1, <2>2
<1>3. ASSUME NEW c \in Calls, pc'[c] = "ok", op'[c] = "answer" PROVE c \in responses'
  <2>1. CASE pc[c] = "ok"
    BY <1>3, <2>1, OkStays, AnswerWritten DEF AnswersAreReal
  <2>2. CASE pc[c] # "ok"
    <3>1. query'.answer = c
      BY <1>3, <2>2, NewlyAcknowledged
    <3>2. query.answer # c
      BY <2>2, ConstantsOK DEF ConstantsOK, AnswersAreReal
    <3> QED BY <3>1, <3>2, AnswerWritten
  <2> QED BY <2>1, <2>2
<1> QED BY <1>1, <1>2, <1>3 DEF AnswersAreReal

\* No answer is lost from the conversation and none is made up, mail or no mail.
THEOREM AnswersReal == Spec => []AnswersAreReal
<1>1. Init => AnswersAreReal
  BY DEF Init, AnswersAreReal, NoRow
<1> QED BY WritersCorrect, <1>1, RealStep, PTL DEF Spec

--------------------------------------------------------------------------------
(* The lock of the invitation *)

\* Whoever holds it is in its transaction: between the acceptance and the commit that
\* gives the lock back, with nothing left to wait for.
LockHeldInTransaction ==
  lock # None => pc[lock] = "commit" \/ (pc[lock] = "member" /\ op[lock] \in Responding)

LEMMA LockStep == TypeOK /\ OpAtStep /\ LockHeldInTransaction /\ [Next]_vars => LockHeldInTransaction'
<1> SUFFICES ASSUME TypeOK, OpAtStep, LockHeldInTransaction, [Next]_vars PROVE LockHeldInTransaction'
  OBVIOUS
<1> USE DEF TypeOK, LockHeldInTransaction
<1>0. CASE UNCHANGED vars
  BY <1>0 DEF vars, tx, calls
<1>1. CASE CreateQuery \/ Tick \/ \E s \in Sweepers : Poll(s)
  BY <1>1 DEF CreateQuery, Tick, Poll, SweepRead, SweepWrite, tx, calls
<1>2. ASSUME NEW c \in Calls, Start(c) PROVE LockHeldInTransaction'
  BY <1>2 DEF Start, RespondRead, EmailRead, ClarifyRead, CancelQuery, InvitationRead, Begin, tx
<1>3. ASSUME NEW c \in Calls, Serve(c) PROVE LockHeldInTransaction'
  <2>1. CASE LockInvitation(c)
    BY <2>1 DEF LockInvitation, AfterInvitation, Goto, OpAtStep
  <2>2. CASE FindParticipant(c)
    BY <2>2 DEF FindParticipant, Goto, Responding
  <2>3. CASE RespondCommit(c) \/ EmailCommit(c)
    BY <2>3 DEF RespondCommit, EmailCommit, CommitAcceptance, Return, Goto
  <2>4. CASE RespondRead(c, "answer") \/ SelectInvitation(c) \/ AcceptJoin(c)
    BY <2>4 DEF RespondRead, Begin, SelectInvitation, AfterInvitation, AcceptJoin, Goto, tx
  <2>5. CASE \/ EmailDropped(c) \/ ClarifyUnfreeze(c) \/ ClarifyWrite(c) \/ InvitationLapse(c)
             \/ InvitationMark(c) \/ AcceptAssign(c)
    BY <2>5 DEF EmailDropped, ClarifyUnfreeze, ClarifyWrite, InvitationLapse, InvitationMark,
                AcceptAssign, Goto, Return
  <2> QED BY <1>3, <2>1, <2>2, <2>3, <2>4, <2>5 DEF Serve
<1>4. ASSUME NEW c \in Calls, Crash(c) PROVE LockHeldInTransaction'
  BY <1>4 DEF Crash, Return
<1> QED BY <1>0, <1>1, <1>2, <1>3, <1>4 DEF Next

\* No call ends or waits with the lock in its hands: what EveryCallReturns rests on.
THEOREM LockServed == Spec => []LockHeldInTransaction
<1>1. Init => LockHeldInTransaction
  BY DEF Init, LockHeldInTransaction
<1>2. WritersInv /\ LockHeldInTransaction /\ [Next]_vars => LockHeldInTransaction'
  BY LockStep DEF WritersInv
<1> QED BY WritersCorrect, <1>1, <1>2, PTL DEF Spec

--------------------------------------------------------------------------------
(* Without mail replies what was acknowledged stands *)

NoEmail == \A c \in Calls : op[c] # "email"

QuietInv == WritersInv /\ NoEmail

LEMMA NoMailStep == ASSUME QuietInv PROVE \A c \in Calls : ~EmailCommit(c)
BY DEF QuietInv, NoEmail, EmailCommit

LEMMA NoEmailStep ==
  ASSUME InboundEmail = FALSE, QuietInv, [Next]_vars
  PROVE  NoEmail'
<1> USE DEF QuietInv, WritersInv, TypeOK, NoEmail
<1>0. CASE UNCHANGED vars
  BY <1>0 DEF vars, calls
<1>1. CASE CreateQuery \/ Tick \/ \E s \in Sweepers : Poll(s)
  BY <1>1 DEF CreateQuery, Tick, Poll, SweepRead, SweepWrite, calls
<1>2. ASSUME NEW c \in Calls, Start(c) PROVE NoEmail'
  BY <1>2 DEF Start, RespondRead, EmailRead, ClarifyRead, CancelQuery, InvitationRead,
              Begin, Responding, Inviting
<1>3. ASSUME NEW c \in Calls, Serve(c) PROVE NoEmail'
  BY <1>3 DEF Serve, RespondRead, Begin, SelectInvitation, LockInvitation, FindParticipant,
              RespondCommit, EmailCommit, EmailDropped, ClarifyUnfreeze, ClarifyWrite,
              InvitationLapse, InvitationMark, AcceptJoin, AcceptAssign, Goto, Return
<1>4. ASSUME NEW c \in Calls, Crash(c) PROVE NoEmail'
  BY <1>4 DEF Crash, Return
<1> QED BY <1>0, <1>1, <1>2, <1>3, <1>4 DEF Next

LEMMA AcknowledgedStep ==
  QuietInv /\ AcknowledgedStands /\ [Next]_vars => AcknowledgedStands'
<1> SUFFICES ASSUME QuietInv, AcknowledgedStands, [Next]_vars, NEW c \in Calls, pc'[c] = "ok"
             PROVE  /\ op'[c] = "answer" => query'.status = "answered" /\ query'.answer = c
                    /\ op'[c] = "cancel" => query'.status = "cancelled"
  BY DEF AcknowledgedStands, AnswerStands, CancelStands
<1>1. CASE pc[c] = "ok" /\ op'[c] \in {"answer", "cancel"}
  <2>1. op'[c] = op[c]
    BY <1>1, OkStays DEF QuietInv
  <2>2. query.status \in Settled
    BY <1>1, <2>1 DEF AcknowledgedStands, AnswerStands, CancelStands, Settled
  <2>3. query' = query
    BY <2>2, SettledStep, NoMailStep DEF QuietInv
  <2> QED BY <1>1, <2>1, <2>3 DEF AcknowledgedStands, AnswerStands, CancelStands
<1>2. CASE pc[c] # "ok"
  BY <1>2, NewlyAcknowledged DEF QuietInv
<1> QED BY <1>1, <1>2

\* Everything a step of the quiet system preserves.
QuietSpecInv == TypeInv /\ QuietInv

LEMMA QuietInit == Init => QuietSpecInv
<1> SUFFICES ASSUME Init PROVE QuietSpecInv
  OBVIOUS
<1>1. NoEmail
  BY DEF Init, NoEmail
<1> QED BY <1>1, InitTypeInv, WritersInit DEF QuietSpecInv, QuietInv

LEMMA GenuineStep == QuietInv /\ AnswerIsGenuine /\ [Next]_vars => AnswerIsGenuine'
<1> SUFFICES ASSUME QuietInv, AnswerIsGenuine, [Next]_vars PROVE AnswerIsGenuine'
  OBVIOUS
<1>1. query'.status = "answered" <=> query'.answer # None
  <2>1. CASE Record!Decide
    BY <2>1, ConstantsOK DEF ConstantsOK, Record!Decide
  <2>2. CASE ~Record!Decide /\ Record!Next
    BY <2>2 DEF Record!Next, Record!Create, Record!Assign, Record!AskBack, Record!Clarify,
                Record!Withdraw, Record!Expire, Record!Move, Record!Open, AnswerIsGenuine
  <2>3. CASE UNCHANGED Record!recordVars
    BY <2>3 DEF Record!recordVars, AnswerIsGenuine
  <2> QED BY <2>1, <2>2, <2>3, RecordStep, NoMailStep DEF QuietInv
<1>2. ASSUME query'.answer # None
      PROVE  /\ query'.answer \in responses'
             /\ pc'[query'.answer] = "ok" /\ op'[query'.answer] = "answer"
  <2>1. CASE query'.answer = query.answer
    <3>1. query.answer \in responses /\ query.answer \in Calls
      BY <1>2, <2>1 DEF AnswerIsGenuine, QuietInv, WritersInv, TypeOK
    <3> QED BY <1>2, <2>1, <3>1, AnswerWritten, OkStays DEF AnswerIsGenuine, QuietInv
  <2>2. CASE query'.answer # query.answer
    BY <2>2, AnswerWritten DEF QuietInv
  <2> QED BY <2>1, <2>2
<1> QED BY <1>1, <1>2 DEF AnswerIsGenuine

\* The inductive invariant of the system without email replies.
THEOREM QuietCorrect == ASSUME InboundEmail = FALSE PROVE Spec => []QuietSpecInv
<1>1. QuietSpecInv /\ [Next]_vars => QuietSpecInv'
  BY TypeStep, PauseStep, OpStep, NoEmailStep, SweepOpenStep
     DEF QuietSpecInv, QuietInv, WritersInv, TypeInv
<1> QED BY QuietInit, <1>1, PTL DEF Spec

\* Answers and cancels that were acknowledged stand for ever.
THEOREM Acknowledged == ASSUME InboundEmail = FALSE PROVE Spec => []AcknowledgedStands
<1>1. Init => AcknowledgedStands
  BY DEF Init, AcknowledgedStands, AnswerStands, CancelStands
<1>2. QuietSpecInv /\ AcknowledgedStands /\ [Next]_vars => AcknowledgedStands'
  BY AcknowledgedStep DEF QuietSpecInv
<1> QED BY QuietCorrect, <1>1, <1>2, PTL DEF Spec

\* The decision on record was given by the call that reports it, and its message
\* is in the conversation.
THEOREM Genuine == ASSUME InboundEmail = FALSE PROVE Spec => []AnswerIsGenuine
<1>1. Init => AnswerIsGenuine
  BY DEF Init, AnswerIsGenuine, NoRow
<1>2. QuietSpecInv /\ AnswerIsGenuine /\ [Next]_vars => AnswerIsGenuine'
  BY GenuineStep DEF QuietSpecInv
<1> QED BY QuietCorrect, <1>1, <1>2, PTL DEF Spec

\* No request and no sweep writes a settled row.
THEOREM Final == ASSUME InboundEmail = FALSE PROVE Spec => SettledIsFinal
<1>1. QuietSpecInv /\ [Next]_vars => [query.status \in Settled => query' = query]_query
  BY SettledStep, NoMailStep DEF QuietSpecInv, QuietInv
<1> QED BY QuietCorrect, <1>1, PTL DEF Spec, SettledIsFinal

\* The requests, interleaved, implement the query's abstract record.
THEOREM Refinement == ASSUME InboundEmail = FALSE PROVE Spec => ImplementsRecord
<1>1. Init => Record!Init
  BY DEF Init, Record!Init, NoRow
<1>2. QuietSpecInv /\ [Next]_vars => [Record!Next]_Record!recordVars
  BY RecordStep, NoMailStep DEF QuietSpecInv, QuietInv
<1> QED BY QuietCorrect, <1>1, <1>2, PTL DEF Spec, ImplementsRecord, Record!Spec

================================================================================
