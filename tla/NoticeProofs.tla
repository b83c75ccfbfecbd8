----------------------------- MODULE NoticeProofs ------------------------------
(***************************************************************************)
(* What Webhooks promises, for any number of webhooks, requests and        *)
(* events, and what ProjectHub promises, for any number of agents,         *)
(* requests and streams.                                                   *)
(***************************************************************************)
EXTENDS Webhooks, ProjectHub, TLAPS

--------------------------------------------------------------------------------
(* Types *)

\* A call that has not begun is about nothing, and one between its statements that is
\* not a registration is about a webhook.
CallsAim ==
  \A c \in Calls :
    /\ pc[c] = "idle" => op[c] = "none"
    /\ op[c] \in {"rotate", "activate"} => hook[c] \in Hooks
    /\ op[c] \in {"deactivate", "delete"} => pc[c] = "ok"

WebhookInv == WebhookTypeOK /\ CallsAim

LEMMA WebhookInitially == WebhookInit => WebhookInv
BY WebhookConstants DEF WebhookInit, WebhookInv, WebhookTypeOK, CallsAim, NoRow, Idle

LEMMA RowTyped ==
  ASSUME WebhookInv, NEW h \in Hooks
  PROVE  /\ h \in stored => hooks[h] \in Row
         /\ \A r \in Row : r.state = "stored" /\ r \notin {NoRow, Gone}
         /\ NoRow.state # "stored" /\ Gone.state # "stored"
BY DEF WebhookInv, WebhookTypeOK, stored, Row, NoRow, Gone

LEMMA Retired ==
  ASSUME NEW secrets \in SUBSET StoredSecret, NEW t \in Nat
  PROVE  /\ retireCurrentSecret(secrets, t) \in SUBSET StoredSecret
         /\ \A s \in retireCurrentSecret(secrets, t) : s.expiresAt = t
BY DEF retireCurrentSecret, StoredSecret

LEMMA NewTyped ==
  ASSUME NEW c \in Calls
  PROVE  newSecret(c) \in StoredSecret /\ newSecret(c).id = c /\ newSecret(c).expiresAt = None
BY DEF newSecret, StoredSecret

\* What a row is after a rotation, and which secret of it is current.
LEMMA Rotated ==
  ASSUME WebhookInv, NEW c \in Calls, RotateWrite(c)
  PROVE  LET h == hook[c] IN
         /\ h \in Hooks
         /\ hooks' \in [Hooks -> Row \cup {NoRow, Gone}]
         /\ \A g \in Hooks : g # h \/ h \notin stored => hooks'[g] = hooks[g]
         /\ h \in stored =>
              /\ hooks'[h].state = "stored" /\ hooks'[h].isActive = TRUE
              /\ hooks'[h].failureCount = hooks[h].failureCount
              /\ \E at \in since[c]..now : hooks'[h].secrets =
                   {newSecret(c)} \cup retireCurrentSecret(seen[c], at + Grace)
              /\ newSecret(c) \in hooks'[h].secrets
              /\ current(hooks'[h]) = {newSecret(c)}
<1> DEFINE h == hook[c]
<1>0. PICK at \in since[c]..now :
        hooks' = IF h \notin stored THEN hooks ELSE [hooks EXCEPT
          ![h].secrets = {newSecret(c)} \cup retireCurrentSecret(seen[c], at + Grace),
          ![h].isActive = TRUE]
  BY DEF RotateWrite
<1> DEFINE kept == retireCurrentSecret(seen[c], at + Grace)
           row == [hooks[h] EXCEPT !.secrets = {newSecret(c)} \cup kept, !.isActive = TRUE]
<1>1. h \in Hooks
  BY DEF RotateWrite, WebhookInv, CallsAim
<1>2. at + Grace \in Nat /\ seen[c] \in SUBSET StoredSecret
  <2>1. since[c] \in Nat /\ now \in Nat
    BY DEF WebhookInv, WebhookTypeOK
  <2> QED BY <1>0, <2>1, WebhookConstants DEF WebhookInv, WebhookTypeOK
<1>3. kept \in SUBSET StoredSecret /\ \A s \in kept : s.expiresAt # None
  BY <1>2, Retired, WebhookConstants
<1>4. CASE h \notin stored
  BY <1>0, <1>1, <1>4 DEF WebhookInv, WebhookTypeOK
<1>5. CASE h \in stored
  <2>1. hooks[h] \in Row
    BY <1>1, <1>5, RowTyped
  <2>2. /\ row \in Row /\ row.state = "stored" /\ row.isActive = TRUE
        /\ row.failureCount = hooks[h].failureCount
        /\ row.secrets = {newSecret(c)} \cup kept
    BY <1>3, <2>1, NewTyped DEF Row
  <2>3. hooks' = [hooks EXCEPT ![h] = row]
    BY <1>0, <1>5
  <2>4. current(row) = {newSecret(c)}
    BY <1>3, <2>2, NewTyped DEF current
  <2> HIDE DEF row, kept
  <2>5. hooks'[h] = row /\ \A g \in Hooks : g # h => hooks'[g] = hooks[g]
    BY <1>1, <2>3 DEF WebhookInv, WebhookTypeOK
  <2>6. hooks' \in [Hooks -> Row \cup {NoRow, Gone}]
    BY <1>1, <2>2, <2>3 DEF WebhookInv, WebhookTypeOK
  <2> QED BY <1>0, <1>1, <1>5, <2>2, <2>4, <2>5, <2>6 DEF kept
<1> QED BY <1>4, <1>5

\* What a registration inserts.
LEMMA Inserted ==
  ASSUME WebhookInv, NEW c \in Calls, NEW h \in Hooks, hooks[h] = NoRow,
         hooks' = [hooks EXCEPT ![h] =
               [state |-> "stored", isActive |-> TRUE, failureCount |-> 0,
                secrets |-> {newSecret(c)}]]
  PROVE  /\ hooks' \in [Hooks -> Row \cup {NoRow, Gone}]
         /\ \A g \in Hooks : g # h => hooks'[g] = hooks[g]
         /\ hooks'[h].state = "stored" /\ hooks'[h].isActive = TRUE /\ hooks'[h].failureCount = 0
         /\ hooks'[h].secrets = {newSecret(c)} /\ current(hooks'[h]) = {newSecret(c)}
<1> DEFINE row == [state |-> "stored", isActive |-> TRUE, failureCount |-> 0,
                   secrets |-> {newSecret(c)}]
<1>1. row \in Row /\ current(row) = {newSecret(c)}
  BY NewTyped DEF Row, current
<1> QED BY <1>1 DEF WebhookInv, WebhookTypeOK

\* A write of the flag and the count leaves the secrets alone.
LEMMA Flagged ==
  ASSUME WebhookInv, NEW h \in Hooks, h \in stored, NEW n \in Nat, NEW b \in BOOLEAN,
         \/ hooks' = [hooks EXCEPT ![h].failureCount = n, ![h].isActive = b]
         \/ hooks' = [hooks EXCEPT ![h].failureCount = n] /\ b = hooks[h].isActive
         \/ hooks' = [hooks EXCEPT ![h].isActive = b] /\ n = hooks[h].failureCount
  PROVE  /\ hooks' \in [Hooks -> Row \cup {NoRow, Gone}]
         /\ \A g \in Hooks : g # h => hooks'[g] = hooks[g]
         /\ hooks'[h].state = "stored" /\ hooks'[h].secrets = hooks[h].secrets
         /\ hooks'[h].isActive = b /\ hooks'[h].failureCount = n
<1>1. hooks[h] \in Row
  BY RowTyped
<1>2. \E row \in Row :
        /\ row.secrets = hooks[h].secrets /\ row.isActive = b /\ row.failureCount = n
        /\ hooks' = [hooks EXCEPT ![h] = row]
  <2>1. CASE hooks' = [hooks EXCEPT ![h].failureCount = n, ![h].isActive = b]
    <3> DEFINE row == [hooks[h] EXCEPT !.failureCount = n, !.isActive = b]
    <3>1. row \in Row /\ row.secrets = hooks[h].secrets /\ row.isActive = b /\ row.failureCount = n
      BY <1>1 DEF Row
    <3>2. hooks' = [hooks EXCEPT ![h] = row]
      BY <2>1 DEF WebhookInv, WebhookTypeOK
    <3> QED BY <3>1, <3>2
  <2>2. CASE hooks' = [hooks EXCEPT ![h].failureCount = n] /\ b = hooks[h].isActive
    <3> DEFINE row == [hooks[h] EXCEPT !.failureCount = n]
    <3>1. row \in Row /\ row.secrets = hooks[h].secrets /\ row.isActive = b /\ row.failureCount = n
      BY <1>1, <2>2 DEF Row
    <3>2. hooks' = [hooks EXCEPT ![h] = row]
      BY <2>2
    <3> QED BY <3>1, <3>2
  <2>3. CASE hooks' = [hooks EXCEPT ![h].isActive = b] /\ n = hooks[h].failureCount
    <3> DEFINE row == [hooks[h] EXCEPT !.isActive = b]
    <3>1. row \in Row /\ row.secrets = hooks[h].secrets /\ row.isActive = b /\ row.failureCount = n
      BY <1>1, <2>3 DEF Row
    <3>2. hooks' = [hooks EXCEPT ![h] = row]
      BY <2>3
    <3> QED BY <3>1, <3>2
  <2> QED BY <2>1, <2>2, <2>3
<1> QED BY <1>2, RowTyped DEF WebhookInv, WebhookTypeOK

\* A call that begins was idle, and the other calls stay where they are.
LEMMA Begun ==
  ASSUME WebhookInv, NEW c \in Calls, NEW h \in Hooks \cup {None}, NEW secrets \in SUBSET StoredSecret,
         NEW o \in {"create", "rotate", "activate", "deactivate", "delete"},
         NEW at \in Step \cup Ended, Begin(c, o, h, secrets, at)
  PROVE  /\ op' \in [Calls -> {"none", "create", "rotate", "activate", "deactivate", "delete"}]
         /\ pc' \in [Calls -> {"idle"} \cup Step \cup Ended]
         /\ hook' \in [Calls -> Hooks \cup {None}]
         /\ seen' \in [Calls -> SUBSET StoredSecret]
         /\ pc[c] = "idle" /\ op'[c] = o /\ pc'[c] = at /\ hook'[c] = h /\ seen'[c] = secrets
         /\ \A x \in Calls \ {c} : /\ op'[x] = op[x] /\ pc'[x] = pc[x]
                                   /\ hook'[x] = hook[x] /\ seen'[x] = seen[x]
BY DEF WebhookInv, WebhookTypeOK, Begin

LEMMA Went ==
  ASSUME WebhookInv, NEW c \in Calls, NEW at \in Step \cup Ended, pc' = [pc EXCEPT ![c] = at]
  PROVE  /\ pc' \in [Calls -> {"idle"} \cup Step \cup Ended]
         /\ pc'[c] = at /\ \A x \in Calls \ {c} : pc'[x] = pc[x]
BY DEF WebhookInv, WebhookTypeOK

\* The ways a call begins: nothing but the calls changes, except that a PATCH or a
\* DELETE writes the row.
LEMMA Beginnings ==
  ASSUME WebhookInv, NEW c \in Calls,
         CreateCheck(c) \/ \E h \in Hooks : RotateRead(c, h) \/ ActivateCheck(c, h)
                                            \/ Deactivate(c, h) \/ deleteWebhook(c, h)
  PROVE  \E h \in Hooks \cup {None}, secrets \in SUBSET StoredSecret,
            o \in {"create", "rotate", "activate", "deactivate", "delete"}, at \in Step \cup Ended :
            /\ Begin(c, o, h, secrets, at)
            /\ o \in {"rotate", "activate"} => h \in Hooks
            /\ o \in {"deactivate", "delete"} => at = "ok"
<1>1. CASE CreateCheck(c)
  BY <1>1 DEF CreateCheck, Step, Ended
<1>2. CASE \E h \in Hooks : RotateRead(c, h)
  <2>1. PICK h \in Hooks : RotateRead(c, h)
    BY <1>2
  <2>2. hooks[h].secrets \in SUBSET StoredSecret
    BY <2>1, RowTyped DEF RotateRead, Row
  <2> QED BY <2>1, <2>2 DEF RotateRead, Step
<1>3. CASE \E h \in Hooks : ActivateCheck(c, h)
  BY <1>3 DEF ActivateCheck, Step, Ended
<1>4. CASE \E h \in Hooks : Deactivate(c, h) \/ deleteWebhook(c, h)
  BY <1>4 DEF Deactivate, deleteWebhook, Ended
<1> QED BY <1>1, <1>2, <1>3, <1>4

LEMMA BegunTyped ==
  ASSUME WebhookInv, NEW c \in Calls,
         CreateCheck(c) \/ \E h \in Hooks : RotateRead(c, h) \/ ActivateCheck(c, h)
                                            \/ Deactivate(c, h) \/ deleteWebhook(c, h)
  PROVE  WebhookInv'
<1>1. PICK h \in Hooks \cup {None}, secrets \in SUBSET StoredSecret,
           o \in {"create", "rotate", "activate", "deactivate", "delete"}, at \in Step \cup Ended :
           /\ Begin(c, o, h, secrets, at)
           /\ o \in {"rotate", "activate"} => h \in Hooks
           /\ o \in {"deactivate", "delete"} => at = "ok"
  BY Beginnings
<1>2. /\ op' \in [Calls -> {"none", "create", "rotate", "activate", "deactivate", "delete"}]
      /\ pc' \in [Calls -> {"idle"} \cup Step \cup Ended]
      /\ hook' \in [Calls -> Hooks \cup {None}]
      /\ seen' \in [Calls -> SUBSET StoredSecret]
  BY <1>1, Begun
<1>3. CallsAim'
  <2>1. \A x \in Calls \ {c} : op'[x] = op[x] /\ pc'[x] = pc[x] /\ hook'[x] = hook[x]
    BY <1>1 DEF Begin, WebhookInv, WebhookTypeOK
  <2>2. op'[c] = o /\ pc'[c] = at /\ hook'[c] = h /\ at # "idle"
    BY <1>1, Begun DEF Step, Ended
  <2> QED BY <1>1, <2>1, <2>2 DEF WebhookInv, CallsAim
<1>4. hooks' \in [Hooks -> Row \cup {NoRow, Gone}]
  <2>1. CASE hooks' = hooks
    BY <2>1 DEF WebhookInv, WebhookTypeOK
  <2>2. CASE \E g \in Hooks : Deactivate(c, g)
    BY <2>2, RowTyped, Flagged DEF Deactivate, Row
  <2>3. CASE \E g \in Hooks : deleteWebhook(c, g)
    BY <2>3 DEF deleteWebhook, WebhookInv, WebhookTypeOK
  <2> QED BY <2>1, <2>2, <2>3 DEF CreateCheck, RotateRead, ActivateCheck, rows
<1>5. overlapped' \in SUBSET Hooks /\ since' \in [Calls -> Nat]
  BY DEF CreateCheck, RotateRead, ActivateCheck, Deactivate, deleteWebhook, history,
         WebhookInv, WebhookTypeOK
<1>6. UNCHANGED <<delivery, now, failed, streak>>
  BY DEF CreateCheck, RotateRead, ActivateCheck, Deactivate, deleteWebhook, history, rows
<1> QED BY <1>2, <1>3, <1>4, <1>5, <1>6 DEF WebhookInv, WebhookTypeOK

\* The statements after the first.
LEMMA WrittenTyped ==
  ASSUME WebhookInv, NEW c \in Calls,
         CreateInsert(c) \/ RotateWrite(c) \/ ActivateWrite(c) \/ CallCrash(c)
  PROVE  WebhookInv'
<1>1. \E at \in Step \cup Ended : pc' = [pc EXCEPT ![c] = at] /\ at # "idle" /\ (at = "ok" \/ pc[c] # "ok")
  BY DEF CreateInsert, RotateWrite, ActivateWrite, CallCrash, Goto, Step, Ended
<1>2. /\ pc' \in [Calls -> {"idle"} \cup Step \cup Ended]
      /\ pc'[c] # "idle" /\ (pc'[c] = "ok" \/ pc[c] # "ok")
      /\ \A x \in Calls \ {c} : pc'[x] = pc[x]
  BY <1>1, Went
<1>3. UNCHANGED <<op, seen, delivery, now, failed, streak, overlapped, since>>
  BY DEF CreateInsert, RotateWrite, ActivateWrite, CallCrash, Goto, history, rows
<1>4. /\ hook' \in [Calls -> Hooks \cup {None}]
      /\ \A x \in Calls : hook'[x] = hook[x] \/ hook'[x] \in Hooks
  BY DEF CreateInsert, RotateWrite, ActivateWrite, CallCrash, Goto, WebhookInv, WebhookTypeOK
<1>5. hooks' \in [Hooks -> Row \cup {NoRow, Gone}]
  <2>1. CASE hooks' = hooks
    BY <2>1 DEF WebhookInv, WebhookTypeOK
  <2>2. CASE CreateInsert(c)
    BY <2>1, <2>2, Inserted DEF CreateInsert
  <2>3. CASE RotateWrite(c)
    BY <2>3, Rotated
  <2>4. CASE ActivateWrite(c)
    BY <2>1, <2>4, RowTyped, Flagged DEF ActivateWrite, Row, WebhookInv, CallsAim
  <2> QED BY <2>1, <2>2, <2>3, <2>4 DEF CallCrash, rows
<1>6. CallsAim'
  BY <1>2, <1>3, <1>4 DEF WebhookInv, CallsAim
<1> QED BY <1>2, <1>3, <1>4, <1>5, <1>6 DEF WebhookInv, WebhookTypeOK

\* A delivery that settles was in flight.
LEMMA Settling ==
  ASSUME WebhookInv, NEW d \in Dispatches, NEW h \in Hooks, Settle(d, h)
  PROVE  /\ delivery[<<d, h>>] \in InFlight
         /\ delivery' \in [Dispatches \X Hooks -> InFlight \cup {Idle, Settled}]
         /\ delivery'[<<d, h>>] = Settled
         /\ \A k \in Dispatches \X Hooks : k # <<d, h>> => delivery'[k] = delivery[k]
BY DEF Settle, WebhookInv, WebhookTypeOK, Idle, Settled, InFlight

\* What a delivery writes to its row.
LEMMA FailureWritten ==
  ASSUME WebhookInv, NEW d \in Dispatches, NEW h \in Hooks, DeliveryFails(d, h)
  PROVE  /\ hooks' \in [Hooks -> Row \cup {NoRow, Gone}]
         /\ \A g \in Hooks : g # h \/ h \notin stored => hooks'[g] = hooks[g]
         /\ h \in stored =>
              /\ hooks'[h].state = "stored" /\ hooks'[h].secrets = hooks[h].secrets
              /\ hooks'[h].failureCount = delivery[<<d, h>>].failureCount + 1
              /\ hooks'[h].isActive = IF delivery[<<d, h>>].failureCount + 1 >= FailureLimit
                                      THEN FALSE ELSE delivery[<<d, h>>].isActive
         /\ failed' = [failed EXCEPT ![h] = failed[h] + 1]
         /\ streak' = [streak EXCEPT ![h] = streak[h] + 1]
<1> DEFINE n == delivery[<<d, h>>].failureCount + 1
           b == IF n >= FailureLimit THEN FALSE ELSE delivery[<<d, h>>].isActive
<1>1. delivery[<<d, h>>] \in InFlight
  BY Settling DEF DeliveryFails
<1>2. n \in Nat
  BY <1>1 DEF InFlight
<1>3. b \in BOOLEAN
  BY <1>1 DEF InFlight
<1>4. h \in stored => hooks' = [hooks EXCEPT ![h].failureCount = n, ![h].isActive = b]
  BY DEF DeliveryFails
<1>5. h \notin stored => hooks' = hooks
  BY DEF DeliveryFails
<1>6. failed' = [failed EXCEPT ![h] = failed[h] + 1] /\ streak' = [streak EXCEPT ![h] = streak[h] + 1]
  BY DEF DeliveryFails
<1>7. CASE h \in stored
  <2> HIDE DEF n, b
  <2>1. /\ hooks' \in [Hooks -> Row \cup {NoRow, Gone}]
        /\ \A g \in Hooks : g # h => hooks'[g] = hooks[g]
        /\ hooks'[h].state = "stored" /\ hooks'[h].secrets = hooks[h].secrets
        /\ hooks'[h].isActive = b /\ hooks'[h].failureCount = n
    BY <1>2, <1>3, <1>4, <1>7, Flagged
  <2> QED BY <1>6, <1>7, <2>1 DEF n, b
<1>8. CASE h \notin stored
  BY <1>5, <1>6, <1>8 DEF WebhookInv, WebhookTypeOK
<1> QED BY <1>7, <1>8

LEMMA SuccessWritten ==
  ASSUME WebhookInv, NEW d \in Dispatches, NEW h \in Hooks, DeliverySucceeds(d, h)
  PROVE  /\ hooks' \in [Hooks -> Row \cup {NoRow, Gone}]
         /\ \A g \in Hooks : g # h \/ h \notin stored => hooks'[g] = hooks[g]
         /\ h \in stored =>
              /\ hooks'[h].state = "stored" /\ hooks'[h].secrets = hooks[h].secrets
              /\ hooks'[h].failureCount = 0 /\ hooks'[h].isActive = hooks[h].isActive
<1>1. CASE h \in stored
  BY <1>1, RowTyped, Flagged DEF DeliverySucceeds, Row
<1>2. CASE h \notin stored
  BY <1>2 DEF DeliverySucceeds, WebhookInv, WebhookTypeOK
<1> QED BY <1>1, <1>2

\* An event that is dispatched puts rows that were switched on into flight.
LEMMA Dispatched ==
  ASSUME WebhookInv, NEW d \in Dispatches, dispatchWebhooks(d)
  PROVE  /\ delivery' \in [Dispatches \X Hooks -> InFlight \cup {Idle, Settled}]
         /\ \A k \in Dispatches \X Hooks :
              \/ delivery'[k] = delivery[k]
              \/ /\ k[2] \in stored /\ hooks[k[2]].isActive
                 /\ delivery'[k] = [state |-> "in_flight", failureCount |-> hooks[k[2]].failureCount,
                                    isActive |-> hooks[k[2]].isActive]
<1>1. PICK to \in SUBSET {h \in Hooks : deliverable(h)} :
        delivery' = [k \in Dispatches \X Hooks |->
            IF k[1] = d /\ k[2] \in to
            THEN [state |-> "in_flight", failureCount |-> hooks[k[2]].failureCount,
                  isActive |-> hooks[k[2]].isActive]
            ELSE delivery[k]]
  BY DEF dispatchWebhooks
<1>2. \A h \in to : h \in stored /\ hooks[h].isActive
  BY DEF deliverable
<1>3. \A h \in to : [state |-> "in_flight", failureCount |-> hooks[h].failureCount,
                     isActive |-> hooks[h].isActive] \in InFlight
  BY <1>2, RowTyped DEF Row, InFlight
<1> QED BY <1>1, <1>2, <1>3 DEF WebhookInv, WebhookTypeOK

LEMMA DeliveredTyped ==
  ASSUME WebhookInv, NEW d \in Dispatches, Deliver(d)
  PROVE  WebhookInv'
<1>1. UNCHANGED <<now, op, pc, hook, seen, overlapped, since>>
  BY DEF Deliver, dispatchWebhooks, DeliveryFails, DeliverySucceeds, DeliveryLost, calls, history
<1>2. CASE dispatchWebhooks(d)
  BY <1>1, <1>2, Dispatched DEF dispatchWebhooks, history, WebhookInv, WebhookTypeOK, CallsAim
<1>3. ASSUME NEW h \in Hooks, DeliveryFails(d, h) PROVE WebhookInv'
  <2>1. /\ hooks' \in [Hooks -> Row \cup {NoRow, Gone}]
        /\ delivery' \in [Dispatches \X Hooks -> InFlight \cup {Idle, Settled}]
    BY <1>3, FailureWritten, Settling DEF DeliveryFails
  <2>2. failed' = [failed EXCEPT ![h] = failed[h] + 1] /\ streak' = [streak EXCEPT ![h] = streak[h] + 1]
    BY <1>3, FailureWritten
  <2>3. failed' \in [Hooks -> Nat] /\ streak' \in [Hooks -> Nat]
    BY <2>2 DEF WebhookInv, WebhookTypeOK
  <2> QED BY <1>1, <2>1, <2>3 DEF WebhookInv, WebhookTypeOK, CallsAim
<1>4. ASSUME NEW h \in Hooks, DeliverySucceeds(d, h) PROVE WebhookInv'
  <2>1. /\ hooks' \in [Hooks -> Row \cup {NoRow, Gone}]
        /\ delivery' \in [Dispatches \X Hooks -> InFlight \cup {Idle, Settled}]
    BY <1>4, SuccessWritten, Settling DEF DeliverySucceeds
  <2>2. failed' \in [Hooks -> Nat] /\ streak' \in [Hooks -> Nat]
    BY <1>4 DEF DeliverySucceeds, WebhookInv, WebhookTypeOK
  <2> QED BY <1>1, <2>1, <2>2 DEF WebhookInv, WebhookTypeOK, CallsAim
<1>5. ASSUME NEW h \in Hooks, DeliveryLost(d, h) PROVE WebhookInv'
  <2>1. delivery' \in [Dispatches \X Hooks -> InFlight \cup {Idle, Settled}]
    BY <1>5, Settling DEF DeliveryLost
  <2> QED BY <1>1, <1>5, <2>1 DEF DeliveryLost, history, WebhookInv, WebhookTypeOK, CallsAim
<1> QED BY <1>2, <1>3, <1>4, <1>5 DEF Deliver

LEMMA WebhookStep == WebhookInv /\ [WebhookNext]_webhookVars => WebhookInv'
<1> SUFFICES ASSUME WebhookInv, [WebhookNext]_webhookVars PROVE WebhookInv'
  OBVIOUS
<1>1. CASE WebhookTick
  BY <1>1 DEF WebhookTick, calls, history, WebhookInv, WebhookTypeOK, CallsAim
<1>2. CASE UNCHANGED webhookVars
  BY <1>2 DEF webhookVars, rows, calls, history, WebhookInv, WebhookTypeOK, CallsAim
<1> QED BY <1>1, <1>2, BegunTyped, WrittenTyped, DeliveredTyped DEF WebhookNext, Manage

\* The rows, the deliveries and the calls about them stay well formed.
THEOREM WebhookTypeCorrect == WebhookSpec => []WebhookTypeOK
<1>1. WebhookInv => WebhookTypeOK
  BY DEF WebhookInv
<1> QED BY <1>1, WebhookInitially, WebhookStep, PTL DEF WebhookSpec

--------------------------------------------------------------------------------
(* What becomes of a row *)

\* A step leaves the secrets of a row that stays, unless it is the rotation that writes
\* them or the registration that inserts them.
LEMMA RowMoves ==
  ASSUME WebhookInv, [WebhookNext]_webhookVars, NEW h \in Hooks, h \in stored'
  PROVE  \/ h \in stored /\ hooks'[h].secrets = hooks[h].secrets
         \/ \E c \in Calls : /\ pc[c] \in Step /\ pc'[c] = "ok"
                             /\ current(hooks'[h]) = {newSecret(c)}
                             /\ newSecret(c) \in hooks'[h].secrets
                             /\ ~(RotateWrite(c) /\ hook[c] = h) => hooks[h] = NoRow
<1> DEFINE Kept == h \in stored /\ hooks'[h].secrets = hooks[h].secrets
           Written == \E c \in Calls :
                         /\ pc[c] \in Step /\ pc'[c] = "ok"
                         /\ current(hooks'[h]) = {newSecret(c)}
                         /\ newSecret(c) \in hooks'[h].secrets
                         /\ ~(RotateWrite(c) /\ hook[c] = h) => hooks[h] = NoRow
<1>0. h \in stored' => hooks'[h].state = "stored"
  BY DEF stored
<1>1. ASSUME hooks'[h] = hooks[h] PROVE Kept
  BY <1>0, <1>1 DEF stored
<1>2. ASSUME NEW c \in Calls, CreateInsert(c), hooks'[h] # hooks[h] PROVE Written
  <2>1. PICK g \in Hooks :
          /\ hooks[g] = NoRow
          /\ hooks' = [hooks EXCEPT ![g] =
               [state |-> "stored", isActive |-> TRUE, failureCount |-> 0,
                secrets |-> {newSecret(c)}]]
          /\ pc' = [pc EXCEPT ![c] = "ok"]
    BY <1>2 DEF CreateInsert
  <2>2. g = h /\ hooks'[h].secrets = {newSecret(c)} /\ current(hooks'[h]) = {newSecret(c)}
    BY <1>2, <2>1, Inserted
  <2>3. pc[c] \in Step /\ pc'[c] = "ok"
    BY <1>2, <2>1 DEF CreateInsert, Step, WebhookInv, WebhookTypeOK
  <2> QED BY <2>1, <2>2, <2>3
<1>3. ASSUME NEW c \in Calls, RotateWrite(c), hooks'[h] # hooks[h] PROVE Written
  <2>1. hook[c] = h /\ h \in stored
    BY <1>3, Rotated
  <2>2. /\ newSecret(c) \in hooks'[h].secrets
        /\ current(hooks'[h]) = {newSecret(c)}
    BY <1>3, <2>1, Rotated
  <2>3. pc[c] \in Step /\ pc'[c] = "ok"
    BY <1>3 DEF RotateWrite, Goto, Step, WebhookInv, WebhookTypeOK
  <2> QED BY <1>3, <2>1, <2>2, <2>3
<1>4. ASSUME NEW c \in Calls, ActivateWrite(c) PROVE Kept
  <2>1. hook[c] \in Hooks
    BY <1>4 DEF ActivateWrite, WebhookInv, CallsAim
  <2>2. CASE hook[c] \in stored
    BY <1>1, <1>4, <2>1, <2>2, RowTyped, Flagged DEF ActivateWrite, Row
  <2> QED BY <1>1, <1>4, <2>2 DEF ActivateWrite
<1>5. ASSUME NEW c \in Calls, NEW g \in Hooks, Deactivate(c, g) PROVE Kept
  BY <1>1, <1>5, RowTyped, Flagged DEF Deactivate, Row
<1>6. ASSUME NEW c \in Calls, NEW g \in Hooks, deleteWebhook(c, g) PROVE Kept
  BY <1>0, <1>1, <1>6, RowTyped DEF deleteWebhook, WebhookInv, WebhookTypeOK
<1>7. ASSUME NEW d \in Dispatches, NEW g \in Hooks, DeliveryFails(d, g) PROVE Kept
  BY <1>1, <1>7, FailureWritten
<1>8. ASSUME NEW d \in Dispatches, NEW g \in Hooks, DeliverySucceeds(d, g) PROVE Kept
  BY <1>1, <1>8, SuccessWritten
<1>9. ASSUME NEW c \in Calls, CreateCheck(c) \/ CallCrash(c)
                              \/ \E g \in Hooks : RotateRead(c, g) \/ ActivateCheck(c, g)
      PROVE  hooks' = hooks
  BY <1>9 DEF CreateCheck, CallCrash, RotateRead, ActivateCheck, rows
<1>10. ASSUME NEW d \in Dispatches, dispatchWebhooks(d) \/ \E g \in Hooks : DeliveryLost(d, g)
       PROVE  hooks' = hooks
  BY <1>10 DEF dispatchWebhooks, DeliveryLost
<1>11. ASSUME WebhookTick \/ UNCHANGED webhookVars PROVE hooks' = hooks
  BY <1>11 DEF WebhookTick, webhookVars, rows
<1> HIDE DEF Kept, Written
<1>12. hooks' = hooks => Kept
  BY <1>1 DEF Kept
<1>13. hooks'[h] = hooks[h] => Kept
  BY <1>1 DEF Kept
<1>14. Kept \/ Written
  BY <1>2, <1>3, <1>4, <1>5, <1>6, <1>7, <1>8, <1>9, <1>10, <1>11, <1>12, <1>13
     DEF WebhookNext, Manage, Deliver
<1> QED BY <1>14 DEF Kept, Written

\* A call that is over stays over, as what it was.
LEMMA OverStays ==
  ASSUME WebhookInv, [WebhookNext]_webhookVars, NEW c \in Calls, pc[c] \in Ended
  PROVE  pc'[c] = pc[c] /\ op'[c] = op[c] /\ hook'[c] = hook[c]
<1>0. \A x \in Calls : pc[x] \in Step => x # c
  BY DEF Step, Ended
<1>00. \A x \in Calls : pc[x] = "idle" => x # c
  BY DEF Ended
<1>1. CASE \E x \in Calls :
             CreateCheck(x) \/ \E h \in Hooks : RotateRead(x, h) \/ ActivateCheck(x, h)
                                                \/ Deactivate(x, h) \/ deleteWebhook(x, h)
  BY <1>00, <1>1, Beginnings DEF Begin, WebhookInv, WebhookTypeOK
<1>2. CASE \E x \in Calls : CreateInsert(x) \/ RotateWrite(x) \/ ActivateWrite(x) \/ CallCrash(x)
  BY <1>0, <1>2 DEF CreateInsert, RotateWrite, ActivateWrite, CallCrash, Goto, Step,
                    WebhookInv, WebhookTypeOK
<1>3. CASE \/ \E d \in Dispatches : Deliver(d)
           \/ WebhookTick
           \/ UNCHANGED webhookVars
  BY <1>3 DEF Deliver, dispatchWebhooks, DeliveryFails, DeliverySucceeds, DeliveryLost,
              WebhookTick, webhookVars, calls
<1> QED BY <1>1, <1>2, <1>3 DEF WebhookNext, Manage

--------------------------------------------------------------------------------
(* Secrets *)

SecretStated ==
  \A h \in Hooks : h \in stored => \E s \in hooks[h].secrets :
    current(hooks[h]) = {s} /\ s \in StoredSecret /\ pc[s.id] = "ok"

LEMMA SecretStep == WebhookInv /\ SecretStated /\ [WebhookNext]_webhookVars => SecretStated'
<1> SUFFICES ASSUME WebhookInv, SecretStated, [WebhookNext]_webhookVars,
                    NEW h \in Hooks, h \in stored'
             PROVE  \E s \in hooks'[h].secrets :
                      current(hooks'[h]) = {s} /\ s \in StoredSecret /\ pc'[s.id] = "ok"
  BY DEF SecretStated
<1>1. CASE h \in stored /\ hooks'[h].secrets = hooks[h].secrets
  <2>1. PICK s \in hooks[h].secrets :
          current(hooks[h]) = {s} /\ s \in StoredSecret /\ pc[s.id] = "ok"
    BY <1>1 DEF SecretStated
  <2>2. pc'[s.id] = "ok"
    BY <2>1, OverStays DEF StoredSecret, Ended
  <2>3. current(hooks'[h]) = {s}
    BY <1>1, <2>1 DEF current
  <2> QED BY <1>1, <2>1, <2>2, <2>3
<1>2. CASE \E c \in Calls : /\ pc'[c] = "ok"
                            /\ current(hooks'[h]) = {newSecret(c)}
                            /\ newSecret(c) \in hooks'[h].secrets
  BY <1>2, NewTyped
<1> QED BY <1>1, <1>2, RowMoves

\* A registered webhook can always be signed for, with one secret that does not expire,
\* however many rotations of it race.
THEOREM SecretCorrect == WebhookSpec => []OneCurrentSecret
<1>1. WebhookInit => SecretStated
  BY DEF WebhookInit, SecretStated, stored, NoRow
<1>2. SecretStated => OneCurrentSecret
  BY DEF SecretStated, OneCurrentSecret, stored
<1> QED BY <1>1, <1>2, SecretStep, WebhookInitially, WebhookStep, PTL DEF WebhookSpec

--------------------------------------------------------------------------------
(* Deliveries *)

LEMMA FailedGrows ==
  WebhookInv /\ [WebhookNext]_webhookVars => \A h \in Hooks : failed'[h] >= failed[h]
<1> SUFFICES ASSUME WebhookInv, [WebhookNext]_webhookVars PROVE \A h \in Hooks : failed'[h] >= failed[h]
  OBVIOUS
<1>1. CASE failed' = failed
  BY <1>1 DEF WebhookInv, WebhookTypeOK
<1>2. CASE \E d \in Dispatches, h \in Hooks : DeliveryFails(d, h)
  BY <1>2 DEF DeliveryFails, WebhookInv, WebhookTypeOK
<1> QED BY <1>1, <1>2
        DEF WebhookNext, Manage, Deliver, WebhookTick, CreateCheck, CreateInsert, RotateRead, RotateWrite,
            ActivateCheck, ActivateWrite, Deactivate, deleteWebhook, CallCrash, dispatchWebhooks,
            DeliverySucceeds, DeliveryLost, history, webhookVars

\* Its agent has asked for it, or enough deliveries have failed.
Excused(h) ==
  \/ failed[h] >= FailureLimit
  \/ \E c \in Calls : op[c] = "deactivate" /\ hook[c] = h

CountsBounded ==
  \A h \in Hooks : h \in stored =>
    hooks[h].failureCount <= failed[h] /\ (hooks[h].isActive \/ Excused(h))

FlightsBounded ==
  \A d \in Dispatches, h \in Hooks : delivery[<<d, h>>] \in InFlight =>
    delivery[<<d, h>>].failureCount <= failed[h] /\ delivery[<<d, h>>].isActive

DisabledInv == CountsBounded /\ FlightsBounded

LEMMA ExcusedStays ==
  ASSUME WebhookInv, [WebhookNext]_webhookVars, NEW h \in Hooks, Excused(h)
  PROVE  Excused(h)'
<1>1. CASE failed[h] >= FailureLimit
  <2>1. failed[h] \in Nat /\ failed'[h] \in Nat /\ failed'[h] >= failed[h]
    BY FailedGrows, WebhookStep DEF WebhookInv, WebhookTypeOK
  <2> QED BY <1>1, <2>1, WebhookConstants DEF Excused
<1>2. CASE \E c \in Calls : op[c] = "deactivate" /\ hook[c] = h
  BY <1>2, OverStays DEF Excused, WebhookInv, CallsAim, Ended
<1> QED BY <1>1, <1>2 DEF Excused

LEMMA DisabledStep == WebhookInv /\ DisabledInv /\ [WebhookNext]_webhookVars => DisabledInv'
<1> SUFFICES ASSUME WebhookInv, DisabledInv, [WebhookNext]_webhookVars PROVE DisabledInv'
  OBVIOUS
<1> USE DEF DisabledInv
<1>0. /\ failed \in [Hooks -> Nat] /\ failed' \in [Hooks -> Nat]
      /\ \A h \in Hooks : failed'[h] >= failed[h] /\ (Excused(h) => Excused(h)')
  BY FailedGrows, ExcusedStays, WebhookStep DEF WebhookInv, WebhookTypeOK
\* Rows and events in flight that a step leaves alone stay within their bounds.
<1>1. ASSUME NEW h \in Hooks, h \in stored', hooks'[h] = hooks[h]
      PROVE  hooks'[h].failureCount <= failed'[h] /\ (hooks'[h].isActive \/ Excused(h)')
  <2>1. h \in stored
    BY <1>1 DEF stored
  <2>2. hooks[h].failureCount \in Nat
    BY <2>1, RowTyped DEF Row
  <2>3. hooks[h].failureCount <= failed[h] /\ (hooks[h].isActive \/ Excused(h))
    BY <2>1 DEF CountsBounded
  <2> QED BY <1>0, <1>1, <2>2, <2>3
<1>2. ASSUME NEW d \in Dispatches, NEW h \in Hooks, delivery'[<<d, h>>] \in InFlight,
             delivery'[<<d, h>>] = delivery[<<d, h>>]
      PROVE  delivery'[<<d, h>>].failureCount <= failed'[h] /\ delivery'[<<d, h>>].isActive
  <2>1. delivery[<<d, h>>].failureCount \in Nat
    BY <1>2 DEF InFlight
  <2> QED BY <1>0, <1>2, <2>1 DEF FlightsBounded
<1>3. ASSUME NEW c \in Calls, Manage(c) PROVE DisabledInv'
  <2>1. delivery' = delivery
    BY <1>3 DEF Manage, CreateCheck, CreateInsert, RotateRead, RotateWrite, ActivateCheck,
                ActivateWrite, Deactivate, deleteWebhook, CallCrash, rows
  <2>2. FlightsBounded'
    BY <1>2, <2>1 DEF FlightsBounded
  <2>3. ASSUME NEW h \in Hooks, h \in stored', hooks'[h] # hooks[h]
        PROVE  hooks'[h].failureCount <= failed'[h] /\ (hooks'[h].isActive \/ Excused(h)')
    <3>1. CASE CreateInsert(c)
      <4>1. hooks'[h].failureCount = 0 /\ hooks'[h].isActive
        BY <2>3, <3>1, Inserted DEF CreateInsert
      <4> QED BY <1>0, <4>1
    <3>2. CASE RotateWrite(c)
      <4>1. h \in stored /\ hooks'[h].failureCount = hooks[h].failureCount /\ hooks'[h].isActive
        BY <2>3, <3>2, Rotated
      <4>2. hooks[h].failureCount \in Nat /\ hooks[h].failureCount <= failed[h]
        BY <4>1, RowTyped DEF Row, CountsBounded
      <4> QED BY <1>0, <4>1, <4>2
    <3>3. CASE ActivateWrite(c)
      <4>1. hook[c] \in Hooks
        BY <3>3 DEF ActivateWrite, WebhookInv, CallsAim
      <4>2. hook[c] = h /\ h \in stored
        BY <2>3, <3>3, <4>1 DEF ActivateWrite, WebhookInv, WebhookTypeOK
      <4>3. hooks[h].failureCount \in Nat /\ hooks[h].failureCount <= failed[h]
        BY <4>2, RowTyped DEF Row, CountsBounded
      <4>4. hooks'[h].failureCount = hooks[h].failureCount /\ hooks'[h].isActive
        BY <3>3, <4>2, <4>3, Flagged DEF ActivateWrite
      <4> QED BY <1>0, <4>3, <4>4
    <3>4. CASE \E g \in Hooks : Deactivate(c, g)
      <4>1. Deactivate(c, h)
        BY <2>3, <3>4 DEF Deactivate, WebhookInv, WebhookTypeOK
      <4>2. hooks[h].failureCount \in Nat /\ hooks[h].failureCount <= failed[h]
        BY <4>1, RowTyped DEF Deactivate, Row, CountsBounded
      <4>3. hooks'[h].failureCount = hooks[h].failureCount
        BY <4>1, <4>2, Flagged DEF Deactivate
      <4>4. op'[c] = "deactivate" /\ hook'[c] = h
        BY <4>1 DEF Deactivate, Begin, WebhookInv, WebhookTypeOK
      <4> QED BY <1>0, <4>2, <4>3, <4>4 DEF Excused
    <3>5. CASE \E g \in Hooks : deleteWebhook(c, g)
      BY <2>3, <3>5, RowTyped DEF deleteWebhook, stored, WebhookInv, WebhookTypeOK
    <3>6. CASE \/ CreateCheck(c) \/ CallCrash(c)
               \/ \E g \in Hooks : RotateRead(c, g) \/ ActivateCheck(c, g)
      BY <2>3, <3>6 DEF CreateCheck, CallCrash, RotateRead, ActivateCheck, rows
    <3> QED BY <1>3, <3>1, <3>2, <3>3, <3>4, <3>5, <3>6 DEF Manage
  <2> QED BY <1>1, <2>2, <2>3 DEF CountsBounded
<1>4. ASSUME NEW d \in Dispatches, dispatchWebhooks(d) PROVE DisabledInv'
  <2>1. hooks' = hooks /\ failed' = failed
    BY <1>4 DEF dispatchWebhooks, history
  <2>2. ASSUME NEW x \in Dispatches, NEW h \in Hooks, delivery'[<<x, h>>] \in InFlight
        PROVE  delivery'[<<x, h>>].failureCount <= failed'[h] /\ delivery'[<<x, h>>].isActive
    <3>1. CASE delivery'[<<x, h>>] = delivery[<<x, h>>]
      BY <1>2, <2>2, <3>1
    <3>2. CASE /\ h \in stored /\ hooks[h].isActive
               /\ delivery'[<<x, h>>] = [state |-> "in_flight", failureCount |-> hooks[h].failureCount,
                                         isActive |-> hooks[h].isActive]
      BY <2>1, <3>2 DEF CountsBounded
    <3> QED BY <1>4, <3>1, <3>2, Dispatched
  <2> QED BY <1>1, <2>1, <2>2 DEF CountsBounded, FlightsBounded
<1>5. ASSUME NEW d \in Dispatches, NEW h \in Hooks, Settle(d, h) PROVE FlightsBounded'
  <2>1. Settled \notin InFlight
    BY DEF Settled, InFlight
  <2> QED BY <1>2, <1>5, <2>1, Settling DEF FlightsBounded
<1>6. ASSUME NEW d \in Dispatches, NEW h \in Hooks, DeliveryFails(d, h) PROVE DisabledInv'
  <2>1. delivery[<<d, h>>] \in InFlight
    BY <1>6, Settling DEF DeliveryFails
  <2> DEFINE n == delivery[<<d, h>>].failureCount
  <2>2. n \in Nat /\ n <= failed[h] /\ delivery[<<d, h>>].isActive
    BY <2>1 DEF InFlight, FlightsBounded
  <2>3. failed'[h] = failed[h] + 1
    BY <1>0, <1>6, FailureWritten
  <2>4. CASE h \in stored
    <3>1. hooks'[h].failureCount = n + 1 /\ (hooks'[h].isActive \/ n + 1 >= FailureLimit)
      BY <1>6, <2>2, <2>4, FailureWritten
    <3>2. hooks'[h].failureCount <= failed'[h] /\ (hooks'[h].isActive \/ failed'[h] >= FailureLimit)
      BY <1>0, <2>2, <2>3, <3>1, WebhookConstants
    <3>3. \A g \in Hooks : g # h => hooks'[g] = hooks[g]
      BY <1>6, FailureWritten
    <3> QED BY <1>1, <1>5, <1>6, <3>2, <3>3 DEF DeliveryFails, CountsBounded, Excused
  <2>5. CASE h \notin stored
    BY <1>1, <1>5, <1>6, <2>5, FailureWritten DEF DeliveryFails, CountsBounded
  <2> QED BY <2>4, <2>5
<1>7. ASSUME NEW d \in Dispatches, NEW h \in Hooks, DeliverySucceeds(d, h) PROVE DisabledInv'
  <2>1. \A g \in Hooks : g # h \/ h \notin stored => hooks'[g] = hooks[g]
    BY <1>7, SuccessWritten
  <2>2. h \in stored => hooks'[h].failureCount = 0 /\ hooks'[h].isActive = hooks[h].isActive
    BY <1>7, SuccessWritten
  <2>3. h \in stored => hooks'[h].failureCount <= failed'[h] /\ (hooks'[h].isActive \/ Excused(h)')
    BY <1>0, <2>2 DEF CountsBounded
  <2> QED BY <1>1, <1>5, <1>7, <2>1, <2>3 DEF DeliverySucceeds, CountsBounded
<1>8. ASSUME NEW d \in Dispatches, NEW h \in Hooks, DeliveryLost(d, h) PROVE DisabledInv'
  BY <1>1, <1>5, <1>8 DEF DeliveryLost, CountsBounded
<1>9. CASE WebhookTick \/ UNCHANGED webhookVars
  BY <1>1, <1>2, <1>9 DEF WebhookTick, webhookVars, rows, CountsBounded, FlightsBounded
<1> QED BY <1>3, <1>4, <1>6, <1>7, <1>8, <1>9 DEF WebhookNext, Deliver

\* The count of a webhook never exceeds the deliveries that failed, however late and in
\* whatever order they answer: one that is off has failed often enough or was switched
\* off by its agent.
THEOREM DisabledCorrect == WebhookSpec => []NotDisabledEarly
<1>1. WebhookInit => DisabledInv
  BY DEF WebhookInit, DisabledInv, CountsBounded, FlightsBounded, stored, NoRow, Idle, InFlight
<1>2. DisabledInv => NotDisabledEarly
  BY DEF DisabledInv, CountsBounded, NotDisabledEarly, Excused, stored
<1> QED BY <1>1, <1>2, DisabledStep, WebhookInitially, WebhookStep, PTL DEF WebhookSpec

--------------------------------------------------------------------------------
(* The grace window *)

\* A row that has been registered is never absent again.
LEMMA NeverAbsentAgain ==
  ASSUME WebhookInv, [WebhookNext]_webhookVars, NEW h \in Hooks, hooks[h] # NoRow
  PROVE  hooks'[h] # NoRow
<1>1. CASE hooks'[h] = hooks[h]
  BY <1>1
<1>2. CASE h \in stored'
  BY <1>2 DEF stored, NoRow
<1>3. CASE \E c \in Calls, g \in Hooks : deleteWebhook(c, g)
  BY <1>3 DEF deleteWebhook, WebhookInv, WebhookTypeOK, NoRow, Gone
<1>4. CASE \E c \in Calls : CreateInsert(c) \/ RotateWrite(c) \/ ActivateWrite(c)
                            \/ \E g \in Hooks : Deactivate(c, g)
  <2>1. ASSUME NEW g \in Hooks, hooks'[g].state = "stored", \A x \in Hooks : x # g => hooks'[x] = hooks[x]
        PROVE  hooks'[h] # NoRow
    BY <2>1 DEF NoRow
  <2>2. CASE \E c \in Calls : CreateInsert(c)
    BY <1>1, <2>1, <2>2, Inserted DEF CreateInsert
  <2>3. CASE \E c \in Calls : RotateWrite(c)
    BY <1>1, <2>1, <2>3, Rotated
  <2>4. CASE \E g \in stored : hooks' = [hooks EXCEPT ![g].isActive = FALSE]
                              \/ hooks' = [hooks EXCEPT ![g].isActive = TRUE]
    <3>1. PICK g \in stored : hooks' = [hooks EXCEPT ![g].isActive = FALSE]
                             \/ hooks' = [hooks EXCEPT ![g].isActive = TRUE]
      BY <2>4
    <3>2. g \in Hooks /\ hooks[g].failureCount \in Nat
      BY RowTyped DEF stored, Row
    <3>3. hooks'[g].state = "stored" /\ \A x \in Hooks : x # g => hooks'[x] = hooks[x]
      BY <3>1, <3>2, Flagged
    <3> QED BY <2>1, <3>2, <3>3
  <2>5. CASE \E c \in Calls : ActivateWrite(c) \/ \E g \in Hooks : Deactivate(c, g)
    BY <1>1, <2>4, <2>5 DEF ActivateWrite, Deactivate
  <2> QED BY <1>4, <2>2, <2>3, <2>5
<1>5. CASE \E d \in Dispatches, g \in Hooks : DeliveryFails(d, g) \/ DeliverySucceeds(d, g)
  <2>1. PICK d \in Dispatches, g \in Hooks : DeliveryFails(d, g) \/ DeliverySucceeds(d, g)
    BY <1>5
  <2>2. /\ \A x \in Hooks : x # g \/ g \notin stored => hooks'[x] = hooks[x]
        /\ g \in stored => hooks'[g].state = "stored"
    BY <2>1, FailureWritten, SuccessWritten
  <2> QED BY <1>1, <2>2 DEF NoRow
<1> QED BY <1>1, <1>2, <1>3, <1>4, <1>5
        DEF WebhookNext, Manage, Deliver, WebhookTick, CreateCheck, RotateRead, ActivateCheck,
            CallCrash, dispatchWebhooks, DeliveryLost, rows, webhookVars

\* A rotation is under way from its read to its write.
LEMMA RotatingMoves ==
  ASSUME WebhookInv, [WebhookNext]_webhookVars, NEW c \in Calls, NEW h \in Hooks, c \in Rotating(h)'
  PROVE  (c \in Rotating(h) /\ seen'[c] = seen[c]) \/ RotateRead(c, h)
<1>0. op'[c] = "rotate" /\ pc'[c] = "write" /\ hook'[c] = h
  BY DEF Rotating
<1>1. CASE op'[c] = op[c] /\ pc'[c] = pc[c] /\ hook'[c] = hook[c] /\ seen'[c] = seen[c]
  BY <1>0, <1>1 DEF Rotating
<1>2. ASSUME NEW x \in Calls,
             CreateInsert(x) \/ RotateWrite(x) \/ ActivateWrite(x) \/ CallCrash(x)
      PROVE  (c \in Rotating(h) /\ seen'[c] = seen[c]) \/ RotateRead(c, h)
  <2>1. pc'[x] # "write" /\ \A y \in Calls \ {x} : op'[y] = op[y] /\ pc'[y] = pc[y]
                                                   /\ hook'[y] = hook[y] /\ seen'[y] = seen[y]
    BY <1>2 DEF CreateInsert, RotateWrite, ActivateWrite, CallCrash, Goto, WebhookInv, WebhookTypeOK
  <2> QED BY <1>0, <1>1, <2>1
<1>3. ASSUME NEW x \in Calls,
             CreateCheck(x) \/ \E g \in Hooks : RotateRead(x, g) \/ ActivateCheck(x, g)
                                                \/ Deactivate(x, g) \/ deleteWebhook(x, g)
      PROVE  (c \in Rotating(h) /\ seen'[c] = seen[c]) \/ RotateRead(c, h)
  <2>1. CASE x = c
    <3>1. PICK g \in Hooks : RotateRead(c, g)
      BY <1>0, <1>3, <2>1 DEF CreateCheck, ActivateCheck, Deactivate, deleteWebhook, Begin,
                              WebhookInv, WebhookTypeOK
    <3>2. g = h
      BY <1>0, <3>1 DEF RotateRead, Begin, WebhookInv, WebhookTypeOK
    <3> QED BY <3>1, <3>2
  <2>2. CASE x # c
    BY <1>1, <1>3, <2>2, Beginnings DEF Begin, WebhookInv, WebhookTypeOK
  <2> QED BY <2>1, <2>2
<1>4. CASE \/ \E d \in Dispatches : Deliver(d)
           \/ WebhookTick
           \/ UNCHANGED webhookVars
  BY <1>1, <1>4 DEF Deliver, dispatchWebhooks, DeliveryFails, DeliverySucceeds, DeliveryLost,
                    WebhookTick, webhookVars, calls
<1> QED BY <1>2, <1>3, <1>4 DEF WebhookNext, Manage

LEMMA OverlapsStay ==
  WebhookInv /\ [WebhookNext]_webhookVars => overlapped \subseteq overlapped'
BY DEF WebhookNext, Manage, Deliver, WebhookTick, CreateCheck, CreateInsert, RotateRead, RotateWrite,
       ActivateCheck, ActivateWrite, Deactivate, deleteWebhook, CallCrash, dispatchWebhooks,
       DeliveryFails, DeliverySucceeds, DeliveryLost, history, webhookVars

\* A rotation that is alone has read what the row still holds.
GraceInv ==
  \A h \in Hooks, c \in Calls : c \in Rotating(h) /\ h \notin overlapped =>
    /\ Rotating(h) = {c}
    /\ hooks[h] # NoRow
    /\ h \in stored => seen[c] = hooks[h].secrets

LEMMA GraceStep == WebhookInv /\ GraceInv /\ [WebhookNext]_webhookVars => GraceInv'
<1> SUFFICES ASSUME WebhookInv, GraceInv, [WebhookNext]_webhookVars,
                    NEW h \in Hooks, NEW c \in Calls, c \in Rotating(h)', h \notin overlapped'
             PROVE  /\ Rotating(h)' = {c}
                    /\ hooks'[h] # NoRow
                    /\ h \in stored' => seen'[c] = hooks'[h].secrets
  BY DEF GraceInv
<1>1. h \notin overlapped /\ Rotating(h) \subseteq Calls /\ Rotating(h)' \subseteq Calls
  BY OverlapsStay DEF Rotating
<1>2. ASSUME NEW x \in Calls, RotateRead(x, h)
      PROVE  /\ Rotating(h) = {} /\ h \in stored /\ hooks' = hooks
             /\ x \notin Rotating(h) /\ seen'[x] = hooks[h].secrets
             /\ \A y \in Calls \ {x} : y \notin Rotating(h)'
  <2>1. Rotating(h) = {}
    BY <1>2 DEF RotateRead
  <2>2. h \in stored /\ hooks' = hooks /\ seen'[x] = hooks[h].secrets
        /\ \A y \in Calls \ {x} : op'[y] = op[y] /\ pc'[y] = pc[y] /\ hook'[y] = hook[y]
    BY <1>2 DEF RotateRead, Begin, rows, WebhookInv, WebhookTypeOK
  <2> QED BY <2>1, <2>2 DEF Rotating
<1>3. CASE RotateRead(c, h)
  <2>1. Rotating(h)' = {c}
    BY <1>1, <1>2, <1>3
  <2>2. h \in stored /\ hooks' = hooks /\ seen'[c] = hooks[h].secrets
    BY <1>2, <1>3
  <2> QED BY <2>1, <2>2 DEF stored, NoRow
<1>4. CASE c \in Rotating(h) /\ seen'[c] = seen[c]
  <2>1. Rotating(h) = {c} /\ hooks[h] # NoRow /\ (h \in stored => seen[c] = hooks[h].secrets)
    BY <1>1, <1>4 DEF GraceInv
  <2>2. \A x \in Rotating(h)' : x = c
    BY <1>1, <1>2, <2>1, RotatingMoves
  <2>3. hooks'[h] # NoRow
    BY <2>1, NeverAbsentAgain
  <2>4. ASSUME NEW x \in Calls, RotateWrite(x), hook[x] = h PROVE FALSE
    <3>1. x = c
      BY <2>1, <2>4 DEF RotateWrite, Rotating
    <3> QED BY <2>4, <3>1 DEF RotateWrite, Goto, Rotating, WebhookInv, WebhookTypeOK
  <2>5. h \in stored' => seen'[c] = hooks'[h].secrets
    BY <1>4, <2>1, <2>4, RowMoves
  <2> QED BY <2>2, <2>3, <2>5
<1> QED BY <1>3, <1>4, RotatingMoves

LEMMA GraceGiven ==
  ASSUME WebhookInv, GraceInv, [WebhookNext]_webhookVars,
         NEW h \in stored, h \notin overlapped', h \in stored', NEW s \in current(hooks[h])
  PROVE  \/ s \in hooks'[h].secrets
         \/ \E c \in Rotating(h) : \E at \in since[c]..now :
              [s EXCEPT !.expiresAt = at + Grace] \in hooks'[h].secrets
<1>1. h \in Hooks /\ h \notin overlapped /\ hooks[h] # NoRow /\ s \in hooks[h].secrets
      /\ s.expiresAt = None
  BY OverlapsStay DEF stored, NoRow, current
<1>2. CASE hooks'[h].secrets = hooks[h].secrets
  BY <1>1, <1>2
<1>3. CASE \E c \in Calls : RotateWrite(c) /\ hook[c] = h
  <2>1. PICK c \in Calls : RotateWrite(c) /\ hook[c] = h
    BY <1>3
  <2>2. c \in Rotating(h)
    BY <2>1 DEF RotateWrite, Rotating
  <2>3. seen[c] = hooks[h].secrets
    BY <1>1, <2>2 DEF GraceInv
  <2>4. \A at \in since[c]..now :
          [s EXCEPT !.expiresAt = at + Grace] \in retireCurrentSecret(seen[c], at + Grace)
    BY <1>1, <2>3 DEF retireCurrentSecret
  <2> QED BY <2>1, <2>2, <2>4, Rotated
<1> QED BY <1>1, <1>2, <1>3, RowMoves

\* As long as the rotations of a webhook do not overlap, the secret its receiver uses is
\* still in the row, for a grace window that opens while its rotation is under way at
\* least.
THEOREM GraceCorrect == WebhookSpec => GraceKept
<1>1. WebhookInit => GraceInv
  BY DEF WebhookInit, GraceInv, Rotating
<1>2. WebhookInv /\ GraceInv /\ [WebhookNext]_webhookVars =>
        [\A h \in stored : h \notin overlapped' /\ h \in stored' =>
           \A s \in current(hooks[h]) :
             \/ s \in hooks'[h].secrets
             \/ \E c \in Rotating(h) : \E at \in since[c]..now :
                  [s EXCEPT !.expiresAt = at + Grace] \in hooks'[h].secrets]_webhookVars
  BY GraceGiven
<1> QED BY <1>1, <1>2, GraceStep, WebhookInitially, WebhookStep, PTL DEF WebhookSpec, GraceKept

--------------------------------------------------------------------------------
(* The project's hub: what a step keeps *)

IsMade(r) == req[r] # Unmade

\* Whom or what a request names.
RequestsName ==
  \A r \in Requests : IsMade(r) =>
    IF req[r].op = "report" THEN req[r].of \in Requests ELSE req[r].of \in Agents

\* A push that is under way has attempts left.
AttemptsLeft ==
  \A r \in Requests : push[r].state = "sending" => push[r].to \in Requests /\ push[r].tried < MaxAttempts

\* The stored link was given to the lead, and once there is one there always is.
LinkIsGiven ==
  /\ share # Unset => At(share, "share", "done")
  /\ \A r \in Requests : At(r, "share", "done") => share # Unset

\* The subscription of a task holds as long as no stream of it was closed.
Subscribed ==
  \A s \in Streams : stream[s] # NoStream =>
    \/ stream[s].task \in channels
    \/ \E o \in Streams : stream[o].state = "closed" /\ stream[o].task = stream[s].task

HubInv == HubTypeOK /\ RequestsName /\ AttemptsLeft /\ LinkIsGiven /\ Subscribed

LEMMA HubInitially == HubConstants /\ HubInit => HubInv
<1> SUFFICES ASSUME HubConstants, HubInit PROVE HubInv
  OBVIOUS
<1> USE DEF HubConstants, HubInit
<1>1. HubTypeOK BY DEF HubTypeOK, Participants, Links, Callbacks
<1>2. \A r \in Requests : req[r] = Unmade /\ push[r].state = "none" BY DEF NoPush
<1> QED BY <1>1, <1>2 DEF HubInv, RequestsName, IsMade, AttemptsLeft, LinkIsGiven, At, Subscribed

ReqTyped == req \in [Requests -> Request \cup {Unmade}]

LEMMA UnmadeIsNone == Unmade \notin Request
BY DEF Unmade, Request, Steps

LEMMA Asks ==
  ASSUME ReqTyped, NEW r \in Requests, NEW kind \in Ops, NEW of \in Agents \cup Requests, NEW step \in Steps,
         NEW saw \in Requests \cup {Unset},
         req[r] = Unmade, req' = [req EXCEPT ![r] = [op |-> kind, step |-> step, of |-> of, saw |-> saw]]
  PROVE  /\ ReqTyped' /\ ~IsMade(r) /\ IsMade(r)'
         /\ req'[r].op = kind /\ req'[r].step = step /\ req'[r].of = of
         /\ \A o \in Requests \ {r} : req'[o] = req[o]
<1> DEFINE x == [op |-> kind, step |-> step, of |-> of, saw |-> saw]
<1>1. x \in Request /\ x.op = kind /\ x.step = step /\ x.of = of BY DEF Request
<1>2. req' = [req EXCEPT ![r] = x] OBVIOUS
<1> HIDE DEF x
<1> QED BY <1>1, <1>2, UnmadeIsNone DEF ReqTyped, IsMade

LEMMA GoesTo ==
  ASSUME ReqTyped, NEW r \in Requests, IsMade(r), NEW step \in Steps, Go(r, step)
  PROVE  /\ ReqTyped' /\ IsMade(r)'
         /\ req'[r].op = req[r].op /\ req'[r].step = step /\ req'[r].of = req[r].of
         /\ \A o \in Requests \ {r} : req'[o] = req[o]
<1> DEFINE x == [req[r] EXCEPT !.step = step]
<1>1. req[r] \in Request BY DEF ReqTyped, IsMade
<1>2. x \in Request /\ x.op = req[r].op /\ x.step = step /\ x.of = req[r].of BY <1>1 DEF Request
<1>3. req' = [req EXCEPT ![r] = x] BY DEF Go
<1> HIDE DEF x
<1> QED BY <1>2, <1>3, UnmadeIsNone DEF ReqTyped, IsMade

\* What a step leaves to be shown that changes neither link nor streams.
RestWell ==
  /\ members' \in Participants /\ callback' \in Callbacks
  /\ push' \in [Requests -> Push \cup {NoPush}] /\ AttemptsLeft'
  /\ received' \subseteq Events /\ heard' \in [Streams -> SUBSET Requests]

LEMMA AskStep ==
  ASSUME HubInv, RestWell, UNCHANGED <<share, channels, stream>>,
         NEW r \in Requests, NEW kind \in Ops, NEW step \in Steps, NEW of,
         NEW saw \in Requests \cup {Unset},
         req[r] = Unmade, req' = [req EXCEPT ![r] = [op |-> kind, step |-> step, of |-> of, saw |-> saw]],
         IF kind = "report" THEN of \in Requests ELSE of \in Agents, kind = "share" => step # "done"
  PROVE  HubInv'
<1> USE DEF HubInv
<1>1. /\ ReqTyped' /\ ~IsMade(r) /\ IsMade(r)'
      /\ req'[r].op = kind /\ req'[r].step = step /\ req'[r].of = of
      /\ \A o \in Requests \ {r} : req'[o] = req[o]
  BY Asks DEF HubTypeOK, ReqTyped
<1>2. HubTypeOK' BY <1>1 DEF HubTypeOK, RestWell, ReqTyped
<1>3. RequestsName' BY <1>1 DEF RequestsName, IsMade
<1>4. LinkIsGiven' BY <1>1 DEF LinkIsGiven, At, IsMade, HubTypeOK, Links
<1>5. Subscribed' BY DEF Subscribed
<1> QED BY <1>2, <1>3, <1>4, <1>5 DEF RestWell

LEMMA GoStep ==
  ASSUME HubInv, RestWell, UNCHANGED <<share, channels, stream>>,
         NEW r \in Requests, IsMade(r), NEW step \in Steps, Go(r, step),
         req[r].op = "share" => req[r].step # "done" /\ step # "done"
  PROVE  HubInv'
<1> USE DEF HubInv
<1>1. /\ ReqTyped' /\ IsMade(r)'
      /\ req'[r].op = req[r].op /\ req'[r].step = step /\ req'[r].of = req[r].of
      /\ \A o \in Requests \ {r} : req'[o] = req[o]
  BY GoesTo DEF HubTypeOK, ReqTyped
<1>2. HubTypeOK' BY <1>1 DEF HubTypeOK, RestWell, ReqTyped
<1>3. RequestsName' BY <1>1 DEF RequestsName, IsMade
<1>4. LinkIsGiven' BY <1>1 DEF LinkIsGiven, At, IsMade, HubTypeOK, Links
<1>5. Subscribed' BY DEF Subscribed
<1> QED BY <1>2, <1>3, <1>4, <1>5 DEF RestWell

\* The link changes hands only by the rotation that is given the new one.
LEMMA LinkStep ==
  ASSUME HubConstants, HubInv, NEW r \in Requests, ShareInsert(r), share = req[r].saw
  PROVE  HubInv'
<1> USE DEF HubInv
<1>1. IsMade(r) /\ req[r].op = "share" BY DEF ShareInsert, At, IsMade
<1>2. share' = r /\ Go(r, "done") /\ UNCHANGED <<members, callback, push, received, channels, stream, heard>>
  BY DEF ShareInsert
<1>3. /\ ReqTyped' /\ IsMade(r)'
      /\ req'[r].op = req[r].op /\ req'[r].step = "done" /\ req'[r].of = req[r].of
      /\ \A o \in Requests \ {r} : req'[o] = req[o]
  BY <1>1, <1>2, GoesTo DEF HubTypeOK, ReqTyped, Steps
<1>4. HubTypeOK' BY <1>2, <1>3 DEF HubTypeOK, ReqTyped, Links
<1>5. RequestsName' BY <1>1, <1>3 DEF RequestsName, IsMade
<1>6. LinkIsGiven' BY <1>1, <1>2, <1>3 DEF LinkIsGiven, At, IsMade, HubConstants
<1>7. Subscribed' /\ AttemptsLeft' BY <1>2 DEF Subscribed, AttemptsLeft
<1> QED BY <1>4, <1>5, <1>6, <1>7

\* A push moves, and nothing else.
LEMMA PushStep ==
  ASSUME HubInv, RestWell, UNCHANGED <<members, share, callback, req, channels, stream, heard>>
  PROVE  HubInv'
BY DEF HubInv, HubTypeOK, RestWell, RequestsName, IsMade, LinkIsGiven, At, Subscribed

LEMMA StreamStep ==
  ASSUME HubInv, UNCHANGED <<members, share, callback, req, push, received, heard>>,
         stream' \in [Streams -> Stream \cup {NoStream}], channels' \in SUBSET Requests, Subscribed'
  PROVE  HubInv'
BY DEF HubInv, HubTypeOK, RequestsName, IsMade, AttemptsLeft, LinkIsGiven, At

LEMMA NoPushIsNone == NoPush.state = "none" /\ NoStream.state = "none"
BY DEF NoPush, NoStream

\* A push that is under way is made, and has a receiver.
LEMMA Sending ==
  ASSUME HubInv, NEW r \in Requests, push[r].state = "sending"
  PROVE  push[r] \in Push /\ push[r].to \in Requests /\ push[r].tried \in Nat /\ push[r].tried < MaxAttempts
BY NoPushIsNone DEF HubInv, HubTypeOK, AttemptsLeft, Push

LEMMA PushMoves ==
  ASSUME HubConstants, HubInv, NEW r \in Requests, SendOut(r)
  PROVE  HubInv'
<1>1. push[r].state = "sending" BY DEF SendOut, Delivered, AttemptFails, PushLost
<1>2. push[r] \in Push /\ push[r].to \in Requests /\ push[r].tried \in Nat /\ push[r].tried < MaxAttempts
  BY <1>1, Sending
<1>3. UNCHANGED <<members, share, callback, req, channels, stream, heard>>
  BY DEF SendOut, Delivered, AttemptFails, PushLost
<1>4. received' \subseteq Events
  <2>1. [of |-> r, id |-> eventId(r), to |-> push[r].to] \in Events
    BY <1>2 DEF Events, eventId
  <2> QED BY <2>1 DEF SendOut, Delivered, AttemptFails, PushLost, Receive, HubInv, HubTypeOK
<1>5. ASSUME NEW state \in {"sending", "delivered", "failed"}, Attempted(r, state),
             state = "sending" => push[r].tried + 1 < MaxAttempts
      PROVE  push' \in [Requests -> Push \cup {NoPush}] /\ AttemptsLeft'
  <2> DEFINE n == push[r].tried + 1
             x == [push[r] EXCEPT !.tried = n, !.state = state]
  <2>1. n \in 0..MaxAttempts /\ (state = "sending" => n < MaxAttempts) BY <1>2, <1>5 DEF HubConstants
  <2>2. push' = [push EXCEPT ![r] = x]
    <3>1. push' = [push EXCEPT ![r] = [push[r] EXCEPT !.tried = push[r].tried + 1, !.state = state]]
      BY <1>5, Zenon DEF Attempted
    <3> QED BY <3>1
  <2> HIDE DEF n
  <2>3. x \in Push /\ x.to = push[r].to /\ x.state = state /\ x.tried = n
    BY <1>2, <2>1 DEF Push
  <2> HIDE DEF x
  <2> QED BY <1>2, <2>1, <2>2, <2>3 DEF HubInv, HubTypeOK, AttemptsLeft
<1>6. ASSUME PushLost(r)
      PROVE  push' \in [Requests -> Push \cup {NoPush}] /\ AttemptsLeft'
  <2> DEFINE x == [push[r] EXCEPT !.state = "lost"]
  <2>1. x \in Push /\ x.state = "lost" BY <1>2 DEF Push
  <2>2. push' = [push EXCEPT ![r] = x] BY <1>6 DEF PushLost
  <2> HIDE DEF x
  <2> QED BY <1>2, <2>1, <2>2 DEF HubInv, HubTypeOK, AttemptsLeft
<1>7. push' \in [Requests -> Push \cup {NoPush}] /\ AttemptsLeft'
  <2>1. CASE Delivered(r) BY <1>5, <2>1 DEF Delivered
  <2>2. CASE AttemptFails(r) BY <1>5, <2>2 DEF AttemptFails
  <2> QED BY <1>6, <2>1, <2>2 DEF SendOut
<1> QED BY <1>3, <1>4, <1>7, PushStep DEF RestWell, HubInv, HubTypeOK

LEMMA RestIsWell ==
  ASSUME HubInv, UNCHANGED <<push, received, heard>>, members' \in Participants, callback' \in Callbacks
  PROVE  RestWell
BY DEF HubInv, HubTypeOK, RestWell, AttemptsLeft

LEMMA AskedStep ==
  ASSUME HubConstants, HubInv, NEW r \in Requests, Ask(r)
  PROVE  HubInv'
<1>1. members \in Participants /\ callback \in Callbacks /\ members \subseteq Agents
      /\ share \in Requests \cup {Unset}
  BY DEF HubInv, HubTypeOK, Participants, Links
<1>2. CASE Share(r)
  BY <1>1, <1>2, AskStep, RestIsWell DEF Share, Ops, Steps, HubConstants
<1>3. ASSUME NEW a \in Agents, Invite(r, a) PROVE HubInv'
  <2>1. \E step \in {"done", "insert"} : Make(r, "invite", a, step) BY <1>3 DEF Invite
  <2> QED BY <1>1, <1>3, <2>1, AskStep, RestIsWell DEF Invite, Make, Ops, Steps
<1>4. ASSUME NEW a \in Agents, Register(r, a) PROVE HubInv'
  BY <1>1, <1>4, AskStep, RestIsWell DEF Register, Make, Ops, Steps
<1>5. ASSUME NEW a \in Agents, Unregister(r, a) PROVE HubInv'
  <2>1. \E step \in {"done", "refused"} : Make(r, "unregister", a, step) BY <1>5 DEF Unregister
  <2>2. callback' \in Callbacks BY <1>1, <1>5 DEF Unregister, Callbacks
  <2> QED BY <1>1, <1>5, <2>1, <2>2, AskStep, RestIsWell DEF Unregister, Make, Ops, Steps
<1>6. ASSUME NEW a \in Agents, Assign(r, a) PROVE HubInv'
  BY <1>1, <1>6, AskStep, RestIsWell DEF Assign, Make, Ops, Steps
<1>7. ASSUME NEW t \in Requests, Report(r, t) PROVE HubInv'
  BY <1>1, <1>7, AskStep, RestIsWell DEF Report, Make, Ops, Steps
<1> QED BY <1>2, <1>3, <1>4, <1>5, <1>6, <1>7 DEF Ask

LEMMA ServedStep ==
  ASSUME HubConstants, HubInv, NEW r \in Requests, Serve(r)
  PROVE  HubInv'
<1>1. members \in Participants /\ callback \in Callbacks BY DEF HubInv, HubTypeOK
<1>2. CASE InviteInsert(r)
  <2>1. IsMade(r) /\ req[r].op = "invite" BY <1>2 DEF InviteInsert, At, IsMade
  <2>2. members' \in Participants
    BY <1>1, <1>2, <2>1 DEF InviteInsert, Participants, HubInv, RequestsName
  <2>3. \E step \in {"failed", "done"} : Go(r, step) BY <1>2 DEF InviteInsert
  <2> QED BY <1>1, <1>2, <2>1, <2>2, <2>3, GoStep, RestIsWell DEF InviteInsert, Steps
<1>3. CASE ShareDelete(r)
  BY <1>1, <1>3, GoStep, RestIsWell DEF ShareDelete, At, IsMade, Steps
<1>4. CASE ShareInsert(r)
  <2>1. CASE share = req[r].saw BY <1>4, <2>1, LinkStep
  <2>2. CASE share # req[r].saw
    BY <1>1, <1>4, <2>2, GoStep, RestIsWell DEF ShareInsert, At, IsMade, Steps
  <2> QED BY <2>1, <2>2
<1>5. CASE ShareLost(r)
  BY <1>1, <1>5, GoStep, RestIsWell DEF ShareLost, At, IsMade, Steps
<1>6. CASE Inspected(r)
  <2>1. IsMade(r) /\ req[r].op = "register" BY <1>6 DEF Inspected, At, IsMade
  <2>2. \E step \in {"write", "refused"} : Go(r, step) BY <1>6 DEF Inspected
  <2> QED BY <1>1, <1>6, <2>1, <2>2, GoStep, RestIsWell DEF Inspected, Steps
<1>7. CASE RegisterWrite(r)
  <2>1. IsMade(r) /\ req[r].op = "register" BY <1>7 DEF RegisterWrite, At, IsMade
  <2>2. callback' \in Callbacks BY <1>1, <1>7 DEF RegisterWrite, Callbacks
  <2> QED BY <1>1, <1>7, <2>1, <2>2, GoStep, RestIsWell DEF RegisterWrite, Steps
<1>8. CASE Publish(r)
  <2>1. IsMade(r) /\ req[r].op = "report" BY <1>8 DEF Publish, At, IsMade
  <2>2. heard' \in [Streams -> SUBSET Requests] BY <1>8 DEF Publish, HubInv, HubTypeOK
  <2>3. RestWell BY <1>1, <1>8, <2>2 DEF Publish, RestWell, HubInv, HubTypeOK, AttemptsLeft
  <2> QED BY <1>8, <2>1, <2>3, GoStep DEF Publish, Steps
<1>9. CASE Notify(r)
  <2>1. IsMade(r) /\ req[r].op \in {"assign", "report"} BY <1>9 DEF Notify, At, IsMade
  <2>2. Party(r) \in Agents BY <2>1 DEF Party, HubInv, RequestsName, HubConstants
  <2>3. callback[Party(r)] \in Requests \cup {Unset} BY <1>1, <2>2 DEF Callbacks
  <2>4. CASE callback[Party(r)] = Unset
    <3>1. push' = push BY <1>9, <2>4 DEF Notify
    <3> QED BY <1>1, <1>9, <2>1, <3>1, GoStep, RestIsWell DEF Notify, Steps
  <2>5. CASE callback[Party(r)] # Unset
    <3> DEFINE p == [to |-> callback[Party(r)], state |-> "sending", tried |-> 0]
    <3>1. p \in Push /\ p.state = "sending" /\ p.to \in Requests /\ p.tried < MaxAttempts
      BY <2>3, <2>5 DEF Push, HubConstants
    <3>2. push' = [push EXCEPT ![r] = p] BY <1>9, <2>5 DEF Notify
    <3> HIDE DEF p
    <3>3. push' \in [Requests -> Push \cup {NoPush}] /\ AttemptsLeft'
      BY <3>1, <3>2 DEF HubInv, HubTypeOK, AttemptsLeft
    <3>4. RestWell BY <1>1, <1>9, <3>3 DEF Notify, RestWell, HubInv, HubTypeOK
    <3> QED BY <1>9, <2>1, <3>4, GoStep DEF Notify, Steps
  <2> QED BY <2>4, <2>5
<1>10. CASE NotifyFails(r)
  BY <1>1, <1>10, GoStep, RestIsWell DEF NotifyFails, At, IsMade, Steps
<1> QED BY <1>2, <1>3, <1>4, <1>5, <1>6, <1>7, <1>8, <1>9, <1>10 DEF Serve

LEMMA WatchedStep ==
  ASSUME HubConstants, HubInv, NEW s \in Streams, Watch(s)
  PROVE  HubInv'
<1> USE DEF HubInv
<1>1. stream \in [Streams -> Stream \cup {NoStream}] /\ channels \in SUBSET Requests
  BY DEF HubTypeOK
<1>2. ASSUME NEW t \in Requests, StreamOpen(s, t) PROVE HubInv'
  <2> DEFINE x == [task |-> t, state |-> "subscribing"]
  <2>1. x \in Stream /\ x.task = t /\ x.state = "subscribing" BY DEF Stream
  <2>2. stream' = [stream EXCEPT ![s] = x] /\ channels' = channels \cup {t} /\ stream[s] = NoStream
    BY <1>2 DEF StreamOpen
  <2> HIDE DEF x
  <2>3. Subscribed' BY <1>1, <2>1, <2>2, NoPushIsNone DEF Subscribed
  <2> QED BY <1>1, <1>2, <2>1, <2>2, <2>3, StreamStep DEF StreamOpen
<1>3. ASSUME stream[s].state \in {"subscribing", "aborted", "listening"},
             NEW state \in {"aborted", "listening", "stuck", "closed"},
             stream' = [stream EXCEPT ![s].state = state],
             channels' = IF state = "closed" THEN channels \ {stream[s].task} ELSE channels
      PROVE  stream' \in [Streams -> Stream \cup {NoStream}] /\ channels' \in SUBSET Requests /\ Subscribed'
  <2> DEFINE x == [stream[s] EXCEPT !.state = state]
  <2>1. stream[s] \in Stream BY <1>1, <1>3, NoPushIsNone
  <2>2. x \in Stream /\ x.task = stream[s].task /\ x.state = state BY <2>1 DEF Stream
  <2>3. stream' = [stream EXCEPT ![s] = x] BY <1>3
  <2> HIDE DEF x
  <2>4. stream' \in [Streams -> Stream \cup {NoStream}] /\ channels' \in SUBSET Requests
    BY <1>1, <1>3, <2>2, <2>3
  <2>5. /\ stream'[s].task = stream[s].task /\ stream'[s].state = state /\ stream[s].state # "closed"
        /\ stream[s] # NoStream
        /\ \A o \in Streams \ {s} : stream'[o] = stream[o]
    BY <1>1, <1>3, <2>2, <2>3, NoPushIsNone
  <2>6. ASSUME NEW o \in Streams, stream'[o] # NoStream
        PROVE  \/ stream'[o].task \in channels'
               \/ \E q \in Streams : stream'[q].state = "closed" /\ stream'[q].task = stream'[o].task
    <3>1. stream[o] # NoStream /\ stream'[o].task = stream[o].task BY <2>5, <2>6
    <3>2. CASE \E q \in Streams : stream[q].state = "closed" /\ stream[q].task = stream[o].task
      BY <2>5, <3>1, <3>2
    <3>3. CASE stream[o].task \in channels
      BY <1>3, <2>5, <3>1, <3>3
    <3> QED BY <3>1, <3>2, <3>3 DEF Subscribed
  <2> QED BY <2>4, <2>6 DEF Subscribed
<1>4. CASE StreamListens(s)
  <2>1. \E state \in {"listening", "stuck"} : stream' = [stream EXCEPT ![s].state = state]
    BY <1>4 DEF StreamListens
  <2> QED BY <1>3, <1>4, <2>1, StreamStep DEF StreamListens
<1>5. CASE StreamAborted(s)
  BY <1>3, <1>5, StreamStep DEF StreamAborted
<1>6. CASE StreamCloses(s)
  BY <1>3, <1>6, StreamStep DEF StreamCloses
<1> QED BY <1>2, <1>4, <1>5, <1>6 DEF Watch

LEMMA HubStep == HubConstants /\ HubInv /\ [HubNext]_hubVars => HubInv'
<1> SUFFICES ASSUME HubConstants, HubInv, [HubNext]_hubVars PROVE HubInv'
  OBVIOUS
<1>1. CASE UNCHANGED hubVars
  <2>1. RestWell BY <1>1 DEF hubVars, HubInv, HubTypeOK, RestWell, AttemptsLeft
  <2> QED BY <1>1, <2>1, PushStep DEF hubVars
<1> QED BY <1>1, AskedStep, ServedStep, PushMoves, WatchedStep DEF HubNext

LEMMA HubConstantsStay == HubConstants => HubConstants'
BY DEF HubConstants

(* The type invariant of the project's participants, link, callbacks, pushes and streams. *)
THEOREM HubTypeCorrect == HubConstants => (HubSpec => []HubTypeOK)
<1>1. HubInv => HubTypeOK BY DEF HubInv
<1> QED BY <1>1, HubInitially, HubStep, HubConstantsStay, PTL DEF HubSpec

(* However rotations interleave, fail or die, a project that has been shared keeps a link *)
(* that its lead was given: upsertShare deletes and inserts in one transaction.           *)
THEOREM LinkCorrect == HubConstants => (HubSpec => []SharedHasLink)
<1>1. HubInv => SharedHasLink
  BY DEF HubInv, LinkIsGiven, SharedHasLink, resolveProjectContract, HubTypeOK, Links
<1> QED BY <1>1, HubInitially, HubStep, HubConstantsStay, PTL DEF HubSpec

\* A request that goes from "publish" to "notify" is published by that step.
LEMMA OnlyPublishing ==
  ASSUME HubConstants, HubInv, HubNext, NEW r \in Requests, At(r, "report", "publish"), At(r, "report", "notify")'
  PROVE  Publish(r)
<1>1. ReqTyped BY DEF HubInv, HubTypeOK, ReqTyped
<1>2. req'[r].step = "notify" /\ req[r].step = "publish" /\ req[r].op = "report" /\ req[r] # Unmade
  BY DEF At
<1>3. req' # req BY <1>2
<1>4. PICK q \in Requests : Ask(q) \/ Serve(q)
  BY <1>3 DEF HubNext, SendOut, Delivered, AttemptFails, PushLost, Watch, StreamOpen, StreamListens,
     StreamAborted, StreamCloses
<1>5. q = r
  <2>1. CASE Ask(q)
    <3>1. PICK x : req' = [req EXCEPT ![q] = x]
      BY <2>1 DEF Ask, Share, Invite, Register, Unregister, Assign, Report, Make
    <3> QED BY <1>1, <1>2, <3>1 DEF ReqTyped
  <2>2. CASE Serve(q)
    <3>1. PICK x : req' = [req EXCEPT ![q] = x]
      BY <2>2 DEF Serve, InviteInsert, ShareDelete, ShareInsert, ShareLost, Inspected, RegisterWrite, Publish, Notify,
         NotifyFails, Go
    <3> QED BY <1>1, <1>2, <3>1 DEF ReqTyped
  <2> QED BY <1>4, <2>1, <2>2
<1>6. ~Ask(r)
  BY <1>2 DEF Ask, Share, Invite, Register, Unregister, Assign, Report, Make
<1>7. Publish(r) \/ NotifyFails(r)
  BY <1>2, <1>4, <1>5, <1>6 DEF Serve, InviteInsert, ShareDelete, ShareInsert, ShareLost, Inspected,
     RegisterWrite, Notify, At
<1>8. ~NotifyFails(r)
  BY <1>1, <1>2, GoesTo DEF NotifyFails, Steps, IsMade
<1> QED BY <1>7, <1>8

(* A listening stream misses a change only after another stream of its task was closed: *)
(* the one Redis subscriber and cleanup() of routes/a2a/stream.ts.                       *)
THEOREM HearingCorrect == HubConstants => (HubSpec => StreamsHear)
<1>1. HubConstants /\ HubInv /\ [HubNext]_hubVars =>
        [\A s \in Streams, r \in Requests :
           /\ At(r, "report", "publish") /\ At(r, "report", "notify")'
           /\ stream[s].state = "listening" /\ stream[s].task = req[r].of
           => \/ r \in heard'[s]
              \/ \E o \in Streams : stream[o].state = "closed" /\ stream[o].task = req[r].of]_hubVars
  <2> SUFFICES ASSUME HubConstants, HubInv, HubNext, NEW s \in Streams, NEW r \in Requests,
                      At(r, "report", "publish"), At(r, "report", "notify")',
                      stream[s].state = "listening", stream[s].task = req[r].of
               PROVE  \/ r \in heard'[s]
                      \/ \E o \in Streams : stream[o].state = "closed" /\ stream[o].task = req[r].of
    OBVIOUS
  <2>1. Publish(r) BY OnlyPublishing
  <2>2. stream[s] # NoStream BY NoPushIsNone
  <2>3. CASE req[r].of \in channels
    BY <2>1, <2>3 DEF Publish
  <2> QED BY <2>2, <2>3 DEF HubInv, Subscribed
<1> QED BY <1>1, HubInitially, HubStep, HubConstantsStay, PTL DEF HubSpec, StreamsHear
================================================================================
