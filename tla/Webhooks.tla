-------------------------------- MODULE Webhooks -------------------------------
(***************************************************************************)
(* One agent's webhooks (services/webhook.service.ts): their registration, *)
(* the rotation of their signing secrets, and the deliveries that count    *)
(* failures and switch a failing webhook off.                              *)
(*                                                                         *)
(* A rotation, an activation and a registration read the row and write it  *)
(* later, by id; a delivery keeps the row that was read when it was        *)
(* dispatched and writes the row by id when the receiver has answered.     *)
(***************************************************************************)
EXTENDS Naturals, FiniteSets

CONSTANTS
  Hooks,         \* webhook rows that may come to exist
  Calls,         \* requests of the agent; each is made at most once
  Dispatches,    \* events to deliver; each is dispatched at most once
  MaxHooks,      \* maxWebhooksPerAgent
  FailureLimit,  \* failed deliveries that switch a webhook off (10 in the code)
  Grace,         \* webhookSecretGraceMs, in ticks
  MaxNow,        \* bound on the clock
  None           \* null

ASSUME WebhookConstants ==
  /\ FailureLimit \in Nat \ {0}
  /\ Grace \in Nat \ {0}
  /\ MaxNow \in Nat
  /\ None \notin Nat
  /\ None \notin Hooks

VARIABLES
  hooks,      \* the row of each webhook
  delivery,   \* what each dispatched event keeps for each webhook
  now,        \* the clock
  op, pc,     \* what each call does, and where it is or how it ended
  hook,       \* the webhook it is about
  seen,       \* the secrets it read
  failed,     \* failed deliveries of each webhook, since its registration
  streak,     \* and since its last successful one
  overlapped, \* webhooks two of whose rotations were under way at once
  since       \* when each rotation read its row

rows        == <<hooks, delivery, now>>
calls       == <<op, pc, hook, seen>>
history     == <<failed, streak, overlapped, since>>
webhookVars == <<rows, calls, history>>

--------------------------------------------------------------------------------
\* A secret is known by the call that issued it.
StoredSecret == [id : Calls, expiresAt : Nat \cup {None}]

Row    == [state : {"stored"}, isActive : BOOLEAN, failureCount : Nat, secrets : SUBSET StoredSecret]
NoRow  == [state |-> "absent"]
Gone   == [state |-> "deleted"]

\* What the loop over the rows of a SELECT keeps until the receiver answers.
InFlight == [state : {"in_flight"}, failureCount : Nat, isActive : BOOLEAN]
Idle     == [state |-> "idle"]
Settled  == [state |-> "settled"]

newSecret(c) == [id |-> c, expiresAt |-> None]
current(row) == {s \in row.secrets : s.expiresAt = None}

liveSecrets(secrets, t) == {s \in secrets : s.expiresAt = None \/ s.expiresAt > t}

\* Mutant: the retired secret expires at once.
retireCurrentSecretNow(secrets, expiresAt) ==
  {[s EXCEPT !.expiresAt = now] : s \in {x \in secrets : x.expiresAt = None}}

\* Only the secret that was current earns the grace window.
retireCurrentSecret(secrets, expiresAt) ==
  {[s EXCEPT !.expiresAt = expiresAt] : s \in {x \in secrets : x.expiresAt = None}}

stored == {h \in Hooks : hooks[h].state = "stored"}

Step  == {"insert", "write"}
Ended == {"ok", "refused", "missing", "crashed"}

WebhookTypeOK ==
  /\ hooks \in [Hooks -> Row \cup {NoRow, Gone}]
  /\ delivery \in [Dispatches \X Hooks -> InFlight \cup {Idle, Settled}]
  /\ now \in Nat
  /\ op \in [Calls -> {"none", "create", "rotate", "activate", "deactivate", "delete"}]
  /\ pc \in [Calls -> {"idle"} \cup Step \cup Ended]
  /\ hook \in [Calls -> Hooks \cup {None}]
  /\ seen \in [Calls -> SUBSET StoredSecret]
  /\ failed \in [Hooks -> Nat]
  /\ streak \in [Hooks -> Nat]
  /\ overlapped \in SUBSET Hooks
  /\ since \in [Calls -> Nat]

WebhookInit ==
  /\ hooks = [h \in Hooks |-> NoRow]
  /\ delivery = [k \in Dispatches \X Hooks |-> Idle]
  /\ now = 0
  /\ op = [c \in Calls |-> "none"]
  /\ pc = [c \in Calls |-> "idle"]
  /\ hook = [c \in Calls |-> None]
  /\ seen = [c \in Calls |-> {}]
  /\ failed = [h \in Hooks |-> 0]
  /\ streak = [h \in Hooks |-> 0]
  /\ overlapped = {}
  /\ since = [c \in Calls |-> 0]

--------------------------------------------------------------------------------
Begin(c, o, h, secrets, at) ==
  /\ pc[c] = "idle"
  /\ op' = [op EXCEPT ![c] = o]
  /\ pc' = [pc EXCEPT ![c] = at]
  /\ hook' = [hook EXCEPT ![c] = h]
  /\ seen' = [seen EXCEPT ![c] = secrets]

Goto(c, at) ==
  /\ pc' = [pc EXCEPT ![c] = at]
  /\ UNCHANGED <<op, hook, seen>>

Rotating(h) == {c \in Calls : op[c] = "rotate" /\ pc[c] = "write" /\ hook[c] = h}

\* createWebhook counts the agent's rows ...
CreateCheck(c) ==
  /\ Begin(c, "create", None, {}, IF Cardinality(stored) >= MaxHooks THEN "refused" ELSE "insert")
  /\ UNCHANGED <<rows, history>>

\* ... resolves the target's name, which may refuse it, and inserts the row.
CreateInsert(c) ==
  /\ op[c] = "create" /\ pc[c] = "insert"
  /\ \/ /\ Goto(c, "refused")
        /\ UNCHANGED hooks
     \/ \E h \in Hooks :
          /\ hooks[h] = NoRow
          /\ hooks' = [hooks EXCEPT ![h] =
               [state |-> "stored", isActive |-> TRUE, failureCount |-> 0,
                secrets |-> {newSecret(c)}]]
          /\ pc' = [pc EXCEPT ![c] = "ok"]
          /\ hook' = [hook EXCEPT ![c] = h]
          /\ UNCHANGED <<op, seen>>
  /\ UNCHANGED <<delivery, now, history>>

\* rotateWebhookSecret reads the secrets ...
RotateRead(c, h) ==
  /\ h \in stored
  /\ Begin(c, "rotate", h, hooks[h].secrets, "write")
  /\ since' = [since EXCEPT ![c] = now]
  /\ overlapped' = IF Rotating(h) = {} THEN overlapped ELSE overlapped \cup {h}
  /\ UNCHANGED <<rows, failed, streak>>

\* Mutant: the rotation adds to the secrets it read and retires none.
RotateWriteKeep(c) ==
  LET h == hook[c] IN
  /\ op[c] = "rotate" /\ pc[c] = "write"
  /\ hooks' = IF h \notin stored THEN hooks ELSE [hooks EXCEPT
       ![h].secrets = {newSecret(c)} \cup seen[c], ![h].isActive = TRUE]
  /\ Goto(c, "ok")
  /\ UNCHANGED <<delivery, now, history>>

\* ... takes the time, and writes the list made of what it read; the webhook is switched
\* on.  The UPDATE may have waited since the time was taken.  The caller is given the
\* secret even if the row is gone by now.
RotateWrite(c) ==
  LET h == hook[c] IN
  /\ op[c] = "rotate" /\ pc[c] = "write"
  /\ \E at \in since[c]..now :
       hooks' = IF h \notin stored THEN hooks ELSE [hooks EXCEPT
         ![h].secrets = {newSecret(c)} \cup retireCurrentSecret(seen[c], at + Grace),
         ![h].isActive = TRUE]
  /\ Goto(c, "ok")
  /\ UNCHANGED <<delivery, now, history>>

refusesReactivation(secrets) == liveSecrets(secrets, now) = {}

\* A PATCH that switches the webhook on checks first that something can sign.
ActivateCheck(c, h) ==
  /\ h \in stored
  /\ Begin(c, "activate", h, {},
           IF refusesReactivation(hooks[h].secrets) THEN "refused" ELSE "write")
  /\ UNCHANGED <<rows, history>>

ActivateWrite(c) ==
  LET h == hook[c] IN
  /\ op[c] = "activate" /\ pc[c] = "write"
  /\ IF h \in stored
     THEN hooks' = [hooks EXCEPT ![h].isActive = TRUE] /\ Goto(c, "ok")
     ELSE UNCHANGED hooks /\ Goto(c, "missing")
  /\ UNCHANGED <<delivery, now, history>>

\* A PATCH that switches it off is one UPDATE, a DELETE one statement.
Deactivate(c, h) ==
  /\ h \in stored
  /\ hooks' = [hooks EXCEPT ![h].isActive = FALSE]
  /\ Begin(c, "deactivate", h, {}, "ok")
  /\ UNCHANGED <<delivery, now, history>>

deleteWebhook(c, h) ==
  /\ h \in stored
  /\ hooks' = [hooks EXCEPT ![h] = Gone]
  /\ Begin(c, "delete", h, {}, "ok")
  /\ UNCHANGED <<delivery, now, history>>

\* The process dies between the statements of a call.
CallCrash(c) ==
  /\ pc[c] \in Step
  /\ Goto(c, "crashed")
  /\ UNCHANGED <<rows, history>>

--------------------------------------------------------------------------------
deliverable(h) ==
  h \in stored /\ hooks[h].isActive /\ liveSecrets(hooks[h].secrets, now) # {}

\* An event is dispatched to the active webhooks that ask for it and whose secrets
\* can be opened; which those are is not modelled.
dispatchWebhooks(d) ==
  /\ \A h \in Hooks : delivery[<<d, h>>] = Idle
  /\ \E to \in SUBSET {h \in Hooks : deliverable(h)} :
       /\ to # {}
       /\ delivery' = [k \in Dispatches \X Hooks |->
            IF k[1] = d /\ k[2] \in to
            THEN [state |-> "in_flight", failureCount |-> hooks[k[2]].failureCount,
                  isActive |-> hooks[k[2]].isActive]
            ELSE delivery[k]]
  /\ UNCHANGED <<hooks, now, calls, history>>

Settle(d, h) ==
  /\ delivery[<<d, h>>].state = "in_flight"
  /\ delivery' = [delivery EXCEPT ![<<d, h>>] = Settled]

\* Mutant: a failure is counted by the delivery and again by its error handler.
DeliveryFailsTwice(d, h) ==
  LET count == delivery[<<d, h>>].failureCount + 2 IN
  /\ Settle(d, h)
  /\ hooks' = IF h \notin stored THEN hooks ELSE [hooks EXCEPT
       ![h].failureCount = count,
       ![h].isActive = IF count >= FailureLimit THEN FALSE ELSE delivery[<<d, h>>].isActive]
  /\ failed' = [failed EXCEPT ![h] = @ + 1]
  /\ streak' = [streak EXCEPT ![h] = @ + 1]
  /\ UNCHANGED <<now, calls, overlapped, since>>

\* The receiver does not answer 2xx in time: count and flag are those of the row
\* that was dispatched.
DeliveryFails(d, h) ==
  LET count == delivery[<<d, h>>].failureCount + 1 IN
  /\ Settle(d, h)
  /\ hooks' = IF h \notin stored THEN hooks ELSE [hooks EXCEPT
       ![h].failureCount = count,
       ![h].isActive = IF count >= FailureLimit THEN FALSE ELSE delivery[<<d, h>>].isActive]
  /\ failed' = [failed EXCEPT ![h] = @ + 1]
  /\ streak' = [streak EXCEPT ![h] = @ + 1]
  /\ UNCHANGED <<now, calls, overlapped, since>>

DeliverySucceeds(d, h) ==
  /\ Settle(d, h)
  /\ hooks' = IF h \notin stored THEN hooks ELSE [hooks EXCEPT ![h].failureCount = 0]
  /\ streak' = [streak EXCEPT ![h] = 0]
  /\ UNCHANGED <<now, calls, failed, overlapped, since>>

\* The process dies, or the row cannot be written: there is no durable retry.
DeliveryLost(d, h) ==
  /\ Settle(d, h)
  /\ UNCHANGED <<hooks, now, calls, history>>

WebhookTick ==
  /\ now < MaxNow
  /\ now' = now + 1
  /\ UNCHANGED <<hooks, delivery, calls, history>>

Manage(c) ==
  \/ CreateCheck(c) \/ CreateInsert(c)
  \/ \E h \in Hooks : \/ RotateRead(c, h) \/ ActivateCheck(c, h)
                      \/ Deactivate(c, h) \/ deleteWebhook(c, h)
  \/ RotateWrite(c) \/ ActivateWrite(c) \/ CallCrash(c)

Deliver(d) ==
  \/ dispatchWebhooks(d)
  \/ \E h \in Hooks : DeliveryFails(d, h) \/ DeliverySucceeds(d, h) \/ DeliveryLost(d, h)

WebhookNext ==
  \/ WebhookTick
  \/ \E c \in Calls : Manage(c)
  \/ \E d \in Dispatches : Deliver(d)

WebhookSpec == WebhookInit /\ [][WebhookNext]_webhookVars

--------------------------------------------------------------------------------
(* What the webhooks promise *)

\* A registered webhook always has a secret that does not expire, and one only,
\* however many rotations race: dispatch never has to skip it unsigned.
OneCurrentSecret ==
  \A h \in stored : \E s \in hooks[h].secrets :
    current(hooks[h]) = {s} /\ pc[s.id] = "ok"

\* A webhook that is off without its agent having asked has had FailureLimit failed
\* deliveries at least: counts read before a dispatch lose failures, and never
\* invent one.
NotDisabledEarly ==
  \A h \in stored :
    /\ hooks[h].failureCount <= failed[h]
    /\ ~hooks[h].isActive =>
         \/ failed[h] >= FailureLimit
         \/ \E c \in Calls : op[c] = "deactivate" /\ hook[c] = h

\* As long as no two rotations of a webhook overlap, the secret its receiver uses
\* signs on for a grace window that opens while its rotation is under way: no step
\* takes a current secret out of the row.
GraceKept ==
  [][\A h \in stored : h \notin overlapped' /\ h \in stored' =>
       \A s \in current(hooks[h]) :
         \/ s \in hooks'[h].secrets
         \/ \E c \in Rotating(h) : \E at \in since[c]..now :
              [s EXCEPT !.expiresAt = at + Grace] \in hooks'[h].secrets]_webhookVars

--------------------------------------------------------------------------------
(* What the repository says and the code does not keep *)

\* "After 10 consecutive failures the webhook is deactivated automatically"
\* (docs/api/README.md, translated), and by nothing else but its agent's PATCH:
\* a delivery that ends changes the flag in no other way.
FlagFollowsStreak ==
  [][\A h \in stored : h \in stored' /\ calls' = calls
                       /\ hooks'[h].isActive # hooks[h].isActive =>
       ~hooks'[h].isActive /\ streak'[h] >= FailureLimit]_webhookVars
================================================================================
