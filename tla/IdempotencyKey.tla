---------------------------- MODULE IdempotencyKey -----------------------------
(***************************************************************************)
(* The requests that carry one Idempotency-Key (same agent, method and     *)
(* path), and the Redis record they share: middleware/idempotency.ts and   *)
(* lib/idempotency.ts.  Each Redis command and each handler is one step.   *)
(* The handler's work is the effect that a retry must not repeat.          *)
(*                                                                         *)
(* The record's lifetime is abstracted to a step that may come at any      *)
(* time: 120 s for a reservation, which a slow handler or a dead process   *)
(* can outlast, and 24 h for a completed response.                         *)
(***************************************************************************)
CONSTANTS
  Requests,   \* attempts, retries included; each is made at most once
  Bodies,     \* request bodies the caller sends, told apart by their hash
  BodyOf,     \* the body of each request
  Null        \* null

ASSUME KeyConstants ==
  /\ BodyOf \in [Requests -> Bodies]
  /\ Null \notin Requests

VARIABLES
  record,      \* what Redis holds under the key
  pc,          \* where each request is, or how it ended
  answer,      \* the request whose successful response each request was given
  effects,     \* requests whose handler has done its work
  unreserved,  \* requests that went on without a reservation
  lapsed       \* whether a record has ever expired

vars == <<record, pc, answer, effects, unreserved, lapsed>>

--------------------------------------------------------------------------------
InProgress(body) == [state |-> "in_progress", body |-> body, response |-> Null]

\* Mutant: the completed record is stored without the response.
CompletedEmpty(r) == [state |-> "completed", body |-> BodyOf[r], response |-> Null]

\* The response is identified by the request whose handler produced it.
Completed(r) == [state |-> "completed", body |-> BodyOf[r], response |-> r]

NoRecord == [state |-> "none", body |-> Null, response |-> Null]

IdempotencyRecord ==
  {NoRecord} \cup {InProgress(b) : b \in Bodies}
    \cup [state : {"completed"}, body : Bodies, response : Requests]

Inside  == {"handler", "remember", "release"}
Serving == {"lookup"} \cup Inside
Refused == {"in_progress", "reused"}
Ended   == {"ok", "failed", "replay", "crashed"} \cup Refused

TypeOK ==
  /\ record \in IdempotencyRecord
  /\ pc \in [Requests -> {"idle"} \cup Serving \cup Ended]
  /\ answer \in [Requests -> Requests \cup {Null}]
  /\ effects \in SUBSET Requests
  /\ unreserved \in SUBSET Requests
  /\ lapsed \in BOOLEAN

Init ==
  /\ record = NoRecord
  /\ pc = [r \in Requests |-> "idle"]
  /\ answer = [r \in Requests |-> Null]
  /\ effects = {}
  /\ unreserved = {}
  /\ lapsed = FALSE

Goto(r, at) == pc' = [pc EXCEPT ![r] = at]

--------------------------------------------------------------------------------
\* Mutant: the record's state is looked at before the hash of the body.
decideFromState(rec, body) ==
  IF rec = NoRecord THEN "proceed"
  ELSE IF rec.state = "completed" THEN "replay"
  ELSE IF rec.body # body THEN "reused"
  ELSE "in_progress"

\* What a request that found the key taken makes of the record it then reads.
decideFromRecord(rec, body) ==
  IF rec = NoRecord THEN "proceed"
  ELSE IF rec.body # body THEN "reused"
  ELSE IF rec.state = "in_progress" THEN "in_progress"
  ELSE "replay"

\* Mutant: the reservation is written without NX.
ReserveAlways(r) ==
  /\ pc[r] = "idle"
  /\ record' = InProgress(BodyOf[r])
  /\ Goto(r, "handler")
  /\ UNCHANGED <<answer, effects, unreserved, lapsed>>

\* SET NX wins: the request holds a reservation and enters the handler.
Reserve(r) ==
  /\ pc[r] = "idle"
  /\ record = NoRecord
  /\ record' = InProgress(BodyOf[r])
  /\ Goto(r, "handler")
  /\ UNCHANGED <<answer, effects, unreserved, lapsed>>

\* SET NX loses: the request will read the record.
FindTaken(r) ==
  /\ pc[r] = "idle"
  /\ record # NoRecord
  /\ Goto(r, "lookup")
  /\ UNCHANGED <<record, answer, effects, unreserved, lapsed>>

Decided(r, kind) == pc[r] = "lookup" /\ decideFromRecord(record, BodyOf[r]) = kind

\* The GET finds a live reservation, or another body: 409.
Refuse(r) ==
  /\ \E kind \in Refused : Decided(r, kind) /\ Goto(r, kind)
  /\ UNCHANGED <<record, answer, effects, unreserved, lapsed>>

\* The GET finds the completed response of the same body.
Replay(r) ==
  /\ Decided(r, "replay")
  /\ Goto(r, "replay")
  /\ answer' = [answer EXCEPT ![r] = record.response]
  /\ UNCHANGED <<record, effects, unreserved, lapsed>>

\* The GET finds nothing: the record went away after the SET. Nothing is reserved.
Proceed(r) ==
  /\ Decided(r, "proceed")
  /\ Goto(r, "handler")
  /\ unreserved' = unreserved \cup {r}
  /\ UNCHANGED <<record, answer, effects, lapsed>>

\* The handler answers 2xx and has done its work, or with an error (a thrown one
\* included).  An error does not tell whether the work is done: a message or an
\* invitation is inserted before the event or the email that may fail.
Handle(r) ==
  /\ pc[r] = "handler"
  /\ \/ Goto(r, "remember") /\ effects' = effects \cup {r}
     \/ Goto(r, "release") /\ effects' \in {effects, effects \cup {r}}
  /\ UNCHANGED <<record, answer, unreserved, lapsed>>

\* A success overwrites the key, whoever holds it; an error of Redis is swallowed.
Remember(r) ==
  /\ pc[r] = "remember"
  /\ record' \in {record, Completed(r)}
  /\ Goto(r, "ok")
  /\ answer' = [answer EXCEPT ![r] = r]
  /\ UNCHANGED <<effects, unreserved, lapsed>>

\* A failure deletes the key, whoever holds it; an error of Redis is swallowed.
Release(r) ==
  /\ pc[r] = "release"
  /\ record' \in {record, NoRecord}
  /\ Goto(r, "failed")
  /\ UNCHANGED <<answer, effects, unreserved, lapsed>>

\* The process dies: nobody is answered, the record stays as it is.
Crash(r) ==
  /\ pc[r] \in Serving
  /\ Goto(r, "crashed")
  /\ UNCHANGED <<record, answer, effects, unreserved, lapsed>>

\* The time to live of the record runs out.
Expire ==
  /\ record # NoRecord
  /\ record' = NoRecord
  /\ lapsed' = TRUE
  /\ UNCHANGED <<pc, answer, effects, unreserved>>

Serve(r) ==
  \/ Reserve(r) \/ FindTaken(r)
  \/ Refuse(r) \/ Replay(r) \/ Proceed(r)
  \/ Handle(r) \/ Remember(r) \/ Release(r)

Next == Expire \/ \E r \in Requests : Serve(r) \/ Crash(r)

Spec == Init /\ [][Next]_vars

--------------------------------------------------------------------------------
(* What the middleware promises *)

Running == {r \in Requests : pc[r] \in Inside}

\* Requests that did their work and were not answered with an error.
Done == {r \in effects : pc[r] # "failed"}

\* Retries do not repeat the request: until a record expires or a request goes on
\* without a reservation, at most one is in the handler, and at most one has done
\* its work other than those whose caller was told that it failed, whatever
\* crashes or is lost on the way to Redis.
RunsOnce ==
  ~lapsed /\ unreserved = {} =>
    /\ \A r, s \in Running : r = s
    /\ \A r, s \in Done : r = s

\* Whatever has happened to the key, a caller is given the successful response to
\* its own body, and is told of another body only if one was sent.
AnswersAreGenuine ==
  \A r \in Requests :
    /\ pc[r] = "replay" => /\ answer[r] \in effects
                           /\ pc[answer[r]] = "ok"
                           /\ BodyOf[answer[r]] = BodyOf[r]
    /\ pc[r] = "reused" => \E s \in Requests : pc[s] # "idle" /\ BodyOf[s] # BodyOf[r]

--------------------------------------------------------------------------------
(* What the repository says and the code does not keep *)

\* "two simultaneous requests cannot both enter: the second sees the reservation"
\* (the design of 2026-08-26, translated), stated for a key whose records are still
\* within their time to live.
EntryIsExclusive == ~lapsed => \A r, s \in Running : r = s

\* "to protect you from duplicated retries" (docs/api/README.md, translated): the work
\* behind a key is done once while its records are within their time to live.
WorkIsDoneOnce ==
  ~lapsed /\ unreserved = {} => \A r, s \in effects : r = s
================================================================================
