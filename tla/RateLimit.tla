------------------------------- MODULE RateLimit -------------------------------
(***************************************************************************)
(* The fixed windows a request is counted in (middleware/rate-limit.ts):   *)
(* first that of its address, then that of its route, each an entry in     *)
(* Redis that dies with its window, and the penalty an address earns by    *)
(* being refused, which only lengthens the windows it opens later.         *)
(*                                                                         *)
(* Every Redis command is a step of its own, so the requests of one        *)
(* address interleave between them.  All of them here come from one        *)
(* address and, once registered, one agent.  Agents earn penalties too,    *)
(* but nothing ever reads those.                                           *)
(***************************************************************************)
EXTENDS Naturals

CONSTANTS
  Calls,       \* requests that may be under way at once
  GlobalRpm, AgentRpm, RegisterRph,  \* requests admitted in one window
  Minute,      \* the usual window and the first penalty, in ticks
  Hour,        \* the window of registrations
  PenaltyMax   \* penaltyMaxSeconds

ASSUME RateLimitConstants ==
  /\ {GlobalRpm, AgentRpm, RegisterRph} \subseteq Nat \ {0}
  /\ {Minute, Hour, PenaltyMax} \subseteq Nat \ {0}

VARIABLES
  counter,  \* requests counted in the window that is open, and its time to live
  penalty,  \* the penalty of the address, and its time to live
  srv       \* where the service is with each request

limitVars == <<counter, penalty, srv>>

--------------------------------------------------------------------------------
Limiters == {"global", "register", "agent"}

max(l) == CASE l = "global" -> GlobalRpm [] l = "agent" -> AgentRpm [] l = "register" -> RegisterRph

\* Limiters that count by the address rather than by the agent that has signed in.
byAddress == {"global", "register"}

windowSeconds(l) == IF l = "register" THEN Hour ELSE Minute

NoEntry == [value |-> 0, ttl |-> 0]
Unsent  == [at |-> "none"]

\* `window` is what the entry will live if the request opens it; `told` what the
\* step has computed for the next one, or what the response says.
Thread(at, route, l, window, told) ==
  [at |-> at, route |-> route, limiter |-> l, window |-> window, told |-> told]

\* A behaviour begins where earlier requests have just used up every window; it need not
\* send anything before the windows have closed.
Full(l) == [value |-> max(l), ttl |-> windowSeconds(l)]

Response(at, told) == [at |-> at, told |-> told]

RateLimitInit ==
  /\ counter = [l \in Limiters |-> Full(l)]
  /\ penalty = NoEntry
  /\ srv = [c \in Calls |-> Unsent]

At(c, step) == srv[c].at = step

\* Every request of the application passes the global limiter first (createApp).
Arrival(route) == Thread("penalty", route, "global", Minute, 0)

\* globalRateLimit asks for the penalty of the address; the limiters of the routes do not.
getPenalty(c) ==
  /\ At(c, "penalty")
  /\ LET p == penalty.value IN
       srv' = [srv EXCEPT ![c].at = "count", ![c].window = IF p > 0 THEN p ELSE Minute]
  /\ UNCHANGED <<counter, penalty>>

\* How far beyond its limit an entry is makes no difference.
Up(value, l) == IF value > max(l) THEN value ELSE value + 1

\* A slip: the entry's life begins again with every request it counts.
CountedSliding(l, window) == [value |-> Up(counter[l].value, l), ttl |-> window]

\* INCR, and EXPIRE when the entry is new, in one script.
Counted(l, window) ==
  [value |-> Up(counter[l].value, l), ttl |-> IF counter[l].value = 0 THEN window ELSE counter[l].ttl]

Count(c) ==
  /\ At(c, "count")
  /\ LET l == srv[c].limiter
         entry == Counted(l, srv[c].window)
         route == srv[c].route
     IN /\ counter' = [counter EXCEPT ![l] = entry]
        /\ srv' = [srv EXCEPT ![c] =
             IF entry.value > max(l) THEN [@ EXCEPT !.at = IF l \in byAddress THEN "punish" ELSE "ttl"]
             ELSE IF l # route THEN Thread("count", route, route, windowSeconds(route), 0)
             ELSE Thread("handle", route, route, 0, 0)]
  /\ UNCHANGED penalty

Capped(n) == IF n < PenaltyMax THEN n ELSE PenaltyMax

\* applyPenalty: reads the penalty, and writes its double.
ApplyPenaltyRead(c) ==
  /\ At(c, "punish")
  /\ srv' = [srv EXCEPT ![c].at = "set", ![c].told =
               Capped(IF penalty.value > 0 THEN 2 * penalty.value ELSE Minute)]
  /\ UNCHANGED <<counter, penalty>>

ApplyPenaltySet(c) ==
  /\ At(c, "set")
  /\ penalty' = [value |-> srv[c].told, ttl |-> srv[c].told]
  /\ srv' = [srv EXCEPT ![c].at = "ttl"]
  /\ UNCHANGED counter

\* RateLimitError: the rest of the window, or a whole one if it has just closed.
Refuse(c) ==
  /\ At(c, "ttl")
  /\ LET ttl == counter[srv[c].limiter].ttl IN
       srv' = [srv EXCEPT ![c] = Response("refused", IF ttl > 0 THEN ttl ELSE srv[c].window)]
  /\ UNCHANGED <<counter, penalty>>

Limit(c) ==
  getPenalty(c) \/ Count(c) \/ ApplyPenaltyRead(c) \/ ApplyPenaltySet(c) \/ Refuse(c)

UnderWay(c) == srv[c].at \in {"penalty", "count", "punish", "set", "ttl", "handle"}

\* The process dies, or the connection goes silent, before the response.
Crash(c) ==
  /\ UnderWay(c)
  /\ \E end \in {"crashed", "hung"} : srv' = [srv EXCEPT ![c] = [at |-> end]]
  /\ UNCHANGED <<counter, penalty>>

\* A tick of Redis's clock: an entry whose time has come is gone.  A tick is long beside
\* a command, but may fall before the last one of a refusal, or while a handler works.
Older(entry) == IF entry.ttl <= 1 THEN NoEntry ELSE [entry EXCEPT !.ttl = @ - 1]

Elapse ==
  /\ \A c \in Calls : srv[c].at \notin {"penalty", "count", "punish", "set"}
  /\ counter' = [l \in Limiters |-> Older(counter[l])]
  /\ penalty' = Older(penalty)
================================================================================
