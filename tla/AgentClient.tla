------------------------------ MODULE AgentClient ------------------------------
(***************************************************************************)
(* An agent's calls through the SDKs (sdks/typescript/src/client.ts and    *)
(* sdks/python/agentdialog/client.py) to a service that limits their rate: *)
(* one request, a listing page after page, and waiting for an answer.      *)
(*                                                                         *)
(* A refused request is repeated after a pause, up to MaxRetries times;    *)
(* the pages of the TypeScript SDK without end.  A wait asks for its query *)
(* again and again, ever more rarely, and may have a budget that also cuts *)
(* off the request under way.                                              *)
(***************************************************************************)
EXTENDS RateLimit

CONSTANTS
  Jobs,             \* what each call may be about
  MaxRetries,       \* MAX_RETRIES
  PollInterval, MaxPollInterval,
  None              \* undefined, null

Sdks == {"typescript", "python"}

\* `register`; any other single request, as createQuery, sendMessage or the tools that
\* ask and look up a query; waitForAnswer; and a listing, of one page or more.
Registering == [op : {"register"}, sdk : Sdks]
Requesting  == [op : {"request"}, sdk : Sdks]
Waiting     == [op : {"wait"}, sdk : {"typescript"}, budget : Nat \cup {None}]
Listing     == [op : {"list"}, sdk : Sdks, of : {"conversations", "messages"}, pages : {1, 2}]
Job == Registering \cup Requesting \cup Waiting \cup Listing

ASSUME AgentClientConstants ==
  /\ MaxRetries \in Nat
  /\ PollInterval \in Nat \ {0}
  /\ MaxPollInterval \in Nat
  /\ None \notin Nat \cup Job
  /\ \A c \in Calls : Jobs[c] \subseteq Job

VARIABLES
  job,    \* what each call is about
  cli,    \* where the SDK is with it
  query   \* the status of the query that is waited for

clientVars == <<limitVars, job, cli, query>>

--------------------------------------------------------------------------------
Does(c, op) == job[c] # None /\ job[c].op = op

\* `tries` are the repetitions of the request under way; `timer` what is left of a
\* pause, `interval` the next pause of a wait and `budget` what is left of its
\* timeout; `cursor` is where the next page of a listing begins and `got` the
\* pages whose items it has handed out.
Idle == [at |-> "idle", tries |-> 0, timer |-> 0, interval |-> PollInterval, budget |-> None,
         cursor |-> None, got |-> {}]

AgentClientInit ==
  /\ RateLimitInit
  /\ job = [c \in Calls |-> None]
  /\ cli = [c \in Calls |-> Idle]
  /\ query = "pending"

Live(c) == cli[c].at \in {"asking", "backoff", "polling"}

Route(j) == IF j.op = "register" THEN "register" ELSE "agent"

Client(c, new) == cli' = [cli EXCEPT ![c] = new]

\* The call is over: nothing is left of it but how it ended and what it handed out.
Over(c, how) == [Idle EXCEPT !.at = how, !.got = cli[c].got]

End(c, how) ==
  /\ Client(c, Over(c, how))
  /\ UNCHANGED <<limitVars, job, query>>

\* The response has been read.
Read(c) == srv' = [srv EXCEPT ![c] = Unsent] /\ UNCHANGED <<counter, penalty, job, query>>

\* fetch: the request leaves the client.
Ask(c, new) ==
  /\ Client(c, [new EXCEPT !.at = "asking"])
  /\ srv' = [srv EXCEPT ![c] = Arrival(Route(job'[c]))]
  /\ UNCHANGED <<counter, penalty>>

Start(c, j) ==
  /\ cli[c].at = "idle"
  /\ job' = [job EXCEPT ![c] = j]
  /\ Ask(c, [cli[c] EXCEPT !.budget = IF j.op = "wait" THEN j.budget ELSE None])
  /\ UNCHANGED query

--------------------------------------------------------------------------------
(* What the routes do with the requests that reach them.                   *)

\* listAgentConversations is given the cursor and ignores it; its route returns none.
listAgentConversations(pages, cursor) == [page |-> {1}, hasMore |-> pages = 2, nextCursor |-> None]

\* listMessages points to the time of the oldest message of the page.
listMessages(pages, cursor) ==
  [page |-> IF cursor = None THEN {1} ELSE {2}, hasMore |-> pages = 2 /\ cursor = None,
   nextCursor |-> IF pages = 2 /\ cursor = None THEN "time" ELSE None]

\* paginationQuery takes the cursor for a uuid; without a page the response is a 422.
paginationQuery(cursor) == cursor = None

Page(j, cursor) ==
  IF ~paginationQuery(cursor) THEN [page |-> {}]
  ELSE IF j.of = "conversations" THEN listAgentConversations(j.pages, cursor)
  ELSE listMessages(j.pages, cursor)

Handle(c) ==
  /\ At(c, "handle")
  /\ srv' = [srv EXCEPT ![c] = Response("served",
       IF Does(c, "wait") THEN query
       ELSE IF Does(c, "list") THEN Page(job[c], cli[c].cursor) ELSE None)]
  /\ UNCHANGED <<counter, penalty, job, cli, query>>

\* The query that is waited for is answered, or expires, which ends the wait as well; or
\* it is cancelled, which does not.
Settle(status) ==
  /\ query = "pending" /\ \E c \in Calls : Does(c, "wait") /\ Live(c)
  /\ query' = status
  /\ UNCHANGED <<limitVars, job, cli>>

--------------------------------------------------------------------------------
(* What the SDK does with the response.                                    *)

\* The header a refusal is read for; the service puts the time into the body alone.
retryAfterHeader(thread) == None

parseRetryAfter(thread) == IF retryAfterHeader(thread) = None THEN 1 ELSE retryAfterHeader(thread)

\* requestPaginated does not count its repetitions; register does not repeat.
MayRepeat(c) ==
  /\ ~Does(c, "register")
  /\ (Does(c, "list") /\ job[c].sdk = "typescript") \/ cli[c].tries < MaxRetries

Refused(c) ==
  /\ cli[c].at = "asking" /\ At(c, "refused")
  /\ IF MayRepeat(c)
       THEN Client(c, [cli[c] EXCEPT !.at = "backoff", !.timer = parseRetryAfter(srv[c])])
       ELSE Client(c, Over(c, "limited"))
  /\ Read(c)

CountsTries(c) == ~(Does(c, "list") /\ job[c].sdk = "typescript")

Repeat(c) ==
  /\ cli[c].at = "backoff" /\ cli[c].timer = 0
  /\ UNCHANGED job
  /\ Ask(c, [cli[c] EXCEPT !.tries = IF CountsTries(c) THEN @ + 1 ELSE @])
  /\ UNCHANGED query

Served(c) == cli[c].at = "asking" /\ At(c, "served")

Returned(c) ==
  /\ Served(c) /\ (Does(c, "register") \/ Does(c, "request"))
  /\ Client(c, Over(c, "returned"))
  /\ Read(c)

\* listAll*: the TypeScript generators follow the cursor, the Python ones hasMore.
GoesOn(j, page) == page.hasMore /\ (j.sdk = "typescript" => page.nextCursor # None)

NextPage(c) ==
  /\ Served(c) /\ Does(c, "list") /\ srv[c].told.page # {}
  /\ LET page == srv[c].told
         new == [cli[c] EXCEPT !.got = @ \cup page.page, !.cursor = page.nextCursor, !.tries = 0]
     IN IF GoesOn(job[c], page)
          THEN UNCHANGED job /\ Ask(c, new) /\ UNCHANGED query
          ELSE Client(c, [Over(c, "returned") EXCEPT !.got = new.got]) /\ Read(c)

PageInvalid(c) ==
  /\ Served(c) /\ Does(c, "list") /\ srv[c].told.page = {}
  /\ Client(c, Over(c, "failed"))
  /\ Read(c)

--------------------------------------------------------------------------------
(* waitForAnswer.                                                          *)

Least(m, n) == IF m < n THEN m ELSE n

OutOfTime(c) == cli[c].budget = 0

WaitAnswered(c) ==
  /\ Served(c) /\ Does(c, "wait") /\ srv[c].told \in {"answered", "expired"}
  /\ Client(c, Over(c, "returned"))
  /\ Read(c)

WaitOn(c) ==
  /\ Served(c) /\ Does(c, "wait") /\ srv[c].told \notin {"answered", "expired"}
  /\ LET i == cli[c].interval IN
       Client(c, IF OutOfTime(c) THEN Over(c, "timeout")
                 ELSE [cli[c] EXCEPT !.at = "polling", !.tries = 0,
                         !.timer = IF cli[c].budget = None THEN i ELSE Least(i, cli[c].budget),
                         !.interval = Least(2 * i, MaxPollInterval)])
  /\ Read(c)

\* The loop begins by looking at the time, so a pause that ends with the budget is the end.
PollAgain(c) ==
  /\ cli[c].at = "polling" /\ cli[c].timer = 0
  /\ IF OutOfTime(c)
       THEN End(c, "timeout")
       ELSE UNCHANGED job /\ Ask(c, cli[c]) /\ UNCHANGED query

\* Mutant: only the pauses look at the time, not the request itself.
TimedOutAsleep(c) ==
  /\ Does(c, "wait") /\ cli[c].at = "backoff" /\ OutOfTime(c)
  /\ End(c, "timeout")

\* combineSignals: the budget's end aborts the request under way and its pauses.
TimedOut(c) ==
  /\ Does(c, "wait") /\ cli[c].at \in {"asking", "backoff"} /\ OutOfTime(c)
  /\ End(c, "timeout")

\* The caller's own signal.
AbortedByCaller(c) ==
  /\ Does(c, "wait") /\ Live(c)
  /\ End(c, "aborted")

--------------------------------------------------------------------------------
\* A connection that breaks rejects the call; httpx gives up after 30 seconds.
ConnectionFails(c) ==
  /\ cli[c].at = "asking"
  /\ At(c, "crashed") \/ (At(c, "hung") /\ job[c].sdk = "python")
  /\ End(c, "failed")

Run(c) ==
  \/ Refused(c) \/ Repeat(c) \/ Returned(c) \/ NextPage(c) \/ PageInvalid(c)
  \/ WaitAnswered(c) \/ WaitOn(c) \/ PollAgain(c) \/ TimedOut(c) \/ ConnectionFails(c)

Serve(c) == (Limit(c) /\ UNCHANGED <<job, cli, query>>) \/ Handle(c)

Sooner(n) == IF n = None \/ n = 0 THEN n ELSE n - 1

Tick ==
  /\ Elapse
  /\ cli' = [c \in Calls |-> [cli[c] EXCEPT !.timer = Sooner(@),
                                !.budget = IF Live(c) THEN Sooner(@) ELSE @]]
  /\ UNCHANGED <<srv, job, query>>

AgentClientNext ==
  \/ \E c \in Calls :
       \/ \E j \in Jobs[c] : Start(c, j)
       \/ Run(c)
       \/ Serve(c)
       \/ AbortedByCaller(c)
       \/ Crash(c) /\ UNCHANGED <<job, cli, query>>
  \/ \E status \in {"answered", "cancelled"} : Settle(status)
  \/ Tick

AgentClientSpec == AgentClientInit /\ [][AgentClientNext]_clientVars

\* The client's runtime and the service's go on, and time passes; nobody need crash,
\* abort or answer.
AgentClientFairness ==
  /\ \A c \in Calls : WF_clientVars(Run(c)) /\ WF_clientVars(Serve(c))
  /\ WF_clientVars(Tick)

--------------------------------------------------------------------------------
FairAgentClientSpec == AgentClientSpec /\ AgentClientFairness

--------------------------------------------------------------------------------
(* Properties.                                                             *)

\* A wait with a timeout ends, whatever becomes of the query, of the service and of the
\* connection: no pause and no request outlives the budget.
EveryWaitEnds ==
  \A c \in Calls : (Live(c) /\ Does(c, "wait") /\ cli[c].budget # None) ~> ~Live(c)

\* What may keep another call for ever: a connection gone silent without anybody to
\* notice, a wait without a timeout for a query nobody answers, and a Python listing
\* whose next page is always the first.
Endless(c) ==
  \/ At(c, "hung") /\ job[c].sdk = "typescript"
  \/ Does(c, "wait") /\ query \notin {"answered", "expired"}
  \/ Does(c, "list") /\ job[c].sdk = "python" /\ job[c].of = "conversations" /\ job[c].pages = 2

\* Every other call ends, however often it is refused: being refused does not prolong
\* the window, so that even the pages that are repeated without end get through.
EveryRequestEnds ==
  \A c \in Calls : Live(c) ~> (~Live(c) \/ Endless(c))

(* What the repository says and the code does not keep: TLC refutes these. *)

\* "Auto-paginate all conversations" (sdks/typescript/README.md:300): a listing that
\* ends without an error has handed out every page.
WholeListing ==
  \A c \in Calls : Does(c, "list") /\ cli[c].at = "returned" => cli[c].got = 1..job[c].pages

\* "the loop always gives the query one last chance to have been answered before
\* throwing" (client.ts:375): a wait times out only on what it has just read, or on a
\* request that does not return.
LastChance ==
  [][\A c \in Calls : cli[c].at = "polling" => cli'[c].at # "timeout"]_clientVars

\* "a `429` response with a `Retry-After` header" (docs-site authentication.mdx:91).
RefusalSaysWhen ==
  \A c \in Calls : At(c, "refused") => retryAfterHeader(srv[c]) = srv[c].told
================================================================================
