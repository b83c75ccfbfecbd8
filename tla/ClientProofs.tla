------------------------------- MODULE ClientProofs -----------------------------
(***************************************************************************)
(* What an agent's calls may rely on, for any number of calls of one       *)
(* address, any limits, windows, penalties, jobs and budgets: the windows  *)
(* they are counted in (RateLimit) and the SDK's loops (AgentClient).      *)
(***************************************************************************)
EXTENDS AgentClient, TLAPS

--------------------------------------------------------------------------------
(* Windows and penalties *)

Larger(m, n) == IF m > n THEN m ELSE n

\* No window is longer.
Longest == Larger(Larger(Minute, Hour), PenaltyMax)
Span == 1 .. Longest

\* An entry that counts has a time to live, and one that has none counts nothing.
WindowsEnd ==
  /\ \A l \in Limiters : counter[l].value > 0 <=> counter[l].ttl > 0
  /\ penalty.value > 0 <=> penalty.ttl > 0

Entry(life) == [value : Nat, ttl : 0 .. life]

Threads == [at : {"penalty", "count", "punish", "set", "ttl", "handle"}, route : {"agent", "register"},
            limiter : Limiters, window : 0 .. Longest, told : 0 .. PenaltyMax]

\* Where the service is with a request: what it goes on with is fit for the next command.
RequestSound(s) ==
  \/ s \in Threads /\ (s.at \in {"count", "punish", "set", "ttl"} => s.window \in Span) /\ (s.at = "set" => s.told > 0)
  \/ s.at \in {"none", "crashed", "hung", "served"}
  \/ s.at = "refused" /\ s.told \in Span

LimitInv ==
  /\ counter \in [Limiters -> Entry(Longest)]
  /\ penalty \in [value : 0 .. PenaltyMax, ttl : 0 .. PenaltyMax]
  /\ WindowsEnd
  /\ DOMAIN srv = Calls /\ \A c \in Calls : RequestSound(srv[c])

\* What a refusal tells is a wait, and no longer than the longest window.
RefusalsTellAWait == \A c \in Calls : At(c, "refused") => srv[c].told \in Span

USE RateLimitConstants

LEMMA Spans ==
  /\ Longest \in Nat /\ Minute \in Span /\ Hour \in Span
  /\ PenaltyMax <= Longest
BY DEF Longest, Larger, Span

LEMMA LimitStarts == AgentClientInit => LimitInv
<1> SUFFICES ASSUME AgentClientInit PROVE LimitInv
  OBVIOUS
<1>1. \A l \in Limiters : max(l) \in Nat \ {0} /\ windowSeconds(l) \in Span
  BY Spans DEF max, windowSeconds, Limiters
<1>2. counter \in [Limiters -> Entry(Longest)]
  BY <1>1 DEF AgentClientInit, RateLimitInit, Full, Entry, Span
<1>3. penalty = [value |-> 0, ttl |-> 0]
  BY DEF AgentClientInit, RateLimitInit, NoEntry
<1>4. WindowsEnd
  BY <1>1, <1>3 DEF WindowsEnd, AgentClientInit, RateLimitInit, Full, Span
<1>5. DOMAIN srv = Calls /\ \A c \in Calls : RequestSound(srv[c])
  BY DEF AgentClientInit, RateLimitInit, Unsent, RequestSound
<1>6. penalty \in [value : 0 .. PenaltyMax, ttl : 0 .. PenaltyMax]
  BY <1>3
<1> QED BY <1>2, <1>4, <1>5, <1>6 DEF LimitInv

\* A request that goes from one sound place to another leaves the rest as it was.
LEMMA RequestMoves ==
  ASSUME LimitInv, NEW c \in Calls, NEW s, RequestSound(s), srv' = [srv EXCEPT ![c] = s]
  PROVE  DOMAIN srv' = Calls /\ \A d \in Calls : RequestSound(srv'[d])
<1>1. DOMAIN srv' = Calls /\ srv'[c] = s /\ \A d \in Calls : d # c => srv'[d] = srv[d]
  BY DEF LimitInv
<1> QED BY <1>1 DEF LimitInv

\* A command of the limiters.
LEMMA LimitServed ==
  ASSUME LimitInv, NEW c \in Calls, Limit(c)
  PROVE  LimitInv' /\ \A l \in Limiters : counter[l].value > 0 => counter'[l].ttl = counter[l].ttl
<1> DEFINE s == srv[c]
           Kept == \A l \in Limiters : counter[l].value > 0 => counter'[l].ttl = counter[l].ttl
<1>0. RequestSound(s) /\ DOMAIN srv = Calls
  BY DEF LimitInv
<1>1. CASE getPenalty(c)
  <2>1. PICK w \in Span : srv' = [srv EXCEPT ![c] = [s EXCEPT !.at = "count", !.window = w]]
    <3>1. (IF penalty.value > 0 THEN penalty.value ELSE Minute) \in Span
      BY Spans DEF LimitInv, Span
    <3>2. srv' = [srv EXCEPT ![c] = [s EXCEPT !.at = "count",
                    !.window = IF penalty.value > 0 THEN penalty.value ELSE Minute]]
      BY <1>0, <1>1 DEF getPenalty
    <3> QED BY <3>1, <3>2
  <2>2. s \in Threads
    BY <1>0, <1>1 DEF getPenalty, At, RequestSound
  <2> DEFINE r == [s EXCEPT !.at = "count", !.window = w]
  <2>3. RequestSound(r)
    <3>1. w \in 0 .. Longest
      BY Spans DEF Span
    <3>2. r \in Threads /\ r.at = "count" /\ r.window = w
      BY <2>2, <3>1 DEF Threads
    <3> HIDE DEF r
    <3> QED BY <3>2 DEF RequestSound
  <2>4. UNCHANGED <<counter, penalty>>
    BY <1>1 DEF getPenalty
  <2> HIDE DEF s
  <2>5. DOMAIN srv' = Calls /\ \A d \in Calls : RequestSound(srv'[d])
    BY <2>1, <2>3, RequestMoves
  <2> QED BY <2>4, <2>5 DEF LimitInv, WindowsEnd
<1>2. CASE Count(c)
  <2> DEFINE l == s.limiter
             entry == Counted(l, s.window)
             route == s.route
  <2>1. s \in Threads /\ s.window \in Span /\ l \in Limiters /\ route \in {"agent", "register"}
    BY <1>0, <1>2 DEF Count, At, RequestSound, Threads
  <2>2. /\ counter[l] \in Entry(Longest) /\ (counter[l].value > 0 <=> counter[l].ttl > 0)
        /\ max(l) \in Nat
    BY <2>1 DEF LimitInv, WindowsEnd, max, Limiters
  <2>3. entry \in Entry(Longest) /\ entry.value > 0 /\ entry.ttl > 0
        /\ (counter[l].value > 0 => entry.ttl = counter[l].ttl)
    BY <2>1, <2>2, Spans DEF Counted, Up, Entry, Span
  <2>4. PICK r : srv' = [srv EXCEPT ![c] = r] /\ RequestSound(r)
    <3> DEFINE over == [s EXCEPT !.at = IF l \in byAddress THEN "punish" ELSE "ttl"]
               next == Thread("count", route, route, windowSeconds(route), 0)
               through == Thread("handle", route, route, 0, 0)
    <3>1. srv' = [srv EXCEPT ![c] = IF entry.value > max(l) THEN over ELSE IF l # route THEN next ELSE through]
      BY <1>2 DEF Count
    <3>2. RequestSound(over)
      BY <2>1 DEF RequestSound, Threads
    <3>3. RequestSound(next)
      BY <2>1, Spans DEF RequestSound, Threads, Thread, windowSeconds, Limiters, Span
    <3>4. RequestSound(through)
      BY <2>1, Spans DEF RequestSound, Threads, Thread, Limiters
    <3> HIDE DEF over, next, through
    <3> QED BY <3>1, <3>2, <3>3, <3>4
  <2>5. counter' = [counter EXCEPT ![l] = entry] /\ penalty' = penalty
    BY <1>2 DEF Count
  <2> HIDE DEF entry, l
  <2>6. counter' \in [Limiters -> Entry(Longest)] /\ Kept
    BY <2>1, <2>3, <2>5 DEF LimitInv
  <2>7. WindowsEnd'
    BY <2>1, <2>3, <2>5 DEF LimitInv, WindowsEnd
  <2>8. DOMAIN srv' = Calls /\ \A d \in Calls : RequestSound(srv'[d])
    BY <2>4, RequestMoves
  <2> QED BY <2>5, <2>6, <2>7, <2>8 DEF LimitInv
<1>3. CASE ApplyPenaltyRead(c)
  <2>1. PICK n \in 1 .. PenaltyMax : srv' = [srv EXCEPT ![c] = [s EXCEPT !.at = "set", !.told = n]]
    <3> DEFINE p == IF penalty.value > 0 THEN 2 * penalty.value ELSE Minute
    <3>1. Capped(p) \in 1 .. PenaltyMax
      BY DEF LimitInv, Capped
    <3>2. srv' = [srv EXCEPT ![c] = [s EXCEPT !.at = "set", !.told = Capped(p)]]
      BY <1>0, <1>3 DEF ApplyPenaltyRead
    <3> QED BY <3>1, <3>2
  <2>2. s \in Threads /\ s.window \in Span
    BY <1>0, <1>3 DEF ApplyPenaltyRead, At, RequestSound
  <2> DEFINE r == [s EXCEPT !.at = "set", !.told = n]
  <2>3. RequestSound(r)
    <3>0. n \in 0 .. PenaltyMax
      OBVIOUS
    <3>1. r \in Threads /\ r.at = "set" /\ r.window = s.window /\ r.told = n
      BY <2>2, <3>0 DEF Threads
    <3> HIDE DEF r
    <3> QED BY <2>2, <3>1 DEF RequestSound
  <2>4. UNCHANGED <<counter, penalty>>
    BY <1>3 DEF ApplyPenaltyRead
  <2> HIDE DEF s
  <2>5. DOMAIN srv' = Calls /\ \A d \in Calls : RequestSound(srv'[d])
    BY <2>1, <2>3, RequestMoves
  <2> QED BY <2>4, <2>5 DEF LimitInv, WindowsEnd
<1>4. CASE ApplyPenaltySet(c)
  <2>1. s \in Threads /\ s.window \in Span /\ s.told \in 1 .. PenaltyMax
    BY <1>0, <1>4 DEF ApplyPenaltySet, At, RequestSound, Threads
  <2>2. srv' = [srv EXCEPT ![c] = [s EXCEPT !.at = "ttl"]] /\ penalty' = [value |-> s.told, ttl |-> s.told]
        /\ UNCHANGED counter
    BY <1>0, <1>4 DEF ApplyPenaltySet
  <2>3. RequestSound([s EXCEPT !.at = "ttl"])
    BY <2>1 DEF RequestSound, Threads
  <2> HIDE DEF s
  <2>4. DOMAIN srv' = Calls /\ \A d \in Calls : RequestSound(srv'[d])
    BY <2>2, <2>3, RequestMoves
  <2> QED BY <2>1, <2>2, <2>4 DEF LimitInv, WindowsEnd
<1>5. CASE Refuse(c)
  <2>1. s \in Threads /\ s.window \in Span /\ s.limiter \in Limiters
    BY <1>0, <1>5 DEF Refuse, At, RequestSound, Threads
  <2>2. PICK n \in Span : srv' = [srv EXCEPT ![c] = Response("refused", n)]
    <3> DEFINE ttl == counter[s.limiter].ttl
    <3>1. (IF ttl > 0 THEN ttl ELSE s.window) \in Span
      BY <2>1, Spans DEF LimitInv, Entry, Span
    <3>2. srv' = [srv EXCEPT ![c] = Response("refused", IF ttl > 0 THEN ttl ELSE s.window)]
      BY <1>5 DEF Refuse
    <3> QED BY <3>1, <3>2
  <2>3. RequestSound(Response("refused", n))
    BY DEF RequestSound, Response
  <2>4. UNCHANGED <<counter, penalty>>
    BY <1>5 DEF Refuse
  <2>5. DOMAIN srv' = Calls /\ \A d \in Calls : RequestSound(srv'[d])
    BY <2>2, <2>3, RequestMoves
  <2> QED BY <2>4, <2>5 DEF LimitInv, WindowsEnd
<1> QED BY <1>1, <1>2, <1>3, <1>4, <1>5 DEF Limit

\* A tick of Redis's clock.
LEMMA LimitAges ==
  ASSUME LimitInv, Elapse, UNCHANGED srv
  PROVE  LimitInv' /\ \A l \in Limiters : counter[l].value > 0 => counter'[l].ttl < counter[l].ttl
<1>1. ASSUME NEW life \in Nat, NEW v \in SUBSET Nat, 0 \in v, NEW e \in [value : v, ttl : 0 .. life], e.value > 0 <=> e.ttl > 0
      PROVE  /\ Older(e) \in [value : v, ttl : 0 .. life] /\ (Older(e).value > 0 <=> Older(e).ttl > 0)
             /\ e.value > 0 => Older(e).ttl < e.ttl
  BY <1>1 DEF Older, NoEntry
<1>2. ASSUME NEW l \in Limiters
      PROVE  /\ Older(counter[l]) \in Entry(Longest) /\ (Older(counter[l]).value > 0 <=> Older(counter[l]).ttl > 0)
             /\ counter[l].value > 0 => Older(counter[l]).ttl < counter[l].ttl
  BY <1>1, Spans DEF LimitInv, WindowsEnd, Entry
<1>3. /\ Older(penalty) \in [value : 0 .. PenaltyMax, ttl : 0 .. PenaltyMax]
      /\ Older(penalty).value > 0 <=> Older(penalty).ttl > 0
  <2>1. 0 .. PenaltyMax \in SUBSET Nat /\ 0 \in 0 .. PenaltyMax /\ PenaltyMax \in Nat
    OBVIOUS
  <2> QED BY <1>1, <2>1 DEF LimitInv, WindowsEnd
<1>4. counter' = [l \in Limiters |-> Older(counter[l])] /\ penalty' = Older(penalty)
  BY DEF Elapse
<1> QED BY <1>2, <1>3, <1>4 DEF LimitInv, WindowsEnd

--------------------------------------------------------------------------------
(* The SDK *)

USE AgentClientConstants

Running == {"asking", "backoff", "polling"}
Finished == {"returned", "limited", "failed", "timeout", "aborted"}

CliType ==
  [at : {"idle"} \cup Running \cup Finished, tries : 0 .. MaxRetries, timer : Nat,
   interval : 0 .. Larger(PollInterval, MaxPollInterval), budget : Nat \cup {None},
   cursor : {None, "time"}, got : SUBSET {1}]

\* A page is refused, or it is the first.
PageRead(told) == told.page = {} \/ (told.page = {1} /\ told.nextCursor \in {None, "time"})

\* A call in client state x, whose request is at s, about j.
CallSound(x, s, j) ==
  /\ x \in CliType /\ j \in Job \cup {None}
  /\ x.at \in Running => j \in Job
  /\ x.at \in {"idle", "backoff", "polling"} => s = Unsent
  /\ x.at = "backoff" /\ ~(j.op = "list" /\ j.sdk = "typescript") => x.tries < MaxRetries
  /\ x.budget # None => x.at \in Running /\ j.op = "wait" /\ j.budget # None /\ x.budget <= j.budget
  /\ x.at \in Running /\ j.op = "wait" /\ j.budget # None => x.budget # None
  /\ x.at = "polling" /\ x.budget # None => x.timer <= x.budget
  /\ x.at = "asking" /\ s.at = "served" /\ j.op = "list" => PageRead(s.told)

ClientInv ==
  /\ DOMAIN cli = Calls /\ DOMAIN srv = Calls /\ DOMAIN job = Calls
  /\ \A c \in Calls : CallSound(cli[c], srv[c], job[c])

\* Only call c has moved.
Moves(c) ==
  /\ DOMAIN cli' = Calls /\ DOMAIN srv' = Calls /\ DOMAIN job' = Calls
  /\ \A d \in Calls : d # c => cli'[d] = cli[d] /\ srv'[d] = srv[d] /\ job'[d] = job[d]

LEMMA CallMoves ==
  ASSUME ClientInv, NEW c \in Calls, Moves(c), CallSound(cli'[c], srv'[c], job'[c])
  PROVE  ClientInv'
BY DEF ClientInv, Moves

LEMMA IdleTyped == Idle \in CliType /\ Idle.at = "idle" /\ Idle.budget = None
BY DEF Idle, CliType, Larger, Running, Finished

LEMMA ClientStarts == AgentClientInit => ClientInv
<1> SUFFICES ASSUME AgentClientInit, NEW c \in Calls PROVE CallSound(cli[c], srv[c], job[c])
  BY DEF AgentClientInit, RateLimitInit, ClientInv
<1>1. cli[c] = Idle /\ srv[c] = Unsent /\ job[c] = None
  BY DEF AgentClientInit, RateLimitInit
<1> QED BY <1>1, IdleTyped DEF CallSound, Running

\* A call that is over, however it ended.
LEMMA OverSound ==
  ASSUME NEW c \in Calls, ClientInv, NEW how \in Finished, NEW s
  PROVE  CallSound(Over(c, how), s, job[c])
<1>1. cli[c] \in CliType /\ job[c] \in Job \cup {None}
  BY DEF ClientInv, CallSound
<1> DEFINE x == Over(c, how)
<1>2. x \in CliType /\ x.at = how /\ x.budget = None
  <2>1. cli[c].got \in SUBSET {1}
    BY <1>1 DEF CliType
  <2> QED BY <2>1, IdleTyped DEF Over, CliType
<1> HIDE DEF x
<1> QED BY <1>1, <1>2 DEF CallSound, Running, Finished, x

\* A call that asks, once more or for the first time.
LEMMA AskSound ==
  ASSUME NEW x \in CliType, NEW j \in Job,
         x.budget # None => j.op = "wait" /\ j.budget # None /\ x.budget <= j.budget,
         j.op = "wait" /\ j.budget # None => x.budget # None
  PROVE  CallSound([x EXCEPT !.at = "asking"], Arrival(Route(j)), j)
<1> DEFINE y == [x EXCEPT !.at = "asking"]
<1>1. y \in CliType /\ y.at = "asking" /\ y.budget = x.budget
  BY DEF CliType, Running
<1>2. Arrival(Route(j)).at = "penalty"
  BY DEF Arrival, Thread
<1>3. CallSound(y, Arrival(Route(j)), j)
  <2> HIDE DEF y
  <2> QED BY <1>1, <1>2 DEF CallSound, Running
<1> QED BY <1>3

\* The first request of a call.
LEMMA StartStep ==
  ASSUME ClientInv, NEW c \in Calls, NEW j \in Jobs[c], Start(c, j)
  PROVE  ClientInv'
<1> DEFINE x == [cli[c] EXCEPT !.budget = IF j.op = "wait" THEN j.budget ELSE None]
<1>1. j \in Job /\ (j.op = "wait" => j.budget \in Nat \cup {None})
  BY DEF Job, Registering, Requesting, Waiting, Listing
<1>2. cli[c] \in CliType
  BY DEF ClientInv, CallSound
<1>3. x \in CliType /\ x.budget = IF j.op = "wait" THEN j.budget ELSE None
  BY <1>1, <1>2 DEF CliType
<1>4. job' = [job EXCEPT ![c] = j] /\ job'[c] = j
  BY DEF Start, ClientInv
<1>5. cli' = [cli EXCEPT ![c] = [x EXCEPT !.at = "asking"]] /\ srv' = [srv EXCEPT ![c] = Arrival(Route(j))]
  BY <1>4 DEF Start, Ask, Client
<1> HIDE DEF x
<1>6. CallSound([x EXCEPT !.at = "asking"], Arrival(Route(j)), j)
  BY <1>1, <1>3, AskSound
<1>7. Moves(c) /\ cli'[c] = [x EXCEPT !.at = "asking"] /\ srv'[c] = Arrival(Route(j))
  BY <1>4, <1>5 DEF ClientInv, Moves
<1> QED BY <1>4, <1>6, <1>7, CallMoves

\* A call that goes on keeps its budget.
KeepsBudget(c) == cli'[c].at \in Running => cli'[c].budget = cli[c].budget

\* The SDK's steps with one call.
LEMMA RunStep ==
  ASSUME ClientInv, NEW c \in Calls, Run(c) \/ AbortedByCaller(c)
  PROVE  ClientInv' /\ Moves(c) /\ KeepsBudget(c)
<1> DEFINE x == cli[c]
           s == srv[c]
           j == job[c]
<1>0. CallSound(x, s, j) /\ DOMAIN cli = Calls /\ DOMAIN srv = Calls /\ DOMAIN job = Calls
      /\ x \in CliType
  BY DEF ClientInv, CallSound
<1>1. ASSUME NEW how \in Finished, Client(c, Over(c, how)), job' = job,
             srv' = srv \/ srv' = [srv EXCEPT ![c] = Unsent]
      PROVE  ClientInv' /\ Moves(c) /\ KeepsBudget(c)
  <2>1. Moves(c) /\ cli'[c] = Over(c, how) /\ job'[c] = j
    BY <1>0, <1>1 DEF Client, Moves
  <2>2. CallSound(Over(c, how), srv'[c], j) /\ Over(c, how).at = how
    BY OverSound, IdleTyped DEF Over, CliType
  <2> QED BY <2>1, <2>2, CallMoves DEF KeepsBudget, Running, Finished
<1>2. ASSUME NEW y, CallSound(y, Unsent, j), Client(c, y), Read(c), y.at \in Running => y.budget = x.budget
      PROVE  ClientInv' /\ Moves(c) /\ KeepsBudget(c)
  <2>1. Moves(c) /\ cli'[c] = y /\ job'[c] = j /\ srv'[c] = Unsent
    BY <1>0, <1>2 DEF Client, Read, Moves
  <2> QED BY <1>2, <2>1, CallMoves DEF KeepsBudget
<1>3. ASSUME NEW y \in CliType, y.budget = x.budget, x.at \in Running, job' = job, Ask(c, y)
      PROVE  ClientInv' /\ Moves(c) /\ KeepsBudget(c)
  <2>1. Moves(c) /\ cli'[c] = [y EXCEPT !.at = "asking"] /\ job'[c] = j /\ srv'[c] = Arrival(Route(j))
    BY <1>0, <1>3 DEF Client, Ask, Moves
  <2>2. CallSound([y EXCEPT !.at = "asking"], Arrival(Route(j)), j)
    BY <1>0, <1>3, AskSound DEF CallSound
  <2>3. [y EXCEPT !.at = "asking"].budget = y.budget
    BY DEF CliType
  <2> QED BY <1>3, <2>1, <2>2, <2>3, CallMoves DEF KeepsBudget
<1>4. CASE Refused(c)
  <2>1. x.at = "asking" /\ Read(c)
    BY <1>4 DEF Refused
  <2>2. CASE MayRepeat(c)
    <3> DEFINE y == [x EXCEPT !.at = "backoff", !.timer = parseRetryAfter(s)]
    <3>1. Client(c, y)
      BY <1>4, <2>2 DEF Refused
    <3>2. y \in CliType /\ y.at = "backoff" /\ y.budget = x.budget /\ y.tries = x.tries
      BY <1>0 DEF CliType, Running, parseRetryAfter, retryAfterHeader
    <3>3. (j.op = "list" /\ j.sdk = "typescript") \/ x.tries < MaxRetries
      BY <2>2 DEF MayRepeat, Does
    <3> HIDE DEF y
    <3>4. CallSound(y, Unsent, j)
      BY <1>0, <2>1, <3>2, <3>3 DEF CallSound, Running
    <3> QED BY <1>2, <2>1, <3>1, <3>2, <3>4
  <2>3. CASE ~MayRepeat(c)
    BY <1>1, <1>4, <2>1, <2>3 DEF Refused, Read, Finished
  <2> QED BY <2>2, <2>3
<1>5. CASE Repeat(c)
  <2> DEFINE y == [x EXCEPT !.tries = IF CountsTries(c) THEN @ + 1 ELSE @]
  <2>1. x.at = "backoff" /\ j # None
    BY <1>0, <1>5 DEF Repeat, CallSound, Running
  <2>2. job' = job /\ Ask(c, y)
    BY <1>5 DEF Repeat
  <2>3. CountsTries(c) => x.tries < MaxRetries
    BY <1>0, <2>1 DEF CountsTries, Does, CallSound
  <2>4. y \in CliType /\ y.budget = x.budget
    BY <1>0, <2>3 DEF CliType
  <2> HIDE DEF y
  <2> QED BY <1>3, <2>1, <2>2, <2>4 DEF Running
<1>6. CASE Returned(c) \/ PageInvalid(c) \/ WaitAnswered(c)
  BY <1>1, <1>6 DEF Returned, PageInvalid, WaitAnswered, Read, Finished
<1>7. CASE NextPage(c)
  <2> DEFINE page == s.told
             y == [x EXCEPT !.got = @ \cup page.page, !.cursor = page.nextCursor, !.tries = 0]
  <2>1. x.at = "asking" /\ page.page # {} /\ PageRead(page)
    BY <1>0, <1>7 DEF NextPage, Served, At, Does, CallSound
  <2>2. y \in CliType /\ y.budget = x.budget /\ y.got \in SUBSET {1}
    <3>1. page.page = {1} /\ page.nextCursor \in {None, "time"}
      BY <2>1 DEF PageRead
    <3>2. x.got \cup page.page \in SUBSET {1} /\ 0 \in 0 .. MaxRetries
      BY <1>0, <3>1 DEF CliType
    <3> HIDE DEF page
    <3> QED BY <1>0, <3>1, <3>2 DEF CliType
  <2>3. CASE GoesOn(j, page)
    <3>1. job' = job /\ Ask(c, y)
      BY <1>7, <2>3 DEF NextPage
    <3> HIDE DEF y
    <3> QED BY <1>3, <2>1, <2>2, <3>1 DEF Running
  <2>4. CASE ~GoesOn(j, page)
    <3> DEFINE over == Over(c, "returned")
               z == [over EXCEPT !.got = y.got]
    <3>1. Client(c, z) /\ Read(c)
      BY <1>7, <2>4 DEF NextPage
    <3>2. CallSound(over, Unsent, j)
      BY OverSound DEF Finished
    <3>3. over.at = "returned"
      BY IdleTyped DEF Over, CliType
    <3> HIDE DEF over, y
    <3>4. z \in CliType /\ z.at = over.at /\ z.budget = over.budget
      BY <2>2, <3>2 DEF CallSound, CliType
    <3> HIDE DEF z
    <3>5. CallSound(z, Unsent, j)
      BY <3>2, <3>3, <3>4 DEF CallSound, Running
    <3> QED BY <1>2, <3>1, <3>3, <3>4, <3>5 DEF Running
  <2> QED BY <2>3, <2>4
<1>8. CASE WaitOn(c)
  <2>1. x.at = "asking" /\ Read(c)
    BY <1>8 DEF WaitOn, Served
  <2>2. CASE OutOfTime(c)
    BY <1>1, <1>8, <2>1, <2>2 DEF WaitOn, Read, Finished
  <2>3. CASE ~OutOfTime(c)
    <3> DEFINE i == x.interval
               pause == IF x.budget = None THEN i ELSE Least(i, x.budget)
               y == [x EXCEPT !.at = "polling", !.tries = 0, !.timer = pause, !.interval = Least(2 * i, MaxPollInterval)]
    <3>1. Client(c, y)
      BY <1>8, <2>3 DEF WaitOn
    <3>2. /\ x.interval \in 0 .. Larger(PollInterval, MaxPollInterval) /\ x.budget \in Nat \cup {None}
          /\ Larger(PollInterval, MaxPollInterval) \in Nat /\ MaxPollInterval <= Larger(PollInterval, MaxPollInterval)
      BY <1>0 DEF CliType, Larger
    <3>3. /\ pause \in Nat /\ (x.budget # None => pause <= x.budget)
          /\ Least(2 * i, MaxPollInterval) \in 0 .. Larger(PollInterval, MaxPollInterval)
      BY <3>2 DEF Least
    <3> HIDE DEF pause
    <3>4. y \in CliType /\ y.at = "polling" /\ y.budget = x.budget /\ y.timer = pause
      <4>1. 0 \in 0 .. MaxRetries
        OBVIOUS
      <4> QED BY <1>0, <3>3, <4>1 DEF CliType, Running
    <3> HIDE DEF y
    <3>5. CallSound(y, Unsent, j)
      BY <1>0, <2>1, <3>3, <3>4 DEF CallSound, Running
    <3> QED BY <1>2, <2>1, <3>1, <3>4, <3>5
  <2> QED BY <2>2, <2>3
<1>9. CASE PollAgain(c)
  <2>1. CASE OutOfTime(c)
    BY <1>1, <1>9, <2>1 DEF PollAgain, End, limitVars, Finished
  <2>2. CASE ~OutOfTime(c)
    BY <1>0, <1>3, <1>9, <2>2 DEF PollAgain, Running
  <2> QED BY <2>1, <2>2
<1>10. CASE TimedOut(c) \/ ConnectionFails(c) \/ AbortedByCaller(c)
  BY <1>1, <1>10 DEF TimedOut, ConnectionFails, AbortedByCaller, End, limitVars, Finished
<1> QED BY <1>4, <1>5, <1>6, <1>7, <1>8, <1>9, <1>10 DEF Run

\* What the service does with a request concerns nobody but the call that waits for it.
LEMMA ServeStep ==
  ASSUME ClientInv, LimitInv, NEW c \in Calls, Serve(c) \/ (Crash(c) /\ UNCHANGED <<job, cli, query>>)
  PROVE  ClientInv'
<1> DEFINE x == cli[c]
           s == srv[c]
           j == job[c]
<1>0. CallSound(x, s, j) /\ DOMAIN cli = Calls /\ DOMAIN srv = Calls /\ DOMAIN job = Calls
  BY DEF ClientInv
<1>1. s.at \in {"penalty", "count", "punish", "set", "ttl", "handle"} /\ s # Unsent
  BY DEF Serve, Limit, getPenalty, Count, ApplyPenaltyRead, ApplyPenaltySet, Refuse, Handle, Crash, UnderWay, At, Unsent
<1>2. UNCHANGED <<cli, job>>
  BY DEF Serve, Handle
<1>3. PICK r : srv' = [srv EXCEPT ![c] = r] /\ (r.at = "served" /\ j.op = "list" /\ j \in Job => PageRead(r.told))
  <2>1. CASE getPenalty(c)
    <3> DEFINE r == [s EXCEPT !.at = "count", !.window = IF penalty.value > 0 THEN penalty.value ELSE Minute]
    <3>1. s \in Threads
      BY <2>1 DEF LimitInv, RequestSound, getPenalty, At
    <3>2. r.at = "count"
      BY <3>1 DEF Threads
    <3>3. srv' = [srv EXCEPT ![c] = r]
      BY <1>0, <2>1 DEF getPenalty
    <3> QED BY <3>2, <3>3
  <2>2. CASE Count(c)
    <3> DEFINE l == s.limiter
               over == [s EXCEPT !.at = IF l \in byAddress THEN "punish" ELSE "ttl"]
               next == Thread("count", s.route, s.route, windowSeconds(s.route), 0)
               through == Thread("handle", s.route, s.route, 0, 0)
    <3>1. s \in Threads
      BY <2>2 DEF LimitInv, RequestSound, Count, At
    <3>2. over.at # "served" /\ next.at # "served" /\ through.at # "served"
      BY <3>1 DEF Threads, Thread
    <3>3. srv' = [srv EXCEPT ![c] = IF Counted(l, s.window).value > max(l) THEN over ELSE IF l # s.route THEN next ELSE through]
      BY <2>2 DEF Count
    <3> HIDE DEF over, next, through
    <3> QED BY <3>2, <3>3
  <2>3. CASE ApplyPenaltyRead(c)
    <3> DEFINE r == [s EXCEPT !.at = "set", !.told = Capped(IF penalty.value > 0 THEN 2 * penalty.value ELSE Minute)]
    <3>1. s \in Threads
      BY <2>3 DEF LimitInv, RequestSound, ApplyPenaltyRead, At
    <3>2. r.at = "set"
      BY <3>1 DEF Threads
    <3>3. srv' = [srv EXCEPT ![c] = r]
      BY <1>0, <2>3 DEF ApplyPenaltyRead
    <3> QED BY <3>2, <3>3
  <2>4. CASE ApplyPenaltySet(c)
    <3>1. s \in Threads
      BY <2>4 DEF LimitInv, RequestSound, ApplyPenaltySet, At
    <3>2. [s EXCEPT !.at = "ttl"].at = "ttl"
      BY <3>1 DEF Threads
    <3>3. srv' = [srv EXCEPT ![c] = [s EXCEPT !.at = "ttl"]]
      BY <1>0, <2>4 DEF ApplyPenaltySet
    <3> QED BY <3>2, <3>3
  <2>5. CASE Refuse(c)
    <3> DEFINE r == Response("refused", IF counter[s.limiter].ttl > 0 THEN counter[s.limiter].ttl ELSE s.window)
    <3>1. r.at = "refused"
      BY DEF Response
    <3>2. srv' = [srv EXCEPT ![c] = r]
      BY <2>5 DEF Refuse
    <3> QED BY <3>1, <3>2
  <2>6. CASE Handle(c)
    <3> DEFINE told == IF Does(c, "wait") THEN query ELSE IF Does(c, "list") THEN Page(j, x.cursor) ELSE None
    <3>1. srv' = [srv EXCEPT ![c] = Response("served", told)]
      BY <2>6 DEF Handle
    <3>2. ASSUME j.op = "list", j \in Job PROVE PageRead(told)
      <4>1. told = Page(j, x.cursor)
        BY <3>2 DEF Does
      <4> QED BY <4>1 DEF Page, PageRead, paginationQuery, listAgentConversations, listMessages
    <3>3. Response("served", told).told = told
      BY DEF Response
    <3> HIDE DEF told
    <3> QED BY <3>1, <3>2, <3>3
  <2>7. CASE Crash(c)
    <3>1. PICK end \in {"crashed", "hung"} : srv' = [srv EXCEPT ![c] = [at |-> end]]
      BY <2>7 DEF Crash
    <3>2. [at |-> end].at # "served"
      OBVIOUS
    <3> QED BY <3>1, <3>2
  <2> QED BY <2>1, <2>2, <2>3, <2>4, <2>5, <2>6, <2>7 DEF Serve, Limit
<1>4. CallSound(x, r, j)
  BY <1>0, <1>1, <1>3 DEF CallSound, Running
<1>5. Moves(c) /\ srv'[c] = r
  BY <1>0, <1>2, <1>3 DEF Moves
<1> QED BY <1>2, <1>4, <1>5, CallMoves

\* Time passes for every call at once.
LEMMA TickStep ==
  ASSUME ClientInv, Tick
  PROVE  ClientInv'
<1>0. DOMAIN cli' = Calls /\ UNCHANGED <<srv, job>>
  BY DEF Tick
<1> SUFFICES ASSUME NEW c \in Calls PROVE CallSound(cli'[c], srv[c], job[c])
  BY <1>0 DEF ClientInv
<1> DEFINE x == cli[c]
           y == [x EXCEPT !.timer = Sooner(@), !.budget = IF Live(c) THEN Sooner(@) ELSE @]
<1>1. CallSound(x, srv[c], job[c]) /\ x \in CliType
  BY DEF ClientInv, CallSound
<1>2. cli'[c] = y
  BY DEF Tick
<1>3. /\ \A n \in Nat : Sooner(n) \in Nat /\ Sooner(n) <= n
      /\ Sooner(None) = None
  BY DEF Sooner
<1>4. Live(c) <=> x.at \in Running
  BY DEF Live, Running
<1>5. x.timer \in Nat /\ x.budget \in Nat \cup {None}
  BY <1>1 DEF CliType
<1>6. /\ y \in CliType /\ y.at = x.at /\ y.tries = x.tries /\ y.timer = Sooner(x.timer)
      /\ y.budget = IF Live(c) THEN Sooner(x.budget) ELSE x.budget
  BY <1>1, <1>3, <1>5 DEF CliType
<1>7. /\ y.budget = None <=> x.budget = None
      /\ x.budget # None => y.budget \in Nat /\ x.budget \in Nat /\ y.budget <= x.budget
  BY <1>3, <1>5, <1>6
<1>8. x.at = "polling" /\ x.budget # None => y.timer <= y.budget
  <2>1. \A m, n \in Nat : m <= n => Sooner(m) <= Sooner(n)
    BY DEF Sooner
  <2> QED BY <1>1, <1>4, <1>5, <1>6, <2>1 DEF CallSound, Running
<1>9. x.budget # None => job[c].budget \in Nat
  BY <1>1 DEF CallSound, Running, Job, Registering, Requesting, Waiting, Listing
<1> HIDE DEF y
<1> QED BY <1>1, <1>2, <1>6, <1>7, <1>8, <1>9 DEF CallSound

--------------------------------------------------------------------------------
(* The two together *)

\* A client that asks or reads, and a service that hands over or dies, leave every
\* counter alone and the request at a sound place.
LEMMA LimitKept ==
  ASSUME LimitInv, UNCHANGED <<counter, penalty>>, NEW c \in Calls, NEW s, RequestSound(s),
         srv' = srv \/ srv' = [srv EXCEPT ![c] = s]
  PROVE  LimitInv'
<1>1. DOMAIN srv' = Calls /\ \A d \in Calls : RequestSound(srv'[d])
  <2>1. CASE srv' = srv
    BY <2>1 DEF LimitInv
  <2>2. CASE srv' = [srv EXCEPT ![c] = s]
    BY <2>2, RequestMoves
  <2> QED BY <2>1, <2>2
<1> QED BY <1>1 DEF LimitInv, WindowsEnd

LEMMA ArrivalSound == \A j : RequestSound(Arrival(Route(j))) /\ RequestSound(Unsent)
<1>1. RequestSound(Unsent)
  BY DEF RequestSound, Unsent
<1>2. ASSUME NEW j PROVE RequestSound(Arrival(Route(j)))
  <2>1. Route(j) \in {"agent", "register"} /\ Minute \in 0 .. Longest /\ 0 \in 0 .. PenaltyMax
    BY Spans DEF Route, Span
  <2> QED BY <2>1 DEF Arrival, Thread, RequestSound, Threads, Limiters
<1> QED BY <1>1, <1>2

\* No step of a client touches a counter.
LEMMA ClientLeaves ==
  ASSUME LimitInv, NEW c \in Calls,
         \/ \E j \in Jobs[c] : Start(c, j)
         \/ Run(c)
         \/ AbortedByCaller(c)
  PROVE  LimitInv' /\ UNCHANGED <<counter, penalty>>
<1>1. ASSUME NEW x, Ask(c, x) PROVE LimitInv' /\ UNCHANGED <<counter, penalty>>
  BY <1>1, ArrivalSound, LimitKept DEF Ask
<1>2. ASSUME Read(c) PROVE LimitInv' /\ UNCHANGED <<counter, penalty>>
  BY <1>2, ArrivalSound, LimitKept DEF Read
<1>3. ASSUME NEW how, End(c, how) PROVE LimitInv' /\ UNCHANGED <<counter, penalty>>
  BY <1>3, ArrivalSound, LimitKept DEF End, limitVars
<1>4. CASE \E j \in Jobs[c] : Start(c, j)
  BY <1>1, <1>4 DEF Start
<1>5. CASE Refused(c) \/ Returned(c) \/ PageInvalid(c) \/ WaitAnswered(c) \/ WaitOn(c)
  BY <1>2, <1>5 DEF Refused, Returned, PageInvalid, WaitAnswered, WaitOn
<1>6. CASE Repeat(c)
  BY <1>1, <1>6 DEF Repeat
<1>7. CASE NextPage(c)
  BY <1>1, <1>2, <1>7 DEF NextPage
<1>8. CASE PollAgain(c)
  BY <1>1, <1>3, <1>8 DEF PollAgain
<1>9. CASE TimedOut(c) \/ ConnectionFails(c) \/ AbortedByCaller(c)
  BY <1>3, <1>9 DEF TimedOut, ConnectionFails, AbortedByCaller
<1> QED BY <1>4, <1>5, <1>6, <1>7, <1>8, <1>9 DEF Run

\* A handler that answers, or a process that dies, leaves the counters as well.
LEMMA ServiceLeaves ==
  ASSUME LimitInv, NEW c \in Calls, Handle(c) \/ Crash(c)
  PROVE  LimitInv' /\ UNCHANGED <<counter, penalty>>
<1>1. CASE Handle(c)
  <2>1. PICK told : srv' = [srv EXCEPT ![c] = Response("served", told)]
    BY <1>1 DEF Handle
  <2>2. RequestSound(Response("served", told))
    BY DEF RequestSound, Response
  <2> QED BY <1>1, <2>1, <2>2, LimitKept DEF Handle
<1>2. CASE Crash(c)
  <2>1. PICK end \in {"crashed", "hung"} : srv' = [srv EXCEPT ![c] = [at |-> end]]
    BY <1>2 DEF Crash
  <2>2. RequestSound([at |-> end])
    BY DEF RequestSound
  <2> QED BY <1>2, <2>1, <2>2, LimitKept DEF Crash
<1> QED BY <1>1, <1>2

\* A window that is open is never prolonged, and a tick brings its end nearer.
RunsDown ==
  /\ \A l \in Limiters : counter[l].value > 0 => counter'[l].ttl <= counter[l].ttl
  /\ Tick => \A l \in Limiters : counter[l].value > 0 => counter'[l].ttl < counter[l].ttl

\* What a call that goes on has left of its budget.
SpendsBudget ==
  \A c \in Calls :
    Live(c) /\ Live(c)' => cli'[c].budget = IF Tick THEN Sooner(cli[c].budget) ELSE cli[c].budget

ClientsInv == LimitInv /\ ClientInv

LEMMA ClientsStep ==
  ASSUME ClientsInv, [AgentClientNext]_clientVars
  PROVE  ClientsInv' /\ RunsDown /\ SpendsBudget
<1>0. \A l \in Limiters : counter[l].ttl \in Nat
  BY Spans DEF ClientsInv, LimitInv, Entry
<1>a. \A c \in Calls : (Live(c) <=> cli[c].at \in Running) /\ (Live(c)' <=> cli'[c].at \in Running)
  BY DEF Live, Running
<1>1. CASE Tick
  <2>1. LimitInv' /\ \A l \in Limiters : counter[l].value > 0 => counter'[l].ttl < counter[l].ttl
    BY <1>1, LimitAges DEF ClientsInv, Tick
  <2>2. LimitInv' => \A l \in Limiters : counter'[l].ttl \in Nat
    BY Spans DEF LimitInv, Entry
  <2>3. SpendsBudget
    <3> SUFFICES ASSUME NEW c \in Calls, Live(c) PROVE cli'[c].budget = Sooner(cli[c].budget)
      BY <1>1 DEF SpendsBudget
    <3>1. cli'[c] = [cli[c] EXCEPT !.timer = Sooner(@), !.budget = Sooner(@)]
      BY <1>1 DEF Tick
    <3>2. cli[c] \in CliType
      BY DEF ClientsInv, ClientInv, CallSound
    <3> QED BY <3>1, <3>2 DEF CliType
  <2> QED BY <1>0, <1>1, <2>1, <2>2, <2>3, TickStep DEF ClientsInv, RunsDown
<1> DEFINE Still == \A l \in Limiters : counter[l].value > 0 => counter'[l].ttl = counter[l].ttl
<1>2. ASSUME ~Tick, Still PROVE RunsDown
  BY <1>0, <1>2 DEF RunsDown
<1>3. ASSUME ~Tick, NEW c \in Calls, Moves(c), Live(c) => KeepsBudget(c) PROVE SpendsBudget
  <2> SUFFICES ASSUME NEW d \in Calls, Live(d), Live(d)' PROVE cli'[d].budget = cli[d].budget
    BY <1>3 DEF SpendsBudget
  <2> QED BY <1>3, <1>a DEF Moves, KeepsBudget
<1>4. CASE ~Tick /\ \E c \in Calls : Run(c) \/ AbortedByCaller(c)
  BY <1>2, <1>3, <1>4, RunStep, ClientLeaves DEF ClientsInv
<1>5. CASE ~Tick /\ \E c \in Calls : \E j \in Jobs[c] : Start(c, j)
  <2> PICK c \in Calls : \E j \in Jobs[c] : Start(c, j)
    BY <1>5
  <2> PICK j \in Jobs[c] : Start(c, j)
    OBVIOUS
  <2>1. ClientsInv' /\ Still
    BY StartStep, ClientLeaves DEF ClientsInv
  <2>2. ~Live(c) /\ Moves(c)
    BY DEF Start, Live, Ask, Client, ClientsInv, ClientInv, Moves
  <2> QED BY <1>2, <1>3, <1>5, <2>1, <2>2
<1>6. CASE ~Tick /\ UNCHANGED <<job, cli, query>> /\ \E c \in Calls : Limit(c) \/ Handle(c) \/ Crash(c)
  <2> PICK c \in Calls : Limit(c) \/ Handle(c) \/ Crash(c)
    BY <1>6
  <2>1. LimitInv' /\ Still
    BY LimitServed, ServiceLeaves DEF ClientsInv
  <2>2. ClientInv'
    BY <1>6, ServeStep DEF ClientsInv, Serve
  <2>3. SpendsBudget
    BY <1>6 DEF SpendsBudget
  <2> QED BY <1>2, <1>6, <2>1, <2>2, <2>3 DEF ClientsInv
<1>7. CASE ~Tick /\ (UNCHANGED clientVars \/ \E status \in {"answered", "cancelled"} : Settle(status))
  <2>1. UNCHANGED <<counter, penalty, srv, job, cli>>
    BY <1>7 DEF clientVars, limitVars, Settle
  <2>2. ClientsInv' /\ Still
    BY <2>1 DEF ClientsInv, LimitInv, WindowsEnd, ClientInv
  <2>3. SpendsBudget
    BY <1>7, <2>1 DEF SpendsBudget
  <2> QED BY <1>2, <1>7, <2>2, <2>3
<1> QED BY <1>1, <1>4, <1>5, <1>6, <1>7 DEF AgentClientNext, Serve, Handle

\* The inductive invariant of the windows and of every call.
THEOREM ClientsCorrect == AgentClientSpec => []ClientsInv
<1>1. AgentClientInit => ClientsInv
  BY LimitStarts, ClientStarts DEF ClientsInv
<1>2. ClientsInv /\ [AgentClientNext]_clientVars => ClientsInv'
  BY ClientsStep
<1> QED BY <1>1, <1>2, PTL DEF AgentClientSpec

\* A refusal, and the penalty an address earns by it, never prolong a window that is
\* open, and every tick brings its end nearer: so a client that repeats without end gets
\* through, which is what EveryRequestEnds rests on.
THEOREM RefusalsNeverProlong == AgentClientSpec => [][RunsDown]_clientVars
<1>1. ClientsInv /\ [AgentClientNext]_clientVars => [RunsDown]_clientVars
  BY ClientsStep
<1> QED BY <1>1, ClientsCorrect, PTL DEF AgentClientSpec

\* A refusal tells its client a wait that is not nothing, and no longer than the longest
\* window or penalty, though a counter may be gone by the time it is read.
THEOREM RefusalsAreSound == AgentClientSpec => []RefusalsTellAWait
<1>1. ClientsInv => RefusalsTellAWait
  BY DEF ClientsInv, LimitInv, RequestSound, Threads, RefusalsTellAWait, At
<1> QED BY <1>1, ClientsCorrect, PTL

\* No pause between two looks at the query outlasts what is left of the budget.
SleepsWithinBudget ==
  \A c \in Calls : cli[c].at = "polling" /\ cli[c].budget # None => cli[c].timer <= cli[c].budget

\* The budget of a wait is set once and only time spends it, through every pause, refusal
\* and repetition, and no pause outlasts it: what EveryWaitEnds rests on.
THEOREM BudgetsHold == AgentClientSpec => []SleepsWithinBudget /\ [][SpendsBudget]_clientVars
<1>1. ClientsInv => SleepsWithinBudget
  BY DEF ClientsInv, ClientInv, CallSound, SleepsWithinBudget
<1>2. ClientsInv /\ [AgentClientNext]_clientVars => [SpendsBudget]_clientVars
  BY ClientsStep
<1> QED BY <1>1, <1>2, ClientsCorrect, PTL DEF AgentClientSpec

\* A call has one request under way and no more: while it pauses, the last one has been
\* read, so that no response can be taken for the answer to a later request.
OneAtATime == \A c \in Calls : cli[c].at \in {"idle", "backoff", "polling"} => srv[c] = Unsent

\* A call repeats a request MaxRetries times at most, but for the pages of the TypeScript SDK.
RetriesBounded ==
  \A c \in Calls :
    /\ cli[c].tries <= MaxRetries
    /\ cli[c].at = "backoff" /\ CountsTries(c) => cli[c].tries < MaxRetries

\* What a listing has handed out lies on the first page: the pages after it, whatever
\* their number, are refused or are the first once more (see WholeListing).
FirstPageOnly == \A c \in Calls : cli[c].got \subseteq {1}

\* Of every call, whatever its kind: its responses are told apart, its repetitions are
\* counted, and a listing never gets beyond its first page.
THEOREM CallsAreSound == AgentClientSpec => [](OneAtATime /\ RetriesBounded /\ FirstPageOnly)
<1>1. ClientsInv => OneAtATime /\ FirstPageOnly
  BY DEF ClientsInv, ClientInv, CallSound, CliType, OneAtATime, FirstPageOnly
<1>2. ClientsInv => RetriesBounded
  <2> SUFFICES ASSUME ClientsInv, NEW c \in Calls
               PROVE  /\ cli[c].tries <= MaxRetries
                      /\ cli[c].at = "backoff" /\ CountsTries(c) => cli[c].tries < MaxRetries
    BY DEF RetriesBounded
  <2>1. CallSound(cli[c], srv[c], job[c])
    BY DEF ClientsInv, ClientInv
  <2>2. cli[c].tries \in 0 .. MaxRetries
    BY <2>1 DEF CallSound, CliType
  <2>3. cli[c].at = "backoff" => job[c] # None
    BY <2>1 DEF CallSound, Running
  <2> QED BY <2>1, <2>2, <2>3 DEF CallSound, CountsTries, Does
<1> QED BY <1>1, <1>2, ClientsCorrect, PTL
====
