-------------------------------- MODULE QueryLink ------------------------------
(***************************************************************************)
(* The one-click link of a query: the grant that is minted with the query  *)
(* (services/query-grant.service.ts), the public route that answers with   *)
(* it (routes/public/queries.ts), and the page the link opens              *)
(* (web/src/pages/PublicQueryPage.tsx), in several tabs.                   *)
(*                                                                         *)
(* The query itself is reduced to the fields the link depends on; everyone *)
(* who moves it otherwise is an action of the last section.  HumanQuery    *)
(* has the statements behind those moves.                                  *)
(***************************************************************************)
EXTENDS Naturals

CONSTANTS
  Tabs,        \* browser tabs that may open the link
  Answers,    \* answers the tabs send; each is sent at most once
  App,         \* the person, answering in the app after signing in
  None,
  Risks,       \* risks the query may be created with
  Timeout,     \* timeout_minutes of the query, in ticks
  MaxRounds,   \* MAX_CLARIFICATION_ROUNDS
  MaxNow       \* bound on the clock

ASSUME LinkConstants ==
  /\ None \notin Nat \cup Answers \cup {App}
  /\ App \notin Answers
  /\ Risks \subseteq {"low", "medium", "high", "critical"}
  /\ Timeout \in Nat \ {0}
  /\ MaxRounds \in Nat
  /\ MaxNow \in Nat

VARIABLES
  now,
  status, decision, expiresAt, pausedAt, rounds, risk,   \* of the human_queries row
  grant,     \* the query_grants row
  mailed,    \* whether the email with the link has arrived
  human,     \* whether the address has a row in humans
  tab,       \* what each tab shows, and the request it waits for
  req        \* how far the server is with each request

queryRow == <<status, decision, expiresAt, pausedAt, rounds, risk>>
linkVars == <<now, queryRow, grant, mailed, human, tab, req>>

--------------------------------------------------------------------------------
Risk    == {"low", "medium", "high", "critical"}
Open    == {"pending", "assigned", "needs_context"}
Settled == {"answered", "expired", "cancelled"}
Outcome == {"answer", "insufficient_context"}

Grant   == [state : {"live", "consumed"}, expiresAt : Nat]
NoGrant == [state |-> "none"]

Shows   == {"closed", "loading", "ready", "sending", "answered", "returned", "gone"}

Serving == {"resolve", "human", "insert", "read", "write", "consume"}
Replies == {"ok", "unauthorized", "failed"}
Request == [step : Serving \cup Replies \cup {"done"}, tab : Tabs, outcome : Outcome,
            read : {"absent"} \cup Open, rounds : Nat]
Unsent  == [step |-> "unsent"]

LinkTypeOK ==
  /\ now \in Nat
  /\ status \in {"absent"} \cup Open \cup Settled
  /\ decision \in Answers \cup {App, None}
  /\ expiresAt \in Nat
  /\ pausedAt \in Nat \cup {None}
  /\ rounds \in Nat
  /\ risk \in Risk
  /\ grant \in Grant \cup {NoGrant}
  /\ mailed \in BOOLEAN
  /\ human \in BOOLEAN
  /\ tab \in [Tabs -> [shows : Shows, awaits : Answers \cup {None}]]
  /\ req \in [Answers -> Request \cup {Unsent}]

LinkInit ==
  /\ now = 0
  /\ status = "absent" /\ decision = None
  /\ expiresAt = 0 /\ pausedAt = None /\ rounds = 0 /\ risk = "low"
  /\ grant = NoGrant
  /\ mailed = FALSE
  /\ human \in BOOLEAN
  /\ tab = [t \in Tabs |-> [shows |-> "closed", awaits |-> None]]
  /\ req = [r \in Answers |-> Unsent]

--------------------------------------------------------------------------------
(* The query, its grant and its email *)

\* Which risks a one-click link may resolve.
shouldMintGrant(r) == r \in {"low", "medium"}

\* The grant is minted in the transaction that creates the query, with its deadline.
createQuery ==
  /\ status = "absent"
  /\ \E r \in Risks :
       /\ risk' = r
       /\ grant' = IF shouldMintGrant(r) THEN [state |-> "live", expiresAt |-> now + Timeout]
                   ELSE NoGrant
  /\ status' \in IF human THEN {"pending", "assigned"} ELSE {"pending"}
  /\ expiresAt' = now + Timeout
  /\ UNCHANGED <<now, decision, pausedAt, rounds, mailed, human, tab, req>>

\* The email is sent after the commit, once, and may be lost; without a grant its
\* link leads to the app.
sendQueryEmail ==
  /\ grant # NoGrant /\ ~mailed
  /\ mailed' = TRUE
  /\ UNCHANGED <<now, queryRow, grant, human, tab, req>>

--------------------------------------------------------------------------------
(* The page *)

Live == grant.state = "live" /\ now <= grant.expiresAt

Show(t, shows, awaits) == tab' = [tab EXCEPT ![t] = [shows |-> shows, awaits |-> awaits]]

\* The link is opened, or the page reloaded: whatever it was waiting for is forgotten.
OpenLink(t) ==
  /\ mailed
  /\ tab[t].shows # "loading"
  /\ Show(t, "loading", None)
  /\ UNCHANGED <<now, queryRow, grant, mailed, human, req>>

\* The page shows the query whatever its status; a GET that fails shows a dead link.
Load(t) ==
  /\ tab[t].shows = "loading"
  /\ \/ Live /\ Show(t, "ready", None)
     \/ Show(t, "gone", None)
  /\ UNCHANGED <<now, queryRow, grant, mailed, human, req>>

Send(t, r, o) ==
  /\ tab[t].shows = "ready"
  /\ req[r] = Unsent
  /\ Show(t, "sending", r)
  /\ req' = [req EXCEPT ![r] = [step |-> "resolve", tab |-> t, outcome |-> o,
                                read |-> "absent", rounds |-> 0]]
  /\ UNCHANGED <<now, queryRow, grant, mailed, human>>

\* The fetch fails while the server may go on: the answer can be sent again.
Unreachable(t) ==
  /\ tab[t].shows = "sending"
  /\ Show(t, "ready", None)
  /\ UNCHANGED <<now, queryRow, grant, mailed, human, req>>

\* Mutant: any response ends the page.
ShownAlways(r) == IF req[r].outcome = "answer" THEN "answered" ELSE "returned"

\* Only a dead link is a dead link: any other failure leaves the answer to be sent.
Shown(r) ==
  CASE req[r].step = "unauthorized" -> "gone"
    [] req[r].step = "failed"       -> "ready"
    [] req[r].step = "ok"           -> IF req[r].outcome = "answer" THEN "answered" ELSE "returned"

Receive(r) ==
  /\ req[r].step \in Replies
  /\ tab' = [t \in Tabs |-> IF tab[t].awaits = r THEN [shows |-> Shown(r), awaits |-> None]
                            ELSE tab[t]]
  /\ req' = [req EXCEPT ![r].step = "done", ![r].read = "absent", ![r].rounds = 0]
  /\ UNCHANGED <<now, queryRow, grant, mailed, human>>

--------------------------------------------------------------------------------
(* POST /public/queries/:token/respond *)

To(r, step) == req' = [req EXCEPT ![r].step = step]

\* Mutant: the link is spent before the answer is recorded.
resolveAndSpend(r) ==
  /\ req[r].step = "resolve"
  /\ To(r, IF Live THEN "human" ELSE "unauthorized")
  /\ grant' = IF Live THEN [grant EXCEPT !.state = "consumed"] ELSE grant
  /\ UNCHANGED <<now, queryRow, mailed, human, tab>>

\* queryGrantAuth: an unknown, an expired and a spent token are one refusal.
resolveQueryGrant(r) ==
  /\ req[r].step = "resolve"
  /\ To(r, IF Live THEN "human" ELSE "unauthorized")
  /\ UNCHANGED <<now, queryRow, grant, mailed, human, tab>>

FindHuman(r) ==
  /\ req[r].step = "human"
  /\ To(r, IF human THEN "read" ELSE "insert")
  /\ UNCHANGED <<now, queryRow, grant, mailed, human, tab>>

\* humans.email is unique: who inserts second fails.
InsertHuman(r) ==
  /\ req[r].step = "insert"
  /\ To(r, IF human THEN "failed" ELSE "read")
  /\ human' = TRUE
  /\ UNCHANGED <<now, queryRow, grant, mailed, tab>>

\* respondQuery reads the row, its status and its count of rounds, and refuses a
\* settled one; an answer has to fit the space of the row as it is by now.
ReadQuery(r) ==
  /\ req[r].step = "read"
  /\ \/ /\ status \in Open
        /\ req' = [req EXCEPT ![r].step = "write", ![r].read = status, ![r].rounds = rounds]
     \/ /\ status \in Settled \/ req[r].outcome = "answer"
        /\ To(r, "failed")
  /\ UNCHANGED <<now, queryRow, grant, mailed, human, tab>>

fromStatuses(r) ==
  IF req[r].read = "pending" THEN {"pending"}
  ELSE {"assigned"} \cup (IF req[r].outcome = "answer" THEN {"needs_context"} ELSE {})

\* Mutant: the update goes by id.
WriteAnswerById(r) ==
  /\ req[r].step = "write" /\ req[r].outcome = "answer"
  /\ status' = "answered" /\ decision' = r /\ To(r, "consume")
  /\ UNCHANGED <<now, expiresAt, pausedAt, rounds, risk, grant, mailed, human, tab>>

\* The guarded UPDATE of an answer ...
WriteAnswer(r) ==
  /\ req[r].step = "write" /\ req[r].outcome = "answer"
  /\ IF status \in fromStatuses(r)
     THEN status' = "answered" /\ decision' = r /\ To(r, "consume")
     ELSE UNCHANGED <<status, decision>> /\ To(r, "failed")
  /\ UNCHANGED <<now, expiresAt, pausedAt, rounds, risk, grant, mailed, human, tab>>

\* ... and of a request for context, which does not spend the link.  It writes the
\* count that was read, plus one: the guard is on the status alone.
WriteReturn(r) ==
  /\ req[r].step = "write" /\ req[r].outcome = "insufficient_context"
  /\ IF status \in fromStatuses(r)
     THEN /\ status' = "needs_context" /\ pausedAt' = now /\ rounds' = req[r].rounds + 1
          /\ To(r, "ok")
     ELSE UNCHANGED <<status, pausedAt, rounds>> /\ To(r, "failed")
  /\ UNCHANGED <<now, decision, expiresAt, risk, grant, mailed, human, tab>>

\* The grant is spent by a statement of its own, after the answer.
consumeQueryGrant(r) ==
  /\ req[r].step = "consume"
  /\ grant' = [grant EXCEPT !.state = "consumed"]
  /\ To(r, "ok")
  /\ UNCHANGED <<now, queryRow, mailed, human, tab>>

\* A statement fails, or the process dies: the page learns that something failed.
Fail(r) ==
  /\ req[r].step \in Serving
  /\ To(r, "failed")
  /\ UNCHANGED <<now, queryRow, grant, mailed, human, tab>>

--------------------------------------------------------------------------------
(* Everybody else *)

elsewhere == <<grant, mailed, human, tab, req>>

Accept ==
  /\ status = "pending"
  /\ status' = "assigned"
  /\ human
  /\ UNCHANGED <<now, decision, expiresAt, pausedAt, rounds, risk, elsewhere>>

AnswerInApp ==
  /\ status \in Open /\ human
  /\ status' = "answered" /\ decision' = App
  /\ UNCHANGED <<now, expiresAt, pausedAt, rounds, risk, elsewhere>>

HandBackInApp ==
  /\ status \in {"pending", "assigned"} /\ human
  /\ status' = "needs_context" /\ pausedAt' = now /\ rounds' = rounds + 1
  /\ UNCHANGED <<now, decision, expiresAt, risk, elsewhere>>

\* updateQuery gives the paused time back to the query, not to the grant, and raises
\* the risk when the new answer space is about more money; out of rounds it only
\* restarts the clock.
updateQuery ==
  /\ status = "needs_context"
  /\ pausedAt' = None
  /\ \/ /\ rounds < MaxRounds
        /\ status' = "assigned"
        /\ expiresAt' = expiresAt + (IF pausedAt = None THEN 0 ELSE now - pausedAt)
        /\ risk' \in {risk} \cup (IF shouldMintGrant(risk) THEN {"high"} ELSE {})
     \/ /\ rounds >= MaxRounds
        /\ UNCHANGED <<status, expiresAt, risk>>
  /\ UNCHANGED <<now, decision, rounds, elsewhere>>

cancelQuery ==
  /\ status \in Open
  /\ status' = "cancelled" /\ pausedAt' = None
  /\ UNCHANGED <<now, decision, expiresAt, rounds, risk, elsewhere>>

expireQuery ==
  /\ now > expiresAt
  /\ status \in {"pending", "assigned"} \/ (status = "needs_context" /\ pausedAt = None)
  /\ status' = "expired"
  /\ UNCHANGED <<now, decision, expiresAt, pausedAt, rounds, risk, elsewhere>>

LinkTick ==
  /\ now < MaxNow
  /\ now' = now + 1
  /\ UNCHANGED <<queryRow, elsewhere>>

Respond(r) ==
  \/ resolveQueryGrant(r) \/ FindHuman(r) \/ InsertHuman(r) \/ ReadQuery(r)
  \/ WriteAnswer(r) \/ WriteReturn(r) \/ consumeQueryGrant(r)

Page(t) ==
  \/ OpenLink(t) \/ Load(t) \/ Unreachable(t)
  \/ \E r \in Answers, o \in Outcome : Send(t, r, o)

Others ==
  \/ Accept \/ AnswerInApp \/ HandBackInApp \/ updateQuery \/ cancelQuery \/ expireQuery

LinkNext ==
  \/ createQuery \/ sendQueryEmail \/ Others \/ LinkTick
  \/ \E t \in Tabs : Page(t)
  \/ \E r \in Answers : Respond(r) \/ Receive(r) \/ Fail(r)

LinkSpec == LinkInit /\ [][LinkNext]_linkVars

--------------------------------------------------------------------------------
(* What the link promises *)

\* Whoever is shown "answered" has decided: the record holds the answer sent from
\* that tab and keeps it, whatever other tabs, the app or the agent were doing.
AnsweredMeansRecorded ==
  \A t \in Tabs : tab[t].shows = "answered" =>
    /\ status = "answered"
    /\ decision \in Answers /\ req[decision].tab = t

\* "Only a real answer spends the link" (routes/public/queries.ts): a spent link
\* belongs to a query that was answered with it.
SpentByItsAnswer ==
  grant.state = "consumed" => status = "answered" /\ decision \in Answers

\* Through link and app together the query moves as its record may.
Record == INSTANCE QueryRecord WITH Decisions <- Answers \cup {App}
LinkImplementsRecord == Record!Spec

--------------------------------------------------------------------------------
(* What the repository says and the code does not keep *)

\* "The link expires with the query" and "that person has to be able to return by the
\* same link once the agent has clarified" (docs/api/README.md, routes/public/queries.ts).
ReturnsByTheLink ==
  grant # NoGrant /\ status \in {"pending", "assigned"} /\ now <= expiresAt => Live
================================================================================
