------------------------------ MODULE AgentAccess -----------------------------
(***************************************************************************)
(* How an agent comes by its key and what the key opens: registration      *)
(* (services/agent.service.ts, routes/agent/register.ts, the web form that *)
(* calls it), the authorization of an MCP client (mcp/oauth.ts), rotation  *)
(* (routes/agent/key.ts), expiry, and the sessions of the MCP transport    *)
(* (mcp/transport.ts).                                                     *)
(*                                                                         *)
(* An agent, a key, a code and a session are each named by the call that   *)
(* made them.                                                              *)
(***************************************************************************)
EXTENDS Naturals, FiniteSets

CONSTANTS
  Requests,     \* each is sent at most once
  Slugs,
  MaxSessions,  \* MAX_SESSIONS
  Nothing

AccessConstants == MaxSessions \in Nat \ {0} /\ Nothing \notin Requests \cup Slugs

VARIABLES
  agent,     \* rows of agents
  code,      \* rows of oauth_codes
  sessions,  \* the transport's map of sessions
  old,       \* those of them that are past SESSION_TTL_MS
  req,       \* what each call is, and how far the server is with it
  given,     \* which call was handed which key
  form       \* the web form: its state and the call it waits for

accessVars == <<agent, code, sessions, old, req, given, form>>

--------------------------------------------------------------------------------
AccessOps   == {"register", "authorize", "exchange", "rotate", "initialize", "close"}
Steps == {"find", "insert", "code", "write", "connect", "closing", "answer", "conflict",
          "refused", "failed", "ok", "lost"}

\* `of` is the slug asked for, the authorization whose code is redeemed, the agent
\* whose key is rotated or the session that is closed.
Req    == [op : AccessOps, step : Steps, of : Slugs \cup Requests \cup {Nothing}]
Unmade == [step |-> "unmade"]

Agent   == [slug : Slugs, key : Requests, active : BOOLEAN, due : BOOLEAN]
NoAgent == [slug |-> Nothing]

Code    == {"none", "live", "stale", "gone", "cleaned"}
Form    == [state : {"idle", "submitting", "retrying", "error", "done"},
            call : Requests \cup {Nothing}]

AccessTypeOK ==
  /\ agent \in [Requests -> Agent \cup {NoAgent}]
  /\ code \in [Requests -> Code]
  /\ sessions \in SUBSET Requests
  /\ old \in SUBSET sessions
  /\ req \in [Requests -> Req \cup {Unmade}]
  /\ given \subseteq [key : Requests, to : Requests]
  /\ form \in Form

AccessInit ==
  /\ agent = [c \in Requests |-> NoAgent]
  /\ code = [c \in Requests |-> "none"]
  /\ sessions = {} /\ old = {}
  /\ req = [c \in Requests |-> Unmade]
  /\ given = {}
  /\ form = [state |-> "idle", call |-> Nothing]

Make(c, op, step, of) ==
  /\ req[c] = Unmade
  /\ req' = [req EXCEPT ![c] = [op |-> op, step |-> step, of |-> of]]

Reached(c, op, step) == req[c] # Unmade /\ req[c].op = op /\ req[c].step = step

MoveOn(c, step) == req' = [req EXCEPT ![c].step = step]

Rows      == {a \in Requests : agent[a] # NoAgent}
Taken(s)  == \E a \in Rows : agent[a].slug = s
Holds(k)  == \E g \in given : g.key = k

--------------------------------------------------------------------------------
(* Registration *)

\* An API client, the operator's script, or the form of an MCP authorization.
Register(c, s) ==
  /\ \E op \in {"register", "authorize"} : Make(c, op, "find", s)
  /\ UNCHANGED <<agent, code, sessions, old, given, form>>

FindSlug(c) ==
  /\ Reached(c, "register", "find") \/ Reached(c, "authorize", "find")
  /\ MoveOn(c, IF Taken(req[c].of) THEN "conflict" ELSE "insert")
  /\ UNCHANGED <<agent, code, sessions, old, given, form>>

\* The key is hashed in between; a slug taken by then is a violated constraint.
InsertAgent(c) ==
  /\ Reached(c, "register", "insert") \/ Reached(c, "authorize", "insert")
  /\ IF Taken(req[c].of) THEN agent' = agent /\ MoveOn(c, "failed")
     ELSE /\ agent' = [agent EXCEPT ![c] = [slug |-> req[c].of, key |-> c,
                                            active |-> TRUE, due |-> FALSE]]
          /\ MoveOn(c, IF req[c].op = "register" THEN "answer" ELSE "code")
  /\ UNCHANGED <<code, sessions, old, given, form>>

\* The code is a second statement: when it fails the agent is there and its key is not.
InsertCode(c) ==
  /\ Reached(c, "authorize", "code")
  /\ \/ code' = [code EXCEPT ![c] = "live"] /\ MoveOn(c, "ok")
     \/ code' = code /\ MoveOn(c, "failed")
  /\ UNCHANGED <<agent, sessions, old, given, form>>

CodeGoesStale(c) ==
  /\ code[c] = "live"
  /\ code' = [code EXCEPT ![c] = "stale"]
  /\ UNCHANGED <<agent, sessions, old, req, given, form>>

\* Mutant: the code is looked up, and deleted by a later statement.
RedeemByLookup(c, a) ==
  /\ code[a] # "none"
  /\ Make(c, "exchange", "answer", a)
  /\ code' = code
  /\ UNCHANGED <<agent, sessions, old, given, form>>

Stale == {a \in Requests : code[a] = "stale"}

\* Deletes the code of an authorization, if there is one, and the stale ones of the set.
Without(a, cleaned) ==
  [b \in Requests |-> IF b = a /\ code[b] # "none" THEN "gone"
                      ELSE IF b \in cleaned THEN "cleaned" ELSE code[b]]

\* The token endpoint deletes the code before it looks at it: a code that is stale,
\* or comes with the wrong verifier or address, is gone all the same.  One that is
\* good has the stale ones cleaned up, by a statement that may fail.
Redeem(c, a) ==
  /\ req[a] # Unmade /\ req[a].op = "authorize"
  /\ \/ code[a] = "live" /\ Make(c, "exchange", "answer", a)
        /\ \E cleaned \in {{}, Stale} : code' = Without(a, cleaned)
     \/ Make(c, "exchange", "refused", a) /\ code' = Without(a, {})
  /\ UNCHANGED <<agent, sessions, old, given, form>>

--------------------------------------------------------------------------------
(* Keys *)

\* agentAuth: an active agent within its lifetime, with its present key.
Authenticated(a) == /\ agent[a] # NoAgent /\ agent[a].active /\ ~agent[a].due
                    /\ Holds(agent[a].key)

\* The MCP route asks for the status only.
AuthenticatedMcp(a) == agent[a] # NoAgent /\ agent[a].active /\ Holds(agent[a].key)

Rotate(c, a) ==
  /\ Authenticated(a)
  /\ Make(c, "rotate", "write", a)
  /\ UNCHANGED <<agent, code, sessions, old, given, form>>

\* By id: of two rotations the later write decides.
RotateWrite(c) ==
  /\ Reached(c, "rotate", "write")
  /\ agent' = [agent EXCEPT ![req[c].of].key = c]
  /\ MoveOn(c, "answer")
  /\ UNCHANGED <<code, sessions, old, given, form>>

Answering(c) == \E op \in {"register", "rotate", "exchange"} : Reached(c, op, "answer")

\* The key is in the answer, once.
HandOver(c) ==
  /\ Answering(c)
  /\ given' = given \cup {[key |-> IF req[c].op = "exchange" THEN req[c].of ELSE c, to |-> c]}
  /\ MoveOn(c, "ok")
  /\ UNCHANGED <<agent, code, sessions, old, form>>

AnswerLost(c) ==
  /\ Answering(c)
  /\ MoveOn(c, "lost")
  /\ UNCHANGED <<agent, code, sessions, old, given, form>>

\* An agent that declared a lifetime outlives it; the sweep deactivates it later.
LifetimeEnds(a) ==
  /\ a \in Rows /\ ~agent[a].due
  /\ agent' = [agent EXCEPT ![a].due = TRUE]
  /\ UNCHANGED <<code, sessions, old, req, given, form>>

deactivateExpiredAgents ==
  /\ \E a \in Rows : agent[a].due /\ agent[a].active
  /\ agent' = [a \in Requests |-> IF a \in Rows /\ agent[a].due
                               THEN [agent[a] EXCEPT !.active = FALSE] ELSE agent[a]]
  /\ UNCHANGED <<code, sessions, old, req, given, form>>

--------------------------------------------------------------------------------
(* The web form that gives out keys *)

Submit(c, s) ==
  /\ form.state \in {"idle", "error"}
  /\ Make(c, "register", "find", s)
  /\ form' = [state |-> "submitting", call |-> c]
  /\ UNCHANGED <<agent, code, sessions, old, given>>

\* A slug taken since it was shown: once more, with a fresh suffix.
SubmitAgain(c, s) ==
  /\ form.state = "submitting" /\ Reached(form.call, "register", "conflict")
  /\ s # req[form.call].of
  /\ Make(c, "register", "find", s)
  /\ form' = [state |-> "retrying", call |-> c]
  /\ UNCHANGED <<agent, code, sessions, old, given>>

FormAnswered ==
  /\ form.state \in {"submitting", "retrying"}
  /\ \/ Reached(form.call, "register", "ok") /\ form' = [form EXCEPT !.state = "done"]
     \/ /\ \/ Reached(form.call, "register", "failed") \/ Reached(form.call, "register", "lost")
           \/ form.state = "retrying" /\ Reached(form.call, "register", "conflict")
        /\ form' = [state |-> "error", call |-> Nothing]
  /\ UNCHANGED <<agent, code, sessions, old, req, given>>

--------------------------------------------------------------------------------
(* MCP sessions *)

Initializing(c) == Reached(c, "initialize", "connect")

\* A POST without a session: the cap is checked before the server is connected.
Initialize(c, a) ==
  /\ AuthenticatedMcp(a)
  /\ Make(c, "initialize",
          IF Cardinality(sessions) >= MaxSessions THEN "refused" ELSE "connect", Nothing)
  /\ UNCHANGED <<agent, code, sessions, old, given, form>>

SessionInitialized(c) ==
  /\ Initializing(c)
  /\ \/ sessions' = sessions \cup {c} /\ MoveOn(c, "ok")
     \/ sessions' = sessions /\ MoveOn(c, "failed")
  /\ UNCHANGED <<agent, code, old, given, form>>

\* DELETE: the transport handles it, then the entry goes; one that is gone is a 404.
Close(c, a, s) ==
  /\ AuthenticatedMcp(a)
  /\ Reached(s, "initialize", "ok")
  /\ Make(c, "close", IF s \in sessions THEN "closing" ELSE "refused", s)
  /\ UNCHANGED <<agent, code, sessions, old, given, form>>

SessionClosed(c) ==
  /\ Reached(c, "close", "closing")
  /\ sessions' = sessions \ {req[c].of}
  /\ old' = old \ {req[c].of}
  /\ MoveOn(c, "ok")
  /\ UNCHANGED <<agent, code, given, form>>

SessionAges(s) ==
  /\ s \in sessions \ old
  /\ old' = old \cup {s}
  /\ UNCHANGED <<agent, code, sessions, req, given, form>>

SweepSessions ==
  /\ old # {}
  /\ sessions' = sessions \ old
  /\ old' = {}
  /\ UNCHANGED <<agent, code, req, given, form>>

--------------------------------------------------------------------------------
Provide(c) ==
  \/ FindSlug(c) \/ InsertAgent(c) \/ InsertCode(c) \/ CodeGoesStale(c)
  \/ RotateWrite(c) \/ HandOver(c) \/ AnswerLost(c) \/ LifetimeEnds(c)
  \/ SessionInitialized(c) \/ SessionClosed(c) \/ SessionAges(c)

Request(c) ==
  \/ \E s \in Slugs : Register(c, s) \/ Submit(c, s) \/ SubmitAgain(c, s)
  \/ \E a \in Requests : Redeem(c, a) \/ Rotate(c, a) \/ Initialize(c, a)
  \/ \E a, s \in Requests : Close(c, a, s)

AccessNext ==
  \/ \E c \in Requests : Request(c) \/ Provide(c)
  \/ FormAnswered \/ deactivateExpiredAgents \/ SweepSessions

AccessSpec == AccessInit /\ [][AccessNext]_accessVars

--------------------------------------------------------------------------------
\* A key is handed to one caller, however often its code is redeemed at once; and the
\* key of an agent is in somebody's hands, on its way, or lost with an answer, a code
\* or the statement that should have stored the code (registerAgent, rotateApiKey,
\* handleAuthorizeSubmit, handleToken).
KeysReachOneOwner ==
  /\ \A g, h \in given : g.key = h.key => g.to = h.to
  /\ \A a \in Rows : LET k == agent[a].key IN
       \/ Holds(k)
       \/ req[k].step \in {"code", "answer", "failed", "lost"}
       \/ req[k].op = "authorize"
          /\ \/ code[k] \in {"live", "stale", "cleaned"}
             \/ \E x \in Requests : /\ req[x] # Unmade /\ req[x].op = "exchange" /\ req[x].of = k
                                 /\ req[x].step \in {"answer", "refused", "lost"}
================================================================================
