-------------------------------- MODULE AskHuman -------------------------------
(***************************************************************************)
(* An agent that reads its refusals.  It asks with one of three tools (the *)
(* SDK's adapters for two agent frameworks, and the MCP server's), and     *)
(* clarifies what is handed back.  A refusal names its reason and remedies *)
(* and the agent follows one of them, as the tools' descriptions tell it.  *)
(* Everything is in the spelling of the wire.                              *)
(***************************************************************************)
EXTENDS Decidability

CONSTANTS
  Tools,    \* the tools in use
  Drafts,   \* what the agent means to ask, before any refusal
  Spaces,   \* what it may be answered with instead
  MaxTurns  \* MAX_CLARIFICATION_ROUNDS

\* What the schema of the tools and of the API asks of a draft: the fields of each shape.
Shaped(s) ==
  \/ s.kind = "boolean" /\ {"kind", "consequences"} \subseteq DOMAIN s
  \/ s.kind = "choice" /\ {"kind", "options", "consequences"} \subseteq DOMAIN s
  \/ s.kind \in {"scalar", "date"} /\ {"kind", "effect"} \subseteq DOMAIN s
  \/ s.kind = "fields" /\ {"kind", "fields", "effect"} \subseteq DOMAIN s
  \/ s.kind = "text" /\ {"kind"} \subseteq DOMAIN s

Draft(d) ==
  /\ DOMAIN d = {"risk", "subject", "answer_space", "changes", "self_contained"}
  /\ d.risk \in Risk /\ d.subject \in Subject /\ Shaped(d.answer_space)
  /\ d.changes \in BOOLEAN /\ d.self_contained \in BOOLEAN

\* The agent knows at least one form with a slot that is not a text.
ASSUME AskConstants ==
  /\ Tools \subseteq {"ai", "langchain", "mcp"}
  /\ \A d \in Drafts : Draft(d)
  /\ \A s \in Spaces : Shaped(s)
  /\ \E s \in Spaces : s.kind = "fields" /\ hasNonTextSlot(s)

VARIABLES
  tool,     \* the tool the agent has
  turn,     \* the call it makes, and whether it is to be made, was refused, or is over
  draft,    \* the arguments as the agent now has them
  told,     \* the reasons that this question, or this clarification, was refused for
  stored,   \* the admitted query
  decided   \* whether the person has decided about the subject before

askVars == <<tool, turn, draft, told, stored, decided>>

--------------------------------------------------------------------------------
\* What each tool lets the agent say.
AskHumanArgs   == {"risk", "subject", "answer_space", "changes", "self_contained"}
humanQueryArgs == {"risk", "subject", "answer_space", "changes", "self_contained"}

\* Mutant: the adapter has no parameter for what changed.
adapterSchemaPlain == {"risk", "subject", "answer_space", "self_contained"}

adapterSchema == {"risk", "subject", "answer_space", "changes", "self_contained"}

Params(t) ==
  CASE t = "ai" -> AskHumanArgs
    [] t = "langchain" -> adapterSchema
    [] t = "mcp" -> humanQueryArgs

patchQueryFields == {"subject", "answer_space", "changes"}

\* What a call leaves out.
createQueryDefaults == [risk |-> "low", changes |-> FALSE, self_contained |-> FALSE]

Carried == IF turn.op = "create" THEN Params(tool) ELSE patchQueryFields

\* What the server makes of the call: omitted fields take a default, or stay as they are.
Received ==
  [p \in DOMAIN draft |->
     IF p \in Carried THEN draft[p] ELSE IF turn.op = "create" THEN createQueryDefaults[p] ELSE stored.query[p]]

RiskOf(q) == elevateRisk(q.risk, turn.op = "create" /\ decided, q.answer_space)

\* Why the call is refused, history first.
Reasons ==
  LET q == Received IN
  IF turn.op = "create" /\ decided /\ ~q.changes THEN {"prior_decision_without_delta"}
  ELSE IF turn.op = "clarify" /\ stored.rounds >= MaxTurns THEN {"clarification_rounds_exhausted"}
  ELSE refusals(RiskOf(q), q.subject, q.self_contained, q.answer_space)

withConsequences(s) ==
  CASE s.kind = "boolean" -> [s EXCEPT !.consequences = TRUE]
    [] s.kind = "choice" -> [s EXCEPT !.consequences = Range(s.options)]
    [] OTHER -> [s EXCEPT !.effect = TRUE]

\* The drafts that follow the remedies of a refusal.
Remedies(reason) ==
  CASE reason = "missing_referent" ->
         {[draft EXCEPT !.subject.uri = TRUE], [draft EXCEPT !.subject.body = TRUE], [draft EXCEPT !.self_contained = TRUE]}
    [] reason = "text_answer_above_low_risk" ->
         {[draft EXCEPT !.answer_space = s] : s \in {x \in Spaces : x.kind # "text"}}
    [] reason = "fields_all_text_above_low_risk" ->
         {[draft EXCEPT !.answer_space = s] : s \in {x \in Spaces : x.kind = "fields" /\ hasNonTextSlot(x)}}
    [] reason = "missing_consequences" -> {[draft EXCEPT !.answer_space = withConsequences(@)]}
    [] reason = "external_referent_at_high_risk" -> {[draft EXCEPT !.subject.body = TRUE]}
    [] reason = "missing_referent_hash" -> {[draft EXCEPT !.subject.sha256 = TRUE]}
    [] reason = "prior_decision_without_delta" -> {[draft EXCEPT !.changes = TRUE]}
    [] reason = "clarification_rounds_exhausted" -> {draft}

\* Those that the call it makes has the fields for.
Within(reason) == {d \in Remedies(reason) : \A p \in DOMAIN d : d[p] # draft[p] => p \in Carried}

\* What check_answer shows: the person has handed the query back.
Returned == stored # None /\ stored.returned

--------------------------------------------------------------------------------
AskInit ==
  /\ tool \in Tools /\ draft \in Drafts
  /\ turn = [op |-> "create", at |-> "call"]
  /\ told = <<>>
  /\ stored = None
  /\ decided \in BOOLEAN

\* execute, callTool or the PATCH: the query is admitted, with the risk it was judged at.
Admitted ==
  /\ turn.at = "call" /\ Reasons = {}
  /\ stored' = [query |-> [Received EXCEPT !.risk = RiskOf(Received)], returned |-> FALSE,
                rounds |-> IF turn.op = "create" THEN 0 ELSE stored.rounds]
  /\ turn' = [turn EXCEPT !.at = "over"]
  /\ told' = <<>>
  /\ UNCHANGED <<tool, draft, decided>>

\* UndecidableQueryError reaches the agent whole, reason and remedy.
Undecidable ==
  /\ turn.at = "call"
  /\ \E reason \in Reasons : told' = Append(told, reason)
  /\ turn' = [turn EXCEPT !.at = "refused"]
  /\ UNCHANGED <<tool, draft, stored, decided>>

Follow ==
  /\ turn.at = "refused"
  /\ draft' \in Within(told[Len(told)])
  /\ IF told[Len(told)] = "clarification_rounds_exhausted"
       THEN turn' = [op |-> "create", at |-> "call"] /\ told' = <<>>
       ELSE turn' = [turn EXCEPT !.at = "call"] /\ UNCHANGED told
  /\ UNCHANGED <<tool, stored, decided>>

\* check_answer shows a query that was handed back, and the agent amends what it asked.
Clarify ==
  /\ turn.at = "over" /\ Returned
  /\ \E d \in Drafts, s \in Spaces :
       draft' \in {[stored.query EXCEPT !.subject = d.subject], [stored.query EXCEPT !.answer_space = s],
                   [stored.query EXCEPT !.subject = d.subject, !.answer_space = s]}
  /\ turn' = [op |-> "clarify", at |-> "call"]
  /\ told' = <<>>
  /\ UNCHANGED <<tool, stored, decided>>

PersonReturns ==
  /\ turn.at = "over" /\ ~Returned
  /\ stored' = [stored EXCEPT !.returned = TRUE, !.rounds = @ + 1]
  /\ UNCHANGED <<tool, turn, draft, told, decided>>

\* The person answers, and in time the agent asks about the same subject again.
PersonAnswers ==
  /\ turn.at = "over" /\ ~Returned
  /\ decided' = TRUE
  /\ draft' \in Drafts
  /\ turn' = [op |-> "create", at |-> "call"]
  /\ stored' = None
  /\ UNCHANGED <<tool, told>>

\* Another query about the subject is answered meanwhile.
DecidedMeanwhile ==
  /\ ~decided /\ decided' = TRUE
  /\ UNCHANGED <<tool, turn, draft, told, stored>>

AskNext == Admitted \/ Undecidable \/ Follow \/ Clarify \/ PersonReturns \/ PersonAnswers \/ DecidedMeanwhile

AskSpec == AskInit /\ [][AskNext]_askVars

--------------------------------------------------------------------------------
\* An agent that does what its refusals tell it is not refused twice for one reason,
\* whatever the remedies it picks raise the risk to and whatever is decided meanwhile;
\* and each refusal names a remedy that the call it answers has a field for.
RefusalsEnd ==
  /\ \A i, j \in DOMAIN told : told[i] = told[j] => i = j
  /\ turn.at = "refused" => Within(told[Len(told)]) # {}

\* "what is missing ... is part of the contract" (lib/errors.ts): every remedy that a
\* refusal names is open to the call it answers.  A PATCH has no self_contained.
EveryRemedyIsOpen ==
  turn.at = "refused" => Within(told[Len(told)]) = Remedies(told[Len(told)])
================================================================================
