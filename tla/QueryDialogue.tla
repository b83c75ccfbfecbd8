----------------------------- MODULE QueryDialogue -----------------------------
(***************************************************************************)
(* One query from the agent that asks it to the person who decides it and  *)
(* back: what is asked, admitted, shown, filled in, checked, recorded and  *)
(* read.  The agent uses the SDK or the MCP tools, the person several tabs *)
(* of the web client, whose cards come from a list that was read earlier   *)
(* (web/src/stores/queryStore.ts, web/src/components/queries).             *)
(*                                                                         *)
(* HumanQuery has the locks and the writers of the row; here the row holds *)
(* what those leave out: the question's content and the answer's.          *)
(***************************************************************************)
EXTENDS Decidability, AnswerForm

CONSTANTS
  Tabs,
  Lists,     \* list requests a tab may have under way
  Questions, \* what the agent may ask: records as the SDK takes them
  Patches,   \* what it may send to clarify: fields that are None are omitted
  Entries,   \* entries that fill any of these forms
  MaxRounds  \* MAX_CLARIFICATION_ROUNDS

\* What the SDK's types and createQuerySchema ask of the arguments.
ASSUME QuestionConstants ==
  /\ \A b \in Questions :
       /\ DOMAIN b = {"risk", "subject", "self_contained", "answer_space", "changes"}
       /\ b.risk \in Risk /\ "kind" \in DOMAIN b.answer_space
  /\ \A p \in Patches :
       /\ DOMAIN p = {"subject", "answer_space", "changes"}
       /\ p.answer_space # None => "kind" \in DOMAIN p.answer_space

\* The spaces that can be asked, in the spelling of the wire.
AskedSpaces ==
  {answerSpaceToWire(s) : s \in {b.answer_space : b \in Questions} \cup ({p.answer_space : p \in Patches} \ {None})}

\* They are what the schema makes of them, and the bound on the entries leaves out no answer to one.
ASSUME SpaceConstants ==
  /\ Entries \in Nat
  /\ \A w \in AskedSpaces : answerSpaceSchema(w) => Typed(w) /\ Fills(Entries, w)

VARIABLES
  row,    \* the row in human_queries
  prior,  \* whether the person has decided about the subject before
  agent,  \* what the agent's calls have read so far, by call
  heard,  \* the answer getQuery gave the agent last
  tab,    \* the card of each tab, and the tab's requests
  given   \* what was in the form that the recorded answer came from

dialogueVars == <<row, prior, agent, heard, tab, given>>

Quiet == [pc |-> "idle"]

\* A list request: not made, under way, or read and on its way back.
NoList == [pc |-> "none"]

\* What a list has of a query: here only what it is answered with, in the client's spelling.
shapeHumanQuery == [space |-> row.answer_space]
Card(shaped) == [shaped EXCEPT !.space = answerSpaceFromWire(@)]

DialogueInit ==
  /\ row = None
  /\ prior \in BOOLEAN
  /\ agent = [c \in {"ask", "clarify"} |-> Quiet]
  /\ heard = None
  /\ tab = [t \in Tabs |-> [card |-> None, answer |-> None, lists |-> [l \in Lists |-> NoList],
                            answering |-> Quiet, returning |-> Quiet]]
  /\ given = None

----
\* The agent asks and clarifies

\* The validated body, in the spelling of the wire.
toCreateQueryBody(b) == [b EXCEPT !.answer_space = answerSpaceToWire(@)]
toClarifyQueryBody(p) == IF p.answer_space = None THEN p ELSE [p EXCEPT !.answer_space = answerSpaceToWire(@)]

CheckHistory ==
  /\ row = None /\ agent["ask"] = Quiet
  /\ \E b \in Questions :
       /\ answerSpaceSchema(toCreateQueryBody(b).answer_space)
       /\ prior => b.changes
       /\ agent' = [agent EXCEPT !["ask"] = [pc |-> "admit", body |-> toCreateQueryBody(b), prior |-> prior]]
  /\ UNCHANGED <<row, prior, heard, tab, given>>

createQuery ==
  /\ agent["ask"].pc = "admit"
  /\ LET b == agent["ask"].body
         risk == elevateRisk(b.risk, agent["ask"].prior, b.answer_space)
     IN  /\ checkPayload(risk, b.subject, b.self_contained, b.answer_space)
         /\ \E status \in {"pending", "assigned"} :
              row' = [status |-> status, declared |-> b.risk, risk |-> risk, subject |-> b.subject,
                      self_contained |-> b.self_contained, answer_space |-> b.answer_space,
                      changes |-> b.changes, rounds |-> 0, answer |-> None]
  /\ agent' = [agent EXCEPT !["ask"] = [pc |-> "done"]]
  /\ UNCHANGED <<prior, heard, tab, given>>

\* Another query about the same subject is answered, at a time when it matters to this one.
DecideElsewhere ==
  /\ ~prior /\ agent["ask"].pc # "done"
  /\ prior' = TRUE
  /\ UNCHANGED <<row, agent, heard, tab, given>>

\* Mutant: the row keeps its risk whatever the clarification puts at stake.
ClarifyReadUnraised ==
  /\ row # None /\ row.status = "needs_context" /\ row.rounds < MaxRounds
  /\ agent["clarify"] = Quiet
  /\ \E p \in Patches :
       LET w == toClarifyQueryBody(p)
           subject == IF w.subject = None THEN row.subject ELSE w.subject
           space == IF w.answer_space = None THEN row.answer_space ELSE w.answer_space
       IN  /\ answerSpaceSchema(space)
           /\ checkPayload(row.risk, subject, row.self_contained, space)
           /\ agent' = [agent EXCEPT !["clarify"] =
                          [pc |-> "write", subject |-> subject, answer_space |-> space, risk |-> row.risk,
                           changes |-> IF w.changes = None THEN row.changes ELSE w.changes]]
  /\ UNCHANGED <<row, prior, heard, tab, given>>

ClarifyRead ==
  /\ row # None /\ row.status = "needs_context" /\ row.rounds < MaxRounds
  /\ agent["clarify"] = Quiet
  /\ \E p \in Patches :
       LET w == toClarifyQueryBody(p)
           subject == IF w.subject = None THEN row.subject ELSE w.subject
           space == IF w.answer_space = None THEN row.answer_space ELSE w.answer_space
           risk == elevateRisk(row.risk, FALSE, space)
       IN  /\ answerSpaceSchema(space)
           /\ checkPayload(risk, subject, row.self_contained, space)
           /\ agent' = [agent EXCEPT !["clarify"] =
                          [pc |-> "write", subject |-> subject, answer_space |-> space, risk |-> risk,
                           changes |-> IF w.changes = None THEN row.changes ELSE w.changes]]
  /\ UNCHANGED <<row, prior, heard, tab, given>>

updateQuery ==
  /\ agent["clarify"].pc = "write"
  /\ LET w == agent["clarify"]
     IN  row' = IF row.status = "needs_context"
                  THEN [row EXCEPT !.status = "assigned", !.subject = w.subject, !.risk = w.risk,
                                   !.answer_space = w.answer_space, !.changes = w.changes]
                  ELSE row
  /\ agent' = [agent EXCEPT !["clarify"] = Quiet]
  /\ UNCHANGED <<prior, heard, tab, given>>

Open == {"pending", "assigned", "needs_context"}

\* cancelQuery, or an expiry by whoever reads the row: either way nothing more happens to it.
Close ==
  /\ row # None /\ row.status \in Open
  /\ row' = [row EXCEPT !.status = "closed"]
  /\ UNCHANGED <<prior, agent, heard, tab, given>>

shapeQuery == [status |-> row.status, answer |-> IF row.status = "answered" THEN row.answer ELSE None]

\* Mutant: the answer is handed on as it came.
RawQuery(w) == w

fromQueryWire(w) == [w EXCEPT !.answer = IF @ = None THEN None ELSE answerFromWire(@)]

getQuery ==
  /\ row # None
  /\ heard' = fromQueryWire(shapeQuery).answer
  /\ UNCHANGED <<row, prior, agent, tab, given>>

fromQuerySummaryWire(w) == IF w.answer = None THEN None ELSE answerFromWire(w.answer)

\* The answer is listed whatever the status.
listAgentQueries ==
  /\ row # None
  /\ heard' = fromQuerySummaryWire([answer |-> row.answer])
  /\ UNCHANGED <<row, prior, agent, tab, given>>

----
\* The person's tabs

\* The view is opened: the card starts afresh from the list the store still has, and a new list is asked for.
OpenChat(t) ==
  /\ \E l \in Lists :
       /\ tab[t].lists[l] = NoList
       /\ tab' = [tab EXCEPT ![t].lists[l] = [pc |-> "sent"],
                             ![t].answer = IF tab[t].card = None THEN None ELSE Mounted(tab[t].card.space)]
  /\ UNCHANGED <<row, prior, agent, heard, given>>

listHumanQueries(t, l) ==
  /\ tab[t].lists[l].pc = "sent"
  /\ tab' = [tab EXCEPT ![t].lists[l] =
               [pc |-> "read",
                card |-> IF row # None /\ row.status \in {"pending", "assigned"}
                           THEN Card(shapeHumanQuery) ELSE None]]
  /\ UNCHANGED <<row, prior, agent, heard, given>>

\* The answer of a card that stays is kept; inputs of fields without one publish what is proposed.
Kept(old, new, answer) ==
  IF new = None THEN None
  ELSE IF old = None \/ (new.space.kind = "fields" /\ (answer = None \/ answer.kind # "fields")) THEN Mounted(new.space)
  ELSE answer

fetchQueries(t, l) ==
  /\ tab[t].lists[l].pc = "read"
  /\ LET new == tab[t].lists[l].card
     IN  tab' = [tab EXCEPT ![t].lists[l] = NoList, ![t].card = new,
                            ![t].answer = Kept(tab[t].card, new, @)]
  /\ UNCHANGED <<row, prior, agent, heard, given>>

ListFails(t, l) ==
  /\ tab[t].lists[l].pc # "none"
  /\ tab' = [tab EXCEPT ![t].lists[l] = NoList]
  /\ UNCHANGED <<row, prior, agent, heard, given>>

Edit(t) ==
  /\ tab[t].card # None
  /\ \E a \in AnswerSpaceInput(tab[t].card.space, tab[t].answer) : tab' = [tab EXCEPT ![t].answer = a]
  /\ UNCHANGED <<row, prior, agent, heard, given>>

handleSubmit(t) ==
  /\ tab[t].card # None /\ tab[t].answering = Quiet
  /\ isAnswerComplete(tab[t].card.space, tab[t].answer)
  /\ tab' = [tab EXCEPT ![t].answering =
               [pc |-> "sent", form |-> tab[t].answer, answer |-> answerToWire(tab[t].answer)]]
  /\ UNCHANGED <<row, prior, agent, heard, given>>

handleInsufficientContext(t) ==
  /\ tab[t].card # None /\ tab[t].returning = Quiet
  /\ tab' = [tab EXCEPT ![t].returning = [pc |-> "sent"]]
  /\ UNCHANGED <<row, prior, agent, heard, given>>

----
\* respondQuery, between its reads and its guarded write

Rejected == [pc |-> "refused"]
Accepted == [pc |-> "accepted"]

AnswerRead(t) ==
  /\ tab[t].answering.pc = "sent"
  /\ LET a == tab[t].answering.answer
     IN  tab' = [tab EXCEPT ![t].answering =
                   IF row.status \in Open /\ answerSchema(a) /\ validateAnswerAgainstSpace(row.answer_space, a)
                     THEN [pc |-> "checked", form |-> tab[t].answering.form, answer |-> a,
                           from |-> IF row.status = "pending" THEN {"pending"} ELSE {"assigned", "needs_context"}]
                     ELSE Rejected]
  /\ UNCHANGED <<row, prior, agent, heard, given>>

AnswerWrite(t) ==
  /\ tab[t].answering.pc = "checked"
  /\ LET c == tab[t].answering
         wins == row.status \in c.from
     IN  /\ row' = IF wins THEN [row EXCEPT !.status = "answered", !.answer = c.answer] ELSE row
         /\ given' = IF wins THEN c.form ELSE given
         /\ tab' = [tab EXCEPT ![t].answering = IF wins THEN Accepted ELSE Rejected]
  /\ UNCHANGED <<prior, agent, heard>>

ReturnRead(t) ==
  /\ tab[t].returning.pc = "sent"
  /\ tab' = [tab EXCEPT ![t].returning =
               IF row.status \in Open
                 THEN [pc |-> "checked", rounds |-> row.rounds,
                       from |-> IF row.status = "pending" THEN {"pending"} ELSE {"assigned"}]
                 ELSE Rejected]
  /\ UNCHANGED <<row, prior, agent, heard, given>>

ReturnWrite(t) ==
  /\ tab[t].returning.pc = "checked"
  /\ LET c == tab[t].returning
         wins == row.status \in c.from
     IN  /\ row' = IF wins THEN [row EXCEPT !.status = "needs_context", !.rounds = c.rounds + 1] ELSE row
         /\ tab' = [tab EXCEPT ![t].returning = IF wins THEN Accepted ELSE Rejected]
  /\ UNCHANGED <<prior, agent, heard, given>>

\* A response that reaches the tab, or is lost on its way: what was accepted loses its card.
respond(t, kind) ==
  /\ \/ kind = "answer" /\ tab[t].answering.pc \in {"accepted", "refused"}
     \/ kind = "return" /\ tab[t].returning.pc \in {"accepted", "refused"}
  /\ \E arrives \in BOOLEAN :
       LET call == IF kind = "answer" THEN tab[t].answering ELSE tab[t].returning
           gone == arrives /\ call = Accepted
       IN  tab' = [tab EXCEPT ![t].answering = IF kind = "answer" THEN Quiet ELSE @,
                              ![t].returning = IF kind = "return" THEN Quiet ELSE @,
                              ![t].card = IF gone THEN None ELSE @,
                              ![t].answer = IF gone THEN None ELSE @]
  /\ UNCHANGED <<row, prior, agent, heard, given>>

----
\* The tools of the MCP server, and the routes of the API that call the same services.
human_query   == CheckHistory \/ createQuery
clarify_query == ClarifyRead \/ updateQuery
cancel_query  == Close
get_query     == getQuery
list_queries  == listAgentQueries

Ask == human_query \/ clarify_query \/ cancel_query \/ get_query \/ list_queries \/ DecideElsewhere

Look(t) == OpenChat(t) \/ \E l \in Lists : listHumanQueries(t, l) \/ fetchQueries(t, l) \/ ListFails(t, l)

Submit(t) == Edit(t) \/ handleSubmit(t) \/ handleInsufficientContext(t)

Respond(t) ==
  \/ AnswerRead(t) \/ AnswerWrite(t) \/ ReturnRead(t) \/ ReturnWrite(t)
  \/ \E kind \in {"answer", "return"} : respond(t, kind)

DialogueNext == Ask \/ \E t \in Tabs : Look(t) \/ Submit(t) \/ Respond(t)

DialogueSpec == DialogueInit /\ [][DialogueNext]_dialogueVars

----
\* What a person is asked has passed the admission its stored risk demands, at creation
\* and after every clarification: the risk is not below the declared one, nor below
\* `high` when more is at stake than the amount (createQuery, updateQuery).
GateHolds ==
  row # None =>
    /\ checkPayload(row.risk, row.subject, row.self_contained, row.answer_space)
    /\ ~above(row.declared, row.risk)
    /\ (\E amount \in Amounts(row.answer_space) : amount > RiskElevationAmount) => ~above("high", row.risk)

\* Whatever the server would record for the query in the person's hands, blank texts
\* apart, can be entered in the form and sent: the client's notions of a complete answer
\* and of an answer's shape are no narrower than the server's (AnswerSpaceInput,
\* isAnswerComplete, answerToWire, validateAnswerAgainstSpace).
EveryDecisionCanBeGiven ==
  row # None /\ row.status \in {"pending", "assigned"} =>
    Decisions(row.answer_space) \subseteq Sendable(answerSpaceFromWire(row.answer_space), Entries)

\* The agent reads what the person put into the form: the answer went from the form's
\* spelling to the wire's, into the row and out again (answerToWire, respondQuery,
\* shapeQuery, answerFromWire), and a query that is not answered shows none.  Of a form
\* of fields all that has a value arrives; an emptied number of an earlier card is gone.
AgentReadsWhatWasGiven ==
  heard # None =>
    /\ heard.kind = given.kind
    /\ heard.kind # "fields" => heard = given
    /\ heard.kind = "fields" =>
         heard.values = Restrict(given.values, {id \in DOMAIN given.values : given.values[id] # None})

\* The form in a person's hands asks what its card asks: no value for a field that the
\* card does not have.  One kept from before a clarification could not be sent
\* (QueryCard's answer survives the card's new space).
FormIsOfItsCard ==
  \A t \in Tabs : LET card == tab[t].card  form == tab[t].answer IN
    card # None /\ card.space.kind = "fields" /\ form # None /\ form.kind = "fields" =>
      DOMAIN form.values \subseteq Range(Ids(card.space.fields))

\* The answer fits the space of the query it is recorded in.
RecordedFits ==
  row # None /\ row.status = "answered" => validateAnswerAgainstSpace(row.answer_space, row.answer)
================================================================================
