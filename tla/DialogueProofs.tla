----------------------------- MODULE DialogueProofs ----------------------------
(***************************************************************************)
(* What passes between an agent and a person by way of a query, for every  *)
(* question, answer, tab and call (QueryDialogue), what refusals tell an   *)
(* agent (AskHuman), and what a key promises the attempts that carry it    *)
(* (IdempotencyKey).                                                       *)
(***************************************************************************)
EXTENDS QueryDialogue, AskHuman, IdempotencyKey, FiniteSetTheorems, WellFoundedInduction, TLAPS

--------------------------------------------------------------------------------
(* Risks *)

\* The order of risks, spelled out.
LEMMA RiskOrder ==
  /\ Risk = {"low", "medium", "high", "critical"}
  /\ \A a, b \in Risk :
       above(a, b) <=> \/ b = "low" /\ a # "low"
                       \/ b = "medium" /\ a \in {"high", "critical"}
                       \/ b = "high" /\ a = "critical"
<1>1. DOMAIN RISK_ORDER = {1, 2, 3, 4}
  BY DEF RISK_ORDER
<1>2. /\ RISK_ORDER[1] = "low" /\ RISK_ORDER[2] = "medium"
      /\ RISK_ORDER[3] = "high" /\ RISK_ORDER[4] = "critical"
  BY DEF RISK_ORDER
<1>3. Risk = {"low", "medium", "high", "critical"}
  BY <1>1, <1>2 DEF Risk, Range
<1>4. ASSUME NEW a \in Risk, NEW b \in Risk
      PROVE  above(a, b) <=> \/ b = "low" /\ a # "low"
                             \/ b = "medium" /\ a \in {"high", "critical"}
                             \/ b = "high" /\ a = "critical"
  BY <1>1, <1>2, <1>3 DEF above
<1>5. QED BY <1>3, <1>4

\* The higher of two risks is below neither.
LEMMA AtLeast ==
  ASSUME NEW a \in Risk, NEW b \in Risk
  PROVE  atLeast(a, b) \in Risk /\ ~above(a, atLeast(a, b)) /\ ~above(b, atLeast(a, b))
BY RiskOrder DEF atLeast

\* No risk is above itself, and the order is transitive.
LEMMA Above ==
  ASSUME NEW a \in Risk, NEW b \in Risk, NEW c \in Risk, ~above(a, b), ~above(b, c)
  PROVE  ~above(a, c)
BY RiskOrder

\* Elevation never lowers a risk, and a large amount makes it high at least.
LEMMA Elevation ==
  ASSUME NEW declared \in Risk, NEW decidedBefore, NEW s
  PROVE  LET risk == elevateRisk(declared, decidedBefore, s)
         IN  /\ risk \in Risk /\ ~above(declared, risk)
             /\ (\E amount \in Amounts(s) : amount > RiskElevationAmount) => ~above("high", risk)
<1> DEFINE first == IF decidedBefore THEN atLeast(declared, "medium") ELSE declared
           large == \E amount \in Amounts(s) : amount > RiskElevationAmount
           last == IF large THEN atLeast(first, "high") ELSE first
<1>1. first \in Risk /\ ~above(declared, first)
  BY RiskOrder, AtLeast
<1>2. last \in Risk /\ ~above(first, last) /\ (large => ~above("high", last))
  <2> HIDE DEF first, large
  <2> QED BY <1>1, RiskOrder, AtLeast
<1>3. elevateRisk(declared, decidedBefore, s) = last
  BY DEF elevateRisk
<1> HIDE DEF first, large, last
<1>4. ~above(declared, last)
  BY <1>1, <1>2, Above
<1>5. QED BY <1>2, <1>3, <1>4 DEF large

--------------------------------------------------------------------------------
(* The dialogue *)

Asked == agent["ask"].pc = "done"

RowFields ==
  {"status", "declared", "risk", "subject", "self_contained", "answer_space", "changes", "rounds", "answer"}

\* A space of the wire: one of the schema's, and one that is asked.
Space(s) == "kind" \in DOMAIN s /\ answerSpaceSchema(s) /\ s \in AskedSpaces

\* What stands in the row, or is about to: judged at a risk that is not below the
\* declared one, nor below `high` when the amount is large.
Judged(risk, declared, subject, self_contained, s) ==
  /\ risk \in Risk /\ Space(s)
  /\ checkPayload(risk, subject, self_contained, s)
  /\ ~above(declared, risk)
  /\ (\E amount \in Amounts(s) : amount > RiskElevationAmount) => ~above("high", risk)

\* The calls of the agent have read what the gate admits.
AskIsSound ==
  /\ DOMAIN agent = {"ask", "clarify"}
  /\ agent["ask"].pc = "admit" => agent["ask"].body.risk \in Risk /\ Space(agent["ask"].body.answer_space)
  /\ agent["clarify"].pc = "write" =>
       Asked /\ LET w == agent["clarify"]
                IN  Judged(w.risk, row.declared, w.subject, row.self_contained, w.answer_space)

\* The row is made by the agent's call and keeps what the gate admits.
RowIsSound ==
  /\ row # None => Asked
  /\ Asked => /\ DOMAIN row = RowFields /\ row.declared \in Risk
              /\ Judged(row.risk, row.declared, row.subject, row.self_contained, row.answer_space)

DialogueGate == AskIsSound /\ RowIsSound

\* What a form may hold: the inputs make nothing else of it.
IsFields(a) == a.kind = "fields" /\ a = [kind |-> "fields", values |-> a.values]
IsForm(a) ==
  \/ a.kind \in {"boolean", "scalar", "date", "text"}
  \/ a.kind = "choice" /\ a = [kind |-> "choice", optionIds |-> a.optionIds]
  \/ IsFields(a)

IsCard(card) == card # None => Asked /\ card.space.kind \in Kinds

\* A tab shows and sends only what has been asked, and forms of that; a card of fields
\* has a form of fields from the start.
TabSound(x) ==
  /\ DOMAIN x = {"card", "answer", "lists", "answering", "returning"}
  /\ DOMAIN x.lists = Lists
  /\ IsCard(x.card) /\ \A l \in Lists : x.lists[l].pc = "read" => IsCard(x.lists[l].card)
  /\ x.answer = None \/ IsForm(x.answer)
  /\ x.card # None /\ x.card.space.kind = "fields" => IsFields(x.answer)
  /\ x.answering.pc \in {"sent", "checked"} =>
       Asked /\ IsForm(x.answering.form) /\ x.answering.answer = answerToWire(x.answering.form)
  /\ x.returning.pc \in {"sent", "checked"} => Asked
  /\ x.answering.pc = "checked" => x.answering.from \subseteq Open
  /\ x.returning.pc = "checked" => x.returning.from \subseteq Open

TabsSound == DOMAIN tab = Tabs /\ \A t \in Tabs : TabSound(tab[t])

\* What elevates a risk decides what it is judged at.
LEMMA JudgedAsElevated ==
  ASSUME NEW declared \in Risk, NEW risk \in Risk, ~above(declared, risk), NEW before, NEW s, Space(s),
         NEW subject, NEW self_contained,
         checkPayload(elevateRisk(risk, before, s), subject, self_contained, s)
  PROVE  Judged(elevateRisk(risk, before, s), declared, subject, self_contained, s)
<1> DEFINE raised == elevateRisk(risk, before, s)
<1>1. /\ raised \in Risk /\ ~above(risk, raised)
      /\ (\E amount \in Amounts(s) : amount > RiskElevationAmount) => ~above("high", raised)
  BY Elevation
<1> HIDE DEF raised
<1>2. ~above(declared, raised)
  BY <1>1, Above
<1>3. QED BY <1>1, <1>2 DEF Judged, raised

\* The wire's spelling of a space keeps its kind.
LEMMA WireKind ==
  ASSUME NEW s, "kind" \in DOMAIN s
  PROVE  /\ "kind" \in DOMAIN answerSpaceToWire(s) /\ answerSpaceToWire(s).kind = s.kind
         /\ "kind" \in DOMAIN answerSpaceFromWire(s) /\ answerSpaceFromWire(s).kind = s.kind
BY DEF answerSpaceToWire, answerSpaceFromWire

\* Before anything is asked there is nothing to judge.
LEMMA GateInit == DialogueInit => DialogueGate
BY DEF DialogueInit, DialogueGate, AskIsSound, RowIsSound, Asked, Quiet

\* What the agent's calls have stored of a question.
Content == {"declared", "risk", "subject", "self_contained", "answer_space"}

\* Whatever leaves the agent's calls and the contents of the question alone keeps the gate.
LEMMA GateKept ==
  ASSUME DialogueGate, UNCHANGED agent,
         \/ row' = row
         \/ Asked /\ DOMAIN row' = RowFields /\ \A c \in Content : row'[c] = row[c]
  PROVE  DialogueGate'
<1>1. CASE row' = row
  BY <1>1 DEF DialogueGate, AskIsSound, RowIsSound, Asked
<1>2. CASE Asked /\ DOMAIN row' = RowFields /\ \A c \in Content : row'[c] = row[c]
  <2>1. /\ row'.risk = row.risk /\ row'.declared = row.declared /\ row'.subject = row.subject
        /\ row'.self_contained = row.self_contained /\ row'.answer_space = row.answer_space
    BY <1>2 DEF Content
  <2>2. AskIsSound'
    BY <1>2, <2>1 DEF DialogueGate, AskIsSound, Asked
  <2>3. RowIsSound'
    BY <1>2, <2>1 DEF DialogueGate, RowIsSound, Asked
  <2>4. QED BY <2>2, <2>3 DEF DialogueGate
<1>3. QED BY <1>1, <1>2

\* No call of the agent or of the person's tabs gets a question past the gate.
LEMMA GateStep == DialogueGate /\ TabsSound /\ [DialogueNext]_dialogueVars => DialogueGate'
<1> SUFFICES ASSUME DialogueGate, TabsSound, [DialogueNext]_dialogueVars PROVE DialogueGate'
  OBVIOUS
<1>1. CASE CheckHistory
  <2>1. PICK b \in Questions :
          /\ answerSpaceSchema(toCreateQueryBody(b).answer_space)
          /\ agent' = [agent EXCEPT !["ask"] = [pc |-> "admit", body |-> toCreateQueryBody(b), prior |-> prior]]
    BY <1>1 DEF CheckHistory
  <2>2. toCreateQueryBody(b).risk \in Risk /\ Space(toCreateQueryBody(b).answer_space)
    BY <2>1, QuestionConstants, WireKind DEF toCreateQueryBody, Space, AskedSpaces
  <2>3. ~Asked /\ row = None /\ row' = None
    BY <1>1 DEF CheckHistory, Asked, Quiet
  <2>4. /\ agent'["ask"].pc = "admit" /\ agent'["ask"].body = toCreateQueryBody(b)
        /\ agent'["clarify"] = agent["clarify"] /\ DOMAIN agent' = {"ask", "clarify"}
    BY <2>1 DEF DialogueGate, AskIsSound
  <2> HIDE DEF toCreateQueryBody
  <2>5. QED BY <2>2, <2>3, <2>4 DEF DialogueGate, AskIsSound, RowIsSound, Asked
<1>2. CASE createQuery
  <2> DEFINE b == agent["ask"].body
             risk == elevateRisk(b.risk, agent["ask"].prior, b.answer_space)
  <2>1. /\ b.risk \in Risk /\ Space(b.answer_space) /\ ~above(b.risk, b.risk)
        /\ checkPayload(risk, b.subject, b.self_contained, b.answer_space)
    BY <1>2, RiskOrder DEF createQuery, DialogueGate, AskIsSound
  <2>2. Judged(risk, b.risk, b.subject, b.self_contained, b.answer_space)
    BY <2>1, JudgedAsElevated
  <2>3. /\ DOMAIN row' = RowFields /\ row'.declared = b.risk /\ row'.risk = risk /\ row'.subject = b.subject
        /\ row'.self_contained = b.self_contained /\ row'.answer_space = b.answer_space
    BY <1>2 DEF createQuery, RowFields
  <2>4. Asked' /\ agent'["clarify"] = agent["clarify"] /\ DOMAIN agent' = {"ask", "clarify"}
    BY <1>2 DEF createQuery, DialogueGate, AskIsSound, Asked
  <2>5. agent["clarify"].pc # "write"
    BY <1>2 DEF createQuery, DialogueGate, AskIsSound, Asked
  <2>6. QED BY <2>1, <2>2, <2>3, <2>4, <2>5 DEF DialogueGate, AskIsSound, RowIsSound, Asked
<1>3. CASE ClarifyRead
  <2>1. PICK p \in Patches :
          LET w == toClarifyQueryBody(p)
              subject == IF w.subject = None THEN row.subject ELSE w.subject
              space == IF w.answer_space = None THEN row.answer_space ELSE w.answer_space
              risk == elevateRisk(row.risk, FALSE, space)
          IN  /\ answerSpaceSchema(space)
              /\ checkPayload(risk, subject, row.self_contained, space)
              /\ agent' = [agent EXCEPT !["clarify"] =
                             [pc |-> "write", subject |-> subject, answer_space |-> space, risk |-> risk,
                              changes |-> IF w.changes = None THEN row.changes ELSE w.changes]]
    BY <1>3 DEF ClarifyRead
  <2> DEFINE w == toClarifyQueryBody(p)
             subject == IF w.subject = None THEN row.subject ELSE w.subject
             space == IF w.answer_space = None THEN row.answer_space ELSE w.answer_space
             risk == elevateRisk(row.risk, FALSE, space)
  <2>2. Asked /\ RowIsSound /\ UNCHANGED row
    BY <1>3 DEF ClarifyRead, DialogueGate, RowIsSound
  <2>3. w.answer_space # None => "kind" \in DOMAIN w.answer_space /\ w.answer_space \in AskedSpaces
    BY QuestionConstants, WireKind DEF toClarifyQueryBody, AskedSpaces
  <2>4. Space(space)
    BY <2>1, <2>2, <2>3 DEF Space, RowIsSound, Judged
  <2>5. /\ agent'["clarify"].risk = risk /\ agent'["clarify"].subject = subject
        /\ agent'["clarify"].answer_space = space
        /\ agent'["ask"] = agent["ask"] /\ DOMAIN agent' = {"ask", "clarify"}
    BY <2>1 DEF DialogueGate, AskIsSound
  <2>6. checkPayload(risk, subject, row.self_contained, space)
    BY <2>1
  <2> HIDE DEF w, subject, space
  <2>7. Judged(risk, row.declared, subject, row.self_contained, space)
    BY <2>2, <2>4, <2>6, JudgedAsElevated DEF RowIsSound, Judged
  <2>8. QED BY <2>2, <2>5, <2>7 DEF DialogueGate, AskIsSound, RowIsSound, Asked
<1>4. CASE updateQuery
  <2> DEFINE w == agent["clarify"]
  <2>1. Asked /\ Asked' /\ agent'["clarify"].pc = "idle" /\ DOMAIN agent' = {"ask", "clarify"}
        /\ agent'["ask"] = agent["ask"]
    BY <1>4 DEF updateQuery, DialogueGate, AskIsSound, Asked, Quiet
  <2>2. Judged(w.risk, row.declared, w.subject, row.self_contained, w.answer_space)
    BY <1>4 DEF updateQuery, DialogueGate, AskIsSound
  <2>3. \/ row' = row
        \/ /\ DOMAIN row' = RowFields /\ row'.declared = row.declared /\ row'.risk = w.risk
           /\ row'.subject = w.subject /\ row'.self_contained = row.self_contained
           /\ row'.answer_space = w.answer_space
    BY <1>4, <2>1 DEF updateQuery, DialogueGate, RowIsSound, RowFields
  <2>4. QED BY <2>1, <2>2, <2>3 DEF DialogueGate, AskIsSound, RowIsSound, Asked
<1>5. CASE Close
  <2>1. UNCHANGED agent /\ Asked
    BY <1>5 DEF Close, DialogueGate, RowIsSound
  <2>2. DOMAIN row' = RowFields /\ \A c \in Content : row'[c] = row[c]
    BY <1>5, <2>1 DEF Close, DialogueGate, RowIsSound, RowFields, Content
  <2>3. QED BY <2>1, <2>2, GateKept
<1>6. ASSUME NEW t \in Tabs, AnswerWrite(t) PROVE DialogueGate'
  <2>1. UNCHANGED agent /\ Asked
    BY <1>6 DEF AnswerWrite, TabsSound, TabSound
  <2>2. \/ row' = row
        \/ DOMAIN row' = RowFields /\ \A c \in Content : row'[c] = row[c]
    BY <1>6, <2>1 DEF AnswerWrite, DialogueGate, RowIsSound, RowFields, Content
  <2>3. QED BY <2>1, <2>2, GateKept
<1>7. ASSUME NEW t \in Tabs, ReturnWrite(t) PROVE DialogueGate'
  <2>1. UNCHANGED agent /\ Asked
    BY <1>7 DEF ReturnWrite, TabsSound, TabSound
  <2>2. \/ row' = row
        \/ DOMAIN row' = RowFields /\ \A c \in Content : row'[c] = row[c]
    BY <1>7, <2>1 DEF ReturnWrite, DialogueGate, RowIsSound, RowFields, Content
  <2>3. QED BY <2>1, <2>2, GateKept
<1>8. CASE UNCHANGED <<row, agent>>
  BY <1>8, GateKept
<1>9. ASSUME NEW t \in Tabs, Look(t) \/ Submit(t) \/ Respond(t), ~AnswerWrite(t), ~ReturnWrite(t)
      PROVE  UNCHANGED <<row, agent>>
  BY <1>9 DEF Look, Submit, Respond, OpenChat, listHumanQueries, fetchQueries, ListFails, Edit, handleSubmit,
     handleInsufficientContext, AnswerRead, ReturnRead, respond
<1>10. ASSUME DecideElsewhere \/ getQuery \/ listAgentQueries \/ UNCHANGED dialogueVars
       PROVE  UNCHANGED <<row, agent>>
  BY <1>10 DEF DecideElsewhere, getQuery, listAgentQueries, dialogueVars
<1>11. QED
  BY <1>1, <1>2, <1>3, <1>4, <1>5, <1>6, <1>7, <1>8, <1>9, <1>10
  DEF DialogueNext, Ask, human_query, clarify_query, cancel_query, get_query, list_queries


\* The form of a card holds what a form may hold, from the start and after any entry.
LEMMA MountedForm ==
  ASSUME NEW s, s.kind \in Kinds
  PROVE  /\ s.kind = "fields" => IsFields(Mounted(s))
         /\ Mounted(s) = None \/ IsForm(Mounted(s))
<1>1. CASE s.kind = "fields"
  <2>1. Mounted(s) = [kind |-> "fields", values |-> proposedValues(s.fields)]
    BY <1>1 DEF Mounted
  <2>2. QED BY <2>1 DEF IsFields, IsForm
<1>2. QED BY <1>1 DEF Mounted

\* What is entered into a form makes a form of the same card.
LEMMA EnteredForm ==
  ASSUME NEW s, s.kind \in Kinds, NEW old, s.kind = "fields" => IsFields(old),
         NEW a \in AnswerSpaceInput(s, old)
  PROVE  (s.kind = "fields" => IsFields(a)) /\ (a = None \/ IsForm(a))
<1>1. CASE s.kind = "fields"
  <2>1. a \in FieldsAnswer(s, old)
    BY <1>1 DEF AnswerSpaceInput
  <2>2. PICK f \in Range(s.fields) :
          \E v \in SlotInputs(f) :
            a = [old EXCEPT !.values = [id \in DOMAIN @ \cup {f.id} |-> IF id = f.id THEN v ELSE @[id]]]
    BY <2>1 DEF FieldsAnswer
  <2>3. PICK v \in SlotInputs(f) :
          a = [old EXCEPT !.values = [id \in DOMAIN @ \cup {f.id} |-> IF id = f.id THEN v ELSE @[id]]]
    BY <2>2
  <2> DEFINE values == [id \in DOMAIN old.values \cup {f.id} |-> IF id = f.id THEN v ELSE old.values[id]]
  <2>4. a = [old EXCEPT !.values = values]
    BY <2>3
  <2> HIDE DEF values
  <2>5. IsFields(a)
    BY <1>1, <2>4 DEF IsFields
  <2>6. QED BY <2>5 DEF IsForm
<1>2. CASE s.kind = "choice"
  <2>1. \E ids : a = [kind |-> "choice", optionIds |-> ids]
    BY <1>2 DEF AnswerSpaceInput, ChoiceAnswer
  <2>2. QED BY <1>2, <2>1 DEF IsForm
<1>3. CASE s.kind \in {"boolean", "scalar", "date", "text"}
  <2>1. a = None \/ \E value : a = [kind |-> s.kind, value |-> value]
    BY <1>3 DEF AnswerSpaceInput, BooleanAnswer, ScalarAnswer, DateAnswer, TextAnswer
  <2>2. QED BY <1>3, <2>1 DEF IsForm
<1>4. QED BY <1>1, <1>2, <1>3 DEF Kinds

\* A card that is kept keeps its form, and a card of fields is given one.
LEMMA KeptForm ==
  ASSUME NEW old, NEW new, IsCard(new), NEW held, held = None \/ IsForm(held)
  PROVE  LET a == Kept(old, new, held)
         IN  /\ a = None \/ IsForm(a)
             /\ new # None /\ new.space.kind = "fields" => IsFields(a)
<1>1. CASE new = None
  BY <1>1 DEF Kept
<1>2. CASE new # None /\ Kept(old, new, held) = Mounted(new.space)
  BY <1>2, MountedForm DEF IsCard
<1>3. CASE new # None /\ Kept(old, new, held) # Mounted(new.space)
  <2>1. /\ Kept(old, new, held) = held
        /\ new.space.kind = "fields" => held # None /\ held.kind = "fields"
    BY <1>3 DEF Kept
  <2>2. QED BY <1>3, <2>1 DEF IsForm, IsFields
<1>4. QED BY <1>1, <1>2, <1>3

\* Tabs are sound that were, but for one whose record has become another sound one.
LEMMA TabMoves ==
  ASSUME TabsSound, Asked => Asked', NEW t \in Tabs, NEW x, TabSound(x),
         DOMAIN tab' = Tabs, tab'[t] = x, \A u \in Tabs \ {t} : tab'[u] = tab[u]
  PROVE  TabsSound'
<1>1. \A y : TabSound(y) => TabSound(y)'
  BY DEF TabSound, IsCard
<1>2. ASSUME NEW u \in Tabs PROVE \E y : y = tab'[u] /\ TabSound(y)'
  BY <1>1 DEF TabsSound
<1>3. QED BY <1>2 DEF TabsSound

\* Once asked, a question stays asked.
LEMMA AskedStays == DialogueGate /\ [DialogueNext]_dialogueVars => (Asked => Asked')
<1> SUFFICES ASSUME DialogueGate, [DialogueNext]_dialogueVars, Asked PROVE Asked'
  OBVIOUS
<1>1. DOMAIN agent = {"ask", "clarify"}
  BY DEF DialogueGate, AskIsSound
<1>2. ASSUME CheckHistory \/ createQuery \/ ClarifyRead \/ updateQuery PROVE Asked'
  <2>1. ~CheckHistory
    BY DEF CheckHistory, Asked, Quiet
  <2>2. createQuery => Asked'
    BY <1>1 DEF createQuery, Asked
  <2>3. ClarifyRead => agent'["ask"] = agent["ask"]
    BY <1>1 DEF ClarifyRead
  <2>4. updateQuery => agent'["ask"] = agent["ask"]
    BY <1>1 DEF updateQuery
  <2>5. QED BY <1>2, <2>1, <2>2, <2>3, <2>4 DEF Asked
<1>3. ASSUME NEW t \in Tabs, Look(t) \/ Submit(t) \/ Respond(t) PROVE Asked'
  BY <1>3 DEF Look, Submit, Respond, OpenChat, listHumanQueries, fetchQueries, ListFails, Edit, handleSubmit,
     handleInsufficientContext, AnswerRead, AnswerWrite, ReturnRead, ReturnWrite, respond, Asked
<1>4. ASSUME Close \/ DecideElsewhere \/ getQuery \/ listAgentQueries \/ UNCHANGED dialogueVars PROVE Asked'
  BY <1>4 DEF Close, DecideElsewhere, getQuery, listAgentQueries, dialogueVars, Asked
<1>5. QED
  BY <1>2, <1>3, <1>4
  DEF DialogueNext, Ask, human_query, clarify_query, cancel_query, get_query, list_queries

\* Tabs start without a card.
LEMMA TabsInit == DialogueInit => TabsSound
BY DEF DialogueInit, TabsSound, TabSound, IsCard, NoList, Quiet

\* The list of what is open, or of nothing.
LEMMA ShapedCard ==
  ASSUME DialogueGate, row # None
  PROVE  Asked /\ Card(shapeHumanQuery).space.kind \in Kinds
<1>1. Asked /\ Space(row.answer_space)
  BY DEF DialogueGate, RowIsSound, Judged
<1>2. row.answer_space.kind \in Kinds
  BY <1>1 DEF Space, answerSpaceSchema, Kinds
<1>3. Card(shapeHumanQuery).space = answerSpaceFromWire(row.answer_space)
  BY DEF Card, shapeHumanQuery
<1>4. QED BY <1>1, <1>2, <1>3, WireKind DEF Space

\* Looking leaves a tab sound.
LEMMA LookStep ==
  ASSUME DialogueGate, TabsSound, NEW t \in Tabs, Look(t), Asked => Asked'
  PROVE  TabsSound'
<1>0. TabSound(tab[t]) /\ DOMAIN tab = Tabs
  BY DEF TabsSound
<1>1. CASE OpenChat(t)
  <2>1. PICK l \in Lists :
          tab' = [tab EXCEPT ![t].lists[l] = [pc |-> "sent"],
                             ![t].answer = IF tab[t].card = None THEN None ELSE Mounted(tab[t].card.space)]
    BY <1>1 DEF OpenChat
  <2> DEFINE x == [tab[t] EXCEPT !.lists[l] = [pc |-> "sent"],
                                 !.answer = IF tab[t].card = None THEN None ELSE Mounted(tab[t].card.space)]
  <2>2. tab'[t] = x /\ DOMAIN tab' = Tabs /\ \A u \in Tabs \ {t} : tab'[u] = tab[u]
    BY <1>0, <2>1
  <2>3. /\ DOMAIN x = DOMAIN tab[t] /\ x.card = tab[t].card
        /\ x.answering = tab[t].answering /\ x.returning = tab[t].returning
        /\ DOMAIN x.lists = Lists /\ x.lists[l].pc = "sent" /\ \A k \in Lists \ {l} : x.lists[k] = tab[t].lists[k]
        /\ x.answer = IF tab[t].card = None THEN None ELSE Mounted(tab[t].card.space)
    BY <1>0 DEF TabSound
  <2> HIDE DEF x
  <2>4. /\ x.answer = None \/ IsForm(x.answer)
        /\ x.card # None /\ x.card.space.kind = "fields" => IsFields(x.answer)
    BY <1>0, <2>3, MountedForm DEF TabSound, IsCard
  <2>5. TabSound(x)
    BY <1>0, <2>3, <2>4 DEF TabSound
  <2>6. QED BY <2>2, <2>5, TabMoves
<1>2. ASSUME NEW l \in Lists, listHumanQueries(t, l) \/ ListFails(t, l) PROVE TabsSound'
  <2>1. PICK y : /\ tab' = [tab EXCEPT ![t].lists[l] = y]
                 /\ y.pc = "read" => (y.card # None => row # None /\ y.card = Card(shapeHumanQuery))
    <3>1. CASE ListFails(t, l)
      <4>1. tab' = [tab EXCEPT ![t].lists[l] = NoList] /\ NoList.pc # "read"
        BY <3>1 DEF ListFails, NoList
      <4>2. QED BY <4>1
    <3>2. CASE listHumanQueries(t, l)
      <4> DEFINE listed == row # None /\ row.status \in {"pending", "assigned"}
                 card == IF listed THEN Card(shapeHumanQuery) ELSE None
                 shown == [pc |-> "read", card |-> card]
      <4>1. tab' = [tab EXCEPT ![t].lists[l] = shown]
        BY <3>2 DEF listHumanQueries
      <4>2. card # None => row # None /\ card = Card(shapeHumanQuery)
        <5>1. listed => row # None
          OBVIOUS
        <5> HIDE DEF listed
        <5>2. QED BY <5>1, Zenon
      <4> HIDE DEF card
      <4>3. shown.card = card
        OBVIOUS
      <4> HIDE DEF shown
      <4>4. QED BY <4>1, <4>2, <4>3
    <3>3. QED BY <1>2, <3>1, <3>2
  <2> DEFINE x == [tab[t] EXCEPT !.lists[l] = y]
  <2>2. tab'[t] = x /\ DOMAIN tab' = Tabs /\ \A u \in Tabs \ {t} : tab'[u] = tab[u]
    BY <1>0, <2>1
  <2>3. /\ DOMAIN x = DOMAIN tab[t] /\ x.card = tab[t].card /\ x.answer = tab[t].answer
        /\ x.answering = tab[t].answering /\ x.returning = tab[t].returning
        /\ DOMAIN x.lists = Lists /\ x.lists[l] = y /\ \A k \in Lists \ {l} : x.lists[k] = tab[t].lists[k]
    BY <1>0 DEF TabSound
  <2> HIDE DEF x
  <2>4. y.pc = "read" => IsCard(y.card)
    BY <2>1, ShapedCard DEF IsCard
  <2>5. TabSound(x)
    BY <1>0, <2>3, <2>4 DEF TabSound
  <2>6. QED BY <2>2, <2>5, TabMoves
<1>3. ASSUME NEW l \in Lists, fetchQueries(t, l) PROVE TabsSound'
  <2> DEFINE new == tab[t].lists[l].card
             kept == Kept(tab[t].card, new, tab[t].answer)
             x == [tab[t] EXCEPT !.lists[l] = NoList, !.card = new, !.answer = kept]
  <2>1. /\ tab[t].lists[l].pc = "read"
        /\ tab' = [tab EXCEPT ![t].lists[l] = NoList, ![t].card = new, ![t].answer = Kept(tab[t].card, new, @)]
    BY <1>3 DEF fetchQueries
  <2>2. tab'[t] = x /\ DOMAIN tab' = Tabs /\ \A u \in Tabs \ {t} : tab'[u] = tab[u]
    <3>1. tab'[t].answer = kept
      BY <1>0, <2>1 DEF TabSound
    <3>2. QED BY <1>0, <2>1 DEF TabSound
  <2>3. /\ DOMAIN x = DOMAIN tab[t] /\ x.card = new /\ x.answer = kept
        /\ x.answering = tab[t].answering /\ x.returning = tab[t].returning
        /\ DOMAIN x.lists = Lists /\ x.lists[l] = NoList /\ \A k \in Lists \ {l} : x.lists[k] = tab[t].lists[k]
    BY <1>0 DEF TabSound
  <2>4. IsCard(new)
    BY <1>0, <2>1 DEF TabSound
  <2>5. /\ kept = None \/ IsForm(kept)
        /\ new # None /\ new.space.kind = "fields" => IsFields(kept)
    BY <1>0, <2>4, KeptForm DEF TabSound
  <2> HIDE DEF x, new, kept
  <2>6. TabSound(x)
    BY <1>0, <2>3, <2>4, <2>5 DEF TabSound, NoList
  <2>7. QED BY <2>2, <2>6, TabMoves
<1>4. QED BY <1>1, <1>2, <1>3 DEF Look

\* Entering, sending and handing back leave a tab sound.
LEMMA SubmitStep ==
  ASSUME TabsSound, NEW t \in Tabs, Submit(t), Asked => Asked'
  PROVE  TabsSound'
<1>0. TabSound(tab[t]) /\ DOMAIN tab = Tabs
  BY DEF TabsSound
<1>1. CASE Edit(t)
  <2>1. PICK a \in AnswerSpaceInput(tab[t].card.space, tab[t].answer) : tab' = [tab EXCEPT ![t].answer = a]
    BY <1>1 DEF Edit
  <2> DEFINE x == [tab[t] EXCEPT !.answer = a]
  <2>2. tab'[t] = x /\ DOMAIN tab' = Tabs /\ \A u \in Tabs \ {t} : tab'[u] = tab[u]
    BY <1>0, <2>1
  <2>3. /\ DOMAIN x = DOMAIN tab[t] /\ x.card = tab[t].card /\ x.lists = tab[t].lists
        /\ x.answering = tab[t].answering /\ x.returning = tab[t].returning /\ x.answer = a
    BY <1>0 DEF TabSound
  <2>4. tab[t].card # None /\ tab[t].card.space.kind \in Kinds
    BY <1>0, <1>1 DEF Edit, TabSound, IsCard
  <2>5. (tab[t].card.space.kind = "fields" => IsFields(a)) /\ (a = None \/ IsForm(a))
    BY <1>0, <2>1, <2>4, EnteredForm DEF TabSound
  <2> HIDE DEF x
  <2>6. TabSound(x)
    BY <1>0, <2>3, <2>5 DEF TabSound
  <2>7. QED BY <2>2, <2>6, TabMoves
<1>2. CASE handleSubmit(t)
  <2> DEFINE call == [pc |-> "sent", form |-> tab[t].answer, answer |-> answerToWire(tab[t].answer)]
             x == [tab[t] EXCEPT !.answering = call]
  <2>1. tab' = [tab EXCEPT ![t].answering = call] /\ tab[t].card # None /\ tab[t].answer # None
    BY <1>2 DEF handleSubmit, isAnswerComplete
  <2>2. tab'[t] = x /\ DOMAIN tab' = Tabs /\ \A u \in Tabs \ {t} : tab'[u] = tab[u]
    BY <1>0, <2>1
  <2>3. /\ DOMAIN x = DOMAIN tab[t] /\ x.card = tab[t].card /\ x.lists = tab[t].lists
        /\ x.answering = call /\ x.returning = tab[t].returning /\ x.answer = tab[t].answer
    BY <1>0 DEF TabSound
  <2>4. call.pc = "sent" /\ Asked /\ IsForm(call.form) /\ call.answer = answerToWire(call.form)
    BY <1>0, <2>1 DEF TabSound, IsCard
  <2> HIDE DEF x, call
  <2>5. TabSound(x)
    BY <1>0, <2>3, <2>4 DEF TabSound
  <2>6. QED BY <2>2, <2>5, TabMoves
<1>3. CASE handleInsufficientContext(t)
  <2> DEFINE x == [tab[t] EXCEPT !.returning = [pc |-> "sent"]]
  <2>1. tab' = [tab EXCEPT ![t].returning = [pc |-> "sent"]] /\ tab[t].card # None
    BY <1>3 DEF handleInsufficientContext
  <2>2. tab'[t] = x /\ DOMAIN tab' = Tabs /\ \A u \in Tabs \ {t} : tab'[u] = tab[u]
    BY <1>0, <2>1
  <2>3. /\ DOMAIN x = DOMAIN tab[t] /\ x.card = tab[t].card /\ x.lists = tab[t].lists
        /\ x.answering = tab[t].answering /\ x.returning.pc = "sent" /\ x.answer = tab[t].answer
    BY <1>0 DEF TabSound
  <2> HIDE DEF x
  <2>4. TabSound(x)
    BY <1>0, <2>1, <2>3 DEF TabSound, IsCard
  <2>5. QED BY <2>2, <2>4, TabMoves
<1>4. QED BY <1>1, <1>2, <1>3 DEF Submit

\* A tab whose answering moves to a sound state is sound.
LEMMA AnsweringMoves ==
  ASSUME TabsSound, NEW t \in Tabs, Asked => Asked', NEW call, tab' = [tab EXCEPT ![t].answering = call],
         call.pc \in {"sent", "checked"} =>
           Asked /\ IsForm(call.form) /\ call.answer = answerToWire(call.form),
         call.pc = "checked" => call.from \subseteq Open
  PROVE  TabsSound'
<1> DEFINE x == [tab[t] EXCEPT !.answering = call]
<1>1. TabSound(tab[t]) /\ DOMAIN tab = Tabs
  BY DEF TabsSound
<1>2. tab'[t] = x /\ DOMAIN tab' = Tabs /\ \A u \in Tabs \ {t} : tab'[u] = tab[u]
  BY <1>1
<1>3. /\ DOMAIN x = DOMAIN tab[t] /\ x.card = tab[t].card /\ x.lists = tab[t].lists
      /\ x.answering = call /\ x.returning = tab[t].returning /\ x.answer = tab[t].answer
  BY <1>1 DEF TabSound
<1> HIDE DEF x
<1>4. TabSound(x)
  BY <1>1, <1>3 DEF TabSound
<1>5. QED BY <1>2, <1>4, TabMoves

\* The same for the call that hands the query back.
LEMMA ReturningMoves ==
  ASSUME TabsSound, NEW t \in Tabs, Asked => Asked', NEW call, tab' = [tab EXCEPT ![t].returning = call],
         call.pc \in {"sent", "checked"} => Asked,
         call.pc = "checked" => call.from \subseteq Open
  PROVE  TabsSound'
<1> DEFINE x == [tab[t] EXCEPT !.returning = call]
<1>1. TabSound(tab[t]) /\ DOMAIN tab = Tabs
  BY DEF TabsSound
<1>2. tab'[t] = x /\ DOMAIN tab' = Tabs /\ \A u \in Tabs \ {t} : tab'[u] = tab[u]
  BY <1>1
<1>3. /\ DOMAIN x = DOMAIN tab[t] /\ x.card = tab[t].card /\ x.lists = tab[t].lists
      /\ x.answering = tab[t].answering /\ x.returning = call /\ x.answer = tab[t].answer
  BY <1>1 DEF TabSound
<1> HIDE DEF x
<1>4. TabSound(x)
  BY <1>1, <1>3 DEF TabSound
<1>5. QED BY <1>2, <1>4, TabMoves

\* The server's answers and their way to the tab leave it sound.
LEMMA RespondStep ==
  ASSUME TabsSound, NEW t \in Tabs, Respond(t), Asked => Asked'
  PROVE  TabsSound'
<1>0. TabSound(tab[t]) /\ DOMAIN tab = Tabs
  BY DEF TabsSound
<1>1. CASE AnswerRead(t)
  <2> DEFINE a == tab[t].answering.answer
             checked == [pc |-> "checked", form |-> tab[t].answering.form, answer |-> a,
                         from |-> IF row.status = "pending" THEN {"pending"} ELSE {"assigned", "needs_context"}]
  <2>1. PICK call \in {checked, Rejected} : tab' = [tab EXCEPT ![t].answering = call]
    BY <1>1 DEF AnswerRead
  <2>2. tab[t].answering.pc = "sent"
    BY <1>1 DEF AnswerRead
  <2>3. Asked /\ IsForm(tab[t].answering.form) /\ a = answerToWire(tab[t].answering.form)
    BY <1>0, <2>2 DEF TabSound
  <2>4. CASE call = checked
    <3>1. /\ call.form = tab[t].answering.form /\ call.answer = a /\ call.from \subseteq Open
      BY <2>4 DEF Open
    <3>2. QED BY <2>1, <2>3, <3>1, AnsweringMoves
  <2>5. CASE call = Rejected
    <3>1. call.pc = "refused"
      BY <2>5 DEF Rejected
    <3>2. QED BY <2>1, <3>1, AnsweringMoves
  <2>6. QED BY <2>4, <2>5
<1>2. CASE AnswerWrite(t)
  <2>1. PICK call \in {Accepted, Rejected} : tab' = [tab EXCEPT ![t].answering = call]
    BY <1>2 DEF AnswerWrite
  <2>2. call.pc \in {"accepted", "refused"}
    BY DEF Accepted, Rejected
  <2>3. QED BY <2>1, <2>2, AnsweringMoves
<1>3. CASE ReturnRead(t)
  <2> DEFINE checked == [pc |-> "checked", rounds |-> row.rounds,
                         from |-> IF row.status = "pending" THEN {"pending"} ELSE {"assigned"}]
  <2>1. PICK call \in {checked, Rejected} : tab' = [tab EXCEPT ![t].returning = call]
    BY <1>3 DEF ReturnRead
  <2>2. Asked
    BY <1>0, <1>3 DEF ReturnRead, TabSound
  <2>3. call.pc = "checked" => call.from \subseteq Open
    BY DEF Rejected, Open
  <2>4. QED BY <2>1, <2>2, <2>3, ReturningMoves
<1>4. CASE ReturnWrite(t)
  <2>1. PICK call \in {Accepted, Rejected} : tab' = [tab EXCEPT ![t].returning = call]
    BY <1>4 DEF ReturnWrite
  <2>2. call.pc \in {"accepted", "refused"}
    BY DEF Accepted, Rejected
  <2>3. QED BY <2>1, <2>2, ReturningMoves
<1>5. ASSUME NEW kind \in {"answer", "return"}, respond(t, kind) PROVE TabsSound'
  <2>1. PICK arrives \in BOOLEAN :
          LET call == IF kind = "answer" THEN tab[t].answering ELSE tab[t].returning
              gone == arrives /\ call = Accepted
          IN  tab' = [tab EXCEPT ![t].answering = IF kind = "answer" THEN Quiet ELSE @,
                                 ![t].returning = IF kind = "return" THEN Quiet ELSE @,
                                 ![t].card = IF gone THEN None ELSE @,
                                 ![t].answer = IF gone THEN None ELSE @]
    BY <1>5 DEF respond
  <2> DEFINE call == IF kind = "answer" THEN tab[t].answering ELSE tab[t].returning
             gone == arrives /\ call = Accepted
             x == tab'[t]
  <2>2. DOMAIN tab' = Tabs /\ \A u \in Tabs \ {t} : tab'[u] = tab[u]
    BY <1>0, <2>1
  <2>3. /\ DOMAIN x = DOMAIN tab[t] /\ x.lists = tab[t].lists
        /\ x.answering \in {tab[t].answering, Quiet} /\ x.returning \in {tab[t].returning, Quiet}
        /\ \/ x.card = None /\ x.answer = None
           \/ x.card = tab[t].card /\ x.answer = tab[t].answer
    BY <1>0, <2>1 DEF TabSound
  <2>4. PICK y : y = x
    OBVIOUS
  <2> HIDE DEF x
  <2>5. TabSound(y)
    BY <1>0, <2>3, <2>4 DEF TabSound, IsCard, Quiet
  <2>6. QED BY <2>2, <2>4, <2>5, TabMoves DEF x
<1>6. QED BY <1>1, <1>2, <1>3, <1>4, <1>5 DEF Respond

\* No step of the agent or of any tab leaves a tab with a form that is not its card's kind.
LEMMA TabsStep == DialogueGate /\ TabsSound /\ [DialogueNext]_dialogueVars => TabsSound'
<1> SUFFICES ASSUME DialogueGate, TabsSound, [DialogueNext]_dialogueVars PROVE TabsSound'
  OBVIOUS
<1>1. Asked => Asked'
  BY AskedStays
<1>2. ASSUME NEW t \in Tabs, Look(t) \/ Submit(t) \/ Respond(t) PROVE TabsSound'
  BY <1>1, <1>2, LookStep, SubmitStep, RespondStep
<1>3. CASE UNCHANGED tab
  BY <1>1, <1>3 DEF TabsSound, TabSound, IsCard
<1>4. ASSUME Ask \/ UNCHANGED dialogueVars PROVE UNCHANGED tab
  BY <1>4 DEF Ask, human_query, clarify_query, cancel_query, get_query, list_queries, CheckHistory, createQuery,
     ClarifyRead, updateQuery, Close, DecideElsewhere, getQuery, listAgentQueries, dialogueVars
<1>5. QED BY <1>2, <1>3, <1>4 DEF DialogueNext

--------------------------------------------------------------------------------
\* What is recorded is what was given, in the wire's spelling, and what is heard comes
\* from there.
AnswerIsSound ==
  /\ Asked /\ row.status # "answered" => row.answer = None
  /\ Asked /\ row.status = "answered" => IsForm(given) /\ row.answer = answerToWire(given)
  /\ heard # None => Asked /\ row.status = "answered" /\ heard = answerFromWire(row.answer)

DialogueInv == DialogueGate /\ TabsSound /\ AnswerIsSound

\* A form's way to the wire and back leaves out the slots that have no value.
LEMMA ThereAndBack ==
  ASSUME NEW form, IsForm(form)
  PROVE  LET back == answerFromWire(answerToWire(form))
         IN  /\ back.kind = form.kind
             /\ back.kind # "fields" => back = form
             /\ back.kind = "fields" =>
                  back.values = Restrict(form.values, {id \in DOMAIN form.values : form.values[id] # None})
<1>1. CASE form.kind \in {"boolean", "scalar", "date", "text"}
  BY <1>1 DEF answerFromWire, answerToWire
<1>2. CASE form = [kind |-> "choice", optionIds |-> form.optionIds]
  <2>1. answerToWire(form) = [kind |-> "choice", option_ids |-> form.optionIds]
    BY <1>2 DEF answerToWire
  <2>2. answerFromWire(answerToWire(form)) = [kind |-> "choice", optionIds |-> form.optionIds]
    BY <2>1 DEF answerFromWire
  <2>3. QED BY <1>2, <2>2
<1>3. CASE IsFields(form)
  <2> DEFINE valued == Restrict(form.values, {id \in DOMAIN form.values : form.values[id] # None})
  <2>1. form = [kind |-> "fields", values |-> form.values]
    BY <1>3 DEF IsFields
  <2>2. answerToWire(form) = [form EXCEPT !.values = valued]
    BY <2>1 DEF answerToWire
  <2> HIDE DEF valued
  <2>3. [form EXCEPT !.values = valued] = [kind |-> "fields", values |-> valued]
    BY <2>1
  <2>4. answerFromWire(answerToWire(form)) = [kind |-> "fields", values |-> valued]
    BY <2>2, <2>3 DEF answerFromWire
  <2>5. QED BY <2>1, <2>4 DEF valued
<1>4. QED BY <1>1, <1>2, <1>3 DEF IsForm

\* Nothing is recorded or heard at first.
LEMMA AnswerInit == DialogueInit => AnswerIsSound
BY DEF DialogueInit, AnswerIsSound, Asked, Quiet

\* Whatever leaves the answer alone, and the status unless it is still open, keeps it sound.
LEMMA AnswerKept ==
  ASSUME AnswerIsSound, UNCHANGED <<heard, given>>, Asked <=> Asked',
         \/ row' = row
         \/ Asked /\ row.status # "answered" /\ row'.status # "answered" /\ row'.answer = row.answer
  PROVE  AnswerIsSound'
BY DEF AnswerIsSound

\* No step records or hears anything else than what was given.
LEMMA AnswerStep == DialogueInv /\ [DialogueNext]_dialogueVars => AnswerIsSound'
<1> SUFFICES ASSUME DialogueGate, TabsSound, AnswerIsSound, [DialogueNext]_dialogueVars PROVE AnswerIsSound'
  BY DEF DialogueInv
<1>0. Asked => Asked' /\ DOMAIN row = RowFields
  BY AskedStays DEF DialogueGate, RowIsSound
<1>1. CASE CheckHistory
  <2>1. ~Asked /\ UNCHANGED <<heard, given, row>>
    BY <1>1 DEF CheckHistory, Asked, Quiet
  <2>2. ~Asked'
    BY <1>1 DEF CheckHistory, Asked, Quiet, DialogueGate, AskIsSound
  <2>3. QED BY <2>1, <2>2, AnswerKept
<1>2. CASE createQuery
  <2>1. ~Asked /\ UNCHANGED <<heard, given>>
    BY <1>2 DEF createQuery, Asked
  <2>2. row'.status \in {"pending", "assigned"} /\ row'.answer = None
    BY <1>2 DEF createQuery
  <2>3. QED BY <2>1, <2>2 DEF AnswerIsSound
<1>3. CASE ClarifyRead
  <2>1. UNCHANGED <<heard, given, row>> /\ agent'["ask"] = agent["ask"]
    BY <1>3 DEF ClarifyRead, DialogueGate, AskIsSound
  <2>2. QED BY <2>1, AnswerKept DEF Asked
<1>4. CASE updateQuery
  <2>1. UNCHANGED <<heard, given>> /\ agent'["ask"] = agent["ask"]
    BY <1>4 DEF updateQuery, DialogueGate, AskIsSound
  <2>2. Asked
    BY <1>4 DEF updateQuery, DialogueGate, AskIsSound
  <2>3. \/ row' = row
        \/ row.status # "answered" /\ row'.status # "answered" /\ row'.answer = row.answer
    BY <1>0, <1>4, <2>2 DEF updateQuery, RowFields
  <2>4. QED BY <2>1, <2>2, <2>3, AnswerKept DEF Asked
<1>5. CASE Close
  <2>1. UNCHANGED <<heard, given, agent>> /\ Asked
    BY <1>5 DEF Close, DialogueGate, RowIsSound
  <2>2. row.status # "answered" /\ row'.status # "answered" /\ row'.answer = row.answer
    BY <1>0, <1>5, <2>1 DEF Close, RowFields, Open
  <2>3. QED BY <2>1, <2>2, AnswerKept DEF Asked
<1>6. CASE getQuery
  <2>1. UNCHANGED <<row, agent, given>> /\ row # None /\ heard' = fromQueryWire(shapeQuery).answer
    BY <1>6 DEF getQuery
  <2>2. heard' # None => row.status = "answered" /\ heard' = answerFromWire(row.answer)
    BY <2>1 DEF fromQueryWire, shapeQuery
  <2>3. QED BY <2>1, <2>2 DEF AnswerIsSound, Asked, DialogueGate, RowIsSound
<1>7. CASE listAgentQueries
  <2>1. UNCHANGED <<row, agent, given>> /\ row # None /\ heard' = fromQuerySummaryWire([answer |-> row.answer])
    BY <1>7 DEF listAgentQueries
  <2>2. heard' # None => row.answer # None /\ heard' = answerFromWire(row.answer)
    BY <2>1 DEF fromQuerySummaryWire
  <2>3. Asked /\ Asked'
    BY <2>1 DEF Asked, DialogueGate, RowIsSound
  <2>4. QED BY <2>1, <2>2, <2>3 DEF AnswerIsSound
<1>8. ASSUME NEW t \in Tabs, AnswerWrite(t) PROVE AnswerIsSound'
  <2> DEFINE c == tab[t].answering
  <2>1. UNCHANGED <<heard, agent>> /\ Asked /\ Asked' /\ c.from \subseteq Open
    BY <1>8 DEF AnswerWrite, TabsSound, TabSound, Asked
  <2>2. IsForm(c.form) /\ c.answer = answerToWire(c.form)
    BY <1>8 DEF AnswerWrite, TabsSound, TabSound
  <2>3. CASE row.status \in c.from
    <3>1. row.status # "answered"
      BY <2>1, <2>3 DEF Open
    <3>2. row' = [row EXCEPT !.status = "answered", !.answer = c.answer] /\ given' = c.form
      BY <1>8, <2>3 DEF AnswerWrite
    <3>3. row'.status = "answered" /\ row'.answer = c.answer
      BY <1>0, <2>1, <3>2 DEF RowFields
    <3> HIDE DEF c
    <3>4. QED BY <2>1, <2>2, <3>1, <3>2, <3>3 DEF AnswerIsSound
  <2>4. CASE row.status \notin c.from
    <3>1. UNCHANGED <<row, given>>
      BY <1>8, <2>4 DEF AnswerWrite
    <3>2. QED BY <2>1, <3>1, AnswerKept
  <2>5. QED BY <2>3, <2>4
<1>9. ASSUME NEW t \in Tabs, ReturnWrite(t) PROVE AnswerIsSound'
  <2> DEFINE c == tab[t].returning
  <2>1. UNCHANGED <<heard, agent, given>> /\ Asked /\ Asked' /\ c.from \subseteq Open
    BY <1>9 DEF ReturnWrite, TabsSound, TabSound, Asked
  <2>2. \/ row' = row
        \/ row.status \in c.from /\ row' = [row EXCEPT !.status = "needs_context", !.rounds = c.rounds + 1]
    BY <1>9 DEF ReturnWrite
  <2> HIDE DEF c
  <2>3. \/ row' = row
        \/ row.status # "answered" /\ row'.status # "answered" /\ row'.answer = row.answer
    BY <1>0, <2>1, <2>2 DEF RowFields, Open
  <2>4. QED BY <2>1, <2>3, AnswerKept
<1>10. CASE UNCHANGED <<row, agent, heard, given>>
  BY <1>10, AnswerKept DEF Asked
<1>11. ASSUME NEW t \in Tabs, Look(t) \/ Submit(t) \/ Respond(t), ~AnswerWrite(t), ~ReturnWrite(t)
       PROVE  UNCHANGED <<row, agent, heard, given>>
  BY <1>11 DEF Look, Submit, Respond, OpenChat, listHumanQueries, fetchQueries, ListFails, Edit, handleSubmit,
     handleInsufficientContext, AnswerRead, ReturnRead, respond
<1>12. ASSUME DecideElsewhere \/ UNCHANGED dialogueVars PROVE UNCHANGED <<row, agent, heard, given>>
  BY <1>12 DEF DecideElsewhere, dialogueVars
<1>13. QED
  BY <1>1, <1>2, <1>3, <1>4, <1>5, <1>6, <1>7, <1>8, <1>9, <1>10, <1>11, <1>12
  DEF DialogueNext, Ask, human_query, clarify_query, cancel_query, get_query, list_queries

\* The invariant of the dialogue.
LEMMA DialogueCorrect == DialogueSpec => []DialogueInv
<1>1. DialogueInit => DialogueInv
  BY GateInit, TabsInit, AnswerInit DEF DialogueInv
<1>2. DialogueInv /\ [DialogueNext]_dialogueVars => DialogueInv'
  BY GateStep, TabsStep, AnswerStep DEF DialogueInv
<1>3. QED BY <1>1, <1>2, PTL DEF DialogueSpec

(* What a person is asked has passed the gate at a risk not below the declared one, nor *)
(* below `high` when more is at stake than the amount, however clarifications, answers  *)
(* and cancellations race: createQuery and updateQuery with elevateRisk.                *)
THEOREM GateCorrect == DialogueSpec => []GateHolds
<1>1. DialogueInv => GateHolds
  BY DEF DialogueInv, DialogueGate, RowIsSound, Judged, GateHolds
<1>2. QED BY <1>1, DialogueCorrect, PTL

(* The agent reads what the person put into the form, for every space and any number of *)
(* tabs: answerToWire, respondQuery, shapeQuery, answerFromWire.                        *)
THEOREM ReadCorrect == DialogueSpec => []AgentReadsWhatWasGiven
<1>1. DialogueInv => AgentReadsWhatWasGiven
  BY ThereAndBack DEF DialogueInv, AnswerIsSound, AgentReadsWhatWasGiven
<1>2. QED BY <1>1, DialogueCorrect, PTL

--------------------------------------------------------------------------------
(* What can be entered *)

\* A set of numbers that has 0 and the next of each it has, has all: there is no least one missing.
LEMMA Induction ==
  ASSUME NEW T \in SUBSET Nat, 0 \in T, \A n \in T : n + 1 \in T
  PROVE  T = Nat
<1> SUFFICES ASSUME Nat \ T # {} PROVE FALSE
  OBVIOUS
<1>1. IsWellFoundedOn(OpToRel(<, Nat), Nat)
  BY NatLessThanWellFounded
<1> DEFINE R == OpToRel(<, Nat)
<1>2. \A x, y \in Nat : x < y => <<x, y>> \in R
  BY DEF OpToRel
<1> HIDE DEF R
<1>3. \E m \in Nat \ T : \A k \in Nat \ T : <<k, m>> \notin R
  BY <1>1, WFMin, Nat \ T \subseteq Nat, Zenon DEF R
<1>4. PICK m \in Nat \ T : \A k \in Nat \ T : <<k, m>> \notin R
  BY <1>3
<1>5. m # 0 /\ m - 1 \in Nat /\ m - 1 < m
  BY <1>4
<1>6. m - 1 \in T
  BY <1>2, <1>4, <1>5
<1>7. m - 1 + 1 \in T
  BY <1>6
<1> QED BY <1>4, <1>5, <1>7

\* The forms within reach after each entry are those before it and what an input makes of them.
Entered(s, forms) == forms \cup UNION {AnswerSpaceInput(s, a) : a \in forms}

AfterEntries(after, s, entries) ==
  after = [n \in 0 .. entries |-> IF n = 0 THEN {Mounted(s)} ELSE Entered(s, after[n - 1])]

\* If there is such a table of forms for some entries, there is one for one entry more.
LEMMA OneMore ==
  ASSUME NEW s, NEW m \in Nat, NEW before, AfterEntries(before, s, m)
  PROVE  \E after : AfterEntries(after, s, m + 1)
<1> DEFINE after == [n \in 0 .. m + 1 |-> IF n <= m THEN before[n] ELSE Entered(s, before[m])]
<1>1. before = [n \in 0 .. m |-> IF n = 0 THEN {Mounted(s)} ELSE Entered(s, before[n - 1])]
  BY DEF AfterEntries
<1>2. ASSUME NEW n \in 0 .. m + 1
      PROVE  after[n] = IF n = 0 THEN {Mounted(s)} ELSE Entered(s, after[n - 1])
  <2>1. CASE n = 0
    BY <1>1, <2>1
  <2>2. CASE n # 0 /\ n <= m
    <3>1. n \in 0 .. m /\ n - 1 \in 0 .. m + 1 /\ n - 1 <= m
      BY <2>2
    <3>2. after[n] = before[n] /\ after[n - 1] = before[n - 1]
      BY <2>2, <3>1
    <3> HIDE DEF after
    <3>3. before[n] = Entered(s, before[n - 1])
      BY <1>1, <2>2, <3>1
    <3> QED BY <2>2, <3>2, <3>3
  <2>3. CASE n = m + 1
    <3>1. after[n] = Entered(s, before[m]) /\ m \in 0 .. m + 1 /\ n # 0 /\ n - 1 = m
      BY <2>3
    <3>2. after[m] = before[m]
      BY <3>1
    <3> HIDE DEF after
    <3> QED BY <3>1, <3>2
  <2> HIDE DEF after
  <2> QED BY <2>1, <2>2, <2>3
<1>3. AfterEntries(after, s, m + 1)
  BY <1>2 DEF AfterEntries
<1> QED BY <1>3

\* So there is one for any number of entries, and the forms it ends with are the filled ones.
LEMMA EntriesDefined ==
  ASSUME NEW s, NEW entries \in Nat
  PROVE  \E after : AfterEntries(after, s, entries) /\ Filled(s, entries) = after[entries]
<1> DEFINE T == {m \in Nat : \E f : AfterEntries(f, s, m)}
<1>1. 0 \in T
  <2>1. AfterEntries([n \in 0 .. 0 |-> {Mounted(s)}], s, 0)
    BY DEF AfterEntries
  <2> QED BY <2>1
<1>2. \A m \in T : m + 1 \in T
  BY OneMore
<1>3. T = Nat
  <2> HIDE DEF T
  <2>1. T \in SUBSET Nat BY DEF T
  <2> QED BY <1>1, <1>2, <2>1, Induction
<1>4. PICK f : AfterEntries(f, s, entries)
  BY <1>3
<1> DEFINE after == CHOOSE h : AfterEntries(h, s, entries)
<1>5. AfterEntries(after, s, entries) 
  BY <1>4
<1>6. Filled(s, entries) = after[entries]
  BY DEF Filled, AfterEntries, Entered
<1> QED BY <1>5, <1>6

\* What a series of entries leads to, one after another from the untouched form, is a form a few entries can make.
LEMMA Reached ==
  ASSUME NEW s, NEW entries \in Nat, NEW n \in 0 .. entries, NEW p,
         p[0] = Mounted(s), \A i \in 0 .. n - 1 : p[i + 1] \in AnswerSpaceInput(s, p[i])
  PROVE  p[n] \in Filled(s, entries)
<1>1. PICK after : AfterEntries(after, s, entries) /\ Filled(s, entries) = after[entries]
  BY EntriesDefined
<1>2. after[0] = {Mounted(s)} /\ \A m \in 1 .. entries : after[m] = Entered(s, after[m - 1])
  <2>1. ASSUME NEW m \in 0 .. entries
        PROVE  after[m] = IF m = 0 THEN {Mounted(s)} ELSE Entered(s, after[m - 1])
    BY <1>1 DEF AfterEntries
  <2>2. after[0] = {Mounted(s)}
    BY <2>1, 0 \in 0 .. entries
  <2>3. ASSUME NEW m \in 1 .. entries PROVE after[m] = Entered(s, after[m - 1])
    <3>1. m \in 0 .. entries /\ m # 0
      OBVIOUS
    <3> QED BY <2>1, <3>1
  <2> QED BY <2>2, <2>3
<1> DEFINE T == {m \in Nat : m <= entries => p[IF m <= n THEN m ELSE n] \in after[m]}
<1>3. 0 \in T
  BY <1>2
<1>4. ASSUME NEW m \in T PROVE m + 1 \in T
  <2> SUFFICES ASSUME m + 1 <= entries PROVE p[IF m + 1 <= n THEN m + 1 ELSE n] \in after[m + 1]
    OBVIOUS
  <2>1. p[IF m <= n THEN m ELSE n] \in after[m]
    OBVIOUS
  <2>2. after[m + 1] = Entered(s, after[m])
    BY <1>2
  <2>3. CASE m + 1 <= n
    <3>1. p[m + 1] \in AnswerSpaceInput(s, p[m]) /\ p[m] \in after[m]
      BY <2>1, <2>3
    <3> QED BY <2>2, <2>3, <3>1 DEF Entered
  <2>4. CASE ~(m + 1 <= n)
    <3>1. p[n] \in after[m]
      BY <2>1, <2>4
    <3> QED BY <2>2, <2>4, <3>1 DEF Entered
  <2> QED BY <2>3, <2>4
<1>5. T = Nat
  <2> HIDE DEF T
  <2>1. T \in SUBSET Nat BY DEF T
  <2> QED BY <1>3, <1>4, <2>1, Induction
<1>6. entries \in T
  BY <1>5
<1>7. p[n] \in after[entries]
  BY <1>6
<1> QED BY <1>1, <1>7

\* One entry.
LEMMA OneEntry ==
  ASSUME NEW s, NEW entries \in Nat, entries >= 1, NEW a \in AnswerSpaceInput(s, Mounted(s))
  PROVE  a \in Filled(s, entries)
<1> DEFINE p == [i \in 0 .. 1 |-> IF i = 0 THEN Mounted(s) ELSE a]
<1>1. p[0] = Mounted(s) /\ p[1] = a
  OBVIOUS
<1>2. ASSUME NEW i \in 0 .. 1 - 1 PROVE p[i + 1] \in AnswerSpaceInput(s, p[i])
  <2>1. i = 0 /\ i + 1 = 1
    OBVIOUS
  <2> QED BY <1>1, <2>1
<1>3. 1 \in 0 .. entries
  OBVIOUS
<1> HIDE DEF p
<1>4. p[1] \in Filled(s, entries)
  BY <1>1, <1>2, <1>3, Reached
<1> QED BY <1>1, <1>4

\* There are as many positions as a sequence is long.
LEMMA UpTo ==
  ASSUME NEW n \in Nat
  PROVE  IsFiniteSet(1 .. n) /\ Cardinality(1 .. n) = n
BY FS_Interval

\* No two of distinct ids are the same.
LEMMA DistinctIds ==
  ASSUME NEW S, NEW ids \in Seq(S), Distinct(ids)
  PROVE  \A i, j \in 1 .. Len(ids) : ids[i] = ids[j] => i = j
<1>1. ids \in Surjection(1 .. Len(ids), Range(ids))
  BY DEF Surjection, Range
<1>2. IsFiniteSet(1 .. Len(ids)) /\ Cardinality(1 .. Len(ids)) = Len(ids)
  BY UpTo, Len(ids) \in Nat
<1>3. ids \in Injection(1 .. Len(ids), Range(ids))
  BY <1>1, <1>2, FS_Surjection DEF Distinct
<1> QED BY <1>3 DEF Injection, IsInjective

\* The values of a sequence are finitely many, not more than it is long.
LEMMA RangeOfSequence ==
  ASSUME NEW S, NEW q \in Seq(S)
  PROVE  IsFiniteSet(Range(q)) /\ Cardinality(Range(q)) \in Nat /\ Cardinality(Range(q)) <= Len(q)
<1>1. q \in Surjection(1 .. Len(q), Range(q))
  BY DEF Surjection, Range
<1>2. IsFiniteSet(1 .. Len(q)) /\ Cardinality(1 .. Len(q)) = Len(q)
  BY UpTo, Len(q) \in Nat
<1> QED BY <1>1, <1>2, FS_Surjection, FS_CardinalityType

\* A sequence that does not repeat itself is distinct.
LEMMA InjectiveDistinct ==
  ASSUME NEW S, NEW ids \in Seq(S), \A i, j \in 1 .. Len(ids) : ids[i] = ids[j] => i = j
  PROVE  Distinct(ids)
<1>1. ids \in Surjection(1 .. Len(ids), Range(ids))
  BY DEF Surjection, Range
<1>2. IsFiniteSet(1 .. Len(ids)) /\ Cardinality(1 .. Len(ids)) = Len(ids)
  BY UpTo, Len(ids) \in Nat
<1>3. ids \in Injection(1 .. Len(ids), Range(ids))
  BY <1>1 DEF Surjection, Injection, IsInjective
<1> QED BY <1>1, <1>2, <1>3, FS_Surjection DEF Distinct

\* The answer of two is one click.
LEMMA BooleanGiven ==
  ASSUME NEW w, w.kind = "boolean", NEW entries \in Nat, entries >= 1, NEW a \in Decisions(w), Typed(w)
  PROVE  a \in Sendable(answerSpaceFromWire(w), entries)
<1> DEFINE s == answerSpaceFromWire(w)
<1>1. s = w /\ Mounted(s) = None
  BY DEF answerSpaceFromWire, Mounted
<1>2. a \in BooleanAnswer(s)
  BY DEF Decisions, SlotValues, BooleanAnswer
<1>3. a.kind = "boolean" /\ answerToWire(a) = a /\ a # None
  BY <1>2 DEF answerToWire, answerFromWire, BooleanAnswer, Typed
<1>4. a \in AnswerSpaceInput(s, Mounted(s))
  BY <1>1, <1>2 DEF AnswerSpaceInput
<1>5. a \in Filled(s, entries)
  BY <1>4, OneEntry
<1>6. isAnswerComplete(s, a)
  BY <1>1, <1>3 DEF isAnswerComplete
<1> QED BY <1>3, <1>5, <1>6 DEF Sendable

\* A number or a date is one entry.
LEMMA NumberGiven ==
  ASSUME NEW w, w.kind \in {"scalar", "date"}, NEW entries \in Nat, entries >= 1, NEW a \in Decisions(w), Typed(w)
  PROVE  a \in Sendable(answerSpaceFromWire(w), entries)
<1> DEFINE s == answerSpaceFromWire(w)
<1>1. s = w /\ Mounted(s) = None
  BY DEF answerSpaceFromWire, Mounted
<1>2. PICK n \in Numbers : a = [kind |-> w.kind, value |-> n]
  BY DEF Decisions, SlotValues
<1>3. a.kind = w.kind /\ answerToWire(a) = a /\ a # None
  BY <1>2 DEF answerToWire, answerFromWire, Typed
<1>4. a \in AnswerSpaceInput(s, Mounted(s))
  BY <1>1, <1>2 DEF AnswerSpaceInput, ScalarAnswer, DateAnswer
<1>5. a \in Filled(s, entries)
  BY <1>4, OneEntry
<1>6. isAnswerComplete(s, a)
  BY <1>1, <1>3 DEF isAnswerComplete
<1> QED BY <1>3, <1>5, <1>6 DEF Sendable

\* So is a text, which is not blank and no longer than the space says.
LEMMA TextGiven ==
  ASSUME NEW w, w.kind = "text", NEW entries \in Nat, entries >= 1, NEW a \in Decisions(w), Typed(w)
  PROVE  a \in Sendable(answerSpaceFromWire(w), entries)
<1> DEFINE s == answerSpaceFromWire(w)
<1>1. s.kind = "text" /\ s.maxLength = w.max_length /\ Mounted(s) = None
  BY DEF answerSpaceFromWire, Mounted
<1>2. PICK n \in Texts : a = [kind |-> "text", value |-> n]
  BY DEF Decisions, SlotValues
<1>3. a.kind = "text" /\ answerToWire(a) = a /\ a # None
  BY <1>2 DEF answerToWire, answerFromWire, Typed
<1>4. Length(n) <= w.max_length
  BY <1>2 DEF Decisions, validateAnswerAgainstSpace
<1>5. n # Empty /\ n # Blank /\ Length(n) = n
  BY ValueConstants DEF Length
<1> HIDE DEF s
<1>6. a \in TextAnswer(s)
  BY <1>1, <1>2, <1>4, <1>5 DEF TextAnswer, Nonempty
<1>7. a \in AnswerSpaceInput(s, Mounted(s))
  BY <1>1, <1>6 DEF AnswerSpaceInput
<1>8. a \in Filled(s, entries)
  BY <1>7, OneEntry
<1>9. isAnswerComplete(s, a)
  BY <1>1, <1>2, <1>3, <1>5 DEF isAnswerComplete
<1> QED BY <1>3, <1>8, <1>9 DEF Sendable, s


\* A choice is made click by click: each ticks the next of the options chosen.
LEMMA ChoiceGiven ==
  ASSUME NEW w, Space(w), w.kind = "choice", NEW entries \in Nat, Fills(entries, w), Typed(w), NEW a \in Decisions(w)
  PROVE  a \in Sendable(answerSpaceFromWire(w), entries)
<1> DEFINE options == Range(w.options)
           Chosen(ids) == [kind |-> "choice", option_ids |-> ids]
           Clicked(ids) == [kind |-> "choice", optionIds |-> ids]
<1>1. answerSpaceFromWire(w) = w /\ Mounted(w) = None
  BY DEF answerSpaceFromWire, Mounted
<1>2. IsFiniteSet(options) /\ Cardinality(options) \in Nat /\ Cardinality(options) <= entries /\ 1 <= entries
  BY RangeOfSequence, Len(w.options) \in Nat DEF Typed, Fills
<1>2a. PICK n \in 1 .. Cardinality(options) : \E ids \in [1 .. n -> options] : a = Chosen(ids)
  BY DEF Decisions, Orderings
<1>3. PICK ids \in [1 .. n -> options] : a = Chosen(ids)
  BY <1>2a
<1>4. ids \in Seq(options) /\ Len(ids) = n /\ n \in Nat /\ n >= 1 /\ n <= entries
  BY <1>2
<1>5. (w.select = "one" => n = 1) /\ Distinct(ids)
  BY <1>3, <1>4 DEF Decisions, validateAnswerAgainstSpace
<1>6. \A i, j \in 1 .. n : ids[i] = ids[j] => i = j
  BY <1>4, <1>5, DistinctIds
<1>7. answerToWire(Clicked(ids)) = a
  BY <1>3 DEF answerToWire
<1> DEFINE first(i) == [j \in 1 .. i |-> ids[j]]
           p == [i \in 0 .. n |-> IF i = 0 THEN None ELSE Clicked(IF w.select = "one" THEN ids ELSE first(i))]
<1>8. first(n) = ids /\ p[0] = None /\ p[n] = Clicked(ids)
  BY <1>4
<1>9. ASSUME NEW i \in 1 .. n, w.select # "one"
      PROVE  first(i) \in Seq(options) /\ Len(first(i)) = i /\ Clicked(first(i)) # None
  <2>1. first(i) \in [1 .. i -> options] /\ i \in 1 .. Cardinality(options)
    BY <1>2, <1>3, <1>4
  <2>2. first(i) \in Seq(options) /\ Len(first(i)) = i
    BY <2>1
  <2>3. \A j, k \in 1 .. i : first(i)[j] = first(i)[k] => j = k
    BY <1>6
  <2>4. Range(first(i)) \subseteq options
    BY <2>1 DEF Range
  <2> HIDE DEF first
  <2>5. Distinct(first(i))
    BY <2>2, <2>3, InjectiveDistinct
  <2>6. Chosen(first(i)) \in {Chosen(x) : x \in Orderings(options)}
    BY <2>1 DEF Orderings
  <2>7. validateAnswerAgainstSpace(w, Chosen(first(i)))
    BY <1>9, <2>4, <2>5 DEF validateAnswerAgainstSpace
  <2>8. Chosen(first(i)) \in Decisions(w)
    BY <2>6, <2>7 DEF Decisions
  <2>9. answerFromWire(Chosen(first(i))) = Clicked(first(i))
    BY DEF answerFromWire
  <2> HIDE DEF Chosen, Clicked
  <2> QED BY <2>2, <2>8, <2>9 DEF Typed
<1>10. ASSUME NEW i \in 0 .. n - 1, w.select # "one" PROVE p[i + 1] \in AnswerSpaceInput(w, p[i])
  <2>1. ids[i + 1] \in options /\ i + 1 \in 1 .. n
    BY <1>3, <1>4
  <2> DEFINE selected == IF i = 0 THEN <<>> ELSE first(i)
  <2>2. selected = IF p[i] # None /\ p[i].kind = "choice" THEN p[i].optionIds ELSE <<>>
    <3>1. CASE i = 0
      BY <1>8, <3>1
    <3>2. CASE i # 0
      <4>1. p[i] = Clicked(first(i)) /\ i \in 1 .. n
        BY <1>4, <1>10, <3>2
      <4>2. p[i] # None /\ p[i].kind = "choice" /\ p[i].optionIds = first(i)
        BY <1>9, <1>10, <4>1
      <4> QED BY <3>2, <4>2
    <3> QED BY <3>1, <3>2
  <2>3. ids[i + 1] \notin Range(selected) /\ Append(selected, ids[i + 1]) = first(i + 1)
    <3>1. CASE i = 0
      BY <2>1, <3>1 DEF Range
    <3>2. CASE i # 0
      BY <1>6, <1>9, <1>10, <2>1, <3>2 DEF Range
    <3> QED BY <3>1, <3>2
  <2>4. p[i + 1] = Clicked(first(i + 1))
    BY <1>10, <2>1
  <2> HIDE DEF first, p, selected
  <2>5. Toggle(selected, ids[i + 1]) = first(i + 1)
    BY <2>3 DEF Toggle
  <2>6. p[i + 1] \in ChoiceAnswer(w, p[i])
    BY <1>10, <2>1, <2>2, <2>4, <2>5 DEF ChoiceAnswer
  <2> QED BY <2>6 DEF AnswerSpaceInput
<1>11. ASSUME w.select # "one" PROVE Clicked(ids) \in Filled(w, entries)
  <2>1. \A i \in 0 .. n - 1 : p[i + 1] \in AnswerSpaceInput(w, p[i])
    BY <1>10, <1>11
  <2>2. n \in 0 .. entries /\ p[0] = Mounted(w)
    BY <1>1, <1>4, <1>8
  <2> HIDE DEF p
  <2>3. p[n] \in Filled(w, entries)
    BY <2>1, <2>2, Reached
  <2> QED BY <1>8, <2>3
<1>12. ASSUME w.select = "one" PROVE Clicked(ids) \in Filled(w, entries)
  <2>1. ids = <<ids[1]>> /\ ids[1] \in options
    BY <1>3, <1>5, <1>12
  <2> HIDE DEF p, first
  <2>2. Clicked(ids) \in ChoiceAnswer(w, None)
    BY <1>12, <2>1 DEF ChoiceAnswer
  <2>3. Clicked(ids) \in AnswerSpaceInput(w, Mounted(w))
    BY <1>1, <2>2 DEF AnswerSpaceInput
  <2> QED BY <1>2, <2>3, OneEntry
<1>13. Clicked(ids) \in Filled(w, entries)
  BY <1>11, <1>12
<1>14. Clicked(ids) # None
  BY <1>3 DEF Typed, answerFromWire
<1>15. isAnswerComplete(w, Clicked(ids))
  BY <1>4, <1>14 DEF isAnswerComplete
<1> QED BY <1>1, <1>7, <1>13, <1>15 DEF Sendable

\* What the server takes for a slot can be entered in the slot, and is something.
LEMMA SlotGiven ==
  ASSUME NEW f, slot(f), NEW v \in SlotValues(f), checkSlotValue(f, v),
         f.kind = "choice" => Range(f.options) \cap {None, Empty} = {}
  PROVE  v \in SlotInputs(slotFromWire(f)) /\ v \notin {None, Empty}
<1>1. CASE f.kind = "boolean"
  BY <1>1, ValueConstants DEF SlotValues, SlotInputs, slotFromWire
<1>2. CASE f.kind = "date"
  BY <1>2, ValueConstants DEF SlotValues, SlotInputs, slotFromWire
<1>3. CASE f.kind = "choice"
  BY <1>3 DEF SlotValues, SlotInputs, slotFromWire
<1>4. CASE f.kind = "scalar"
  BY <1>4, ValueConstants DEF SlotValues, SlotInputs, slotFromWire
<1>5. CASE f.kind = "text"
  <2>1. v \in Texts /\ v # Empty /\ v # None /\ v # Blank
    BY <1>5, ValueConstants DEF SlotValues
  <2>2. v <= f.max_length
    BY <1>5, <2>1 DEF checkSlotValue, Length
  <2>3. slotFromWire(f).kind = "text" /\ slotFromWire(f).maxLength = f.max_length
    BY <1>5 DEF slotFromWire
  <2> QED BY <2>1, <2>2, <2>3 DEF SlotInputs, Nonempty
<1> QED BY <1>1, <1>2, <1>3, <1>4, <1>5 DEF slot

\* The slots of a form are those of its query.
LEMMA SlotKept ==
  ASSUME NEW f
  PROVE  slotFromWire(f).id = f.id
BY DEF slotFromWire

\* A form is filled in slot by slot, whatever it proposes.
LEMMA FieldsGiven ==
  ASSUME NEW w, Space(w), w.kind = "fields", NEW entries \in Nat, Fills(entries, w), Typed(w), NEW a \in Decisions(w)
  PROVE  a \in Sendable(answerSpaceFromWire(w), entries)
<1> DEFINE s == answerSpaceFromWire(w)
           n == Len(w.fields)
           id(i) == w.fields[i].id
           m == proposedValues(s.fields)
           Form(values) == [kind |-> "fields", values |-> values]
<1>1. n \in Nat /\ n <= entries /\ DOMAIN w.fields = 1 .. n /\ Range(w.fields) = {w.fields[i] : i \in 1 .. n}
  BY DEF Typed, Fills, Range
<1>2. /\ s.kind = "fields" /\ DOMAIN s.fields = 1 .. n
      /\ \A i \in 1 .. n : s.fields[i] = slotFromWire(w.fields[i]) /\ s.fields[i].id = id(i)
  <2>1. s = [w EXCEPT !.fields = [i \in DOMAIN @ |-> slotFromWire(@[i])]]
    BY DEF answerSpaceFromWire
  <2>2. s.kind = "fields" /\ s.fields = [i \in DOMAIN w.fields |-> slotFromWire(w.fields[i])]
    BY <2>1 DEF Typed, Space
  <2> HIDE DEF s
  <2> QED BY <1>1, <2>2, SlotKept
<1>3. Range(Ids(w.fields)) = {id(i) : i \in 1 .. n}
  BY <1>1 DEF Range, Ids
<1>4. PICK u \in [Range(Ids(w.fields)) -> UNION {SlotValues(f) : f \in Range(w.fields)}] :
        a = Form(u) /\ \A f \in Range(w.fields) : u[f.id] \in SlotValues(f)
  BY DEF Decisions
<1>5. \A i \in 1 .. n : u[id(i)] \in SlotInputs(s.fields[i]) /\ u[id(i)] \notin {None, Empty}
  <2>1. ASSUME NEW f \in Range(w.fields)
        PROVE  u[f.id] \in SlotInputs(slotFromWire(f)) /\ u[f.id] \notin {None, Empty}
    <3>1. slot(f) /\ (f.kind = "choice" => Range(f.options) \cap {None, Empty} = {})
      BY DEF Space, answerSpaceSchema, Typed
    <3>2. checkSlotValue(f, u[f.id])
      BY <1>4 DEF Decisions, validateAnswerAgainstSpace
    <3> QED BY <1>4, <3>1, <3>2, SlotGiven
  <2> HIDE DEF s
  <2> QED BY <1>1, <1>2, <2>1
<1>6. m = [x \in DOMAIN m |-> m[x]] /\ DOMAIN m \subseteq {id(i) : i \in 1 .. n}
  <2> HIDE DEF s
  <2> QED BY <1>2 DEF proposedValues, Range
<1> DEFINE Held(i) == [x \in DOMAIN m \cup {id(j) : j \in 1 .. i} |->
                         IF \E j \in 1 .. i : id(j) = x THEN u[x] ELSE m[x]]
           p == [i \in 0 .. n |-> Form(Held(i))]
<1>7. Mounted(s) = Form(m)
  BY <1>2 DEF Mounted
<1> HIDE DEF s, m
<1>8. p[0] = Form(m)
  <2>1. {id(j) : j \in 1 .. 0} = {} /\ ~\E j \in 1 .. 0 : TRUE
    OBVIOUS
  <2>2. Held(0) = [x \in DOMAIN m |-> m[x]]
    BY <2>1
  <2>3. Held(0) = m
    BY <1>6, <2>2
  <2> QED BY <1>1, <2>3
<1>9. ASSUME NEW i \in 0 .. n - 1 PROVE p[i + 1] \in AnswerSpaceInput(s, p[i])
  <2> DEFINE f == s.fields[i + 1]
             v == u[f.id]
  <2>1. i + 1 \in 1 .. n /\ i \in 0 .. n /\ i + 1 \in 0 .. n
    BY <1>1
  <2>2. f \in Range(s.fields) /\ f.id = id(i + 1) /\ v \in SlotInputs(f)
    BY <1>2, <1>5, <2>1 DEF Range
  <2>3. Held(i + 1) = [x \in DOMAIN Held(i) \cup {f.id} |-> IF x = f.id THEN v ELSE Held(i)[x]]
    BY <2>1, <2>2
  <2>4. p[i] = Form(Held(i)) /\ p[i + 1] = Form(Held(i + 1))
    BY <2>1
  <2> HIDE DEF f, v, p, Held
  <2>5. p[i + 1] = [p[i] EXCEPT !.values = [x \in DOMAIN @ \cup {f.id} |-> IF x = f.id THEN v ELSE @[x]]]
    BY <2>3, <2>4
  <2> DEFINE With(g, x) == [p[i] EXCEPT !.values = [y \in DOMAIN @ \cup {g.id} |-> IF y = g.id THEN x ELSE @[y]]]
  <2>6. p[i + 1] \in FieldsAnswer(s, p[i])
    <3>1. FieldsAnswer(s, p[i]) = UNION {{With(g, x) : x \in SlotInputs(g)} : g \in Range(s.fields)}
      BY DEF FieldsAnswer
    <3>2. p[i + 1] = With(f, v)
      BY <2>5
    <3> HIDE DEF With
    <3> QED BY <2>2, <3>1, <3>2
  <2> QED BY <1>2, <2>6 DEF AnswerSpaceInput
<1>10. Held(n) = u
  BY <1>1, <1>3, <1>4, <1>6
<1>11. p[n] = a
  BY <1>1, <1>4, <1>10
<1>12. a \in Filled(s, entries)
  <2> HIDE DEF p
  <2> QED BY <1>1, <1>7, <1>8, <1>9, <1>11, Reached
<1>13. a.kind = "fields" /\ a.values = u /\ DOMAIN u = {id(i) : i \in 1 .. n}
  BY <1>3, <1>4
<1>14. a # None
  BY <1>4 DEF Typed, answerFromWire
<1>15. isAnswerComplete(s, a)
  BY <1>2, <1>5, <1>13, <1>14 DEF isAnswerComplete, Range
<1>16. answerToWire(a) = a
  <2>1. Restrict(u, {x \in DOMAIN u : u[x] # None}) = u
    BY <1>4, <1>5, <1>13 DEF Restrict
  <2> QED BY <1>4, <1>13, <2>1 DEF answerToWire
<1> QED BY <1>12, <1>15, <1>16 DEF Sendable, s

(* Whatever the server would record for the query in a person's hands, blank texts apart, *)
(* can be entered in its form and sent, for every question and every clarification:       *)
(* AnswerSpaceInput, isAnswerComplete and answerToWire are no narrower than               *)
(* validateAnswerAgainstSpace.                                                            *)
THEOREM DecisionsCorrect == DialogueSpec => []EveryDecisionCanBeGiven
<1>1. DialogueInv => EveryDecisionCanBeGiven
  <2> SUFFICES ASSUME DialogueInv, row # None, NEW a \in Decisions(row.answer_space)
               PROVE  a \in Sendable(answerSpaceFromWire(row.answer_space), Entries)
    BY DEF EveryDecisionCanBeGiven
  <2> DEFINE w == row.answer_space
  <2>1. Space(w)
    BY DEF DialogueInv, DialogueGate, RowIsSound, Judged
  <2>2. Entries \in Nat /\ Entries >= 1 /\ Typed(w) /\ Fills(Entries, w)
    BY <2>1, SpaceConstants DEF Space, Fills
  <2>3. w.kind \in Kinds
    BY <2>1 DEF Space, answerSpaceSchema, Kinds
  <2> HIDE DEF w
  <2>4. QED BY <2>1, <2>2, <2>3, BooleanGiven, ChoiceGiven, NumberGiven, TextGiven, FieldsGiven DEF Kinds, w
<1>2. QED BY <1>1, DialogueCorrect, PTL

--------------------------------------------------------------------------------
(* Refusals *)

Reason ==
  {"missing_referent", "text_answer_above_low_risk", "fields_all_text_above_low_risk", "missing_consequences",
   "external_referent_at_high_risk", "missing_referent_hash", "prior_decision_without_delta",
   "clarification_rounds_exhausted"}

\* The draft has what a refusal asked for, and nothing that any remedy does takes it back.
Cured(reason, d) ==
  \/ reason = "missing_referent" /\ (d.self_contained \/ hasReferent(d.subject))
  \/ reason = "text_answer_above_low_risk" /\ d.answer_space.kind # "text"
  \/ reason = "fields_all_text_above_low_risk" /\ d.answer_space.kind = "fields" /\ hasNonTextSlot(d.answer_space)
  \/ reason = "missing_consequences"
       /\ d.answer_space.kind # "text" /\ hasNonTextSlot(d.answer_space) /\ consequencesComplete(d.answer_space)
  \/ reason = "external_referent_at_high_risk" /\ d.subject.body
  \/ reason = "missing_referent_hash" /\ d.subject.sha256
  \/ reason = "prior_decision_without_delta" /\ d.changes

\* The draft lacks it, and the rules before have nothing to say about its answer space.
Lacks(reason, d) ==
  /\ reason = "text_answer_above_low_risk" => d.answer_space.kind = "text"
  /\ reason = "fields_all_text_above_low_risk" => d.answer_space.kind = "fields" /\ ~hasNonTextSlot(d.answer_space)
  /\ reason = "missing_consequences" => d.answer_space.kind # "text" /\ hasNonTextSlot(d.answer_space)

\* A rule that refuses a draft names what it lacks, and the rules are asked in order.
LEMMA RefusalLacks ==
  ASSUME NEW d, Draft(d), NEW risk, NEW reason \in refusals(risk, d.subject, d.self_contained, d.answer_space)
  PROVE  reason \in Reason /\ ~Cured(reason, d) /\ Lacks(reason, d)
<1> DEFINE rules == Rules(risk, d.subject, d.self_contained, d.answer_space)
<1>1. PICK i \in DOMAIN rules : /\ reason = rules[i].reason /\ rules[i].broken
                                /\ \A k \in 1 .. (i - 1) : ~rules[k].broken
  BY DEF refusals
<1>2. /\ DOMAIN rules = 1 .. 6
      /\ rules[1].reason = "missing_referent" /\ rules[2].reason = "text_answer_above_low_risk"
      /\ rules[3].reason = "fields_all_text_above_low_risk" /\ rules[4].reason = "missing_consequences"
      /\ rules[5].reason = "external_referent_at_high_risk" /\ rules[6].reason = "missing_referent_hash"
  BY DEF Rules
<1>3. /\ rules[1].broken <=> ~d.self_contained /\ ~hasReferent(d.subject)
      /\ rules[2].broken <=> above(risk, "low") /\ d.answer_space.kind = "text"
      /\ rules[3].broken <=> above(risk, "low") /\ ~hasNonTextSlot(d.answer_space)
      /\ rules[4].broken <=> above(risk, "low") /\ ~consequencesComplete(d.answer_space)
      /\ rules[5].broken <=> above(risk, "medium") /\ hasReferent(d.subject) /\ ~weHoldIt(d.subject)
      /\ rules[6].broken <=> above(risk, "medium") /\ hasReferent(d.subject) /\ ~d.subject.sha256
  BY DEF Rules
<1> HIDE DEF rules
<1>4. CASE i = 1
  BY <1>1, <1>2, <1>3, <1>4 DEF Reason, Cured, Lacks
<1>5. CASE i = 2
  BY <1>1, <1>2, <1>3, <1>5 DEF Reason, Cured, Lacks
<1>6. CASE i = 3
  BY <1>1, <1>2, <1>3, <1>6 DEF Reason, Cured, Lacks, hasNonTextSlot
<1>7. CASE i = 4
  <2>1. ~rules[2].broken /\ ~rules[3].broken /\ rules[4].broken
    BY <1>1, <1>7
  <2>2. d.answer_space.kind # "text" /\ hasNonTextSlot(d.answer_space) /\ ~consequencesComplete(d.answer_space)
    BY <1>3, <2>1
  <2>3. reason = "missing_consequences"
    BY <1>1, <1>2, <1>7
  <2>4. QED BY <2>2, <2>3 DEF Reason, Cured, Lacks
<1>8. CASE i = 5
  BY <1>1, <1>2, <1>3, <1>8 DEF Reason, Cured, Lacks, weHoldIt
<1>9. CASE i = 6
  BY <1>1, <1>2, <1>3, <1>9 DEF Reason, Cured, Lacks
<1>10. QED BY <1>1, <1>2, <1>4, <1>5, <1>6, <1>7, <1>8, <1>9

\* Stating the consequences completes them and changes nothing else of a space.
LEMMA ConsequencesStated ==
  ASSUME NEW s, Shaped(s), s.kind # "text"
  PROVE  LET stated == withConsequences(s)
         IN  /\ Shaped(stated) /\ stated.kind = s.kind /\ consequencesComplete(stated)
             /\ hasNonTextSlot(s) => hasNonTextSlot(stated)
<1>1. CASE s.kind = "boolean"
  BY <1>1 DEF Shaped, withConsequences, consequencesComplete, hasNonTextSlot
<1>2. CASE s.kind = "choice"
  BY <1>2 DEF Shaped, withConsequences, consequencesComplete, hasNonTextSlot
<1>3. CASE s.kind \in {"scalar", "date"}
  BY <1>3 DEF Shaped, withConsequences, consequencesComplete, hasNonTextSlot
<1>4. CASE s.kind = "fields"
  BY <1>4 DEF Shaped, withConsequences, consequencesComplete, hasNonTextSlot
<1>5. QED BY <1>1, <1>2, <1>3, <1>4 DEF Shaped

\* A remedy cures what the draft lacks and takes back nothing.
LEMMA RemedyCures ==
  ASSUME Draft(draft), NEW reason \in Reason, reason # "clarification_rounds_exhausted", Lacks(reason, draft),
         NEW d \in Remedies(reason)
  PROVE  Draft(d) /\ Cured(reason, d) /\ \A other \in Reason : Cured(other, draft) => Cured(other, d)
<1>1. CASE reason = "missing_referent"
  <2>1. CASE d = [draft EXCEPT !.self_contained = TRUE]
    BY <1>1, <2>1 DEF Draft, Cured
  <2>2. CASE d = [draft EXCEPT !.subject.uri = TRUE]
    <3>1. /\ d.subject \in Subject /\ d.subject.uri /\ d.subject.body = draft.subject.body
          /\ d.subject.sha256 = draft.subject.sha256
      BY <2>2 DEF Draft, Subject
    <3>2. /\ DOMAIN d = DOMAIN draft /\ d.risk = draft.risk /\ d.answer_space = draft.answer_space
          /\ d.changes = draft.changes /\ d.self_contained = draft.self_contained
      BY <2>2 DEF Draft
    <3>3. QED BY <1>1, <3>1, <3>2 DEF Draft, Cured, hasReferent, weHoldIt
  <2>3. CASE d = [draft EXCEPT !.subject.body = TRUE]
    <3>1. /\ d.subject \in Subject /\ d.subject.body /\ d.subject.uri = draft.subject.uri
          /\ d.subject.sha256 = draft.subject.sha256
      BY <2>3 DEF Draft, Subject
    <3>2. /\ DOMAIN d = DOMAIN draft /\ d.risk = draft.risk /\ d.answer_space = draft.answer_space
          /\ d.changes = draft.changes /\ d.self_contained = draft.self_contained
      BY <2>3 DEF Draft
    <3>3. QED BY <1>1, <3>1, <3>2 DEF Draft, Cured, hasReferent, weHoldIt
  <2>4. QED BY <1>1, <2>1, <2>2, <2>3 DEF Remedies
<1>2. CASE reason = "text_answer_above_low_risk"
  <2>1. PICK s \in Spaces : s.kind # "text" /\ d = [draft EXCEPT !.answer_space = s]
    BY <1>2 DEF Remedies
  <2>2. Shaped(s)
    BY AskConstants
  <2>3. QED BY <1>2, <2>1, <2>2 DEF Draft, Cured, Lacks
<1>3. CASE reason = "fields_all_text_above_low_risk"
  <2>1. PICK s \in Spaces : s.kind = "fields" /\ hasNonTextSlot(s) /\ d = [draft EXCEPT !.answer_space = s]
    BY <1>3 DEF Remedies
  <2>2. Shaped(s)
    BY AskConstants
  <2>3. QED BY <1>3, <2>1, <2>2 DEF Draft, Cured, Lacks
<1>4. CASE reason = "missing_consequences"
  <2>1. d = [draft EXCEPT !.answer_space = withConsequences(draft.answer_space)]
    BY <1>4 DEF Remedies
  <2>2. LET stated == withConsequences(draft.answer_space)
        IN  /\ Shaped(stated) /\ stated.kind = draft.answer_space.kind /\ consequencesComplete(stated)
            /\ hasNonTextSlot(stated) /\ stated.kind # "text"
    BY <1>4, ConsequencesStated DEF Draft, Lacks
  <2>3. QED BY <1>4, <2>1, <2>2 DEF Draft, Cured
<1>5. CASE reason = "external_referent_at_high_risk"
  <2>1. d = [draft EXCEPT !.subject.body = TRUE]
    BY <1>5 DEF Remedies
  <2>2. /\ d.subject \in Subject /\ d.subject.body /\ d.subject.uri = draft.subject.uri
        /\ d.subject.sha256 = draft.subject.sha256
    BY <2>1 DEF Draft, Subject
  <2>3. /\ DOMAIN d = DOMAIN draft /\ d.risk = draft.risk /\ d.answer_space = draft.answer_space
        /\ d.changes = draft.changes /\ d.self_contained = draft.self_contained
    BY <2>1 DEF Draft
  <2>4. QED BY <1>5, <2>2, <2>3 DEF Draft, Cured, hasReferent, weHoldIt
<1>6. CASE reason = "missing_referent_hash"
  <2>1. d = [draft EXCEPT !.subject.sha256 = TRUE]
    BY <1>6 DEF Remedies
  <2>2. /\ d.subject \in Subject /\ d.subject.sha256 /\ d.subject.uri = draft.subject.uri
        /\ d.subject.body = draft.subject.body
    BY <2>1 DEF Draft, Subject
  <2>3. /\ DOMAIN d = DOMAIN draft /\ d.risk = draft.risk /\ d.answer_space = draft.answer_space
        /\ d.changes = draft.changes /\ d.self_contained = draft.self_contained
    BY <2>1 DEF Draft
  <2>4. QED BY <1>6, <2>2, <2>3 DEF Draft, Cured, hasReferent, weHoldIt
<1>7. CASE reason = "prior_decision_without_delta"
  BY <1>7 DEF Remedies, Draft, Cured
<1>8. QED BY <1>1, <1>2, <1>3, <1>4, <1>5, <1>6, <1>7 DEF Reason

Stored(s) == DOMAIN s = {"query", "returned", "rounds"} /\ Draft(s.query)

Turn == [op : {"create", "clarify"}, at : {"call", "refused", "over"}]

AskTyped ==
  /\ tool \in Tools /\ turn \in Turn
  /\ Draft(draft) /\ told \in Seq(Reason)
  /\ turn.at = "over" \/ turn.op = "clarify" => Stored(stored)

\* What a PATCH cannot say is as the query has it; a question that was admitted has been
\* told nothing; what a refusal asked for has been done, except for the last one's.
AskInv ==
  /\ AskTyped
  /\ turn.op = "clarify" /\ turn.at # "over" =>
       draft.risk = stored.query.risk /\ draft.self_contained = stored.query.self_contained
  /\ turn.at = "over" => told = <<>>
  /\ turn.at = "call" => \A i \in DOMAIN told : Cured(told[i], draft)
  /\ turn.at = "refused" =>
       /\ told # <<>> /\ Lacks(told[Len(told)], draft)
       /\ \A i \in DOMAIN told : i # Len(told) => Cured(told[i], draft)
  /\ \A i, j \in DOMAIN told : told[i] = told[j] => i = j

\* An agent starts with a draft that nobody has refused.
LEMMA AskStarts == AskInit => AskInv
BY AskConstants DEF AskInit, AskInv, AskTyped, Turn

\* Whatever a call leaves out, the server makes of it what the agent means.
LEMMA ReceivedIsDraft ==
  ASSUME AskInv, turn.at # "over"
  PROVE  /\ DOMAIN Received = DOMAIN draft /\ Received.risk = draft.risk /\ Received.subject = draft.subject
         /\ Received.answer_space = draft.answer_space /\ Received.changes = draft.changes
         /\ Received.self_contained = draft.self_contained
<1>1. CASE turn.op = "create"
  <2>1. Carried = {"risk", "subject", "answer_space", "changes", "self_contained"}
    BY <1>1, AskConstants DEF AskInv, AskTyped, Carried, Params, AskHumanArgs, adapterSchema, humanQueryArgs
  <2>2. QED BY <2>1 DEF AskInv, AskTyped, Draft, Received
<1>2. CASE turn.op = "clarify"
  BY <1>2 DEF AskInv, AskTyped, Draft, Received, Carried, patchQueryFields
<1>3. QED BY <1>1, <1>2 DEF AskInv, AskTyped, Turn

\* A refusal names what the draft lacks, and no cure it already has.
LEMMA ReasonLacks ==
  ASSUME AskInv, turn.at = "call", NEW reason \in Reasons
  PROVE  reason \in Reason /\ ~Cured(reason, draft) /\ Lacks(reason, draft)
<1>1. CASE reason = "prior_decision_without_delta"
  <2>1. \/ ~Received.changes
        \/ reason \in refusals(RiskOf(Received), Received.subject, Received.self_contained, Received.answer_space)
    BY <1>1 DEF Reasons
  <2>2. QED BY <1>1, <2>1, ReceivedIsDraft, RefusalLacks DEF AskInv, AskTyped, Reason, Cured, Lacks
<1>2. CASE reason = "clarification_rounds_exhausted"
  BY <1>2 DEF Reason, Cured, Lacks
<1>3. CASE reason \notin {"prior_decision_without_delta", "clarification_rounds_exhausted"}
  <2>1. reason \in refusals(RiskOf(Received), Received.subject, Received.self_contained, Received.answer_space)
    BY <1>3 DEF Reasons
  <2>2. QED BY <2>1, ReceivedIsDraft, RefusalLacks DEF AskInv, AskTyped
<1>4. QED BY <1>1, <1>2, <1>3

\* No step of the agent, the server or the person takes a cure back.
LEMMA AskStep == AskInv /\ [AskNext]_askVars => AskInv'
<1> SUFFICES ASSUME AskInv, [AskNext]_askVars PROVE AskInv'
  OBVIOUS
<1>1. CASE Admitted
  <2> DEFINE q == [Received EXCEPT !.risk = RiskOf(Received)]
  <2>1. turn.at = "call" /\ turn'.op = turn.op /\ turn'.at = "over"
        /\ turn' \in Turn /\ told' = <<>> /\ UNCHANGED <<tool, draft>>
    BY <1>1 DEF Admitted, AskInv, AskTyped, Turn
  <2>2. RiskOf(Received) \in Risk
    BY <2>1, ReceivedIsDraft, Elevation DEF RiskOf, AskInv, AskTyped, Draft
  <2>3. Draft(q)
    BY <2>1, <2>2, ReceivedIsDraft DEF AskInv, AskTyped, Draft
  <2>4. DOMAIN stored' = {"query", "returned", "rounds"} /\ stored'.query = q
    BY <1>1 DEF Admitted
  <2> HIDE DEF q
  <2>5. QED BY <2>1, <2>3, <2>4 DEF AskInv, AskTyped, Stored
<1>2. CASE Undecidable
  <2>1. PICK reason \in Reasons : told' = Append(told, reason)
    BY <1>2 DEF Undecidable
  <2>2. turn.at = "call" /\ turn'.op = turn.op /\ turn'.at = "refused"
        /\ turn' \in Turn /\ UNCHANGED <<tool, draft, stored>>
    BY <1>2 DEF Undecidable, AskInv, AskTyped, Turn
  <2>3. reason \in Reason /\ ~Cured(reason, draft) /\ Lacks(reason, draft)
    BY <2>2, ReasonLacks
  <2>4. /\ told' \in Seq(Reason) /\ Len(told') = Len(told) + 1 /\ told'[Len(told')] = reason /\ told' # <<>>
        /\ DOMAIN told' = 1 .. Len(told) + 1 /\ DOMAIN told = 1 .. Len(told)
        /\ \A i \in DOMAIN told : told'[i] = told[i]
    BY <2>1, <2>3 DEF AskInv, AskTyped
  <2>5. \A i \in DOMAIN told : Cured(told[i], draft) /\ told[i] # reason
    BY <2>2, <2>3 DEF AskInv
  <2>6. \A i, j \in DOMAIN told' : told'[i] = told'[j] => i = j
    BY <2>4, <2>5 DEF AskInv, AskTyped
  <2>7. \A i \in DOMAIN told' : i # Len(told') => Cured(told'[i], draft)
    BY <2>4, <2>5 DEF AskInv, AskTyped
  <2>8. QED BY <2>2, <2>3, <2>4, <2>6, <2>7 DEF AskInv, AskTyped
<1>3. CASE Follow
  <2> DEFINE reason == told[Len(told)]
  <2>1. reason \in Reason /\ Lacks(reason, draft) /\ Len(told) \in DOMAIN told
    BY <1>3 DEF Follow, AskInv, AskTyped
  <2>2. draft' \in Within(reason) /\ UNCHANGED <<tool, stored>> /\ turn.at = "refused"
    BY <1>3 DEF Follow
  <2>3. draft' \in Remedies(reason) /\ \A p \in DOMAIN draft' : draft'[p] # draft[p] => p \in Carried
    BY <2>2 DEF Within
  <2>4. CASE reason = "clarification_rounds_exhausted"
    <3>1. draft' = draft /\ turn' = [op |-> "create", at |-> "call"] /\ told' = <<>>
      BY <1>3, <2>3, <2>4 DEF Follow, Remedies
    <3>2. QED BY <2>2, <3>1 DEF AskInv, AskTyped, Turn
  <2>5. CASE reason # "clarification_rounds_exhausted"
    <3>1. /\ UNCHANGED told /\ turn'.op = turn.op /\ turn'.at = "call"
          /\ turn' \in Turn
      BY <1>3, <2>5 DEF Follow, AskInv, AskTyped, Turn
    <3>2. PICK d \in Remedies(reason) : d = draft'
      BY <2>3
    <3> HIDE DEF reason
    <3>3. Draft(d) /\ Cured(reason, d) /\ \A other \in Reason : Cured(other, draft) => Cured(other, d)
      BY <2>1, <2>5, RemedyCures DEF AskInv, AskTyped
    <3>4. \A i \in DOMAIN told : Cured(told[i], d)
      BY <2>2, <3>3 DEF AskInv, AskTyped, reason
    <3>5. turn.op = "clarify" => d.risk = draft.risk /\ d.self_contained = draft.self_contained
      BY <2>3, <3>2, <3>3 DEF Carried, patchQueryFields, Draft
    <3>6. QED BY <2>2, <3>1, <3>2, <3>3, <3>4, <3>5 DEF AskInv, AskTyped
  <2>6. QED BY <2>4, <2>5
<1>4. CASE Clarify
  <2>1. /\ turn.at = "over" /\ turn' = [op |-> "clarify", at |-> "call"] /\ told' = <<>>
        /\ UNCHANGED <<tool, stored>> /\ Stored(stored)
    BY <1>4 DEF Clarify, AskInv, AskTyped
  <2>2. PICK d \in Drafts, s \in Spaces :
          draft' \in {[stored.query EXCEPT !.subject = d.subject], [stored.query EXCEPT !.answer_space = s],
                      [stored.query EXCEPT !.subject = d.subject, !.answer_space = s]}
    BY <1>4 DEF Clarify
  <2>3. Draft(d) /\ Shaped(s)
    BY AskConstants
  <2>4. Draft(draft') /\ draft'.risk = stored.query.risk /\ draft'.self_contained = stored.query.self_contained
    BY <2>1, <2>2, <2>3 DEF Stored, Draft
  <2>5. PICK n : n = draft'
    OBVIOUS
  <2>6. Draft(draft)'
    BY <2>4, <2>5 DEF Draft
  <2>7. QED BY <2>1, <2>4, <2>6 DEF AskInv, AskTyped, Stored, Turn
<1>5. CASE PersonReturns
  <2>1. turn.at = "over" /\ UNCHANGED <<tool, turn, draft, told>> /\ Stored(stored)
    BY <1>5 DEF PersonReturns, AskInv, AskTyped
  <2>2. DOMAIN stored' = DOMAIN stored /\ stored'.query = stored.query
    BY <1>5, <2>1 DEF PersonReturns, Stored
  <2>3. QED BY <2>1, <2>2 DEF AskInv, AskTyped, Stored
<1>6. CASE PersonAnswers
  <2>1. turn' = [op |-> "create", at |-> "call"] /\ told = <<>> /\ UNCHANGED <<tool, told>> /\ draft' \in Drafts
    BY <1>6 DEF PersonAnswers, AskInv
  <2>2. PICK d \in Drafts : d = draft'
    BY <2>1
  <2>3. Draft(d)
    BY AskConstants
  <2>4. QED BY <2>1, <2>2, <2>3 DEF AskInv, AskTyped, Turn
<1>7. CASE DecidedMeanwhile
  BY <1>7 DEF DecidedMeanwhile, AskInv, AskTyped
<1>8. CASE UNCHANGED askVars
  BY <1>8 DEF askVars, AskInv, AskTyped
<1>9. QED BY <1>1, <1>2, <1>3, <1>4, <1>5, <1>6, <1>7, <1>8 DEF AskNext

\* Every refusal names a remedy that the refused call has a field for.
LEMMA SomethingToDo ==
  ASSUME AskInv, NEW reason \in Reason
  PROVE  Within(reason) # {}
<1>1. {"subject", "answer_space", "changes"} \subseteq Carried
  BY AskConstants DEF AskInv, AskTyped, Carried, Params, AskHumanArgs, adapterSchema, humanQueryArgs, patchQueryFields
<1>2. DOMAIN draft = {"risk", "subject", "answer_space", "changes", "self_contained"}
  BY DEF AskInv, AskTyped, Draft
<1>3. ASSUME NEW p \in {"subject", "answer_space", "changes"}, NEW value,
             [draft EXCEPT ![p] = value] \in Remedies(reason)
      PROVE  Within(reason) # {}
  <2> DEFINE d == [draft EXCEPT ![p] = value]
  <2>1. \A k \in DOMAIN d : d[k] # draft[k] => k = p
    OBVIOUS
  <2> HIDE DEF d
  <2>2. d \in Within(reason)
    <3>1. d \in Remedies(reason)
      BY <1>3 DEF d
    <3>2. QED BY <1>1, <2>1, <3>1 DEF Within
  <2>3. QED BY <2>2
<1>4. CASE reason = "missing_referent"
  <2>1. [draft EXCEPT !.subject = [draft.subject EXCEPT !.body = TRUE]] \in Remedies(reason)
    BY <1>4 DEF Remedies
  <2>2. QED BY <1>3, <2>1
<1>5. CASE reason = "text_answer_above_low_risk" \/ reason = "fields_all_text_above_low_risk"
  <2>1. PICK s \in Spaces : s.kind = "fields" /\ hasNonTextSlot(s)
    BY AskConstants
  <2>2. [draft EXCEPT !.answer_space = s] \in Remedies(reason)
    BY <1>5, <2>1 DEF Remedies
  <2>3. QED BY <1>3, <2>2
<1>6. CASE reason = "missing_consequences"
  <2>1. [draft EXCEPT !.answer_space = withConsequences(draft.answer_space)] \in Remedies(reason)
    BY <1>6 DEF Remedies
  <2>2. QED BY <1>3, <2>1
<1>7. CASE reason = "external_referent_at_high_risk"
  <2>1. [draft EXCEPT !.subject = [draft.subject EXCEPT !.body = TRUE]] \in Remedies(reason)
    BY <1>7 DEF Remedies
  <2>2. QED BY <1>3, <2>1
<1>8. CASE reason = "missing_referent_hash"
  <2>1. [draft EXCEPT !.subject = [draft.subject EXCEPT !.sha256 = TRUE]] \in Remedies(reason)
    BY <1>8 DEF Remedies
  <2>2. QED BY <1>3, <2>1
<1>9. CASE reason = "prior_decision_without_delta"
  <2>1. [draft EXCEPT !.changes = TRUE] \in Remedies(reason)
    BY <1>9 DEF Remedies
  <2>2. QED BY <1>3, <2>1
<1>10. CASE reason = "clarification_rounds_exhausted"
  BY <1>10 DEF Remedies, Within
<1>11. QED BY <1>4, <1>5, <1>6, <1>7, <1>8, <1>9, <1>10 DEF Reason

(* An agent that does what its refusals tell it is not refused twice for one reason, for *)
(* every draft, and never without something the call it makes has a field for:           *)
(* UndecidableQueryError with the rules of admission.                                    *)
THEOREM RefusalsCorrect == AskSpec => []RefusalsEnd
<1>1. AskInv => RefusalsEnd
  <2> SUFFICES ASSUME AskInv PROVE RefusalsEnd
    OBVIOUS
  <2>1. ASSUME turn.at = "refused" PROVE Within(told[Len(told)]) # {}
    <3>1. told[Len(told)] \in Reason
      BY <2>1 DEF AskInv, AskTyped
    <3>2. QED BY <3>1, SomethingToDo
  <2>2. QED BY <2>1 DEF AskInv, RefusalsEnd
<1>2. QED BY <1>1, AskStarts, AskStep, PTL DEF AskSpec

--------------------------------------------------------------------------------
(* One key *)

USE KeyConstants

\* The initial state is well typed.
LEMMA TypeInit == Init => TypeOK
BY DEF Init, TypeOK, IdempotencyRecord

\* Every command keeps the types.
LEMMA TypeStep == TypeOK /\ [Next]_vars => TypeOK'
<1> SUFFICES ASSUME TypeOK, [Next]_vars PROVE TypeOK'
  OBVIOUS
<1> USE DEF TypeOK, Goto, Serving, Inside, Ended, Refused
<1>1. CASE Expire
  BY <1>1 DEF Expire, IdempotencyRecord
<1>2. ASSUME NEW r \in Requests, Reserve(r) PROVE TypeOK'
  BY <1>2 DEF Reserve, IdempotencyRecord
<1>3. ASSUME NEW r \in Requests, FindTaken(r) PROVE TypeOK'
  BY <1>3 DEF FindTaken
<1>4. ASSUME NEW r \in Requests, Refuse(r) PROVE TypeOK'
  BY <1>4 DEF Refuse
<1>5. ASSUME NEW r \in Requests, Replay(r) PROVE TypeOK'
  <2>1. record.response \in Requests \cup {Null}
    BY DEF IdempotencyRecord, InProgress, NoRecord
  <2>2. QED BY <1>5, <2>1 DEF Replay
<1>6. ASSUME NEW r \in Requests, Proceed(r) PROVE TypeOK'
  BY <1>6 DEF Proceed
<1>7. ASSUME NEW r \in Requests, Handle(r) PROVE TypeOK'
  BY <1>7 DEF Handle
<1>8. ASSUME NEW r \in Requests, Remember(r) PROVE TypeOK'
  <2>1. Completed(r) \in IdempotencyRecord
    BY DEF Completed, IdempotencyRecord
  <2>2. QED BY <1>8, <2>1 DEF Remember
<1>9. ASSUME NEW r \in Requests, Release(r) PROVE TypeOK'
  <2>1. NoRecord \in IdempotencyRecord
    BY DEF IdempotencyRecord
  <2>2. QED BY <1>9, <2>1 DEF Release
<1>10. ASSUME NEW r \in Requests, Crash(r) PROVE TypeOK'
  BY <1>10 DEF Crash
<1>11. CASE UNCHANGED vars
  BY <1>11 DEF vars
<1>12. QED
  BY <1>1, <1>2, <1>3, <1>4, <1>5, <1>6, <1>7, <1>8, <1>9, <1>10, <1>11 DEF Next, Serve

(* The type invariant of the record and of the requests that carry its key. *)
THEOREM TypeCorrect == Spec => []TypeOK
BY TypeInit, TypeStep, PTL DEF Spec

--------------------------------------------------------------------------------
(* Replays *)

\* What the record says is true: a completed record names a request that succeeded
\* with the body it holds, and whatever body it holds was sent by somebody.
RecordIsGenuine ==
  record # NoRecord =>
    /\ \E s \in Requests : pc[s] # "idle" /\ BodyOf[s] = record.body
    /\ record.state = "completed" =>
         /\ record.response \in effects
         /\ pc[record.response] = "ok"
         /\ BodyOf[record.response] = record.body

\* A handler that answered with success has done its work.
SuccessHasWorked == \A r \in Requests : pc[r] = "remember" => r \in effects

GenuineInv == TypeOK /\ SuccessHasWorked /\ RecordIsGenuine /\ AnswersAreGenuine

\* A key nobody has used is genuine.
LEMMA GenuineInit == Init => GenuineInv
<1>1. Init => TypeOK
  BY TypeInit
<1>2. QED BY <1>1 DEF Init, GenuineInv, SuccessHasWorked, RecordIsGenuine, AnswersAreGenuine

\* No command of Redis or of a handler makes a record, a replay or a refusal false.
LEMMA GenuineStep == GenuineInv /\ [Next]_vars => GenuineInv'
<1> SUFFICES ASSUME GenuineInv, [Next]_vars PROVE GenuineInv'
  OBVIOUS
<1>1. TypeOK'
  BY TypeStep DEF GenuineInv
<1>0. SuccessHasWorked'
  BY DEF GenuineInv, TypeOK, SuccessHasWorked, Next, Serve, vars, Goto, Expire, Reserve,
     FindTaken, Refuse, Refused, Replay, Proceed, Handle, Remember, Release, Crash,
     Decided
<1> USE DEF GenuineInv, TypeOK, Goto
\* A step that leaves the record and the answers alone, and moves one request to
\* another place than a replay or a refusal.
<1>a. ASSUME NEW r \in Requests, NEW at, Goto(r, at), at \notin {"idle", "replay", "reused"},
             pc[r] # "ok", record' \in {record, NoRecord}, effects \subseteq effects',
             \A s \in Requests \ {r} : answer'[s] = answer[s]
      PROVE  RecordIsGenuine' /\ AnswersAreGenuine'
  <2>1. RecordIsGenuine'
    BY <1>a DEF RecordIsGenuine
  <2>2. AnswersAreGenuine'
    BY <1>a DEF AnswersAreGenuine
  <2>3. QED BY <2>1, <2>2
<1>2. ASSUME Expire PROVE RecordIsGenuine' /\ AnswersAreGenuine'
  BY <1>2 DEF Expire, RecordIsGenuine, AnswersAreGenuine
<1>3. ASSUME NEW r \in Requests, Reserve(r) PROVE RecordIsGenuine' /\ AnswersAreGenuine'
  <2>1. RecordIsGenuine'
    BY <1>3 DEF Reserve, RecordIsGenuine, InProgress
  <2>2. AnswersAreGenuine'
    BY <1>3 DEF Reserve, AnswersAreGenuine
  <2>3. QED BY <2>1, <2>2
<1>4. ASSUME NEW r \in Requests, Refuse(r) PROVE RecordIsGenuine' /\ AnswersAreGenuine'
  <2>1. PICK kind \in Refused : Decided(r, kind) /\ Goto(r, kind)
    BY <1>4 DEF Refuse
  <2>2. kind = "reused" => record # NoRecord /\ record.body # BodyOf[r]
    BY <2>1 DEF Decided, decideFromRecord
  <2>3. RecordIsGenuine'
    BY <1>4, <2>1 DEF Refuse, RecordIsGenuine, Refused, Decided
  <2>4. AnswersAreGenuine'
    BY <1>4, <2>1, <2>2 DEF Refuse, RecordIsGenuine, AnswersAreGenuine, Refused, Decided
  <2>5. QED BY <2>3, <2>4
<1>5. ASSUME NEW r \in Requests, Replay(r) PROVE RecordIsGenuine' /\ AnswersAreGenuine'
  <2>1. record.state = "completed" /\ record.body = BodyOf[r] /\ record # NoRecord
    BY <1>5 DEF Replay, Decided, decideFromRecord, IdempotencyRecord, InProgress
  <2>2. RecordIsGenuine'
    BY <1>5 DEF Replay, RecordIsGenuine, Decided
  <2>3. AnswersAreGenuine'
    BY <1>5, <2>1 DEF Replay, RecordIsGenuine, AnswersAreGenuine, Decided
  <2>4. QED BY <2>2, <2>3
<1>6. ASSUME NEW r \in Requests, Remember(r) PROVE RecordIsGenuine' /\ AnswersAreGenuine'
  <2>1. CASE record' = record
    BY <1>6, <2>1, <1>a DEF Remember
  <2>2. CASE record' = Completed(r)
    <3>1. RecordIsGenuine'
      BY <1>6, <2>2 DEF Remember, SuccessHasWorked, RecordIsGenuine, Completed
    <3>2. AnswersAreGenuine'
      BY <1>6 DEF Remember, AnswersAreGenuine
    <3>3. QED BY <3>1, <3>2
  <2>3. QED BY <1>6, <2>1, <2>2 DEF Remember
<1>7. ASSUME NEW r \in Requests,
             FindTaken(r) \/ Proceed(r) \/ Handle(r) \/ Release(r) \/ Crash(r)
      PROVE RecordIsGenuine' /\ AnswersAreGenuine'
  BY <1>7, <1>a DEF FindTaken, Proceed, Handle, Release, Crash, Decided,
     Serving, Inside
<1>8. ASSUME UNCHANGED vars PROVE RecordIsGenuine' /\ AnswersAreGenuine'
  BY <1>8 DEF vars, RecordIsGenuine, AnswersAreGenuine
<1>9. QED
  BY <1>0, <1>1, <1>2, <1>3, <1>4, <1>5, <1>6, <1>7, <1>8 DEF Next, Serve

(* A replay is the successful response to the caller's own body, and the refusal *)
(* of a reused key is deserved: middleware/idempotency.ts with decideFromRecord. *)
THEOREM GenuineCorrect == Spec => []AnswersAreGenuine
<1>1. GenuineInv => AnswersAreGenuine
  BY DEF GenuineInv
<1>2. QED BY <1>1, GenuineInit, GenuineStep, PTL DEF Spec

--------------------------------------------------------------------------------
(* One run *)

\* While every record is within its time to live and nobody went on unreserved:
\* whoever is in the handler is there alone and under a reservation, and once the
\* work is done the key stays taken and only its author may still be inside.
Undisturbed == ~lapsed /\ unreserved = {}

HeldWhileRunning == \A r \in Running : record.state = "in_progress"
TakenOnceDone    == Done # {} => record # NoRecord
DoneAlone        == \A e \in Done, r \in Running : e = r
DoneHasRun       == \A e \in effects : pc[e] \notin {"idle", "lookup", "handler"}

OnceInv ==
  /\ TypeOK
  /\ DoneHasRun
  /\ Undisturbed => HeldWhileRunning /\ TakenOnceDone /\ DoneAlone
  /\ RunsOnce

\* A key nobody has used has run nothing.
LEMMA OnceInit == Init => OnceInv
<1>1. Init => TypeOK
  BY TypeInit
<1>2. Init => Running = {}
  BY DEF Init, Running, Inside
<1>3. QED BY <1>1, <1>2 DEF Init, OnceInv, DoneHasRun, HeldWhileRunning,
                            TakenOnceDone, DoneAlone, Done, RunsOnce

\* No step of an undisturbed key lets a second request in.
LEMMA OnceStep == OnceInv /\ [Next]_vars => OnceInv'
<1> SUFFICES ASSUME OnceInv, [Next]_vars PROVE OnceInv'
  OBVIOUS
<1>1. TypeOK'
  BY TypeStep DEF OnceInv
<1>2. DoneHasRun'
  BY <1>1 DEF OnceInv, TypeOK, DoneHasRun, Next, Serve, vars, Goto, Expire, Reserve,
     FindTaken, Refuse, Refused, Replay, Proceed, Handle, Remember, Release, Crash,
     Decided, Serving, Inside
<1>3. Undisturbed' => Undisturbed
  BY DEF OnceInv, TypeOK, Undisturbed, Next, Serve, vars, Expire, Reserve,
     FindTaken, Refuse, Replay, Proceed, Handle, Remember, Release, Crash
<1> SUFFICES ASSUME Undisturbed, Undisturbed'
             PROVE  (HeldWhileRunning /\ TakenOnceDone /\ DoneAlone /\ RunsOnce)'
  BY <1>1, <1>2, <1>3 DEF OnceInv, RunsOnce, Undisturbed
<1> USE DEF OnceInv, TypeOK, Undisturbed, HeldWhileRunning, TakenOnceDone, DoneAlone,
            DoneHasRun, RunsOnce, Running, Done, Inside, Goto, Decided
<1>4. CASE Expire
  BY <1>4 DEF Expire
<1>5. ASSUME NEW r \in Requests, Reserve(r)
      PROVE (HeldWhileRunning /\ TakenOnceDone /\ DoneAlone /\ RunsOnce)'
  <2>1. Running = {} /\ Done = {}
    BY <1>5 DEF Reserve, NoRecord
  <2>2. QED BY <1>5, <2>1 DEF Reserve, InProgress, NoRecord
<1>6. ASSUME NEW r \in Requests, FindTaken(r) \/ Refuse(r) \/ Replay(r) \/ Crash(r)
      PROVE (HeldWhileRunning /\ TakenOnceDone /\ DoneAlone /\ RunsOnce)'
  BY <1>6 DEF FindTaken, Refuse, Refused, Replay, Crash, Serving
<1>7. ASSUME NEW r \in Requests, Proceed(r)
      PROVE (HeldWhileRunning /\ TakenOnceDone /\ DoneAlone /\ RunsOnce)'
  BY <1>7 DEF Proceed
<1>8. ASSUME NEW r \in Requests, Handle(r)
      PROVE (HeldWhileRunning /\ TakenOnceDone /\ DoneAlone /\ RunsOnce)'
  BY <1>8 DEF Handle, NoRecord
<1>9. ASSUME NEW r \in Requests, Remember(r)
      PROVE (HeldWhileRunning /\ TakenOnceDone /\ DoneAlone /\ RunsOnce)'
  <2>1. Running' = {}
    BY <1>9 DEF Remember
  <2>2. QED BY <1>9, <2>1 DEF Remember, Completed, NoRecord
<1>10. ASSUME NEW r \in Requests, Release(r)
       PROVE (HeldWhileRunning /\ TakenOnceDone /\ DoneAlone /\ RunsOnce)'
  <2>1. Running' = {} /\ Done' = {}
    BY <1>10 DEF Release
  <2>2. QED BY <1>10, <2>1 DEF Release
<1>11. CASE UNCHANGED vars
  BY <1>11 DEF vars
<1>12. QED
  BY <1>4, <1>5, <1>6, <1>7, <1>8, <1>9, <1>10, <1>11 DEF Next, Serve

(* Until a record expires or a request goes on without a reservation, the request *)
(* runs once however often it is sent: the reserve, complete and release commands *)
(* of middleware/idempotency.ts.                                                  *)
THEOREM OnceCorrect == Spec => []RunsOnce
<1>1. OnceInv => RunsOnce
  BY DEF OnceInv
<1>2. QED BY <1>1, OnceInit, OnceStep, PTL DEF Spec
================================================================================
