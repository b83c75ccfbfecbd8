------------------------------- MODULE AnswerForm -------------------------------
(***************************************************************************)
(* The inputs a person answers with, one per kind of space                 *)
(* (web/src/components/answer).  The answer of a form is None until there  *)
(* is something in it.                                                     *)
(***************************************************************************)
EXTENDS AnswerSpace

CONSTANTS
  Numbers,  \* what is typed into a number, and the dates of a calendar
  Texts     \* the lengths of the texts that are typed

\* Values of different types are different: nothing that decides is missing, empty or blank.
ASSUME ValueConstants ==
  /\ ({Yes, No} \cup Numbers \cup Texts) \cap {None, Empty} = {}
  /\ Blank \notin Texts

Nonempty(max) == {n \in Texts : n <= max} \cup {Blank}

\* What the input of one slot can be left at once it was touched.
SlotInputs(f) ==
  CASE f.kind = "boolean" -> {Yes, No}
    [] f.kind = "choice" -> Range(f.options)
    [] f.kind = "scalar" -> Numbers \cup {None}
    [] f.kind = "date" -> Numbers \cup {Empty}
    [] f.kind = "text" -> Nonempty(f.maxLength) \cup {Empty}

proposedValues(fields) ==
  LET proposing == {f \in Range(fields) : f.proposed # None}
  IN  [id \in {f.id : f \in proposing} |-> (CHOOSE f \in proposing : f.id = id).proposed]

\* A form of fields publishes what is proposed as soon as it is shown.
Mounted(s) == IF s.kind = "fields" THEN [kind |-> "fields", values |-> proposedValues(s.fields)] ELSE None

Toggle(ids, id) == IF id \in Range(ids) THEN SelectSeq(ids, LAMBDA x : x # id) ELSE Append(ids, id)

\* What one click or one entry makes of an answer.
BooleanAnswer(s) == {[kind |-> "boolean", value |-> b] : b \in {Yes, No}}

ChoiceAnswer(s, answer) ==
  LET selected == IF answer # None /\ answer.kind = "choice" THEN answer.optionIds ELSE <<>>
  IN  {[kind |-> "choice", optionIds |-> IF s.select = "one" THEN <<id>> ELSE Toggle(selected, id)] :
         id \in Range(s.options)}

ScalarAnswer(s) == {[kind |-> "scalar", value |-> n] : n \in Numbers} \cup {None}

DateAnswer(s) == {[kind |-> "date", value |-> n] : n \in Numbers} \cup {None}

TextAnswer(s) == {[kind |-> "text", value |-> x] : x \in Nonempty(s.maxLength)} \cup {None}

FieldsAnswer(s, answer) ==
  UNION {{[answer EXCEPT !.values =
             [id \in DOMAIN @ \cup {f.id} |-> IF id = f.id THEN v ELSE @[id]]] :
            v \in SlotInputs(f)} : f \in Range(s.fields)}

AnswerSpaceInput(s, answer) ==
  CASE s.kind = "boolean" -> BooleanAnswer(s)
    [] s.kind = "choice" -> ChoiceAnswer(s, answer)
    [] s.kind = "scalar" -> ScalarAnswer(s)
    [] s.kind = "date" -> DateAnswer(s)
    [] s.kind = "text" -> TextAnswer(s)
    [] s.kind = "fields" -> FieldsAnswer(s, answer)

\* Mutant: a slot counts as empty when its value is falsy.
TruthyComplete(s, answer) ==
  /\ answer # None /\ answer.kind = s.kind
  /\ s.kind = "choice" => answer.optionIds # <<>>
  /\ s.kind = "text" => answer.value # Blank
  /\ s.kind = "fields" =>
       \A f \in Range(s.fields) : f.id \in DOMAIN answer.values /\ answer.values[f.id] \notin {None, Empty, No, 0}

isAnswerComplete(s, answer) ==
  /\ answer # None /\ answer.kind = s.kind
  /\ \/ s.kind \in {"boolean", "scalar", "date"}
     \/ s.kind = "choice" /\ answer.optionIds # <<>>
     \/ s.kind = "text" /\ answer.value # Blank
     \/ /\ s.kind = "fields"
        /\ \A f \in Range(s.fields) :
             f.id \in DOMAIN answer.values /\ answer.values[f.id] \notin {None, Empty}

----
\* The forms that a few entries can make of an untouched one.
Filled(s, entries) ==
  LET after[n \in 0..entries] ==
        IF n = 0 THEN {Mounted(s)}
        ELSE after[n - 1] \cup UNION {AnswerSpaceInput(s, a) : a \in after[n - 1]}
  IN  after[entries]

\* What can be sent from the form of a space, as the server reads it.
Sendable(s, entries) == {answerToWire(a) : a \in {b \in Filled(s, entries) : isAnswerComplete(s, b)}}

\* The answers the server would take for a space, out of what can be typed: no blank texts.
Orderings(items) == UNION {[1..n -> items] : n \in 1..Cardinality(items)}

SlotValues(f) ==
  CASE f.kind = "boolean" -> {Yes, No}
    [] f.kind = "choice" -> Range(f.options)
    [] f.kind \in {"scalar", "date"} -> Numbers
    [] f.kind = "text" -> Texts

Decisions(w) ==
  LET all == CASE w.kind = "choice" -> {[kind |-> "choice", option_ids |-> ids] : ids \in Orderings(Range(w.options))}
               [] w.kind = "fields" ->
                    {[kind |-> "fields", values |-> v] :
                       v \in {u \in [Range(Ids(w.fields)) -> UNION {SlotValues(f) : f \in Range(w.fields)}] :
                                \A f \in Range(w.fields) : u[f.id] \in SlotValues(f)}}
               [] OTHER -> {[kind |-> w.kind, value |-> v] : v \in SlotValues(w)}
  IN  {a \in all : validateAnswerAgainstSpace(w, a)}

\* A space as its schema types it: lists are sequences, an option has an id, and no answer is missing.
Typed(w) ==
  /\ w.kind = "choice" => w.options \in Seq(Range(w.options))
  /\ w.kind = "fields" =>
       /\ "fields" \in DOMAIN w /\ w.fields \in Seq(Range(w.fields))
       /\ \A f \in Range(w.fields) : f.kind = "choice" => Range(f.options) \cap {None, Empty} = {}
  /\ \A a \in Decisions(w) : answerFromWire(a) # None

\* As many entries as the longest of its answers takes.
Fills(entries, w) ==
  /\ entries >= 1
  /\ w.kind = "choice" => entries >= Len(w.options)
  /\ w.kind = "fields" => entries >= Len(w.fields)
================================================================================
