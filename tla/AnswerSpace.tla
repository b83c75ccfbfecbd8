------------------------------ MODULE AnswerSpace ------------------------------
(***************************************************************************)
(* The shapes an answer may take and which answers fit (lib/answer-space.ts)*)
(* and the two spellings of both: the one on the wire and the one of the   *)
(* SDK and of the web client (sdks/typescript/src/queries.ts,              *)
(* web/src/api/queries.ts).                                                *)
(*                                                                         *)
(* A space is a record whose kind decides its other fields.  Numbers and   *)
(* dates are integers; of a text only its length matters.  A consequence   *)
(* or an effect is stated or it is not.                                    *)
(***************************************************************************)
EXTENDS Integers, Sequences, FiniteSets, Functions

CONSTANTS
  None,    \* undefined: an optional field that is not given
  Empty,   \* the empty string
  Blank,   \* a string of white space
  Yes, No, \* the two answers of a boolean
  Misfit   \* a proposed value of a type its slot does not take

Kinds == {"boolean", "choice", "scalar", "date", "text", "fields"}

Distinct(ids) == Cardinality(Range(ids)) = Len(ids)
Ids(fields) == [i \in DOMAIN fields |-> fields[i].id]

Stepped(s) == s.step = None \/ s.step > 0

\* The text of an answer, Empty and Blank apart, is known by its length.
Length(text) == CASE text = Empty -> 0 [] text = Blank -> 1 [] OTHER -> text

slot(f) ==
  \/ f.kind \in {"boolean", "date"}
  \/ f.kind = "choice" /\ f.options # <<>>
  \/ f.kind = "scalar" /\ Stepped(f)
  \/ f.kind = "text" /\ f.max_length >= 1

answerSpaceSchema(s) ==
  \/ s.kind \in {"boolean", "date"}
  \/ s.kind = "choice" /\ s.options # <<>> /\ Distinct(s.options)
  \/ s.kind = "scalar" /\ Stepped(s)
  \/ s.kind = "text" /\ s.max_length >= 1
  \/ s.kind = "fields" /\ s.fields # <<>> /\ Distinct(Ids(s.fields)) /\ \A f \in Range(s.fields) : slot(f)

isDiscrete(s) == s.kind \in {"boolean", "choice"}

hasNonTextSlot(s) == s.kind = "fields" => \E f \in Range(s.fields) : f.kind # "text"

checkScalar(def, v) ==
  /\ v \in Int
  /\ def.min # None => v >= def.min
  /\ def.max # None => v <= def.max
  /\ def.step # None => (v - (IF def.min = None THEN 0 ELSE def.min)) % def.step = 0

\* The input of a date gives real dates or nothing; any other string is a Misfit.
checkDate(def, v) ==
  /\ v \in Int
  /\ def.earliest # None => v >= def.earliest
  /\ def.latest # None => v <= def.latest

checkSlotValue(f, v) ==
  \/ f.kind = "boolean" /\ v \in {Yes, No}
  \/ f.kind = "choice" /\ v \in Range(f.options)
  \/ f.kind = "scalar" /\ checkScalar(f, v)
  \/ f.kind = "date" /\ checkDate(f, v)
  \/ f.kind = "text" /\ v \in Nat \cup {Empty, Blank} /\ Length(v) <= f.max_length

answerSchema(a) == a.kind = "choice" => a.option_ids # <<>>

validateAnswerAgainstSpace(s, a) ==
  /\ s.kind = a.kind
  /\ \/ s.kind = "boolean"
     \/ /\ s.kind = "choice"
        /\ s.select = "one" => Len(a.option_ids) = 1
        /\ Distinct(a.option_ids)
        /\ Range(a.option_ids) \subseteq Range(s.options)
     \/ s.kind = "scalar" /\ checkScalar(s, a.value)
     \/ s.kind = "date" /\ checkDate(s, a.value)
     \/ s.kind = "text" /\ Length(a.value) <= s.max_length
     \/ /\ s.kind = "fields"
        /\ DOMAIN a.values = Range(Ids(s.fields))
        /\ \A f \in Range(s.fields) : checkSlotValue(f, a.values[f.id])

----
\* The two spellings

slotToWire(f) ==
  IF f.kind = "text" THEN [id |-> f.id, kind |-> "text", max_length |-> f.maxLength, proposed |-> f.proposed] ELSE f

slotFromWire(f) ==
  IF f.kind = "text" THEN [id |-> f.id, kind |-> "text", maxLength |-> f.max_length, proposed |-> f.proposed] ELSE f

answerSpaceToWire(s) ==
  CASE s.kind = "text" -> [kind |-> "text", max_length |-> s.maxLength]
    [] s.kind = "fields" -> [s EXCEPT !.fields = [i \in DOMAIN @ |-> slotToWire(@[i])]]
    [] OTHER -> s

answerSpaceFromWire(w) ==
  CASE w.kind = "text" -> [kind |-> "text", maxLength |-> w.max_length]
    [] w.kind = "fields" -> [w EXCEPT !.fields = [i \in DOMAIN @ |-> slotFromWire(@[i])]]
    [] OTHER -> w

\* A slot without a value is left out of the JSON.
answerToWire(a) ==
  CASE a.kind = "choice" -> [kind |-> "choice", option_ids |-> a.optionIds]
    [] a.kind = "fields" -> [a EXCEPT !.values = Restrict(@, {id \in DOMAIN @ : @[id] # None})]
    [] OTHER -> a

answerFromWire(w) == IF w.kind = "choice" THEN [kind |-> "choice", optionIds |-> w.option_ids] ELSE w
================================================================================
