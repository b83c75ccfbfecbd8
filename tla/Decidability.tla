----------------------------- MODULE Decidability -----------------------------
(***************************************************************************)
(* Could a human decide this?  The rules of admission (admission/           *)
(* decidability.ts) and the two that need history (admission/history.ts).  *)
(* A subject says whether it has a link, a body and a hash.                *)
(***************************************************************************)
EXTENDS AnswerSpace

CONSTANT RiskElevationAmount  \* RISK_ELEVATION_AMOUNT

RISK_ORDER == <<"low", "medium", "high", "critical">>
Risk == Range(RISK_ORDER)

above(risk, floor) == \E i, j \in DOMAIN RISK_ORDER : i > j /\ RISK_ORDER[i] = risk /\ RISK_ORDER[j] = floor

atLeast(a, b) == IF above(b, a) THEN b ELSE a

Subject == [uri : BOOLEAN, body : BOOLEAN, sha256 : BOOLEAN]
weHoldIt(subject) == subject.body
hasReferent(subject) == weHoldIt(subject) \/ subject.uri

consequencesComplete(s) ==
  \/ s.kind = "boolean" /\ s.consequences
  \/ s.kind = "choice" /\ Range(s.options) \subseteq s.consequences
  \/ s.kind \in {"scalar", "date", "fields"} /\ s.effect
  \/ s.kind = "text"

\* The rules in their order, each with what it refuses.
Rules(risk, subject, self_contained, s) ==
  << [reason |-> "missing_referent", broken |-> ~self_contained /\ ~hasReferent(subject)],
     [reason |-> "text_answer_above_low_risk", broken |-> above(risk, "low") /\ s.kind = "text"],
     [reason |-> "fields_all_text_above_low_risk", broken |-> above(risk, "low") /\ ~hasNonTextSlot(s)],
     [reason |-> "missing_consequences", broken |-> above(risk, "low") /\ ~consequencesComplete(s)],
     [reason |-> "external_referent_at_high_risk",
      broken |-> above(risk, "medium") /\ hasReferent(subject) /\ ~weHoldIt(subject)],
     [reason |-> "missing_referent_hash",
      broken |-> above(risk, "medium") /\ hasReferent(subject) /\ ~subject.sha256] >>

checkPayload(risk, subject, self_contained, s) ==
  \A rule \in Range(Rules(risk, subject, self_contained, s)) : ~rule.broken

\* The reasons a payload is refused for: the first rule it breaks, if any.
refusals(risk, subject, self_contained, s) ==
  LET rules == Rules(risk, subject, self_contained, s)
  IN  {rules[i].reason : i \in {j \in DOMAIN rules :
                                 rules[j].broken /\ \A k \in 1 .. (j - 1) : ~rules[k].broken}}

\* What is asked for in a currency: its maximum or, without one, what is proposed.
Amounts(s) ==
  CASE s.kind = "scalar" -> IF s.money /\ s.max # None THEN {s.max} ELSE {}
    [] s.kind = "fields" ->
         {IF f.max # None THEN f.max ELSE f.proposed :
            f \in {g \in Range(s.fields) : g.kind = "scalar" /\ g.money}} \cap Int
    [] OTHER -> {}

elevateRisk(declared, hasPriorDecision, s) ==
  LET risk == IF hasPriorDecision THEN atLeast(declared, "medium") ELSE declared
  IN  IF \E amount \in Amounts(s) : amount > RiskElevationAmount THEN atLeast(risk, "high") ELSE risk
================================================================================
