---------------------------- MODULE MCQueryDialogue ----------------------------
(***************************************************************************)
(* QueryDialogue for TLC: what an agent asks and how it clarifies.  The    *)
(* ids of slots and options are model values; amounts above four are large.*)
(* The same runs check the agent that follows its refusals, and the key    *)
(* under which a request is retried: parts of their own, one of which is   *)
(* chosen at the start, for they share no state.                           *)
(***************************************************************************)
EXTENDS QueryDialogue, AskHuman, IdempotencyKey, TLC

CONSTANTS FirstId, SecondId, r1, r2, r3, r4, b1, b2

VARIABLE part  \* which of the three this behaviour is about

Nothing == [uri |-> FALSE, body |-> FALSE, sha256 |-> FALSE]
Linked  == [uri |-> TRUE,  body |-> FALSE, sha256 |-> FALSE]
Hashed  == [uri |-> FALSE, body |-> TRUE,  sha256 |-> TRUE]

YesNo(stated) == [kind |-> "boolean", consequences |-> stated]
Pick(select, stated) == [kind |-> "choice", select |-> select, options |-> <<FirstId, SecondId>>, consequences |-> stated]
Amount(max) == [kind |-> "scalar", min |-> 0, max |-> max, step |-> 3, money |-> TRUE, effect |-> TRUE]
Free(max) == [kind |-> "text", maxLength |-> max]
Form(proposed) ==
  [kind |-> "fields", effect |-> TRUE,
   fields |-> << [id |-> FirstId, kind |-> "boolean", proposed |-> proposed],
                 [id |-> SecondId, kind |-> "text", maxLength |-> 3, proposed |-> None] >>]
Dated == [kind |-> "fields", effect |-> TRUE,
          fields |-> << [id |-> SecondId, kind |-> "date", earliest |-> 3, latest |-> None, proposed |-> 3] >>]

Counted == [kind |-> "fields", effect |-> TRUE,
            fields |-> << [id |-> FirstId, kind |-> "scalar", min |-> 0, max |-> 6, step |-> 3, money |-> FALSE,
                           proposed |-> None] >>]

Body(risk, subject, self_contained, space, changes) ==
  [risk |-> risk, subject |-> subject, self_contained |-> self_contained, answer_space |-> space, changes |-> changes]

Patch(subject, space, changes) == [subject |-> subject, answer_space |-> space, changes |-> changes]

MCQuestions == { Body("low", Nothing, TRUE, Form(No), FALSE),
                 Body("medium", Linked, FALSE, Pick("many", {FirstId, SecondId}), TRUE),
                 Body("low", Linked, FALSE, Free(3), TRUE), Body("low", Linked, FALSE, Counted, FALSE) }

MCPatches == { Patch(Hashed, Amount(6), None), Patch(None, YesNo(FALSE), FALSE),
               Patch(None, Dated, None) }

\* A question of low stakes with nothing to look at, a link at medium ones, and a form of texts.
Texted == [kind |-> "text", max_length |-> 3]
TextsAnd(slots) ==
  [kind |-> "fields", effect |-> FALSE,
   fields |-> << [id |-> FirstId, kind |-> "text", max_length |-> 3, proposed |-> None] >> \o slots]
Ticked == [id |-> SecondId, kind |-> "boolean", proposed |-> None]

MCDrafts == { Body("low", Nothing, FALSE, Texted, FALSE), Body("medium", Linked, FALSE, YesNo(FALSE), FALSE),
              Body("low", Linked, FALSE, TextsAnd(<<>>), FALSE) }

MCSpaces == { Texted, YesNo(FALSE), Pick("one", {}), [Amount(6) EXCEPT !.effect = FALSE], TextsAnd(<<>>), TextsAnd(<<Ticked>>) }

\* Three attempts with one body, and one that reuses the key for another.
MCBodyOf == [r \in Requests |-> IF r = r4 THEN b2 ELSE b1]

MCInit ==
  /\ part \in {"dialogue", "asking", "retry"} /\ DialogueInit /\ AskInit /\ Init
  /\ part # "asking" => tool = "mcp" /\ draft = (CHOOSE d \in Drafts : TRUE) /\ ~decided
  /\ part # "dialogue" => ~prior

MCNext ==
  \/ part = "dialogue" /\ DialogueNext /\ UNCHANGED <<askVars, vars, part>>
  \/ part = "asking" /\ AskNext /\ UNCHANGED <<dialogueVars, vars, part>>
  \/ part = "retry" /\ Next /\ UNCHANGED <<dialogueVars, askVars, part>>

MCSpec == MCInit /\ [][MCNext]_<<dialogueVars, askVars, vars, part>>
================================================================================
