------------------------------ MODULE ReachedProofs ----------------------------
(***************************************************************************)
(* The two ways an agent reaches a human: what QueryLink promises, for any *)
(* number of tabs and answers, any risk and any timeout, and what Trust    *)
(* does, for any number of agents, humans, conversations, invitations and  *)
(* requests.                                                               *)
(***************************************************************************)
EXTENDS QueryLink, Trust, TLAPS


--------------------------------------------------------------------------------
(* Types *)

\* A pause does not begin in the future.
PausedBefore == pausedAt # None => pausedAt <= now

\* A request is only served further with a grant, and that comes with the query.
GrantedBefore ==
  /\ status = "absent" => grant = NoGrant
  /\ \A r \in Answers : req[r].step \in Serving \ {"resolve"} => grant \in Grant

LinkInv == LinkTypeOK /\ PausedBefore /\ GrantedBefore

LEMMA LinkInitially == LinkInit => LinkInv
<1> SUFFICES ASSUME LinkInit PROVE LinkInv
  OBVIOUS
<1>1. tab \in [Tabs -> [shows : Shows, awaits : Answers \cup {None}]]
  BY DEF LinkInit, Shows
<1>2. LinkTypeOK
  BY <1>1 DEF LinkInit, LinkTypeOK, Risk
<1>3. PausedBefore /\ GrantedBefore
  BY DEF LinkInit, PausedBefore, GrantedBefore, Unsent, Serving
<1> QED BY <1>2, <1>3 DEF LinkInv

\* A step of a request to another statement.
LEMMA RequestGoes ==
  ASSUME LinkTypeOK, NEW r \in Answers, req[r].step # "unsent",
         NEW s \in Serving \cup Replies \cup {"done"}, To(r, s)
  PROVE  /\ req[r] \in Request
         /\ req' \in [Answers -> Request \cup {Unsent}]
         /\ req'[r] \in Request /\ req'[r].step = s /\ req'[r].tab = req[r].tab
         /\ req'[r].outcome = req[r].outcome
         /\ \A q \in Answers \ {r} : req'[q] = req[q]
<1>1. req[r] \in Request
  BY DEF LinkTypeOK, Unsent
<1> DEFINE m == [req[r] EXCEPT !.step = s]
<1>2. m \in Request /\ m.step = s /\ m.tab = req[r].tab /\ m.outcome = req[r].outcome
  BY <1>1 DEF Request
<1>3. req' = [req EXCEPT ![r] = m]
  BY DEF To
<1> HIDE DEF m
<1> QED BY <1>1, <1>2, <1>3 DEF LinkTypeOK

\* What the statements of a request leave of it: it goes on from a statement that
\* serves it, as the answer it was.
LEMMA Served ==
  ASSUME LinkTypeOK, NEW r \in Answers, Respond(r) \/ Fail(r)
  PROVE  /\ req[r] \in Request /\ req[r].step \in Serving
         /\ req' \in [Answers -> Request \cup {Unsent}]
         /\ req'[r] \in Request /\ req'[r].tab = req[r].tab /\ req'[r].outcome = req[r].outcome
         /\ \A q \in Answers \ {r} : req'[q] = req[q]
<1>1. req[r].step \in Serving
  BY DEF Respond, Fail, resolveQueryGrant, FindHuman, InsertHuman, ReadQuery, WriteAnswer,
         WriteReturn, consumeQueryGrant, Serving
<1>2. req[r].step # "unsent"
  BY <1>1 DEF Serving
<1>3. CASE \E s \in Serving \cup Replies \cup {"done"} : To(r, s)
  BY <1>1, <1>2, <1>3, RequestGoes
<1>4. CASE /\ req' = [req EXCEPT ![r].step = "write", ![r].read = status, ![r].rounds = rounds]
           /\ status \in Open
  <2>1. req[r] \in Request
    BY <1>2 DEF LinkTypeOK, Unsent
  <2> DEFINE m == [req[r] EXCEPT !.step = "write", !.read = status, !.rounds = rounds]
  <2>2. m \in Request /\ m.tab = req[r].tab /\ m.outcome = req[r].outcome
    BY <1>4, <2>1 DEF Request, Serving, LinkTypeOK
  <2>3. req' = [req EXCEPT ![r] = m]
    BY <1>4 DEF LinkTypeOK
  <2> HIDE DEF m
  <2> QED BY <1>1, <2>1, <2>2, <2>3 DEF LinkTypeOK
<1> QED BY <1>3, <1>4 DEF Respond, Fail, resolveQueryGrant, FindHuman, InsertHuman, ReadQuery,
     WriteAnswer, WriteReturn, consumeQueryGrant, Serving, Replies

LEMMA TabShows ==
  ASSUME LinkTypeOK, NEW t \in Tabs, NEW s \in Shows, NEW a \in Answers \cup {None}, Show(t, s, a)
  PROVE  /\ tab' \in [Tabs -> [shows : Shows, awaits : Answers \cup {None}]]
         /\ tab'[t] = [shows |-> s, awaits |-> a]
         /\ \A u \in Tabs \ {t} : tab'[u] = tab[u]
BY DEF LinkTypeOK, Show

\* A tab that gets an answer shows what it says and waits no more.
LEMMA Received ==
  ASSUME LinkTypeOK, NEW r \in Answers, Receive(r)
  PROVE  /\ req[r] \in Request /\ req[r].step \in Replies /\ Shown(r) \in Shows
         /\ tab' \in [Tabs -> [shows : Shows, awaits : Answers \cup {None}]]
         /\ \A t \in Tabs : IF tab[t].awaits = r THEN tab'[t] = [shows |-> Shown(r), awaits |-> None]
                            ELSE tab'[t] = tab[t]
         /\ req' \in [Answers -> Request \cup {Unsent}]
         /\ req'[r] \in Request /\ req'[r].step = "done" /\ req'[r].tab = req[r].tab
         /\ \A q \in Answers \ {r} : req'[q] = req[q]
<1>1. req[r].step \in Replies /\ req[r] \in Request
  BY DEF Receive, Replies, LinkTypeOK, Unsent
<1>2. Shown(r) \in Shows
  BY <1>1 DEF Shown, Shows, Replies
<1>3. tab' = [t \in Tabs |-> IF tab[t].awaits = r THEN [shows |-> Shown(r), awaits |-> None]
                             ELSE tab[t]]
  BY DEF Receive
<1> DEFINE m == [req[r] EXCEPT !.step = "done", !.read = "absent", !.rounds = 0]
<1>4. m \in Request /\ m.step = "done" /\ m.tab = req[r].tab
  BY <1>1 DEF Request
<1>5. req' = [req EXCEPT ![r] = m]
  BY DEF Receive, LinkTypeOK
<1> HIDE DEF m
<1>6. /\ tab' \in [Tabs -> [shows : Shows, awaits : Answers \cup {None}]]
      /\ \A t \in Tabs : IF tab[t].awaits = r THEN tab'[t] = [shows |-> Shown(r), awaits |-> None]
                         ELSE tab'[t] = tab[t]
  BY <1>2, <1>3 DEF LinkTypeOK
<1>7. /\ req' \in [Answers -> Request \cup {Unsent}]
      /\ req'[r] \in Request /\ req'[r].step = "done" /\ req'[r].tab = req[r].tab
      /\ \A q \in Answers \ {r} : req'[q] = req[q]
  BY <1>4, <1>5 DEF LinkTypeOK
<1> QED BY <1>1, <1>2, <1>6, <1>7

\* A page that sends an answer waits for it.
LEMMA Sent ==
  ASSUME LinkTypeOK, NEW t \in Tabs, NEW r \in Answers, NEW o \in Outcome, Send(t, r, o)
  PROVE  /\ req[r] = Unsent
         /\ req' \in [Answers -> Request \cup {Unsent}]
         /\ req'[r] \in Request /\ req'[r].step = "resolve" /\ req'[r].tab = t
         /\ \A q \in Answers \ {r} : req'[q] = req[q]
         /\ tab' \in [Tabs -> [shows : Shows, awaits : Answers \cup {None}]]
         /\ tab'[t] = [shows |-> "sending", awaits |-> r]
         /\ \A u \in Tabs \ {t} : tab'[u] = tab[u]
<1> DEFINE m == [step |-> "resolve", tab |-> t, outcome |-> o, read |-> "absent", rounds |-> 0]
<1>1. m \in Request /\ m.step = "resolve" /\ m.tab = t
  BY DEF Request, Serving
<1>2. req[r] = Unsent /\ req' = [req EXCEPT ![r] = m] /\ Show(t, "sending", r)
  BY DEF Send
<1> HIDE DEF m
<1>3. /\ req' \in [Answers -> Request \cup {Unsent}]
      /\ req'[r] \in Request /\ req'[r].step = "resolve" /\ req'[r].tab = t
      /\ \A q \in Answers \ {r} : req'[q] = req[q]
  BY <1>1, <1>2 DEF LinkTypeOK
<1> QED BY <1>2, <1>3, TabShows DEF Shows

LEMMA LinkTyped == LinkInv /\ [LinkNext]_linkVars => LinkTypeOK' /\ PausedBefore'
<1> SUFFICES ASSUME LinkInv, [LinkNext]_linkVars PROVE LinkTypeOK' /\ PausedBefore'
  OBVIOUS
<1> USE LinkConstants DEF PausedBefore
<1>0. LinkTypeOK /\ PausedBefore
  BY DEF LinkInv
<1>1. CASE createQuery
  BY <1>0, <1>1 DEF createQuery, LinkTypeOK, Grant, NoGrant, Risk, Open
<1>2. CASE sendQueryEmail
  BY <1>0, <1>2 DEF sendQueryEmail, queryRow, LinkTypeOK
<1>3. CASE Others
  <2>1. CASE Accept \/ AnswerInApp \/ HandBackInApp
    BY <1>0, <2>1 DEF Accept, AnswerInApp, HandBackInApp, elsewhere, LinkTypeOK, Open, Settled
  <2>2. CASE updateQuery
    BY <1>0, <2>2 DEF updateQuery, elsewhere, LinkTypeOK, Open, Settled, Risk
  <2>3. CASE cancelQuery \/ expireQuery
    BY <1>0, <2>3 DEF cancelQuery, expireQuery, elsewhere, LinkTypeOK, Open, Settled
  <2> QED BY <1>3, <2>1, <2>2, <2>3 DEF Others
<1>4. CASE LinkTick
  BY <1>0, <1>4 DEF LinkTick, queryRow, elsewhere, LinkTypeOK
<1>5. ASSUME NEW t \in Tabs, Page(t) PROVE LinkTypeOK' /\ PausedBefore'
  <2>1. UNCHANGED <<now, queryRow, grant, mailed, human>>
    BY <1>5 DEF Page, OpenLink, Load, Unreachable, Send
  <2>2. CASE \E r \in Answers, o \in Outcome : Send(t, r, o)
    BY <1>0, <2>1, <2>2, Sent DEF queryRow, LinkTypeOK
  <2>3. CASE OpenLink(t) \/ Load(t) \/ Unreachable(t)
    <3>1. req' = req /\ \E s \in Shows : Show(t, s, None)
      BY <2>3 DEF OpenLink, Load, Unreachable, Shows
    <3>2. tab' \in [Tabs -> [shows : Shows, awaits : Answers \cup {None}]]
      BY <1>0, <3>1, TabShows
    <3> QED BY <1>0, <2>1, <3>1, <3>2 DEF queryRow, LinkTypeOK
  <2> QED BY <1>5, <2>2, <2>3 DEF Page
<1>6. ASSUME NEW r \in Answers, Receive(r) PROVE LinkTypeOK' /\ PausedBefore'
  <2>1. UNCHANGED <<now, queryRow, grant, mailed, human>>
    BY <1>6 DEF Receive
  <2> QED BY <1>0, <1>6, <2>1, Received DEF queryRow, LinkTypeOK
<1>7. ASSUME NEW r \in Answers, Respond(r) \/ Fail(r) PROVE LinkTypeOK' /\ PausedBefore'
  <2>1. req' \in [Answers -> Request \cup {Unsent}]
    BY <1>0, <1>7, Served
  <2>2. CASE resolveQueryGrant(r) \/ FindHuman(r) \/ InsertHuman(r) \/ ReadQuery(r) \/ Fail(r)
    BY <1>0, <2>1, <2>2
       DEF resolveQueryGrant, FindHuman, InsertHuman, ReadQuery, Fail, queryRow, LinkTypeOK
  <2>3. CASE WriteAnswer(r)
    BY <1>0, <2>1, <2>3 DEF WriteAnswer, LinkTypeOK, Settled
  <2>4. CASE WriteReturn(r)
    <3>1. req[r].rounds \in Nat
      BY <1>0, <1>7, Served DEF Request
    <3> QED BY <1>0, <2>1, <2>4, <3>1 DEF WriteReturn, LinkTypeOK, Open
  <2>5. CASE consumeQueryGrant(r)
    <3>1. grant \in Grant
      BY <2>5 DEF consumeQueryGrant, LinkInv, GrantedBefore, Serving
    <3>2. grant' \in Grant
      BY <2>5, <3>1 DEF consumeQueryGrant, Grant
    <3> QED BY <1>0, <2>1, <2>5, <3>2 DEF consumeQueryGrant, queryRow, LinkTypeOK
  <2> QED BY <1>7, <2>2, <2>3, <2>4, <2>5 DEF Respond
<1>8. CASE UNCHANGED linkVars
  BY <1>0, <1>8 DEF linkVars, queryRow, LinkTypeOK
<1> QED BY <1>1, <1>2, <1>3, <1>4, <1>5, <1>6, <1>7, <1>8 DEF LinkNext

LEMMA LinkGranted == LinkInv /\ [LinkNext]_linkVars => GrantedBefore'
<1> SUFFICES ASSUME LinkInv, [LinkNext]_linkVars PROVE GrantedBefore'
  OBVIOUS
<1> USE DEF GrantedBefore
<1>0. LinkTypeOK /\ GrantedBefore
  BY DEF LinkInv
<1>1. CASE createQuery
  <2>1. \A r \in Answers : req[r].step \notin Serving \ {"resolve"}
    BY <1>0, <1>1 DEF createQuery, Grant, NoGrant
  <2> QED BY <1>1, <2>1 DEF createQuery
<1>2. CASE sendQueryEmail \/ LinkTick \/ UNCHANGED linkVars
  BY <1>0, <1>2 DEF sendQueryEmail, LinkTick, linkVars, queryRow, elsewhere
<1>3. CASE Others
  BY <1>0, <1>3 DEF Others, Accept, AnswerInApp, HandBackInApp, updateQuery, cancelQuery, expireQuery,
                    elsewhere, Open
<1>4. ASSUME NEW t \in Tabs, Page(t) PROVE GrantedBefore'
  <2>1. UNCHANGED <<status, grant>>
    BY <1>4 DEF Page, OpenLink, Load, Unreachable, Send, queryRow
  <2>2. CASE req' = req
    BY <1>0, <2>1, <2>2
  <2>3. CASE \E r \in Answers, o \in Outcome : Send(t, r, o)
    BY <1>0, <2>1, <2>3, Sent
  <2> QED BY <1>4, <2>2, <2>3 DEF Page, OpenLink, Load, Unreachable
<1>5. ASSUME NEW r \in Answers, Receive(r) PROVE GrantedBefore'
  <2>1. UNCHANGED <<status, grant>>
    BY <1>5 DEF Receive, queryRow
  <2> QED BY <1>0, <1>5, <2>1, Received DEF Serving
<1>6. ASSUME NEW r \in Answers, Respond(r) \/ Fail(r) PROVE GrantedBefore'
  <2>1. \A q \in Answers \ {r} : req'[q] = req[q]
    BY <1>0, <1>6, Served
  <2>2. req[r].step \in Serving
    BY <1>0, <1>6, Served
  <2>3. CASE resolveQueryGrant(r)
    <3>1. UNCHANGED <<status, grant>>
      BY <2>3 DEF resolveQueryGrant, queryRow
    <3>2. Live => grant \in Grant
      BY <1>0 DEF Live, LinkTypeOK, NoGrant
    <3>3. ~Live => To(r, "unauthorized")
      BY <2>3 DEF resolveQueryGrant
    <3>4. ~Live => req'[r].step = "unauthorized"
      BY <1>0, <2>2, <3>3, RequestGoes DEF Serving, Replies
    <3> QED BY <1>0, <2>1, <3>1, <3>2, <3>4 DEF Serving
  <2>4. CASE Fail(r)
    <3>1. UNCHANGED <<status, grant>> /\ To(r, "failed")
      BY <2>4 DEF Fail, queryRow
    <3>2. req'[r].step = "failed"
      BY <1>0, <2>2, <3>1, RequestGoes DEF Serving, Replies
    <3> QED BY <1>0, <2>1, <3>1, <3>2 DEF Serving
  <2>5. CASE \/ FindHuman(r) \/ InsertHuman(r) \/ ReadQuery(r) \/ WriteAnswer(r) \/ WriteReturn(r)
             \/ consumeQueryGrant(r)
    <3>1. grant \in Grant
      BY <1>0, <2>2, <2>5 DEF FindHuman, InsertHuman, ReadQuery, WriteAnswer, WriteReturn,
                              consumeQueryGrant, Serving
    <3>2. grant' \in Grant
      BY <2>5, <3>1 DEF FindHuman, InsertHuman, ReadQuery, WriteAnswer, WriteReturn,
                        consumeQueryGrant, Grant
    <3>3. status' # "absent"
      <4>1. grant # NoGrant
        BY <3>1 DEF Grant, NoGrant
      <4> QED BY <1>0, <2>5, <4>1 DEF FindHuman, InsertHuman, ReadQuery, WriteAnswer, WriteReturn,
                                      consumeQueryGrant, queryRow
    <3> QED BY <3>2, <3>3
  <2> QED BY <1>6, <2>3, <2>4, <2>5 DEF Respond
<1> QED BY <1>1, <1>2, <1>3, <1>4, <1>5, <1>6 DEF LinkNext

LEMMA LinkStep == LinkInv /\ [LinkNext]_linkVars => LinkInv'
BY LinkTyped, LinkGranted DEF LinkInv

\* The row, its grant, the tabs and the requests stay well formed.
THEOREM LinkTypeCorrect == LinkSpec => []LinkTypeOK
<1>1. LinkInv => LinkTypeOK
  BY DEF LinkInv
<1> QED BY <1>1, LinkInitially, LinkStep, PTL DEF LinkSpec

--------------------------------------------------------------------------------
(* The record *)

LEMMA AnswersOpen == \A r \in Answers : fromStatuses(r) \subseteq Open
BY DEF fromStatuses, Open

LEMMA RecordMoves == [LinkNext]_linkVars => [Record!Next]_Record!recordVars
<1> SUFFICES ASSUME [LinkNext]_linkVars PROVE [Record!Next]_Record!recordVars
  OBVIOUS
<1>1. CASE createQuery
  <2>1. Record!Create
    BY <1>1 DEF createQuery, Record!Create
  <2> QED BY <2>1 DEF Record!Next
<1>2. CASE Accept
  <2>1. Record!Assign
    BY <1>2 DEF Accept, Record!Assign, Record!Move
  <2> QED BY <2>1 DEF Record!Next
<1>3. CASE AnswerInApp
  <2>1. Record!Decide
    BY <1>3 DEF AnswerInApp, Record!Decide, Record!Open, Open
  <2> QED BY <2>1 DEF Record!Next
<1>4. CASE HandBackInApp
  <2>1. Record!AskBack
    BY <1>4 DEF HandBackInApp, Record!AskBack, Record!Move
  <2> QED BY <2>1 DEF Record!Next
<1>5. CASE updateQuery
  <2>1. Record!Clarify \/ UNCHANGED Record!recordVars
    BY <1>5 DEF updateQuery, Record!Clarify, Record!Move, Record!recordVars
  <2> QED BY <2>1 DEF Record!Next
<1>6. CASE cancelQuery
  <2>1. Record!Withdraw
    BY <1>6 DEF cancelQuery, Record!Withdraw, Record!Move, Record!Open, Open
  <2> QED BY <2>1 DEF Record!Next
<1>7. CASE expireQuery
  <2>1. Record!Expire
    BY <1>7 DEF expireQuery, Record!Expire, Record!Move, Record!Open
  <2> QED BY <2>1 DEF Record!Next
<1>8. ASSUME NEW r \in Answers, WriteAnswer(r) PROVE [Record!Next]_Record!recordVars
  <2>1. Record!Decide \/ UNCHANGED Record!recordVars
    BY <1>8, AnswersOpen DEF WriteAnswer, Record!Decide, Record!Open, Open, Record!recordVars
  <2> QED BY <2>1 DEF Record!Next
<1>9. ASSUME NEW r \in Answers, WriteReturn(r) PROVE [Record!Next]_Record!recordVars
  <2>1. fromStatuses(r) \subseteq {"pending", "assigned"}
    BY <1>9 DEF WriteReturn, fromStatuses
  <2>2. Record!AskBack \/ UNCHANGED Record!recordVars
    BY <1>9, <2>1 DEF WriteReturn, Record!AskBack, Record!Move, Record!recordVars
  <2> QED BY <2>2 DEF Record!Next
<1>10. ASSUME NEW r \in Answers,
              \/ resolveQueryGrant(r) \/ FindHuman(r) \/ InsertHuman(r) \/ ReadQuery(r)
              \/ consumeQueryGrant(r) \/ Fail(r) \/ Receive(r)
       PROVE  UNCHANGED Record!recordVars
  BY <1>10 DEF resolveQueryGrant, FindHuman, InsertHuman, ReadQuery, consumeQueryGrant, Fail, Receive,
               queryRow, Record!recordVars
<1>11. ASSUME NEW t \in Tabs, Page(t) PROVE UNCHANGED Record!recordVars
  BY <1>11 DEF Page, OpenLink, Load, Unreachable, Send, queryRow, Record!recordVars
<1>12. CASE sendQueryEmail \/ LinkTick \/ UNCHANGED linkVars
  BY <1>12 DEF sendQueryEmail, LinkTick, linkVars, queryRow, Record!recordVars
<1> QED BY <1>1, <1>2, <1>3, <1>4, <1>5, <1>6, <1>7, <1>8, <1>9, <1>10, <1>11, <1>12
        DEF LinkNext, Others, Respond

\* Through the link and the app together, a query moves as its record may.
THEOREM LinkRefinesRecord == LinkSpec => LinkImplementsRecord
<1>1. LinkInit => Record!Init
  BY DEF LinkInit, Record!Init
<1> QED BY <1>1, RecordMoves, PTL DEF LinkSpec, LinkImplementsRecord, Record!Spec

--------------------------------------------------------------------------------
(* Answers *)

\* An answer that is past its write, or reported, is the one on record.
WrittenIsRecorded ==
  \A r \in Answers :
    req[r].step = "consume" \/ (req[r].step = "ok" /\ req[r].outcome = "answer") =>
      status = "answered" /\ decision = r

\* A tab waits for the request it sent.
AwaitsItsOwn ==
  \A t \in Tabs, r \in Answers : tab[t].awaits = r => req[r] # Unsent /\ req[r].tab = t

DecisionWasSent == \A r \in Answers : decision = r => req[r] # Unsent

AnswerInv ==
  /\ WrittenIsRecorded
  /\ AwaitsItsOwn
  /\ DecisionWasSent
  /\ SpentByItsAnswer
  /\ AnsweredMeansRecorded

\* What is answered stays answered, and as it was.
LEMMA AnsweredStays ==
  ASSUME [LinkNext]_linkVars, status = "answered"
  PROVE  status' = "answered" /\ decision' = decision
BY AnswersOpen
   DEF LinkNext, Others, Respond, Page, createQuery, sendQueryEmail, Accept, AnswerInApp, HandBackInApp,
       updateQuery, cancelQuery, expireQuery, LinkTick, OpenLink, Load, Unreachable, Send, Receive,
       resolveQueryGrant, FindHuman, InsertHuman, ReadQuery, WriteAnswer, WriteReturn,
       consumeQueryGrant, Fail, queryRow, linkVars, Open

LEMMA UnsentTaken == Unsent \notin Request /\ Unsent.step = "unsent"
BY DEF Unsent, Request, Serving, Replies

\* Everybody else moves the query without an answer of the link.
LEMMA AnswerQuiet ==
  ASSUME LinkInv, AnswerInv, [LinkNext]_linkVars, UNCHANGED <<tab, req>>,
         grant' = grant \/ grant'.state # "consumed", decision' \in {decision, App}
  PROVE  AnswerInv'
<1>1. status = "answered" => status' = "answered" /\ decision' = decision
  BY AnsweredStays
<1>2. App \notin Answers
  BY LinkConstants
<1> QED BY <1>1, <1>2 DEF AnswerInv, WrittenIsRecorded, AwaitsItsOwn, DecisionWasSent,
                          SpentByItsAnswer, AnsweredMeansRecorded

LEMMA AnswerPage ==
  ASSUME LinkInv, AnswerInv, NEW t \in Tabs, Page(t)
  PROVE  AnswerInv'
<1> USE DEF AnswerInv, WrittenIsRecorded, AwaitsItsOwn, DecisionWasSent, SpentByItsAnswer,
            AnsweredMeansRecorded
<1>0. LinkTypeOK /\ None \notin Answers
  BY LinkConstants DEF LinkInv
<1>1. UNCHANGED <<status, decision, grant>>
  BY DEF Page, OpenLink, Load, Unreachable, Send, queryRow
<1>2. CASE OpenLink(t) \/ Load(t) \/ Unreachable(t)
  <2>1. PICK s \in {"loading", "ready", "gone"} : Show(t, s, None)
    BY <1>2 DEF OpenLink, Load, Unreachable
  <2>2. tab'[t] = [shows |-> s, awaits |-> None] /\ \A u \in Tabs \ {t} : tab'[u] = tab[u]
    BY <1>0, <2>1, TabShows DEF Shows
  <2>3. req' = req
    BY <1>2 DEF OpenLink, Load, Unreachable
  <2>4. \A u \in Tabs : tab'[u].shows = "answered" => tab'[u] = tab[u]
    BY <2>2
  <2>5. \A u \in Tabs, r \in Answers : tab'[u].awaits = r => tab'[u] = tab[u]
    BY <1>0, <2>2
  <2> QED BY <1>1, <2>3, <2>4, <2>5
<1>3. CASE \E r \in Answers, o \in Outcome : Send(t, r, o)
  <2>1. PICK r \in Answers, o \in Outcome : Send(t, r, o)
    BY <1>3
  <2>2. /\ req[r] = Unsent /\ req'[r] # Unsent /\ req'[r].step = "resolve" /\ req'[r].tab = t
        /\ \A q \in Answers \ {r} : req'[q] = req[q]
        /\ tab'[t] = [shows |-> "sending", awaits |-> r]
        /\ \A u \in Tabs \ {t} : tab'[u] = tab[u]
    BY <1>0, <2>1, Sent, UnsentTaken
  <2>3. decision # r
    BY <2>2
  <2>4. \A u \in Tabs : tab[u].awaits # r
    BY <2>2
  <2>5. WrittenIsRecorded'
    BY <1>1, <2>2
  <2>6. AwaitsItsOwn'
    BY <2>2, <2>4
  <2>7. AnsweredMeansRecorded'
    BY <1>1, <2>2, <2>3
  <2>8. DecisionWasSent' /\ SpentByItsAnswer'
    BY <1>1, <2>2
  <2> QED BY <2>5, <2>6, <2>7, <2>8
<1> QED BY <1>2, <1>3 DEF Page

LEMMA AnswerReceived ==
  ASSUME LinkInv, AnswerInv, NEW r \in Answers, Receive(r)
  PROVE  AnswerInv'
<1> USE DEF AnswerInv, WrittenIsRecorded, AwaitsItsOwn, DecisionWasSent, SpentByItsAnswer,
            AnsweredMeansRecorded
<1>0. LinkTypeOK /\ None \notin Answers
  BY LinkConstants DEF LinkInv
<1>1. UNCHANGED <<status, decision, grant>>
  BY DEF Receive, queryRow
<1>2. /\ req[r] \in Request /\ req[r].step \in Replies
      /\ req'[r] # Unsent /\ req'[r].step = "done" /\ req'[r].tab = req[r].tab
      /\ \A q \in Answers \ {r} : req'[q] = req[q]
  BY <1>0, Received, UnsentTaken
<1>3. \A t \in Tabs : IF tab[t].awaits = r THEN tab'[t] = [shows |-> Shown(r), awaits |-> None]
                      ELSE tab'[t] = tab[t]
  BY <1>0, Received
<1>4. \A q \in Answers : req'[q].tab = req[q].tab /\ (req[q] # Unsent => req'[q] # Unsent)
  BY <1>2
<1>5. Shown(r) = "answered" => status = "answered" /\ decision = r
  BY <1>2 DEF Shown, Replies
<1>6. WrittenIsRecorded'
  BY <1>1, <1>2
<1>7. AwaitsItsOwn'
  BY <1>0, <1>3, <1>4
<1>8. ASSUME NEW t \in Tabs, tab'[t].shows = "answered"
      PROVE  status' = "answered" /\ decision' \in Answers /\ req'[decision'].tab = t
  <2>1. CASE tab[t].awaits = r
    <3>1. tab'[t] = [shows |-> Shown(r), awaits |-> None]
      BY <1>3, <2>1
    <3>2. status = "answered" /\ decision = r /\ req[r].tab = t
      BY <1>5, <1>8, <2>1, <3>1
    <3> QED BY <1>1, <1>4, <3>2
  <2>2. CASE tab[t].awaits # r
    BY <1>1, <1>3, <1>4, <1>8, <2>2
  <2> QED BY <2>1, <2>2
<1>9. DecisionWasSent' /\ SpentByItsAnswer'
  BY <1>1, <1>4
<1> QED BY <1>6, <1>7, <1>8, <1>9

LEMMA AnswerServed ==
  ASSUME LinkInv, AnswerInv, [LinkNext]_linkVars, NEW r \in Answers, Respond(r) \/ Fail(r)
  PROVE  AnswerInv'
<1> USE DEF AnswerInv, WrittenIsRecorded, AwaitsItsOwn, DecisionWasSent, SpentByItsAnswer,
            AnsweredMeansRecorded
<1>0. LinkTypeOK
  BY DEF LinkInv
<1>1. status = "answered" => status' = "answered" /\ decision' = decision
  BY AnsweredStays
<1>2. /\ req[r] \in Request /\ req[r].step \in Serving /\ req[r] # Unsent
      /\ req'[r] # Unsent /\ req'[r].tab = req[r].tab /\ req'[r].outcome = req[r].outcome
      /\ \A q \in Answers \ {r} : req'[q] = req[q]
  BY <1>0, Served, UnsentTaken
<1>3. tab' = tab
  BY DEF Respond, Fail, resolveQueryGrant, FindHuman, InsertHuman, ReadQuery, WriteAnswer,
         WriteReturn, consumeQueryGrant
<1>4. \A q \in Answers : req'[q].tab = req[q].tab /\ (req[q] # Unsent => req'[q] # Unsent)
  BY <1>2
<1>5. AwaitsItsOwn' /\ AnsweredMeansRecorded'
  BY <1>1, <1>3, <1>4
<1>6. CASE WriteAnswer(r)
  <2>1. CASE status \in fromStatuses(r)
    <3>1. status' = "answered" /\ decision' = r /\ grant' = grant /\ status # "answered"
      BY <1>6, <2>1, AnswersOpen DEF WriteAnswer, Open
    <3>2. \A q \in Answers : req'[q].step = "consume" \/ (req'[q].step = "ok" /\ req'[q].outcome = "answer")
             => q = r
      BY <1>2, <3>1
    <3> QED BY <1>2, <1>5, <3>1, <3>2
  <2>2. CASE status \notin fromStatuses(r)
    <3>1. UNCHANGED <<status, decision, grant>> /\ To(r, "failed")
      BY <1>6, <2>2 DEF WriteAnswer
    <3>2. req'[r].step = "failed"
      BY <1>0, <1>2, <3>1, RequestGoes DEF Serving, Replies
    <3> QED BY <1>2, <1>4, <1>5, <3>1, <3>2
  <2> QED BY <2>1, <2>2
<1>7. CASE consumeQueryGrant(r)
  <2>1. UNCHANGED <<status, decision>> /\ req[r].step = "consume"
    BY <1>7 DEF consumeQueryGrant, queryRow
  <2>2. status = "answered" /\ decision = r
    BY <2>1
  <2> QED BY <1>2, <1>4, <1>5, <2>1, <2>2
<1>8. CASE WriteReturn(r)
  <2>1. decision' = decision /\ grant' = grant /\ req[r].outcome = "insufficient_context"
    BY <1>8 DEF WriteReturn
  <2>2. \E s \in {"ok", "failed"} : To(r, s)
    BY <1>8 DEF WriteReturn
  <2>3. req'[r].step # "consume"
    BY <1>0, <1>2, <2>2, RequestGoes DEF Serving, Replies
  <2> QED BY <1>1, <1>2, <1>4, <1>5, <2>1, <2>3
<1>9. CASE resolveQueryGrant(r) \/ FindHuman(r) \/ InsertHuman(r) \/ ReadQuery(r) \/ Fail(r)
  <2>1. UNCHANGED <<status, decision, grant>>
    BY <1>9 DEF resolveQueryGrant, FindHuman, InsertHuman, ReadQuery, Fail, queryRow
  <2>2. \/ req' = [req EXCEPT ![r].step = "write", ![r].read = status, ![r].rounds = rounds]
        \/ \E s \in (Serving \ {"consume"}) \cup {"unauthorized", "failed"} : To(r, s)
    BY <1>9 DEF resolveQueryGrant, FindHuman, InsertHuman, ReadQuery, Fail, Serving
  <2>3. req'[r].step \notin {"consume", "ok"}
    <3>1. CASE req' = [req EXCEPT ![r].step = "write", ![r].read = status, ![r].rounds = rounds]
      BY <1>0, <1>2, <3>1 DEF LinkTypeOK, Request
    <3>2. CASE \E s \in (Serving \ {"consume"}) \cup {"unauthorized", "failed"} : To(r, s)
      BY <1>0, <1>2, <3>2, RequestGoes DEF Serving, Replies
    <3> QED BY <2>2, <3>1, <3>2
  <2> QED BY <1>2, <1>4, <1>5, <2>1, <2>3
<1> QED BY <1>6, <1>7, <1>8, <1>9 DEF Respond

LEMMA AnswerStep == LinkInv /\ AnswerInv /\ [LinkNext]_linkVars => AnswerInv'
<1> SUFFICES ASSUME LinkInv, AnswerInv, [LinkNext]_linkVars PROVE AnswerInv'
  OBVIOUS
<1>1. CASE createQuery
  <2>1. UNCHANGED <<tab, req, decision>> /\ (grant' = grant \/ grant'.state # "consumed")
    BY <1>1 DEF createQuery, NoGrant
  <2> QED BY <2>1, AnswerQuiet
<1>2. CASE sendQueryEmail \/ LinkTick \/ UNCHANGED linkVars
  <2>1. UNCHANGED <<tab, req, decision, grant>>
    BY <1>2 DEF sendQueryEmail, LinkTick, linkVars, queryRow, elsewhere
  <2> QED BY <2>1, AnswerQuiet
<1>3. CASE Others
  <2>1. UNCHANGED <<tab, req, grant>> /\ decision' \in {decision, App}
    BY <1>3 DEF Others, Accept, AnswerInApp, HandBackInApp, updateQuery, cancelQuery, expireQuery,
                elsewhere
  <2> QED BY <2>1, AnswerQuiet
<1> QED BY <1>1, <1>2, <1>3, AnswerPage, AnswerReceived, AnswerServed DEF LinkNext

LEMMA AnswerInitially == LinkInit => AnswerInv
BY LinkConstants
   DEF LinkInit, AnswerInv, WrittenIsRecorded, AwaitsItsOwn, DecisionWasSent, SpentByItsAnswer,
       AnsweredMeansRecorded, Unsent, NoGrant

\* Whoever is shown that the answer is in has decided: the record holds the answer of
\* that tab.
THEOREM AnswerCorrect == LinkSpec => []AnsweredMeansRecorded
<1>1. AnswerInv => AnsweredMeansRecorded
  BY DEF AnswerInv
<1> QED BY <1>1, LinkInitially, LinkStep, AnswerInitially, AnswerStep, PTL DEF LinkSpec

\* A link is spent by an answer that is on record and by nothing else.
THEOREM SpentCorrect == LinkSpec => []SpentByItsAnswer
<1>1. AnswerInv => SpentByItsAnswer
  BY DEF AnswerInv
<1> QED BY <1>1, LinkInitially, LinkStep, AnswerInitially, AnswerStep, PTL DEF LinkSpec

--------------------------------------------------------------------------------
(* Invitations and trust *)

\* Constants do not change.
LEMMA ConstantsStay == TrustConstants => TrustConstants'
BY DEF TrustConstants

--------------------------------------------------------------------------------
(* Types *)

\* A request that holds an invitation holds one that has been made.
HoldersAim == \A r \in Requests : request[r] \in Holding => Made(request[r].of)

TrustInv == TrustTypeOK /\ HoldersAim

LEMMA TrustInitially == TrustInit => TrustInv
BY DEF TrustInit, TrustInv, TrustTypeOK, HoldersAim, Absent, Idle, Holding

\* What an invitation is about does not change once it is made.
LEMMA MarkedStays ==
  ASSUME TrustInv, NEW i \in Invitations, Made(i),
         NEW s \in {"accepted", "declined", "expired", "revoked"}, Puts(i, s)
  PROVE  /\ invitations' \in [Invitations -> Invitation \cup {Absent}]
         /\ late' \in SUBSET Invitations
         /\ \A j \in Invitations : Made(j)' <=> Made(j)
         /\ invitations'[i].status = s
         /\ \A j \in Invitations : /\ invitations'[j].in = invitations[j].in
                                   /\ invitations'[j].to = invitations[j].to
                                   /\ invitations'[j].exact = invitations[j].exact
                                   /\ j # i => invitations'[j] = invitations[j]
<1> USE DEF TrustInv, TrustTypeOK
<1> DEFINE m == [invitations[i] EXCEPT !.status = s]
<1>1. invitations[i] \in Invitation BY DEF Made
<1>2. /\ m \in Invitation /\ m.status = s
      /\ m.in = invitations[i].in /\ m.to = invitations[i].to /\ m.exact = invitations[i].exact
  BY <1>1 DEF Invitation
<1>3. invitations' = [invitations EXCEPT ![i] = m] BY DEF Puts
<1>4. Absent \notin Invitation BY DEF Absent, Invitation
<1>5. late' \in SUBSET Invitations BY DEF Puts
<1> HIDE DEF m
<1> QED BY <1>2, <1>3, <1>4, <1>5 DEF Made

\* A step of a request is one of the ways it may hold its invitation.
LEMMA StepHolds ==
  ASSUME TrustInv, NEW r \in Requests, request[r] \in Holding,
         NEW at \in {"inserted", "trusted", "mark", "join", "lapse", "accept", "find",
                     "enter", "decline", "withdraw"}, Step(r, at)
  PROVE  /\ request' \in [Requests -> Creating \cup Holding \cup Untrusting \cup {Idle}]
         /\ request'[r] \in Holding /\ request'[r].at = at /\ request'[r].of = request[r].of
         /\ \A q \in Requests \ {r} : request'[q] = request[q]
<1> DEFINE h == [request[r] EXCEPT !.at = at]
<1>1. h \in Holding /\ h.at = at /\ h.of = request[r].of
  BY DEF Holding
<1>2. request' = [request EXCEPT ![r] = h]
  BY DEF Step, Goes
<1> HIDE DEF h
<1> QED BY <1>1, <1>2 DEF TrustInv, TrustTypeOK

\* A request that is past its first statement, but for the first of a creation and a
\* revocation of trust, holds an invitation.
LEMMA Holds ==
  ASSUME TrustInv, NEW r \in Requests,
         request[r].at \in {"inserted", "trusted", "mark", "join", "lapse", "accept", "find",
                            "enter", "decline", "withdraw"}
  PROVE  request[r] \in Holding /\ request[r].of \in Invitations /\ Made(request[r].of)
BY DEF TrustInv, TrustTypeOK, HoldersAim, Creating, Holding, Untrusting, Idle

LEMMA EndsHolds ==
  ASSUME TrustInv, NEW r \in Requests, Ends(r)
  PROVE  /\ request' \in [Requests -> Creating \cup Holding \cup Untrusting \cup {Idle}]
         /\ request'[r] = Idle
         /\ \A q \in Requests \ {r} : request'[q] = request[q]
BY DEF TrustInv, TrustTypeOK, Ends, Goes

LEMMA IdleHoldsNothing == Idle \notin Holding /\ Idle.at = "idle"
BY DEF Idle, Holding

LEMMA SeatsCounted ==
  ASSUME TrustInv, NEW i \in Invitations, Made(i), Seats(i)
  PROVE  /\ participants' \in [Conversations \X Humans -> Nat]
         /\ Seat(i) \in Conversations \X Humans /\ participants'[Seat(i)] > 0
         /\ \A s \in Conversations \X Humans : participants'[s] >= participants[s]
         /\ \A s \in Conversations \X Humans : s # Seat(i) => participants'[s] = participants[s]
<1>1. Seat(i) \in Conversations \X Humans
  BY DEF TrustInv, TrustTypeOK, Made, Seat, Invitation
<1>2. participants' = [participants EXCEPT ![Seat(i)] = participants[Seat(i)] + 1]
  BY DEF Seats
<1> QED BY <1>1, <1>2 DEF TrustInv, TrustTypeOK

LEMMA TrustStep == TrustConstants /\ TrustInv /\ [TrustNext]_trustVars => TrustInv'
<1> SUFFICES ASSUME TrustConstants, TrustInv, [TrustNext]_trustVars PROVE TrustInv'
  OBVIOUS
<1> USE DEF HoldersAim
<1>1. ASSUME NEW k \in Conversations, Converse(k) PROVE TrustInv'
  BY <1>1 DEF Converse, createConversation, AddOwner, TrustInv, TrustTypeOK, Made
<1>2. ASSUME NEW i \in Invitations, TimePasses(i) PROVE TrustInv'
  BY <1>2 DEF TimePasses, TrustInv, TrustTypeOK, Made
<1>3. ASSUME NEW r \in Requests, Invite(r) PROVE TrustInv'
  <2>1. PICK k \in Conversations, address \in Addresses : CreateCheck(r, k, address[1], address[2])
    BY <1>3 DEF Invite
  <2>2. address[1] \in Humans /\ address[2] \in BOOLEAN
    BY DEF TrustConstants
  <2> DEFINE c == [at |-> "insert", in |-> k, to |-> address[1], exact |-> address[2]]
  <2>3. c \in Creating /\ c \notin Holding
    BY <2>2 DEF Creating, Holding
  <2>4. request' = [request EXCEPT ![r] = c]
    BY <2>1 DEF CreateCheck, Goes
  <2> HIDE DEF c
  <2> QED BY <2>1, <2>3, <2>4 DEF CreateCheck, TrustInv, TrustTypeOK, Made
<1>4. ASSUME NEW r \in Requests, Withdraw(r) \/ Card(r) PROVE TrustInv'
  <2>1. PICK i \in Invitations, at \in {"lapse", "accept", "decline", "withdraw"} :
          Pending(i) /\ Goes(r, [at |-> at, of |-> i])
    BY <1>4 DEF Withdraw, Card, RevokeRead, AcceptRead, DeclineRead
  <2>2. UNCHANGED <<conversations, invitations, late, participants, revocations, cut, consents>>
    BY <1>4 DEF Withdraw, Card, RevokeRead, AcceptRead, DeclineRead
  <2>3. [at |-> at, of |-> i] \in Holding
    BY DEF Holding
  <2> QED BY <2>1, <2>2, <2>3 DEF Goes, Pending, TrustInv, TrustTypeOK, Made
<1>5. ASSUME NEW r \in Requests, TrustPage(r) PROVE TrustInv'
  <2>1. PICK a \in Agents, h \in Humans : UntrustRead(r, a, h)
    BY <1>5 DEF TrustPage
  <2> DEFINE u == [at |-> "untrust", agent |-> a, human |-> h]
  <2>2. u \in Untrusting /\ u \notin Holding
    BY DEF Untrusting, Holding
  <2>3. request' = [request EXCEPT ![r] = u]
    BY <2>1 DEF UntrustRead, Goes
  <2> HIDE DEF u
  <2> QED BY <2>1, <2>2, <2>3 DEF UntrustRead, TrustInv, TrustTypeOK, Made
<1>6. ASSUME NEW r \in Requests, CreateInsert(r) PROVE TrustInv'
  <2>1. PICK i \in Invitations :
          /\ ~Made(i)
          /\ invitations' = [invitations EXCEPT ![i] =
               [status |-> "pending", in |-> request[r].in, to |-> request[r].to,
                exact |-> request[r].exact]]
          /\ Goes(r, [at |-> "inserted", of |-> i])
    BY <1>6 DEF CreateInsert
  <2>2. request[r] \in Creating
    BY <1>6 DEF CreateInsert, TrustInv, TrustTypeOK, Creating, Holding, Untrusting, Idle
  <2> DEFINE n == [status |-> "pending", in |-> request[r].in, to |-> request[r].to,
                   exact |-> request[r].exact]
  <2>3. n \in Invitation /\ n # Absent
    BY <2>2 DEF Creating, Invitation, Absent
  <2>4. [at |-> "inserted", of |-> i] \in Holding
    BY DEF Holding
  <2>5. invitations' = [invitations EXCEPT ![i] = n]
    BY <2>1
  <2> HIDE DEF n
  <2> QED BY <1>6, <2>1, <2>3, <2>4, <2>5 DEF CreateInsert, Goes, TrustInv, TrustTypeOK, Made
<1>7. ASSUME NEW r \in Requests,
             FindTrust(r) \/ FindRevocation(r) \/ AcceptFind(r)
      PROVE  TrustInv'
  <2>1. request[r] \in Holding
    BY <1>7, Holds DEF FindTrust, FindRevocation, AcceptFind
  <2>2. Ends(r) \/ Step(r, "trusted") \/ Step(r, "mark") \/ Step(r, "enter")
    BY <1>7 DEF FindTrust, FindRevocation, AcceptFind
  <2>3. UNCHANGED <<conversations, invitations, late, participants, revocations, cut, consents>>
    BY <1>7 DEF FindTrust, FindRevocation, AcceptFind
  <2> QED BY <2>1, <2>2, <2>3, StepHolds, EndsHolds, IdleHoldsNothing
          DEF TrustInv, TrustTypeOK, Made
<1>8. ASSUME NEW r \in Requests,
             MarkAutoAccepted(r) \/ Lapse(r) \/ AcceptMark(r) \/ Write(r)
      PROVE  TrustInv'
  <2>1. request[r] \in Holding /\ request[r].of \in Invitations /\ Made(request[r].of)
    BY <1>8, Holds DEF MarkAutoAccepted, Lapse, AcceptMark, Write
  <2>2. \E s \in {"accepted", "declined", "expired", "revoked"} : Puts(request[r].of, s)
    BY <1>8 DEF MarkAutoAccepted, Lapse, AcceptMark, Write
  <2>3. Ends(r) \/ Step(r, "join") \/ Step(r, "find")
    BY <1>8 DEF MarkAutoAccepted, Lapse, AcceptMark, Write
  <2>4. UNCHANGED <<conversations, participants, revocations, cut>>
    BY <1>8 DEF MarkAutoAccepted, Lapse, AcceptMark, Write
  <2>5. consents' \in SUBSET (Agents \X Humans)
    <3>1. Bond(request[r].of) \in Agents \X Humans
      BY <2>1 DEF TrustInv, TrustTypeOK, TrustConstants, Bond, By, Made, Invitation
    <3> QED BY <1>8, <3>1 DEF MarkAutoAccepted, Lapse, AcceptMark, Write, TrustInv, TrustTypeOK
  <2>6. /\ invitations' \in [Invitations -> Invitation \cup {Absent}]
        /\ late' \in SUBSET Invitations
        /\ \A j \in Invitations : Made(j)' <=> Made(j)
    BY <2>1, <2>2, MarkedStays
  <2>7. /\ request' \in [Requests -> Creating \cup Holding \cup Untrusting \cup {Idle}]
        /\ \A q \in Requests : request'[q] \in Holding =>
             request[q] \in Holding /\ request'[q].of = request[q].of
    BY <2>1, <2>3, StepHolds, EndsHolds, IdleHoldsNothing
  <2>8. HoldersAim'
    BY <2>6, <2>7 DEF TrustInv, Holding
  <2> QED BY <2>4, <2>5, <2>6, <2>7, <2>8 DEF TrustInv, TrustTypeOK
<1>9. ASSUME NEW r \in Requests, JoinAutoAccepted(r) \/ AcceptEnter(r) PROVE TrustInv'
  <2>1. request[r].of \in Invitations /\ Made(request[r].of)
    BY <1>9, Holds DEF JoinAutoAccepted, AcceptEnter
  <2>2. Seats(request[r].of) /\ Ends(r)
    BY <1>9 DEF JoinAutoAccepted, AcceptEnter
  <2>3. UNCHANGED <<conversations, invitations, late, revocations, cut, consents>>
    BY <1>9 DEF JoinAutoAccepted, AcceptEnter
  <2>4. participants' \in [Conversations \X Humans -> Nat]
    BY <2>1, <2>2, SeatsCounted
  <2> QED BY <2>2, <2>3, <2>4, EndsHolds, IdleHoldsNothing DEF TrustInv, TrustTypeOK, Made
<1>10. ASSUME NEW r \in Requests, UntrustWrite(r) PROVE TrustInv'
  <2>1. request[r] \in Untrusting
    BY <1>10 DEF UntrustWrite, TrustInv, TrustTypeOK, Creating, Holding, Untrusting, Idle
  <2>2. revocations' \in SUBSET (Agents \X Humans)
    BY <1>10, <2>1 DEF UntrustWrite, TrustInv, TrustTypeOK, Untrusting
  <2> QED BY <1>10, <2>2, EndsHolds, IdleHoldsNothing DEF UntrustWrite, TrustInv, TrustTypeOK, Made
<1>11. ASSUME NEW r \in Requests, Crash(r) PROVE TrustInv'
  <2>1. cut' \in SUBSET Invitations
    BY <1>11 DEF Crash, TrustInv, TrustTypeOK
  <2> QED BY <1>11, <2>1, EndsHolds, IdleHoldsNothing DEF Crash, TrustInv, TrustTypeOK, Made
<1>12. CASE UNCHANGED trustVars
  BY <1>12 DEF trustVars, TrustInv, TrustTypeOK, Made
<1> QED BY <1>1, <1>2, <1>3, <1>4, <1>5, <1>6, <1>7, <1>8, <1>9, <1>10, <1>11, <1>12
        DEF TrustNext, Serve

\* Conversations, invitations, requests and their history stay well formed.
THEOREM TrustTypeCorrect == TrustConstants /\ TrustSpec => []TrustTypeOK
<1>1. TrustInv => TrustTypeOK
  BY DEF TrustInv
<1>2. (TrustConstants /\ TrustInv) /\ [TrustNext]_trustVars => (TrustConstants /\ TrustInv)'
  BY TrustStep, ConstantsStay
<1> QED BY <1>1, <1>2, TrustInitially, PTL DEF TrustSpec

--------------------------------------------------------------------------------
(* What a step does to what there is *)

\* An invitation that has been made stays about the same human and conversation, and
\* what has been consented to, revoked, cut or seated stays so.
LEMMA Grows ==
  ASSUME TrustConstants, TrustInv, [TrustNext]_trustVars
  PROVE  /\ \A i \in Invitations : Made(i) =>
              Made(i)' /\ Seat(i)' = Seat(i) /\ Bond(i)' = Bond(i)
         /\ consents \subseteq consents' /\ revocations \subseteq revocations'
         /\ cut \subseteq cut'
         /\ \A s \in Conversations \X Humans : participants'[s] >= participants[s]
<1> DEFINE Same == \A i \in Invitations : Made(i) =>
                     Made(i)' /\ Seat(i)' = Seat(i) /\ Bond(i)' = Bond(i)
           More == \A s \in Conversations \X Humans : participants'[s] >= participants[s]
<1>a. participants' = participants => More
  BY DEF TrustInv, TrustTypeOK
<1>b. invitations' = invitations => Same
  BY DEF Made, Seat, Bond, By
<1>1. ASSUME NEW r \in Requests, CreateInsert(r)
      PROVE  Same /\ UNCHANGED <<participants, revocations, cut, consents>>
  BY <1>1 DEF CreateInsert, Made, Seat, Bond, By, TrustInv, TrustTypeOK
<1>2. ASSUME NEW r \in Requests,
             MarkAutoAccepted(r) \/ Lapse(r) \/ AcceptMark(r) \/ Write(r)
      PROVE  Same /\ consents \subseteq consents' /\ UNCHANGED <<participants, revocations, cut>>
  <2>1. request[r].of \in Invitations /\ Made(request[r].of)
    BY <1>2, Holds DEF MarkAutoAccepted, Lapse, AcceptMark, Write
  <2>2. \E s \in {"accepted", "declined", "expired", "revoked"} : Puts(request[r].of, s)
    BY <1>2 DEF MarkAutoAccepted, Lapse, AcceptMark, Write
  <2>3. Same
    BY <2>1, <2>2, MarkedStays DEF Seat, Bond, By
  <2> QED BY <1>2, <2>3 DEF MarkAutoAccepted, Lapse, AcceptMark, Write
<1>3. ASSUME NEW r \in Requests, JoinAutoAccepted(r) \/ AcceptEnter(r)
      PROVE  More /\ UNCHANGED <<invitations, revocations, cut, consents>>
  <2>1. request[r].of \in Invitations /\ Made(request[r].of)
    BY <1>3, Holds DEF JoinAutoAccepted, AcceptEnter
  <2> QED BY <1>3, <2>1, SeatsCounted DEF JoinAutoAccepted, AcceptEnter
<1>4. ASSUME NEW r \in Requests, UntrustWrite(r) \/ Crash(r)
      PROVE  /\ revocations \subseteq revocations' /\ cut \subseteq cut'
             /\ UNCHANGED <<invitations, participants, consents>>
  BY <1>4 DEF UntrustWrite, Crash
<1>5. ASSUME NEW r \in Requests,
             \/ Invite(r) \/ Withdraw(r) \/ Card(r) \/ TrustPage(r)
             \/ FindTrust(r) \/ FindRevocation(r) \/ AcceptFind(r)
      PROVE  UNCHANGED <<invitations, participants, revocations, cut, consents>>
  BY <1>5 DEF Invite, Withdraw, Card, TrustPage, CreateCheck, RevokeRead, AcceptRead, DeclineRead,
              UntrustRead, FindTrust, FindRevocation, AcceptFind
<1>6. ASSUME (\E k \in Conversations : Converse(k)) \/ (\E i \in Invitations : TimePasses(i))
             \/ UNCHANGED trustVars
      PROVE  UNCHANGED <<invitations, participants, revocations, cut, consents>>
  BY <1>6 DEF Converse, createConversation, AddOwner, TimePasses, trustVars
<1> HIDE DEF Same, More
<1>7. Same /\ More /\ consents \subseteq consents' /\ revocations \subseteq revocations'
      /\ cut \subseteq cut'
  BY <1>a, <1>b, <1>1, <1>2, <1>3, <1>4, <1>5, <1>6 DEF TrustNext, Serve
<1> QED BY <1>7 DEF Same, More

--------------------------------------------------------------------------------
(* Consent *)

\* Where an invitation has been accepted, or is about to be on trust, somebody has
\* accepted one of that agent in person.
AcceptedIsConsented ==
  \A i \in Invitations : Made(i) /\ invitations[i].status = "accepted" => Bond(i) \in consents

Trusting == {"trusted", "mark", "join", "find", "enter"}

TrustingIsConsented ==
  \A r \in Requests, i \in Invitations :
    request[r] \in Holding /\ request[r].of = i /\ request[r].at \in Trusting => Bond(i) \in consents

SeatedIsConsented ==
  \A k \in Conversations, h \in Humans : participants[<<k, h>>] > 0 => <<Creator[k], h>> \in consents

ConsentInv == AcceptedIsConsented /\ TrustingIsConsented /\ SeatedIsConsented

LEMMA ConsentStep ==
  TrustConstants /\ TrustInv /\ ConsentInv /\ [TrustNext]_trustVars => ConsentInv'
<1> SUFFICES ASSUME TrustConstants, TrustInv, ConsentInv, [TrustNext]_trustVars PROVE ConsentInv'
  OBVIOUS
<1> USE DEF ConsentInv, AcceptedIsConsented, TrustingIsConsented, SeatedIsConsented
<1>0. /\ consents \subseteq consents'
      /\ \A i \in Invitations : Made(i) => Made(i)' /\ Bond(i)' = Bond(i)
      /\ TrustInv'
  BY Grows, TrustStep
<1>1. ASSUME UNCHANGED <<invitations, participants, consents>>,
             \A q \in Requests : request'[q] \in Holding /\ request'[q].at \in Trusting =>
               request'[q] = request[q]
      PROVE  ConsentInv'
  BY <1>1 DEF Made, Bond, By
<1>2. ASSUME NEW r \in Requests, Invite(r) \/ TrustPage(r) \/ Withdraw(r) \/ Card(r)
      PROVE  ConsentInv'
  <2>1. \E c : c.at \notin Trusting /\ Goes(r, c)
    BY <1>2 DEF Invite, Withdraw, Card, TrustPage, CreateCheck, RevokeRead, AcceptRead, DeclineRead,
                UntrustRead, Trusting
  <2>2. UNCHANGED <<invitations, participants, consents>>
    BY <1>2 DEF Invite, Withdraw, Card, TrustPage, CreateCheck, RevokeRead, AcceptRead, DeclineRead,
                UntrustRead
  <2> QED BY <1>1, <2>1, <2>2 DEF Goes, TrustInv, TrustTypeOK
<1>3. ASSUME NEW r \in Requests, UntrustWrite(r) \/ Crash(r) PROVE ConsentInv'
  <2>1. Ends(r) /\ UNCHANGED <<invitations, participants, consents>>
    BY <1>3 DEF UntrustWrite, Crash
  <2> QED BY <1>1, <2>1, EndsHolds, IdleHoldsNothing
<1>4. ASSUME NEW r \in Requests, CreateInsert(r) PROVE ConsentInv'
  <2>1. PICK i \in Invitations :
          /\ ~Made(i)
          /\ invitations' = [invitations EXCEPT ![i] =
               [status |-> "pending", in |-> request[r].in, to |-> request[r].to,
                exact |-> request[r].exact]]
          /\ Goes(r, [at |-> "inserted", of |-> i])
    BY <1>4 DEF CreateInsert
  <2>2. UNCHANGED <<participants, consents>>
    BY <1>4 DEF CreateInsert
  <2>3. AcceptedIsConsented'
    BY <1>0, <2>1, <2>2 DEF TrustInv, TrustTypeOK, Made, Bond, By
  <2>4. TrustingIsConsented'
    BY <1>0, <2>1, <2>2 DEF TrustInv, TrustTypeOK, HoldersAim, Goes, Trusting, Holding
  <2> QED BY <2>2, <2>3, <2>4
<1>5. ASSUME NEW r \in Requests, FindTrust(r) \/ FindRevocation(r) \/ AcceptFind(r)
      PROVE  ConsentInv'
  <2>1. request[r] \in Holding /\ request[r].of \in Invitations /\ Made(request[r].of)
    BY <1>5, Holds DEF FindTrust, FindRevocation, AcceptFind
  <2>2. UNCHANGED <<invitations, participants, consents>>
    BY <1>5 DEF FindTrust, FindRevocation, AcceptFind
  <2>3. Ends(r) \/ Bond(request[r].of) \in consents
    BY <1>5, <2>1 DEF FindTrust, FindRevocation, AcceptFind, Trusting
  <2>4. Ends(r) \/ Step(r, "trusted") \/ Step(r, "mark") \/ Step(r, "enter")
    BY <1>5 DEF FindTrust, FindRevocation, AcceptFind
  <2>5. TrustingIsConsented'
    BY <2>1, <2>2, <2>3, <2>4, StepHolds, EndsHolds, IdleHoldsNothing DEF Bond, By
  <2> QED BY <2>2, <2>5 DEF Made, Bond, By
<1>6. ASSUME NEW r \in Requests,
             MarkAutoAccepted(r) \/ Lapse(r) \/ AcceptMark(r) \/ Write(r)
      PROVE  ConsentInv'
  <2> DEFINE i == request[r].of
  <2>1. request[r] \in Holding /\ i \in Invitations /\ Made(i)
    BY <1>6, Holds DEF MarkAutoAccepted, Lapse, AcceptMark, Write
  <2>2. PICK s \in {"accepted", "declined", "expired", "revoked"} :
          Puts(i, s) /\ (s = "accepted" => MarkAutoAccepted(r) \/ AcceptMark(r))
    BY <1>6 DEF MarkAutoAccepted, Lapse, AcceptMark, Write
  <2>3. UNCHANGED participants
    BY <1>6 DEF MarkAutoAccepted, Lapse, AcceptMark, Write
  <2>4. MarkAutoAccepted(r) \/ AcceptMark(r) => Bond(i) \in consents'
    BY <1>0, <2>1 DEF MarkAutoAccepted, AcceptMark, Trusting
  <2>5. /\ invitations'[i].status = s
        /\ \A j \in Invitations : (Made(j)' <=> Made(j)) /\ (j # i => invitations'[j] = invitations[j])
    BY <2>1, <2>2, MarkedStays
  <2>6. AcceptedIsConsented'
    BY <1>0, <2>1, <2>2, <2>4, <2>5
  <2>7. Ends(r) \/ (Step(r, "join") /\ MarkAutoAccepted(r)) \/ (Step(r, "find") /\ AcceptMark(r))
    BY <1>6 DEF MarkAutoAccepted, Lapse, AcceptMark, Write
  <2>8. TrustingIsConsented'
    <3>1. \A q \in Requests \ {r} : request'[q] = request[q]
      BY <2>1, <2>7, StepHolds, EndsHolds
    <3>2. request'[r] \in Holding => request'[r].of = i /\ Bond(i) \in consents'
      BY <2>1, <2>4, <2>7, StepHolds, EndsHolds, IdleHoldsNothing
    <3>3. ASSUME NEW q \in Requests, NEW j \in Invitations,
                 request'[q] \in Holding, request'[q].of = j, request'[q].at \in Trusting
          PROVE  Bond(j)' \in consents'
      <4>1. CASE q = r
        BY <1>0, <2>1, <3>2, <3>3, <4>1
      <4>2. CASE q # r
        BY <1>0, <3>1, <3>3, <4>2 DEF TrustInv, HoldersAim
      <4> QED BY <4>1, <4>2
    <3> QED BY <3>3 DEF Trusting
  <2> QED BY <1>0, <2>3, <2>6, <2>8
<1>7. ASSUME NEW r \in Requests, JoinAutoAccepted(r) \/ AcceptEnter(r) PROVE ConsentInv'
  <2> DEFINE i == request[r].of
  <2>1. request[r] \in Holding /\ i \in Invitations /\ Made(i)
    BY <1>7, Holds DEF JoinAutoAccepted, AcceptEnter
  <2>2. Seats(i) /\ Ends(r) /\ UNCHANGED <<invitations, consents>>
    BY <1>7 DEF JoinAutoAccepted, AcceptEnter
  <2>3. Bond(i) \in consents
    BY <1>7, <2>1 DEF JoinAutoAccepted, AcceptEnter, Trusting
  <2>4. AcceptedIsConsented' /\ TrustingIsConsented'
    BY <2>2, EndsHolds, IdleHoldsNothing DEF Made, Bond, By
  <2>5. SeatedIsConsented'
    BY <2>1, <2>2, <2>3, SeatsCounted DEF Seat, Bond, By
  <2> QED BY <2>4, <2>5
<1>8. ASSUME (\E k \in Conversations : Converse(k)) \/ (\E i \in Invitations : TimePasses(i))
             \/ UNCHANGED trustVars
      PROVE  ConsentInv'
  BY <1>1, <1>8 DEF Converse, createConversation, AddOwner, TimePasses, trustVars
<1> QED BY <1>2, <1>3, <1>4, <1>5, <1>6, <1>7, <1>8 DEF TrustNext, Serve

\* Nobody is in a conversation of an agent without a first acceptance in person,
\* whatever is created, accepted, withdrawn and revoked at the same time, and whichever
\* requests die.
THEOREM ConsentCorrect == TrustConstants /\ TrustSpec => []SeatsAreConsented
<1>1. TrustInit => ConsentInv
  BY IdleHoldsNothing DEF TrustInit, ConsentInv, AcceptedIsConsented, TrustingIsConsented,
     SeatedIsConsented, Made
<1>2. ConsentInv => SeatsAreConsented
  BY DEF ConsentInv, SeatedIsConsented, SeatsAreConsented, listHumanConversations
<1>3. (TrustConstants /\ TrustInv /\ ConsentInv) /\ [TrustNext]_trustVars
      => (TrustConstants /\ TrustInv /\ ConsentInv)'
  BY TrustStep, ConsentStep, ConstantsStay
<1> QED BY <1>1, <1>2, <1>3, TrustInitially, PTL DEF TrustSpec

--------------------------------------------------------------------------------
(* What a request takes up *)

\* A step of one request leaves the others where they are, and a request comes to hold
\* an invitation only by making it or by finding it pending; it comes to writing an
\* acceptance on trust only from the step before.
LEMMA Moves ==
  ASSUME TrustConstants, TrustInv, [TrustNext]_trustVars, NEW q \in Requests
  PROVE  \/ request'[q] = request[q]
         \/ /\ request'[q] \notin Holding
            /\ request'[q].at \notin {"mark", "join"}
         \/ /\ request[q] \notin Holding
            /\ request'[q].at \notin {"mark", "join", "find", "enter"}
            /\ ~Made(request'[q].of) \/ Pending(request'[q].of)
         \/ /\ request[q] \in Holding /\ request'[q] \in Holding
            /\ request'[q].of = request[q].of
            /\ \/ request'[q].at \notin {"mark", "join"}
               \/ request'[q].at = "mark" /\ FindRevocation(q)
               \/ request'[q].at = "join" /\ request[q].at = "mark"
<1>0. request \in [Requests -> Creating \cup Holding \cup Untrusting \cup {Idle}]
  BY DEF TrustInv, TrustTypeOK
<1>1. ASSUME NEW r \in Requests, NEW c, Goes(r, c), q # r PROVE request'[q] = request[q]
  BY <1>0, <1>1 DEF Goes
<1>2. ASSUME NEW r \in Requests, NEW c, Goes(r, c) PROVE request'[r] = c
  BY <1>0, <1>2 DEF Goes
<1>3. ASSUME NEW r \in Requests, Ends(r), q = r
      PROVE  request'[q] \notin Holding /\ request'[q].at \notin {"mark", "join"}
  BY <1>3, EndsHolds, IdleHoldsNothing
<1>4. ASSUME NEW r \in Requests, request[r] = Idle,
             Invite(r) \/ Withdraw(r) \/ Card(r) \/ TrustPage(r)
      PROVE  \E c : /\ Goes(r, c) /\ c.at \notin {"mark", "join", "find", "enter"}
                    /\ c \in Holding => Pending(c.of)
  <2>1. CASE Invite(r)
    BY <2>1 DEF Invite, CreateCheck, Holding
  <2>2. CASE Withdraw(r)
    BY <2>2 DEF Withdraw, RevokeRead
  <2>3. CASE Card(r)
    BY <2>3 DEF Card, AcceptRead, DeclineRead
  <2>4. CASE TrustPage(r)
    BY <2>4 DEF TrustPage, UntrustRead, Holding
  <2> QED BY <1>4, <2>1, <2>2, <2>3, <2>4
<1>5. ASSUME NEW r \in Requests, Invite(r) \/ Withdraw(r) \/ Card(r) \/ TrustPage(r)
      PROVE  request[r] = Idle
  BY <1>5 DEF Invite, Withdraw, Card, TrustPage, CreateCheck, RevokeRead, AcceptRead, DeclineRead,
              UntrustRead
<1>6. CASE \E r \in Requests : Invite(r) \/ Withdraw(r) \/ Card(r) \/ TrustPage(r)
  BY <1>1, <1>2, <1>4, <1>5, <1>6, IdleHoldsNothing
<1>7. CASE \E r \in Requests : CreateInsert(r)
  <2>1. PICK r \in Requests, i \in Invitations :
          request[r].at = "insert" /\ ~Made(i) /\ Goes(r, [at |-> "inserted", of |-> i])
    BY <1>7 DEF CreateInsert
  <2>2. request[r] \notin Holding
    BY <2>1 DEF Holding
  <2> QED BY <1>1, <1>2, <2>1, <2>2
<1>8. CASE \E r \in Requests : \/ Lapse(r) \/ JoinAutoAccepted(r) \/ AcceptEnter(r) \/ Write(r)
                               \/ UntrustWrite(r) \/ Crash(r)
  <2>1. PICK r \in Requests : Ends(r)
    BY <1>8 DEF Lapse, JoinAutoAccepted, AcceptEnter, Write, UntrustWrite, Crash
  <2> QED BY <1>1, <1>3, <2>1 DEF Ends
<1>9. ASSUME NEW r \in Requests,
             FindTrust(r) \/ FindRevocation(r) \/ MarkAutoAccepted(r) \/ AcceptMark(r) \/ AcceptFind(r)
      PROVE  \/ request'[q] = request[q]
             \/ /\ request'[q] \notin Holding
                /\ request'[q].at \notin {"mark", "join"}
             \/ /\ request[q] \in Holding /\ request'[q] \in Holding
                /\ request'[q].of = request[q].of
                /\ \/ request'[q].at \notin {"mark", "join"}
                   \/ request'[q].at = "mark" /\ FindRevocation(q)
                   \/ request'[q].at = "join" /\ request[q].at = "mark"
  <2>1. request[r] \in Holding
    BY <1>9, Holds DEF FindTrust, FindRevocation, MarkAutoAccepted, AcceptMark, AcceptFind
  <2>2. \/ Ends(r) \/ Step(r, "trusted") \/ Step(r, "find") \/ Step(r, "enter")
        \/ Step(r, "mark") /\ FindRevocation(r)
        \/ Step(r, "join") /\ request[r].at = "mark"
    BY <1>9 DEF FindTrust, FindRevocation, MarkAutoAccepted, AcceptMark, AcceptFind
  <2>3. CASE Ends(r)
    BY <1>3, <2>3, EndsHolds
  <2>4. CASE Step(r, "trusted") \/ Step(r, "find") \/ Step(r, "enter")
    BY <2>1, <2>4, StepHolds
  <2>5. CASE Step(r, "mark") /\ FindRevocation(r)
    BY <2>1, <2>5, StepHolds
  <2>6. CASE Step(r, "join") /\ request[r].at = "mark"
    BY <2>1, <2>6, StepHolds
  <2> QED BY <2>2, <2>3, <2>4, <2>5, <2>6
<1>10. CASE \/ \E k \in Conversations : Converse(k)
            \/ \E i \in Invitations : TimePasses(i)
            \/ UNCHANGED trustVars
  BY <1>10 DEF Converse, createConversation, AddOwner, TimePasses, trustVars
<1> QED BY <1>6, <1>7, <1>8, <1>9, <1>10 DEF TrustNext, Serve

\* Only a request that holds an invitation writes to it.
LEMMA OnlyHoldersWrite ==
  ASSUME TrustConstants, TrustInv, [TrustNext]_trustVars, NEW i \in Invitations, Made(i), On(i) = {}
  PROVE  invitations'[i] = invitations[i]
<1>1. \A r \in Requests : request[r] \in Holding => request[r].of # i
  BY DEF On
<1>2. CASE \E r \in Requests : CreateInsert(r)
  BY <1>2 DEF CreateInsert, TrustInv, TrustTypeOK
<1>3. CASE \E r \in Requests : MarkAutoAccepted(r) \/ Lapse(r) \/ AcceptMark(r) \/ Write(r)
  <2>1. PICK r \in Requests : MarkAutoAccepted(r) \/ Lapse(r) \/ AcceptMark(r) \/ Write(r)
    BY <1>3
  <2>2. request[r] \in Holding /\ request[r].of \in Invitations /\ Made(request[r].of)
    BY <2>1, Holds DEF MarkAutoAccepted, Lapse, AcceptMark, Write
  <2>3. \E s \in {"accepted", "declined", "expired", "revoked"} : Puts(request[r].of, s)
    BY <2>1 DEF MarkAutoAccepted, Lapse, AcceptMark, Write
  <2> QED BY <1>1, <2>2, <2>3, MarkedStays
<1>4. CASE \E r \in Requests :
             \/ Invite(r) \/ Withdraw(r) \/ Card(r) \/ TrustPage(r)
             \/ FindTrust(r) \/ FindRevocation(r) \/ AcceptFind(r)
             \/ JoinAutoAccepted(r) \/ AcceptEnter(r) \/ UntrustWrite(r) \/ Crash(r)
  BY <1>4 DEF Invite, Withdraw, Card, TrustPage, CreateCheck, RevokeRead, AcceptRead, DeclineRead,
              UntrustRead, FindTrust, FindRevocation, AcceptFind, JoinAutoAccepted, AcceptEnter,
              UntrustWrite, Crash
<1>5. CASE \/ \E k \in Conversations : Converse(k)
           \/ \E j \in Invitations : TimePasses(j)
           \/ UNCHANGED trustVars
  BY <1>5 DEF Converse, createConversation, AddOwner, TimePasses, trustVars
<1> QED BY <1>2, <1>3, <1>4, <1>5 DEF TrustNext, Serve

--------------------------------------------------------------------------------
(* Verdicts *)

LEMMA DecidedStep ==
  ASSUME TrustConstants, TrustInv, [TrustNext]_trustVars, NEW i \in Invitations, Verdict(i)
  PROVE  Verdict(i)' /\ invitations'[i] = invitations[i]
<1>1. Made(i) /\ ~Pending(i) /\ On(i) = {}
  BY DEF Verdict
<1>2. invitations'[i] = invitations[i]
  BY <1>1, OnlyHoldersWrite
<1>3. ASSUME NEW q \in Requests, request'[q] \in Holding, request'[q].of = i PROVE FALSE
  BY <1>1, <1>3, Moves DEF On
<1>4. On(i)' = {}
  BY <1>3 DEF On
<1> QED BY <1>1, <1>2, <1>4 DEF Verdict, Made, Pending

\* A verdict stands, whoever writes it, once the requests that read the invitation as
\* pending are over: no request takes a decided invitation up again.
THEOREM VerdictsStand == TrustConstants /\ TrustSpec => DecidedStays
<1>1. (TrustConstants /\ TrustInv) /\ [TrustNext]_trustVars => (TrustConstants /\ TrustInv)'
  BY TrustStep, ConstantsStay
<1>2. (TrustConstants /\ TrustInv) /\ [TrustNext]_trustVars
      => [\A i \in Invitations :
            Verdict(i) => Verdict(i)' /\ invitations'[i] = invitations[i]]_trustVars
  BY DecidedStep
<1> QED BY <1>1, <1>2, TrustInitially, PTL DEF TrustSpec, DecidedStays

--------------------------------------------------------------------------------
(* Revocations *)

LEMMA UntrustedStep ==
  ASSUME TrustConstants, TrustInv, [TrustNext]_trustVars, NEW a \in Agents, NEW h \in Humans,
         Untrusted(a, h)
  PROVE  Untrusted(a, h)'
<1>1. <<a, h>> \in revocations'
  BY Grows DEF Untrusted
<1>2. ASSUME NEW q \in Requests, request'[q].at \in {"mark", "join"}, NEW i, request'[q].of = i
      PROVE  Bond(i)' # <<a, h>>
  <2>1. TrustInv' BY TrustStep
  <2>2. request'[q] \in Holding /\ i \in Invitations
    BY <1>2, <2>1 DEF TrustInv, TrustTypeOK, Creating, Holding, Untrusting, Idle
  <2>3. CASE request'[q] = request[q]
    <3>1. Made(i) /\ Bond(i) # <<a, h>>
      BY <1>2, <2>2, <2>3 DEF Untrusted, TrustInv, HoldersAim
    <3> QED BY <2>2, <3>1, Grows
  <2>4. CASE request[q] \in Holding /\ request'[q].of = request[q].of
    <3>1. Made(i)
      BY <1>2, <2>4 DEF TrustInv, HoldersAim
    <3>2. CASE request'[q].at = "mark" /\ FindRevocation(q)
      <4>1. Bond(i) \notin revocations
        BY <1>2, <2>2, <2>4, <3>2, EndsHolds, IdleHoldsNothing DEF FindRevocation
      <4> QED BY <2>2, <3>1, <4>1, Grows DEF Untrusted
    <3>3. CASE request[q].at = "mark"
      BY <1>2, <2>2, <2>4, <3>1, <3>3, Grows DEF Untrusted
    <3> QED BY <1>2, <2>2, <2>3, <3>2, <3>3, Moves
  <2> QED BY <1>2, <2>2, <2>3, <2>4, Moves
<1> QED BY <1>1, <1>2 DEF Untrusted

\* A revocation holds: once it is stored and the creations that had passed the look at
\* it are over, no invitation of that agent to that human is accepted on trust again.
THEOREM RevocationsHold == TrustConstants /\ TrustSpec => RevocationHolds
<1>1. (TrustConstants /\ TrustInv) /\ [TrustNext]_trustVars => (TrustConstants /\ TrustInv)'
  BY TrustStep, ConstantsStay
<1>2. (TrustConstants /\ TrustInv) /\ [TrustNext]_trustVars
      => [\A a \in Agents, h \in Humans : Untrusted(a, h) => Untrusted(a, h)']_trustVars
  BY UntrustedStep
<1> QED BY <1>1, <1>2, TrustInitially, PTL DEF TrustSpec, RevocationHolds

--------------------------------------------------------------------------------
(* Acceptances and rows *)

Seating(r, i) ==
  request[r] \in Holding /\ request[r].of = i /\ request[r].at \in {"find", "enter", "join"}

\* An accepted invitation has its row, or a request on its way to write it, or had one
\* that died.
SeatInv ==
  \A i \in Invitations :
    Made(i) /\ invitations[i].status = "accepted" /\ i \notin cut =>
      participants[Seat(i)] > 0 \/ \E r \in Requests : Seating(r, i)

LEMMA SeatStep ==
  TrustConstants /\ TrustInv /\ SeatInv /\ [TrustNext]_trustVars => SeatInv'
<1> SUFFICES ASSUME TrustConstants, TrustInv, SeatInv, [TrustNext]_trustVars,
                    NEW i \in Invitations,
                    Made(i)', invitations'[i].status = "accepted", i \notin cut'
             PROVE  participants'[Seat(i)'] > 0 \/ \E r \in Requests : Seating(r, i)'
  BY DEF SeatInv
<1>0. /\ cut \subseteq cut'
      /\ \A s \in Conversations \X Humans : participants'[s] >= participants[s]
      /\ Made(i) => Seat(i)' = Seat(i) /\ Seat(i) \in Conversations \X Humans
      /\ participants \in [Conversations \X Humans -> Nat]
      /\ participants' \in [Conversations \X Humans -> Nat]
  BY Grows, TrustStep DEF TrustInv, TrustTypeOK, Made, Seat, Invitation
\* It was accepted before, and whoever was seating it still is.
<1>1. ASSUME invitations'[i] = invitations[i],
             \A r \in Requests : Seating(r, i) => Seating(r, i)'
      PROVE  participants'[Seat(i)'] > 0 \/ \E r \in Requests : Seating(r, i)'
  <2>1. Made(i) /\ invitations[i].status = "accepted" /\ i \notin cut
    BY <1>0, <1>1 DEF Made
  <2>2. participants[Seat(i)] > 0 \/ \E r \in Requests : Seating(r, i)
    BY <2>1 DEF SeatInv
  <2>3. CASE participants[Seat(i)] > 0
    <3>1. Seat(i)' = Seat(i) /\ participants'[Seat(i)] >= participants[Seat(i)]
      BY <1>0, <2>1
    <3> QED BY <1>0, <2>1, <2>3, <3>1
  <2> QED BY <1>1, <2>2, <2>3
<1>2. ASSUME NEW r \in Requests,
             Invite(r) \/ Withdraw(r) \/ Card(r) \/ TrustPage(r) \/ UntrustWrite(r)
      PROVE  participants'[Seat(i)'] > 0 \/ \E q \in Requests : Seating(q, i)'
  <2>1. invitations' = invitations
    BY <1>2 DEF Invite, Withdraw, Card, TrustPage, CreateCheck, RevokeRead, AcceptRead, DeclineRead,
                UntrustRead, UntrustWrite
  <2>2. \E c : Goes(r, c)
    BY <1>2 DEF Invite, Withdraw, Card, TrustPage, CreateCheck, RevokeRead, AcceptRead, DeclineRead,
                UntrustRead, UntrustWrite, Ends
  <2>3. request[r] = Idle \/ request[r].at = "untrust"
    BY <1>2 DEF Invite, Withdraw, Card, TrustPage, CreateCheck, RevokeRead, AcceptRead, DeclineRead,
                UntrustRead, UntrustWrite
  <2>4. \A q \in Requests \ {r} : request'[q] = request[q]
    BY <2>2 DEF Goes, TrustInv, TrustTypeOK
  <2> QED BY <1>1, <2>1, <2>3, <2>4, IdleHoldsNothing DEF Seating
<1>3. ASSUME NEW r \in Requests, CreateInsert(r)
      PROVE  participants'[Seat(i)'] > 0 \/ \E q \in Requests : Seating(q, i)'
  <2>1. PICK j \in Invitations :
          /\ ~Made(j) /\ request[r].at = "insert"
          /\ invitations' = [invitations EXCEPT ![j] =
               [status |-> "pending", in |-> request[r].in, to |-> request[r].to,
                exact |-> request[r].exact]]
          /\ Goes(r, [at |-> "inserted", of |-> j])
    BY <1>3 DEF CreateInsert
  <2>2. invitations'[i] = invitations[i]
    BY <2>1 DEF TrustInv, TrustTypeOK
  <2>3. \A q \in Requests \ {r} : request'[q] = request[q]
    BY <2>1 DEF Goes, TrustInv, TrustTypeOK
  <2> QED BY <1>1, <2>1, <2>2, <2>3 DEF Seating
<1>4. ASSUME NEW r \in Requests, FindTrust(r) \/ FindRevocation(r)
      PROVE  participants'[Seat(i)'] > 0 \/ \E q \in Requests : Seating(q, i)'
  <2>1. invitations' = invitations /\ request[r].at \in {"inserted", "trusted"}
    BY <1>4 DEF FindTrust, FindRevocation
  <2>2. Ends(r) \/ Step(r, "trusted") \/ Step(r, "mark")
    BY <1>4 DEF FindTrust, FindRevocation
  <2>3. \A q \in Requests \ {r} : request'[q] = request[q]
    BY <2>2 DEF Ends, Step, Goes, TrustInv, TrustTypeOK
  <2> QED BY <1>1, <2>1, <2>3 DEF Seating
<1>5. ASSUME NEW r \in Requests,
             MarkAutoAccepted(r) \/ AcceptMark(r) \/ Lapse(r) \/ Write(r)
      PROVE  participants'[Seat(i)'] > 0 \/ \E q \in Requests : Seating(q, i)'
  <2> DEFINE j == request[r].of
  <2>1. request[r] \in Holding /\ j \in Invitations /\ Made(j)
        /\ request[r].at \notin {"find", "enter", "join"}
    BY <1>5, Holds DEF MarkAutoAccepted, AcceptMark, Lapse, Write
  <2>2. PICK s \in {"accepted", "declined", "expired", "revoked"} :
          Puts(j, s) /\ (s = "accepted" => MarkAutoAccepted(r) \/ AcceptMark(r))
    BY <1>5 DEF MarkAutoAccepted, AcceptMark, Lapse, Write
  <2>3. /\ invitations'[j].status = s
        /\ i # j => invitations'[i] = invitations[i]
    BY <2>1, <2>2, MarkedStays
  <2>4. CASE i = j
    <3>1. MarkAutoAccepted(r) \/ AcceptMark(r)
      BY <2>2, <2>3, <2>4
    <3>2. Step(r, "join") \/ Step(r, "find")
      BY <3>1 DEF MarkAutoAccepted, AcceptMark
    <3>3. Seating(r, i)'
      BY <2>1, <2>4, <3>2, StepHolds DEF Seating
    <3> QED BY <3>3
  <2>5. CASE i # j
    <3>1. \E c : Goes(r, c)
      BY <1>5 DEF MarkAutoAccepted, AcceptMark, Lapse, Write, Ends, Step
    <3>2. \A q \in Requests \ {r} : request'[q] = request[q]
      BY <3>1 DEF Goes, TrustInv, TrustTypeOK
    <3> QED BY <1>1, <2>1, <2>3, <2>5, <3>2 DEF Seating
  <2> QED BY <2>4, <2>5
<1>6. ASSUME NEW r \in Requests, AcceptFind(r)
      PROVE  participants'[Seat(i)'] > 0 \/ \E q \in Requests : Seating(q, i)'
  <2>1. invitations' = invitations /\ request[r] \in Holding
    BY <1>6, Holds DEF AcceptFind
  <2>2. CASE Step(r, "enter")
    BY <1>1, <2>1, <2>2, StepHolds DEF Seating
  <2>3. CASE Ends(r) /\ participants[Seat(request[r].of)] > 0
    <3>1. \A q \in Requests \ {r} : request'[q] = request[q]
      BY <2>3, EndsHolds
    <3>2. CASE request[r].of = i
      <4>1. Made(i)
        BY <2>1, <3>2 DEF TrustInv, HoldersAim
      <4>2. Seat(i)' = Seat(i) /\ participants'[Seat(i)] >= participants[Seat(i)]
        BY <1>0, <4>1
      <4> QED BY <1>0, <2>3, <3>2, <4>1, <4>2
    <3>3. CASE request[r].of # i
      BY <1>1, <2>1, <3>1, <3>3 DEF Seating
    <3> QED BY <3>2, <3>3
  <2> QED BY <1>6, <2>2, <2>3 DEF AcceptFind
<1>7. ASSUME NEW r \in Requests, JoinAutoAccepted(r) \/ AcceptEnter(r)
      PROVE  participants'[Seat(i)'] > 0 \/ \E q \in Requests : Seating(q, i)'
  <2> DEFINE j == request[r].of
  <2>1. j \in Invitations /\ Made(j)
    BY <1>7, Holds DEF JoinAutoAccepted, AcceptEnter
  <2>2. Seats(j) /\ Ends(r) /\ invitations' = invitations
    BY <1>7 DEF JoinAutoAccepted, AcceptEnter
  <2>3. CASE i = j
    BY <1>0, <2>1, <2>2, <2>3, SeatsCounted
  <2>4. CASE i # j
    <3>1. \A q \in Requests \ {r} : request'[q] = request[q]
      BY <2>2, EndsHolds
    <3> QED BY <1>1, <2>2, <2>4, <3>1 DEF Seating
  <2> QED BY <2>3, <2>4
<1>8. ASSUME NEW r \in Requests, Crash(r)
      PROVE  participants'[Seat(i)'] > 0 \/ \E q \in Requests : Seating(q, i)'
  <2>1. invitations' = invitations /\ Ends(r)
    BY <1>8 DEF Crash
  <2>2. \A q \in Requests \ {r} : request'[q] = request[q]
    BY <2>1, EndsHolds
  <2>3. ~Seating(r, i)
    BY <1>8 DEF Crash, On, Seating
  <2> QED BY <1>1, <2>1, <2>2, <2>3 DEF Seating
<1>9. ASSUME \/ \E k \in Conversations : Converse(k)
             \/ \E j \in Invitations : TimePasses(j)
             \/ UNCHANGED trustVars
      PROVE  participants'[Seat(i)'] > 0 \/ \E q \in Requests : Seating(q, i)'
  <2>1. UNCHANGED <<invitations, request>>
    BY <1>9 DEF Converse, createConversation, AddOwner, TimePasses, trustVars
  <2> QED BY <1>1, <2>1 DEF Seating
<1> QED BY <1>2, <1>3, <1>4, <1>5, <1>6, <1>7, <1>8, <1>9 DEF TrustNext, Serve

\* Whoever is told that an invitation is accepted finds the human in the conversation,
\* unless the request that accepted it is still to write the row or died before it did.
THEOREM AcceptanceSeats == TrustConstants /\ TrustSpec => []AcceptedIsSeated
<1>1. TrustInit => SeatInv
  BY DEF TrustInit, SeatInv, Made
<1>2. TrustInv /\ SeatInv => AcceptedIsSeated
  <2> SUFFICES ASSUME TrustInv, SeatInv,
                      NEW k \in Conversations, NEW i \in listConversationInvitations(k),
                      invitations[i].status = "accepted", i \notin cut,
                      \A r \in On(i) : request[r].at \notin {"find", "enter", "join"}
               PROVE  k \in listHumanConversations(invitations[i].to)
    BY DEF AcceptedIsSeated
  <2>1. i \in Invitations /\ Made(i) /\ invitations[i].in = k
    BY DEF listConversationInvitations
  <2>2. participants[Seat(i)] > 0
    BY <2>1 DEF SeatInv, Seating, On
  <2> QED BY <2>1, <2>2 DEF Seat, listHumanConversations
<1>3. (TrustConstants /\ TrustInv /\ SeatInv) /\ [TrustNext]_trustVars
      => (TrustConstants /\ TrustInv /\ SeatInv)'
  BY TrustStep, SeatStep, ConstantsStay
<1> QED BY <1>1, <1>2, <1>3, TrustInitially, PTL DEF TrustSpec
================================================================================
