---------------------------------- MODULE Trust --------------------------------
(***************************************************************************)
(* Invitations into conversations and the trust they leave behind          *)
(* (services/invitation.service.ts, routes/human/trusted-agents.ts): a     *)
(* human who has accepted one invitation of an agent is put into its later *)
(* conversations without being asked, until the human revokes that.        *)
(*                                                                         *)
(* Every operation is a sequence of statements of its own, so requests     *)
(* interleave between them and may die there.  The query a conversation    *)
(* may hold, which an acceptance assigns and an answer accepts for, is in  *)
(* HumanQuery.  The email of an invitation carries no token and changes    *)
(* nothing: it says where the list is.                                     *)
(***************************************************************************)
EXTENDS Naturals, FiniteSets

CONSTANTS
  Agents, Humans,
  Addresses,    \* how agents write addresses: the human and whether that is how its row has it
  Conversations,
  Creator,      \* the agent that creates each conversation
  Invitations,
  Requests      \* requests being served at the same time

TrustConstants ==
  /\ Creator \in [Conversations -> Agents]
  /\ Addresses \subseteq Humans \X BOOLEAN

VARIABLES
  conversations,  \* how far each conversation has been created
  invitations,
  late,           \* pending invitations past their deadline
  participants,   \* how many rows of each human each conversation has
  revocations,    \* pairs of agent_trust_revocations
  request,        \* where each request is
  cut,            \* invitations whose acceptance a request has died over
  consents        \* pairs of an agent and a human who has accepted it in person

trustVars == <<conversations, invitations, late, participants, revocations, request, cut, consents>>

--------------------------------------------------------------------------------
Absent == [status |-> "absent"]

\* An invitation is stored under the address as the agent wrote it; "exact" says
\* whether that is how the human's own row has it.
Invitation == [status : {"pending", "accepted", "declined", "expired", "revoked"},
               in : Conversations, to : Humans, exact : BOOLEAN]

Idle == [at |-> "idle"]

Creating == [at : {"insert"}, in : Conversations, to : Humans, exact : BOOLEAN]
Holding  == [at : {"inserted", "trusted", "mark", "join", "lapse", "accept", "find",
                   "enter", "decline", "withdraw"}, of : Invitations]
Untrusting == [at : {"untrust"}, agent : Agents, human : Humans]

TrustTypeOK ==
  /\ conversations \in [Conversations -> {"none", "created", "owned"}]
  /\ invitations \in [Invitations -> Invitation \cup {Absent}]
  /\ late \in SUBSET Invitations
  /\ participants \in [Conversations \X Humans -> Nat]
  /\ revocations \in SUBSET (Agents \X Humans)
  /\ request \in [Requests -> Creating \cup Holding \cup Untrusting \cup {Idle}]
  /\ cut \in SUBSET Invitations
  /\ consents \in SUBSET (Agents \X Humans)

TrustInit ==
  /\ conversations = [k \in Conversations |-> "none"]
  /\ invitations = [i \in Invitations |-> Absent]
  /\ late = {}
  /\ participants = [s \in Conversations \X Humans |-> 0]
  /\ revocations = {}
  /\ request = [r \in Requests |-> Idle]
  /\ cut = {}
  /\ consents = {}

Made(i)  == invitations[i] # Absent
By(i)    == Creator[invitations[i].in]
Seat(i)  == <<invitations[i].in, invitations[i].to>>
Bond(i)  == <<By(i), invitations[i].to>>

Goes(r, to) == request' = [request EXCEPT ![r] = to]
Step(r, at) == Goes(r, [request[r] EXCEPT !.at = at])
Ends(r)     == Goes(r, Idle)
\* The requests that hold what they have read of an invitation.
On(i)       == {r \in Requests : request[r] \in Holding /\ request[r].of = i}
Puts(i, s)  == invitations' = [invitations EXCEPT ![i].status = s] /\ late' = late \ {i}
Seats(i)    == participants' = [participants EXCEPT ![Seat(i)] = @ + 1]

--------------------------------------------------------------------------------
(* A conversation and its owner are two statements: a crash in between leaves a  *)
(* conversation nobody may invite to.                                            *)
createConversation(k) ==
  /\ conversations[k] = "none"
  /\ conversations' = [conversations EXCEPT ![k] = "created"]
  /\ UNCHANGED <<invitations, late, participants, revocations, request, cut, consents>>

AddOwner(k) ==
  /\ conversations[k] = "created"
  /\ conversations' = [conversations EXCEPT ![k] = "owned"]
  /\ UNCHANGED <<invitations, late, participants, revocations, request, cut, consents>>

Converse(k) == createConversation(k) \/ AddOwner(k)

\* What the agent of a conversation is shown of it.
listConversationInvitations(k) == {i \in Invitations : Made(i) /\ invitations[i].in = k}

\* The conversations a human is shown.
listHumanConversations(h) == {k \in Conversations : participants[k, h] > 0}

--------------------------------------------------------------------------------
(* Creating an invitation *)

Awaiting(k, h, exact) ==
  \E i \in Invitations : invitations[i] = [status |-> "pending", in |-> k, to |-> h, exact |-> exact]

\* The agent has to be a participant, and only a pending invitation is in the way.
CreateCheck(r, k, h, exact) ==
  /\ request[r] = Idle
  /\ conversations[k] = "owned" /\ ~Awaiting(k, h, exact)
  /\ Goes(r, [at |-> "insert", in |-> k, to |-> h, exact |-> exact])
  /\ UNCHANGED <<conversations, invitations, late, participants, revocations, cut, consents>>

CreateInsert(r) ==
  /\ request[r].at = "insert"
  /\ \E i \in Invitations :
       /\ ~Made(i)
       /\ invitations' = [invitations EXCEPT ![i] =
            [status |-> "pending", in |-> request[r].in, to |-> request[r].to, exact |-> request[r].exact]]
       /\ Goes(r, [at |-> "inserted", of |-> i])
  /\ UNCHANGED <<conversations, late, participants, revocations, cut, consents>>

\* Mutant: any earlier invitation will do, whatever was decided about it.
FindTrustAny(r) ==
  /\ request[r].at = "inserted"
  /\ LET i == request[r].of
         prior == \E j \in Invitations \ {i} :
                    Made(j) /\ Bond(j) = Bond(i) /\ invitations[i].exact /\ invitations[j].exact
     IN IF prior THEN Step(r, "trusted") ELSE Ends(r)
  /\ UNCHANGED <<conversations, invitations, late, participants, revocations, cut, consents>>

\* tryAutoAccept looks for the human's row and for an accepted invitation, both under
\* the address as it is written.
FindTrust(r) ==
  /\ request[r].at = "inserted"
  /\ LET i == request[r].of
         prior == \E j \in Invitations :
                    /\ Made(j) /\ invitations[j].status = "accepted" /\ Bond(j) = Bond(i)
                    /\ invitations[i].exact /\ invitations[j].exact
     IN IF prior THEN Step(r, "trusted") ELSE Ends(r)
  /\ UNCHANGED <<conversations, invitations, late, participants, revocations, cut, consents>>

\* Mutant: the revocation is looked for under the agent alone.
FindRevocationOfAll(r) ==
  /\ request[r].at = "trusted"
  /\ IF \A h \in Humans : <<By(request[r].of), h>> \in revocations
     THEN Ends(r) ELSE Step(r, "mark")
  /\ UNCHANGED <<conversations, invitations, late, participants, revocations, cut, consents>>

FindRevocation(r) ==
  /\ request[r].at = "trusted"
  /\ IF Bond(request[r].of) \in revocations THEN Ends(r) ELSE Step(r, "mark")
  /\ UNCHANGED <<conversations, invitations, late, participants, revocations, cut, consents>>

\* The new invitation is accepted whatever has become of it, and a row is inserted
\* whether there is one or not.
MarkAutoAccepted(r) ==
  /\ request[r].at = "mark"
  /\ Puts(request[r].of, "accepted")
  /\ Step(r, "join")
  /\ UNCHANGED <<conversations, participants, revocations, cut, consents>>

JoinAutoAccepted(r) ==
  /\ request[r].at = "join"
  /\ Seats(request[r].of)
  /\ Ends(r)
  /\ UNCHANGED <<conversations, invitations, late, revocations, cut, consents>>

--------------------------------------------------------------------------------
(* The human's verdict, and the agent's *)

Pending(i) == Made(i) /\ invitations[i].status = "pending"

\* The invitations a human is shown: those under the address of the human's own row.
listHumanInvitations(h) ==
  {i \in Invitations : Pending(i) /\ invitations[i].to = h /\ invitations[i].exact}

\* Mutant: the token is enough, whatever has been decided before.
AcceptReadAgain(r, i, h) ==
  /\ request[r] = Idle /\ Made(i)
  /\ \/ i \in late /\ Goes(r, [at |-> "lapse", of |-> i])
     \/ i \notin late /\ invitations[i].to = h /\ Goes(r, [at |-> "accept", of |-> i])
  /\ UNCHANGED <<conversations, invitations, late, participants, revocations, cut, consents>>

\* Anyone with the token gets this far; only the human it is addressed to gets further.
AcceptRead(r, i, h) ==
  /\ request[r] = Idle /\ Pending(i)
  /\ \/ i \in late /\ Goes(r, [at |-> "lapse", of |-> i])
     \/ i \notin late /\ invitations[i].to = h /\ Goes(r, [at |-> "accept", of |-> i])
  /\ UNCHANGED <<conversations, invitations, late, participants, revocations, cut, consents>>

Lapse(r) ==
  /\ request[r].at = "lapse"
  /\ Puts(request[r].of, "expired")
  /\ Ends(r)
  /\ UNCHANGED <<conversations, participants, revocations, cut, consents>>

AcceptMark(r) ==
  /\ request[r].at = "accept"
  /\ Puts(request[r].of, "accepted")
  /\ consents' = consents \cup {Bond(request[r].of)}
  /\ Step(r, "find")
  /\ UNCHANGED <<conversations, participants, revocations, cut>>

\* Mutant: any row of the conversation will do.
AcceptFindAny(r) ==
  /\ request[r].at = "find"
  /\ IF \E h \in Humans : participants[invitations[request[r].of].in, h] > 0
     THEN Ends(r) ELSE Step(r, "enter")
  /\ UNCHANGED <<conversations, invitations, late, participants, revocations, cut, consents>>

AcceptFind(r) ==
  /\ request[r].at = "find"
  /\ IF participants[Seat(request[r].of)] > 0 THEN Ends(r) ELSE Step(r, "enter")
  /\ UNCHANGED <<conversations, invitations, late, participants, revocations, cut, consents>>

AcceptEnter(r) ==
  /\ request[r].at = "enter"
  /\ Seats(request[r].of)
  /\ Ends(r)
  /\ UNCHANGED <<conversations, invitations, late, revocations, cut, consents>>

\* A verdict is read as pending and written by identifier: the last one stands.
DeclineRead(r, i, h) ==
  /\ request[r] = Idle /\ Pending(i) /\ invitations[i].to = h
  /\ Goes(r, [at |-> "decline", of |-> i])
  /\ UNCHANGED <<conversations, invitations, late, participants, revocations, cut, consents>>

RevokeRead(r, i) ==
  /\ request[r] = Idle /\ Pending(i)
  /\ Goes(r, [at |-> "withdraw", of |-> i])
  /\ UNCHANGED <<conversations, invitations, late, participants, revocations, cut, consents>>

Write(r) ==
  /\ \/ request[r].at = "decline" /\ Puts(request[r].of, "declined")
     \/ request[r].at = "withdraw" /\ Puts(request[r].of, "revoked")
  /\ Ends(r)
  /\ UNCHANGED <<conversations, participants, revocations, cut, consents>>

--------------------------------------------------------------------------------
(* Trust *)

Accepted(a, h) ==
  {i \in Invitations : Made(i) /\ invitations[i].status = "accepted" /\ invitations[i].exact
                       /\ Bond(i) = <<a, h>>}

\* The agents a human is shown as trusted.
trustedAgents(h) == {a \in Agents : Accepted(a, h) # {} /\ <<a, h>> \notin revocations}

\* The request asks for an accepted invitation; a second revocation changes nothing.
UntrustRead(r, a, h) ==
  /\ request[r] = Idle /\ Accepted(a, h) # {}
  /\ Goes(r, [at |-> "untrust", agent |-> a, human |-> h])
  /\ UNCHANGED <<conversations, invitations, late, participants, revocations, cut, consents>>

UntrustWrite(r) ==
  /\ request[r].at = "untrust"
  /\ revocations' = revocations \cup {<<request[r].agent, request[r].human>>}
  /\ Ends(r)
  /\ UNCHANGED <<conversations, invitations, late, participants, cut, consents>>

--------------------------------------------------------------------------------
TimePasses(i) ==
  /\ Pending(i) /\ i \notin late
  /\ late' = late \cup {i}
  /\ UNCHANGED <<conversations, invitations, participants, revocations, request, cut, consents>>

\* A request that dies over an acceptance is remembered for the properties.
Crash(r) ==
  /\ request[r] # Idle
  /\ cut' = cut \cup {i \in Invitations : r \in On(i) /\ request[r].at \in {"join", "find", "enter"}}
  /\ Ends(r)
  /\ UNCHANGED <<conversations, invitations, late, participants, revocations, consents>>

\* What a request does after its first statement.
Serve(r) ==
  \/ CreateInsert(r) \/ FindTrust(r) \/ FindRevocation(r)
  \/ MarkAutoAccepted(r) \/ JoinAutoAccepted(r)
  \/ Lapse(r) \/ AcceptMark(r) \/ AcceptFind(r) \/ AcceptEnter(r)
  \/ Write(r) \/ UntrustWrite(r)

\* The agent's two requests, a card of the human's list, and the page of trusted agents.
Invite(r)    == \E k \in Conversations, address \in Addresses : CreateCheck(r, k, address[1], address[2])
Withdraw(r)  == \E i \in Invitations : RevokeRead(r, i)
Card(r)      == \E i \in Invitations, h \in Humans : AcceptRead(r, i, h) \/ DeclineRead(r, i, h)
TrustPage(r) == \E a \in Agents, h \in Humans : UntrustRead(r, a, h)

TrustNext ==
  \/ \E k \in Conversations : Converse(k)
  \/ \E i \in Invitations : TimePasses(i)
  \/ \E r \in Requests :
       Invite(r) \/ Withdraw(r) \/ Card(r) \/ TrustPage(r) \/ Serve(r) \/ Crash(r)

TrustSpec == TrustInit /\ [][TrustNext]_trustVars

--------------------------------------------------------------------------------
(* What invitations promise *)

\* Nobody sits in a conversation of an agent without having accepted an invitation of
\* that agent in person, once: trust is only ever extended from there.
SeatsAreConsented ==
  \A h \in Humans : \A k \in listHumanConversations(h) : <<Creator[k], h>> \in consents

\* Whoever is told that an invitation is accepted finds the human in the conversation:
\* only a request that still has to write the row, or died before, leaves it out.
AcceptedIsSeated ==
  \A k \in Conversations : \A i \in listConversationInvitations(k) :
    /\ invitations[i].status = "accepted" /\ i \notin cut
    /\ \A r \in On(i) : request[r].at \notin {"find", "enter", "join"}
    => k \in listHumanConversations(invitations[i].to)

\* A revocation holds: once it is stored and the creations that had not seen it are
\* over, the agent's invitations are accepted by the human in person or not at all.
Untrusted(a, h) ==
  /\ <<a, h>> \in revocations
  /\ \A r \in Requests : request[r].at \in {"mark", "join"} => Bond(request[r].of) # <<a, h>>

RevocationHolds ==
  [][\A a \in Agents, h \in Humans : Untrusted(a, h) => Untrusted(a, h)']_trustVars

\* A verdict stands once the requests that read the invitation as pending are over:
\* no other takes it up again.
Verdict(i) == Made(i) /\ ~Pending(i) /\ On(i) = {}

DecidedStays ==
  [][\A i \in Invitations :
       Verdict(i) => Verdict(i)' /\ invitations'[i] = invitations[i]]_trustVars

--------------------------------------------------------------------------------
(* What the repository says and the code does not keep *)

\* "There is no route back from `declined`" (services/invitation.service.ts).
DeclinedIsFinal ==
  [][\A i \in Invitations :
       Made(i) /\ invitations[i].status = "declined" => invitations'[i] = invitations[i]]_trustVars

\* "A duplicate participant row is prevented here" (services/query.service.ts, and the
\* same guard in invitation.service.ts): the auto-acceptance has no such guard, and a
\* human invited again into a conversation gets a second row.
OneSeatEach == \A s \in DOMAIN participants : participants[s] <= 1

\* "Agents you've previously accepted invitations from" (web/src/i18n/catalogues/en/chat.ts):
\* nothing takes a revocation back, so accepting again does not put the agent there.
AcceptingIsTrusting ==
  [][\A r \in Requests :
       request[r].at = "accept" /\ request'[r].at = "find" /\ invitations[request[r].of].exact =>
         By(request[r].of) \in trustedAgents(invitations[request[r].of].to)']_trustVars

\* All the email has for the invited human is the address of that list (acceptUrl,
\* services/email.service.ts): an invitation stored under another spelling of the
\* address is in nobody's list.
PendingIsListed ==
  \A i \in Invitations : Pending(i) => i \in listHumanInvitations(invitations[i].to)
================================================================================
