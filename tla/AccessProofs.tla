----------------------------- MODULE AccessProofs -----------------------------
(***************************************************************************)
(* Proofs about SignIn and AgentAccess: the types, that the counter of     *)
(* wrong codes is right, that a browser keeps a token that works, and that *)
(* a key reaches one owner.                                                *)
(***************************************************************************)
EXTENDS SignIn, AgentAccess, FiniteSetTheorems, TLAPS

--------------------------------------------------------------------------------
(* SignIn: the invariant *)

SignInMade(c) == call[c] # Unsent

\* The verifications that were refused so far.
Tries    == {c \in Calls : At(c, "verify", "unauthorized")}

\* A code was written by the request it is named after.
WrittenBy(k) == k \in Calls /\ SignInMade(k) /\ call[k].op = "send" /\ call[k].step # "sent"

CodesAreWritten ==
  /\ account.code # None => WrittenBy(account.code)
  /\ \A c \in Calls : SignInMade(c) /\ call[c].code # None =>
       /\ call[c].op = "verify" /\ call[c].step \in {"compare", "unauthorized", "ok"}
       /\ WrittenBy(call[c].code)

\* While no comparison has overlapped another, the one under way has the row as it is.
ComparesTheRow ==
  /\ \A c \in Calls : Comparing(c) => call[c].code # None
  /\ alone =>
       /\ \A c, o \in Calls : Comparing(c) /\ Comparing(o) => c = o
       /\ \A c \in Calls : Comparing(c) =>
            call[c].code = account.code /\ call[c].attempts = account.attempts

\* A token that is stored, sent or on the row was given by a verification.
Given(k) == k \in Calls => At(k, "verify", "ok")

TokensAreGiven ==
  /\ Given(token) /\ Given(account.session)
  /\ \A c \in Calls : SignInMade(c) /\ call[c].op \in {"load", "request", "logout"} => Given(call[c].carries)

\* A token that has been refused works no more.
RefusedIsOver ==
  \A c \in Calls : SignInMade(c) /\ call[c].op \in {"load", "request"} /\ call[c].step = "unauthorized" =>
    ~Works(call[c].carries)

SignInInv ==
  /\ SignInTypeOK /\ IsFiniteSet(Tries)
  /\ CodesAreWritten /\ ComparesTheRow /\ TokensAreGiven /\ RefusedIsOver
  /\ TriesAreCounted

LEMMA SignInInitially == SignInConstants /\ SignInInit => SignInInv
<1> SUFFICES ASSUME SignInConstants, SignInInit PROVE SignInInv
  OBVIOUS
<1> USE DEF SignInInit, SignInConstants
<1>1. \A c \in Calls : call[c] = Unsent /\ ~SignInMade(c) /\ ~Comparing(c) /\ c \notin Tries
  BY DEF SignInMade, Comparing, At, Tries
<1>2. SignInTypeOK BY DEF SignInTypeOK, Account, Pages
<1>3. Tries = {} BY <1>1 DEF Tries
<1>4. account.code = None /\ account.session \notin Calls /\ token \notin Calls OBVIOUS
<1> QED BY <1>1, <1>2, <1>3, <1>4, FS_EmptySet
      DEF SignInInv, CodesAreWritten, ComparesTheRow, TokensAreGiven, Given, RefusedIsOver, TriesAreCounted

--------------------------------------------------------------------------------
(* SignIn: what a step does to the requests *)

\* All of a request but whether its tab still waits.
Kept(o) ==
  /\ call'[o] = Unsent <=> call[o] = Unsent
  /\ call[o] # Unsent =>
       /\ call'[o].op = call[o].op /\ call'[o].step = call[o].step
       /\ call'[o].carries = call[o].carries
       /\ call'[o].code = call[o].code /\ call'[o].attempts = call[o].attempts

CallsTyped == call \in [Calls -> Call \cup {Unsent}]

LEMMA OpenIsMade ==
  ASSUME CallsTyped, NEW c \in Calls, call[c].open
  PROVE  call[c] \in Call /\ call[c] # Unsent
BY DEF CallsTyped, Unsent

LEMMA UnsentIsNoCall == Unsent \notin Call /\ ~Unsent.open
BY DEF Unsent, Call, Serving, Replies

LEMMA Closing ==
  ASSUME NEW r \in Call
  PROVE  LET s == [r EXCEPT !.open = FALSE] IN
         /\ s \in Call /\ ~s.open
         /\ s.op = r.op /\ s.step = r.step /\ s.tab = r.tab /\ s.carries = r.carries
         /\ s.code = r.code /\ s.attempts = r.attempts
BY DEF Call

LEMMA Hangs ==
  ASSUME CallsTyped, NEW c \in Calls, call[c].open, Hang(c)
  PROVE  CallsTyped' /\ (\A o \in Calls : Kept(o)) /\ ~call'[c].open
<1>1. call[c] \in Call BY OpenIsMade
<1> DEFINE s == [call[c] EXCEPT !.open = FALSE]
<1>2. call' = [call EXCEPT ![c] = s] BY DEF Hang
<1>3. /\ s \in Call /\ ~s.open
      /\ s.op = call[c].op /\ s.step = call[c].step /\ s.carries = call[c].carries
      /\ s.code = call[c].code /\ s.attempts = call[c].attempts
  BY <1>1, Closing
<1> HIDE DEF s
<1> QED BY <1>1, <1>2, <1>3, UnsentIsNoCall DEF CallsTyped, Kept

LEMMA Forgets ==
  ASSUME CallsTyped, NEW t \in Tabs, call' = Forget(t)
  PROVE  /\ CallsTyped' /\ \A o \in Calls : Kept(o)
         /\ \A o \in Calls : call[o].open /\ call[o].tab = t => ~call'[o].open
<1>1. ASSUME NEW o \in Calls, call[o].open, call[o].tab = t
      PROVE  Kept(o) /\ call'[o] \in Call /\ ~call'[o].open
  <2>1. call[o] \in Call BY <1>1, OpenIsMade
  <2>2. call'[o] = [call[o] EXCEPT !.open = FALSE] BY <1>1 DEF Forget
  <2> QED BY <2>1, <2>2, Closing, UnsentIsNoCall DEF Kept
<1>2. ASSUME NEW o \in Calls, ~(call[o].open /\ call[o].tab = t)
      PROVE  Kept(o) /\ call'[o] \in Call \cup {Unsent}
  BY <1>2 DEF Forget, Kept, CallsTyped
<1>3. call' = [o \in Calls |-> call'[o]] BY DEF Forget
<1> QED BY <1>1, <1>2, <1>3 DEF CallsTyped

LEMMA Sends ==
  ASSUME CallsTyped, NEW c \in Calls, NEW t \in Tabs, NEW op \in Ops,
         NEW k \in Calls \cup {None, WrongCode, Earlier}, Send(c, t, op, k)
  PROVE  /\ CallsTyped' /\ call[c] = Unsent /\ call'[c] # Unsent
         /\ call'[c].op = op /\ call'[c].step = "sent" /\ call'[c].carries = k /\ call'[c].code = None
         /\ \A o \in Calls \ {c} : call'[o] = call[o]
<1> DEFINE r == [op |-> op, step |-> "sent", tab |-> t, open |-> TRUE, carries |-> k, code |-> None, attempts |-> 0]
<1>1. /\ r \in Call /\ r.op = op /\ r.step = "sent" /\ r.carries = k /\ r.code = None
  BY DEF Call, Serving
<1>2. call' = [call EXCEPT ![c] = r] /\ call[c] = Unsent BY DEF Send
<1> HIDE DEF r
<1> QED BY <1>1, <1>2, UnsentIsNoCall DEF CallsTyped

LEMMA Goes ==
  ASSUME CallsTyped, NEW c \in Calls, call[c] # Unsent, NEW s \in Serving \cup Replies, Go(c, s)
  PROVE  /\ CallsTyped' /\ call'[c] # Unsent /\ call'[c].step = s
         /\ call'[c].op = call[c].op /\ call'[c].carries = call[c].carries
         /\ call'[c].code = call[c].code /\ call'[c].attempts = call[c].attempts
         /\ \A o \in Calls \ {c} : call'[o] = call[o]
<1> DEFINE r == [call[c] EXCEPT !.step = s]
<1>1. call[c] \in Call BY DEF CallsTyped
<1>2. /\ r \in Call /\ r.step = s /\ r.op = call[c].op /\ r.carries = call[c].carries
      /\ r.code = call[c].code /\ r.attempts = call[c].attempts
  BY <1>1 DEF Call
<1>3. call' = [call EXCEPT ![c] = r] BY DEF Go
<1> HIDE DEF r
<1> QED BY <1>2, <1>3, UnsentIsNoCall DEF CallsTyped

--------------------------------------------------------------------------------
(* SignIn: the inductive step *)

\* What a browser does to its own requests and tabs leaves the server as it is.
LEMMA KeptStep ==
  ASSUME SignInInv, CallsTyped', \A o \in Calls : Kept(o),
         UNCHANGED <<account, inbox, alone>>,
         token' = token \/ (token' \notin Calls) \/ At(token', "verify", "ok"),
         token' \in Calls \cup {None, Earlier}, tab' \in [Tabs -> Pages]
  PROVE  SignInInv'
<1> USE DEF SignInInv
<1>1. ASSUME NEW o \in Calls
      PROVE  /\ SignInMade(o)' <=> SignInMade(o)
             /\ SignInMade(o) => /\ call'[o].op = call[o].op /\ call'[o].step = call[o].step
                                 /\ call'[o].carries = call[o].carries
                                 /\ call'[o].code = call[o].code /\ call'[o].attempts = call[o].attempts
             /\ \A op, step : (call'[o] # Unsent /\ call'[o].op = op /\ call'[o].step = step) <=> At(o, op, step)
             /\ Comparing(o)' <=> Comparing(o)
             /\ WrittenBy(o)' <=> WrittenBy(o)
             /\ Given(o)' <=> Given(o)
  BY DEF Kept, SignInMade, At, Comparing, WrittenBy, Given
<1>2. SignInTypeOK' BY DEF SignInTypeOK, CallsTyped
<1>3. Tries' = Tries BY <1>1 DEF Tries, At
<1>4. CodesAreWritten'
  <2>1. \A k \in Calls : WrittenBy(k) => call'[k] # Unsent /\ call'[k].op = "send" /\ call'[k].step # "sent"
    BY <1>1 DEF WrittenBy, SignInMade
  <2>2. account.code # None => /\ account.code \in Calls /\ call'[account.code] # Unsent
                               /\ call'[account.code].op = "send" /\ call'[account.code].step # "sent"
    BY <2>1 DEF CodesAreWritten, WrittenBy
  <2>3. ASSUME NEW c \in Calls, call'[c] # Unsent, call'[c].code # None
        PROVE  /\ call'[c].op = "verify" /\ call'[c].step \in {"compare", "unauthorized", "ok"}
               /\ call'[c].code \in Calls /\ call'[call'[c].code] # Unsent
               /\ call'[call'[c].code].op = "send" /\ call'[call'[c].code].step # "sent"
    <3>1. /\ call[c] # Unsent /\ call[c].code # None /\ call'[c].code = call[c].code
          /\ call'[c].op = call[c].op /\ call'[c].step = call[c].step
      BY <2>3 DEF Kept
    <3>2. /\ call[c].op = "verify" /\ call[c].step \in {"compare", "unauthorized", "ok"}
          /\ WrittenBy(call[c].code)
      BY <3>1 DEF CodesAreWritten, SignInMade
    <3> QED BY <3>1, <3>2, <2>1 DEF WrittenBy
  <2> QED BY <2>2, <2>3 DEF CodesAreWritten, WrittenBy, SignInMade
<1>5. ComparesTheRow'
  BY <1>1 DEF ComparesTheRow, Comparing, At, SignInMade
<1>6. TokensAreGiven'
  <2>1. \A k \in Calls : At(k, "verify", "ok") => call'[k] # Unsent /\ call'[k].op = "verify" /\ call'[k].step = "ok"
    BY <1>1
  <2>2. token' \in Calls => At(token', "verify", "ok")
    BY DEF TokensAreGiven, Given
  <2>3. \A c \in Calls : call'[c] # Unsent /\ call'[c].op \in {"load", "request", "logout"} =>
          call[c].carries = call'[c].carries /\ (call[c].carries \in Calls => At(call[c].carries, "verify", "ok"))
    BY DEF Kept, TokensAreGiven, Given, SignInMade
  <2>4. account'.session \in Calls => At(account'.session, "verify", "ok")
    BY DEF TokensAreGiven, Given
  <2> QED BY <2>1, <2>2, <2>3, <2>4 DEF TokensAreGiven, Given, SignInMade, At
<1>7. RefusedIsOver'
  BY <1>1 DEF RefusedIsOver, Works
<1>8. TriesAreCounted'
  <2>1. {c \in Calls : At(c, "verify", "unauthorized") /\ call[c].code = account.code}'
          = {c \in Calls : At(c, "verify", "unauthorized") /\ call[c].code = account.code}
    BY <1>1 DEF At, SignInMade
  <2> QED BY <2>1 DEF TriesAreCounted
<1> QED BY <1>2, <1>3, <1>4, <1>5, <1>6, <1>7, <1>8

SessionMayEnd ==
  /\ account' \in Account
  /\ account'.code = account.code /\ account'.attempts = account.attempts
  /\ \/ account'.session = account.session /\ (account'.lasts => account.lasts)
     \/ account'.session = None /\ ~account'.lasts

\* A request that is not a verification moves on; the session may end with it.
LEMMA GoesOn ==
  ASSUME SignInConstants, SignInInv, NEW c \in Calls, call[c] # Unsent, call[c].op # "verify",
         NEW s \in (Serving \cup Replies) \ {"sent"}, Go(c, s),
         UNCHANGED <<token, tab, alone>>, inbox' \in SUBSET Calls, SessionMayEnd,
         s = "unauthorized" /\ call[c].op \in {"load", "request"} => ~Works(call[c].carries)
  PROVE  SignInInv'
<1> USE DEF SignInInv, SessionMayEnd
<1>1. /\ CallsTyped' /\ call'[c] # Unsent /\ call'[c].step = s
      /\ call'[c].op = call[c].op /\ call'[c].carries = call[c].carries
      /\ call'[c].code = call[c].code /\ call'[c].attempts = call[c].attempts
      /\ \A o \in Calls \ {c} : call'[o] = call[o]
  BY Goes DEF SignInTypeOK, CallsTyped
<1>2. SignInTypeOK' BY <1>1 DEF SignInTypeOK, CallsTyped
<1>3. Tries' = Tries BY <1>1 DEF Tries, At
<1>4. CodesAreWritten'
  BY <1>1 DEF CodesAreWritten, WrittenBy, SignInMade
<1>5. ComparesTheRow'
  BY <1>1 DEF ComparesTheRow, Comparing, At
<1>6. TokensAreGiven'
  BY <1>1 DEF TokensAreGiven, Given, At, SignInMade, SignInConstants
<1>7. RefusedIsOver'
  BY <1>1 DEF RefusedIsOver, Works, SignInMade
<1>8. TriesAreCounted'
  <2>1. {o \in Calls : At(o, "verify", "unauthorized") /\ call[o].code = account.code}'
          = {o \in Calls : At(o, "verify", "unauthorized") /\ call[o].code = account.code}
    BY <1>1 DEF At
  <2> QED BY <2>1 DEF TriesAreCounted
<1> QED BY <1>2, <1>3, <1>4, <1>5, <1>6, <1>7, <1>8

LEMMA WritesCode == ASSUME SignInConstants, SignInInv, NEW c \in Calls, WriteCode(c) PROVE SignInInv'
<1> USE DEF SignInInv
<1>1. /\ CallsTyped' /\ call'[c] # Unsent /\ call'[c].step = "mail"
      /\ call'[c].op = "send" /\ call'[c].carries = call[c].carries
      /\ call'[c].code = call[c].code /\ call'[c].attempts = call[c].attempts
      /\ \A o \in Calls \ {c} : call'[o] = call[o]
  BY Goes DEF SignInTypeOK, CallsTyped, WriteCode, At, Serving
<1>2. /\ account'.code = c /\ account'.attempts = 0 /\ account'.session = account.session
      /\ account'.lasts = account.lasts /\ account' \in Account
      /\ call[c] # Unsent /\ call[c].op = "send" /\ call[c].step = "sent"
      /\ alone' => alone /\ \A o \in Calls : ~Comparing(o)
      /\ alone' \in BOOLEAN
      /\ UNCHANGED <<inbox, token, tab>>
  BY DEF WriteCode, At, SignInTypeOK, Account
<1>3. SignInTypeOK' BY <1>1, <1>2 DEF SignInTypeOK, CallsTyped
<1>4. Tries' = Tries BY <1>1, <1>2 DEF Tries, At
<1>5. CodesAreWritten'
  BY <1>1, <1>2 DEF CodesAreWritten, WrittenBy, SignInMade
<1>6. ComparesTheRow'
  BY <1>1, <1>2 DEF ComparesTheRow, Comparing, At
<1>7. TokensAreGiven'
  BY <1>1, <1>2 DEF TokensAreGiven, Given, At, SignInMade
<1>8. RefusedIsOver'
  BY <1>1, <1>2 DEF RefusedIsOver, Works, SignInMade
<1>9. TriesAreCounted'
  <2>1. \A o \in Calls : call[o] # Unsent => call[o].code # c
    BY <1>2 DEF CodesAreWritten, WrittenBy, SignInMade, SignInConstants
  <2>2. {o \in Calls : At(o, "verify", "unauthorized") /\ call[o].code = account.code}' = {}
    BY <1>1, <1>2, <2>1 DEF At
  <2> QED BY <1>2, <2>2, FS_EmptySet DEF TriesAreCounted
<1> QED BY <1>3, <1>4, <1>5, <1>6, <1>7, <1>8, <1>9

LEMMA ReadsRow == ASSUME SignInInv, NEW c \in Calls, VerifyRead(c) PROVE SignInInv'
<1> USE DEF SignInInv
<1>1. /\ call[c] # Unsent /\ call[c] \in Call /\ call[c].op = "verify" /\ call[c].step = "sent"
      /\ call[c].code = None
      /\ UNCHANGED <<account, inbox, token, tab>>
  BY DEF VerifyRead, At, SignInTypeOK, CodesAreWritten, SignInMade
<1>2. CASE account.code = None \/ ~account.fresh \/ account.attempts >= MaxAttempts
  <2>1. Go(c, "unauthorized") /\ alone' = alone
    BY <1>2 DEF VerifyRead
  <2>2. /\ CallsTyped' /\ call'[c] # Unsent /\ call'[c].step = "unauthorized"
        /\ call'[c].op = "verify" /\ call'[c].code = None
        /\ \A o \in Calls \ {c} : call'[o] = call[o]
    BY <1>1, <2>1, Goes DEF SignInTypeOK, CallsTyped, Replies
  <2>3. SignInTypeOK' BY <1>1, <2>1, <2>2 DEF SignInTypeOK, CallsTyped
  <2>4. IsFiniteSet(Tries')
    <3>1. Tries' = Tries \cup {c} BY <1>1, <2>2 DEF Tries, At
    <3> QED BY <3>1, FS_AddElement
  <2>5. CodesAreWritten'
    BY <1>1, <2>2 DEF CodesAreWritten, WrittenBy, SignInMade
  <2>6. ComparesTheRow'
    BY <1>1, <2>1, <2>2 DEF ComparesTheRow, Comparing, At
  <2>7. TokensAreGiven'
    BY <1>1, <2>2 DEF TokensAreGiven, Given, At, SignInMade
  <2>8. RefusedIsOver'
    BY <1>1, <2>2 DEF RefusedIsOver, Works, SignInMade
  <2>9. TriesAreCounted'
    <3>1. account.code # None =>
            {o \in Calls : At(o, "verify", "unauthorized") /\ call[o].code = account.code}'
              = {o \in Calls : At(o, "verify", "unauthorized") /\ call[o].code = account.code}
      BY <1>1, <2>2 DEF At
    <3> QED BY <1>1, <2>1, <3>1 DEF TriesAreCounted
  <2> QED BY <2>3, <2>4, <2>5, <2>6, <2>7, <2>8, <2>9
<1>3. CASE ~(account.code = None \/ ~account.fresh \/ account.attempts >= MaxAttempts)
  <2> DEFINE r == [call[c] EXCEPT !.step = "compare", !.code = account.code, !.attempts = account.attempts]
  <2>1. /\ call' = [call EXCEPT ![c] = r]
        /\ alone' = (alone /\ \A o \in Calls \ {c} : ~Comparing(o))
    BY <1>1, <1>3 DEF VerifyRead, SignInTypeOK
  <2>2. /\ r \in Call /\ r # Unsent /\ r.op = "verify" /\ r.step = "compare"
        /\ r.code = account.code /\ r.attempts = account.attempts
    BY <1>1 DEF Call, Serving, Unsent, SignInTypeOK, Account
  <2> HIDE DEF r
  <2>3. /\ CallsTyped' /\ call'[c] # Unsent /\ call'[c].step = "compare" /\ call'[c].op = "verify"
        /\ call'[c].code = account.code /\ call'[c].attempts = account.attempts
        /\ \A o \in Calls \ {c} : call'[o] = call[o]
    BY <2>1, <2>2 DEF SignInTypeOK, CallsTyped
  <2>4. SignInTypeOK' BY <1>1, <2>1, <2>3 DEF SignInTypeOK, CallsTyped
  <2>5. Tries' = Tries BY <1>1, <2>3 DEF Tries, At
  <2>6. CodesAreWritten'
    BY <1>1, <2>3 DEF CodesAreWritten, WrittenBy, SignInMade
  <2>7. ComparesTheRow'
    <3>1. \A o \in Calls \ {c} : Comparing(o)' <=> Comparing(o)
      BY <2>3 DEF Comparing, At
    <3>2. alone' => alone /\ \A o \in Calls : Comparing(o)' => o = c
      BY <2>1, <3>1 DEF SignInTypeOK
    <3>3. \A o \in Calls : Comparing(o)' => call'[o].code # None
      BY <1>3, <2>3, <3>1 DEF ComparesTheRow
    <3> QED BY <1>1, <2>3, <3>2, <3>3 DEF ComparesTheRow
  <2>8. TokensAreGiven'
    BY <1>1, <2>3 DEF TokensAreGiven, Given, At, SignInMade
  <2>9. RefusedIsOver'
    BY <1>1, <2>3 DEF RefusedIsOver, Works, SignInMade
  <2>10. TriesAreCounted'
    <3>1. {o \in Calls : At(o, "verify", "unauthorized") /\ call[o].code = account.code}'
            = {o \in Calls : At(o, "verify", "unauthorized") /\ call[o].code = account.code}
      BY <1>1, <2>3 DEF At
    <3> QED BY <1>1, <2>1, <3>1 DEF TriesAreCounted
  <2> QED BY <2>4, <2>5, <2>6, <2>7, <2>8, <2>9, <2>10
<1> QED BY <1>2, <1>3

LEMMA CountsTry == ASSUME SignInInv, NEW c \in Calls, VerifyWrong(c) PROVE SignInInv'
<1> USE DEF SignInInv
<1>1. /\ call[c] # Unsent /\ call[c] \in Call /\ call[c].op = "verify" /\ call[c].step = "compare"
      /\ Comparing(c) /\ call[c].attempts \in Nat
      /\ UNCHANGED <<inbox, token, tab, alone>>
  BY DEF VerifyWrong, Comparing, At, SignInTypeOK, Call
<1>2. /\ account' \in Account /\ account'.attempts = call[c].attempts + 1 /\ account'.code = account.code
      /\ account'.session = account.session /\ account'.lasts = account.lasts
  BY <1>1 DEF VerifyWrong, SignInTypeOK, Account
<1>3. /\ CallsTyped' /\ call'[c] # Unsent /\ call'[c].step = "unauthorized"
      /\ call'[c].op = "verify" /\ call'[c].code = call[c].code
      /\ \A o \in Calls \ {c} : call'[o] = call[o]
  BY <1>1, Goes DEF VerifyWrong, SignInTypeOK, CallsTyped, Replies
<1>4. SignInTypeOK' BY <1>1, <1>2, <1>3 DEF SignInTypeOK, CallsTyped
<1>5. IsFiniteSet(Tries')
  <2>1. Tries' = Tries \cup {c} BY <1>1, <1>3 DEF Tries, At
  <2> QED BY <2>1, FS_AddElement
<1>6. CodesAreWritten'
  BY <1>1, <1>2, <1>3 DEF CodesAreWritten, WrittenBy, SignInMade
<1>7. ComparesTheRow'
  BY <1>1, <1>2, <1>3 DEF ComparesTheRow, Comparing, At
<1>8. TokensAreGiven'
  BY <1>1, <1>2, <1>3 DEF TokensAreGiven, Given, At, SignInMade
<1>9. RefusedIsOver'
  BY <1>1, <1>2, <1>3 DEF RefusedIsOver, Works, SignInMade
<1>10. TriesAreCounted'
  <2> SUFFICES ASSUME alone, account.code # None
               PROVE  account'.attempts =
                        Cardinality({o \in Calls : At(o, "verify", "unauthorized") /\ call[o].code = account.code}')
    BY <1>1, <1>2 DEF TriesAreCounted
  <2> DEFINE T == {o \in Calls : At(o, "verify", "unauthorized") /\ call[o].code = account.code}
  <2>1. call[c].code = account.code /\ call[c].attempts = account.attempts
    BY <1>1 DEF ComparesTheRow
  <2>2. account.attempts = Cardinality(T) BY DEF TriesAreCounted
  <2>3. T' = T \cup {c} /\ c \notin T /\ T \in SUBSET Tries
    BY <1>1, <1>2, <1>3, <2>1 DEF At, Tries
  <2>4. IsFiniteSet(T) BY <2>3, FS_Subset
  <2>5. Cardinality(T \cup {c}) = Cardinality(T) + 1 BY <2>3, <2>4, FS_AddElement
  <2> HIDE DEF T
  <2> QED BY <1>2, <2>1, <2>2, <2>3, <2>5 DEF T
<1> QED BY <1>4, <1>5, <1>6, <1>7, <1>8, <1>9, <1>10

LEMMA GrantsToken == ASSUME SignInConstants, SignInInv, NEW c \in Calls, VerifyRight(c) PROVE SignInInv'
<1> USE DEF SignInInv
<1>1. /\ call[c] # Unsent /\ call[c].op = "verify" /\ call[c].step = "compare"
      /\ UNCHANGED <<inbox, token, tab, alone>>
  BY DEF VerifyRight, Comparing, At
<1>2. /\ account' \in Account /\ account'.code = None /\ account'.session = c /\ account'.lasts
  BY DEF VerifyRight, Account
<1>3. /\ CallsTyped' /\ call'[c] # Unsent /\ call'[c].step = "ok"
      /\ call'[c].op = "verify" /\ call'[c].code = call[c].code
      /\ \A o \in Calls \ {c} : call'[o] = call[o]
  BY <1>1, Goes DEF VerifyRight, SignInTypeOK, CallsTyped, Replies
<1>4. SignInTypeOK' BY <1>1, <1>2, <1>3 DEF SignInTypeOK, CallsTyped
<1>5. Tries' = Tries BY <1>1, <1>3 DEF Tries, At
<1>6. CodesAreWritten'
  BY <1>1, <1>2, <1>3 DEF CodesAreWritten, WrittenBy, SignInMade
<1>7. ComparesTheRow'
  <2>1. alone => \A o \in Calls : ~Comparing(o)'
    BY <1>1, <1>3 DEF ComparesTheRow, Comparing, At
  <2> QED BY <1>1, <1>3, <2>1 DEF ComparesTheRow, Comparing, At
<1>8. TokensAreGiven'
  BY <1>1, <1>2, <1>3 DEF TokensAreGiven, Given, At, SignInMade
<1>9. RefusedIsOver'
  <2>1. ~Given(c) BY <1>1 DEF Given, At
  <2>2. \A o \in Calls : SignInMade(o) /\ call[o].op \in {"load", "request"} => call[o].carries # c
    BY <2>1 DEF TokensAreGiven
  <2> QED BY <1>1, <1>2, <1>3, <2>2 DEF RefusedIsOver, Works, SignInMade
<1>10. TriesAreCounted' BY <1>2 DEF TriesAreCounted
<1> QED BY <1>4, <1>5, <1>6, <1>7, <1>8, <1>9, <1>10

\* The session or the code ends.
LEMMA RowEnds ==
  ASSUME SignInConstants, SignInInv, UNCHANGED <<inbox, call, token, tab, alone>>, SessionMayEnd
  PROVE  SignInInv'
<1> USE DEF SignInInv, SessionMayEnd
<1>1. SignInTypeOK' BY DEF SignInTypeOK
<1>2. Tries' = Tries BY DEF Tries, At
<1>3. CodesAreWritten' BY DEF CodesAreWritten, WrittenBy, SignInMade
<1>4. ComparesTheRow' BY DEF ComparesTheRow, Comparing, At
<1>5. TokensAreGiven' BY DEF TokensAreGiven, Given, At, SignInMade, SignInConstants
<1>6. RefusedIsOver' BY DEF RefusedIsOver, Works, SignInMade
<1>7. TriesAreCounted' BY DEF TriesAreCounted, At
<1> QED BY <1>1, <1>2, <1>3, <1>4, <1>5, <1>6, <1>7

\* A new request carries what the browser has: its token, or a code.
LEMMA SendStep ==
  ASSUME SignInConstants, SignInInv, NEW c \in Calls, NEW t \in Tabs, NEW op \in Ops,
         NEW k \in Calls \cup {None, WrongCode, Earlier}, Send(c, t, op, k),
         op \in {"load", "request", "logout"} => Given(k),
         UNCHANGED <<account, inbox, token, alone>>, tab' \in [Tabs -> Pages]
  PROVE  SignInInv'
<1> USE DEF SignInInv
<1>1. /\ CallsTyped' /\ call[c] = Unsent /\ call'[c] # Unsent
      /\ call'[c].op = op /\ call'[c].step = "sent" /\ call'[c].carries = k /\ call'[c].code = None
      /\ \A o \in Calls \ {c} : call'[o] = call[o]
  BY Sends DEF SignInTypeOK, CallsTyped
<1>2. SignInTypeOK' BY <1>1 DEF SignInTypeOK, CallsTyped
<1>3. Tries' = Tries BY <1>1 DEF Tries, At
<1>4. CodesAreWritten' BY <1>1 DEF CodesAreWritten, WrittenBy, SignInMade
<1>5. ComparesTheRow' BY <1>1 DEF ComparesTheRow, Comparing, At
<1>6. TokensAreGiven' BY <1>1 DEF TokensAreGiven, Given, At, SignInMade
<1>7. RefusedIsOver' BY <1>1 DEF RefusedIsOver, Works, SignInMade
<1>8. TriesAreCounted'
  <2>1. {o \in Calls : At(o, "verify", "unauthorized") /\ call[o].code = account.code}'
          = {o \in Calls : At(o, "verify", "unauthorized") /\ call[o].code = account.code}
    BY <1>1 DEF At
  <2> QED BY <2>1 DEF TriesAreCounted
<1> QED BY <1>2, <1>3, <1>4, <1>5, <1>6, <1>7, <1>8

LEMMA TabTurns ==
  ASSUME CallsTyped, tab \in [Tabs -> Pages], NEW c \in Calls, call[c].open, NEW page \in Pages, Turn(c, page)
  PROVE  tab' \in [Tabs -> Pages] /\ call[c].tab \in Tabs
BY OpenIsMade DEF Turn, Call

LEMMA ServeStep ==
  ASSUME SignInConstants, SignInInv, NEW c \in Calls, ServeSignIn(c)
  PROVE  SignInInv'
<1> USE DEF SignInInv
<1>1. CASE SendRefused(c)
  <2>1. SessionMayEnd BY <1>1 DEF SendRefused, SessionMayEnd, SignInTypeOK
  <2> QED BY <1>1, <2>1, GoesOn DEF SendRefused, At, SignInTypeOK, Serving, Replies
<1>2. CASE WriteCode(c) BY <1>2, WritesCode
<1>3. CASE MailCode(c)
  <2>1. SessionMayEnd BY <1>3 DEF MailCode, SessionMayEnd, SignInTypeOK
  <2>2. inbox' \in SUBSET Calls BY <1>3 DEF MailCode, SignInTypeOK
  <2>3. call[c] # Unsent /\ call[c].op = "send" /\ \E s \in {"ok", "failed"} : Go(c, s)
    BY <1>3 DEF MailCode, At
  <2> QED BY <1>3, <2>1, <2>2, <2>3, GoesOn DEF MailCode, Serving, Replies
<1>4. CASE VerifyRead(c) BY <1>4, ReadsRow
<1>5. CASE VerifyWrong(c) BY <1>5, CountsTry
<1>6. CASE VerifyRight(c) BY <1>6, GrantsToken
<1>7. CASE Authenticate(c)
  <2>1. SessionMayEnd BY <1>7 DEF Authenticate, SessionMayEnd, SignInTypeOK
  <2>2. call[c] # Unsent /\ call[c].op # "verify" BY <1>7 DEF Authenticate, At
  <2>3. \E s \in {"unauthorized", "clear", "ok"} :
          Go(c, s) /\ (s = "unauthorized" => ~Works(call[c].carries))
    BY <1>7 DEF Authenticate
  <2>4. UNCHANGED <<inbox, token, tab, alone>> BY <1>7 DEF Authenticate
  <2> QED BY <2>1, <2>2, <2>3, <2>4, GoesOn DEF SignInTypeOK, Serving, Replies
<1>8. CASE Logout(c)
  <2>1. SessionMayEnd BY <1>8 DEF Logout, SessionMayEnd, SignInTypeOK, Account
  <2> QED BY <1>8, <2>1, GoesOn DEF Logout, At, SignInTypeOK, Serving, Replies
<1> QED BY <1>1, <1>2, <1>3, <1>4, <1>5, <1>6, <1>7, <1>8 DEF ServeSignIn

LEMMA TabStep ==
  ASSUME SignInConstants, SignInInv, NEW t \in Tabs, UseTab(t)
  PROVE  SignInInv'
<1> USE DEF SignInInv
<1>1. CASE OpenLogin(t)
  <2>1. CallsTyped' /\ \A o \in Calls : Kept(o)
    BY <1>1, Forgets DEF OpenLogin, SignInTypeOK, CallsTyped
  <2> QED BY <1>1, <2>1, KeptStep DEF OpenLogin, SignInTypeOK, Pages
<1>2. CASE UseAnotherEmail(t)
  <2>1. CallsTyped' /\ \A o \in Calls : Kept(o)
    BY <1>2 DEF UseAnotherEmail, SignInTypeOK, CallsTyped, Kept
  <2> QED BY <1>2, <2>1, KeptStep DEF UseAnotherEmail, SignInTypeOK, Pages
<1>3. ASSUME NEW c \in Calls, OpenApp(c, t) PROVE SignInInv'
  BY <1>3, SendStep DEF OpenApp, SignInTypeOK, Ops, Pages, TokensAreGiven
<1>4. ASSUME NEW c \in Calls, SendCode(c, t) PROVE SignInInv'
  BY <1>4, SendStep DEF SendCode, SignInTypeOK, Ops
<1>5. ASSUME NEW c \in Calls, Verify(c, t) PROVE SignInInv'
  BY <1>5, SendStep DEF Verify, SignInTypeOK, Ops
<1>6. ASSUME NEW c \in Calls, Ask(c, t) PROVE SignInInv'
  BY <1>6, SendStep DEF Ask, SignInTypeOK, Ops, TokensAreGiven
<1> QED BY <1>1, <1>2, <1>3, <1>4, <1>5, <1>6 DEF UseTab

LEMMA AnswerStep ==
  ASSUME SignInConstants, SignInInv, NEW c \in Calls, TakeAnswer(c)
  PROVE  SignInInv'
<1> USE DEF SignInInv
<1>1. CallsTyped /\ token \in Calls \cup {None, Earlier} /\ tab \in [Tabs -> Pages] /\ None \notin Calls
  BY DEF SignInTypeOK, CallsTyped, SignInConstants
<1>2. ASSUME call[c].open, Hang(c) PROVE CallsTyped' /\ \A o \in Calls : Kept(o)
  BY <1>1, <1>2, Hangs
<1>3. ASSUME call[c].open, NEW page \in Pages, Turn(c, page) PROVE tab' \in [Tabs -> Pages]
  BY <1>1, <1>3, TabTurns
<1>4. CASE SendAnswered(c)
  BY <1>1, <1>2, <1>3, <1>4, KeptStep DEF SendAnswered, Answered, Pages
<1>5. CASE VerifyGranted(c)
  <2>1. At(c, "verify", "ok") BY <1>1, <1>5, OpenIsMade DEF VerifyGranted, Answered, At
  <2>2. At(token', "verify", "ok") /\ token' \in Calls BY <1>5, <2>1 DEF VerifyGranted
  <2> QED BY <1>1, <1>2, <1>3, <1>5, <2>2, KeptStep DEF VerifyGranted, Answered, Pages
<1>6. CASE VerifyRefused(c)
  BY <1>1, <1>2, <1>6, KeptStep DEF VerifyRefused, Answered
<1>7. CASE RequestAnswered(c)
  BY <1>1, <1>2, <1>7, KeptStep DEF RequestAnswered, Answered
<1>8. CASE RequestRefused(c)
  <2>1. call[c].open /\ Turn(c, "email") BY <1>8 DEF RequestRefused, Answered
  <2>2. tab' \in [Tabs -> Pages] /\ call[c].tab \in Tabs BY <1>1, <2>1, TabTurns DEF Pages
  <2>3. CallsTyped' /\ \A o \in Calls : Kept(o)
    BY <1>1, <1>8, <2>2, Forgets DEF RequestRefused
  <2> QED BY <1>1, <1>8, <2>2, <2>3, KeptStep DEF RequestRefused
<1>9. CASE LogoutAnswered(c)
  BY <1>1, <1>2, <1>3, <1>9, KeptStep DEF LogoutAnswered, Answered, Pages
<1>10. CASE Lost(c)
  BY <1>1, <1>2, <1>3, <1>10, KeptStep DEF Lost, Pages
<1> QED BY <1>4, <1>5, <1>6, <1>7, <1>8, <1>9, <1>10 DEF TakeAnswer

LEMMA SignInStep == SignInConstants /\ SignInInv /\ [SignInNext]_signInVars => SignInInv'
<1> SUFFICES ASSUME SignInConstants, SignInInv, [SignInNext]_signInVars PROVE SignInInv'
  OBVIOUS
<1>1. SignInTypeOK BY DEF SignInInv
<1>2. CASE \E c \in Calls : ServeSignIn(c) BY <1>2, ServeStep
<1>3. CASE \E c \in Calls : TakeAnswer(c) BY <1>3, AnswerStep
<1>4. CASE \E t \in Tabs : UseTab(t) BY <1>4, TabStep
<1>5. CASE CodeExpires
  <2>1. SessionMayEnd BY <1>1, <1>5 DEF CodeExpires, SessionMayEnd, SignInTypeOK, Account
  <2> QED BY <1>5, <2>1, RowEnds DEF CodeExpires
<1>6. CASE SessionExpires
  <2>1. SessionMayEnd BY <1>1, <1>6 DEF SessionExpires, SessionMayEnd, SignInTypeOK, Account
  <2> QED BY <1>6, <2>1, RowEnds DEF SessionExpires
<1>7. CASE UNCHANGED signInVars
  <2>1. SessionMayEnd /\ UNCHANGED <<inbox, call, token, tab, alone>>
    BY <1>1, <1>7 DEF signInVars, SessionMayEnd, SignInTypeOK
  <2> QED BY <2>1, RowEnds
<1> QED BY <1>2, <1>3, <1>4, <1>5, <1>6, <1>7 DEF SignInNext

\* The only answers that take a working token away are the three of TokenKept.
LEMMA TokenIsKept ==
  ASSUME SignInConstants, SignInInv, SignInNext, token # None, Works(token), token' = None
  PROVE  \E c \in Calls :
           /\ call[c].open /\ ~call'[c].open
           /\ \/ call[c].op = "logout"
              \/ call[c].op \in {"load", "request"} /\ call[c].carries # token
              \/ call[c].op = "load" /\ call[c].step # "unauthorized"
<1>1. CallsTyped /\ tab \in [Tabs -> Pages] /\ None \notin Calls
  BY DEF SignInInv, SignInTypeOK, CallsTyped, SignInConstants
<1>2. PICK c \in Calls : RequestRefused(c) \/ LogoutAnswered(c) \/ Lost(c)
  BY <1>1 DEF SignInNext, ServeSignIn, SendRefused, WriteCode, MailCode, VerifyRead, VerifyWrong, VerifyRight,
     Authenticate, Logout, UseTab, OpenLogin, UseAnotherEmail, OpenApp, SendCode, Verify, Ask, TakeAnswer,
     SendAnswered, VerifyGranted, VerifyRefused, RequestAnswered, CodeExpires, SessionExpires
<1>3. call[c].open BY <1>2 DEF RequestRefused, LogoutAnswered, Lost, Answered
<1>4. call[c] # Unsent BY <1>1, <1>3, OpenIsMade
    \* A refusal says that the token it carried works no more: it carried another one.
<1>5. CASE RequestRefused(c)
  <2>1. call[c].op \in {"load", "request"} /\ call[c].step = "unauthorized"
    BY <1>5 DEF RequestRefused, Answered
  <2>2. ~Works(call[c].carries) BY <1>4, <2>1 DEF SignInInv, RefusedIsOver, SignInMade
  <2>3. call[c].tab \in Tabs BY <1>1, <1>3, OpenIsMade DEF Call
  <2>4. ~call'[c].open BY <1>1, <1>3, <1>5, <2>3, Forgets DEF RequestRefused
  <2> QED BY <1>3, <2>1, <2>2, <2>4
<1>6. CASE LogoutAnswered(c)
  BY <1>1, <1>3, <1>6, Hangs DEF LogoutAnswered, Answered
<1>7. CASE Lost(c)
  <2>1. call[c].op \in {"load", "logout"} /\ Hang(c) BY <1>7 DEF Lost
  <2>2. ~call'[c].open BY <1>1, <1>3, <2>1, Hangs
  <2>3. call[c].op = "load" /\ call[c].step = "unauthorized" => ~Works(call[c].carries)
    BY <1>4 DEF SignInInv, RefusedIsOver, SignInMade
  <2> QED BY <1>3, <2>1, <2>2, <2>3
<1> QED BY <1>2, <1>5, <1>6, <1>7

--------------------------------------------------------------------------------
LEMMA SignInConstantsStay == SignInConstants => SignInConstants'
BY DEF SignInConstants

\* The row, the requests and the tabs keep their types.
THEOREM SignInTypeCorrect == SignInConstants => (SignInSpec => []SignInTypeOK)
<1>1. SignInInv => SignInTypeOK BY DEF SignInInv
<1> QED BY <1>1, SignInInitially, SignInStep, SignInConstantsStay, PTL DEF SignInSpec

\* However requests, tabs and failures interleave, as long as no comparison of a code
\* overlapped another, verifyCode's counter is the number of wrong tries of the code.
THEOREM TriesCorrect == SignInConstants => (SignInSpec => []TriesAreCounted)
<1>1. SignInInv => TriesAreCounted BY DEF SignInInv
<1> QED BY <1>1, SignInInitially, SignInStep, SignInConstantsStay, PTL DEF SignInSpec

\* A browser loses a token that works only in the three ways that TokenKept names:
\* the 401 handler of api/client.ts never drops a fresh token for the refusal of itself.
THEOREM TokenCorrect == SignInConstants => (SignInSpec => TokenKept)
<1>1. SignInConstants /\ SignInInv /\ [SignInNext]_signInVars =>
        [token # None /\ Works(token) /\ token' = None =>
           \E c \in Calls :
             /\ call[c].open /\ ~call'[c].open
             /\ \/ call[c].op = "logout"
                \/ call[c].op \in {"load", "request"} /\ call[c].carries # token
                \/ call[c].op = "load" /\ call[c].step # "unauthorized"]_signInVars
  BY TokenIsKept
<1> QED BY <1>1, SignInInitially, SignInStep, SignInConstantsStay, PTL DEF SignInSpec, TokenKept
--------------------------------------------------------------------------------
(* AgentAccess: the invariant *)

Made(c) == req[c] # Unmade

\* What a request is about.
RequestsAreAbout ==
  \A c \in Requests : Made(c) =>
    /\ req[c].op \in {"register", "authorize"} => req[c].of \in Slugs
    /\ req[c].op = "rotate" => req[c].of \in Rows
    /\ req[c].op = "exchange" =>
         /\ req[c].of \in Requests /\ Made(req[c].of) /\ req[req[c].of].op = "authorize"
         /\ req[c].step \in {"answer", "refused", "ok", "lost"}

\* How far the request has come that made the key of an agent.
KeysAreMade ==
  \A a \in Rows : LET k == agent[a].key IN
    /\ Made(k)
    /\ \/ req[k].op \in {"register", "rotate"} /\ req[k].step \in {"answer", "ok", "lost"}
       \/ req[k].op = "authorize" /\ req[k].step \in {"code", "ok", "failed"}

\* The exchanges that got a key for their code.
Redeeming(x) == Made(x) /\ req[x].op = "exchange" /\ req[x].step \in {"answer", "ok", "lost"}

CodesAreRedeemedOnce ==
  /\ \A c \in Requests : code[c] # "none" <=> Made(c) /\ req[c].op = "authorize" /\ req[c].step = "ok"
  /\ \A c \in Requests : code[c] = "gone" =>
       \E x \in Requests : Made(x) /\ req[x].op = "exchange" /\ req[x].of = c
  /\ \A x \in Requests : Redeeming(x) => code[req[x].of] = "gone"
  /\ \A x, y \in Requests : Redeeming(x) /\ Redeeming(y) /\ req[x].of = req[y].of => x = y

\* The key that a request was answered with.
KeyOf(c) == IF req[c].op = "exchange" THEN req[c].of ELSE c

KeysAreHandedOver ==
  /\ \A c \in Requests : Made(c) /\ req[c].op \in {"register", "rotate", "exchange"} /\ req[c].step = "ok" =>
       \E g \in given : g.key = KeyOf(c)
  /\ \A g \in given : /\ Made(g.to) /\ req[g.to].step = "ok" /\ g.key = KeyOf(g.to)
                      /\ req[g.to].op \in {"register", "rotate", "exchange"}

AccessInv ==
  /\ AccessTypeOK /\ RequestsAreAbout /\ KeysAreMade /\ CodesAreRedeemedOnce /\ KeysAreHandedOver

--------------------------------------------------------------------------------
LEMMA AccessInitially == AccessInit => AccessInv
<1> SUFFICES ASSUME AccessInit PROVE AccessInv
  OBVIOUS
<1> USE DEF AccessInit
<1>1. \A c \in Requests : req[c] = Unmade /\ ~Made(c) /\ agent[c] = NoAgent /\ code[c] = "none"
  BY DEF Made
<1>2. AccessTypeOK BY DEF AccessTypeOK, Code, Form
<1>3. Rows = {} BY <1>1 DEF Rows
<1> QED BY <1>1, <1>2, <1>3
      DEF AccessInv, RequestsAreAbout, KeysAreMade, CodesAreRedeemedOnce, Redeeming, KeysAreHandedOver

LEMMA InvSaysOneOwner == AccessConstants /\ AccessInv => KeysReachOneOwner
<1> SUFFICES ASSUME AccessConstants, AccessInv PROVE KeysReachOneOwner
  OBVIOUS
<1> USE DEF AccessInv
<1>1. ASSUME NEW g \in given, NEW h \in given, g.key = h.key
      PROVE  g.to = h.to
  <2>1. g.to \in Requests /\ h.to \in Requests BY DEF AccessTypeOK
  <2>2. /\ Made(g.to) /\ req[g.to].step = "ok" /\ g.key = KeyOf(g.to)
        /\ Made(h.to) /\ req[h.to].step = "ok" /\ h.key = KeyOf(h.to)
        /\ req[g.to].op \in {"register", "rotate", "exchange"} /\ req[h.to].op \in {"register", "rotate", "exchange"}
    BY DEF KeysAreHandedOver
  <2>3. CASE req[g.to].op = "exchange" /\ req[h.to].op = "exchange"
    BY <1>1, <2>1, <2>2, <2>3 DEF CodesAreRedeemedOnce, Redeeming, KeyOf
  <2>4. CASE req[g.to].op # "exchange" \/ req[h.to].op # "exchange"
    <3>1. req[g.to].op = "exchange" => req[g.key].op = "authorize"
      BY <2>1, <2>2 DEF RequestsAreAbout, KeyOf
    <3>2. req[h.to].op = "exchange" => req[h.key].op = "authorize"
      BY <2>1, <2>2 DEF RequestsAreAbout, KeyOf
    <3>3. req[g.to].op # "exchange" => g.key = g.to BY <2>2 DEF KeyOf
    <3>4. req[h.to].op # "exchange" => h.key = h.to BY <2>2 DEF KeyOf
    <3> QED BY <1>1, <2>2, <2>4, <3>1, <3>2, <3>3, <3>4
  <2> QED BY <2>3, <2>4
<1>2. ASSUME NEW a \in Rows
      PROVE  LET k == agent[a].key IN
             \/ Holds(k)
             \/ req[k].step \in {"code", "answer", "failed", "lost"}
             \/ req[k].op = "authorize"
                /\ \/ code[k] \in {"live", "stale", "cleaned"}
                   \/ \E x \in Requests : /\ req[x] # Unmade /\ req[x].op = "exchange" /\ req[x].of = k
                                          /\ req[x].step \in {"answer", "refused", "lost"}
  <2> DEFINE k == agent[a].key
  <2>1. k \in Requests BY DEF Rows, AccessTypeOK, Agent
  <2>2. /\ Made(k)
        /\ \/ req[k].op \in {"register", "rotate"} /\ req[k].step \in {"answer", "ok", "lost"}
           \/ req[k].op = "authorize" /\ req[k].step \in {"code", "ok", "failed"}
    BY DEF KeysAreMade
  <2> HIDE DEF k
  <2>3. CASE req[k].op \in {"register", "rotate"} /\ req[k].step = "ok"
    <3>1. KeyOf(k) = k BY <2>3 DEF KeyOf
    <3>2. \E g \in given : g.key = KeyOf(k) BY <2>1, <2>2, <2>3 DEF KeysAreHandedOver
    <3> QED BY <3>1, <3>2 DEF Holds, k
  <2>4. CASE req[k].op = "authorize" /\ req[k].step = "ok"
    <3>1. code[k] \in Code /\ code[k] # "none" BY <2>1, <2>2, <2>4 DEF CodesAreRedeemedOnce, AccessTypeOK
    <3>2. CASE code[k] = "gone"
      <4>1. PICK x \in Requests : Made(x) /\ req[x].op = "exchange" /\ req[x].of = k
        BY <2>1, <3>2 DEF CodesAreRedeemedOnce
      <4>2. req[x].step \in {"answer", "refused", "ok", "lost"} BY <4>1 DEF RequestsAreAbout
      <4>3. req[x].step = "ok" => Holds(k) BY <4>1 DEF KeysAreHandedOver, KeyOf, Holds
      <4> QED BY <2>4, <4>1, <4>2, <4>3 DEF Made, k
    <3> QED BY <2>4, <3>1, <3>2 DEF Code, k
  <2> QED BY <2>2, <2>3, <2>4 DEF k
<1> QED BY <1>1, <1>2 DEF KeysReachOneOwner

--------------------------------------------------------------------------------
(* AgentAccess: what a step does to the requests *)

Typed == req \in [Requests -> Req \cup {Unmade}]

LEMMA UnmadeIsNoRequest == Unmade \notin Req
BY DEF Unmade, Req, Steps

LEMMA Makes ==
  ASSUME Typed, NEW c \in Requests, NEW op \in AccessOps, NEW step \in Steps,
         NEW of \in Slugs \cup Requests \cup {Nothing}, Make(c, op, step, of)
  PROVE  /\ Typed' /\ ~Made(c) /\ Made(c)'
         /\ req'[c].op = op /\ req'[c].step = step /\ req'[c].of = of
         /\ \A o \in Requests \ {c} : req'[o] = req[o]
<1> DEFINE r == [op |-> op, step |-> step, of |-> of]
<1>1. r \in Req /\ r.op = op /\ r.step = step /\ r.of = of BY DEF Req
<1>2. req' = [req EXCEPT ![c] = r] /\ req[c] = Unmade BY DEF Make
<1> HIDE DEF r
<1> QED BY <1>1, <1>2, UnmadeIsNoRequest DEF Typed, Made

LEMMA Moves ==
  ASSUME Typed, NEW c \in Requests, Made(c), NEW s \in Steps, MoveOn(c, s)
  PROVE  /\ Typed' /\ Made(c)'
         /\ req'[c].op = req[c].op /\ req'[c].step = s /\ req'[c].of = req[c].of
         /\ \A o \in Requests \ {c} : req'[o] = req[o]
<1> DEFINE r == [req[c] EXCEPT !.step = s]
<1>1. req[c] \in Req BY DEF Typed, Made
<1>2. r \in Req /\ r.op = req[c].op /\ r.step = s /\ r.of = req[c].of BY <1>1 DEF Req
<1>3. req' = [req EXCEPT ![c] = r] BY DEF MoveOn
<1> HIDE DEF r
<1> QED BY <1>2, <1>3, UnmadeIsNoRequest DEF Typed, Made

\* The rows of agents may change, but stay, and keep their keys.
RowsStay ==
  /\ agent' \in [Requests -> Agent \cup {NoAgent}]
  /\ \A a \in Requests : /\ agent[a] # NoAgent <=> agent'[a] # NoAgent
                         /\ agent[a] # NoAgent => agent'[a].key = agent[a].key

\* What is the same for every step: the transport's sessions and the form.
RestTyped == sessions' \in SUBSET Requests /\ old' \in SUBSET sessions' /\ form' \in Form

--------------------------------------------------------------------------------
(* AgentAccess: the inductive step *)

LEMMA RowsStep ==
  ASSUME AccessInv, RowsStay, RestTyped, UNCHANGED <<code, req, given>>
  PROVE  AccessInv'
<1> USE DEF AccessInv
<1>1. AccessTypeOK' BY DEF AccessTypeOK, RowsStay, RestTyped
<1>2. Rows' = Rows /\ \A a \in Rows : agent'[a].key = agent[a].key BY DEF RowsStay, Rows
<1>3. RequestsAreAbout' BY <1>2 DEF RequestsAreAbout, Made
<1>4. KeysAreMade' BY <1>2 DEF KeysAreMade, Made
<1>5. CodesAreRedeemedOnce' BY DEF CodesAreRedeemedOnce, Redeeming, Made
<1>6. KeysAreHandedOver' BY DEF KeysAreHandedOver, KeyOf, Made
<1> QED BY <1>1, <1>3, <1>4, <1>5, <1>6

LEMMA MakeStep ==
  ASSUME AccessInv, NEW c \in Requests, NEW op \in AccessOps \ {"exchange"}, NEW step \in Steps \ {"ok"},
         NEW of \in Slugs \cup Requests \cup {Nothing}, Make(c, op, step, of),
         op \in {"register", "authorize"} => of \in Slugs, op = "rotate" => of \in Rows,
         UNCHANGED <<agent, code, given>>, RestTyped
  PROVE  AccessInv'
<1> USE DEF AccessInv
<1>1. /\ Typed' /\ ~Made(c) /\ Made(c)'
      /\ req'[c].op = op /\ req'[c].step = step /\ req'[c].of = of
      /\ \A o \in Requests \ {c} : req'[o] = req[o]
  BY Makes DEF Typed, AccessTypeOK
<1>2. AccessTypeOK' BY <1>1 DEF AccessTypeOK, Typed, RestTyped
<1>3. Rows' = Rows /\ \A a \in Rows : agent[a].key \in Requests
  BY DEF Rows, AccessTypeOK, Agent
<1>4. RequestsAreAbout' BY <1>1, <1>3 DEF RequestsAreAbout, Made
<1>5. KeysAreMade' BY <1>1, <1>3 DEF KeysAreMade, Made
<1>6. CodesAreRedeemedOnce'
  <2>1. \A x \in Requests : Redeeming(x)' <=> Redeeming(x)
    BY <1>1 DEF Redeeming, Made
  <2>2. \A x \in Requests : Redeeming(x) => x # c /\ req'[x] = req[x]
    BY <1>1 DEF Redeeming
  <2> QED BY <1>1, <2>1, <2>2 DEF CodesAreRedeemedOnce, Made
<1>7. KeysAreHandedOver'
  <2>1. \A g \in given : g.to \in Requests /\ g.to # c BY <1>1 DEF KeysAreHandedOver, AccessTypeOK
  <2> QED BY <1>1, <2>1 DEF KeysAreHandedOver, KeyOf, Made
<1> QED BY <1>2, <1>4, <1>5, <1>6, <1>7

\* A request moves on without being answered with a key.
LEMMA MoveStep ==
  ASSUME AccessInv, NEW c \in Requests, Made(c), NEW s \in Steps, MoveOn(c, s),
         \/ /\ req[c].op \in {"register", "authorize"} /\ req[c].step \in {"find", "insert"}
            /\ s \in {"insert", "conflict", "failed"}
         \/ req[c].op = "authorize" /\ req[c].step = "code" /\ s = "failed"
         \/ req[c].op \in {"register", "rotate", "exchange"} /\ req[c].step = "answer" /\ s = "lost"
         \/ req[c].op \in {"initialize", "close"},
         UNCHANGED <<agent, code, given>>, RestTyped
  PROVE  AccessInv'
<1> USE DEF AccessInv
<1>1. /\ Typed' /\ Made(c)'
      /\ req'[c].op = req[c].op /\ req'[c].step = s /\ req'[c].of = req[c].of
      /\ \A o \in Requests \ {c} : req'[o] = req[o]
  BY Moves DEF Typed, AccessTypeOK
<1>2. AccessTypeOK' BY <1>1 DEF AccessTypeOK, Typed, RestTyped
<1>3. Rows' = Rows /\ \A a \in Rows : agent[a].key \in Requests
  BY DEF Rows, AccessTypeOK, Agent
<1>4. RequestsAreAbout' BY <1>1, <1>3 DEF RequestsAreAbout, Made
<1>5. KeysAreMade' BY <1>1, <1>3 DEF KeysAreMade, Made
<1>6. CodesAreRedeemedOnce'
  <2>1. \A x \in Requests : Redeeming(x)' <=> Redeeming(x)
    BY <1>1 DEF Redeeming, Made
  <2>2. \A x \in Requests : Made(x)' <=> Made(x)
    BY <1>1 DEF Made
  <2>3. \A x \in Requests : req'[x].op = req[x].op /\ req'[x].of = req[x].of
    BY <1>1
  <2>4. \A x \in Requests : Made(x) /\ req[x].op = "authorize" => (req'[x].step = "ok" <=> req[x].step = "ok")
    BY <1>1
  <2> QED BY <2>1, <2>2, <2>3, <2>4 DEF CodesAreRedeemedOnce
<1>7. KeysAreHandedOver'
  <2>1. \A g \in given : g.to \in Requests /\ g.to # c BY <1>1 DEF KeysAreHandedOver, AccessTypeOK
  <2> QED BY <1>1, <2>1 DEF KeysAreHandedOver, KeyOf, Made
<1> QED BY <1>2, <1>4, <1>5, <1>6, <1>7

\* A row is written with the key of the request that writes it.
LEMMA KeyStep ==
  ASSUME AccessInv, NEW c \in Requests, Made(c), NEW s \in {"answer", "code"}, MoveOn(c, s),
         \/ req[c].op = "register" /\ req[c].step = "insert" /\ s = "answer"
         \/ req[c].op = "authorize" /\ req[c].step = "insert" /\ s = "code"
         \/ req[c].op = "rotate" /\ req[c].step = "write" /\ s = "answer",
         agent' \in [Requests -> Agent \cup {NoAgent}], NEW a \in Requests,
         agent'[a] # NoAgent, agent'[a].key = c, \A b \in Requests \ {a} : agent'[b] = agent[b],
         UNCHANGED <<code, sessions, old, given, form>>
  PROVE  AccessInv'
<1> USE DEF AccessInv
<1>1. /\ Typed' /\ Made(c)'
      /\ req'[c].op = req[c].op /\ req'[c].step = s /\ req'[c].of = req[c].of
      /\ \A o \in Requests \ {c} : req'[o] = req[o]
  BY Moves DEF Typed, AccessTypeOK, Steps
<1>2. AccessTypeOK' BY <1>1 DEF AccessTypeOK, Typed
<1>3. Rows' = Rows \cup {a} /\ \A b \in Rows : agent[b].key \in Requests
  BY DEF Rows, AccessTypeOK, Agent
<1>4. RequestsAreAbout' BY <1>1, <1>3 DEF RequestsAreAbout, Made
<1>5. KeysAreMade'
  <2>1. ASSUME NEW b \in Rows, b # a
        PROVE  /\ agent'[b].key = agent[b].key /\ agent[b].key \in Requests
               /\ agent[b].key # c /\ Made(agent[b].key)
    BY <1>3, <2>1 DEF KeysAreMade, Rows
  <2>2. agent'[a].key = c OBVIOUS
  <2> QED BY <1>1, <1>3, <2>1, <2>2 DEF KeysAreMade, Made
<1>6. CodesAreRedeemedOnce'
  <2>1. \A x \in Requests : Redeeming(x)' <=> Redeeming(x)
    BY <1>1 DEF Redeeming, Made
  <2>2. \A x \in Requests : Made(x)' <=> Made(x)
    BY <1>1 DEF Made
  <2>3. \A x \in Requests : req'[x].op = req[x].op /\ req'[x].of = req[x].of
    BY <1>1
  <2>4. \A x \in Requests : Made(x) /\ req[x].op = "authorize" => (req'[x].step = "ok" <=> req[x].step = "ok")
    BY <1>1
  <2> QED BY <2>1, <2>2, <2>3, <2>4 DEF CodesAreRedeemedOnce
<1>7. KeysAreHandedOver'
  <2>1. \A g \in given : g.to \in Requests /\ g.to # c BY <1>1 DEF KeysAreHandedOver, AccessTypeOK
  <2> QED BY <1>1, <2>1 DEF KeysAreHandedOver, KeyOf, Made
<1> QED BY <1>2, <1>4, <1>5, <1>6, <1>7

LEMMA StoresCode ==
  ASSUME AccessInv, NEW c \in Requests, Reached(c, "authorize", "code"),
         code' = [code EXCEPT ![c] = "live"], MoveOn(c, "ok"),
         UNCHANGED <<agent, sessions, old, given, form>>
  PROVE  AccessInv'
<1> USE DEF AccessInv
<1>1. /\ Typed' /\ Made(c)' /\ Made(c)
      /\ req[c].op = "authorize" /\ req[c].step = "code"
      /\ req'[c].op = "authorize" /\ req'[c].step = "ok" /\ req'[c].of = req[c].of
      /\ \A o \in Requests \ {c} : req'[o] = req[o]
  BY Moves DEF Typed, AccessTypeOK, Reached, Steps, Made
<1>2. AccessTypeOK' BY <1>1 DEF AccessTypeOK, Typed, Code
<1>3. Rows' = Rows /\ \A b \in Rows : agent[b].key \in Requests
  BY DEF Rows, AccessTypeOK, Agent
<1>4. RequestsAreAbout' BY <1>1, <1>3 DEF RequestsAreAbout, Made
<1>5. KeysAreMade' BY <1>1, <1>3 DEF KeysAreMade, Made
<1>6. CodesAreRedeemedOnce'
  <2>1. \A x \in Requests : Redeeming(x)' <=> Redeeming(x)
    BY <1>1 DEF Redeeming, Made
  <2>2. \A x \in Requests : (Made(x)' <=> Made(x)) /\ req'[x].op = req[x].op /\ req'[x].of = req[x].of
    BY <1>1 DEF Made
  <2>3. code[c] = "none" /\ code'[c] = "live" /\ \A x \in Requests \ {c} : code'[x] = code[x]
    BY <1>1 DEF CodesAreRedeemedOnce, AccessTypeOK
  <2>4. \A x \in Requests : Redeeming(x) => req[x].of # c /\ req[x].of \in Requests
    BY <2>3 DEF CodesAreRedeemedOnce, RequestsAreAbout, Redeeming
  <2> QED BY <1>1, <2>1, <2>2, <2>3, <2>4 DEF CodesAreRedeemedOnce
<1>7. KeysAreHandedOver'
  <2>1. \A g \in given : g.to \in Requests /\ g.to # c BY <1>1 DEF KeysAreHandedOver, AccessTypeOK
  <2> QED BY <1>1, <2>1 DEF KeysAreHandedOver, KeyOf, Made
<1> QED BY <1>2, <1>4, <1>5, <1>6, <1>7

LEMMA CodeAges == ASSUME AccessInv, NEW c \in Requests, CodeGoesStale(c) PROVE AccessInv'
<1> USE DEF AccessInv, CodeGoesStale
<1>1. AccessTypeOK' BY DEF AccessTypeOK, Code
<1>2. \A x \in Requests : (code'[x] = "none" <=> code[x] = "none") /\ (code'[x] = "gone" <=> code[x] = "gone")
  BY DEF AccessTypeOK
<1>3. RequestsAreAbout' /\ KeysAreMade' /\ KeysAreHandedOver'
  BY DEF RequestsAreAbout, KeysAreMade, Rows, KeysAreHandedOver, KeyOf, Made
<1>4. CodesAreRedeemedOnce'
  <2>1. \A x \in Requests : Redeeming(x) => req[x].of \in Requests
    BY DEF RequestsAreAbout, Redeeming
  <2> QED BY <1>2, <2>1 DEF CodesAreRedeemedOnce, Redeeming, Made
<1> QED BY <1>1, <1>3, <1>4

\* A code that is redeemed is gone before its key is on the way.
LEMMA RedeemStep == ASSUME AccessInv, NEW c \in Requests, NEW a \in Requests, Redeem(c, a) PROVE AccessInv'
<1> USE DEF AccessInv
<1>1. PICK step \in {"answer", "refused"}, cleaned \in {{}, Stale} :
        /\ Make(c, "exchange", step, a) /\ code' = Without(a, cleaned)
        /\ step = "answer" => code[a] = "live"
  BY DEF Redeem
<1>2. /\ Made(a) /\ req[a].op = "authorize" /\ UNCHANGED <<agent, sessions, old, given, form>>
  BY DEF Redeem, Made
<1>3. /\ Typed' /\ ~Made(c) /\ Made(c)'
      /\ req'[c].op = "exchange" /\ req'[c].step = step /\ req'[c].of = a
      /\ \A o \in Requests \ {c} : req'[o] = req[o]
  BY <1>1, Makes DEF Typed, AccessTypeOK, AccessOps, Steps
<1>4. /\ code' \in [Requests -> Code]
      /\ code'[a] = IF code[a] = "none" THEN "none" ELSE "gone"
      /\ \A b \in Requests \ {a} : /\ code'[b] = "none" <=> code[b] = "none"
                                   /\ code'[b] = "gone" <=> code[b] = "gone"
  BY <1>1 DEF Without, Stale, AccessTypeOK, Code
<1>5. AccessTypeOK' BY <1>2, <1>3, <1>4 DEF AccessTypeOK, Typed
<1>6. Rows' = Rows /\ \A b \in Rows : agent[b].key \in Requests
  BY <1>2 DEF Rows, AccessTypeOK, Agent
<1>7. RequestsAreAbout' BY <1>2, <1>3, <1>6 DEF RequestsAreAbout, Made
<1>8. KeysAreMade' BY <1>2, <1>3, <1>6 DEF KeysAreMade, Made
<1>9. CodesAreRedeemedOnce'
  <2>1. \A x \in Requests \ {c} : (Redeeming(x)' <=> Redeeming(x)) /\ (Made(x)' <=> Made(x))
    BY <1>3 DEF Redeeming, Made
  <2>2. \A x \in Requests : code'[x] # "none" <=> Made(x)' /\ req'[x].op = "authorize" /\ req'[x].step = "ok"
    BY <1>3, <1>4, <2>1 DEF CodesAreRedeemedOnce
  <2>3. ASSUME NEW x \in Requests, code'[x] = "gone"
        PROVE  \E y \in Requests : Made(y)' /\ req'[y].op = "exchange" /\ req'[y].of = x
    <3>1. CASE x = a BY <1>3, <3>1
    <3>2. CASE x # a
      <4>1. PICK y \in Requests : Made(y) /\ req[y].op = "exchange" /\ req[y].of = x
        BY <1>4, <2>3, <3>2 DEF CodesAreRedeemedOnce
      <4> QED BY <1>3, <2>1, <4>1
    <3> QED BY <3>1, <3>2
  <2>4. \A x \in Requests \ {c} : Redeeming(x) =>
          req'[x] = req[x] /\ req[x].of \in Requests /\ code[req[x].of] = "gone"
    BY <1>3 DEF CodesAreRedeemedOnce, RequestsAreAbout, Redeeming
  <2>5. Redeeming(c)' => code[a] = "live" /\ code'[a] = "gone"
    BY <1>1, <1>3, <1>4 DEF Redeeming
  <2>6. \A x \in Requests : Redeeming(x)' => code'[req'[x].of] = "gone"
    BY <1>3, <1>4, <2>1, <2>4, <2>5
  <2>7. \A x, y \in Requests : Redeeming(x)' /\ Redeeming(y)' /\ req'[x].of = req'[y].of => x = y
    BY <1>3, <2>1, <2>4, <2>5 DEF CodesAreRedeemedOnce
  <2> QED BY <2>2, <2>3, <2>6, <2>7 DEF CodesAreRedeemedOnce
<1>10. KeysAreHandedOver'
  <2>1. \A g \in given : g.to \in Requests /\ g.to # c BY <1>3 DEF KeysAreHandedOver, AccessTypeOK
  <2> QED BY <1>1, <1>2, <1>3, <2>1 DEF KeysAreHandedOver, KeyOf, Made
<1> QED BY <1>5, <1>7, <1>8, <1>9, <1>10

LEMMA HandOverStep == ASSUME AccessInv, NEW c \in Requests, HandOver(c) PROVE AccessInv'
<1> USE DEF AccessInv
<1>1. /\ Made(c) /\ req[c].op \in {"register", "rotate", "exchange"} /\ req[c].step = "answer"
      /\ MoveOn(c, "ok") /\ UNCHANGED <<agent, code, sessions, old, form>>
      /\ given' = given \cup {[key |-> KeyOf(c), to |-> c]}
  BY DEF HandOver, Answering, Reached, Made, KeyOf
<1>2. /\ Typed' /\ Made(c)'
      /\ req'[c].op = req[c].op /\ req'[c].step = "ok" /\ req'[c].of = req[c].of
      /\ \A o \in Requests \ {c} : req'[o] = req[o]
  BY <1>1, Moves DEF Typed, AccessTypeOK, Steps
<1>3. KeyOf(c) \in Requests BY <1>1 DEF KeyOf, RequestsAreAbout
<1>4. AccessTypeOK' BY <1>1, <1>2, <1>3 DEF AccessTypeOK, Typed
<1>5. Rows' = Rows /\ \A b \in Rows : agent[b].key \in Requests
  BY <1>1 DEF Rows, AccessTypeOK, Agent
<1>6. RequestsAreAbout' BY <1>1, <1>2, <1>5 DEF RequestsAreAbout, Made
<1>7. KeysAreMade' BY <1>1, <1>2, <1>5 DEF KeysAreMade, Made
<1>8. CodesAreRedeemedOnce'
  <2>1. \A x \in Requests : Redeeming(x)' <=> Redeeming(x)
    BY <1>1, <1>2 DEF Redeeming, Made
  <2>2. \A x \in Requests : (Made(x)' <=> Made(x)) /\ req'[x].op = req[x].op /\ req'[x].of = req[x].of
    BY <1>1, <1>2 DEF Made
  <2>3. \A x \in Requests : Made(x) /\ req[x].op = "authorize" => req'[x].step = req[x].step
    BY <1>1, <1>2
  <2> QED BY <1>1, <2>1, <2>2, <2>3 DEF CodesAreRedeemedOnce
<1>9. KeysAreHandedOver'
  <2>1. \A g \in given : g.to \in Requests /\ g.to # c BY <1>1 DEF KeysAreHandedOver, AccessTypeOK
  <2>2. \A x \in Requests : KeyOf(x)' = KeyOf(x) BY <1>2 DEF KeyOf
  <2>3. [key |-> KeyOf(c), to |-> c].key = KeyOf(c) /\ [key |-> KeyOf(c), to |-> c].to = c OBVIOUS
  <2>4. ASSUME NEW x \in Requests, Made(x)', req'[x].op \in {"register", "rotate", "exchange"}, req'[x].step = "ok"
        PROVE  \E g \in given' : g.key = KeyOf(x)
    <3>1. CASE x = c BY <1>1, <2>3, <3>1
    <3>2. CASE x # c
      <4>1. \E g \in given : g.key = KeyOf(x) BY <1>2, <2>4, <3>2 DEF KeysAreHandedOver, Made
      <4> QED BY <1>1, <4>1
    <3> QED BY <3>1, <3>2
  <2>5. ASSUME NEW g \in given'
        PROVE  /\ Made(g.to)' /\ req'[g.to].step = "ok" /\ g.key = KeyOf(g.to)
               /\ req'[g.to].op \in {"register", "rotate", "exchange"}
    <3>1. CASE g = [key |-> KeyOf(c), to |-> c] BY <1>1, <1>2, <2>3, <3>1
    <3>2. CASE g \in given BY <1>2, <2>1, <3>2 DEF KeysAreHandedOver, Made
    <3> QED BY <1>1, <3>1, <3>2
  <2>6. \A g \in given' : g.to \in Requests BY <1>4 DEF AccessTypeOK
  <2> QED BY <2>2, <2>4, <2>5, <2>6 DEF KeysAreHandedOver
<1> QED BY <1>4, <1>6, <1>7, <1>8, <1>9

LEMMA RequestStep ==
  ASSUME AccessConstants, AccessInv, NEW c \in Requests, Request(c)
  PROVE  AccessInv'
<1> USE DEF AccessInv
<1>1. UNCHANGED <<sessions, old, form>> => RestTyped BY DEF AccessTypeOK, RestTyped
<1>2. ASSUME NEW s \in Slugs, Register(c, s) PROVE AccessInv'
  <2>1. \E op \in {"register", "authorize"} : Make(c, op, "find", s) BY <1>2 DEF Register
  <2>2. UNCHANGED <<agent, code, sessions, old, given, form>> BY <1>2 DEF Register
  <2> QED BY <1>1, <2>1, <2>2, MakeStep DEF AccessOps, Steps
<1>3. ASSUME NEW s \in Slugs, Submit(c, s) \/ SubmitAgain(c, s) PROVE AccessInv'
  <2>1. Make(c, "register", "find", s) /\ UNCHANGED <<agent, code, sessions, old, given>>
    BY <1>3 DEF Submit, SubmitAgain
  <2>2. RestTyped BY <1>3 DEF Submit, SubmitAgain, RestTyped, Form, AccessTypeOK
  <2> QED BY <2>1, <2>2, MakeStep DEF AccessOps, Steps
<1>4. ASSUME NEW a \in Requests, Redeem(c, a) PROVE AccessInv'
  BY <1>4, RedeemStep
<1>5. ASSUME NEW a \in Requests, Rotate(c, a) PROVE AccessInv'
  <2>1. a \in Rows BY <1>5 DEF Rotate, Authenticated, Rows
  <2> QED BY <1>1, <1>5, <2>1, MakeStep DEF Rotate, AccessOps, Steps
<1>6. ASSUME NEW a \in Requests, Initialize(c, a) PROVE AccessInv'
  <2>1. \E s \in {"refused", "connect"} : Make(c, "initialize", s, Nothing) BY <1>6 DEF Initialize
  <2> QED BY <1>1, <1>6, <2>1, MakeStep DEF Initialize, AccessOps, Steps
<1>7. ASSUME NEW a \in Requests, NEW s \in Requests, Close(c, a, s) PROVE AccessInv'
  <2>1. \E st \in {"closing", "refused"} : Make(c, "close", st, s) BY <1>7 DEF Close
  <2> QED BY <1>1, <1>7, <2>1, MakeStep DEF Close, AccessOps, Steps
<1> QED BY <1>2, <1>3, <1>4, <1>5, <1>6, <1>7 DEF Request

LEMMA ProvideStep ==
  ASSUME AccessConstants, AccessInv, NEW c \in Requests, Provide(c)
  PROVE  AccessInv'
<1> USE DEF AccessInv
<1>1. UNCHANGED <<sessions, old, form>> => RestTyped BY DEF AccessTypeOK, RestTyped
<1>2. CASE FindSlug(c)
  <2>1. Made(c) /\ req[c].op \in {"register", "authorize"} /\ req[c].step = "find"
    BY <1>2 DEF FindSlug, Reached, Made
  <2>2. \E s \in {"conflict", "insert"} : MoveOn(c, s) BY <1>2 DEF FindSlug
  <2> QED BY <1>1, <1>2, <2>1, <2>2, MoveStep DEF FindSlug, Steps
<1>3. CASE InsertAgent(c)
  <2>1. /\ Made(c) /\ req[c].op \in {"register", "authorize"} /\ req[c].step = "insert"
        /\ UNCHANGED <<code, sessions, old, given, form>>
    BY <1>3 DEF InsertAgent, Reached, Made
  <2>2. CASE Taken(req[c].of)
    BY <1>1, <1>3, <2>1, <2>2, MoveStep DEF InsertAgent, Steps
  <2>3. CASE ~Taken(req[c].of)
    <3> DEFINE r == [slug |-> req[c].of, key |-> c, active |-> TRUE, due |-> FALSE]
    <3>1. req[c].of \in Slugs BY <2>1 DEF RequestsAreAbout
    <3>2. r \in Agent /\ r.key = c BY <3>1 DEF Agent
    <3>3. r # NoAgent
      <4>1. r.slug = req[c].of /\ NoAgent.slug = Nothing BY DEF NoAgent
      <4> QED BY <3>1, <4>1 DEF AccessConstants
    <3>4. agent' = [agent EXCEPT ![c] = r] BY <1>3, <2>3 DEF InsertAgent
    <3>5. \/ req[c].op = "register" /\ MoveOn(c, "answer")
          \/ req[c].op = "authorize" /\ MoveOn(c, "code")
      BY <1>3, <2>1, <2>3 DEF InsertAgent
    <3> HIDE DEF r
    <3>6. /\ agent' \in [Requests -> Agent \cup {NoAgent}] /\ agent'[c] = r
          /\ \A b \in Requests \ {c} : agent'[b] = agent[b]
      BY <3>2, <3>4 DEF AccessTypeOK
    <3> QED BY <2>1, <3>2, <3>3, <3>5, <3>6, KeyStep
  <2> QED BY <2>2, <2>3
<1>4. CASE InsertCode(c)
  <2>1. CASE code' = [code EXCEPT ![c] = "live"] /\ MoveOn(c, "ok")
    BY <1>4, <2>1, StoresCode DEF InsertCode
  <2>2. CASE code' = code /\ MoveOn(c, "failed")
    BY <1>1, <1>4, <2>2, MoveStep DEF InsertCode, Reached, Made, Steps
  <2> QED BY <1>4, <2>1, <2>2 DEF InsertCode
<1>5. CASE CodeGoesStale(c) BY <1>5, CodeAges
<1>6. CASE RotateWrite(c)
  <2> DEFINE a == req[c].of
             r == [agent[a] EXCEPT !.key = c]
  <2>1. /\ Made(c) /\ req[c].op = "rotate" /\ req[c].step = "write" /\ MoveOn(c, "answer")
        /\ UNCHANGED <<code, sessions, old, given, form>>
    BY <1>6 DEF RotateWrite, Reached, Made
  <2>2. a \in Requests /\ agent[a] \in Agent BY <2>1 DEF RequestsAreAbout, Rows, AccessTypeOK
  <2>3. r \in Agent /\ r.key = c BY <2>2 DEF Agent
  <2>4. NoAgent \notin Agent
    <3>1. \A x \in Agent : x.slug \in Slugs BY DEF Agent
    <3>2. NoAgent.slug = Nothing BY DEF NoAgent
    <3> QED BY <3>1, <3>2 DEF AccessConstants
  <2>5. agent' = [agent EXCEPT ![a] = r] BY <1>6 DEF RotateWrite
  <2> HIDE DEF a, r
  <2>6. /\ agent' \in [Requests -> Agent \cup {NoAgent}] /\ agent'[a] = r
        /\ \A b \in Requests \ {a} : agent'[b] = agent[b]
    BY <2>2, <2>3, <2>5 DEF AccessTypeOK
  <2>7. agent'[a] # NoAgent /\ agent'[a].key = c BY <2>3, <2>4, <2>6
  <2> QED BY <2>1, <2>2, <2>6, <2>7, KeyStep
<1>7. CASE HandOver(c) BY <1>7, HandOverStep
<1>8. CASE AnswerLost(c)
  BY <1>1, <1>8, MoveStep DEF AnswerLost, Answering, Reached, Made, Steps
<1>9. CASE LifetimeEnds(c)
  <2>1. RowsStay
    <3>1. agent[c] \in Agent /\ agent[c] # NoAgent BY <1>9 DEF LifetimeEnds, Rows, AccessTypeOK
    <3> DEFINE r == [agent[c] EXCEPT !.due = TRUE]
    <3>2. r \in Agent /\ r.key = agent[c].key /\ r.slug \in Slugs BY <3>1 DEF Agent
    <3>3. r # NoAgent
      <4>1. NoAgent.slug = Nothing BY DEF NoAgent
      <4> QED BY <3>2, <4>1 DEF AccessConstants
    <3>4. agent' = [agent EXCEPT ![c] = r] BY <1>9 DEF LifetimeEnds
    <3> HIDE DEF r
    <3> QED BY <3>1, <3>2, <3>3, <3>4 DEF RowsStay, AccessTypeOK
  <2> QED BY <1>1, <1>9, <2>1, RowsStep DEF LifetimeEnds
<1>10. CASE SessionInitialized(c)
  <2>1. Made(c) /\ req[c].op = "initialize" BY <1>10 DEF SessionInitialized, Initializing, Reached, Made
  <2>2. RestTyped BY <1>10 DEF SessionInitialized, RestTyped, AccessTypeOK
  <2>3. \E s \in {"ok", "failed"} : MoveOn(c, s) BY <1>10 DEF SessionInitialized
  <2> QED BY <1>10, <2>1, <2>2, <2>3, MoveStep DEF SessionInitialized, Steps
<1>11. CASE SessionClosed(c)
  <2>1. RestTyped BY <1>11 DEF SessionClosed, RestTyped, AccessTypeOK
  <2> QED BY <1>11, <2>1, MoveStep DEF SessionClosed, Reached, Made, Steps
<1>12. CASE SessionAges(c)
  <2>1. RestTyped BY <1>12 DEF SessionAges, RestTyped, AccessTypeOK
  <2>2. RowsStay BY <1>12 DEF SessionAges, RowsStay, AccessTypeOK
  <2> QED BY <1>12, <2>1, <2>2, RowsStep DEF SessionAges
<1> QED BY <1>2, <1>3, <1>4, <1>5, <1>6, <1>7, <1>8, <1>9, <1>10, <1>11, <1>12 DEF Provide

LEMMA AccessStep == AccessConstants /\ AccessInv /\ [AccessNext]_accessVars => AccessInv'
<1> SUFFICES ASSUME AccessConstants, AccessInv, [AccessNext]_accessVars PROVE AccessInv'
  OBVIOUS
<1> USE DEF AccessInv
<1>1. CASE \E c \in Requests : Request(c) BY <1>1, RequestStep
<1>2. CASE \E c \in Requests : Provide(c) BY <1>2, ProvideStep
<1>3. CASE FormAnswered
  <2>1. RestTyped BY <1>3 DEF FormAnswered, RestTyped, Form, AccessTypeOK
  <2>2. RowsStay BY <1>3 DEF FormAnswered, RowsStay, AccessTypeOK
  <2> QED BY <1>3, <2>1, <2>2, RowsStep DEF FormAnswered
<1>4. CASE deactivateExpiredAgents
  <2>1. RowsStay
    <3>1. agent' = [a \in Requests |-> IF a \in Rows /\ agent[a].due
                                       THEN [agent[a] EXCEPT !.active = FALSE] ELSE agent[a]]
      BY <1>4 DEF deactivateExpiredAgents
    <3>2. NoAgent \notin Agent
      <4>1. \A x \in Agent : x.slug \in Slugs BY DEF Agent
      <4>2. NoAgent.slug = Nothing BY DEF NoAgent
      <4> QED BY <4>1, <4>2 DEF AccessConstants
    <3>3. ASSUME NEW r \in Agent
          PROVE  [r EXCEPT !.active = FALSE] \in Agent /\ [r EXCEPT !.active = FALSE].key = r.key
      BY DEF Agent
    <3>4. ASSUME NEW a \in Requests
          PROVE  /\ agent'[a] \in Agent \cup {NoAgent} /\ (agent[a] # NoAgent <=> agent'[a] # NoAgent)
                 /\ agent[a] # NoAgent => agent'[a].key = agent[a].key
      BY <3>1, <3>2, <3>3 DEF Rows, AccessTypeOK
    <3>5. agent' = [a \in Requests |-> agent'[a]] BY <3>1
    <3> QED BY <3>4, <3>5 DEF RowsStay
  <2>2. RestTyped BY <1>4 DEF deactivateExpiredAgents, RestTyped, AccessTypeOK
  <2> QED BY <1>4, <2>1, <2>2, RowsStep DEF deactivateExpiredAgents
<1>5. CASE SweepSessions
  <2>1. RestTyped BY <1>5 DEF SweepSessions, RestTyped, AccessTypeOK
  <2>2. RowsStay BY <1>5 DEF SweepSessions, RowsStay, AccessTypeOK
  <2> QED BY <1>5, <2>1, <2>2, RowsStep DEF SweepSessions
<1>6. CASE UNCHANGED accessVars
  <2>1. RestTyped BY <1>6 DEF accessVars, RestTyped, AccessTypeOK
  <2>2. RowsStay BY <1>6 DEF accessVars, RowsStay, AccessTypeOK
  <2> QED BY <1>6, <2>1, <2>2, RowsStep DEF accessVars
<1> QED BY <1>1, <1>2, <1>3, <1>4, <1>5, <1>6 DEF AccessNext

LEMMA AccessConstantsStay == AccessConstants => AccessConstants'
BY DEF AccessConstants

\* Agents, codes, sessions, requests and the form keep their types.
THEOREM AccessTypeCorrect == AccessConstants => (AccessSpec => []AccessTypeOK)
<1>1. AccessInv => AccessTypeOK BY DEF AccessInv
<1> QED BY <1>1, AccessInitially, AccessStep, AccessConstantsStay, PTL DEF AccessSpec

\* For any number of requests and slugs: of the redemptions of one code at most one is
\* answered with the key, and no agent's key disappears without a trace of how.
THEOREM OneOwnerCorrect == AccessConstants => (AccessSpec => []KeysReachOneOwner)
BY InvSaysOneOwner, AccessInitially, AccessStep, AccessConstantsStay, PTL DEF AccessSpec
================================================================================
