-------------------------------- MODULE SignIn --------------------------------
(***************************************************************************)
(* How a person signs in: the code that is mailed and the session it buys, *)
(* both on the row of the person (services/auth.service.ts), the session's *)
(* check on every request (middleware/human-auth.ts), and one browser with *)
(* several tabs that share its stored token (web/src/stores/authStore.ts,  *)
(* web/src/api/client.ts, web/src/components/auth/LoginForm.tsx).          *)
(*                                                                         *)
(* A code is the call that had it made, a session token the call that was  *)
(* given it.                                                               *)
(***************************************************************************)
EXTENDS Naturals, FiniteSets

CONSTANTS
  Calls,        \* requests the browser sends; each is sent at most once
  Tabs,
  WrongCode,    \* what is typed when it is not a code that was mailed
  MaxAttempts,  \* VERIFICATION_MAX_ATTEMPTS
  Earlier,      \* a sign-in from before
  None

SignInConstants ==
  /\ MaxAttempts \in Nat \ {0}
  /\ {None, WrongCode, Earlier} \cap Calls = {}
  /\ None \notin {WrongCode, Earlier} /\ WrongCode # Earlier

VARIABLES
  account,  \* the row in humans
  inbox,    \* codes that were mailed
  call,     \* what each request is, how far the server is, whether the tab waits
  token,    \* localStorage: the token the tabs share
  tab,      \* the page each tab is on
  alone     \* no comparison of a code has overlapped another or a new code

signInVars == <<account, inbox, call, token, tab, alone>>

--------------------------------------------------------------------------------
Ops     == {"send", "verify", "load", "request", "logout"}
Serving == {"sent", "mail", "compare", "clear"}
Replies == {"ok", "unauthorized", "failed"}
Call    == [op : Ops, step : Serving \cup Replies, tab : Tabs, open : BOOLEAN,
            carries : Calls \cup {None, WrongCode, Earlier}, code : Calls \cup {None}, attempts : Nat]
Unsent  == [step |-> "unsent", open |-> FALSE]

Pages == {"closed", "email", "code", "app"}

Account == [code : Calls \cup {None}, fresh : BOOLEAN, attempts : Nat,
            session : Calls \cup {None, Earlier}, lasts : BOOLEAN]

SignInTypeOK ==
  /\ account \in Account
  /\ inbox \in SUBSET Calls
  /\ call \in [Calls -> Call \cup {Unsent}]
  /\ token \in Calls \cup {None, Earlier}
  /\ tab \in [Tabs -> Pages]
  /\ alone \in BOOLEAN

SignInInit ==
  /\ token \in {None, Earlier}
  /\ account = [code |-> None, fresh |-> FALSE, attempts |-> 0, session |-> token, lasts |-> token # None]
  /\ inbox = {}
  /\ call = [c \in Calls |-> Unsent]
  /\ tab = [t \in Tabs |-> "closed"]
  /\ alone = TRUE

Send(c, t, op, carries) ==
  /\ call[c] = Unsent
  /\ call' = [call EXCEPT ![c] = [op |-> op, step |-> "sent", tab |-> t, open |-> TRUE,
                                  carries |-> carries, code |-> None, attempts |-> 0]]

At(c, op, step) == call[c] # Unsent /\ call[c].op = op /\ call[c].step = step

Go(c, step) == call' = [call EXCEPT ![c].step = step]

Comparing(c) == At(c, "verify", "compare")

--------------------------------------------------------------------------------
(* The server: codes *)

\* No invitation and no conversation: the address may not sign in.
SendRefused(c) ==
  /\ At(c, "send", "sent")
  /\ Go(c, "failed")
  /\ UNCHANGED <<account, inbox, token, tab, alone>>

\* Mutant: the attempts of the last code are kept.
WriteCodeKeepingAttempts(c) ==
  /\ At(c, "send", "sent")
  /\ account' = [account EXCEPT !.code = c, !.fresh = TRUE]
  /\ alone' = (alone /\ \A o \in Calls : ~Comparing(o))
  /\ Go(c, "mail")
  /\ UNCHANGED <<inbox, token, tab>>

\* createVerificationCode: a new code takes the place of the last one.
WriteCode(c) ==
  /\ At(c, "send", "sent")
  /\ account' = [account EXCEPT !.code = c, !.fresh = TRUE, !.attempts = 0]
  /\ alone' = (alone /\ \A o \in Calls : ~Comparing(o))
  /\ Go(c, "mail")
  /\ UNCHANGED <<inbox, token, tab>>

\* The mail is sent, or the request fails with the code already stored.
MailCode(c) ==
  /\ At(c, "send", "mail")
  /\ \/ inbox' = inbox \cup {c} /\ Go(c, "ok")
     \/ inbox' = inbox /\ Go(c, "failed")
  /\ UNCHANGED <<account, token, tab, alone>>

\* verifyCode reads the row; what it read is what it goes by.
VerifyRead(c) ==
  /\ At(c, "verify", "sent")
  /\ IF account.code = None \/ ~account.fresh \/ account.attempts >= MaxAttempts
     THEN Go(c, "unauthorized") /\ alone' = alone
     ELSE /\ call' = [call EXCEPT ![c].step = "compare", ![c].code = account.code,
                                  ![c].attempts = account.attempts]
          /\ alone' = (alone /\ \A o \in Calls \ {c} : ~Comparing(o))
  /\ UNCHANGED <<account, inbox, token, tab>>

\* After the slow comparison the counter is written as the value read plus one.
VerifyWrong(c) ==
  /\ Comparing(c) /\ call[c].carries # call[c].code
  /\ account' = [account EXCEPT !.attempts = call[c].attempts + 1]
  /\ Go(c, "unauthorized")
  /\ UNCHANGED <<inbox, token, tab, alone>>

\* The code is cleared, whichever it is by now, and the one session replaced.
VerifyRight(c) ==
  /\ Comparing(c) /\ call[c].carries = call[c].code
  /\ account' = [code |-> None, fresh |-> FALSE, attempts |-> 0, session |-> c, lasts |-> TRUE]
  /\ Go(c, "ok")
  /\ UNCHANGED <<inbox, token, tab, alone>>

CodeExpires ==
  /\ account.fresh
  /\ account' = [account EXCEPT !.fresh = FALSE]
  /\ UNCHANGED <<inbox, call, token, tab, alone>>

--------------------------------------------------------------------------------
(* The server: sessions *)

Works(k) == k # None /\ account.session = k /\ account.lasts

\* humanAuth; what a page asks for is then done, a logout has its own statement.
Authenticate(c) ==
  /\ \E op \in {"load", "request", "logout"} : At(c, op, "sent")
  /\ Go(c, IF ~Works(call[c].carries) THEN "unauthorized"
           ELSE IF call[c].op = "logout" THEN "clear" ELSE "ok")
  /\ UNCHANGED <<account, inbox, token, tab, alone>>

\* By id: whatever session the row has by now.
Logout(c) ==
  /\ At(c, "logout", "clear")
  /\ account' = [account EXCEPT !.session = None, !.lasts = FALSE]
  /\ Go(c, "ok")
  /\ UNCHANGED <<inbox, token, tab, alone>>

SessionExpires ==
  /\ account.lasts
  /\ account' = [account EXCEPT !.lasts = FALSE]
  /\ UNCHANGED <<inbox, call, token, tab, alone>>

--------------------------------------------------------------------------------
(* The browser *)

\* LoginForm disables itself while it waits.
Waiting(t) == \E c \in Calls : call[c].open /\ call[c].tab = t /\ call[c].op \in {"send", "verify"}

\* A page that is loaded forgets what it waited for.
Forget(t) == [c \in Calls |-> IF call[c].open /\ call[c].tab = t
                              THEN [call[c] EXCEPT !.open = FALSE] ELSE call[c]]

\* ProtectedRoute: without a token the app leads to the login page; with one the
\* dashboard asks who it is.
OpenLogin(t) ==
  /\ tab[t] = "closed" \/ (tab[t] = "app" /\ token = None)
  /\ tab' = [tab EXCEPT ![t] = "email"]
  /\ call' = Forget(t)
  /\ UNCHANGED <<account, inbox, token, alone>>

OpenApp(c, t) ==
  /\ token # None
  /\ tab[t] = "closed"
  /\ Send(c, t, "load", token)
  /\ tab' = [tab EXCEPT ![t] = "app"]
  /\ UNCHANGED <<account, inbox, token, alone>>

SendCode(c, t) ==
  /\ tab[t] \in {"email", "code"} /\ ~Waiting(t)
  /\ Send(c, t, "send", None)
  /\ UNCHANGED <<account, inbox, token, tab, alone>>

UseAnotherEmail(t) ==
  /\ tab[t] = "code"
  /\ tab' = [tab EXCEPT ![t] = "email"]
  /\ UNCHANGED <<account, inbox, call, token, alone>>

\* The last digit, or six pasted ones, send the code.
Verify(c, t) ==
  /\ tab[t] = "code" /\ ~Waiting(t)
  /\ \E code \in inbox \cup {WrongCode} : Send(c, t, "verify", code)
  /\ UNCHANGED <<account, inbox, token, tab, alone>>

Ask(c, t) ==
  /\ tab[t] = "app"
  /\ \E op \in {"request", "logout"} : Send(c, t, op, token)
  /\ UNCHANGED <<account, inbox, token, tab, alone>>

Hang(c) == call' = [call EXCEPT ![c].open = FALSE]

Answered(c, op, replies) == call[c].open /\ call[c].op = op /\ call[c].step \in replies

Turn(c, page) == tab' = [tab EXCEPT ![call[c].tab] = page]

SendAnswered(c) ==
  /\ Answered(c, "send", Replies)
  /\ IF call[c].step = "ok" THEN Turn(c, "code") ELSE tab' = tab
  /\ Hang(c)
  /\ UNCHANGED <<account, inbox, token, alone>>

\* login: the token is stored and the tab goes to the app.
VerifyGranted(c) ==
  /\ Answered(c, "verify", {"ok"})
  /\ token' = c
  /\ Turn(c, "app")
  /\ Hang(c)
  /\ UNCHANGED <<account, inbox, alone>>

\* Mutant: a 401 of /auth/ counts as a session that is over.
VerifyRefusedAsSession(c) ==
  /\ Answered(c, "verify", {"unauthorized"})
  /\ Hang(c)
  /\ token' = None
  /\ UNCHANGED <<account, inbox, tab, alone>>

\* A 401 of /auth/ is about the code: the digits are cleared, the token stays.
VerifyRefused(c) ==
  /\ Answered(c, "verify", {"unauthorized"})
  /\ Hang(c)
  /\ UNCHANGED <<account, inbox, token, tab, alone>>

RequestAnswered(c) ==
  /\ Answered(c, "request", {"ok"}) \/ Answered(c, "load", {"ok"})
  /\ Hang(c)
  /\ UNCHANGED <<account, inbox, token, tab, alone>>

\* Any other 401: the stored token goes, whichever it is by now, and the tab loads
\* the login page.
RequestRefused(c) ==
  /\ Answered(c, "request", {"unauthorized"}) \/ Answered(c, "load", {"unauthorized"})
  /\ token' = None
  /\ Turn(c, "email")
  /\ call' = Forget(call[c].tab)
  /\ UNCHANGED <<account, inbox, alone>>

\* logout: the token goes whatever the server says.
LogoutAnswered(c) ==
  /\ Answered(c, "logout", {"ok", "unauthorized"})
  /\ token' = None
  /\ Turn(c, "email")
  /\ Hang(c)
  /\ UNCHANGED <<account, inbox, alone>>

\* The network fails: the server may still be at it.  hydrate takes any failure for
\* a session that is over, logout goes on regardless.
Lost(c) ==
  /\ call[c].open
  /\ Hang(c)
  /\ IF call[c].op \in {"load", "logout"} THEN token' = None /\ Turn(c, "email")
                                         ELSE token' = token /\ tab' = tab
  /\ UNCHANGED <<account, inbox, alone>>

--------------------------------------------------------------------------------
ServeSignIn(c) ==
  \/ SendRefused(c) \/ WriteCode(c) \/ MailCode(c)
  \/ VerifyRead(c) \/ VerifyWrong(c) \/ VerifyRight(c)
  \/ Authenticate(c) \/ Logout(c)

UseTab(t) ==
  \/ OpenLogin(t) \/ UseAnotherEmail(t)
  \/ \E c \in Calls : OpenApp(c, t) \/ SendCode(c, t) \/ Verify(c, t) \/ Ask(c, t)

TakeAnswer(c) ==
  \/ SendAnswered(c) \/ VerifyGranted(c) \/ VerifyRefused(c)
  \/ RequestAnswered(c) \/ RequestRefused(c) \/ LogoutAnswered(c) \/ Lost(c)

SignInNext ==
  \/ \E c \in Calls : ServeSignIn(c) \/ TakeAnswer(c)
  \/ \E t \in Tabs : UseTab(t)
  \/ CodeExpires \/ SessionExpires

SignInSpec == SignInInit /\ [][SignInNext]_signInVars

--------------------------------------------------------------------------------
\* As long as no comparison overlaps another or the making of a code, the counter of
\* verifyCode says how often the code on the row was tried and found wrong: no try
\* goes uncounted, and a new code does not inherit the tries of an older one.
TriesAreCounted ==
  alone /\ account.code # None =>
    account.attempts =
      Cardinality({c \in Calls : At(c, "verify", "unauthorized") /\ call[c].code = account.code})

\* A browser does not lose a token that works, except to a sign-out, to the refusal of
\* a request that carried another token, or to a page that could not be loaded
\* (api/client.ts, stores/authStore.ts).
TokenKept ==
  [][token # None /\ Works(token) /\ token' = None =>
       \E c \in Calls :
         /\ call[c].open /\ ~call'[c].open
         /\ \/ call[c].op = "logout"
            \/ call[c].op \in {"load", "request"} /\ call[c].carries # token
            \/ call[c].op = "load" /\ call[c].step # "unauthorized"]_signInVars

================================================================================
