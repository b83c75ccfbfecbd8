-------------------------------- MODULE ChatStore ------------------------------
(***************************************************************************)
(* The messages of one conversation, in the database                       *)
(* (services/message.service.ts) and in the list a tab shows               *)
(* (web/src/stores/conversationStore.ts), which three writers share: pages *)
(* that were fetched, messages that are pushed, and the tab's own sends    *)
(* with their placeholders.                                                *)
(***************************************************************************)
EXTENDS Naturals, Sequences, FiniteSets, Functions

CONSTANTS
  Messages,  \* messages of the conversation, each inserted at most once
  Own,       \* those the tab sends itself
  Uploads,   \* those with a file, which is stored after the row
  Answer,    \* the message that records the human's answer to the query
  Fetches,   \* page requests of the tab, each made at most once
  Page,      \* messages in a page (50 in the code)
  None

ASSUME StoreConstants ==
  /\ Own \subseteq Messages /\ Uploads \subseteq Messages \ Own
  /\ Page \in Nat \ {0}
  /\ None \notin Messages

VARIABLES
  rows,    \* messages in the order of their creation
  stage,   \* how far the server is with each message
  sending, \* how far the tab is with each message of its own
  list,    \* messagesMap
  cursor, hasMore,
  fetch,   \* the page requests
  base,    \* position in rows of the oldest message of the page the list starts from
  missed,  \* messages that did not reach the tab when they were published
  hidden   \* messages a page took out of the list, or brought in without their file

storeVars == <<rows, stage, sending, list, cursor, hasMore, fetch,
               base, missed, hidden>>

--------------------------------------------------------------------------------
Entry == [id : Messages, temp : BOOLEAN, whole : BOOLEAN]

Placeholder(m) == [id |-> m, temp |-> TRUE, whole |-> TRUE]
Shown(m)       == [id |-> m, temp |-> FALSE, whole |-> TRUE]

Unasked == [state |-> "unasked"]
Over    == [state |-> "over"]
Asked   == [state : {"asked"}, kind : {"first", "older"}, cursor : Messages \cup {None}]
Read    == [state : {"read"}, kind : {"first"}, data : Seq(Entry),
            next : Messages \cup {None}, more : BOOLEAN, base : Nat]

Stages == {"none", "inserted", "stored", "published", "lost"}

StoreTypeOK ==
  /\ rows \in Seq(Messages)
  /\ stage \in [Messages -> Stages]
  /\ sending \in [Own -> {"unsent", "waiting", "ok", "failed"}]
  /\ list \in Seq(Entry)
  /\ cursor \in Messages \cup {None}
  /\ hasMore \in BOOLEAN
  /\ fetch \in [Fetches -> Asked \cup Read \cup {Unasked, Over}]
  /\ base \in Nat
  /\ missed \in SUBSET Messages
  /\ hidden \in SUBSET Messages

StoreInit ==
  /\ rows = <<>>
  /\ stage = [m \in Messages |-> "none"]
  /\ sending = [m \in Own |-> "unsent"]
  /\ list = <<>>
  /\ cursor = None /\ hasMore = FALSE
  /\ fetch = [f \in Fetches |-> Unasked]
  /\ base = 0
  /\ missed = {} /\ hidden = {}

listed     == {list[i].id : i \in {j \in DOMAIN list : ~list[j].temp}}
position(m) == CHOOSE i \in DOMAIN rows : rows[i] = m
Under(kind) == {f \in Fetches : fetch[f].state \in {"asked", "read"} /\ fetch[f].kind = kind}

--------------------------------------------------------------------------------
(* The server *)

\* createMessage inserts the row; a file is stored and recorded afterwards.
InsertRow(m) ==
  /\ stage[m] = "none"
  /\ m \in Own => sending[m] # "unsent"
  /\ rows' = Append(rows, m)
  /\ stage' = [stage EXCEPT ![m] = IF m \in Uploads THEN "inserted" ELSE "stored"]
  /\ UNCHANGED <<sending, list, cursor, hasMore, fetch, base, missed, hidden>>

StoreFile(m) ==
  /\ stage[m] = "inserted"
  /\ stage' = [stage EXCEPT ![m] = "stored"]
  /\ UNCHANGED <<rows, sending, list, cursor, hasMore, fetch, base, missed, hidden>>

\* The message is published once, when everything it holds has been written; a tab that
\* is not listening at that moment is not told again.
PublishRow(m, heard) ==
  /\ stage[m] = "stored"
  /\ stage' = [stage EXCEPT ![m] = "published"]
  /\ missed' = IF heard THEN missed ELSE missed \cup {m}
  /\ UNCHANGED <<rows, sending, list, cursor, hasMore, fetch, base, hidden>>

\* The process dies or a write fails before the message is published.
LoseRow(m) ==
  /\ stage[m] \in {"inserted", "stored"}
  /\ stage' = [stage EXCEPT ![m] = "lost"]
  /\ missed' = missed \cup {m}
  /\ UNCHANGED <<rows, sending, list, cursor, hasMore, fetch, base, hidden>>

\* listMessages: the youngest messages older than the cursor, oldest first.
listMessages(from) ==
  LET end  == IF from = None THEN Len(rows) ELSE position(from) - 1
      size == IF end < Page THEN end ELSE Page
  IN [data |-> [i \in 1 .. size |->
                  LET m == rows[end - size + i]
                  IN [id |-> m, temp |-> FALSE, whole |-> stage[m] # "inserted"]],
      more |-> end > Page,
      next |-> IF end > Page THEN rows[end - size + 1] ELSE None,
      base |-> end - size + 1]

ReadPage(f) ==
  /\ fetch[f].state = "asked" /\ fetch[f].kind = "first"
  /\ LET page == listMessages(fetch[f].cursor)
     IN fetch' = [fetch EXCEPT ![f] =
          [state |-> "read", kind |-> "first", data |-> page.data,
           next |-> page.next, more |-> page.more, base |-> page.base]]
  /\ UNCHANGED <<rows, stage, sending, list, cursor, hasMore, base, missed, hidden>>

--------------------------------------------------------------------------------
(* The tab *)

fetchMessages(f) ==
  /\ fetch[f] = Unasked
  /\ fetch' = [fetch EXCEPT ![f] = [state |-> "asked", kind |-> "first", cursor |-> None]]
  /\ UNCHANGED <<rows, stage, sending, list, cursor, hasMore, base, missed, hidden>>

\* Asked for by scrolling, and again while it is under way: nothing remembers that it is.
fetchOlderMessages(f) ==
  /\ fetch[f] = Unasked
  /\ cursor # None /\ hasMore
  /\ fetch' = [fetch EXCEPT ![f] = [state |-> "asked", kind |-> "older", cursor |-> cursor]]
  /\ UNCHANGED <<rows, stage, sending, list, cursor, hasMore, base, missed, hidden>>

\* The first page replaces the list: a message pushed since it was read is taken out.
ApplyFirst(f) ==
  /\ fetch[f].state = "read" /\ fetch[f].kind = "first"
  /\ LET page == fetch[f]
         whole == {e.id : e \in {x \in Range(page.data) : x.whole}}
     IN /\ list' = page.data
        /\ cursor' = page.next /\ hasMore' = page.more
        /\ base' = page.base
        /\ hidden' = (hidden \cup listed \cup {e.id : e \in Range(page.data)}) \ whole
  /\ fetch' = [fetch EXCEPT ![f] = Over]
  /\ UNCHANGED <<rows, stage, sending, missed>>

\* The cursor a page ends with is a time and the route takes an identifier: a request for
\* older messages is refused, and the list stays as it is.
RefuseOlder(f) ==
  /\ fetch[f].state = "asked" /\ fetch[f].kind = "older"
  /\ fetch' = [fetch EXCEPT ![f] = Over]
  /\ UNCHANGED <<rows, stage, sending, list, cursor, hasMore, base, missed, hidden>>

FetchFails(f) ==
  /\ fetch[f].state \in {"asked", "read"}
  /\ fetch' = [fetch EXCEPT ![f] = Over]
  /\ UNCHANGED <<rows, stage, sending, list, cursor, hasMore, base, missed, hidden>>

\* Mutant: a pushed message is not looked for.
addMessageAlways(m) ==
  /\ list' = Append(list, Shown(m))
  /\ UNCHANGED <<rows, stage, sending, cursor, hasMore, fetch, base, missed, hidden>>

\* A pushed message is added unless it is there.
addMessage(m) ==
  /\ list' = IF m \in listed THEN list ELSE Append(list, Shown(m))
  /\ UNCHANGED <<rows, stage, sending, cursor, hasMore, fetch, base, missed, hidden>>

sendMessage(m) ==
  /\ m \in Own /\ sending[m] = "unsent"
  /\ sending' = [sending EXCEPT ![m] = "waiting"]
  /\ list' = Append(list, Placeholder(m))
  /\ UNCHANGED <<rows, stage, cursor, hasMore, fetch, base, missed, hidden>>

\* What a filter leaves of a list: the entries at the positions it keeps, in their order.
Kept(s, positions) ==
  [n \in 1 .. Cardinality(positions) |->
     s[CHOOSE i \in positions : Cardinality({j \in positions : j <= i}) = n]]

Without(m) == Kept(list, {i \in DOMAIN list : list[i].id # m})

\* Mutant: the response takes the placeholder out and leaves the rest to the push.
SentRemoved(m) ==
  /\ m \in Own /\ sending[m] = "waiting" /\ stage[m] = "published"
  /\ sending' = [sending EXCEPT ![m] = "ok"]
  /\ list' = Without(m)
  /\ UNCHANGED <<rows, stage, cursor, hasMore, fetch, base, missed, hidden>>

\* The response replaces the placeholder and whatever was pushed meanwhile.
Sent(m) ==
  /\ m \in Own /\ sending[m] = "waiting" /\ stage[m] = "published"
  /\ sending' = [sending EXCEPT ![m] = "ok"]
  /\ list' = Append(Without(m), Shown(m))
  /\ UNCHANGED <<rows, stage, cursor, hasMore, fetch, base, missed, hidden>>

\* The request fails, before or after the server has done its work.
SendFails(m) ==
  /\ m \in Own /\ sending[m] = "waiting"
  /\ sending' = [sending EXCEPT ![m] = "failed"]
  /\ list' = Kept(list, {i \in DOMAIN list : ~(list[i].temp /\ list[i].id = m)})
  /\ UNCHANGED <<rows, stage, cursor, hasMore, fetch, base, missed, hidden>>

\* Messages on their way when a connection is lost are not sent again.
Missing(ms) ==
  /\ missed' = missed \cup ms
  /\ UNCHANGED <<rows, stage, sending, list, cursor, hasMore, fetch, base, hidden>>

--------------------------------------------------------------------------------
\* No page, message or send is under way.
StoreSettled ==
  /\ Under("first") \cup Under("older") = {}
  /\ \A m \in Messages : stage[m] \in {"none", "published", "lost"}
  /\ \A m \in Own : sending[m] # "waiting"

\* The list holds no message twice, and no placeholder that outlives its send: the three
\* writers of messagesMap agree on a message whatever the order they are told of it in.
ShownOnce ==
  StoreSettled =>
    \A i \in DOMAIN list :
      /\ ~list[i].temp
      /\ \A j \in DOMAIN list : list[j].id = list[i].id => j = i
================================================================================
