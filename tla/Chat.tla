---------------------------------- MODULE Chat ---------------------------------
(***************************************************************************)
(* An open conversation (web/src/components/chat/ChatView.tsx): opening it *)
(* asks for its first page and subscribes to it, what is published on it   *)
(* goes through the hub and the socket into the list, and answering the    *)
(* query in it makes its human a participant.                              *)
(***************************************************************************)
EXTENDS ChatSocket, ChatStore

ASSUME PushesMessages == Pushes = Messages /\ Answer \notin Own \cup Uploads

CONSTANT MaxEvents  \* bound on connections and messages together

VARIABLE mounted  \* whether ChatView shows the conversation

chatVars == <<socketVars, storeVars, mounted>>

ChatTypeOK == SocketTypeOK /\ StoreTypeOK /\ mounted \in BOOLEAN

ChatInit == SocketInit /\ StoreInit /\ mounted = FALSE

Within == conn + (IF socket = "down" THEN 1 ELSE 0) + Len(rows) < MaxEvents

--------------------------------------------------------------------------------
\* The effect of ChatView, and its cleanup.
Mount(f) ==
  /\ ~mounted /\ mounted' = TRUE
  /\ fetchMessages(f)
  /\ Subscribe
  /\ UNCHANGED <<serverVars, downlink>>

Unmount ==
  /\ mounted /\ mounted' = FALSE
  /\ Unsubscribe
  /\ UNCHANGED <<serverVars, downlink, storeVars>>

Scroll(f) ==
  /\ mounted
  /\ fetchOlderMessages(f)
  /\ UNCHANGED <<socketVars, mounted>>

SendText(m) ==
  /\ mounted
  /\ sendMessage(m)
  /\ UNCHANGED <<socketVars, mounted>>

\* Whether a message published now reaches the tab's connection.
Heard == socket = "open" /\ link[conn] = "open" /\ conn \in hub

\* createMessage asks for a participant row; the message of an answer is inserted in
\* the transaction that creates one.
Insert(m) ==
  /\ Within
  /\ InsertRow(m)
  /\ IF m = Answer THEN Join ELSE (m \in Own => member) /\ UNCHANGED socketVars
  /\ UNCHANGED mounted

\* Accepting an invitation makes the human a participant too.
AcceptInvitation ==
  /\ ~member
  /\ Join
  /\ UNCHANGED <<storeVars, mounted>>

Publish(m) ==
  /\ PublishRow(m, Heard)
  /\ Broadcast(m)
  /\ UNCHANGED mounted

\* A message arrives and goes into the list.
Arrive ==
  /\ socket = "open" /\ downlink[conn] # <<>>
  /\ downlink' = [downlink EXCEPT ![conn] = Tail(@)]
  /\ addMessage(Head(downlink[conn]))
  /\ UNCHANGED <<tabVars, serverVars, uplink, mounted>>

\* What the socket does by itself; a lost connection takes its messages along.
Transport ==
  /\ SocketStep
  /\ ~Within => socket' # "down" \/ socket = "down"
  /\ Missing(IF socket = "open" /\ socket' = "down" THEN Range(downlink[conn]) ELSE {})
  /\ UNCHANGED mounted

\* What happens to the list and the rows without the socket.
Storage ==
  /\ \/ \E f \in Fetches : ReadPage(f) \/ ApplyFirst(f) \/ RefuseOlder(f) \/ FetchFails(f)
     \/ \E m \in Messages : StoreFile(m) \/ LoseRow(m) \/ Sent(m) \/ SendFails(m)
  /\ UNCHANGED <<socketVars, mounted>>

ChatNext ==
  \/ Unmount \/ AcceptInvitation \/ Arrive \/ Transport \/ Storage
  \/ \E f \in Fetches : Mount(f) \/ Scroll(f)
  \/ \E m \in Messages : SendText(m) \/ Insert(m) \/ Publish(m)

ChatSpec == ChatInit /\ [][ChatNext]_chatVars

--------------------------------------------------------------------------------
(* What an open conversation promises *)

ChatSettled == StoreSettled /\ SocketSettled /\ downlink[conn] = <<>>

\* Of everything since the page it starts from the list lacks only what was published
\* while the tab did not listen, what a later page took out or brought in without its
\* file, and what was never published: no other interleaving of pages, pushes, sends
\* and reconnections loses a message.
NothingElseIsMissed ==
  ChatSettled /\ base > 0 =>
    \A i \in base .. Len(rows) :
      rows[i] \in missed \cup hidden \cup
                  {list[j].id : j \in {n \in DOMAIN list : list[n].whole}}

--------------------------------------------------------------------------------
(* What the repository says and the code does not keep *)

\* "A chat that never hears about them shows a question whose answer only appears on
\* reload" (services/query.service.ts, on publishing the answer): when the answer is
\* about to be published, an open chat whose socket is settled is listening.
AnswerIsHeard ==
  stage[Answer] = "stored" /\ mounted /\ SocketSettled => conn \in hub
================================================================================
