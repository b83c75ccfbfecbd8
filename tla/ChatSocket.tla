------------------------------- MODULE ChatSocket ------------------------------
(***************************************************************************)
(* How one browser tab comes to hear of one conversation: the socket it    *)
(* reconnects (web/src/ws/socket.ts, stores/wsStore.ts) and the hub that   *)
(* keeps who listens (src/ws/handlers.ts, src/ws/connection-manager.ts).   *)
(*                                                                         *)
(* Connections share nothing with each other, and conversations only the   *)
(* connection, so one tab and one conversation stand for all.  A frame of  *)
(* the client is handled as it arrives, and a subscription awaits the      *)
(* database, so that what arrives after it may overtake it.                *)
(***************************************************************************)
EXTENDS Naturals, Sequences

CONSTANTS
  Pushes,    \* what may be published on the conversation
  MaxConns   \* bound on the connections the tab opens

ASSUME SocketConstants == MaxConns \in Nat \ {0}

VARIABLES
  member,    \* whether the tab's human has a participant row
  wanted,    \* wsStore: the conversation is subscribed
  active,    \* AgentDialogSocket: the conversation is in activeSubscriptions
  socket,    \* what the tab believes of its socket
  conn,      \* its last connection
  queue,     \* pendingQueue
  link,      \* each connection as the server sees it
  uplink,    \* frames on their way to the server
  checks,    \* subscriptions awaiting isParticipant
  hub,       \* connections the hub has subscribed to the conversation
  downlink,  \* messages on their way to the tab
  refused,   \* connections whose last subscription was refused
  late       \* connections that closed while a subscription was being checked

tabVars    == <<wanted, active, socket, conn, queue>>
serverVars == <<member, link, checks, hub, refused, late>>
socketVars == <<tabVars, serverVars, uplink, downlink>>

--------------------------------------------------------------------------------
Conns  == 1 .. MaxConns
Frames == {"subscribe", "unsubscribe"}

SocketTypeOK ==
  /\ member \in BOOLEAN
  /\ wanted \in BOOLEAN
  /\ active \in BOOLEAN
  /\ socket \in {"down", "open"}
  /\ conn \in 0 .. MaxConns
  /\ queue \in Seq(Frames)
  /\ link \in [Conns -> {"unused", "open", "closed"}]
  /\ uplink \in [Conns -> Seq(Frames)]
  /\ checks \in [Conns -> Nat]
  /\ hub \in SUBSET Conns
  /\ downlink \in [Conns -> Seq(Pushes)]
  /\ refused \in SUBSET Conns
  /\ late \in SUBSET Conns

\* The application is loaded.  A conversation in its address is mounted first, with no
\* socket to tell; the layout then makes the socket and hides the conversation while
\* the session is checked, and its "unsubscribe" is queued.
SocketInit ==
  /\ member \in BOOLEAN
  /\ wanted = FALSE /\ active = FALSE
  /\ socket = "down" /\ conn = 0
  /\ queue \in {<<>>, <<"unsubscribe">>}
  /\ link = [k \in Conns |-> "unused"]
  /\ uplink = [k \in Conns |-> <<>>]
  /\ checks = [k \in Conns |-> 0]
  /\ hub = {} /\ refused = {} /\ late = {}
  /\ downlink = [k \in Conns |-> <<>>]

Put(frames) ==
  uplink' = IF link[conn] = "open" THEN [uplink EXCEPT ![conn] = @ \o frames] ELSE uplink

\* A frame that cannot be sent is queued for the next connection.
Transmit(frame) ==
  IF socket = "open" THEN Put(<<frame>>) /\ UNCHANGED queue
  ELSE queue' = Append(queue, frame) /\ UNCHANGED uplink

--------------------------------------------------------------------------------
(* The tab *)

Subscribe ==
  IF wanted THEN UNCHANGED <<tabVars, uplink>>
  ELSE /\ wanted' = TRUE /\ active' = TRUE
       /\ Transmit("subscribe")
       /\ UNCHANGED <<socket, conn>>

Unsubscribe ==
  /\ wanted' = FALSE /\ active' = FALSE
  /\ Transmit("unsubscribe")
  /\ UNCHANGED <<socket, conn>>

\* Mutant: nothing is subscribed again on a new connection.
OpenedFlush ==
  /\ socket = "down" /\ conn < MaxConns
  /\ socket' = "open" /\ conn' = conn + 1
  /\ link' = [link EXCEPT ![conn + 1] = "open"]
  /\ uplink' = [uplink EXCEPT ![conn + 1] = queue]
  /\ queue' = <<>>
  /\ UNCHANGED <<wanted, active, member, checks, hub, refused, late, downlink>>

\* An attempt succeeds, the first or one after a reconnect timer: what was queued is
\* sent, then every active subscription.
Opened ==
  /\ socket = "down" /\ conn < MaxConns
  /\ socket' = "open" /\ conn' = conn + 1
  /\ link' = [link EXCEPT ![conn + 1] = "open"]
  /\ uplink' = [uplink EXCEPT ![conn + 1] = queue \o (IF active THEN <<"subscribe">> ELSE <<>>)]
  /\ queue' = <<>>
  /\ UNCHANGED <<wanted, active, member, checks, hub, refused, late, downlink>>

\* The tab learns that its connection is gone, with all that was on its way.  An attempt
\* that fails leaves things as they are, another being scheduled.
LosesConnection ==
  /\ socket = "open" /\ conn < MaxConns
  /\ socket' = "down"
  /\ uplink' = [uplink EXCEPT ![conn] = <<>>]
  /\ downlink' = [downlink EXCEPT ![conn] = <<>>]
  /\ UNCHANGED <<wanted, active, conn, queue, serverVars>>

--------------------------------------------------------------------------------
(* The server *)

\* A frame is handled while earlier subscriptions may still be awaiting their check.
HandleFrame(k) ==
  /\ link[k] = "open" /\ uplink[k] # <<>>
  /\ uplink' = [uplink EXCEPT ![k] = Tail(@)]
  /\ IF Head(uplink[k]) = "subscribe"
     THEN checks' = [checks EXCEPT ![k] = @ + 1] /\ UNCHANGED hub
     ELSE hub' = hub \ {k} /\ UNCHANGED checks
  /\ UNCHANGED <<tabVars, member, link, refused, late, downlink>>

\* The check of a subscription ends, of a connection that may have closed by then.
CheckDone(k) ==
  /\ checks[k] > 0
  /\ checks' = [checks EXCEPT ![k] = @ - 1]
  /\ IF member THEN hub' = hub \cup {k} /\ refused' = refused \ {k}
     ELSE refused' = refused \cup {k} /\ UNCHANGED hub
  /\ UNCHANGED <<tabVars, member, link, late, uplink, downlink>>

\* The connection closes, by the tab's doing, the network's or the server's:
\* removeConnection takes it out of what it is subscribed to by now.
Close(k) ==
  /\ link[k] = "open" /\ k < MaxConns
  /\ link' = [link EXCEPT ![k] = "closed"]
  /\ uplink' = [uplink EXCEPT ![k] = <<>>]
  /\ hub' = hub \ {k}
  /\ late' = IF checks[k] > 0 THEN late \cup {k} ELSE late
  /\ UNCHANGED <<tabVars, member, checks, refused, downlink>>

\* The Redis broadcaster hands a published message to the hub, which sends it to every
\* subscriber; one that is closed may make the send fail and is removed.
Broadcast(m) ==
  /\ downlink' = [k \in Conns |->
       IF k \in hub /\ link[k] = "open" /\ socket = "open" /\ k = conn
       THEN Append(downlink[k], m) ELSE downlink[k]]
  /\ \E gone \in SUBSET {k \in hub : link[k] = "closed"} : hub' = hub \ gone
  /\ UNCHANGED <<tabVars, member, link, checks, refused, late, uplink>>

\* What is done on the conversation made its human a participant.
Join ==
  /\ member' = TRUE
  /\ UNCHANGED <<tabVars, link, checks, hub, refused, late, uplink, downlink>>

SocketStep ==
  \/ Opened \/ LosesConnection
  \/ \E k \in Conns : HandleFrame(k) \/ CheckDone(k) \/ Close(k)

--------------------------------------------------------------------------------
\* Everything the tab asked of its present connection has been dealt with.
SocketSettled ==
  socket = "open" /\ link[conn] = "open" /\ uplink[conn] = <<>> /\ checks[conn] = 0

\* The tab hears of what it wants, through every loss, reconnection and overtaking,
\* unless the server refused it to someone who is not a participant yet; and a closed
\* connection lingers in the hub only if it closed while a subscription was checked.
WantedIsSubscribed == SocketSettled /\ wanted => conn \in hub \cup refused
GhostsAreLate == \A k \in hub : link[k] = "closed" => k \in late
SubscriptionsHold == WantedIsSubscribed /\ GhostsAreLate
================================================================================
