------------------------------- MODULE ChatProofs ------------------------------
(***************************************************************************)
(* What Chat promises, for any messages, page requests and connections: a  *)
(* tab is subscribed to what it wants, its list shows nothing twice and    *)
(* lacks nothing but what it could not have heard of.                      *)
(***************************************************************************)
EXTENDS Chat, FiniteSetTheorems, SequenceTheorems, TLAPS

--------------------------------------------------------------------------------
(* Sequences *)

\* What is put at the end of a sequence is its last.
LEMMA Added ==
  ASSUME NEW S, NEW s \in Seq(S), NEW e \in S
  PROVE  /\ s \o <<e>> \in Seq(S) /\ s \o <<e>> # <<>> /\ (s \o <<e>>)[Len(s \o <<e>>)] = e
         /\ Append(s, e) \in Seq(S) /\ s \o <<>> = s
OBVIOUS

LEMMA Tabulated ==
  ASSUME NEW S, NEW n \in Nat, NEW s \in [1 .. n -> S]
  PROVE  s \in Seq(S) /\ DOMAIN s = 1 .. n /\ Len(s) = n
OBVIOUS

\* Taking the first keeps the last, as long as there is one.
LEMMA Consumed ==
  ASSUME NEW S, NEW s \in Seq(S), s # <<>>
  PROVE  /\ Tail(s) \in Seq(S) /\ Head(s) \in S
         /\ Tail(s) = <<>> => Head(s) = s[Len(s)]
         /\ Tail(s) # <<>> => Tail(s)[Len(Tail(s))] = s[Len(s)]
<1>1. Len(Tail(s)) = Len(s) - 1 /\ Len(s) \in Nat \ {0} /\ Head(s) = s[1]
  <2>1. Len(s) \in Nat /\ Len(s) # 0
    OBVIOUS
  <2>2. Len(Tail(s)) = Len(s) - 1
    BY <2>1
  <2>3. Head(s) = s[1]
    OBVIOUS
  <2> QED BY <2>1, <2>2, <2>3
<1>2. Tail(s) = <<>> => Len(Tail(s)) = 0
  BY EmptySeq
<1>3. Tail(s) = <<>> => Head(s) = s[Len(s)]
  <2>1. SUFFICES ASSUME Tail(s) = <<>> PROVE s[1] = s[Len(s)]
    BY <1>1
  <2>2. Len(s) = 1
    BY <1>1, <1>2, <2>1
  <2> QED BY <2>2
<1>4. Tail(s) # <<>> => Tail(s)[Len(Tail(s))] = s[Len(s)]
  OBVIOUS
<1> QED BY <1>3, <1>4


\* Every kept position has a rank of its own, from 1 to the number of them.
LEMMA Ranks ==
  ASSUME NEW P \in SUBSET Nat, IsFiniteSet(P)
  PROVE  /\ Cardinality(P) \in Nat
         /\ \A i, j \in P : Cardinality({k \in P : k <= i}) = Cardinality({k \in P : k <= j})
                               => i = j
         /\ \A n \in 1 .. Cardinality(P) : \E i \in P : Cardinality({k \in P : k <= i}) = n
         /\ \A i \in P : Cardinality({k \in P : k <= i}) \in 1 .. Cardinality(P)
<1> DEFINE upto(i) == {k \in P : k <= i}
           rank == [i \in P |-> Cardinality(upto(i))]
<1>1. Cardinality(P) \in Nat
  BY FS_CardinalityType
<1>2. \A i \in P : /\ IsFiniteSet(upto(i)) /\ Cardinality(upto(i)) \in Nat
                   /\ Cardinality(upto(i)) <= Cardinality(P)
  BY FS_Subset, FS_CardinalityType
<1>3. \A i \in P : Cardinality(upto(i)) # 0
  BY <1>2, FS_EmptySet
<1>4. \A i, j \in P : i < j => Cardinality(upto(i)) # Cardinality(upto(j))
  <2> HIDE DEF upto
  <2> TAKE i, j \in P
  <2> HAVE i < j
  <2>1. i \in Nat /\ j \in Nat /\ j <= j /\ ~(j <= i) /\ \A k \in P : k <= i => k <= j
    OBVIOUS
  <2>2. upto(i) \in SUBSET upto(j)
    BY <2>1 DEF upto
  <2>3. j \in upto(j) /\ j \notin upto(i)
    BY <2>1 DEF upto
  <2> QED BY <1>2, <2>2, <2>3, FS_Subset
<1>5. \A i, j \in P : rank[i] = rank[j] => i = j
  BY <1>4
<1>6. \A i \in P : rank[i] \in 1 .. Cardinality(P)
  BY <1>1, <1>2, <1>3
<1>7. rank \in Injection(P, 1 .. Cardinality(P))
  <2> HIDE DEF rank
  <2>1. rank \in [P -> 1 .. Cardinality(P)]
    BY <1>6 DEF rank
  <2> QED BY <1>5, <2>1 DEF Injection, IsInjective
<1>8. IsFiniteSet(1 .. Cardinality(P)) /\ Cardinality(1 .. Cardinality(P)) = Cardinality(P)
  BY <1>1, FS_Interval
<1>9. rank \in Surjection(P, 1 .. Cardinality(P))
  BY <1>7, <1>8, FS_Injection
<1>10. \A n \in 1 .. Cardinality(P) : \E i \in P : rank[i] = n
  BY <1>9 DEF Surjection
<1> QED BY <1>1, <1>5, <1>6, <1>10

\* A filter leaves exactly the entries it keeps, each at one place.
LEMMA KeptEntries ==
  ASSUME NEW S, NEW s \in Seq(S), NEW P \in SUBSET DOMAIN s
  PROVE  /\ Kept(s, P) \in Seq(S)
         /\ \A n \in DOMAIN Kept(s, P) : \E i \in P : Kept(s, P)[n] = s[i]
         /\ \A i \in P : \E n \in DOMAIN Kept(s, P) : Kept(s, P)[n] = s[i]
         /\ \E from \in [DOMAIN Kept(s, P) -> P] :
              /\ \A n \in DOMAIN Kept(s, P) : Kept(s, P)[n] = s[from[n]]
              /\ \A n, o \in DOMAIN Kept(s, P) : from[n] = from[o] => n = o
<1> DEFINE rank(i) == Cardinality({k \in P : k <= i})
           from == [n \in 1 .. Cardinality(P) |-> CHOOSE i \in P : rank(i) = n]
<1>1. DOMAIN s = 1 .. Len(s) /\ Len(s) \in Nat /\ P \in SUBSET Nat
  OBVIOUS
<1>2. IsFiniteSet(P)
  <2>1. IsFiniteSet(1 .. Len(s))
    BY <1>1, FS_Interval
  <2> QED BY <1>1, <2>1, FS_Subset
<1>3. /\ Cardinality(P) \in Nat
      /\ \A n \in 1 .. Cardinality(P) : \E i \in P : rank(i) = n
      /\ \A i \in P : rank(i) \in 1 .. Cardinality(P)
      /\ \A i, j \in P : rank(i) = rank(j) => i = j
  BY <1>1, <1>2, Ranks
<1> HIDE DEF rank
<1>4. \A n \in 1 .. Cardinality(P) : from[n] \in P /\ rank(from[n]) = n
  BY <1>3
<1>5. Kept(s, P) = [n \in 1 .. Cardinality(P) |-> s[from[n]]]
  BY DEF Kept, rank
<1>6. DOMAIN Kept(s, P) = 1 .. Cardinality(P)
  BY <1>5
<1>7. \A i \in P : rank(i) \in 1 .. Cardinality(P) /\ from[rank(i)] = i
  BY <1>3, <1>4
<1>8. from \in [1 .. Cardinality(P) -> P]
  BY <1>4
<1> HIDE DEF from
<1>9. \A n \in 1 .. Cardinality(P) : Kept(s, P)[n] = s[from[n]]
  BY <1>5
<1>10. Kept(s, P) \in Seq(S)
  BY <1>1, <1>3, <1>4, <1>5
<1>11. \A n, o \in 1 .. Cardinality(P) : from[n] = from[o] => n = o
  BY <1>4
<1>12. /\ \A n \in DOMAIN Kept(s, P) : \E i \in P : Kept(s, P)[n] = s[i]
       /\ \A i \in P : \E n \in DOMAIN Kept(s, P) : Kept(s, P)[n] = s[i]
  BY <1>4, <1>6, <1>7, <1>9
<1>13. /\ from \in [DOMAIN Kept(s, P) -> P]
       /\ \A n \in DOMAIN Kept(s, P) : Kept(s, P)[n] = s[from[n]]
       /\ \A n, o \in DOMAIN Kept(s, P) : from[n] = from[o] => n = o
  BY <1>6, <1>8, <1>9, <1>11
<1> HIDE <1>4, <1>6, <1>7, <1>8, <1>9, <1>11
<1> QED BY <1>10, <1>12, <1>13

\* What is put at the end is in the range, and what is taken at the front leaves it.
LEMMA Ranges ==
  ASSUME NEW S, NEW s \in Seq(S), NEW e \in S
  PROVE  /\ Range(s) \subseteq S
         /\ Range(Append(s, e)) = Range(s) \cup {e}
         /\ s # <<>> => Range(s) \subseteq {Head(s)} \cup Range(Tail(s))
<1>1. Range(s) \subseteq S
  BY DEF Range
<1>2. Range(Append(s, e)) = Range(s) \cup {e}
  <2>1. /\ DOMAIN Append(s, e) = 1 .. Len(s) + 1 /\ DOMAIN s = 1 .. Len(s) /\ Len(s) \in Nat
        /\ \A i \in 1 .. Len(s) : Append(s, e)[i] = s[i]
        /\ Append(s, e)[Len(s) + 1] = e
    BY AppendProperties
  <2> QED BY <2>1 DEF Range
<1>3. s # <<>> => Range(s) \subseteq {Head(s)} \cup Range(Tail(s))
  <2> SUFFICES ASSUME s # <<>>, NEW i \in DOMAIN s PROVE s[i] \in {Head(s)} \cup Range(Tail(s))
    BY DEF Range
  <2>1. /\ DOMAIN s = 1 .. Len(s) /\ Len(s) \in Nat /\ Head(s) = s[1]
        /\ DOMAIN Tail(s) = 1 .. Len(s) - 1
        /\ \A j \in 1 .. Len(s) - 1 : Tail(s)[j] = s[j + 1]
    BY HeadTailProperties
  <2>2. CASE i = 1
    BY <2>1, <2>2
  <2>3. CASE i # 1
    <3>1. i - 1 \in DOMAIN Tail(s) /\ Tail(s)[i - 1] = s[i]
      BY <2>1, <2>3
    <3> QED BY <3>1 DEF Range
  <2> QED BY <2>2, <2>3
<1> QED BY <1>1, <1>2, <1>3

--------------------------------------------------------------------------------
(* The socket *)

\* The tab and its socket agree on what is wanted, and a tab that believes itself
\* connected opened a connection.
TabAgrees == wanted = active /\ (socket = "open" => conn \in Conns)

\* Nothing has happened on a connection that was not opened yet.
UnopenedIsUnused ==
  \A k \in Conns : k > conn => link[k] = "unused" /\ checks[k] = 0 /\ k \notin hub

\* While a wanted conversation's connection lasts, its subscription is the last frame on
\* its way, or is being checked, or was answered.
WantedIsAsked ==
  socket = "open" /\ wanted /\ link[conn] = "open" =>
    IF uplink[conn] = <<>> THEN checks[conn] > 0 \/ conn \in hub \cup refused
    ELSE uplink[conn][Len(uplink[conn])] = "subscribe"

\* What a closed connection still has pending or holds in the hub, it was late for.
ClosedIsLate ==
  \A k \in Conns : link[k] = "closed" /\ (checks[k] > 0 \/ k \in hub) => k \in late

SocketInv ==
  SocketTypeOK /\ TabAgrees /\ UnopenedIsUnused /\ WantedIsAsked /\ ClosedIsLate

USE DEF Conns, Frames

LEMMA SocketInitially == SocketInit => SocketInv
<1> SUFFICES ASSUME SocketInit PROVE SocketInv
  OBVIOUS
<1>1. <<>> \in Seq(Frames) /\ <<"unsubscribe">> \in Seq(Frames) /\ <<>> \in Seq(Pushes)
  OBVIOUS
<1>2. SocketTypeOK
  <2>1. uplink \in [Conns -> Seq(Frames)] /\ downlink \in [Conns -> Seq(Pushes)]
    BY <1>1 DEF SocketInit
  <2>2. queue \in Seq(Frames)
    BY <1>1 DEF SocketInit
  <2>3. /\ conn \in 0 .. MaxConns /\ socket \in {"down", "open"}
        /\ hub \in SUBSET Conns /\ refused \in SUBSET Conns /\ late \in SUBSET Conns
        /\ link \in [Conns -> {"unused", "open", "closed"}] /\ checks \in [Conns -> Nat]
    BY SocketConstants DEF SocketInit
  <2>4. member \in BOOLEAN /\ wanted \in BOOLEAN /\ active \in BOOLEAN
    BY DEF SocketInit
  <2> QED BY <2>1, <2>2, <2>3, <2>4 DEF SocketTypeOK
<1>3. TabAgrees /\ UnopenedIsUnused /\ WantedIsAsked /\ ClosedIsLate
  BY DEF SocketInit, TabAgrees, UnopenedIsUnused, WantedIsAsked, ClosedIsLate
<1> QED BY <1>2, <1>3 DEF SocketInv

LEMMA SubscribeKeeps == SocketInv /\ Subscribe /\ UNCHANGED <<serverVars, downlink>> => SocketInv'
<1> SUFFICES ASSUME SocketInv, Subscribe, UNCHANGED <<serverVars, downlink>>
             PROVE  SocketInv'
  OBVIOUS
<1> USE DEF SocketInv, serverVars, tabVars
<1>1. CASE wanted
  BY <1>1 DEF Subscribe, SocketTypeOK, TabAgrees, UnopenedIsUnused, WantedIsAsked, ClosedIsLate
<1>2. CASE ~wanted
  <2>1. SocketTypeOK'
    <3>1. CASE socket = "open"
      <4>1. conn \in Conns /\ uplink[conn] \o <<"subscribe">> \in Seq(Frames)
        BY <3>1, Added DEF SocketTypeOK, TabAgrees
      <4> QED BY <1>2, <3>1, <4>1 DEF Subscribe, Transmit, Put, SocketTypeOK
    <3>2. CASE socket # "open"
      <4>1. Append(queue, "subscribe") \in Seq(Frames)
        BY Added DEF SocketTypeOK
      <4> QED BY <1>2, <3>2, <4>1 DEF Subscribe, Transmit, SocketTypeOK
    <3> QED BY <3>1, <3>2
  <2>2. TabAgrees'
    BY <1>2 DEF Subscribe, TabAgrees
  <2>3. UnopenedIsUnused' /\ ClosedIsLate'
    BY <1>2 DEF Subscribe, UnopenedIsUnused, ClosedIsLate
  <2>4. WantedIsAsked'
    <3>1. SUFFICES ASSUME socket = "open", link[conn] = "open" PROVE WantedIsAsked'
      BY <1>2 DEF Subscribe, WantedIsAsked
    <3> DEFINE sent == uplink[conn] \o <<"subscribe">>
    <3>2. conn \in Conns /\ sent # <<>> /\ sent[Len(sent)] = "subscribe"
      BY <3>1, Added DEF SocketTypeOK, TabAgrees
    <3>3. uplink'[conn] = sent
      BY <1>2, <3>1, <3>2 DEF Subscribe, Transmit, Put, SocketTypeOK
    <3> HIDE DEF sent
    <3> QED BY <1>2, <3>2, <3>3 DEF Subscribe, WantedIsAsked
  <2> QED BY <2>1, <2>2, <2>3, <2>4
<1> QED BY <1>1, <1>2

LEMMA UnsubscribeKeeps ==
  SocketInv /\ Unsubscribe /\ UNCHANGED <<serverVars, downlink>> => SocketInv'
<1> SUFFICES ASSUME SocketInv, Unsubscribe, UNCHANGED <<serverVars, downlink>>
             PROVE  SocketInv'
  OBVIOUS
<1> USE DEF SocketInv, serverVars
<1>1. SocketTypeOK'
  <2>1. CASE socket = "open"
    <3>1. conn \in Conns /\ uplink[conn] \o <<"unsubscribe">> \in Seq(Frames)
      BY <2>1, Added DEF SocketTypeOK, TabAgrees
    <3> QED BY <2>1, <3>1 DEF Unsubscribe, Transmit, Put, SocketTypeOK
  <2>2. CASE socket # "open"
    <3>1. Append(queue, "unsubscribe") \in Seq(Frames)
      BY Added DEF SocketTypeOK
    <3> QED BY <2>2, <3>1 DEF Unsubscribe, Transmit, SocketTypeOK
  <2> QED BY <2>1, <2>2
<1>2. TabAgrees' /\ UnopenedIsUnused' /\ ClosedIsLate' /\ WantedIsAsked'
  BY DEF Unsubscribe, TabAgrees, UnopenedIsUnused, ClosedIsLate, WantedIsAsked
<1> QED BY <1>1, <1>2

LEMMA OpenedKeeps == SocketInv /\ Opened => SocketInv'
<1> SUFFICES ASSUME SocketInv, Opened PROVE SocketInv'
  OBVIOUS
<1> USE DEF SocketInv
<1> DEFINE asked == queue \o (IF active THEN <<"subscribe">> ELSE <<>>)
<1>1. conn + 1 \in Conns /\ conn' = conn + 1
  BY SocketConstants DEF Opened, SocketTypeOK
<1>2. asked \in Seq(Frames) /\ (active => asked # <<>> /\ asked[Len(asked)] = "subscribe")
  <2>1. queue \in Seq(Frames) /\ "subscribe" \in Frames
    BY DEF SocketTypeOK
  <2> QED BY <2>1, Added
<1>3. uplink' = [uplink EXCEPT ![conn + 1] = asked]
  BY DEF Opened
<1> HIDE DEF asked
<1>4. SocketTypeOK'
  <2>1. UNCHANGED <<wanted, active, member, checks, hub, refused, late, downlink>>
    BY DEF Opened
  <2>2. uplink' \in [Conns -> Seq(Frames)] /\ link' \in [Conns -> {"unused", "open", "closed"}]
    BY <1>1, <1>2, <1>3 DEF Opened, SocketTypeOK
  <2>3. queue' \in Seq(Frames) /\ socket' = "open" /\ conn' \in 0 .. MaxConns
    BY <1>1 DEF Opened
  <2> QED BY <2>1, <2>2, <2>3 DEF SocketTypeOK
<1>5. TabAgrees' /\ UnopenedIsUnused' /\ ClosedIsLate'
  BY <1>1 DEF Opened, TabAgrees, UnopenedIsUnused, ClosedIsLate, SocketTypeOK
<1>6. WantedIsAsked'
  BY <1>1, <1>2, <1>3 DEF Opened, WantedIsAsked, TabAgrees, SocketTypeOK
<1> QED BY <1>4, <1>5, <1>6

LEMMA LosesConnectionKeeps == SocketInv /\ LosesConnection => SocketInv'
<1> SUFFICES ASSUME SocketInv, LosesConnection PROVE SocketInv'
  OBVIOUS
<1> USE DEF SocketInv, serverVars
<1>1. SocketTypeOK'
  <2>1. <<>> \in Seq(Frames) /\ <<>> \in Seq(Pushes)
    OBVIOUS
  <2> QED BY <2>1 DEF LosesConnection, SocketTypeOK
<1>2. TabAgrees' /\ UnopenedIsUnused' /\ ClosedIsLate' /\ WantedIsAsked'
  BY DEF LosesConnection, TabAgrees, UnopenedIsUnused, ClosedIsLate, WantedIsAsked
<1> QED BY <1>1, <1>2

LEMMA HandleFrameKeeps ==
  ASSUME SocketInv, NEW k \in Conns, HandleFrame(k) PROVE SocketInv'
<1> USE DEF SocketInv, tabVars
<1>1. /\ Tail(uplink[k]) \in Seq(Frames) /\ Head(uplink[k]) \in Frames
      /\ Tail(uplink[k]) = <<>> => Head(uplink[k]) = uplink[k][Len(uplink[k])]
      /\ Tail(uplink[k]) # <<>> =>
           Tail(uplink[k])[Len(Tail(uplink[k]))] = uplink[k][Len(uplink[k])]
  <2>1. uplink[k] \in Seq(Frames) /\ uplink[k] # <<>>
    BY DEF HandleFrame, SocketTypeOK
  <2> QED BY <2>1, Consumed
<1> DEFINE first == Head(uplink[k])
<1>0. /\ checks \in [Conns -> Nat] /\ hub \in SUBSET Conns
      /\ \/ first = "subscribe" /\ checks' = [checks EXCEPT ![k] = @ + 1] /\ hub' = hub
         \/ first # "subscribe" /\ hub' = hub \ {k} /\ checks' = checks
      /\ checks[k] \in Nat /\ checks[k] + 1 \in Nat /\ checks[k] + 1 > 0
  BY DEF HandleFrame, SocketTypeOK
<1> HIDE DEF first
<1>2. SocketTypeOK'
  <2>1. UNCHANGED <<member, wanted, active, socket, conn, queue, link, refused, late, downlink>>
    BY DEF HandleFrame
  <2>2. uplink' \in [Conns -> Seq(Frames)]
    BY <1>1 DEF HandleFrame, SocketTypeOK
  <2>3. checks' \in [Conns -> Nat] /\ hub' \in SUBSET Conns
    BY <1>0
  <2> QED BY <2>1, <2>2, <2>3 DEF SocketTypeOK
<1>3. TabAgrees'
  BY DEF HandleFrame, TabAgrees
<1>4. UnopenedIsUnused' /\ ClosedIsLate'
  BY DEF HandleFrame, UnopenedIsUnused, ClosedIsLate, SocketTypeOK
<1>5. WantedIsAsked'
  <2>1. UNCHANGED <<wanted, socket, conn, link, refused>>
    BY DEF HandleFrame
  <2>2. SUFFICES ASSUME socket = "open", wanted, link[conn] = "open" PROVE WantedIsAsked'
    BY <2>1 DEF WantedIsAsked
  <2>3. conn \in Conns
    BY <2>2 DEF TabAgrees
  <2>4. uplink' = [uplink EXCEPT ![k] = Tail(uplink[k])]
    BY DEF HandleFrame
  <2>5. CASE k # conn
    <3>1. uplink'[conn] = uplink[conn]
      BY <2>3, <2>4, <2>5 DEF SocketTypeOK
    <3>2. checks'[conn] = checks[conn] /\ (conn \in hub' <=> conn \in hub)
      BY <1>0, <2>3, <2>5
    <3> QED BY <2>1, <2>2, <3>1, <3>2 DEF WantedIsAsked
  <2>6. CASE k = conn
    <3>1. uplink'[conn] = Tail(uplink[conn]) /\ uplink[conn] # <<>>
      BY <2>3, <2>4, <2>6 DEF HandleFrame, SocketTypeOK
    <3>2. uplink[conn][Len(uplink[conn])] = "subscribe"
      BY <2>2, <3>1 DEF WantedIsAsked
    <3>3. Head(uplink[k]) = "subscribe" => checks'[conn] > 0
      BY <1>0, <2>3, <2>6 DEF first
    <3> QED BY <1>1, <2>1, <2>6, <3>1, <3>2, <3>3 DEF WantedIsAsked
  <2> QED BY <2>5, <2>6
<1> QED BY <1>2, <1>3, <1>4, <1>5

LEMMA CheckDoneKeeps ==
  ASSUME SocketInv, NEW k \in Conns, CheckDone(k) PROVE SocketInv'
<1> USE DEF SocketInv, tabVars
<1>1. SocketTypeOK'
  <2>1. UNCHANGED <<member, wanted, active, socket, conn, queue, link, late, uplink, downlink>>
    BY DEF CheckDone
  <2>2. checks' \in [Conns -> Nat]
    BY DEF CheckDone, SocketTypeOK
  <2>3. hub' \in SUBSET Conns /\ refused' \in SUBSET Conns
    BY DEF CheckDone, SocketTypeOK
  <2> QED BY <2>1, <2>2, <2>3 DEF SocketTypeOK
<1>2. TabAgrees'
  BY DEF CheckDone, TabAgrees
<1>3. UnopenedIsUnused' /\ ClosedIsLate'
  BY DEF CheckDone, UnopenedIsUnused, ClosedIsLate, SocketTypeOK
<1>4. WantedIsAsked'
  BY DEF CheckDone, WantedIsAsked, SocketTypeOK, TabAgrees
<1> QED BY <1>1, <1>2, <1>3, <1>4

LEMMA CloseKeeps ==
  ASSUME SocketInv, NEW k \in Conns, Close(k) PROVE SocketInv'
<1> USE DEF SocketInv, tabVars
<1>1. SocketTypeOK'
  BY DEF Close, SocketTypeOK
<1>2. TabAgrees'
  BY DEF Close, TabAgrees
<1>3. UnopenedIsUnused' /\ ClosedIsLate'
  BY DEF Close, UnopenedIsUnused, ClosedIsLate, SocketTypeOK
<1>4. WantedIsAsked'
  BY DEF Close, WantedIsAsked, SocketTypeOK, TabAgrees
<1> QED BY <1>1, <1>2, <1>3, <1>4

LEMMA BroadcastKeeps ==
  ASSUME SocketInv, NEW m \in Pushes, Broadcast(m) PROVE SocketInv'
<1> USE DEF SocketInv, tabVars
<1>1. SocketTypeOK'
  BY DEF Broadcast, SocketTypeOK
<1>2. TabAgrees'
  BY DEF Broadcast, TabAgrees
<1>3. UnopenedIsUnused' /\ ClosedIsLate'
  BY DEF Broadcast, UnopenedIsUnused, ClosedIsLate, SocketTypeOK
<1>4. WantedIsAsked'
  BY DEF Broadcast, WantedIsAsked, SocketTypeOK, TabAgrees
<1> QED BY <1>1, <1>2, <1>3, <1>4

LEMMA JoinKeeps == SocketInv /\ Join => SocketInv'
BY DEF Join, SocketInv, tabVars, SocketTypeOK, TabAgrees, UnopenedIsUnused, WantedIsAsked,
       ClosedIsLate

LEMMA SocketStutters == SocketInv /\ UNCHANGED socketVars => SocketInv'
BY DEF SocketInv, socketVars, tabVars, serverVars, SocketTypeOK, TabAgrees, UnopenedIsUnused,
       WantedIsAsked, ClosedIsLate

LEMMA SocketImplies == SocketInv => SubscriptionsHold
<1> SUFFICES ASSUME SocketInv PROVE SubscriptionsHold
  OBVIOUS
<1> USE DEF SocketInv
<1>1. WantedIsSubscribed
  BY DEF WantedIsSubscribed, SocketSettled, WantedIsAsked, TabAgrees, SocketTypeOK
<1>2. GhostsAreLate
  BY DEF GhostsAreLate, ClosedIsLate, SocketTypeOK
<1> QED BY <1>1, <1>2 DEF SubscriptionsHold

--------------------------------------------------------------------------------
(* The rows and the list *)

\* Every row is of a message that was inserted, and of no other row's.
RowsOnce ==
  /\ \A i \in DOMAIN rows : stage[rows[i]] # "none"
  /\ \A i, j \in DOMAIN rows : rows[i] = rows[j] => i = j

\* A placeholder stands for a send that is waiting.
PlaceholdersWait ==
  \A i \in DOMAIN list : list[i].temp => list[i].id \in Own /\ sending[list[i].id] = "waiting"

\* A list of entries has at most one placeholder and one message of each identifier.
EachOnce(entries) ==
  \A i, j \in DOMAIN entries :
    entries[i].id = entries[j].id /\ entries[i].temp = entries[j].temp => i = j

\* A page that was read shows its messages once and has no placeholder.
PagesOnce ==
  \A f \in Fetches : fetch[f].state = "read" =>
    /\ fetch[f] \in Read
    /\ EachOnce(fetch[f].data)
    /\ \A i \in DOMAIN fetch[f].data : ~fetch[f].data[i].temp

\* The first page is asked for without a cursor.
FirstIsUncut ==
  \A f \in Fetches : fetch[f].state = "asked" /\ fetch[f].kind = "first" =>
    fetch[f].cursor = None

StoreInv ==
  StoreTypeOK /\ RowsOnce /\ PlaceholdersWait /\ EachOnce(list) /\ PagesOnce /\ FirstIsUncut

LEMMA StoreInitially == StoreInit => StoreInv
<1> SUFFICES ASSUME StoreInit PROVE StoreInv
  OBVIOUS
<1>1. <<>> \in Seq(Messages) /\ <<>> \in Seq(Entry) /\ DOMAIN <<>> = {}
  OBVIOUS
<1>2. StoreTypeOK
  BY <1>1 DEF StoreInit, StoreTypeOK, Stages
<1>3. RowsOnce /\ PlaceholdersWait /\ EachOnce(list)
  BY <1>1 DEF StoreInit, RowsOnce, PlaceholdersWait, EachOnce
<1>4. PagesOnce /\ FirstIsUncut
  BY DEF StoreInit, PagesOnce, FirstIsUncut, Unasked
<1> QED BY <1>2, <1>3, <1>4 DEF StoreInv

LEMMA InsertRowKeeps ==
  ASSUME StoreInv, NEW m \in Messages, InsertRow(m) PROVE StoreInv'
<1> USE DEF StoreInv
<1>1. /\ rows \in Seq(Messages) /\ rows' = Append(rows, m)
      /\ UNCHANGED <<sending, list, cursor, hasMore, fetch, base, missed, hidden>>
  BY DEF InsertRow, StoreTypeOK
<1>2. /\ rows' \in Seq(Messages) /\ DOMAIN rows' = 1 .. Len(rows) + 1
      /\ \A i \in 1 .. Len(rows) : rows'[i] = rows[i]
      /\ rows'[Len(rows) + 1] = m /\ Len(rows) \in Nat /\ DOMAIN rows = 1 .. Len(rows)
  BY <1>1, AppendProperties
<1>3. stage' \in [Messages -> Stages]
  BY DEF InsertRow, StoreTypeOK, Stages
<1>4. stage'[m] # "none" /\ \A n \in Messages : n # m => stage'[n] = stage[n]
  BY DEF InsertRow, StoreTypeOK
<1>5. \A i \in 1 .. Len(rows) : rows[i] \in Messages /\ rows[i] # m
  BY <1>1, <1>2 DEF InsertRow, RowsOnce
<1>6. RowsOnce'
  <2>1. \A i \in DOMAIN rows' : stage'[rows'[i]] # "none"
    BY <1>2, <1>4, <1>5 DEF RowsOnce
  <2>2. \A i, j \in DOMAIN rows' : rows'[i] = rows'[j] => i = j
    BY <1>2, <1>5 DEF RowsOnce
  <2> QED BY <2>1, <2>2 DEF RowsOnce
<1>7. PlaceholdersWait' /\ EachOnce(list)' /\ PagesOnce' /\ FirstIsUncut'
  BY <1>1 DEF PlaceholdersWait, EachOnce, PagesOnce, FirstIsUncut
<1>8. StoreTypeOK'
  BY <1>1, <1>2, <1>3 DEF StoreTypeOK
<1> QED BY <1>6, <1>7, <1>8

\* A message goes on, and is not undone.
LEMMA StageKeeps ==
  ASSUME StoreInv, NEW m \in Messages, NEW to \in Stages \ {"none"},
         stage' = [stage EXCEPT ![m] = to], missed' \in SUBSET Messages,
         UNCHANGED <<rows, sending, list, cursor, hasMore, fetch, base, hidden>>
  PROVE  StoreInv'
<1> USE DEF StoreInv
<1>1. StoreTypeOK'
  BY DEF StoreTypeOK
<1>2. RowsOnce'
  <2>1. \A i \in DOMAIN rows : rows[i] \in Messages
    BY DEF StoreTypeOK
  <2> QED BY <2>1 DEF RowsOnce, StoreTypeOK
<1>3. PlaceholdersWait' /\ EachOnce(list)' /\ PagesOnce' /\ FirstIsUncut'
  BY DEF PlaceholdersWait, EachOnce, PagesOnce, FirstIsUncut
<1> QED BY <1>1, <1>2, <1>3

\* A request for a page is made, answered or given up.
LEMMA FetchKeeps ==
  ASSUME StoreInv, NEW f \in Fetches,
         NEW to \in Asked \cup Read \cup {Over}, fetch' = [fetch EXCEPT ![f] = to],
         to.state = "read" => to \in Read /\ EachOnce(to.data)
                               /\ \A i \in DOMAIN to.data : ~to.data[i].temp,
         to.state = "asked" /\ to.kind = "first" => to.cursor = None,
         UNCHANGED <<rows, stage, sending, list, cursor, hasMore, base, missed, hidden>>
  PROVE  StoreInv'
<1> USE DEF StoreInv
<1>1. fetch'[f] = to /\ \A g \in Fetches : g # f => fetch'[g] = fetch[g]
  BY DEF StoreTypeOK
<1>2. StoreTypeOK'
  BY DEF StoreTypeOK
<1>3. RowsOnce' /\ PlaceholdersWait' /\ EachOnce(list)'
  BY DEF RowsOnce, PlaceholdersWait, EachOnce
<1>4. PagesOnce'
  <2> SUFFICES ASSUME NEW g \in Fetches, fetch'[g].state = "read"
               PROVE  /\ fetch'[g] \in Read /\ EachOnce(fetch'[g].data)
                      /\ \A i \in DOMAIN fetch'[g].data : ~fetch'[g].data[i].temp
    BY DEF PagesOnce, EachOnce
  <2>1. CASE g = f
    BY <1>1, <2>1
  <2>2. CASE g # f
    BY <1>1, <2>2 DEF PagesOnce
  <2> QED BY <2>1, <2>2
<1>5. FirstIsUncut'
  BY <1>1 DEF FirstIsUncut
<1> QED BY <1>2, <1>3, <1>4, <1>5

\* A page as it is read: in the order of the rows, of messages that are rows.
LEMMA PageOfRows ==
  ASSUME StoreInv
  PROVE  LET page == listMessages(None) IN
         /\ page.data \in Seq(Entry) /\ page.more \in BOOLEAN /\ page.base \in Nat
         /\ page.next \in Messages \cup {None}
         /\ EachOnce(page.data)
         /\ \A i \in DOMAIN page.data : ~page.data[i].temp
<1> USE DEF StoreInv
<1> DEFINE end  == Len(rows)
           size == IF end < Page THEN end ELSE Page
           entry(m) == [id |-> m, temp |-> FALSE, whole |-> stage[m] # "inserted"]
           data == [i \in 1 .. size |-> entry(rows[end - size + i])]
<1>1. end \in Nat /\ size \in Nat /\ size <= end /\ rows \in [1 .. end -> Messages]
  BY StoreConstants DEF StoreTypeOK
<1>2. \A m \in Messages : entry(m) \in Entry /\ entry(m).id = m /\ entry(m).temp = FALSE
  BY DEF Entry
<1>3. \A i \in 1 .. size : end - size + i \in 1 .. end
  BY <1>1
<1> HIDE DEF entry, size, end
<1>4. data \in [1 .. size -> Entry]
  BY <1>1, <1>2, <1>3
<1>5. data \in Seq(Entry) /\ DOMAIN data = 1 .. size
  BY <1>1, <1>4, Tabulated
<1>6. \A i \in 1 .. size : data[i].id = rows[end - size + i] /\ data[i].temp = FALSE
  BY <1>1, <1>2, <1>3
<1>7. EachOnce(data)
  <2> SUFFICES ASSUME NEW i \in 1 .. size, NEW j \in 1 .. size,
                      rows[end - size + i] = rows[end - size + j]
               PROVE  i = j
    BY <1>5, <1>6 DEF EachOnce
  <2>1. end - size + i = end - size + j
    BY <1>1, <1>3 DEF RowsOnce
  <2> QED BY <1>1, <2>1
<1>8. end > Page => rows[end - size + 1] \in Messages /\ end - size + 1 \in Nat
  BY <1>1, <1>3, StoreConstants DEF size
<1>9. end - size + 1 \in Nat
  BY <1>1
<1>10. listMessages(None) = [data |-> data, more |-> end > Page,
         next |-> IF end > Page THEN rows[end - size + 1] ELSE None, base |-> end - size + 1]
  BY DEF listMessages, end, size, entry
<1> HIDE DEF data
<1> QED BY <1>5, <1>6, <1>7, <1>8, <1>9, <1>10

LEMMA FetchesKeep ==
  ASSUME StoreInv, NEW f \in Fetches,
         \/ fetchMessages(f) \/ fetchOlderMessages(f) \/ ReadPage(f)
         \/ RefuseOlder(f) \/ FetchFails(f)
  PROVE  StoreInv'
<1>1. CASE fetchMessages(f)
  <2> DEFINE to == [state |-> "asked", kind |-> "first", cursor |-> None]
  <2>1. to \in Asked /\ to.state = "asked" /\ to.kind = "first" /\ to.cursor = None
    BY DEF Asked
  <2>2. fetch' = [fetch EXCEPT ![f] = to]
    BY <1>1 DEF fetchMessages
  <2> HIDE DEF to
  <2> QED BY <1>1, <2>1, <2>2, FetchKeeps DEF fetchMessages
<1>2. CASE fetchOlderMessages(f)
  <2> DEFINE to == [state |-> "asked", kind |-> "older", cursor |-> cursor]
  <2>1. to \in Asked /\ to.state = "asked" /\ to.kind = "older"
    BY DEF Asked, StoreInv, StoreTypeOK
  <2>2. fetch' = [fetch EXCEPT ![f] = to]
    BY <1>2 DEF fetchOlderMessages
  <2> HIDE DEF to
  <2> QED BY <1>2, <2>1, <2>2, FetchKeeps DEF fetchOlderMessages
<1>3. CASE ReadPage(f)
  <2> DEFINE page == listMessages(None)
             to == [state |-> "read", kind |-> "first", data |-> page.data,
                    next |-> page.next, more |-> page.more, base |-> page.base]
  <2>1. fetch[f].cursor = None
    BY <1>3 DEF ReadPage, StoreInv, FirstIsUncut
  <2>2. fetch' = [fetch EXCEPT ![f] = to]
    BY <1>3, <2>1 DEF ReadPage
  <2>3. /\ page.data \in Seq(Entry) /\ page.more \in BOOLEAN /\ page.base \in Nat
        /\ page.next \in Messages \cup {None}
        /\ EachOnce(page.data)
        /\ \A i \in DOMAIN page.data : ~page.data[i].temp
    BY PageOfRows
  <2> HIDE DEF page
  <2>4. to \in Read /\ to.state = "read" /\ to.data = page.data
    BY <2>3 DEF Read
  <2> HIDE DEF to
  <2> QED BY <1>3, <2>2, <2>3, <2>4, FetchKeeps DEF ReadPage
<1>4. CASE RefuseOlder(f) \/ FetchFails(f)
  <2>1. Over.state = "over" /\ fetch' = [fetch EXCEPT ![f] = Over]
    BY <1>4 DEF RefuseOlder, FetchFails, Over
  <2> QED BY <1>4, <2>1, FetchKeeps DEF RefuseOlder, FetchFails
<1> QED BY <1>1, <1>2, <1>3, <1>4

LEMMA EntriesOf ==
  ASSUME NEW entries \in Seq(Entry)
  PROVE  /\ \A i \in DOMAIN entries :
              /\ entries[i] \in Entry /\ entries[i].id \in Messages
              /\ entries[i].temp \in BOOLEAN /\ entries[i].whole \in BOOLEAN
         /\ \A e \in Range(entries) : e.id \in Messages
<1>1. \A i \in DOMAIN entries : entries[i] \in Entry
  OBVIOUS
<1>2. \A e \in Entry : e.id \in Messages /\ e.temp \in BOOLEAN /\ e.whole \in BOOLEAN
  BY DEF Entry
<1> QED BY <1>1, <1>2 DEF Range

LEMMA ApplyFirstKeeps ==
  ASSUME StoreInv, NEW f \in Fetches, ApplyFirst(f) PROVE StoreInv'
<1> USE DEF StoreInv
<1> DEFINE page == fetch[f]
<1>1. /\ page \in Read /\ page.data \in Seq(Entry) /\ page.next \in Messages \cup {None}
      /\ page.more \in BOOLEAN /\ page.base \in Nat /\ EachOnce(page.data)
      /\ \A i \in DOMAIN page.data : ~page.data[i].temp
  BY DEF ApplyFirst, PagesOnce, Read
<1>2. /\ list' = page.data /\ cursor' = page.next /\ hasMore' = page.more /\ base' = page.base
      /\ fetch' = [fetch EXCEPT ![f] = Over] /\ UNCHANGED <<rows, stage, sending, missed>>
      /\ hidden' \subseteq hidden \cup listed \cup {e.id : e \in Range(page.data)}
  BY DEF ApplyFirst
<1> HIDE DEF page
<1>3. \A e \in Range(page.data) : e.id \in Messages
  BY <1>1, EntriesOf
<1>4. listed \subseteq Messages
  <2>1. list \in Seq(Entry)
    BY DEF StoreTypeOK
  <2> QED BY <2>1, EntriesOf DEF listed
<1>5. StoreTypeOK'
  <2>1. hidden' \in SUBSET Messages
    BY <1>2, <1>3, <1>4 DEF StoreTypeOK
  <2>2. fetch' \in [Fetches -> Asked \cup Read \cup {Unasked, Over}]
    BY <1>2 DEF StoreTypeOK
  <2> QED BY <1>1, <1>2, <2>1, <2>2 DEF StoreTypeOK
<1>6. RowsOnce'
  BY <1>2 DEF RowsOnce
<1>7. PlaceholdersWait' /\ EachOnce(list)'
  BY <1>1, <1>2 DEF PlaceholdersWait, EachOnce
<1>8. fetch'[f].state = "over" /\ \A g \in Fetches : g # f => fetch'[g] = fetch[g]
  BY <1>2 DEF StoreTypeOK, Over
<1>9. PagesOnce' /\ FirstIsUncut'
  BY <1>8 DEF PagesOnce, FirstIsUncut, EachOnce
<1> QED BY <1>5, <1>6, <1>7, <1>9

\* An entry goes to the end of the list.
LEMMA AppendKeeps ==
  ASSUME StoreInv, NEW e \in Entry,
         \A i \in DOMAIN list : list[i].id = e.id => list[i].temp # e.temp,
         list' = Append(list, e),
         sending' \in [Own -> {"unsent", "waiting", "ok", "failed"}],
         \A i \in DOMAIN list : list[i].temp =>
           sending'[list[i].id] = sending[list[i].id],
         e.temp => e.id \in Own /\ sending'[e.id] = "waiting",
         UNCHANGED <<rows, stage, cursor, hasMore, fetch, base, missed, hidden>>
  PROVE  StoreInv'
<1> USE DEF StoreInv
<1>1. list \in Seq(Entry)
  BY DEF StoreTypeOK
<1>2. /\ list' \in Seq(Entry) /\ DOMAIN list' = 1 .. Len(list) + 1
      /\ DOMAIN list = 1 .. Len(list) /\ Len(list) \in Nat
      /\ \A i \in 1 .. Len(list) : list'[i] = list[i]
      /\ list'[Len(list) + 1] = e
  BY <1>1, AppendProperties
<1>3. \A i \in DOMAIN list : list[i] \in Entry
  BY <1>1
<1>4. StoreTypeOK'
  BY <1>2 DEF StoreTypeOK
<1>5. PlaceholdersWait'
  BY <1>2 DEF PlaceholdersWait
<1>6. EachOnce(list')
  <2> SUFFICES ASSUME NEW i \in DOMAIN list', NEW j \in DOMAIN list',
                      list'[i].id = list'[j].id, list'[i].temp = list'[j].temp
               PROVE  i = j
    BY DEF EachOnce
  <2>1. CASE i \in DOMAIN list /\ j \in DOMAIN list
    BY <1>2, <2>1 DEF EachOnce
  <2>2. CASE i \notin DOMAIN list \/ j \notin DOMAIN list
    BY <1>2, <2>2
  <2> QED BY <2>1, <2>2
<1>7. EachOnce(list)'
  BY <1>6 DEF EachOnce
<1>8. RowsOnce' /\ PagesOnce' /\ FirstIsUncut'
  BY DEF RowsOnce, PagesOnce, FirstIsUncut, EachOnce
<1> QED BY <1>4, <1>5, <1>7, <1>8

\* What a filter leaves keeps what the list keeps.
LEMMA FilteredOnce ==
  ASSUME StoreInv, NEW P \in SUBSET DOMAIN list
  PROVE  /\ Kept(list, P) \in Seq(Entry) /\ EachOnce(Kept(list, P))
         /\ \A n \in DOMAIN Kept(list, P) : \E i \in P : Kept(list, P)[n] = list[i]
         /\ \A i \in P : \E n \in DOMAIN Kept(list, P) : Kept(list, P)[n] = list[i]
<1>1. list \in Seq(Entry) /\ EachOnce(list)
  BY DEF StoreInv, StoreTypeOK
<1> DEFINE left == Kept(list, P)
<1>2. /\ left \in Seq(Entry)
      /\ \A n \in DOMAIN left : \E i \in P : left[n] = list[i]
      /\ \A i \in P : \E n \in DOMAIN left : left[n] = list[i]
      /\ \E from \in [DOMAIN left -> P] :
           /\ \A n \in DOMAIN left : left[n] = list[from[n]]
           /\ \A n, o \in DOMAIN left : from[n] = from[o] => n = o
  BY <1>1, KeptEntries
<1> HIDE DEF left
<1>3. EachOnce(left)
  <2>1. PICK from \in [DOMAIN left -> P] :
           /\ \A n \in DOMAIN left : left[n] = list[from[n]]
           /\ \A n, o \in DOMAIN left : from[n] = from[o] => n = o
    BY <1>2
  <2>2. \A n \in DOMAIN left : from[n] \in DOMAIN list
    OBVIOUS
  <2> QED BY <1>1, <2>1, <2>2 DEF EachOnce
<1> QED BY <1>2, <1>3 DEF left

LEMMA AddMessageKeeps ==
  ASSUME StoreInv, NEW m \in Messages, addMessage(m) PROVE StoreInv'
<1>1. UNCHANGED <<rows, stage, sending, cursor, hasMore, fetch, base, missed, hidden>>
  BY DEF addMessage
<1>2. CASE m \in listed
  <2>1. list' = list
    BY <1>2 DEF addMessage
  <2> QED BY <1>1, <2>1 DEF StoreInv, StoreTypeOK, RowsOnce, PlaceholdersWait, EachOnce, PagesOnce, FirstIsUncut
<1>3. CASE m \notin listed
  <2>1. /\ list' = Append(list, Shown(m)) /\ Shown(m) \in Entry
        /\ Shown(m).id = m /\ Shown(m).temp = FALSE
    BY <1>3 DEF addMessage, Shown, Entry
  <2>2. \A i \in DOMAIN list : list[i].id = m => list[i].temp # FALSE
    BY <1>3 DEF listed
  <2>3. sending' \in [Own -> {"unsent", "waiting", "ok", "failed"}]
    BY <1>1 DEF StoreInv, StoreTypeOK
  <2> QED BY <1>1, <2>1, <2>2, <2>3, AppendKeeps
<1> QED BY <1>2, <1>3

LEMMA SendMessageKeeps ==
  ASSUME StoreInv, NEW m \in Messages, sendMessage(m) PROVE StoreInv'
<1>1. UNCHANGED <<rows, stage, cursor, hasMore, fetch, base, missed, hidden>>
  BY DEF sendMessage
<1>2. /\ list' = Append(list, Placeholder(m)) /\ Placeholder(m) \in Entry
      /\ Placeholder(m).id = m /\ Placeholder(m).temp = TRUE
  BY DEF sendMessage, Placeholder, Entry
<1>3. /\ m \in Own /\ sending[m] = "unsent"
      /\ sending' \in [Own -> {"unsent", "waiting", "ok", "failed"}]
      /\ sending'[m] = "waiting" /\ \A n \in Own : n # m => sending'[n] = sending[n]
  BY DEF sendMessage, StoreInv, StoreTypeOK
<1>4. \A i \in DOMAIN list : list[i].temp => list[i].id \in Own \ {m}
  BY <1>3 DEF StoreInv, PlaceholdersWait
<1>5. \A i \in DOMAIN list : list[i].id = m => list[i].temp # TRUE
  BY <1>4
<1> QED BY <1>1, <1>2, <1>3, <1>4, <1>5, AppendKeeps

\* A send that ends takes its placeholder along.
LEMMA SendEnds ==
  ASSUME StoreInv, NEW m \in Own, sending[m] = "waiting", NEW to \in {"ok", "failed"},
         sending' = [sending EXCEPT ![m] = to],
         list' \in Seq(Entry), EachOnce(list'),
         \A n \in DOMAIN list' : list'[n].temp =>
           list'[n].id # m /\ \E i \in DOMAIN list : list'[n] = list[i],
         UNCHANGED <<rows, stage, cursor, hasMore, fetch, base, missed, hidden>>
  PROVE  StoreInv'
<1> USE DEF StoreInv
<1>1. /\ sending' \in [Own -> {"unsent", "waiting", "ok", "failed"}]
      /\ \A n \in Own : n # m => sending'[n] = sending[n]
  BY DEF StoreTypeOK
<1>2. StoreTypeOK'
  BY <1>1 DEF StoreTypeOK
<1>3. PlaceholdersWait'
  BY <1>1 DEF PlaceholdersWait
<1>4. RowsOnce' /\ EachOnce(list)' /\ PagesOnce' /\ FirstIsUncut'
  BY DEF RowsOnce, PagesOnce, FirstIsUncut, EachOnce
<1> QED BY <1>2, <1>3, <1>4

\* What a response leaves of the list: all but the message, and the message.
LEMMA SentList ==
  ASSUME StoreInv, NEW m \in Messages, Sent(m)
  PROVE  /\ list' \in Seq(Entry) /\ EachOnce(list')
         /\ \A n \in DOMAIN list' :
              \/ list'[n] = Shown(m)
              \/ list'[n].id # m /\ \E i \in DOMAIN list : list'[n] = list[i]
         /\ \E n \in DOMAIN list' : list'[n] = Shown(m)
         /\ \A i \in DOMAIN list : list[i].id # m => \E n \in DOMAIN list' : list'[n] = list[i]
<1> DEFINE P == {i \in DOMAIN list : list[i].id # m}
           left == Kept(list, P)
<1>1. /\ left \in Seq(Entry) /\ EachOnce(left)
      /\ \A n \in DOMAIN left : \E i \in P : left[n] = list[i]
      /\ \A i \in P : \E n \in DOMAIN left : left[n] = list[i]
  BY FilteredOnce
<1>2. list' = Append(left, Shown(m)) /\ Shown(m) \in Entry /\ Shown(m).id = m
  BY DEF Sent, Without, Shown, Entry
<1> HIDE DEF left
<1>3. /\ list' \in Seq(Entry) /\ DOMAIN list' = 1 .. Len(left) + 1
      /\ DOMAIN left = 1 .. Len(left) /\ Len(left) \in Nat
      /\ \A n \in DOMAIN left : list'[n] = left[n]
      /\ list'[Len(left) + 1] = Shown(m)
  BY <1>1, <1>2, AppendProperties
<1>4. \A n \in DOMAIN left : left[n].id # m
  BY <1>1
<1>5. EachOnce(list')
  BY <1>1, <1>2, <1>3, <1>4 DEF EachOnce
<1> QED BY <1>1, <1>3, <1>4, <1>5

LEMMA SentKeeps ==
  ASSUME StoreInv, NEW m \in Messages, Sent(m) PROVE StoreInv'
<1>1. Shown(m).temp = FALSE
  BY DEF Shown
<1>2. /\ m \in Own /\ sending[m] = "waiting" /\ sending' = [sending EXCEPT ![m] = "ok"]
      /\ UNCHANGED <<rows, stage, cursor, hasMore, fetch, base, missed, hidden>>
  BY DEF Sent
<1>3. /\ list' \in Seq(Entry) /\ EachOnce(list')
      /\ \A n \in DOMAIN list' : list'[n].temp =>
           list'[n].id # m /\ \E i \in DOMAIN list : list'[n] = list[i]
  BY <1>1, SentList
<1> QED BY <1>2, <1>3, SendEnds

\* What a failed send leaves of the list: all but its placeholder.
LEMMA FailedList ==
  ASSUME StoreInv, NEW m \in Messages, SendFails(m)
  PROVE  /\ list' \in Seq(Entry) /\ EachOnce(list')
         /\ \A n \in DOMAIN list' :
              /\ list'[n].temp => list'[n].id # m
              /\ \E i \in DOMAIN list : list'[n] = list[i]
         /\ \A i \in DOMAIN list : ~list[i].temp => \E n \in DOMAIN list' : list'[n] = list[i]
<1> DEFINE P == {i \in DOMAIN list : ~(list[i].temp /\ list[i].id = m)}
           left == Kept(list, P)
<1>1. /\ left \in Seq(Entry) /\ EachOnce(left)
      /\ \A n \in DOMAIN left : \E i \in P : left[n] = list[i]
      /\ \A i \in P : \E n \in DOMAIN left : left[n] = list[i]
  BY FilteredOnce
<1>2. list' = left
  BY DEF SendFails
<1> HIDE DEF left
<1> QED BY <1>1, <1>2

LEMMA SendFailsKeeps ==
  ASSUME StoreInv, NEW m \in Messages, SendFails(m) PROVE StoreInv'
<1>1. /\ m \in Own /\ sending[m] = "waiting" /\ sending' = [sending EXCEPT ![m] = "failed"]
      /\ UNCHANGED <<rows, stage, cursor, hasMore, fetch, base, missed, hidden>>
  BY DEF SendFails
<1>2. /\ list' \in Seq(Entry) /\ EachOnce(list')
      /\ \A n \in DOMAIN list' : list'[n].temp =>
           list'[n].id # m /\ \E i \in DOMAIN list : list'[n] = list[i]
  BY FailedList
<1> QED BY <1>1, <1>2, SendEnds

LEMMA StoreImplies == StoreInv => ShownOnce
<1> SUFFICES ASSUME StoreInv, StoreSettled
             PROVE  \A i \in DOMAIN list :
                      /\ ~list[i].temp
                      /\ \A j \in DOMAIN list : list[j].id = list[i].id => j = i
  BY DEF ShownOnce
<1>1. \A i \in DOMAIN list : list[i].temp \in BOOLEAN
  BY EntriesOf DEF StoreInv, StoreTypeOK
<1>2. \A i \in DOMAIN list : ~list[i].temp
  BY DEF StoreInv, PlaceholdersWait, StoreSettled
<1>3. \A i, j \in DOMAIN list : list[j].id = list[i].id => list[j].temp = list[i].temp
  BY <1>1, <1>2
<1> QED BY <1>2, <1>3 DEF StoreInv, EachOnce

--------------------------------------------------------------------------------
(* What becomes of a published message *)

OnTheWay    == IF socket = "open" THEN Range(downlink[conn]) ELSE {}
wholeListed == {list[i].id : i \in {j \in DOMAIN list : ~list[j].temp /\ list[j].whole}}
accounted   == missed \cup hidden \cup wholeListed \cup OnTheWay

\* A message that was published or lost is accounted for, and one shown without its file
\* is known to be.
PublishedIsAccounted == \A m \in Messages : stage[m] = "published" => m \in accounted
LostIsMissed    == \A m \in Messages : stage[m] = "lost" => m \in missed
PartialIsHidden == \A i \in DOMAIN list : ~list[i].whole => list[i].id \in hidden

AccountInv == PublishedIsAccounted /\ LostIsMissed /\ PartialIsHidden

ChatInv == SocketInv /\ StoreInv /\ AccountInv /\ mounted \in BOOLEAN

LEMMA AccountStays ==
  ASSUME AccountInv, accounted \subseteq accounted', missed \subseteq missed',
         \A m \in Messages :
           \/ stage'[m] = stage[m]
           \/ stage'[m] = "published" /\ m \in accounted'
           \/ stage'[m] = "lost" /\ m \in missed'
           \/ stage'[m] \notin {"published", "lost"},
         PartialIsHidden'
  PROVE  AccountInv'
BY DEF AccountInv, PublishedIsAccounted, LostIsMissed

LEMMA ListStays ==
  ASSUME AccountInv, list' = list, hidden' = hidden
  PROVE  wholeListed' = wholeListed /\ PartialIsHidden'
BY DEF AccountInv, PartialIsHidden, wholeListed

LEMMA ChatInitially == ChatInit => ChatInv
<1> SUFFICES ASSUME ChatInit PROVE ChatInv
  OBVIOUS
<1>1. DOMAIN list = {}
  BY DEF ChatInit, StoreInit
<1>2. AccountInv
  BY <1>1 DEF ChatInit, StoreInit, AccountInv, PublishedIsAccounted, LostIsMissed, PartialIsHidden
<1> QED BY <1>2, SocketInitially, StoreInitially DEF ChatInit, ChatInv

\* A step of the list or the rows that leaves both as they are to a reader.
LEMMA QuietStore ==
  ASSUME ChatInv, UNCHANGED <<stage, list, missed, hidden, OnTheWay>>
  PROVE  AccountInv'
<1>1. wholeListed' = wholeListed /\ PartialIsHidden'
  BY ListStays DEF ChatInv
<1> QED BY <1>1, AccountStays DEF ChatInv, accounted

LEMMA WayStays == UNCHANGED <<socket, conn, downlink>> => OnTheWay' = OnTheWay
BY DEF OnTheWay

LEMMA MountKeeps == ASSUME ChatInv, NEW f \in Fetches, Mount(f) PROVE ChatInv'
<1>1. SocketInv'
  BY SubscribeKeeps DEF Mount, ChatInv
<1>2. StoreInv'
  BY FetchesKeep DEF Mount, ChatInv
<1>3. UNCHANGED <<stage, list, missed, hidden, socket, conn, downlink>>
  BY DEF Mount, fetchMessages, Subscribe, tabVars
<1> QED BY <1>1, <1>2, <1>3, WayStays, QuietStore DEF Mount, ChatInv

LEMMA UnmountKeeps == ASSUME ChatInv, Unmount PROVE ChatInv'
<1>1. SocketInv'
  BY UnsubscribeKeeps DEF Unmount, ChatInv
<1>2. UNCHANGED <<stage, list, missed, hidden, socket, conn, downlink>>
  BY DEF Unmount, Unsubscribe, storeVars
<1>3. StoreInv'
  BY DEF Unmount, ChatInv, StoreInv, storeVars, StoreTypeOK, RowsOnce, PlaceholdersWait, EachOnce,
         PagesOnce, FirstIsUncut
<1> QED BY <1>1, <1>2, <1>3, WayStays, QuietStore DEF Unmount, ChatInv

LEMMA ScrollKeeps == ASSUME ChatInv, NEW f \in Fetches, Scroll(f) PROVE ChatInv'
<1>1. SocketInv'
  BY SocketStutters DEF Scroll, ChatInv
<1>2. StoreInv'
  BY FetchesKeep DEF Scroll, ChatInv
<1>3. UNCHANGED <<stage, list, missed, hidden, socket, conn, downlink>>
  BY DEF Scroll, fetchOlderMessages, socketVars, tabVars
<1> QED BY <1>1, <1>2, <1>3, WayStays, QuietStore DEF Scroll, ChatInv

LEMMA StoreStutters == StoreInv /\ UNCHANGED storeVars => StoreInv'
BY DEF StoreInv, storeVars, StoreTypeOK, RowsOnce, PlaceholdersWait, EachOnce, PagesOnce,
       FirstIsUncut

LEMMA AcceptInvitationKeeps == ASSUME ChatInv, AcceptInvitation PROVE ChatInv'
<1>1. SocketInv' /\ StoreInv'
  BY JoinKeeps, StoreStutters DEF AcceptInvitation, ChatInv
<1>2. UNCHANGED <<stage, list, missed, hidden, socket, conn, downlink>>
  BY DEF AcceptInvitation, Join, storeVars, tabVars
<1> QED BY <1>1, <1>2, WayStays, QuietStore DEF AcceptInvitation, ChatInv

\* What goes to the end of a list leaves the rest of it in place.
LEMMA Appending ==
  ASSUME StoreInv, NEW e \in Entry, list' = Append(list, e)
  PROVE  /\ \A i \in DOMAIN list : i \in DOMAIN list' /\ list'[i] = list[i]
         /\ \A n \in DOMAIN list' : n \in DOMAIN list \/ list'[n] = e
         /\ \E n \in DOMAIN list' : list'[n] = e
<1>1. list \in Seq(Entry)
  BY DEF StoreInv, StoreTypeOK
<1>2. /\ DOMAIN list' = 1 .. Len(list) + 1 /\ DOMAIN list = 1 .. Len(list) /\ Len(list) \in Nat
      /\ \A i \in 1 .. Len(list) : list'[i] = list[i]
      /\ list'[Len(list) + 1] = e
  BY <1>1, AppendProperties
<1> QED BY <1>2

\* A list that keeps the messages it shows whole, and gains none without its file.
LEMMA ListGrows ==
  ASSUME ChatInv, UNCHANGED <<missed, hidden>>,
         \A i \in DOMAIN list : ~list[i].temp /\ list[i].whole =>
           \E n \in DOMAIN list' : ~list'[n].temp /\ list'[n].whole /\ list'[n].id = list[i].id,
         \A n \in DOMAIN list' : list'[n].whole \/ \E i \in DOMAIN list : list'[n] = list[i]
  PROVE  wholeListed \subseteq wholeListed' /\ PartialIsHidden'
<1>1. wholeListed \subseteq wholeListed'
  BY DEF wholeListed
<1>2. PartialIsHidden'
  BY DEF ChatInv, AccountInv, PartialIsHidden
<1> QED BY <1>1, <1>2

LEMMA SendTextKeeps == ASSUME ChatInv, NEW m \in Messages, SendText(m) PROVE ChatInv'
<1>1. SocketInv' /\ StoreInv'
  BY SocketStutters, SendMessageKeeps DEF SendText, ChatInv
<1>2. UNCHANGED <<stage, missed, hidden, socket, conn, downlink>>
  BY DEF SendText, sendMessage, socketVars, tabVars
<1>3. list' = Append(list, Placeholder(m)) /\ Placeholder(m) \in Entry /\ Placeholder(m).whole
  BY DEF SendText, sendMessage, Placeholder, Entry
<1>4. /\ \A i \in DOMAIN list : i \in DOMAIN list' /\ list'[i] = list[i]
      /\ \A n \in DOMAIN list' : n \in DOMAIN list \/ list'[n] = Placeholder(m)
  BY <1>3, Appending DEF ChatInv
<1>5. /\ \A i \in DOMAIN list : ~list[i].temp /\ list[i].whole =>
           \E n \in DOMAIN list' : ~list'[n].temp /\ list'[n].whole /\ list'[n].id = list[i].id
      /\ \A n \in DOMAIN list' : list'[n].whole \/ \E i \in DOMAIN list : list'[n] = list[i]
  BY <1>3, <1>4
<1>6. wholeListed \subseteq wholeListed' /\ PartialIsHidden'
  BY <1>2, <1>5, ListGrows
<1>7. AccountInv'
  BY <1>2, <1>6, WayStays, AccountStays DEF ChatInv, accounted
<1> QED BY <1>1, <1>7 DEF SendText, ChatInv

LEMMA InsertKeeps == ASSUME ChatInv, NEW m \in Messages, Insert(m) PROVE ChatInv'
<1>1. StoreInv'
  BY InsertRowKeeps DEF Insert, ChatInv
<1>2. SocketInv'
  BY JoinKeeps, SocketStutters DEF Insert, ChatInv
<1>3. UNCHANGED <<list, missed, hidden, socket, conn, downlink>>
  BY DEF Insert, InsertRow, Join, socketVars, tabVars
<1>4. \A n \in Messages : stage'[n] = stage[n] \/ stage'[n] \notin {"published", "lost"}
  BY DEF Insert, InsertRow, ChatInv, StoreInv, StoreTypeOK
<1>5. wholeListed' = wholeListed /\ PartialIsHidden'
  BY <1>3, ListStays DEF ChatInv
<1>6. AccountInv'
  BY <1>3, <1>4, <1>5, WayStays, AccountStays DEF ChatInv, accounted
<1> QED BY <1>1, <1>2, <1>6 DEF Insert, ChatInv

LEMMA PublishKeeps == ASSUME ChatInv, NEW m \in Messages, Publish(m) PROVE ChatInv'
<1>1. m \in Pushes
  BY PushesMessages
<1>2. SocketInv'
  BY <1>1, BroadcastKeeps DEF Publish, ChatInv
<1>3. /\ stage' = [stage EXCEPT ![m] = "published"]
      /\ missed' = IF Heard THEN missed ELSE missed \cup {m}
      /\ UNCHANGED <<rows, sending, list, cursor, hasMore, fetch, base, hidden>>
  BY DEF Publish, PublishRow
<1>4. StoreInv'
  <2>1. missed' \in SUBSET Messages
    BY <1>3 DEF ChatInv, StoreInv, StoreTypeOK
  <2>2. "published" \in Stages \ {"none"}
    BY DEF Stages
  <2> QED BY <1>3, <2>1, <2>2, StageKeeps DEF ChatInv
<1>5. UNCHANGED <<socket, conn>>
  BY DEF Publish, Broadcast, tabVars
<1>6. OnTheWay \subseteq OnTheWay' /\ (Heard => m \in OnTheWay')
  <2>1. CASE socket # "open"
    BY <1>5, <2>1 DEF OnTheWay, Heard
  <2>2. CASE socket = "open"
    <3>1. conn \in Conns /\ downlink[conn] \in Seq(Pushes)
      BY <2>2 DEF ChatInv, SocketInv, TabAgrees, SocketTypeOK
    <3>2. downlink'[conn] = IF Heard THEN Append(downlink[conn], m) ELSE downlink[conn]
      BY <2>2, <3>1 DEF Publish, Broadcast, Heard
    <3>3. Range(Append(downlink[conn], m)) = Range(downlink[conn]) \cup {m}
      BY <1>1, <3>1, Ranges
    <3>4. OnTheWay = Range(downlink[conn]) /\ OnTheWay' = Range(downlink'[conn])
      BY <1>5, <2>2 DEF OnTheWay
    <3> QED BY <3>2, <3>3, <3>4
  <2> QED BY <2>1, <2>2
<1>7. wholeListed' = wholeListed /\ PartialIsHidden'
  BY <1>3, ListStays DEF ChatInv
<1>8. accounted \subseteq accounted' /\ m \in accounted' /\ missed \subseteq missed'
  BY <1>3, <1>6, <1>7 DEF accounted
<1>9. stage'[m] = "published" /\ \A n \in Messages : n # m => stage'[n] = stage[n]
  BY <1>3 DEF ChatInv, StoreInv, StoreTypeOK
<1>10. AccountInv'
  BY <1>7, <1>8, <1>9, AccountStays DEF ChatInv
<1> QED BY <1>2, <1>4, <1>10 DEF Publish, ChatInv

LEMMA ArriveKeeps == ASSUME ChatInv, Arrive PROVE ChatInv'
<1> DEFINE m == Head(downlink[conn])
<1>1. /\ conn \in Conns /\ downlink[conn] \in Seq(Pushes) /\ downlink[conn] # <<>>
      /\ downlink \in [Conns -> Seq(Pushes)] /\ socket = "open"
  BY DEF Arrive, ChatInv, SocketInv, TabAgrees, SocketTypeOK
<1>2. m \in Messages /\ Tail(downlink[conn]) \in Seq(Pushes)
  BY <1>1, Consumed, PushesMessages
<1>3. downlink' = [downlink EXCEPT ![conn] = Tail(downlink[conn])] /\ addMessage(m)
  BY DEF Arrive
<1>4. UNCHANGED <<member, wanted, active, socket, conn, queue, link, uplink, checks, hub, refused,
                  late>> /\ UNCHANGED mounted
  BY DEF Arrive, tabVars, serverVars
<1> HIDE DEF m
<1>5. SocketInv'
  <2>1. downlink' \in [Conns -> Seq(Pushes)]
    BY <1>1, <1>2, <1>3
  <2> QED BY <1>4, <2>1 DEF ChatInv, SocketInv, SocketTypeOK, TabAgrees, UnopenedIsUnused,
                            WantedIsAsked, ClosedIsLate
<1>6. StoreInv'
  BY <1>2, <1>3, AddMessageKeeps DEF ChatInv
<1>7. UNCHANGED <<stage, missed, hidden>>
  BY <1>3 DEF addMessage
<1>8. OnTheWay \subseteq {m} \cup OnTheWay'
  <2>1. OnTheWay = Range(downlink[conn]) /\ OnTheWay' = Range(Tail(downlink[conn]))
    BY <1>1, <1>3, <1>4 DEF OnTheWay
  <2>2. Range(downlink[conn]) \subseteq {m} \cup Range(Tail(downlink[conn]))
    BY <1>1, <1>2, Ranges, PushesMessages DEF m
  <2> QED BY <2>1, <2>2
<1>9. CASE m \in listed
  <2>1. list' = list
    BY <1>3, <1>9 DEF addMessage
  <2>2. wholeListed' = wholeListed /\ PartialIsHidden'
    BY <1>7, <2>1, ListStays DEF ChatInv
  <2>3. m \in wholeListed \cup hidden
    BY <1>9 DEF listed, wholeListed, ChatInv, AccountInv, PartialIsHidden
  <2>4. accounted \subseteq accounted'
    BY <1>7, <1>8, <2>2, <2>3 DEF accounted
  <2>5. AccountInv'
    BY <1>7, <2>2, <2>4, AccountStays DEF ChatInv
  <2> QED BY <1>4, <1>5, <1>6, <2>5 DEF ChatInv
<1>10. CASE m \notin listed
  <2>1. /\ list' = Append(list, Shown(m)) /\ Shown(m) \in Entry
        /\ Shown(m).whole = TRUE /\ Shown(m).temp = FALSE /\ Shown(m).id = m
    BY <1>2, <1>3, <1>10 DEF addMessage, Shown, Entry
  <2>2. /\ \A i \in DOMAIN list : i \in DOMAIN list' /\ list'[i] = list[i]
        /\ \A n \in DOMAIN list' : n \in DOMAIN list \/ list'[n] = Shown(m)
        /\ \E n \in DOMAIN list' : list'[n] = Shown(m)
    BY <2>1, Appending DEF ChatInv
  <2>3. /\ \A i \in DOMAIN list : ~list[i].temp /\ list[i].whole =>
             \E n \in DOMAIN list' : ~list'[n].temp /\ list'[n].whole /\ list'[n].id = list[i].id
        /\ \A n \in DOMAIN list' : list'[n].whole \/ \E i \in DOMAIN list : list'[n] = list[i]
    BY <2>1, <2>2
  <2>4. wholeListed \subseteq wholeListed' /\ PartialIsHidden'
    BY <1>7, <2>3, ListGrows
  <2>5. m \in wholeListed'
    BY <2>1, <2>2 DEF wholeListed
  <2>6. accounted \subseteq accounted'
    BY <1>7, <1>8, <2>4, <2>5 DEF accounted
  <2>7. AccountInv'
    BY <1>7, <2>4, <2>6, AccountStays DEF ChatInv
  <2> QED BY <1>4, <1>5, <1>6, <2>7 DEF ChatInv
<1> QED BY <1>9, <1>10

\* What the socket does by itself: only the loss of the connection takes messages along.
LEMMA TransportKeeps == ASSUME ChatInv, Transport PROVE ChatInv'
<1> DEFINE lost == IF socket = "open" /\ socket' = "down" THEN Range(downlink[conn]) ELSE {}
<1>1. /\ missed' = missed \cup lost /\ UNCHANGED mounted
      /\ UNCHANGED <<rows, stage, sending, list, cursor, hasMore, fetch, base, hidden>>
  BY DEF Transport, Missing
<1>2. lost \subseteq Messages
  <2>1. CASE socket = "open"
    <3>1. downlink[conn] \in Seq(Messages)
      BY <2>1, PushesMessages DEF ChatInv, SocketInv, TabAgrees, SocketTypeOK
    <3> QED BY <3>1 DEF Range
  <2>2. CASE socket # "open"
    BY <2>2
  <2> QED BY <2>1, <2>2
<1> HIDE DEF lost
<1>3. StoreInv'
  BY <1>1, <1>2 DEF ChatInv, StoreInv, StoreTypeOK, RowsOnce, PlaceholdersWait, EachOnce,
                    PagesOnce, FirstIsUncut
<1>4. SocketInv'
  BY OpenedKeeps, LosesConnectionKeeps, HandleFrameKeeps, CheckDoneKeeps, CloseKeeps
  DEF Transport, SocketStep, ChatInv
<1>5. OnTheWay \subseteq lost \cup OnTheWay'
  <2>1. CASE Opened
    BY <2>1 DEF Opened, OnTheWay
  <2>2. CASE LosesConnection
    BY <2>2 DEF LosesConnection, OnTheWay, lost
  <2>3. CASE \E k \in Conns : HandleFrame(k) \/ CheckDone(k) \/ Close(k)
    <3>1. UNCHANGED <<socket, conn, downlink>>
      BY <2>3 DEF HandleFrame, CheckDone, Close, tabVars
    <3> QED BY <3>1, WayStays
  <2> QED BY <2>1, <2>2, <2>3 DEF Transport, SocketStep
<1>6. wholeListed' = wholeListed /\ PartialIsHidden'
  BY <1>1, ListStays DEF ChatInv
<1>7. AccountInv'
  BY <1>1, <1>5, <1>6, AccountStays DEF ChatInv, accounted
<1> QED BY <1>1, <1>3, <1>4, <1>7 DEF ChatInv

\* The first page replaces the list: what it takes out, or shows without its file, is known.
LEMMA ApplyAccounts ==
  ASSUME ChatInv, NEW f \in Fetches, ApplyFirst(f), UNCHANGED OnTheWay PROVE AccountInv'
<1> DEFINE page == fetch[f]
           whole == {e.id : e \in {x \in Range(page.data) : x.whole}}
<1>1. /\ list' = page.data /\ UNCHANGED <<stage, missed>>
      /\ hidden' = (hidden \cup listed \cup {e.id : e \in Range(page.data)}) \ whole
  BY DEF ApplyFirst
<1>2. /\ page.data \in Seq(Entry) /\ EachOnce(page.data)
      /\ \A i \in DOMAIN page.data : ~page.data[i].temp
  BY DEF ApplyFirst, ChatInv, StoreInv, PagesOnce, Read
<1>3. \A i \in DOMAIN page.data : page.data[i].temp \in BOOLEAN /\ page.data[i] \in Range(page.data)
  BY <1>2, EntriesOf DEF Range
<1>4. \A e \in Range(page.data) : \E i \in DOMAIN page.data : page.data[i] = e
  BY DEF Range
<1> HIDE DEF page
<1>5. whole \subseteq wholeListed'
  BY <1>1, <1>2, <1>4 DEF wholeListed
<1>6. PartialIsHidden'
  <2> SUFFICES ASSUME NEW i \in DOMAIN page.data, ~page.data[i].whole
               PROVE  page.data[i].id \in hidden'
    BY <1>1 DEF PartialIsHidden
  <2>1. page.data[i].id \notin whole
    <3> SUFFICES ASSUME NEW e \in Range(page.data), e.whole, e.id = page.data[i].id
                 PROVE  FALSE
      OBVIOUS
    <3>1. PICK j \in DOMAIN page.data : page.data[j] = e
      BY <1>4
    <3>2. page.data[j].temp = page.data[i].temp
      BY <1>2, <1>3
    <3> QED BY <1>2, <3>1, <3>2 DEF EachOnce
  <2> QED BY <1>1, <1>3, <2>1
<1>7. wholeListed \subseteq listed
  BY DEF wholeListed, listed
<1>8. accounted \subseteq accounted'
  BY <1>1, <1>5, <1>7 DEF accounted
<1> QED BY <1>1, <1>6, <1>8, AccountStays DEF ChatInv

LEMMA SentAccounts ==
  ASSUME ChatInv, NEW m \in Messages, Sent(m), UNCHANGED OnTheWay PROVE AccountInv'
<1>1. UNCHANGED <<stage, missed, hidden>>
  BY DEF Sent
<1>2. Shown(m).id = m /\ Shown(m).temp = FALSE /\ Shown(m).whole = TRUE
  BY DEF Shown
<1>3. /\ \A n \in DOMAIN list' : list'[n] = Shown(m) \/ \E i \in DOMAIN list : list'[n] = list[i]
      /\ \E n \in DOMAIN list' : list'[n] = Shown(m)
      /\ \A i \in DOMAIN list : list[i].id # m => \E n \in DOMAIN list' : list'[n] = list[i]
  BY SentList DEF ChatInv
<1>4. \A i \in DOMAIN list : ~list[i].temp /\ list[i].whole =>
        \E n \in DOMAIN list' : ~list'[n].temp /\ list'[n].whole /\ list'[n].id = list[i].id
  <2> SUFFICES ASSUME NEW i \in DOMAIN list, ~list[i].temp, list[i].whole
               PROVE  \E n \in DOMAIN list' :
                        ~list'[n].temp /\ list'[n].whole /\ list'[n].id = list[i].id
    OBVIOUS
  <2>1. CASE list[i].id = m
    BY <1>2, <1>3, <2>1
  <2>2. CASE list[i].id # m
    BY <1>3, <2>2
  <2> QED BY <2>1, <2>2
<1>5. \A n \in DOMAIN list' : list'[n].whole \/ \E i \in DOMAIN list : list'[n] = list[i]
  BY <1>2, <1>3
<1>6. wholeListed \subseteq wholeListed' /\ PartialIsHidden'
  BY <1>1, <1>4, <1>5, ListGrows
<1> QED BY <1>1, <1>6, AccountStays DEF ChatInv, accounted

LEMMA SendFailsAccounts ==
  ASSUME ChatInv, NEW m \in Messages, SendFails(m), UNCHANGED OnTheWay PROVE AccountInv'
<1>1. UNCHANGED <<stage, missed, hidden>>
  BY DEF SendFails
<1>2. /\ \A n \in DOMAIN list' : \E i \in DOMAIN list : list'[n] = list[i]
      /\ \A i \in DOMAIN list : ~list[i].temp => \E n \in DOMAIN list' : list'[n] = list[i]
  BY FailedList DEF ChatInv
<1>3. \A i \in DOMAIN list : ~list[i].temp /\ list[i].whole =>
        \E n \in DOMAIN list' : ~list'[n].temp /\ list'[n].whole /\ list'[n].id = list[i].id
  BY <1>2
<1>4. wholeListed \subseteq wholeListed' /\ PartialIsHidden'
  BY <1>1, <1>2, <1>3, ListGrows
<1> QED BY <1>1, <1>4, AccountStays DEF ChatInv, accounted

\* A row that goes on to be stored or lost.
LEMMA RowGoesOn ==
  ASSUME ChatInv, NEW m \in Messages, StoreFile(m) \/ LoseRow(m), UNCHANGED OnTheWay
  PROVE  StoreInv' /\ AccountInv'
<1>1. UNCHANGED <<rows, sending, list, cursor, hasMore, fetch, base, hidden>>
  BY DEF StoreFile, LoseRow
<1>2. PICK to \in {"stored", "lost"} :
        /\ stage' = [stage EXCEPT ![m] = to]
        /\ missed' = IF to = "lost" THEN missed \cup {m} ELSE missed
  BY DEF StoreFile, LoseRow
<1>3. missed' \in SUBSET Messages /\ to \in Stages \ {"none"}
  BY <1>2 DEF ChatInv, StoreInv, StoreTypeOK, Stages
<1>4. StoreInv'
  BY <1>1, <1>2, <1>3, StageKeeps DEF ChatInv
<1>5. \A n \in Messages : stage'[n] = IF n = m THEN to ELSE stage[n]
  BY <1>2 DEF ChatInv, StoreInv, StoreTypeOK
<1>6. wholeListed' = wholeListed /\ PartialIsHidden'
  BY <1>1, ListStays DEF ChatInv
<1>7. AccountInv'
  BY <1>1, <1>2, <1>5, <1>6, AccountStays DEF ChatInv, accounted
<1> QED BY <1>4, <1>7

LEMMA StorageKeeps == ASSUME ChatInv, Storage PROVE ChatInv'
<1>1. SocketInv' /\ UNCHANGED mounted /\ UNCHANGED <<socket, conn, downlink>>
  BY SocketStutters DEF Storage, ChatInv, socketVars, tabVars
<1>2. OnTheWay' = OnTheWay
  BY <1>1, WayStays
<1>3. CASE \E f \in Fetches : ReadPage(f) \/ RefuseOlder(f) \/ FetchFails(f)
  <2>1. StoreInv'
    BY <1>3, FetchesKeep DEF ChatInv
  <2>2. UNCHANGED <<stage, list, missed, hidden>>
    BY <1>3 DEF ReadPage, RefuseOlder, FetchFails
  <2>3. AccountInv'
    BY <1>2, <2>2, QuietStore
  <2> QED BY <1>1, <2>1, <2>3 DEF ChatInv
<1>4. CASE \E f \in Fetches : ApplyFirst(f)
  <2>1. StoreInv' /\ AccountInv'
    BY <1>2, <1>4, ApplyFirstKeeps, ApplyAccounts DEF ChatInv
  <2> QED BY <1>1, <2>1 DEF ChatInv
<1>5. CASE \E m \in Messages : StoreFile(m) \/ LoseRow(m)
  <2>1. StoreInv' /\ AccountInv'
    BY <1>2, <1>5, RowGoesOn
  <2> QED BY <1>1, <2>1 DEF ChatInv
<1>6. CASE \E m \in Messages : Sent(m)
  <2>1. StoreInv' /\ AccountInv'
    BY <1>2, <1>6, SentKeeps, SentAccounts DEF ChatInv
  <2> QED BY <1>1, <2>1 DEF ChatInv
<1>7. CASE \E m \in Messages : SendFails(m)
  <2>1. StoreInv' /\ AccountInv'
    BY <1>2, <1>7, SendFailsKeeps, SendFailsAccounts DEF ChatInv
  <2> QED BY <1>1, <2>1 DEF ChatInv
<1> QED BY <1>3, <1>4, <1>5, <1>6, <1>7 DEF Storage

--------------------------------------------------------------------------------
(* Theorems *)

LEMMA ChatStays == ChatInv /\ [ChatNext]_chatVars => ChatInv'
<1> SUFFICES ASSUME ChatInv, [ChatNext]_chatVars PROVE ChatInv'
  OBVIOUS
<1>1. CASE Unmount
  BY <1>1, UnmountKeeps
<1>2. CASE AcceptInvitation
  BY <1>2, AcceptInvitationKeeps
<1>3. CASE Arrive
  BY <1>3, ArriveKeeps
<1>4. CASE Transport
  BY <1>4, TransportKeeps
<1>5. CASE Storage
  BY <1>5, StorageKeeps
<1>6. CASE \E f \in Fetches : Mount(f) \/ Scroll(f)
  BY <1>6, MountKeeps, ScrollKeeps
<1>7. CASE \E m \in Messages : SendText(m) \/ Insert(m) \/ Publish(m)
  BY <1>7, SendTextKeeps, InsertKeeps, PublishKeeps
<1>8. CASE UNCHANGED chatVars
  <2>1. UNCHANGED socketVars /\ UNCHANGED storeVars /\ UNCHANGED mounted
    BY <1>8 DEF chatVars
  <2>2. UNCHANGED <<stage, list, missed, hidden, socket, conn, downlink>>
    BY <2>1 DEF socketVars, tabVars, storeVars
  <2> QED BY <2>1, <2>2, SocketStutters, StoreStutters, WayStays, QuietStore DEF ChatInv
<1> QED BY <1>1, <1>2, <1>3, <1>4, <1>5, <1>6, <1>7, <1>8 DEF ChatNext

LEMMA ChatInvariant == ChatSpec => []ChatInv
<1>1. ChatInit => ChatInv
  BY ChatInitially
<1>2. ChatInv /\ [ChatNext]_chatVars => ChatInv'
  BY ChatStays
<1> QED BY <1>1, <1>2, PTL DEF ChatSpec

\* The socket, the hub, the rows, the page requests and the list keep their types
\* (AgentDialogSocket, ConnectionManager, conversationStore).
THEOREM ChatTypeCorrect == ChatSpec => []ChatTypeOK
<1>1. ChatInv => ChatTypeOK
  BY DEF ChatInv, SocketInv, StoreInv, ChatTypeOK
<1> QED BY <1>1, ChatInvariant, PTL

\* Through every loss, reconnection and overtaking, a settled tab that wants a conversation
\* is in the hub unless it was refused, and the hub keeps a closed connection only if a
\* subscription was being checked as it closed (socket.ts onopen and handlers.ts subscribe).
THEOREM SubscriptionsCorrect == ChatSpec => []SubscriptionsHold
<1>1. ChatInv => SubscriptionsHold
  BY SocketImplies DEF ChatInv
<1> QED BY <1>1, ChatInvariant, PTL

\* Pages, pushes and sends agree on the list: when nothing is under way it holds no message
\* twice and no placeholder (conversationStore.ts addMessage, sendMessage, fetchMessages).
THEOREM ShownOnceCorrect == ChatSpec => []ShownOnce
<1>1. ChatInv => ShownOnce
  BY StoreImplies DEF ChatInv
<1> QED BY <1>1, ChatInvariant, PTL

\* A settled list lacks only what was published unheard, what a page took out or brought in
\* without its file, and what was never published.
THEOREM NothingElseCorrect == ChatSpec => []NothingElseIsMissed
<1>1. ChatInv => NothingElseIsMissed
  <2> SUFFICES ASSUME ChatInv, ChatSettled, base > 0, NEW i \in base .. Len(rows)
               PROVE  rows[i] \in missed \cup hidden \cup
                                  {list[j].id : j \in {n \in DOMAIN list : list[n].whole}}
    BY DEF NothingElseIsMissed
  <2>1. i \in DOMAIN rows /\ rows[i] \in Messages
    BY DEF ChatInv, StoreInv, StoreTypeOK
  <2>2. stage[rows[i]] \in {"published", "lost"}
    BY <2>1 DEF ChatSettled, StoreSettled, ChatInv, StoreInv, RowsOnce
  <2>3. OnTheWay = {}
    BY DEF OnTheWay, ChatSettled, Range
  <2>4. rows[i] \in missed \cup hidden \cup wholeListed
    BY <2>1, <2>2, <2>3 DEF ChatInv, AccountInv, PublishedIsAccounted, LostIsMissed, accounted
  <2> QED BY <2>4 DEF wholeListed
<1> QED BY <1>1, ChatInvariant, PTL

================================================================================
