-------------------------- MODULE StacksScoutProofs --------------------------
(* What the gauges of StacksScout are worth, for every finite set of endpoints *)
(* and sockets: the events of a step are exactly the changes of what is        *)
(* counted, so a gauge is off by a number that is fixed when the listeners are *)
(* attached.                                                                   *)
EXTENDS StacksScout, PeerConnectionMonitorProofs, FiniteSetTheorems

USE AddressAssumption, FiniteAssumption

\* A peer that appears has shaken no hands.
NewAreUngreeted == \A s \in open' \ open : peer'[s].greeted = {}

\* The row of a peer that shakes hands has it, if the write succeeds.
ShakenHaveRow ==
  ~StorageMayFail => \A s \in ShakenNow : "handshake" \in facts'[peer[s].endpoint]

\* A socket that stays open keeps where it came from.
KeepsSources == \A s \in open \cap open' : SameSource(peer'[s], peer[s])

\* A monitored peer's record is the one its socket has, when another is built.
LEMMA OtherPeersKept ==
  ASSUME TypeOK, NEW s \in Socket, NEW p, peer' = [peer EXCEPT ![s] = p],
         NEW t \in open, t # s
  PROVE  SameSource(peer'[t], peer[t])
  BY DEF TypeOK, SameSource

\* Messages change flags of a peer, never its source.
LEMMA MessagesKeepSources ==
  ASSUME TypeOK, Messages
  PROVE  KeepsSources
<1>1. PICK s \in open, named \in SUBSET Gossip :
         \/ \E kind \in MessageKind : MessageReceived(s, kind, named)
         \/ NeighborsReceived(s, named)
  BY DEF Messages
<1>2. s \in Socket /\ peer[s] \in Peer
  BY DEF TypeOK
<1>3. \/ UNCHANGED peer
      \/ \E kind \in Greeting : peer' = [peer EXCEPT ![s].greeted = @ \cup {kind}]
      \/ peer' = [peer EXCEPT ![s].scanning = FALSE]
  BY <1>1 DEF MessageReceived, NeighborsReceived
<1>4. SUFFICES ASSUME NEW t \in open PROVE SameSource(peer'[t], peer[t])
  BY DEF KeepsSources
<1>5. CASE t # s
  BY <1>2, <1>3, <1>5 DEF TypeOK, SameSource
<1>6. CASE t = s /\ UNCHANGED peer
  BY <1>6 DEF SameSource
<1>7. CASE t = s /\ \E kind \in Greeting : peer' = [peer EXCEPT ![s].greeted = @ \cup {kind}]
  <2>1. PICK kind \in Greeting : peer' = [peer EXCEPT ![s].greeted = @ \cup {kind}]
    BY <1>7
  <2>2. peer'[s] = [peer[s] EXCEPT !.greeted = peer[s].greeted \cup {kind}]
    BY <2>1, <1>2 DEF TypeOK
  <2>3. peer[s].greeted \cup {kind} \in SUBSET Greeting
    BY <1>2, <2>1 DEF Peer
  <2> QED
    BY <1>2, <1>7, <2>2, <2>3, FieldUpdate
<1>8. CASE t = s /\ peer' = [peer EXCEPT ![s].scanning = FALSE]
  <2>1. peer'[s] = [peer[s] EXCEPT !.scanning = FALSE]
    BY <1>8, <1>2 DEF TypeOK
  <2> QED
    BY <1>2, <1>8, <2>1, FieldUpdate, {} \in SUBSET Greeting
<1> QED
  BY <1>3, <1>5, <1>6, <1>7, <1>8

\* What a step of the running monitor does to what the listeners count.
LEMMA MonitorStep ==
  ASSUME TypeOK, [Next]_vars, phase' # "down"
  PROVE  /\ KeepsSources
         /\ knownPeers \subseteq knownPeers'
         /\ TimersOn => TimersOn'
         /\ TimersOn' /\ ~TimersOn => UNCHANGED <<knownPeers, open, peer>>
<1>1. CASE Process
  BY <1>1 DEF Process, StartServers, StartTimers, LoadPeers, Crash, RegisterPeerEndpoints,
      RegisterInMaps, AddKnown, KeepsSources, SameSource, TimersOn
<1>2. CASE Timers
  <2>1. CASE ReconnectTick
    BY <2>1 DEF ReconnectTick, KeepsSources, SameSource, TimersOn
  <2>2. CASE NeighborScanTick
    <3>1. PICK asked \in SUBSET open :
            peer' = [s \in Socket |-> IF s \in asked
                                      THEN [peer[s] EXCEPT !.scanning = TRUE]
                                      ELSE peer[s]]
      BY <2>2 DEF NeighborScanTick
    <3>2. ASSUME NEW s \in open PROVE SameSource(peer'[s], peer[s])
      <4>1. s \in Socket /\ peer[s] \in Peer
        BY DEF TypeOK
      <4>2. SameSource([peer[s] EXCEPT !.scanning = TRUE], peer[s])
        BY <4>1, FieldUpdate, {} \in SUBSET Greeting
      <4> QED
        BY <3>1, <4>1, <4>2 DEF SameSource
    <3> QED
      BY <2>2, <3>2 DEF NeighborScanTick, KeepsSources, TimersOn
  <2> QED
    BY <1>2, <2>1, <2>2 DEF Timers
<1>3. CASE Sockets
  <2>1. ASSUME NEW e \in Endpoint, NEW s \in Socket, OutboundConnected(e, s)
        PROVE  KeepsSources /\ UNCHANGED <<phase, knownPeers>>
    BY <2>1, OtherPeersKept DEF OutboundConnected, KeepsSources
  <2>2. ASSUME NEW e \in Endpoint, OutboundFailed(e)
        PROVE  KeepsSources /\ UNCHANGED <<phase, knownPeers>>
    BY <2>2 DEF OutboundFailed, KeepsSources, SameSource
  <2>3. ASSUME NEW e \in Endpoint, NEW s \in Socket, InboundRegistered(e, s)
        PROVE  KeepsSources /\ UNCHANGED phase /\ knownPeers \subseteq knownPeers'
    BY <2>3, OtherPeersKept DEF InboundRegistered, Accept, AddKnown, KeepsSources
  <2>4. ASSUME NEW e \in Endpoint, NEW s \in Socket, InboundRefused(e, s)
        PROVE  KeepsSources /\ UNCHANGED <<phase, knownPeers>>
    BY <2>4, OtherPeersKept DEF InboundRefused, Accept, KeepsSources
  <2>5. ASSUME NEW s \in Socket, SocketClosed(s)
        PROVE  KeepsSources /\ UNCHANGED <<phase, knownPeers>>
    BY <2>5, OtherPeersKept DEF SocketClosed, KeepsSources
  <2> QED
    BY <1>3, <2>1, <2>2, <2>3, <2>4, <2>5 DEF Sockets, TimersOn
<1>4. CASE Messages
  BY <1>4, MessagesKeepSources DEF Messages, MessageReceived, NeighborsReceived,
      RegisterPeerEndpoints, RegisterInMaps, AddKnown, TimersOn
<1>5. CASE UNCHANGED vars
  BY <1>5 DEF vars, KeepsSources, SameSource, TimersOn
<1> QED
  BY <1>1, <1>2, <1>3, <1>4, <1>5 DEF Next

\* The listener that registerConnectedPeer attaches has run when the peer has greeted.
LEMMA ShakingStep ==
  ASSUME TypeOK, NEW s \in open, NEW named \in SUBSET Gossip, NEW kind \in MessageKind,
         MessageReceived(s, kind, named)
  PROVE  NewAreUngreeted /\ ShakenHaveRow
<1>1. s \in Socket /\ peer[s] \in Peer /\ open' = open
  BY DEF TypeOK, MessageReceived
<1>2. NewAreUngreeted
  BY <1>1 DEF NewAreUngreeted
<1>3. ASSUME NEW t \in ShakenNow, ~StorageMayFail
      PROVE  "handshake" \in facts'[peer[t].endpoint]
  <2>1. peer' # peer
    BY <1>3 DEF ShakenNow
  <2>2. /\ kind \in Greeting \ peer[s].greeted
        /\ peer' = [peer EXCEPT ![s].greeted = @ \cup {kind}]
    BY <2>1 DEF MessageReceived
  <2>3. t = s
    BY <1>3, <2>2 DEF ShakenNow, TypeOK
  <2>4. \E noted \in Written({peer[s].endpoint}) : UpdateFacts(noted, {"handshake"})
    BY <2>2 DEF MessageReceived
  <2>5. UpdateFacts({peer[s].endpoint}, {"handshake"})
    BY <1>3, <2>4 DEF Written
  <2>6. peer[s].endpoint \in Endpoint
    BY <1>1 DEF Peer
  <2> QED
    BY <2>3, <2>5, <2>6 DEF UpdateFacts
<1> QED
  BY <1>2, <1>3 DEF ShakenHaveRow

\* Greetings come with messages only.
LEMMA GreetingsStep ==
  ASSUME TypeOK, [Next]_vars, phase' # "down"
  PROVE  NewAreUngreeted /\ ShakenHaveRow
<1> USE DEF NewAreUngreeted, ShakenHaveRow, ShakenNow
<1>1. CASE Process
  BY <1>1 DEF Process, StartServers, StartTimers, LoadPeers, Crash
<1>2. CASE ReconnectTick
  BY <1>2 DEF ReconnectTick
<1>3. CASE NeighborScanTick
  <2>1. PICK asked \in SUBSET open :
          peer' = [s \in Socket |-> IF s \in asked
                                    THEN [peer[s] EXCEPT !.scanning = TRUE]
                                    ELSE peer[s]]
    BY <1>3 DEF NeighborScanTick
  <2>2. ASSUME NEW s \in open PROVE peer'[s].greeted = peer[s].greeted
    <3>1. s \in Socket /\ peer[s] \in Peer
      BY DEF TypeOK
    <3>2. [peer[s] EXCEPT !.scanning = TRUE].greeted = peer[s].greeted
      BY <3>1 DEF Peer
    <3> QED
      BY <2>1, <3>1, <3>2
  <2> QED
    BY <1>3, <2>2 DEF NeighborScanTick
<1>4. CASE Sockets
  <2>1. ASSUME NEW e \in Endpoint, OutboundFailed(e) PROVE NewAreUngreeted /\ ShakenHaveRow
    BY <2>1 DEF OutboundFailed
  <2>2. ASSUME NEW s \in Socket, SocketClosed(s) PROVE NewAreUngreeted /\ ShakenHaveRow
    BY <2>2 DEF SocketClosed, TypeOK
  <2>3. ASSUME NEW e \in Endpoint, NEW s \in Socket,
               \/ OutboundConnected(e, s)
               \/ InboundRegistered(e, s)
               \/ InboundRefused(e, s)
        PROVE  NewAreUngreeted /\ ShakenHaveRow
    <3>1. /\ open' = open \cup {s} /\ s \notin open
          /\ \E dir, key, from : peer' = [peer EXCEPT ![s] = NewPeer(dir, from, key)]
      BY <2>3 DEF OutboundConnected, InboundRegistered, InboundRefused, Accept
    <3>2. PICK dir, key, from : peer' = [peer EXCEPT ![s] = NewPeer(dir, from, key)]
      BY <3>1
    <3>3. NewPeer(dir, from, key).greeted = {}
      BY DEF NewPeer
    <3> QED
      BY <3>1, <3>2, <3>3 DEF TypeOK
  <2> QED
    BY <1>4, <2>1, <2>2, <2>3 DEF Sockets
<1>5. CASE \E s \in open, named \in SUBSET Gossip : NeighborsReceived(s, named)
  <2>1. PICK s \in open : /\ open' = open
                          /\ peer' = [peer EXCEPT ![s].scanning = FALSE]
    BY <1>5 DEF NeighborsReceived
  <2>2. s \in Socket /\ peer[s] \in Peer
    BY DEF TypeOK
  <2>3. [peer[s] EXCEPT !.scanning = FALSE].greeted = peer[s].greeted
    BY <2>2 DEF Peer
  <2>4. ASSUME NEW t \in open PROVE peer'[t].greeted = peer[t].greeted
    BY <2>1, <2>2, <2>3 DEF TypeOK
  <2> QED
    BY <2>1, <2>4
<1>6. CASE UNCHANGED vars
  BY <1>6 DEF vars
<1>7. CASE \E s \in open, named \in SUBSET Gossip, kind \in MessageKind :
             MessageReceived(s, kind, named)
  BY <1>7, ShakingStep
<1> QED
  BY <1>1, <1>2, <1>3, <1>4, <1>5, <1>6, <1>7 DEF Next, Timers, Messages

-----------------------------------------------------------------------------
(* Counting.                                                                *)

\* The number of elements after some are taken out and others put in.
LEMMA Exchange ==
  ASSUME NEW S, IsFiniteSet(S), NEW Out \in SUBSET S, NEW In, IsFiniteSet(In),
         In \cap S = {}
  PROVE  /\ Cardinality((S \ Out) \cup In)
              = Cardinality(S) + Cardinality(In) - Cardinality(Out)
         /\ Cardinality(S) \in Nat /\ Cardinality(In) \in Nat /\ Cardinality(Out) \in Nat
<1>1. IsFiniteSet(Out) /\ IsFiniteSet(S \ Out)
  BY FS_Subset, FS_Difference
<1>2. /\ Cardinality(S) \in Nat /\ Cardinality(In) \in Nat /\ Cardinality(Out) \in Nat
      /\ Cardinality(S \ Out) \in Nat
  BY <1>1, FS_CardinalityType
<1>3. Cardinality(S \ Out) = Cardinality(S) - Cardinality(Out)
  <2>1. S \cap Out = Out
    OBVIOUS
  <2> QED
    BY <2>1, <1>1, FS_Difference
<1>4. Cardinality((S \ Out) \cup In)
        = Cardinality(S \ Out) + Cardinality(In) - Cardinality((S \ Out) \cap In)
  BY <1>1, FS_Union
<1>5. Cardinality((S \ Out) \cap In) = 0
  <2>1. (S \ Out) \cap In = {}
    OBVIOUS
  <2> QED
    BY <2>1, FS_EmptySet
<1> QED
  BY <1>2, <1>3, <1>4, <1>5

\* What is counted in one direction changes by the events of the step.
LEMMA CountedStep ==
  ASSUME TypeOK, TypeOK', KeepsSources, NEW d \in Direction
  PROVE  /\ Cardinality(Counted(d)') = Cardinality(Counted(d))
                + Cardinality(Toward(ConnectedNow, d, peer'))
                - Cardinality(Toward(DisconnectedNow, d, peer))
         /\ Cardinality(Counted(d)) \in Nat
         /\ Cardinality(Toward(ConnectedNow, d, peer')) \in Nat
         /\ Cardinality(Toward(DisconnectedNow, d, peer)) \in Nat
<1> DEFINE S   == Counted(d)
           In  == Toward(ConnectedNow, d, peer')
           Out == Toward(DisconnectedNow, d, peer)
<1>1. S \subseteq Socket /\ In \subseteq Socket
  BY DEF TypeOK, Counted, Toward, ConnectedNow
<1>2. IsFiniteSet(S) /\ IsFiniteSet(In)
  BY <1>1, FS_Subset
<1>3. Out \subseteq S
  BY DEF Counted, Toward, DisconnectedNow, Monitored
<1>4. In \cap S = {}
  BY DEF Counted, Toward, ConnectedNow, Monitored
<1>5. Counted(d)' = (S \ Out) \cup In
  BY DEF Counted, Toward, ConnectedNow, DisconnectedNow, Monitored, KeepsSources, SameSource
<1> HIDE DEF S, In, Out
<1>6. /\ Cardinality((S \ Out) \cup In)
            = Cardinality(S) + Cardinality(In) - Cardinality(Out)
      /\ Cardinality(S) \in Nat /\ Cardinality(In) \in Nat /\ Cardinality(Out) \in Nat
  BY <1>2, <1>3, <1>4, Exchange
<1>7. Cardinality(Counted(d)') = Cardinality(S) + Cardinality(In) - Cardinality(Out)
  BY <1>5, <1>6
<1> QED
  BY <1>6, <1>7 DEF S, In, Out

\* What becomes known is counted once: endpoints are never taken from knownPeers.
LEMMA DiscoveredStep ==
  ASSUME TypeOK, TypeOK'
  PROVE  /\ Cardinality(Discovered) \in Nat /\ Cardinality(knownPeers) \in Nat
         /\ knownPeers \subseteq knownPeers' =>
              Cardinality(knownPeers') = Cardinality(knownPeers) + Cardinality(Discovered)
<1>1. IsFiniteSet(knownPeers) /\ IsFiniteSet(Discovered)
  BY FS_Subset DEF TypeOK, Discovered
<1>2. Cardinality(Discovered) \in Nat /\ Cardinality(knownPeers) \in Nat
  BY <1>1, FS_CardinalityType
<1>3. ASSUME knownPeers \subseteq knownPeers'
      PROVE  Cardinality(knownPeers') = Cardinality(knownPeers) + Cardinality(Discovered)
  <2>1. /\ knownPeers' = (knownPeers \ {}) \cup Discovered
        /\ Discovered \cap knownPeers = {}
    BY <1>3 DEF Discovered
  <2>2. /\ Cardinality((knownPeers \ {}) \cup Discovered)
             = Cardinality(knownPeers) + Cardinality(Discovered) - Cardinality({})
    BY <1>1, <2>1, Exchange, {} \in SUBSET knownPeers
  <2>3. Cardinality({}) = 0
    BY FS_EmptySet
  <2> QED
    BY <1>2, <2>1, <2>2, <2>3
<1> QED
  BY <1>2, <1>3

-----------------------------------------------------------------------------
(* The invariant of the gauges.                                             *)

\* Before the listeners are attached nothing is counted and no peer has any.
QuietGauges == ~ListenersOn => /\ connectedGauge = [d \in Direction |-> 0]
                               /\ observed = {}

\* The inductive invariant of the program.
ScoutInv ==
  /\ Consistent
  /\ ScoutTypeOK
  /\ QuietGauges
  /\ GaugesAtMost
  /\ observed \subseteq open
  /\ ReportMatchesHandshakes

\* The number of counted sockets is a number.
LEMMA CountedIsNat ==
  ASSUME TypeOK, NEW d \in Direction
  PROVE  Cardinality(Counted(d)) \in Nat
<1>1. Counted(d) \subseteq Socket
  BY DEF TypeOK, Counted
<1> QED
  BY <1>1, FS_Subset, FS_CardinalityType

\* A crash takes the gauges along.
LEMMA LoseLogsStep ==
  ASSUME ScoutInv, TypeOK', phase' = "down", LoseLogs
  PROVE  /\ ScoutTypeOK' /\ QuietGauges' /\ GaugesAtMost'
         /\ (observed \subseteq open)' /\ ReportMatchesHandshakes'
<1>1. \A d \in Direction : Cardinality(Counted(d)') \in Nat
  <2>1. SUFFICES ASSUME NEW d \in Direction PROVE Cardinality(Counted(d)') \in Nat
    OBVIOUS
  <2>2. Counted(d)' \subseteq Socket
    BY DEF TypeOK, Counted
  <2> QED
    BY <2>2, FS_Subset, FS_CardinalityType
<1> QED
  BY <1>1 DEF LoseLogs, ScoutTypeOK, QuietGauges, GaugesAtMost, ReportMatchesHandshakes,
      ReportedHasRow, PresentIsReported

\* What was reported has its row, and what is reported now gets it in the same step.
LEMMA ReportedKeepRow ==
  ASSUME ScoutInv, [Next]_vars, phase' # "down", RecordPeers
  PROVE  ReportedHasRow'
<1>1. TypeOK /\ ReportedHasRow
  BY DEF ScoutInv, Consistent, ReportMatchesHandshakes
<1>2. RowsKept /\ ShakenHaveRow
  BY <1>1, RowsKeptStep, GreetingsStep
<1>3. SUFFICES ASSUME ~StorageMayFail, NEW entry \in peerMap'
               PROVE  \E e \in Endpoint : Address[e] = entry[1] /\ "handshake" \in facts'[e]
  BY DEF ReportedHasRow
<1>4. CASE entry \in peerMap
  BY <1>1, <1>2, <1>3, <1>4 DEF ReportedHasRow, RowsKept
<1>5. CASE entry \notin peerMap
  <2>1. PICK s \in ShakenNow, key \in PublicKey : entry = <<Address[peer[s].endpoint], key>>
    BY <1>3, <1>5 DEF RecordPeers
  <2>2. peer[s].endpoint \in Endpoint
    BY <1>1 DEF ShakenNow, TypeOK, Peer
  <2> QED
    BY <1>2, <1>3, <2>1, <2>2 DEF ShakenHaveRow
<1> QED
  BY <1>4, <1>5

\* A peer that is observed is reported when it greets, and what is reported stays.
LEMMA PresentAreReported ==
  ASSUME ScoutInv, [Next]_vars, phase' # "down", Observe, RecordPeers
  PROVE  PresentIsReported'
<1>1. TypeOK /\ PresentIsReported /\ observed \subseteq open
  BY DEF ScoutInv, Consistent, ReportMatchesHandshakes
<1>2. NewAreUngreeted /\ KeepsSources
  BY <1>1, GreetingsStep, MonitorStep
<1>3. SUFFICES ASSUME NEW s \in open' \cap observed', peer'[s].greeted # {}
               PROVE  \E key \in PublicKey : <<Address[peer'[s].endpoint], key>> \in peerMap'
  BY DEF PresentIsReported, HandshakeCompletedFlag
<1>4. s \in open /\ s \in observed
  BY <1>1, <1>2, <1>3 DEF NewAreUngreeted, Observe, ConnectedNow
<1>5. peer'[s].endpoint = peer[s].endpoint
  BY <1>2, <1>3, <1>4 DEF KeepsSources, SameSource
<1>6. CASE peer'[s].greeted = peer[s].greeted
  BY <1>1, <1>3, <1>4, <1>5, <1>6 DEF PresentIsReported, HandshakeCompletedFlag, RecordPeers
<1>7. CASE peer'[s].greeted # peer[s].greeted
  BY <1>3, <1>4, <1>5, <1>7 DEF ShakenNow, RecordPeers
<1> QED
  BY <1>6, <1>7

\* With the listeners on, gauge and count move together.
LEMMA ListenersStep ==
  ASSUME ScoutInv, TypeOK', [Next]_vars, phase' # "down", ListenersOn,
         CountConnected, CountDiscovered, Observe, RecordPeers
  PROVE  /\ ScoutTypeOK' /\ QuietGauges' /\ GaugesAtMost'
         /\ (observed \subseteq open)' /\ ReportMatchesHandshakes'
         /\ \A d \in Direction : Cardinality(Counted(d)') - connectedGauge'[d]
                                   = Cardinality(Counted(d)) - connectedGauge[d]
         /\ Cardinality(knownPeers') - discoveredGauge'
              = Cardinality(knownPeers) - discoveredGauge
<1>1. TypeOK
  BY DEF ScoutInv, Consistent
<1>2. /\ KeepsSources /\ knownPeers \subseteq knownPeers'
      /\ ListenersOn'
  BY <1>1, MonitorStep DEF ListenersOn
<1>3. \A d \in Direction :
        /\ Cardinality(Counted(d)') = Cardinality(Counted(d))
                + Cardinality(Toward(ConnectedNow, d, peer'))
                - Cardinality(Toward(DisconnectedNow, d, peer))
        /\ Cardinality(Counted(d)) \in Nat
        /\ Cardinality(Toward(ConnectedNow, d, peer')) \in Nat
        /\ Cardinality(Toward(DisconnectedNow, d, peer)) \in Nat
  BY <1>1, <1>2, CountedStep
<1>4. \A d \in Direction : connectedGauge[d] \in Int
                          /\ connectedGauge[d] <= Cardinality(Counted(d))
  BY DEF ScoutInv, ScoutTypeOK, GaugesAtMost
<1>5. \A d \in Direction :
        /\ connectedGauge'[d] = connectedGauge[d]
                + Cardinality(Toward(ConnectedNow, d, peer'))
                - Cardinality(Toward(DisconnectedNow, d, peer))
        /\ connectedGauge'[d] \in Int
  BY <1>3, <1>4 DEF CountConnected
<1>6. connectedGauge' \in [Direction -> Int]
  BY <1>3, <1>4 DEF CountConnected
<1>7. /\ Cardinality(Discovered) \in Nat /\ Cardinality(knownPeers) \in Nat
      /\ Cardinality(knownPeers') = Cardinality(knownPeers) + Cardinality(Discovered)
  BY <1>1, <1>2, DiscoveredStep
<1>8. discoveredGauge' = discoveredGauge + Cardinality(Discovered) /\ discoveredGauge \in Nat
  BY DEF CountDiscovered, ScoutInv, ScoutTypeOK
<1>9. observed' \subseteq Socket
  BY DEF Observe, TypeOK
<1>10. peerMap' \subseteq {Address[e] : e \in Endpoint} \X PublicKey
  <2>1. PICK key \in PublicKey : peerMap' = peerMap \cup
            {<<Address[peer[s].endpoint], key>> : s \in ShakenNow \cap observed}
    BY DEF RecordPeers
  <2>2. \A s \in ShakenNow : peer[s].endpoint \in Endpoint
    BY <1>1 DEF ShakenNow, TypeOK, Peer
  <2> QED
    BY <2>1, <2>2 DEF ScoutInv, ScoutTypeOK
<1>11. ScoutTypeOK'
  BY <1>6, <1>7, <1>8, <1>9, <1>10 DEF ScoutTypeOK
<1>12. GaugesAtMost'
  BY <1>3, <1>4, <1>5 DEF GaugesAtMost
<1>13. \A d \in Direction : Cardinality(Counted(d)') - connectedGauge'[d]
                              = Cardinality(Counted(d)) - connectedGauge[d]
  BY <1>3, <1>4, <1>5
<1>14. (observed \subseteq open)'
  BY DEF Observe
<1>15. ReportMatchesHandshakes'
  BY ReportedKeepRow, PresentAreReported DEF ReportMatchesHandshakes
<1> QED
  BY <1>2, <1>7, <1>8, <1>11, <1>12, <1>13, <1>14, <1>15 DEF QuietGauges

\* Before that the gauges are zero and no peer is observed.
LEMMA QuietStep ==
  ASSUME ScoutInv, TypeOK', [Next]_vars, ~ListenersOn, UNCHANGED logVars
  PROVE  /\ ScoutTypeOK' /\ QuietGauges' /\ GaugesAtMost'
         /\ (observed \subseteq open)' /\ ReportMatchesHandshakes'
<1>1. connectedGauge' = [d \in Direction |-> 0]
  BY DEF ScoutInv, QuietGauges, logVars
<1>2. \A d \in Direction : Cardinality(Counted(d)') \in Nat
  <2>1. SUFFICES ASSUME NEW d \in Direction PROVE Cardinality(Counted(d)') \in Nat
    OBVIOUS
  <2>2. Counted(d)' \subseteq Socket
    BY DEF TypeOK, Counted
  <2> QED
    BY <2>2, FS_Subset, FS_CardinalityType
<1>3. observed' = {}
  BY DEF ScoutInv, QuietGauges, logVars
<1>4. ReportMatchesHandshakes'
  <2>1. RowsKept /\ UNCHANGED peerMap
    BY RowsKeptStep DEF ScoutInv, Consistent, logVars
  <2> QED
    BY <1>3, <2>1 DEF ScoutInv, ReportMatchesHandshakes, ReportedHasRow, PresentIsReported,
        RowsKept
<1> QED
  BY <1>1, <1>2, <1>3, <1>4 DEF ScoutInv, ScoutTypeOK, QuietGauges, GaugesAtMost, logVars

\* Every step of the program keeps the invariant.
LEMMA ScoutStep == ScoutInv /\ [ScoutNext]_scoutVars => ScoutInv'
<1> SUFFICES ASSUME ScoutInv, [ScoutNext]_scoutVars PROVE ScoutInv'
  OBVIOUS
<1>1. [Next]_vars
  BY DEF ScoutNext, scoutVars
<1>2. Consistent' /\ TypeOK'
  BY <1>1, NextStep DEF ScoutInv, Consistent
<1>3. CASE UNCHANGED scoutVars
  BY <1>2, <1>3 DEF scoutVars, vars, logVars, ScoutInv, ScoutTypeOK, QuietGauges,
      GaugesAtMost, ListenersOn, TimersOn, Counted, Monitored, ReportMatchesHandshakes,
      ReportedHasRow, PresentIsReported, HandshakeCompletedFlag
<1>4. CASE ScoutNext
  <2>1. Log
    BY <1>4 DEF ScoutNext
  <2>2. CASE phase' = "down" /\ LoseLogs
    BY <1>2, <2>2, LoseLogsStep DEF ScoutInv
  <2>3. CASE /\ phase' # "down" /\ ListenersOn
             /\ CountConnected /\ CountDiscovered /\ Observe /\ RecordPeers
    BY <1>1, <1>2, <2>3, ListenersStep DEF ScoutInv
  <2>4. CASE phase' # "down" /\ ~ListenersOn /\ UNCHANGED logVars
    BY <1>1, <1>2, <2>4, QuietStep DEF ScoutInv
  <2> QED
    BY <2>1, <2>2, <2>3, <2>4 DEF Log
<1> QED
  BY <1>3, <1>4

-----------------------------------------------------------------------------
(* Theorems.                                                                *)

\* The inductive invariant of the program (index.ts, peer-logging.ts).
THEOREM ScoutInvariant == ScoutSpec => []ScoutInv
<1>1. ScoutInit => ScoutInv
  <2> SUFFICES ASSUME ScoutInit PROVE ScoutInv
    OBVIOUS
  <2>1. Consistent
    BY NothingRunningConsistent DEF ScoutInit, Init, NothingRunning, Fact
  <2>2. \A d \in Direction : Cardinality(Counted(d)) \in Nat
    BY <2>1, CountedIsNat DEF Consistent
  <2>3. ScoutTypeOK
    BY DEF ScoutInit, ScoutTypeOK
  <2>4. QuietGauges /\ GaugesAtMost
    BY <2>2 DEF ScoutInit, QuietGauges, GaugesAtMost
  <2>5. observed \subseteq open /\ ReportMatchesHandshakes
    BY DEF ScoutInit, ReportMatchesHandshakes, ReportedHasRow, PresentIsReported
  <2> QED
    BY <2>1, <2>3, <2>4, <2>5 DEF ScoutInv
<1>2. ScoutInv /\ [ScoutNext]_scoutVars => ScoutInv'
  BY ScoutStep
<1> QED
  BY <1>1, <1>2, PTL DEF ScoutSpec

\* Every reachable state of gauges and report has its type.
THEOREM ScoutTypeCorrect == ScoutSpec => []ScoutTypeOK
<1>1. ScoutInv => ScoutTypeOK
  BY DEF ScoutInv
<1> QED
  BY <1>1, ScoutInvariant, PTL

\* The gauge of connected peers never counts one that is not there.
THEOREM GaugesNeverOvercount == ScoutSpec => []GaugesAtMost
<1>1. ScoutInv => GaugesAtMost
  BY DEF ScoutInv
<1> QED
  BY <1>1, ScoutInvariant, PTL

\* Once the listeners are attached nothing adds to what the gauges miss.
THEOREM DriftNeverGrows == ScoutSpec => DriftIsFixed
<1>1. ASSUME ScoutInv, [ScoutNext]_scoutVars
      PROVE  [ListenersOn /\ phase' # "down" => Drift' = Drift]_scoutVars
  <2>1. SUFFICES ASSUME ScoutNext, ListenersOn, phase' # "down" PROVE Drift' = Drift
    BY <1>1
  <2>2. [Next]_vars /\ TypeOK'
    BY <1>1, <2>1, NextStep DEF ScoutNext, ScoutInv, Consistent
  <2>3. /\ \A d \in Direction : Cardinality(Counted(d)') - connectedGauge'[d]
                                   = Cardinality(Counted(d)) - connectedGauge[d]
        /\ Cardinality(knownPeers') - discoveredGauge'
              = Cardinality(knownPeers) - discoveredGauge
    BY <1>1, <2>1, <2>2, ListenersStep DEF ScoutNext, Log
  <2> QED
    BY <2>3 DEF Drift
<1> QED
  BY <1>1, ScoutInvariant, PTL DEF ScoutSpec, DriftIsFixed

\* What is reported has shaken hands, by the database, and a peer that has shaken
\* hands and is there is reported, whichever connections of its host have closed.
THEOREM ReportAgreesWithRows == ScoutSpec => []ReportMatchesHandshakes
<1>1. ScoutInv => ReportMatchesHandshakes
  BY DEF ScoutInv
<1> QED
  BY <1>1, ScoutInvariant, PTL
=============================================================================
