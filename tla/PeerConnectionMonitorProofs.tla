-------------------- MODULE PeerConnectionMonitorProofs --------------------
(* The safety properties of PeerConnectionMonitor, for every set of        *)
(* endpoints and sockets.  The invariant is the conjunction Consistent:    *)
(* none of its parts but the types is inductive without the others.        *)
EXTENDS PeerConnectionMonitor, TLAPS

USE EndpointAssumption, ValueAssumption

\* A record built by NewPeer is a peer with the given key.
LEMMA NewPeerType ==
    ASSUME NEW dir \in {"inbound", "outbound"}, NEW e \in Endpoint,
           NEW k \in Endpoint \cup {NoEndpoint}
    PROVE  /\ NewPeer(dir, e, k) \in Peer
           /\ NewPeer(dir, e, k).key = k
           /\ NewPeer(dir, e, k).endpoint = e
           /\ NewPeer(dir, e, k).direction = dir
  BY DEF NewPeer, Peer, Greeting

\* Two peers of the same socket.
SameSource(p, q) == p.key = q.key /\ p.endpoint = q.endpoint /\ p.direction = q.direction

\* Neither kind of update of a peer touches where it comes from.
LEMMA FieldUpdate ==
    ASSUME NEW p \in Peer, NEW b \in BOOLEAN, NEW g \in SUBSET Greeting
    PROVE  /\ [p EXCEPT !.scanning = b] \in Peer
           /\ SameSource([p EXCEPT !.scanning = b], p)
           /\ [p EXCEPT !.greeted = g] \in Peer
           /\ SameSource([p EXCEPT !.greeted = g], p)
  BY DEF Peer, Greeting, SameSource

\* The start state, in which nothing runs, and the state after a crash satisfy
\* the invariant; the crash keeps the rows.
LEMMA NothingRunningConsistent ==
    ASSUME NothingRunning, stored \subseteq Endpoint, facts \in [Endpoint -> SUBSET Fact]
    PROVE  Consistent
  BY DEF NothingRunning, Consistent, TypeOK, SingleAttempt, TableHoldsOpenSockets,
         KnownCoversTraffic, KnownIsStored, DialsUnconnected, EphemeralDialers,
         OpenPeerIsTracked, KeysFromSource, PrivateOnlyByInbound, Connected

\* The conjuncts that speak of sockets and of the table ...
SocketsConsistent ==
    /\ TableHoldsOpenSockets
    /\ OpenPeerIsTracked
    /\ KeysFromSource
    /\ \A s \in open : peer[s].key \in knownPeers \cup {NoEndpoint}

\* ... of dials and lists ...
ListsConsistent ==
    /\ SingleAttempt
    /\ connectionsInProgress \subseteq knownPeers
    /\ \A e \in Endpoint : Connected(e) => e \in knownPeers
    /\ KnownIsStored
    /\ DialsUnconnected
    /\ PrivateOnlyByInbound

\* ... and, with the types, that is all of them.
LEMMA Split == Consistent <=> TypeOK /\ SocketsConsistent /\ ListsConsistent
  BY DEF Consistent, SocketsConsistent, ListsConsistent, KnownCoversTraffic

\* The same of the state after a step.
LEMMA SplitPrime == TypeOK' /\ SocketsConsistent' /\ ListsConsistent' => Consistent'
  BY DEF Consistent, SocketsConsistent, ListsConsistent, KnownCoversTraffic

\* A step that opens, closes and re-enters nothing keeps the socket conjuncts.
LEMMA SocketsKept ==
    ASSUME TypeOK, SocketsConsistent, UNCHANGED <<connectedPeers, open>>,
           knownPeers \subseteq knownPeers',
           \A s \in open : SameSource(peer'[s], peer[s])
    PROVE  SocketsConsistent'
  BY DEF TypeOK, SocketsConsistent, TableHoldsOpenSockets, OpenPeerIsTracked,
         KeysFromSource, EphemeralDialers, Connected, Monitored, SameSource

\* Registering endpoints starts no second dial, dials nothing that is connected,
\* and stores whatever it makes known unless the database throws.
LEMMA RegisterStep ==
    ASSUME Consistent, NEW S \in SUBSET Endpoint, RegisterInMaps(S),
           UNCHANGED connectedPeers,
           stored \subseteq stored', ~StorageMayFail => Fresh(S) \subseteq stored'
    PROVE  /\ ListsConsistent'
           /\ knownPeers \subseteq knownPeers'
           /\ knownPeers' \subseteq Endpoint
           /\ connectionsInProgress' \subseteq Endpoint
           /\ attempts' \in [Endpoint -> Nat]
  <1> USE DEF Consistent, TypeOK, RegisterInMaps, AddKnown, ConnectToPeers, Accepted,
              Fresh, Unconnected, Connected
  <1>1. /\ knownPeers' = knownPeers \cup (S \ Ignored)
        /\ connectionsInProgress' = connectionsInProgress \cup Fresh(S)
        /\ attempts' = [e \in Endpoint |-> IF e \in Fresh(S) THEN attempts[e] + 1
                                           ELSE attempts[e]]
    OBVIOUS
  <1>2. SingleAttempt'
    BY <1>1 DEF SingleAttempt
  <1>3. KnownIsStored'
    BY <1>1 DEF KnownIsStored, KnownCoversTraffic
  <1>4. DialsUnconnected' /\ PrivateOnlyByInbound'
    BY <1>1 DEF DialsUnconnected, PrivateOnlyByInbound
  <1>5. /\ connectionsInProgress' \subseteq knownPeers'
        /\ \A e \in Endpoint : (Connected(e))' => e \in knownPeers'
    BY <1>1 DEF KnownCoversTraffic
  <1> QED
    BY <1>1, <1>2, <1>3, <1>4, <1>5 DEF ListsConsistent

-----------------------------------------------------------------------------
(* One lemma for each action that changes more than the phase.             *)

\* Loading bootstrap and stored peers is one registration of both sets.
LEMMA LoadPeersStep == Consistent /\ LoadPeers => Consistent'
  <1> SUFFICES ASSUME Consistent, LoadPeers PROVE Consistent'
    OBVIOUS
  <1> DEFINE S == Bootstrap \cup StoredPeers
  <1>1. TypeOK /\ SocketsConsistent
    BY Split
  <1>2. S \in SUBSET Endpoint
    BY <1>1 DEF TypeOK, StoredPeers
  <1>3. PICK written \in Written(Fresh(S)) : stored' = stored \cup written
    BY DEF LoadPeers, RegisterPeerEndpoints, StorePeerState
  <1>4. /\ stored \subseteq stored' /\ stored' \subseteq Endpoint
        /\ ~StorageMayFail => Fresh(S) \subseteq stored'
    BY <1>1, <1>2, <1>3 DEF Written, Fresh, Accepted, TypeOK
  <1>5. RegisterInMaps(S) /\ UNCHANGED connectedPeers
    BY DEF LoadPeers, RegisterPeerEndpoints
  <1>6. /\ ListsConsistent'
        /\ knownPeers \subseteq knownPeers' /\ knownPeers' \subseteq Endpoint
        /\ connectionsInProgress' \subseteq Endpoint
        /\ attempts' \in [Endpoint -> Nat]
    <2> HIDE DEF S
    <2> QED BY <1>2, <1>4, <1>5, RegisterStep
  <1>7. TypeOK'
    BY <1>1, <1>4, <1>6 DEF LoadPeers, TypeOK
  <1>8. SocketsConsistent'
    BY <1>1, <1>6, SocketsKept DEF LoadPeers, SameSource
  <1> QED
    BY <1>6, <1>7, <1>8, SplitPrime

\* Registering the neighbors a peer names, and ending its scan.
LEMMA NeighborsReceivedStep ==
    ASSUME Consistent, NEW s \in open, NEW neighbors \in SUBSET Gossip,
           NeighborsReceived(s, neighbors)
    PROVE  Consistent'
  <1>1. TypeOK /\ SocketsConsistent
    BY Split
  <1>2. neighbors \in SUBSET Endpoint
    OBVIOUS
  <1>3. PICK written \in Written(Fresh(neighbors)) : stored' = stored \cup written
    BY DEF NeighborsReceived, RegisterPeerEndpoints, StorePeerState
  <1>4. /\ stored \subseteq stored' /\ stored' \subseteq Endpoint
        /\ ~StorageMayFail => Fresh(neighbors) \subseteq stored'
    BY <1>1, <1>2, <1>3 DEF Written, Fresh, Accepted, TypeOK
  <1>5. /\ ListsConsistent'
        /\ knownPeers \subseteq knownPeers' /\ knownPeers' \subseteq Endpoint
        /\ connectionsInProgress' \subseteq Endpoint
        /\ attempts' \in [Endpoint -> Nat]
    BY <1>2, <1>4, RegisterStep DEF NeighborsReceived, RegisterPeerEndpoints
  <1>6. peer[s] \in Peer /\ s \in Socket
    BY <1>1 DEF TypeOK
  <1>7. /\ peer' = [peer EXCEPT ![s] = [peer[s] EXCEPT !.scanning = FALSE]]
        /\ [peer[s] EXCEPT !.scanning = FALSE] \in Peer
        /\ SameSource([peer[s] EXCEPT !.scanning = FALSE], peer[s])
    BY <1>6, FieldUpdate, {} \in SUBSET Greeting DEF NeighborsReceived
  <1>8. TypeOK'
    BY <1>1, <1>4, <1>5, <1>6, <1>7 DEF NeighborsReceived, TypeOK
  <1>9. \A t \in open : SameSource(peer'[t], peer[t])
    BY <1>1, <1>6, <1>7 DEF TypeOK, SameSource
  <1>10. SocketsConsistent'
    BY <1>1, <1>5, <1>9, SocketsKept DEF NeighborsReceived
  <1> QED
    BY <1>5, <1>8, <1>10, SplitPrime

\* Registering the relayers of a message and updating the sender's row.
LEMMA MessageReceivedStep ==
    ASSUME Consistent, NEW s \in open, NEW kind \in MessageKind,
           NEW relayers \in SUBSET Gossip, MessageReceived(s, kind, relayers)
    PROVE  Consistent'
  <1> DEFINE greets == kind \in Greeting \ peer[s].greeted
             news   == IF greets THEN {"handshake"} ELSE {kind} \cap StatEvent
             target == IF news = {} THEN {} ELSE {peer[s].endpoint}
             G      == peer[s].greeted \cup {kind}
  <1>1. TypeOK /\ SocketsConsistent
    BY Split
  <1>2. relayers \in SUBSET Endpoint
    OBVIOUS
  <1>3. PICK written \in Written(Fresh(relayers)), noted \in Written(target) :
            /\ stored' = stored \cup written \cup noted
            /\ UpdateFacts(noted, news)
    BY DEF MessageReceived
  <1>4. peer[s] \in Peer /\ s \in Socket
    BY <1>1 DEF TypeOK
  <1>5. target \subseteq Endpoint /\ news \subseteq Fact
    BY <1>4 DEF Peer, Fact
  <1>6. noted \subseteq Endpoint
    BY <1>3, <1>5 DEF Written
  <1>7. /\ stored \subseteq stored' /\ stored' \subseteq Endpoint
        /\ ~StorageMayFail => Fresh(relayers) \subseteq stored'
    BY <1>1, <1>2, <1>3, <1>6 DEF Written, Fresh, Accepted, TypeOK
  <1>8. facts' \in [Endpoint -> SUBSET Fact]
    BY <1>1, <1>3, <1>5 DEF UpdateFacts, TypeOK
  <1>9. RegisterInMaps(relayers) /\ UNCHANGED connectedPeers /\ UNCHANGED open
    BY DEF MessageReceived
  <1>10. /\ ListsConsistent'
         /\ knownPeers \subseteq knownPeers' /\ knownPeers' \subseteq Endpoint
         /\ connectionsInProgress' \subseteq Endpoint
         /\ attempts' \in [Endpoint -> Nat]
    BY <1>2, <1>7, <1>9, RegisterStep
  <1>11. \/ UNCHANGED peer
         \/ /\ peer' = [peer EXCEPT ![s] = [peer[s] EXCEPT !.greeted = G]]
            /\ [peer[s] EXCEPT !.greeted = G] \in Peer
            /\ SameSource([peer[s] EXCEPT !.greeted = G], peer[s])
    <2>1. CASE greets
      <3>1. peer' = [peer EXCEPT ![s] = [peer[s] EXCEPT !.greeted = G]]
        BY <2>1 DEF MessageReceived
      <3>2. G \in SUBSET Greeting
        BY <1>4, <2>1 DEF Peer
      <3> HIDE DEF G
      <3> QED BY <3>1, <3>2, <1>4, FieldUpdate
    <2>2. CASE ~greets
      BY <2>2 DEF MessageReceived
    <2> QED BY <2>1, <2>2
  <1> HIDE DEF G
  <1>12. \A t \in open : SameSource(peer'[t], peer[t])
    BY <1>1, <1>4, <1>11 DEF TypeOK, SameSource
  <1>13. TypeOK'
    <2>1. DOMAIN peer' = Socket
      BY <1>1, <1>11 DEF TypeOK
    <2>2. \A t \in Socket : IF t \in open' THEN peer'[t] \in Peer ELSE peer'[t] = NoSocket
      BY <1>1, <1>4, <1>9, <1>11 DEF TypeOK
    <2> QED
      BY <1>1, <1>7, <1>8, <1>9, <1>10, <2>1, <2>2 DEF MessageReceived, TypeOK
  <1>14. SocketsConsistent'
    BY <1>1, <1>9, <1>10, <1>12, SocketsKept
  <1> QED
    BY <1>10, <1>13, <1>14, SplitPrime

\* The timer dials only what is neither connected nor being dialed.
LEMMA ReconnectTickStep == Consistent /\ ReconnectTick => Consistent'
  <1> SUFFICES ASSUME Consistent, ReconnectTick PROVE Consistent'
    OBVIOUS
  <1> DEFINE S == {e \in knownPeers : Unconnected(e)}
  <1>1. TypeOK /\ SocketsConsistent
    BY Split
  <1>2. /\ attempts' = [e \in Endpoint |-> IF e \in S THEN attempts[e] + 1 ELSE attempts[e]]
        /\ connectionsInProgress' = connectionsInProgress \cup S
        /\ UNCHANGED <<phase, knownPeers, connectedPeers, open, peer, stored, facts>>
    BY DEF ReconnectTick, ConnectToPeers
  <1>3. TypeOK'
    BY <1>1, <1>2 DEF TypeOK
  <1>4. SocketsConsistent'
    BY <1>1, <1>2, SocketsKept DEF SameSource
  <1>5. SingleAttempt'
    BY <1>1, <1>2 DEF Consistent, SingleAttempt, Unconnected, TypeOK
  <1>6. /\ connectionsInProgress' \subseteq knownPeers'
        /\ \A e \in Endpoint : (Connected(e))' => e \in knownPeers'
        /\ KnownIsStored' /\ DialsUnconnected' /\ PrivateOnlyByInbound'
    BY <1>1, <1>2 DEF Consistent, KnownCoversTraffic, KnownIsStored, DialsUnconnected,
        PrivateOnlyByInbound, Unconnected, Connected, TypeOK
  <1> QED
    BY <1>3, <1>4, <1>5, <1>6, SplitPrime DEF ListsConsistent

\* A scan marks peers and changes nothing else.
LEMMA NeighborScanTickStep == Consistent /\ NeighborScanTick => Consistent'
  <1> SUFFICES ASSUME Consistent, NeighborScanTick PROVE Consistent'
    OBVIOUS
  <1>1. TypeOK /\ SocketsConsistent /\ ListsConsistent
    BY Split
  <1>2. PICK asked \in SUBSET open :
          peer' = [s \in Socket |-> IF s \in asked THEN [peer[s] EXCEPT !.scanning = TRUE]
                                    ELSE peer[s]]
    BY DEF NeighborScanTick
  <1>3. UNCHANGED <<phase, knownPeers, connectedPeers, connectionsInProgress,
                    attempts, open, stored, facts>>
    BY DEF NeighborScanTick
  <1>4. \A s \in open : peer'[s] \in Peer /\ SameSource(peer'[s], peer[s])
    <2>1. SUFFICES ASSUME NEW s \in open
                   PROVE  peer'[s] \in Peer /\ SameSource(peer'[s], peer[s])
      OBVIOUS
    <2>2. s \in Socket /\ peer[s] \in Peer
      BY <1>1 DEF TypeOK
    <2>3. /\ [peer[s] EXCEPT !.scanning = TRUE] \in Peer
          /\ SameSource([peer[s] EXCEPT !.scanning = TRUE], peer[s])
      BY <2>2, FieldUpdate, {} \in SUBSET Greeting
    <2>4. peer'[s] = IF s \in asked THEN [peer[s] EXCEPT !.scanning = TRUE] ELSE peer[s]
      BY <1>2, <2>2
    <2> QED BY <2>2, <2>3, <2>4 DEF SameSource
  <1>5. TypeOK'
    BY <1>1, <1>2, <1>3, <1>4 DEF TypeOK
  <1>6. SocketsConsistent'
    BY <1>1, <1>3, <1>4, SocketsKept
  <1>7. ListsConsistent'
    BY <1>1, <1>3 DEF ListsConsistent, SingleAttempt, KnownIsStored, DialsUnconnected,
        PrivateOnlyByInbound, Connected
  <1> QED
    BY <1>5, <1>6, <1>7, SplitPrime

\* A dial that succeeds: with disjoint callers its entry is still free.
LEMMA OutboundConnectedStep ==
    ASSUME Consistent, NEW e \in Endpoint, NEW s \in Socket, OutboundConnected(e, s)
    PROVE  Consistent'
  <1> USE DEF OutboundConnected, SettleDial
  <1>1. TypeOK /\ SocketsConsistent /\ ListsConsistent
    BY Split
  <1>2. /\ NewPeer("outbound", SocketName[e], e) \in Peer
        /\ NewPeer("outbound", SocketName[e], e).key = e
        /\ NewPeer("outbound", SocketName[e], e).direction = "outbound"
    BY NewPeerType
  <1>3. TypeOK'
    BY <1>1, <1>2 DEF TypeOK
  <1>4. /\ e \in connectionsInProgress /\ attempts[e] = 1
    BY <1>1 DEF ListsConsistent, SingleAttempt, TypeOK
  <1>5. \A t \in open : peer'[t] = peer[t]
    BY <1>1 DEF TypeOK
  <1>6. peer'[s] = NewPeer("outbound", SocketName[e], e)
    BY <1>1 DEF TypeOK
  <1>7. TableHoldsOpenSockets'
    BY <1>1, <1>2, <1>5, <1>6 DEF SocketsConsistent, TableHoldsOpenSockets, Connected, TypeOK
  <1>8. EphemeralDialers => ~Connected(e)
    BY <1>1, <1>4 DEF ListsConsistent, DialsUnconnected, EphemeralDialers
  <1>9. OpenPeerIsTracked'
    BY <1>1, <1>2, <1>5, <1>6, <1>8 DEF SocketsConsistent, OpenPeerIsTracked,
        EphemeralDialers, Monitored, Connected, TypeOK
  <1>10. \A t \in open' : peer'[t].key \in knownPeers' \cup {NoEndpoint}
    BY <1>1, <1>2, <1>4, <1>5, <1>6 DEF SocketsConsistent, ListsConsistent
  <1>11. SingleAttempt'
    BY <1>1, <1>4 DEF ListsConsistent, SingleAttempt, TypeOK
  <1>12. ListsConsistent'
    BY <1>1, <1>4, <1>11 DEF ListsConsistent, KnownIsStored, DialsUnconnected,
        PrivateOnlyByInbound, Connected, TypeOK
  <1>13. KeysFromSource'
    BY <1>1, <1>2, <1>5, <1>6 DEF SocketsConsistent, KeysFromSource
  <1> QED
    BY <1>3, <1>7, <1>9, <1>10, <1>12, <1>13, SplitPrime DEF SocketsConsistent

\* A dial that fails frees its entry in the in-progress map.
LEMMA OutboundFailedStep ==
    ASSUME Consistent, NEW e \in Endpoint, OutboundFailed(e)
    PROVE  Consistent'
  <1> USE DEF OutboundFailed, SettleDial
  <1>1. TypeOK /\ SocketsConsistent /\ ListsConsistent
    BY Split
  <1>2. TypeOK'
    BY <1>1 DEF TypeOK
  <1>3. SocketsConsistent'
    BY <1>1, SocketsKept DEF SameSource
  <1>4. SingleAttempt'
    BY <1>1 DEF ListsConsistent, SingleAttempt, TypeOK
  <1>5. ListsConsistent'
    BY <1>1, <1>4 DEF ListsConsistent, KnownIsStored, DialsUnconnected,
        PrivateOnlyByInbound, Connected
  <1> QED
    BY <1>2, <1>3, <1>5, SplitPrime

\* An inbound socket whose endpoint is not connected is entered.
LEMMA InboundRegisteredStep ==
    ASSUME Consistent, NEW e \in Endpoint, NEW s \in Socket, InboundRegistered(e, s)
    PROVE  Consistent'
  <1> USE DEF InboundRegistered, Accept, AddKnown
  <1>1. TypeOK /\ SocketsConsistent /\ ListsConsistent
    BY Split
  <1>2. /\ NewPeer("inbound", e, e) \in Peer
        /\ NewPeer("inbound", e, e).key = e
        /\ NewPeer("inbound", e, e).endpoint = e
        /\ NewPeer("inbound", e, e).direction = "inbound"
    BY NewPeerType
  <1>3. PICK written \in Written({e}) : stored' = stored \cup written
    BY DEF StorePeerState
  <1>4. /\ stored \subseteq stored' /\ stored' \subseteq Endpoint
        /\ ~StorageMayFail => e \in stored'
    BY <1>1, <1>3 DEF Written, TypeOK
  <1>5. TypeOK'
    BY <1>1, <1>2, <1>4 DEF TypeOK
  <1>6. \A t \in open : peer'[t] = peer[t]
    BY <1>1 DEF TypeOK
  <1>7. peer'[s] = NewPeer("inbound", e, e)
    BY <1>1 DEF TypeOK
  <1>8. TableHoldsOpenSockets'
    BY <1>1, <1>2, <1>6, <1>7 DEF SocketsConsistent, TableHoldsOpenSockets, Connected, TypeOK
  <1>9. OpenPeerIsTracked'
    BY <1>1, <1>2, <1>6, <1>7 DEF SocketsConsistent, OpenPeerIsTracked,
        EphemeralDialers, Monitored, Connected, TypeOK
  <1>10. \A t \in open' : peer'[t].key \in knownPeers' \cup {NoEndpoint}
    BY <1>1, <1>2, <1>6, <1>7 DEF SocketsConsistent
  <1>11. ListsConsistent'
    BY <1>1, <1>4 DEF ListsConsistent, SingleAttempt, KnownIsStored, DialsUnconnected,
        PrivateOnlyByInbound, Connected, TypeOK
  <1>12. KeysFromSource'
    BY <1>1, <1>2, <1>6, <1>7 DEF SocketsConsistent, KeysFromSource
  <1> QED
    BY <1>5, <1>8, <1>9, <1>10, <1>11, <1>12, SplitPrime DEF SocketsConsistent

\* An inbound socket is refused only where callers also listen.
LEMMA InboundRefusedStep ==
    ASSUME Consistent, NEW e \in Endpoint, NEW s \in Socket, InboundRefused(e, s)
    PROVE  Consistent'
  <1> USE DEF InboundRefused, Accept
  <1>1. TypeOK /\ SocketsConsistent /\ ListsConsistent
    BY Split
  <1>2. /\ NewPeer("inbound", e, NoEndpoint) \in Peer
        /\ NewPeer("inbound", e, NoEndpoint).key = NoEndpoint
        /\ NewPeer("inbound", e, NoEndpoint).direction = "inbound"
    BY NewPeerType
  <1>3. TypeOK'
    BY <1>1, <1>2 DEF TypeOK
  <1>4. \A t \in open : peer'[t] = peer[t]
    BY <1>1 DEF TypeOK
  <1>5. peer'[s] = NewPeer("inbound", e, NoEndpoint)
    BY <1>1 DEF TypeOK
  <1>6. ~EphemeralDialers
    <2>1. SUFFICES ASSUME Listening \cap Dialer = {} PROVE FALSE
      BY DEF EphemeralDialers
    <2>2. PICK t \in open : t = connectedPeers[e] /\ peer[t].key = e
      BY <1>1 DEF SocketsConsistent, TableHoldsOpenSockets
    <2>3. peer[t] \in Peer
      BY <1>1 DEF TypeOK
    <2>4. CASE peer[t].direction = "outbound"
      BY <1>1, <2>1, <2>2, <2>4 DEF SocketsConsistent, KeysFromSource
    <2>5. CASE peer[t].direction = "inbound"
      BY <1>1, <2>2, <2>5 DEF SocketsConsistent, KeysFromSource
    <2> QED BY <2>3, <2>4, <2>5 DEF Peer
  <1>7. TableHoldsOpenSockets' /\ OpenPeerIsTracked'
    BY <1>1, <1>4, <1>6 DEF SocketsConsistent, TableHoldsOpenSockets,
        OpenPeerIsTracked, EphemeralDialers, Connected
  <1>8. KeysFromSource' /\ \A t \in open' : peer'[t].key \in knownPeers' \cup {NoEndpoint}
    BY <1>1, <1>2, <1>4, <1>5 DEF SocketsConsistent, KeysFromSource
  <1>9. ListsConsistent'
    BY <1>1 DEF ListsConsistent, SingleAttempt, KnownIsStored, DialsUnconnected,
        PrivateOnlyByInbound, Connected
  <1> QED
    BY <1>3, <1>7, <1>8, <1>9, SplitPrime DEF SocketsConsistent

\* A closing socket deletes the entry of its own key only.
LEMMA SocketClosedStep ==
    ASSUME Consistent, NEW s \in Socket, SocketClosed(s)
    PROVE  Consistent'
  <1> USE DEF SocketClosed, EntryDeleted
  <1>1. TypeOK /\ SocketsConsistent /\ ListsConsistent
    BY Split
  <1>2. TypeOK'
    BY <1>1 DEF TypeOK
  <1>3. \A t \in open' : t \in open /\ peer'[t] = peer[t]
    BY <1>1 DEF TypeOK
  <1>4. \A e \in Endpoint : (Connected(e))' => /\ Connected(e)
                                              /\ connectedPeers'[e] = connectedPeers[e]
                                              /\ connectedPeers[e] # s
    BY <1>1 DEF SocketsConsistent, TableHoldsOpenSockets, Connected, TypeOK
  <1>5. TableHoldsOpenSockets'
    BY <1>1, <1>3, <1>4 DEF SocketsConsistent, TableHoldsOpenSockets, Connected, TypeOK
  <1>6. OpenPeerIsTracked'
    <2>1. SUFFICES ASSUME EphemeralDialers, NEW t \in open'
                   PROVE  peer[t].key # NoEndpoint /\ connectedPeers'[peer[t].key] = t
      BY <1>3 DEF OpenPeerIsTracked, Monitored, EphemeralDialers
    <2>2. t \in open /\ t # s /\ peer[t] \in Peer
      BY <1>1, <2>1 DEF TypeOK
    <2>3. /\ peer[t].key # NoEndpoint /\ connectedPeers[peer[t].key] = t
          /\ connectedPeers[peer[s].key] = s
      BY <1>1, <2>1, <2>2 DEF SocketsConsistent, OpenPeerIsTracked, Monitored
    <2>4. peer[t].key \in Endpoint
      BY <2>2, <2>3 DEF Peer
    <2> QED BY <2>2, <2>3, <2>4
  <1>7. \A t \in open' : peer'[t].key \in knownPeers' \cup {NoEndpoint}
    BY <1>1, <1>3 DEF SocketsConsistent
  <1>8. ListsConsistent'
    BY <1>1, <1>4 DEF ListsConsistent, SingleAttempt, KnownIsStored, DialsUnconnected,
        PrivateOnlyByInbound, TypeOK
  <1>9. KeysFromSource'
    BY <1>1, <1>3 DEF SocketsConsistent, KeysFromSource
  <1> QED
    BY <1>2, <1>5, <1>6, <1>7, <1>8, <1>9, SplitPrime DEF SocketsConsistent

\* A crash loses everything but the rows.
LEMMA CrashStep == Consistent /\ Crash => Consistent'
  BY DEF Crash, Consistent, TypeOK, SingleAttempt, TableHoldsOpenSockets,
         KnownCoversTraffic, KnownIsStored, DialsUnconnected, EphemeralDialers,
         OpenPeerIsTracked, KeysFromSource, PrivateOnlyByInbound, Connected

\* A step that changes nothing but the phase, and a stuttering step.
LEMMA PhaseStep ==
    ASSUME Consistent, phase' \in {"down", "listening", "started", "ready"},
           UNCHANGED <<knownPeers, connectedPeers, connectionsInProgress, attempts,
                       open, peer, stored, facts>>
    PROVE  Consistent'
  BY DEF Consistent, TypeOK, SingleAttempt, TableHoldsOpenSockets,
         KnownCoversTraffic, KnownIsStored, DialsUnconnected, EphemeralDialers,
         OpenPeerIsTracked, KeysFromSource, PrivateOnlyByInbound, Connected, Monitored

-----------------------------------------------------------------------------
\* Every step keeps the invariant.
LEMMA NextStep == Consistent /\ [Next]_vars => Consistent'
  <1> SUFFICES ASSUME Consistent, [Next]_vars PROVE Consistent'
    OBVIOUS
  <1>1. CASE Process
    BY <1>1, PhaseStep, LoadPeersStep, CrashStep DEF Process, StartServers, StartTimers
  <1>2. CASE Timers
    BY <1>2, ReconnectTickStep, NeighborScanTickStep DEF Timers
  <1>3. CASE Sockets
    BY <1>3, OutboundFailedStep, OutboundConnectedStep, InboundRegisteredStep,
       InboundRefusedStep, SocketClosedStep DEF Sockets
  <1>4. CASE Messages
    BY <1>4, MessageReceivedStep, NeighborsReceivedStep DEF Messages
  <1>5. CASE UNCHANGED vars
    BY <1>5, PhaseStep DEF vars, Consistent, TypeOK
  <1> QED
    BY <1>1, <1>2, <1>3, <1>4, <1>5 DEF Next

\* Every reachable state of the registry is consistent, for any endpoints and
\* any number of sockets, crashes and failed writes included.
THEOREM Consistency == Spec => []Consistent
  <1>1. Init => Consistent
    BY NothingRunningConsistent DEF Init, NothingRunning, Fact
  <1>2. Consistent /\ [Next]_vars => Consistent'
    BY NextStep
  <1> QED
    BY <1>1, <1>2, PTL DEF Spec

\* The state variables keep their types.
THEOREM TypeCorrect == Spec => []TypeOK
  <1>1. Consistent => TypeOK
    BY DEF Consistent
  <1> QED
    BY <1>1, Consistency, PTL

\* connectToPeer never has two dials of one endpoint out, and the in-progress
\* map lists exactly the dials that are out.
THEOREM OneAttemptPerEndpoint == Spec => []SingleAttempt
  <1>1. Consistent => SingleAttempt
    BY DEF Consistent
  <1> QED
    BY <1>1, Consistency, PTL

\* connectedPeers holds open sockets under their own keys, whatever the order of
\* dials, inbound sockets and closed handlers.
THEOREM TableIsLive == Spec => []TableHoldsOpenSockets
  <1>1. Consistent => TableHoldsOpenSockets
    BY DEF Consistent
  <1> QED
    BY <1>1, Consistency, PTL

\* What is connected or dialed is in knownPeers, so the reconnect timer covers it.
THEOREM TrafficIsKnown == Spec => []KnownCoversTraffic
  <1>1. Consistent => KnownCoversTraffic
    BY DEF Consistent
  <1> QED
    BY <1>1, Consistency, PTL

\* If the database accepts every write, every known peer survives a restart.
THEOREM KnownPeersAreDurable == Spec => []KnownIsStored
  <1>1. Consistent => KnownIsStored
    BY DEF Consistent
  <1> QED
    BY <1>1, Consistency, PTL

\* If dialed and calling endpoints are disjoint, no monitored socket is displaced
\* from the table.
THEOREM NoSocketIsDisplaced == Spec => []OpenPeerIsTracked
  <1>1. Consistent => OpenPeerIsTracked
    BY DEF Consistent
  <1> QED
    BY <1>1, Consistency, PTL

\* An endpoint that is connected is dialed only if inbound sockets come from it:
\* the timer and the neighbor scan look at the map first.
THEOREM ConnectedIsNotDialed == Spec => []DialsUnconnected
  <1>1. Consistent => DialsUnconnected
    BY DEF Consistent
  <1> QED
    BY <1>1, Consistency, PTL

\* Private endpoints enter the lists through inbound sockets only.
THEOREM PrivateEntry == Spec => []PrivateOnlyByInbound
  <1>1. Consistent => PrivateOnlyByInbound
    BY DEF Consistent
  <1> QED
    BY <1>1, Consistency, PTL

\* No step, a crash included, takes a row or a recorded field out of the database.
LEMMA RowsKeptStep ==
  ASSUME TypeOK, [Next]_vars
  PROVE  RowsKept
<1> USE DEF RowsKept
<1>1. CASE Process
  BY <1>1 DEF Process, StartServers, StartTimers, LoadPeers, Crash,
      RegisterPeerEndpoints, StorePeerState
<1>2. CASE Timers
  BY <1>2 DEF Timers, ReconnectTick, NeighborScanTick
<1>3. CASE Sockets
  BY <1>3 DEF Sockets, OutboundConnected, OutboundFailed, InboundRegistered,
      InboundRefused, SocketClosed, StorePeerState
<1>4. CASE Messages
  <2>1. PICK s \in open, named \in SUBSET Gossip :
          \/ \E kind \in MessageKind : MessageReceived(s, kind, named)
          \/ NeighborsReceived(s, named)
    BY <1>4 DEF Messages
  <2>2. CASE NeighborsReceived(s, named)
    BY <2>2 DEF NeighborsReceived, RegisterPeerEndpoints, StorePeerState
  <2>3. CASE \E kind \in MessageKind : MessageReceived(s, kind, named)
    <3>1. \E noted, news : /\ stored \subseteq stored'
                           /\ UpdateFacts(noted, news)
      BY <2>3 DEF MessageReceived
    <3> QED BY <3>1 DEF UpdateFacts, TypeOK
  <2> QED BY <2>1, <2>2, <2>3
<1>5. CASE UNCHANGED vars
  BY <1>5 DEF vars
<1> QED BY <1>1, <1>2, <1>3, <1>4, <1>5 DEF Next

\* Rows and their fields stay for good.
THEOREM RowsAreKept == Spec => RowsNeverShrink
  <1>1. TypeOK /\ [Next]_vars => [RowsKept]_vars
    BY RowsKeptStep
  <1> QED
    BY <1>1, TypeCorrect, PTL DEF Spec, RowsNeverShrink

\* The one way a private address comes to be dialed is through a socket that came in
\* from it: no neighbor list and no row of the database brings it about (what the run
\* private_dialed refutes holds of every other private endpoint).
THEOREM PrivateNotDialedFirst == Spec => [](\A e \in Ignored \ Dialer : attempts[e] = 0)
  <1>1. Consistent => \A e \in Ignored \ Dialer : attempts[e] = 0
    BY EndpointAssumption DEF Consistent, SingleAttempt, PrivateOnlyByInbound
  <1> QED
    BY <1>1, Consistency, PTL
=============================================================================
