---------------------------- MODULE StacksScout ----------------------------
(***************************************************************************)
(* The program as src/index.ts wires it: the connection monitor with the   *)
(* listeners of src/peer-logging.ts attached to its events, and the gauges *)
(* of src/server/prometheus-server.ts they maintain.                       *)
(*                                                                         *)
(* An event is emitted in the turn of the handler that emits it, so a step *)
(* of the program is a step of the monitor together with what the listeners*)
(* do about the events of that step.  The events are read off the monitor's*)
(* step: a peer is connected when its socket opens under a key, and so on. *)
(***************************************************************************)
EXTENDS PeerConnectionMonitor, Integers, FiniteSets

CONSTANTS
    Address,    \* the IP address of an endpoint
    PublicKey   \* keys a peer may present in its handshake

ASSUME AddressAssumption == DOMAIN Address = Endpoint /\ PublicKey # {}

ASSUME FiniteAssumption == IsFiniteSet(Endpoint) /\ IsFiniteSet(Socket)

VARIABLES
    connectedGauge,     \* stacks_scout_connected_peers, by direction
    discoveredGauge,    \* stacks_scout_discovered_nodes
    observed,           \* sockets whose peer has the listeners of peerConnected
    peerMap             \* the keys of the Map the periodic report walks

logVars == <<connectedGauge, discoveredGauge, observed, peerMap>>
scoutVars == <<vars, logVars>>

Direction == {"inbound", "outbound"}

ScoutTypeOK ==
    /\ connectedGauge \in [Direction -> Int]
    /\ discoveredGauge \in Nat
    /\ observed \subseteq Socket
    /\ peerMap \subseteq {Address[e] : e \in Endpoint} \X PublicKey

ScoutInit ==
    /\ Init
    /\ connectedGauge = [d \in Direction |-> 0]
    /\ discoveredGauge = 0
    /\ observed = {}
    /\ peerMap = {}

-----------------------------------------------------------------------------
(* The events of a step of the monitor.                                    *)

Discovered == knownPeers' \ knownPeers

\* Peers that become connected, and peers that were and are not any longer.
ConnectedNow ==
    {s \in open' \ open : peer'[s].key # NoEndpoint}
DisconnectedNow ==
    {s \in open \ open' : peer[s].key # NoEndpoint}

ShakenNow == {s \in open \cap open' : peer'[s].greeted # peer[s].greeted}

Toward(S, direction, view) == {s \in S : view[s].direction = direction}

\* setupPeerInfoLogging runs in the turn that starts the timers.
ListenersOn == TimersOn

-----------------------------------------------------------------------------
(* What the listeners do.                                                  *)

\* Mutant: a peer is counted when it shakes hands and uncounted when it closes.
CountConnectedMutant ==
    connectedGauge' = [d \in Direction |-> connectedGauge[d]
                          + Cardinality(Toward(ShakenNow, d, peer))
                          - Cardinality(Toward(DisconnectedNow, d, peer))]

CountConnected ==
    connectedGauge' = [d \in Direction |-> connectedGauge[d]
                          + Cardinality(Toward(ConnectedNow, d, peer'))
                          - Cardinality(Toward(DisconnectedNow, d, peer))]

\* Mutant: an endpoint is counted again at every connection.
CountDiscoveredMutant ==
    discoveredGauge' = discoveredGauge + Cardinality(Discovered \cup ConnectedNow)

\* Mutant: a peer that disconnects is forgotten.
CountDiscoveredMutantUndone ==
    discoveredGauge' = discoveredGauge + Cardinality(Discovered)
                                       - Cardinality(DisconnectedNow)

CountDiscovered == discoveredGauge' = discoveredGauge + Cardinality(Discovered)

\* peerConnected attaches the per-peer listeners; they go with the socket.
Observe == observed' = (observed \cup ConnectedNow) \cap open'

\* observePeer keys the entry by address and public key; the disconnect handler
\* deletes the key that is the address alone, which no entry has.
\* Mutant: a peer is entered when it connects, before it has shaken hands.
RecordPeersMutant ==
    \E key \in PublicKey :
        peerMap' = peerMap \cup {<<Address[peer'[s].endpoint], key>> : s \in ConnectedNow}

RecordPeers ==
    \E key \in PublicKey :
        peerMap' = peerMap \cup
            {<<Address[peer[s].endpoint], key>> : s \in ShakenNow \cap observed}

\* Gauges and maps are the process's and go with it.
LoseLogs ==
    /\ connectedGauge' = [d \in Direction |-> 0]
    /\ discoveredGauge' = 0
    /\ observed' = {}
    /\ peerMap' = {}

Log ==
    \/ /\ phase' = "down"
       /\ LoseLogs
    \/ /\ phase' # "down"
       /\ ListenersOn
       /\ CountConnected /\ CountDiscovered /\ Observe /\ RecordPeers
    \/ /\ phase' # "down"
       /\ ~ListenersOn
       /\ UNCHANGED logVars

ScoutNext == Next /\ Log

ScoutSpec == ScoutInit /\ [][ScoutNext]_scoutVars

-----------------------------------------------------------------------------
(* Properties.                                                             *)

Counted(d) == {s \in open : Monitored(s) /\ peer[s].direction = d}

\* A gauge never counts a peer that is not there, however the sockets displace
\* each other: what came before the listeners is missing from it, no more.
GaugesAtMost == \A d \in Direction : connectedGauge[d] <= Cardinality(Counted(d))

\* How far a gauge is off is fixed when the listeners are attached: sockets and
\* endpoints that came before are missed for the life of the process, and no
\* connection, close or discovery after that adds an error.
Drift == <<[d \in Direction |-> Cardinality(Counted(d)) - connectedGauge[d]],
           Cardinality(knownPeers) - discoveredGauge>>
DriftIsFixed == [][ListenersOn /\ phase' # "down" => Drift' = Drift]_scoutVars

\* What is reported shook hands, according to the rows.
ReportedHasRow ==
    ~StorageMayFail =>
        \A entry \in peerMap : \E e \in Endpoint :
            Address[e] = entry[1] /\ "handshake" \in facts[e]

\* Who is there, is observed and shook hands is reported.
PresentIsReported ==
    \A s \in open \cap observed : HandshakeCompletedFlag(s) =>
        \E key \in PublicKey : <<Address[peer[s].endpoint], key>> \in peerMap

\* The report and the database hear of a handshake from two listeners of one event
\* (peer-logging.ts, registerConnectedPeer): one enters the address of the peer, the
\* other a field in the row of its endpoint.  Whatever is displaced, closed or
\* restarted since, an address that is reported belongs to an endpoint whose row
\* has its handshake, if the writes succeed; and a peer that is there, and shook
\* hands, is reported, though another of its address and key has left.
ReportMatchesHandshakes == ReportedHasRow /\ PresentIsReported

\* The help text of the gauge, "Number of connected peers".
GaugeCountsPeers ==
    ListenersOn => \A d \in Direction : connectedGauge[d] = Cardinality(Counted(d))
=============================================================================
