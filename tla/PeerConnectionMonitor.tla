----------------------- MODULE PeerConnectionMonitor -----------------------
(***************************************************************************)
(* The registry of peers of stacks-scout: src/peer-connection-monitor.ts,  *)
(* the rows it persists (src/peer-storage.ts), the two places sockets come *)
(* from (connectOutbound and the control-plane server) and the start-up    *)
(* sequence that drives it (src/index.ts).                                 *)
(*                                                                         *)
(* One action is one turn of the JavaScript event loop: a timer tick, the  *)
(* settling of a connection promise, a socket event, a message event.      *)
(* Within a turn nothing else runs, so a handler that walks a list of      *)
(* endpoints is one step over the set of those endpoints.                  *)
(***************************************************************************)
EXTENDS Naturals

CONSTANTS
    Endpoint,       \* ip:port pairs; one PeerEndpoint object for each
    Socket,         \* sockets that may be open at once (bounds the model)
    NoSocket,       \* "no entry" in the connectedPeers map
    NoEndpoint,     \* key of a peer that was never entered in the map
    Ignored,        \* endpoints the private / unspecified address test rejects
    Bootstrap,      \* endpoints getBootstrapPeers resolves
    Gossip,         \* endpoints named in Neighbors payloads and relayer lists
    Listening,      \* endpoints at which a dial can be answered
    Dialer,         \* remote endpoints of inbound sockets
    SocketName,     \* the endpoint a socket reports after dialing e
    StatEvent,      \* further message events that update a row
    StorageMayFail  \* whether a write to the database can throw

ASSUME EndpointAssumption ==
    /\ NoEndpoint \notin Endpoint
    /\ Ignored \subseteq Endpoint
    /\ Bootstrap \subseteq Endpoint
    /\ Gossip \subseteq Endpoint
    /\ Listening \subseteq Endpoint
    /\ Dialer \subseteq Endpoint
    /\ SocketName \in [Endpoint -> Endpoint]

ASSUME ValueAssumption ==
    /\ NoSocket \notin Socket
    /\ StatEvent \cap {"handshake", "handshakeAccept"} = {}
    /\ StorageMayFail \in BOOLEAN

VARIABLES
    phase,                  \* how far index.ts has got
    knownPeers,             \* the Set of that name
    connectedPeers,         \* the Map of that name: endpoint -> socket
    connectionsInProgress,  \* the keys of the Map of that name
    attempts,               \* connectOutbound promises not settled, per endpoint
    open,                   \* sockets that are open
    peer,                   \* the StacksPeer built around each open socket
    stored,                 \* the keys of the peer_state table
    facts                   \* which fields of a row have been set

vars == <<phase, knownPeers, connectedPeers, connectionsInProgress, attempts,
          open, peer, stored, facts>>

-----------------------------------------------------------------------------
Fact == {"handshake"} \cup StatEvent

\* The two messages after which a StacksPeer emits handshakeCompleted, each once.
Greeting == {"handshake", "handshakeAccept"}

\* A message of any other type, or a Blocks message whose event handler throws.
MessageKind == Greeting \cup StatEvent \cup {"other"}

Peer == [direction : {"inbound", "outbound"},
         endpoint  : Endpoint,                  \* peer.endpoint
         key       : Endpoint \cup {NoEndpoint},\* the key its closed handler deletes
         greeted   : SUBSET Greeting,
         scanning  : BOOLEAN]                   \* a requestNeighbors is waiting

NewPeer(dir, endpoint, key) ==
    [direction |-> dir, endpoint |-> endpoint, key |-> key,
     greeted |-> {}, scanning |-> FALSE]

Monitored(s) == s \in open /\ peer[s].key # NoEndpoint
HandshakeCompletedFlag(s) == peer[s].greeted # {}
Connected(e) == connectedPeers[e] # NoSocket

\* Mutants of the next operator: half of getUnconnectedPeers' test is lost.
UnconnectedMutantInProgress(e) == ~Connected(e)
UnconnectedMutantConnected(e) == e \notin connectionsInProgress

Unconnected(e) == ~Connected(e) /\ e \notin connectionsInProgress

TimersOn == phase \in {"started", "ready"}

TypeOK ==
    /\ phase \in {"down", "listening", "started", "ready"}
    /\ knownPeers \subseteq Endpoint
    /\ connectedPeers \in [Endpoint -> Socket \cup {NoSocket}]
    /\ connectionsInProgress \subseteq Endpoint
    /\ attempts \in [Endpoint -> Nat]
    /\ open \subseteq Socket
    /\ DOMAIN peer = Socket
    /\ \A s \in Socket : IF s \in open THEN peer[s] \in Peer ELSE peer[s] = NoSocket
    /\ stored \subseteq Endpoint
    /\ facts \in [Endpoint -> SUBSET Fact]

NothingRunning ==
    /\ phase = "down"
    /\ knownPeers = {}
    /\ connectedPeers = [e \in Endpoint |-> NoSocket]
    /\ connectionsInProgress = {}
    /\ attempts = [e \in Endpoint |-> 0]
    /\ open = {}
    /\ peer = [s \in Socket |-> NoSocket]

Init ==
    /\ NothingRunning
    /\ stored = {}
    /\ facts = [e \in Endpoint |-> {}]

-----------------------------------------------------------------------------
(* The methods the actions are made of.  Each takes the set of endpoints   *)
(* the caller's loop runs over.                                            *)

\* updatePeerState catches and logs what the database throws, so of the rows
\* a loop writes any may be left out.
Written(S) == IF StorageMayFail THEN SUBSET S ELSE {S}

\* storePeerState: an absent row is created with the defaults, an existing one
\* is read and written back as it was.
\* Mutant: the row is left to the first updatePeerState that has a field to set.
StorePeerStateMutant(S) == UNCHANGED stored

StorePeerStateMutantReplace(S) == \* Mutant: a write that fails has deleted the row.
    \E written \in Written(S) : stored' = (stored \ S) \cup written

StorePeerState(S) == \E written \in Written(S) : stored' = stored \cup written

ConnectToPeers(S) ==
    /\ attempts' = [e \in Endpoint |-> IF e \in S THEN attempts[e] + 1 ELSE attempts[e]]
    /\ connectionsInProgress' = connectionsInProgress \cup S

\* updatePeerState with a callback that sets fields, for every endpoint in S.
UpdateFactsMutant(S, news) == \* Mutant: the row is replaced without being read.
    facts' = [e \in Endpoint |-> IF e \in S THEN news ELSE facts[e]]

UpdateFacts(S, news) ==
    facts' = [e \in Endpoint |-> IF e \in S THEN facts[e] \cup news ELSE facts[e]]

\* The dial of e ends: its promise settles and .finally runs.
SettleDialMutant(e) == \* Mutant: a dial settles once by 'connect' and once by 'error'.
    /\ attempts' = [attempts EXCEPT ![e] = @ - 2]
    /\ connectionsInProgress' = connectionsInProgress \ {e}

SettleDial(e) ==
    /\ attempts' = [attempts EXCEPT ![e] = @ - 1]
    /\ connectionsInProgress' = connectionsInProgress \ {e}

\* knownPeers.add of every endpoint in S.
AddKnownMutant(S) == knownPeers' = S \* Mutant: each batch starts a new Set.

AddKnown(S) == knownPeers' = knownPeers \cup S

\* The address test at the head of registerPeerEndpoint.
AcceptedMutant(S) == S \* Mutant: it is dropped.

Accepted(S) == S \ Ignored

\* registerPeerEndpoint of every endpoint in S, as far as the maps go ...
Fresh(S) == {e \in Accepted(S) : Unconnected(e)}

RegisterInMaps(S) ==
    /\ AddKnown(Accepted(S))
    /\ ConnectToPeers(Fresh(S))

\* ... and with the rows it stores.
RegisterPeerEndpoints(S) ==
    /\ RegisterInMaps(S)
    /\ StorePeerState(Fresh(S))

-----------------------------------------------------------------------------
(* Start-up and shutdown (index.ts, shutdown.ts).                          *)

\* The servers accept sockets before the logging listeners are attached and
\* the timers run: startControlPlaneServer and startPrometheusServer are awaited.
StartServers ==
    /\ phase = "down"
    /\ phase' = "listening"
    /\ UNCHANGED <<knownPeers, connectedPeers, connectionsInProgress, attempts,
                   open, peer, stored, facts>>

StartTimers ==
    /\ phase = "listening"
    /\ phase' = "started"
    /\ UNCHANGED <<knownPeers, connectedPeers, connectionsInProgress, attempts,
                   open, peer, stored, facts>>

\* getPeers: every row of the table.
StoredPeersMutant == \* Mutant: only rows that something was learned for.
    {e \in stored : facts[e] # {}}

StoredPeers == stored

\* After the DNS lookups the bootstrap peers and then every stored peer are
\* registered in one turn.
LoadPeers ==
    /\ phase = "started"
    /\ phase' = "ready"
    /\ RegisterPeerEndpoints(Bootstrap \cup StoredPeers)
    /\ UNCHANGED <<connectedPeers, open, peer, facts>>

\* A signal, a failed init or a kill: everything but the database is lost.
Crash ==
    /\ phase # "down"
    /\ phase' = "down"
    /\ knownPeers' = {}
    /\ connectedPeers' = [e \in Endpoint |-> NoSocket]
    /\ connectionsInProgress' = {}
    /\ attempts' = [e \in Endpoint |-> 0]
    /\ open' = {}
    /\ peer' = [s \in Socket |-> NoSocket]
    /\ UNCHANGED <<stored, facts>>

-----------------------------------------------------------------------------
(* The two timers.                                                         *)

\* Neither the address test nor the storage is consulted here.
ReconnectTick ==
    /\ TimersOn
    /\ LET unconnected == {e \in knownPeers : Unconnected(e)}
       IN  /\ unconnected # {}
           /\ ConnectToPeers(unconnected)
    /\ UNCHANGED <<phase, knownPeers, connectedPeers, open, peer, stored, facts>>

\* A query goes to every tracked peer that has shaken hands, except that signing
\* one may fail: each signature first asks the bitcoin node for its tip.
NeighborScanTick ==
    /\ TimersOn
    /\ \E asked \in SUBSET {s \in open : /\ \E e \in Endpoint : connectedPeers[e] = s
                                         /\ HandshakeCompletedFlag(s)} :
         /\ asked # {}
         /\ peer' = [s \in Socket |-> IF s \in asked
                                      THEN [peer[s] EXCEPT !.scanning = TRUE]
                                      ELSE peer[s]]
    /\ UNCHANGED <<phase, knownPeers, connectedPeers, connectionsInProgress,
                   attempts, open, stored, facts>>

-----------------------------------------------------------------------------
(* Sockets.                                                                *)

\* The dial of e succeeds: the entry is set whatever the map holds by now.  The
\* peer's own endpoint is the one the socket reports.
OutboundConnected(e, s) ==
    /\ attempts[e] > 0
    /\ e \in Listening
    /\ s \notin open
    /\ open' = open \cup {s}
    /\ peer' = [peer EXCEPT ![s] = NewPeer("outbound", SocketName[e], e)]
    /\ connectedPeers' = [connectedPeers EXCEPT ![e] = s]
    /\ SettleDial(e)
    /\ UNCHANGED <<phase, knownPeers, stored, facts>>

\* The dial is refused or times out, or the socket is gone before its promise runs.
OutboundFailed(e) ==
    /\ attempts[e] > 0
    /\ SettleDial(e)
    /\ UNCHANGED <<phase, knownPeers, connectedPeers, open, peer, stored, facts>>

\* Two inbound sockets cannot share a remote endpoint; an inbound and an
\* outbound one can, their local ports differ.
Accept(e, s) ==
    /\ phase # "down"
    /\ e \in Dialer
    /\ s \notin open
    /\ ~ \E t \in open : peer[t].direction = "inbound" /\ peer[t].endpoint = e
    /\ open' = open \cup {s}

\* handleNewInboundSocket with registerConnectedPeer: no address test here.
InboundRegistered(e, s) ==
    /\ Accept(e, s)
    /\ ~Connected(e)
    /\ peer' = [peer EXCEPT ![s] = NewPeer("inbound", e, e)]
    /\ AddKnown({e})
    /\ connectedPeers' = [connectedPeers EXCEPT ![e] = s]
    /\ StorePeerState({e})
    /\ UNCHANGED <<phase, connectionsInProgress, attempts, facts>>

\* registerConnectedPeer throws; the socket stays open with a StacksPeer on it
\* that answers messages, but no listener of the monitor.
InboundRefused(e, s) ==
    /\ Accept(e, s)
    /\ Connected(e)
    /\ peer' = [peer EXCEPT ![s] = NewPeer("inbound", e, NoEndpoint)]
    /\ UNCHANGED <<phase, knownPeers, connectedPeers, connectionsInProgress,
                   attempts, stored, facts>>

\* The closed handler deletes its key without looking at what is stored there.
EntryDeletedMutant(s) == \* Mutant: by peer.endpoint, for outbound peers as well.
    [e \in Endpoint |-> IF e = peer[s].endpoint THEN NoSocket ELSE connectedPeers[e]]

EntryDeleted(s) ==
    [e \in Endpoint |-> IF e = peer[s].key THEN NoSocket ELSE connectedPeers[e]]

SocketClosed(s) ==
    /\ s \in open
    /\ open' = open \ {s}
    /\ peer' = [peer EXCEPT ![s] = NoSocket]
    /\ connectedPeers' = EntryDeleted(s)
    /\ UNCHANGED <<phase, knownPeers, connectionsInProgress, attempts, stored, facts>>

-----------------------------------------------------------------------------
(* Messages of monitored peers.                                            *)

\* The relayers of every message are registered first, then the event of the
\* message's own type updates the row of peer.endpoint.
MessageReceived(s, kind, relayers) ==
    LET greets == kind \in Greeting \ peer[s].greeted
        news   == IF greets THEN {"handshake"} ELSE {kind} \cap StatEvent
        target == IF news = {} THEN {} ELSE {peer[s].endpoint}
    IN  /\ Monitored(s)
        /\ RegisterInMaps(relayers)
        /\ \E written \in Written(Fresh(relayers)), noted \in Written(target) :
             /\ stored' = stored \cup written \cup noted
             /\ UpdateFacts(noted, news)
        /\ peer' = IF greets THEN [peer EXCEPT ![s].greeted = @ \cup {kind}] ELSE peer
        /\ UNCHANGED <<phase, connectedPeers, open>>

\* The rest of scanPeerNeighbors: one Neighbors message ends every scan of the
\* peer that is waiting.
NeighborsReceived(s, neighbors) ==
    /\ Monitored(s)
    /\ peer[s].scanning
    /\ RegisterPeerEndpoints(neighbors)
    /\ peer' = [peer EXCEPT ![s].scanning = FALSE]
    /\ UNCHANGED <<phase, connectedPeers, open, facts>>

-----------------------------------------------------------------------------
Process == StartServers \/ StartTimers \/ LoadPeers \/ Crash

Timers == ReconnectTick \/ NeighborScanTick

Sockets ==
    \/ \E e \in Endpoint : OutboundFailed(e)
    \/ \E e \in Endpoint, s \in Socket : \/ OutboundConnected(e, s)
                                         \/ InboundRegistered(e, s)
                                         \/ InboundRefused(e, s)
    \/ \E s \in Socket : SocketClosed(s)

Messages ==
    \E s \in open, named \in SUBSET Gossip :
       \/ \E kind \in MessageKind : MessageReceived(s, kind, named)
       \/ NeighborsReceived(s, named)

Next == Process \/ Timers \/ Sockets \/ Messages

Spec == Init /\ [][Next]_vars

\* index.ts runs to its end, setInterval keeps firing, and the operating system
\* settles every dial one way or the other.
Fairness ==
    /\ WF_vars(StartServers) /\ WF_vars(StartTimers) /\ WF_vars(LoadPeers)
    /\ WF_vars(ReconnectTick)
    /\ \A e \in Endpoint :
         WF_vars(OutboundFailed(e) \/ \E s \in Socket : OutboundConnected(e, s))

FairSpec == Spec /\ Fairness

-----------------------------------------------------------------------------
(* Properties.                                                             *)

\* An endpoint is being dialed by at most one promise, and the in-progress map
\* says exactly which are: connectToPeer sets the entry after starting the dial
\* and .finally deletes it by key, so a second dial would lose its entry early.
SingleAttempt ==
    \A e \in Endpoint : attempts[e] = IF e \in connectionsInProgress THEN 1 ELSE 0

\* connectedPeers never holds a socket that has closed, nor one entered under
\* another key, in whatever order dials, inbound sockets and closed handlers run.
TableHoldsOpenSockets ==
    \A e \in Endpoint : Connected(e) => /\ connectedPeers[e] \in open
                                        /\ peer[connectedPeers[e]].key = e

\* What is connected or being dialed is known: the reconnect timer, which walks
\* knownPeers only, will see it again when the socket closes or the dial fails.
KnownCoversTraffic ==
    /\ connectionsInProgress \subseteq knownPeers
    /\ \A e \in Endpoint : Connected(e) => e \in knownPeers
    /\ \A s \in open : peer[s].key \in knownPeers \cup {NoEndpoint}

\* With a database that accepts every write, no peer is known to the running
\* process only: a restart finds each of them again in loadPeersFromStorage.
KnownIsStored ==
    ~StorageMayFail => knownPeers \subseteq stored

\* An endpoint that is connected already is being dialed only when it called in
\* while the dial was out, which takes an endpoint inbound sockets come from.
\* (This is why the set in OutboundConnected need not look at the map.)
DialsUnconnected ==
    \A e \in connectionsInProgress : Connected(e) => e \in Dialer

\* Outbound peers are entered under the endpoint dialed, inbound ones, if at all,
\* under the one that called.
KeysFromSource ==
    \A s \in open : IF peer[s].direction = "outbound" THEN peer[s].key \in Listening
                     ELSE peer[s].key \in {peer[s].endpoint, NoEndpoint}

\* No endpoint at which a dial is answered is also where inbound sockets come
\* from: nodes call from ephemeral ports.
EphemeralDialers == Listening \cap Dialer = {}

\* Then every open socket is monitored and is the one in the table under its
\* key: registerConnectedPeer never throws, the scan timer reaches every peer and
\* a closed handler removes its own entry.
OpenPeerIsTracked ==
    EphemeralDialers =>
        \A s \in open : Monitored(s) /\ connectedPeers[peer[s].key] = s

\* The address test keeps private endpoints out of every list except through
\* an inbound socket, which registerConnectedPeer takes without the test.
PrivateOnlyByInbound ==
    (knownPeers \cup connectionsInProgress) \cap Ignored \subseteq Dialer

\* The conjunction is inductive (PeerConnectionMonitorProofs).
Consistent ==
    /\ TypeOK
    /\ SingleAttempt
    /\ TableHoldsOpenSockets
    /\ KnownCoversTraffic
    /\ KnownIsStored
    /\ DialsUnconnected
    /\ KeysFromSource
    /\ OpenPeerIsTracked
    /\ PrivateOnlyByInbound

\* Nothing a row has recorded is lost: a row is created once, across crashes too,
\* and updatePeerState keeps the fields its callback does not set.
RowsKept == \A e \in Endpoint : /\ e \in stored => e \in stored'
                                /\ facts[e] \subseteq facts'[e]

RowsNeverShrink == [][RowsKept]_vars

\* The process eventually stays up and e eventually has a row it may dial.
StaysUpKnowing(e) == <>[](phase # "down") /\ <>(e \in stored)

\* An endpoint once stored is never given up: from then on it is connected again
\* and again, or dialed over and over (README: "Persistent Monitoring").
NeverForgotten ==
    \A e \in Endpoint \ Ignored :
        StaysUpKnowing(e) =>
            \/ []<>Connected(e)
            \/ []<>(attempts[e] > 0) /\ []<>(attempts[e] = 0)

\* The comment at the head of registerPeerEndpoint, "ignore private IP addresses
\* (but allow loopback address for local connections)": such a peer is never dialed.
PrivateNeverDialed == \A e \in Ignored : attempts[e] = 0
=============================================================================
