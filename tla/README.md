# A TLA+ model of stacks-scout

stacks-scout joins the Stacks peer-to-peer network, keeps a connection to every
node it hears of and exports what it sees as Prometheus metrics. It is a
single-threaded Node.js program: handlers run to completion, and what is hard
about it is the order in which timers, sockets, messages, promises, finalizers and
restarts call them, and the bytes it reads from peers it does not control. This
directory models that, checks it with TLC and proves its safety properties with TLAPS.

## 1. Inventory

| Component | Source | State | Operations | Talks to |
| --- | --- | --- | --- | --- |
| Connection monitor | `peer-connection-monitor.ts` | `knownPeers`, `connectedPeers`, `connectionsInProgress` | register an endpoint, register an inbound peer, dial, the two timers, closed handlers, message listeners | everything below |
| Storage | `peer-storage.ts` | the `peer_state` table | get, set, list rows | called by the monitor for every peer it registers and every fact it learns |
| Start-up, shutdown | `index.ts`, `shutdown.ts`, `stacks-p2p.ts` | how far `init` got | start servers, listeners, timers; bootstrap; load rows; log uncaught errors | drives the monitor |
| Control-plane server | `server/p2p-control-plane-server.ts` | accepted sockets | wrap a socket in a `StacksPeer`, register it, shake hands | monitor |
| Peer protocol | `peer-handler.ts` (`StacksPeer`) | handshake flag, sequence number, waiters, request times, ping loop | handshake, ping, neighbors query, responders, send | bitcoin tip, codec; emits events to monitor and logging |
| Socket reader | `peer-handler.ts` (`createSocketDataReader`) | `lastChunk` | `handleRecvData` | codec; emits the message events |
| Logging and metrics | `peer-logging.ts`, `server/prometheus-server.ts` | gauges, `peerMap`, three first-seen caches | listeners of the monitor's and the peers' events | monitor, peers |
| Bitcoin tip | `bitcoin-net.ts` | a cached promise and its expiry | `getLatestBlock` | awaited by every message that is signed |
| Endpoints | `peer-endpoint.ts`, `util.ts` (`WeakDictionary`) | weak map of the live objects | construct an endpoint | keys of all the monitor's maps |
| Byte stream, codec | `resizable-byte-stream.ts`, `stacks-p2p-deser.ts`, `message/` | cursor, size | read, write, encode, decode | reader, `send` |
| Data plane, node RPC | `server/p2p-data-plane-server.ts`, `stacks-rpc.ts` | none | status page, polling | prints the monitor's maps |

What makes each one correct:

- *monitor*: one dial at a time per endpoint; the tables describe sockets that
  exist; whatever was connected or dialed is known; what is known survives a
  restart; nothing known is given up; private addresses stay out.
- *storage*: a row is created once and never loses a field.
- *reader*: what a peer sends comes out in order, at most once, and if it decodes
  completely, however TCP cuts it.
- *logging*: a gauge equals what its help text says it counts; the peer report names
  those that shook hands and no others.
- *protocol*: no sequence number is lost or taken twice; a response time belongs to
  its request; only an unanswered ping ends the pings; what closes comes to rest.
- *bitcoin tip*: a call is told a recent chain; calls share a request; a failed promise
  is not handed out; heights and hashes of one answer belong together.
- *endpoints*: an endpoint the program holds has one object.
- *first-seen caches*: a latency is measured from the first observation.
- *byte stream*: growing loses nothing, an operation that throws changes nothing.
- *codec*: what is decoded is what was encoded, and decoding stops where the next
  message begins.

The hard behaviours are listed with their lines under `hazards` in `PROJECT.json`.
Most are races between a dial, an inbound socket of the same endpoint and the
closed handlers; the order of start-up; what an exception leaves behind in the
middle of a handler; and awaits without a timeout.

## 2. Modules

| Module | Models | Proofs in |
| --- | --- | --- |
| `PeerConnectionMonitor` | monitor, storage, control-plane server, start-up, crash | `PeerConnectionMonitorProofs` |
| `StacksScout` | the whole program: the monitor with the logging listeners and gauges | `StacksScoutProofs` |
| `MessageChannel`, `SocketReader` | the abstract channel and the reader that implements it | `SocketReaderProofs` |
| `StacksPeer` | one connection: handshake, ping loop, neighbor queries, responders, sequence numbers, response times | `StacksPeerProofs` |
| `BitcoinNet` | the shared, expiring promise of the tip; the regtest variant and the chain behind it | `BitcoinNetProofs` |
| `PeerEndpoint` | one object per endpoint under garbage collection (`WeakDictionary`) | `PeerEndpointProofs` |
| `FirstSeen` | the bounded caches of first-seen times | `FirstSeenProofs` |
| `ByteFile`, `ByteStream` | a plain file and the growing buffer that implements it | `EncodingProofs` |
| `Codec` | the layouts of all messages, written and read field by field | `EncodingProofs` |
| `MCPeerConnectionMonitor`, `MCStacksScout`, `MCStacksPeer`, `MCParts` | instances for TLC (`SocketReader` and `Codec` are also run directly) | |

### PeerConnectionMonitor

One action is one turn of the event loop. A handler that loops over endpoints is
one step over the set of them; the methods it calls (`RegisterPeerEndpoints`,
`ConnectToPeers`, `StorePeerState`, `UpdateFacts`) are operators over that set,
named for the methods. The variables are the monitor's fields, except:

- `attempts` counts unsettled `connectOutbound` promises per endpoint. The code has
  no such counter; it is what `connectionsInProgress` is supposed to describe.
- `open` and `peer` are the open sockets and the `StacksPeer` around each. `key` is
  the map key its closed handler deletes, which is the dialed endpoint for outbound
  peers (`peer.endpoint` for inbound ones), or `NoEndpoint` for an inbound peer that
  `registerConnectedPeer` refused.
- `stored` and `facts` are the rows and which fields of them were set. They survive
  `Crash`. With `StorageMayFail` any write of a loop may be lost, because
  `updatePeerState` logs what the database throws and goes on.
- `phase` says how far `index.ts` got. Inbound sockets are accepted from
  `"listening"` on, which is before the logging listeners are attached.

Constants classify endpoints: `Ignored` fail the address test, `Listening` answer a
dial, `Dialer` open inbound sockets, `Gossip` are named in messages. `SocketName` is
what a socket reports for a dialed endpoint; it is not the identity for an IPv6
address dialed in its expanded spelling. That there is one `PeerEndpoint` object of an
`ip:port` at a time is assumed here. The program does not guarantee it: `PeerEndpoint`
says when there may be two.

### StacksScout

`peer-logging.ts` only listens, and an event is handled in the turn that emits it. A
step of the program is therefore a step of the monitor conjoined with `Log`, which
reads the events off the step (`ConnectedNow`, `DisconnectedNow`, `Discovered`,
`ShakenNow`) and does what the listeners do. Before `setupPeerInfoLogging` has run
the events go unheard.

A handshake is heard twice: the monitor's listener sets a field in the row of the
endpoint, `observePeer` makes an entry under the address and the public key of the peer,
which all its connections share. The disconnect handler deletes the bare address, which
no entry has, so `RecordPeers` only adds, and peers that left are reported until the
process ends. `ReportMatchesHandshakes` bounds the report
from both sides: by the rows that have a handshake, and by the peers that are there.

### SocketReader

A byte is too fine: a preamble is `PreambleUnits` units, a payload as many as
`payload_len` says, and the last unit of the preamble holds `payload_len`. A unit is
a pair of message and place, so bytes glued together wrongly are recognised as no
message, and `Decoded` is then anything: an error, or garbage of any length. The
stream hands the decoder zeros behind its end (the buffer is larger than what was
written), so a decoder that reads on does not fail. One action is one call of
`handleRecvData`; while `handling` no other event comes in. An exception leaves the
listener and is logged by the `uncaughtException` handler, the socket lives on:
`DecodeThrows`, and `ListenerThrows` for a `Blocks` message without blocks.

`MessageChannel` is what a listener of `messageReceived` can rely on: messages are taken
in the order they were sent, each at most once, some perhaps not at all, and between
them there may be noise (`Hiss`), which is what decoding made of bytes that are no
message. `InOrderOnce` says the reader implements it, where the next message to be taken
is one after the last that came out. `NothingSkipped` adds what holds only up to the
first message that does not decode: the messages that come out are the first ones sent.

### StacksPeer

`PeerConnectionMonitor` sees of a peer that it opens, shakes hands, answers and closes;
this module is what goes on inside one. Every async method is a task whose stage is the
await it is at: `address` (`getPublicIP`), `sign` (`getLatestBlock`), `reply`
(`waitForMessage`), and for the ping loop `shake` and `sleep`. `StartSigning` is the
part of `createAndSignEnvelope` before its await, which takes the sequence number;
`Sent` and `SigningFails` are its two ends. A message of the peer is handled by all
listeners in one turn: `ReceiveAccept`, for one, measures a duration, ends the handshake
task, starts the ping loop and sets the flag. What the peer was asked and did not answer
is counted in `asked`; an honest peer answers in order, and `lied` remembers that one
did not. The nonce of a ping is not kept: a pong that was asked for matches, one that
was not may. Write callbacks run before any other event can bring an answer, so `Sent`
stamps the request. The responder to NatPunchRequest is left out, since the reader
never emits its event.

### BitcoinNet

Two classes are one module, because both sign with `getLatestBlock` and a process has
one of them (`network`). Off regtest `fetch` holds the requests to mempool.space, and a
call is what awaits a promise. `lastBlockInfo` is set when the promise is made, so calls
share one that is pending; a failure drops whatever promise is kept (`AfterFailure`), its
own or a newer one. A call that awaits a promise that was rejected before fails at once;
`NoFailedPromise` says that no such promise is kept. Only times are kept of an answer,
since one request returns one snapshot. On regtest the chain itself is modelled: `Mine` and `Reorganise` may come
between the request for the height and the request for the hash, and `expected` remembers
which block was at the stable height when the height was read.

### PeerEndpoint

Objects are constructed, let go of, collected, and some time later their callback runs
and deletes the key of `WeakDictionary`, whatever it holds by then. If the name had got
a new object meanwhile, that one is no longer found, and the next construction makes a
second object of one endpoint, which `Set` and `Map` tell apart. `late` remembers the
names this has happened to, until their last object is gone (`LateAfter`); `HeldIsFound`
says that every other endpoint that is held is found, hence is the only one of its name.

An object may be let go of at any time (`Release`). That is what the program does:
`knownPeers` holds an endpoint for good, but endpoints are constructed and dropped before
they become known, when a peer names a private address that `registerPeerEndpoint`
refuses, or reports an address in its handshake. If the refused endpoint calls in while
the callback of the first object is due, its name is late, and being in `knownPeers` does
not make it unique. What two objects of one endpoint do to the monitor's maps is not
modelled.

### FirstSeen

`setupPeerInfoLogging` keeps three caches of one kind. `Observe` is `get` and, if that
finds nothing, `set`; both count as a use, and a full cache evicts what was used longest
ago. `exact` says which of the times that are kept are those of the first observation.

### ByteStream

A write that does not fit doubles the buffer, or makes it as long as it must be, and
throws if that is longer than `maxSize`: a 500 KB buffer ends at 31.25 MB, from where a
write below the maximum of 32 MB is refused. Reading, peeking and `asBuffer` throw past
the end of the buffer, not past what was written, so behind the last write there are
zeros. The methods for numbers are writes and reads of a fixed number of bytes.
`ByteFile` is what is left when there is no buffer: `ImplementsFile` says that a write
stores its bytes whole and nowhere else, and that what throws changes nothing. That
`readBytes` returns a view, which a later write would change, is left out; the program
does not write to a stream it has read from.

### Codec

A class of `src/message` is a layout: a sequence of fields, where a field is kept apart
from others only as far as its value decides what is read next (counts, type ids, text
and bit-vector lengths). A message of a type this program also writes has two layouts,
translated from `decode` and from `encode`; blocks, microblocks and transactions, whose
`encode` is not implemented, have one, and come from peers. An encoded message is a
sequence of cells, a value and its width; a read of another width is out of step and
fails.

`encode` and `decode` are recursive in the code. Here `todo` is what their call stacks
have still to do: a sequence of fields, at whose front the layout of what follows from a
count, a length or a type id is put (`Following`). `WriteField` writes the first field
and chooses its value among those a message may hold, `Send` is `sign` with the limits
that `encode` checks (what is behind them comes from a peer, `PeerSends`), and
`ReadField` reads the first field of the other layout from the next cell. Clarity values
may hold Clarity values; `MaxNesting` bounds how deep. A text whose length takes one byte
has at most 255 characters: the one that is written is made of an address and a port.
The values inside an opaque field are left out; the sign of a Clarity integer and the ids
the decoder does not know are hazards without a property, each with its reason in
`PROJECT.json`.

## 3. What is checked

| Run | Question | Bounds |
| --- | --- | --- |
| `registry` | the monitor with ephemeral inbound ports and a reliable database: types, rows, dials, displacement, private addresses | 4 endpoints (bootstrap; gossiped; private and dialing in; private and gossiped), 2 sockets |
| `overlap` | endpoints that both listen and dial in, an alias, failing writes: `SingleAttempt`, the table, known peers, rows | 2 endpoints, 3 sockets |
| `forever` | liveness: `NeverForgotten` | 2 endpoints, 2 sockets, failing writes, overlap |
| `private_dialed` | violated: the comment on private addresses | 2 endpoints, 1 socket |
| `metrics` | gauges and peer report of the whole program | 2 endpoints on one host, one of them gossiped, 3 sockets |
| `gauge` | violated: the help text "Number of connected peers" | 2 endpoints, 2 sockets |
| `reader` | the reader under every cut of every stream: nothing skipped before the first message that does not decode, nothing held back, refinement of `MessageChannel` | 3 messages, preamble 2 and payload at most 2 units |
| `stale_chunk` | violated: the comment on `lastChunk` | 2 messages |
| `tasks` | one connection: sequence numbers, durations, the ping loop, closing (safety and liveness) | 2 neighbor queries and a responder beside handshake and ping loop; sequence numbers modulo 2 |
| `seq` | violated: the comment on `preamble.seq` | as `tasks`, modulo 3, nothing fails |
| `parts` | the parts that share no state, each in full behind the choice of `part`: tip, endpoints, caches, stream, codec (safety, refinement of `ByteFile`) | 2 calls and 2 requests, a cache time of 2 in 6 ticks, a chain of 4 blocks and reorganisations of 1; 2 names, 3 objects; 4 hashes in a cache of 2; a buffer that grows from 1 to 5 bytes; messages with vectors of 0 or 2 elements (32 and 33 at the limit), Clarity values nested once, and one choice in every structure |
| `address` | violated: the comment on the width of an address | one address of each spelling |

*Why the bounds are enough.* Displacing an entry needs two sockets under one key,
and seeing the wrong closed handler run needs a third. Two endpoints are enough
for an alias, which is a relation between two; the four of `registry` are one of
each class the code tells apart. Reading needs a message before and after the one
that goes wrong, and lengths such that a message can be cut in its preamble, at
the boundary and in its payload. Sockets are interchangeable, which is why
`SYMMETRY` is sound for the safety runs; the liveness runs use none. For a
connection: numbers taken in one order and sent in another need two tasks at `sign`,
a wrap-around needs a small `MaxSeq`, an answer that ends two queries needs two. A
promise replaced while it is awaited takes two requests and two calls, and a cache time
that passes while one is out; a finalizer that deletes another object's key takes two
objects of a name, and a third to be told apart; a first observation that is forgotten
takes as many other hashes as the cache holds; refused doubling takes a maximum that is
no power of two times the initial size. In `Codec` a field decides alone what follows
from it, so that the messages of `parts` differ from a first one in one field of every
structure, and of a vector in the first element (`OneChoiceEach`): every id, every length
and every limit is met, and two elements show whether the second is read where it begins;
the lengths of bit vectors are those around a byte and around the limit. The
number of dials, restarts, pings and messages to the monitor is not bounded: nothing
in those models counts them.

*Violations.* Each is a disagreement between the program and a text in the
repository (`findings` in `PROJECT.json`):

- A private peer that calls in is entered by `registerConnectedPeer`, which does not
  test addresses, and dialed by the reconnect timer after it hangs up.
  `PrivateOnlyByInbound`, checked and proved, says this is the only way.
- A peer accepted between the start of the control-plane server and
  `setupPeerInfoLogging` is not counted, and its disconnect is: the inbound gauge
  stays too low (it may become negative) until a restart. If such a peer relays an
  endpoint, that is dialed, and the outbound gauge suffers the same. `GaugesAtMost`
  says a gauge is never too high, `DriftIsFixed` that the error does not grow after
  the listeners are attached.
- A message the decoder rejects (an unknown type is enough) leaves `lastChunk`
  behind. If it came in two chunks, the stream is out of step from there on; if it
  was handled as the rest of an earlier chunk, `lastChunk` still holds all of it and
  every later chunk throws again. `InOrderOnce` says that even then nothing comes
  out twice or in another order.
- A sequence number is taken before the await for the bitcoin tip and sent after it,
  so it is not the number of messages sent before. `SeqAccounted` says what does hold:
  none is lost or taken twice.
- An IPv6 address is written with two bytes for each part of its text, so one in its
  compressed spelling takes fewer than the 16 bytes that are read, and the message that
  carries it is out of step from there on. `DecodesWhole` says that with full spellings
  every message is read back as it was.

*Fairness.* `index.ts` runs to its end and `setInterval` fires again, so the start-up
steps and the reconnect timer are weakly fair; the operating system settles every
dial (`connectOutbound` has no timeout of its own, so this leans on TCP's). Nothing
is assumed of peers, messages, neighbor scans or inbound sockets, and `Crash` is never
forced or forbidden: `NeverForgotten` speaks of executions in which the process
eventually stays up and the endpoint has a row. For the reader: what was sent arrives
(TCP), and a call of `handleRecvData` that has begun goes on. For a connection: the
HTTP requests behind `address` and `sign` end with an answer or an error (undici gives up
on one that is silent), and the timeout of the ping loop expires; nothing is assumed of
the peer. The parts of `parts` are checked for safety only.

*Deadlock* is checked except for the reader, which stops when all was read, a
connection, which stops when it is closed, and the codec (in `parts` and `address`),
which stops when its message is decoded; the clock of the tip stops at its bound.

## 4. What is proved

Eight modules of proofs, each about every value of the constants that its component's
named assumptions admit. Those only say what a constant is (a set contains another, a
null value is no element, a bound or a length is a number); `FiniteAssumption` adds that endpoints
and sockets are finitely many. Every safety proof has the same shape: an inductive
invariant (`Consistent`, `ScoutInv`, `PeerInv`, `TipInv`, `EndpointInv`, `CodecInv`,
`StreamInv`, `SeenInv`, for the reader `Inv` with `Ordered` and `Aligned`) holds initially, is kept by
each action, and implies the properties.

*PeerConnectionMonitorProofs*: `TypeOK`, `SingleAttempt`, `TableHoldsOpenSockets`,
`KnownCoversTraffic`, `KnownIsStored`, `DialsUnconnected`, `OpenPeerIsTracked`,
`PrivateOnlyByInbound` and the action property `RowsNeverShrink`.

- `attempts` stays a natural number only because a dial is started when the endpoint
  is not in progress: `TypeOK` needs `SingleAttempt`. `SingleAttempt` is kept because
  both callers of `connectToPeer` filter with the same test, and run to completion.
- `TableHoldsOpenSockets` needs the key of the entry as well as the socket: when `s`
  closes, the entry that points at `s` is the one under its key.
- `OpenPeerIsTracked` says no successful dial replaces an entry. That is
  `DialsUnconnected`: an endpoint being dialed is connected only if it called in.
  Since answered dials and inbound sockets have different keys (`KeysFromSource`),
  neither takes the other's entry if `Listening` and `Dialer` are disjoint.
- `KnownIsStored` follows `RegisterPeerEndpoints`: an endpoint that is known but not
  written is one that is connected or in progress, hence known and stored before
  (`KnownCoversTraffic`).
- `RowsNeverShrink` holds of every action by itself; its proof needs the types of
  `stored` and `facts` only.
- `PrivateNotDialedFirst` is what is left of the comment that `private_dialed` refutes: a
  private endpoint that never calls in is never dialed.

*StacksScoutProofs*: `ScoutTypeOK`, `GaugesAtMost`, `DriftIsFixed` and
`ReportMatchesHandshakes`. A socket that stays open keeps key and direction
(`KeepsSources`, from the monitor's actions), so what is counted changes exactly by
`ConnectedNow` and `DisconnectedNow`, and the cardinalities follow (`Exchange`). Until
the listeners are attached the gauges are zero and no peer is observed (`QuietGauges`),
which is why they start at most at the count. For the report: a peer that appears has
greeted nobody, and one that greets gets the field of its row in the step that enters it
in the report (`GreetingsStep`); rows keep their fields (`RowsKeptStep`), and a peer that
stays keeps its endpoint.

*StacksPeerProofs*: `TypeOK`, `SeqAccounted` and `DurationsAreReal`. The last number
taken is, modulo `MaxSeq + 1`, how many envelopes are settled or being signed: a task
that begins to sign adds one to both sides (`StartAccounted`), one that ends moves its
envelope from one summand to the other (`EndAccounted`), and the lemmas before them are
the arithmetic of going around. A duration is real because an honest peer has at most one handshake and one ping
to answer while their tasks await the reply (`OneAtATime`), and was asked for them
by a message that was stamped (`AskedIsStamped`). `OverlapIsTheCause` completes the run
`seq`: in an execution where no two envelopes are ever signed at once, `preamble.seq` is
the number of messages sent before, as its comment says (modulo `MaxSeq + 1`).

*BitcoinNetProofs*: `TipTypeOK`, `NoFailedPromise`, `FreshEnough`, `NewestIsKept`,
`StableIsAncestor` and the action property `RefetchIsExcused`. The strengthening says
how the times of a promise, of the cache and of the calls that await it are ordered
(`TimesAgree`, `CallsInOrder`): a call that joins a promise is younger than the cache
time after its start, and an answer is never served before its request was made. That a
reorganisation no deeper than the confirmations cannot reach the stable block is kept
from the time the height is read.

*PeerEndpointProofs*: `HeldIsFound` and `NoEntryLeaks`. An entry
refers to an object of its own name (`KeysMatch`), a live object of a name that is
not late is the one its entry refers to (`LiveIsCached`), and only a name that is late
has a callback due beside a live object (`DueIsLate`).

*EncodingProofs*, the codec: `DecodesWhole`, for vectors and texts of any length and
Clarity values of any depth. `SpelledMessagesDecodeWhole` has no condition on the
addresses: every message that happens to hold no compressed one is read back whole, the
others are what `address` shows. Where no address is compressed, `MessagesDecodeWhole`
states the property of the run.

- The argument is a trail (`Trail`, `OnTrail`): what was left to do before each cell was
  written. The cell came from the first field that was left, so reading, which starts with
  the same layout, has the same fields left before it reads that cell, finds its width, and
  puts the same layout in front. It can only leave the trail at a width that the field does
  not tell, which is that of an address. The trail ends where nothing is left, for reading
  as it did for writing.
- That the layouts of `decode` and `encode` are the same is `SameLayouts`, class by class.
- No induction over nested layouts is needed: what is left to do is flat. Instead the
  fields that occur at all (`Fields`) are closed under what may follow them
  (`FieldsAdmissible`), so every cell has a width and every field that is left is known.
- `sign` sets `payload_len` after the rest is written. The trail survives that because
  nothing follows from an opaque field (`SignedKeeps`), and the number is right because the
  preamble takes the bytes it is said to take (`PreambleInPlace`).

*EncodingProofs*, the byte stream: `HalfIsUsable`, `BufferIsWhatWasWritten` and, as the
refinement, `ImplementsFile`: the initial buffer is the empty file and every operation is
one of the file's or leaves it as it is. It needs that a cursor moved only by writing lies
within the buffer.

*SocketReaderProofs*: `TypeOK`, `NothingHeldBack`, `NothingSkipped` and, as the
refinement, `InOrderOnce`, for streams of any length. A stream is defined by recursion
over its messages (`Ends`), so even its type takes induction over the natural numbers.
The induction theorems of the library take an operator, which the provers cannot be
given; here a set carries it (`SetInduction`: a set of numbers with 0 and with every
successor is all of them, because a least missing number would have a predecessor).

- `Inv` is the types and the count of units (`Quiet` says `data` is empty between calls):
  bytes that came out, are kept or are under way were sent once.
- `Ordered` gives the refinement. Units are ordered by message and place; what is kept is
  increasing, comes before what is under way, and after the last message that was taken.
  It holds out of step too, whatever a decoder makes of the bytes, because a decoded
  message is a run of units at the front of the buffer (`LeadingIsOne`) and every step
  only drops units. Hence no message comes out twice or late.
- `Aligned` gives `NothingSkipped`: while the next message decodes, what is kept and what
  is under way are the stream behind the messages that came out (`InStep`). Then the length
  that is read is the right one, and what is decoded is the next message (`NextIsRead`).
  Listeners may throw; the bytes behind their message are kept.
- `LatestIsKept` completes the run `stale_chunk`: what it refutes holds between any two
  calls as long as the next message decodes.

*FirstSeenProofs*: `LatencyFromFirst` for a cache of any size. The invariant says which
hashes a cache holds, in which order: the last `MaxSeen` of those observed
(`CacheIsLatest`), which is what makes an eviction take the one that was observed longest
ago; a hash that never had `MaxSeen` others between two observations is therefore held
with its first time (`ExactUnlessCrowded`).

*Only model-checked*: liveness (`NeverForgotten`, `AllDelivered`, `PingsUnlessUnanswered`,
`ClosedComesToRest`), which depends on fairness, and fairness on `ENABLED`,
which the provers cannot reason about. Every other property of a passing run is the
subject of a theorem.

## 5. What is left

- *Composition*: `PeerConnectionMonitor` with `PeerEndpoint` in the place of its
  assumption, so that two objects of one endpoint are two keys of its maps.
- *Not modelled*: the status page and the polling of the node's RPC (they change
  nothing), waiting for bitcoind on regtest, `hasPeer` and the `peer_stats` table (used by
  nothing), the HTTP endpoint of the metrics, histograms and the version counter (output
  only), configuration parsing, signatures and hashes, the Dockerfile. Text of log lines
  is left out everywhere.
