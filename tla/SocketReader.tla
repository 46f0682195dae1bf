---------------------------- MODULE SocketReader ----------------------------
(***************************************************************************)
(* createSocketDataReader of src/peer-handler.ts: how the bytes of one     *)
(* socket become messages.                                                 *)
(*                                                                         *)
(* Bytes are grouped into units: a preamble is PreambleUnits of them, the  *)
(* last of which holds payload_len, a payload has as many as payload_len   *)
(* says.  A unit is known by its message and its place in it, so that what *)
(* is glued together after a loss is recognised as no message.             *)
(*                                                                         *)
(* A 'data' event runs handleRecvData, which calls itself as long as there *)
(* are bytes left.  One action is one call; JavaScript lets no other event *)
(* in before the last call returns.                                        *)
(***************************************************************************)
EXTENDS Integers, Sequences

CONSTANTS
    PreambleUnits,  \* Preamble.BYTE_SIZE
    MaxPayload,     \* the longest payload sent (bounds the model)
    MaxMessages,    \* the most messages one peer sends (bounds the model)
    Kinds           \* which kinds of message peers send

\* good:    decodes into exactly payload_len bytes
\* unknown: its container type is none the decoder knows; decoding throws
\* empty:   a Blocks message without blocks; a listener of its event throws
\* short:   the decoder stops one unit early
\* long:    the decoder reads one unit too many
AllKinds == {"good", "unknown", "empty", "short", "long"}

ASSUME ReaderAssumption ==
    /\ PreambleUnits \in Nat \ {0}
    /\ MaxPayload \in Nat \ {0}
    /\ MaxMessages \in Nat
    /\ Kinds \subseteq AllKinds

VARIABLES
    script,     \* the messages the peer sends: kind and payload_len of each
    wire,       \* units sent and not yet read from the socket
    lastChunk,  \* the variable of that name
    data,       \* the argument of the running call of handleRecvData
    handling,   \* such a call is running
    delivered   \* the messages emitted by 'messageReceived'

vars == <<script, wire, lastChunk, data, handling, delivered>>

\* payload_len is never 0: it counts the relayers as well.
Message == [kind : Kinds, payload : 1 .. MaxPayload]
Garbage == 0    \* what is decoded from bytes that are no message

Size(m) == PreambleUnits + script[m].payload
Unit(s) == UNION {{m} \X (1 .. PreambleUnits + s[m].payload) : m \in DOMAIN s}

\* How many units the first m messages of s are, for each m.
Ends(s) ==
    LET ends[m \in 0 .. Len(s)] ==
            IF m = 0 THEN 0 ELSE ends[m - 1] + PreambleUnits + s[m].payload
    IN  ends

\* All units of the messages of s in the order they are sent.
MessageAt(s, i) == CHOOSE m \in DOMAIN s : Ends(s)[m - 1] < i /\ i <= Ends(s)[m]

Encoded(s) ==
    [i \in 1 .. Ends(s)[Len(s)] |-> <<MessageAt(s, i), i - Ends(s)[MessageAt(s, i) - 1]>>]

Init ==
    /\ script \in UNION {[1 .. n -> Message] : n \in 0 .. MaxMessages}
    /\ wire = Encoded(script)
    /\ lastChunk = <<>> /\ data = <<>>
    /\ handling = FALSE
    /\ delivered = <<>>

buff == lastChunk \o data

TypeOK ==
    /\ script \in Seq(Message) /\ Len(script) <= MaxMessages
    /\ \A s \in {wire, lastChunk, data} : s \in Seq(Unit(script))
    /\ handling \in BOOLEAN
    /\ delivered \in Seq(DOMAIN script \cup {Garbage})
    \* What is emitted was read: the recursion cannot go on without bytes.
    /\ Len(delivered) + Len(wire) + Len(buff) <= Len(Encoded(script))

-----------------------------------------------------------------------------
Drop(s, n) == SubSeq(s, n + 1, Len(s))

\* The message all of whose units s begins with, if there is one.
Leading(s) == {m \in DOMAIN script : /\ Len(s) >= Size(m)
                                     /\ \A i \in 1 .. Size(m) : s[i] = <<m, i>>}

\* readPayloadLength: the last unit of the first PreambleUnits, which is the
\* length field of a message only if the buffer is aligned with one.  What else
\* is read there may be more than will ever arrive.
PayloadLength(s) ==
    LET unit == s[PreambleUnits]
    IN  IF unit[2] = PreambleUnits THEN {script[unit[1]].payload}
        ELSE (0 .. MaxPayload) \cup {MaxMessages * (PreambleUnits + MaxPayload)}

\* StacksMessageEnvelope.decode of s: how many units it reads and what it makes
\* of them.  Of bytes that are no message it can make anything, or throw.
Decoded(s) ==
    IF Leading(s) = {}
    THEN {[throws |-> TRUE]} \cup [throws : {FALSE}, read : PreambleUnits .. Len(s) + 1,
                                   message : {Garbage}]
    ELSE LET m == CHOOSE m \in Leading(s) : TRUE
         IN  CASE script[m].kind = "unknown" -> {[throws |-> TRUE]}
               [] script[m].kind = "short" ->
                    {[throws |-> FALSE, read |-> Size(m) - 1, message |-> m]}
               [] script[m].kind = "long" ->
                    {[throws |-> FALSE, read |-> Size(m) + 1, message |-> m]}
               [] OTHER ->
                    {[throws |-> FALSE, read |-> Size(m), message |-> m]}

ListenerThrows(m) == m # Garbage /\ script[m].kind = "empty"

-----------------------------------------------------------------------------
\* The socket hands over any number of the units that are under way.
Receive ==
    /\ ~handling
    /\ \E n \in 1 .. Len(wire) :
         /\ data' = SubSeq(wire, 1, n)
         /\ wire' = Drop(wire, n)
    /\ handling' = TRUE
    /\ UNCHANGED <<script, lastChunk, delivered>>

Return == handling' = FALSE /\ data' = <<>> /\ UNCHANGED <<script, wire>>

IncompleteMutant(s, length) == \* Mutant: "<=" for "<".
    Len(s) <= length + PreambleUnits

\* Less than a preamble, or than the payload it announces: wait for more.
Incomplete(s, length) == Len(s) < length + PreambleUnits

SaveChunk ==
    /\ handling
    /\ \/ Len(buff) < PreambleUnits
       \/ /\ Len(buff) >= PreambleUnits
          /\ \E length \in PayloadLength(buff) : Incomplete(buff, length)
    /\ lastChunk' = buff
    /\ Return
    /\ UNCHANGED delivered

\* The error leaves the 'data' listener: lastChunk is as it was before the call
\* and the chunk that was being handled is gone.
DecodeThrows ==
    /\ handling
    /\ Len(buff) >= PreambleUnits
    /\ \E length \in PayloadLength(buff) : ~Incomplete(buff, length)
    /\ [throws |-> TRUE] \in Decoded(buff)
    /\ Return
    /\ UNCHANGED <<lastChunk, delivered>>

LeftoverMutantEmpty(s, n) == <<>> \* Mutant: what follows the message is not kept.
LeftoverMutantKept(s, n) == s     \* Mutant: lastChunk is not advanced.

\* What is left in lastChunk after a decode that read n units.
Leftover(s, n) == IF Len(s) > n THEN Drop(s, n) ELSE <<>>

\* The decoder has read too little, which it is blamed for only when there are
\* bytes after its position: everything is dropped, the message included.
Underread ==
    /\ handling
    /\ Len(buff) >= PreambleUnits
    /\ \E length \in PayloadLength(buff), d \in Decoded(buff) :
         /\ ~Incomplete(buff, length)
         /\ ~d.throws
         /\ Len(buff) > d.read /\ d.read < length + PreambleUnits
    /\ lastChunk' = <<>>
    /\ Return
    /\ UNCHANGED delivered

\* The message is emitted; then the rest is handled, unless a listener threw.
Deliver ==
    /\ handling
    /\ Len(buff) >= PreambleUnits
    /\ \E length \in PayloadLength(buff), d \in Decoded(buff) :
         /\ ~Incomplete(buff, length)
         /\ ~d.throws
         /\ ~(Len(buff) > d.read /\ d.read < length + PreambleUnits)
         /\ lastChunk' = Leftover(buff, d.read)
         /\ delivered' = Append(delivered, d.message)
         /\ handling' = (lastChunk' # <<>> /\ ~ListenerThrows(d.message))
    /\ data' = <<>>
    /\ UNCHANGED <<script, wire>>

HandleRecvData == SaveChunk \/ DecodeThrows \/ Underread \/ Deliver

Next == Receive \/ HandleRecvData

Spec == Init /\ [][Next]_vars

\* What was sent arrives, and a call of handleRecvData returns.
FairSpec == Spec /\ WF_vars(Receive) /\ WF_vars(HandleRecvData)

-----------------------------------------------------------------------------
(* Properties.                                                             *)

\* The first i messages decode, a listener may throw.
Decodable(i) ==
    \A m \in DOMAIN script : m <= i => script[m].kind \in {"good", "empty"}

\* Up to the first message that does not decode, the chunks the stream arrives in
\* do not matter and neither do listeners that throw: no message is skipped or
\* repeated, and none is made up (tests/peer-socket-reading tries one chunk for one,
\* for three and three chunks for one).
NothingSkipped == \A i \in DOMAIN delivered : Decodable(i) => delivered[i] = i

\* Nothing complete is held back: once handleRecvData returns, the bytes it keeps
\* do not begin with a whole message, if neither the decoder nor a listener
\* throws.  Misread lengths alone do not stop the recursion early.
NothingThrows == \A m \in DOMAIN script : script[m].kind \notin {"unknown", "empty"}
NothingHeldBack == NothingThrows /\ ~handling => Leading(lastChunk) = {}

\* A stream of messages that decode, and at which no listener throws, is delivered
\* to its end.
AllGood == \A m \in DOMAIN script : script[m].kind = "good"

AllDelivered == AllGood => <>(Len(delivered) = Len(script))

\* Whatever the peer sends, the messages that do come out are in the order they
\* were sent and none comes out twice: SocketReader implements MessageChannel.
Taken == {delivered[i] : i \in DOMAIN delivered} \ {Garbage}
LastTaken == CHOOSE m \in Taken \cup {0} : \A n \in Taken : n <= m

Channel == INSTANCE MessageChannel
    WITH Count <- MaxMessages, Noise <- Garbage,
         next <- LastTaken + 1, received <- delivered

InOrderOnce == Channel!ChannelSpec

\* The comment on lastChunk, "the left over data from the last received chunk":
\* what is kept between two calls ends where the chunks read so far end.
IsSuffix(t, s) == Len(t) <= Len(s) /\ t = Drop(s, Len(s) - Len(t))

KeepsTheLatest == ~handling => IsSuffix(lastChunk \o wire, Encoded(script))
=============================================================================
