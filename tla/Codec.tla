-------------------------------- MODULE Codec --------------------------------
(***************************************************************************)
(* How messages are laid out in bytes: the encode and decode methods of    *)
(* src/message and its entities.                                           *)
(*                                                                         *)
(* A layout is a sequence of fields.  What is in a field is kept apart     *)
(* only as far as reading the rest depends on it: an encoded message is a  *)
(* sequence of cells, one for each value that is written, with its width   *)
(* in bytes.  Reading another width than was written means being out of    *)
(* step with the stream, where bytes of several values make up one.        *)
(*                                                                         *)
(* A message is written field after field, every choice that its layout    *)
(* leaves open being made where it is met, and then read field after       *)
(* field.  What follows a count, a length or a type id is put in front of  *)
(* the fields that are still to be done.                                   *)
(***************************************************************************)
EXTENDS Integers, Sequences

CONSTANTS
  Counts,    \* lengths of vectors (bounds the model)
  Lengths,   \* lengths of texts (bounds the model)
  BitLens,   \* lengths of bit vectors (bounds the model)
  Compressed, \* an IPv6 address with a ::
  Addresses, \* the addresses that messages are sent with
  MaxNesting \* how deep Clarity values are nested (bounds the model)

ASSUME CodecAssumption ==
  /\ Counts \subseteq Nat /\ Lengths \subseteq Nat /\ BitLens \subseteq Nat
  /\ MaxNesting \in Nat

VARIABLES
  activity, \* "write", "read", or "lost": reading is out of step
  todo,     \* the fields that are still to be written, or read
  stream,   \* the cells that were written
  size,     \* how many bytes they take
  received  \* what was read: the fields' kinds and values

codecVars == <<activity, todo, stream, size, received>>

-----------------------------------------------------------------------------
(* Fields: a value of a fixed width, or one that decides what follows it.    *)

\* An opaque value of w bytes.
U(w) == [kind |-> "opaque", w |-> w]

\* A value of w bytes that encode looks at.
Fixed(w, values) == [kind |-> "fixed", w |-> w, values |-> values]

\* A PeerAddress.
Address == [kind |-> "address"]

\* A length of w bytes, and as many bytes of text.  What is written with a length of
\* one byte is short: names, and a data_url that is made of an address and a port.
Text(w) == [kind |-> "text", w |-> w,
            values |-> IF w = 1 THEN Lengths \cap (0 .. 255) ELSE Lengths]

\* A number of bits, and n bit vectors of so many.
Bits(n) == [kind |-> "bits", w |-> 2, values |-> BitLens, n |-> n]

\* A number of elements, and these: MessageVectorArray.
Vec(L, counts) == [kind |-> "vector", w |-> 4, values |-> counts, of |-> L]

\* A type id, and the layout it selects or, for ids of which others are
\* examples, another one.
Variant(types, other, others) ==
  [kind |-> "variant", w |-> 1, values |-> DOMAIN types \cup others,
   of |-> types, other |-> other]

\* The layouts of the ids from 0 on, and one layout for each of some ids.
ById(layouts) == [id \in 0 .. Len(layouts) - 1 |-> layouts[id + 1]]
Each(ids, L) == [id \in ids |-> L]

\* The type id of a Clarity value, and the value; 15 is an example of the ids that
\* are not known.  depth is how deep values may be nested in it.
Clarity(depth) ==
  [kind |-> "clarity", w |-> 1, depth |-> depth,
   values |-> IF depth = 0 THEN (0 .. 15) \ {7, 8, 10, 11, 12} ELSE 0 .. 15]

\* What can never be read.
Throws == [kind |-> "throws"]

StandardPrincipal == <<U(1), U(20)>>
ContractName == <<Text(1)>>
ContractPrincipal == StandardPrincipal \o ContractName

ClarityValue(id, depth) ==
  LET inner == Clarity(depth - 1)
  IN  CASE id \in {0, 1} -> <<U(16)>>
        [] id \in {2, 13, 14} -> <<Text(4)>>
        [] id = 5 -> StandardPrincipal
        [] id = 6 -> ContractPrincipal
        [] id \in {7, 8, 10} -> <<inner>>
        [] id = 11 -> <<Vec(<<inner>>, Counts)>>
        [] id = 12 -> <<Vec(<<Text(1), inner>>, Counts)>>
        [] OTHER -> <<>>

Bytes8(bits) == (bits + 7) \div 8

Copies(L, n) == [i \in 1 .. n * Len(L) |-> L[((i - 1) % Len(L)) + 1]]

\* The layout of what follows value v of field f.
Following(f, v) ==
  CASE f.kind = "text" -> IF v = 0 THEN <<>> ELSE <<U(v)>>
    [] f.kind = "bits" -> IF v = 0 THEN <<>> ELSE [i \in 1 .. f.n |-> U(Bytes8(v))]
    [] f.kind = "vector" -> Copies(f.of, v)
    [] f.kind = "variant" -> IF v \in DOMAIN f.of THEN f.of[v] ELSE f.other
    [] f.kind = "clarity" -> ClarityValue(v, f.depth)
    [] OTHER -> <<>>

\* An address is written in one of two forms: 12 bytes of prefix and 4 bytes, or
\* as many times 2 bytes as the text has parts.  Either way 16 bytes are read.
AddressWidth(a) == IF a = Compressed THEN 14 ELSE 16
WriteWidth(f, v) == IF f.kind = "address" THEN AddressWidth(v) ELSE f.w
ReadWidth(f) == IF f.kind = "address" THEN 16 ELSE f.w

-----------------------------------------------------------------------------
(* Layouts, as decode reads them and, where encode is implemented, as it     *)
(* writes them.                                                              *)

PreambleReads == <<U(4), U(4), U(4), U(8), U(32), U(8), U(32), U(4), U(65), U(4)>>
PreambleWrites == <<U(4), U(4), U(4), U(8), U(32), U(8), U(32), U(4), U(65), U(4)>>
PREAMBLE_BYTE_SIZE == 165

NeighborAddressReads == <<Address, U(2), U(20)>>
NeighborAddressWrites == <<Address, U(2), U(20)>>

RelayDataReads == NeighborAddressReads \o <<U(4)>>
RelayDataWrites == NeighborAddressWrites \o <<U(4)>>

HandshakeDataReads == <<Address, U(2), U(2), U(33), U(8), Text(1)>>
HandshakeDataWrites == <<Address, U(2), U(2), U(33), U(8), Text(1)>>

HandshakeReads == HandshakeDataReads
HandshakeWrites == HandshakeDataWrites

HandshakeAcceptReadsMutant == <<U(4)>> \o HandshakeDataReads

HandshakeAcceptReads == HandshakeDataReads \o <<U(4)>>

HandshakeAcceptWrites == HandshakeDataWrites \o <<U(4)>>

NeighborsReads == <<Vec(NeighborAddressReads, Counts)>>
NeighborsWrites == <<Vec(NeighborAddressWrites, Counts)>>

GetBlocksInvReads == <<U(20), U(2)>>
GetBlocksInvWrites == <<U(20), U(2)>>

BlocksInvReads == <<Bits(2)>>
BlocksInvWrites == <<Bits(2)>>

\* The number of cycles is told apart at the limit that encode checks.
GetPoxInvReads == <<U(20), Fixed(2, {4096, 4097})>>
GetPoxInvWrites == <<U(20), Fixed(2, {4096, 4097})>>

PoxInvReads == <<Bits(1)>>
PoxInvWrites == <<Bits(1)>>

AvailableHashReads == <<U(20), U(32)>>
AvailableHashWrites == <<U(20), U(32)>>

BlocksAvailableReads == <<Vec(AvailableHashReads, Counts \cup {32, 33})>>
BlocksAvailableWrites == <<Vec(AvailableHashWrites, Counts \cup {32, 33})>>

MicroblocksAvailableReads == <<Vec(AvailableHashReads, Counts \cup {32, 33})>>
MicroblocksAvailableWrites == <<Vec(AvailableHashWrites, Counts \cup {32, 33})>>

NackReads == <<U(4)>>
NackWrites == <<U(4)>>

PingReads == <<U(4)>>
PingWrites == <<U(4)>>

PongReads == <<U(4)>>
PongWrites == <<U(4)>>

NatPunchRequestReads == <<U(4)>>
NatPunchRequestWrites == <<U(4)>>

NatPunchReplyReads == <<Address, U(2), U(4)>>
NatPunchReplyWrites == <<Address, U(2), U(4)>>

-----------------------------------------------------------------------------
(* Blocks and transactions are only ever decoded (encode throws): what peers *)
(* send is laid out as the fields of these classes are described.  Ids that   *)
(* are not listed select the other branch of the code.                       *)

Asset == <<U(1), U(20), Text(1), Text(1)>>

MicroblockHeader == <<U(1), U(2), U(32), U(32), U(65)>>

\* recipient_type: 5 for a standard principal, else a contract.
TokenTransferPayload == <<Variant(Each({5}, StandardPrincipal), ContractPrincipal, {6}),
                          U(8), U(34)>>
SmartContractPayload == ContractName \o <<Text(4)>>
ContractCallPayload ==
  ContractPrincipal \o <<Text(1), Vec(<<Clarity(MaxNesting)>>, Counts)>>
PoisonMicroblockPayload == MicroblockHeader \o MicroblockHeader
CoinbasePayload == <<U(32)>>
CoinbasePayToAltPayload == <<U(32), Clarity(MaxNesting)>>
VersionedSmartContractPayload == <<U(1)>> \o SmartContractPayload

\* principal_type: 2 for a standard principal, else a contract.
ConditionPrincipal == Variant(Each({2}, StandardPrincipal), ContractPrincipal, {3})
StxPostCondition == <<ConditionPrincipal, U(1), U(8)>>
FungibleTokenPostCondition == <<ConditionPrincipal>> \o Asset \o <<U(1), U(8)>>
NonFungibleTokenPostCondition ==
  <<ConditionPrincipal>> \o Asset \o <<Clarity(MaxNesting), U(1)>>
PostConditionVec ==
  Vec(<<Variant(ById(<<StxPostCondition, FungibleTokenPostCondition,
                     NonFungibleTokenPostCondition>>), <<>>, {3})>>, Counts)

SinglesigSpendingCondition == <<U(20), U(8), U(8), U(1), U(65)>>
MultisigAuthorizationField == <<Variant(Each({0, 1}, <<U(33)>>), <<U(65)>>, {2, 3})>>
MultisigSpendingCondition ==
  <<U(20), U(8), U(8), Vec(MultisigAuthorizationField, Counts), U(2)>>
SpendingCondition ==
  Variant(Each({1, 3}, MultisigSpendingCondition), SinglesigSpendingCondition, {0, 2})

\* authorization_type: 5 for a sponsored transaction, else a standard one.
Authorization ==
  Variant(Each({5}, <<SpendingCondition, SpendingCondition>>),
          <<SpendingCondition>>, {4})

Payload ==
  Variant(ById(<<TokenTransferPayload, SmartContractPayload, ContractCallPayload,
                 PoisonMicroblockPayload, CoinbasePayload, CoinbasePayToAltPayload,
                 VersionedSmartContractPayload>>), <<>>, {7})

StacksTransaction == <<U(1), U(4), Authorization, U(1), U(1), PostConditionVec, Payload>>

StacksBlock == <<U(1), U(16), U(80), U(32), U(32), U(2), U(32), U(32), U(20),
                 Vec(StacksTransaction, Counts)>>
AnchoredStacksBlock == <<U(20)>> \o StacksBlock
StacksMicroblock == MicroblockHeader \o <<Vec(StacksTransaction, Counts)>>

Blocks == <<Vec(AnchoredStacksBlock, Counts)>>
Microblocks == <<U(32), Vec(StacksMicroblock, Counts)>>
Transaction == StacksTransaction

-----------------------------------------------------------------------------
\* StacksMessageTypedContainer: the layout of each container type.
ContainerReads ==
  Variant(ById(<<HandshakeReads, HandshakeAcceptReads, <<>>, <<>>, NeighborsReads,
                 GetBlocksInvReads, BlocksInvReads, GetPoxInvReads, PoxInvReads,
                 BlocksAvailableReads, MicroblocksAvailableReads, Blocks, Microblocks,
                 Transaction, NackReads, PingReads, PongReads,
                 NatPunchRequestReads, NatPunchReplyReads>>), <<Throws>>, {})

ContainerWrites ==
  Variant(ById(<<HandshakeWrites, HandshakeAcceptWrites, <<>>, <<>>, NeighborsWrites,
                 GetBlocksInvWrites, BlocksInvWrites, GetPoxInvWrites, PoxInvWrites,
                 BlocksAvailableWrites, MicroblocksAvailableWrites, Blocks, Microblocks,
                 Transaction, NackWrites, PingWrites, PongWrites,
                 NatPunchRequestWrites, NatPunchReplyWrites>>), <<Throws>>, {})

EnvelopeReads == PreambleReads \o <<Vec(RelayDataReads, Counts), ContainerReads>>
EnvelopeWrites == PreambleWrites \o <<Vec(RelayDataWrites, Counts), ContainerWrites>>

-----------------------------------------------------------------------------
(* Writing and reading.                                                      *)

\* What a message may hold in field f.  Opaque values are told apart by where
\* they begin.
MayHold(f) ==
  CASE f.kind = "opaque" -> {size}
    [] f.kind = "address" -> Addresses
    [] OTHER -> f.values

CodecInit ==
  /\ activity = "write"
  /\ todo = EnvelopeWrites
  /\ stream = <<>> /\ size = 0
  /\ received = <<>>

\* One field of the message is encoded.
WriteField ==
  /\ activity = "write" /\ todo # <<>>
  /\ LET f == Head(todo)
     IN  \E v \in MayHold(f) :
           /\ stream' = Append(stream, [kind |-> f.kind, at |-> size,
                                        w |-> WriteWidth(f, v), v |-> v])
           /\ size' = size + WriteWidth(f, v)
           /\ todo' = Following(f, v) \o Tail(todo)
  /\ UNCHANGED <<activity, received>>

\* encode throws beyond these limits: BlocksInv, GetPoxInv, (Micro)BlocksAvailable.
\* The cells of the payload begin with that of its type.
WithinLimits ==
  LET type == stream[12].v
  IN  /\ type = 6 => stream[13].v <= 4096
      /\ type = 7 => stream[14].v <= 4096
      /\ type \in {9, 10} => stream[13].v <= 32

\* sign throws on a relayed message (its eleventh cell is the number of relayers);
\* blocks and transactions are not written by this program, nor could they be:
\* encode of what transactions consist of throws.
Sendable == stream[11].v = 0 /\ stream[12].v \notin {11, 12, 13} /\ WithinLimits

\* sign: payload_len, the last field of the preamble, is set to the length of
\* what follows the preamble.  From then on the stream is only read.
Signed ==
  /\ stream' = [stream EXCEPT ![10].v = size - stream[11].at]
  /\ activity' = "read"
  /\ todo' = EnvelopeReads
  /\ UNCHANGED <<size, received>>

Send ==
  /\ activity = "write" /\ todo = <<>>
  /\ Sendable
  /\ Signed

\* A peer sends what this program only reads.  Its payload_len counts the
\* relayers, which is what the reader takes it for.
PeerSends ==
  /\ activity = "write" /\ todo = <<>>
  /\ ~Sendable
  /\ Signed

\* One field of the message is decoded, from the cell that comes next if it has the
\* width of the field.
ReadField ==
  /\ activity = "read" /\ todo # <<>>
  /\ LET f == Head(todo)
         next == Len(received) + 1
         v == stream[next].v
     IN  IF /\ f.kind # "throws"
            /\ next \in DOMAIN stream
            /\ stream[next].w = ReadWidth(f)
         THEN /\ received' = Append(received, [kind |-> f.kind, v |-> v])
              /\ todo' = Following(f, v) \o Tail(todo)
              /\ UNCHANGED activity
         ELSE activity' = "lost" /\ UNCHANGED <<received, todo>>
  /\ UNCHANGED <<stream, size>>

CodecNext == WriteField \/ Send \/ PeerSends \/ ReadField

CodecSpec == CodecInit /\ [][CodecNext]_codecVars

-----------------------------------------------------------------------------
(* Properties *)

\* What was sent is what is decoded, of every type and with every choice that a
\* message leaves open: no read is ever out of step, every field has the meaning
\* and the value it was written with, and decoding stops where the next message
\* begins.  All of the message is then the BYTE_SIZE of a preamble and the
\* payload_len that was read, as the reader takes for granted (peer-handler.ts,
\* createSocketDataReader).
DecodesWhole ==
  /\ activity # "lost"
  /\ \A i \in DOMAIN received :
       received[i] = [kind |-> stream[i].kind, v |-> stream[i].v]
  /\ activity = "read" /\ todo = <<>> =>
       /\ Len(received) = Len(stream)
       /\ size = PREAMBLE_BYTE_SIZE + received[10].v

\* The comment in peer-address.ts: an address is a "(16-byted) fixed-length
\* container".
AddressHas16Bytes ==
  \A i \in DOMAIN stream : stream[i].kind = "address" => stream[i].w = 16
=============================================================================
