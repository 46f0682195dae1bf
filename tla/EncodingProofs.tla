--------------------------- MODULE EncodingProofs ---------------------------
(***************************************************************************)
(* What is written is what is read, for any lengths, depths and bytes: a   *)
(* message of the codec, field after field, and the bytes of a             *)
(* ResizableByteStream, which is a file of maxSize bytes.                  *)
(***************************************************************************)
EXTENDS ByteStream, Codec, SequenceTheorems, TLAPS

\* A function on the first n positive numbers is a sequence of length n.
LEMMA FunctionIsSequence ==
  ASSUME NEW S, NEW n \in Nat, NEW f \in [1 .. n -> S]
  PROVE  f \in Seq(S) /\ Len(f) = n
<1>1. f \in Seq(S)
  BY SeqDef
<1>2. Len(f) \in Nat /\ 1 .. n = 1 .. Len(f)
  BY <1>1, LenProperties
<1> QED
  BY <1>1, <1>2

-----------------------------------------------------------------------------
(* The fields that occur, and what may follow them.                          *)

Opaque == {U(n) : n \in Nat}

Variants ==
  {Variant(Each({5}, StandardPrincipal), ContractPrincipal, {6}), ConditionPrincipal,
   Variant(ById(<<StxPostCondition, FungibleTokenPostCondition,
                  NonFungibleTokenPostCondition>>), <<>>, {3}),
   Variant(Each({0, 1}, <<U(33)>>), <<U(65)>>, {2, 3}),
   SpendingCondition, Authorization, Payload, ContainerWrites}

Vectors ==
  {Vec(NeighborAddressWrites, Counts), Vec(RelayDataWrites, Counts),
   Vec(AvailableHashWrites, Counts \cup {32, 33}), PostConditionVec,
   Vec(MultisigAuthorizationField, Counts), Vec(StacksTransaction, Counts),
   Vec(AnchoredStacksBlock, Counts), Vec(StacksMicroblock, Counts)}

Clarities ==
  UNION {{Clarity(d), Vec(<<Clarity(d)>>, Counts), Vec(<<Text(1), Clarity(d)>>, Counts)} :
           d \in Nat}

Fields ==
  Opaque \cup {Address, Fixed(2, {4096, 4097}), Text(1), Text(4), Bits(1), Bits(2)}
    \cup Variants \cup Vectors \cup Clarities

Kinds == {"opaque", "fixed", "address", "text", "bits", "vector", "variant", "clarity"}

\* The width of a field is known, unless it is an address, and so is how reading goes
\* on after each of its values: with fields of S.
Admissible(f, S) ==
  /\ f.kind \in Kinds
  /\ f.kind # "address" => f.w \in Nat
  /\ f.kind \in {"opaque", "address"} => \A v : Following(f, v) = <<>>
  /\ f.kind \notin {"opaque", "address"} =>
       \A v \in f.values : v \in Nat /\ Following(f, v) \in Seq(S)

\* Nothing follows from an opaque value.
LEMMA OpaqueAdmissible ==
  ASSUME NEW S, NEW n \in Nat
  PROVE  Admissible(U(n), S)
  BY DEF Admissible, U, Following, Kinds

\* Nothing follows from an address.
LEMMA AddressAdmissible ==
  ASSUME NEW S
  PROVE  Admissible(Address, S)
  BY DEF Admissible, Address, Following, Kinds

\* Nothing follows from the number of cycles.
LEMMA FixedAdmissible ==
  ASSUME NEW S
  PROVE  Admissible(Fixed(2, {4096, 4097}), S)
  BY DEF Admissible, Fixed, Following, Kinds

\* Opaque bytes follow the length of a text.
LEMMA TextAdmissible ==
  ASSUME NEW S, Opaque \subseteq S, NEW w \in Nat
  PROVE  Admissible(Text(w), S)
<1>1. \A v \in Lengths : v \in Nat /\ U(v) \in S
  BY CodecAssumption DEF Opaque
<1>2. \A v \in Lengths : Following(Text(w), v) \in Seq(S)
  BY <1>1 DEF Following, Text
<1>3. Text(w).values \subseteq Lengths /\ Text(w).kind = "text" /\ Text(w).w = w
  BY DEF Text
<1> QED
  BY <1>1, <1>2, <1>3 DEF Admissible, Kinds

\* Opaque bytes follow the length of bit vectors.
LEMMA BitsAdmissible ==
  ASSUME NEW S, Opaque \subseteq S, NEW n \in Nat
  PROVE  Admissible(Bits(n), S)
<1>1. \A v \in BitLens : v \in Nat /\ U(Bytes8(v)) \in S
  BY CodecAssumption DEF Opaque, Bytes8
<1>2. ASSUME NEW v \in BitLens PROVE Following(Bits(n), v) \in Seq(S)
  <2>1. [i \in 1 .. n |-> U(Bytes8(v))] \in [1 .. n -> S]
    BY <1>1
  <2>2. [i \in 1 .. n |-> U(Bytes8(v))] \in Seq(S)
    BY <2>1, FunctionIsSequence
  <2> QED
    BY <2>2 DEF Following, Bits
<1> QED
  BY <1>1, <1>2 DEF Admissible, Bits, Kinds

\* The elements of a vector, one after the other.
LEMMA CopiesAreSequences ==
  ASSUME NEW S, NEW L \in Seq(S), NEW n \in Nat
  PROVE  Copies(L, n) \in Seq(S)
<1> DEFINE k == Len(L)
<1>1. k \in Nat /\ n * k \in Nat
  OBVIOUS
<1>2. ASSUME NEW i \in 1 .. n * k PROVE L[((i - 1) % k) + 1] \in S
  <2>1. k # 0
    BY <1>1, <1>2
  <2>2. i - 1 \in Nat /\ k \in Nat \ {0}
    BY <1>1, <2>1
  <2>3. (i - 1) % k \in 0 .. k - 1
    BY <2>2
  <2>4. ((i - 1) % k) + 1 \in 1 .. Len(L)
    BY <2>3, <1>1
  <2> QED
    BY <2>4, ElementOfSeq
<1>3. Copies(L, n) \in [1 .. n * k -> S]
  BY <1>2 DEF Copies
<1> QED
  BY <1>1, <1>3, FunctionIsSequence

\* Elements of its layout follow the length of a vector.
LEMMA VectorAdmissible ==
  ASSUME NEW S, NEW L \in Seq(S), NEW counts \in SUBSET Nat
  PROVE  Admissible(Vec(L, counts), S)
<1>1. \A v \in counts : Following(Vec(L, counts), v) \in Seq(S)
  BY CopiesAreSequences DEF Following, Vec
<1> QED
  BY <1>1 DEF Admissible, Vec, Kinds

\* The layout that an id selects, or the other one, follows it.
LEMMA VariantAdmissible ==
  ASSUME NEW S, NEW types, NEW other, NEW others \in SUBSET Nat,
         DOMAIN types \subseteq Nat,
         \A id \in DOMAIN types : types[id] \in Seq(S),
         others # {} => other \in Seq(S)
  PROVE  Admissible(Variant(types, other, others), S)
<1>1. \A v \in DOMAIN types \cup others : Following(Variant(types, other, others), v) \in Seq(S)
  BY DEF Following, Variant
<1> QED
  BY <1>1 DEF Admissible, Variant, Kinds

\* So it is with one layout for some ids,
LEMMA EachAdmissible ==
  ASSUME NEW S, NEW L \in Seq(S), NEW other \in Seq(S),
         NEW ids \in SUBSET Nat, NEW others \in SUBSET Nat
  PROVE  Admissible(Variant(Each(ids, L), other, others), S)
<1>1. DOMAIN Each(ids, L) = ids /\ \A id \in ids : Each(ids, L)[id] \in Seq(S)
  BY DEF Each
<1> QED
  BY <1>1, VariantAdmissible

\* and with a layout for each of the first ids.
LEMMA ByIdAdmissible ==
  ASSUME NEW S, NEW layouts \in Seq(Seq(S)), NEW other,
         NEW others \in SUBSET Nat, others # {} => other \in Seq(S)
  PROVE  Admissible(Variant(ById(layouts), other, others), S)
<1>1. ASSUME NEW id \in 0 .. Len(layouts) - 1 PROVE layouts[id + 1] \in Seq(S)
  <2>1. id + 1 \in 1 .. Len(layouts)
    OBVIOUS
  <2> QED
    BY <2>1, ElementOfSeq
<1>2. DOMAIN ById(layouts) = 0 .. Len(layouts) - 1
      /\ \A id \in DOMAIN ById(layouts) : ById(layouts)[id] \in Seq(S)
  BY <1>1 DEF ById
<1>3. DOMAIN ById(layouts) \subseteq Nat
  BY <1>2
<1> QED
  BY <1>2, <1>3, VariantAdmissible

\* Every Clarity value is laid out in fields that occur, those inside it nested less.
LEMMA ClarityAdmissible ==
  ASSUME NEW d \in Nat
  PROVE  Admissible(Clarity(d), Fields)
<1>1. \A n \in Nat : U(n) \in Fields
  BY DEF Fields, Opaque
<1>2. Text(1) \in Fields /\ Text(4) \in Fields
  BY DEF Fields
<1>3. ASSUME d # 0
      PROVE  /\ Clarity(d - 1) \in Fields
             /\ Vec(<<Clarity(d - 1)>>, Counts) \in Fields
             /\ Vec(<<Text(1), Clarity(d - 1)>>, Counts) \in Fields
  <2>1. d - 1 \in Nat
    BY <1>3
  <2> QED
    BY <2>1 DEF Fields, Clarities
<1>4. StandardPrincipal \in Seq(Fields) /\ ContractName \in Seq(Fields)
  BY <1>1, <1>2 DEF StandardPrincipal, ContractName
<1>5. ContractPrincipal \in Seq(Fields)
  BY <1>4, ConcatProperties DEF ContractPrincipal
<1>6. ASSUME NEW v \in Clarity(d).values PROVE v \in Nat /\ ClarityValue(v, d) \in Seq(Fields)
  <2>1. v \in 0 .. 15 /\ (v \in {7, 8, 10, 11, 12} => d # 0)
    BY <1>6 DEF Clarity
  <2> HIDE DEF Fields
  <2> DEFINE inner == Clarity(d - 1)
  <2>2. CASE v \in {7, 8, 10}
    BY <1>3, <2>1, <2>2 DEF ClarityValue
  <2>3. CASE v = 11
    BY <1>3, <2>1, <2>3 DEF ClarityValue
  <2>4. CASE v = 12
    BY <1>3, <2>1, <2>4 DEF ClarityValue
  <2>5. CASE v \in {0, 1}
    BY <1>1, <2>5 DEF ClarityValue
  <2>6. CASE v \in {2, 13, 14}
    BY <1>2, <2>6 DEF ClarityValue
  <2>7. CASE v \in {5, 6}
    BY <1>4, <1>5, <2>7 DEF ClarityValue
  <2>8. CASE v \in {3, 4, 9, 15}
    <3>1. /\ v \notin {0, 1} /\ v \notin {2, 13, 14} /\ v # 5 /\ v # 6
          /\ v \notin {7, 8, 10} /\ v # 11 /\ v # 12
      BY <2>8
    <3>2. ClarityValue(v, d) = <<>>
      BY <3>1, Zenon DEF ClarityValue
    <3>3. <<>> \in Seq(Fields)
      BY EmptySeq, Zenon
    <3> QED
      BY <2>8, <3>2, <3>3
  <2> QED
    BY <2>1, <2>2, <2>3, <2>4, <2>5, <2>6, <2>7, <2>8
<1>7. \A v : Following(Clarity(d), v) = ClarityValue(v, d)
  BY DEF Following, Clarity
<1>8. Clarity(d).kind = "clarity" /\ Clarity(d).w = 1
  BY DEF Clarity
<1> HIDE DEF Fields
<1> QED
  BY <1>6, <1>7, <1>8 DEF Admissible, Kinds

\* The layouts, of fields that occur.
LEMMA Occur ==
  /\ \A n \in Nat : U(n) \in Fields
  /\ Address \in Fields /\ Text(1) \in Fields /\ Text(4) \in Fields
  /\ Fixed(2, {4096, 4097}) \in Fields /\ Bits(1) \in Fields /\ Bits(2) \in Fields
  /\ Clarity(MaxNesting) \in Fields /\ Vec(<<Clarity(MaxNesting)>>, Counts) \in Fields
  /\ Variants \subseteq Fields /\ Vectors \subseteq Fields
  BY CodecAssumption DEF Fields, Opaque, Clarities

\* Principals and assets (principal.ts, asset.ts).
LEMMA PrincipalLayouts ==
  /\ StandardPrincipal \in Seq(Fields) /\ ContractName \in Seq(Fields)
  /\ ContractPrincipal \in Seq(Fields) /\ Asset \in Seq(Fields)
<1> HIDE DEF Fields
<1>1. StandardPrincipal \in Seq(Fields) /\ ContractName \in Seq(Fields)
  BY Occur DEF StandardPrincipal, ContractName
<1>2. ContractPrincipal \in Seq(Fields)
  BY <1>1, ConcatProperties DEF ContractPrincipal
<1>3. Asset \in Seq(Fields)
  BY Occur DEF Asset
<1> QED
  BY <1>1, <1>2, <1>3

\* Post-conditions (transaction-post-condition.ts).
LEMMA ConditionLayouts ==
  /\ StxPostCondition \in Seq(Fields)
  /\ FungibleTokenPostCondition \in Seq(Fields)
  /\ NonFungibleTokenPostCondition \in Seq(Fields)
<1>1. ConditionPrincipal \in Fields
  BY Occur DEF Variants
<1>2. StxPostCondition \in Seq(Fields)
  BY <1>1, Occur DEF StxPostCondition
<1>3. <<ConditionPrincipal>> \in Seq(Fields) /\ <<U(1), U(8)>> \in Seq(Fields)
      /\ <<Clarity(MaxNesting), U(1)>> \in Seq(Fields)
  BY <1>1, Occur
<1>4. <<ConditionPrincipal>> \o Asset \in Seq(Fields)
  BY <1>3, PrincipalLayouts, ConcatProperties
<1> QED
  BY <1>2, <1>3, <1>4, ConcatProperties
  DEF FungibleTokenPostCondition, NonFungibleTokenPostCondition

\* Payloads (transaction-payload.ts).
LEMMA PayloadLayouts ==
  /\ TokenTransferPayload \in Seq(Fields) /\ SmartContractPayload \in Seq(Fields)
  /\ ContractCallPayload \in Seq(Fields) /\ PoisonMicroblockPayload \in Seq(Fields)
  /\ CoinbasePayload \in Seq(Fields) /\ CoinbasePayToAltPayload \in Seq(Fields)
  /\ VersionedSmartContractPayload \in Seq(Fields)
  /\ MicroblockHeader \in Seq(Fields)
<1>1. Variant(Each({5}, StandardPrincipal), ContractPrincipal, {6}) \in Fields
  BY Occur DEF Variants
<1>2. TokenTransferPayload \in Seq(Fields)
  BY <1>1, Occur DEF TokenTransferPayload
<1>3. MicroblockHeader \in Seq(Fields) /\ CoinbasePayload \in Seq(Fields)
      /\ CoinbasePayToAltPayload \in Seq(Fields)
  BY Occur DEF MicroblockHeader, CoinbasePayload, CoinbasePayToAltPayload
<1>4. PoisonMicroblockPayload \in Seq(Fields)
  BY <1>3, ConcatProperties DEF PoisonMicroblockPayload
<1>5. <<Text(4)>> \in Seq(Fields) /\ <<U(1)>> \in Seq(Fields)
      /\ <<Text(1), Vec(<<Clarity(MaxNesting)>>, Counts)>> \in Seq(Fields)
  BY Occur
<1>6. SmartContractPayload \in Seq(Fields) /\ ContractCallPayload \in Seq(Fields)
  BY <1>5, PrincipalLayouts, ConcatProperties DEF SmartContractPayload, ContractCallPayload
<1>7. VersionedSmartContractPayload \in Seq(Fields)
  BY <1>5, <1>6, ConcatProperties DEF VersionedSmartContractPayload
<1> QED
  BY <1>2, <1>3, <1>4, <1>6, <1>7

\* Transactions, blocks and microblocks.
LEMMA BlockLayouts ==
  /\ SinglesigSpendingCondition \in Seq(Fields)
  /\ MultisigAuthorizationField \in Seq(Fields)
  /\ MultisigSpendingCondition \in Seq(Fields)
  /\ StacksTransaction \in Seq(Fields)
  /\ AnchoredStacksBlock \in Seq(Fields) /\ StacksMicroblock \in Seq(Fields)
  /\ Blocks \in Seq(Fields) /\ Microblocks \in Seq(Fields) /\ Transaction \in Seq(Fields)
<1>1. SinglesigSpendingCondition \in Seq(Fields)
  BY Occur DEF SinglesigSpendingCondition
<1>2. MultisigAuthorizationField \in Seq(Fields)
  BY Occur DEF MultisigAuthorizationField, Variants
<1>3. MultisigSpendingCondition \in Seq(Fields)
  <2>1. Vec(MultisigAuthorizationField, Counts) \in Fields
    BY Occur DEF Vectors
  <2> QED
    BY <2>1, Occur DEF MultisigSpendingCondition
<1>4. Authorization \in Fields /\ Payload \in Fields /\ PostConditionVec \in Fields
      /\ Vec(StacksTransaction, Counts) \in Fields
      /\ Vec(AnchoredStacksBlock, Counts) \in Fields
      /\ Vec(StacksMicroblock, Counts) \in Fields
  BY Occur DEF Variants, Vectors
<1>5. StacksTransaction \in Seq(Fields)
  BY <1>4, Occur DEF StacksTransaction
<1>6. StacksBlock \in Seq(Fields)
  BY <1>4, Occur DEF StacksBlock
<1>7. <<U(20)>> \in Seq(Fields) /\ <<Vec(StacksTransaction, Counts)>> \in Seq(Fields)
  BY <1>4, Occur
<1>8. AnchoredStacksBlock \in Seq(Fields) /\ StacksMicroblock \in Seq(Fields)
  BY <1>6, <1>7, PayloadLayouts, ConcatProperties DEF AnchoredStacksBlock, StacksMicroblock
<1>9. Blocks \in Seq(Fields) /\ Microblocks \in Seq(Fields)
  BY <1>4, Occur DEF Blocks, Microblocks
<1> QED
  BY <1>1, <1>2, <1>3, <1>5, <1>8, <1>9 DEF Transaction

\* The messages that the program writes itself.
LEMMA MessageLayouts ==
  /\ NeighborAddressWrites \in Seq(Fields) /\ RelayDataWrites \in Seq(Fields)
  /\ HandshakeWrites \in Seq(Fields) /\ HandshakeAcceptWrites \in Seq(Fields)
  /\ NeighborsWrites \in Seq(Fields) /\ GetBlocksInvWrites \in Seq(Fields)
  /\ BlocksInvWrites \in Seq(Fields) /\ GetPoxInvWrites \in Seq(Fields)
  /\ PoxInvWrites \in Seq(Fields) /\ AvailableHashWrites \in Seq(Fields)
  /\ BlocksAvailableWrites \in Seq(Fields) /\ MicroblocksAvailableWrites \in Seq(Fields)
  /\ NackWrites \in Seq(Fields) /\ PingWrites \in Seq(Fields) /\ PongWrites \in Seq(Fields)
  /\ NatPunchRequestWrites \in Seq(Fields) /\ NatPunchReplyWrites \in Seq(Fields)
<1>1. NeighborAddressWrites \in Seq(Fields) /\ HandshakeDataWrites \in Seq(Fields)
      /\ <<U(4)>> \in Seq(Fields)
  BY Occur DEF NeighborAddressWrites, HandshakeDataWrites
<1>2. RelayDataWrites \in Seq(Fields) /\ HandshakeAcceptWrites \in Seq(Fields)
  BY <1>1, ConcatProperties DEF RelayDataWrites, HandshakeAcceptWrites
<1>3. HandshakeWrites \in Seq(Fields)
  BY <1>1 DEF HandshakeWrites
<1>4. Vec(NeighborAddressWrites, Counts) \in Fields
      /\ Vec(AvailableHashWrites, Counts \cup {32, 33}) \in Fields
  BY Occur DEF Vectors
<1>5. NeighborsWrites \in Seq(Fields) /\ BlocksAvailableWrites \in Seq(Fields)
      /\ MicroblocksAvailableWrites \in Seq(Fields)
  BY <1>4 DEF NeighborsWrites, BlocksAvailableWrites, MicroblocksAvailableWrites
<1>6. GetBlocksInvWrites \in Seq(Fields) /\ BlocksInvWrites \in Seq(Fields)
      /\ GetPoxInvWrites \in Seq(Fields) /\ PoxInvWrites \in Seq(Fields)
      /\ AvailableHashWrites \in Seq(Fields)
  BY Occur DEF GetBlocksInvWrites, BlocksInvWrites, GetPoxInvWrites, PoxInvWrites,
     AvailableHashWrites
<1>7. NackWrites \in Seq(Fields) /\ PingWrites \in Seq(Fields) /\ PongWrites \in Seq(Fields)
      /\ NatPunchRequestWrites \in Seq(Fields) /\ NatPunchReplyWrites \in Seq(Fields)
  BY Occur DEF NackWrites, PingWrites, PongWrites, NatPunchRequestWrites, NatPunchReplyWrites
<1> QED
  BY <1>1, <1>2, <1>3, <1>5, <1>6, <1>7

\* The fields that occur are closed: only they follow their values.
LEMMA VariantsAdmissible == \A f \in Variants : Admissible(f, Fields)
<1> DEFINE Good(f) == Admissible(f, Fields)
<1>0. /\ {0, 1} \in SUBSET Nat /\ {2} \in SUBSET Nat /\ {5} \in SUBSET Nat
      /\ {1, 3} \in SUBSET Nat /\ {2, 3} \in SUBSET Nat /\ {0, 2} \in SUBSET Nat
      /\ {3} \in SUBSET Nat /\ {4} \in SUBSET Nat /\ {6} \in SUBSET Nat
      /\ {7} \in SUBSET Nat
  OBVIOUS
<1>1. Good(Variant(Each({5}, StandardPrincipal), ContractPrincipal, {6}))
  BY PrincipalLayouts, <1>0, EachAdmissible
<1>2. Good(ConditionPrincipal)
  BY PrincipalLayouts, <1>0, EachAdmissible DEF ConditionPrincipal
<1>3. Good(Variant(ById(<<StxPostCondition, FungibleTokenPostCondition,
                          NonFungibleTokenPostCondition>>), <<>>, {3}))
  <2> DEFINE conditions ==
        <<StxPostCondition, FungibleTokenPostCondition, NonFungibleTokenPostCondition>>
  <2>1. conditions \in Seq(Seq(Fields)) /\ <<>> \in Seq(Fields)
    BY ConditionLayouts
  <2> HIDE DEF conditions
  <2>2. Good(Variant(ById(conditions), <<>>, {3}))
    BY <1>0, <2>1, ByIdAdmissible
  <2> QED
    BY <2>2 DEF conditions
<1>4. Good(Variant(Each({0, 1}, <<U(33)>>), <<U(65)>>, {2, 3}))
  <2>1. <<U(33)>> \in Seq(Fields) /\ <<U(65)>> \in Seq(Fields)
    BY Occur
  <2> QED
    BY <2>1, <1>0, EachAdmissible
<1>5. Good(SpendingCondition)
  BY BlockLayouts, <1>0, EachAdmissible DEF SpendingCondition
<1>6. Good(Authorization)
  <2>1. SpendingCondition \in Fields
    BY Occur DEF Variants
  <2>2. <<SpendingCondition, SpendingCondition>> \in Seq(Fields)
        /\ <<SpendingCondition>> \in Seq(Fields)
    BY <2>1
  <2> QED
    BY <2>2, <1>0, EachAdmissible DEF Authorization
<1>7. Good(Payload)
  <2> DEFINE payloads ==
        <<TokenTransferPayload, SmartContractPayload, ContractCallPayload,
          PoisonMicroblockPayload, CoinbasePayload, CoinbasePayToAltPayload,
          VersionedSmartContractPayload>>
  <2>1. payloads \in Seq(Seq(Fields)) /\ <<>> \in Seq(Fields)
    BY PayloadLayouts
  <2>2. Payload = Variant(ById(payloads), <<>>, {7})
    BY DEF Payload
  <2> HIDE DEF payloads
  <2> QED
    BY <1>0, <2>1, <2>2, ByIdAdmissible
<1>8. Good(ContainerWrites)
  <2> DEFINE types ==
        <<HandshakeWrites, HandshakeAcceptWrites, <<>>, <<>>, NeighborsWrites,
          GetBlocksInvWrites, BlocksInvWrites, GetPoxInvWrites, PoxInvWrites,
          BlocksAvailableWrites, MicroblocksAvailableWrites, Blocks, Microblocks,
          Transaction, NackWrites, PingWrites, PongWrites,
          NatPunchRequestWrites, NatPunchReplyWrites>>
  <2>1. types \in Seq(Seq(Fields))
    BY MessageLayouts, BlockLayouts
  <2>2. ContainerWrites = Variant(ById(types), <<Throws>>, {})
    BY DEF ContainerWrites
  <2> HIDE DEF types
  <2> QED
    BY <1>0, <2>1, <2>2, ByIdAdmissible
<1> HIDE DEF Good
<1>9. \A f \in Variants : Good(f)
  BY <1>1, <1>2, <1>3, <1>4, <1>5, <1>6, <1>7, <1>8 DEF Variants
<1> QED
  BY <1>9 DEF Good

\* Every vector that occurs holds elements of fields that occur.
LEMMA VectorsAdmissible == \A f \in Vectors : Admissible(f, Fields)
<1> DEFINE Good(f) == Admissible(f, Fields)
<1>1. Counts \in SUBSET Nat /\ Counts \cup {32, 33} \in SUBSET Nat
  BY CodecAssumption
<1>2. \A L \in Seq(Fields) :
        Good(Vec(L, Counts)) /\ Good(Vec(L, Counts \cup {32, 33}))
  BY <1>1, VectorAdmissible
<1>3. Good(PostConditionVec)
  <2>1. Variant(ById(<<StxPostCondition, FungibleTokenPostCondition,
                       NonFungibleTokenPostCondition>>), <<>>, {3}) \in Fields
    BY Occur DEF Variants
  <2>2. <<Variant(ById(<<StxPostCondition, FungibleTokenPostCondition,
                         NonFungibleTokenPostCondition>>), <<>>, {3})>> \in Seq(Fields)
    BY <2>1
  <2> QED
    BY <1>2, <2>2 DEF PostConditionVec
<1> HIDE DEF Good
<1>4. \A f \in Vectors : Good(f)
  BY <1>2, <1>3, MessageLayouts, BlockLayouts DEF Vectors
<1> QED
  BY <1>4 DEF Good

\* Of every field that occurs, the width and what follows from it are known.
LEMMA FieldsAdmissible == \A f \in Fields : Admissible(f, Fields)
<1>1. Opaque \subseteq Fields
  BY DEF Fields
<1>2. \A f \in Opaque : Admissible(f, Fields)
  BY OpaqueAdmissible DEF Opaque
<1>3. \A f \in {Address, Fixed(2, {4096, 4097}), Text(1), Text(4), Bits(1), Bits(2)} :
        Admissible(f, Fields)
  BY <1>1, AddressAdmissible, FixedAdmissible, TextAdmissible, BitsAdmissible
<1>4. ASSUME NEW d \in Nat
      PROVE  /\ Admissible(Clarity(d), Fields)
             /\ Admissible(Vec(<<Clarity(d)>>, Counts), Fields)
             /\ Admissible(Vec(<<Text(1), Clarity(d)>>, Counts), Fields)
  <2>1. Clarity(d) \in Fields /\ Text(1) \in Fields
    BY DEF Fields, Clarities
  <2>2. <<Clarity(d)>> \in Seq(Fields) /\ <<Text(1), Clarity(d)>> \in Seq(Fields)
    BY <2>1
  <2>3. Counts \in SUBSET Nat
    BY CodecAssumption
  <2> QED
    BY <2>2, <2>3, VectorAdmissible, ClarityAdmissible
<1>5. \A f \in Clarities : Admissible(f, Fields)
  BY <1>4 DEF Clarities
<1> QED
  BY <1>2, <1>3, <1>5, VariantsAdmissible, VectorsAdmissible DEF Fields

-----------------------------------------------------------------------------
(* The message as a whole.                                                   *)

\* What is read is what is written: the two layouts of every message are the same.
LEMMA SameLayouts == EnvelopeReads = EnvelopeWrites
<1>1. NeighborAddressReads = NeighborAddressWrites /\ PreambleReads = PreambleWrites
      /\ AvailableHashReads = AvailableHashWrites
  BY DEF NeighborAddressReads, NeighborAddressWrites, PreambleReads, PreambleWrites,
     AvailableHashReads, AvailableHashWrites
<1>2. RelayDataReads = RelayDataWrites
  BY <1>1 DEF RelayDataReads, RelayDataWrites
<1>3. HandshakeReads = HandshakeWrites /\ HandshakeAcceptReads = HandshakeAcceptWrites
  BY DEF HandshakeReads, HandshakeWrites, HandshakeAcceptReads, HandshakeAcceptWrites,
     HandshakeDataReads, HandshakeDataWrites
<1>4. NeighborsReads = NeighborsWrites /\ GetBlocksInvReads = GetBlocksInvWrites
      /\ BlocksInvReads = BlocksInvWrites /\ GetPoxInvReads = GetPoxInvWrites
      /\ PoxInvReads = PoxInvWrites
  BY <1>1 DEF NeighborsReads, NeighborsWrites, GetBlocksInvReads, GetBlocksInvWrites,
     BlocksInvReads, BlocksInvWrites, GetPoxInvReads, GetPoxInvWrites, PoxInvReads,
     PoxInvWrites
<1>5. BlocksAvailableReads = BlocksAvailableWrites
      /\ MicroblocksAvailableReads = MicroblocksAvailableWrites
  BY <1>1 DEF BlocksAvailableReads, BlocksAvailableWrites, MicroblocksAvailableReads,
     MicroblocksAvailableWrites
<1>6. NackReads = NackWrites /\ PingReads = PingWrites /\ PongReads = PongWrites
      /\ NatPunchRequestReads = NatPunchRequestWrites
      /\ NatPunchReplyReads = NatPunchReplyWrites
  BY DEF NackReads, NackWrites, PingReads, PingWrites, PongReads, PongWrites,
     NatPunchRequestReads, NatPunchRequestWrites, NatPunchReplyReads, NatPunchReplyWrites
<1>7. ContainerReads = ContainerWrites
  BY <1>3, <1>4, <1>5, <1>6 DEF ContainerReads, ContainerWrites
<1> QED
  BY <1>1, <1>2, <1>7 DEF EnvelopeReads, EnvelopeWrites

\* A message begins with the ten fields of the preamble, and two fields follow them.
LEMMA EnvelopeShape ==
  /\ EnvelopeWrites \in Seq(Fields) /\ Len(EnvelopeWrites) = 12
  /\ \A i \in 1 .. 10 : EnvelopeWrites[i] = PreambleWrites[i]
  /\ \A i \in 1 .. 10 : PreambleWrites[i].kind = "opaque"
<1> DEFINE rest == <<Vec(RelayDataWrites, Counts), ContainerWrites>>
<1>1. PreambleWrites \in Seq(Fields) /\ Len(PreambleWrites) = 10
  BY Occur DEF PreambleWrites
<1>2. Vec(RelayDataWrites, Counts) \in Fields /\ ContainerWrites \in Fields
  BY Occur DEF Vectors, Variants
<1>3. rest \in Seq(Fields) /\ Len(rest) = 2
  BY <1>2
<1>4. EnvelopeWrites = PreambleWrites \o rest
  BY DEF EnvelopeWrites
<1>5. \A i \in 1 .. 10 : PreambleWrites[i].kind = "opaque"
  BY DEF PreambleWrites, U
<1>6. ASSUME NEW s \in Seq(Fields), NEW t \in Seq(Fields), Len(s) = 10, Len(t) = 2
      PROVE  /\ s \o t \in Seq(Fields) /\ Len(s \o t) = 12
             /\ \A i \in 1 .. 10 : (s \o t)[i] = s[i]
  <2>1. s \o t \in Seq(Fields) /\ Len(s \o t) = Len(s) + Len(t)
    BY ConcatProperties
  <2>2. ASSUME NEW i \in 1 .. 10 PROVE (s \o t)[i] = s[i]
    <3>1. i \in 1 .. Len(s) + Len(t) /\ i <= Len(s)
      BY <1>6
    <3> QED
      BY <3>1, ConcatProperties
  <2> QED
    BY <1>6, <2>1, <2>2
<1> HIDE DEF rest
<1>7. /\ PreambleWrites \o rest \in Seq(Fields) /\ Len(PreambleWrites \o rest) = 12
      /\ \A i \in 1 .. 10 : (PreambleWrites \o rest)[i] = PreambleWrites[i]
  BY <1>1, <1>3, <1>6, Zenon
<1> QED
  BY <1>4, <1>5, <1>7, Zenon

\* Where the cells of the preamble begin, and the first cell behind it.
Begins == <<0, 4, 8, 12, 20, 52, 60, 92, 96, 161, 165>>

\* Each cell of the preamble begins where the one before it ends.
LEMMA PreambleWidths ==
  ASSUME NEW i \in 1 .. 10
  PROVE  /\ Begins[i] \in Nat /\ Begins[i + 1] = Begins[i] + PreambleWrites[i].w
         /\ Begins[1] = 0 /\ Begins[11] = PREAMBLE_BYTE_SIZE
  BY DEF Begins, PreambleWrites, U, PREAMBLE_BYTE_SIZE

-----------------------------------------------------------------------------
(* The invariant.                                                            *)

Cell ==
  {c \in [kind : Kinds, at : Nat, w : Nat, v : Int \cup Addresses] :
     c.kind = "address" => c.v \in Addresses}

CodecTyped ==
  /\ activity \in {"write", "read", "lost"}
  /\ stream \in Seq(Cell) /\ size \in Nat
  /\ received \in Seq([kind : Kinds, v : Int \cup Addresses])
  /\ activity = "write" => todo \in Seq(Fields) /\ received = <<>>

\* The preamble takes the bytes it is said to take.
PreambleInPlace ==
  /\ \A i \in 1 .. 11 : i <= Len(stream) => stream[i].at = Begins[i]
  /\ Len(stream) <= 10 => size = Begins[Len(stream) + 1]

\* How writing went: T[i] are the fields that were left after the first i cells.  Each
\* cell comes from the first of the fields that were left before it.
Trail(T) ==
  /\ T[0] = EnvelopeWrites
  /\ \A i \in 1 .. Len(stream) :
       /\ T[i - 1] # <<>>
       /\ stream[i].kind = Head(T[i - 1]).kind
       /\ stream[i].w = WriteWidth(Head(T[i - 1]), stream[i].v)
       /\ T[i] = Following(Head(T[i - 1]), stream[i].v) \o Tail(T[i - 1])
  /\ \A i \in 0 .. 10 : i <= Len(stream) => T[i] = SubSeq(EnvelopeWrites, i + 1, 12)

\* The message has no address in its compressed spelling.
FullySpelled ==
  \A i \in DOMAIN stream : stream[i].kind = "address" => stream[i].v # Compressed

\* Writing is at the end of the trail, and reading goes the same way.
OnTrail(T) ==
  /\ activity = "write" => T[Len(stream)] = todo
  /\ activity # "write" =>
       /\ T[Len(stream)] = <<>> /\ Len(stream) >= 11
       /\ stream[10].v = size - PREAMBLE_BYTE_SIZE
  /\ activity = "read" =>
       /\ Len(received) <= Len(stream) /\ T[Len(received)] = todo
       /\ \A i \in 1 .. Len(received) :
            received[i] = [kind |-> stream[i].kind, v |-> stream[i].v]
  /\ activity = "lost" => ~FullySpelled

CodecInv ==
  /\ CodecTyped
  /\ PreambleInPlace
  /\ \E T : Trail(T) /\ OnTrail(T)

\* Before anything is written, the whole layout is left.
LEMMA CodecInitially == CodecInit => CodecInv
<1> SUFFICES ASSUME CodecInit PROVE CodecInv
  OBVIOUS
<1>1. stream = <<>> /\ Len(stream) = 0 /\ size = 0 /\ received = <<>> /\ activity = "write"
      /\ todo = EnvelopeWrites
  BY DEF CodecInit
<1>2. CodecTyped
  BY <1>1, EnvelopeShape DEF CodecTyped
<1>3. PreambleInPlace
  <2>1. Begins[1] = 0
    BY DEF Begins
  <2> QED
    BY <1>1, <2>1 DEF PreambleInPlace
<1> DEFINE T == [i \in {0} |-> EnvelopeWrites]
<1>4. Trail(T)
  <2>1. SubSeq(EnvelopeWrites, 1, 12) = EnvelopeWrites
    BY EnvelopeShape, SubSeqFull
  <2> QED
    BY <1>1, <2>1 DEF Trail
<1>5. OnTrail(T)
  BY <1>1 DEF OnTrail
<1> QED
  BY <1>2, <1>3, <1>4, <1>5 DEF CodecInv

\* The fields of the preamble come first.
LEMMA PreambleIsNext ==
  ASSUME NEW n \in Nat, n < 10
  PROVE  /\ Head(SubSeq(EnvelopeWrites, n + 1, 12)) = PreambleWrites[n + 1]
         /\ Tail(SubSeq(EnvelopeWrites, n + 1, 12)) = SubSeq(EnvelopeWrites, n + 2, 12)
<1>1. n + 1 \in 1 .. 12 /\ 12 \in n + 1 .. 12 /\ n + 1 \in 1 .. 10 /\ (n + 1) + 1 = n + 2
  OBVIOUS
<1>2. EnvelopeWrites \in Seq(Fields) /\ Len(EnvelopeWrites) = 12
  BY EnvelopeShape
<1>3. Head(SubSeq(EnvelopeWrites, n + 1, 12)) = EnvelopeWrites[n + 1]
      /\ Tail(SubSeq(EnvelopeWrites, n + 1, 12)) = SubSeq(EnvelopeWrites, (n + 1) + 1, 12)
  BY <1>1, <1>2, HeadTailOfSubSeq
<1>4. EnvelopeWrites[n + 1] = PreambleWrites[n + 1]
  BY <1>1, EnvelopeShape
<1> QED
  BY <1>1, <1>3, <1>4

\* Whether a cell is one of the preamble's.
LEMMA WithinPreamble == \A n \in Nat : n < 10 \/ n <= 10 => n \in 0 .. 10 /\ n <= n
  OBVIOUS

\* Writing a field goes one step further on the trail.
LEMMA WriteFieldKeeps ==
  ASSUME CodecInv, WriteField
  PROVE  CodecInv'
<1> DEFINE f == Head(todo)  n == Len(stream)
<1>1. PICK v \in MayHold(f) :
        /\ stream' = Append(stream, [kind |-> f.kind, at |-> size,
                                     w |-> WriteWidth(f, v), v |-> v])
        /\ size' = size + WriteWidth(f, v)
        /\ todo' = Following(f, v) \o Tail(todo)
  BY DEF WriteField
<1>2. /\ activity = "write" /\ todo # <<>> /\ activity' = "write"
      /\ received' = received
  BY DEF WriteField
<1>3. CodecTyped /\ PreambleInPlace
  BY DEF CodecInv
<1>4. todo \in Seq(Fields) /\ received = <<>> /\ n \in Nat /\ size \in Nat
      /\ stream \in Seq(Cell)
  BY <1>2, <1>3 DEF CodecTyped
<1>5. f \in Fields /\ Tail(todo) \in Seq(Fields) /\ Admissible(f, Fields)
  BY <1>2, <1>4, HeadTailProperties, FieldsAdmissible
<1> DEFINE c == [kind |-> f.kind, at |-> size, w |-> WriteWidth(f, v), v |-> v]
<1>6. /\ Following(f, v) \in Seq(Fields)
      /\ v \in Int \cup Addresses
      /\ f.kind = "address" => v \in Addresses
      /\ f.kind \in Kinds /\ WriteWidth(f, v) \in Nat
  <2>1. CASE f.kind = "opaque"
    <3>1. v = size /\ Following(f, v) = <<>> /\ f.w \in Nat
      BY <1>5, <2>1 DEF MayHold, Admissible
    <3>2. WriteWidth(f, v) = f.w
      BY <2>1 DEF WriteWidth
    <3>3. v \in Int \cup Addresses
      BY <1>4, <3>1
    <3>4. f.kind \in Kinds
      BY <2>1 DEF Kinds
    <3>5. Following(f, v) \in Seq(Fields)
      BY <3>1, EmptySeq
    <3> QED
      BY <2>1, <3>1, <3>2, <3>3, <3>4, <3>5
  <2>2. CASE f.kind = "address"
    <3>1. v \in Addresses /\ Following(f, v) = <<>>
      BY <1>5, <2>2 DEF MayHold, Admissible
    <3>2. WriteWidth(f, v) \in Nat
      BY <2>2 DEF WriteWidth, AddressWidth
    <3>3. f.kind \in Kinds
      BY <2>2 DEF Kinds
    <3>4. Following(f, v) \in Seq(Fields)
      BY <3>1, EmptySeq
    <3> QED
      BY <3>1, <3>2, <3>3, <3>4
  <2>3. CASE f.kind \notin {"opaque", "address"}
    <3>1. v \in f.values
      BY <2>3 DEF MayHold
    <3>2. v \in Nat /\ Following(f, v) \in Seq(Fields) /\ f.w \in Nat /\ f.kind \in Kinds
      BY <1>5, <2>3, <3>1 DEF Admissible
    <3> QED
      BY <2>3, <3>2 DEF WriteWidth
  <2> QED
    BY <2>1, <2>2, <2>3
<1>7. c \in Cell
  BY <1>4, <1>6 DEF Cell
<1>8. /\ stream' \in Seq(Cell) /\ Len(stream') = n + 1
      /\ stream'[n + 1] = c
      /\ \A i \in 1 .. n : stream'[i] = stream[i]
  <2> HIDE DEF c
  <2>1. stream' = Append(stream, c)
    BY <1>1 DEF c
  <2> QED
    BY <1>4, <1>7, <2>1, AppendProperties
<1>9. CodecTyped'
  <2>1. todo' \in Seq(Fields)
    BY <1>1, <1>5, <1>6, ConcatProperties
  <2>2. size' \in Nat
    BY <1>1, <1>4, <1>6
  <2> QED
    BY <1>2, <1>3, <1>4, <1>8, <2>1, <2>2 DEF CodecTyped
<1>10. PICK T : Trail(T) /\ OnTrail(T)
  BY DEF CodecInv
<1>11. T[n] = todo
  BY <1>2, <1>10 DEF OnTrail
<1>12. ASSUME n < 10
       PROVE  /\ f = PreambleWrites[n + 1] /\ Following(f, v) = <<>>
              /\ WriteWidth(f, v) = PreambleWrites[n + 1].w
              /\ Tail(todo) = SubSeq(EnvelopeWrites, n + 2, 12)
  <2>1. f = PreambleWrites[n + 1] /\ Tail(todo) = SubSeq(EnvelopeWrites, n + 2, 12)
    <3>1. n \in 0 .. 10 /\ n <= Len(stream)
      BY <1>4, <1>12, WithinPreamble, Zenon
    <3>2. T[n] = SubSeq(EnvelopeWrites, n + 1, 12)
      BY <1>10, <3>1, Zenon DEF Trail
    <3> QED
      BY <1>4, <1>11, <1>12, <3>2, PreambleIsNext, Zenon
  <2>2. f.kind = "opaque"
    <3>1. n + 1 \in 1 .. 10
      BY <1>4, <1>12
    <3> QED
      BY <2>1, <3>1, EnvelopeShape
  <2> QED
    BY <1>5, <2>1, <2>2 DEF Admissible, WriteWidth
<1>13. PreambleInPlace'
  <2>1. ASSUME NEW i \in 1 .. 11, i <= Len(stream')
        PROVE  stream'[i].at = Begins[i]
    <3>1. CASE i <= n
      <4>1. i \in 1 .. n
        BY <1>4, <3>1
      <4> QED
        BY <1>3, <1>8, <2>1, <3>1, <4>1 DEF PreambleInPlace
    <3>2. CASE i = n + 1
      <4>1. n <= 10
        BY <1>4, <2>1, <3>2
      <4> QED
        BY <1>3, <1>8, <3>2, <4>1 DEF PreambleInPlace
    <3> QED
      BY <1>4, <1>8, <2>1, <3>1, <3>2
  <2>2. ASSUME Len(stream') <= 10 PROVE size' = Begins[Len(stream') + 1]
    <3>1. n < 10 /\ n + 1 \in 1 .. 10
      BY <1>4, <1>8, <2>2
    <3>2. size = Begins[n + 1]
      BY <1>3, <3>1, <1>4 DEF PreambleInPlace
    <3>3. size' = Begins[n + 1] + PreambleWrites[n + 1].w
      BY <1>1, <1>12, <3>1, <3>2
    <3> QED
      BY <1>8, <3>1, <3>3, PreambleWidths
  <2> QED
    BY <2>1, <2>2 DEF PreambleInPlace
<1>14. PICK V : (\A i \in 0 .. n : V[i] = T[i]) /\ V[n + 1] = todo'
  <2> DEFINE V == [i \in 0 .. n + 1 |-> IF i <= n THEN T[i] ELSE todo']
  <2>1. (\A i \in 0 .. n : V[i] = T[i]) /\ V[n + 1] = todo'
    BY <1>4
  <2> HIDE DEF V
  <2> QED
    BY <2>1
<1>15. Trail(V)'
  <2>1. V[0] = EnvelopeWrites
    BY <1>4, <1>10, <1>14 DEF Trail
  <2>2. ASSUME NEW i \in 1 .. n + 1
        PROVE  /\ V[i - 1] # <<>>
               /\ stream'[i].kind = Head(V[i - 1]).kind
               /\ stream'[i].w = WriteWidth(Head(V[i - 1]), stream'[i].v)
               /\ V[i] = Following(Head(V[i - 1]), stream'[i].v) \o Tail(V[i - 1])
    <3>1. CASE i <= n
      <4>1. i \in 1 .. n /\ i \in 0 .. n /\ i - 1 \in 0 .. n
        BY <1>4, <3>1
      <4>2. V[i] = T[i] /\ V[i - 1] = T[i - 1] /\ stream'[i] = stream[i]
        BY <1>8, <1>14, <4>1
      <4> QED
        BY <1>10, <4>1, <4>2 DEF Trail
    <3>2. CASE i = n + 1
      <4>1. i - 1 = n /\ n \in 0 .. n
        BY <1>4, <3>2
      <4>2. V[i - 1] = todo /\ V[i] = todo'
        BY <1>11, <1>14, <3>2, <4>1
      <4>3. /\ stream'[i].kind = f.kind /\ stream'[i].v = v
            /\ stream'[i].w = WriteWidth(f, v)
        BY <1>8, <3>2
      <4> QED
        BY <1>1, <1>2, <4>2, <4>3, Zenon
    <3>3. i <= n \/ i = n + 1
      BY <1>4
    <3> QED
      BY <3>1, <3>2, <3>3
  <2>3. ASSUME NEW i \in 0 .. 10, i <= n + 1
        PROVE  V[i] = SubSeq(EnvelopeWrites, i + 1, 12)
    <3>1. CASE i <= n
      <4>1. V[i] = T[i]
        BY <1>4, <1>14, <3>1
      <4> QED
        BY <1>10, <3>1, <4>1 DEF Trail
    <3>2. CASE i = n + 1
      <4>1. n < 10 /\ i + 1 = n + 2
        BY <1>4, <3>2
      <4>2. todo' = <<>> \o SubSeq(EnvelopeWrites, n + 2, 12)
            /\ SubSeq(EnvelopeWrites, n + 2, 12) \in Seq(Fields)
        BY <1>1, <1>5, <1>12, <4>1
      <4> QED
        BY <1>14, <3>2, <4>1, <4>2, ConcatEmptySeq
    <3> QED
      BY <1>4, <2>3, <3>1, <3>2
  <2> HIDE DEF n
  <2>4. /\ \A i \in 1 .. Len(stream') :
             /\ V[i - 1] # <<>>
             /\ stream'[i].kind = Head(V[i - 1]).kind
             /\ stream'[i].w = WriteWidth(Head(V[i - 1]), stream'[i].v)
             /\ V[i] = Following(Head(V[i - 1]), stream'[i].v) \o Tail(V[i - 1])
        /\ \A i \in 0 .. 10 : i <= Len(stream') => V[i] = SubSeq(EnvelopeWrites, i + 1, 12)
    BY <1>8, <2>2, <2>3
  <2>5. EnvelopeWrites' = EnvelopeWrites
    OBVIOUS
  <2> QED
    BY <2>1, <2>4 DEF Trail
<1>16. OnTrail(V)'
  <2>1. V[Len(stream')] = todo'
    BY <1>8, <1>14
  <2> QED
    BY <1>2, <2>1 DEF OnTrail
<1> QED
  BY <1>9, <1>13, <1>15, <1>16 DEF CodecInv

\* Once a message is complete, behind the preamble there is at least one cell: the
\* number of relayers.
LEMMA LongerThanPreamble ==
  ASSUME NEW n \in Nat, n <= 10
  PROVE  SubSeq(EnvelopeWrites, n + 1, 12) # <<>>
<1>1. EnvelopeWrites \in Seq(Fields) /\ Len(EnvelopeWrites) = 12
  BY EnvelopeShape
<1>2. n + 1 \in Int /\ n + 1 <= 12 /\ \A i \in n + 1 .. 12 : i \in 1 .. 12
  OBVIOUS
<1>3. \A i \in n + 1 .. 12 : EnvelopeWrites[i] \in Fields
  BY <1>1, <1>2, ElementOfSeq
<1>4. Len(SubSeq(EnvelopeWrites, n + 1, 12)) = 12 - (n + 1) + 1
  BY <1>2, <1>3, SubSeqProperties
<1>5. 12 - (n + 1) + 1 # 0
  OBVIOUS
<1> QED
  BY <1>4, <1>5

\* Where the trail leads past the last field of the preamble, whatever its value is.
LEMMA PayloadLenCell ==
  ASSUME NEW T, Trail(T), Len(stream) \in Nat, 10 <= Len(stream)
  PROVE  /\ Head(T[9]).kind = "opaque" /\ stream[10].kind = "opaque"
         /\ T[9] # <<>> /\ stream[10].w = Head(T[9]).w
         /\ \A v : Following(Head(T[9]), v) = <<>>
         /\ T[10] = <<>> \o Tail(T[9])
<1>1. 10 \in 1 .. Len(stream) /\ 9 \in 0 .. 10 /\ 9 <= Len(stream) /\ 10 - 1 = 9
  OBVIOUS
<1>2. T[9] = SubSeq(EnvelopeWrites, 10, 12)
  <2>1. 9 + 1 = 10
    OBVIOUS
  <2> QED
    BY <1>1, <2>1 DEF Trail
<1>3. Head(SubSeq(EnvelopeWrites, 10, 12)) = PreambleWrites[10]
  <2>1. 9 \in Nat /\ 9 < 10 /\ 9 + 1 = 10
    OBVIOUS
  <2>2. Head(SubSeq(EnvelopeWrites, 9 + 1, 12)) = PreambleWrites[9 + 1]
    BY <2>1, PreambleIsNext, Zenon
  <2> QED
    BY <2>1, <2>2
<1>4. Head(T[9]).kind = "opaque"
  BY <1>2, <1>3, EnvelopeShape
<1>5. /\ T[9] # <<>>
      /\ stream[10].kind = Head(T[9]).kind
      /\ stream[10].w = WriteWidth(Head(T[9]), stream[10].v)
      /\ T[10] = Following(Head(T[9]), stream[10].v) \o Tail(T[9])
  BY <1>1, Zenon DEF Trail
<1>6. \A v : Following(Head(T[9]), v) = <<>>
  BY <1>4 DEF Following
<1>7. WriteWidth(Head(T[9]), stream[10].v) = Head(T[9]).w
  BY <1>4 DEF WriteWidth
<1> QED
  BY <1>4, <1>5, <1>6, <1>7, Zenon

\* Setting payload_len leaves the trail as it is: nothing in the layout depends on it.
LEMMA SignedKeeps ==
  ASSUME CodecInv, activity = "write", todo = <<>>, Signed
  PROVE  CodecInv'
<1> DEFINE n == Len(stream)  len == size - stream[11].at
<1>1. /\ stream' = [stream EXCEPT ![10].v = len] /\ activity' = "read"
      /\ todo' = EnvelopeReads /\ size' = size /\ received' = received
  BY DEF Signed
<1>2. CodecTyped /\ PreambleInPlace
  BY DEF CodecInv
<1>3. stream \in Seq(Cell) /\ n \in Nat /\ size \in Nat /\ received = <<>>
  BY <1>2 DEF CodecTyped
<1>4. PICK T : Trail(T) /\ OnTrail(T)
  BY DEF CodecInv
<1>5. T[n] = <<>>
  BY <1>4 DEF OnTrail
<1>6. n >= 11
  <2>1. ASSUME n <= 10 PROVE FALSE
    <3>1. n \in 0 .. 10 /\ n <= Len(stream)
      BY <1>3, <2>1, WithinPreamble, Zenon
    <3>2. T[n] = SubSeq(EnvelopeWrites, n + 1, 12)
      BY <1>4, <3>1, Zenon DEF Trail
    <3> QED
      BY <1>3, <1>5, <2>1, <3>2, LongerThanPreamble, Zenon
  <2> QED
    BY <1>3, <2>1
<1>7. stream[11] \in Cell /\ stream[10] \in Cell
  <2>1. 11 \in 1 .. n /\ 10 \in 1 .. n
    BY <1>3, <1>6
  <2> QED
    BY <1>3, <2>1, ElementOfSeq
<1>8. len \in Int /\ len = size - PREAMBLE_BYTE_SIZE
  <2>1. stream[11].at = Begins[11]
    BY <1>2, <1>3, <1>6 DEF PreambleInPlace
  <2>2. Begins[11] = 165
    BY DEF Begins
  <2> QED
    BY <1>3, <2>1, <2>2 DEF PREAMBLE_BYTE_SIZE
<1>9. /\ Head(T[9]).kind = "opaque" /\ stream[10].kind = "opaque"
      /\ T[9] # <<>> /\ stream[10].w = Head(T[9]).w
      /\ \A v : Following(Head(T[9]), v) = <<>>
      /\ T[10] = <<>> \o Tail(T[9])
  <2>1. Len(stream) \in Nat /\ 10 <= Len(stream)
    BY <1>3, <1>6
  <2> QED
    BY <1>4, <2>1, PayloadLenCell, Zenon
<1> HIDE DEF len
<1> DEFINE c == [stream[10] EXCEPT !.v = len]
<1>10. /\ c \in Cell /\ c.v = len /\ c.kind = "opaque" /\ c.w = stream[10].w
       /\ c.at = stream[10].at
  BY <1>7, <1>8, <1>9 DEF Cell
<1>11. /\ stream' \in Seq(Cell) /\ Len(stream') = n
       /\ stream'[10] = c /\ \A i \in 1 .. n : i # 10 => stream'[i] = stream[i]
  <2> HIDE DEF c
  <2>1. stream' = [stream EXCEPT ![10] = c]
    BY <1>1 DEF c
  <2>2. 10 \in 1 .. n
    BY <1>3, <1>6
  <2>3. stream' \in Seq(Cell) /\ Len(stream') = n
    BY <1>3, <1>10, <2>1, <2>2, ExceptSeq
  <2>4. DOMAIN stream = 1 .. n
    BY <1>3
  <2>5. stream'[10] = c /\ \A i \in 1 .. n : i # 10 => stream'[i] = stream[i]
    BY <2>1, <2>2, <2>4, Zenon
  <2> QED
    BY <2>3, <2>5
<1> HIDE DEF c
<1>12. CodecTyped'
  BY <1>1, <1>2, <1>3, <1>11 DEF CodecTyped
<1>13. PreambleInPlace'
  <2>1. \A i \in 1 .. 11 : stream'[i].at = stream[i].at
    <3>1. \A i \in 1 .. 11 : i \in 1 .. n
      BY <1>3, <1>6
    <3> QED
      BY <1>10, <1>11, <3>1, Zenon
  <2>2. \A i \in 1 .. 11 : i <= Len(stream) => stream[i].at = Begins[i]
    BY <1>2 DEF PreambleInPlace
  <2>3. ~(Len(stream') <= 10)
    BY <1>3, <1>6, <1>11
  <2>4. \A i \in 1 .. 11 : i <= Len(stream') => stream'[i].at = Begins[i]
    BY <1>11, <2>1, <2>2, Zenon
  <2> QED
    BY <2>3, <2>4 DEF PreambleInPlace
<1>14. Trail(T)'
  <2>1. ASSUME NEW i \in 1 .. n
        PROVE  /\ T[i - 1] # <<>>
               /\ stream'[i].kind = Head(T[i - 1]).kind
               /\ stream'[i].w = WriteWidth(Head(T[i - 1]), stream'[i].v)
               /\ T[i] = Following(Head(T[i - 1]), stream'[i].v) \o Tail(T[i - 1])
    <3>1. CASE i # 10
      <4>1. stream'[i] = stream[i]
        BY <1>11, <3>1
      <4> QED
        BY <1>4, <4>1, Zenon DEF Trail
    <3>2. CASE i = 10
      <4>1. i - 1 = 9
        BY <3>2
      <4>2. WriteWidth(Head(T[9]), c.v) = Head(T[9]).w
        BY <1>9 DEF WriteWidth
      <4>3. Following(Head(T[9]), c.v) = <<>>
        BY <1>9
      <4> QED
        BY <1>9, <1>10, <1>11, <3>2, <4>1, <4>2, <4>3, Zenon
    <3> QED
      BY <3>1, <3>2
  <2>2. T[0] = EnvelopeWrites
        /\ \A i \in 0 .. 10 : i <= Len(stream) => T[i] = SubSeq(EnvelopeWrites, i + 1, 12)
    BY <1>4 DEF Trail
  <2> HIDE DEF n
  <2>3. Len(stream') = Len(stream) /\ n = Len(stream)
    BY <1>11 DEF n
  <2>4. /\ \A i \in 1 .. Len(stream') :
             /\ T[i - 1] # <<>>
             /\ stream'[i].kind = Head(T[i - 1]).kind
             /\ stream'[i].w = WriteWidth(Head(T[i - 1]), stream'[i].v)
             /\ T[i] = Following(Head(T[i - 1]), stream'[i].v) \o Tail(T[i - 1])
        /\ \A i \in 0 .. 10 : i <= Len(stream') => T[i] = SubSeq(EnvelopeWrites, i + 1, 12)
    BY <2>1, <2>2, <2>3, Zenon
  <2> QED
    BY <2>2, <2>4 DEF Trail
<1>15. OnTrail(T)'
  <2>1. T[Len(stream')] = <<>> /\ Len(stream') >= 11
    BY <1>5, <1>6, <1>11
  <2>2. stream'[10].v = size' - PREAMBLE_BYTE_SIZE
    BY <1>1, <1>8, <1>10, <1>11
  <2>3. Len(received') = 0 /\ 1 .. Len(received') = {} /\ Len(received') <= Len(stream')
    BY <1>1, <1>3, <1>6, <1>11
  <2>4. T[0] = todo'
    BY <1>1, <1>4, SameLayouts DEF Trail
  <2> QED
    BY <1>1, <2>1, <2>2, <2>3, <2>4 DEF OnTrail
<1> QED
  BY <1>12, <1>13, <1>14, <1>15 DEF CodecInv

\* Reading goes the way that writing went, unless it meets a compressed address.
LEMMA ReadFieldKeeps ==
  ASSUME CodecInv, ReadField
  PROVE  CodecInv'
<1> DEFINE n == Len(stream)  m == Len(received)  f == Head(todo)  v == stream[m + 1].v
<1>1. activity = "read" /\ todo # <<>> /\ stream' = stream /\ size' = size
  BY DEF ReadField
<1>2. CodecTyped /\ PreambleInPlace
  BY DEF CodecInv
<1>3. /\ stream \in Seq(Cell) /\ n \in Nat /\ m \in Nat
      /\ received \in Seq([kind : Kinds, v : Int \cup Addresses])
  BY <1>2 DEF CodecTyped
<1>4. PICK T : Trail(T) /\ OnTrail(T)
  BY DEF CodecInv
<1>5. /\ T[m] = todo /\ m <= n
      /\ \A i \in 1 .. m : received[i] = [kind |-> stream[i].kind, v |-> stream[i].v]
      /\ T[n] = <<>> /\ n >= 11 /\ stream[10].v = size - PREAMBLE_BYTE_SIZE
  BY <1>1, <1>4 DEF OnTrail
<1>6. m + 1 \in 1 .. n /\ (m + 1) - 1 = m
  <2>1. m # n
    BY <1>1, <1>5
  <2> QED
    BY <1>3, <1>5, <2>1
<1>7. /\ stream[m + 1].kind = f.kind /\ stream[m + 1].w = WriteWidth(f, v)
      /\ T[m + 1] = Following(f, v) \o Tail(todo)
  BY <1>4, <1>5, <1>6, Zenon DEF Trail
<1>8. stream[m + 1] \in Cell
  BY <1>3, <1>6, ElementOfSeq
<1>9. f.kind \in Kinds /\ f.kind # "throws" /\ v \in Int \cup Addresses
  BY <1>7, <1>8 DEF Cell, Kinds
<1>10. m + 1 \in DOMAIN stream
  BY <1>3, <1>6
<1>11. PreambleInPlace'
  BY <1>1, <1>2 DEF PreambleInPlace
<1>12. Trail(T)'
  BY <1>1, <1>4 DEF Trail
<1>13. CASE stream[m + 1].w = ReadWidth(f)
  <2> DEFINE r == [kind |-> f.kind, v |-> v]
  <2>1. received' = Append(received, r) /\ todo' = T[m + 1] /\ activity' = "read"
    BY <1>1, <1>7, <1>9, <1>10, <1>13 DEF ReadField
  <2>2. r \in [kind : Kinds, v : Int \cup Addresses]
    BY <1>9
  <2>3. r = [kind |-> stream[m + 1].kind, v |-> stream[m + 1].v]
    BY <1>7
  <2> HIDE DEF r
  <2>4. /\ received' \in Seq([kind : Kinds, v : Int \cup Addresses])
        /\ Len(received') = m + 1 /\ received'[m + 1] = r
        /\ \A i \in 1 .. m : received'[i] = received[i]
    BY <1>3, <2>1, <2>2, AppendProperties
  <2>5. ASSUME NEW i \in 1 .. m + 1
        PROVE  received'[i] = [kind |-> stream[i].kind, v |-> stream[i].v]
    <3>1. i \in 1 .. m \/ i = m + 1
      BY <1>3
    <3> QED
      BY <1>5, <2>3, <2>4, <3>1, Zenon
  <2>6. CodecTyped'
    BY <1>1, <1>2, <2>1, <2>4 DEF CodecTyped
  <2>7. OnTrail(T)'
    <3>1. Len(received') <= Len(stream)
      BY <1>6, <2>4
    <3> QED
      BY <1>1, <1>5, <2>1, <2>4, <2>5, <3>1 DEF OnTrail
  <2> QED
    BY <1>11, <1>12, <2>6, <2>7 DEF CodecInv
<1>14. CASE stream[m + 1].w # ReadWidth(f)
  <2>1. activity' = "lost" /\ received' = received /\ todo' = todo
    BY <1>1, <1>14 DEF ReadField
  <2>2. f.kind = "address" /\ v = Compressed
    BY <1>7, <1>14 DEF WriteWidth, ReadWidth, AddressWidth
  <2>3. ~FullySpelled
    BY <1>7, <1>10, <2>2 DEF FullySpelled
  <2>4. FullySpelled' = FullySpelled
    BY <1>1 DEF FullySpelled
  <2>5. CodecTyped'
    BY <1>1, <1>2, <2>1 DEF CodecTyped
  <2>6. OnTrail(T)'
    BY <1>1, <1>5, <2>1, <2>3, <2>4 DEF OnTrail
  <2> QED
    BY <1>11, <1>12, <2>5, <2>6 DEF CodecInv
<1> QED
  BY <1>13, <1>14

\* Whatever the limits and the values that messages hold, reading has gone the way of
\* writing: the inductive invariant.
THEOREM CodecInductive == CodecSpec => []CodecInv
<1>1. CodecInit => CodecInv
  BY CodecInitially
<1>2. ASSUME CodecInv, [CodecNext]_codecVars
      PROVE  CodecInv'
  <2>1. CASE WriteField
    BY <1>2, <2>1, WriteFieldKeeps
  <2>2. CASE Send
    BY <1>2, <2>2, SignedKeeps DEF Send
  <2>3. CASE PeerSends
    BY <1>2, <2>3, SignedKeeps DEF PeerSends
  <2>4. CASE ReadField
    BY <1>2, <2>4, ReadFieldKeeps
  <2>5. CASE UNCHANGED codecVars
    BY <1>2, <2>5 DEF codecVars, CodecInv, CodecTyped, PreambleInPlace, Trail, OnTrail,
       FullySpelled
  <2> QED
    BY <1>2, <2>1, <2>2, <2>3, <2>4, <2>5 DEF CodecNext
<1> QED
  BY <1>1, <1>2, PTL DEF CodecSpec

\* Where reading went the way of writing to its end, the whole message was read.
LEMMA TrailEnds ==
  ASSUME CodecInv, FullySpelled
  PROVE  DecodesWhole
<1> DEFINE n == Len(stream)  m == Len(received)
<1>1. PICK T : Trail(T) /\ OnTrail(T)
  BY DEF CodecInv
<1>2. /\ n \in Nat /\ m \in Nat /\ DOMAIN received = 1 .. m
      /\ activity \in {"write", "read"}
      /\ activity = "write" => m = 0
  BY <1>1 DEF CodecInv, CodecTyped, OnTrail
<1>3. ASSUME NEW i \in DOMAIN received
      PROVE  received[i] = [kind |-> stream[i].kind, v |-> stream[i].v]
  <2>1. i \in 1 .. m /\ m # 0
    BY <1>2
  <2> QED
    BY <1>1, <1>2, <2>1 DEF OnTrail
<1>4. ASSUME activity = "read", todo = <<>>
      PROVE  m = n /\ size = PREAMBLE_BYTE_SIZE + received[10].v
  <2>1. /\ m <= n /\ T[m] = <<>> /\ n >= 11 /\ stream[10].v = size - PREAMBLE_BYTE_SIZE
    BY <1>1, <1>4 DEF OnTrail
  <2>2. m = n
    <3>1. ASSUME m # n PROVE FALSE
      <4>1. m + 1 \in 1 .. n /\ (m + 1) - 1 = m
        BY <1>2, <2>1, <3>1
      <4> QED
        BY <1>1, <2>1, <4>1, Zenon DEF Trail
    <3> QED
      BY <3>1
  <2>3. received[10].v = size - PREAMBLE_BYTE_SIZE
    <3>1. 10 \in DOMAIN received
      BY <1>2, <2>1, <2>2
    <3> QED
      BY <1>3, <2>1, <3>1
  <2>4. size \in Nat
    BY DEF CodecInv, CodecTyped
  <2> QED
    BY <2>2, <2>3, <2>4 DEF PREAMBLE_BYTE_SIZE
<1> QED
  BY <1>2, <1>3, <1>4 DEF DecodesWhole

\* A message in which no IPv6 address is compressed is decoded whole, of every type,
\* whatever lengths and depths are possible and whether or not compressed addresses are.
THEOREM SpelledMessagesDecodeWhole == CodecSpec => [](FullySpelled => DecodesWhole)
<1>1. CodecInv => (FullySpelled => DecodesWhole)
  BY TrailEnds
<1> QED
  BY <1>1, CodecInductive, PTL

\* If no address is compressed, none in the message is.
LEMMA NoneCompressed ==
  ASSUME Compressed \notin Addresses, CodecInv
  PROVE  FullySpelled
<1>1. stream \in Seq(Cell)
  BY DEF CodecInv, CodecTyped
<1>2. \A i \in DOMAIN stream : stream[i] \in Cell
  BY <1>1
<1> QED
  BY <1>2 DEF FullySpelled, Cell

\* If addresses are never given in compressed spelling (PeerAddress.encode splits the
\* text at its colons), every message that is written is decoded whole.
THEOREM MessagesDecodeWhole ==
  ASSUME Compressed \notin Addresses
  PROVE  CodecSpec => []DecodesWhole
<1>1. CodecInv => DecodesWhole
  BY NoneCompressed, TrailEnds
<1> QED
  BY <1>1, CodecInductive, PTL

-----------------------------------------------------------------------------
(* The byte stream.                                                          *)

\* The buffer starts at its initial size and is filled up to the cursor, as long
\* as the cursor was moved by writing only.
StraightIsWithin == straight => cursor <= byteLength

\* The inductive invariant.
StreamInv ==
  /\ StreamTypeOK
  /\ HalfIsUsable
  /\ StraightIsWithin
  /\ BufferIsWhatWasWritten

USE ByteStreamAssumption

-----------------------------------------------------------------------------
(* What growing, writing and slicing give.                                   *)

\* The elements of a sequence lie in a buffer that is at least as long.
LEMMA OffsetWithin ==
  ASSUME NEW m \in Nat, NEW n \in Nat, m <= n, NEW i \in 1 .. m
  PROVE  i - 1 \in 0 .. n - 1
  OBVIOUS

\* What may be written is a sequence of bytes.
LEMMA BytesAreSequences ==
  ASSUME NEW s \in Bytes
  PROVE  s \in Seq(Byte) /\ Len(s) \in Nat /\ s \in [1 .. Len(s) -> Byte]
  BY DEF ByteStreamAssumption

\* The buffer grows to hold what is written, and never shrinks.
LEMMA GrownToFits ==
  ASSUME StreamTypeOK, NEW n \in Nat
  PROVE  /\ GrownTo(n) \in Nat
         /\ GrownTo(n) >= byteLength
         /\ GrownTo(n) >= cursor + n
  BY DEF StreamTypeOK, GrownTo

\* Growing is refused only beyond half the limit.
LEMMA RefusedBeyondHalf ==
  ASSUME StreamTypeOK, NEW n \in Nat, GrownTo(n) > MaxSize
  PROVE  2 * (cursor + n) > MaxSize
  BY DEF StreamTypeOK, GrownTo

\* A slice is the sequence of the bytes in it.
LEMMA SliceIsSequence ==
  ASSUME StreamTypeOK, NEW p \in Nat, NEW q \in Nat, p <= q, q <= byteLength
  PROVE  /\ Slice(p, q) \in Seq(Byte)
         /\ Len(Slice(p, q)) = q - p
         /\ \A i \in 1 .. q - p : Slice(p, q)[i] = arrayBuffer[p + i - 1]
<1>1. \A i \in 1 .. q - p : p + i - 1 \in 0 .. byteLength - 1
  BY DEF StreamTypeOK
<1>2. Slice(p, q) \in [1 .. q - p -> Byte]
  BY <1>1 DEF StreamTypeOK, Slice
<1>3. q - p \in Nat
  OBVIOUS
<1> QED
  BY <1>2, <1>3, FunctionIsSequence DEF Slice

\* The bytes of the buffer after a write: those of the write, and the others as
\* they were, or Zero where there was none.
LEMMA WrittenBytes ==
  ASSUME StreamTypeOK, NEW s \in Bytes
  PROVE  /\ PutAt(Grown(Len(s)), s) \in [0 .. GrownTo(Len(s)) - 1 -> Byte]
         /\ \A i \in 0 .. GrownTo(Len(s)) - 1 :
              PutAt(Grown(Len(s)), s)[i] =
                IF cursor <= i /\ i < cursor + Len(s) THEN s[i - cursor + 1]
                ELSE IF i < byteLength THEN arrayBuffer[i] ELSE Zero
<1>1. ASSUME NEW i \in 0 .. GrownTo(Len(s)) - 1, cursor <= i, i < cursor + Len(s)
      PROVE  s[i - cursor + 1] \in Byte
  <2>1. i - cursor + 1 \in 1 .. Len(s)
    BY <1>1, BytesAreSequences, GrownToFits DEF StreamTypeOK
  <2> QED
    BY <2>1, BytesAreSequences
<1>2. ASSUME NEW i \in 0 .. GrownTo(Len(s)) - 1, i < byteLength
      PROVE  arrayBuffer[i] \in Byte
  BY <1>2, BytesAreSequences, GrownToFits DEF StreamTypeOK
<1> QED
  BY <1>1, <1>2 DEF PutAt, Grown

-----------------------------------------------------------------------------
(* The invariant.                                                            *)

\* The invariant holds initially.
LEMMA StreamInitially == StreamInit => StreamInv
<1> SUFFICES ASSUME StreamInit PROVE StreamInv
  OBVIOUS
<1>1. StreamTypeOK
  BY DEF StreamInit, StreamTypeOK, Done
<1>2. Slice(0, 0) = <<>>
  BY DEF Slice
<1> QED
  BY <1>1, <1>2 DEF StreamInit, StreamInv, HalfIsUsable, StraightIsWithin,
     BufferIsWhatWasWritten, Done

\* A write that fits keeps the invariant.
LEMMA FittingWriteKeeps ==
  ASSUME StreamInv, NEW s \in Bytes, Write(s), GrownTo(Len(s)) <= MaxSize
  PROVE  StreamInv'
<1> USE BytesAreSequences
<1>1. /\ byteLength' = GrownTo(Len(s))
      /\ arrayBuffer' = PutAt(Grown(Len(s)), s)
      /\ cursor' = cursor + Len(s)
      /\ byteSize' = byteSize + Len(s) /\ byteSize + Len(s) <= MaxWritten
      /\ appended' = IF straight THEN appended \o s ELSE <<>>
      /\ outcome' = Done(<<>>)
      /\ straight' = straight
  BY DEF Write
<1>2. StreamTypeOK'
  <2>1. StreamTypeOK /\ cursor \in Nat /\ byteSize \in Nat /\ Len(s) \in Nat
        /\ s \in Seq(Byte) /\ appended \in Seq(Byte)
    BY DEF StreamInv, StreamTypeOK
  <2>2. appended' \in Seq(Byte)
    BY <1>1, <2>1, ConcatProperties
  <2>3. outcome' \in [threw : {"nothing", "read", "write"}, at : Nat, value : Seq(Byte)]
    BY <1>1 DEF Done
  <2>4. byteLength' \in InitialSize .. MaxSize
    <3>1. GrownTo(Len(s)) \in Nat /\ GrownTo(Len(s)) >= byteLength
      BY <2>1, GrownToFits
    <3>2. byteLength \in Nat /\ InitialSize \in Nat /\ MaxSize \in Nat
          /\ byteLength >= InitialSize
      BY <2>1, ByteStreamAssumption DEF StreamTypeOK
    <3> QED
      BY <1>1, <3>1, <3>2
  <2>5. arrayBuffer' \in [0 .. byteLength' - 1 -> Byte]
    BY <1>1, <2>1, WrittenBytes DEF StreamInv
  <2>6. cursor' \in Nat /\ byteSize' \in 0 .. MaxWritten
    BY <1>1, <2>1, ByteStreamAssumption
  <2> QED
    BY <1>1, <2>1, <2>2, <2>3, <2>4, <2>5, <2>6 DEF StreamTypeOK
<1>3. HalfIsUsable' /\ StraightIsWithin'
  BY <1>1, GrownToFits DEF StreamInv, HalfIsUsable, StraightIsWithin, Done
<1>4. BufferIsWhatWasWritten'
  <2> SUFFICES ASSUME straight
               PROVE  /\ cursor' = byteSize'
                      /\ Slice(0, cursor)' = appended'
    BY <1>1 DEF BufferIsWhatWasWritten
  <2>1. /\ cursor = byteSize /\ Slice(0, cursor) = appended
        /\ cursor \in Nat /\ cursor <= byteLength
    BY DEF StreamInv, StreamTypeOK, BufferIsWhatWasWritten, StraightIsWithin
  <2>2. /\ Len(appended) = cursor /\ appended \in Seq(Byte)
        /\ \A i \in 1 .. cursor : appended[i] = arrayBuffer[i - 1]
    <3>1. 0 \in Nat /\ 0 <= cursor /\ StreamTypeOK
      BY <2>1 DEF StreamInv
    <3>2. /\ Slice(0, cursor) \in Seq(Byte) /\ Len(Slice(0, cursor)) = cursor - 0
          /\ \A i \in 1 .. cursor - 0 : Slice(0, cursor)[i] = arrayBuffer[0 + i - 1]
      BY <2>1, <3>1, SliceIsSequence
    <3>3. cursor - 0 = cursor /\ \A i \in 1 .. cursor : 0 + i - 1 = i - 1
      BY <2>1
    <3> QED
      BY <2>1, <3>2, <3>3
  <2>3. /\ Slice(0, cursor)' \in Seq(Byte)
        /\ Len(Slice(0, cursor)') = cursor + Len(s)
        /\ \A i \in 1 .. cursor + Len(s) : Slice(0, cursor)'[i] = arrayBuffer'[i - 1]
    <3>1. cursor' \in Nat /\ cursor' <= byteLength'
      BY <1>1, <2>1, GrownToFits DEF StreamInv
    <3>2. cursor' = cursor + Len(s)
      BY <1>1
    <3>3. ASSUME NEW i \in 1 .. cursor'
          PROVE  i - 1 \in 0 .. byteLength' - 1
      <4>1. byteLength' \in Nat
        BY <1>2 DEF StreamTypeOK
      <4> QED
        BY <3>1, <4>1, OffsetWithin
    <3>4. Slice(0, cursor)' = [i \in 1 .. cursor' |-> arrayBuffer'[i - 1]]
      BY <3>1 DEF Slice
    <3>5. [i \in 1 .. cursor' |-> arrayBuffer'[i - 1]] \in [1 .. cursor' -> Byte]
      BY <3>3, <1>2 DEF StreamTypeOK
    <3> DEFINE f == [i \in 1 .. cursor' |-> arrayBuffer'[i - 1]]
    <3>6. \A i \in 1 .. cursor' : f[i] = arrayBuffer'[i - 1]
      OBVIOUS
    <3> HIDE DEF f
    <3>7. f \in Seq(Byte) /\ Len(f) = cursor'
      BY <3>1, <3>5, FunctionIsSequence DEF f
    <3>8. Slice(0, cursor)' = f
      BY <3>4 DEF f
    <3> QED
      BY <3>2, <3>6, <3>7, <3>8
  <2>4. ASSUME NEW i \in 1 .. cursor + Len(s)
        PROVE  arrayBuffer'[i - 1] = IF i <= cursor THEN appended[i] ELSE s[i - cursor]
    <3>1. i - 1 \in 0 .. GrownTo(Len(s)) - 1
      <4>1. GrownTo(Len(s)) \in Nat /\ GrownTo(Len(s)) >= cursor + Len(s) /\ Len(s) \in Nat
        BY GrownToFits DEF StreamInv
      <4> QED
        BY <2>1, <4>1
    <3>2. arrayBuffer'[i - 1] =
            IF cursor <= i - 1 /\ i - 1 < cursor + Len(s) THEN s[i - 1 - cursor + 1]
            ELSE IF i - 1 < byteLength THEN arrayBuffer[i - 1] ELSE Zero
      BY <1>1, <3>1, WrittenBytes DEF StreamInv
    <3>3. CASE i <= cursor
      <4>1. i \in 1 .. cursor /\ ~(cursor <= i - 1) /\ i - 1 < byteLength
        BY <3>3, <2>1, <1>2 DEF StreamInv, StreamTypeOK
      <4> QED
        BY <4>1, <3>2, <2>2
    <3>4. CASE i > cursor
      <4>1. cursor <= i - 1 /\ i - 1 < cursor + Len(s) /\ ~(i <= cursor)
            /\ i - 1 - cursor + 1 = i - cursor
        BY <3>4, <2>1
      <4> QED
        BY <4>1, <3>2
    <3> QED
      BY <3>3, <3>4, <2>1
  <2>5. /\ appended \o s \in Seq(Byte)
        /\ Len(appended \o s) = cursor + Len(s)
        /\ \A i \in 1 .. cursor + Len(s) :
             (appended \o s)[i] = IF i <= cursor THEN appended[i] ELSE s[i - cursor]
    BY <2>2, ConcatProperties
  <2>6. Slice(0, cursor)' = appended \o s
    BY <2>3, <2>4, <2>5, SeqEqual
  <2> QED
    BY <2>1, <2>6, <1>1
<1> QED
  BY <1>2, <1>3, <1>4 DEF StreamInv

\* A write that is refused changes nothing but the outcome.
LEMMA RefusedWriteKeeps ==
  ASSUME StreamInv, NEW s \in Bytes, Write(s), ~(GrownTo(Len(s)) <= MaxSize)
  PROVE  StreamInv'
<1>1. /\ outcome' = Threw("write", cursor + Len(s))
      /\ UNCHANGED <<arrayBuffer, byteLength, cursor, byteSize, appended, straight>>
  BY DEF Write
<1>2. cursor + Len(s) \in Nat /\ 2 * (cursor + Len(s)) > MaxSize
  <2>1. Len(s) \in Nat /\ StreamTypeOK /\ cursor \in Nat
    BY BytesAreSequences DEF StreamInv, StreamTypeOK
  <2>2. GrownTo(Len(s)) > MaxSize
    BY <2>1, GrownToFits
  <2> QED
    BY <2>1, <2>2, RefusedBeyondHalf
<1> QED
  BY <1>1, <1>2 DEF StreamInv, StreamTypeOK, HalfIsUsable, StraightIsWithin,
     BufferIsWhatWasWritten, Slice, Threw

\* What reading gives is of the type of an outcome.
LEMMA OutcomeOfReading ==
  ASSUME StreamTypeOK, NEW n \in Nat
  PROVE  /\ Got(n) \in [threw : {"nothing", "read", "write"}, at : Nat, value : Seq(Byte)]
         /\ Got(n).threw # "write"
<1>1. CASE Fits(n)
  <2>1. /\ cursor \in Nat /\ cursor + n \in Nat /\ cursor <= cursor + n
        /\ cursor + n <= byteLength
    BY <1>1 DEF Fits, StreamTypeOK
  <2>2. Slice(cursor, cursor + n) \in Seq(Byte)
    BY <2>1, SliceIsSequence
  <2> QED
    BY <1>1, <2>2 DEF Got, Done
<1>2. CASE ~Fits(n)
  BY <1>2 DEF Got, Threw, StreamTypeOK
<1> QED
  BY <1>1, <1>2

\* A peek, a read and a look at the buffer keep the invariant.
LEMMA ReadingKeeps ==
  ASSUME StreamInv,
         \/ \E n \in 0 .. MaxSize : Peek(n) \/ Read(n)
         \/ AsBuffer
  PROVE  StreamInv'
<1>1. ASSUME NEW n \in 0 .. MaxSize, Peek(n)
      PROVE  StreamInv'
  <2>1. /\ outcome' = Got(n) /\ n \in Nat
        /\ UNCHANGED <<arrayBuffer, byteLength, cursor, byteSize, straight, appended>>
    BY <1>1 DEF Peek
  <2>2. /\ outcome' \in [threw : {"nothing", "read", "write"}, at : Nat, value : Seq(Byte)]
        /\ outcome'.threw # "write"
    BY <2>1, OutcomeOfReading DEF StreamInv
  <2> QED
    BY <2>1, <2>2 DEF StreamInv, StreamTypeOK, HalfIsUsable, StraightIsWithin,
       BufferIsWhatWasWritten, Slice
<1>2. ASSUME NEW n \in 0 .. MaxSize, Read(n)
      PROVE  StreamInv'
  <2>1. /\ outcome' = Got(n) /\ straight' = (straight /\ cursor' = cursor)
        /\ cursor' \in Nat
        /\ appended' = IF straight' THEN appended ELSE <<>>
        /\ UNCHANGED <<arrayBuffer, byteLength, byteSize>>
    BY <1>2 DEF Read, StreamInv, StreamTypeOK
  <2>2. /\ outcome' \in [threw : {"nothing", "read", "write"}, at : Nat, value : Seq(Byte)]
        /\ outcome'.threw # "write"
    BY <2>1, OutcomeOfReading DEF StreamInv
  <2>3. StreamTypeOK' /\ HalfIsUsable'
    BY <2>1, <2>2 DEF StreamInv, StreamTypeOK, HalfIsUsable
  <2>4. StraightIsWithin' /\ BufferIsWhatWasWritten'
    BY <2>1 DEF StreamInv, StraightIsWithin, BufferIsWhatWasWritten, Slice
  <2> QED
    BY <2>3, <2>4 DEF StreamInv
<1>3. ASSUME AsBuffer
      PROVE  StreamInv'
  <2>1. cursor <= byteLength => Slice(0, cursor) \in Seq(Byte)
    <3>1. StreamTypeOK /\ cursor \in Nat /\ 0 \in Nat /\ 0 <= cursor
      BY DEF StreamInv, StreamTypeOK
    <3> QED
      BY <3>1, SliceIsSequence
  <2>2. /\ outcome' \in [threw : {"nothing", "read", "write"}, at : Nat, value : Seq(Byte)]
        /\ outcome'.threw # "write"
    BY <1>3, <2>1 DEF AsBuffer, Fits, Done, Threw, StreamInv, StreamTypeOK
  <2> QED
    BY <1>3, <2>2 DEF AsBuffer, StreamInv, StreamTypeOK, HalfIsUsable, StraightIsWithin,
       BufferIsWhatWasWritten, Slice
<1> QED
  BY <1>1, <1>2, <1>3

\* Moving the cursor keeps the invariant.
LEMMA SeekKeeps ==
  ASSUME StreamInv, NEW p \in 0 .. MaxOffset, Seek(p)
  PROVE  StreamInv'
<1>1. cursor' \in Nat /\ outcome' = Done(<<>>) /\ straight' = FALSE /\ appended' = <<>>
  BY DEF Seek
<1>2. Done(<<>>) \in [threw : {"nothing", "read", "write"}, at : Nat, value : Seq(Byte)]
  BY EmptySeq DEF Done
<1>3. StreamTypeOK'
  BY <1>1, <1>2, EmptySeq DEF Seek, StreamInv, StreamTypeOK
<1> QED
  BY <1>1, <1>3 DEF Done, StreamInv, HalfIsUsable, StraightIsWithin, BufferIsWhatWasWritten

\* Every step keeps the invariant.
LEMMA StreamInductive == StreamInv /\ [StreamNext]_streamVars => StreamInv'
<1> SUFFICES ASSUME StreamInv, [StreamNext]_streamVars PROVE StreamInv'
  OBVIOUS
<1>1. CASE UNCHANGED streamVars
  BY <1>1 DEF streamVars, StreamInv, StreamTypeOK, HalfIsUsable, StraightIsWithin,
     BufferIsWhatWasWritten, Slice
<1>2. CASE StreamNext
  BY <1>2, FittingWriteKeeps, RefusedWriteKeeps, ReadingKeeps, SeekKeeps DEF StreamNext
<1> QED
  BY <1>1, <1>2

\* The inductive invariant, which the theorems below follow from.
THEOREM StreamInvariant == StreamSpec => []StreamInv
  BY StreamInitially, StreamInductive, PTL DEF StreamSpec

\* Every reachable state has its type: the buffer holds bytes only, and is never
\* longer than maxSize.
THEOREM StreamTypeCorrect == StreamSpec => []StreamTypeOK
<1>1. StreamInv => StreamTypeOK
  BY DEF StreamInv
<1> QED
  BY <1>1, StreamInvariant, PTL

\* growToFit refuses no write that ends within the first half of maxSize.
THEOREM FirstHalfIsUsable == StreamSpec => []HalfIsUsable
<1>1. StreamInv => HalfIsUsable
  BY DEF StreamInv
<1> QED
  BY <1>1, StreamInvariant, PTL

\* asBuffer gives what was written to a stream that is only written to, however
\* often it grew on the way.
THEOREM BufferOfWrites == StreamSpec => []BufferIsWhatWasWritten
<1>1. StreamInv => BufferIsWhatWasWritten
  BY DEF StreamInv
<1> QED
  BY <1>1, StreamInvariant, PTL

-----------------------------------------------------------------------------
(* The refinement.                                                           *)

\* A write that fits is a write to the file.
LEMMA WriteIsWriteAll ==
  ASSUME StreamTypeOK, NEW s \in Bytes, Write(s), GrownTo(Len(s)) <= MaxSize
  PROVE  File!WriteAll(s)
<1> USE BytesAreSequences
<1>1. /\ byteLength' = GrownTo(Len(s))
      /\ arrayBuffer' = PutAt(Grown(Len(s)), s)
      /\ cursor' = cursor + Len(s)
      /\ outcome'.value = <<>>
  BY DEF Write, Done
<1>2. /\ byteLength <= byteLength' /\ cursor + Len(s) <= byteLength'
      /\ byteLength' <= MaxSize /\ byteLength' \in Nat
  BY <1>1, GrownToFits
<1>3. Padded' = [i \in 0 .. MaxSize - 1 |->
                   IF cursor <= i /\ i < cursor + Len(s) THEN s[i - cursor + 1]
                   ELSE Padded[i]]
  <2>1. ASSUME NEW i \in 0 .. MaxSize - 1
        PROVE  (IF i < byteLength' THEN arrayBuffer'[i] ELSE Zero) =
                 IF cursor <= i /\ i < cursor + Len(s) THEN s[i - cursor + 1]
                 ELSE IF i < byteLength THEN arrayBuffer[i] ELSE Zero
    <3>1. CASE i < byteLength'
      <4>1. i \in 0 .. GrownTo(Len(s)) - 1
        BY <3>1, <1>1, <1>2
      <4> QED
        BY <3>1, <4>1, <1>1, WrittenBytes
    <3>2. CASE ~(i < byteLength')
      BY <3>2, <1>2 DEF StreamTypeOK
    <3> QED
      BY <3>1, <3>2
  <2> QED
    BY <2>1 DEF Padded
<1> QED
  BY <1>1, <1>2, <1>3 DEF File!WriteAll, StreamTypeOK

\* A slice of the buffer is a section of the file.
LEMMA SliceIsSection ==
  ASSUME StreamTypeOK, NEW p \in Nat, NEW q \in Nat, p <= q, q <= byteLength
  PROVE  Slice(p, q) = File!Section(p, q)
<1>1. ASSUME NEW i \in 1 .. q - p
      PROVE  arrayBuffer[p + i - 1] = Padded[p + i - 1]
  <2>1. p + i - 1 \in 0 .. MaxSize - 1 /\ p + i - 1 < byteLength
    BY DEF StreamTypeOK
  <2> QED
    BY <2>1 DEF Padded
<1> QED
  BY <1>1 DEF Slice, File!Section

\* Every step of the stream is a step of the file, or none.
LEMMA StepIsFileStep ==
  ASSUME StreamInv, [StreamNext]_streamVars
  PROVE  [File!FileNext]_File!fileVars
<1> USE DEF StreamInv
<1>1. ASSUME NEW s \in Bytes, Write(s)
      PROVE  File!FileNext
  <2>1. CASE GrownTo(Len(s)) <= MaxSize
    BY <1>1, <2>1, WriteIsWriteAll DEF File!FileNext
  <2>2. CASE ~(GrownTo(Len(s)) <= MaxSize)
    BY <1>1, <2>2 DEF Write, Threw, Padded, File!FileNext, File!Refuse
  <2> QED
    BY <2>1, <2>2
<1>2. ASSUME NEW n \in 0 .. MaxSize, Peek(n) \/ Read(n)
      PROVE  File!FileNext
  <2>1. CASE Fits(n)
    <3>1. /\ cursor \in Nat /\ cursor + n \in Nat /\ cursor + n \in cursor .. MaxSize
          /\ cursor + n <= byteLength
      BY <2>1 DEF Fits, StreamTypeOK
    <3>2. Slice(cursor, cursor + n) = File!Section(cursor, cursor + n)
      BY <3>1, SliceIsSection
    <3>3. /\ outcome'.value = Slice(cursor, cursor + n)
          /\ cursor' \in {cursor, cursor + n} /\ Padded' = Padded
      BY <1>2, <2>1 DEF Peek, Read, Got, Done, Padded
    <3> QED
      BY <3>1, <3>2, <3>3 DEF File!FileNext, File!ReadUpTo
  <2>2. CASE ~Fits(n)
    BY <1>2, <2>2 DEF Peek, Read, Got, Threw, Padded, File!FileNext, File!Refuse
  <2> QED
    BY <2>1, <2>2
<1>3. ASSUME AsBuffer
      PROVE  File!FileNext
  <2>1. CASE Fits(0)
    <3>1. cursor \in Nat /\ cursor <= byteLength /\ cursor <= MaxSize
      BY <2>1 DEF Fits, StreamTypeOK
    <3>2. Slice(0, cursor) = File!Section(0, cursor)
      BY <3>1, SliceIsSection
    <3>3. outcome'.value = Slice(0, cursor) /\ cursor' = cursor /\ Padded' = Padded
      BY <1>3, <2>1 DEF AsBuffer, Done, Padded
    <3> QED
      BY <3>1, <3>2, <3>3 DEF File!FileNext, File!Contents
  <2>2. CASE ~Fits(0)
    BY <1>3, <2>2 DEF AsBuffer, Threw, Padded, File!FileNext, File!Refuse
  <2> QED
    BY <2>1, <2>2
<1>4. ASSUME NEW p \in 0 .. MaxOffset, Seek(p)
      PROVE  File!FileNext
  BY <1>4 DEF Seek, Done, Padded, File!FileNext, File!Move
<1>5. ASSUME UNCHANGED streamVars
      PROVE  UNCHANGED File!fileVars
  BY <1>5 DEF streamVars, Padded, File!fileVars
<1> QED
  BY <1>1, <1>2, <1>3, <1>4, <1>5 DEF StreamNext

\* The stream implements the file: nothing that its users can see of the buffer
\* tells that it grows, but for the writes that are refused.
THEOREM StreamImplementsFile == StreamSpec => ImplementsFile
<1>1. StreamInit => File!FileInit
  <2> SUFFICES ASSUME StreamInit
               PROVE  \A i \in 0 .. MaxSize - 1 :
                        (IF i < byteLength THEN arrayBuffer[i] ELSE Zero) = Zero
    BY DEF StreamInit, Done, Padded, File!FileInit
  <2> QED
    BY DEF StreamInit
<1> QED
  BY <1>1, StepIsFileStep, StreamInvariant, PTL
     DEF StreamSpec, ImplementsFile, File!FileSpec
=============================================================================
