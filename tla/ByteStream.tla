------------------------------ MODULE ByteStream ------------------------------
(***************************************************************************)
(* ResizableByteStream (resizable-byte-stream.ts): a buffer that grows as  *)
(* it is written to, and a cursor that reading and writing share.  Every   *)
(* write method differs only in the bytes it makes of its argument and     *)
(* every read method only in what it makes of the bytes, so there is one   *)
(* of each here.  An operation that throws is one that fails.              *)
(***************************************************************************)
EXTENDS Integers, Sequences

CONSTANTS
  Byte,        \* values of a byte
  Zero,        \* the byte new space is filled with
  Bytes,       \* what a write may be given
  InitialSize, \* initialSize
  MaxSize,     \* maxSize, the maxByteLength of the buffer
  MaxWritten,  \* bound of the model on byteSize
  MaxOffset    \* bound of the model on what seek is given

ASSUME ByteStreamAssumption ==
  /\ Zero \in Byte
  /\ Bytes \subseteq Seq(Byte)
  /\ {InitialSize, MaxSize, MaxWritten, MaxOffset} \subseteq Nat
  /\ InitialSize <= MaxSize

VARIABLES
  arrayBuffer, \* the bytes of the buffer, by offset
  byteLength,  \* the length of the buffer
  cursor,
  byteSize,    \* bytes written so far
  outcome,     \* what threw in the last operation, if anything, and what it returned
  straight,    \* the cursor was moved by writing only
  appended     \* if so, all that was written, one write after the other

streamVars == <<arrayBuffer, byteLength, cursor, byteSize, outcome, straight, appended>>

Done(value) == [threw |-> "nothing", at |-> 0, value |-> value]

\* The operation would have ended at offset q.
Threw(what, q) == [threw |-> what, at |-> q, value |-> <<>>]

StreamInit ==
  /\ byteLength = InitialSize
  /\ arrayBuffer = [i \in 0 .. InitialSize - 1 |-> Zero]
  /\ cursor = 0 /\ byteSize = 0
  /\ outcome = Done(<<>>)
  /\ appended = <<>> /\ straight = TRUE

\* growToFit without its early return, and without its doubling.
GrownToMutant(n) == IF 2 * byteLength < cursor + n THEN cursor + n ELSE 2 * byteLength

\* The length of the buffer after growToFit for n more bytes.
GrownTo(n) ==
  IF cursor + n <= byteLength THEN byteLength
  ELSE IF 2 * byteLength < cursor + n THEN cursor + n ELSE 2 * byteLength

\* A new buffer, and the old one's bytes not copied.
GrownMutant(n) == [i \in 0 .. GrownTo(n) - 1 |->
  IF GrownTo(n) = byteLength THEN arrayBuffer[i] ELSE Zero]

\* The buffer after growToFit: resize keeps what there is.
Grown(n) == [i \in 0 .. GrownTo(n) - 1 |-> IF i < byteLength THEN arrayBuffer[i]
                                             ELSE Zero]

\* Buffer b with the bytes s at the cursor.
PutAt(b, s) == [i \in DOMAIN b |-> IF cursor <= i /\ i < cursor + Len(s)
                                     THEN s[i - cursor + 1] ELSE b[i]]

\* writeUint8 and all its like, writeBytes: grow, set, advance.
Write(s) ==
  /\ byteSize + Len(s) <= MaxWritten
  /\ IF GrownTo(Len(s)) <= MaxSize
       THEN /\ byteLength' = GrownTo(Len(s))
            /\ arrayBuffer' = PutAt(Grown(Len(s)), s)
            /\ cursor' = cursor + Len(s)
            /\ byteSize' = byteSize + Len(s)
            /\ appended' = IF straight THEN appended \o s ELSE <<>>
            /\ outcome' = Done(<<>>)
       ELSE /\ outcome' = Threw("write", cursor + Len(s))
            /\ UNCHANGED <<arrayBuffer, byteLength, cursor, byteSize, appended>>
  /\ UNCHANGED straight

\* The bytes of the buffer from offset p up to offset q.
Slice(p, q) == [i \in 1 .. q - p |-> arrayBuffer[p + i - 1]]

\* What reading n bytes gives; past the end of the buffer it throws.
Fits(n) == cursor + n <= byteLength

Got(n) == IF Fits(n) THEN Done(Slice(cursor, cursor + n)) ELSE Threw("read", cursor + n)

\* peekUint8 and all its like, peekBytes.
Peek(n) ==
  /\ outcome' = Got(n)
  /\ UNCHANGED <<arrayBuffer, byteLength, cursor, byteSize, straight, appended>>

\* readUint8 and all its like, readBytes and its variants: peek and advance.
Read(n) ==
  /\ outcome' = Got(n)
  /\ cursor' = IF Fits(n) THEN cursor + n ELSE cursor
  /\ straight' = (straight /\ cursor' = cursor)
  /\ appended' = IF straight' THEN appended ELSE <<>>
  /\ UNCHANGED <<arrayBuffer, byteLength, byteSize>>

\* Any offset is accepted; what lies beyond the buffer shows when it is used.
Seek(p) ==
  /\ cursor' = p
  /\ outcome' = Done(<<>>)
  /\ straight' = FALSE /\ appended' = <<>>
  /\ UNCHANGED <<arrayBuffer, byteLength, byteSize>>

\* asBuffer: all up to the cursor, which is not all that was written.
AsBuffer ==
  /\ outcome' = IF Fits(0) THEN Done(Slice(0, cursor)) ELSE Threw("read", cursor)
  /\ UNCHANGED <<arrayBuffer, byteLength, cursor, byteSize, straight, appended>>

StreamNext ==
  \/ \E s \in Bytes : Write(s)
  \/ \E n \in 0 .. MaxSize : Peek(n) \/ Read(n)
  \/ \E p \in 0 .. MaxOffset : Seek(p)
  \/ AsBuffer

StreamSpec == StreamInit /\ [][StreamNext]_streamVars

-----------------------------------------------------------------------------
(* Properties *)

StreamTypeOK ==
  /\ byteLength \in InitialSize .. MaxSize
  /\ arrayBuffer \in [0 .. byteLength - 1 -> Byte]
  /\ cursor \in Nat
  /\ byteSize \in 0 .. MaxWritten
  /\ outcome \in [threw : {"nothing", "read", "write"}, at : Nat, value : Seq(Byte)]
  /\ appended \in Seq(Byte)
  /\ straight \in BOOLEAN

\* The file that the buffer stands for: what has not grown yet is Zero.
Padded == [i \in 0 .. MaxSize - 1 |-> IF i < byteLength THEN arrayBuffer[i] ELSE Zero]

\* The stream is a file: a write stores its bytes whole and touches no other, a
\* read returns what was stored last, growing loses nothing, and an operation
\* that throws, a write that would outgrow the buffer included, changes nothing.
File == INSTANCE ByteFile WITH
  file <- Padded,
  position <- cursor,
  result <- outcome.value

ImplementsFile == File!FileSpec

\* A write that ends within the first half of maxSize never fails, although
\* growToFit may refuse one that ends below maxSize (it doubles the buffer even
\* if that is more than may be had).
HalfIsUsable ==
  outcome.threw = "write" => 2 * outcome.at > MaxSize

\* asBuffer gives the writes in their order, and byteLength their number of
\* bytes, for a stream that was only written to: this is what a message that is
\* sent or signed relies on (peer-handler.ts, send; stacks-message-envelope.ts).
BufferIsWhatWasWritten ==
  straight => cursor = byteSize /\ Slice(0, cursor) = appended
=============================================================================
