------------------------------- MODULE ByteFile -------------------------------
(***************************************************************************)
(* What a ResizableByteStream promises its users: a file of bytes that are *)
(* Zero until written, a position, and operations that happen as a whole   *)
(* or, when they throw, not at all.  There is no buffer and no growth.     *)
(***************************************************************************)
EXTENDS Integers, Sequences

CONSTANTS
  Byte, Zero,
  Bytes,  \* what may be written at once
  MaxSize \* the length of the file

VARIABLES
  file,     \* the byte at every offset
  position, \* where the next operation starts
  result    \* what the last operation returned

fileVars == <<file, position, result>>

\* The bytes from offset p up to offset q.
Section(p, q) == [i \in 1 .. q - p |-> file[p + i - 1]]

FileInit ==
  /\ file = [i \in 0 .. MaxSize - 1 |-> Zero]
  /\ position = 0
  /\ result = <<>>

WriteAll(s) ==
  /\ position + Len(s) <= MaxSize
  /\ file' = [i \in 0 .. MaxSize - 1 |->
                IF position <= i /\ i < position + Len(s)
                  THEN s[i - position + 1] ELSE file[i]]
  /\ position' = position + Len(s)
  /\ result' = <<>>

ReadUpTo(q) ==
  /\ result' = Section(position, q)
  /\ position' \in {position, q} \* a peek does not move
  /\ UNCHANGED file

Contents ==
  /\ position <= MaxSize
  /\ result' = Section(0, position)
  /\ UNCHANGED <<file, position>>

Move ==
  /\ position' \in Nat
  /\ result' = <<>>
  /\ UNCHANGED file

Refuse ==
  /\ result' = <<>>
  /\ UNCHANGED <<file, position>>

FileNext ==
  \/ \E s \in Bytes : WriteAll(s)
  \/ \E q \in position .. MaxSize : ReadUpTo(q)
  \/ Contents \/ Move \/ Refuse

FileSpec == FileInit /\ [][FileNext]_fileVars
=============================================================================
