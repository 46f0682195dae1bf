--------------------------- MODULE MessageChannel ---------------------------
(***************************************************************************)
(* What reading a peer's socket promises, whatever the peer sends and      *)
(* however TCP cuts it into chunks: messages are taken in the order they   *)
(* were sent, each at most once.  Some may be lost, and what is made of    *)
(* the bytes around a loss may come out as noise among them.               *)
(***************************************************************************)
EXTENDS Naturals, Sequences

CONSTANTS
    Count,          \* the peer sends at most the messages 1 .. Count
    Noise           \* what comes out and was not sent

VARIABLES
    next,           \* the first message that can still be taken
    received        \* what came out so far, the messages taken and noise

ChannelInit == next = 1 /\ received = <<>>

Take(m) ==
    /\ m \in next .. Count
    /\ next' = m + 1
    /\ received' = Append(received, m)

Hiss ==
    /\ received' = Append(received, Noise)
    /\ UNCHANGED next

ChannelNext == Hiss \/ \E m \in next .. Count : Take(m)

ChannelSpec == ChannelInit /\ [][ChannelNext]_<<next, received>>
=============================================================================
