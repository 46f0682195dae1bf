--------------------------- MODULE MCStacksScout ---------------------------
(* A small instance of StacksScout for TLC.                                *)
EXTENDS StacksScout, TLC

CONSTANTS a, b, c, s1, s2, s3

SameName == [e \in Endpoint |-> e]

\* a and c are two ports of one host.
HostOf == [e \in Endpoint |-> IF e = b THEN "h2" ELSE "h1"]

SocketSymmetry == Permutations(Socket)
=============================================================================
