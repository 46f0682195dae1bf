---------------------- MODULE MCPeerConnectionMonitor ----------------------
(* Small instances of PeerConnectionMonitor for TLC.                       *)
EXTENDS PeerConnectionMonitor, TLC

CONSTANTS a, b, c, d, s1, s2, s3

\* The socket reports the address that was dialed (every IPv4 peer).
SameName == [e \in Endpoint |-> e]

\* a is dialed in the expanded spelling of an IPv6 address, the socket reports b,
\* the compressed one.
AliasName == [e \in Endpoint |-> IF e = a THEN b ELSE e]

SocketSymmetry == Permutations(Socket)
=============================================================================
