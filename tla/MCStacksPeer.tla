--------------------------- MODULE MCStacksPeer ---------------------------
(* A small instance of StacksPeer for TLC.                                 *)
EXTENDS StacksPeer

CONSTANTS q1, q2, r1, r2
=============================================================================
