--------------------------- MODULE MCConnections ---------------------------
(***************************************************************************)
(* Three connections from one address, of which two may be open, and one   *)
(* from another, sharing the extranonce1 counter.                          *)
(***************************************************************************)
EXTENDS Connections

CONSTANTS c1, c2, c3, c4, home, farm

MCIpOf == [c \in Conns |-> IF c = c4 THEN home ELSE farm]
=============================================================================
