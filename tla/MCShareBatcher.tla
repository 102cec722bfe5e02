-------------------------- MODULE MCShareBatcher ---------------------------
(***************************************************************************)
(* A channel and a buffer smaller than the shares that arrive.             *)
(***************************************************************************)
EXTENDS ShareBatcher

CONSTANTS s1, s2, s3, s4, s5
=============================================================================
