------------------------------ MODULE MCAuxPow -----------------------------
(***************************************************************************)
(* Chain ids of the repository's tests, and one that agrees with another   *)
(* in the bits of the largest tree tried.                                  *)
(***************************************************************************)
EXTENDS AuxPow

\* The slots the unit tests of auxpow.rs expect.
ASSUME TestVectors ==
  /\ Slot(0, 98, 32) = 24 /\ Slot(0, 63, 32) = 17 /\ Slot(0, 16, 32) = 14
  /\ Slot(0, 50, 32) = 8 /\ Slot(0, 74, 32) = 0 /\ Slot(0, 168, 32) = 6
=============================================================================
