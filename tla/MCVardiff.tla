----------------------------- MODULE MCVardiff -----------------------------
(***************************************************************************)
(* Difficulties over six powers of two, windows of two shares and a write *)
(* queue of two messages.                                                  *)
(***************************************************************************)
EXTENDS Vardiff

MCMinDiff == -2
MCIdeals == {-2, 0, 1, 4}
=============================================================================
