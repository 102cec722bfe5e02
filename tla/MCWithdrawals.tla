--------------------------- MODULE MCWithdrawals ---------------------------
(***************************************************************************)
(* Withdrawals on small instances: one account that several requests draw  *)
(* on, so that their balance checks go stale on each other.                *)
(***************************************************************************)
EXTENDS Withdrawals, TLC

CONSTANTS r1, r2, a1

\* Below the minimum, just the minimum, and enough for one request only.
MCAmounts == {1, 2, 3}
Symmetry == Permutations({r1, r2})
=============================================================================
