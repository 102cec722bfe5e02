---------------------------- MODULE MCPoolLedger ----------------------------
(***************************************************************************)
(* PoolLedger with two miners, whose shares fill the window in different   *)
(* ways: too few, exactly, with more than enough, and one for all.         *)
(***************************************************************************)
EXTENDS PoolLedger

CONSTANTS r1, alice, bob

MCShares == <<[account |-> bob, difficulty |-> 1],
              [account |-> alice, difficulty |-> 2],
              [account |-> bob, difficulty |-> 1],
              [account |-> bob, difficulty |-> 3]>>
=============================================================================
