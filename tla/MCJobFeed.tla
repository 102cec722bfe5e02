----------------------------- MODULE MCJobFeed -----------------------------
(***************************************************************************)
(* JobFeed with queues of one or two places, so that a client lags and     *)
(* jobs overtake each other.  Clients never interact: one is enough.       *)
(***************************************************************************)
EXTENDS JobFeed, TLC

CONSTANT c1
=============================================================================
