--------------------------- MODULE MCBlockTracker ---------------------------
(***************************************************************************)
(* BlockTracker on two rows and two miners, so that one row's failure can  *)
(* end the pass of the other and a distribution can stop half way.         *)
(***************************************************************************)
EXTENDS BlockTracker, TLC

CONSTANTS m1, m2

MCPart == [b \in Blocks |-> [m \in Miners |-> b]]
Symmetry == Permutations({m1, m2})
=============================================================================
