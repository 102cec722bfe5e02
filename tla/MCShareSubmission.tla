------------------------- MODULE MCShareSubmission -------------------------
(***************************************************************************)
(* Two clients that find the same key: one reaches both chains, the other  *)
(* only the merge-mined one.  Both jobs carry the same aux block.          *)
(***************************************************************************)
EXTENDS ShareSubmission, TLC

CONSTANTS c1, c2, k1, ltc, doge

MCQuality == [c \in Clients |-> [j \in Jobs |-> [k \in Keys |->
                IF c = c1 THEN 8 ELSE 4]]]
MCNetDifficulty == [x \in Chains |-> IF x = ltc THEN 8 ELSE 4]
MCAuxBlock == [x \in Chains |-> [j \in Jobs |-> 1]]
=============================================================================
