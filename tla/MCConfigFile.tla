---------------------------- MODULE MCConfigFile ----------------------------
(***************************************************************************)
(* ConfigFile with three requests: two edits that overlap and a third one, *)
(* which may use the key a first one has set.                              *)
(***************************************************************************)
EXTENDS ConfigFile, TLC

CONSTANTS e1, e2, e3, old, new, short, quote, foreign, disguised, escaped, accented

MCInitial == [l \in Lines |-> old]
MCDecoded == [v \in Values |-> CASE v = escaped   -> new
                                  [] v = disguised -> foreign
                                  [] OTHER         -> v]
MCWants ==
  [line : {"fee_percent"}, value : {new, short}, key : {old}]
    \cup [line : {"pool_address"}, value : {new, foreign, disguised}, key : {old}]
    \cup [line : {"reward_address"}, value : {quote}, key : {old}]
    \cup [line : {"admin_key"}, value : {new}, key : {old, new}]
    \cup [line : {"admin_key"}, value : {escaped}, key : {old, escaped}]
    \cup [line : {"admin_key"}, value : {accented}, key : {old, accented}]
Symmetry == Permutations({e1, e2, e3})
=============================================================================
