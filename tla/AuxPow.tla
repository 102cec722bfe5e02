------------------------------- MODULE AuxPow ------------------------------
(***************************************************************************)
(* Merge mining: the tree of aux block hashes a job commits to             *)
(* (crypto/auxpow.rs), the branches of the parent block's transactions     *)
(* (crypto/merkle.rs, stratum/job.rs), and the proof that is built later   *)
(* from the job, when a share solves an aux chain.                         *)
(*                                                                         *)
(* A hash of two nodes is the pair of them; the leaf of the i-th aux block *)
(* or transaction is <<i>>, an empty leaf and the coinbase <<0>>.          *)
(***************************************************************************)
EXTENDS Naturals, Sequences

CONSTANTS
  ChainIds,   \* chain ids the aux daemons report
  MaxChains,  \* bound: aux blocks of a job
  MaxTxs,     \* bound: transactions of a template
  MaxDepth,   \* depths find_tree_params tries (16)
  MaxNonce    \* the largest nonce it tries at each depth (99999)

ASSUME ConstantsAssumption ==
  /\ ChainIds \subseteq Nat
  /\ {MaxChains, MaxTxs, MaxNonce} \subseteq Nat
  /\ MaxDepth \in 1 .. 16

VARIABLES
  ids,     \* aux_blocks: chain ids, in the order of the configuration
  txs,     \* transactions of the template
  commit,  \* what the coinbase commits to: root, size and nonce of the tree
  proof    \* the proof built last: block, slot, branch of the tree

vars == <<ids, txs, commit, proof>>

Empty == <<0>>
NoProof == [block |-> 0]

-----------------------------------------------------------------------------
(* Slots.                                                                  *)

\* The sizes of a tree: 1 << depth.
Pow2[d \in 0 .. 16] == IF d = 0 THEN 1 ELSE 2 * Pow2[d - 1]

\* The generator of the aux chains, taken mod a power of 2 up to 2^16: the low
\* bits of the 32-bit product are those of the low bits of its factors.
Lcg(x, size) == ((x % size) * (20077 % size) + 12345) % size

\* get_expected_index.
Slot(nonce, id, size) ==
  IF size <= 1 THEN 0 ELSE Lcg(Lcg(nonce, size) + id, size)

Distinct(chain, size, nonce) ==
  \A i, j \in 1 .. Len(chain) :
    i # j => Slot(nonce, chain[i], size) # Slot(nonce, chain[j], size)

\* find_tree_params: the first depth, and for it the first nonce, without a
\* collision, or the largest tree and nonce 0.
TreeParams(chain) ==
  IF Len(chain) <= 1 THEN [size |-> 1, nonce |-> 0]
  ELSE LET fits == {d \in 1 .. MaxDepth :
                      \E n \in 0 .. MaxNonce : Distinct(chain, Pow2[d], n)}
           first == CHOOSE d \in fits : \A e \in fits : d <= e
       IN IF fits = {} THEN [size |-> Pow2[MaxDepth], nonce |-> 0]
          ELSE [size |-> Pow2[first],
                nonce |-> CHOOSE n \in 0 .. MaxNonce :
                            /\ Distinct(chain, Pow2[first], n)
                            /\ \A m \in 0 .. n - 1 : ~Distinct(chain, Pow2[first], m)]

-----------------------------------------------------------------------------
(* Trees.                                                                  *)

\* The last node of an odd level is its own partner.
Paired(s) == s \o (IF Len(s) % 2 = 1 THEN <<s[Len(s)]>> ELSE <<>>)

Level(s) ==
  LET p == Paired(s) IN [i \in 1 .. Len(p) \div 2 |-> <<p[2 * i - 1], p[2 * i]>>]

\* Mutant: the sibling is always the one on the right.
MutSibling(i) == i + 1

Sibling(i) == IF i % 2 = 0 THEN i + 1 ELSE i - 1

\* One round of the loops over the levels, which end at a single node: the
\* branch takes the sibling of the node at index (from 0), if it has one.
Round(at) ==
  IF Len(at.current) <= 1 THEN at
  ELSE [current |-> Level(at.current),
        index   |-> at.index \div 2,
        branch  |-> IF Sibling(at.index) < Len(at.current)
                    THEN Append(at.branch, at.current[Sibling(at.index) + 1])
                    ELSE at.branch]

\* The rounds from the leaf with that index, of which no more than Len(s) are
\* needed, and what they end with.
Climb(s, leaf) ==
  LET loop[d \in 0 .. Len(s)] ==
        IF d = 0 THEN [current |-> s, index |-> leaf, branch |-> <<>>]
                 ELSE Round(loop[d - 1])
  IN loop

Top(s, leaf) ==
  LET loop == Climb(s, leaf) IN
  loop[CHOOSE d \in 0 .. Len(s) : Len(loop[d].current) <= 1]

\* compute_merkle_root, compute_aux_merkle_root.
Root(s) == Top(s, 0).current[1]

\* get_aux_merkle_branch.
Branch(s, leaf) == Top(s, leaf).branch

\* get_merkle_branches: the branch of the coinbase, which is the first leaf.
CoinbaseBranch(s) == Branch(s, 0)

\* Mutant: an odd last node is dropped.
MutStratumLevel(s) ==
  [i \in 1 .. Len(s) \div 2 |-> IF i = 1 THEN Empty ELSE <<s[2 * i - 1], s[2 * i]>>]

\* The next level in get_merkle_branches_for_stratum: a node of its own for the
\* coinbase's pair, then the pairs after it.
StratumLevel(s) ==
  LET p == Paired(s) IN
  [i \in 1 .. Len(p) \div 2 |-> IF i = 1 THEN Empty ELSE <<p[2 * i - 1], p[2 * i]>>]

StratumRound(at) ==
  IF Len(at.level) <= 1 THEN at
  ELSE [level |-> StratumLevel(at.level), branch |-> Append(at.branch, at.level[2])]

StratumClimb(s) ==
  LET loop[d \in 0 .. Len(s)] ==
        IF d = 0 THEN [level |-> s, branch |-> <<>>] ELSE StratumRound(loop[d - 1])
  IN loop

\* get_merkle_branches_for_stratum: the coinbase is not known yet.
StratumBranches(hashes) ==
  IF hashes = <<>> THEN <<>>
  ELSE LET loop == StratumClimb(<<Empty>> \o hashes) IN
       loop[CHOOSE d \in 0 .. Len(hashes) + 1 : Len(loop[d].level) <= 1].branch

\* compute_root_from_branches.
RootFrom(coinbase, branches) ==
  LET current[k \in 0 .. Len(branches)] ==
        IF k = 0 THEN coinbase ELSE <<current[k - 1], branches[k]>>
  IN current[Len(branches)]

-----------------------------------------------------------------------------
(* Jobs and proofs.                                                        *)

\* A later block overwrites an earlier one of the same slot.
Leaves(chain, size, nonce) ==
  [s \in 1 .. size |->
     LET here == {i \in 1 .. Len(chain) : Slot(nonce, chain[i], size) = s - 1} IN
     IF here = {} THEN Empty ELSE <<CHOOSE i \in here : \A j \in here : j <= i>>]

\* build_aux_merkle_tree.
AuxTree(chain) ==
  LET p == TreeParams(chain) IN
  [root |-> Root(Leaves(chain, p.size, p.nonce)), size |-> p.size, nonce |-> p.nonce]

TxHashes == [i \in 1 .. txs |-> <<i>>]

Init == /\ ids = <<>> /\ txs = 0
        /\ commit = [root |-> Empty, size |-> 1, nonce |-> 0]
        /\ proof = NoProof

\* create_job.
CreateJob(chain, n) ==
  /\ chain # <<>>
  /\ ids' = chain /\ txs' = n
  /\ commit' = AuxTree(chain)
  /\ proof' = NoProof

\* build_auxpow_proof for the i-th aux block: the tree is built again, with
\* the size worked out anew and the nonce of the job.
Prove(i) ==
  LET size == TreeParams(ids).size
      slot == Slot(commit.nonce, ids[i], size)
  IN /\ i \in 1 .. Len(ids)
     /\ proof' = [block    |-> i,
                  slot     |-> slot,
                  branch   |-> Branch(Leaves(ids, size, commit.nonce), slot),
                  coinbase |-> CoinbaseBranch(<<Empty>> \o TxHashes)]
     /\ UNCHANGED <<ids, txs, commit>>

Chains == UNION {[1 .. n -> ChainIds] : n \in 1 .. MaxChains}

Next == \/ \E chain \in Chains, n \in 0 .. MaxTxs : ids = <<>> /\ CreateJob(chain, n)
        \/ \E i \in 1 .. MaxChains : Prove(i)

Spec == Init /\ [][Next]_vars

-----------------------------------------------------------------------------
(* What an aux daemon checks (external).                                   *)

Hashed(at, sibling) ==
  [node  |-> IF at.index % 2 = 1 THEN <<sibling, at.node>> ELSE <<at.node, sibling>>,
   index |-> at.index \div 2]

Follow(leaf, branch, slot) ==
  LET at[k \in 0 .. Len(branch)] ==
        IF k = 0 THEN [node |-> leaf, index |-> slot] ELSE Hashed(at[k - 1], branch[k])
  IN at[Len(branch)]

FollowBranch(leaf, branch, slot) == Follow(leaf, branch, slot).node

AcceptedAs(i) ==
  /\ Len(proof.branch) \in DOMAIN Pow2
  /\ commit.size = Pow2[Len(proof.branch)]
  /\ proof.slot = Slot(commit.nonce, ids[i], commit.size)
  /\ FollowBranch(<<i>>, proof.branch, proof.slot) = commit.root

-----------------------------------------------------------------------------
(* Properties.                                                             *)

\* A proof leads from the block of its chain to the root in the coinbase,
\* unless a later block of the job has taken its leaf; that needs two chain
\* ids that agree modulo the largest tree (auxpow.rs:78, 183-208).
ProofsAreAccepted ==
  proof # NoProof =>
    (AcceptedAs(proof.block) <=>
       \A j \in proof.block + 1 .. Len(ids) :
         ids[j] % Pow2[MaxDepth] # ids[proof.block] % Pow2[MaxDepth])

\* What a miner computes from the branches it was sent, what an aux daemon
\* computes from the branch of the proof, and the root of all transactions are
\* the same, for even and odd numbers of them (merkle.rs:45-92, job.rs:553-589).
RootsAgree ==
  proof # NoProof =>
    LET root == Root(<<Empty>> \o TxHashes) IN
    /\ RootFrom(Empty, StratumBranches(TxHashes)) = root
    /\ RootFrom(Empty, proof.coinbase) = root
=============================================================================
