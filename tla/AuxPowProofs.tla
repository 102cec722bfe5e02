---------------------------- MODULE AuxPowProofs ----------------------------
(***************************************************************************)
(* What holds of AuxPow for every list of chain ids and of transactions,   *)
(* every depth the search for tree parameters may try and every number of  *)
(* nonces: the ways the code computes a merkle root agree, and an aux      *)
(* daemon accepts the proof of every block that has its leaf.              *)
(***************************************************************************)
EXTENDS AuxPow, SequenceTheorems, WellFoundedInduction, TLAPS

-----------------------------------------------------------------------------
(* Induction, and sequences of any elements.                               *)

\* Every set of naturals has a least element.
LEMMA LeastNatural ==
  ASSUME NEW T, T \subseteq Nat, T # {}
  PROVE  \E n \in T : \A m \in T : n <= m
<1>1. PICK n \in T : \A m \in T : <<m, n>> \notin OpToRel(<, Nat)
  BY NatLessThanWellFounded, WFMin, Zenon
<1>2. \A m \in T : ~(m < n)
  BY <1>1 DEF OpToRel
<1> QED BY <1>2

\* A finite set of naturals given by a bound has a greatest element.
LEMMA GreatestNatural ==
  ASSUME NEW n \in Nat, NEW T, T \subseteq 1 .. n, T # {}
  PROVE  \E i \in T : \A j \in T : j <= i
<1> DEFINE U == {u \in 0 .. n : n - u \in T}
<1>1. U \subseteq Nat /\ U # {}
  <2>1. PICK i \in T : TRUE
    OBVIOUS
  <2>2. i \in 1 .. n /\ n - i \in 0 .. n /\ n - (n - i) = i
    OBVIOUS
  <2>3. n - i \in U
    BY <2>1, <2>2
  <2>4. U \subseteq Nat
    OBVIOUS
  <2> HIDE DEF U
  <2> QED BY <2>3, <2>4
<1>2. PICK u \in U : \A v \in U : u <= v
  <2> HIDE DEF U
  <2> QED BY <1>1, LeastNatural
<1>3. ASSUME NEW j \in T
      PROVE  j <= n - u
  <2>1. j \in 1 .. n /\ n - j \in 0 .. n /\ n - (n - j) = j
    OBVIOUS
  <2>2. n - j \in U
    BY <2>1
  <2>3. u <= n - j /\ u \in Nat
    BY <1>2, <2>2
  <2> QED BY <2>1, <2>3
<1>4. n - u \in T
  BY <1>2
<1> QED BY <1>3, <1>4

\* Induction up to n, with a set in place of a predicate.
LEMMA Rounds ==
  ASSUME NEW n \in Nat, NEW Good,
         0 \in Good,
         \A d \in 0 .. n - 1 : d \in Good => d + 1 \in Good
  PROVE  \A d \in 0 .. n : d \in Good
<1> DEFINE Bad == {d \in 0 .. n : d \notin Good}
<1>1. SUFFICES ASSUME Bad # {} PROVE FALSE
  OBVIOUS
<1>2. PICK d \in Bad : \A e \in Bad : d <= e
  <2>1. Bad \subseteq Nat
    OBVIOUS
  <2> HIDE DEF Bad
  <2> QED BY <1>1, <2>1, LeastNatural
<1>3. d # 0 /\ d - 1 \in 0 .. n - 1 /\ d - 1 \notin Bad
  BY <1>2
<1>4. d - 1 \in Good
  BY <1>3
<1>5. (d - 1) + 1 \in Good
  BY <1>3, <1>4
<1> QED BY <1>2, <1>5

\* A sequence, whatever its elements are.
IsTuple(s) == Len(s) \in Nat /\ s = [i \in 1 .. Len(s) |-> s[i]]

\* A function on 1 .. n is a sequence of length n.
LEMMA TupleOfFun ==
  ASSUME NEW n \in Nat, NEW s, s = [i \in 1 .. n |-> s[i]]
  PROVE  IsTuple(s) /\ Len(s) = n
<1>1. s \in Seq({s[i] : i \in 1 .. n})
  OBVIOUS
<1>2. Len(s) \in Nat /\ DOMAIN s = 1 .. Len(s)
  BY <1>1, LenProperties
<1>3. DOMAIN s = 1 .. n
  OBVIOUS
<1>4. Len(s) = n
  BY <1>2, <1>3
<1> QED BY <1>4 DEF IsTuple

\* So is a sequence of any set.
LEMMA TupleOfSeq ==
  ASSUME NEW S, NEW s \in Seq(S)
  PROVE  IsTuple(s)
<1>1. Len(s) \in Nat /\ DOMAIN s = 1 .. Len(s)
  BY LenProperties
<1>2. s = [i \in 1 .. Len(s) |-> s[i]]
  BY <1>1
<1> QED BY <1>1, <1>2 DEF IsTuple

\* A sequence whose elements lie in S is a sequence of S.
LEMMA TupleIsSeq ==
  ASSUME NEW s, IsTuple(s), NEW S, \A i \in 1 .. Len(s) : s[i] \in S
  PROVE  s \in Seq(S)
<1> DEFINE n == Len(s)
<1>1. n \in Nat /\ s = [i \in 1 .. n |-> s[i]]
  BY DEF IsTuple
<1>2. s \in [1 .. n -> S]
  BY <1>1
<1> HIDE DEF n
<1> QED BY <1>1, <1>2

\* One element more.
LEMMA AppendTuple ==
  ASSUME NEW s, IsTuple(s), NEW e
  PROVE  /\ IsTuple(Append(s, e))
         /\ Len(Append(s, e)) = Len(s) + 1
         /\ \A i \in 1 .. Len(s) : Append(s, e)[i] = s[i]
         /\ Append(s, e)[Len(s) + 1] = e
<1> DEFINE S == {s[i] : i \in 1 .. Len(s)} \cup {e}
<1>1. s \in Seq(S) /\ e \in S
  <2>1. \A i \in 1 .. Len(s) : s[i] \in S
    OBVIOUS
  <2> HIDE DEF S
  <2>2. s \in Seq(S)
    BY <2>1, TupleIsSeq
  <2> QED BY <2>2 DEF S
<1> HIDE DEF S
<1>2. Append(s, e) \in Seq(S)
  BY <1>1, AppendProperties
<1>3. /\ Len(Append(s, e)) = Len(s) + 1
      /\ \A i \in 1 .. Len(s) : Append(s, e)[i] = s[i]
      /\ Append(s, e)[Len(s) + 1] = e
  BY <1>1, AppendProperties
<1> QED BY <1>2, <1>3, TupleOfSeq

\* One sequence after another.
LEMMA ConcatTuple ==
  ASSUME NEW s, IsTuple(s), NEW t, IsTuple(t)
  PROVE  /\ IsTuple(s \o t)
         /\ Len(s \o t) = Len(s) + Len(t)
         /\ \A i \in 1 .. Len(s) + Len(t) :
              (s \o t)[i] = IF i <= Len(s) THEN s[i] ELSE t[i - Len(s)]
<1> DEFINE S == {s[i] : i \in 1 .. Len(s)} \cup {t[i] : i \in 1 .. Len(t)}
<1>1. s \in Seq(S) /\ t \in Seq(S)
  <2>1. /\ \A i \in 1 .. Len(s) : s[i] \in S
        /\ \A i \in 1 .. Len(t) : t[i] \in S
    OBVIOUS
  <2> HIDE DEF S
  <2> QED BY <2>1, TupleIsSeq
<1> HIDE DEF S
<1>2. s \o t \in Seq(S)
  BY <1>1, ConcatProperties
<1>3. /\ Len(s \o t) = Len(s) + Len(t)
      /\ \A i \in 1 .. Len(s) + Len(t) :
           (s \o t)[i] = IF i <= Len(s) THEN s[i] ELSE t[i - Len(s)]
  BY <1>1, ConcatProperties
<1> QED BY <1>2, <1>3, TupleOfSeq

\* Two sequences with the same elements in the same places are the same.
LEMMA TuplesEqual ==
  ASSUME NEW s, IsTuple(s), NEW t, IsTuple(t), Len(s) = Len(t),
         \A i \in 1 .. Len(s) : s[i] = t[i]
  PROVE  s = t
BY DEF IsTuple

-----------------------------------------------------------------------------
(* Levels of a tree.                                                       *)

\* A level made even: the nodes as they were, an odd last one twice.
LEMMA PairedIs ==
  ASSUME NEW s, IsTuple(s), Len(s) >= 1
  PROVE  /\ IsTuple(Paired(s))
         /\ Len(Paired(s)) \div 2 = (Len(s) + 1) \div 2
         /\ \A i \in 1 .. Len(s) : Paired(s)[i] = s[i]
         /\ \A i \in 1 .. Len(s) + 1 :
              i <= 2 * ((Len(s) + 1) \div 2) =>
                Paired(s)[i] = IF i <= Len(s) THEN s[i] ELSE s[Len(s)]
<1>0. Len(s) \in Nat
  BY DEF IsTuple
<1>1. CASE Len(s) % 2 = 1
  <2> DEFINE t == <<s[Len(s)]>>
  <2>1. IsTuple(t) /\ Len(t) = 1 /\ t[1] = s[Len(s)]
    <3>1. t = [i \in 1 .. 1 |-> t[i]] /\ t[1] = s[Len(s)]
      OBVIOUS
    <3> HIDE DEF t
    <3> QED BY <3>1, TupleOfFun
  <2>2. Paired(s) = s \o t
    BY <1>1 DEF Paired
  <2> HIDE DEF t
  <2>3. /\ IsTuple(Paired(s))
        /\ Len(Paired(s)) = Len(s) + 1
        /\ \A i \in 1 .. Len(s) + 1 :
             Paired(s)[i] = IF i <= Len(s) THEN s[i] ELSE t[i - Len(s)]
    <3>1. /\ IsTuple(s \o t)
          /\ Len(s \o t) = Len(s) + Len(t)
          /\ \A i \in 1 .. Len(s) + Len(t) :
               (s \o t)[i] = IF i <= Len(s) THEN s[i] ELSE t[i - Len(s)]
      BY <2>1, ConcatTuple
    <3> QED BY <2>1, <2>2, <3>1
  <2>4. \A i \in 1 .. Len(s) + 1 :
          Paired(s)[i] = IF i <= Len(s) THEN s[i] ELSE s[Len(s)]
    <3>1. \A i \in 1 .. Len(s) + 1 : i <= Len(s) \/ i - Len(s) = 1
      BY <1>0
    <3> QED BY <2>1, <2>3, <3>1
  <2> QED BY <1>0, <2>3, <2>4
<1>2. CASE Len(s) % 2 # 1
  <2> DEFINE t == <<>>
  <2>1. IsTuple(t) /\ Len(t) = 0
    <3>1. t = [i \in 1 .. 0 |-> t[i]]
      OBVIOUS
    <3> HIDE DEF t
    <3> QED BY <3>1, TupleOfFun
  <2>2. Paired(s) = s \o t
    BY <1>2 DEF Paired
  <2> HIDE DEF t
  <2>3. /\ IsTuple(Paired(s))
        /\ Len(Paired(s)) = Len(s)
        /\ \A i \in 1 .. Len(s) : Paired(s)[i] = s[i]
    BY <1>0, <2>1, <2>2, ConcatTuple
  <2>4. Len(s) \div 2 = (Len(s) + 1) \div 2 /\ 2 * (Len(s) \div 2) = Len(s)
    BY <1>0, <1>2
  <2> QED BY <1>0, <2>3, <2>4
<1> QED BY <1>1, <1>2

\* The next level: half as many nodes, each a pair of those below it.
LEMMA LevelIs ==
  ASSUME NEW s, IsTuple(s), Len(s) >= 1
  PROVE  /\ IsTuple(Level(s))
         /\ Len(Level(s)) = (Len(s) + 1) \div 2
         /\ \A i \in 1 .. (Len(s) + 1) \div 2 :
              Level(s)[i] = <<s[2 * i - 1], IF 2 * i <= Len(s) THEN s[2 * i] ELSE s[Len(s)]>>
<1> DEFINE p == Paired(s)
           n == (Len(s) + 1) \div 2
<1>0. Len(s) \in Nat /\ n \in Nat
  BY DEF IsTuple
<1>1. Level(s) = [i \in 1 .. n |-> <<p[2 * i - 1], p[2 * i]>>]
  BY PairedIs DEF Level
<1>2. ASSUME NEW i \in 1 .. n
      PROVE  /\ p[2 * i - 1] = s[2 * i - 1]
             /\ p[2 * i] = IF 2 * i <= Len(s) THEN s[2 * i] ELSE s[Len(s)]
  <2>1. /\ 2 * i - 1 \in 1 .. Len(s)
        /\ 2 * i \in 1 .. Len(s) + 1 /\ 2 * i <= 2 * ((Len(s) + 1) \div 2)
    BY <1>0
  <2> HIDE DEF n
  <2> QED BY <2>1, PairedIs
<1> HIDE DEF p, n
<1>3. IsTuple(Level(s)) /\ Len(Level(s)) = n
  <2>1. Level(s) = [i \in 1 .. n |-> Level(s)[i]]
    BY <1>1
  <2> QED BY <1>0, <2>1, TupleOfFun
<1>4. \A i \in 1 .. n :
        Level(s)[i] = <<s[2 * i - 1], IF 2 * i <= Len(s) THEN s[2 * i] ELSE s[Len(s)]>>
  BY <1>1, <1>2
<1> QED BY <1>3, <1>4 DEF n

\* The level the stratum's branches are taken from is the same one, but for its
\* first node, for sequences that differ in their first element only.
LEMMA StratumLevelIs ==
  ASSUME NEW s, IsTuple(s), NEW t, IsTuple(t), Len(s) = Len(t), Len(s) >= 1,
         \A i \in 2 .. Len(s) : t[i] = s[i]
  PROVE  /\ IsTuple(StratumLevel(t))
         /\ Len(StratumLevel(t)) = Len(Level(s))
         /\ \A i \in 2 .. Len(Level(s)) : StratumLevel(t)[i] = Level(s)[i]
<1> DEFINE p == Paired(t)
           n == (Len(t) + 1) \div 2
<1>0. Len(t) \in Nat /\ n \in Nat
  BY DEF IsTuple
<1>1. StratumLevel(t) =
        [i \in 1 .. n |-> IF i = 1 THEN Empty ELSE <<p[2 * i - 1], p[2 * i]>>]
  BY PairedIs DEF StratumLevel
<1>2. ASSUME NEW i \in 2 .. n
      PROVE  /\ p[2 * i - 1] = s[2 * i - 1]
             /\ p[2 * i] = IF 2 * i <= Len(s) THEN s[2 * i] ELSE s[Len(s)]
  <2>1. /\ 2 * i - 1 \in 1 .. Len(t) /\ 2 * i - 1 \in 2 .. Len(s)
        /\ 2 * i \in 1 .. Len(t) + 1 /\ 2 * i <= 2 * ((Len(t) + 1) \div 2)
        /\ 2 * i <= Len(s) => 2 * i \in 2 .. Len(s)
        /\ Len(s) \in 2 .. Len(s)
    BY <1>0
  <2> HIDE DEF n
  <2>2. /\ p[2 * i - 1] = t[2 * i - 1]
        /\ p[2 * i] = IF 2 * i <= Len(t) THEN t[2 * i] ELSE t[Len(t)]
    BY <2>1, PairedIs
  <2> QED BY <2>1, <2>2
<1> HIDE DEF p
<1>3. IsTuple(StratumLevel(t)) /\ Len(StratumLevel(t)) = n
  <2> HIDE DEF n
  <2>1. StratumLevel(t) = [i \in 1 .. n |-> StratumLevel(t)[i]]
    BY <1>1
  <2> QED BY <1>0, <2>1, TupleOfFun
<1>4. Len(Level(s)) = n
  BY LevelIs
<1>5. ASSUME NEW i \in 2 .. n
      PROVE  StratumLevel(t)[i] = Level(s)[i]
  <2>1. i \in 1 .. n /\ i # 1 /\ i \in 1 .. (Len(s) + 1) \div 2
    BY <1>0
  <2> HIDE DEF n
  <2>2. StratumLevel(t)[i] = <<p[2 * i - 1], p[2 * i]>>
    BY <1>1, <2>1
  <2>3. Level(s)[i] = <<s[2 * i - 1], IF 2 * i <= Len(s) THEN s[2 * i] ELSE s[Len(s)]>>
    BY <2>1, LevelIs
  <2> QED BY <1>2, <2>2, <2>3
<1> HIDE DEF n
<1> QED BY <1>3, <1>4, <1>5

-----------------------------------------------------------------------------
(* The loops: for each there is a function as its definition describes it. *)

\* The rounds of a climb are a function.
LEMMA ClimbExists ==
  ASSUME NEW s, Len(s) \in Nat, NEW leaf
  PROVE  \E f : f = [d \in 0 .. Len(s) |-> IF d = 0 THEN [current |-> s, index |-> leaf, branch |-> <<>>]
                                      ELSE Round(f[d - 1])]
<1> DEFINE E(f, n) == [d \in 0 .. n |-> IF d = 0 THEN [current |-> s, index |-> leaf, branch |-> <<>>]
                                       ELSE Round(f[d - 1])]
           Good == {n \in Nat : \E f : f = E(f, n)}
<1>1. 0 \in Good
  <2> DEFINE f == [d \in 0 .. 0 |-> [current |-> s, index |-> leaf, branch |-> <<>>]]
  <2>1. f = E(f, 0)
    OBVIOUS
  <2> QED BY <2>1
<1>2. ASSUME NEW n \in Nat, n \in Good
      PROVE  n + 1 \in Good
  <2>1. PICK f : f = E(f, n)
    BY <1>2
  <2> DEFINE g == [d \in 0 .. n + 1 |-> IF d <= n THEN f[d] ELSE Round(f[n])]
  <2>2. \A d \in 0 .. n : f[d] = IF d = 0 THEN [current |-> s, index |-> leaf, branch |-> <<>>]
                                 ELSE Round(f[d - 1])
    BY <2>1
  <2>3. ASSUME NEW d \in 0 .. n + 1
        PROVE  g[d] = IF d = 0 THEN [current |-> s, index |-> leaf, branch |-> <<>>] ELSE Round(g[d - 1])
    <3>1. CASE d = n + 1
      <4>1. g[d] = Round(f[n]) /\ g[d - 1] = f[n] /\ d # 0
        BY <3>1
      <4> HIDE DEF g
      <4> QED BY <3>1, <4>1
    <3>2. CASE d # n + 1
      <4>1. d \in 0 .. n /\ g[d] = f[d] /\ (d # 0 => g[d - 1] = f[d - 1])
        BY <3>2
      <4> HIDE DEF g
      <4> QED BY <2>2, <4>1
    <3> QED BY <3>1, <3>2
  <2>4. n + 1 \in Nat
    OBVIOUS
  <2>5. g = E(g, n + 1)
    <3>1. g = [d \in 0 .. n + 1 |-> g[d]]
      OBVIOUS
    <3> HIDE DEF g
    <3> QED BY <2>3, <3>1
  <2> HIDE DEF g, E
  <2> QED BY <2>4, <2>5
<1>3. \A d \in 0 .. Len(s) - 1 : d \in Good => d + 1 \in Good
  BY <1>2
<1>4. Len(s) \in Good
  <2> HIDE DEF Good
  <2>1. \A d \in 0 .. Len(s) : d \in Good
    BY <1>1, <1>3, Rounds
  <2> QED BY <2>1
<1> QED BY <1>4

\* So are those of the stratum's loop.
LEMMA StratumExists ==
  ASSUME NEW s, Len(s) \in Nat
  PROVE  \E f : f = [d \in 0 .. Len(s) |-> IF d = 0 THEN [level |-> s, branch |-> <<>>]
                                      ELSE StratumRound(f[d - 1])]
<1> DEFINE E(f, n) == [d \in 0 .. n |-> IF d = 0 THEN [level |-> s, branch |-> <<>>]
                                       ELSE StratumRound(f[d - 1])]
           Good == {n \in Nat : \E f : f = E(f, n)}
<1>1. 0 \in Good
  <2> DEFINE f == [d \in 0 .. 0 |-> [level |-> s, branch |-> <<>>]]
  <2>1. f = E(f, 0)
    OBVIOUS
  <2> QED BY <2>1
<1>2. ASSUME NEW n \in Nat, n \in Good
      PROVE  n + 1 \in Good
  <2>1. PICK f : f = E(f, n)
    BY <1>2
  <2> DEFINE g == [d \in 0 .. n + 1 |-> IF d <= n THEN f[d] ELSE StratumRound(f[n])]
  <2>2. \A d \in 0 .. n : f[d] = IF d = 0 THEN [level |-> s, branch |-> <<>>]
                                 ELSE StratumRound(f[d - 1])
    BY <2>1
  <2>3. ASSUME NEW d \in 0 .. n + 1
        PROVE  g[d] = IF d = 0 THEN [level |-> s, branch |-> <<>>] ELSE StratumRound(g[d - 1])
    <3>1. CASE d = n + 1
      <4>1. g[d] = StratumRound(f[n]) /\ g[d - 1] = f[n] /\ d # 0
        BY <3>1
      <4> HIDE DEF g
      <4> QED BY <3>1, <4>1
    <3>2. CASE d # n + 1
      <4>1. d \in 0 .. n /\ g[d] = f[d] /\ (d # 0 => g[d - 1] = f[d - 1])
        BY <3>2
      <4> HIDE DEF g
      <4> QED BY <2>2, <4>1
    <3> QED BY <3>1, <3>2
  <2>4. n + 1 \in Nat
    OBVIOUS
  <2>5. g = E(g, n + 1)
    <3>1. g = [d \in 0 .. n + 1 |-> g[d]]
      OBVIOUS
    <3> HIDE DEF g
    <3> QED BY <2>3, <3>1
  <2> HIDE DEF g, E
  <2> QED BY <2>4, <2>5
<1>3. \A d \in 0 .. Len(s) - 1 : d \in Good => d + 1 \in Good
  BY <1>2
<1>4. Len(s) \in Good
  <2> HIDE DEF Good
  <2>1. \A d \in 0 .. Len(s) : d \in Good
    BY <1>1, <1>3, Rounds
  <2> QED BY <2>1
<1> QED BY <1>4

\* So are the hashes of a miner on its way up.
LEMMA RootFromExists ==
  ASSUME NEW b, Len(b) \in Nat, NEW c
  PROVE  \E f : f = [d \in 0 .. Len(b) |-> IF d = 0 THEN c
                                      ELSE <<f[d - 1], b[d]>>]
<1> DEFINE E(f, n) == [d \in 0 .. n |-> IF d = 0 THEN c
                                       ELSE <<f[d - 1], b[d]>>]
           Good == {n \in Nat : \E f : f = E(f, n)}
<1>1. 0 \in Good
  <2> DEFINE f == [d \in 0 .. 0 |-> c]
  <2>1. f = E(f, 0)
    OBVIOUS
  <2> QED BY <2>1
<1>2. ASSUME NEW n \in Nat, n \in Good
      PROVE  n + 1 \in Good
  <2>1. PICK f : f = E(f, n)
    BY <1>2
  <2> DEFINE g == [d \in 0 .. n + 1 |-> IF d <= n THEN f[d] ELSE <<f[n], b[n + 1]>>]
  <2>2. \A d \in 0 .. n : f[d] = IF d = 0 THEN c
                                 ELSE <<f[d - 1], b[d]>>
    BY <2>1
  <2>3. ASSUME NEW d \in 0 .. n + 1
        PROVE  g[d] = IF d = 0 THEN c ELSE <<g[d - 1], b[d]>>
    <3>1. CASE d = n + 1
      <4>1. g[d] = <<f[n], b[n + 1]>> /\ g[d - 1] = f[n] /\ d # 0
        BY <3>1
      <4> HIDE DEF g
      <4> QED BY <3>1, <4>1
    <3>2. CASE d # n + 1
      <4>1. d \in 0 .. n /\ g[d] = f[d] /\ (d # 0 => g[d - 1] = f[d - 1])
        BY <3>2
      <4> HIDE DEF g
      <4> QED BY <2>2, <4>1
    <3> QED BY <3>1, <3>2
  <2>4. n + 1 \in Nat
    OBVIOUS
  <2>5. g = E(g, n + 1)
    <3>1. g = [d \in 0 .. n + 1 |-> g[d]]
      OBVIOUS
    <3> HIDE DEF g
    <3> QED BY <2>3, <3>1
  <2> HIDE DEF g, E
  <2> QED BY <2>4, <2>5
<1>3. \A d \in 0 .. Len(b) - 1 : d \in Good => d + 1 \in Good
  BY <1>2
<1>4. Len(b) \in Good
  <2> HIDE DEF Good
  <2>1. \A d \in 0 .. Len(b) : d \in Good
    BY <1>1, <1>3, Rounds
  <2> QED BY <2>1
<1> QED BY <1>4

\* So are those of an aux daemon.
LEMMA FollowExists ==
  ASSUME NEW b, Len(b) \in Nat, NEW x, NEW slot
  PROVE  \E f : f = [d \in 0 .. Len(b) |-> IF d = 0 THEN [node |-> x, index |-> slot]
                                      ELSE Hashed(f[d - 1], b[d])]
<1> DEFINE E(f, n) == [d \in 0 .. n |-> IF d = 0 THEN [node |-> x, index |-> slot]
                                       ELSE Hashed(f[d - 1], b[d])]
           Good == {n \in Nat : \E f : f = E(f, n)}
<1>1. 0 \in Good
  <2> DEFINE f == [d \in 0 .. 0 |-> [node |-> x, index |-> slot]]
  <2>1. f = E(f, 0)
    OBVIOUS
  <2> QED BY <2>1
<1>2. ASSUME NEW n \in Nat, n \in Good
      PROVE  n + 1 \in Good
  <2>1. PICK f : f = E(f, n)
    BY <1>2
  <2> DEFINE g == [d \in 0 .. n + 1 |-> IF d <= n THEN f[d] ELSE Hashed(f[n], b[n + 1])]
  <2>2. \A d \in 0 .. n : f[d] = IF d = 0 THEN [node |-> x, index |-> slot]
                                 ELSE Hashed(f[d - 1], b[d])
    BY <2>1
  <2>3. ASSUME NEW d \in 0 .. n + 1
        PROVE  g[d] = IF d = 0 THEN [node |-> x, index |-> slot] ELSE Hashed(g[d - 1], b[d])
    <3>1. CASE d = n + 1
      <4>1. g[d] = Hashed(f[n], b[n + 1]) /\ g[d - 1] = f[n] /\ d # 0
        BY <3>1
      <4> HIDE DEF g
      <4> QED BY <3>1, <4>1
    <3>2. CASE d # n + 1
      <4>1. d \in 0 .. n /\ g[d] = f[d] /\ (d # 0 => g[d - 1] = f[d - 1])
        BY <3>2
      <4> HIDE DEF g
      <4> QED BY <2>2, <4>1
    <3> QED BY <3>1, <3>2
  <2>4. n + 1 \in Nat
    OBVIOUS
  <2>5. g = E(g, n + 1)
    <3>1. g = [d \in 0 .. n + 1 |-> g[d]]
      OBVIOUS
    <3> HIDE DEF g
    <3> QED BY <2>3, <3>1
  <2> HIDE DEF g, E
  <2> QED BY <2>4, <2>5
<1>3. \A d \in 0 .. Len(b) - 1 : d \in Good => d + 1 \in Good
  BY <1>2
<1>4. Len(b) \in Good
  <2> HIDE DEF Good
  <2>1. \A d \in 0 .. Len(b) : d \in Good
    BY <1>1, <1>3, Rounds
  <2> QED BY <2>1
<1> QED BY <1>4

\* The climb, round by round.
LEMMA ClimbIs ==
  ASSUME NEW s, Len(s) \in Nat, NEW leaf
  PROVE  /\ Climb(s, leaf)[0] = [current |-> s, index |-> leaf, branch |-> <<>>]
         /\ \A d \in 1 .. Len(s) : Climb(s, leaf)[d] = Round(Climb(s, leaf)[d - 1])
<1> DEFINE E(f) == [d \in 0 .. Len(s) |->
                      IF d = 0 THEN [current |-> s, index |-> leaf, branch |-> <<>>]
                      ELSE Round(f[d - 1])]
           loop == CHOOSE f : f = E(f)
<1>1. \E f : f = E(f)
  BY ClimbExists
<1>2. loop = E(loop)
  <2> HIDE DEF E
  <2> QED BY <1>1
<1>3. Climb(s, leaf) = loop
  BY DEF Climb
<1> HIDE DEF loop
<1>4. \A d \in 0 .. Len(s) : loop[d] =
        IF d = 0 THEN [current |-> s, index |-> leaf, branch |-> <<>>]
        ELSE Round(loop[d - 1])
  BY <1>2
<1> QED BY <1>3, <1>4

\* The stratum's loop, round by round.
LEMMA StratumClimbIs ==
  ASSUME NEW s, Len(s) \in Nat
  PROVE  /\ StratumClimb(s)[0] = [level |-> s, branch |-> <<>>]
         /\ \A d \in 1 .. Len(s) : StratumClimb(s)[d] = StratumRound(StratumClimb(s)[d - 1])
<1> DEFINE E(f) == [d \in 0 .. Len(s) |->
                      IF d = 0 THEN [level |-> s, branch |-> <<>>] ELSE StratumRound(f[d - 1])]
           loop == CHOOSE f : f = E(f)
<1>1. \E f : f = E(f)
  BY StratumExists
<1>2. loop = E(loop)
  <2> HIDE DEF E
  <2> QED BY <1>1
<1>3. StratumClimb(s) = loop
  BY DEF StratumClimb
<1> HIDE DEF loop
<1>4. \A d \in 0 .. Len(s) : loop[d] =
        IF d = 0 THEN [level |-> s, branch |-> <<>>] ELSE StratumRound(loop[d - 1])
  BY <1>2
<1> QED BY <1>3, <1>4

\* A hash more on the branch is a hash more on the way up.
LEMMA RootFromIs ==
  ASSUME NEW b, IsTuple(b), NEW c, NEW x
  PROVE  /\ RootFrom(c, <<>>) = c
         /\ RootFrom(c, Append(b, x)) = <<RootFrom(c, b), x>>
<1> DEFINE E(f, s) == [k \in 0 .. Len(s) |-> IF k = 0 THEN c ELSE <<f[k - 1], s[k]>>]
           way(s) == CHOOSE f : f = E(f, s)
<1>1. ASSUME NEW s, Len(s) \in Nat
      PROVE  /\ RootFrom(c, s) = way(s)[Len(s)]
             /\ way(s)[0] = c
             /\ \A k \in 1 .. Len(s) : way(s)[k] = <<way(s)[k - 1], s[k]>>
  <2>1. \E f : f = E(f, s)
    BY <1>1, RootFromExists
  <2>2. way(s) = E(way(s), s)
    <3> HIDE DEF E
    <3> QED BY <2>1
  <2>3. RootFrom(c, s) = way(s)[Len(s)]
    BY DEF RootFrom
  <2> HIDE DEF way
  <2>4. \A k \in 0 .. Len(s) : way(s)[k] = IF k = 0 THEN c ELSE <<way(s)[k - 1], s[k]>>
    BY <2>2
  <2>5. way(s)[0] = c
    <3>1. 0 \in 0 .. Len(s)
      BY <1>1
    <3> QED BY <2>4, <3>1, Zenon
  <2>6. ASSUME NEW k \in 1 .. Len(s)
        PROVE  way(s)[k] = <<way(s)[k - 1], s[k]>>
    <3>1. k \in 0 .. Len(s) /\ k # 0
      BY <1>1
    <3> QED BY <2>4, <3>1
  <2> QED BY <2>3, <2>5, <2>6
<1> HIDE DEF way
<1>2. RootFrom(c, <<>>) = c
  <2>1. Len(<<>>) = 0
    OBVIOUS
  <2> QED BY <1>1, <2>1
<1> DEFINE t == Append(b, x)
<1>3. /\ Len(b) \in Nat /\ Len(t) = Len(b) + 1 /\ Len(t) \in Nat
      /\ t[Len(b) + 1] = x /\ \A k \in 1 .. Len(b) : t[k] = b[k]
  BY AppendTuple DEF IsTuple
<1> HIDE DEF t
<1> DEFINE Good == {k \in 0 .. Len(b) : way(t)[k] = way(b)[k]}
<1>4. 0 \in Good
  BY <1>1, <1>3
<1>5. ASSUME NEW k \in 0 .. Len(b) - 1, k \in Good
      PROVE  k + 1 \in Good
  <2>1. /\ k + 1 \in 1 .. Len(b) /\ k + 1 \in 1 .. Len(t) /\ (k + 1) - 1 = k
        /\ way(t)[k] = way(b)[k]
    BY <1>3, <1>5
  <2>2. way(t)[k + 1] = <<way(t)[k], t[k + 1]>> /\ way(b)[k + 1] = <<way(b)[k], b[k + 1]>>
    BY <1>1, <1>3, <2>1
  <2> QED BY <1>3, <2>1, <2>2
<1>6. way(t)[Len(b)] = way(b)[Len(b)]
  <2> HIDE DEF Good
  <2>1. \A k \in 0 .. Len(b) : k \in Good
    BY <1>3, <1>4, <1>5, Rounds
  <2>2. Len(b) \in Good
    BY <1>3, <2>1
  <2> QED BY <2>2 DEF Good
<1>7. way(t)[Len(b) + 1] = <<way(t)[Len(b)], x>>
  <2>1. Len(b) + 1 \in 1 .. Len(t) /\ (Len(b) + 1) - 1 = Len(b)
    BY <1>3
  <2> QED BY <1>1, <1>3, <2>1
<1>8. RootFrom(c, t) = <<RootFrom(c, b), x>>
  BY <1>1, <1>3, <1>6, <1>7
<1> QED BY <1>2, <1>8 DEF t

\* The same for an aux daemon.
LEMMA FollowIs ==
  ASSUME NEW b, IsTuple(b), NEW x, NEW slot, NEW y
  PROVE  /\ Follow(x, <<>>, slot) = [node |-> x, index |-> slot]
         /\ Follow(x, Append(b, y), slot) = Hashed(Follow(x, b, slot), y)
<1> DEFINE E(f, s) == [k \in 0 .. Len(s) |-> IF k = 0 THEN [node |-> x, index |-> slot]
                                            ELSE Hashed(f[k - 1], s[k])]
           way(s) == CHOOSE f : f = E(f, s)
<1>1. ASSUME NEW s, Len(s) \in Nat
      PROVE  /\ Follow(x, s, slot) = way(s)[Len(s)]
             /\ way(s)[0] = [node |-> x, index |-> slot]
             /\ \A k \in 1 .. Len(s) : way(s)[k] = Hashed(way(s)[k - 1], s[k])
  <2>1. \E f : f = E(f, s)
    <3>1. \E f : f = [d \in 0 .. Len(s) |-> IF d = 0 THEN [node |-> x, index |-> slot]
                                           ELSE Hashed(f[d - 1], s[d])]
      BY <1>1, FollowExists
    <3> QED BY <3>1
  <2>2. way(s) = E(way(s), s)
    <3> HIDE DEF E
    <3> QED BY <2>1
  <2>3. Follow(x, s, slot) = way(s)[Len(s)]
    BY DEF Follow
  <2> HIDE DEF way
  <2>4. \A k \in 0 .. Len(s) : way(s)[k] = IF k = 0 THEN [node |-> x, index |-> slot]
                                            ELSE Hashed(way(s)[k - 1], s[k])
    BY <2>2
  <2>5. way(s)[0] = [node |-> x, index |-> slot]
    <3>1. 0 \in 0 .. Len(s)
      BY <1>1
    <3> QED BY <2>4, <3>1, Zenon
  <2>6. ASSUME NEW k \in 1 .. Len(s)
        PROVE  way(s)[k] = Hashed(way(s)[k - 1], s[k])
    <3>1. k \in 0 .. Len(s) /\ k # 0
      BY <1>1
    <3> QED BY <2>4, <3>1
  <2> QED BY <2>3, <2>5, <2>6
<1> HIDE DEF way
<1>2. Follow(x, <<>>, slot) = [node |-> x, index |-> slot]
  <2>1. Len(<<>>) = 0
    OBVIOUS
  <2> QED BY <1>1, <2>1
<1> DEFINE t == Append(b, y)
<1>3. /\ Len(b) \in Nat /\ Len(t) = Len(b) + 1 /\ Len(t) \in Nat
      /\ t[Len(b) + 1] = y /\ \A k \in 1 .. Len(b) : t[k] = b[k]
  BY AppendTuple DEF IsTuple
<1> HIDE DEF t
<1> DEFINE Good == {k \in 0 .. Len(b) : way(t)[k] = way(b)[k]}
<1>4. 0 \in Good
  BY <1>1, <1>3
<1>5. ASSUME NEW k \in 0 .. Len(b) - 1, k \in Good
      PROVE  k + 1 \in Good
  <2>1. /\ k + 1 \in 1 .. Len(b) /\ k + 1 \in 1 .. Len(t) /\ (k + 1) - 1 = k
        /\ way(t)[k] = way(b)[k]
    BY <1>3, <1>5
  <2>2. way(t)[k + 1] = Hashed(way(t)[k], t[k + 1]) /\ way(b)[k + 1] = Hashed(way(b)[k], b[k + 1])
    BY <1>1, <1>3, <2>1
  <2> QED BY <1>3, <2>1, <2>2
<1>6. way(t)[Len(b)] = way(b)[Len(b)]
  <2> HIDE DEF Good
  <2>1. \A k \in 0 .. Len(b) : k \in Good
    BY <1>3, <1>4, <1>5, Rounds
  <2>2. Len(b) \in Good
    BY <1>3, <2>1
  <2> QED BY <2>2 DEF Good
<1>7. way(t)[Len(b) + 1] = Hashed(way(t)[Len(b)], y)
  <2>1. Len(b) + 1 \in 1 .. Len(t) /\ (Len(b) + 1) - 1 = Len(b)
    BY <1>3
  <2> QED BY <1>1, <1>3, <2>1
<1>8. Follow(x, t, slot) = Hashed(Follow(x, b, slot), y)
  BY <1>1, <1>3, <1>6, <1>7
<1> QED BY <1>2, <1>8 DEF t

-----------------------------------------------------------------------------
(* Climbing a tree.                                                        *)

\* What holds of a climb after d rounds: there is a node at its index, and the
\* level has shrunk.
OnTheWay(at, s, d) ==
  /\ IsTuple(at.current)
  /\ Len(at.current) >= 1
  /\ Len(at.current) = 1 \/ Len(at.current) + d <= Len(s)
  /\ at.index \in 0 .. Len(at.current) - 1
  /\ IsTuple(at.branch)

\* A round above a single node.
LEMMA RoundIs ==
  ASSUME NEW s, Len(s) \in Nat, NEW d \in Nat, NEW at, OnTheWay(at, s, d)
  PROVE  /\ OnTheWay(Round(at), s, d + 1)
         /\ Len(at.current) = 1 => Round(at) = at
         /\ Len(at.current) > 1 =>
              /\ Round(at).current = Level(at.current)
              /\ Round(at).index = at.index \div 2
              /\ Round(at).branch =
                   IF Sibling(at.index) < Len(at.current)
                   THEN Append(at.branch, at.current[Sibling(at.index) + 1])
                   ELSE at.branch
<1> DEFINE n == Len(at.current)
           up == Round(at)
<1>1. n \in Nat /\ n >= 1
  BY DEF OnTheWay, IsTuple
<1>2. CASE n = 1
  <2>1. up = at
    BY <1>2 DEF Round
  <2>2. OnTheWay(at, s, d + 1)
    BY <1>2 DEF OnTheWay
  <2> HIDE DEF up
  <2> QED BY <1>2, <2>1, <2>2 DEF up
<1>3. CASE n > 1
  <2>1. /\ up.current = Level(at.current)
        /\ up.index = at.index \div 2
        /\ up.branch = IF Sibling(at.index) < n
                       THEN Append(at.branch, at.current[Sibling(at.index) + 1])
                       ELSE at.branch
    BY <1>1, <1>3 DEF Round
  <2> HIDE DEF up
  <2>2. IsTuple(up.current) /\ Len(up.current) = (n + 1) \div 2
    BY <2>1, LevelIs DEF OnTheWay
  <2>3. n + d <= Len(s) /\ at.index \in 0 .. n - 1
    <3>1. n # 1
      <4> HIDE DEF n
      <4> QED BY <1>1, <1>3
    <3> QED BY <3>1 DEF OnTheWay
  <2>4. /\ (n + 1) \div 2 >= 1 /\ (n + 1) \div 2 + (d + 1) <= Len(s)
        /\ at.index \div 2 \in 0 .. (n + 1) \div 2 - 1
    <3> HIDE DEF n
    <3> QED BY <1>1, <1>3, <2>3
  <2>5. IsTuple(up.branch)
    BY <2>1, AppendTuple DEF OnTheWay
  <2> HIDE DEF n
  <2>6. OnTheWay(up, s, d + 1)
    BY <2>1, <2>2, <2>4, <2>5 DEF OnTheWay
  <2>7. n # 1
    BY <1>1, <1>3
  <2> QED BY <2>1, <2>6, <2>7 DEF up, n
<1>4. n = 1 \/ n > 1
  <2> HIDE DEF n
  <2> QED BY <1>1
<1> QED BY <1>2, <1>3, <1>4, Zenon

\* A level on the way up is a single node or has more than one.
LEMMA WayLength ==
  ASSUME NEW s, NEW d, NEW at, OnTheWay(at, s, d)
  PROVE  /\ Len(at.current) \in Nat /\ Len(at.current) >= 1
         /\ Len(at.current) = 1 \/ Len(at.current) > 1
<1> DEFINE n == Len(at.current)
<1>1. n \in Nat /\ n >= 1
  BY DEF OnTheWay, IsTuple
<1> HIDE DEF n
<1>2. n = 1 \/ n > 1
  BY <1>1
<1> QED BY <1>1, <1>2 DEF n

\* Every round of a climb keeps what OnTheWay says.
LEMMA ClimbShape ==
  ASSUME NEW s, IsTuple(s), Len(s) >= 1, NEW leaf \in 0 .. Len(s) - 1
  PROVE  \A d \in 0 .. Len(s) : OnTheWay(Climb(s, leaf)[d], s, d)
<1> DEFINE Good == {d \in 0 .. Len(s) : OnTheWay(Climb(s, leaf)[d], s, d)}
<1>0. Len(s) \in Nat
  BY DEF IsTuple
<1>1. 0 \in Good
  <2> DEFINE at == [current |-> s, index |-> leaf, branch |-> <<>>]
  <2>1. IsTuple(at.branch)
    <3>1. <<>> = [i \in 1 .. 0 |-> <<>>[i]]
      OBVIOUS
    <3> QED BY <3>1, TupleOfFun
  <2>2. OnTheWay(at, s, 0)
    BY <1>0, <2>1 DEF OnTheWay
  <2> HIDE DEF at
  <2>3. Climb(s, leaf)[0] = at
    BY <1>0, ClimbIs DEF at
  <2> QED BY <1>0, <2>2, <2>3
<1>2. ASSUME NEW d \in 0 .. Len(s) - 1, d \in Good
      PROVE  d + 1 \in Good
  <2>1. d \in Nat /\ d + 1 \in 1 .. Len(s) /\ d + 1 \in 0 .. Len(s) /\ (d + 1) - 1 = d
    BY <1>0
  <2>2. Climb(s, leaf)[d + 1] = Round(Climb(s, leaf)[d])
    BY <1>0, <2>1, ClimbIs
  <2>3. OnTheWay(Climb(s, leaf)[d + 1], s, d + 1)
    BY <1>0, <1>2, <2>1, <2>2, RoundIs
  <2> QED BY <2>1, <2>3
<1>3. \A d \in 0 .. Len(s) : d \in Good
  <2> HIDE DEF Good
  <2> QED BY <1>0, <1>1, <1>2, Rounds
<1> QED BY <1>3

\* A climb ends at a single node.
LEMMA TopIs ==
  ASSUME NEW s, IsTuple(s), Len(s) >= 1, NEW leaf \in 0 .. Len(s) - 1
  PROVE  \E d \in 0 .. Len(s) : /\ Top(s, leaf) = Climb(s, leaf)[d]
                                /\ Len(Climb(s, leaf)[d].current) = 1
<1> DEFINE loop == Climb(s, leaf)
           d == CHOOSE d \in 0 .. Len(s) : Len(loop[d].current) <= 1
<1>0. Len(s) \in Nat /\ Len(s) \in 0 .. Len(s)
  BY DEF IsTuple
<1>1. \A e \in 0 .. Len(s) : OnTheWay(loop[e], s, e)
  BY ClimbShape
<1>2. Top(s, leaf) = loop[d]
  BY DEF Top
<1> HIDE DEF loop
<1>3. Len(loop[Len(s)].current) <= 1
  <2>1. OnTheWay(loop[Len(s)], s, Len(s))
    BY <1>0, <1>1
  <2> DEFINE n == Len(loop[Len(s)].current)
  <2>2. n \in Nat /\ (n = 1 \/ n > 1) /\ (n = 1 \/ n + Len(s) <= Len(s))
    BY <2>1, WayLength DEF OnTheWay
  <2> HIDE DEF n
  <2>3. n <= 1
    BY <1>0, <2>2
  <2> QED BY <2>3 DEF n
<1>4. d \in 0 .. Len(s) /\ Len(loop[d].current) <= 1
  BY <1>0, <1>3
<1> HIDE DEF d
<1>5. Len(loop[d].current) = 1
  <2>1. OnTheWay(loop[d], s, d)
    BY <1>1, <1>4
  <2> DEFINE n == Len(loop[d].current)
  <2>2. n \in Nat /\ n >= 1 /\ n <= 1
    BY <1>4, <2>1, WayLength
  <2> HIDE DEF n
  <2>3. n = 1
    BY <2>2
  <2> QED BY <2>3 DEF n
<1> QED BY <1>2, <1>4, <1>5 DEF loop

\* The levels do not depend on the leaf the climb starts from.
LEMMA SameLevels ==
  ASSUME NEW s, IsTuple(s), Len(s) >= 1,
         NEW leaf \in 0 .. Len(s) - 1, NEW other \in 0 .. Len(s) - 1
  PROVE  /\ \A d \in 0 .. Len(s) : Climb(s, leaf)[d].current = Climb(s, other)[d].current
         /\ Top(s, leaf).current = Top(s, other).current
<1> DEFINE F == Climb(s, leaf)
           G == Climb(s, other)
           Good == {d \in 0 .. Len(s) : F[d].current = G[d].current}
<1>0. Len(s) \in Nat
  BY DEF IsTuple
<1>1. /\ F[0].current = s /\ G[0].current = s
      /\ \A d \in 1 .. Len(s) : F[d] = Round(F[d - 1]) /\ G[d] = Round(G[d - 1])
      /\ \A d \in 0 .. Len(s) : OnTheWay(F[d], s, d) /\ OnTheWay(G[d], s, d)
  <2>1. F[0].current = s /\ G[0].current = s
    <3>1. /\ F[0] = [current |-> s, index |-> leaf, branch |-> <<>>]
          /\ G[0] = [current |-> s, index |-> other, branch |-> <<>>]
      BY <1>0, ClimbIs
    <3> HIDE DEF F, G
    <3> QED BY <3>1
  <2> QED BY <1>0, <2>1, ClimbIs, ClimbShape
<1>2. Top(s, leaf) = F[CHOOSE d \in 0 .. Len(s) : Len(F[d].current) <= 1]
  BY DEF Top
<1>3. Top(s, other) = G[CHOOSE d \in 0 .. Len(s) : Len(G[d].current) <= 1]
  BY DEF Top
<1> HIDE DEF F, G
<1>4. 0 \in Good
  BY <1>0, <1>1
<1>5. ASSUME NEW d \in 0 .. Len(s) - 1, d \in Good
      PROVE  d + 1 \in Good
  <2>1. /\ d \in Nat /\ d \in 0 .. Len(s) /\ d + 1 \in 1 .. Len(s)
        /\ d + 1 \in 0 .. Len(s) /\ (d + 1) - 1 = d
    BY <1>0
  <2>2. /\ F[d + 1] = Round(F[d]) /\ G[d + 1] = Round(G[d])
        /\ OnTheWay(F[d], s, d) /\ OnTheWay(G[d], s, d)
        /\ F[d].current = G[d].current
    BY <1>1, <1>5, <2>1
  <2>3. Len(F[d].current) = 1 \/ Len(F[d].current) > 1
    BY <2>2, WayLength
  <2>4. CASE Len(F[d].current) = 1
    <3>1. Round(F[d]) = F[d] /\ Round(G[d]) = G[d]
      BY <1>0, <2>1, <2>2, <2>4, RoundIs
    <3> QED BY <2>1, <2>2, <3>1
  <2>5. CASE Len(F[d].current) > 1
    <3>1. Round(F[d]).current = Level(F[d].current) /\ Round(G[d]).current = Level(G[d].current)
      BY <1>0, <2>1, <2>2, <2>5, RoundIs
    <3> QED BY <2>1, <2>2, <3>1
  <2> QED BY <2>3, <2>4, <2>5
<1>6. \A d \in 0 .. Len(s) : F[d].current = G[d].current
  <2>1. \A d \in 0 .. Len(s) : d \in Good
    <3> HIDE DEF Good
    <3> QED BY <1>0, <1>4, <1>5, Rounds
  <2> QED BY <2>1
<1>7. Top(s, leaf).current = Top(s, other).current
  <2> DEFINE f == CHOOSE d \in 0 .. Len(s) : Len(F[d].current) <= 1
             g == CHOOSE d \in 0 .. Len(s) : Len(G[d].current) <= 1
  <2>1. f = g
    BY <1>6
  <2>2. f \in 0 .. Len(s)
    <3>1. PICK d \in 0 .. Len(s) : Len(F[d].current) = 1
      BY TopIs DEF F
    <3>2. Len(F[d].current) <= 1
      BY <3>1
    <3> QED BY <3>2
  <2>3. Top(s, leaf) = F[f] /\ Top(s, other) = G[g]
    BY <1>2, <1>3
  <2> HIDE DEF f, g
  <2> QED BY <1>6, <2>1, <2>2, <2>3
<1> QED BY <1>6, <1>7 DEF F, G

-----------------------------------------------------------------------------
(* The roots agree.                                                        *)

\* The branch of the first leaf leads back to the root: a hash at a time on the
\* way up, the running hash is the first node of the level.
LEMMA CoinbaseLeads ==
  ASSUME NEW s, IsTuple(s), Len(s) >= 1
  PROVE  RootFrom(s[1], CoinbaseBranch(s)) = Root(s)
<1> DEFINE F == Climb(s, 0)
           Good == {d \in 0 .. Len(s) : /\ F[d].index = 0
                                        /\ RootFrom(s[1], F[d].branch) = F[d].current[1]}
<1>0. Len(s) \in Nat /\ 0 \in 0 .. Len(s) - 1
  BY DEF IsTuple
<1>1. /\ F[0] = [current |-> s, index |-> 0, branch |-> <<>>]
      /\ \A d \in 1 .. Len(s) : F[d] = Round(F[d - 1])
      /\ \A d \in 0 .. Len(s) : OnTheWay(F[d], s, d)
  BY <1>0, ClimbIs, ClimbShape
<1>2. PICK d \in 0 .. Len(s) : Top(s, 0) = F[d]
  BY <1>0, TopIs
<1> HIDE DEF F
<1>3. 0 \in Good
  <2>1. F[0].index = 0 /\ F[0].branch = <<>> /\ F[0].current = s
    BY <1>1
  <2>2. RootFrom(s[1], <<>>) = s[1]
    BY RootFromIs
  <2> QED BY <1>0, <2>1, <2>2
<1>4. ASSUME NEW e \in 0 .. Len(s) - 1, e \in Good
      PROVE  e + 1 \in Good
  <2> DEFINE n == Len(F[e].current)
  <2>1. /\ e \in Nat /\ e + 1 \in 1 .. Len(s) /\ e + 1 \in 0 .. Len(s) /\ (e + 1) - 1 = e
        /\ e \in 0 .. Len(s)
    BY <1>0
  <2>2. /\ F[e + 1] = Round(F[e]) /\ OnTheWay(F[e], s, e)
        /\ F[e].index = 0 /\ RootFrom(s[1], F[e].branch) = F[e].current[1]
    BY <1>1, <1>4, <2>1
  <2>3. n \in Nat /\ (n = 1 \/ n > 1)
    BY <2>2, WayLength
  <2>4. CASE n = 1
    <3>1. F[e + 1] = F[e]
      BY <1>0, <2>1, <2>2, <2>4, RoundIs
    <3> QED BY <2>1, <2>2, <3>1
  <2>5. CASE n > 1
    <3>1. /\ F[e + 1].current = Level(F[e].current)
          /\ F[e + 1].index = 0 \div 2
          /\ F[e + 1].branch = IF Sibling(0) < n
                               THEN Append(F[e].branch, F[e].current[Sibling(0) + 1])
                               ELSE F[e].branch
      BY <1>0, <2>1, <2>2, <2>5, RoundIs
    <3>2. Sibling(0) = 1 /\ 0 \div 2 = 0 /\ Sibling(0) + 1 = 2 /\ Sibling(0) < n
      <4> HIDE DEF n
      <4> QED BY <2>3, <2>5 DEF Sibling
    <3>3. F[e + 1].branch = Append(F[e].branch, F[e].current[2])
      BY <2>5, <3>1, <3>2
    <3>4. RootFrom(s[1], F[e + 1].branch) = <<F[e].current[1], F[e].current[2]>>
      BY <2>2, <3>3, RootFromIs DEF OnTheWay
    <3>5. F[e + 1].current[1] = <<F[e].current[1], F[e].current[2]>>
      <4> DEFINE c == F[e].current
      <4>1. IsTuple(c) /\ Len(c) >= 1
        BY <2>2 DEF OnTheWay
      <4>2. 1 \in 1 .. (Len(c) + 1) \div 2 /\ 2 * 1 <= Len(c) /\ 2 * 1 - 1 = 1 /\ 2 * 1 = 2
        <5> HIDE DEF c
        <5>1. Len(c) \in Nat /\ Len(c) > 1
          BY <2>3, <2>5 DEF c
        <5> QED BY <5>1
      <4> HIDE DEF c
      <4>3. Level(c)[1] = <<c[2 * 1 - 1], IF 2 * 1 <= Len(c) THEN c[2 * 1] ELSE c[Len(c)]>>
        BY <4>1, <4>2, LevelIs
      <4>4. Level(c)[1] = <<c[1], c[2]>>
        BY <4>2, <4>3
      <4> QED BY <3>1, <4>4 DEF c
    <3> QED BY <2>1, <3>1, <3>2, <3>4, <3>5
  <2> QED BY <2>3, <2>4, <2>5
<1>5. d \in Good
  <2>1. \A e \in 0 .. Len(s) : e \in Good
    <3> HIDE DEF Good
    <3> QED BY <1>0, <1>3, <1>4, Rounds
  <2> QED BY <2>1
<1>6. RootFrom(s[1], F[d].branch) = F[d].current[1]
  BY <1>5
<1>7. CoinbaseBranch(s) = Top(s, 0).branch /\ Root(s) = Top(s, 0).current[1]
  BY DEF CoinbaseBranch, Branch, Root
<1> QED BY <1>2, <1>6, <1>7

\* The loop of the stratum goes through the same levels but for their first
\* nodes, which it never puts into a branch.
LEMMA StratumIsCoinbase ==
  ASSUME NEW hashes, IsTuple(hashes), NEW s, IsTuple(s), Len(s) = Len(hashes) + 1,
         \A i \in 1 .. Len(hashes) : s[i + 1] = hashes[i]
  PROVE  StratumBranches(hashes) = CoinbaseBranch(s)
<1> DEFINE t == <<Empty>> \o hashes
           F == Climb(s, 0)
           G == StratumClimb(t)
           Alike(d) == /\ IsTuple(G[d].level)
                       /\ Len(G[d].level) = Len(F[d].current)
                       /\ \A i \in 2 .. Len(F[d].current) : G[d].level[i] = F[d].current[i]
                       /\ G[d].branch = F[d].branch
                       /\ F[d].index = 0
           Good == {d \in 0 .. Len(s) : Alike(d)}
<1>0. Len(hashes) \in Nat /\ Len(s) \in Nat /\ Len(s) >= 1 /\ 0 \in 0 .. Len(s) - 1
  BY DEF IsTuple
<1>1. IsTuple(t) /\ Len(t) = Len(s) /\ \A i \in 2 .. Len(s) : t[i] = s[i]
  <2> DEFINE e == <<Empty>>
  <2>1. IsTuple(e) /\ Len(e) = 1
    <3>1. e = [i \in 1 .. 1 |-> e[i]]
      OBVIOUS
    <3> HIDE DEF e
    <3> QED BY <3>1, TupleOfFun
  <2> HIDE DEF e
  <2>2. /\ IsTuple(e \o hashes)
        /\ Len(e \o hashes) = 1 + Len(hashes)
        /\ \A i \in 1 .. 1 + Len(hashes) :
             (e \o hashes)[i] = IF i <= 1 THEN e[i] ELSE hashes[i - 1]
    <3>1. /\ IsTuple(e \o hashes)
          /\ Len(e \o hashes) = Len(e) + Len(hashes)
          /\ \A i \in 1 .. Len(e) + Len(hashes) :
               (e \o hashes)[i] = IF i <= Len(e) THEN e[i] ELSE hashes[i - Len(e)]
      BY <2>1, ConcatTuple
    <3> QED BY <2>1, <3>1
  <2>3. ASSUME NEW i \in 2 .. Len(s)
        PROVE  (e \o hashes)[i] = s[i]
    <3>1. i \in 1 .. 1 + Len(hashes) /\ ~(i <= 1) /\ i - 1 \in 1 .. Len(hashes) /\ (i - 1) + 1 = i
      BY <1>0
    <3>2. (e \o hashes)[i] = hashes[i - 1]
      BY <2>2, <3>1
    <3>3. s[(i - 1) + 1] = hashes[i - 1]
      BY <3>1
    <3> QED BY <3>1, <3>2, <3>3
  <2>4. Len(e \o hashes) = Len(s)
    BY <1>0, <2>2
  <2> QED BY <2>2, <2>3, <2>4 DEF e
<1>2. /\ F[0] = [current |-> s, index |-> 0, branch |-> <<>>]
      /\ \A d \in 1 .. Len(s) : F[d] = Round(F[d - 1])
      /\ \A d \in 0 .. Len(s) : OnTheWay(F[d], s, d)
  BY <1>0, ClimbIs, ClimbShape
<1>3. /\ G[0] = [level |-> t, branch |-> <<>>]
      /\ \A d \in 1 .. Len(s) : G[d] = StratumRound(G[d - 1])
  <2> HIDE DEF t
  <2> QED BY <1>0, <1>1, StratumClimbIs
<1>4. \E d \in 0 .. Len(s) : Len(F[d].current) = 1
  BY <1>0, TopIs
<1>5. CoinbaseBranch(s) = F[CHOOSE d \in 0 .. Len(s) : Len(F[d].current) <= 1].branch
  BY DEF CoinbaseBranch, Branch, Top
<1>6. hashes # <<>> =>
        StratumBranches(hashes) = G[CHOOSE d \in 0 .. Len(hashes) + 1 : Len(G[d].level) <= 1].branch
  BY DEF StratumBranches
<1> HIDE DEF F, G, t
<1>7. 0 \in Good
  <2>1. /\ F[0].index = 0 /\ F[0].branch = <<>> /\ F[0].current = s
        /\ G[0].level = t /\ G[0].branch = <<>>
    BY <1>2, <1>3
  <2> QED BY <1>0, <1>1, <2>1
<1>8. ASSUME NEW d \in 0 .. Len(s) - 1, d \in Good
      PROVE  d + 1 \in Good
  <2> DEFINE c == F[d].current
             l == G[d].level
             n == Len(c)
  <2>1. /\ d \in Nat /\ d + 1 \in 1 .. Len(s) /\ d + 1 \in 0 .. Len(s) /\ (d + 1) - 1 = d
        /\ d \in 0 .. Len(s)
    BY <1>0
  <2>2. /\ F[d + 1] = Round(F[d]) /\ G[d + 1] = StratumRound(G[d]) /\ OnTheWay(F[d], s, d)
        /\ Alike(d)
    BY <1>2, <1>3, <1>8, <2>1
  <2>3. n \in Nat /\ n >= 1 /\ (n = 1 \/ n > 1) /\ IsTuple(c)
    BY <2>2, WayLength DEF OnTheWay
  <2>4. CASE n = 1
    <3>1. F[d + 1] = F[d]
      BY <1>0, <2>1, <2>2, <2>4, RoundIs
    <3>2. G[d + 1] = G[d]
      BY <2>2, <2>4 DEF StratumRound
    <3>3. Alike(d + 1)
      BY <2>2, <3>1, <3>2
    <3> QED BY <2>1, <3>3
  <2>5. CASE n > 1
    <3>1. /\ F[d + 1].current = Level(c)
          /\ F[d + 1].index = 0 \div 2
          /\ F[d + 1].branch = IF Sibling(0) < n THEN Append(F[d].branch, c[Sibling(0) + 1])
                               ELSE F[d].branch
      BY <1>0, <2>1, <2>2, <2>5, RoundIs
    <3>2. Sibling(0) = 1 /\ 0 \div 2 = 0 /\ Sibling(0) + 1 = 2 /\ Sibling(0) < n
      <4> HIDE DEF n
      <4> QED BY <2>3, <2>5 DEF Sibling
    <3>3. F[d + 1].branch = Append(F[d].branch, c[2]) /\ F[d + 1].index = 0
      BY <2>5, <3>1, <3>2
    <3>4. G[d + 1].level = StratumLevel(l) /\ G[d + 1].branch = Append(G[d].branch, l[2])
      <4>1. ~(Len(l) <= 1)
        BY <2>2, <2>3, <2>5
      <4> QED BY <2>2, <4>1 DEF StratumRound
    <3>5. l[2] = c[2] /\ G[d].branch = F[d].branch
      <4>1. 2 \in 2 .. n
        BY <2>3, <2>5
      <4> QED BY <2>2, <4>1
    <3>6. IsTuple(l) /\ Len(c) = Len(l) /\ \A i \in 2 .. Len(c) : l[i] = c[i]
      BY <2>2
    <3> HIDE DEF c, l
    <3>7. /\ IsTuple(StratumLevel(l))
          /\ Len(StratumLevel(l)) = Len(Level(c))
          /\ \A i \in 2 .. Len(Level(c)) : StratumLevel(l)[i] = Level(c)[i]
      BY <2>3, <3>6, StratumLevelIs
    <3>8. Alike(d + 1)
      BY <3>1, <3>3, <3>4, <3>5, <3>7
    <3> HIDE DEF Alike
    <3> QED BY <2>1, <3>8
  <2> QED BY <2>3, <2>4, <2>5
<1>9. \A d \in 0 .. Len(s) : Alike(d)
  <2>1. \A d \in 0 .. Len(s) : d \in Good
    <3> HIDE DEF Good
    <3> QED BY <1>0, <1>7, <1>8, Rounds
  <2> HIDE DEF Alike
  <2> QED BY <2>1
<1> DEFINE f == CHOOSE d \in 0 .. Len(s) : Len(F[d].current) <= 1
           g == CHOOSE d \in 0 .. Len(s) : Len(G[d].level) <= 1
<1>10. f = g /\ f \in 0 .. Len(s)
  <2>1. f = g
    BY <1>9
  <2>2. PICK d \in 0 .. Len(s) : Len(F[d].current) = 1
    BY <1>4
  <2>3. Len(F[d].current) <= 1
    BY <2>2
  <2> QED BY <2>1, <2>3
<1>11. CASE hashes # <<>>
  <2>1. StratumBranches(hashes) = G[g].branch /\ CoinbaseBranch(s) = F[f].branch
    BY <1>5, <1>6, <1>11
  <2> HIDE DEF f, g
  <2> QED BY <1>9, <1>10, <2>1
<1>12. CASE hashes = <<>>
  <2>1. Len(hashes) = 0
    BY <1>12
  <2>2. \A d \in 0 .. Len(s) : F[d].branch = <<>>
    <3>1. Len(s) = 1
      BY <2>1
    <3>2. F[0].branch = <<>> /\ F[0].current = s
      BY <1>2
    <3>3. F[1] = F[0]
      <4>1. OnTheWay(F[0], s, 0) /\ Len(F[0].current) = 1 /\ F[1] = Round(F[0])
        <5>1. 0 \in 0 .. Len(s) /\ 1 \in 1 .. Len(s) /\ 1 - 1 = 0
          BY <3>1
        <5>2. F[1] = Round(F[1 - 1])
          BY <1>2, <5>1
        <5> QED BY <1>2, <3>1, <3>2, <5>1, <5>2
      <4> QED BY <1>0, <4>1, RoundIs
    <3>4. \A d \in 0 .. Len(s) : d = 0 \/ d = 1
      BY <3>1
    <3> QED BY <3>2, <3>3, <3>4
  <2>3. CoinbaseBranch(s) = F[f].branch
    BY <1>5
  <2> HIDE DEF f, g
  <2> QED BY <1>10, <1>12, <2>2, <2>3 DEF StratumBranches
<1> QED BY <1>11, <1>12

\* A miner that hashes its own coinbase with the branches it was sent finds the
\* root of all the block's transactions, for any list of them (merkle.rs:81-92,
\* job.rs:553-589): the branches are worked out before the coinbase is known.
THEOREM MinersFindTheRoot ==
  ASSUME NEW S, NEW hashes \in Seq(S), NEW coinbase \in S
  PROVE  /\ RootFrom(coinbase, StratumBranches(hashes)) = Root(<<coinbase>> \o hashes)
         /\ StratumBranches(hashes) = CoinbaseBranch(<<coinbase>> \o hashes)
<1> DEFINE c == <<coinbase>>
           s == c \o hashes
<1>1. IsTuple(hashes) /\ Len(hashes) \in Nat
  BY TupleOfSeq DEF IsTuple
<1>2. IsTuple(c) /\ Len(c) = 1 /\ c[1] = coinbase
  <2>1. c = [i \in 1 .. 1 |-> c[i]] /\ c[1] = coinbase
    OBVIOUS
  <2> HIDE DEF c
  <2> QED BY <2>1, TupleOfFun
<1> HIDE DEF c
<1>3. /\ IsTuple(s) /\ Len(s) = 1 + Len(hashes)
      /\ \A i \in 1 .. 1 + Len(hashes) : s[i] = IF i <= 1 THEN c[i] ELSE hashes[i - 1]
  BY <1>1, <1>2, ConcatTuple
<1> HIDE DEF s
<1>4. s[1] = coinbase /\ Len(s) >= 1 /\ Len(s) = Len(hashes) + 1
  BY <1>1, <1>2, <1>3
<1>5. ASSUME NEW i \in 1 .. Len(hashes)
      PROVE  s[i + 1] = hashes[i]
  <2>1. i + 1 \in 1 .. 1 + Len(hashes) /\ ~(i + 1 <= 1) /\ (i + 1) - 1 = i
    BY <1>1
  <2>2. s[i + 1] = hashes[(i + 1) - 1]
    BY <1>3, <2>1
  <2> QED BY <2>1, <2>2
<1>6. StratumBranches(hashes) = CoinbaseBranch(s)
  BY <1>1, <1>3, <1>4, <1>5, StratumIsCoinbase
<1>7. RootFrom(coinbase, CoinbaseBranch(s)) = Root(s)
  BY <1>3, <1>4, CoinbaseLeads
<1> QED BY <1>6, <1>7 DEF s, c

-----------------------------------------------------------------------------
(* Sizes and slots.                                                        *)

\* The table of sizes.
LEMMA Pow2Is ==
  /\ DOMAIN Pow2 = 0 .. 16
  /\ Pow2[0] = 1
  /\ \A d \in 1 .. 16 : Pow2[d] = 2 * Pow2[d - 1]
<1> DEFINE E(f) == [d \in 0 .. 16 |-> IF d = 0 THEN 1 ELSE 2 * f[d - 1]]
           g == [d \in 0 .. 16 |->
                   <<1, 2, 4, 8, 16, 32, 64, 128, 256, 512, 1024, 2048, 4096,
                     8192, 16384, 32768, 65536>>[d + 1]]
<1>1. \A d \in 1 .. 16 : g[d] = 2 * g[d - 1]
  OBVIOUS
<1>2. g[0] = 1
  OBVIOUS
<1>3. g = E(g)
  <2>1. g = [d \in 0 .. 16 |-> g[d]]
    OBVIOUS
  <2> HIDE DEF g
  <2>2. \A d \in 0 .. 16 : g[d] = IF d = 0 THEN 1 ELSE 2 * g[d - 1]
    BY <1>1, <1>2
  <2> QED BY <2>1, <2>2
<1>4. Pow2 = CHOOSE f : f = E(f)
  BY DEF Pow2
<1>5. Pow2 = E(Pow2)
  <2> HIDE DEF E, g
  <2> QED BY <1>3, <1>4
<1> QED BY <1>5

\* Every size is positive and larger than its depth.
LEMMA Pow2Type == \A d \in 0 .. 16 : Pow2[d] \in Nat /\ Pow2[d] >= 1 /\ Pow2[d] > d
<1> DEFINE Good == {d \in 0 .. 16 : Pow2[d] \in Nat /\ Pow2[d] >= 1 /\ Pow2[d] > d}
<1>1. 0 \in Good
  BY Pow2Is
<1>2. ASSUME NEW d \in 0 .. 16 - 1, d \in Good
      PROVE  d + 1 \in Good
  <2>1. d + 1 \in 1 .. 16 /\ d + 1 \in 0 .. 16 /\ (d + 1) - 1 = d
    OBVIOUS
  <2>2. Pow2[d + 1] = 2 * Pow2[d]
    BY <2>1, Pow2Is
  <2> QED BY <1>2, <2>1, <2>2
<1> HIDE DEF Good
<1>3. \A d \in 0 .. 16 : d \in Good
  BY <1>1, <1>2, Rounds
<1> QED BY <1>3 DEF Good

\* A smaller size divides a larger one.
LEMMA Pow2Divides ==
  ASSUME NEW d \in 0 .. 16, NEW e \in d .. 16
  PROVE  \E m \in Nat : Pow2[e] = Pow2[d] * m
<1> DEFINE Good == {k \in 0 .. 16 : k + d <= 16 => \E m \in Nat : Pow2[k + d] = Pow2[d] * m}
<1>1. 0 \in Good
  <2>1. Pow2[0 + d] = Pow2[d] * 1
    BY Pow2Type
  <2> QED BY <2>1
<1>2. ASSUME NEW k \in 0 .. 16 - 1, k \in Good
      PROVE  k + 1 \in Good
  <2>1. SUFFICES ASSUME (k + 1) + d <= 16
                 PROVE  \E m \in Nat : Pow2[(k + 1) + d] = Pow2[d] * m
    OBVIOUS
  <2>2. PICK m \in Nat : Pow2[k + d] = Pow2[d] * m
    BY <1>2, <2>1
  <2>3. (k + 1) + d \in 1 .. 16 /\ ((k + 1) + d) - 1 = k + d
    BY <2>1
  <2>4. Pow2[(k + 1) + d] = 2 * Pow2[k + d]
    BY <2>3, Pow2Is
  <2>5. Pow2[d] \in Nat
    BY Pow2Type
  <2>6. 2 * (Pow2[d] * m) = Pow2[d] * (2 * m) /\ 2 * m \in Nat
    BY <2>5
  <2> QED BY <2>2, <2>4, <2>6
<1>3. \A k \in 0 .. 16 : k \in Good
  <2> HIDE DEF Good
  <2> QED BY <1>1, <1>2, Rounds
<1>4. e - d \in 0 .. 16 /\ (e - d) + d = e
  OBVIOUS
<1> QED BY <1>3, <1>4

\* Remainders of a sum and of a product follow from those of their parts.
LEMMA SameRemainder ==
  ASSUME NEW n \in Nat, n >= 1, NEW a \in Int, NEW b \in Int
  PROVE  a % n = b % n <=> \E m \in Int : a - b = n * m
<1>1. /\ a = n * (a \div n) + (a % n) /\ a \div n \in Int /\ a % n \in 0 .. n - 1
      /\ b = n * (b \div n) + (b % n) /\ b \div n \in Int /\ b % n \in 0 .. n - 1
  OBVIOUS
<1>2. ASSUME a % n = b % n
      PROVE  \E m \in Int : a - b = n * m
  <2> DEFINE q == a \div n
             r == b \div n
             x == a % n
             y == b % n
  <2>1. /\ q \in Int /\ r \in Int /\ a = n * q + x /\ b = n * r + y /\ x = y
        /\ x \in Int /\ y \in Int
    BY <1>1, <1>2
  <2> HIDE DEF q, r, x, y
  <2>2. a - b = n * (q - r) /\ q - r \in Int
    BY <2>1
  <2> QED BY <2>2
<1>3. ASSUME NEW m \in Int, a - b = n * m
      PROVE  a % n = b % n
  <2> DEFINE q == a \div n
             r == b \div n
             x == a % n
             y == b % n
  <2>1. /\ q \in Int /\ r \in Int /\ a = n * q + x /\ b = n * r + y
        /\ x \in 0 .. n - 1 /\ y \in 0 .. n - 1
    BY <1>1
  <2> HIDE DEF q, r, x, y
  <2> DEFINE z == m - (q - r)
  <2>2. x - y = n * z /\ z \in Int
    BY <1>3, <2>1
  <2> HIDE DEF z
  <2>3. z = 0
    <3>1. CASE z >= 1
      <4>1. n * z >= n
        BY <2>2, <3>1
      <4> QED BY <2>1, <2>2, <4>1
    <3>2. CASE z <= -1
      <4>1. n * z <= -n
        BY <2>2, <3>2
      <4> QED BY <2>1, <2>2, <4>1
    <3> QED BY <2>2, <3>1, <3>2
  <2>4. x = y
    BY <2>1, <2>2, <2>3
  <2> QED BY <2>4 DEF x, y
<1> QED BY <1>2, <1>3

\* The largest size is 2^16, worked out four doublings at a time.
LEMMA Pow2Of16 == Pow2[16] = 65536
<1>1. \A d \in 0 .. 15 : Pow2[d + 1] = 2 * Pow2[d]
  <2> SUFFICES ASSUME NEW d \in 0 .. 15 PROVE Pow2[d + 1] = 2 * Pow2[d]
    OBVIOUS
  <2>1. d + 1 \in 1 .. 16 /\ (d + 1) - 1 = d
    OBVIOUS
  <2> QED BY <2>1, Pow2Is
<1>2. Pow2[4] = 16
  <2>1. Pow2[0 + 1] = 2 /\ Pow2[1 + 1] = 2 * Pow2[1] /\ Pow2[2 + 1] = 2 * Pow2[2] /\ Pow2[3 + 1] = 2 * Pow2[3]
    BY <1>1, Pow2Is
  <2> QED BY <2>1
<1>3. Pow2[8] = 256
  <2>1. Pow2[4 + 1] = 32 /\ Pow2[5 + 1] = 2 * Pow2[5] /\ Pow2[6 + 1] = 2 * Pow2[6] /\ Pow2[7 + 1] = 2 * Pow2[7]
    BY <1>1, <1>2
  <2> QED BY <2>1
<1>4. Pow2[12] = 4096
  <2>1. Pow2[8 + 1] = 512 /\ Pow2[9 + 1] = 2 * Pow2[9] /\ Pow2[10 + 1] = 2 * Pow2[10] /\ Pow2[11 + 1] = 2 * Pow2[11]
    BY <1>1, <1>3
  <2> QED BY <2>1
<1>5. Pow2[12 + 1] = 8192 /\ Pow2[13 + 1] = 2 * Pow2[13] /\ Pow2[14 + 1] = 2 * Pow2[14] /\ Pow2[15 + 1] = 2 * Pow2[15]
  BY <1>1, <1>4
<1> QED BY <1>5

\* One step of the generator tells numbers apart exactly if they differ modulo
\* the size: its factor 20077 has the inverse 60261 modulo 2^16, and so modulo
\* every smaller size.
LEMMA LcgSeparates ==
  ASSUME NEW k \in 0 .. 16, NEW x \in Nat, NEW y \in Nat
  PROVE  /\ Lcg(x, Pow2[k]) \in 0 .. Pow2[k] - 1
         /\ Lcg(x, Pow2[k]) = Lcg(y, Pow2[k]) <=> x % Pow2[k] = y % Pow2[k]
<1> DEFINE n == Pow2[k]
           u == x % n
           v == y % n
           c == 20077 % n
<1>1. n \in Nat /\ n >= 1
  BY Pow2Type
<1>2. PICK w \in Nat : 65536 = n * w
  <2>1. 16 \in k .. 16
    OBVIOUS
  <2> QED BY <2>1, Pow2Divides, Pow2Of16
<1> HIDE DEF n
<1>3. u \in 0 .. n - 1 /\ v \in 0 .. n - 1
  BY <1>1
<1>4. PICK t \in Int : 20077 - c = n * t
  <2>1. 20077 = n * (20077 \div n) + (20077 % n) /\ 20077 \div n \in Int /\ 20077 % n \in Int
    BY <1>1
  <2>2. 20077 - c = n * (20077 \div n)
    <3> DEFINE q == 20077 \div n
               r == 20077 % n
    <3>1. 20077 = n * q + r /\ q \in Int /\ r \in Int
      BY <2>1
    <3> HIDE DEF q, r
    <3>2. 20077 - r = n * q
      BY <1>1, <3>1
    <3> QED BY <3>2 DEF q, r
  <2> HIDE DEF c
  <2> QED BY <2>1, <2>2
<1>5. c \in Nat
  BY <1>1
<1>6. Lcg(x, n) = (u * c + 12345) % n /\ Lcg(y, n) = (v * c + 12345) % n
  BY DEF Lcg
<1>7. u % n = u /\ v % n = v
  BY <1>1, <1>3
<1> HIDE DEF u, v, c
<1>8. u * c \in Nat /\ v * c \in Nat
  BY <1>1, <1>3, <1>5
<1>9. Lcg(x, n) \in 0 .. n - 1
  <2> DEFINE a == u * c
  <2>1. a \in Nat
    BY <1>8
  <2> HIDE DEF a
  <2>2. (a + 12345) % n \in 0 .. n - 1
    BY <1>1, <2>1
  <2> QED BY <1>6, <2>2 DEF a
<1>10. ASSUME Lcg(x, n) = Lcg(y, n)
       PROVE  u = v
  <2> DEFINE a == u * c + 12345
             b == v * c + 12345
             z == u - v
  <2>1. a \in Int /\ b \in Int /\ a % n = b % n
    BY <1>6, <1>8, <1>10
  <2>2. PICK m \in Int : a - b = n * m
    <3> HIDE DEF a, b
    <3> QED BY <1>1, <2>1, SameRemainder
  <2>3. z \in Int /\ n * m = z * c
    <3>1. a - b = z * c /\ z \in Int
      BY <1>3, <1>5
    <3> QED BY <2>2, <3>1
  <2> HIDE DEF a, b, z
  <2>4. c = 20077 - n * t
    BY <1>4, <1>5
  <2>5. z * 20077 = n * (m + z * t)
    <3>1. z * c = z * 20077 - n * (z * t)
      BY <1>1, <1>4, <2>3, <2>4
    <3>2. z * c = n * m /\ z * t \in Int
      BY <1>4, <2>2, <2>3
    <3>3. n * (m + z * t) = n * m + n * (z * t)
      BY <1>1, <3>2
    <3>4. n * m \in Int /\ n * (z * t) \in Int /\ z * 20077 \in Int
      BY <1>1, <2>3, <3>2
    <3> QED BY <3>1, <3>2, <3>3, <3>4
  <2> DEFINE p == m + z * t
             q == z * 18461
  <2>6. p \in Int /\ q \in Int
    BY <1>4, <2>3
  <2>7. z * 20077 = n * p
    BY <2>5
  <2>8. z = n * (60261 * p - w * q)
    <3>1. z * 20077 * 60261 = z + z * 18461 * 65536
      BY <2>3
    <3>2. z * 18461 * 65536 = n * (w * q)
      <4>1. z * 18461 = q
        OBVIOUS
      <4> HIDE DEF q, p
      <4>2. q * 65536 = n * (w * q)
        BY <1>1, <1>2, <2>6
      <4> QED BY <4>1, <4>2
    <3> HIDE DEF p, q
    <3>3. z * 20077 * 60261 = n * (60261 * p)
      BY <1>1, <2>6, <2>7
    <3>4. z + n * (w * q) = n * (60261 * p)
      BY <3>1, <3>2, <3>3
    <3>5. n * (60261 * p - w * q) = n * (60261 * p) - n * (w * q)
      BY <1>1, <1>2, <2>6
    <3>6. n * (w * q) \in Int /\ n * (60261 * p) \in Int
      BY <1>1, <1>2, <2>6
    <3> QED BY <2>3, <3>4, <3>5, <3>6
  <2>9. 60261 * p - w * q \in Int
    <3> HIDE DEF p, q
    <3> QED BY <1>2, <2>6
  <2> HIDE DEF p, q
  <2>10. u % n = v % n
    <3>1. \E i \in Int : u - v = n * i
      BY <2>8, <2>9 DEF z
    <3>2. u \in Int /\ v \in Int
      BY <1>3
    <3> QED BY <1>1, <3>1, <3>2, SameRemainder
  <2> QED BY <1>7, <2>10
<1>11. u = v => Lcg(x, n) = Lcg(y, n)
  BY <1>6
<1> QED BY <1>9, <1>10, <1>11 DEF n, u, v

\* Slots lie in the tree, and two chains share one exactly if their ids agree
\* modulo the size, whatever the nonce.
LEMMA SlotSeparates ==
  ASSUME NEW k \in 0 .. 16, NEW nonce \in Nat, NEW i \in Nat, NEW j \in Nat
  PROVE  /\ Slot(nonce, i, Pow2[k]) \in 0 .. Pow2[k] - 1
         /\ Slot(nonce, i, Pow2[k]) = Slot(nonce, j, Pow2[k]) <=> i % Pow2[k] = j % Pow2[k]
<1> DEFINE n == Pow2[k]
<1>1. n \in Nat /\ n >= 1
  BY Pow2Type
<1>2. CASE n <= 1
  <2>1. n = 1
    <3> HIDE DEF n
    <3> QED BY <1>1, <1>2
  <2>2. i % 1 = 0 /\ j % 1 = 0
    OBVIOUS
  <2> QED BY <2>1, <2>2 DEF Slot
<1>3. CASE ~(n <= 1)
  <2> DEFINE r == Lcg(nonce, n)
  <2>1. r \in Nat
    <3>1. r \in 0 .. n - 1
      BY LcgSeparates
    <3> HIDE DEF r, n
    <3> QED BY <1>1, <3>1
  <2>2. Slot(nonce, i, n) = Lcg(r + i, n) /\ Slot(nonce, j, n) = Lcg(r + j, n)
    BY <1>3 DEF Slot
  <2> HIDE DEF r
  <2>3. /\ Lcg(r + i, n) \in 0 .. n - 1
        /\ Lcg(r + i, n) = Lcg(r + j, n) <=> (r + i) % n = (r + j) % n
    <3>1. r + i \in Nat /\ r + j \in Nat
      BY <2>1
    <3> QED BY <3>1, LcgSeparates
  <2> HIDE DEF n
  <2>4. (r + i) % n = (r + j) % n <=> i % n = j % n
    <3>1. (r + i) - (r + j) = i - j /\ r + i \in Int /\ r + j \in Int /\ i \in Int /\ j \in Int
      BY <2>1
    <3>2. (r + i) % n = (r + j) % n <=> \E m \in Int : (r + i) - (r + j) = n * m
      BY <1>1, <3>1, SameRemainder
    <3>3. i % n = j % n <=> \E m \in Int : i - j = n * m
      BY <1>1, <3>1, SameRemainder
    <3> QED BY <3>1, <3>2, <3>3
  <2> QED BY <2>2, <2>3, <2>4 DEF n
<1> QED BY <1>2, <1>3

\* What agrees modulo a size agrees modulo every smaller one.
LEMMA SmallerSize ==
  ASSUME NEW d \in 0 .. 16, NEW e \in d .. 16, NEW i \in Nat, NEW j \in Nat,
         i % Pow2[e] = j % Pow2[e]
  PROVE  i % Pow2[d] = j % Pow2[d]
<1>1. /\ Pow2[d] \in Nat /\ Pow2[d] >= 1 /\ Pow2[e] \in Nat /\ Pow2[e] >= 1
      /\ e \in 0 .. 16 /\ i \in Int /\ j \in Int
  BY Pow2Type
<1>2. PICK m \in Int : i - j = Pow2[e] * m
  BY <1>1, SameRemainder
<1>3. PICK w \in Nat : Pow2[e] = Pow2[d] * w
  BY Pow2Divides
<1>4. i - j = Pow2[d] * (w * m) /\ w * m \in Int
  BY <1>1, <1>2, <1>3
<1> QED BY <1>1, <1>4, SameRemainder

-----------------------------------------------------------------------------
(* The branch of a leaf.                                                   *)

\* The node above a node and its sibling, in a level of even length.
LEMMA ParentIs ==
  ASSUME NEW c, IsTuple(c), NEW h \in Nat, h >= 1, Len(c) = 2 * h, NEW i \in 0 .. Len(c) - 1
  PROVE  /\ Sibling(i) < Len(c) /\ Sibling(i) + 1 \in 1 .. Len(c)
         /\ i \div 2 \in 0 .. h - 1
         /\ Len(Level(c)) = h
         /\ Level(c)[i \div 2 + 1] = IF i % 2 = 1 THEN <<c[Sibling(i) + 1], c[i + 1]>>
                                                  ELSE <<c[i + 1], c[Sibling(i) + 1]>>
<1> DEFINE q == i \div 2
           n == Len(c)
<1>1. /\ q \in 0 .. h - 1 /\ (n + 1) \div 2 = h /\ n >= 1
      /\ i % 2 = 1 => i = 2 * q + 1
      /\ i % 2 # 1 => i = 2 * q
      /\ i % 2 = 0 \/ i % 2 = 1
  <2> HIDE DEF n
  <2>1. n = 2 * h /\ i \in 0 .. n - 1
    BY DEF n
  <2> QED BY <2>1
<1> HIDE DEF q
<1>2. Level(c)[q + 1] = <<c[2 * q + 1], c[2 * q + 2]>> /\ Len(Level(c)) = h
  <2>1. /\ q + 1 \in 1 .. (n + 1) \div 2 /\ 2 * (q + 1) <= n
        /\ 2 * (q + 1) - 1 = 2 * q + 1 /\ 2 * (q + 1) = 2 * q + 2
    <3> HIDE DEF n
    <3>1. n = 2 * h
      BY DEF n
    <3> QED BY <1>1, <3>1
  <2>2. Level(c)[q + 1] = <<c[2 * (q + 1) - 1],
                            IF 2 * (q + 1) <= Len(c) THEN c[2 * (q + 1)] ELSE c[Len(c)]>>
    BY <1>1, <2>1, LevelIs
  <2>3. Len(Level(c)) = h
    BY <1>1, LevelIs
  <2> QED BY <2>1, <2>2, <2>3
<1>3. CASE i % 2 = 1
  <2>1. /\ Sibling(i) = i - 1 /\ i = 2 * q + 1 /\ Sibling(i) + 1 = 2 * q + 1 /\ i + 1 = 2 * q + 2
        /\ Sibling(i) < 2 * h /\ Sibling(i) + 1 \in 1 .. 2 * h
    BY <1>1, <1>3 DEF Sibling
  <2> QED BY <1>1, <1>2, <1>3, <2>1 DEF q
<1>4. CASE i % 2 # 1
  <2>1. /\ Sibling(i) = i + 1 /\ i = 2 * q /\ Sibling(i) + 1 = 2 * q + 2 /\ i + 1 = 2 * q + 1
        /\ Sibling(i) < 2 * h /\ Sibling(i) + 1 \in 1 .. 2 * h
    BY <1>1, <1>4 DEF Sibling
  <2> QED BY <1>1, <1>2, <1>4, <2>1 DEF q
<1> QED BY <1>3, <1>4

\* In a full tree the branch of a leaf has one node per level, and leads from
\* that leaf, and from nothing else, to the root.
LEMMA LeafLeads ==
  ASSUME NEW k \in 0 .. 16, NEW s, IsTuple(s), Len(s) = Pow2[k],
         NEW leaf \in 0 .. Len(s) - 1, NEW x
  PROVE  /\ Len(Branch(s, leaf)) = k
         /\ FollowBranch(x, Branch(s, leaf), leaf) = Root(s) <=> x = s[leaf + 1]
<1> DEFINE F == Climb(s, leaf)
           At(d) == Follow(x, F[d].branch, leaf)
           Leads(d, e) ==
             /\ Len(F[d].current) = Pow2[k - e]
             /\ Len(F[d].branch) = e
             /\ At(d).index = F[d].index
             /\ At(d).node = F[d].current[F[d].index + 1] <=> x = s[leaf + 1]
           Good == {d \in 0 .. Len(s) : \E e \in 0 .. k : Leads(d, e)}
<1>0. Len(s) \in Nat /\ Len(s) >= 1 /\ 0 \in 0 .. Len(s) - 1
  <2>1. Pow2[k] \in Nat /\ Pow2[k] >= 1
    BY Pow2Type
  <2>2. Len(s) \in Nat /\ Len(s) >= 1
    BY <2>1
  <2> QED BY <2>2
<1>1. /\ F[0] = [current |-> s, index |-> leaf, branch |-> <<>>]
      /\ \A d \in 1 .. Len(s) : F[d] = Round(F[d - 1])
      /\ \A d \in 0 .. Len(s) : OnTheWay(F[d], s, d)
  BY <1>0, ClimbIs, ClimbShape
<1>2. PICK top \in 0 .. Len(s) : Top(s, leaf) = F[top] /\ Len(F[top].current) = 1
  BY <1>0, TopIs
<1> HIDE DEF F
<1>3. 0 \in Good
  <2>1. F[0].current = s /\ F[0].index = leaf /\ F[0].branch = <<>>
    BY <1>1
  <2>2. IsTuple(<<>>) /\ Len(<<>>) = 0
    <3>1. <<>> = [i \in 1 .. 0 |-> <<>>[i]]
      OBVIOUS
    <3> QED BY <3>1, TupleOfFun
  <2>3. Follow(x, <<>>, leaf) = [node |-> x, index |-> leaf]
    BY <2>2, FollowIs
  <2>4. At(0).node = x /\ At(0).index = leaf
    BY <2>1, <2>3
  <2> HIDE DEF At
  <2>5. 0 \in 0 .. k /\ k - 0 = k
    OBVIOUS
  <2>6. Leads(0, 0)
    BY <2>1, <2>2, <2>4, <2>5
  <2> HIDE DEF Leads
  <2> QED BY <1>0, <2>5, <2>6
<1>4. ASSUME NEW d \in 0 .. Len(s) - 1, d \in Good
      PROVE  d + 1 \in Good
  <2> DEFINE c == F[d].current
             i == F[d].index
             n == Len(c)
             y == c[Sibling(i) + 1]
  <2>1. /\ d \in Nat /\ d + 1 \in 1 .. Len(s) /\ d + 1 \in 0 .. Len(s) /\ (d + 1) - 1 = d
        /\ d \in 0 .. Len(s)
    BY <1>0
  <2>2. PICK e \in 0 .. k : Leads(d, e)
    BY <1>4
  <2>3. F[d + 1] = Round(F[d]) /\ OnTheWay(F[d], s, d)
    BY <1>1, <2>1
  <2>4. n \in Nat /\ n >= 1 /\ (n = 1 \/ n > 1) /\ IsTuple(c) /\ i \in 0 .. n - 1
    BY <2>3, WayLength DEF OnTheWay
  <2>5. CASE n = 1
    <3>1. F[d + 1] = F[d]
      BY <1>0, <2>1, <2>3, <2>5, RoundIs
    <3>2. Leads(d + 1, e)
      BY <2>2, <3>1
    <3> HIDE DEF Leads
    <3> QED BY <2>1, <2>2, <3>2
  <2>6. CASE n > 1
    <3> DEFINE h == Pow2[k - (e + 1)]
    <3>1. e + 1 \in 0 .. k /\ n = 2 * h /\ h \in Nat /\ h >= 1
      <4>1. n = Pow2[k - e]
        BY <2>2
      <4> HIDE DEF n
      <4>2. k - e # 0
        <5>1. k - e = 0 => n = 1
          BY <4>1, Pow2Is
        <5> QED BY <2>4, <2>6, <5>1
      <4>3. k - e \in 1 .. 16 /\ (k - e) - 1 = k - (e + 1) /\ k - (e + 1) \in 0 .. 16 /\ e + 1 \in 0 .. k
        BY <2>2, <4>2
      <4>4. Pow2[k - e] = 2 * Pow2[(k - e) - 1]
        BY <4>3, Pow2Is
      <4> QED BY <4>1, <4>3, <4>4, Pow2Type
    <3>2. /\ F[d + 1].current = Level(c)
          /\ F[d + 1].index = i \div 2
          /\ F[d + 1].branch = IF Sibling(i) < n THEN Append(F[d].branch, y) ELSE F[d].branch
      BY <1>0, <2>1, <2>3, <2>6, RoundIs
    <3> HIDE DEF h
    <3>3. /\ Sibling(i) < n
          /\ Len(Level(c)) = h
          /\ Level(c)[i \div 2 + 1] = IF i % 2 = 1 THEN <<y, c[i + 1]>> ELSE <<c[i + 1], y>>
      <4> DEFINE j == i
      <4>1. j \in 0 .. n - 1
        BY <2>4
      <4> HIDE DEF c
      <4>2. j \in 0 .. Len(c) - 1 /\ Len(c) = 2 * h /\ IsTuple(c)
        BY <2>4, <3>1, <4>1
      <4> HIDE DEF j
      <4>3. /\ Sibling(j) < Len(c)
            /\ Len(Level(c)) = h
            /\ Level(c)[j \div 2 + 1] = IF j % 2 = 1 THEN <<c[Sibling(j) + 1], c[j + 1]>>
                                                     ELSE <<c[j + 1], c[Sibling(j) + 1]>>
        BY <3>1, <4>2, ParentIs
      <4> QED BY <4>3 DEF j
    <3>4. F[d + 1].branch = Append(F[d].branch, y)
      BY <3>2, <3>3
    <3>5. IsTuple(F[d].branch) /\ Len(F[d].branch) = e
      BY <2>2, <2>3 DEF OnTheWay
    <3>6. Len(F[d + 1].branch) = e + 1
      BY <3>4, <3>5, AppendTuple
    <3>7. At(d + 1) = Hashed(At(d), y)
      BY <3>4, <3>5, FollowIs
    <3>8. At(d).index = i /\ (At(d).node = c[i + 1] <=> x = s[leaf + 1])
      BY <2>2
    <3> HIDE DEF At
    <3>9. At(d + 1).index = F[d + 1].index
      BY <3>2, <3>7, <3>8 DEF Hashed
    <3>10. At(d + 1).node = F[d + 1].current[F[d + 1].index + 1] <=> x = s[leaf + 1]
      <4>1. At(d + 1).node = IF i % 2 = 1 THEN <<y, At(d).node>> ELSE <<At(d).node, y>>
        BY <3>7, <3>8 DEF Hashed
      <4>2. F[d + 1].current[F[d + 1].index + 1] =
              IF i % 2 = 1 THEN <<y, c[i + 1]>> ELSE <<c[i + 1], y>>
        BY <3>2, <3>3
      <4> HIDE DEF y, c, i
      <4> QED BY <3>8, <4>1, <4>2
    <3>11. Len(F[d + 1].current) = Pow2[k - (e + 1)]
      BY <3>2, <3>3 DEF h
    <3>12. Leads(d + 1, e + 1)
      BY <3>6, <3>9, <3>10, <3>11
    <3> HIDE DEF Leads
    <3> QED BY <2>1, <3>1, <3>12
  <2> QED BY <2>4, <2>5, <2>6
<1>5. PICK e \in 0 .. k : Leads(top, e)
  <2>1. \A d \in 0 .. Len(s) : d \in Good
    <3> HIDE DEF Good
    <3> QED BY <1>0, <1>3, <1>4, Rounds
  <2> HIDE DEF Leads
  <2> QED BY <2>1
<1>6. e = k
  <2>1. Pow2[k - e] = 1
    BY <1>2, <1>5
  <2>2. k - e \in 0 .. 16
    OBVIOUS
  <2>3. Pow2[k - e] > k - e
    BY <2>2, Pow2Type
  <2> QED BY <2>1, <2>2, <2>3
<1>7. F[top].index + 1 = 1
  <2>1. F[top].index \in 0 .. 1 - 1
    BY <1>1, <1>2 DEF OnTheWay
  <2> QED BY <2>1
<1>8. Root(s) = F[top].current[1]
  <2>1. Root(s) = Top(s, 0).current[1]
    BY DEF Root
  <2>2. Top(s, 0).current = Top(s, leaf).current
    BY <1>0, SameLevels
  <2> QED BY <1>2, <2>1, <2>2
<1>9. Branch(s, leaf) = F[top].branch
  BY <1>2 DEF Branch
<1> QED BY <1>5, <1>6, <1>7, <1>8, <1>9 DEF FollowBranch

-----------------------------------------------------------------------------
(* The tree of a job.                                                      *)

\* find_tree_params: either no two chains share a slot, or the tree is the
\* largest one.
LEMMA ParamsAre ==
  ASSUME NEW chain \in Seq(ChainIds)
  PROVE  /\ TreeParams(chain).nonce \in Nat
         /\ \E k \in 0 .. MaxDepth :
              /\ TreeParams(chain).size = Pow2[k]
              /\ k = MaxDepth \/ Distinct(chain, Pow2[k], TreeParams(chain).nonce)
<1> DEFINE p == TreeParams(chain)
           fits == {d \in 1 .. MaxDepth : \E n \in 0 .. MaxNonce : Distinct(chain, Pow2[d], n)}
           first == CHOOSE d \in fits : \A e \in fits : d <= e
           Works(n) == /\ Distinct(chain, Pow2[first], n)
                       /\ \A m \in 0 .. n - 1 : ~Distinct(chain, Pow2[first], m)
<1>0. Len(chain) \in Nat /\ MaxDepth \in 1 .. 16 /\ MaxNonce \in Nat
  BY ConstantsAssumption
<1>1. CASE Len(chain) <= 1
  <2>1. p = [size |-> 1, nonce |-> 0]
    BY <1>1 DEF TreeParams
  <2>2. Distinct(chain, Pow2[0], 0)
    <3>1. \A i, j \in 1 .. Len(chain) : i = j
      BY <1>0, <1>1
    <3> QED BY <3>1 DEF Distinct
  <2> HIDE DEF p
  <2>3. p.size = Pow2[0] /\ p.nonce = 0 /\ 0 \in 0 .. MaxDepth
    BY <1>0, <2>1, Pow2Is
  <2> QED BY <2>2, <2>3 DEF p
<1>2. CASE ~(Len(chain) <= 1) /\ fits = {}
  <2>1. p = [size |-> Pow2[MaxDepth], nonce |-> 0]
    BY <1>2 DEF TreeParams
  <2> HIDE DEF p
  <2>2. p.size = Pow2[MaxDepth] /\ p.nonce = 0 /\ MaxDepth \in 0 .. MaxDepth
    BY <1>0, <2>1
  <2> QED BY <2>2 DEF p
<1>3. CASE ~(Len(chain) <= 1) /\ fits # {}
  <2>1. p = [size |-> Pow2[first], nonce |-> CHOOSE n \in 0 .. MaxNonce : Works(n)]
    BY <1>3 DEF TreeParams
  <2>2. first \in fits
    <3>1. fits \subseteq Nat
      BY <1>0
    <3> HIDE DEF fits
    <3>2. \E d \in fits : \A e \in fits : d <= e
      BY <1>3, <3>1, LeastNatural
    <3> QED BY <3>2
  <2>3. first \in 1 .. MaxDepth /\ \E n \in 0 .. MaxNonce : Distinct(chain, Pow2[first], n)
    BY <2>2
  <2> HIDE DEF first, fits, p
  <2>4. \E n \in 0 .. MaxNonce : Works(n)
    <3> DEFINE T == {n \in 0 .. MaxNonce : Distinct(chain, Pow2[first], n)}
    <3>1. T \subseteq Nat /\ T # {}
      BY <1>0, <2>3
    <3>2. PICK n \in T : \A m \in T : n <= m
      <4> HIDE DEF T
      <4> QED BY <3>1, LeastNatural
    <3>3. ASSUME NEW m \in 0 .. n - 1
          PROVE  ~Distinct(chain, Pow2[first], m)
      <4>1. n \in 0 .. MaxNonce /\ m \in 0 .. MaxNonce /\ ~(n <= m)
        BY <1>0, <3>2
      <4>2. m \notin T
        BY <3>2, <4>1
      <4> QED BY <4>1, <4>2
    <3>4. n \in 0 .. MaxNonce /\ Distinct(chain, Pow2[first], n)
      BY <3>2
    <3> QED BY <3>3, <3>4
  <2> DEFINE c == CHOOSE n \in 0 .. MaxNonce : Works(n)
  <2>5. c \in 0 .. MaxNonce /\ Works(c)
    <3> HIDE DEF Works
    <3> QED BY <2>4
  <2>6. p.size = Pow2[first] /\ p.nonce = c
    BY <2>1
  <2> HIDE DEF c
  <2>7. p.nonce \in Nat /\ first \in 0 .. MaxDepth /\ Distinct(chain, Pow2[first], p.nonce)
    BY <1>0, <2>3, <2>5, <2>6
  <2> QED BY <2>6, <2>7 DEF p
<1> QED BY <1>1, <1>2, <1>3

\* The leaf of a block's slot is its own unless a later block took it.
LEMMA LeavesIs ==
  ASSUME NEW chain \in Seq(ChainIds), NEW k \in 0 .. 16, NEW nonce \in Nat,
         NEW i \in 1 .. Len(chain)
  PROVE  LET size == Pow2[k]
             slot(j) == Slot(nonce, chain[j], size)
             s == Leaves(chain, size, nonce)
         IN  /\ IsTuple(s) /\ Len(s) = size
             /\ slot(i) \in 0 .. size - 1
             /\ s[slot(i) + 1] = <<i>> <=> \A j \in i + 1 .. Len(chain) : slot(j) # slot(i)
<1> DEFINE size == Pow2[k]
           slot(j) == Slot(nonce, chain[j], size)
           s == Leaves(chain, size, nonce)
           here == {j \in 1 .. Len(chain) : slot(j) = slot(i)}
           last == CHOOSE j \in here : \A m \in here : m <= j
<1>0. Len(chain) \in Nat /\ size \in Nat /\ size >= 1
  <2>1. Len(chain) \in Nat
    OBVIOUS
  <2>2. Pow2[k] \in Nat /\ Pow2[k] >= 1
    BY Pow2Type
  <2> QED BY <2>1, <2>2
<1>1. slot(i) \in 0 .. size - 1
  <2>1. chain[i] \in Nat
    <3>1. chain[i] \in ChainIds
      BY ElementOfSeq
    <3> QED BY <3>1, ConstantsAssumption
  <2> QED BY <2>1, SlotSeparates
<1>2. IsTuple(s) /\ Len(s) = size
  <2> HIDE DEF size
  <2>1. s = [j \in 1 .. size |-> s[j]]
    BY DEF Leaves
  <2> HIDE DEF s
  <2> QED BY <1>0, <2>1, TupleOfFun
<1>3. s[slot(i) + 1] = IF here = {} THEN Empty ELSE <<last>>
  <2> DEFINE q == slot(i) + 1
  <2>1. q \in 1 .. size /\ q - 1 = slot(i)
    <3> HIDE DEF slot, size
    <3> QED BY <1>0, <1>1
  <2> HIDE DEF q
  <2>2. s[q] = LET at == {j \in 1 .. Len(chain) : slot(j) = q - 1} IN
               IF at = {} THEN Empty ELSE <<CHOOSE j \in at : \A m \in at : m <= j>>
    BY <2>1 DEF Leaves
  <2> HIDE DEF slot, s, size
  <2> QED BY <2>1, <2>2 DEF q
<1>4. i \in here
  OBVIOUS
<1>5. last \in here /\ \A m \in here : m <= last
  <2>1. here \subseteq 1 .. Len(chain) /\ here # {}
    BY <1>4
  <2> HIDE DEF here
  <2>2. \E j \in here : \A m \in here : m <= j
    BY <1>0, <2>1, GreatestNatural
  <2> QED BY <2>2
<1> HIDE DEF last
<1>6. s[slot(i) + 1] = <<i>> <=> last = i
  <2>1. s[slot(i) + 1] = <<last>>
    BY <1>3, <1>4
  <2> HIDE DEF s, slot
  <2> QED BY <2>1
<1>7. last = i <=> \A j \in i + 1 .. Len(chain) : slot(j) # slot(i)
  <2> HIDE DEF slot
  <2>1. last \in 1 .. Len(chain) /\ i <= last /\ slot(last) = slot(i)
    BY <1>4, <1>5
  <2>2. ASSUME last = i, NEW j \in i + 1 .. Len(chain), slot(j) = slot(i)
        PROVE  FALSE
    <3>1. j \in here
      BY <2>2
    <3>2. j <= i /\ j \in Nat
      BY <1>5, <2>2, <3>1
    <3> QED BY <2>2, <3>2
  <2>3. ASSUME last # i
        PROVE  \E j \in i + 1 .. Len(chain) : slot(j) = slot(i)
    <3>1. last \in i + 1 .. Len(chain)
      BY <1>0, <2>1, <2>3
    <3> QED BY <2>1, <3>1
  <2> QED BY <2>2, <2>3
<1> QED BY <1>1, <1>2, <1>6, <1>7

\* An aux daemon accepts the proof of a block exactly if no later block of the
\* job has an id that agrees with its own modulo the largest tree.
LEMMA ProofLeads ==
  ASSUME NEW chain \in Seq(ChainIds), NEW i \in 1 .. Len(chain)
  PROVE  LET p == TreeParams(chain)
             s == Leaves(chain, p.size, p.nonce)
             slot == Slot(p.nonce, chain[i], p.size)
             b == Branch(s, slot)
         IN  /\ Len(b) \in DOMAIN Pow2 /\ p.size = Pow2[Len(b)]
             /\ FollowBranch(<<i>>, b, slot) = Root(s) <=>
                  \A j \in i + 1 .. Len(chain) : chain[j] % Pow2[MaxDepth] # chain[i] % Pow2[MaxDepth]
<1> DEFINE p == TreeParams(chain)
           nonce == p.nonce
           slot(j) == Slot(nonce, chain[j], p.size)
           s == Leaves(chain, p.size, nonce)
           b == Branch(s, slot(i))
<1>0. /\ Len(chain) \in Nat /\ MaxDepth \in 1 .. 16 /\ nonce \in Nat
      /\ \A j \in 1 .. Len(chain) : chain[j] \in Nat
  <2>1. ASSUME NEW j \in 1 .. Len(chain)
        PROVE  chain[j] \in Nat
    <3>1. chain[j] \in ChainIds
      BY ElementOfSeq
    <3> QED BY <3>1, ConstantsAssumption
  <2> QED BY <2>1, ParamsAre, ConstantsAssumption
<1>1. PICK k \in 0 .. MaxDepth : /\ p.size = Pow2[k]
                                 /\ k = MaxDepth \/ Distinct(chain, Pow2[k], nonce)
  BY ParamsAre
<1>2. k \in 0 .. 16 /\ MaxDepth \in k .. 16
  BY <1>0
<1> HIDE DEF p, nonce
<1>3. /\ IsTuple(s) /\ Len(s) = Pow2[k]
      /\ slot(i) \in 0 .. Len(s) - 1
      /\ s[slot(i) + 1] = <<i>> <=> \A j \in i + 1 .. Len(chain) : slot(j) # slot(i)
  <2> DEFINE slotOf(j) == Slot(nonce, chain[j], Pow2[k])
             leaves == Leaves(chain, Pow2[k], nonce)
  <2>1. /\ IsTuple(leaves) /\ Len(leaves) = Pow2[k]
        /\ slotOf(i) \in 0 .. Pow2[k] - 1
        /\ leaves[slotOf(i) + 1] = <<i>> <=> \A j \in i + 1 .. Len(chain) : slotOf(j) # slotOf(i)
    <3> HIDE DEF slotOf, leaves
    <3> QED BY <1>0, <1>2, LeavesIs DEF slotOf, leaves
  <2>2. s = leaves /\ \A j : slot(j) = slotOf(j)
    BY <1>1
  <2> HIDE DEF s, slot, leaves, slotOf
  <2> QED BY <2>1, <2>2
<1>4. ASSUME NEW j \in i + 1 .. Len(chain)
      PROVE  slot(j) = slot(i) <=> chain[j] % Pow2[MaxDepth] = chain[i] % Pow2[MaxDepth]
  <2>1. /\ j \in 1 .. Len(chain) /\ j # i /\ chain[i] \in Nat /\ chain[j] \in Nat
    BY <1>0
  <2>2. slot(j) = slot(i) <=> chain[j] % Pow2[k] = chain[i] % Pow2[k]
    <3>1. Slot(nonce, chain[j], Pow2[k]) = Slot(nonce, chain[i], Pow2[k])
            <=> chain[j] % Pow2[k] = chain[i] % Pow2[k]
      BY <1>0, <1>2, <2>1, SlotSeparates
    <3> QED BY <1>1, <3>1
  <2>3. CASE k = MaxDepth
    BY <2>2, <2>3
  <2>4. CASE Distinct(chain, Pow2[k], nonce)
    <3>1. slot(j) # slot(i)
      BY <1>1, <2>1, <2>4 DEF Distinct
    <3>2. chain[j] % Pow2[MaxDepth] # chain[i] % Pow2[MaxDepth]
      BY <1>2, <2>1, <2>2, <3>1, SmallerSize
    <3> QED BY <3>1, <3>2
  <2> QED BY <1>1, <2>3, <2>4
<1> HIDE DEF slot
<1>5. /\ Len(b) = k
      /\ FollowBranch(<<i>>, b, slot(i)) = Root(s) <=> <<i>> = s[slot(i) + 1]
  <2> HIDE DEF s
  <2> QED BY <1>2, <1>3, LeafLeads
<1>6. /\ Len(b) \in DOMAIN Pow2 /\ p.size = Pow2[Len(b)]
      /\ FollowBranch(<<i>>, b, slot(i)) = Root(s) <=>
           \A j \in i + 1 .. Len(chain) : chain[j] % Pow2[MaxDepth] # chain[i] % Pow2[MaxDepth]
  <2> HIDE DEF s, b
  <2> QED BY <1>1, <1>2, <1>3, <1>4, <1>5, Pow2Is
<1> QED BY <1>6 DEF p, nonce, slot

-----------------------------------------------------------------------------
(* Jobs and proofs.                                                        *)

\* The coinbase commits to the tree of the job's chain ids, and the proof, if
\* there is one, was built from that tree and the job's transactions.
Committed == ids # <<>> => commit = AuxTree(ids)

ProofOf(i) ==
  LET size == TreeParams(ids).size
      slot == Slot(commit.nonce, ids[i], size)
  IN [block    |-> i,
      slot     |-> slot,
      branch   |-> Branch(Leaves(ids, size, commit.nonce), slot),
      coinbase |-> CoinbaseBranch(<<Empty>> \o TxHashes)]

IInv ==
  /\ ids \in Seq(ChainIds)
  /\ txs \in Nat
  /\ Committed
  /\ proof # NoProof => \E i \in 1 .. Len(ids) : proof = ProofOf(i)

\* The invariant is inductive, and so holds of every job and proof.
LEMMA Inductive == Spec => []IInv
<1>1. Init => IInv
  BY DEF Init, IInv, Committed
<1>2. ASSUME IInv, [Next]_vars
      PROVE  IInv'
  <2>1. CASE UNCHANGED vars
    BY <1>2, <2>1 DEF IInv, Committed, ProofOf, TxHashes, vars
  <2>2. ASSUME NEW chain \in Chains, NEW n \in 0 .. MaxTxs, ids = <<>>, CreateJob(chain, n)
        PROVE  IInv'
    <3>1. chain \in Seq(ChainIds)
      BY ConstantsAssumption DEF Chains
    <3>2. ids' = chain /\ txs' = n /\ commit' = AuxTree(chain) /\ proof' = NoProof
      BY <2>2 DEF CreateJob
    <3>3. n \in Nat
      BY ConstantsAssumption
    <3> QED BY <3>1, <3>2, <3>3 DEF IInv, Committed
  <2>3. ASSUME NEW i \in 1 .. MaxChains, Prove(i)
        PROVE  IInv'
    <3>1. /\ i \in 1 .. Len(ids) /\ proof' = ProofOf(i)
          /\ UNCHANGED <<ids, txs, commit>>
      BY <2>3 DEF Prove, ProofOf
    <3>2. ProofOf(i)' = ProofOf(i)
      BY <3>1 DEF ProofOf, TxHashes
    <3> QED BY <1>2, <3>1, <3>2 DEF IInv, Committed
  <2> QED BY <1>2, <2>1, <2>2, <2>3 DEF Next
<1> QED BY <1>1, <1>2, PTL DEF Spec

\* For every job, whatever its chain ids: a proof is accepted exactly if no
\* later block of the job took the leaf of its block (auxpow.rs:78, 183-208).
THEOREM AcceptedExactly == Spec => []ProofsAreAccepted
<1>1. IInv => ProofsAreAccepted
  <2> SUFFICES ASSUME IInv, proof # NoProof
               PROVE  AcceptedAs(proof.block) <=>
                        \A j \in proof.block + 1 .. Len(ids) :
                          ids[j] % Pow2[MaxDepth] # ids[proof.block] % Pow2[MaxDepth]
    BY DEF ProofsAreAccepted
  <2>1. PICK i \in 1 .. Len(ids) : proof = ProofOf(i)
    BY DEF IInv
  <2>2. ids \in Seq(ChainIds) /\ ids # <<>> /\ commit = AuxTree(ids)
    <3>1. ids \in Seq(ChainIds)
      BY DEF IInv
    <3>2. ids # <<>>
      BY <2>1
    <3> QED BY <3>1, <3>2 DEF IInv, Committed
  <2> DEFINE p == TreeParams(ids)
             s == Leaves(ids, p.size, p.nonce)
             slot == Slot(p.nonce, ids[i], p.size)
             b == Branch(s, slot)
  <2>3. commit.root = Root(s) /\ commit.size = p.size /\ commit.nonce = p.nonce
    BY <2>2 DEF AuxTree
  <2>4. proof.block = i /\ proof.slot = slot /\ proof.branch = b
    BY <2>1, <2>3 DEF ProofOf
  <2>5. /\ Len(b) \in DOMAIN Pow2 /\ p.size = Pow2[Len(b)]
        /\ FollowBranch(<<i>>, b, slot) = Root(s) <=>
             \A j \in i + 1 .. Len(ids) : ids[j] % Pow2[MaxDepth] # ids[i] % Pow2[MaxDepth]
    BY <2>2, ProofLeads
  <2>6. AcceptedAs(i) <=> FollowBranch(<<i>>, b, slot) = Root(s)
    <3> HIDE DEF b, s
    <3>1. slot = Slot(commit.nonce, ids[i], commit.size)
      BY <2>3
    <3> HIDE DEF slot, p
    <3> QED BY <2>3, <2>4, <2>5, <3>1 DEF AcceptedAs
  <2> HIDE DEF b, s, slot, p
  <2> QED BY <2>4, <2>5, <2>6
<1> QED BY <1>1, Inductive, PTL

\* For every number of transactions: the root of all of them, the one a miner
\* computes from the branches it was sent and the one an aux daemon computes
\* from the branch in the proof are the same (merkle.rs:45-92, job.rs:553-589).
THEOREM RootsAlwaysAgree == Spec => []RootsAgree
<1>1. IInv => RootsAgree
  <2> SUFFICES ASSUME IInv, proof # NoProof
               PROVE  LET root == Root(<<Empty>> \o TxHashes) IN
                      /\ RootFrom(Empty, StratumBranches(TxHashes)) = root
                      /\ RootFrom(Empty, proof.coinbase) = root
    BY DEF RootsAgree
  <2>1. PICK i \in 1 .. Len(ids) : proof = ProofOf(i)
    BY DEF IInv
  <2>2. proof.coinbase = CoinbaseBranch(<<Empty>> \o TxHashes)
    BY <2>1 DEF ProofOf
  <2> DEFINE S == {<<m>> : m \in 0 .. txs}
  <2>3. TxHashes \in Seq(S) /\ Empty \in S
    <3>1. txs \in Nat
      BY DEF IInv
    <3>2. TxHashes \in [1 .. txs -> S]
      BY <3>1 DEF TxHashes
    <3>3. Empty \in S
      BY <3>1 DEF Empty
    <3> HIDE DEF S
    <3> QED BY <3>1, <3>2, <3>3
  <2> HIDE DEF S
  <2>4. /\ RootFrom(Empty, StratumBranches(TxHashes)) = Root(<<Empty>> \o TxHashes)
        /\ StratumBranches(TxHashes) = CoinbaseBranch(<<Empty>> \o TxHashes)
    BY <2>3, MinersFindTheRoot
  <2> QED BY <2>2, <2>4
<1> QED BY <1>1, Inductive, PTL
=============================================================================
