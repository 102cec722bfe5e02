-------------------------- MODULE PoolLedgerProofs --------------------------
(***************************************************************************)
(* What holds of PoolLedger for any accounts, requests, blocks, table of   *)
(* shares, window and reward, and any number of reconciliations, crashes   *)
(* and failed statements.  First the sums the model is made of, then the   *)
(* window of a block, then the books of an account.                        *)
(***************************************************************************)
EXTENDS PoolLedger, WithdrawalsProofs, SequenceTheorems

-----------------------------------------------------------------------------
(* Sums over finite sets.  The facts that follow hold for every finite set *)
(* and every function; the induction is over the subsets of the set.       *)

\* Induction over the subsets of a finite set, with a set of sets in place of
\* a predicate: the strict subset relation is well founded.
LEMMA SubsetInduction ==
  ASSUME NEW S, IsFiniteSet(S), NEW Good,
         {} \in Good,
         \A T \in SUBSET S : T # {} /\ (\A U \in SUBSET T : U # T => U \in Good)
                               => T \in Good
  PROVE  \A T \in SUBSET S : T \in Good
<1> DEFINE Bad == {T \in SUBSET S : T \notin Good}
<1>1. SUFFICES ASSUME Bad # {} PROVE FALSE
  OBVIOUS
<1>2. IsWellFoundedOn(StrictSubsetOrdering(S), FiniteSubsetsOf(S))
  BY FS_StrictSubsetOrderingWellFounded
<1>3. Bad \subseteq FiniteSubsetsOf(S)
  BY FS_FiniteSubsetsOfFinite
<1>4. PICK T \in Bad : \A U \in Bad : <<U, T>> \notin StrictSubsetOrdering(S)
  <2> HIDE DEF Bad
  <2> QED BY <1>1, <1>2, <1>3, WFMin, Zenon
<1>5. \A U \in SUBSET T : U # T => U \in Good
  BY <1>4 DEF StrictSubsetOrdering
<1> QED BY <1>4, <1>5

\* g sums f over the subsets of S, in whatever order.
IsSum(g, f, S) ==
  /\ g \in [SUBSET S -> Int]
  /\ g[{}] = 0
  /\ \A T \in SUBSET S : \A x \in S \ T : g[T \cup {x}] = g[T] + f[x]

\* There is such a function.
LEMMA SumExists ==
  ASSUME NEW S, IsFiniteSet(S), NEW f, \A x \in S : f[x] \in Int
  PROVE  \E g : IsSum(g, f, S)
<1> DEFINE Good == {T \in SUBSET S : \E g : IsSum(g, f, T)}
<1>1. {} \in Good
  <2>1. IsSum([T \in SUBSET {} |-> 0], f, {})
    BY DEF IsSum
  <2> QED BY <2>1
<1>2. ASSUME NEW T \in SUBSET S, T # {}, \A U \in SUBSET T : U # T => U \in Good
      PROVE  T \in Good
  <2>1. PICK x \in T : TRUE
    BY <1>2
  <2>2. PICK g : IsSum(g, f, T \ {x})
    BY <1>2, <2>1
  <2> DEFINE h == [U \in SUBSET T |-> IF x \in U THEN g[U \ {x}] + f[x] ELSE g[U]]
  <2>3. h \in [SUBSET T -> Int] /\ h[{}] = 0
    <3>1. \A U \in SUBSET T : U \ {x} \in SUBSET (T \ {x})
      OBVIOUS
    <3>2. \A U \in SUBSET T : x \notin U => U \in SUBSET (T \ {x})
      OBVIOUS
    <3> QED BY <2>2, <3>1, <3>2 DEF IsSum
  <2>4. ASSUME NEW U \in SUBSET T, NEW y \in T \ U
        PROVE  h[U \cup {y}] = h[U] + f[y]
    <3>1. CASE y = x
      <4>1. (U \cup {y}) \ {x} = U /\ U \cup {y} \in SUBSET T /\ x \in U \cup {y} /\ x \notin U
        BY <2>4, <3>1
      <4> QED BY <4>1, <3>1
    <3>2. CASE y # x /\ x \in U
      <4>1. /\ (U \cup {y}) \ {x} = (U \ {x}) \cup {y} /\ U \cup {y} \in SUBSET T
            /\ U \ {x} \in SUBSET (T \ {x}) /\ y \in (T \ {x}) \ (U \ {x})
        BY <2>4, <3>2
      <4>2. g[(U \ {x}) \cup {y}] = g[U \ {x}] + f[y] /\ g[U \ {x}] \in Int
        BY <2>2, <4>1 DEF IsSum
      <4>3. f[x] \in Int /\ f[y] \in Int
        OBVIOUS
      <4>4. h[U \cup {y}] = g[U \ {x}] + f[y] + f[x] /\ h[U] = g[U \ {x}] + f[x]
        BY <3>2, <4>1, <4>2
      <4> QED BY <4>2, <4>3, <4>4
    <3>3. CASE y # x /\ x \notin U
      <4>1. /\ U \in SUBSET (T \ {x}) /\ y \in (T \ {x}) \ U
            /\ U \cup {y} \in SUBSET T /\ x \notin U \cup {y}
        BY <2>4, <3>3
      <4> QED BY <2>2, <3>3, <4>1 DEF IsSum
    <3> QED BY <3>1, <3>2, <3>3
  <2>5. IsSum(h, f, T)
    <3> HIDE DEF h
    <3> QED BY <2>3, <2>4 DEF IsSum
  <2> QED BY <2>5
<1>3. S \in Good
  <2> HIDE DEF Good
  <2> QED BY <1>1, <1>2, SubsetInduction
<1> QED BY <1>3

\* It is what SumFunctionOnSet computes, by taking one element after another.
LEMMA SumIs ==
  ASSUME NEW S, IsFiniteSet(S), NEW f, \A x \in S : f[x] \in Int,
         NEW g, IsSum(g, f, S)
  PROVE  SumFunctionOnSet(f, S) = g[S]
<1> DEFINE E(h) == [T \in SUBSET S |->
                      IF T = {} THEN 0
                      ELSE f[CHOOSE x \in T : TRUE] + h[T \ {CHOOSE x \in T : TRUE}]]
           h0 == CHOOSE h : h = E(h)
<1>1. g = E(g)
  <2>1. \A T \in SUBSET S : g[T] = IF T = {} THEN 0
               ELSE f[CHOOSE x \in T : TRUE] + g[T \ {CHOOSE x \in T : TRUE}]
    <3> TAKE T \in SUBSET S
    <3>1. CASE T = {}
      BY <3>1 DEF IsSum
    <3>2. CASE T # {}
      <4> DEFINE x == CHOOSE x \in T : TRUE
      <4>1. x \in T
        BY <3>2
      <4> HIDE DEF x
      <4>2. T \ {x} \in SUBSET S /\ x \in S \ (T \ {x}) /\ (T \ {x}) \cup {x} = T
        BY <4>1
      <4>3. g[T] = g[T \ {x}] + f[x] /\ g[T \ {x}] \in Int /\ f[x] \in Int
        BY <4>2 DEF IsSum
      <4>4. g[T] = f[x] + g[T \ {x}]
        BY <4>3
      <4> QED BY <3>2, <4>4 DEF x
    <3> QED BY <3>1, <3>2
  <2> QED BY <2>1 DEF IsSum
<1>2. h0 = E(h0)
  <2> HIDE DEF E
  <2> QED BY <1>1
<1>3. \A T \in SUBSET S : h0[T] = g[T]
  <2> DEFINE Good == {T \in SUBSET S : h0[T] = g[T]}
  <2>1. {} \in Good
    <3>1. h0[{}] = 0
      <4> HIDE DEF h0
      <4> QED BY <1>2
    <3> QED BY <3>1 DEF IsSum
  <2>2. ASSUME NEW T \in SUBSET S, T # {}, \A U \in SUBSET T : U # T => U \in Good
        PROVE  T \in Good
    <3> DEFINE x == CHOOSE x \in T : TRUE
    <3>1. x \in T
      BY <2>2
    <3> HIDE DEF h0
    <3>2. h0[T] = f[x] + h0[T \ {x}] /\ g[T] = f[x] + g[T \ {x}]
      BY <1>1, <1>2, <2>2
    <3> HIDE DEF x
    <3>3. h0[T \ {x}] = g[T \ {x}]
      BY <2>2, <3>1
    <3> QED BY <3>2, <3>3
  <2> HIDE DEF Good
  <2>3. \A T \in SUBSET S : T \in Good
    BY <2>1, <2>2, SubsetInduction
  <2> QED BY <2>3 DEF Good
<1>4. SumFunctionOnSet(f, S) = h0[S]
  BY DEF SumFunctionOnSet, FoldFunctionOnSet, MapThenFoldSet
<1> QED BY <1>3, <1>4

\* Nothing sums to 0.
LEMMA SumEmpty == ASSUME NEW f PROVE SumFunctionOnSet(f, {}) = 0
<1>1. IsFiniteSet({})
  BY FS_EmptySet
<1>2. IsSum([T \in SUBSET {} |-> 0], f, {})
  BY DEF IsSum
<1>3. SumFunctionOnSet(f, {}) = [T \in SUBSET {} |-> 0][{}]
  BY <1>1, <1>2, SumIs
<1> QED BY <1>3

\* A sum of whole numbers is one.
LEMMA SumInt ==
  ASSUME NEW S, IsFiniteSet(S), NEW f, \A y \in S : f[y] \in Int
  PROVE  SumFunctionOnSet(f, S) \in Int
<1>1. PICK g : IsSum(g, f, S)
  BY SumExists
<1>2. SumFunctionOnSet(f, S) = g[S]
  BY <1>1, SumIs
<1> QED BY <1>1, <1>2 DEF IsSum

\* One element more adds what it is worth.
LEMMA SumAdd ==
  ASSUME NEW S, IsFiniteSet(S), NEW x, x \notin S,
         NEW f, \A y \in S \cup {x} : f[y] \in Int
  PROVE  /\ SumFunctionOnSet(f, S) \in Int
         /\ SumFunctionOnSet(f, S \cup {x}) = SumFunctionOnSet(f, S) + f[x]
<1> DEFINE T == S \cup {x}
<1>1. IsFiniteSet(T)
  BY FS_AddElement
<1>2. PICK g : IsSum(g, f, T)
  BY <1>1, SumExists
<1>3. SumFunctionOnSet(f, T) = g[T]
  BY <1>1, <1>2, SumIs
<1> DEFINE h == [U \in SUBSET S |-> g[U]]
<1>4. IsSum(h, f, S)
  <2>1. \A U \in SUBSET S : U \in SUBSET T
    OBVIOUS
  <2>2. \A U \in SUBSET S : \A y \in S \ U : y \in T \ U /\ U \cup {y} \in SUBSET S
    OBVIOUS
  <2> HIDE DEF T
  <2>3. h \in [SUBSET S -> Int] /\ h[{}] = 0
    BY <1>2, <2>1 DEF IsSum
  <2>4. ASSUME NEW U \in SUBSET S, NEW y \in S \ U PROVE h[U \cup {y}] = h[U] + f[y]
    BY <1>2, <2>1, <2>2 DEF IsSum
  <2> HIDE DEF h
  <2> QED BY <2>3, <2>4 DEF IsSum
<1>5. SumFunctionOnSet(f, S) = h[S]
  <2> HIDE DEF h
  <2> QED BY <1>4, SumIs
<1>6. g[S \cup {x}] = g[S] + f[x] /\ g[S] \in Int
  BY <1>2 DEF IsSum
<1> QED BY <1>3, <1>5, <1>6

\* A property of sums is shown of the empty set and of one element more.
LEMMA AddInduction ==
  ASSUME NEW S, IsFiniteSet(S), NEW Good, {} \in Good,
         \A T \in SUBSET S : \A x \in S \ T : T \in Good => T \cup {x} \in Good
  PROVE  S \in Good
<1>1. ASSUME NEW T \in SUBSET S, T # {}, \A U \in SUBSET T : U # T => U \in Good
      PROVE  T \in Good
  <2>1. PICK x \in T : TRUE
    BY <1>1
  <2>2. T \ {x} \in SUBSET S /\ x \in S \ (T \ {x}) /\ (T \ {x}) \cup {x} = T
    OBVIOUS
  <2>3. T \ {x} \in Good
    BY <1>1, <2>1
  <2>4. (T \ {x}) \cup {x} \in Good
    BY <2>2, <2>3
  <2> QED BY <2>2, <2>4
<1> QED BY <1>1, SubsetInduction

\* A sum of natural numbers is one.
LEMMA SumType ==
  ASSUME NEW S, IsFiniteSet(S), NEW f, \A y \in S : f[y] \in Nat
  PROVE  SumFunctionOnSet(f, S) \in Nat
<1> DEFINE Good == {T \in SUBSET S : SumFunctionOnSet(f, T) \in Nat}
<1>1. {} \in Good
  BY SumEmpty
<1>2. ASSUME NEW T \in SUBSET S, NEW x \in S \ T, T \in Good PROVE T \cup {x} \in Good
  <2>1. IsFiniteSet(T)
    BY FS_Subset
  <2>2. SumFunctionOnSet(f, T \cup {x}) = SumFunctionOnSet(f, T) + f[x]
    BY <2>1, SumAdd
  <2> QED BY <1>2, <2>2
<1> HIDE DEF Good
<1>3. S \in Good
  BY <1>1, <1>2, AddInduction
<1> QED BY <1>3 DEF Good

\* The sum over two sets that share nothing.
LEMMA SumUnion ==
  ASSUME NEW S, IsFiniteSet(S), NEW T, IsFiniteSet(T), S \cap T = {},
         NEW f, \A y \in S \cup T : f[y] \in Int
  PROVE  SumFunctionOnSet(f, S \cup T) = SumFunctionOnSet(f, S) + SumFunctionOnSet(f, T)
<1> DEFINE Adds(U) == SumFunctionOnSet(f, S \cup U)
                        = SumFunctionOnSet(f, S) + SumFunctionOnSet(f, U)
           Good == {U \in SUBSET T : SumFunctionOnSet(f, U) \in Int /\ Adds(U)}
<1>0. SumFunctionOnSet(f, S) \in Int
  BY SumInt
<1>1. {} \in Good
  <2>1. S \cup {} = S
    OBVIOUS
  <2> QED BY <1>0, <2>1, SumEmpty
<1>2. ASSUME NEW U \in SUBSET T, NEW x \in T \ U, U \in Good PROVE U \cup {x} \in Good
  <2> DEFINE V == S \cup U
  <2>1. /\ IsFiniteSet(U) /\ IsFiniteSet(V) /\ x \notin V
        /\ \A y \in V \cup {x} : f[y] \in Int
        /\ \A y \in U \cup {x} : f[y] \in Int
        /\ f[x] \in Int
    BY FS_Subset, FS_Union
  <2> HIDE DEF V
  <2>2. SumFunctionOnSet(f, U \cup {x}) = SumFunctionOnSet(f, U) + f[x]
    BY <2>1, SumAdd
  <2>3. SumFunctionOnSet(f, V \cup {x}) = SumFunctionOnSet(f, V) + f[x]
    BY <2>1, SumAdd
  <2>4. S \cup (U \cup {x}) = V \cup {x}
    BY DEF V
  <2>5. /\ SumFunctionOnSet(f, U) \in Int
        /\ SumFunctionOnSet(f, V) = SumFunctionOnSet(f, S) + SumFunctionOnSet(f, U)
    BY <1>2 DEF V
  <2>6. SumFunctionOnSet(f, U \cup {x}) \in Int
    BY <2>1, <2>2, <2>5
  <2>7. SumFunctionOnSet(f, S \cup (U \cup {x}))
          = SumFunctionOnSet(f, S) + SumFunctionOnSet(f, U \cup {x})
    <3>1. SumFunctionOnSet(f, S \cup (U \cup {x})) = SumFunctionOnSet(f, V \cup {x})
      BY <2>4
    <3> HIDE DEF Good
    <3> QED BY <1>0, <2>1, <2>2, <2>3, <2>5, <3>1
  <2> QED BY <2>6, <2>7
<1> HIDE DEF Good
<1>3. T \in Good
  BY <1>1, <1>2, AddInduction
<1> QED BY <1>3 DEF Good
-----------------------------------------------------------------------------
(* The window of a block's shares.                                         *)

\* Every set of naturals has a least element.
LEMMA LeastNatural ==
  ASSUME NEW T, T \subseteq Nat, T # {}
  PROVE  \E n \in T : \A m \in T : n <= m
<1>1. PICK n \in T : \A m \in T : <<m, n>> \notin OpToRel(<, Nat)
  BY NatLessThanWellFounded, WFMin, Zenon
<1>2. \A m \in T : ~(m < n)
  BY <1>1 DEF OpToRel
<1> QED BY <1>2

\* Difficulty of the newest n shares.
NewestDiff(n) == DifficultyOf(Newest(n))

\* What is known of the rows of the table shares.
LEMMA DifficultyTypes ==
  ASSUME NEW rows \in SUBSET (1 .. Len(Shares))
  PROVE  /\ DifficultyOf(rows) \in Nat
         /\ IsFiniteSet(rows)
         /\ \A i \in 1 .. Len(Shares) : /\ Shares[i].difficulty \in Nat \ {0}
                                        /\ Shares[i].account \in Accounts
<1>1. Len(Shares) \in Nat /\ DOMAIN Shares = 1 .. Len(Shares)
  BY LedgerAssumption
<1>2. ASSUME NEW i \in 1 .. Len(Shares)
      PROVE  Shares[i].difficulty \in Nat \ {0} /\ Shares[i].account \in Accounts
  <2>1. Shares \in Seq([account : Accounts, difficulty : Nat \ {0}])
    BY LedgerAssumption
  <2>2. Shares[i] \in [account : Accounts, difficulty : Nat \ {0}]
    BY <2>1, ElementOfSeq
  <2> QED BY <2>2
<1>3. IsFiniteSet(rows)
  <2>1. IsFiniteSet(1 .. Len(Shares))
    BY <1>1, FS_Interval
  <2> QED BY <2>1, FS_Subset
<1> DEFINE f == [i \in DOMAIN Shares |-> Shares[i].difficulty]
<1>4. \A i \in rows : f[i] \in Nat
  BY <1>1, <1>2
<1> HIDE DEF f
<1>5. SumFunctionOnSet(f, rows) \in Nat
  BY <1>3, <1>4, SumType
<1> QED BY <1>2, <1>3, <1>5 DEF f, DifficultyOf

\* One more of the newest shares adds what it is worth.
LEMMA NewestGrows ==
  ASSUME stored \in 0 .. Len(Shares)
  PROVE  /\ NewestDiff(0) = 0
         /\ \A n \in 0 .. stored : NewestDiff(n) \in Nat
         /\ \A n \in 0 .. stored - 1 :
              NewestDiff(n + 1) = NewestDiff(n) + Shares[stored - n].difficulty
<1>1. Len(Shares) \in Nat /\ DOMAIN Shares = 1 .. Len(Shares)
  BY LedgerAssumption
<1>2. ASSUME NEW n \in 0 .. stored
      PROVE  Newest(n) \in SUBSET (1 .. Len(Shares))
  BY <1>1 DEF Newest
<1>3. \A n \in 0 .. stored : NewestDiff(n) \in Nat
  BY <1>2, DifficultyTypes DEF NewestDiff
<1>4. NewestDiff(0) = 0
  <2>1. Newest(0) = {}
    BY <1>1 DEF Newest
  <2> QED BY <2>1, SumEmpty DEF NewestDiff, DifficultyOf
<1>5. ASSUME NEW n \in 0 .. stored - 1
      PROVE  NewestDiff(n + 1) = NewestDiff(n) + Shares[stored - n].difficulty
  <2> DEFINE f == [i \in DOMAIN Shares |-> Shares[i].difficulty]
             x == stored - n
  <2>1. /\ x \in 1 .. Len(Shares) /\ x \notin Newest(n)
        /\ Newest(n + 1) = Newest(n) \cup {x}
        /\ Newest(n) \in SUBSET (1 .. Len(Shares))
    BY <1>1 DEF Newest
  <2>2. IsFiniteSet(Newest(n))
    BY <2>1, DifficultyTypes
  <2>3. \A y \in Newest(n) \cup {x} : f[y] \in Int
    <3> SUFFICES ASSUME NEW y \in Newest(n) \cup {x} PROVE f[y] \in Int
      OBVIOUS
    <3>1. y \in 1 .. Len(Shares)
      BY <2>1
    <3>2. Shares[y].difficulty \in Nat \ {0}
      BY <2>1, <3>1, DifficultyTypes
    <3>3. f[y] = Shares[y].difficulty
      BY <1>1, <3>1
    <3> QED BY <3>2, <3>3
  <2>4. f[x] = Shares[x].difficulty
    BY <1>1, <2>1
  <2> HIDE DEF f, x
  <2>5. SumFunctionOnSet(f, Newest(n) \cup {x}) = SumFunctionOnSet(f, Newest(n)) + f[x]
    BY <2>1, <2>2, <2>3, SumAdd
  <2> QED BY <2>1, <2>4, <2>5 DEF f, x, NewestDiff, DifficultyOf
<1> QED BY <1>3, <1>4, <1>5

\* The loop of get_pplns_shares stops at the first total that fills the
\* window, or at the last row.
LEMMA TakenIsShortest ==
  ASSUME stored \in 0 .. Len(Shares)
  PROVE  /\ Taken \in 0 .. stored
         /\ NewestDiff(Taken) >= Window \/ Taken = stored
         /\ \A n \in 0 .. Taken - 1 : NewestDiff(n) < Window
<1> DEFINE N == stored
           D(n) == NewestDiff(n)
           E(h) == [n \in 0 .. stored |->
                      IF n = stored \/ Full(DifficultyOf(Newest(n))) THEN n ELSE h[n + 1]]
           Stops == {n \in 0 .. N : n = N \/ D(n) >= Window}
           Least(T) == CHOOSE n \in T : \A m \in T : n <= m
           g == [n \in 0 .. stored |-> Least({m \in Stops : m >= n})]
           loop == CHOOSE h : h = E(h)
<1>1. /\ N \in Nat /\ Window \in Nat
      /\ \A n \in 0 .. N : D(n) \in Nat
      /\ \A n : DifficultyOf(Newest(n)) = D(n)
  BY NewestGrows, LedgerAssumption DEF NewestDiff
<1>2. ASSUME NEW T \in SUBSET Nat, T # {}
      PROVE  Least(T) \in T /\ \A m \in T : Least(T) <= m
  BY <1>2, LeastNatural
<1>3. Stops \in SUBSET Nat /\ N \in Stops
  BY <1>1
<1> HIDE DEF D
<1>4. ASSUME NEW n \in 0 .. N
      PROVE  g[n] = IF n = N \/ Full(D(n)) THEN n ELSE g[n + 1]
  <2> DEFINE T == {m \in Stops : m >= n}
  <2>0. T \in SUBSET Nat /\ T # {}
    BY <1>1, <1>3
  <2>1. CASE n = N \/ Full(D(n))
    <3>1. n \in T /\ \A m \in T : n <= m
      BY <1>1, <2>1 DEF Full
    <3> HIDE DEF T, Least
    <3>2. Least(T) \in T /\ Least(T) <= n
      BY <1>2, <2>0, <3>1
    <3>3. Least(T) \in Nat /\ n <= Least(T)
      BY <2>0, <3>1, <3>2
    <3>4. Least(T) = n
      BY <3>2, <3>3
    <3> QED BY <2>1, <3>4 DEF T
  <2>2. CASE ~(n = N \/ Full(D(n)))
    <3>1. n + 1 \in 0 .. N /\ n \notin Stops
      BY <1>1, <2>2 DEF Full
    <3>2. T = {m \in Stops : m >= n + 1}
      BY <1>1, <1>3, <3>1
    <3> HIDE DEF T, Least, Stops
    <3> QED BY <2>2, <3>1, <3>2 DEF T
  <2> QED BY <2>1, <2>2
<1>5. g = E(g)
  <2> HIDE DEF Least, Stops
  <2> QED BY <1>1, <1>4
<1>6. loop = E(loop)
  <2> HIDE DEF E, g
  <2> QED BY <1>5
<1>7. Taken = loop[0]
  BY DEF Taken
<1>8. \A n \in 0 .. N : loop[n] = IF n = N \/ Full(D(n)) THEN n ELSE loop[n + 1]
  <2> HIDE DEF loop
  <2> QED BY <1>1, <1>6
<1> DEFINE k == Least(Stops)
<1>9. /\ k \in 0 .. N
      /\ k = N \/ D(k) >= Window
      /\ \A n \in 0 .. k - 1 : n # N /\ D(n) < Window
  <2>1. k \in Stops /\ \A m \in Stops : k <= m
    <3> HIDE DEF Stops, Least
    <3> QED BY <1>2, <1>3
  <2> HIDE DEF k, Least
  <2>2. k \in 0 .. N /\ (k = N \/ D(k) >= Window)
    BY <1>1, <2>1
  <2>3. ASSUME NEW n \in 0 .. k - 1 PROVE n # N /\ D(n) < Window
    <3>1. n \in 0 .. N /\ n < k /\ D(n) \in Nat
      BY <1>1, <2>2
    <3>2. n \notin Stops
      <4> HIDE DEF Stops
      <4> QED BY <2>1, <2>2, <3>1
    <3> QED BY <1>1, <2>2, <3>1, <3>2
  <2> QED BY <2>2, <2>3
<1> HIDE DEF k, loop
<1>10. \A m \in 0 .. k : loop[k - m] = k
  <2> DEFINE Bad == {m \in 0 .. k : loop[k - m] # k}
  <2>1. SUFFICES ASSUME Bad # {} PROVE FALSE
    OBVIOUS
  <2>2. PICK m \in Bad : \A n \in Bad : m <= n
    <3>1. Bad \subseteq Nat
      BY <1>1, <1>9
    <3> HIDE DEF Bad
    <3> QED BY <2>1, <3>1, LeastNatural
  <2>3. CASE m = 0
    <3>1. loop[k] = k
      BY <1>1, <1>8, <1>9 DEF Full
    <3> QED BY <1>1, <1>9, <2>2, <2>3, <3>1
  <2>4. CASE m # 0
    <3>0. m \in 0 .. k /\ k \in 0 .. N /\ N \in Nat
      BY <1>1, <1>9, <2>2
    <3>1. /\ m - 1 \in 0 .. k /\ k - (m - 1) = (k - m) + 1
          /\ k - m \in 0 .. k - 1 /\ k - m \in 0 .. N
      BY <2>4, <3>0
    <3>2. loop[(k - m) + 1] = k
      <4>1. ~(m <= m - 1)
        BY <3>0
      <4>2. m - 1 \notin Bad
        <5> HIDE DEF Bad
        <5> QED BY <2>2, <4>1
      <4> QED BY <3>1, <4>2
    <3>3. ~(k - m = N \/ Full(D(k - m)))
      BY <1>1, <1>9, <3>1 DEF Full
    <3>4. loop[k - m] = k
      BY <1>8, <3>1, <3>2, <3>3
    <3> QED BY <2>2, <3>4
  <2> QED BY <2>3, <2>4
<1>11. loop[0] = k
  BY <1>1, <1>9, <1>10
<1> QED BY <1>7, <1>9, <1>11 DEF D
-----------------------------------------------------------------------------
(* PoolLedger: the books of an account.                                    *)

Amount == [r \in Requests |-> want[r].amount]

LedgerTyped ==
  /\ balance \in [Accounts -> Int]
  /\ earned \in [Accounts -> Nat]
  /\ stored \in 0 .. Len(Shares)
  /\ place \in {"idle", "shares", "credit", "earn"}
  /\ part \in [Accounts -> Nat]
  /\ payees \subseteq Accounts
  /\ paying \in Accounts \cup {NoAccount}
  /\ place = "earn" <=> paying # NoAccount
  /\ reconciling \in BOOLEAN
  /\ DOMAIN corrections \subseteq Accounts
  /\ \A a \in DOMAIN corrections : corrections[a] \in Int

\* Rows are inserted one by one.
RowsFinite == IsFiniteSet({r \in Requests : status[r] # "absent"})

\* A row that no pass overlapped, while nothing has failed, is its handler's
\* alone, from the insert to "completed" or "failed", and is debited once at
\* most, just before it is completed.
Clean(r) == crashes = 0 /\ dbFailures = 0 /\ overlapped[r] = 0

CleanRows ==
  \A r \in Requests : Clean(r) =>
    /\ ~ProcHas(r)
    /\ pc[r] \in Early => status[r] = "absent" /\ debits[r] = 0
    /\ pc[r] \in {"send", "debit", "fail"} => status[r] = "pending" /\ debits[r] = 0
    /\ pc[r] = "complete" => status[r] = "pending"
    /\ pc[r] = "done" => \/ status[r] \in {"absent", "failed"} /\ debits[r] = 0
                         \/ status[r] = "completed"

\* None of the causes BooksAgree names.
Sound(a) ==
  /\ crashes = 0 /\ dbFailures = 0 /\ a \notin raced
  /\ \A r \in Requests :
       want[r].account = a =>
         overlapped[r] = 0 /\ ~(status[r] = "completed" /\ debits[r] = 0)

\* What the account's debits took, and what was credited and not recorded yet.
Debited(a) == {r \in Requests : want[r].account = a /\ debits[r] # 0}
Spent(a) == SumFunctionOnSet(Amount, Debited(a))
Unrecorded(a) == IF paying = a THEN part[a] ELSE 0

Books ==
  \A a \in Accounts : Sound(a) => balance[a] = earned[a] + Unrecorded(a) - Spent(a)

\* A reconciliation under way knows who was busy, and is right about all others.
Watched ==
  /\ ~reconciling => busySince = {} /\ corrections = <<>>
  /\ reconciling =>
       \A a \in Accounts :
         /\ Busy(a) => a \in busySince
         /\ a \notin busySince =>
              IF a \in DOMAIN corrections
                THEN corrections[a] = CorrectAmount(a)
                ELSE earned[a] > 0 => balance[a] = CorrectAmount(a)

LedgerInv == RowsInv /\ LedgerTyped /\ RowsFinite /\ CleanRows /\ Books /\ Watched
-----------------------------------------------------------------------------
\* A clean row stays its handler's alone: the processor takes only rows that are
\* pending, and one that is pending under a working handler is marked.
LEMMA CleanStep ==
  Typed /\ Shape /\ OverlapMarked /\ CleanRows /\ [Next]_vars => CleanRows'
<1> USE DEF Typed, Shape, ProcAt, NoFault, Quiet, NothingWritten, Goto,
        Answer, SetStatus, ProcGoto, handlerVars, procVars, rowVars, paidVars,
        inputVars, Early, Working, ProcHas, DbFails, OverlapMarked, CleanRows, Clean
<1> SUFFICES ASSUME Typed, Shape, OverlapMarked, CleanRows, [Next]_vars PROVE CleanRows'
  OBVIOUS
<1>1. ASSUME NEW r \in Requests, Handler(r) PROVE CleanRows'
  <2>1. CASE Receive(r)
    BY <2>1 DEF Receive
  <2>2. CASE CheckRate(r)
    BY <2>2 DEF CheckRate
  <2>3. CASE CheckBalance(r)
    BY <2>3 DEF CheckBalance
  <2>4. CASE CheckAddress(r)
    BY <2>4 DEF CheckAddress
  <2>5. CASE QueryFails(r)
    BY <2>5 DEF QueryFails
  <2>6. CASE CreateRow(r)
    BY <2>6 DEF CreateRow
  <2>7. CASE Send(r)
    BY <2>7 DEF Send, SendOutcomes
  <2>8. CASE DebitAfterSend(r)
    BY <2>8 DEF DebitAfterSend, Debit, CanDebit
  <2>9. CASE Complete(r)
    BY <2>9 DEF Complete
  <2>10. CASE Fail(r)
    BY <2>10 DEF Fail
  <2> QED BY <1>1, <2>1, <2>2, <2>3, <2>4, <2>5, <2>6, <2>7, <2>8, <2>9, <2>10
          DEF Handler
<1>2. ASSUME Processor PROVE CleanRows'
  <2>1. CASE ProcTick
    BY <2>1 DEF ProcTick, PendingWithdrawals, HandlerPlaces
  <2>2. CASE ProcEndPass
    BY <2>2 DEF ProcEndPass
  <2>3. CASE ProcSend
    BY <2>3 DEF ProcSend, SendOutcomes
  <2>4. CASE ProcDebit
    BY <2>4 DEF ProcDebit, Debit, CanDebit
  <2>5. CASE ProcComplete
    BY <2>5 DEF ProcComplete, ProcSettle
  <2>6. CASE ProcFail
    BY <2>6 DEF ProcFail, ProcSettle
  <2>7. ASSUME NEW r \in Requests, ProcNext(r) PROVE CleanRows'
    BY <2>7 DEF ProcNext
  <2> QED BY <1>2, <2>1, <2>2, <2>3, <2>4, <2>5, <2>6, <2>7 DEF Processor
<1>3. CASE Crash
  BY <1>3 DEF Crash
<1>4. CASE UNCHANGED vars
  BY <1>4 DEF vars
<1> QED BY <1>1, <1>2, <1>3, <1>4 DEF Next

\* Rows are inserted one at a time.
LEMMA FiniteStep == Typed /\ Shape /\ RowsFinite /\ [Next]_vars => RowsFinite'
<1> SUFFICES ASSUME Typed, Shape, RowsFinite, [Next]_vars PROVE RowsFinite'
  OBVIOUS
<1> DEFINE rows == {r \in Requests : status[r] # "absent"}
<1>1. \/ UNCHANGED status
      \/ \E r \in Requests : \E s \in Statuses : SetStatus(r, s)
  BY DEF Next, vars, Handler, Processor, Crash, NothingWritten, rowVars, Statuses,
         Receive, CheckRate, CheckBalance, CheckAddress, QueryFails, CreateRow,
         Send, DebitAfterSend, Complete, Fail, ProcTick, ProcEndPass, ProcSend,
         ProcDebit, ProcComplete, ProcFail, ProcSettle, ProcNext, Shape
<1>2. CASE UNCHANGED status
  BY <1>2 DEF RowsFinite
<1>3. ASSUME NEW r \in Requests, NEW s \in Statuses, SetStatus(r, s) PROVE RowsFinite'
  <2>1. IsFiniteSet(rows \cup {r})
    BY FS_AddElement DEF RowsFinite
  <2>2. rows' \subseteq rows \cup {r}
    BY <1>3 DEF SetStatus, Typed
  <2>3. IsFiniteSet(rows')
    <3> HIDE DEF rows
    <3> QED BY <2>1, <2>2, FS_Subset
  <2> QED BY <2>3 DEF RowsFinite
<1> QED BY <1>1, <1>2, <1>3

\* The distribution and the reconciliation touch no row; a failed statement of
\* theirs is one fault more.
LEMMA OthersKeepRows ==
  /\ RowsInv /\ RowsFinite /\ CleanRows
  /\ KeepWithdrawals /\ (UNCHANGED dbFailures \/ DbFails)
  => RowsInv' /\ RowsFinite' /\ CleanRows'
<1> SUFFICES ASSUME RowsInv, RowsFinite, CleanRows, KeepWithdrawals,
                    UNCHANGED dbFailures \/ DbFails
             PROVE  RowsInv' /\ RowsFinite' /\ CleanRows'
  OBVIOUS
<1> USE DEF KeepWithdrawals, inputVars, rowVars, handlerVars, procVars
<1>1. dbFailures \in Nat /\ crashes \in Nat /\ dbFailures' \in Nat /\ dbFailures' >= dbFailures
  BY DEF RowsInv, Typed, DbFails
<1>2. Typed'
  BY <1>1 DEF RowsInv, Typed
<1>3. Shape' /\ DebitsBacked' /\ CompletedBacked' /\ OverlapMarked'
  BY DEF RowsInv, Shape, DebitsBacked, CompletedBacked, OverlapMarked, ProcAt, ProcHas, Bit
<1>4. SendsBudget'
  <2>1. ASSUME NEW r \in Requests
        PROVE  /\ sent[r] \in Nat /\ overlapped[r] \in Nat
               /\ HandlerWillSend(r) \in Nat /\ PassWillSend(r) \in Nat
               /\ NextPassWillSend(r) \in Nat
    BY DEF RowsInv, Typed, HandlerWillSend, PassWillSend, NextPassWillSend, Bit
  <2>2. ASSUME NEW r \in Requests
        PROVE  /\ HandlerWillSend(r)' = HandlerWillSend(r)
               /\ PassWillSend(r)' = PassWillSend(r)
               /\ NextPassWillSend(r)' = NextPassWillSend(r)
    BY DEF HandlerWillSend, PassWillSend, NextPassWillSend, ProcAt, Bit
  <2>3. sent' = sent /\ overlapped' = overlapped /\ crashes' = crashes
    OBVIOUS
  <2> QED BY <1>1, <2>1, <2>2, <2>3 DEF RowsInv, SendsBudget
<1>5. FailuresClean'
  BY <1>1 DEF RowsInv, FailuresClean, Undisturbed, ProcHas, ProcAt
<1>6. CleanRows' /\ RowsFinite'
  BY <1>1 DEF CleanRows, Clean, ProcHas, ProcAt, RowsFinite
<1> QED BY <1>2, <1>3, <1>4, <1>5, <1>6 DEF RowsInv

\* Every step of the ledger leaves the rows in order.
LEMMA LedgerRowsStep ==
  RowsInv /\ RowsFinite /\ CleanRows /\ [LedgerNext]_allVars
    => RowsInv' /\ RowsFinite' /\ CleanRows'
<1> SUFFICES ASSUME RowsInv, RowsFinite, CleanRows, [LedgerNext]_allVars
             PROVE  RowsInv' /\ RowsFinite' /\ CleanRows'
  OBVIOUS
<1>1. CASE [Next]_vars
  BY <1>1, RowsStep, FiniteStep, CleanStep DEF RowsInv
<1>2. CASE KeepWithdrawals /\ (UNCHANGED dbFailures \/ DbFails)
  BY <1>2, OthersKeepRows
<1>3. Withdrawing => Next
  BY DEF Withdrawing, Next
<1>4. PoolCrash => Next
  BY DEF PoolCrash, Next
<1>5. UNCHANGED allVars => UNCHANGED vars
  BY DEF allVars
<1>6. Distribution \/ Reconciliation \/ NewShare
        => KeepWithdrawals /\ (UNCHANGED dbFailures \/ DbFails)
  BY DEF Distribution, Reconciliation, NewShare, Confirm, ReadWindow, CreditBalance,
         InsertEarning, GiveUp, ReconcileStart, ReconcileCommit, ReconcileFails,
         KeepAllElse
<1> QED BY <1>1, <1>2, <1>3, <1>4, <1>5, <1>6 DEF LedgerNext

\* What a row asks for is a whole number.
LEMMA AmountNat == RowsInv => \A r \in Requests : Amount[r] \in Nat
<1> SUFFICES ASSUME RowsInv, NEW r \in Requests PROVE Amount[r] \in Nat
  OBVIOUS
<1>1. want[r] \in [account : Accounts, amount : Amounts]
  BY DEF RowsInv, Typed
<1> QED BY <1>1, ConstantsAssumption DEF Amount

\* What an account has had sent and was debited for, once nobody is at work on
\* its rows: the completed ones, each debited.
LEMMA SettledRows ==
  ASSUME RowsInv, CleanRows, NEW a \in Accounts, Sound(a), ~Busy(a)
  PROVE  Debited(a) = {r \in Requests : want[r].account = a /\ status[r] = "completed"}
<1> SUFFICES ASSUME NEW r \in Requests, want[r].account = a
             PROVE  debits[r] # 0 <=> status[r] = "completed"
  BY DEF Debited
<1>1. Clean(r) /\ ~(status[r] = "completed" /\ debits[r] = 0)
  BY DEF Sound, Clean
<1>2. pc[r] # "complete" /\ pc[r] \in HandlerPlaces
  BY DEF Busy, RowsInv, Typed
<1>3. ASSUME debits[r] # 0 PROVE status[r] = "completed"
  BY <1>1, <1>2, <1>3 DEF CleanRows, HandlerPlaces, Early
<1> QED BY <1>1, <1>3

\* The rows of a sound account that were debited are finitely many, and what
\* they took is a whole number.
LEMMA DebitedFinite ==
  ASSUME RowsInv, RowsFinite, CleanRows, NEW a \in Accounts, Sound(a)
  PROVE  IsFiniteSet(Debited(a)) /\ Spent(a) \in Int
<1>1. ASSUME NEW r \in Debited(a) PROVE status[r] # "absent"
  <2>1. Clean(r) /\ r \in Requests /\ debits[r] # 0 /\ pc[r] \in HandlerPlaces
    BY DEF Sound, Clean, Debited, RowsInv, Typed
  <2> QED BY <2>1 DEF CleanRows, HandlerPlaces, Early
<1>2. Debited(a) \subseteq {r \in Requests : status[r] # "absent"}
  BY <1>1 DEF Debited
<1>3. IsFiniteSet(Debited(a))
  BY <1>2, FS_Subset DEF RowsFinite
<1>4. \A r \in Debited(a) : Amount[r] \in Int
  BY AmountNat DEF Debited
<1> QED BY <1>3, <1>4, SumInt DEF Spent

\* The completed withdrawals are finitely many.
LEMMA WithdrawnInt ==
  ASSUME RowsInv, RowsFinite, NEW a \in Accounts
  PROVE  Withdrawn(a) \in Int
<1> DEFINE rows == {r \in Requests : want[r].account = a /\ status[r] = "completed"}
<1>1. rows \subseteq {r \in Requests : status[r] # "absent"}
  OBVIOUS
<1>2. IsFiniteSet(rows)
  <2> HIDE DEF rows
  <2> QED BY <1>1, FS_Subset DEF RowsFinite
<1>3. \A r \in rows : Amount[r] \in Int
  BY AmountNat
<1>4. SumFunctionOnSet(Amount, rows) \in Int
  <2> HIDE DEF rows
  <2> QED BY <1>2, <1>3, SumInt
<1> QED BY <1>4 DEF Withdrawn, Amount

\* With the books of the account in order, the reconciliation's right amount is
\* its balance.
LEMMA SettledBooks ==
  ASSUME LedgerInv, NEW a \in Accounts, Sound(a), ~Busy(a)
  PROVE  balance[a] = CorrectAmount(a)
<1>1. Spent(a) = Withdrawn(a)
  BY SettledRows DEF LedgerInv, Spent, Withdrawn, Amount
<1>2. Unrecorded(a) = 0
  BY DEF Unrecorded, Busy
<1>3. balance[a] = earned[a] + Unrecorded(a) - Spent(a)
  BY DEF LedgerInv, Books
<1>4. earned[a] \in Int /\ Spent(a) \in Int
  BY DebitedFinite DEF LedgerInv, LedgerTyped
<1> QED BY <1>1, <1>2, <1>3, <1>4 DEF CorrectAmount

\* The parts of a block are natural numbers: the window of a distribution that
\* found shares is worth something.
LEMMA PartTypes ==
  ASSUME stored \in 1 .. Len(Shares)
  PROVE  /\ Taken \in 1 .. stored
         /\ NewestDiff(Taken) \in Nat \ {0}
         /\ Part \in [Accounts -> Nat]
<1>1. Len(Shares) \in Nat /\ Window \in Nat \ {0} /\ Distributable \in Nat \ {0}
  BY LedgerAssumption
<1>2. /\ Taken \in 0 .. stored
      /\ NewestDiff(Taken) >= Window \/ Taken = stored
      /\ NewestDiff(0) = 0
      /\ \A n \in 0 .. stored : NewestDiff(n) \in Nat
  BY <1>1, TakenIsShortest, NewestGrows
<1>3. Taken # 0
  BY <1>1, <1>2
<1>4. NewestDiff(Taken) > 0
  <2>1. CASE NewestDiff(Taken) >= Window
    BY <1>1, <1>2, <2>1
  <2>2. CASE Taken = stored
    <3>1. stored - 1 \in 0 .. stored - 1 /\ stored - 1 \in 0 .. stored /\ (stored - 1) + 1 = stored
      OBVIOUS
    <3>2. stored - (stored - 1) \in 1 .. Len(Shares)
      BY <1>1
    <3>3. Shares[stored - (stored - 1)].difficulty \in Nat \ {0}
      BY <3>2, DifficultyTypes
    <3>4. NewestDiff(stored) = NewestDiff(stored - 1) + Shares[stored - (stored - 1)].difficulty
      BY <3>1, NewestGrows
    <3>5. NewestDiff(stored - 1) \in Nat
      BY <1>2, <3>1
    <3> QED BY <2>2, <3>3, <3>4, <3>5
  <2> QED BY <1>2, <2>1, <2>2
<1>5. ASSUME NEW a \in Accounts
      PROVE  (Distributable * MinerDiff(a)) \div DifficultyOf(PplnsShares) \in Nat
  <2>1. MinerDiff(a) \in Nat
    <3>1. {i \in PplnsShares : Shares[i].account = a} \in SUBSET (1 .. Len(Shares))
      BY <1>1, <1>2 DEF PplnsShares, Newest
    <3> QED BY <3>1, DifficultyTypes DEF MinerDiff
  <2>2. DifficultyOf(PplnsShares) \in Nat \ {0}
    BY <1>2, <1>4 DEF NewestDiff, PplnsShares
  <2>3. Distributable * MinerDiff(a) \in Nat
    BY <1>1, <2>1
  <2> QED BY <2>2, <2>3
<1> QED BY <1>2, <1>3, <1>4, <1>5 DEF Part

\* Every table and every variable of the distribution and the reconciliation
\* keeps its type; the division of a block is one of whole numbers.
LEMMA LedgerTypesStep ==
  RowsInv /\ RowsFinite /\ LedgerTyped /\ [LedgerNext]_allVars => LedgerTyped'
<1> SUFFICES ASSUME RowsInv, RowsFinite, LedgerTyped, [LedgerNext]_allVars
             PROVE  LedgerTyped'
  OBVIOUS
<1> USE DEF LedgerTyped
<1>1. CASE UNCHANGED allVars
  BY <1>1 DEF allVars, vars, ledgerVars, distributionVars, reconcileVars
<1>2. CASE Withdrawing
  <2>1. /\ UNCHANGED <<distributionVars, earned>> /\ UNCHANGED reconcileVars
        /\ Next
    BY <1>2 DEF Withdrawing, KeepReconcile, Next
  <2>2. \/ UNCHANGED balance
        \/ \E r \in Requests : Debit(r)
    BY <1>2 DEF Withdrawing, Handler, Processor, NothingWritten, paidVars,
           Receive, CheckRate, CheckBalance, CheckAddress, QueryFails, CreateRow,
           Send, DebitAfterSend, Complete, Fail, ProcTick, ProcEndPass, ProcSend,
           ProcDebit, ProcComplete, ProcFail, ProcSettle, ProcNext, RowsInv, Shape
  <2>3. ASSUME NEW r \in Requests, Debit(r) PROVE balance' \in [Accounts -> Int]
    <3>1. want[r] \in [account : Accounts, amount : Amounts]
      BY DEF RowsInv, Typed
    <3>2. want[r].account \in Accounts
      BY <3>1
    <3>3. want[r].amount \in Int
      BY AmountNat DEF Amount
    <3> QED BY <2>3, <3>2, <3>3 DEF Debit
  <2>4. balance' \in [Accounts -> Int]
    BY <2>2, <2>3
  <2> QED BY <2>1, <2>4 DEF distributionVars, reconcileVars
<1>3. CASE NewShare
  <2>1. stored' \in 0 .. Len(Shares)
    BY <1>3, LedgerAssumption DEF NewShare
  <2> QED BY <1>3, <2>1 DEF NewShare, KeepReconcile, reconcileVars
<1>4. CASE Distribution
  <2> USE DEF KeepReconcile, KeepTables, reconcileVars, Finish, GiveUp, Zero
  <2>1. ASSUME NEW b \in Blocks, Confirm(b) PROVE LedgerTyped'
    BY <2>1 DEF Confirm
  <2>2. CASE ReadWindow
    <3>1. part' \in [Accounts -> Nat]
      <4>1. CASE part' = Part /\ stored > 0
        <5>1. stored \in 1 .. Len(Shares)
          BY <4>1, LedgerAssumption
        <5> QED BY <4>1, <5>1, PartTypes
      <4>2. CASE part' = Zero
        BY <4>2
      <4> QED BY <2>2, <4>1, <4>2 DEF ReadWindow
    <3>2. payees' \subseteq Accounts /\ paying' = NoAccount /\ place' \in {"idle", "credit"}
      BY <2>2 DEF ReadWindow
    <3>3. UNCHANGED <<stored, earned, balance, reconciling, corrections>>
      BY <2>2 DEF ReadWindow
    <3> QED BY <3>1, <3>2, <3>3
  <2>3. CASE InsertEarning
    <3>1. paying \in Accounts
      BY <2>3 DEF InsertEarning
    <3>2. earned' \in [Accounts -> Nat]
      BY <2>3, <3>1 DEF InsertEarning
    <3> QED BY <2>3, <3>2 DEF InsertEarning
  <2>4. ASSUME NEW a \in Accounts, CreditBalance(a) PROVE LedgerTyped'
    <3>1. balance' \in [Accounts -> Int]
      BY <2>4 DEF CreditBalance
    <3>2. a # NoAccount
      BY LedgerAssumption
    <3> QED BY <2>4, <3>1, <3>2 DEF CreditBalance
  <2> QED BY <1>4, <2>1, <2>2, <2>3, <2>4 DEF Distribution
<1>5. CASE Reconciliation
  <2> USE DEF KeepAllElse, distributionVars, ReconcileEnd
  <2>1. CASE ReconcileStart
    <3> DEFINE S == {b \in Accounts : earned[b] > 0 /\ balance[b] # CorrectAmount(b)}
    <3>1. \A a \in Accounts : CorrectAmount(a) \in Int
      BY WithdrawnInt DEF CorrectAmount
    <3>2. corrections' = [a \in S |-> CorrectAmount(a)]
      BY <2>1 DEF ReconcileStart
    <3>3. S \subseteq Accounts
      OBVIOUS
    <3>4. DOMAIN corrections' \subseteq Accounts /\ \A a \in DOMAIN corrections' : corrections'[a] \in Int
      <4> HIDE DEF S
      <4> QED BY <3>1, <3>2, <3>3
    <3> QED BY <2>1, <3>4 DEF ReconcileStart
  <2>2. CASE ReconcileCommit
    <3>1. balance' \in [Accounts -> Int]
      BY <2>2 DEF ReconcileCommit
    <3>2. DOMAIN corrections' = {}
      BY <2>2 DEF ReconcileCommit
    <3> QED BY <2>2, <3>1, <3>2 DEF ReconcileCommit
  <2>3. CASE ReconcileFails
    <3>1. DOMAIN corrections' = {}
      BY <2>3 DEF ReconcileFails
    <3> QED BY <2>3, <3>1 DEF ReconcileFails
  <2> QED BY <1>5, <2>1, <2>2, <2>3 DEF Reconciliation
<1>6. CASE PoolCrash
  BY <1>6 DEF PoolCrash, Crash, Finish, Zero, KeepReconcile, reconcileVars,
         NothingWritten, paidVars
<1> QED BY <1>1, <1>2, <1>3, <1>4, <1>5, <1>6 DEF LedgerNext

\* What a step of the handlers and the processor may do to the books: requests
\* stay, faults and overlaps are never forgotten, and the status and the debits
\* of a row change only in the hands of somebody who has reached it.
LEMMA RowHistory ==
  ASSUME RowsInv, [Next]_vars
  PROVE  /\ want' = want
         /\ crashes' = 0 => crashes = 0
         /\ dbFailures' = 0 => dbFailures = 0
         /\ \A r \in Requests :
              /\ overlapped'[r] = 0 => overlapped[r] = 0
              /\ status'[r] # status[r] \/ debits'[r] # debits[r] =>
                   \/ pc[r] \in {"create", "debit", "complete", "fail"}
                   \/ ProcAt(r, {"debit", "complete", "fail"})
<1> USE DEF RowsInv, Typed, NoFault, Quiet, NothingWritten, Goto, Answer, SetStatus,
        ProcGoto, handlerVars, procVars, rowVars, paidVars, inputVars, DbFails
<1>1. ASSUME NEW r \in Requests, Handler(r)
      PROVE  /\ want' = want /\ overlapped' = overlapped
             /\ crashes' = 0 => crashes = 0
             /\ dbFailures' = 0 => dbFailures = 0
  BY <1>1 DEF Handler, Receive, CheckRate, CheckBalance, CheckAddress, QueryFails,
         CreateRow, Send, DebitAfterSend, Complete, Fail
<1>2. ASSUME NEW q \in Requests, Handler(q), NEW r \in Requests
      PROVE  status'[r] # status[r] \/ debits'[r] # debits[r] =>
               pc[r] \in {"create", "debit", "complete", "fail"}
  BY <1>2 DEF Handler, Receive, CheckRate, CheckBalance, CheckAddress, QueryFails,
         CreateRow, Send, DebitAfterSend, Debit, Complete, Fail
<1>3. ASSUME Processor
      PROVE  /\ want' = want
             /\ crashes' = 0 => crashes = 0
             /\ dbFailures' = 0 => dbFailures = 0
             /\ \A r \in Requests : overlapped'[r] = 0 => overlapped[r] = 0
  BY <1>3 DEF Processor, ProcTick, ProcEndPass, ProcSend, ProcDebit, ProcComplete,
         ProcFail, ProcSettle, ProcNext
<1>4. ASSUME Processor, NEW r \in Requests
      PROVE  status'[r] # status[r] \/ debits'[r] # debits[r] =>
               ProcAt(r, {"debit", "complete", "fail"})
  BY <1>4 DEF Processor, ProcTick, ProcEndPass, ProcSend, ProcDebit, Debit, ProcComplete,
         ProcFail, ProcSettle, ProcNext, ProcAt
<1>5. CASE Crash
  BY <1>5 DEF Crash
<1>6. CASE UNCHANGED vars
  BY <1>6 DEF vars
<1> QED BY <1>1, <1>2, <1>3, <1>4, <1>5, <1>6 DEF Next

\* A step of the distribution or of the reconciliation.
LEMMA OthersHistory ==
  ASSUME RowsInv, Distribution \/ Reconciliation \/ NewShare
  PROVE  /\ KeepWithdrawals
         /\ dbFailures' = 0 => dbFailures = 0
<1> USE DEF RowsInv, Typed, DbFails
<1>1. CASE Distribution
  BY <1>1 DEF Distribution, Confirm, ReadWindow, CreditBalance, InsertEarning, GiveUp
<1>2. CASE Reconciliation
  BY <1>2 DEF Reconciliation, ReconcileStart, ReconcileCommit, ReconcileFails, KeepAllElse
<1>3. CASE NewShare
  BY <1>3 DEF NewShare
<1> QED BY <1>1, <1>2, <1>3

\* A cause stays a cause: an account that is sound was sound a step before.
LEMMA SoundBack ==
  ASSUME RowsInv, CleanRows, [LedgerNext]_allVars, NEW a \in Accounts, Sound(a)'
  PROVE  Sound(a)
<1>1. /\ want' = want
      /\ crashes' = 0 => crashes = 0
      /\ dbFailures' = 0 => dbFailures = 0
      /\ \A r \in Requests :
           /\ overlapped'[r] = 0 => overlapped[r] = 0
           /\ status'[r] # status[r] \/ debits'[r] # debits[r] =>
                \/ pc[r] \in {"create", "debit", "complete", "fail"}
                \/ ProcAt(r, {"debit", "complete", "fail"})
  <2>1. CASE [Next]_vars
    BY <2>1, RowHistory
  <2>2. CASE Distribution \/ Reconciliation \/ NewShare
    BY <2>2, OthersHistory DEF KeepWithdrawals, inputVars, rowVars
  <2> QED BY <2>1, <2>2 DEF LedgerNext, Withdrawing, PoolCrash, Next, allVars
<1>2. a \notin raced
  <2>1. raced \subseteq raced'
    BY DEF LedgerNext, Watch, allVars, ledgerVars
  <2> QED BY <2>1 DEF Sound
<1>3. crashes = 0 /\ dbFailures = 0
  BY <1>1 DEF Sound
<1>4. ASSUME NEW r \in Requests, want[r].account = a
      PROVE  overlapped[r] = 0 /\ ~(status[r] = "completed" /\ debits[r] = 0)
  <2>1. overlapped[r] = 0 /\ ~(status'[r] = "completed" /\ debits'[r] = 0)
    BY <1>1, <1>4 DEF Sound
  <2>2. ASSUME status[r] = "completed" /\ debits[r] = 0 PROVE FALSE
    <3>1. Clean(r)
      BY <1>3, <2>1 DEF Clean
    <3>2. pc[r] \notin {"create", "debit", "complete", "fail"} /\ ~ProcHas(r)
      BY <2>2, <3>1 DEF CleanRows, Early
    <3>3. ~ProcAt(r, {"debit", "complete", "fail"})
      BY <3>2 DEF ProcHas, ProcAt
    <3> QED BY <1>1, <2>1, <2>2, <3>2, <3>3
  <2> QED BY <2>1, <2>2
<1> QED BY <1>2, <1>3, <1>4 DEF Sound

\* The books stay in order: a debit of a sound account is the first one of a
\* row in its handler's hands, a credit and its earning are two steps, and a
\* reconciliation that raced with nobody writes what is there already.
LEMMA BooksStep ==
  LedgerInv /\ [LedgerNext]_allVars => Books'
<1> SUFFICES ASSUME LedgerInv, [LedgerNext]_allVars, NEW a \in Accounts, Sound(a)'
             PROVE  balance'[a] = earned'[a] + Unrecorded(a)' - Spent(a)'
  BY DEF Books
<1>1. Sound(a) /\ balance[a] = earned[a] + Unrecorded(a) - Spent(a)
  BY SoundBack DEF LedgerInv, Books
<1>2. /\ balance[a] \in Int /\ earned[a] \in Int /\ part[a] \in Int
      /\ Spent(a) \in Int /\ IsFiniteSet(Debited(a))
  BY <1>1, DebitedFinite DEF LedgerInv, LedgerTyped
<1>3. dbFailures' = 0 /\ crashes' = 0 /\ a \notin raced'
  BY DEF Sound
<1>4. ~DbFails
  BY <1>3 DEF DbFails, LedgerInv, RowsInv, Typed
<1>5. ASSUME want' = want, debits' = debits PROVE Spent(a)' = Spent(a)
  BY <1>5 DEF Spent, Debited, Amount
<1>6. a # NoAccount
  BY LedgerAssumption
<1>7. ASSUME UNCHANGED <<want, debits, earned, part, paying>>, balance'[a] = balance[a]
      PROVE  balance'[a] = earned'[a] + Unrecorded(a)' - Spent(a)'
  BY <1>1, <1>5, <1>7 DEF Unrecorded
<1>8. CASE Withdrawing
  <2>1. UNCHANGED <<earned, part, paying>> /\ Next
    BY <1>8 DEF Withdrawing, distributionVars, Next
  <2>2. want' = want
    BY <2>1, RowHistory DEF LedgerInv
  <2>3. \/ UNCHANGED paidVars
        \/ \E r \in Requests : Debit(r) /\ (pc[r] = "debit" \/ ProcAt(r, {"debit"}))
    BY <1>8 DEF Withdrawing, Handler, Processor, NothingWritten,
           Receive, CheckRate, CheckBalance, CheckAddress, QueryFails, CreateRow,
           Send, DebitAfterSend, Complete, Fail, ProcTick, ProcEndPass, ProcSend,
           ProcDebit, ProcComplete, ProcFail, ProcSettle, ProcNext, LedgerInv, RowsInv,
           Shape, ProcAt
  <2>4. CASE UNCHANGED paidVars
    BY <1>7, <2>1, <2>2, <2>4 DEF paidVars
  <2>5. ASSUME NEW r \in Requests, Debit(r), pc[r] = "debit" \/ ProcAt(r, {"debit"})
        PROVE  balance'[a] = earned'[a] + Unrecorded(a)' - Spent(a)'
    <3>1. /\ debits \in [Requests -> Nat] /\ balance \in [Accounts -> Int]
          /\ debits' = [debits EXCEPT ![r] = @ + 1]
          /\ balance' = [balance EXCEPT ![want[r].account] = @ - want[r].amount]
      BY <2>5 DEF Debit, LedgerInv, RowsInv, Typed, LedgerTyped
    <3>2. CASE want[r].account # a
      <4>1. Debited(a)' = Debited(a) /\ Amount' = Amount
        BY <2>2, <3>1, <3>2 DEF Debited, Amount
      <4>2. balance'[a] = balance[a]
        BY <3>1, <3>2
      <4> QED BY <1>1, <2>1, <4>1, <4>2 DEF Spent, Unrecorded
    <3>3. CASE want[r].account = a
      <4>1. Clean(r)
        BY <1>1, <3>3 DEF Sound, Clean
      <4>2. debits[r] = 0
        BY <2>5, <4>1 DEF LedgerInv, CleanRows, ProcHas, ProcAt
      <4>3. r \notin Debited(a) /\ Debited(a)' = Debited(a) \cup {r} /\ Amount' = Amount
        BY <2>2, <3>1, <3>3, <4>2 DEF Debited, Amount
      <4>4. \A q \in Debited(a) \cup {r} : Amount[q] \in Int
        BY AmountNat DEF LedgerInv, Debited
      <4>5. SumFunctionOnSet(Amount, Debited(a) \cup {r})
              = SumFunctionOnSet(Amount, Debited(a)) + Amount[r]
        BY <1>2, <4>3, <4>4, SumAdd
      <4>6. Spent(a)' = Spent(a) + want[r].amount
        BY <4>3, <4>5 DEF Spent, Amount
      <4>7. want[r].amount \in Int
        BY AmountNat DEF LedgerInv, Amount
      <4>8. balance'[a] = balance[a] - want[r].amount
        BY <3>1, <3>3
      <4>9. Unrecorded(a)' = Unrecorded(a) /\ Unrecorded(a) \in Int /\ earned' = earned
        BY <1>2, <2>1 DEF Unrecorded
      <4> QED BY <1>1, <1>2, <4>6, <4>7, <4>8, <4>9
    <3> QED BY <3>2, <3>3
  <2> QED BY <2>3, <2>4, <2>5
<1>9. CASE NewShare
  BY <1>7, <1>9 DEF NewShare, KeepWithdrawals, inputVars
<1>10. CASE Distribution
  <2>1. want' = want /\ debits' = debits
    BY <1>10, OthersHistory DEF LedgerInv, KeepWithdrawals, inputVars
  <2>2. ASSUME NEW b \in Blocks, Confirm(b)
        PROVE  balance'[a] = earned'[a] + Unrecorded(a)' - Spent(a)'
    BY <1>7, <2>1, <2>2 DEF Confirm
  <2>3. CASE ReadWindow
    <3>1. UNCHANGED <<balance, earned>> /\ paying' = NoAccount /\ paying = NoAccount
      BY <1>4, <2>3 DEF ReadWindow, GiveUp, Finish, LedgerInv, LedgerTyped
    <3> QED BY <1>1, <1>5, <1>6, <2>1, <3>1 DEF Unrecorded
  <2>4. ASSUME NEW b \in Accounts, CreditBalance(b)
        PROVE  balance'[a] = earned'[a] + Unrecorded(a)' - Spent(a)'
    <3>1. /\ balance' = [balance EXCEPT ![b] = @ + part[b]]
          /\ paying' = b /\ UNCHANGED <<part, earned>> /\ paying = NoAccount
          /\ balance \in [Accounts -> Int]
      BY <1>4, <2>4 DEF CreditBalance, GiveUp, LedgerInv, LedgerTyped
    <3>2. CASE a = b
      <4>1. /\ balance'[a] = balance[a] + part[a]
            /\ Unrecorded(a) = 0 /\ Unrecorded(a)' = part[a]
        BY <1>6, <3>1, <3>2 DEF Unrecorded
      <4>2. earned' = earned /\ Spent(a)' = Spent(a)
        BY <1>5, <2>1, <3>1
      <4> QED BY <1>1, <1>2, <4>1, <4>2
    <3>3. CASE a # b
      BY <1>1, <1>5, <1>6, <2>1, <3>1, <3>3 DEF Unrecorded
    <3> QED BY <3>2, <3>3
  <2>5. CASE InsertEarning
    <3>1. /\ earned' = [earned EXCEPT ![paying] = @ + part[paying]]
          /\ paying' = NoAccount /\ UNCHANGED balance
          /\ paying \in Accounts /\ earned \in [Accounts -> Nat]
      BY <1>4, <2>5 DEF InsertEarning, GiveUp, Finish, LedgerInv, LedgerTyped
    <3>2. CASE paying = a
      <4>1. /\ earned'[a] = earned[a] + part[a]
            /\ Unrecorded(a) = part[a] /\ Unrecorded(a)' = 0
        BY <1>6, <3>1, <3>2 DEF Unrecorded
      <4>2. balance' = balance /\ Spent(a)' = Spent(a)
        BY <1>5, <2>1, <3>1
      <4> QED BY <1>1, <1>2, <4>1, <4>2
    <3>3. CASE paying # a
      BY <1>1, <1>5, <1>6, <2>1, <3>1, <3>3 DEF Unrecorded
    <3> QED BY <3>2, <3>3
  <2> QED BY <1>10, <2>2, <2>3, <2>4, <2>5 DEF Distribution
<1>11. CASE Reconciliation
  <2>1. want' = want /\ debits' = debits
    BY <1>11, OthersHistory DEF LedgerInv, KeepWithdrawals, inputVars
  <2>2. UNCHANGED <<earned, part, paying>>
    BY <1>11 DEF Reconciliation, ReconcileStart, ReconcileCommit, ReconcileFails,
           KeepAllElse, distributionVars
  <2>3. CASE ReconcileCommit
    <3>1. CASE a \in DOMAIN corrections
      <4>1. raced' = raced \cup (busySince \cap DOMAIN corrections)
        BY <1>11, <2>3 DEF LedgerNext, Watch, allVars, ledgerVars, reconcileVars,
               ReconcileCommit, ReconcileEnd
      <4>2. a \notin busySince
        BY <1>3, <3>1, <4>1
      <4>3. ~Busy(a) /\ corrections[a] = CorrectAmount(a)
        BY <2>3, <3>1, <4>2 DEF ReconcileCommit, LedgerInv, Watched
      <4>4. balance[a] = CorrectAmount(a)
        BY <1>1, <4>3, SettledBooks
      <4>5. balance'[a] = balance[a]
        BY <2>3, <3>1, <4>3, <4>4 DEF ReconcileCommit
      <4> QED BY <1>7, <2>1, <2>2, <4>5
    <3>2. CASE a \notin DOMAIN corrections
      <4>1. balance'[a] = balance[a]
        BY <2>3, <3>2 DEF ReconcileCommit
      <4> QED BY <1>7, <2>1, <2>2, <4>1
    <3> QED BY <3>1, <3>2
  <2>4. CASE ~ReconcileCommit
    <3>1. balance' = balance
      BY <1>11, <2>4 DEF Reconciliation, ReconcileStart, ReconcileFails
    <3> QED BY <1>7, <2>1, <2>2, <3>1
  <2> QED BY <2>3, <2>4
<1>12. CASE PoolCrash
  <2>1. crashes' # 0
    BY <1>12 DEF PoolCrash, Crash, LedgerInv, RowsInv, Typed
  <2> QED BY <1>3, <2>1
<1>13. CASE UNCHANGED allVars
  BY <1>7, <1>13 DEF allVars, vars, ledgerVars, distributionVars
<1> QED BY <1>8, <1>9, <1>10, <1>11, <1>12, <1>13 DEF LedgerNext

\* An account nobody is at work on before and after a step that writes no
\* corrections keeps its balance, its earnings and its completed withdrawals.
LEMMA QuietStep ==
  ASSUME LedgerInv, [LedgerNext]_allVars, ~ReconcileCommit,
         NEW a \in Accounts, ~Busy(a), ~Busy(a)'
  PROVE  balance'[a] = balance[a] /\ earned'[a] = earned[a] /\ Withdrawn(a)' = Withdrawn(a)
<1>1. a # NoAccount /\ paying # a /\ paying' # a
  BY LedgerAssumption DEF Busy
<1>2. ASSUME want' = want, status' = status PROVE Withdrawn(a)' = Withdrawn(a)
  BY <1>2 DEF Withdrawn
<1>3. CASE Withdrawing \/ PoolCrash
  <2>1. Next /\ earned' = earned
    BY <1>3 DEF Withdrawing, PoolCrash, Next
  <2>2. /\ want' = want
        /\ \A r \in Requests :
             status'[r] # status[r] \/ debits'[r] # debits[r] =>
               \/ pc[r] \in {"create", "debit", "complete", "fail"}
               \/ ProcAt(r, {"debit", "complete", "fail"})
    BY <2>1, RowHistory DEF LedgerInv
  <2>3. \/ UNCHANGED balance
        \/ \E r \in Requests : Debit(r) /\ (pc'[r] = "complete" \/ ProcAt(r, {"complete"})')
    <3>1. ASSUME NEW r \in Requests, DebitAfterSend(r)
          PROVE  UNCHANGED balance \/ (Debit(r) /\ pc'[r] = "complete")
      BY <3>1 DEF DebitAfterSend, Goto, paidVars, LedgerInv, RowsInv, Typed
    <3>2. CASE ProcDebit
      BY <3>2 DEF ProcDebit, paidVars, LedgerInv, RowsInv, Shape, ProcAt
    <3>3. UNCHANGED balance \/ ProcDebit \/ \E r \in Requests : DebitAfterSend(r)
      BY <2>1 DEF Next, Handler, Processor, Crash, NothingWritten, paidVars,
             Receive, CheckRate, CheckBalance, CheckAddress, QueryFails, CreateRow,
             Send, Complete, Fail, ProcTick, ProcEndPass, ProcSend, ProcComplete,
             ProcFail, ProcSettle, ProcNext
    <3> QED BY <3>1, <3>2, <3>3
  <2>4. balance'[a] = balance[a]
    <3>1. ASSUME NEW r \in Requests, Debit(r), pc'[r] = "complete" \/ ProcAt(r, {"complete"})'
          PROVE  want[r].account # a
      BY <2>2, <3>1 DEF Busy, ProcAt
    <3>2. ASSUME NEW r \in Requests, Debit(r), want[r].account # a
          PROVE  balance'[a] = balance[a]
      BY <3>2 DEF Debit, LedgerInv, LedgerTyped
    <3> QED BY <2>3, <3>1, <3>2
  <2>5. ASSUME NEW r \in Requests, want[r].account = a
        PROVE  status'[r] = "completed" <=> status[r] = "completed"
    <3>1. pc[r] \notin {"complete", "fail"} /\ ~ProcAt(r, {"complete", "fail"})
      BY <2>5 DEF Busy, ProcAt
    <3>2. CASE status'[r] = status[r]
      BY <3>2
    <3>3. CASE status'[r] # status[r]
      <4>1. \A q \in Requests : DebitAfterSend(q) => status' = status
        BY DEF DebitAfterSend, rowVars
      <4>2. ProcDebit => status' = status
        BY DEF ProcDebit, rowVars
      <4>3. CreateRow(r)
        <5>1. \A q \in Requests : Complete(q) \/ Fail(q) \/ CreateRow(q) => status'[r] = status[r] \/ q = r
          BY DEF Complete, Fail, CreateRow, SetStatus, LedgerInv, RowsInv, Typed
        <5>2. ~Complete(r) /\ ~Fail(r)
          BY <3>1 DEF Complete, Fail
        <5>3. ProcComplete \/ ProcFail => status'[r] = status[r]
          BY <3>1 DEF ProcComplete, ProcFail, ProcSettle, SetStatus, ProcAt, LedgerInv, RowsInv, Typed
        <5>4. \/ status' = status \/ ProcComplete \/ ProcFail
              \/ \E q \in Requests : Complete(q) \/ Fail(q) \/ CreateRow(q)
          BY <2>1, <4>1, <4>2 DEF Next, Handler, Processor, Crash, NothingWritten, rowVars,
                 Receive, CheckRate, CheckBalance, CheckAddress, QueryFails,
                 Send, ProcTick, ProcEndPass, ProcSend, ProcNext
        <5> QED BY <3>3, <5>1, <5>2, <5>3, <5>4
      <4>4. status[r] = "absent" /\ status'[r] = "pending"
        BY <4>3 DEF CreateRow, SetStatus, LedgerInv, RowsInv, Typed, Shape, Early
      <4> QED BY <4>4
    <3> QED BY <3>2, <3>3
  <2>6. Withdrawn(a)' = Withdrawn(a)
    BY <2>2, <2>5 DEF Withdrawn
  <2> QED BY <2>1, <2>4, <2>6
<1>4. CASE Distribution \/ Reconciliation \/ NewShare
  <2>1. want' = want /\ status' = status
    BY <1>4, OthersHistory DEF LedgerInv, KeepWithdrawals, inputVars, rowVars
  <2>2. CASE Distribution
    <3>1. ASSUME NEW b \in Accounts, CreditBalance(b)
          PROVE  balance'[a] = balance[a] /\ earned'[a] = earned[a]
      BY <1>1, <3>1 DEF CreditBalance, GiveUp, LedgerInv, LedgerTyped
    <3>2. ASSUME InsertEarning PROVE balance'[a] = balance[a] /\ earned'[a] = earned[a]
      BY <1>1, <3>2 DEF InsertEarning, GiveUp, LedgerInv, LedgerTyped
    <3>3. ASSUME ReadWindow PROVE balance'[a] = balance[a] /\ earned'[a] = earned[a]
      BY <3>3 DEF ReadWindow, GiveUp
    <3>4. ASSUME NEW b \in Blocks, Confirm(b)
          PROVE  balance'[a] = balance[a] /\ earned'[a] = earned[a]
      BY <3>4 DEF Confirm
    <3> QED BY <1>2, <2>1, <2>2, <3>1, <3>2, <3>3, <3>4 DEF Distribution
  <2>3. CASE Reconciliation \/ NewShare
    <3>1. balance' = balance /\ earned' = earned
      BY <2>3 DEF Reconciliation, ReconcileStart, ReconcileFails, KeepAllElse, NewShare
    <3>2. Withdrawn(a)' = Withdrawn(a)
      BY <1>2, <2>1
    <3> QED BY <3>1, <3>2
  <2> QED BY <1>4, <2>2, <2>3
<1>5. CASE UNCHANGED allVars
  BY <1>2, <1>5 DEF allVars, vars, ledgerVars
<1> QED BY <1>3, <1>4, <1>5 DEF LedgerNext

\* What a reconciliation knows stays right until it is written.
LEMMA WatchedStep ==
  LedgerInv /\ [LedgerNext]_allVars => Watched'
<1> SUFFICES ASSUME LedgerInv, [LedgerNext]_allVars PROVE Watched'
  OBVIOUS
<1>1. CASE UNCHANGED allVars
  <2>1. /\ UNCHANGED <<want, status, balance, pc, proc, current>>
        /\ UNCHANGED <<earned, paying, corrections, reconciling, busySince>>
    BY <1>1 DEF allVars, vars, ledgerVars, distributionVars, reconcileVars
  <2>2. \A a \in Accounts : Busy(a)' = Busy(a) /\ CorrectAmount(a)' = CorrectAmount(a)
    BY <2>1 DEF Busy, CorrectAmount, Withdrawn
  <2> QED BY <2>1, <2>2 DEF LedgerInv, Watched
<1>2. CASE LedgerNext
  <2>1. busySince' = IF reconciling'
                       THEN {a \in Accounts : Busy(a)' \/ (reconciling /\ a \in busySince)}
                       ELSE {}
    BY <1>2 DEF LedgerNext, Watch
  <2>2. \/ ReconcileStart \/ ReconcileCommit \/ ReconcileFails
        \/ UNCHANGED reconcileVars /\ ~ReconcileCommit
    BY <1>2 DEF LedgerNext, Withdrawing, NewShare, Distribution, Confirm, ReadWindow,
           CreditBalance, InsertEarning, Reconciliation, PoolCrash, KeepReconcile
  <2>3. CASE ~reconciling'
    <3>1. corrections' = <<>>
      BY <2>2, <2>3 DEF ReconcileStart, ReconcileCommit, ReconcileFails, ReconcileEnd,
             reconcileVars, LedgerInv, Watched
    <3> QED BY <2>1, <2>3, <3>1 DEF Watched
  <2>4. CASE reconciling' /\ ReconcileStart
    <3>1. /\ UNCHANGED <<balance, earned, want, status>>
          /\ corrections' = [a \in {b \in Accounts : earned[b] > 0 /\ balance[b] # CorrectAmount(b)}
                               |-> CorrectAmount(a)]
      BY <2>4 DEF ReconcileStart, KeepAllElse, KeepWithdrawals, inputVars, rowVars
    <3>2. \A a \in Accounts : CorrectAmount(a)' = CorrectAmount(a)
      BY <3>1 DEF CorrectAmount, Withdrawn
    <3> QED BY <2>1, <2>4, <3>1, <3>2 DEF Watched
  <2>5. CASE reconciling' /\ ~ReconcileStart
    <3>1. UNCHANGED <<corrections, reconciling>> /\ ~ReconcileCommit /\ reconciling
      BY <2>2, <2>5 DEF ReconcileCommit, ReconcileFails, ReconcileEnd, reconcileVars
    <3>2. ASSUME NEW a \in Accounts, a \notin busySince'
          PROVE  IF a \in DOMAIN corrections'
                   THEN corrections'[a] = CorrectAmount(a)'
                   ELSE earned'[a] > 0 => balance'[a] = CorrectAmount(a)'
      <4>1. ~Busy(a)' /\ a \notin busySince
        BY <2>1, <2>5, <3>1, <3>2
      <4>2. ~Busy(a)
        BY <3>1, <4>1 DEF LedgerInv, Watched
      <4>3. balance'[a] = balance[a] /\ earned'[a] = earned[a] /\ Withdrawn(a)' = Withdrawn(a)
        BY <3>1, <4>1, <4>2, QuietStep
      <4>4. CorrectAmount(a)' = CorrectAmount(a)
        BY <4>3 DEF CorrectAmount
      <4> QED BY <3>1, <4>1, <4>3, <4>4 DEF LedgerInv, Watched
    <3>3. \A a \in Accounts : Busy(a)' => a \in busySince'
      BY <2>1, <2>5
    <3> QED BY <2>5, <3>2, <3>3 DEF Watched
  <2> QED BY <2>3, <2>4, <2>5
<1> QED BY <1>1, <1>2

\* The ledger starts with books that agree.
LEMMA InitLedgerInv == LedgerInit => LedgerInv
<1> SUFFICES ASSUME LedgerInit PROVE LedgerInv
  OBVIOUS
<1>1. RowsInv
  BY InitIInv DEF LedgerInit, IInv
<1>2. opening \in [Accounts -> Nat] /\ balance = opening
  BY <1>1, InitIInv DEF LedgerInit, Init, IInv, TypeOK
<1>3. LedgerTyped
  <2>1. balance \in [Accounts -> Int] /\ earned \in [Accounts -> Nat]
    BY <1>2 DEF LedgerInit
  <2>2. stored \in 0 .. Len(Shares) /\ place = "idle" /\ payees \subseteq Accounts
    BY LedgerAssumption DEF LedgerInit
  <2>3. part \in [Accounts -> Nat]
    BY DEF LedgerInit, Zero
  <2>4. corrections = <<>> /\ DOMAIN corrections = {}
    BY DEF LedgerInit
  <2>5. paying = NoAccount /\ reconciling = FALSE
    BY DEF LedgerInit
  <2> QED BY <2>1, <2>2, <2>3, <2>4, <2>5 DEF LedgerTyped
<1>4. RowsFinite
  <2>1. {r \in Requests : status[r] # "absent"} = {}
    BY DEF LedgerInit, Init
  <2> QED BY <2>1, FS_EmptySet DEF RowsFinite
<1>5. CleanRows
  BY DEF CleanRows, LedgerInit, Init, ProcHas, ProcAt, Early
<1>6. Books
  <2> SUFFICES ASSUME NEW a \in Accounts
               PROVE  balance[a] = earned[a] + Unrecorded(a) - Spent(a)
    BY DEF Books
  <2>1. Debited(a) = {}
    BY DEF Debited, LedgerInit, Init
  <2>2. Spent(a) = 0
    BY <2>1, SumEmpty DEF Spent
  <2>3. Unrecorded(a) = 0
    BY LedgerAssumption DEF Unrecorded, LedgerInit
  <2>4. balance[a] \in Nat /\ earned[a] = balance[a]
    BY <1>2 DEF LedgerInit
  <2> QED BY <2>2, <2>3, <2>4
<1>7. Watched
  BY DEF Watched, LedgerInit
<1> QED BY <1>1, <1>3, <1>4, <1>5, <1>6, <1>7 DEF LedgerInv

\* The ledger's strengthened invariant holds in every reachable state.
THEOREM LedgerInvHolds == LedgerSpec => []LedgerInv
<1>1. LedgerInit => LedgerInv
  BY InitLedgerInv
<1>2. LedgerInv /\ [LedgerNext]_allVars => LedgerInv'
  <2> SUFFICES ASSUME LedgerInv, [LedgerNext]_allVars PROVE LedgerInv'
    OBVIOUS
  <2>1. RowsInv' /\ RowsFinite' /\ CleanRows'
    BY LedgerRowsStep DEF LedgerInv
  <2>2. LedgerTyped'
    BY LedgerTypesStep DEF LedgerInv
  <2>3. Books' /\ Watched'
    BY BooksStep, WatchedStep
  <2> QED BY <2>1, <2>2, <2>3 DEF LedgerInv
<1> QED BY <1>1, <1>2, PTL DEF LedgerSpec

\* For any number of blocks, requests, reconciliations, crashes and failed
\* statements, in every interleaving: the balance of an account nobody is at
\* work on is its earnings less its completed withdrawals, the rule the
\* reconciliation applies (admin.rs:942), or one of four causes can be named.
THEOREM BooksExplained == LedgerSpec => []BooksAgree
<1>1. LedgerInv => BooksAgree
  <2> SUFFICES ASSUME LedgerInv, NEW a \in Accounts, ~Busy(a),
                      balance[a] # CorrectAmount(a),
                      ~(crashes + dbFailures > 0), a \notin raced,
                      \A r \in Requests :
                        want[r].account = a =>
                          ~(overlapped[r] = 1 \/ (status[r] = "completed" /\ debits[r] = 0))
               PROVE  FALSE
    BY DEF BooksAgree
  <2>1. crashes = 0 /\ dbFailures = 0 /\ \A r \in Requests : overlapped[r] \in {0, 1}
    BY DEF LedgerInv, RowsInv, Typed
  <2>2. Sound(a)
    BY <2>1 DEF Sound
  <2> QED BY <2>2, SettledBooks
<1> QED BY <1>1, LedgerInvHolds, PTL

\* A reconciliation leaves every account with earnings that nobody worked on
\* while it ran with the right balance, whatever faults came before.
THEOREM ReconciliationRepairs == LedgerSpec => ReconcileRepairs
<1>1. LedgerInv /\ [LedgerNext]_allVars =>
        [ReconcileCommit =>
           \A a \in Accounts \ busySince :
             earned[a] > 0 => balance'[a] = CorrectAmount(a)]_allVars
  BY DEF LedgerInv, Watched, ReconcileCommit
<1> QED BY <1>1, LedgerInvHolds, PTL DEF LedgerSpec, ReconcileRepairs

\* What the rows promise holds beside the distribution and the reconciliation
\* as well, although the balances may go below zero there.
THEOREM LedgerKeepsRows ==
  LedgerSpec => [](/\ DebitOnlyAfterSend /\ CompletedWasSent
                   /\ ResendsHaveACause /\ FailedAnswerIsTrue)
<1>1. LedgerInv => RowsInv
  BY DEF LedgerInv
<1>2. RowsInv => DebitOnlyAfterSend
  BY DEF RowsInv, Typed, DebitsBacked, DebitOnlyAfterSend, Bit
<1>3. RowsInv => CompletedWasSent
  BY DEF RowsInv, CompletedBacked, CompletedWasSent
<1>4. RowsInv => ResendsHaveACause
  BY DEF RowsInv, Typed, SendsBudget, ResendsHaveACause, Bit, HandlerWillSend,
         PassWillSend, NextPassWillSend
<1>5. RowsInv => FailedAnswerIsTrue
  <2> SUFFICES ASSUME RowsInv, NEW r \in Requests, reply[r] = "failed",
                      debits[r] > 0, overlapped[r] # 1, ~(dbFailures > 0)
               PROVE  FALSE
    BY DEF FailedAnswerIsTrue
  <2>1. Undisturbed(r)
    BY DEF RowsInv, Typed, Undisturbed
  <2>2. debits[r] = 0
    BY <2>1 DEF RowsInv, FailuresClean
  <2> QED BY <2>2
<1> QED BY <1>1, <1>2, <1>3, <1>4, <1>5, LedgerInvHolds, PTL

\* The rows of an account, and what a set of accounts has in the window.
LEMMA DifficultyAdds ==
  ASSUME NEW A \in SUBSET (1 .. Len(Shares)), NEW B \in SUBSET (1 .. Len(Shares)),
         A \cap B = {}
  PROVE  DifficultyOf(A \cup B) = DifficultyOf(A) + DifficultyOf(B)
<1> DEFINE f == [i \in DOMAIN Shares |-> Shares[i].difficulty]
<1>1. IsFiniteSet(A) /\ IsFiniteSet(B)
  BY DifficultyTypes
<1>2. ASSUME NEW y \in A \cup B PROVE f[y] \in Int
  <2>1. y \in 1 .. Len(Shares) /\ DOMAIN Shares = 1 .. Len(Shares)
    BY LedgerAssumption
  <2>2. Shares[y].difficulty \in Nat \ {0}
    BY <2>1, DifficultyTypes
  <2> QED BY <2>1, <2>2
<1> HIDE DEF f
<1>3. SumFunctionOnSet(f, A \cup B) = SumFunctionOnSet(f, A) + SumFunctionOnSet(f, B)
  BY <1>1, <1>2, SumUnion
<1> QED BY <1>3 DEF f, DifficultyOf

\* Parts that are each at most in proportion are together at most the whole.
LEMMA PartsFit ==
  ASSUME NEW W \in SUBSET (1 .. Len(Shares)), DifficultyOf(W) # 0,
         NEW P \in SUBSET Accounts, IsFiniteSet(P), NEW p,
         \A a \in P : /\ p[a] \in Nat
                      /\ p[a] * DifficultyOf(W)
                           <= Distributable * DifficultyOf({i \in W : Shares[i].account = a})
  PROVE  SumFunctionOnSet(p, P) <= Distributable
<1> DEFINE T == DifficultyOf(W)
           Of(Q) == DifficultyOf({i \in W : Shares[i].account \in Q})
           S(Q) == SumFunctionOnSet(p, Q)
           Good == {Q \in SUBSET P : S(Q) \in Nat /\ S(Q) * T <= Distributable * Of(Q)}
<1>1. T \in Nat \ {0} /\ Distributable \in Nat
  BY DifficultyTypes, LedgerAssumption
<1>2. ASSUME NEW Q \in SUBSET P PROVE Of(Q) \in Nat
  BY DifficultyTypes
<1>3. {} \in Good
  <2>1. S({}) = 0
    BY SumEmpty
  <2>2. Of({}) \in Nat
    BY <1>2
  <2> HIDE DEF Of, S, T
  <2>3. S({}) * T <= Distributable * Of({})
    BY <1>1, <2>1, <2>2
  <2> QED BY <2>1, <2>3
<1>4. ASSUME NEW Q \in SUBSET P, NEW a \in P \ Q, Q \in Good PROVE Q \cup {a} \in Good
  <2> DEFINE A == {i \in W : Shares[i].account \in Q}
             B == {i \in W : Shares[i].account = a}
             R == Q \cup {a}
  <2>1. DifficultyOf(B) \in Nat /\ Of(Q) \in Nat
    BY DifficultyTypes
  <2>2. Of(R) = Of(Q) + DifficultyOf(B)
    <3>1. {i \in W : Shares[i].account \in R} = A \cup B /\ A \cap B = {}
      OBVIOUS
    <3>2. A \in SUBSET (1 .. Len(Shares)) /\ B \in SUBSET (1 .. Len(Shares))
      OBVIOUS
    <3> HIDE DEF A, B, R
    <3>3. DifficultyOf(A \cup B) = DifficultyOf(A) + DifficultyOf(B)
      BY <3>1, <3>2, DifficultyAdds
    <3> QED BY <3>1, <3>3 DEF A
  <2>3. S(R) = S(Q) + p[a] /\ p[a] \in Nat
    <3>1. IsFiniteSet(Q)
      BY FS_Subset
    <3>2. a \notin Q /\ \A y \in Q \cup {a} : y \in P
      OBVIOUS
    <3>3. \A y \in P : p[y] \in Nat
      OBVIOUS
    <3>4. \A y \in Q \cup {a} : p[y] \in Int
      BY <3>2, <3>3
    <3> QED BY <3>1, <3>2, <3>3, <3>4, SumAdd
  <2>4. p[a] * T <= Distributable * DifficultyOf(B)
    OBVIOUS
  <2>5. S(Q) \in Nat /\ S(Q) * T <= Distributable * Of(Q)
    BY <1>4
  <2>6. R \in SUBSET P
    OBVIOUS
  <2> HIDE DEF S, Of, T, B, R
  <2>7. /\ (S(Q) + p[a]) * T = S(Q) * T + p[a] * T
        /\ Distributable * (Of(Q) + DifficultyOf(B))
             = Distributable * Of(Q) + Distributable * DifficultyOf(B)
    BY <1>1, <2>1, <2>3, <2>5
  <2>8. /\ S(Q) * T \in Int /\ p[a] * T \in Int
        /\ Distributable * Of(Q) \in Int /\ Distributable * DifficultyOf(B) \in Int
    BY <1>1, <2>1, <2>3, <2>5
  <2>9. S(R) \in Nat /\ S(R) * T <= Distributable * Of(R)
    BY <2>2, <2>3, <2>4, <2>5, <2>7, <2>8
  <2> QED BY <2>6, <2>9 DEF R
<1>5. P \in Good
  <2> HIDE DEF Good
  <2> QED BY <1>3, <1>4, AddInduction
<1>6. Of(P) <= T /\ Of(P) \in Nat
  <2> DEFINE A == {i \in W : Shares[i].account \in P}
             B == W \ A
  <2>1. A \cup B = W /\ A \cap B = {}
    OBVIOUS
  <2>2. A \in SUBSET (1 .. Len(Shares)) /\ B \in SUBSET (1 .. Len(Shares))
    OBVIOUS
  <2>3. Of(P) = DifficultyOf(A)
    OBVIOUS
  <2> HIDE DEF A, B, Of
  <2>4. T = DifficultyOf(A) + DifficultyOf(B)
    BY <2>1, <2>2, DifficultyAdds
  <2>5. DifficultyOf(A) \in Nat /\ DifficultyOf(B) \in Nat
    BY <2>2, DifficultyTypes
  <2> HIDE DEF T
  <2> QED BY <2>3, <2>4, <2>5
<1> HIDE DEF T, Of
<1>7. S(P) \in Nat /\ S(P) * T <= Distributable * Of(P)
  BY <1>5
<1> HIDE DEF S
<1>8. Distributable * Of(P) <= Distributable * T
  BY <1>1, <1>6
<1>9. S(P) * T <= Distributable * T
  <2>1. S(P) * T \in Int /\ Distributable * T \in Int /\ Distributable * Of(P) \in Int
    BY <1>1, <1>6, <1>7
  <2> QED BY <1>7, <1>8, <2>1
<1>10. S(P) <= Distributable
  <2>1. ASSUME Distributable + 1 <= S(P) PROVE FALSE
    <3>1. (Distributable + 1) * T <= S(P) * T
      BY <1>1, <1>7, <2>1
    <3>2. (Distributable + 1) * T = Distributable * T + T
      BY <1>1
    <3>3. S(P) * T \in Int /\ Distributable * T \in Int
      BY <1>1, <1>7
    <3> QED BY <1>1, <1>9, <3>1, <3>2, <3>3
  <2> QED BY <1>1, <1>7, <2>1
<1> QED BY <1>10 DEF S

\* The miners paid are finitely many: each has a share in the window.
LEMMA PayeesFinite ==
  ASSUME NEW W \in SUBSET (1 .. Len(Shares))
  PROVE  IsFiniteSet({a \in Accounts : DifficultyOf({i \in W : Shares[i].account = a}) > 0})
<1> DEFINE P == {a \in Accounts : DifficultyOf({i \in W : Shares[i].account = a}) > 0}
           f == [i \in W |-> Shares[i].account]
           T == {Shares[i].account : i \in W}
<1>1. IsFiniteSet(W)
  BY DifficultyTypes
<1>2. f \in Surjection(W, T)
  BY DEF Surjection
<1>3. IsFiniteSet(T)
  <2> HIDE DEF f, T
  <2> QED BY <1>1, <1>2, FS_Surjection
<1>4. ASSUME NEW a \in P PROVE a \in T
  <2>1. SUFFICES ASSUME a \notin T PROVE FALSE
    OBVIOUS
  <2>2. {i \in W : Shares[i].account = a} = {}
    BY <2>1
  <2>3. DifficultyOf({}) = 0
    BY SumEmpty DEF DifficultyOf
  <2>4. DifficultyOf({i \in W : Shares[i].account = a}) > 0
    BY <1>4
  <2>5. DifficultyOf({i \in W : Shares[i].account = a}) = 0
    BY <2>2, <2>3, Zenon
  <2> QED BY <2>4, <2>5
<1>5. P \subseteq T
  BY <1>4
<1> HIDE DEF P, T
<1>6. IsFiniteSet(P)
  BY <1>3, <1>5, FS_Subset
<1> QED BY <1>6 DEF P

\* A quotient of whole numbers, and the rest the pool keeps.
LEMMA Quotient ==
  ASSUME NEW x \in Nat, NEW n \in Nat \ {0}
  PROVE  x \div n \in Nat /\ (x \div n) * n \in x - n + 1 .. x
<1>1. x = n * (x \div n) + (x % n) /\ x % n \in 0 .. n - 1 /\ x \div n \in Nat
  OBVIOUS
<1>2. (x \div n) * n = n * (x \div n) /\ (x \div n) * n \in Int
  BY <1>1
<1> QED BY <1>1, <1>2

\* Only the reading of the window sets parts other than zero.
LEMMA PartStep ==
  ASSUME LedgerNext, part' # part, part' # Zero
  PROVE  /\ stored > 0 /\ part' = Part
         /\ payees' = {a \in Accounts : MinerDiff(a) > 0}
<1>1. CASE Withdrawing
  BY <1>1 DEF Withdrawing, distributionVars
<1>2. CASE NewShare
  BY <1>2 DEF NewShare
<1>3. CASE Distribution
  BY <1>3 DEF Distribution, Confirm, ReadWindow, CreditBalance, InsertEarning, GiveUp, Finish
<1>4. CASE Reconciliation
  BY <1>4 DEF Reconciliation, ReconcileStart, ReconcileCommit, ReconcileFails,
         KeepAllElse, distributionVars
<1>5. CASE PoolCrash
  BY <1>5 DEF PoolCrash, Finish
<1> QED BY <1>1, <1>2, <1>3, <1>4, <1>5 DEF LedgerNext

\* A block is divided among the fewest newest shares that fill the window, in
\* proportion down to the last whole unit, and never hands out more than it
\* brought, for any table of shares, any window and any reward.
THEOREM WindowDivided == LedgerSpec => WindowIsShortest
<1> DEFINE sum(n) == DifficultyOf(Newest(n))
           due(k, a) == Distributable * DifficultyOf({i \in Newest(k) : Shares[i].account = a})
           Divided == \E k \in 1 .. stored :
             /\ sum(k) >= Window \/ k = stored
             /\ \A n \in 1 .. k - 1 : sum(n) < Window
             /\ SumFunctionOnSet(part', payees') <= Distributable
             /\ \A a \in Accounts :
                  part'[a] * sum(k) \in due(k, a) - sum(k) + 1 .. due(k, a)
<1>1. ASSUME LedgerInv, LedgerNext, part' # part, part' # Zero PROVE Divided
  <2>1. /\ stored \in 1 .. Len(Shares) /\ part' = Part
        /\ payees' = {a \in Accounts : MinerDiff(a) > 0}
    BY <1>1, PartStep, LedgerAssumption DEF LedgerInv, LedgerTyped
  <2> DEFINE k == Taken
  <2>2. k \in 1 .. stored /\ sum(k) \in Nat \ {0} /\ Part \in [Accounts -> Nat]
    BY <2>1, PartTypes DEF NewestDiff
  <2>3. /\ sum(k) >= Window \/ k = stored
        /\ \A n \in 1 .. k - 1 : sum(n) < Window
    <3>1. stored \in 0 .. Len(Shares)
      BY <2>1, LedgerAssumption
    <3>2. /\ sum(k) >= Window \/ k = stored
          /\ \A n \in 0 .. k - 1 : sum(n) < Window
      BY <3>1, TakenIsShortest DEF NewestDiff
    <3> QED BY <2>2, <3>2
  <2>4. Newest(k) \in SUBSET (1 .. Len(Shares))
    BY <2>1, <2>2 DEF Newest
  <2>5. ASSUME NEW a \in Accounts
        PROVE  /\ part'[a] \in Nat
               /\ part'[a] * sum(k) \in due(k, a) - sum(k) + 1 .. due(k, a)
               /\ part'[a] * sum(k) <= due(k, a)
    <3>1. due(k, a) \in Nat
      <4>1. DifficultyOf({i \in Newest(k) : Shares[i].account = a}) \in Nat
        BY <2>4, DifficultyTypes
      <4> QED BY <4>1, LedgerAssumption
    <3>2. part'[a] = due(k, a) \div sum(k)
      BY <2>1 DEF Part, MinerDiff, PplnsShares
    <3> HIDE DEF due, sum, k
    <3>3. due(k, a) \div sum(k) \in Nat
          /\ (due(k, a) \div sum(k)) * sum(k) \in due(k, a) - sum(k) + 1 .. due(k, a)
      BY <2>2, <3>1, Quotient
    <3> QED BY <2>2, <3>1, <3>2, <3>3
  <2>6. SumFunctionOnSet(part', payees') <= Distributable
    <3>1. IsFiniteSet(payees') /\ payees' \in SUBSET Accounts
      BY <2>1, <2>4, PayeesFinite DEF MinerDiff, PplnsShares
    <3> HIDE DEF k
    <3> QED BY <2>2, <2>4, <2>5, <3>1, PartsFit
  <2> HIDE DEF k, sum, due
  <2> QED BY <2>2, <2>3, <2>5, <2>6
<1>2. LedgerInv /\ [LedgerNext]_allVars => [part' # part /\ part' # Zero => Divided]_allVars
  <2> HIDE DEF Divided
  <2> QED BY <1>1
<1>3. LedgerSpec => [][part' # part /\ part' # Zero => Divided]_allVars
  <2> HIDE DEF Divided
  <2> QED BY <1>2, LedgerInvHolds, PTL DEF LedgerSpec
<1> QED BY <1>3 DEF WindowIsShortest
=============================================================================
