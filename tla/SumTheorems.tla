---------------------------- MODULE SumTheorems ----------------------------
(***************************************************************************)
(* Facts about sums over finite sets, for the modules whose ledgers and    *)
(* totals are sums over rows (lib/donationTotals.ts, services/spend.ts).   *)
(*                                                                         *)
(* Total is the sum those modules take: MapThenSumSet of a function.  It   *)
(* is a recursive function that chooses its elements, so the proofs first  *)
(* show that such a function exists, then that the choice does not matter. *)
(* Induction is by a smallest counterexample.                              *)
(***************************************************************************)
EXTENDS Integers, FiniteSetsExt, FiniteSetTheorems, WellFoundedInduction, TLAPS

Total(S, w) == MapThenSumSet(LAMBDA x : w[x], S)

-----------------------------------------------------------------------------
(* Induction.                                                              *)

\* A set of numbers has a least element.
LEMMA LeastNat ==
    ASSUME NEW T, T \subseteq Nat, T # {}
    PROVE  \E x \in T : \A y \in T : x <= y
<1> DEFINE R == OpToRel(<, Nat)
<1>1. IsWellFoundedOn(R, Nat)
  BY NatLessThanWellFounded
<1>2. \A x, y \in Nat : y < x => <<y, x>> \in R
  BY DEF OpToRel
<1> HIDE DEF R
<1>3. PICK x \in T : \A y \in T : ~(<<y, x>> \in R)
  BY <1>1, WFMin
<1>4. ASSUME NEW y \in T PROVE x <= y
  <2>1. x \in Nat /\ y \in Nat
    OBVIOUS
  <2>2. ~(y < x)
    BY <1>2, <1>3, <2>1
  <2> QED
    BY <2>1, <2>2
<1> QED
  BY <1>4

\* A family that holds a subset when it holds all those of one element less.
LEMMA SubsetInduction ==
    ASSUME NEW S, IsFiniteSet(S), NEW G, {} \in G,
           \A T \in SUBSET S : T # {} /\ (\A x \in T : T \ {x} \in G) => T \in G
    PROVE  \A T \in SUBSET S : T \in G
<1> SUFFICES ASSUME \E T \in SUBSET S : T \notin G
             PROVE  FALSE
  OBVIOUS
<1> DEFINE Bad == {T \in SUBSET S : T \notin G}
           Sizes == {Cardinality(T) : T \in Bad}
<1>1. \A T \in SUBSET S : IsFiniteSet(T) /\ Cardinality(T) \in Nat
  BY FS_Subset, FS_CardinalityType
<1>2. Sizes \subseteq Nat /\ Sizes # {}
  BY <1>1
<1>3. PICK n \in Sizes : \A m \in Sizes : n <= m
  BY <1>2, LeastNat
<1>4. PICK T \in Bad : Cardinality(T) = n
  BY <1>3
<1>5. PICK x \in T : T \ {x} \notin G
  BY <1>4
<1>6. T \ {x} \in SUBSET S /\ Cardinality(T \ {x}) = Cardinality(T) - 1
  BY <1>1, <1>4, FS_RemoveElement
<1>7. Cardinality(T \ {x}) \in Sizes
  BY <1>5, <1>6
<1>8. n \in Nat /\ Cardinality(T \ {x}) = n - 1
  BY <1>2, <1>4, <1>6
<1> HIDE DEF Sizes
<1> QED
  BY <1>3, <1>7, <1>8

-----------------------------------------------------------------------------
(* The recursive function.                                                 *)

Pick(s) == CHOOSE x \in s : TRUE

\* f sums w over the subsets of the family D.
Sums(f, D, w) ==
    f = [s \in D |-> IF s = {} THEN 0 ELSE w[Pick(s)] + f[s \ {Pick(s)}]]

LEMMA PickIs ==
    ASSUME NEW s, s # {}
    PROVE  Pick(s) \in s
  BY DEF Pick

LEMMA TotalUnfolds ==
    ASSUME NEW S, NEW w
    PROVE  Total(S, w) = (CHOOSE f : Sums(f, SUBSET S, w))[S]
  BY Zenon DEF Total, MapThenSumSet, MapThenFoldSet, Sums, Pick

\* The subsets of S of at most n elements.
Upto(S, n) == {s \in SUBSET S : Cardinality(s) <= n}

LEMMA SumsUpto ==
    ASSUME NEW S, IsFiniteSet(S), NEW w, NEW n \in Nat
    PROVE  \E f : Sums(f, Upto(S, n), w)
<1> SUFFICES ASSUME ~ \E f : Sums(f, Upto(S, n), w)
             PROVE  FALSE
  OBVIOUS
<1> DEFINE Bad == {k \in Nat : ~ \E f : Sums(f, Upto(S, k), w)}
<1>1. \A s \in SUBSET S : IsFiniteSet(s) /\ Cardinality(s) \in Nat
  BY FS_Subset, FS_CardinalityType
<1>2. PICK m \in Bad : \A k \in Bad : m <= k
  <2>1. Bad \subseteq Nat /\ n \in Bad
    OBVIOUS
  <2> HIDE DEF Bad
  <2> QED
    BY <2>1, LeastNat
<1>3. m # 0
  <2> SUFFICES ASSUME m = 0 PROVE FALSE
    OBVIOUS
  <2> DEFINE f == [s \in Upto(S, 0) |-> 0]
  <2>1. \A s \in Upto(S, 0) : s = {}
    BY <1>1, FS_EmptySet DEF Upto
  <2>2. Sums(f, Upto(S, 0), w)
    BY <2>1 DEF Sums
  <2> QED
    BY <1>2, <2>2
<1>4. m - 1 \in Nat /\ m - 1 \notin Bad
  BY <1>2, <1>3
<1>5. PICK g : Sums(g, Upto(S, m - 1), w)
  BY <1>4
<1> DEFINE D == Upto(S, m)
           f == [s \in D |-> IF s = {} THEN 0 ELSE w[Pick(s)] + g[s \ {Pick(s)}]]
<1>6. ASSUME NEW s \in D, s # {}
      PROVE  f[s \ {Pick(s)}] = g[s \ {Pick(s)}]
  <2> DEFINE t == s \ {Pick(s)}
  <2>1. Pick(s) \in s
    BY <1>6, PickIs
  <2>2. t \in SUBSET S /\ Cardinality(t) = Cardinality(s) - 1
    BY <1>1, <2>1, FS_RemoveElement DEF Upto
  <2>3. t \in Upto(S, m - 1) /\ t \in D
    BY <1>1, <1>2, <2>2 DEF Upto
  <2> HIDE DEF t
  <2>4. g[t] = IF t = {} THEN 0 ELSE w[Pick(t)] + g[t \ {Pick(t)}]
    BY <1>5, <2>3 DEF Sums
  <2>5. f[t] = IF t = {} THEN 0 ELSE w[Pick(t)] + g[t \ {Pick(t)}]
    BY <2>3
  <2>6. f[t] = g[t]
    BY <2>4, <2>5
  <2> QED
    BY <2>6 DEF t
<1>7. f = [s \in D |-> IF s = {} THEN 0 ELSE w[Pick(s)] + f[s \ {Pick(s)}]]
  BY <1>6
<1>8. Sums(f, Upto(S, m), w)
  BY <1>7 DEF Sums
<1> QED
  BY <1>2, <1>8

LEMMA SumsExist ==
    ASSUME NEW S, IsFiniteSet(S), NEW w
    PROVE  \E f : Sums(f, SUBSET S, w)
<1>1. Cardinality(S) \in Nat
  BY FS_CardinalityType
<1>2. Upto(S, Cardinality(S)) = SUBSET S
  BY FS_Subset DEF Upto
<1>3. \E f : Sums(f, Upto(S, Cardinality(S)), w)
  BY <1>1, SumsUpto
<1> QED
  BY <1>2, <1>3

\* What sums over S sums over every subset of S.
LEMMA SumsTotal ==
    ASSUME NEW S, IsFiniteSet(S), NEW w, NEW f, Sums(f, SUBSET S, w)
    PROVE  \A T \in SUBSET S : f[T] = Total(T, w)
<1> SUFFICES ASSUME NEW T \in SUBSET S
             PROVE  f[T] = Total(T, w)
  OBVIOUS
<1>1. IsFiniteSet(T)
  BY FS_Subset
<1>2. PICK g : g = (CHOOSE h : Sums(h, SUBSET T, w))
  OBVIOUS
<1>3. Sums(g, SUBSET T, w)
  BY <1>1, <1>2, SumsExist
<1>4. Total(T, w) = g[T]
  BY <1>2, TotalUnfolds
<1> DEFINE G == {s \in SUBSET T : f[s] = g[s]}
<1>5. {} \in G
  BY <1>3 DEF Sums
<1>6. ASSUME NEW s \in SUBSET T, s # {}, \A x \in s : s \ {x} \in G
      PROVE  s \in G
  <2>1. Pick(s) \in s
    BY <1>6, PickIs
  <2>2. f[s \ {Pick(s)}] = g[s \ {Pick(s)}]
    BY <1>6, <2>1
  <2>3. f[s] = w[Pick(s)] + f[s \ {Pick(s)}]
    BY <1>6 DEF Sums
  <2>4. g[s] = w[Pick(s)] + g[s \ {Pick(s)}]
    BY <1>3, <1>6 DEF Sums
  <2> QED
    BY <2>2, <2>3, <2>4
<1> HIDE DEF G
<1>7. T \in G
  BY <1>1, <1>5, <1>6, SubsetInduction
<1> QED
  BY <1>4, <1>7 DEF G

LEMMA TotalPicks ==
    ASSUME NEW S, IsFiniteSet(S), S # {}, NEW w
    PROVE  Total(S, w) = w[Pick(S)] + Total(S \ {Pick(S)}, w)
<1>1. PICK f : Sums(f, SUBSET S, w)
  BY SumsExist
<1>2. f[S] = w[Pick(S)] + f[S \ {Pick(S)}]
  BY <1>1 DEF Sums
<1>3. \A T \in SUBSET S : f[T] = Total(T, w)
  BY <1>1, SumsTotal
<1>4. f[S] = Total(S, w)
  BY <1>3
<1>5. f[S \ {Pick(S)}] = Total(S \ {Pick(S)}, w)
  BY <1>3
<1> QED
  BY <1>2, <1>4, <1>5

-----------------------------------------------------------------------------
(* What a total is.                                                        *)

THEOREM TotalEmpty ==
    ASSUME NEW w
    PROVE  Total({}, w) = 0
<1>1. IsFiniteSet({})
  BY FS_EmptySet
<1>2. PICK f : Sums(f, SUBSET {}, w)
  BY <1>1, SumsExist
<1>3. f[{}] = Total({}, w)
  BY <1>1, <1>2, SumsTotal
<1> QED
  BY <1>2, <1>3 DEF Sums

\* Integers add up to an integer.
THEOREM TotalType ==
    ASSUME NEW S, IsFiniteSet(S), NEW w, \A x \in S : w[x] \in Int
    PROVE  \A T \in SUBSET S : Total(T, w) \in Int
<1> DEFINE G == {T \in SUBSET S : Total(T, w) \in Int}
<1>1. {} \in G
  BY TotalEmpty
<1>2. ASSUME NEW T \in SUBSET S, T # {}, \A x \in T : T \ {x} \in G
      PROVE  T \in G
  <2>1. Pick(T) \in T /\ IsFiniteSet(T)
    BY <1>2, PickIs, FS_Subset
  <2>2. Total(T, w) = w[Pick(T)] + Total(T \ {Pick(T)}, w)
    BY <1>2, <2>1, TotalPicks
  <2> QED
    BY <1>2, <2>1, <2>2
<1> HIDE DEF G
<1>3. \A T \in SUBSET S : T \in G
  BY <1>1, <1>2, SubsetInduction
<1> QED
  BY <1>3 DEF G

\* A sum of natural numbers is one.
THEOREM TotalNat ==
    ASSUME NEW S, IsFiniteSet(S), NEW w, \A x \in S : w[x] \in Nat
    PROVE  Total(S, w) \in Nat
<1> DEFINE G == {T \in SUBSET S : Total(T, w) \in Nat}
<1>1. {} \in G
  BY TotalEmpty
<1>2. ASSUME NEW T \in SUBSET S, T # {}, \A x \in T : T \ {x} \in G
      PROVE  T \in G
  <2>1. IsFiniteSet(T) /\ Pick(T) \in T
    BY <1>2, FS_Subset, PickIs
  <2>2. Total(T, w) = w[Pick(T)] + Total(T \ {Pick(T)}, w)
    BY <1>2, <2>1, TotalPicks
  <2>3. w[Pick(T)] \in Nat /\ Total(T \ {Pick(T)}, w) \in Nat
    BY <1>2, <2>1
  <2> QED
    BY <2>2, <2>3
<1> HIDE DEF G
<1>3. \A T \in SUBSET S : T \in G
  BY <1>1, <1>2, SubsetInduction
<1> QED
  BY <1>3 DEF G

\* Any element may be taken off first: the order of the rows does not matter.
THEOREM TotalRemove ==
    ASSUME NEW S, IsFiniteSet(S), NEW w, \A x \in S : w[x] \in Int
    PROVE  \A T \in SUBSET S : \A x \in T : Total(T, w) = w[x] + Total(T \ {x}, w)
<1> DEFINE G == {T \in SUBSET S : \A x \in T : Total(T, w) = w[x] + Total(T \ {x}, w)}
<1>1. {} \in G
  OBVIOUS
<1>2. ASSUME NEW T \in SUBSET S, T # {}, \A x \in T : T \ {x} \in G
      PROVE  T \in G
  <2> SUFFICES ASSUME NEW x \in T PROVE Total(T, w) = w[x] + Total(T \ {x}, w)
    OBVIOUS
  <2>1. PICK y \in T : y = Pick(T)
    BY <1>2, PickIs
  <2>2. Total(T, w) = w[y] + Total(T \ {y}, w)
    BY <1>2, <2>1, FS_Subset, TotalPicks
  <2>3. CASE x = y
    BY <2>2, <2>3
  <2>4. CASE x # y
    <3>1. Total(T \ {y}, w) = w[x] + Total((T \ {y}) \ {x}, w)
      BY <1>2, <2>4
    <3>2. Total(T \ {x}, w) = w[y] + Total((T \ {x}) \ {y}, w)
      BY <1>2, <2>4
    <3>3. (T \ {y}) \ {x} = (T \ {x}) \ {y}
      OBVIOUS
    <3>4. w[x] \in Int /\ w[y] \in Int
      OBVIOUS
    <3>5. PICK n \in Int : n = Total((T \ {x}) \ {y}, w)
      BY TotalType
    <3>6. Total(T, w) = w[y] + (w[x] + n)
      BY <2>2, <3>1, <3>3, <3>5
    <3>7. Total(T \ {x}, w) = w[y] + n
      BY <3>2, <3>5
    <3> QED
      BY <3>4, <3>6, <3>7
  <2> QED
    BY <2>3, <2>4
<1> HIDE DEF G
<1>3. \A T \in SUBSET S : T \in G
  BY <1>1, <1>2, SubsetInduction
<1> QED
  BY <1>3 DEF G

\* One more row.
THEOREM TotalAdd ==
    ASSUME NEW S, IsFiniteSet(S), NEW w, NEW y, y \notin S, \A x \in S \cup {y} : w[x] \in Int
    PROVE  Total(S \cup {y}, w) = Total(S, w) + w[y]
<1>1. IsFiniteSet(S \cup {y})
  BY FS_AddElement
<1>2. Total(S \cup {y}, w) = w[y] + Total((S \cup {y}) \ {y}, w)
  BY <1>1, TotalRemove
<1>3. Total((S \cup {y}) \ {y}, w) = Total(S, w)
  <2>1. (S \cup {y}) \ {y} = S
    OBVIOUS
  <2> QED
    BY <2>1
<1>4. Total(S, w) \in Int /\ w[y] \in Int
  BY TotalType
<1> QED
  BY <1>2, <1>3, <1>4

\* A total depends on what the rows are worth, and on nothing else.
THEOREM TotalSame ==
    ASSUME NEW S, IsFiniteSet(S), NEW v, NEW w, \A x \in S : v[x] = w[x]
    PROVE  Total(S, v) = Total(S, w)
<1> DEFINE G == {T \in SUBSET S : Total(T, v) = Total(T, w)}
<1>1. {} \in G
  BY TotalEmpty
<1>2. ASSUME NEW T \in SUBSET S, T # {}, \A x \in T : T \ {x} \in G
      PROVE  T \in G
  <2>1. Pick(T) \in T /\ IsFiniteSet(T)
    BY <1>2, PickIs, FS_Subset
  <2>2. Total(T, v) = v[Pick(T)] + Total(T \ {Pick(T)}, v)
    BY <1>2, <2>1, TotalPicks
  <2>3. Total(T, w) = w[Pick(T)] + Total(T \ {Pick(T)}, w)
    BY <1>2, <2>1, TotalPicks
  <2> QED
    BY <1>2, <2>1, <2>2, <2>3
<1> HIDE DEF G
<1>3. \A T \in SUBSET S : T \in G
  BY <1>1, <1>2, SubsetInduction
<1>4. S \in G
  BY <1>3
<1> QED
  BY <1>4 DEF G

\* One row is worth something else.
THEOREM TotalChange ==
    ASSUME NEW S, IsFiniteSet(S), NEW v, NEW w, NEW y \in S,
           \A x \in S : v[x] \in Int /\ w[x] \in Int,
           \A x \in S \ {y} : v[x] = w[x]
    PROVE  Total(S, v) = Total(S, w) + v[y] - w[y]
<1>1. Total(S, v) = v[y] + Total(S \ {y}, v)
  BY TotalRemove
<1>2. Total(S, w) = w[y] + Total(S \ {y}, w)
  BY TotalRemove
<1>3. IsFiniteSet(S \ {y})
  BY FS_RemoveElement
<1>4. Total(S \ {y}, v) = Total(S \ {y}, w)
  BY <1>3, TotalSame
<1>5. Total(S \ {y}, w) \in Int
  BY TotalType
<1> QED
  BY <1>1, <1>2, <1>4, <1>5

\* Rows worth the difference of two amounts add up to the difference of the totals.
THEOREM TotalMinus ==
    ASSUME NEW S, IsFiniteSet(S), NEW u, NEW v, NEW w,
           \A x \in S : v[x] \in Int /\ w[x] \in Int /\ u[x] = v[x] - w[x]
    PROVE  Total(S, u) = Total(S, v) - Total(S, w)
<1> DEFINE G == {T \in SUBSET S : Total(T, u) = Total(T, v) - Total(T, w)}
<1>1. {} \in G
  BY TotalEmpty
<1>2. ASSUME NEW T \in SUBSET S, T # {}, \A x \in T : T \ {x} \in G
      PROVE  T \in G
  <2>1. PICK y \in T : y = Pick(T)
    BY <1>2, PickIs
  <2>2. IsFiniteSet(T)
    BY FS_Subset
  <2>3. Total(T, u) = u[y] + Total(T \ {y}, u)
    BY <1>2, <2>1, <2>2, TotalPicks
  <2>4. Total(T, v) = v[y] + Total(T \ {y}, v)
    BY <1>2, <2>1, <2>2, TotalPicks
  <2>5. Total(T, w) = w[y] + Total(T \ {y}, w)
    BY <1>2, <2>1, <2>2, TotalPicks
  <2>6. Total(T \ {y}, v) \in Int /\ Total(T \ {y}, w) \in Int
    BY TotalType
  <2>7. Total(T \ {y}, u) = Total(T \ {y}, v) - Total(T \ {y}, w)
    BY <1>2
  <2> QED
    BY <2>3, <2>4, <2>5, <2>6, <2>7
<1> HIDE DEF G
<1>3. \A T \in SUBSET S : T \in G
  BY <1>1, <1>2, SubsetInduction
<1>4. S \in G
  BY <1>3
<1> QED
  BY <1>4 DEF G

\* Rows that are worth the same.
THEOREM TotalConstant ==
    ASSUME NEW S, IsFiniteSet(S), NEW w, NEW c \in Int, \A x \in S : w[x] = c
    PROVE  Total(S, w) = Cardinality(S) * c
<1> DEFINE G == {T \in SUBSET S : Total(T, w) = Cardinality(T) * c}
<1>1. {} \in G
  BY TotalEmpty, FS_EmptySet
<1>2. ASSUME NEW T \in SUBSET S, T # {}, \A x \in T : T \ {x} \in G
      PROVE  T \in G
  <2>1. PICK y \in T : y = Pick(T)
    BY <1>2, PickIs
  <2>2. IsFiniteSet(T)
    BY FS_Subset
  <2>3. Total(T, w) = c + Total(T \ {y}, w)
    BY <1>2, <2>1, <2>2, TotalPicks
  <2>4. PICK n \in Int : n = Cardinality(T)
    BY <2>2, FS_CardinalityType
  <2>5. Cardinality(T \ {y}) = n - 1
    BY <2>2, <2>4, FS_RemoveElement
  <2>6. Total(T \ {y}, w) = (n - 1) * c
    BY <1>2, <2>5
  <2>7. c + (n - 1) * c = n * c
    OBVIOUS
  <2> QED
    BY <2>3, <2>4, <2>6, <2>7
<1> HIDE DEF G
<1>3. \A T \in SUBSET S : T \in G
  BY <1>1, <1>2, SubsetInduction
<1>4. S \in G
  BY <1>3
<1> QED
  BY <1>4 DEF G

\* Two families of rows.
THEOREM TotalUnion ==
    ASSUME NEW S, IsFiniteSet(S), NEW U, IsFiniteSet(U), S \cap U = {},
           NEW w, \A x \in S \cup U : w[x] \in Int
    PROVE  Total(S \cup U, w) = Total(S, w) + Total(U, w)
<1> DEFINE G == {T \in SUBSET U : Total(S \cup T, w) = Total(S, w) + Total(T, w)}
<1>1. {} \in G
  <2>1. S \cup {} = S /\ Total(S, w) \in Int
    BY TotalType
  <2> QED
    BY <2>1, TotalEmpty
<1>2. ASSUME NEW T \in SUBSET U, T # {}, \A x \in T : T \ {x} \in G
      PROVE  T \in G
  <2>1. PICK y \in T : TRUE
    BY <1>2
  <2>2. IsFiniteSet(S \cup T) /\ IsFiniteSet(T)
    BY FS_Subset, FS_Union
  <2>3. Total(T, w) = w[y] + Total(T \ {y}, w)
    BY <2>2, TotalRemove
  <2>4. Total(S \cup T, w) = w[y] + Total((S \cup T) \ {y}, w)
    BY <2>2, TotalRemove
  <2>5. Total((S \cup T) \ {y}, w) = Total(S \cup (T \ {y}), w)
    <3>1. (S \cup T) \ {y} = S \cup (T \ {y})
      OBVIOUS
    <3> QED
      BY <3>1
  <2>6. Total(S \cup (T \ {y}), w) = Total(S, w) + Total(T \ {y}, w)
    BY <1>2
  <2>7. PICK a, b \in Int : a = Total(S, w) /\ b = Total(T \ {y}, w)
    BY <2>2, TotalType
  <2>8. w[y] \in Int
    OBVIOUS
  <2> QED
    BY <2>3, <2>4, <2>5, <2>6, <2>7, <2>8
<1> HIDE DEF G
<1>3. \A T \in SUBSET U : T \in G
  BY <1>1, <1>2, SubsetInduction
<1>4. U \in G
  BY <1>3
<1> QED
  BY <1>4 DEF G

\* A total of one row.
THEOREM TotalSingle ==
    ASSUME NEW x, NEW w, w[x] \in Int
    PROVE  Total({x}, w) = w[x]
<1>1. IsFiniteSet({x}) /\ {x} # {} /\ Pick({x}) = x
  BY FS_Singleton, PickIs
<1>2. Total({x}, w) = w[x] + Total({x} \ {x}, w)
  BY <1>1, TotalPicks
<1>3. {x} \ {x} = {}
  OBVIOUS
<1> QED
  BY <1>2, <1>3, TotalEmpty

\* A total of two rows.
THEOREM TotalPair ==
    ASSUME NEW x, NEW y, x # y, NEW w, w[x] \in Int, w[y] \in Int
    PROVE  Total({x, y}, w) = w[x] + w[y] /\ IsFiniteSet({x, y})
<1>1. PICK S : S = {x}
  OBVIOUS
<1>2. IsFiniteSet(S) /\ y \notin S /\ S \cup {y} = {x, y}
  BY <1>1, FS_Singleton
<1>3. \A z \in S \cup {y} : w[z] \in Int
  BY <1>1
<1>4. Total(S \cup {y}, w) = Total(S, w) + w[y]
  BY <1>2, <1>3, TotalAdd
<1>5. Total(S, w) = w[x]
  BY <1>1, TotalSingle
<1>6. IsFiniteSet(S \cup {y})
  BY <1>2, FS_AddElement
<1> QED
  BY <1>2, <1>4, <1>5, <1>6

\* Only some of the rows are worth anything.
THEOREM TotalFilter ==
    ASSUME NEW S, IsFiniteSet(S), NEW R, NEW v, NEW w,
           \A x \in S : w[x] \in Int /\ v[x] = IF x \in R THEN w[x] ELSE 0
    PROVE  Total(S, v) = Total(S \cap R, w)
<1>1. IsFiniteSet(S \cap R) /\ IsFiniteSet(S \ R)
  BY FS_Intersection, FS_Difference
<1>2. Total((S \cap R) \cup (S \ R), v) = Total(S \cap R, v) + Total(S \ R, v)
  <2>1. (S \cap R) \cap (S \ R) = {} /\ \A x \in (S \cap R) \cup (S \ R) : v[x] \in Int
    OBVIOUS
  <2> QED
    BY <1>1, <2>1, TotalUnion
<1>3. (S \cap R) \cup (S \ R) = S
  OBVIOUS
<1>4. Total(S \cap R, v) = Total(S \cap R, w)
  BY <1>1, TotalSame
<1>5. Total(S \ R, v) = 0
  <2>1. Total(S \ R, v) = Cardinality(S \ R) * 0
    BY <1>1, TotalConstant
  <2> QED
    BY <1>1, <2>1, FS_CardinalityType
<1>6. Total(S \cap R, w) \in Int
  BY <1>1, TotalType
<1> QED
  BY <1>2, <1>3, <1>4, <1>5, <1>6
=============================================================================
