------------------------- MODULE BatchQueue_proofs -------------------------
(***************************************************************************)
(* Lemmas about the operators of BatchQueue: what the queue operations     *)
(* return, and what the sums of fees and of sizes are.                     *)
(*                                                                         *)
(* Facts about all sets or all lengths are proved by minimal               *)
(* counterexample: were there an exception, there would be one with no     *)
(* smaller exception (MinimalSubset, LeastNatural).                        *)
(***************************************************************************)
EXTENDS BatchQueue, SequenceTheorems, FiniteSetTheorems, WellFoundedInduction, TLAPS

\* A non-empty set of subsets of a finite set has a minimal member.
LEMMA MinimalSubset ==
  ASSUME NEW S, IsFiniteSet(S), NEW X \in SUBSET (SUBSET S), X # {}
  PROVE  \E T \in X : \A V \in X : V \subseteq T => V = T
<1>1. X \subseteq FiniteSubsetsOf(S)
  BY FS_Subset DEF FiniteSubsetsOf
<1>2. IsWellFoundedOn(StrictSubsetOrdering(S), FiniteSubsetsOf(S))
  BY FS_StrictSubsetOrderingWellFounded
<1>3. PICK T \in X : \A V \in X : <<V, T>> \notin StrictSubsetOrdering(S)
  BY <1>1, <1>2, WFMin
<1>4. \A V \in X : V \subseteq T /\ V # T => <<V, T>> \in StrictSubsetOrdering(S)
  BY DEF StrictSubsetOrdering
<1>5. \A V \in X : V \subseteq T => V = T
  BY <1>3, <1>4
<1> QED
  BY <1>5

\* A non-empty set of naturals has a least member.
LEMMA LeastNatural ==
  ASSUME NEW N \in SUBSET Nat, N # {}
  PROVE  \E n \in N : \A m \in N : n <= m
<1>1. PICK n \in N : \A m \in N : <<m, n>> \notin OpToRel(<, Nat)
  BY NatLessThanWellFounded, WFMin
<1>2. \A m \in N : m < n => <<m, n>> \in OpToRel(<, Nat)
  BY DEF OpToRel
<1>3. \A m \in N : ~(m < n)
  BY <1>1, <1>2
<1> QED
  BY <1>3

-----------------------------------------------------------------------------
\* The element a fold over a set takes out first.
Pick(s) == CHOOSE x \in s : TRUE

\* g sums w over every subset of S, taking out one element at a time: the function
\* MapThenSumSet chooses.
IsSum(g, w, S) ==
    g = [s \in SUBSET S |-> IF s = {} THEN 0 ELSE w[Pick(s)] + g[s \ {Pick(s)}]]

\* Two such functions agree wherever both are defined.
LEMMA SumUnique ==
  ASSUME NEW w, NEW S, NEW T, IsFiniteSet(S), NEW g, NEW h, IsSum(g, w, S), IsSum(h, w, T)
  PROVE  \A s \in SUBSET (S \cap T) : g[s] = h[s]
<1> DEFINE X == {s \in SUBSET (S \cap T) : g[s] # h[s]}
<1> SUFFICES ASSUME X # {} PROVE FALSE
  OBVIOUS
<1>1. PICK s \in X : \A v \in X : v \subseteq s => v = s
  <2>1. X \in SUBSET (SUBSET S)
    OBVIOUS
  <2> HIDE DEF X
  <2> QED
    BY <2>1, MinimalSubset
<1>2. s \in SUBSET S /\ s \in SUBSET T /\ g[s] # h[s]
  OBVIOUS
<1>3. s # {}
  BY <1>2 DEF IsSum
<1>4. Pick(s) \in s
  BY <1>3 DEF Pick
<1>5. g[s \ {Pick(s)}] = h[s \ {Pick(s)}]
  BY <1>1, <1>2, <1>4
<1>6. /\ g[s] = w[Pick(s)] + g[s \ {Pick(s)}]
      /\ h[s] = w[Pick(s)] + h[s \ {Pick(s)}]
  BY <1>2, <1>3 DEF IsSum
<1> QED
  BY <1>2, <1>5, <1>6

\* In particular, they agree on the sum over S.
LEMMA SumSame ==
  ASSUME NEW w, NEW S, IsFiniteSet(S), NEW g, NEW h, IsSum(g, w, S), IsSum(h, w, S)
  PROVE  g[S] = h[S]
<1>1. S \in SUBSET (S \cap S)
  OBVIOUS
<1> QED
  BY <1>1, SumUnique

\* There is such a function for every finite set.
LEMMA SumExists ==
  ASSUME NEW w, NEW S, IsFiniteSet(S)
  PROVE  \E g : IsSum(g, w, S)
<1> DEFINE X == {T \in SUBSET S : ~ \E g : IsSum(g, w, T)}
           H(T) == CHOOSE g : IsSum(g, w, T)
<1> SUFFICES ASSUME X # {} PROVE FALSE
  OBVIOUS
<1>1. PICK T \in X : \A V \in X : V \subseteq T => V = T
  <2>1. X \in SUBSET (SUBSET S)
    OBVIOUS
  <2> HIDE DEF X
  <2> QED
    BY <2>1, MinimalSubset
<1>2. T \in SUBSET S /\ ~ \E g : IsSum(g, w, T)
  OBVIOUS
<1>3. \A s \in SUBSET T : s # T => IsSum(H(s), w, s)
  BY <1>1, <1>2
<1>4. \A s \in SUBSET T : IsFiniteSet(s)
  BY <1>2, FS_Subset
<1> DEFINE G(s) == IF s = {} THEN 0
                   ELSE w[Pick(s)] + H(s \ {Pick(s)})[s \ {Pick(s)}]
           f == [s \in SUBSET T |-> G(s)]
<1>5. \A s \in SUBSET T : s # {} => Pick(s) \in s
  BY DEF Pick
<1>6. ASSUME NEW s \in SUBSET T, s # T PROVE f[s] = H(s)[s]
  <2>1. IsSum(H(s), w, s)
    BY <1>3, <1>6
  <2>2. CASE s = {}
    BY <2>1, <2>2 DEF IsSum
  <2>3. CASE s # {}
    <3> DEFINE v == s \ {Pick(s)}
    <3>1. v \in SUBSET s /\ v \in SUBSET T /\ v # T /\ s \in SUBSET s
      BY <1>5, <2>3
    <3>2. IsSum(H(v), w, v)
      BY <1>3, <3>1
    <3>3. H(s)[s] = w[Pick(s)] + H(s)[v]
      BY <2>1, <2>3 DEF IsSum
    <3>4. IsFiniteSet(s) /\ v \in SUBSET (s \cap v)
      BY <1>4, <3>1
    <3> HIDE DEF v, H
    <3>5. H(s)[v] = H(v)[v]
      BY <2>1, <3>2, <3>4, SumUnique
    <3>6. f[s] = w[Pick(s)] + H(v)[v]
      BY <2>3 DEF v
    <3> QED
      BY <3>3, <3>5, <3>6
  <2> QED
    BY <2>2, <2>3
<1>7. ASSUME NEW s \in SUBSET T, s # {}
      PROVE  f[s] = w[Pick(s)] + f[s \ {Pick(s)}]
  <2>1. s \ {Pick(s)} \in SUBSET T /\ s \ {Pick(s)} # T
    BY <1>5, <1>7
  <2>2. f[s \ {Pick(s)}] = H(s \ {Pick(s)})[s \ {Pick(s)}]
    BY <1>6, <2>1
  <2> QED
    BY <1>7, <2>2
<1>8. f[{}] = 0
  OBVIOUS
<1>9. IsSum(f, w, T)
  <2> DEFINE k == [s \in SUBSET T |-> IF s = {} THEN 0 ELSE w[Pick(s)] + f[s \ {Pick(s)}]]
  <2>1. \A s \in SUBSET T : f[s] = k[s]
    BY <1>7, <1>8
  <2>2. f = [s \in SUBSET T |-> f[s]]
    OBVIOUS
  <2> HIDE DEF f
  <2>3. f = k
    BY <2>1, <2>2
  <2> QED
    BY <2>3 DEF IsSum
<1> QED
  BY <1>2, <1>9

\* The sum of w over S.
Sum(w, S) == (CHOOSE g : IsSum(g, w, S))[S]

\* The sum is what is taken out first plus the sum of the rest.
LEMMA SumUnfold ==
  ASSUME NEW w, NEW S, IsFiniteSet(S)
  PROVE  Sum(w, S) = IF S = {} THEN 0 ELSE w[Pick(S)] + Sum(w, S \ {Pick(S)})
<1> DEFINE H(T) == CHOOSE g : IsSum(g, w, T)
<1>1. IsSum(H(S), w, S)
  BY SumExists
<1>2. CASE S = {}
  BY <1>1, <1>2 DEF Sum, IsSum
<1>3. CASE S # {}
  <2> DEFINE T == S \ {Pick(S)}
  <2>1. IsFiniteSet(T) /\ T \in SUBSET (S \cap T)
    BY FS_RemoveElement
  <2>2. IsSum(H(T), w, T)
    BY <2>1, SumExists
  <2>3. H(S)[S] = w[Pick(S)] + H(S)[T]
    BY <1>1, <1>3 DEF IsSum
  <2> HIDE DEF H, T
  <2>4. \A s \in SUBSET (S \cap T) : H(S)[s] = H(T)[s]
    BY <1>1, <2>2, SumUnique
  <2>5. H(S)[T] = H(T)[T]
    BY <2>1, <2>4
  <2> QED
    BY <1>3, <2>3, <2>5 DEF Sum, H, T
<1> QED
  BY <1>2, <1>3

\* A sum of naturals is a natural.
LEMMA SumType ==
  ASSUME NEW D, NEW w \in [D -> Nat], NEW S \in SUBSET D, IsFiniteSet(S)
  PROVE  Sum(w, S) \in Nat
<1> DEFINE X == {T \in SUBSET S : Sum(w, T) \notin Nat}
<1> SUFFICES ASSUME X # {} PROVE FALSE
  OBVIOUS
<1>1. PICK T \in X : \A V \in X : V \subseteq T => V = T
  <2>1. X \in SUBSET (SUBSET S)
    OBVIOUS
  <2> HIDE DEF X
  <2> QED
    BY <2>1, MinimalSubset
<1>2. T \in SUBSET S /\ Sum(w, T) \notin Nat /\ IsFiniteSet(T)
  BY FS_Subset
<1>3. T # {}
  <2>1. Sum(w, {}) = 0
    BY FS_EmptySet, SumUnfold
  <2> QED
    BY <1>2, <2>1
<1>4. Pick(T) \in T
  BY <1>3 DEF Pick
<1>5. Sum(w, T \ {Pick(T)}) \in Nat
  BY <1>1, <1>2, <1>4
<1>6. Sum(w, T) = w[Pick(T)] + Sum(w, T \ {Pick(T)})
  BY <1>2, <1>3, SumUnfold
<1>7. w[Pick(T)] \in Nat
  BY <1>2, <1>4
<1> QED
  BY <1>2, <1>5, <1>6, <1>7

\* Any element may be taken out first.
LEMMA SumRemove ==
  ASSUME NEW D, NEW w \in [D -> Nat], NEW S \in SUBSET D, IsFiniteSet(S), NEW x \in S
  PROVE  Sum(w, S) = w[x] + Sum(w, S \ {x})
<1> DEFINE X == {T \in SUBSET S : \E y \in T : Sum(w, T) # w[y] + Sum(w, T \ {y})}
<1> SUFFICES ASSUME X # {} PROVE FALSE
  OBVIOUS
<1>1. PICK T \in X : \A V \in X : V \subseteq T => V = T
  <2>1. X \in SUBSET (SUBSET S)
    OBVIOUS
  <2> HIDE DEF X
  <2> QED
    BY <2>1, MinimalSubset
<1>2. PICK y \in T : Sum(w, T) # w[y] + Sum(w, T \ {y})
  OBVIOUS
<1>3. T \in SUBSET S /\ T # {} /\ IsFiniteSet(T)
  BY FS_Subset
<1> DEFINE p == Pick(T)
<1>4. p \in T
  BY <1>3 DEF Pick
<1>5. Sum(w, T) = w[p] + Sum(w, T \ {p})
  BY <1>3, SumUnfold
<1>6. p # y
  BY <1>2, <1>5
<1> HIDE DEF p
<1>7. \A V \in SUBSET T : V # T => \A z \in V : Sum(w, V) = w[z] + Sum(w, V \ {z})
  BY <1>1, <1>3
<1> DEFINE R == (T \ {p}) \ {y}
<1>8. Sum(w, T \ {p}) = w[y] + Sum(w, R)
  BY <1>4, <1>6, <1>7
<1>9. Sum(w, T \ {y}) = w[p] + Sum(w, R)
  <2>1. R = (T \ {y}) \ {p}
    OBVIOUS
  <2> QED
    BY <1>4, <1>6, <1>7, <2>1
<1>10. w[y] \in Nat /\ w[p] \in Nat
  BY <1>3, <1>4
<1>11. IsFiniteSet(R) /\ R \in SUBSET D
  BY <1>3, FS_RemoveElement
<1>12. Sum(w, R) \in Nat
  BY <1>11, SumType
<1> HIDE DEF R, X
<1> QED
  BY <1>2, <1>5, <1>8, <1>9, <1>10, <1>12

\* The sum over disjoint sets.
LEMMA SumUnion ==
  ASSUME NEW D, NEW w \in [D -> Nat], NEW S \in SUBSET D, IsFiniteSet(S),
         NEW T \in SUBSET D, IsFiniteSet(T), S \cap T = {}
  PROVE  Sum(w, S \cup T) = Sum(w, S) + Sum(w, T)
<1> DEFINE X == {V \in SUBSET S : Sum(w, V \cup T) # Sum(w, V) + Sum(w, T)}
<1> SUFFICES ASSUME X # {} PROVE FALSE
  OBVIOUS
<1>1. PICK V \in X : \A Z \in X : Z \subseteq V => Z = V
  <2>1. X \in SUBSET (SUBSET S)
    OBVIOUS
  <2> HIDE DEF X
  <2> QED
    BY <2>1, MinimalSubset
<1>2. /\ V \in SUBSET S /\ Sum(w, V \cup T) # Sum(w, V) + Sum(w, T)
      /\ V \in SUBSET D /\ IsFiniteSet(V)
  BY FS_Subset
<1>3. Sum(w, T) \in Nat
  BY SumType
<1>4. V # {}
  <2>1. Sum(w, {}) = 0
    BY FS_EmptySet, SumUnfold
  <2>2. {} \cup T = T
    OBVIOUS
  <2> QED
    BY <1>2, <1>3, <2>1, <2>2
<1>5. PICK x \in V : TRUE
  BY <1>4
<1>6. Sum(w, (V \ {x}) \cup T) = Sum(w, V \ {x}) + Sum(w, T)
  BY <1>1, <1>2
<1>7. Sum(w, V) = w[x] + Sum(w, V \ {x})
  BY <1>2, SumRemove
<1>8. Sum(w, V \cup T) = w[x] + Sum(w, (V \ {x}) \cup T)
  <2>1. IsFiniteSet(V \cup T) /\ V \cup T \in SUBSET D /\ x \in V \cup T
    BY <1>2, FS_Union
  <2>2. (V \cup T) \ {x} = (V \ {x}) \cup T
    BY <1>2
  <2> QED
    BY <2>1, <2>2, SumRemove
<1>10. w[x] \in Nat /\ Sum(w, V \ {x}) \in Nat
  <2>1. IsFiniteSet(V \ {x}) /\ V \ {x} \in SUBSET D
    BY <1>2, FS_RemoveElement
  <2> QED
    BY <1>2, <2>1, SumType
<1> HIDE DEF X
<1> QED
  BY <1>2, <1>3, <1>6, <1>7, <1>8, <1>10

\* A sum of terms that are all at least c, or all c.
LEMMA SumBounds ==
  ASSUME NEW D, NEW w \in [D -> Nat], NEW S \in SUBSET D, IsFiniteSet(S), NEW c \in Nat
  PROVE  /\ (\A x \in S : w[x] >= c) => Sum(w, S) >= Cardinality(S) * c
         /\ (\A x \in S : w[x] = c) => Sum(w, S) = Cardinality(S) * c
<1> DEFINE X == {T \in SUBSET S :
                   \/ (\A x \in T : w[x] >= c) /\ Sum(w, T) < Cardinality(T) * c
                   \/ (\A x \in T : w[x] = c) /\ Sum(w, T) # Cardinality(T) * c}
<1>0. X = {} => /\ (\A x \in S : w[x] >= c) => Sum(w, S) >= Cardinality(S) * c
                /\ (\A x \in S : w[x] = c) => Sum(w, S) = Cardinality(S) * c
  <2>1. Sum(w, S) \in Nat /\ Cardinality(S) \in Nat
    BY SumType, FS_CardinalityType
  <2> QED
    BY <2>1
<1> SUFFICES ASSUME X # {} PROVE FALSE
  BY <1>0
<1>1. PICK T \in X : \A V \in X : V \subseteq T => V = T
  <2>1. X \in SUBSET (SUBSET S)
    OBVIOUS
  <2> HIDE DEF X
  <2> QED
    BY <2>1, MinimalSubset
<1>2. T \in SUBSET S /\ T \in SUBSET D /\ IsFiniteSet(T)
  BY FS_Subset
<1>3. T # {}
  <2>1. Sum(w, {}) = 0 /\ Cardinality({}) = 0
    BY FS_EmptySet, SumUnfold
  <2>2. 0 * c = 0 /\ ~(0 < 0 * c)
    OBVIOUS
  <2>3. {} \notin X
    BY <2>1, <2>2
  <2> HIDE DEF X
  <2> QED
    BY <2>3
<1>4. PICK x \in T : TRUE
  BY <1>3
<1> DEFINE V == T \ {x}
<1>5. V \in SUBSET S /\ V \in SUBSET D /\ IsFiniteSet(V) /\ V \subseteq T /\ V # T
  BY <1>2, <1>4, FS_RemoveElement
<1>6. V \notin X
  BY <1>1, <1>5
<1>7. /\ Sum(w, V) \in Nat /\ Cardinality(V) \in Nat /\ w[x] \in Nat
      /\ Cardinality(T) = Cardinality(V) + 1
      /\ Sum(w, T) = w[x] + Sum(w, V)
  <2>1. Sum(w, V) \in Nat /\ Cardinality(V) \in Nat /\ Cardinality(T) \in Nat
    BY <1>2, <1>5, SumType, FS_CardinalityType
  <2>2. Cardinality(V) = Cardinality(T) - 1
    BY <1>2, <1>4, FS_RemoveElement
  <2>3. Sum(w, T) = w[x] + Sum(w, V)
    BY <1>2, <1>4, SumRemove
  <2> QED
    BY <1>2, <1>4, <2>1, <2>2, <2>3
<1>8. Cardinality(T) * c = Cardinality(V) * c + c /\ Cardinality(V) * c \in Nat
  BY <1>7
<1>9. \/ (\A y \in T : w[y] >= c) /\ Sum(w, T) < Cardinality(T) * c
      \/ (\A y \in T : w[y] = c) /\ Sum(w, T) # Cardinality(T) * c
  OBVIOUS
<1>10. /\ (\A y \in V : w[y] >= c) => ~(Sum(w, V) < Cardinality(V) * c)
       /\ (\A y \in V : w[y] = c) => Sum(w, V) = Cardinality(V) * c
  BY <1>5, <1>6
<1> HIDE DEF V, X
<1>11. /\ (\A y \in T : w[y] >= c) => (\A y \in V : w[y] >= c) /\ w[x] >= c
       /\ (\A y \in T : w[y] = c) => (\A y \in V : w[y] = c) /\ w[x] = c
  BY <1>4, <1>5
<1> QED
  BY <1>7, <1>8, <1>9, <1>10, <1>11

-----------------------------------------------------------------------------
\* The weights of the two sums: the fees offered and the sizes of the proofs.
FeeOf(U) == [e \in EntryOf(U) |-> e.max_fee]

SizeOf(U) == [e \in EntryOf(U) |-> e.size]

\* TotalFees is a sum in this sense.
LEMMA TotalFeesIsSum ==
  ASSUME NEW U, NEW S \in SUBSET EntryOf(U), IsFiniteSet(S)
  PROVE  TotalFees(S) = Sum(FeeOf(U), S)
<1> DEFINE IsFold(g) ==
        g = [s \in SUBSET S |-> IF s = {} THEN 0 ELSE Pick(s).max_fee + g[s \ {Pick(s)}]]
<1>1. TotalFees(S) = (CHOOSE g : IsFold(g))[S]
  BY DEF TotalFees, MapThenSumSet, MapThenFoldSet, Pick
<1>2. \A s \in SUBSET S : s # {} => Pick(s) \in EntryOf(U) /\ FeeOf(U)[Pick(s)] = Pick(s).max_fee
  BY DEF Pick, FeeOf
<1>3. ASSUME NEW g PROVE IsFold(g) <=> IsSum(g, FeeOf(U), S)
  <2>1. [s \in SUBSET S |-> IF s = {} THEN 0 ELSE Pick(s).max_fee + g[s \ {Pick(s)}]] =
        [s \in SUBSET S |-> IF s = {} THEN 0 ELSE FeeOf(U)[Pick(s)] + g[s \ {Pick(s)}]]
    BY <1>2
  <2> QED
    BY <2>1 DEF IsSum
<1>4. PICK g : IsSum(g, FeeOf(U), S)
  BY SumExists
<1> DEFINE f == CHOOSE h : IsFold(h)
           k == CHOOSE h : IsSum(h, FeeOf(U), S)
<1>5. IsFold(f)
  BY <1>3, <1>4
<1>6. IsSum(f, FeeOf(U), S) /\ IsSum(k, FeeOf(U), S)
  BY <1>3, <1>4, <1>5
<1> HIDE DEF f, k
<1>7. f[S] = k[S]
  BY <1>6, SumSame
<1> QED
  BY <1>1, <1>7 DEF Sum, f, k

\* So is the size of a batch that calculate_batch_size folds, but for the CBOR array.
LEMMA ByteSizeIsSum ==
  ASSUME NEW U, NEW S \in SUBSET EntryOf(U), IsFiniteSet(S)
  PROVE  BatchByteSize(S) = CborOverhead + Sum(SizeOf(U), S)
<1> DEFINE IsFold(g) ==
        g = [s \in SUBSET S |-> IF s = {} THEN 0 ELSE Pick(s).size + g[s \ {Pick(s)}]]
<1>1. BatchByteSize(S) = CborOverhead + (CHOOSE g : IsFold(g))[S]
  BY DEF BatchByteSize, MapThenSumSet, MapThenFoldSet, Pick
<1>2. \A s \in SUBSET S : s # {} => Pick(s) \in EntryOf(U) /\ SizeOf(U)[Pick(s)] = Pick(s).size
  BY DEF Pick, SizeOf
<1>3. ASSUME NEW g PROVE IsFold(g) <=> IsSum(g, SizeOf(U), S)
  <2>1. [s \in SUBSET S |-> IF s = {} THEN 0 ELSE Pick(s).size + g[s \ {Pick(s)}]] =
        [s \in SUBSET S |-> IF s = {} THEN 0 ELSE SizeOf(U)[Pick(s)] + g[s \ {Pick(s)}]]
    BY <1>2
  <2> QED
    BY <2>1 DEF IsSum
<1>4. PICK g : IsSum(g, SizeOf(U), S)
  BY SumExists
<1> DEFINE f == CHOOSE h : IsFold(h)
           k == CHOOSE h : IsSum(h, SizeOf(U), S)
<1>5. IsFold(f)
  BY <1>3, <1>4
<1>6. IsSum(f, SizeOf(U), S) /\ IsSum(k, SizeOf(U), S)
  BY <1>3, <1>4, <1>5
<1> HIDE DEF f, k
<1>7. f[S] = k[S]
  BY <1>6, SumSame
<1> QED
  BY <1>1, <1>7 DEF Sum, f, k

\* The total of fees is a natural.
LEMMA FeesType ==
  ASSUME NEW U, NEW S \in SUBSET EntryOf(U), IsFiniteSet(S)
  PROVE  TotalFees(S) \in Nat
<1>1. FeeOf(U) \in [EntryOf(U) -> Nat]
  BY DEF FeeOf, EntryOf
<1> QED
  BY <1>1, TotalFeesIsSum, SumType

\* No proofs, no fees.
LEMMA FeesOfNone == TotalFees({}) = 0
<1>1. {} \in SUBSET EntryOf({}) /\ IsFiniteSet({})
  BY FS_EmptySet
<1> QED
  BY <1>1, TotalFeesIsSum, SumUnfold

\* The fees of two disjoint sets of proofs add up.
LEMMA FeesUnion ==
  ASSUME NEW U, NEW S \in SUBSET EntryOf(U), IsFiniteSet(S),
         NEW T \in SUBSET EntryOf(U), IsFiniteSet(T), S \cap T = {}
  PROVE  TotalFees(S \cup T) = TotalFees(S) + TotalFees(T)
<1>1. FeeOf(U) \in [EntryOf(U) -> Nat]
  BY DEF FeeOf, EntryOf
<1>2. S \cup T \in SUBSET EntryOf(U) /\ IsFiniteSet(S \cup T)
  BY FS_Union
<1>3. Sum(FeeOf(U), S \cup T) = Sum(FeeOf(U), S) + Sum(FeeOf(U), T)
  BY <1>1, SumUnion
<1> QED
  BY <1>2, <1>3, TotalFeesIsSum

\* Taking a proof away takes its fee off the total.
LEMMA FeesWithout ==
  ASSUME NEW U, NEW S \in SUBSET EntryOf(U), IsFiniteSet(S), NEW e \in S
  PROVE  TotalFees(S) = e.max_fee + TotalFees(S \ {e})
<1>1. FeeOf(U) \in [EntryOf(U) -> Nat] /\ FeeOf(U)[e] = e.max_fee
  BY DEF FeeOf, EntryOf
<1>2. S \ {e} \in SUBSET EntryOf(U) /\ IsFiniteSet(S \ {e})
  BY FS_RemoveElement
<1>3. Sum(FeeOf(U), S) = FeeOf(U)[e] + Sum(FeeOf(U), S \ {e})
  BY <1>1, SumRemove
<1> QED
  BY <1>1, <1>2, <1>3, TotalFeesIsSum

\* Adding a proof adds its fee to the total.
LEMMA FeesWith ==
  ASSUME NEW U, NEW S \in SUBSET EntryOf(U), IsFiniteSet(S), NEW e \in EntryOf(U), e \notin S
  PROVE  TotalFees(S \cup {e}) = TotalFees(S) + e.max_fee
<1>1. S \cup {e} \in SUBSET EntryOf(U) /\ IsFiniteSet(S \cup {e}) /\ e \in S \cup {e}
  BY FS_AddElement
<1>2. (S \cup {e}) \ {e} = S
  OBVIOUS
<1>3. TotalFees(S \cup {e}) = e.max_fee + TotalFees(S)
  BY <1>1, <1>2, FeesWithout
<1>4. TotalFees(S) \in Nat /\ e.max_fee \in Nat
  BY FeesType DEF EntryOf
<1> QED
  BY <1>3, <1>4

\* If every proof offers at least c, the total is at least c for each of them.
LEMMA FeesBound ==
  ASSUME NEW U, NEW S \in SUBSET EntryOf(U), IsFiniteSet(S), NEW c \in Nat,
         \A e \in S : c <= e.max_fee
  PROVE  Cardinality(S) * c <= TotalFees(S)
<1>1. FeeOf(U) \in [EntryOf(U) -> Nat] /\ \A e \in S : FeeOf(U)[e] >= c
  BY DEF FeeOf, EntryOf
<1>2. Sum(FeeOf(U), S) >= Cardinality(S) * c
  BY <1>1, SumBounds
<1>3. TotalFees(S) \in Nat /\ Cardinality(S) \in Nat
  BY FeesType, FS_CardinalityType
<1> QED
  BY <1>2, <1>3, TotalFeesIsSum

-----------------------------------------------------------------------------
\* No sender and nonce is in the queue twice.
Distinct(q) == \A i, j \in Positions(q) : i # j => ~SameEntry(q[i], q[j])

-----------------------------------------------------------------------------
(***************************************************************************)
(* What the operations on the queue return.                                *)
(***************************************************************************)

\* A function on 1..n is a sequence of length n.
LEMMA FunctionIsSeq ==
  ASSUME NEW S, NEW n \in Nat, NEW f \in [1..n -> S]
  PROVE  f \in Seq(S) /\ Len(f) = n
<1>1. f \in Seq(S)
  BY SeqDef
<1>2. Len(f) \in Nat /\ DOMAIN f = 1..Len(f)
  BY <1>1, LenProperties
<1>3. 1..Len(f) = 1..n
  BY <1>2
<1> QED
  BY <1>1, <1>2, <1>3

\* Pushing keeps the entries distinct, and grows the queue by one at most.
LEMMA PushProperties ==
  ASSUME NEW U, NEW q \in Seq(EntryOf(U)), NEW e \in EntryOf(U), Distinct(q)
  PROVE  /\ Push(q, e) \in Seq(EntryOf(U))
         /\ Len(Push(q, e)) <= Len(q) + 1
         /\ Distinct(Push(q, e))
<1>1. Len(q) \in Nat /\ \A i \in 1..Len(q) : q[i] \in EntryOf(U)
  BY LenProperties, ElementOfSeq
<1>2. CASE Contains(q, e)
  <2> DEFINE f == [i \in Positions(q) |->
                     IF SameEntry(q[i], e) THEN [q[i] EXCEPT !.prio = e.prio] ELSE q[i]]
  <2>1. Push(q, e) = f
    BY <1>2 DEF Push
  <2>2. \A i \in 1..Len(q) : f[i] \in EntryOf(U) /\ SameEntry(f[i], q[i])
    BY <1>1 DEF EntryOf, SameEntry, Positions
  <2>3. f \in [1..Len(q) -> EntryOf(U)]
    BY <2>2 DEF Positions
  <2> HIDE DEF f
  <2>4. f \in Seq(EntryOf(U)) /\ Len(f) = Len(q)
    BY <2>3, <1>1, FunctionIsSeq
  <2>5. Distinct(f)
    BY <2>2, <2>4 DEF Distinct, Positions, SameEntry
  <2> QED
    BY <2>1, <2>4, <2>5, <1>1
<1>3. CASE ~Contains(q, e)
  <2>1. Push(q, e) = Append(q, e)
    BY <1>3 DEF Push
  <2>2. /\ Append(q, e) \in Seq(EntryOf(U))
        /\ Len(Append(q, e)) = Len(q) + 1
        /\ \A i \in 1..Len(q) : Append(q, e)[i] = q[i]
        /\ Append(q, e)[Len(q) + 1] = e
    BY AppendProperties
  <2>3. Distinct(Append(q, e))
    BY <1>1, <1>3, <2>2 DEF Distinct, Positions, SameEntry, Contains
  <2> QED
    BY <2>1, <2>2, <2>3, <1>1
<1> QED
  BY <1>2, <1>3

\* Removing an entry keeps the others distinct.
LEMMA SwapRemoveProperties ==
  ASSUME NEW U, NEW q \in Seq(EntryOf(U)), Distinct(q), NEW i \in Positions(q)
  PROVE  /\ SwapRemove(q, i) \in Seq(EntryOf(U))
         /\ Len(SwapRemove(q, i)) = Len(q) - 1
         /\ Distinct(SwapRemove(q, i))
<1>1. Len(q) \in Nat /\ \A j \in 1..Len(q) : q[j] \in EntryOf(U)
  BY LenProperties, ElementOfSeq
<1>2. Len(q) - 1 \in Nat /\ i \in 1..Len(q) /\ Len(q) \in 1..Len(q)
  BY <1>1 DEF Positions
<1> DEFINE f == [j \in 1..(Len(q) - 1) |-> IF j = i THEN q[Len(q)] ELSE q[j]]
<1>3. f \in [1..(Len(q) - 1) -> EntryOf(U)]
  BY <1>1, <1>2
<1>4. \A j \in 1..(Len(q) - 1) : f[j] = IF j = i THEN q[Len(q)] ELSE q[j]
  OBVIOUS
<1>5. SwapRemove(q, i) = f
  BY DEF SwapRemove
<1> HIDE DEF f
<1>6. f \in Seq(EntryOf(U)) /\ Len(f) = Len(q) - 1
  BY <1>2, <1>3, FunctionIsSeq
<1>7. Distinct(f)
  BY <1>1, <1>2, <1>4, <1>6 DEF Distinct, Positions
<1> QED
  BY <1>5, <1>6, <1>7

\* Popping until the queue is empty returns its entries in another order.
LEMMA PopOrdersProperties ==
  ASSUME NEW U, NEW q \in Seq(EntryOf(U)), Distinct(q), NEW s \in PopOrders(q)
  PROVE  s \in Seq(EntryOf(U)) /\ Len(s) = Len(q) /\ Distinct(s)
<1>1. Len(q) \in Nat /\ \A j \in 1..Len(q) : q[j] \in EntryOf(U)
  BY LenProperties, ElementOfSeq
<1>2. PICK p \in Visits(Len(q)) : s = [i \in Positions(q) |-> q[p[i]]]
  BY DEF PopOrders
<1>3. p \in [1..Len(q) -> 1..Len(q)] /\ \A j \in 1..Len(q) : \E i \in 1..Len(q) : p[i] = j
  BY DEF Visits
<1>4. \A i, j \in 1..Len(q) : p[i] = p[j] => i = j
  <2>1. p \in Surjection(1..Len(q), 1..Len(q))
    BY <1>3 DEF Surjection
  <2>2. IsFiniteSet(1..Len(q))
    BY <1>1, FS_Interval
  <2>3. p \in Injection(1..Len(q), 1..Len(q))
    BY <2>1, <2>2, FS_SurjSameCardinalityImpliesInj
  <2> QED
    BY <2>3 DEF Injection, IsInjective
<1>5. s \in [1..Len(q) -> EntryOf(U)] /\ \A i \in 1..Len(q) : s[i] = q[p[i]]
  BY <1>1, <1>2, <1>3 DEF Positions
<1>6. s \in Seq(EntryOf(U)) /\ Len(s) = Len(q)
  BY <1>1, <1>5, FunctionIsSeq
<1>7. Distinct(s)
  <2> SUFFICES ASSUME NEW i \in 1..Len(q), NEW j \in 1..Len(q), i # j
               PROVE  ~SameEntry(s[i], s[j])
    BY <1>6 DEF Distinct, Positions
  <2>1. p[i] \in 1..Len(q) /\ p[j] \in 1..Len(q) /\ p[i] # p[j]
    BY <1>3, <1>4
  <2>2. ~SameEntry(q[p[i]], q[p[j]])
    BY <2>1 DEF Distinct, Positions
  <2> QED
    BY <2>2, <1>5
<1> QED
  BY <1>6, <1>7

\* Taking the proofs of a user out, in whatever order the rest ends up.
LEMMA RemoveProperties ==
  ASSUME NEW U, NEW q \in Seq(EntryOf(U)), Distinct(q), NEW u,
         NEW r \in Arrangements({e \in EntriesOf(q) : e.sender # u})
  PROVE  r \in Seq(EntryOf(U)) /\ Len(r) <= Len(q) /\ Distinct(r)
<1> DEFINE S == {e \in EntriesOf(q) : e.sender # u}
<1>1. Len(q) \in Nat /\ q \in [1..Len(q) -> EntryOf(U)]
  BY LenProperties
<1>2. IsFiniteSet(EntriesOf(q)) /\ Cardinality(EntriesOf(q)) <= Len(q)
  <2>1. q \in Surjection(1..Len(q), EntriesOf(q))
    BY <1>1 DEF Surjection, EntriesOf, Positions
  <2>2. IsFiniteSet(1..Len(q)) /\ Cardinality(1..Len(q)) = Len(q)
    BY <1>1, FS_Interval
  <2>3. /\ IsFiniteSet(EntriesOf(q))
        /\ Cardinality(EntriesOf(q)) <= Cardinality(1..Len(q))
    BY <2>1, <2>2, FS_Surjection
  <2> QED
    BY <2>2, <2>3
<1>3. S \in SUBSET EntriesOf(q)
  OBVIOUS
<1>4. IsFiniteSet(S) /\ Cardinality(S) <= Cardinality(EntriesOf(q))
  BY <1>2, <1>3, FS_Subset
<1>5. Cardinality(S) \in Nat /\ Cardinality(EntriesOf(q)) \in Nat
  BY <1>2, <1>4, FS_CardinalityType
<1>6. r \in [1..Cardinality(S) -> S] /\ \A i, j \in DOMAIN r : i # j => r[i] # r[j]
  BY DEF Arrangements
<1>7. S \subseteq EntryOf(U)
  BY <1>1 DEF EntriesOf, Positions
<1>8. \A e, f \in S : e # f => ~SameEntry(e, f)
  BY DEF Distinct, EntriesOf
<1> HIDE DEF S
<1>9. r \in [1..Cardinality(S) -> EntryOf(U)]
  BY <1>6, <1>7
<1>10. r \in Seq(EntryOf(U)) /\ Len(r) = Cardinality(S)
  BY <1>5, <1>9, FunctionIsSeq
<1>11. Distinct(r)
  BY <1>6, <1>8, <1>10 DEF Distinct, Positions
<1> QED
  BY <1>1, <1>2, <1>4, <1>5, <1>10, <1>11

\* A queue has finitely many entries, and no more than its length.
LEMMA EntriesFinite ==
  ASSUME NEW U, NEW q \in Seq(EntryOf(U))
  PROVE  /\ IsFiniteSet(EntriesOf(q)) /\ Cardinality(EntriesOf(q)) <= Len(q)
         /\ EntriesOf(q) \in SUBSET EntryOf(U)
<1>1. Len(q) \in Nat /\ q \in [1..Len(q) -> EntryOf(U)]
  BY LenProperties
<1>2. q \in Surjection(1..Len(q), EntriesOf(q))
  BY <1>1 DEF Surjection, EntriesOf, Positions
<1>3. IsFiniteSet(1..Len(q)) /\ Cardinality(1..Len(q)) = Len(q)
  BY <1>1, FS_Interval
<1>4. IsFiniteSet(EntriesOf(q)) /\ Cardinality(EntriesOf(q)) <= Cardinality(1..Len(q))
  BY <1>2, <1>3, FS_Surjection
<1> QED
  BY <1>1, <1>3, <1>4 DEF EntriesOf, Positions

\* Without duplicates there are as many entries as positions.
LEMMA EntriesDistinct ==
  ASSUME NEW U, NEW q \in Seq(EntryOf(U)), Distinct(q)
  PROVE  /\ Cardinality(EntriesOf(q)) = Len(q)
         /\ \A e, f \in EntriesOf(q) : SameEntry(e, f) => e = f
<1>1. Len(q) \in Nat /\ q \in [1..Len(q) -> EntryOf(U)]
  BY LenProperties
<1>2. q \in Surjection(1..Len(q), EntriesOf(q))
  BY <1>1 DEF Surjection, EntriesOf, Positions
<1>3. IsFiniteSet(1..Len(q)) /\ Cardinality(1..Len(q)) = Len(q)
  BY <1>1, FS_Interval
<1>4. q \in Injection(1..Len(q), EntriesOf(q))
  <2>1. \A i, j \in 1..Len(q) : q[i] = q[j] => i = j
    BY <1>1 DEF Distinct, Positions, SameEntry
  <2> QED
    BY <1>2, <2>1 DEF Injection, IsInjective, Surjection
<1>5. Cardinality(EntriesOf(q)) = Cardinality(1..Len(q))
  BY <1>2, <1>3, <1>4, FS_Surjection
<1>6. \A e, f \in EntriesOf(q) : SameEntry(e, f) => e = f
  BY DEF Distinct, EntriesOf
<1> QED
  BY <1>3, <1>5, <1>6

\* Pushing a sender and nonce that is not in the queue adds that entry.
LEMMA PushEntries ==
  ASSUME NEW U, NEW q \in Seq(EntryOf(U)), NEW e \in EntryOf(U),
         \A f \in EntriesOf(q) : ~SameEntry(f, e)
  PROVE  EntriesOf(Push(q, e)) = EntriesOf(q) \cup {e}
<1>1. Push(q, e) = Append(q, e)
  BY DEF Push, Contains, EntriesOf
<1>2. /\ Len(q) \in Nat
      /\ Len(Append(q, e)) = Len(q) + 1
      /\ \A i \in 1..Len(q) : Append(q, e)[i] = q[i]
      /\ Append(q, e)[Len(q) + 1] = e
  BY LenProperties, AppendProperties
<1>3. \A i \in 1..(Len(q) + 1) : i \in 1..Len(q) \/ i = Len(q) + 1
  BY <1>2
<1>4. Len(q) + 1 \in 1..(Len(q) + 1) /\ \A i \in 1..Len(q) : i \in 1..(Len(q) + 1)
  BY <1>2
<1> QED
  BY <1>1, <1>2, <1>3, <1>4 DEF EntriesOf, Positions

\* Removing a position removes its entry and no other.
LEMMA SwapRemoveEntries ==
  ASSUME NEW U, NEW q \in Seq(EntryOf(U)), Distinct(q), NEW i \in Positions(q)
  PROVE  EntriesOf(SwapRemove(q, i)) = EntriesOf(q) \ {q[i]}
<1>1. Len(q) \in Nat /\ i \in 1..Len(q) /\ Len(q) \in 1..Len(q)
  BY LenProperties DEF Positions
<1>2. /\ Len(SwapRemove(q, i)) = Len(q) - 1
      /\ \A j \in 1..(Len(q) - 1) : SwapRemove(q, i)[j] = IF j = i THEN q[Len(q)] ELSE q[j]
  BY SwapRemoveProperties DEF SwapRemove
<1>3. \A j, k \in 1..Len(q) : q[j] = q[k] => j = k
  BY DEF Distinct, Positions, SameEntry
<1>4. ASSUME NEW e \in EntriesOf(SwapRemove(q, i)) PROVE e \in EntriesOf(q) \ {q[i]}
  <2>1. PICK j \in 1..(Len(q) - 1) : e = SwapRemove(q, i)[j]
    BY <1>2 DEF EntriesOf, Positions
  <2>2. PICK k \in 1..Len(q) : e = q[k] /\ k # i
    BY <1>1, <1>2, <2>1
  <2> QED
    BY <1>1, <1>3, <2>2 DEF EntriesOf, Positions
<1>5. ASSUME NEW e \in EntriesOf(q) \ {q[i]} PROVE e \in EntriesOf(SwapRemove(q, i))
  <2>1. PICK k \in 1..Len(q) : e = q[k]
    BY DEF EntriesOf, Positions
  <2>2. k # i
    BY <2>1, <1>5
  <2>3. \E j \in 1..(Len(q) - 1) : SwapRemove(q, i)[j] = e
    <3>1. CASE k = Len(q)
      <4>1. i \in 1..(Len(q) - 1)
        BY <1>1, <2>2, <3>1
      <4> QED
        BY <1>2, <2>1, <3>1, <4>1
    <3>2. CASE k # Len(q)
      <4>1. k \in 1..(Len(q) - 1)
        BY <1>1, <3>2
      <4> QED
        BY <1>2, <2>1, <2>2, <4>1
    <3> QED
      BY <3>1, <3>2
  <2> QED
    BY <1>2, <2>3 DEF EntriesOf, Positions
<1> QED
  BY <1>4, <1>5

\* Popping returns the same entries, none of them before one that pops earlier.
LEMMA PopOrdersEntries ==
  ASSUME NEW U, NEW q \in Seq(EntryOf(U)), NEW s \in PopOrders(q), Len(s) = Len(q)
  PROVE  /\ EntriesOf(s) = EntriesOf(q)
         /\ \A i, j \in 1..Len(q) : i < j => ~PoppedBefore(s[j], s[i])
<1>1. Len(q) \in Nat
  BY LenProperties
<1>2. PICK p \in Visits(Len(q)) : s = [i \in Positions(q) |-> q[p[i]]]
  BY DEF PopOrders
<1>3. p \in [1..Len(q) -> 1..Len(q)] /\ \A j \in 1..Len(q) : \E i \in 1..Len(q) : p[i] = j
  BY DEF Visits
<1>4. DOMAIN s = 1..Len(q) /\ \A i \in 1..Len(q) : s[i] = q[p[i]]
  BY <1>2 DEF Positions
<1>5. EntriesOf(s) \subseteq EntriesOf(q)
  <2> SUFFICES ASSUME NEW i \in 1..Len(q) PROVE \E j \in 1..Len(q) : s[i] = q[j]
    BY DEF EntriesOf, Positions
  <2> QED
    BY <1>3, <1>4
<1>6. EntriesOf(q) \subseteq EntriesOf(s)
  <2> SUFFICES ASSUME NEW j \in 1..Len(q) PROVE \E i \in 1..Len(q) : s[i] = q[j]
    BY DEF EntriesOf, Positions
  <2>1. PICK i \in 1..Len(q) : p[i] = j
    BY <1>3
  <2> QED
    BY <1>4, <2>1
<1>7. \A i, j \in DOMAIN s : i < j => ~PoppedBefore(s[j], s[i])
  BY DEF PopOrders
<1> QED
  BY <1>4, <1>5, <1>6, <1>7

\* The sequence s, cut after its first k elements.
IsSplit(s, k, left, right, E, n) ==
    /\ s \in Seq(E) /\ Len(s) = n /\ Distinct(s)
    /\ left \in Seq(E) /\ Len(left) = k
    /\ \A i \in 1..k : left[i] = s[i]
    /\ right \in Seq(E) /\ Len(right) = n - k
    /\ \A i \in 1..(n - k) : right[i] = s[k + i]

\* The entries at the positions from i to j.
Between(s, i, j) == {s[m] : m \in i..j}

\* The two parts of a sequence that is cut.
LEMMA SplitProperties ==
  ASSUME NEW s, NEW n \in Nat, NEW k \in 0..n, NEW r, NEW b, NEW E, IsSplit(s, k, r, b, E, n)
  PROVE  /\ Distinct(r) /\ Distinct(b)
         /\ EntriesOf(r) = Between(s, 1, k)
         /\ EntriesOf(b) = Between(s, k + 1, n)
<1>1. /\ Len(s) = n /\ Distinct(s)
      /\ Len(r) = k /\ \A i \in 1..k : r[i] = s[i]
      /\ Len(b) = n - k /\ \A i \in 1..(n - k) : b[i] = s[k + i]
  BY DEF IsSplit
<1>2. Distinct(r)
  <2> SUFFICES ASSUME NEW i \in 1..k, NEW j \in 1..k, i # j PROVE ~SameEntry(r[i], r[j])
    BY <1>1 DEF Distinct, Positions
  <2>1. i \in 1..n /\ j \in 1..n
    OBVIOUS
  <2>2. ~SameEntry(s[i], s[j])
    BY <1>1, <2>1 DEF Distinct, Positions
  <2> QED
    BY <1>1, <2>2
<1>3. Distinct(b)
  <2> SUFFICES ASSUME NEW i \in 1..(n - k), NEW j \in 1..(n - k), i # j
               PROVE  ~SameEntry(b[i], b[j])
    BY <1>1 DEF Distinct, Positions
  <2>1. k + i \in 1..n /\ k + j \in 1..n /\ k + i # k + j
    OBVIOUS
  <2>2. ~SameEntry(s[k + i], s[k + j])
    BY <1>1, <2>1 DEF Distinct, Positions
  <2> QED
    BY <1>1, <2>2
<1>4. EntriesOf(r) = {s[i] : i \in 1..k}
  BY <1>1 DEF EntriesOf, Positions
<1>5. ASSUME NEW i \in 1..(n - k) PROVE b[i] \in {s[j] : j \in (k + 1)..n}
  <2>1. k + i \in (k + 1)..n
    OBVIOUS
  <2> QED
    BY <1>1, <2>1
<1>6. ASSUME NEW i \in (k + 1)..n PROVE \E j \in 1..(n - k) : b[j] = s[i]
  <2>1. i - k \in 1..(n - k) /\ k + (i - k) = i
    OBVIOUS
  <2> QED
    BY <1>1, <2>1
<1>7. EntriesOf(b) = {b[i] : i \in 1..(n - k)}
  BY <1>1 DEF EntriesOf, Positions
<1>8. {b[i] : i \in 1..(n - k)} = {s[i] : i \in (k + 1)..n}
  BY <1>5, <1>6
<1> QED
  BY <1>2, <1>3, <1>4, <1>7, <1>8 DEF Between

\* What an extraction returns, in terms of the order in which it popped.
LEMMA ExtractSplit ==
  ASSUME NEW U, NEW q \in Seq(EntryOf(U)), Distinct(q), NEW gasPrice,
         NEW x \in ExtractBatchDirectly(q, gasPrice)
  PROVE  \E s \in PopOrders(q) : \E k \in 0..Len(q) :
           Rejects(s, k, gasPrice) /\ IsSplit(s, k, x.queue, x.batch, EntryOf(U), Len(q))
<1>1. PICK s \in PopOrders(q) :
        x \in {[batch |-> SubSeq(s, k + 1, Len(s)), queue |-> SubSeq(s, 1, k)] :
                 k \in {k \in 0..Len(s) : Rejects(s, k, gasPrice)}}
  BY DEF ExtractBatchDirectly
<1>2. PICK k \in 0..Len(s) :
         /\ Rejects(s, k, gasPrice)
         /\ x = [batch |-> SubSeq(s, k + 1, Len(s)), queue |-> SubSeq(s, 1, k)]
  BY <1>1
<1>3. s \in Seq(EntryOf(U)) /\ Len(s) = Len(q) /\ Distinct(s)
  BY PopOrdersProperties
<1>4. Len(s) \in Nat /\ \A j \in 1..Len(s) : s[j] \in EntryOf(U)
  BY <1>3, LenProperties, ElementOfSeq
<1>5. /\ x.queue \in Seq(EntryOf(U)) /\ Len(x.queue) = k
      /\ \A i \in 1..k : x.queue[i] = s[i]
  <2>1. \A j \in 1..k : s[j] \in EntryOf(U)
    BY <1>4
  <2>2. /\ SubSeq(s, 1, k) \in Seq(EntryOf(U))
        /\ Len(SubSeq(s, 1, k)) = IF 1 <= k THEN k - 1 + 1 ELSE 0
        /\ \A i \in 1..(k - 1 + 1) : SubSeq(s, 1, k)[i] = s[1 + i - 1]
    BY <2>1, <1>4, SubSeqProperties
  <2> QED
    BY <1>2, <1>4, <2>2
<1>6. /\ x.batch \in Seq(EntryOf(U)) /\ Len(x.batch) = Len(s) - k
      /\ \A i \in 1..(Len(s) - k) : x.batch[i] = s[k + i]
  <2>1. \A j \in (k + 1)..Len(s) : s[j] \in EntryOf(U)
    BY <1>4
  <2>2. /\ SubSeq(s, k + 1, Len(s)) \in Seq(EntryOf(U))
        /\ Len(SubSeq(s, k + 1, Len(s))) =
             IF k + 1 <= Len(s) THEN Len(s) - (k + 1) + 1 ELSE 0
        /\ \A i \in 1..(Len(s) - (k + 1) + 1) :
             SubSeq(s, k + 1, Len(s))[i] = s[(k + 1) + i - 1]
    BY <2>1, <1>4, SubSeqProperties
  <2> QED
    BY <1>2, <1>4, <2>2
<1> QED
  BY <1>2, <1>3, <1>5, <1>6, ZenonT(40) DEF IsSplit

\* An extraction leaves a queue that is no longer than before, and a batch, both
\* without duplicates.
LEMMA ExtractProperties ==
  ASSUME NEW U, NEW q \in Seq(EntryOf(U)), Distinct(q), NEW gasPrice,
         NEW x \in ExtractBatchDirectly(q, gasPrice)
  PROVE  /\ x.queue \in Seq(EntryOf(U)) /\ Len(x.queue) <= Len(q) /\ Distinct(x.queue)
         /\ x.batch \in Seq(EntryOf(U)) /\ Distinct(x.batch)
<1>1. PICK s \in PopOrders(q) : \E k \in 0..Len(q) :
        Rejects(s, k, gasPrice) /\ IsSplit(s, k, x.queue, x.batch, EntryOf(U), Len(q))
  BY ExtractSplit
<1>2. PICK k \in 0..Len(q) : IsSplit(s, k, x.queue, x.batch, EntryOf(U), Len(q))
  BY <1>1
<1>3. Len(q) \in Nat
  BY LenProperties
<1>4. Distinct(x.queue) /\ Distinct(x.batch)
  BY <1>2, <1>3, SplitProperties
<1> QED
  BY <1>2, <1>3, <1>4 DEF IsSplit

\* An extraction splits the entries in two: no entry of the batch would have been
\* popped before one that stays in the queue.
LEMMA ExtractEntries ==
  ASSUME NEW U, NEW q \in Seq(EntryOf(U)), Distinct(q), NEW gasPrice,
         NEW x \in ExtractBatchDirectly(q, gasPrice)
  PROVE  /\ EntriesOf(x.batch) \cup EntriesOf(x.queue) = EntriesOf(q)
         /\ \A e \in EntriesOf(x.batch), f \in EntriesOf(x.queue) :
              ~PoppedBefore(e, f) /\ ~SameEntry(e, f)
<1>1. PICK s \in PopOrders(q) : \E k \in 0..Len(q) :
        Rejects(s, k, gasPrice) /\ IsSplit(s, k, x.queue, x.batch, EntryOf(U), Len(q))
  BY ExtractSplit
<1>2. PICK k \in 0..Len(q) : IsSplit(s, k, x.queue, x.batch, EntryOf(U), Len(q))
  BY <1>1
<1>3. Len(q) \in Nat /\ Len(s) = Len(q) /\ Distinct(s)
  BY <1>2, LenProperties DEF IsSplit
<1>4. /\ EntriesOf(s) = EntriesOf(q)
      /\ \A i, j \in 1..Len(q) : i < j => ~PoppedBefore(s[j], s[i])
  BY <1>3, PopOrdersEntries
<1>5. /\ EntriesOf(x.queue) = Between(s, 1, k)
      /\ EntriesOf(x.batch) = Between(s, k + 1, Len(q))
  BY <1>2, <1>3, SplitProperties
<1>6. EntriesOf(x.batch) \cup EntriesOf(x.queue) = EntriesOf(q)
  <2>1. EntriesOf(q) = {s[i] : i \in 1..Len(q)}
    BY <1>3, <1>4 DEF EntriesOf, Positions
  <2>2. \A i : i \in 1..Len(q) <=> i \in 1..k \/ i \in (k + 1)..Len(q)
    BY <1>3
  <2> QED
    BY <1>5, <2>1, <2>2 DEF Between
<1>7. ASSUME NEW e \in EntriesOf(x.batch), NEW f \in EntriesOf(x.queue)
      PROVE  ~PoppedBefore(e, f) /\ ~SameEntry(e, f)
  <2>1. PICK j \in (k + 1)..Len(q) : e = s[j]
    BY <1>5 DEF Between
  <2>2. PICK i \in 1..k : f = s[i]
    BY <1>5 DEF Between
  <2>3. i \in 1..Len(q) /\ j \in 1..Len(q) /\ i < j /\ i # j
    BY <1>3
  <2>4. ~SameEntry(s[j], s[i])
    BY <1>3, <2>3 DEF Distinct, Positions
  <2> QED
    BY <1>4, <2>1, <2>2, <2>3, <2>4
<1> QED
  BY <1>6, <1>7

\* A batch is within the limits, and every proof in it offered the price of a batch
\* of its size.
LEMMA ExtractLimits ==
  ASSUME NEW U, NEW q \in Seq(EntryOf(U)), Distinct(q), NEW gasPrice \in Nat,
         \A e \in EntriesOf(q) : e.prio = e.max_fee,
         NEW x \in ExtractBatchDirectly(q, gasPrice), x.batch # <<>>
  PROVE  /\ Len(x.batch) \in Nat \ {0} /\ Len(x.batch) <= MaxBatchProofQty
         /\ BatchByteSize(EntriesOf(x.batch)) <= MaxBatchByteSize
         /\ FeePerProof(Len(x.batch), gasPrice) \in Nat
         /\ \A e \in EntriesOf(x.batch) : FeePerProof(Len(x.batch), gasPrice) <= e.max_fee
<1>1. PICK s \in PopOrders(q) : \E k \in 0..Len(q) :
        Rejects(s, k, gasPrice) /\ IsSplit(s, k, x.queue, x.batch, EntryOf(U), Len(q))
  BY ExtractSplit
<1>2. PICK k \in 0..Len(q) :
        Rejects(s, k, gasPrice) /\ IsSplit(s, k, x.queue, x.batch, EntryOf(U), Len(q))
  BY <1>1
<1>3. /\ Len(q) \in Nat /\ s \in Seq(EntryOf(U)) /\ Len(s) = Len(q)
      /\ x.batch \in Seq(EntryOf(U)) /\ Len(x.batch) = Len(q) - k
  BY <1>2, LenProperties DEF IsSplit
<1>4. /\ EntriesOf(s) = EntriesOf(q)
      /\ \A i, j \in 1..Len(q) : i < j => ~PoppedBefore(s[j], s[i])
  BY <1>3, PopOrdersEntries
<1>5. EntriesOf(x.batch) = {s[i] : i \in (k + 1)..Len(q)}
  <2>1. EntriesOf(x.batch) = Between(s, k + 1, Len(q))
    BY <1>2, <1>3, SplitProperties
  <2> QED
    BY <2>1 DEF Between
<1> DEFINE n == Len(q) - k
<1>6. k # Len(q) /\ n \in Nat \ {0}
  <2>1. CASE k = Len(q)
    <3>1. x.batch = <<>>
      BY <1>3, <2>1, EmptySeq
    <3> QED
      BY <3>1
  <2> QED
    BY <1>3, <2>1
<1>7. FeePerProof(n, gasPrice) \in Nat
  <2>1. ConstantGasCost + AdditionalGasPerProof * n \in Nat
    BY <1>6, LimitsAssumption
  <2>2. (ConstantGasCost + AdditionalGasPerProof * n) \div n \in Nat
    BY <1>6, <2>1
  <2> QED
    BY <2>2 DEF FeePerProof
<1>8. /\ BatchByteSize(EntriesOf(x.batch)) <= MaxBatchByteSize
      /\ FeePerProof(n, gasPrice) <= s[k + 1].max_fee
      /\ n <= MaxBatchProofQty
  BY <1>2, <1>3, <1>5, <1>6 DEF Rejects, AcceptableFrom
<1>9. ASSUME NEW e \in EntriesOf(x.batch) PROVE FeePerProof(n, gasPrice) <= e.max_fee
  <2>1. PICK j \in (k + 1)..Len(q) : e = s[j]
    BY <1>5
  <2>2. k + 1 \in 1..Len(q) /\ j \in 1..Len(q)
    BY <1>3, <1>6
  <2>3. \A i \in 1..Len(q) : /\ s[i].prio = s[i].max_fee /\ s[i].max_fee \in Nat
                             /\ s[i].nonce \in Nat
    <3>1. \A i \in 1..Len(q) : s[i] \in EntriesOf(q) /\ s[i] \in EntryOf(U)
      BY <1>3, <1>4, ElementOfSeq DEF EntriesOf, Positions
    <3> QED
      BY <3>1 DEF EntryOf
  <2>4. s[k + 1].max_fee <= s[j].max_fee
    <3>1. k + 1 = j \/ ~PoppedBefore(s[j], s[k + 1])
      BY <1>3, <1>4, <2>2
    <3> QED
      BY <2>2, <2>3, <3>1 DEF PoppedBefore
  <2> HIDE DEF n
  <2> QED
    BY <1>7, <1>8, <2>1, <2>2, <2>3, <2>4
<1> QED
  BY <1>3, <1>6, <1>7, <1>8, <1>9

\* The entries at the last m of n positions.
LastOf(s, n, m) == {s[i] : i \in (n - m + 1)..n}

\* The last m positions of a sequence without duplicates hold m entries.
LEMMA LastEntries ==
  ASSUME NEW s, NEW n \in Nat, NEW m \in 0..n, Len(s) = n, Distinct(s)
  PROVE  IsFiniteSet(LastOf(s, n, m)) /\ Cardinality(LastOf(s, n, m)) = m
<1> DEFINE T == LastOf(s, n, m)
           f == [i \in (n - m + 1)..n |-> s[i]]
<1>1. IsFiniteSet((n - m + 1)..n) /\ Cardinality((n - m + 1)..n) = m
  <2>1. n - m + 1 \in Int /\ n \in Int /\ n - (n - m + 1) + 1 = m
    OBVIOUS
  <2>2. n - m + 1 > n => m = 0
    OBVIOUS
  <2> QED
    BY <2>1, <2>2, FS_Interval
<1>2. \A i, j \in (n - m + 1)..n : s[i] = s[j] => i = j
  BY DEF Distinct, Positions, SameEntry
<1>3. f \in [(n - m + 1)..n -> T]
  BY DEF LastOf
<1>4. \A i, j \in (n - m + 1)..n : f[i] = f[j] => i = j
  BY <1>2
<1>5. \A e \in T : \E i \in (n - m + 1)..n : f[i] = e
  BY DEF LastOf
<1> HIDE DEF f, T
<1>6. \A D : /\ f \in [D -> T] /\ \A i, j \in D : f[i] = f[j] => i = j
             /\ \A e \in T : \E i \in D : f[i] = e
             => f \in Bijection(D, T)
  BY DEF Bijection, Injection, Surjection, IsInjective
<1>7. f \in Bijection((n - m + 1)..n, T)
  BY <1>3, <1>4, <1>5, <1>6
<1> QED
  BY <1>1, <1>7, FS_Bijection DEF ExistsBijection, T

\* Among proofs of one size, no choice of proofs that could be posted is bigger than
\* the batch: the loop never rejects a proof too many.
LEMMA ExtractBiggest ==
  ASSUME NEW U, NEW q \in Seq(EntryOf(U)), Distinct(q), NEW gasPrice \in Nat,
         \A e \in EntriesOf(q) : e.prio = e.max_fee,
         \A e, f \in EntriesOf(q) : e.size = f.size,
         NEW x \in ExtractBatchDirectly(q, gasPrice),
         NEW S \in SUBSET EntriesOf(q), S # {},
         Cardinality(S) <= MaxBatchProofQty,
         BatchByteSize(S) <= MaxBatchByteSize,
         \A e \in S : FeePerProof(Cardinality(S), gasPrice) <= e.max_fee
  PROVE  Cardinality(S) <= Len(x.batch)
<1>1. PICK s \in PopOrders(q) : \E k \in 0..Len(q) :
        Rejects(s, k, gasPrice) /\ IsSplit(s, k, x.queue, x.batch, EntryOf(U), Len(q))
  BY ExtractSplit
<1>2. PICK k \in 0..Len(q) :
        Rejects(s, k, gasPrice) /\ IsSplit(s, k, x.queue, x.batch, EntryOf(U), Len(q))
  BY <1>1
<1>3. /\ Len(q) \in Nat /\ s \in Seq(EntryOf(U)) /\ Len(s) = Len(q) /\ Distinct(s)
      /\ Len(x.batch) = Len(q) - k
  BY <1>2, LenProperties DEF IsSplit
<1>4. /\ EntriesOf(s) = EntriesOf(q)
      /\ \A i, j \in 1..Len(q) : i < j => ~PoppedBefore(s[j], s[i])
  BY <1>3, PopOrdersEntries
<1> DEFINE n == Len(q)
           m == Cardinality(S)
           j == n - m
           T == {s[i] : i \in (j + 1)..n}
<1>5. /\ IsFiniteSet(S) /\ S \in SUBSET EntryOf(U) /\ m \in Nat /\ m # 0 /\ m <= n
      /\ Cardinality(EntriesOf(q)) = n
  <2>1. IsFiniteSet(EntriesOf(q)) /\ EntriesOf(q) \in SUBSET EntryOf(U)
    BY EntriesFinite
  <2>2. Cardinality(EntriesOf(q)) = n
    BY EntriesDistinct
  <2> QED
    BY <2>1, <2>2, FS_Subset, FS_CardinalityType, FS_EmptySet
<1> SUFFICES ASSUME m > n - k PROVE FALSE
  BY <1>3, <1>5
<1>6. j \in 0..(k - 1) /\ j + 1 \in 1..n /\ m \in 0..n /\ n - j = m
  BY <1>3, <1>5
<1>7. ~AcceptableFrom(s, j, gasPrice)
  BY <1>2, <1>6 DEF Rejects
<1>8. IsFiniteSet(T) /\ Cardinality(T) = m /\ T \in SUBSET EntriesOf(q)
  <2>1. IsFiniteSet(T) /\ Cardinality(T) = m
    <3>1. T = LastOf(s, n, m)
      BY DEF LastOf
    <3>2. n \in Nat /\ m \in 0..n /\ Len(s) = n /\ Distinct(s)
      BY <1>3, <1>6
    <3> HIDE DEF T, m, n
    <3> QED
      BY <3>1, <3>2, LastEntries
  <2>2. T \in SUBSET EntriesOf(s)
    BY <1>3, <1>6 DEF EntriesOf, Positions
  <2> QED
    BY <1>4, <2>1, <2>2
<1> HIDE DEF T
<1>9. BatchByteSize(T) = BatchByteSize(S)
  <2>1. PICK e \in S : TRUE
    OBVIOUS
  <2>2. EntriesOf(q) \in SUBSET EntryOf(U)
    BY EntriesFinite
  <2>3. /\ T \in SUBSET EntryOf(U)
        /\ \A f \in T \cup S : f.size = e.size
        /\ e.size \in Nat
    BY <1>8, <2>1, <2>2 DEF EntryOf
  <2>4. SizeOf(U) \in [EntryOf(U) -> Nat] /\ \A f \in T \cup S : SizeOf(U)[f] = e.size
    BY <1>5, <2>3 DEF SizeOf, EntryOf
  <2>5. Sum(SizeOf(U), T) = m * e.size
    BY <1>8, <2>3, <2>4, SumBounds, SMTT(30)
  <2>6. Sum(SizeOf(U), S) = m * e.size
    BY <1>5, <2>3, <2>4, SumBounds, SMTT(30)
  <2> QED
    BY <1>5, <1>8, <2>3, <2>5, <2>6, ByteSizeIsSum
<1>10. PICK i \in 1..(j + 1) : s[i] \in S
  <2>1. SUFFICES ASSUME \A i \in 1..(j + 1) : s[i] \notin S PROVE FALSE
    OBVIOUS
  <2> DEFINE R == {s[i] : i \in (n - (m - 1) + 1)..n}
  <2>2. m - 1 \in 0..n /\ n - (m - 1) + 1 = j + 2
    BY <1>3, <1>5
  <2>3. IsFiniteSet(R) /\ Cardinality(R) = m - 1
    <3>1. R = LastOf(s, n, m - 1)
      BY DEF LastOf
    <3>2. n \in Nat /\ m - 1 \in 0..n /\ Len(s) = n /\ Distinct(s)
      BY <1>3, <2>2
    <3> HIDE DEF R, m, n
    <3> QED
      BY <3>1, <3>2, LastEntries
  <2>4. S \subseteq R
    <3>1. ASSUME NEW e \in S PROVE e \in R
      <4>1. PICK i \in 1..n : e = s[i]
        BY <1>3, <1>4 DEF EntriesOf, Positions
      <4>2. ~(i \in 1..(j + 1))
        BY <2>1, <4>1
      <4>3. i \in (j + 2)..n
        BY <1>3, <1>6, <4>2
      <4> QED
        BY <2>2, <4>1, <4>3
    <3> QED
      BY <3>1
  <2> HIDE DEF R
  <2>5. Cardinality(S) <= Cardinality(R)
    BY <2>3, <2>4, FS_Subset
  <2> QED
    BY <1>5, <2>3, <2>5
<1>11. FeePerProof(m, gasPrice) <= s[j + 1].max_fee
  <2>1. i \in 1..n /\ j + 1 \in 1..n
    BY <1>3, <1>6
  <2>2. \A l \in 1..n : s[l].prio = s[l].max_fee /\ s[l].max_fee \in Nat
    <3>1. \A l \in 1..n : s[l] \in EntriesOf(q) /\ s[l] \in EntryOf(U)
      BY <1>3, <1>4, ElementOfSeq DEF EntriesOf, Positions
    <3> QED
      BY <3>1 DEF EntryOf
  <2>3. s[i].max_fee <= s[j + 1].max_fee
    <3>1. i = j + 1 \/ i < j + 1
      BY <1>6
    <3>2. i = j + 1 \/ ~PoppedBefore(s[j + 1], s[i])
      BY <1>4, <2>1, <3>1
    <3> QED
      BY <2>1, <2>2, <3>2 DEF PoppedBefore
  <2>4. FeePerProof(m, gasPrice) \in Nat
    <3>1. ConstantGasCost + AdditionalGasPerProof * m \in Nat
      BY <1>5, LimitsAssumption, SMTT(30)
    <3>2. (ConstantGasCost + AdditionalGasPerProof * m) \div m \in Nat
      BY <1>5, <3>1
    <3> QED
      BY <3>2 DEF FeePerProof
  <2>5. FeePerProof(m, gasPrice) <= s[i].max_fee
    BY <1>10
  <2> HIDE DEF m, j
  <2> QED
    BY <2>1, <2>2, <2>3, <2>4, <2>5
<1>12. Len(s) - j = m
  BY <1>3, <1>6
<1>13. BatchByteSize({s[l] : l \in (j + 1)..Len(s)}) <= MaxBatchByteSize
  BY <1>3, <1>9 DEF T
<1> HIDE DEF j
<1>14. AcceptableFrom(s, j, gasPrice)
  BY <1>11, <1>12, <1>13 DEF AcceptableFrom
<1> QED
  BY <1>7, <1>14

\* Pushing an entry leaves one of its sender in the queue.
LEMMA PushHolds ==
  ASSUME NEW U, NEW q \in Seq(EntryOf(U)), NEW e \in EntryOf(U), Distinct(q)
  PROVE  EntriesFrom(Push(q, e), e.sender) # {}
<1>1. Len(q) \in Nat /\ \A i \in 1..Len(q) : q[i] \in EntryOf(U)
  BY LenProperties, ElementOfSeq
<1>2. CASE Contains(q, e)
  <2> DEFINE f == [i \in Positions(q) |->
                     IF SameEntry(q[i], e) THEN [q[i] EXCEPT !.prio = e.prio] ELSE q[i]]
  <2>1. f = Push(q, e)
    BY <1>2 DEF Push
  <2>2. PICK i \in 1..Len(q) : SameEntry(q[i], e)
    BY <1>2 DEF Contains, Positions
  <2>3. f[i].sender = e.sender
    BY <1>1, <2>2 DEF Positions, SameEntry, EntryOf
  <2>4. f \in [1..Len(q) -> EntryOf(U)]
    BY <1>1 DEF Positions, EntryOf
  <2>5. Len(f) = Len(q)
    <3> HIDE DEF f
    <3> QED
      BY <1>1, <2>4, FunctionIsSeq
  <2> HIDE DEF f
  <2> QED
    BY <2>1, <2>2, <2>3, <2>5 DEF EntriesFrom, EntriesOf, Positions
<1>3. CASE ~Contains(q, e)
  <2>1. EntriesOf(Push(q, e)) = EntriesOf(q) \cup {e}
    <3>1. \A f \in EntriesOf(q) : ~SameEntry(f, e)
      BY <1>3 DEF Contains, EntriesOf
    <3> QED
      BY <3>1, PushEntries
  <2> QED
    BY <2>1 DEF EntriesFrom
<1> QED
  BY <1>2, <1>3

\* The price of a proof in a batch that is not empty is a natural.
LEMMA FeePerProofTyped ==
  ASSUME NEW n \in Nat, n # 0, NEW gasPrice \in Nat
  PROVE  FeePerProof(n, gasPrice) \in Nat
<1>1. ConstantGasCost + AdditionalGasPerProof * n \in Nat
  BY LimitsAssumption
<1>2. (ConstantGasCost + AdditionalGasPerProof * n) \div n \in Nat
  BY <1>1
<1> QED
  BY <1>2 DEF FeePerProof
=============================================================================
