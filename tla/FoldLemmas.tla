----------------------------- MODULE FoldLemmas -----------------------------
(***************************************************************************)
(* What folds and loops compute: sums over finite sets, as MapThenSumSet   *)
(* defines them, whatever is added up, and a step taken over and over.     *)
(* The library's induction rules have an operator for a parameter, so the  *)
(* lemmas argue by a smallest subset or number that would be an exception. *)
(***************************************************************************)
EXTENDS FiniteSetsExt, FiniteSetTheorems, TLAPS

\* The sum of f over S.
SumOn(f, S) == SumFunctionOnSet(f, S)

\* The element a fold takes out of a set first, and the rest.
First(S) == CHOOSE x \in S : TRUE
Rest(S) == S \ {First(S)}

\* What the recursion of a fold defines: the partial sums of f over the subsets of S.
PartialSums(g, f, S) ==
  g = [T \in SUBSET S |-> IF T = {} THEN 0 ELSE f[First(T)] + g[Rest(T)]]

\* A nonempty collection of subsets of a finite set has a minimal member.
LEMMA SmallestSubset ==
  ASSUME NEW S, IsFiniteSet(S), NEW C \in SUBSET (SUBSET S), C # {}
  PROVE  \E T \in C : \A U \in SUBSET T : U # T => U \notin C
<1>1. C \subseteq FiniteSubsetsOf(S)
  BY FS_Subset DEF FiniteSubsetsOf
<1>2. PICK T \in C : \A U \in C : <<U, T>> \notin StrictSubsetOrdering(S)
  BY <1>1, FS_StrictSubsetOrderingWellFounded, WFMin
<1>3. ASSUME NEW U \in SUBSET T, U # T, U \in C PROVE FALSE
  BY <1>2, <1>3 DEF StrictSubsetOrdering
<1> QED
  BY <1>2, <1>3

\* A nonempty set of natural numbers has a least one.
LEMMA SmallestNat ==
  ASSUME NEW C \in SUBSET Nat, C # {}
  PROVE  \E n \in C : \A m \in C : n <= m
<1>1. PICK top \in C : TRUE
  OBVIOUS
<1> DEFINE D == {0..n : n \in {m \in C : m <= top}}
<1>2. D \in SUBSET (SUBSET (0..top)) /\ D # {}
  <2>1. 0..top \in D
    BY <1>1
  <2>2. \A n \in Nat : n <= top => 0..n \subseteq 0..top
    BY <1>1
  <2> QED
    BY <1>1, <2>1, <2>2
<1>3. IsFiniteSet(0..top)
  BY <1>1, FS_Interval
<1>4. PICK T \in D : \A U \in SUBSET T : U # T => U \notin D
  <2> HIDE DEF D
  <2> QED
    BY <1>2, <1>3, SmallestSubset
<1>5. PICK n \in C : n <= top /\ T = 0..n
  BY DEF D
<1>6. ASSUME NEW m \in C, m < n PROVE FALSE
  <2>1. 0..m \in D
    BY <1>1, <1>5, <1>6
  <2>2. 0..m \in SUBSET (0..n) /\ 0..m # 0..n
    <3>1. n \in 0..n /\ n \notin 0..m
      BY <1>6
    <3> QED
      BY <1>6, <3>1
  <2> QED
    BY <1>4, <1>5, <2>1, <2>2
<1> QED
  BY <1>6

\* What a loop has come to after each number of its steps.
Iterates(f, base, next) == f = [k \in Nat |-> IF k = 0 THEN base ELSE next[f[k - 1]]]

\* A step can be taken over and over: the recursion of a loop defines something.
LEMMA IterationExists ==
  ASSUME NEW S, NEW next \in [S -> S], NEW base \in S
  PROVE  \E f \in [Nat -> S] : Iterates(f, base, next)
<1> DEFINE Upto(f, n) == /\ f \in [0..n -> S] /\ f[0] = base
                         /\ \A k \in 1..n : f[k] = next[f[k - 1]]
<1>1. ASSUME NEW n \in Nat PROVE \E f : Upto(f, n)
  <2> DEFINE C == {m \in Nat : ~ \E f : Upto(f, m)}
  <2>1. SUFFICES ASSUME C # {} PROVE FALSE
    OBVIOUS
  <2>2. PICK m \in C : \A l \in C : m <= l
    <3>1. C \in SUBSET Nat
      OBVIOUS
    <3> HIDE DEF C
    <3> QED
      BY <2>1, <3>1, SmallestNat
  <2>3. CASE m = 0
    <3>1. Upto([k \in 0..0 |-> base], 0)
      OBVIOUS
    <3> QED
      BY <2>3, <3>1
  <2>4. CASE m # 0
    <3>1. m - 1 \in Nat /\ m - 1 \notin C
      <4>1. m \in Nat
        OBVIOUS
      <4> HIDE DEF C
      <4> QED
        BY <2>2, <2>4, <4>1
    <3>2. PICK f : Upto(f, m - 1)
      BY <3>1
    <3> DEFINE g == [k \in 0..m |-> IF k = m THEN next[f[m - 1]] ELSE f[k]]
    <3>3. Upto(g, m)
      <4>1. m \in Nat /\ m - 1 \in 0..(m - 1)
        BY <3>1
      <4>2. g \in [0..m -> S] /\ g[0] = base
        BY <2>4, <3>2, <4>1
      <4>3. \A k \in 1..m : g[k] = next[g[k - 1]]
        BY <2>4, <3>2, <4>1
      <4> QED
        BY <4>2, <4>3
    <3> QED
      BY <3>3
  <2> QED
    BY <2>3, <2>4
<1>2. ASSUME NEW m \in Nat, NEW n \in Nat, NEW f, NEW g, Upto(f, m), Upto(g, n),
             NEW j \in Nat, j <= m, j <= n
      PROVE  f[j] = g[j]
  <2> DEFINE C == {k \in Nat : k <= m /\ k <= n /\ f[k] # g[k]}
  <2>1. SUFFICES ASSUME C # {} PROVE FALSE
    BY <1>2
  <2>2. PICK k \in C : \A l \in C : k <= l
    <3>1. C \in SUBSET Nat
      OBVIOUS
    <3> HIDE DEF C
    <3> QED
      BY <2>1, <3>1, SmallestNat
  <2>3. k # 0
    BY <1>2
  <2>4. k - 1 \in Nat /\ k - 1 \notin C
    BY <2>2, <2>3
  <2>5. f[k - 1] = g[k - 1]
    BY <2>4
  <2> QED
    BY <1>2, <2>3, <2>5
<1> DEFINE H(n) == CHOOSE f : Upto(f, n)
           F == [n \in Nat |-> H(n)[n]]
<1>3. \A n \in Nat : Upto(H(n), n)
  BY <1>1
<1> HIDE DEF H
<1>4. F \in [Nat -> S] /\ F[0] = base
  BY <1>3
<1>5. ASSUME NEW n \in Nat, n # 0 PROVE F[n] = next[F[n - 1]]
  <2>1. n - 1 \in Nat /\ n \in 1..n
    BY <1>5
  <2>2. H(n)[n] = next[H(n)[n - 1]]
    BY <1>3, <2>1
  <2>3. H(n)[n - 1] = H(n - 1)[n - 1]
    <3> HIDE DEF Upto
    <3> QED
      BY <1>2, <1>3, <2>1
  <2> QED
    BY <2>1, <2>2, <2>3
<1>6. F = [n \in Nat |-> IF n = 0 THEN base ELSE next[F[n - 1]]]
  <2>1. \A n \in Nat : F[n] = IF n = 0 THEN base ELSE next[F[n - 1]]
    BY <1>4, <1>5
  <2> HIDE DEF F
  <2> QED
    BY <1>4, <2>1
<1> QED
  BY <1>4, <1>6 DEF Iterates

LEMMA FirstInSet == ASSUME NEW S, S # {} PROVE First(S) \in S /\ Rest(S) \subseteq S /\ Rest(S) # S
BY DEF First, Rest

\* The partial sums of a subset do not depend on the set they were computed for.
LEMMA PartialSumsAgree ==
  ASSUME NEW S, NEW T, NEW f, NEW g, NEW h, PartialSums(g, f, S), PartialSums(h, f, T),
         NEW U, IsFiniteSet(U), U \subseteq S, U \subseteq T
  PROVE  g[U] = h[U]
<1> DEFINE C == {W \in SUBSET U : g[W] # h[W]}
<1>1. SUFFICES C = {}
  OBVIOUS
<1>2. SUFFICES ASSUME C # {} PROVE FALSE
  OBVIOUS
<1>3. PICK W \in C : \A V \in SUBSET W : V # W => V \notin C
  <2>1. C \in SUBSET (SUBSET U)
    OBVIOUS
  <2> HIDE DEF C
  <2> QED
    BY <1>2, <2>1, SmallestSubset
<1>4. \A V \in SUBSET U :
        /\ g[V] = IF V = {} THEN 0 ELSE f[First(V)] + g[Rest(V)]
        /\ h[V] = IF V = {} THEN 0 ELSE f[First(V)] + h[Rest(V)]
  BY DEF PartialSums
<1>5. W \in SUBSET U /\ g[W] # h[W]
  OBVIOUS
<1>6. W # {}
  BY <1>4, <1>5
<1>7. Rest(W) \in SUBSET W /\ Rest(W) # W
  BY <1>6, FirstInSet
<1>8. g[Rest(W)] = h[Rest(W)]
  BY <1>3, <1>5, <1>7
<1> QED
  BY <1>4, <1>5, <1>6, <1>8

\* The recursion of a fold over a finite set defines something.
LEMMA PartialSumsExist ==
  ASSUME NEW S, IsFiniteSet(S), NEW f
  PROVE  \E g : PartialSums(g, f, S)
<1> DEFINE C == {T \in SUBSET S : ~ \E g : PartialSums(g, f, T)}
<1>1. SUFFICES C = {}
  OBVIOUS
<1>2. SUFFICES ASSUME C # {} PROVE FALSE
  OBVIOUS
<1>3. PICK T \in C : \A U \in SUBSET T : U # T => U \notin C
  <2>1. C \in SUBSET (SUBSET S)
    OBVIOUS
  <2> HIDE DEF C
  <2> QED
    BY <1>2, <2>1, SmallestSubset
<1> DEFINE H(U) == CHOOSE g : PartialSums(g, f, U)
           G == [U \in SUBSET T |->
                   IF U = {} THEN 0 ELSE f[First(U)] + H(Rest(U))[Rest(U)]]
<1>4. T \in SUBSET S /\ ~ \E g : PartialSums(g, f, T)
  OBVIOUS
<1>5. ASSUME NEW U \in SUBSET T, U # T PROVE PartialSums(H(U), f, U)
  <2>1. \E g : PartialSums(g, f, U)
    BY <1>3, <1>4, <1>5
  <2> QED
    BY <2>1
<1>6. ASSUME NEW U \in SUBSET T, U # {} PROVE H(Rest(U))[Rest(U)] = G[Rest(U)]
  <2> DEFINE W == Rest(U)
  <2>1. W \in SUBSET T /\ W # T /\ IsFiniteSet(W)
    BY <1>4, <1>6, FirstInSet, FS_Subset
  <2>2. PartialSums(H(W), f, W)
    BY <1>5, <2>1
  <2>3. H(W)[W] = IF W = {} THEN 0 ELSE f[First(W)] + H(W)[Rest(W)]
    BY <2>2 DEF PartialSums
  <2>4. G[W] = IF W = {} THEN 0 ELSE f[First(W)] + H(Rest(W))[Rest(W)]
    BY <2>1
  <2> HIDE DEF H, G
  <2>5. CASE W = {}
    <3> HIDE DEF W
    <3>1. H(W)[W] = G[W]
      BY <2>3, <2>4, <2>5
    <3> QED
      BY <3>1 DEF W
  <2>6. CASE W # {}
    <3>1. Rest(W) \subseteq W /\ Rest(W) \in SUBSET T /\ Rest(W) # T /\ IsFiniteSet(Rest(W))
      BY <2>1, <2>6, FirstInSet, FS_Subset
    <3>2. PartialSums(H(Rest(W)), f, Rest(W))
      BY <1>5, <3>1
    <3> HIDE DEF W
    <3>3. H(W)[Rest(W)] = H(Rest(W))[Rest(W)]
      BY <2>2, <3>1, <3>2, PartialSumsAgree
    <3>4. H(W)[W] = G[W]
      BY <2>3, <2>4, <2>6, <3>3
    <3> QED
      BY <3>4 DEF W
  <2> QED
    BY <2>5, <2>6
<1>7. PartialSums(G, f, T)
  <2>1. G = [U \in SUBSET T |-> IF U = {} THEN 0 ELSE f[First(U)] + G[Rest(U)]]
    <3>1. \A U \in SUBSET T : (IF U = {} THEN 0 ELSE f[First(U)] + H(Rest(U))[Rest(U)])
                            = (IF U = {} THEN 0 ELSE f[First(U)] + G[Rest(U)])
      <4> HIDE DEF H, G
      <4> QED
        BY <1>6
    <3>2. G = [U \in SUBSET T |-> IF U = {} THEN 0 ELSE f[First(U)] + H(Rest(U))[Rest(U)]]
      OBVIOUS
    <3> HIDE DEF H, G
    <3> QED
      BY <3>1, <3>2
  <2> HIDE DEF G
  <2> QED
    BY <2>1 DEF PartialSums
<1> QED
  BY <1>4, <1>7

LEMMA SumOnIsPartialSum ==
  ASSUME NEW S, IsFiniteSet(S), NEW f
  PROVE  \E g : PartialSums(g, f, S) /\ SumOn(f, S) = g[S]
<1> DEFINE P(g) == g = [T \in SUBSET S |-> IF T = {} THEN 0
                                           ELSE LET x == CHOOSE y \in T : TRUE
                                                IN  f[x] + g[T \ {x}]]
<1>1. \A g : P(g) <=> PartialSums(g, f, S)
  BY DEF PartialSums, First, Rest
<1>2. SumOn(f, S) = (CHOOSE g : P(g))[S]
  BY DEF SumOn, SumFunctionOnSet, FoldFunctionOnSet, MapThenFoldSet
<1>3. PICK g : PartialSums(g, f, S)
  BY PartialSumsExist
<1> HIDE DEF P
<1>4. P(CHOOSE h : P(h))
  BY <1>1, <1>3
<1> QED
  BY <1>1, <1>2, <1>4

LEMMA SumOnEmpty == ASSUME NEW f PROVE SumOn(f, {}) = 0
<1>1. PICK g : PartialSums(g, f, {}) /\ SumOn(f, {}) = g[{}]
  BY SumOnIsPartialSum, FS_EmptySet
<1> QED
  BY <1>1 DEF PartialSums

\* The recursion itself.
LEMMA SumOnFirst ==
  ASSUME NEW S, IsFiniteSet(S), S # {}, NEW f
  PROVE  SumOn(f, S) = f[First(S)] + SumOn(f, Rest(S))
<1>1. Rest(S) \subseteq S /\ IsFiniteSet(Rest(S))
  BY FirstInSet, FS_Subset
<1>2. PICK g : PartialSums(g, f, S) /\ SumOn(f, S) = g[S]
  BY SumOnIsPartialSum
<1>3. PICK h : PartialSums(h, f, Rest(S)) /\ SumOn(f, Rest(S)) = h[Rest(S)]
  BY <1>1, SumOnIsPartialSum
<1>4. g[Rest(S)] = h[Rest(S)]
  BY <1>1, <1>2, <1>3, PartialSumsAgree
<1>5. g[S] = f[First(S)] + g[Rest(S)]
  BY <1>2 DEF PartialSums
<1> QED
  BY <1>2, <1>3, <1>4, <1>5

\* A sum of integers is an integer, and one of natural numbers is natural.
LEMMA SumOnType ==
  ASSUME NEW Num \in {Int, Nat},
         NEW S, IsFiniteSet(S), NEW f, \A x \in S : f[x] \in Num
  PROVE  SumOn(f, S) \in Num
<1> DEFINE C == {T \in SUBSET S : SumOn(f, T) \notin Num}
<1>1. SUFFICES ASSUME C # {} PROVE FALSE
  OBVIOUS
<1>2. PICK T \in C : \A U \in SUBSET T : U # T => U \notin C
  <2>1. C \in SUBSET (SUBSET S)
    OBVIOUS
  <2> HIDE DEF C
  <2> QED
    BY <1>1, <2>1, SmallestSubset
<1>3. T \in SUBSET S /\ SumOn(f, T) \notin Num /\ IsFiniteSet(T)
  BY FS_Subset
<1>4. T # {}
  BY <1>3, SumOnEmpty
<1>5. First(T) \in S /\ SumOn(f, Rest(T)) \in Num
  BY <1>2, <1>3, <1>4, FirstInSet
<1>6. SumOn(f, T) = f[First(T)] + SumOn(f, Rest(T))
  BY <1>3, <1>4, SumOnFirst
<1>7. \A a, b \in Num : a + b \in Num
  OBVIOUS
<1> QED
  BY <1>3, <1>5, <1>6, <1>7

\* Addition is commutative, so any element may be taken out, not only the first.
LEMMA SumOnRemove ==
  ASSUME NEW S, IsFiniteSet(S), NEW f, \A x \in S : f[x] \in Int
  PROVE  \A x \in S : SumOn(f, S) = f[x] + SumOn(f, S \ {x})
<1> DEFINE Bad(T) == \E x \in T : SumOn(f, T) # f[x] + SumOn(f, T \ {x})
           C == {T \in SUBSET S : Bad(T)}
<1>1. SUFFICES ASSUME C # {} PROVE FALSE
  OBVIOUS
<1>2. PICK T \in C : \A U \in SUBSET T : U # T => U \notin C
  <2>1. C \in SUBSET (SUBSET S)
    OBVIOUS
  <2> HIDE DEF C
  <2> QED
    BY <1>1, <2>1, SmallestSubset
<1>3. PICK x \in T : SumOn(f, T) # f[x] + SumOn(f, T \ {x})
  OBVIOUS
<1>4. T \in SUBSET S /\ IsFiniteSet(T) /\ T # {}
  BY FS_Subset
<1>5. PICK y \in T : SumOn(f, T) = f[y] + SumOn(f, T \ {y})
  BY <1>4, FirstInSet, SumOnFirst DEF Rest
<1>6. x # y
  BY <1>3, <1>5
<1>7. ~ Bad(T \ {x}) /\ ~ Bad(T \ {y})
  <2>1. T \ {x} \in SUBSET T /\ T \ {x} # T /\ T \ {y} \in SUBSET T /\ T \ {y} # T
    OBVIOUS
  <2>2. T \ {x} \in SUBSET S /\ T \ {y} \in SUBSET S
    BY <1>4
  <2> HIDE DEF Bad
  <2> QED
    BY <1>2, <2>1, <2>2
<1>8. /\ SumOn(f, T \ {y}) = f[x] + SumOn(f, (T \ {y}) \ {x})
      /\ SumOn(f, T \ {x}) = f[y] + SumOn(f, (T \ {x}) \ {y})
  BY <1>6, <1>7
<1>9. (T \ {y}) \ {x} = (T \ {x}) \ {y}
  OBVIOUS
<1>10. f[x] \in Int /\ f[y] \in Int /\ SumOn(f, (T \ {x}) \ {y}) \in Int
  <2>1. IsFiniteSet((T \ {x}) \ {y}) /\ (T \ {x}) \ {y} \in SUBSET S
    BY <1>4, FS_Subset
  <2>2. \A z \in (T \ {x}) \ {y} : f[z] \in Int
    BY <2>1
  <2>3. SumOn(f, (T \ {x}) \ {y}) \in Int
    BY <2>1, <2>2, SumOnType
  <2> QED
    BY <1>4, <2>3
<1> DEFINE rest == SumOn(f, (T \ {x}) \ {y})
<1>11. SumOn(f, T) = f[y] + (f[x] + rest) /\ SumOn(f, T \ {x}) = f[y] + rest
  BY <1>5, <1>8, <1>9
<1> HIDE DEF C, Bad, rest
<1>12. f[y] + (f[x] + rest) = f[x] + (f[y] + rest)
  BY <1>10 DEF rest
<1> QED
  BY <1>3, <1>11, <1>12

\* A sum grows by what is put in.
LEMMA SumOnAdd ==
  ASSUME NEW S, IsFiniteSet(S), NEW f, NEW x, x \notin S, \A y \in S \cup {x} : f[y] \in Int
  PROVE  SumOn(f, S \cup {x}) = SumOn(f, S) + f[x]
<1>1. IsFiniteSet(S \cup {x}) /\ (S \cup {x}) \ {x} = S
  BY FS_AddElement
<1>2. SumOn(f, S \cup {x}) = f[x] + SumOn(f, S)
  <2>1. \A y \in S \cup {x} :
          SumOn(f, S \cup {x}) = f[y] + SumOn(f, (S \cup {x}) \ {y})
    BY <1>1, SumOnRemove
  <2>2. SumOn(f, S \cup {x}) = f[x] + SumOn(f, (S \cup {x}) \ {x})
    BY <2>1
  <2> QED
    BY <1>1, <2>2
<1>3. SumOn(f, S) \in Int /\ f[x] \in Int
  BY SumOnType
<1> QED
  BY <1>1, <1>2, <1>3

\* Only the values on the set matter.
LEMMA SumOnSame ==
  ASSUME NEW S, IsFiniteSet(S), NEW f, NEW g, \A x \in S : f[x] = g[x]
  PROVE  SumOn(f, S) = SumOn(g, S)
<1> DEFINE C == {T \in SUBSET S : SumOn(f, T) # SumOn(g, T)}
<1>1. SUFFICES ASSUME C # {} PROVE FALSE
  OBVIOUS
<1>2. PICK T \in C : \A U \in SUBSET T : U # T => U \notin C
  <2>1. C \in SUBSET (SUBSET S)
    OBVIOUS
  <2> HIDE DEF C
  <2> QED
    BY <1>1, <2>1, SmallestSubset
<1>3. T \in SUBSET S /\ SumOn(f, T) # SumOn(g, T) /\ IsFiniteSet(T)
  BY FS_Subset
<1>4. T # {}
  BY <1>3, SumOnEmpty
<1>5. First(T) \in S /\ SumOn(f, Rest(T)) = SumOn(g, Rest(T))
  BY <1>2, <1>3, <1>4, FirstInSet
<1> QED
  BY <1>3, <1>4, <1>5, SumOnFirst

\* The larger the terms, the larger the sum.
LEMMA SumOnMonotonic ==
  ASSUME NEW S, IsFiniteSet(S), NEW f, NEW g,
         \A x \in S : f[x] \in Int /\ g[x] \in Int /\ f[x] <= g[x]
  PROVE  SumOn(f, S) <= SumOn(g, S)
<1> DEFINE C == {T \in SUBSET S : ~ (SumOn(f, T) <= SumOn(g, T))}
<1>1. SUFFICES ASSUME C # {} PROVE FALSE
  OBVIOUS
<1>2. PICK T \in C : \A U \in SUBSET T : U # T => U \notin C
  <2>1. C \in SUBSET (SUBSET S)
    OBVIOUS
  <2> HIDE DEF C
  <2> QED
    BY <1>1, <2>1, SmallestSubset
<1>3. T \in SUBSET S /\ ~ (SumOn(f, T) <= SumOn(g, T)) /\ IsFiniteSet(T)
  BY FS_Subset
<1>4. T # {}
  BY <1>3, SumOnEmpty
<1>5. /\ First(T) \in S /\ Rest(T) \subseteq S /\ IsFiniteSet(Rest(T))
      /\ SumOn(f, Rest(T)) <= SumOn(g, Rest(T))
  BY <1>2, <1>3, <1>4, FirstInSet, FS_Subset
<1>6. SumOn(f, Rest(T)) \in Int /\ SumOn(g, Rest(T)) \in Int
  BY <1>5, SumOnType
<1>7. /\ SumOn(f, T) = f[First(T)] + SumOn(f, Rest(T))
      /\ SumOn(g, T) = g[First(T)] + SumOn(g, Rest(T))
  BY <1>3, <1>4, SumOnFirst
<1> QED
  BY <1>3, <1>5, <1>6, <1>7

\* A part does not sum to more than the whole.
LEMMA SumOnPart ==
  ASSUME NEW S, IsFiniteSet(S), NEW f, \A x \in S : f[x] \in Nat, NEW P \in SUBSET S
  PROVE  SumOn(f, P) <= SumOn(f, S)
<1> DEFINE C == {T \in SUBSET S : P \subseteq T /\ ~ (SumOn(f, P) <= SumOn(f, T))}
<1>0. \A T \in SUBSET S : IsFiniteSet(T) /\ SumOn(f, T) \in Nat
  BY FS_Subset, SumOnType
<1>1. SUFFICES ASSUME C # {} PROVE FALSE
  OBVIOUS
<1>2. PICK T \in C : \A U \in SUBSET T : U # T => U \notin C
  <2>1. C \in SUBSET (SUBSET S)
    OBVIOUS
  <2> HIDE DEF C
  <2> QED
    BY <1>1, <2>1, SmallestSubset
<1>3. T \in SUBSET S /\ P \subseteq T /\ ~ (SumOn(f, P) <= SumOn(f, T))
  OBVIOUS
<1>4. SumOn(f, P) \in Nat /\ SumOn(f, T) \in Nat /\ IsFiniteSet(T)
  BY <1>0, <1>3
<1>5. PICK x \in T : x \notin P
  BY <1>3, <1>4
<1>6. SumOn(f, P) <= SumOn(f, T \ {x}) /\ SumOn(f, T \ {x}) \in Nat
  BY <1>0, <1>2, <1>3, <1>5
<1>7. SumOn(f, T) = f[x] + SumOn(f, T \ {x})
  <2>1. \A y \in T : f[y] \in Int
    BY <1>3
  <2> QED
    BY <1>4, <2>1, SumOnRemove
<1>8. f[x] \in Nat
  BY <1>3
<1> HIDE DEF C
<1> QED
  BY <1>3, <1>4, <1>6, <1>7, <1>8
=============================================================================
