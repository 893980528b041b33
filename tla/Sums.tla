-------------------------------- MODULE Sums --------------------------------
(***************************************************************************)
(* Sums of a function over a finite set, for the proofs about stock and    *)
(* about rate limits.  MapThenSumSet of the community modules takes the    *)
(* elements one by one in an order of its own; the lemmas say that the     *)
(* order does not matter.  Each induction is an argument by a smallest     *)
(* counterexample (SmallestSet): the induction theorems of the library     *)
(* take the property as an operator, which the provers cannot instantiate. *)
(***************************************************************************)
EXTENDS Integers, FiniteSetsExt, FiniteSetTheorems, WellFoundedInduction, TLAPS

Total(w, S) == MapThenSumSet(LAMBDA x : w[x], S)

\* h sums w up over every subset of S, whichever element is taken first.
Additive(w, h, S) ==
    /\ h \in [SUBSET S -> Nat]
    /\ h[{}] = 0
    /\ \A U \in SUBSET S : \A x \in U : h[U] = w[x] + h[U \ {x}]

\* Of any sets of elements of a finite set, one is smallest.
LEMMA SmallestSet ==
  ASSUME NEW S, IsFiniteSet(S), NEW F \in SUBSET SUBSET S, F # {}
  PROVE  \E U \in F : \A V \in F : V \subseteq U => V = U
  <1>1. F \subseteq FiniteSubsetsOf(S)
    BY FS_Subset DEF FiniteSubsetsOf
  <1>2. PICK U \in F : \A V \in F : ~(<<V, U>> \in StrictSubsetOrdering(S))
    BY <1>1, FS_StrictSubsetOrderingWellFounded, WFMin
  <1> QED
    BY <1>2 DEF StrictSubsetOrdering

\* Of any numbers one is least.
LEMMA LeastNumber ==
  ASSUME NEW F \in SUBSET Nat, F # {} PROVE \E m \in F : \A k \in F : ~(k < m)
  <1>1. PICK n \in F : TRUE
    OBVIOUS
  <1> DEFINE S == 0 .. n
             G == {U \in SUBSET S : \E m \in F : U = 0 .. m}
  <1>2. S \in G /\ IsFiniteSet(S)
    BY <1>1, FS_Interval
  <1>3. PICK U \in G : \A V \in G : V \subseteq U => V = U
    <2> HIDE DEF S
    <2>1. G # {} /\ G \in SUBSET SUBSET S
      BY <1>2
    <2> HIDE DEF G
    <2> QED
      BY <1>2, <2>1, SmallestSet
  <1>4. PICK m \in F : U = 0 .. m
    BY <1>3
  <1>5. ASSUME NEW k \in F, k < m PROVE FALSE
    <2>1. 0 .. k \subseteq U /\ m \notin 0 .. k /\ m \in U
      BY <1>4, <1>5
    <2>2. 0 .. k \in G
      BY <1>3, <1>5, <2>1
    <2> QED
      BY <1>3, <2>1, <2>2
  <1> QED
    BY <1>5

\* There is such an h: with one element more it is told apart by that element.
LEMMA AdditiveExists ==
  ASSUME NEW S, IsFiniteSet(S), NEW w \in [S -> Nat]
  PROVE  \E h : Additive(w, h, S)
  <1> DEFINE F == {T \in SUBSET S : ~ \E h : Additive(w, h, T)}
  <1>1. SUFFICES ASSUME F # {} PROVE FALSE
    OBVIOUS
  <1>2. PICK U \in F : \A V \in F : V \subseteq U => V = U
    <2>1. F \in SUBSET SUBSET S
      OBVIOUS
    <2> HIDE DEF F
    <2> QED
      BY <1>1, <2>1, SmallestSet
  <1>3. CASE U = {}
    <2>1. Additive(w, [X \in {{}} |-> 0], {})
      BY DEF Additive
    <2> QED
      BY <1>3, <2>1
  <1>4. ASSUME NEW x \in U PROVE FALSE
    <2>1. PICK h : Additive(w, h, U \ {x})
      BY <1>2, <1>4
    <2> DEFINE g == [X \in SUBSET U |-> IF x \in X THEN w[x] + h[X \ {x}] ELSE h[X]]
    <2>2. \A X \in SUBSET U : /\ X \ {x} \in SUBSET (U \ {x})
                              /\ x \notin X => X \in SUBSET (U \ {x})
      OBVIOUS
    <2>3. w[x] \in Nat /\ U \subseteq S
      BY <1>4
    <2>4. \A X \in SUBSET U : g[X] \in Nat
      BY <2>1, <2>2, <2>3 DEF Additive
    <2>5. ASSUME NEW X \in SUBSET U, NEW y \in X PROVE g[X] = w[y] + g[X \ {y}]
      <3>1. CASE x \notin X
        BY <2>1, <2>2, <3>1 DEF Additive
      <3>2. CASE x \in X /\ y = x
        BY <3>2
      <3>3. CASE x \in X /\ y # x
        <4>1. h[X \ {x}] = w[y] + h[(X \ {x}) \ {y}]
          BY <2>1, <2>2, <3>3 DEF Additive
        <4>2. (X \ {x}) \ {y} = (X \ {y}) \ {x}
          OBVIOUS
        <4>3. h[(X \ {y}) \ {x}] \in Nat /\ w[y] \in Nat
          BY <2>1, <2>2, <2>3 DEF Additive
        <4>4. g[X] = w[x] + h[X \ {x}] /\ g[X \ {y}] = w[x] + h[(X \ {y}) \ {x}]
          BY <3>3
        <4>5. \A a, b, c \in Nat : a + (b + c) = b + (a + c)
          OBVIOUS
        <4>6. g[X] = w[x] + (w[y] + h[(X \ {y}) \ {x}])
          BY <4>1, <4>2, <4>4
        <4> HIDE DEF g, F
        <4> QED
          BY <2>3, <4>3, <4>4, <4>5, <4>6
      <3> QED
        BY <3>1, <3>2, <3>3
    <2>6. g[{}] = 0
      BY <2>1 DEF Additive
    <2>7. Additive(w, g, U)
      BY <2>4, <2>5, <2>6 DEF Additive
    <2> QED
      BY <2>7
  <1> QED
    BY <1>2, <1>3, <1>4

\* The sum the community module computes is that one.
LEMMA TotalIsAdditive ==
  ASSUME NEW S, IsFiniteSet(S), NEW w \in [S -> Nat], NEW h, Additive(w, h, S), NEW T \in SUBSET S
  PROVE  Total(w, T) = h[T]
  <1> DEFINE Pick(U) == CHOOSE x \in U : TRUE
             Eq(g) == g = [U \in SUBSET T |-> IF U = {} THEN 0 ELSE w[Pick(U)] + g[U \ {Pick(U)}]]
             iter == CHOOSE g : Eq(g)
  <1>1. Total(w, T) = iter[T]
    BY DEF Total, MapThenSumSet, MapThenFoldSet
  <1>2. \A U \in SUBSET T : U # {} => Pick(U) \in U
    OBVIOUS
  <1>3. Eq([U \in SUBSET T |-> h[U]])
    BY <1>2 DEF Additive
  <1>4. Eq(iter)
    BY <1>3
  <1> DEFINE F == {U \in SUBSET T : iter[U] # h[U]}
  <1>5. SUFFICES ASSUME F # {} PROVE FALSE
    BY <1>1
  <1>6. PICK U \in F : \A V \in F : V \subseteq U => V = U
    <2>1. F \in SUBSET SUBSET T /\ IsFiniteSet(T)
      BY FS_Subset
    <2> HIDE DEF F
    <2> QED
      BY <1>5, <2>1, SmallestSet
  <1>7. CASE U = {}
    BY <1>4, <1>6, <1>7 DEF Additive
  <1>8. CASE U # {}
    <2>1. Pick(U) \in U
      BY <1>8
    <2>2. iter[U \ {Pick(U)}] = h[U \ {Pick(U)}]
      <3> HIDE DEF iter, Pick
      <3>1. U \ {Pick(U)} \in SUBSET T /\ U \ {Pick(U)} \subseteq U /\ U \ {Pick(U)} # U
        BY <1>6, <2>1
      <3> QED
        BY <1>6, <3>1
    <2>3. iter[U] = w[Pick(U)] + iter[U \ {Pick(U)}]
      BY <1>4, <1>6, <1>8
    <2>4. h[U] = w[Pick(U)] + h[U \ {Pick(U)}]
      BY <1>6, <2>1 DEF Additive
    <2> QED
      BY <1>6, <2>2, <2>3, <2>4
  <1> QED
    BY <1>7, <1>8

\* A sum is a number, and any element may be taken out of it or put into it.
LEMMA TotalByElement ==
  ASSUME NEW S, IsFiniteSet(S), NEW w \in [S -> Nat]
  PROVE  /\ \A T \in SUBSET S : Total(w, T) \in Nat
         /\ Total(w, {}) = 0
         /\ \A T \in SUBSET S : \A x \in T : Total(w, T) = w[x] + Total(w, T \ {x})
         /\ \A T \in SUBSET S : \A x \in S \ T : Total(w, T \cup {x}) = w[x] + Total(w, T)
  <1>1. PICK h : Additive(w, h, S)
    BY AdditiveExists
  <1>2. \A T \in SUBSET S : Total(w, T) = h[T]
    BY <1>1, TotalIsAdditive
  <1>3. ASSUME NEW T \in SUBSET S, NEW x \in S \ T
        PROVE  Total(w, T \cup {x}) = w[x] + Total(w, T)
    <2>1. (T \cup {x}) \ {x} = T /\ T \cup {x} \in SUBSET S
      OBVIOUS
    <2> QED
      BY <1>1, <1>2, <2>1 DEF Additive
  <1> QED
    BY <1>1, <1>2, <1>3 DEF Additive

\* Smaller values make a smaller sum; equal values make the same.
LEMMA TotalMonotone ==
  ASSUME NEW S, IsFiniteSet(S), NEW w \in [S -> Nat], NEW v \in [S -> Nat],
         NEW T \in SUBSET S, \A x \in T : w[x] <= v[x]
  PROVE  Total(w, T) <= Total(v, T)
  <1> DEFINE F == {U \in SUBSET T : ~(Total(w, U) <= Total(v, U))}
  <1>1. SUFFICES ASSUME F # {} PROVE FALSE
    OBVIOUS
  <1>2. PICK U \in F : \A V \in F : V \subseteq U => V = U
    <2>1. F \in SUBSET SUBSET T /\ IsFiniteSet(T)
      BY FS_Subset
    <2> HIDE DEF F
    <2> QED
      BY <1>1, <2>1, SmallestSet
  <1>3. U # {}
    <2>1. Total(w, {}) = 0 /\ Total(v, {}) = 0
      BY TotalByElement
    <2>2. ~(Total(w, U) <= Total(v, U))
      BY <1>2
    <2> HIDE DEF F
    <2> QED
      BY <2>1, <2>2
  <1>4. PICK x \in U : TRUE
    BY <1>3
  <1>5. Total(w, U \ {x}) <= Total(v, U \ {x})
    BY <1>2, <1>4
  <1>6. /\ Total(w, U) = w[x] + Total(w, U \ {x})
        /\ Total(v, U) = v[x] + Total(v, U \ {x})
        /\ Total(w, U \ {x}) \in Nat /\ Total(v, U \ {x}) \in Nat
    BY <1>2, <1>4, TotalByElement
  <1>7. w[x] \in Nat /\ v[x] \in Nat /\ w[x] <= v[x]
    BY <1>2, <1>4
  <1> QED
    BY <1>2, <1>5, <1>6, <1>7

\* More elements make a greater sum.
LEMMA TotalOfSubset ==
  ASSUME NEW S, IsFiniteSet(S), NEW w \in [S -> Nat], NEW T \in SUBSET S, NEW U \in SUBSET T
  PROVE  Total(w, U) <= Total(w, T)
  <1> DEFINE F == {V \in SUBSET T : U \subseteq V /\ ~(Total(w, U) <= Total(w, V))}
  <1>1. SUFFICES ASSUME F # {} PROVE FALSE
    OBVIOUS
  <1>2. PICK V \in F : \A X \in F : X \subseteq V => X = V
    <2>1. F \in SUBSET SUBSET T /\ IsFiniteSet(T)
      BY FS_Subset
    <2> HIDE DEF F
    <2> QED
      BY <1>1, <2>1, SmallestSet
  <1>3. Total(w, U) \in Nat
    BY TotalByElement
  <1>4. PICK x \in V : x \notin U
    BY <1>2, <1>3
  <1>5. Total(w, U) <= Total(w, V \ {x})
    BY <1>2, <1>4
  <1>6. Total(w, V) = w[x] + Total(w, V \ {x}) /\ Total(w, V \ {x}) \in Nat
    BY <1>2, <1>4, TotalByElement
  <1>7. w[x] \in Nat
    BY <1>2, <1>4
  <1> QED
    BY <1>2, <1>3, <1>5, <1>6, <1>7

\* Parts that have no element in common add up.
LEMMA TotalOfUnion ==
  ASSUME NEW S, IsFiniteSet(S), NEW w \in [S -> Nat], NEW U \in SUBSET S, NEW V \in SUBSET S, U \cap V = {}
  PROVE  Total(w, U \cup V) = Total(w, U) + Total(w, V)
  <1> DEFINE F == {X \in SUBSET V : Total(w, U \cup X) # Total(w, U) + Total(w, X)}
  <1>1. SUFFICES ASSUME F # {} PROVE FALSE
    OBVIOUS
  <1>2. PICK X \in F : \A Y \in F : Y \subseteq X => Y = X
    <2>1. F \in SUBSET SUBSET V /\ IsFiniteSet(V)
      BY FS_Subset
    <2> HIDE DEF F
    <2> QED
      BY <1>1, <2>1, SmallestSet
  <1>3. Total(w, U) \in Nat /\ Total(w, {}) = 0
    BY TotalByElement
  <1>4. PICK x \in X : TRUE
    <2>1. X # {}
      <3>1. Total(w, U \cup X) # Total(w, U) + Total(w, X)
        BY <1>2
      <3>2. X = {} => U \cup X = U /\ Total(w, X) = 0
        BY <1>3
      <3>3. Total(w, U) = Total(w, U) + 0
        BY <1>3
      <3> HIDE DEF F
      <3> QED
        BY <3>1, <3>2, <3>3
    <2> QED
      BY <2>1
  <1>5. Total(w, U \cup (X \ {x})) = Total(w, U) + Total(w, X \ {x})
    BY <1>2, <1>4
  <1>6. /\ Total(w, X) = w[x] + Total(w, X \ {x})
        /\ Total(w, X \ {x}) \in Nat /\ w[x] \in Nat
    BY <1>2, <1>4, TotalByElement, SMTT(30)
  <1>7. Total(w, U \cup X) = w[x] + Total(w, U \cup (X \ {x}))
    <2>1. U \cup X \in SUBSET S /\ x \in U \cup X /\ (U \cup X) \ {x} = U \cup (X \ {x})
      BY <1>2, <1>4
    <2> QED
      BY <2>1, TotalByElement
  <1>8. Total(w, U \cup X) # Total(w, U) + Total(w, X)
    BY <1>2
  <1> HIDE DEF F
  <1> QED
    BY <1>3, <1>5, <1>6, <1>7, <1>8

\* Nothing adds up to nothing.
LEMMA TotalOfZeros ==
  ASSUME NEW S, IsFiniteSet(S), NEW w \in [S -> Nat], NEW T \in SUBSET S, \A x \in T : w[x] = 0
  PROVE  Total(w, T) = 0
  <1> DEFINE F == {X \in SUBSET T : Total(w, X) # 0}
  <1>1. SUFFICES ASSUME F # {} PROVE FALSE
    OBVIOUS
  <1>2. PICK X \in F : \A Y \in F : Y \subseteq X => Y = X
    <2>1. F \in SUBSET SUBSET T /\ IsFiniteSet(T)
      BY FS_Subset
    <2> HIDE DEF F
    <2> QED
      BY <1>1, <2>1, SmallestSet
  <1>3. Total(w, X) # 0
    BY <1>2
  <1>4. PICK x \in X : TRUE
    BY <1>3, TotalByElement
  <1>5. Total(w, X \ {x}) = 0 /\ w[x] = 0
    BY <1>2, <1>4
  <1>6. Total(w, X) = w[x] + Total(w, X \ {x})
    BY <1>2, <1>4, TotalByElement
  <1> QED
    BY <1>3, <1>5, <1>6

\* What adds up from parts that are bounded is bounded.
LEMMA TotalIsBounded ==
  ASSUME NEW S, IsFiniteSet(S), NEW w \in [S -> Nat], NEW m \in Nat, \A x \in S : w[x] <= m
  PROVE  Total(w, S) <= Cardinality(S) * m
  <1> DEFINE F == {X \in SUBSET S : ~(Total(w, X) <= Cardinality(X) * m)}
  <1>1. SUFFICES ASSUME F # {} PROVE FALSE
    OBVIOUS
  <1>2. PICK X \in F : \A Y \in F : Y \subseteq X => Y = X
    <2>1. F \in SUBSET SUBSET S
      OBVIOUS
    <2> HIDE DEF F
    <2> QED
      BY <1>1, <2>1, SmallestSet
  <1>3. X \in SUBSET S /\ IsFiniteSet(X) /\ ~(Total(w, X) <= Cardinality(X) * m)
    BY <1>2, FS_Subset
  <1>4. PICK x \in X : TRUE
    <2>1. SUFFICES ASSUME X = {} PROVE FALSE
      OBVIOUS
    <2>2. Total(w, X) = 0 /\ Cardinality(X) = 0
      BY <2>1, TotalByElement, FS_EmptySet
    <2> QED
      BY <1>3, <2>2
  <1> DEFINE c == Cardinality(X \ {x})
  <1>5. c \in Nat /\ Cardinality(X) = c + 1
    <2>1. IsFiniteSet(X \ {x}) /\ Cardinality(X \ {x}) = Cardinality(X) - 1 /\ Cardinality(X) \in Nat
      BY <1>3, <1>4, FS_RemoveElement, FS_CardinalityType
    <2> QED
      BY <2>1, FS_CardinalityType
  <1>6. Total(w, X \ {x}) <= c * m
    <2>1. X \ {x} \in SUBSET S /\ X \ {x} # X
      BY <1>3, <1>4
    <2> QED
      BY <1>2, <2>1
  <1>7. Total(w, X) = w[x] + Total(w, X \ {x}) /\ Total(w, X \ {x}) \in Nat
    BY <1>3, <1>4, TotalByElement
  <1>8. w[x] \in Nat /\ w[x] <= m
    BY <1>3, <1>4
  <1> HIDE DEF c
  <1>9. (c + 1) * m = c * m + m /\ c * m \in Nat
    BY <1>5
  <1> QED
    BY <1>3, <1>5, <1>6, <1>7, <1>8, <1>9

\* Equal parts add up to a product.
LEMMA TotalOfEquals ==
  ASSUME NEW S, IsFiniteSet(S), NEW w \in [S -> Nat], NEW m \in Nat, \A x \in S : w[x] = m
  PROVE  Total(w, S) = Cardinality(S) * m
  <1> DEFINE F == {X \in SUBSET S : Total(w, X) # Cardinality(X) * m}
  <1>1. SUFFICES ASSUME F # {} PROVE FALSE
    OBVIOUS
  <1>2. PICK X \in F : \A Y \in F : Y \subseteq X => Y = X
    <2>1. F \in SUBSET SUBSET S
      OBVIOUS
    <2> HIDE DEF F
    <2> QED
      BY <1>1, <2>1, SmallestSet
  <1>3. X \in SUBSET S /\ IsFiniteSet(X) /\ Total(w, X) # Cardinality(X) * m
    BY <1>2, FS_Subset
  <1>4. PICK x \in X : TRUE
    <2>1. SUFFICES ASSUME X = {} PROVE FALSE
      OBVIOUS
    <2>2. Total(w, X) = 0 /\ Cardinality(X) = 0
      BY <2>1, TotalByElement, FS_EmptySet
    <2> QED
      BY <1>3, <2>2
  <1> DEFINE c == Cardinality(X \ {x})
  <1>5. c \in Nat /\ Cardinality(X) = c + 1
    <2>1. IsFiniteSet(X \ {x}) /\ Cardinality(X \ {x}) = Cardinality(X) - 1 /\ Cardinality(X) \in Nat
      BY <1>3, <1>4, FS_RemoveElement, FS_CardinalityType
    <2> QED
      BY <2>1, FS_CardinalityType
  <1>6. Total(w, X \ {x}) = c * m
    <2>1. X \ {x} \in SUBSET S /\ X \ {x} # X
      BY <1>3, <1>4
    <2> QED
      BY <1>2, <2>1
  <1>7. Total(w, X) = w[x] + Total(w, X \ {x})
    BY <1>3, <1>4, TotalByElement
  <1>8. w[x] = m
    BY <1>3, <1>4
  <1> HIDE DEF c
  <1>9. (c + 1) * m = c * m + m /\ c * m \in Nat
    BY <1>5
  <1> QED
    BY <1>3, <1>5, <1>6, <1>7, <1>8, <1>9

\* One part grows, the others stay.
LEMMA TotalOfOneMore ==
  ASSUME NEW S, IsFiniteSet(S), NEW w \in [S -> Nat], NEW x \in S, NEW n \in Nat
  PROVE  Total([w EXCEPT ![x] = @ + n], S) = Total(w, S) + n
  <1> DEFINE v == [w EXCEPT ![x] = @ + n]
             rest == S \ {x}
  <1>1. v \in [S -> Nat] /\ v[x] = w[x] + n /\ \A y \in rest : v[y] = w[y]
    OBVIOUS
  <1> HIDE DEF v
  <1>2. Total(v, S) = v[x] + Total(v, rest) /\ Total(w, S) = w[x] + Total(w, rest)
    BY <1>1, TotalByElement
  <1>3. Total(v, rest) \in Nat /\ Total(w, rest) \in Nat
    BY <1>1, TotalByElement
  <1>4. \A y \in rest : v[y] \in Nat /\ w[y] \in Nat /\ v[y] = w[y]
    BY <1>1
  <1>5. Total(v, rest) <= Total(w, rest) /\ Total(w, rest) <= Total(v, rest)
    <2>1. rest \in SUBSET S /\ \A y \in rest : v[y] <= w[y] /\ w[y] <= v[y]
      BY <1>4
    <2> HIDE DEF rest
    <2> QED
      BY <1>1, <2>1, TotalMonotone
  <1>6. w[x] \in Nat
    OBVIOUS
  <1> QED
    BY <1>1, <1>2, <1>3, <1>5, <1>6 DEF v
==============================================================================
