----------------------------- MODULE SumProofs -----------------------------
(***************************************************************************)
(* Facts about finite sums.  A sum is the number of units the members of a *)
(* set hold, so what is known of cardinalities is known of sums: the       *)
(* recursive function that computes a sum is shown to count units, by      *)
(* taking a smallest set for which it would not.                           *)
(***************************************************************************)
EXTENDS Functions, FiniteSetTheorems, TLAPS

\* One pair for each unit a member holds.
Units(f, S) == UNION {{x} \X (1 .. f[x]) : x \in S}

LEMMA UnitsOfOne ==
    ASSUME NEW x, NEW f, f[x] \in Nat
    PROVE  /\ IsFiniteSet({x} \X (1 .. f[x]))
           /\ Cardinality({x} \X (1 .. f[x])) = f[x]
  <1>1. IsFiniteSet({x}) /\ Cardinality({x}) = 1
    BY FS_Singleton
  <1>2. IsFiniteSet(1 .. f[x]) /\ Cardinality(1 .. f[x]) = f[x]
    BY FS_Interval
  <1>3. /\ IsFiniteSet({x} \X (1 .. f[x]))
        /\ Cardinality({x} \X (1 .. f[x])) = Cardinality({x}) * Cardinality(1 .. f[x])
    BY <1>1, <1>2, FS_Product, Zenon
  <1> QED
    BY <1>1, <1>2, <1>3

LEMMA UnitsFinite ==
    ASSUME NEW S, IsFiniteSet(S), NEW f, \A x \in S : f[x] \in Nat
    PROVE  IsFiniteSet(Units(f, S))
  <1> DEFINE part == [x \in S |-> {x} \X (1 .. f[x])]
             parts == {{x} \X (1 .. f[x]) : x \in S}
  <1>1. part \in Surjection(S, parts)
    BY DEF Surjection
  <1>2. IsFiniteSet(parts)
    BY <1>1, FS_Surjection
  <1>3. ASSUME NEW x \in S PROVE IsFiniteSet({x} \X (1 .. f[x]))
    BY UnitsOfOne
  <1>4. \A T \in parts : IsFiniteSet(T)
    BY <1>3
  <1> QED
    BY <1>2, <1>4, FS_UNION DEF Units

\* Leaving one member out takes away what it holds.
LEMMA UnitsLess ==
    ASSUME NEW S, IsFiniteSet(S), NEW f, \A y \in S : f[y] \in Nat, NEW x \in S
    PROVE  Cardinality(Units(f, S)) = f[x] + Cardinality(Units(f, S \ {x}))
  <1> DEFINE one == {x} \X (1 .. f[x])
             rest == Units(f, S \ {x})
  <1>1. IsFiniteSet(one) /\ Cardinality(one) = f[x]
    BY UnitsOfOne
  <1>2. IsFiniteSet(S \ {x})
    BY FS_RemoveElement
  <1>3. IsFiniteSet(rest)
    BY <1>2, UnitsFinite
  <1>4. Units(f, S) = one \cup rest
    BY Zenon DEF Units
  <1>5. one \cap rest = {}
    BY DEF Units
  <1>6. Cardinality(one \cap rest) = 0
    BY <1>5, FS_EmptySet
  <1>7. Cardinality(one) \in Nat /\ Cardinality(rest) \in Nat
    BY <1>1, <1>3, FS_CardinalityType
  <1> HIDE DEF one, rest
  <1>8. Cardinality(one \cup rest) = Cardinality(one) + Cardinality(rest) - Cardinality(one \cap rest)
    BY <1>1, <1>3, FS_Union
  <1> QED
    BY <1>1, <1>4, <1>6, <1>7, <1>8 DEF rest

\* Every nonempty set of naturals has a least member.
LEMMA Least ==
    ASSUME NEW T \in SUBSET Nat, T # {}
    PROVE  \E m \in T : \A n \in T : m <= n
  <1> DEFINE R == OpToRel(<, Nat)
  <1>1. IsWellFoundedOn(R, Nat)
    BY NatLessThanWellFounded
  <1>2. \A x, y \in Nat : <<x, y>> \in R <=> x < y
    BY DEF OpToRel
  <1> HIDE DEF R
  <1>3. PICK m \in T : \A y \in T : <<y, m>> \notin R
    BY <1>1, WFMin, Zenon
  <1>4. ASSUME NEW n \in T PROVE m <= n
    <2>1. <<n, m>> \notin R /\ n \in Nat /\ m \in Nat
      BY <1>3
    <2> QED
      BY <1>2, <2>1
  <1> QED
    BY <1>4

\* A nonempty set of naturals with an upper bound has a greatest member.
LEMMA Most ==
    ASSUME NEW T \in SUBSET Nat, T # {}, NEW b \in Nat, \A n \in T : n <= b
    PROVE  \E m \in T : \A n \in T : n <= m
  <1> DEFINE D == {b - n : n \in T}
  <1>1. \A n \in T : n \in Nat /\ b - n \in Nat
    OBVIOUS
  <1>2. D \in SUBSET Nat /\ D # {}
    BY <1>1
  <1>3. PICK d \in D : \A e \in D : d <= e
    BY <1>2, Least
  <1>4. PICK m \in T : d = b - m
    OBVIOUS
  <1>5. ASSUME NEW n \in T PROVE n <= m
    BY <1>1, <1>3, <1>4
  <1> QED
    BY <1>5

\* The recursive function a sum is computed by counts units.
LEMMA SumIsCount ==
    ASSUME NEW S, IsFiniteSet(S), NEW f, \A x \in S : f[x] \in Nat
    PROVE  SumFunctionOnSet(f, S) = Cardinality(Units(f, S))
  <1> DEFINE any(s) == CHOOSE x \in s : TRUE
             iter == [s \in SUBSET S |-> Cardinality(Units(f, s))]
             Sums(g) == g = [s \in SUBSET S |->
                               IF s = {} THEN 0 ELSE f[any(s)] + g[s \ {any(s)}]]
  <1>1. Units(f, {}) = {}
    BY DEF Units
  <1>2. ASSUME NEW s \in SUBSET S, s # {}
        PROVE  /\ any(s) \in s /\ s \ {any(s)} \in SUBSET S
               /\ Cardinality(Units(f, s)) = f[any(s)] + Cardinality(Units(f, s \ {any(s)}))
    <2>1. any(s) \in s
      BY <1>2
    <2>2. IsFiniteSet(s)
      BY FS_Subset
    <2> HIDE DEF any
    <2> QED
      BY <2>1, <2>2, UnitsLess
  <1>3. Sums(iter)
    <2> HIDE DEF any
    <2>1. ASSUME NEW s \in SUBSET S
          PROVE  iter[s] = IF s = {} THEN 0 ELSE f[any(s)] + iter[s \ {any(s)}]
      BY <1>1, <1>2, FS_EmptySet
    <2> QED
      BY <2>1
  <1>4. ASSUME NEW g, Sums(g) PROVE g[S] = iter[S]
    <2> DEFINE Wrong == {s \in SUBSET S : g[s] # iter[s]}
               Sizes == {Cardinality(s) : s \in Wrong}
    <2> SUFFICES ASSUME S \in Wrong PROVE FALSE
      OBVIOUS
    <2>1. \A s \in SUBSET S : IsFiniteSet(s) /\ Cardinality(s) \in Nat
      BY FS_Subset, FS_CardinalityType
    <2>2. Sizes \in SUBSET Nat /\ Sizes # {}
      BY <2>1
    <2>3. PICK m \in Sizes : \A n \in Sizes : m <= n
      BY <2>2, Least
    <2>4. PICK s \in Wrong : m = Cardinality(s)
      OBVIOUS
    <2>5. s # {}
      <3>1. g[{}] = 0 /\ iter[{}] = 0
        BY <1>1, <1>4, FS_EmptySet
      <3> QED
        BY <3>1
    <2> HIDE DEF any
    <2>6. g[s] = f[any(s)] + g[s \ {any(s)}] /\ iter[s] = f[any(s)] + iter[s \ {any(s)}]
      BY <1>3, <1>4, <2>5
    <2>7. s \ {any(s)} \in Wrong
      BY <1>2, <2>5, <2>6
    <2>8. Cardinality(s \ {any(s)}) = Cardinality(s) - 1
      BY <1>2, <2>1, <2>5, FS_RemoveElement
    <2>9. Cardinality(s) <= Cardinality(s \ {any(s)})
      BY <2>3, <2>4, <2>7
    <2> QED
      BY <2>1, <2>8, <2>9
  <1>5. SumFunctionOnSet(f, S) = (CHOOSE g : Sums(g))[S]
    BY Zenon DEF SumFunctionOnSet, FoldFunctionOnSet, MapThenFoldSet
  <1>6. Sums(CHOOSE g : Sums(g))
    <2> HIDE DEF Sums
    <2> QED
      BY <1>3
  <1> HIDE DEF Sums
  <1>7. (CHOOSE g : Sums(g))[S] = iter[S]
    BY <1>4, <1>6
  <1> QED
    BY <1>5, <1>7

-----------------------------------------------------------------------------
(* The rules of sums.                                                      *)

LEMMA SumNat ==
    ASSUME NEW S, IsFiniteSet(S), NEW f, \A x \in S : f[x] \in Nat
    PROVE  SumFunctionOnSet(f, S) \in Nat
  BY SumIsCount, UnitsFinite, FS_CardinalityType

LEMMA SumEmpty ==
    ASSUME NEW f
    PROVE  SumFunctionOnSet(f, {}) = 0
  <1>1. Units(f, {}) = {}
    BY DEF Units
  <1> QED
    BY <1>1, SumIsCount, FS_EmptySet

\* A member's share can be taken out...
LEMMA SumOut ==
    ASSUME NEW S, IsFiniteSet(S), NEW f, \A y \in S : f[y] \in Nat, NEW x \in S
    PROVE  SumFunctionOnSet(f, S) = f[x] + SumFunctionOnSet(f, S \ {x})
  <1>1. IsFiniteSet(S \ {x})
    BY FS_RemoveElement
  <1> QED
    BY <1>1, UnitsLess, SumIsCount

\* ...and a new member brings its share.
LEMMA SumIn ==
    ASSUME NEW S, IsFiniteSet(S), NEW f, \A y \in S : f[y] \in Nat,
           NEW x, x \notin S, f[x] \in Nat
    PROVE  SumFunctionOnSet(f, S \cup {x}) = SumFunctionOnSet(f, S) + f[x]
  <1>1. IsFiniteSet(S \cup {x})
    BY FS_AddElement
  <1>2. SumFunctionOnSet(f, (S \cup {x}) \ {x}) = SumFunctionOnSet(f, S)
    <2>1. (S \cup {x}) \ {x} = S
      OBVIOUS
    <2> QED
      BY <2>1, Zenon
  <1>3. \A y \in S \cup {x} : f[y] \in Nat
    OBVIOUS
  <1>4. SumFunctionOnSet(f, S \cup {x}) = f[x] + SumFunctionOnSet(f, (S \cup {x}) \ {x})
    BY <1>1, <1>3, SumOut
  <1>5. SumFunctionOnSet(f, S) \in Nat
    BY SumNat
  <1> QED
    BY <1>2, <1>4, <1>5

\* Two sets without a common member together hold what each holds.
LEMMA SumJoin ==
    ASSUME NEW S, IsFiniteSet(S), NEW T, IsFiniteSet(T), S \cap T = {},
           NEW f, \A y \in S \cup T : f[y] \in Nat
    PROVE  SumFunctionOnSet(f, S \cup T) = SumFunctionOnSet(f, S) + SumFunctionOnSet(f, T)
  <1>1. IsFiniteSet(S \cup T)
    BY FS_Union
  <1>2. Cardinality(Units(f, S \cup T)) = Cardinality(Units(f, S) \cup Units(f, T))
    <2>1. Units(f, S \cup T) = Units(f, S) \cup Units(f, T)
      BY Zenon DEF Units
    <2> QED
      BY <2>1, Zenon
  <1>3. Units(f, S) \cap Units(f, T) = {}
    BY DEF Units
  <1>4. IsFiniteSet(Units(f, S)) /\ IsFiniteSet(Units(f, T))
    BY UnitsFinite
  <1>5. Cardinality(Units(f, S)) \in Nat /\ Cardinality(Units(f, T)) \in Nat
    BY <1>4, FS_CardinalityType
  <1>6. Cardinality(Units(f, S) \cup Units(f, T)) =
            Cardinality(Units(f, S)) + Cardinality(Units(f, T)) - Cardinality(Units(f, S) \cap Units(f, T))
    BY <1>4, FS_Union
  <1>7. Cardinality(Units(f, S) \cap Units(f, T)) = 0
    BY <1>3, FS_EmptySet
  <1>8. Cardinality(Units(f, S \cup T)) = Cardinality(Units(f, S)) + Cardinality(Units(f, T))
    BY <1>2, <1>5, <1>6, <1>7
  <1> QED
    BY <1>1, <1>8, SumIsCount

\* If those who hold something are among others who hold as much, their sum
\* is no larger.
LEMMA SumBelow ==
    ASSUME NEW S, IsFiniteSet(S), NEW g, \A x \in S : g[x] \in Nat,
           NEW T, IsFiniteSet(T), NEW f, \A x \in T : f[x] \in Nat,
           \A x \in T : f[x] > 0 => x \in S /\ f[x] <= g[x]
    PROVE  SumFunctionOnSet(f, T) <= SumFunctionOnSet(g, S)
  <1>2. IsFiniteSet(Units(g, S))
    BY UnitsFinite
  <1>3. ASSUME NEW x \in T, NEW k \in 1 .. f[x] PROVE x \in S /\ k \in 1 .. g[x]
    OBVIOUS
  <1>4. Units(f, T) \subseteq Units(g, S)
    BY <1>3 DEF Units
  <1>5. Cardinality(Units(f, T)) <= Cardinality(Units(g, S))
    BY <1>2, <1>4, FS_Subset
  <1> QED
    BY <1>5, SumIsCount

\* A sum depends on what its members hold alone.
LEMMA SumSame ==
    ASSUME NEW S, IsFiniteSet(S), NEW f, \A x \in S : f[x] \in Nat, NEW g, \A x \in S : g[x] = f[x]
    PROVE  SumFunctionOnSet(g, S) = SumFunctionOnSet(f, S)
  <1>1. Units(g, S) = Units(f, S)
    BY Zenon DEF Units
  <1> QED
    BY <1>1, SumIsCount

\* The same when each finds a place of its own among the others.
LEMMA SumPlaced ==
    ASSUME NEW S, IsFiniteSet(S), NEW g, \A x \in S : g[x] \in Nat,
           NEW T, IsFiniteSet(T), NEW f, \A x \in T : f[x] \in Nat,
           NEW h \in [T -> S], \A x, y \in T : h[x] = h[y] => x = y,
           \A x \in T : f[x] <= g[h[x]]
    PROVE  SumFunctionOnSet(f, T) <= SumFunctionOnSet(g, S)
  <1> DEFINE A == Units(f, T)
             B == Units(g, S)
             move == [u \in A |-> <<h[u[1]], u[2]>>]
  <1>1. IsFiniteSet(B)
    BY UnitsFinite
  <1>2. \A u \in A : u[1] \in T /\ u[2] \in 1 .. f[u[1]] /\ u = <<u[1], u[2]>>
    BY DEF Units
  <1>3. ASSUME NEW u \in A PROVE <<h[u[1]], u[2]>> \in B
    <2>1. h[u[1]] \in S /\ u[2] \in 1 .. g[h[u[1]]]
      BY <1>2
    <2> QED
      BY <2>1 DEF Units
  <1>4. ASSUME NEW u \in A, NEW v \in A, move[u] = move[v] PROVE u = v
    <2>1. h[u[1]] = h[v[1]] /\ u[2] = v[2]
      BY <1>4
    <2>2. u[1] = v[1]
      BY <1>2, <2>1
    <2> QED
      BY <1>2, <2>1, <2>2
  <1>5. move \in Injection(A, B)
    BY <1>3, <1>4 DEF Injection, IsInjective
  <1>6. Cardinality(A) <= Cardinality(B)
    BY <1>1, <1>5, FS_Injection
  <1> QED
    BY <1>6, SumIsCount
=============================================================================
