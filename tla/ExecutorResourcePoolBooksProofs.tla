------------------ MODULE ExecutorResourcePoolBooksProofs ------------------
(***************************************************************************)
(* The books of ExecutorResourcePool as values: sums over the holders of   *)
(* grants, the pool and its chunks, and that allocating and returning a    *)
(* grant keep the books in agreement with the grants that are out.  The    *)
(* proofs about the pool and about the manager rest on these lemmas.       *)
(***************************************************************************)
EXTENDS ExecutorResourcePool, FiniteSetTheorems, TLAPS

USE SMTT(60)

\* What is added for a grant that is made, or taken off for one that is returned.
LEMMA SignedNat ==
  ASSUME NEW n \in {1, -1}, NEW b \in Nat
  PROVE  n * b \in Int /\ (b = 0 => n * b = 0)
OBVIOUS

\* A sum of naturals is zero when both are, and positive when one of them is.
LEMMA PositiveSum ==
  ASSUME NEW a \in Nat, NEW b \in Nat
  PROVE  /\ a + b \in Nat /\ a + 0 = a /\ 0 + a = a
         /\ a > 0 => a + b > 0
         /\ b > 0 => a + b > 0
         /\ a + b > 0 => a # 0 \/ b # 0
OBVIOUS

\* Comparisons of naturals, as the provers of first-order steps need them.
LEMMA Compare ==
  ASSUME NEW a \in Nat, NEW b \in Nat
  PROVE  /\ a > 0 <=> a # 0
         /\ a # 0 /\ a <= b => b > 0
         /\ a <= b <=> ~(a > b)
OBVIOUS

\* A bound below a bound.
LEMMA Between ==
  ASSUME NEW a \in Nat, NEW b \in Nat, NEW c \in Nat, a <= b, b <= c
  PROVE  a <= c
OBVIOUS

\* What a size grows by to be the greater of two.
LEMMA GrowsTo ==
  ASSUME NEW a \in Nat, NEW b \in Nat
  PROVE  Greatest(a, b) = a + Greatest(b - a, 0) /\ Greatest(b - a, 0) \in Nat
BY DEF Greatest

\* Naturals are integers.
LEMMA NatsAreInts == Nat \subseteq Int
OBVIOUS

\* Two parts of an account that move move it by both.
LEMMA TwoParts ==
  ASSUME NEW a \in Int, NEW b \in Int, NEW m \in Int, NEW v \in Int
  PROVE  ((a + b) + m) + v = (a + m) + (b + v) /\ ((a + b) + m) + v \in Int
OBVIOUS

-----------------------------------------------------------------------------
(***************************************************************************)
(* Sums.  SumFunctionOnSet is a choice of a function on the subsets of the *)
(* indices that satisfies a recursion; a smallest set of indices for which *)
(* a claim were false stands in for induction.                             *)
(***************************************************************************)
Chosen(s) == CHOOSE x \in s : TRUE
Sums(f, S, g) ==
  g = [s \in SUBSET S |-> IF s = {} THEN 0 ELSE f[Chosen(s)] + g[s \ {Chosen(s)}]]

\* A sum in terms of that recursion.
LEMMA SumIsChoice ==
  ASSUME NEW f, NEW S
  PROVE  SumFunctionOnSet(f, S) = (CHOOSE g : Sums(f, S, g))[S]
BY DEF SumFunctionOnSet, FoldFunctionOnSet, MapThenFoldSet, Sums, Chosen

\* A set of naturals has a least one.
LEMMA LeastOf ==
  ASSUME NEW S \in SUBSET Nat, S # {}
  PROVE  \E x \in S : \A y \in S : x <= y
<1>1. PICK x \in S : \A y \in S : <<y, x>> \notin OpToRel(<, Nat)
  BY NatLessThanWellFounded, WFMin, ZenonT(60)
<1>2. \A y \in S : ~(y < x)
  BY <1>1, Zenon DEF OpToRel
<1> QED BY <1>2

\* Of some subsets of a finite set one has none of the others as a proper subset.
LEMMA SmallestOf ==
  ASSUME NEW S, IsFiniteSet(S), NEW F \in SUBSET SUBSET S, F # {}
  PROVE  \E T \in F : \A U \in SUBSET T : U \in F => U = T
<1> DEFINE N == {Cardinality(T) : T \in F}
<1>1. \A T \in F : IsFiniteSet(T) /\ Cardinality(T) \in Nat
  BY FS_Subset, FS_CardinalityType
<1>2. N \in SUBSET Nat /\ N # {}
  BY <1>1
<1>3. PICK n \in N : \A m \in N : n <= m
  BY <1>2, LeastOf, ZenonT(60)
<1>4. PICK T \in F : Cardinality(T) = n
  BY <1>3
<1>5. ASSUME NEW U \in SUBSET T, U \in F PROVE U = T
  <2>1. Cardinality(U) <= Cardinality(T) /\ (Cardinality(U) = Cardinality(T) => U = T)
    BY <1>1, <1>4, FS_Subset
  <2>2. n <= Cardinality(U) /\ n \in Nat /\ Cardinality(U) \in Nat
    BY <1>1, <1>2, <1>3, <1>5
  <2> QED BY <2>1, <2>2, <1>4
<1> QED BY <1>4, <1>5

\* What a solution of the recursion gives for a set of indices.
LEMMA SumsAt ==
  ASSUME NEW S, NEW f, NEW g, Sums(f, S, g), NEW s \in SUBSET S
  PROVE  g[s] = IF s = {} THEN 0 ELSE f[Chosen(s)] + g[s \ {Chosen(s)}]
<1> DEFINE r == [t \in SUBSET S |-> IF t = {} THEN 0 ELSE f[Chosen(t)] + g[t \ {Chosen(t)}]]
<1>1. g = r
  BY ZenonT(60) DEF Sums
<1>2. r[s] = IF s = {} THEN 0 ELSE f[Chosen(s)] + g[s \ {Chosen(s)}]
  OBVIOUS
<1> HIDE DEF r
<1> QED BY <1>1, <1>2

\* Two solutions for the same summands agree where both are defined.
LEMMA SumsAgree ==
  ASSUME NEW S, IsFiniteSet(S), NEW T, S \subseteq T, NEW f, NEW g, NEW h, NEW k,
         \A x \in S : f[x] = h[x], Sums(f, S, g), Sums(h, T, k)
  PROVE  \A s \in SUBSET S : g[s] = k[s]
<1> DEFINE F == {s \in SUBSET S : g[s] # k[s]}
<1>1. SUFFICES ASSUME F # {} PROVE FALSE
  OBVIOUS
<1>2. PICK s \in F : \A u \in SUBSET s : u \in F => u = s
  <2>1. F \in SUBSET SUBSET S /\ F # {}
    BY <1>1
  <2> HIDE DEF F
  <2> QED BY <2>1, SmallestOf
<1>3. /\ g[s] = IF s = {} THEN 0 ELSE f[Chosen(s)] + g[s \ {Chosen(s)}]
      /\ k[s] = IF s = {} THEN 0 ELSE h[Chosen(s)] + k[s \ {Chosen(s)}]
  <2>1. s \in SUBSET S /\ s \in SUBSET T
    BY <1>2
  <2> QED BY <2>1, SumsAt
<1>4. s # {} => Chosen(s) \in s
  BY DEF Chosen
<1>5. s # {} => g[s \ {Chosen(s)}] = k[s \ {Chosen(s)}]
  BY <1>2, <1>4
<1> QED BY <1>2, <1>3, <1>4, <1>5

\* The recursion has a solution.
LEMMA SumsExist ==
  ASSUME NEW S, IsFiniteSet(S), NEW f
  PROVE  \E g : Sums(f, S, g)
<1> DEFINE F == {T \in SUBSET S : ~\E g : Sums(f, T, g)}
           H(T) == CHOOSE g : Sums(f, T, g)
<1>1. SUFFICES ASSUME S \in F PROVE FALSE
  OBVIOUS
<1>2. PICK T \in F : \A U \in SUBSET T : U \in F => U = T
  <2>1. F \in SUBSET SUBSET S /\ F # {}
    BY <1>1
  <2> HIDE DEF F
  <2> QED BY <2>1, SmallestOf
<1>3. \A U \in SUBSET T : U # T => Sums(f, U, H(U)) /\ IsFiniteSet(U)
  BY <1>2, FS_Subset
<1> DEFINE g == [s \in SUBSET T |-> IF s = {} THEN 0
                                    ELSE f[Chosen(s)] + H(s \ {Chosen(s)})[s \ {Chosen(s)}]]
<1> HIDE DEF H
<1>4. ASSUME NEW U \in SUBSET T, U # T PROVE g[U] = H(U)[U]
  <2>1. H(U)[U] = IF U = {} THEN 0 ELSE f[Chosen(U)] + H(U)[U \ {Chosen(U)}]
    <3>1. Sums(f, U, H(U))
      BY <1>3, <1>4
    <3> HIDE DEF g
    <3> QED BY <3>1, SumsAt
  <2>2. U # {} => Chosen(U) \in U
    BY DEF Chosen
  <2>3. U # {} => H(U)[U \ {Chosen(U)}] = H(U \ {Chosen(U)})[U \ {Chosen(U)}]
    <3> DEFINE V == U \ {Chosen(U)}
    <3> SUFFICES ASSUME U # {} PROVE H(V)[V] = H(U)[V]
      OBVIOUS
    <3>1. V \in SUBSET T /\ V # T /\ V \subseteq U
      BY <2>2
    <3> HIDE DEF V
    <3> QED BY <3>1, <1>3, <1>4, SumsAgree
  <2> QED BY <2>1, <2>3
<1>5. \A s \in SUBSET T : s # {} => s \ {Chosen(s)} \in SUBSET T /\ s \ {Chosen(s)} # T
  BY DEF Chosen
<1>6. Sums(f, T, g)
  BY <1>4, <1>5, ZenonT(60) DEF Sums
<1> QED BY <1>2, <1>6

\* The sum over no index is zero; otherwise an index can be taken out.
LEMMA SumStep ==
  ASSUME NEW S, IsFiniteSet(S), NEW f
  PROVE  /\ SumFunctionOnSet(f, {}) = 0
         /\ S # {} => SumFunctionOnSet(f, S)
                        = f[Chosen(S)] + SumFunctionOnSet(f, S \ {Chosen(S)})
<1> DEFINE G(T) == CHOOSE g : Sums(f, T, g)
<1>1. \A T \in SUBSET S : IsFiniteSet(T) /\ Sums(f, T, G(T))
  BY SumsExist, FS_Subset
<1> HIDE DEF G
<1>2. \A T \in SUBSET S : SumFunctionOnSet(f, T) = G(T)[T]
  BY SumIsChoice DEF G
<1>3. G({})[{}] = 0
  BY <1>1, SumsAt, ZenonT(60)
<1>4. ASSUME S # {} PROVE G(S)[S] = f[Chosen(S)] + G(S \ {Chosen(S)})[S \ {Chosen(S)}]
  <2> DEFINE V == S \ {Chosen(S)}
  <2>1. G(S)[S] = f[Chosen(S)] + G(S)[V]
    BY <1>1, <1>4, SumsAt
  <2>2. V \in SUBSET S
    OBVIOUS
  <2> HIDE DEF V
  <2>3. G(V)[V] = G(S)[V]
    BY <1>1, <2>2, SumsAgree
  <2> QED BY <2>1, <2>3 DEF V
<1> QED BY <1>2, <1>3, <1>4

\* A sum depends on the summands only.
LEMMA SumSame ==
  ASSUME NEW S, IsFiniteSet(S), NEW f, NEW h, \A x \in S : f[x] = h[x]
  PROVE  SumFunctionOnSet(f, S) = SumFunctionOnSet(h, S)
<1>1. /\ Sums(f, S, CHOOSE g : Sums(f, S, g))
      /\ Sums(h, S, CHOOSE g : Sums(h, S, g))
  BY SumsExist
<1>2. (CHOOSE g : Sums(f, S, g))[S] = (CHOOSE g : Sums(h, S, g))[S]
  BY <1>1, SumsAgree
<1> QED BY <1>2, SumIsChoice

\* Integers sum up to an integer, whichever is taken first.
LEMMA SumTake ==
  ASSUME NEW S, IsFiniteSet(S), NEW f, \A x \in S : f[x] \in Int
  PROVE  /\ SumFunctionOnSet(f, S) \in Int
         /\ \A y \in S : SumFunctionOnSet(f, S) = f[y] + SumFunctionOnSet(f, S \ {y})
<1> DEFINE Sum(T) == SumFunctionOnSet(f, T)
           Wrong(T) == Sum(T) \notin Int \/ \E y \in T : Sum(T) # f[y] + Sum(T \ {y})
           F == {T \in SUBSET S : Wrong(T)}
<1>1. SUFFICES ASSUME F # {} PROVE FALSE
  BY ZenonT(60)
<1>2. PICK T \in F : \A U \in SUBSET T : U \in F => U = T
  <2>1. F \in SUBSET SUBSET S /\ F # {}
    BY <1>1
  <2> HIDE DEF F
  <2> QED BY <2>1, SmallestOf
<1>0. Sum({}) = 0
  BY SumStep, ZenonT(60)
<1>3. \A U \in SUBSET S : U # {} => Chosen(U) \in U /\ Sum(U) = f[Chosen(U)] + Sum(U \ {Chosen(U)})
  BY SumStep, FS_Subset, ZenonT(60) DEF Chosen
<1> HIDE DEF Sum
<1>4. T # {}
  <2>2. ~Wrong({})
    BY <1>0
  <2>3. Wrong(T)
    BY <1>2
  <2> HIDE DEF Wrong
  <2> QED BY <2>2, <2>3, Zenon
<1> DEFINE c == Chosen(T)
<1>5. c \in T /\ T \in SUBSET S /\ Sum(T) = f[c] + Sum(T \ {c})
  BY <1>2, <1>3, <1>4
<1> HIDE DEF c
<1>6. ASSUME NEW x \in T
      PROVE  /\ Sum(T \ {x}) \in Int
             /\ \A y \in T \ {x} : Sum(T \ {x}) = f[y] + Sum((T \ {x}) \ {y})
  <2>1. T \ {x} \in SUBSET T /\ T \ {x} # T /\ T \ {x} \in SUBSET S
    BY <1>2
  <2>2. ~Wrong(T \ {x})
    BY <1>2, <2>1, ZenonT(60)
  <2> QED BY <2>2, ZenonT(60)
<1>7. Sum(T) \in Int
  BY <1>2, <1>5, <1>6
<1>8. PICK y \in T : Sum(T) # f[y] + Sum(T \ {y})
  BY <1>2, <1>7
<1>9. y # c /\ Sum(T \ {c}) = f[y] + Sum((T \ {c}) \ {y})
            /\ Sum(T \ {y}) = f[c] + Sum((T \ {y}) \ {c})
  BY <1>5, <1>6, <1>8, ZenonT(60)
<1>10. (T \ {c}) \ {y} = (T \ {y}) \ {c}
  OBVIOUS
<1>11. Sum((T \ {c}) \ {y}) \in Int
  <2>1. (T \ {c}) \ {y} \in SUBSET T /\ (T \ {c}) \ {y} # T /\ (T \ {c}) \ {y} \in SUBSET S
    BY <1>2, <1>5
  <2> QED BY <1>2, <2>1
<1>12. f[y] \in Int /\ f[c] \in Int
  BY <1>2, <1>5
<1> HIDE DEF F
<1>13. \A p, q, r, t, u, v \in Int : p = q + r /\ r = t + u /\ v = q + u => p = t + v
  OBVIOUS
<1> QED BY <1>5, <1>6, <1>7, <1>8, <1>9, <1>10, <1>11, <1>12, <1>13

\* Naturals sum up to a natural that is at least each of them, and zero only when they are.
LEMMA SumNat ==
  ASSUME NEW S, IsFiniteSet(S), NEW f, \A x \in S : f[x] \in Nat
  PROVE  /\ SumFunctionOnSet(f, S) \in Nat
         /\ \A y \in S : f[y] <= SumFunctionOnSet(f, S)
         /\ (\A y \in S : f[y] = 0) => SumFunctionOnSet(f, S) = 0
<1> DEFINE Sum(T) == SumFunctionOnSet(f, T)
           Wrong(T) == Sum(T) \notin Nat \/ ((\A y \in T : f[y] = 0) /\ Sum(T) # 0)
           F == {T \in SUBSET S : Wrong(T)}
<1>0. Sum({}) = 0
  BY SumStep, ZenonT(60)
<1>1. ASSUME NEW T \in SUBSET S
      PROVE  \A y \in T : Sum(T) = f[y] + Sum(T \ {y})
  <2>1. IsFiniteSet(T) /\ \A x \in T : f[x] \in Int
    BY FS_Subset
  <2> QED BY <2>1, SumTake
<1> HIDE DEF Sum
<1>2. ASSUME F # {} PROVE FALSE
  <2>1. PICK T \in F : \A U \in SUBSET T : U \in F => U = T
    <3>1. F \in SUBSET SUBSET S /\ F # {}
      BY <1>2
    <3> HIDE DEF F
    <3> QED BY <3>1, SmallestOf
  <2>2. ~Wrong({})
    BY <1>0
  <2>3. PICK y \in T : TRUE
    <3>1. Wrong(T)
      BY <2>1
    <3> HIDE DEF Wrong
    <3>2. T # {}
      BY <2>2, <3>1, Zenon
    <3> QED BY <3>2
  <2>4. Sum(T) = f[y] + Sum(T \ {y}) /\ f[y] \in Nat
    BY <1>1, <2>1, <2>3
  <2>5. ~Wrong(T \ {y})
    BY <2>1, <2>3
  <2> QED BY <2>1, <2>3, <2>4, <2>5
<1>3. \A T \in SUBSET S : Sum(T) \in Nat /\ ((\A y \in T : f[y] = 0) => Sum(T) = 0)
  BY <1>2
<1>4. ASSUME NEW y \in S PROVE f[y] <= Sum(S)
  <2>1. Sum(S) = f[y] + Sum(S \ {y}) /\ Sum(S \ {y}) \in Nat /\ f[y] \in Nat
    BY <1>1, <1>3
  <2> QED BY <2>1
<1> QED BY <1>3, <1>4 DEF Sum

\* A sum with one summand more.
LEMMA SumMore ==
  ASSUME NEW S, IsFiniteSet(S), NEW f, NEW h, NEW y, y \notin S,
         \A x \in S : f[x] \in Int /\ h[x] = f[x], h[y] \in Int
  PROVE  SumFunctionOnSet(h, S \cup {y}) = SumFunctionOnSet(f, S) + h[y]
<1>1. IsFiniteSet(S \cup {y}) /\ (S \cup {y}) \ {y} = S /\ \A x \in S \cup {y} : h[x] \in Int
  BY FS_AddElement
<1>2. SumFunctionOnSet(h, S \cup {y}) = h[y] + SumFunctionOnSet(h, S)
  BY <1>1, SumTake
<1>3. SumFunctionOnSet(h, S) = SumFunctionOnSet(f, S) /\ SumFunctionOnSet(f, S) \in Int
  BY SumSame, SumTake
<1> QED BY <1>2, <1>3

\* A sum after one summand has changed.
LEMMA SumChanged ==
  ASSUME NEW S, IsFiniteSet(S), NEW f, NEW h, NEW y \in S,
         \A x \in S : f[x] \in Int /\ h[x] \in Int, \A x \in S \ {y} : h[x] = f[x]
  PROVE  SumFunctionOnSet(h, S) = SumFunctionOnSet(f, S) - f[y] + h[y]
<1>1. IsFiniteSet(S \ {y})
  BY FS_RemoveElement
<1>2. /\ SumFunctionOnSet(h, S) = h[y] + SumFunctionOnSet(h, S \ {y})
      /\ SumFunctionOnSet(f, S) = f[y] + SumFunctionOnSet(f, S \ {y})
  BY SumTake
<1>3. SumFunctionOnSet(h, S \ {y}) = SumFunctionOnSet(f, S \ {y})
  BY <1>1, SumSame
<1>4. SumFunctionOnSet(f, S \ {y}) \in Int
  BY <1>1, SumTake
<1> QED BY <1>2, <1>3, <1>4

\* Summands each at most another's add up to at most the others' sum.
LEMMA SumMonotonic ==
  ASSUME NEW S, IsFiniteSet(S), NEW f, NEW h, \A x \in S : f[x] \in Int /\ h[x] \in Int /\ f[x] <= h[x]
  PROVE  SumFunctionOnSet(f, S) <= SumFunctionOnSet(h, S)
<1> DEFINE A(T) == SumFunctionOnSet(f, T)
           B(T) == SumFunctionOnSet(h, T)
           F == {T \in SUBSET S : ~(A(T) <= B(T))}
<1>0. A({}) = 0 /\ B({}) = 0
  BY SumStep, ZenonT(60)
<1>1. ASSUME NEW T \in SUBSET S
      PROVE  /\ A(T) \in Int /\ B(T) \in Int
             /\ \A y \in T : A(T) = f[y] + A(T \ {y}) /\ B(T) = h[y] + B(T \ {y})
  <2>1. IsFiniteSet(T) /\ \A x \in T : f[x] \in Int /\ h[x] \in Int
    BY FS_Subset
  <2> QED BY <2>1, SumTake
<1> HIDE DEF A, B
<1>2. ASSUME F # {} PROVE FALSE
  <2>1. PICK T \in F : \A U \in SUBSET T : U \in F => U = T
    <3>1. F \in SUBSET SUBSET S /\ F # {}
      BY <1>2
    <3> HIDE DEF F
    <3> QED BY <3>1, SmallestOf
  <2>2. A({}) <= B({})
    BY <1>0
  <2>3. PICK y \in T : TRUE
    <3>1. ~(A(T) <= B(T))
      BY <2>1
    <3>2. T # {}
      BY <2>2, <3>1, Zenon
    <3> QED BY <3>2
  <2>4. T \ {y} \in SUBSET S /\ A(T \ {y}) <= B(T \ {y}) /\ y \in S /\ T \in SUBSET S
    BY <2>1, <2>3
  <2> HIDE DEF F
  <2>5. /\ A(T) = f[y] + A(T \ {y}) /\ B(T) = h[y] + B(T \ {y})
        /\ A(T \ {y}) \in Int /\ B(T \ {y}) \in Int /\ f[y] \in Int /\ h[y] \in Int /\ f[y] <= h[y]
    BY <1>1, <2>3, <2>4, ZenonT(60)
  <2>6. A(T) <= B(T)
    BY <2>4, <2>5
  <2> QED BY <2>1, <2>6 DEF F
<1> QED BY <1>2 DEF A, B

\* The sum of sums.
LEMMA SumPlus ==
  ASSUME NEW S, IsFiniteSet(S), NEW f, NEW h, NEW k,
         \A x \in S : f[x] \in Int /\ h[x] \in Int /\ k[x] = f[x] + h[x]
  PROVE  SumFunctionOnSet(k, S) = SumFunctionOnSet(f, S) + SumFunctionOnSet(h, S)
<1> DEFINE A(T) == SumFunctionOnSet(f, T)
           B(T) == SumFunctionOnSet(h, T)
           C(T) == SumFunctionOnSet(k, T)
           Right(T) == C(T) = A(T) + B(T)
           F == {T \in SUBSET S : ~Right(T)}
<1>0. A({}) = 0 /\ B({}) = 0 /\ C({}) = 0
  BY SumStep, ZenonT(60)
<1>1. ASSUME NEW T \in SUBSET S
      PROVE  /\ A(T) \in Int /\ B(T) \in Int /\ C(T) \in Int
             /\ \A y \in T : /\ A(T) = f[y] + A(T \ {y}) /\ B(T) = h[y] + B(T \ {y})
                             /\ C(T) = k[y] + C(T \ {y})
  <2>1. IsFiniteSet(T) /\ \A x \in T : f[x] \in Int /\ h[x] \in Int /\ k[x] \in Int
    BY FS_Subset
  <2> QED BY <2>1, SumTake
<1> HIDE DEF A, B, C
<1>2. ASSUME F # {} PROVE FALSE
  <2>1. PICK T \in F : \A U \in SUBSET T : U \in F => U = T
    <3>1. F \in SUBSET SUBSET S /\ F # {}
      BY <1>2
    <3> HIDE DEF F
    <3> QED BY <3>1, SmallestOf
  <2>2. Right({})
    BY <1>0
  <2>3. PICK y \in T : TRUE
    <3>1. ~Right(T)
      BY <2>1
    <3> HIDE DEF Right
    <3>2. T # {}
      BY <2>2, <3>1, Zenon
    <3> QED BY <3>2
  <2>4. T \ {y} \in SUBSET S /\ Right(T \ {y}) /\ y \in S /\ T \in SUBSET S
    BY <2>1, <2>3
  <2> HIDE DEF F
  <2>5. /\ A(T) = f[y] + A(T \ {y}) /\ B(T) = h[y] + B(T \ {y}) /\ C(T) = k[y] + C(T \ {y})
        /\ A(T \ {y}) \in Int /\ B(T \ {y}) \in Int /\ f[y] \in Int /\ h[y] \in Int
        /\ k[y] = f[y] + h[y]
    BY <1>1, <2>3, <2>4
  <2>6. Right(T)
    BY <2>4, <2>5
  <2> QED BY <2>1, <2>6 DEF F
<1> QED BY <1>2 DEF A, B, C

\* Summands that are zero may be left out.
LEMMA SumZeros ==
  ASSUME NEW S, IsFiniteSet(S), NEW R \in SUBSET S, NEW f,
         \A x \in S : f[x] \in Int, \A x \in S \ R : f[x] = 0
  PROVE  SumFunctionOnSet(f, S) = SumFunctionOnSet(f, R)
<1> DEFINE A(T) == SumFunctionOnSet(f, T)
           F == {T \in SUBSET S : R \subseteq T /\ A(T) # A(R)}
<1>1. ASSUME NEW T \in SUBSET S
      PROVE  /\ A(T) \in Int
             /\ \A y \in T : A(T) = f[y] + A(T \ {y})
  <2>1. IsFiniteSet(T) /\ \A x \in T : f[x] \in Int
    BY FS_Subset
  <2> QED BY <2>1, SumTake
<1> HIDE DEF A
<1>2. ASSUME F # {} PROVE FALSE
  <2>1. PICK T \in F : \A U \in SUBSET T : U \in F => U = T
    <3>1. F \in SUBSET SUBSET S /\ F # {}
      BY <1>2
    <3> HIDE DEF F
    <3> QED BY <3>1, SmallestOf
  <2>2. T # R
    BY <2>1
  <2>3. PICK y \in T : y \notin R
    <3>1. R \subseteq T
      BY <2>1
    <3> HIDE DEF F
    <3> QED BY <2>2, <3>1
  <2>4. T \ {y} \in SUBSET S /\ A(T \ {y}) = A(R) /\ f[y] = 0 /\ T \in SUBSET S
    BY <2>1, <2>3
  <2>5. A(T) = f[y] + A(T \ {y}) /\ A(T \ {y}) \in Int
    BY <1>1, <2>3, <2>4
  <2> QED BY <2>1, <2>4, <2>5
<1> QED BY <1>2 DEF A

-----------------------------------------------------------------------------
(***************************************************************************)
(* Rounding.                                                               *)
(***************************************************************************)
\* What rounding down gives.
LEMMA DivIs ==
  ASSUME NEW x \in Nat, NEW d \in Nat \ {0}
  PROVE  x \div d \in Nat /\ d * (x \div d) <= x /\ x < d * (x \div d) + d
OBVIOUS

\* What rounding up gives (get_grant_quantity).
LEMMA CeilNat ==
  ASSUME NEW x \in Nat, NEW d \in Nat \ {0}
  PROVE  Ceil(x, d) \in Nat
<1>1. x + d - 1 \in Nat
  OBVIOUS
<1> QED BY <1>1, DivIs DEF Ceil

\* The backoff ratio of what is left of a resource is not more than what is left
\* (determine_dynamic_single_resource_grant).
LEMMA BackoffWithin ==
  ASSUME NEW r \in Nat
  PROVE  /\ (2 * BackoffNum * r + BackoffDen) \div (2 * BackoffDen) \in Nat
         /\ (2 * BackoffNum * r + BackoffDen) \div (2 * BackoffDen) <= r
<1> DEFINE n == BackoffNum
           d == BackoffDen
           x == 2 * n * r + d
           q == x \div (2 * d)
<1>1. n \in Nat /\ d \in Nat \ {0} /\ n <= d
  BY BackoffAssumption
<1> HIDE DEF n, d
<1>2. x \in Nat /\ 2 * d \in Nat \ {0}
  BY <1>1
<1> HIDE DEF x
<1>3. q \in Nat /\ (2 * d) * q <= x
  BY <1>2, DivIs
<1> HIDE DEF q
<1>4. n * r <= d * r /\ n * r \in Nat /\ d * r \in Nat
  BY <1>1
<1>5. x = 2 * (n * r) + d
  BY <1>1 DEF x
<1>6. ASSUME q >= r + 1 PROVE FALSE
  <2>1. d * (r + 1) <= d * q
    BY <1>1, <1>3, <1>6
  <2>2. d * (r + 1) = d * r + d /\ (2 * d) * q = 2 * (d * q) /\ d * q \in Nat
    BY <1>1, <1>3
  <2> QED BY <1>1, <1>3, <1>4, <1>5, <2>1, <2>2
<1>7. q <= r
  BY <1>3, <1>6
<1> QED BY <1>3, <1>7 DEF q, x, n, d

-----------------------------------------------------------------------------
(***************************************************************************)
(* The pool as a value.                                                    *)
(***************************************************************************)
Separate == [type |-> "CPU_RESULT_MEM", subtype |-> "CPU_RESULT_MEM"]
Pooled == [type |-> "CPU_BUFFER_POOL_MEM", subtype |-> "PINNED_CPU_BUFFER_POOL_MEM"]
UnderPolicies == {"ALLOW_CONCURRENT_REQUESTS", "ALLOW_SINGLE_REQUEST",
                  "ALLOW_SINGLE_REQUEST_GLOBALLY"}
OverPolicies == UnderPolicies \cup {"DISALLOW_REQUESTS"}

\* The quantities of a pool, and where the memory for results comes from.
QuantitiesType(p) ==
  /\ p.total \in [Types -> Nat]
  /\ \A s \in DOMAIN p.ratio : p.ratio[s].num \in Nat /\ p.ratio[s].den \in Nat \ {0}
  /\ p.result \in {Separate, Pooled}

\* The limits of a pool as it is configured, which no grant changes.
LimitsType(p) ==
  /\ p.total \in [Types -> Nat]
  /\ \A t \in Types : p.policy[t].under \in UnderPolicies /\ p.policy[t].over \in OverPolicies
  /\ \A s \in DOMAIN p.ratio : p.ratio[s].num \in Nat /\ p.ratio[s].den \in Nat \ {0}
  /\ p.result \in {Separate, Pooled}
  /\ \A t \in {"CPU_SLOTS", "GPU_SLOTS", p.result.type} : p.policy[t].over # "DISALLOW_REQUESTS"
  /\ \A t \in {"CPU_BUFFER_POOL_MEM", "GPU_BUFFER_POOL_MEM"} :
       t # p.result.type => p.policy[t].over = "DISALLOW_REQUESTS"

\* The chunks of a device.
ChunksType(chunks) ==
  /\ IsFiniteSet(DOMAIN chunks)
  /\ chunks \in [DOMAIN chunks -> [refs : Int, size : Nat]]

PoolType(p) ==
  /\ p = [total |-> p.total, policy |-> p.policy, ratio |-> p.ratio, result |-> p.result,
          allocated |-> p.allocated, chunks |-> p.chunks, outstanding |-> p.outstanding,
          outstandingBy |-> p.outstandingBy]
  /\ p.allocated \in [Subtypes -> Int]
  /\ p.chunks = [d \in Devices |-> p.chunks[d]] /\ \A d \in Devices : ChunksType(p.chunks[d])
  /\ p.outstanding \in Int /\ p.outstandingBy \in [Types -> Int]

SameLimits(p, q) == q.total = p.total /\ q.policy = p.policy /\ q.ratio = p.ratio /\ q.result = p.result

\* What the books need to know of a request; RequestType says more.
RequestShape(r) ==
  /\ r.device \in Devices
  /\ IsFiniteSet(DOMAIN r.chunks) /\ r.chunks \in [DOMAIN r.chunks -> Nat]

GrantType(g, r) ==
  /\ g.cpu_slots \in Nat /\ g.gpu_slots \in Nat /\ g.cpu_result_mem \in Nat
  /\ g.buffer_mem_gated_per_slot \in BOOLEAN /\ g.buffer_mem_for_given_slots \in Nat
  /\ g.buffer_mem_gated_per_slot => r.device = "CPU"
  /\ ~g.buffer_mem_gated_per_slot => g.buffer_mem_for_given_slots = 0

\* The pool of a valid configuration has limits, and nothing in it.
LEMMA NewPool ==
  ASSUME NEW c \in Configs
  PROVE  LET p == generate_executor_resource_mgr(c)
         IN LimitsType(p) /\ PoolType(p) /\ p.allocated = [s \in Subtypes |-> 0]
              /\ p.outstanding = 0 /\ p.outstandingBy = [t \in Types |-> 0]
              /\ p.chunks = [d \in Devices |-> <<>>]
              /\ (p.result = Separate <=> ~c.use_cpu_mem_pool_for_output_buffers)
<1> DEFINE p == generate_executor_resource_mgr(c)
           pooled == c.use_cpu_mem_pool_for_output_buffers
<1>1. /\ p.total = IF pooled THEN [c.total EXCEPT !["CPU_RESULT_MEM"] = 0] ELSE c.total
      /\ p.policy = concurrent_resource_grant_policies(c)
      /\ p.ratio = [s \in {"CPU_SLOTS", "PINNED_CPU_BUFFER_POOL_MEM",
                        "PAGEABLE_CPU_BUFFER_POOL_MEM"}
                       \cup (IF pooled THEN {} ELSE {"CPU_RESULT_MEM"}) |-> c.ratio[s]]
      /\ p.result = IF pooled THEN Pooled ELSE Separate
      /\ p.allocated = [s \in Subtypes |-> 0]
      /\ p.chunks = [d \in Devices |-> <<>>]
      /\ p.outstanding = 0
      /\ p.outstandingBy = [t \in Types |-> 0]
      /\ p = [total |-> p.total, policy |-> p.policy, ratio |-> p.ratio, result |-> p.result,
              allocated |-> p.allocated, chunks |-> p.chunks, outstanding |-> p.outstanding,
              outstandingBy |-> p.outstandingBy]
  BY DEF generate_executor_resource_mgr, Pooled, Separate
<1>2. ConfigType(c)
  BY ConfigsAssumption
<1> HIDE DEF p
<1>3. p.total \in [Types -> Nat]
  BY <1>1, <1>2 DEF ConfigType, Types
<1>4. \A s \in DOMAIN p.ratio : p.ratio[s].num \in Nat /\ p.ratio[s].den \in Nat \ {0}
  BY <1>1, <1>2 DEF ConfigType
<1>5. p.result \in {Separate, Pooled} /\ (p.result = Separate <=> ~pooled) /\ Separate # Pooled
      /\ p.result.type = IF pooled THEN "CPU_BUFFER_POOL_MEM" ELSE "CPU_RESULT_MEM"
  BY <1>1 DEF Separate, Pooled
<1>6. /\ \A t \in Types : p.policy[t].under \in UnderPolicies /\ p.policy[t].over \in OverPolicies
      /\ \A t \in {"CPU_SLOTS", "GPU_SLOTS", p.result.type} : p.policy[t].over # "DISALLOW_REQUESTS"
      /\ \A t \in {"CPU_BUFFER_POOL_MEM", "GPU_BUFFER_POOL_MEM"} :
           t # p.result.type => p.policy[t].over = "DISALLOW_REQUESTS"
  BY <1>1, <1>5 DEF concurrent_resource_grant_policies, UnderPolicies, OverPolicies, Types
<1>7. ChunksType(<<>>)
  BY FS_EmptySet DEF ChunksType
<1>8. LimitsType(p)
  BY <1>3, <1>4, <1>5, <1>6, ZenonT(60) DEF LimitsType
<1>9. PoolType(p)
  BY <1>1, <1>7 DEF PoolType
<1> QED BY <1>1, <1>5, <1>8, <1>9, ZenonT(60) DEF p

\* Both are about a part of what is known of a pool or a request.
LEMMA Parts ==
  /\ \A p : LimitsType(p) => QuantitiesType(p)
  /\ \A r : RequestType(r) => RequestShape(r)
<1>1. \A p : LimitsType(p) => QuantitiesType(p)
  BY DEF LimitsType, QuantitiesType
<1>2. \A r : RequestType(r) => RequestShape(r)
  BY DEF RequestType, RequestShape
<1> QED BY <1>1, <1>2

\* What one request may have is a quantity, and where a resource may not be
\* oversubscribed not more than there is of it.
LEMMA MaxGrant ==
  ASSUME NEW p, QuantitiesType(p), NEW s \in Subtypes
  PROVE  /\ map_resource_subtype_to_resource_type(s) \in Types
         /\ max_resource_grant_per_request(p, s) \in Nat
         /\ p.policy[map_resource_subtype_to_resource_type(s)].over = "DISALLOW_REQUESTS" =>
              max_resource_grant_per_request(p, s) <= p.total[map_resource_subtype_to_resource_type(s)]
<1> DEFINE t == map_resource_subtype_to_resource_type(s)
           quantity == IF s \in DOMAIN p.ratio THEN get_grant_quantity(p.ratio[s], p.total[t])
                       ELSE Unlimited
<1>1. t \in Types
  BY DEF map_resource_subtype_to_resource_type, Types, Subtypes
<1> HIDE DEF t
<1>2. p.total[t] \in Nat
  BY <1>1 DEF QuantitiesType
<1>3. ASSUME s \in DOMAIN p.ratio PROVE get_grant_quantity(p.ratio[s], p.total[t]) \in Nat
  <2>1. p.ratio[s].num \in Nat /\ p.ratio[s].den \in Nat \ {0}
    BY <1>3 DEF QuantitiesType
  <2>2. p.ratio[s].num * p.total[t] \in Nat
    BY <1>2, <2>1
  <2> QED BY <2>1, <2>2, CeilNat DEF get_grant_quantity
<1>4. quantity \in Nat
  BY <1>3 DEF Unlimited
<1>5. max_resource_grant_per_request(p, s)
        = IF p.policy[t].over = "DISALLOW_REQUESTS" THEN Least(quantity, p.total[t]) ELSE quantity
  BY DEF max_resource_grant_per_request, t
<1> HIDE DEF quantity
<1> QED BY <1>1, <1>2, <1>4, <1>5 DEF Least, t

\* What account adds to a subtype besides slots and result memory: the gated memory, or
\* the chunks that come or go.
BufferMoved(p, g, r, chunks, n, s) ==
  LET level == IF g.buffer_mem_gated_per_slot THEN "PAGEABLE_CPU_BUFFER_POOL_MEM"
               ELSE Pinned(r.device)
      delta == IF g.buffer_mem_gated_per_slot THEN n * g.buffer_mem_for_given_slots
               ELSE Bytes(chunks) - Bytes(p.chunks[r.device])
  IN IF s = level THEN delta ELSE 0

\* The fields of a pool after account.
AccountOf(p, g, r, chunks, n, q) ==
  /\ SameLimits(p, q)
  /\ q.allocated = [s \in Subtypes |-> p.allocated[s] + n * slots_and_result_mem(p, g, s)
                                         + BufferMoved(p, g, r, chunks, n, s)]
  /\ q.outstanding = p.outstanding + n
  /\ q.outstandingBy = count_requests(p, g, r, n)
  /\ q.chunks = [d \in Devices |-> IF d = r.device THEN chunks ELSE p.chunks[d]]
  /\ q = [total |-> q.total, policy |-> q.policy, ratio |-> q.ratio, result |-> q.result,
          allocated |-> q.allocated, chunks |-> q.chunks, outstanding |-> q.outstanding,
          outstandingBy |-> q.outstandingBy]

\* What account does to the fields of a pool.
LEMMA AccountFields ==
  ASSUME NEW p, PoolType(p), NEW g, NEW r, RequestShape(r), NEW chunks, NEW n
  PROVE  AccountOf(p, g, r, chunks, n, account(p, g, r, chunks, n))
<1> DEFINE q == account(p, g, r, chunks, n)
           alloc == [s \in Subtypes |-> p.allocated[s] + n * slots_and_result_mem(p, g, s)
                                          + BufferMoved(p, g, r, chunks, n, s)]
           counts == count_requests(p, g, r, n)
<1>1. q = [p EXCEPT !.allocated = alloc, !.outstanding = @ + n, !.outstandingBy = counts,
                    !.chunks[r.device] = chunks]
  BY ZenonT(60) DEF account, BufferMoved
<1> HIDE DEF alloc, counts, q
<1>2. p = [total |-> p.total, policy |-> p.policy, ratio |-> p.ratio, result |-> p.result,
           allocated |-> p.allocated, chunks |-> p.chunks, outstanding |-> p.outstanding,
           outstandingBy |-> p.outstandingBy]
  BY DEF PoolType
<1>3. q = [total |-> p.total, policy |-> p.policy, ratio |-> p.ratio, result |-> p.result,
           allocated |-> alloc, chunks |-> [p.chunks EXCEPT ![r.device] = chunks],
           outstanding |-> p.outstanding + n, outstandingBy |-> counts]
  BY <1>1, <1>2, ZenonT(60)
<1>4. /\ SameLimits(p, q) /\ q.allocated = alloc /\ q.outstanding = p.outstanding + n
      /\ q.outstandingBy = counts /\ q.chunks = [p.chunks EXCEPT ![r.device] = chunks]
  BY <1>3 DEF SameLimits
<1>5. [p.chunks EXCEPT ![r.device] = chunks]
        = [d \in Devices |-> IF d = r.device THEN chunks ELSE p.chunks[d]]
  BY DEF PoolType, RequestShape
<1>6. q = [total |-> q.total, policy |-> q.policy, ratio |-> q.ratio, result |-> q.result,
           allocated |-> q.allocated, chunks |-> q.chunks, outstanding |-> q.outstanding,
           outstandingBy |-> q.outstandingBy]
  BY <1>3, <1>4, ZenonT(60) DEF SameLimits
<1>7. AccountOf(p, g, r, chunks, n, q)
  BY <1>4, <1>5, <1>6 DEF AccountOf, alloc, counts
<1> QED BY <1>7 DEF q

\* What is allocated of a resource is a number.
LEMMA AllocatedInt ==
  ASSUME NEW p, PoolType(p), NEW t \in Types
  PROVE  get_allocated_resource_of_type(p, t) \in Int
BY DEF PoolType, get_allocated_resource_of_type, Types, Subtypes

\* A single resource is granted between the least and the most, and within what is left
\* where the least leaves something.
LEMMA SingleGrant ==
  ASSUME NEW lo \in Nat, NEW hi \in Nat, lo <= hi, NEW a \in Int, NEW t \in Nat,
         NEW x, x = determine_dynamic_single_resource_grant(lo, hi, a, t)
  PROVE  /\ x \in lo .. hi
         /\ x + a <= t \/ x = lo
<1> DEFINE y == (2 * BackoffNum * (t - a) + BackoffDen) \div (2 * BackoffDen)
<1>1. CASE lo + a >= t
  BY <1>1 DEF determine_dynamic_single_resource_grant
<1>2. CASE ~(lo + a >= t)
  <2>1. t - a \in Nat
    BY <1>2
  <2>2. y \in Nat /\ y <= t - a
    BY <2>1, BackoffWithin
  <2>3. determine_dynamic_single_resource_grant(lo, hi, a, t) = Greatest(lo, Least(hi, y))
    BY <1>2 DEF determine_dynamic_single_resource_grant
  <2> HIDE DEF y
  <2> QED BY <1>2, <2>2, <2>3 DEF Greatest, Least
<1> QED BY <1>1, <1>2

-----------------------------------------------------------------------------
(***************************************************************************)
(* The books.  h maps the holders of grants to [request, grant].           *)
(***************************************************************************)
\* What a holder has of an account: slots and result memory by subtype, gated memory,
\* and one in the count of the requests of a resource type.
Share(p, x, account_kind, s) ==
  CASE account_kind = "slots" -> slots_and_result_mem(p, x.grant, s)
    [] account_kind = "gated" -> x.grant.buffer_mem_for_given_slots
    [] OTHER -> (IF s \in counted_types(p, x.grant) THEN 1 ELSE 0)
                  + (IF s = BufferPool(x.request.device) /\ counts_buffer_pool(x.grant, x.request)
                     THEN 1 ELSE 0)

Kinds == {"slots", "gated", "count"}
Shares(p, h, kind, s) == [c \in DOMAIN h |-> Share(p, h[c], kind, s)]
Sum(p, h, kind, s) == SumFunction(Shares(p, h, kind, s))

HeldType(h) ==
  /\ IsFiniteSet(DOMAIN h)
  /\ \A c \in DOMAIN h : RequestShape(h[c].request) /\ GrantType(h[c].grant, h[c].request)

Added(h, k, c, x) ==
  /\ c \notin DOMAIN h /\ DOMAIN k = DOMAIN h \cup {c}
  /\ k[c] = x /\ \A d \in DOMAIN h : k[d] = h[d]
Dropped(h, k, c) ==
  /\ c \in DOMAIN h /\ DOMAIN k = DOMAIN h \ {c}
  /\ \A d \in DOMAIN k : k[d] = h[d]

\* Shares are quantities.
LEMMA ShareNat ==
  ASSUME NEW p, NEW x, RequestShape(x.request), GrantType(x.grant, x.request), NEW kind, NEW s
  PROVE  Share(p, x, kind, s) \in Nat
BY DEF Share, slots_and_result_mem, GrantType

\* The sum of the shares, and that each is a part of it.
LEMMA SumShares ==
  ASSUME NEW p, NEW h, HeldType(h), NEW kind, NEW s
  PROVE  /\ Sum(p, h, kind, s) \in Nat
         /\ \A c \in DOMAIN h : Share(p, h[c], kind, s) \in Nat
                                  /\ Share(p, h[c], kind, s) <= Sum(p, h, kind, s)
         /\ (\A c \in DOMAIN h : Share(p, h[c], kind, s) = 0) => Sum(p, h, kind, s) = 0
<1> DEFINE f == Shares(p, h, kind, s)
<1>1. DOMAIN f = DOMAIN h /\ \A c \in DOMAIN h : f[c] = Share(p, h[c], kind, s)
  BY DEF Shares
<1>2. IsFiniteSet(DOMAIN h) /\ \A c \in DOMAIN h : Share(p, h[c], kind, s) \in Nat
  BY ShareNat DEF HeldType
<1>3. Sum(p, h, kind, s) = SumFunctionOnSet(f, DOMAIN h)
  BY <1>1 DEF Sum, SumFunction
<1> HIDE DEF f
<1>4. /\ SumFunctionOnSet(f, DOMAIN h) \in Nat
      /\ \A c \in DOMAIN h : f[c] <= SumFunctionOnSet(f, DOMAIN h)
      /\ (\A c \in DOMAIN h : f[c] = 0) => SumFunctionOnSet(f, DOMAIN h) = 0
  BY <1>1, <1>2, SumNat, ZenonT(60)
<1> QED BY <1>1, <1>2, <1>3, <1>4

\* A new holder adds its share.
LEMMA SumAdded ==
  ASSUME NEW p, NEW h, HeldType(h), NEW q, q.result = p.result,
         NEW c, NEW x, RequestShape(x.request), GrantType(x.grant, x.request),
         NEW k, Added(h, k, c, x), NEW kind, NEW s
  PROVE  Sum(q, k, kind, s) = Sum(p, h, kind, s) + Share(p, x, kind, s)
<1> DEFINE f == Shares(p, h, kind, s)
           g == Shares(q, k, kind, s)
<1>0. \A y : Share(q, y, kind, s) = Share(p, y, kind, s)
  BY ZenonT(60) DEF Share, slots_and_result_mem, counted_types
<1>1. /\ DOMAIN f = DOMAIN h /\ \A d \in DOMAIN h : f[d] = Share(p, h[d], kind, s)
      /\ DOMAIN g = DOMAIN h \cup {c} /\ g[c] = Share(p, x, kind, s)
      /\ \A d \in DOMAIN h : g[d] = f[d]
  BY <1>0, ZenonT(60) DEF Shares, Added
<1>2. /\ IsFiniteSet(DOMAIN h) /\ c \notin DOMAIN h /\ Share(p, x, kind, s) \in Int
      /\ \A d \in DOMAIN h : Share(p, h[d], kind, s) \in Int
  BY ShareNat DEF HeldType, Added
<1>3. /\ Sum(p, h, kind, s) = SumFunctionOnSet(f, DOMAIN h)
      /\ Sum(q, k, kind, s) = SumFunctionOnSet(g, DOMAIN h \cup {c})
  BY <1>1, ZenonT(60) DEF Sum, SumFunction
<1> HIDE DEF f, g
<1>4. SumFunctionOnSet(g, DOMAIN h \cup {c}) = SumFunctionOnSet(f, DOMAIN h) + g[c]
  BY <1>1, <1>2, SumMore
<1> QED BY <1>1, <1>3, <1>4

\* A holder that leaves takes its share with it.
LEMMA SumDropped ==
  ASSUME NEW p, NEW h, HeldType(h), NEW q, q.result = p.result,
         NEW c, NEW k, Dropped(h, k, c), NEW kind, NEW s
  PROVE  Sum(q, k, kind, s) = Sum(p, h, kind, s) - Share(p, h[c], kind, s)
<1>1. HeldType(k) /\ RequestShape(h[c].request) /\ GrantType(h[c].grant, h[c].request)
  BY FS_Subset DEF HeldType, Dropped
<1>2. Added(k, h, c, h[c])
  BY DEF Added, Dropped
<1>3. Sum(p, h, kind, s) = Sum(q, k, kind, s) + Share(q, h[c], kind, s)
  BY <1>1, <1>2, SumAdded
<1>4. Share(q, h[c], kind, s) = Share(p, h[c], kind, s)
  BY ZenonT(60) DEF Share, slots_and_result_mem, counted_types
<1>5. Sum(q, k, kind, s) \in Nat /\ Share(q, h[c], kind, s) \in Nat
  BY <1>1, ShareNat, SumShares, ZenonT(60)
<1> QED BY <1>3, <1>4, <1>5

\* The ungated holders on a device, and those of them that refer to a chunk.
HoldersOf(h, d) == {c \in DOMAIN h : ~h[c].grant.buffer_mem_gated_per_slot /\ h[c].request.device = d}
Refer(h, d, k) == {c \in HoldersOf(h, d) : k \in DOMAIN h[c].request.chunks}

\* The chunks of a device are those its ungated holders refer to.
ChunksMatch(chunks, h, d) ==
  /\ \A k \in DOMAIN chunks :
       /\ Refer(h, d, k) # {} /\ chunks[k].refs = Cardinality(Refer(h, d, k))
       /\ \A c \in Refer(h, d, k) : h[c].request.chunks[k] <= chunks[k].size
  /\ \A c \in HoldersOf(h, d) : DOMAIN h[c].request.chunks \subseteq DOMAIN chunks

\* The memory a subtype has besides result memory: the chunks, and the gated memory.
Extra(p, h, s) ==
  CASE s = "PINNED_CPU_BUFFER_POOL_MEM" -> Bytes(p.chunks["CPU"])
    [] s = "PINNED_GPU_BUFFER_POOL_MEM" -> Bytes(p.chunks["GPU"])
    [] s = "PAGEABLE_CPU_BUFFER_POOL_MEM" -> Sum(p, h, "gated", "all")
    [] OTHER -> 0

\* The books of a pool agree with the grants that are out.
Books(p, h) ==
  /\ HeldType(h)
  /\ p.outstanding = Cardinality(DOMAIN h)
  /\ \A d \in Devices : ChunksMatch(p.chunks[d], h, d)
  /\ \A s \in Subtypes : p.allocated[s] = Sum(p, h, "slots", s) + Extra(p, h, s)
  /\ \A t \in Types : p.outstandingBy[t] = Sum(p, h, "count", t)

\* The size of the chunks.
LEMMA BytesNat ==
  ASSUME NEW chunks, ChunksType(chunks)
  PROVE  /\ Bytes(chunks) \in Nat
         /\ \A k \in DOMAIN chunks : chunks[k].size <= Bytes(chunks)
         /\ DOMAIN chunks = {} => Bytes(chunks) = 0
<1> DEFINE f == [c \in DOMAIN chunks |-> chunks[c].size]
<1>1. /\ DOMAIN f = DOMAIN chunks /\ IsFiniteSet(DOMAIN chunks)
      /\ \A k \in DOMAIN chunks : f[k] = chunks[k].size /\ f[k] \in Nat
  BY DEF ChunksType
<1>2. Bytes(chunks) = SumFunctionOnSet(f, DOMAIN chunks)
  BY <1>1 DEF Bytes, SumFunction
<1> HIDE DEF f
<1>3. /\ SumFunctionOnSet(f, DOMAIN chunks) \in Nat
      /\ \A k \in DOMAIN chunks : f[k] <= SumFunctionOnSet(f, DOMAIN chunks)
      /\ (\A k \in DOMAIN chunks : f[k] = 0) => SumFunctionOnSet(f, DOMAIN chunks) = 0
  BY <1>1, SumNat
<1>4. DOMAIN chunks = {} => SumFunctionOnSet(f, DOMAIN chunks) = 0
  BY <1>3
<1> QED BY <1>1, <1>2, <1>3, <1>4, ZenonT(60)

\* The books of a new pool, with no grants out.
LEMMA NewBooks ==
  ASSUME NEW c \in Configs, NEW p, p = generate_executor_resource_mgr(c),
         NEW h, DOMAIN h = {}
  PROVE  /\ LimitsType(p) /\ PoolType(p) /\ Books(p, h) /\ p.outstanding = 0
         /\ p.result = Separate <=> ~c.use_cpu_mem_pool_for_output_buffers
<1>1. LimitsType(p) /\ PoolType(p) /\ p.allocated = [s \in Subtypes |-> 0]
        /\ p.outstanding = 0 /\ p.outstandingBy = [t \in Types |-> 0]
        /\ p.chunks = [d \in Devices |-> <<>>]
        /\ (p.result = Separate <=> ~c.use_cpu_mem_pool_for_output_buffers)
  BY NewPool, ZenonT(60)
<1>2. HeldType(h) /\ Cardinality(DOMAIN h) = 0
  BY FS_EmptySet DEF HeldType
<1>3. \A kind, s : Sum(p, h, kind, s) = 0
  BY <1>2, SumShares, ZenonT(60)
<1>4. \A d \in Devices : p.chunks[d] = <<>> /\ DOMAIN p.chunks[d] = {} /\ ChunksType(p.chunks[d])
  BY <1>1 DEF PoolType
<1>5. \A d \in Devices : Bytes(p.chunks[d]) = 0
  BY <1>4, BytesNat, ZenonT(60)
<1>6. \A d \in Devices : ChunksMatch(p.chunks[d], h, d)
  BY <1>4 DEF ChunksMatch, HoldersOf
<1>7. \A s \in Subtypes : p.allocated[s] = 0 /\ Extra(p, h, s) = 0
  BY <1>1, <1>3, <1>5 DEF Extra, Devices
<1>8. \A t \in Types : p.outstandingBy[t] = 0
  BY <1>1, ZenonT(60)
<1>9. Books(p, h)
  BY <1>1, <1>2, <1>3, <1>6, <1>7, <1>8 DEF Books
<1> QED BY <1>1, <1>9

\* The pool q is p after account moved the share of a grant, n = 1 or -1 times, and the
\* holders k are those of h with the grant's holder x come or gone.
Moves(p, h, r, g, n, x, new, q, k) ==
  /\ PoolType(p) /\ Books(p, h) /\ RequestShape(r) /\ GrantType(g, r) /\ n \in {1, -1}
  /\ x.request = r /\ x.grant = g
  /\ ChunksType(new) /\ (g.buffer_mem_gated_per_slot => new = p.chunks[r.device])
  /\ AccountOf(p, g, r, new, n, q)
  /\ HeldType(k) /\ Cardinality(DOMAIN k) = Cardinality(DOMAIN h) + n
  /\ ChunksMatch(new, k, r.device)
  /\ \A d \in Devices : d # r.device => ChunksMatch(p.chunks[d], k, d)
  /\ \A kind, s : Sum(q, k, kind, s) = Sum(p, h, kind, s) + n * Share(p, x, kind, s)

\* A grant counts once for each of two reasons, and its count moves by as much.
LEMMA SignedCount ==
  ASSUME NEW n \in {1, -1}, NEW c \in Nat, NEW p, NEW g, NEW r, NEW t, NEW share,
         share = (IF t \in counted_types(p, g) THEN 1 ELSE 0)
                   + (IF t = BufferPool(r.device) /\ counts_buffer_pool(g, r) THEN 1 ELSE 0)
  PROVE  /\ c + n * share
              = c + (IF t \in counted_types(p, g) THEN n ELSE 0)
                  + (IF t = BufferPool(r.device) /\ counts_buffer_pool(g, r) THEN n ELSE 0)
         /\ c + n * share \in Int
OBVIOUS

\* The books of the buffer pools before and after a grant is accounted for.
BuffersMove(p, q, h, k, g, r, n, new) ==
  /\ n \in {1, -1} /\ r.device \in Devices
  /\ g.buffer_mem_gated_per_slot \in BOOLEAN /\ g.buffer_mem_for_given_slots \in Nat
  /\ ~g.buffer_mem_gated_per_slot => g.buffer_mem_for_given_slots = 0
  /\ g.buffer_mem_gated_per_slot => new = p.chunks[r.device]
  /\ Bytes(new) \in Nat /\ \A d \in Devices : Bytes(p.chunks[d]) \in Nat
  /\ \A d \in Devices : q.chunks[d] = IF d = r.device THEN new ELSE p.chunks[d]
  /\ Sum(p, h, "gated", "all") \in Nat
  /\ Sum(q, k, "gated", "all") = Sum(p, h, "gated", "all") + n * g.buffer_mem_for_given_slots

\* What is allocated besides slots and results is what the chunks of the pool and the
\* gated buffers take, and it moves as account moves it.
LEMMA ExtraMoves ==
  ASSUME NEW p, NEW q, NEW h, NEW k, NEW g, NEW r, NEW n, NEW new, NEW s,
         BuffersMove(p, q, h, k, g, r, n, new)
  PROVE  /\ Extra(q, k, s) = Extra(p, h, s) + BufferMoved(p, g, r, new, n, s)
         /\ Extra(p, h, s) \in Int /\ BufferMoved(p, g, r, new, n, s) \in Int
<1> USE DEF BuffersMove
<1> DEFINE moved == BufferMoved(p, g, r, new, n, s)
           given == n * g.buffer_mem_for_given_slots
<1>1. given \in Int /\ (~g.buffer_mem_gated_per_slot => given = 0)
  BY SignedNat, ZenonT(60)
<1>2. /\ Sum(q, k, "gated", "all") = Sum(p, h, "gated", "all") + given
      /\ g.buffer_mem_gated_per_slot
           => moved = IF s = "PAGEABLE_CPU_BUFFER_POOL_MEM" THEN given ELSE 0
  BY DEF BufferMoved
<1>3. ~g.buffer_mem_gated_per_slot
         => moved = IF s = Pinned(r.device) THEN Bytes(new) - Bytes(p.chunks[r.device]) ELSE 0
  BY ZenonT(60) DEF BufferMoved
<1> HIDE DEF moved, given
<1>4. /\ Extra(p, h, s) = CASE s = "PINNED_CPU_BUFFER_POOL_MEM" -> Bytes(p.chunks["CPU"])
                            [] s = "PINNED_GPU_BUFFER_POOL_MEM" -> Bytes(p.chunks["GPU"])
                            [] s = "PAGEABLE_CPU_BUFFER_POOL_MEM" -> Sum(p, h, "gated", "all")
                            [] OTHER -> 0
      /\ Extra(q, k, s) = CASE s = "PINNED_CPU_BUFFER_POOL_MEM" -> Bytes(q.chunks["CPU"])
                            [] s = "PINNED_GPU_BUFFER_POOL_MEM" -> Bytes(q.chunks["GPU"])
                            [] s = "PAGEABLE_CPU_BUFFER_POOL_MEM" -> Sum(q, k, "gated", "all")
                            [] OTHER -> 0
  BY ZenonT(60) DEF Extra
<1>5. Extra(p, h, s) \in Int
  BY <1>4 DEF Devices
<1>6. CASE g.buffer_mem_gated_per_slot
  <2>1. q.chunks["CPU"] = p.chunks["CPU"] /\ q.chunks["GPU"] = p.chunks["GPU"]
    BY <1>6, ZenonT(60) DEF Devices
  <2>2. Extra(q, k, s) = Extra(p, h, s) + moved /\ moved \in Int
    <3>1. CASE s = "PAGEABLE_CPU_BUFFER_POOL_MEM"
      BY ONLY <1>1, <1>2, <1>4, <1>6, <3>1, SMTT(60)
    <3>2. CASE s # "PAGEABLE_CPU_BUFFER_POOL_MEM"
      <4>1. moved = 0 /\ Extra(q, k, s) = Extra(p, h, s)
        BY <1>2, <1>4, <1>6, <2>1, <3>2, ZenonT(60)
      <4> QED BY ONLY <1>5, <4>1, SMTT(60)
    <3> QED BY <3>1, <3>2
  <2> QED BY <1>5, <2>2, ZenonT(60) DEF moved
<1>7. CASE ~g.buffer_mem_gated_per_slot
  <2>1. Sum(q, k, "gated", "all") = Sum(p, h, "gated", "all")
    BY <1>1, <1>2, <1>7
  <2>2. r.device = "CPU" \/ r.device = "GPU"
    BY ZenonT(60) DEF Devices
  <2>3. Extra(q, k, s) = Extra(p, h, s) + moved /\ moved \in Int
    BY <1>3, <1>4, <1>5, <1>7, <2>1, <2>2 DEF Devices, Pinned
  <2> QED BY <1>5, <2>3, ZenonT(60) DEF moved
<1> QED BY <1>6, <1>7, ZenonT(60)

\* account moves every account by the share of the grant, and so keeps the books of
\* those who hold grants in agreement with a pool whose chunks do.
LEMMA AccountBooks ==
  ASSUME NEW p, NEW h, NEW r, NEW g, NEW n, NEW x, NEW new, NEW q, NEW k,
         Moves(p, h, r, g, n, x, new, q, k)
  PROVE  SameLimits(p, q) /\ PoolType(q) /\ Books(q, k)
<1> SUFFICES ASSUME PoolType(p), Books(p, h), RequestShape(r), GrantType(g, r), n \in {1, -1},
                    x.request = r, x.grant = g,
                    ChunksType(new), g.buffer_mem_gated_per_slot => new = p.chunks[r.device],
                    AccountOf(p, g, r, new, n, q),
                    HeldType(k), Cardinality(DOMAIN k) = Cardinality(DOMAIN h) + n,
                    ChunksMatch(new, k, r.device),
                    \A d \in Devices : d # r.device => ChunksMatch(p.chunks[d], k, d),
                    \A kind, s : Sum(q, k, kind, s) = Sum(p, h, kind, s) + n * Share(p, x, kind, s)
             PROVE  SameLimits(p, q) /\ PoolType(q) /\ Books(q, k)
  BY ZenonT(60) DEF Moves
<1>1. /\ SameLimits(p, q)
      /\ q.allocated = [s \in Subtypes |-> p.allocated[s] + n * slots_and_result_mem(p, g, s)
                                             + BufferMoved(p, g, r, new, n, s)]
      /\ q.outstanding = p.outstanding + n
      /\ q.outstandingBy = count_requests(p, g, r, n)
      /\ q.chunks = [d \in Devices |-> IF d = r.device THEN new ELSE p.chunks[d]]
      /\ q = [total |-> q.total, policy |-> q.policy, ratio |-> q.ratio, result |-> q.result,
              allocated |-> q.allocated, chunks |-> q.chunks, outstanding |-> q.outstanding,
              outstandingBy |-> q.outstandingBy]
  BY ZenonT(60) DEF AccountOf
<1>2. HeldType(h) /\ Cardinality(DOMAIN h) \in Nat
  BY FS_CardinalityType, ZenonT(60) DEF Books, HeldType
<1>3. q.outstanding = Cardinality(DOMAIN k) /\ q.outstanding \in Int
  BY <1>1, <1>2 DEF Books
<1>4. \A d \in Devices : ChunksType(q.chunks[d]) /\ ChunksMatch(q.chunks[d], k, d)
  BY <1>1 DEF PoolType
<1>5. \A kind, s : Sum(p, h, kind, s) \in Nat /\ Share(p, x, kind, s) \in Nat
  BY <1>2, SumShares, ShareNat, ZenonT(60)
<1>6. /\ \A s : Share(p, x, "slots", s) = slots_and_result_mem(p, g, s)
      /\ \A s : Share(p, x, "gated", s) = g.buffer_mem_for_given_slots
      /\ \A s : Share(p, x, "count", s)
                  = (IF s \in counted_types(p, g) THEN 1 ELSE 0)
                      + (IF s = BufferPool(r.device) /\ counts_buffer_pool(g, r) THEN 1 ELSE 0)
  BY DEF Share
<1>7. /\ Sum(q, k, "gated", "all") = Sum(p, h, "gated", "all") + n * g.buffer_mem_for_given_slots
      /\ Sum(p, h, "gated", "all") \in Nat
  BY <1>5, <1>6, ZenonT(60)
<1>8. \A s \in Subtypes : q.allocated[s] = Sum(q, k, "slots", s) + Extra(q, k, s)
                            /\ q.allocated[s] \in Int
  <2> SUFFICES ASSUME NEW s \in Subtypes
               PROVE  q.allocated[s] = Sum(q, k, "slots", s) + Extra(q, k, s) /\ q.allocated[s] \in Int
    BY ZenonT(60)
  <2>1. /\ Extra(q, k, s) = Extra(p, h, s) + BufferMoved(p, g, r, new, n, s)
        /\ Extra(p, h, s) \in Int /\ BufferMoved(p, g, r, new, n, s) \in Int
    <3>1. /\ Bytes(new) \in Nat /\ \A d \in Devices : Bytes(p.chunks[d]) \in Nat
          /\ \A d \in Devices : q.chunks[d] = IF d = r.device THEN new ELSE p.chunks[d]
          /\ r.device \in Devices
      BY <1>1, BytesNat, ZenonT(60) DEF PoolType, RequestShape
    <3>2. /\ g.buffer_mem_gated_per_slot \in BOOLEAN /\ g.buffer_mem_for_given_slots \in Nat
          /\ ~g.buffer_mem_gated_per_slot => g.buffer_mem_for_given_slots = 0
      BY ZenonT(60) DEF GrantType
    <3>3. BuffersMove(p, q, h, k, g, r, n, new)
      BY <1>7, <3>1, <3>2, ZenonT(60) DEF BuffersMove
    <3> QED BY ONLY <3>3, ExtraMoves, ZenonT(60)
  <2>2. /\ q.allocated[s] = p.allocated[s] + n * slots_and_result_mem(p, g, s)
                             + BufferMoved(p, g, r, new, n, s)
        /\ p.allocated[s] = Sum(p, h, "slots", s) + Extra(p, h, s)
    BY <1>1, ZenonT(60) DEF Books
  <2>3. /\ Sum(q, k, "slots", s) = Sum(p, h, "slots", s) + n * slots_and_result_mem(p, g, s)
        /\ Sum(p, h, "slots", s) \in Nat /\ slots_and_result_mem(p, g, s) \in Nat
    BY <1>5, <1>6, ZenonT(60)
  <2>4. Sum(p, h, "slots", s) \in Int /\ n * slots_and_result_mem(p, g, s) \in Int
    BY <2>3, SignedNat, NatsAreInts, ZenonT(60)
  <2>5. LET a == ((Sum(p, h, "slots", s) + Extra(p, h, s)) + n * slots_and_result_mem(p, g, s))
                   + BufferMoved(p, g, r, new, n, s)
        IN /\ a = (Sum(p, h, "slots", s) + n * slots_and_result_mem(p, g, s))
                    + (Extra(p, h, s) + BufferMoved(p, g, r, new, n, s))
           /\ a \in Int
    BY <2>1, <2>4, TwoParts, ZenonT(60)
  <2> QED BY <2>1, <2>2, <2>3, <2>5, ZenonT(60)
<1>9. \A t \in Types : q.outstandingBy[t] = Sum(q, k, "count", t) /\ q.outstandingBy[t] \in Int
  <2> SUFFICES ASSUME NEW t \in Types
               PROVE  q.outstandingBy[t] = Sum(q, k, "count", t) /\ q.outstandingBy[t] \in Int
    BY ZenonT(60)
  <2>1. q.outstandingBy[t] = p.outstandingBy[t] + (IF t \in counted_types(p, g) THEN n ELSE 0)
                         + (IF t = BufferPool(r.device) /\ counts_buffer_pool(g, r) THEN n ELSE 0)
    BY <1>1, ZenonT(60) DEF count_requests
  <2>2. /\ p.outstandingBy[t] = Sum(p, h, "count", t) /\ Sum(p, h, "count", t) \in Nat
        /\ Sum(q, k, "count", t) = Sum(p, h, "count", t) + n * Share(p, x, "count", t)
    BY <1>5, ZenonT(60) DEF Books
  <2>3. Share(p, x, "count", t)
          = (IF t \in counted_types(p, g) THEN 1 ELSE 0)
              + (IF t = BufferPool(r.device) /\ counts_buffer_pool(g, r) THEN 1 ELSE 0)
    BY <1>6, ZenonT(60)
  <2>4. /\ Sum(p, h, "count", t) + n * Share(p, x, "count", t)
             = Sum(p, h, "count", t) + (IF t \in counted_types(p, g) THEN n ELSE 0)
                 + (IF t = BufferPool(r.device) /\ counts_buffer_pool(g, r) THEN n ELSE 0)
        /\ Sum(p, h, "count", t) + n * Share(p, x, "count", t) \in Int
    BY ONLY <2>2, <2>3, n \in {1, -1}, SignedCount
  <2> QED BY <2>1, <2>2, <2>4, ZenonT(60)
<1>10. q.allocated \in [Subtypes -> Int] /\ q.outstandingBy \in [Types -> Int]
  BY <1>1, <1>8, <1>9, ZenonT(60) DEF count_requests
<1>11. q.chunks = [d \in Devices |-> q.chunks[d]]
  BY <1>1, ZenonT(60)
<1>12. PoolType(q)
  BY <1>1, <1>3, <1>4, <1>10, <1>11, ZenonT(60) DEF PoolType
<1> QED BY <1>1, <1>3, <1>4, <1>8, <1>9, <1>12, ZenonT(60) DEF Books

\* Who refers to a chunk is a finite set, and whether a holder is the last one shows in
\* its size.
LEMMA ReferFinite ==
  ASSUME NEW h, HeldType(h), NEW d, NEW k
  PROVE  /\ IsFiniteSet(Refer(h, d, k)) /\ Cardinality(Refer(h, d, k)) \in Nat
         /\ Refer(h, d, k) # {} => Cardinality(Refer(h, d, k)) > 0
         /\ \A c \in Refer(h, d, k) :
              /\ Cardinality(Refer(h, d, k) \ {c}) = Cardinality(Refer(h, d, k)) - 1
              /\ Cardinality(Refer(h, d, k)) > 1 <=> Refer(h, d, k) \ {c} # {}
         /\ \A c : c \notin Refer(h, d, k) =>
              Cardinality(Refer(h, d, k) \cup {c}) = Cardinality(Refer(h, d, k)) + 1
<1> DEFINE R == Refer(h, d, k)
<1>1. IsFiniteSet(R)
  BY FS_Subset DEF HeldType, Refer, HoldersOf
<1> HIDE DEF R
<1>2. Cardinality(R) \in Nat /\ (R # {} => Cardinality(R) > 0)
  BY <1>1, FS_CardinalityType, FS_EmptySet
<1>3. ASSUME NEW c \in R
      PROVE  /\ Cardinality(R \ {c}) = Cardinality(R) - 1
             /\ Cardinality(R) > 1 <=> R \ {c} # {}
  <2>1. IsFiniteSet(R \ {c}) /\ Cardinality(R \ {c}) = Cardinality(R) - 1
    BY <1>1, FS_RemoveElement
  <2>2. Cardinality(R \ {c}) \in Nat /\ (Cardinality(R \ {c}) = 0 <=> R \ {c} = {})
    BY <2>1, FS_CardinalityType, FS_EmptySet, ZenonT(60)
  <2> QED BY <1>2, <2>1, <2>2
<1>4. \A c : c \notin R => Cardinality(R \cup {c}) = Cardinality(R) + 1
  BY <1>1, FS_AddElement, ZenonT(60)
<1> QED BY <1>1, <1>2, <1>3, <1>4 DEF R

\* Who refers to a chunk after a holder has come.
LEMMA ReferAdded ==
  ASSUME NEW h, NEW k, NEW c, NEW x, Added(h, k, c, x), NEW d, NEW m
  PROVE  /\ c \notin Refer(h, d, m) /\ c \notin HoldersOf(h, d)
         /\ ~(~x.grant.buffer_mem_gated_per_slot /\ x.request.device = d) =>
              Refer(k, d, m) = Refer(h, d, m) /\ HoldersOf(k, d) = HoldersOf(h, d)
         /\ ~x.grant.buffer_mem_gated_per_slot /\ x.request.device = d =>
              /\ HoldersOf(k, d) = HoldersOf(h, d) \cup {c}
              /\ Refer(k, d, m) = IF m \in DOMAIN x.request.chunks THEN Refer(h, d, m) \cup {c}
                                  ELSE Refer(h, d, m)
BY DEF Added, Refer, HoldersOf

\* A holder that has no chunks of a device leaves the device's alone.
LEMMA OtherAdded ==
  ASSUME NEW h, NEW k, NEW c, NEW x, Added(h, k, c, x), NEW d, NEW chunks,
         ~(~x.grant.buffer_mem_gated_per_slot /\ x.request.device = d)
  PROVE  ChunksMatch(chunks, h, d) <=> ChunksMatch(chunks, k, d)
<1>1. HoldersOf(k, d) = HoldersOf(h, d) /\ \A m : Refer(k, d, m) = Refer(h, d, m)
  BY ReferAdded
<1>2. \A m : \A b \in Refer(h, d, m) : k[b] = h[b]
  BY DEF Added, Refer, HoldersOf
<1>3. \A b \in HoldersOf(h, d) : k[b] = h[b]
  BY ZenonT(60) DEF Added, HoldersOf
<1> QED BY <1>1, <1>2, <1>3, Zenon DEF ChunksMatch

\* add_chunk_requests_to_allocated_pool pledges the chunks of a new holder.
LEMMA AddedEntry ==
  ASSUME NEW chunks, ChunksType(chunks), NEW r, RequestShape(r),
         NEW new, new = add_chunk_requests_to_allocated_pool(chunks, r), NEW m \in DOMAIN new
  PROVE  /\ new[m] \in [refs : Int, size : Nat]
         /\ m \notin DOMAIN r.chunks => new[m] = chunks[m] /\ m \in DOMAIN chunks
         /\ m \in DOMAIN r.chunks /\ m \notin DOMAIN chunks =>
              new[m].refs = 1 /\ new[m].size = r.chunks[m]
         /\ m \in DOMAIN r.chunks /\ m \in DOMAIN chunks =>
              new[m].refs = chunks[m].refs + 1 /\ new[m].size = Greatest(chunks[m].size, r.chunks[m])
<1>1. /\ m \in DOMAIN chunks => chunks[m] \in [refs : Int, size : Nat]
      /\ m \in DOMAIN r.chunks => r.chunks[m] \in Nat
  BY ZenonT(60) DEF ChunksType, RequestShape
<1>2. CASE m \notin DOMAIN r.chunks
  <2>1. new[m] = chunks[m] /\ m \in DOMAIN chunks
    BY <1>2, ZenonT(60) DEF add_chunk_requests_to_allocated_pool
  <2> QED BY <1>1, <1>2, <2>1, ZenonT(60)
<1>3. CASE m \in DOMAIN r.chunks /\ m \notin DOMAIN chunks
  <2>1. new[m] = [refs |-> 1, size |-> r.chunks[m]]
    BY <1>3, ZenonT(60) DEF add_chunk_requests_to_allocated_pool
  <2> QED BY <1>1, <1>3, <2>1
<1>4. CASE m \in DOMAIN r.chunks /\ m \in DOMAIN chunks
  <2>1. new[m] = [refs |-> chunks[m].refs + 1, size |-> Greatest(chunks[m].size, r.chunks[m])]
    BY <1>4 DEF add_chunk_requests_to_allocated_pool
  <2>2. Greatest(chunks[m].size, r.chunks[m]) \in Nat
    BY <1>1, <1>4 DEF Greatest
  <2> QED BY ONLY <1>1, <1>4, <2>1, <2>2, SMTT(60)
<1> QED BY <1>2, <1>3, <1>4

\* A holder x that comes without a gate, and the chunks of its device before and after.
Pledged(h, k, c, x, d, chunks, new) ==
  /\ HeldType(h) /\ Added(h, k, c, x) /\ RequestShape(x.request)
  /\ ~x.grant.buffer_mem_gated_per_slot /\ x.request.device = d
  /\ ChunksType(chunks) /\ ChunksMatch(chunks, h, d)
  /\ new = add_chunk_requests_to_allocated_pool(chunks, x.request)

\* The chunks of a request that is granted without a gate join those of its device.
LEMMA ChunksAdded ==
  ASSUME NEW h, NEW k, NEW c, NEW x, NEW d, NEW chunks, NEW new,
         Pledged(h, k, c, x, d, chunks, new)
  PROVE  ChunksType(new) /\ ChunksMatch(new, k, d)
<1> DEFINE r == x.request.chunks
<1>1. DOMAIN new = DOMAIN chunks \cup DOMAIN r /\ new = [m \in DOMAIN new |-> new[m]]
  BY ZenonT(60) DEF Pledged, add_chunk_requests_to_allocated_pool
<1>2. /\ IsFiniteSet(DOMAIN r) /\ \A m \in DOMAIN r : r[m] \in Nat
  BY DEF Pledged, RequestShape
<1>3. /\ IsFiniteSet(DOMAIN chunks)
      /\ \A m \in DOMAIN chunks : chunks[m].refs \in Int /\ chunks[m].size \in Nat
                                    /\ chunks[m] \in [refs : Int, size : Nat]
  BY ZenonT(60) DEF Pledged, ChunksType
<1>4. \A m \in DOMAIN new :
        /\ new[m] \in [refs : Int, size : Nat]
        /\ m \notin DOMAIN r => new[m] = chunks[m] /\ m \in DOMAIN chunks
        /\ m \in DOMAIN r /\ m \notin DOMAIN chunks => new[m].refs = 1 /\ new[m].size = r[m]
        /\ m \in DOMAIN r /\ m \in DOMAIN chunks =>
             new[m].refs = chunks[m].refs + 1 /\ new[m].size = Greatest(chunks[m].size, r[m])
  BY AddedEntry DEF Pledged
<1>5. /\ HoldersOf(k, d) = HoldersOf(h, d) \cup {c}
      /\ \A m : /\ c \notin Refer(h, d, m)
                /\ Refer(k, d, m) = IF m \in DOMAIN r THEN Refer(h, d, m) \cup {c} ELSE Refer(h, d, m)
  BY ReferAdded DEF Pledged
<1>6. k[c].request.chunks = r /\ \A b \in HoldersOf(h, d) : k[b] = h[b]
  BY DEF Pledged, Added, HoldersOf
<1>7. \A m : Refer(h, d, m) \subseteq HoldersOf(h, d)
  BY DEF Refer
<1>8. ChunksMatch(chunks, h, d) /\ HeldType(h)
  BY DEF Pledged
<1> HIDE DEF r
<1>9. ChunksType(new)
  <2>1. IsFiniteSet(DOMAIN new)
    <3>1. IsFiniteSet(DOMAIN chunks) /\ IsFiniteSet(DOMAIN r)
      BY <1>2, <1>3
    <3>2. IsFiniteSet(DOMAIN chunks \cup DOMAIN r)
      BY <3>1, FS_Union, ZenonT(60)
    <3> QED BY <1>1, <3>2
  <2> QED BY <1>1, <1>4, <2>1 DEF ChunksType
<1>10. ASSUME NEW m \in DOMAIN new
       PROVE  /\ Refer(k, d, m) # {} /\ new[m].refs = Cardinality(Refer(k, d, m))
              /\ \A b \in Refer(k, d, m) : k[b].request.chunks[m] <= new[m].size
  <2>1. CASE m \notin DOMAIN r
    <3>1. m \in DOMAIN chunks /\ new[m] = chunks[m] /\ Refer(k, d, m) = Refer(h, d, m)
      BY <1>4, <1>5, <2>1, ZenonT(60)
    <3> QED BY <1>6, <1>7, <1>8, <3>1, ZenonT(60) DEF ChunksMatch
  <2>2. CASE m \in DOMAIN r /\ m \notin DOMAIN chunks
    <3>1. new[m].refs = 1 /\ new[m].size = r[m]
      BY <1>4, <2>2, ZenonT(60)
    <3>2. Refer(h, d, m) = {}
      BY <1>7, <1>8, <2>2 DEF ChunksMatch, Refer
    <3>3. Refer(k, d, m) = {c} /\ Cardinality({c}) = 1
      BY <1>5, <2>2, <3>2, FS_Singleton, ZenonT(60)
    <3> QED BY ONLY <1>2, <1>6, <2>2, <3>1, <3>3, SMTT(60)
  <2>3. CASE m \in DOMAIN r /\ m \in DOMAIN chunks
    <3>1. new[m].refs = chunks[m].refs + 1 /\ new[m].size = Greatest(chunks[m].size, r[m])
      BY <1>4, <2>3
    <3>2. Cardinality(Refer(k, d, m)) = Cardinality(Refer(h, d, m)) + 1
      BY <1>5, <1>8, <2>3, ReferFinite
    <3>3. chunks[m].refs = Cardinality(Refer(h, d, m))
      BY <1>8, <2>3 DEF ChunksMatch
    <3>4. chunks[m].size <= new[m].size /\ r[m] <= new[m].size /\ new[m].size \in Nat
      BY <1>2, <1>3, <2>3, <3>1 DEF Greatest
    <3>5. ASSUME NEW b \in Refer(h, d, m) PROVE k[b].request.chunks[m] <= new[m].size
      <4>1. h[b].request.chunks[m] <= chunks[m].size /\ k[b] = h[b]
        BY <1>6, <1>7, <1>8, <2>3, ZenonT(60) DEF ChunksMatch
      <4>2. h[b].request.chunks[m] \in Nat
        BY <1>8, ZenonT(60) DEF Refer, HoldersOf, HeldType, RequestShape
      <4> QED BY <1>3, <2>3, <3>4, <4>1, <4>2
    <3>6. k[c].request.chunks[m] <= new[m].size
      BY <1>6, <3>4, ZenonT(60)
    <3> QED BY <1>5, <2>3, <3>1, <3>2, <3>3, <3>5, <3>6, ZenonT(60)
  <2> QED BY <1>1, <2>1, <2>2, <2>3, ZenonT(60)
<1>11. \A b \in HoldersOf(k, d) : DOMAIN k[b].request.chunks \subseteq DOMAIN new
  BY <1>1, <1>5, <1>6, <1>8, ZenonT(60) DEF ChunksMatch
<1> QED BY <1>9, <1>10, <1>11, ZenonT(60) DEF ChunksMatch

\* What is left of a chunk after a holder has gone.
Removed(chunks, r, new) ==
  /\ new = [m \in DOMAIN new |-> new[m]]
  /\ DOMAIN new = {m \in DOMAIN chunks : m \in DOMAIN r => chunks[m].refs > 1}
  /\ \A m \in DOMAIN new :
       /\ new[m] \in [refs : Int, size : Nat] /\ new[m].size = chunks[m].size
       /\ new[m].refs = IF m \in DOMAIN r THEN chunks[m].refs - 1 ELSE chunks[m].refs

\* remove_chunk_requests_from_allocated_pool takes one reference off every chunk of the
\* request, and the chunk away with the last one.
LEMMA RemovedEntry ==
  ASSUME NEW chunks, ChunksType(chunks), NEW r,
         NEW new, new = remove_chunk_requests_from_allocated_pool(chunks, r)
  PROVE  Removed(chunks, r.chunks, new)
<1>0. new = [m \in DOMAIN new |-> new[m]]
  BY DEF remove_chunk_requests_from_allocated_pool
<1>1. DOMAIN new = {m \in DOMAIN chunks : m \in DOMAIN r.chunks => chunks[m].refs > 1}
  BY ZenonT(60) DEF remove_chunk_requests_from_allocated_pool
<1>2. ASSUME NEW m \in DOMAIN new
      PROVE  /\ new[m] \in [refs : Int, size : Nat] /\ new[m].size = chunks[m].size
             /\ new[m].refs = IF m \in DOMAIN r.chunks THEN chunks[m].refs - 1 ELSE chunks[m].refs
  <2>1. chunks[m] \in [refs : Int, size : Nat]
    BY <1>1 DEF ChunksType
  <2>2. CASE m \in DOMAIN r.chunks
    <3>1. new[m] = [chunks[m] EXCEPT !.refs = @ - 1]
      BY <1>1, <2>2, ZenonT(60) DEF remove_chunk_requests_from_allocated_pool
    <3> QED BY <2>1, <2>2, <3>1
  <2>3. CASE m \notin DOMAIN r.chunks
    <3>1. new[m] = chunks[m]
      BY <1>1, <2>3, ZenonT(60) DEF remove_chunk_requests_from_allocated_pool
    <3> QED BY <2>1, <2>3, <3>1
  <2> QED BY <2>2, <2>3
<1> QED BY <1>0, <1>1, <1>2 DEF Removed

\* remove_chunk_requests_from_allocated_pool gives up the chunks of a holder that goes,
\* and drops those it was the last to refer to.
LEMMA ChunksDropped ==
  ASSUME NEW h, HeldType(h), NEW k, NEW c, Dropped(h, k, c),
         ~h[c].grant.buffer_mem_gated_per_slot, NEW d, h[c].request.device = d,
         NEW chunks, ChunksType(chunks), ChunksMatch(chunks, h, d),
         NEW new, new = remove_chunk_requests_from_allocated_pool(chunks, h[c].request)
  PROVE  ChunksType(new) /\ ChunksMatch(new, k, d)
<1> DEFINE r == h[c].request.chunks
<1>0. Removed(chunks, r, new)
  BY RemovedEntry
<1> HIDE DEF r
<1>1. DOMAIN new = {m \in DOMAIN chunks : m \in DOMAIN r => chunks[m].refs > 1}
  BY <1>0 DEF Removed
<1>2. \A m \in DOMAIN new :
        /\ new[m] \in [refs : Int, size : Nat] /\ new[m].size = chunks[m].size
        /\ new[m].refs = IF m \in DOMAIN r THEN chunks[m].refs - 1 ELSE chunks[m].refs
  BY <1>0, Zenon DEF Removed
<1>3. ChunksType(new)
  <2>1. IsFiniteSet(DOMAIN new)
    BY <1>1, FS_Subset DEF ChunksType
  <2>2. new = [m \in DOMAIN new |-> new[m]]
    BY <1>0, Zenon DEF Removed
  <2>3. \A m \in DOMAIN new : new[m] \in [refs : Int, size : Nat]
    BY <1>2
  <2> QED BY <2>1, <2>2, <2>3 DEF ChunksType
<1>4. Added(k, h, c, h[c])
  BY ZenonT(60) DEF Added, Dropped
<1>5. /\ c \in HoldersOf(h, d) /\ HoldersOf(k, d) = HoldersOf(h, d) \ {c}
      /\ \A m : /\ Refer(k, d, m) = Refer(h, d, m) \ {c}
                /\ c \in Refer(h, d, m) <=> m \in DOMAIN r
  BY DEF Dropped, HoldersOf, Refer, r
<1>6. \A b \in HoldersOf(k, d) : k[b] = h[b]
  BY DEF Dropped, HoldersOf
<1>7. \A m : Refer(k, d, m) \subseteq HoldersOf(k, d)
  BY ZenonT(60) DEF Refer
<1> HIDE DEF r
<1>8. ASSUME NEW m \in DOMAIN new
      PROVE  /\ Refer(k, d, m) # {} /\ new[m].refs = Cardinality(Refer(k, d, m))
             /\ \A b \in Refer(k, d, m) : k[b].request.chunks[m] <= new[m].size
  <2>1. /\ m \in DOMAIN chunks /\ Refer(h, d, m) # {} /\ chunks[m].refs = Cardinality(Refer(h, d, m))
        /\ \A b \in Refer(h, d, m) : h[b].request.chunks[m] <= chunks[m].size
    BY <1>1, ZenonT(60) DEF ChunksMatch
  <2>2. \A b \in Refer(k, d, m) : k[b].request.chunks[m] <= new[m].size
    BY <1>2, <1>5, <1>6, <1>7, <2>1, ZenonT(60)
  <2>3. CASE m \in DOMAIN r
    <3>1. c \in Refer(h, d, m) /\ chunks[m].refs > 1 /\ new[m].refs = chunks[m].refs - 1
      BY <1>1, <1>2, <1>5, <2>3, ZenonT(60)
    <3>2. /\ Cardinality(Refer(h, d, m) \ {c}) = Cardinality(Refer(h, d, m)) - 1
          /\ Cardinality(Refer(h, d, m)) > 1 => Refer(h, d, m) \ {c} # {}
      BY <3>1, ReferFinite
    <3> QED BY <1>5, <2>1, <2>2, <3>1, <3>2, ZenonT(60)
  <2>4. CASE m \notin DOMAIN r
    <3>1. c \notin Refer(h, d, m) /\ Refer(k, d, m) = Refer(h, d, m) \ {c}
      BY <1>5, <2>4
    <3>2. Refer(k, d, m) = Refer(h, d, m)
      BY <3>1, ZenonT(60)
    <3>3. new[m].refs = chunks[m].refs
      BY <1>2, <2>4, ZenonT(60)
    <3> QED BY <2>1, <2>2, <3>2, <3>3, ZenonT(60)
  <2> QED BY <2>3, <2>4
<1>9. ASSUME NEW b \in HoldersOf(k, d) PROVE DOMAIN k[b].request.chunks \subseteq DOMAIN new
  <2> SUFFICES ASSUME NEW m \in DOMAIN k[b].request.chunks PROVE m \in DOMAIN new
    OBVIOUS
  <2>1. b \in HoldersOf(h, d) /\ k[b] = h[b] /\ b # c
    BY <1>5, <1>6, ZenonT(60)
  <2>2. m \in DOMAIN chunks /\ chunks[m].refs = Cardinality(Refer(h, d, m))
    BY <2>1 DEF ChunksMatch
  <2>3. b \in Refer(h, d, m) \ {c}
    BY <2>1, ZenonT(60) DEF Refer
  <2>4. m \in DOMAIN r => chunks[m].refs > 1
    <3> SUFFICES ASSUME m \in DOMAIN r PROVE chunks[m].refs > 1
      BY ZenonT(60)
    <3>1. c \in Refer(h, d, m) /\ Refer(h, d, m) \ {c} # {}
      BY <1>5, <2>3
    <3>2. Cardinality(Refer(h, d, m)) > 1
      BY <3>1, ReferFinite, ZenonT(60)
    <3> QED BY <2>2, <3>2
  <2> QED BY <1>1, <2>2, <2>4, ZenonT(60)
<1> QED BY ONLY <1>3, <1>8, <1>9, SMTT(60) DEF ChunksMatch

\* A grant adds its shares to the accounts, and its chunks to those of its device.
LEMMA AllocateBooks ==
  ASSUME NEW p, PoolType(p), NEW h, Books(p, h), NEW c, NEW r, NEW g,
         RequestShape(r), GrantType(g, r),
         NEW x, x.request = r, x.grant = g, NEW k, Added(h, k, c, x),
         NEW q, q = allocate_resources(p, g, r)
  PROVE  SameLimits(p, q) /\ PoolType(q) /\ Books(q, k)
<1>1. PICK new : new = IF g.buffer_mem_gated_per_slot THEN p.chunks[r.device]
                       ELSE add_chunk_requests_to_allocated_pool(p.chunks[r.device], r)
  BY ZenonT(60)
<1>2. AccountOf(p, g, r, new, 1, q)
  <2>1. q = account(p, g, r, new, 1)
    BY <1>1, ZenonT(60) DEF allocate_resources
  <2> QED BY <2>1, AccountFields
<1>3. r.device \in Devices /\ g.buffer_mem_gated_per_slot \in BOOLEAN
  BY ZenonT(60) DEF RequestShape, GrantType
<1>4. HeldType(h) /\ c \notin DOMAIN h /\ IsFiniteSet(DOMAIN h)
  BY ZenonT(60) DEF Books, HeldType, Added
<1>5. HeldType(k)
  <2>1. IsFiniteSet(DOMAIN k)
    BY <1>4, FS_AddElement, ZenonT(60) DEF Added
  <2>2. \A b \in DOMAIN k : RequestShape(k[b].request) /\ GrantType(k[b].grant, k[b].request)
    BY <1>4, ZenonT(60) DEF Added, HeldType
  <2> QED BY <2>1, <2>2, ZenonT(60) DEF HeldType
<1>6. Cardinality(DOMAIN k) = Cardinality(DOMAIN h) + 1
  BY <1>4, FS_AddElement DEF Added
<1>7. \A d \in Devices : ChunksType(p.chunks[d]) /\ ChunksMatch(p.chunks[d], h, d)
  BY ZenonT(60) DEF PoolType, Books
<1>8. ChunksType(new) /\ ChunksMatch(new, k, r.device)
  <2>1. CASE g.buffer_mem_gated_per_slot
    <3>1. new = p.chunks[r.device]
      BY <1>1, <2>1, ZenonT(60)
    <3> QED BY <1>3, <1>7, <2>1, <3>1, OtherAdded, ZenonT(60)
  <2>2. CASE ~g.buffer_mem_gated_per_slot
    <3>1. new = add_chunk_requests_to_allocated_pool(p.chunks[r.device], r)
      BY <1>1, <2>2, ZenonT(60)
    <3>2. ChunksType(p.chunks[r.device]) /\ ChunksMatch(p.chunks[r.device], h, r.device)
      BY <1>3, <1>7, ZenonT(60)
    <3>3. Pledged(h, k, c, x, r.device, p.chunks[r.device], new)
      BY <1>4, <2>2, <3>1, <3>2, ZenonT(60) DEF Pledged
    <3> QED BY <3>3, ChunksAdded, ZenonT(60)
  <2> QED BY <1>3, <2>1, <2>2, ZenonT(60)
<1>9. \A d \in Devices : d # r.device => ChunksMatch(p.chunks[d], k, d)
  BY <1>7, OtherAdded
<1>10. \A kind, s : Sum(q, k, kind, s) = Sum(p, h, kind, s) + 1 * Share(p, x, kind, s)
  <2>1. q.result = p.result
    BY <1>2, ZenonT(60) DEF AccountOf, SameLimits
  <2>2. RequestShape(x.request) /\ GrantType(x.grant, x.request)
    BY ZenonT(60)
  <2>3. \A kind, s : /\ Sum(q, k, kind, s) = Sum(p, h, kind, s) + Share(p, x, kind, s)
                     /\ Share(p, x, kind, s) \in Nat
    BY <1>4, <2>1, <2>2, SumAdded, ShareNat
  <2> QED BY <2>3
<1>11. g.buffer_mem_gated_per_slot => new = p.chunks[r.device]
  BY <1>1, ZenonT(60)
<1>12. Moves(p, h, r, g, 1, x, new, q, k)
  BY <1>2, <1>5, <1>6, <1>8, <1>9, <1>10, <1>11, ZenonT(60) DEF Moves
<1> QED BY <1>12, AccountBooks

\* A holder that leaves takes no chunks of another device along.
LEMMA OtherDropped ==
  ASSUME NEW h, NEW k, NEW c, Dropped(h, k, c), NEW d, NEW chunks,
         ~(~h[c].grant.buffer_mem_gated_per_slot /\ h[c].request.device = d)
  PROVE  ChunksMatch(chunks, h, d) <=> ChunksMatch(chunks, k, d)
<1>1. Added(k, h, c, h[c])
  BY DEF Added, Dropped
<1> QED BY <1>1, OtherAdded, ZenonT(60)

\* A return takes them off again: a chunk goes with its last reference.
LEMMA DeallocateBooks ==
  ASSUME NEW p, PoolType(p), NEW h, Books(p, h), NEW c,
         NEW k, Dropped(h, k, c), NEW x, x = h[c], NEW r, NEW g, r = x.request, g = x.grant,
         NEW q, q = deallocate_resources(p, g, r)
  PROVE  SameLimits(p, q) /\ PoolType(q) /\ Books(q, k)
<1>0. PICK n \in {1, -1} : n = -1
  BY ZenonT(60)
<1>1. PICK new : new = IF g.buffer_mem_gated_per_slot THEN p.chunks[r.device]
                       ELSE remove_chunk_requests_from_allocated_pool(p.chunks[r.device], r)
  BY ZenonT(60)
<1>2. HeldType(h) /\ c \in DOMAIN h /\ IsFiniteSet(DOMAIN h)
  BY ZenonT(60) DEF Books, HeldType, Dropped
<1>3. /\ RequestShape(r) /\ GrantType(g, r)
      /\ r.device \in Devices /\ g.buffer_mem_gated_per_slot \in BOOLEAN
  BY <1>2, ZenonT(60) DEF RequestShape, GrantType, HeldType
<1>4. AccountOf(p, g, r, new, n, q)
  <2>1. q = account(p, g, r, new, n)
    BY <1>0, <1>1, ZenonT(60) DEF deallocate_resources
  <2> QED BY <1>3, <2>1, AccountFields, ZenonT(60)
<1>5. HeldType(k)
  <2>1. IsFiniteSet(DOMAIN k)
    BY <1>2, FS_RemoveElement, ZenonT(60) DEF Dropped
  <2>2. \A b \in DOMAIN k : RequestShape(k[b].request) /\ GrantType(k[b].grant, k[b].request)
    BY <1>2 DEF Dropped, HeldType
  <2> QED BY <2>1, <2>2, ZenonT(60) DEF HeldType
<1>6. Cardinality(DOMAIN k) = Cardinality(DOMAIN h) + n
  BY <1>0, <1>2, FS_RemoveElement, FS_CardinalityType, ZenonT(60) DEF Dropped
<1>7. \A d \in Devices : ChunksType(p.chunks[d]) /\ ChunksMatch(p.chunks[d], h, d)
  BY ZenonT(60) DEF PoolType, Books
<1>8. ChunksType(new) /\ ChunksMatch(new, k, r.device)
  <2>1. CASE g.buffer_mem_gated_per_slot
    <3>1. new = p.chunks[r.device]
      BY <1>1, <2>1, ZenonT(60)
    <3> QED BY <1>3, <1>7, <2>1, <3>1, OtherDropped, ZenonT(60)
  <2>2. CASE ~g.buffer_mem_gated_per_slot
    <3>1. new = remove_chunk_requests_from_allocated_pool(p.chunks[r.device], r)
      BY <1>1, <2>2, ZenonT(60)
    <3>2. ChunksType(p.chunks[r.device]) /\ ChunksMatch(p.chunks[r.device], h, r.device)
      BY <1>3, <1>7, ZenonT(60)
    <3> QED BY <1>2, <1>3, <2>2, <3>1, <3>2, ChunksDropped, ZenonT(60)
  <2> QED BY <1>3, <2>1, <2>2, ZenonT(60)
<1>9. \A d \in Devices : d # r.device => ChunksMatch(p.chunks[d], k, d)
  BY <1>7, OtherDropped, ZenonT(60)
<1>10. \A kind, s : Sum(q, k, kind, s) = Sum(p, h, kind, s) + n * Share(p, x, kind, s)
  <2>1. q.result = p.result
    BY <1>4, ZenonT(60) DEF AccountOf, SameLimits
  <2>2. RequestShape(x.request) /\ GrantType(x.grant, x.request)
    BY <1>3, ZenonT(60)
  <2>3. \A kind, s : /\ Sum(q, k, kind, s) = Sum(p, h, kind, s) - Share(p, x, kind, s)
                     /\ Share(p, x, kind, s) \in Nat /\ Sum(p, h, kind, s) \in Nat
    BY <1>2, <2>1, <2>2, SumDropped, ShareNat, SumShares
  <2> QED BY <1>0, <2>3
<1>11. g.buffer_mem_gated_per_slot => new = p.chunks[r.device]
  BY <1>1, ZenonT(60)
<1>12. Moves(p, h, r, g, n, x, new, q, k)
  BY <1>3, <1>4, <1>5, <1>6, <1>8, <1>9, <1>10, <1>11, ZenonT(60) DEF Moves
<1> QED BY <1>12, AccountBooks

\* Pledging the chunks of a request takes what can_currently_satisfy_chunk_request
\* counted for it.
LEMMA BytesAdded ==
  ASSUME NEW p, NEW r, RequestShape(r), NEW old, old = p.chunks[r.device], ChunksType(old),
         NEW new, new = add_chunk_requests_to_allocated_pool(old, r), ChunksType(new)
  PROVE  /\ Bytes(new) = Bytes(old) + get_chunk_bytes_not_in_pool(p, r)
         /\ get_chunk_bytes_not_in_pool(p, r) \in Nat
<1> DEFINE D == DOMAIN old
           R == DOMAIN r.chunks
           S == DOMAIN new
           Need(m) == IF m \notin D THEN r.chunks[m] ELSE Greatest(r.chunks[m] - old[m].size, 0)
           a == [m \in D |-> old[m].size]
           b == [m \in R |-> Need(m)]
           n == [m \in S |-> new[m].size]
           a0 == [m \in S |-> IF m \in D THEN old[m].size ELSE 0]
           b0 == [m \in S |-> IF m \in R THEN Need(m) ELSE 0]
<1>1. S = D \cup R
  BY ZenonT(60) DEF add_chunk_requests_to_allocated_pool
<1>2. IsFiniteSet(D) /\ IsFiniteSet(R) /\ IsFiniteSet(S)
  BY DEF ChunksType, RequestShape
<1>3. (\A m \in D : old[m].size \in Nat) /\ (\A m \in R : r.chunks[m] \in Nat)
        /\ (\A m \in S : new[m].size \in Nat)
  BY ZenonT(60) DEF ChunksType, RequestShape
<1>4. \A m \in R : Need(m) \in Nat
  BY <1>3, GrowsTo, ZenonT(60)
<1>5. ASSUME NEW m \in S
      PROVE  new[m].size = (IF m \in D THEN old[m].size ELSE 0) + (IF m \in R THEN Need(m) ELSE 0)
  <2>1. /\ m \notin R => new[m] = old[m] /\ m \in D
        /\ m \in R /\ m \notin D => new[m].refs = 1 /\ new[m].size = r.chunks[m]
        /\ m \in R /\ m \in D =>
             new[m].refs = old[m].refs + 1 /\ new[m].size = Greatest(old[m].size, r.chunks[m])
    BY AddedEntry
  <2>2. m \in D \cup R
    BY <1>1, <1>5, ZenonT(60)
  <2>3. CASE m \notin R
    BY <1>3, <2>1, <2>3, PositiveSum, ZenonT(60)
  <2>4. CASE m \in R /\ m \notin D
    BY <1>3, <2>1, <2>4, PositiveSum, ZenonT(60)
  <2>5. CASE m \in R /\ m \in D
    BY <1>3, <2>1, <2>5, GrowsTo, ZenonT(60)
  <2> QED BY <2>2, <2>3, <2>4, <2>5, ZenonT(60)
<1>6. /\ Bytes(old) = SumFunctionOnSet(a, D) /\ Bytes(new) = SumFunctionOnSet(n, S)
      /\ get_chunk_bytes_not_in_pool(p, r) = SumFunctionOnSet(b, R)
  BY ZenonT(60) DEF Bytes, SumFunction, get_chunk_bytes_not_in_pool
<1>7. /\ \A m \in D : a[m] = old[m].size /\ a[m] \in Int
      /\ \A m \in R : b[m] = Need(m) /\ b[m] \in Nat
      /\ \A m \in S : a0[m] = (IF m \in D THEN old[m].size ELSE 0) /\ a0[m] \in Int
      /\ \A m \in S : b0[m] = (IF m \in R THEN Need(m) ELSE 0) /\ b0[m] \in Int
      /\ \A m \in S : n[m] = new[m].size
  <2> HIDE DEF Need, D, R, S
  <2>1. \A m \in D : a[m] = old[m].size /\ a[m] \in Int
    BY <1>3
  <2>2. \A m \in R : b[m] = Need(m) /\ b[m] \in Nat
    BY <1>4, ZenonT(60)
  <2>3. \A m \in S : a0[m] = (IF m \in D THEN old[m].size ELSE 0) /\ a0[m] \in Int
    BY <1>3
  <2>4. \A m \in S : b0[m] = (IF m \in R THEN Need(m) ELSE 0) /\ b0[m] \in Int
    BY <1>4
  <2>5. \A m \in S : n[m] = new[m].size
    BY ZenonT(60)
  <2> HIDE DEF a, b, n, a0, b0
  <2> QED BY <2>1, <2>2, <2>3, <2>4, <2>5, ZenonT(60)
<1> HIDE DEF D, R, S, Need, a, b, n, a0, b0
<1>8. \A m \in S : a0[m] \in Int /\ b0[m] \in Int /\ n[m] = a0[m] + b0[m]
  BY <1>5, <1>7, ZenonT(60)
<1>9. SumFunctionOnSet(n, S) = SumFunctionOnSet(a0, S) + SumFunctionOnSet(b0, S)
  BY <1>2, <1>8, SumPlus, ZenonT(60)
<1>10. SumFunctionOnSet(a0, S) = SumFunctionOnSet(a, D)
  <2>1. SumFunctionOnSet(a0, S) = SumFunctionOnSet(a0, D)
    <3>1. D \in SUBSET S /\ \A m \in S \ D : a0[m] = 0
      BY <1>1, <1>7, ZenonT(60)
    <3> QED BY <1>2, <1>7, <3>1, SumZeros, ZenonT(60)
  <2>2. \A m \in D : a0[m] = a[m]
    BY <1>1, <1>7, ZenonT(60)
  <2> QED BY <1>2, <2>1, <2>2, SumSame, ZenonT(60)
<1>11. SumFunctionOnSet(b0, S) = SumFunctionOnSet(b, R)
  <2>1. SumFunctionOnSet(b0, S) = SumFunctionOnSet(b0, R)
    <3>1. R \in SUBSET S /\ \A m \in S \ R : b0[m] = 0
      BY <1>1, <1>7, ZenonT(60)
    <3> QED BY <1>2, <1>7, <3>1, SumZeros, ZenonT(60)
  <2>2. \A m \in R : b0[m] = b[m]
    BY <1>1, <1>7, ZenonT(60)
  <2> QED BY <1>2, <2>1, <2>2, SumSame, ZenonT(60)
<1>12. SumFunctionOnSet(b, R) \in Nat
  BY <1>2, <1>7, SumNat, ZenonT(60)
<1> QED BY <1>6, <1>9, <1>10, <1>11, <1>12, ZenonT(60)

\* Giving up chunks never takes more.
LEMMA BytesRemoved ==
  ASSUME NEW old, ChunksType(old), NEW r, NEW new, ChunksType(new),
         new = remove_chunk_requests_from_allocated_pool(old, r)
  PROVE  Bytes(new) <= Bytes(old)
<1> DEFINE D == DOMAIN old
           S == DOMAIN new
           a == [m \in D |-> old[m].size]
           n == [m \in S |-> new[m].size]
           n0 == [m \in D |-> IF m \in S THEN old[m].size ELSE 0]
<1>1. S \in SUBSET D /\ \A m \in S : new[m].size = old[m].size
  <2>1. Removed(old, r.chunks, new)
    BY RemovedEntry
  <2> QED BY <2>1 DEF Removed
<1>2. IsFiniteSet(D) /\ IsFiniteSet(S) /\ \A m \in D : old[m].size \in Nat
  BY DEF ChunksType
<1>3. Bytes(old) = SumFunctionOnSet(a, D) /\ Bytes(new) = SumFunctionOnSet(n, S)
  BY ZenonT(60) DEF Bytes, SumFunction
<1>4. /\ \A m \in D : n0[m] \in Int /\ a[m] \in Int /\ n0[m] <= a[m]
      /\ \A m \in D \ S : n0[m] = 0
      /\ \A m \in S : n0[m] = n[m]
  BY <1>1, <1>2
<1> HIDE DEF D, S, a, n, n0
<1>5. SumFunctionOnSet(n0, D) <= SumFunctionOnSet(a, D)
  BY <1>2, <1>4, SumMonotonic, ZenonT(60)
<1>6. SumFunctionOnSet(n0, D) = SumFunctionOnSet(n0, S)
  BY <1>1, <1>2, <1>4, SumZeros, ZenonT(60)
<1>7. SumFunctionOnSet(n0, S) = SumFunctionOnSet(n, S)
  BY <1>2, <1>4, SumSame, ZenonT(60)
<1> QED BY <1>3, <1>5, <1>6, <1>7, ZenonT(60)

-----------------------------------------------------------------------------
(***************************************************************************)
(* The bounds of a request, and what it is granted.                        *)
(***************************************************************************)
SlotTypes == {"CPU_SLOTS", "GPU_SLOTS", "CPU_RESULT_MEM"}

\* Summands of at least one add up to at least their number.
LEMMA SumAtLeast ==
  ASSUME NEW S, IsFiniteSet(S), NEW f, \A x \in S : f[x] \in Int /\ f[x] >= 1
  PROVE  Cardinality(S) <= SumFunctionOnSet(f, S)
<1> DEFINE A(T) == SumFunctionOnSet(f, T)
           N(T) == Cardinality(T)
           F == {T \in SUBSET S : ~(N(T) <= A(T))}
<1>0. A({}) = 0 /\ N({}) = 0
  BY SumStep, FS_EmptySet, ZenonT(60)
<1>1. ASSUME NEW T \in SUBSET S
      PROVE  /\ A(T) \in Int /\ N(T) \in Nat
             /\ \A y \in T : A(T) = f[y] + A(T \ {y}) /\ N(T \ {y}) = N(T) - 1
  <2>1. IsFiniteSet(T) /\ \A x \in T : f[x] \in Int
    BY FS_Subset, ZenonT(60)
  <2>2. A(T) \in Int /\ \A y \in T : A(T) = f[y] + A(T \ {y})
    BY <2>1, SumTake, ZenonT(60)
  <2>3. N(T) \in Nat /\ \A y \in T : N(T \ {y}) = N(T) - 1
    BY <2>1, FS_CardinalityType, FS_RemoveElement, ZenonT(60)
  <2> QED BY <2>2, <2>3, ZenonT(60)
<1> HIDE DEF A, N
<1>2. F = {}
  <2>1. SUFFICES ASSUME F # {} PROVE FALSE
    OBVIOUS
  <2>2. PICK T \in F : \A U \in SUBSET T : U \in F => U = T
    <3>1. F \in SUBSET SUBSET S /\ F # {}
      BY <2>1
    <3> HIDE DEF F
    <3> QED BY <3>1, SmallestOf
  <2>3. T # {}
    <3>1. N({}) <= A({})
      BY <1>0
    <3>2. ~(N(T) <= A(T))
      BY <2>2
    <3> QED BY <3>1, <3>2, Zenon
  <2>4. PICK y \in T : TRUE
    BY <2>3
  <2>5. N(T \ {y}) <= A(T \ {y})
    BY <2>2, <2>4
  <2>6. /\ A(T) \in Int /\ N(T) \in Nat /\ A(T) = f[y] + A(T \ {y}) /\ N(T \ {y}) = N(T) - 1
        /\ A(T \ {y}) \in Int /\ f[y] \in Int /\ f[y] >= 1
    BY <1>1, <2>2
  <2> QED BY <2>2, <2>5, <2>6
<1> QED BY <1>2 DEF A, N

\* The sum over the accounts of slots and result memory.
LEMMA SumSlotTypes ==
  ASSUME NEW f, \A t \in SlotTypes : f[t] \in Int
  PROVE  SumFunctionOnSet(f, SlotTypes) = f["CPU_SLOTS"] + f["GPU_SLOTS"] + f["CPU_RESULT_MEM"]
<1> DEFINE a == "CPU_SLOTS"
           b == "GPU_SLOTS"
           c == "CPU_RESULT_MEM"
<1>0. SlotTypes = {a, b, c} /\ a # b /\ a # c /\ b # c
  BY DEF SlotTypes
<1> HIDE DEF a, b, c
<1>1. IsFiniteSet({a, b, c}) /\ IsFiniteSet({b, c}) /\ IsFiniteSet({c})
  <2>1. IsFiniteSet({})
    BY FS_EmptySet
  <2>2. IsFiniteSet({} \cup {c})
    BY <2>1, FS_AddElement
  <2>3. IsFiniteSet(({} \cup {c}) \cup {b})
    BY <2>2, FS_AddElement, ZenonT(60)
  <2>4. IsFiniteSet((({} \cup {c}) \cup {b}) \cup {a})
    BY <2>3, FS_AddElement
  <2>5. {} \cup {c} = {c} /\ ({} \cup {c}) \cup {b} = {b, c}
        /\ (({} \cup {c}) \cup {b}) \cup {a} = {a, b, c}
    OBVIOUS
  <2> QED BY <2>2, <2>3, <2>4, <2>5, ZenonT(60)
<1>2. {a, b, c} \ {a} = {b, c} /\ {b, c} \ {b} = {c} /\ {c} \ {c} = {}
  BY <1>0, ZenonT(60)
<1>3. f[a] \in Int /\ f[b] \in Int /\ f[c] \in Int
  BY <1>0
<1>4. SumFunctionOnSet(f, {a, b, c}) = f[a] + SumFunctionOnSet(f, {b, c})
  BY <1>1, <1>2, <1>3, SumTake, ZenonT(60)
<1>5. SumFunctionOnSet(f, {b, c}) = f[b] + SumFunctionOnSet(f, {c})
  BY <1>1, <1>2, <1>3, SumTake, ZenonT(60)
<1>6. SumFunctionOnSet(f, {c}) = f[c] + SumFunctionOnSet(f, {})
  BY <1>1, <1>2, <1>3, SumTake, ZenonT(60)
<1>7. SumFunctionOnSet(f, {}) = 0
  BY <1>1, SumStep, ZenonT(60)
<1>8. SumFunctionOnSet(f, SlotTypes) = f[a] + f[b] + f[c]
  <2>1. SumFunctionOnSet(f, {a, b, c}) = f[a] + f[b] + f[c]
    BY ONLY <1>3, <1>4, <1>5, <1>6, <1>7, SMTT(60)
  <2> QED BY <1>0, <2>1, ZenonT(60)
<1> QED BY <1>8 DEF a, b, c

\* The bounds of a request depend on the limits of the pool only.
LEMMA SameBounds ==
  ASSUME NEW p, NEW q, SameLimits(p, q), NEW r
  PROVE  /\ calc_min_max_resource_grants_for_request(q, r) = calc_min_max_resource_grants_for_request(p, r)
         /\ \A g : exceeds_max_grant(q, g) = exceeds_max_grant(p, g)
<1>1. \A s : max_resource_grant_per_request(q, s) = max_resource_grant_per_request(p, s)
  BY DEF SameLimits, max_resource_grant_per_request
<1>2. q.result = p.result
  BY ZenonT(60) DEF SameLimits
<1> QED BY <1>1, <1>2 DEF calc_min_max_resource_grants_for_request, exceeds_max_grant

\* The largest grants of slots and of result memory are quantities.
LEMMA LimitsNat ==
  ASSUME NEW p, LimitsType(p), p.result = Separate
  PROVE  /\ max_resource_grant_per_request(p, "CPU_SLOTS") \in Nat
         /\ max_resource_grant_per_request(p, "GPU_SLOTS") \in Nat
         /\ max_resource_grant_per_request(p, p.result.subtype) \in Nat
<1>1. QuantitiesType(p)
  BY Parts, ZenonT(60)
<1> QED BY <1>1, MaxGrant DEF Subtypes, Separate

\* What is determined for a request is gated when the least it needs is.
LEMMA GatingKept ==
  ASSUME NEW p, NEW min, NEW max, NEW r
  PROVE  determine_dynamic_resource_grant(p, min, max, r).buffer_mem_gated_per_slot
           = min.buffer_mem_gated_per_slot
  BY DEF determine_dynamic_resource_grant, Grant

\* The bounds of a request that is accepted, and not refused when its turn comes.
Accepted(p, r) ==
  LET e == calc_min_max_resource_grants_for_request(p, r)
  IN e.error = "none" /\ exceeds_max_grant(p, e.min) = "none"

BoundsOf(p, r, e) ==
  LET Max1(s) == max_resource_grant_per_request(p, s)
      gated == e.min.buffer_mem_gated_per_slot
  IN /\ e.min.cpu_slots = r.min_cpu_slots /\ e.min.gpu_slots = r.min_gpu_slots
     /\ e.min.cpu_result_mem = r.cpu_result_mem
     /\ e.max.gpu_slots = r.gpu_slots /\ e.max.cpu_result_mem = r.cpu_result_mem
     /\ r.gpu_slots <= Max1("GPU_SLOTS") /\ r.cpu_result_mem <= Max1(p.result.subtype)
     /\ gated \in BOOLEAN /\ (gated <=> total_bytes(r) > Max1(Pinned(r.device)))
     /\ gated => r.device = "CPU" /\ e.min.buffer_mem_per_slot = r.max_bytes_per_kernel
     /\ ~gated => /\ e.max.cpu_slots \in Nat /\ e.max.cpu_slots <= Max1("CPU_SLOTS")
                  /\ e.max.cpu_slots <= r.cpu_slots /\ r.min_cpu_slots <= e.max.cpu_slots

\* An accepted request gets the bounds that calc_min_max_resource_grants_for_request
\* promises, gated exactly when its chunks exceed the largest grant of its buffer pool.
LEMMA Bounds ==
  ASSUME NEW p, LimitsType(p), NEW r, RequestType(r), Accepted(p, r),
         NEW e, e = calc_min_max_resource_grants_for_request(p, r)
  PROVE  BoundsOf(p, r, e)
<1> DEFINE Max1(s) == max_resource_grant_per_request(p, s)
           cpu == calc_max_resource_grant_for_request(r.cpu_slots, r.min_cpu_slots,
                                                      Max1("CPU_SLOTS"))
           gpu == calc_max_resource_grant_for_request(r.gpu_slots, r.min_gpu_slots,
                                                      Max1("GPU_SLOTS"))
           mem == calc_max_resource_grant_for_request(r.cpu_result_mem, r.min_cpu_result_mem,
                                                      Max1(p.result.subtype))
           gated == total_bytes(r) > Max1(Pinned(r.device))
<1>1. /\ e.min.cpu_slots = r.min_cpu_slots /\ e.min.gpu_slots = r.min_gpu_slots
      /\ e.min.cpu_result_mem = r.cpu_result_mem
      /\ e.max.gpu_slots = gpu /\ e.max.cpu_result_mem = mem
      /\ e.min.buffer_mem_gated_per_slot = gated
      /\ gated => e.min.buffer_mem_per_slot = r.max_bytes_per_kernel
      /\ ~gated => e.max.cpu_slots = cpu
  BY DEF calc_min_max_resource_grants_for_request, Grant
<1>0. gated \in BOOLEAN
  OBVIOUS
<1>2. /\ ~(cpu = 0 /\ r.min_cpu_slots > 0) /\ ~(gpu = 0 /\ r.min_gpu_slots > 0)
      /\ gated => r.device = "CPU"
  BY DEF calc_min_max_resource_grants_for_request, Accepted, bytes_scales_per_kernel
<1>3. /\ e.min.gpu_slots <= Max1("GPU_SLOTS") \/ ~(e.min.gpu_slots > Max1("GPU_SLOTS"))
      /\ ~(e.min.cpu_result_mem > Max1(p.result.subtype))
  BY ZenonT(60) DEF exceeds_max_grant, Accepted
<1>4. p.result.subtype \in Subtypes
  BY DEF LimitsType, Separate, Pooled, Subtypes
<1>5. Max1("CPU_SLOTS") \in Nat /\ Max1("GPU_SLOTS") \in Nat /\ Max1(p.result.subtype) \in Nat
  BY <1>4, MaxGrant, Parts, ZenonT(60) DEF Subtypes
<1>6. /\ r.cpu_slots \in Nat /\ r.min_cpu_slots \in Nat /\ r.min_cpu_slots <= r.cpu_slots
      /\ r.gpu_slots \in Nat /\ r.min_gpu_slots = r.gpu_slots
      /\ r.cpu_result_mem \in Nat /\ r.min_cpu_result_mem \in Nat
      /\ r.min_cpu_result_mem <= r.cpu_result_mem
  BY DEF RequestType
<1> HIDE DEF Max1, gpu, mem, gated
<1>7. /\ cpu \in Nat /\ cpu <= r.cpu_slots /\ cpu <= Max1("CPU_SLOTS")
      /\ cpu < r.min_cpu_slots => cpu = 0 /\ r.min_cpu_slots > 0
  BY ONLY <1>5, <1>6, SMTT(60) DEF calc_max_resource_grant_for_request
<1>8. /\ gpu \in Nat /\ gpu <= r.gpu_slots /\ gpu <= Max1("GPU_SLOTS")
      /\ gpu < r.min_gpu_slots => gpu = 0 /\ r.min_gpu_slots > 0
  BY <1>5, <1>6 DEF calc_max_resource_grant_for_request, gpu
<1>9. mem \in Nat /\ (r.cpu_result_mem <= Max1(p.result.subtype) => mem = r.cpu_result_mem)
  BY <1>5, <1>6, ZenonT(60) DEF calc_max_resource_grant_for_request, mem
<1> HIDE DEF cpu, gpu, mem, gated
<1>10. gpu = r.gpu_slots
  BY ONLY <1>2, <1>6, <1>8, SMTT(60)
<1>11. r.cpu_result_mem <= Max1(p.result.subtype) /\ mem = r.cpu_result_mem
  BY ONLY <1>1, <1>3, <1>5, <1>6, <1>9, SMTT(60)
<1>12. r.min_cpu_slots <= cpu
  BY <1>2, <1>6, <1>7
<1> QED BY <1>0, <1>1, <1>2, <1>7, <1>8, <1>10, <1>11, <1>12, ZenonT(60) DEF Max1, gated, BoundsOf

\* What an accepted request is granted lies between its bounds, and is of the kind its
\* bounds are; a gated grant because determine_dynamic_resource_grant CHECKs it.
GrantOf(p, r, e, g) ==
  /\ GrantType(g, r)
  /\ \A f \in {"cpu_slots", "gpu_slots", "cpu_result_mem"} : g[f] \in e.min[f] .. e.max[f]
  /\ g.gpu_slots = r.gpu_slots /\ g.cpu_result_mem = r.cpu_result_mem
  /\ g.cpu_slots > 0 \/ g.gpu_slots > 0
  /\ g.buffer_mem_gated_per_slot = e.min.buffer_mem_gated_per_slot
  /\ g.buffer_mem_gated_per_slot =>
       /\ g.buffer_mem_for_given_slots > 0
       /\ g.buffer_mem_for_given_slots = g.cpu_slots * g.buffer_mem_per_slot
  /\ ~g.buffer_mem_gated_per_slot =>
       \/ g.cpu_slots = e.min.cpu_slots
       \/ g.cpu_slots + p.allocated["CPU_SLOTS"] <= p.total["CPU_SLOTS"]

\* The limits for one request are nested: less pageable than pinned memory, and not more
\* of that than there is.
Nested(p) ==
  /\ max_resource_grant_per_request(p, "PAGEABLE_CPU_BUFFER_POOL_MEM")
       <= max_resource_grant_per_request(p, "PINNED_CPU_BUFFER_POOL_MEM")
  /\ max_resource_grant_per_request(p, "PINNED_CPU_BUFFER_POOL_MEM")
       <= p.total["CPU_BUFFER_POOL_MEM"]

\* A gated request that is accepted has room for one kernel.
LEMMA GateFits ==
  ASSUME NEW p, LimitsType(p), Nested(p), NEW r, RequestType(r), Accepted(p, r),
         total_bytes(r) > max_resource_grant_per_request(p, Pinned(r.device))
  PROVE  /\ r.device = "CPU" /\ r.max_bytes_per_kernel \in Nat
         /\ r.max_bytes_per_kernel <= p.total["CPU_BUFFER_POOL_MEM"]
<1> DEFINE kernel == r.max_bytes_per_kernel
           dep == max_resource_grant_per_request(p, "PAGEABLE_CPU_BUFFER_POOL_MEM")
           pin == max_resource_grant_per_request(p, "PINNED_CPU_BUFFER_POOL_MEM")
           cpu == calc_max_resource_grant_for_request(
                    r.cpu_slots, r.min_cpu_slots, max_resource_grant_per_request(p, "CPU_SLOTS"))
           least == calc_min_dependent_resource_grant_for_request(kernel, r.min_cpu_slots, kernel)
           gate == calc_max_dependent_resource_grant_for_request(
                     total_bytes(r), kernel, dep, r.min_cpu_slots, cpu, kernel)
<1>1. gate.mem # 0 /\ bytes_scales_per_kernel(r)
  BY DEF Accepted, calc_min_max_resource_grants_for_request
<1>2. r.device = "CPU"
  BY <1>1, ZenonT(60) DEF bytes_scales_per_kernel
<1>3. /\ r.min_cpu_slots = 1 /\ kernel \in Nat /\ (total_bytes(r) > 0 => kernel > 0)
  BY <1>2 DEF RequestType
<1>4. total_bytes(r) \in Nat
  BY SumNat, ZenonT(60) DEF RequestType, total_bytes, SumFunction
<1>5. dep \in Nat /\ pin \in Nat /\ p.total["CPU_BUFFER_POOL_MEM"] \in Nat
  BY MaxGrant, Parts, ZenonT(60) DEF Subtypes, LimitsType, Types
<1>6. total_bytes(r) > pin /\ dep <= pin /\ pin <= p.total["CPU_BUFFER_POOL_MEM"]
  BY <1>2, ZenonT(60) DEF Nested, Pinned
<1>7. kernel > 0 /\ ~(total_bytes(r) <= dep)
  <2> HIDE DEF dep, pin, kernel
  <2> QED BY <1>3, <1>4, <1>5, <1>6
<1>8. ~(least.mem > dep)
  <2> HIDE DEF dep, cpu, least, kernel
  <2> QED BY <1>1, <1>7, ZenonT(60) DEF calc_max_dependent_resource_grant_for_request, least
<1>9. PICK n \in Nat : n >= 1 /\ least.mem = n * kernel
  <2>1. Ceil(kernel, kernel) \in Nat
    <3> HIDE DEF kernel, least, dep
    <3>1. kernel \in Nat \ {0}
      BY <1>3, <1>7, Compare, ZenonT(60)
    <3> QED BY <3>1, CeilNat, ZenonT(60)
  <2>2. least.mem = Greatest(Ceil(kernel, kernel), 1) * kernel
    BY <1>3 DEF calc_min_dependent_resource_grant_for_request
  <2> HIDE DEF kernel, least
  <2> QED BY <2>1, <2>2 DEF Greatest
<1>10. kernel <= n * kernel
  <2> HIDE DEF kernel
  <2>1. kernel \in Nat /\ n \in Nat /\ n >= 1
    BY <1>3, <1>9, ZenonT(60)
  <2> QED BY <2>1
<1>11. n * kernel \in Nat /\ n * kernel <= dep
  <2> HIDE DEF kernel, least, dep
  <2> QED BY ONLY <1>3, <1>5, <1>8, <1>9, SMTT(60)
<1> HIDE DEF dep, pin, kernel
<1>12. kernel \in Nat /\ kernel <= p.total["CPU_BUFFER_POOL_MEM"]
  BY ONLY <1>3, <1>5, <1>6, <1>10, <1>11, SMTT(60)
<1> QED BY <1>2, <1>12, ZenonT(60) DEF kernel

\* A request that is not gated has at most as many bytes as there are.
LEMMA UngatedFits ==
  ASSUME NEW p, LimitsType(p), NEW r, RequestType(r),
         p.result = Separate \/ Nested(p),
         ~(total_bytes(r) > max_resource_grant_per_request(p, Pinned(r.device)))
  PROVE  total_bytes(r) \in Nat /\ total_bytes(r) <= p.total[BufferPool(r.device)]
<1>1. total_bytes(r) \in Nat /\ r.device \in Devices
  BY SumNat DEF RequestType, total_bytes, SumFunction
<1>2. Pinned(r.device) \in Subtypes
  BY DEF Pinned, Subtypes
<1>3. map_resource_subtype_to_resource_type(Pinned(r.device)) = BufferPool(r.device)
  BY <1>1, ZenonT(60) DEF Pinned, BufferPool, map_resource_subtype_to_resource_type, Devices
<1>4. /\ max_resource_grant_per_request(p, Pinned(r.device)) \in Nat
      /\ p.policy[BufferPool(r.device)].over = "DISALLOW_REQUESTS" =>
           max_resource_grant_per_request(p, Pinned(r.device)) <= p.total[BufferPool(r.device)]
  BY <1>2, <1>3, MaxGrant, Parts, ZenonT(60)
<1>5. p.total[BufferPool(r.device)] \in Nat
  BY DEF LimitsType, BufferPool, Types
<1>6. max_resource_grant_per_request(p, Pinned(r.device)) <= p.total[BufferPool(r.device)]
  <2>1. CASE r.device = "GPU" \/ p.result = Separate
    <3>1. p.policy[BufferPool(r.device)].over = "DISALLOW_REQUESTS"
      BY <1>1, <2>1 DEF LimitsType, BufferPool, Separate, Pooled, Devices
    <3> QED BY <1>4, <3>1, ZenonT(60)
  <2>2. CASE r.device = "CPU" /\ p.result # Separate
    BY <2>2 DEF Nested, Pinned, BufferPool
  <2> QED BY <1>1, <2>1, <2>2, ZenonT(60) DEF Devices
<1>7. total_bytes(r) <= max_resource_grant_per_request(p, Pinned(r.device))
  BY <1>1, <1>4, Compare, ZenonT(60)
<1> QED BY ONLY <1>1, <1>4, <1>5, <1>6, <1>7, Between, ZenonT(60)

=============================================================================
