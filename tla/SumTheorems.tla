------------------------------ MODULE SumTheorems ------------------------------
(***************************************************************************)
(* Facts about sums over finite sets, SumFunctionOnSet of module Functions.*)
(* Induction, over finite sets and over naturals, is done by taking a      *)
(* smallest counterexample, which theorem WFMin provides.                  *)
(***************************************************************************)
EXTENDS Integers, Functions, FiniteSetTheorems, TLAPS

Pick(s) == CHOOSE x \in s : TRUE

\* `g` adds up `f` over every subset of S, one picked element at a time.
AddsUp(g, f, S) ==
    g = [s \in SUBSET S |-> IF s = {} THEN 0 ELSE f[Pick(s)] + g[s \ {Pick(s)}]]

Adder(f, S) == CHOOSE g : AddsUp(g, f, S)

LEMMA SumIsAdder ==
    ASSUME NEW f, NEW S
    PROVE  SumFunctionOnSet(f, S) = Adder(f, S)[S]
BY DEF SumFunctionOnSet, FoldFunctionOnSet, MapThenFoldSet, Adder, AddsUp, Pick

\* A family of subsets of a finite set, not empty, has a member that contains
\* no other one.
LEMMA SmallestSubset ==
    ASSUME NEW S, IsFiniteSet(S), NEW Bad \in SUBSET SUBSET S, Bad # {}
    PROVE  \E T \in Bad : \A U \in SUBSET T : U # T => U \notin Bad
<1>1. IsWellFoundedOn(StrictSubsetOrdering(S), FiniteSubsetsOf(S))
  BY FS_StrictSubsetOrderingWellFounded
<1>2. Bad \subseteq FiniteSubsetsOf(S)
  BY FS_Subset DEF FiniteSubsetsOf
<1>3. PICK T \in Bad : \A U \in Bad : <<U, T>> \notin StrictSubsetOrdering(S)
  <2>. HIDE DEF FiniteSubsetsOf, StrictSubsetOrdering
  <2>. QED BY <1>1, <1>2, WFMin
<1>. QED BY <1>3 DEF StrictSubsetOrdering

LEMMA SmallestNat ==
    ASSUME NEW Bad \in SUBSET Nat, Bad # {}
    PROVE  \E n \in Bad : \A m \in Bad : n <= m
<1>1. PICK k \in Bad : TRUE
  OBVIOUS
<1>. DEFINE Below == {0 .. n : n \in {m \in Bad : m <= k}}
<1>2. IsFiniteSet(0 .. k) /\ Below \in SUBSET SUBSET (0 .. k) /\ Below # {}
  <2>1. IsFiniteSet(0 .. k)
    BY <1>1, FS_Interval
  <2>2. \A n \in {m \in Bad : m <= k} : 0 .. n \in SUBSET (0 .. k)
    BY <1>1
  <2>3. 0 .. k \in Below
    BY <1>1
  <2>. QED BY <2>1, <2>2, <2>3
<1>3. PICK T \in Below : \A U \in SUBSET T : U # T => U \notin Below
  <2>. HIDE DEF Below
  <2>. QED BY <1>2, SmallestSubset
<1>4. PICK n \in Bad : n <= k /\ T = 0 .. n
  BY <1>3
<1>5. ASSUME NEW m \in Bad
      PROVE  n <= m
  <2>. SUFFICES ASSUME m < n PROVE FALSE
    BY <1>4
  <2>1. 0 .. m \in Below /\ 0 .. m \in SUBSET T /\ 0 .. m # T
    BY <1>1, <1>4
  <2>. QED BY <2>1, <1>3
<1>. QED BY <1>5

\* Induction over the naturals, for a property given as a set.
LEMMA AllNaturals ==
    ASSUME NEW S \in SUBSET Nat, 0 \in S, \A n \in S : n + 1 \in S
    PROVE  S = Nat
<1>. SUFFICES ASSUME Nat \ S # {}
              PROVE  FALSE
  OBVIOUS
<1>1. PICK n \in Nat \ S : \A m \in Nat \ S : n <= m
  <2>1. Nat \ S \in SUBSET Nat
    OBVIOUS
  <2>. QED BY <2>1, SmallestNat
<1>2. n # 0 /\ n - 1 \in Nat /\ n - 1 \in S
  BY <1>1
<1>3. (n - 1) + 1 \in S
  BY <1>2
<1>. QED BY <1>1, <1>3

-----------------------------------------------------------------------------
(* The recursion behind a sum has one solution                              *)

LEMMA PickIn ==
    ASSUME NEW s, s # {}
    PROVE  /\ Pick(s) \in s
           /\ s \ {Pick(s)} \subseteq s
           /\ s \ {Pick(s)} # s
<1>1. Pick(s) \in s
  BY DEF Pick
<1>. QED BY <1>1

LEMMA AddsUpApply ==
    ASSUME NEW g, NEW f, NEW S, AddsUp(g, f, S), NEW s \in SUBSET S
    PROVE  /\ s = {} => g[s] = 0
           /\ s # {} => g[s] = f[Pick(s)] + g[s \ {Pick(s)}]
<1>. DEFINE Body(t) == IF t = {} THEN 0 ELSE f[Pick(t)] + g[t \ {Pick(t)}]
<1>1. g = [t \in SUBSET S |-> Body(t)]
  BY DEF AddsUp
<1>2. g[s] = Body(s)
  <2>. HIDE DEF Body
  <2>. QED BY <1>1
<1>. QED BY <1>2

LEMMA AddsUpUnique ==
    ASSUME NEW f, NEW S, IsFiniteSet(S), NEW T \in SUBSET S, NEW g, NEW h,
           AddsUp(g, f, S), AddsUp(h, f, T)
    PROVE  \A s \in SUBSET T : g[s] = h[s]
<1>. DEFINE Bad == {s \in SUBSET T : g[s] # h[s]}
<1>. SUFFICES ASSUME Bad # {}
              PROVE  FALSE
  OBVIOUS
<1>1. IsFiniteSet(T)
  BY FS_Subset
<1>2. PICK s \in Bad : \A u \in SUBSET s : u # s => u \notin Bad
  <2>1. Bad \in SUBSET SUBSET T
    OBVIOUS
  <2>. HIDE DEF Bad
  <2>. QED BY <1>1, <2>1, SmallestSubset
<1>3. s \in SUBSET S /\ s \in SUBSET T
  BY <1>2
<1>4. CASE s = {}
  BY <1>2, <1>3, <1>4, AddsUpApply
<1>5. CASE s # {}
  <2>1. s \ {Pick(s)} \notin Bad
    BY <1>2, <1>5, PickIn
  <2>2. g[s \ {Pick(s)}] = h[s \ {Pick(s)}]
    BY <1>3, <2>1
  <2>3. /\ g[s] = f[Pick(s)] + g[s \ {Pick(s)}]
        /\ h[s] = f[Pick(s)] + h[s \ {Pick(s)}]
    BY <1>3, <1>5, AddsUpApply
  <2>. QED BY <1>2, <2>2, <2>3
<1>. QED BY <1>4, <1>5

\* If every proper subset of T has a solution, those put together solve T.
LEMMA AddsUpExtends ==
    ASSUME NEW f, NEW T, IsFiniteSet(T),
           \A U \in SUBSET T : U # T => AddsUp(Adder(f, U), f, U)
    PROVE  \E g : AddsUp(g, f, T)
<1>. DEFINE Rest(s) == s \ {Pick(s)}
            g == [s \in SUBSET T |-> IF s = {} THEN 0
                                     ELSE f[Pick(s)] + Adder(f, Rest(s))[Rest(s)]]
<1>1. ASSUME NEW s \in SUBSET T, s # T
      PROVE  g[s] = Adder(f, s)[s]
  <2>1. AddsUp(Adder(f, s), f, s)
    BY <1>1
  <2>2. CASE s = {}
    BY <2>1, <2>2, AddsUpApply
  <2>3. CASE s # {}
    <3>1. Rest(s) \in SUBSET s /\ Rest(s) # T /\ Rest(s) \in SUBSET T /\ IsFiniteSet(s)
      BY <1>1, <2>3, PickIn, FS_Subset
    <3>2. AddsUp(Adder(f, Rest(s)), f, Rest(s))
      BY <3>1
    <3>3. Adder(f, s)[Rest(s)] = Adder(f, Rest(s))[Rest(s)]
      <4>. HIDE DEF Rest, g
      <4>1. Rest(s) \in SUBSET Rest(s)
        OBVIOUS
      <4>. QED BY <2>1, <3>1, <3>2, <4>1, AddsUpUnique
    <3>4. Adder(f, s)[s] = f[Pick(s)] + Adder(f, s)[Rest(s)]
      <4>1. s \in SUBSET s
        OBVIOUS
      <4>. QED BY <2>1, <2>3, <4>1, AddsUpApply
    <3>5. g[s] = f[Pick(s)] + Adder(f, Rest(s))[Rest(s)]
      BY <2>3
    <3>. QED BY <3>3, <3>4, <3>5
  <2>. QED BY <2>2, <2>3
<1>2. ASSUME NEW s \in SUBSET T, s # {}
      PROVE  g[Rest(s)] = Adder(f, Rest(s))[Rest(s)]
  <2>1. Rest(s) \in SUBSET T /\ Rest(s) # T
    BY <1>2, PickIn
  <2>. HIDE DEF g, Rest
  <2>. QED BY <1>1, <2>1
<1>3. g = [s \in SUBSET T |-> IF s = {} THEN 0 ELSE f[Pick(s)] + g[s \ {Pick(s)}]]
  BY <1>2
<1>4. AddsUp(g, f, T)
  <2>. HIDE DEF g
  <2>. QED BY <1>3 DEF AddsUp
<1>. QED BY <1>4

LEMMA AdderAddsUp ==
    ASSUME NEW f, NEW S, IsFiniteSet(S)
    PROVE  AddsUp(Adder(f, S), f, S)
<1>. DEFINE Bad == {T \in SUBSET S : ~AddsUp(Adder(f, T), f, T)}
<1>1. Bad = {}
  <2>. SUFFICES ASSUME Bad # {}
                PROVE  FALSE
    OBVIOUS
  <2>1. PICK T \in Bad : \A U \in SUBSET T : U # T => U \notin Bad
    <3>1. Bad \in SUBSET SUBSET S
      OBVIOUS
    <3>. HIDE DEF Bad
    <3>. QED BY <3>1, SmallestSubset
  <2>2. T \in SUBSET S /\ ~AddsUp(Adder(f, T), f, T) /\ IsFiniteSet(T)
    BY <2>1, FS_Subset
  <2>3. \A U \in SUBSET T : U # T => AddsUp(Adder(f, U), f, U)
    BY <2>1, <2>2
  <2>4. PICK g : AddsUp(g, f, T)
    BY <2>2, <2>3, AddsUpExtends
  <2>5. AddsUp(Adder(f, T), f, T)
    BY <2>4 DEF Adder
  <2>. QED BY <2>2, <2>5
<1>2. S \in SUBSET S
  OBVIOUS
<1>. QED BY <1>1, <1>2

-----------------------------------------------------------------------------
(* The sum of a function over a finite set                                  *)

LEMMA SumEmpty ==
    ASSUME NEW f
    PROVE  SumFunctionOnSet(f, {}) = 0
<1>1. AddsUp(Adder(f, {}), f, {})
  BY FS_EmptySet, AdderAddsUp
<1>. QED BY <1>1, SumIsAdder, AddsUpApply

LEMMA SumPick ==
    ASSUME NEW f, NEW S, IsFiniteSet(S), S # {}
    PROVE  SumFunctionOnSet(f, S) = f[Pick(S)] + SumFunctionOnSet(f, S \ {Pick(S)})
<1>. DEFINE rest == S \ {Pick(S)}
<1>1. IsFiniteSet(rest) /\ rest \in SUBSET S /\ S \in SUBSET S /\ rest \in SUBSET rest
  BY FS_RemoveElement
<1>2. AddsUp(Adder(f, S), f, S) /\ AddsUp(Adder(f, rest), f, rest)
  BY <1>1, AdderAddsUp
<1>3. Adder(f, S)[rest] = Adder(f, rest)[rest]
  <2>. HIDE DEF rest
  <2>. QED BY <1>1, <1>2, AddsUpUnique
<1>4. Adder(f, S)[S] = f[Pick(S)] + Adder(f, S)[rest]
  BY <1>1, <1>2, AddsUpApply
<1>. QED BY <1>3, <1>4, SumIsAdder

LEMMA SumInt ==
    ASSUME NEW S, IsFiniteSet(S), NEW f, \A x \in S : f[x] \in Int
    PROVE  SumFunctionOnSet(f, S) \in Int
<1>. DEFINE Bad == {T \in SUBSET S : SumFunctionOnSet(f, T) \notin Int}
<1>1. Bad = {}
  <2>. SUFFICES ASSUME Bad # {}
                PROVE  FALSE
    OBVIOUS
  <2>1. PICK T \in Bad : \A U \in SUBSET T : U # T => U \notin Bad
    <3>1. Bad \in SUBSET SUBSET S
      OBVIOUS
    <3>. HIDE DEF Bad
    <3>. QED BY <3>1, SmallestSubset
  <2>2. T \in SUBSET S /\ IsFiniteSet(T) /\ SumFunctionOnSet(f, T) \notin Int
    BY <2>1, FS_Subset
  <2>3. T # {}
    BY <2>2, SumEmpty
  <2>4. SumFunctionOnSet(f, T) = f[Pick(T)] + SumFunctionOnSet(f, T \ {Pick(T)})
    BY <2>2, <2>3, SumPick
  <2>5. SumFunctionOnSet(f, T \ {Pick(T)}) \in Int
    BY <2>1, <2>2, <2>3, PickIn
  <2>6. f[Pick(T)] \in Int
    BY <2>2, <2>3, PickIn
  <2>. QED BY <2>2, <2>4, <2>5, <2>6
<1>. QED BY <1>1

\* The order in which elements are picked does not matter.
LEMMA SumRemove ==
    ASSUME NEW S, IsFiniteSet(S), NEW f, \A x \in S : f[x] \in Int, NEW y \in S
    PROVE  SumFunctionOnSet(f, S) = f[y] + SumFunctionOnSet(f, S \ {y})
<1>. DEFINE Bad == {T \in SUBSET S : \E x \in T :
                      SumFunctionOnSet(f, T) # f[x] + SumFunctionOnSet(f, T \ {x})}
<1>1. Bad = {}
  <2>. SUFFICES ASSUME Bad # {}
                PROVE  FALSE
    OBVIOUS
  <2>1. PICK T \in Bad : \A U \in SUBSET T : U # T => U \notin Bad
    <3>1. Bad \in SUBSET SUBSET S
      OBVIOUS
    <3>. HIDE DEF Bad
    <3>. QED BY <3>1, SmallestSubset
  <2>2. T \in SUBSET S /\ IsFiniteSet(T)
    BY <2>1, FS_Subset
  <2>3. PICK x \in T : SumFunctionOnSet(f, T) # f[x] + SumFunctionOnSet(f, T \ {x})
    BY <2>1
  <2>. DEFINE p == Pick(T)
              Tx == T \ {x}
              Tp == T \ {p}
              both == T \ {x, p}
  <2>4. p \in T
    BY <2>3, PickIn
  <2>5. SumFunctionOnSet(f, T) = f[p] + SumFunctionOnSet(f, Tp)
    BY <2>2, <2>3, SumPick
  <2>6. x # p
    BY <2>3, <2>5
  <2>7. Tx \in SUBSET T /\ Tx # T /\ p \in Tx /\ Tx \ {p} = both
    BY <2>3, <2>4, <2>6
  <2>8. Tp \in SUBSET T /\ Tp # T /\ x \in Tp /\ Tp \ {x} = both
    BY <2>3, <2>4, <2>6
  <2>9. SumFunctionOnSet(f, Tx) = f[p] + SumFunctionOnSet(f, both)
    <3>1. Tx \notin Bad
      <4>. HIDE DEF Bad, Tx, both, p
      <4>. QED BY <2>1, <2>7
    <3>. HIDE DEF Tx, both, p
    <3>. QED BY <2>2, <2>7, <3>1
  <2>10. SumFunctionOnSet(f, Tp) = f[x] + SumFunctionOnSet(f, both)
    <3>1. Tp \notin Bad
      <4>. HIDE DEF Bad, Tp, both, p
      <4>. QED BY <2>1, <2>8
    <3>. HIDE DEF Tp, both, p
    <3>. QED BY <2>2, <2>8, <3>1
  <2>11. f[x] \in Int /\ f[p] \in Int
    BY <2>2, <2>3, <2>4
  <2>12. SumFunctionOnSet(f, both) \in Int
    <3>1. IsFiniteSet(both) /\ both \in SUBSET S
      BY <2>2, FS_Subset
    <3>. HIDE DEF both
    <3>. QED BY <3>1, SumInt
  <2>. HIDE DEF Tx, Tp, both, p
  <2>13. SumFunctionOnSet(f, T) = f[x] + SumFunctionOnSet(f, Tx)
    BY <2>5, <2>9, <2>10, <2>11, <2>12
  <2>. QED BY <2>3, <2>13 DEF Tx
<1>. QED BY <1>1

LEMMA SumSingle ==
    ASSUME NEW f, NEW x, f[x] \in Int
    PROVE  SumFunctionOnSet(f, {x}) = f[x]
<1>1. IsFiniteSet({x})
  BY FS_Singleton
<1>2. SumFunctionOnSet(f, {x}) = f[x] + SumFunctionOnSet(f, {x} \ {x})
  BY <1>1, SumRemove
<1>3. {x} \ {x} = {}
  OBVIOUS
<1>. QED BY <1>2, <1>3, SumEmpty

\* A sum depends on the function's values at the elements only.
LEMMA SumSame ==
    ASSUME NEW S, IsFiniteSet(S), NEW f, NEW g, \A x \in S : f[x] = g[x]
    PROVE  SumFunctionOnSet(f, S) = SumFunctionOnSet(g, S)
<1>. DEFINE Bad == {T \in SUBSET S : SumFunctionOnSet(f, T) # SumFunctionOnSet(g, T)}
<1>1. Bad = {}
  <2>. SUFFICES ASSUME Bad # {}
                PROVE  FALSE
    OBVIOUS
  <2>1. PICK T \in Bad : \A U \in SUBSET T : U # T => U \notin Bad
    <3>1. Bad \in SUBSET SUBSET S
      OBVIOUS
    <3>. HIDE DEF Bad
    <3>. QED BY <3>1, SmallestSubset
  <2>2. /\ T \in SUBSET S /\ IsFiniteSet(T)
        /\ SumFunctionOnSet(f, T) # SumFunctionOnSet(g, T)
    BY <2>1, FS_Subset
  <2>3. T # {}
    BY <2>2, SumEmpty
  <2>4. /\ SumFunctionOnSet(f, T) = f[Pick(T)] + SumFunctionOnSet(f, T \ {Pick(T)})
        /\ SumFunctionOnSet(g, T) = g[Pick(T)] + SumFunctionOnSet(g, T \ {Pick(T)})
    BY <2>2, <2>3, SumPick
  <2>5. SumFunctionOnSet(f, T \ {Pick(T)}) = SumFunctionOnSet(g, T \ {Pick(T)})
    BY <2>1, <2>2, <2>3, PickIn
  <2>6. f[Pick(T)] = g[Pick(T)]
    BY <2>2, <2>3, PickIn
  <2>. QED BY <2>2, <2>4, <2>5, <2>6
<1>. QED BY <1>1

LEMMA SumUnion ==
    ASSUME NEW S, IsFiniteSet(S), NEW R, IsFiniteSet(R), R \cap S = {},
           NEW f, \A x \in R \cup S : f[x] \in Int
    PROVE  SumFunctionOnSet(f, R \cup S) = SumFunctionOnSet(f, R) + SumFunctionOnSet(f, S)
<1>. DEFINE Bad == {T \in SUBSET S : SumFunctionOnSet(f, R \cup T)
                                       # SumFunctionOnSet(f, R) + SumFunctionOnSet(f, T)}
<1>0. SumFunctionOnSet(f, R) \in Int
  BY SumInt
<1>1. Bad = {}
  <2>. SUFFICES ASSUME Bad # {}
                PROVE  FALSE
    OBVIOUS
  <2>1. PICK T \in Bad : \A U \in SUBSET T : U # T => U \notin Bad
    <3>1. Bad \in SUBSET SUBSET S
      OBVIOUS
    <3>. HIDE DEF Bad
    <3>. QED BY <3>1, SmallestSubset
  <2>2. /\ T \in SUBSET S /\ IsFiniteSet(T)
        /\ SumFunctionOnSet(f, R \cup T) # SumFunctionOnSet(f, R) + SumFunctionOnSet(f, T)
    BY <2>1, FS_Subset
  <2>3. T # {}
    <3>1. R \cup {} = R
      OBVIOUS
    <3>. QED BY <1>0, <2>2, <3>1, SumEmpty
  <2>4. PICK x \in T : TRUE
    BY <2>3
  <2>. DEFINE U == T \ {x}
  <2>5. U \in SUBSET T /\ U # T /\ (R \cup T) \ {x} = R \cup U /\ IsFiniteSet(U)
    BY <2>2, <2>4, FS_RemoveElement
  <2>6. SumFunctionOnSet(f, R \cup U) = SumFunctionOnSet(f, R) + SumFunctionOnSet(f, U)
    <3>1. U \notin Bad
      <4>. HIDE DEF Bad, U
      <4>. QED BY <2>1, <2>5
    <3>. HIDE DEF U
    <3>. QED BY <2>2, <2>5, <3>1
  <2>7. SumFunctionOnSet(f, T) = f[x] + SumFunctionOnSet(f, U)
    BY <2>2, <2>4, SumRemove
  <2>8. SumFunctionOnSet(f, R \cup T) = f[x] + SumFunctionOnSet(f, R \cup U)
    <3>1. IsFiniteSet(R \cup T) /\ x \in R \cup T /\ \A y \in R \cup T : f[y] \in Int
      BY <2>2, <2>4, FS_Union
    <3>2. SumFunctionOnSet(f, R \cup T) = f[x] + SumFunctionOnSet(f, (R \cup T) \ {x})
      <4>. HIDE DEF U
      <4>. QED BY <3>1, SumRemove
    <3>. QED BY <2>5, <3>2
  <2>9. f[x] \in Int /\ SumFunctionOnSet(f, U) \in Int
    <3>1. \A y \in U : f[y] \in Int
      BY <2>2
    <3>. HIDE DEF U
    <3>. QED BY <2>2, <2>4, <2>5, <3>1, SumInt
  <2>. HIDE DEF U
  <2>. QED BY <1>0, <2>2, <2>6, <2>7, <2>8, <2>9
<1>2. S \in SUBSET S
  OBVIOUS
<1>. QED BY <1>1, <1>2

\* What exceeds another function by k at each element exceeds its sum by k
\* times as much as there are elements.
LEMMA SumExceeds ==
    ASSUME NEW S, IsFiniteSet(S), NEW k \in Int,
           NEW f, NEW g, \A x \in S : f[x] \in Int /\ g[x] \in Int /\ f[x] >= g[x] + k
    PROVE  SumFunctionOnSet(f, S) >= SumFunctionOnSet(g, S) + k * Cardinality(S)
<1>. DEFINE Bad == {T \in SUBSET S : ~(SumFunctionOnSet(f, T)
                                        >= SumFunctionOnSet(g, T) + k * Cardinality(T))}
<1>1. Bad = {}
  <2>. SUFFICES ASSUME Bad # {}
                PROVE  FALSE
    OBVIOUS
  <2>1. PICK T \in Bad : \A U \in SUBSET T : U # T => U \notin Bad
    <3>1. Bad \in SUBSET SUBSET S
      OBVIOUS
    <3>. HIDE DEF Bad
    <3>. QED BY <3>1, SmallestSubset
  <2>2. /\ T \in SUBSET S /\ IsFiniteSet(T)
        /\ ~(SumFunctionOnSet(f, T) >= SumFunctionOnSet(g, T) + k * Cardinality(T))
    BY <2>1, FS_Subset
  <2>3. T # {}
    <3>. SUFFICES ASSUME T = {}
                  PROVE  FALSE
      OBVIOUS
    <3>1. SumFunctionOnSet(f, T) = 0 /\ SumFunctionOnSet(g, T) = 0 /\ Cardinality(T) = 0
      BY SumEmpty, FS_EmptySet
    <3>2. k * 0 = 0
      OBVIOUS
    <3>. QED BY <2>2, <3>1, <3>2
  <2>. DEFINE x == Pick(T)
              U == T \ {x}
  <2>4. x \in T /\ U \in SUBSET T /\ U # T
    BY <2>3, PickIn
  <2>5. IsFiniteSet(U) /\ Cardinality(U) = Cardinality(T) - 1
    BY <2>2, <2>4, FS_RemoveElement
  <2>6. /\ SumFunctionOnSet(f, T) = f[x] + SumFunctionOnSet(f, U)
        /\ SumFunctionOnSet(g, T) = g[x] + SumFunctionOnSet(g, U)
    BY <2>2, <2>3, SumPick
  <2>7. SumFunctionOnSet(f, U) >= SumFunctionOnSet(g, U) + k * Cardinality(U)
    <3>. HIDE DEF U
    <3>. QED BY <2>1, <2>2, <2>4
  <2>8. f[x] \in Int /\ g[x] \in Int /\ f[x] >= g[x] + k
    <3>. HIDE DEF x
    <3>. QED BY <2>2, <2>4
  <2>9. SumFunctionOnSet(f, U) \in Int /\ SumFunctionOnSet(g, U) \in Int
    <3>1. \A y \in U : f[y] \in Int /\ g[y] \in Int
      BY <2>2
    <3>. HIDE DEF U
    <3>. QED BY <2>5, <3>1, SumInt
  <2>10. Cardinality(T) \in Nat
    BY <2>2, FS_CardinalityType
  <2>. HIDE DEF x, U
  <2>11. k * Cardinality(T) = k + k * Cardinality(U)
    BY <2>5, <2>10
  <2>12. k * Cardinality(U) \in Int
    BY <2>5, <2>10
  <2>. QED BY <2>2, <2>6, <2>7, <2>8, <2>9, <2>11, <2>12
<1>2. S \in SUBSET S
  OBVIOUS
<1>. QED BY <1>1, <1>2

LEMMA SumAtLeast ==
    ASSUME NEW S, IsFiniteSet(S),
           NEW f, NEW g, \A x \in S : f[x] \in Int /\ g[x] \in Int /\ f[x] >= g[x]
    PROVE  SumFunctionOnSet(f, S) >= SumFunctionOnSet(g, S)
<1>1. \A x \in S : f[x] \in Int /\ g[x] \in Int /\ f[x] >= g[x] + 0
  OBVIOUS
<1>2. SumFunctionOnSet(f, S) >= SumFunctionOnSet(g, S) + 0 * Cardinality(S)
  BY <1>1, SumExceeds
<1>3. Cardinality(S) \in Int /\ SumFunctionOnSet(g, S) \in Int
  BY SumInt, FS_CardinalityType
<1>. QED BY <1>2, <1>3

LEMMA SumNat ==
    ASSUME NEW S, IsFiniteSet(S), NEW f, \A x \in S : f[x] \in Nat
    PROVE  SumFunctionOnSet(f, S) \in Nat
<1>. DEFINE Bad == {T \in SUBSET S : SumFunctionOnSet(f, T) \notin Nat}
<1>1. Bad = {}
  <2>. SUFFICES ASSUME Bad # {}
                PROVE  FALSE
    OBVIOUS
  <2>1. PICK T \in Bad : \A U \in SUBSET T : U # T => U \notin Bad
    <3>1. Bad \in SUBSET SUBSET S
      OBVIOUS
    <3>. HIDE DEF Bad
    <3>. QED BY <3>1, SmallestSubset
  <2>2. T \in SUBSET S /\ IsFiniteSet(T) /\ SumFunctionOnSet(f, T) \notin Nat
    BY <2>1, FS_Subset
  <2>3. T # {}
    BY <2>2, SumEmpty
  <2>4. SumFunctionOnSet(f, T) = f[Pick(T)] + SumFunctionOnSet(f, T \ {Pick(T)})
    BY <2>2, <2>3, SumPick
  <2>5. SumFunctionOnSet(f, T \ {Pick(T)}) \in Nat
    BY <2>1, <2>2, <2>3, PickIn
  <2>6. f[Pick(T)] \in Nat
    BY <2>2, <2>3, PickIn
  <2>. QED BY <2>2, <2>4, <2>5, <2>6
<1>. QED BY <1>1

\* A sum whose terms are zero, all of them or all but one or two.
LEMMA SumZero ==
    ASSUME NEW S, IsFiniteSet(S), NEW f, \A x \in S : f[x] = 0
    PROVE  SumFunctionOnSet(f, S) = 0
<1>. DEFINE Bad == {T \in SUBSET S : SumFunctionOnSet(f, T) # 0}
<1>1. Bad = {}
  <2>. SUFFICES ASSUME Bad # {}
                PROVE  FALSE
    OBVIOUS
  <2>1. PICK T \in Bad : \A U \in SUBSET T : U # T => U \notin Bad
    <3>1. Bad \in SUBSET SUBSET S
      OBVIOUS
    <3>. HIDE DEF Bad
    <3>. QED BY <3>1, SmallestSubset
  <2>2. T \in SUBSET S /\ IsFiniteSet(T) /\ SumFunctionOnSet(f, T) # 0
    BY <2>1, FS_Subset
  <2>3. T # {}
    BY <2>2, SumEmpty
  <2>4. SumFunctionOnSet(f, T) = f[Pick(T)] + SumFunctionOnSet(f, T \ {Pick(T)})
    BY <2>2, <2>3, SumPick
  <2>5. SumFunctionOnSet(f, T \ {Pick(T)}) = 0
    BY <2>1, <2>2, <2>3, PickIn
  <2>6. f[Pick(T)] = 0
    BY <2>2, <2>3, PickIn
  <2>. QED BY <2>2, <2>4, <2>5, <2>6
<1>. QED BY <1>1

LEMMA SumAtOne ==
    ASSUME NEW S, IsFiniteSet(S), NEW f, NEW y \in S, f[y] \in Int,
           \A x \in S : x # y => f[x] = 0
    PROVE  SumFunctionOnSet(f, S) = f[y]
<1>1. SumFunctionOnSet(f, S) = f[y] + SumFunctionOnSet(f, S \ {y})
  BY SumRemove
<1>2. IsFiniteSet(S \ {y}) /\ \A x \in S \ {y} : f[x] = 0
  BY FS_Subset
<1>3. SumFunctionOnSet(f, S \ {y}) = 0
  BY <1>2, SumZero
<1>. QED BY <1>1, <1>3

LEMMA SumAtTwo ==
    ASSUME NEW S, IsFiniteSet(S), NEW f, NEW y \in S, NEW z \in S, y # z,
           f[y] \in Int, f[z] \in Int,
           \A x \in S : x # y /\ x # z => f[x] = 0
    PROVE  SumFunctionOnSet(f, S) = f[y] + f[z]
<1>1. SumFunctionOnSet(f, S) = f[y] + SumFunctionOnSet(f, S \ {y})
  BY SumRemove
<1>2. IsFiniteSet(S \ {y}) /\ z \in S \ {y} /\ \A x \in S \ {y} : x # z => f[x] = 0
  BY FS_Subset
<1>3. SumFunctionOnSet(f, S \ {y}) = f[z]
  BY <1>2, SumAtOne
<1>. QED BY <1>1, <1>3

-----------------------------------------------------------------------------
(* Amounts and capacities of cells                                          *)

LEMMA SumOfParts ==
    ASSUME NEW P, IsFiniteSet(P), NEW Q, IsFiniteSet(Q), P \cap Q = {},
           NEW f, DOMAIN f = P, NEW g, DOMAIN g = Q, NEW h, DOMAIN h = P \cup Q,
           \A x \in P : f[x] = h[x] /\ h[x] \in Nat,
           \A x \in Q : g[x] = h[x] /\ h[x] \in Nat
    PROVE  SumFunction(h) = SumFunction(f) + SumFunction(g)
<1>1. /\ SumFunction(f) = SumFunctionOnSet(f, P)
      /\ SumFunction(g) = SumFunctionOnSet(g, Q)
      /\ SumFunction(h) = SumFunctionOnSet(h, P \cup Q)
  BY DEF SumFunction
<1>2. \A x \in P \cup Q : h[x] \in Int
  OBVIOUS
<1>3. SumFunctionOnSet(h, P \cup Q) = SumFunctionOnSet(h, P) + SumFunctionOnSet(h, Q)
  BY <1>2, SumUnion
<1>4. SumFunctionOnSet(h, P) = SumFunctionOnSet(f, P)
  BY SumSame
<1>5. SumFunctionOnSet(h, Q) = SumFunctionOnSet(g, Q)
  BY SumSame
<1>. QED BY <1>1, <1>3, <1>4, <1>5

LEMMA SumFunctionNat ==
    ASSUME NEW P, IsFiniteSet(P), NEW f \in [P -> Nat]
    PROVE  SumFunction(f) \in Nat
<1>1. SumFunction(f) = SumFunctionOnSet(f, P)
  BY DEF SumFunction
<1>2. \A x \in P : f[x] \in Nat
  OBVIOUS
<1>. QED BY <1>1, <1>2, SumNat

LEMMA SumFunctionSingle ==
    ASSUME NEW x, NEW f \in [{x} -> Nat]
    PROVE  SumFunction(f) = f[x]
<1>1. SumFunction(f) = SumFunctionOnSet(f, {x})
  BY DEF SumFunction
<1>2. f[x] \in Int
  OBVIOUS
<1>. QED BY <1>1, <1>2, SumSingle

=============================================================================
