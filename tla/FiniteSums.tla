----------------------------- MODULE FiniteSums -----------------------------
(***************************************************************************)
(* Facts about SumFunctionOnSet(f, S), the sum of f over a finite set S:   *)
(* taken apart, bounded, scaled, rounded and reindexed; and about folds    *)
(* over a finite set in a chosen order, kept in a table of the subsets.    *)
(***************************************************************************)
EXTENDS Integers, FiniteSets, Functions, FiniteSetTheorems, TLAPS

\* g tabulates the partial sums of f over the subsets of S, taking out one
\* chosen element at a time as the fold does.
IsSumTable(g, f, S) ==
  g = [s \in SUBSET S |->
         IF s = {} THEN 0
         ELSE f[CHOOSE x \in s : TRUE] + g[s \ {CHOOSE x \in s : TRUE}]]

SumTable(f, S) == CHOOSE g : IsSumTable(g, f, S)

LEMMA SumIsTableEntry ==
  ASSUME NEW f, NEW S
  PROVE  SumFunctionOnSet(f, S) = SumTable(f, S)[S]
BY DEF SumFunctionOnSet, FoldFunctionOnSet, MapThenFoldSet, SumTable, IsSumTable

\* Every nonempty family of subsets of a finite set has a minimal member.
LEMMA MinimalSubset ==
  ASSUME NEW S, IsFiniteSet(S), NEW B, B \subseteq SUBSET S, B # {}
  PROVE  \E T \in B : \A U \in B : ~(U \subseteq T /\ U # T)
<1>1. IsWellFoundedOn(StrictSubsetOrdering(S), SUBSET S)
  BY FS_StrictSubsetOrderingWellFounded, FS_FiniteSubsetsOfFinite
<1>2. \E T \in B : \A U \in B : ~(<<U, T>> \in StrictSubsetOrdering(S))
  BY <1>1, WFMin
<1>3. ASSUME NEW U \in B, NEW T \in B, U \subseteq T, U # T
      PROVE  <<U, T>> \in StrictSubsetOrdering(S)
  BY <1>3 DEF StrictSubsetOrdering
<1>4. QED BY <1>2, <1>3

\* A table of one function is a table of any other with the same values.
LEMMA SameTable ==
  ASSUME NEW T, NEW f, NEW r, \A y \in T : r[y] = f[y], NEW g, IsSumTable(g, r, T)
  PROVE  IsSumTable(g, f, T)
<1>1. \A s \in SUBSET T : s # {} => r[CHOOSE x \in s : TRUE] = f[CHOOSE x \in s : TRUE]
  OBVIOUS
<1>2. DOMAIN g = SUBSET T /\ \A s \in SUBSET T :
        g[s] = IF s = {} THEN 0 ELSE r[CHOOSE x \in s : TRUE] + g[s \ {CHOOSE x \in s : TRUE}]
  BY DEF IsSumTable
<1>3. \A s \in SUBSET T :
        g[s] = IF s = {} THEN 0 ELSE f[CHOOSE x \in s : TRUE] + g[s \ {CHOOSE x \in s : TRUE}]
  BY <1>1, <1>2
<1>4. g = [s \in SUBSET T |-> g[s]]
  BY DEF IsSumTable
<1>5. QED BY <1>3, <1>4 DEF IsSumTable

\* Two tables of the same function agree wherever both are defined.
LEMMA TablesAgree ==
  ASSUME NEW S, IsFiniteSet(S), NEW f, NEW T \in SUBSET S, NEW g, NEW h,
         IsSumTable(g, f, S), IsSumTable(h, f, T)
  PROVE  \A U \in SUBSET T : g[U] = h[U]
<1> DEFINE Bad == {U \in SUBSET T : g[U] # h[U]}
<1>1. SUFFICES ASSUME Bad # {} PROVE FALSE
  OBVIOUS
<1>2. Bad \subseteq SUBSET S
  OBVIOUS
<1>3. PICK U \in Bad : \A V \in Bad : ~(V \subseteq U /\ V # U)
  <2> HIDE DEF Bad
  <2>1. QED BY <1>1, <1>2, MinimalSubset
<1> DEFINE x == CHOOSE x \in U : TRUE
<1>4. g[{}] = 0 /\ h[{}] = 0
  BY DEF IsSumTable
<1>5. U # {} /\ x \in U
  BY <1>4
<1>6. U \ {x} \notin Bad /\ U \ {x} \in SUBSET T
  BY <1>3, <1>5
<1>7. g[U] = f[x] + g[U \ {x}] /\ h[U] = f[x] + h[U \ {x}]
  BY <1>5 DEF IsSumTable
<1>8. QED BY <1>6, <1>7

\* A finite set has a table of sums, and the partial sums are integers.
LEMMA TableExists ==
  ASSUME NEW S, IsFiniteSet(S), NEW f \in [S -> Int]
  PROVE  /\ IsSumTable(SumTable(f, S), f, S)
         /\ SumTable(f, S) \in [SUBSET S -> Int]
<1> DEFINE Good(T) == \E g : IsSumTable(g, f, T)
           Bad == {T \in SUBSET S : ~Good(T)}
           G(T) == CHOOSE g : IsSumTable(g, f, T)
           pick(s) == CHOOSE x \in s : TRUE
<1>1. Bad = {}
  <2>1. SUFFICES ASSUME Bad # {} PROVE FALSE
    OBVIOUS
  <2>2. PICK T \in Bad : \A U \in Bad : ~(U \subseteq T /\ U # T)
    <3>1. Bad \subseteq SUBSET S
      OBVIOUS
    <3> HIDE DEF Bad
    <3>2. QED BY <2>1, <3>1, MinimalSubset
  <2>3. \A U \in SUBSET T : U # T => IsSumTable(G(U), f, U)
    BY <2>2
  <2> DEFINE h == [s \in SUBSET T |-> IF s = {} THEN 0
                     ELSE f[pick(s)] + G(s \ {pick(s)})[s \ {pick(s)}]]
  <2>4. ASSUME NEW s \in SUBSET T, s # T
        PROVE  h[s] = G(s)[s]
    <3>1. CASE s = {}
      <4>1. IsSumTable(G(s), f, s)
        BY <2>3, <2>4
      <4>2. G(s)[{}] = 0
        <5> HIDE DEF G
        <5>1. QED BY <4>1 DEF IsSumTable
      <4>3. h[s] = 0
        BY <3>1
      <4>4. QED BY <3>1, <4>2, <4>3
    <3>2. CASE s # {}
      <4> DEFINE v == s \ {pick(s)}
      <4>1. v \in SUBSET s /\ v # s /\ v # T
        BY <3>2, <2>4
      <4>2. IsSumTable(G(s), f, s) /\ IsSumTable(G(v), f, v)
        BY <2>3, <2>4, <4>1
      <4>3. IsFiniteSet(s)
        BY FS_Subset
      <4>4. G(s)[v] = G(v)[v]
        BY <4>1, <4>2, <4>3, TablesAgree
      <4>5. G(s)[s] = f[pick(s)] + G(s)[v]
        BY <4>2, <3>2 DEF IsSumTable
      <4>6. h[s] = f[pick(s)] + G(v)[v]
        BY <3>2
      <4>7. QED BY <4>4, <4>5, <4>6
    <3>3. QED BY <3>1, <3>2
  <2>5. \A s \in SUBSET T : s # {} => h[s] = f[pick(s)] + h[s \ {pick(s)}]
    <3>1. TAKE s \in SUBSET T
    <3>2. HAVE s # {}
    <3> DEFINE v == s \ {pick(s)}
    <3>3. v \in SUBSET T /\ v # T
      BY <3>2
    <3>4. h[v] = G(v)[v]
      BY <2>4, <3>3
    <3>5. h[s] = f[pick(s)] + G(v)[v]
      BY <3>2
    <3>6. QED BY <3>4, <3>5
  <2>6. h[{}] = 0
    OBVIOUS
  <2>7. h = [s \in SUBSET T |-> h[s]]
    OBVIOUS
  <2> HIDE DEF h
  <2>8. IsSumTable(h, f, T)
    BY <2>5, <2>6, <2>7 DEF IsSumTable
  <2>9. QED BY <2>2, <2>8
<1>2. IsSumTable(SumTable(f, S), f, S)
  BY <1>1 DEF SumTable
<1> DEFINE t == SumTable(f, S)
<1>3. SumTable(f, S) \in [SUBSET S -> Int]
  <2> DEFINE NonInt == {T \in SUBSET S : t[T] \notin Int}
  <2>1. SUFFICES ASSUME NonInt # {} PROVE FALSE
    BY <1>2 DEF IsSumTable
  <2>2. NonInt \subseteq SUBSET S
    OBVIOUS
  <2>3. PICK T \in NonInt : \A U \in NonInt : ~(U \subseteq T /\ U # T)
    <3> HIDE DEF NonInt
    <3>1. QED BY <2>1, <2>2, MinimalSubset
  <2>4. T # {}
    BY <1>2 DEF IsSumTable
  <2>5. pick(T) \in T
    BY <2>4
  <2>6. t[T \ {pick(T)}] \in Int /\ f[pick(T)] \in Int
    BY <2>3, <2>5
  <2>7. t[T] = f[pick(T)] + t[T \ {pick(T)}]
    BY <1>2, <2>4 DEF IsSumTable
  <2>8. QED BY <2>6, <2>7
<1>4. QED BY <1>2, <1>3

\* The entry of a nonempty set in the table of its superset, one element out.
LEMMA TableStep ==
  ASSUME NEW S, NEW f, NEW g, IsSumTable(g, f, S), NEW U \in SUBSET S, U # {}
  PROVE  LET x == CHOOSE x \in U : TRUE
         IN  x \in U /\ g[U] = f[x] + g[U \ {x}]
BY DEF IsSumTable

LEMMA TableZero ==
  ASSUME NEW S, NEW f, NEW g, IsSumTable(g, f, S)
  PROVE  g[{}] = 0
BY DEF IsSumTable

\* The empty sum is zero.
THEOREM SumEmpty ==
  ASSUME NEW f \in [{} -> Int]
  PROVE  SumFunctionOnSet(f, {}) = 0
<1>1. IsSumTable(SumTable(f, {}), f, {})
  BY TableExists, FS_EmptySet
<1>2. QED BY <1>1, TableZero, SumIsTableEntry

\* A finite sum of integers is an integer.
THEOREM SumInt ==
  ASSUME NEW S, IsFiniteSet(S), NEW f \in [S -> Int]
  PROVE  SumFunctionOnSet(f, S) \in Int
<1>1. SumTable(f, S) \in [SUBSET S -> Int]
  BY TableExists
<1>2. S \in SUBSET S
  OBVIOUS
<1>3. SumTable(f, S)[S] \in Int
  BY <1>1, <1>2
<1>4. QED BY <1>3, SumIsTableEntry

\* Changing one summand changes the sum by the same amount.
THEOREM SumUpdate ==
  ASSUME NEW S, IsFiniteSet(S), NEW f \in [S -> Int], NEW h \in [S -> Int],
         NEW x \in S, \A y \in S \ {x} : h[y] = f[y]
  PROVE  SumFunctionOnSet(h, S) = SumFunctionOnSet(f, S) - f[x] + h[x]
<1> DEFINE tf == SumTable(f, S)
           th == SumTable(h, S)
           Diff(U) == IF x \in U THEN h[x] - f[x] ELSE 0
           Bad == {U \in SUBSET S : th[U] # tf[U] + Diff(U)}
<1>1. /\ IsSumTable(tf, f, S) /\ tf \in [SUBSET S -> Int]
      /\ IsSumTable(th, h, S) /\ th \in [SUBSET S -> Int]
  BY TableExists
<1>2. ASSUME Bad # {} PROVE FALSE
  <2>1. PICK U \in Bad : \A V \in Bad : ~(V \subseteq U /\ V # U)
    <3>1. Bad \subseteq SUBSET S
      OBVIOUS
    <3> HIDE DEF Bad
    <3>2. QED BY <1>2, <3>1, MinimalSubset
  <2> DEFINE y == CHOOSE y \in U : TRUE
             V == U \ {y}
  <2> HIDE DEF tf, th
  <2>2. U # {}
    <3>1. tf[{}] = 0 /\ th[{}] = 0
      BY <1>1, TableZero
    <3>2. Diff({}) = 0
      OBVIOUS
    <3>3. th[U] # tf[U] + Diff(U)
      OBVIOUS
    <3> HIDE DEF Diff, Bad
    <3>4. SUFFICES ASSUME U = {} PROVE FALSE
      OBVIOUS
    <3>5. th[{}] # tf[{}] + Diff({})
      BY <3>3, <3>4
    <3>6. QED BY <3>1, <3>2, <3>5
  <2>3. y \in U /\ tf[U] = f[y] + tf[V] /\ th[U] = h[y] + th[V]
    BY <1>1, <2>2, TableStep
  <2>4. th[V] = tf[V] + Diff(V)
    BY <2>1, <2>3
  <2>5. tf[V] \in Int /\ th[V] \in Int /\ f[y] \in Int /\ h[y] \in Int
    BY <1>1, <2>3
  <2> HIDE DEF y
  <2>6. CASE y = x
    <3>1. Diff(V) = 0 /\ Diff(U) = h[x] - f[x]
      BY <2>3, <2>6
    <3>2. th[U] # tf[U] + Diff(U)
      OBVIOUS
    <3> HIDE DEF Diff
    <3>3. QED BY <2>3, <2>4, <2>5, <2>6, <3>1, <3>2
  <2>7. CASE y # x
    <3>1. h[y] = f[y] /\ Diff(V) = Diff(U)
      BY <2>3, <2>7
    <3>2. QED BY <2>3, <2>4, <2>5, <3>1
  <2>8. QED BY <2>6, <2>7
<1>3. th[S] = tf[S] + (h[x] - f[x])
  BY <1>2
<1>4. QED
  <2> HIDE DEF tf, th
  <2>1. tf[S] \in Int /\ th[S] \in Int
    BY <1>1
  <2>2. SumFunctionOnSet(f, S) = tf[S] /\ SumFunctionOnSet(h, S) = th[S]
    BY SumIsTableEntry DEF tf, th
  <2>3. QED BY <1>3, <2>1, <2>2

\* A sum of zeros is zero.
THEOREM SumOfZeros ==
  ASSUME NEW S, IsFiniteSet(S), NEW f \in [S -> Int], \A x \in S : f[x] = 0
  PROVE  SumFunctionOnSet(f, S) = 0
<1> DEFINE t == SumTable(f, S)
           Bad == {U \in SUBSET S : t[U] # 0}
<1>1. IsSumTable(t, f, S)
  BY TableExists
<1>2. ASSUME Bad # {} PROVE FALSE
  <2>1. PICK U \in Bad : \A V \in Bad : ~(V \subseteq U /\ V # U)
    <3>1. Bad \subseteq SUBSET S
      OBVIOUS
    <3> HIDE DEF Bad
    <3>2. QED BY <1>2, <3>1, MinimalSubset
  <2> DEFINE y == CHOOSE y \in U : TRUE
             V == U \ {y}
  <2> HIDE DEF t
  <2>2. U # {}
    BY <1>1, TableZero
  <2>3. y \in U /\ t[U] = f[y] + t[V]
    BY <1>1, <2>2, TableStep
  <2>4. t[V] = 0 /\ f[y] = 0
    BY <2>1, <2>3
  <2>5. QED BY <2>3, <2>4
<1>3. QED BY <1>2, SumIsTableEntry

\* A finite sum of naturals is a natural, and at least each of its summands.
THEOREM SumNat ==
  ASSUME NEW S, IsFiniteSet(S), NEW f \in [S -> Nat]
  PROVE  /\ SumFunctionOnSet(f, S) \in Nat
         /\ \A x \in S : f[x] <= SumFunctionOnSet(f, S)
<1> DEFINE t == SumTable(f, S)
           Bad == {U \in SUBSET S : ~(t[U] \in Nat /\ \A x \in U : f[x] <= t[U])}
<1>1. IsSumTable(t, f, S)
  <2>1. f \in [S -> Int]
    OBVIOUS
  <2> HIDE DEF Bad
  <2>2. QED BY <2>1, TableExists
<1>2. ASSUME Bad # {} PROVE FALSE
  <2>1. PICK U \in Bad : \A V \in Bad : ~(V \subseteq U /\ V # U)
    <3>1. Bad \subseteq SUBSET S
      OBVIOUS
    <3> HIDE DEF Bad
    <3>2. QED BY <1>2, <3>1, MinimalSubset
  <2> DEFINE y == CHOOSE y \in U : TRUE
             V == U \ {y}
  <2> HIDE DEF t
  <2>2. U # {}
    BY <1>1, TableZero
  <2>3. y \in U /\ t[U] = f[y] + t[V]
    <3>1. U \in SUBSET S
      OBVIOUS
    <3> HIDE DEF Bad
    <3>2. QED BY <1>1, <2>2, <3>1, TableStep
  <2>4. t[V] \in Nat /\ \A x \in V : f[x] <= t[V]
    BY <2>1, <2>3
  <2>5. f[y] \in Nat /\ \A x \in V : f[x] \in Nat
    BY <2>3
  <2> HIDE DEF y
  <2>6. t[U] \in Nat /\ f[y] <= t[U] /\ t[V] <= t[U]
    BY <2>3, <2>4, <2>5
  <2>7. ASSUME NEW x \in U PROVE f[x] <= t[U]
    <3>1. CASE x = y
      BY <2>6, <3>1
    <3>2. CASE x # y
      <4>1. f[x] <= t[V] /\ f[x] \in Nat
        BY <2>4, <2>5, <3>2
      <4>2. QED BY <4>1, <2>4, <2>6
    <3>3. QED BY <3>1, <3>2
  <2>8. QED BY <2>6, <2>7
<1>3. t[S] \in Nat /\ \A x \in S : f[x] <= t[S]
  BY <1>2
<1>4. QED BY <1>3, SumIsTableEntry

\* In a table any element may be taken out, not only the chosen one.
LEMMA TableOut ==
  ASSUME NEW S, IsFiniteSet(S), NEW f \in [S -> Int]
  PROVE  \A U \in SUBSET S : \A x \in U :
           SumTable(f, S)[U] = f[x] + SumTable(f, S)[U \ {x}]
<1> DEFINE t == SumTable(f, S)
           Bad == {U \in SUBSET S : \E x \in U : t[U] # f[x] + t[U \ {x}]}
<1>1. IsSumTable(t, f, S) /\ t \in [SUBSET S -> Int]
  BY TableExists
<1> HIDE DEF t
<1>2. ASSUME Bad # {} PROVE FALSE
  <2>1. PICK U \in Bad : \A V \in Bad : ~(V \subseteq U /\ V # U)
    <3>1. Bad \subseteq SUBSET S
      OBVIOUS
    <3> HIDE DEF Bad
    <3>2. QED BY <1>2, <3>1, MinimalSubset
  <2>2. PICK x \in U : t[U] # f[x] + t[U \ {x}]
    OBVIOUS
  <2> DEFINE y == CHOOSE y \in U : TRUE
  <2>3. y \in U /\ t[U] = f[y] + t[U \ {y}]
    <3>1. U \in SUBSET S /\ U # {}
      BY <2>2
    <3> HIDE DEF Bad
    <3>2. QED BY <1>1, <3>1, TableStep
  <2> HIDE DEF y
  <2>4. x # y
    BY <2>2, <2>3
  <2>5. /\ t[U \ {y}] = f[x] + t[(U \ {y}) \ {x}]
        /\ t[U \ {x}] = f[y] + t[(U \ {x}) \ {y}]
    <3>1. /\ U \ {y} \subseteq U /\ U \ {y} # U /\ U \ {y} \in SUBSET S /\ x \in U \ {y}
          /\ U \ {x} \subseteq U /\ U \ {x} # U /\ U \ {x} \in SUBSET S /\ y \in U \ {x}
      BY <2>3, <2>4
    <3>2. U \ {y} \notin Bad /\ U \ {x} \notin Bad
      BY <2>1, <3>1
    <3>3. QED BY <3>1, <3>2
  <2>6. (U \ {y}) \ {x} = (U \ {x}) \ {y}
    OBVIOUS
  <2>7. /\ f[x] \in Int /\ f[y] \in Int
        /\ t[(U \ {x}) \ {y}] \in Int /\ t[U \ {x}] \in Int
    <3>1. U \in SUBSET S
      OBVIOUS
    <3>2. x \in S /\ y \in S /\ (U \ {x}) \ {y} \in SUBSET S /\ U \ {x} \in SUBSET S
      BY <2>3, <3>1
    <3>3. QED BY <1>1, <3>2
  <2>8. t[U \ {y}] = f[x] + t[(U \ {x}) \ {y}]
    BY <2>5, <2>6
  <2> DEFINE rest == t[(U \ {x}) \ {y}]
             withoutX == t[U \ {x}]
             withoutY == t[U \ {y}]
  <2>9. /\ t[U] = f[y] + withoutY /\ t[U] # f[x] + withoutX
        /\ withoutY = f[x] + rest /\ withoutX = f[y] + rest
        /\ f[x] \in Int /\ f[y] \in Int /\ rest \in Int
    BY <2>2, <2>3, <2>5, <2>7, <2>8
  <2> HIDE DEF Bad, rest, withoutX, withoutY
  <2>10. QED BY <2>9
<1>3. QED BY <1>2 DEF t

\* Restricting a function to a part of its domain does not change sums over it.
LEMMA SumOfPart ==
  ASSUME NEW S, IsFiniteSet(S), NEW f \in [S -> Int], NEW T \in SUBSET S
  PROVE  SumFunctionOnSet([y \in T |-> f[y]], T) = SumTable(f, S)[T]
<1> DEFINE r == [y \in T |-> f[y]]
           h == SumTable(r, T)
<1>1. IsFiniteSet(T) /\ r \in [T -> Int]
  BY FS_Subset
<1>2. IsSumTable(h, r, T) /\ IsSumTable(SumTable(f, S), f, S)
  BY <1>1, TableExists
<1> HIDE DEF h
<1>3. IsSumTable(h, f, T)
  <2>1. \A y \in T : r[y] = f[y]
    OBVIOUS
  <2> HIDE DEF r
  <2>2. QED BY ONLY <1>2, <2>1, SameTable
<1>4. h[T] = SumTable(f, S)[T]
  BY <1>2, <1>3, TablesAgree
<1>5. QED BY <1>4, SumIsTableEntry DEF h

\* A sum is any one of its summands and the sum of the others.
THEOREM SumOut ==
  ASSUME NEW S, IsFiniteSet(S), NEW f \in [S -> Int], NEW x \in S
  PROVE  SumFunctionOnSet(f, S)
           = f[x] + SumFunctionOnSet([y \in S \ {x} |-> f[y]], S \ {x})
<1>1. S \in SUBSET S /\ S \ {x} \in SUBSET S
  OBVIOUS
<1>2. SumTable(f, S)[S] = f[x] + SumTable(f, S)[S \ {x}]
  BY <1>1, TableOut
<1>3. QED BY <1>1, <1>2, SumOfPart, SumIsTableEntry

\* A part of a sum of naturals is at most the whole.
THEOREM SumMonotone ==
  ASSUME NEW S, IsFiniteSet(S), NEW f \in [S -> Nat], NEW T \in SUBSET S
  PROVE  SumFunctionOnSet([y \in T |-> f[y]], T) <= SumFunctionOnSet(f, S)
<1> DEFINE t == SumTable(f, S)
           Bad == {U \in SUBSET S : T \subseteq U /\ ~(t[T] <= t[U])}
<1>1. f \in [S -> Int]
  OBVIOUS
<1>2. /\ t \in [SUBSET S -> Int]
      /\ \A U \in SUBSET S : \A x \in U : t[U] = f[x] + t[U \ {x}]
  BY <1>1, TableExists, TableOut
<1>3. /\ SumFunctionOnSet([y \in T |-> f[y]], T) = t[T]
      /\ SumFunctionOnSet(f, S) = t[S]
  BY <1>1, SumOfPart, SumIsTableEntry
<1> HIDE DEF t
<1>4. ASSUME Bad # {} PROVE FALSE
  <2>1. PICK U \in Bad : \A V \in Bad : ~(V \subseteq U /\ V # U)
    <3>1. Bad \subseteq SUBSET S
      OBVIOUS
    <3> HIDE DEF Bad
    <3>2. QED BY <1>4, <3>1, MinimalSubset
  <2>2. U # T
    <3>1. t[T] \in Int
      BY <1>2
    <3>2. QED BY <3>1
  <2>3. PICK x \in U : x \notin T
    BY <2>2
  <2>4. U \ {x} \notin Bad /\ U \ {x} \in SUBSET S /\ T \subseteq U \ {x} /\ x \in S
    BY <2>1, <2>3
  <2>5. t[T] <= t[U \ {x}] /\ t[U] = f[x] + t[U \ {x}]
    BY <1>2, <2>3, <2>4
  <2>6. t[T] \in Int /\ t[U] \in Int /\ t[U \ {x}] \in Int /\ f[x] \in Nat
    BY <1>2, <2>4
  <2>7. ~(t[T] <= t[U])
    OBVIOUS
  <2> HIDE DEF Bad
  <2>8. QED BY <2>5, <2>6, <2>7
<1>5. t[T] <= t[S]
  BY <1>4
<1>6. QED BY <1>3, <1>5

\* Summands that are zero may be left out.
THEOREM SumOfRelevant ==
  ASSUME NEW S, IsFiniteSet(S), NEW f \in [S -> Int], NEW T \in SUBSET S, NEW g \in [T -> Int],
         \A x \in T : g[x] = f[x], \A x \in S \ T : f[x] = 0
  PROVE  SumFunctionOnSet(g, T) = SumFunctionOnSet(f, S)
<1> DEFINE t == SumTable(f, S)
           Bad == {U \in SUBSET S : T \subseteq U /\ t[T] # t[U]}
<1>1. /\ t \in [SUBSET S -> Int]
      /\ \A U \in SUBSET S : \A x \in U : t[U] = f[x] + t[U \ {x}]
  <2> HIDE DEF Bad
  <2>1. t \in [SUBSET S -> Int]
    BY TableExists
  <2>2. \A U \in SUBSET S : \A x \in U : t[U] = f[x] + t[U \ {x}]
    BY ONLY TableOut, IsFiniteSet(S), f \in [S -> Int]
  <2>3. QED BY <2>1, <2>2
<1>2. SumFunctionOnSet(g, T) = t[T] /\ SumFunctionOnSet(f, S) = t[S]
  <2> HIDE DEF t, Bad
  <2>1. g = [y \in T |-> f[y]]
    <3>1. g = [y \in T |-> g[y]]
      OBVIOUS
    <3>2. QED BY <3>1
  <2>2. SumFunctionOnSet([y \in T |-> f[y]], T) = SumTable(f, S)[T]
    BY SumOfPart
  <2>3. QED BY <2>1, <2>2, SumIsTableEntry DEF t
<1> HIDE DEF t
<1>3. ASSUME Bad # {} PROVE FALSE
  <2>1. PICK U \in Bad : \A V \in Bad : ~(V \subseteq U /\ V # U)
    <3>1. Bad \subseteq SUBSET S
      OBVIOUS
    <3> HIDE DEF Bad
    <3>2. QED BY <1>3, <3>1, MinimalSubset
  <2>2. PICK x \in U : x \notin T
    OBVIOUS
  <2>3. U \ {x} \notin Bad /\ U \ {x} \in SUBSET S /\ T \subseteq U \ {x} /\ x \in S /\ U \in SUBSET S
    BY <2>1, <2>2
  <2>4. t[T] = t[U \ {x}] /\ t[U] = f[x] + t[U \ {x}] /\ f[x] = 0 /\ t[U \ {x}] \in Int
    BY <1>1, <2>2, <2>3
  <2>5. t[T] # t[U]
    OBVIOUS
  <2> HIDE DEF Bad
  <2>6. QED BY <2>4, <2>5
<1>4. QED BY <1>2, <1>3

\* The sum of a function over a part of its domain is an entry of its table.
LEMMA SumOnPart ==
  ASSUME NEW S, IsFiniteSet(S), NEW f \in [S -> Int], NEW T \in SUBSET S
  PROVE  SumFunctionOnSet(f, T) = SumTable(f, S)[T]
<1> DEFINE r == [y \in T |-> f[y]]
           g == SumTable(r, T)
<1>1. IsFiniteSet(T) /\ r \in [T -> Int]
  BY FS_Subset
<1>2. IsSumTable(g, r, T) /\ IsSumTable(SumTable(f, S), f, S)
  BY <1>1, TableExists
<1> HIDE DEF g
<1>3. IsSumTable(g, f, T)
  <2>1. \A y \in T : r[y] = f[y]
    OBVIOUS
  <2> HIDE DEF r
  <2>2. QED BY ONLY <1>2, <2>1, SameTable
<1>4. IsSumTable(SumTable(f, T), f, T)
  BY <1>3 DEF SumTable
<1>5. \A U \in SUBSET T : SumTable(f, S)[U] = SumTable(f, T)[U]
  BY <1>2, <1>4, TablesAgree
<1>6. T \in SUBSET T
  OBVIOUS
<1>7. QED BY <1>5, <1>6, SumIsTableEntry

\* So it does not matter whether the function is restricted to the part.
LEMMA SumRestricted ==
  ASSUME NEW S, IsFiniteSet(S), NEW f \in [S -> Int], NEW T \in SUBSET S
  PROVE  SumFunctionOnSet(f, T) = SumFunctionOnSet([y \in T |-> f[y]], T)
BY SumOfPart, SumOnPart

\* A sum of naturals over a part covered by two others is at most theirs.
THEOREM SumCovered ==
  ASSUME NEW S, IsFiniteSet(S), NEW f \in [S -> Nat],
         NEW A \in SUBSET S, NEW B \in SUBSET S, NEW C \in SUBSET S, A \subseteq B \cup C
  PROVE  /\ SumFunctionOnSet(f, A) \in Nat
         /\ SumFunctionOnSet(f, A) <= SumFunctionOnSet(f, B) + SumFunctionOnSet(f, C)
<1> DEFINE t == SumTable(f, S)
<1>1. f \in [S -> Int]
  OBVIOUS
<1>2. /\ t \in [SUBSET S -> Int]
      /\ \A U \in SUBSET S : \A x \in U : t[U] = f[x] + t[U \ {x}]
      /\ t[{}] = 0
  <2>1. IsSumTable(t, f, S) /\ t \in [SUBSET S -> Int]
    BY <1>1, TableExists
  <2>2. \A U \in SUBSET S : \A x \in U : t[U] = f[x] + t[U \ {x}]
    BY <1>1, TableOut
  <2>3. t[{}] = 0
    BY <2>1, TableZero
  <2>4. QED BY <2>1, <2>2, <2>3
<1>3. /\ SumFunctionOnSet(f, A) = t[A] /\ SumFunctionOnSet(f, B) = t[B]
      /\ SumFunctionOnSet(f, C) = t[C]
  BY <1>1, SumOnPart
<1>4. ASSUME NEW U \in SUBSET S, NEW V \in SUBSET U PROVE t[V] \in Nat /\ t[V] <= t[U]
  <2>1. V \in SUBSET S /\ IsFiniteSet(U) /\ IsFiniteSet(V)
    BY FS_Subset
  <2> DEFINE fU == [y \in U |-> f[y]]
             fV == [y \in V |-> f[y]]
             fUV == [y \in V |-> fU[y]]
  <2>2. fU \in [U -> Nat] /\ fV \in [V -> Nat] /\ fUV = fV
    BY <2>1
  <2>3. SumFunctionOnSet(fU, U) = t[U] /\ SumFunctionOnSet(fV, V) = t[V]
    BY <1>1, <2>1, SumOfPart
  <2> HIDE DEF t, fU, fV
  <2>4. SumFunctionOnSet(fUV, V) <= SumFunctionOnSet(fU, U)
    BY <2>1, <2>2, SumMonotone
  <2>5. SumFunctionOnSet(fV, V) \in Nat
    BY <2>1, <2>2, SumNat
  <2> HIDE DEF fUV
  <2>6. SumFunctionOnSet(fUV, V) = SumFunctionOnSet(fV, V)
    BY <2>2
  <2>7. t[V] \in Nat /\ t[V] <= t[U]
    BY <2>3, <2>4, <2>5, <2>6
  <2>8. QED BY <2>7 DEF t
<1> HIDE DEF t
<1>5. ASSUME NEW U \in SUBSET S, U \subseteq B \cup C
      PROVE  t[U] <= t[U \cap B] + t[U \cap C]
  <2> DEFINE Worse == {V \in SUBSET S : V \subseteq B \cup C /\ ~(t[V] <= t[V \cap B] + t[V \cap C])}
  <2>1. SUFFICES ASSUME Worse # {} PROVE FALSE
    BY <1>5
  <2>2. PICK V \in Worse : \A W \in Worse : ~(W \subseteq V /\ W # V)
    <3>1. Worse \subseteq SUBSET S
      OBVIOUS
    <3> HIDE DEF Worse
    <3>2. QED BY <2>1, <3>1, MinimalSubset
  <2>3. V # {}
    <3>1. SUFFICES ASSUME V = {} PROVE FALSE
      OBVIOUS
    <3>2. V \cap B = V /\ V \cap C = V /\ t[V] = 0
      BY <1>2, <3>1
    <3>3. ~(t[V] <= t[V \cap B] + t[V \cap C])
      OBVIOUS
    <3> HIDE DEF Worse
    <3>4. QED BY <3>2, <3>3
  <2>4. PICK x \in V : TRUE
    BY <2>3
  <2> DEFINE W == V \ {x}
             inB == t[V \cap B]
             inC == t[V \cap C]
             lessB == t[W \cap B]
             lessC == t[W \cap C]
  <2>5. /\ V \in SUBSET S /\ W \in SUBSET S /\ W \subseteq B \cup C /\ W \notin Worse /\ x \in S
        /\ x \in B \/ x \in C
    BY <2>2
  <2>6. t[W] <= lessB + lessC /\ ~(t[V] <= inB + inC) /\ t[V] = f[x] + t[W]
    <3>1. t[W] <= lessB + lessC /\ ~(t[V] <= inB + inC)
      BY <2>5
    <3>2. t[V] = f[x] + t[W]
      BY <1>2, <2>5
    <3>3. QED BY <3>1, <3>2
  <2>7. inB = (IF x \in B THEN f[x] + lessB ELSE lessB)
    <3>1. CASE x \in B
      <4>1. W \cap B = (V \cap B) \ {x} /\ x \in V \cap B /\ V \cap B \in SUBSET S
        BY <2>5, <3>1
      <4> HIDE DEF W, Worse
      <4>2. QED BY <1>2, <3>1, <4>1
    <3>2. CASE x \notin B
      <4>1. W \cap B = V \cap B
        BY <3>2
      <4>2. QED BY <3>2, <4>1
    <3>3. QED BY <3>1, <3>2
  <2>8. inC = (IF x \in C THEN f[x] + lessC ELSE lessC)
    <3>1. CASE x \in C
      <4>1. W \cap C = (V \cap C) \ {x} /\ x \in V \cap C /\ V \cap C \in SUBSET S
        BY <2>5, <3>1
      <4> HIDE DEF W, Worse
      <4>2. QED BY <1>2, <3>1, <4>1
    <3>2. CASE x \notin C
      <4>1. W \cap C = V \cap C
        BY <3>2
      <4>2. QED BY <3>2, <4>1
    <3>3. QED BY <3>1, <3>2
  <2>9. t[W] \in Int /\ lessB \in Int /\ lessC \in Int /\ f[x] \in Nat
    BY <1>2, <2>5
  <2> HIDE DEF W, Worse, inB, inC, lessB, lessC
  <2>10. QED BY <2>5, <2>6, <2>7, <2>8, <2>9
<1>6. /\ t[A] <= t[A \cap B] + t[A \cap C] /\ t[A] \in Nat
      /\ t[A \cap B] <= t[B] /\ t[A \cap B] \in Nat /\ t[B] \in Nat
      /\ t[A \cap C] <= t[C] /\ t[A \cap C] \in Nat /\ t[C] \in Nat
  BY <1>4, <1>5
<1>7. QED BY <1>3, <1>6

\* Changing one value of the function changes the sums over the parts it is in.
THEOREM SumPartUpdate ==
  ASSUME NEW S, IsFiniteSet(S), NEW f \in [S -> Int], NEW h \in [S -> Int],
         NEW x \in S, \A y \in S \ {x} : h[y] = f[y], NEW T \in SUBSET S
  PROVE  SumFunctionOnSet(h, T)
           = IF x \in T THEN SumFunctionOnSet(f, T) - f[x] + h[x] ELSE SumFunctionOnSet(f, T)
<1> DEFINE fT == [y \in T |-> f[y]]
           hT == [y \in T |-> h[y]]
<1>1. /\ SumFunctionOnSet(f, T) = SumFunctionOnSet(fT, T)
      /\ SumFunctionOnSet(h, T) = SumFunctionOnSet(hT, T)
  <2>1. ASSUME NEW g \in [S -> Int]
        PROVE  SumFunctionOnSet(g, T) = SumFunctionOnSet([y \in T |-> g[y]], T)
    BY SumRestricted
  <2>2. QED BY <2>1
<1>2. /\ IsFiniteSet(T) /\ fT \in [T -> Int] /\ hT \in [T -> Int]
      /\ \A y \in T \ {x} : hT[y] = fT[y]
      /\ x \in T => fT[x] = f[x] /\ hT[x] = h[x]
  BY FS_Subset
<1>3. x \notin T => fT = hT
  OBVIOUS
<1> HIDE DEF fT, hT
<1>4. CASE x \in T
  <2>1. SumFunctionOnSet(hT, T) = SumFunctionOnSet(fT, T) - fT[x] + hT[x]
    BY <1>2, <1>4, SumUpdate
  <2>2. QED BY <1>1, <1>2, <1>4, <2>1
<1>5. CASE x \notin T
  BY <1>1, <1>3, <1>5
<1>6. QED BY <1>4, <1>5

(***************************************************************************)
(* Products, tabulated in the same way                                     *)
(***************************************************************************)

ProductOnSet(f, S) == FoldFunctionOnSet(LAMBDA a, b : a * b, 1, f, S)

IsProductTable(g, f, S) ==
  g = [s \in SUBSET S |->
         IF s = {} THEN 1
         ELSE f[CHOOSE x \in s : TRUE] * g[s \ {CHOOSE x \in s : TRUE}]]

ProductTable(f, S) == CHOOSE g : IsProductTable(g, f, S)

LEMMA ProductIsTableEntry ==
  ASSUME NEW f, NEW S
  PROVE  ProductOnSet(f, S) = ProductTable(f, S)[S]
BY DEF ProductOnSet, FoldFunctionOnSet, MapThenFoldSet, ProductTable, IsProductTable

LEMMA ProductTablesAgree ==
  ASSUME NEW S, IsFiniteSet(S), NEW f, NEW T \in SUBSET S, NEW g, NEW h,
         IsProductTable(g, f, S), IsProductTable(h, f, T)
  PROVE  \A U \in SUBSET T : g[U] = h[U]
<1> DEFINE Bad == {U \in SUBSET T : g[U] # h[U]}
<1>1. SUFFICES ASSUME Bad # {} PROVE FALSE
  OBVIOUS
<1>2. Bad \subseteq SUBSET S
  OBVIOUS
<1>3. PICK U \in Bad : \A V \in Bad : ~(V \subseteq U /\ V # U)
  <2> HIDE DEF Bad
  <2>1. QED BY <1>1, <1>2, MinimalSubset
<1> DEFINE x == CHOOSE x \in U : TRUE
<1>4. g[{}] = 1 /\ h[{}] = 1
  BY DEF IsProductTable
<1>5. U # {} /\ x \in U
  BY <1>4
<1>6. U \ {x} \notin Bad /\ U \ {x} \in SUBSET T
  BY <1>3, <1>5
<1>7. g[U] = f[x] * g[U \ {x}] /\ h[U] = f[x] * h[U \ {x}]
  BY <1>5 DEF IsProductTable
<1>8. QED BY <1>6, <1>7

\* A finite set has a table of products.
LEMMA ProductTableExists ==
  ASSUME NEW S, IsFiniteSet(S), NEW f
  PROVE  IsProductTable(ProductTable(f, S), f, S)
<1> DEFINE Good(T) == \E g : IsProductTable(g, f, T)
           Bad == {T \in SUBSET S : ~Good(T)}
           G(T) == CHOOSE g : IsProductTable(g, f, T)
           pick(s) == CHOOSE x \in s : TRUE
<1>1. Bad = {}
  <2>1. SUFFICES ASSUME Bad # {} PROVE FALSE
    OBVIOUS
  <2>2. PICK T \in Bad : \A U \in Bad : ~(U \subseteq T /\ U # T)
    <3>1. Bad \subseteq SUBSET S
      OBVIOUS
    <3> HIDE DEF Bad
    <3>2. QED BY <2>1, <3>1, MinimalSubset
  <2>3. \A U \in SUBSET T : U # T => IsProductTable(G(U), f, U)
    BY <2>2
  <2> DEFINE h == [s \in SUBSET T |-> IF s = {} THEN 1
                     ELSE f[pick(s)] * G(s \ {pick(s)})[s \ {pick(s)}]]
  <2>4. ASSUME NEW s \in SUBSET T, s # T
        PROVE  h[s] = G(s)[s]
    <3>1. CASE s = {}
      <4>1. IsProductTable(G(s), f, s)
        BY <2>3, <2>4
      <4>2. G(s)[{}] = 1
        <5> HIDE DEF G
        <5>1. QED BY <4>1 DEF IsProductTable
      <4>3. h[s] = 1
        BY <3>1
      <4>4. QED BY <3>1, <4>2, <4>3
    <3>2. CASE s # {}
      <4> DEFINE v == s \ {pick(s)}
      <4>1. v \in SUBSET s /\ v # s /\ v # T
        BY <3>2, <2>4
      <4>2. IsProductTable(G(s), f, s) /\ IsProductTable(G(v), f, v)
        BY <2>3, <2>4, <4>1
      <4>3. IsFiniteSet(s)
        BY FS_Subset
      <4>4. G(s)[v] = G(v)[v]
        BY <4>1, <4>2, <4>3, ProductTablesAgree
      <4>5. G(s)[s] = f[pick(s)] * G(s)[v]
        BY <4>2, <3>2 DEF IsProductTable
      <4>6. h[s] = f[pick(s)] * G(v)[v]
        BY <3>2
      <4>7. QED BY <4>4, <4>5, <4>6
    <3>3. QED BY <3>1, <3>2
  <2>5. \A s \in SUBSET T : s # {} => h[s] = f[pick(s)] * h[s \ {pick(s)}]
    <3>1. TAKE s \in SUBSET T
    <3>2. HAVE s # {}
    <3> DEFINE v == s \ {pick(s)}
    <3>3. v \in SUBSET T /\ v # T
      BY <3>2
    <3>4. h[v] = G(v)[v]
      BY <2>4, <3>3
    <3>5. h[s] = f[pick(s)] * G(v)[v]
      BY <3>2
    <3>6. QED BY <3>4, <3>5
  <2>6. h[{}] = 1
    OBVIOUS
  <2>7. h = [s \in SUBSET T |-> h[s]]
    OBVIOUS
  <2> HIDE DEF h
  <2>8. IsProductTable(h, f, T)
    BY <2>5, <2>6, <2>7 DEF IsProductTable
  <2>9. QED BY <2>2, <2>8
<1>2. QED BY <1>1 DEF ProductTable

LEMMA Exchange ==
  ASSUME NEW a \in Int, NEW b \in Int, NEW c \in Int
  PROVE  a * (b * c) = b * (a * c)
OBVIOUS

LEMMA ProductPositive ==
  ASSUME NEW a \in Nat \ {0}, NEW b \in Nat \ {0}
  PROVE  a * b \in Nat \ {0}
OBVIOUS

\* Any element may be taken out of a product; the products are positive.
LEMMA ProductTableOut ==
  ASSUME NEW S, IsFiniteSet(S), NEW f \in [S -> Nat \ {0}]
  PROVE  /\ \A U \in SUBSET S : ProductTable(f, S)[U] \in Nat \ {0}
         /\ \A U \in SUBSET S : \A x \in U :
              ProductTable(f, S)[U] = f[x] * ProductTable(f, S)[U \ {x}]
         /\ ProductTable(f, S)[{}] = 1
<1> DEFINE t == ProductTable(f, S)
           NonPos == {U \in SUBSET S : t[U] \notin Nat \ {0}}
           Bad == {U \in SUBSET S : \E x \in U : t[U] # f[x] * t[U \ {x}]}
<1>1. IsProductTable(t, f, S)
  BY ProductTableExists
<1> HIDE DEF t
<1>2. t[{}] = 1
  BY <1>1 DEF IsProductTable
<1>3. ASSUME NEW U \in SUBSET S, U # {}
      PROVE  LET y == CHOOSE x \in U : TRUE IN y \in U /\ t[U] = f[y] * t[U \ {y}]
  BY <1>1, <1>3 DEF IsProductTable
<1>4. ASSUME NonPos # {} PROVE FALSE
  <2>1. PICK U \in NonPos : \A V \in NonPos : ~(V \subseteq U /\ V # U)
    <3>1. NonPos \subseteq SUBSET S
      OBVIOUS
    <3> HIDE DEF NonPos
    <3>2. QED BY <1>4, <3>1, MinimalSubset
  <2>2. U # {} /\ U \in SUBSET S
    BY <1>2
  <2>3. PICK y \in U : t[U] = f[y] * t[U \ {y}]
    BY <1>3, <2>2
  <2>4. U \ {y} \in SUBSET S /\ U \ {y} \notin NonPos /\ f[y] \in Nat \ {0}
    BY <2>1, <2>2, <2>3
  <2>5. t[U \ {y}] \in Nat \ {0}
    BY <2>4
  <2>6. t[U] \notin Nat \ {0}
    OBVIOUS
  <2> HIDE DEF NonPos
  <2>7. QED BY <2>3, <2>4, <2>5, <2>6, ProductPositive
<1>5. \A U \in SUBSET S : t[U] \in Nat \ {0}
  BY <1>4
<1>6. ASSUME Bad # {} PROVE FALSE
  <2>1. PICK U \in Bad : \A V \in Bad : ~(V \subseteq U /\ V # U)
    <3>1. Bad \subseteq SUBSET S
      OBVIOUS
    <3> HIDE DEF Bad
    <3>2. QED BY <1>6, <3>1, MinimalSubset
  <2>2. PICK x \in U : t[U] # f[x] * t[U \ {x}]
    OBVIOUS
  <2>3. U \in SUBSET S
    OBVIOUS
  <2>4. PICK y \in U : t[U] = f[y] * t[U \ {y}]
    <3> HIDE DEF Bad
    <3>1. QED BY <1>3, <2>2, <2>3
  <2>5. x # y
    BY <2>2, <2>4
  <2>6. /\ t[U \ {y}] = f[x] * t[(U \ {y}) \ {x}]
        /\ t[U \ {x}] = f[y] * t[(U \ {x}) \ {y}]
    <3>1. /\ U \ {y} \subseteq U /\ U \ {y} # U /\ U \ {y} \in SUBSET S /\ x \in U \ {y}
          /\ U \ {x} \subseteq U /\ U \ {x} # U /\ U \ {x} \in SUBSET S /\ y \in U \ {x}
      BY <2>3, <2>4, <2>5
    <3>2. U \ {y} \notin Bad /\ U \ {x} \notin Bad
      BY <2>1, <3>1
    <3>3. QED BY <3>1, <3>2
  <2> DEFINE rest == t[(U \ {x}) \ {y}]
  <2>7. (U \ {y}) \ {x} = (U \ {x}) \ {y} /\ (U \ {x}) \ {y} \in SUBSET S /\ x \in S /\ y \in S
    BY <2>3
  <2>8. f[x] \in Int /\ f[y] \in Int /\ rest \in Int
    BY <1>5, <2>7
  <2>9. /\ t[U] = f[y] * t[U \ {y}] /\ t[U] # f[x] * t[U \ {x}]
        /\ t[U \ {y}] = f[x] * rest /\ t[U \ {x}] = f[y] * rest
    BY <2>2, <2>4, <2>6, <2>7
  <2> HIDE DEF Bad, rest
  <2>10. f[x] * (f[y] * rest) = f[y] * (f[x] * rest)
    BY <2>8, Exchange
  <2>11. QED BY <2>9, <2>10
<1>7. QED BY <1>2, <1>5, <1>6 DEF t

\* The product over a part of the function's domain is an entry of its table.
LEMMA ProductOnPart ==
  ASSUME NEW S, IsFiniteSet(S), NEW f, NEW T \in SUBSET S
  PROVE  ProductOnSet(f, T) = ProductTable(f, S)[T]
<1>1. IsFiniteSet(T)
  BY FS_Subset
<1>2. IsProductTable(ProductTable(f, T), f, T) /\ IsProductTable(ProductTable(f, S), f, S)
  BY <1>1, ProductTableExists
<1>3. \A U \in SUBSET T : ProductTable(f, S)[U] = ProductTable(f, T)[U]
  BY <1>2, ProductTablesAgree
<1>4. T \in SUBSET T
  OBVIOUS
<1>5. QED BY <1>3, <1>4, ProductIsTableEntry

\* One more factor; no factor.
THEOREM ProductMore ==
  ASSUME NEW S, IsFiniteSet(S), NEW f \in [S -> Nat \ {0}], NEW T \in SUBSET S, NEW x \in S \ T
  PROVE  /\ ProductOnSet(f, T) \in Nat \ {0}
         /\ ProductOnSet(f, T \cup {x}) = f[x] * ProductOnSet(f, T)
<1> DEFINE t == ProductTable(f, S)
<1>1. T \cup {x} \in SUBSET S /\ (T \cup {x}) \ {x} = T /\ x \in T \cup {x}
  OBVIOUS
<1>2. /\ ProductOnSet(f, T) = t[T] /\ ProductOnSet(f, T \cup {x}) = t[T \cup {x}]
  BY <1>1, ProductOnPart
<1>3. t[T] \in Nat \ {0} /\ t[T \cup {x}] = f[x] * t[(T \cup {x}) \ {x}]
  BY <1>1, ProductTableOut
<1> HIDE DEF t
<1>4. QED BY <1>1, <1>2, <1>3

THEOREM ProductEmpty ==
  ASSUME NEW S, IsFiniteSet(S), NEW f \in [S -> Nat \ {0}]
  PROVE  ProductOnSet(f, {}) = 1
<1>1. {} \in SUBSET S
  OBVIOUS
<1>2. QED BY <1>1, ProductOnPart, ProductTableOut

\* A sum does not depend on the names of its summands.
THEOREM SumReindexed ==
  ASSUME NEW S, IsFiniteSet(S), NEW T, IsFiniteSet(T), NEW f \in [T -> Int], NEW b \in [S -> T],
         \A x, y \in S : b[x] = b[y] => x = y, \A z \in T : \E x \in S : b[x] = z
  PROVE  SumFunctionOnSet([x \in S |-> f[b[x]]], S) = SumFunctionOnSet(f, T)
<1> DEFINE r == [x \in S |-> f[b[x]]]
           tr == SumTable(r, S)
           tf == SumTable(f, T)
           Image(U) == {b[x] : x \in U}
           Bad == {U \in SUBSET S : tr[U] # tf[Image(U)]}
<1>1. r \in [S -> Int] /\ \A x \in S : r[x] = f[b[x]]
  OBVIOUS
<1>2. tr[{}] = 0 /\ tf[{}] = 0
  <2> HIDE DEF r, Bad, Image
  <2>1. IsSumTable(tr, r, S) /\ IsSumTable(tf, f, T)
    BY <1>1, TableExists
  <2> HIDE DEF tr, tf
  <2>2. QED BY <2>1, TableZero
<1>3. /\ \A U \in SUBSET S : \A x \in U : tr[U] = r[x] + tr[U \ {x}]
      /\ \A U \in SUBSET T : \A x \in U : tf[U] = f[x] + tf[U \ {x}]
  <2> HIDE DEF r, Bad
  <2>1. QED BY <1>1, TableOut
<1> HIDE DEF tr, tf, r
<1>4. ASSUME Bad # {} PROVE FALSE
  <2>1. PICK U \in Bad : \A V \in Bad : ~(V \subseteq U /\ V # U)
    <3>1. Bad \subseteq SUBSET S
      OBVIOUS
    <3> HIDE DEF Bad
    <3>2. QED BY <1>4, <3>1, MinimalSubset
  <2>2. U # {}
    BY <1>2
  <2>3. PICK x \in U : TRUE
    BY <2>2
  <2>4. U \in SUBSET S /\ U \ {x} \in SUBSET S /\ U \ {x} \notin Bad
    BY <2>1
  <2>5. Image(U) \in SUBSET T /\ b[x] \in Image(U) /\ Image(U \ {x}) = Image(U) \ {b[x]}
    BY <2>4
  <2>6. tr[U \ {x}] = tf[Image(U) \ {b[x]}] /\ tr[U] # tf[Image(U)]
    BY <2>4, <2>5
  <2>7. tr[U] = f[b[x]] + tr[U \ {x}] /\ tf[Image(U)] = f[b[x]] + tf[Image(U) \ {b[x]}]
    <3> HIDE DEF Image, Bad
    <3>1. QED BY <1>1, <1>3, <2>4, <2>5
  <2>8. QED BY <2>6, <2>7
<1>5. Image(S) = T
  OBVIOUS
<1>6. tr[S] = tf[T]
  BY <1>4, <1>5
<1>7. QED BY <1>6, SumIsTableEntry DEF tr, tf, r

LEMMA Distribute ==
  ASSUME NEW a \in Int, NEW b \in Int, NEW c \in Int
  PROVE  c * (a + b) = c * a + c * b
OBVIOUS

\* A common factor may be taken out of a sum.
THEOREM SumScaled ==
  ASSUME NEW S, IsFiniteSet(S), NEW f \in [S -> Int], NEW c \in Int
  PROVE  SumFunctionOnSet([x \in S |-> c * f[x]], S) = c * SumFunctionOnSet(f, S)
<1> DEFINE r == [x \in S |-> c * f[x]]
           tr == SumTable(r, S)
           tf == SumTable(f, S)
           Bad == {U \in SUBSET S : tr[U] # c * tf[U]}
<1>1. r \in [S -> Int] /\ \A x \in S : r[x] = c * f[x]
  OBVIOUS
<1>2. tr[{}] = 0 /\ tf[{}] = 0 /\ tf \in [SUBSET S -> Int]
  <2> HIDE DEF r, Bad
  <2>1. IsSumTable(tr, r, S) /\ IsSumTable(tf, f, S) /\ tf \in [SUBSET S -> Int]
    BY <1>1, TableExists
  <2> HIDE DEF tr, tf
  <2>2. QED BY <2>1, TableZero
<1>3. /\ \A U \in SUBSET S : \A x \in U : tr[U] = r[x] + tr[U \ {x}]
      /\ \A U \in SUBSET S : \A x \in U : tf[U] = f[x] + tf[U \ {x}]
  <2> HIDE DEF r, Bad
  <2>1. QED BY <1>1, TableOut
<1> HIDE DEF tr, tf, r
<1>4. ASSUME Bad # {} PROVE FALSE
  <2>1. PICK U \in Bad : \A V \in Bad : ~(V \subseteq U /\ V # U)
    <3>1. Bad \subseteq SUBSET S
      OBVIOUS
    <3> HIDE DEF Bad
    <3>2. QED BY <1>4, <3>1, MinimalSubset
  <2>2. U # {}
    <3>1. tr[{}] = c * tf[{}]
      BY <1>2
    <3>2. QED BY <2>1, <3>1
  <2>3. PICK x \in U : TRUE
    BY <2>2
  <2>4. U \in SUBSET S /\ U \ {x} \in SUBSET S /\ U \ {x} \notin Bad /\ x \in S
    BY <2>1
  <2>5. tr[U \ {x}] = c * tf[U \ {x}] /\ tr[U] # c * tf[U]
    BY <2>4
  <2>6. tr[U] = c * f[x] + tr[U \ {x}] /\ tf[U] = f[x] + tf[U \ {x}]
    <3>1. x \in U /\ U \in SUBSET S
      BY <2>1
    <3> HIDE DEF Bad, r, tr, tf
    <3>2. tr[U] = r[x] + tr[U \ {x}] /\ tf[U] = f[x] + tf[U \ {x}]
      BY ONLY <1>3, <3>1
    <3>3. QED BY ONLY <1>1, <2>4, <3>2
  <2>7. f[x] \in Int /\ tf[U \ {x}] \in Int
    BY <1>2, <2>4
  <2>8. c * (f[x] + tf[U \ {x}]) = c * f[x] + c * tf[U \ {x}]
    BY <2>7, Distribute
  <2>9. QED BY <2>5, <2>6, <2>8
<1>5. tr[S] = c * tf[S]
  BY <1>4
<1>6. QED BY <1>5, SumIsTableEntry DEF tr, tf, r

\* Rounding every summand down to a multiple of c takes less than c each.
THEOREM SumRounded ==
  ASSUME NEW S, IsFiniteSet(S), NEW f \in [S -> Int], NEW g \in [S -> Int], NEW c \in Int,
         \A x \in S : c * f[x] <= g[x] /\ g[x] < c * f[x] + c
  PROVE  /\ c * SumFunctionOnSet(f, S) <= SumFunctionOnSet(g, S)
         /\ SumFunctionOnSet(g, S) <= c * SumFunctionOnSet(f, S) + Cardinality(S) * (c - 1)
<1> DEFINE tg == SumTable(g, S)
           tf == SumTable(f, S)
           n(U) == Cardinality(U)
           Bad == {U \in SUBSET S : ~(c * tf[U] <= tg[U] /\ tg[U] <= c * tf[U] + n(U) * (c - 1))}
<1>1. /\ tf[{}] = 0 /\ tf \in [SUBSET S -> Int]
      /\ tg[{}] = 0 /\ tg \in [SUBSET S -> Int]
  BY TableExists, TableZero
<1>2. /\ \A U \in SUBSET S : \A x \in U : tg[U] = g[x] + tg[U \ {x}]
      /\ \A U \in SUBSET S : \A x \in U : tf[U] = f[x] + tf[U \ {x}]
  <2> HIDE DEF Bad
  <2>1. QED BY TableOut
<1> HIDE DEF tg, tf
<1>3. ASSUME Bad # {} PROVE FALSE
  <2>1. PICK U \in Bad : \A V \in Bad : ~(V \subseteq U /\ V # U)
    <3>1. Bad \subseteq SUBSET S
      OBVIOUS
    <3> HIDE DEF Bad
    <3>2. QED BY <1>3, <3>1, MinimalSubset
  <2>2. U # {}
    <3>1. n({}) = 0
      BY FS_EmptySet
    <3>2. c * 0 = 0 /\ 0 * (c - 1) = 0
      OBVIOUS
    <3> SUFFICES ASSUME U = {} PROVE FALSE
      OBVIOUS
    <3>3. ~(c * tf[{}] <= tg[{}] /\ tg[{}] <= c * tf[{}] + n({}) * (c - 1))
      OBVIOUS
    <3> HIDE DEF Bad, n
    <3>4. QED BY <1>1, <3>1, <3>2, <3>3
  <2>3. PICK x \in U : TRUE
    BY <2>2
  <2> DEFINE V == U \ {x}
  <2>4. U \in SUBSET S /\ V \in SUBSET S /\ V \notin Bad /\ x \in S
    BY <2>1
  <2>5. /\ c * tf[V] <= tg[V] /\ tg[V] <= c * tf[V] + n(V) * (c - 1)
        /\ ~(c * tf[U] <= tg[U] /\ tg[U] <= c * tf[U] + n(U) * (c - 1))
    BY <2>4
  <2>6. tg[U] = g[x] + tg[V] /\ tf[U] = f[x] + tf[V]
    <3> HIDE DEF Bad
    <3>1. QED BY <1>2, <2>4
  <2>7. n(U) = n(V) + 1 /\ n(V) \in Nat
    <3>1. IsFiniteSet(U)
      BY <2>4, FS_Subset
    <3>2. Cardinality(U \ {x}) = Cardinality(U) - 1 /\ IsFiniteSet(U \ {x})
      BY <2>3, <3>1, FS_RemoveElement
    <3>3. Cardinality(U) \in Nat /\ Cardinality(U \ {x}) \in Nat
      BY <3>1, <3>2, FS_CardinalityType
    <3> HIDE DEF Bad
    <3>4. QED BY <3>2, <3>3
  <2>8. f[x] \in Int /\ g[x] \in Int /\ tf[V] \in Int /\ tg[V] \in Int
    BY <1>1, <2>4
  <2>9. c * f[x] <= g[x] /\ g[x] < c * f[x] + c
    BY <2>4
  <2> HIDE DEF V, n, Bad
  <2>10. c * (f[x] + tf[V]) = c * f[x] + c * tf[V]
    BY <2>8, Distribute
  <2>11. (n(V) + 1) * (c - 1) = n(V) * (c - 1) + (c - 1)
    BY <2>7
  <2>12. c * f[x] \in Int /\ c * tf[V] \in Int /\ n(V) * (c - 1) \in Int
    BY <2>7, <2>8
  <2>13. /\ c * tf[U] = c * f[x] + c * tf[V]
         /\ n(U) * (c - 1) = n(V) * (c - 1) + (c - 1)
    BY <2>6, <2>7, <2>10, <2>11
  <2> DEFINE p == c * f[x]
             q == c * tf[V]
             m == n(V) * (c - 1)
  <2>14. /\ ~(p + q <= g[x] + tg[V] /\ g[x] + tg[V] <= p + q + (m + (c - 1)))
         /\ q <= tg[V] /\ tg[V] <= q + m /\ p <= g[x] /\ g[x] < p + c
         /\ p \in Int /\ q \in Int /\ m \in Int
    BY <2>5, <2>6, <2>9, <2>12, <2>13
  <2> HIDE DEF p, q, m
  <2>15. QED BY <2>8, <2>14
<1>4. S \notin Bad
  BY <1>3
<1>5. QED BY <1>4, SumIsTableEntry DEF tf, tg

(***************************************************************************)
(* Recursion over the subsets of a finite set                              *)
(***************************************************************************)

\* g says of every subset of S what a recursion gives that takes out one picked
\* element at a time.
IsFoldTable(g, step, base, pick, S) ==
  g = [s \in SUBSET S |-> IF s = {} THEN base ELSE step[<<pick[s], g[s \ {pick[s]}]>>]]

LEMMA FoldTablesAgree ==
  ASSUME NEW S, IsFiniteSet(S), NEW base, NEW step,
         NEW pick, \A s \in SUBSET S : s # {} => pick[s] \in s,
         NEW T \in SUBSET S, NEW U \in SUBSET T, NEW g, NEW h,
         IsFoldTable(g, step, base, pick, T), IsFoldTable(h, step, base, pick, U)
  PROVE  \A s \in SUBSET U : g[s] = h[s]
<1> DEFINE Bad == {s \in SUBSET U : g[s] # h[s]}
<1>1. SUFFICES ASSUME Bad # {} PROVE FALSE
  OBVIOUS
<1>2. PICK s \in Bad : \A v \in Bad : ~(v \subseteq s /\ v # s)
  <2>1. Bad \subseteq SUBSET S
    OBVIOUS
  <2> HIDE DEF Bad
  <2>2. QED BY <1>1, <2>1, MinimalSubset
<1>3. g[{}] = base /\ h[{}] = base
  BY DEF IsFoldTable
<1>4. s # {} /\ s \in SUBSET U /\ s \in SUBSET T /\ pick[s] \in s
  BY <1>3
<1>5. s \ {pick[s]} \notin Bad /\ s \ {pick[s]} \in SUBSET U
  BY <1>2, <1>4
<1>6. g[s] = step[<<pick[s], g[s \ {pick[s]}]>>] /\ h[s] = step[<<pick[s], h[s \ {pick[s]}]>>]
  BY <1>4 DEF IsFoldTable
<1>7. QED BY <1>5, <1>6

\* Such a table exists, whatever the step.
LEMMA FoldTableExists ==
  ASSUME NEW S, IsFiniteSet(S), NEW V, NEW base \in V, NEW step \in [S \X V -> V],
         NEW pick, \A s \in SUBSET S : s # {} => pick[s] \in s
  PROVE  \E g \in [SUBSET S -> V] : IsFoldTable(g, step, base, pick, S)
<1> DEFINE Table(g, T) == g \in [SUBSET T -> V] /\ IsFoldTable(g, step, base, pick, T)
           G(T) == CHOOSE g : Table(g, T)
           Bad == {T \in SUBSET S : ~\E g : Table(g, T)}
<1>1. SUFFICES ASSUME Bad # {} PROVE FALSE
  <2>1. SUFFICES ASSUME Bad = {} PROVE \E g : Table(g, S)
    OBVIOUS
  <2>2. QED BY <2>1
<1>2. PICK T \in Bad : \A U \in Bad : ~(U \subseteq T /\ U # T)
  <2>1. Bad \subseteq SUBSET S
    OBVIOUS
  <2> HIDE DEF Bad
  <2>2. QED BY <1>1, <2>1, MinimalSubset
<1>3. T \in SUBSET S /\ ~\E g : Table(g, T)
  OBVIOUS
<1>4. \A U \in SUBSET T : U # T => Table(G(U), U)
  <2> SUFFICES ASSUME NEW U \in SUBSET T, U # T PROVE \E g : Table(g, U)
    OBVIOUS
  <2>1. U \notin Bad
    BY <1>2
  <2>2. QED BY <1>3, <2>1
<1> HIDE DEF G, Table, Bad
<1> DEFINE Rest(s) == s \ {pick[s]}
           h == [s \in SUBSET T |-> IF s = {} THEN base ELSE step[<<pick[s], G(Rest(s))[Rest(s)]>>]]
<1>5. ASSUME NEW s \in SUBSET T, s # {}
      PROVE  /\ pick[s] \in s /\ pick[s] \in S /\ Rest(s) \in SUBSET T /\ Rest(s) \in SUBSET s
             /\ Rest(s) # T /\ Rest(s) \in SUBSET Rest(s)
  BY <1>3, <1>5
<1>6. ASSUME NEW s \in SUBSET T, s # T
      PROVE  h[s] = G(s)[s]
  <2>1. IsFoldTable(G(s), step, base, pick, s)
    BY <1>4, <1>6 DEF Table
  <2>2. CASE s = {}
    BY <2>1, <2>2 DEF IsFoldTable
  <2>3. CASE s # {}
    <3>1. IsFoldTable(G(Rest(s)), step, base, pick, Rest(s))
      BY <1>4, <1>5, <2>3 DEF Table
    <3>2. s \in SUBSET S /\ Rest(s) \in SUBSET s /\ Rest(s) \in SUBSET Rest(s)
      BY <1>3, <1>5, <2>3
    <3>3. G(s)[Rest(s)] = G(Rest(s))[Rest(s)]
      <4> HIDE DEF Rest
      <4>1. QED BY <2>1, <3>1, <3>2, FoldTablesAgree
    <3>4. G(s)[s] = step[<<pick[s], G(s)[Rest(s)]>>]
      <4>1. s \in SUBSET s
        OBVIOUS
      <4>2. QED BY <2>1, <2>3, <4>1 DEF IsFoldTable
    <3>5. QED BY <2>3, <3>3, <3>4
  <2>4. QED BY <2>2, <2>3
<1>7. \A s \in SUBSET T : h[s] = IF s = {} THEN base ELSE step[<<pick[s], h[Rest(s)]>>]
  <2> SUFFICES ASSUME NEW s \in SUBSET T, s # {} PROVE h[s] = step[<<pick[s], h[Rest(s)]>>]
    OBVIOUS
  <2>1. h[Rest(s)] = G(Rest(s))[Rest(s)]
    <3>1. Rest(s) \in SUBSET T /\ Rest(s) # T
      BY <1>5
    <3> HIDE DEF Rest, h
    <3>2. QED BY <1>6, <3>1
  <2>2. QED BY <2>1
<1>8. \A s \in SUBSET T : h[s] \in V
  <2> SUFFICES ASSUME NEW s \in SUBSET T, s # {} PROVE step[<<pick[s], G(Rest(s))[Rest(s)]>>] \in V
    OBVIOUS
  <2>1. Rest(s) \in SUBSET T /\ Rest(s) # T /\ pick[s] \in S /\ Rest(s) \in SUBSET Rest(s)
    BY <1>5
  <2> HIDE DEF Rest
  <2>2. G(Rest(s)) \in [SUBSET Rest(s) -> V]
    BY <1>4, <2>1 DEF Table
  <2>3. QED BY <2>1, <2>2
<1>9. h = [s \in SUBSET T |-> h[s]]
  OBVIOUS
<1>10. h \in [SUBSET T -> V]
  BY <1>8
<1> HIDE DEF h
<1>11. IsFoldTable(h, step, base, pick, T)
  BY <1>7, <1>9 DEF IsFoldTable
<1>12. QED BY <1>3, <1>10, <1>11 DEF Table
=============================================================================
