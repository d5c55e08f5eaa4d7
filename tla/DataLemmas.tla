------------------------------- MODULE DataLemmas -------------------------------
(***************************************************************************)
(* What the proofs need of data whose size is not known: sums over finite  *)
(* sets, orderings of them, and the number of elements of a union.         *)
(*                                                                         *)
(* The induction theorems of the library take an operator as a parameter,  *)
(* which the provers cannot instantiate.  The two inductions here take a   *)
(* set instead, the set of what the claim is true of, and follow from the  *)
(* well-foundedness of strict inclusion between finite sets.               *)
(***************************************************************************)
EXTENDS Integers, FiniteSetsExt, FiniteSetTheorems, TLAPS

-------------------------------------------------------------------------------
(* Induction *)

\* A nonempty set of finite sets has a member without a smaller member.
LEMMA SmallestSet ==
    ASSUME NEW S, NEW T \in SUBSET FiniteSubsetsOf(S), T # {}
    PROVE  \E s \in T : \A t \in T : t \subseteq s => t = s
<1>1. PICK s \in T : \A t \in T : <<t, s>> \notin StrictSubsetOrdering(S)
  BY FS_StrictSubsetOrderingWellFounded, WFMin
<1>2. \A t \in T : t \in SUBSET S
  BY DEF FiniteSubsetsOf
<1> QED
  BY <1>1, <1>2 DEF StrictSubsetOrdering

\* A nonempty set of natural numbers has a smallest one.
LEMMA SmallestNat ==
    ASSUME NEW T \in SUBSET Nat, T # {}
    PROVE  \E n \in T : \A m \in T : n =< m
<1> DEFINE Below(n) == {i \in Nat : i < n}
           U == {Below(n) : n \in T}
<1>1. ASSUME NEW n \in Nat PROVE IsFiniteSet(Below(n))
  <2>1. IsFiniteSet(0..n)
    BY FS_Interval
  <2>2. Below(n) \subseteq 0..n
    OBVIOUS
  <2> QED
    BY <2>1, <2>2, FS_Subset
<1>2. U \in SUBSET FiniteSubsetsOf(Nat) /\ U # {}
  BY <1>1 DEF FiniteSubsetsOf
<1>3. PICK s \in U : \A t \in U : t \subseteq s => t = s
  <2> HIDE DEF U
  <2> QED
    BY <1>2, SmallestSet
<1>4. PICK n \in T : s = Below(n)
  OBVIOUS
<1>5. ASSUME NEW m \in T, m < n PROVE FALSE
  <2>1. Below(m) \in U /\ Below(m) \subseteq Below(n)
    BY <1>5
  <2>2. Below(m) = Below(n)
    BY <1>3, <1>4, <2>1
  <2>3. m \in Below(n) /\ m \notin Below(m)
    BY <1>5
  <2> QED
    BY <2>2, <2>3
<1> QED
  BY <1>5

\* Induction over the natural numbers.
LEMMA NatSetInduction ==
    ASSUME NEW F, 0 \in F, \A n \in Nat : n \in F => n + 1 \in F
    PROVE  Nat \subseteq F
<1> SUFFICES ASSUME Nat \ F # {} PROVE FALSE
  OBVIOUS
<1>1. PICK n \in Nat \ F : \A m \in Nat \ F : n =< m
  BY SmallestNat
<1>2. n # 0 /\ n - 1 \in Nat
  BY <1>1
<1>3. n - 1 \in F
  BY <1>1, <1>2
<1> QED
  BY <1>1, <1>2, <1>3

\* Induction over the subsets of a finite set.
LEMMA SubsetInduction ==
    ASSUME NEW S, IsFiniteSet(S), NEW F, {} \in F,
           \A T \in SUBSET S : \A x \in S \ T : T \in F => T \cup {x} \in F
    PROVE  S \in F
<1> SUFFICES ASSUME S \notin F PROVE FALSE
  OBVIOUS
<1> DEFINE U == {T \in SUBSET S : T \notin F}
<1>1. U \in SUBSET FiniteSubsetsOf(S) /\ U # {}
  BY FS_Subset DEF FiniteSubsetsOf
<1>2. PICK T \in U : \A t \in U : t \subseteq T => t = T
  <2> HIDE DEF U
  <2> QED
    BY <1>1, SmallestSet
<1>3. PICK x \in T : TRUE
  OBVIOUS
<1>4. T \ {x} \in F
  BY <1>2, <1>3
<1>5. (T \ {x}) \cup {x} \in F
  BY <1>4
<1>6. (T \ {x}) \cup {x} = T
  OBVIOUS
<1> QED
  BY <1>5, <1>6

\* Values that do not decrease from one place to the next do not decrease at all.
LEMMA NeverDecreases ==
    ASSUME NEW n \in Nat, NEW f, \A i \in 1..n : f[i] \in Int,
           \A i \in 2..n : f[i - 1] =< f[i]
    PROVE  \A i, j \in 1..n : i =< j => f[i] =< f[j]
<1> DEFINE F == {j \in Nat : \A i \in 1..n : j \in 1..n /\ i =< j => f[i] =< f[j]}
<1>1. 0 \in F
  OBVIOUS
<1>2. ASSUME NEW j \in Nat, j \in F PROVE j + 1 \in F
  <2> SUFFICES ASSUME NEW i \in 1..n, j + 1 \in 1..n, i =< j + 1 PROVE f[i] =< f[j + 1]
    OBVIOUS
  <2>1. CASE i = j + 1
    BY <2>1
  <2>2. CASE i # j + 1
    <3>1. j \in 1..n /\ i =< j /\ j + 1 \in 2..n /\ (j + 1) - 1 = j
      BY <2>2
    <3>2. f[i] =< f[j] /\ f[j] =< f[j + 1]
      BY <1>2, <3>1
    <3>3. f[i] \in Int /\ f[j] \in Int /\ f[j + 1] \in Int
      BY <3>1
    <3> QED
      BY <3>2, <3>3
  <2> QED
    BY <2>1, <2>2
<1> HIDE DEF F
<1>3. Nat \subseteq F
  BY <1>1, <1>2, NatSetInduction
<1> QED
  BY <1>3 DEF F

-------------------------------------------------------------------------------
(* Recursive functions over the subsets of a finite set *)

\* The equation of a fold: pick chooses an element of a set, op is a function of
\* the element and the value for the rest.
IsFold(g, S, base, pick, op) ==
    \A s \in SUBSET S : g[s] = IF s = {} THEN base ELSE op[pick[s]][g[s \ {pick[s]}]]

HasFold(S, V, base, pick, op) == \E g \in [SUBSET S -> V] : IsFold(g, S, base, pick, op)

Picks(pick, S) == \A s \in SUBSET S : s # {} => pick[s] \in s

\* Such a function exists.
LEMMA FoldExists ==
    ASSUME NEW S, IsFiniteSet(S), NEW V, NEW base \in V, NEW pick, Picks(pick, S),
           NEW op, \A x \in S, v \in V : op[x][v] \in V
    PROVE  HasFold(S, V, base, pick, op)
<1> DEFINE Value(h, s) == IF s = {} THEN base ELSE op[pick[s]][h[s \ {pick[s]}]]
           F == {n \in Nat : \E h \in [SUBSET S -> V] :
                                \A s \in SUBSET S : Cardinality(s) =< n => h[s] = Value(h, s)}
<1>1. ASSUME NEW s \in SUBSET S
      PROVE  /\ IsFiniteSet(s) /\ Cardinality(s) \in Nat /\ (Cardinality(s) = 0 <=> s = {})
             /\ s # {} => /\ pick[s] \in s /\ s \ {pick[s]} \in SUBSET S
                          /\ Cardinality(s \ {pick[s]}) = Cardinality(s) - 1
  BY FS_Subset, FS_CardinalityType, FS_EmptySet, FS_RemoveElement DEF Picks
<1>2. 0 \in F
  <2> DEFINE h == [s \in SUBSET S |-> base]
  <2>1. h \in [SUBSET S -> V]
    OBVIOUS
  <2>2. ASSUME NEW s \in SUBSET S, Cardinality(s) =< 0 PROVE h[s] = Value(h, s)
    <3>1. s = {}
      <4>1. Cardinality(s) \in Nat /\ (Cardinality(s) = 0 <=> s = {})
        BY <1>1
      <4> QED
        BY <2>2, <4>1
    <3> QED
      BY <3>1
  <2> QED
    BY <2>1, <2>2
<1>3. ASSUME NEW n \in Nat, n \in F PROVE n + 1 \in F
  <2>1. PICK h \in [SUBSET S -> V] :
           \A s \in SUBSET S : Cardinality(s) =< n => h[s] = Value(h, s)
    BY <1>3
  <2> DEFINE k == [s \in SUBSET S |-> Value(h, s)]
  <2>2. ASSUME NEW s \in SUBSET S PROVE Value(h, s) \in V
    <3>1. CASE s = {}
      BY <3>1
    <3>2. CASE s # {}
      BY <1>1, <3>2
    <3> QED
      BY <3>1, <3>2
  <2>3. k \in [SUBSET S -> V]
    BY <2>2
  <2>4. ASSUME NEW s \in SUBSET S, Cardinality(s) =< n PROVE k[s] = h[s]
    BY <2>1, <2>4
  <2>5. ASSUME NEW s \in SUBSET S, Cardinality(s) =< n + 1 PROVE k[s] = Value(k, s)
    <3>1. CASE s = {}
      BY <3>1
    <3>2. CASE s # {}
      <4>1. s \ {pick[s]} \in SUBSET S /\ Cardinality(s \ {pick[s]}) =< n
        <5>1. /\ s \ {pick[s]} \in SUBSET S /\ Cardinality(s) \in Nat
              /\ Cardinality(s \ {pick[s]}) = Cardinality(s) - 1
          BY <1>1, <3>2
        <5> HIDE DEF k, Value, F
        <5> QED
          BY <2>5, <5>1
      <4>2. k[s \ {pick[s]}] = h[s \ {pick[s]}]
        BY <2>4, <4>1
      <4>3. k[s] = op[pick[s]][h[s \ {pick[s]}]]
        BY <3>2
      <4> QED
        BY <3>2, <4>2, <4>3
    <3> QED
      BY <3>1, <3>2
  <2> HIDE DEF k, Value
  <2> QED
    BY <2>3, <2>5
<1>4. Cardinality(S) \in F
  <2> HIDE DEF F
  <2>1. Nat \subseteq F
    BY <1>2, <1>3, NatSetInduction
  <2> QED
    BY <1>1, <2>1
<1>5. PICK h \in [SUBSET S -> V] :
         \A s \in SUBSET S : Cardinality(s) =< Cardinality(S) => h[s] = Value(h, s)
  BY <1>4
<1>6. \A s \in SUBSET S : Cardinality(s) =< Cardinality(S)
  BY FS_Subset
<1> QED
  BY <1>5, <1>6 DEF IsFold, HasFold

\* The equation of a function that is computed step by step up to N.
IsChain(f, N, first, step) ==
    \A n \in 0..N : f[n] = IF n = 0 THEN first ELSE step[f[n - 1]]

HasChain(N, V, first, step) == \E f \in [0..N -> V] : IsChain(f, N, first, step)

\* Such a function exists.
LEMMA ChainExists ==
    ASSUME NEW N \in Nat, NEW V, NEW first \in V, NEW step, \A v \in V : step[v] \in V
    PROVE  HasChain(N, V, first, step)
<1> DEFINE Value(h, n) == IF n = 0 THEN first ELSE step[h[n - 1]]
           F == {n \in Nat : \E h \in [0..N -> V] :
                                \A i \in 0..N : i =< n => h[i] = Value(h, i)}
<1>1. 0 \in F
  <2> DEFINE h == [i \in 0..N |-> first]
  <2>1. h \in [0..N -> V]
    OBVIOUS
  <2>2. \A i \in 0..N : i =< 0 => h[i] = Value(h, i)
    OBVIOUS
  <2> QED
    BY <2>1, <2>2
<1>2. ASSUME NEW n \in Nat, n \in F PROVE n + 1 \in F
  <2>1. PICK h \in [0..N -> V] : \A i \in 0..N : i =< n => h[i] = Value(h, i)
    BY <1>2
  <2> DEFINE k == [i \in 0..N |-> Value(h, i)]
  <2>2. ASSUME NEW i \in 0..N, i # 0 PROVE i - 1 \in 0..N
    BY <2>2
  <2>3. ASSUME NEW i \in 0..N PROVE Value(h, i) \in V
    BY <2>2
  <2>4. k \in [0..N -> V]
    BY <2>3
  <2>5. ASSUME NEW i \in 0..N, i =< n + 1 PROVE k[i] = Value(k, i)
    <3>1. CASE i = 0
      BY <3>1
    <3>2. CASE i # 0
      <4>1. i - 1 \in 0..N /\ i - 1 =< n
        <5> HIDE DEF k, F, Value
        <5> QED
          BY <2>2, <2>5, <3>2
      <4>2. k[i - 1] = h[i - 1]
        BY <2>1, <4>1
      <4>3. k[i] = step[h[i - 1]]
        BY <3>2
      <4> QED
        BY <3>2, <4>2, <4>3
    <3> QED
      BY <3>1, <3>2
  <2> HIDE DEF k, Value
  <2> QED
    BY <2>4, <2>5
<1>3. N \in F
  <2> HIDE DEF F
  <2>1. Nat \subseteq F
    BY <1>1, <1>2, NatSetInduction
  <2> QED
    BY <2>1
<1>4. PICK h \in [0..N -> V] : \A i \in 0..N : i =< N => h[i] = Value(h, i)
  BY <1>3
<1> QED
  BY <1>4 DEF IsChain, HasChain

\* What holds of the empty set, and of a set when it holds of the rest of it,
\* holds of every subset.
LEMMA RestInduction ==
    ASSUME NEW S, IsFiniteSet(S), NEW pick, Picks(pick, S), NEW F, {} \in F,
           \A s \in SUBSET S : s # {} /\ s \ {pick[s]} \in F => s \in F
    PROVE  SUBSET S \subseteq F
<1> DEFINE U == {s \in SUBSET S : s \notin F}
<1> SUFFICES ASSUME U # {} PROVE FALSE
  OBVIOUS
<1>1. U \in SUBSET FiniteSubsetsOf(S)
  BY FS_Subset DEF FiniteSubsetsOf
<1>2. PICK s \in U : \A t \in U : t \subseteq s => t = s
  <2> HIDE DEF U
  <2> QED
    BY <1>1, SmallestSet
<1>3. s # {} /\ s \in SUBSET S
  OBVIOUS
<1>4. pick[s] \in s
  BY <1>3 DEF Picks
<1>5. s \ {pick[s]} \in F
  BY <1>2, <1>4
<1> QED
  BY <1>3, <1>5

-------------------------------------------------------------------------------
(* Sums *)

\* The library's sum, with the table it recurses over made explicit.
SumStep(f, g, s) == IF s = {} THEN 0
                    ELSE f[CHOOSE x \in s : TRUE] + g[s \ {CHOOSE x \in s : TRUE}]
SumTable(f, S) == CHOOSE g : g = [s \in SUBSET S |-> SumStep(f, g, s)]

LEMMA SumIsTable ==
    ASSUME NEW f, NEW S
    PROVE  SumFunctionOnSet(f, S) = SumTable(f, S)[S]
BY DEF SumFunctionOnSet, FoldFunctionOnSet, MapThenFoldSet, SumTable, SumStep

\* The table exists, so the chosen one satisfies its equation.
LEMMA SumTableExists ==
    ASSUME NEW S, IsFiniteSet(S), NEW f, \A x \in S : f[x] \in Int
    PROVE  SumTable(f, S) = [s \in SUBSET S |-> SumStep(f, SumTable(f, S), s)]
<1> DEFINE pick == [s \in SUBSET S |-> CHOOSE x \in s : TRUE]
           op == [x \in S |-> [v \in Int |-> f[x] + v]]
<1>1. Picks(pick, S)
  BY DEF Picks
<1>2. \A x \in S, v \in Int : op[x][v] \in Int
  OBVIOUS
<1>3. PICK g \in [SUBSET S -> Int] : IsFold(g, S, 0, pick, op)
  <2>1. 0 \in Int
    OBVIOUS
  <2> HIDE DEF pick, op
  <2>2. HasFold(S, Int, 0, pick, op)
    BY <1>1, <1>2, <2>1, FoldExists
  <2> QED
    BY <2>2 DEF HasFold
<1>4. ASSUME NEW s \in SUBSET S PROVE g[s] = SumStep(f, g, s)
  <2>1. CASE s = {}
    BY <1>3, <2>1 DEF IsFold, SumStep
  <2>2. CASE s # {}
    <3>1. pick[s] \in s /\ pick[s] = (CHOOSE x \in s : TRUE)
      BY <2>2
    <3>2. g[s] = op[pick[s]][g[s \ {pick[s]}]]
      BY <1>3, <2>2 DEF IsFold
    <3>3. g[s \ {pick[s]}] \in Int
      OBVIOUS
    <3>4. g[s] = f[pick[s]] + g[s \ {pick[s]}]
      BY <3>1, <3>2, <3>3
    <3> QED
      BY <2>2, <3>1, <3>4 DEF SumStep
  <2> QED
    BY <2>1, <2>2
<1>5. g = [s \in SUBSET S |-> SumStep(f, g, s)]
  <2>1. g = [s \in SUBSET S |-> g[s]]
    OBVIOUS
  <2> QED
    BY <1>4, <2>1
<1> QED
  BY <1>5 DEF SumTable

\* Every entry of the table is an integer, and is the sum over its own set.
LEMMA SumTableEntries ==
    ASSUME NEW S, IsFiniteSet(S), NEW f, \A x \in S : f[x] \in Int
    PROVE  \A s \in SUBSET S : /\ SumTable(f, S)[s] \in Int
                               /\ SumTable(f, S)[s] = SumFunctionOnSet(f, s)
<1> DEFINE pick == [s \in SUBSET S |-> CHOOSE x \in s : TRUE]
           g == SumTable(f, S)
<1>1. Picks(pick, S)
  BY DEF Picks
<1>2. \A s \in SUBSET S : g[s] = SumStep(f, g, s)
  <2>1. g = [s \in SUBSET S |-> SumStep(f, g, s)]
    BY SumTableExists
  <2> HIDE DEF g
  <2> QED
    BY <2>1
<1> HIDE DEF g
<1>3. \A s \in SUBSET S : s # {} => /\ pick[s] \in s /\ s \ {pick[s]} \in SUBSET S
                                    /\ g[s] = f[pick[s]] + g[s \ {pick[s]}]
  BY <1>2 DEF SumStep
<1>4. g[{}] = 0
  BY <1>2 DEF SumStep
<1>5. ASSUME NEW s \in SUBSET S PROVE g[s] \in Int
  <2> DEFINE F == {t \in SUBSET S : g[t] \in Int}
  <2>1. {} \in F
    BY <1>4
  <2>2. ASSUME NEW t \in SUBSET S, t # {}, t \ {pick[t]} \in F PROVE t \in F
    <3> HIDE DEF pick
    <3>1. pick[t] \in S /\ g[t] = f[pick[t]] + g[t \ {pick[t]}]
      BY <1>3, <2>2
    <3>2. f[pick[t]] \in Int /\ g[t \ {pick[t]}] \in Int
      BY <2>2, <3>1
    <3> QED
      BY <3>1, <3>2
  <2> HIDE DEF F, pick
  <2>3. SUBSET S \subseteq F
    BY <1>1, <2>1, <2>2, RestInduction
  <2> QED
    BY <2>3 DEF F
<1>6. ASSUME NEW s \in SUBSET S PROVE g[s] = SumFunctionOnSet(f, s)
  <2> DEFINE h == SumTable(f, s)
             F == {t \in SUBSET s : g[t] = h[t]}
  <2>1. IsFiniteSet(s)
    BY FS_Subset
  <2>2. \A t \in SUBSET s : h[t] = SumStep(f, h, t)
    <3>1. h = [t \in SUBSET s |-> SumStep(f, h, t)]
      BY <2>1, SumTableExists
    <3> HIDE DEF h
    <3> QED
      BY <3>1
  <2> HIDE DEF h
  <2>3. {} \in F
    BY <1>4, <2>2 DEF SumStep
  <2>4. \A t \in SUBSET s : t # {} => h[t] = f[pick[t]] + h[t \ {pick[t]}]
    BY <2>2 DEF SumStep
  <2>5. ASSUME NEW t \in SUBSET s, t # {}, t \ {pick[t]} \in F PROVE t \in F
    <3> HIDE DEF pick
    <3>1. g[t] = f[pick[t]] + g[t \ {pick[t]}] /\ h[t] = f[pick[t]] + h[t \ {pick[t]}]
      BY <1>3, <2>4, <2>5
    <3>2. g[t \ {pick[t]}] = h[t \ {pick[t]}]
      BY <2>5
    <3> QED
      BY <3>1, <3>2
  <2>6. Picks(pick, s)
    BY <1>1 DEF Picks
  <2> HIDE DEF F, pick
  <2>7. SUBSET s \subseteq F
    BY <2>1, <2>3, <2>5, <2>6, RestInduction
  <2>8. g[s] = h[s]
    BY <2>7 DEF F
  <2> QED
    BY <2>8, SumIsTable DEF h
<1> QED
  BY <1>5, <1>6 DEF g

LEMMA SumEmpty ==
    ASSUME NEW f
    PROVE  SumFunctionOnSet(f, {}) = 0
<1>1. SumTable(f, {}) = [s \in SUBSET {} |-> SumStep(f, SumTable(f, {}), s)]
  BY SumTableExists, FS_EmptySet
<1>2. SumTable(f, {})[{}] = 0
  BY <1>1 DEF SumStep
<1> QED
  BY <1>2, SumIsTable

\* Whichever element is taken first.
LEMMA SumRemove ==
    ASSUME NEW S, IsFiniteSet(S), NEW f, \A x \in S : f[x] \in Int, NEW x \in S
    PROVE  /\ SumFunctionOnSet(f, S \ {x}) \in Int
           /\ SumFunctionOnSet(f, S) = f[x] + SumFunctionOnSet(f, S \ {x})
<1> DEFINE Sum(s) == SumFunctionOnSet(f, s)
           U == {s \in SUBSET S : \E y \in s : Sum(s) # f[y] + Sum(s \ {y})}
<1>1. \A s \in SUBSET S : Sum(s) \in Int
  BY SumTableEntries
<1>2. ASSUME NEW s \in SUBSET S, s # {}
      PROVE  \E c \in s : Sum(s) = f[c] + Sum(s \ {c})
  <2> DEFINE g == SumTable(f, S)
             c == CHOOSE c \in s : TRUE
  <2>1. g = [t \in SUBSET S |-> SumStep(f, g, t)]
    BY SumTableExists
  <2>2. g[s] = Sum(s) /\ g[s \ {c}] = Sum(s \ {c})
    BY SumTableEntries
  <2> HIDE DEF g, Sum
  <2>3. c \in s /\ g[s] = f[c] + g[s \ {c}]
    BY <1>2, <2>1 DEF SumStep
  <2> HIDE DEF c
  <2> QED
    BY <2>2, <2>3
<1> HIDE DEF Sum
<1> SUFFICES ASSUME U # {} PROVE FALSE
  <2>1. S \notin U
    OBVIOUS
  <2> QED
    BY <1>1, <2>1 DEF Sum
<1>3. U \in SUBSET FiniteSubsetsOf(S)
  BY FS_Subset DEF FiniteSubsetsOf
<1>4. PICK s \in U : \A t \in U : t \subseteq s => t = s
  <2> HIDE DEF U
  <2> QED
    BY <1>3, SmallestSet
<1>5. PICK y \in s : Sum(s) # f[y] + Sum(s \ {y})
  OBVIOUS
<1>6. PICK c \in s : Sum(s) = f[c] + Sum(s \ {c})
  BY <1>2
<1>7. y # c
  BY <1>5, <1>6
<1>8. s \ {c} \in SUBSET S /\ s \ {y} \in SUBSET S /\ s \ {c} \notin U /\ s \ {y} \notin U
  BY <1>4
<1>9. Sum(s \ {c}) = f[y] + Sum((s \ {c}) \ {y}) /\ Sum(s \ {y}) = f[c] + Sum((s \ {y}) \ {c})
  BY <1>7, <1>8
<1>10. (s \ {y}) \ {c} = (s \ {c}) \ {y}
  OBVIOUS
<1>11. f[c] \in Int /\ f[y] \in Int /\ Sum((s \ {c}) \ {y}) \in Int
  BY <1>1
<1>12. Sum(s) = f[c] + (f[y] + Sum((s \ {c}) \ {y})) /\ Sum(s \ {y}) = f[c] + Sum((s \ {c}) \ {y})
  BY <1>6, <1>9, <1>10
<1> QED
  BY <1>5, <1>11, <1>12

\* One element more.
LEMMA SumAdd ==
    ASSUME NEW S, IsFiniteSet(S), NEW f, NEW x, x \notin S, \A y \in S \cup {x} : f[y] \in Int
    PROVE  /\ SumFunctionOnSet(f, S) \in Int
           /\ SumFunctionOnSet(f, S \cup {x}) = f[x] + SumFunctionOnSet(f, S)
<1> DEFINE T == S \cup {x}
<1>1. IsFiniteSet(T) /\ x \in T /\ T \ {x} = S
  BY FS_AddElement
<1> HIDE DEF T
<1>2. \A y \in T : f[y] \in Int
  BY DEF T
<1>3. /\ SumFunctionOnSet(f, T \ {x}) \in Int
      /\ SumFunctionOnSet(f, T) = f[x] + SumFunctionOnSet(f, T \ {x})
  BY <1>1, <1>2, SumRemove
<1> QED
  BY <1>1, <1>3 DEF T

Together(C, K) == UNION {C[k] : k \in K}

\* Disjoint finite sets, one for each element of an index set: the sum of their
\* sizes is the size of their union.
LEMMA SumOfSizes ==
    ASSUME NEW K, IsFiniteSet(K), NEW C,
           \A k \in K : IsFiniteSet(C[k]),
           \A k, j \in K : k # j => C[k] \cap C[j] = {},
           NEW f, \A k \in K : f[k] = Cardinality(C[k])
    PROVE  /\ IsFiniteSet(Together(C, K))
           /\ SumFunctionOnSet(f, K) = Cardinality(Together(C, K))
<1> DEFINE All(T) == Together(C, T)
           F == {T \in SUBSET K : /\ IsFiniteSet(All(T))
                                  /\ SumFunctionOnSet(f, T) = Cardinality(All(T))}
<1>1. {} \in F
  <2>1. All({}) = {}
    BY DEF Together
  <2> HIDE DEF All
  <2> QED
    BY <2>1, SumEmpty, FS_EmptySet
<1>2. ASSUME NEW T \in SUBSET K, NEW x \in K \ T, T \in F PROVE T \cup {x} \in F
  <2>1. All(T \cup {x}) = All(T) \cup C[x] /\ All(T) \cap C[x] = {}
    BY DEF Together
  <2>2. IsFiniteSet(T) /\ \A y \in T \cup {x} : f[y] \in Int
    BY FS_Subset, FS_CardinalityType
  <2> HIDE DEF All
  <2>3. SumFunctionOnSet(f, T \cup {x}) = f[x] + SumFunctionOnSet(f, T)
    BY <2>2, SumAdd
  <2>4. /\ IsFiniteSet(All(T) \cup C[x])
        /\ Cardinality(All(T) \cup C[x]) = Cardinality(All(T)) + Cardinality(C[x]) - Cardinality({})
    BY <1>2, <2>1, FS_Union
  <2>5. Cardinality({}) = 0 /\ Cardinality(All(T)) \in Nat /\ Cardinality(C[x]) \in Nat
    BY <1>2, FS_EmptySet, FS_CardinalityType
  <2>6. SumFunctionOnSet(f, T) = Cardinality(All(T)) /\ f[x] = Cardinality(C[x])
    BY <1>2
  <2>7. SumFunctionOnSet(f, T \cup {x}) = Cardinality(All(T) \cup C[x])
    BY <2>3, <2>4, <2>5, <2>6
  <2>8. IsFiniteSet(All(T \cup {x})) /\ SumFunctionOnSet(f, T \cup {x}) = Cardinality(All(T \cup {x}))
    BY <2>1, <2>4, <2>7
  <2> QED
    BY <2>8
<1> HIDE DEF F
<1>3. K \in F
  BY <1>1, <1>2, SubsetInduction
<1> QED
  BY <1>3 DEF F

-------------------------------------------------------------------------------
(* Orders *)

\* A nonempty finite set of integers has a largest one.
LEMMA LargestInt ==
    ASSUME NEW S \in SUBSET Int, IsFiniteSet(S), S # {}
    PROVE  \E n \in S : \A m \in S : m =< n
<1> DEFINE F == {T \in SUBSET S : T = {} \/ \E n \in T : \A m \in T : m =< n}
<1>1. {} \in F
  OBVIOUS
<1>2. ASSUME NEW T \in SUBSET S, NEW x \in S \ T, T \in F PROVE T \cup {x} \in F
  <2>1. CASE T = {}
    BY <2>1
  <2>2. CASE T # {}
    <3>1. PICK n \in T : \A m \in T : m =< n
      BY <1>2, <2>2
    <3>2. CASE x =< n
      BY <3>1, <3>2
    <3>3. CASE n =< x
      <4>1. \A m \in T : m =< x
        BY <3>1, <3>3
      <4> QED
        BY <4>1
    <3> QED
      BY <3>2, <3>3
  <2> QED
    BY <2>1, <2>2
<1> HIDE DEF F
<1>3. S \in F
  BY <1>1, <1>2, SubsetInduction
<1> QED
  BY <1>3 DEF F

\* The largest of a finite set of integers, as the library defines it.
LEMMA MaxIsLargest ==
    ASSUME NEW S \in SUBSET Int, IsFiniteSet(S), S # {}
    PROVE  Max(S) \in S /\ \A m \in S : m =< Max(S)
<1>1. \E n \in S : \A m \in S : n >= m
  BY LargestInt
<1> QED
  BY <1>1 DEF Max

\* before[x] is the set of the elements of S that come before x.
IsOrder(S, before) ==
    /\ \A x \in S : before[x] \in SUBSET S /\ x \notin before[x]
    /\ \A x \in S : \A y \in before[x] : before[y] \subseteq before[x]
    /\ \A x, y \in S : x = y \/ x \in before[y] \/ y \in before[x]

\* The number of elements before it says where an element stands: the places are
\* 0 to the size of the set less one, each is taken, and earlier means before.
LEMMA Places ==
    ASSUME NEW S, IsFiniteSet(S), NEW before, IsOrder(S, before)
    PROVE  /\ Cardinality(S) \in Nat
           /\ \A x \in S : Cardinality(before[x]) \in 0..(Cardinality(S) - 1)
           /\ \A x, y \in S : x \in before[y] <=> Cardinality(before[x]) < Cardinality(before[y])
           /\ \A x, y \in S : Cardinality(before[x]) = Cardinality(before[y]) => x = y
           /\ \A i \in 0..(Cardinality(S) - 1) : \E x \in S : Cardinality(before[x]) = i
<1> DEFINE n == Cardinality(S)
           place == [x \in S |-> Cardinality(before[x])]
<1>1. n \in Nat
  BY FS_CardinalityType
<1>2. ASSUME NEW x \in S
      PROVE  IsFiniteSet(before[x]) /\ Cardinality(before[x]) \in Nat
  BY FS_Subset, FS_CardinalityType DEF IsOrder
<1>3. ASSUME NEW x \in S PROVE Cardinality(before[x]) \in 0..(n - 1)
  <2>1. before[x] \in SUBSET S /\ before[x] # S
    BY DEF IsOrder
  <2>2. Cardinality(before[x]) =< n /\ Cardinality(before[x]) # n
    BY <2>1, FS_Subset
  <2> QED
    BY <1>1, <1>2, <2>2
<1>4. ASSUME NEW x \in S, NEW y \in S, x \in before[y]
      PROVE  Cardinality(before[x]) < Cardinality(before[y])
  <2>1. before[x] \in SUBSET before[y] /\ before[x] # before[y]
    BY <1>4 DEF IsOrder
  <2>2. /\ Cardinality(before[x]) =< Cardinality(before[y])
        /\ Cardinality(before[x]) # Cardinality(before[y])
    BY <1>2, <2>1, FS_Subset
  <2> QED
    BY <1>2, <2>2
<1>5. ASSUME NEW x \in S, NEW y \in S, Cardinality(before[x]) < Cardinality(before[y])
      PROVE  x \in before[y]
  <2>1. x # y
    BY <1>2, <1>5
  <2>2. y \notin before[x]
    BY <1>2, <1>4, <1>5
  <2> QED
    BY <2>1, <2>2 DEF IsOrder
<1>6. ASSUME NEW x \in S, NEW y \in S, Cardinality(before[x]) = Cardinality(before[y]) PROVE x = y
  <2>1. x \notin before[y] /\ y \notin before[x]
    BY <1>2, <1>4, <1>6
  <2> QED
    BY <2>1 DEF IsOrder
<1>7. ASSUME NEW i \in 0..(n - 1) PROVE \E x \in S : Cardinality(before[x]) = i
  <2>1. IsFiniteSet(0..(n - 1)) /\ Cardinality(0..(n - 1)) = n
    BY <1>1, FS_Interval
  <2>2. place \in Injection(S, 0..(n - 1))
    BY <1>3, <1>6 DEF Injection, IsInjective
  <2>3. place \in Surjection(S, 0..(n - 1))
    BY <2>1, <2>2, FS_Injection
  <2> QED
    BY <2>3 DEF Surjection
<1> QED
  BY <1>1, <1>3, <1>4, <1>5, <1>6, <1>7

\* A sequence that has, at each place, the element that belongs there.
IsListing(S, before, seq) ==
    /\ DOMAIN seq = 1..Cardinality(S)
    /\ \A i \in 1..Cardinality(S) : seq[i] \in S /\ Cardinality(before[seq[i]]) = i - 1

\* It lists every element once, in order.
LEMMA ListingProperties ==
    ASSUME NEW S, IsFiniteSet(S), NEW before, IsOrder(S, before),
           NEW seq, IsListing(S, before, seq)
    PROVE  /\ \A x \in S : \E i \in 1..Cardinality(S) : seq[i] = x
           /\ \A i, j \in 1..Cardinality(S) : seq[i] = seq[j] => i = j
           /\ \A i, j \in 1..Cardinality(S) : seq[i] \in before[seq[j]] <=> i < j
<1>1. Cardinality(S) \in Nat
  BY FS_CardinalityType
<1>2. ASSUME NEW x \in S PROVE \E i \in 1..Cardinality(S) : seq[i] = x
  <2> DEFINE i == Cardinality(before[x]) + 1
  <2>1. Cardinality(before[x]) \in 0..(Cardinality(S) - 1)
    BY Places
  <2>2. i \in 1..Cardinality(S) /\ i - 1 = Cardinality(before[x])
    BY <1>1, <2>1
  <2> HIDE DEF i
  <2>3. seq[i] \in S /\ Cardinality(before[seq[i]]) = Cardinality(before[x])
    BY <2>2 DEF IsListing
  <2>4. seq[i] = x
    BY <2>3, Places
  <2> QED
    BY <2>2, <2>4
<1>3. ASSUME NEW i \in 1..Cardinality(S), NEW j \in 1..Cardinality(S)
      PROVE  /\ seq[i] = seq[j] => i = j
             /\ seq[i] \in before[seq[j]] <=> i < j
  <2>1. /\ seq[i] \in S /\ Cardinality(before[seq[i]]) = i - 1
        /\ seq[j] \in S /\ Cardinality(before[seq[j]]) = j - 1
    BY DEF IsListing
  <2>2. seq[i] \in before[seq[j]] <=> i - 1 < j - 1
    BY <2>1, Places
  <2>3. i \in Int /\ j \in Int
    BY <1>1
  <2> QED
    BY <2>1, <2>2, <2>3
<1> QED
  BY <1>2, <1>3

\* A nonempty finite set has a last element.
LEMMA LastExists ==
    ASSUME NEW S, IsFiniteSet(S), S # {}, NEW before, IsOrder(S, before)
    PROVE  \E x \in S : \A y \in S : y = x \/ y \in before[x]
<1> DEFINE n == Cardinality(S)
<1>1. n \in Nat /\ n # 0
  BY FS_CardinalityType, FS_EmptySet
<1>2. PICK x \in S : Cardinality(before[x]) = n - 1
  BY <1>1, Places
<1>3. ASSUME NEW y \in S, x \in before[y] PROVE FALSE
  <2>1. Cardinality(before[x]) < Cardinality(before[y]) /\ Cardinality(before[y]) \in 0..(n - 1)
    BY <1>3, Places
  <2> QED
    BY <1>1, <1>2, <2>1
<1> QED
  BY <1>3 DEF IsOrder
===============================================================================
