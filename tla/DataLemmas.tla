------------------------------ MODULE DataLemmas ------------------------------
(***************************************************************************)
(* What the operators the modules are built from return and preserve, for  *)
(* data of any size: the enumerable sets of IndexedList, sums, and loops.  *)
(*                                                                         *)
(* Sums and loops are folds, so each of these facts is an induction.  It   *)
(* is done on a set: the good subsets of a finite set, or the good numbers *)
(* up to a bound, are all of them if the empty one is good and every other *)
(* one follows from the smaller ones.                                      *)
(***************************************************************************)
EXTENDS IndexedList, Functions, FiniteSetsExt, Integers, FiniteSetTheorems, TLAPS

\* Appending an absent member keeps array and positions in step.
LEMMA PushKeepsIndex ==
    ASSUME NEW S, NEW list \in Seq(S), NEW index \in [S -> Nat], NEW x \in S,
           IsIndexed(list, index), index[x] = 0
    PROVE  /\ PushedList(list, x) \in Seq(S)
           /\ PushedIndex(list, index, x) \in [S -> Nat]
           /\ IsIndexed(PushedList(list, x), PushedIndex(list, index, x))
           /\ Len(PushedList(list, x)) = Len(list) + 1
           /\ \A y \in S : PushedIndex(list, index, x)[y] # 0 <=> index[y] # 0 \/ y = x
<1> DEFINE l == PushedList(list, x)
           i == PushedIndex(list, index, x)
<1>1. /\ l \in Seq(S)
      /\ Len(l) = Len(list) + 1
      /\ DOMAIN l = 1..(Len(list) + 1)
      /\ \A k \in 1..Len(list) : l[k] = list[k]
      /\ l[Len(list) + 1] = x
    BY DEF PushedList
<1>2. /\ i \in [S -> Nat]
      /\ \A y \in S : i[y] = IF y = x THEN Len(list) + 1 ELSE index[y]
    BY DEF PushedIndex
<1>3. \A k \in 1..Len(list) : list[k] \in S /\ list[k] # x /\ index[list[k]] = k
    BY DEF IsIndexed
<1> HIDE DEF l, i
<1>4. \A k \in DOMAIN l : i[l[k]] = k
    <2>1. Len(list) \in Nat
        OBVIOUS
    <2>2. i[l[Len(list) + 1]] = Len(list) + 1
        BY <1>1, <1>2
    <2>3. \A k \in 1..Len(list) : i[l[k]] = k
        BY <1>1, <1>2, <1>3
    <2> QED BY <1>1, <2>1, <2>2, <2>3
<1>5. \A y \in S : i[y] # 0 => i[y] \in DOMAIN l /\ l[i[y]] = y
    <2>1. Len(list) \in Nat
        OBVIOUS
    <2>2. \A y \in S : index[y] # 0 => index[y] \in 1..Len(list) /\ list[index[y]] = y
        BY DEF IsIndexed
    <2>3. i[x] \in DOMAIN l /\ l[i[x]] = x
        BY <1>1, <1>2, <2>1
    <2>4. ASSUME NEW y \in S, y # x, i[y] # 0
          PROVE  i[y] \in DOMAIN l /\ l[i[y]] = y
        <3>1. i[y] = index[y] /\ index[y] \in 1..Len(list) /\ list[index[y]] = y
            BY <2>4, <1>2, <2>2
        <3> QED BY <3>1, <1>1, <2>1
    <2> QED BY <2>3, <2>4
<1>6. IsIndexed(l, i)
    BY <1>2, <1>4, <1>5 DEF IsIndexed
<1> QED BY <1>1, <1>2, <1>6 DEF l, i

\* Removing a member by moving the last one into its place does too.
LEMMA PopKeepsIndex ==
    ASSUME NEW S, NEW list \in Seq(S), NEW index \in [S -> Nat], NEW x \in S,
           IsIndexed(list, index), index[x] # 0
    PROVE  /\ PoppedList(list, index, x) \in Seq(S)
           /\ PoppedIndex(list, index, x) \in [S -> Nat]
           /\ IsIndexed(PoppedList(list, index, x), PoppedIndex(list, index, x))
           /\ Len(PoppedList(list, index, x)) = Len(list) - 1
           /\ \A y \in S : PoppedIndex(list, index, x)[y] # 0 <=> index[y] # 0 /\ y # x
<1> DEFINE n == Len(list)
           l == PoppedList(list, index, x)
           i == PoppedIndex(list, index, x)
<1>1. /\ n \in Nat
      /\ index[x] \in 1..n
      /\ list[index[x]] = x
      /\ \A k \in 1..n : list[k] \in S /\ index[list[k]] = k
      /\ \A y \in S : index[y] # 0 => index[y] \in 1..n /\ list[index[y]] = y
    BY DEF IsIndexed
<1>2. /\ DOMAIN l = 1..(n - 1)
      /\ \A k \in 1..(n - 1) : l[k] = IF k = index[x] THEN list[n] ELSE list[k]
    BY DEF PoppedList
<1>3. l \in Seq(S) /\ Len(l) = n - 1
    <2>1. n - 1 \in Nat
        BY <1>1
    <2>2. l \in [1..(n - 1) -> S]
        BY <1>1 DEF PoppedList
    <2> HIDE DEF l, n
    <2> QED BY ONLY <2>1, <2>2
<1>4. /\ i \in [S -> Nat]
      /\ \A y \in S : i[y] = IF y = x THEN 0
                             ELSE IF y = list[n] THEN index[x] ELSE index[y]
    BY <1>1 DEF PoppedIndex
<1>5. \A k \in 1..(n - 1) : i[l[k]] = k
    <2> SUFFICES ASSUME NEW k \in 1..(n - 1) PROVE i[l[k]] = k
        OBVIOUS
    <2>1. CASE k = index[x]
        <3>1. list[n] # x /\ list[n] \in S /\ l[k] = list[n]
            BY <2>1, <1>1, <1>2
        <3> QED BY <3>1, <2>1, <1>4
    <2>2. CASE k # index[x]
        <3>1. l[k] = list[k] /\ list[k] \in S /\ list[k] # x /\ list[k] # list[n]
            BY <2>2, <1>1, <1>2
        <3> QED BY <3>1, <1>1, <1>4
    <2> QED BY <2>1, <2>2
<1>6. \A y \in S : i[y] # 0 => i[y] \in 1..(n - 1) /\ l[i[y]] = y
    <2> SUFFICES ASSUME NEW y \in S, i[y] # 0
                 PROVE  i[y] \in 1..(n - 1) /\ l[i[y]] = y
        OBVIOUS
    <2>1. y # x
        BY <1>4
    <2>2. CASE y = list[n]
        <3>1. i[y] = index[x] /\ index[x] # n
            BY <2>1, <2>2, <1>1, <1>4
        <3> QED BY <3>1, <2>2, <1>1, <1>2
    <2>3. CASE y # list[n]
        <3>1. i[y] = index[y] /\ index[y] \in 1..n /\ list[index[y]] = y
            BY <2>1, <2>3, <1>1, <1>4
        <3>2. index[y] # n /\ index[y] # index[x]
            BY <3>1, <2>1, <2>3, <1>1
        <3> QED BY <3>1, <3>2, <1>1, <1>2
    <2> QED BY <2>2, <2>3
<1>7. IsIndexed(l, i)
    BY <1>2, <1>4, <1>5, <1>6 DEF IsIndexed
<1>8. \A y \in S : i[y] # 0 <=> index[y] # 0 /\ y # x
    BY <1>1, <1>4
<1> QED BY <1>3, <1>4, <1>7, <1>8

------------------------------------------------------------------------------
(* Sums *)

\* Induction over the subsets of a finite set; G is the set of the good ones.
LEMMA FiniteInduction ==
    ASSUME NEW S, IsFiniteSet(S), NEW G, {} \in G,
           \A T \in SUBSET S : T # {} /\ (\A x \in T : T \ {x} \in G) => T \in G
    PROVE  SUBSET S \subseteq G
<1> DEFINE Bad == {T \in SUBSET S : T \notin G}
           R == StrictSubsetOrdering(S)
<1> SUFFICES ASSUME Bad # {} PROVE FALSE
    OBVIOUS
<1>1. IsWellFoundedOn(R, SUBSET S)
    BY FS_StrictSubsetOrderingWellFounded, FS_FiniteSubsetsOfFinite
<1>2. Bad \subseteq SUBSET S
    OBVIOUS
<1> HIDE DEF Bad, R
<1>3. PICK T \in Bad : \A U \in Bad : <<U, T>> \notin R
    BY <1>1, <1>2, WFMin
<1> USE DEF Bad
<1>4. T \in SUBSET S /\ T \notin G /\ T # {}
    OBVIOUS
<1>5. ASSUME NEW x \in T PROVE T \ {x} \in G
    <2>1. <<T \ {x}, T>> \in R
        BY <1>4 DEF R, StrictSubsetOrdering
    <2> QED BY <2>1, <1>3, <1>4
<1> QED BY <1>4, <1>5

\* One unit of a sum: the x-th summand contributes f[x] of them.
Cells(f, S) == {c \in S \X Nat : c[2] < f[c[1]]}

LEMMA CellsOfOneMore ==
    ASSUME NEW f, NEW T, NEW x \in T, f[x] \in Nat, IsFiniteSet(Cells(f, T \ {x}))
    PROVE  /\ IsFiniteSet(Cells(f, T))
           /\ Cardinality(Cells(f, T)) = f[x] + Cardinality(Cells(f, T \ {x}))
<1> DEFINE column == {x} \X (0..(f[x] - 1))
           rest == Cells(f, T \ {x})
<1>1. IsFiniteSet(0..(f[x] - 1)) /\ Cardinality(0..(f[x] - 1)) = f[x]
    <2>1. PICK b \in Int : b = f[x] - 1
        OBVIOUS
    <2>2. IsFiniteSet(0..b) /\ Cardinality(0..b) = IF 0 > b THEN 0 ELSE b - 0 + 1
        BY FS_Interval
    <2> QED BY ONLY <2>1, <2>2, f[x] \in Nat
<1>2. IsFiniteSet({x}) /\ Cardinality({x}) = 1
    BY FS_Singleton
<1>3. IsFiniteSet(column) /\ Cardinality(column) = f[x]
    BY <1>1, <1>2, FS_Product
<1>4. Cells(f, T) = rest \cup column
    BY DEF Cells
<1>5. rest \cap column = {}
    BY DEF Cells
<1>6. Cardinality(rest) \in Nat
    BY FS_CardinalityType
<1> HIDE DEF column, rest
<1>7. IsFiniteSet(rest)
    BY DEF rest
<1>8. Cardinality(rest \cup column) = Cardinality(rest) + Cardinality(column) - 0
    BY <1>3, <1>5, <1>7, FS_Union, FS_EmptySet
<1>9. IsFiniteSet(rest \cup column)
    BY <1>3, <1>7, FS_Union
<1> QED BY <1>3, <1>4, <1>6, <1>8, <1>9 DEF rest

LEMMA CellsFinite ==
    ASSUME NEW S, IsFiniteSet(S), NEW f, \A x \in S : f[x] \in Nat
    PROVE  \A T \in SUBSET S : IsFiniteSet(Cells(f, T)) /\ Cardinality(Cells(f, T)) \in Nat
<1> DEFINE G == {T \in SUBSET S : IsFiniteSet(Cells(f, T))}
<1>1. {} \in G
    <2>1. Cells(f, {}) = {}
        BY DEF Cells
    <2> QED BY <2>1, FS_EmptySet
<1>2. ASSUME NEW T \in SUBSET S, T # {}, \A x \in T : T \ {x} \in G
      PROVE  T \in G
    BY <1>2, CellsOfOneMore
<1> HIDE DEF G
<1>3. SUBSET S \subseteq G
    BY <1>1, <1>2, FiniteInduction
<1> QED BY <1>3, FS_CardinalityType DEF G

LEMMA SumIsCells ==
    ASSUME NEW S, IsFiniteSet(S), NEW f, \A x \in S : f[x] \in Nat
    PROVE  SumFunctionOnSet(f, S) = Cardinality(Cells(f, S))
<1> DEFINE Unfolds(g) ==
              g = [s \in SUBSET S |->
                      IF s = {} THEN 0
                      ELSE LET x == CHOOSE y \in s : TRUE IN f[x] + g[s \ {x}]]
           size == [s \in SUBSET S |-> Cardinality(Cells(f, s))]
           iter == CHOOSE g : Unfolds(g)
<1>1. SumFunctionOnSet(f, S) = iter[S]
    BY DEF SumFunctionOnSet, FoldFunctionOnSet, MapThenFoldSet
<1>2. size[{}] = 0
    <2>1. Cells(f, {}) = {}
        BY DEF Cells
    <2> QED BY <2>1, FS_EmptySet
<1>3. ASSUME NEW s \in SUBSET S, NEW x \in s
      PROVE  size[s] = f[x] + size[s \ {x}]
    <2>1. s \ {x} \in SUBSET S /\ f[x] \in Nat
        OBVIOUS
    <2>2. IsFiniteSet(Cells(f, s \ {x}))
        BY <2>1, CellsFinite
    <2>3. Cardinality(Cells(f, s)) = f[x] + Cardinality(Cells(f, s \ {x}))
        BY <2>1, <2>2, CellsOfOneMore
    <2> QED BY <2>1, <2>3
<1> HIDE DEF size
<1>4. Unfolds(size)
    <2>1. size = [s \in SUBSET S |-> size[s]]
        BY DEF size
    <2>2. ASSUME NEW s \in SUBSET S, s # {}
          PROVE  LET x == CHOOSE y \in s : TRUE IN size[s] = f[x] + size[s \ {x}]
        BY <1>3, <2>2
    <2> QED BY <2>1, <2>2, <1>2
<1>5. Unfolds(iter)
    BY <1>4
<1> HIDE DEF iter
<1> DEFINE G == {s \in SUBSET S : iter[s] = size[s]}
<1>6. {} \in G
    BY <1>2, <1>5
<1>7. ASSUME NEW s \in SUBSET S, s # {}, \A x \in s : s \ {x} \in G
      PROVE  s \in G
    <2> DEFINE x == CHOOSE y \in s : TRUE
    <2>1. x \in s
        BY <1>7
    <2>2. iter[s] = f[x] + iter[s \ {x}]
        BY <1>5, <1>7
    <2> HIDE DEF x
    <2>3. iter[s \ {x}] = size[s \ {x}]
        BY <1>7, <2>1
    <2> QED BY <2>1, <2>2, <2>3, <1>3
<1> HIDE DEF G
<1>8. S \in G
    BY <1>6, <1>7, FiniteInduction
<1> QED BY <1>1, <1>8 DEF G, size

\* A sum of naturals is a natural, no summand exceeds it, a sum of zeros is 0, and
\* it depends on the summands alone.
LEMMA SumFacts ==
    ASSUME NEW S, IsFiniteSet(S), NEW f, \A x \in S : f[x] \in Nat
    PROVE  /\ SumFunctionOnSet(f, S) \in Nat
           /\ \A x \in S : /\ f[x] <= SumFunctionOnSet(f, S)
                           /\ SumFunctionOnSet(f, S)
                                = f[x] + SumFunctionOnSet(f, S \ {x})
           /\ (\A x \in S : f[x] = 0) => SumFunctionOnSet(f, S) = 0
           /\ \A g : (\A x \in S : g[x] = f[x])
                        => SumFunctionOnSet(g, S) = SumFunctionOnSet(f, S)
<1>1. SumFunctionOnSet(f, S) = Cardinality(Cells(f, S))
    BY SumIsCells
<1>2. Cardinality(Cells(f, S)) \in Nat
    BY CellsFinite
<1>3. ASSUME NEW x \in S
      PROVE  /\ f[x] <= Cardinality(Cells(f, S))
             /\ Cardinality(Cells(f, S)) = f[x] + SumFunctionOnSet(f, S \ {x})
    <2>1. IsFiniteSet(Cells(f, S \ {x})) /\ Cardinality(Cells(f, S \ {x})) \in Nat
        BY CellsFinite
    <2>2. Cardinality(Cells(f, S)) = f[x] + Cardinality(Cells(f, S \ {x}))
        BY ONLY <2>1, CellsOfOneMore, x \in S, f[x] \in Nat
    <2>3. IsFiniteSet(S \ {x}) /\ \A y \in S \ {x} : f[y] \in Nat
        BY FS_RemoveElement
    <2>4. SumFunctionOnSet(f, S \ {x}) = Cardinality(Cells(f, S \ {x}))
        BY <2>3, SumIsCells
    <2> QED BY <2>1, <2>2, <2>4
<1>4. ASSUME \A x \in S : f[x] = 0 PROVE Cardinality(Cells(f, S)) = 0
    <2>1. Cells(f, S) = {}
        BY <1>4 DEF Cells
    <2> QED BY <2>1, FS_EmptySet
<1>5. ASSUME NEW g, \A x \in S : g[x] = f[x]
      PROVE  SumFunctionOnSet(g, S) = Cardinality(Cells(f, S))
    <2>1. Cells(g, S) = Cells(f, S)
        BY <1>5 DEF Cells
    <2>2. SumFunctionOnSet(g, S) = Cardinality(Cells(g, S))
        BY <1>5, SumIsCells
    <2> QED BY <2>1, <2>2
<1> QED BY <1>1, <1>2, <1>3, <1>4, <1>5

\* Of more summands the sum is no less, and the sum over a union is at most both.
LEMMA SumOfParts ==
    ASSUME NEW S, IsFiniteSet(S), NEW f, \A x \in S : f[x] \in Nat,
           NEW T \in SUBSET S, NEW U \in SUBSET S
    PROVE  /\ SumFunctionOnSet(f, T) \in Nat
           /\ T \subseteq U => SumFunctionOnSet(f, T) <= SumFunctionOnSet(f, U)
           /\ SumFunctionOnSet(f, T \cup U)
                <= SumFunctionOnSet(f, T) + SumFunctionOnSet(f, U)
<1>1. ASSUME NEW V \in SUBSET S
      PROVE  /\ SumFunctionOnSet(f, V) = Cardinality(Cells(f, V))
             /\ IsFiniteSet(Cells(f, V)) /\ Cardinality(Cells(f, V)) \in Nat
    <2>1. IsFiniteSet(V) /\ \A x \in V : f[x] \in Nat
        BY FS_Subset
    <2> QED BY <2>1, SumIsCells, CellsFinite
<1>2. ASSUME T \subseteq U
      PROVE  Cardinality(Cells(f, T)) <= Cardinality(Cells(f, U))
    <2>1. Cells(f, T) \in SUBSET Cells(f, U)
        BY <1>2 DEF Cells
    <2> QED BY <2>1, <1>1, FS_Subset
<1>3. Cardinality(Cells(f, T \cup U)) <= Cardinality(Cells(f, T)) + Cardinality(Cells(f, U))
    <2>1. Cells(f, T \cup U) = Cells(f, T) \cup Cells(f, U)
        BY DEF Cells
    <2>2. Cardinality(Cells(f, T) \cap Cells(f, U)) \in Nat
        BY <1>1, FS_Intersection, FS_CardinalityType
    <2>3. Cardinality(Cells(f, T)) \in Nat /\ Cardinality(Cells(f, U)) \in Nat
        BY <1>1
    <2>4. Cardinality(Cells(f, T) \cup Cells(f, U))
            = Cardinality(Cells(f, T)) + Cardinality(Cells(f, U))
                - Cardinality(Cells(f, T) \cap Cells(f, U))
        BY <1>1, FS_Union
    <2> DEFINE t == Cardinality(Cells(f, T))
               u == Cardinality(Cells(f, U))
               both == Cardinality(Cells(f, T) \cap Cells(f, U))
    <2>5. Cardinality(Cells(f, T \cup U)) = t + u - both
        BY <2>1, <2>4
    <2>6. t \in Nat /\ u \in Nat /\ both \in Nat
        BY <2>2, <2>3
    <2> HIDE DEF t, u, both
    <2>7. t + u - both <= t + u
        BY <2>6
    <2> QED BY <2>5, <2>7 DEF t, u
<1> QED BY <1>1, <1>2, <1>3

\* When one summand changes, the sum changes by the difference.
LEMMA SumOnSetUpdate ==
    ASSUME NEW S, IsFiniteSet(S), NEW f, NEW g, \A y \in S : f[y] \in Nat /\ g[y] \in Nat,
           NEW x \in S, \A y \in S \ {x} : g[y] = f[y]
    PROVE  SumFunctionOnSet(g, S) = SumFunctionOnSet(f, S) - f[x] + g[x]
<1>1. IsFiniteSet(S \ {x})
    BY FS_RemoveElement
<1>2. SumFunctionOnSet(g, S \ {x}) = SumFunctionOnSet(f, S \ {x})
    BY <1>1, SumFacts
<1>3. SumFunctionOnSet(f, S \ {x}) \in Nat
    BY <1>1, SumFacts
<1>4. /\ SumFunctionOnSet(f, S) = f[x] + SumFunctionOnSet(f, S \ {x})
      /\ SumFunctionOnSet(g, S) = g[x] + SumFunctionOnSet(g, S \ {x})
    BY SumFacts
<1> QED BY <1>2, <1>3, <1>4

\* The same facts for the sum of a whole function.
LEMMA SumUpdate ==
    ASSUME NEW S, IsFiniteSet(S), NEW f \in [S -> Nat]
    PROVE  /\ SumFunction(f) \in Nat
           /\ \A x \in S : f[x] <= SumFunction(f)
           /\ (\A x \in S : f[x] = 0) => SumFunction(f) = 0
           /\ \A g \in [S -> Nat], x \in S :
                 (\A y \in S \ {x} : g[y] = f[y])
                    => SumFunction(g) = SumFunction(f) - f[x] + g[x]
<1>1. \A g \in [S -> Nat] : SumFunction(g) = SumFunctionOnSet(g, S)
    BY DEF SumFunction
<1>2. ASSUME NEW g \in [S -> Nat], NEW x \in S, \A y \in S \ {x} : g[y] = f[y]
      PROVE  SumFunctionOnSet(g, S) = SumFunctionOnSet(f, S) - f[x] + g[x]
    <2>1. \A y \in S : f[y] \in Nat /\ g[y] \in Nat
        OBVIOUS
    <2> QED BY <2>1, <1>2, SumOnSetUpdate
<1>3. \A x \in S : f[x] \in Nat
    OBVIOUS
<1>4. /\ SumFunctionOnSet(f, S) \in Nat
      /\ \A x \in S : f[x] <= SumFunctionOnSet(f, S)
      /\ (\A x \in S : f[x] = 0) => SumFunctionOnSet(f, S) = 0
    BY <1>3, SumFacts
<1> QED BY <1>1, <1>2, <1>4

LEMMA SumChange ==
    ASSUME NEW S, IsFiniteSet(S), NEW f \in [S -> Nat], NEW g \in [S -> Nat], NEW x \in S,
           \A y \in S \ {x} : g[y] = f[y]
    PROVE  /\ SumFunction(f) \in Nat /\ SumFunction(g) \in Nat
           /\ f[x] <= SumFunction(f)
           /\ SumFunction(g) = SumFunction(f) - f[x] + g[x]
<1>1. SumFunction(f) \in Nat /\ f[x] <= SumFunction(f)
    BY SumUpdate
<1>2. SumFunction(g) \in Nat
    BY SumUpdate
<1> QED BY <1>1, <1>2, SumUpdate

\* The sum of two amounts each is the sum of the two sums.
LEMMA SumPlus ==
    ASSUME NEW S, IsFiniteSet(S), NEW f \in [S -> Nat], NEW g \in [S -> Nat],
           NEW h \in [S -> Nat], \A x \in S : h[x] = f[x] + g[x]
    PROVE  SumFunction(h) = SumFunction(f) + SumFunction(g)
<1> DEFINE G == {T \in SUBSET S :
                    SumFunctionOnSet(h, T) = SumFunctionOnSet(f, T) + SumFunctionOnSet(g, T)}
<1>1. {} \in G
    <2>1. IsFiniteSet({}) /\ \A x \in {} : f[x] \in Nat /\ f[x] = 0 /\ g[x] \in Nat /\ g[x] = 0
                                           /\ h[x] \in Nat /\ h[x] = 0
        BY FS_EmptySet
    <2>2. /\ SumFunctionOnSet(f, {}) = 0 /\ SumFunctionOnSet(g, {}) = 0
          /\ SumFunctionOnSet(h, {}) = 0
        BY <2>1, SumFacts
    <2> QED BY <2>2
<1>2. ASSUME NEW T \in SUBSET S, T # {}, \A x \in T : T \ {x} \in G
      PROVE  T \in G
    <2>1. PICK x \in T : TRUE
        BY <1>2
    <2>2. IsFiniteSet(T) /\ IsFiniteSet(T \ {x}) /\ x \in S
        BY FS_Subset, FS_RemoveElement
    <2>3. /\ SumFunctionOnSet(f, T) = f[x] + SumFunctionOnSet(f, T \ {x})
          /\ SumFunctionOnSet(f, T \ {x}) \in Nat
        BY <2>2, SumFacts
    <2>4. /\ SumFunctionOnSet(g, T) = g[x] + SumFunctionOnSet(g, T \ {x})
          /\ SumFunctionOnSet(g, T \ {x}) \in Nat
        BY <2>2, SumFacts
    <2>5. SumFunctionOnSet(h, T) = h[x] + SumFunctionOnSet(h, T \ {x})
        BY <2>2, SumFacts
    <2>6. SumFunctionOnSet(h, T \ {x})
            = SumFunctionOnSet(f, T \ {x}) + SumFunctionOnSet(g, T \ {x})
        BY <1>2
    <2>7. f[x] \in Nat /\ g[x] \in Nat /\ h[x] = f[x] + g[x]
        BY <2>2
    <2>8. SumFunctionOnSet(h, T) = SumFunctionOnSet(f, T) + SumFunctionOnSet(g, T)
        BY ONLY <2>3, <2>4, <2>5, <2>6, <2>7
    <2> QED BY <2>8
<1> HIDE DEF G
<1>3. S \in G
    BY <1>1, <1>2, FiniteInduction
<1> QED BY <1>3 DEF G, SumFunction

\* The amounts of the listed ones, in the order of the list, are all there are.
IsListing(g, f, list, index) ==
    /\ g \in [DOMAIN list -> Nat]
    /\ \A k \in DOMAIN list : g[k] = f[list[k]]
    /\ \A x \in DOMAIN index : index[x] = 0 => f[x] = 0

\* A sum over the list of an enumerable set is the sum over all, if what is not
\* listed contributes nothing.
LEMMA ListedSum ==
    ASSUME NEW S, IsFiniteSet(S), NEW list \in Seq(S), NEW index \in [S -> Nat],
           IsIndexed(list, index), NEW f \in [S -> Nat],
           NEW g, IsListing(g, f, list, index)
    PROVE  SumFunction(g) = SumFunction(f)
<1> USE DEF IsListing
<1> DEFINE K == DOMAIN list
           move == [c \in Cells(g, K) |-> <<list[c[1]], c[2]>>]
<1>1. /\ IsFiniteSet(K)
      /\ \A k \in K : list[k] \in S /\ index[list[k]] = k
      /\ \A x \in S : index[x] # 0 => index[x] \in K /\ list[index[x]] = x
    <2>1. K = 1..Len(list) /\ Len(list) \in Nat
        OBVIOUS
    <2>2. IsFiniteSet(K)
        BY <2>1, FS_Interval
    <2> QED BY <2>2 DEF IsIndexed
<1>2. DOMAIN g = K /\ \A k \in K : g[k] = f[list[k]] /\ g[k] \in Nat
    BY <1>1
<1> HIDE DEF K
<1>3. move \in [Cells(g, K) -> Cells(f, S)]
    BY <1>1, <1>2 DEF Cells
<1>4. move \in Injection(Cells(g, K), Cells(f, S))
    <2>1. ASSUME NEW c \in Cells(g, K), NEW d \in Cells(g, K), move[c] = move[d]
          PROVE  c = d
        <3>1. c \in K \X Nat /\ d \in K \X Nat
            BY DEF Cells
        <3>2. list[c[1]] = list[d[1]] /\ c[2] = d[2]
            BY <2>1
        <3>3. c[1] = d[1]
            BY <1>1, <3>1, <3>2
        <3> QED BY <3>1, <3>2, <3>3
    <2> HIDE DEF move
    <2> QED BY <1>3, <2>1 DEF Injection, IsInjective
<1>5. move \in Surjection(Cells(g, K), Cells(f, S))
    <2>1. ASSUME NEW c \in Cells(f, S)
          PROVE  \E b \in Cells(g, K) : move[b] = c
        <3>1. c \in S \X Nat /\ c[2] < f[c[1]] /\ c[1] \in S /\ c[2] \in Nat
            BY DEF Cells
        <3>2. index[c[1]] # 0
            BY <3>1
        <3>3. index[c[1]] \in K /\ list[index[c[1]]] = c[1]
            BY <1>1, <3>1, <3>2
        <3>4. <<index[c[1]], c[2]>> \in Cells(g, K)
            BY <1>2, <3>1, <3>3 DEF Cells
        <3>5. move[<<index[c[1]], c[2]>>] = <<c[1], c[2]>> /\ c = <<c[1], c[2]>>
            BY <3>1, <3>3, <3>4
        <3> QED BY <3>4, <3>5
    <2> HIDE DEF move
    <2> QED BY <1>3, <2>1 DEF Surjection
<1>6. ExistsBijection(Cells(g, K), Cells(f, S))
    <2>1. move \in Bijection(Cells(g, K), Cells(f, S))
        BY <1>4, <1>5 DEF Bijection
    <2> QED BY <2>1 DEF ExistsBijection
<1>7. SumFunctionOnSet(g, K) = Cardinality(Cells(g, K)) /\ IsFiniteSet(Cells(g, K))
    BY <1>1, <1>2, SumIsCells, CellsFinite
<1>8. SumFunctionOnSet(f, S) = Cardinality(Cells(f, S))
    BY SumIsCells
<1>9. Cardinality(Cells(f, S)) = Cardinality(Cells(g, K))
    BY <1>6, <1>7, FS_Bijection
<1>10. SumFunction(g) = SumFunctionOnSet(g, K) /\ SumFunction(f) = SumFunctionOnSet(f, S)
    BY <1>2 DEF SumFunction
<1> QED BY ONLY <1>7, <1>8, <1>9, <1>10

------------------------------------------------------------------------------
(* Loops *)

\* Induction up to a bound; G is the set of the good numbers.
LEMMA InductionUpTo ==
    ASSUME NEW n \in Nat, NEW G, 0 \in G, \A k \in 1..n : k - 1 \in G => k \in G
    PROVE  0..n \subseteq G
<1> DEFINE Bad == {k \in 0..n : k \notin G}
           R == OpToRel(<, Nat)
<1> SUFFICES ASSUME Bad # {} PROVE FALSE
    OBVIOUS
<1>1. IsWellFoundedOn(R, Nat)
    BY NatLessThanWellFounded
<1>2. Bad \subseteq Nat
    OBVIOUS
<1> HIDE DEF Bad, R
<1>3. PICK k \in Bad : \A j \in Bad : <<j, k>> \notin R
    BY <1>1, <1>2, WFMin
<1> USE DEF Bad
<1>4. k \in 1..n /\ k \notin G
    OBVIOUS
<1>5. <<k - 1, k>> \in R
    BY <1>4 DEF R, OpToRel
<1>6. k - 1 \in G
    BY <1>3, <1>4, <1>5
<1> QED BY <1>4, <1>6

\* A loop over a finite set, in the order pick takes its elements out: step gives
\* the next value from the value so far and the element taken.
Loops(g, T, A, base, step, pick) ==
    /\ g \in [SUBSET T -> A]
    /\ \A s \in SUBSET T :
          g[s] = IF s = {} THEN base ELSE step[<<g[s \ {pick[s]}], pick[s]>>]

LEMMA LoopsAgree ==
    ASSUME NEW S, IsFiniteSet(S), NEW A, NEW base, NEW step,
           NEW pick, \A s \in SUBSET S : s # {} => pick[s] \in s,
           NEW T \in SUBSET S, NEW U \in SUBSET S, NEW g, NEW h,
           Loops(g, T, A, base, step, pick), Loops(h, U, A, base, step, pick)
    PROVE  \A s \in SUBSET (T \cap U) : g[s] = h[s]
<1> DEFINE W == T \cap U
           G == {s \in SUBSET W : g[s] = h[s]}
<1>1. {} \in G
    BY DEF Loops
<1>2. ASSUME NEW s \in SUBSET W, s # {}, \A x \in s : s \ {x} \in G
      PROVE  s \in G
    <2>1. pick[s] \in s
        BY <1>2
    <2>2. g[s \ {pick[s]}] = h[s \ {pick[s]}]
        BY <1>2, <2>1
    <2>3. /\ g[s] = step[<<g[s \ {pick[s]}], pick[s]>>]
          /\ h[s] = step[<<h[s \ {pick[s]}], pick[s]>>]
        BY <1>2 DEF Loops
    <2> QED BY <2>2, <2>3
<1>3. IsFiniteSet(W)
    BY FS_Subset
<1> HIDE DEF G, W
<1>4. SUBSET W \subseteq G
    BY <1>1, <1>2, <1>3, FiniteInduction
<1> QED BY <1>4 DEF G, W

LEMMA LoopExists ==
    ASSUME NEW S, IsFiniteSet(S), NEW A, NEW base \in A, NEW step \in [A \X S -> A],
           NEW pick, \A s \in SUBSET S : s # {} => pick[s] \in s
    PROVE  \E g : Loops(g, S, A, base, step, pick)
<1> DEFINE Runs(g, T) == Loops(g, T, A, base, step, pick)
           G == {T \in SUBSET S : \E g : Runs(g, T)}
<1>1. {} \in G
    <2>1. Runs([s \in SUBSET {} |-> base], {})
        BY DEF Loops
    <2> QED BY <2>1
<1>2. ASSUME NEW T \in SUBSET S, T # {}, \A x \in T : T \ {x} \in G
      PROVE  T \in G
    <2> DEFINE H(x) == CHOOSE g : Runs(g, T \ {x})
               out(s) == CHOOSE x \in T : x \notin s
               m == pick[T]
               g == [s \in SUBSET T |-> IF s = T THEN step[<<H(m)[T \ {m}], m>>]
                                                 ELSE H(out(s))[s]]
    <2>1. \A x \in T : Runs(H(x), T \ {x})
        BY <1>2
    <2>2. ASSUME NEW x \in T
          PROVE  /\ \A s \in SUBSET (T \ {x}) : H(x)[s] \in A
                 /\ \A s \in SUBSET (T \ {x}) :
                       H(x)[s] = IF s = {} THEN base
                                           ELSE step[<<H(x)[s \ {pick[s]}], pick[s]>>]
        <3> HIDE DEF H
        <3>1. Runs(H(x), T \ {x})
            BY <2>1
        <3> QED BY <3>1 DEF Loops
    <2>3. m \in T
        BY <1>2
    <2> HIDE DEF H, Runs
    <2>4. ASSUME NEW s \in SUBSET T, s # T
          PROVE  out(s) \in T /\ out(s) \notin s
        BY <2>4
    <2> HIDE DEF out
    <2>5. ASSUME NEW s \in SUBSET T, s # T, NEW x \in T, x \notin s
          PROVE  g[s] = H(x)[s]
        <3>1. out(s) \in T /\ out(s) \notin s
            BY <2>4, <2>5
        <3>2. s \in SUBSET ((T \ {out(s)}) \cap (T \ {x}))
            BY <3>1, <2>5
        <3>3. Runs(H(out(s)), T \ {out(s)}) /\ Runs(H(x), T \ {x})
            BY <2>1, <2>5, <3>1
        <3>4. T \ {out(s)} \in SUBSET S /\ T \ {x} \in SUBSET S
            OBVIOUS
        <3>5. H(out(s))[s] = H(x)[s]
            BY <3>2, <3>3, <3>4, LoopsAgree DEF Runs
        <3> QED BY <3>5, <2>5
    <2>6. g[T] = step[<<g[T \ {m}], m>>]
        BY <2>3, <2>5
    <2>7. ASSUME NEW s \in SUBSET T, s # T, s # {}
          PROVE  g[s] = step[<<g[s \ {pick[s]}], pick[s]>>]
        <3>1. PICK x \in T : x \notin s
            BY <2>7
        <3>2. g[s] = H(x)[s]
            BY <2>5, <2>7, <3>1
        <3>3. g[s \ {pick[s]}] = H(x)[s \ {pick[s]}]
            BY <2>5, <2>7, <3>1
        <3>4. H(x)[s] = step[<<H(x)[s \ {pick[s]}], pick[s]>>]
            BY <2>2, <2>7, <3>1
        <3> QED BY <3>2, <3>3, <3>4
    <2>8. g[{}] = base
        <3>1. PICK x \in T : TRUE
            BY <1>2
        <3>2. g[{}] = H(x)[{}]
            BY <1>2, <2>5, <3>1
        <3> QED BY <2>1, <3>1, <3>2 DEF Runs, Loops
    <2>9. ASSUME NEW s \in SUBSET T PROVE g[s] \in A
        <3>1. CASE s = T
            <4>1. H(m)[T \ {m}] \in A
                BY <2>2, <2>3
            <4> QED BY <3>1, <4>1, <2>3
        <3>2. CASE s # T
            <4>1. PICK x \in T : x \notin s
                BY <3>2
            <4> QED BY <4>1, <3>2, <2>2, <2>5
        <3> QED BY <3>1, <3>2
    <2>10. g = [s \in SUBSET T |-> g[s]]
        OBVIOUS
    <2> HIDE DEF g, m
    <2>11. Runs(g, T)
        BY <2>6, <2>7, <2>8, <2>9, <2>10 DEF Runs, Loops, m
    <2> QED BY <2>11
<1> HIDE DEF G, Runs
<1>3. S \in G
    BY <1>1, <1>2, FiniteInduction
<1> QED BY <1>3 DEF G, Runs

\* The greatest of finitely many numbers is one of them, the least of any numbers too,
\* and the greatest of an interval is its end.
LEMMA GreatestIsMember ==
    ASSUME NEW n \in Nat
    PROVE  \A s \in SUBSET (0..n) : s # {} => Max(s) \in s /\ \A y \in s : Max(s) >= y
<1> DEFINE G == {k \in 0..n : \A s \in SUBSET (0..k) :
                                 s # {} => \E x \in s : \A y \in s : x >= y}
<1>1. 0 \in G
    <2>1. 0..0 = {0} /\ 0 \in 0..n
        OBVIOUS
    <2>2. \A s \in SUBSET {0} : s # {} => s = {0}
        OBVIOUS
    <2>3. 0 >= 0
        OBVIOUS
    <2> QED BY <2>1, <2>2, <2>3
<1>2. ASSUME NEW k \in 1..n, k - 1 \in G PROVE k \in G
    <2>1. ASSUME NEW s \in SUBSET (0..k), s # {}
          PROVE  \E x \in s : \A y \in s : x >= y
        <3>1. CASE k \in s
            BY <3>1
        <3>2. CASE k \notin s
            <4>1. s \in SUBSET (0..(k - 1))
                BY <3>2
            <4> QED BY <4>1, <1>2, <2>1
        <3> QED BY <3>1, <3>2
    <2> QED BY <2>1
<1> HIDE DEF G
<1>3. n \in G
    BY <1>1, <1>2, InductionUpTo
<1> QED BY <1>3 DEF G, Max

LEMMA LeastIsMember ==
    ASSUME NEW s \in SUBSET Nat, s # {}
    PROVE  Min(s) \in s /\ \A y \in s : Min(s) <= y
<1>1. \E x \in s : \A y \in s : ~(<<y, x>> \in OpToRel(<, Nat))
    BY NatLessThanWellFounded, WFMin
<1>2. \E x \in s : \A y \in s : x <= y
    <2>1. \A x, y \in s : ~(<<y, x>> \in OpToRel(<, Nat)) => ~(y < x)
        BY DEF OpToRel
    <2>2. \A x, y \in s : ~(y < x) => x <= y
        OBVIOUS
    <2> QED BY <1>1, <2>1, <2>2
<1> QED BY <1>2 DEF Min

LEMMA GreatestOfInterval ==
    ASSUME NEW k \in Nat \ {0}
    PROVE  /\ Max(1..k) = k
           /\ (1..k) \ {Max(1..k)} = 1..(k - 1)
<1>1. \A y \in 1..k : k >= y
    OBVIOUS
<1>2. Max(1..k) \in 1..k /\ Max(1..k) >= k
    BY <1>1 DEF Max
<1> QED BY <1>2

LoopsInOrder(g, n, A, base, step) ==
    /\ g \in [SUBSET (1..n) -> A]
    /\ \A s \in SUBSET (1..n) :
          g[s] = IF s = {} THEN base ELSE step[<<g[s \ {Max(s)}], Max(s)>>]

\* A loop over a sequence of n entries, as FoldLeft runs it: there is a function of
\* the sets of entries taken so far that follows it.
LEMMA LoopInOrderExists ==
    ASSUME NEW n \in Nat, NEW A, NEW base \in A, NEW step \in [A \X (1..n) -> A]
    PROVE  \E g : LoopsInOrder(g, n, A, base, step)
<1> DEFINE pick == [s \in SUBSET (1..n) |-> Max(s)]
<1>1. \A s \in SUBSET (1..n) : s # {} => pick[s] \in s
    <2>1. \A s \in SUBSET (1..n) : s \in SUBSET (0..n)
        OBVIOUS
    <2> QED BY <2>1, GreatestIsMember
<1>2. \A s \in SUBSET (1..n) : pick[s] = Max(s)
    OBVIOUS
<1>3. IsFiniteSet(1..n)
    BY FS_Interval
<1> HIDE DEF pick
<1>4. PICK g : Loops(g, 1..n, A, base, step, pick)
    BY <1>1, <1>3, LoopExists
<1> QED BY <1>2, <1>4 DEF Loops, LoopsInOrder

------------------------------------------------------------------------------
(* Quotients and products *)

\* A division rounds down, by less than the divisor.
LEMMA Quotient ==
    ASSUME NEW n \in Nat, NEW d \in Nat \ {0}
    PROVE  /\ n \div d \in Nat
           /\ (n \div d) * d <= n
           /\ n < (n \div d) * d + d
OBVIOUS

LEMMA ProductIsNat == \A x, y \in Nat : x * y \in Nat
OBVIOUS

LEMMA ProductsGrow ==
    ASSUME NEW a \in Nat, NEW b \in Nat, NEW c \in Nat, NEW d \in Nat, a <= b, c <= d
    PROVE  a * c <= b * d
<1>1. a * c <= b * c
    OBVIOUS
<1>2. b * c <= b * d
    OBVIOUS
<1>3. a * c \in Nat /\ b * c \in Nat /\ b * d \in Nat
    OBVIOUS
<1> QED BY <1>1, <1>2, <1>3

\* Of two products with one factor the smaller has the smaller other factor.
LEMMA FactorsCancel ==
    ASSUME NEW a \in Nat, NEW b \in Nat, NEW c \in Nat
    PROVE  /\ a * c < b * c => a < b
           /\ a * c <= b * c /\ c > 0 => a <= b
OBVIOUS

\* A whole split by shares, each part rounded down: together the parts miss the whole by
\* less than one unit each.
LEMMA RoundedParts ==
    ASSUME NEW n \in Nat, NEW whole \in Nat, NEW d \in Nat \ {0},
           NEW share \in [1..n -> Nat], NEW part \in [1..n -> Nat],
           \A k \in 1..n : part[k] = (whole * share[k]) \div d
    PROVE  /\ SumFunction(part) * d <= whole * SumFunction(share)
           /\ whole * SumFunction(share) <= SumFunction(part) * d + n * (d - 1)
<1> DEFINE P(k) == SumFunctionOnSet(part, 1..k)
           Q(k) == SumFunctionOnSet(share, 1..k)
           G == {k \in 0..n : /\ P(k) * d <= whole * Q(k)
                              /\ whole * Q(k) <= P(k) * d + k * (d - 1)}
<1>1. ASSUME NEW k \in 0..n
      PROVE  /\ P(k) \in Nat /\ Q(k) \in Nat
             /\ k = 0 => P(k) = 0 /\ Q(k) = 0
             /\ k # 0 => P(k) = part[k] + P(k - 1) /\ Q(k) = share[k] + Q(k - 1)
    <2>1. /\ IsFiniteSet(1..k)
          /\ \A x \in 1..k : part[x] \in Nat /\ share[x] \in Nat
          /\ k = 0 => 1..k = {}
        BY FS_Interval
    <2>2. k # 0 => k \in 1..k /\ (1..k) \ {k} = 1..(k - 1)
        <3>1. k \in Nat
            OBVIOUS
        <3> QED BY ONLY <3>1
    <2>3. /\ P(k) \in Nat /\ (k = 0 => P(k) = 0)
          /\ k # 0 => P(k) = part[k] + SumFunctionOnSet(part, (1..k) \ {k})
        BY <2>1, <2>2, SumFacts
    <2>4. /\ Q(k) \in Nat /\ (k = 0 => Q(k) = 0)
          /\ k # 0 => Q(k) = share[k] + SumFunctionOnSet(share, (1..k) \ {k})
        BY <2>1, <2>2, SumFacts
    <2> QED BY <2>2, <2>3, <2>4
<1> HIDE DEF P, Q
<1>2. 0 \in G
    <2>1. P(0) = 0 /\ Q(0) = 0 /\ 0 \in 0..n
        BY <1>1
    <2>2. 0 * d <= whole * 0 /\ whole * 0 <= 0 * d + 0 * (d - 1)
        OBVIOUS
    <2> QED BY <2>1, <2>2
<1>3. ASSUME NEW k \in 1..n, k - 1 \in G
      PROVE  k \in G
    <2> DEFINE p == P(k - 1)
               q == Q(k - 1)
    <2>1. k \in 0..n /\ k - 1 \in 0..n /\ k # 0 /\ k \in Nat /\ k - 1 \in Nat
        OBVIOUS
    <2>2. P(k) = part[k] + p /\ Q(k) = share[k] + q /\ p \in Nat /\ q \in Nat
        BY <1>1, <2>1
    <2>3. p * d <= whole * q /\ whole * q <= p * d + (k - 1) * (d - 1)
        BY <1>3
    <2> HIDE DEF p, q, G
    <2>4. /\ part[k] \in Nat /\ share[k] \in Nat
          /\ part[k] * d <= whole * share[k]
          /\ whole * share[k] < part[k] * d + d
        <3>1. part[k] \in Nat /\ share[k] \in Nat /\ part[k] = (whole * share[k]) \div d
            OBVIOUS
        <3>2. whole * share[k] \in Nat
            BY <3>1, ProductIsNat
        <3> QED BY <3>1, <3>2, Quotient
    <2> DEFINE a == part[k]
               b == share[k]
    <2>5. /\ (a + p) * d = a * d + p * d
          /\ whole * (b + q) = whole * b + whole * q
          /\ k * (d - 1) = (k - 1) * (d - 1) + (d - 1)
          /\ a * d \in Nat /\ p * d \in Nat /\ whole * b \in Nat /\ whole * q \in Nat
          /\ (k - 1) * (d - 1) \in Nat
        <3>1. a \in Nat /\ b \in Nat /\ d - 1 \in Nat
            BY <2>4
        <3> HIDE DEF a, b
        <3>2. (a + p) * d = a * d + p * d /\ whole * (b + q) = whole * b + whole * q
            BY <2>2, <3>1
        <3>3. k * (d - 1) = (k - 1) * (d - 1) + (d - 1)
            BY <2>1, <3>1
        <3> QED BY <2>1, <2>2, <3>1, <3>2, <3>3, ProductIsNat
    <2>6. /\ (a + p) * d <= whole * (b + q)
          /\ whole * (b + q) <= (a + p) * d + k * (d - 1)
        <3>1. a * d <= whole * b /\ whole * b < a * d + d
            BY <2>4
        <3> HIDE DEF a, b
        <3> QED BY ONLY d \in Nat, <2>3, <2>5, <3>1
    <2>7. P(k) * d <= whole * Q(k) /\ whole * Q(k) <= P(k) * d + k * (d - 1)
        BY <2>2, <2>6
    <2> QED BY <2>1, <2>7 DEF G
<1> HIDE DEF G
<1>4. n \in G
    <2>1. 0..n \subseteq G
        BY <1>2, <1>3, InductionUpTo
    <2> QED BY <2>1
<1>5. SumFunction(part) = P(n) /\ SumFunction(share) = Q(n)
    BY DEF SumFunction, P, Q
<1> QED BY <1>4, <1>5 DEF G
==============================================================================
