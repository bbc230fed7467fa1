--------------------------- MODULE FiniteSums_proofs ---------------------------
(***************************************************************************)
(* Sums over finite sets: what SumFunction computes.  The models count     *)
(* units of an item with it, over the slots of a bag, the users and the    *)
(* items on the ground.                                                    *)
(*                                                                         *)
(* SumFunction is a recursive function over the subsets of a set that      *)
(* takes away one chosen element at a time.  Such a function exists for a  *)
(* finite set (SumExists) and gives the same sum in whatever order the     *)
(* elements are taken (SumAnyOrder); both are shown by looking at a        *)
(* smallest subset for which they would fail.  The last lemma is about the *)
(* sequences the models make of a finite set.                              *)
(***************************************************************************)
EXTENDS Integers, FiniteSets, SequencesExt, FiniteSetTheorems, TLAPS

Pick(s) == CHOOSE x \in s : TRUE

\* g gives the sum of f over every subset of S.
IsSum(g, f, S) ==
  g = [s \in SUBSET S |->
         IF s = {} THEN 0 ELSE f[Pick(s)] + g[s \ {Pick(s)}]]

\* A non-empty set of naturals has a least element.
LEMMA LeastNatural ==
  ASSUME NEW T \in SUBSET Nat, T # {}
  PROVE  \E n \in T : \A m \in T : n <= m
<1>1. IsWellFoundedOn(OpToRel(<, Nat), Nat)
  BY NatLessThanWellFounded
<1>2. PICK n \in T : \A m \in T : ~(<<m, n>> \in OpToRel(<, Nat))
  BY <1>1, WFMin
<1>3. \A m \in T : ~(m < n)
  BY <1>2 DEF OpToRel
<1> QED BY <1>3

\* A non-empty set of subsets of a finite set has a minimal member.
LEMMA MinimalSubset ==
  ASSUME NEW S, IsFiniteSet(S), NEW T \in SUBSET (SUBSET S), T # {}
  PROVE  \E s \in T : \A x \in s : s \ {x} \notin T
<1>1. \A s \in T : Cardinality(s) \in Nat /\ IsFiniteSet(s)
  BY FS_Subset, FS_CardinalityType
<1> DEFINE Sizes == {Cardinality(s) : s \in T}
<1>2. Sizes \in SUBSET Nat /\ Sizes # {}
  BY <1>1
<1>3. PICK n \in Sizes : \A m \in Sizes : n <= m
  <2> HIDE DEF Sizes
  <2> QED BY <1>2, LeastNatural
<1>4. PICK s \in T : n = Cardinality(s)
  BY <1>3
<1>5. ASSUME NEW x \in s, s \ {x} \in T PROVE FALSE
  <2>1. Cardinality(s \ {x}) = Cardinality(s) - 1
    BY <1>1, <1>5, FS_RemoveElement
  <2>2. n <= Cardinality(s \ {x})
    BY <1>3, <1>5
  <2> QED BY <1>1, <1>4, <2>1, <2>2
<1> QED BY <1>4, <1>5

\* A non-empty set has an element to pick.
LEMMA PickLemma == ASSUME NEW s, s # {} PROVE Pick(s) \in s
BY DEF Pick

\* The recursion over the subsets of a finite set has a solution.
LEMMA SumExists ==
  ASSUME NEW S, IsFiniteSet(S), NEW f \in [S -> Int]
  PROVE  \E g : IsSum(g, f, S)
<1> DEFINE Upto(g, n) ==
      /\ g \in [SUBSET S -> Int]
      /\ \A s \in SUBSET S : Cardinality(s) <= n =>
           g[s] = IF s = {} THEN 0 ELSE f[Pick(s)] + g[s \ {Pick(s)}]
<1>1. \A s \in SUBSET S : IsFiniteSet(s) /\ Cardinality(s) \in Nat
                          /\ Cardinality(s) <= Cardinality(S)
  BY FS_Subset, FS_CardinalityType
<1>2. Cardinality(S) \in Nat
  BY FS_CardinalityType
<1>3. \E g : Upto(g, 0)
  <2>1. [s \in SUBSET S |-> 0] \in [SUBSET S -> Int]
    OBVIOUS
  <2>2. \A s \in SUBSET S : Cardinality(s) <= 0 => s = {}
    BY <1>1, FS_EmptySet
  <2>3. Upto([s \in SUBSET S |-> 0], 0)
    BY <2>1, <2>2
  <2> QED BY <2>3
<1>4. ASSUME NEW n \in Nat, NEW g, Upto(g, n) PROVE \E h : Upto(h, n + 1)
  <2> DEFINE h == [s \in SUBSET S |->
                     IF Cardinality(s) <= n THEN g[s]
                     ELSE f[Pick(s)] + g[s \ {Pick(s)}]]
  <2>1. ASSUME NEW s \in SUBSET S, ~(Cardinality(s) <= n)
        PROVE  /\ s # {} /\ Pick(s) \in s /\ Pick(s) \in S
               /\ s \ {Pick(s)} \in SUBSET S
               /\ f[Pick(s)] \in Int
    <3>1. s # {}
      BY <2>1, FS_EmptySet
    <3> QED BY <3>1, PickLemma
  <2>2. h \in [SUBSET S -> Int]
    BY <1>4, <2>1
  <2>3. ASSUME NEW s \in SUBSET S, Cardinality(s) <= n + 1
        PROVE  h[s] = IF s = {} THEN 0 ELSE f[Pick(s)] + h[s \ {Pick(s)}]
    <3>1. CASE s = {}
      <4>1. Cardinality(s) <= n
        BY <3>1, FS_EmptySet
      <4> QED BY <1>4, <3>1, <4>1
    <3>2. CASE s # {}
      <4>1. Pick(s) \in s /\ s \ {Pick(s)} \in SUBSET S
        BY <3>2, PickLemma
      <4>2. Cardinality(s \ {Pick(s)}) = Cardinality(s) - 1
        BY <1>1, <4>1, FS_RemoveElement
      <4>3. Cardinality(s \ {Pick(s)}) <= n
        BY <1>1, <2>3, <4>2
      <4>4. h[s \ {Pick(s)}] = g[s \ {Pick(s)}]
        BY <4>1, <4>3
      <4>5. h[s] = f[Pick(s)] + g[s \ {Pick(s)}]
        BY <1>4, <3>2
      <4> QED BY <3>2, <4>4, <4>5
    <3> QED BY <3>1, <3>2
  <2>4. Upto(h, n + 1)
    BY <2>2, <2>3
  <2> QED BY <2>4
<1>5. ASSUME NEW n \in Nat PROVE \E g : Upto(g, n)
  <2> DEFINE T == {m \in Nat : ~\E g : Upto(g, m)}
  <2>1. ASSUME T # {} PROVE FALSE
    <3> HIDE DEF Upto
    <3>1. PICK m \in T : \A k \in T : m <= k
      BY <2>1, LeastNatural
    <3>2. m # 0
      BY <1>3
    <3>3. m - 1 \in Nat /\ m - 1 \notin T
      BY <3>1, <3>2
    <3>4. \E g : Upto(g, m - 1)
      BY <3>3
    <3>5. \E h : Upto(h, (m - 1) + 1)
      BY <1>4, <3>3, <3>4
    <3>6. (m - 1) + 1 = m
      BY <3>1
    <3> QED BY <3>5, <3>6
  <2> QED BY <2>1
<1>6. PICK g : Upto(g, Cardinality(S))
  BY <1>2, <1>5
<1>7. IsSum(g, f, S)
  BY <1>1, <1>6 DEF IsSum
<1> QED BY <1>7

\* What the recursion gives: integers, and nothing for the empty set.
LEMMA SumType ==
  ASSUME NEW S, IsFiniteSet(S), NEW f \in [S -> Int], NEW g, IsSum(g, f, S)
  PROVE  /\ g \in [SUBSET S -> Int] /\ g[{}] = 0
         /\ \A s \in SUBSET S : s # {} => g[s] = f[Pick(s)] + g[s \ {Pick(s)}]
<1>1. /\ DOMAIN g = SUBSET S /\ g = [s \in SUBSET S |-> g[s]]
      /\ \A s \in SUBSET S :
           g[s] = IF s = {} THEN 0 ELSE f[Pick(s)] + g[s \ {Pick(s)}]
  BY DEF IsSum
<1> DEFINE T == {s \in SUBSET S : g[s] \notin Int}
<1>2. ASSUME T # {} PROVE FALSE
  <2>1. PICK s \in T : \A x \in s : s \ {x} \notin T
    <3>1. T \in SUBSET (SUBSET S)
      OBVIOUS
    <3> HIDE DEF T
    <3> QED BY <1>2, <3>1, MinimalSubset
  <2>2. s \in SUBSET S /\ g[s] \notin Int
    BY <2>1
  <2>3. s # {}
    <3>1. 0 \in Int
      OBVIOUS
    <3> HIDE DEF T
    <3> QED BY <1>1, <2>2, <3>1
  <2>4. PICK x : x = Pick(s)
    OBVIOUS
  <2>5. x \in s
    BY <2>3, <2>4, PickLemma
  <2>6. g[s \ {x}] \in Int /\ f[x] \in Int
    BY <2>1, <2>5
  <2>7. g[s] = f[x] + g[s \ {x}]
    BY <1>1, <2>2, <2>3, <2>4
  <2> HIDE DEF T
  <2> QED BY <2>2, <2>6, <2>7
<1>3. \A s \in SUBSET S : g[s] \in Int
  BY <1>2
<1>4. g \in [SUBSET S -> Int]
  BY <1>1, <1>3
<1> QED BY <1>1, <1>4

\* The elements may be taken in any order.
LEMMA SumAnyOrder ==
  ASSUME NEW S, IsFiniteSet(S), NEW f \in [S -> Int], NEW g, IsSum(g, f, S),
         NEW s \in SUBSET S, NEW x \in s
  PROVE  g[s] = f[x] + g[s \ {x}]
<1>1. /\ g \in [SUBSET S -> Int]
      /\ \A r \in SUBSET S : r # {} => g[r] = f[Pick(r)] + g[r \ {Pick(r)}]
  BY SumType
<1> DEFINE T == {r \in SUBSET S : \E z \in r : g[r] # f[z] + g[r \ {z}]}
<1>2. ASSUME T # {} PROVE FALSE
  <2>1. PICK r \in T : \A z \in r : r \ {z} \notin T
    <3>1. T \in SUBSET (SUBSET S)
      OBVIOUS
    <3> HIDE DEF T
    <3> QED BY <1>2, <3>1, MinimalSubset
  <2>2. PICK z \in r : g[r] # f[z] + g[r \ {z}]
    BY <2>1
  <2>3. PICK y : y = Pick(r)
    OBVIOUS
  <2>4. y \in r /\ g[r] = f[y] + g[r \ {y}] /\ y # z
    BY <1>1, <2>1, <2>2, <2>3, PickLemma
  <2>5. /\ r \ {y} \in SUBSET S /\ r \ {y} \notin T /\ z \in r \ {y}
        /\ r \ {z} \in SUBSET S /\ r \ {z} \notin T /\ y \in r \ {z}
    BY <2>1, <2>2, <2>4
  <2>6. g[r \ {y}] = f[z] + g[(r \ {y}) \ {z}]
    BY <2>5
  <2>7. g[r \ {z}] = f[y] + g[(r \ {z}) \ {y}]
    BY <2>5
  <2>8. (r \ {y}) \ {z} = (r \ {z}) \ {y}
    OBVIOUS
  <2>9. /\ f[y] \in Int /\ f[z] \in Int /\ g[(r \ {z}) \ {y}] \in Int
    BY <1>1, <2>1, <2>2, <2>4
  <2> HIDE DEF T
  <2>10. PICK rest \in Int : rest = g[(r \ {z}) \ {y}]
    BY <2>9
  <2>11. g[r \ {y}] = f[z] + rest /\ g[r \ {z}] = f[y] + rest
    BY <2>6, <2>7, <2>8, <2>10
  <2>12. f[y] + (f[z] + rest) = f[z] + (f[y] + rest)
    BY <2>9
  <2> QED BY <2>2, <2>4, <2>11, <2>12
<1> QED BY <1>2

\* Sums of functions that agree are the same, over whatever sets they are
\* defined.
LEMMA SumsAgree ==
  ASSUME NEW S, IsFiniteSet(S), NEW f \in [S -> Int], NEW g, IsSum(g, f, S),
         NEW R, IsFiniteSet(R), NEW e \in [R -> Int], NEW h, IsSum(h, e, R),
         NEW s \in SUBSET (S \cap R), \A x \in s : f[x] = e[x]
  PROVE  g[s] = h[s]
<1>1. /\ g \in [SUBSET S -> Int] /\ g[{}] = 0
      /\ h \in [SUBSET R -> Int] /\ h[{}] = 0
  BY SumType
<1> DEFINE T == {r \in SUBSET s : g[r] # h[r]}
<1>2. ASSUME T # {} PROVE FALSE
  <2>1. PICK r \in T : \A z \in r : r \ {z} \notin T
    <3>1. T \in SUBSET (SUBSET S)
      OBVIOUS
    <3> HIDE DEF T
    <3> QED BY <1>2, <3>1, MinimalSubset
  <2>2. r # {}
    BY <1>1, <2>1
  <2>3. PICK z \in r : TRUE
    BY <2>2
  <2>4. r \in SUBSET S /\ r \in SUBSET R /\ f[z] = e[z]
    BY <2>1, <2>3
  <2>5. g[r] = f[z] + g[r \ {z}]
    BY <2>3, <2>4, SumAnyOrder
  <2>6. h[r] = e[z] + h[r \ {z}]
    BY <2>3, <2>4, SumAnyOrder
  <2>7. g[r \ {z}] = h[r \ {z}]
    BY <2>1, <2>3
  <2> QED BY <2>1, <2>4, <2>5, <2>6, <2>7
<1> QED BY <1>2

\* SumFunction of a function on a finite set is such a recursion.
LEMMA SumIs ==
  ASSUME NEW S, IsFiniteSet(S), NEW f \in [S -> Int]
  PROVE  \E g : IsSum(g, f, S) /\ SumFunction(f) = g[S]
<1>1. SumFunction(f) = (CHOOSE g : IsSum(g, f, S))[S]
  BY DEF SumFunction, SumFunctionOnSet, FoldFunctionOnSet, MapThenFoldSet, IsSum, Pick
<1>2. IsSum(CHOOSE g : IsSum(g, f, S), f, S)
  BY SumExists
<1> QED BY <1>1, <1>2

-----------------------------------------------------------------------------
\* What the models need.

\* A sum of integers is one.
LEMMA SumInt ==
  ASSUME NEW S, IsFiniteSet(S), NEW f \in [S -> Int]
  PROVE  SumFunction(f) \in Int
<1>1. PICK g : IsSum(g, f, S) /\ SumFunction(f) = g[S]
  BY SumIs
<1>2. g \in [SUBSET S -> Int] /\ S \in SUBSET S
  BY <1>1, SumType
<1> QED BY <1>1, <1>2

\* One element is set apart.
LEMMA SumSplit ==
  ASSUME NEW S, IsFiniteSet(S), NEW f \in [S -> Int], NEW x \in S,
         NEW e \in [S \ {x} -> Int], \A y \in S \ {x} : e[y] = f[y]
  PROVE  SumFunction(f) = f[x] + SumFunction(e)
<1>1. PICK g : IsSum(g, f, S) /\ SumFunction(f) = g[S]
  BY SumIs
<1>2. IsFiniteSet(S \ {x})
  BY FS_RemoveElement
<1>3. PICK h : IsSum(h, e, S \ {x}) /\ SumFunction(e) = h[S \ {x}]
  BY <1>2, SumIs
<1>4. g[S] = f[x] + g[S \ {x}]
  <2>1. PICK r \in SUBSET S : r = S
    OBVIOUS
  <2>2. x \in r
    BY <2>1
  <2>3. g[r] = f[x] + g[r \ {x}]
    BY <1>1, <2>2, SumAnyOrder
  <2> QED BY <2>1, <2>3
<1>5. g[S \ {x}] = h[S \ {x}]
  <2>1. S \ {x} \in SUBSET (S \cap (S \ {x})) /\ \A y \in S \ {x} : f[y] = e[y]
    OBVIOUS
  <2> QED BY <1>1, <1>2, <1>3, <2>1, SumsAgree
<1> QED BY <1>1, <1>3, <1>4, <1>5

\* The sum after one summand has changed.
LEMMA SumChange ==
  ASSUME NEW S, IsFiniteSet(S), NEW f \in [S -> Int], NEW e \in [S -> Int],
         NEW x \in S, \A y \in S \ {x} : e[y] = f[y]
  PROVE  SumFunction(e) = SumFunction(f) - f[x] + e[x]
<1>1. PICK d \in [S \ {x} -> Int] : \A y \in S \ {x} : d[y] = f[y]
  <2>1. [y \in S \ {x} |-> f[y]] \in [S \ {x} -> Int]
    OBVIOUS
  <2> QED BY <2>1
<1>2. SumFunction(d) \in Int
  BY FS_RemoveElement, SumInt
<1>3. SumFunction(f) = f[x] + SumFunction(d)
  BY <1>1, SumSplit
<1>4. SumFunction(e) = e[x] + SumFunction(d)
  BY <1>1, SumSplit
<1> QED BY <1>2, <1>3, <1>4

\* A sum of naturals is a natural, and no smaller than any of them.
LEMMA SumNat ==
  ASSUME NEW S, IsFiniteSet(S), NEW f \in [S -> Nat]
  PROVE  SumFunction(f) \in Nat /\ \A x \in S : f[x] <= SumFunction(f)
<1>1. f \in [S -> Int]
  OBVIOUS
<1>2. PICK g : IsSum(g, f, S) /\ SumFunction(f) = g[S]
  BY <1>1, SumIs
<1>3. g \in [SUBSET S -> Int] /\ g[{}] = 0
  BY <1>1, <1>2, SumType
<1>4. ASSUME NEW s \in SUBSET S, NEW x \in s PROVE g[s] = f[x] + g[s \ {x}]
  BY <1>1, <1>2, SumAnyOrder
<1> DEFINE T == {s \in SUBSET S : g[s] \notin Nat}
<1>5. ASSUME T # {} PROVE FALSE
  <2>1. PICK r \in T : \A z \in r : r \ {z} \notin T
    <3>1. T \in SUBSET (SUBSET S)
      OBVIOUS
    <3> HIDE DEF T
    <3> QED BY <1>5, <3>1, MinimalSubset
  <2>2. r # {}
    <3>1. g[r] \notin Nat
      BY <2>1
    <3>2. g[{}] \in Nat
      BY <1>3
    <3> HIDE DEF T
    <3> QED BY <3>1, <3>2
  <2>3. PICK z \in r : TRUE
    BY <2>2
  <2>4. g[r] = f[z] + g[r \ {z}]
    BY <1>4, <2>1, <2>3
  <2>5. f[z] \in Nat /\ g[r \ {z}] \in Nat
    BY <2>1, <2>3
  <2> QED BY <2>1, <2>4, <2>5
<1>6. \A s \in SUBSET S : g[s] \in Nat
  BY <1>5
<1>7. ASSUME NEW x \in S PROVE f[x] <= g[S]
  <2>1. g[S] = f[x] + g[S \ {x}]
    BY <1>4, <1>7
  <2>2. g[S \ {x}] \in Nat /\ f[x] \in Nat
    BY <1>6, <1>7
  <2> QED BY <2>1, <2>2
<1> QED BY <1>2, <1>6, <1>7

\* Nothing but zeros makes nothing.
LEMMA SumZero ==
  ASSUME NEW S, IsFiniteSet(S), NEW f \in [S -> Int], \A x \in S : f[x] = 0
  PROVE  SumFunction(f) = 0
<1>1. PICK g : IsSum(g, f, S) /\ SumFunction(f) = g[S]
  BY SumIs
<1>2. g \in [SUBSET S -> Int] /\ g[{}] = 0
  BY <1>1, SumType
<1> DEFINE T == {s \in SUBSET S : g[s] # 0}
<1>3. ASSUME T # {} PROVE FALSE
  <2>1. PICK r \in T : \A z \in r : r \ {z} \notin T
    <3>1. T \in SUBSET (SUBSET S)
      OBVIOUS
    <3> HIDE DEF T
    <3> QED BY <1>3, <3>1, MinimalSubset
  <2>2. r # {}
    BY <1>2, <2>1
  <2>3. PICK z \in r : TRUE
    BY <2>2
  <2>4. g[r] = f[z] + g[r \ {z}]
    BY <1>1, <2>1, <2>3, SumAnyOrder
  <2>5. f[z] = 0 /\ g[r \ {z}] = 0
    BY <2>1, <2>3
  <2> QED BY <2>1, <2>4, <2>5
<1> QED BY <1>1, <1>3

\* Sums are added summand by summand.
LEMMA SumAdd ==
  ASSUME NEW S, IsFiniteSet(S), NEW f \in [S -> Int], NEW e \in [S -> Int],
         NEW d \in [S -> Int], \A x \in S : d[x] = f[x] + e[x]
  PROVE  SumFunction(d) = SumFunction(f) + SumFunction(e)
<1>1. PICK g : IsSum(g, f, S) /\ SumFunction(f) = g[S]
  BY SumIs
<1>2. PICK h : IsSum(h, e, S) /\ SumFunction(e) = h[S]
  BY SumIs
<1>3. PICK k : IsSum(k, d, S) /\ SumFunction(d) = k[S]
  BY SumIs
<1>4. /\ g \in [SUBSET S -> Int] /\ g[{}] = 0
      /\ h \in [SUBSET S -> Int] /\ h[{}] = 0
      /\ k \in [SUBSET S -> Int] /\ k[{}] = 0
  <2>1. g \in [SUBSET S -> Int] /\ g[{}] = 0
    BY <1>1, SumType
  <2>2. h \in [SUBSET S -> Int] /\ h[{}] = 0
    BY <1>2, SumType
  <2>3. k \in [SUBSET S -> Int] /\ k[{}] = 0
    BY <1>3, SumType
  <2> QED BY <2>1, <2>2, <2>3
<1> DEFINE T == {s \in SUBSET S : k[s] # g[s] + h[s]}
<1>5. ASSUME T # {} PROVE FALSE
  <2>1. PICK r \in T : \A z \in r : r \ {z} \notin T
    <3>1. T \in SUBSET (SUBSET S)
      OBVIOUS
    <3> HIDE DEF T
    <3> QED BY <1>5, <3>1, MinimalSubset
  <2>2. r # {}
    <3>1. k[r] # g[r] + h[r]
      BY <2>1
    <3>2. k[{}] = g[{}] + h[{}]
      BY <1>4
    <3> HIDE DEF T
    <3> QED BY <3>1, <3>2
  <2>3. PICK z \in r : TRUE
    BY <2>2
  <2>4. /\ g[r] = f[z] + g[r \ {z}] /\ h[r] = e[z] + h[r \ {z}]
        /\ k[r] = d[z] + k[r \ {z}]
    <3>1. r \in SUBSET S /\ z \in r BY <2>1, <2>3
    <3> HIDE DEF T
    <3>2. g[r] = f[z] + g[r \ {z}]
      <4>1. f \in [S -> Int] /\ IsSum(g, f, S) /\ IsFiniteSet(S) BY <1>1, <1>2
      <4> QED BY ONLY <3>1, <4>1, SumAnyOrder
    <3>3. h[r] = e[z] + h[r \ {z}]
      <4>1. e \in [S -> Int] /\ IsSum(h, e, S) /\ IsFiniteSet(S) BY <1>1, <1>2
      <4> QED BY ONLY <3>1, <4>1, SumAnyOrder
    <3>4. k[r] = d[z] + k[r \ {z}]
      <4>1. d \in [S -> Int] /\ IsSum(k, d, S) /\ IsFiniteSet(S) BY <1>1, <1>3
      <4> QED BY ONLY <3>1, <4>1, SumAnyOrder
    <3> QED BY <3>2, <3>3, <3>4
  <2>5. /\ r \ {z} \in SUBSET S /\ z \in S
        /\ k[r \ {z}] = g[r \ {z}] + h[r \ {z}] /\ d[z] = f[z] + e[z]
    BY <2>1, <2>3
  <2>6. /\ g[r \ {z}] \in Int /\ h[r \ {z}] \in Int
        /\ f[z] \in Int /\ e[z] \in Int
    BY <1>4, <2>5
  <2>7. k[r] # g[r] + h[r]
    BY <2>1
  <2> HIDE DEF T
  <2> QED BY <2>4, <2>5, <2>6, <2>7
<1> QED BY <1>1, <1>2, <1>3, <1>5

\* SetToSeq has every element of a finite set, once.
LEMMA SetToSeqLemma ==
  ASSUME NEW S, IsFiniteSet(S)
  PROVE  /\ SetToSeq(S) \in Seq(S) /\ Len(SetToSeq(S)) = Cardinality(S)
         /\ \A x \in S : \E k \in DOMAIN SetToSeq(S) : SetToSeq(S)[k] = x
         /\ \A j, k \in DOMAIN SetToSeq(S) : SetToSeq(S)[j] = SetToSeq(S)[k] => j = k
<1> DEFINE n == Cardinality(S)
<1>1. n \in Nat /\ ExistsBijection(1..n, S) BY FS_CardinalityType
<1>2. \E f \in [1..n -> S] : IsInjective(f)
  BY <1>1 DEF ExistsBijection, Bijection, Injection
<1>3. PICK q : q = SetToSeq(S) OBVIOUS
<1>4. q \in [1..n -> S] /\ IsInjective(q) BY <1>2, <1>3 DEF SetToSeq
<1> HIDE DEF n
<1>5. q \in Injection(1..n, S) BY <1>4 DEF Injection
<1>6. IsFiniteSet(1..n) /\ Cardinality(1..n) = n
  BY <1>1, FS_Interval
<1>7. q \in Surjection(1..n, S) BY <1>5, <1>6, FS_Injection DEF n
<1>8. q \in Seq(S) /\ DOMAIN q = 1..n /\ Len(q) = n BY <1>1, <1>4
<1>9. \A x \in S : \E k \in DOMAIN q : q[k] = x BY <1>7, <1>8 DEF Surjection
<1>10. \A j, k \in DOMAIN q : q[j] = q[k] => j = k BY <1>4 DEF IsInjective
<1> QED BY <1>3, <1>8, <1>9, <1>10 DEF n

\* The values of a function on a finite set.
LEMMA FiniteValues ==
  ASSUME NEW S, IsFiniteSet(S), NEW f, DOMAIN f = S
  PROVE  IsFiniteSet({f[x] : x \in S})
<1> DEFINE g == [x \in S |-> f[x]]
           T == {f[x] : x \in S}
<1>1. g \in Surjection(S, T) BY DEF Surjection
<1> HIDE DEF g, T
<1>2. IsFiniteSet(T) BY <1>1, FS_Surjection
<1> QED BY <1>2 DEF T
===============================================================================
