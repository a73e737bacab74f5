----------------------------- MODULE SumLemmas -----------------------------
(***************************************************************************)
(* Sums over a finite index set: what SumFunction of the community module  *)
(* Functions returns does not depend on the order its definition picks     *)
(* elements in, so that a sum changes by what its elements change by.      *)
(* Arguments by induction, on finite sets or on numbers, are made by       *)
(* minimal counterexample.                                                 *)
(***************************************************************************)
EXTENDS Integers, FiniteSets, Functions, FiniteSetTheorems, WellFoundedInduction, TLAPS

\* Every non-empty collection of finite sets has a minimal member.
LEMMA MinimalSet ==
    ASSUME NEW I, IsFiniteSet(I), NEW T \in SUBSET SUBSET I, T # {}
    PROVE  \E s \in T : \A t \in T : t \subseteq s => t = s
<1>1. FiniteSubsetsOf(I) = SUBSET I
  BY FS_FiniteSubsetsOfFinite
<1>2. PICK s \in T : \A t \in T : ~ (<<t, s>> \in StrictSubsetOrdering(I))
  BY <1>1, FS_StrictSubsetOrderingWellFounded, WFMin
<1>3. \A t \in T : t \subseteq s => t = s
  <2>. SUFFICES ASSUME NEW t \in T, t \subseteq s, t # s
                PROVE  FALSE
    OBVIOUS
  <2>1. <<t, s>> \in (SUBSET I) \X (SUBSET I)
    OBVIOUS
  <2>2. <<t, s>> \in StrictSubsetOrdering(I)
    BY <2>1 DEF StrictSubsetOrdering
  <2>. QED  BY <2>2, <1>2
<1>. QED  BY <1>3

\* Every non-empty set of numbers has a least one.
LEMMA LeastNumber ==
    ASSUME NEW T \in SUBSET Nat, T # {}
    PROVE  \E n \in T : \A m \in T : n <= m
<1>1. PICK n \in T : \A m \in T : ~ (<<m, n>> \in OpToRel(<, Nat))
  BY NatLessThanWellFounded, WFMin
<1>2. \A m \in T : n <= m
  <2>. SUFFICES ASSUME NEW m \in T, ~ (n <= m)
                PROVE  FALSE
    OBVIOUS
  <2>1. n \in Nat /\ m \in Nat /\ m < n
    OBVIOUS
  <2>2. <<m, n>> \in OpToRel(<, Nat)
    BY <2>1 DEF OpToRel
  <2>. QED  BY <1>1, <2>2
<1>. QED  BY <1>2

-----------------------------------------------------------------------------
(* The recursion behind SumFunction.                                       *)

Pick(s) == CHOOSE x \in s : TRUE

\* g sums f over the subsets of I, one picked element at a time.
Table(g, f, I) ==
    g = [s \in SUBSET I |-> IF s = {} THEN 0 ELSE f[Pick(s)] + g[s \ {Pick(s)}]]

Iter(f, I) == CHOOSE g : Table(g, f, I)

\* SumFunction is this recursion started from the whole index set.
LEMMA SumIsIter ==
    ASSUME NEW f, NEW I
    PROVE  SumFunctionOnSet(f, I) = Iter(f, I)[I]
BY Zenon DEF SumFunctionOnSet, FoldFunctionOnSet, MapThenFoldSet, Iter, Table, Pick

\* An element is picked from the set it is picked from.
LEMMA PickIn ==
    ASSUME NEW s, s # {}
    PROVE  Pick(s) \in s
BY DEF Pick

\* What the recursion says of the empty set and of the others.
LEMMA SumsEmpty ==
    ASSUME NEW g, NEW f, NEW I, Table(g, f, I)
    PROVE  g[{}] = 0
BY DEF Table

\* A non-empty set is summed by its picked element first.
LEMMA SumsAt ==
    ASSUME NEW g, NEW f, NEW I, Table(g, f, I), NEW s \in SUBSET I, s # {}
    PROVE  g[s] = f[Pick(s)] + g[s \ {Pick(s)}]
BY DEF Table

\* The recursion determines the sums, whatever index set it started from.
LEMMA SumsUnique ==
    ASSUME NEW f, NEW I, NEW J, IsFiniteSet(I), NEW g, NEW h,
           Table(g, f, I), Table(h, f, J), NEW s \in SUBSET I, s \in SUBSET J
    PROVE  g[s] = h[s]
<1>. DEFINE T == {t \in SUBSET s : g[t] # h[t]}
<1>. SUFFICES ASSUME T # {}
              PROVE  FALSE
  OBVIOUS
<1>1. IsFiniteSet(s)
  BY FS_Subset
<1>2. PICK m \in T : \A t \in T : t \subseteq m => t = m
  <2>1. T \in SUBSET SUBSET s
    OBVIOUS
  <2>. HIDE DEF T
  <2>. QED  BY <1>1, <2>1, MinimalSet
<1>3. m \in SUBSET I /\ m \in SUBSET J
  OBVIOUS
<1>4. m # {}
  <2>1. g[{}] = h[{}]
    BY SumsEmpty
  <2>2. g[m] # h[m]
    OBVIOUS
  <2>. HIDE DEF T
  <2>. QED  BY <2>1, <2>2
<1>5. Pick(m) \in m
  BY <1>4, PickIn
<1>6. m \ {Pick(m)} \notin T
  BY <1>5, <1>2
<1>7. g[m \ {Pick(m)}] = h[m \ {Pick(m)}]
  BY <1>6
<1>. QED  BY <1>3, <1>4, <1>7, SumsAt

\* The recursion has a solution over every finite set.
LEMMA SumsExist ==
    ASSUME NEW f, NEW I, IsFiniteSet(I)
    PROVE  \E g : Table(g, f, I)
<1>. DEFINE T == {t \in SUBSET I : ~ \E g : Table(g, f, t)}
<1>. SUFFICES ASSUME T # {}
              PROVE  FALSE
  OBVIOUS
<1>1. PICK m \in T : \A t \in T : t \subseteq m => t = m
  <2>1. T \in SUBSET SUBSET I
    OBVIOUS
  <2>. HIDE DEF T
  <2>. QED  BY <2>1, MinimalSet
<1>. DEFINE H == [t \in SUBSET m |-> CHOOSE g : Table(g, f, t)]
            g == [s \in SUBSET m |-> IF s = {} THEN 0
                                     ELSE f[Pick(s)] + H[s \ {Pick(s)}][s \ {Pick(s)}]]
<1>2. \A t \in SUBSET m : t # m => Table(H[t], f, t)
  <2>. SUFFICES ASSUME NEW t \in SUBSET m, t # m
                PROVE  Table(H[t], f, t)
    OBVIOUS
  <2>1. t \in SUBSET I /\ t \notin T
    BY <1>1
  <2>2. \E h : Table(h, f, t)
    BY <2>1
  <2>3. Table(CHOOSE h : Table(h, f, t), f, t)
    BY <2>2
  <2>. QED  BY <2>3
<1>3. \A t \in SUBSET m : t # m => g[t] = H[t][t]
  <2>. SUFFICES ASSUME NEW t \in SUBSET m, t # m
                PROVE  g[t] = H[t][t]
    OBVIOUS
  <2>1. Table(H[t], f, t)
    BY <1>2
  <2>2. CASE t = {}
    <3>1. H[t][t] = 0
      BY <2>1, <2>2, SumsEmpty
    <3>. QED  BY <3>1, <2>2
  <2>3. CASE t # {}
    <3>. HIDE DEF H
    <3>0. H[t][t] = f[Pick(t)] + H[t][t \ {Pick(t)}]
      <4>1. t \in SUBSET t
        OBVIOUS
      <4>. HIDE DEF g
      <4>. QED  BY <2>1, <2>3, <4>1, SumsAt
    <3>. DEFINE r == t \ {Pick(t)}
    <3>1. Pick(t) \in t
      BY <2>3, PickIn
    <3>2. r \in SUBSET m /\ r # m /\ r \in SUBSET t
      BY <3>1
    <3>3. Table(H[r], f, r) /\ IsFiniteSet(t)
      BY <3>2, <1>2, FS_Subset
    <3>4. H[t][r] = H[r][r]
      <4>1. r \in SUBSET r
        OBVIOUS
      <4>. DEFINE a == H[t]
                  c == H[r]
      <4>2. Table(a, f, t) /\ Table(c, f, r) /\ IsFiniteSet(t)
        BY <2>1, <3>3
      <4>. HIDE DEF r, g, T, a, c
      <4>3. a[r] = c[r]
        BY <3>2, <4>1, <4>2, SumsUnique
      <4>. QED  BY <4>3 DEF a, c
    <3>5. H[t][t] = f[Pick(t)] + H[t][r]
      BY <3>0
    <3>6. g[t] = f[Pick(t)] + H[r][r]
      BY <2>3
    <3>. HIDE DEF g, r
    <3>. QED  BY <3>4, <3>5, <3>6, Zenon
  <2>. QED  BY <2>2, <2>3
<1>4. \A s \in SUBSET m : s # {} => g[s \ {Pick(s)}] = H[s \ {Pick(s)}][s \ {Pick(s)}]
  <2>. SUFFICES ASSUME NEW s \in SUBSET m, s # {}
                PROVE  g[s \ {Pick(s)}] = H[s \ {Pick(s)}][s \ {Pick(s)}]
    OBVIOUS
  <2>1. Pick(s) \in s
    BY PickIn
  <2>2. s \ {Pick(s)} \in SUBSET m /\ s \ {Pick(s)} # m
    BY <2>1
  <2>. HIDE DEF g, H
  <2>. QED  BY <2>2, <1>3
<1>5. Table(g, f, m)
  <2>. HIDE DEF H
  <2>1. g = [s \in SUBSET m |-> IF s = {} THEN 0 ELSE f[Pick(s)] + g[s \ {Pick(s)}]]
    BY <1>4
  <2>. QED  BY <2>1 DEF Table
<1>. QED  BY <1>5, <1>1

-----------------------------------------------------------------------------
(* What the sums are.                                                      *)

\* Adding an element adds its value, in whatever order elements are picked.
LEMMA SumsAdd ==
    ASSUME NEW f, NEW I, IsFiniteSet(I), \A i \in I : f[i] \in Int,
           NEW g, Table(g, f, I)
    PROVE  /\ \A s \in SUBSET I : g[s] \in Int
           /\ \A s \in SUBSET I : \A x \in s : g[s] = f[x] + g[s \ {x}]
<1>1. \A s \in SUBSET I : g[s] \in Int
  <2>. DEFINE T == {s \in SUBSET I : g[s] \notin Int}
  <2>. SUFFICES ASSUME T # {}
                PROVE  FALSE
    OBVIOUS
  <2>1. PICK m \in T : \A t \in T : t \subseteq m => t = m
    <3>1. T \in SUBSET SUBSET I
      OBVIOUS
    <3>. HIDE DEF T
    <3>. QED  BY <3>1, MinimalSet
  <2>2. m \in SUBSET I /\ g[m] \notin Int
    OBVIOUS
  <2>3. m # {}
    BY <2>2, SumsEmpty
  <2>4. Pick(m) \in m
    BY <2>3, PickIn
  <2>5. m \ {Pick(m)} \in SUBSET I /\ m \ {Pick(m)} \notin T
    BY <2>1, <2>4
  <2>6. g[m \ {Pick(m)}] \in Int /\ f[Pick(m)] \in Int
    BY <2>2, <2>4, <2>5
  <2>7. g[m] = f[Pick(m)] + g[m \ {Pick(m)}]
    <3>1. Table(g, f, I) /\ m # {}
      BY <2>3
    <3>. HIDE DEF T
    <3>. QED  BY ONLY <2>2, <3>1, SumsAt
  <2>. HIDE DEF T
  <2>. QED  BY <2>2, <2>6, <2>7
<1>2. \A s \in SUBSET I : \A x \in s : g[s] = f[x] + g[s \ {x}]
  <2>. DEFINE T == {s \in SUBSET I : \E x \in s : g[s] # f[x] + g[s \ {x}]}
  <2>. SUFFICES ASSUME T # {}
                PROVE  FALSE
    OBVIOUS
  <2>1. PICK m \in T : \A t \in T : t \subseteq m => t = m
    <3>1. T \in SUBSET SUBSET I
      OBVIOUS
    <3>. HIDE DEF T
    <3>. QED  BY <3>1, MinimalSet
  <2>2. m \in SUBSET I
    OBVIOUS
  <2>3. PICK x \in m : g[m] # f[x] + g[m \ {x}]
    OBVIOUS
  <2>. DEFINE c == Pick(m)
              r == m \ {c}
              d == m \ {x}
              e == m \ {c, x}
  <2>4. c \in m
    BY <2>3, PickIn
  <2>5. g[m] = f[c] + g[r]
    <3>1. Table(g, f, I) /\ m # {}
      BY <2>3
    <3>. HIDE DEF T
    <3>. QED  BY ONLY <2>2, <3>1, SumsAt
  <2>6. c # x
    BY <2>3, <2>5
  <2>7. x \in r /\ c \in d /\ r \ {x} = e /\ d \ {c} = e
    BY <2>3, <2>4, <2>6
  <2>8. /\ r \in SUBSET I /\ r \notin T
        /\ d \in SUBSET I /\ d \notin T
        /\ e \in SUBSET I
    BY <2>1, <2>3, <2>4
  <2>9. g[r] = f[x] + g[r \ {x}] /\ g[d] = f[c] + g[d \ {c}]
    BY <2>7, <2>8
  <2>10. /\ f[x] \in Int /\ f[c] \in Int
         /\ g[e] \in Int /\ g[r] \in Int /\ g[d] \in Int /\ g[m] \in Int
    BY <1>1, <2>2, <2>4, <2>8
  <2>11. g[r] = f[x] + g[e] /\ g[d] = f[c] + g[e]
    BY <2>7, <2>9
  <2>12. g[m] # f[x] + g[d]
    BY <2>3
  <2>. HIDE DEF T, c, r, d, e
  <2>. QED  BY <2>5, <2>10, <2>11, <2>12
<1>. QED  BY <1>1, <1>2

\* SumFunction solves the recursion.
LEMMA SumFunctionIs ==
    ASSUME NEW I, IsFiniteSet(I), NEW f \in [I -> Int]
    PROVE  \E g : Table(g, f, I) /\ SumFunction(f) = g[I]
<1>1. Table(Iter(f, I), f, I)
  <2>1. \E g : Table(g, f, I)
    BY SumsExist
  <2>. QED  BY <2>1 DEF Iter
<1>2. SumFunction(f) = SumFunctionOnSet(f, I)
  <2>1. DOMAIN f = I
    OBVIOUS
  <2>. QED  BY <2>1 DEF SumFunction
<1>. QED  BY <1>1, <1>2, SumIsIter

-----------------------------------------------------------------------------
(* The facts to cite.                                                      *)

\* A sum of integers is an integer.
LEMMA SumInt ==
    ASSUME NEW I, IsFiniteSet(I), NEW f \in [I -> Int]
    PROVE  SumFunction(f) \in Int
<1>1. PICK g : Table(g, f, I) /\ SumFunction(f) = g[I]
  BY SumFunctionIs
<1>. QED  BY <1>1, SumsAdd

\* A sum of zeros is zero.
LEMMA SumZero ==
    ASSUME NEW I, IsFiniteSet(I)
    PROVE  SumFunction([i \in I |-> 0]) = 0
<1>. DEFINE f == [i \in I |-> 0]
<1>1. f \in [I -> Int] /\ \A i \in I : f[i] = 0
  OBVIOUS
<1>. HIDE DEF f
<1>2. PICK g : Table(g, f, I) /\ SumFunction(f) = g[I]
  BY <1>1, SumFunctionIs
<1>. DEFINE T == {s \in SUBSET I : g[s] # 0}
<1>3. T = {}
  <2>. SUFFICES ASSUME T # {}
                PROVE  FALSE
    OBVIOUS
  <2>1. PICK m \in T : \A t \in T : t \subseteq m => t = m
    <3>1. T \in SUBSET SUBSET I
      OBVIOUS
    <3>. HIDE DEF T
    <3>. QED  BY <3>1, MinimalSet
  <2>2. m \in SUBSET I /\ g[m] # 0
    OBVIOUS
  <2>3. m # {}
    BY <1>2, <2>2, SumsEmpty
  <2>4. Pick(m) \in m
    BY <2>3, PickIn
  <2>5. m \ {Pick(m)} \in SUBSET I /\ m \ {Pick(m)} \notin T
    BY <2>1, <2>4
  <2>6. g[m \ {Pick(m)}] = 0 /\ f[Pick(m)] = 0
    BY <2>2, <2>4, <2>5, <1>1
  <2>7. g[m] = f[Pick(m)] + g[m \ {Pick(m)}]
    BY ONLY <1>2, <2>2, <2>3, SumsAt
  <2>. HIDE DEF T
  <2>. QED  BY <2>2, <2>6, <2>7
<1>4. I \in SUBSET I /\ I \notin T
  BY <1>3
<1>5. g[I] = 0
  BY <1>4
<1>6. SumFunction(f) = 0
  BY <1>2, <1>5
<1>. QED  BY <1>6 DEF f

\* A sum changes by what one element changes by.
LEMMA SumChanged ==
    ASSUME NEW I, IsFiniteSet(I), NEW f \in [I -> Int], NEW h \in [I -> Int],
           NEW x \in I, \A i \in I \ {x} : h[i] = f[i]
    PROVE  SumFunction(h) = SumFunction(f) + h[x] - f[x]
<1>1. PICK g : Table(g, f, I) /\ SumFunction(f) = g[I]
  BY SumFunctionIs
<1>2. PICK k : Table(k, h, I) /\ SumFunction(h) = k[I]
  BY SumFunctionIs
<1>3. (\A i \in I : f[i] \in Int) /\ (\A i \in I : h[i] \in Int)
  OBVIOUS
<1>4. /\ \A s \in SUBSET I : g[s] \in Int /\ k[s] \in Int
      /\ g[I] = f[x] + g[I \ {x}]
      /\ k[I] = h[x] + k[I \ {x}]
  <2>1. I \in SUBSET I
    OBVIOUS
  <2>2. /\ \A s \in SUBSET I : g[s] \in Int
        /\ \A s \in SUBSET I : \A y \in s : g[s] = f[y] + g[s \ {y}]
    BY <1>1, <1>3, SumsAdd
  <2>3. /\ \A s \in SUBSET I : k[s] \in Int
        /\ \A s \in SUBSET I : \A y \in s : k[s] = h[y] + k[s \ {y}]
    <3>1. Table(k, h, I) /\ \A i \in I : h[i] \in Int
      BY <1>2, <1>3
    <3>. QED  BY ONLY <3>1, IsFiniteSet(I), SumsAdd
  <2>. QED  BY <2>1, <2>2, <2>3
<1>. DEFINE T == {s \in SUBSET (I \ {x}) : g[s] # k[s]}
<1>5. T = {}
  <2>. SUFFICES ASSUME T # {}
                PROVE  FALSE
    OBVIOUS
  <2>1. PICK m \in T : \A t \in T : t \subseteq m => t = m
    <3>1. T \in SUBSET SUBSET I
      OBVIOUS
    <3>. HIDE DEF T
    <3>. QED  BY <3>1, MinimalSet
  <2>2. m \in SUBSET I /\ m \in SUBSET (I \ {x}) /\ g[m] # k[m]
    OBVIOUS
  <2>3. m # {}
    <3>1. g[{}] = 0 /\ k[{}] = 0
      BY <1>1, <1>2, SumsEmpty
    <3>. QED  BY <2>2, <3>1
  <2>4. Pick(m) \in m
    BY <2>3, PickIn
  <2>5. m \ {Pick(m)} \in SUBSET (I \ {x}) /\ m \ {Pick(m)} \notin T
    BY <2>1, <2>4
  <2>6. g[m \ {Pick(m)}] = k[m \ {Pick(m)}] /\ f[Pick(m)] = h[Pick(m)]
    BY <2>2, <2>4, <2>5
  <2>7. /\ g[m] = f[Pick(m)] + g[m \ {Pick(m)}]
        /\ k[m] = h[Pick(m)] + k[m \ {Pick(m)}]
    <3>. HIDE DEF T
    <3>1. g[m] = f[Pick(m)] + g[m \ {Pick(m)}]
      BY ONLY <1>1, <2>2, <2>3, SumsAt
    <3>2. k[m] = h[Pick(m)] + k[m \ {Pick(m)}]
      BY ONLY <1>2, <2>2, <2>3, SumsAt
    <3>. QED  BY <3>1, <3>2
  <2>. HIDE DEF T
  <2>. QED  BY <2>2, <2>6, <2>7
<1>6. g[I \ {x}] = k[I \ {x}]
  <2>1. I \ {x} \in SUBSET (I \ {x}) /\ I \ {x} \notin T
    BY <1>5
  <2>. QED  BY <2>1
<1>7. g[I \ {x}] \in Int /\ f[x] \in Int /\ h[x] \in Int
  BY <1>3, <1>4
<1>. QED  BY <1>1, <1>2, <1>4, <1>6, <1>7

\* A sum is linear in its elements.
LEMMA SumLinear ==
    ASSUME NEW I, IsFiniteSet(I), NEW f \in [I -> Int], NEW h \in [I -> Int],
           NEW k \in Int, NEW e \in [I -> Int], \A i \in I : e[i] = f[i] + k * h[i]
    PROVE  SumFunction(e) = SumFunction(f) + k * SumFunction(h)
<1>1. PICK a : Table(a, f, I) /\ SumFunction(f) = a[I]
  BY SumFunctionIs
<1>2. PICK b : Table(b, h, I) /\ SumFunction(h) = b[I]
  BY SumFunctionIs
<1>3. PICK c : Table(c, e, I) /\ SumFunction(e) = c[I]
  BY SumFunctionIs
<1>4. \A s \in SUBSET I : a[s] \in Int /\ b[s] \in Int /\ c[s] \in Int
  <2>1. \A s \in SUBSET I : a[s] \in Int
    BY <1>1, SumsAdd
  <2>2. \A s \in SUBSET I : b[s] \in Int
    BY <1>2, SumsAdd
  <2>3. \A s \in SUBSET I : c[s] \in Int
    BY <1>3, SumsAdd
  <2>. QED  BY <2>1, <2>2, <2>3
<1>. DEFINE T == {s \in SUBSET I : c[s] # a[s] + k * b[s]}
<1>5. T = {}
  <2>. SUFFICES ASSUME T # {}
                PROVE  FALSE
    OBVIOUS
  <2>1. PICK m \in T : \A t \in T : t \subseteq m => t = m
    <3>1. T \in SUBSET SUBSET I
      OBVIOUS
    <3>. HIDE DEF T
    <3>. QED  BY <3>1, MinimalSet
  <2>2. m \in SUBSET I /\ c[m] # a[m] + k * b[m]
    OBVIOUS
  <2>3. m # {}
    <3>1. a[{}] = 0 /\ b[{}] = 0 /\ c[{}] = 0
      BY <1>1, <1>2, <1>3, SumsEmpty
    <3>2. c[{}] = a[{}] + k * b[{}]
      BY <3>1
    <3>. HIDE DEF T
    <3>. QED  BY <2>2, <3>2, Zenon
  <2>. DEFINE x == Pick(m)
              r == m \ {x}
  <2>4. x \in m
    BY <2>3, PickIn
  <2>5. r \in SUBSET I /\ r \notin T
    BY <2>1, <2>4
  <2>6. c[r] = a[r] + k * b[r] /\ e[x] = f[x] + k * h[x]
    BY <2>2, <2>4, <2>5
  <2>7. /\ a[m] = f[x] + a[r]
        /\ b[m] = h[x] + b[r]
        /\ c[m] = e[x] + c[r]
    <3>. HIDE DEF T
    <3>1. a[m] = f[x] + a[r]
      <4>1. Table(a, f, I) /\ m \in SUBSET I
        BY <1>1, <2>2
      <4>. QED  BY ONLY <4>1, <2>3, SumsAt
    <3>2. b[m] = h[x] + b[r]
      <4>1. Table(b, h, I) /\ m \in SUBSET I
        BY <1>2, <2>2
      <4>. QED  BY ONLY <4>1, <2>3, SumsAt
    <3>3. c[m] = e[x] + c[r]
      <4>1. Table(c, e, I) /\ m \in SUBSET I
        BY <1>3, <2>2
      <4>. QED  BY ONLY <4>1, <2>3, SumsAt
    <3>. QED  BY <3>1, <3>2, <3>3
  <2>8. /\ a[r] \in Int /\ b[r] \in Int /\ f[x] \in Int /\ h[x] \in Int
    BY <1>4, <2>2, <2>4, <2>5
  <2>. HIDE DEF T, x, r
  <2>9. k * (h[x] + b[r]) = k * h[x] + k * b[r] /\ k * h[x] \in Int /\ k * b[r] \in Int
    BY <2>8
  <2>. QED  BY <2>2, <2>6, <2>7, <2>8, <2>9
<1>6. I \in SUBSET I /\ I \notin T
  BY <1>5
<1>. QED  BY <1>1, <1>2, <1>3, <1>6

\* A sum grows with its elements.
LEMMA SumMonotone ==
    ASSUME NEW I, IsFiniteSet(I), NEW f \in [I -> Int], NEW h \in [I -> Int],
           \A i \in I : f[i] <= h[i]
    PROVE  SumFunction(f) <= SumFunction(h)
<1>1. PICK a : Table(a, f, I) /\ SumFunction(f) = a[I]
  BY SumFunctionIs
<1>2. PICK b : Table(b, h, I) /\ SumFunction(h) = b[I]
  BY SumFunctionIs
<1>3. \A s \in SUBSET I : a[s] \in Int /\ b[s] \in Int
  <2>1. \A s \in SUBSET I : a[s] \in Int
    BY <1>1, SumsAdd
  <2>2. \A s \in SUBSET I : b[s] \in Int
    BY <1>2, SumsAdd
  <2>. QED  BY <2>1, <2>2
<1>. DEFINE T == {s \in SUBSET I : ~ (a[s] <= b[s])}
<1>4. T = {}
  <2>. SUFFICES ASSUME T # {}
                PROVE  FALSE
    OBVIOUS
  <2>1. PICK m \in T : \A t \in T : t \subseteq m => t = m
    <3>1. T \in SUBSET SUBSET I
      OBVIOUS
    <3>. HIDE DEF T
    <3>. QED  BY <3>1, MinimalSet
  <2>2. m \in SUBSET I /\ ~ (a[m] <= b[m])
    OBVIOUS
  <2>3. m # {}
    <3>1. a[{}] = 0 /\ b[{}] = 0
      BY <1>1, <1>2, SumsEmpty
    <3>. QED  BY <2>2, <3>1
  <2>. DEFINE x == Pick(m)
              r == m \ {x}
  <2>4. x \in m
    BY <2>3, PickIn
  <2>5. r \in SUBSET I /\ r \notin T
    BY <2>1, <2>4
  <2>6. a[r] <= b[r] /\ f[x] <= h[x]
    BY <2>2, <2>4, <2>5
  <2>7. a[m] = f[x] + a[r] /\ b[m] = h[x] + b[r]
    <3>. HIDE DEF T
    <3>1. a[m] = f[x] + a[r]
      <4>1. Table(a, f, I) /\ m \in SUBSET I
        BY <1>1, <2>2
      <4>. QED  BY ONLY <4>1, <2>3, SumsAt
    <3>2. b[m] = h[x] + b[r]
      <4>1. Table(b, h, I) /\ m \in SUBSET I
        BY <1>2, <2>2
      <4>. QED  BY ONLY <4>1, <2>3, SumsAt
    <3>. QED  BY <3>1, <3>2
  <2>8. a[r] \in Int /\ b[r] \in Int /\ f[x] \in Int /\ h[x] \in Int
    BY <1>3, <2>2, <2>4, <2>5
  <2>. HIDE DEF T, x, r
  <2>. QED  BY <2>2, <2>6, <2>7, <2>8
<1>5. I \in SUBSET I /\ I \notin T
  BY <1>4
<1>. QED  BY <1>1, <1>2, <1>5
=============================================================================
