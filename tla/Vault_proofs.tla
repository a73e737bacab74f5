---------------------------- MODULE Vault_proofs ----------------------------
(***************************************************************************)
(* Proofs about the vault and the lost-and-found, for every set of users   *)
(* and coins, every unit and every value of the parameters.                *)
(*                                                                         *)
(* What carries them is a stronger form of Backed, without the floor: what *)
(* the vault holds of a coin, times D, is at least its ratio times the     *)
(* total.  A deposit and a withdrawal by the user's ratios restore it by   *)
(* rounding the new ratios down, a withdrawal by the vault's ratios keeps  *)
(* it because what it takes is rounded down.                               *)
(***************************************************************************)
EXTENDS Vault, SumLemmas

-----------------------------------------------------------------------------
(* Arithmetic.                                                             *)

\* A floor division of naturals, and what it is bounded by.
LEMMA Floor ==
    ASSUME NEW x \in Nat, NEW n \in Nat \ {0}
    PROVE  /\ x \div n \in Nat
           /\ (x \div n) * n <= x
           /\ x < (x \div n) * n + n
OBVIOUS

\* A floor division is monotone.
LEMMA FloorMonotone ==
    ASSUME NEW x \in Nat, NEW y \in Nat, NEW n \in Nat \ {0}, x <= y
    PROVE  x \div n <= y \div n
<1>. DEFINE i == x \div n
            j == y \div n
<1>1. i \in Nat /\ j \in Nat /\ i * n <= x /\ y < j * n + n
  BY Floor
<1>. HIDE DEF i, j
<1>2. i * n < (j + 1) * n
  BY <1>1
<1>3. i < j + 1
  BY <1>1, <1>2
<1>. QED  BY <1>1, <1>3 DEF i, j

\* A natural that is at most a multiple has a quotient that is at most the factor.
LEMMA FloorAtMost ==
    ASSUME NEW x \in Nat, NEW k \in Nat, NEW n \in Nat \ {0}, x <= k * n
    PROVE  x \div n <= k
<1>. DEFINE i == x \div n
<1>1. i \in Nat /\ i * n <= x
  BY Floor
<1>. HIDE DEF i
<1>2. i * n < (k + 1) * n
  BY <1>1
<1>3. i < k + 1
  BY <1>1, <1>2
<1>. QED  BY <1>1, <1>3 DEF i

\* A product of naturals is one, and grows with its factors.
LEMMA Products ==
    ASSUME NEW x \in Nat, NEW y \in Nat, NEW k \in Nat
    PROVE  /\ x * k \in Nat
           /\ x <= y => x * k <= y * k
           /\ x <= y => k * x <= k * y
<1>1. x * k \in Nat
  OBVIOUS
<1>2. ASSUME x <= y  PROVE x * k <= y * k
  <2>1. PICK d \in Nat : y = x + d
    BY <1>2
  <2>2. y * k = x * k + d * k /\ d * k \in Nat
    BY <2>1
  <2>. QED  BY <1>1, <2>2
<1>3. k * x = x * k /\ k * y = y * k
  OBVIOUS
<1>. QED  BY <1>1, <1>2, <1>3

\* The elements of a sum of naturals are at most the sum.
LEMMA SumAtLeast ==
    ASSUME NEW I, IsFiniteSet(I), NEW f \in [I -> Nat], NEW x \in I
    PROVE  SumFunction(f) \in Nat /\ f[x] <= SumFunction(f)
<1>. DEFINE z == [i \in I |-> 0]
            h == [i \in I |-> IF i = x THEN f[x] ELSE 0]
<1>1. f \in [I -> Int] /\ z \in [I -> Int] /\ h \in [I -> Int]
  OBVIOUS
<1>2. h[x] = f[x] /\ z[x] = 0 /\ \A i \in I \ {x} : h[i] = z[i]
  OBVIOUS
<1>3. \A i \in I : h[i] <= f[i]
  OBVIOUS
<1>4. SumFunction(z) = 0
  BY SumZero
<1>. HIDE DEF z, h
<1>5. SumFunction(h) = SumFunction(z) + h[x] - z[x]
  BY <1>1, <1>2, SumChanged
<1>6. SumFunction(h) <= SumFunction(f)
  BY <1>1, <1>3, SumMonotone
<1>7. SumFunction(f) \in Int
  BY <1>1, SumInt
<1>8. f[x] \in Nat
  OBVIOUS
<1>. QED  BY <1>2, <1>4, <1>5, <1>6, <1>7, <1>8

\* A sum of naturals is one.
LEMMA SumNat ==
    ASSUME NEW I, IsFiniteSet(I), NEW f \in [I -> Nat]
    PROVE  SumFunction(f) \in Nat
<1>. DEFINE z == [i \in I |-> 0]
<1>1. f \in [I -> Int] /\ z \in [I -> Int] /\ \A i \in I : z[i] <= f[i]
  OBVIOUS
<1>2. SumFunction(z) = 0
  BY SumZero
<1>. HIDE DEF z
<1>3. SumFunction(z) <= SumFunction(f) /\ SumFunction(f) \in Int
  BY <1>1, SumMonotone, SumInt
<1>. QED  BY <1>2, <1>3

\* A sum whose elements are multiples of those of another.
LEMMA SumOfMultiples ==
    ASSUME NEW I, IsFiniteSet(I), NEW f \in [I -> Int], NEW k \in Int, NEW e \in [I -> Int],
           \A i \in I : e[i] = k * f[i]
    PROVE  SumFunction(e) = k * SumFunction(f)
<1>. DEFINE z == [i \in I |-> 0]
<1>1. z \in [I -> Int]
  OBVIOUS
<1>2. \A i \in I : e[i] = z[i] + k * f[i]
  OBVIOUS
<1>3. SumFunction(z) = 0 /\ SumFunction(f) \in Int
  BY SumZero, SumInt
<1>. HIDE DEF z
<1>4. SumFunction(e) = SumFunction(z) + k * SumFunction(f)
  BY ONLY <1>1, <1>2, SumLinear, IsFiniteSet(I), f \in [I -> Int], e \in [I -> Int],
          k \in Int, SMTT(30)
<1>5. k * SumFunction(f) \in Int
  BY <1>3
<1>. QED  BY <1>3, <1>4, <1>5

-----------------------------------------------------------------------------
(* Ratios.                                                                 *)

\* The part of an amount is natural, rounded down, and nothing of no ratio.
LEMMA PartIs ==
    ASSUME NEW r \in Ratio, NEW a \in Nat
    PROVE  /\ Part(r, a) \in Ratio
           /\ \A c \in Coins : Part(r, a)[c] * D <= r[c] * a
           /\ \A c \in Coins : r[c] = 0 => Part(r, a)[c] = 0
<1>. SUFFICES ASSUME NEW c \in Coins
              PROVE  /\ Part(r, a)[c] \in Nat
                     /\ Part(r, a)[c] * D <= r[c] * a
                     /\ r[c] = 0 => Part(r, a)[c] = 0
  BY DEF Part, Ratio
<1>1. Part(r, a)[c] = (r[c] * a) \div D
  BY DEF Part
<1>2. r[c] \in Nat /\ D \in Nat \ {0}
  BY UnitsPositive DEF Ratio
<1>3. r[c] * a \in Nat
  BY <1>2, Products
<1>4. /\ (r[c] * a) \div D \in Nat
      /\ ((r[c] * a) \div D) * D <= r[c] * a
  BY <1>2, <1>3, Floor
<1>5. r[c] = 0 => r[c] * a = 0
  BY <1>2
<1>6. 0 \div D = 0
  BY <1>2
<1>. QED  BY <1>1, <1>4, <1>5, <1>6

\* A larger amount has the larger part.
LEMMA PartMonotone ==
    ASSUME NEW r \in Ratio, NEW a \in Nat, NEW b \in Nat, a <= b, NEW c \in Coins
    PROVE  Part(r, a)[c] <= Part(r, b)[c]
<1>1. r[c] \in Nat /\ D \in Nat \ {0}
  BY UnitsPositive DEF Ratio
<1>2. r[c] * a \in Nat /\ r[c] * b \in Nat
  BY <1>1, Products
<1>3. r[c] * a <= r[c] * b
  BY <1>1, Products
<1>4. (r[c] * a) \div D <= (r[c] * b) \div D
  BY <1>1, <1>2, <1>3, FloorMonotone
<1>. QED  BY <1>4 DEF Part

\* Ratios of amounts are natural, rounded down, and zero for no amount.
LEMMA RatioOfIs ==
    ASSUME NEW p \in Ratio, NEW t \in Nat \ {0}
    PROVE  /\ RatioOf(p, t) \in Ratio
           /\ \A c \in Coins : RatioOf(p, t)[c] * t <= p[c] * D
           /\ \A c \in Coins : p[c] = 0 => RatioOf(p, t)[c] = 0
<1>. SUFFICES ASSUME NEW c \in Coins
              PROVE  /\ RatioOf(p, t)[c] \in Nat
                     /\ RatioOf(p, t)[c] * t <= p[c] * D
                     /\ p[c] = 0 => RatioOf(p, t)[c] = 0
  BY DEF RatioOf, Ratio
<1>1. RatioOf(p, t)[c] = (p[c] * D) \div t
  BY DEF RatioOf
<1>2. p[c] \in Nat /\ D \in Nat
  BY UnitsPositive DEF Ratio
<1>3. p[c] * D \in Nat
  BY <1>2, Products
<1>4. /\ (p[c] * D) \div t \in Nat
      /\ ((p[c] * D) \div t) * t <= p[c] * D
  BY <1>3, Floor
<1>5. p[c] = 0 => p[c] * D = 0
  BY <1>2
<1>6. 0 \div t = 0
  OBVIOUS
<1>. QED  BY <1>1, <1>4, <1>5, <1>6

\* The sum of ratios is natural.
LEMMA SumOverNat ==
    ASSUME NEW r \in Ratio
    PROVE  SumOver(r) \in Nat
BY UsersAndCoinsFinite, SumNat DEF SumOver, Ratio

\* The parts of ratios that add up to no more than one add up to no more than
\* the amount.
LEMMA PartsFit ==
    ASSUME NEW r \in Ratio, NEW a \in Nat, SumOver(r) <= D
    PROVE  SumOver(Part(r, a)) \in Nat /\ SumOver(Part(r, a)) <= a
<1>. DEFINE p == Part(r, a)
            f == [c \in Coins |-> D * p[c]]
            g == [c \in Coins |-> a * r[c]]
<1>1. p \in Ratio /\ \A c \in Coins : p[c] * D <= r[c] * a
  BY PartIs
<1>2. D \in Nat \ {0} /\ IsFiniteSet(Coins)
  BY UnitsPositive, UsersAndCoinsFinite
<1>3. p \in [Coins -> Int] /\ r \in [Coins -> Int] /\ D \in Int /\ a \in Int
  BY <1>1, <1>2 DEF Ratio
<1>. HIDE DEF p
<1>4. f \in [Coins -> Int] /\ g \in [Coins -> Int]
  BY <1>3
<1>5. /\ \A c \in Coins : f[c] = D * p[c]
      /\ \A c \in Coins : g[c] = a * r[c]
  OBVIOUS
<1>6. \A c \in Coins : f[c] <= g[c]
  BY <1>1, <1>3
<1>. HIDE DEF f, g
<1>7. SumFunction(f) = D * SumFunction(p)
  BY ONLY <1>2, <1>3, <1>4, <1>5, SumOfMultiples
<1>8. SumFunction(g) = a * SumFunction(r)
  BY ONLY <1>2, <1>3, <1>4, <1>5, SumOfMultiples
<1>9. SumFunction(f) <= SumFunction(g)
  BY <1>2, <1>4, <1>6, SumMonotone
<1>10. SumOver(p) \in Nat /\ SumOver(r) \in Nat
  BY <1>1, SumOverNat
<1>11. D * SumOver(p) <= a * SumOver(r)
  BY <1>7, <1>8, <1>9 DEF SumOver
<1>12. a * SumOver(r) <= a * D
  BY <1>2, <1>10, Products
<1>13. D * SumOver(p) <= D * a
  BY <1>2, <1>10, <1>11, <1>12
<1>14. SumOver(p) <= a
  BY <1>2, <1>10, <1>13
<1>. QED  BY <1>10, <1>14 DEF p

\* Scaling keeps ratios natural, and zero where they are.
LEMMA ScaledIs ==
    ASSUME NEW r \in Ratio
    PROVE  /\ Scaled(r) \in Ratio
           /\ \A c \in Coins : r[c] = 0 => Scaled(r)[c] = 0
<1>1. SumOver(r) \in Nat
  BY SumOverNat
<1>2. CASE SumOver(r) = D \/ SumOver(r) = 0
  <2>1. Scaled(r) = r
    BY <1>2 DEF Scaled
  <2>. QED  BY <2>1
<1>3. CASE ~ (SumOver(r) = D \/ SumOver(r) = 0)
  <2>1. Scaled(r) = RatioOf(r, SumOver(r))
    BY <1>3 DEF Scaled
  <2>2. SumOver(r) \in Nat \ {0}
    BY <1>1, <1>3
  <2>. QED  BY <2>1, <2>2, RatioOfIs
<1>. QED  BY <1>2, <1>3

\* What a payout leaves are ratios, zero where they were.
LEMMA RatiosLeftIs ==
    ASSUME NEW r \in Ratio, NEW u \in Users, userCollateral[u] \in Nat,
           NEW a \in Nat, NEW removed \in Ratio
    PROVE  /\ RatiosLeft(r, u, a, removed) \in Ratio
           /\ \A c \in Coins : r[c] = 0 => RatiosLeft(r, u, a, removed)[c] = 0
<1>. DEFINE old == Part(r, userCollateral[u])
            q   == userCollateral[u] - a
            left == [c \in Coins |->
                        IF old[c] > removed[c] /\ userCollateral[u] > a
                        THEN ((old[c] - removed[c]) * D) \div q ELSE 0]
<1>1. old \in Ratio /\ \A c \in Coins : r[c] = 0 => old[c] = 0
  BY PartIs
<1>2. RatiosLeft(r, u, a, removed) = Scaled(left)
  BY DEF RatiosLeft
<1>3. ASSUME NEW c \in Coins
      PROVE  left[c] \in Nat /\ (r[c] = 0 => left[c] = 0)
  <2>1. old[c] \in Nat /\ removed[c] \in Nat /\ D \in Nat
    BY <1>1, UnitsPositive DEF Ratio
  <2>. HIDE DEF old
  <2>2. CASE old[c] > removed[c] /\ userCollateral[u] > a
    <3>1. old[c] - removed[c] \in Nat /\ q \in Nat \ {0}
      BY <2>1, <2>2
    <3>. HIDE DEF q
    <3>2. (old[c] - removed[c]) * D \in Nat
      BY <2>1, <3>1, Products
    <3>3. ((old[c] - removed[c]) * D) \div q \in Nat
      BY <3>1, <3>2, Floor
    <3>4. left[c] = ((old[c] - removed[c]) * D) \div q
      BY <2>2
    <3>5. r[c] # 0
      BY <1>1, <2>1, <2>2
    <3>. QED  BY <3>3, <3>4, <3>5
  <2>3. CASE ~ (old[c] > removed[c] /\ userCollateral[u] > a)
    <3>1. left[c] = 0
      BY <2>3
    <3>. QED  BY <3>1
  <2>. QED  BY <2>2, <2>3
<1>4. left \in Ratio
  BY <1>3 DEF Ratio
<1>. HIDE DEF left
<1>. QED  BY <1>2, <1>3, <1>4, ScaledIs

-----------------------------------------------------------------------------
(* The invariant.                                                          *)

\* A coin that is not listed has no ratio.
UnlistedUnused ==
    \A c \in Coins \ listed :
        totalRatio[c] = 0 /\ \A u \in Users : userRatio[u][c] = 0

\* What the vault holds of a coin, in units of collateral.
Value(c) == held[c] * Unit[c]

\* Backed without the floor.
StronglyBacked ==
    \A c \in Coins : totalRatio[c] * totalCollateral <= D * Value(c)

IInv == TypeOK /\ UnlistedUnused /\ StronglyBacked /\ LostCredits

\* The types a removal relies on.
LEMMA TypesOf ==
    ASSUME TypeOK
    PROVE  /\ totalRatio \in Ratio /\ totalCollateral \in Nat /\ held \in Ratio
           /\ \A u \in Users : userRatio[u] \in Ratio /\ userCollateral[u] \in Nat
           /\ \A c \in Coins : held[c] \in Nat /\ Value(c) \in Nat /\ totalRatio[c] \in Nat
           /\ D \in Nat \ {0} /\ listed \subseteq Coins
<1>1. \A c \in Coins : held[c] \in Nat /\ Unit[c] \in Nat /\ totalRatio[c] \in Nat
  BY UnitsPositive DEF TypeOK, Ratio
<1>2. \A c \in Coins : Value(c) \in Nat
  BY <1>1, Products DEF Value
<1>. QED  BY <1>1, <1>2, UnitsPositive DEF TypeOK

\* The part of the total that a ratio stands for is there.
LEMMA TotalPartHeld ==
    ASSUME TypeOK, StronglyBacked, NEW c \in Coins
    PROVE  Part(totalRatio, totalCollateral)[c] <= Value(c)
<1>1. /\ totalRatio[c] \in Nat /\ totalCollateral \in Nat /\ Value(c) \in Nat
      /\ D \in Nat \ {0}
  BY TypesOf
<1>2. totalRatio[c] * totalCollateral \in Nat
  BY <1>1, Products
<1>3. totalRatio[c] * totalCollateral <= Value(c) * D
  BY <1>1 DEF StronglyBacked
<1>4. (totalRatio[c] * totalCollateral) \div D <= Value(c)
  BY <1>1, <1>2, <1>3, FloorAtMost
<1>. QED  BY <1>4 DEF Part

\* The ratios a removal starts from are ratios of listed coins.
LEMMA OwnRatioIs ==
    ASSUME TypeOK, UnlistedUnused, NEW u \in Users
    PROVE  /\ OwnRatio(u) \in Ratio
           /\ \A c \in Coins \ listed : OwnRatio(u)[c] = 0
BY TypesOf DEF OwnRatio, UnlistedUnused

\* A removal's result: ratios of listed coins, no more coins than the ratios of
\* the vault stand for, and ratios that are backed by what is not paid out.
RemovalFits(r, amount) ==
    /\ r.removed \in Ratio /\ r.userRatio \in Ratio /\ r.totalRatio \in Ratio
    /\ r.claim \in Nat
    /\ \A c \in Coins \ listed : r.userRatio[c] = 0 /\ r.totalRatio[c] = 0
    /\ \A c \in Coins : r.removed[c] <= Part(totalRatio, totalCollateral)[c]
    /\ \A c \in Coins :
          r.totalRatio[c] * (totalCollateral - amount) <= D * (Value(c) - r.removed[c])

\* The ratios of a coin's rest, rounded down, are backed by it.
LEMMA RestBacked ==
    ASSUME NEW part \in Nat, NEW mine \in Nat, NEW value \in Nat, NEW rest \in Nat \ {0},
           mine <= part, part <= value, NEW ratio \in Nat, NEW d \in Nat,
           ratio * rest <= (part - mine) * d
    PROVE  ratio * rest <= d * (value - mine)
<1>1. part - mine \in Nat /\ value - mine \in Nat /\ part - mine <= value - mine
  OBVIOUS
<1>2. (part - mine) * d <= (value - mine) * d
  BY <1>1, Products
<1>3. (value - mine) * d = d * (value - mine)
  BY <1>1
<1>4. ratio * rest \in Nat /\ (part - mine) * d \in Nat /\ (value - mine) * d \in Nat
  BY <1>1, Products
<1>. QED  BY <1>2, <1>3, <1>4

\* What the vault's own ratios pay out leaves them backed.
LEMMA ShareBacked ==
    ASSUME NEW ratio \in Nat, NEW total \in Nat, NEW amount \in Nat, NEW value \in Nat,
           NEW theirs \in Nat, NEW d \in Nat, ratio * total <= d * value,
           theirs * d <= ratio * amount
    PROVE  ratio * (total - amount) <= d * (value - theirs)
<1>1. ratio * (total - amount) = ratio * total - ratio * amount
  OBVIOUS
<1>2. d * (value - theirs) = d * value - d * theirs
  OBVIOUS
<1>3. /\ ratio * total \in Int /\ ratio * amount \in Int /\ d * value \in Int
      /\ theirs * d \in Int /\ theirs * d = d * theirs
  OBVIOUS
<1>. QED  BY <1>1, <1>2, <1>3

LEMMA RemovalIs ==
    ASSUME TypeOK, UnlistedUnused, StronglyBacked, NEW u \in Users, NEW snap,
           NEW amount \in Nat, amount <= totalCollateral, amount <= userCollateral[u]
    PROVE  RemovalFits(Removal(u, amount, snap), amount)
<1>. DEFINE own    == OwnRatio(u)
            mine   == Part(own, amount)
            theirs == Part(totalRatio, amount)
            whole  == Part(totalRatio, totalCollateral)
            rest   == Minus(whole, mine)
            left   == RatioOf(rest, totalCollateral - amount)
            r      == Removal(u, amount, snap)
<1>1. /\ own \in Ratio /\ totalRatio \in Ratio /\ totalCollateral \in Nat
      /\ \A c \in Coins \ listed : own[c] = 0 /\ totalRatio[c] = 0
      /\ userCollateral[u] \in Nat /\ D \in Nat \ {0}
      /\ \A c \in Coins : totalRatio[c] \in Nat /\ Value(c) \in Nat
  BY TypesOf, OwnRatioIs DEF UnlistedUnused
<1>2. /\ mine \in Ratio
      /\ \A c \in Coins : own[c] = 0 => mine[c] = 0
  BY <1>1, PartIs
<1>3. /\ theirs \in Ratio
      /\ \A c \in Coins : theirs[c] * D <= totalRatio[c] * amount
  BY <1>1, PartIs
<1>4. whole \in Ratio /\ \A c \in Coins : whole[c] <= Value(c)
  BY <1>1, PartIs, TotalPartHeld
<1>5. \A c \in Coins : theirs[c] <= whole[c]
  BY <1>1, PartMonotone
<1>6. /\ Zero \in Ratio /\ \A c \in Coins : Zero[c] = 0
  BY DEF Zero, Ratio
<1>7. userCollateral[u] - amount \in Nat
  BY <1>1
<1>8. ASSUME NEW c \in Coins
      PROVE  totalRatio[c] * (totalCollateral - amount) <= D * (Value(c) - theirs[c])
  <2>1. /\ theirs[c] \in Nat /\ theirs[c] * D <= totalRatio[c] * amount
        /\ totalRatio[c] * totalCollateral <= D * Value(c)
    BY <1>3 DEF Ratio, StronglyBacked
  <2>. HIDE DEF theirs
  <2>. QED  BY <1>1, <2>1, ShareBacked
<1>9. CASE amount = totalCollateral
  <2>1. r = [removed |-> theirs, userRatio |-> Zero, totalRatio |-> Zero, claim |-> 0]
    BY <1>9 DEF Removal
  <2>2. ASSUME NEW c \in Coins
        PROVE  Zero[c] * (totalCollateral - amount) <= D * (Value(c) - theirs[c])
    <3>1. theirs[c] \in Nat /\ whole[c] \in Nat /\ theirs[c] <= whole[c] /\ whole[c] <= Value(c)
      BY <1>3, <1>4, <1>5 DEF Ratio
    <3>. HIDE DEF theirs, whole
    <3>2. D \in Nat /\ Value(c) - theirs[c] \in Nat
      BY <1>1, <3>1
    <3>3. D * (Value(c) - theirs[c]) \in Nat
      BY <3>2, Products
    <3>4. Zero[c] * (totalCollateral - amount) = 0
      BY <1>1, <1>6
    <3>. QED  BY <3>3, <3>4
  <2>. HIDE DEF theirs
  <2>. QED  BY <1>3, <1>5, <1>6, <2>1, <2>2 DEF RemovalFits
<1>10. CASE amount # totalCollateral /\ EnoughCollateral(mine)
            /\ NewRatiosAllowed(left, snap, withdrawal)
  <2>1. r = [removed |-> mine, userRatio |-> own, totalRatio |-> left,
             claim |-> userCollateral[u] - amount]
    BY <1>10 DEF Removal
  <2>2. totalCollateral - amount \in Nat \ {0}
    BY <1>1, <1>10
  <2>3. ASSUME NEW c \in Coins
        PROVE  mine[c] \in Nat /\ whole[c] \in Nat /\ mine[c] <= whole[c]
    <3>1. mine[c] \in Nat /\ whole[c] \in Nat
      BY <1>2, <1>4 DEF Ratio
    <3>2. CASE c \in listed
      BY <1>10, <3>1, <3>2 DEF EnoughCollateral
    <3>3. CASE c \notin listed
      <4>1. mine[c] = 0
        BY <1>1, <1>2, <3>3
      <4>. QED  BY <3>1, <4>1
    <3>. QED  BY <3>1, <3>2, <3>3
  <2>4. rest \in Ratio /\ \A c \in Coins : rest[c] = whole[c] - mine[c]
    <3>1. \A c \in Coins : rest[c] = whole[c] - mine[c]
      BY DEF Minus
    <3>2. \A c \in Coins : whole[c] - mine[c] \in Nat
      <4>. TAKE c \in Coins
      <4>1. mine[c] \in Nat /\ whole[c] \in Nat /\ mine[c] <= whole[c]
        BY <2>3
      <4>. HIDE DEF mine, whole
      <4>. QED  BY <4>1
    <3>3. rest = [c \in Coins |-> whole[c] - mine[c]]
      BY DEF Minus
    <3>. HIDE DEF rest, whole, mine
    <3>. QED  BY <3>1, <3>2, <3>3 DEF Ratio
  <2>5. /\ left \in Ratio
        /\ \A c \in Coins : left[c] * (totalCollateral - amount) <= rest[c] * D
        /\ \A c \in Coins : rest[c] = 0 => left[c] = 0
    <3>. HIDE DEF rest
    <3>. QED  BY <2>2, <2>4, RatioOfIs
  <2>6. ASSUME NEW c \in Coins
        PROVE  left[c] * (totalCollateral - amount) <= D * (Value(c) - mine[c])
    <3>1. /\ mine[c] \in Nat /\ whole[c] \in Nat /\ mine[c] <= whole[c]
          /\ whole[c] <= Value(c) /\ Value(c) \in Nat /\ D \in Nat
      BY <1>1, <1>4, <2>3
    <3>2. left[c] \in Nat /\ left[c] * (totalCollateral - amount) <= (whole[c] - mine[c]) * D
      BY <2>4, <2>5 DEF Ratio
    <3>. HIDE DEF mine, whole, rest, left
    <3>. QED  BY <2>2, <3>1, <3>2, RestBacked
  <2>7. \A c \in Coins \ listed : left[c] = 0
    <3>. TAKE c \in Coins \ listed
    <3>1. mine[c] = 0 /\ whole[c] = 0
      BY <1>1, <1>2, PartIs
    <3>2. rest[c] = 0
      BY <2>4, <3>1
    <3>. QED  BY <2>5, <3>2
  <2>. HIDE DEF mine, rest, left, own
  <2>. QED  BY <1>1, <1>2, <1>7, <2>1, <2>3, <2>5, <2>6, <2>7 DEF RemovalFits
<1>11. CASE amount # totalCollateral /\ ~ (EnoughCollateral(mine)
            /\ NewRatiosAllowed(left, snap, withdrawal))
  <2>. DEFINE new == RatiosLeft(own, u, amount, theirs)
  <2>1. r = [removed |-> theirs, userRatio |-> new, totalRatio |-> totalRatio,
             claim |-> userCollateral[u] - amount]
    BY <1>11 DEF Removal
  <2>2. new \in Ratio /\ \A c \in Coins : own[c] = 0 => new[c] = 0
    <3>. HIDE DEF own, theirs
    <3>. QED  BY <1>1, <1>3, RatiosLeftIs
  <2>. HIDE DEF own, theirs, new
  <2>. QED  BY <1>1, <1>3, <1>5, <1>7, <1>8, <2>1, <2>2 DEF RemovalFits
<1>. QED  BY <1>9, <1>10, <1>11

-----------------------------------------------------------------------------
(* The invariant holds initially and every step keeps it.                  *)

\* A function on the users that changes at one of them by what is added.
LEMMA LostChanged ==
    ASSUME NEW f, NEW h, f \in [Users -> Ratio], h \in [Users -> Ratio], NEW u \in Users,
           NEW c \in Coins, \A v \in Users \ {u} : h[v] = f[v]
    PROVE  SumFunction([v \in Users |-> h[v][c]])
             = SumFunction([v \in Users |-> f[v][c]]) + h[u][c] - f[u][c]
<1>. DEFINE before == [v \in Users |-> f[v][c]]
            after  == [v \in Users |-> h[v][c]]
<1>1. before \in [Users -> Int] /\ after \in [Users -> Int]
  BY DEF Ratio
<1>2. \A v \in Users \ {u} : after[v] = before[v]
  OBVIOUS
<1>3. after[u] = h[u][c] /\ before[u] = f[u][c]
  OBVIOUS
<1>. HIDE DEF before, after
<1>4. SumFunction(after) = SumFunction(before) + after[u] - before[u]
  BY <1>1, <1>2, SumChanged, UsersAndCoinsFinite
<1>. QED  BY <1>3, <1>4 DEF before, after

\* What is paid out leaves the vault at most what is removed poorer, whatever
\* is lost in a coin's last digits, and refused coins stay booked.
LEMMA PaidOut ==
    ASSUME TypeOK, LostCredits, NEW u \in Users, NEW removed \in Ratio,
           PayOut(u, ToCoins(removed))
    PROVE  /\ held' \in Ratio /\ lost' \in [Users -> Ratio] /\ lostHeld' \in Ratio
           /\ \A c \in Coins : Value(c)' \in Nat /\ Value(c)' >= Value(c) - removed[c]
           /\ LostCredits'
<1>. DEFINE coins == ToCoins(removed)
<1>1. PICK refused \in SUBSET {c \in Refusing : coins[c] > 0} :
        LET blocked == [c \in Coins |-> IF c \in refused THEN coins[c] ELSE 0]
        IN  /\ lost' = [lost EXCEPT ![u] = Plus(lost[u], blocked)]
            /\ lostHeld' = Plus(lostHeld, blocked)
  BY DEF PayOut
<1>. DEFINE blocked == [c \in Coins |-> IF c \in refused THEN coins[c] ELSE 0]
<1>2. held \in Ratio /\ lost \in [Users -> Ratio] /\ lostHeld \in Ratio
  BY DEF TypeOK
<1>3. ASSUME NEW c \in Coins
      PROVE  /\ coins[c] \in Nat /\ coins[c] * Unit[c] <= removed[c]
             /\ Unit[c] \in Nat \ {0} /\ removed[c] \in Nat
  <2>1. removed[c] \in Nat /\ Unit[c] \in Nat \ {0}
    BY UnitsPositive DEF Ratio
  <2>2. coins[c] = removed[c] \div Unit[c]
    BY DEF ToCoins
  <2>. HIDE DEF coins
  <2>. QED  BY <2>1, <2>2, Floor
<1>4. /\ held' = Minus(held, coins) /\ \A c \in Coins : coins[c] <= held[c]
  BY DEF PayOut
<1>. HIDE DEF coins
<1>5. ASSUME NEW c \in Coins
      PROVE  /\ held'[c] \in Nat
             /\ held'[c] * Unit[c] \in Nat
             /\ held'[c] * Unit[c] >= Value(c) - removed[c]
  <2>1. held'[c] = held[c] - coins[c] /\ held[c] \in Nat /\ coins[c] <= held[c]
    BY <1>2, <1>4 DEF Minus, Ratio
  <2>2. /\ coins[c] \in Nat /\ coins[c] * Unit[c] <= removed[c]
        /\ Unit[c] \in Nat /\ removed[c] \in Nat
    BY <1>3
  <2>3. held'[c] \in Nat
    BY <2>1, <2>2
  <2>4. held'[c] * Unit[c] \in Nat
    BY <2>2, <2>3, Products
  <2>5. (held[c] - coins[c]) * Unit[c] = held[c] * Unit[c] - coins[c] * Unit[c]
    BY <2>1, <2>2
  <2>6. held[c] * Unit[c] \in Int /\ coins[c] * Unit[c] \in Int
    BY <2>1, <2>2
  <2>7. held'[c] * Unit[c] = held[c] * Unit[c] - coins[c] * Unit[c]
    BY <2>1, <2>5
  <2>8. held'[c] * Unit[c] >= held[c] * Unit[c] - removed[c]
    BY <2>2, <2>6, <2>7
  <2>. QED  BY <2>3, <2>4, <2>8 DEF Value
<1>6. held' \in Ratio
  <2>1. held' = [c \in Coins |-> held'[c]]
    BY <1>4 DEF Minus
  <2>. QED  BY <2>1, <1>5 DEF Ratio
<1>7. \A c \in Coins : Value(c)' \in Nat /\ Value(c)' >= Value(c) - removed[c]
  BY <1>5 DEF Value
<1>8. blocked \in Ratio
  BY <1>3 DEF Ratio
<1>9. /\ lost' = [lost EXCEPT ![u] = Plus(lost[u], blocked)]
      /\ lostHeld' = Plus(lostHeld, blocked)
  BY <1>1
<1>. HIDE DEF blocked
<1>10. Plus(lost[u], blocked) \in Ratio /\ lostHeld' \in Ratio
  BY <1>2, <1>8, <1>9 DEF Plus, Ratio
<1>11. lost' \in [Users -> Ratio]
  BY <1>2, <1>9, <1>10
<1>12. ASSUME NEW c \in Coins
       PROVE  lostHeld'[c] = SumFunction([v \in Users |-> lost'[v][c]])
  <2>1. lost'[u] = Plus(lost[u], blocked) /\ \A v \in Users \ {u} : lost'[v] = lost[v]
    BY <1>2, <1>9
  <2>2. SumFunction([v \in Users |-> lost'[v][c]])
          = SumFunction([v \in Users |-> lost[v][c]]) + lost'[u][c] - lost[u][c]
    BY <1>2, <1>11, <2>1, LostChanged
  <2>3. lost'[u][c] = lost[u][c] + blocked[c] /\ lostHeld'[c] = lostHeld[c] + blocked[c]
    BY <1>9, <2>1 DEF Plus
  <2>4. lost[u][c] \in Nat /\ blocked[c] \in Nat /\ lostHeld[c] \in Nat
    BY <1>2, <1>8 DEF Ratio
  <2>5. lostHeld[c] = SumFunction([v \in Users |-> lost[v][c]])
    BY DEF LostCredits
  <2>. QED  BY <2>2, <2>3, <2>4, <2>5
<1>13. LostCredits'
  BY <1>12 DEF LostCredits
<1>. QED  BY <1>6, <1>7, <1>10, <1>11, <1>13

\* A removal keeps the invariant.
LEMMA RemoveKeeps ==
    ASSUME IInv, NEW u \in Users, NEW amount \in Nat, amount <= userCollateral[u],
           Remove(u, amount)
    PROVE  IInv'
<1>1. PICK snap \in Snapshots :
        LET r == Removal(u, amount, snap)
        IN  /\ amount <= totalCollateral
            /\ userRatio' = [userRatio EXCEPT ![u] = r.userRatio]
            /\ totalRatio' = r.totalRatio
            /\ userCollateral' = [userCollateral EXCEPT ![u] = r.claim]
            /\ totalCollateral' = totalCollateral - amount
            /\ snapshot' = snap
            /\ PayOut(u, ToCoins(r.removed))
            /\ UNCHANGED <<rules, listing>>
  BY DEF Remove
<1>. DEFINE r == Removal(u, amount, snap)
<1>2. TypeOK /\ UnlistedUnused /\ StronglyBacked /\ LostCredits
  BY DEF IInv
<1>3. RemovalFits(r, amount)
  BY <1>1, <1>2, RemovalIs
<1>4. /\ userRatio' = [userRatio EXCEPT ![u] = r.userRatio]
      /\ totalRatio' = r.totalRatio
      /\ userCollateral' = [userCollateral EXCEPT ![u] = r.claim]
      /\ totalCollateral' = totalCollateral - amount /\ amount <= totalCollateral
      /\ snapshot' \in {snapshot, totalRatio}
      /\ PayOut(u, ToCoins(r.removed))
      /\ UNCHANGED <<rules, listing>>
  BY <1>1 DEF Snapshots
<1>. HIDE DEF r
<1>5. /\ r.removed \in Ratio /\ r.userRatio \in Ratio /\ r.totalRatio \in Ratio
      /\ r.claim \in Nat
      /\ \A c \in Coins \ listed : r.userRatio[c] = 0 /\ r.totalRatio[c] = 0
      /\ \A c \in Coins :
            r.totalRatio[c] * (totalCollateral - amount) <= D * (Value(c) - r.removed[c])
  BY <1>3 DEF RemovalFits
<1>6. /\ held' \in Ratio /\ lost' \in [Users -> Ratio] /\ lostHeld' \in Ratio
      /\ \A c \in Coins : Value(c)' \in Nat /\ Value(c)' >= Value(c) - r.removed[c]
      /\ LostCredits'
  BY <1>2, <1>4, <1>5, PaidOut
<1>7. TypeOK'
  <2>1. totalCollateral' \in Nat
    BY <1>2, <1>4 DEF TypeOK
  <2>2. userRatio' \in [Users -> Ratio] /\ userCollateral' \in [Users -> Nat]
    BY <1>2, <1>4, <1>5 DEF TypeOK
  <2>3. snapshot' \in Ratio /\ totalRatio' \in Ratio
    BY <1>2, <1>4, <1>5 DEF TypeOK
  <2>4. /\ listed' \subseteq Coins /\ deposit' \in Ratio /\ withdrawal' \in Ratio
        /\ prepared' \in Proposal \cup {NoHash} /\ lock' \in Nat /\ duration' \in Nat
    BY <1>2, <1>4 DEF TypeOK, rules, listing
  <2>. QED  BY <1>6, <2>1, <2>2, <2>3, <2>4 DEF TypeOK
<1>8. UnlistedUnused'
  BY <1>2, <1>4, <1>5 DEF UnlistedUnused, rules, TypeOK
<1>9. StronglyBacked'
  <2>. SUFFICES ASSUME NEW c \in Coins
                PROVE  totalRatio'[c] * totalCollateral' <= D * Value(c)'
    BY DEF StronglyBacked
  <2>1. r.totalRatio[c] * (totalCollateral - amount) <= D * (Value(c) - r.removed[c])
    BY <1>5
  <2>2. /\ Value(c) - r.removed[c] \in Int /\ Value(c)' \in Nat
        /\ Value(c) - r.removed[c] <= Value(c)' /\ D \in Nat
    BY <1>2, <1>5, <1>6, TypesOf DEF Ratio
  <2>. DEFINE w == Value(c) - r.removed[c]
              v == Value(c)'
  <2>3. w \in Int /\ v \in Nat /\ w <= v
    BY <2>2
  <2>4. D * w <= D * v
    <3>. HIDE DEF w, v
    <3>1. PICK d \in Nat : v = w + d
      BY <2>3
    <3>2. D * v = D * w + D * d /\ D * d \in Nat
      BY <2>2, <2>3, <3>1
    <3>. QED  BY <2>2, <2>3, <3>2
  <2>5. D * w \in Int /\ D * v \in Int
    <3>. HIDE DEF w, v
    <3>. QED  BY <2>2, <2>3
  <2>6. r.totalRatio[c] * (totalCollateral - amount) \in Int
    BY <1>2, <1>5, TypesOf DEF Ratio
  <2>7. totalRatio'[c] * totalCollateral' = r.totalRatio[c] * (totalCollateral - amount)
    BY <1>4
  <2>. QED  BY <2>1, <2>4, <2>5, <2>6, <2>7
<1>. QED  BY <1>6, <1>7, <1>8, <1>9 DEF IInv

\* The initial vault is empty.
LEMMA InitHolds == Init => IInv
<1>. SUFFICES ASSUME Init PROVE IInv
  OBVIOUS
<1>1. Zero \in Ratio /\ \A c \in Coins : Zero[c] = 0
  BY DEF Zero, Ratio
<1>2. D \in Nat \ {0} /\ Unit \in [Coins -> Nat \ {0}] /\ IsFiniteSet(Users)
  BY UnitsPositive, UsersAndCoinsFinite
<1>3. snapshot \in Ratio
  <2>1. snapshot = [c \in Coins |->
                      IF c \in FirstCoins THEN D \div Cardinality(FirstCoins) ELSE 0]
    BY DEF Init
  <2>2. ASSUME NEW c \in FirstCoins  PROVE D \div Cardinality(FirstCoins) \in Nat
    <3>1. IsFiniteSet(FirstCoins)
      BY CoinsListed, UsersAndCoinsFinite, FS_Subset
    <3>2. Cardinality(FirstCoins) \in Nat /\ Cardinality(FirstCoins) # 0
      BY <2>2, <3>1, FS_CardinalityType, FS_EmptySet
    <3>. QED  BY <1>2, <3>2, Floor
  <2>. QED  BY <2>1, <2>2 DEF Ratio
<1>4. deposit \in Ratio /\ withdrawal \in Ratio
  BY AmountsAreNumbers DEF Init, Ratio
<1>5. userRatio \in [Users -> Ratio] /\ lost \in [Users -> Ratio]
  BY <1>1 DEF Init
<1>6. TypeOK
  BY <1>1, <1>3, <1>4, <1>5, CoinsListed, AmountsAreNumbers DEF Init, TypeOK
<1>7. UnlistedUnused
  BY <1>1, <1>5 DEF Init, UnlistedUnused
<1>8. StronglyBacked
  <2>. SUFFICES ASSUME NEW c \in Coins
                PROVE  totalRatio[c] * totalCollateral <= D * (held[c] * Unit[c])
    BY DEF StronglyBacked, Value
  <2>1. totalRatio[c] = 0 /\ totalCollateral = 0 /\ held[c] = 0 /\ Unit[c] \in Nat
    BY <1>1, <1>2 DEF Init
  <2>. QED  BY <1>2, <2>1
<1>9. LostCredits
  <2>. SUFFICES ASSUME NEW c \in Coins
                PROVE  lostHeld[c] = SumFunction([u \in Users |-> lost[u][c]])
    BY DEF LostCredits
  <2>1. lostHeld[c] = 0 /\ \A u \in Users : lost[u][c] = 0
    BY <1>1 DEF Init
  <2>2. [u \in Users |-> lost[u][c]] = [u \in Users |-> 0]
    BY <2>1
  <2>. QED  BY <1>2, <2>1, <2>2, SumZero
<1>. QED  BY <1>6, <1>7, <1>8, <1>9 DEF IInv

\* What a deposit adds to the ratios and the claims, for one set of coins.
Added(u, coins, snap) ==
    LET added == ToCollateral(coins)
        sum   == SumOver(added)
        total == totalCollateral + sum
        claim == userCollateral[u] + sum
        new   == RatioOf(Plus(added, Part(totalRatio, totalCollateral)), total)
    IN  /\ \A c \in Coins \ listed : coins[c] = 0
        /\ sum >= MinMovement
        /\ totalCollateral # 0 => NewRatiosAllowed(new, snap, deposit)
        /\ userRatio' = [userRatio EXCEPT ![u] =
               RatioOf(Plus(added, Part(userRatio[u], userCollateral[u])), claim)]
        /\ totalRatio' = new
        /\ userCollateral' = [userCollateral EXCEPT ![u] = claim]
        /\ totalCollateral' = total
        /\ held' = Plus(held, coins)
        /\ snapshot' = snap
        /\ UNCHANGED <<rules, listing, boxes>>

\* A deposit is one of them.
LEMMA DepositIs ==
    ASSUME NEW u \in Users, AddCollateral(u)
    PROVE  \E coins \in [Coins -> Deposits], snap \in Snapshots : Added(u, coins, snap)
BY DEF AddCollateral, Added

\* The coins of a deposit in units of collateral.
LEMMA DepositedIs ==
    ASSUME NEW coins \in [Coins -> Deposits]
    PROVE  /\ coins \in Ratio /\ ToCollateral(coins) \in Ratio
           /\ \A c \in Coins : ToCollateral(coins)[c] = coins[c] * Unit[c]
           /\ SumOver(ToCollateral(coins)) \in Nat
<1>1. coins \in Ratio
  BY AmountsAreNumbers DEF Ratio
<1>2. \A c \in Coins : coins[c] * Unit[c] \in Nat
  <2>. TAKE c \in Coins
  <2>1. coins[c] \in Nat /\ Unit[c] \in Nat
    BY <1>1, UnitsPositive DEF Ratio
  <2>. QED  BY <2>1, Products
<1>3. ToCollateral(coins) \in Ratio /\ \A c \in Coins : ToCollateral(coins)[c] = coins[c] * Unit[c]
  BY <1>2 DEF ToCollateral, Ratio
<1>. QED  BY <1>1, <1>3, SumOverNat

\* A deposit keeps the invariant.
LEMMA AddKeeps ==
    ASSUME IInv, NEW u \in Users, AddCollateral(u)
    PROVE  IInv'
<1>1. PICK coins \in [Coins -> Deposits], snap \in Snapshots : Added(u, coins, snap)
  BY DepositIs
<1>. DEFINE added == ToCollateral(coins)
            sum   == SumOver(added)
            total == totalCollateral + sum
            claim == userCollateral[u] + sum
            whole == Part(totalRatio, totalCollateral)
            mine  == Part(userRatio[u], userCollateral[u])
<1>2. TypeOK /\ UnlistedUnused /\ StronglyBacked /\ LostCredits
  BY DEF IInv
<1>3. /\ totalRatio \in Ratio /\ totalCollateral \in Nat /\ held \in Ratio
      /\ userRatio[u] \in Ratio /\ userCollateral[u] \in Nat /\ D \in Nat
      /\ \A c \in Coins : Value(c) \in Nat
  BY <1>2, TypesOf
<1>4. /\ coins \in Ratio /\ added \in Ratio /\ sum \in Nat
      /\ \A c \in Coins : added[c] = coins[c] * Unit[c]
  BY DepositedIs
<1>5. /\ \A c \in Coins \ listed : coins[c] = 0
      /\ sum >= MinMovement
      /\ userRatio' = [userRatio EXCEPT ![u] = RatioOf(Plus(added, mine), claim)]
      /\ totalRatio' = RatioOf(Plus(added, whole), total)
      /\ userCollateral' = [userCollateral EXCEPT ![u] = claim]
      /\ totalCollateral' = total
      /\ held' = Plus(held, coins)
      /\ snapshot' \in {snapshot, totalRatio}
      /\ UNCHANGED <<rules, listing, boxes>>
  BY <1>1 DEF Added, Snapshots
<1>6. /\ whole \in Ratio /\ mine \in Ratio
      /\ \A c \in Coins : whole[c] <= Value(c)
      /\ \A c \in Coins \ listed : whole[c] = 0 /\ mine[c] = 0
  <2>1. whole \in Ratio /\ \A c \in Coins : totalRatio[c] = 0 => whole[c] = 0
    BY <1>3, PartIs
  <2>2. mine \in Ratio /\ \A c \in Coins : userRatio[u][c] = 0 => mine[c] = 0
    BY <1>3, PartIs
  <2>3. \A c \in Coins : whole[c] <= Value(c)
    BY <1>2, TotalPartHeld
  <2>. HIDE DEF whole, mine
  <2>. QED  BY <1>2, <2>1, <2>2, <2>3 DEF UnlistedUnused
<1>. HIDE DEF added, sum, whole, mine
<1>7. total \in Nat \ {0} /\ claim \in Nat \ {0}
  BY <1>3, <1>4, <1>5, AmountsAreNumbers
<1>8. /\ Plus(added, whole) \in Ratio /\ Plus(added, mine) \in Ratio
      /\ \A c \in Coins : Plus(added, whole)[c] = added[c] + whole[c]
      /\ \A c \in Coins : Plus(added, mine)[c] = added[c] + mine[c]
  BY <1>4, <1>6 DEF Plus, Ratio
<1>9. \A c \in Coins \ listed : Plus(added, whole)[c] = 0 /\ Plus(added, mine)[c] = 0
  <2>. TAKE c \in Coins \ listed
  <2>1. coins[c] = 0 /\ Unit[c] \in Nat
    BY <1>5, UnitsPositive
  <2>2. added[c] = 0
    BY <1>4, <2>1
  <2>. QED  BY <1>6, <1>8, <2>2
<1>. HIDE DEF total, claim
<1>10. /\ totalRatio' \in Ratio
       /\ \A c \in Coins : totalRatio'[c] * total <= Plus(added, whole)[c] * D
       /\ \A c \in Coins : Plus(added, whole)[c] = 0 => totalRatio'[c] = 0
  BY <1>5, <1>7, <1>8, RatioOfIs
<1>11. /\ RatioOf(Plus(added, mine), claim) \in Ratio
       /\ \A c \in Coins :
             Plus(added, mine)[c] = 0 => RatioOf(Plus(added, mine), claim)[c] = 0
  BY <1>7, <1>8, RatioOfIs
<1>12. held' \in Ratio /\ \A c \in Coins : held'[c] = held[c] + coins[c]
  BY <1>3, <1>4, <1>5 DEF Plus, Ratio
<1>13. \A c \in Coins : Value(c)' = Value(c) + added[c]
  <2>. TAKE c \in Coins
  <2>1. held[c] \in Nat /\ coins[c] \in Nat /\ Unit[c] \in Nat
    BY <1>3, <1>4, UnitsPositive DEF Ratio
  <2>2. (held[c] + coins[c]) * Unit[c] = held[c] * Unit[c] + coins[c] * Unit[c]
    BY <2>1
  <2>. QED  BY <1>4, <1>12, <2>2 DEF Value
<1>14. TypeOK'
  <2>1. totalCollateral' \in Nat /\ totalRatio' \in Ratio /\ snapshot' \in Ratio
    BY <1>2, <1>5, <1>7, <1>10 DEF TypeOK
  <2>2. userRatio' \in [Users -> Ratio]
    BY <1>2, <1>5, <1>11 DEF TypeOK
  <2>3. userCollateral' \in [Users -> Nat]
    BY <1>2, <1>5, <1>7 DEF TypeOK
  <2>4. /\ listed' \subseteq Coins /\ deposit' \in Ratio /\ withdrawal' \in Ratio
        /\ prepared' \in Proposal \cup {NoHash} /\ lock' \in Nat /\ duration' \in Nat
        /\ lost' \in [Users -> Ratio] /\ lostHeld' \in Ratio
    BY <1>2, <1>5 DEF TypeOK, rules, listing, boxes
  <2>. QED  BY <1>12, <2>1, <2>2, <2>3, <2>4 DEF TypeOK
<1>15. UnlistedUnused'
  <2>1. listed' = listed
    BY <1>5 DEF rules
  <2>2. \A v \in Users : v # u => userRatio'[v] = userRatio[v]
    BY <1>2, <1>5 DEF TypeOK
  <2>3. userRatio'[u] = RatioOf(Plus(added, mine), claim)
    BY <1>2, <1>5 DEF TypeOK
  <2>. QED  BY <1>2, <1>9, <1>10, <1>11, <2>1, <2>2, <2>3 DEF UnlistedUnused
<1>16. StronglyBacked'
  <2>. SUFFICES ASSUME NEW c \in Coins
                PROVE  totalRatio'[c] * totalCollateral' <= D * Value(c)'
    BY DEF StronglyBacked
  <2>1. totalRatio'[c] * total <= (added[c] + whole[c]) * D
    BY <1>8, <1>10
  <2>2. /\ added[c] \in Nat /\ whole[c] \in Nat /\ whole[c] <= Value(c)
        /\ Value(c) \in Nat /\ totalRatio'[c] \in Nat
    BY <1>3, <1>4, <1>6, <1>10 DEF Ratio
  <2>3. added[c] + whole[c] <= Value(c) + added[c]
    BY <2>2
  <2>4. (added[c] + whole[c]) * D <= (Value(c) + added[c]) * D
    BY <1>3, <2>2, <2>3, Products
  <2>5. (Value(c) + added[c]) * D = D * (Value(c) + added[c])
    BY <1>3, <2>2
  <2>6. /\ totalRatio'[c] * total \in Int /\ (added[c] + whole[c]) * D \in Int
        /\ (Value(c) + added[c]) * D \in Int
    BY <1>3, <1>7, <2>2
  <2>. QED  BY <1>5, <1>13, <2>1, <2>4, <2>5, <2>6
<1>17. LostCredits'
  BY <1>2, <1>5 DEF LostCredits, boxes
<1>. QED  BY <1>14, <1>15, <1>16, <1>17 DEF IInv

\* A retrieval takes from the box what it takes from the user's credit.
LEMMA RetrieveKeeps ==
    ASSUME IInv, NEW u \in Users, NEW c \in Coins, NEW amount \in Nat,
           RetrieveLostFunds(u, c, amount)
    PROVE  IInv'
<1>1. /\ amount <= lost[u][c]
      /\ lost' = [lost EXCEPT ![u][c] = @ - amount]
      /\ lostHeld' = [lostHeld EXCEPT ![c] = @ - amount]
      /\ UNCHANGED <<rules, ratios, claims, snapshot, listing, held>>
  BY DEF RetrieveLostFunds
<1>2. TypeOK /\ UnlistedUnused /\ StronglyBacked /\ LostCredits
  BY DEF IInv
<1>3. lost \in [Users -> Ratio] /\ lostHeld \in Ratio /\ lost[u] \in Ratio /\ lost[u][c] \in Nat
  BY <1>2 DEF TypeOK, Ratio
<1>4. lost[u][c] <= lostHeld[c] /\ lostHeld[c] \in Nat
  <2>. DEFINE f == [v \in Users |-> lost[v][c]]
  <2>1. f \in [Users -> Nat] /\ f[u] = lost[u][c]
    BY <1>3 DEF Ratio
  <2>2. lostHeld[c] = SumFunction(f)
    BY <1>2 DEF LostCredits
  <2>. HIDE DEF f
  <2>3. SumFunction(f) \in Nat /\ f[u] <= SumFunction(f)
    BY <2>1, SumAtLeast, UsersAndCoinsFinite
  <2>. QED  BY <2>1, <2>2, <2>3
<1>5. /\ lost'[u] = [lost[u] EXCEPT ![c] = @ - amount]
      /\ \A v \in Users \ {u} : lost'[v] = lost[v]
  BY <1>1, <1>3
<1>6. lost'[u] \in Ratio /\ lost'[u][c] = lost[u][c] - amount
      /\ \A b \in Coins \ {c} : lost'[u][b] = lost[u][b]
  BY <1>1, <1>3, <1>5 DEF Ratio
<1>7. lost' \in [Users -> Ratio]
  BY <1>1, <1>3, <1>5, <1>6
<1>8. lostHeld' \in Ratio /\ lostHeld'[c] = lostHeld[c] - amount
      /\ \A b \in Coins \ {c} : lostHeld'[b] = lostHeld[b]
  BY <1>1, <1>3, <1>4 DEF Ratio
<1>9. TypeOK'
  BY <1>1, <1>2, <1>7, <1>8 DEF TypeOK, rules, ratios, claims, listing
<1>10. LostCredits'
  <2>. SUFFICES ASSUME NEW b \in Coins
                PROVE  lostHeld'[b] = SumFunction([v \in Users |-> lost'[v][b]])
    BY DEF LostCredits
  <2>1. SumFunction([v \in Users |-> lost'[v][b]])
          = SumFunction([v \in Users |-> lost[v][b]]) + lost'[u][b] - lost[u][b]
    <3>1. lost \in [Users -> Ratio] /\ \A v \in Users \ {u} : lost'[v] = lost[v]
      BY <1>3, <1>5
    <3>. QED  BY ONLY <3>1, <1>7, LostChanged, u \in Users, b \in Coins
  <2>2. lostHeld[b] = SumFunction([v \in Users |-> lost[v][b]])
    BY <1>2 DEF LostCredits
  <2>3. lost[u][b] \in Nat /\ lostHeld[b] \in Nat
    BY <1>3 DEF Ratio
  <2>4. CASE b = c
    BY <1>6, <1>8, <2>1, <2>2, <2>3, <2>4
  <2>5. CASE b # c
    BY <1>6, <1>8, <2>1, <2>2, <2>3, <2>5
  <2>. QED  BY <2>4, <2>5
<1>11. UnlistedUnused' /\ StronglyBacked'
  BY <1>1, <1>2 DEF UnlistedUnused, StronglyBacked, Value, rules, ratios, claims
<1>. QED  BY <1>9, <1>10, <1>11 DEF IInv

\* The calls that only change claims, rules or the listing, and time.
LEMMA OthersKeep ==
    ASSUME IInv,
           \/ \E u \in Users, pnl \in Pnls : AddPnlToCollateral(u, pnl)
           \/ \E p \in Proposals : PrepareAddStableCoin(p) \/ AddStableCoin(p)
           \/ \E c \in Coins, t \in Thresholds : ModifyThreshold(c, t)
           \/ Tick
           \/ UNCHANGED vars
    PROVE  IInv'
<1>1. TypeOK /\ UnlistedUnused /\ StronglyBacked /\ LostCredits
  BY DEF IInv
<1>2. ASSUME NEW u \in Users, NEW pnl \in Pnls, AddPnlToCollateral(u, pnl)
      PROVE  IInv'
  <2>1. /\ userCollateral' = [userCollateral EXCEPT ![u] =
               IF userCollateral[u] + pnl >= 0 THEN userCollateral[u] + pnl ELSE 0]
        /\ UNCHANGED <<rules, ratios, totalCollateral, snapshot, listing, held, boxes>>
    BY <1>2 DEF AddPnlToCollateral
  <2>2. userCollateral[u] \in Nat /\ pnl \in Int
    BY <1>1, AmountsAreNumbers DEF TypeOK
  <2>3. userCollateral' \in [Users -> Nat]
    BY <1>1, <2>1, <2>2 DEF TypeOK
  <2>4. TypeOK'
    BY <1>1, <2>1, <2>3 DEF TypeOK, rules, ratios, listing, boxes
  <2>. QED
    BY <1>1, <2>1, <2>4
    DEF IInv, UnlistedUnused, StronglyBacked, Value, LostCredits, rules, ratios, boxes
<1>3. ASSUME NEW p \in Proposals, PrepareAddStableCoin(p)
      PROVE  IInv'
  <2>1. /\ prepared' = p /\ lock' = duration
        /\ UNCHANGED <<rules, ratios, claims, snapshot, duration, held, boxes>>
    BY <1>3 DEF PrepareAddStableCoin
  <2>2. TypeOK'
    BY <1>1, <2>1, ProposalsTyped DEF TypeOK, rules, ratios, claims, boxes
  <2>. QED
    BY <1>1, <2>1, <2>2
    DEF IInv, UnlistedUnused, StronglyBacked, Value, LostCredits, rules, ratios, claims, boxes
<1>4. ASSUME NEW p \in Proposals, AddStableCoin(p)
      PROVE  IInv'
  <2>1. /\ p.coin \in Coins \cup {NoCoin} /\ p.deposit \in Nat /\ p.withdrawal \in Nat
        /\ p.duration \in Nat
    BY ProposalsTyped, AmountsAreNumbers DEF Proposal
  <2>2. /\ listed \subseteq listed' /\ listed' \subseteq Coins
        /\ deposit' \in Ratio /\ withdrawal' \in Ratio /\ snapshot' \in Ratio
    <3>1. CASE p.coin = NoCoin
      BY <1>1, <1>4, <3>1 DEF AddStableCoin, TypeOK, rules
    <3>2. CASE p.coin # NoCoin
      <4>1. /\ listed' = listed \cup {p.coin}
            /\ deposit' = [deposit EXCEPT ![p.coin] = p.deposit]
            /\ withdrawal' = [withdrawal EXCEPT ![p.coin] = p.withdrawal]
            /\ snapshot' = [snapshot EXCEPT ![p.coin] = 0]
        BY <1>4, <3>2 DEF AddStableCoin
      <4>. QED  BY <1>1, <2>1, <3>2, <4>1 DEF TypeOK, Ratio
    <3>. QED  BY <3>1, <3>2
  <2>3. /\ duration' = p.duration
        /\ UNCHANGED <<ratios, claims, prepared, lock, held, boxes>>
    BY <1>4 DEF AddStableCoin
  <2>4. TypeOK'
    BY <1>1, <2>1, <2>2, <2>3 DEF TypeOK, ratios, claims, boxes
  <2>5. UnlistedUnused'
    BY <1>1, <2>2, <2>3 DEF UnlistedUnused, ratios
  <2>. QED
    BY <1>1, <2>3, <2>4, <2>5
    DEF IInv, StronglyBacked, Value, LostCredits, ratios, claims, boxes
<1>5. ASSUME NEW c \in Coins, NEW t \in Thresholds, ModifyThreshold(c, t)
      PROVE  IInv'
  <2>1. deposit' \in Ratio /\ withdrawal' \in Ratio
    BY <1>1, <1>5, AmountsAreNumbers DEF ModifyThreshold, TypeOK, Ratio
  <2>2. UNCHANGED <<listed, ratios, claims, snapshot, listing, held, boxes>>
    BY <1>5 DEF ModifyThreshold
  <2>3. TypeOK'
    BY <1>1, <2>1, <2>2 DEF TypeOK, ratios, claims, listing, boxes
  <2>. QED
    BY <1>1, <2>2, <2>3
    DEF IInv, UnlistedUnused, StronglyBacked, Value, LostCredits, ratios, claims, boxes
<1>6. ASSUME Tick
      PROVE  IInv'
  <2>1. /\ lock' = IF lock = 0 THEN 0 ELSE lock - 1
        /\ UNCHANGED <<rules, ratios, claims, snapshot, prepared, duration, held, boxes>>
    BY <1>6 DEF Tick
  <2>2. lock' \in Nat
    BY <1>1, <2>1 DEF TypeOK
  <2>3. TypeOK'
    BY <1>1, <2>1, <2>2 DEF TypeOK, rules, ratios, claims, boxes
  <2>. QED
    BY <1>1, <2>1, <2>3
    DEF IInv, UnlistedUnused, StronglyBacked, Value, LostCredits, rules, ratios, claims, boxes
<1>7. ASSUME UNCHANGED vars
      PROVE  IInv'
  <2>1. UNCHANGED <<rules, ratios, claims, snapshot, listing, held, boxes>>
    BY <1>7 DEF vars
  <2>2. TypeOK'
    BY <1>1, <2>1 DEF TypeOK, rules, ratios, claims, listing, boxes
  <2>. QED
    BY <1>1, <2>1, <2>2
    DEF IInv, UnlistedUnused, StronglyBacked, Value, LostCredits, rules, ratios, claims, boxes
<1>. QED  BY <1>2, <1>3, <1>4, <1>5, <1>6, <1>7

\* A removal, whoever calls it, is of at most what the user claims.
LEMMA RemovalsAre ==
    ASSUME TypeOK, NEW u \in Users,
           \/ \E amount \in 0..MaxClaim : RemoveCollateral(u, amount)
           \/ RemoveAllCollateralForUser(u)
    PROVE  \E amount \in Nat : amount <= userCollateral[u] /\ Remove(u, amount)
<1>1. userCollateral[u] \in Nat
  BY DEF TypeOK
<1>2. ASSUME NEW amount \in 0..MaxClaim, RemoveCollateral(u, amount)
      PROVE  \E n \in Nat : n <= userCollateral[u] /\ Remove(u, n)
  <2>1. amount \in Nat /\ amount <= userCollateral[u] /\ Remove(u, amount)
    BY <1>2, AmountsAreNumbers DEF RemoveCollateral
  <2>. QED  BY <2>1
<1>3. ASSUME RemoveAllCollateralForUser(u)
      PROVE  \E n \in Nat : n <= userCollateral[u] /\ Remove(u, n)
  <2>1. Remove(u, userCollateral[u]) /\ userCollateral[u] <= userCollateral[u]
    BY <1>1, <1>3 DEF RemoveAllCollateralForUser
  <2>. QED  BY <1>1, <2>1
<1>. QED  BY <1>2, <1>3

\* The kinds of steps.
Depositing == \E u \in Users : AddCollateral(u)

Removals ==
    \E u \in Users : \E amount \in Nat : amount <= userCollateral[u] /\ Remove(u, amount)

Retrievals ==
    \E u \in Users : \E c \in Coins : \E amount \in Nat : RetrieveLostFunds(u, c, amount)

Others ==
    \/ \E u \in Users, pnl \in Pnls : AddPnlToCollateral(u, pnl)
    \/ \E p \in Proposals : PrepareAddStableCoin(p) \/ AddStableCoin(p)
    \/ \E c \in Coins, t \in Thresholds : ModifyThreshold(c, t)
    \/ Tick
    \/ UNCHANGED vars

\* Every step is of one of the kinds.
LEMMA StepsAre ==
    ASSUME TypeOK, [Next]_vars
    PROVE  Depositing \/ Removals \/ Retrievals \/ Others
<1>1. ASSUME NEW u \in Users, AddCollateral(u)
      PROVE  Depositing
  BY <1>1 DEF Depositing
<1>2. ASSUME NEW u \in Users,
             \/ \E amount \in 0..MaxClaim : RemoveCollateral(u, amount)
             \/ RemoveAllCollateralForUser(u)
      PROVE  Removals
  BY <1>2, RemovalsAre DEF Removals
<1>3. ASSUME NEW u \in Users, NEW c \in Coins, NEW amount \in 1..lost[u][c],
             RetrieveLostFunds(u, c, amount)
      PROVE  Retrievals
  <2>1. lost[u][c] \in Nat
    BY DEF TypeOK, Ratio
  <2>2. amount \in Nat
    BY <2>1
  <2>. QED  BY <1>3, <2>2 DEF Retrievals
<1>4. ASSUME NEW u \in Users, \E pnl \in Pnls : AddPnlToCollateral(u, pnl)
      PROVE  Others
  BY <1>4 DEF Others
<1>5. ASSUME \/ \E p \in Proposals : PrepareAddStableCoin(p) \/ AddStableCoin(p)
             \/ \E c \in Coins, t \in Thresholds : ModifyThreshold(c, t)
             \/ Tick
             \/ UNCHANGED vars
      PROVE  Others
  BY <1>5 DEF Others
<1>. QED  BY <1>1, <1>2, <1>3, <1>4, <1>5 DEF Next

\* Every step keeps the invariant.
LEMMA NextKeeps == IInv /\ [Next]_vars => IInv'
<1>. SUFFICES ASSUME IInv, [Next]_vars PROVE IInv'
  OBVIOUS
<1>1. Depositing \/ Removals \/ Retrievals \/ Others
  BY StepsAre DEF IInv
<1>2. CASE Depositing
  BY <1>2, AddKeeps DEF Depositing
<1>3. CASE Removals
  BY <1>3, RemoveKeeps DEF Removals
<1>4. CASE Retrievals
  BY <1>4, RetrieveKeeps DEF Retrievals
<1>5. CASE Others
  BY <1>5, OthersKeep DEF Others
<1>. QED  BY <1>1, <1>2, <1>3, <1>4, <1>5

-----------------------------------------------------------------------------
(* Theorems.                                                               *)

\* The invariant is one: the vault stays strongly backed, its ratios are of
\* listed coins only and the lost-and-found's books match what it holds.
THEOREM Invariance == Spec => []IInv
BY InitHolds, NextKeeps, PTL DEF Spec

\* Every variable of the vault and of the lost-and-found keeps its type: no
\* balance, ratio or credit is ever taken below zero (Vault.sol:236-365,
\* LostAndFound.sol:25-66).
THEOREM TypeCorrect == Spec => []TypeOK
<1>1. IInv => TypeOK
  BY DEF IInv
<1>. QED  BY <1>1, Invariance, PTL

\* For all coins and parameters the ratios of the vault never promise a coin
\* that is not there (Vault.sol:154-184 against 310-330 and 340-365).
THEOREM AlwaysBacked == Spec => []Backed
<1>1. IInv => Backed
  BY TotalPartHeld DEF IInv, Backed, Value
<1>. QED  BY <1>1, Invariance, PTL

\* For all coins and parameters no withdrawal fails for want of a coin
\* (Vault.sol:236-282).
THEOREM PayoutsAlwaysCovered == Spec => []PayoutsCovered
<1>1. IInv => PayoutsCovered
  <2>. SUFFICES ASSUME IInv, NEW u \in Users, NEW snap \in Snapshots,
                       NEW amount \in 0..totalCollateral, amount <= userCollateral[u],
                       NEW c \in Coins
                PROVE  ToCoins(Removal(u, amount, snap).removed)[c] <= held[c]
    BY DEF PayoutsCovered
  <2>. DEFINE removed == Removal(u, amount, snap).removed
  <2>1. TypeOK /\ UnlistedUnused /\ StronglyBacked
    BY DEF IInv
  <2>2. amount \in Nat /\ amount <= totalCollateral
    BY <2>1, TypesOf
  <2>3. RemovalFits(Removal(u, amount, snap), amount)
    BY <2>1, <2>2, RemovalIs
  <2>4. removed \in Ratio /\ removed[c] <= Part(totalRatio, totalCollateral)[c]
    BY <2>3 DEF RemovalFits
  <2>. HIDE DEF removed
  <2>5. removed[c] \in Nat /\ Unit[c] \in Nat \ {0} /\ held[c] \in Nat
    BY <2>1, <2>4, UnitsPositive DEF Ratio, TypeOK
  <2>6. /\ Part(totalRatio, totalCollateral)[c] \in Nat
        /\ Part(totalRatio, totalCollateral)[c] <= held[c] * Unit[c]
    BY <2>1, TypesOf, PartIs, TotalPartHeld DEF Ratio, Value
  <2>7. removed[c] <= held[c] * Unit[c]
    BY <2>4, <2>5, <2>6
  <2>8. removed[c] \div Unit[c] <= held[c]
    BY <2>5, <2>7, FloorAtMost
  <2>. QED  BY <2>8 DEF ToCoins, removed
<1>. QED  BY <1>1, Invariance, PTL

\* For all users and coins the lost-and-found holds exactly what it owes
\* (Vault.sol:288-301 with LostAndFound.sol:25-47).
THEOREM LostAlwaysCredited == Spec => []LostCredits
<1>1. IInv => LostCredits
  BY DEF IInv
<1>. QED  BY <1>1, Invariance, PTL

-----------------------------------------------------------------------------
(* A call leaves the vault short only if a user's ratios exceed one.       *)

\* What the coins of the vault are worth, coin by coin.
Worth == [c \in Coins |-> Value(c)]

\* The vault is covered when the worths add up to its total.
LEMMA CoveredIs == Covered <=> SumFunction(Worth) >= totalCollateral
<1>1. ToCollateral(held) = Worth
  BY DEF ToCollateral, Worth, Value
<1>. QED  BY <1>1 DEF Covered, SumOver

\* A removal of parts that add up to no more than the amount leaves cover.
LEMMA FittingPayout ==
    ASSUME NEW f, NEW h, NEW removed, f \in [Coins -> Nat], h \in [Coins -> Nat],
           removed \in Ratio, \A c \in Coins : h[c] >= f[c] - removed[c],
           NEW total \in Nat, NEW amount \in Nat,
           SumFunction(f) >= total, SumOver(removed) <= amount
    PROVE  SumFunction(h) >= total - amount
<1>. DEFINE e == [c \in Coins |-> f[c] + (0 - 1) * removed[c]]
<1>1. f \in [Coins -> Int] /\ h \in [Coins -> Int] /\ removed \in [Coins -> Int]
  BY DEF Ratio
<1>2. e \in [Coins -> Int]
  BY <1>1
<1>3. \A c \in Coins : e[c] = f[c] + (0 - 1) * removed[c]
  OBVIOUS
<1>4. \A c \in Coins : e[c] <= h[c]
  BY <1>1
<1>5. IsFiniteSet(Coins) /\ 0 - 1 \in Int
  BY UsersAndCoinsFinite
<1>. HIDE DEF e
<1>6. SumFunction(e) = SumFunction(f) + (0 - 1) * SumFunction(removed)
  BY ONLY <1>1, <1>2, <1>3, <1>5, SumLinear, SMTT(30)
<1>7. SumFunction(e) <= SumFunction(h)
  BY <1>1, <1>2, <1>4, <1>5, SumMonotone
<1>8. SumFunction(f) \in Int /\ SumFunction(h) \in Int /\ SumFunction(removed) \in Int
  BY <1>1, <1>5, SumInt
<1>. QED  BY <1>6, <1>7, <1>8 DEF SumOver

\* Worths that are at least ratios of the total, which add up to more than one,
\* cover it.
LEMMA ExcessCovers ==
    ASSUME NEW h, h \in [Coins -> Nat], NEW ratio \in Ratio, SumOver(ratio) > D,
           NEW rest \in Nat, \A c \in Coins : ratio[c] * rest <= D * h[c]
    PROVE  SumFunction(h) >= rest
<1>. DEFINE f == [c \in Coins |-> rest * ratio[c]]
            g == [c \in Coins |-> D * h[c]]
<1>1. /\ ratio \in [Coins -> Int] /\ h \in [Coins -> Int]
      /\ rest \in Int /\ D \in Int /\ D \in Nat \ {0}
  BY UnitsPositive DEF Ratio
<1>2. f \in [Coins -> Int] /\ g \in [Coins -> Int]
  BY <1>1
<1>3. /\ \A c \in Coins : f[c] = rest * ratio[c]
      /\ \A c \in Coins : g[c] = D * h[c]
  OBVIOUS
<1>4. \A c \in Coins : f[c] <= g[c]
  BY <1>1
<1>5. IsFiniteSet(Coins)
  BY UsersAndCoinsFinite
<1>. HIDE DEF f, g
<1>6. SumFunction(f) = rest * SumFunction(ratio)
  BY ONLY <1>1, <1>2, <1>3, <1>5, SumOfMultiples
<1>7. SumFunction(g) = D * SumFunction(h)
  BY ONLY <1>1, <1>2, <1>3, <1>5, SumOfMultiples
<1>8. SumFunction(f) <= SumFunction(g)
  BY <1>2, <1>4, <1>5, SumMonotone
<1>9. SumOver(ratio) \in Nat /\ SumFunction(h) \in Int
  BY <1>1, <1>5, SumOverNat, SumInt
<1>10. rest * D <= rest * SumOver(ratio)
  BY <1>1, <1>9, Products
<1>11. rest * SumOver(ratio) <= D * SumFunction(h)
  BY <1>6, <1>7, <1>8 DEF SumOver
<1>12. D * rest <= D * SumFunction(h)
  BY <1>1, <1>9, <1>10, <1>11
<1>13. rest <= SumFunction(h)
  BY <1>1, <1>9, <1>12
<1>. QED  BY <1>9, <1>13

\* What a removal takes is a fitting payout, unless the ratios it pays by
\* exceed one; these are then the vault's and leave enough.
LEMMA RemovedFits ==
    ASSUME IInv, NEW u \in Users, RatioFits(u), NEW snap,
           NEW amount \in Nat, amount < totalCollateral, amount <= userCollateral[u]
    PROVE  \/ SumOver(Removal(u, amount, snap).removed) <= amount
           \/ /\ SumOver(totalRatio) > D
              /\ Removal(u, amount, snap).removed = Part(totalRatio, amount)
<1>. DEFINE own    == OwnRatio(u)
            mine   == Part(own, amount)
            theirs == Part(totalRatio, amount)
            removed == Removal(u, amount, snap).removed
<1>1. TypeOK /\ UnlistedUnused
  BY DEF IInv
<1>2. /\ totalRatio \in Ratio /\ own \in Ratio /\ totalCollateral \in Nat
      /\ D \in Nat /\ SumOver(totalRatio) \in Nat
  BY <1>1, TypesOf, OwnRatioIs, SumOverNat
<1>3. removed = mine \/ removed = theirs
  BY <1>2 DEF Removal
<1>4. SumOver(own) <= D \/ own = totalRatio
  BY DEF OwnRatio, RatioFits
<1>5. SumOver(own) <= D => SumOver(mine) <= amount
  BY <1>2, PartsFit
<1>6. SumOver(totalRatio) <= D => SumOver(theirs) <= amount
  BY <1>2, PartsFit
<1>7. own = totalRatio => mine = theirs
  OBVIOUS
<1>8. SumOver(totalRatio) <= D \/ SumOver(totalRatio) > D
  BY <1>2
<1>. HIDE DEF own, mine, theirs
<1>. QED  BY <1>3, <1>4, <1>5, <1>6, <1>7, <1>8 DEF theirs

\* A removal by a user whose ratios add up to no more than one leaves cover.
LEMMA RemovalCovered ==
    ASSUME IInv, NEW u \in Users, NEW amount \in Nat, amount <= userCollateral[u],
           Remove(u, amount), Covered, RatioFits(u)
    PROVE  Covered'
<1>1. PICK snap \in Snapshots :
        LET r == Removal(u, amount, snap)
        IN  /\ amount <= totalCollateral
            /\ totalCollateral' = totalCollateral - amount
            /\ PayOut(u, ToCoins(r.removed))
  BY DEF Remove
<1>. DEFINE removed == Removal(u, amount, snap).removed
            h == Worth'
<1>2. TypeOK /\ UnlistedUnused /\ StronglyBacked /\ LostCredits
  BY DEF IInv
<1>3. RemovalFits(Removal(u, amount, snap), amount)
  BY <1>1, <1>2, RemovalIs
<1>4. removed \in Ratio
  BY <1>3 DEF RemovalFits
<1>5. \A c \in Coins : Value(c)' \in Nat /\ Value(c)' >= Value(c) - removed[c]
  <2>1. PayOut(u, ToCoins(removed))
    BY <1>1
  <2>. HIDE DEF removed
  <2>. QED  BY <1>2, <1>4, <2>1, PaidOut
<1>6. /\ Worth \in [Coins -> Nat] /\ totalCollateral \in Nat /\ totalRatio \in Ratio
      /\ \A c \in Coins : Worth[c] = Value(c)
      /\ D \in Nat
  BY <1>2, TypesOf DEF Worth
<1>7. h \in [Coins -> Nat] /\ \A c \in Coins : h[c] = Value(c)'
  BY <1>5 DEF Worth
<1>8. SumFunction(Worth) >= totalCollateral
  BY CoveredIs
<1>. HIDE DEF h, removed
<1>9. SumFunction(h) >= totalCollateral - amount
  <2>1. CASE amount = totalCollateral
    <3>1. SumFunction(h) \in Nat
      BY <1>7, UsersAndCoinsFinite, SumNat
    <3>. QED  BY <1>6, <2>1, <3>1
  <2>2. CASE SumOver(removed) <= amount
    <3>1. \A c \in Coins : h[c] >= Worth[c] - removed[c]
      BY <1>5, <1>6, <1>7
    <3>. QED  BY <1>4, <1>6, <1>7, <1>8, <2>2, <3>1, FittingPayout
  <2>3. CASE SumOver(totalRatio) > D /\ removed = Part(totalRatio, amount)
    <3>1. ASSUME NEW c \in Coins
          PROVE  totalRatio[c] * (totalCollateral - amount) <= D * h[c]
      <4>1. /\ totalRatio[c] \in Nat /\ Value(c) \in Nat /\ removed[c] \in Nat
            /\ h[c] \in Nat /\ h[c] >= Value(c) - removed[c]
        BY <1>2, <1>4, <1>5, <1>7, TypesOf DEF Ratio
      <4>2. totalRatio[c] * totalCollateral <= D * Value(c)
        BY <1>2 DEF StronglyBacked
      <4>3. removed[c] * D <= totalRatio[c] * amount
        BY <1>6, <2>3, PartIs
      <4>4. totalRatio[c] * (totalCollateral - amount) <= D * (Value(c) - removed[c])
        BY <1>6, <4>1, <4>2, <4>3, ShareBacked
      <4>. DEFINE w == Value(c) - removed[c]
      <4>5. w \in Int /\ w <= h[c]
        BY <4>1
      <4>. HIDE DEF w
      <4>6. PICK d \in Nat : h[c] = w + d
        BY <4>1, <4>5
      <4>7. D * h[c] = D * w + D * d /\ D * d \in Nat /\ D * w \in Int
        BY <1>6, <4>5, <4>6
      <4>8. totalRatio[c] * (totalCollateral - amount) <= D * w
        BY <4>4 DEF w
      <4>9. totalRatio[c] * (totalCollateral - amount) \in Int
        BY <1>6, <4>1
      <4>. QED  BY <4>7, <4>8, <4>9
    <3>2. totalCollateral - amount \in Nat
      BY <1>1, <1>6
    <3>. QED  BY <1>6, <1>7, <2>3, <3>1, <3>2, ExcessCovers
  <2>4. amount = totalCollateral \/ amount < totalCollateral
    BY <1>1, <1>6
  <2>5. amount < totalCollateral =>
          \/ SumOver(removed) <= amount
          \/ SumOver(totalRatio) > D /\ removed = Part(totalRatio, amount)
    BY RemovedFits DEF removed
  <2>. QED  BY <2>1, <2>2, <2>3, <2>4, <2>5
<1>10. SumFunction(Worth)' = SumFunction(h)
  BY DEF h
<1>11. Covered' <=> (SumFunction(Worth) >= totalCollateral)'
  BY CoveredIs, PTL
<1>. QED  BY <1>1, <1>9, <1>10, <1>11

\* A deposit adds what it brings to the worth and to the total.
LEMMA DepositCovered ==
    ASSUME IInv, NEW u \in Users, AddCollateral(u), Covered
    PROVE  Covered'
<1>1. PICK coins \in [Coins -> Deposits], snap \in Snapshots : Added(u, coins, snap)
  BY DepositIs
<1>. DEFINE added == ToCollateral(coins)
            h == Worth'
<1>2. /\ totalCollateral' = totalCollateral + SumOver(added)
      /\ held' = Plus(held, coins)
  BY <1>1 DEF Added
<1>3. /\ added \in Ratio /\ coins \in Ratio
      /\ \A c \in Coins : added[c] = coins[c] * Unit[c]
      /\ SumOver(added) \in Nat
  BY DepositedIs
<1>4. /\ Worth \in [Coins -> Int] /\ totalCollateral \in Nat
      /\ \A c \in Coins : held[c] \in Nat /\ Worth[c] = held[c] * Unit[c]
  BY TypesOf DEF Worth, IInv, Value
<1>. HIDE DEF added
<1>5. \A c \in Coins : Value(c)' = Worth[c] + 1 * added[c]
  <2>. TAKE c \in Coins
  <2>1. coins[c] \in Nat /\ Unit[c] \in Nat /\ held[c] \in Nat
    BY <1>3, <1>4, UnitsPositive DEF Ratio
  <2>2. (held[c] + coins[c]) * Unit[c] = held[c] * Unit[c] + coins[c] * Unit[c]
    BY <2>1
  <2>3. Value(c)' = (held[c] + coins[c]) * Unit[c]
    BY <1>2 DEF Value, Plus
  <2>4. coins[c] * Unit[c] \in Int
    BY <2>1
  <2>. QED  BY <1>3, <1>4, <2>2, <2>3, <2>4
<1>6. added \in [Coins -> Int] /\ IsFiniteSet(Coins) /\ 1 \in Int
  BY <1>3, UsersAndCoinsFinite DEF Ratio
<1>7. h = [c \in Coins |-> Value(c)']
  BY DEF Worth
<1>8. h \in [Coins -> Int] /\ \A c \in Coins : h[c] = Worth[c] + 1 * added[c]
  <2>1. \A c \in Coins : Worth[c] + 1 * added[c] \in Int
    BY <1>4, <1>6
  <2>. HIDE DEF h
  <2>. QED  BY <1>5, <1>7, <2>1
<1>. HIDE DEF h
<1>9. SumFunction(h) = SumFunction(Worth) + 1 * SumFunction(added)
  <2>1. Worth \in [Coins -> Int] /\ h \in [Coins -> Int]
    BY <1>4, <1>8
  <2>2. \A c \in Coins : h[c] = Worth[c] + 1 * added[c]
    BY <1>8
  <2>. QED  BY ONLY <1>6, <2>1, <2>2, SumLinear, SMTT(30)
<1>10. SumFunction(Worth) \in Int /\ SumFunction(added) \in Int
  BY <1>4, <1>6, SumInt
<1>11. SumFunction(Worth) >= totalCollateral
  BY CoveredIs
<1>12. SumFunction(h) >= totalCollateral'
  BY <1>2, <1>3, <1>4, <1>9, <1>10, <1>11 DEF SumOver
<1>13. Covered' <=> (SumFunction(Worth) >= totalCollateral)'
  BY CoveredIs, PTL
<1>. QED  BY <1>12, <1>13 DEF h

\* A call can leave the vault short only if some user's ratios add up to more
\* than one, for all coins, units and parameters (Vault.sol:249-253 against
\* 310-330).
THEOREM OnlyExcessShorts == Spec => ShortOnlyByExcess
<1>. DEFINE P == Covered /\ (\A u \in Users : RatioFits(u)) => Covered'
<1>1. IInv /\ [Next]_vars => [P]_vars
  <2>. SUFFICES ASSUME IInv, [Next]_vars, Covered, \A u \in Users : RatioFits(u)
                PROVE  Covered'
    OBVIOUS
  <2>1. Depositing \/ Removals \/ Retrievals \/ Others
    BY StepsAre DEF IInv
  <2>2. CASE Depositing
    BY <2>2, DepositCovered DEF Depositing
  <2>3. CASE Removals
    BY <2>3, RemovalCovered DEF Removals
  <2>4. CASE UNCHANGED <<held, totalCollateral>>
    BY <2>4 DEF Covered, SumOver, ToCollateral
  <2>5. Retrievals \/ Others => UNCHANGED <<held, totalCollateral>>
    BY DEF Retrievals, RetrieveLostFunds, Others, AddPnlToCollateral, PrepareAddStableCoin,
           AddStableCoin, ModifyThreshold, Tick, vars, claims
  <2>. QED  BY <2>1, <2>2, <2>3, <2>4, <2>5
<1>. QED  BY <1>1, Invariance, PTL DEF Spec, ShortOnlyByExcess, P

-----------------------------------------------------------------------------
(* The band between two snapshots.                                         *)

\* The wider of the two thresholds of a coin.
Wider(c) == IF deposit[c] >= withdrawal[c] THEN deposit[c] ELSE withdrawal[c]

\* A ratio is at most a threshold away from another.
Near(x, y, d) == x \in (y - d)..(y + d)

\* Ratios that a check against one of the thresholds allows are near.
LEMMA AllowedIsNear ==
    ASSUME NEW new \in Ratio, NEW snap \in Ratio, NEW threshold \in Ratio,
           NewRatiosAllowed(new, snap, threshold), NEW c \in listed, c \in Coins,
           NEW wider \in Nat, threshold[c] <= wider
    PROVE  Near(new[c], snap[c], wider)
<1>1. new[c] \in Nat /\ snap[c] \in Nat /\ threshold[c] \in Nat
  BY DEF Ratio
<1>2. (IF snap[c] >= new[c] THEN snap[c] - new[c] ELSE new[c] - snap[c]) <= threshold[c]
  BY DEF NewRatiosAllowed
<1>. QED  BY <1>1, <1>2 DEF Near

\* The wider threshold is natural and at least both.
LEMMA WiderIs ==
    ASSUME TypeOK, NEW c \in Coins
    PROVE  Wider(c) \in Nat /\ deposit[c] <= Wider(c) /\ withdrawal[c] <= Wider(c)
BY DEF TypeOK, Ratio, Wider

\* InBand in terms of Near.
LEMMA InBandIs == InBand <=> \A c \in listed : Near(totalRatio[c], snapshot[c], Wider(c))
BY DEF InBand, Near, Wider

\* A deposit into a vault that is not empty ends in the band.
LEMMA DepositInBand ==
    ASSUME IInv, IInv', NEW u \in Users, AddCollateral(u), totalCollateral # 0
    PROVE  InBand'
<1>1. PICK coins \in [Coins -> Deposits], snap \in Snapshots : Added(u, coins, snap)
  BY DepositIs
<1>2. TypeOK /\ TypeOK'
  BY DEF IInv
<1>3. /\ NewRatiosAllowed(totalRatio', snap, deposit) /\ snapshot' = snap
      /\ listed' = listed /\ deposit' = deposit /\ withdrawal' = withdrawal
  BY <1>1 DEF Added, rules
<1>4. totalRatio' \in Ratio /\ snapshot' \in Ratio /\ deposit \in Ratio /\ listed \subseteq Coins
  BY <1>2 DEF TypeOK
<1>5. ASSUME NEW c \in listed
      PROVE  Near(totalRatio'[c], snapshot'[c], Wider(c))
  BY <1>2, <1>3, <1>4, WiderIs, AllowedIsNear
<1>6. \A c \in listed' : Near(totalRatio'[c], snapshot'[c], Wider(c)')
  BY <1>3, <1>5 DEF Wider
<1>7. InBand' <=> (\A c \in listed : Near(totalRatio[c], snapshot[c], Wider(c)))'
  BY InBandIs, PTL
<1>. QED  BY <1>6, <1>7

\* A removal that does not empty the vault keeps it in the band, or ends there.
LEMMA RemovalInBand ==
    ASSUME IInv, IInv', InBand, NEW u \in Users, NEW amount \in Nat, Remove(u, amount),
           totalCollateral' # 0
    PROVE  InBand'
<1>1. PICK snap \in Snapshots :
        /\ amount <= totalCollateral
        /\ totalRatio' = Removal(u, amount, snap).totalRatio
        /\ totalCollateral' = totalCollateral - amount
        /\ snapshot' = snap
        /\ UNCHANGED <<rules, listing>>
  BY DEF Remove
<1>2. TypeOK /\ TypeOK'
  BY DEF IInv
<1>3. listed' = listed /\ deposit' = deposit /\ withdrawal' = withdrawal
  BY <1>1 DEF rules
<1>4. /\ totalRatio' \in Ratio /\ snapshot' \in Ratio /\ withdrawal \in Ratio
      /\ totalRatio \in Ratio /\ totalCollateral \in Nat /\ listed \subseteq Coins
  BY <1>2 DEF TypeOK
<1>5. amount # totalCollateral
  BY <1>1, <1>4
<1>6. \/ NewRatiosAllowed(totalRatio', snap, withdrawal)
      \/ totalRatio' = totalRatio
  BY <1>1, <1>5 DEF Removal
<1>7. ASSUME NEW c \in listed
      PROVE  Near(totalRatio'[c], snapshot'[c], Wider(c))
  <2>1. Wider(c) \in Nat /\ withdrawal[c] <= Wider(c) /\ c \in Coins
    BY <1>2, <1>4, WiderIs
  <2>2. CASE NewRatiosAllowed(totalRatio', snap, withdrawal)
    BY <1>1, <1>4, <2>1, <2>2, AllowedIsNear
  <2>3. CASE totalRatio' = totalRatio /\ snapshot' = snapshot
    BY <2>3, InBandIs
  <2>4. CASE totalRatio' = totalRatio /\ snapshot' = totalRatio
    <3>1. totalRatio[c] \in Nat
      BY <1>4, <2>1 DEF Ratio
    <3>. QED  BY <2>1, <2>4, <3>1 DEF Near
  <2>5. snapshot' = snapshot \/ snapshot' = totalRatio
    BY <1>1 DEF Snapshots
  <2>. QED  BY <1>6, <2>2, <2>3, <2>4, <2>5
<1>8. \A c \in listed' : Near(totalRatio'[c], snapshot'[c], Wider(c)')
  BY <1>3, <1>7 DEF Wider
<1>9. InBand' <=> (\A c \in listed : Near(totalRatio[c], snapshot[c], Wider(c)))'
  BY InBandIs, PTL
<1>. QED  BY <1>8, <1>9

\* A coin that is added has no ratio and a snapshot of zero.
LEMMA ListingInBand ==
    ASSUME IInv, InBand, NEW p \in Proposals, AddStableCoin(p),
           UNCHANGED <<deposit, withdrawal>>
    PROVE  InBand'
<1>1. TypeOK /\ UnlistedUnused
  BY DEF IInv
<1>2. totalRatio' = totalRatio /\ deposit' = deposit /\ withdrawal' = withdrawal
  BY DEF AddStableCoin, ratios
<1>3. p.coin \in Coins \cup {NoCoin} /\ p.coin \notin listed
  BY ProposalsTyped DEF Proposal, AddStableCoin
<1>4. ASSUME NEW c \in listed'
      PROVE  Near(totalRatio'[c], snapshot'[c], Wider(c))
  <2>1. CASE p.coin = NoCoin
    <3>1. listed' = listed /\ snapshot' = snapshot
      BY <2>1 DEF AddStableCoin, rules
    <3>. QED  BY <1>2, <3>1, InBandIs
  <2>2. CASE p.coin # NoCoin
    <3>1. /\ listed' = listed \cup {p.coin}
          /\ snapshot' = [snapshot EXCEPT ![p.coin] = 0]
      BY <2>2 DEF AddStableCoin
    <3>2. snapshot \in Ratio /\ p.coin \in Coins
      BY <1>1, <1>3, <2>2 DEF TypeOK
    <3>3. CASE c = p.coin
      <4>1. totalRatio'[c] = 0 /\ snapshot'[c] = 0
        BY <1>1, <1>2, <1>3, <3>1, <3>2, <3>3 DEF UnlistedUnused, Ratio
      <4>2. Wider(c) \in Nat
        BY <1>1, <3>2, <3>3, WiderIs
      <4>. QED  BY <4>1, <4>2 DEF Near
    <3>4. CASE c # p.coin
      <4>1. c \in listed
        BY <3>1, <3>4
      <4>2. snapshot'[c] = snapshot[c]
        BY <1>1, <3>1, <3>2, <3>4, <4>1 DEF Ratio, TypeOK
      <4>. QED  BY <1>2, <4>1, <4>2, InBandIs
    <3>. QED  BY <3>3, <3>4
  <2>. QED  BY <2>1, <2>2
<1>5. \A c \in listed' : Near(totalRatio'[c], snapshot'[c], Wider(c)')
  BY <1>2, <1>4 DEF Wider
<1>6. InBand' <=> (\A c \in listed : Near(totalRatio[c], snapshot[c], Wider(c)))'
  BY InBandIs, PTL
<1>. QED  BY <1>5, <1>6

\* For all coins and parameters the vault's ratios stay within the wider of the
\* two thresholds from their snapshot (Vault.sol:179-184, 256-278).
THEOREM AlwaysInBand == Spec => StaysInBand
<1>. DEFINE P == InBand /\ totalCollateral # 0 /\ totalCollateral' # 0
                   /\ UNCHANGED <<deposit, withdrawal>> => InBand'
<1>1. IInv /\ [Next]_vars => [P]_vars
  <2>. SUFFICES ASSUME IInv, [Next]_vars, InBand, totalCollateral # 0,
                       totalCollateral' # 0, UNCHANGED <<deposit, withdrawal>>
                PROVE  InBand'
    OBVIOUS
  <2>1. IInv'
    BY NextKeeps
  <2>2. Depositing \/ Removals \/ Retrievals \/ Others
    BY StepsAre DEF IInv
  <2>3. CASE Depositing
    BY <2>1, <2>3, DepositInBand DEF Depositing
  <2>4. CASE Removals
    BY <2>1, <2>4, RemovalInBand DEF Removals
  <2>5. CASE \E p \in Proposals : AddStableCoin(p)
    BY <2>5, ListingInBand
  <2>6. CASE UNCHANGED <<listed, totalRatio, snapshot>>
    BY <2>6 DEF InBand
  <2>7. Retrievals => UNCHANGED <<listed, totalRatio, snapshot>>
    BY DEF Retrievals, RetrieveLostFunds, rules, ratios
  <2>8. Others => (\E p \in Proposals : AddStableCoin(p))
                    \/ UNCHANGED <<listed, totalRatio, snapshot>>
    BY DEF Others, AddPnlToCollateral, PrepareAddStableCoin, ModifyThreshold, Tick,
           vars, rules, ratios
  <2>. QED  BY <2>2, <2>3, <2>4, <2>5, <2>6, <2>7, <2>8
<1>. QED  BY <1>1, Invariance, PTL DEF Spec, StaysInBand, P
=============================================================================
