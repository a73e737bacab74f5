------------------------- MODULE PerpLedger_proofs -------------------------
(***************************************************************************)
(* Proofs about the books of PerpLedger, for every set of accounts and     *)
(* every value of the parameters.                                          *)
(*                                                                         *)
(* Each operator that a call is made of Moves value: it closes no gap and  *)
(* opens none between pool, exposure, positions and debts, and creates no  *)
(* more than a stated amount, negative when it takes a fee that a later    *)
(* operator pays out.  Moves compose, so that a call is a chain of them    *)
(* whose amounts add up to zero.  Only the realisation of a loss beyond    *)
(* the collateral lowers the fund, and it leaves no collateral behind.     *)
(***************************************************************************)
EXTENDS PerpLedger, SumLemmas

-----------------------------------------------------------------------------
(* The books as records, and their fields.                                 *)

\* The names of the fields of the books.
Fields == {"stable", "asset", "debtStable", "debtAsset", "provides", "poolStable",
           "poolAsset", "exposure", "fund", "collateral", "total", "lostAsset",
           "lostStable"}

\* A record with these fields, whatever their types.
IsBook(c) == DOMAIN c = Fields /\ c = [k \in Fields |-> c[k]]

\* Every field has its type.
Typed(c) ==
    /\ c.stable \in [Accounts -> Int]
    /\ c.asset \in [Accounts -> Int]
    /\ c.debtStable \in [Accounts -> Nat]
    /\ c.debtAsset \in [Accounts -> Nat]
    /\ c.provides \in [Accounts -> BOOLEAN]
    /\ c.poolStable \in Nat
    /\ c.poolAsset \in Nat
    /\ c.exposure \in Signed
    /\ c.fund \in Signed
    /\ c.collateral \in [Accounts -> Nat]
    /\ c.total \in Nat
    /\ c.lostAsset \in Int
    /\ c.lostStable \in Int

\* Books are typed field by field.
LEMMA BooksAreTyped ==
    ASSUME NEW c \in Books
    PROVE  IsBook(c) /\ Typed(c)
<1>1. IsBook(c)
  BY DEF Books, IsBook, Fields
<1>2. Typed(c)
  BY DEF Books, Typed
<1>. QED  BY <1>1, <1>2

\* A record with the fields of books, typed, is books.
LEMMA TypedAreBooks ==
    ASSUME NEW c, IsBook(c), Typed(c)
    PROVE  c \in Books
<1>1. [k \in Fields |-> c[k]] =
        [stable |-> c.stable, asset |-> c.asset, debtStable |-> c.debtStable,
         debtAsset |-> c.debtAsset, provides |-> c.provides,
         poolStable |-> c.poolStable, poolAsset |-> c.poolAsset,
         exposure |-> c.exposure, fund |-> c.fund, collateral |-> c.collateral,
         total |-> c.total, lostAsset |-> c.lostAsset, lostStable |-> c.lostStable]
  BY DEF Fields
<1>. QED  BY <1>1 DEF Books, IsBook, Typed

-----------------------------------------------------------------------------
(* Arithmetic.                                                             *)

\* Two floors add up to no more than the floor of the sum.
LEMMA FloorSum ==
    ASSUME NEW p \in Nat, NEW q \in Nat, NEW n \in Nat \ {0}
    PROVE  (p \div n) + (q \div n) <= (p + q) \div n
<1>. DEFINE i == p \div n
            j == q \div n
            k == (p + q) \div n
<1>1. /\ i \in Int /\ j \in Int /\ k \in Int
      /\ i * n <= p /\ j * n <= q /\ p + q < (k + 1) * n
  OBVIOUS
<1>. HIDE DEF i, j, k
<1>2. (i + j) * n < (k + 1) * n
  BY <1>1
<1>3. i + j < k + 1
  BY <1>1, <1>2
<1>. QED  BY <1>1, <1>3 DEF i, j, k

\* What one of two exceeds the other by, less what that one exceeds it by.
LEMMA ExcessIs ==
    ASSUME NEW x \in Nat, NEW y \in Nat
    PROVE  /\ Excess(x, y) \in Nat /\ Excess(y, x) \in Nat
           /\ Excess(x, y) - Excess(y, x) = x - y
           /\ Excess(x, y) <= x
BY DEF Excess

\* Sign and magnitude add up as the integers they stand for.
LEMMA SignedSumValue ==
    ASSUME NEW x \in Signed, NEW y \in Signed
    PROVE  /\ SignedSum(x, y) \in Signed
           /\ Value(SignedSum(x, y)) = Value(x) + Value(y)
<1>1. x.mag \in Nat /\ y.mag \in Nat
  BY DEF Signed
<1>2. (x.sign = TRUE \/ x.sign = FALSE) /\ (y.sign = TRUE \/ y.sign = FALSE)
  BY DEF Signed
<1>3. CASE x.sign = y.sign
  <2>1. SignedSum(x, y) = [mag |-> x.mag + y.mag, sign |-> x.sign]
    BY <1>3 DEF SignedSum
  <2>2. SignedSum(x, y) \in Signed
    BY <1>1, <1>2, <2>1 DEF Signed
  <2>. QED  BY <1>1, <1>2, <1>3, <2>1, <2>2 DEF Value
<1>4. CASE x.sign = TRUE /\ y.sign = FALSE
  <2>1. CASE x.mag > y.mag
    <3>1. SignedSum(x, y) = [mag |-> DiffAbs(x.mag, y.mag), sign |-> TRUE]
      BY <1>4, <2>1 DEF SignedSum
    <3>. QED  BY <1>1, <1>4, <2>1, <3>1 DEF Value, Signed, DiffAbs
  <2>2. CASE ~ (x.mag > y.mag)
    <3>1. SignedSum(x, y) = [mag |-> DiffAbs(x.mag, y.mag), sign |-> FALSE]
      BY <1>4, <2>2 DEF SignedSum
    <3>. QED  BY <1>1, <1>4, <2>2, <3>1 DEF Value, Signed, DiffAbs
  <2>. QED  BY <2>1, <2>2
<1>5. CASE x.sign = FALSE /\ y.sign = TRUE
  <2>1. CASE x.mag > y.mag
    <3>1. SignedSum(x, y) = [mag |-> DiffAbs(x.mag, y.mag), sign |-> FALSE]
      BY <1>5, <2>1 DEF SignedSum
    <3>. QED  BY <1>1, <1>5, <2>1, <3>1 DEF Value, Signed, DiffAbs
  <2>2. CASE ~ (x.mag > y.mag)
    <3>1. SignedSum(x, y) = [mag |-> DiffAbs(x.mag, y.mag), sign |-> TRUE]
      BY <1>5, <2>2 DEF SignedSum
    <3>. QED  BY <1>1, <1>5, <2>2, <3>1 DEF Value, Signed, DiffAbs
  <2>. QED  BY <2>1, <2>2
<1>. QED  BY <1>2, <1>3, <1>4, <1>5

\* The update of the exposure for asset that comes back to the traders.
LEMMA ExposureUpValue ==
    ASSUME NEW e \in Signed, NEW x \in Nat
    PROVE  /\ ExposureUp(e, x) \in Signed
           /\ Value(ExposureUp(e, x)) = Value(e) + x
<1>1. e.mag \in Nat
  BY DEF Signed
<1>2. (e.sign = TRUE \/ e.sign = FALSE)
  BY DEF Signed
<1>. QED  BY <1>1, <1>2 DEF ExposureUp, Value, Signed, Plus, Minus

\* The update of the exposure for asset that the traders take a debt for.
LEMMA ExposureDownValue ==
    ASSUME NEW e \in Signed, NEW x \in Nat
    PROVE  /\ ExposureDown(e, x) \in Signed
           /\ Value(ExposureDown(e, x)) = Value(e) - x
<1>1. e.mag \in Nat
  BY DEF Signed
<1>2. (e.sign = TRUE \/ e.sign = FALSE)
  BY DEF Signed
<1>. QED  BY <1>1, <1>2 DEF ExposureDown, Value, Signed, Plus, Minus

\* A sum over the accounts when one account's cell is set.
LEMMA SumSet ==
    ASSUME NEW f \in [Accounts -> Int], NEW x \in Accounts, NEW n \in Int
    PROVE  /\ [f EXCEPT ![x] = n] \in [Accounts -> Int]
           /\ SumFunction(f) \in Int
           /\ SumFunction([f EXCEPT ![x] = n]) \in Int
           /\ SumFunction([f EXCEPT ![x] = n]) = SumFunction(f) + n - f[x]
<1>. DEFINE g == [f EXCEPT ![x] = n]
<1>1. g \in [Accounts -> Int] /\ g[x] = n /\ \A i \in Accounts \ {x} : g[i] = f[i]
  OBVIOUS
<1>. HIDE DEF g
<1>2. SumFunction(f) \in Int /\ SumFunction(g) \in Int
  BY <1>1, SumInt, AccountsFinite
<1>3. SumFunction(g) = SumFunction(f) + g[x] - f[x]
  BY <1>1, SumChanged, AccountsFinite
<1>. QED  BY <1>1, <1>2, <1>3 DEF g

\* Cells g are cells f but for the cell of x, which is n.
IsSet(g, f, x, n) ==
    f \in [Accounts -> Int] /\ x \in Accounts /\ n \in Int /\ g = [f EXCEPT ![x] = n]

\* Cells that differ in one differ in their sum by as much.
LEMMA SumIsSet ==
    ASSUME NEW g, NEW f, NEW x, NEW n, IsSet(g, f, x, n)
    PROVE  /\ g \in [Accounts -> Int]
           /\ SumFunction(g) = SumFunction(f) + n - f[x]
BY SumSet DEF IsSet

\* What the balances are made of.
Ints(c) ==
    /\ SumFunction(c.stable) \in Int
    /\ SumFunction(c.asset) \in Int
    /\ SumFunction(c.debtStable) \in Int
    /\ SumFunction(c.debtAsset) \in Int
    /\ SumFunction(c.collateral) \in Int
    /\ Value(c.fund) \in Int
    /\ Value(c.exposure) \in Int
    /\ c.poolStable \in Int
    /\ c.poolAsset \in Int
    /\ c.total \in Int
    /\ c.lostAsset \in Int
    /\ c.lostStable \in Int

\* The sums of typed books are integers.
LEMMA BooksInts ==
    ASSUME NEW c, Typed(c)
    PROVE  Ints(c)
<1>1. /\ c.stable \in [Accounts -> Int] /\ c.asset \in [Accounts -> Int]
      /\ c.debtStable \in [Accounts -> Int] /\ c.debtAsset \in [Accounts -> Int]
      /\ c.collateral \in [Accounts -> Int]
  BY DEF Typed
<1>2. Value(c.fund) \in Int /\ Value(c.exposure) \in Int
  BY DEF Typed, Signed, Value
<1>3. /\ SumFunction(c.stable) \in Int /\ SumFunction(c.asset) \in Int
      /\ SumFunction(c.debtStable) \in Int /\ SumFunction(c.debtAsset) \in Int
      /\ SumFunction(c.collateral) \in Int
  BY <1>1, SumInt, AccountsFinite
<1>. QED  BY <1>2, <1>3 DEF Ints, Typed

-----------------------------------------------------------------------------
(* What one operator of the calls does to the books as a whole.            *)

\* Pool and traders against what the LPs borrowed.
PoolGap(c) == c.poolAsset + Value(c.exposure) - SumFunction(c.debtAsset)

\* The exposure against the positions and the dropped dust.
ExposureGap(c) == Value(c.exposure) - SumFunction(c.asset) - c.lostAsset

\* What everybody owns against what the vault holds.
Slack(c) ==
    SumFunction(c.collateral) + SumFunction(c.stable) - SumFunction(c.debtStable)
        + c.poolStable + Value(c.fund) - c.total - c.lostStable

\* From books c to books d: both gaps stay, at most k is created, the fund does
\* not fall, nor rise above its cap, and no collateral enters or leaves.
Moves(c, d, k) ==
    /\ d \in Books
    /\ PoolGap(d) = PoolGap(c)
    /\ ExposureGap(d) = ExposureGap(c)
    /\ Slack(d) <= Slack(c) + k
    /\ Value(c.fund) <= Value(d.fund)
    /\ Value(c.fund) <= FundCap => Value(d.fund) <= FundCap
    /\ d.total = c.total

\* Moves compose.
LEMMA MovesTrans ==
    ASSUME NEW c \in Books, NEW d, NEW e, NEW j \in Int, NEW k \in Int,
           Moves(c, d, j), Moves(d, e, k)
    PROVE  Moves(c, e, j + k)
<1>1. Ints(c) /\ Ints(d) /\ Ints(e)
  BY BooksAreTyped, BooksInts DEF Moves
<1>2. Slack(c) \in Int /\ Slack(d) \in Int /\ Slack(e) \in Int
  BY <1>1 DEF Slack, Ints
<1>3. /\ Value(c.fund) \in Int /\ Value(d.fund) \in Int /\ Value(e.fund) \in Int
      /\ FundCap \in Int
  BY <1>1, InputsAreNat DEF Ints
<1>4. Slack(e) <= Slack(c) + (j + k)
  BY <1>2 DEF Moves
<1>5. /\ Value(c.fund) <= Value(e.fund)
      /\ Value(c.fund) <= FundCap => Value(e.fund) <= FundCap
  BY <1>3 DEF Moves
<1>. QED  BY <1>4, <1>5 DEF Moves

\* What is created may be bounded by more.
LEMMA MovesMore ==
    ASSUME NEW c \in Books, NEW d, NEW j \in Int, NEW k \in Int, j <= k, Moves(c, d, j)
    PROVE  Moves(c, d, k)
<1>1. Ints(c) /\ Ints(d)
  BY BooksAreTyped, BooksInts DEF Moves
<1>2. Slack(c) \in Int /\ Slack(d) \in Int
  BY <1>1 DEF Slack, Ints
<1>3. Slack(d) <= Slack(c) + k
  BY <1>2 DEF Moves
<1>. QED  BY <1>3 DEF Moves

\* An operator that leaves the fund and the vault alone.
LEMMA MovesWithoutFund ==
    ASSUME NEW c \in Books, NEW d \in Books, NEW k \in Int,
           PoolGap(d) = PoolGap(c), ExposureGap(d) = ExposureGap(c),
           Slack(d) <= Slack(c) + k, d.fund = c.fund, d.total = c.total
    PROVE  Moves(c, d, k)
<1>1. Value(d.fund) = Value(c.fund) /\ Value(c.fund) \in Int
  BY BooksAreTyped, BooksInts DEF Ints
<1>2. Value(c.fund) <= Value(d.fund)
  BY <1>1
<1>3. Value(c.fund) <= FundCap => Value(d.fund) <= FundCap
  BY <1>1
<1>. QED  BY <1>2, <1>3 DEF Moves

\* The LP's debt becomes the trader's, and the exposure follows.
LEMMA TakeOverDebtMoves ==
    ASSUME NEW c \in Books, NEW u \in Accounts
    PROVE  Moves(c, TakeOverDebt(c, u), 0)
<1>. DEFINE d == TakeOverDebt(c, u)
<1>1. IsBook(c) /\ Typed(c) /\ Ints(c)
  BY BooksAreTyped, BooksInts
<1>2. /\ IsBook(d)
      /\ d.stable = [c.stable EXCEPT ![u] = c.stable[u] - c.debtStable[u]]
      /\ d.asset = [c.asset EXCEPT ![u] = c.asset[u] - c.debtAsset[u]]
      /\ d.debtStable = [c.debtStable EXCEPT ![u] = 0]
      /\ d.debtAsset = [c.debtAsset EXCEPT ![u] = 0]
      /\ d.provides = [c.provides EXCEPT ![u] = FALSE]
      /\ d.exposure = ExposureDown(c.exposure, c.debtAsset[u])
      /\ d.collateral = c.collateral /\ d.fund = c.fund /\ d.total = c.total
      /\ d.poolStable = c.poolStable /\ d.poolAsset = c.poolAsset
      /\ d.lostAsset = c.lostAsset /\ d.lostStable = c.lostStable
  BY <1>1 DEF TakeOverDebt, IsBook, Fields
<1>. HIDE DEF d
<1>3. /\ d.exposure \in Signed
      /\ Value(d.exposure) = Value(c.exposure) - c.debtAsset[u]
  BY <1>1, <1>2, ExposureDownValue DEF Typed
<1>4. Typed(d)
  BY <1>1, <1>2, <1>3 DEF Typed
<1>5. d \in Books /\ Ints(d)
  BY <1>2, <1>4, TypedAreBooks, BooksInts
<1>6. /\ c.stable \in [Accounts -> Int] /\ c.asset \in [Accounts -> Int]
      /\ c.debtStable \in [Accounts -> Int] /\ c.debtAsset \in [Accounts -> Int]
      /\ c.stable[u] \in Int /\ c.stable[u] - c.debtStable[u] \in Int
      /\ c.asset[u] \in Int /\ c.asset[u] - c.debtAsset[u] \in Int
      /\ c.debtStable[u] \in Nat /\ c.debtAsset[u] \in Nat
  BY <1>1 DEF Typed
<1>7. SumFunction(d.stable) = SumFunction(c.stable) - c.debtStable[u]
  <2>1. IsSet(d.stable, c.stable, u, c.stable[u] - c.debtStable[u])
    BY <1>2, <1>6 DEF IsSet
  <2>. QED  BY <2>1, SumIsSet, <1>1, <1>6 DEF Ints
<1>8. SumFunction(d.asset) = SumFunction(c.asset) - c.debtAsset[u]
  <2>1. IsSet(d.asset, c.asset, u, c.asset[u] - c.debtAsset[u])
    BY <1>2, <1>6 DEF IsSet
  <2>. QED  BY <2>1, SumIsSet, <1>1, <1>6 DEF Ints
<1>9. SumFunction(d.debtStable) = SumFunction(c.debtStable) - c.debtStable[u]
  <2>1. IsSet(d.debtStable, c.debtStable, u, 0)
    BY <1>2, <1>6 DEF IsSet
  <2>. QED  BY <2>1, SumIsSet, <1>1, <1>6 DEF Ints
<1>10. SumFunction(d.debtAsset) = SumFunction(c.debtAsset) - c.debtAsset[u]
  <2>1. IsSet(d.debtAsset, c.debtAsset, u, 0)
    BY <1>2, <1>6 DEF IsSet
  <2>. QED  BY <2>1, SumIsSet, <1>1, <1>6 DEF Ints
<1>11. PoolGap(d) = PoolGap(c) /\ ExposureGap(d) = ExposureGap(c)
  BY <1>1, <1>2, <1>3, <1>6, <1>8, <1>10 DEF PoolGap, ExposureGap, Ints
<1>12. Slack(d) <= Slack(c) + 0
  BY <1>1, <1>2, <1>6, <1>7, <1>9 DEF Slack, Ints
<1>13. d.fund = c.fund /\ d.total = c.total
  BY <1>2
<1>14. Moves(c, d, 0)
  BY <1>5, <1>11, <1>12, <1>13, MovesWithoutFund
<1>. QED  BY <1>14 DEF d

\* A fee goes to the pool, or to nobody when a leg of the pool is empty.
LEMMA DistributeFeeFields ==
    ASSUME NEW c \in Books, NEW fee \in Nat
    PROVE  LET d == DistributeFee(c, fee)
           IN  \E n \in {0, fee} :
                /\ IsBook(d)
                /\ d.poolStable = c.poolStable + n
                /\ d.stable = c.stable /\ d.asset = c.asset
                /\ d.debtStable = c.debtStable /\ d.debtAsset = c.debtAsset
                /\ d.provides = c.provides /\ d.exposure = c.exposure
                /\ d.collateral = c.collateral /\ d.fund = c.fund /\ d.total = c.total
                /\ d.poolAsset = c.poolAsset
                /\ d.lostAsset = c.lostAsset /\ d.lostStable = c.lostStable
<1>1. IsBook(c) /\ Typed(c) /\ Ints(c)
  BY BooksAreTyped, BooksInts
<1>2. CASE c.poolStable > 0 /\ c.poolAsset > 0
  <2>1. DistributeFee(c, fee) = [c EXCEPT !.poolStable = @ + fee]
    BY <1>2 DEF DistributeFee
  <2>. QED  BY <1>1, <2>1 DEF IsBook, Fields
<1>3. CASE ~ (c.poolStable > 0 /\ c.poolAsset > 0)
  <2>1. DistributeFee(c, fee) = c /\ c.poolStable = c.poolStable + 0
    BY <1>1, <1>3 DEF DistributeFee, Ints
  <2>. QED  BY <1>1, <2>1
<1>. QED  BY <1>2, <1>3

\* A fee that reaches the pool is all that this creates.
LEMMA DistributeFeeMoves ==
    ASSUME NEW c \in Books, NEW fee \in Nat
    PROVE  Moves(c, DistributeFee(c, fee), fee)
<1>. DEFINE d == DistributeFee(c, fee)
<1>1. IsBook(c) /\ Typed(c) /\ Ints(c)
  BY BooksAreTyped, BooksInts
<1>2. PICK n \in {0, fee} :
        /\ IsBook(d)
        /\ d.poolStable = c.poolStable + n
        /\ d.stable = c.stable /\ d.asset = c.asset
        /\ d.debtStable = c.debtStable /\ d.debtAsset = c.debtAsset
        /\ d.provides = c.provides /\ d.exposure = c.exposure
        /\ d.collateral = c.collateral /\ d.fund = c.fund /\ d.total = c.total
        /\ d.poolAsset = c.poolAsset
        /\ d.lostAsset = c.lostAsset /\ d.lostStable = c.lostStable
  BY DistributeFeeFields
<1>. HIDE DEF d
<1>3. Typed(d)
  BY <1>1, <1>2 DEF Typed
<1>4. d \in Books
  BY <1>2, <1>3, TypedAreBooks
<1>5. PoolGap(d) = PoolGap(c) /\ ExposureGap(d) = ExposureGap(c)
  BY <1>2 DEF PoolGap, ExposureGap
<1>6. Slack(d) <= Slack(c) + fee
  BY <1>1, <1>2 DEF Slack, Ints
<1>7. d.fund = c.fund /\ d.total = c.total
  BY <1>2
<1>8. Moves(c, d, fee)
  BY <1>4, <1>5, <1>6, <1>7, MovesWithoutFund
<1>. QED  BY <1>8 DEF d

\* A deposit is borrowed, but for its fee.
LEMMA DepositMoves ==
    ASSUME NEW c \in Books, NEW u \in Accounts, NEW r, NEW x \in Nat, NEW y \in Nat,
           NEW fee \in Nat
    PROVE  Moves(c, Deposit(c, u, r, x, y, fee), -fee)
<1>. DEFINE d == Deposit(c, u, r, x, y, fee)
<1>1. IsBook(c) /\ Typed(c) /\ Ints(c)
  BY BooksAreTyped, BooksInts
<1>2. /\ IsBook(d)
      /\ d.provides = [c.provides EXCEPT ![u] = Excess(x, fee) + r[1] + y + r[2] > 0]
      /\ d.debtStable = [c.debtStable EXCEPT ![u] = c.debtStable[u] + x + Excess(fee, x)]
      /\ d.debtAsset = [c.debtAsset EXCEPT ![u] = c.debtAsset[u] + y]
      /\ d.poolStable = c.poolStable + Excess(x, fee)
      /\ d.poolAsset = c.poolAsset + y
      /\ d.stable = c.stable /\ d.asset = c.asset /\ d.exposure = c.exposure
      /\ d.collateral = c.collateral /\ d.fund = c.fund /\ d.total = c.total
      /\ d.lostAsset = c.lostAsset /\ d.lostStable = c.lostStable
  BY <1>1 DEF Deposit, IsBook, Fields
<1>. HIDE DEF d
<1>3. Excess(fee, x) \in Nat /\ Excess(x, fee) \in Nat
      /\ Excess(x, fee) - Excess(fee, x) = x - fee
  BY DEF Excess
<1>4. Typed(d)
  BY <1>1, <1>2, <1>3 DEF Typed
<1>5. d \in Books
  BY <1>2, <1>4, TypedAreBooks
<1>6. /\ c.debtStable \in [Accounts -> Int] /\ c.debtAsset \in [Accounts -> Int]
      /\ c.debtStable[u] \in Int /\ c.debtStable[u] + x + Excess(fee, x) \in Int
      /\ c.debtAsset[u] \in Int /\ c.debtAsset[u] + y \in Int
  BY <1>1, <1>3 DEF Typed
<1>7. SumFunction(d.debtStable) = SumFunction(c.debtStable) + x + Excess(fee, x)
  <2>1. IsSet(d.debtStable, c.debtStable, u, c.debtStable[u] + x + Excess(fee, x))
    BY <1>2, <1>6 DEF IsSet
  <2>. QED  BY <2>1, SumIsSet, <1>1, <1>3, <1>6 DEF Ints
<1>8. SumFunction(d.debtAsset) = SumFunction(c.debtAsset) + y
  <2>1. IsSet(d.debtAsset, c.debtAsset, u, c.debtAsset[u] + y)
    BY <1>2, <1>6 DEF IsSet
  <2>. QED  BY <2>1, SumIsSet, <1>1, <1>6 DEF Ints
<1>9. PoolGap(d) = PoolGap(c) /\ ExposureGap(d) = ExposureGap(c)
  BY <1>1, <1>2, <1>8 DEF PoolGap, ExposureGap, Ints
<1>10. Slack(d) <= Slack(c) + (-fee)
  BY <1>1, <1>2, <1>3, <1>7 DEF Slack, Ints
<1>11. d.fund = c.fund /\ d.total = c.total /\ -fee \in Int
  BY <1>2
<1>12. Moves(c, d, -fee)
  BY <1>5, <1>9, <1>10, <1>11, MovesWithoutFund
<1>. QED  BY <1>12 DEF d
\* What leaves the pool repays the LP's debt, and the rest is the trader's; the
\* fee stays in the pool, if there is one.
LEMMA WithdrawMoves ==
    ASSUME NEW c \in Books, NEW u \in Accounts, NEW r, NEW x \in Nat, NEW y \in Nat,
           NEW fee \in Nat, x <= c.poolStable, y <= c.poolAsset
    PROVE  Moves(c, Withdraw(c, u, r, x, y, fee), 0)
<1>. DEFINE e == [c EXCEPT !.poolStable = @ - x, !.poolAsset = @ - y]
            f == DistributeFee(e, fee)
            d == Withdraw(c, u, r, x, y, fee)
            out == Excess(x, fee)
            stable == c.stable[u] - Excess(fee, x) + Excess(out, c.debtStable[u])
            asset == c.asset[u] + Excess(y, c.debtAsset[u])
<1>1. IsBook(c) /\ Typed(c) /\ Ints(c)
  BY BooksAreTyped, BooksInts
<1>2. /\ IsBook(e)
      /\ e.poolStable = c.poolStable - x /\ e.poolAsset = c.poolAsset - y
      /\ e.stable = c.stable /\ e.asset = c.asset
      /\ e.debtStable = c.debtStable /\ e.debtAsset = c.debtAsset
      /\ e.provides = c.provides /\ e.exposure = c.exposure
      /\ e.collateral = c.collateral /\ e.fund = c.fund /\ e.total = c.total
      /\ e.lostAsset = c.lostAsset /\ e.lostStable = c.lostStable
  BY <1>1 DEF IsBook, Fields
<1>. HIDE DEF e
<1>3. Typed(e)
  BY <1>1, <1>2 DEF Typed
<1>4. e \in Books
  BY <1>2, <1>3, TypedAreBooks
<1>5. PICK n \in {0, fee} :
        /\ IsBook(f)
        /\ f.poolStable = e.poolStable + n
        /\ f.stable = e.stable /\ f.asset = e.asset
        /\ f.debtStable = e.debtStable /\ f.debtAsset = e.debtAsset
        /\ f.provides = e.provides /\ f.exposure = e.exposure
        /\ f.collateral = e.collateral /\ f.fund = e.fund /\ f.total = e.total
        /\ f.poolAsset = e.poolAsset
        /\ f.lostAsset = e.lostAsset /\ f.lostStable = e.lostStable
  BY <1>4, DistributeFeeFields
<1>6. d = [f EXCEPT !.provides[u] = r # <<x, y>>,
                    !.stable[u] = @ - Excess(fee, x) + Excess(out, c.debtStable[u]),
                    !.debtStable[u] = Excess(@, out),
                    !.asset[u] = @ + Excess(y, c.debtAsset[u]),
                    !.debtAsset[u] = Excess(@, y),
                    !.exposure = ExposureUp(@, Excess(y, c.debtAsset[u]))]
  BY DEF Withdraw, e
<1>. HIDE DEF d, f
<1>7. /\ IsBook(d)
      /\ d.provides = [f.provides EXCEPT ![u] = r # <<x, y>>]
      /\ d.stable = [f.stable EXCEPT ![u] =
                        f.stable[u] - Excess(fee, x) + Excess(out, c.debtStable[u])]
      /\ d.debtStable = [f.debtStable EXCEPT ![u] = Excess(f.debtStable[u], out)]
      /\ d.asset = [f.asset EXCEPT ![u] = f.asset[u] + Excess(y, c.debtAsset[u])]
      /\ d.debtAsset = [f.debtAsset EXCEPT ![u] = Excess(f.debtAsset[u], y)]
      /\ d.exposure = ExposureUp(f.exposure, Excess(y, c.debtAsset[u]))
      /\ d.poolStable = f.poolStable /\ d.poolAsset = f.poolAsset
      /\ d.collateral = f.collateral /\ d.fund = f.fund /\ d.total = f.total
      /\ d.lostAsset = f.lostAsset /\ d.lostStable = f.lostStable
  BY <1>5, <1>6 DEF IsBook, Fields
<1>8. /\ IsBook(d)
      /\ d.provides = [c.provides EXCEPT ![u] = r # <<x, y>>]
      /\ d.stable = [c.stable EXCEPT ![u] = stable]
      /\ d.debtStable = [c.debtStable EXCEPT ![u] = Excess(c.debtStable[u], out)]
      /\ d.asset = [c.asset EXCEPT ![u] = asset]
      /\ d.debtAsset = [c.debtAsset EXCEPT ![u] = Excess(c.debtAsset[u], y)]
      /\ d.exposure = ExposureUp(c.exposure, Excess(y, c.debtAsset[u]))
      /\ d.poolStable = c.poolStable - x + n /\ d.poolAsset = c.poolAsset - y
      /\ d.collateral = c.collateral /\ d.fund = c.fund /\ d.total = c.total
      /\ d.lostAsset = c.lostAsset /\ d.lostStable = c.lostStable
  BY <1>2, <1>5, <1>7
<1>9. /\ c.stable \in [Accounts -> Int] /\ c.asset \in [Accounts -> Int]
      /\ c.debtStable \in [Accounts -> Int] /\ c.debtAsset \in [Accounts -> Int]
      /\ c.stable[u] \in Int /\ c.asset[u] \in Int
      /\ c.debtStable[u] \in Nat /\ c.debtAsset[u] \in Nat
      /\ c.exposure \in Signed
  BY <1>1 DEF Typed
<1>10. /\ out \in Nat /\ Excess(fee, x) \in Nat /\ out - Excess(fee, x) = x - fee
  BY ExcessIs
<1>. HIDE DEF out
<1>11. /\ Excess(out, c.debtStable[u]) \in Nat /\ Excess(c.debtStable[u], out) \in Nat
       /\ Excess(out, c.debtStable[u]) - Excess(c.debtStable[u], out) = out - c.debtStable[u]
  BY <1>9, <1>10, ExcessIs
<1>12. /\ Excess(y, c.debtAsset[u]) \in Nat /\ Excess(c.debtAsset[u], y) \in Nat
       /\ Excess(y, c.debtAsset[u]) - Excess(c.debtAsset[u], y) = y - c.debtAsset[u]
  BY <1>9, ExcessIs
<1>13. stable \in Int /\ asset \in Int
  BY <1>9, <1>10, <1>11, <1>12
<1>14. /\ d.exposure \in Signed
       /\ Value(d.exposure) = Value(c.exposure) + Excess(y, c.debtAsset[u])
  BY <1>8, <1>9, <1>12, ExposureUpValue
<1>15. SumFunction(d.stable) = SumFunction(c.stable) + stable - c.stable[u]
  <2>. HIDE DEF stable
  <2>1. IsSet(d.stable, c.stable, u, stable)
    BY <1>8, <1>9, <1>13 DEF IsSet
  <2>. QED  BY <2>1, SumIsSet
<1>16. SumFunction(d.debtStable) =
            SumFunction(c.debtStable) + Excess(c.debtStable[u], out) - c.debtStable[u]
  <2>1. IsSet(d.debtStable, c.debtStable, u, Excess(c.debtStable[u], out))
    BY <1>8, <1>9, <1>11 DEF IsSet
  <2>. QED  BY <2>1, SumIsSet
<1>17. SumFunction(d.asset) = SumFunction(c.asset) + asset - c.asset[u]
  <2>. HIDE DEF asset
  <2>1. IsSet(d.asset, c.asset, u, asset)
    BY <1>8, <1>9, <1>13 DEF IsSet
  <2>. QED  BY <2>1, SumIsSet
<1>18. SumFunction(d.debtAsset) =
            SumFunction(c.debtAsset) + Excess(c.debtAsset[u], y) - c.debtAsset[u]
  <2>1. IsSet(d.debtAsset, c.debtAsset, u, Excess(c.debtAsset[u], y))
    BY <1>8, <1>9, <1>12 DEF IsSet
  <2>. QED  BY <2>1, SumIsSet
<1>19. Typed(d)
  <2>. HIDE DEF stable, asset
  <2>. QED  BY <1>1, <1>8, <1>11, <1>12, <1>13, <1>14 DEF Typed
<1>20. d \in Books
  BY <1>8, <1>19, TypedAreBooks
<1>21. PoolGap(d) = PoolGap(c)
  BY <1>1, <1>8, <1>9, <1>12, <1>14, <1>18 DEF PoolGap, Ints
<1>22. ExposureGap(d) = ExposureGap(c)
  BY <1>1, <1>8, <1>9, <1>12, <1>14, <1>17 DEF ExposureGap, Ints
<1>23. Slack(d) <= Slack(c) + 0
  BY <1>1, <1>8, <1>9, <1>10, <1>11, <1>15, <1>16 DEF Slack, Ints
<1>24. d.fund = c.fund /\ d.total = c.total
  BY <1>8
<1>25. Moves(c, d, 0)
  BY <1>20, <1>21, <1>22, <1>23, <1>24, MovesWithoutFund
<1>. QED  BY <1>25 DEF d
\* The room of the fund.
LEMMA RoomIs ==
    ASSUME NEW c, Typed(c)
    PROVE  /\ Room(c) \in Nat
           /\ Value(c.fund) <= FundCap => Value(c.fund) + Room(c) = FundCap
           /\ ~ (Value(c.fund) <= FundCap) => Room(c) = 0
<1>1. c.fund.mag \in Nat /\ FundCap \in Nat
  BY InputsAreNat DEF Typed, Signed
<1>2. CASE c.fund.sign
  BY <1>1, <1>2 DEF Room, Excess, Value
<1>3. CASE ~ c.fund.sign
  BY <1>1, <1>3 DEF Room, Value
<1>. QED  BY <1>2, <1>3

\* A fee for the fund is kept by the fund or by the account that stands in.
LEMMA AssignFeeMoves ==
    ASSUME NEW c \in Books, NEW fee \in Nat, NEW who \in Accounts
    PROVE  Moves(c, AssignFee(c, fee, who), fee)
<1>. DEFINE d == AssignFee(c, fee, who)
<1>1. IsBook(c) /\ Typed(c) /\ Ints(c)
  BY BooksAreTyped, BooksInts
<1>2. /\ Room(c) \in Nat /\ FundCap \in Nat
      /\ Value(c.fund) <= FundCap => Value(c.fund) + Room(c) = FundCap
      /\ ~ (Value(c.fund) <= FundCap) => Room(c) = 0
  BY <1>1, RoomIs, InputsAreNat
<1>3. /\ c.fund \in Signed /\ c.stable \in [Accounts -> Int] /\ c.stable[who] \in Int
      /\ Value(c.fund) \in Int
  BY <1>1 DEF Typed, Ints
<1>4. ASSUME NEW k \in Nat
      PROVE  /\ SignedSum(c.fund, Plus(k)) \in Signed
             /\ Value(SignedSum(c.fund, Plus(k))) = Value(c.fund) + k
  <2>1. Plus(k) \in Signed /\ Value(Plus(k)) = k
    BY DEF Plus, Signed, Value
  <2>. QED  BY <2>1, <1>3, SignedSumValue
<1>5. CASE fee <= Room(c)
  <2>1. d = [c EXCEPT !.fund = SignedSum(c.fund, Plus(fee))]
    BY <1>5 DEF AssignFee
  <2>2. /\ IsBook(d)
        /\ d.fund = SignedSum(c.fund, Plus(fee))
        /\ d.stable = c.stable /\ d.asset = c.asset
        /\ d.debtStable = c.debtStable /\ d.debtAsset = c.debtAsset
        /\ d.provides = c.provides /\ d.exposure = c.exposure
        /\ d.collateral = c.collateral /\ d.total = c.total
        /\ d.poolStable = c.poolStable /\ d.poolAsset = c.poolAsset
        /\ d.lostAsset = c.lostAsset /\ d.lostStable = c.lostStable
    BY <1>1, <2>1 DEF IsBook, Fields
  <2>. HIDE DEF d
  <2>3. d.fund \in Signed /\ Value(d.fund) = Value(c.fund) + fee
    BY <2>2, <1>4
  <2>4. Typed(d)
    BY <1>1, <2>2, <2>3 DEF Typed
  <2>5. d \in Books
    BY <2>2, <2>4, TypedAreBooks
  <2>6. PoolGap(d) = PoolGap(c) /\ ExposureGap(d) = ExposureGap(c)
    BY <2>2 DEF PoolGap, ExposureGap
  <2>7. Slack(d) <= Slack(c) + fee
    BY <1>1, <2>2, <2>3 DEF Slack, Ints
  <2>8. /\ Value(c.fund) <= Value(d.fund)
        /\ Value(c.fund) <= FundCap => Value(d.fund) <= FundCap
    BY <1>2, <1>3, <1>5, <2>3
  <2>9. Moves(c, d, fee)
    BY <2>2, <2>5, <2>6, <2>7, <2>8 DEF Moves
  <2>. QED  BY <2>9 DEF d
<1>6. CASE ~ (fee <= Room(c))
  <2>1. d = [c EXCEPT !.fund = SignedSum(c.fund, Plus(Room(c))),
                      !.stable[who] = @ + fee - Room(c)]
    BY <1>6 DEF AssignFee
  <2>2. /\ IsBook(d)
        /\ d.fund = SignedSum(c.fund, Plus(Room(c)))
        /\ d.stable = [c.stable EXCEPT ![who] = c.stable[who] + fee - Room(c)]
        /\ d.asset = c.asset
        /\ d.debtStable = c.debtStable /\ d.debtAsset = c.debtAsset
        /\ d.provides = c.provides /\ d.exposure = c.exposure
        /\ d.collateral = c.collateral /\ d.total = c.total
        /\ d.poolStable = c.poolStable /\ d.poolAsset = c.poolAsset
        /\ d.lostAsset = c.lostAsset /\ d.lostStable = c.lostStable
    BY <1>1, <2>1 DEF IsBook, Fields
  <2>. HIDE DEF d
  <2>3. d.fund \in Signed /\ Value(d.fund) = Value(c.fund) + Room(c)
    BY <2>2, <1>2, <1>4
  <2>4. SumFunction(d.stable) = SumFunction(c.stable) + fee - Room(c)
    <3>1. IsSet(d.stable, c.stable, who, c.stable[who] + fee - Room(c))
      BY <1>2, <1>3, <2>2 DEF IsSet
    <3>. QED  BY <3>1, SumIsSet, <1>1, <1>2, <1>3 DEF Ints
  <2>5. Typed(d)
    BY <1>1, <1>2, <2>2, <2>3 DEF Typed
  <2>6. d \in Books
    BY <2>2, <2>5, TypedAreBooks
  <2>7. PoolGap(d) = PoolGap(c) /\ ExposureGap(d) = ExposureGap(c)
    BY <2>2 DEF PoolGap, ExposureGap
  <2>8. Slack(d) <= Slack(c) + fee
    BY <1>1, <1>2, <2>2, <2>3, <2>4 DEF Slack, Ints
  <2>9. /\ Value(c.fund) <= Value(d.fund)
        /\ Value(c.fund) <= FundCap => Value(d.fund) <= FundCap
    BY <1>2, <1>3, <2>3
  <2>10. Moves(c, d, fee)
    BY <2>2, <2>6, <2>7, <2>8, <2>9 DEF Moves
  <2>. QED  BY <2>10 DEF d
<1>. QED  BY <1>5, <1>6

\* What an account is credited with.
LEMMA CreditMoves ==
    ASSUME NEW c \in Books, NEW u \in Accounts, NEW n \in Int
    PROVE  Moves(c, [c EXCEPT !.stable[u] = @ + n], n)
<1>. DEFINE d == [c EXCEPT !.stable[u] = @ + n]
<1>1. IsBook(c) /\ Typed(c) /\ Ints(c)
  BY BooksAreTyped, BooksInts
<1>2. /\ IsBook(d)
      /\ d.stable = [c.stable EXCEPT ![u] = c.stable[u] + n]
      /\ d.asset = c.asset
      /\ d.debtStable = c.debtStable /\ d.debtAsset = c.debtAsset
      /\ d.provides = c.provides /\ d.exposure = c.exposure /\ d.fund = c.fund
      /\ d.collateral = c.collateral /\ d.total = c.total
      /\ d.poolStable = c.poolStable /\ d.poolAsset = c.poolAsset
      /\ d.lostAsset = c.lostAsset /\ d.lostStable = c.lostStable
  BY <1>1 DEF IsBook, Fields
<1>. HIDE DEF d
<1>3. c.stable \in [Accounts -> Int] /\ c.stable[u] \in Int
  BY <1>1 DEF Typed
<1>4. SumFunction(d.stable) = SumFunction(c.stable) + n
  <2>1. IsSet(d.stable, c.stable, u, c.stable[u] + n)
    BY <1>2, <1>3 DEF IsSet
  <2>. QED  BY <2>1, SumIsSet, <1>1, <1>3 DEF Ints
<1>5. Typed(d)
  BY <1>1, <1>2 DEF Typed
<1>6. d \in Books
  BY <1>2, <1>5, TypedAreBooks
<1>7. PoolGap(d) = PoolGap(c) /\ ExposureGap(d) = ExposureGap(c)
  BY <1>2 DEF PoolGap, ExposureGap
<1>8. Slack(d) <= Slack(c) + n
  BY <1>1, <1>2, <1>4 DEF Slack, Ints
<1>9. d.fund = c.fund /\ d.total = c.total
  BY <1>2
<1>10. Moves(c, d, n)
  BY <1>6, <1>7, <1>8, <1>9, MovesWithoutFund
<1>. QED  BY <1>10 DEF d

\* The fractions of a fee.
LEMMA PartIs ==
    ASSUME NEW fee \in Nat, NEW n \in Nat
    PROVE  /\ Part(fee, n) \in Nat
           /\ n <= Decimals => Part(fee, n) <= fee
           /\ Part(fee, Decimals) = fee
<1>. DEFINE m == fee * n
            top == fee * Decimals
<1>1. Decimals \in Nat /\ Decimals > 0 /\ m \in Nat /\ top \in Nat
  BY FractionsAreNat
<1>2. n <= Decimals => m <= top
  <2>1. SUFFICES ASSUME n <= Decimals
                 PROVE  m <= top
    OBVIOUS
  <2>2. PICK k \in Nat : Decimals = n + k
    <3>1. Decimals - n \in Nat /\ Decimals = n + (Decimals - n)
      BY <1>1, <2>1
    <3>. QED  BY <3>1
  <2>3. top = m + fee * k /\ fee * k \in Nat
    BY <2>2
  <2>. HIDE DEF m, top
  <2>. QED  BY <1>1, <2>3
<1>3. top \div Decimals = fee
  BY <1>1
<1>. HIDE DEF m, top
<1>4. m \div Decimals \in Nat /\ (m <= top => m \div Decimals <= top \div Decimals)
  BY <1>1
<1>. QED  BY <1>2, <1>3, <1>4 DEF Part, m, top

\* Two fractions of a fee are no more than the fraction they make up.
LEMMA PartsSum ==
    ASSUME NEW fee \in Nat, NEW m \in Nat, NEW n \in Nat
    PROVE  Part(fee, m) + Part(fee, n) <= Part(fee, m + n)
<1>1. Decimals \in Nat \ {0} /\ fee * m \in Nat /\ fee * n \in Nat
      /\ fee * m + fee * n = fee * (m + n)
  BY FractionsAreNat
<1>. QED  BY <1>1, FloorSum DEF Part

\* What a fee puts on the books is no more than what the trade left out of them.
LEMMA PayFeesMoves ==
    ASSUME NEW c \in Books, NEW fee \in Nat, NEW frontend \in Accounts \cup {Nobody}
    PROVE  Moves(c, PayFees(c, fee, frontend),
                 Part(fee, Decimals - FeeLp) - Rebate(fee, frontend))
<1>. DEFINE d == AssignFee(c, Part(fee, Decimals - FeeLp - FeeFrontend), Protocol)
            j == Part(fee, Decimals - FeeLp - FeeFrontend)
            k == Part(fee, FeeFrontend)
            n == Part(fee, Decimals - FeeLp)
<1>1. /\ Decimals - FeeLp - FeeFrontend \in Nat /\ FeeFrontend \in Nat
      /\ Decimals - FeeLp \in Nat
      /\ (Decimals - FeeLp - FeeFrontend) + FeeFrontend = Decimals - FeeLp
  BY FractionsAreNat
<1>2. j \in Nat /\ k \in Nat /\ n \in Nat
  BY <1>1, PartIs
<1>3. j + k <= n
  BY <1>1, PartsSum
<1>4. Moves(c, d, j)
  BY <1>2, ProtocolKnown, AssignFeeMoves
<1>. HIDE DEF j, k, n
<1>5. CASE frontend = Nobody
  <2>1. PayFees(c, fee, frontend) = d /\ Rebate(fee, frontend) = k
    BY <1>5 DEF PayFees, Rebate, k
  <2>2. j <= n - k /\ n - k \in Int
    BY <1>2, <1>3
  <2>. HIDE DEF d
  <2>3. Moves(c, d, n - k)
    BY <1>2, <1>4, <2>2, MovesMore
  <2>. QED  BY <2>1, <2>3 DEF n
<1>6. CASE frontend # Nobody
  <2>1. frontend \in Accounts
    BY <1>6
  <2>2. /\ PayFees(c, fee, frontend) = [d EXCEPT !.stable[frontend] = @ + k]
        /\ Rebate(fee, frontend) = 0
    BY <1>6 DEF PayFees, Rebate, k
  <2>. HIDE DEF d
  <2>3. Moves(d, [d EXCEPT !.stable[frontend] = @ + k], k)
    BY <1>2, <1>4, <2>1, CreditMoves DEF Moves
  <2>4. Moves(c, [d EXCEPT !.stable[frontend] = @ + k], j + k)
    BY <1>2, <1>4, <2>3, MovesTrans
  <2>5. j + k \in Int /\ n - 0 \in Int /\ j + k <= n - 0
    BY <1>2, <1>3
  <2>6. Moves(c, [d EXCEPT !.stable[frontend] = @ + k], n - 0)
    BY <2>4, <2>5, MovesMore
  <2>. QED  BY <2>2, <2>6 DEF n
<1>. QED  BY <1>5, <1>6

\* A long: what the trader pays enters the pool, less the fees.
LEMMA LongMoves ==
    ASSUME NEW c \in Books, NEW u \in Accounts, NEW size \in Nat, NEW fee \in Nat,
           NEW return \in Nat, NEW frontend \in Accounts \cup {Nobody},
           fee <= size, return <= c.poolAsset
    PROVE  Moves(c, Long(c, u, size, fee, return, frontend), 0)
<1>. DEFINE part == Part(fee, Decimals - FeeLp)
            back == Rebate(fee, frontend)
            e == [c EXCEPT
                    !.exposure = SignedSum(@, Plus(return)),
                    !.asset[u] = @ + return,
                    !.stable[u] = @ - size,
                    !.poolStable = @ + size - part + back,
                    !.poolAsset = @ - return]
<1>1. IsBook(c) /\ Typed(c) /\ Ints(c)
  BY BooksAreTyped, BooksInts
<1>2. part \in Nat /\ back \in Nat /\ part <= fee
  <2>1. Decimals - FeeLp \in Nat /\ Decimals - FeeLp <= Decimals /\ FeeFrontend \in Nat
    BY FractionsAreNat
  <2>. QED  BY <2>1, PartIs DEF Rebate
<1>3. Long(c, u, size, fee, return, frontend) = PayFees(e, fee, frontend)
  BY DEF Long
<1>. HIDE DEF part, back
<1>4. /\ IsBook(e)
      /\ e.exposure = SignedSum(c.exposure, Plus(return))
      /\ e.asset = [c.asset EXCEPT ![u] = c.asset[u] + return]
      /\ e.stable = [c.stable EXCEPT ![u] = c.stable[u] - size]
      /\ e.poolStable = c.poolStable + size - part + back
      /\ e.poolAsset = c.poolAsset - return
      /\ e.debtStable = c.debtStable /\ e.debtAsset = c.debtAsset
      /\ e.provides = c.provides /\ e.fund = c.fund
      /\ e.collateral = c.collateral /\ e.total = c.total
      /\ e.lostAsset = c.lostAsset /\ e.lostStable = c.lostStable
  BY <1>1 DEF IsBook, Fields
<1>. HIDE DEF e
<1>5. /\ e.exposure \in Signed
      /\ Value(e.exposure) = Value(c.exposure) + return
  <2>1. Plus(return) \in Signed /\ Value(Plus(return)) = return
    BY DEF Plus, Signed, Value
  <2>2. c.exposure \in Signed
    BY <1>1 DEF Typed
  <2>. QED  BY <1>4, <2>1, <2>2, SignedSumValue
<1>6. /\ c.stable \in [Accounts -> Int] /\ c.asset \in [Accounts -> Int]
      /\ c.stable[u] \in Int /\ c.asset[u] \in Int
      /\ c.poolStable \in Nat /\ c.poolAsset \in Nat
  BY <1>1 DEF Typed
<1>7. SumFunction(e.stable) = SumFunction(c.stable) - size
  <2>1. IsSet(e.stable, c.stable, u, c.stable[u] - size)
    BY <1>4, <1>6 DEF IsSet
  <2>. QED  BY <2>1, SumIsSet, <1>1, <1>6 DEF Ints
<1>8. SumFunction(e.asset) = SumFunction(c.asset) + return
  <2>1. IsSet(e.asset, c.asset, u, c.asset[u] + return)
    BY <1>4, <1>6 DEF IsSet
  <2>. QED  BY <2>1, SumIsSet, <1>1, <1>6 DEF Ints
<1>9. e.poolStable \in Nat /\ e.poolAsset \in Nat
  BY <1>2, <1>4, <1>6
<1>10. Typed(e)
  BY <1>1, <1>4, <1>5, <1>9 DEF Typed
<1>11. e \in Books
  BY <1>4, <1>10, TypedAreBooks
<1>12. PoolGap(e) = PoolGap(c) /\ ExposureGap(e) = ExposureGap(c)
  BY <1>1, <1>4, <1>5, <1>8 DEF PoolGap, ExposureGap, Ints
<1>13. Slack(e) <= Slack(c) + (back - part)
  BY <1>1, <1>2, <1>4, <1>7 DEF Slack, Ints
<1>14. e.fund = c.fund /\ e.total = c.total /\ back - part \in Int /\ part - back \in Int
  BY <1>2, <1>4
<1>15. Moves(c, e, back - part)
  BY <1>11, <1>12, <1>13, <1>14, MovesWithoutFund
<1>16. Moves(e, PayFees(e, fee, frontend), part - back)
  BY <1>11, PayFeesMoves DEF part, back
<1>17. Moves(c, PayFees(e, fee, frontend), (back - part) + (part - back))
  BY <1>14, <1>15, <1>16, MovesTrans
<1>18. (back - part) + (part - back) = 0
  BY <1>2
<1>. QED  BY <1>3, <1>17, <1>18

\* A short: what the trade is worth leaves the pool, less the fee of the LPs.
LEMMA ShortMoves ==
    ASSUME NEW c \in Books, NEW u \in Accounts, NEW size \in Nat, NEW gross \in Nat,
           NEW fee \in Nat, NEW frontend \in Accounts \cup {Nobody},
           fee <= gross, gross <= c.poolStable
    PROVE  Moves(c, Short(c, u, size, gross, fee, frontend), 0)
<1>. DEFINE kept == Part(fee, FeeLp)
            part == Part(fee, Decimals - FeeLp)
            back == Rebate(fee, frontend)
            e == [c EXCEPT
                    !.exposure = SignedSum(@, Minus(size)),
                    !.asset[u] = @ - size,
                    !.stable[u] = @ + gross - fee + back,
                    !.poolStable = @ - (gross - kept),
                    !.poolAsset = @ + size]
<1>1. IsBook(c) /\ Typed(c) /\ Ints(c)
  BY BooksAreTyped, BooksInts
<1>2. /\ part \in Nat /\ back \in Nat /\ kept \in Nat
      /\ kept + part <= fee /\ kept <= fee
  <2>1. Decimals - FeeLp \in Nat /\ FeeLp \in Nat /\ FeeFrontend \in Nat
        /\ FeeLp <= Decimals /\ FeeLp + (Decimals - FeeLp) = Decimals
    BY FractionsAreNat
  <2>2. kept + part <= Part(fee, Decimals)
    BY <2>1, PartsSum
  <2>. QED  BY <2>1, <2>2, PartIs DEF Rebate
<1>3. Short(c, u, size, gross, fee, frontend) = PayFees(e, fee, frontend)
  BY DEF Short
<1>. HIDE DEF part, back, kept
<1>4. /\ IsBook(e)
      /\ e.exposure = SignedSum(c.exposure, Minus(size))
      /\ e.asset = [c.asset EXCEPT ![u] = c.asset[u] - size]
      /\ e.stable = [c.stable EXCEPT ![u] = c.stable[u] + gross - fee + back]
      /\ e.poolStable = c.poolStable - (gross - kept)
      /\ e.poolAsset = c.poolAsset + size
      /\ e.debtStable = c.debtStable /\ e.debtAsset = c.debtAsset
      /\ e.provides = c.provides /\ e.fund = c.fund
      /\ e.collateral = c.collateral /\ e.total = c.total
      /\ e.lostAsset = c.lostAsset /\ e.lostStable = c.lostStable
  BY <1>1 DEF IsBook, Fields
<1>. HIDE DEF e
<1>5. /\ e.exposure \in Signed
      /\ Value(e.exposure) = Value(c.exposure) + (-size)
  <2>1. Minus(size) \in Signed /\ Value(Minus(size)) = -size
    BY DEF Minus, Signed, Value
  <2>2. c.exposure \in Signed
    BY <1>1 DEF Typed
  <2>. QED  BY <1>4, <2>1, <2>2, SignedSumValue
<1>6. /\ c.stable \in [Accounts -> Int] /\ c.asset \in [Accounts -> Int]
      /\ c.stable[u] \in Int /\ c.asset[u] \in Int
      /\ c.poolStable \in Nat /\ c.poolAsset \in Nat
  BY <1>1 DEF Typed
<1>7. SumFunction(e.stable) = SumFunction(c.stable) + gross - fee + back
  <2>1. IsSet(e.stable, c.stable, u, c.stable[u] + gross - fee + back)
    BY <1>2, <1>4, <1>6 DEF IsSet
  <2>. QED  BY <2>1, SumIsSet, <1>1, <1>2, <1>6 DEF Ints
<1>8. SumFunction(e.asset) = SumFunction(c.asset) - size
  <2>1. IsSet(e.asset, c.asset, u, c.asset[u] - size)
    BY <1>4, <1>6 DEF IsSet
  <2>. QED  BY <2>1, SumIsSet, <1>1, <1>6 DEF Ints
<1>9. e.poolStable \in Nat /\ e.poolAsset \in Nat
  BY <1>2, <1>4, <1>6
<1>10. Typed(e)
  BY <1>1, <1>2, <1>4, <1>5, <1>9 DEF Typed
<1>11. e \in Books
  BY <1>4, <1>10, TypedAreBooks
<1>12. PoolGap(e) = PoolGap(c) /\ ExposureGap(e) = ExposureGap(c)
  BY <1>1, <1>4, <1>5, <1>8 DEF PoolGap, ExposureGap, Ints
<1>13. Slack(e) <= Slack(c) + (back - part)
  BY <1>1, <1>2, <1>4, <1>7 DEF Slack, Ints
<1>14. e.fund = c.fund /\ e.total = c.total /\ back - part \in Int /\ part - back \in Int
  BY <1>2, <1>4
<1>15. Moves(c, e, back - part)
  BY <1>11, <1>12, <1>13, <1>14, MovesWithoutFund
<1>16. Moves(e, PayFees(e, fee, frontend), part - back)
  BY <1>11, PayFeesMoves DEF part, back
<1>17. Moves(c, PayFees(e, fee, frontend), (back - part) + (part - back))
  BY <1>14, <1>15, <1>16, MovesTrans
<1>18. (back - part) + (part - back) = 0
  BY <1>2
<1>. QED  BY <1>3, <1>17, <1>18

\* Every outcome of a trade.
LEMMA LongsMove ==
    ASSUME NEW c \in Books, NEW u \in Accounts, NEW size \in Nat,
           NEW frontend \in Accounts \cup {Nobody}, NEW d \in Longs(c, u, size, frontend)
    PROVE  Moves(c, d, 0)
<1>1. c.poolAsset \in Nat /\ Fees \subseteq Nat
  BY BooksAreTyped, InputsAreNat DEF Typed
<1>2. CASE d = Long(c, u, size, size, 0, frontend)
  BY <1>1, <1>2, LongMoves
<1>3. CASE \E fee \in Nat, return \in 0..c.poolAsset - 1 :
              fee < size /\ d = Long(c, u, size, fee, return, frontend)
  <2>1. PICK fee \in Nat, return \in 0..c.poolAsset - 1 :
              fee < size /\ d = Long(c, u, size, fee, return, frontend)
    BY <1>3
  <2>2. return \in Nat /\ return <= c.poolAsset /\ fee <= size
    BY <1>1, <2>1
  <2>. QED  BY <2>1, <2>2, LongMoves
<1>. QED  BY <1>1, <1>2, <1>3 DEF Longs

\* Every outcome of a short, likewise.
LEMMA ShortsMove ==
    ASSUME NEW c \in Books, NEW u \in Accounts, NEW size \in Nat,
           NEW frontend \in Accounts \cup {Nobody}, NEW d \in Shorts(c, u, size, frontend)
    PROVE  Moves(c, d, 0)
<1>1. c.poolStable \in Nat /\ Fees \subseteq Nat
  BY BooksAreTyped, InputsAreNat DEF Typed
<1>2. PICK gross \in 0..c.poolStable : \E fee \in Fees \cup {gross} :
            fee <= gross /\ d = Short(c, u, size, gross, fee, frontend)
  BY DEF Shorts
<1>3. PICK fee \in Fees \cup {gross} :
            fee <= gross /\ d = Short(c, u, size, gross, fee, frontend)
  BY <1>2
<1>4. gross \in Nat /\ fee \in Nat /\ gross <= c.poolStable
  BY <1>1, <1>3
<1>. QED  BY <1>3, <1>4, ShortMoves
\* What an LP may take out is in the pool.
LEMMA RecoveriesAre ==
    ASSUME NEW c \in Books, NEW u, NEW r \in Recoveries(c, u)
    PROVE  /\ r[1] \in Nat /\ r[1] <= c.poolStable
           /\ r[2] \in Nat /\ r[2] <= c.poolAsset
<1>1. c.poolStable \in Nat /\ c.poolAsset \in Nat
  BY BooksAreTyped DEF Typed
<1>. QED  BY <1>1 DEF Recoveries

\* The LP position of an account taken back to the trader.
LEMMA UnwoundMoves ==
    ASSUME NEW c \in Books, NEW u \in Accounts, NEW d \in Unwound(c, u)
    PROVE  Moves(c, d, 0)
<1>1. PICK r \in Recoveries(c, u) : \E fee \in FeesOf(r[1], r[2]) :
            d = TakeOverDebt(Withdraw(c, u, r, r[1], r[2], fee), u)
  BY DEF Unwound
<1>2. PICK fee \in FeesOf(r[1], r[2]) :
            d = TakeOverDebt(Withdraw(c, u, r, r[1], r[2], fee), u)
  BY <1>1
<1>3. fee \in Nat
  BY InputsAreNat DEF FeesOf
<1>. DEFINE e == Withdraw(c, u, r, r[1], r[2], fee)
<1>4. Moves(c, e, 0)
  BY <1>3, RecoveriesAre, WithdrawMoves
<1>5. d = TakeOverDebt(e, u)
  BY <1>2
<1>. HIDE DEF e
<1>6. Moves(e, d, 0)
  BY <1>4, <1>5, TakeOverDebtMoves DEF Moves
<1>7. Moves(c, d, 0 + 0)
  BY <1>4, <1>6, MovesTrans
<1>. QED  BY <1>7

\* Dust that is dropped leaves the positions and not the exposure.
LEMMA DroppedMoves ==
    ASSUME NEW c \in Books, NEW u \in Accounts
    PROVE  Moves(c, Dropped(c, u), 0)
<1>. DEFINE d == Dropped(c, u)
<1>1. IsBook(c) /\ Typed(c) /\ Ints(c)
  BY BooksAreTyped, BooksInts
<1>2. /\ IsBook(d)
      /\ d.asset = [c.asset EXCEPT ![u] = 0]
      /\ d.lostAsset = c.lostAsset + c.asset[u]
      /\ d.stable = c.stable
      /\ d.debtStable = c.debtStable /\ d.debtAsset = c.debtAsset
      /\ d.provides = c.provides /\ d.exposure = c.exposure /\ d.fund = c.fund
      /\ d.collateral = c.collateral /\ d.total = c.total
      /\ d.poolStable = c.poolStable /\ d.poolAsset = c.poolAsset
      /\ d.lostStable = c.lostStable
  BY <1>1 DEF Dropped, IsBook, Fields
<1>. HIDE DEF d
<1>3. c.asset \in [Accounts -> Int] /\ c.asset[u] \in Int
  BY <1>1 DEF Typed
<1>4. SumFunction(d.asset) = SumFunction(c.asset) - c.asset[u]
  <2>1. IsSet(d.asset, c.asset, u, 0)
    BY <1>2, <1>3 DEF IsSet
  <2>. QED  BY <2>1, SumIsSet, <1>1, <1>3 DEF Ints
<1>5. Typed(d)
  BY <1>1, <1>2, <1>3 DEF Typed
<1>6. d \in Books
  BY <1>2, <1>5, TypedAreBooks
<1>7. PoolGap(d) = PoolGap(c) /\ ExposureGap(d) = ExposureGap(c)
  BY <1>1, <1>2, <1>3, <1>4 DEF PoolGap, ExposureGap, Ints
<1>8. Slack(d) <= Slack(c) + 0
  BY <1>1, <1>2 DEF Slack, Ints
<1>9. d.fund = c.fund /\ d.total = c.total
  BY <1>2
<1>10. Moves(c, d, 0)
  BY <1>6, <1>7, <1>8, <1>9, MovesWithoutFund
<1>. QED  BY <1>10 DEF d

\* The net asset of an account traded away, or dropped.
LEMMA FlattenedMoves ==
    ASSUME NEW c \in Books, NEW u \in Accounts, NEW frontend \in Accounts \cup {Nobody},
           NEW d \in Flattened(c, u, frontend)
    PROVE  Moves(c, d, 0)
<1>1. c.asset[u] \in Int /\ Amounts \subseteq Nat
  BY BooksAreTyped, InputsAreNat DEF Typed
<1>2. CASE d = Dropped(c, u)
  BY <1>2, DroppedMoves
<1>3. CASE c.asset[u] > 0 /\ d \in Shorts(c, u, c.asset[u], frontend)
  <2>1. c.asset[u] \in Nat
    BY <1>1, <1>3
  <2>. QED  BY <1>3, <2>1, ShortsMove
<1>4. CASE \E size \in Amounts : d \in Longs(c, u, size, frontend)
  BY <1>1, <1>4, LongsMove
<1>. QED  BY <1>2, <1>3, <1>4 DEF Flattened

\* From books c to books d: as Moves, but when the fund falls it is because u
\* has no collateral left.
Settles(c, d, u) ==
    /\ d \in Books
    /\ PoolGap(d) = PoolGap(c)
    /\ ExposureGap(d) = ExposureGap(c)
    /\ Slack(d) <= Slack(c)
    /\ Value(c.fund) <= FundCap => Value(d.fund) <= FundCap
    /\ Value(d.fund) < Value(c.fund) => d.collateral[u] = 0
    /\ d.total = c.total

\* A PnL is paid from the collateral, the rest by the fund; a covered PnL
\* leaves the fund alone.
LEMMA RealizedSettles ==
    ASSUME NEW c \in Books, NEW u \in Accounts, NEW value \in Int
    PROVE  /\ Settles(c, Realized(c, u, value), u)
           /\ Covered(c, u, c.stable[u] + value) =>
                Value(c.fund) <= Value(Realized(c, u, value).fund)
<1>. DEFINE d == Realized(c, u, value)
            equity == c.collateral[u] + c.stable[u] + value
<1>1. IsBook(c) /\ Typed(c) /\ Ints(c)
  BY BooksAreTyped, BooksInts
<1>2. /\ c.stable \in [Accounts -> Int] /\ c.asset \in [Accounts -> Int]
      /\ c.collateral \in [Accounts -> Int] /\ c.fund \in Signed
      /\ c.stable[u] \in Int /\ c.asset[u] \in Int /\ c.collateral[u] \in Nat
      /\ equity \in Int /\ FundCap \in Int
  BY <1>1, InputsAreNat DEF Typed
<1>. DEFINE left == IF equity < 0 THEN 0 ELSE equity
            fund == IF equity < 0 THEN SignedSum(c.fund, Minus(-equity)) ELSE c.fund
<1>3. /\ IsBook(d)
      /\ d.stable = [c.stable EXCEPT ![u] = 0]
      /\ d.asset = [c.asset EXCEPT ![u] = 0]
      /\ d.lostAsset = c.lostAsset + c.asset[u]
      /\ d.lostStable = c.lostStable + value
      /\ d.collateral = [c.collateral EXCEPT ![u] = left]
      /\ d.fund = fund
      /\ d.debtStable = c.debtStable /\ d.debtAsset = c.debtAsset
      /\ d.provides = c.provides /\ d.exposure = c.exposure /\ d.total = c.total
      /\ d.poolStable = c.poolStable /\ d.poolAsset = c.poolAsset
  BY <1>1 DEF Realized, IsBook, Fields
<1>. HIDE DEF d
<1>4. left \in Nat
  BY <1>2
<1>5. /\ fund \in Signed
      /\ Value(fund) = Value(c.fund) + equity - left
  <2>1. CASE equity < 0
    <3>1. -equity \in Nat
      BY <1>2, <2>1
    <3>2. Minus(-equity) \in Signed /\ Value(Minus(-equity)) = -(-equity)
      BY <3>1 DEF Minus, Signed, Value
    <3>3. /\ SignedSum(c.fund, Minus(-equity)) \in Signed
          /\ Value(SignedSum(c.fund, Minus(-equity))) = Value(c.fund) + -(-equity)
      BY <1>2, <3>2, SignedSumValue
    <3>. QED  BY <1>1, <1>2, <2>1, <3>3 DEF Ints
  <2>2. CASE ~ (equity < 0)
    BY <1>1, <1>2, <2>2 DEF Ints
  <2>. QED  BY <2>1, <2>2
<1>6. /\ left = 0 \/ left = equity
      /\ equity <= left
      /\ equity < left => left = 0
  BY <1>2
<1>7. equity = c.collateral[u] + c.stable[u] + value
  OBVIOUS
<1>. HIDE DEF left, fund, equity
<1>8. SumFunction(d.stable) = SumFunction(c.stable) - c.stable[u]
  <2>1. IsSet(d.stable, c.stable, u, 0)
    BY <1>2, <1>3 DEF IsSet
  <2>. QED  BY <2>1, SumIsSet, <1>1, <1>2 DEF Ints
<1>9. SumFunction(d.asset) = SumFunction(c.asset) - c.asset[u]
  <2>1. IsSet(d.asset, c.asset, u, 0)
    BY <1>2, <1>3 DEF IsSet
  <2>. QED  BY <2>1, SumIsSet, <1>1, <1>2 DEF Ints
<1>10. SumFunction(d.collateral) = SumFunction(c.collateral) + left - c.collateral[u]
  <2>1. IsSet(d.collateral, c.collateral, u, left)
    BY <1>2, <1>3, <1>4 DEF IsSet
  <2>. QED  BY <2>1, SumIsSet
<1>11. d.collateral[u] = left
  BY <1>2, <1>3
<1>12. Typed(d)
  BY <1>1, <1>2, <1>3, <1>4, <1>5 DEF Typed
<1>13. d \in Books
  BY <1>3, <1>12, TypedAreBooks
<1>14. PoolGap(d) = PoolGap(c) /\ ExposureGap(d) = ExposureGap(c)
  BY <1>1, <1>2, <1>3, <1>9 DEF PoolGap, ExposureGap, Ints
<1>15. Slack(d) <= Slack(c)
  BY <1>1, <1>2, <1>3, <1>4, <1>5, <1>7, <1>8, <1>10 DEF Slack, Ints
<1>16. /\ Value(c.fund) <= FundCap => Value(d.fund) <= FundCap
       /\ Value(d.fund) < Value(c.fund) => d.collateral[u] = 0
  BY <1>1, <1>2, <1>3, <1>4, <1>5, <1>6, <1>11 DEF Ints
<1>17. Settles(c, d, u)
  BY <1>3, <1>13, <1>14, <1>15, <1>16 DEF Settles
<1>18. ASSUME Covered(c, u, c.stable[u] + value)
       PROVE  Value(c.fund) <= Value(d.fund)
  <2>1. equity > 0
    BY <1>2, <1>7, <1>18 DEF Covered
  <2>2. left = equity
    BY <1>2, <2>1 DEF left
  <2>. QED  BY <1>1, <1>2, <1>3, <1>5, <2>2 DEF Ints
<1>. QED  BY <1>17, <1>18 DEF d

\* A close settles the account; when it has to be covered, the fund is left
\* alone.
LEMMA CloseSettles ==
    ASSUME NEW c \in Books, NEW u \in Accounts, NEW frontend \in Accounts \cup {Nobody},
           NEW own \in BOOLEAN, NEW d \in Close(c, u, frontend, own)
    PROVE  /\ Settles(c, d, u)
           /\ own => Value(c.fund) <= Value(d.fund)
<1>1. PICK e \in Unwound(c, u) : \E f \in Flattened(e, u, frontend) :
      \E v \in Residues(f.asset[u]) :
            (own => Covered(f, u, f.stable[u] + v)) /\ d = Realized(f, u, v)
  BY DEF Close
<1>2. PICK f \in Flattened(e, u, frontend) : \E v \in Residues(f.asset[u]) :
            (own => Covered(f, u, f.stable[u] + v)) /\ d = Realized(f, u, v)
  BY <1>1
<1>3. PICK v \in Residues(f.asset[u]) :
            (own => Covered(f, u, f.stable[u] + v)) /\ d = Realized(f, u, v)
  BY <1>2
<1>4. v \in Int
  BY InputsAreNat DEF Residues
<1>5. Moves(c, e, 0)
  BY UnwoundMoves
<1>6. Moves(e, f, 0)
  BY <1>5, FlattenedMoves DEF Moves
<1>7. Moves(c, f, 0 + 0)
  BY <1>5, <1>6, MovesTrans
<1>8. Settles(f, d, u) /\ (own => Value(f.fund) <= Value(d.fund))
  BY <1>3, <1>4, <1>7, RealizedSettles DEF Moves
<1>9. Ints(c) /\ Ints(d) /\ Ints(f)
  BY <1>7, <1>8, BooksAreTyped, BooksInts DEF Moves, Settles
<1>10. /\ Slack(c) \in Int /\ Slack(d) \in Int /\ Slack(f) \in Int
       /\ Value(c.fund) \in Int /\ Value(d.fund) \in Int /\ Value(f.fund) \in Int
  BY <1>9 DEF Slack, Ints
<1>11. Slack(d) <= Slack(c)
  BY <1>7, <1>8, <1>10 DEF Moves, Settles
<1>12. /\ Value(d.fund) < Value(c.fund) => d.collateral[u] = 0
       /\ own => Value(c.fund) <= Value(d.fund)
  BY <1>7, <1>8, <1>10 DEF Moves, Settles
<1>. QED  BY <1>7, <1>8, <1>11, <1>12 DEF Moves, Settles
\* Stable that one account gives to another, or to itself.
LEMMA TransferMoves ==
    ASSUME NEW c \in Books, NEW u \in Accounts, NEW v \in Accounts, NEW k \in Int
    PROVE  Moves(c, [c EXCEPT !.stable = [[c.stable EXCEPT ![u] = @ - k]
                                              EXCEPT ![v] = @ + k]], 0)
<1>. DEFINE e == [c EXCEPT !.stable[u] = @ + (-k)]
            d == [e EXCEPT !.stable[v] = @ + k]
            t == [c EXCEPT !.stable = [[c.stable EXCEPT ![u] = @ - k] EXCEPT ![v] = @ + k]]
<1>1. IsBook(c) /\ Typed(c) /\ -k \in Int
  BY BooksAreTyped
<1>2. Moves(c, e, -k)
  BY <1>1, CreditMoves
<1>3. Moves(e, d, k)
  <2>1. e \in Books
    BY <1>2 DEF Moves
  <2>. HIDE DEF e
  <2>. QED  BY <2>1, CreditMoves
<1>4. d = t
  <2>1. c.stable[u] - k = c.stable[u] + (-k)
    BY <1>1 DEF Typed
  <2>2. [c.stable EXCEPT ![u] = c.stable[u] - k] = [c.stable EXCEPT ![u] = c.stable[u] + (-k)]
    BY <2>1
  <2>. QED  BY <1>1, <2>2 DEF IsBook, Fields
<1>. HIDE DEF d, e, t
<1>5. Moves(c, d, (-k) + k)
  BY <1>1, <1>2, <1>3, MovesTrans
<1>. QED  BY <1>4, <1>5 DEF t
\* Funding only flows between accounts.
LEMMA FundedMoves ==
    ASSUME NEW c \in Books, NEW d \in Funded(c)
    PROVE  Moves(c, d, 0)
<1>1. CASE d = c
  <2>1. Ints(c)
    BY BooksAreTyped, BooksInts
  <2>2. Slack(c) \in Int
    BY <2>1 DEF Slack, Ints
  <2>3. Slack(c) <= Slack(c) + 0
    BY <2>2
  <2>. QED  BY <1>1, <2>3, MovesWithoutFund
<1>2. CASE \E u, v \in Accounts, k \in Accruals :
                d = [c EXCEPT !.stable = [[c.stable EXCEPT ![u] = @ - k]
                                              EXCEPT ![v] = @ + k]]
  <2>1. Accruals \subseteq Int
    BY InputsAreNat
  <2>. QED  BY <1>2, <2>1, TransferMoves
<1>. QED  BY <1>1, <1>2 DEF Funded

\* A snapshot that is refreshed moves nothing.
LEMMA SettledMoves ==
    ASSUME NEW c \in Books, NEW s \in [Accounts -> BOOLEAN]
    PROVE  Moves(c, [c EXCEPT !.provides = s], 0)
<1>. DEFINE d == [c EXCEPT !.provides = s]
<1>1. IsBook(c) /\ Typed(c) /\ Ints(c)
  BY BooksAreTyped, BooksInts
<1>2. /\ IsBook(d)
      /\ d.provides = s
      /\ d.stable = c.stable /\ d.asset = c.asset
      /\ d.debtStable = c.debtStable /\ d.debtAsset = c.debtAsset
      /\ d.exposure = c.exposure /\ d.fund = c.fund
      /\ d.collateral = c.collateral /\ d.total = c.total
      /\ d.poolStable = c.poolStable /\ d.poolAsset = c.poolAsset
      /\ d.lostAsset = c.lostAsset /\ d.lostStable = c.lostStable
  BY <1>1 DEF IsBook, Fields
<1>. HIDE DEF d
<1>3. Typed(d)
  BY <1>1, <1>2 DEF Typed
<1>4. d \in Books
  BY <1>2, <1>3, TypedAreBooks
<1>5. PoolGap(d) = PoolGap(c) /\ ExposureGap(d) = ExposureGap(c)
  BY <1>2 DEF PoolGap, ExposureGap
<1>6. Slack(d) <= Slack(c) + 0
  BY <1>1, <1>2 DEF Slack, Ints
<1>7. d.fund = c.fund /\ d.total = c.total
  BY <1>2
<1>8. Moves(c, d, 0)
  BY <1>4, <1>5, <1>6, <1>7, MovesWithoutFund
<1>. QED  BY <1>8 DEF d

\* A liquidation moves a part of a position to the liquidator, and a part of the
\* discount to the fund.
LEMMA SeizeMoves ==
    ASSUME NEW c \in Books, NEW l \in Accounts, NEW u \in Accounts, NEW long \in BOOLEAN,
           NEW n \in Nat, NEW dy \in Nat, NEW ins \in Nat
    PROVE  Moves(c, Seize(c, l, u, long, n, dy, ins), 0)
<1>. DEFINE sign == IF long THEN 1 ELSE -1
            from == [c.asset EXCEPT ![u] = @ - sign * n]
            pay == [c.stable EXCEPT ![u] = @ + sign * dy]
            to == [from EXCEPT ![l] = @ + sign * n]
            kept == [pay EXCEPT ![l] = @ - sign * dy - ins]
            e == [c EXCEPT !.asset = to, !.stable = kept]
<1>1. IsBook(c) /\ Typed(c) /\ Ints(c)
  BY BooksAreTyped, BooksInts
<1>2. sign * n \in Int /\ sign * dy \in Int
  OBVIOUS
<1>3. Seize(c, l, u, long, n, dy, ins) = AssignFee(e, ins, l)
  BY DEF Seize
<1>. HIDE DEF sign
<1>4. /\ IsBook(e)
      /\ e.asset = [from EXCEPT ![l] = from[l] + sign * n]
      /\ e.stable = [pay EXCEPT ![l] = pay[l] - sign * dy - ins]
      /\ e.debtStable = c.debtStable /\ e.debtAsset = c.debtAsset
      /\ e.provides = c.provides /\ e.exposure = c.exposure /\ e.fund = c.fund
      /\ e.collateral = c.collateral /\ e.total = c.total
      /\ e.poolStable = c.poolStable /\ e.poolAsset = c.poolAsset
      /\ e.lostAsset = c.lostAsset /\ e.lostStable = c.lostStable
  <2>1. /\ to = [from EXCEPT ![l] = from[l] + sign * n]
        /\ kept = [pay EXCEPT ![l] = pay[l] - sign * dy - ins]
    OBVIOUS
  <2>. HIDE DEF from, pay, to, kept
  <2>2. /\ IsBook(e)
        /\ e.asset = to /\ e.stable = kept
        /\ e.debtStable = c.debtStable /\ e.debtAsset = c.debtAsset
        /\ e.provides = c.provides /\ e.exposure = c.exposure /\ e.fund = c.fund
        /\ e.collateral = c.collateral /\ e.total = c.total
        /\ e.poolStable = c.poolStable /\ e.poolAsset = c.poolAsset
        /\ e.lostAsset = c.lostAsset /\ e.lostStable = c.lostStable
    BY <1>1 DEF IsBook, Fields
  <2>. QED  BY <2>1, <2>2
<1>. DEFINE dn == sign * n
            dm == sign * dy
<1>5. /\ c.asset \in [Accounts -> Int] /\ c.asset[u] \in Int /\ dn \in Int
      /\ c.stable \in [Accounts -> Int] /\ c.stable[u] \in Int /\ dm \in Int
  BY <1>1, <1>2 DEF Typed
<1>6. IsSet(from, c.asset, u, c.asset[u] - dn) /\ IsSet(pay, c.stable, u, c.stable[u] + dm)
  BY <1>5 DEF IsSet
<1>7. /\ from \in [Accounts -> Int]
      /\ SumFunction(from) = SumFunction(c.asset) + (c.asset[u] - dn) - c.asset[u]
      /\ pay \in [Accounts -> Int]
      /\ SumFunction(pay) = SumFunction(c.stable) + (c.stable[u] + dm) - c.stable[u]
  <2>1. IsSet(from, c.asset, u, c.asset[u] - dn)
    BY <1>6
  <2>2. IsSet(pay, c.stable, u, c.stable[u] + dm)
    BY <1>6
  <2>. HIDE DEF from, pay, dn, dm
  <2>3. /\ from \in [Accounts -> Int]
        /\ SumFunction(from) = SumFunction(c.asset) + (c.asset[u] - dn) - c.asset[u]
    BY <2>1, SumIsSet
  <2>4. /\ pay \in [Accounts -> Int]
        /\ SumFunction(pay) = SumFunction(c.stable) + (c.stable[u] + dm) - c.stable[u]
    BY <2>2, SumIsSet
  <2>. QED  BY <2>3, <2>4
<1>8. /\ e.asset = [from EXCEPT ![l] = from[l] + dn]
      /\ e.stable = [pay EXCEPT ![l] = pay[l] - dm - ins]
  BY <1>4
<1>. HIDE DEF from, pay, dn, dm, e
<1>9. from[l] \in Int /\ pay[l] \in Int
  BY <1>7
<1>10. IsSet(e.asset, from, l, from[l] + dn) /\ IsSet(e.stable, pay, l, pay[l] - dm - ins)
  BY <1>5, <1>7, <1>8, <1>9 DEF IsSet
<1>11. /\ e.asset \in [Accounts -> Int]
       /\ SumFunction(e.asset) = SumFunction(from) + (from[l] + dn) - from[l]
       /\ e.stable \in [Accounts -> Int]
       /\ SumFunction(e.stable) = SumFunction(pay) + (pay[l] - dm - ins) - pay[l]
  BY <1>10, SumIsSet
<1>12. SumFunction(e.asset) = SumFunction(c.asset)
  BY <1>1, <1>5, <1>7, <1>9, <1>11 DEF Ints
<1>13. SumFunction(e.stable) = SumFunction(c.stable) - ins
  BY <1>1, <1>5, <1>7, <1>9, <1>11 DEF Ints
<1>14. Typed(e)
  BY <1>1, <1>4, <1>11 DEF Typed
<1>15. e \in Books
  BY <1>4, <1>14, TypedAreBooks
<1>16. PoolGap(e) = PoolGap(c) /\ ExposureGap(e) = ExposureGap(c)
  BY <1>4, <1>12 DEF PoolGap, ExposureGap
<1>17. Slack(e) <= Slack(c) + (-ins)
  BY <1>1, <1>4, <1>13 DEF Slack, Ints
<1>18. e.fund = c.fund /\ e.total = c.total /\ -ins \in Int
  BY <1>4
<1>19. Moves(c, e, -ins)
  BY <1>15, <1>16, <1>17, <1>18, MovesWithoutFund
<1>20. Moves(e, AssignFee(e, ins, l), ins)
  BY <1>15, AssignFeeMoves
<1>21. Moves(c, AssignFee(e, ins, l), (-ins) + ins)
  BY <1>18, <1>19, <1>20, MovesTrans
<1>. QED  BY <1>3, <1>21

\* The liquidity that is pulled from the victim.
LEMMA PulledMoves ==
    ASSUME NEW c \in Books, NEW u \in Accounts, NEW r, NEW full \in BOOLEAN,
           r[1] \in Nat, r[1] <= c.poolStable, r[2] \in Nat, r[2] <= c.poolAsset,
           NEW d \in Pulled(c, u, r, full)
    PROVE  Moves(c, d, 0)
<1>1. PICK out \in IF full THEN {r} ELSE (0..r[1]) \X (0..r[2]) :
      \E fee \in FeesOf(out[1], out[2]) : d = Withdraw(c, u, r, out[1], out[2], fee)
  BY DEF Pulled
<1>2. PICK fee \in FeesOf(out[1], out[2]) : d = Withdraw(c, u, r, out[1], out[2], fee)
  BY <1>1
<1>3. fee \in Nat
  BY InputsAreNat DEF FeesOf
<1>4. c.poolStable \in Nat /\ c.poolAsset \in Nat
  BY BooksAreTyped DEF Typed
<1>5. /\ out[1] \in Nat /\ out[1] <= c.poolStable
      /\ out[2] \in Nat /\ out[2] <= c.poolAsset
  BY <1>4
<1>. QED  BY <1>2, <1>3, <1>5, WithdrawMoves

\* The PnL that is realized is moved between position and collateral.
LEMMA RealizeMoves ==
    ASSUME NEW c \in Books, NEW u \in Accounts, NEW p \in BOOLEAN, NEW pnl \in Int,
           c.collateral[u] + pnl \in Nat
    PROVE  Moves(c, [c EXCEPT !.provides[u] = p, !.stable[u] = @ - pnl,
                              !.collateral[u] = @ + pnl], 0)
<1>. DEFINE d == [c EXCEPT !.provides[u] = p, !.stable[u] = @ - pnl,
                           !.collateral[u] = @ + pnl]
<1>1. IsBook(c) /\ Typed(c) /\ Ints(c)
  BY BooksAreTyped, BooksInts
<1>2. /\ IsBook(d)
      /\ d.provides = [c.provides EXCEPT ![u] = p]
      /\ d.stable = [c.stable EXCEPT ![u] = c.stable[u] - pnl]
      /\ d.collateral = [c.collateral EXCEPT ![u] = c.collateral[u] + pnl]
      /\ d.asset = c.asset
      /\ d.debtStable = c.debtStable /\ d.debtAsset = c.debtAsset
      /\ d.exposure = c.exposure /\ d.fund = c.fund /\ d.total = c.total
      /\ d.poolStable = c.poolStable /\ d.poolAsset = c.poolAsset
      /\ d.lostAsset = c.lostAsset /\ d.lostStable = c.lostStable
  BY <1>1 DEF IsBook, Fields
<1>. HIDE DEF d
<1>3. /\ c.stable \in [Accounts -> Int] /\ c.stable[u] \in Int
      /\ c.collateral \in [Accounts -> Int] /\ c.collateral[u] \in Int
  BY <1>1 DEF Typed
<1>4. SumFunction(d.stable) = SumFunction(c.stable) - pnl
  <2>1. IsSet(d.stable, c.stable, u, c.stable[u] - pnl)
    BY <1>2, <1>3 DEF IsSet
  <2>. QED  BY <2>1, SumIsSet, <1>1, <1>3 DEF Ints
<1>5. SumFunction(d.collateral) = SumFunction(c.collateral) + pnl
  <2>1. IsSet(d.collateral, c.collateral, u, c.collateral[u] + pnl)
    BY <1>2, <1>3 DEF IsSet
  <2>. QED  BY <2>1, SumIsSet, <1>1, <1>3 DEF Ints
<1>6. Typed(d)
  BY <1>1, <1>2 DEF Typed
<1>7. d \in Books
  BY <1>2, <1>6, TypedAreBooks
<1>8. PoolGap(d) = PoolGap(c) /\ ExposureGap(d) = ExposureGap(c)
  BY <1>2 DEF PoolGap, ExposureGap
<1>9. Slack(d) <= Slack(c) + 0
  BY <1>1, <1>2, <1>4, <1>5 DEF Slack, Ints
<1>10. d.fund = c.fund /\ d.total = c.total
  BY <1>2
<1>11. Moves(c, d, 0)
  BY <1>7, <1>8, <1>9, <1>10, MovesWithoutFund
<1>. QED  BY <1>11 DEF d

\* From books c to books d: as Moves, but collateral may enter or leave.
Keeps(c, d) ==
    /\ d \in Books
    /\ PoolGap(d) = PoolGap(c)
    /\ ExposureGap(d) = ExposureGap(c)
    /\ Slack(d) <= Slack(c)
    /\ Value(c.fund) <= FundCap => Value(d.fund) <= FundCap

\* Collateral that enters or leaves: the total keeps up with the account of u.
Collects(c, d, u, m, n) ==
    /\ c \in Books /\ u \in Accounts /\ m \in Nat /\ n \in Nat
    /\ m - c.collateral[u] <= n - c.total
    /\ d = [c EXCEPT !.collateral[u] = m, !.total = n]

\* Such a movement unbalances nothing and creates no value.
LEMMA CollectsKeeps ==
    ASSUME NEW c, NEW d, NEW u, NEW m, NEW n, Collects(c, d, u, m, n)
    PROVE  Keeps(c, d) /\ d.fund = c.fund /\ d.total = n
<1>1. /\ IsBook(c) /\ Typed(c) /\ Ints(c)
      /\ m \in Nat /\ n \in Nat /\ u \in Accounts
      /\ m - c.collateral[u] <= n - c.total
  BY BooksAreTyped, BooksInts DEF Collects
<1>2. /\ IsBook(d)
      /\ d.collateral = [c.collateral EXCEPT ![u] = m]
      /\ d.total = n
      /\ d.stable = c.stable /\ d.asset = c.asset
      /\ d.debtStable = c.debtStable /\ d.debtAsset = c.debtAsset
      /\ d.provides = c.provides /\ d.exposure = c.exposure /\ d.fund = c.fund
      /\ d.poolStable = c.poolStable /\ d.poolAsset = c.poolAsset
      /\ d.lostAsset = c.lostAsset /\ d.lostStable = c.lostStable
  BY <1>1 DEF Collects, IsBook, Fields
<1>3. c.collateral \in [Accounts -> Int] /\ c.collateral[u] \in Int
  BY <1>1 DEF Typed
<1>4. SumFunction(d.collateral) = SumFunction(c.collateral) + m - c.collateral[u]
  <2>1. IsSet(d.collateral, c.collateral, u, m)
    BY <1>1, <1>2, <1>3 DEF IsSet
  <2>. QED  BY <2>1, SumIsSet
<1>5. Typed(d)
  BY <1>1, <1>2 DEF Typed
<1>6. d \in Books
  BY <1>2, <1>5, TypedAreBooks
<1>7. PoolGap(d) = PoolGap(c) /\ ExposureGap(d) = ExposureGap(c)
  BY <1>2 DEF PoolGap, ExposureGap
<1>8. Slack(d) <= Slack(c)
  BY <1>1, <1>2, <1>3, <1>4 DEF Slack, Ints
<1>9. Value(c.fund) <= FundCap => Value(d.fund) <= FundCap
  BY <1>2
<1>. QED  BY <1>2, <1>6, <1>7, <1>8, <1>9 DEF Keeps
-----------------------------------------------------------------------------
(* The calls.                                                              *)

\* A trade, of either side.
LEMMA TradeMoves ==
    ASSUME b \in Books, NEW u \in Accounts, ExecuteTrade(u)
    PROVE  Moves(b, b', 0)
<1>1. PICK c \in Funded(b), size \in Amounts, frontend \in Frontends :
            Takes(Longs(c, u, size, frontend) \cup Shorts(c, u, size, frontend))
  BY DEF ExecuteTrade
<1>2. size \in Nat
  BY InputsAreNat
<1>3. Moves(b, c, 0)
  BY FundedMoves
<1>4. b' \in Longs(c, u, size, frontend) \cup Shorts(c, u, size, frontend)
  BY <1>1 DEF Takes
<1>5. c \in Books
  BY <1>3 DEF Moves
<1>6. Moves(c, b', 0)
  BY <1>2, <1>4, <1>5, LongsMove, ShortsMove, FrontendsKnown
<1>7. Moves(b, b', 0 + 0)
  BY <1>3, <1>6, MovesTrans
<1>. QED  BY <1>7

\* The fee of a deposit, given to the pool first, is in the debt of the LP.
LEMMA AddLiquidityMoves ==
    ASSUME b \in Books, NEW u \in Accounts, AddLiquidity(u)
    PROVE  Moves(b, b', 0)
<1>1. PICK c \in Funded(b), x, y \in Amounts \cup {0} :
      \E fee \in IF c.poolStable + c.poolAsset = 0 THEN {0} ELSE Fees :
          Takes({Deposit(DistributeFee(c, fee), u, r, x, y, fee) :
                    r \in Recoveries(DistributeFee(c, fee), u)})
  BY DEF AddLiquidity
<1>2. PICK fee \in IF c.poolStable + c.poolAsset = 0 THEN {0} ELSE Fees :
          Takes({Deposit(DistributeFee(c, fee), u, r, x, y, fee) :
                    r \in Recoveries(DistributeFee(c, fee), u)})
  BY <1>1
<1>. DEFINE d == DistributeFee(c, fee)
<1>3. fee \in Nat /\ x \in Nat /\ y \in Nat
  BY InputsAreNat
<1>4. Moves(b, c, 0)
  BY FundedMoves
<1>5. Moves(c, d, fee)
  BY <1>3, <1>4, DistributeFeeMoves DEF Moves
<1>6. PICK r : b' = Deposit(d, u, r, x, y, fee)
  BY <1>2 DEF Takes
<1>. HIDE DEF d
<1>7. Moves(d, b', -fee)
  BY <1>3, <1>5, <1>6, DepositMoves DEF Moves
<1>8. Moves(b, d, 0 + fee)
  BY <1>3, <1>4, <1>5, MovesTrans
<1>9. 0 + fee \in Int /\ -fee \in Int /\ (0 + fee) + (-fee) = 0
  BY <1>3
<1>10. Moves(b, b', (0 + fee) + (-fee))
  BY <1>7, <1>8, <1>9, MovesTrans
<1>. QED  BY <1>9, <1>10

\* A withdrawal of a part of the LP balance or all of it.
LEMMA RemoveLiquidityMoves ==
    ASSUME b \in Books, NEW u \in Accounts, RemoveLiquidity(u)
    PROVE  Moves(b, b', 0)
<1>1. PICK c \in Funded(b), fee \in Fees : \E r \in Recoveries(c, u) :
      \E x \in 0..r[1], y \in 0..r[2] : Takes({Withdraw(c, u, r, x, y, fee)})
  BY DEF RemoveLiquidity
<1>2. PICK r \in Recoveries(c, u) :
      \E x \in 0..r[1], y \in 0..r[2] : Takes({Withdraw(c, u, r, x, y, fee)})
  BY <1>1
<1>3. PICK x \in 0..r[1], y \in 0..r[2] : Takes({Withdraw(c, u, r, x, y, fee)})
  BY <1>2
<1>4. Moves(b, c, 0)
  BY FundedMoves
<1>5. c \in Books
  BY <1>4 DEF Moves
<1>6. fee \in Nat /\ c.poolStable \in Nat /\ c.poolAsset \in Nat
  BY <1>5, BooksAreTyped, InputsAreNat DEF Typed
<1>7. /\ r[1] \in Nat /\ r[1] <= c.poolStable
      /\ r[2] \in Nat /\ r[2] <= c.poolAsset
  BY <1>5, RecoveriesAre
<1>8. x \in Nat /\ y \in Nat /\ x <= c.poolStable /\ y <= c.poolAsset
  BY <1>6, <1>7
<1>9. Moves(c, Withdraw(c, u, r, x, y, fee), 0)
  BY <1>5, <1>6, <1>8, WithdrawMoves
<1>10. b' = Withdraw(c, u, r, x, y, fee)
  BY <1>3 DEF Takes
<1>11. Moves(b, b', 0 + 0)
  BY <1>4, <1>9, <1>10, MovesTrans
<1>. QED  BY <1>11

\* A realised loss never exceeds the collateral (R1).
LEMMA RealizePnLMoves ==
    ASSUME b \in Books, NEW u \in Accounts, RealizePnL(u)
    PROVE  Moves(b, b', 0)
<1>1. PICK c \in Funded(b) : \E r \in Recoveries(c, u) : \E pnl \in PnLs(c, u, r) :
        /\ Covered(c, u, pnl)
        /\ Takes({[c EXCEPT !.provides[u] = r # <<0, 0>>,
                            !.stable[u] = @ - pnl,
                            !.collateral[u] = @ + pnl]})
  BY DEF RealizePnL
<1>2. PICK r \in Recoveries(c, u) : \E pnl \in PnLs(c, u, r) :
        /\ Covered(c, u, pnl)
        /\ Takes({[c EXCEPT !.provides[u] = r # <<0, 0>>,
                            !.stable[u] = @ - pnl,
                            !.collateral[u] = @ + pnl]})
  BY <1>1
<1>3. PICK pnl \in PnLs(c, u, r) :
        /\ Covered(c, u, pnl)
        /\ Takes({[c EXCEPT !.provides[u] = r # <<0, 0>>,
                            !.stable[u] = @ - pnl,
                            !.collateral[u] = @ + pnl]})
  BY <1>2
<1>4. Moves(b, c, 0)
  BY FundedMoves
<1>5. c \in Books
  BY <1>4 DEF Moves
<1>6. /\ c.stable[u] \in Int /\ c.debtStable[u] \in Int /\ c.collateral[u] \in Nat
      /\ r[1] \in Nat
  BY <1>5, BooksAreTyped, RecoveriesAre DEF Typed
<1>7. pnl \in Int
  <2>1. PICK v \in Int : pnl = c.stable[u] + r[1] - c.debtStable[u] + v
    BY InputsAreNat DEF PnLs
  <2>. QED  BY <1>6, <2>1
<1>8. c.collateral[u] + pnl \in Nat
  BY <1>3, <1>6, <1>7 DEF Covered
<1>9. (r # <<0, 0>>) \in BOOLEAN
  OBVIOUS
<1>10. Moves(c, b', 0)
  <2>. DEFINE p == r # <<0, 0>>
  <2>1. p \in BOOLEAN
    BY <1>9
  <2>2. b' = [c EXCEPT !.provides[u] = p, !.stable[u] = @ - pnl, !.collateral[u] = @ + pnl]
    <3>1. Takes({[c EXCEPT !.provides[u] = p, !.stable[u] = @ - pnl,
                           !.collateral[u] = @ + pnl]})
      BY <1>3
    <3>. HIDE DEF p
    <3>. QED  BY <3>1 DEF Takes
  <2>. HIDE DEF p
  <2>. QED  BY <1>5, <1>7, <1>8, <2>1, <2>2, RealizeMoves
<1>11. Moves(b, b', 0 + 0)
  BY <1>4, <1>10, MovesTrans
<1>. QED  BY <1>11

\* A close that has to be covered moves value and leaves the fund alone.
LEMMA OwnCloseMoves ==
    ASSUME NEW c \in Books, NEW u \in Accounts, NEW frontend \in Accounts \cup {Nobody},
           NEW d \in Close(c, u, frontend, TRUE)
    PROVE  Moves(c, d, 0)
<1>1. Settles(c, d, u) /\ Value(c.fund) <= Value(d.fund)
  BY CloseSettles
<1>2. Ints(c)
  BY BooksAreTyped, BooksInts
<1>3. Slack(c) \in Int
  BY <1>2 DEF Slack, Ints
<1>4. Slack(d) <= Slack(c) + 0
  BY <1>1, <1>3 DEF Settles
<1>. QED  BY <1>1, <1>4 DEF Settles, Moves

\* A close by the owner.
LEMMA CloseAndWithdrawMoves ==
    ASSUME b \in Books, NEW u \in Accounts, CloseAndWithdraw(u)
    PROVE  Moves(b, b', 0)
<1>1. PICK c \in Funded(b), frontend \in Frontends : b' \in Close(c, u, frontend, TRUE)
  BY DEF CloseAndWithdraw, Takes
<1>2. Moves(b, c, 0)
  BY FundedMoves
<1>3. Moves(c, b', 0)
  BY <1>1, <1>2, OwnCloseMoves, FrontendsKnown DEF Moves
<1>4. Moves(b, b', 0 + 0)
  BY <1>2, <1>3, MovesTrans
<1>. QED  BY <1>4

\* An auto-close, its fee paid from one account to the other.
LEMMA AutoCloseMoves ==
    ASSUME b \in Books, NEW caller \in Accounts, NEW u \in Accounts, AutoClose(caller, u)
    PROVE  Moves(b, b', 0)
<1>1. PICK c \in Funded(b), frontend \in Frontends :
        b' \in Close([c EXCEPT
            !.stable = [[c.stable EXCEPT ![u] = @ - AutoCloseFee]
                            EXCEPT ![caller] = @ + AutoCloseFee]], u, frontend, TRUE)
  BY DEF AutoClose, Takes
<1>. DEFINE d == [c EXCEPT
            !.stable = [[c.stable EXCEPT ![u] = @ - AutoCloseFee]
                            EXCEPT ![caller] = @ + AutoCloseFee]]
<1>2. Moves(b, c, 0)
  BY FundedMoves
<1>3. Moves(c, d, 0)
  <2>1. AutoCloseFee \in Int /\ c \in Books
    BY <1>2, InputsAreNat DEF Moves
  <2>. QED  BY <2>1, TransferMoves
<1>4. b' \in Close(d, u, frontend, TRUE)
  BY <1>1
<1>. HIDE DEF d
<1>5. Moves(d, b', 0)
  BY <1>3, <1>4, OwnCloseMoves, FrontendsKnown DEF Moves
<1>6. Moves(b, d, 0 + 0)
  BY <1>2, <1>3, MovesTrans
<1>7. Moves(b, b', 0 + 0)
  BY <1>5, <1>6, MovesTrans
<1>. QED  BY <1>7

\* A deposit of collateral.
LEMMA AddCollateralKeeps ==
    ASSUME b \in Books, NEW u \in Accounts, AddCollateral(u)
    PROVE  Keeps(b, b') /\ b'.fund = b.fund
<1>1. PICK x \in Amounts : b' = [b EXCEPT !.collateral[u] = @ + x, !.total = @ + x]
  BY DEF AddCollateral, Takes
<1>2. /\ b.collateral[u] \in Nat /\ b.total \in Nat /\ x \in Nat
  BY BooksAreTyped, InputsAreNat DEF Typed
<1>. DEFINE m == b.collateral[u] + x
            n == b.total + x
<1>3. Collects(b, b', u, m, n)
  BY <1>1, <1>2 DEF Collects
<1>. QED  BY <1>3, CollectsKeeps

\* A withdrawal of collateral.
LEMMA RemoveCollateralKeeps ==
    ASSUME b \in Books, NEW u \in Accounts, RemoveCollateral(u)
    PROVE  Keeps(b, b') /\ Value(b.fund) <= Value(b'.fund)
<1>1. PICK x \in Amounts, c \in Funded(b) :
        /\ x <= c.collateral[u]
        /\ x <= c.total
        /\ b' = [c EXCEPT !.collateral[u] = IF x = c.total THEN 0 ELSE @ - x,
                          !.total = @ - x]
  BY DEF RemoveCollateral, Takes
<1>2. Moves(b, c, 0)
  BY FundedMoves
<1>3. c \in Books
  BY <1>2 DEF Moves
<1>4. /\ c.collateral[u] \in Nat /\ c.total \in Nat /\ x \in Nat
  BY <1>3, BooksAreTyped, InputsAreNat DEF Typed
<1>. DEFINE m == IF x = c.total THEN 0 ELSE c.collateral[u] - x
            n == c.total - x
<1>5. Collects(c, b', u, m, n)
  BY <1>1, <1>3, <1>4 DEF Collects
<1>6. Keeps(c, b') /\ b'.fund = c.fund
  BY <1>5, CollectsKeeps
<1>7. Ints(b) /\ Ints(c) /\ Ints(b')
  BY <1>3, <1>6, BooksAreTyped, BooksInts DEF Keeps
<1>8. Slack(b) \in Int /\ Slack(c) \in Int /\ Slack(b') \in Int
  BY <1>7 DEF Slack, Ints
<1>9. Slack(b') <= Slack(b)
  BY <1>2, <1>6, <1>8 DEF Moves, Keeps
<1>10. Value(b'.fund) = Value(c.fund)
  BY <1>6
<1>. QED  BY <1>2, <1>6, <1>9, <1>10 DEF Moves, Keeps

\* A liquidation; when the fund falls the total collateral stays.
LEMMA LiquidateKeeps ==
    ASSUME b \in Books, NEW l \in Accounts, NEW u \in Accounts, Liquidate(l, u)
    PROVE  /\ Keeps(b, b')
           /\ Value(b'.fund) < Value(b.fund) => b'.total = b.total
<1>1. PICK c \in Funded(b), kept \in BOOLEAN : \E r \in Recoveries(c, u) :
        LET size == DiffAbs(NetAsset(c, u, r), 0)
            long == NetAsset(c, u, r) > 0
            settled == [c EXCEPT !.provides = [[c.provides EXCEPT ![l] = @ /\ kept]
                                                   EXCEPT ![u] = r # <<0, 0>>]]
        IN  /\ l # u
            /\ kept => c.provides[l]
            /\ size > 0
            /\ \E d \in 1..size + Overshoot, dy \in Amounts, ins \in Fees :
                \E p \in Pulled(settled, u, r, d >= size) :
                    LET seized == Seize(p, l, u, long, d, dy, ins)
                    IN  Takes(IF d < size THEN {seized}
                              ELSE {PaidOut(e, u) : e \in
                                   {e \in Close(seized, u, l, FALSE) :
                                        e.collateral[u] <= e.total}})
  BY DEF Liquidate
<1>2. PICK r \in Recoveries(c, u) :
        LET size == DiffAbs(NetAsset(c, u, r), 0)
            long == NetAsset(c, u, r) > 0
            settled == [c EXCEPT !.provides = [[c.provides EXCEPT ![l] = @ /\ kept]
                                                   EXCEPT ![u] = r # <<0, 0>>]]
        IN  \E d \in 1..size + Overshoot, dy \in Amounts, ins \in Fees :
                \E p \in Pulled(settled, u, r, d >= size) :
                    LET seized == Seize(p, l, u, long, d, dy, ins)
                    IN  Takes(IF d < size THEN {seized}
                              ELSE {PaidOut(e, u) : e \in
                                   {e \in Close(seized, u, l, FALSE) :
                                        e.collateral[u] <= e.total}})
  BY <1>1
<1>. DEFINE size == DiffAbs(NetAsset(c, u, r), 0)
            long == NetAsset(c, u, r) > 0
            settled == [c EXCEPT !.provides = [[c.provides EXCEPT ![l] = @ /\ kept]
                                                   EXCEPT ![u] = r # <<0, 0>>]]
<1>3. PICK n \in 1..size + Overshoot, dy \in Amounts, ins \in Fees :
        \E p \in Pulled(settled, u, r, n >= size) :
            Takes(IF n < size THEN {Seize(p, l, u, long, n, dy, ins)}
                  ELSE {PaidOut(e, u) : e \in
                       {e \in Close(Seize(p, l, u, long, n, dy, ins), u, l, FALSE) :
                            e.collateral[u] <= e.total}})
  BY <1>2
<1>. DEFINE full == n >= size
            active == r # <<0, 0>>
            snapshots == [[c.provides EXCEPT ![l] = @ /\ kept] EXCEPT ![u] = active]
<1>4. PICK p \in Pulled(settled, u, r, full) :
        Takes(IF n < size THEN {Seize(p, l, u, long, n, dy, ins)}
              ELSE {PaidOut(e, u) : e \in
                   {e \in Close(Seize(p, l, u, long, n, dy, ins), u, l, FALSE) :
                        e.collateral[u] <= e.total}})
  BY <1>3
<1>5. Moves(b, c, 0)
  BY FundedMoves
<1>6. c \in Books
  BY <1>5 DEF Moves
<1>7. /\ r[1] \in Nat /\ r[1] <= c.poolStable
      /\ r[2] \in Nat /\ r[2] <= c.poolAsset
  BY <1>6, RecoveriesAre
<1>8. long \in BOOLEAN /\ full \in BOOLEAN /\ active \in BOOLEAN
  OBVIOUS
<1>. HIDE DEF size, long, active, full
<1>9. snapshots \in [Accounts -> BOOLEAN]
  <2>1. c.provides \in [Accounts -> BOOLEAN] /\ (c.provides[l] /\ kept) \in BOOLEAN
    BY <1>6, BooksAreTyped DEF Typed
  <2>2. [c.provides EXCEPT ![l] = c.provides[l] /\ kept] \in [Accounts -> BOOLEAN]
    BY <2>1, Zenon
  <2>. QED  BY <1>8, <2>2
<1>. HIDE DEF snapshots
<1>10. n \in Nat /\ dy \in Nat /\ ins \in Nat
  <2>1. size + Overshoot \in Int
    <3>1. c.asset[u] \in Int /\ c.debtAsset[u] \in Int
      BY <1>6, BooksAreTyped DEF Typed
    <3>. QED  BY <1>7, <3>1, InputsAreNat DEF size, DiffAbs, NetAsset
  <2>. QED  BY <2>1, InputsAreNat
<1>11. Moves(c, settled, 0)
  <2>1. settled = [c EXCEPT !.provides = snapshots]
    BY DEF snapshots, active
  <2>. QED  BY <1>6, <1>9, <2>1, SettledMoves
<1>12. settled.poolStable = c.poolStable /\ settled.poolAsset = c.poolAsset
  BY <1>6, BooksAreTyped DEF IsBook, Fields
<1>. HIDE DEF settled
<1>13. Moves(settled, p, 0)
  BY <1>7, <1>8, <1>11, <1>12, PulledMoves DEF Moves
<1>. DEFINE s == Seize(p, l, u, long, n, dy, ins)
<1>14. Moves(p, s, 0)
  BY <1>8, <1>10, <1>13, SeizeMoves DEF Moves
<1>15. Moves(b, settled, 0 + 0)
  BY <1>5, <1>11, MovesTrans
<1>16. Moves(b, p, 0 + 0)
  BY <1>13, <1>15, MovesTrans
<1>17. Moves(b, s, 0 + 0)
  BY <1>14, <1>16, MovesTrans
<1>18. Takes(IF n < size THEN {s}
             ELSE {PaidOut(e, u) : e \in
                  {e \in Close(s, u, l, FALSE) : e.collateral[u] <= e.total}})
  BY <1>4
<1>. HIDE DEF s
<1>19. Ints(b) /\ Slack(b) \in Int /\ Ints(s) /\ Slack(s) \in Int
  BY <1>17, BooksAreTyped, BooksInts DEF Moves, Slack, Ints
<1>20. Slack(s) <= Slack(b)
  BY <1>17, <1>19 DEF Moves
<1>21. CASE n < size
  <2>1. b' = s
    BY <1>18, <1>21 DEF Takes
  <2>. QED  BY <2>1, <1>17, <1>20 DEF Moves, Keeps
<1>22. CASE ~ (n < size)
  <2>1. PICK e \in Close(s, u, l, FALSE) : e.collateral[u] <= e.total /\ b' = PaidOut(e, u)
    BY <1>18, <1>22 DEF Takes
  <2>2. Settles(s, e, u)
    <3>1. s \in Books /\ l \in Accounts \cup {Nobody} /\ FALSE \in BOOLEAN
      BY <1>17 DEF Moves
    <3>. QED  BY <3>1, CloseSettles
  <2>3. e \in Books
    BY <2>2 DEF Settles
  <2>. DEFINE left == e.total - e.collateral[u]
  <2>4. e.collateral[u] \in Nat /\ e.total \in Nat
    BY <2>3, BooksAreTyped DEF Typed
  <2>5. left \in Nat /\ 0 - e.collateral[u] <= left - e.total
        /\ (e.collateral[u] = 0 => left = e.total)
    BY <2>1, <2>4
  <2>6. b' = [e EXCEPT !.collateral[u] = 0, !.total = left]
    <3>1. IsBook(e)
      BY <2>3, BooksAreTyped
    <3>. QED  BY <2>1, <3>1 DEF PaidOut, IsBook, Fields
  <2>. HIDE DEF left
  <2>7. Collects(e, b', u, 0, left)
    <3>1. 0 \in Nat
      OBVIOUS
    <3>. QED  BY <3>1, <2>3, <2>5, <2>6 DEF Collects
  <2>8. Keeps(e, b') /\ b'.fund = e.fund /\ b'.total = left
    BY <2>7, CollectsKeeps
  <2>9. Ints(e) /\ Slack(e) \in Int /\ Ints(b') /\ Slack(b') \in Int
    BY <2>3, <2>8, BooksAreTyped, BooksInts DEF Keeps, Slack, Ints
  <2>10. Slack(b') <= Slack(b)
    BY <1>19, <1>20, <2>2, <2>8, <2>9 DEF Settles, Keeps
  <2>11. Keeps(b, b')
    BY <1>17, <2>2, <2>8, <2>10 DEF Moves, Settles, Keeps
  <2>12. Value(b'.fund) < Value(b.fund) => b'.total = b.total
    <3>1. Value(b'.fund) = Value(e.fund)
      BY <2>8
    <3>2. Value(b'.fund) < Value(b.fund) => Value(e.fund) < Value(s.fund)
      BY <1>17, <1>19, <2>9, <3>1 DEF Moves, Ints
    <3>. QED  BY <1>17, <2>2, <2>5, <2>8, <3>2 DEF Moves, Settles
  <2>. QED  BY <2>11, <2>12
<1>. QED  BY <1>21, <1>22
-----------------------------------------------------------------------------
(* The theorems.                                                           *)

\* The inductive invariant: typed books, whose gaps are closed and whose slack
\* is not positive, with a fund below its cap.
IInv ==
    /\ b \in Books
    /\ PoolGap(b) = 0
    /\ ExposureGap(b) = 0
    /\ Slack(b) <= 0
    /\ Value(b.fund) <= FundCap

\* The empty books satisfy the invariant.
LEMMA InitIInv ==
    ASSUME Init
    PROVE  IInv
<1>1. /\ IsBook(b)
      /\ b.stable = Zero /\ b.asset = Zero /\ b.debtStable = Zero /\ b.debtAsset = Zero
      /\ b.collateral = Zero /\ b.provides = [u \in Accounts |-> FALSE]
      /\ b.poolStable = 0 /\ b.poolAsset = 0 /\ b.total = 0
      /\ b.exposure = Minus(0) /\ b.fund = Plus(0)
      /\ b.lostAsset = 0 /\ b.lostStable = 0
  BY DEF Init, IsBook, Fields
<1>2. /\ Minus(0) \in Signed /\ Value(Minus(0)) = 0
      /\ Plus(0) \in Signed /\ Value(Plus(0)) = 0
  <2>1. Minus(0) \in Signed /\ Plus(0) \in Signed
    BY DEF Minus, Plus, Signed
  <2>2. Value(Plus(0)) = 0
    BY DEF Plus, Value
  <2>3. ASSUME NEW n \in Nat, n = 0
        PROVE  Value(Minus(n)) = 0
    <3>1. Value(Minus(n)) = -n
      BY DEF Minus, Value
    <3>2. -n \in Int /\ n + (-n) = 0
      OBVIOUS
    <3>. QED  BY <2>3, <3>1, <3>2
  <2>. QED  BY <2>1, <2>2, <2>3
<1>3. Zero \in [Accounts -> Nat] /\ Zero \in [Accounts -> Int]
  BY DEF Zero
<1>4. SumFunction(Zero) = 0
  BY AccountsFinite, SumZero DEF Zero
<1>5. [u \in Accounts |-> FALSE] \in [Accounts -> BOOLEAN]
  OBVIOUS
<1>6. Typed(b)
  BY <1>1, <1>2, <1>3, <1>5 DEF Typed
<1>7. b \in Books
  BY <1>1, <1>6, TypedAreBooks
<1>8. PoolGap(b) = 0 /\ ExposureGap(b) = 0
  BY <1>1, <1>2, <1>4 DEF PoolGap, ExposureGap
<1>9. Slack(b) <= 0
  BY <1>1, <1>2, <1>4 DEF Slack
<1>10. Value(b.fund) <= FundCap
  BY <1>1, <1>2, InputsAreNat
<1>. QED  BY <1>7, <1>8, <1>9, <1>10 DEF IInv

\* Moves of value are kept by the invariant.
LEMMA MovesKeep ==
    ASSUME NEW c \in Books, NEW d, Moves(c, d, 0)
    PROVE  Keeps(c, d)
<1>1. Ints(c)
  BY BooksAreTyped, BooksInts
<1>2. Slack(c) \in Int
  BY <1>1 DEF Slack, Ints
<1>3. Slack(d) <= Slack(c)
  BY <1>2 DEF Moves
<1>. QED  BY <1>3 DEF Moves, Keeps

\* Every call but a liquidation keeps the balances and leaves the fund no lower;
\* all but the two of the vault leave the total collateral alone.
LEMMA StepKeeps ==
    ASSUME b \in Books, Next
    PROVE  /\ Keeps(b, b')
           /\ Value(b'.fund) < Value(b.fund) =>
                b'.total = b.total /\ \E v, u \in Accounts : Liquidate(v, u)
<1>1. ASSUME Keeps(b, b'), Value(b.fund) <= Value(b'.fund)
      PROVE  ~ (Value(b'.fund) < Value(b.fund))
  <2>1. Ints(b) /\ Ints(b')
    BY <1>1, BooksAreTyped, BooksInts DEF Keeps
  <2>. QED  BY <1>1, <2>1 DEF Ints
<1>2. ASSUME Moves(b, b', 0)
      PROVE  Keeps(b, b') /\ ~ (Value(b'.fund) < Value(b.fund))
  BY <1>1, <1>2, MovesKeep DEF Moves
<1>3. CASE UpdateFGKeeper
  <2>1. b' \in Funded(b)
    BY <1>3 DEF UpdateFGKeeper, Takes
  <2>2. Moves(b, b', 0)
    BY <2>1, FundedMoves
  <2>. QED  BY <1>2, <2>2
<1>4. CASE \E u \in Accounts : AddCollateral(u)
  <2>1. Keeps(b, b') /\ b'.fund = b.fund
    BY <1>4, AddCollateralKeeps
  <2>2. Value(b.fund) <= Value(b'.fund)
    <3>1. Value(b.fund) \in Int
      BY BooksAreTyped, BooksInts DEF Ints
    <3>. QED  BY <2>1, <3>1
  <2>. QED  BY <1>1, <2>1, <2>2
<1>5. CASE \E u \in Accounts : RemoveCollateral(u)
  BY <1>1, <1>5, RemoveCollateralKeeps
<1>6. CASE \E u \in Accounts : ExecuteTrade(u)
  BY <1>2, <1>6, TradeMoves
<1>7. CASE \E u \in Accounts : AddLiquidity(u)
  BY <1>2, <1>7, AddLiquidityMoves
<1>8. CASE \E u \in Accounts : RemoveLiquidity(u)
  BY <1>2, <1>8, RemoveLiquidityMoves
<1>9. CASE \E u \in Accounts : RealizePnL(u)
  BY <1>2, <1>9, RealizePnLMoves
<1>10. CASE \E u \in Accounts : CloseAndWithdraw(u)
  BY <1>2, <1>10, CloseAndWithdrawMoves
<1>11. CASE \E v, u \in Accounts : AutoClose(v, u)
  BY <1>2, <1>11, AutoCloseMoves
<1>12. CASE \E v, u \in Accounts : Liquidate(v, u)
  BY <1>12, LiquidateKeeps
<1>. QED  BY <1>3, <1>4, <1>5, <1>6, <1>7, <1>8, <1>9, <1>10, <1>11, <1>12 DEF Next

\* Every call preserves the invariant.
LEMMA NextIInv ==
    ASSUME IInv, [Next]_b
    PROVE  IInv'
<1>1. CASE Next
  <2>1. Keeps(b, b')
    BY <1>1, StepKeeps DEF IInv
  <2>2. Ints(b) /\ Slack(b) \in Int /\ Ints(b') /\ Slack(b') \in Int
    BY <2>1, BooksAreTyped, BooksInts DEF IInv, Keeps, Slack, Ints
  <2>3. Slack(b') <= 0
    BY <2>1, <2>2 DEF IInv, Keeps
  <2>. QED  BY <2>1, <2>3 DEF IInv, Keeps
<1>2. CASE UNCHANGED b
  BY <1>2 DEF IInv
<1>. QED  BY <1>1, <1>2

\* The invariant holds of every reachable state.
LEMMA Invariance == Spec => []IInv
<1>1. Init => IInv
  BY InitIInv
<1>2. IInv /\ [Next]_b => IInv'
  BY NextIInv
<1>. QED  BY <1>1, <1>2, PTL DEF Spec

\* The books stay books: no subtraction of the code goes below zero, for every
\* set of accounts, every fee schedule, cap and dust, and every sequence of calls.
THEOREM BooksTyped == Spec => []TypeOK
<1>1. IInv => TypeOK
  BY DEF IInv, TypeOK
<1>. QED  BY <1>1, Invariance, PTL

\* The asset of the pool and the exposure add up to what the LPs borrowed.
THEOREM PoolBalance == Spec => []PoolExposureBalanced
<1>1. ASSUME IInv
      PROVE  PoolExposureBalanced
  <2>1. Ints(b)
    BY <1>1, BooksAreTyped, BooksInts DEF IInv
  <2>. DEFINE asset == b.poolAsset
              exposure == Value(b.exposure)
              debt == SumFunction(b.debtAsset)
  <2>2. asset + exposure - debt = 0
    BY <1>1 DEF IInv, PoolGap
  <2>3. asset \in Int /\ exposure \in Int /\ debt \in Int
    BY <2>1 DEF Ints
  <2>4. asset + exposure = debt
    <3>. HIDE DEF asset, exposure, debt
    <3>. QED  BY <2>2, <2>3
  <2>. QED  BY <2>4 DEF PoolExposureBalanced
<1>2. IInv => PoolExposureBalanced
  BY <1>1
<1>. QED  BY <1>2, Invariance, PTL

\* The exposure is the sum of the positions but for the dust closes dropped.
THEOREM ExposureMatch == Spec => []ExposureMatches
<1>1. ASSUME IInv
      PROVE  ExposureMatches
  <2>1. Ints(b)
    BY <1>1, BooksAreTyped, BooksInts DEF IInv
  <2>. QED  BY <1>1, <2>1 DEF IInv, ExposureGap, ExposureMatches, Ints
<1>2. IInv => ExposureMatches
  BY <1>1
<1>. QED  BY <1>2, Invariance, PTL

\* What everybody owns is never worth more than what the vault holds, but for the
\* value that closes put on dust.
THEOREM Solvency == Spec => []Solvent
<1>1. ASSUME IInv
      PROVE  Solvent
  <2>1. Ints(b)
    BY <1>1, BooksAreTyped, BooksInts DEF IInv
  <2>. QED  BY <1>1, <2>1 DEF IInv, Slack, Solvent, Ints
<1>2. IInv => Solvent
  BY <1>1
<1>. QED  BY <1>2, Invariance, PTL

\* The insurance fund never holds more than its cap.
THEOREM FundBelowCap == Spec => []FundCapped
<1>1. IInv => FundCapped
  BY DEF IInv, FundCapped
<1>. QED  BY <1>1, Invariance, PTL

\* When the fund falls, no collateral leaves the vault.
THEOREM FundLast == Spec => FundPaysLast
<1>1. IInv /\ [Next]_b => [Value(b'.fund) < Value(b.fund) => b'.total = b.total]_b
  BY StepKeeps DEF IInv
<1>. QED  BY <1>1, Invariance, PTL DEF Spec, FundPaysLast

\* Only a liquidation makes the fund pay.
THEOREM DrainedByLiquidations == Spec => OnlyLiquidationsDrainFund
<1>1. IInv /\ [Next]_b =>
        [Value(b'.fund) < Value(b.fund) => \E v, u \in Accounts : Liquidate(v, u)]_b
  BY StepKeeps DEF IInv
<1>. QED  BY <1>1, Invariance, PTL DEF Spec, OnlyLiquidationsDrainFund
=============================================================================
