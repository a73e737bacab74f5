----------------------------- MODULE PerpLedger -----------------------------
(***************************************************************************)
(* The books of the perp engine and of the vault: what every account owns  *)
(* and owes, the liquidity pool, the total trader exposure, the insurance  *)
(* fund and the collateral, and how the calls of the engine move value     *)
(* between them (perp-engine/src/trade.rs, liquidity.rs, close.rs,         *)
(* liquidation.rs, auto_close.rs and src/Vault.sol).                       *)
(*                                                                         *)
(* A trader position is kept as two net amounts: stable is balanceStable - *)
(* debtStable - fundingFee, asset is balanceAsset - debtAsset.  An amount  *)
(* that the curve, the fee schedule, the price or the liquidity matrix     *)
(* decides is any amount of the ranges below, so that the conservation of  *)
(* value is shown whatever the market does; a margin, slippage or leverage *)
(* check is a call that may be refused, and its refusals are no steps.     *)
(*                                                                         *)
(* One call is one transaction: the books are one record, b, a call maps   *)
(* it through the operators below in the order of the code.                *)
(*                                                                         *)
(* An operator named Fault... is a seeded bug, the definition after it     *)
(* gone wrong in a plausible way; nothing uses it in the model.            *)
(***************************************************************************)
EXTENDS Integers, FiniteSets, Functions

CONSTANTS
    Accounts,     \* traders, LPs, liquidators, frontends
    Protocol,     \* fee_protocol_addr, one of the accounts
    Nobody,       \* the zero frontend address
    Lps,          \* bound: accounts that may provide liquidity
    Frontends,    \* bound: frontends that a call may name
    Decimals,     \* fee_fractions_decimals
    FeeLp,        \* fee_lp, out of Decimals
    FeeFrontend,  \* fee_frontend, out of Decimals
    FundCap,      \* insurance_fund_cap
    AutoCloseFee, \* auto_close_fee
    Dust,         \* the largest net asset a close may leave untraded
    Overshoot,    \* what the rounding of the liquidated fraction lets exceed 1
    Amounts,      \* bound: sizes of deposits, trades and withdrawals
    Fees,         \* bound: fees of a trade or of a liquidity movement
    Accruals,     \* bound: funding one account pays another in a call
    Limit,        \* bound: no cell of an account grows beyond this
    Depth,        \* bound: nor a leg of the pool, the total or the fund
    Lost,         \* bound: nor the residues of all closes beyond this
    Volume        \* bound: what the cells of all positions add up to

ASSUME AccountsFinite == IsFiniteSet(Accounts)
ASSUME ProtocolKnown == Protocol \in Accounts /\ Nobody \notin Accounts
ASSUME FrontendsKnown == Frontends \subseteq Accounts \cup {Nobody}
ASSUME FractionsAreNat ==
    /\ Decimals \in Nat \ {0} /\ FeeLp \in Nat /\ FeeFrontend \in Nat
    /\ FeeLp + FeeFrontend <= Decimals
ASSUME InputsAreNat ==
    /\ FundCap \in Nat /\ AutoCloseFee \in Nat /\ Dust \in Nat /\ Overshoot \in Nat
    /\ Limit \in Nat /\ Depth \in Nat /\ Lost \in Nat /\ Volume \in Nat
    /\ Amounts \subseteq Nat /\ Fees \subseteq Nat /\ Accruals \subseteq Nat

VARIABLE b

\* A magnitude and a sign, as exposure and insurance fund are stored.
Signed == [mag : Nat, sign : BOOLEAN]

Value(x) == IF x.sign THEN x.mag ELSE -x.mag
Plus(n)  == [mag |-> n, sign |-> TRUE]
Minus(n) == [mag |-> n, sign |-> FALSE]

DiffAbs(x, y) == IF x >= y THEN x - y ELSE y - x

SignedSum(x, y) ==
    IF x.sign = y.sign THEN [mag |-> x.mag + y.mag, sign |-> x.sign]
    ELSE [mag  |-> DiffAbs(x.mag, y.mag),
          sign |-> IF x.mag > y.mag THEN x.sign ELSE ~x.sign]

\* reduce_value: what is left of x when y is taken from it.
Excess(x, y) == IF x < y THEN 0 ELSE x - y

\* `provides' is whether the LP snapshot is active; `total' is the vault's
\* totalCollateral.  Auxiliary, not in the code: `lostAsset' and `lostStable'
\* add up the residues closes left untraded and the value they put on them.
Books == [stable : [Accounts -> Int], asset : [Accounts -> Int],
          debtStable : [Accounts -> Nat], debtAsset : [Accounts -> Nat],
          provides : [Accounts -> BOOLEAN],
          poolStable : Nat, poolAsset : Nat,
          exposure : Signed, fund : Signed,
          collateral : [Accounts -> Nat], total : Nat,
          lostAsset : Int, lostStable : Int]

Zero == [u \in Accounts |-> 0]

Init ==
    b = [stable |-> Zero, asset |-> Zero, debtStable |-> Zero, debtAsset |-> Zero,
         provides |-> [u \in Accounts |-> FALSE],
         poolStable |-> 0, poolAsset |-> 0,
         exposure |-> Minus(0), fund |-> Plus(0),
         collateral |-> Zero, total |-> 0, lostAsset |-> 0, lostStable |-> 0]

-----------------------------------------------------------------------------
(* Operators on the books, in the order the code calls them.               *)

Part(fee, fraction) == (fee * fraction) \div Decimals

\* The sign of the fund is forgotten.
FaultRoom(c) == FundCap + c.fund.mag

\* The fund takes what it has room for, the rest goes to an account.
Room(c) ==
    IF c.fund.sign THEN Excess(FundCap, c.fund.mag) ELSE FundCap + c.fund.mag

AssignFee(c, fee, who) ==
    IF fee <= Room(c)
    THEN [c EXCEPT !.fund = SignedSum(c.fund, Plus(fee))]
    ELSE [c EXCEPT !.fund = SignedSum(c.fund, Plus(Room(c))),
                   !.stable[who] = @ + fee - Room(c)]

PayFees(c, fee, frontend) ==
    LET d == AssignFee(c, Part(fee, Decimals - FeeLp - FeeFrontend), Protocol)
    IN  IF frontend = Nobody THEN d
        ELSE [d EXCEPT !.stable[frontend] = @ + Part(fee, FeeFrontend)]

\* The frontend's part goes back into the trade even when it was paid out.
FaultRebate(fee, frontend) == Part(fee, FeeFrontend)

\* Without a frontend its part of the fee goes back into the trade.
Rebate(fee, frontend) == IF frontend = Nobody THEN Part(fee, FeeFrontend) ELSE 0

\* T3: no leg of the pool may be drained.
PoolKept(c) == c.poolStable > 0 /\ c.poolAsset > 0

Long(c, u, size, fee, return, frontend) ==
    PayFees([c EXCEPT
        !.exposure = SignedSum(@, Plus(return)),
        !.asset[u] = @ + return,
        !.stable[u] = @ - size,
        !.poolStable = @ + size - Part(fee, Decimals - FeeLp) + Rebate(fee, frontend),
        !.poolAsset = @ - return], fee, frontend)

Short(c, u, size, gross, fee, frontend) ==
    PayFees([c EXCEPT
        !.exposure = SignedSum(@, Minus(size)),
        !.asset[u] = @ - size,
        !.stable[u] = @ + gross - fee + Rebate(fee, frontend),
        !.poolStable = @ - (gross - Part(fee, FeeLp)),
        !.poolAsset = @ + size], fee, frontend)

\* T5, and a fee never exceeds what is traded.
Longs(c, u, size, frontend) ==
    {d \in {Long(c, u, size, fee, return, frontend) :
                fee \in {f \in Fees : f < size}, return \in 0..c.poolAsset - 1}
           \cup {Long(c, u, size, size, 0, frontend)} : PoolKept(d)}

Shorts(c, u, size, frontend) ==
    {d \in UNION {{Short(c, u, size, gross, fee, frontend) :
                      fee \in {f \in Fees \cup {gross} :
                                  /\ f <= gross
                                  /\ gross - f + Rebate(f, frontend) < c.poolStable}} :
                  gross \in 0..c.poolStable} : PoolKept(d)}

\* distribute_liquidity_fee: lost when a leg of the pool is empty.
DistributeFee(c, fee) ==
    IF c.poolStable > 0 /\ c.poolAsset > 0
    THEN [c EXCEPT !.poolStable = @ + fee]
    ELSE c

\* The updates of the exposure that remove_liquidity and close spell out.
\* The sign of a crossing is not flipped.
FaultExposureUp(e, x) ==
    IF e.sign THEN Plus(e.mag + x) ELSE Minus(DiffAbs(e.mag, x))

ExposureUp(e, x) ==
    CASE x = 0  -> e
      [] x > 0 /\ e.sign  -> Plus(e.mag + x)
      [] x > 0 /\ ~e.sign -> IF e.mag < x THEN Plus(x - e.mag) ELSE Minus(e.mag - x)

\* The sign test is the one of the other direction.
FaultExposureDown(e, x) ==
    CASE x = 0  -> e
      [] x > 0 /\ ~e.sign -> Minus(e.mag + x)
      [] x > 0 /\ e.sign  -> IF e.mag < x THEN Plus(x - e.mag) ELSE Minus(e.mag - x)

ExposureDown(e, x) ==
    CASE x = 0  -> e
      [] x > 0 /\ ~e.sign -> Minus(e.mag + x)
      [] x > 0 /\ e.sign  -> IF e.mag > x THEN Plus(e.mag - x) ELSE Minus(x - e.mag)

\* The recovered stable leg is not clamped to the pool.
FaultRecoveries(c, u) ==
    IF c.provides[u] THEN (0..c.poolStable + 1) \X (0..c.poolAsset) ELSE {<<0, 0>>}

\* What an active LP snapshot may recover to, clamped to the pool.
Recoveries(c, u) ==
    IF c.provides[u] THEN (0..c.poolStable) \X (0..c.poolAsset) ELSE {<<0, 0>>}

\* remove_liquidity of x and y out of the recovered balance r: the fee comes out of the stable leg or adds to the debt,
\* the LP debt is repaid first, what is left is the trader's.
Withdraw(c, u, r, x, y, fee) ==
    LET out == Excess(x, fee)
    IN  [DistributeFee([c EXCEPT !.poolStable = @ - x, !.poolAsset = @ - y], fee) EXCEPT
            !.provides[u] = r # <<x, y>>,
            !.stable[u] = @ - Excess(fee, x) + Excess(out, c.debtStable[u]),
            !.debtStable[u] = Excess(@, out),
            !.asset[u] = @ + Excess(y, c.debtAsset[u]),
            !.debtAsset[u] = Excess(@, y),
            !.exposure = ExposureUp(@, Excess(y, c.debtAsset[u]))]

\* add_liquidity: the deposit is borrowed; the fee comes out of its stable leg
\* or adds to the debt.  The LP's old balance r leaves the pool and is added
\* again with the deposit.
Deposit(c, u, r, x, y, fee) ==
    [c EXCEPT
        !.provides[u] = Excess(x, fee) + r[1] + y + r[2] > 0,
        !.debtStable[u] = @ + x + Excess(fee, x),
        !.debtAsset[u] = @ + y,
        !.poolStable = @ + Excess(x, fee),
        !.poolAsset = @ + y]

\* The debt is taken over but the exposure is not told.
FaultTakeOverDebt(c, u) ==
    [c EXCEPT
        !.stable[u] = @ - c.debtStable[u],
        !.asset[u] = @ - c.debtAsset[u],
        !.debtStable[u] = 0,
        !.debtAsset[u] = 0,
        !.provides[u] = FALSE]

\* The LP debt that the withdrawn liquidity did not cover becomes the trader's.
TakeOverDebt(c, u) ==
    [c EXCEPT
        !.stable[u] = @ - c.debtStable[u],
        !.asset[u] = @ - c.debtAsset[u],
        !.exposure = ExposureDown(@, c.debtAsset[u]),
        !.debtStable[u] = 0,
        !.debtAsset[u] = 0,
        !.provides[u] = FALSE]

\* A removal of nothing costs nothing.
FeesOf(x, y) == IF x + y = 0 THEN {0} ELSE Fees

Unwound(c, u) ==
    UNION {{TakeOverDebt(Withdraw(c, u, r, r[1], r[2], fee), u) :
                fee \in FeesOf(r[1], r[2])} : r \in Recoveries(c, u)}

\* The exposure is told of the dropped dust, the pool is not.
FaultDropped(c, u) ==
    [c EXCEPT !.asset[u] = 0, !.lostAsset = @ + c.asset[u],
              !.exposure = SignedSum(@, [mag  |-> DiffAbs(c.asset[u], 0),
                                         sign |-> c.asset[u] < 0])]

\* A net asset below the dust is dropped: the exposure is not told.
Dropped(c, u) ==
    [c EXCEPT !.asset[u] = 0, !.lostAsset = @ + c.asset[u]]

\* The net asset is traded away; a buy-back may miss it by the dust of C0.
Flattened(c, u, frontend) ==
    LET n == c.asset[u]
    IN  (IF DiffAbs(n, 0) <= Dust THEN {Dropped(c, u)} ELSE {})
        \cup (IF n > 0 THEN Shorts(c, u, n, frontend) ELSE {})
        \cup (IF n < 0
              THEN {d \in UNION {Longs(c, u, size, frontend) : size \in Amounts} :
                        DiffAbs(d.asset[u], 0) <= Dust}
              ELSE {})

\* C1 is not checked.
FaultCovered(c, u, pnl) == TRUE

\* C1: a position that owes its collateral or more is not closed by its owner
\* or by an auto-close (a PnL of zero counts as a loss).
Covered(c, u, pnl) == pnl > 0 \/ -pnl < c.collateral[u]

\* The fund bears the excess loss but the collateral is left where it was.
FaultRealized(c, u, value) ==
    LET equity == c.collateral[u] + c.stable[u] + value
    IN  [c EXCEPT
            !.stable[u] = 0,
            !.asset[u] = 0,
            !.lostAsset = @ + c.asset[u],
            !.lostStable = @ + value,
            !.collateral[u] = IF equity < 0 THEN @ ELSE equity,
            !.fund = IF equity < 0 THEN SignedSum(@, Minus(-equity)) ELSE @]

\* The PnL is moved to the collateral; the fund bears what the collateral
\* cannot.
Realized(c, u, value) ==
    LET equity == c.collateral[u] + c.stable[u] + value
    IN  [c EXCEPT
            !.stable[u] = 0,
            !.asset[u] = 0,
            !.lostAsset = @ + c.asset[u],
            !.lostStable = @ + value,
            !.collateral[u] = IF equity < 0 THEN 0 ELSE equity,
            !.fund = IF equity < 0 THEN SignedSum(@, Minus(-equity)) ELSE @]

\* The value put on a residue is its price on the curve, or nothing.
Residues(n) == {v \in -Dust..Dust : n # 0 /\ v * n >= 0} \cup {0}

Close(c, u, frontend, own) ==
    UNION {{Realized(d, u, v) :
                v \in {x \in Residues(d.asset[u]) :
                          own => Covered(d, u, d.stable[u] + x)}} :
           d \in UNION {Flattened(e, u, frontend) : e \in Unwound(c, u)}}

\* The net asset of an account, LP position included.
NetAsset(c, u, r) == c.asset[u] + r[2] - c.debtAsset[u]

\* calc_pnl: the net asset is worth nothing, or its price on the curve, which
\* must have it to sell (PNL1).
PnLs(c, u, r) ==
    LET n == NetAsset(c, u, r)
    IN  {c.stable[u] + r[1] - c.debtStable[u] + v :
            v \in {0} \cup {v \in -Limit..Limit :
                              v * n > 0 /\ (n > 0 \/ -n <= c.poolAsset)}}

\* liquidate_position: d of the net asset changes hands for dy, and a part of
\* the discount goes to the fund, or back to the liquidator.
Seize(c, l, u, long, d, dy, ins) ==
    LET sign == IF long THEN 1 ELSE -1
    IN  AssignFee([c EXCEPT
            !.asset = [[c.asset EXCEPT ![u] = @ - sign * d] EXCEPT ![l] = @ + sign * d],
            !.stable = [[c.stable EXCEPT ![u] = @ + sign * dy]
                            EXCEPT ![l] = @ - sign * dy - ins]], ins, l)

\* The victim's liquidity is pulled in proportion: all of it, or a part that
\* may round down to nothing.
Pulled(c, u, r, full) ==
    UNION {{Withdraw(c, u, r, out[1], out[2], fee) : fee \in FeesOf(out[1], out[2])} :
           out \in IF full THEN {r} ELSE (0..r[1]) \X (0..r[2])}

\* removeAllCollateralForUser.
PaidOut(c, u) ==
    [c EXCEPT !.total = @ - c.collateral[u], !.collateral[u] = 0]

\* The receiver is credited, the payer is not charged.
FaultFunded(c) ==
    {c} \cup IF c.exposure.mag = 0 THEN {}
             ELSE {[c EXCEPT !.stable[v] = @ + k] : v \in Accounts, k \in Accruals}

\* What a call accrues: funding flows between accounts when there is exposure.
Funded(c) ==
    {c} \cup IF c.exposure.mag = 0 THEN {}
             ELSE {[c EXCEPT !.stable = [[c.stable EXCEPT ![u] = @ - k]
                                             EXCEPT ![v] = @ + k]] :
                        u, v \in Accounts, k \in Accruals}

-----------------------------------------------------------------------------
(* The calls.                                                              *)

Magnitude(c, u) ==
    DiffAbs(c.stable[u], 0) + DiffAbs(c.asset[u], 0) + c.debtStable[u] + c.debtAsset[u]

Within(c) ==
    /\ \A u \in Accounts :
        /\ DiffAbs(c.stable[u], 0) <= Limit /\ DiffAbs(c.asset[u], 0) <= Limit
        /\ c.debtStable[u] <= Limit /\ c.debtAsset[u] <= Limit
        /\ c.collateral[u] <= Limit
    /\ c.poolStable <= Depth /\ c.poolAsset <= Depth /\ c.total <= Depth
    /\ DiffAbs(c.lostAsset, 0) <= Lost /\ DiffAbs(c.lostStable, 0) <= Lost
    /\ c.fund.mag <= Depth
    /\ SumFunction([u \in Accounts |-> Magnitude(c, u)]) <= Volume

Takes(outcomes) == \E c \in outcomes : Within(c) /\ b' = c

UpdateFGKeeper == Takes(Funded(b))

\* addCollateral.
AddCollateral(u) ==
    \E x \in Amounts :
        Takes({[b EXCEPT !.collateral[u] = @ + x, !.total = @ + x]})

\* removeCollateral, RC1 and RC3; RC5 and RC4 are margin checks.  Whoever takes
\* all that the vault has left loses what the vault owes beyond it.
RemoveCollateral(u) ==
    \E x \in Amounts, c \in Funded(b) :
        /\ x <= c.collateral[u]
        /\ x <= c.total
        /\ Takes({[c EXCEPT !.collateral[u] = IF x = c.total THEN 0 ELSE @ - x,
                            !.total = @ - x]})

ExecuteTrade(u) ==
    \E c \in Funded(b), size \in Amounts, frontend \in Frontends :
        size > 0 /\ Takes(Longs(c, u, size, frontend) \cup Shorts(c, u, size, frontend))

\* An empty pool charges nothing.  L3: no LP debt without collateral.
AddLiquidity(u) ==
    u \in Lps /\
    \E c \in Funded(b), x, y \in Amounts \cup {0} :
    \E fee \in IF c.poolStable + c.poolAsset = 0 THEN {0} ELSE Fees :
        LET d == DistributeFee(c, fee)
        IN  /\ x + y > 0
            /\ c.collateral[u] > 0
            /\ Takes({Deposit(d, u, r, x, y, fee) : r \in Recoveries(d, u)})

\* L5.
RemoveLiquidity(u) ==
    \E c \in Funded(b), fee \in Fees : \E r \in Recoveries(c, u) :
    \E x \in 0..r[1], y \in 0..r[2] :
        x + y > 0 /\ Takes({Withdraw(c, u, r, x, y, fee)})

\* R1.
RealizePnL(u) ==
    \E c \in Funded(b) : \E r \in Recoveries(c, u) : \E pnl \in PnLs(c, u, r) :
        /\ Covered(c, u, pnl)
        /\ Takes({[c EXCEPT !.provides[u] = r # <<0, 0>>,
                            !.stable[u] = @ - pnl,
                            !.collateral[u] = @ + pnl]})

CloseAndWithdraw(u) ==
    \E c \in Funded(b), frontend \in Frontends : Takes(Close(c, u, frontend, TRUE))

\* The fee is charged before the close, which must still be covered.
AutoClose(caller, u) ==
    \E c \in Funded(b), frontend \in Frontends :
        Takes(Close([c EXCEPT
            !.stable = [[c.stable EXCEPT ![u] = @ - AutoCloseFee]
                            EXCEPT ![caller] = @ + AutoCloseFee]], u, frontend, TRUE))

\* LQ0.  Both parties' snapshots are refreshed.  A part of the victim's net
\* asset, its liquidity included, is liquidated; or all of it (the fraction is
\* rounded down, so a size just above it passes), and then the victim is closed
\* and its collateral paid out.
Liquidate(l, u) ==
    \E c \in Funded(b), kept \in BOOLEAN : \E r \in Recoveries(c, u) :
        LET size == DiffAbs(NetAsset(c, u, r), 0)
            long == NetAsset(c, u, r) > 0
            settled == [c EXCEPT !.provides = [[c.provides EXCEPT ![l] = @ /\ kept]
                                                   EXCEPT ![u] = r # <<0, 0>>]]
        IN  /\ l # u
            /\ kept => c.provides[l]
            /\ size > 0
            /\ \E d \in 1..size + Overshoot, dy \in Amounts, ins \in Fees :
                \E p \in Pulled(settled, u, r, d >= size) :
                    LET seized == Seize(p, l, u, long, d, dy, ins)
                    IN  Takes(IF d < size THEN {seized}
                              ELSE {PaidOut(e, u) : e \in
                                   {e \in Close(seized, u, l, FALSE) :
                                        e.collateral[u] <= e.total}})

Next ==
    \/ UpdateFGKeeper
    \/ \E u \in Accounts :
        \/ AddCollateral(u)
        \/ RemoveCollateral(u)
        \/ ExecuteTrade(u)
        \/ AddLiquidity(u)
        \/ RemoveLiquidity(u)
        \/ RealizePnL(u)
        \/ CloseAndWithdraw(u)
    \/ \E v, u \in Accounts : AutoClose(v, u)
    \/ \E v, u \in Accounts : Liquidate(v, u)

Spec == Init /\ [][Next]_b

-----------------------------------------------------------------------------
(* Properties.                                                             *)

TypeOK == b \in Books

\* The pool and the traders are each other's counterparty: the asset in the
\* pool and the traders' net asset add up to what the LPs borrowed, through
\* every trade, deposit, withdrawal, close and liquidation, dust included.
PoolExposureBalanced ==
    b.poolAsset + Value(b.exposure) = SumFunction(b.debtAsset)

\* The total trader exposure, on which the funding rate is computed, is the
\* sum of the positions but for the dust that closes dropped: none of the
\* sign-and-magnitude updates spread over the calls loses or doubles a part.
ExposureMatches ==
    Value(b.exposure) = SumFunction(b.asset) + b.lostAsset

\* No value from nothing: everybody's collateral, positions and liquidity and
\* the insurance fund are never worth more than the stablecoins in the vault,
\* but for the value that closes put on dust.  The fees' rounding and a fee
\* that finds no liquidity to be paid to only ever leave a surplus.
Solvent ==
    SumFunction(b.collateral) + SumFunction(b.stable) - SumFunction(b.debtStable)
        + b.poolStable + Value(b.fund) <= b.total + b.lostStable

\* The fund never holds more than its cap, deficits repaid first.
FundCapped == Value(b.fund) <= FundCap

\* The fund pays last: when it falls, no collateral leaves the vault.
FundPaysLast ==
    [][Value(b'.fund) < Value(b.fund) => b'.total = b.total]_b

\* Only a liquidation makes the fund pay: neither its owner nor an auto-close
\* closes a position in bad debt (C1 in close.rs, which auto_close.rs forces).
OnlyLiquidationsDrainFund ==
    [][Value(b'.fund) < Value(b.fund) =>
        \E v, u \in Accounts : Liquidate(v, u)]_b

\* tests.rs:3168 (INV-EXPOSURE) has the exposure and the sum of the positions
\* differ by no more than the dust that one close may leave.
DriftWithinDust ==
    DiffAbs(SumFunction(b.asset), Value(b.exposure)) <= Dust
=============================================================================
