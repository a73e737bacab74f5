------------------------------ MODULE Requests ------------------------------
(***************************************************************************)
(* What users leave for others to carry out: compound calls that they sign *)
(* and a relayer hands in (StylusPerpMultiCalls.sol), and standing orders  *)
(* that a keeper executes, one by one or in batches (auto_close.rs); with  *)
(* the batches of liquidations (liquidation.rs).                           *)
(*                                                                         *)
(* A signed message may be handed in at once, late, twice, in any order or *)
(* never, and the account, the pool and the price may change in between.   *)
(* A call that fails reverts all it did, the nonce it took included.       *)
(*                                                                         *)
(* All of them share one pool.  Every trade, movement of liquidity and     *)
(* close moves its reserves and the balances of all its LPs, and these are *)
(* what the PnL of everybody else is valued on.                            *)
(*                                                                         *)
(* Abstracted: what the curve pays is any function of the size, the price  *)
(* and the reserves; what a trade returns, and what fees a call is charged *)
(* with, is left open within bounds, and the part of the trading fees that *)
(* does not stay in the pool goes to none of the users.  The legs of an LP *)
(* are kept as numbers, not as snapshot and matrix.  There is no funding;  *)
(* of liquidations there are only the full ones.  Limits that can only     *)
(* refuse a call (leverage, sizes, the vault's checks) are left out.       *)
(*                                                                         *)
(* An operator named Fault... is a seeded bug, the definition after it     *)
(* gone wrong in a plausible way; nothing uses it in the model.            *)
(***************************************************************************)
EXTENDS Integers, Sequences, SequencesExt

CONSTANTS
    Users,
    Keepers,      \* bound: the users who execute orders and liquidate
    Prices,       \* prices a report may bring
    Signed,       \* the messages users sign; see Message
    Direct,       \* bound: what each user asks for in calls of its own; see Aim
    Orders,       \* bound: thresholds of profit and of loss each user may set
    Batches,      \* the batches keepers and liquidators hand in
    Fees,         \* fees a movement of liquidity may come to
    Cuts,         \* what of a trade's fee may leave the pool
    Slippage,     \* by how much a trade may return less than at the oracle's price
    Return(_, _, _, _),   \* what x asset sells for at a price and reserves
    Cost(_, _, _, _),     \* what x asset is bought for
    Threshold,    \* minimumLiquidityMovement
    Fee,          \* autoCloseFee
    MMR,
    Decimals,     \* of margin ratios
    Horizon,      \* bound: the last block
    Limit         \* bound on positions, balances, reserves and collateral

Kinds == {"trade", "provide", "modify", "take", "close"}

\* "trade" and "provide" add collateral first; "trade" pays size of stable for
\* asset, or sells -size of asset; "provide" adds the legs stable and asset and
\* "modify" asks for them; maxFee caps the fee of liquidity, unless it is 0.
Aim == [kind : Kinds, collateral : Nat, size : Int, stable : Nat, asset : Nat,
        maxFee : Nat]

\* Users sign off chain: what they want, for any nonce and any deadline, twice
\* for one nonce if they change their mind.
Message == [from : Users, aim : Aim, deadline : Nat, nonce : Nat]

ASSUME AimsFit == Signed \subseteq Message /\ Direct \in [Users -> SUBSET Aim]
ASSUME OrdersFit == Orders \in [Users -> SUBSET [profit : Nat, loss : Nat]]
ASSUME BatchesFit == Batches \subseteq Seq(Users)
ASSUME KeepersKnown == Keepers \subseteq Users
ASSUME NumbersFit ==
    /\ Prices \subseteq Nat \ {0} /\ Fees \subseteq Nat /\ Cuts \subseteq Nat
    /\ Slippage \subseteq Nat
    /\ Threshold \in Nat /\ Fee \in Nat /\ MMR \in Nat /\ Decimals \in Nat
    /\ Limit \in Nat
ASSUME CurveFits ==
    \A x \in 1..Limit, p \in Prices, s \in 0..Limit, a \in 0..Limit :
        Return(x, p, s, a) \in Nat /\ Cost(x, p, s, a) \in Nat

VARIABLES
    now,       \* the block's timestamp
    price,     \* the oracle's price
    market,    \* the engine and the vault: reserves, and the account of each user
    nonces,    \* the manager's nonces
    done       \* auxiliary: the messages of each user carried out, in order

vars == <<now, price, market, nonces, done>>

NoOrder == [profit |-> 0, loss |-> 0]

\* `hold' and `cash' are the net asset and net stable outside the LP's legs,
\* the LP's debts included; `stable' and `asset' are the legs.  Auxiliary:
\* `asked' says whether the user has asked for an order since its last close.
Idle == [hold |-> 0, cash |-> 0, stable |-> 0, asset |-> 0, collateral |-> 0,
         order |-> NoOrder, asked |-> FALSE]

Init ==
    /\ now = 0
    /\ price \in Prices
    /\ market = [stable |-> 0, asset |-> 0, of |-> [u \in Users |-> Idle]]
    /\ nonces = [u \in Users |-> 0]
    /\ done = [u \in Users |-> <<>>]

-----------------------------------------------------------------------------
(* The pool.  In what follows m is a market, u a user and p a price.       *)

\* getLpLiquidityBalance: not more than the reserves.
LpStable(m, u) == IF m.of[u].stable <= m.stable THEN m.of[u].stable ELSE m.stable
LpAsset(m, u)  == IF m.of[u].asset <= m.asset THEN m.of[u].asset ELSE m.asset

\* One step of the liquidity matrix: reserves grow by what is given, and the
\* legs of every LP become what Stable and Asset say of them.
Stepped(m, stable, asset, Stable(_, _), Asset(_, _)) ==
    [stable |-> m.stable + stable, asset |-> m.asset + asset,
     of |-> [v \in Users |->
         [m.of[v] EXCEPT !.stable = Stable(LpStable(m, v), LpAsset(m, v)),
                         !.asset = Asset(LpStable(m, v), LpAsset(m, v))]]]

CeilDiv(x, y) == -((-x) \div y)

\* The pool is paid `in' of stable for `out' of asset.
Long(m, in, out) ==
    Stepped(m, in, -out, LAMBDA s, a : s + (in * a) \div m.asset,
                         LAMBDA s, a : a - CeilDiv(out * a, m.asset))

\* The pool is paid `in' of asset for `out' of stable.
Short(m, in, out) ==
    Stepped(m, -out, in, LAMBDA s, a : s - CeilDiv(out * s, m.stable),
                         LAMBDA s, a : a + (in * s) \div m.stable)

\* distribute_liquidity_fee: to the stable legs and the asset legs, in stable.
Earned(m, fee, p) ==
    LET own == (fee * m.stable) \div (m.stable + m.asset * p)
    IN  IF fee = 0 \/ m.stable = 0 \/ m.asset = 0 THEN m
        ELSE Stepped(m, fee, 0,
                     LAMBDA s, a : s + (own * s) \div m.stable
                                     + ((fee - own) * a) \div m.asset,
                     LAMBDA s, a : a)

\* To the user's net asset and net stable.
Credit(m, u, asset, stable) ==
    [m EXCEPT !.of[u].hold = @ + asset, !.of[u].cash = @ + stable]

-----------------------------------------------------------------------------
(* What an account is worth.                                               *)

Net(m, u) == m.of[u].hold + LpAsset(m, u)

\* PNL1, with the bound on what the curve is asked.
Valued(m, u) ==
    /\ Net(m, u) \in -Limit..Limit /\ -Net(m, u) <= m.asset
    /\ m.stable \in 0..Limit /\ m.asset \in 0..Limit

\* calc_pnl: the net asset at what the pool would pay for it, or be paid.
PnL(m, u, p) ==
    LET x == Net(m, u)
    IN  m.of[u].cash + LpStable(m, u)
          + IF x > 0 THEN Return(x, p, m.stable, m.asset)
            ELSE IF x < 0 THEN -Cost(-x, p, m.stable, m.asset) ELSE 0

\* C1 and R1: the loss, if any, is less than the collateral.
Bears(m, u, p) ==
    Valued(m, u) /\ (PnL(m, u, p) >= 0 \/ -PnL(m, u, p) < m.of[u].collateral)

\* calc_hypothetical_mr, at the oracle's price.
MarginRatio(m, u, p) ==
    LET x == Net(m, u)
        worth == m.of[u].collateral + m.of[u].cash + LpStable(m, u) + x * p
    IN  IF worth < 0 THEN 0 ELSE IF x = 0 THEN Decimals
        ELSE (worth * Decimals) \div ((IF x < 0 THEN -x ELSE x) * p)

Safe(m, u, p) == MarginRatio(m, u, p) > MMR

-----------------------------------------------------------------------------
(* The engine's and the vault's calls.  Each is the set of the markets it  *)
(* may lead to, empty when the call reverts.                               *)

If(guard, m) == IF guard THEN {m} ELSE {}

\* A call on each outcome of the calls before it.
Then(outcomes, Call(_)) == UNION {Call(m) : m \in outcomes}

AddCollateral(m, u, amount) == [m EXCEPT !.of[u].collateral = @ + amount]

RemoveCollateral(m, u, amount) ==
    If(amount <= m.of[u].collateral, [m EXCEPT !.of[u].collateral = @ - amount])

\* T4: near what the oracle's price makes of it.
Near(most) == {r \in {most - short : short \in Slippage} : r >= 0}

\* T3.
Lasting(markets) == {m \in markets : m.stable > 0 /\ m.asset > 0}

\* execute_trade: the trader's side, with T5; a part of the fee leaves the pool.
Buys(m, u, paid, out) ==
    IF out < m.asset
    THEN Lasting({Credit(Long(m, paid - cut, out), u, out, -paid) :
                      cut \in {c \in Cuts : c <= paid}})
    ELSE {}

Sells(m, u, sold, got) ==
    Lasting({Credit(Short(m, sold, got + cut), u, -sold, got) :
                 cut \in {c \in Cuts : got + c < m.stable}})

\* T1.
TradeFor(m, u, p, size) ==
    {n \in IF size > 0 THEN UNION {Buys(m, u, size, out) : out \in Near(size \div p)}
                       ELSE UNION {Sells(m, u, -size, got) : got \in Near(-size * p)} :
        Safe(n, u, p)}

\* The caller's cap is not looked at.
FaultCharges(m, max) == IF m.stable = 0 \/ m.asset = 0 THEN {0} ELSE Fees

\* L2 and L6: what a movement of liquidity may be charged, nothing in a pool of
\* one side.
Charges(m, max) ==
    {f \in IF m.stable = 0 \/ m.asset = 0 THEN {0} ELSE Fees : max = 0 \/ f <= max}

\* Who takes all that is in the pool pays nothing.
RemovalCharges(m, stable, asset, max) ==
    IF stable = m.stable /\ asset = m.asset THEN {0} ELSE Charges(m, max)

\* remove_liquidity, with L5: the LP is left with what it does not take, and
\* then everybody still in the pool earns the fee, the LP included.
Withdrawn(m, u, p, stable, asset, max) ==
    IF stable <= LpStable(m, u) /\ asset <= LpAsset(m, u)
    THEN {LET left == [m EXCEPT
                          !.stable = @ - stable, !.asset = @ - asset,
                          !.of[u].stable = LpStable(m, u) - stable,
                          !.of[u].asset = LpAsset(m, u) - asset]
          IN  Credit(Earned(left, fee, p), u, asset, stable - fee) :
              fee \in RemovalCharges(m, stable, asset, max)}
    ELSE {}

\* The asset is not valued.
FaultWorth(stable, asset, p) == stable + asset

\* What a movement of liquidity is worth.
Worth(stable, asset, p) == stable + asset * p

\* L4 and C1.
RemoveLiquidityFor(m, u, p, stable, asset, max) ==
    IF Worth(stable, asset, p) >= Threshold
    THEN {n \in Withdrawn(m, u, p, stable, asset, max) : Bears(n, u, p)} ELSE {}

\* add_liquidity: the deposit is borrowed; its fee is taken from the stable, or
\* borrowed too, and earned by the LPs before the old balance is read.
Provided(m, u, p, stable, asset, fee) ==
    LET e  == Earned(m, fee, p)
        in == IF stable >= fee THEN stable - fee ELSE 0
    IN  Credit([e EXCEPT !.stable = @ + in, !.asset = @ + asset,
                         !.of[u].stable = LpStable(e, u) + in,
                         !.of[u].asset = LpAsset(e, u) + asset],
               u, -asset, -(in + fee))

\* L1 and C1.
AddLiquidityFor(m, u, p, stable, asset, max) ==
    IF Worth(stable, asset, p) >= Threshold
    THEN {n \in {Provided(m, u, p, stable, asset, fee) : fee \in Charges(m, max)} :
              Bears(n, u, p)}
    ELSE {}

\* All legs withdrawn, if there are any.
Emptied(m, u, p, max) ==
    IF LpStable(m, u) = 0 /\ LpAsset(m, u) = 0
    THEN {[m EXCEPT !.of[u].stable = 0, !.of[u].asset = 0]}
    ELSE Withdrawn(m, u, p, LpStable(m, u), LpAsset(m, u), max)

\* The net asset traded away.
Unwound(m, u, p) ==
    LET x == m.of[u].hold
    IN  IF x > 0 THEN UNION {Sells(m, u, x, got) : got \in Near(x * p)}
        ELSE IF x < 0
        THEN UNION {Buys(m, u, -x * p + above, -x) : above \in Slippage}
        ELSE {m}

\* The standing order survives the close.
FaultClosed(m, u) ==
    [m EXCEPT !.of[u] = [Idle EXCEPT
        !.collateral = IF m.of[u].collateral + m.of[u].cash >= 0
                       THEN m.of[u].collateral + m.of[u].cash ELSE 0,
        !.order = m.of[u].order]]

\* What is left is the PnL, and goes to the collateral; the position and the
\* order are cleared.
Closed(m, u) ==
    [m EXCEPT !.of[u] = [Idle EXCEPT
        !.collateral = IF m.of[u].collateral + m.of[u].cash >= 0
                       THEN m.of[u].collateral + m.of[u].cash ELSE 0]]

\* close_and_withdraw_inner, with C1, and addPnlToCollateral.
CloseAndWithdrawFor(m, u, p, max) ==
    {Closed(n, u) : n \in {n \in Then(Emptied(m, u, p, max), LAMBDA e : Unwound(e, u, p)) :
                               Bears(n, u, p)}}

\* The PnL is moved to the collateral.
RealizePnLFor(m, u, p) ==
    If(Bears(m, u, p), [m EXCEPT !.of[u].cash = @ - PnL(m, u, p),
                                 !.of[u].collateral = @ + PnL(m, u, p)])

-----------------------------------------------------------------------------
(* The compound calls of the manager.                                      *)

\* _modifyLiquidityPosition: in the mixed cases a leg that is off by less than
\* the threshold is left as it is; both, and the call reverts.  What to add is
\* known before the removal.
Modified(m, u, p, aim) ==
    LET stable == LpStable(m, u)
        asset  == LpAsset(m, u)
        max    == aim.maxFee
    IN  IF stable >= aim.stable /\ asset >= aim.asset
        THEN RemoveLiquidityFor(m, u, p, stable - aim.stable, asset - aim.asset, max)
        ELSE IF stable < aim.stable /\ asset < aim.asset
        THEN AddLiquidityFor(m, u, p, aim.stable - stable, aim.asset - asset, max)
        ELSE LET out == IF stable < aim.stable THEN <<0, asset - aim.asset>>
                                               ELSE <<stable - aim.stable, 0>>
                 in  == IF stable < aim.stable THEN <<aim.stable - stable, 0>>
                                               ELSE <<0, aim.asset - asset>>
                 removes == Worth(out[1], out[2], p) >= Threshold
                 adds    == Worth(in[1], in[2], p) >= Threshold
                 less    == IF removes
                            THEN RemoveLiquidityFor(m, u, p, out[1], out[2], max)
                            ELSE {m}
             IN  IF ~removes /\ ~adds THEN {}
                 ELSE IF adds
                 THEN Then(less, LAMBDA n : AddLiquidityFor(n, u, p, in[1], in[2], max))
                 ELSE less

\* The profit to take out is read before the report is verified.
FaultTaken(m, u, p) ==
    LET pnl == PnL(m, u, price)
    IN  IF ~Valued(m, u) \/ pnl < 0 THEN {}
        ELSE Then(RealizePnLFor(m, u, p), LAMBDA n : RemoveCollateral(n, u, pnl))

\* _takeProfitRemoveCollateral: what calcPnL shows is realised and withdrawn.
Taken(m, u, p) ==
    LET pnl == PnL(m, u, p)
    IN  IF ~Valued(m, u) \/ pnl < 0 THEN {}
        ELSE Then(RealizePnLFor(m, u, p), LAMBDA n : RemoveCollateral(n, u, pnl))

\* Direct and relayed calls share these bodies; each verifies the report that
\* comes with it first, which may bring the price p.
Outcomes(m, u, p, aim) ==
    CASE aim.kind = "trade"   -> TradeFor(AddCollateral(m, u, aim.collateral), u, p, aim.size)
      [] aim.kind = "provide" -> AddLiquidityFor(AddCollateral(m, u, aim.collateral), u, p,
                                                 aim.stable, aim.asset, aim.maxFee)
      [] aim.kind = "modify"  -> Modified(m, u, p, aim)
      [] aim.kind = "take"    -> Taken(m, u, p)
      [] aim.kind = "close"   -> Then(CloseAndWithdrawFor(m, u, p, aim.maxFee),
                                      LAMBDA n : RemoveCollateral(n, u, n.of[u].collateral))

Bounded(m) ==
    /\ m.stable <= Limit /\ m.asset <= Limit
    /\ \A u \in Users :
        /\ m.of[u].hold \in -Limit..Limit /\ m.of[u].cash \in -Limit..Limit
        /\ m.of[u].collateral <= Limit

Takes(outcomes) == \E m \in outcomes : Bounded(m) /\ market' = m

Serve(u, aim) ==
    \E p \in Prices :
        /\ price' = p
        /\ Takes(Outcomes(market, u, p, aim))

\* A call of the user's own.
Call(u, aim) == Serve(u, aim) /\ UNCHANGED <<now, nonces, done>>

\* A nonce the user has passed serves again.
FaultAccepts(m) == m.nonce <= nonces[m.from] /\ now <= m.deadline

Accepts(m) == m.nonce = nonces[m.from] /\ now <= m.deadline

\* relayer...: anybody hands in any signed message, at any time, again and again.
Relay(m) ==
    /\ Accepts(m)
    /\ nonces' = [nonces EXCEPT ![m.from] = @ + 1]
    /\ done' = [done EXCEPT ![m.from] = Append(@, m)]
    /\ Serve(m.from, m.aim)
    /\ UNCHANGED now

-----------------------------------------------------------------------------
(* Standing orders.                                                        *)

EnableAutoClose(u, order) ==
    /\ order.profit > 0 \/ order.loss > 0
    /\ market' = [market EXCEPT !.of[u].order = order, !.of[u].asked = TRUE]
    /\ UNCHANGED <<now, price, nonces, done>>

DisableAutoClose(u) ==
    /\ market' = [market EXCEPT !.of[u].order = NoOrder, !.of[u].asked = FALSE]
    /\ UNCHANGED <<now, price, nonces, done>>

\* A1 otherwise.
Due(m, u, p) ==
    LET pnl == PnL(m, u, p)
        a   == m.of[u]
    IN  /\ Valued(m, u)
        /\ IF pnl >= 0 THEN a.order.profit # 0 /\ pnl >= a.order.profit
           ELSE a.order.loss # 0 /\ -pnl >= a.order.loss /\ -pnl <= a.collateral

\* auto_close_with_price for an order that is due: C1 may still fail, by the
\* keeper's fee or by what closing costs.
AutoClosed(m, k, u, p) ==
    CloseAndWithdrawFor(Credit(Credit(m, u, 0, -Fee), k, 0, Fee), u, p, 0)

AutoClose(k, u) ==
    \E p \in Prices :
        /\ price' = p
        /\ Due(market, u, p)
        /\ Takes(AutoClosed(market, k, u, p))
        /\ UNCHANGED <<now, nonces, done>>

\* Every failure of an item skips it.
FaultSwept(m, k, u, p) ==
    IF Due(m, u, p) /\ AutoClosed(m, k, u, p) # {} THEN AutoClosed(m, k, u, p) ELSE {m}

\* An item of the batch is skipped when there is no order or it is not due; any
\* other failure, PNL1 included, reverts the batch.
Swept(m, k, u, p) ==
    IF Due(m, u, p) THEN AutoClosed(m, k, u, p)
    ELSE If(m.of[u].order = NoOrder \/ Valued(m, u), m)

\* BA3 and BL3.
Distinct(users) == \A i, j \in DOMAIN users : users[i] = users[j] => i = j

\* batch_auto_close_user_position_impl.
BatchAutoClose(k, users) ==
    \E p \in Prices :
        /\ Distinct(users)
        /\ price' = p
        /\ UNCHANGED <<now, nonces, done>>
        /\ Takes(FoldLeft(LAMBDA outcomes, u :
                              Then(outcomes, LAMBDA m : Swept(m, k, u, p)),
                          {market}, users))

-----------------------------------------------------------------------------
(* Liquidations.                                                           *)

\* The liquidator takes over the net asset, at a discount.
TakenOver(m, l, u, p) ==
    LET x == m.of[u].hold
    IN  {[Credit(m, l, x, -(x * p - discount)) EXCEPT !.of[u] = Idle] :
             discount \in Slippage}

\* liquidate_with_price of a whole position, with LQ0, LQ1 and LQ2; what is
\* left of the collateral is paid out.
Liquidated(m, l, u, p) ==
    IF u = l \/ Net(m, u) = 0 \/ MarginRatio(m, u, p) > MMR \div 2 THEN {}
    ELSE {n \in Then(Emptied(m, u, p, 0), LAMBDA e : TakenOver(e, l, u, p)) : Safe(n, l, p)}

\* batch_liquidate_impl: all or nothing.
BatchLiquidate(l, users) ==
    \E p \in Prices :
        /\ Distinct(users)
        /\ price' = p
        /\ UNCHANGED <<now, nonces, done>>
        /\ Takes(FoldLeft(LAMBDA outcomes, u :
                              Then(outcomes, LAMBDA m : Liquidated(m, l, u, p)),
                          {market}, users))

-----------------------------------------------------------------------------
NewBlock == now < Horizon /\ now' = now + 1
            /\ UNCHANGED <<price, market, nonces, done>>

Next ==
    \/ NewBlock
    \/ \E m \in Signed : Relay(m)
    \/ \E u \in Users :
        \/ \E aim \in Direct[u] : Call(u, aim)
        \/ \E order \in Orders[u] : EnableAutoClose(u, order)
        \/ DisableAutoClose(u)
    \/ \E k \in Keepers :
        \/ \E u \in Users : AutoClose(k, u)
        \/ \E users \in Batches : BatchAutoClose(k, users) \/ BatchLiquidate(k, users)

Spec == Init /\ [][Next]_vars

-----------------------------------------------------------------------------
(* Properties.                                                             *)

\* Every message is carried out once at most, and the messages of a user in
\* the order of their nonces and without a gap: however often and in whatever
\* order they are handed in, and whether or not calls revert, the nonce counts
\* what was carried out (StylusPerpMultiCalls.sol:211-213).
EachOnceInOrder ==
    \A u \in Users :
        /\ Len(done[u]) = nonces[u]
        /\ \A i \in DOMAIN done[u] : done[u][i].from = u /\ done[u][i].nonce = i - 1

\* Off by less than the threshold.
Small(off) == -Threshold < off /\ off < Threshold

\* A modified position is the one asked for, but for legs too small to be moved
\* and for the fees: the asset leg takes no part in them; the stable leg pays
\* one at most, on the way in, and earns back at most the two of a call that
\* removes and adds.  Who asked to leave has left.
AtTarget(m, u, p, aim) ==
    LET off == LpStable(m, u) - aim.stable
    IN  /\ LpAsset(m, u) = aim.asset \/ Small((LpAsset(m, u) - aim.asset) * p)
        /\ aim.maxFee # 0 =>
               \/ off \in -aim.maxFee..2 * aim.maxFee
               \/ -Threshold < off /\ off < Threshold + aim.maxFee
        /\ aim.stable = 0 /\ aim.asset = 0 => m.of[u].stable = 0 /\ m.of[u].asset = 0

\* What a message asked for is what its user has when it was carried out,
\* however the account, the pool and the price have changed since it was
\* signed.
Reached(aim, u, m, n, p) ==
    CASE aim.kind = "modify" -> AtTarget(n, u, p, aim)
      [] aim.kind = "take"   -> n.of[u].collateral = m.of[u].collateral /\ PnL(n, u, p) = 0
      [] aim.kind = "close"  -> n.of[u] = Idle
      [] OTHER               -> n.of[u].collateral = m.of[u].collateral + aim.collateral

\* Compound calls do what they were signed for or nothing, and not after the
\* deadline: the liquidity is the target's up to the fees the signer agreed to,
\* the profit shown is the profit paid out and the collateral behind it
\* untouched, and a close leaves nothing behind
\* (StylusPerpMultiCalls.sol:216-232, 451-507, 534-547).
AimsReached ==
    [][\A m \in Signed :
        done'[m.from] = Append(done[m.from], m) =>
            /\ now <= m.deadline
            /\ Reached(m.aim, m.from, market, market', price')]_vars

\* Whose order a step has executed.
Executed(users) ==
    {u \in Range(users) : market.of[u].order # NoOrder /\ market'.of[u].order = NoOrder}

\* Nothing but the legs, which every trade moves.
SameBut(others) ==
    \A u \in Users \ others :
        /\ market'.of[u].hold = market.of[u].hold
        /\ market'.of[u].cash = market.of[u].cash
        /\ market'.of[u].collateral = market.of[u].collateral
        /\ market'.of[u].order = market.of[u].order

\* Each item of a batch runs on the pool the items before it have left, so an
\* order that was due when the batch began may not be when its turn comes, and
\* the other way round.  Until somebody in it has been closed, though, exactly
\* the orders that are due are executed: none is left over because it failed,
\* as that reverts the batch.  The keeper is paid once for each close, and those
\* who are skipped keep what they had.  Of a batch of liquidations nobody is
\* spared, and nobody else is touched (auto_close.rs:196-207,
\* liquidation.rs:244-255).
BatchesAccountForAll ==
    [][\A k \in Keepers, users \in Batches :
        /\ BatchAutoClose(k, users) =>
            /\ \A j \in DOMAIN users :
                   (\A i \in 1..j - 1 : users[i] \notin Executed(users)) =>
                       (users[j] \in Executed(users) <=> Due(market, users[j], price'))
            /\ SameBut(Executed(users) \cup {k})
            /\ k \notin Range(users) =>
                   market'.of[k].cash = market.of[k].cash + Fee * Cardinality(Executed(users))
        /\ BatchLiquidate(k, users) =>
            /\ \A u \in Range(users) : market'.of[u] = Idle
            /\ SameBut(Range(users) \cup {k})]_vars

\* No order outlives the close of the position it was given for, by whomever
\* it is closed, so that an order is executed once at most
\* (close.rs:141-142 from all its callers).
OrdersEndWithClose ==
    \A u \in Users : market.of[u].order # NoOrder => market.of[u].asked
=============================================================================
