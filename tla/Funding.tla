------------------------------ MODULE Funding ------------------------------
(***************************************************************************)
(* The funding of the perp engine (funding.rs, and its use in trade.rs,    *)
(* liquidity.rs, close.rs, liquidation.rs, internal_logic.rs and lib.rs).  *)
(*                                                                         *)
(* Traders settle lazily from a global index F; LPs, whose balance every   *)
(* trade changes through the liquidity matrix M, from an accumulated row G *)
(* that is multiplied with the inverse of the matrix of their snapshot.    *)
(*                                                                         *)
(* Abstracted: one liquidity epoch (LiquidityEpochs has them all), no      *)
(* fees, trades at a price of one, and the factor of price, liquidity and  *)
(* funding_c in the rate is one, so that the rate is the exposure.  Only   *)
(* inputs whose quotients are whole numbers are taken, so that what is     *)
(* shown is the bookkeeping and not its rounding.                          *)
(*                                                                         *)
(* An operator named Fault... is a seeded bug, the definition after it     *)
(* gone wrong in a plausible way; nothing uses it in the model.            *)
(***************************************************************************)
EXTENDS Integers, FiniteSets, Functions

CONSTANTS
    Users,
    Lps,        \* bound: the users who may provide liquidity
    Traders,    \* bound: the users who may trade, but for closes
    Scale,      \* liquidity_m_decimals, and liquidity_g_decimals
    Amounts,    \* bound: sizes of trades
    Deposits,   \* bound: deposits, pairs of stable and asset
    Bearable,   \* the funding an account may owe before its margin fails
    Limit,      \* bound: no leg of the pool beyond this
    MinDet,     \* bound: no trade takes the determinant of M below this
    Held,       \* bound: no trader's net asset beyond this
    Owing,      \* bound: no fee charged, settled or at a close, beyond this
    Horizon     \* bound: the last block

ASSUME UsersFinite == IsFiniteSet(Users)
ASSUME ScaleNonZero == Scale \in Nat \ {0}
ASSUME MinDetPositive == MinDet \in Nat \ {0}
ASSUME InputsFit == Amounts \subseteq Nat /\ Deposits \subseteq Nat \X Nat

VARIABLES
    now,   \* the time of the current block
    book   \* the engine's books

Rows == [s : Int \X Int, a : Int \X Int]
Flat == [s |-> <<0, 0>>, a |-> <<0, 0>>]

\* An LP snapshot: the balance, the matrix and the row it was taken with.
Position == [v : Nat \X Nat, m : Rows, g : Int \X Int]
NoPosition == [v |-> <<0, 0>>, m |-> Flat, g |-> <<0, 0>>]

\* `hold' is balanceAsset - debtAsset, `debt' the debtAsset of the LP,
\* `start' the initialFundingRate, `fee' the fundingFee.  Auxiliary, not in
\* the code: `paid' adds up the funding that closes charged.
Books == [last : Nat, f : Int, g : Int \X Int, m : Rows,
          stable : Nat, asset : Nat, exposure : Int,
          hold : [Users -> Int], debt : [Users -> Nat], lp : [Users -> Position],
          start : [Users -> Int], fee : [Users -> Int], paid : [Users -> Int]]

Zero == [u \in Users |-> 0]

Init ==
    /\ now = 0
    /\ book = [last |-> 0, f |-> 0, g |-> <<0, 0>>,
               m |-> [s |-> <<Scale, 0>>, a |-> <<0, Scale>>],
               stable |-> 0, asset |-> 0, exposure |-> 0,
               hold |-> Zero, debt |-> Zero, lp |-> [u \in Users |-> NoPosition],
               start |-> Zero, fee |-> Zero, paid |-> Zero]

-----------------------------------------------------------------------------
(* The LP's balance and the funding fee.                                   *)

Dot(row, v) == row[1] * v[1] + row[2] * v[2]
Add(x, y)   == <<x[1] + y[1], x[2] + y[2]>>
Times(k, x) == <<k * x[1], k * x[2]>>

\* The determinant of a matrix; a snapshot's adjugate times its balance.
Det(m)   == m.s[1] * m.a[2] - m.a[1] * m.s[2]
Start(p) == <<p.m.a[2] * p.v[1] - p.m.s[2] * p.v[2],
              p.m.s[1] * p.v[2] - p.m.a[1] * p.v[1]>>

Provides(c, u) == c.lp[u].v # <<0, 0>>

Clamped(x, leg) == IF x < 0 THEN 0 ELSE IF x < leg THEN x ELSE leg

\* get_lp_liquidity_balance, clamped to the pool.
LpBalance(c, u) ==
    IF ~Provides(c, u) THEN <<0, 0>>
    ELSE LET p == c.lp[u]
         IN  <<Clamped(Dot(c.m.s, Start(p)) \div Det(p.m), c.stable),
               Clamped(Dot(c.m.a, Start(p)) \div Det(p.m), c.asset)>>

Speed(c) == IF c.stable + c.asset = 0 THEN 0 ELSE c.exposure

\* compute_funding_rate, since the last operation.
FundingRate(c) == Speed(c) * (now - c.last)

\* The LP part: the growth of G up to the index f, against the snapshot.
Star(c, u, f) ==
    LET p == c.lp[u]
    IN  IF Provides(c, u)
        THEN Dot(Add(Add(c.g, Times(-1, p.g)), Times(f - c.f, c.m.a)), Start(p)) \div Det(p.m)
        ELSE 0

\* compute_funding_fee_with.
FundingFee(c, u, f) == Star(c, u, f) + (c.hold[u] - c.debt[u]) * (f - c.start[u])

\* The fee as a view shows it: margin_check_core and calc_pnl_user.
Due(c, u) == c.fee[u] + FundingFee(c, u, c.f + FundingRate(c))

\* What a margin check sees that reads the time of the last operation as t.
\* Only the rate of a block in which nothing was settled is added.
MarginDue(c, u, t) ==
    LET rate == IF t # now THEN Speed(c) * (now - t) ELSE 0
    IN  c.fee[u] + FundingFee(c, u, c.f + rate)

-----------------------------------------------------------------------------
(* The steps the calls are made of.                                        *)

\* The time of the last operation is not stamped.
FaultUpdateFG(c) ==
    IF c.last = now THEN c
    ELSE [c EXCEPT !.f = @ + FundingRate(c),
                   !.g = Add(@, Times(FundingRate(c), c.m.a))]

\* update_fg, once per block.
UpdateFG(c) ==
    IF c.last = now THEN c
    ELSE [c EXCEPT !.f = @ + FundingRate(c),
                   !.g = Add(@, Times(FundingRate(c), c.m.a)),
                   !.last = now]

Charged(c, u) == [c EXCEPT !.fee[u] = @ + FundingFee(c, u, c.f)]

\* update_snapshots.
Snapshot(c, u, v) ==
    [c EXCEPT !.start[u] = c.f,
              !.lp[u] = IF v = <<0, 0>> THEN NoPosition ELSE [v |-> v, m |-> c.m, g |-> c.g]]

\* settle_funding_and_update_snapshots.
Settle(c, u) == Snapshot(Charged(c, u), u, LpBalance(c, u))

\* The G snapshot stays, and its growth is charged again.
FaultTrader(c, u, size) ==
    [Charged(c, u) EXCEPT !.exposure = @ + size, !.hold[u] = @ + size, !.start[u] = c.f]

\* The trader's side of execute_trade; a short has a negative size.
Trader(c, u, size) ==
    [Charged(c, u) EXCEPT
        !.exposure = @ + size, !.hold[u] = @ + size, !.start[u] = c.f,
        !.lp[u] = IF Provides(c, u) THEN [@ EXCEPT !.g = c.g] ELSE @]

\* The pool's side: apply_liquidity_matrix_update with a_x = a_y = a, out of
\* Scale, a part of the asset leg for a long and of the stable leg for a short.
Long(c, size) ==
    LET a == (size * Scale) \div c.asset
        x == <<(a * c.m.a[1]) \div Scale, (a * c.m.a[2]) \div Scale>>
    IN  [c EXCEPT !.m = [s |-> Add(c.m.s, x), a |-> Add(c.m.a, Times(-1, x))],
                  !.stable = @ + size, !.asset = @ - size]

Short(c, size) ==
    LET a == (size * Scale) \div c.stable
        x == <<(a * c.m.s[1]) \div Scale, (a * c.m.s[2]) \div Scale>>
    IN  [c EXCEPT !.m = [s |-> Add(c.m.s, Times(-1, x)), a |-> Add(c.m.a, x)],
                  !.stable = @ - size, !.asset = @ + size]

\* Bound: every quotient of the trade is a whole number.
Whole(c, leg, row, size) ==
    /\ (size * Scale) % leg = 0
    /\ (size * row[1]) % leg = 0 /\ (size * row[2]) % leg = 0

Shares(c) ==
    \A u \in Users : Provides(c, u) =>
        Dot(c.m.s, Start(c.lp[u])) % Det(c.lp[u].m) = 0
            /\ Dot(c.m.a, Start(c.lp[u])) % Det(c.lp[u].m) = 0

\* execute_trade; T3 and T5 keep both legs of the pool.
Longs(c, u, size) ==
    IF size >= c.asset \/ c.stable = 0 \/ ~Whole(c, c.asset, c.m.a, size) THEN {}
    ELSE {d \in {Long(Trader(UpdateFG(c), u, size), size)} : Shares(d)}

Shorts(c, u, size) ==
    IF size >= c.stable \/ c.asset = 0 \/ ~Whole(c, c.stable, c.m.s, size) THEN {}
    ELSE {d \in {Short(Trader(UpdateFG(c), u, -size), size)} : Shares(d)}

Excess(x, y) == IF x < y THEN 0 ELSE x - y

\* The debt of the LP is reduced by all that is withdrawn.
FaultWithdraw(c, u, out) ==
    LET v == LpBalance(c, u)
        d == Snapshot(Charged(UpdateFG(c), u), u, <<v[1] - out[1], v[2] - out[2]>>)
        own == Excess(out[2], c.debt[u])
    IN  [d EXCEPT !.stable = @ - out[1], !.asset = @ - out[2],
                  !.debt[u] = @ - out[2],
                  !.hold[u] = @ + own, !.exposure = @ + own]

\* remove_liquidity: the LP's debt is repaid first.
Withdraw(c, u, out) ==
    LET v == LpBalance(c, u)
        d == Snapshot(Charged(UpdateFG(c), u), u, <<v[1] - out[1], v[2] - out[2]>>)
        own == Excess(out[2], c.debt[u])
    IN  [d EXCEPT !.stable = @ - out[1], !.asset = @ - out[2],
                  !.debt[u] = Excess(@, out[2]),
                  !.hold[u] = @ + own, !.exposure = @ + own]

\* add_liquidity: the fee is computed ahead of update_fg; the old balance is
\* taken out of the pool and put back with the deposit.
Deposit(c, u, in) ==
    LET fee == FundingFee(c, u, c.f + FundingRate(c))
        d   == UpdateFG([c EXCEPT !.fee[u] = @ + fee])
    IN  Snapshot([d EXCEPT !.debt[u] = @ + in[2], !.stable = @ + in[1], !.asset = @ + in[2]],
                 u, Add(in, LpBalance(d, u)))

\* The first half of close_and_withdraw_inner: the liquidity is withdrawn and
\* the debt it leaves becomes the trader's.
Unwound(c, u) ==
    IF LpBalance(c, u) = <<0, 0>> /\ c.debt[u] = 0 THEN c
    ELSE LET d == Withdraw(c, u, LpBalance(c, u))
         IN  [d EXCEPT !.hold[u] = @ - d.debt[u], !.exposure = @ - d.debt[u],
                       !.debt[u] = 0]

\* The end of it: calc_pnl_user charges what is due, and the position is
\* cleared.
Charge(c, u) ==
    [c EXCEPT !.paid[u] = @ + Due(c, u), !.fee[u] = 0, !.start[u] = 0]

\* close_and_withdraw_inner; what is held is traded away.
Close(c, u) ==
    LET d == Unwound(c, u)
        n == d.hold[u]
    IN  {Charge(e, u) : e \in IF n > 0 THEN Shorts(d, u, n)
                              ELSE IF n < 0 THEN Longs(d, u, -n) ELSE {d}}

-----------------------------------------------------------------------------
(* The calls.                                                              *)

Within(c) ==
    /\ c.stable <= Limit /\ c.asset <= Limit /\ Det(c.m) >= MinDet
    /\ \A u \in Users :
        /\ c.hold[u] \in -Held..Held
        /\ c.fee[u] \in -Owing..Owing /\ c.paid[u] \in -Owing..Owing

Takes(outcomes) ==
    \E c \in outcomes : Within(c) /\ book' = c /\ UNCHANGED now

NewBlock == now < Horizon /\ now' = now + 1 /\ UNCHANGED book

UpdateFGKeeper == Takes({UpdateFG(book)})

\* LS0.
UpdateLpSnapshot(u) == Provides(book, u) /\ Takes({Settle(UpdateFG(book), u)})

ExecuteTrade(u) ==
    u \in Traders /\
    \E size \in Amounts : Takes(Longs(book, u, size) \cup Shorts(book, u, size))

AddLiquidity(u) == u \in Lps /\ \E in \in Deposits : Takes({Deposit(book, u, in)})

\* Bound: half of the balance or all of it.
Parts(v) ==
    {v} \cup IF v[1] % 2 = 0 /\ v[2] % 2 = 0 THEN {<<v[1] \div 2, v[2] \div 2>>} ELSE {}

\* L4 and L5.
RemoveLiquidity(u) ==
    /\ Provides(book, u)
    /\ \E out \in Parts(LpBalance(book, u)) : Takes({Withdraw(book, u, out)})

\* realize_pnl_outer: the PnL moves to the collateral and with the opposite
\* sign to the stable balance; the fee stays in its cell.
RealizePnL(u) == Takes({Settle(UpdateFG(book), u)})

CloseAndWithdraw(u) == Takes(Close(book, u))

\* The margin check reads the time of the last operation before update_fg.
FaultMarginFails(c, d, u) == MarginDue(d, u, c.last) > Bearable

\* The victim's margin check, on the books d after update_fg.
MarginFails(c, d, u) == MarginDue(d, u, d.last) > Bearable

\* liquidate_with_price: of the victim's net asset all or half (a bound)
\* changes hands, its liquidity is pulled to that part; all of it closes the
\* victim.
Liquidate(l, u) ==
    LET c == UpdateFG(book)
        d == Settle(Settle(c, l), u)
        v == LpBalance(d, u)
    IN  /\ l # u
        /\ MarginFails(book, c, u)
        /\ \E part \in {1, 2} :
            LET size == (d.hold[u] + v[2] - d.debt[u]) \div part
                out  == <<v[1] \div part, v[2] \div part>>
                e    == IF out = <<0, 0>> THEN d ELSE Withdraw(d, u, out)
                moved == [e EXCEPT !.hold = [[e.hold EXCEPT ![u] = @ - size] EXCEPT ![l] = @ + size],
                                   !.start = [[e.start EXCEPT ![u] = e.f] EXCEPT ![l] = e.f]]
            IN  /\ size # 0
                /\ Takes(IF part = 1 THEN Close(moved, u) ELSE {moved})

Next ==
    \/ NewBlock
    \/ UpdateFGKeeper
    \/ \E u \in Users :
        \/ UpdateLpSnapshot(u)
        \/ ExecuteTrade(u)
        \/ AddLiquidity(u)
        \/ RemoveLiquidity(u)
        \/ RealizePnL(u)
        \/ CloseAndWithdraw(u)
        \/ \E l \in Users : Liquidate(l, u)

Spec == Init /\ [][Next]_<<now, book>>

-----------------------------------------------------------------------------
(* Properties.                                                             *)

TypeOK == now \in Nat /\ book \in Books /\ book.last <= now

Net == [u \in Users |-> book.hold[u] + LpBalance(book, u)[2] - book.debt[u]]

Eager == INSTANCE EagerFunding WITH
    net   <- Net,
    speed <- Speed(book),
    owed  <- [u \in Users |-> Due(book, u)],
    paid  <- book.paid

\* However lazily funding is settled, what a view says an account owes grows
\* with time only, by the exposure times the account's net asset at the time,
\* and is what a close charges: no call, in whatever order, charges an
\* interval twice, skips one, or charges it on a position that was not held
\* (funding.rs:216-354).
AccruesEagerly == Eager!Spec

\* What accounts owe and are owed cancels out, traders against LPs.
ZeroSum == Eager!ZeroSum

\* Nobody is liquidated for funding it does not owe: the margin check of a
\* liquidation sees what any view showed before the call, although update_fg
\* has settled it in between (liquidation.rs:65-83).
LiquidatedForDueFunding ==
    [][\A l, u \in Users : Liquidate(l, u) => Due(book, u) > Bearable]_<<now, book>>
=============================================================================
