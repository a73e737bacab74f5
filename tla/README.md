# A TLA+ development of the Denaria perpetual engine

These modules specify the production system of this repository: the perp engine written
in Rust for Arbitrum Stylus (`src/perp-engine/src`) and the Solidity contracts around it.
They are model-checked with TLC on small instances and, where stated, proved with TLAPS for
every value of the constants.

## 1. The system

| Component | State it keeps | Operations | Talks to |
|---|---|---|---|
| Liquidity accounting epochs (`funding.rs`, `liquidity.rs`, `internal_logic.rs`) | per epoch a 2x2 matrix, a funding row and a reference count; pointers to the oldest and the current epoch; per LP a snapshot (epoch, matrix, row, initial amounts) | roll, retire, snapshot, settle, fold an update, accrue | every engine call |
| Trades (`trade.rs`) | trader balances and debts, pool, exposure, fund | long, short | curve, epochs, funding, oracle |
| Liquidity movements (`liquidity.rs`) | pool, LP debts, LP snapshot | add, remove | epochs, funding |
| Close and PnL (`close.rs`) | the position and the LP position of one account | close and withdraw, realize PnL | trades, liquidity, vault |
| Liquidation (`liquidation.rs`) | positions of victim and liquidator | single, batch | close, vault |
| Auto-close (`auto_close.rs`) | per account take-profit and stop-loss prices | enable, disable, execute one, batch | close |
| Funding (`funding.rs`) | global funding index, per trader last index, per epoch row | update (once a block), settle | every call |
| Configuration (`lib.rs`, `config.rs`, `access_control.rs`) | roles, parameters, prepared hash and unlock time, pause, forwarder | grant, revoke, prepare, set, set unguarded, pause | all |
| Vault (`Vault.sol`) | user and total collateral, their ratios per stablecoin | add, remove, remove all, PnL from the engine | engine (margin check), lost-and-found |
| Lost and found (`LostAndFound.sol`) | balances a blocked transfer left behind | deposit, retrieve | vault |
| Oracle middleware (`TWAPOracleMiddleware.sol`) | last price, its validity, history of prices | verify a report, read | engine, vault, manager |
| Multi-call manager (`StylusPerpMultiCalls.sol`) | a nonce per account | compound calls, direct or signed and relayed | engine (forwarder), vault, oracle |

Each call is one atomic transaction; a failed check reverts all of it.  There is no thread
and no crash: what makes the system hard is the *order* in which accounts' transactions come
(several in one block time), the *lazy* settlement of LP balances and of funding, which leaves
every account with a stale view that must be brought up to date exactly once, and sequences
of legal calls that lead the books where no test went.  What each component must guarantee:

- epochs: no LP's epoch is deleted or skipped while the LP depends on it; every update reaches
  every LP once; loops are bounded; counts are not released twice;
- trades, liquidity, close, liquidation: value is conserved among pool, traders, LPs, fund,
  frontends and vault; pool and traders are counterparties of each other; the fund pays only
  for liquidated bad debt;
- funding: what is paid is what is received, in whatever order accounts settle;
- configuration: the timelock cannot be bypassed, fee fractions stay below one;
- vault: ratios add up, payouts are covered, blocked payouts are retrievable;
- oracle: a price is fresh, signed and near its average when used;
- manager: a signature acts once, in order, before its deadline.

## 2. Modules

| Module | What it is |
|---|---|
| `LiquidityEpochs` | the epoch machinery under every call that touches it |
| `LpTracking` | what the epochs promise to an LP, with no epoch in sight (abstract) |
| `LiquidityEpochs_proofs` | the inductive invariant of the epochs and the theorems |
| `MCLiquidityEpochs` | instances for TLC |
| `PerpLedger` | who owns and owes what: positions, LP debts, pool, exposure, insurance fund, collateral |
| `MCPerpLedger` | instances for TLC |
| `SumLemmas` | what a sum over a finite set of accounts is, whatever the order |
| `PerpLedger_proofs` | the conservation of value, operator by operator, and the theorems |
| `EngineConfig` | governance: initialisation, roles, breaker, time-locked and unguarded parameters |
| `MCEngineConfig` | an instance for TLC: its default parameters and seven proposals |
| `EngineConfig_proofs` | the inductive invariant of the configuration and the theorems |
| `Funding` | the lazy funding of traders and LPs over block times |
| `EagerFunding` | what funding promises: everybody owes its share at every unit of time (abstract) |
| `Vault` | the collateral vault with its stablecoin ratios, and the lost-and-found |
| `OracleMiddleware` | price reports, their average, and the price that is served |
| `Requests` | relayed signed messages, standing auto-close orders, batches |
| `MCFunding`, `MCVault`, `MCOracleMiddleware`, `MCRequests` | instances for TLC |
| `Funding_proofs` | the lazy funding: the pool is the LPs', it implements the eager one, funding is a transfer |
| `Vault_proofs` | the ratios' backing: the invariant, payouts, credits, rounding |
| `OracleMiddleware_proofs` | the oracle: the loop's average is the time-weighted one, order, accepted prices last, served prices are near the window |
| `Requests_proofs` | messages, batches and orders: once, in order, as asked up to the fees, every item of a batch accounted for |

### LiquidityEpochs

One record `eng` holds the epochs, the two pointers and the LP positions. A call maps it
through operators named after the functions of the code, in the order of the code:
`Retire`, `RollIfNeeded`, `UpdateSnapshots`, `ApplyMatrixUpdate`, `UpdateFG`, `Remove`,
`Close` and so on; a call that would revert is a step that is not taken. The calls are
`UpdateFGKeeper`, `ExecuteTrade`, `AddLiquidity`, `RemoveLiquidity`, `RealizePnL`,
`UpdateLpSnapshot`, `CloseAndWithdraw`, `Liquidate`; `NewBlock` lets time pass.
Auto-closes and batches are sequences of `CloseAndWithdraw` and `Liquidate` for the epochs.

Abstractions:

- The matrix of an epoch is the *number of updates* folded into it since it was the identity,
  and its funding row the number of accruals, both modulo `Modulus`. An LP's recovery
  `M(t) * M(t0)^-1 * v` is right exactly when its epoch received every update since t0, so
  counts are what the properties need. The numerical quality of the inverse is one bit:
  `decayed`, whether the determinant of the current epoch is at or below the roll threshold,
  chosen anew at every update.
- Whether an LP's recovered balance is zero (`worth`) is chosen anew whenever the pool or a
  matrix changes; right after a snapshot recovery is exact.
- Margin, slippage and size checks only refuse calls; leaving them out adds behaviours.
- Whether the pool is empty is left open.

### LpTracking

An LP has a snapshot and a book of its own that counts updates and accruals since the
snapshot. A call enters the same updates in all the books; only the (at most two) accounts the
call is about may have their book restarted. `TracksEveryUpdate` says that `LiquidityEpochs`
implements it, the books being the differences between epoch and snapshot.

### PerpLedger

One record `b` holds the books of the engine and the vault. A call maps it through operators
in the order of the code: `Withdraw` is `remove_liquidity`, `Deposit` `add_liquidity`,
`Long` and `Short` the two directions of `execute_trade`, `AssignFee`
`assign_protocol_fee_filling_insurance`, `Close` `close_and_withdraw_inner` (`Unwound`, then
`Flattened`, then `Realized`), `Seize` `liquidate_position`, `PaidOut` the vault's
`removeAllCollateralForUser`. Abstractions:

- A trader position is two net amounts (balance minus debt, minus funding fee). The cells behind
  them matter to no property; the guard `balanceAsset >= dAmount` of a liquidation (LQ1) becomes a
  refusal that need not happen.
- What the curve, the fee formulas, the price or the liquidity matrix decide is *any* amount
  of a range: a trade returns any amount the pool can give, a snapshot recovers to any amounts
  up to the pool (the code clamps it there). Value is conserved whatever these are.
- Margin, slippage, leverage and minimum-size checks only refuse calls and are left out. Guards that
  matter to the books are kept: T3, T5, L3, L5, C0, C1, R1, LQ0, RC1, RC3, PNL1.
- Funding a call settles is any transfer between accounts; that it is zero-sum is assumed here and proved of `Funding` (`FundingIsATransfer`).
- The exposure and the fund keep the code's magnitude and sign, with the two hand-written updates
  (`ExposureUp`, `ExposureDown`) as they are in the code.
- One stablecoin: the ratios of the vault are in `Vault`. That a withdrawal of exactly the vault's total
  takes the user's whole claim (`Vault.sol:257-268`) is in both.
- `lostAsset` and `lostStable` are auxiliary: what closes left untraded and what they paid for it.

### EngineConfig

One variable per storage item, one action per governed call of `lib.rs`, with the names of the code;
`Tick` is the next block. `params` holds the ten time-locked parameters, `param_hash` the record
that was hashed (a hash without collisions), `armed` is history: what was prepared last, when, under which
lock, and what the frontend's share was then. Abstractions:

- 256-, 64- and 32-bit integers keep a width (`Word`, `Word64`, `Word32`): subtraction and the deadline's addition
  wrap, products are checked, stores narrow or refuse, as in the code.
- Before the initialisation `mod_role` is the zero role, which is the administrator's, as zeroed storage has it.
- Left out: parameters that no check relates to another, the addresses of oracle and vault (checked only
  against zero), `initializeBenchmark` (not in production builds), events.
- The calls that read the breaker and the forwarder (`trade_impl`, the `*For` entry points) are not part of it.

It also says what `PerpLedger` may assume: that module keeps the parameters fixed and takes two fee shares
that fit into the whole (`FractionsAreNat`), which `OverdrawnOnlyByRace` grants with the exception found below.

### Funding and EagerFunding

`book` holds index `f` (`fundingRate`), row `g`, matrix `m`, pool, exposure, and per account the net asset,
the LP debt, the snapshots and the fee cell. Operators are the functions of the code (`UpdateFG`, `FundingFee` with
its LP part `Star`, `Settle`, `Snapshot`, `Withdraw`, `Deposit`, `Close`, ...), and the calls chain them in the code's order:
that `add_liquidity` computes the fee *before* `update_fg` with a hypothetical index, or that a liquidation's margin
check must read the time *after* it, is what the run is about. `AccruesEagerly` says that the module implements `EagerFunding`,
in which nothing is lazy: `owed` is refined by what a view would show (`Due`), a block of time adds speed times
net asset to it, no call changes it, and a close charges exactly it. `ZeroSum` says traders and LPs are each other's counterparties in
funding at every moment. Abstractions:

- One epoch (`LiquidityEpochs` shows that every epoch receives every accrual), no fees, a price of one, and one as the factor of price, pool
  and `funding_c` in the rate, so that the rate is the exposure. In the code a new price or `funding_c` also applies to the time since
  the last operation; nothing is claimed about which of the two should.
- Only inputs whose quotients are whole numbers, so that laziness and not rounding is shown.
- LP stable debt, dust closes, discount and size limits of a liquidation are left out; it takes all or half. The margin is
  the funding an account may owe (`Bearable`).

### Vault

One variable per storage item; `Removal` is `_removeCollateral` as a function from the state to what is paid
and what is left, so that `PayoutsCovered` can ask about every withdrawal that could be made, not only those that are. `PayOut` is the
transfer, any of the refusing coins refusing, with the lost-and-found's deposit. Abstractions:

- The snapshot may be refreshed at any movement: the lock time and its pseudo-random delta (`updateSnapshot`) can be anything.
- The engine's checks (margin, RC5) and the pause only refuse withdrawals and are left out.
- A coin is never listed twice. The code does not check it, and the preparation stays valid after it was used; the
  ratios are kept by coin and would be counted for both entries. It is an assumption on the moderator.

What holds is weaker than one may expect: ratios of one user can add up to more than one (a user without ratios copies
the vault's, which a vault emptied to its dust no longer has normalised, `Vault.sol:249-253`), and only such a
user's calls can leave the vault with less than its total (`ShortOnlyByExcess`); even then no payout fails (`PayoutsCovered`).

### OracleMiddleware

Timestamps are kept as ages, so that time never ends. `feed` is the price signed for each stamp that could still be handed in; `VerifyReport(age)`
is a report delivered, late or out of order as it may be; `history` and `last` are the storage. `TwapIsAverage` compares the loop of `_computeTWAP` with
the definition of a time-weighted average. `Horizon` is where ages stop: no window that a report's test or `getPrice` opens reaches it (`SettingsFit`), so
nothing that counts is forgotten. Left out: ownership transfer and token withdrawal, and the bytes of a report (its
signature, feed and schema only refuse it). The comment of `TWAPOracleMiddleware.sol:252` speaks of a minimum
time between verifications; the code asks only for a newer stamp, which is modelled.

### Requests

What users leave for others to carry out. `Signed` is what they signed off chain; `Relay(m)` hands a message in, any message, any
time, any number of times; `Call` is the same body called directly; `AutoClose`, `BatchAutoClose`, `BatchLiquidate` are the keepers'. A call
is the set of its outcomes, empty if it reverts, so that a batch is a fold over its items and reverts as a whole.
`done` and `asked` are auxiliary.

Everybody shares one `market`: the pool's reserves and per user the LP's legs, the net position outside them, the collateral and the order. This is
what makes the module: a trade, a movement of liquidity or a close moves the reserves and *all* LPs' legs (`Stepped`, by the rows of the liquidity
matrix: `Long`, `Short`, and `Earned` for a fee), and `PnL` values everybody on the reserves and legs of the moment, as `calc_pnl` does. So

- a signed change of liquidity does not end at its target: the fee of a removal is distributed after the remover's snapshot
  (`liquidity.rs:135, 158`) and makes the rest of its legs grow, and a deposit's fee is cut from its stable (`liquidity.rs:257-264`). What `AimsReached` claims is what
  can be claimed: the asset leg takes no part in it, and the stable leg is off by at most what the signer's fee cap allows, in either direction,
  apart from legs too small to be moved;
- whether an order is due changes *within* a batch: an order that was due when the batch began may be skipped (A1) at its turn, because an earlier
  close has moved the pool, and another may become due. Both happen in the run. What `BatchesAccountForAll` claims is that up to the first
  close exactly the due orders are executed, that no failure of one that is due leaves it behind in a batch that goes through, and
  that money moves only for those who were closed and the keeper, one fee for each.

Abstractions: the curve is any function of size, price and reserves (`Return`, `Cost`); what a trade returns is off the oracle's price by
a `Slippage`, what a movement of liquidity is charged is any of `Fees`, or nothing in a pool of one side and for who takes all that is in it, as the fee formulas
have it, and what of a trade's fee leaves the pool (`Cuts`) goes to none of the users. Legs are numbers; that they may be told from
snapshot and matrix is `LiquidityEpochs` and `Funding`. No funding, only full liquidations. Leverage, sizes and the vault's checks only refuse a call;
signatures are right, permits of tokens are left out. Not claimed, because the code does not: an order is not cleared when its position is closed by an opposite
trade, and one order that fails C1 reverts a batch (documented, `auto_close.rs:153-158`).

## 3. Runs

| Run | Configuration | What it shows |
|---|---|---|
| `liquidity_epochs` | 2 users, 2 epochs, counts to 1 on deposit and modulo 2 | type, reachability, counts, conditioning, bounded window, clean outside, monotone pointers; the epochs implement `LpTracking` |
| `refcount_exact` | as the first | **violated**: a close leaks a reference (see Findings) |
| `cap_counts_active` | as the first | **violated**: the cap measures a distance (see Findings) |
| `ledger` | 2 accounts, both LPs, fees in halves, dust, funding and auto-close fee of 1, cap 1, amounts of 1, volume 3, depth 2 | type, counterparties, exposure, solvency, fund cap, who the fund pays for |
| `drift_within_dust` | dust 1, twice | **violated**: the exposure's drift accumulates (see Findings) |
| `engine_config` | 2 accounts, 7 proposals, shares 1 and 3 of 4, words of 64/16/16, times to 3 | type, flat fee covered, shares bounded, time lock respected, how shares overdraw, abandonment final |
| `fee_shares_fit` | as above | **violated**: prepared share, then raised share (see Findings) |
| `protocol_collects` | as above | **violated**: the wrong address is checked (see Findings) |
| `oracle` | 2 prices far apart, stamps from 1 ahead to 1 late, windows of 2 and 3, one parameter change | type, the average, what was accepted stays acceptable, order of acceptance, a lasting price is served |
| `vault` | 2 users, 2 coins (the second listed later, one decimal less, may refuse transfers), ratios in halves, claims to 3 | type, ratios backed, payouts covered, lost coins booked, no loss by rounding, ratios in band |
| `funding` | 2 accounts, both LPs, one trades, three blocks, scale 4 | type, zero sum, `Funding` implements `EagerFunding`, liquidation for due funding only |
| `requests` | 3 users, two LPs, a trader, one of them the keeper; five messages for two nonces; orders for profit and for loss; two blocks; prices 1 and 3; fees 0 to 2 with a cap of 1 | each message once and in order, aims reached up to the fees agreed to, batches execute what is due at its turn, orders end with the close |

Why the bounds are enough. *Epochs*: two LPs are what an epoch needs to be referenced by one and left by
the other, and two epochs what they need to be in different ones; users are symmetric. Update counters modulo 2 with at most three updates per call show
a single one lost or doubled. That the cap binds shows in the two violated properties, which run with cap 3 and five ids, where the window
fills, drains in the middle and is refused a roll; the properties of the first run are theorems for any cap. *Ledger*: a fee of 1 split in halves rounds at every floor division; two accounts are trader and
counterparty, victim and liquidator, user and frontend or protocol, and LPs that withdraw each other's deposits, so that the exposure
crosses zero both ways; `Limit`, `Lost`, `Volume` and `Depth` cut the
books at a size that all actions, full and partial liquidations, bad debt and a full fund fit in. *Configuration*:
two accounts are an administrator and a moderator, or a governor and its successor; the proposals are one that each check accepts or
refuses (a share beyond the whole, a flat fee whose product wraps, a value too wide to store, a
lock that reaches the end of a u64) and two ordinary ones with different locks; four block times
let a lock of the old or the new length run out, or not. *Oracle*: two prices four times apart are outside every tolerance of each other; three
stamps at each moment allow a report early, in time, late, twice and in either order; ages saturate
beyond the longest window, so time is not bounded. *Vault*: ratios in halves round at almost every movement, a coin worth two units leaves a remainder
at every conversion, and claims to 3 exceed what two coins hold. *Funding*: three blocks give two intervals, so that an account
settles at once, late, twice in a block or after another one; a second LP holds what the trader loses. *Requests*: two messages compete for each nonce and some expire; a keeper, its two
clients in either order in a batch, prices at which an order for profit, one for loss, both and neither are due; two LPs, so that fees, trades and closes
of one move the legs of the other; fees below, at and above the cap of 1 that signers set, and none; a curve (`ReturnDef`, `CostDef`) that is worse than the oracle's price
by one for what is large against the reserves, so that a close changes what others are worth; reserves and balances up to 7, which
two deposits and a trade fit in. An order skipped because of an earlier close, one made due by it, two closes in a batch, a batch of liquidations that goes
through, and a position off its target by fees in either direction were each confirmed to be reached.
Theorems hold for all constants, so bounds matter only to what is model-checked alone.

Fairness: no call of the engine, the vault or the manager is obliged to happen (each is somebody's choice, keepers
included) and nothing waits, so they promise no liveness. `OracleMiddleware` alone states fairness: time passes (`WF` of `Tick`), and
reports keep being handed in as long as some report would be taken (`WF` of `Deliver`), because every call of the engine and
the keepers' `updateFG` carry one; under it `LastingPriceServed` holds. Deadlock is checked in every run.

## 4. Proofs

`LiquidityEpochs_proofs` proves `TypeOK`, `SnapshotsReachable`, `RefcountCovers`,
`SnapshotsWellConditioned`, `OutsideWindowFree`, `WindowBounded` and `EpochsOnlyAdvance`
for any finite set of users and any bounds (assumptions `UsersFinite`, `BoundsAreNat`).
The properties are not inductive one by one: that retiring keeps the epochs of active LPs needs
that counts cover them; that counts stay natural needs that a snapshot's epoch is its own; and the window bound
needs that a roll is only made when the *active* window is below the cap, that is, that
an empty current epoch is discounted. The invariant `Inv` is their conjunction with typing and
the order of the pointers. Each operator of the model has one lemma ("... Keeps") saying that it
preserves `Inv` and moves pointers only forward; calls are compositions, so each call's
lemma ("... Follows") only chains them, and `Invariance` closes with one step per
action. Counting LPs uses the library's facts about finite cardinalities, and the epoch where retiring
stops exists because a non-empty set of naturals has a least element (`LeastElement`).

`NothingLeftToRetire` adds, from the same invariant, that the window starts with an epoch that is still referenced (`Held`, `WindowHeld`). Retiring is
called where a snapshot moves or goes, not everywhere: `NextHolds` shows call by call that what runs after it moves neither pointer nor
count (`SameRefs`). So when the cap (above one) refuses a roll with LECAP, it waits for the references to the oldest epoch, leaked ones (§5)
included. No run checks it; it was tried on the run's instance before it was proved.

`ImplementsTracking` proves the refinement, `Spec => TracksEveryUpdate`, from the same invariant. A call is a chain of operators, and an
LP's book is a difference between two counters that the operators move separately, so the proof is again about steps: `Tracks(s, r, k, A)` says that
every epoch some LP stays in received k updates and at most the one accrual that was due, that snapshots outside `A` are as they were, and that a replaced one
has its accruals settled, *after* the accrual of the block (`Touched`). Each operator tracks with its own k and A;
`TracksCompose` chains them, which needs that nobody whose snapshot a call dropped joins again in the same call, and that an LP
never returns to an epoch it left (`Moves`). A full liquidation is the longest chain: three updates, two accounts. `SinceTimes` turns counters into books.

`PerpLedger_proofs` proves all seven properties of the ledger run, for any finite set of accounts, any
fee fractions that add up to no more than one, any cap, dust, overshoot and any inputs
(assumptions `AccountsFinite`, `ProtocolKnown`, `FrontendsKnown`, `FractionsAreNat`, `InputsAreNat`):
`TypeOK` (no subtraction of the code goes below zero), `PoolExposureBalanced`, `ExposureMatches`,
`Solvent`, `FundCapped`, `FundPaysLast` and `OnlyLiquidationsDrainFund`. The inductive invariant `IInv` is
typing with the three balances as gaps (`PoolGap`, `ExposureGap`, `Slack`) and the fund's cap; the balances need no
strengthening, but each operator in the middle of a call breaks `Solvent` (a fee is taken out before it
is handed on), so the argument is not about states but about steps: `Moves(c, d, k)` says that
an operator took books c to d, closed and opened no gap, and created at most k. Each
operator has a lemma with its k (a fee taken is negative, a fee paid out positive), moves compose, and
each call's amounts add up to zero because two floors are at most the floor of the sum
(`FloorSum`, `PartsSum`, `PayFeesMoves`). The only operator that is not a move is `Realized`, the
settlement of a close: there the fund may fall, but only when the equity is negative, which leaves no collateral
to pay out (`Settles`, hence `FundPaysLast`) and which C1 excludes for an owner's close
(hence `OnlyLiquidationsDrainFund`).

The balances are sums over the accounts, and the library has no fact about the community
modules' `SumFunction`, which picks elements in an unspecified order. `SumLemmas` proves that the order does
not matter and that a sum changes by what one cell changes by (`SumChanged`). The usual
induction on finite sets is out of the prover's reach, so these lemmas argue by a minimal
counterexample (`MinimalSet`, from the well-foundedness of strict inclusion).

`EngineConfig_proofs` proves all six properties of the configuration's run for any accounts, proposals
and word widths (assumptions `ZeroesDiffer`, `ConstantsFit`, `InputsFit`). What
`setTimeLockedParameters` checks is the hash and the clock, so none of the properties is
inductive: the invariant `IInv` adds `Pending` (a stored hash is that of the last
preparation, with its deadline, its checks and the frontend's share of that time) and `Governed`
(nobody holds a role before the initialisation, and moderators' calls ask for their own role after it). Each call
keeps `IInv` by a lemma of its own; `CallStep` draws from the same lemmas what a step may do
(`Timely`, `RacedOnly`, `Final`). `NoWrap`, `SharesFit` and `FlatFee` say that the wrapping arithmetic
of the checks computes the numbers it means. The time lock's theorem excludes, as the property does, a
lock so long that the deadline wraps around a u64, where the code applies at once.

`Vault_proofs` proves all six properties of the vault's run, for any users, coins, decimals, thresholds and amounts
(assumptions `UsersAndCoinsFinite`, `AmountsAreNumbers`, `UnitsPositive`, `CoinsListed`, `ProposalsTyped`). `Backed`, with the code's
floor, is not inductive: rounding down once hides what is missing at the next movement. `StronglyBacked` is the same without the floor (total ratio times total
collateral against what the vault holds of the coin), and `UnlistedUnused` says that only listed coins have ratios. The heart is
`RemovalIs`: what a removal takes of each coin is no more than the vault's part of it, and what it leaves backs the ratios computed from the rest, whichever of
the two ways it is paid. `PartsFit` (parts of ratios that add up to at most one add up to at most the amount) and the sums' linearity (`SumLinear`, `SumMonotone` of `SumLemmas`)
give that no payout fails, and that only a user whose ratios exceed one leaves the vault short.
`StaysInBand` needs no invariant but the types: it is about one step's ratios against the snapshot's.

`OracleMiddleware_proofs` proves `TypeOK`, `AcceptedInOrder`, `TwapIsAverage` (`AverageIsRight`) and `AcceptedStaysAcceptable`
(`OnceAcceptedAlways`), for any prices, settings and delays (assumptions `PricesAreNat`, `TimesAreNat`, `SettingsFit`).

- The history is cut where it is older than the longest window (`Forget`); the cut keeps the types because a non-empty finite set of
  naturals has a greatest element, and `Stored` adds to them that newer entries are younger (`StoredSorted`): the one fact about
  the history that the average needs, and what breaks when a report as old as the last one is taken.
- `_computeTWAP` is a recursion over entries from the newest down, with the overlap of the oldest cut off; the average is a sum
  over units of time of the price in force. Each is the last row of a table (`SumsAre`, `PriceSumIs`), and the tables are related by `Summed`:
  after entry i the loop has the sum between the next entry's stamp and the far end of what is covered, if that entry is in the window at all.
  An entry keeps it (`EntrySummed`), because the sum over the units in which one price is in force is a multiple (`RunOf`, `OneEntry`).
- Two histories with the same prices in force over windows of the same length have the same average (`SameAverage`). A report at or after the
  price that is tested leaves what is before it (`ReportKeepsAverage`), and the clock moves the window with its prices
  (`TickKeepsAverage`). So the second test of `getPrice` can only repeat the first.
- `ServedNearWindow` (a theorem only) says what the two tests are worth: a price that is served is not beyond the tolerance above all the
  prices in force in the window before it, nor below them all, and the average is zero only if the window held no price. A mean lies
  between its least and its greatest entry (`MeanBetween`), and the tolerance grows with the price (`ToleranceGrows`).

`Requests_proofs` proves `EachOnceInOrder`, `AimsReached` (`SignedForIsDone`), `BatchesAccountForAll` (`BatchesAccounted`) and `OrdersEndWithClose`
for any messages, users, prices and batches, every curve and all fees, cuts and slippages
(assumptions `AimsFit`, `OrdersFit`, `BatchesFit`, `KeepersKnown`, `NumbersFit`, `CurveFits`).

- Only `Relay` touches a nonce; `EachOnceInOrder` needs the records' types and no more.
- `Holdings` says that the market is `Sound`: reserves, legs and collateral are natural numbers, and whoever has an order asked for it. Legs may exceed the
  reserves, which is why the code clamps them; that a step of the matrix leaves none below zero is `ShareWithin` and `CeilWithin`: rounded up, a share of at most
  the whole is at most one's part. From `Sound` follows `OrdersEndWithClose`.
- Each operator of the pool is a relation between markets: `Drifts` moves only legs and reserves, and gives no legs to who has none; `Moves`
  also changes one user's position; `Alike` is what it leaves of everybody else's. Moves compose (`MovesCompose`), so the engine's calls
  are chains of them (`WithdrawnIs`, `AddedIs`, `CloseIs` and so on).
- `AimsReached` follows these chains: `WithdrawnIs` says that the remover's stable leg has grown by at most the fee, `AddedIs` what a deposit
  is short of and has earned; a message that removes and then adds puts the two together, with the target computed before the first of them.
- A batch is a fold over its items. The library has no fact about such a fold: `TableExists` and `ItemByItem` turn it
  into a table of the markets that may be reached after each item, on which induction is over the least item that goes wrong (`LeastNumber`). Before the first
  close the table's market is the one the batch began with, so that an item is executed exactly if it was due then (`OrdersServed`);
  after it only who is closed and the keeper have anything but their legs changed. A liquidator is never in its own batch, by LQ0, and
  what a liquidation emptied stays empty, as nobody without legs drifts (`LiquidationsServed`).

`Funding_proofs` proves `TypeOK`, `LiquidatedForDueFunding`, the refinement `AccruesEagerly` (`ImplementsEager`) and `ZeroSum`
(`FundingIsATransfer`), for any users, amounts and delays (assumptions `UsersFinite`, `ScaleNonZero`, `MinDetPositive`, `InputsFit`).

- `IInv` adds to the types that the determinant of the matrix, and of every provider's snapshot, is positive: balances and fees divide
  by it. What a margin check reads after `update_fg` is then what a view showed before it (`RowsAgree`, `DueAgree`).
- `SInv` adds `Sharing`: the balance recovered from a snapshot is exact, no clamp cuts it, and the balances add up to the legs of the pool
  (`PoolIsShared`). Without it nothing bounds what LPs are paid: the row accrues `M.a`, which is a sum over accounts only if their
  shares are all of the leg. It is inductive because a trade moves the same part of a row and of a leg
  (`SharesTraded`), and because a new snapshot recovers the balance it was taken of (`Repositioned`). The exactness is what the bounds
  `Whole` and `Shares` give; the rounding of the code is not in this module (§6).
- `StarGrows` turns the LP's fee into its growth up to now plus index times balance, so that what is due depends on the account's own
  cells alone while the index stands (`SettlingStays`), is reset by settling (`SettledSettling`), and grows by the speed times the net
  asset with a block (`DueGrows`). Every step of a call then carries what is due to everyone and the sum of the positions (`Carries`),
  up to the last one of a close, which charges it (`Charges`); the calls are compositions of these steps.
- `EagerIsZeroSum` is about `EagerFunding` alone: its sums stay zero (`EagerSum`, `SumLinear`).

Every property of a passing run is proved but one: `LastingPriceServed`, a liveness property, is out of the prover's reach and
stays with TLC, as would anything about ENABLED. The library's induction over data is out of reach too; where a recursion had to be reasoned about
(sums, folds, the average), the proofs take its values as a table and argue by the least counterexample.

## 5. Findings

- `RefcountExact`: `funding.rs:38,45` speak of an epoch's *active-LP* refcount.
  `close_and_withdraw_inner` (`close.rs:30-57`) skips the removal when the recovered LP balance and the
  LP debts are zero, and then clears the position, snapshot included, without releasing the
  epoch. The count stays one too high and the epoch can never be retired; what does hold is
  `RefcountCovers`.
- `CapCountsActiveEpochs`: `funding.rs:7` bounds "simultaneously-active" epochs, but the roll
  measures the distance between the pointers: drained epochs in the middle count too, so a roll can be
  refused (LECAP) with fewer active epochs than the cap. Together with the leak above
  the refusal can become permanent for deposits and partial removals; full exits never roll and
  stay possible.

- `DriftWithinDust`: the test oracle of `tests.rs:3168` asserts that the exposure equals the sum of
  the positions up to the dust of *one* close. Closes drop their residue without telling the exposure
  (`close.rs:54-58`, and what C0 tolerates), and nothing gives it back: the drift accumulates. What
  does hold is `ExposureMatches` (all dropped residues added) and, residues included, `PoolExposureBalanced`.
- `FeeSharesFit`: the LPs' share is checked when it is prepared and stored when it is applied
  (`lib.rs:784, 839-877`); the frontend's share may be raised between the two, next to the LPs' share still
  stored (`lib.rs:897`). Then both exceed the whole together, against SET1 (`lib.rs:300`), and
  the subtraction of `trade.rs:282` is below zero. `OverdrawnOnlyByRace` is what holds.
- `ProtocolCollects`: `lib.rs:899` checks that the *stored* collector of protocol fees is not zero and
  stores the new one unchecked, against SET7 (`lib.rs:250`); once it is zero, the call is refused for good.

## 6. Not modelled

- The bonding curve and the Q80 matrix arithmetic (`CurveMath.rs`, `trade.rs` as far as it calls them): 256-bit fixed-point
  numerics beyond TLC, the subject of the repository's differential tests. The ledger takes their results as any
  amounts, the epochs as counts of updates, `Funding` as exact quotients.
- EMA, slippage, leverage and minimum sizes: they only refuse calls. The position's five cells: two net amounts.
- The liquidation discount and the fee formulas: any amount (`PerpLedger`).
- In the contracts around the engine: pause and one-time initialisers, permits, ownership and token withdrawal of the
  oracle, the encodings and signatures of reports and messages.
- A coin listed twice in the vault (an assumption on the moderator, see `Vault`).
- The legacy Solidity engine (`src/src/perpModules`, `PerpPair.sol`), which the Rust engine replaces; `callBatcher.sol`, the token,
  test support and scripts, which keep no state of the protocol.
