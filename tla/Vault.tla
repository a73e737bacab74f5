------------------------------- MODULE Vault -------------------------------
(***************************************************************************)
(* The collateral vault (Vault.sol) and the lost-and-found                 *)
(* (LostAndFound.sol).                                                     *)
(*                                                                         *)
(* A user's collateral is one number; which stablecoins stand behind it is *)
(* kept as ratios, of the user and of the vault, rounded down at every     *)
(* movement.  A withdrawal is paid in the coins of the user's ratios as    *)
(* long as that leaves the vault's ratios near their snapshot, and in the  *)
(* coins of the vault otherwise.  A transfer that a coin refuses ends in   *)
(* the lost-and-found.                                                     *)
(*                                                                         *)
(* The engine's part in a withdrawal (profit and loss, margin) can only    *)
(* refuse it, and so can the moderator's pause.  Realised profits reach    *)
(* the vault as AddPnlToCollateral, liquidations as                        *)
(* RemoveAllCollateralForUser.                                             *)
(*                                                                         *)
(* An operator named Fault... is a seeded bug, the definition after it     *)
(* gone wrong in a plausible way; nothing uses it in the model.            *)
(***************************************************************************)
EXTENDS Integers, FiniteSets, Functions

CONSTANTS
    Users,
    Coins,        \* stablecoins that are or may be listed
    NoCoin,       \* address zero
    FirstCoins,   \* the coins of the constructor
    NoHash,       \* addStableHash before any preparation
    Unit,         \* collateral units in one unit of each coin
    D,            \* ratioDecimals
    MinMovement,  \* minCollateralMovement, not zero
    Thresholds,   \* thresholds a coin may have
    Durations,    \* time locks a preparation may ask for
    Deposits,     \* coin amounts of a deposit
    Pnls,         \* profits and losses
    Proposals,    \* what the moderator prepares
    MaxClaim,     \* bound on the collateral of a user and on the total
    MaxHeld,      \* bound on what the vault holds of a coin
    Refusing,     \* coins that may refuse a transfer
    MaxLost       \* bound on what the lost-and-found holds of a coin

ASSUME CoinsListed == FirstCoins \subseteq Coins /\ NoCoin \notin Coins
ASSUME UnitsPositive == Unit \in [Coins -> Nat \ {0}] /\ D \in Nat \ {0}
ASSUME UsersAndCoinsFinite == IsFiniteSet(Users) /\ IsFiniteSet(Coins)
ASSUME AmountsAreNumbers ==
    /\ MinMovement \in Nat \ {0} /\ MaxClaim \in Nat
    /\ Thresholds \subseteq Nat /\ Durations \subseteq Nat /\ Deposits \subseteq Nat
    /\ Pnls \subseteq Int

VARIABLES
    listed,           \* the coins of stableCoins
    deposit,          \* depositRatioThreshold of each coin
    withdrawal,       \* withdrawalRatioThreshold of each coin
    userRatio,        \* userCollateralRatio
    userCollateral,
    totalRatio,       \* totalCollateralRatio
    totalCollateral,
    snapshot,         \* ratiosSnapshot
    prepared,         \* the proposal addStableHash stands for
    lock,             \* time until addStableTimeLock
    duration,         \* addStableTimeLockDuration
    held,             \* what the vault holds of each coin, in its own units
    lost,             \* userBalances of the lost-and-found
    lostHeld          \* what the lost-and-found holds of each coin

rules  == <<listed, deposit, withdrawal>>
ratios == <<userRatio, totalRatio>>
claims == <<userCollateral, totalCollateral>>
listing == <<prepared, lock, duration>>
boxes  == <<lost, lostHeld>>
vars == <<rules, ratios, claims, snapshot, listing, held, boxes>>

Proposal == [coin : Coins \cup {NoCoin}, deposit : Thresholds,
             withdrawal : Thresholds, duration : Durations]

ASSUME ProposalsTyped == Proposals \subseteq Proposal

Ratio == [Coins -> Nat]

TypeOK ==
    /\ listed \subseteq Coins
    /\ deposit \in Ratio /\ withdrawal \in Ratio
    /\ userRatio \in [Users -> Ratio] /\ userCollateral \in [Users -> Nat]
    /\ totalRatio \in Ratio /\ totalCollateral \in Nat
    /\ snapshot \in Ratio
    /\ prepared \in Proposal \cup {NoHash}
    /\ lock \in Nat /\ duration \in Nat
    /\ held \in Ratio /\ lost \in [Users -> Ratio] /\ lostHeld \in Ratio

Zero == [c \in Coins |-> 0]

Init ==
    /\ listed = FirstCoins
    /\ \E d, w \in Thresholds :
        /\ deposit = [c \in Coins |-> IF c \in FirstCoins THEN d ELSE 0]
        /\ withdrawal = [c \in Coins |-> IF c \in FirstCoins THEN w ELSE 0]
    /\ userRatio = [u \in Users |-> Zero] /\ totalRatio = Zero
    /\ userCollateral = [u \in Users |-> 0] /\ totalCollateral = 0
    /\ snapshot = [c \in Coins |->
                      IF c \in FirstCoins THEN D \div Cardinality(FirstCoins) ELSE 0]
    /\ prepared = NoHash /\ lock = 0 /\ duration \in Durations
    /\ held = Zero /\ lost = [u \in Users |-> Zero] /\ lostHeld = Zero

-----------------------------------------------------------------------------
(* Ratios.                                                                 *)

\* The part of an amount a ratio stands for.
Part(ratio, amount) == [c \in Coins |-> (ratio[c] * amount) \div D]

\* Amounts of the coins as ratios of their total.
RatioOf(parts, total) == [c \in Coins |-> (parts[c] * D) \div total]

Plus(f, g)  == [c \in Coins |-> f[c] + g[c]]
Minus(f, g) == [c \in Coins |-> f[c] - g[c]]
SumOver(f)  == SumFunction(f)

\* The decimals are not converted back.
FaultToCoins(f) == f

\* convertStablecollateralDecimals, both directions.
ToCollateral(f) == [c \in Coins |-> f[c] * Unit[c]]
ToCoins(f)      == [c \in Coins |-> f[c] \div Unit[c]]

\* updateSnapshot: the snapshot follows at a moment nobody can predict, some
\* time after the last one; any time may have passed between two calls.
Snapshots == {snapshot, totalRatio}

\* The new ratios are compared with the last ones.
FaultRatiosAllowed(new, snap, threshold) ==
    \A c \in listed :
        (IF totalRatio[c] >= new[c] THEN totalRatio[c] - new[c]
                                    ELSE new[c] - totalRatio[c]) <= threshold[c]

\* newRatiosAllowed against one of the thresholds.
NewRatiosAllowed(new, snap, threshold) ==
    \A c \in listed :
        (IF snap[c] >= new[c] THEN snap[c] - new[c] ELSE new[c] - snap[c]) <= threshold[c]

\* Nobody looks whether the vault has the coins.
FaultEnough(removed) == TRUE

\* enoughCollat: the vault has what the user's ratios ask for.
EnoughCollateral(removed) ==
    \A c \in listed : removed[c] <= Part(totalRatio, totalCollateral)[c]

\* Ratios scaled so that they add up to one.
Scaled(ratio) ==
    LET sum == SumOver(ratio)
    IN  IF sum = D \/ sum = 0 THEN ratio ELSE RatioOf(ratio, sum)

\* _updateUserRatios: what a payout in other coins leaves of the user's.
RatiosLeft(ratio, u, amount, removed) ==
    LET old == Part(ratio, userCollateral[u])
    IN  Scaled([c \in Coins |->
            IF old[c] > removed[c] /\ userCollateral[u] > amount
            THEN ((old[c] - removed[c]) * D) \div (userCollateral[u] - amount)
            ELSE 0])

\* A user without ratios, who never deposited, has those of the vault.
OwnRatio(u) == IF userRatio[u] = Zero THEN totalRatio ELSE userRatio[u]

\* The ratios of the vault follow whatever coins it pays in.
FaultRemoval(u, amount, snap) ==
    LET own    == OwnRatio(u)
        mine   == Part(own, amount)
        theirs == Part(totalRatio, amount)
        left   == RatioOf(Minus(Part(totalRatio, totalCollateral), mine),
                          totalCollateral - amount)
    IN  IF amount = totalCollateral
        THEN [removed |-> theirs, userRatio |-> Zero, totalRatio |-> Zero, claim |-> 0]
        ELSE [removed |-> IF EnoughCollateral(mine) /\ NewRatiosAllowed(left, snap, withdrawal)
                          THEN mine ELSE theirs,
              userRatio |-> own, totalRatio |-> left,
              claim |-> userCollateral[u] - amount]

\* _removeCollateral, with amount <= totalCollateral.  Taking out the whole
\* total leaves the user nothing, even if the user had a claim to more.
Removal(u, amount, snap) ==
    LET own    == OwnRatio(u)
        mine   == Part(own, amount)
        theirs == Part(totalRatio, amount)
        left   == RatioOf(Minus(Part(totalRatio, totalCollateral), mine),
                          totalCollateral - amount)
    IN  IF amount = totalCollateral
        THEN [removed |-> theirs, userRatio |-> Zero, totalRatio |-> Zero, claim |-> 0]
        ELSE IF EnoughCollateral(mine) /\ NewRatiosAllowed(left, snap, withdrawal)
        THEN [removed |-> mine, userRatio |-> own, totalRatio |-> left,
              claim |-> userCollateral[u] - amount]
        ELSE [removed |-> theirs, userRatio |-> RatiosLeft(own, u, amount, theirs),
              totalRatio |-> totalRatio, claim |-> userCollateral[u] - amount]

-----------------------------------------------------------------------------
(* The vault's calls.                                                      *)

\* addCollateral.
AddCollateral(u) ==
    \E coins \in [Coins -> Deposits], snap \in Snapshots :
        LET added == ToCollateral(coins)
            sum   == SumOver(added)
            total == totalCollateral + sum
            claim == userCollateral[u] + sum
            new   == RatioOf(Plus(added, Part(totalRatio, totalCollateral)), total)
        IN  /\ \A c \in Coins \ listed : coins[c] = 0
            /\ sum >= MinMovement
            /\ total <= MaxClaim /\ claim <= MaxClaim
            /\ totalCollateral # 0 => NewRatiosAllowed(new, snap, deposit)
            /\ userRatio' = [userRatio EXCEPT ![u] =
                   RatioOf(Plus(added, Part(userRatio[u], userCollateral[u])), claim)]
            /\ totalRatio' = new
            /\ userCollateral' = [userCollateral EXCEPT ![u] = claim]
            /\ totalCollateral' = total
            /\ held' = Plus(held, coins)
            /\ \A c \in Coins : held'[c] <= MaxHeld
            /\ snapshot' = snap
            /\ UNCHANGED <<rules, listing, boxes>>

\* The payouts of a removal: whatever coin refuses the transfer is handed to
\* the lost-and-found, which books it for the user (depositLostFunds).
PayOut(u, coins) ==
    /\ \A c \in Coins : coins[c] <= held[c]
    /\ held' = Minus(held, coins)
    /\ \E refused \in SUBSET {c \in Refusing : coins[c] > 0} :
        LET blocked == [c \in Coins |-> IF c \in refused THEN coins[c] ELSE 0]
        IN  /\ lost' = [lost EXCEPT ![u] = Plus(lost[u], blocked)]
            /\ lostHeld' = Plus(lostHeld, blocked)
            /\ \A c \in Coins : lostHeld'[c] <= MaxLost

Remove(u, amount) ==
    \E snap \in Snapshots :
        LET r == Removal(u, amount, snap)
        IN  /\ amount <= totalCollateral
            /\ userRatio' = [userRatio EXCEPT ![u] = r.userRatio]
            /\ totalRatio' = r.totalRatio
            /\ userCollateral' = [userCollateral EXCEPT ![u] = r.claim]
            /\ totalCollateral' = totalCollateral - amount
            /\ snapshot' = snap
            /\ PayOut(u, ToCoins(r.removed))
            /\ UNCHANGED <<rules, listing>>

\* removeCollateral and removeAllCollateral.
RemoveCollateral(u, amount) ==
    /\ amount <= userCollateral[u]
    /\ amount # userCollateral[u] => amount >= MinMovement
    /\ Remove(u, amount)

\* removeAllCollateralForUser: the engine closes a liquidated account.
RemoveAllCollateralForUser(u) == Remove(u, userCollateral[u])

\* addPnlToCollateral: the total stays as it is.
AddPnlToCollateral(u, pnl) ==
    /\ userCollateral' = [userCollateral EXCEPT ![u] =
           IF userCollateral[u] + pnl >= 0 THEN userCollateral[u] + pnl ELSE 0]
    /\ userCollateral'[u] <= MaxClaim
    /\ UNCHANGED <<rules, ratios, totalCollateral, snapshot, listing, held, boxes>>

\* What is paid out stays booked.
FaultRetrieve(u, c, amount) ==
    /\ 0 < amount /\ amount <= lost[u][c] /\ amount <= lostHeld[c]
    /\ lostHeld' = [lostHeld EXCEPT ![c] = @ - amount]
    /\ UNCHANGED <<rules, ratios, claims, snapshot, listing, held, lost>>

\* retrieveLostFunds, of an amount or of all there is.
RetrieveLostFunds(u, c, amount) ==
    /\ 0 < amount /\ amount <= lost[u][c]
    /\ lost' = [lost EXCEPT ![u][c] = @ - amount]
    /\ lostHeld' = [lostHeld EXCEPT ![c] = @ - amount]
    /\ UNCHANGED <<rules, ratios, claims, snapshot, listing, held>>

-----------------------------------------------------------------------------
(* The moderator's calls, and time.                                        *)

\* prepareAddStableCoin.
PrepareAddStableCoin(p) ==
    /\ p.coin \notin listed
    /\ prepared' = p /\ lock' = duration
    /\ UNCHANGED <<rules, ratios, claims, snapshot, duration, held, boxes>>

\* addStableCoin.  Assumed of the moderator, here and in the preparation: no
\* coin is listed twice, which the code, whose preparation stays, would do.
AddStableCoin(p) ==
    /\ lock = 0 /\ prepared = p
    /\ p.coin \notin listed
    /\ IF p.coin = NoCoin
       THEN UNCHANGED <<rules, snapshot>>
       ELSE /\ listed' = listed \cup {p.coin}
            /\ deposit' = [deposit EXCEPT ![p.coin] = p.deposit]
            /\ withdrawal' = [withdrawal EXCEPT ![p.coin] = p.withdrawal]
            /\ snapshot' = [snapshot EXCEPT ![p.coin] = 0]
    /\ duration' = p.duration
    /\ UNCHANGED <<ratios, claims, prepared, lock, held, boxes>>

\* modifyDepositRatioThresholds and modifyWithdrawalRatioThreshold.
ModifyThreshold(c, t) ==
    /\ c \in listed
    /\ \/ deposit' = [deposit EXCEPT ![c] = t] /\ UNCHANGED withdrawal
       \/ withdrawal' = [withdrawal EXCEPT ![c] = t] /\ UNCHANGED deposit
    /\ UNCHANGED <<listed, ratios, claims, snapshot, listing, held, boxes>>

Tick ==
    /\ lock' = IF lock = 0 THEN 0 ELSE lock - 1
    /\ UNCHANGED <<rules, ratios, claims, snapshot, prepared, duration, held, boxes>>

Next ==
    \/ \E u \in Users :
        \/ AddCollateral(u)
        \/ \E amount \in 0..MaxClaim : RemoveCollateral(u, amount)
        \/ RemoveAllCollateralForUser(u)
        \/ \E pnl \in Pnls : AddPnlToCollateral(u, pnl)
        \/ \E c \in Coins : \E amount \in 1..lost[u][c] : RetrieveLostFunds(u, c, amount)
    \/ \E p \in Proposals : PrepareAddStableCoin(p) \/ AddStableCoin(p)
    \/ \E c \in Coins, t \in Thresholds : ModifyThreshold(c, t)
    \/ Tick

Spec == Init /\ [][Next]_vars

-----------------------------------------------------------------------------
(* Properties.                                                             *)

\* Whatever was rounded on the way, the vault holds of every coin at least
\* what its ratios say it holds, so that the ratios never promise a coin that
\* is not there (Vault.sol:154-184 against 310-330 and 340-365).
Backed ==
    \A c \in Coins :
        held[c] * Unit[c] >= Part(totalRatio, totalCollateral)[c]

\* No withdrawal, of a user or of the engine, fails for want of a coin: any
\* amount up to the total is paid in coins the vault has, in whichever way it
\* is paid (Vault.sol:236-282).
PayoutsCovered ==
    \A u \in Users, snap \in Snapshots :
        \A amount \in 0..totalCollateral :
            amount <= userCollateral[u] =>
                LET coins == ToCoins(Removal(u, amount, snap).removed)
                IN  \A c \in Coins : coins[c] <= held[c]

\* What the vault holds is worth its total.
Covered == SumOver(ToCollateral(held)) >= totalCollateral

RatioFits(u) == SumOver(userRatio[u]) <= D

\* Rounding does not eat the vault: a call can leave it with coins worth less
\* than its total only if some user's ratios added up to more than one before,
\* which a user without a deposit gets from a vault emptied down to its dust
\* (Vault.sol:249-253 against 310-330).
ShortOnlyByExcess ==
    [][Covered /\ (\A u \in Users : RatioFits(u)) => Covered']_vars

InBand ==
    \A c \in listed :
        LET wider == IF deposit[c] >= withdrawal[c] THEN deposit[c] ELSE withdrawal[c]
        IN  totalRatio[c] \in (snapshot[c] - wider)..(snapshot[c] + wider)

\* Between two snapshots the vault's ratios stay within the wider of the two
\* thresholds, whichever way withdrawals are paid; only the deposit into an
\* empty vault and the withdrawal that empties it are free (Vault.sol:179-184,
\* 256-278).
StaysInBand ==
    [][InBand /\ totalCollateral # 0 /\ totalCollateral' # 0
        /\ UNCHANGED <<deposit, withdrawal>> => InBand']_vars

\* Every coin that was refused can be fetched by the user it was due to, and
\* the lost-and-found holds nothing else (Vault.sol:288-301 with
\* LostAndFound.sol:25-47).
LostCredits ==
    \A c \in Coins : lostHeld[c] = SumFunction([u \in Users |-> lost[u][c]])

=============================================================================
