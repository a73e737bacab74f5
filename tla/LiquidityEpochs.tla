-------------------------- MODULE LiquidityEpochs --------------------------
(***************************************************************************)
(* The LP accounting epochs of the perp engine (perp-engine/src/funding.rs *)
(* and liquidity.rs).                                                      *)
(*                                                                         *)
(* An LP's balance is not stored: it is recovered as M(t) * M(t0)^-1 * v,  *)
(* where M is the matrix of the epoch its snapshot belongs to and every    *)
(* trade, liquidity fee and funding accrual is folded into the matrix row  *)
(* of each epoch some LP still depends on.  An epoch whose determinant has *)
(* decayed is rolled at the next snapshot; a reference count says when an  *)
(* old one may be deleted.                                                 *)
(*                                                                         *)
(* A matrix M is represented by m, the number of updates folded into it    *)
(* since it was the identity, and a funding row G by g, the number of      *)
(* accruals, both modulo Modulus: an LP's recovery is right exactly when   *)
(* its epoch received every update since its snapshot.  Whether the        *)
(* determinant of the current epoch is at or below the roll threshold, and *)
(* whether a recovery rounds down to nothing, is chosen anew by every      *)
(* update of the matrices.                                                 *)
(*                                                                         *)
(* One call is one transaction: the storage is one record, eng, a call     *)
(* maps it through the operators below in the order of the code (where the *)
(* curve or a fee decides, through the set of possible results), and a     *)
(* call that reverts is a step that is not taken.                          *)
(*                                                                         *)
(* An operator named Fault... is a seeded bug, the definition after it     *)
(* gone wrong in a plausible way; nothing uses it in the model.            *)
(***************************************************************************)
EXTENDS Integers, FiniteSets

CONSTANTS
    Users,        \* accounts that provide liquidity, trade or liquidate
    MaxEpochs,    \* MAX_ACTIVE_LIQUIDITY_EPOCHS
    LastEpoch,    \* bound: no roll beyond this epoch id
    MaxCount,     \* bound: no deposit makes its epoch count more than this
    Modulus       \* bound: updates and accruals are counted modulo this

ASSUME UsersFinite == IsFiniteSet(Users)
ASSUME BoundsAreNat ==
    /\ MaxEpochs \in Nat \ {0}
    /\ LastEpoch \in Nat
    /\ MaxCount \in Nat
    /\ Modulus \in Nat \ {0}

VARIABLE eng

EpochIds == 0..LastEpoch
Counter  == 0..Modulus - 1

Plus1(n) == IF n + 1 = Modulus THEN 0 ELSE n + 1

\* `live' is m00 # 0; `count' is active_lp_count.
Epoch == [live : BOOLEAN, m : Counter, g : Counter, count : Nat]

\* `active' is has_active_liquidity_snapshot; `m', `g' the snapshot of M and
\* G; `healthy' whether M(t0) was above the roll threshold; `worth' whether
\* the recovered balance is non-zero; `debt' whether an LP debt is non-zero.
Lp == [active : BOOLEAN, epoch : EpochIds, m : Counter, g : Counter,
       healthy : BOOLEAN, worth : BOOLEAN, debt : BOOLEAN]

\* `due' is last_operation_timestamp # block timestamp.
Storage == [epochs : [EpochIds -> Epoch], current : EpochIds,
            oldest : EpochIds, decayed : BOOLEAN, due : BOOLEAN,
            lp : [Users -> Lp]]

NoEpoch == [live |-> FALSE, m |-> 0, g |-> 0, count |-> 0]

NoPosition == [active |-> FALSE, epoch |-> 0, m |-> 0, g |-> 0,
               healthy |-> FALSE, worth |-> FALSE, debt |-> FALSE]

\* Reset to the identity and a zero funding row, the count left untouched.
InitializeEpoch(e) == [e EXCEPT !.live = TRUE, !.m = 0, !.g = 0]

Init ==
    eng = [epochs  |-> [id \in EpochIds |-> IF id = 0 THEN InitializeEpoch(NoEpoch)
                                                      ELSE NoEpoch],
           current |-> 0,
           oldest  |-> 0,
           decayed |-> FALSE,
           due     |-> TRUE,
           lp      |-> [u \in Users |-> NoPosition]]

-----------------------------------------------------------------------------
(* Operators on the storage, in the order the code calls them.             *)

\* Only the current epoch is updated: the older LPs miss the trade.
FaultCurrentOnly(s, id) == id = s.current /\ s.epochs[id].live

\* Epochs the update loops visit and do not skip.
Receives(s, id) ==
    /\ s.oldest <= id /\ id <= s.current
    /\ s.epochs[id].live
    /\ id = s.current \/ s.epochs[id].count # 0

\* The recoveries after the pool or the matrices changed.
Revalued(s) ==
    {[s EXCEPT !.lp = [u \in Users |-> [s.lp[u] EXCEPT !.worth = u \in W]]] :
        W \in SUBSET {u \in Users : s.lp[u].active}}

FoldUpdate(s) ==
    [s EXCEPT !.epochs =
        [id \in EpochIds |->
            IF Receives(s, id)
            THEN [s.epochs[id] EXCEPT !.m = Plus1(s.epochs[id].m)]
            ELSE s.epochs[id]]]

\* apply_liquidity_matrix_update: a trade or a liquidity fee.
ApplyMatrixUpdate(s) ==
    UNION {Revalued([FoldUpdate(s) EXCEPT !.decayed = d]) : d \in BOOLEAN}

\* Accrue funding at most once per block.
UpdateFG(s) ==
    IF s.due
    THEN [s EXCEPT
            !.epochs = [id \in EpochIds |->
                            IF Receives(s, id)
                            THEN [s.epochs[id] EXCEPT !.g = Plus1(s.epochs[id].g)]
                            ELSE s.epochs[id]],
            !.due = FALSE]
    ELSE s

\* Whether the LP balance recovered from the snapshot is non-zero.
Recovered(s, u) ==
    /\ s.lp[u].active
    /\ s.epochs[s.lp[u].epoch].live
    /\ s.lp[u].worth

\* A trade re-baselines the trader's own funding snapshot, not its matrix.
RefreshFundingSnapshot(s, u) ==
    IF s.lp[u].active
    THEN [s EXCEPT !.lp[u].g = s.epochs[s.lp[u].epoch].g]
    ELSE s

\* Where the retiring loop stops: the first epoch that is still referenced,
\* or else the current one.
Keeps(s, id) == s.epochs[id].live /\ s.epochs[id].count # 0

\* `>' for `>=' in the loop: the current epoch is retired as well.
FaultFirstKept(s) ==
    CHOOSE id \in EpochIds :
        /\ s.oldest <= id
        /\ Keeps(s, id) \/ id = IF s.current < LastEpoch THEN s.current + 1 ELSE s.current
        /\ \A j \in EpochIds : s.oldest <= j /\ j < id => ~Keeps(s, j)

FirstKept(s) ==
    CHOOSE id \in EpochIds :
        /\ s.oldest <= id /\ id <= s.current
        /\ id = s.current \/ Keeps(s, id)
        /\ \A j \in EpochIds : s.oldest <= j /\ j < id => ~Keeps(s, j)

\* oldest advances but the drained storage is kept.
FaultNoDelete(s) == [s EXCEPT !.oldest = FirstKept(s)]

Retire(s) ==
    LET stop == FirstKept(s)
    IN  [s EXCEPT
            !.oldest = stop,
            !.epochs = [id \in EpochIds |->
                            IF s.oldest <= id /\ id < stop /\ s.epochs[id].live
                            THEN NoEpoch
                            ELSE s.epochs[id]]]

ActiveWindow(s) ==
    s.current + 1 - s.oldest - (IF s.epochs[s.current].count = 0 THEN 1 ELSE 0)

\* LECAP; the last conjunct is the bound on epoch ids.
CanRoll(s) == ActiveWindow(s) < MaxEpochs /\ s.current < LastEpoch

Roll(s) ==
    Retire([s EXCEPT
        !.current = s.current + 1,
        !.epochs[s.current + 1] = InitializeEpoch(s.epochs[s.current + 1]),
        !.decayed = FALSE])

\* The snapshot is written without rolling.
FaultNoRoll(s) == s

RollIfNeeded(s) == IF s.decayed THEN Roll(s) ELSE s

\* The reference is released whether or not the snapshot was active.
FaultReleaseAlways(s, u) ==
    Retire([s EXCEPT
        !.epochs[s.lp[u].epoch].count = @ - 1,
        !.lp[u] = [NoPosition EXCEPT !.debt = s.lp[u].debt]])

\* The reference is released on the current epoch, not on the LP's own.
FaultReleaseCurrent(s, u) ==
    Retire([s EXCEPT
        !.epochs[s.current].count = IF s.lp[u].active THEN @ - 1 ELSE @,
        !.lp[u] = [NoPosition EXCEPT !.debt = s.lp[u].debt]])

\* The ids start over when the last LP leaves.
FaultStartOver(s, u) ==
    LET r == Retire([s EXCEPT
                !.epochs[s.lp[u].epoch].count = IF s.lp[u].active THEN @ - 1 ELSE @,
                !.lp[u] = [NoPosition EXCEPT !.debt = s.lp[u].debt]])
    IN  IF \E v \in Users : r.lp[v].active THEN r
        ELSE [r EXCEPT !.current = 0, !.oldest = 0, !.decayed = FALSE,
                       !.epochs = [id \in EpochIds |->
                           IF id = 0 THEN InitializeEpoch(NoEpoch) ELSE NoEpoch]]

\* A full exit releases the epoch without rolling.
Exit(s, u) ==
    LET old == s.lp[u].epoch
    IN  Retire([s EXCEPT
            !.epochs[old].count = IF s.lp[u].active THEN @ - 1 ELSE @,
            !.lp[u] = [NoPosition EXCEPT !.debt = s.lp[u].debt]])

\* Move the reference from the old epoch, if any, to the current one.
MoveRef(s, u) ==
    LET old == s.lp[u].epoch
        new == s.current
    IN  [s EXCEPT !.epochs =
            [id \in EpochIds |->
                [s.epochs[id] EXCEPT !.count =
                    s.epochs[id].count
                    - (IF id = old /\ s.lp[u].active THEN 1 ELSE 0)
                    + (IF id = new THEN 1 ELSE 0)]]]

\* The snapshot attaches to the oldest epoch of the window.
FaultAttachOldest(s, u) ==
    LET r == RollIfNeeded(s)
        c == r.epochs[r.oldest]
    IN  Retire([MoveRef(r, u) EXCEPT
            !.lp[u] = [active |-> TRUE, epoch |-> r.oldest, m |-> c.m, g |-> c.g,
                       healthy |-> ~r.decayed, worth |-> TRUE,
                       debt |-> s.lp[u].debt]])

Attach(s, u) ==
    LET r == RollIfNeeded(s)
        c == r.epochs[r.current]
    IN  Retire([MoveRef(r, u) EXCEPT
            !.lp[u] = [active |-> TRUE, epoch |-> r.current, m |-> c.m, g |-> c.g,
                       healthy |-> ~r.decayed, worth |-> TRUE,
                       debt |-> s.lp[u].debt]])

\* update_snapshots with new initials that are zero (keep = FALSE) or not.
CanSnapshot(s, keep) == keep /\ s.decayed => CanRoll(s)

UpdateSnapshots(s, u, keep) == IF keep THEN Attach(s, u) ELSE Exit(s, u)

\* settle_funding_and_update_snapshots.
CanSettle(s, u) == CanSnapshot(s, Recovered(s, u))
Settle(s, u) == UpdateSnapshots(s, u, Recovered(s, u))

\* distribute_liquidity_fee: no update when the fee, or a leg of the pool, is
\* zero; the pool has changed even then.
DistributeFee(s) == ApplyMatrixUpdate(s) \cup Revalued(s)

\* remove_liquidity: settle on the pool as it was, snapshot what is left,
\* distribute the fee, and repay some or all of the LP debt.
Remove(s, u, keep) ==
    {[r EXCEPT !.lp[u].debt = s.lp[u].debt /\ owes] :
        r \in DistributeFee(UpdateSnapshots(UpdateFG(s), u, keep)), owes \in BOOLEAN}

\* execute_trade.
Trade(s, u) == ApplyMatrixUpdate(RefreshFundingSnapshot(UpdateFG(s), u))

\* clear_liquidity_position: the position's epoch id is not part of the struct.
ClearPosition(s, u) ==
    [s EXCEPT !.lp[u] = [NoPosition EXCEPT !.epoch = s.lp[u].epoch]]

\* close_and_withdraw_inner: pull all liquidity if there is a balance or a
\* debt, clear the position, and trade away the net asset if there is any.
Withdrawn(s, u) == IF Recovered(s, u) \/ s.lp[u].debt THEN Remove(s, u, FALSE) ELSE {s}

Close(s, u) ==
    UNION {{ClearPosition(r, u)} \cup Trade(ClearPosition(r, u), u) : r \in Withdrawn(s, u)}

-----------------------------------------------------------------------------
(* The calls.                                                              *)

NewBlock == ~eng.due /\ eng' = [eng EXCEPT !.due = TRUE]

UpdateFGKeeper == eng.due /\ eng' = UpdateFG(eng)

ExecuteTrade(u) == eng' \in Trade(eng, u)

\* The deposit is re-added together with the old balance; a deposit whose fee
\* takes all of it leaves nothing to snapshot.
AddLiquidity(u) ==
    \E s \in DistributeFee(UpdateFG(eng)), keep \in BOOLEAN :
        /\ Recovered(s, u) => keep
        /\ CanSnapshot(s, keep)
        /\ eng' = [UpdateSnapshots(s, u, keep) EXCEPT !.lp[u].debt = TRUE]
        /\ eng'.epochs[eng'.current].count <= MaxCount

\* L5 with the minimum movement L4: something must be there to remove.
RemoveLiquidity(u) ==
    \E keep \in BOOLEAN :
        /\ Recovered(eng, u)
        /\ CanSnapshot(eng, keep)
        /\ eng' \in Remove(eng, u, keep)

RealizePnL(u) == CanSettle(eng, u) /\ eng' = Settle(UpdateFG(eng), u)

\* LS0: anyone may refresh the snapshot of an active LP.
UpdateLpSnapshot(u) ==
    /\ eng.lp[u].active
    /\ CanSettle(eng, u)
    /\ eng' = Settle(UpdateFG(eng), u)

CloseAndWithdraw(u) == eng' \in Close(eng, u)

\* The victim's liquidity is pulled in proportion to the liquidated fraction:
\* all of it, or a part of it that may round down to nothing.
Pulled(s, u, full) ==
    IF ~Recovered(s, u) THEN {s}
    ELSE IF full THEN Remove(s, u, FALSE)
    ELSE {s} \cup UNION {Remove(s, u, keep) : keep \in {k \in BOOLEAN : CanSnapshot(s, k)}}

\* Both parties are settled first; a full liquidation closes the victim.
Liquidate(liquidator, user) ==
    LET s1 == UpdateFG(eng)
        s2 == Settle(s1, liquidator)
        s3 == Settle(s2, user)
    IN  /\ liquidator # user
        /\ CanSettle(s1, liquidator)
        /\ CanSettle(s2, user)
        /\ \/ eng' \in Pulled(s3, user, FALSE)
           \/ \E s4 \in Pulled(s3, user, TRUE) : eng' \in Close(s4, user)

Next ==
    \/ NewBlock
    \/ UpdateFGKeeper
    \/ \E u \in Users :
        \/ ExecuteTrade(u)
        \/ AddLiquidity(u)
        \/ RemoveLiquidity(u)
        \/ RealizePnL(u)
        \/ UpdateLpSnapshot(u)
        \/ CloseAndWithdraw(u)
    \/ \E l, u \in Users : Liquidate(l, u)

Spec == Init /\ [][Next]_eng

-----------------------------------------------------------------------------
(* Properties.                                                             *)

AttachedTo(s, id) == {u \in Users : s.lp[u].active /\ s.lp[u].epoch = id}

TypeOK == eng \in Storage

\* No LP is stranded: the epoch an active snapshot refers to is initialised
\* and inside the window the update loops walk, so its balance never silently
\* recovers to zero and no trade or accrual passes it by (funding.rs retiring
\* loop against liquidity.rs update_snapshots).
SnapshotsReachable ==
    \A u \in Users : eng.lp[u].active => Receives(eng, eng.lp[u].epoch)

\* An epoch counts at least the LPs whose snapshot it holds: whatever calls
\* come in between, a reference is never released twice nor taken on the
\* wrong epoch.
RefcountCovers ==
    \A id \in EpochIds :
        eng.epochs[id].count >= Cardinality(AttachedTo(eng, id))

\* Every snapshot was taken from a matrix above the roll threshold, so the
\* recovery through its adjugate never meets a determinant <= 0 (MDET).
SnapshotsWellConditioned ==
    \A u \in Users : eng.lp[u].active => eng.lp[u].healthy

\* The loops over the window are bounded: the pointers are ordered, at most
\* one epoch more than the cap lies between them, and no more epochs than the
\* cap receive updates.
WindowBounded ==
    /\ eng.oldest <= eng.current
    /\ eng.current - eng.oldest <= MaxEpochs
    /\ Cardinality({id \in EpochIds : Receives(eng, id)}) <= MaxEpochs

\* Storage outside the window is free: nothing below oldest or above current
\* holds a matrix or a reference, so a roll always starts from a clean epoch.
OutsideWindowFree ==
    \A id \in EpochIds :
        id < eng.oldest \/ id > eng.current => eng.epochs[id] = NoEpoch

\* An LP only ever moves to a newer epoch, and the window only moves forward:
\* an epoch that was retired is never referred to again.
EpochsOnlyAdvance ==
    [][/\ eng.oldest <= eng'.oldest /\ eng.current <= eng'.current
       /\ \A u \in Users : eng.lp[u].active /\ eng'.lp[u].active
                            => eng.lp[u].epoch <= eng'.lp[u].epoch]_eng

\* The epochs implement the books of LpTracking: what separates an LP's
\* epoch from its snapshot is every update and accrual since, once each.
Since(now, then) == IF then <= now THEN now - then ELSE now - then + Modulus

SnapshotOf(u) ==
    IF eng.lp[u].active THEN <<eng.lp[u].epoch, eng.lp[u].m, eng.lp[u].g>> ELSE <<>>

BookOf(u) ==
    LET e == eng.epochs[eng.lp[u].epoch]
    IN  IF eng.lp[u].active
        THEN [updates |-> Since(e.m, eng.lp[u].m), accruals |-> Since(e.g, eng.lp[u].g)]
        ELSE [updates |-> 0, accruals |-> 0]

Tracking == INSTANCE LpTracking WITH
    Snapshots <- EpochIds \X Counter \X Counter,
    None      <- <<>>,
    snapshot  <- [u \in Users |-> SnapshotOf(u)],
    book      <- [u \in Users |-> BookOf(u)]

TracksEveryUpdate == Tracking!Spec

\* funding.rs:38 and 45 call the count "an epoch's active-LP refcount".
RefcountExact ==
    \A id \in EpochIds :
        eng.epochs[id].count = Cardinality(AttachedTo(eng, id))

\* funding.rs:7 calls the cap one "on the number of simultaneously-active LP
\* accounting epochs": a roll it refuses finds that many of them.
CapCountsActiveEpochs ==
    ActiveWindow(eng) >= MaxEpochs
        => Cardinality({id \in EpochIds : Keeps(eng, id)}) >= MaxEpochs
=============================================================================
