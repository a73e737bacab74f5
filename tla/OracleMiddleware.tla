-------------------------- MODULE OracleMiddleware --------------------------
(***************************************************************************)
(* The price source of the protocol                                        *)
(* (CL_oracle_middleware/TWAPOracleMiddleware.sol): signed price reports   *)
(* are handed in by whoever calls, in any order, late, twice or never.  A  *)
(* report that is recent and newer than all before it enters the history;  *)
(* it becomes the price that is served only if it agrees with the average  *)
(* of the prices before it.                                                *)
(*                                                                         *)
(* A timestamp is kept as its age, the clock minus the timestamp, which is *)
(* negative for a report stamped ahead of the block.  A tick of the clock  *)
(* ages everything by one and forgets what no window can reach, so that    *)
(* the model never runs out of time.  The feed says which price the        *)
(* network signed for each stamp that could still be accepted.             *)
(*                                                                         *)
(* An operator named Fault... is a seeded bug, the definition after it     *)
(* gone wrong in a plausible way; nothing uses it in the model.            *)
(***************************************************************************)
EXTENDS Integers, Sequences, FiniteSets

CONSTANTS
    Prices,      \* prices the network signs
    Step,        \* oracleDecimalsStepdownFactor
    Life,        \* how long after its stamp a report expires
    Ahead,       \* how far ahead of the clock reports are stamped
    Late,        \* how late a report may be handed in
    Settings,    \* what the owner may set; see Setting
    Horizon,     \* no window of any setting reaches this age
    MaxChanges   \* bound: how often the owner changes the parameters

Setting == [maxTimeDelta : Nat, lookback : Nat, tolerance : Nat \ {0}]

ASSUME PricesAreNat == Prices \subseteq Nat /\ Prices # {} /\ Step \in Nat \ {0}
ASSUME TimesAreNat ==
    Life \in Nat /\ Ahead \in Nat /\ Late \in Nat /\ Horizon \in Nat /\ MaxChanges \in Nat

\* A tolerance of zero makes the division revert: nothing is accepted or
\* served until it is replaced.
ASSUME SettingsFit ==
    /\ Settings \subseteq Setting /\ Settings # {}
    /\ \A s \in Settings : /\ Late + s.lookback < Horizon
                           /\ s.maxTimeDelta + s.lookback < Horizon

VARIABLES
    feed,       \* the price signed for each stamp that is not too old
    history,    \* lastPrices, lastTimestamps below updateIndex, oldest first
    last,       \* lastDecodedPrice with its validFrom
    settings,   \* maxTimeDelta, lookbackPeriod, TWAPTolerance
    changes     \* parameter changes so far

vars == <<feed, history, last, settings, changes>>

Stamps == -Ahead..Late
Ages   == -Ahead..Horizon
Entry  == [price : Prices, age : Ages]
NoPrice == [price |-> 0, age |-> Horizon]

TypeOK ==
    /\ feed \in [Stamps -> Prices]
    /\ history \in Seq(Entry)
    /\ last \in Entry \cup {NoPrice}
    /\ settings \in Settings
    /\ changes \in 0..MaxChanges

Init ==
    /\ feed \in [Stamps -> Prices]
    /\ history = <<>>
    /\ last = NoPrice
    /\ settings \in Settings
    /\ changes = 0

-----------------------------------------------------------------------------
(* The weighted average.                                                   *)

\* The loop takes the weight of an entry up to the reference, not to the next.
FaultWeighFromReference(h, i, age) == h[i].age - age

\* An entry of the window counts from its stamp to the next entry's, the
\* last one before the reference up to the reference.
Weight(h, i, age) ==
    h[i].age - (IF i < Len(h) /\ h[i + 1].age > age THEN h[i + 1].age ELSE age)

\* The sums of the loop from entry i down, over the entries older than the
\* reference; the first one older than the window counts from its start.
Sums(h, age, lookback) ==
    LET start == age + lookback
        sums[i \in 0..Len(h)] ==
            IF i = 0 THEN [weighted |-> 0, time |-> 0]
            ELSE IF h[i].age <= age THEN sums[i - 1]
            ELSE IF h[i].age > start
                 THEN LET overlap == Weight(h, i, age) - (h[i].age - start)
                      IN  [weighted |-> h[i].price * overlap, time |-> overlap]
            ELSE [weighted |-> sums[i - 1].weighted + h[i].price * Weight(h, i, age),
                  time     |-> sums[i - 1].time + Weight(h, i, age)]
    IN  sums[Len(h)]

\* _computeTWAP; zero is "no usable window".
TWAP(h, age, lookback) ==
    LET s == Sums(h, age, lookback)
    IN  IF s.time = 0 THEN 0 ELSE s.weighted \div s.time

Distance(x, y) == IF x >= y THEN x - y ELSE y - x

\* checkLastPriceVolatility: an average of zero accepts any price.
CheckLastPriceVolatility(h, price, age, set) ==
    LET twap == TWAP(h, age, set.lookback)
    IN  twap = 0 \/ Distance(price, twap) <= twap \div set.tolerance

-----------------------------------------------------------------------------
(* The calls.                                                              *)

\* _lastStoredTimestamp: the beginning of time when nothing is stored.
LastStoredAge == IF history = <<>> THEN Horizon + 1 ELSE history[Len(history)].age

\* A report as old as the last stored one is taken again.
FaultNewerOrSame(age) == age <= LastStoredAge

\* Any recent report is taken, whatever was stored before.
FaultAnyOrder(age) == TRUE

\* Newer than _lastStoredTimestamp: checked on the unverified report to skip
\* it, and on the verified one (OM6).
Newer(age) == age < LastStoredAge

Recent(age) == age <= settings.maxTimeDelta /\ -age <= settings.maxTimeDelta

\* Only an accepted report enters the history.
FaultRecordOnlyAccepted(age) ==
    LET price == feed[age]
    IN  /\ Newer(age)
        /\ Recent(age) /\ price >= Step
        /\ CheckLastPriceVolatility(history, price, age, settings)
        /\ history' = Append(history, [price |-> price, age |-> age])
        /\ last' = [price |-> price, age |-> age]
        /\ UNCHANGED <<feed, settings, changes>>

\* verifyReportIfNecessary; an empty or older report changes nothing, and a
\* report of another feed (OM5), another schema (OM4) or a bad signature
\* reverts.
VerifyReport(age) ==
    LET price == feed[age]
    IN  /\ Newer(age)
        /\ Recent(age) /\ price >= Step
        /\ history' = Append(history, [price |-> price, age |-> age])
        /\ last' = IF CheckLastPriceVolatility(history, price, age, settings)
                   THEN [price |-> price, age |-> age]
                   ELSE last
        /\ UNCHANGED <<feed, settings, changes>>

\* The index ends up one too far and takes in a slot nothing was written to.
FaultSetParameters(set, index) ==
    /\ changes < MaxChanges
    /\ settings' = set
    /\ history' = Append(SubSeq(history, 1, index - 1), NoPrice)
    /\ changes' = changes + 1
    /\ UNCHANGED <<feed, last>>

\* setParameters, which also replaces updateIndex: the owner may leave it or
\* move it back over stored entries, to 1 to start afresh.
SetParameters(set, index) ==
    /\ changes < MaxChanges
    /\ settings' = set
    /\ history' = SubSeq(history, 1, index - 1)
    /\ changes' = changes + 1
    /\ UNCHANGED <<feed, last>>

Older(age) == IF age >= Horizon THEN Horizon ELSE age + 1

\* Of the entries at the horizon only the newest can end a loop.
Forget(h) ==
    LET old == {i \in DOMAIN h : h[i].age = Horizon}
    IN  IF old = {} THEN h
        ELSE SubSeq(h, CHOOSE i \in old : \A j \in old : j <= i, Len(h))

Tick ==
    /\ feed' = [age \in Stamps |-> feed[IF age = -Ahead THEN age ELSE age - 1]]
    /\ history' = Forget([i \in DOMAIN history |->
                             [history[i] EXCEPT !.age = Older(history[i].age)]])
    /\ last' = [last EXCEPT !.age = Older(last.age)]
    /\ UNCHANGED <<settings, changes>>

\* The price moves; the clock alone leaves it where it is.
Sign(price) ==
    /\ feed' = [feed EXCEPT ![-Ahead] = price]
    /\ UNCHANGED <<history, last, settings, changes>>

Deliver == \E age \in Stamps : VerifyReport(age)

Next ==
    \/ Tick
    \/ Deliver
    \/ \E price \in Prices : Sign(price)
    \/ \E set \in Settings, index \in 1..Len(history) + 1 : SetParameters(set, index)

\* Time passes whether or not the price moves, and some keeper keeps handing
\* in reports (every engine call and updateFG carries one).
Fairness == WF_vars(Tick) /\ WF_vars(Deliver)

Spec == Init /\ [][Next]_vars /\ Fairness

-----------------------------------------------------------------------------
(* What is served.                                                         *)

\* OM2 of getPrice.
Fresh ==
    /\ last.price # 0
    /\ Recent(last.age)
    /\ last.age < Life

Acceptable == CheckLastPriceVolatility(history, last.price, last.age, settings)

\* getPrice returns this price divided by the step-down factor.
Serves(price) == Fresh /\ Acceptable /\ last.price = price

-----------------------------------------------------------------------------
(* Properties.                                                             *)

\* The price in force when the clock stood at an age: that of the newest
\* entry stamped at or before it.
InForce(h, age) ==
    LET since == {i \in DOMAIN h : h[i].age >= age}
    IN  h[CHOOSE i \in since : \A j \in since : h[j].age >= h[i].age].price

\* Unit steps of the window that some entry covers; each goes from the age
\* to the next younger one.
Covered(h, age, lookback) ==
    {a \in age + 1..age + lookback : \E i \in DOMAIN h : h[i].age >= a}

PriceSum(h, ages) ==
    LET sum[a \in -Ahead..Horizon] ==
        IF a = -Ahead THEN 0
        ELSE sum[a - 1] + (IF a \in ages THEN InForce(h, a) ELSE 0)
    IN  sum[Horizon]

\* Whatever order the reports came in and however far the owner moved the
\* index back, the loop of _computeTWAP returns the time-weighted average: the
\* mean, over the steps of the window that some entry covers, of the price in
\* force (TWAPOracleMiddleware.sol:196-238).
TwapIsAverage ==
    \A age \in Stamps :
        LET covered == Covered(history, age, settings.lookback)
        IN  TWAP(history, age, settings.lookback) =
                IF covered = {} THEN 0
                ELSE PriceSum(history, covered) \div Cardinality(covered)

\* The accepted report is not newer than the last stored one; only an owner
\* that moved the index back can undo this.
InStep == last = NoPrice \/ LastStoredAge <= last.age

\* A price once accepted stays acceptable: getPrice tests it again (OM3) with
\* all the reports that came since, and unless the owner changed the parameters
\* none of them, accepted or not, may turn the price away
\* (TWAPOracleMiddleware.sol:164 against 316-330).
AcceptedStaysAcceptable ==
    [][InStep /\ Acceptable /\ Fresh' /\ UNCHANGED changes => Acceptable']_vars

\* Prices are accepted in the order of their stamps, and the history keeps in
\* step with them: an older report delivered late never replaces a newer price
\* (TWAPOracleMiddleware.sol:259 and 311).
AcceptedInOrder ==
    [][InStep /\ UNCHANGED changes =>
        /\ InStep'
        /\ last'.age <= last.age \/ last' = [last EXCEPT !.age = Older(last.age)]]_vars

Settles(price) == <>[](feed[-Ahead] = price)

\* A price that lasts is served in the end, however far it is from the prices
\* before: what is turned away still enters the history and moves the average
\* (TWAPOracleMiddleware.sol:321-330).
LastingPriceServed ==
    \A price \in Prices : price >= Step /\ Settles(price) => []<>Serves(price)

=============================================================================
