------------------------ MODULE EngineConfig_proofs ------------------------
(***************************************************************************)
(* Proofs about EngineConfig.  The inductive invariant ties the stored     *)
(* hash and deadline to the preparation that the history remembers, with   *)
(* the checks it passed, and the roles to whether the engine is            *)
(* initialised: what setTimeLockedParameters accepts is then what was      *)
(* prepared, although it looks at nothing but the hash and the clock.      *)
(***************************************************************************)
EXTENDS EngineConfig, TLAPS

\* A remainder of what is in range is the number itself.
LEMMA NoWrap ==
    ASSUME NEW n \in Int, NEW w \in Nat \ {0}, 0 <= n, n < w
    PROVE  n % w = n
  BY SMT

\* A sum of two u64 is a u64.
LEMMA Plus64Range ==
    ASSUME NEW x \in Nat, NEW y \in Nat
    PROVE  Plus64(x, y) \in 0..Word64 - 1
  BY ConstantsFit, SMT DEF Plus64

\* A share accepted next to a stored share that is at most the whole leaves
\* the two within the whole: the subtraction did not wrap.
LEMMA SharesFit ==
    ASSUME NEW share \in Nat, NEW stored \in Nat, stored <= Decimals,
           ShareFits(share, stored)
    PROVE  share + stored <= Decimals
  <1>1. Decimals - stored \in Int /\ 0 <= Decimals - stored /\ Decimals - stored < Word
    BY ConstantsFit
  <1>2. Minus(Decimals, stored) = Decimals - stored
    BY <1>1, NoWrap, ConstantsFit DEF Minus
  <1>. QED
    BY <1>2, ConstantsFit DEF ShareFits

\* What a trade of the least size pays is less than its size.
Covered(p) == p.flat_trading_fee * Wad
              < (FeeDecimals - p.trading_fee) * p.minimum_trade_size

\* A product of two numbers is a number.
LEMMA Products == \A x, y \in Nat : x * y \in Nat
  BY SMT

\* The checked bound on the flat fee is the bound on the numbers themselves.
LEMMA FlatFee ==
    ASSUME NEW p \in Parameters, NEW size \in Nat,
           p.trading_fee < FeeDecimals, FlatFeeBelow(p, size)
    PROVE  p.flat_trading_fee * Wad < (FeeDecimals - p.trading_fee) * size
  <1>. DEFINE left == FeeDecimals - p.trading_fee
              flat == p.flat_trading_fee * Wad
              room == left * size
  <1>1. p.trading_fee \in Nat /\ p.flat_trading_fee \in Nat
    BY DEF Parameters
  <1>2. left \in Nat /\ left < Word
    BY <1>1, ConstantsFit
  <1>3. Minus(FeeDecimals, p.trading_fee) = left
    BY <1>2, NoWrap, ConstantsFit DEF Minus
  <1>4. flat \in Nat /\ room \in Nat
    BY <1>1, <1>2, Products, ConstantsFit
  <1>5. flat < Word /\ room < Word
    BY <1>3 DEF FlatFeeBelow, Fits
  <1>6. (flat % Word) < (room % Word)
    BY <1>3 DEF FlatFeeBelow, Times
  <1>. HIDE DEF flat, room
  <1>7. flat < room
    BY <1>4, <1>5, <1>6, NoWrap, ConstantsFit
  <1>. QED
    BY <1>7 DEF flat, room
-----------------------------------------------------------------------------
\* Roles are given from the initialisation on; before it, the role that the
\* moderator's calls ask for is the zero role, which nobody holds.
Governed ==
    IF initialized THEN mod_role = MOD_ROLE
                   ELSE \A r \in Roles : roles[r] = {}

\* A stored hash is that of the last preparation, with its deadline, and what
\* was prepared passed the checks against the frontend's share of that time.
Pending ==
    param_hash # NoHash =>
        /\ param_hash = armed.what
        /\ param_locked_until = Plus64(armed.at, armed.lock)
        /\ armed.what.fee_lp + armed.frontend <= Decimals
        /\ Covered(armed.what)

IInv == TypeOK /\ Governed /\ Pending /\ EachShareBounded /\ FlatFeeCovered

\* Nothing is initialised and nothing prepared.
LEMMA InitIInv == Init => IInv
  <1>. SUFFICES ASSUME Init PROVE IInv
    OBVIOUS
  <1>1. TypeOK
    <2>1. roles \in [Roles -> SUBSET Accounts]
      BY DEF Init
    <2>2. armed \in Preparations
      BY ConstantsFit DEF Init, Nothing, Preparations
    <2>3. param_locked_until \in 0..Word64 - 1 /\ now \in 0..MaxNow
      BY ConstantsFit DEF Init
    <2>. QED
      BY <2>1, <2>2, <2>3, InputsFit DEF Init, TypeOK, Roles, Addresses
  <1>2. Governed
    BY DEF Init, Governed
  <1>3. Pending
    BY DEF Init, Pending
  <1>4. EachShareBounded
    BY InputsFit, ConstantsFit DEF Init, EachShareBounded
  <1>5. FlatFeeCovered
    BY DEF Init, FlatFeeCovered
  <1>. QED
    BY <1>1, <1>2, <1>3, <1>4, <1>5 DEF IInv

\* A call that leaves the parameters, the shares and the preparation alone.
LEMMA GovernanceStep ==
    ASSUME IInv, UNCHANGED <<now, initialized, mod_role, unguarded, params, timelock>>,
           roles' \in [Roles -> SUBSET Accounts],
           initialized \/ roles' = roles,
           trading_paused' \in BOOLEAN, trusted_forwarder' \in Addresses
    PROVE  IInv'
  BY DEF IInv, TypeOK, Governed, Pending, Covered, EachShareBounded,
         FlatFeeCovered, unguarded, timelock

\* Whoever calls as a moderator or an administrator, the engine is initialised.
LEMMA RolesAreGiven ==
    ASSUME Governed, NEW role \in Roles, NEW caller, only_role(role, caller)
    PROVE  initialized
  BY DEF Governed, only_role

\* The initialiser stores shares and a flat fee that it has checked.
LEMMA InitialiseStep ==
    ASSUME IInv, NEW caller \in Accounts, NEW p \in Proposals, NEW frontend \in Fractions,
           NEW addr \in Addresses, NEW forwarder \in Addresses,
           initialize_production(caller, p, frontend, addr, forwarder)
    PROVE  IInv'
  <1>. USE DEF initialize_production
  <1>1. p \in Parameters /\ frontend \in Nat
    BY InputsFit, ConstantsFit
  <1>2. /\ params' \in Parameters
        /\ params'.fee_lp = p.fee_lp /\ params'.trading_fee = p.trading_fee
        /\ params'.flat_trading_fee = p.flat_trading_fee
        /\ params'.minimum_trade_size = Defaults.minimum_trade_size
    BY <1>1, InputsFit DEF Parameters
  <1>3. TypeOK'
    <2>1. roles' \in [Roles -> SUBSET Accounts]
      BY DEF IInv, TypeOK
    <2>. QED
      BY <1>1, <1>2, <2>1 DEF IInv, TypeOK, timelock, Roles
  <1>4. Governed'
    BY DEF Governed
  <1>5. Pending'
    BY DEF IInv, Pending, Covered, timelock
  <1>6. EachShareBounded'
    BY <1>1, <1>2, ConstantsFit DEF EachShareBounded, Settable, Parameters
  <1>7. FlatFeeCovered'
    <2>1. Defaults.minimum_trade_size \in Nat
      BY InputsFit DEF Parameters
    <2>2. p.flat_trading_fee * Wad
          < (FeeDecimals - p.trading_fee) * Defaults.minimum_trade_size
      BY <1>1, <2>1, FlatFee DEF Settable
    <2>. QED
      BY <1>2, <2>2 DEF FlatFeeCovered
  <1>. QED
    BY <1>3, <1>4, <1>5, <1>6, <1>7 DEF IInv

\* The other share at hand is stored and bounded, so the sum is.
LEMMA UnguardedStep ==
    ASSUME IInv, NEW caller \in Accounts, NEW frontend \in Fractions,
           NEW addr \in Addresses, NEW discount,
           set_unguarded_parameters(caller, frontend, addr, discount)
    PROVE  IInv' /\ ~Overdrawn'
  <1>. USE DEF set_unguarded_parameters
  <1>1. frontend \in Nat /\ params.fee_lp \in Nat /\ params.fee_lp <= Decimals
    BY InputsFit, ConstantsFit DEF IInv, TypeOK, Parameters, EachShareBounded
  <1>2. frontend + params.fee_lp <= Decimals
    BY <1>1, SharesFit
  <1>3. fee_frontend' = frontend /\ params' = params
    OBVIOUS
  <1>4. EachShareBounded' /\ ~Overdrawn'
    BY <1>1, <1>2, <1>3, ConstantsFit DEF EachShareBounded, Overdrawn
  <1>5. TypeOK'
    BY <1>1 DEF IInv, TypeOK, governance, breaker, timelock
  <1>6. Governed' /\ Pending' /\ FlatFeeCovered'
    BY DEF IInv, Governed, Pending, Covered, FlatFeeCovered, governance, timelock
  <1>. QED
    BY <1>4, <1>5, <1>6 DEF IInv

\* The history is what the hash and the deadline are taken from.
LEMMA PrepareStep ==
    ASSUME IInv, NEW caller \in Accounts, NEW p \in Proposals,
           prepare_time_locked_parameters(caller, p)
    PROVE  IInv'
  <1>. USE DEF prepare_time_locked_parameters
  <1>1. /\ p \in Parameters /\ now \in 0..MaxNow /\ now \in Nat
        /\ fee_frontend \in Nat /\ fee_frontend <= Decimals
        /\ params.param_time_lock \in Nat
    BY InputsFit, ConstantsFit DEF IInv, TypeOK, EachShareBounded, Parameters
  <1>2. armed' \in Preparations
    BY <1>1 DEF Preparations
  <1>3. param_locked_until' \in 0..Word64 - 1
    BY <1>1, Plus64Range DEF Unlock
  <1>4. TypeOK'
    BY <1>2, <1>3 DEF IInv, TypeOK, ParamHash, governance, breaker, unguarded
  <1>5. Pending'
    <2>1. p.fee_lp \in Nat /\ p.minimum_trade_size \in Nat
      BY <1>1 DEF Parameters
    <2>2. p.fee_lp + fee_frontend <= Decimals
      BY <1>1, <2>1, SharesFit DEF Preparable
    <2>3. Covered(p)
      BY <1>1, <2>1, FlatFee DEF Preparable, Covered
    <2>4. /\ armed'.what = p /\ armed'.frontend = fee_frontend
          /\ armed'.at = now /\ armed'.lock = params.param_time_lock
      OBVIOUS
    <2>. QED
      BY <2>2, <2>3, <2>4 DEF Pending, ParamHash, Unlock, Covered
  <1>6. Governed' /\ EachShareBounded' /\ FlatFeeCovered'
    BY DEF IInv, Governed, EachShareBounded, FlatFeeCovered, governance, unguarded
  <1>. QED
    BY <1>4, <1>5, <1>6 DEF IInv

\* What is applied was prepared.
LEMMA ApplyStep ==
    ASSUME IInv, NEW caller \in Accounts, NEW p \in Proposals,
           set_time_locked_parameters(caller, p)
    PROVE  /\ IInv' /\ p = armed.what /\ params' = armed.what
           /\ now >= Plus64(armed.at, armed.lock)
           /\ params'.fee_lp + armed.frontend <= Decimals
  <1>. USE DEF set_time_locked_parameters
  <1>1. p \in Parameters /\ p # NoHash
    BY InputsFit, ZeroesDiffer
  <1>2. /\ p = armed.what /\ params' = armed.what
        /\ now >= Plus64(armed.at, armed.lock)
        /\ armed.what.fee_lp + armed.frontend <= Decimals /\ Covered(armed.what)
    BY <1>1 DEF IInv, Pending, ParamHash
  <1>3. TypeOK'
    BY <1>1 DEF IInv, TypeOK, governance, breaker, unguarded, timelock
  <1>4. EachShareBounded'
    <2>1. p.fee_lp \in Nat /\ armed.frontend \in Nat /\ Decimals \in Nat
      BY <1>1, ConstantsFit DEF IInv, TypeOK, Preparations, Parameters
    <2>. QED
      BY <1>2, <2>1 DEF IInv, EachShareBounded, unguarded
  <1>5. Governed' /\ Pending' /\ FlatFeeCovered'
    BY <1>2 DEF IInv, Governed, Pending, Covered, FlatFeeCovered, governance, timelock
  <1>. QED
    BY <1>2, <1>3, <1>4, <1>5 DEF IInv

-----------------------------------------------------------------------------
\* What a step may do, one formula for each action property.
Timely ==
    initialized /\ params' # params =>
        /\ params' = armed.what
        /\ armed.at + armed.lock < Word64 => now >= armed.at + armed.lock

RacedOnly == ~Overdrawn /\ Overdrawn' => fee_frontend > armed.frontend

Final ==
    initialized /\ roles[DEFAULT_ADMIN_ROLE] = {} =>
        /\ \A r \in Roles : roles'[r] \subseteq roles[r]
        /\ roles[MOD_ROLE] = {} =>
               UNCHANGED <<breaker, unguarded, params, timelock>>

\* A step that leaves shares and parameters alone is timely and no race.
LEMMA Quiet ==
    ASSUME UNCHANGED <<unguarded, params>>
    PROVE  Timely /\ RacedOnly
  BY DEF Timely, RacedOnly, Overdrawn, unguarded

\* A moderator's call does not come when there is no moderator.
LEMMA Moderated ==
    ASSUME Governed, mod_role \in Roles, NEW caller, only_role(mod_role, caller),
           UNCHANGED governance
    PROVE  initialized /\ Final
  <1>1. initialized
    BY DEF Governed, only_role
  <1>. QED
    BY <1>1 DEF Governed, Final, only_role, governance

\* Every call preserves the invariant and does what the properties allow.
LEMMA CallStep ==
    ASSUME IInv, NEW caller \in Accounts, Call(caller)
    PROVE  IInv' /\ Timely /\ RacedOnly /\ Final
  <1>. USE DEF IInv
  <1>0. mod_role \in Roles /\ DEFAULT_ADMIN_ROLE \in Roles
    BY DEF TypeOK, Roles
  <1>1. ASSUME NEW p \in Proposals, NEW frontend \in Fractions,
               NEW addr \in Addresses, NEW forwarder \in Addresses,
               initialize_production(caller, p, frontend, addr, forwarder)
        PROVE  IInv' /\ Timely /\ RacedOnly /\ Final
    <2>1. IInv'
      BY <1>1, InitialiseStep
    <2>2. ~initialized
      BY <1>1 DEF initialize_production, Settable
    <2>3. ~Overdrawn'
      <3>1. p.fee_lp \in Nat /\ frontend \in Nat
        BY InputsFit, ConstantsFit DEF Parameters
      <3>2. params'.fee_lp = p.fee_lp /\ fee_frontend' = frontend
        BY <1>1, InputsFit DEF initialize_production, Parameters
      <3>. QED
        BY <1>1, <3>1, <3>2, ConstantsFit DEF initialize_production, Settable, Overdrawn
    <2>. QED
      BY <2>1, <2>2, <2>3 DEF Timely, RacedOnly, Final
  <1>2. ASSUME NEW role \in Roles, NEW account \in Accounts,
               \/ grant_role(caller, role, account)
               \/ revoke_role(caller, role, account)
        PROVE  IInv' /\ Timely /\ RacedOnly /\ Final
    <2>1. only_role(DEFAULT_ADMIN_ROLE, caller)
      BY <1>2 DEF grant_role, revoke_role
    <2>2. roles' \in [Roles -> SUBSET Accounts]
      BY <1>2 DEF TypeOK, grant_role, revoke_role
    <2>3. initialized
      BY <1>0, <2>1, RolesAreGiven
    <2>4. UNCHANGED <<now, initialized, mod_role, unguarded, params, timelock, breaker>>
      BY <1>2 DEF grant_role, revoke_role
    <2>5. IInv'
      BY <2>2, <2>3, <2>4, GovernanceStep DEF TypeOK, breaker
    <2>6. Final
      BY <2>1 DEF Final, only_role
    <2>. QED
      BY <2>4, <2>5, <2>6, Quiet
  <1>3. ASSUME NEW role \in Roles, renounce_role(caller, role)
        PROVE  IInv' /\ Timely /\ RacedOnly /\ Final
    <2>1. roles' \in [Roles -> SUBSET Accounts]
      BY <1>3 DEF TypeOK, renounce_role
    <2>2. \A r \in Roles : roles'[r] \subseteq roles[r]
      BY <1>3 DEF TypeOK, renounce_role
    <2>3. initialized \/ roles' = roles
      <3>. SUFFICES ASSUME ~initialized PROVE roles' = roles
        OBVIOUS
      <3>1. roles[role] \ {caller} = roles[role]
        BY DEF Governed
      <3>. QED
        BY <1>3, <3>1 DEF renounce_role, TypeOK
    <2>4. UNCHANGED <<now, initialized, mod_role, unguarded, params, timelock, breaker>>
      BY <1>3 DEF renounce_role
    <2>5. IInv'
      BY <2>1, <2>3, <2>4, GovernanceStep DEF TypeOK, breaker
    <2>6. Final
      BY <2>2, <2>4 DEF Final
    <2>. QED
      BY <2>4, <2>5, <2>6, Quiet
  <1>4. ASSUME NEW forwarder \in Addresses,
               \/ pause_trading(caller) \/ unpause_trading(caller)
               \/ set_trusted_forwarder(caller, forwarder)
        PROVE  IInv' /\ Timely /\ RacedOnly /\ Final
    <2>1. only_role(mod_role, caller)
      BY <1>4 DEF pause_trading, unpause_trading, set_trusted_forwarder
    <2>2. UNCHANGED <<now, governance, unguarded, params, timelock>>
      BY <1>4 DEF pause_trading, unpause_trading, set_trusted_forwarder
    <2>3. trading_paused' \in BOOLEAN /\ trusted_forwarder' \in Addresses
      BY <1>4 DEF pause_trading, unpause_trading, set_trusted_forwarder, TypeOK
    <2>4. IInv'
      BY <2>2, <2>3, GovernanceStep DEF TypeOK, governance
    <2>. QED
      BY <1>0, <2>1, <2>2, <2>4, Moderated, Quiet
  <1>5. ASSUME NEW frontend \in Fractions, NEW addr \in Addresses,
               NEW discount \in 0..Discounts,
               set_unguarded_parameters(caller, frontend, addr, discount)
        PROVE  IInv' /\ Timely /\ RacedOnly /\ Final
    <2>1. IInv' /\ ~Overdrawn'
      BY <1>5, UnguardedStep
    <2>2. Final
      BY <1>0, <1>5, Moderated DEF set_unguarded_parameters
    <2>. QED
      BY <1>5, <2>1, <2>2 DEF set_unguarded_parameters, Timely, RacedOnly
  <1>6. ASSUME NEW p \in Proposals, prepare_time_locked_parameters(caller, p)
        PROVE  IInv' /\ Timely /\ RacedOnly /\ Final
    BY <1>0, <1>6, PrepareStep, Moderated, Quiet DEF prepare_time_locked_parameters
  <1>7. ASSUME NEW p \in Proposals, set_time_locked_parameters(caller, p)
        PROVE  IInv' /\ Timely /\ RacedOnly /\ Final
    <2>1. /\ IInv' /\ params' = armed.what
          /\ now >= Plus64(armed.at, armed.lock)
          /\ params'.fee_lp + armed.frontend <= Decimals
      BY <1>7, ApplyStep
    <2>2. /\ armed.at \in Nat /\ armed.lock \in Nat /\ armed.frontend \in Nat
          /\ fee_frontend \in Nat /\ params'.fee_lp \in Nat /\ now \in Nat
      BY <2>1, ConstantsFit DEF TypeOK, Preparations, Parameters
    <2>3. Timely
      <3>1. ASSUME armed.at + armed.lock < Word64
            PROVE  now >= armed.at + armed.lock
        BY <2>1, <2>2, <3>1, NoWrap, ConstantsFit DEF Plus64
      <3>. QED
        BY <2>1, <3>1 DEF Timely
    <2>4. RacedOnly
      <3>1. fee_frontend' = fee_frontend
        BY <1>7 DEF set_time_locked_parameters, unguarded
      <3>. QED
        BY <2>1, <2>2, <3>1, ConstantsFit DEF RacedOnly, Overdrawn
    <2>5. Final
      BY <1>0, <1>7, Moderated DEF set_time_locked_parameters
    <2>. QED
      BY <2>1, <2>3, <2>4, <2>5
  <1>8. Nobody \in Addresses
    BY DEF Addresses
  <1>. QED
    BY <1>1, <1>2, <1>3, <1>4, <1>5, <1>6, <1>7, <1>8, ZenonT(60) DEF Call

\* So does every step.
LEMMA NextStep ==
    ASSUME IInv, [Next]_vars
    PROVE  IInv' /\ Timely /\ RacedOnly /\ Final
  <1>1. ASSUME Tick PROVE IInv' /\ Timely /\ RacedOnly /\ Final
    <2>1. now' \in 0..MaxNow
      BY <1>1, ConstantsFit DEF Tick, IInv, TypeOK
    <2>2. TypeOK'
      BY <1>1, <2>1 DEF Tick, IInv, TypeOK, governance, breaker, unguarded, timelock
    <2>3. Governed' /\ Pending' /\ EachShareBounded' /\ FlatFeeCovered'
      BY <1>1 DEF Tick, IInv, Governed, Pending, Covered, EachShareBounded,
                  FlatFeeCovered, governance, unguarded, timelock
    <2>4. Final
      BY <1>1 DEF Tick, Final, governance
    <2>. QED
      BY <1>1, <2>2, <2>3, <2>4, Quiet DEF Tick, IInv
  <1>2. ASSUME UNCHANGED vars PROVE IInv' /\ Timely /\ RacedOnly /\ Final
    <2>1. IInv'
      BY <1>2 DEF vars, IInv, TypeOK, Governed, Pending, Covered, EachShareBounded,
                  FlatFeeCovered, governance, breaker, unguarded, timelock
    <2>2. Final
      BY <1>2 DEF vars, Final, governance
    <2>. QED
      BY <1>2, <2>1, <2>2, Quiet DEF vars
  <1>. QED
    BY <1>1, <1>2, CallStep DEF Next

\* Every reachable configuration satisfies the inductive invariant.
THEOREM Inductive == Spec => []IInv
  <1>1. Init => IInv
    BY InitIInv
  <1>2. IInv /\ [Next]_vars => IInv'
    BY NextStep
  <1>. QED
    BY <1>1, <1>2, PTL DEF Spec

\* Every variable keeps its type.
THEOREM ConfigTyped == Spec => []TypeOK
  <1>1. IInv => TypeOK
    BY DEF IInv
  <1>. QED
    BY <1>1, Inductive, PTL

\* A running engine charges no flat fee that a trade of the least size could
\* not pay (lib.rs:310-316, 796-800).
THEOREM FlatFeesCovered == Spec => []FlatFeeCovered
  <1>1. IInv => FlatFeeCovered
    BY DEF IInv
  <1>. QED
    BY <1>1, Inductive, PTL

\* Neither share of the fees ever exceeds the whole (lib.rs:784, 897).
THEOREM SharesBounded == Spec => []EachShareBounded
  <1>1. IInv => EachShareBounded
    BY DEF IInv
  <1>. QED
    BY <1>1, Inductive, PTL

\* The parameters change only to the last preparation, and only after the lock
\* in force when it was made (lib.rs:805, 856-875).
THEOREM ChangesAnnounced == Spec => TimelockRespected
  <1>1. IInv /\ [Next]_vars => [Timely]_vars
    BY NextStep
  <1>. QED
    BY <1>1, Inductive, PTL DEF Spec, TimelockRespected, Timely

\* The shares exceed the whole together only after the frontend's was raised
\* over a pending preparation (lib.rs:784, 897).
THEOREM OverdraftsRaced == Spec => OverdrawnOnlyByRace
  <1>1. IInv /\ [Next]_vars => [RacedOnly]_vars
    BY NextStep
  <1>. QED
    BY <1>1, Inductive, PTL DEF Spec, OverdrawnOnlyByRace, RacedOnly

\* An engine without an administrator gives no role, and without a moderator
\* its configuration is final (lib.rs:277-281, 635-661).
THEOREM Abandoned == Spec => AbandonmentFinal
  <1>1. IInv /\ [Next]_vars => [Final]_vars
    BY NextStep
  <1>. QED
    BY <1>1, Inductive, PTL DEF Spec, AbandonmentFinal, Final
=============================================================================
