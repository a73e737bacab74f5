---------------------------- MODULE EngineConfig ----------------------------
(***************************************************************************)
(* Governance of the perp engine: the one-shot initialiser, the two roles, *)
(* the emergency breaker, and the two ways a parameter changes - at once   *)
(* (setUnguardedParameters) or prepared, announced and applied after a     *)
(* time lock (perp-engine/src/lib.rs, config.rs, access_control.rs).       *)
(*                                                                         *)
(* Integers keep the width at which the code's arithmetic wraps or its     *)
(* narrowing refuses.  A hash is its preimage.  A call that reverts is a   *)
(* step that is not taken.  Parameters that no check relates to another    *)
(* (leverages, the fund cap, the ticker) are left out, and so are oracle   *)
(* and vault, of which the calls only ask that they are not zero.          *)
(*                                                                         *)
(* An operator named Fault... is a seeded bug, the definition after it     *)
(* gone wrong in a plausible way; nothing uses it in the model.            *)
(***************************************************************************)
EXTENDS Integers

CONSTANTS
    Accounts,      \* whoever may call, hold a role or collect the fees
    Nobody,        \* the zero address
    NoHash,        \* a hash that no preimage has
    Decimals,      \* fee_fractions_decimals
    FeeDecimals,   \* trading_fee_decimals
    MmrDecimals,   \* the bound on mmr, 1e6
    MaxFee,        \* the bound on liquidity_max_fee, 1e10
    Discounts,     \* the bound on liquidation_discount, half of 1e6
    Defaults,      \* the parameters that init_protocol_constants stores
    Wad,           \* 1e18
    Word,          \* values of a u256
    Word64,        \* values of a u64
    Word32,        \* values of a u32
    Proposals,     \* bound: parameters that are ever prepared
    Fractions,     \* bound: values of fee_frontend
    MaxNow         \* bound: the last block timestamp

\* The ten time-locked parameters.
Parameters == [mmr : Nat, trading_fee : Nat, flat_trading_fee : Nat, fee_lp : Nat,
               liquidity_min_fee : Nat, liquidity_max_fee : Nat, liquidity_fee_k : Nat,
               funding_c : Nat, param_time_lock : Nat, minimum_trade_size : Nat]

ASSUME ZeroesDiffer == Nobody \notin Accounts /\ NoHash \notin Parameters
ASSUME ConstantsFit ==
    /\ Decimals \in Nat /\ FeeDecimals \in Nat /\ MmrDecimals \in Nat /\ MaxFee \in Nat
    /\ Wad \in Nat
    /\ Word \in Nat \ {0} /\ Word64 \in Nat \ {0} /\ Word32 \in Nat \ {0}
    /\ Decimals < Word /\ FeeDecimals < Word
    /\ MaxNow \in Nat /\ Discounts \in Nat
ASSUME InputsFit ==
    /\ Defaults \in Parameters /\ Proposals \subseteq Parameters
    /\ Defaults.fee_lp <= Decimals
    /\ Fractions \subseteq 0..Word32 - 1

VARIABLES
    now, initialized, mod_role, roles, trading_paused, trusted_forwarder,
    fee_frontend, fee_protocol_addr, params, param_locked_until, param_hash,
    armed   \* history: the last preparation, its time and what it met

governance == <<initialized, mod_role, roles>>
breaker    == <<trading_paused, trusted_forwarder>>
unguarded  == <<fee_frontend, fee_protocol_addr>>
timelock   == <<param_locked_until, param_hash, armed>>
vars       == <<now, governance, breaker, unguarded, params, timelock>>

DEFAULT_ADMIN_ROLE == "default_admin"
MOD_ROLE           == "mod"
Roles              == {DEFAULT_ADMIN_ROLE, MOD_ROLE}
Addresses          == Accounts \cup {Nobody}

Nothing == [what |-> Defaults, at |-> 0, lock |-> 0, frontend |-> 0]

Preparations == [what : Proposals \cup {Defaults}, at : 0..MaxNow, lock : Nat,
                 frontend : Nat]
-----------------------------------------------------------------------------
\* u256 subtraction and u64 addition wrap around; checked_mul refuses a
\* product that does not fit, which is a guard of its own.
Minus(x, y) == (x - y) % Word
Times(x, y) == (x * y) % Word

FaultFits(x, y) == x < Word /\ y < Word
Fits(x, y) == x * y < Word

FaultPlus64(x, y) == x + y
Plus64(x, y) == (x + y) % Word64

\* A share of the fees next to the share that is already stored.
FaultShareAlone(share, stored) == share <= Decimals
FaultShareStorable(share, stored) == share < Word32
ShareFits(share, stored) == share <= Minus(Decimals, stored)

\* flatTradingFee * 1e18 < (tradingFeeDecimals - tradingFee) * minimumTradeSize
FlatFeeBelow(p, size) ==
    LET left == Minus(FeeDecimals, p.trading_fee)
    IN  /\ Fits(p.flat_trading_fee, Wad) /\ Fits(left, size)
        /\ Times(p.flat_trading_fee, Wad) < Times(left, size)

\* time_locked_param_hash, free of collisions.
ParamHash(p) == p

only_role(role, caller) == caller \in roles[role]
-----------------------------------------------------------------------------
\* Deployed, not initialised: storage is zero, the zero role included.
Init ==
    /\ now = 0
    /\ initialized = FALSE /\ mod_role = DEFAULT_ADMIN_ROLE
    /\ roles = [r \in Roles |-> {}]
    /\ trading_paused = FALSE /\ trusted_forwarder = Nobody
    /\ fee_frontend = 0 /\ fee_protocol_addr = Nobody
    /\ params = Defaults
    /\ param_locked_until = 0 /\ param_hash = NoHash /\ armed = Nothing

\* The checks of initializeProduction, SET1 to SET8 and the narrowing of mmr.
FaultSettable(p, frontend, addr, forwarder) ==
    /\ frontend + p.fee_lp < Decimals
    /\ p.trading_fee < FeeDecimals /\ FlatFeeBelow(p, Defaults.minimum_trade_size)
    /\ Nobody \notin {addr, forwarder} /\ p.mmr < Word32

Settable(p, frontend, addr, forwarder) ==
    /\ ~initialized
    /\ frontend + p.fee_lp < Decimals
    /\ p.trading_fee < FeeDecimals /\ FlatFeeBelow(p, Defaults.minimum_trade_size)
    /\ Nobody \notin {addr, forwarder} /\ p.mmr < Word32

\* Of p, only what the initialiser takes as arguments; finalize_init gives
\* both roles to the caller, on top of what they hold.
initialize_production(caller, p, frontend, addr, forwarder) ==
    /\ Settable(p, frontend, addr, forwarder)
    /\ params' = [Defaults EXCEPT !.mmr = p.mmr, !.fee_lp = p.fee_lp,
                                  !.trading_fee = p.trading_fee,
                                  !.flat_trading_fee = p.flat_trading_fee]
    /\ fee_frontend' = frontend /\ fee_protocol_addr' = addr
    /\ trusted_forwarder' = forwarder
    /\ initialized' = TRUE /\ mod_role' = MOD_ROLE
    /\ roles' = [r \in Roles |-> roles[r] \cup {caller}]
    /\ UNCHANGED <<now, trading_paused, timelock>>

grant_role(caller, role, account) ==
    /\ only_role(DEFAULT_ADMIN_ROLE, caller)
    /\ roles' = [roles EXCEPT ![role] = @ \cup {account}]
    /\ UNCHANGED <<now, initialized, mod_role, breaker, unguarded, params, timelock>>

revoke_role(caller, role, account) ==
    /\ only_role(DEFAULT_ADMIN_ROLE, caller)
    /\ roles' = [roles EXCEPT ![role] = @ \ {account}]
    /\ UNCHANGED <<now, initialized, mod_role, breaker, unguarded, params, timelock>>

renounce_role(caller, role) ==
    /\ roles' = [roles EXCEPT ![role] = @ \ {caller}]
    /\ UNCHANGED <<now, initialized, mod_role, breaker, unguarded, params, timelock>>

pause_trading(caller) ==
    /\ only_role(mod_role, caller)
    /\ trading_paused' = TRUE
    /\ UNCHANGED <<now, governance, trusted_forwarder, unguarded, params, timelock>>

unpause_trading(caller) ==
    /\ only_role(mod_role, caller)
    /\ trading_paused' = FALSE
    /\ UNCHANGED <<now, governance, trusted_forwarder, unguarded, params, timelock>>

set_trusted_forwarder(caller, forwarder) ==
    /\ only_role(mod_role, caller)
    /\ trusted_forwarder' = forwarder
    /\ UNCHANGED <<now, governance, trading_paused, unguarded, params, timelock>>

\* The zero address is checked of the stored collector, not of the new one.
set_unguarded_parameters(caller, frontend, addr, discount) ==
    /\ only_role(mod_role, caller)
    /\ ShareFits(frontend, params.fee_lp)
    /\ discount < Discounts
    /\ fee_protocol_addr # Nobody
    /\ fee_frontend' = frontend /\ fee_protocol_addr' = addr
    /\ UNCHANGED <<now, governance, breaker, params, timelock>>

Preparable(p) ==
    /\ p.mmr < MmrDecimals
    /\ ShareFits(p.fee_lp, fee_frontend)
    /\ p.trading_fee < FeeDecimals /\ FlatFeeBelow(p, p.minimum_trade_size)
    /\ p.liquidity_min_fee <= p.liquidity_max_fee /\ p.liquidity_max_fee <= MaxFee

\* The lock lasts as long as the one in force says, not the one proposed.
FaultUnlock(p) == Plus64(now, p.param_time_lock)
Unlock(p) == Plus64(now, params.param_time_lock)

prepare_time_locked_parameters(caller, p) ==
    /\ only_role(mod_role, caller)
    /\ Preparable(p)
    /\ param_locked_until' = Unlock(p)
    /\ param_hash' = ParamHash(p)
    /\ armed' = [what |-> p, at |-> now, lock |-> params.param_time_lock,
                 frontend |-> fee_frontend]
    /\ UNCHANGED <<now, governance, breaker, unguarded, params>>

Storable(p) ==
    /\ p.mmr < Word32 /\ p.fee_lp < Word32 /\ p.funding_c < Word32
    /\ p.param_time_lock < Word64

\* The hash stays, and neither share is looked at again.
set_time_locked_parameters(caller, p) ==
    /\ only_role(mod_role, caller)
    /\ now >= param_locked_until /\ param_hash = ParamHash(p)
    /\ Storable(p)
    /\ params' = p
    /\ UNCHANGED <<now, governance, breaker, unguarded, timelock>>

\* The next block.
Tick ==
    /\ now < MaxNow
    /\ now' = now + 1
    /\ UNCHANGED <<governance, breaker, unguarded, params, timelock>>

Call(caller) ==
    \/ \E p \in Proposals, frontend \in Fractions, addr, forwarder \in Addresses :
           initialize_production(caller, p, frontend, addr, forwarder)
    \/ \E role \in Roles, account \in Accounts :
           \/ grant_role(caller, role, account)
           \/ revoke_role(caller, role, account)
    \/ \E role \in Roles : renounce_role(caller, role)
    \/ pause_trading(caller) \/ unpause_trading(caller)
    \/ \E forwarder \in Addresses : set_trusted_forwarder(caller, forwarder)
    \/ \E frontend \in Fractions, addr \in Addresses, discount \in 0..Discounts :
           set_unguarded_parameters(caller, frontend, addr, discount)
    \/ \E p \in Proposals :
           \/ prepare_time_locked_parameters(caller, p)
           \/ set_time_locked_parameters(caller, p)

Next == Tick \/ \E caller \in Accounts : Call(caller)

Spec == Init /\ [][Next]_vars
-----------------------------------------------------------------------------
\* Every variable has its type: what is stored narrowly fits its width.
TypeOK ==
    /\ now \in 0..MaxNow
    /\ initialized \in BOOLEAN /\ mod_role \in Roles
    /\ roles \in [Roles -> SUBSET Accounts]
    /\ trading_paused \in BOOLEAN /\ trusted_forwarder \in Addresses
    /\ fee_frontend \in Nat /\ fee_protocol_addr \in Addresses
    /\ params \in Parameters
    /\ param_locked_until \in 0..Word64 - 1
    /\ param_hash \in Proposals \cup {NoHash}
    /\ armed \in Preparations

\* A change of the parameters was announced: it is the last preparation, and
\* the lock that was in force when it was prepared has since run out, however
\* the lock itself, the roles and the other parameters changed meanwhile - so
\* long as the deadline did not wrap around a u64.  So a preparation changes
\* the parameters once, although its hash is never cleared (lib.rs:805, 856-875).
TimelockRespected ==
    [][initialized /\ params' # params =>
           /\ params' = armed.what
           /\ armed.at + armed.lock < Word64 => now >= armed.at + armed.lock]_vars

\* A trade of the least size pays its flat fee and its proportional fee out of
\* itself, whatever was initialised or prepared and applied, and no overflow
\* let a larger flat fee through (lib.rs:310-316, 796-800).
FlatFeeCovered ==
    initialized => params.flat_trading_fee * Wad
                   < (FeeDecimals - params.trading_fee) * params.minimum_trade_size

\* Neither share of the fees exceeds the whole, on which the subtractions of
\* trade.rs:264, close.rs:108 and of the two checks themselves rely.
EachShareBounded == fee_frontend <= Decimals /\ params.fee_lp <= Decimals

Overdrawn == fee_frontend + params.fee_lp > Decimals

\* The two shares together come to exceed the whole in one way only: the
\* frontend's was raised while a preparation was pending (lib.rs:784, 897).
OverdrawnOnlyByRace ==
    [][~Overdrawn /\ Overdrawn' => fee_frontend > armed.frontend]_vars

\* Once nobody administers the engine, nobody gains a role; once nobody
\* moderates it either, nothing of its configuration ever changes
\* (lib.rs:277-281, 635-661).
AbandonmentFinal ==
    [][initialized /\ roles[DEFAULT_ADMIN_ROLE] = {} =>
           /\ \A r \in Roles : roles'[r] \subseteq roles[r]
           /\ roles[MOD_ROLE] = {} =>
                  UNCHANGED <<breaker, unguarded, params, timelock>>]_vars

\* SET1, lib.rs:300: "feeFrontend + feeLP < feeFractionsDecimals", read as
\* what the parameters of a running engine satisfy, up to equality.
FeeSharesFit == ~Overdrawn

\* SET7, lib.rs:250: "feeProtocol # 0", of a running engine.
ProtocolCollects == initialized => fee_protocol_addr # Nobody
=============================================================================
