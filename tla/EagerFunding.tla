---------------------------- MODULE EagerFunding ----------------------------
(***************************************************************************)
(* What the funding of the perp engine promises, without indices,          *)
(* accumulators or snapshots: in every unit of time every account owes     *)
(* speed times its net asset, LP position included, and a negative amount  *)
(* is owed to it.  Calls move positions between accounts and may change    *)
(* the speed, but never what is owed; an account is charged exactly what   *)
(* it owes when it is closed.                                              *)
(***************************************************************************)
EXTENDS Integers, Functions

CONSTANT Users

VARIABLES
    net,    \* net asset of each account
    speed,  \* funding per unit of time and of asset
    owed,   \* funding owed and not yet charged
    paid    \* funding charged at closes

vars == <<net, speed, owed, paid>>

TypeOK ==
    /\ net \in [Users -> Int] /\ speed \in Int
    /\ owed \in [Users -> Int] /\ paid \in [Users -> Int]

Init ==
    /\ net = [u \in Users |-> 0] /\ speed = 0
    /\ owed = [u \in Users |-> 0] /\ paid = [u \in Users |-> 0]

Tick ==
    /\ owed' = [u \in Users |-> owed[u] + speed * net[u]]
    /\ UNCHANGED <<net, speed, paid>>

\* Every position has its counterparty.
Moves ==
    /\ net' \in [Users -> Int] /\ speed' \in Int
    /\ SumFunction(net') = SumFunction(net)

Call == Moves /\ UNCHANGED <<owed, paid>>

Charge(u) ==
    /\ Moves
    /\ owed' = [owed EXCEPT ![u] = 0]
    /\ paid' = [paid EXCEPT ![u] = @ + owed[u]]

Next == Tick \/ Call \/ \E u \in Users : Charge(u)

Spec == Init /\ [][Next]_vars

-----------------------------------------------------------------------------
\* Funding is a transfer between accounts: what some owe or were charged is
\* what the others are owed or were credited.
ZeroSum ==
    /\ SumFunction(net) = 0
    /\ SumFunction(owed) + SumFunction(paid) = 0
=============================================================================
