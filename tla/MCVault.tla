------------------------------ MODULE MCVault ------------------------------
EXTENDS Vault, TLC

CONSTANTS c1, c2

\* One coin has a decimal less than the vault counts in.
UnitDef == [c \in Coins |-> IF c = c2 THEN 2 ELSE 1]

PnlsDef == {1}

ProposalsDef == {[coin |-> c2, deposit |-> 1, withdrawal |-> 1, duration |-> 1]}

Symmetry == Permutations(Users)
=============================================================================
