----------------------------- MODULE MCFunding -----------------------------
EXTENDS Funding

DepositsDef == {<<2, 4>>}
=============================================================================
