---------------------------- MODULE MCPerpLedger ----------------------------
EXTENDS PerpLedger, TLC
=============================================================================
