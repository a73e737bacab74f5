------------------------- MODULE MCOracleMiddleware -------------------------
EXTENDS OracleMiddleware

\* A tight and a wide tolerance, a longer and a shorter window, a strict and a
\* loose limit on the age of a report.
SettingsDef == {[maxTimeDelta |-> 1, lookback |-> 3, tolerance |-> 2],
                [maxTimeDelta |-> 0, lookback |-> 2, tolerance |-> 1]}
=============================================================================
