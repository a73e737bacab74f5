----------------------------- MODULE MCRequests -----------------------------
EXTENDS Requests

CONSTANTS u1, u2, u3

Ask(kind) == [kind |-> kind, collateral |-> 0, size |-> 0, stable |-> 0, asset |-> 0,
              maxFee |-> 1]

By1(aim, deadline, nonce) ==
    [from |-> u1, aim |-> aim, deadline |-> deadline, nonce |-> nonce]

Pool(stable, asset, collateral) ==
    [Ask("provide") EXCEPT !.stable = stable, !.asset = asset, !.collateral = collateral]

Fewer == [Ask("modify") EXCEPT !.stable = 2, !.asset = 1]
More  == [Ask("modify") EXCEPT !.stable = 1, !.asset = 3]

Trade(size, collateral) ==
    [Ask("trade") EXCEPT !.collateral = collateral, !.size = size]

\* Several for each nonce, some of which expire early.
SignedDef == {
    By1(Trade(2, 3), 1, 0), By1(Fewer, 0, 0),
    By1(More, 0, 1), By1(Ask("take"), 1, 1), By1(Ask("close"), 1, 1)}

\* A first LP that signs messages, a trader who goes short, and a keeper that
\* provides for both.
DirectDef == [u \in Users |->
    CASE u = u1 -> {Pool(2, 2, 4)}
      [] u = u2 -> {Trade(-2, 4)}
      [] u = u3 -> {Pool(4, 4, 4)}]

OrdersDef == [u \in Users |->
    CASE u = u1 -> {[profit |-> 1, loss |-> 0]}
      [] u = u2 -> {[profit |-> 1, loss |-> 1]}
      [] u = u3 -> {}]

BatchesDef == {<<u1, u2>>, <<u2, u1>>}

\* A trade that is large for the reserves is off the oracle's price by one.
ReturnDef(x, p, s, a) ==
    LET r == IF 2 * x > a THEN x * p - 1 ELSE x * p
    IN  IF r < s THEN r ELSE s
CostDef(x, p, s, a) == IF 3 * x > a THEN x * p + 1 ELSE x * p
=============================================================================
