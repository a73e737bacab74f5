--------------------------- MODULE MCEngineConfig ---------------------------
EXTENDS EngineConfig

DefaultsDef == [mmr |-> 0, trading_fee |-> 0, flat_trading_fee |-> 0, fee_lp |-> 0,
                liquidity_min_fee |-> 0, liquidity_max_fee |-> 0,
                liquidity_fee_k |-> 0, funding_c |-> 1, param_time_lock |-> 1,
                minimum_trade_size |-> 3]

\* As launched; a larger share for the LPs with a longer lock; another fee
\* that differs in nothing else; a share no check accepts; a flat fee whose
\* product does not fit; a parameter that prepares but does not narrow; a lock
\* that reaches the end of a u64.
ProposalsDef ==
    LET launch == [DefaultsDef EXCEPT !.mmr = 1, !.fee_lp = 1, !.flat_trading_fee = 1]
        change == [launch EXCEPT !.fee_lp = 3, !.param_time_lock = 2]
    IN  {launch, change,
         [change EXCEPT !.trading_fee = 1],
         [launch EXCEPT !.fee_lp = 5],
         [launch EXCEPT !.flat_trading_fee = 16],
         [launch EXCEPT !.funding_c = 16],
         [launch EXCEPT !.param_time_lock = 15, !.liquidity_max_fee = 1]}
=============================================================================
