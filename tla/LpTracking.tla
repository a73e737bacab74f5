----------------------------- MODULE LpTracking -----------------------------
(***************************************************************************)
(* What the epoch machinery promises to an LP, with no epoch in sight: an  *)
(* LP holds a snapshot, and has a book of its own that says how many       *)
(* matrix updates and how many funding accruals happened since.  Every     *)
(* call enters its updates and its accrual in the book of every LP alike.  *)
(* Only an account the call is about (the trader, the LP that moves its    *)
(* liquidity, the two parties of a liquidation) may have its snapshot      *)
(* replaced, and with it all or part of its book restarted.                *)
(*                                                                         *)
(* Counts are kept modulo Modulus, like those of LiquidityEpochs.          *)
(***************************************************************************)
EXTENDS Integers, FiniteSets

CONSTANTS Users, Modulus, Snapshots, None

VARIABLES snapshot, book

Counts == 0..Modulus - 1
Empty  == [updates |-> 0, accruals |-> 0]

TypeOK ==
    /\ snapshot \in [Users -> Snapshots \cup {None}]
    /\ book \in [Users -> [updates : Counts, accruals : Counts]]

\* The most matrix updates one call makes: a full liquidation distributes the
\* fee of two removals and closes the victim with a trade.
MaxUpdatesPerCall == 3

\* Nobody provides liquidity.
Init ==
    /\ snapshot = [u \in Users |-> None]
    /\ book = [u \in Users |-> Empty]

Tick(n) == IF n + 1 = Modulus THEN 0 ELSE n + 1

Times(n, k) ==
    CASE k = 0 -> n
      [] k = 1 -> Tick(n)
      [] k = 2 -> Tick(Tick(n))
      [] k = 3 -> Tick(Tick(Tick(n)))

\* k updates, and an accrual or not, entered in a book.
Entered(b, k, accrued) ==
    [updates  |-> Times(b.updates, k),
     accruals |-> IF accrued THEN Tick(b.accruals) ELSE b.accruals]

\* The book of a replaced snapshot: its accruals settled but no update lost,
\* or restarted before the last few updates of the call.
Replaced(b, k, accrued) ==
    {[Entered(b, k, accrued) EXCEPT !.accruals = 0]}
    \cup {Entered(Empty, j, FALSE) : j \in 0..k}

Call ==
    \E k \in 0..MaxUpdatesPerCall, accrued \in BOOLEAN :
        \A u \in Users :
            /\ snapshot'[u] = None => book'[u] = Empty
            /\ snapshot'[u] = snapshot[u] /\ snapshot[u] # None
                => book'[u] = Entered(book[u], k, accrued)
            /\ snapshot'[u] # snapshot[u] /\ snapshot'[u] # None
                => book'[u] \in Replaced(book[u], k, accrued)

Next ==
    /\ TypeOK'
    /\ Cardinality({u \in Users : snapshot'[u] # snapshot[u]}) <= 2
    /\ Call

Spec == Init /\ [][Next]_<<snapshot, book>>
=============================================================================
