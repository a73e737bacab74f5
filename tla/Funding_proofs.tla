--------------------------- MODULE Funding_proofs ---------------------------
(***************************************************************************)
(* Proofs about the lazy funding, for every finite set of accounts, any    *)
(* scale, amounts, deposits and delays: the books keep their type, the LPs *)
(* own the pool to the last unit, a liquidation's margin check sees what a *)
(* view showed before, and the lazy funding implements the eager one, so   *)
(* that funding is a transfer between accounts.                            *)
(***************************************************************************)
EXTENDS Funding, SumLemmas

\* Snapshots were taken with a matrix that can be inverted.
Sound(c) ==
    /\ c \in Books
    /\ \A u \in Users : Provides(c, u) => Det(c.lp[u].m) > 0

IInv == TypeOK /\ Sound(book) /\ Det(book.m) > 0
-----------------------------------------------------------------------------
(* Arithmetic of rows and matrices.                                        *)

\* A floor of integers is an integer.
LEMMA DivInt ==
    ASSUME NEW x \in Int, NEW d \in Int, d > 0
    PROVE  x \div d \in Int
OBVIOUS

\* A row of integers is its two elements.
LEMMA RowInts ==
    ASSUME NEW x \in Int \X Int
    PROVE  x[1] \in Int /\ x[2] \in Int /\ x = <<x[1], x[2]>>
OBVIOUS

\* Rows and matrices of integers stay such.
LEMMA DotInt ==
    ASSUME NEW x \in Int \X Int, NEW y \in Int \X Int
    PROVE  Dot(x, y) \in Int
BY DEF Dot

LEMMA AddRow ==
    ASSUME NEW x \in Int \X Int, NEW y \in Int \X Int
    PROVE  Add(x, y) \in Int \X Int
BY DEF Add

LEMMA TimesRow ==
    ASSUME NEW k \in Int, NEW x \in Int \X Int
    PROVE  Times(k, x) \in Int \X Int
BY DEF Times

LEMMA DetInt ==
    ASSUME NEW m \in Rows
    PROVE  Det(m) \in Int
BY DEF Rows, Det

\* A snapshot is recovered through integers.
LEMMA StartRow ==
    ASSUME NEW p \in Position
    PROVE  Start(p) \in Int \X Int
<1>1. p.v[1] \in Int /\ p.v[2] \in Int
  BY DEF Position
<1>2. p.m.a[1] \in Int /\ p.m.a[2] \in Int /\ p.m.s[1] \in Int /\ p.m.s[2] \in Int
  BY DEF Position, Rows
<1>. QED  BY <1>1, <1>2 DEF Start

\* A clamped balance is within its leg.
LEMMA ClampedFits ==
    ASSUME NEW x \in Int, NEW leg \in Nat
    PROVE  Clamped(x, leg) \in Nat /\ Clamped(x, leg) <= leg
BY DEF Clamped

\* What is left of a debt is not negative.
LEMMA ExcessNat ==
    ASSUME NEW x \in Nat, NEW y \in Nat
    PROVE  Excess(x, y) \in Nat
BY DEF Excess

-----------------------------------------------------------------------------
(* What is read from the books.                                            *)

\* Books are typed field by field.
LEMMA BooksFields ==
    ASSUME NEW c \in Books
    PROVE  /\ c.last \in Nat /\ c.f \in Int /\ c.g \in Int \X Int /\ c.m \in Rows
           /\ c.m.s \in Int \X Int /\ c.m.a \in Int \X Int
           /\ c.stable \in Nat /\ c.asset \in Nat /\ c.exposure \in Int
           /\ c.hold \in [Users -> Int] /\ c.debt \in [Users -> Nat]
           /\ c.lp \in [Users -> Position] /\ c.start \in [Users -> Int]
           /\ c.fee \in [Users -> Int] /\ c.paid \in [Users -> Int]
BY DEF Books, Rows

\* A balance is within the pool.
LEMMA BalanceFits ==
    ASSUME NEW c, Sound(c), NEW u \in Users
    PROVE  /\ LpBalance(c, u) \in Nat \X Nat
           /\ LpBalance(c, u)[1] \in Nat /\ LpBalance(c, u)[1] <= c.stable
           /\ LpBalance(c, u)[2] \in Nat /\ LpBalance(c, u)[2] <= c.asset
<1>1. c \in Books
  BY DEF Sound
<1>2. c.stable \in Nat /\ c.asset \in Nat
  BY <1>1, BooksFields
<1>3. CASE ~ Provides(c, u)
  <2>1. LpBalance(c, u) = <<0, 0>>
    BY <1>3 DEF LpBalance
  <2>. QED  BY <1>2, <2>1
<1>4. CASE Provides(c, u)
  <2>. DEFINE p == c.lp[u]
              x == Dot(c.m.s, Start(p)) \div Det(p.m)
              y == Dot(c.m.a, Start(p)) \div Det(p.m)
  <2>1. p \in Position /\ p.m \in Rows /\ c.m.s \in Int \X Int /\ c.m.a \in Int \X Int
    BY <1>1, BooksFields DEF Position
  <2>2. Det(p.m) \in Int /\ Det(p.m) > 0
    BY <1>4, <2>1, DetInt DEF Sound
  <2>3. x \in Int /\ y \in Int
    BY <2>1, <2>2, StartRow, DotInt, DivInt
  <2>4. LpBalance(c, u) = <<Clamped(x, c.stable), Clamped(y, c.asset)>>
    BY <1>4 DEF LpBalance
  <2>. HIDE DEF x, y, p
  <2>5. /\ Clamped(x, c.stable) \in Nat /\ Clamped(x, c.stable) <= c.stable
        /\ Clamped(y, c.asset) \in Nat /\ Clamped(y, c.asset) <= c.asset
    BY <1>2, <2>3, ClampedFits
  <2>. QED  BY <2>4, <2>5
<1>. QED  BY <1>3, <1>4

\* Rates and fees are integers, as long as no snapshot divides by zero.
LEMMA RateInt ==
    ASSUME NEW c \in Books, now \in Nat
    PROVE  Speed(c) \in Int /\ FundingRate(c) \in Int
<1>1. c.exposure \in Int /\ c.last \in Nat
  BY BooksFields
<1>2. Speed(c) \in Int
  BY <1>1 DEF Speed
<1>. QED  BY <1>1, <1>2 DEF FundingRate

LEMMA FundingFeeInt ==
    ASSUME NEW c, Sound(c), NEW u \in Users, NEW f \in Int
    PROVE  Star(c, u, f) \in Int /\ FundingFee(c, u, f) \in Int
<1>1. c \in Books
  BY DEF Sound
<1>2. Star(c, u, f) \in Int
  <2>1. CASE ~ Provides(c, u)
    BY <2>1 DEF Star
  <2>2. CASE Provides(c, u)
    <3>. DEFINE p == c.lp[u]
                r == Add(Add(c.g, Times(-1, p.g)), Times(f - c.f, c.m.a))
    <3>1. /\ p \in Position /\ p.m \in Rows /\ p.g \in Int \X Int
          /\ c.g \in Int \X Int /\ c.m.a \in Int \X Int /\ c.f \in Int
      BY <1>1, BooksFields DEF Position
    <3>2. Times(-1, p.g) \in Int \X Int /\ Times(f - c.f, c.m.a) \in Int \X Int
      BY <3>1, TimesRow
    <3>3. r \in Int \X Int
      BY <3>1, <3>2, AddRow
    <3>4. Det(p.m) \in Int /\ Det(p.m) > 0
      BY <2>2, <3>1, DetInt DEF Sound
    <3>5. Star(c, u, f) = Dot(r, Start(p)) \div Det(p.m)
      BY <2>2 DEF Star
    <3>. HIDE DEF r
    <3>6. Dot(r, Start(p)) \in Int
      BY <3>1, <3>3, StartRow, DotInt
    <3>. QED  BY <3>4, <3>5, <3>6, DivInt
  <2>. QED  BY <2>1, <2>2
<1>3. c.hold[u] \in Int /\ c.debt[u] \in Int /\ c.start[u] \in Int
  BY <1>1, BooksFields
<1>. QED  BY <1>2, <1>3 DEF FundingFee

LEMMA DueInt ==
    ASSUME NEW c, Sound(c), now \in Nat, NEW u \in Users
    PROVE  Due(c, u) \in Int
<1>1. c \in Books
  BY DEF Sound
<1>2. c.f \in Int /\ c.fee[u] \in Int
  BY <1>1, BooksFields
<1>3. c.f + FundingRate(c) \in Int
  BY <1>1, <1>2, RateInt
<1>. QED  BY <1>2, <1>3, FundingFeeInt DEF Due

-----------------------------------------------------------------------------
(* The steps the calls are made of keep the books sound.                   *)

\* Accruing touches index and row only.
LEMMA UpdateFGSound ==
    ASSUME NEW c, Sound(c), now \in Nat, c.last <= now
    PROVE  /\ Sound(UpdateFG(c)) /\ UpdateFG(c).last <= now
           /\ UpdateFG(c).m = c.m
<1>1. c \in Books
  BY DEF Sound
<1>2. CASE c.last = now
  BY <1>2 DEF UpdateFG
<1>3. CASE c.last # now
  <2>. DEFINE f == c.f + FundingRate(c)
              g == Add(c.g, Times(FundingRate(c), c.m.a))
  <2>1. f \in Int /\ g \in Int \X Int
    <3>1. c.f \in Int /\ c.g \in Int \X Int /\ c.m.a \in Int \X Int
      BY <1>1, BooksFields
    <3>2. FundingRate(c) \in Int
      BY <1>1, RateInt
    <3>. QED  BY <3>1, <3>2, TimesRow, AddRow
  <2>2. UpdateFG(c) = [c EXCEPT !.f = f, !.g = g, !.last = now]
    BY <1>3 DEF UpdateFG
  <2>. HIDE DEF f, g
  <2>3. UpdateFG(c) \in Books
    BY <1>1, <2>1, <2>2 DEF Books
  <2>4. UpdateFG(c).lp = c.lp /\ UpdateFG(c).m = c.m /\ UpdateFG(c).last = now
    BY <1>1, <2>2 DEF Books
  <2>. QED  BY <2>3, <2>4 DEF Sound, Provides
<1>. QED  BY <1>2, <1>3

\* Charging touches the fee cell only.
LEMMA ChargedSound ==
    ASSUME NEW c, Sound(c), NEW u \in Users
    PROVE  /\ Sound(Charged(c, u)) /\ Charged(c, u).last = c.last
           /\ Charged(c, u).m = c.m /\ Charged(c, u).stable = c.stable
           /\ Charged(c, u).asset = c.asset
<1>1. c \in Books
  BY DEF Sound
<1>. DEFINE x == FundingFee(c, u, c.f)
            fee == [c.fee EXCEPT ![u] = @ + x]
<1>2. x \in Int
  BY <1>1, BooksFields, FundingFeeInt
<1>. HIDE DEF x
<1>3. fee \in [Users -> Int]
  BY <1>1, <1>2, BooksFields
<1>4. Charged(c, u) = [c EXCEPT !.fee = fee]
  BY <1>1 DEF Charged, Books, x
<1>. HIDE DEF fee
<1>5. Charged(c, u) \in Books
  BY <1>1, <1>3, <1>4 DEF Books
<1>6. /\ Charged(c, u).lp = c.lp /\ Charged(c, u).last = c.last
      /\ Charged(c, u).m = c.m /\ Charged(c, u).stable = c.stable
      /\ Charged(c, u).asset = c.asset
  BY <1>1, <1>4 DEF Books
<1>. QED  BY <1>5, <1>6 DEF Sound, Provides

\* A snapshot is taken of a matrix that can be inverted.
LEMMA SnapshotSound ==
    ASSUME NEW c, Sound(c), Det(c.m) > 0, NEW u \in Users, NEW v \in Nat \X Nat
    PROVE  /\ Sound(Snapshot(c, u, v)) /\ Snapshot(c, u, v).last = c.last
           /\ Snapshot(c, u, v).m = c.m /\ Snapshot(c, u, v).stable = c.stable
           /\ Snapshot(c, u, v).asset = c.asset
<1>1. c \in Books
  BY DEF Sound
<1>. DEFINE q == IF v = <<0, 0>> THEN NoPosition ELSE [v |-> v, m |-> c.m, g |-> c.g]
            lp == [c.lp EXCEPT ![u] = q]
            start == [c.start EXCEPT ![u] = c.f]
            d == Snapshot(c, u, v)
<1>2. q \in Position /\ (q.v # <<0, 0>> => Det(q.m) > 0)
  <2>1. CASE v = <<0, 0>>
    BY <2>1 DEF NoPosition, Position, Flat, Rows
  <2>2. CASE v # <<0, 0>>
    <3>1. c.m \in Rows /\ c.g \in Int \X Int
      BY <1>1, BooksFields
    <3>. QED  BY <2>2, <3>1 DEF Position
  <2>. QED  BY <2>1, <2>2
<1>3. d = [c EXCEPT !.start = start, !.lp = lp]
  BY <1>1 DEF Snapshot, Books
<1>. HIDE DEF q
<1>4. lp \in [Users -> Position] /\ start \in [Users -> Int]
  BY <1>1, <1>2, BooksFields
<1>5. lp[u] = q /\ \A w \in Users \ {u} : lp[w] = c.lp[w]
  BY <1>1, BooksFields
<1>. HIDE DEF lp, start, d
<1>6. d \in Books
  BY <1>1, <1>3, <1>4 DEF Books
<1>7. /\ d.lp = lp /\ d.last = c.last /\ d.m = c.m
      /\ d.stable = c.stable /\ d.asset = c.asset
  BY <1>1, <1>3 DEF Books
<1>8. \A w \in Users : Provides(d, w) => Det(d.lp[w].m) > 0
  <2>. SUFFICES ASSUME NEW w \in Users, Provides(d, w) PROVE Det(d.lp[w].m) > 0
    OBVIOUS
  <2>1. CASE w = u
    BY <1>2, <1>5, <1>7, <2>1 DEF Provides
  <2>2. CASE w # u
    BY <1>5, <1>7, <2>2 DEF Provides, Sound
  <2>. QED  BY <2>1, <2>2
<1>9. Sound(d)
  BY <1>6, <1>8 DEF Sound
<1>. QED  BY <1>7, <1>9 DEF d

\* To settle is to charge and take a snapshot.
LEMMA SettleSound ==
    ASSUME NEW c, Sound(c), Det(c.m) > 0, NEW u \in Users
    PROVE  /\ Sound(Settle(c, u)) /\ Settle(c, u).last = c.last
           /\ Settle(c, u).m = c.m
<1>. DEFINE d == Charged(c, u)
            v == LpBalance(c, u)
<1>1. Sound(d) /\ d.last = c.last /\ d.m = c.m
  BY ChargedSound
<1>2. v \in Nat \X Nat
  BY BalanceFits
<1>3. Settle(c, u) = Snapshot(d, u, v)
  BY DEF Settle
<1>. HIDE DEF d, v
<1>. QED  BY <1>1, <1>2, <1>3, SnapshotSound

\* The trader's side refreshes the row of a snapshot, not its matrix.
LEMMA TraderSound ==
    ASSUME NEW c, Sound(c), NEW u \in Users, NEW size \in Int
    PROVE  /\ Sound(Trader(c, u, size)) /\ Trader(c, u, size).last = c.last
           /\ Trader(c, u, size).m = c.m /\ Trader(c, u, size).stable = c.stable
           /\ Trader(c, u, size).asset = c.asset
<1>. DEFINE e == Charged(c, u)
            d == Trader(c, u, size)
            q == IF Provides(c, u) THEN [e.lp[u] EXCEPT !.g = c.g] ELSE e.lp[u]
            lp == [e.lp EXCEPT ![u] = q]
            hold == [e.hold EXCEPT ![u] = @ + size]
            start == [e.start EXCEPT ![u] = c.f]
            exposure == e.exposure + size
<1>1. /\ Sound(e) /\ e.last = c.last /\ e.m = c.m
      /\ e.stable = c.stable /\ e.asset = c.asset
  BY ChargedSound
<1>2. c \in Books /\ e \in Books
  BY <1>1 DEF Sound
<1>. HIDE DEF e
<1>3. q \in Position /\ q.v = e.lp[u].v /\ q.m = e.lp[u].m
  <2>1. e.lp[u] \in Position /\ c.g \in Int \X Int
    BY <1>2, BooksFields
  <2>. QED  BY <2>1 DEF Position
<1>4. d = [e EXCEPT !.exposure = exposure, !.hold = hold, !.start = start, !.lp = lp]
  <2>1. d = [e EXCEPT !.exposure = @ + size, !.hold[u] = @ + size, !.start[u] = c.f,
                      !.lp[u] = IF Provides(c, u) THEN [@ EXCEPT !.g = c.g] ELSE @]
    BY DEF Trader, e
  <2>. HIDE DEF d
  <2>. QED  BY <1>2, <2>1 DEF Books
<1>5. /\ lp \in [Users -> Position] /\ hold \in [Users -> Int]
      /\ start \in [Users -> Int] /\ exposure \in Int
  <2>1. lp \in [Users -> Position]
    BY <1>2, <1>3, BooksFields
  <2>2. hold \in [Users -> Int] /\ exposure \in Int
    BY <1>2, BooksFields
  <2>3. start \in [Users -> Int]
    BY <1>2, BooksFields
  <2>. QED  BY <2>1, <2>2, <2>3
<1>6. lp[u] = q /\ \A w \in Users \ {u} : lp[w] = e.lp[w]
  BY <1>2, BooksFields
<1>. HIDE DEF q, lp, hold, start, exposure, d
<1>7. d \in Books
  BY <1>2, <1>4, <1>5 DEF Books
<1>8. /\ d.lp = lp /\ d.last = e.last /\ d.m = e.m
      /\ d.stable = e.stable /\ d.asset = e.asset
  BY <1>2, <1>4 DEF Books
<1>9. Sound(d)
  <2>. SUFFICES ASSUME NEW w \in Users, Provides(d, w) PROVE Det(d.lp[w].m) > 0
    BY <1>7 DEF Sound
  <2>1. CASE w = u
    <3>1. Provides(e, u)
      BY <1>3, <1>6, <1>8, <2>1 DEF Provides
    <3>2. d.lp[w].m = e.lp[u].m
      BY <1>3, <1>6, <1>8, <2>1
    <3>. QED  BY <1>1, <3>1, <3>2 DEF Sound
  <2>2. CASE w # u
    BY <1>1, <1>6, <1>8, <2>2 DEF Provides, Sound
  <2>. QED  BY <2>1, <2>2
<1>. QED  BY <1>1, <1>8, <1>9 DEF d

\* A trade leaves both legs of the pool.
LEMMA LongSound ==
    ASSUME NEW c, Sound(c), NEW size \in Nat, size < c.asset
    PROVE  Sound(Long(c, size)) /\ Long(c, size).last = c.last
<1>1. c \in Books
  BY DEF Sound
<1>. DEFINE a == (size * Scale) \div c.asset
            x == <<(a * c.m.a[1]) \div Scale, (a * c.m.a[2]) \div Scale>>
            m == [s |-> Add(c.m.s, x), a |-> Add(c.m.a, Times(-1, x))]
            stable == c.stable + size
            asset == c.asset - size
            d == Long(c, size)
<1>2. c.asset \in Nat /\ c.stable \in Nat /\ c.m.s \in Int \X Int /\ c.m.a \in Int \X Int
  BY <1>1, BooksFields
<1>3. Scale \in Int /\ Scale > 0
  BY ScaleNonZero
<1>4. a \in Int
  <2>1. size * Scale \in Int /\ c.asset > 0
    BY <1>2, <1>3
  <2>. QED  BY <1>2, <2>1, DivInt
<1>. HIDE DEF a
<1>5. x \in Int \X Int
  <2>1. a * c.m.a[1] \in Int /\ a * c.m.a[2] \in Int
    BY <1>2, <1>4
  <2>. QED  BY <1>3, <2>1, DivInt
<1>. HIDE DEF x
<1>6. m \in Rows
  <2>1. Times(-1, x) \in Int \X Int
    BY <1>5, TimesRow
  <2>. QED  BY <1>2, <1>5, <2>1, AddRow DEF Rows
<1>7. d = [c EXCEPT !.m = m, !.stable = stable, !.asset = asset]
  BY <1>1 DEF Long, Books, x, a
<1>8. stable \in Nat /\ asset \in Nat
  BY <1>2
<1>. HIDE DEF m, stable, asset, d
<1>9. d \in Books /\ d.lp = c.lp /\ d.last = c.last
  BY <1>1, <1>6, <1>7, <1>8 DEF Books
<1>. QED  BY <1>9 DEF Sound, Provides, d

LEMMA ShortSound ==
    ASSUME NEW c, Sound(c), NEW size \in Nat, size < c.stable
    PROVE  Sound(Short(c, size)) /\ Short(c, size).last = c.last
<1>1. c \in Books
  BY DEF Sound
<1>. DEFINE a == (size * Scale) \div c.stable
            x == <<(a * c.m.s[1]) \div Scale, (a * c.m.s[2]) \div Scale>>
            m == [s |-> Add(c.m.s, Times(-1, x)), a |-> Add(c.m.a, x)]
            stable == c.stable - size
            asset == c.asset + size
            d == Short(c, size)
<1>2. c.asset \in Nat /\ c.stable \in Nat /\ c.m.s \in Int \X Int /\ c.m.a \in Int \X Int
  BY <1>1, BooksFields
<1>3. Scale \in Int /\ Scale > 0
  BY ScaleNonZero
<1>4. a \in Int
  <2>1. size * Scale \in Int /\ c.stable > 0
    BY <1>2, <1>3
  <2>. QED  BY <1>2, <2>1, DivInt
<1>. HIDE DEF a
<1>5. x \in Int \X Int
  <2>1. a * c.m.s[1] \in Int /\ a * c.m.s[2] \in Int
    BY <1>2, <1>4
  <2>. QED  BY <1>3, <2>1, DivInt
<1>. HIDE DEF x
<1>6. m \in Rows
  <2>1. Times(-1, x) \in Int \X Int
    BY <1>5, TimesRow
  <2>. QED  BY <1>2, <1>5, <2>1, AddRow DEF Rows
<1>7. d = [c EXCEPT !.m = m, !.stable = stable, !.asset = asset]
  BY <1>1 DEF Short, Books, x, a
<1>8. stable \in Nat /\ asset \in Nat
  BY <1>2
<1>. HIDE DEF m, stable, asset, d
<1>9. d \in Books /\ d.lp = c.lp /\ d.last = c.last
  BY <1>1, <1>6, <1>7, <1>8 DEF Books
<1>. QED  BY <1>9 DEF Sound, Provides, d

\* What a trade may leave.
LEMMA LongsSound ==
    ASSUME NEW c, Sound(c), now \in Nat, c.last <= now, NEW u \in Users,
           NEW size \in Nat, NEW d \in Longs(c, u, size)
    PROVE  Sound(d) /\ d.last <= now
<1>. DEFINE e == UpdateFG(c)
            t == Trader(e, u, size)
<1>1. size < c.asset /\ d = Long(t, size)
  <2>1. c.asset \in Nat
    BY BooksFields DEF Sound
  <2>. QED  BY <2>1 DEF Longs
<1>2. Sound(e) /\ e.last <= now /\ e.asset = c.asset
  <2>1. e.asset = c.asset
    BY DEF UpdateFG, Sound, Books
  <2>. QED  BY <2>1, UpdateFGSound
<1>. HIDE DEF e
<1>3. Sound(t) /\ t.last = e.last /\ t.asset = e.asset
  BY <1>2, TraderSound
<1>. HIDE DEF t
<1>. QED  BY <1>1, <1>2, <1>3, LongSound

LEMMA ShortsSound ==
    ASSUME NEW c, Sound(c), now \in Nat, c.last <= now, NEW u \in Users,
           NEW size \in Nat, NEW d \in Shorts(c, u, size)
    PROVE  Sound(d) /\ d.last <= now
<1>. DEFINE e == UpdateFG(c)
            t == Trader(e, u, -size)
<1>1. size < c.stable /\ d = Short(t, size)
  <2>1. c.stable \in Nat
    BY BooksFields DEF Sound
  <2>. QED  BY <2>1 DEF Shorts
<1>2. Sound(e) /\ e.last <= now /\ e.stable = c.stable
  <2>1. e.stable = c.stable
    BY DEF UpdateFG, Sound, Books
  <2>. QED  BY <2>1, UpdateFGSound
<1>. HIDE DEF e
<1>3. Sound(t) /\ t.last = e.last /\ t.stable = e.stable
  <2>1. -size \in Int
    OBVIOUS
  <2>. QED  BY <1>2, <2>1, TraderSound
<1>. HIDE DEF t
<1>. QED  BY <1>1, <1>2, <1>3, ShortSound

\* Books between calls, at the current time.
Fit(c) == Sound(c) /\ c.last <= now /\ Det(c.m) > 0

\* What is withdrawn is within the LP's balance.
Withdrawable(c, u, out) ==
    /\ out \in Nat \X Nat
    /\ out[1] <= LpBalance(c, u)[1] /\ out[2] <= LpBalance(c, u)[2]

\* A withdrawal leaves no leg, and no debt, below zero.
LEMMA WithdrawSound ==
    ASSUME NEW c, Fit(c), now \in Nat, NEW u \in Users,
           NEW out, Withdrawable(c, u, out)
    PROVE  Fit(Withdraw(c, u, out))
<1>. DEFINE v == LpBalance(c, u)
            rest == <<v[1] - out[1], v[2] - out[2]>>
            e == UpdateFG(c)
            h == Charged(e, u)
            s == Snapshot(h, u, rest)
            own == Excess(out[2], c.debt[u])
            d == Withdraw(c, u, out)
            stable == s.stable - out[1]
            asset == s.asset - out[2]
            debt == [s.debt EXCEPT ![u] = Excess(@, out[2])]
            hold == [s.hold EXCEPT ![u] = @ + own]
            exposure == s.exposure + own
<1>1. /\ c \in Books /\ c.stable \in Nat /\ c.asset \in Nat /\ c.debt[u] \in Nat
  BY BooksFields DEF Fit, Sound
<1>2. /\ out[1] \in Nat /\ out[2] \in Nat
      /\ v[1] \in Nat /\ v[2] \in Nat /\ v[1] <= c.stable /\ v[2] <= c.asset
      /\ out[1] <= v[1] /\ out[2] <= v[2]
  BY BalanceFits DEF Fit, Withdrawable
<1>. HIDE DEF v
<1>3. rest \in Nat \X Nat
  BY <1>2
<1>. HIDE DEF rest
<1>4. /\ Sound(e) /\ e.last <= now /\ e.m = c.m
      /\ e.stable = c.stable /\ e.asset = c.asset
  <2>1. e.stable = c.stable /\ e.asset = c.asset
    BY <1>1 DEF UpdateFG, Books
  <2>. QED  BY <2>1, UpdateFGSound DEF Fit
<1>. HIDE DEF e
<1>5. /\ Sound(h) /\ h.last <= now /\ h.m = c.m
      /\ h.stable = c.stable /\ h.asset = c.asset
  BY <1>4, ChargedSound
<1>. HIDE DEF h
<1>6. /\ Sound(s) /\ s.last <= now /\ s.m = c.m
      /\ s.stable = c.stable /\ s.asset = c.asset
  <2>1. Det(h.m) > 0
    BY <1>5 DEF Fit
  <2>. QED  BY <1>3, <1>5, <2>1, SnapshotSound
<1>7. s \in Books
  BY <1>6 DEF Sound
<1>8. d = [s EXCEPT !.stable = stable, !.asset = asset, !.debt = debt,
                    !.hold = hold, !.exposure = exposure]
  <2>1. d = [s EXCEPT !.stable = @ - out[1], !.asset = @ - out[2],
                      !.debt[u] = Excess(@, out[2]),
                      !.hold[u] = @ + own, !.exposure = @ + own]
    BY DEF Withdraw, v, rest, e, h
  <2>. HIDE DEF s, d, own
  <2>. QED  BY <1>7, <2>1 DEF Books
<1>. HIDE DEF s, d
<1>9. own \in Nat
  BY <1>1, <1>2, ExcessNat
<1>. HIDE DEF own
<1>10. /\ stable \in Nat /\ asset \in Nat
       /\ hold \in [Users -> Int] /\ exposure \in Int
  <2>1. s.hold \in [Users -> Int] /\ s.exposure \in Int
    BY <1>7, BooksFields
  <2>. QED  BY <1>1, <1>2, <1>6, <1>9, <2>1
<1>11. debt \in [Users -> Nat]
  <2>1. s.debt \in [Users -> Nat]
    BY <1>7, BooksFields
  <2>2. Excess(s.debt[u], out[2]) \in Nat
    BY <1>2, <2>1, ExcessNat
  <2>. QED  BY <2>1, <2>2
<1>. HIDE DEF stable, asset, debt, hold, exposure
<1>12. d \in Books /\ d.lp = s.lp /\ d.last = s.last /\ d.m = s.m
  BY <1>7, <1>8, <1>10, <1>11 DEF Books
<1>13. Sound(d)
  BY <1>6, <1>12 DEF Sound, Provides
<1>. QED  BY <1>6, <1>12, <1>13 DEF Fit, d

\* A deposit puts the old balance back with the new one.
LEMMA DepositSound ==
    ASSUME NEW c, Fit(c), now \in Nat, NEW u \in Users, NEW in \in Nat \X Nat
    PROVE  Fit(Deposit(c, u, in))
<1>. DEFINE x == FundingFee(c, u, c.f + FundingRate(c))
            fee == [c.fee EXCEPT ![u] = @ + x]
            b == [c EXCEPT !.fee = fee]
            d == UpdateFG(b)
            debt == [d.debt EXCEPT ![u] = @ + in[2]]
            stable == d.stable + in[1]
            asset == d.asset + in[2]
            e == [d EXCEPT !.debt = debt, !.stable = stable, !.asset = asset]
            v == Add(in, LpBalance(d, u))
<1>1. c \in Books /\ Sound(c) /\ c.last <= now /\ Det(c.m) > 0
  BY DEF Fit, Sound
<1>2. x \in Int
  <2>1. c.f \in Int
    BY <1>1, BooksFields
  <2>2. c.f + FundingRate(c) \in Int
    BY <1>1, <2>1, RateInt
  <2>. QED  BY <1>1, <2>2, FundingFeeInt
<1>3. Deposit(c, u, in) = Snapshot(e, u, v)
  <2>1. [c EXCEPT !.fee[u] = @ + x] = b
    <3>. HIDE DEF x
    <3>. QED  BY <1>1 DEF Books
  <2>2. Deposit(c, u, in) =
            Snapshot([d EXCEPT !.debt[u] = @ + in[2], !.stable = @ + in[1], !.asset = @ + in[2]],
                     u, Add(in, LpBalance(d, u)))
    BY <2>1 DEF Deposit
  <2>3. [d EXCEPT !.debt[u] = @ + in[2], !.stable = @ + in[1], !.asset = @ + in[2]] = e
    OBVIOUS
  <2>. QED  BY <2>2, <2>3
<1>. HIDE DEF x
<1>4. fee \in [Users -> Int]
  BY <1>1, <1>2, BooksFields
<1>. HIDE DEF fee
<1>5. Sound(b) /\ b.last = c.last /\ b.m = c.m
  <2>1. b \in Books /\ b.lp = c.lp /\ b.last = c.last /\ b.m = c.m
    BY <1>1, <1>4 DEF Books
  <2>. QED  BY <1>1, <2>1 DEF Sound, Provides
<1>. HIDE DEF b
<1>6. Sound(d) /\ d.last <= now /\ d.m = c.m /\ d \in Books
  <2>1. Sound(d) /\ d.last <= now /\ d.m = b.m
    BY <1>1, <1>5, UpdateFGSound
  <2>. QED  BY <1>5, <2>1 DEF Sound
<1>. HIDE DEF d
<1>7. v \in Nat \X Nat
  BY <1>6, BalanceFits DEF Add
<1>. HIDE DEF v
<1>8. debt \in [Users -> Nat] /\ stable \in Nat /\ asset \in Nat
  <2>1. d.debt \in [Users -> Nat] /\ d.stable \in Nat /\ d.asset \in Nat
    BY <1>6, BooksFields
  <2>. QED  BY <2>1
<1>. HIDE DEF debt, stable, asset
<1>9. e \in Books /\ e.lp = d.lp /\ e.last = d.last /\ e.m = d.m
  BY <1>6, <1>8 DEF Books
<1>10. Sound(e)
  BY <1>6, <1>9 DEF Sound, Provides
<1>. HIDE DEF e
<1>11. Det(e.m) > 0 /\ e.last <= now
  BY <1>1, <1>6, <1>9
<1>. QED  BY <1>3, <1>7, <1>10, <1>11, SnapshotSound DEF Fit

\* What a close withdraws is withdrawable.
LEMMA UnwoundSound ==
    ASSUME NEW c, Fit(c), now \in Nat, NEW u \in Users
    PROVE  Fit(Unwound(c, u))
<1>1. CASE LpBalance(c, u) = <<0, 0>> /\ c.debt[u] = 0
  BY <1>1 DEF Unwound
<1>2. CASE ~ (LpBalance(c, u) = <<0, 0>> /\ c.debt[u] = 0)
  <2>. DEFINE d == Withdraw(c, u, LpBalance(c, u))
              hold == [d.hold EXCEPT ![u] = @ - d.debt[u]]
              exposure == d.exposure - d.debt[u]
              debt == [d.debt EXCEPT ![u] = 0]
              e == [d EXCEPT !.hold = hold, !.exposure = exposure, !.debt = debt]
  <2>1. Withdrawable(c, u, LpBalance(c, u))
    BY BalanceFits DEF Withdrawable, Fit
  <2>2. Fit(d) /\ d \in Books
    BY <2>1, WithdrawSound DEF Fit, Sound
  <2>3. Unwound(c, u) = e
    BY <1>2 DEF Unwound
  <2>. HIDE DEF d
  <2>4. hold \in [Users -> Int] /\ exposure \in Int /\ debt \in [Users -> Nat]
    <3>1. d.hold \in [Users -> Int] /\ d.exposure \in Int /\ d.debt \in [Users -> Nat]
      BY <2>2, BooksFields
    <3>. QED  BY <3>1
  <2>. HIDE DEF hold, exposure, debt
  <2>5. e \in Books /\ e.lp = d.lp /\ e.last = d.last /\ e.m = d.m
    BY <2>2, <2>4 DEF Books
  <2>. HIDE DEF e
  <2>. QED  BY <2>2, <2>3, <2>5 DEF Fit, Sound, Provides
<1>. QED  BY <1>1, <1>2

\* The last step of a close clears the fee.
LEMMA ChargeSound ==
    ASSUME NEW c, Sound(c), c.last <= now, now \in Nat, NEW u \in Users
    PROVE  Sound(Charge(c, u)) /\ Charge(c, u).last <= now
<1>. DEFINE x == Due(c, u)
            paid == [c.paid EXCEPT ![u] = @ + x]
            fee == [c.fee EXCEPT ![u] = 0]
            start == [c.start EXCEPT ![u] = 0]
            d == Charge(c, u)
<1>1. c \in Books /\ x \in Int
  BY DueInt DEF Sound
<1>2. d = [c EXCEPT !.paid = paid, !.fee = fee, !.start = start]
  BY <1>1 DEF Charge, Books
<1>. HIDE DEF x
<1>3. paid \in [Users -> Int] /\ fee \in [Users -> Int] /\ start \in [Users -> Int]
  <2>1. c.paid \in [Users -> Int] /\ c.fee \in [Users -> Int] /\ c.start \in [Users -> Int]
    BY <1>1, BooksFields
  <2>. QED  BY <1>1, <2>1
<1>. HIDE DEF paid, fee, start, d
<1>4. d \in Books /\ d.lp = c.lp /\ d.last = c.last
  BY <1>1, <1>2, <1>3 DEF Books
<1>. QED  BY <1>4 DEF Sound, Provides, d

\* A close unwinds, trades and charges.
LEMMA CloseSound ==
    ASSUME NEW c, Fit(c), now \in Nat, NEW u \in Users, NEW e \in Close(c, u)
    PROVE  Sound(e) /\ e.last <= now
<1>. DEFINE d == Unwound(c, u)
            n == d.hold[u]
            S == IF n > 0 THEN Shorts(d, u, n) ELSE IF n < 0 THEN Longs(d, u, -n) ELSE {d}
<1>1. Fit(d) /\ n \in Int
  <2>1. Fit(d)
    BY UnwoundSound
  <2>. QED  BY <2>1, BooksFields DEF Fit, Sound
<1>2. PICK t \in S : e = Charge(t, u)
  BY DEF Close
<1>. HIDE DEF d
<1>3. Sound(t) /\ t.last <= now
  <2>1. Sound(d) /\ d.last <= now
    BY <1>1 DEF Fit
  <2>2. CASE n > 0
    <3>1. n \in Nat /\ t \in Shorts(d, u, n)
      BY <1>1, <1>2, <2>2
    <3>. HIDE DEF n
    <3>. QED  BY <2>1, <3>1, ShortsSound
  <2>3. CASE n < 0
    <3>1. -n \in Nat /\ t \in Longs(d, u, -n)
      BY <1>1, <1>2, <2>3
    <3>. HIDE DEF n
    <3>. QED  BY <2>1, <3>1, LongsSound
  <2>4. CASE n = 0
    BY <1>2, <2>1, <2>4
  <2>. QED  BY <1>1, <2>2, <2>3, <2>4
<1>. QED  BY <1>2, <1>3, ChargeSound

-----------------------------------------------------------------------------
(* The calls.                                                              *)

\* The books between calls.
LEMMA InvFit ==
    ASSUME IInv
    PROVE  /\ Fit(book) /\ now \in Nat /\ book.last <= now /\ book \in Books
           /\ Fit(UpdateFG(book))
<1>1. Fit(book) /\ now \in Nat /\ book.last <= now /\ book \in Books
  BY DEF IInv, TypeOK, Fit
<1>2. Fit(UpdateFG(book))
  BY <1>1, UpdateFGSound DEF Fit
<1>. QED  BY <1>1, <1>2

\* A call takes books that are sound; the bound keeps the matrix invertible.
LEMMA TakesKeeps ==
    ASSUME IInv, NEW S, Takes(S),
           \A c \in S : Sound(c) /\ c.last <= now
    PROVE  IInv'
<1>1. PICK c \in S : Within(c) /\ book' = c /\ now' = now
  BY DEF Takes
<1>2. Sound(c) /\ c.last <= now /\ c \in Books
  BY DEF Sound
<1>3. Det(c.m) > 0
  <2>1. Det(c.m) \in Int /\ MinDet \in Int /\ MinDet > 0
    BY <1>2, BooksFields, DetInt, MinDetPositive
  <2>. QED  BY <1>1, <2>1 DEF Within
<1>4. TypeOK'
  BY <1>1, <1>2 DEF TypeOK, IInv
<1>5. Sound(book)'
  <2>1. Sound(book')
    BY <1>1, <1>2
  <2>. QED  BY <2>1 DEF Sound, Provides
<1>6. Det(book'.m) > 0
  BY <1>1, <1>3
<1>. QED  BY <1>4, <1>5, <1>6 DEF IInv, Det

\* One lemma for each call that is more than its steps.
LEMMA TradeKeeps ==
    ASSUME IInv, NEW u \in Users, ExecuteTrade(u)
    PROVE  IInv'
<1>1. PICK size \in Amounts : Takes(Longs(book, u, size) \cup Shorts(book, u, size))
  BY DEF ExecuteTrade
<1>2. size \in Nat
  BY InputsFit
<1>3. Sound(book) /\ book.last <= now /\ now \in Nat
  BY InvFit DEF Fit
<1>4. \A c \in Longs(book, u, size) \cup Shorts(book, u, size) : Sound(c) /\ c.last <= now
  BY <1>2, <1>3, LongsSound, ShortsSound
<1>. QED  BY <1>1, <1>4, TakesKeeps

\* Half of a balance, or all of it, is withdrawable.
LEMMA RemoveKeeps ==
    ASSUME IInv, NEW u \in Users, RemoveLiquidity(u)
    PROVE  IInv'
<1>. DEFINE v == LpBalance(book, u)
<1>1. PICK out \in Parts(v) : Takes({Withdraw(book, u, out)})
  BY DEF RemoveLiquidity
<1>2. Withdrawable(book, u, out)
  <2>1. v \in Nat \X Nat /\ v[1] \in Nat /\ v[2] \in Nat
    BY BalanceFits, InvFit DEF Fit
  <2>2. out = v \/ out = <<v[1] \div 2, v[2] \div 2>>
    BY <1>1 DEF Parts
  <2>. HIDE DEF v
  <2>3. out \in Nat \X Nat /\ out[1] <= v[1] /\ out[2] <= v[2]
    BY <2>1, <2>2
  <2>. QED  BY <2>3 DEF Withdrawable, v
<1>3. Fit(Withdraw(book, u, out))
  BY <1>2, InvFit, WithdrawSound
<1>4. \A c \in {Withdraw(book, u, out)} : Sound(c) /\ c.last <= now
  BY <1>3 DEF Fit
<1>. QED  BY ONLY IInv, <1>1, <1>4, TakesKeeps

\* Two settled accounts, and what the victim withdraws.
LEMMA LiquidateKeeps ==
    ASSUME IInv, NEW l \in Users, NEW u \in Users, Liquidate(l, u)
    PROVE  IInv'
<1>. DEFINE c == UpdateFG(book)
            d == Settle(Settle(c, l), u)
            v == LpBalance(d, u)
            Size(part) == (d.hold[u] + v[2] - d.debt[u]) \div part
            Out(part)  == <<v[1] \div part, v[2] \div part>>
            E(part)    == IF Out(part) = <<0, 0>> THEN d ELSE Withdraw(d, u, Out(part))
            Moved(part) ==
              [E(part) EXCEPT
                 !.hold = [[E(part).hold EXCEPT ![u] = @ - Size(part)] EXCEPT ![l] = @ + Size(part)],
                 !.start = [[E(part).start EXCEPT ![u] = E(part).f] EXCEPT ![l] = E(part).f]]
<1>1. PICK part \in {1, 2} :
          Takes(IF part = 1 THEN Close(Moved(part), u) ELSE {Moved(part)})
  BY DEF Liquidate
<1>. DEFINE size == Size(part)
            out  == Out(part)
            e    == E(part)
            hold == [[e.hold EXCEPT ![u] = @ - size] EXCEPT ![l] = @ + size]
            start == [[e.start EXCEPT ![u] = e.f] EXCEPT ![l] = e.f]
            moved == Moved(part)
<1>2. now \in Nat /\ Fit(c)
  BY InvFit
<1>. HIDE DEF c
<1>3. Fit(d) /\ d \in Books
  <2>1. Fit(Settle(c, l))
    BY <1>2, SettleSound DEF Fit
  <2>2. Fit(d)
    BY <2>1, SettleSound DEF Fit
  <2>. QED  BY <2>2 DEF Fit, Sound
<1>. HIDE DEF d
<1>4. v[1] \in Nat /\ v[2] \in Nat
  BY <1>3, BalanceFits DEF Fit
<1>5. Withdrawable(d, u, out)
  <2>. HIDE DEF v
  <2>1. out \in Nat \X Nat /\ out[1] <= v[1] /\ out[2] <= v[2]
    <3>1. CASE part = 1
      BY <1>4, <3>1
    <3>2. CASE part = 2
      BY <1>4, <3>2
    <3>. QED  BY <3>1, <3>2
  <2>. HIDE DEF out
  <2>. QED  BY <2>1 DEF Withdrawable, v
<1>6. size \in Int
  <2>1. d.hold[u] \in Int /\ d.debt[u] \in Int
    BY <1>3, BooksFields
  <2>. HIDE DEF v
  <2>. QED  BY <1>4, <2>1
<1>7. Fit(e) /\ e \in Books
  <2>1. Fit(e)
    BY <1>2, <1>3, <1>5, WithdrawSound
  <2>. QED  BY <2>1 DEF Fit, Sound
<1>8. moved = [e EXCEPT !.hold = hold, !.start = start]
  OBVIOUS
<1>. HIDE DEF v, Size, Out, E, Moved, size, out, e, moved
<1>9. hold \in [Users -> Int] /\ start \in [Users -> Int]
  <2>1. e.hold \in [Users -> Int] /\ e.start \in [Users -> Int] /\ e.f \in Int
    BY <1>7, BooksFields
  <2>. QED  BY <1>6, <2>1
<1>. HIDE DEF hold, start
<1>10. moved \in Books /\ moved.lp = e.lp /\ moved.last = e.last /\ moved.m = e.m
  BY <1>7, <1>8, <1>9 DEF Books
<1>11. Fit(moved)
  BY <1>7, <1>10 DEF Fit, Sound, Provides
<1>. DEFINE S == IF part = 1 THEN Close(moved, u) ELSE {moved}
<1>12. \A x \in S : Sound(x) /\ x.last <= now
  <2>1. Sound(moved) /\ moved.last <= now
    BY <1>11 DEF Fit
  <2>. QED  BY <1>2, <1>11, <2>1, CloseSound
<1>13. Takes(S)
  BY <1>1 DEF moved
<1>. HIDE DEF S
<1>. QED  BY ONLY IInv, <1>12, <1>13, TakesKeeps

\* Every call keeps the invariant.
LEMMA InvStep ==
    ASSUME IInv, [Next]_<<now, book>>
    PROVE  IInv'
<1>0. /\ Fit(book) /\ now \in Nat /\ book.last <= now /\ book \in Books
      /\ Fit(UpdateFG(book))
  BY InvFit
<1>1. CASE NewBlock
  <2>1. now' = now + 1 /\ book' = book
    BY <1>1 DEF NewBlock
  <2>2. TypeOK'
    <3>1. book.last \in Nat
      BY <1>0, BooksFields
    <3>2. now' \in Nat /\ book'.last <= now'
      BY <1>0, <2>1, <3>1
    <3>. QED  BY <1>0, <2>1, <3>2 DEF TypeOK
  <2>. QED  BY <2>1, <2>2 DEF IInv, Sound, Provides, Det
<1>2. CASE UpdateFGKeeper
  <2>1. \A c \in {UpdateFG(book)} : Sound(c) /\ c.last <= now
    BY <1>0 DEF Fit
  <2>2. Takes({UpdateFG(book)})
    BY <1>2 DEF UpdateFGKeeper
  <2>. QED  BY ONLY IInv, <2>1, <2>2, TakesKeeps
<1>3. ASSUME NEW u \in Users, Takes({Settle(UpdateFG(book), u)})
      PROVE  IInv'
  <2>1. \A c \in {Settle(UpdateFG(book), u)} : Sound(c) /\ c.last <= now
    BY <1>0, SettleSound DEF Fit
  <2>. QED  BY ONLY IInv, <1>3, <2>1, TakesKeeps
<1>4. ASSUME NEW u \in Users, UpdateLpSnapshot(u)
      PROVE  IInv'
  BY <1>3, <1>4 DEF UpdateLpSnapshot
<1>5. ASSUME NEW u \in Users, ExecuteTrade(u)
      PROVE  IInv'
  BY <1>5, TradeKeeps
<1>6. ASSUME NEW u \in Users, AddLiquidity(u)
      PROVE  IInv'
  <2>1. PICK in \in Deposits : Takes({Deposit(book, u, in)})
    BY <1>6 DEF AddLiquidity
  <2>2. in \in Nat \X Nat
    BY InputsFit
  <2>3. \A c \in {Deposit(book, u, in)} : Sound(c) /\ c.last <= now
    BY <1>0, <2>2, DepositSound DEF Fit
  <2>. QED  BY ONLY IInv, <2>1, <2>3, TakesKeeps
<1>7. ASSUME NEW u \in Users, RemoveLiquidity(u)
      PROVE  IInv'
  BY <1>7, RemoveKeeps
<1>8. ASSUME NEW u \in Users, RealizePnL(u)
      PROVE  IInv'
  BY <1>3, <1>8 DEF RealizePnL
<1>9. ASSUME NEW u \in Users, CloseAndWithdraw(u)
      PROVE  IInv'
  <2>1. \A c \in Close(book, u) : Sound(c) /\ c.last <= now
    BY <1>0, CloseSound
  <2>2. Takes(Close(book, u))
    BY <1>9 DEF CloseAndWithdraw
  <2>. QED  BY ONLY IInv, <2>1, <2>2, TakesKeeps
<1>10. ASSUME NEW u \in Users, NEW l \in Users, Liquidate(l, u)
       PROVE  IInv'
  BY <1>10, LiquidateKeeps
<1>11. CASE UNCHANGED <<now, book>>
  BY <1>11 DEF IInv, TypeOK, Sound, Provides, Det
<1>. QED
  BY <1>1, <1>2, <1>4, <1>5, <1>6, <1>7, <1>8, <1>9, <1>10, <1>11 DEF Next

\* The first matrix is the identity, scaled.
LEMMA InvInit ==
    ASSUME Init
    PROVE  IInv
<1>1. Scale \in Nat /\ Scale > 0
  BY ScaleNonZero
<1>. DEFINE M == [s |-> <<Scale, 0>>, a |-> <<0, Scale>>]
            L == [u \in Users |-> NoPosition]
<1>2. M \in Rows /\ Det(M) > 0
  <2>1. M \in Rows
    BY <1>1 DEF Rows
  <2>2. Det(M) = Scale * Scale - 0 * 0
    BY DEF Det
  <2>3. Scale * Scale > 0
    BY <1>1
  <2>. QED  BY <1>1, <2>1, <2>2, <2>3
<1>3. Zero \in [Users -> Int] /\ Zero \in [Users -> Nat]
  BY DEF Zero
<1>4. L \in [Users -> Position] /\ \A u \in Users : L[u].v = <<0, 0>>
  BY DEF NoPosition, Position, Flat, Rows
<1>5. book = [last |-> 0, f |-> 0, g |-> <<0, 0>>, m |-> M,
              stable |-> 0, asset |-> 0, exposure |-> 0,
              hold |-> Zero, debt |-> Zero, lp |-> L,
              start |-> Zero, fee |-> Zero, paid |-> Zero] /\ now = 0
  BY DEF Init
<1>. HIDE DEF M, L
<1>6. book \in Books /\ book.last = 0 /\ book.lp = L /\ book.m = M
  BY <1>2, <1>3, <1>4, <1>5 DEF Books
<1>7. TypeOK
  BY <1>5, <1>6 DEF TypeOK
<1>8. Sound(book)
  BY <1>4, <1>6 DEF Sound, Provides
<1>. QED  BY <1>2, <1>6, <1>7, <1>8 DEF IInv

\* Types, and snapshots and the matrix invertible: inductive.
THEOREM Invariance == Spec => []IInv
<1>1. Init => IInv
  BY InvInit
<1>2. IInv /\ [Next]_<<now, book>> => IInv'
  BY InvStep
<1>. QED  BY <1>1, <1>2, PTL DEF Spec

\* The books keep their type: no debt, leg or balance below zero, and no
\* division by a determinant of zero on the way (funding.rs:216-354,
\* liquidity.rs:109-300, close.rs:13-153).
THEOREM TypeCorrect == Spec => []TypeOK
<1>1. IInv => TypeOK
  BY DEF IInv
<1>. QED  BY <1>1, Invariance, PTL

-----------------------------------------------------------------------------
(* What a margin check sees.                                               *)

\* The growth of the row is counted once, whether it is stored or not.
LEMMA RowsAgree ==
    ASSUME NEW g \in Int \X Int, NEW h \in Int \X Int, NEW a \in Int \X Int,
           NEW r \in Int
    PROVE  Add(Add(Add(g, Times(r, a)), h), Times(0, a)) = Add(Add(g, h), Times(r, a))
<1>. DEFINE x == r * a[1]
            y == r * a[2]
<1>1. x \in Int /\ y \in Int
  OBVIOUS
<1>2. Times(r, a) = <<x, y>> /\ Times(0, a) = <<0, 0>>
  BY DEF Times
<1>. HIDE DEF x, y
<1>. QED  BY <1>1, <1>2 DEF Add

\* After update_fg the check shows what a view showed before it.
LEMMA DueAgree ==
    ASSUME NEW c, Sound(c), now \in Nat, c.last <= now, NEW u \in Users
    PROVE  MarginDue(UpdateFG(c), u, UpdateFG(c).last) = Due(c, u)
<1>. DEFINE r == FundingRate(c)
            d == UpdateFG(c)
<1>1. c \in Books /\ c.f \in Int /\ c.g \in Int \X Int /\ c.m.a \in Int \X Int /\ r \in Int
  BY BooksFields, RateInt DEF Sound
<1>2. d.last = now /\ d.f = c.f + r /\ d.g = Add(c.g, Times(r, c.m.a)) /\ d \in Books
  <2>1. d \in Books
    BY UpdateFGSound DEF Sound
  <2>2. CASE c.last # now
    BY <1>1, <2>1, <2>2 DEF UpdateFG, Books
  <2>3. CASE c.last = now
    <3>1. Speed(c) \in Int /\ now - c.last = 0
      BY <1>1, <2>3, RateInt
    <3>2. r = 0
      BY <3>1 DEF FundingRate
    <3>3. d = c
      BY <2>3 DEF UpdateFG
    <3>4. Add(c.g, Times(0, c.m.a)) = c.g
      BY <1>1 DEF Add, Times
    <3>. QED  BY <1>1, <2>3, <3>2, <3>3, <3>4
  <2>. QED  BY <2>2, <2>3
<1>3. /\ d.lp = c.lp /\ d.m = c.m /\ d.hold = c.hold /\ d.debt = c.debt
      /\ d.start = c.start /\ d.fee = c.fee
  BY <1>1 DEF UpdateFG, Books
<1>. HIDE DEF d, r
<1>4. MarginDue(d, u, d.last) = d.fee[u] + FundingFee(d, u, d.f + 0)
  BY <1>2 DEF MarginDue
<1>5. d.f + 0 = c.f + r /\ (c.f + r) - d.f = 0 /\ (c.f + r) - c.f = r
  BY <1>1, <1>2
<1>6. Star(d, u, c.f + r) = Star(c, u, c.f + r)
  <2>1. CASE ~ Provides(c, u)
    BY <1>3, <2>1 DEF Star, Provides
  <2>2. CASE Provides(c, u)
    <3>. DEFINE p == c.lp[u]
                h == Times(-1, p.g)
    <3>1. h \in Int \X Int
      BY <1>1, TimesRow, BooksFields DEF Position
    <3>2. /\ Star(c, u, c.f + r)
              = Dot(Add(Add(c.g, h), Times((c.f + r) - c.f, c.m.a)), Start(p)) \div Det(p.m)
          /\ Star(d, u, c.f + r)
              = Dot(Add(Add(d.g, h), Times((c.f + r) - d.f, d.m.a)), Start(p)) \div Det(p.m)
      BY <1>3, <2>2 DEF Star, Provides
    <3>. HIDE DEF h, p
    <3>3. Add(Add(Add(c.g, Times(r, c.m.a)), h), Times(0, c.m.a))
            = Add(Add(c.g, h), Times(r, c.m.a))
      BY ONLY <1>1, <3>1, RowsAgree
    <3>. QED  BY <1>2, <1>3, <1>5, <3>2, <3>3
  <2>. QED  BY <2>1, <2>2
<1>7. FundingFee(d, u, c.f + r) = FundingFee(c, u, c.f + r)
  BY <1>3, <1>6 DEF FundingFee
<1>. QED  BY <1>3, <1>4, <1>5, <1>7 DEF Due, d, r

\* Nobody is liquidated for funding that no view showed: with any speeds,
\* matrices and delays, settling in the same call neither adds to the
\* funding of the victim nor counts it twice (liquidation.rs:65-83).
THEOREM LiquidatedForWhatIsDue == Spec => LiquidatedForDueFunding
<1>. DEFINE Shown == \A l, u \in Users : Liquidate(l, u) => Due(book, u) > Bearable
<1>1. IInv => [Shown]_<<now, book>>
  <2>. SUFFICES ASSUME IInv, NEW l \in Users, NEW u \in Users, Liquidate(l, u)
                PROVE  Due(book, u) > Bearable
    OBVIOUS
  <2>1. MarginDue(UpdateFG(book), u, UpdateFG(book).last) > Bearable
    BY DEF Liquidate, MarginFails
  <2>2. MarginDue(UpdateFG(book), u, UpdateFG(book).last) = Due(book, u)
    BY InvFit, DueAgree DEF Fit
  <2>. QED  BY <2>1, <2>2
<1>2. IInv /\ [Next]_<<now, book>> => [Shown]_<<now, book>>
  BY <1>1
<1>. QED  BY <1>2, Invariance, PTL DEF Spec, LiquidatedForDueFunding

-----------------------------------------------------------------------------
(* Shares of the pool, in whole numbers.                                   *)

\* A positive factor cancels.
LEMMA Cancel ==
    ASSUME NEW d \in Int, d > 0, NEW x \in Int, NEW y \in Int, d * x = d * y
    PROVE  x = y
<1>1. d * (x - y) = d * x - d * y
  OBVIOUS
<1>. QED  BY <1>1

\* A whole multiple comes out of a floor.
LEMMA FloorAdd ==
    ASSUME NEW n \in Int, NEW d \in Int, d > 0, NEW k \in Int
    PROVE  (n + d * k) \div d = n \div d + k
OBVIOUS

\* An exact quotient is not rounded,
LEMMA FloorExact ==
    ASSUME NEW d \in Int, d > 0, NEW k \in Int
    PROVE  (d * k) \div d = k
OBVIOUS

\* and a quotient without a rest gives the number back.
LEMMA FloorWhole ==
    ASSUME NEW n \in Int, NEW d \in Int, d > 0, n % d = 0
    PROVE  n = d * (n \div d)
OBVIOUS

\* The product with a row is linear.
LEMMA DotAdd ==
    ASSUME NEW x \in Int \X Int, NEW y \in Int \X Int, NEW v \in Int \X Int
    PROVE  Dot(Add(x, y), v) = Dot(x, v) + Dot(y, v)
BY DEF Dot, Add

LEMMA DotTimes ==
    ASSUME NEW k \in Int, NEW x \in Int \X Int, NEW v \in Int \X Int
    PROVE  Dot(Times(k, x), v) = k * Dot(x, v)
BY DEF Dot, Times

LEMMA DotMinus ==
    ASSUME NEW x \in Int \X Int, NEW v \in Int \X Int
    PROVE  Dot(Times(-1, x), v) = -Dot(x, v)
BY DEF Dot, Times

\* A new snapshot gives back the balance it was taken of.
LEMMA SnapshotExact ==
    ASSUME NEW m \in Rows, NEW v \in Nat \X Nat, NEW g \in Int \X Int
    PROVE  LET p == [v |-> v, m |-> m, g |-> g]
           IN  /\ Dot(m.s, Start(p)) = Det(m) * v[1]
               /\ Dot(m.a, Start(p)) = Det(m) * v[2]
BY DEF Rows, Dot, Start, Det

\* The part of a row that a trade moves, when the quotients are whole.
LEMMA Portion ==
    ASSUME NEW size \in Nat, NEW leg \in Nat, leg > 0, NEW r \in Int,
           (size * Scale) % leg = 0, (size * r) % leg = 0
    PROVE  /\ (((size * Scale) \div leg) * r) \div Scale \in Int
           /\ leg * ((((size * Scale) \div leg) * r) \div Scale) = size * r
<1>. DEFINE a == (size * Scale) \div leg
            k == (size * r) \div leg
<1>1. Scale \in Int /\ Scale > 0
  BY ScaleNonZero
<1>2. size * Scale \in Int /\ size * r \in Int
  BY <1>1
<1>3. size * Scale = leg * a /\ size * r = leg * k /\ a \in Int /\ k \in Int
  <2>. DEFINE n == size * Scale
              q == size * r
  <2>1. n \in Int /\ q \in Int /\ n % leg = 0 /\ q % leg = 0
    BY <1>2
  <2>. HIDE DEF n, q
  <2>2. n = leg * (n \div leg) /\ q = leg * (q \div leg)
    BY <2>1, FloorWhole
  <2>3. n \div leg \in Int /\ q \div leg \in Int
    BY <2>1
  <2>. QED  BY <2>2, <2>3 DEF n, q
<1>. HIDE DEF a, k
<1>4. leg * (a * r) = leg * (Scale * k)
  <2>1. leg * (a * r) = (leg * a) * r
    BY <1>3
  <2>2. (size * Scale) * r = Scale * (size * r)
    BY <1>1
  <2>3. Scale * (leg * k) = leg * (Scale * k)
    BY <1>1, <1>3
  <2>. QED  BY <1>3, <2>1, <2>2, <2>3
<1>5. a * r = Scale * k
  <2>1. a * r \in Int /\ Scale * k \in Int
    BY <1>1, <1>3
  <2>. QED  BY ONLY leg \in Nat, leg > 0, <1>4, <2>1, Cancel
<1>6. (a * r) \div Scale = k
  BY <1>1, <1>3, <1>5, FloorExact
<1>. QED  BY <1>3, <1>6 DEF a

\* What a trade of size out of a leg makes of a share y of the leg and of a
\* share z of the other one.
ShareOf(size, leg, det, y, z, n, y2, z2) ==
    /\ size \in Nat /\ leg \in Nat /\ size < leg /\ det \in Int /\ det > 0
    /\ y \in Nat /\ z \in Nat /\ n \in Int /\ leg * n = size * (det * y)
    /\ y2 \in Int /\ det * y - n = det * y2
    /\ z2 \in Int /\ det * z + n = det * z2

\* The leg shrinks by the part of the share, and the other leg grows by it.
LEMMA ShareMoved ==
    ASSUME NEW size, NEW leg, NEW det, NEW y, NEW z, NEW n, NEW y2, NEW z2,
           ShareOf(size, leg, det, y, z, n, y2, z2)
    PROVE  /\ leg * y2 = (leg - size) * y /\ leg * z2 = leg * z + size * y
           /\ y2 \in Nat /\ z2 \in Nat
<1>. /\ size \in Nat /\ leg \in Nat /\ size < leg /\ det \in Int /\ det > 0
     /\ y \in Nat /\ z \in Nat /\ n \in Int /\ leg * n = size * (det * y)
     /\ y2 \in Int /\ det * y - n = det * y2
     /\ z2 \in Int /\ det * z + n = det * z2
  BY DEF ShareOf
<1>1. det * (leg * y2) = det * ((leg - size) * y)
  <2>1. leg * (det * y - n) = leg * (det * y) - leg * n
    OBVIOUS
  <2>2. leg * (det * y) - size * (det * y) = det * ((leg - size) * y)
    OBVIOUS
  <2>3. leg * (det * y2) = det * (leg * y2)
    OBVIOUS
  <2>. QED  BY <2>1, <2>2, <2>3
<1>2. det * (leg * z2) = det * (leg * z + size * y)
  <2>1. leg * (det * z + n) = leg * (det * z) + leg * n
    OBVIOUS
  <2>2. leg * (det * z) + size * (det * y) = det * (leg * z + size * y)
    OBVIOUS
  <2>3. leg * (det * z2) = det * (leg * z2)
    OBVIOUS
  <2>. QED  BY <2>1, <2>2, <2>3
<1>3. leg * y2 = (leg - size) * y
  <2>1. leg * y2 \in Int /\ (leg - size) * y \in Int
    OBVIOUS
  <2>. QED  BY ONLY det \in Int, det > 0, <1>1, <2>1, Cancel
<1>4. leg * z2 = leg * z + size * y
  <2>1. leg * z2 \in Int /\ leg * z + size * y \in Int
    OBVIOUS
  <2>. QED  BY ONLY det \in Int, det > 0, <1>2, <2>1, Cancel
<1>5. y2 >= 0
  <2>1. (leg - size) * y >= 0
    OBVIOUS
  <2>2. leg * y2 >= 0
    BY <1>3, <2>1
  <2>. QED  BY ONLY size \in Nat, leg \in Nat, size < leg, y2 \in Int, <2>2
<1>6. z2 >= 0
  <2>1. leg * z >= 0 /\ size * y >= 0 /\ leg * z \in Int /\ size * y \in Int
    OBVIOUS
  <2>2. leg * z2 >= 0
    BY <1>4, <2>1
  <2>. QED  BY ONLY size \in Nat, leg \in Nat, size < leg, z2 \in Int, <2>2
<1>. QED  BY <1>3, <1>4, <1>5, <1>6

\* A sum scales with its elements.
LEMMA SumScaled ==
    ASSUME NEW f \in [Users -> Int], NEW k \in Int, NEW e \in [Users -> Int],
           \A u \in Users : e[u] = k * f[u]
    PROVE  SumFunction(e) = k * SumFunction(f)
<1>1. PICK n \in [Users -> Int] : SumFunction(n) = 0 /\ \A u \in Users : n[u] = 0
  <2>1. SumFunction([u \in Users |-> 0]) = 0
    BY UsersFinite, SumZero
  <2>. QED  BY <2>1
<1>2. \A u \in Users : k * f[u] \in Int
  OBVIOUS
<1>3. \A u \in Users : e[u] = n[u] + k * f[u]
  BY <1>1, <1>2
<1>4. SumFunction(e) = SumFunction(n) + k * SumFunction(f)
  BY ONLY UsersFinite, f \in [Users -> Int], k \in Int, e \in [Users -> Int],
          n \in [Users -> Int], <1>3, SumLinear
<1>5. k * SumFunction(f) \in Int
  BY UsersFinite, SumInt
<1>. QED  BY <1>1, <1>4, <1>5

\* The shares together: the leg shrinks by the size and the other one grows.
SharesOf(size, leg, other, Y, Z, Y2, Z2) ==
    /\ size \in Nat /\ leg \in Nat /\ size < leg /\ other \in Nat
    /\ Y \in [Users -> Nat] /\ Z \in [Users -> Nat]
    /\ Y2 \in [Users -> Nat] /\ Z2 \in [Users -> Nat]
    /\ SumFunction(Y) = leg /\ SumFunction(Z) = other
    /\ \A u \in Users : /\ leg * Y2[u] = (leg - size) * Y[u]
                         /\ leg * Z2[u] = leg * Z[u] + size * Y[u]

\* Shares that a trade moves in proportion add up to the legs after it.
LEMMA SharesMoved ==
    ASSUME NEW size, NEW leg, NEW other, NEW Y, NEW Z, NEW Y2, NEW Z2,
           SharesOf(size, leg, other, Y, Z, Y2, Z2)
    PROVE  SumFunction(Y2) = leg - size /\ SumFunction(Z2) = other + size
<1>. /\ size \in Nat /\ leg \in Nat /\ size < leg /\ other \in Nat
     /\ Y \in [Users -> Nat] /\ Z \in [Users -> Nat]
     /\ Y2 \in [Users -> Nat] /\ Z2 \in [Users -> Nat]
     /\ SumFunction(Y) = leg /\ SumFunction(Z) = other
     /\ \A u \in Users : /\ leg * Y2[u] = (leg - size) * Y[u]
                          /\ leg * Z2[u] = leg * Z[u] + size * Y[u]
  BY DEF SharesOf
<1>. DEFINE A == [u \in Users |-> leg * Y2[u]]
            B == [u \in Users |-> leg * Z2[u]]
            C == [u \in Users |-> leg * Z[u]]
<1>1. /\ A \in [Users -> Int] /\ B \in [Users -> Int] /\ C \in [Users -> Int]
      /\ Y \in [Users -> Int] /\ Z \in [Users -> Int]
      /\ Y2 \in [Users -> Int] /\ Z2 \in [Users -> Int]
  OBVIOUS
<1>2. \A u \in Users : A[u] = leg * Y2[u]
  OBVIOUS
<1>3. \A u \in Users : A[u] = (leg - size) * Y[u]
  OBVIOUS
<1>4. \A u \in Users : B[u] = leg * Z2[u]
  OBVIOUS
<1>5. \A u \in Users : B[u] = C[u] + size * Y[u]
  OBVIOUS
<1>6. \A u \in Users : C[u] = leg * Z[u]
  OBVIOUS
<1>7. leg \in Int /\ size \in Int /\ leg - size \in Int
  OBVIOUS
<1>. HIDE DEF A, B, C
<1>8. SumFunction(A) = leg * SumFunction(Y2)
  BY ONLY <1>1, <1>2, <1>7, SumScaled
<1>9. SumFunction(A) = (leg - size) * SumFunction(Y)
  BY ONLY <1>1, <1>3, <1>7, SumScaled
<1>10. SumFunction(B) = leg * SumFunction(Z2)
  BY ONLY <1>1, <1>4, <1>7, SumScaled
<1>11. SumFunction(B) = SumFunction(C) + size * SumFunction(Y)
  <2>1. B \in [Users -> Int] /\ C \in [Users -> Int] /\ Y \in [Users -> Int]
    BY <1>1
  <2>. QED  BY ONLY UsersFinite, <2>1, <1>5, <1>7, SumLinear
<1>12. SumFunction(C) = leg * SumFunction(Z)
  BY ONLY <1>1, <1>6, <1>7, SumScaled
<1>13. SumFunction(Y2) \in Int /\ SumFunction(Z2) \in Int
  BY ONLY UsersFinite, <1>1, SumInt
<1>14. leg * SumFunction(Y2) = leg * (leg - size)
  <2>1. (leg - size) * leg = leg * (leg - size)
    BY <1>7
  <2>. QED  BY <1>8, <1>9, <2>1
<1>15. leg * SumFunction(Z2) = leg * (other + size)
  <2>1. leg * other + size * leg = leg * (other + size)
    BY <1>7
  <2>. QED  BY <1>10, <1>11, <1>12, <2>1
<1>16. SumFunction(Y2) = leg - size
  BY ONLY leg \in Nat, size \in Nat, size < leg, <1>13, <1>14, Cancel
<1>17. SumFunction(Z2) = other + size
  BY ONLY leg \in Nat, size \in Nat, other \in Nat, size < leg, <1>13, <1>15, Cancel
<1>. QED  BY <1>16, <1>17

\* No summand is beyond the sum.
LEMMA SumMember ==
    ASSUME NEW f \in [Users -> Nat], NEW u \in Users
    PROVE  f[u] <= SumFunction(f)
<1>. DEFINE none == [w \in Users |-> 0]
            one == [w \in Users |-> IF w = u THEN f[u] ELSE 0]
<1>1. none \in [Users -> Int] /\ one \in [Users -> Int] /\ f \in [Users -> Int]
  OBVIOUS
<1>2. /\ \A w \in Users \ {u} : one[w] = none[w]
      /\ one[u] = f[u] /\ none[u] = 0
      /\ \A w \in Users : one[w] <= f[w]
  OBVIOUS
<1>3. SumFunction(none) = 0
  BY UsersFinite, SumZero
<1>. HIDE DEF none, one
<1>4. SumFunction(one) = SumFunction(none) + one[u] - none[u]
  BY ONLY UsersFinite, <1>1, <1>2, SumChanged
<1>5. SumFunction(one) <= SumFunction(f)
  BY ONLY UsersFinite, <1>1, <1>2, SumMonotone
<1>. QED  BY <1>2, <1>3, <1>4, <1>5

-----------------------------------------------------------------------------
(* The pool is the LPs'.                                                   *)

\* One leg of every account's balance.
Leg(c, i) == [u \in Users |-> LpBalance(c, u)[i]]

\* Every LP's balance is its share of the pool to the last unit, and the
\* balances of the LPs are all there is in the pool.
Sharing(c) ==
    /\ \A u \in Users : Provides(c, u) =>
        /\ Dot(c.m.s, Start(c.lp[u])) = Det(c.lp[u].m) * LpBalance(c, u)[1]
        /\ Dot(c.m.a, Start(c.lp[u])) = Det(c.lp[u].m) * LpBalance(c, u)[2]
    /\ SumFunction(Leg(c, 1)) = c.stable
    /\ SumFunction(Leg(c, 2)) = c.asset

\* Shares that add up to the legs are the balances: no clamp cuts them.
LEMMA SharesAre ==
    ASSUME NEW c, Sound(c), NEW X \in [Users -> Nat], NEW Y \in [Users -> Nat],
           \A u \in Users : Provides(c, u) =>
               /\ Dot(c.m.s, Start(c.lp[u])) = Det(c.lp[u].m) * X[u]
               /\ Dot(c.m.a, Start(c.lp[u])) = Det(c.lp[u].m) * Y[u],
           \A u \in Users : ~ Provides(c, u) => X[u] = 0 /\ Y[u] = 0,
           SumFunction(X) = c.stable, SumFunction(Y) = c.asset
    PROVE  /\ Sharing(c)
           /\ \A u \in Users : LpBalance(c, u) = <<X[u], Y[u]>>
<1>1. c \in Books
  BY DEF Sound
<1>2. ASSUME NEW u \in Users
      PROVE  LpBalance(c, u) = <<X[u], Y[u]>>
  <2>1. CASE ~ Provides(c, u)
    BY <2>1 DEF LpBalance
  <2>2. CASE Provides(c, u)
    <3>. DEFINE p == c.lp[u]
                det == Det(p.m)
                x == Dot(c.m.s, Start(p))
                y == Dot(c.m.a, Start(p))
    <3>1. LpBalance(c, u) = <<Clamped(x \div det, c.stable), Clamped(y \div det, c.asset)>>
      BY <2>2 DEF LpBalance
    <3>2. x = det * X[u] /\ y = det * Y[u]
      BY <2>2
    <3>3. p.m \in Rows
      BY <1>1, BooksFields DEF Position
    <3>4. det \in Int /\ det > 0
      BY <2>2, <3>3, DetInt DEF Sound
    <3>. HIDE DEF p, det, x, y
    <3>5. X[u] \in Nat /\ Y[u] \in Nat
      OBVIOUS
    <3>6. x \div det = X[u] /\ y \div det = Y[u]
      BY ONLY <3>2, <3>4, <3>5, FloorExact
    <3>7. X[u] <= c.stable /\ Y[u] <= c.asset
      BY SumMember
    <3>8. c.stable \in Nat /\ c.asset \in Nat
      BY <1>1, BooksFields
    <3>9. Clamped(X[u], c.stable) = X[u] /\ Clamped(Y[u], c.asset) = Y[u]
      BY <3>5, <3>7, <3>8 DEF Clamped
    <3>. QED  BY <3>1, <3>6, <3>9
  <2>. QED  BY <2>1, <2>2
<1>3. Leg(c, 1) = X /\ Leg(c, 2) = Y
  BY <1>2 DEF Leg
<1>4. \A u \in Users : LpBalance(c, u)[1] = X[u] /\ LpBalance(c, u)[2] = Y[u]
  BY <1>2
<1>5. Sharing(c)
  <2>1. ASSUME NEW u \in Users, Provides(c, u)
        PROVE  /\ Dot(c.m.s, Start(c.lp[u])) = Det(c.lp[u].m) * LpBalance(c, u)[1]
               /\ Dot(c.m.a, Start(c.lp[u])) = Det(c.lp[u].m) * LpBalance(c, u)[2]
    BY <1>4, <2>1
  <2>. QED  BY <1>3, <2>1 DEF Sharing
<1>. QED  BY <1>2, <1>5

\* The balances are naturals.
LEMMA LegsAre ==
    ASSUME NEW c, Sound(c)
    PROVE  /\ Leg(c, 1) \in [Users -> Nat] /\ Leg(c, 2) \in [Users -> Nat]
           /\ \A u \in Users : ~ Provides(c, u) => Leg(c, 1)[u] = 0 /\ Leg(c, 2)[u] = 0
           /\ \A u \in Users : Leg(c, 1)[u] = LpBalance(c, u)[1] /\ Leg(c, 2)[u] = LpBalance(c, u)[2]
           /\ \A u \in Users : LpBalance(c, u) = <<Leg(c, 1)[u], Leg(c, 2)[u]>>
<1>1. \A u \in Users : LpBalance(c, u) \in Nat \X Nat
  BY BalanceFits
<1>2. \A u \in Users : ~ Provides(c, u) => LpBalance(c, u)[1] = 0 /\ LpBalance(c, u)[2] = 0
  BY DEF LpBalance
<1>. QED  BY <1>1, <1>2 DEF Leg

\* A snapshot's balance and matrix: what the shares depend on.
SameSnapshot(p, q) == p.v = q.v /\ p.m = q.m

\* What is recovered from a snapshot depends on these.
LEMMA StartAgrees ==
    ASSUME NEW p, NEW q, SameSnapshot(p, q)
    PROVE  Start(p) = Start(q)
BY DEF SameSnapshot, Start

\* Nothing but the pool, its matrix and the snapshots makes a balance.
LEMMA SharesStay ==
    ASSUME NEW c, NEW d, Sound(c), Sound(d), Sharing(c),
           d.m = c.m, d.stable = c.stable, d.asset = c.asset,
           \A u \in Users : SameSnapshot(d.lp[u], c.lp[u])
    PROVE  Sharing(d) /\ \A u \in Users : LpBalance(d, u) = LpBalance(c, u)
<1>1. \A u \in Users : Start(d.lp[u]) = Start(c.lp[u]) /\ (Provides(d, u) <=> Provides(c, u))
                         /\ Det(d.lp[u].m) = Det(c.lp[u].m)
  BY StartAgrees DEF SameSnapshot, Provides
<1>2. \A u \in Users : LpBalance(d, u) = LpBalance(c, u)
  BY <1>1 DEF LpBalance
<1>3. Leg(d, 1) = Leg(c, 1) /\ Leg(d, 2) = Leg(c, 2)
  BY <1>2 DEF Leg
<1>4. ASSUME NEW u \in Users, Provides(d, u)
      PROVE  /\ Dot(d.m.s, Start(d.lp[u])) = Det(d.lp[u].m) * LpBalance(d, u)[1]
             /\ Dot(d.m.a, Start(d.lp[u])) = Det(d.lp[u].m) * LpBalance(d, u)[2]
  <2>1. Provides(c, u)
    BY <1>1, <1>4
  <2>2. /\ Dot(c.m.s, Start(c.lp[u])) = Det(c.lp[u].m) * LpBalance(c, u)[1]
        /\ Dot(c.m.a, Start(c.lp[u])) = Det(c.lp[u].m) * LpBalance(c, u)[2]
    BY <2>1 DEF Sharing
  <2>. QED  BY <1>1, <1>2, <2>2
<1>5. Sharing(d)
  BY <1>3, <1>4 DEF Sharing
<1>. QED  BY <1>2, <1>5

\* A new snapshot of one account gives it the balance that was written.
LEMMA Repositioned ==
    ASSUME NEW c, NEW d, Sound(c), Sound(d), Sharing(c), d.m = c.m, NEW u \in Users,
           NEW v \in Nat \X Nat, d.lp[u].v = v, v # <<0, 0>> => d.lp[u].m = c.m,
           \A w \in Users \ {u} : SameSnapshot(d.lp[w], c.lp[w]),
           d.stable = c.stable + v[1] - LpBalance(c, u)[1],
           d.asset = c.asset + v[2] - LpBalance(c, u)[2]
    PROVE  /\ Sharing(d) /\ LpBalance(d, u) = v
           /\ \A w \in Users \ {u} : LpBalance(d, w) = LpBalance(c, w)
<1>. DEFINE X == [Leg(c, 1) EXCEPT ![u] = v[1]]
            Y == [Leg(c, 2) EXCEPT ![u] = v[2]]
<1>1. /\ Leg(c, 1) \in [Users -> Nat] /\ Leg(c, 2) \in [Users -> Nat]
      /\ \A w \in Users : ~ Provides(c, w) => Leg(c, 1)[w] = 0 /\ Leg(c, 2)[w] = 0
      /\ \A w \in Users : LpBalance(c, w) = <<Leg(c, 1)[w], Leg(c, 2)[w]>>
      /\ \A w \in Users : Leg(c, 1)[w] = LpBalance(c, w)[1] /\ Leg(c, 2)[w] = LpBalance(c, w)[2]
  BY LegsAre
<1>2. v[1] \in Nat /\ v[2] \in Nat /\ v = <<v[1], v[2]>>
  OBVIOUS
<1>3. X \in [Users -> Nat] /\ Y \in [Users -> Nat] /\ X[u] = v[1] /\ Y[u] = v[2]
  BY <1>1, <1>2
<1>4. \A w \in Users \ {u} : X[w] = Leg(c, 1)[w] /\ Y[w] = Leg(c, 2)[w]
  BY <1>1
<1>. HIDE DEF X, Y
<1>5. SumFunction(X) = d.stable
  <2>1. SumFunction(X) = SumFunction(Leg(c, 1)) + X[u] - Leg(c, 1)[u]
    <3>1. X \in [Users -> Int] /\ Leg(c, 1) \in [Users -> Int]
      BY <1>1, <1>3
    <3>2. \A w \in Users \ {u} : X[w] = Leg(c, 1)[w]
      BY <1>4
    <3>. QED  BY ONLY UsersFinite, u \in Users, <3>1, <3>2, SumChanged
  <2>. QED  BY <1>1, <1>3, <2>1 DEF Sharing
<1>6. SumFunction(Y) = d.asset
  <2>1. SumFunction(Y) = SumFunction(Leg(c, 2)) + Y[u] - Leg(c, 2)[u]
    <3>1. Y \in [Users -> Int] /\ Leg(c, 2) \in [Users -> Int]
      BY <1>1, <1>3
    <3>2. \A w \in Users \ {u} : Y[w] = Leg(c, 2)[w]
      BY <1>4
    <3>. QED  BY ONLY UsersFinite, u \in Users, <3>1, <3>2, SumChanged
  <2>. QED  BY <1>1, <1>3, <2>1 DEF Sharing
<1>7. ASSUME NEW w \in Users, Provides(d, w)
      PROVE  /\ Dot(d.m.s, Start(d.lp[w])) = Det(d.lp[w].m) * X[w]
             /\ Dot(d.m.a, Start(d.lp[w])) = Det(d.lp[w].m) * Y[w]
  <2>1. CASE w = u
    <3>1. v # <<0, 0>> /\ d.lp[u].m = c.m
      BY <1>7, <2>1 DEF Provides
    <3>2. c.m \in Rows
      BY BooksFields DEF Sound
    <3>. DEFINE p == [v |-> v, m |-> c.m, g |-> <<0, 0>>]
    <3>3. Start(p) = Start(d.lp[u])
      BY <3>1, StartAgrees DEF SameSnapshot
    <3>4. Dot(c.m.s, Start(p)) = Det(c.m) * v[1] /\ Dot(c.m.a, Start(p)) = Det(c.m) * v[2]
      <4>1. <<0, 0>> \in Int \X Int
        OBVIOUS
      <4>. QED  BY <3>2, <4>1, SnapshotExact
    <3>. QED  BY <1>3, <2>1, <3>1, <3>3, <3>4
  <2>2. CASE w # u
    <3>1. /\ Start(d.lp[w]) = Start(c.lp[w]) /\ Provides(c, w) /\ d.lp[w].m = c.lp[w].m
      BY <1>7, <2>2, StartAgrees DEF SameSnapshot, Provides
    <3>2. /\ Dot(c.m.s, Start(c.lp[w])) = Det(c.lp[w].m) * LpBalance(c, w)[1]
          /\ Dot(c.m.a, Start(c.lp[w])) = Det(c.lp[w].m) * LpBalance(c, w)[2]
      BY <3>1 DEF Sharing
    <3>3. X[w] = LpBalance(c, w)[1] /\ Y[w] = LpBalance(c, w)[2]
      BY <1>1, <1>4, <2>2
    <3>. QED  BY <3>1, <3>2, <3>3
  <2>. QED  BY <2>1, <2>2
<1>8. ASSUME NEW w \in Users, ~ Provides(d, w)
      PROVE  X[w] = 0 /\ Y[w] = 0
  <2>1. CASE w = u
    <3>1. v = <<0, 0>>
      BY <1>8, <2>1 DEF Provides
    <3>. QED  BY <1>3, <2>1, <3>1
  <2>2. CASE w # u
    <3>1. ~ Provides(c, w)
      BY <1>8, <2>2 DEF SameSnapshot, Provides
    <3>. QED  BY <1>1, <1>4, <2>2, <3>1
  <2>. QED  BY <2>1, <2>2
<1>9. Sharing(d) /\ \A w \in Users : LpBalance(d, w) = <<X[w], Y[w]>>
  BY ONLY Sound(d), <1>3, <1>5, <1>6, <1>7, <1>8, SharesAre
<1>10. LpBalance(d, u) = v
  BY <1>2, <1>3, <1>9
<1>11. \A w \in Users \ {u} : LpBalance(d, w) = LpBalance(c, w)
  BY <1>1, <1>4, <1>9
<1>. QED  BY <1>9, <1>10, <1>11

\* A trade of size that takes the part x of one row to the other one, from a
\* leg with the shares Y to the other leg with the shares Z.
Trading(c, size, leg, other, x, from, to, Y, Z) ==
    /\ size \in Nat /\ leg \in Nat /\ other \in Nat /\ size < leg
    /\ x \in Int \X Int /\ from \in Int \X Int /\ to \in Int \X Int
    /\ leg * x[1] = size * from[1] /\ leg * x[2] = size * from[2]
    /\ Y \in [Users -> Nat] /\ Z \in [Users -> Nat]
    /\ SumFunction(Y) = leg /\ SumFunction(Z) = other
    /\ \A u \in Users : ~ Provides(c, u) => Y[u] = 0 /\ Z[u] = 0
    /\ \A u \in Users : Provides(c, u) =>
        /\ Dot(from, Start(c.lp[u])) = Det(c.lp[u].m) * Y[u]
        /\ Dot(to, Start(c.lp[u])) = Det(c.lp[u].m) * Z[u]
        /\ Dot(Add(from, Times(-1, x)), Start(c.lp[u])) % Det(c.lp[u].m) = 0
        /\ Dot(Add(to, x), Start(c.lp[u])) % Det(c.lp[u].m) = 0

\* The shares after it.
LEMMA SharesTraded ==
    ASSUME NEW c, Sound(c), NEW size, NEW leg, NEW other, NEW x, NEW from, NEW to,
           NEW Y, NEW Z, Trading(c, size, leg, other, x, from, to, Y, Z)
    PROVE  \E Y2, Z2 \in [Users -> Nat] :
               /\ SumFunction(Y2) = leg - size /\ SumFunction(Z2) = other + size
               /\ \A u \in Users : ~ Provides(c, u) => Y2[u] = 0 /\ Z2[u] = 0
               /\ \A u \in Users : Provides(c, u) =>
                   /\ Dot(Add(from, Times(-1, x)), Start(c.lp[u])) = Det(c.lp[u].m) * Y2[u]
                   /\ Dot(Add(to, x), Start(c.lp[u])) = Det(c.lp[u].m) * Z2[u]
<1>0. /\ size \in Nat /\ leg \in Nat /\ other \in Nat /\ size < leg
      /\ x \in Int \X Int /\ from \in Int \X Int /\ to \in Int \X Int
      /\ leg * x[1] = size * from[1] /\ leg * x[2] = size * from[2]
      /\ Y \in [Users -> Nat] /\ Z \in [Users -> Nat]
      /\ SumFunction(Y) = leg /\ SumFunction(Z) = other
      /\ \A u \in Users : ~ Provides(c, u) => Y[u] = 0 /\ Z[u] = 0
  BY DEF Trading
<1>1. c \in Books
  BY DEF Sound
<1>. DEFINE Part(row, u) == IF Provides(c, u) THEN Dot(row, Start(c.lp[u])) \div Det(c.lp[u].m) ELSE 0
            Y2 == [u \in Users |-> Part(Add(from, Times(-1, x)), u)]
            Z2 == [u \in Users |-> Part(Add(to, x), u)]
<1>2. ASSUME NEW u \in Users, Provides(c, u)
      PROVE  /\ Y2[u] \in Nat /\ Z2[u] \in Nat
             /\ leg * Y2[u] = (leg - size) * Y[u]
             /\ leg * Z2[u] = leg * Z[u] + size * Y[u]
             /\ Dot(Add(from, Times(-1, x)), Start(c.lp[u])) = Det(c.lp[u].m) * Y2[u]
             /\ Dot(Add(to, x), Start(c.lp[u])) = Det(c.lp[u].m) * Z2[u]
  <2>. DEFINE det == Det(c.lp[u].m)
              st == Start(c.lp[u])
              n == Dot(x, st)
              y2 == Dot(Add(from, Times(-1, x)), st) \div det
              z2 == Dot(Add(to, x), st) \div det
  <2>1. c.lp[u] \in Position /\ c.lp[u].m \in Rows
    BY <1>1, BooksFields DEF Position
  <2>2. det \in Int /\ det > 0
    BY <1>2, <2>1, DetInt DEF Sound
  <2>3. st \in Int \X Int
    BY <2>1, StartRow
  <2>4. Times(-1, x) \in Int \X Int
    BY <1>0, TimesRow
  <2>5. /\ Dot(from, st) = det * Y[u] /\ Dot(to, st) = det * Z[u]
        /\ Dot(Add(from, Times(-1, x)), st) % det = 0 /\ Dot(Add(to, x), st) % det = 0
    BY <1>2 DEF Trading
  <2>6. Y2[u] = y2 /\ Z2[u] = z2
    BY <1>2
  <2>7. leg * n = size * Dot(from, st)
    <3>1. n = x[1] * st[1] + x[2] * st[2] /\ Dot(from, st) = from[1] * st[1] + from[2] * st[2]
      BY DEF Dot
    <3>2. x[1] \in Int /\ x[2] \in Int /\ from[1] \in Int /\ from[2] \in Int
          /\ st[1] \in Int /\ st[2] \in Int
      BY <1>0, <2>3
    <3>. HIDE DEF n, st
    <3>3. leg * (x[1] * st[1] + x[2] * st[2]) = (leg * x[1]) * st[1] + (leg * x[2]) * st[2]
      BY ONLY <1>0, <3>2
    <3>4. (size * from[1]) * st[1] + (size * from[2]) * st[2] = size * (from[1] * st[1] + from[2] * st[2])
      BY ONLY <1>0, <3>2
    <3>5. leg * x[1] = size * from[1] /\ leg * x[2] = size * from[2]
      BY <1>0
    <3>. QED  BY ONLY <3>1, <3>3, <3>4, <3>5
  <2>. HIDE DEF st, det, n
  <2>8. n \in Int /\ Dot(from, st) \in Int /\ Dot(to, st) \in Int
    BY <1>0, <2>3, DotInt DEF n
  <2>9. /\ Dot(Add(from, Times(-1, x)), st) = det * Y[u] - n
        /\ Dot(Add(to, x), st) = det * Z[u] + n
    <3>1. Dot(Times(-1, x), st) = -n
      BY <1>0, <2>3, DotMinus DEF n
    <3>2. Dot(Add(from, Times(-1, x)), st) = Dot(from, st) + Dot(Times(-1, x), st)
      BY <1>0, <2>3, <2>4, DotAdd
    <3>3. Dot(Add(to, x), st) = Dot(to, st) + n
      BY <1>0, <2>3, DotAdd DEF n
    <3>. QED  BY <2>5, <2>8, <3>1, <3>2, <3>3
  <2>10. /\ det * Y[u] - n \in Int /\ det * Z[u] + n \in Int
    BY <2>5, <2>8
  <2>11. /\ det * Y[u] - n = det * y2 /\ det * Z[u] + n = det * z2
         /\ y2 \in Int /\ z2 \in Int
    <3>. DEFINE a == det * Y[u] - n
                b == det * Z[u] + n
    <3>1. y2 = a \div det /\ z2 = b \div det /\ a % det = 0 /\ b % det = 0
      BY <2>5, <2>9
    <3>2. a \in Int /\ b \in Int
      BY <2>10
    <3>. HIDE DEF a, b, y2, z2
    <3>3. a = det * y2 /\ b = det * z2
      BY <2>2, <3>1, <3>2, FloorWhole
    <3>4. y2 \in Int /\ z2 \in Int
      BY <2>2, <3>1, <3>2, DivInt
    <3>. QED  BY <3>3, <3>4 DEF a, b
  <2>. HIDE DEF y2, z2
  <2>12. Y[u] \in Nat /\ Z[u] \in Nat
    BY <1>0
  <2>13. leg * n = size * (det * Y[u])
    BY <2>5, <2>7
  <2>14. /\ leg * y2 = (leg - size) * Y[u] /\ leg * z2 = leg * Z[u] + size * Y[u]
         /\ y2 \in Nat /\ z2 \in Nat
    <3>. DEFINE y == Y[u]
                z == Z[u]
    <3>1. ShareOf(size, leg, det, y, z, n, y2, z2)
      BY <1>0, <2>2, <2>8, <2>11, <2>12, <2>13 DEF ShareOf
    <3>. HIDE DEF y, z
    <3>2. /\ leg * y2 = (leg - size) * y /\ leg * z2 = leg * z + size * y
          /\ y2 \in Nat /\ z2 \in Nat
      BY ONLY <3>1, ShareMoved
    <3>. QED  BY <3>2 DEF y, z
  <2>15. /\ Dot(Add(from, Times(-1, x)), st) = det * y2 /\ Dot(Add(to, x), st) = det * z2
    BY <2>9, <2>11
  <2>. HIDE DEF Y2, Z2
  <2>. QED  BY <2>6, <2>14, <2>15 DEF st, det
<1>3. ASSUME NEW u \in Users, ~ Provides(c, u)
      PROVE  Y2[u] = 0 /\ Z2[u] = 0 /\ Y[u] = 0 /\ Z[u] = 0
  BY <1>0, <1>3
<1>4. /\ Y2 = [u \in Users |-> Y2[u]] /\ Z2 = [u \in Users |-> Z2[u]]
  OBVIOUS
<1>. HIDE DEF Y2, Z2
<1>5. \A u \in Users : Y2[u] \in Nat /\ Z2[u] \in Nat
  BY <1>2, <1>3
<1>6. Y2 \in [Users -> Nat] /\ Z2 \in [Users -> Nat]
  BY <1>4, <1>5
<1>7. \A u \in Users : /\ leg * Y2[u] = (leg - size) * Y[u]
                       /\ leg * Z2[u] = leg * Z[u] + size * Y[u]
  <2>. SUFFICES ASSUME NEW u \in Users
                PROVE  /\ leg * Y2[u] = (leg - size) * Y[u]
                       /\ leg * Z2[u] = leg * Z[u] + size * Y[u]
    OBVIOUS
  <2>1. CASE Provides(c, u)
    BY <1>2, <2>1
  <2>2. CASE ~ Provides(c, u)
    <3>1. Y2[u] = 0 /\ Z2[u] = 0 /\ Y[u] = 0 /\ Z[u] = 0
      BY <1>3, <2>2
    <3>. QED  BY ONLY <1>0, <3>1
  <2>. QED  BY <2>1, <2>2
<1>8. SumFunction(Y2) = leg - size /\ SumFunction(Z2) = other + size
  <2>1. SharesOf(size, leg, other, Y, Z, Y2, Z2)
    BY <1>0, <1>6, <1>7 DEF SharesOf
  <2>. QED  BY ONLY <2>1, SharesMoved
<1>. QED  BY <1>2, <1>3, <1>6, <1>8

\* A long takes its size out of the asset leg of every LP alike.
LEMMA LongShares ==
    ASSUME NEW c, Sound(c), Sharing(c), NEW size \in Nat, size < c.asset,
           Whole(c, c.asset, c.m.a, size), Shares(Long(c, size))
    PROVE  Sharing(Long(c, size))
<1>. DEFINE d == Long(c, size)
            a == (size * Scale) \div c.asset
            x == <<(a * c.m.a[1]) \div Scale, (a * c.m.a[2]) \div Scale>>
            m == [s |-> Add(c.m.s, x), a |-> Add(c.m.a, Times(-1, x))]
            Z == Leg(c, 1)
            Y == Leg(c, 2)
<1>1. /\ c \in Books /\ c.stable \in Nat /\ c.asset \in Nat
      /\ c.m.s \in Int \X Int /\ c.m.a \in Int \X Int
  BY BooksFields DEF Sound
<1>2. Sound(d)
  BY LongSound
<1>3. /\ d.lp = c.lp /\ d.m.s = Add(c.m.s, x) /\ d.m.a = Add(c.m.a, Times(-1, x))
      /\ d.stable = c.stable + size /\ d.asset = c.asset - size
  <2>1. d = [c EXCEPT !.m = m, !.stable = c.stable + size, !.asset = c.asset - size]
    BY <1>1 DEF Long, Books
  <2>2. m.s = Add(c.m.s, x) /\ m.a = Add(c.m.a, Times(-1, x))
    OBVIOUS
  <2>. HIDE DEF m, x, d
  <2>. QED  BY <1>1, <2>1, <2>2 DEF Books
<1>4. /\ x \in Int \X Int
      /\ c.asset * x[1] = size * c.m.a[1] /\ c.asset * x[2] = size * c.m.a[2]
  <2>1. /\ c.m.a[1] \in Int /\ c.m.a[2] \in Int /\ c.asset > 0
        /\ (size * Scale) % c.asset = 0
        /\ (size * c.m.a[1]) % c.asset = 0 /\ (size * c.m.a[2]) % c.asset = 0
    BY <1>1 DEF Whole
  <2>2. /\ (a * c.m.a[1]) \div Scale \in Int
        /\ c.asset * ((a * c.m.a[1]) \div Scale) = size * c.m.a[1]
    BY ONLY size \in Nat, <1>1, <2>1, Portion
  <2>3. /\ (a * c.m.a[2]) \div Scale \in Int
        /\ c.asset * ((a * c.m.a[2]) \div Scale) = size * c.m.a[2]
    BY ONLY size \in Nat, <1>1, <2>1, Portion
  <2>. HIDE DEF a
  <2>. QED  BY <2>2, <2>3
<1>. HIDE DEF x, d
<1>5. /\ Y \in [Users -> Nat] /\ Z \in [Users -> Nat]
      /\ \A u \in Users : ~ Provides(c, u) => Y[u] = 0 /\ Z[u] = 0
      /\ \A u \in Users : Z[u] = LpBalance(c, u)[1] /\ Y[u] = LpBalance(c, u)[2]
  BY LegsAre
<1>6. SumFunction(Y) = c.asset /\ SumFunction(Z) = c.stable
  BY DEF Sharing
<1>. HIDE DEF Y, Z
<1>7. ASSUME NEW u \in Users, Provides(c, u)
      PROVE  /\ Dot(c.m.a, Start(c.lp[u])) = Det(c.lp[u].m) * Y[u]
             /\ Dot(c.m.s, Start(c.lp[u])) = Det(c.lp[u].m) * Z[u]
             /\ Dot(Add(c.m.a, Times(-1, x)), Start(c.lp[u])) % Det(c.lp[u].m) = 0
             /\ Dot(Add(c.m.s, x), Start(c.lp[u])) % Det(c.lp[u].m) = 0
  <2>1. Provides(d, u)
    BY <1>3, <1>7 DEF Provides
  <2>2. /\ Dot(d.m.s, Start(d.lp[u])) % Det(d.lp[u].m) = 0
        /\ Dot(d.m.a, Start(d.lp[u])) % Det(d.lp[u].m) = 0
    BY <2>1 DEF Shares, d
  <2>. QED  BY <1>3, <1>5, <1>7, <2>2 DEF Sharing
<1>9. PICK Y2 \in [Users -> Nat], Z2 \in [Users -> Nat] :
          /\ SumFunction(Y2) = c.asset - size /\ SumFunction(Z2) = c.stable + size
          /\ \A u \in Users : ~ Provides(c, u) => Y2[u] = 0 /\ Z2[u] = 0
          /\ \A u \in Users : Provides(c, u) =>
              /\ Dot(Add(c.m.a, Times(-1, x)), Start(c.lp[u])) = Det(c.lp[u].m) * Y2[u]
              /\ Dot(Add(c.m.s, x), Start(c.lp[u])) = Det(c.lp[u].m) * Z2[u]
  <2>1. Trading(c, size, c.asset, c.stable, x, c.m.a, c.m.s, Y, Z)
    BY <1>1, <1>4, <1>5, <1>6, <1>7 DEF Trading
  <2>. QED  BY ONLY Sound(c), <2>1, SharesTraded
<1>10. \A u \in Users : Provides(d, u) <=> Provides(c, u)
  BY <1>3 DEF Provides
<1>11. Sharing(d)
  BY <1>2, <1>3, <1>9, <1>10, SharesAre
<1>. QED  BY <1>11 DEF d
\* A short takes its size out of the stable leg of every LP alike.
LEMMA ShortShares ==
    ASSUME NEW c, Sound(c), Sharing(c), NEW size \in Nat, size < c.stable,
           Whole(c, c.stable, c.m.s, size), Shares(Short(c, size))
    PROVE  Sharing(Short(c, size))
<1>. DEFINE d == Short(c, size)
            a == (size * Scale) \div c.stable
            x == <<(a * c.m.s[1]) \div Scale, (a * c.m.s[2]) \div Scale>>
            m == [s |-> Add(c.m.s, Times(-1, x)), a |-> Add(c.m.a, x)]
            Y == Leg(c, 1)
            Z == Leg(c, 2)
<1>1. /\ c \in Books /\ c.stable \in Nat /\ c.asset \in Nat
      /\ c.m.s \in Int \X Int /\ c.m.a \in Int \X Int
  BY BooksFields DEF Sound
<1>2. Sound(d)
  BY ShortSound
<1>3. /\ d.lp = c.lp /\ d.m.s = Add(c.m.s, Times(-1, x)) /\ d.m.a = Add(c.m.a, x)
      /\ d.stable = c.stable - size /\ d.asset = c.asset + size
  <2>1. d = [c EXCEPT !.m = m, !.stable = c.stable - size, !.asset = c.asset + size]
    BY <1>1 DEF Short, Books
  <2>2. m.s = Add(c.m.s, Times(-1, x)) /\ m.a = Add(c.m.a, x)
    OBVIOUS
  <2>. HIDE DEF m, x, d
  <2>. QED  BY <1>1, <2>1, <2>2 DEF Books
<1>4. /\ x \in Int \X Int
      /\ c.stable * x[1] = size * c.m.s[1] /\ c.stable * x[2] = size * c.m.s[2]
  <2>1. /\ c.m.s[1] \in Int /\ c.m.s[2] \in Int /\ c.stable > 0
        /\ (size * Scale) % c.stable = 0
        /\ (size * c.m.s[1]) % c.stable = 0 /\ (size * c.m.s[2]) % c.stable = 0
    BY <1>1 DEF Whole
  <2>2. /\ (a * c.m.s[1]) \div Scale \in Int
        /\ c.stable * ((a * c.m.s[1]) \div Scale) = size * c.m.s[1]
    BY ONLY size \in Nat, <1>1, <2>1, Portion
  <2>3. /\ (a * c.m.s[2]) \div Scale \in Int
        /\ c.stable * ((a * c.m.s[2]) \div Scale) = size * c.m.s[2]
    BY ONLY size \in Nat, <1>1, <2>1, Portion
  <2>. HIDE DEF a
  <2>. QED  BY <2>2, <2>3
<1>. HIDE DEF x, d
<1>5. /\ Y \in [Users -> Nat] /\ Z \in [Users -> Nat]
      /\ \A u \in Users : ~ Provides(c, u) => Y[u] = 0 /\ Z[u] = 0
      /\ \A u \in Users : Y[u] = LpBalance(c, u)[1] /\ Z[u] = LpBalance(c, u)[2]
  BY LegsAre
<1>6. SumFunction(Y) = c.stable /\ SumFunction(Z) = c.asset
  BY DEF Sharing
<1>. HIDE DEF Y, Z
<1>7. ASSUME NEW u \in Users, Provides(c, u)
      PROVE  /\ Dot(c.m.s, Start(c.lp[u])) = Det(c.lp[u].m) * Y[u]
             /\ Dot(c.m.a, Start(c.lp[u])) = Det(c.lp[u].m) * Z[u]
             /\ Dot(Add(c.m.s, Times(-1, x)), Start(c.lp[u])) % Det(c.lp[u].m) = 0
             /\ Dot(Add(c.m.a, x), Start(c.lp[u])) % Det(c.lp[u].m) = 0
  <2>1. Provides(d, u)
    BY <1>3, <1>7 DEF Provides
  <2>2. /\ Dot(d.m.s, Start(d.lp[u])) % Det(d.lp[u].m) = 0
        /\ Dot(d.m.a, Start(d.lp[u])) % Det(d.lp[u].m) = 0
    BY <2>1 DEF Shares, d
  <2>. QED  BY <1>3, <1>5, <1>7, <2>2 DEF Sharing
<1>9. PICK Y2 \in [Users -> Nat], Z2 \in [Users -> Nat] :
          /\ SumFunction(Y2) = c.stable - size /\ SumFunction(Z2) = c.asset + size
          /\ \A u \in Users : ~ Provides(c, u) => Y2[u] = 0 /\ Z2[u] = 0
          /\ \A u \in Users : Provides(c, u) =>
              /\ Dot(Add(c.m.s, Times(-1, x)), Start(c.lp[u])) = Det(c.lp[u].m) * Y2[u]
              /\ Dot(Add(c.m.a, x), Start(c.lp[u])) = Det(c.lp[u].m) * Z2[u]
  <2>1. Trading(c, size, c.stable, c.asset, x, c.m.s, c.m.a, Y, Z)
    BY <1>1, <1>4, <1>5, <1>6, <1>7 DEF Trading
  <2>. QED  BY ONLY Sound(c), <2>1, SharesTraded
<1>10. \A u \in Users : Provides(d, u) <=> Provides(c, u)
  BY <1>3 DEF Provides
<1>11. Sharing(d)
  BY <1>2, <1>3, <1>9, <1>10, SharesAre
<1>. QED  BY <1>11 DEF d

-----------------------------------------------------------------------------
(* What is due.                                                            *)

\* What the LP part has grown by at the stored row.
Growth(c, u) ==
    IF Provides(c, u)
    THEN Dot(Add(c.g, Times(-1, c.lp[u].g)), Start(c.lp[u])) \div Det(c.lp[u].m)
    ELSE 0

\* From there on it grows with the index by the asset balance of the LP.
LEMMA StarGrows ==
    ASSUME NEW c, Sound(c), Sharing(c), NEW u \in Users, NEW f \in Int
    PROVE  /\ Growth(c, u) \in Int
           /\ Star(c, u, f) = Growth(c, u) + (f - c.f) * LpBalance(c, u)[2]
<1>1. c \in Books /\ c.f \in Int
  BY BooksFields DEF Sound
<1>2. CASE ~ Provides(c, u)
  <2>1. LpBalance(c, u)[2] = 0
    BY <1>2 DEF LpBalance
  <2>2. Growth(c, u) = 0 /\ Star(c, u, f) = 0
    BY <1>2 DEF Growth, Star
  <2>. QED  BY <1>1, <2>1, <2>2
<1>3. CASE Provides(c, u)
  <2>. DEFINE p == c.lp[u]
              det == Det(p.m)
              st == Start(p)
              h == Add(c.g, Times(-1, p.g))
              k == f - c.f
              b == LpBalance(c, u)[2]
  <2>1. p \in Position /\ p.m \in Rows /\ p.g \in Int \X Int /\ c.g \in Int \X Int /\ c.m.a \in Int \X Int
    BY <1>1, BooksFields DEF Position
  <2>2. det \in Int /\ det > 0
    BY <1>3, <2>1, DetInt DEF Sound
  <2>3. st \in Int \X Int /\ h \in Int \X Int
    BY <2>1, StartRow, TimesRow, AddRow
  <2>4. Dot(c.m.a, st) = det * b
    BY <1>3 DEF Sharing
  <2>5. b \in Int /\ k \in Int
    BY <1>1, BalanceFits
  <2>6. Growth(c, u) = Dot(h, st) \div det /\ Star(c, u, f) = Dot(Add(h, Times(k, c.m.a)), st) \div det
    BY <1>3 DEF Growth, Star
  <2>. HIDE DEF st, det, h, k, b, p
  <2>7. Times(k, c.m.a) \in Int \X Int
    BY <2>1, <2>5, TimesRow
  <2>8. Dot(Add(h, Times(k, c.m.a)), st) = Dot(h, st) + det * (k * b)
    <3>1. Dot(Add(h, Times(k, c.m.a)), st) = Dot(h, st) + Dot(Times(k, c.m.a), st)
      BY <2>3, <2>7, DotAdd
    <3>2. Dot(Times(k, c.m.a), st) = k * Dot(c.m.a, st)
      BY <2>1, <2>3, <2>5, DotTimes
    <3>3. k * (det * b) = det * (k * b)
      BY ONLY <2>2, <2>5
    <3>. QED  BY <2>4, <3>1, <3>2, <3>3
  <2>9. Dot(h, st) \in Int /\ k * b \in Int
    BY <2>3, <2>5, DotInt
  <2>10. (Dot(h, st) + det * (k * b)) \div det = Dot(h, st) \div det + k * b
    <3>. DEFINE n == Dot(h, st)
                j == k * b
    <3>1. n \in Int /\ j \in Int
      BY <2>9
    <3>. HIDE DEF n, j
    <3>2. (n + det * j) \div det = n \div det + j
      BY ONLY <2>2, <3>1, FloorAdd
    <3>. QED  BY <3>2 DEF n, j
  <2>11. Dot(h, st) \div det \in Int
    BY <2>2, <2>9, DivInt
  <2>12. Growth(c, u) \in Int
    BY <2>6, <2>11
  <2>13. Star(c, u, f) = Growth(c, u) + k * b
    BY <2>6, <2>8, <2>10
  <2>. QED  BY <2>12, <2>13 DEF k, b
<1>. QED  BY <1>2, <1>3

\* What is due at the time of the last operation.
Settling(c, u) == c.fee[u] + FundingFee(c, u, c.f)

\* It is what a view shows then.
LEMMA DueNow ==
    ASSUME NEW c, Sound(c), now \in Nat, c.last = now, NEW u \in Users
    PROVE  Due(c, u) = Settling(c, u)
<1>1. c \in Books /\ c.f \in Int /\ Speed(c) \in Int
  BY BooksFields, RateInt DEF Sound
<1>2. FundingRate(c) = 0
  BY <1>1 DEF FundingRate
<1>3. c.f + FundingRate(c) = c.f
  BY <1>1, <1>2
<1>. QED  BY <1>3 DEF Due, Settling

\* An account whose cells make the same fee.
Untouched(c, d, u) ==
    /\ d.lp[u] = c.lp[u] /\ d.start[u] = c.start[u] /\ d.fee[u] = c.fee[u]
    /\ d.hold[u] - d.debt[u] = c.hold[u] - c.debt[u]

\* An account whose fee starts anew.
Settled(c, u) == c.start[u] = c.f /\ (Provides(c, u) => c.lp[u].g = c.g)

\* Neither the pool nor the speed makes what is due now.
LEMMA SettlingStays ==
    ASSUME NEW c, Sound(c), Sharing(c), NEW d, Sound(d), Sharing(d),
           d.f = c.f, d.g = c.g, NEW u \in Users, Untouched(c, d, u)
    PROVE  Settling(d, u) = Settling(c, u)
<1>1. c.f \in Int /\ d.f \in Int
  BY BooksFields DEF Sound
<1>2. /\ Star(c, u, c.f) = Growth(c, u) + (c.f - c.f) * LpBalance(c, u)[2]
      /\ Star(d, u, d.f) = Growth(d, u) + (d.f - d.f) * LpBalance(d, u)[2]
      /\ Growth(c, u) \in Int /\ Growth(d, u) \in Int
  BY <1>1, StarGrows
<1>3. LpBalance(c, u)[2] \in Int /\ LpBalance(d, u)[2] \in Int
  BY BalanceFits
<1>4. Star(c, u, c.f) = Growth(c, u) /\ Star(d, u, d.f) = Growth(d, u)
  BY <1>1, <1>2, <1>3
<1>5. Growth(d, u) = Growth(c, u)
  BY DEF Growth, Untouched, Provides
<1>. QED  BY <1>4, <1>5 DEF Settling, FundingFee, Untouched

\* An account whose fee starts anew owes what is in its cell.
LEMMA SettledSettling ==
    ASSUME NEW c, Sound(c), Sharing(c), NEW u \in Users, Settled(c, u)
    PROVE  Settling(c, u) = c.fee[u]
<1>1. /\ c \in Books /\ c.f \in Int /\ c.fee[u] \in Int /\ c.start[u] = c.f
      /\ c.hold[u] \in Int /\ c.debt[u] \in Int
  BY BooksFields DEF Sound, Settled
<1>2. LpBalance(c, u)[2] \in Int
  BY BalanceFits
<1>3. Growth(c, u) = 0
  <2>1. CASE ~ Provides(c, u)
    BY <2>1 DEF Growth
  <2>2. CASE Provides(c, u)
    <3>. DEFINE p == c.lp[u]
                st == Start(p)
                det == Det(p.m)
    <3>1. p.g = c.g /\ c.g \in Int \X Int /\ p \in Position /\ p.m \in Rows
      BY <1>1, <2>2, BooksFields DEF Settled, Position
    <3>2. det \in Int /\ det > 0 /\ st \in Int \X Int
      BY <2>2, <3>1, DetInt, StartRow DEF Sound
    <3>3. Growth(c, u) = Dot(Add(c.g, Times(-1, p.g)), st) \div det
      BY <2>2 DEF Growth
    <3>. HIDE DEF det, st, p
    <3>4. Add(c.g, Times(-1, c.g)) = <<0, 0>>
      BY <3>1 DEF Add, Times
    <3>5. Dot(<<0, 0>>, st) = 0
      BY <3>2 DEF Dot
    <3>6. 0 \div det = 0
      BY <3>2
    <3>. QED  BY <3>1, <3>3, <3>4, <3>5, <3>6
  <2>. QED  BY <2>1, <2>2
<1>4. Star(c, u, c.f) = 0
  <2>1. Star(c, u, c.f) = Growth(c, u) + (c.f - c.f) * LpBalance(c, u)[2]
    BY <1>1, StarGrows
  <2>. QED  BY <1>1, <1>2, <1>3, <2>1
<1>5. FundingFee(c, u, c.f) = 0 + (c.hold[u] - c.debt[u]) * (c.f - c.f)
  BY <1>1, <1>4 DEF FundingFee
<1>. QED  BY <1>1, <1>5 DEF Settling

\* Settling one account moves nothing but the fee into its cell.
LEMMA DuesSettled ==
    ASSUME now \in Nat, NEW c, Sound(c), Sharing(c), c.last = now,
           NEW d, Sound(d), Sharing(d), d.last = now,
           d.f = c.f, d.g = c.g, NEW u \in Users,
           Settled(d, u), d.fee[u] = c.fee[u] + FundingFee(c, u, c.f),
           \A w \in Users \ {u} : Untouched(c, d, w)
    PROVE  \A w \in Users : Due(d, w) = Due(c, w)
<1>. SUFFICES ASSUME NEW w \in Users PROVE Due(d, w) = Due(c, w)
  OBVIOUS
<1>1. Due(d, w) = Settling(d, w) /\ Due(c, w) = Settling(c, w)
  BY DueNow
<1>2. CASE w = u
  BY <1>1, <1>2, SettledSettling DEF Settling
<1>3. CASE w # u
  BY <1>1, <1>3, SettlingStays
<1>. QED  BY <1>2, <1>3

\* An account with nothing owes nothing.
LEMMA NothingDue ==
    ASSUME NEW c, Sound(c), now \in Nat, NEW u \in Users, ~ Provides(c, u),
           c.hold[u] = 0, c.debt[u] = 0, c.fee[u] = 0
    PROVE  Due(c, u) = 0
<1>1. c \in Books /\ c.f \in Int /\ c.start[u] \in Int /\ FundingRate(c) \in Int
  BY BooksFields, RateInt DEF Sound
<1>2. Star(c, u, c.f + FundingRate(c)) = 0
  BY DEF Star
<1>3. FundingFee(c, u, c.f + FundingRate(c)) = 0
  BY <1>1, <1>2 DEF FundingFee
<1>. QED  BY <1>3 DEF Due

\* An account none of whose cells, nor anything that accrues, is touched.
LEMMA DueStays ==
    ASSUME NEW c, NEW d, NEW u \in Users, d.lp[u] = c.lp[u], d.start[u] = c.start[u],
           d.fee[u] = c.fee[u], d.hold[u] = c.hold[u], d.debt[u] = c.debt[u],
           d.last = c.last, d.f = c.f, d.g = c.g, d.m = c.m,
           d.stable = c.stable, d.asset = c.asset, d.exposure = c.exposure
    PROVE  Due(d, u) = Due(c, u)
BY DEF Due, FundingRate, Speed, FundingFee, Star, Provides

-----------------------------------------------------------------------------
(* What the accounts hold between them.                                    *)

NetOf(c) == [u \in Users |-> c.hold[u] + LpBalance(c, u)[2] - c.debt[u]]
Total(c) == SumFunction(c.hold) + c.asset - SumFunction(c.debt)

\* The positions add up to what is held and in the pool, but for the debts.
LEMMA NetSum ==
    ASSUME NEW c, Sound(c), Sharing(c)
    PROVE  NetOf(c) \in [Users -> Int] /\ SumFunction(NetOf(c)) = Total(c)
<1>. DEFINE L == Leg(c, 2)
            N == NetOf(c)
            H == [u \in Users |-> c.hold[u] + L[u]]
            D == c.debt
            G == c.hold
<1>1. /\ G \in [Users -> Int] /\ D \in [Users -> Nat] /\ c.asset \in Nat
  BY BooksFields DEF Sound
<1>2. /\ L \in [Users -> Nat] /\ SumFunction(L) = c.asset
      /\ \A u \in Users : L[u] = LpBalance(c, u)[2]
  BY LegsAre DEF Sharing
<1>. HIDE DEF L
<1>3. D \in [Users -> Int] /\ L \in [Users -> Int]
  BY <1>1, <1>2
<1>4. H \in [Users -> Int] /\ \A u \in Users : H[u] = G[u] + 1 * L[u]
  BY <1>1, <1>3
<1>. HIDE DEF H
<1>5. N \in [Users -> Int] /\ \A u \in Users : N[u] = H[u] + (-1) * D[u]
  <2>1. \A u \in Users : N[u] = G[u] + L[u] - D[u]
    BY <1>2 DEF NetOf
  <2>2. N = [u \in Users |-> N[u]]
    BY DEF NetOf
  <2>3. \A u \in Users : G[u] \in Int /\ L[u] \in Int /\ D[u] \in Int
    BY <1>1, <1>3
  <2>. HIDE DEF N, G, D
  <2>4. \A u \in Users : N[u] \in Int
    BY <2>1, <2>3
  <2>5. N \in [Users -> Int]
    BY <2>2, <2>4
  <2>. QED  BY <1>4, <2>1, <2>3, <2>5
<1>. HIDE DEF N, G, D
<1>6. SumFunction(H) = SumFunction(G) + 1 * SumFunction(L)
  <2>1. G \in [Users -> Int] /\ L \in [Users -> Int] /\ H \in [Users -> Int] /\ 1 \in Int
    BY <1>1, <1>3, <1>4
  <2>. QED  BY ONLY UsersFinite, <1>4, <2>1, SumLinear
<1>7. SumFunction(N) = SumFunction(H) + (-1) * SumFunction(D)
  <2>1. H \in [Users -> Int] /\ D \in [Users -> Int] /\ N \in [Users -> Int] /\ -1 \in Int
    BY <1>3, <1>4, <1>5
  <2>. QED  BY ONLY UsersFinite, <1>5, <2>1, SumLinear
<1>8. SumFunction(G) \in Int /\ SumFunction(D) \in Int /\ SumFunction(L) \in Int
  BY ONLY UsersFinite, <1>1, <1>3, SumInt
<1>9. SumFunction(N) = SumFunction(G) + SumFunction(L) - SumFunction(D)
  BY ONLY <1>6, <1>7, <1>8
<1>. QED  BY <1>2, <1>5, <1>9 DEF N, G, D, Total

\* One account's balance, debt and the asset leg change by as much.
LEMMA TotalChanged ==
    ASSUME NEW c, c \in Books, NEW d, d \in Books, NEW u \in Users,
           \A w \in Users \ {u} : d.hold[w] = c.hold[w] /\ d.debt[w] = c.debt[w]
    PROVE  Total(d) = Total(c) + (d.hold[u] - c.hold[u]) + (d.asset - c.asset)
                               - (d.debt[u] - c.debt[u])
<1>. DEFINE H == c.hold
            K == d.hold
            D == c.debt
            E == d.debt
<1>1. /\ H \in [Users -> Int] /\ K \in [Users -> Int]
      /\ D \in [Users -> Int] /\ E \in [Users -> Int] /\ c.asset \in Int /\ d.asset \in Int
  BY BooksFields
<1>2. /\ \A w \in Users \ {u} : K[w] = H[w]
      /\ \A w \in Users \ {u} : E[w] = D[w]
  OBVIOUS
<1>. HIDE DEF H, K, D, E
<1>3. SumFunction(K) = SumFunction(H) + K[u] - H[u]
  BY ONLY UsersFinite, u \in Users, <1>1, <1>2, SumChanged
<1>4. SumFunction(E) = SumFunction(D) + E[u] - D[u]
  BY ONLY UsersFinite, u \in Users, <1>1, <1>2, SumChanged
<1>5. /\ SumFunction(H) \in Int /\ SumFunction(D) \in Int
      /\ H[u] \in Int /\ K[u] \in Int /\ D[u] \in Int /\ E[u] \in Int
  BY <1>1, UsersFinite, SumInt
<1>6. SumFunction(K) + d.asset - SumFunction(E) =
          (SumFunction(H) + c.asset - SumFunction(D)) + (K[u] - H[u]) + (d.asset - c.asset)
              - (E[u] - D[u])
  BY ONLY <1>1, <1>3, <1>4, <1>5
<1>. QED  BY <1>6 DEF Total, H, K, D, E

-----------------------------------------------------------------------------
(* What the steps of a call carry.                                         *)

\* Books at the time of the last operation, shared, with an invertible matrix.
Ready(c) == Fit(c) /\ Sharing(c)

\* Which fields the steps change.
LEMMA UpdateFGFields ==
    ASSUME NEW c \in Books
    PROVE  LET d == UpdateFG(c)
           IN  /\ d.last = now /\ d.m = c.m /\ d.lp = c.lp
               /\ d.stable = c.stable /\ d.asset = c.asset /\ d.exposure = c.exposure
               /\ d.hold = c.hold /\ d.debt = c.debt
               /\ d.start = c.start /\ d.fee = c.fee /\ d.paid = c.paid
BY DEF UpdateFG, Books

\* Charging changes the fee cell of the account.
LEMMA ChargedFields ==
    ASSUME NEW c, Sound(c), NEW u \in Users
    PROVE  LET d == Charged(c, u)
           IN  /\ d.last = c.last /\ d.f = c.f /\ d.g = c.g /\ d.m = c.m /\ d.lp = c.lp
               /\ d.stable = c.stable /\ d.asset = c.asset /\ d.exposure = c.exposure
               /\ d.hold = c.hold /\ d.debt = c.debt /\ d.start = c.start /\ d.paid = c.paid
               /\ d.fee[u] = c.fee[u] + FundingFee(c, u, c.f)
               /\ \A w \in Users \ {u} : d.fee[w] = c.fee[w]
<1>. DEFINE x == FundingFee(c, u, c.f)
            fee == [c.fee EXCEPT ![u] = @ + x]
            d == Charged(c, u)
<1>1. c \in Books /\ c.fee \in [Users -> Int]
  BY BooksFields DEF Sound
<1>. HIDE DEF x
<1>2. d = [c EXCEPT !.fee = fee]
  BY <1>1 DEF Charged, Books, x
<1>3. fee[u] = c.fee[u] + x /\ \A w \in Users \ {u} : fee[w] = c.fee[w]
  BY <1>1
<1>. HIDE DEF d, fee
<1>4. /\ d.last = c.last /\ d.f = c.f /\ d.g = c.g /\ d.m = c.m /\ d.lp = c.lp
      /\ d.stable = c.stable /\ d.asset = c.asset /\ d.exposure = c.exposure
      /\ d.hold = c.hold /\ d.debt = c.debt /\ d.start = c.start /\ d.paid = c.paid
      /\ d.fee = fee
  BY <1>1, <1>2 DEF Books
<1>. QED  BY <1>3, <1>4 DEF d, x

\* A snapshot changes the start and the position of the account.
LEMMA SnapshotFields ==
    ASSUME NEW c \in Books, NEW u \in Users, NEW v
    PROVE  LET d == Snapshot(c, u, v)
           IN  /\ d.last = c.last /\ d.f = c.f /\ d.g = c.g /\ d.m = c.m
               /\ d.stable = c.stable /\ d.asset = c.asset /\ d.exposure = c.exposure
               /\ d.hold = c.hold /\ d.debt = c.debt /\ d.fee = c.fee /\ d.paid = c.paid
               /\ d.start[u] = c.f /\ d.lp[u].v = v
               /\ v # <<0, 0>> => d.lp[u].m = c.m /\ d.lp[u].g = c.g
               /\ \A w \in Users \ {u} : d.lp[w] = c.lp[w] /\ d.start[w] = c.start[w]
<1>. DEFINE q == IF v = <<0, 0>> THEN NoPosition ELSE [v |-> v, m |-> c.m, g |-> c.g]
            lp == [c.lp EXCEPT ![u] = q]
            start == [c.start EXCEPT ![u] = c.f]
            d == Snapshot(c, u, v)
<1>1. q.v = v /\ (v # <<0, 0>> => q.m = c.m /\ q.g = c.g)
  BY DEF NoPosition
<1>2. d = [c EXCEPT !.start = start, !.lp = lp]
  BY DEF Snapshot, Books
<1>. HIDE DEF q
<1>3. /\ lp[u] = q /\ \A w \in Users \ {u} : lp[w] = c.lp[w]
      /\ start[u] = c.f /\ \A w \in Users \ {u} : start[w] = c.start[w]
  BY BooksFields
<1>. HIDE DEF lp, start, d
<1>4. /\ d.last = c.last /\ d.f = c.f /\ d.g = c.g /\ d.m = c.m
      /\ d.stable = c.stable /\ d.asset = c.asset /\ d.exposure = c.exposure
      /\ d.hold = c.hold /\ d.debt = c.debt /\ d.fee = c.fee /\ d.paid = c.paid
      /\ d.lp = lp /\ d.start = start
  BY <1>2 DEF Books
<1>. QED  BY <1>1, <1>3, <1>4 DEF d

\* A step that moves no funding: what is due, and the sum of the positions.
Carries(c, d) ==
    /\ Sound(d) /\ Sharing(d)
    /\ d.paid = c.paid /\ Total(d) = Total(c)
    /\ \A w \in Users : Due(d, w) = Due(c, w)

\* Steps that carry may follow each other.
LEMMA CarriesOn ==
    ASSUME NEW c, NEW d, NEW e, Carries(c, d), Carries(d, e)
    PROVE  Carries(c, e)
BY DEF Carries

\* The sum of the positions depends on these.
LEMMA SameTotal ==
    ASSUME NEW c, NEW d, d.hold = c.hold, d.debt = c.debt, d.asset = c.asset
    PROVE  Total(d) = Total(c)
BY DEF Total

\* Accruing carries what a view showed before it.
LEMMA UpdateFGCarries ==
    ASSUME NEW c, Sound(c), Sharing(c), now \in Nat, c.last <= now
    PROVE  Carries(c, UpdateFG(c))
<1>. DEFINE d == UpdateFG(c)
<1>1. Sound(d) /\ d.last = now
  BY UpdateFGSound, UpdateFGFields DEF Sound
<1>2. /\ d.m = c.m /\ d.lp = c.lp /\ d.stable = c.stable /\ d.asset = c.asset
      /\ d.hold = c.hold /\ d.debt = c.debt /\ d.paid = c.paid
  BY UpdateFGFields DEF Sound
<1>3. \A w \in Users : Due(d, w) = Due(c, w)
  <2>. SUFFICES ASSUME NEW w \in Users PROVE Due(d, w) = Due(c, w)
    OBVIOUS
  <2>1. MarginDue(d, w, d.last) = Due(c, w)
    BY DueAgree
  <2>. HIDE DEF d
  <2>2. MarginDue(d, w, d.last) = d.fee[w] + FundingFee(d, w, d.f + 0)
    BY <1>1 DEF MarginDue
  <2>3. d.f + 0 = d.f
    BY <1>1, BooksFields DEF Sound
  <2>4. Due(d, w) = Settling(d, w)
    BY <1>1, DueNow
  <2>. QED  BY <2>1, <2>2, <2>3, <2>4 DEF Settling
<1>. HIDE DEF d
<1>4. Sharing(d)
  BY <1>1, <1>2, SharesStay DEF SameSnapshot
<1>5. Total(d) = Total(c)
  BY <1>2, SameTotal
<1>. QED  BY <1>1, <1>2, <1>3, <1>4, <1>5 DEF Carries, d

\* Charging moves no balance.
LEMMA ChargedShares ==
    ASSUME NEW c, Sound(c), Sharing(c), NEW u \in Users
    PROVE  /\ Sharing(Charged(c, u))
           /\ \A w \in Users : LpBalance(Charged(c, u), w) = LpBalance(c, w)
<1>. DEFINE d == Charged(c, u)
<1>1. d.m = c.m /\ d.lp = c.lp /\ d.stable = c.stable /\ d.asset = c.asset
  BY ChargedFields
<1>2. Sound(d)
  BY ChargedSound
<1>. HIDE DEF d
<1>3. Sharing(d) /\ \A w \in Users : LpBalance(d, w) = LpBalance(c, w)
  BY <1>1, <1>2, SharesStay DEF SameSnapshot
<1>. QED  BY <1>3 DEF d

\* What moves between the legs and the positions stays.
LEMMA NothingLost ==
    ASSUME NEW t \in Int, NEW s, NEW h \in Int, NEW k \in Int, NEW a \in Int, NEW b \in Int,
           NEW x \in Int, NEW y \in Int, NEW n \in Int,
           s = t + (k - h) + (b - a) - (y - x), b - a = n, k - y = h - x - n
    PROVE  s = t
OBVIOUS

\* The position of an account is settled and taken anew, with v for its
\* balance: what every call on liquidity does.
Repositions(c, d, u, v) ==
    /\ d.last = c.last /\ d.f = c.f /\ d.g = c.g /\ d.m = c.m /\ d.paid = c.paid
    /\ d.start[u] = c.f /\ d.lp[u].v = v
    /\ v # <<0, 0>> => d.lp[u].m = c.m /\ d.lp[u].g = c.g
    /\ d.fee[u] = c.fee[u] + FundingFee(c, u, c.f)
    /\ d.stable = c.stable + v[1] - LpBalance(c, u)[1]
    /\ d.asset = c.asset + v[2] - LpBalance(c, u)[2]
    /\ d.hold[u] - d.debt[u] = c.hold[u] - c.debt[u] - (v[2] - LpBalance(c, u)[2])
    /\ \A w \in Users \ {u} :
        /\ d.lp[w] = c.lp[w] /\ d.start[w] = c.start[w] /\ d.fee[w] = c.fee[w]
        /\ d.hold[w] = c.hold[w] /\ d.debt[w] = c.debt[w]

\* A position taken anew carries what is due to everyone.
LEMMA RepositionCarries ==
    ASSUME NEW c, Sound(c), Sharing(c), now \in Nat, c.last = now, NEW u \in Users,
           NEW v \in Nat \X Nat, NEW d, Sound(d), Repositions(c, d, u, v)
    PROVE  /\ Carries(c, d) /\ Settled(d, u) /\ LpBalance(d, u) = v
           /\ \A w \in Users \ {u} : LpBalance(d, w) = LpBalance(c, w)
<1>1. /\ d.m = c.m /\ d.lp[u].v = v /\ (v # <<0, 0>> => d.lp[u].m = c.m)
      /\ d.stable = c.stable + v[1] - LpBalance(c, u)[1]
      /\ d.asset = c.asset + v[2] - LpBalance(c, u)[2]
      /\ \A w \in Users \ {u} : SameSnapshot(d.lp[w], c.lp[w])
  BY DEF Repositions, SameSnapshot
<1>2. /\ Sharing(d) /\ LpBalance(d, u) = v
      /\ \A w \in Users \ {u} : LpBalance(d, w) = LpBalance(c, w)
  BY <1>1, Repositioned
<1>3. Settled(d, u)
  BY DEF Repositions, Settled, Provides
<1>4. Total(d) = Total(c)
  <2>1. /\ c \in Books /\ d \in Books
        /\ \A w \in Users \ {u} : d.hold[w] = c.hold[w] /\ d.debt[w] = c.debt[w]
    BY DEF Repositions, Sound
  <2>2. Total(d) = Total(c) + (d.hold[u] - c.hold[u]) + (d.asset - c.asset)
                            - (d.debt[u] - c.debt[u])
    BY <2>1, TotalChanged
  <2>3. /\ d.hold[u] \in Int /\ c.hold[u] \in Int /\ d.debt[u] \in Int /\ c.debt[u] \in Int
        /\ c.asset \in Int /\ d.asset \in Int /\ v[2] \in Int /\ LpBalance(c, u)[2] \in Int
    BY <2>1, BooksFields, BalanceFits
  <2>4. Total(c) \in Int
    <3>1. c.hold \in [Users -> Int] /\ c.debt \in [Users -> Int]
      BY <2>1, BooksFields
    <3>. QED  BY <2>3, <3>1, UsersFinite, SumInt DEF Total
  <2>5. /\ d.asset - c.asset = v[2] - LpBalance(c, u)[2]
        /\ d.hold[u] - d.debt[u] = c.hold[u] - c.debt[u] - (v[2] - LpBalance(c, u)[2])
    <3>1. /\ d.asset = c.asset + v[2] - LpBalance(c, u)[2]
          /\ d.hold[u] - d.debt[u] = c.hold[u] - c.debt[u] - (v[2] - LpBalance(c, u)[2])
      BY Zenon DEF Repositions
    <3>. QED  BY ONLY <2>3, <3>1
  <2>. DEFINE n == v[2] - LpBalance(c, u)[2]
  <2>6. n \in Int
    BY <2>3
  <2>. HIDE DEF n
  <2>. QED  BY ONLY <2>2, <2>3, <2>4, <2>5, <2>6, NothingLost DEF n
<1>5. \A w \in Users : Due(d, w) = Due(c, w)
  <2>1. d.last = now /\ d.f = c.f /\ d.g = c.g
        /\ d.fee[u] = c.fee[u] + FundingFee(c, u, c.f)
    BY DEF Repositions
  <2>2. \A w \in Users \ {u} : Untouched(c, d, w)
    BY DEF Repositions, Untouched
  <2>. QED  BY <1>2, <1>3, <2>1, <2>2, DuesSettled
<1>6. d.paid = c.paid
  BY DEF Repositions
<1>. QED  BY <1>2, <1>3, <1>4, <1>5, <1>6 DEF Carries

\* Settling takes the position anew with the balance it has,
LEMMA SettleRepositions ==
    ASSUME NEW c, Sound(c), NEW u \in Users
    PROVE  LET d == Settle(c, u)
           IN  /\ Repositions(c, d, u, LpBalance(c, u))
               /\ d.stable = c.stable /\ d.asset = c.asset
               /\ d.hold = c.hold /\ d.debt = c.debt
<1>. DEFINE h == Charged(c, u)
            v == LpBalance(c, u)
            d == Snapshot(h, u, v)
<1>1. Settle(c, u) = d
  BY DEF Settle
<1>2. Sound(h) /\ h \in Books /\ c \in Books
  BY ChargedSound DEF Sound
<1>3. /\ h.last = c.last /\ h.f = c.f /\ h.g = c.g /\ h.m = c.m /\ h.lp = c.lp
      /\ h.stable = c.stable /\ h.asset = c.asset /\ h.exposure = c.exposure
      /\ h.hold = c.hold /\ h.debt = c.debt /\ h.start = c.start /\ h.paid = c.paid
      /\ h.fee[u] = c.fee[u] + FundingFee(c, u, c.f)
      /\ \A w \in Users \ {u} : h.fee[w] = c.fee[w]
  BY ChargedFields
<1>4. /\ v[1] \in Nat /\ v[2] \in Nat /\ c.stable \in Nat /\ c.asset \in Nat
      /\ c.hold[u] \in Int /\ c.debt[u] \in Int
  BY <1>2, BooksFields, BalanceFits
<1>. HIDE DEF h, v
<1>5. /\ d.last = h.last /\ d.f = h.f /\ d.g = h.g /\ d.m = h.m
      /\ d.stable = h.stable /\ d.asset = h.asset /\ d.exposure = h.exposure
      /\ d.hold = h.hold /\ d.debt = h.debt /\ d.fee = h.fee /\ d.paid = h.paid
      /\ d.start[u] = h.f /\ d.lp[u].v = v
      /\ v # <<0, 0>> => d.lp[u].m = h.m /\ d.lp[u].g = h.g
      /\ \A w \in Users \ {u} : d.lp[w] = h.lp[w] /\ d.start[w] = h.start[w]
  BY <1>2, SnapshotFields
<1>. HIDE DEF d
<1>6. /\ d.stable = c.stable + v[1] - v[1] /\ d.asset = c.asset + v[2] - v[2]
      /\ d.hold[u] - d.debt[u] = c.hold[u] - c.debt[u] - (v[2] - v[2])
  BY <1>3, <1>4, <1>5
<1>7. Repositions(c, d, u, v)
  <2>1. LpBalance(c, u) = v
    BY DEF v
  <2>. QED  BY <1>3, <1>5, <1>6, <2>1 DEF Repositions
<1>. QED  BY <1>1, <1>3, <1>5, <1>7 DEF v

\* and carries.
LEMMA SettleCarries ==
    ASSUME NEW c, Ready(c), now \in Nat, c.last = now, NEW u \in Users
    PROVE  LET d == Settle(c, u)
           IN  /\ Carries(c, d) /\ Ready(d) /\ d.last = now /\ Settled(d, u)
               /\ d.f = c.f /\ d.g = c.g
               /\ \A w \in Users \ {u} : d.lp[w] = c.lp[w] /\ d.start[w] = c.start[w]
<1>. DEFINE d == Settle(c, u)
<1>1. Sound(c) /\ Det(c.m) > 0 /\ Sharing(c)
  BY DEF Ready, Fit
<1>2. Sound(d) /\ d.last = now /\ d.m = c.m
  BY <1>1, SettleSound
<1>3. Repositions(c, d, u, LpBalance(c, u)) /\ LpBalance(c, u) \in Nat \X Nat
  BY <1>1, SettleRepositions, BalanceFits
<1>. HIDE DEF d
<1>4. Carries(c, d) /\ Settled(d, u)
  BY ONLY <1>1, <1>2, <1>3, now \in Nat, c.last = now, u \in Users, RepositionCarries
<1>5. Ready(d)
  BY <1>1, <1>2, <1>4 DEF Ready, Fit, Carries
<1>. QED  BY <1>2, <1>3, <1>4, <1>5 DEF Repositions, d

-----------------------------------------------------------------------------
(* Trades.                                                                 *)

\* The trader's side: its fee is settled, its position grows by the size.
LEMMA TraderFields ==
    ASSUME NEW c, Sound(c), NEW u \in Users, NEW size \in Int
    PROVE  LET d == Trader(c, u, size)
           IN  /\ d.last = c.last /\ d.f = c.f /\ d.g = c.g /\ d.m = c.m
               /\ d.stable = c.stable /\ d.asset = c.asset /\ d.debt = c.debt /\ d.paid = c.paid
               /\ d.hold[u] = c.hold[u] + size /\ d.start[u] = c.f
               /\ d.fee[u] = c.fee[u] + FundingFee(c, u, c.f)
               /\ \A w \in Users : SameSnapshot(d.lp[w], c.lp[w])
               /\ Provides(c, u) => d.lp[u].g = c.g
               /\ \A w \in Users \ {u} :
                   /\ d.lp[w] = c.lp[w] /\ d.start[w] = c.start[w] /\ d.fee[w] = c.fee[w]
                   /\ d.hold[w] = c.hold[w]
<1>. DEFINE e == Charged(c, u)
            d == Trader(c, u, size)
            q == IF Provides(c, u) THEN [e.lp[u] EXCEPT !.g = c.g] ELSE e.lp[u]
            lp == [e.lp EXCEPT ![u] = q]
            hold == [e.hold EXCEPT ![u] = @ + size]
            start == [e.start EXCEPT ![u] = c.f]
            exposure == e.exposure + size
<1>1. c \in Books /\ e \in Books
  BY ChargedSound DEF Sound
<1>2. /\ e.last = c.last /\ e.f = c.f /\ e.g = c.g /\ e.m = c.m /\ e.lp = c.lp
      /\ e.stable = c.stable /\ e.asset = c.asset
      /\ e.hold = c.hold /\ e.debt = c.debt /\ e.start = c.start /\ e.paid = c.paid
      /\ e.fee[u] = c.fee[u] + FundingFee(c, u, c.f)
      /\ \A w \in Users \ {u} : e.fee[w] = c.fee[w]
  BY ChargedFields
<1>. HIDE DEF e
<1>3. /\ SameSnapshot(q, e.lp[u]) /\ (Provides(c, u) => q.g = c.g)
  <2>1. e.lp[u] \in Position
    BY <1>1, BooksFields
  <2>. QED  BY <2>1 DEF Position, SameSnapshot
<1>4. d = [e EXCEPT !.exposure = exposure, !.hold = hold, !.start = start, !.lp = lp]
  <2>1. d = [e EXCEPT !.exposure = @ + size, !.hold[u] = @ + size, !.start[u] = c.f,
                      !.lp[u] = IF Provides(c, u) THEN [@ EXCEPT !.g = c.g] ELSE @]
    BY DEF Trader, e
  <2>. HIDE DEF d
  <2>. QED  BY <1>1, <2>1 DEF Books
<1>. HIDE DEF q
<1>5. /\ lp[u] = q /\ hold[u] = e.hold[u] + size /\ start[u] = c.f
      /\ \A w \in Users \ {u} : lp[w] = e.lp[w] /\ hold[w] = e.hold[w] /\ start[w] = e.start[w]
  BY <1>1, BooksFields
<1>. HIDE DEF lp, hold, start, exposure, d
<1>6. /\ d.last = e.last /\ d.f = e.f /\ d.g = e.g /\ d.m = e.m
      /\ d.stable = e.stable /\ d.asset = e.asset /\ d.debt = e.debt /\ d.paid = e.paid
      /\ d.fee = e.fee /\ d.hold = hold /\ d.lp = lp /\ d.start = start
  BY <1>1, <1>4 DEF Books
<1>7. \A w \in Users : SameSnapshot(d.lp[w], c.lp[w])
  BY <1>2, <1>3, <1>5, <1>6 DEF SameSnapshot
<1>. QED  BY <1>2, <1>3, <1>5, <1>6, <1>7 DEF d

\* The pool's side changes the matrix and the legs only.
LEMMA LongFields ==
    ASSUME NEW c \in Books, NEW size
    PROVE  LET d == Long(c, size)
           IN  /\ d.last = c.last /\ d.f = c.f /\ d.g = c.g /\ d.lp = c.lp
               /\ d.stable = c.stable + size /\ d.asset = c.asset - size
               /\ d.hold = c.hold /\ d.debt = c.debt
               /\ d.start = c.start /\ d.fee = c.fee /\ d.paid = c.paid
<1>. DEFINE a == (size * Scale) \div c.asset
            x == <<(a * c.m.a[1]) \div Scale, (a * c.m.a[2]) \div Scale>>
            m == [s |-> Add(c.m.s, x), a |-> Add(c.m.a, Times(-1, x))]
            d == Long(c, size)
<1>1. d = [c EXCEPT !.m = m, !.stable = c.stable + size, !.asset = c.asset - size]
  BY DEF Long, Books
<1>. HIDE DEF m, d
<1>. QED  BY <1>1 DEF Books, d

\* The short likewise.
LEMMA ShortFields ==
    ASSUME NEW c \in Books, NEW size
    PROVE  LET d == Short(c, size)
           IN  /\ d.last = c.last /\ d.f = c.f /\ d.g = c.g /\ d.lp = c.lp
               /\ d.stable = c.stable - size /\ d.asset = c.asset + size
               /\ d.hold = c.hold /\ d.debt = c.debt
               /\ d.start = c.start /\ d.fee = c.fee /\ d.paid = c.paid
<1>. DEFINE a == (size * Scale) \div c.stable
            x == <<(a * c.m.s[1]) \div Scale, (a * c.m.s[2]) \div Scale>>
            m == [s |-> Add(c.m.s, Times(-1, x)), a |-> Add(c.m.a, x)]
            d == Short(c, size)
<1>1. d = [c EXCEPT !.m = m, !.stable = c.stable - size, !.asset = c.asset + size]
  BY DEF Short, Books
<1>. HIDE DEF m, d
<1>. QED  BY <1>1 DEF Books, d

\* A trade of u: its fee is settled, k of the asset changes hands.
Trades(c, d, u, k) ==
    /\ d.last = c.last /\ d.f = c.f /\ d.g = c.g
    /\ d.debt = c.debt /\ d.paid = c.paid
    /\ d.hold[u] = c.hold[u] + k /\ d.start[u] = c.f
    /\ d.asset = c.asset - k
    /\ d.fee[u] = c.fee[u] + FundingFee(c, u, c.f)
    /\ \A w \in Users : SameSnapshot(d.lp[w], c.lp[w])
    /\ Provides(c, u) => d.lp[u].g = c.g
    /\ \A w \in Users \ {u} :
        /\ d.lp[w] = c.lp[w] /\ d.start[w] = c.start[w] /\ d.fee[w] = c.fee[w]
        /\ d.hold[w] = c.hold[w]

\* A trade carries what is due to everyone.
LEMMA TradeCarries ==
    ASSUME NEW c, Sound(c), Sharing(c), now \in Nat, c.last = now, NEW u \in Users,
           NEW k \in Int, NEW d, Sound(d), Sharing(d), Trades(c, d, u, k)
    PROVE  /\ Carries(c, d) /\ d.hold[u] = c.hold[u] + k /\ d.debt = c.debt
           /\ Provides(d, u) <=> Provides(c, u)
<1>1. Provides(d, u) <=> Provides(c, u)
  BY DEF Trades, SameSnapshot, Provides
<1>2. Settled(d, u)
  BY <1>1 DEF Trades, Settled
<1>3. \A w \in Users : Due(d, w) = Due(c, w)
  <2>1. d.last = now /\ d.f = c.f /\ d.g = c.g
        /\ d.fee[u] = c.fee[u] + FundingFee(c, u, c.f)
    BY DEF Trades
  <2>2. \A w \in Users \ {u} : Untouched(c, d, w)
    BY DEF Trades, Untouched
  <2>. QED  BY <1>2, <2>1, <2>2, DuesSettled
<1>4. Total(d) = Total(c)
  <2>1. /\ c \in Books /\ d \in Books
        /\ \A w \in Users \ {u} : d.hold[w] = c.hold[w] /\ d.debt[w] = c.debt[w]
    BY DEF Trades, Sound
  <2>2. Total(d) = Total(c) + (d.hold[u] - c.hold[u]) + (d.asset - c.asset)
                            - (d.debt[u] - c.debt[u])
    BY <2>1, TotalChanged
  <2>3. /\ c.hold[u] \in Int /\ c.debt[u] \in Int /\ c.asset \in Int
        /\ d.hold[u] = c.hold[u] + k /\ d.asset = c.asset - k /\ d.debt[u] = c.debt[u]
    BY <2>1, BooksFields DEF Trades
  <2>4. Total(c) \in Int
    <3>1. c.hold \in [Users -> Int] /\ c.debt \in [Users -> Int]
      BY <2>1, BooksFields
    <3>. QED  BY <2>3, <3>1, UsersFinite, SumInt DEF Total
  <2>. QED  BY ONLY k \in Int, <2>2, <2>3, <2>4
<1>. QED  BY <1>1, <1>3, <1>4 DEF Carries, Trades

\* The trader's side moves no balance.
LEMMA TraderShares ==
    ASSUME NEW c, Sound(c), Sharing(c), NEW u \in Users, NEW size \in Int
    PROVE  Sharing(Trader(c, u, size))
<1>. DEFINE d == Trader(c, u, size)
<1>1. Sound(d)
  BY TraderSound
<1>2. /\ d.m = c.m /\ d.stable = c.stable /\ d.asset = c.asset
      /\ \A w \in Users : SameSnapshot(d.lp[w], c.lp[w])
  BY TraderFields
<1>. HIDE DEF d
<1>3. Sharing(d)
  BY <1>1, <1>2, SharesStay
<1>. QED  BY <1>3 DEF d

\* Longs and shorts carry it, and move the size.
LEMMA LongsCarry ==
    ASSUME NEW c, Sound(c), Sharing(c), now \in Nat, c.last <= now, NEW u \in Users,
           NEW size \in Nat, NEW d \in Longs(c, u, size)
    PROVE  /\ Carries(c, d) /\ d.hold[u] = c.hold[u] + size /\ d.debt = c.debt
           /\ Provides(d, u) <=> Provides(c, u)
<1>. DEFINE e == UpdateFG(c)
            t == Trader(e, u, size)
<1>0. c \in Books /\ c.asset \in Nat
  BY BooksFields DEF Sound
<1>1. /\ size < c.asset /\ d = Long(t, size) /\ Shares(d)
      /\ Whole(c, c.asset, c.m.a, size)
  BY <1>0 DEF Longs
<1>2. Sound(e) /\ Carries(c, e) /\ Sharing(e)
  BY UpdateFGSound, UpdateFGCarries DEF Carries
<1>3. /\ e.last = now /\ e.m = c.m /\ e.asset = c.asset /\ e.hold = c.hold /\ e.debt = c.debt
      /\ e.lp = c.lp
  BY <1>0, UpdateFGFields
<1>. HIDE DEF e
<1>4. /\ t.last = e.last /\ t.f = e.f /\ t.g = e.g /\ t.m = e.m
      /\ t.stable = e.stable /\ t.asset = e.asset /\ t.debt = e.debt /\ t.paid = e.paid
      /\ t.hold[u] = e.hold[u] + size /\ t.start[u] = e.f
      /\ t.fee[u] = e.fee[u] + FundingFee(e, u, e.f)
      /\ \A w \in Users : SameSnapshot(t.lp[w], e.lp[w])
      /\ Provides(e, u) => t.lp[u].g = e.g
      /\ \A w \in Users \ {u} :
          /\ t.lp[w] = e.lp[w] /\ t.start[w] = e.start[w] /\ t.fee[w] = e.fee[w]
          /\ t.hold[w] = e.hold[w]
  BY <1>2, TraderFields
<1>5. Sound(t) /\ Sharing(t) /\ t \in Books
  BY <1>2, TraderSound, TraderShares DEF Sound
<1>. HIDE DEF t
<1>6. Whole(t, t.asset, t.m.a, size) /\ size < t.asset
  BY <1>1, <1>3, <1>4 DEF Whole
<1>7. Sound(d) /\ Sharing(d)
  BY <1>1, <1>5, <1>6, LongSound, LongShares
<1>8. /\ d.last = t.last /\ d.f = t.f /\ d.g = t.g /\ d.lp = t.lp
      /\ d.asset = t.asset - size /\ d.hold = t.hold /\ d.debt = t.debt
      /\ d.start = t.start /\ d.fee = t.fee /\ d.paid = t.paid
  BY <1>1, <1>5, LongFields
<1>9. Trades(e, d, u, size)
  BY <1>4, <1>8 DEF Trades
<1>10. size \in Int
  OBVIOUS
<1>11. /\ Carries(e, d) /\ d.hold[u] = e.hold[u] + size /\ d.debt = e.debt
       /\ Provides(d, u) <=> Provides(e, u)
  BY <1>2, <1>3, <1>7, <1>9, <1>10, TradeCarries
<1>12. Carries(c, d)
  BY <1>2, <1>11, CarriesOn
<1>. QED  BY <1>3, <1>11, <1>12 DEF Provides

\* Shorts move it the other way.
LEMMA ShortsCarry ==
    ASSUME NEW c, Sound(c), Sharing(c), now \in Nat, c.last <= now, NEW u \in Users,
           NEW size \in Nat, NEW d \in Shorts(c, u, size)
    PROVE  /\ Carries(c, d) /\ d.hold[u] = c.hold[u] - size /\ d.debt = c.debt
           /\ Provides(d, u) <=> Provides(c, u)
<1>. DEFINE e == UpdateFG(c)
            k == -size
            t == Trader(e, u, k)
<1>0. c \in Books /\ c.stable \in Nat /\ k \in Int /\ c.hold[u] \in Int
  BY BooksFields DEF Sound
<1>1. /\ size < c.stable /\ d = Short(t, size) /\ Shares(d)
      /\ Whole(c, c.stable, c.m.s, size)
  BY <1>0 DEF Shorts
<1>2. Sound(e) /\ Carries(c, e) /\ Sharing(e)
  BY UpdateFGSound, UpdateFGCarries DEF Carries
<1>3. /\ e.last = now /\ e.m = c.m /\ e.stable = c.stable /\ e.hold = c.hold /\ e.debt = c.debt
      /\ e.lp = c.lp
  BY <1>0, UpdateFGFields
<1>. HIDE DEF e, k
<1>4. /\ t.last = e.last /\ t.f = e.f /\ t.g = e.g /\ t.m = e.m
      /\ t.stable = e.stable /\ t.asset = e.asset /\ t.debt = e.debt /\ t.paid = e.paid
      /\ t.hold[u] = e.hold[u] + k /\ t.start[u] = e.f
      /\ t.fee[u] = e.fee[u] + FundingFee(e, u, e.f)
      /\ \A w \in Users : SameSnapshot(t.lp[w], e.lp[w])
      /\ Provides(e, u) => t.lp[u].g = e.g
      /\ \A w \in Users \ {u} :
          /\ t.lp[w] = e.lp[w] /\ t.start[w] = e.start[w] /\ t.fee[w] = e.fee[w]
          /\ t.hold[w] = e.hold[w]
  BY <1>0, <1>2, TraderFields
<1>5. Sound(t) /\ Sharing(t) /\ t \in Books
  BY <1>0, <1>2, TraderSound, TraderShares DEF Sound
<1>. HIDE DEF t
<1>6. Whole(t, t.stable, t.m.s, size) /\ size < t.stable
  BY <1>1, <1>3, <1>4 DEF Whole
<1>7. Sound(d) /\ Sharing(d)
  BY <1>1, <1>5, <1>6, ShortSound, ShortShares
<1>8. /\ d.last = t.last /\ d.f = t.f /\ d.g = t.g /\ d.lp = t.lp
      /\ d.asset = t.asset + size /\ d.hold = t.hold /\ d.debt = t.debt
      /\ d.start = t.start /\ d.fee = t.fee /\ d.paid = t.paid
  BY <1>1, <1>5, ShortFields
<1>9. Trades(e, d, u, k)
  <2>1. d.asset = e.asset - k
    <3>1. t.asset = e.asset /\ e.asset \in Nat
      BY <1>2, <1>4, BooksFields DEF Sound
    <3>. QED  BY <1>8, <3>1 DEF k
  <2>. QED  BY <1>4, <1>8, <2>1 DEF Trades
<1>11. /\ Carries(e, d) /\ d.hold[u] = e.hold[u] + k /\ d.debt = e.debt
       /\ Provides(d, u) <=> Provides(e, u)
  BY <1>0, <1>2, <1>3, <1>7, <1>9, TradeCarries
<1>12. Carries(c, d)
  BY <1>2, <1>11, CarriesOn
<1>13. d.hold[u] = c.hold[u] - size
  BY <1>0, <1>3, <1>11 DEF k
<1>. QED  BY <1>3, <1>11, <1>12, <1>13 DEF Provides

-----------------------------------------------------------------------------
(* Liquidity and closes.                                                   *)

\* What is taken is first taken off the debt.
LEMMA DebtFirst ==
    ASSUME NEW x \in Nat, NEW y \in Nat
    PROVE  Excess(x, y) - Excess(y, x) = x - y
BY DEF Excess

\* A withdrawal takes the position anew, with what is left.
LEMMA WithdrawRepositions ==
    ASSUME NEW c, Fit(c), Sharing(c), now \in Nat, NEW u \in Users,
           NEW out, Withdrawable(c, u, out)
    PROVE  LET e == UpdateFG(c)
               d == Withdraw(c, u, out)
               v == LpBalance(c, u)
           IN  /\ Repositions(e, d, u, <<v[1] - out[1], v[2] - out[2]>>)
               /\ d.debt[u] = Excess(c.debt[u], out[2])
<1>. DEFINE v == LpBalance(c, u)
            rest == <<v[1] - out[1], v[2] - out[2]>>
            e == UpdateFG(c)
            h == Charged(e, u)
            s == Snapshot(h, u, rest)
            own == Excess(out[2], c.debt[u])
            d == Withdraw(c, u, out)
            stable == s.stable - out[1]
            asset == s.asset - out[2]
            debt == [s.debt EXCEPT ![u] = Excess(@, out[2])]
            hold == [s.hold EXCEPT ![u] = @ + own]
            exposure == s.exposure + own
<1>1. /\ c \in Books /\ Sound(c) /\ c.last <= now /\ c.stable \in Nat /\ c.asset \in Nat
      /\ c.debt[u] \in Nat /\ c.hold[u] \in Int
  BY BooksFields DEF Fit, Sound
<1>2. /\ out[1] \in Nat /\ out[2] \in Nat /\ v[1] \in Nat /\ v[2] \in Nat
  BY <1>1, BalanceFits DEF Withdrawable
<1>3. /\ e.lp = c.lp /\ e.m = c.m /\ e.stable = c.stable /\ e.asset = c.asset
      /\ e.hold = c.hold /\ e.debt = c.debt
  BY <1>1, UpdateFGFields
<1>4. Sound(e) /\ Sharing(e) /\ e \in Books
  BY <1>1, UpdateFGSound, UpdateFGCarries DEF Carries, Sound
<1>5. LpBalance(e, u) = v
  BY <1>1, <1>3, <1>4, SharesStay DEF SameSnapshot
<1>. HIDE DEF v, e
<1>6. /\ h.last = e.last /\ h.f = e.f /\ h.g = e.g /\ h.m = e.m /\ h.lp = e.lp
      /\ h.stable = e.stable /\ h.asset = e.asset /\ h.exposure = e.exposure
      /\ h.hold = e.hold /\ h.debt = e.debt /\ h.start = e.start /\ h.paid = e.paid
      /\ h.fee[u] = e.fee[u] + FundingFee(e, u, e.f)
      /\ \A w \in Users \ {u} : h.fee[w] = e.fee[w]
  BY <1>4, ChargedFields
<1>7. Sound(h) /\ h \in Books /\ Det(h.m) > 0
  BY <1>3, <1>4, <1>6, ChargedSound DEF Sound, Fit
<1>. HIDE DEF h
<1>8. rest[1] = v[1] - out[1] /\ rest[2] = v[2] - out[2] /\ rest \in Nat \X Nat
  BY <1>2, BalanceFits DEF Withdrawable, v
<1>. HIDE DEF rest
<1>9. /\ s.last = h.last /\ s.f = h.f /\ s.g = h.g /\ s.m = h.m
      /\ s.stable = h.stable /\ s.asset = h.asset /\ s.exposure = h.exposure
      /\ s.hold = h.hold /\ s.debt = h.debt /\ s.fee = h.fee /\ s.paid = h.paid
      /\ s.start[u] = h.f /\ s.lp[u].v = rest
      /\ rest # <<0, 0>> => s.lp[u].m = h.m /\ s.lp[u].g = h.g
      /\ \A w \in Users \ {u} : s.lp[w] = h.lp[w] /\ s.start[w] = h.start[w]
  BY <1>7, SnapshotFields
<1>10. s \in Books
  BY <1>7, <1>8, SnapshotSound DEF Sound
<1>11. d = [s EXCEPT !.stable = stable, !.asset = asset, !.debt = debt,
                     !.hold = hold, !.exposure = exposure]
  <2>1. d = [s EXCEPT !.stable = @ - out[1], !.asset = @ - out[2],
                      !.debt[u] = Excess(@, out[2]),
                      !.hold[u] = @ + own, !.exposure = @ + own]
    BY DEF Withdraw, v, rest, e, h
  <2>. HIDE DEF s, d, own
  <2>. QED  BY <1>10, <2>1 DEF Books
<1>. HIDE DEF s, d, own
<1>12. /\ debt[u] = Excess(s.debt[u], out[2]) /\ hold[u] = s.hold[u] + own
       /\ \A w \in Users \ {u} : debt[w] = s.debt[w] /\ hold[w] = s.hold[w]
  BY <1>10, BooksFields
<1>. HIDE DEF debt, hold, exposure
<1>13. /\ d.last = s.last /\ d.f = s.f /\ d.g = s.g /\ d.m = s.m /\ d.lp = s.lp
       /\ d.stable = stable /\ d.asset = asset /\ d.debt = debt /\ d.hold = hold
       /\ d.start = s.start /\ d.fee = s.fee /\ d.paid = s.paid
  <2>. HIDE DEF stable, asset
  <2>. QED  BY <1>10, <1>11 DEF Books
<1>14. /\ d.stable = e.stable + rest[1] - LpBalance(e, u)[1]
       /\ d.asset = e.asset + rest[2] - LpBalance(e, u)[2]
  <2>1. d.stable = c.stable - out[1] /\ d.asset = c.asset - out[2]
    BY <1>3, <1>6, <1>9, <1>13
  <2>2. e.stable = c.stable /\ e.asset = c.asset
    BY <1>3
  <2>. QED  BY ONLY <1>1, <1>2, <1>5, <1>8, <2>1, <2>2
<1>15. d.hold[u] - d.debt[u] = e.hold[u] - e.debt[u] - (rest[2] - LpBalance(e, u)[2])
  <2>. DEFINE k == c.debt[u]
              o == out[2]
              left == Excess(k, o)
              x == c.hold[u]
              b == v[2]
  <2>1. d.hold[u] = x + own /\ d.debt[u] = left /\ e.hold[u] = x /\ e.debt[u] = k
    BY <1>3, <1>6, <1>9, <1>12, <1>13
  <2>2. k \in Nat /\ o \in Nat /\ x \in Int /\ b \in Nat
    BY <1>1, <1>2
  <2>3. rest[2] = b - o /\ LpBalance(e, u)[2] = b
    BY <1>5, <1>8
  <2>4. own = Excess(o, k)
    BY DEF own
  <2>. HIDE DEF k, o, x, b, left
  <2>5. own - left = o - k /\ own \in Nat /\ left \in Nat
    BY <2>2, <2>4, DebtFirst, ExcessNat DEF left
  <2>6. (x + own) - left = x - k - ((b - o) - b)
    BY ONLY <2>2, <2>5
  <2>. QED  BY <2>1, <2>3, <2>6
<1>16. Repositions(e, d, u, rest)
  <2>1. /\ d.last = e.last /\ d.f = e.f /\ d.g = e.g /\ d.m = e.m /\ d.paid = e.paid
        /\ d.start[u] = e.f /\ d.lp[u].v = rest
        /\ rest # <<0, 0>> => d.lp[u].m = e.m /\ d.lp[u].g = e.g
        /\ d.fee[u] = e.fee[u] + FundingFee(e, u, e.f)
    BY <1>6, <1>9, <1>13
  <2>2. \A w \in Users \ {u} :
          /\ d.lp[w] = e.lp[w] /\ d.start[w] = e.start[w] /\ d.fee[w] = e.fee[w]
          /\ d.hold[w] = e.hold[w] /\ d.debt[w] = e.debt[w]
    BY <1>6, <1>9, <1>12, <1>13
  <2>. QED  BY <1>14, <1>15, <2>1, <2>2 DEF Repositions
<1>17. d.debt[u] = Excess(c.debt[u], out[2])
  BY <1>3, <1>6, <1>9, <1>12, <1>13
<1>. QED  BY <1>16, <1>17 DEF d, e, rest, v

\* It carries, and leaves the account settled.
LEMMA WithdrawCarries ==
    ASSUME NEW c, Ready(c), now \in Nat, NEW u \in Users, NEW out, Withdrawable(c, u, out)
    PROVE  LET e == UpdateFG(c)
               d == Withdraw(c, u, out)
               v == LpBalance(c, u)
           IN  /\ Carries(c, d) /\ Ready(d) /\ d.last = now /\ Settled(d, u)
               /\ d.lp[u].v = <<v[1] - out[1], v[2] - out[2]>>
               /\ d.debt[u] = Excess(c.debt[u], out[2])
               /\ d.f = e.f /\ d.g = e.g
               /\ \A w \in Users \ {u} : d.lp[w] = c.lp[w] /\ d.start[w] = e.start[w]
<1>. DEFINE e == UpdateFG(c)
            d == Withdraw(c, u, out)
            v == LpBalance(c, u)
            rest == <<v[1] - out[1], v[2] - out[2]>>
<1>1. Fit(c) /\ Sound(c) /\ Sharing(c) /\ c.last <= now /\ c \in Books
  BY DEF Ready, Fit, Sound
<1>2. Fit(d) /\ Sound(d)
  BY <1>1, WithdrawSound DEF Fit
<1>3. Carries(c, e) /\ Sound(e) /\ Sharing(e) /\ e.last = now /\ e.lp = c.lp
  BY <1>1, UpdateFGCarries, UpdateFGFields DEF Carries
<1>4. Repositions(e, d, u, rest) /\ d.debt[u] = Excess(c.debt[u], out[2])
  BY <1>1, WithdrawRepositions
<1>5. rest \in Nat \X Nat
  BY <1>1, BalanceFits DEF Withdrawable
<1>. HIDE DEF e, d, rest
<1>6. Carries(e, d) /\ Settled(d, u)
  BY ONLY <1>2, <1>3, <1>4, <1>5, now \in Nat, u \in Users, RepositionCarries
<1>7. Carries(c, d)
  BY ONLY <1>3, <1>6, CarriesOn
<1>8. Ready(d)
  BY <1>2, <1>7 DEF Ready, Carries
<1>9. /\ d.last = now /\ d.f = e.f /\ d.g = e.g /\ d.lp[u].v = rest
      /\ \A w \in Users \ {u} : d.lp[w] = c.lp[w] /\ d.start[w] = e.start[w]
  BY <1>3, <1>4 DEF Repositions
<1>. QED  BY <1>4, <1>6, <1>7, <1>8, <1>9 DEF e, d, rest

\* The fee computed ahead of update_fg is the fee settled after it.
LEMMA SettledAhead ==
    ASSUME NEW c, Sound(c), now \in Nat, c.last <= now, NEW u \in Users
    PROVE  LET x == FundingFee(c, u, c.f + FundingRate(c))
           IN  UpdateFG([c EXCEPT !.fee[u] = @ + x]) = Charged(UpdateFG(c), u)
<1>. DEFINE r == FundingRate(c)
            e == UpdateFG(c)
            x == FundingFee(c, u, c.f + r)
            fee == [c.fee EXCEPT ![u] = @ + x]
            b == [c EXCEPT !.fee = fee]
            g == Add(c.g, Times(r, c.m.a))
            f == c.f + r
<1>1. c \in Books /\ c.f \in Int /\ r \in Int /\ c.fee \in [Users -> Int] /\ c.fee[u] \in Int
  BY BooksFields, RateInt DEF Sound
<1>2. Sound(e) /\ e.fee = c.fee /\ e.last = now /\ e \in Books
  BY <1>1, UpdateFGSound, UpdateFGFields DEF Sound
<1>3. FundingFee(e, u, e.f) = x
  <2>1. MarginDue(e, u, e.last) = Due(c, u)
    BY DueAgree
  <2>2. MarginDue(e, u, e.last) = e.fee[u] + FundingFee(e, u, e.f + 0)
    BY <1>2 DEF MarginDue
  <2>3. e.f + 0 = e.f /\ e.f \in Int
    BY <1>2, BooksFields
  <2>4. Due(c, u) = c.fee[u] + x
    BY DEF Due
  <2>5. FundingFee(e, u, e.f) \in Int
    BY <1>2, <2>3, FundingFeeInt
  <2>6. x \in Int
    BY <1>1, FundingFeeInt
  <2>. DEFINE y == FundingFee(e, u, e.f)
              z == c.fee[u]
  <2>7. z + y = z + x
    BY <1>2, <2>1, <2>2, <2>3, <2>4
  <2>. HIDE DEF x, e, y, z
  <2>8. y \in Int /\ z \in Int
    BY <1>1, <2>5 DEF y, z
  <2>9. y = x
    BY ONLY <2>6, <2>7, <2>8
  <2>. QED  BY <2>9 DEF y
<1>4. Charged(e, u) = [e EXCEPT !.fee = fee]
  <2>. HIDE DEF x
  <2>1. Charged(e, u) = [e EXCEPT !.fee[u] = @ + x]
    BY <1>3 DEF Charged
  <2>. HIDE DEF e
  <2>. QED  BY <1>2, <2>1 DEF Books
<1>5. [c EXCEPT !.fee[u] = @ + x] = b
  <2>. HIDE DEF x
  <2>. QED  BY <1>1 DEF Books
<1>6. UpdateFG(b) = [e EXCEPT !.fee = fee]
  <2>. HIDE DEF fee
  <2>1. /\ b.last = c.last /\ b.f = c.f /\ b.g = c.g /\ b.m = c.m
        /\ b.stable = c.stable /\ b.asset = c.asset /\ b.exposure = c.exposure
    BY <1>1 DEF Books
  <2>2. FundingRate(b) = r
    BY <2>1 DEF FundingRate, Speed
  <2>3. CASE c.last = now
    BY <2>1, <2>3 DEF UpdateFG
  <2>4. CASE c.last # now
    <3>1. e = [c EXCEPT !.f = f, !.g = g, !.last = now]
      BY <2>4 DEF UpdateFG
    <3>2. UpdateFG(b) = [b EXCEPT !.f = f, !.g = g, !.last = now]
      BY <2>1, <2>2, <2>4 DEF UpdateFG
    <3>. HIDE DEF e, f, g
    <3>. QED  BY <1>1, <3>1, <3>2 DEF Books
  <2>. QED  BY <2>3, <2>4
<1>. QED  BY <1>4, <1>5, <1>6

\* A deposit carries, although its fee was computed ahead.
LEMMA DepositCarries ==
    ASSUME NEW c, Ready(c), now \in Nat, NEW u \in Users, NEW in \in Nat \X Nat
    PROVE  Carries(c, Deposit(c, u, in))
<1>. DEFINE e == UpdateFG(c)
            h == Charged(e, u)
            debt == [h.debt EXCEPT ![u] = @ + in[2]]
            stable == h.stable + in[1]
            asset == h.asset + in[2]
            k == [h EXCEPT !.debt = debt, !.stable = stable, !.asset = asset]
            v == Add(in, LpBalance(h, u))
            d == Snapshot(k, u, v)
<1>1. Fit(c) /\ Sound(c) /\ Sharing(c) /\ c.last <= now /\ c \in Books
  BY DEF Ready, Fit, Sound
<1>2. Sound(Deposit(c, u, in))
  BY <1>1, DepositSound DEF Fit
<1>3. Deposit(c, u, in) = d
  <2>1. UpdateFG([c EXCEPT !.fee[u] = @ + FundingFee(c, u, c.f + FundingRate(c))]) = h
    BY <1>1, SettledAhead
  <2>. HIDE DEF h
  <2>. QED  BY <2>1 DEF Deposit
<1>4. Carries(c, e) /\ Sound(e) /\ Sharing(e) /\ e.last = now /\ e \in Books
  BY <1>1, UpdateFGCarries, UpdateFGFields DEF Carries, Sound
<1>. HIDE DEF e
<1>5. /\ h.last = e.last /\ h.f = e.f /\ h.g = e.g /\ h.m = e.m /\ h.lp = e.lp
      /\ h.stable = e.stable /\ h.asset = e.asset /\ h.exposure = e.exposure
      /\ h.hold = e.hold /\ h.debt = e.debt /\ h.start = e.start /\ h.paid = e.paid
      /\ h.fee[u] = e.fee[u] + FundingFee(e, u, e.f)
      /\ \A w \in Users \ {u} : h.fee[w] = e.fee[w]
  BY <1>4, ChargedFields
<1>6. LpBalance(h, u) = LpBalance(e, u) /\ h \in Books /\ Sound(h)
  BY <1>4, ChargedShares, ChargedSound DEF Sound
<1>. DEFINE b == LpBalance(e, u)
<1>7. /\ in[1] \in Nat /\ in[2] \in Nat /\ b[1] \in Nat /\ b[2] \in Nat
      /\ e.stable \in Nat /\ e.asset \in Nat /\ e.debt \in [Users -> Nat]
      /\ e.hold[u] \in Int /\ e.debt[u] \in Nat
  BY <1>4, BooksFields, BalanceFits
<1>8. v[1] = in[1] + b[1] /\ v[2] = in[2] + b[2] /\ v \in Nat \X Nat
  BY <1>6, <1>7 DEF Add
<1>. HIDE DEF h, v, b
<1>9. /\ debt \in [Users -> Nat] /\ stable \in Nat /\ asset \in Nat
      /\ debt[u] = h.debt[u] + in[2]
      /\ \A w \in Users \ {u} : debt[w] = h.debt[w]
  BY <1>5, <1>7
<1>. HIDE DEF debt, stable, asset
<1>10. /\ k \in Books /\ k.last = h.last /\ k.f = h.f /\ k.g = h.g /\ k.m = h.m /\ k.lp = h.lp
       /\ k.stable = stable /\ k.asset = asset /\ k.debt = debt /\ k.hold = h.hold
       /\ k.start = h.start /\ k.fee = h.fee /\ k.paid = h.paid
  BY <1>6, <1>9 DEF Books
<1>. HIDE DEF k
<1>11. /\ d.last = k.last /\ d.f = k.f /\ d.g = k.g /\ d.m = k.m
       /\ d.stable = k.stable /\ d.asset = k.asset
       /\ d.hold = k.hold /\ d.debt = k.debt /\ d.fee = k.fee /\ d.paid = k.paid
       /\ d.start[u] = k.f /\ d.lp[u].v = v
       /\ v # <<0, 0>> => d.lp[u].m = k.m /\ d.lp[u].g = k.g
       /\ \A w \in Users \ {u} : d.lp[w] = k.lp[w] /\ d.start[w] = k.start[w]
  BY <1>10, SnapshotFields
<1>. HIDE DEF d
<1>12. /\ d.stable = e.stable + v[1] - LpBalance(e, u)[1]
       /\ d.asset = e.asset + v[2] - LpBalance(e, u)[2]
       /\ d.hold[u] - d.debt[u] = e.hold[u] - e.debt[u] - (v[2] - LpBalance(e, u)[2])
  <2>1. /\ d.stable = e.stable + in[1] /\ d.asset = e.asset + in[2]
        /\ d.hold[u] = e.hold[u] /\ d.debt[u] = e.debt[u] + in[2]
    BY <1>5, <1>9, <1>10, <1>11 DEF stable, asset
  <2>2. LpBalance(e, u)[1] = b[1] /\ LpBalance(e, u)[2] = b[2]
    BY DEF b
  <2>. QED  BY ONLY <1>7, <1>8, <2>1, <2>2
<1>13. Repositions(e, d, u, v)
  <2>1. /\ d.last = e.last /\ d.f = e.f /\ d.g = e.g /\ d.m = e.m /\ d.paid = e.paid
        /\ d.start[u] = e.f /\ d.lp[u].v = v
        /\ v # <<0, 0>> => d.lp[u].m = e.m /\ d.lp[u].g = e.g
        /\ d.fee[u] = e.fee[u] + FundingFee(e, u, e.f)
    BY <1>5, <1>10, <1>11
  <2>2. \A w \in Users \ {u} :
          /\ d.lp[w] = e.lp[w] /\ d.start[w] = e.start[w] /\ d.fee[w] = e.fee[w]
          /\ d.hold[w] = e.hold[w] /\ d.debt[w] = e.debt[w]
    BY <1>5, <1>9, <1>10, <1>11
  <2>. QED  BY <1>12, <2>1, <2>2 DEF Repositions
<1>14. Carries(e, d)
  BY ONLY <1>2, <1>3, <1>4, <1>8, <1>13, now \in Nat, u \in Users, RepositionCarries
<1>. QED  BY <1>3, <1>4, <1>14, CarriesOn

\* An LP without a share has no position either.
LEMMA NoShareNoPosition ==
    ASSUME NEW c, Ready(c), NEW u \in Users, LpBalance(c, u) = <<0, 0>>
    PROVE  ~ Provides(c, u)
<1>. SUFFICES ASSUME Provides(c, u) PROVE FALSE
  OBVIOUS
<1>. DEFINE p == c.lp[u]
            det == Det(p.m)
            st == Start(p)
<1>1. c \in Books /\ Sound(c) /\ Det(c.m) > 0 /\ Sharing(c)
  BY DEF Ready, Fit, Sound
<1>2. p \in Position /\ p.m \in Rows /\ c.m \in Rows
  BY <1>1, BooksFields DEF Position
<1>3. det \in Int /\ det > 0 /\ Det(c.m) \in Int /\ Det(c.m) > 0
  BY <1>1, <1>2, DetInt DEF Sound
<1>4. Dot(c.m.s, st) = 0 /\ Dot(c.m.a, st) = 0
  <2>1. LpBalance(c, u)[1] = 0 /\ LpBalance(c, u)[2] = 0
    OBVIOUS
  <2>2. /\ Dot(c.m.s, st) = det * LpBalance(c, u)[1]
        /\ Dot(c.m.a, st) = det * LpBalance(c, u)[2]
    BY <1>1 DEF Sharing
  <2>. HIDE DEF det, st
  <2>. QED  BY <1>3, <2>1, <2>2
<1>. DEFINE a == c.m.s[1]
            b == c.m.s[2]
            e == c.m.a[1]
            f == c.m.a[2]
            x == st[1]
            y == st[2]
<1>5. /\ a \in Int /\ b \in Int /\ e \in Int /\ f \in Int /\ x \in Int /\ y \in Int
      /\ Det(c.m) = a * f - e * b /\ a * x + b * y = 0 /\ e * x + f * y = 0
  BY <1>2, <1>4, StartRow DEF Rows, Det, Dot
<1>6. x = 0 /\ y = 0
  <2>. HIDE DEF a, b, e, f, x, y
  <2>. DEFINE D == Det(c.m)
  <2>1. D * x = f * (a * x + b * y) - b * (e * x + f * y)
    BY ONLY <1>5
  <2>2. D * y = a * (e * x + f * y) - e * (a * x + b * y)
    BY ONLY <1>5
  <2>. HIDE DEF D
  <2>3. D \in Int /\ D > 0
    BY <1>3 DEF D
  <2>4. D * x = D * 0 /\ D * y = D * 0
    BY <1>5, <2>1, <2>2, <2>3
  <2>. QED  BY ONLY <1>5, <2>3, <2>4, Cancel
<1>. DEFINE i == p.m.s[1]
            j == p.m.s[2]
            k == p.m.a[1]
            l == p.m.a[2]
            v == p.v[1]
            w == p.v[2]
<1>7. /\ i \in Int /\ j \in Int /\ k \in Int /\ l \in Int /\ v \in Int /\ w \in Int
      /\ det = i * l - k * j /\ x = l * v - j * w /\ y = i * w - k * v
      /\ p.v = <<v, w>>
  BY <1>2 DEF Rows, Position, Det, Start
<1>8. v = 0 /\ w = 0
  <2>. HIDE DEF i, j, k, l, v, w, x, y, det
  <2>1. det * v = i * (l * v - j * w) + j * (i * w - k * v)
    BY ONLY <1>7
  <2>2. det * w = k * (l * v - j * w) + l * (i * w - k * v)
    BY ONLY <1>7
  <2>3. l * v - j * w = 0 /\ i * w - k * v = 0
    BY <1>6, <1>7
  <2>4. det * v = i * 0 + j * 0 /\ det * w = k * 0 + l * 0
    BY <2>1, <2>2, <2>3
  <2>5. det * v = det * 0 /\ det * w = det * 0
    BY ONLY <1>3, <1>7, <2>4
  <2>6. det \in Int /\ det > 0 /\ v \in Int /\ w \in Int /\ 0 \in Int
    BY <1>3, <1>7
  <2>7. v = 0
    BY ONLY <2>5, <2>6, Cancel
  <2>8. w = 0
    BY ONLY <2>5, <2>6, Cancel
  <2>. QED  BY <2>7, <2>8
<1>. QED  BY <1>7, <1>8 DEF Provides

\* What a close starts with leaves the account without liquidity and debt.
LEMMA UnwoundCarries ==
    ASSUME NEW c, Ready(c), now \in Nat, NEW u \in Users
    PROVE  LET d == Unwound(c, u)
           IN  /\ Carries(c, d) /\ Sound(d) /\ Sharing(d) /\ d.last <= now
               /\ ~ Provides(d, u) /\ d.debt[u] = 0
<1>0. Fit(c) /\ Sound(c) /\ Sharing(c) /\ c.last <= now
  BY DEF Ready, Fit
<1>1. CASE LpBalance(c, u) = <<0, 0>> /\ c.debt[u] = 0
  <2>1. Unwound(c, u) = c
    BY <1>1 DEF Unwound
  <2>2. ~ Provides(c, u)
    BY <1>1, NoShareNoPosition
  <2>. QED  BY <1>0, <1>1, <2>1, <2>2 DEF Carries
<1>2. CASE ~ (LpBalance(c, u) = <<0, 0>> /\ c.debt[u] = 0)
  <2>. DEFINE v == LpBalance(c, u)
              d == Withdraw(c, u, v)
              hold == [d.hold EXCEPT ![u] = @ - d.debt[u]]
              exposure == d.exposure - d.debt[u]
              debt == [d.debt EXCEPT ![u] = 0]
              e == [d EXCEPT !.hold = hold, !.exposure = exposure, !.debt = debt]
  <2>1. Withdrawable(c, u, v) /\ v[1] \in Nat /\ v[2] \in Nat
    BY <1>0, BalanceFits DEF Withdrawable
  <2>2. /\ Carries(c, d) /\ Ready(d) /\ d.last = now
        /\ d.lp[u].v = <<v[1] - v[1], v[2] - v[2]>>
    BY <2>1, WithdrawCarries
  <2>3. Unwound(c, u) = e
    BY <1>2 DEF Unwound
  <2>4. Fit(d) /\ Sound(d) /\ Sharing(d) /\ d \in Books
    BY <2>2 DEF Ready, Fit, Sound
  <2>5. d.lp[u].v = <<0, 0>>
    <3>. HIDE DEF v, d
    <3>1. v[1] - v[1] = 0 /\ v[2] - v[2] = 0
      BY ONLY <2>1
    <3>. QED  BY <2>2, <3>1
  <2>. HIDE DEF v, d
  <2>6. d.hold \in [Users -> Int] /\ d.exposure \in Int /\ d.debt \in [Users -> Nat]
    BY <2>4, BooksFields
  <2>7. /\ hold \in [Users -> Int] /\ exposure \in Int /\ debt \in [Users -> Nat]
        /\ hold[u] = d.hold[u] - d.debt[u] /\ debt[u] = 0
        /\ \A w \in Users \ {u} : hold[w] = d.hold[w] /\ debt[w] = d.debt[w]
    BY <2>6
  <2>. HIDE DEF hold, exposure, debt
  <2>8. /\ e \in Books /\ e.last = d.last /\ e.f = d.f /\ e.g = d.g /\ e.m = d.m /\ e.lp = d.lp
        /\ e.stable = d.stable /\ e.asset = d.asset /\ e.hold = hold /\ e.debt = debt
        /\ e.start = d.start /\ e.fee = d.fee /\ e.paid = d.paid
    BY <2>4, <2>7 DEF Books
  <2>. HIDE DEF e
  <2>9. Sound(e)
    BY <2>4, <2>8 DEF Sound, Provides
  <2>10. Sharing(e)
    BY <2>4, <2>8, <2>9, SharesStay DEF SameSnapshot
  <2>11. Total(e) = Total(d)
    <3>1. Total(e) = Total(d) + (e.hold[u] - d.hold[u]) + (e.asset - d.asset)
                              - (e.debt[u] - d.debt[u])
      BY <2>4, <2>7, <2>8, TotalChanged
    <3>2. /\ d.hold[u] \in Int /\ d.debt[u] \in Int /\ d.asset \in Int
          /\ e.hold[u] = d.hold[u] - d.debt[u] /\ e.debt[u] = 0 /\ e.asset = d.asset
      BY <2>4, <2>6, <2>7, <2>8, BooksFields
    <3>3. Total(d) \in Int
      <4>1. d.hold \in [Users -> Int] /\ d.debt \in [Users -> Int]
        BY <2>6
      <4>. QED  BY <3>2, <4>1, UsersFinite, SumInt DEF Total
    <3>. QED  BY ONLY <3>1, <3>2, <3>3
  <2>12. \A w \in Users : Due(e, w) = Due(d, w)
    <3>. SUFFICES ASSUME NEW w \in Users PROVE Due(e, w) = Due(d, w)
      OBVIOUS
    <3>1. Untouched(d, e, w)
      <4>1. e.hold[w] - e.debt[w] = d.hold[w] - d.debt[w]
        <5>1. CASE w = u
          <6>1. (d.hold[u] - d.debt[u]) - 0 = d.hold[u] - d.debt[u]
            <7>1. d.hold[u] \in Int /\ d.debt[u] \in Int
              BY <2>6
            <7>. QED  BY ONLY <7>1
          <6>. QED  BY <2>7, <2>8, <5>1, <6>1
        <5>2. CASE w # u
          BY <2>7, <2>8, <5>2
        <5>. QED  BY <5>1, <5>2
      <4>. QED  BY <2>8, <4>1 DEF Untouched
    <3>2. Settling(e, w) = Settling(d, w)
      BY <2>4, <2>8, <2>9, <2>10, <3>1, SettlingStays
    <3>. QED  BY <2>2, <2>4, <2>8, <2>9, <3>2, DueNow
  <2>13. Carries(d, e)
    BY <2>8, <2>9, <2>10, <2>11, <2>12 DEF Carries
  <2>14. Carries(c, e)
    BY <2>2, <2>13, CarriesOn
  <2>15. ~ Provides(e, u) /\ e.debt[u] = 0 /\ e.last <= now
    BY <2>2, <2>5, <2>7, <2>8 DEF Provides
  <2>. QED  BY <2>3, <2>9, <2>10, <2>14, <2>15
<1>. QED  BY <1>1, <1>2

\* A step that charges an account what it owes, and nothing else.
Charges(c, d, u) ==
    /\ Sound(d) /\ Sharing(d) /\ Total(d) = Total(c)
    /\ d.paid = [c.paid EXCEPT ![u] = @ + Due(c, u)]
    /\ Due(d, u) = 0
    /\ \A w \in Users \ {u} : Due(d, w) = Due(c, w)

\* What is charged may be carried before.
LEMMA CarriesCharges ==
    ASSUME NEW c, NEW d, NEW e, NEW u \in Users, Carries(c, d), Charges(d, e, u)
    PROVE  Charges(c, e, u)
BY DEF Carries, Charges

\* The end of a close charges what is due, and leaves nothing owed.
LEMMA ChargeCharges ==
    ASSUME NEW c, Sound(c), Sharing(c), now \in Nat, c.last <= now, NEW u \in Users,
           ~ Provides(c, u), c.hold[u] = 0, c.debt[u] = 0
    PROVE  Charges(c, Charge(c, u), u)
<1>. DEFINE x == Due(c, u)
            paid == [c.paid EXCEPT ![u] = @ + x]
            fee == [c.fee EXCEPT ![u] = 0]
            start == [c.start EXCEPT ![u] = 0]
            d == Charge(c, u)
<1>1. c \in Books
  BY DEF Sound
<1>2. d = [c EXCEPT !.paid = paid, !.fee = fee, !.start = start]
  BY <1>1 DEF Charge, Books
<1>3. Sound(d)
  BY ChargeSound
<1>. HIDE DEF x
<1>4. /\ fee[u] = 0 /\ \A w \in Users \ {u} : fee[w] = c.fee[w]
      /\ \A w \in Users \ {u} : start[w] = c.start[w]
  BY <1>1, BooksFields
<1>. HIDE DEF paid, fee, start, d
<1>5. /\ d.last = c.last /\ d.f = c.f /\ d.g = c.g /\ d.m = c.m /\ d.lp = c.lp
      /\ d.stable = c.stable /\ d.asset = c.asset /\ d.exposure = c.exposure
      /\ d.hold = c.hold /\ d.debt = c.debt
      /\ d.start = start /\ d.fee = fee /\ d.paid = paid
  BY <1>1, <1>2 DEF Books
<1>6. Sharing(d)
  BY <1>3, <1>5, SharesStay DEF SameSnapshot
<1>7. Total(d) = Total(c)
  BY <1>5, SameTotal
<1>8. Due(d, u) = 0
  BY <1>3, <1>4, <1>5, NothingDue DEF Provides
<1>9. \A w \in Users \ {u} : Due(d, w) = Due(c, w)
  <2>. SUFFICES ASSUME NEW w \in Users \ {u} PROVE Due(d, w) = Due(c, w)
    OBVIOUS
  <2>1. /\ d.lp[w] = c.lp[w] /\ d.start[w] = c.start[w] /\ d.fee[w] = c.fee[w]
        /\ d.hold[w] = c.hold[w] /\ d.debt[w] = c.debt[w] /\ w \in Users
    BY <1>4, <1>5
  <2>. QED  BY <1>5, <2>1, DueStays
<1>. QED  BY <1>3, <1>5, <1>6, <1>7, <1>8, <1>9 DEF Charges, d, paid, x

\* A close charges what is due before it, and nothing of it is left.
LEMMA CloseCharges ==
    ASSUME NEW c, Ready(c), now \in Nat, NEW u \in Users, NEW e \in Close(c, u)
    PROVE  Charges(c, e, u)
<1>. DEFINE d == Unwound(c, u)
            n == d.hold[u]
            S == IF n > 0 THEN Shorts(d, u, n) ELSE IF n < 0 THEN Longs(d, u, -n) ELSE {d}
<1>1. /\ Carries(c, d) /\ Sound(d) /\ Sharing(d) /\ d.last <= now
      /\ ~ Provides(d, u) /\ d.debt[u] = 0
  BY UnwoundCarries
<1>2. PICK t \in S : e = Charge(t, u)
  BY DEF Close
<1>. HIDE DEF d
<1>3. n \in Int
  BY <1>1, BooksFields DEF Sound
<1>4. Carries(d, t) /\ t.hold[u] = 0 /\ t.debt[u] = 0 /\ ~ Provides(t, u)
  <2>1. CASE n > 0
    <3>1. n \in Nat /\ t \in Shorts(d, u, n)
      BY <1>2, <1>3, <2>1
    <3>2. /\ Carries(d, t) /\ t.hold[u] = d.hold[u] - n /\ t.debt = d.debt
          /\ Provides(t, u) <=> Provides(d, u)
      <4>. HIDE DEF n
      <4>. QED  BY ONLY <1>1, <3>1, now \in Nat, u \in Users, ShortsCarry
    <3>. QED  BY <1>1, <1>3, <3>2
  <2>2. CASE n < 0
    <3>. DEFINE k == -n
    <3>1. k \in Nat /\ t \in Longs(d, u, k)
      BY <1>2, <1>3, <2>2
    <3>2. /\ Carries(d, t) /\ t.hold[u] = d.hold[u] + k /\ t.debt = d.debt
          /\ Provides(t, u) <=> Provides(d, u)
      <4>. HIDE DEF k, n
      <4>. QED  BY ONLY <1>1, <3>1, now \in Nat, u \in Users, LongsCarry
    <3>. QED  BY <1>1, <1>3, <3>2
  <2>3. CASE n = 0
    <3>1. t = d
      BY <1>2, <2>3
    <3>. QED  BY <1>1, <2>3, <3>1 DEF Carries
  <2>. QED  BY <1>3, <2>1, <2>2, <2>3
<1>5. Sound(t) /\ Sharing(t)
  BY <1>4 DEF Carries
<1>6. t.last <= now
  <2>1. CASE n > 0
    <3>1. n \in Nat /\ t \in Shorts(d, u, n)
      BY <1>2, <1>3, <2>1
    <3>. HIDE DEF n
    <3>. QED  BY <1>1, <3>1, ShortsSound
  <2>2. CASE n < 0
    <3>1. -n \in Nat /\ t \in Longs(d, u, -n)
      BY <1>2, <1>3, <2>2
    <3>. HIDE DEF n
    <3>. QED  BY <1>1, <3>1, LongsSound
  <2>3. CASE n = 0
    BY <1>1, <1>2, <2>3
  <2>. QED  BY <1>3, <2>1, <2>2, <2>3
<1>7. Charges(t, e, u)
  BY <1>2, <1>4, <1>5, <1>6, ChargeCharges
<1>. QED  BY <1>1, <1>4, <1>7, CarriesOn, CarriesCharges

-----------------------------------------------------------------------------
(* Liquidations, and the step of the eager funding.                        *)

\* The sums of the abstract specification are the same operator.
LEMMA EagerSum ==
    ASSUME NEW f
    PROVE  Eager!SumFunction(f) = SumFunction(f)
<1>1. SumFunction(f) = Iter(f, DOMAIN f)[DOMAIN f]
  BY SumIsIter DEF SumFunction
<1>2. Eager!SumFunction(f) = Iter(f, DOMAIN f)[DOMAIN f]
  BY Zenon DEF Eager!SumFunction, Eager!SumFunctionOnSet, Eager!FoldFunctionOnSet,
         Eager!MapThenFoldSet, Iter, Table, Pick
<1>. QED  BY <1>1, <1>2

\* What a view shows every account to owe.
Owed == [u \in Users |-> Due(book, u)]

\* Positions of two accounts whose fees start anew may be exchanged.
LEMMA ShiftCarries ==
    ASSUME NEW c, Ready(c), now \in Nat, c.last = now,
           NEW u \in Users, NEW l \in Users, l # u, NEW size \in Int,
           Settled(c, u), Settled(c, l)
    PROVE  LET d == [c EXCEPT
                       !.hold = [[c.hold EXCEPT ![u] = @ - size] EXCEPT ![l] = @ + size],
                       !.start = [[c.start EXCEPT ![u] = c.f] EXCEPT ![l] = c.f]]
           IN  Carries(c, d) /\ Ready(d)
<1>. DEFINE one == [c.hold EXCEPT ![u] = @ - size]
            hold == [one EXCEPT ![l] = @ + size]
            start == [[c.start EXCEPT ![u] = c.f] EXCEPT ![l] = c.f]
            b == [c EXCEPT !.hold = one]
            d == [c EXCEPT !.hold = hold, !.start = start]
<1>1. /\ Fit(c) /\ Sound(c) /\ Sharing(c) /\ c \in Books /\ c.f \in Int
      /\ c.hold \in [Users -> Int] /\ c.debt \in [Users -> Nat] /\ c.start \in [Users -> Int]
      /\ c.asset \in Int
  BY BooksFields DEF Ready, Fit, Sound
<1>2. /\ one \in [Users -> Int] /\ hold \in [Users -> Int] /\ start \in [Users -> Int]
      /\ one[u] = c.hold[u] - size /\ \A w \in Users \ {u} : one[w] = c.hold[w]
      /\ hold[l] = one[l] + size /\ \A w \in Users \ {l} : hold[w] = one[w]
      /\ start[u] = c.f /\ start[l] = c.f /\ \A w \in Users \ {u, l} : start[w] = c.start[w]
  BY <1>1
<1>. HIDE DEF one, hold, start
<1>3. /\ b \in Books /\ b.hold = one /\ b.debt = c.debt /\ b.asset = c.asset
  BY <1>1, <1>2 DEF Books
<1>4. /\ d \in Books /\ d.last = c.last /\ d.f = c.f /\ d.g = c.g /\ d.m = c.m /\ d.lp = c.lp
      /\ d.stable = c.stable /\ d.asset = c.asset /\ d.hold = hold /\ d.debt = c.debt
      /\ d.start = start /\ d.fee = c.fee /\ d.paid = c.paid
  BY <1>1, <1>2 DEF Books
<1>. HIDE DEF b, d
<1>5. Sound(d)
  BY <1>1, <1>4 DEF Sound, Provides
<1>6. Sharing(d)
  BY <1>1, <1>4, <1>5, SharesStay DEF SameSnapshot
<1>7. Total(d) = Total(c)
  <2>1. Total(b) = Total(c) + (b.hold[u] - c.hold[u]) + (b.asset - c.asset)
                            - (b.debt[u] - c.debt[u])
    BY <1>1, <1>2, <1>3, TotalChanged
  <2>2. Total(d) = Total(b) + (d.hold[l] - b.hold[l]) + (d.asset - b.asset)
                            - (d.debt[l] - b.debt[l])
    BY <1>2, <1>3, <1>4, TotalChanged
  <2>3. /\ c.hold[u] \in Int /\ c.debt[u] \in Int /\ c.debt[l] \in Int /\ one[l] \in Int
    BY <1>1, <1>2
  <2>4. Total(c) \in Int
    <3>1. c.debt \in [Users -> Int]
      BY <1>1
    <3>. QED  BY <1>1, <3>1, UsersFinite, SumInt DEF Total
  <2>5. /\ b.hold[u] = c.hold[u] - size /\ b.asset = c.asset /\ b.debt[u] = c.debt[u]
        /\ b.hold[l] = one[l] /\ b.debt[l] = c.debt[l]
        /\ d.hold[l] = one[l] + size /\ d.asset = c.asset /\ d.debt[l] = c.debt[l]
    BY <1>2, <1>3, <1>4
  <2>6. Total(b) = Total(c) - size
    BY ONLY <1>1, <2>1, <2>3, <2>4, <2>5, size \in Int
  <2>7. Total(b) \in Int
    BY <2>4, <2>6
  <2>8. Total(d) = Total(b) + size
    BY ONLY <1>1, <2>2, <2>3, <2>5, <2>7, size \in Int
  <2>. QED  BY ONLY <2>4, <2>6, <2>8, size \in Int
<1>8. \A w \in Users : Due(d, w) = Due(c, w)
  <2>. SUFFICES ASSUME NEW w \in Users PROVE Due(d, w) = Due(c, w)
    OBVIOUS
  <2>1. Due(d, w) = Settling(d, w) /\ Due(c, w) = Settling(c, w)
    BY <1>1, <1>4, <1>5, DueNow
  <2>2. CASE w \in {u, l}
    <3>1. Settled(c, w) /\ Settled(d, w)
      BY <1>2, <1>4, <2>2 DEF Settled, Provides
    <3>2. Settling(d, w) = d.fee[w] /\ Settling(c, w) = c.fee[w]
      BY <1>1, <1>5, <1>6, <3>1, SettledSettling
    <3>. QED  BY <1>4, <2>1, <3>2
  <2>3. CASE w \notin {u, l}
    <3>1. Untouched(c, d, w)
      BY <1>2, <1>4, <2>3 DEF Untouched
    <3>2. Settling(d, w) = Settling(c, w)
      BY <1>1, <1>4, <1>5, <1>6, <3>1, SettlingStays
    <3>. QED  BY <2>1, <3>2
  <2>. QED  BY <2>2, <2>3
<1>9. Carries(c, d)
  BY <1>4, <1>5, <1>6, <1>7, <1>8 DEF Carries
<1>10. Ready(d)
  BY <1>1, <1>4, <1>5, <1>6 DEF Ready, Fit
<1>. QED  BY <1>9, <1>10 DEF d, one, hold, start

-----------------------------------------------------------------------------
(* Every step of the lazy funding is one of the eager one.                 *)

\* The pool is the LPs'.
SInv == IInv /\ Sharing(book)

\* The books between calls, and after update_fg.
LEMMA SInvReady ==
    ASSUME SInv
    PROVE  /\ Ready(book) /\ Sound(book) /\ Sharing(book) /\ book.last <= now /\ now \in Nat
           /\ LET c == UpdateFG(book)
              IN  Carries(book, c) /\ Ready(c) /\ Sound(c) /\ Sharing(c) /\ c.last = now
<1>1. /\ Fit(book) /\ now \in Nat /\ book.last <= now /\ Fit(UpdateFG(book)) /\ book \in Books
      /\ Sharing(book) /\ Sound(book)
  BY InvFit DEF SInv, Fit
<1>2. Carries(book, UpdateFG(book))
  BY <1>1, UpdateFGCarries
<1>3. UpdateFG(book).last = now
  BY <1>1, UpdateFGFields
<1>4. Sound(UpdateFG(book)) /\ Sharing(UpdateFG(book))
  BY <1>2 DEF Carries
<1>. QED  BY <1>1, <1>2, <1>3, <1>4 DEF Ready

\* A step of the eager funding that takes the books to c.
Moving(c) == Carries(book, c) \/ \E u \in Users : Charges(book, c, u)

\* What the properties see of the books.
LEMMA Seen ==
    /\ Net = NetOf(book)
    /\ \A c : now' = now /\ book' = c => /\ Net' = NetOf(c) /\ Owed' = [u \in Users |-> Due(c, u)]
                                         /\ Speed(book)' = Speed(c) /\ book'.paid = c.paid
<1>1. Net = NetOf(book)
  BY DEF Net, NetOf
<1>. SUFFICES ASSUME NEW c, now' = now, book' = c
              PROVE  /\ Net' = NetOf(c) /\ Owed' = [u \in Users |-> Due(c, u)]
                     /\ Speed(book)' = Speed(c) /\ book'.paid = c.paid
  BY <1>1
<1>2. Net' = NetOf(c)
  BY DEF Net, NetOf, LpBalance, Provides, Dot, Start, Det, Clamped
<1>3. Speed(book)' = Speed(c)
  BY DEF Speed
<1>4. \A u \in Users : Due(book, u)' = Due(c, u)
  BY DEF Due, FundingFee, FundingRate, Speed, Star, Provides, Dot, Start, Det, Add, Times
<1>5. Owed' = [u \in Users |-> Due(c, u)]
  BY <1>4 DEF Owed
<1>. QED  BY <1>2, <1>3, <1>5

\* A call whose outcomes carry or charge is a step of the eager funding.
LEMMA TakesMoves ==
    ASSUME SInv, NEW S, Takes(S), \A c \in S : Moving(c)
    PROVE  Sharing(book)' /\ (Eager!Call \/ \E u \in Users : Eager!Charge(u))
<1>1. PICK c \in S : Within(c) /\ book' = c /\ now' = now
  BY DEF Takes
<1>2. Moving(c)
  BY <1>1
<1>3. /\ Net = NetOf(book) /\ Net' = NetOf(c) /\ Owed' = [u \in Users |-> Due(c, u)]
      /\ Speed(book)' = Speed(c) /\ book'.paid = c.paid
  BY <1>1, Seen
<1>4. Sound(c) /\ Sharing(c) /\ Total(c) = Total(book)
  BY <1>2 DEF Moving, Carries, Charges
<1>5. Sharing(book)'
  <2>1. Sharing(book')
    BY <1>1, <1>4
  <2>. QED  BY <2>1 DEF Sharing, Leg, LpBalance, Provides
<1>6. Eager!Moves
  <2>1. /\ NetOf(c) \in [Users -> Int] /\ SumFunction(NetOf(c)) = Total(c)
    BY <1>4, NetSum
  <2>2. SumFunction(NetOf(book)) = Total(book)
    BY SInvReady, NetSum
  <2>3. Speed(c) \in Int
    BY <1>4, SInvReady, RateInt DEF Sound
  <2>4. Eager!SumFunction(NetOf(c)) = Eager!SumFunction(NetOf(book))
    BY <1>4, <2>1, <2>2, EagerSum
  <2>. QED  BY <1>3, <2>1, <2>3, <2>4 DEF Eager!Moves
<1>7. CASE Carries(book, c)
  <2>1. Owed' = Owed /\ book'.paid = book.paid
    BY <1>3, <1>7 DEF Carries, Owed
  <2>. QED  BY <1>5, <1>6, <2>1 DEF Eager!Call, Owed
<1>8. ASSUME NEW u \in Users, Charges(book, c, u)
      PROVE  Eager!Charge(u)
  <2>1. Owed' = [Owed EXCEPT ![u] = 0]
    <3>1. \A w \in Users : Owed'[w] = [Owed EXCEPT ![u] = 0][w]
      BY <1>3, <1>8 DEF Charges, Owed
    <3>. QED  BY <1>3, <3>1 DEF Owed
  <2>2. book'.paid = [book.paid EXCEPT ![u] = @ + Owed[u]]
    BY <1>3, <1>8 DEF Charges, Owed
  <2>. QED  BY <1>6, <2>1, <2>2 DEF Eager!Charge, Owed
<1>. QED  BY <1>2, <1>5, <1>7, <1>8 DEF Moving

\* A liquidation settles both, then moves the position.
LEMMA LiquidateMoves ==
    ASSUME SInv, NEW l \in Users, NEW u \in Users, Liquidate(l, u)
    PROVE  Sharing(book)' /\ (Eager!Call \/ \E w \in Users : Eager!Charge(w))
<1>. DEFINE c == UpdateFG(book)
            k == Settle(c, l)
            d == Settle(k, u)
            v == LpBalance(d, u)
            Size(part) == (d.hold[u] + v[2] - d.debt[u]) \div part
            Out(part)  == <<v[1] \div part, v[2] \div part>>
            E(part)    == IF Out(part) = <<0, 0>> THEN d ELSE Withdraw(d, u, Out(part))
            Moved(part) ==
              [E(part) EXCEPT
                 !.hold = [[E(part).hold EXCEPT ![u] = @ - Size(part)] EXCEPT ![l] = @ + Size(part)],
                 !.start = [[E(part).start EXCEPT ![u] = E(part).f] EXCEPT ![l] = E(part).f]]
<1>1. PICK part \in {1, 2} :
          Takes(IF part = 1 THEN Close(Moved(part), u) ELSE {Moved(part)})
  BY DEF Liquidate
<1>2. l # u
  BY DEF Liquidate
<1>. DEFINE size == Size(part)
            out  == Out(part)
            e    == E(part)
            moved == Moved(part)
<1>3. /\ now \in Nat /\ Carries(book, c) /\ Ready(c) /\ c.last = now
  BY SInvReady
<1>. HIDE DEF c
<1>4. /\ Carries(c, k) /\ Ready(k) /\ k.last = now /\ Settled(k, l)
      /\ k.f = c.f /\ k.g = c.g
  BY <1>3, SettleCarries
<1>. HIDE DEF k
<1>5. /\ Carries(k, d) /\ Ready(d) /\ d.last = now /\ Settled(d, u)
      /\ d.f = k.f /\ d.g = k.g
      /\ \A w \in Users \ {u} : d.lp[w] = k.lp[w] /\ d.start[w] = k.start[w]
  BY <1>3, <1>4, SettleCarries
<1>. HIDE DEF d
<1>6. Settled(d, l)
  BY <1>2, <1>4, <1>5 DEF Settled, Provides
<1>7. Sound(d) /\ d \in Books /\ v[1] \in Nat /\ v[2] \in Nat
  BY <1>5, BalanceFits DEF Ready, Fit, Sound
<1>8. Withdrawable(d, u, out)
  <2>. HIDE DEF v
  <2>1. out \in Nat \X Nat /\ out[1] <= v[1] /\ out[2] <= v[2]
    <3>1. CASE part = 1
      BY <1>7, <3>1
    <3>2. CASE part = 2
      BY <1>7, <3>2
    <3>. QED  BY <3>1, <3>2
  <2>. HIDE DEF out
  <2>. QED  BY <2>1 DEF Withdrawable, v
<1>9. size \in Int
  <2>1. d.hold[u] \in Int /\ d.debt[u] \in Int
    BY <1>7, BooksFields
  <2>. HIDE DEF v
  <2>. QED  BY <1>7, <2>1
<1>10. Carries(d, e) /\ Ready(e) /\ e.last = now /\ Settled(e, u) /\ Settled(e, l)
  <2>1. CASE out = <<0, 0>>
    <3>1. e = d
      BY <2>1
    <3>2. Carries(d, d)
      BY <1>5 DEF Carries
    <3>. QED  BY <1>5, <1>6, <3>1, <3>2
  <2>2. CASE out # <<0, 0>>
    <3>1. e = Withdraw(d, u, out)
      BY <2>2
    <3>2. UpdateFG(d) = d
      BY <1>5 DEF UpdateFG
    <3>. HIDE DEF out, e
    <3>3. /\ Carries(d, e) /\ Ready(e) /\ e.last = now /\ Settled(e, u)
          /\ e.f = d.f /\ e.g = d.g
          /\ \A w \in Users \ {u} : e.lp[w] = d.lp[w] /\ e.start[w] = d.start[w]
      BY <1>3, <1>5, <1>8, <3>1, <3>2, WithdrawCarries
    <3>4. Settled(e, l)
      BY <1>2, <1>6, <3>3 DEF Settled, Provides
    <3>. QED  BY <3>3, <3>4
  <2>. QED  BY <2>1, <2>2
<1>11. moved = [e EXCEPT
                  !.hold = [[e.hold EXCEPT ![u] = @ - size] EXCEPT ![l] = @ + size],
                  !.start = [[e.start EXCEPT ![u] = e.f] EXCEPT ![l] = e.f]]
  OBVIOUS
<1>. HIDE DEF v, Size, Out, E, Moved, size, out, e, moved
<1>12. Carries(e, moved) /\ Ready(moved)
  BY <1>2, <1>3, <1>9, <1>10, <1>11, ShiftCarries
<1>13. Carries(book, moved)
  BY <1>3, <1>4, <1>5, <1>10, <1>12, CarriesOn
<1>. DEFINE S == IF part = 1 THEN Close(moved, u) ELSE {moved}
<1>14. \A x \in S : Moving(x)
  <2>1. \A x \in Close(moved, u) : Charges(book, x, u)
    BY <1>3, <1>12, <1>13, CloseCharges, CarriesCharges
  <2>. QED  BY <1>13, <2>1 DEF Moving
<1>15. Takes(S)
  BY <1>1 DEF moved
<1>. HIDE DEF S
<1>. QED  BY ONLY SInv, <1>14, <1>15, TakesMoves

\* What a view shows at another time.
DueAt(c, u, t) == c.fee[u] + FundingFee(c, u, c.f + Speed(c) * (t - c.last))

\* With the time, what is due grows by the speed times the net asset.
LEMMA DueGrows ==
    ASSUME NEW c, Sound(c), Sharing(c), now \in Nat, NEW u \in Users, NEW t \in Nat
    PROVE  DueAt(c, u, t + 1) = DueAt(c, u, t) + Speed(c) * NetOf(c)[u]
<1>. DEFINE s == Speed(c)
            r == s * (t - c.last)
            f == c.f + r
            g == Growth(c, u)
            b == LpBalance(c, u)[2]
            h == c.hold[u]
            o == c.debt[u]
            i == c.start[u]
            e == c.fee[u]
            k == c.f
<1>1. c \in Books /\ c.last \in Nat /\ s \in Int /\ k \in Int
  BY BooksFields, RateInt DEF Sound
<1>2. h \in Int /\ o \in Int /\ i \in Int /\ e \in Int
  BY <1>1, BooksFields
<1>3. b \in Int
  BY BalanceFits
<1>. HIDE DEF s
<1>4. r \in Int /\ k + s * ((t + 1) - c.last) = f + s
  <2>. DEFINE n == t - c.last
  <2>1. n \in Int /\ (t + 1) - c.last = n + 1
    BY <1>1
  <2>. HIDE DEF n, k
  <2>2. s * (n + 1) = s * n + s /\ s * n \in Int
    BY ONLY <1>1, <2>1
  <2>3. r = s * n
    BY DEF n
  <2>. HIDE DEF r
  <2>4. k + (r + s) = (k + r) + s
    BY ONLY <1>1, <2>2, <2>3
  <2>5. f = k + r
    BY DEF k
  <2>. HIDE DEF f
  <2>. QED  BY <2>1, <2>2, <2>3, <2>4, <2>5
<1>. HIDE DEF r
<1>5. f \in Int /\ f + s \in Int
  BY <1>1, <1>4
<1>6. /\ g \in Int /\ Star(c, u, f) = g + (f - k) * b
      /\ Star(c, u, f + s) = g + ((f + s) - k) * b
  BY <1>5, StarGrows
<1>7. /\ FundingFee(c, u, f) = g + (f - k) * b + (h - o) * (f - i)
      /\ FundingFee(c, u, f + s) = g + ((f + s) - k) * b + (h - o) * ((f + s) - i)
  BY <1>6 DEF FundingFee
<1>8. NetOf(c)[u] = h + b - o
  BY DEF NetOf
<1>9. DueAt(c, u, t) = e + FundingFee(c, u, f)
  BY DEF DueAt, s, r
<1>10. DueAt(c, u, t + 1) = e + FundingFee(c, u, f + s)
  <2>1. DueAt(c, u, t + 1) = e + FundingFee(c, u, k + s * ((t + 1) - c.last))
    BY DEF DueAt, s
  <2>. HIDE DEF f
  <2>. QED  BY <1>4, <2>1
<1>. HIDE DEF f, g, b, h, o, i, e, k
<1>11. e + (g + ((f + s) - k) * b + (h - o) * ((f + s) - i))
          = e + (g + (f - k) * b + (h - o) * (f - i)) + s * (h + b - o)
  <2>1. k \in Int /\ f \in Int /\ s \in Int
    BY <1>1, <1>5
  <2>2. ((f + s) - k) * b = (f - k) * b + s * b
    BY ONLY <1>3, <2>1
  <2>3. (h - o) * ((f + s) - i) = (h - o) * (f - i) + s * (h - o)
    BY ONLY <1>2, <2>1
  <2>4. s * (h + b - o) = s * (h - o) + s * b
    BY ONLY <1>2, <1>3, <2>1
  <2>. DEFINE x == (f - k) * b
              y == s * b
              z == (h - o) * (f - i)
              w == s * (h - o)
  <2>5. x \in Int /\ y \in Int /\ z \in Int /\ w \in Int
    BY <1>2, <1>3, <2>1
  <2>. HIDE DEF x, y, z, w
  <2>6. e + (g + (x + y) + (z + w)) = e + (g + x + z) + (w + y)
    BY ONLY <1>2, <1>6, <2>5
  <2>. QED  BY <2>2, <2>3, <2>4, <2>6 DEF x, y, z, w
<1>. QED  BY <1>7, <1>8, <1>9, <1>10, <1>11 DEF s

\* A block that passes lets every account owe more, and does nothing else.
LEMMA BlockTicks ==
    ASSUME SInv, NewBlock
    PROVE  Sharing(book)' /\ Eager!Tick
<1>1. /\ now' = now + 1 /\ book' = book /\ now \in Nat /\ Sound(book) /\ Sharing(book)
  BY SInvReady DEF NewBlock
<1>2. /\ Sharing(book)' /\ Net' = Net /\ Speed(book)' = Speed(book)
  BY <1>1 DEF Sharing, Leg, Net, LpBalance, Provides, Speed
<1>3. Owed' = [u \in Users |-> Owed[u] + Speed(book) * Net[u]]
  <2>1. ASSUME NEW u \in Users
        PROVE  Due(book, u)' = Due(book, u) + Speed(book) * Net[u]
    <3>1. Due(book, u) = DueAt(book, u, now)
      BY DEF Due, DueAt, FundingRate
    <3>2. Due(book, u)' = DueAt(book, u, now + 1)
      BY <1>1 DEF Due, DueAt, FundingRate, FundingFee, Speed, Star, Provides
    <3>3. DueAt(book, u, now + 1) = DueAt(book, u, now) + Speed(book) * NetOf(book)[u]
      BY <1>1, DueGrows
    <3>. QED  BY <3>1, <3>2, <3>3, Seen
  <2>. QED  BY <2>1 DEF Owed
<1>. QED  BY <1>1, <1>2, <1>3 DEF Eager!Tick, Owed

\* Every other call carries what is due, or charges one account.
LEMMA CallMoves ==
    ASSUME SInv, Next, ~ NewBlock
    PROVE  Sharing(book)' /\ (Eager!Call \/ \E u \in Users : Eager!Charge(u))
<1>0. /\ Ready(book) /\ Sound(book) /\ Sharing(book) /\ book.last <= now /\ now \in Nat
      /\ Carries(book, UpdateFG(book)) /\ Ready(UpdateFG(book)) /\ UpdateFG(book).last = now
  BY SInvReady
<1>1. CASE UpdateFGKeeper
  <2>1. \A c \in {UpdateFG(book)} : Moving(c)
    BY <1>0 DEF Moving
  <2>2. Takes({UpdateFG(book)})
    BY <1>1 DEF UpdateFGKeeper
  <2>. QED  BY ONLY SInv, <2>1, <2>2, TakesMoves
<1>2. ASSUME NEW u \in Users, Takes({Settle(UpdateFG(book), u)})
      PROVE  Sharing(book)' /\ (Eager!Call \/ \E w \in Users : Eager!Charge(w))
  <2>1. Carries(UpdateFG(book), Settle(UpdateFG(book), u))
    BY <1>0, SettleCarries
  <2>2. \A c \in {Settle(UpdateFG(book), u)} : Moving(c)
    BY <1>0, <2>1, CarriesOn DEF Moving
  <2>. QED  BY ONLY SInv, <1>2, <2>2, TakesMoves
<1>3. ASSUME NEW u \in Users, ExecuteTrade(u)
      PROVE  Sharing(book)' /\ (Eager!Call \/ \E w \in Users : Eager!Charge(w))
  <2>1. PICK size \in Amounts : Takes(Longs(book, u, size) \cup Shorts(book, u, size))
    BY <1>3 DEF ExecuteTrade
  <2>2. size \in Nat
    BY InputsFit
  <2>3. \A c \in Longs(book, u, size) : Moving(c)
    BY <1>0, <2>2, LongsCarry DEF Moving
  <2>4. \A c \in Shorts(book, u, size) : Moving(c)
    BY <1>0, <2>2, ShortsCarry DEF Moving
  <2>5. \A c \in Longs(book, u, size) \cup Shorts(book, u, size) : Moving(c)
    BY <2>3, <2>4
  <2>. QED  BY ONLY SInv, <2>1, <2>5, TakesMoves
<1>4. ASSUME NEW u \in Users, AddLiquidity(u)
      PROVE  Sharing(book)' /\ (Eager!Call \/ \E w \in Users : Eager!Charge(w))
  <2>1. PICK in \in Deposits : Takes({Deposit(book, u, in)})
    BY <1>4 DEF AddLiquidity
  <2>2. in \in Nat \X Nat
    BY InputsFit
  <2>3. \A c \in {Deposit(book, u, in)} : Moving(c)
    BY <1>0, <2>2, DepositCarries DEF Moving
  <2>. QED  BY ONLY SInv, <2>1, <2>3, TakesMoves
<1>5. ASSUME NEW u \in Users, RemoveLiquidity(u)
      PROVE  Sharing(book)' /\ (Eager!Call \/ \E w \in Users : Eager!Charge(w))
  <2>. DEFINE v == LpBalance(book, u)
  <2>1. PICK out \in Parts(v) : Takes({Withdraw(book, u, out)})
    BY <1>5 DEF RemoveLiquidity
  <2>2. Withdrawable(book, u, out)
    <3>1. v \in Nat \X Nat /\ v[1] \in Nat /\ v[2] \in Nat
      BY <1>0, BalanceFits
    <3>2. out = v \/ out = <<v[1] \div 2, v[2] \div 2>>
      BY <2>1 DEF Parts
    <3>. HIDE DEF v
    <3>3. out \in Nat \X Nat /\ out[1] <= v[1] /\ out[2] <= v[2]
      BY <3>1, <3>2
    <3>. QED  BY <3>3 DEF Withdrawable, v
  <2>3. \A c \in {Withdraw(book, u, out)} : Moving(c)
    BY <1>0, <2>2, WithdrawCarries DEF Moving
  <2>. QED  BY ONLY SInv, <2>1, <2>3, TakesMoves
<1>6. ASSUME NEW u \in Users, CloseAndWithdraw(u)
      PROVE  Sharing(book)' /\ (Eager!Call \/ \E w \in Users : Eager!Charge(w))
  <2>1. \A c \in Close(book, u) : Moving(c)
    BY <1>0, CloseCharges DEF Moving
  <2>2. Takes(Close(book, u))
    BY <1>6 DEF CloseAndWithdraw
  <2>. QED  BY ONLY SInv, <2>1, <2>2, TakesMoves
<1>. QED
  BY <1>1, <1>2, <1>3, <1>4, <1>5, <1>6, LiquidateMoves
     DEF Next, UpdateLpSnapshot, RealizePnL

\* Every step keeps the invariant, and is a step of the eager funding.
LEMMA SInvStep ==
    ASSUME SInv, [Next]_<<now, book>>
    PROVE  SInv' /\ [Eager!Next]_Eager!vars
<1>1. IInv'
  BY InvStep DEF SInv
<1>2. CASE UNCHANGED <<now, book>>
  <2>1. Sharing(book)'
    BY <1>2 DEF SInv, Sharing, Leg, LpBalance, Provides
  <2>2. now' = now /\ book' = book
    BY <1>2
  <2>3. /\ Net = NetOf(book) /\ Net' = NetOf(book) /\ Owed' = Owed
        /\ Speed(book)' = Speed(book) /\ book'.paid = book.paid
    BY <2>2, Seen DEF Owed
  <2>4. UNCHANGED Eager!vars
    BY <2>3 DEF Eager!vars, Owed
  <2>. QED  BY <1>1, <2>1, <2>4 DEF SInv
<1>3. CASE NewBlock
  BY <1>1, <1>3, BlockTicks DEF SInv, Eager!Next
<1>4. CASE Next /\ ~ NewBlock
  BY <1>1, <1>4, CallMoves DEF SInv, Eager!Next
<1>. QED  BY <1>2, <1>3, <1>4

\* So are the first states.
LEMMA SInvInit ==
    ASSUME Init
    PROVE  SInv /\ Eager!Init
<1>. DEFINE zero == [u \in Users |-> 0]
<1>1. IInv /\ Sound(book) /\ now = 0
  BY InvInit DEF IInv, Init
<1>2. /\ book.hold = zero /\ book.debt = zero /\ book.start = zero /\ book.fee = zero
      /\ book.paid = zero /\ book.stable = 0 /\ book.asset = 0 /\ book.exposure = 0
      /\ book.f = 0 /\ book.last = 0 /\ \A u \in Users : book.lp[u] = NoPosition
  BY DEF Init, Zero
<1>3. \A u \in Users : ~ Provides(book, u)
  BY <1>2 DEF Provides, NoPosition
<1>4. \A u \in Users : LpBalance(book, u) = <<0, 0>>
  BY <1>3 DEF LpBalance
<1>5. Leg(book, 1) = zero /\ Leg(book, 2) = zero
  BY <1>4 DEF Leg
<1>6. SumFunction(zero) = 0
  BY UsersFinite, SumZero
<1>7. Sharing(book)
  <2>. HIDE DEF zero
  <2>. QED  BY <1>2, <1>3, <1>5, <1>6 DEF Sharing
<1>8. Speed(book) = 0
  BY <1>2 DEF Speed
<1>9. \A u \in Users : book.hold[u] = 0 /\ book.debt[u] = 0 /\ book.fee[u] = 0
  BY <1>2
<1>10. Net = zero
  BY <1>4, <1>9 DEF Net
<1>11. Owed = zero
  <2>1. now \in Nat
    BY <1>1
  <2>2. \A u \in Users : Due(book, u) = 0
    BY <1>1, <1>3, <1>9, <2>1, NothingDue
  <2>. QED  BY <2>2 DEF Owed
<1>. QED  BY <1>1, <1>2, <1>7, <1>8, <1>10, <1>11 DEF SInv, Eager!Init, Owed

\* Types, and the pool the LPs' to the last unit: inductive.
LEMMA SharedInvariance == Spec => []SInv
<1>1. Init => SInv
  BY SInvInit
<1>2. SInv /\ [Next]_<<now, book>> => SInv'
  BY SInvStep
<1>. QED  BY <1>1, <1>2, PTL DEF Spec

\* The LPs own the pool between them to the last unit, whatever trades have
\* made of it: every balance that is recovered from a snapshot and the
\* matrices is exact, and the balances add up to the legs of the pool
\* (funding.rs:15-98, liquidity.rs:109-300, trade.rs:207-392).
THEOREM PoolIsShared == Spec => []Sharing(book)
<1>1. SInv => Sharing(book)
  BY DEF SInv
<1>. QED  BY <1>1, SharedInvariance, PTL

\* The lazy funding implements the eager one: what a view shows an account to
\* owe grows with time alone, by the speed times the net asset, no call in
\* whatever order changes it, and a close charges exactly that
\* (funding.rs:216-354, trade.rs, liquidity.rs, close.rs, liquidation.rs).
THEOREM ImplementsEager == Spec => AccruesEagerly
<1>1. Init => Eager!Init
  BY SInvInit
<1>2. SInv /\ [Next]_<<now, book>> => [Eager!Next]_Eager!vars
  BY SInvStep
<1>. QED  BY <1>1, <1>2, SharedInvariance, PTL DEF Spec, AccruesEagerly, Eager!Spec

-----------------------------------------------------------------------------
(* Funding is a transfer.                                                  *)

\* ZeroSum in terms of the sums the lemmas are about.
LEMMA ZeroSumIs ==
    /\ ZeroSum <=> /\ SumFunction(Net) = 0
                   /\ SumFunction(Owed) + SumFunction(book.paid) = 0
    /\ ZeroSum' <=> /\ SumFunction(Net') = 0
                    /\ SumFunction(Owed') + SumFunction(book'.paid) = 0
<1>1. ZeroSum <=> /\ SumFunction(Net) = 0
                  /\ SumFunction(Owed) + SumFunction(book.paid) = 0
  BY EagerSum DEF ZeroSum, Eager!ZeroSum, Owed
<1>2. ZeroSum' <=> (/\ SumFunction(Net) = 0
                    /\ SumFunction(Owed) + SumFunction(book.paid) = 0)'
  BY <1>1, PTL
<1>. QED  BY <1>1, <1>2

\* Positions that move keep their sum.
LEMMA MovesBalance ==
    ASSUME Eager!Moves
    PROVE  /\ Net' \in [Users -> Int] /\ Speed(book)' \in Int
           /\ SumFunction(Net') = SumFunction(Net)
<1>. DEFINE n == Net'
<1>1. Eager!SumFunction(n) = Eager!SumFunction(Net) /\ n \in [Users -> Int] /\ Speed(book)' \in Int
  BY DEF Eager!Moves
<1>2. Eager!SumFunction(n) = SumFunction(n) /\ Eager!SumFunction(Net) = SumFunction(Net)
  BY EagerSum
<1>. QED  BY <1>1, <1>2

\* The eager state, typed and balanced.
Balanced == Eager!TypeOK /\ ZeroSum

\* A tick moves no funding in or out, since the positions cancel.
LEMMA TickKeeps ==
    ASSUME Balanced, Eager!Tick
    PROVE  Balanced'
<1>. DEFINE speed == Speed(book)
<1>1. /\ Net \in [Users -> Int] /\ Owed \in [Users -> Int]
      /\ speed \in Int /\ book.paid \in [Users -> Int]
  BY DEF Balanced, Eager!TypeOK, Owed
<1>2. /\ Owed' = [u \in Users |-> Owed[u] + speed * Net[u]]
      /\ Net' = Net /\ speed' = speed /\ book'.paid = book.paid
  BY DEF Eager!Tick, Owed
<1>3. /\ SumFunction(Net) = 0
      /\ SumFunction(Owed) + SumFunction(book.paid) = 0
  BY ZeroSumIs DEF Balanced
<1>. HIDE DEF speed
<1>4. SumFunction(Owed') = SumFunction(Owed) + speed * SumFunction(Net)
  <2>1. Owed' \in [Users -> Int] /\ \A u \in Users : Owed'[u] = Owed[u] + speed * Net[u]
    BY <1>1, <1>2
  <2>. QED  BY ONLY UsersFinite, <1>1, <2>1, SumLinear
<1>5. SumFunction(Owed) \in Int
  BY ONLY UsersFinite, <1>1, SumInt
<1>6. SumFunction(Owed') = SumFunction(Owed)
  BY <1>1, <1>3, <1>4, <1>5
<1>7. ZeroSum'
  BY <1>2, <1>3, <1>6, ZeroSumIs
<1>8. Owed' \in [Users -> Int]
  BY <1>1, <1>2
<1>9. Eager!TypeOK'
  BY <1>1, <1>2, <1>8 DEF Eager!TypeOK, Owed, speed
<1>. QED  BY <1>7, <1>9 DEF Balanced

\* A call moves positions only.
LEMMA CallKeeps ==
    ASSUME Balanced, Eager!Call
    PROVE  Balanced'
<1>1. Net' \in [Users -> Int] /\ Speed(book)' \in Int /\ SumFunction(Net') = SumFunction(Net)
  BY MovesBalance DEF Eager!Call
<1>2. Owed' = Owed /\ book'.paid = book.paid
  BY DEF Eager!Call, Owed
<1>3. ZeroSum'
  BY <1>1, <1>2, ZeroSumIs DEF Balanced
<1>4. Eager!TypeOK'
  BY <1>1, <1>2 DEF Balanced, Eager!TypeOK, Owed
<1>. QED  BY <1>3, <1>4 DEF Balanced

\* A charge turns what is owed into what is paid.
LEMMA ChargeKeeps ==
    ASSUME Balanced, NEW u \in Users, Eager!Charge(u)
    PROVE  Balanced'
<1>. DEFINE paid == book.paid
<1>1. /\ Owed \in [Users -> Int] /\ paid \in [Users -> Int]
      /\ SumFunction(Net) = 0
      /\ SumFunction(Owed) + SumFunction(paid) = 0
  BY ZeroSumIs DEF Balanced, Eager!TypeOK, Owed
<1>2. /\ Owed' = [Owed EXCEPT ![u] = 0]
      /\ paid' = [paid EXCEPT ![u] = @ + Owed[u]]
  BY DEF Eager!Charge, Owed
<1>3. Net' \in [Users -> Int] /\ Speed(book)' \in Int /\ SumFunction(Net') = SumFunction(Net)
  BY MovesBalance DEF Eager!Charge
<1>4. /\ Owed' \in [Users -> Int] /\ paid' \in [Users -> Int]
      /\ Owed'[u] = 0 /\ paid'[u] = paid[u] + Owed[u]
      /\ \A v \in Users \ {u} : Owed'[v] = Owed[v]
      /\ \A v \in Users \ {u} : paid'[v] = paid[v]
  BY <1>1, <1>2
<1>. HIDE DEF paid
<1>5. SumFunction(Owed') = SumFunction(Owed) + Owed'[u] - Owed[u]
  BY ONLY UsersFinite, <1>1, <1>4, SumChanged
<1>6. SumFunction(paid') = SumFunction(paid) + paid'[u] - paid[u]
  BY ONLY UsersFinite, <1>1, <1>4, SumChanged
<1>7. SumFunction(Owed) \in Int /\ SumFunction(paid) \in Int
  BY ONLY UsersFinite, <1>1, SumInt
<1>8. Owed[u] \in Int /\ paid[u] \in Int
  BY <1>1
<1>9. SumFunction(Owed') + SumFunction(paid') = SumFunction(Owed) + SumFunction(paid)
  BY ONLY <1>4, <1>5, <1>6, <1>7, <1>8
<1>10. ZeroSum'
  BY <1>1, <1>3, <1>9, ZeroSumIs DEF paid
<1>11. Eager!TypeOK'
  BY <1>3, <1>4 DEF Eager!TypeOK, Owed, paid
<1>. QED  BY <1>10, <1>11 DEF Balanced

\* Eager funding creates and loses nothing.
LEMMA EagerIsZeroSum == AccruesEagerly => []ZeroSum
<1>1. Eager!Init => Balanced
  <2>. SUFFICES ASSUME Eager!Init PROVE Balanced
    OBVIOUS
  <2>. DEFINE zero == [u \in Users |-> 0]
  <2>1. Net = zero /\ Owed = zero /\ book.paid = zero /\ Speed(book) = 0
    BY DEF Eager!Init, Owed
  <2>2. SumFunction(zero) = 0
    BY UsersFinite, SumZero
  <2>3. zero \in [Users -> Int]
    OBVIOUS
  <2>. HIDE DEF zero
  <2>4. ZeroSum
    BY <2>1, <2>2, ZeroSumIs
  <2>. QED  BY <2>1, <2>3, <2>4 DEF Balanced, Eager!TypeOK, Owed
<1>2. Balanced /\ [Eager!Next]_Eager!vars => Balanced'
  <2>. SUFFICES ASSUME Balanced, [Eager!Next]_Eager!vars PROVE Balanced'
    OBVIOUS
  <2>1. CASE UNCHANGED Eager!vars
    BY <2>1 DEF Balanced, Eager!TypeOK, ZeroSum, Eager!ZeroSum, Eager!vars
  <2>2. ASSUME NEW u \in Users, Eager!Charge(u)
        PROVE  Balanced'
    BY <2>2, ChargeKeeps
  <2>. QED  BY <2>1, <2>2, TickKeeps, CallKeeps DEF Eager!Next
<1>3. Balanced => ZeroSum
  BY DEF Balanced
<1>. QED  BY <1>1, <1>2, <1>3, PTL DEF AccruesEagerly, Eager!Spec

\* What accounts owe and were charged adds up to nothing, and so do their
\* positions: in whatever order calls come, laziness neither creates nor
\* loses funding (funding.rs:216-354).
THEOREM FundingIsATransfer == Spec => []ZeroSum
BY ImplementsEager, EagerIsZeroSum, PTL
=============================================================================
