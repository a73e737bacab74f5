-------------------------- MODULE Requests_proofs --------------------------
(***************************************************************************)
(* Proofs about signed messages, standing orders and batches, for every    *)
(* set of users, messages, prices and batches, every curve and every fee,  *)
(* and any number of attempts: a message is carried out once, in the order *)
(* of the nonces, and as asked; an order ends with its position; a batch   *)
(* accounts for everybody in it and spares everybody else.                 *)
(***************************************************************************)
EXTENDS Requests, SumLemmas, SequenceTheorems

-----------------------------------------------------------------------------
(* Messages.                                                               *)

\* What the manager has on record of its users.
Recorded == nonces \in [Users -> Nat] /\ done \in [Users -> Seq(Message)]

IInv == Recorded /\ EachOnceInOrder

\* Only a relayed call touches the nonces.
LEMMA OthersLeaveNonces ==
    ASSUME [Next]_vars
    PROVE  \/ \E m \in Signed : Relay(m)
           \/ UNCHANGED <<nonces, done>>
<1>1. CASE NewBlock
  BY <1>1 DEF NewBlock
<1>2. ASSUME NEW u \in Users, NEW aim \in Direct[u], Call(u, aim)
      PROVE  UNCHANGED <<nonces, done>>
  BY <1>2 DEF Call
<1>3. ASSUME NEW u \in Users, NEW order \in Orders[u], EnableAutoClose(u, order)
      PROVE  UNCHANGED <<nonces, done>>
  BY <1>3 DEF EnableAutoClose
<1>4. ASSUME NEW u \in Users, DisableAutoClose(u)
      PROVE  UNCHANGED <<nonces, done>>
  BY <1>4 DEF DisableAutoClose
<1>5. ASSUME NEW k \in Keepers, NEW u \in Users, AutoClose(k, u)
      PROVE  UNCHANGED <<nonces, done>>
  BY <1>5 DEF AutoClose
<1>6. ASSUME NEW k \in Keepers, NEW users \in Batches, BatchAutoClose(k, users)
      PROVE  UNCHANGED <<nonces, done>>
  BY <1>6, Zenon DEF BatchAutoClose
<1>7. ASSUME NEW k \in Keepers, NEW users \in Batches, BatchLiquidate(k, users)
      PROVE  UNCHANGED <<nonces, done>>
  BY <1>7, Zenon DEF BatchLiquidate
<1>8. CASE UNCHANGED vars
  BY <1>8 DEF vars
<1>. QED
  BY <1>1, <1>2, <1>3, <1>4, <1>5, <1>6, <1>7, <1>8 DEF Next

\* A relayed call counts the message it carries out.
LEMMA RelayCounts ==
    ASSUME IInv, NEW m \in Signed, Relay(m)
    PROVE  IInv'
<1>1. m \in Message /\ m.from \in Users
  BY AimsFit DEF Message
<1>2. /\ nonces' = [nonces EXCEPT ![m.from] = @ + 1]
      /\ done' = [done EXCEPT ![m.from] = Append(@, m)]
      /\ m.nonce = nonces[m.from]
  BY DEF Relay, Accepts
<1>3. nonces \in [Users -> Nat] /\ done \in [Users -> Seq(Message)]
  BY DEF IInv, Recorded
<1>. DEFINE s == done[m.from]
<1>4. /\ s \in Seq(Message) /\ Len(s) \in Nat /\ DOMAIN s = 1..Len(s)
      /\ Len(s) = nonces[m.from]
      /\ \A i \in DOMAIN s : s[i].from = m.from /\ s[i].nonce = i - 1
  <2>1. s \in Seq(Message)
    BY <1>1, <1>3
  <2>2. Len(s) \in Nat /\ DOMAIN s = 1..Len(s)
    BY <2>1, LenProperties
  <2>. QED  BY <1>1, <2>1, <2>2 DEF IInv, EachOnceInOrder
<1>5. /\ Append(s, m) \in Seq(Message)
      /\ Len(Append(s, m)) = Len(s) + 1
      /\ \A i \in 1..Len(s) : Append(s, m)[i] = s[i]
      /\ Append(s, m)[Len(s) + 1] = m
  BY ONLY <1>1, <1>4, AppendProperties
<1>6. Recorded'
  <2>1. nonces' \in [Users -> Nat]
    BY <1>1, <1>2, <1>3
  <2>2. done' \in [Users -> Seq(Message)]
    BY <1>1, <1>2, <1>3, <1>5
  <2>. QED  BY <2>1, <2>2 DEF Recorded
<1>7. EachOnceInOrder'
  <2>. SUFFICES ASSUME NEW u \in Users
                PROVE  /\ Len(done'[u]) = nonces'[u]
                       /\ \A i \in DOMAIN done'[u] :
                            done'[u][i].from = u /\ done'[u][i].nonce = i - 1
    BY DEF EachOnceInOrder
  <2>1. CASE u # m.from
    <3>1. done'[u] = done[u] /\ nonces'[u] = nonces[u]
      BY <1>2, <1>3, <2>1
    <3>. QED  BY <3>1 DEF IInv, EachOnceInOrder
  <2>2. CASE u = m.from
    <3>1. done'[u] = Append(s, m) /\ nonces'[u] = nonces[m.from] + 1
      BY <1>1, <1>2, <1>3, <2>2
    <3>2. DOMAIN Append(s, m) = 1..Len(s) + 1
      BY <1>5, LenProperties
    <3>3. ASSUME NEW i \in 1..Len(s) + 1
          PROVE  Append(s, m)[i].from = u /\ Append(s, m)[i].nonce = i - 1
      <4>1. CASE i = Len(s) + 1
        BY <1>2, <1>4, <1>5, <2>2, <4>1
      <4>2. CASE i # Len(s) + 1
        <5>1. i \in 1..Len(s)
          BY <1>4, <4>2
        <5>2. Append(s, m)[i] = s[i] /\ i \in DOMAIN s
          BY <1>4, <1>5, <5>1
        <5>. QED  BY <1>4, <2>2, <5>2
      <4>. QED  BY <4>1, <4>2
    <3>. HIDE DEF s
    <3>. QED  BY <1>4, <1>5, <3>1, <3>2, <3>3
  <2>. QED  BY <2>1, <2>2
<1>. QED  BY <1>6, <1>7 DEF IInv

\* What holds of the records at every step.
LEMMA RecordsHold == Spec => []IInv
<1>1. Init => IInv
  <2>. SUFFICES ASSUME Init PROVE IInv
    OBVIOUS
  <2>1. <<>> \in Seq(Message) /\ Len(<<>>) = 0 /\ DOMAIN <<>> = {}
    BY EmptySeq
  <2>2. \A u \in Users : nonces[u] = 0 /\ done[u] = <<>>
    BY DEF Init
  <2>3. Recorded
    BY <2>1 DEF Init, Recorded
  <2>4. EachOnceInOrder
    BY <2>1, <2>2 DEF EachOnceInOrder
  <2>. QED  BY <2>3, <2>4 DEF IInv
<1>2. IInv /\ [Next]_vars => IInv'
  <2>. SUFFICES ASSUME IInv, [Next]_vars PROVE IInv'
    OBVIOUS
  <2>1. CASE \E m \in Signed : Relay(m)
    BY <2>1, RelayCounts
  <2>2. CASE UNCHANGED <<nonces, done>>
    BY <2>2 DEF IInv, Recorded, EachOnceInOrder
  <2>. QED  BY <2>1, <2>2, OthersLeaveNonces
<1>. QED  BY <1>1, <1>2, PTL DEF Spec

\* The nonces count what was carried out, message by message and without a
\* gap, however often and in whatever order messages are handed in, and
\* whichever calls revert (StylusPerpMultiCalls.sol:211-213).
THEOREM RelayedOnceInOrder == Spec => []EachOnceInOrder
<1>1. IInv => EachOnceInOrder
  BY DEF IInv
<1>. QED  BY <1>1, RecordsHold, PTL

-----------------------------------------------------------------------------
(* What calls make of the market.                                          *)

\* An account: the position may be of either sign, what it holds may not.
Account ==
    [hold : Int, cash : Int, stable : Nat, asset : Nat, collateral : Nat,
     order : [profit : Nat, loss : Nat], asked : BOOLEAN]

Market == [stable : Nat, asset : Nat, of : [Users -> Account]]

\* An order stands only if it was asked for since the last close.
Ordered(a) == a.order # NoOrder => a.asked

Sound(m) == m \in Market /\ \A u \in Users : Ordered(m.of[u])

\* What only calls of its own, of a keeper or of a liquidator change.
Backed(m, n, u) ==
    /\ n.of[u].collateral = m.of[u].collateral
    /\ n.of[u].order = m.of[u].order /\ n.of[u].asked = m.of[u].asked

\* What calls of others leave of an account: all but the legs, and none of
\* these either if there are none.
Alike(m, n, u) ==
    /\ Backed(m, n, u)
    /\ n.of[u].hold = m.of[u].hold /\ n.of[u].cash = m.of[u].cash
    /\ m.of[u].stable = 0 /\ m.of[u].asset = 0
         => n.of[u].stable = 0 /\ n.of[u].asset = 0

\* The pool moves under all accounts.
Drifts(m, n) == Sound(n) /\ \A v \in Users : Alike(m, n, v)

\* And the user moves it.
Moves(m, n, u) ==
    /\ Sound(n) /\ Backed(m, n, u)
    /\ \A v \in Users \ {u} : Alike(m, n, v)

\* A drift is a move of whoever is asked about.
LEMMA DriftIsMove ==
    ASSUME NEW m, NEW n, Drifts(m, n), NEW u \in Users
    PROVE  Moves(m, n, u)
BY DEF Drifts, Moves, Alike

\* One move after another.
LEMMA MovesCompose ==
    ASSUME NEW m, NEW n, NEW o, NEW u \in Users, Moves(m, n, u), Moves(n, o, u)
    PROVE  Moves(m, o, u)
BY DEF Moves, Alike, Backed

\* A share of a whole.
LEMMA ShareWithin ==
    ASSUME NEW x \in Nat, NEW part \in Nat, NEW whole \in Nat \ {0}, part <= whole
    PROVE  /\ (x * part) \div whole \in 0..x
           /\ part = 0 => (x * part) \div whole = 0
<1>. DEFINE q == (x * part) \div whole
<1>1. q \in Int /\ whole * q <= x * part /\ x * part < whole * (q + 1)
  <2>1. x * part \in Int
    OBVIOUS
  <2>2. \A z \in Int : z \div whole \in Int /\ whole * (z \div whole) <= z
                        /\ z < whole * (z \div whole + 1)
    OBVIOUS
  <2>. QED  BY <2>1, <2>2
<1>2. x * part >= 0 /\ x * part <= x * whole /\ (part = 0 => x * part = 0)
  OBVIOUS
<1>. HIDE DEF q
<1>3. q >= 0
  <2>. SUFFICES ASSUME q + 1 <= 0 PROVE FALSE
    BY <1>1
  <2>1. whole * (q + 1) <= 0
    BY <1>1
  <2>. QED  BY <1>1, <1>2, <2>1
<1>4. q <= x
  <2>. SUFFICES ASSUME q >= x + 1 PROVE FALSE
    BY <1>1
  <2>1. whole * q >= whole * (x + 1)
    BY <1>1
  <2>2. whole * (x + 1) = x * whole + whole
    OBVIOUS
  <2>. QED  BY <1>1, <1>2, <2>1, <2>2
<1>5. part = 0 => q = 0
  <2>. SUFFICES ASSUME part = 0, q >= 1 PROVE FALSE
    BY <1>1, <1>3
  <2>1. whole * q >= whole
    BY <1>1
  <2>. QED  BY <1>1, <1>2, <2>1
<1>. QED  BY <1>1, <1>3, <1>4, <1>5 DEF q

\* Rounded up, it is not more than the part when no more than the whole is shared.
LEMMA CeilWithin ==
    ASSUME NEW x \in Nat, NEW part \in Nat, NEW whole \in Nat \ {0}, x <= whole
    PROVE  /\ part - CeilDiv(x * part, whole) \in Nat
           /\ part = 0 => CeilDiv(x * part, whole) = 0
<1>. DEFINE y == x * part
            q == (-y) \div whole
<1>1. y \in Nat /\ y <= whole * part /\ (part = 0 => y = 0)
  OBVIOUS
<1>2. CeilDiv(x * part, whole) = -q
  BY DEF CeilDiv
<1>. HIDE DEF y
<1>3. q \in Int /\ whole * q <= -y /\ -y < whole * (q + 1)
  <2>1. -y \in Int
    BY <1>1
  <2>2. \A z \in Int : z \div whole \in Int /\ whole * (z \div whole) <= z
                        /\ z < whole * (z \div whole + 1)
    OBVIOUS
  <2>. QED  BY <2>1, <2>2
<1>. HIDE DEF q
<1>4. part + q >= 0
  <2>. SUFFICES ASSUME q + 1 <= -part PROVE FALSE
    BY <1>3
  <2>1. whole * (q + 1) <= whole * (-part)
    BY <1>3
  <2>2. whole * (-part) = -(whole * part) /\ whole * part \in Int
    OBVIOUS
  <2>. QED  BY <1>1, <1>3, <2>1, <2>2
<1>5. part = 0 => q = 0
  <2>. SUFFICES ASSUME part = 0, q # 0 PROVE FALSE
    OBVIOUS
  <2>1. y = 0 /\ q >= 1
    BY <1>1, <1>3, <1>4
  <2>2. whole * q >= whole
    BY <1>3, <2>1
  <2>. QED  BY <1>3, <2>1, <2>2
<1>. QED  BY <1>2, <1>3, <1>4, <1>5

\* getLpLiquidityBalance is within the reserves.
LEMMA LegsWithin ==
    ASSUME NEW m \in Market, NEW u \in Users
    PROVE  /\ LpStable(m, u) \in 0..m.stable /\ LpStable(m, u) <= m.of[u].stable
           /\ LpAsset(m, u) \in 0..m.asset /\ LpAsset(m, u) <= m.of[u].asset
<1>1. m.stable \in Nat /\ m.asset \in Nat /\ m.of[u].stable \in Nat /\ m.of[u].asset \in Nat
  BY DEF Market, Account
<1>. QED  BY <1>1 DEF LpStable, LpAsset

\* New reserves and new legs, all else as it was.
Rebalanced(m, n, stable, asset, s, a) ==
    n = [stable |-> stable, asset |-> asset,
         of |-> [v \in Users |-> [m.of[v] EXCEPT !.stable = s[v], !.asset = a[v]]]]

\* None for those who have none.
Fair(m, s, a) ==
    \A v \in Users : m.of[v].stable = 0 /\ m.of[v].asset = 0 => s[v] = 0 /\ a[v] = 0

\* New legs, and legs to nobody without any, are a drift.
LEMMA NewLegs ==
    ASSUME NEW m, Sound(m), NEW n, NEW s \in [Users -> Nat], NEW a \in [Users -> Nat],
           NEW stable \in Nat, NEW asset \in Nat,
           Fair(m, s, a), Rebalanced(m, n, stable, asset, s, a)
    PROVE  Drifts(m, n)
<1>1. \A v \in Users : m.of[v] \in Account /\ Ordered(m.of[v])
  BY DEF Sound, Market
<1>2. n.stable = stable /\ n.asset = asset
      /\ \A v \in Users : n.of[v] = [m.of[v] EXCEPT !.stable = s[v], !.asset = a[v]]
  BY DEF Rebalanced
<1>3. ASSUME NEW v \in Users
      PROVE  /\ n.of[v] \in Account /\ n.of[v].stable = s[v] /\ n.of[v].asset = a[v]
             /\ n.of[v].hold = m.of[v].hold /\ n.of[v].cash = m.of[v].cash
             /\ n.of[v].collateral = m.of[v].collateral
             /\ n.of[v].order = m.of[v].order /\ n.of[v].asked = m.of[v].asked
  <2>1. m.of[v] \in Account /\ s[v] \in Nat /\ a[v] \in Nat
    BY <1>1
  <2>2. n.of[v] = [m.of[v] EXCEPT !.stable = s[v], !.asset = a[v]]
    BY <1>2
  <2>. QED  BY ONLY <2>1, <2>2 DEF Account
<1>4. n.of \in [Users -> Account]
  <2>. DEFINE of == [v \in Users |-> [m.of[v] EXCEPT !.stable = s[v], !.asset = a[v]]]
  <2>1. n.of = of
    BY DEF Rebalanced
  <2>2. \A v \in Users : of[v] \in Account
    BY <1>3, <2>1
  <2>. QED  BY <2>1, <2>2
<1>5. n \in Market
  <2>. DEFINE of == n.of
  <2>1. n = [stable |-> stable, asset |-> asset, of |-> of]
    BY <1>2 DEF Rebalanced
  <2>. HIDE DEF of
  <2>. QED  BY <2>1, <1>4 DEF Market, of
<1>6. Sound(n)
  BY <1>1, <1>3, <1>5 DEF Sound, Ordered
<1>7. \A v \in Users : Alike(m, n, v)
  BY <1>3 DEF Fair, Alike, Backed
<1>. QED  BY <1>6, <1>7 DEF Drifts

\* One account is replaced.
Replaced(m, n, u, a) == n = [m EXCEPT !.of = [@ EXCEPT ![u] = a]]

\* Whoever's account is replaced, the market stays sound and the others as they were.
LEMMA OneReplaced ==
    ASSUME NEW m, Sound(m), NEW u \in Users, NEW a \in Account, Ordered(a),
           NEW n, Replaced(m, n, u, a)
    PROVE  /\ Sound(n) /\ n.stable = m.stable /\ n.asset = m.asset /\ n.of[u] = a
           /\ \A v \in Users \ {u} : n.of[v] = m.of[v] /\ Alike(m, n, v)
<1>. DEFINE of == [m.of EXCEPT ![u] = a]
<1>1. m \in Market /\ m.of \in [Users -> Account]
  BY DEF Sound, Market
<1>2. of \in [Users -> Account] /\ of[u] = a /\ \A v \in Users \ {u} : of[v] = m.of[v]
  BY <1>1
<1>3. n = [m EXCEPT !.of = of]
  BY DEF Replaced
<1>. HIDE DEF of
<1>4. n \in Market /\ n.of = of /\ n.stable = m.stable /\ n.asset = m.asset
  BY ONLY <1>1, <1>2, <1>3 DEF Market
<1>5. \A v \in Users \ {u} : n.of[v] = m.of[v] /\ Alike(m, n, v)
  BY ONLY <1>2, <1>4 DEF Alike, Backed
<1>6. Sound(n)
  <2>1. \A v \in Users : Ordered(n.of[v])
    BY <1>2, <1>4 DEF Sound
  <2>. QED  BY <1>4, <2>1 DEF Sound
<1>. QED  BY <1>2, <1>4, <1>5, <1>6

\* A credit leaves the legs, and all others, as they are.
LEMMA CreditIs ==
    ASSUME NEW m, Sound(m), NEW u \in Users, NEW asset \in Int, NEW stable \in Int
    PROVE  LET n == Credit(m, u, asset, stable)
           IN  /\ Moves(m, n, u) /\ n.stable = m.stable /\ n.asset = m.asset
               /\ n.of[u].hold = m.of[u].hold + asset /\ n.of[u].cash = m.of[u].cash + stable
               /\ \A v \in Users : /\ n.of[v].stable = m.of[v].stable
                                   /\ n.of[v].asset = m.of[v].asset
                                   /\ LpStable(n, v) = LpStable(m, v)
                                   /\ LpAsset(n, v) = LpAsset(m, v)
               /\ \A v \in Users \ {u} : n.of[v] = m.of[v]
<1>. DEFINE n == Credit(m, u, asset, stable)
            hold == m.of[u].hold + asset
            cash == m.of[u].cash + stable
            a == [m.of[u] EXCEPT !.hold = hold, !.cash = cash]
<1>1. m \in Market /\ m.of \in [Users -> Account] /\ m.of[u] \in Account /\ Ordered(m.of[u])
  BY DEF Sound, Market
<1>2. hold \in Int /\ cash \in Int
  BY <1>1 DEF Account
<1>3. Replaced(m, n, u, a)
  BY <1>1 DEF Credit, Replaced, Market
<1>. HIDE DEF hold, cash, n
<1>4. /\ a \in Account /\ a.hold = hold /\ a.cash = cash /\ a.stable = m.of[u].stable
      /\ a.asset = m.of[u].asset /\ a.collateral = m.of[u].collateral
      /\ a.order = m.of[u].order /\ a.asked = m.of[u].asked
  BY <1>1, <1>2 DEF Account
<1>5. Ordered(a)
  BY <1>1, <1>4 DEF Ordered
<1>. HIDE DEF a
<1>6. /\ Sound(n) /\ n.stable = m.stable /\ n.asset = m.asset /\ n.of[u] = a
      /\ \A v \in Users \ {u} : n.of[v] = m.of[v] /\ Alike(m, n, v)
  BY <1>3, <1>4, <1>5, OneReplaced
<1>7. Moves(m, n, u)
  BY <1>4, <1>6 DEF Moves, Backed
<1>8. \A v \in Users : n.of[v].stable = m.of[v].stable /\ n.of[v].asset = m.of[v].asset
  BY <1>4, <1>6
<1>9. \A v \in Users : LpStable(n, v) = LpStable(m, v) /\ LpAsset(n, v) = LpAsset(m, v)
  BY <1>6, <1>8 DEF LpStable, LpAsset
<1>. QED  BY <1>4, <1>6, <1>7, <1>8, <1>9 DEF n, hold, cash

\* A trade moves the legs of all, and nothing else, either way.
LEMMA LongIs ==
    ASSUME NEW m, Sound(m), NEW in \in Nat, NEW out \in Nat, out < m.asset
    PROVE  Drifts(m, Long(m, in, out))
<1>. DEFINE S(v) == LpStable(m, v) + (in * LpAsset(m, v)) \div m.asset
            A(v) == LpAsset(m, v) - CeilDiv(out * LpAsset(m, v), m.asset)
            s == [v \in Users |-> S(v)]
            a == [v \in Users |-> A(v)]
<1>1. m \in Market /\ m.stable \in Nat /\ m.asset \in Nat \ {0}
  BY DEF Sound, Market
<1>2. ASSUME NEW v \in Users
      PROVE  /\ S(v) \in Nat /\ A(v) \in Nat
             /\ m.of[v].stable = 0 /\ m.of[v].asset = 0 => S(v) = 0 /\ A(v) = 0
  <2>1. /\ LpStable(m, v) \in 0..m.stable /\ LpStable(m, v) <= m.of[v].stable
        /\ LpAsset(m, v) \in 0..m.asset /\ LpAsset(m, v) <= m.of[v].asset
    BY <1>1, LegsWithin
  <2>. DEFINE part == LpAsset(m, v)
              whole == m.asset
  <2>2. part \in Nat /\ part <= whole /\ whole \in Nat \ {0} /\ out <= whole
    BY <1>1, <2>1
  <2>. HIDE DEF part, whole
  <2>3. /\ (in * part) \div whole \in 0..in
        /\ part = 0 => (in * part) \div whole = 0
    BY <2>2, ShareWithin
  <2>4. /\ part - CeilDiv(out * part, whole) \in Nat
        /\ part = 0 => CeilDiv(out * part, whole) = 0
    BY <2>2, CeilWithin
  <2>5. m.of[v].stable \in Nat /\ m.of[v].asset \in Nat
    BY <1>1 DEF Market, Account
  <2>6. m.of[v].stable = 0 /\ m.of[v].asset = 0
          => LpStable(m, v) = 0 /\ LpAsset(m, v) = 0 /\ part = 0
    BY <1>1, <2>1, <2>5 DEF part
  <2>7. S(v) = LpStable(m, v) + (in * part) \div whole /\ A(v) = part - CeilDiv(out * part, whole)
    BY DEF part, whole
  <2>. HIDE DEF S, A
  <2>. QED  BY <1>1, <2>1, <2>3, <2>4, <2>6, <2>7
<1>3. Long(m, in, out) = [stable |-> m.stable + in, asset |-> m.asset + (-out),
                          of |-> [v \in Users |-> [m.of[v] EXCEPT !.stable = S(v), !.asset = A(v)]]]
  BY Zenon DEF Long, Stepped
<1>. HIDE DEF S, A
<1>4. /\ s \in [Users -> Nat] /\ a \in [Users -> Nat]
      /\ \A v \in Users : m.of[v].stable = 0 /\ m.of[v].asset = 0 => s[v] = 0 /\ a[v] = 0
  BY <1>2
<1>5. Fair(m, s, a)
  BY <1>4 DEF Fair
<1>. DEFINE n == Long(m, in, out)
            stable == m.stable + in
            asset == m.asset + (-out)
<1>6. stable \in Nat /\ asset \in Nat
  BY <1>1
<1>7. Rebalanced(m, n, stable, asset, s, a)
  BY <1>3 DEF Rebalanced
<1>. HIDE DEF s, a, n, stable, asset
<1>8. Drifts(m, n)
  BY <1>4, <1>5, <1>6, <1>7, NewLegs
<1>. QED  BY <1>8 DEF n

\* The pool's side of a sale is a drift.
LEMMA ShortIs ==
    ASSUME NEW m, Sound(m), NEW in \in Nat, NEW out \in Nat, out < m.stable
    PROVE  Drifts(m, Short(m, in, out))
<1>. DEFINE S(v) == LpStable(m, v) - CeilDiv(out * LpStable(m, v), m.stable)
            A(v) == LpAsset(m, v) + (in * LpStable(m, v)) \div m.stable
            s == [v \in Users |-> S(v)]
            a == [v \in Users |-> A(v)]
<1>1. m \in Market /\ m.stable \in Nat \ {0} /\ m.asset \in Nat
  BY DEF Sound, Market
<1>2. ASSUME NEW v \in Users
      PROVE  /\ S(v) \in Nat /\ A(v) \in Nat
             /\ m.of[v].stable = 0 /\ m.of[v].asset = 0 => S(v) = 0 /\ A(v) = 0
  <2>1. /\ LpStable(m, v) \in 0..m.stable /\ LpStable(m, v) <= m.of[v].stable
        /\ LpAsset(m, v) \in 0..m.asset /\ LpAsset(m, v) <= m.of[v].asset
    BY <1>1, LegsWithin
  <2>. DEFINE part == LpStable(m, v)
              whole == m.stable
  <2>2. part \in Nat /\ part <= whole /\ whole \in Nat \ {0} /\ out <= whole
    BY <1>1, <2>1
  <2>. HIDE DEF part, whole
  <2>3. /\ (in * part) \div whole \in 0..in
        /\ part = 0 => (in * part) \div whole = 0
    BY <2>2, ShareWithin
  <2>4. /\ part - CeilDiv(out * part, whole) \in Nat
        /\ part = 0 => CeilDiv(out * part, whole) = 0
    BY <2>2, CeilWithin
  <2>5. m.of[v].stable \in Nat /\ m.of[v].asset \in Nat
    BY <1>1 DEF Market, Account
  <2>6. m.of[v].stable = 0 /\ m.of[v].asset = 0
          => LpStable(m, v) = 0 /\ LpAsset(m, v) = 0 /\ part = 0
    BY <1>1, <2>1, <2>5 DEF part
  <2>7. S(v) = part - CeilDiv(out * part, whole) /\ A(v) = LpAsset(m, v) + (in * part) \div whole
    BY DEF part, whole
  <2>. HIDE DEF S, A
  <2>. QED  BY <1>1, <2>1, <2>3, <2>4, <2>6, <2>7
<1>3. Short(m, in, out) = [stable |-> m.stable + (-out), asset |-> m.asset + in,
                           of |-> [v \in Users |-> [m.of[v] EXCEPT !.stable = S(v), !.asset = A(v)]]]
  BY Zenon DEF Short, Stepped
<1>. HIDE DEF S, A
<1>4. /\ s \in [Users -> Nat] /\ a \in [Users -> Nat]
      /\ \A v \in Users : m.of[v].stable = 0 /\ m.of[v].asset = 0 => s[v] = 0 /\ a[v] = 0
  BY <1>2
<1>5. Fair(m, s, a)
  BY <1>4 DEF Fair
<1>. DEFINE n == Short(m, in, out)
            stable == m.stable + (-out)
            asset == m.asset + in
<1>6. stable \in Nat /\ asset \in Nat
  BY <1>1
<1>7. Rebalanced(m, n, stable, asset, s, a)
  BY <1>3 DEF Rebalanced
<1>. HIDE DEF s, a, n, stable, asset
<1>8. Drifts(m, n)
  BY <1>4, <1>5, <1>6, <1>7, NewLegs
<1>. QED  BY <1>8 DEF n

\* A fee raises the stable legs, none by more than all of it.
LEMMA EarnedIs ==
    ASSUME NEW m, Sound(m), NEW fee \in Nat, NEW p \in Nat, NEW n, n = Earned(m, fee, p)
    PROVE  /\ Drifts(m, n)
           /\ \A v \in Users : /\ LpAsset(n, v) = LpAsset(m, v)
                               /\ LpStable(n, v) - LpStable(m, v) \in 0..fee
<1>. DEFINE whole == m.stable + m.asset * p
            own == (fee * m.stable) \div whole
            S(v) == LpStable(m, v) + (own * LpStable(m, v)) \div m.stable
                                   + ((fee - own) * LpAsset(m, v)) \div m.asset
            s == [v \in Users |-> S(v)]
            a == [v \in Users |-> LpAsset(m, v)]
            stable == m.stable + fee
            asset == m.asset + 0
<1>1. m \in Market /\ m.stable \in Nat /\ m.asset \in Nat
  BY DEF Sound, Market
<1>2. \A v \in Users : /\ LpStable(m, v) \in 0..m.stable /\ LpStable(m, v) <= m.of[v].stable
                       /\ LpAsset(m, v) \in 0..m.asset /\ LpAsset(m, v) <= m.of[v].asset
                       /\ m.of[v].stable \in Nat /\ m.of[v].asset \in Nat
  BY <1>1, LegsWithin DEF Market, Account
<1>3. CASE fee = 0 \/ m.stable = 0 \/ m.asset = 0
  <2>1. n = m
    BY <1>3, Zenon DEF Earned
  <2>2. Drifts(m, n)
    BY <2>1 DEF Drifts, Alike, Backed
  <2>3. \A v \in Users : LpAsset(n, v) = LpAsset(m, v) /\ LpStable(n, v) - LpStable(m, v) \in 0..fee
    BY <1>1, <1>2, <2>1
  <2>. QED  BY <2>2, <2>3
<1>4. CASE ~ (fee = 0 \/ m.stable = 0 \/ m.asset = 0)
  <2>1. n = [stable |-> stable, asset |-> asset,
             of |-> [v \in Users |->
                      [m.of[v] EXCEPT !.stable = S(v), !.asset = LpAsset(m, v)]]]
    BY <1>4, Zenon DEF Earned, Stepped
  <2>2. own \in 0..fee
    <3>1. m.asset * p \in Nat
      BY <1>1
    <3>2. whole \in Nat \ {0} /\ m.stable <= whole
      BY <1>1, <1>4, <3>1
    <3>. HIDE DEF whole
    <3>. QED  BY <1>1, <3>2, ShareWithin
  <2>. HIDE DEF own
  <2>3. ASSUME NEW v \in Users
        PROVE  /\ S(v) \in Nat /\ S(v) - LpStable(m, v) \in 0..fee
               /\ m.of[v].stable = 0 /\ m.of[v].asset = 0 => S(v) = 0
    <3>. DEFINE x == LpStable(m, v)
                y == LpAsset(m, v)
                first == (own * x) \div m.stable
                rest == ((fee - own) * y) \div m.asset
    <3>1. x \in Nat /\ x <= m.stable /\ m.stable \in Nat \ {0} /\ own \in Nat
      BY <1>1, <1>2, <1>4, <2>2
    <3>2. y \in Nat /\ y <= m.asset /\ m.asset \in Nat \ {0} /\ fee - own \in Nat
      BY <1>1, <1>2, <1>4, <2>2
    <3>3. m.of[v].stable = 0 /\ m.of[v].asset = 0 => x = 0 /\ y = 0
      BY <1>2
    <3>4. S(v) = x + first + rest
      OBVIOUS
    <3>. HIDE DEF x, y
    <3>5. first \in 0..own /\ (x = 0 => first = 0)
      BY <3>1, ShareWithin
    <3>6. rest \in 0..(fee - own) /\ (y = 0 => rest = 0)
      BY <3>2, ShareWithin
    <3>. HIDE DEF first, rest, S
    <3>7. S(v) \in Nat /\ S(v) - x \in 0..fee /\ (m.of[v].stable = 0 /\ m.of[v].asset = 0 => S(v) = 0)
      BY <2>2, <3>1, <3>3, <3>4, <3>5, <3>6
    <3>. QED  BY <3>7 DEF x
  <2>. HIDE DEF S
  <2>5. /\ s \in [Users -> Nat] /\ a \in [Users -> Nat]
        /\ \A v \in Users : s[v] = S(v) /\ a[v] = LpAsset(m, v)
    BY <1>2, <2>3
  <2>6. Fair(m, s, a)
    <3>1. \A v \in Users : m.of[v].asset = 0 => LpAsset(m, v) = 0
      BY <1>2
    <3>. HIDE DEF s, a
    <3>. QED  BY <2>3, <2>5, <3>1 DEF Fair
  <2>7. Rebalanced(m, n, stable, asset, s, a)
    BY <2>1 DEF Rebalanced
  <2>8. stable \in Nat /\ asset \in Nat /\ s \in [Users -> Nat] /\ a \in [Users -> Nat]
    BY <1>1, <2>5
  <2>8a. asset = m.asset
    BY <1>1
  <2>. HIDE DEF s, a, stable, asset
  <2>9. Drifts(m, n)
    BY <2>6, <2>7, <2>8, NewLegs
  <2>9a. /\ n.stable = stable /\ n.asset = asset
         /\ \A v \in Users : n.of[v] = [m.of[v] EXCEPT !.stable = s[v], !.asset = a[v]]
    BY ONLY <2>7 DEF Rebalanced
  <2>10. ASSUME NEW v \in Users
         PROVE  LpAsset(n, v) = LpAsset(m, v) /\ LpStable(n, v) - LpStable(m, v) \in 0..fee
    <3>. m.of[v] \in Account
      BY <1>1 DEF Market
    <3>1. n.of[v].stable = S(v) /\ n.of[v].asset = LpAsset(m, v) /\ n.stable = m.stable + fee
          /\ n.asset = m.asset
      BY <2>5, <2>8a, <2>9a DEF stable, Account
    <3>2. LpAsset(n, v) = LpAsset(m, v)
      <4>1. LpAsset(m, v) <= m.asset
        BY <1>2, <1>1
      <4>. QED  BY <3>1, <4>1 DEF LpAsset
    <3>3. LpStable(n, v) = S(v)
      <4>1. S(v) <= m.stable + fee
        BY <1>1, <1>2, <2>3
      <4>. QED  BY <3>1, <4>1 DEF LpStable
    <3>. QED  BY <2>3, <3>2, <3>3
  <2>. QED  BY <2>9, <2>10
<1>. QED  BY <1>3, <1>4

\* The trader's side, either way.
LEMMA BuysMoves ==
    ASSUME NEW m, Sound(m), NEW u \in Users, NEW paid \in Nat, NEW out \in Nat,
           NEW n \in Buys(m, u, paid, out)
    PROVE  Moves(m, n, u)
<1>1. /\ out < m.asset
      /\ n \in {Credit(Long(m, paid - cut, out), u, out, -paid) : cut \in {c \in Cuts : c <= paid}}
  <2>1. n \in IF out < m.asset
              THEN {z \in {Credit(Long(m, paid - cut, out), u, out, -paid) :
                             cut \in {c \in Cuts : c <= paid}} : z.stable > 0 /\ z.asset > 0}
              ELSE {}
    BY Zenon DEF Buys, Lasting
  <2>2. out < m.asset
    BY <2>1, Zenon
  <2>. QED  BY <2>1, <2>2, Zenon
<1>2. PICK cut \in {c \in Cuts : c <= paid} : n = Credit(Long(m, paid - cut, out), u, out, -paid)
  BY <1>1, Zenon
<1>. DEFINE z == Long(m, paid - cut, out)
<1>3. paid - cut \in Nat /\ -paid \in Int
  BY NumbersFit
<1>4. Drifts(m, z)
  BY <1>1, <1>3, LongIs
<1>5. n = Credit(z, u, out, -paid)
  BY <1>2
<1>. HIDE DEF z
<1>6. Sound(z) /\ Moves(m, z, u)
  BY <1>4, DriftIsMove DEF Drifts
<1>7. Moves(z, n, u)
  BY <1>3, <1>5, <1>6, CreditIs
<1>. QED  BY <1>6, <1>7, MovesCompose

\* Who sells moves the market.
LEMMA SellsMoves ==
    ASSUME NEW m, Sound(m), NEW u \in Users, NEW sold \in Nat, NEW got \in Nat,
           NEW n \in Sells(m, u, sold, got)
    PROVE  Moves(m, n, u)
<1>1. n \in {Credit(Short(m, sold, got + cut), u, -sold, got) :
               cut \in {c \in Cuts : got + c < m.stable}}
  BY Zenon DEF Sells, Lasting
<1>2. PICK cut \in {c \in Cuts : got + c < m.stable} :
        n = Credit(Short(m, sold, got + cut), u, -sold, got)
  BY <1>1, Zenon
<1>. DEFINE z == Short(m, sold, got + cut)
<1>3. got + cut \in Nat /\ -sold \in Int /\ got + cut < m.stable
  BY NumbersFit
<1>4. Drifts(m, z)
  BY <1>3, ShortIs
<1>5. n = Credit(z, u, -sold, got)
  BY <1>2
<1>. HIDE DEF z
<1>6. Sound(z) /\ Moves(m, z, u)
  BY <1>4, DriftIsMove DEF Drifts
<1>7. Moves(z, n, u)
  BY <1>3, <1>5, <1>6, CreditIs
<1>. QED  BY <1>6, <1>7, MovesCompose

\* What a trade returns is some amount.
LEMMA NearIsAmount ==
    ASSUME NEW most \in Int, NEW r \in Near(most)
    PROVE  r \in Nat
<1>1. PICK short \in Slippage : r = most - short
  BY DEF Near
<1>2. r >= 0
  BY DEF Near
<1>. QED  BY <1>1, <1>2, NumbersFit

\* So does a trade, in either direction.
LEMMA TradeMoves ==
    ASSUME NEW m, Sound(m), NEW u \in Users, NEW p \in Nat \ {0}, NEW size \in Int,
           NEW n \in TradeFor(m, u, p, size)
    PROVE  Moves(m, n, u)
<1>1. n \in IF size > 0 THEN UNION {Buys(m, u, size, out) : out \in Near(size \div p)}
            ELSE UNION {Sells(m, u, -size, got) : got \in Near(-size * p)}
  BY Zenon DEF TradeFor
<1>2. CASE size > 0
  <2>1. PICK out \in Near(size \div p) : n \in Buys(m, u, size, out)
    BY <1>1, <1>2, Zenon
  <2>2. size \in Nat /\ size \div p \in Int
    BY <1>2
  <2>3. out \in Nat
    BY <2>2, NearIsAmount
  <2>. QED  BY <2>1, <2>2, <2>3, BuysMoves
<1>3. CASE ~ (size > 0)
  <2>1. PICK got \in Near(-size * p) : n \in Sells(m, u, -size, got)
    BY <1>1, <1>3, Zenon
  <2>2. -size \in Nat /\ -size * p \in Int
    BY <1>3
  <2>3. got \in Nat
    BY <2>2, NearIsAmount
  <2>. QED  BY <2>1, <2>2, <2>3, SellsMoves
<1>. QED  BY <1>2, <1>3

\* The fee of a movement of liquidity is within the caller's cap.
LEMMA ChargesFit ==
    ASSUME NEW m, NEW max, NEW fee \in Charges(m, max)
    PROVE  fee \in Nat /\ (max # 0 => fee <= max)
BY NumbersFit DEF Charges

\* New reserves and new legs of one LP.
Reset(m, n, u, stable, asset, s, a) ==
    n = [m EXCEPT !.stable = stable, !.asset = asset, !.of[u].stable = s, !.of[u].asset = a]

\* Setting the legs of one user and the reserves is a move of that user.
LEMMA LegsSet ==
    ASSUME NEW m, Sound(m), NEW u \in Users, NEW n, NEW stable \in Nat, NEW asset \in Nat,
           NEW s \in Nat, NEW a \in Nat,
           Reset(m, n, u, stable, asset, s, a)
    PROVE  /\ Moves(m, n, u) /\ n.stable = stable /\ n.asset = asset
           /\ n.of[u].stable = s /\ n.of[u].asset = a
           /\ n.of[u].hold = m.of[u].hold /\ n.of[u].cash = m.of[u].cash
           /\ \A v \in Users \ {u} : n.of[v] = m.of[v]
<1>. DEFINE b == [m.of[u] EXCEPT !.stable = s, !.asset = a]
            z == [m EXCEPT !.of = [@ EXCEPT ![u] = b]]
<1>1. m \in Market /\ m.of \in [Users -> Account] /\ m.of[u] \in Account /\ Ordered(m.of[u])
  BY DEF Sound, Market
<1>2. n = [z EXCEPT !.stable = stable, !.asset = asset]
  BY <1>1 DEF Market, Reset
<1>3. /\ b \in Account /\ b.hold = m.of[u].hold /\ b.cash = m.of[u].cash /\ b.stable = s
      /\ b.asset = a /\ b.collateral = m.of[u].collateral
      /\ b.order = m.of[u].order /\ b.asked = m.of[u].asked
  BY ONLY <1>1, s \in Nat, a \in Nat DEF Account
<1>4. Ordered(b) /\ Replaced(m, z, u, b)
  BY <1>1, <1>3 DEF Ordered, Replaced
<1>. HIDE DEF b, z
<1>5. /\ Sound(z) /\ z.of[u] = b
      /\ \A v \in Users \ {u} : z.of[v] = m.of[v] /\ Alike(m, z, v)
  BY ONLY Sound(m), u \in Users, <1>3, <1>4, OneReplaced
<1>6. z \in Market /\ \A v \in Users : Ordered(z.of[v])
  BY <1>5 DEF Sound
<1>7. n \in Market /\ n.of = z.of /\ n.stable = stable /\ n.asset = asset
  BY ONLY <1>2, <1>6, stable \in Nat, asset \in Nat DEF Market
<1>8. Moves(m, n, u)
  BY ONLY <1>3, <1>5, <1>6, <1>7 DEF Moves, Sound, Alike, Backed
<1>. QED  BY ONLY <1>3, <1>5, <1>7, <1>8

\* An amount up to the caller's cap.
Within(x, max) == x \in Nat /\ (max # 0 => x <= max)

\* Who takes liquidity out keeps the rest, and earns a part of the fee on it.
LEMMA WithdrawnIs ==
    ASSUME NEW m, Sound(m), NEW u \in Users, NEW p \in Nat, NEW stable \in Nat, NEW asset \in Nat,
           NEW max \in Nat, NEW n \in Withdrawn(m, u, p, stable, asset, max)
    PROVE  /\ Moves(m, n, u)
           /\ LpAsset(n, u) = LpAsset(m, u) - asset
           /\ Within(LpStable(n, u) - (LpStable(m, u) - stable), max)
           /\ stable = LpStable(m, u) /\ asset = LpAsset(m, u)
                => n.of[u].stable = 0 /\ n.of[u].asset = 0
<1>. DEFINE s == LpStable(m, u) - stable
            a == LpAsset(m, u) - asset
            rs == m.stable - stable
            ra == m.asset - asset
            left == [m EXCEPT !.stable = rs, !.asset = ra, !.of[u].stable = s, !.of[u].asset = a]
<1>1. /\ stable <= LpStable(m, u) /\ asset <= LpAsset(m, u)
      /\ n \in {Credit(Earned(left, fee, p), u, asset, stable - fee) :
                  fee \in RemovalCharges(m, stable, asset, max)}
  <2>1. left = [m EXCEPT !.stable = @ - stable, !.asset = @ - asset,
                         !.of[u].stable = LpStable(m, u) - stable,
                         !.of[u].asset = LpAsset(m, u) - asset]
    BY Zenon
  <2>2. n \in IF stable <= LpStable(m, u) /\ asset <= LpAsset(m, u)
              THEN {Credit(Earned(left, fee, p), u, asset, stable - fee) :
                      fee \in RemovalCharges(m, stable, asset, max)}
              ELSE {}
    BY <2>1, Zenon DEF Withdrawn
  <2>. HIDE DEF left
  <2>. QED  BY <2>2, Zenon
<1>2. PICK fee \in RemovalCharges(m, stable, asset, max) :
         n = Credit(Earned(left, fee, p), u, asset, stable - fee)
  <2>. HIDE DEF left
  <2>. QED  BY <1>1, Zenon
<1>3. fee \in Nat /\ Within(fee, max)
  BY ChargesFit DEF RemovalCharges, Within
<1>. DEFINE e == Earned(left, fee, p)
            back == stable - fee
<1>4. m \in Market
  BY DEF Sound
<1>5. /\ LpStable(m, u) \in 0..m.stable /\ LpStable(m, u) <= m.of[u].stable
      /\ LpAsset(m, u) \in 0..m.asset /\ LpAsset(m, u) <= m.of[u].asset
      /\ m.stable \in Nat /\ m.asset \in Nat
  BY <1>4, LegsWithin DEF Market
<1>6. s \in Nat /\ a \in Nat /\ rs \in Nat /\ ra \in Nat /\ s <= rs /\ a <= ra /\ back \in Int
  BY <1>1, <1>3, <1>5
<1>. DEFINE ds == LpStable(n, u) - s
<1>7. stable = LpStable(m, u) /\ asset = LpAsset(m, u) => s = 0 /\ a = 0
  BY <1>5
<1>8. LpAsset(m, u) - asset = a /\ LpStable(m, u) - stable = s
  OBVIOUS
<1>8a. Reset(m, left, u, rs, ra, s, a)
  BY Zenon DEF Reset
<1>9. n = Credit(e, u, asset, back)
  BY <1>2
<1>. HIDE DEF s, a, rs, ra, left
<1>10. /\ Moves(m, left, u) /\ left.stable = rs /\ left.asset = ra
       /\ left.of[u].stable = s /\ left.of[u].asset = a
  BY <1>6, <1>8a, LegsSet
<1>. HIDE DEF back
<1>11. LpStable(left, u) = s /\ LpAsset(left, u) = a /\ Sound(left)
  BY <1>6, <1>10 DEF LpStable, LpAsset, Moves
<1>12. /\ Drifts(left, e)
       /\ LpAsset(e, u) = a /\ LpStable(e, u) - s \in 0..fee
  BY <1>3, <1>11, EarnedIs
<1>. HIDE DEF e
<1>13. /\ Sound(e) /\ Moves(left, e, u)
       /\ s = 0 /\ a = 0 => e.of[u].stable = 0 /\ e.of[u].asset = 0
  BY <1>10, <1>12, DriftIsMove DEF Drifts, Alike
<1>14. /\ Moves(e, n, u) /\ LpStable(n, u) = LpStable(e, u) /\ LpAsset(n, u) = LpAsset(e, u)
       /\ n.of[u].stable = e.of[u].stable /\ n.of[u].asset = e.of[u].asset
  BY <1>6, <1>9, <1>13, CreditIs
<1>15. Moves(m, n, u)
  BY <1>10, <1>13, <1>14, MovesCompose
<1>16. Within(LpStable(n, u) - s, max)
  BY <1>3, <1>12, <1>14 DEF Within
<1>. QED  BY <1>7, <1>8, <1>12, <1>13, <1>14, <1>15, <1>16

\* removeLiquidity is a withdrawal, of enough, that the user can afford.
LEMMA RemovedIs ==
    ASSUME NEW m, Sound(m), NEW u \in Users, NEW p \in Nat, NEW stable \in Nat, NEW asset \in Nat,
           NEW max \in Nat, NEW n \in RemoveLiquidityFor(m, u, p, stable, asset, max)
    PROVE  n \in Withdrawn(m, u, p, stable, asset, max)
BY Zenon DEF RemoveLiquidityFor

\* Who brings liquidity in has it in the pool but for the fee, taken from the
\* stable or, if there is too little of it, borrowed; of its own fee, too, it
\* earns a part.
LEMMA ProvidedIs ==
    ASSUME NEW m, Sound(m), NEW u \in Users, NEW p \in Nat, NEW stable \in Nat, NEW asset \in Nat,
           NEW fee \in Nat, NEW n, n = Provided(m, u, p, stable, asset, fee)
    PROVE  /\ Moves(m, n, u)
           /\ LpAsset(n, u) = LpAsset(m, u) + asset
           /\ LpStable(n, u) - LpStable(m, u) - (IF stable >= fee THEN stable - fee ELSE 0)
                \in 0..fee
<1>. DEFINE e == Earned(m, fee, p)
            in == IF stable >= fee THEN stable - fee ELSE 0
            rs == e.stable + in
            ra == e.asset + asset
            s == LpStable(e, u) + in
            a == LpAsset(e, u) + asset
            z == [e EXCEPT !.stable = rs, !.asset = ra, !.of[u].stable = s, !.of[u].asset = a]
            paid == -(in + fee)
<1>1. n = Credit(z, u, -asset, paid)
  BY Zenon DEF Provided
<1>2. in \in Nat /\ paid \in Int /\ -asset \in Int
  OBVIOUS
<1>. HIDE DEF in
<1>3. Drifts(m, e) /\ LpAsset(e, u) = LpAsset(m, u) /\ LpStable(e, u) - LpStable(m, u) \in 0..fee
  BY EarnedIs
<1>. HIDE DEF e
<1>4. Sound(e) /\ e \in Market /\ Moves(m, e, u)
  BY <1>3, DriftIsMove DEF Drifts, Sound
<1>5. /\ LpStable(e, u) \in 0..e.stable /\ LpAsset(e, u) \in 0..e.asset
      /\ e.stable \in Nat /\ e.asset \in Nat
  BY <1>4, LegsWithin DEF Market
<1>6. rs \in Nat /\ ra \in Nat /\ s \in Nat /\ a \in Nat /\ s <= rs /\ a <= ra
  BY <1>2, <1>5
<1>7. LpStable(m, u) \in Nat
  BY LegsWithin DEF Sound, Market
<1>8. a = LpAsset(m, u) + asset /\ s - LpStable(m, u) - in \in 0..fee
  BY <1>2, <1>3, <1>5, <1>7
<1>8a. Reset(e, z, u, rs, ra, s, a)
  BY Zenon DEF Reset
<1>. HIDE DEF rs, ra, s, a, z
<1>9. /\ Moves(e, z, u) /\ z.stable = rs /\ z.asset = ra
      /\ z.of[u].stable = s /\ z.of[u].asset = a
  BY ONLY u \in Users, <1>4, <1>6, <1>8a, LegsSet
<1>. HIDE DEF paid
<1>10. LpStable(z, u) = s /\ LpAsset(z, u) = a /\ Sound(z)
  BY <1>6, <1>9 DEF LpStable, LpAsset, Moves
<1>11. Moves(z, n, u) /\ LpStable(n, u) = LpStable(z, u) /\ LpAsset(n, u) = LpAsset(z, u)
  BY <1>1, <1>2, <1>10, CreditIs
<1>12. Moves(m, n, u)
  BY <1>4, <1>9, <1>11, MovesCompose
<1>. QED  BY <1>8, <1>10, <1>11, <1>12 DEF in

\* Who deposits has as much more, but for the fee.
LEMMA AddedIs ==
    ASSUME NEW m, Sound(m), NEW u \in Users, NEW p \in Nat, NEW stable \in Nat, NEW asset \in Nat,
           NEW max \in Nat, NEW n \in AddLiquidityFor(m, u, p, stable, asset, max)
    PROVE  /\ Moves(m, n, u)
           /\ LpAsset(n, u) = LpAsset(m, u) + asset
           /\ \E fee : /\ Within(fee, max)
                       /\ LpStable(n, u) - LpStable(m, u)
                            - (IF stable >= fee THEN stable - fee ELSE 0) \in 0..fee
<1>1. n \in {Provided(m, u, p, stable, asset, fee) : fee \in Charges(m, max)}
  BY Zenon DEF AddLiquidityFor
<1>2. PICK fee \in Charges(m, max) : n = Provided(m, u, p, stable, asset, fee)
  BY <1>1, Zenon
<1>3. fee \in Nat /\ Within(fee, max)
  BY ChargesFit DEF Within
<1>4. /\ Moves(m, n, u)
      /\ LpAsset(n, u) = LpAsset(m, u) + asset
      /\ LpStable(n, u) - LpStable(m, u) - (IF stable >= fee THEN stable - fee ELSE 0) \in 0..fee
  BY <1>2, <1>3, ProvidedIs
<1>. QED  BY <1>3, <1>4

\* The steps of a close.
LEMMA EmptiedMoves ==
    ASSUME NEW m, Sound(m), NEW u \in Users, NEW p \in Nat, NEW max \in Nat,
           NEW n \in Emptied(m, u, p, max)
    PROVE  Moves(m, n, u)
<1>. DEFINE z == [m EXCEPT !.of[u].stable = 0, !.of[u].asset = 0]
<1>1. n \in IF LpStable(m, u) = 0 /\ LpAsset(m, u) = 0 THEN {z}
            ELSE Withdrawn(m, u, p, LpStable(m, u), LpAsset(m, u), max)
  BY Zenon DEF Emptied
<1>2. m \in Market
  BY DEF Sound
<1>3. m.stable \in Nat /\ m.asset \in Nat /\ LpStable(m, u) \in Nat /\ LpAsset(m, u) \in Nat
  BY <1>2, LegsWithin DEF Market
<1>4. Reset(m, z, u, m.stable, m.asset, 0, 0)
  BY <1>2 DEF Market, Reset
<1>. HIDE DEF z
<1>5. Moves(m, z, u)
  BY <1>3, <1>4, LegsSet
<1>6. CASE LpStable(m, u) = 0 /\ LpAsset(m, u) = 0
  <2>1. n = z
    BY <1>1, <1>6, Zenon
  <2>. QED  BY <1>5, <2>1
<1>7. CASE ~ (LpStable(m, u) = 0 /\ LpAsset(m, u) = 0)
  <2>1. n \in Withdrawn(m, u, p, LpStable(m, u), LpAsset(m, u), max)
    BY <1>1, <1>7, Zenon
  <2>. QED  BY <1>3, <2>1, WithdrawnIs
<1>. QED  BY <1>6, <1>7

\* Unwinding a position is a trade, or nothing.
LEMMA UnwoundMoves ==
    ASSUME NEW m, Sound(m), NEW u \in Users, NEW p \in Nat, NEW n \in Unwound(m, u, p)
    PROVE  Moves(m, n, u)
<1>. DEFINE x == m.of[u].hold
<1>1. n \in IF x > 0 THEN UNION {Sells(m, u, x, got) : got \in Near(x * p)}
            ELSE IF x < 0 THEN UNION {Buys(m, u, -x * p + above, -x) : above \in Slippage}
            ELSE {m}
  BY Zenon DEF Unwound
<1>2. x \in Int
  BY DEF Sound, Market, Account
<1>. HIDE DEF x
<1>3. CASE x > 0
  <2>1. PICK got \in Near(x * p) : n \in Sells(m, u, x, got)
    BY <1>1, <1>3, Zenon
  <2>2. x \in Nat /\ x * p \in Int
    BY <1>2, <1>3
  <2>3. got \in Nat
    BY <2>2, NearIsAmount
  <2>. QED  BY <2>1, <2>2, <2>3, SellsMoves
<1>4. CASE x < 0
  <2>1. ~ (x > 0)
    BY <1>2, <1>4
  <2>2. PICK above \in Slippage : n \in Buys(m, u, -x * p + above, -x)
    BY <1>1, <1>4, <2>1, Zenon
  <2>3. -x \in Nat /\ above \in Nat
    BY <1>2, <1>4, NumbersFit
  <2>4. (-x) * p \in Nat /\ -x * p = (-x) * p
    BY <1>2, <2>3
  <2>5. -x * p + above \in Nat
    BY <2>3, <2>4
  <2>. QED  BY <2>2, <2>3, <2>5, BuysMoves
<1>5. CASE ~ (x > 0) /\ ~ (x < 0)
  <2>1. n = m
    BY <1>1, <1>5, Zenon
  <2>. QED  BY <2>1 DEF Moves, Alike, Backed
<1>. QED  BY <1>3, <1>4, <1>5

-----------------------------------------------------------------------------
(* Closing, and moving the PnL.                                            *)

\* Every field of the idle account is at its zero.
LEMMA IdleIs == Idle \in Account /\ Ordered(Idle)
BY DEF Ordered, Account, Idle, NoOrder

\* An account without anything is idle.
LEMMA NothingIsIdle ==
    ASSUME NEW a \in Account, a.hold = 0, a.cash = 0, a.stable = 0, a.asset = 0,
           a.collateral = 0, a.order = NoOrder, a.asked = FALSE
    PROVE  a = Idle
BY DEF Account, Idle

\* And stays so while others move the pool.
LEMMA IdleStays ==
    ASSUME NEW m, NEW n, Sound(n), NEW u \in Users, Alike(m, n, u), m.of[u] = Idle
    PROVE  n.of[u] = Idle
<1>1. n.of[u] \in Account
  BY DEF Sound, Market
<1>2. /\ n.of[u].hold = 0 /\ n.of[u].cash = 0 /\ n.of[u].stable = 0 /\ n.of[u].asset = 0
      /\ n.of[u].collateral = 0 /\ n.of[u].order = NoOrder /\ n.of[u].asked = FALSE
  BY DEF Alike, Backed, Idle
<1>. QED  BY ONLY <1>1, <1>2, NothingIsIdle

\* Nothing is left but collateral.
Bare(m, u) ==
    /\ m.of[u].hold = 0 /\ m.of[u].cash = 0 /\ m.of[u].stable = 0 /\ m.of[u].asset = 0
    /\ m.of[u].order = NoOrder /\ m.of[u].asked = FALSE

\* Nobody else loses or gains.
Spares(m, n, u) == \A v \in Users \ {u} : Alike(m, n, v)

\* The end of a close leaves an empty account with its collateral, and nobody else touched.
LEMMA ClosedIs ==
    ASSUME NEW m, Sound(m), NEW u \in Users, NEW n, n = Closed(m, u)
    PROVE  Sound(n) /\ Bare(n, u) /\ Spares(m, n, u)
<1>. DEFINE left == IF m.of[u].collateral + m.of[u].cash >= 0
                    THEN m.of[u].collateral + m.of[u].cash ELSE 0
            a == [Idle EXCEPT !.collateral = left]
<1>1. left \in Nat /\ m \in Market
  BY DEF Sound, Market, Account
<1>2. Replaced(m, n, u, a)
  BY <1>1 DEF Closed, Replaced, Market
<1>. HIDE DEF left
<1>3. /\ a \in Account /\ a.hold = 0 /\ a.cash = 0 /\ a.stable = 0 /\ a.asset = 0
      /\ a.order = NoOrder /\ a.asked = FALSE
  BY <1>1, IdleIs DEF Account, Idle
<1>4. Ordered(a)
  BY <1>3 DEF Ordered
<1>. HIDE DEF a
<1>5. /\ Sound(n) /\ n.of[u] = a
      /\ \A v \in Users \ {u} : n.of[v] = m.of[v] /\ Alike(m, n, v)
  BY <1>2, <1>3, <1>4, OneReplaced
<1>. QED  BY <1>3, <1>5 DEF Bare, Spares

\* And so does the whole of it.
LEMMA CloseIs ==
    ASSUME NEW m, Sound(m), NEW u \in Users, NEW p \in Nat, NEW max \in Nat,
           NEW n \in CloseAndWithdrawFor(m, u, p, max)
    PROVE  Sound(n) /\ Bare(n, u) /\ Spares(m, n, u)
<1>1. PICK e, z : /\ e \in Emptied(m, u, p, max) /\ z \in Unwound(e, u, p)
                  /\ n = Closed(z, u)
  <2>1. PICK z \in Then(Emptied(m, u, p, max), LAMBDA e : Unwound(e, u, p)) : n = Closed(z, u)
    BY Zenon DEF CloseAndWithdrawFor
  <2>2. z \in UNION {Unwound(e, u, p) : e \in Emptied(m, u, p, max)}
    BY <2>1, Zenon DEF Then
  <2>. QED  BY <2>1, <2>2, Zenon
<1>2. Moves(m, e, u) /\ Sound(e)
  BY <1>1, EmptiedMoves DEF Moves
<1>3. Moves(e, z, u)
  BY <1>1, <1>2, UnwoundMoves
<1>4. Moves(m, z, u) /\ Sound(z)
  BY <1>2, <1>3, MovesCompose DEF Moves
<1>5. Sound(n) /\ Bare(n, u) /\ Spares(z, n, u)
  BY <1>1, <1>4, ClosedIs
<1>. QED  BY <1>4, <1>5 DEF Moves, Spares, Alike, Backed

\* Cash and collateral are moved, and nothing else.
Paid(m, n, u, cash, collateral) ==
    n = [m EXCEPT !.of[u].cash = cash, !.of[u].collateral = collateral]

\* What does not move then.
Stands(m, n, u) ==
    /\ Spares(m, n, u)
    /\ n.stable = m.stable /\ n.asset = m.asset
    /\ n.of[u].hold = m.of[u].hold
    /\ n.of[u].stable = m.of[u].stable /\ n.of[u].asset = m.of[u].asset
    /\ n.of[u].order = m.of[u].order /\ n.of[u].asked = m.of[u].asked

\* Collateral and net stable can be set without touching the rest.
LEMMA MoneyMoved ==
    ASSUME NEW m, Sound(m), NEW u \in Users, NEW n, NEW cash \in Int, NEW collateral \in Nat,
           Paid(m, n, u, cash, collateral)
    PROVE  /\ Sound(n) /\ Stands(m, n, u)
           /\ n.of[u].cash = cash /\ n.of[u].collateral = collateral
<1>. DEFINE a == [m.of[u] EXCEPT !.cash = cash, !.collateral = collateral]
<1>1. m \in Market /\ m.of[u] \in Account /\ Ordered(m.of[u])
  BY DEF Sound, Market
<1>2. Replaced(m, n, u, a)
  BY <1>1 DEF Paid, Replaced, Market
<1>3. /\ a \in Account /\ a.hold = m.of[u].hold /\ a.cash = cash
      /\ a.stable = m.of[u].stable /\ a.asset = m.of[u].asset
      /\ a.collateral = collateral /\ a.order = m.of[u].order /\ a.asked = m.of[u].asked
  BY ONLY <1>1, cash \in Int, collateral \in Nat DEF Account
<1>4. Ordered(a)
  BY <1>1, <1>3 DEF Ordered
<1>. HIDE DEF a
<1>5. /\ Sound(n) /\ n.stable = m.stable /\ n.asset = m.asset /\ n.of[u] = a
      /\ \A v \in Users \ {u} : n.of[v] = m.of[v] /\ Alike(m, n, v)
  BY ONLY Sound(m), u \in Users, <1>2, <1>3, <1>4, OneReplaced
<1>. QED  BY <1>3, <1>5 DEF Spares, Stands

\* addCollateral, and removeCollateral.
LEMMA Deposited ==
    ASSUME NEW m, Sound(m), NEW u \in Users, NEW amount \in Nat, NEW n,
           n = AddCollateral(m, u, amount)
    PROVE  /\ Sound(n) /\ Stands(m, n, u)
           /\ n.of[u].cash = m.of[u].cash /\ n.of[u].collateral = m.of[u].collateral + amount
<1>1. m \in Market /\ m.of[u] \in Account
  BY DEF Sound, Market
<1>. DEFINE cash == m.of[u].cash
            more == m.of[u].collateral + amount
<1>2. Paid(m, n, u, cash, more)
  BY <1>1 DEF AddCollateral, Paid, Market, Account
<1>3. cash \in Int /\ more \in Nat
  BY <1>1 DEF Account
<1>. HIDE DEF cash, more
<1>4. Sound(n) /\ Stands(m, n, u) /\ n.of[u].cash = cash /\ n.of[u].collateral = more
  BY <1>2, <1>3, MoneyMoved
<1>. QED  BY <1>4 DEF cash, more

\* What removeCollateral changes, and what it leaves.
LEMMA CollateralTaken ==
    ASSUME NEW m, Sound(m), NEW u \in Users, NEW amount \in Nat,
           NEW n \in RemoveCollateral(m, u, amount)
    PROVE  /\ Sound(n) /\ Stands(m, n, u)
           /\ n.of[u].cash = m.of[u].cash /\ n.of[u].collateral = m.of[u].collateral - amount
<1>1. m \in Market /\ m.of[u] \in Account
  BY DEF Sound, Market
<1>2. /\ amount <= m.of[u].collateral
      /\ n = [m EXCEPT !.of[u].collateral = @ - amount]
  BY Zenon DEF RemoveCollateral, If
<1>. DEFINE cash == m.of[u].cash
            rest == m.of[u].collateral - amount
<1>3. cash \in Int /\ rest \in Nat
  BY <1>1, <1>2 DEF Account
<1>4. Paid(m, n, u, cash, rest)
  BY <1>1, <1>2 DEF Paid, Market, Account
<1>. HIDE DEF cash, rest
<1>5. Sound(n) /\ Stands(m, n, u) /\ n.of[u].cash = cash /\ n.of[u].collateral = rest
  BY <1>3, <1>4, MoneyMoved
<1>. QED  BY <1>5 DEF cash, rest

\* What the PnL is but for the net stable.
Rest(m, u, p) ==
    LpStable(m, u) + IF Net(m, u) > 0 THEN Return(Net(m, u), p, m.stable, m.asset)
                     ELSE IF Net(m, u) < 0 THEN -Cost(-Net(m, u), p, m.stable, m.asset) ELSE 0

\* The curve gives a whole number.
LEMMA PnLIs ==
    ASSUME NEW m, Sound(m), NEW u \in Users, NEW p \in Prices, Valued(m, u)
    PROVE  Rest(m, u, p) \in Int /\ PnL(m, u, p) = m.of[u].cash + Rest(m, u, p)
<1>. DEFINE x == Net(m, u)
            curve == IF x > 0 THEN Return(x, p, m.stable, m.asset)
                     ELSE IF x < 0 THEN -Cost(-x, p, m.stable, m.asset) ELSE 0
<1>1. /\ x \in -Limit..Limit /\ m.stable \in 0..Limit /\ m.asset \in 0..Limit /\ Limit \in Nat
  BY NumbersFit DEF Valued
<1>2. m \in Market /\ m.of[u].cash \in Int
  BY DEF Sound, Market, Account
<1>3. LpStable(m, u) \in Int
  BY <1>1, <1>2, LegsWithin
<1>4. PnL(m, u, p) = m.of[u].cash + LpStable(m, u) + curve /\ Rest(m, u, p) = LpStable(m, u) + curve
  BY Zenon DEF PnL, Rest
<1>. HIDE DEF x
<1>5. curve \in Int
  <2>1. CASE x > 0
    <3>1. x \in 1..Limit
      BY <1>1, <2>1
    <3>2. Return(x, p, m.stable, m.asset) \in Nat
      BY <1>1, <3>1, CurveFits
    <3>. QED  BY <2>1, <3>2
  <2>2. CASE x < 0
    <3>1. -x \in 1..Limit /\ ~ (x > 0)
      BY <1>1, <2>2
    <3>2. Cost(-x, p, m.stable, m.asset) \in Nat
      BY <1>1, <3>1, CurveFits
    <3>. QED  BY <2>2, <3>1, <3>2
  <2>3. CASE ~ (x > 0) /\ ~ (x < 0)
    BY <2>3
  <2>. QED  BY <2>1, <2>2, <2>3
<1>. HIDE DEF curve
<1>. QED  BY <1>2, <1>3, <1>4, <1>5

\* A realisation moves the PnL to the collateral, to the last unit.
LEMMA Realized ==
    ASSUME NEW m, Sound(m), NEW u \in Users, NEW p \in Prices, NEW n \in RealizePnLFor(m, u, p)
    PROVE  /\ Sound(n) /\ Stands(m, n, u)
           /\ n.of[u].cash = m.of[u].cash - PnL(m, u, p)
           /\ n.of[u].collateral = m.of[u].collateral + PnL(m, u, p)
<1>. DEFINE gain == PnL(m, u, p)
            cash == m.of[u].cash - gain
            more == m.of[u].collateral + gain
<1>1. /\ Bears(m, u, p)
      /\ n = [m EXCEPT !.of[u].cash = @ - gain, !.of[u].collateral = @ + gain]
  BY Zenon DEF RealizePnLFor, If
<1>2. m \in Market /\ m.of[u] \in Account
  BY DEF Sound, Market
<1>3. gain \in Int
  BY <1>1, <1>2, PnLIs DEF Bears, Account
<1>4. Paid(m, n, u, cash, more)
  BY <1>1, <1>2 DEF Paid, Market
<1>5. gain >= 0 \/ -gain < m.of[u].collateral
  BY <1>1 DEF Bears
<1>. HIDE DEF gain
<1>6. cash \in Int /\ more \in Nat
  BY <1>2, <1>3, <1>5 DEF Account
<1>. HIDE DEF cash, more
<1>7. Sound(n) /\ Stands(m, n, u) /\ n.of[u].cash = cash /\ n.of[u].collateral = more
  BY <1>4, <1>6, MoneyMoved
<1>. QED  BY <1>7 DEF cash, more, gain

\* The profit is taken out, the collateral behind it stays, and no profit is left.
LEMMA TakenIs ==
    ASSUME NEW m, Sound(m), NEW u \in Users, NEW p \in Prices, NEW n \in Taken(m, u, p)
    PROVE  Sound(n) /\ n.of[u].collateral = m.of[u].collateral /\ PnL(n, u, p) = 0
<1>. DEFINE gain == PnL(m, u, p)
<1>1. /\ Valued(m, u) /\ ~ (gain < 0)
      /\ n \in UNION {RemoveCollateral(e, u, gain) : e \in RealizePnLFor(m, u, p)}
  BY Zenon DEF Taken, Then
<1>2. PICK e \in RealizePnLFor(m, u, p) : n \in RemoveCollateral(e, u, gain)
  BY <1>1, Zenon
<1>3. m.of[u].cash \in Int /\ m.of[u].collateral \in Nat /\ m \in Market
  BY DEF Sound, Market, Account
<1>4. Rest(m, u, p) \in Int /\ gain = m.of[u].cash + Rest(m, u, p)
  BY <1>1, PnLIs
<1>5. gain \in Nat
  BY <1>1, <1>3, <1>4
<1>6. /\ Sound(e) /\ Stands(m, e, u) /\ e.of[u].cash = m.of[u].cash - gain
      /\ e.of[u].collateral = m.of[u].collateral + gain
  BY Realized
<1>. HIDE DEF gain
<1>7. /\ Sound(n) /\ Stands(e, n, u) /\ n.of[u].cash = e.of[u].cash
      /\ n.of[u].collateral = e.of[u].collateral - gain
  BY <1>2, <1>5, <1>6, CollateralTaken
<1>8. n.of[u].collateral = m.of[u].collateral /\ n.of[u].cash = m.of[u].cash - gain
  BY <1>3, <1>5, <1>6, <1>7
<1>9. /\ n.stable = m.stable /\ n.asset = m.asset /\ n.of[u].hold = m.of[u].hold
      /\ n.of[u].stable = m.of[u].stable /\ n.of[u].asset = m.of[u].asset
  BY <1>6, <1>7 DEF Stands
<1>10. Net(n, u) = Net(m, u) /\ LpStable(n, u) = LpStable(m, u)
  BY <1>9 DEF Net, LpStable, LpAsset
<1>11. Rest(n, u, p) = Rest(m, u, p) /\ Valued(n, u)
  BY <1>1, <1>9, <1>10 DEF Rest, Valued
<1>12. PnL(n, u, p) = n.of[u].cash + Rest(n, u, p)
  BY <1>7, <1>11, PnLIs
<1>13. PnL(n, u, p) = 0
  BY <1>3, <1>4, <1>5, <1>8, <1>11, <1>12
<1>. QED  BY <1>7, <1>8, <1>13

-----------------------------------------------------------------------------
(* The compound calls do what they are asked for.                          *)

\* What a mixed modification goes through: a withdrawal of one leg, unless it
\* is too small, then an addition of the other, unless that is.
Withdraws(m, e, u, p, stable, asset, max) ==
    IF Worth(stable, asset, p) >= Threshold
    THEN e \in RemoveLiquidityFor(m, u, p, stable, asset, max) ELSE e = m

Adds(e, n, u, p, stable, asset, max) ==
    IF Worth(stable, asset, p) >= Threshold
    THEN n \in AddLiquidityFor(e, u, p, stable, asset, max) ELSE n = e

Mixed(m, n, u, p, out, in, max) ==
    \E e : Withdraws(m, e, u, p, out[1], out[2], max) /\ Adds(e, n, u, p, in[1], in[2], max)

\* An outcome of a call on the outcomes of another is one on one of them.
LEMMA MixedIs ==
    ASSUME NEW m, NEW u, NEW p, NEW aim, NEW n \in Modified(m, u, p, aim),
           ~ (LpStable(m, u) >= aim.stable /\ LpAsset(m, u) >= aim.asset),
           ~ (LpStable(m, u) < aim.stable /\ LpAsset(m, u) < aim.asset)
    PROVE  Mixed(m, n, u, p,
                 IF LpStable(m, u) < aim.stable THEN <<0, LpAsset(m, u) - aim.asset>>
                                                ELSE <<LpStable(m, u) - aim.stable, 0>>,
                 IF LpStable(m, u) < aim.stable THEN <<aim.stable - LpStable(m, u), 0>>
                                                ELSE <<0, aim.asset - LpAsset(m, u)>>,
                 aim.maxFee)
<1>. DEFINE max == aim.maxFee
            out == IF LpStable(m, u) < aim.stable THEN <<0, LpAsset(m, u) - aim.asset>>
                                                  ELSE <<LpStable(m, u) - aim.stable, 0>>
            in  == IF LpStable(m, u) < aim.stable THEN <<aim.stable - LpStable(m, u), 0>>
                                                  ELSE <<0, aim.asset - LpAsset(m, u)>>
            removes == Worth(out[1], out[2], p) >= Threshold
            adds    == Worth(in[1], in[2], p) >= Threshold
            less    == IF removes THEN RemoveLiquidityFor(m, u, p, out[1], out[2], max) ELSE {m}
<1>1. n \in IF ~removes /\ ~adds THEN {}
            ELSE IF adds THEN UNION {AddLiquidityFor(e, u, p, in[1], in[2], max) : e \in less}
                 ELSE less
  BY Zenon DEF Modified, Then
<1>. HIDE DEF out, in, removes, adds
<1>2. CASE adds
  <2>1. PICK e \in less : n \in AddLiquidityFor(e, u, p, in[1], in[2], max)
    BY <1>1, <1>2, Zenon
  <2>2. IF removes THEN e \in RemoveLiquidityFor(m, u, p, out[1], out[2], max) ELSE e = m
    BY Zenon
  <2>. HIDE DEF less, max
  <2>3. Withdraws(m, e, u, p, out[1], out[2], max) /\ Adds(e, n, u, p, in[1], in[2], max)
    BY <1>2, <2>1, <2>2, Zenon DEF Withdraws, Adds, adds, removes
  <2>. QED  BY <2>3, Zenon DEF Mixed, out, in, max
<1>3. CASE ~ adds
  <2>1. n \in less
    BY <1>1, <1>3, Zenon
  <2>2. IF removes THEN n \in RemoveLiquidityFor(m, u, p, out[1], out[2], max) ELSE n = m
    BY <2>1, Zenon
  <2>. HIDE DEF less, max
  <2>3. Withdraws(m, n, u, p, out[1], out[2], max) /\ Adds(n, n, u, p, in[1], in[2], max)
    BY <1>3, <2>2, Zenon DEF Withdraws, Adds, adds, removes
  <2>. QED  BY <2>3, Zenon DEF Mixed, out, in, max
<1>. QED  BY <1>2, <1>3, Zenon

\* What is left after the first half.
LEMMA FirstHalf ==
    ASSUME NEW m, Sound(m), NEW u \in Users, NEW p \in Nat, NEW stable \in Nat, NEW asset \in Nat,
           NEW max \in Nat, NEW e, Withdraws(m, e, u, p, stable, asset, max)
    PROVE  /\ Sound(e)
           /\ \/ /\ LpAsset(e, u) = LpAsset(m, u) - asset
                 /\ Within(LpStable(e, u) - (LpStable(m, u) - stable), max)
              \/ stable + asset * p < Threshold /\ e = m
<1>1. CASE Worth(stable, asset, p) >= Threshold
  <2>1. e \in Withdrawn(m, u, p, stable, asset, max)
    BY <1>1, RemovedIs DEF Withdraws
  <2>2. /\ Moves(m, e, u) /\ LpAsset(e, u) = LpAsset(m, u) - asset
        /\ Within(LpStable(e, u) - (LpStable(m, u) - stable), max)
    BY <2>1, WithdrawnIs
  <2>. QED  BY <2>2 DEF Moves
<1>2. CASE ~ (Worth(stable, asset, p) >= Threshold)
  <2>1. asset * p \in Nat
    OBVIOUS
  <2>2. Worth(stable, asset, p) < Threshold
    BY <1>2, <2>1, NumbersFit DEF Worth
  <2>. QED  BY <1>2, <2>2 DEF Withdraws, Worth
<1>. QED  BY <1>1, <1>2

\* And after the second.
LEMMA SecondHalf ==
    ASSUME NEW m, Sound(m), NEW u \in Users, NEW p \in Nat, NEW stable \in Nat, NEW asset \in Nat,
           NEW max \in Nat, NEW n, Adds(m, n, u, p, stable, asset, max)
    PROVE  /\ Sound(n)
           /\ \/ /\ LpAsset(n, u) = LpAsset(m, u) + asset
                 /\ \E fee : /\ Within(fee, max)
                             /\ LpStable(n, u) - LpStable(m, u)
                                  - (IF stable >= fee THEN stable - fee ELSE 0) \in 0..fee
              \/ stable + asset * p < Threshold /\ n = m
<1>1. CASE Worth(stable, asset, p) >= Threshold
  <2>1. n \in AddLiquidityFor(m, u, p, stable, asset, max)
    BY <1>1 DEF Adds
  <2>2. /\ Moves(m, n, u) /\ LpAsset(n, u) = LpAsset(m, u) + asset
        /\ \E fee : /\ Within(fee, max)
                    /\ LpStable(n, u) - LpStable(m, u)
                         - (IF stable >= fee THEN stable - fee ELSE 0) \in 0..fee
    BY <2>1, AddedIs
  <2>. QED  BY <2>2 DEF Moves
<1>2. CASE ~ (Worth(stable, asset, p) >= Threshold)
  <2>1. asset * p \in Nat
    OBVIOUS
  <2>2. Worth(stable, asset, p) < Threshold
    BY <1>2, <2>1, NumbersFit DEF Worth
  <2>. QED  BY <1>2, <2>2 DEF Adds, Worth
<1>. QED  BY <1>1, <1>2

\* How far the stable leg may end from its target.
Tolerated(off, max) ==
    max # 0 => \/ off \in -max..2 * max
               \/ -Threshold < off /\ off < Threshold + max

\* And the asset leg.
Exact(leg, target, p) == leg = target \/ Small((leg - target) * p)

\* _modifyLiquidityPosition leaves each leg as asked for, off by less than the
\* threshold, or by what fees have made of the stable leg.
LEMMA ModifiedReaches ==
    ASSUME NEW m, Sound(m), NEW u \in Users, NEW p \in Nat, NEW aim,
           aim.stable \in Nat, aim.asset \in Nat, aim.maxFee \in Nat,
           NEW n \in Modified(m, u, p, aim)
    PROVE  /\ Sound(n)
           /\ Exact(LpAsset(n, u), aim.asset, p)
           /\ Tolerated(LpStable(n, u) - aim.stable, aim.maxFee)
           /\ aim.stable = 0 /\ aim.asset = 0 => n.of[u].stable = 0 /\ n.of[u].asset = 0
<1>. DEFINE stable == LpStable(m, u)
            asset == LpAsset(m, u)
            max == aim.maxFee
<1>1. stable \in Nat /\ asset \in Nat
  BY LegsWithin DEF Sound, Market
<1>2. max \in Nat /\ Threshold \in Nat
  BY NumbersFit
<1>3. CASE stable >= aim.stable /\ asset >= aim.asset
  <2>. DEFINE x == stable - aim.stable
              y == asset - aim.asset
  <2>1. n \in RemoveLiquidityFor(m, u, p, x, y, max)
    BY <1>3, Zenon DEF Modified
  <2>2. x \in Nat /\ y \in Nat
    BY <1>1, <1>3
  <2>3. /\ stable - x = aim.stable /\ asset - y = aim.asset
        /\ aim.stable = 0 /\ aim.asset = 0 => x = stable /\ y = asset
    BY <1>1
  <2>. HIDE DEF x, y, max
  <2>4. n \in Withdrawn(m, u, p, x, y, max)
    BY <1>2, <2>1, <2>2, RemovedIs
  <2>5. /\ Moves(m, n, u) /\ LpAsset(n, u) = asset - y
        /\ Within(LpStable(n, u) - (stable - x), max)
        /\ x = stable /\ y = asset => n.of[u].stable = 0 /\ n.of[u].asset = 0
    BY <1>2, <2>2, <2>4, WithdrawnIs
  <2>6. Tolerated(LpStable(n, u) - aim.stable, max)
    BY <1>2, <2>3, <2>5 DEF Within, Tolerated
  <2>. QED  BY <2>3, <2>5, <2>6 DEF Moves, Exact, max
<1>4. CASE stable < aim.stable /\ asset < aim.asset
  <2>. DEFINE x == aim.stable - stable
              y == aim.asset - asset
  <2>0. ~ (stable >= aim.stable /\ asset >= aim.asset)
    BY <1>1, <1>4
  <2>1. n \in AddLiquidityFor(m, u, p, x, y, max)
    BY <1>4, <2>0, Zenon DEF Modified
  <2>2. x \in Nat /\ y \in Nat /\ x # 0 /\ y # 0
    BY <1>1, <1>4
  <2>3. aim.stable = stable + x /\ aim.asset = asset + y
    BY <1>1
  <2>. HIDE DEF x, y, max
  <2>4. /\ Moves(m, n, u) /\ LpAsset(n, u) = asset + y
        /\ \E fee : /\ Within(fee, max)
                    /\ LpStable(n, u) - stable - (IF x >= fee THEN x - fee ELSE 0) \in 0..fee
    BY <1>2, <2>1, <2>2, AddedIs
  <2>5. PICK fee : /\ Within(fee, max)
                   /\ LpStable(n, u) - stable - (IF x >= fee THEN x - fee ELSE 0) \in 0..fee
    BY <2>4
  <2>6. n \in Market
    BY <2>4 DEF Moves, Sound
  <2>7. LpStable(n, u) \in Nat
    BY <2>6, LegsWithin DEF Market
  <2>8. Tolerated(LpStable(n, u) - aim.stable, max)
    <3>. HIDE DEF stable
    <3>. QED  BY <1>1, <1>2, <2>2, <2>3, <2>5, <2>7 DEF Within, Tolerated
  <2>9. aim.stable # 0
    BY <1>1, <2>2, <2>3
  <2>. QED  BY <2>3, <2>4, <2>8, <2>9 DEF Moves, Exact, max
<1>5. CASE stable < aim.stable /\ ~ (asset < aim.asset)
  <2>. DEFINE x == asset - aim.asset
              y == aim.stable - stable
  <2>0. /\ ~ (stable >= aim.stable /\ asset >= aim.asset)
        /\ ~ (stable < aim.stable /\ asset < aim.asset)
    BY <1>1, <1>5
  <2>1. Mixed(m, n, u, p, <<0, x>>, <<y, 0>>, max)
    BY <1>5, <2>0, MixedIs
  <2>2. x \in Nat /\ y \in Nat /\ y # 0
    BY <1>1, <1>5
  <2>3. aim.stable = stable + y /\ asset = aim.asset + x
    BY <1>1
  <2>. HIDE DEF x, y, max
  <2>4. PICK e : Withdraws(m, e, u, p, 0, x, max) /\ Adds(e, n, u, p, y, 0, max)
    BY <2>1 DEF Mixed
  <2>5. /\ Sound(e)
        /\ \/ LpAsset(e, u) = asset - x /\ Within(LpStable(e, u) - (stable - 0), max)
           \/ 0 + x * p < Threshold /\ e = m
    BY <1>2, <2>2, <2>4, FirstHalf
  <2>6. /\ Sound(n)
        /\ \/ /\ LpAsset(n, u) = LpAsset(e, u) + 0
              /\ \E fee : /\ Within(fee, max)
                          /\ LpStable(n, u) - LpStable(e, u)
                               - (IF y >= fee THEN y - fee ELSE 0) \in 0..fee
           \/ y + 0 * p < Threshold /\ n = e
    BY <1>2, <2>2, <2>4, <2>5, SecondHalf
  <2>7. /\ LpStable(e, u) \in Nat /\ LpStable(n, u) \in Nat
        /\ LpAsset(e, u) \in Nat /\ LpAsset(n, u) \in Nat
    BY <2>5, <2>6, LegsWithin DEF Sound, Market
  <2>8. /\ LpAsset(n, u) = LpAsset(e, u)
        /\ LpAsset(e, u) = aim.asset \/ (LpAsset(e, u) - aim.asset = x /\ x * p < Threshold)
    <3>1. x * p \in Nat
      BY <2>2
    <3>. HIDE DEF asset
    <3>. QED  BY <1>1, <1>2, <2>2, <2>3, <2>5, <2>6, <2>7, <3>1 DEF asset
  <2>9. Exact(LpAsset(n, u), aim.asset, p)
    <3>1. x * p < Threshold => Small(x * p)
      <4>1. x * p \in Nat
        BY <2>2
      <4>. QED  BY <1>2, <4>1 DEF Small
    <3>. QED  BY <2>8, <3>1 DEF Exact
  <2>10. Within(LpStable(e, u) - stable, max)
    <3>1. Within(0, max)
      BY <1>2 DEF Within
    <3>. QED  BY <1>1, <2>5, <2>7, <3>1
  <2>11. Tolerated(LpStable(n, u) - aim.stable, max)
    <3>1. CASE y + 0 * p < Threshold /\ n = e
      BY <1>1, <1>2, <2>2, <2>3, <2>7, <2>10, <3>1 DEF Within, Tolerated
    <3>2. ASSUME NEW fee, Within(fee, max),
                 LpStable(n, u) - LpStable(e, u) - (IF y >= fee THEN y - fee ELSE 0) \in 0..fee
          PROVE  Tolerated(LpStable(n, u) - aim.stable, max)
      <4>. DEFINE s == LpStable(n, u)
                  r == LpStable(e, u)
                  off == s - aim.stable
      <4>. HIDE DEF s, r, stable
      <4>1. max # 0 => fee \in 0..max /\ r - stable \in 0..max
        BY <1>2, <2>10, <3>2 DEF Within, r
      <4>2. s \in Nat /\ r \in Nat /\ off = s - (stable + y) /\ fee \in Nat
        BY <2>3, <2>7, <3>2 DEF Within, s, r
      <4>3. s - r - (IF y >= fee THEN y - fee ELSE 0) \in 0..fee
        BY <3>2 DEF s, r
      <4>4. max # 0 => off \in -max..2 * max
        BY ONLY <1>1, <1>2, <2>2, <4>1, <4>2, <4>3
      <4>. QED  BY <4>4 DEF Tolerated, s
    <3>. QED  BY <2>6, <3>1, <3>2
  <2>12. aim.stable # 0
    BY <1>1, <2>2, <2>3
  <2>. QED  BY <2>6, <2>9, <2>11, <2>12 DEF max
<1>6. CASE ~ (stable < aim.stable) /\ asset < aim.asset
  <2>. DEFINE x == stable - aim.stable
              y == aim.asset - asset
  <2>0. /\ ~ (stable >= aim.stable /\ asset >= aim.asset)
        /\ ~ (stable < aim.stable /\ asset < aim.asset)
    BY <1>1, <1>6
  <2>1. Mixed(m, n, u, p, <<x, 0>>, <<0, y>>, max)
    BY <1>6, <2>0, MixedIs
  <2>2. x \in Nat /\ y \in Nat /\ y # 0
    BY <1>1, <1>6
  <2>3. stable = aim.stable + x /\ aim.asset = asset + y
    BY <1>1
  <2>. HIDE DEF x, y, max
  <2>4. PICK e : Withdraws(m, e, u, p, x, 0, max) /\ Adds(e, n, u, p, 0, y, max)
    BY <2>1 DEF Mixed
  <2>5. /\ Sound(e)
        /\ \/ LpAsset(e, u) = asset - 0 /\ Within(LpStable(e, u) - (stable - x), max)
           \/ x + 0 * p < Threshold /\ e = m
    BY <1>2, <2>2, <2>4, FirstHalf
  <2>6. /\ Sound(n)
        /\ \/ /\ LpAsset(n, u) = LpAsset(e, u) + y
              /\ \E fee : /\ Within(fee, max)
                          /\ LpStable(n, u) - LpStable(e, u)
                               - (IF 0 >= fee THEN 0 - fee ELSE 0) \in 0..fee
           \/ 0 + y * p < Threshold /\ n = e
    BY <1>2, <2>2, <2>4, <2>5, SecondHalf
  <2>7. /\ LpStable(e, u) \in Nat /\ LpStable(n, u) \in Nat
        /\ LpAsset(e, u) \in Nat /\ LpAsset(n, u) \in Nat
    BY <2>5, <2>6, LegsWithin DEF Sound, Market
  <2>8. /\ LpAsset(e, u) = asset
        /\ LpAsset(n, u) = aim.asset \/ (LpAsset(n, u) - aim.asset = -y /\ y * p < Threshold)
    <3>1. y * p \in Nat
      BY <2>2
    <3>2. LpAsset(e, u) = asset
      BY <1>1, <2>5
    <3>. QED  BY <1>1, <1>2, <2>2, <2>3, <2>6, <2>7, <3>1, <3>2
  <2>9. Exact(LpAsset(n, u), aim.asset, p)
    <3>1. y * p < Threshold => Small((-y) * p)
      <4>1. y * p \in Nat /\ (-y) * p = -(y * p)
        BY <2>2
      <4>. QED  BY <1>2, <4>1 DEF Small
    <3>. QED  BY <2>8, <3>1 DEF Exact
  <2>10. \/ Within(LpStable(e, u) - aim.stable, max)
         \/ x < Threshold /\ LpStable(e, u) - aim.stable = x
    BY <1>1, <1>2, <2>2, <2>3, <2>5, <2>7
  <2>11. \/ LpStable(n, u) = LpStable(e, u)
         \/ Within(LpStable(n, u) - LpStable(e, u), max)
    <3>1. ASSUME NEW fee, Within(fee, max),
                 LpStable(n, u) - LpStable(e, u) - (IF 0 >= fee THEN 0 - fee ELSE 0) \in 0..fee
          PROVE  Within(LpStable(n, u) - LpStable(e, u), max)
      BY <1>2, <2>7, <3>1 DEF Within
    <3>. QED  BY <2>6, <3>1
  <2>12. Tolerated(LpStable(n, u) - aim.stable, max)
    <3>. DEFINE s == LpStable(n, u)
                r == LpStable(e, u)
    <3>1. /\ s \in Nat /\ r \in Nat
          /\ s = r \/ Within(s - r, max)
          /\ Within(r - aim.stable, max) \/ (x < Threshold /\ r - aim.stable = x)
      BY <2>7, <2>10, <2>11
    <3>. HIDE DEF s, r
    <3>2. Tolerated(s - aim.stable, max)
      BY <1>2, <2>2, <3>1 DEF Within, Tolerated
    <3>. QED  BY <3>2 DEF s
  <2>13. aim.asset # 0
    BY <1>1, <2>2, <2>3
  <2>. QED  BY <2>6, <2>9, <2>12, <2>13 DEF max
<1>. QED  BY <1>1, <1>3, <1>4, <1>5, <1>6

\* What a message may ask for is reached by every outcome of its call.
LEMMA OutcomesReach ==
    ASSUME NEW m, Sound(m), NEW u \in Users, NEW p \in Prices, NEW aim \in Aim,
           NEW n \in Outcomes(m, u, p, aim)
    PROVE  Sound(n) /\ Reached(aim, u, m, n, p)
<1>1. /\ aim.kind \in {"trade", "provide", "modify", "take", "close"}
      /\ aim.collateral \in Nat /\ aim.size \in Int /\ aim.stable \in Nat /\ aim.asset \in Nat
      /\ aim.maxFee \in Nat
  BY DEF Aim, Kinds
<1>2. p \in Nat \ {0}
  BY NumbersFit
<1>3. CASE aim.kind = "trade"
  <2>. DEFINE e == AddCollateral(m, u, aim.collateral)
  <2>1. Sound(e) /\ e.of[u].collateral = m.of[u].collateral + aim.collateral
    BY <1>1, Deposited
  <2>2. n \in TradeFor(e, u, p, aim.size)
    BY <1>3 DEF Outcomes
  <2>. HIDE DEF e
  <2>3. Moves(e, n, u)
    BY <1>1, <1>2, <2>1, <2>2, TradeMoves
  <2>4. Sound(n) /\ n.of[u].collateral = m.of[u].collateral + aim.collateral
    BY <2>1, <2>3 DEF Moves, Backed
  <2>. QED  BY <1>3, <2>4 DEF Reached
<1>4. CASE aim.kind = "provide"
  <2>. DEFINE e == AddCollateral(m, u, aim.collateral)
  <2>1. Sound(e) /\ e.of[u].collateral = m.of[u].collateral + aim.collateral
    BY <1>1, Deposited
  <2>2. n \in AddLiquidityFor(e, u, p, aim.stable, aim.asset, aim.maxFee)
    BY <1>4 DEF Outcomes
  <2>. HIDE DEF e
  <2>3. Moves(e, n, u)
    BY <1>1, <1>2, <2>1, <2>2, AddedIs
  <2>4. Sound(n) /\ n.of[u].collateral = m.of[u].collateral + aim.collateral
    BY <2>1, <2>3 DEF Moves, Backed
  <2>. QED  BY <1>4, <2>4 DEF Reached
<1>5. CASE aim.kind = "modify"
  <2>1. n \in Modified(m, u, p, aim)
    BY <1>5 DEF Outcomes
  <2>2. /\ Sound(n)
        /\ Exact(LpAsset(n, u), aim.asset, p)
        /\ Tolerated(LpStable(n, u) - aim.stable, aim.maxFee)
        /\ aim.stable = 0 /\ aim.asset = 0 => n.of[u].stable = 0 /\ n.of[u].asset = 0
    BY <1>1, <1>2, <2>1, ModifiedReaches
  <2>3. AtTarget(n, u, p, aim)
    BY <2>2, Zenon DEF AtTarget, Exact, Tolerated
  <2>. QED  BY <1>5, <2>2, <2>3 DEF Reached
<1>6. CASE aim.kind = "take"
  <2>1. n \in Taken(m, u, p)
    BY <1>6 DEF Outcomes
  <2>. QED  BY <1>6, <2>1, TakenIs DEF Reached
<1>7. CASE aim.kind = "close"
  <2>1. n \in UNION {RemoveCollateral(e, u, e.of[u].collateral) :
                       e \in CloseAndWithdrawFor(m, u, p, aim.maxFee)}
    <3>1. Outcomes(m, u, p, aim) = Then(CloseAndWithdrawFor(m, u, p, aim.maxFee),
                                        LAMBDA e : RemoveCollateral(e, u, e.of[u].collateral))
      BY <1>7, Zenon DEF Outcomes
    <3>. QED  BY <3>1, Zenon DEF Then
  <2>2. PICK e \in CloseAndWithdrawFor(m, u, p, aim.maxFee) :
          n \in RemoveCollateral(e, u, e.of[u].collateral)
    BY <2>1, Zenon
  <2>3. Sound(e) /\ Bare(e, u)
    BY <1>1, <1>2, CloseIs
  <2>4. e.of[u].collateral \in Nat
    BY <2>3 DEF Sound, Market, Account
  <2>5. /\ Sound(n) /\ Stands(e, n, u)
        /\ n.of[u].cash = e.of[u].cash
        /\ n.of[u].collateral = e.of[u].collateral - e.of[u].collateral
    BY <2>2, <2>3, <2>4, CollateralTaken
  <2>6. /\ n.of[u].hold = 0 /\ n.of[u].cash = 0 /\ n.of[u].stable = 0 /\ n.of[u].asset = 0
        /\ n.of[u].order = NoOrder /\ n.of[u].asked = FALSE /\ n.of[u].collateral = 0
    BY <2>3, <2>4, <2>5 DEF Bare, Stands
  <2>7. n.of[u] \in Account
    BY <2>5 DEF Sound, Market
  <2>8. n.of[u] = Idle
    BY <2>6, <2>7, NothingIsIdle
  <2>. QED  BY <1>7, <2>5, <2>8 DEF Reached
<1>. QED  BY <1>1, <1>3, <1>4, <1>5, <1>6, <1>7

-----------------------------------------------------------------------------
(* The items of batches.                                                   *)

\* The keeper's account after a close of another's.
Rewarded(m, n, k) ==
    /\ Backed(m, n, k)
    /\ n.of[k].hold = m.of[k].hold /\ n.of[k].cash = m.of[k].cash + Fee

\* auto_close_with_price: nothing is left of the position, the keeper has the
\* fee, and nobody else loses or gains.
LEMMA AutoClosedIs ==
    ASSUME NEW m, Sound(m), NEW k \in Users, NEW u \in Users, NEW p \in Nat,
           NEW n \in AutoClosed(m, k, u, p)
    PROVE  /\ Sound(n) /\ Bare(n, u)
           /\ k # u => Rewarded(m, n, k)
           /\ \A v \in Users \ {k, u} : Alike(m, n, v)
<1>. DEFINE e == Credit(m, u, 0, -Fee)
            z == Credit(e, k, 0, Fee)
<1>0. Fee \in Int /\ -Fee \in Int
  BY NumbersFit
<1>1. n \in CloseAndWithdrawFor(z, u, p, 0)
  BY DEF AutoClosed
<1>2. /\ Moves(m, e, u) /\ \A v \in Users \ {u} : e.of[v] = m.of[v]
  BY <1>0, CreditIs
<1>. HIDE DEF e
<1>3. Sound(e)
  BY <1>2 DEF Moves
<1>4. /\ Moves(e, z, k) /\ z.of[k].hold = e.of[k].hold + 0 /\ z.of[k].cash = e.of[k].cash + Fee
  BY <1>0, <1>3, CreditIs
<1>. HIDE DEF z
<1>5. Sound(z)
  BY <1>4 DEF Moves
<1>6. Sound(n) /\ Bare(n, u) /\ Spares(z, n, u)
  BY <1>1, <1>5, CloseIs
<1>7. ASSUME k # u
      PROVE  Rewarded(m, n, k)
  <2>1. e.of[k] = m.of[k] /\ m.of[k].hold \in Int
    BY <1>2, <1>7 DEF Sound, Market, Account
  <2>2. Alike(z, n, k)
    BY <1>6, <1>7 DEF Spares
  <2>3. Backed(e, z, k)
    BY <1>4 DEF Moves
  <2>. QED  BY <1>4, <2>1, <2>2, <2>3 DEF Rewarded, Alike, Backed
<1>8. ASSUME NEW v \in Users \ {k, u}
      PROVE  Alike(m, n, v)
  <2>1. Alike(m, e, v) /\ Alike(e, z, v) /\ Alike(z, n, v)
    BY <1>2, <1>4, <1>6 DEF Moves, Spares
  <2>. QED  BY <2>1 DEF Alike, Backed
<1>. QED  BY <1>6, <1>7, <1>8

\* The liquidator takes the position over, and nothing is left of the account.
LEMMA TakenOverIs ==
    ASSUME NEW m, Sound(m), NEW l \in Users, NEW u \in Users, u # l, NEW p \in Nat,
           NEW n \in TakenOver(m, l, u, p)
    PROVE  /\ Sound(n) /\ n.of[u] = Idle
           /\ \A v \in Users \ {l, u} : Alike(m, n, v)
<1>. DEFINE x == m.of[u].hold
<1>1. PICK discount \in Slippage :
        n = [Credit(m, l, x, -(x * p - discount)) EXCEPT !.of[u] = Idle]
  BY Zenon DEF TakenOver
<1>. DEFINE sold == -(x * p - discount)
            e == Credit(m, l, x, sold)
<1>2. x \in Int /\ sold \in Int
  <2>1. x \in Int /\ discount \in Int
    BY NumbersFit DEF Sound, Market, Account
  <2>2. x * p \in Int
    BY <2>1
  <2>. HIDE DEF x
  <2>. QED  BY <2>1, <2>2
<1>3. n = [e EXCEPT !.of[u] = Idle]
  BY <1>1
<1>. HIDE DEF x, sold
<1>4. Moves(m, e, l)
  BY <1>2, CreditIs
<1>. HIDE DEF e
<1>5. Sound(e) /\ e \in Market
  BY <1>4 DEF Moves, Sound
<1>6. Replaced(e, n, u, Idle)
  BY <1>3, <1>5 DEF Replaced, Market
<1>7. /\ Sound(n) /\ n.of[u] = Idle
      /\ \A v \in Users \ {u} : Alike(e, n, v)
  BY <1>5, <1>6, IdleIs, OneReplaced
<1>8. ASSUME NEW v \in Users \ {l, u}
      PROVE  Alike(m, n, v)
  <2>1. Alike(m, e, v) /\ Alike(e, n, v)
    BY <1>4, <1>7 DEF Moves
  <2>. QED  BY <2>1 DEF Alike, Backed
<1>. QED  BY <1>7, <1>8

\* liquidate_with_price.
LEMMA LiquidatedIs ==
    ASSUME NEW m, Sound(m), NEW l \in Users, NEW u \in Users, NEW p \in Nat,
           NEW n \in Liquidated(m, l, u, p)
    PROVE  /\ Sound(n) /\ u # l /\ n.of[u] = Idle
           /\ \A v \in Users \ {l, u} : Alike(m, n, v)
<1>1. /\ u # l
      /\ n \in Then(Emptied(m, u, p, 0), LAMBDA e : TakenOver(e, l, u, p))
  <2>1. n \in IF u = l \/ Net(m, u) = 0 \/ MarginRatio(m, u, p) > MMR \div 2 THEN {}
              ELSE {z \in Then(Emptied(m, u, p, 0), LAMBDA e : TakenOver(e, l, u, p)) :
                      Safe(z, l, p)}
    BY Zenon DEF Liquidated
  <2>. QED  BY <2>1, Zenon
<1>2. n \in UNION {TakenOver(e, l, u, p) : e \in Emptied(m, u, p, 0)}
  BY <1>1, Zenon DEF Then
<1>3. PICK e \in Emptied(m, u, p, 0) : n \in TakenOver(e, l, u, p)
  BY <1>2, Zenon
<1>4. Moves(m, e, u) /\ Sound(e)
  BY EmptiedMoves DEF Moves
<1>5. /\ Sound(n) /\ n.of[u] = Idle
      /\ \A v \in Users \ {l, u} : Alike(e, n, v)
  BY <1>1, <1>3, <1>4, TakenOverIs
<1>6. ASSUME NEW v \in Users \ {l, u}
      PROVE  Alike(m, n, v)
  <2>1. Alike(m, e, v) /\ Alike(e, n, v)
    BY <1>4, <1>5 DEF Moves
  <2>. QED  BY <2>1 DEF Alike, Backed
<1>. QED  BY <1>1, <1>5, <1>6


-----------------------------------------------------------------------------
(* Batches, as what their folds go through item by item.                   *)

\* Max, of the places of a sequence.
LEMMA MaxOfPlaces ==
    ASSUME NEW n \in Nat, NEW s \in SUBSET (1..n), s # {}
    PROVE  Max(s) \in s /\ \A i \in s : i <= Max(s)
<1>. DEFINE T == {n - i : i \in s}
<1>1. T \in SUBSET Nat /\ T # {}
  <2>1. \A i \in s : n - i \in Nat
    OBVIOUS
  <2>2. T \in SUBSET Nat
    BY <2>1
  <2>. QED  BY <2>2, Zenon
<1>2. PICK d \in T : \A e \in T : d <= e
  <2>. HIDE DEF T
  <2>. QED  BY <1>1, LeastNumber
<1>3. PICK x \in s : d = n - x
  BY <1>2
<1>4. \A i \in s : x >= i
  <2>. SUFFICES ASSUME NEW i \in s PROVE x >= i
    OBVIOUS
  <2>1. n - x <= n - i
    BY <1>2, <1>3
  <2>. QED  BY <2>1
<1>5. \E y \in s : \A i \in s : y >= i
  BY <1>4
<1>6. Max(s) \in s /\ \A i \in s : Max(s) >= i
  BY <1>5 DEF Max
<1>. QED  BY <1>6

\* A batch: of orders or of liquidations, by whom, at what price, of whom, and
\* on what market.
Item(b, m, u) ==
    IF b.orders THEN Swept(m, b.by, u, b.price) ELSE Liquidated(m, b.by, u, b.price)

\* The outcomes of an item on those before it.
After(b, outcomes, u) == UNION {Item(b, m, u) : m \in outcomes}

\* g holds the outcomes of any part of the batch, the last item last.
Progress(g, b, I) ==
    g = [s \in SUBSET I |-> IF s = {} THEN {b.from}
                            ELSE After(b, g[s \ {Max(s)}], b.users[Max(s)])]

Outcome(b) == CHOOSE g : Progress(g, b, DOMAIN b.users)

OrdersOf(k, users, p) ==
    [orders |-> TRUE, by |-> k, price |-> p, users |-> users, from |-> market]

LiquidationsOf(k, users, p) ==
    [orders |-> FALSE, by |-> k, price |-> p, users |-> users, from |-> market]

\* The fold of a batch of orders is the table's last entry.
LEMMA OrdersFold ==
    ASSUME NEW k, NEW users, NEW p
    PROVE  FoldLeft(LAMBDA outcomes, u : Then(outcomes, LAMBDA m : Swept(m, k, u, p)),
                    {market}, users)
             = Outcome(OrdersOf(k, users, p))[DOMAIN users]
<1>. DEFINE b == OrdersOf(k, users, p)
<1>1. b.orders /\ b.by = k /\ b.price = p /\ b.users = users /\ b.from = market
  BY DEF OrdersOf
<1>. HIDE DEF b
<1>2. \A outcomes, u : After(b, outcomes, u) = UNION {Swept(m, k, u, p) : m \in outcomes}
  BY <1>1, Zenon DEF After, Item
<1>3. ASSUME NEW g
      PROVE  Progress(g, b, DOMAIN users)
               <=> g = [s \in SUBSET DOMAIN users |->
                          IF s = {} THEN {market}
                          ELSE Then(g[s \ {Max(s)}],
                                    LAMBDA m : Swept(m, k, users[Max(s)], p))]
  <2>. DEFINE Left(s) == IF s = {} THEN {b.from}
                         ELSE After(b, g[s \ {Max(s)}], b.users[Max(s)])
              Right(s) == IF s = {} THEN {market}
                          ELSE Then(g[s \ {Max(s)}],
                                    LAMBDA m : Swept(m, k, users[Max(s)], p))
  <2>1. ASSUME NEW s
        PROVE  Left(s) = Right(s)
    <3>. DEFINE prior == g[s \ {Max(s)}]
                last == users[Max(s)]
    <3>1. Right(s) = IF s = {} THEN {market} ELSE UNION {Swept(m, k, last, p) : m \in prior}
      BY Zenon DEF Then
    <3>2. Left(s) = IF s = {} THEN {market} ELSE After(b, prior, last)
      BY <1>1, Zenon
    <3>. HIDE DEF prior, last, Left, Right
    <3>. QED  BY <3>1, <3>2, <1>2, Zenon
  <2>2. Progress(g, b, DOMAIN users) <=> g = [s \in SUBSET DOMAIN users |-> Left(s)]
    BY <1>1, Zenon DEF Progress
  <2>3. (g = [s \in SUBSET DOMAIN users |-> Left(s)])
           <=> (g = [s \in SUBSET DOMAIN users |-> Right(s)])
    <3>. HIDE DEF Left, Right
    <3>. QED  BY <2>1, Zenon
  <2>. QED  BY <2>2, <2>3, Zenon
<1>4. Outcome(b) = CHOOSE g : g = [s \in SUBSET DOMAIN users |->
                          IF s = {} THEN {market}
                          ELSE Then(g[s \ {Max(s)}],
                                    LAMBDA m : Swept(m, k, users[Max(s)], p))]
  BY <1>1, <1>3, Zenon DEF Outcome
<1>. QED  BY <1>4, Zenon DEF FoldLeft, MapThenFoldSet, b

\* And so is that of a batch of liquidations.
LEMMA LiquidationsFold ==
    ASSUME NEW k, NEW users, NEW p
    PROVE  FoldLeft(LAMBDA outcomes, u : Then(outcomes, LAMBDA m : Liquidated(m, k, u, p)),
                    {market}, users)
             = Outcome(LiquidationsOf(k, users, p))[DOMAIN users]
<1>. DEFINE b == LiquidationsOf(k, users, p)
<1>1. ~ b.orders /\ b.by = k /\ b.price = p /\ b.users = users /\ b.from = market
  BY DEF LiquidationsOf
<1>. HIDE DEF b
<1>2. \A outcomes, u : After(b, outcomes, u) = UNION {Liquidated(m, k, u, p) : m \in outcomes}
  BY <1>1, Zenon DEF After, Item
<1>3. ASSUME NEW g
      PROVE  Progress(g, b, DOMAIN users)
               <=> g = [s \in SUBSET DOMAIN users |->
                          IF s = {} THEN {market}
                          ELSE Then(g[s \ {Max(s)}],
                                    LAMBDA m : Liquidated(m, k, users[Max(s)], p))]
  <2>. DEFINE Left(s) == IF s = {} THEN {b.from}
                         ELSE After(b, g[s \ {Max(s)}], b.users[Max(s)])
              Right(s) == IF s = {} THEN {market}
                          ELSE Then(g[s \ {Max(s)}],
                                    LAMBDA m : Liquidated(m, k, users[Max(s)], p))
  <2>1. ASSUME NEW s
        PROVE  Left(s) = Right(s)
    <3>. DEFINE prior == g[s \ {Max(s)}]
                last == users[Max(s)]
    <3>1. Right(s) = IF s = {} THEN {market} ELSE UNION {Liquidated(m, k, last, p) : m \in prior}
      BY Zenon DEF Then
    <3>2. Left(s) = IF s = {} THEN {market} ELSE After(b, prior, last)
      BY <1>1, Zenon
    <3>. HIDE DEF prior, last, Left, Right
    <3>. QED  BY <3>1, <3>2, <1>2, Zenon
  <2>2. Progress(g, b, DOMAIN users) <=> g = [s \in SUBSET DOMAIN users |-> Left(s)]
    BY <1>1, Zenon DEF Progress
  <2>3. (g = [s \in SUBSET DOMAIN users |-> Left(s)])
           <=> (g = [s \in SUBSET DOMAIN users |-> Right(s)])
    <3>. HIDE DEF Left, Right
    <3>. QED  BY <2>1, Zenon
  <2>. QED  BY <2>2, <2>3, Zenon
<1>4. Outcome(b) = CHOOSE g : g = [s \in SUBSET DOMAIN users |->
                          IF s = {} THEN {market}
                          ELSE Then(g[s \ {Max(s)}],
                                    LAMBDA m : Liquidated(m, k, users[Max(s)], p))]
  BY <1>1, <1>3, Zenon DEF Outcome
<1>. QED  BY <1>4, Zenon DEF FoldLeft, MapThenFoldSet, b

\* There is such a table.
LEMMA TableExists ==
    ASSUME NEW b, NEW n \in Nat
    PROVE  \E g : Progress(g, b, 1..n)
<1>. DEFINE T == {m \in Nat : ~ \E g : Progress(g, b, 1..m)}
<1>. SUFFICES ASSUME T # {}
              PROVE  FALSE
  OBVIOUS
<1>1. PICK m \in T : \A l \in T : m <= l
  <2>1. T \in SUBSET Nat
    OBVIOUS
  <2>. HIDE DEF T
  <2>. QED  BY <2>1, LeastNumber
<1>2. m \in Nat /\ ~ \E g : Progress(g, b, 1..m)
  OBVIOUS
<1>3. m # 0
  <2>. SUFFICES ASSUME m = 0 PROVE FALSE
    OBVIOUS
  <2>1. 1..m = {} /\ SUBSET (1..m) = {{}}
    OBVIOUS
  <2>. DEFINE g == [s \in SUBSET (1..m) |-> {b.from}]
  <2>2. \A s \in SUBSET (1..m) : s = {}
    BY <2>1
  <2>3. Progress(g, b, 1..m)
    BY <2>2, Zenon DEF Progress
  <2>. HIDE DEF g
  <2>. QED  BY <1>2, <2>3
<1>4. m - 1 \in Nat /\ m - 1 \notin T
  BY <1>1, <1>2, <1>3
<1>5. PICK h : Progress(h, b, 1..(m - 1))
  BY <1>4
<1>. DEFINE g == [s \in SUBSET (1..m) |->
                    IF m \in s THEN After(b, h[s \ {m}], b.users[m]) ELSE h[s]]
<1>6. \A s \in SUBSET (1..m) : m \notin s => s \in SUBSET (1..(m - 1))
  BY <1>2
<1>7. \A s \in SUBSET (1..(m - 1)) : s \in SUBSET (1..m) /\ m \notin s
  BY <1>2
<1>8. \A s \in SUBSET (1..(m - 1)) : g[s] = h[s]
  BY <1>7, Zenon
<1>9. \A s \in SUBSET (1..m) : g[s] = IF s = {} THEN {b.from}
                               ELSE After(b, g[s \ {Max(s)}], b.users[Max(s)])
  <2>. SUFFICES ASSUME NEW s \in SUBSET (1..m)
                PROVE  g[s] = IF s = {} THEN {b.from}
                              ELSE After(b, g[s \ {Max(s)}], b.users[Max(s)])
    BY Zenon
  <2>1. CASE m \in s
    <3>1. s # {} /\ Max(s) \in s /\ \A i \in s : i <= Max(s)
      BY <1>2, <2>1, MaxOfPlaces
    <3>2. Max(s) = m
      <4>1. Max(s) \in 1..m /\ m <= Max(s)
        BY <2>1, <3>1
      <4>. HIDE DEF g
      <4>. QED  BY <1>2, <4>1
    <3>3. s \ {m} \in SUBSET (1..(m - 1))
      BY <1>6
    <3>4. g[s] = After(b, h[s \ {m}], b.users[m])
      BY <2>1, Zenon
    <3>5. g[s \ {m}] = h[s \ {m}]
      BY <3>3, <1>8, Zenon
    <3>. HIDE DEF g
    <3>. QED  BY <3>1, <3>2, <3>4, <3>5, Zenon
  <2>2. CASE m \notin s
    <3>1. s \in SUBSET (1..(m - 1))
      BY <2>2, <1>6
    <3>2. h[s] = IF s = {} THEN {b.from} ELSE After(b, h[s \ {Max(s)}], b.users[Max(s)])
      BY <1>5, <3>1, Zenon DEF Progress
    <3>3. s \ {Max(s)} \in SUBSET (1..(m - 1))
      BY <3>1
    <3>. HIDE DEF g
    <3>. QED  BY <3>1, <3>2, <3>3, <1>8, Zenon
  <2>. QED  BY <2>1, <2>2, Zenon
<1>10. g = [s \in SUBSET (1..m) |-> g[s]]
  BY Zenon
<1>. HIDE DEF g
<1>11. Progress(g, b, 1..m)
  BY <1>9, <1>10, Zenon DEF Progress
<1>. QED  BY <1>2, <1>11, Zenon

\* The outcomes of the first i items.
Served(b, i) == Outcome(b)[1..i]

\* A batch goes through its items one by one, in their order.
LEMMA ItemByItem ==
    ASSUME NEW b, b.users \in Seq(Users)
    PROVE  /\ Served(b, 0) = {b.from}
           /\ \A i \in 1..Len(b.users) :
                Served(b, i) = After(b, Served(b, i - 1), b.users[i])
           /\ Served(b, Len(b.users)) = Outcome(b)[DOMAIN b.users]
<1>. DEFINE n == Len(b.users)
<1>1. n \in Nat /\ DOMAIN b.users = 1..n
  BY LenProperties
<1>. HIDE DEF n
<1>2. Progress(Outcome(b), b, 1..n)
  <2>1. \E g : Progress(g, b, DOMAIN b.users)
    BY <1>1, TableExists
  <2>2. Progress(Outcome(b), b, DOMAIN b.users)
    BY <2>1, Zenon DEF Outcome
  <2>. QED  BY <2>2, <1>1
<1>3. \A s \in SUBSET (1..n) :
        Outcome(b)[s] = IF s = {} THEN {b.from}
                     ELSE After(b, Outcome(b)[s \ {Max(s)}], b.users[Max(s)])
  BY <1>2, Zenon DEF Progress
<1>4. Served(b, 0) = {b.from}
  <2>1. 1..0 = {} /\ {} \in SUBSET (1..n)
    OBVIOUS
  <2>. QED  BY <2>1, <1>3, Zenon DEF Served
<1>5. ASSUME NEW i \in 1..n
      PROVE  Served(b, i) = After(b, Served(b, i - 1), b.users[i])
  <2>0. i \in Nat /\ 1 <= i /\ i <= n
    BY <1>1
  <2>1. i \in Nat /\ 1..i \in SUBSET (1..n) /\ 1..i # {} /\ i \in 1..i
    <3>1. i \in 1..i
      BY <2>0
    <3>2. \A j \in 1..i : j \in 1..n
      BY ONLY <1>1, <2>0
    <3>. QED  BY <2>0, <3>1, <3>2
  <2>2. Max(1..i) \in 1..i /\ \A j \in 1..i : j <= Max(1..i)
    BY <2>1, MaxOfPlaces
  <2>3. Max(1..i) = i
    BY <2>1, <2>2
  <2>4. (1..i) \ {i} = 1..(i - 1)
    BY <2>1
  <2>. QED  BY <1>3, <2>1, <2>3, <2>4, Zenon DEF Served
<1>. QED  BY <1>1, <1>4, <1>5 DEF Served, n

-----------------------------------------------------------------------------
(* Batches, served.                                                        *)

Batch(b) ==
    /\ b.by \in Users /\ b.price \in Nat /\ b.users \in Seq(Users) /\ Distinct(b.users)
    /\ Sound(b.from)

\* Whose orders are gone.
Gone(b, m) ==
    {u \in Range(b.users) : b.from.of[u].order # NoOrder /\ m.of[u].order = NoOrder}

\* All but the legs.
Left(m, n, u) ==
    /\ n.of[u].hold = m.of[u].hold /\ n.of[u].cash = m.of[u].cash
    /\ n.of[u].collateral = m.of[u].collateral /\ n.of[u].order = m.of[u].order

\* After i items of a batch of orders the rest has its orders, the market is as
\* it was unless one is gone, and as long as none was gone those that were due
\* are gone now.
OrdersServed(b, i, m) ==
    /\ Sound(m)
    /\ \A j \in DOMAIN b.users :
         j > i => m.of[b.users[j]].order = b.from.of[b.users[j]].order
    /\ \A v \in Users \ (Gone(b, m) \cup {b.by}) : Left(b.from, m, v)
    /\ Gone(b, m) = {} => m = b.from
    /\ \A j \in 1..i :
         (\A l \in 1..j - 1 : b.users[l] \notin Gone(b, m)) =>
           (b.users[j] \in Gone(b, m) <=> Due(b.from, b.users[j], b.price))
    /\ b.by \notin Range(b.users) =>
         m.of[b.by].cash = b.from.of[b.by].cash + Fee * Cardinality(Gone(b, m))

\* After i items of a batch of liquidations: nothing is left of these accounts.
LiquidationsServed(b, i, m) ==
    /\ Sound(m)
    /\ \A j \in 1..i : b.users[j] # b.by /\ m.of[b.users[j]] = Idle
    /\ \A v \in Users \ (Range(b.users) \cup {b.by}) : Left(b.from, m, v)

\* The places of a batch, and who is there.
LEMMA Places ==
    ASSUME NEW b, Batch(b)
    PROVE  /\ Len(b.users) \in Nat /\ DOMAIN b.users = 1..Len(b.users)
           /\ \A j \in 1..Len(b.users) : b.users[j] \in Users /\ b.users[j] \in Range(b.users)
           /\ \A u \in Range(b.users) : \E j \in 1..Len(b.users) : b.users[j] = u
           /\ \A i, j \in 1..Len(b.users) : b.users[i] = b.users[j] => i = j
           /\ IsFiniteSet(Range(b.users))
<1>1. Len(b.users) \in Nat /\ DOMAIN b.users = 1..Len(b.users)
  BY LenProperties DEF Batch
<1>2. \A j \in 1..Len(b.users) : b.users[j] \in Users /\ b.users[j] \in Range(b.users)
  BY <1>1 DEF Batch, Range
<1>3. \A u \in Range(b.users) : \E j \in 1..Len(b.users) : b.users[j] = u
  BY <1>1 DEF Range
<1>4. \A i, j \in 1..Len(b.users) : b.users[i] = b.users[j] => i = j
  BY <1>1 DEF Batch, Distinct
<1>5. IsFiniteSet(Range(b.users))
  <2>. DEFINE n == Len(b.users)
  <2>1. IsFiniteSet(1..n)
    <3>1. 1 \in Int /\ n \in Int
      BY <1>1
    <3>. HIDE DEF n
    <3>. QED  BY ONLY <3>1, FS_Interval
  <2>2. b.users \in Surjection(1..Len(b.users), Range(b.users))
    <3>1. b.users \in [1..Len(b.users) -> Range(b.users)]
      BY <1>1, <1>2 DEF Batch
    <3>. QED  BY <1>3, <3>1 DEF Surjection
  <2>. QED  BY <2>1, <2>2, FS_Surjection
<1>. QED  BY <1>1, <1>2, <1>3, <1>4, <1>5

\* Before anything is served.
LEMMA NothingServed ==
    ASSUME NEW b, Batch(b)
    PROVE  OrdersServed(b, 0, b.from) /\ LiquidationsServed(b, 0, b.from)
<1>1. Gone(b, b.from) = {}
  BY DEF Gone
<1>2. Fee * Cardinality({}) = 0
  BY FS_EmptySet, NumbersFit
<1>3. b.from.of[b.by].cash \in Int
  BY DEF Batch, Sound, Market, Account
<1>4. 1..0 = {}
  OBVIOUS
<1>5. Sound(b.from) /\ \A v : Left(b.from, b.from, v)
  BY DEF Batch, Left
<1>. QED  BY <1>1, <1>2, <1>3, <1>4, <1>5 DEF OrdersServed, LiquidationsServed

\* One more order.
LEMMA OrderServed ==
    ASSUME NEW b, Batch(b), b.orders, NEW i \in 1..Len(b.users),
           NEW m, OrdersServed(b, i - 1, m), NEW n \in Item(b, m, b.users[i])
    PROVE  OrdersServed(b, i, n)
<1>. DEFINE u == b.users[i]
            k == b.by
            p == b.price
            N == Len(b.users)
<1>1. /\ N \in Nat /\ DOMAIN b.users = 1..N
      /\ \A j \in 1..N : b.users[j] \in Users /\ b.users[j] \in Range(b.users)
      /\ \A v \in Range(b.users) : \E j \in 1..N : b.users[j] = v
      /\ \A l, j \in 1..N : b.users[l] = b.users[j] => l = j
      /\ IsFiniteSet(Range(b.users))
  BY Places
<1>2. u \in Users /\ k \in Users /\ p \in Nat /\ Sound(m) /\ u \in Range(b.users)
  BY <1>1 DEF Batch, OrdersServed
<1>3. i \in Nat /\ i <= N /\ 1 <= i /\ \A j \in 1..i : j \in 1..N /\ (j = i \/ j \in 1..(i - 1))
  BY <1>1
<1>4. m.of[u].order = b.from.of[u].order
  <2>1. i \in DOMAIN b.users /\ i > i - 1
    BY <1>1, <1>3
  <2>. QED  BY <2>1 DEF OrdersServed
<1>5. u \notin Gone(b, m)
  BY <1>4 DEF Gone
<1>6. (\A l \in 1..i - 1 : b.users[l] \notin Gone(b, m)) => m = b.from
  <2>. SUFFICES ASSUME \A l \in 1..i - 1 : b.users[l] \notin Gone(b, m)
                PROVE  Gone(b, m) = {}
    BY DEF OrdersServed
  <2>1. ASSUME NEW j \in 1..N
        PROVE  b.users[j] \notin Gone(b, m)
    <3>1. CASE j \in 1..i - 1
      BY <3>1
    <3>2. CASE j \notin 1..i - 1
      <4>1. j > i - 1
        BY <1>1, <1>3, <3>2
      <4>2. m.of[b.users[j]].order = b.from.of[b.users[j]].order
        BY <1>1, <4>1 DEF OrdersServed
      <4>. QED  BY <4>2 DEF Gone
    <3>. QED  BY <3>1, <3>2
  <2>2. \A v \in Gone(b, m) : v \in Range(b.users)
    BY DEF Gone
  <2>. QED  BY <1>1, <2>1, <2>2
<1>7. n \in IF Due(m, u, p) THEN AutoClosed(m, k, u, p)
            ELSE IF m.of[u].order = NoOrder \/ Valued(m, u) THEN {m} ELSE {}
  BY Zenon DEF Item, Swept, If
<1>. HIDE DEF u, k, p, N
<1>8. CASE ~ Due(m, u, p)
  <2>1. n = m
    BY <1>7, <1>8, Zenon
  <2>2. (\A l \in 1..i - 1 : b.users[l] \notin Gone(b, m)) =>
          (u \in Gone(b, m) <=> Due(b.from, u, p))
    BY <1>5, <1>6, <1>8
  <2>3. \A j \in 1..i :
          (\A l \in 1..j - 1 : b.users[l] \notin Gone(b, m)) =>
            (b.users[j] \in Gone(b, m) <=> Due(b.from, b.users[j], b.price))
    <3>1. \A j \in 1..i - 1 :
            (\A l \in 1..j - 1 : b.users[l] \notin Gone(b, m)) =>
              (b.users[j] \in Gone(b, m) <=> Due(b.from, b.users[j], b.price))
      BY Zenon DEF OrdersServed
    <3>. QED  BY <1>3, <2>2, <3>1 DEF u, p
  <2>4. \A j \in DOMAIN b.users :
          j > i => m.of[b.users[j]].order = b.from.of[b.users[j]].order
    <3>1. \A j \in 1..N : j > i => j > i - 1
      BY <1>1, <1>3
    <3>. QED  BY <1>1, <3>1 DEF OrdersServed
  <2>. QED  BY <2>1, <2>3, <2>4 DEF OrdersServed
<1>9. CASE Due(m, u, p)
  <2>1. n \in AutoClosed(m, k, u, p)
    BY <1>7, <1>9, Zenon
  <2>2. /\ Sound(n) /\ Bare(n, u)
        /\ k # u => Rewarded(m, n, k)
        /\ \A v \in Users \ {k, u} : Alike(m, n, v)
    BY <1>2, <2>1, AutoClosedIs
  <2>3. \A v \in Users \ {u} : n.of[v].order = m.of[v].order
    BY <2>2 DEF Rewarded, Alike, Backed
  <2>4. n.of[u].order = NoOrder /\ b.from.of[u].order # NoOrder
    <3>1. m.of[u].order # NoOrder
      <4>. SUFFICES ASSUME m.of[u].order = NoOrder PROVE FALSE
        OBVIOUS
      <4>1. m.of[u].order.profit = 0 /\ m.of[u].order.loss = 0
        BY DEF NoOrder
      <4>. QED  BY <1>9, <4>1 DEF Due
    <3>. QED  BY <1>4, <2>2, <3>1 DEF Bare
  <2>5. Gone(b, n) = Gone(b, m) \cup {u}
    <3>1. ASSUME NEW v \in Range(b.users)
          PROVE  v \in Users
      <4>1. PICK j \in 1..N : b.users[j] = v
        BY <1>1
      <4>. QED  BY <1>1, <4>1
    <3>2. \A v \in Range(b.users) : v \in Gone(b, n) <=> v \in Gone(b, m) \/ v = u
      BY <2>3, <2>4, <3>1 DEF Gone
    <3>3. \A v \in Gone(b, n) \cup Gone(b, m) : v \in Range(b.users)
      BY DEF Gone
    <3>. QED  BY <1>2, <3>2, <3>3
  <2>6. \A j \in DOMAIN b.users :
          j > i => n.of[b.users[j]].order = b.from.of[b.users[j]].order
    <3>. SUFFICES ASSUME NEW j \in 1..N, j > i
                  PROVE  n.of[b.users[j]].order = b.from.of[b.users[j]].order
      BY <1>1
    <3>1. j > i - 1 /\ j # i
      BY <1>1, <1>3
    <3>2. m.of[b.users[j]].order = b.from.of[b.users[j]].order
      BY <1>1, <3>1 DEF OrdersServed
    <3>3. b.users[j] \in Users \ {u}
      BY <1>1, <1>3, <3>1 DEF u
    <3>. QED  BY <2>3, <3>2, <3>3
  <2>7. ASSUME NEW v \in Users \ (Gone(b, n) \cup {b.by})
        PROVE  Left(b.from, n, v)
    <3>1. v \in Users \ {k, u} /\ v \in Users \ (Gone(b, m) \cup {b.by})
      BY <2>5, <2>7 DEF k
    <3>2. Left(b.from, m, v)
      BY <3>1 DEF OrdersServed
    <3>3. Alike(m, n, v)
      BY <2>2, <3>1
    <3>. QED  BY <3>2, <3>3 DEF Left, Alike, Backed
  <2>8. ASSUME NEW j \in 1..i, \A l \in 1..j - 1 : b.users[l] \notin Gone(b, n)
        PROVE  b.users[j] \in Gone(b, n) <=> Due(b.from, b.users[j], b.price)
    <3>1. \A l \in 1..j - 1 : b.users[l] \notin Gone(b, m)
      BY <2>5, <2>8
    <3>2. CASE j = i
      BY <1>6, <1>9, <2>5, <3>1, <3>2 DEF u, p
    <3>3. CASE j # i
      <4>1. j \in 1..i - 1 /\ j \in 1..N
        BY <1>3, <3>3
      <4>2. b.users[j] \in Gone(b, m) <=> Due(b.from, b.users[j], b.price)
        BY <3>1, <4>1 DEF OrdersServed
      <4>3. b.users[j] # u
        BY <1>1, <1>3, <3>3, <4>1 DEF u
      <4>. QED  BY <2>5, <4>2, <4>3
    <3>. QED  BY <3>2, <3>3
  <2>9. ASSUME b.by \notin Range(b.users)
        PROVE  n.of[b.by].cash = b.from.of[b.by].cash + Fee * Cardinality(Gone(b, n))
    <3>1. Rewarded(m, n, k)
      BY <1>2, <2>2, <2>9 DEF k
    <3>2. m.of[b.by].cash = b.from.of[b.by].cash + Fee * Cardinality(Gone(b, m))
      BY <2>9 DEF OrdersServed
    <3>3. IsFiniteSet(Gone(b, m))
      <4>1. Gone(b, m) \subseteq Range(b.users)
        BY DEF Gone
      <4>. QED  BY <1>1, <4>1, FS_Subset
    <3>4. Cardinality(Gone(b, m)) \in Nat /\ Cardinality(Gone(b, n)) = Cardinality(Gone(b, m)) + 1
      BY <1>5, <2>5, <3>3, FS_AddElement, FS_CardinalityType
    <3>5. Fee \in Nat /\ b.from.of[b.by].cash \in Int
      BY NumbersFit DEF Batch, Sound, Market, Account
    <3>. DEFINE g == Cardinality(Gone(b, m))
    <3>6. g \in Nat
      BY <3>4
    <3>6a. Fee * (g + 1) = Fee * g + Fee /\ Fee * g \in Int
      <4>. HIDE DEF g
      <4>. QED  BY <3>5, <3>6
    <3>7. n.of[b.by].cash = m.of[b.by].cash + Fee
      BY <3>1 DEF Rewarded, k
    <3>. QED  BY <3>2, <3>4, <3>5, <3>6a, <3>7
  <2>10. Gone(b, n) # {}
    BY <2>5
  <2>. QED  BY <2>2, <2>6, <2>7, <2>8, <2>9, <2>10 DEF OrdersServed
<1>. QED  BY <1>8, <1>9

\* One more liquidation.
LEMMA LiquidationServed ==
    ASSUME NEW b, Batch(b), ~ b.orders, NEW i \in 1..Len(b.users),
           NEW m, LiquidationsServed(b, i - 1, m), NEW n \in Item(b, m, b.users[i])
    PROVE  LiquidationsServed(b, i, n)
<1>. DEFINE u == b.users[i]
            l == b.by
            p == b.price
            N == Len(b.users)
<1>1. /\ N \in Nat
      /\ \A j \in 1..N : b.users[j] \in Users /\ b.users[j] \in Range(b.users)
      /\ \A h, j \in 1..N : b.users[h] = b.users[j] => h = j
  BY Places
<1>2. u \in Users /\ l \in Users /\ p \in Nat /\ Sound(m) /\ u \in Range(b.users)
  BY <1>1 DEF Batch, LiquidationsServed
<1>3. \A j \in 1..i : j \in 1..N /\ (j = i \/ j \in 1..(i - 1))
  BY <1>1
<1>4. n \in Liquidated(m, l, u, p)
  BY Zenon DEF Item
<1>. HIDE DEF u, l, p, N
<1>5. /\ Sound(n) /\ u # l /\ n.of[u] = Idle
      /\ \A v \in Users \ {l, u} : Alike(m, n, v)
  BY <1>2, <1>4, LiquidatedIs
<1>6. ASSUME NEW j \in 1..i
      PROVE  b.users[j] # b.by /\ n.of[b.users[j]] = Idle
  <2>1. CASE j = i
    BY <1>5, <2>1 DEF u, l
  <2>2. CASE j # i
    <3>1. j \in 1..(i - 1) /\ j \in 1..N /\ i \in 1..N
      BY <1>3, <2>2 DEF N
    <3>2. b.users[j] # b.by /\ m.of[b.users[j]] = Idle
      BY <3>1 DEF LiquidationsServed
    <3>3. b.users[j] \in Users \ {l, u}
      BY <1>1, <2>2, <3>1, <3>2 DEF u, l
    <3>4. Alike(m, n, b.users[j])
      BY <1>5, <3>3
    <3>. QED  BY <1>5, <3>2, <3>3, <3>4, IdleStays
  <2>. QED  BY <2>1, <2>2
<1>7. ASSUME NEW v \in Users \ (Range(b.users) \cup {b.by})
      PROVE  Left(b.from, n, v)
  <2>1. Left(b.from, m, v)
    BY DEF LiquidationsServed
  <2>2. Alike(m, n, v)
    BY <1>2, <1>5 DEF l
  <2>. QED  BY <2>1, <2>2 DEF Left, Alike, Backed
<1>. QED  BY <1>5, <1>6, <1>7 DEF LiquidationsServed

\* All items of a batch, one by one.
LEMMA BatchServed ==
    ASSUME NEW b, Batch(b), NEW m \in Outcome(b)[DOMAIN b.users]
    PROVE  /\ b.orders => OrdersServed(b, Len(b.users), m)
           /\ ~ b.orders => LiquidationsServed(b, Len(b.users), m)
<1>. DEFINE n == Len(b.users)
            Good(i) == \A d \in Served(b, i) : IF b.orders THEN OrdersServed(b, i, d)
                                               ELSE LiquidationsServed(b, i, d)
            T == {i \in 0..n : ~ Good(i)}
<1>1. n \in Nat
  BY LenProperties DEF Batch
<1>2. /\ Served(b, 0) = {b.from}
      /\ \A i \in 1..n : Served(b, i) = After(b, Served(b, i - 1), b.users[i])
      /\ Served(b, n) = Outcome(b)[DOMAIN b.users]
  BY ItemByItem DEF Batch
<1>3. Good(0)
  <2>1. OrdersServed(b, 0, b.from) /\ LiquidationsServed(b, 0, b.from)
    BY NothingServed
  <2>. QED  BY <1>2, <2>1
<1>4. ASSUME NEW i \in 1..n, Good(i - 1)
      PROVE  Good(i)
  <2>. SUFFICES ASSUME NEW d \in Served(b, i)
                PROVE  IF b.orders THEN OrdersServed(b, i, d) ELSE LiquidationsServed(b, i, d)
    BY Zenon
  <2>1. PICK e \in Served(b, i - 1) : d \in Item(b, e, b.users[i])
    <3>1. d \in UNION {Item(b, e, b.users[i]) : e \in Served(b, i - 1)}
      BY <1>2, Zenon DEF After
    <3>. QED  BY <3>1, Zenon
  <2>2. IF b.orders THEN OrdersServed(b, i - 1, e) ELSE LiquidationsServed(b, i - 1, e)
    BY <1>4, Zenon
  <2>3. CASE b.orders
    <3>1. OrdersServed(b, i - 1, e)
      BY <2>2, <2>3, Zenon
    <3>2. OrdersServed(b, i, d)
      BY <2>1, <2>3, <3>1, OrderServed
    <3>. QED  BY <2>3, <3>2, Zenon
  <2>4. CASE ~ b.orders
    <3>1. LiquidationsServed(b, i - 1, e)
      BY <2>2, <2>4, Zenon
    <3>2. LiquidationsServed(b, i, d)
      BY <2>1, <2>4, <3>1, LiquidationServed
    <3>. QED  BY <2>4, <3>2, Zenon
  <2>. QED  BY <2>3, <2>4
<1>5. T = {}
  <2>. SUFFICES ASSUME T # {} PROVE FALSE
    OBVIOUS
  <2>1. T \in SUBSET Nat
    BY <1>1
  <2>2. PICK i \in T : \A j \in T : i <= j
    <3>. HIDE DEF T
    <3>. QED  BY <2>1, LeastNumber
  <2>3. i \in 0..n /\ ~ Good(i)
    BY <2>2
  <2>. HIDE DEF Good, n
  <2>4. i # 0
    BY <1>3, <2>3
  <2>5. i - 1 \in 0..n /\ ~ (i <= i - 1)
    BY <1>1, <2>3, <2>4
  <2>6. Good(i - 1)
    BY <2>2, <2>5
  <2>7. i \in 1..n
    BY <1>1, <2>3, <2>4
  <2>8. Good(i)
    BY <1>4, <2>6, <2>7
  <2>. QED  BY <2>3, <2>8
<1>6. Good(n)
  <2>1. n \in 0..n
    BY <1>1
  <2>. HIDE DEF n, Good
  <2>. QED  BY <1>5, <2>1
<1>. QED  BY <1>2, <1>6, Zenon

-----------------------------------------------------------------------------
(* The steps.                                                              *)

\* The market is what calls can make of it.
Holdings == price \in Nat /\ Sound(market)

\* A call of one user, direct or relayed.
LEMMA CallServed ==
    ASSUME Holdings, NEW u \in Users, NEW aim \in Aim, Serve(u, aim)
    PROVE  Holdings' /\ Reached(aim, u, market, market', price')
<1>1. PICK p \in Prices : price' = p /\ Takes(Outcomes(market, u, p, aim))
  BY Zenon DEF Serve
<1>2. market' \in Outcomes(market, u, p, aim)
  BY <1>1, Zenon DEF Takes
<1>3. p \in Nat /\ Sound(market)
  BY NumbersFit DEF Holdings
<1>4. Sound(market') /\ Reached(aim, u, market, market', p)
  BY <1>2, <1>3, OutcomesReach
<1>5. Sound(market)'
  BY <1>4 DEF Sound
<1>. QED  BY <1>1, <1>3, <1>4, <1>5 DEF Holdings

\* A standing order is set or cleared.
LEMMA OrderSet ==
    ASSUME Holdings, NEW u \in Users, NEW order \in [profit : Nat, loss : Nat],
           NEW asked \in BOOLEAN, order # NoOrder => asked,
           market' = [market EXCEPT !.of[u].order = order, !.of[u].asked = asked],
           price' = price
    PROVE  Holdings'
<1>. DEFINE a == [market.of[u] EXCEPT !.order = order, !.asked = asked]
<1>1. Sound(market) /\ market \in Market /\ market.of[u] \in Account
  BY DEF Holdings, Sound, Market
<1>2. Replaced(market, market', u, a)
  BY <1>1 DEF Replaced, Market
<1>3. a \in Account /\ a.order = order /\ a.asked = asked
  BY <1>1 DEF Account
<1>4. Ordered(a)
  BY <1>3 DEF Ordered
<1>. HIDE DEF a
<1>5. Sound(market')
  BY ONLY u \in Users, <1>1, <1>2, <1>3, <1>4, OneReplaced
<1>6. Sound(market)'
  BY <1>5 DEF Sound
<1>. QED  BY <1>6 DEF Holdings

\* A batch of orders accounts for everybody in it.
Accounted(k, users) ==
    /\ \A j \in DOMAIN users :
         (\A i \in 1..j - 1 : users[i] \notin Executed(users)) =>
           (users[j] \in Executed(users) <=> Due(market, users[j], price'))
    /\ SameBut(Executed(users) \cup {k})
    /\ k \notin Range(users) =>
         market'.of[k].cash = market.of[k].cash + Fee * Cardinality(Executed(users))

\* A batch of orders accounts for everybody, as a step.
LEMMA OrdersStep ==
    ASSUME Holdings, NEW k \in Keepers, NEW users \in Batches, BatchAutoClose(k, users)
    PROVE  Holdings' /\ Accounted(k, users)
<1>1. PICK p \in Prices :
        /\ Distinct(users)
        /\ price' = p
        /\ Takes(FoldLeft(LAMBDA outcomes, u : Then(outcomes, LAMBDA m : Swept(m, k, u, p)),
                          {market}, users))
  BY Zenon DEF BatchAutoClose
<1>1a. p \in Prices /\ Distinct(users) /\ price' = p
  BY <1>1, Zenon
<1>. DEFINE b == OrdersOf(k, users, p)
<1>2. market' \in Outcome(b)[DOMAIN users]
  BY <1>1, OrdersFold, Zenon DEF Takes
<1>3. b.orders /\ b.by = k /\ b.price = p /\ b.users = users /\ b.from = market
  BY DEF OrdersOf
<1>. HIDE DEF b
<1>4. Batch(b) /\ users \in Seq(Users)
  BY <1>1a, <1>3, KeepersKnown, NumbersFit, BatchesFit DEF Batch, Holdings
<1>5. OrdersServed(b, Len(b.users), market')
  BY <1>2, <1>3, <1>4, BatchServed
<1>6. Holdings'
  <2>1. Sound(market')
    BY <1>5 DEF OrdersServed
  <2>2. Sound(market)'
    BY <2>1 DEF Sound
  <2>. QED  BY <1>1a, <2>2, NumbersFit DEF Holdings
<1>7. Gone(b, market') = Executed(users)
  BY <1>3 DEF Gone, Executed
<1>8. DOMAIN users = 1..Len(users)
  BY <1>4, LenProperties
<1>9. SameBut(Executed(users) \cup {k})
  BY <1>3, <1>5, <1>7 DEF OrdersServed, Left, SameBut
<1>10. \A j \in DOMAIN users :
         (\A i \in 1..j - 1 : users[i] \notin Executed(users)) =>
           (users[j] \in Executed(users) <=> Due(market, users[j], price'))
  <2>1. \A j \in 1..Len(b.users) :
          (\A i \in 1..j - 1 : b.users[i] \notin Gone(b, market')) =>
            (b.users[j] \in Gone(b, market') <=> Due(b.from, b.users[j], b.price))
    BY <1>5, Zenon DEF OrdersServed
  <2>. QED  BY <1>1a, <1>3, <1>7, <1>8, <2>1
<1>11. k \notin Range(users) =>
         market'.of[k].cash = market.of[k].cash + Fee * Cardinality(Executed(users))
  BY <1>3, <1>5, <1>7 DEF OrdersServed
<1>. QED  BY <1>6, <1>9, <1>10, <1>11 DEF Accounted

\* Of a batch of liquidations nobody is left, and nobody else is touched.
Cleared(k, users) ==
    /\ \A u \in Range(users) : market'.of[u] = Idle
    /\ SameBut(Range(users) \cup {k})

\* A batch of liquidations clears everybody in it, as a step.
LEMMA LiquidationsStep ==
    ASSUME Holdings, NEW k \in Keepers, NEW users \in Batches, BatchLiquidate(k, users)
    PROVE  Holdings' /\ Cleared(k, users)
<1>1. PICK p \in Prices :
        /\ Distinct(users)
        /\ price' = p
        /\ Takes(FoldLeft(LAMBDA outcomes, u : Then(outcomes, LAMBDA m : Liquidated(m, k, u, p)),
                          {market}, users))
  BY Zenon DEF BatchLiquidate
<1>1a. p \in Prices /\ Distinct(users) /\ price' = p
  BY <1>1, Zenon
<1>. DEFINE b == LiquidationsOf(k, users, p)
<1>2. market' \in Outcome(b)[DOMAIN users]
  BY <1>1, LiquidationsFold, Zenon DEF Takes
<1>3. ~ b.orders /\ b.by = k /\ b.price = p /\ b.users = users /\ b.from = market
  BY DEF LiquidationsOf
<1>. HIDE DEF b
<1>4. Batch(b) /\ users \in Seq(Users)
  BY <1>1a, <1>3, KeepersKnown, NumbersFit, BatchesFit DEF Batch, Holdings
<1>5. LiquidationsServed(b, Len(b.users), market')
  BY <1>2, <1>3, <1>4, BatchServed
<1>6. Holdings'
  <2>1. Sound(market')
    BY <1>5 DEF LiquidationsServed
  <2>2. Sound(market)'
    BY <2>1 DEF Sound
  <2>. QED  BY <1>1a, <2>2, NumbersFit DEF Holdings
<1>7. ASSUME NEW u \in Range(users)
      PROVE  market'.of[u] = Idle
  <2>1. PICK j \in 1..Len(b.users) : b.users[j] = u
    BY <1>3, <1>4, Places
  <2>. QED  BY <1>5, <2>1 DEF LiquidationsServed
<1>8. SameBut(Range(users) \cup {k})
  BY <1>3, <1>5 DEF LiquidationsServed, Left, SameBut
<1>. QED  BY <1>6, <1>7, <1>8 DEF Cleared

\* No step breaks the market.
LEMMA StepsHold ==
    ASSUME Holdings, [Next]_vars
    PROVE  Holdings'
<1>1. CASE NewBlock
  BY <1>1 DEF NewBlock, Holdings, Sound
<1>2. ASSUME NEW m \in Signed, Relay(m)
      PROVE  Holdings'
  <2>1. m.from \in Users /\ m.aim \in Aim /\ Serve(m.from, m.aim)
    BY <1>2, AimsFit DEF Message, Relay
  <2>. QED  BY <2>1, CallServed
<1>3. ASSUME NEW u \in Users, NEW aim \in Direct[u], Call(u, aim)
      PROVE  Holdings'
  <2>1. aim \in Aim /\ Serve(u, aim)
    BY <1>3, AimsFit DEF Call
  <2>. QED  BY <2>1, CallServed
<1>4. ASSUME NEW u \in Users, NEW order \in Orders[u], EnableAutoClose(u, order)
      PROVE  Holdings'
  <2>1. order \in [profit : Nat, loss : Nat]
    BY OrdersFit
  <2>2. /\ market' = [market EXCEPT !.of[u].order = order, !.of[u].asked = TRUE]
        /\ price' = price
    BY <1>4 DEF EnableAutoClose
  <2>. QED  BY <2>1, <2>2, OrderSet
<1>5. ASSUME NEW u \in Users, DisableAutoClose(u)
      PROVE  Holdings'
  <2>1. NoOrder \in [profit : Nat, loss : Nat]
    BY DEF NoOrder
  <2>2. /\ market' = [market EXCEPT !.of[u].order = NoOrder, !.of[u].asked = FALSE]
        /\ price' = price
    BY <1>5 DEF DisableAutoClose
  <2>. QED  BY <2>1, <2>2, OrderSet
<1>6. ASSUME NEW k \in Keepers, NEW u \in Users, AutoClose(k, u)
      PROVE  Holdings'
  <2>1. PICK p \in Prices : price' = p /\ Takes(AutoClosed(market, k, u, p))
    BY <1>6, Zenon DEF AutoClose
  <2>2. market' \in AutoClosed(market, k, u, p)
    BY <2>1, Zenon DEF Takes
  <2>3. k \in Users /\ p \in Nat /\ Sound(market)
    BY KeepersKnown, NumbersFit DEF Holdings
  <2>4. Sound(market')
    BY <2>2, <2>3, AutoClosedIs
  <2>5. Sound(market)'
    BY <2>4 DEF Sound
  <2>. QED  BY <2>1, <2>3, <2>5 DEF Holdings
<1>7. ASSUME NEW k \in Keepers, NEW users \in Batches, BatchAutoClose(k, users)
      PROVE  Holdings'
  BY <1>7, OrdersStep
<1>8. ASSUME NEW k \in Keepers, NEW users \in Batches, BatchLiquidate(k, users)
      PROVE  Holdings'
  BY <1>8, LiquidationsStep
<1>9. CASE UNCHANGED vars
  BY <1>9 DEF vars, Holdings, Sound
<1>. QED
  BY <1>1, <1>2, <1>3, <1>4, <1>5, <1>6, <1>7, <1>8, <1>9, Zenon DEF Next

\* What holds of the market at every step.
LEMMA MarketHolds == Spec => []Holdings
<1>1. Init => Holdings
  <2>. SUFFICES ASSUME Init PROVE Holdings
    OBVIOUS
  <2>1. price \in Nat /\ market = [stable |-> 0, asset |-> 0, of |-> [u \in Users |-> Idle]]
    BY NumbersFit DEF Init
  <2>2. market.of = [u \in Users |-> Idle] /\ market \in Market
    BY <2>1, IdleIs DEF Market
  <2>3. Sound(market)
    BY <2>2, IdleIs DEF Sound
  <2>. QED  BY <2>1, <2>3 DEF Holdings
<1>2. Holdings /\ [Next]_vars => Holdings'
  BY StepsHold
<1>. QED  BY <1>1, <1>2, PTL DEF Spec

\* No order outlives the close of the position it was given for, whoever
\* closes it: the user, a relayer, a keeper, a batch or a liquidator
\* (close.rs:141-142).
THEOREM OrdersDieWithPositions == Spec => []OrdersEndWithClose
<1>1. Holdings => OrdersEndWithClose
  BY DEF Holdings, Sound, Ordered, OrdersEndWithClose
<1>. QED  BY <1>1, MarketHolds, PTL

\* Whatever has become of the account, the pool and the price since a message
\* was signed, when it is carried out its user has what it asked for, in time:
\* the liquidity of the target, but for what is too small to move and for fees
\* within the signer's cap, of which the LP may pay one and earn back two; the
\* profit shown; or an empty account (StylusPerpMultiCalls.sol:216-232, 451-507,
\* 534-547).
THEOREM SignedForIsDone == Spec => AimsReached
<1>. DEFINE Done(m) == done'[m.from] = Append(done[m.from], m) =>
                         /\ now <= m.deadline
                         /\ Reached(m.aim, m.from, market, market', price')
<1>1. Recorded /\ Holdings /\ [Next]_vars => [\A m \in Signed : Done(m)]_vars
  <2>. SUFFICES ASSUME Recorded, Holdings, [Next]_vars, NEW m \in Signed,
                       done'[m.from] = Append(done[m.from], m)
                PROVE  /\ now <= m.deadline
                       /\ Reached(m.aim, m.from, market, market', price')
    BY Zenon
  <2>1. m \in Message /\ m.from \in Users
    BY AimsFit DEF Message
  <2>. DEFINE s == done[m.from]
  <2>2. s \in Seq(Message) /\ Len(s) \in Nat
    BY <2>1, LenProperties DEF Recorded
  <2>3. Append(s, m) # s
    <3>1. Len(Append(s, m)) = Len(s) + 1
      BY <2>1, <2>2, AppendProperties
    <3>. HIDE DEF s
    <3>. QED  BY <2>2, <3>1
  <2>4. CASE UNCHANGED <<nonces, done>>
    BY <2>3, <2>4
  <2>5. ASSUME NEW n \in Signed, Relay(n)
        PROVE  n = m
    <3>1. n \in Message /\ n.from \in Users
      BY AimsFit DEF Message
    <3>2. done' = [done EXCEPT ![n.from] = Append(@, n)]
      BY <2>5 DEF Relay
    <3>3. n.from = m.from
      <4>. SUFFICES ASSUME n.from # m.from PROVE FALSE
        OBVIOUS
      <4>1. done'[m.from] = s
        BY <2>1, <3>1, <3>2 DEF Recorded
      <4>. QED  BY <2>3, <4>1
    <3>4. Append(s, n) = Append(s, m)
      BY <2>1, <3>2, <3>3 DEF Recorded
    <3>5. Append(s, n)[Len(s) + 1] = n /\ Append(s, m)[Len(s) + 1] = m
      BY <2>1, <2>2, <3>1, AppendProperties
    <3>. HIDE DEF s
    <3>. QED  BY <3>4, <3>5
  <2>6. ASSUME Relay(m)
        PROVE  /\ now <= m.deadline
               /\ Reached(m.aim, m.from, market, market', price')
    <3>1. now <= m.deadline /\ Serve(m.from, m.aim) /\ m.aim \in Aim
      BY <2>1, <2>6 DEF Relay, Accepts, Message
    <3>. QED  BY <2>1, <3>1, CallServed
  <2>. QED  BY <2>4, <2>5, <2>6, OthersLeaveNonces
<1>2. IInv => Recorded
  BY DEF IInv
<1>. HIDE DEF Done
<1>3. Spec => [][\A m \in Signed : Done(m)]_vars
  BY <1>1, <1>2, RecordsHold, MarketHolds, PTL DEF Spec
<1>. QED  BY <1>3 DEF AimsReached, Done

\* Whatever the curve, the fees and the prices: until a batch has closed
\* somebody it executes exactly the orders that are due, none that fails is left
\* over, the keeper has one fee for each close, and all others keep what they
\* had; and of those a batch liquidates nothing is left (auto_close.rs:196-207,
\* liquidation.rs:244-255).
THEOREM BatchesAccounted == Spec => BatchesAccountForAll
<1>1. Holdings /\ [Next]_vars =>
        [\A k \in Keepers, users \in Batches :
           /\ BatchAutoClose(k, users) => Accounted(k, users)
           /\ BatchLiquidate(k, users) => Cleared(k, users)]_vars
  BY OrdersStep, LiquidationsStep, Zenon
<1>2. Spec => [][\A k \in Keepers, users \in Batches :
                  /\ BatchAutoClose(k, users) => Accounted(k, users)
                  /\ BatchLiquidate(k, users) => Cleared(k, users)]_vars
  BY <1>1, MarketHolds, PTL DEF Spec
<1>. QED  BY <1>2 DEF BatchesAccountForAll, Accounted, Cleared
=============================================================================
