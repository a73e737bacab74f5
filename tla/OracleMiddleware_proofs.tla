---------------------- MODULE OracleMiddleware_proofs ----------------------
(***************************************************************************)
(* Proofs about the price source, for every set of prices, any settings    *)
(* and any delays: what is stored keeps its type through the cut of the    *)
(* history, prices are accepted in the order of their stamps, the loop of  *)
(* _computeTWAP returns the time-weighted average, a price once accepted   *)
(* stays acceptable, and what is served is near the prices before it.      *)
(*                                                                         *)
(* The average is a recursion over the entries, its definition one over    *)
(* the ages; both are taken as tables, and an induction over the least     *)
(* counterexample relates them entry by entry.                             *)
(***************************************************************************)
EXTENDS OracleMiddleware, SumLemmas, SequenceTheorems

-----------------------------------------------------------------------------
(* Sequences.                                                              *)

\* A non-empty set of naturals up to a bound has a greatest element.
LEMMA Greatest ==
    ASSUME NEW n \in Nat, NEW S \in SUBSET (1..n), S # {}
    PROVE  \E i \in S : \A j \in S : j <= i
<1>. DEFINE Above(i) == {j \in S : j > i}
            T == {Above(i) : i \in S}
<1>1. IsFiniteSet(1..n)
  BY FS_Interval
<1>2. T \in SUBSET SUBSET (1..n) /\ T # {}
  OBVIOUS
<1>3. PICK s \in T : \A t \in T : t \subseteq s => t = s
  <2>. DEFINE I == 1..n
  <2>1. IsFiniteSet(I) /\ T \in SUBSET SUBSET I /\ T # {}
    BY <1>1, <1>2
  <2>. HIDE DEF T, I
  <2>. QED  BY ONLY <2>1, MinimalSet
<1>4. PICK i \in S : s = Above(i)
  BY <1>3
<1>5. \A j \in S : ~ (j > i)
  <2>. SUFFICES ASSUME NEW j \in S, j > i PROVE FALSE
    OBVIOUS
  <2>1. j \in Above(i) /\ ~ (j \in Above(j))
    BY <1>4
  <2>2. Above(j) \subseteq Above(i)
    <3>. SUFFICES ASSUME NEW x \in S, x > j PROVE x > i
      OBVIOUS
    <3>1. x \in Int /\ j \in Int /\ i \in Int
      OBVIOUS
    <3>. QED  BY <3>1
  <2>3. Above(j) = Above(i)
    BY <1>3, <1>4, <2>2
  <2>. QED  BY <2>1, <2>3
<1>6. \A j \in S : j \in Int /\ i \in Int
  OBVIOUS
<1>. QED  BY <1>5, <1>6

\* What is forgotten is a beginning: the last entry stays.
LEMMA ForgetIs ==
    ASSUME NEW h \in Seq(Entry)
    PROVE  /\ Forget(h) \in Seq(Entry)
           /\ h = <<>> => Forget(h) = <<>>
           /\ h # <<>> => /\ Forget(h) # <<>>
                          /\ Forget(h)[Len(Forget(h))] = h[Len(h)]
<1>. DEFINE old == {i \in DOMAIN h : h[i].age = Horizon}
            k == CHOOSE i \in old : \A j \in old : j <= i
            n == Len(h)
<1>1. n \in Nat /\ DOMAIN h = 1..n /\ \A i \in 1..n : h[i] \in Entry
  BY LenProperties, ElementOfSeq
<1>2. CASE old = {}
  <2>1. Forget(h) = h
    BY <1>2 DEF Forget
  <2>. QED  BY <2>1
<1>3. CASE old # {}
  <2>1. Forget(h) = SubSeq(h, k, n)
    BY <1>3 DEF Forget
  <2>2. \E i \in old : \A j \in old : j <= i
    <3>1. old \in SUBSET (1..n)
      BY <1>1
    <3>. HIDE DEF old
    <3>. QED  BY <1>1, <1>3, <3>1, Greatest
  <2>3. k \in old
    BY <2>2
  <2>4. k \in 1..n
    BY <1>1, <2>3
  <2>. HIDE DEF k, old
  <2>5. /\ SubSeq(h, k, n) \in Seq(Entry)
        /\ Len(SubSeq(h, k, n)) = IF k <= n THEN n - k + 1 ELSE 0
        /\ \A i \in 1 .. n - k + 1 : SubSeq(h, k, n)[i] = h[k + i - 1]
    <3>1. \A i \in k..n : h[i] \in Entry
      BY <1>1, <2>4
    <3>2. k \in Int /\ n \in Int
      BY <1>1, <2>4
    <3>. HIDE DEF n
    <3>. QED  BY <3>1, <3>2, SubSeqProperties
  <2>6. Len(SubSeq(h, k, n)) = n - k + 1 /\ n - k + 1 \in 1 .. n - k + 1
    BY <1>1, <2>4, <2>5
  <2>7. SubSeq(h, k, n)[n - k + 1] = h[n]
    <3>1. k + (n - k + 1) - 1 = n
      BY <1>1, <2>4
    <3>. HIDE DEF n
    <3>. QED  BY <2>5, <2>6, <3>1
  <2>8. SubSeq(h, k, n) # <<>>
    <3>1. Len(SubSeq(h, k, n)) # 0
      BY <1>1, <2>4, <2>6
    <3>. QED  BY <2>5, <3>1, EmptySeq
  <2>9. h # <<>>
    BY <1>1, <2>4
  <2>. QED  BY <2>1, <2>5, <2>6, <2>7, <2>8, <2>9
<1>. QED  BY <1>2, <1>3

-----------------------------------------------------------------------------
(* Types.                                                                  *)

\* The numbers the clock works with.
LEMMA Numbers ==
    /\ Ahead \in Nat /\ Late \in Nat /\ Horizon \in Nat /\ Late < Horizon
    /\ MaxChanges \in Nat /\ Step \in Nat \ {0} /\ Prices \subseteq Nat
    /\ Stamps \subseteq Ages
<1>1. PICK s \in Settings : Late + s.lookback < Horizon /\ s.lookback \in Nat
  BY SettingsFit DEF Setting
<1>2. Late < Horizon
  BY <1>1, TimesAreNat
<1>. QED  BY <1>2, TimesAreNat, PricesAreNat DEF Stamps, Ages

\* Ages stay ages.
LEMMA OlderIs ==
    ASSUME NEW a \in Ages
    PROVE  Older(a) \in Ages /\ \A b \in Ages : b <= a => Older(b) <= Older(a)
BY Numbers DEF Older, Ages

\* The history after a tick, before anything is forgotten.
Aged == [i \in DOMAIN history |-> [history[i] EXCEPT !.age = Older(history[i].age)]]

\* Aging keeps the history's type and its length.
LEMMA AgedIs ==
    ASSUME history \in Seq(Entry)
    PROVE  /\ Aged \in Seq(Entry)
           /\ history = <<>> => Aged = <<>>
           /\ history # <<>> =>
                /\ Aged # <<>>
                /\ Aged[Len(Aged)].age = Older(history[Len(history)].age)
                /\ history[Len(history)] \in Entry
<1>. DEFINE n == Len(history)
<1>1. n \in Nat /\ DOMAIN history = 1..n /\ \A i \in 1..n : history[i] \in Entry
  BY LenProperties, ElementOfSeq
<1>2. ASSUME NEW i \in 1..n
      PROVE  /\ [history[i] EXCEPT !.age = Older(history[i].age)] \in Entry
             /\ [history[i] EXCEPT !.age = Older(history[i].age)].age = Older(history[i].age)
  <2>1. history[i] \in Entry
    BY <1>1
  <2>2. history[i].age \in Ages
    BY <2>1 DEF Entry
  <2>3. Older(history[i].age) \in Ages
    BY <2>2, OlderIs
  <2>. QED  BY <2>1, <2>3 DEF Entry
<1>3. Aged = [i \in 1..n |-> [history[i] EXCEPT !.age = Older(history[i].age)]]
  BY <1>1 DEF Aged
<1>4. Aged \in [1..n -> Entry] /\ DOMAIN Aged = 1..n
  BY <1>2, <1>3
<1>5. Aged \in Seq(Entry)
  <2>. HIDE DEF n
  <2>. QED  BY <1>1, <1>4, SeqDef
<1>6. Len(Aged) = n
  BY <1>1, <1>4, <1>5, LenProperties
<1>7. CASE n = 0
  <2>1. history = <<>> /\ Aged = <<>>
    BY <1>5, <1>6, <1>7, EmptySeq
  <2>. QED  BY <1>5, <2>1
<1>8. CASE n # 0
  <2>1. n \in 1..n
    BY <1>1, <1>8
  <2>2. Aged[n].age = Older(history[n].age) /\ history[n] \in Entry
    BY <1>1, <1>2, <1>3, <2>1
  <2>3. history # <<>> /\ Aged # <<>>
    BY <1>6, <1>8
  <2>. QED  BY <1>5, <1>6, <2>2, <2>3
<1>. QED  BY <1>7, <1>8

\* The last price ages like the entries, and no price stays none.
LEMMA LastAged ==
    ASSUME last \in Entry \cup {NoPrice}
    PROVE  /\ last.age \in Ages
           /\ [last EXCEPT !.age = Older(last.age)] \in Entry \cup {NoPrice}
           /\ [last EXCEPT !.age = Older(last.age)].age = Older(last.age)
           /\ last = NoPrice => [last EXCEPT !.age = Older(last.age)] = NoPrice
<1>1. CASE last = NoPrice
  <2>1. last.age = Horizon /\ Older(last.age) = Horizon
    BY <1>1, Numbers DEF NoPrice, Older
  <2>. QED  BY <1>1, <2>1, Numbers DEF NoPrice, Ages
<1>2. CASE last \in Entry
  <2>1. last.age \in Ages
    BY <1>2 DEF Entry
  <2>2. Older(last.age) \in Ages
    BY <2>1, OlderIs
  <2>3. last # NoPrice \/ [last EXCEPT !.age = Older(last.age)] = NoPrice
    <3>1. ASSUME last = NoPrice
          PROVE  [last EXCEPT !.age = Older(last.age)] = NoPrice
      <4>1. last.age = Horizon /\ Older(last.age) = Horizon
        BY <3>1, Numbers DEF NoPrice, Older
      <4>. QED  BY <3>1, <4>1 DEF NoPrice
    <3>. QED  BY <3>1
  <2>. QED  BY <1>2, <2>1, <2>2, <2>3 DEF Entry
<1>. QED  BY <1>1, <1>2

\* A report that is taken is an entry.
LEMMA ReportIs ==
    ASSUME TypeOK, NEW age \in Stamps
    PROVE  [price |-> feed[age], age |-> age] \in Entry
BY Numbers DEF TypeOK, Entry

\* Initially nothing is stored.
LEMMA InitTyped == Init => TypeOK
BY TimesAreNat, EmptySeq DEF Init, TypeOK

\* Every step keeps the types.
LEMMA NextTyped == TypeOK /\ [Next]_vars => TypeOK'
<1>. SUFFICES ASSUME TypeOK, [Next]_vars PROVE TypeOK'
  OBVIOUS
<1>1. ASSUME Tick
      PROVE  TypeOK'
  <2>1. /\ feed' = [age \in Stamps |-> feed[IF age = -Ahead THEN age ELSE age - 1]]
        /\ history' = Forget(Aged)
        /\ last' = [last EXCEPT !.age = Older(last.age)]
        /\ UNCHANGED <<settings, changes>>
    BY <1>1 DEF Tick, Aged
  <2>2. ASSUME NEW age \in Stamps
        PROVE  feed[IF age = -Ahead THEN age ELSE age - 1] \in Prices
    <3>1. (IF age = -Ahead THEN age ELSE age - 1) \in Stamps
      BY Numbers DEF Stamps
    <3>. QED  BY <3>1 DEF TypeOK
  <2>3. feed' \in [Stamps -> Prices]
    BY <2>1, <2>2
  <2>4. history' \in Seq(Entry)
    BY <2>1, AgedIs, ForgetIs DEF TypeOK
  <2>5. last' \in Entry \cup {NoPrice}
    BY <2>1, LastAged DEF TypeOK
  <2>. QED  BY <2>1, <2>3, <2>4, <2>5 DEF TypeOK
<1>2. ASSUME NEW age \in Stamps, VerifyReport(age)
      PROVE  TypeOK'
  <2>1. /\ history' = Append(history, [price |-> feed[age], age |-> age])
        /\ last' = [price |-> feed[age], age |-> age] \/ last' = last
        /\ UNCHANGED <<feed, settings, changes>>
    BY <1>2 DEF VerifyReport
  <2>2. [price |-> feed[age], age |-> age] \in Entry
    BY ReportIs
  <2>3. history' \in Seq(Entry)
    BY <2>1, <2>2, AppendProperties DEF TypeOK
  <2>. QED  BY <2>1, <2>2, <2>3 DEF TypeOK
<1>3. ASSUME NEW price \in Prices, Sign(price)
      PROVE  TypeOK'
  BY <1>3 DEF Sign, TypeOK
<1>4. ASSUME NEW set \in Settings, NEW index \in 1..Len(history) + 1,
             SetParameters(set, index)
      PROVE  TypeOK'
  <2>1. /\ changes < MaxChanges /\ settings' = set
        /\ history' = SubSeq(history, 1, index - 1)
        /\ changes' = changes + 1 /\ UNCHANGED <<feed, last>>
    BY <1>4 DEF SetParameters
  <2>2. /\ Len(history) \in Nat /\ index - 1 \in Int /\ 1 \in Int
        /\ \A i \in 1..index - 1 : history[i] \in Entry
    <3>1. history \in Seq(Entry)
      BY DEF TypeOK
    <3>2. Len(history) \in Nat /\ \A i \in 1..Len(history) : history[i] \in Entry
      BY <3>1, LenProperties, ElementOfSeq
    <3>3. 1..index - 1 \subseteq 1..Len(history)
      BY <3>2
    <3>. QED  BY <3>2, <3>3
  <2>3. history' \in Seq(Entry)
    BY <2>1, <2>2, SubSeqProperties
  <2>4. changes' \in 0..MaxChanges
    BY <2>1, Numbers DEF TypeOK
  <2>. QED  BY <2>1, <2>3, <2>4 DEF TypeOK
<1>5. ASSUME UNCHANGED vars
      PROVE  TypeOK'
  BY <1>5 DEF vars, TypeOK
<1>. QED  BY <1>1, <1>2, <1>3, <1>4, <1>5 DEF Next, Deliver

\* What is stored and what was last accepted are reports of the network, with
\* the stamps they were signed with, whatever the owner does to the index and
\* whatever the cut of the history drops (TWAPOracleMiddleware.sol:241-330).
THEOREM TypeCorrect == Spec => []TypeOK
BY InitTyped, NextTyped, PTL DEF Spec

-----------------------------------------------------------------------------
(* Prices are accepted in the order of their stamps.                       *)

\* The part of AcceptedInOrder that a step has to keep.
Orderly ==
    InStep /\ UNCHANGED changes =>
        /\ InStep'
        /\ last'.age <= last.age \/ last' = [last EXCEPT !.age = Older(last.age)]

\* Where the newest entry stands.
LEMMA LastStoredIs ==
    ASSUME TypeOK
    PROVE  /\ LastStoredAge \in Int
           /\ history # <<>> => LastStoredAge \in Ages
           /\ history = <<>> => (InStep <=> last = NoPrice)
<1>1. CASE history = <<>>
  <2>1. LastStoredAge = Horizon + 1
    BY <1>1 DEF LastStoredAge
  <2>2. last.age \in Ages
    BY LastAged DEF TypeOK
  <2>3. ~ (Horizon + 1 <= last.age) /\ Horizon + 1 \in Int
    BY <2>2, Numbers DEF Ages
  <2>. QED  BY <1>1, <2>1, <2>3 DEF InStep
<1>2. CASE history # <<>>
  <2>1. LastStoredAge = history[Len(history)].age
    BY <1>2 DEF LastStoredAge
  <2>2. history[Len(history)] \in Entry
    BY <1>2, AgedIs DEF TypeOK
  <2>3. LastStoredAge \in Ages
    BY <2>1, <2>2 DEF Entry
  <2>4. Ages \subseteq Int
    BY Numbers DEF Ages
  <2>. QED  BY <1>2, <2>3, <2>4
<1>. QED  BY <1>1, <1>2

\* A report is newer than the last accepted one.
LEMMA DeliveryOrderly ==
    ASSUME TypeOK, NEW age \in Stamps, VerifyReport(age)
    PROVE  Orderly
<1>. SUFFICES ASSUME InStep
              PROVE  /\ InStep'
                     /\ last'.age <= last.age
  BY DEF Orderly
<1>. DEFINE new == [price |-> feed[age], age |-> age]
<1>1. /\ age < LastStoredAge
      /\ history' = Append(history, new)
      /\ last' = new \/ last' = last
  BY DEF VerifyReport, Newer
<1>2. new \in Entry /\ new.age = age /\ age \in Ages /\ age <= Late
  BY ReportIs, Numbers DEF Stamps
<1>. HIDE DEF new
<1>3. /\ history' # <<>> /\ Len(history') = Len(history) + 1
      /\ history'[Len(history) + 1] = new
  BY <1>1, <1>2, AppendProperties DEF TypeOK
<1>4. LastStoredAge' = age
  BY <1>2, <1>3 DEF LastStoredAge
<1>5. last.age \in Int /\ LastStoredAge \in Int /\ age \in Int /\ last.age <= Horizon
  BY <1>2, LastAged, LastStoredIs, Numbers DEF TypeOK, Ages
<1>6. age <= last.age
  <2>1. CASE last = NoPrice
    BY <1>2, <2>1, Numbers DEF NoPrice, Ages
  <2>2. CASE LastStoredAge <= last.age
    BY <1>1, <1>5, <2>2
  <2>. QED  BY <2>1, <2>2 DEF InStep
<1>7. InStep'
  <2>1. age <= last'.age
    BY <1>1, <1>2, <1>5, <1>6
  <2>. QED  BY <1>4, <2>1 DEF InStep
<1>. QED  BY <1>1, <1>2, <1>5, <1>6, <1>7

\* Time ages the last price and the newest entry alike.
LEMMA TickOrderly ==
    ASSUME TypeOK, Tick
    PROVE  Orderly
<1>. SUFFICES ASSUME InStep
              PROVE  InStep' /\ last' = [last EXCEPT !.age = Older(last.age)]
  BY DEF Orderly
<1>1. /\ history' = Forget(Aged)
      /\ last' = [last EXCEPT !.age = Older(last.age)]
  BY DEF Tick, Aged
<1>2. CASE last = NoPrice
  BY <1>1, <1>2, LastAged DEF TypeOK, InStep
<1>3. CASE last # NoPrice
  <2>1. history # <<>> /\ LastStoredAge <= last.age
    BY <1>3, LastStoredIs DEF InStep
  <2>2. /\ Aged \in Seq(Entry) /\ Aged # <<>>
        /\ Aged[Len(Aged)].age = Older(history[Len(history)].age)
    BY <2>1, AgedIs DEF TypeOK
  <2>3. history' # <<>> /\ history'[Len(history')] = Aged[Len(Aged)]
    BY <1>1, <2>2, ForgetIs
  <2>4. LastStoredAge' = Older(LastStoredAge)
    BY <2>1, <2>2, <2>3 DEF LastStoredAge
  <2>5. last.age \in Ages /\ LastStoredAge \in Ages
    BY <2>1, LastAged, LastStoredIs DEF TypeOK
  <2>6. Older(LastStoredAge) <= Older(last.age)
    BY <2>1, <2>5, OlderIs
  <2>7. last'.age = Older(last.age)
    BY <1>1, LastAged DEF TypeOK
  <2>. QED  BY <1>1, <2>4, <2>6, <2>7 DEF InStep
<1>. QED  BY <1>2, <1>3

\* Prices are accepted in the order of their stamps, for all prices, settings
\* and delays: a late report never replaces a newer price
\* (TWAPOracleMiddleware.sol:259 and 311).
THEOREM NeverOutOfOrder == Spec => AcceptedInOrder
<1>1. TypeOK /\ [Next]_vars => [Orderly]_vars
  <2>. SUFFICES ASSUME TypeOK, [Next]_vars, ~ UNCHANGED vars PROVE Orderly
    OBVIOUS
  <2>1. ASSUME NEW age \in Stamps, VerifyReport(age) PROVE Orderly
    BY <2>1, DeliveryOrderly
  <2>2. ASSUME Tick PROVE Orderly
    BY <2>2, TickOrderly
  <2>3. ASSUME NEW price \in Prices, Sign(price) PROVE Orderly
    <3>1. last.age \in Int
      BY LastAged, Numbers DEF TypeOK, Ages
    <3>. QED  BY <2>3, <3>1 DEF Sign, Orderly, InStep, LastStoredAge
  <2>4. ASSUME NEW set \in Settings, NEW index \in 1..Len(history) + 1,
               SetParameters(set, index)
        PROVE  Orderly
    <3>1. changes' = changes + 1 /\ changes \in Int
      BY <2>4, Numbers DEF SetParameters, TypeOK
    <3>. QED  BY <3>1 DEF Orderly
  <2>. QED  BY <2>1, <2>2, <2>3, <2>4 DEF Next, Deliver
<1>. QED  BY <1>1, TypeCorrect, PTL DEF Spec, AcceptedInOrder, Orderly

-----------------------------------------------------------------------------
(* The recursions of the average, as tables.                               *)

\* Where an entry stops counting: at the next one, or at the reference.
Floor(h, i, age) == IF i < Len(h) /\ h[i + 1].age > age THEN h[i + 1].age ELSE age

\* The sums of the loop with entry i, from those with the entries before it.
Entered(h, i, age, lookback, prior) ==
    IF h[i].age <= age THEN prior
    ELSE IF h[i].age > age + lookback
         THEN [weighted |-> h[i].price * (Weight(h, i, age) - (h[i].age - (age + lookback))),
               time     |-> Weight(h, i, age) - (h[i].age - (age + lookback))]
    ELSE [weighted |-> prior.weighted + h[i].price * Weight(h, i, age),
          time     |-> prior.time + Weight(h, i, age)]

Nothing == [weighted |-> 0, time |-> 0]

\* g holds the sums of the loop with the entries up to each.
Loop(g, h, age, lookback, n) ==
    g = [i \in 0..n |-> IF i = 0 THEN Nothing ELSE Entered(h, i, age, lookback, g[i - 1])]

\* g holds the sums of d from a first number on.
Running(g, d, first, final) ==
    g = [a \in first..final |-> IF a = first THEN 0 ELSE g[a - 1] + d[a]]

\* Both recursions have a solution.
LEMMA LoopExists ==
    ASSUME NEW h, NEW age, NEW lookback, NEW n \in Nat
    PROVE  \E g : Loop(g, h, age, lookback, n)
<1>. DEFINE T == {m \in Nat : ~ \E g : Loop(g, h, age, lookback, m)}
<1>. SUFFICES ASSUME T # {}
              PROVE  FALSE
  OBVIOUS
<1>1. PICK m \in T : \A l \in T : m <= l
  <2>1. T \in SUBSET Nat
    OBVIOUS
  <2>. HIDE DEF T
  <2>. QED  BY <2>1, LeastNumber
<1>2. m \in Nat /\ ~ \E g : Loop(g, h, age, lookback, m)
  OBVIOUS
<1>3. m # 0
  <2>. SUFFICES ASSUME m = 0 PROVE FALSE
    OBVIOUS
  <2>. DEFINE g == [i \in 0..m |-> Nothing]
  <2>1. \A i \in 0..m : i = 0
    OBVIOUS
  <2>2. Loop(g, h, age, lookback, m)
    BY <2>1, Zenon DEF Loop
  <2>. HIDE DEF g
  <2>. QED  BY <1>2, <2>2
<1>4. m - 1 \in Nat /\ m - 1 \notin T
  BY <1>1, <1>2, <1>3
<1>5. PICK f : Loop(f, h, age, lookback, m - 1)
  BY <1>4
<1>. DEFINE g == [i \in 0..m |-> IF i = m THEN Entered(h, m, age, lookback, f[m - 1]) ELSE f[i]]
<1>6. \A i \in 0..m : i = m \/ i \in 0..(m - 1)
  BY <1>2
<1>7. \A i \in 0..(m - 1) : i \in 0..m /\ i # m
  BY <1>2
<1>8. \A i \in 0..(m - 1) : g[i] = f[i]
  BY <1>7, Zenon
<1>9. \A i \in 0..(m - 1) : f[i] = IF i = 0 THEN Nothing ELSE Entered(h, i, age, lookback, f[i - 1])
  BY <1>5, Zenon DEF Loop
<1>10. \A i \in 0..m : g[i] = IF i = 0 THEN Nothing ELSE Entered(h, i, age, lookback, g[i - 1])
  <2>. SUFFICES ASSUME NEW i \in 0..m
                PROVE  g[i] = IF i = 0 THEN Nothing ELSE Entered(h, i, age, lookback, g[i - 1])
    BY Zenon
  <2>1. CASE i = m
    <3>1. m - 1 \in 0..(m - 1) /\ i # 0 /\ m \in 0..m
      BY <1>2, <1>3, <2>1
    <3>2. g[i] = Entered(h, i, age, lookback, f[i - 1])
      BY <2>1, <3>1, Zenon
    <3>3. g[i - 1] = f[i - 1]
      BY <1>8, <2>1, <3>1, Zenon
    <3>. HIDE DEF g
    <3>. QED  BY <3>1, <3>2, <3>3, Zenon
  <2>2. CASE i # m /\ i # 0
    <3>1. i \in 0..(m - 1) /\ i - 1 \in 0..(m - 1)
      BY <1>2, <2>2
    <3>. HIDE DEF g
    <3>. QED  BY <1>8, <1>9, <2>2, <3>1, Zenon
  <2>3. CASE i # m /\ i = 0
    <3>1. i \in 0..(m - 1)
      BY <1>2, <2>3
    <3>. HIDE DEF g
    <3>. QED  BY <1>8, <1>9, <2>3, <3>1, Zenon
  <2>. QED  BY <2>1, <2>2, <2>3, Zenon
<1>11. g = [i \in 0..m |-> g[i]]
  BY Zenon
<1>. HIDE DEF g
<1>12. Loop(g, h, age, lookback, m)
  BY <1>10, <1>11, Zenon DEF Loop
<1>. QED  BY <1>2, <1>12, Zenon

\* And so has the running sum.
LEMMA RunningExists ==
    ASSUME NEW d, NEW first \in Int, NEW n \in Nat
    PROVE  \E g : Running(g, d, first, first + n)
<1>. DEFINE T == {m \in Nat : ~ \E g : Running(g, d, first, first + m)}
<1>. SUFFICES ASSUME T # {}
              PROVE  FALSE
  OBVIOUS
<1>1. PICK m \in T : \A l \in T : m <= l
  <2>1. T \in SUBSET Nat
    OBVIOUS
  <2>. HIDE DEF T
  <2>. QED  BY <2>1, LeastNumber
<1>2. m \in Nat /\ ~ \E g : Running(g, d, first, first + m)
  OBVIOUS
<1>3. m # 0
  <2>. SUFFICES ASSUME m = 0 PROVE FALSE
    OBVIOUS
  <2>. DEFINE g == [a \in first..(first + m) |-> 0]
  <2>1. \A a \in first..(first + m) : a = first
    OBVIOUS
  <2>2. Running(g, d, first, first + m)
    BY <2>1, Zenon DEF Running
  <2>. HIDE DEF g
  <2>. QED  BY <1>2, <2>2
<1>4. m - 1 \in Nat /\ m - 1 \notin T
  BY <1>1, <1>2, <1>3
<1>. DEFINE z == first + m
<1>5. PICK f : Running(f, d, first, z - 1)
  <2>1. \E f : Running(f, d, first, first + (m - 1))
    BY <1>4
  <2>2. first + (m - 1) = z - 1
    BY <1>2
  <2>. QED  BY <2>1, <2>2
<1>6. z \in Int /\ first < z /\ ~ \E g : Running(g, d, first, z)
  BY <1>2, <1>3
<1>. HIDE DEF z
<1>. DEFINE g == [a \in first..z |-> IF a = z THEN f[z - 1] + d[z] ELSE f[a]]
<1>7. \A a \in first..(z - 1) : a \in first..z /\ a # z
  BY <1>6
<1>8. \A a \in first..(z - 1) : g[a] = f[a]
  BY <1>7, Zenon
<1>9. \A a \in first..(z - 1) : f[a] = IF a = first THEN 0 ELSE f[a - 1] + d[a]
  BY <1>5, Zenon DEF Running
<1>10. \A a \in first..z : g[a] = IF a = first THEN 0 ELSE g[a - 1] + d[a]
  <2>. SUFFICES ASSUME NEW a \in first..z
                PROVE  g[a] = IF a = first THEN 0 ELSE g[a - 1] + d[a]
    BY Zenon
  <2>1. CASE a = z
    <3>1. z - 1 \in first..(z - 1) /\ a # first /\ z \in first..z
      BY <1>6, <2>1
    <3>2. g[a] = f[a - 1] + d[a]
      BY <2>1, <3>1, Zenon
    <3>3. g[a - 1] = f[a - 1]
      BY <1>8, <2>1, <3>1, Zenon
    <3>. HIDE DEF g
    <3>. QED  BY <3>1, <3>2, <3>3, Zenon
  <2>2. CASE a # z /\ a # first
    <3>1. a \in first..(z - 1) /\ a - 1 \in first..(z - 1)
      BY <1>6, <2>2
    <3>. HIDE DEF g
    <3>. QED  BY <1>8, <1>9, <2>2, <3>1, Zenon
  <2>3. CASE a # z /\ a = first
    <3>1. a \in first..(z - 1)
      BY <1>6, <2>3
    <3>. HIDE DEF g
    <3>. QED  BY <1>8, <1>9, <2>3, <3>1, Zenon
  <2>. QED  BY <2>1, <2>2, <2>3, Zenon
<1>11. g = [a \in first..z |-> g[a]]
  BY Zenon
<1>. HIDE DEF g
<1>12. Running(g, d, first, z)
  BY <1>10, <1>11, Zenon DEF Running
<1>. QED  BY <1>6, <1>12, Zenon

\* What the loop of _computeTWAP returns is the last row of such a table.
LEMMA SumsAre ==
    ASSUME NEW h, Len(h) \in Nat, NEW age, NEW lookback
    PROVE  \E g : /\ Loop(g, h, age, lookback, Len(h))
                  /\ Sums(h, age, lookback) = g[Len(h)]
<1>. DEFINE n == Len(h)
            G == CHOOSE g : Loop(g, h, age, lookback, n)
<1>1. Sums(h, age, lookback) = G[n]
  BY Zenon DEF Sums, Loop, Entered, Nothing
<1>2. Loop(G, h, age, lookback, n)
  <2>1. \E g : Loop(g, h, age, lookback, n)
    BY LoopExists
  <2>. QED  BY <2>1, Zenon
<1>. HIDE DEF G
<1>. QED  BY <1>1, <1>2

\* What a step of the clock adds to the sum over ages.
Steps(h, ages) == [a \in -Ahead..Horizon |-> IF a \in ages THEN InForce(h, a) ELSE 0]

\* PriceSum is the last row of the running sum of these.
LEMMA PriceSumIs ==
    ASSUME NEW h, NEW ages
    PROVE  \E g : /\ Running(g, Steps(h, ages), -Ahead, Horizon)
                  /\ PriceSum(h, ages) = g[Horizon]
<1>. DEFINE d == Steps(h, ages)
            G == CHOOSE g : Running(g, d, -Ahead, Horizon)
<1>0. -Ahead \in Int /\ Ahead + Horizon \in Nat /\ -Ahead + (Ahead + Horizon) = Horizon
  BY Numbers
<1>1. PriceSum(h, ages) = G[Horizon]
  <2>1. ASSUME NEW g
        PROVE  Running(g, d, -Ahead, Horizon)
                 <=> g = [a \in -Ahead..Horizon |->
                            IF a = -Ahead THEN 0
                            ELSE g[a - 1] + (IF a \in ages THEN InForce(h, a) ELSE 0)]
    <3>. DEFINE Left(a) == IF a = -Ahead THEN 0 ELSE g[a - 1] + d[a]
                Right(a) == IF a = -Ahead THEN 0
                            ELSE g[a - 1] + (IF a \in ages THEN InForce(h, a) ELSE 0)
    <3>1. \A a \in -Ahead..Horizon : Left(a) = Right(a)
      BY Zenon DEF Steps
    <3>2. Running(g, d, -Ahead, Horizon) <=> g = [a \in -Ahead..Horizon |-> Left(a)]
      BY Zenon DEF Running
    <3>3. (g = [a \in -Ahead..Horizon |-> Left(a)])
            <=> (g = [a \in -Ahead..Horizon |-> Right(a)])
      <4>. HIDE DEF Left, Right
      <4>. QED  BY <3>1, Zenon
    <3>. QED  BY <3>2, <3>3, Zenon
  <2>2. G = CHOOSE g : g = [a \in -Ahead..Horizon |->
                            IF a = -Ahead THEN 0
                            ELSE g[a - 1] + (IF a \in ages THEN InForce(h, a) ELSE 0)]
    BY <2>1, Zenon
  <2>. QED  BY <2>2, Zenon DEF PriceSum
<1>2. Running(G, d, -Ahead, Horizon)
  <2>. HIDE DEF d
  <2>1. \E g : Running(g, d, -Ahead, -Ahead + (Ahead + Horizon))
    BY ONLY <1>0, RunningExists
  <2>2. \E g : Running(g, d, -Ahead, Horizon)
    BY <1>0, <2>1
  <2>. QED  BY <2>2, Zenon
<1>. HIDE DEF G
<1>. QED  BY <1>1, <1>2

-----------------------------------------------------------------------------
(* The average.                                                            *)

\* Newer entries are younger.
Sorted(h) == \A i, j \in DOMAIN h : i < j => h[j].age < h[i].age

\* A history as the middleware keeps it.
Kept(h) == h \in Seq(Entry) /\ Sorted(h)

\* An entry of such a history is a price with an age.
LEMMA EntriesAre ==
    ASSUME NEW h, Kept(h)
    PROVE  /\ Len(h) \in Nat /\ DOMAIN h = 1..Len(h)
           /\ \A i \in 1..Len(h) : /\ h[i].price \in Nat /\ h[i].age \in Int
                                   /\ -Ahead <= h[i].age /\ h[i].age <= Horizon
           /\ \A i, j \in 1..Len(h) : i < j => h[j].age < h[i].age
<1>1. Len(h) \in Nat /\ DOMAIN h = 1..Len(h) /\ \A i \in 1..Len(h) : h[i] \in Entry
  BY LenProperties, ElementOfSeq DEF Kept
<1>2. ASSUME NEW i \in 1..Len(h)
      PROVE  /\ h[i].price \in Nat /\ h[i].age \in Int
             /\ -Ahead <= h[i].age /\ h[i].age <= Horizon
  <2>1. h[i].price \in Prices /\ h[i].age \in -Ahead..Horizon
    BY <1>1 DEF Entry, Ages
  <2>2. Ahead \in Nat /\ Horizon \in Nat /\ Prices \subseteq Nat
    BY Numbers
  <2>3. h[i].price \in Nat
    BY <2>1, <2>2, Zenon
  <2>. DEFINE x == h[i].age
  <2>4. x \in -Ahead..Horizon
    BY <2>1
  <2>. HIDE DEF x
  <2>5. x \in Int /\ -Ahead <= x /\ x <= Horizon
    BY ONLY <2>2, <2>4
  <2>. QED  BY <2>3, <2>5 DEF x
<1>. QED  BY <1>1, <1>2 DEF Kept, Sorted

\* An entry is in force from its stamp until the next one's.
LEMMA InForceIs ==
    ASSUME NEW h, Kept(h), NEW a \in Int, NEW i \in 1..Len(h),
           h[i].age >= a, i < Len(h) => h[i + 1].age < a
    PROVE  InForce(h, a) = h[i].price
<1>. DEFINE since == {j \in DOMAIN h : h[j].age >= a}
            k == CHOOSE l \in since : \A j \in since : h[j].age >= h[l].age
<1>1. /\ Len(h) \in Nat /\ DOMAIN h = 1..Len(h)
      /\ \A j \in 1..Len(h) : h[j].age \in Int
      /\ \A j, l \in 1..Len(h) : j < l => h[l].age < h[j].age
  BY EntriesAre
<1>2. i \in since
  BY <1>1
<1>3. \A j \in since : j <= i
  <2>. SUFFICES ASSUME NEW j \in since, ~ (j <= i) PROVE FALSE
    OBVIOUS
  <2>1. j \in 1..Len(h) /\ h[j].age >= a
    BY <1>1
  <2>2. i + 1 \in 1..Len(h) /\ i < Len(h) /\ i + 1 <= j
    BY <1>1, <2>1
  <2>3. h[j].age <= h[i + 1].age
    BY <1>1, <2>1, <2>2
  <2>. QED  BY <1>1, <2>1, <2>2, <2>3
<1>4. \A j \in since : h[j].age >= h[i].age
  <2>. SUFFICES ASSUME NEW j \in since PROVE h[j].age >= h[i].age
    OBVIOUS
  <2>1. j \in 1..Len(h) /\ j <= i
    BY <1>1, <1>3
  <2>. QED  BY <1>1, <2>1
<1>5. k \in since /\ \A j \in since : h[j].age >= h[k].age
  BY <1>2, <1>4
<1>6. k = i
  <2>1. k \in 1..Len(h) /\ k <= i /\ h[i].age >= h[k].age
    BY <1>1, <1>2, <1>3, <1>5
  <2>. HIDE DEF k
  <2>. QED  BY <1>1, <2>1
<1>7. InForce(h, a) = h[k].price
  BY DEF InForce
<1>. QED  BY <1>6, <1>7

\* Every age that some entry covers has an entry in force.
LEMMA SomeInForce ==
    ASSUME NEW h, Kept(h), NEW a \in Int, \E i \in DOMAIN h : h[i].age >= a
    PROVE  \E i \in 1..Len(h) : h[i].age >= a /\ (i < Len(h) => h[i + 1].age < a)
<1>. DEFINE since == {j \in 1..Len(h) : h[j].age >= a}
<1>1. /\ Len(h) \in Nat /\ DOMAIN h = 1..Len(h)
      /\ \A j \in 1..Len(h) : h[j].age \in Int
  BY EntriesAre
<1>2. PICK i \in since : \A j \in since : j <= i
  <2>1. since \in SUBSET (1..Len(h)) /\ since # {}
    BY <1>1
  <2>. HIDE DEF since
  <2>. QED  BY <1>1, <2>1, Greatest
<1>3. i \in 1..Len(h) /\ h[i].age >= a
  BY <1>2
<1>4. i < Len(h) => h[i + 1].age < a
  <2>. SUFFICES ASSUME i < Len(h) PROVE h[i + 1].age < a
    OBVIOUS
  <2>1. i + 1 \in 1..Len(h) /\ ~ (i + 1 <= i)
    BY <1>1, <1>3
  <2>2. i + 1 \notin since
    BY <1>2, <2>1
  <2>. QED  BY <1>1, <2>1, <2>2
<1>. QED  BY <1>3, <1>4

\* A running sum of the same number is a multiple of it.
LEMMA RunOf ==
    ASSUME NEW g, NEW c \in Int, NEW x \in Int, NEW y \in Int, x <= y, g[x] \in Int,
           \A a \in x + 1..y : g[a] = g[a - 1] + c
    PROVE  g[y] = g[x] + c * (y - x)
<1>. DEFINE T == {m \in Nat : m <= y - x /\ g[x + m] # g[x] + c * m}
<1>1. T = {}
  <2>. SUFFICES ASSUME T # {} PROVE FALSE
    OBVIOUS
  <2>1. PICK m \in T : \A l \in T : m <= l
    <3>1. T \in SUBSET Nat
      OBVIOUS
    <3>. HIDE DEF T
    <3>. QED  BY <3>1, LeastNumber
  <2>2. m \in Nat /\ m <= y - x /\ g[x + m] # g[x] + c * m
    BY <2>1
  <2>3. m # 0
    <3>. SUFFICES ASSUME m = 0 PROVE FALSE
      OBVIOUS
    <3>1. x + m = x /\ c * m = 0
      OBVIOUS
    <3>. QED  BY <2>2, <3>1
  <2>4. m - 1 \in Nat /\ m - 1 <= y - x /\ ~ (m <= m - 1)
    BY <2>2, <2>3
  <2>5. g[x + (m - 1)] = g[x] + c * (m - 1)
    BY <2>1, <2>4
  <2>6. x + m \in x + 1..y /\ (x + m) - 1 = x + (m - 1)
    BY <2>2, <2>3
  <2>7. g[x + m] = g[x + (m - 1)] + c
    BY <2>6
  <2>8. c * m = c * (m - 1) + c /\ c * (m - 1) \in Int
    BY <2>2
  <2>. HIDE DEF T
  <2>. QED  BY <2>2, <2>5, <2>7, <2>8
<1>2. y - x \in Nat /\ x + (y - x) = y
  OBVIOUS
<1>3. y - x \notin T
  BY <1>1
<1>. QED  BY <1>2, <1>3

\* How far back the window reaches, over what some entry covers.
Top(h, age, lookback) ==
    IF Len(h) = 0 \/ h[1].age <= age THEN age
    ELSE IF h[1].age <= age + lookback THEN h[1].age ELSE age + lookback

\* An age and a window that no entry outlives.
Window(age, lookback) ==
    /\ age \in Int /\ lookback \in Nat /\ -Ahead <= age /\ age + lookback < Horizon

\* What is covered is all there is up to the top.
LEMMA CoveredIs ==
    ASSUME NEW h, Kept(h), NEW age, NEW lookback, Window(age, lookback)
    PROVE  /\ Top(h, age, lookback) \in Int
           /\ age <= Top(h, age, lookback) /\ Top(h, age, lookback) <= age + lookback
           /\ Covered(h, age, lookback) = age + 1..Top(h, age, lookback)
<1>. DEFINE top == Top(h, age, lookback)
<1>1. /\ Len(h) \in Nat /\ DOMAIN h = 1..Len(h)
      /\ \A j \in 1..Len(h) : h[j].age \in Int
      /\ \A j, l \in 1..Len(h) : j < l => h[l].age < h[j].age
  BY EntriesAre
<1>2. age \in Int /\ lookback \in Nat
  BY DEF Window
<1>3. Len(h) # 0 => h[1].age \in Int /\ \A i \in 1..Len(h) : h[i].age <= h[1].age
  <2>. SUFFICES ASSUME Len(h) # 0, NEW i \in 1..Len(h) PROVE h[1].age \in Int /\ h[i].age <= h[1].age
    BY <1>1
  <2>1. 1 \in 1..Len(h) /\ (i = 1 \/ 1 < i)
    BY <1>1
  <2>. QED  BY <1>1, <2>1
<1>4. top \in Int /\ age <= top /\ top <= age + lookback
  BY <1>2, <1>3 DEF Top
<1>5. ASSUME NEW a \in age + 1..age + lookback
      PROVE  (\E i \in DOMAIN h : h[i].age >= a) <=> a <= top
  <2>1. CASE Len(h) = 0
    BY <1>1, <1>2, <2>1 DEF Top
  <2>2. CASE Len(h) # 0
    <3>1. (\E i \in DOMAIN h : h[i].age >= a) <=> h[1].age >= a
      <4>1. 1 \in DOMAIN h
        BY <1>1, <2>2
      <4>. QED  BY <1>1, <1>2, <1>3, <2>2, <4>1
    <3>2. h[1].age >= a <=> a <= top
      BY <1>2, <1>3, <2>2 DEF Top
    <3>. QED  BY <3>1, <3>2
  <2>. QED  BY <2>1, <2>2
<1>. HIDE DEF top
<1>6. Covered(h, age, lookback) = {a \in age + 1..age + lookback : a <= top}
  BY <1>5 DEF Covered
<1>7. {a \in age + 1..age + lookback : a <= top} = age + 1..top
  BY <1>2, <1>4
<1>. QED  BY <1>4, <1>6, <1>7 DEF top

\* A running sum of whole numbers is one.
LEMMA RunningInt ==
    ASSUME NEW d, NEW first \in Int, NEW final \in Int,
           \A a \in first..final : d[a] \in Int,
           NEW g, Running(g, d, first, final)
    PROVE  /\ \A a \in first..final : g[a] \in Int
           /\ first <= final => g[first] = 0
           /\ \A a \in first + 1..final : g[a] = g[a - 1] + d[a]
<1>1. \A a \in first..final : g[a] = IF a = first THEN 0 ELSE g[a - 1] + d[a]
  BY Zenon DEF Running
<1>2. \A a \in first + 1..final : a \in first..final /\ a # first
  OBVIOUS
<1>3. \A a \in first + 1..final : g[a] = g[a - 1] + d[a]
  BY <1>1, <1>2, Zenon
<1>4. first <= final => g[first] = 0
  <2>1. first <= final => first \in first..final
    OBVIOUS
  <2>. QED  BY <1>1, <2>1, Zenon
<1>. DEFINE T == {m \in Nat : first + m <= final /\ g[first + m] \notin Int}
<1>5. T = {}
  <2>. SUFFICES ASSUME T # {} PROVE FALSE
    OBVIOUS
  <2>1. PICK m \in T : \A l \in T : m <= l
    <3>1. T \in SUBSET Nat
      OBVIOUS
    <3>. HIDE DEF T
    <3>. QED  BY <3>1, LeastNumber
  <2>2. m \in Nat /\ first + m <= final /\ g[first + m] \notin Int
    BY <2>1
  <2>3. m # 0
    <3>. SUFFICES ASSUME m = 0 PROVE FALSE
      OBVIOUS
    <3>1. first + m = first /\ first <= final
      BY <2>2
    <3>. QED  BY <1>4, <2>2, <3>1
  <2>4. m - 1 \in Nat /\ first + (m - 1) <= final /\ ~ (m <= m - 1)
    BY <2>2, <2>3
  <2>5. g[first + (m - 1)] \in Int
    BY <2>1, <2>4
  <2>6. first + m \in first + 1..final /\ (first + m) - 1 = first + (m - 1)
        /\ first + m \in first..final
    BY <2>2, <2>3
  <2>7. g[first + m] = g[first + (m - 1)] + d[first + m]
    BY <1>3, <2>6
  <2>. HIDE DEF T
  <2>. QED  BY <2>2, <2>5, <2>6, <2>7
<1>6. ASSUME NEW a \in first..final
      PROVE  g[a] \in Int
  <2>1. a - first \in Nat /\ first + (a - first) = a /\ a <= final
    OBVIOUS
  <2>2. a - first \notin T
    BY <1>5
  <2>. QED  BY <2>1, <2>2
<1>. QED  BY <1>3, <1>4, <1>6

\* v sums what the steps of the window add.
Priced(v, h, age, lookback) ==
    /\ Kept(h) /\ Window(age, lookback)
    /\ Running(v, Steps(h, Covered(h, age, lookback)), -Ahead, Horizon)

\* Such a sum starts at the reference and ends at the top.
LEMMA PricedIs ==
    ASSUME NEW h, NEW age, NEW lookback, NEW v, Priced(v, h, age, lookback)
    PROVE  /\ \A a \in -Ahead..Horizon : v[a] \in Int
           /\ v[age] = 0 /\ v[Horizon] = v[Top(h, age, lookback)]
           /\ \A a \in age + 1..Top(h, age, lookback) : v[a] = v[a - 1] + InForce(h, a)
<1>. DEFINE top == Top(h, age, lookback)
            covered == Covered(h, age, lookback)
            d == Steps(h, covered)
            low == -Ahead
<1>1. /\ Kept(h) /\ Window(age, lookback) /\ age \in Int /\ lookback \in Nat
      /\ low <= age /\ age + lookback < Horizon /\ low \in Int /\ Horizon \in Int
  BY Numbers DEF Priced, Window
<1>2. /\ top \in Int /\ age <= top /\ top <= age + lookback
      /\ covered = age + 1..top
  BY <1>1, CoveredIs
<1>3. \A a \in low..Horizon : d[a] = IF a \in covered THEN InForce(h, a) ELSE 0
  BY DEF Steps
<1>4. ASSUME NEW a \in covered
      PROVE  InForce(h, a) \in Int
  <2>1. a \in Int /\ \E i \in DOMAIN h : h[i].age >= a
    BY <1>1 DEF Covered, Window
  <2>2. PICK i \in 1..Len(h) : h[i].age >= a /\ (i < Len(h) => h[i + 1].age < a)
    BY <1>1, <2>1, SomeInForce
  <2>3. InForce(h, a) = h[i].price
    BY <1>1, <2>1, <2>2, InForceIs
  <2>4. h[i].price \in Nat
    BY <1>1, EntriesAre
  <2>. QED  BY <2>3, <2>4
<1>5. Running(v, d, low, Horizon)
  BY DEF Priced
<1>. HIDE DEF d, low, covered, top
<1>6. \A a \in low..Horizon : d[a] \in Int
  <2>. SUFFICES ASSUME NEW a \in low..Horizon PROVE d[a] \in Int
    OBVIOUS
  <2>1. CASE a \in covered
    BY <1>3, <1>4, <2>1
  <2>2. CASE a \notin covered
    BY <1>3, <2>2
  <2>. QED  BY <2>1, <2>2
<1>7. /\ \A a \in low..Horizon : v[a] \in Int
      /\ v[low] = 0
      /\ \A a \in low + 1..Horizon : v[a] = v[a - 1] + d[a]
  <2>1. low <= Horizon
    BY <1>1
  <2>. QED  BY <1>1, <1>5, <1>6, <2>1, RunningInt
<1>8. v[age] = 0
  <2>1. ASSUME NEW a \in low + 1..age
        PROVE  v[a] = v[a - 1] + 0
    <3>1. a \in low + 1..Horizon /\ a \in low..Horizon /\ a \notin covered
      BY <1>1, <1>2
    <3>2. d[a] = 0
      BY <1>3, <3>1
    <3>. QED  BY <1>7, <3>1, <3>2
  <2>2. v[low] \in Int /\ 0 \in Int
    BY <1>7
  <2>3. v[age] = v[low] + 0 * (age - low)
    BY ONLY <1>1, <2>1, <2>2, RunOf
  <2>. QED  BY <1>1, <1>7, <2>3
<1>9. v[Horizon] = v[top]
  <2>1. ASSUME NEW a \in top + 1..Horizon
        PROVE  v[a] = v[a - 1] + 0
    <3>1. a \in low + 1..Horizon /\ a \in low..Horizon /\ a \notin covered
      BY <1>1, <1>2
    <3>2. d[a] = 0
      BY <1>3, <3>1
    <3>. QED  BY <1>7, <3>1, <3>2
  <2>2. top \in low..Horizon /\ top <= Horizon
    BY <1>1, <1>2
  <2>3. v[top] \in Int
    BY <1>7, <2>2
  <2>4. v[Horizon] = v[top] + 0 * (Horizon - top)
    BY <1>1, <1>2, <2>1, <2>2, <2>3, RunOf
  <2>. QED  BY <1>1, <1>2, <2>3, <2>4
<1>10. ASSUME NEW a \in age + 1..top
       PROVE  v[a] = v[a - 1] + InForce(h, a)
  <2>1. a \in low + 1..Horizon /\ a \in low..Horizon /\ a \in covered
    BY <1>1, <1>2
  <2>. QED  BY <1>3, <1>7, <2>1
<1>. QED  BY <1>7, <1>8, <1>9, <1>10 DEF low, top

\* Where an entry stops counting is before its own age, and no later than the
\* entry after it.
LEMMA FloorIs ==
    ASSUME NEW h, Kept(h), NEW age \in Int, NEW i \in 0..Len(h)
    PROVE  /\ Floor(h, i, age) \in Int /\ age <= Floor(h, i, age)
           /\ i < Len(h) => h[i + 1].age <= Floor(h, i, age)
           /\ i # 0 /\ h[i].age > age => /\ Floor(h, i, age) < h[i].age
                                         /\ Floor(h, i - 1, age) = h[i].age
           /\ i # 0 /\ h[i].age <= age => Floor(h, i, age) = age /\ Floor(h, i - 1, age) = age
           /\ i = Len(h) => Floor(h, i, age) = age
           /\ i # 0 => Weight(h, i, age) = h[i].age - Floor(h, i, age)
<1>1. /\ Len(h) \in Nat /\ \A j \in 1..Len(h) : h[j].age \in Int
      /\ \A j, l \in 1..Len(h) : j < l => h[l].age < h[j].age
  BY EntriesAre
<1>2. i < Len(h) => i + 1 \in 1..Len(h) /\ h[i + 1].age \in Int
  BY <1>1
<1>3. i # 0 => i \in 1..Len(h) /\ h[i].age \in Int /\ (i - 1) + 1 = i /\ i - 1 < Len(h)
  BY <1>1
<1>4. i # 0 /\ i < Len(h) => h[i + 1].age < h[i].age
  BY <1>1, <1>2, <1>3
<1>. QED  BY <1>1, <1>2, <1>3, <1>4 DEF Floor, Weight

\* While one entry is in force, the sum grows by its price.
LEMMA OneEntry ==
    ASSUME NEW h, NEW age, NEW lookback, NEW v, Priced(v, h, age, lookback),
           NEW i \in 1..Len(h), h[i].age > age,
           NEW y \in Int, Floor(h, i, age) <= y, y <= h[i].age, y <= Top(h, age, lookback)
    PROVE  v[y] = v[Floor(h, i, age)] + h[i].price * (y - Floor(h, i, age))
<1>. DEFINE x == Floor(h, i, age)
            top == Top(h, age, lookback)
            c == h[i].price
<1>1. /\ Kept(h) /\ Window(age, lookback) /\ age \in Int /\ lookback \in Nat
      /\ -Ahead <= age /\ age + lookback < Horizon /\ -Ahead \in Int /\ Horizon \in Int
  BY Numbers DEF Priced, Window
<1>2. /\ Len(h) \in Nat /\ h[i].age \in Int /\ c \in Int /\ i \in 0..Len(h) /\ i # 0
      /\ i < Len(h) => h[i + 1].age \in Int
  BY <1>1, EntriesAre
<1>3. x \in Int /\ age <= x /\ (i < Len(h) => h[i + 1].age <= x)
  BY <1>1, <1>2, FloorIs
<1>4. top \in Int /\ top <= age + lookback
  BY <1>1, CoveredIs
<1>5. v[x] \in Int
  <2>1. x \in -Ahead..Horizon
    BY <1>1, <1>3, <1>4
  <2>. QED  BY <2>1, PricedIs
<1>6. ASSUME NEW a \in x + 1..y
      PROVE  v[a] = v[a - 1] + c
  <2>1. a \in Int /\ a \in age + 1..top /\ h[i].age >= a
    BY <1>1, <1>2, <1>3, <1>4
  <2>2. i < Len(h) => h[i + 1].age < a
    BY <1>2, <1>3
  <2>3. InForce(h, a) = c
    BY <1>1, <2>1, <2>2, InForceIs
  <2>4. v[a] = v[a - 1] + InForce(h, a)
    BY <2>1, PricedIs
  <2>. QED  BY <2>3, <2>4
<1>7. x <= y /\ y \in Int /\ x \in Int /\ c \in Int /\ v[x] \in Int
  BY <1>2, <1>3, <1>5
<1>. HIDE DEF x, top, c
<1>8. v[y] = v[x] + c * (y - x)
  BY ONLY <1>6, <1>7, RunOf
<1>. QED  BY <1>8 DEF x, c

\* What the loop has after entry i, if the entry after it is in the window.
Summed(s, v, h, i, age, lookback) ==
    Floor(h, i, age) <= age + lookback =>
        /\ Floor(h, i, age) <= Top(h, age, lookback)
        /\ s.time = Top(h, age, lookback) - Floor(h, i, age)
        /\ s.weighted = v[Top(h, age, lookback)] - v[Floor(h, i, age)]

\* Before the first entry there is nothing.
LEMMA NothingSummed ==
    ASSUME NEW h, NEW age, NEW lookback, NEW v, Priced(v, h, age, lookback)
    PROVE  Summed(Nothing, v, h, 0, age, lookback)
<1>. DEFINE x == Floor(h, 0, age)
            top == Top(h, age, lookback)
<1>1. /\ Kept(h) /\ Window(age, lookback) /\ age \in Int /\ lookback \in Nat
      /\ -Ahead <= age /\ age + lookback < Horizon /\ -Ahead \in Int /\ Horizon \in Int
  BY Numbers DEF Priced, Window
<1>2. Len(h) \in Nat /\ (Len(h) # 0 => h[1].age \in Int)
  BY <1>1, EntriesAre
<1>3. x <= age + lookback => x = top
  BY <1>1, <1>2 DEF Floor, Top
<1>4. top \in Int /\ age <= top /\ top <= age + lookback
  BY <1>1, CoveredIs
<1>5. v[top] \in Int
  <2>1. top \in -Ahead..Horizon
    BY <1>1, <1>4
  <2>. QED  BY <2>1, PricedIs
<1>. HIDE DEF x, top
<1>6. x <= age + lookback => x <= top /\ 0 = top - x /\ 0 = v[top] - v[x]
  BY <1>3, <1>4, <1>5
<1>. QED  BY <1>6 DEF Summed, Nothing, x, top

\* One more entry.
LEMMA EntrySummed ==
    ASSUME NEW h, NEW age, NEW lookback, NEW v, Priced(v, h, age, lookback),
           NEW i \in 1..Len(h), NEW s, Summed(s, v, h, i - 1, age, lookback)
    PROVE  Summed(Entered(h, i, age, lookback, s), v, h, i, age, lookback)
<1>. DEFINE x == Floor(h, i, age)
            z == Floor(h, i - 1, age)
            top == Top(h, age, lookback)
            start == age + lookback
            c == h[i].price
            a == h[i].age
            t == Entered(h, i, age, lookback, s)
<1>. SUFFICES ASSUME x <= start
              PROVE  /\ x <= top /\ t.time = top - x
                     /\ t.weighted = v[top] - v[x]
  BY DEF Summed
<1>1. /\ Kept(h) /\ Window(age, lookback) /\ age \in Int /\ lookback \in Nat
      /\ -Ahead <= age /\ age + lookback < Horizon /\ -Ahead \in Int /\ Horizon \in Int
  BY Numbers DEF Priced, Window
<1>2. /\ Len(h) \in Nat /\ a \in Int /\ c \in Int /\ i \in 0..Len(h) /\ i # 0
      /\ h[1].age \in Int /\ h[1].age >= a
  <2>1. /\ Len(h) \in Nat /\ a \in Int /\ c \in Nat /\ 1 \in 1..Len(h) /\ h[1].age \in Int
        /\ (i = 1 \/ 1 < i)
    BY <1>1, EntriesAre
  <2>2. h[1].age >= a
    BY <1>1, <2>1, EntriesAre
  <2>. QED  BY <2>1, <2>2
<1>3. /\ x \in Int /\ age <= x /\ Weight(h, i, age) = a - x
      /\ a > age => x < a /\ z = a
      /\ a <= age => x = age /\ z = age
  BY <1>1, <1>2, FloorIs
<1>4. top \in Int /\ age <= top /\ top <= start
  BY <1>1, CoveredIs
<1>5. v[x] \in Int /\ v[top] \in Int
  <2>1. x \in -Ahead..Horizon /\ top \in -Ahead..Horizon
    BY <1>1, <1>3, <1>4
  <2>. QED  BY <2>1, PricedIs
<1>6. z <= start => /\ z <= top /\ s.time = top - z
                    /\ s.weighted = v[top] - v[z]
  BY DEF Summed
<1>7. CASE a <= age
  <2>1. t = s
    BY <1>7 DEF Entered
  <2>2. z = x /\ z <= start
    BY <1>1, <1>3, <1>7
  <2>. QED  BY <1>6, <2>1, <2>2
<1>8. CASE a > age /\ a > start
  <2>1. top = start
    BY <1>1, <1>2, <1>8 DEF Top
  <2>. DEFINE w == (a - x) - (a - start)
  <2>2. t.weighted = c * w /\ t.time = w
    <3>1. ~ (a <= age)
      BY <1>1, <1>2, <1>8
    <3>2. t = [weighted |-> h[i].price * (Weight(h, i, age) - (h[i].age - (age + lookback))),
               time     |-> Weight(h, i, age) - (h[i].age - (age + lookback))]
      BY <1>8, <3>1 DEF Entered
    <3>. QED  BY <1>3, <3>2
  <2>3. w = top - x
    BY <1>1, <1>2, <1>3, <2>1
  <2>4. v[top] = v[x] + c * (top - x)
    <3>1. x <= top /\ top <= a /\ top <= top /\ a > age
      BY <1>1, <1>2, <1>8, <2>1
    <3>. QED  BY <1>4, <3>1, OneEntry
  <2>. DEFINE r == c * (top - x)
  <2>5. r \in Int
    BY <1>2, <1>3, <1>4
  <2>6. t.time = top - x /\ t.weighted = r /\ v[top] = v[x] + r
    BY <2>2, <2>3, <2>4
  <2>. HIDE DEF r, w, t, x, top
  <2>. QED  BY <1>5, <2>1, <2>5, <2>6
<1>9. CASE a > age /\ a <= start
  <2>1. z = a /\ x < a
    BY <1>3, <1>9
  <2>2. a <= top /\ s.time = top - a /\ s.weighted = v[top] - v[a]
    BY <1>6, <1>9, <2>1
  <2>3. t.time = s.time + (a - x) /\ t.weighted = s.weighted + c * (a - x)
    <3>1. ~ (a <= age) /\ ~ (a > start)
      BY <1>1, <1>2, <1>9
    <3>2. t = [weighted |-> s.weighted + h[i].price * Weight(h, i, age),
               time     |-> s.time + Weight(h, i, age)]
      BY <3>1 DEF Entered
    <3>. QED  BY <1>3, <3>2
  <2>4. v[a] = v[x] + c * (a - x)
    <3>1. x <= a /\ a <= a /\ a <= top /\ a > age /\ a \in Int
      BY <1>2, <1>3, <1>9, <2>1, <2>2
    <3>. QED  BY <3>1, OneEntry
  <2>5. v[a] \in Int
    <3>1. a \in -Ahead..Horizon
      BY <1>1, <1>2, <1>9
    <3>. QED  BY <3>1, PricedIs
  <2>. DEFINE r == c * (a - x)
  <2>6. r \in Int
    BY <1>2, <1>3
  <2>7. t.weighted = s.weighted + r /\ v[a] = v[x] + r
    BY <2>3, <2>4
  <2>8. x <= top
    BY <1>2, <1>3, <1>4, <2>1, <2>2
  <2>. HIDE DEF r, t, x, top, z, a, c, start
  <2>9. t.time = top - x
    BY <1>2, <1>3, <1>4, <2>2, <2>3
  <2>10. t.weighted = v[top] - v[x]
    BY <1>5, <2>2, <2>5, <2>6, <2>7
  <2>. QED  BY <2>8, <2>9, <2>10
<1>. QED  BY <1>1, <1>2, <1>7, <1>8, <1>9

\* All entries, one by one.
LEMMA LoopSummed ==
    ASSUME NEW h, NEW age, NEW lookback, NEW v, Priced(v, h, age, lookback),
           NEW g, Loop(g, h, age, lookback, Len(h))
    PROVE  Summed(g[Len(h)], v, h, Len(h), age, lookback)
<1>. DEFINE n == Len(h)
            Good(i) == Summed(g[i], v, h, i, age, lookback)
            T == {i \in 0..n : ~ Good(i)}
<1>1. n \in Nat
  BY EntriesAre DEF Priced
<1>2. \A i \in 0..n : g[i] = IF i = 0 THEN Nothing ELSE Entered(h, i, age, lookback, g[i - 1])
  BY Zenon DEF Loop
<1>3. Good(0)
  <2>1. 0 \in 0..n
    BY <1>1
  <2>2. g[0] = Nothing
    BY <1>2, <2>1, Zenon
  <2>. QED  BY <2>2, NothingSummed
<1>4. ASSUME NEW i \in 1..n, Good(i - 1)
      PROVE  Good(i)
  <2>1. i \in 0..n /\ i # 0
    BY <1>1
  <2>2. g[i] = Entered(h, i, age, lookback, g[i - 1])
    BY <1>2, <2>1, Zenon
  <2>3. Summed(g[i - 1], v, h, i - 1, age, lookback)
    BY <1>4
  <2>4. Summed(Entered(h, i, age, lookback, g[i - 1]), v, h, i, age, lookback)
    BY <2>3, EntrySummed
  <2>. QED  BY <2>2, <2>4, Zenon
<1>5. T = {}
  <2>. SUFFICES ASSUME T # {} PROVE FALSE
    OBVIOUS
  <2>1. T \in SUBSET Nat
    BY <1>1
  <2>2. PICK i \in T : \A j \in T : i <= j
    <3>. HIDE DEF T
    <3>. QED  BY <2>1, LeastNumber
  <2>3. i \in 0..n /\ ~ Good(i)
    BY <2>2
  <2>. HIDE DEF Good, n
  <2>4. i # 0
    BY <1>3, <2>3
  <2>5. i - 1 \in 0..n /\ ~ (i <= i - 1) /\ i \in 1..n
    BY <1>1, <2>3, <2>4
  <2>6. Good(i - 1)
    BY <2>2, <2>5
  <2>7. Good(i)
    BY <1>4, <2>5, <2>6
  <2>. QED  BY <2>3, <2>7
<1>6. n \in 0..n
  BY <1>1
<1>7. Good(n)
  <2>. HIDE DEF n, Good
  <2>. QED  BY <1>5, <1>6
<1>. QED  BY <1>7

\* The average that _computeTWAP returns.
LEMMA TWAPIs ==
    ASSUME NEW h, NEW age, NEW lookback, NEW v, Priced(v, h, age, lookback)
    PROVE  TWAP(h, age, lookback) =
             IF Top(h, age, lookback) = age THEN 0
             ELSE v[Horizon] \div (Top(h, age, lookback) - age)
<1>. DEFINE top == Top(h, age, lookback)
            s == Sums(h, age, lookback)
<1>1. /\ Kept(h) /\ Window(age, lookback) /\ age \in Int /\ lookback \in Nat
  BY DEF Priced, Window
<1>2. Len(h) \in Nat /\ Len(h) \in 0..Len(h)
  <2>1. Len(h) \in Nat
    BY <1>1, EntriesAre
  <2>. QED  BY <2>1
<1>3. PICK g : Loop(g, h, age, lookback, Len(h)) /\ s = g[Len(h)]
  BY <1>2, SumsAre
<1>4. Summed(s, v, h, Len(h), age, lookback)
  BY <1>3, LoopSummed
<1>5. Floor(h, Len(h), age) = age /\ age <= age + lookback
  BY <1>1, <1>2, FloorIs
<1>6. s.time = top - age /\ s.weighted = v[top] - v[age]
  BY <1>4, <1>5 DEF Summed
<1>7. top \in Int
  BY <1>1, CoveredIs
<1>8. v[top] = v[Horizon] /\ v[age] = 0 /\ v[top] \in Int
  <2>1. Horizon \in -Ahead..Horizon
    BY Numbers
  <2>. QED  BY <2>1, PricedIs
<1>9. TWAP(h, age, lookback) = IF s.time = 0 THEN 0 ELSE s.weighted \div s.time
  BY DEF TWAP
<1>. HIDE DEF s, top
<1>10. (s.time = 0 <=> top = age) /\ s.weighted = v[Horizon]
  BY <1>1, <1>6, <1>7, <1>8
<1>. QED  BY <1>6, <1>9, <1>10 DEF top

\* It is the mean of the prices in force over what is covered.
LEMMA TWAPIsMean ==
    ASSUME NEW h, Kept(h), NEW age, NEW lookback, Window(age, lookback)
    PROVE  LET covered == Covered(h, age, lookback)
           IN  TWAP(h, age, lookback) =
                 IF covered = {} THEN 0 ELSE PriceSum(h, covered) \div Cardinality(covered)
<1>. DEFINE covered == Covered(h, age, lookback)
            top == Top(h, age, lookback)
<1>1. PICK v : Running(v, Steps(h, covered), -Ahead, Horizon) /\ PriceSum(h, covered) = v[Horizon]
  BY PriceSumIs
<1>2. Priced(v, h, age, lookback)
  BY <1>1 DEF Priced
<1>3. TWAP(h, age, lookback) = IF top = age THEN 0 ELSE v[Horizon] \div (top - age)
  BY <1>2, TWAPIs
<1>4. top \in Int /\ age \in Int /\ age <= top /\ covered = age + 1..top
  BY CoveredIs DEF Window
<1>. HIDE DEF covered, top
<1>5. Cardinality(covered) = top - age
  <2>1. Cardinality(age + 1..top) = IF age + 1 > top THEN 0 ELSE top - (age + 1) + 1
    BY <1>4, FS_Interval
  <2>. QED  BY <1>4, <2>1
<1>6. covered = {} <=> top = age
  <2>1. top = age => covered = {}
    BY <1>4
  <2>2. top # age => age + 1 \in covered
    BY <1>4
  <2>. QED  BY <2>1, <2>2
<1>7. TWAP(h, age, lookback) = IF covered = {} THEN 0
                               ELSE PriceSum(h, covered) \div Cardinality(covered)
  BY <1>1, <1>3, <1>5, <1>6
<1>. QED  BY <1>7 DEF covered

-----------------------------------------------------------------------------
(* The history stays sorted.                                               *)

\* What a tick makes of a history h: what is left of it starts with entry k,
\* and only this one may be at the horizon.
Ticked(h, k, n) ==
    /\ n \in Seq(Entry) /\ k \in 1..Len(h) /\ Len(n) = Len(h) - k + 1
    /\ \A j \in 1..Len(n) : /\ n[j].price = h[k + j - 1].price
                            /\ n[j].age = Older(h[k + j - 1].age)
    /\ \A j \in 2..Len(n) : n[j].age # Horizon
    /\ k # 1 => n[1].age = Horizon

\* Whatever is cut, the rest is the history, older by one.
LEMMA TickedIs ==
    ASSUME TypeOK, Tick
    PROVE  \/ history = <<>> /\ history' = <<>>
           \/ \E k \in 1..Len(history) : Ticked(history, k, history')
<1>. DEFINE h == Aged
            n == Len(history)
            old == {i \in DOMAIN h : h[i].age = Horizon}
            k == CHOOSE i \in old : \A j \in old : j <= i
<1>1. history' = Forget(h) /\ history \in Seq(Entry)
  BY DEF Tick, Aged, TypeOK
<1>2. n \in Nat /\ DOMAIN history = 1..n /\ \A i \in 1..n : history[i] \in Entry
  BY <1>1, LenProperties, ElementOfSeq
<1>3. h \in Seq(Entry) /\ DOMAIN h = 1..n
  BY <1>1, <1>2, AgedIs DEF Aged
<1>4. ASSUME NEW i \in 1..n
      PROVE  h[i].price = history[i].price /\ h[i].age = Older(history[i].age)
  <2>1. h[i] = [history[i] EXCEPT !.age = Older(history[i].age)]
    BY <1>2 DEF Aged
  <2>2. history[i] \in Entry
    BY <1>2
  <2>. QED  BY <2>1, <2>2 DEF Entry
<1>5. Len(h) = n
  BY <1>2, <1>3, LenProperties
<1>. HIDE DEF h
<1>6. CASE n = 0
  BY <1>1, <1>3, <1>5, <1>6, EmptySeq, ForgetIs
<1>7. CASE n # 0 /\ old = {}
  <2>1. history' = h
    BY <1>1, <1>7 DEF Forget
  <2>2. 1 \in 1..n /\ n - 1 + 1 = n /\ \A j \in 1..n : 1 + j - 1 = j
    BY <1>2, <1>7
  <2>3. \A j \in 2..n : j \in DOMAIN h
    BY <1>2, <1>3
  <2>4. \A j \in 2..n : h[j].age # Horizon
    BY <1>7, <2>3
  <2>5. Ticked(history, 1, h)
    BY <1>3, <1>4, <1>5, <2>2, <2>4 DEF Ticked
  <2>. QED  BY <2>1, <2>2, <2>5
<1>8. CASE n # 0 /\ old # {}
  <2>1. history' = SubSeq(h, k, n)
    BY <1>1, <1>5, <1>8 DEF Forget
  <2>2. \E i \in old : \A j \in old : j <= i
    <3>1. old \in SUBSET (1..n)
      BY <1>3
    <3>. HIDE DEF old
    <3>. QED  BY <1>2, <1>8, <3>1, Greatest
  <2>3. k \in old /\ \A j \in old : j <= k
    BY <2>2
  <2>4. k \in 1..n /\ h[k].age = Horizon
    BY <1>3, <2>3
  <2>5. ASSUME NEW j \in 1..n, j > k
        PROVE  h[j].age # Horizon
    BY <1>3, <2>3, <2>4, <2>5
  <2>. HIDE DEF k, old
  <2>6. /\ SubSeq(h, k, n) \in Seq(Entry)
        /\ Len(SubSeq(h, k, n)) = n - k + 1
        /\ \A i \in 1 .. n - k + 1 : SubSeq(h, k, n)[i] = h[k + i - 1]
    <3>1. \A i \in k..n : h[i] \in Entry
      <4>1. \A i \in k..n : i \in DOMAIN h
        BY <1>2, <1>3, <2>4
      <4>. QED  BY <1>3, <4>1, ElementOfSeq, <1>5
    <3>2. k \in Int /\ n \in Int /\ k <= n
      BY <1>2, <2>4
    <3>. HIDE DEF n
    <3>. QED  BY <3>1, <3>2, SubSeqProperties
  <2>. DEFINE m == SubSeq(h, k, n)
  <2>. HIDE DEF m, n
  <2>7. \A j \in 1..(n - k + 1) : k + j - 1 \in 1..n /\ (j >= 2 => k + j - 1 > k)
    BY <1>2, <2>4
  <2>8. \A j \in 1..(n - k + 1) : /\ m[j].price = history[k + j - 1].price
                                  /\ m[j].age = Older(history[k + j - 1].age)
    BY <1>4, <2>6, <2>7 DEF m
  <2>9. \A j \in 2..(n - k + 1) : m[j].age # Horizon
    <3>. SUFFICES ASSUME NEW j \in 2..(n - k + 1) PROVE m[j].age # Horizon
      OBVIOUS
    <3>1. j \in 1..(n - k + 1) /\ j >= 2
      BY <1>2, <2>4
    <3>. QED  BY <2>5, <2>6, <2>7, <3>1 DEF m
  <2>10. m[1].age = Horizon
    <3>1. 1 \in 1..(n - k + 1) /\ k + 1 - 1 = k
      BY <1>2, <2>4
    <3>. QED  BY <2>4, <2>6, <3>1 DEF m
  <2>11. Ticked(history, k, m)
    BY <2>4, <2>6, <2>8, <2>9, <2>10 DEF Ticked, n, m
  <2>. QED  BY <2>1, <2>4, <2>11 DEF m, n
<1>. QED  BY <1>6, <1>7, <1>8

\* Age by age: what is left after a tick, for the entries that are left.
LEMMA TickedAges ==
    ASSUME NEW h, Kept(h), NEW k, NEW n, Ticked(h, k, n)
    PROVE  /\ Len(h) \in Nat /\ k \in 1..Len(h) /\ Len(n) = Len(h) - k + 1
           /\ \A j \in 1..Len(n) : /\ n[j].price = h[k + j - 1].price
                                   /\ n[j].age = Horizon \/ n[j].age = h[k + j - 1].age + 1
                                   /\ n[j].age = Horizon => h[k + j - 1].age >= Horizon - 1
           /\ \A j \in 2..Len(n) : /\ n[j].age = h[k + j - 1].age + 1
                                   /\ h[k + j - 1].age + 1 < Horizon
<1>1. /\ Len(h) \in Nat /\ Horizon \in Nat
      /\ \A i \in 1..Len(h) : h[i].age \in Int /\ h[i].age <= Horizon
  BY EntriesAre, Numbers
<1>2. /\ k \in 1..Len(h) /\ Len(n) = Len(h) - k + 1
      /\ \A j \in 1..Len(n) : /\ n[j].price = h[k + j - 1].price
                              /\ n[j].age = Older(h[k + j - 1].age)
      /\ \A j \in 2..Len(n) : n[j].age # Horizon
  BY DEF Ticked
<1>3. ASSUME NEW j \in 1..Len(n)
      PROVE  /\ h[k + j - 1].age \in Int
             /\ n[j].age = Horizon \/ n[j].age = h[k + j - 1].age + 1
             /\ n[j].age = Horizon => h[k + j - 1].age >= Horizon - 1
             /\ n[j].age # Horizon => h[k + j - 1].age + 1 < Horizon
  <2>1. k + j - 1 \in 1..Len(h)
    BY <1>1, <1>2
  <2>. DEFINE a == h[k + j - 1].age
  <2>2. a \in Int /\ a <= Horizon /\ n[j].age = IF a >= Horizon THEN Horizon ELSE a + 1
    BY <1>1, <1>2, <2>1 DEF Older
  <2>. HIDE DEF a
  <2>3. /\ n[j].age = Horizon \/ n[j].age = a + 1
        /\ n[j].age = Horizon => a >= Horizon - 1
        /\ n[j].age # Horizon => a + 1 < Horizon
    BY <1>1, <2>2
  <2>. QED  BY <2>2, <2>3 DEF a
<1>4. \A j \in 2..Len(n) : j \in 1..Len(n)
  BY <1>1, <1>2
<1>. QED  BY <1>1, <1>2, <1>3, <1>4

\* It is sorted as before.
LEMMA TickedSorted ==
    ASSUME NEW h, Kept(h), NEW k, NEW n, Ticked(h, k, n)
    PROVE  Kept(n)
<1>1. /\ Len(h) \in Nat /\ k \in 1..Len(h) /\ Len(n) = Len(h) - k + 1
      /\ \A j \in 1..Len(n) : n[j].age = Horizon \/ n[j].age = h[k + j - 1].age + 1
      /\ \A j \in 2..Len(n) : /\ n[j].age = h[k + j - 1].age + 1
                              /\ h[k + j - 1].age + 1 < Horizon
  BY TickedAges
<1>2. n \in Seq(Entry) /\ DOMAIN n = 1..Len(n)
  BY LenProperties DEF Ticked
<1>3. ASSUME NEW i \in 1..Len(n), NEW j \in 1..Len(n), i < j
      PROVE  n[j].age < n[i].age
  <2>1. k + i - 1 \in 1..Len(h) /\ k + j - 1 \in 1..Len(h) /\ k + i - 1 < k + j - 1
        /\ j \in 2..Len(n)
    BY <1>1, <1>3
  <2>2. /\ h[k + i - 1].age \in Int /\ h[k + j - 1].age \in Int
        /\ h[k + j - 1].age < h[k + i - 1].age
    BY <2>1, EntriesAre
  <2>3. /\ n[j].age = h[k + j - 1].age + 1 /\ h[k + j - 1].age + 1 < Horizon
        /\ n[i].age = Horizon \/ n[i].age = h[k + i - 1].age + 1
    BY <1>1, <2>1
  <2>. QED  BY <2>2, <2>3
<1>. QED  BY <1>2, <1>3 DEF Kept, Sorted

\* So is a history with a newer report.
LEMMA ReportSorted ==
    ASSUME NEW h, Kept(h), NEW e \in Entry, h # <<>> => e.age < h[Len(h)].age
    PROVE  Kept(Append(h, e))
<1>. DEFINE n == Append(h, e)
            l == Len(h)
<1>1. /\ l \in Nat /\ h \in Seq(Entry)
      /\ \A i \in 1..l : h[i].age \in Int
      /\ \A i, j \in 1..l : i < j => h[j].age < h[i].age
  BY EntriesAre DEF Kept
<1>2. /\ n \in Seq(Entry) /\ Len(n) = l + 1 /\ \A i \in 1..l : n[i] = h[i]
      /\ n[l + 1] = e
  BY <1>1, AppendProperties
<1>3. DOMAIN n = 1..l + 1
  BY <1>2, LenProperties
<1>4. e.age \in Int
  BY Numbers DEF Entry, Ages
<1>. HIDE DEF n
<1>5. ASSUME NEW i \in 1..l + 1, NEW j \in 1..l + 1, i < j
      PROVE  n[j].age < n[i].age
  <2>1. i \in 1..l /\ (j \in 1..l \/ j = l + 1)
    BY <1>1, <1>5
  <2>2. CASE j \in 1..l
    BY <1>1, <1>2, <1>5, <2>1, <2>2
  <2>3. CASE j = l + 1
    <3>1. l # 0 /\ l \in 1..l /\ (i = l \/ i < l)
      BY <1>1, <2>1
    <3>2. h # <<>>
      BY <3>1, EmptySeq
    <3>3. e.age < h[l].age /\ h[l].age <= h[i].age
      BY <1>1, <2>1, <3>1, <3>2
    <3>. QED  BY <1>1, <1>2, <1>4, <2>1, <2>3, <3>1, <3>3
  <2>. QED  BY <2>1, <2>2, <2>3
<1>. QED  BY <1>2, <1>3, <1>5 DEF Kept, Sorted, n

\* And one that the owner cuts short.
LEMMA CutSorted ==
    ASSUME NEW h, Kept(h), NEW m \in 0..Len(h)
    PROVE  Kept(SubSeq(h, 1, m))
<1>1. /\ Len(h) \in Nat /\ \A i \in 1..Len(h) : h[i] \in Entry
      /\ \A i, j \in 1..Len(h) : i < j => h[j].age < h[i].age
  BY EntriesAre, ElementOfSeq DEF Kept
<1>2. m \in Int /\ \A i \in 1..m : i \in 1..Len(h) /\ h[i] \in Entry
  BY <1>1
<1>. DEFINE n == SubSeq(h, 1, m)
<1>3. /\ n \in Seq(Entry) /\ Len(n) = IF 1 <= m THEN m - 1 + 1 ELSE 0
      /\ \A i \in 1 .. m - 1 + 1 : n[i] = h[1 + i - 1]
  BY <1>2, SubSeqProperties
<1>4. /\ Len(n) = m /\ DOMAIN n = 1..m
      /\ \A i \in 1..m : n[i] = h[i]
  <2>1. m - 1 + 1 = m /\ \A i \in 1..m : 1 + i - 1 = i
    BY <1>2
  <2>. HIDE DEF n
  <2>2. Len(n) = m
    BY <1>1, <1>3
  <2>. QED  BY <1>3, <2>1, <2>2, LenProperties
<1>. HIDE DEF n
<1>. QED  BY <1>1, <1>2, <1>3, <1>4 DEF Kept, Sorted, n

\* What is stored is sorted, besides having its type.
Stored == TypeOK /\ Sorted(history)

\* Every step leaves it so.
LEMMA StepsSorted == Stored /\ [Next]_vars => Stored'
<1>. SUFFICES ASSUME Stored, [Next]_vars PROVE Stored'
  OBVIOUS
<1>1. TypeOK' /\ TypeOK /\ Kept(history)
  BY NextTyped DEF Stored, Kept, TypeOK
<1>. SUFFICES Sorted(history')
  BY <1>1 DEF Stored, Sorted
<1>2. CASE Tick
  <2>1. CASE history' = <<>>
    BY <2>1, EmptySeq DEF Sorted
  <2>2. ASSUME NEW k \in 1..Len(history), Ticked(history, k, history')
        PROVE  Kept(history')
    BY <1>1, <2>2, TickedSorted
  <2>. QED  BY <1>1, <1>2, <2>1, <2>2, TickedIs DEF Kept
<1>3. ASSUME NEW age \in Stamps, VerifyReport(age)
      PROVE  Kept(history')
  <2>. DEFINE e == [price |-> feed[age], age |-> age]
  <2>1. e \in Entry
    BY <1>1, ReportIs
  <2>2. history' = Append(history, e) /\ age < LastStoredAge
    BY <1>3 DEF VerifyReport, Newer
  <2>3. history # <<>> => e.age < history[Len(history)].age
    BY <2>2 DEF LastStoredAge
  <2>. HIDE DEF e
  <2>. QED  BY <1>1, <2>1, <2>2, <2>3, ReportSorted
<1>4. ASSUME NEW price \in Prices, Sign(price)
      PROVE  Kept(history')
  BY <1>1, <1>4 DEF Sign
<1>5. ASSUME NEW set \in Settings, NEW index \in 1..Len(history) + 1,
             SetParameters(set, index)
      PROVE  Kept(history')
  <2>1. history' = SubSeq(history, 1, index - 1)
    BY <1>5 DEF SetParameters
  <2>2. index - 1 \in 0..Len(history)
    BY <1>1, EntriesAre
  <2>. QED  BY <1>1, <2>1, <2>2, CutSorted
<1>6. CASE UNCHANGED vars
  BY <1>1, <1>6 DEF vars, Kept
<1>. QED  BY <1>2, <1>3, <1>4, <1>5, <1>6 DEF Next, Deliver, Kept

\* It is stored so at every step.
LEMMA StoredSorted == Spec => []Stored
<1>1. Init => Stored
  <2>1. DOMAIN <<>> = {}
    BY EmptySeq
  <2>. QED  BY <2>1, InitTyped DEF Init, Stored, Sorted
<1>. QED  BY <1>1, StepsSorted, PTL DEF Spec

\* Whatever comes in and however the owner moves the index, _computeTWAP
\* returns the time-weighted average of the window
\* (TWAPOracleMiddleware.sol:196-238).
THEOREM AverageIsRight == Spec => []TwapIsAverage
<1>1. Stored => TwapIsAverage
  <2>. SUFFICES ASSUME Stored, NEW age \in Stamps
                PROVE  LET covered == Covered(history, age, settings.lookback)
                       IN  TWAP(history, age, settings.lookback) =
                             IF covered = {} THEN 0
                             ELSE PriceSum(history, covered) \div Cardinality(covered)
    BY DEF TwapIsAverage
  <2>1. Kept(history)
    BY DEF Stored, TypeOK, Kept
  <2>2. settings \in Settings /\ settings \in Setting
    BY SettingsFit DEF Stored, TypeOK
  <2>3. settings.lookback \in Nat /\ Late + settings.lookback < Horizon
    BY <2>2, SettingsFit DEF Setting
  <2>4. age \in Int /\ -Ahead <= age /\ age <= Late
    BY Numbers DEF Stamps
  <2>5. Window(age, settings.lookback)
    BY <2>3, <2>4, Numbers DEF Window
  <2>. QED  BY <2>1, <2>5, TWAPIsMean
<1>. QED  BY <1>1, StoredSorted, PTL

-----------------------------------------------------------------------------
(* What keeps the average.                                                 *)

\* Two histories that cover the same number of steps with the same prices in
\* force, one moved by some time against the other, have the same average.
LEMMA SameAverage ==
    ASSUME NEW h, Kept(h), NEW n, Kept(n), NEW x, NEW lookback, NEW s \in Int,
           Window(x, lookback), Window(x + s, lookback),
           Top(n, x + s, lookback) = Top(h, x, lookback) + s,
           \A a \in x + 1..Top(h, x, lookback) : InForce(n, a + s) = InForce(h, a)
    PROVE  TWAP(n, x + s, lookback) = TWAP(h, x, lookback)
<1>. DEFINE top == Top(h, x, lookback)
            y == x + s
            low == -Ahead
<1>1. /\ x \in Int /\ lookback \in Nat /\ low \in Int /\ Horizon \in Int
      /\ low <= x /\ x + lookback < Horizon
      /\ low <= y /\ y + lookback < Horizon
  BY Numbers DEF Window
<1>2. top \in Int /\ x <= top /\ top <= x + lookback
  BY CoveredIs
<1>3. PICK v : Priced(v, h, x, lookback)
  BY PriceSumIs DEF Priced
<1>4. PICK w : Priced(w, n, y, lookback)
  BY PriceSumIs DEF Priced
<1>5. /\ \A a \in low..Horizon : v[a] \in Int
      /\ v[x] = 0 /\ v[Horizon] = v[top]
      /\ \A a \in x + 1..top : v[a] = v[a - 1] + InForce(h, a)
  BY <1>3, PricedIs
<1>6. /\ \A a \in low..Horizon : w[a] \in Int
      /\ w[y] = 0 /\ w[Horizon] = w[top + s]
      /\ \A a \in y + 1..top + s : w[a] = w[a - 1] + InForce(n, a)
  BY <1>4, PricedIs
<1>7. \A a \in x..top : a \in low..Horizon /\ a + s \in low..Horizon
  BY <1>1, <1>2
<1>8. PICK g : \A a \in x..top : g[a] = w[a + s] - v[a]
  <2>1. \A a \in x..top : [b \in x..top |-> w[b + s] - v[b]][a] = w[a + s] - v[a]
    OBVIOUS
  <2>. QED  BY <2>1
<1>9. x \in x..top /\ top \in x..top
  BY <1>1, <1>2
<1>10. g[x] = 0
  <2>1. g[x] = w[x + s] - v[x]
    BY <1>8, <1>9, Zenon
  <2>. QED  BY <1>5, <1>6, <2>1
<1>11. ASSUME NEW a \in x + 1..top
       PROVE  g[a] = g[a - 1] + 0
  <2>1. /\ a \in x..top /\ a - 1 \in x..top
        /\ a + s \in y + 1..top + s /\ (a + s) - 1 = (a - 1) + s
    BY <1>1, <1>2
  <2>2. g[a] = w[a + s] - v[a] /\ g[a - 1] = w[(a - 1) + s] - v[a - 1]
    BY <1>8, <2>1, Zenon
  <2>3. v[a] = v[a - 1] + InForce(h, a)
    BY <1>5
  <2>4. w[a + s] = w[(a - 1) + s] + InForce(h, a)
    BY <1>6, <2>1
  <2>5. v[a] \in Int /\ v[a - 1] \in Int /\ w[a + s] \in Int /\ w[(a - 1) + s] \in Int
    BY <1>5, <1>6, <1>7, <2>1
  <2>6. h \in Seq(Entry) /\ InForce(h, a) \in Int
    <3>1. a \in Covered(h, x, lookback) /\ a \in Int
      BY <1>1, <1>2, CoveredIs
    <3>2. \E i \in DOMAIN h : h[i].age >= a
      BY <3>1 DEF Covered
    <3>3. PICK i \in 1..Len(h) : h[i].age >= a /\ (i < Len(h) => h[i + 1].age < a)
      BY <3>1, <3>2, SomeInForce
    <3>4. InForce(h, a) = h[i].price
      BY <3>1, <3>3, InForceIs
    <3>5. h[i].price \in Nat
      BY EntriesAre
    <3>. QED  BY <3>4, <3>5 DEF Kept
  <2>. DEFINE f == InForce(h, a)
  <2>7. f \in Int /\ v[a] = v[a - 1] + f /\ w[a + s] = w[(a - 1) + s] + f
    BY <2>3, <2>4, <2>6
  <2>. HIDE DEF f
  <2>. QED  BY <2>2, <2>5, <2>7
<1>12. g[top] = 0
  <2>1. g[x] \in Int /\ 0 \in Int
    BY <1>10
  <2>2. x \in Int /\ top \in Int /\ x <= top
    BY <1>1, <1>2
  <2>. HIDE DEF top
  <2>3. g[top] = g[x] + 0 * (top - x)
    BY ONLY <1>11, <2>1, <2>2, RunOf
  <2>. QED  BY <1>10, <2>2, <2>3
<1>13. w[top + s] = v[top]
  <2>1. g[top] = w[top + s] - v[top]
    BY <1>8, <1>9, Zenon
  <2>2. w[top + s] \in Int /\ v[top] \in Int
    BY <1>5, <1>6, <1>7, <1>9
  <2>. QED  BY <1>12, <2>1, <2>2
<1>14. TWAP(h, x, lookback) = IF top = x THEN 0 ELSE v[Horizon] \div (top - x)
  BY <1>3, TWAPIs
<1>15. TWAP(n, y, lookback) = IF top + s = y THEN 0 ELSE w[Horizon] \div ((top + s) - y)
  BY <1>4, TWAPIs
<1>16. w[Horizon] = v[Horizon] /\ (top + s = y <=> top = x) /\ (top + s) - y = top - x
  BY <1>1, <1>2, <1>5, <1>6, <1>13
<1>. QED  BY <1>14, <1>15, <1>16

\* A report at or after the reference leaves the average there.
LEMMA ReportKeepsAverage ==
    ASSUME NEW h, Kept(h), NEW e, Kept(Append(h, e)), NEW x, NEW lookback,
           Window(x, lookback), e.age <= x
    PROVE  TWAP(Append(h, e), x, lookback) = TWAP(h, x, lookback)
<1>. DEFINE n == Append(h, e)
            l == Len(h)
            top == Top(h, x, lookback)
<1>1. /\ l \in Nat /\ \A i \in 1..l : h[i].age \in Int
  BY EntriesAre
<1>2. /\ Len(n) = l + 1 /\ \A i \in 1..l : n[i] = h[i]
      /\ n[l + 1] = e
  BY AppendProperties DEF Kept
<1>3. x \in Int /\ lookback \in Nat
  BY DEF Window
<1>4. Kept(n) /\ e.age \in Int
  <2>1. l + 1 \in 1..Len(n)
    BY <1>1, <1>2
  <2>. HIDE DEF n
  <2>2. n[l + 1].age \in Int
    BY <2>1, EntriesAre DEF n
  <2>. QED  BY <1>2, <2>2 DEF n
<1>. HIDE DEF n
<1>5. Top(n, x, lookback) = top
  <2>1. CASE l = 0
    BY <1>1, <1>2, <1>3, <1>4, <2>1 DEF Top
  <2>2. CASE l # 0
    <3>1. n[1] = h[1] /\ Len(n) # 0
      BY <1>1, <1>2, <2>2
    <3>. QED  BY <2>2, <3>1 DEF Top
  <2>. QED  BY <2>1, <2>2
<1>6. ASSUME NEW a \in x + 1..top
      PROVE  InForce(n, a) = InForce(h, a)
  <2>1. a \in Covered(h, x, lookback) /\ a \in Int /\ a > x
    BY <1>3, CoveredIs
  <2>2. \E i \in DOMAIN h : h[i].age >= a
    BY <2>1 DEF Covered
  <2>3. PICK i \in 1..l : h[i].age >= a /\ (i < l => h[i + 1].age < a)
    BY <2>1, <2>2, SomeInForce
  <2>4. InForce(h, a) = h[i].price
    BY <2>1, <2>3, InForceIs
  <2>5. i \in 1..Len(n) /\ n[i] = h[i]
    BY <1>1, <1>2
  <2>6. i < Len(n) => n[i + 1].age < a
    <3>1. CASE i = l
      BY <1>2, <1>3, <1>4, <2>1, <3>1
    <3>2. CASE i # l
      <4>1. i < l /\ i + 1 \in 1..l
        BY <1>1, <3>2
      <4>. QED  BY <1>2, <2>3, <4>1
    <3>. QED  BY <3>1, <3>2
  <2>7. n[i].age >= a
    BY <2>3, <2>5
  <2>8. InForce(n, a) = n[i].price
    BY <1>4, <2>1, <2>5, <2>6, <2>7, InForceIs
  <2>. QED  BY <2>4, <2>5, <2>8
<1>7. TWAP(n, x + 0, lookback) = TWAP(h, x, lookback)
  <2>1. /\ 0 \in Int /\ x + 0 = x /\ top + 0 = top
        /\ \A a \in x + 1..top : a + 0 = a
    BY <1>3, CoveredIs
  <2>2. /\ Window(x + 0, lookback) /\ Top(n, x + 0, lookback) = top + 0
        /\ \A a \in x + 1..top : InForce(n, a + 0) = InForce(h, a)
    BY <1>5, <1>6, <2>1
  <2>. QED  BY <1>4, <2>1, <2>2, SameAverage
<1>. QED  BY <1>3, <1>7 DEF n

\* The clock moves a window and what is in it together.
LEMMA TickKeepsAverage ==
    ASSUME NEW h, Kept(h), NEW k, NEW n, Ticked(h, k, n), NEW x, NEW lookback,
           Window(x, lookback), Window(x + 1, lookback)
    PROVE  TWAP(n, x + 1, lookback) = TWAP(h, x, lookback)
<1>. DEFINE l == Len(h)
            top == Top(h, x, lookback)
            y == x + 1
<1>1. /\ l \in Nat /\ \A i \in 1..l : h[i].age \in Int
      /\ \A i, j \in 1..l : i < j => h[j].age < h[i].age
  BY EntriesAre
<1>2. /\ k \in 1..l /\ Len(n) = l - k + 1
      /\ \A j \in 1..Len(n) : /\ n[j].price = h[k + j - 1].price
                              /\ n[j].age = Horizon \/ n[j].age = h[k + j - 1].age + 1
                              /\ n[j].age = Horizon => h[k + j - 1].age >= Horizon - 1
      /\ \A j \in 2..Len(n) : n[j].age = h[k + j - 1].age + 1
  BY TickedAges
<1>3. k # 1 => n[1].age = Horizon
  BY DEF Ticked
<1>4. Kept(n)
  BY TickedSorted
<1>5. /\ x \in Int /\ lookback \in Nat /\ Horizon \in Int
      /\ x + lookback < Horizon - 1 /\ y + lookback < Horizon
  BY Numbers DEF Window
<1>6. Top(n, y, lookback) = top + 1
  <2>1. 1 \in 1..Len(n) /\ 1 \in 1..l /\ k + 1 - 1 = k /\ l # 0 /\ Len(n) # 0
    BY <1>1, <1>2
  <2>2. h[k].age \in Int /\ h[1].age \in Int /\ h[k].age <= h[1].age
    <3>1. k = 1 \/ 1 < k
      BY <1>2
    <3>. QED  BY <1>1, <1>2, <2>1, <3>1
  <2>3. /\ n[1].age = Horizon \/ n[1].age = h[k].age + 1
        /\ n[1].age = Horizon => h[k].age >= Horizon - 1
    BY <1>2, <2>1
  <2>4. CASE n[1].age = Horizon
    <3>1. h[1].age > x + lookback /\ n[1].age > y + lookback
      BY <1>5, <2>2, <2>3, <2>4
    <3>2. top = x + lookback
      BY <1>5, <2>1, <2>2, <3>1 DEF Top
    <3>3. Top(n, y, lookback) = y + lookback
      BY <1>5, <2>1, <2>4, <3>1 DEF Top
    <3>. QED  BY <1>5, <3>2, <3>3
  <2>5. CASE n[1].age # Horizon
    <3>1. k = 1 /\ n[1].age = h[1].age + 1
      BY <1>3, <2>3, <2>5
    <3>. QED  BY <1>5, <2>1, <2>2, <3>1 DEF Top
  <2>. QED  BY <2>4, <2>5
<1>7. ASSUME NEW a \in x + 1..top
      PROVE  InForce(n, a + 1) = InForce(h, a)
  <2>1. top \in Int /\ top <= x + lookback /\ a \in Int /\ a <= top
    BY <1>5, CoveredIs
  <2>2. a + 1 \in Covered(n, y, lookback) /\ a + 1 \in Int
    <3>1. a + 1 \in y + 1..top + 1
      BY <1>5, <2>1
    <3>2. Window(y, lookback)
      OBVIOUS
    <3>. HIDE DEF y
    <3>3. Covered(n, y, lookback) = y + 1..Top(n, y, lookback)
      BY <1>4, <3>2, CoveredIs
    <3>. QED  BY <1>6, <2>1, <3>1, <3>3
  <2>3. \E i \in DOMAIN n : n[i].age >= a + 1
    BY <2>2 DEF Covered
  <2>4. PICK j \in 1..Len(n) : n[j].age >= a + 1 /\ (j < Len(n) => n[j + 1].age < a + 1)
    BY <1>4, <2>2, <2>3, SomeInForce
  <2>5. InForce(n, a + 1) = n[j].price
    BY <1>4, <2>2, <2>4, InForceIs
  <2>. DEFINE i == k + j - 1
  <2>6. i \in 1..l /\ h[i].age \in Int /\ n[j].price = h[i].price
    BY <1>1, <1>2
  <2>7. h[i].age >= a
    <3>. DEFINE b == h[i].age
    <3>1. /\ n[j].age = Horizon \/ n[j].age = b + 1
          /\ n[j].age = Horizon => b >= Horizon - 1
          /\ b \in Int
      BY <1>2, <2>6
    <3>. HIDE DEF b
    <3>2. b >= a
      BY <1>5, <2>1, <2>4, <3>1
    <3>. QED  BY <3>2 DEF b
  <2>8. i < l => h[i + 1].age < a
    <3>. SUFFICES ASSUME i < l PROVE h[i + 1].age < a
      OBVIOUS
    <3>1. /\ j < Len(n) /\ j + 1 \in 2..Len(n) /\ k + (j + 1) - 1 = i + 1
          /\ i + 1 \in 1..l
      BY <1>1, <1>2
    <3>2. n[j + 1].age = h[i + 1].age + 1 /\ n[j + 1].age < a + 1 /\ h[i + 1].age \in Int
      BY <1>1, <1>2, <2>4, <3>1
    <3>. QED  BY <2>1, <3>2
  <2>. HIDE DEF i
  <2>9. InForce(h, a) = h[i].price
    BY <2>1, <2>6, <2>7, <2>8, InForceIs
  <2>. QED  BY <2>5, <2>6, <2>9
<1>. QED  BY <1>4, <1>6, <1>7, SameAverage

-----------------------------------------------------------------------------
(* An accepted price stays acceptable.                                     *)

\* The part of AcceptedStaysAcceptable that a step has to keep.
Lasting == InStep /\ Acceptable /\ Fresh' /\ UNCHANGED changes => Acceptable'

\* The test of a price is that of the average.
LEMMA SameTest ==
    ASSUME NEW h, NEW n, NEW x, NEW y, NEW price, NEW set,
           TWAP(n, y, set.lookback) = TWAP(h, x, set.lookback),
           CheckLastPriceVolatility(h, price, x, set)
    PROVE  CheckLastPriceVolatility(n, price, y, set)
BY Zenon DEF CheckLastPriceVolatility

\* The windows that end at a price young enough to be served, or at a stamp.
LEMMA Windows ==
    ASSUME TypeOK, NEW x \in Ages, x <= settings.maxTimeDelta \/ x <= Late
    PROVE  Window(x, settings.lookback)
<1>1. settings \in Settings /\ settings \in Setting
  BY SettingsFit DEF TypeOK
<1>2. /\ settings.lookback \in Nat /\ settings.maxTimeDelta \in Nat
      /\ Late + settings.lookback < Horizon
      /\ settings.maxTimeDelta + settings.lookback < Horizon
  BY <1>1, SettingsFit DEF Setting
<1>3. x \in Int /\ -Ahead <= x
  BY Numbers DEF Ages
<1>. QED  BY <1>2, <1>3, Numbers DEF Window

\* A report is tested when it comes, and is at or after the price it leaves.
LEMMA DeliveryLasting ==
    ASSUME Stored, Stored', NEW age \in Stamps, VerifyReport(age)
    PROVE  Lasting
<1>. SUFFICES ASSUME InStep, Acceptable, Fresh'
              PROVE  Acceptable'
  BY DEF Lasting
<1>. DEFINE new == [price |-> feed[age], age |-> age]
<1>1. /\ TypeOK /\ TypeOK' /\ Kept(history) /\ Kept(history')
  BY DEF Stored, TypeOK, Kept
<1>2. /\ age < LastStoredAge
      /\ history' = Append(history, new)
      /\ last' = IF CheckLastPriceVolatility(history, feed[age], age, settings)
                 THEN new ELSE last
      /\ settings' = settings
  BY DEF VerifyReport, Newer
<1>3. new \in Entry /\ new.age = age /\ new.price = feed[age] /\ age \in Ages /\ age <= Late
  BY <1>1, ReportIs, Numbers DEF Stamps
<1>4. age \in Int
  BY <1>3, Numbers DEF Ages
<1>5. last' # NoPrice /\ last'.age \in Ages /\ last'.age <= settings.maxTimeDelta
  <2>1. last'.price # 0 /\ last'.age <= settings'.maxTimeDelta
    BY DEF Fresh, Recent
  <2>2. last' # NoPrice /\ last' \in Entry \cup {NoPrice}
    BY <1>1, <2>1 DEF TypeOK, NoPrice
  <2>. QED  BY <1>2, <2>1, <2>2 DEF Entry
<1>. HIDE DEF new
<1>6. CASE CheckLastPriceVolatility(history, feed[age], age, settings)
  <2>1. last' = new
    BY <1>2, <1>6
  <2>2. Window(age, settings.lookback)
    BY <1>1, <1>3, Windows
  <2>3. TWAP(history', age, settings.lookback) = TWAP(history, age, settings.lookback)
    <3>1. Kept(Append(history, new)) /\ new.age <= age
      BY <1>1, <1>2, <1>3, <1>4
    <3>2. TWAP(Append(history, new), age, settings.lookback) = TWAP(history, age, settings.lookback)
      BY <1>1, <2>2, <3>1, ReportKeepsAverage
    <3>. QED  BY <1>2, <3>2
  <2>4. CheckLastPriceVolatility(history', feed[age], age, settings)
    BY <1>6, <2>3, SameTest
  <2>. QED  BY <1>2, <1>3, <2>1, <2>4 DEF Acceptable
<1>7. CASE ~ CheckLastPriceVolatility(history, feed[age], age, settings)
  <2>1. last' = last
    BY <1>2, <1>7
  <2>. DEFINE x == last.age
  <2>2. Window(x, settings.lookback) /\ x \in Int
    <3>1. x \in Ages /\ x <= settings.maxTimeDelta
      BY <1>5, <2>1
    <3>. QED  BY <1>1, <3>1, Windows DEF Window
  <2>3. new.age <= x
    <3>1. LastStoredAge <= x /\ LastStoredAge \in Int
      BY <1>1, <1>5, <2>1, LastStoredIs DEF InStep
    <3>. QED  BY <1>2, <1>3, <1>4, <2>2, <3>1
  <2>4. TWAP(history', x, settings.lookback) = TWAP(history, x, settings.lookback)
    <3>1. Kept(Append(history, new))
      BY <1>1, <1>2
    <3>. HIDE DEF x
    <3>2. TWAP(Append(history, new), x, settings.lookback) = TWAP(history, x, settings.lookback)
      BY <1>1, <2>2, <2>3, <3>1, ReportKeepsAverage
    <3>. QED  BY <1>2, <3>2
  <2>5. CheckLastPriceVolatility(history, last.price, x, settings)
    BY DEF Acceptable
  <2>6. CheckLastPriceVolatility(history', last.price, x, settings)
    BY <2>4, <2>5, SameTest
  <2>. QED  BY <1>2, <2>1, <2>6 DEF Acceptable
<1>. QED  BY <1>6, <1>7

\* The clock leaves a price where it stands among the prices before it.
LEMMA TickLasting ==
    ASSUME Stored, Stored', Tick
    PROVE  Lasting
<1>. SUFFICES ASSUME InStep, Acceptable, Fresh'
              PROVE  Acceptable'
  BY DEF Lasting
<1>1. /\ TypeOK /\ TypeOK' /\ Kept(history)
  BY DEF Stored, TypeOK, Kept
<1>2. /\ last' = [last EXCEPT !.age = Older(last.age)]
      /\ settings' = settings
  BY DEF Tick
<1>3. last' # NoPrice /\ last'.age \in Ages /\ last'.age <= settings.maxTimeDelta
  <2>1. last'.price # 0 /\ last'.age <= settings'.maxTimeDelta
    BY DEF Fresh, Recent
  <2>2. last' # NoPrice /\ last' \in Entry \cup {NoPrice}
    BY <1>1, <2>1 DEF TypeOK, NoPrice
  <2>. QED  BY <1>2, <2>1, <2>2 DEF Entry
<1>. DEFINE x == last.age
<1>4. x \in Ages /\ last'.age = Older(x) /\ last # NoPrice
  BY <1>1, <1>2, <1>3, LastAged DEF TypeOK
<1>5. last'.price = last.price
  <2>1. last \in Entry
    BY <1>1, <1>4 DEF TypeOK
  <2>. QED  BY <1>2, <2>1 DEF Entry
<1>6. settings.maxTimeDelta < Horizon /\ settings.maxTimeDelta \in Int
  <2>1. settings \in Settings /\ settings \in Setting
    BY <1>1, SettingsFit DEF TypeOK
  <2>. QED  BY <2>1, SettingsFit, Numbers DEF Setting
<1>7. x \in Int /\ last'.age = x + 1 /\ x <= settings.maxTimeDelta
  <2>. HIDE DEF x
  <2>1. x \in Int /\ x <= Horizon /\ Horizon \in Int
    BY <1>4, Numbers DEF Ages
  <2>2. (IF x >= Horizon THEN Horizon ELSE x + 1) <= settings.maxTimeDelta
    BY <1>3, <1>4 DEF Older
  <2>3. ~ (x >= Horizon)
    BY <1>6, <2>1, <2>2
  <2>. QED  BY <1>4, <1>6, <2>1, <2>2, <2>3 DEF Older
<1>8. Window(x, settings.lookback) /\ Window(x + 1, settings.lookback)
  BY <1>1, <1>3, <1>4, <1>7, Windows
<1>9. TWAP(history', x + 1, settings.lookback) = TWAP(history, x, settings.lookback)
  <2>1. CASE history = <<>> /\ history' = <<>>
    <3>. DEFINE e == history
    <3>1. Top(e, x, settings.lookback) = x /\ Top(e, x + 1, settings.lookback) = x + 1
      <4>1. Len(e) = 0
        BY <2>1, EmptySeq
      <4>. QED  BY <4>1 DEF Top
    <3>2. \A a \in x + 1..x : InForce(e, a + 1) = InForce(e, a)
      <4>1. \A a \in x + 1..x : FALSE
        BY <1>7
      <4>. QED  BY <4>1
    <3>. HIDE DEF e, x
    <3>3. 1 \in Int /\ Kept(e)
      BY <1>1 DEF e
    <3>4. TWAP(e, x + 1, settings.lookback) = TWAP(e, x, settings.lookback)
      BY <1>8, <3>1, <3>2, <3>3, SameAverage
    <3>. QED  BY <2>1, <3>4 DEF e
  <2>2. ASSUME NEW k \in 1..Len(history), Ticked(history, k, history')
        PROVE  TWAP(history', x + 1, settings.lookback) = TWAP(history, x, settings.lookback)
    <3>. HIDE DEF x
    <3>. QED  BY <1>1, <1>8, <2>2, TickKeepsAverage
  <2>. QED  BY <1>1, <2>1, <2>2, TickedIs
<1>10. CheckLastPriceVolatility(history, last.price, x, settings)
  BY DEF Acceptable
<1>11. CheckLastPriceVolatility(history', last.price, x + 1, settings)
  BY <1>9, <1>10, SameTest
<1>. QED  BY <1>2, <1>5, <1>7, <1>11 DEF Acceptable

\* A price once accepted stays acceptable to getPrice, whatever reports come
\* after it and however long it is served, until the owner changes the
\* parameters (TWAPOracleMiddleware.sol:164 against 316-330).
THEOREM OnceAcceptedAlways == Spec => AcceptedStaysAcceptable
<1>1. Stored /\ Stored' /\ [Next]_vars => [Lasting]_vars
  <2>. SUFFICES ASSUME Stored, Stored', [Next]_vars, ~ UNCHANGED vars PROVE Lasting
    OBVIOUS
  <2>1. ASSUME NEW age \in Stamps, VerifyReport(age) PROVE Lasting
    BY <2>1, DeliveryLasting
  <2>2. ASSUME Tick PROVE Lasting
    BY <2>2, TickLasting
  <2>3. ASSUME NEW price \in Prices, Sign(price) PROVE Lasting
    BY <2>3 DEF Sign, Lasting, Acceptable
  <2>4. ASSUME NEW set \in Settings, NEW index \in 1..Len(history) + 1,
               SetParameters(set, index)
        PROVE  Lasting
    <3>1. changes' = changes + 1 /\ changes \in Int
      BY <2>4, Numbers DEF SetParameters, Stored, TypeOK
    <3>. QED  BY <3>1 DEF Lasting
  <2>. QED  BY <2>1, <2>2, <2>3, <2>4 DEF Next, Deliver
<1>. QED  BY <1>1, StoredSorted, PTL DEF Spec, AcceptedStaysAcceptable, Lasting

-----------------------------------------------------------------------------
(* What the tolerance is worth.                                            *)

\* A running sum of numbers up to c is at most a multiple of it.
LEMMA RunBelow ==
    ASSUME NEW g, NEW c \in Int, NEW x \in Int, NEW y \in Int, x <= y,
           \A a \in x..y : g[a] \in Int,
           \A a \in x + 1..y : g[a] <= g[a - 1] + c
    PROVE  g[y] <= g[x] + c * (y - x)
<1>. DEFINE T == {m \in Nat : m <= y - x /\ ~ (g[x + m] <= g[x] + c * m)}
<1>1. T = {}
  <2>. SUFFICES ASSUME T # {} PROVE FALSE
    OBVIOUS
  <2>1. PICK m \in T : \A l \in T : m <= l
    <3>1. T \in SUBSET Nat
      OBVIOUS
    <3>. HIDE DEF T
    <3>. QED  BY <3>1, LeastNumber
  <2>2. m \in Nat /\ m <= y - x /\ ~ (g[x + m] <= g[x] + c * m)
    BY <2>1
  <2>3. g[x] \in Int
    <3>1. x \in x..y
      OBVIOUS
    <3>. QED  BY <3>1
  <2>4. m # 0
    <3>. SUFFICES ASSUME m = 0 PROVE FALSE
      OBVIOUS
    <3>1. x + m = x /\ c * m = 0
      OBVIOUS
    <3>. QED  BY <2>2, <2>3, <3>1
  <2>5. m - 1 \in Nat /\ m - 1 <= y - x /\ ~ (m <= m - 1)
    BY <2>2, <2>4
  <2>6. g[x + (m - 1)] <= g[x] + c * (m - 1)
    BY <2>1, <2>5
  <2>7. /\ x + m \in x + 1..y /\ (x + m) - 1 = x + (m - 1)
        /\ x + m \in x..y /\ x + (m - 1) \in x..y
    BY <2>2, <2>4
  <2>8. g[x + m] <= g[x + (m - 1)] + c /\ g[x + m] \in Int /\ g[x + (m - 1)] \in Int
    BY <2>7
  <2>9. c * m = c * (m - 1) + c /\ c * (m - 1) \in Int
    BY <2>2
  <2>. HIDE DEF T
  <2>. QED  BY <2>2, <2>3, <2>6, <2>8, <2>9
<1>2. y - x \in Nat /\ x + (y - x) = y
  OBVIOUS
<1>3. y - x \notin T
  BY <1>1
<1>. QED  BY <1>2, <1>3

\* And one of numbers from c on at least that.
LEMMA RunAbove ==
    ASSUME NEW g, NEW c \in Int, NEW x \in Int, NEW y \in Int, x <= y,
           \A a \in x..y : g[a] \in Int,
           \A a \in x + 1..y : g[a] >= g[a - 1] + c
    PROVE  g[y] >= g[x] + c * (y - x)
<1>1. PICK f : \A a \in x..y : f[a] = -g[a]
  <2>1. \A a \in x..y : [b \in x..y |-> -g[b]][a] = -g[a]
    OBVIOUS
  <2>. QED  BY <2>1
<1>2. \A a \in x..y : f[a] \in Int
  BY <1>1
<1>3. ASSUME NEW a \in x + 1..y
      PROVE  f[a] <= f[a - 1] + (-c)
  <2>1. a \in x..y /\ a - 1 \in x..y
    OBVIOUS
  <2>2. f[a] = -g[a] /\ f[a - 1] = -g[a - 1] /\ g[a] \in Int /\ g[a - 1] \in Int
    BY <1>1, <2>1
  <2>. QED  BY <2>2
<1>. DEFINE e == -c
<1>4. e \in Int /\ \A a \in x + 1..y : f[a] <= f[a - 1] + e
  BY <1>3
<1>. HIDE DEF e
<1>5. f[y] <= f[x] + e * (y - x)
  BY <1>2, <1>4, RunBelow
<1>6. x \in x..y /\ y \in x..y
  OBVIOUS
<1>7. f[x] = -g[x] /\ f[y] = -g[y] /\ g[x] \in Int /\ g[y] \in Int
  BY <1>1, <1>6
<1>8. e * (y - x) = -(c * (y - x)) /\ c * (y - x) \in Int
  BY DEF e
<1>. DEFINE r == c * (y - x)
            q == e * (y - x)
<1>9. q = -r /\ r \in Int /\ f[y] <= f[x] + q
  BY <1>5, <1>8
<1>. HIDE DEF q, r
<1>10. g[y] >= g[x] + r
  BY <1>7, <1>9
<1>. QED  BY <1>10 DEF r

\* The prices in force over a window.
InWindow(h, age, lookback) == {InForce(h, a) : a \in Covered(h, age, lookback)}

\* What a mean of whole numbers is to a sum.
LEMMA MeanIs ==
    ASSUME NEW s \in Int, NEW n \in Nat \ {0}
    PROVE  /\ s \div n \in Int
           /\ n * (s \div n) <= s /\ s < n * (s \div n) + n
OBVIOUS

\* Some price of the window is at least the average, and some at most.
LEMMA MeanBetween ==
    ASSUME NEW h, Kept(h), NEW age, NEW lookback, Window(age, lookback),
           Covered(h, age, lookback) # {}
    PROVE  LET mean == TWAP(h, age, lookback)
           IN  /\ mean \in Int
               /\ InWindow(h, age, lookback) \subseteq Int
               /\ \E p \in InWindow(h, age, lookback) : mean <= p
               /\ \E p \in InWindow(h, age, lookback) : p <= mean
<1>. DEFINE top == Top(h, age, lookback)
            mean == TWAP(h, age, lookback)
            n == top - age
<1>1. PICK v : Priced(v, h, age, lookback)
  BY PriceSumIs DEF Priced
<1>2. /\ age \in Int /\ lookback \in Nat /\ -Ahead <= age /\ age + lookback < Horizon
      /\ -Ahead \in Int /\ Horizon \in Int
  BY Numbers DEF Window
<1>3. /\ top \in Int /\ age <= top /\ top <= age + lookback
      /\ Covered(h, age, lookback) = age + 1..top
  BY CoveredIs
<1>4. age < top
  BY <1>2, <1>3
<1>5. /\ \A a \in age..top : v[a] \in Int
      /\ v[age] = 0 /\ v[Horizon] = v[top]
      /\ \A a \in age + 1..top : v[a] = v[a - 1] + InForce(h, a)
  <2>1. \A a \in age..top : a \in -Ahead..Horizon
    BY <1>2, <1>3
  <2>. QED  BY <1>1, <2>1, PricedIs
<1>6. mean = v[top] \div n
  BY <1>1, <1>2, <1>3, <1>4, <1>5, TWAPIs
<1>7. n \in Nat \ {0} /\ v[top] \in Int
  BY <1>2, <1>3, <1>4, <1>5
<1>8. mean \in Int /\ n * mean <= v[top] /\ v[top] < n * mean + n
  <2>. HIDE DEF n, mean, top
  <2>. QED  BY <1>6, <1>7, MeanIs
<1>9. ASSUME NEW a \in age + 1..top
      PROVE  InForce(h, a) \in Int /\ InForce(h, a) \in InWindow(h, age, lookback)
  <2>1. a \in Covered(h, age, lookback) /\ a \in Int
    BY <1>3
  <2>2. \E i \in DOMAIN h : h[i].age >= a
    BY <2>1 DEF Covered
  <2>3. PICK i \in 1..Len(h) : h[i].age >= a /\ (i < Len(h) => h[i + 1].age < a)
    BY <2>1, <2>2, SomeInForce
  <2>4. InForce(h, a) = h[i].price /\ h[i].price \in Nat
    BY <2>1, <2>3, InForceIs, EntriesAre
  <2>. QED  BY <2>1, <2>4 DEF InWindow
<1>10. InWindow(h, age, lookback) \subseteq Int
  BY <1>3, <1>9 DEF InWindow
<1>11. \A a \in age + 1..top : /\ v[a] \in Int /\ v[a - 1] \in Int
                               /\ v[a] = v[a - 1] + InForce(h, a)
  <2>1. \A a \in age + 1..top : a \in age..top /\ a - 1 \in age..top
    BY <1>2, <1>3
  <2>. QED  BY <1>5, <2>1
<1>. HIDE DEF top, mean
<1>12. \E p \in InWindow(h, age, lookback) : mean <= p
  <2>. SUFFICES ASSUME \A p \in InWindow(h, age, lookback) : ~ (mean <= p)
                PROVE  FALSE
    OBVIOUS
  <2>. DEFINE c == mean - 1
  <2>1. c \in Int
    BY <1>8
  <2>2. ASSUME NEW a \in age + 1..top
        PROVE  v[a] <= v[a - 1] + c
    <3>. DEFINE f == InForce(h, a)
    <3>1. f \in Int /\ ~ (mean <= f) /\ v[a] = v[a - 1] + f /\ v[a - 1] \in Int
      BY <1>9, <1>11
    <3>. HIDE DEF f
    <3>. QED  BY <1>8, <3>1
  <2>. HIDE DEF c
  <2>3. v[top] <= v[age] + c * (top - age)
    BY <1>2, <1>3, <1>5, <2>1, <2>2, RunBelow
  <2>4. c * (top - age) = n * mean - n
    BY <1>2, <1>3, <1>8 DEF c
  <2>. DEFINE r == n * mean
              q == c * (top - age)
  <2>5. q = r - n /\ r \in Int /\ v[top] <= 0 + q /\ r <= v[top]
    BY <1>5, <1>7, <1>8, <2>3, <2>4
  <2>. HIDE DEF r, q, n
  <2>. QED  BY <1>7, <2>5
<1>13. \E p \in InWindow(h, age, lookback) : p <= mean
  <2>. SUFFICES ASSUME \A p \in InWindow(h, age, lookback) : ~ (p <= mean)
                PROVE  FALSE
    OBVIOUS
  <2>. DEFINE c == mean + 1
  <2>1. c \in Int
    BY <1>8
  <2>2. ASSUME NEW a \in age + 1..top
        PROVE  v[a] >= v[a - 1] + c
    <3>. DEFINE f == InForce(h, a)
    <3>1. f \in Int /\ ~ (f <= mean) /\ v[a] = v[a - 1] + f /\ v[a - 1] \in Int
      BY <1>9, <1>11
    <3>. HIDE DEF f
    <3>. QED  BY <1>8, <3>1
  <2>. HIDE DEF c
  <2>3. v[top] >= v[age] + c * (top - age)
    BY <1>2, <1>3, <1>5, <2>1, <2>2, RunAbove
  <2>4. c * (top - age) = n * mean + n
    BY <1>2, <1>3, <1>8 DEF c
  <2>. DEFINE r == n * mean
              q == c * (top - age)
  <2>5. q = r + n /\ r \in Int /\ v[top] >= 0 + q /\ v[top] < r + n
    BY <1>5, <1>7, <1>8, <2>3, <2>4
  <2>. HIDE DEF r, q, n
  <2>. QED  BY <1>7, <2>5
<1>. QED  BY <1>8, <1>10, <1>12, <1>13 DEF mean

\* The tolerance grows with the price, and slower than it.
LEMMA ToleranceGrows ==
    ASSUME NEW x \in Nat, NEW y \in Nat, x <= y, NEW t \in Nat \ {0}
    PROVE  /\ x \div t \in Nat /\ y \div t \in Nat
           /\ x \div t <= y \div t
           /\ y \div t <= x \div t + (y - x)
<1>. DEFINE a == x \div t
            b == y \div t
<1>1. /\ a \in Int /\ t * a <= x /\ x < t * a + t
      /\ b \in Int /\ t * b <= y /\ y < t * b + t
  BY MeanIs
<1>. HIDE DEF a, b
<1>2. a >= 0 /\ b >= 0
  <2>1. CASE a < 0
    <3>1. t * a <= -t
      <4>1. t * (-a - 1) >= 0 /\ t * (-a - 1) = -(t * a) - t
        BY <1>1, <2>1
      <4>. QED  BY <1>1, <4>1
    <3>. QED  BY <1>1, <3>1
  <2>2. CASE b < 0
    <3>1. t * b <= -t
      <4>1. t * (-b - 1) >= 0 /\ t * (-b - 1) = -(t * b) - t
        BY <1>1, <2>2
      <4>. QED  BY <1>1, <4>1
    <3>. QED  BY <1>1, <3>1
  <2>. QED  BY <1>1, <2>1, <2>2
<1>3. a <= b
  <2>. SUFFICES ASSUME b + 1 <= a PROVE FALSE
    BY <1>1
  <2>1. t * (a - b - 1) >= 0 /\ t * (a - b - 1) = t * a - t * b - t
    BY <1>1
  <2>. QED  BY <1>1, <2>1
<1>4. b <= a + (y - x)
  <2>. DEFINE d == y - x
  <2>. SUFFICES ASSUME a + d + 1 <= b PROVE FALSE
    BY <1>1
  <2>1. d \in Nat /\ y = x + d
    OBVIOUS
  <2>. HIDE DEF d
  <2>2. t * (b - a - d - 1) >= 0 /\ t * (b - a - d - 1) = t * b - t * a - t * d - t
    BY <1>1, <2>1
  <2>3. t * d >= d
    <3>1. (t - 1) * d >= 0 /\ (t - 1) * d = t * d - d
      BY <2>1
    <3>. QED  BY <2>1, <3>1
  <2>. QED  BY <1>1, <2>1, <2>2, <2>3
<1>. QED  BY <1>1, <1>2, <1>3, <1>4 DEF a, b

\* Every price that is stored is worth a step.
Valued == Stored /\ \A i \in DOMAIN history : history[i].price >= Step

\* Every step keeps it so.
LEMMA StepsValued == Valued /\ [Next]_vars => Valued'
<1>. SUFFICES ASSUME Valued, [Next]_vars PROVE Valued'
  OBVIOUS
<1>1. /\ Stored /\ Stored' /\ TypeOK /\ Kept(history) /\ Kept(history')
      /\ DOMAIN history = 1..Len(history) /\ Len(history) \in Nat
  <2>1. Stored /\ Stored'
    BY StepsSorted DEF Valued
  <2>2. TypeOK /\ Kept(history) /\ Kept(history')
    BY <2>1 DEF Stored, TypeOK, Kept
  <2>. QED  BY <2>1, <2>2, EntriesAre
<1>. SUFFICES \A i \in DOMAIN history' : history'[i].price >= Step
  BY <1>1 DEF Valued
<1>2. CASE Tick
  <2>1. CASE history' = <<>>
    BY <2>1, EmptySeq
  <2>2. ASSUME NEW k \in 1..Len(history), Ticked(history, k, history'),
               NEW i \in DOMAIN history'
        PROVE  history'[i].price >= Step
    <3>1. i \in 1..Len(history')
      BY <1>1, EntriesAre
    <3>2. /\ Len(history') = Len(history) - k + 1
          /\ history'[i].price = history[k + i - 1].price
      BY <2>2, <3>1 DEF Ticked
    <3>3. k + i - 1 \in DOMAIN history
      BY <1>1, <3>1, <3>2
    <3>. QED  BY <3>2, <3>3 DEF Valued
  <2>. QED  BY <1>1, <1>2, <2>1, <2>2, TickedIs
<1>3. ASSUME NEW age \in Stamps, VerifyReport(age), NEW i \in DOMAIN history'
      PROVE  history'[i].price >= Step
  <2>. DEFINE e == [price |-> feed[age], age |-> age]
  <2>1. history' = Append(history, e) /\ feed[age] >= Step
    BY <1>3 DEF VerifyReport
  <2>2. e \in Entry
    BY <1>1, ReportIs
  <2>3. /\ Len(history') = Len(history) + 1
        /\ \A j \in 1..Len(history) : history'[j] = history[j]
        /\ history'[Len(history) + 1] = e
    BY <1>1, <2>1, <2>2, AppendProperties DEF Kept
  <2>4. i \in 1..Len(history) \/ i = Len(history) + 1
    <3>1. i \in 1..Len(history')
      BY <1>1, EntriesAre
    <3>. QED  BY <1>1, <2>3, <3>1
  <2>. QED  BY <1>1, <2>1, <2>3, <2>4 DEF Valued
<1>4. ASSUME NEW price \in Prices, Sign(price)
      PROVE  \A i \in DOMAIN history' : history'[i].price >= Step
  BY <1>4 DEF Sign, Valued
<1>5. ASSUME NEW set \in Settings, NEW index \in 1..Len(history) + 1,
             SetParameters(set, index), NEW i \in DOMAIN history'
      PROVE  history'[i].price >= Step
  <2>1. history' = SubSeq(history, 1, index - 1)
    BY <1>5 DEF SetParameters
  <2>2. /\ \A j \in 1..index - 1 : history[j] \in Entry
        /\ 1 \in Int /\ index - 1 \in Int /\ index - 1 <= Len(history)
    <3>1. \A j \in 1..index - 1 : j \in 1..Len(history)
      BY <1>1
    <3>. QED  BY <1>1, <3>1, ElementOfSeq DEF Kept
  <2>3. /\ Len(history') = IF 1 <= index - 1 THEN index - 1 - 1 + 1 ELSE 0
        /\ \A j \in 1..index - 1 - 1 + 1 : history'[j] = history[1 + j - 1]
    BY <2>1, <2>2, SubSeqProperties
  <2>4. i \in 1..Len(history')
    BY <1>1, EntriesAre
  <2>5. i \in 1..Len(history) /\ history'[i] = history[i]
    <3>1. i \in 1..index - 1 /\ 1 + i - 1 = i /\ index - 1 - 1 + 1 = index - 1
      BY <2>2, <2>3, <2>4
    <3>. QED  BY <2>2, <2>3, <3>1
  <2>. QED  BY <1>1, <2>5 DEF Valued
<1>6. CASE UNCHANGED vars
  BY <1>6 DEF vars, Valued
<1>. QED  BY <1>2, <1>3, <1>4, <1>5, <1>6 DEF Next, Deliver

\* A price that is served is within the tolerance of prices that were in force
\* in the window before it, if anything was: no more above one of them, and no
\* more below one of them, than the tolerance of that price.
NearWindow ==
    LET prices == InWindow(history, last.age, settings.lookback)
        Margin(p) == p \div settings.tolerance
    IN  Fresh /\ Acceptable /\ prices # {} =>
            /\ \E p \in prices : last.price <= p + Margin(p)
            /\ \E p \in prices : p - Margin(p) <= last.price

\* No price is served that is far off all the prices in force in the window
\* before it; and the average that decides it is zero, which accepts any
\* price, only when no price was in force there
\* (TWAPOracleMiddleware.sol:156-187 with 196-238).
THEOREM ServedNearWindow == Spec => []NearWindow
<1>1. Valued => NearWindow
  <2>. DEFINE lookback == settings.lookback
              t == settings.tolerance
              mean == TWAP(history, last.age, lookback)
              prices == InWindow(history, last.age, lookback)
  <2>. SUFFICES ASSUME Valued, Fresh, Acceptable, prices # {}
                PROVE  /\ \E p \in prices : last.price <= p + p \div t
                       /\ \E p \in prices : p - p \div t <= last.price
    BY DEF NearWindow
  <2>1. TypeOK /\ Kept(history)
    BY DEF Valued, Stored, TypeOK, Kept
  <2>2. /\ last.age \in Ages /\ last.age <= settings.maxTimeDelta
        /\ last.price \in Nat
    <3>1. last.price # 0 /\ last.age <= settings.maxTimeDelta
      BY DEF Fresh, Recent
    <3>2. last \in Entry
      BY <2>1, <3>1 DEF TypeOK, NoPrice
    <3>. QED  BY <3>1, <3>2, Numbers DEF Entry
  <2>3. Window(last.age, lookback)
    BY <2>1, <2>2, Windows
  <2>4. t \in Nat \ {0}
    BY <2>1, SettingsFit DEF TypeOK, Setting
  <2>5. Covered(history, last.age, lookback) # {}
    BY DEF InWindow
  <2>6. /\ mean \in Int
        /\ \E p \in prices : mean <= p
        /\ \E p \in prices : p <= mean
    BY <2>1, <2>3, <2>5, MeanBetween
  <2>7. \A p \in prices : p \in Nat /\ p >= Step
    <3>. SUFFICES ASSUME NEW p \in prices PROVE p \in Nat /\ p >= Step
      OBVIOUS
    <3>1. PICK a \in Covered(history, last.age, lookback) : p = InForce(history, a)
      BY DEF InWindow
    <3>2. a \in Int /\ \E i \in DOMAIN history : history[i].age >= a
      BY <3>1, <2>3 DEF Covered, Window
    <3>3. PICK i \in 1..Len(history) :
               history[i].age >= a /\ (i < Len(history) => history[i + 1].age < a)
      BY <2>1, <3>2, SomeInForce
    <3>4. p = history[i].price /\ history[i].price \in Nat /\ i \in DOMAIN history
      BY <2>1, <3>1, <3>2, <3>3, InForceIs, EntriesAre
    <3>. QED  BY <3>4 DEF Valued
  <2>8. PICK high \in prices : mean <= high
    BY <2>6
  <2>9. PICK low \in prices : low <= mean
    BY <2>6
  <2>10. high \in Nat /\ low \in Nat /\ low >= Step /\ Step \in Nat \ {0}
    BY <2>7, Numbers
  <2>11. mean \in Nat /\ mean # 0
    BY <2>6, <2>9, <2>10
  <2>12. Distance(last.price, mean) <= mean \div t
    BY <2>11 DEF Acceptable, CheckLastPriceVolatility
  <2>. DEFINE m == mean \div t
              x == high \div t
              y == low \div t
  <2>13. /\ m \in Nat /\ x \in Nat /\ m <= x
    BY <2>4, <2>8, <2>10, <2>11, ToleranceGrows
  <2>14. y \in Nat /\ m <= y + (mean - low)
    BY <2>4, <2>9, <2>10, <2>11, ToleranceGrows
  <2>15. /\ last.price >= mean => last.price - mean <= m
         /\ ~ (last.price >= mean) => mean - last.price <= m
    BY <2>12 DEF Distance
  <2>. HIDE DEF m, x, y, mean, prices
  <2>16. last.price <= high + x
    BY <2>2, <2>8, <2>10, <2>11, <2>13, <2>15
  <2>17. low - y <= last.price
    BY <2>2, <2>9, <2>10, <2>11, <2>13, <2>14, <2>15
  <2>. QED  BY <2>8, <2>9, <2>16, <2>17 DEF x, y
<1>2. Init => Valued
  <2>1. DOMAIN <<>> = {}
    BY EmptySeq
  <2>. QED  BY <2>1, InitTyped DEF Init, Valued, Stored, Sorted
<1>. QED  BY <1>1, <1>2, StepsValued, PTL DEF Spec
=============================================================================
