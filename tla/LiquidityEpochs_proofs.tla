----------------------- MODULE LiquidityEpochs_proofs -----------------------
(***************************************************************************)
(* Proofs about LiquidityEpochs, for any set of accounts, any cap and any  *)
(* bounds.                                                                 *)
(*                                                                         *)
(* The argument.  Inv(s) is the inductive invariant, stated of a storage s *)
(* so that it can be followed through the middle of a call, and Moves(s,r) *)
(* says that r follows s with epochs only advancing.  Every operator of    *)
(* the module takes a storage that satisfies Inv to one that satisfies Inv *)
(* and that Moves from it; Moves is transitive; so each call does.  The    *)
(* refinement is argued the same way: Tracks(s,r,k,A) says which updates   *)
(* the epochs received from s to r and whose snapshots were replaced, and  *)
(* composes along a call.                                                  *)
(***************************************************************************)
EXTENDS LiquidityEpochs, FiniteSetTheorems, TLAPS

-----------------------------------------------------------------------------
(* The inductive invariant and the relation between storages.              *)

Ordered(s) == s.oldest <= s.current

\* Every epoch of the window is initialised, nothing outside of it is used.
WindowLive(s) ==
    \A id \in EpochIds :
        s.epochs[id].live <=> s.oldest <= id /\ id <= s.current

OutsideFree(s) ==
    \A id \in EpochIds :
        id < s.oldest \/ id > s.current => s.epochs[id] = NoEpoch

\* An LP's epoch is in the window; its matrix was healthy at the snapshot.
Reachable(s) ==
    \A u \in Users : s.lp[u].active
        => s.oldest <= s.lp[u].epoch /\ s.lp[u].epoch <= s.current /\ s.lp[u].healthy

Covered(s) ==
    \A id \in EpochIds : s.epochs[id].count >= Cardinality(AttachedTo(s, id))

\* The window exceeds the cap by one at most, and then holds a drained epoch.
Window(s) ==
    /\ s.current - s.oldest <= MaxEpochs
    /\ s.current - s.oldest = MaxEpochs
        => \E id \in EpochIds : s.oldest <= id /\ id < s.current /\ s.epochs[id].count = 0

\* Whatever can be retired is: the window starts where a reference holds it.
Held(s) == s.oldest = s.current \/ Keeps(s, s.oldest)

Inv(s) ==
    /\ s \in Storage
    /\ Ordered(s)
    /\ WindowLive(s)
    /\ OutsideFree(s)
    /\ Reachable(s)
    /\ Covered(s)
    /\ Window(s)

\* An LP keeps its epoch, or joins one that was not older than the current.
Moves(s, r) ==
    /\ s.oldest <= r.oldest
    /\ s.current <= r.current
    /\ \A u \in Users : r.lp[u].active
        => \/ s.lp[u].active /\ r.lp[u].epoch = s.lp[u].epoch
           \/ s.current <= r.lp[u].epoch

\* What most operators leave alone: pointers, counts, liveness, and the
\* epoch of whoever is still active.
Same(s, r) ==
    /\ r.oldest = s.oldest
    /\ r.current = s.current
    /\ \A id \in EpochIds :
        /\ r.epochs[id].live = s.epochs[id].live
        /\ r.epochs[id].count = s.epochs[id].count
        /\ ~s.epochs[id].live => r.epochs[id] = s.epochs[id]
    /\ \A u \in Users : r.lp[u].active
        => /\ s.lp[u].active
           /\ r.lp[u].epoch = s.lp[u].epoch
           /\ r.lp[u].healthy = s.lp[u].healthy

\* v's snapshot refers to the same epoch in both.
Stays(s, r, v) ==
    s.lp[v].active /\ r.lp[v].active /\ r.lp[v].epoch = s.lp[v].epoch

\* No update and no accrual from s to r, and no snapshot replaced but A's.
Undisturbed(s, r, A) ==
    /\ r.due = s.due
    /\ \A v \in Users \ A : r.lp[v] = s.lp[v]
    /\ \A v \in Users : Stays(s, r, v)
        => LET e == s.lp[v].epoch
           IN  r.epochs[e].m = s.epochs[e].m /\ r.epochs[e].g = s.epochs[e].g

\* v's snapshot is that of its epoch as it stands.
UpToDate(s, v) ==
    LET e == s.lp[v].epoch
    IN  s.lp[v].m = s.epochs[e].m /\ s.lp[v].g = s.epochs[e].g

-----------------------------------------------------------------------------
(* Facts about numbers and sets.                                           *)

\* Every non-empty set of naturals has a least element.
LEMMA LeastElement ==
    ASSUME NEW S \in SUBSET Nat, S # {}
    PROVE  \E x \in S : \A y \in S : x <= y
<1>. DEFINE T == {0..x : x \in S}
<1>1. T \subseteq FiniteSubsetsOf(Nat) /\ T # {}
  <2>1. \A x \in S : 0..x \in SUBSET Nat /\ IsFiniteSet(0..x)
    BY FS_Interval
  <2>. QED  BY <2>1 DEF FiniteSubsetsOf
<1>2. PICK t \in T : \A y \in T : ~ (<<y, t>> \in StrictSubsetOrdering(Nat))
  <2>. HIDE DEF T
  <2>. QED  BY <1>1, FS_StrictSubsetOrderingWellFounded, WFMin
<1>3. PICK x \in S : t = 0..x
  OBVIOUS
<1>4. \A y \in S : ~ (y < x)
  <2>. SUFFICES ASSUME NEW y \in S, y < x
                PROVE  FALSE
    OBVIOUS
  <2>1. 0..y \in T
    OBVIOUS
  <2>2. 0..y \subseteq 0..x /\ x \in 0..x /\ x \notin 0..y
    OBVIOUS
  <2>3. <<0..y, 0..x>> \in (SUBSET Nat) \X (SUBSET Nat) /\ 0..y # 0..x
    BY <2>2
  <2>4. <<0..y, 0..x>> \in StrictSubsetOrdering(Nat)
    BY <2>2, <2>3 DEF StrictSubsetOrdering
  <2>. QED  BY <2>1, <2>4, <1>2, <1>3
<1>. QED  BY <1>4

\* The LPs of an epoch are a finite set, so they can be counted.
LEMMA AttachedFinite ==
    ASSUME NEW s, NEW id
    PROVE  /\ IsFiniteSet(AttachedTo(s, id))
           /\ Cardinality(AttachedTo(s, id)) \in Nat
<1>1. AttachedTo(s, id) \in SUBSET Users
  BY DEF AttachedTo
<1>. QED  BY <1>1, UsersFinite, FS_Subset, FS_CardinalityType

\* An epoch that holds an LP has a non-zero count.
LEMMA HolderCounted ==
    ASSUME NEW s, Inv(s), NEW u \in Users, s.lp[u].active
    PROVE  /\ s.lp[u].epoch \in EpochIds
           /\ s.epochs[s.lp[u].epoch].count \in Nat \ {0}
           /\ s.epochs[s.lp[u].epoch].live
<1>. DEFINE e == s.lp[u].epoch
<1>1. e \in EpochIds /\ s.epochs[e].count \in Nat
  BY DEF Inv, Storage, Lp, Epoch
<1>2. u \in AttachedTo(s, e)
  BY DEF AttachedTo
<1>3. Cardinality(AttachedTo(s, e)) # 0
  BY <1>2, AttachedFinite, FS_EmptySet
<1>4. s.epochs[e].count >= Cardinality(AttachedTo(s, e))
  BY <1>1 DEF Inv, Covered
<1>5. s.epochs[e].live
  BY <1>1 DEF Inv, Reachable, WindowLive
<1>. QED  BY <1>1, <1>3, <1>4, <1>5, AttachedFinite

-----------------------------------------------------------------------------
(* Moves and Same.                                                         *)

LEMMA MovesReflexive ==
    ASSUME NEW s \in Storage
    PROVE  Moves(s, s)
BY DEF Moves, Storage, EpochIds

LEMMA MovesTransitive ==
    ASSUME NEW s \in Storage, NEW r \in Storage, NEW t \in Storage,
           Moves(s, r), Moves(r, t)
    PROVE  Moves(s, t)
BY DEF Moves, Storage, EpochIds, Lp

\* A call that only touches what Same leaves free keeps the invariant.
LEMMA SameKeepsInv ==
    ASSUME NEW s, Inv(s), NEW r \in Storage, Same(s, r)
    PROVE  Inv(r) /\ Moves(s, r)
<1>1. Ordered(r) /\ WindowLive(r) /\ Window(r)
  BY DEF Inv, Same, Ordered, WindowLive, Window
<1>2. OutsideFree(r)
  BY DEF Inv, Same, OutsideFree, NoEpoch
<1>3. Reachable(r)
  BY DEF Inv, Same, Reachable
<1>4. Covered(r)
  <2>. SUFFICES ASSUME NEW id \in EpochIds
                PROVE  r.epochs[id].count >= Cardinality(AttachedTo(r, id))
    BY DEF Covered
  <2>1. AttachedTo(r, id) \in SUBSET AttachedTo(s, id)
    BY DEF AttachedTo, Same
  <2>2. Cardinality(AttachedTo(r, id)) <= Cardinality(AttachedTo(s, id))
    BY <2>1, AttachedFinite, FS_Subset
  <2>3. s.epochs[id].count >= Cardinality(AttachedTo(s, id))
    BY DEF Inv, Covered
  <2>4. r.epochs[id].count = s.epochs[id].count /\ r.epochs[id].count \in Nat
    BY DEF Same, Storage, Epoch
  <2>. QED  BY <2>2, <2>3, <2>4, AttachedFinite
<1>5. Moves(s, r)
  BY DEF Moves, Same, Inv, Storage, EpochIds
<1>. QED  BY <1>1, <1>2, <1>3, <1>4, <1>5 DEF Inv

-----------------------------------------------------------------------------
(* The operators that change neither pointers nor references.              *)

LEMMA Plus1Type ==
    ASSUME NEW n \in Counter
    PROVE  Plus1(n) \in Counter
BY BoundsAreNat DEF Plus1, Counter

LEMMA NoEpochType == NoEpoch \in Epoch
BY BoundsAreNat DEF NoEpoch, Epoch, Counter

LEMMA NoPositionType == NoPosition \in Lp
BY BoundsAreNat DEF NoPosition, Lp, Counter, EpochIds

LEMMA RevaluedKeeps ==
    ASSUME NEW s, Inv(s), NEW r \in Revalued(s)
    PROVE  Inv(r) /\ Moves(s, r)
<1>1. PICK W \in SUBSET Users :
        r = [s EXCEPT !.lp = [u \in Users |-> [s.lp[u] EXCEPT !.worth = u \in W]]]
  BY DEF Revalued
<1>2. \A u \in Users : [s.lp[u] EXCEPT !.worth = u \in W] \in Lp
  <2>. SUFFICES ASSUME NEW u \in Users
                PROVE  [s.lp[u] EXCEPT !.worth = u \in W] \in Lp
    OBVIOUS
  <2>. DEFINE b == u \in W
  <2>1. b \in BOOLEAN
    OBVIOUS
  <2>2. s.lp[u] \in Lp
    BY DEF Inv, Storage
  <2>. HIDE DEF b
  <2>3. [s.lp[u] EXCEPT !.worth = b] \in Lp
    BY <2>1, <2>2 DEF Lp
  <2>. QED  BY <2>3 DEF b
<1>3. r \in Storage
  BY <1>1, <1>2 DEF Inv, Storage
<1>4. Same(s, r)
  BY <1>1 DEF Same, Inv, Storage, Lp
<1>. QED  BY <1>3, <1>4, SameKeepsInv

LEMMA FoldUpdateKeeps ==
    ASSUME NEW s, Inv(s), NEW d \in BOOLEAN
    PROVE  LET r == [FoldUpdate(s) EXCEPT !.decayed = d]
           IN  Inv(r) /\ Moves(s, r)
<1>. DEFINE r == [FoldUpdate(s) EXCEPT !.decayed = d]
<1>1. \A id \in EpochIds :
        [s.epochs[id] EXCEPT !.m = Plus1(s.epochs[id].m)] \in Epoch
  BY Plus1Type DEF Inv, Storage, Epoch
<1>2. r \in Storage
  BY <1>1 DEF FoldUpdate, Inv, Storage
<1>3. Same(s, r)
  BY DEF Same, FoldUpdate, Receives, Inv, Storage, Epoch
<1>. QED  BY <1>2, <1>3, SameKeepsInv

LEMMA ApplyMatrixUpdateKeeps ==
    ASSUME NEW s, Inv(s), NEW r \in ApplyMatrixUpdate(s)
    PROVE  Inv(r) /\ Moves(s, r)
<1>1. PICK d \in BOOLEAN : r \in Revalued([FoldUpdate(s) EXCEPT !.decayed = d])
  BY DEF ApplyMatrixUpdate
<1>. DEFINE q == [FoldUpdate(s) EXCEPT !.decayed = d]
<1>2. Inv(q) /\ Moves(s, q)
  BY FoldUpdateKeeps
<1>3. Inv(r) /\ Moves(q, r)
  <2>. HIDE DEF q
  <2>1. r \in Revalued(q)
    BY <1>1 DEF q
  <2>. QED  BY <1>2, <2>1, RevaluedKeeps
<1>. HIDE DEF q
<1>. QED  BY <1>2, <1>3, MovesTransitive DEF Inv

LEMMA UpdateFGKeeps ==
    ASSUME NEW s, Inv(s)
    PROVE  Inv(UpdateFG(s)) /\ Moves(s, UpdateFG(s))
<1>. DEFINE r == UpdateFG(s)
<1>1. \A id \in EpochIds :
        [s.epochs[id] EXCEPT !.g = Plus1(s.epochs[id].g)] \in Epoch
  BY Plus1Type DEF Inv, Storage, Epoch
<1>2. r \in Storage
  BY <1>1 DEF UpdateFG, Inv, Storage
<1>3. Same(s, r)
  BY DEF Same, UpdateFG, Receives, Inv, Storage, Epoch
<1>. QED  BY <1>2, <1>3, SameKeepsInv

LEMMA RefreshKeeps ==
    ASSUME NEW s, Inv(s), NEW u \in Users
    PROVE  LET r == RefreshFundingSnapshot(s, u) IN Inv(r) /\ Moves(s, r)
<1>. DEFINE r == RefreshFundingSnapshot(s, u)
<1>1. s.epochs[s.lp[u].epoch].g \in Counter
  BY DEF Inv, Storage, Epoch, Lp
<1>2. r \in Storage
  BY <1>1 DEF RefreshFundingSnapshot, Inv, Storage, Lp
<1>3. Same(s, r)
  BY DEF Same, RefreshFundingSnapshot, Inv, Storage, Lp
<1>. QED  BY <1>2, <1>3, SameKeepsInv

LEMMA DebtKeeps ==
    ASSUME NEW s, Inv(s), NEW u \in Users, NEW d \in BOOLEAN
    PROVE  LET r == [s EXCEPT !.lp[u].debt = d] IN Inv(r) /\ Moves(s, r)
<1>. DEFINE r == [s EXCEPT !.lp[u].debt = d]
<1>1. r \in Storage
  BY DEF Inv, Storage, Lp
<1>2. Same(s, r)
  BY DEF Same, Inv, Storage, Lp
<1>. QED  BY <1>1, <1>2, SameKeepsInv

\* The cleared position may still have been counted: the count only covers.
LEMMA ClearPositionKeeps ==
    ASSUME NEW s, Inv(s), NEW u \in Users
    PROVE  LET r == ClearPosition(s, u) IN Inv(r) /\ Moves(s, r)
<1>. DEFINE r == ClearPosition(s, u)
<1>1. [NoPosition EXCEPT !.epoch = s.lp[u].epoch] \in Lp
  BY NoPositionType DEF Lp, Inv, Storage
<1>2. r \in Storage
  BY <1>1 DEF ClearPosition, Inv, Storage
<1>3. Same(s, r)
  BY DEF Same, ClearPosition, NoPosition, Inv, Storage, Lp
<1>. QED  BY <1>2, <1>3, SameKeepsInv

-----------------------------------------------------------------------------
(* Retiring, rolling, exiting and attaching.                               *)

\* The retiring loop stops inside the window, at an epoch it must keep or at
\* the current one, and passes only epochs it need not keep.
LEMMA FirstKeptExists ==
    ASSUME NEW s, Inv(s)
    PROVE  /\ FirstKept(s) \in EpochIds
           /\ s.oldest <= FirstKept(s) /\ FirstKept(s) <= s.current
           /\ FirstKept(s) = s.current \/ Keeps(s, FirstKept(s))
           /\ \A j \in EpochIds : s.oldest <= j /\ j < FirstKept(s) => ~Keeps(s, j)
<1>. DEFINE S == {id \in EpochIds : /\ s.oldest <= id /\ id <= s.current
                                    /\ id = s.current \/ Keeps(s, id)}
<1>1. S \in SUBSET Nat /\ S # {}
  BY DEF Inv, Storage, Ordered, EpochIds
<1>2. PICK x \in S : \A y \in S : x <= y
  BY <1>1, LeastElement
<1>3. \A j \in EpochIds : s.oldest <= j /\ j < x => ~Keeps(s, j)
  BY <1>2 DEF EpochIds, Inv, Storage
<1>4. \E id \in EpochIds :
        /\ s.oldest <= id /\ id <= s.current
        /\ id = s.current \/ Keeps(s, id)
        /\ \A j \in EpochIds : s.oldest <= j /\ j < id => ~Keeps(s, j)
  BY <1>2, <1>3
<1>. QED  BY <1>4 DEF FirstKept

LEMMA RetireKeeps ==
    ASSUME NEW s, Inv(s)
    PROVE  /\ Inv(Retire(s)) /\ Moves(s, Retire(s))
           /\ Retire(s).current = s.current
           /\ Retire(s).decayed = s.decayed
           /\ Retire(s).lp = s.lp
           /\ Retire(s).epochs[s.current] = s.epochs[s.current]
           /\ Undisturbed(s, Retire(s), {})
           /\ Held(Retire(s))
<1>. DEFINE stop == FirstKept(s)
            r == Retire(s)
<1>. s \in Storage
  BY DEF Inv
<1>1. /\ stop \in EpochIds
      /\ s.oldest <= stop /\ stop <= s.current
      /\ stop = s.current \/ Keeps(s, stop)
      /\ \A j \in EpochIds : s.oldest <= j /\ j < stop => ~Keeps(s, j)
  BY FirstKeptExists
<1>. HIDE DEF stop
<1>2. /\ r.current = s.current /\ r.oldest = stop /\ r.lp = s.lp
      /\ r.decayed = s.decayed /\ r.due = s.due
      /\ r.epochs = [id \in EpochIds |->
                        IF s.oldest <= id /\ id < stop /\ s.epochs[id].live
                        THEN NoEpoch
                        ELSE s.epochs[id]]
  BY DEF Retire, stop, Storage
<1>3. r \in Storage
  BY <1>1, NoEpochType DEF Retire, stop, Storage
<1>4. \A id \in EpochIds :
        r.epochs[id] = IF id < stop THEN NoEpoch ELSE s.epochs[id]
  BY <1>1, <1>2 DEF Inv, WindowLive, OutsideFree, EpochIds, Storage
<1>. HIDE DEF r
<1>5. Ordered(r)
  BY <1>1, <1>2 DEF Ordered
<1>6. WindowLive(r)
  BY <1>1, <1>2, <1>4 DEF WindowLive, Inv, NoEpoch, EpochIds, Storage
<1>7. OutsideFree(r)
  BY <1>1, <1>2, <1>4 DEF OutsideFree, Inv
<1>8. Reachable(r)
  <2>. SUFFICES ASSUME NEW u \in Users, r.lp[u].active
                PROVE  stop <= s.lp[u].epoch /\ s.lp[u].epoch <= s.current /\ s.lp[u].healthy
    BY <1>2 DEF Reachable
  <2>1. s.oldest <= s.lp[u].epoch /\ s.lp[u].epoch <= s.current /\ s.lp[u].healthy
    BY <1>2 DEF Inv, Reachable
  <2>2. s.lp[u].epoch \in EpochIds /\ Keeps(s, s.lp[u].epoch)
    BY <1>2, HolderCounted DEF Keeps
  <2>. QED  BY <1>1, <2>1, <2>2 DEF EpochIds
<1>9. Covered(r)
  <2>. SUFFICES ASSUME NEW id \in EpochIds
                PROVE  r.epochs[id].count >= Cardinality(AttachedTo(r, id))
    BY DEF Covered
  <2>1. AttachedTo(r, id) = AttachedTo(s, id)
    BY <1>2 DEF AttachedTo
  <2>2. CASE id < stop
    <3>1. AttachedTo(r, id) = {}
      <4>. SUFFICES ASSUME NEW u \in Users, r.lp[u].active, r.lp[u].epoch = id
                    PROVE  FALSE
        BY DEF AttachedTo
      <4>1. stop <= id
        BY <1>8, <1>2 DEF Reachable
      <4>. QED  BY <4>1, <2>2, <1>1 DEF EpochIds
    <3>. QED  BY <1>4, <2>2, <3>1, FS_EmptySet DEF NoEpoch
  <2>3. CASE ~(id < stop)
    BY <1>4, <2>1, <2>3 DEF Inv, Covered
  <2>. QED  BY <2>2, <2>3
<1>10. Window(r)
  <2>1. r.current - r.oldest <= MaxEpochs
    BY <1>1, <1>2, BoundsAreNat DEF Window, Inv, EpochIds, Storage
  <2>2. ASSUME r.current - r.oldest = MaxEpochs
        PROVE  \E id \in EpochIds : r.oldest <= id /\ id < r.current /\ r.epochs[id].count = 0
    <3>1. stop = s.oldest
      BY <2>2, <1>1, <1>2, BoundsAreNat DEF Window, Inv, EpochIds, Storage
    <3>2. PICK id \in EpochIds : s.oldest <= id /\ id < s.current /\ s.epochs[id].count = 0
      BY <2>2, <1>2, <3>1 DEF Window, Inv
    <3>3. r.epochs[id].count = 0
      BY <1>4, <3>2 DEF NoEpoch
    <3>. QED  BY <1>2, <3>1, <3>2, <3>3
  <2>. QED  BY <2>1, <2>2 DEF Window
<1>11. Moves(s, r)
  BY <1>1, <1>2 DEF Moves, EpochIds, Storage
<1>12. r.epochs[s.current] = s.epochs[s.current]
  BY <1>1, <1>4 DEF Storage, EpochIds
<1>13. Undisturbed(s, r, {})
  <2>1. ASSUME NEW v \in Users, Stays(s, r, v)
        PROVE  r.epochs[s.lp[v].epoch] = s.epochs[s.lp[v].epoch]
    <3>1. stop <= s.lp[v].epoch /\ s.lp[v].epoch \in EpochIds
      BY <1>2, <1>8, <2>1, HolderCounted DEF Reachable, Stays
    <3>. QED  BY <1>1, <1>4, <3>1 DEF EpochIds
  <2>. QED  BY <1>2, <2>1 DEF Undisturbed
<1>14. Held(r)
  <2>1. r.epochs[stop] = s.epochs[stop]
    BY <1>1, <1>4 DEF EpochIds
  <2>. QED  BY <1>1, <1>2, <2>1 DEF Held, Keeps
<1>. QED
  BY <1>2, <1>3, <1>5, <1>6, <1>7, <1>8, <1>9, <1>10, <1>11, <1>12, <1>13, <1>14 DEF Inv, r

\* The new epoch starts with no LP, so every part of the invariant extends to
\* it; the cap leaves room for it in the window.
LEMMA RollKeeps ==
    ASSUME NEW s, Inv(s), CanRoll(s)
    PROVE  /\ Inv(Roll(s)) /\ Moves(s, Roll(s))
           /\ ~Roll(s).decayed
           /\ Undisturbed(s, Roll(s), {})
<1>. DEFINE new == s.current + 1
            fresh == InitializeEpoch(NoEpoch)
            q == [s EXCEPT !.current = new,
                           !.epochs[new] = InitializeEpoch(s.epochs[new]),
                           !.decayed = FALSE]
<1>. s \in Storage
  BY DEF Inv
<1>1. new \in EpochIds /\ s.current < new
  BY BoundsAreNat DEF CanRoll, Storage, EpochIds
<1>2. s.epochs[new] = NoEpoch
  BY <1>1 DEF Inv, OutsideFree
<1>3. InitializeEpoch(s.epochs[new]) = fresh
  BY <1>2
<1>4. fresh \in Epoch /\ fresh.live /\ fresh.count = 0
  BY NoEpochType, BoundsAreNat DEF InitializeEpoch, NoEpoch, Epoch, Counter
<1>. HIDE DEF fresh
<1>5. q \in Storage
  BY <1>1, <1>3, <1>4 DEF Storage
<1>6. /\ q.current = new /\ q.oldest = s.oldest /\ q.lp = s.lp /\ q.decayed = FALSE
      /\ q.due = s.due
      /\ \A id \in EpochIds :
            q.epochs[id] = IF id = new THEN fresh ELSE s.epochs[id]
  BY <1>1, <1>3 DEF Storage
<1>. HIDE DEF q
<1>7. Ordered(q) /\ OutsideFree(q) /\ Reachable(q)
  BY <1>1, <1>6 DEF Inv, Ordered, OutsideFree, Reachable, Storage, EpochIds, Lp
<1>8. WindowLive(q)
  BY <1>1, <1>4, <1>6 DEF Inv, WindowLive, Ordered, Storage, EpochIds
<1>9. Covered(q)
  <2>. SUFFICES ASSUME NEW id \in EpochIds
                PROVE  q.epochs[id].count >= Cardinality(AttachedTo(q, id))
    BY DEF Covered
  <2>1. AttachedTo(q, id) = AttachedTo(s, id)
    BY <1>6 DEF AttachedTo
  <2>2. CASE id = new
    <3>1. AttachedTo(s, id) = {}
      BY <1>1, <2>2 DEF AttachedTo, Inv, Reachable, Storage, EpochIds, Lp
    <3>. QED  BY <1>4, <1>6, <2>1, <2>2, <3>1, FS_EmptySet
  <2>3. CASE id # new
    BY <1>6, <2>1, <2>3 DEF Inv, Covered
  <2>. QED  BY <2>2, <2>3
<1>10. Window(q)
  <2>1. s.current - s.oldest - (IF s.epochs[s.current].count = 0 THEN 1 ELSE 0) < MaxEpochs - 1
    BY BoundsAreNat DEF CanRoll, ActiveWindow, Storage, EpochIds
  <2>2. s.epochs[s.current].count = 0 => q.epochs[s.current].count = 0
    BY <1>1, <1>6 DEF Storage, EpochIds
  <2>3. q.current = s.current + 1 /\ q.oldest = s.oldest
    BY <1>6
  <2>4. /\ s.current \in Int /\ s.oldest \in Int /\ MaxEpochs \in Int
        /\ s.current \in EpochIds /\ s.oldest <= s.current
    BY BoundsAreNat DEF Inv, Ordered, Storage, EpochIds
  <2>5. q.current - q.oldest <= MaxEpochs
    BY <2>1, <2>3, <2>4
  <2>6. q.current - q.oldest = MaxEpochs => s.epochs[s.current].count = 0
    BY <2>1, <2>3, <2>4
  <2>. QED  BY <2>2, <2>3, <2>4, <2>5, <2>6 DEF Window
<1>11. Moves(s, q)
  BY <1>1, <1>6 DEF Moves, Storage, EpochIds
<1>12. Inv(q)
  BY <1>5, <1>7, <1>8, <1>9, <1>10 DEF Inv
<1>13. Roll(s) = Retire(q)
  BY DEF Roll, q
<1>14. Retire(q) \in Storage
  BY <1>12, RetireKeeps DEF Inv
<1>15. Undisturbed(s, q, {})
  <2>1. ASSUME NEW v \in Users, s.lp[v].active
        PROVE  q.epochs[s.lp[v].epoch] = s.epochs[s.lp[v].epoch]
    <3>1. s.lp[v].epoch # new /\ s.lp[v].epoch \in EpochIds
      BY <1>1, <2>1, HolderCounted DEF Inv, Reachable, Storage, EpochIds
    <3>. QED  BY <1>6, <3>1
  <2>. QED  BY <1>6, <2>1 DEF Undisturbed, Stays
<1>16. Undisturbed(q, Retire(q), {}) /\ Retire(q).lp = q.lp
  BY <1>12, RetireKeeps
<1>17. Undisturbed(s, Retire(q), {})
  BY <1>6, <1>15, <1>16 DEF Undisturbed, Stays
<1>. QED  BY <1>5, <1>6, <1>11, <1>12, <1>13, <1>14, <1>17, RetireKeeps, MovesTransitive

\* A full exit gives back the one reference the LP had.
LEMMA ExitKeeps ==
    ASSUME NEW s, Inv(s), NEW u \in Users
    PROVE  /\ Inv(Exit(s, u)) /\ Moves(s, Exit(s, u))
           /\ Undisturbed(s, Exit(s, u), {u})
           /\ ~Exit(s, u).lp[u].active
           /\ Held(Exit(s, u))
<1>. DEFINE old == s.lp[u].epoch
            less == IF s.lp[u].active THEN s.epochs[old].count - 1 ELSE s.epochs[old].count
            gone == [NoPosition EXCEPT !.debt = s.lp[u].debt]
            t == [s EXCEPT !.epochs[old].count =
                               IF s.lp[u].active THEN @ - 1 ELSE @,
                           !.lp[u] = gone]
<1>. s \in Storage
  BY DEF Inv
<1>1. old \in EpochIds /\ less \in Nat
  BY HolderCounted DEF Storage, Lp, Epoch
<1>2. gone \in Lp /\ ~gone.active
  BY NoPositionType DEF NoPosition, Storage, Lp
<1>3. t.epochs = [s.epochs EXCEPT ![old] = [s.epochs[old] EXCEPT !.count = less]]
  BY <1>1 DEF Storage, Epoch
<1>4. /\ t.lp = [s.lp EXCEPT ![u] = gone] /\ t.current = s.current /\ t.oldest = s.oldest
      /\ t.due = s.due
  BY DEF Storage
<1>5. t \in Storage
  <2>1. [s.epochs[old] EXCEPT !.count = less] \in Epoch
    BY <1>1 DEF Storage, Epoch
  <2>2. t.epochs \in [EpochIds -> Epoch] /\ t.lp \in [Users -> Lp]
    BY <1>2, <1>3, <1>4, <2>1 DEF Storage
  <2>3. t = [s EXCEPT !.epochs = t.epochs, !.lp = t.lp]
    BY DEF Storage
  <2>. HIDE DEF t
  <2>. QED  BY <2>2, <2>3 DEF Storage
<1>6. \A id \in EpochIds :
        /\ t.epochs[id].live = s.epochs[id].live
        /\ t.epochs[id].m = s.epochs[id].m /\ t.epochs[id].g = s.epochs[id].g
        /\ t.epochs[id].count = IF id = old THEN less ELSE s.epochs[id].count
        /\ ~s.epochs[id].live => t.epochs[id] = s.epochs[id]
  <2>1. s.epochs \in [EpochIds -> Epoch]
    BY DEF Storage
  <2>2. s.lp[u].active => s.epochs[old].live
    BY HolderCounted
  <2>3. ~s.epochs[old].live => less = s.epochs[old].count
    BY <2>2
  <2>. HIDE DEF t, gone, less, old
  <2>4. \A id \in EpochIds : id # old => t.epochs[id] = s.epochs[id]
    BY ONLY <1>1, <1>3, <2>1
  <2>5. /\ t.epochs[old].live = s.epochs[old].live
        /\ t.epochs[old].m = s.epochs[old].m /\ t.epochs[old].g = s.epochs[old].g
        /\ t.epochs[old].count = less
        /\ less = s.epochs[old].count => t.epochs[old] = s.epochs[old]
    BY ONLY <1>1, <1>3, <2>1 DEF Epoch
  <2>. QED  BY <2>3, <2>4, <2>5
<1>. HIDE DEF t, gone
<1>7. Ordered(t) /\ WindowLive(t) /\ Reachable(t)
  BY <1>2, <1>4, <1>6 DEF Inv, Ordered, WindowLive, Reachable, Storage
<1>8. OutsideFree(t)
  BY <1>4, <1>6 DEF Inv, OutsideFree, NoEpoch
<1>9. Covered(t)
  <2>. SUFFICES ASSUME NEW id \in EpochIds
                PROVE  t.epochs[id].count >= Cardinality(AttachedTo(t, id))
    BY DEF Covered
  <2>1. AttachedTo(t, id) = AttachedTo(s, id) \ {u}
    BY <1>2, <1>4 DEF AttachedTo, Storage
  <2>2. u \in AttachedTo(s, id) <=> s.lp[u].active /\ id = old
    BY DEF AttachedTo
  <2>3. Cardinality(AttachedTo(t, id)) =
            IF u \in AttachedTo(s, id) THEN Cardinality(AttachedTo(s, id)) - 1
                                       ELSE Cardinality(AttachedTo(s, id))
    BY <2>1, AttachedFinite, FS_RemoveElement
  <2>4. s.epochs[id].count >= Cardinality(AttachedTo(s, id)) /\ s.epochs[id].count \in Nat
    BY DEF Inv, Covered, Storage, Epoch
  <2>. QED  BY <1>6, <2>2, <2>3, <2>4, AttachedFinite
<1>10. Window(t)
  BY <1>1, <1>4, <1>6, HolderCounted DEF Window, Inv
<1>11. Moves(s, t)
  BY <1>2, <1>4 DEF Moves, Storage, EpochIds
<1>12. Inv(t)
  BY <1>5, <1>7, <1>8, <1>9, <1>10 DEF Inv
<1>13. Exit(s, u) = Retire(t)
  BY DEF Exit, t, gone
<1>14. Retire(t) \in Storage
  BY <1>12, RetireKeeps DEF Inv
<1>15. Undisturbed(s, Retire(t), {u}) /\ ~Retire(t).lp[u].active
  <2>1. Undisturbed(t, Retire(t), {}) /\ Retire(t).lp = t.lp
    BY <1>12, RetireKeeps
  <2>2. ~t.lp[u].active /\ \A v \in Users \ {u} : t.lp[v] = s.lp[v]
    BY <1>2, <1>4 DEF Storage
  <2>3. \A v \in Users : s.lp[v].epoch \in EpochIds
    BY DEF Storage, Lp
  <2>. DEFINE z == Retire(t)
  <2>4. z.lp = t.lp /\ z.due = s.due
    BY <1>4, <2>1 DEF Undisturbed
  <2>5. \A v \in Users : Stays(t, z, v)
          => LET e == t.lp[v].epoch
             IN  z.epochs[e].m = t.epochs[e].m /\ z.epochs[e].g = t.epochs[e].g
    BY <2>1 DEF Undisturbed
  <2>. HIDE DEF z
  <2>6. ASSUME NEW v \in Users, Stays(s, z, v)
        PROVE  LET e == s.lp[v].epoch
               IN  z.epochs[e].m = s.epochs[e].m /\ z.epochs[e].g = s.epochs[e].g
    <3>1. v # u /\ t.lp[v] = s.lp[v]
      BY <2>2, <2>4, <2>6 DEF Stays
    <3>2. Stays(t, z, v)
      BY <2>4, <2>6, <3>1 DEF Stays
    <3>. DEFINE e == s.lp[v].epoch
    <3>3. t.epochs[e].m = s.epochs[e].m /\ t.epochs[e].g = s.epochs[e].g
      BY <1>6, <2>3
    <3>4. z.epochs[e].m = t.epochs[e].m /\ z.epochs[e].g = t.epochs[e].g
      BY <2>5, <3>1, <3>2
    <3>. QED  BY <3>3, <3>4
  <2>7. Undisturbed(s, z, {u}) /\ ~z.lp[u].active
    BY <2>2, <2>4, <2>6 DEF Undisturbed
  <2>. QED  BY <2>7 DEF z
<1>16. Held(Retire(t))
  BY <1>12, RetireKeeps
<1>. QED  BY <1>5, <1>11, <1>12, <1>13, <1>14, <1>15, <1>16, RetireKeeps, MovesTransitive

\* Rolled or not, the current matrix is above the threshold afterwards.
LEMMA RollIfNeededKeeps ==
    ASSUME NEW s, Inv(s), s.decayed => CanRoll(s)
    PROVE  LET r == RollIfNeeded(s)
           IN  Inv(r) /\ Moves(s, r) /\ ~r.decayed /\ Undisturbed(s, r, {})
BY RollKeeps, MovesReflexive DEF RollIfNeeded, Inv, Undisturbed

\* The reference moves with the snapshot: the epochs of an LP that joins and
\* of one that changes epoch count it exactly once more and once less.
LEMMA AttachKeeps ==
    ASSUME NEW s, Inv(s), s.decayed => CanRoll(s), NEW u \in Users
    PROVE  /\ Inv(Attach(s, u)) /\ Moves(s, Attach(s, u))
           /\ Undisturbed(s, Attach(s, u), {u})
           /\ UpToDate(Attach(s, u), u)
           /\ Held(Attach(s, u))
<1>. DEFINE r == RollIfNeeded(s)
            c == r.epochs[r.current]
            old == r.lp[u].epoch
            lp == [active |-> TRUE, epoch |-> r.current, m |-> c.m, g |-> c.g,
                   healthy |-> ~r.decayed, worth |-> TRUE, debt |-> s.lp[u].debt]
            t == [MoveRef(r, u) EXCEPT !.lp[u] = lp]
            count(id) == r.epochs[id].count
                         - (IF id = old /\ r.lp[u].active THEN 1 ELSE 0)
                         + (IF id = r.current THEN 1 ELSE 0)
<1>1. Inv(r) /\ Moves(s, r) /\ ~r.decayed /\ Undisturbed(s, r, {})
  BY RollIfNeededKeeps
<1>2. s \in Storage /\ r \in Storage
  BY <1>1 DEF Inv
<1>3. s.lp[u].debt \in BOOLEAN
  BY <1>2 DEF Storage, Lp
<1>4. Attach(s, u) = Retire(t)
  BY DEF Attach
<1>. HIDE DEF r
<1>5. /\ lp \in Lp /\ lp.active /\ lp.epoch = r.current /\ lp.healthy
      /\ lp.m = r.epochs[r.current].m /\ lp.g = r.epochs[r.current].g
  <2>1. c \in Epoch /\ r.current \in EpochIds /\ r.decayed = FALSE
    BY <1>1, <1>2 DEF Storage
  <2>2. lp.m = r.epochs[r.current].m /\ lp.g = r.epochs[r.current].g
    OBVIOUS
  <2>. HIDE DEF c
  <2>3. lp \in Lp /\ lp.active /\ lp.epoch = r.current /\ lp.healthy
    BY <1>3, <2>1 DEF Lp, Epoch
  <2>. QED  BY <2>2, <2>3
<1>. HIDE DEF lp
<1>6. \A id \in EpochIds :
        /\ r.epochs[id].count \in Nat /\ count(id) \in Nat
        /\ id = old /\ r.lp[u].active => r.epochs[id].count # 0
  <2>1. r.lp[u].active => r.epochs[old].count \in Nat \ {0}
    BY <1>1, HolderCounted
  <2>2. \A id \in EpochIds : r.epochs[id].count \in Nat
    BY <1>2 DEF Storage, Epoch
  <2>. QED  BY <2>1, <2>2
<1>7. t.epochs = [id \in EpochIds |-> [r.epochs[id] EXCEPT !.count = count(id)]]
  BY <1>2 DEF MoveRef, Storage
<1>8. /\ t.lp = [r.lp EXCEPT ![u] = lp] /\ t.current = r.current /\ t.oldest = r.oldest
      /\ t.due = r.due
  BY <1>2 DEF MoveRef, Storage
<1>9. t \in Storage
  <2>1. \A id \in EpochIds : [r.epochs[id] EXCEPT !.count = count(id)] \in Epoch
    <3>. SUFFICES ASSUME NEW id \in EpochIds
                  PROVE  [r.epochs[id] EXCEPT !.count = count(id)] \in Epoch
      OBVIOUS
    <3>1. r.epochs[id] \in Epoch /\ count(id) \in Nat
      BY <1>2, <1>6 DEF Storage
    <3>. HIDE DEF count
    <3>. QED  BY <3>1 DEF Epoch
  <2>2. t = [r EXCEPT !.epochs = t.epochs, !.lp = t.lp]
    BY <1>2 DEF MoveRef, Storage
  <2>. HIDE DEF t
  <2>3. t.epochs \in [EpochIds -> Epoch]
    <3>. HIDE DEF count
    <3>. QED  BY <1>7, <2>1
  <2>4. t.lp \in [Users -> Lp]
    BY <1>2, <1>5, <1>8 DEF Storage
  <2>. QED  BY <1>2, <2>2, <2>3, <2>4 DEF Storage
<1>10. \A id \in EpochIds :
        /\ t.epochs[id].live = r.epochs[id].live
        /\ t.epochs[id].m = r.epochs[id].m /\ t.epochs[id].g = r.epochs[id].g
        /\ t.epochs[id].count = count(id)
  BY <1>2, <1>7 DEF Storage, Epoch
<1>11. \A id \in EpochIds : id < r.oldest \/ id > r.current => t.epochs[id] = r.epochs[id]
  <2>. SUFFICES ASSUME NEW id \in EpochIds, id < r.oldest \/ id > r.current
                PROVE  t.epochs[id] = r.epochs[id]
    OBVIOUS
  <2>1. id # r.current /\ r.current \in EpochIds
    BY <1>1, <1>2 DEF Inv, Ordered, Storage, EpochIds
  <2>2. ~(id = old /\ r.lp[u].active)
    BY <1>1, <1>2 DEF Inv, Reachable, Storage, EpochIds, Lp
  <2>3. count(id) = r.epochs[id].count
    BY <1>2, <2>1, <2>2 DEF Storage, Epoch
  <2>. HIDE DEF t, count
  <2>. QED  BY <1>2, <1>7, <2>3 DEF Storage, Epoch
<1>. HIDE DEF t
<1>12. Ordered(t) /\ WindowLive(t) /\ OutsideFree(t)
  BY <1>1, <1>8, <1>10, <1>11 DEF Inv, Ordered, WindowLive, OutsideFree
<1>13. Reachable(t)
  BY <1>1, <1>2, <1>5, <1>8 DEF Inv, Reachable, Ordered, Storage, EpochIds
<1>14. Covered(t)
  <2>. SUFFICES ASSUME NEW id \in EpochIds
                PROVE  t.epochs[id].count >= Cardinality(AttachedTo(t, id))
    BY DEF Covered
  <2>1. r.epochs[id].count >= Cardinality(AttachedTo(r, id)) /\ r.epochs[id].count \in Nat
    BY <1>1, <1>2 DEF Inv, Covered, Storage, Epoch
  <2>2. u \in AttachedTo(r, id) <=> r.lp[u].active /\ id = old
    BY DEF AttachedTo
  <2>3. CASE id = r.current
    <3>1. AttachedTo(t, id) = AttachedTo(r, id) \cup {u}
      BY <1>2, <1>5, <1>8, <2>3 DEF AttachedTo, Storage
    <3>2. Cardinality(AttachedTo(t, id)) =
            IF u \in AttachedTo(r, id) THEN Cardinality(AttachedTo(r, id))
                                       ELSE Cardinality(AttachedTo(r, id)) + 1
      BY <3>1, AttachedFinite, FS_AddElement
    <3>. QED  BY <1>10, <2>1, <2>2, <2>3, <3>2, AttachedFinite
  <2>4. CASE id # r.current
    <3>1. AttachedTo(t, id) = AttachedTo(r, id) \ {u}
      BY <1>2, <1>5, <1>8, <2>4 DEF AttachedTo, Storage
    <3>2. Cardinality(AttachedTo(t, id)) =
            IF u \in AttachedTo(r, id) THEN Cardinality(AttachedTo(r, id)) - 1
                                       ELSE Cardinality(AttachedTo(r, id))
      BY <3>1, AttachedFinite, FS_RemoveElement
    <3>. QED  BY <1>10, <2>1, <2>2, <2>4, <3>2, AttachedFinite
  <2>. QED  BY <2>3, <2>4
<1>15. Window(t)
  <2>1. ASSUME NEW id \in EpochIds, id < r.current, r.epochs[id].count = 0
        PROVE  t.epochs[id].count = 0
    <3>1. ~(id = old /\ r.lp[u].active)
      BY <1>6, <2>1
    <3>2. id # r.current
      BY <1>2, <2>1 DEF Storage, EpochIds
    <3>. QED  BY <1>10, <2>1, <3>1, <3>2
  <2>. QED  BY <1>1, <1>8, <2>1 DEF Window, Inv
<1>16. Moves(r, t)
  BY <1>2, <1>5, <1>8 DEF Moves, Storage, EpochIds
<1>17. Inv(t)
  BY <1>9, <1>12, <1>13, <1>14, <1>15 DEF Inv
<1>18. Retire(t) \in Storage /\ Inv(Retire(t)) /\ Moves(t, Retire(t))
  BY <1>17, RetireKeeps DEF Inv
<1>19. Moves(r, Retire(t))
  BY <1>2, <1>9, <1>16, <1>18, MovesTransitive
<1>20. Moves(s, Retire(t))
  BY <1>1, <1>2, <1>18, <1>19, MovesTransitive
<1>21. /\ Retire(t).lp = t.lp /\ Retire(t).epochs[t.current] = t.epochs[t.current]
       /\ Undisturbed(t, Retire(t), {})
  BY <1>17, RetireKeeps
<1>22. /\ \A v \in Users \ {u} : t.lp[v] = s.lp[v]
       /\ \A v \in Users : r.lp[v] = s.lp[v] /\ s.lp[v].epoch \in EpochIds
  BY <1>1, <1>2, <1>8 DEF Undisturbed, Storage, Lp
<1>23. Undisturbed(s, Retire(t), {u})
  <2>. DEFINE z == Retire(t)
  <2>1. z.lp = t.lp /\ z.due = s.due
    BY <1>1, <1>8, <1>21 DEF Undisturbed
  <2>2. /\ \A v \in Users : Stays(t, z, v)
            => LET e == t.lp[v].epoch
               IN  z.epochs[e].m = t.epochs[e].m /\ z.epochs[e].g = t.epochs[e].g
        /\ \A v \in Users : Stays(s, r, v)
            => LET e == s.lp[v].epoch
               IN  r.epochs[e].m = s.epochs[e].m /\ r.epochs[e].g = s.epochs[e].g
    BY <1>1, <1>21 DEF Undisturbed
  <2>. HIDE DEF z
  <2>3. ASSUME NEW v \in Users, Stays(s, z, v)
        PROVE  LET e == s.lp[v].epoch
               IN  z.epochs[e].m = s.epochs[e].m /\ z.epochs[e].g = s.epochs[e].g
    <3>1. Stays(s, r, v) /\ Stays(t, z, v)
      BY <1>22, <2>1, <2>3 DEF Stays
    <3>2. t.lp[v].epoch = s.lp[v].epoch
      BY <2>1, <2>3 DEF Stays
    <3>. DEFINE e == s.lp[v].epoch
    <3>3. e \in EpochIds
      BY <1>22
    <3>4. z.epochs[e].m = t.epochs[e].m /\ z.epochs[e].g = t.epochs[e].g
      BY <2>2, <3>1, <3>2
    <3>5. t.epochs[e].m = r.epochs[e].m /\ t.epochs[e].g = r.epochs[e].g
      BY <1>10, <3>3
    <3>6. r.epochs[e].m = s.epochs[e].m /\ r.epochs[e].g = s.epochs[e].g
      BY <2>2, <3>1
    <3>. QED  BY <3>4, <3>5, <3>6
  <2>4. Undisturbed(s, z, {u})
    BY <1>22, <2>1, <2>3 DEF Undisturbed
  <2>. QED  BY <2>4 DEF z
<1>24. UpToDate(Retire(t), u)
  <2>1. t.lp[u] = lp /\ r.current \in EpochIds
    BY <1>2, <1>8 DEF Storage
  <2>. QED  BY <1>5, <1>8, <1>10, <1>21, <2>1 DEF UpToDate
<1>25. Held(Retire(t))
  BY <1>17, RetireKeeps
<1>. QED  BY <1>4, <1>18, <1>20, <1>23, <1>24, <1>25

LEMMA UpdateSnapshotsKeeps ==
    ASSUME NEW s, Inv(s), NEW u \in Users, NEW keep \in BOOLEAN, CanSnapshot(s, keep)
    PROVE  LET r == UpdateSnapshots(s, u, keep) IN Inv(r) /\ Moves(s, r)
BY AttachKeeps, ExitKeeps DEF UpdateSnapshots, CanSnapshot

LEMMA SettleKeeps ==
    ASSUME NEW s, Inv(s), NEW u \in Users, CanSettle(s, u)
    PROVE  Inv(Settle(s, u)) /\ Moves(s, Settle(s, u))
<1>1. Recovered(s, u) \in BOOLEAN
  BY DEF Recovered, Inv, Storage, Lp, Epoch
<1>. QED  BY <1>1, UpdateSnapshotsKeeps DEF Settle, CanSettle

-----------------------------------------------------------------------------
(* Sequences of operators.                                                 *)

\* r is where a run of operators from s may have got to.
Follows(s, r) == Inv(r) /\ Moves(s, r)

LEMMA FollowsReflexive ==
    ASSUME NEW s, Inv(s)
    PROVE  Follows(s, s)
BY MovesReflexive DEF Follows, Inv

LEMMA FollowsTransitive ==
    ASSUME NEW s, Inv(s), NEW r, Follows(s, r), NEW t, Follows(r, t)
    PROVE  Follows(s, t)
BY MovesTransitive DEF Follows, Inv

LEMMA DistributeFeeFollows ==
    ASSUME NEW s, Inv(s), NEW r \in DistributeFee(s)
    PROVE  Follows(s, r)
BY ApplyMatrixUpdateKeeps, RevaluedKeeps DEF DistributeFee, Follows

\* The determinant, and so the need to roll, is the same after the accrual.
LEMMA UpdateFGFollows ==
    ASSUME NEW s, Inv(s)
    PROVE  /\ Follows(s, UpdateFG(s))
           /\ \A keep \in BOOLEAN : CanSnapshot(s, keep) => CanSnapshot(UpdateFG(s), keep)
           /\ \A u \in Users : CanSettle(s, u) => CanSettle(UpdateFG(s), u)
<1>. DEFINE r == UpdateFG(s)
<1>1. s \in Storage /\ Follows(s, r)
  BY UpdateFGKeeps DEF Follows, Inv
<1>2. r.current = s.current /\ r.oldest = s.oldest /\ r.decayed = s.decayed /\ r.lp = s.lp
  BY <1>1 DEF UpdateFG, Storage
<1>3. \A id \in EpochIds :
        r.epochs[id].count = s.epochs[id].count /\ r.epochs[id].live = s.epochs[id].live
  BY <1>1 DEF UpdateFG, Storage, Epoch
<1>. HIDE DEF r
<1>4. CanRoll(r) <=> CanRoll(s)
  BY <1>1, <1>2, <1>3 DEF CanRoll, ActiveWindow, Storage
<1>5. \A u \in Users : Recovered(r, u) <=> Recovered(s, u)
  BY <1>1, <1>2, <1>3 DEF Recovered, Storage, Lp
<1>. QED  BY <1>1, <1>2, <1>4, <1>5 DEF CanSnapshot, CanSettle, r

LEMMA RemoveFollows ==
    ASSUME NEW s, Inv(s), NEW u \in Users, NEW keep \in BOOLEAN, CanSnapshot(s, keep),
           NEW r \in Remove(s, u, keep)
    PROVE  Follows(s, r)
<1>. DEFINE a == UpdateFG(s)
            b == UpdateSnapshots(a, u, keep)
<1>1. Follows(s, a) /\ CanSnapshot(a, keep)
  BY UpdateFGFollows
<1>2. Follows(a, b)
  BY <1>1, UpdateSnapshotsKeeps DEF Follows
<1>3. PICK c \in DistributeFee(b), owes \in BOOLEAN :
        r = [c EXCEPT !.lp[u].debt = s.lp[u].debt /\ owes]
  BY DEF Remove
<1>. HIDE DEF a, b
<1>4. Follows(b, c)
  BY <1>2, <1>3, DistributeFeeFollows DEF Follows
<1>5. (s.lp[u].debt /\ owes) \in BOOLEAN
  OBVIOUS
<1>6. Follows(c, r)
  BY <1>3, <1>4, <1>5, DebtKeeps DEF Follows
<1>7. Follows(s, b)
  BY <1>1, <1>2, FollowsTransitive
<1>8. Follows(s, c)
  BY <1>4, <1>7, FollowsTransitive DEF Follows
<1>. QED  BY <1>6, <1>8, FollowsTransitive DEF Follows

LEMMA TradeFollows ==
    ASSUME NEW s, Inv(s), NEW u \in Users, NEW r \in Trade(s, u)
    PROVE  Follows(s, r)
<1>. DEFINE a == UpdateFG(s)
            b == RefreshFundingSnapshot(a, u)
<1>1. Follows(s, a)
  BY UpdateFGFollows
<1>2. Follows(a, b)
  BY <1>1, RefreshKeeps DEF Follows
<1>3. r \in ApplyMatrixUpdate(b)
  BY DEF Trade
<1>. HIDE DEF a, b
<1>4. Follows(b, r)
  BY <1>2, <1>3, ApplyMatrixUpdateKeeps DEF Follows
<1>5. Follows(s, b)
  BY <1>1, <1>2, FollowsTransitive
<1>. QED  BY <1>4, <1>5, FollowsTransitive DEF Follows

LEMMA CloseFollows ==
    ASSUME NEW s, Inv(s), NEW u \in Users, NEW r \in Close(s, u)
    PROVE  Follows(s, r)
<1>1. PICK a \in Withdrawn(s, u) : r \in {ClearPosition(a, u)} \cup Trade(ClearPosition(a, u), u)
  BY DEF Close
<1>. DEFINE b == ClearPosition(a, u)
<1>2. Follows(s, a)
  BY <1>1, RemoveFollows, FollowsReflexive DEF Withdrawn, CanSnapshot
<1>3. Follows(a, b)
  BY <1>2, ClearPositionKeeps DEF Follows
<1>4. r \in {b} \cup Trade(b, u)
  BY <1>1
<1>. HIDE DEF b
<1>5. Follows(b, r)
  BY <1>3, <1>4, TradeFollows, FollowsReflexive DEF Follows
<1>6. Follows(s, b)
  BY <1>2, <1>3, FollowsTransitive
<1>. QED  BY <1>5, <1>6, FollowsTransitive DEF Follows

LEMMA PulledFollows ==
    ASSUME NEW s, Inv(s), NEW u \in Users, NEW full \in BOOLEAN, NEW r \in Pulled(s, u, full)
    PROVE  Follows(s, r)
<1>1. CASE ~Recovered(s, u)
  BY <1>1, FollowsReflexive DEF Pulled
<1>2. CASE Recovered(s, u) /\ full
  BY <1>2, RemoveFollows DEF Pulled, CanSnapshot
<1>3. CASE Recovered(s, u) /\ ~full
  <2>1. r = s \/ \E keep \in BOOLEAN : CanSnapshot(s, keep) /\ r \in Remove(s, u, keep)
    BY <1>3 DEF Pulled
  <2>. QED  BY <2>1, RemoveFollows, FollowsReflexive
<1>. QED  BY <1>1, <1>2, <1>3

-----------------------------------------------------------------------------
(* The calls.                                                              *)

LEMMA InitInv == Init => Inv(eng)
<1>. SUFFICES ASSUME Init
              PROVE  Inv(eng)
  OBVIOUS
<1>. DEFINE first == InitializeEpoch(NoEpoch)
<1>1. first \in Epoch /\ first.live /\ first.count = 0
  BY NoEpochType, BoundsAreNat DEF InitializeEpoch, NoEpoch, Epoch, Counter
<1>. HIDE DEF first
<1>2. /\ eng.current = 0 /\ eng.oldest = 0 /\ eng.decayed = FALSE /\ eng.due = TRUE
      /\ eng.epochs = [id \in EpochIds |-> IF id = 0 THEN first ELSE NoEpoch]
      /\ eng.lp = [u \in Users |-> NoPosition]
  BY DEF Init, first
<1>3. 0 \in EpochIds /\ ~NoEpoch.live /\ NoEpoch.count = 0 /\ ~NoPosition.active
  BY BoundsAreNat DEF EpochIds, NoEpoch, NoPosition
<1>4. eng \in Storage
  BY <1>1, <1>3, NoEpochType, NoPositionType DEF Init, Storage, first
<1>5. Ordered(eng) /\ WindowLive(eng) /\ OutsideFree(eng) /\ Reachable(eng) /\ Window(eng)
  BY <1>1, <1>2, <1>3, BoundsAreNat
     DEF Ordered, WindowLive, OutsideFree, Reachable, Window, EpochIds
<1>6. Covered(eng)
  <2>1. \A id \in EpochIds : AttachedTo(eng, id) = {} /\ eng.epochs[id].count = 0
    BY <1>1, <1>2, <1>3 DEF AttachedTo
  <2>. QED  BY <2>1, FS_EmptySet DEF Covered
<1>. QED  BY <1>4, <1>5, <1>6 DEF Inv

LEMMA AddLiquidityFollows ==
    ASSUME Inv(eng), NEW u \in Users, AddLiquidity(u)
    PROVE  Follows(eng, eng')
<1>1. PICK s \in DistributeFee(UpdateFG(eng)), keep \in BOOLEAN :
        /\ CanSnapshot(s, keep)
        /\ eng' = [UpdateSnapshots(s, u, keep) EXCEPT !.lp[u].debt = TRUE]
  BY DEF AddLiquidity
<1>. DEFINE a == UpdateFG(eng)
            b == UpdateSnapshots(s, u, keep)
<1>2. Follows(eng, a)
  BY UpdateFGFollows
<1>3. Follows(a, s)
  BY <1>1, <1>2, DistributeFeeFollows DEF Follows
<1>4. Follows(s, b)
  BY <1>1, <1>3, UpdateSnapshotsKeeps DEF Follows
<1>5. eng' = [b EXCEPT !.lp[u].debt = TRUE]
  BY <1>1
<1>. HIDE DEF a, b
<1>6. Follows(b, eng')
  BY <1>4, <1>5, DebtKeeps DEF Follows
<1>7. Follows(eng, s)
  BY <1>2, <1>3, FollowsTransitive
<1>8. Follows(eng, b)
  BY <1>4, <1>7, FollowsTransitive DEF Follows
<1>. QED  BY <1>6, <1>8, FollowsTransitive DEF Follows

LEMMA SettleAfterAccrualFollows ==
    ASSUME Inv(eng), NEW u \in Users, CanSettle(eng, u), eng' = Settle(UpdateFG(eng), u)
    PROVE  Follows(eng, eng')
<1>1. Follows(eng, UpdateFG(eng)) /\ CanSettle(UpdateFG(eng), u)
  BY UpdateFGFollows
<1>2. Follows(UpdateFG(eng), eng')
  BY <1>1, SettleKeeps DEF Follows
<1>. QED  BY <1>1, <1>2, FollowsTransitive

LEMMA LiquidateFollows ==
    ASSUME Inv(eng), NEW l \in Users, NEW u \in Users, Liquidate(l, u)
    PROVE  Follows(eng, eng')
<1>. DEFINE s1 == UpdateFG(eng)
            s2 == Settle(s1, l)
            s3 == Settle(s2, u)
<1>1. CanSettle(s1, l) /\ CanSettle(s2, u)
  BY DEF Liquidate
<1>2. \/ eng' \in Pulled(s3, u, FALSE)
      \/ \E s4 \in Pulled(s3, u, TRUE) : eng' \in Close(s4, u)
  BY DEF Liquidate
<1>3. Follows(eng, s1)
  BY UpdateFGFollows
<1>. HIDE DEF s1
<1>4. Follows(s1, s2)
  BY <1>1, <1>3, SettleKeeps DEF Follows
<1>. HIDE DEF s2
<1>5. Follows(s2, s3)
  BY <1>1, <1>4, SettleKeeps DEF Follows
<1>. HIDE DEF s3
<1>6. Follows(eng, s3)
  BY <1>3, <1>4, <1>5, FollowsTransitive DEF Follows
<1>7. Follows(s3, eng')
  <2>1. CASE eng' \in Pulled(s3, u, FALSE)
    BY <1>6, <2>1, PulledFollows DEF Follows
  <2>2. CASE \E s4 \in Pulled(s3, u, TRUE) : eng' \in Close(s4, u)
    <3>1. PICK s4 \in Pulled(s3, u, TRUE) : eng' \in Close(s4, u)
      BY <2>2
    <3>2. Follows(s3, s4)
      BY <1>6, <3>1, PulledFollows DEF Follows
    <3>3. Follows(s4, eng')
      BY <3>1, <3>2, CloseFollows DEF Follows
    <3>. QED  BY <1>6, <3>2, <3>3, FollowsTransitive DEF Follows
  <2>. QED  BY <1>2, <2>1, <2>2
<1>. QED  BY <1>6, <1>7, FollowsTransitive DEF Follows

\* Every call keeps the invariant and only advances epochs.
LEMMA NextFollows ==
    ASSUME Inv(eng), [Next]_eng
    PROVE  Follows(eng, eng')
<1>1. CASE NewBlock
  <2>1. eng' \in Storage /\ Same(eng, eng')
    BY <1>1 DEF NewBlock, Inv, Storage, Same
  <2>. QED  BY <2>1, SameKeepsInv DEF Follows
<1>2. CASE UpdateFGKeeper
  BY <1>2, UpdateFGFollows DEF UpdateFGKeeper
<1>3. ASSUME NEW u \in Users, ExecuteTrade(u)
      PROVE  Follows(eng, eng')
  BY <1>3, TradeFollows DEF ExecuteTrade
<1>4. ASSUME NEW u \in Users, AddLiquidity(u)
      PROVE  Follows(eng, eng')
  BY <1>4, AddLiquidityFollows
<1>5. ASSUME NEW u \in Users, RemoveLiquidity(u)
      PROVE  Follows(eng, eng')
  BY <1>5, RemoveFollows DEF RemoveLiquidity
<1>6. ASSUME NEW u \in Users, RealizePnL(u)
      PROVE  Follows(eng, eng')
  BY <1>6, SettleAfterAccrualFollows DEF RealizePnL
<1>7. ASSUME NEW u \in Users, UpdateLpSnapshot(u)
      PROVE  Follows(eng, eng')
  BY <1>7, SettleAfterAccrualFollows DEF UpdateLpSnapshot
<1>8. ASSUME NEW u \in Users, CloseAndWithdraw(u)
      PROVE  Follows(eng, eng')
  BY <1>8, CloseFollows DEF CloseAndWithdraw
<1>9. ASSUME NEW l \in Users, NEW u \in Users, Liquidate(l, u)
      PROVE  Follows(eng, eng')
  BY <1>9, LiquidateFollows
<1>10. CASE UNCHANGED eng
  BY <1>10, FollowsReflexive
<1>. QED  BY <1>1, <1>2, <1>3, <1>4, <1>5, <1>6, <1>7, <1>8, <1>9, <1>10 DEF Next

-----------------------------------------------------------------------------
(* The theorems.                                                           *)

\* The inductive invariant holds in every reachable state.
THEOREM Invariance == Spec => []Inv(eng)
<1>1. Inv(eng) /\ [Next]_eng => Inv(eng)'
  BY NextFollows DEF Follows
<1>. QED  BY InitInv, <1>1, PTL DEF Spec

\* Every call leaves a storage of the right type: in particular no reference
\* count ever goes below zero, where the unsigned subtraction of
\* decrement_active_lp_count would underflow.
THEOREM TypeCorrect == Spec => []TypeOK
<1>1. Inv(eng) => TypeOK
  BY DEF Inv, TypeOK
<1>. QED  BY <1>1, Invariance, PTL

\* No LP is ever stranded outside the window the update loops walk.
THEOREM NoLpStranded == Spec => []SnapshotsReachable
<1>1. Inv(eng) => SnapshotsReachable
  <2>. SUFFICES ASSUME Inv(eng), NEW u \in Users, eng.lp[u].active
                PROVE  Receives(eng, eng.lp[u].epoch)
    BY DEF SnapshotsReachable
  <2>1. /\ eng.lp[u].epoch \in EpochIds
        /\ eng.epochs[eng.lp[u].epoch].count # 0
        /\ eng.epochs[eng.lp[u].epoch].live
    BY HolderCounted
  <2>. QED  BY <2>1 DEF Receives, Inv, Reachable
<1>. QED  BY <1>1, Invariance, PTL

\* A reference count never falls short of the LPs attached to its epoch.
THEOREM CountsCover == Spec => []RefcountCovers
<1>1. Inv(eng) => RefcountCovers
  BY DEF Inv, Covered, RefcountCovers
<1>. QED  BY <1>1, Invariance, PTL

\* No snapshot is taken from a matrix that has decayed.
THEOREM WellConditioned == Spec => []SnapshotsWellConditioned
<1>1. Inv(eng) => SnapshotsWellConditioned
  BY DEF Inv, Reachable, SnapshotsWellConditioned
<1>. QED  BY <1>1, Invariance, PTL

\* Nothing outside the window holds a matrix or a reference.
THEOREM OutsideIsFree == Spec => []OutsideWindowFree
<1>1. Inv(eng) => OutsideWindowFree
  BY DEF Inv, OutsideFree, OutsideWindowFree
<1>. QED  BY <1>1, Invariance, PTL

\* The loops over the window visit at most one epoch more than the cap, and
\* update no more epochs than the cap.
THEOREM LoopsBounded == Spec => []WindowBounded
<1>1. Inv(eng) => WindowBounded
  <2>. SUFFICES ASSUME Inv(eng)
                PROVE  WindowBounded
    OBVIOUS
  <2>. DEFINE R == {id \in EpochIds : Receives(eng, id)}
              W == eng.oldest..eng.current
              n == eng.current - eng.oldest
  <2>1. /\ eng.oldest \in Int /\ eng.current \in Int /\ eng.oldest <= eng.current
        /\ MaxEpochs \in Int /\ n <= MaxEpochs
    BY BoundsAreNat DEF Inv, Storage, Ordered, Window, EpochIds
  <2>2. IsFiniteSet(W) /\ Cardinality(W) = n + 1
    BY <2>1, FS_Interval
  <2>3. R \subseteq W
    BY DEF Receives, EpochIds
  <2>4. CASE n = MaxEpochs
    <3>1. PICK id \in EpochIds :
            eng.oldest <= id /\ id < eng.current /\ eng.epochs[id].count = 0
      BY <2>4 DEF Inv, Window
    <3>2. id \notin R /\ id \in W
      BY <2>1, <3>1 DEF Receives, EpochIds
    <3>. HIDE DEF R, W
    <3>3. IsFiniteSet(W \ {id}) /\ Cardinality(W \ {id}) = n
      BY <2>1, <2>2, <3>2, FS_RemoveElement
    <3>4. Cardinality(R) <= Cardinality(W \ {id})
      BY <2>3, <3>2, <3>3, FS_Subset
    <3>. QED  BY <2>1, <2>4, <3>3, <3>4 DEF WindowBounded, R
  <2>5. CASE n < MaxEpochs
    <3>. HIDE DEF R, W
    <3>1. IsFiniteSet(R) /\ Cardinality(R) <= Cardinality(W)
      BY <2>2, <2>3, FS_Subset
    <3>2. Cardinality(R) <= MaxEpochs
      BY <2>1, <2>2, <2>5, <3>1, FS_CardinalityType
    <3>. QED  BY <2>1, <3>2 DEF WindowBounded, R
  <2>. QED  BY <2>1, <2>4, <2>5
<1>. QED  BY <1>1, Invariance, PTL

\* Neither the window nor an LP ever goes back to an older epoch.
THEOREM OnlyAdvance == Spec => EpochsOnlyAdvance
<1>. DEFINE Advance ==
        /\ eng.oldest <= eng'.oldest /\ eng.current <= eng'.current
        /\ \A u \in Users : eng.lp[u].active /\ eng'.lp[u].active
                             => eng.lp[u].epoch <= eng'.lp[u].epoch
<1>1. Inv(eng) /\ [Next]_eng => [Advance]_eng
  <2>. SUFFICES ASSUME Inv(eng), [Next]_eng
                PROVE  Advance
    OBVIOUS
  <2>1. Moves(eng, eng') /\ Inv(eng')
    BY NextFollows DEF Follows
  <2>. QED  BY <2>1 DEF Moves, Inv, Reachable, Storage, Lp, EpochIds
<1>. QED  BY <1>1, Invariance, PTL DEF Spec, EpochsOnlyAdvance

-----------------------------------------------------------------------------
(* What can be retired is retired.                                         *)

\* s and r have the same pointers and references.
SameRefs(s, r) ==
    /\ r.oldest = s.oldest /\ r.current = s.current
    /\ \A id \in EpochIds : /\ r.epochs[id].live = s.epochs[id].live
                           /\ r.epochs[id].count = s.epochs[id].count

\* The operators that touch neither leave the window held.
LEMMA SameRefsHold ==
    ASSUME NEW s, Inv(s), Held(s), NEW r, SameRefs(s, r)
    PROVE  Held(r)
BY DEF Held, Keeps, SameRefs, Inv, Storage

\* A new pool, or an update of the matrices, moves no reference.
LEMMA UpdatesHold ==
    ASSUME NEW s, Inv(s), Held(s)
    PROVE  /\ Held(UpdateFG(s))
           /\ \A r \in Revalued(s) : Held(r)
           /\ \A r \in ApplyMatrixUpdate(s) : Held(r)
           /\ \A r \in DistributeFee(s) : Held(r)
<1>. s \in Storage
  BY DEF Inv
<1>1. Held(UpdateFG(s))
  <2>1. SameRefs(s, UpdateFG(s))
    BY DEF SameRefs, UpdateFG, Storage, Epoch
  <2>. QED  BY <2>1, SameRefsHold
<1>2. ASSUME NEW q \in Storage, SameRefs(s, q), NEW r \in Revalued(q)
      PROVE  Held(r)
  <2>1. SameRefs(q, r)
    BY <1>2 DEF SameRefs, Revalued, Storage
  <2>2. SameRefs(s, r)
    BY <1>2, <2>1 DEF SameRefs
  <2>. QED  BY <2>2, SameRefsHold
<1>3. SameRefs(s, s)
  BY DEF SameRefs
<1>4. ASSUME NEW r \in ApplyMatrixUpdate(s)
      PROVE  Held(r)
  <2>1. PICK d \in BOOLEAN : r \in Revalued([FoldUpdate(s) EXCEPT !.decayed = d])
    BY DEF ApplyMatrixUpdate
  <2>. DEFINE q == [FoldUpdate(s) EXCEPT !.decayed = d]
  <2>2. q \in Storage
    BY FoldUpdateKeeps DEF Inv
  <2>3. SameRefs(s, q)
    BY DEF SameRefs, FoldUpdate, Storage, Epoch
  <2>4. r \in Revalued(q)
    BY <2>1
  <2>. HIDE DEF q
  <2>. QED  BY <1>2, <2>2, <2>3, <2>4
<1>. QED  BY <1>1, <1>2, <1>3, <1>4 DEF DistributeFee

\* A snapshot ends with a retirement, and so does an exit.
LEMMA SnapshotsHold ==
    ASSUME NEW s, Inv(s), NEW u \in Users, NEW keep \in BOOLEAN, CanSnapshot(s, keep)
    PROVE  Held(UpdateSnapshots(s, u, keep))
BY AttachKeeps, ExitKeeps DEF UpdateSnapshots, CanSnapshot

\* So does the settlement of a call.
LEMMA SettleHolds ==
    ASSUME NEW s, Inv(s), NEW u \in Users, CanSettle(s, u)
    PROVE  Held(Settle(s, u))
<1>1. Recovered(s, u) \in BOOLEAN
  BY DEF Recovered, Inv, Storage, Lp, Epoch
<1>. QED  BY <1>1, SnapshotsHold DEF Settle, CanSettle

\* The debt of a position is none of the epochs' business.
LEMMA DebtHolds ==
    ASSUME NEW s, Inv(s), Held(s), NEW u \in Users, NEW d \in BOOLEAN
    PROVE  Held([s EXCEPT !.lp[u].debt = d])
<1>1. SameRefs(s, [s EXCEPT !.lp[u].debt = d])
  BY DEF SameRefs, Inv, Storage
<1>. QED  BY <1>1, SameRefsHold

\* A withdrawal snapshots what is left.
LEMMA RemoveHolds ==
    ASSUME NEW s, Inv(s), NEW u \in Users, NEW keep \in BOOLEAN, CanSnapshot(s, keep),
           NEW r \in Remove(s, u, keep)
    PROVE  Held(r)
<1>. DEFINE a == UpdateFG(s)
            b == UpdateSnapshots(a, u, keep)
<1>1. Inv(a) /\ CanSnapshot(a, keep)
  BY UpdateFGFollows DEF Follows
<1>2. Inv(b) /\ Held(b)
  BY <1>1, UpdateSnapshotsKeeps, SnapshotsHold
<1>3. PICK c \in DistributeFee(b), owes \in BOOLEAN :
        r = [c EXCEPT !.lp[u].debt = s.lp[u].debt /\ owes]
  BY DEF Remove
<1>. HIDE DEF a, b
<1>4. Inv(c) /\ Held(c)
  BY <1>2, <1>3, DistributeFeeFollows, UpdatesHold DEF Follows
<1>5. (s.lp[u].debt /\ owes) \in BOOLEAN
  OBVIOUS
<1>. QED  BY <1>3, <1>4, <1>5, DebtHolds

\* A trade moves no reference.
LEMMA TradeHolds ==
    ASSUME NEW s, Inv(s), Held(s), NEW u \in Users, NEW r \in Trade(s, u)
    PROVE  Held(r)
<1>. DEFINE a == UpdateFG(s)
            b == RefreshFundingSnapshot(a, u)
<1>1. Inv(a) /\ Held(a)
  BY UpdateFGFollows, UpdatesHold DEF Follows
<1>2. Inv(b)
  BY <1>1, RefreshKeeps
<1>3. r \in ApplyMatrixUpdate(b)
  BY DEF Trade
<1>. HIDE DEF a
<1>4. SameRefs(a, b)
  BY <1>1 DEF SameRefs, RefreshFundingSnapshot, Inv, Storage
<1>5. Held(b)
  BY <1>1, <1>4, SameRefsHold
<1>. HIDE DEF b
<1>. QED  BY <1>2, <1>3, <1>5, UpdatesHold

\* A close withdraws first; the position that is cleared holds no reference
\* that the window needs.
LEMMA CloseHolds ==
    ASSUME NEW s, Inv(s), Held(s), NEW u \in Users, NEW r \in Close(s, u)
    PROVE  Held(r)
<1>1. PICK a \in Withdrawn(s, u) : r \in {ClearPosition(a, u)} \cup Trade(ClearPosition(a, u), u)
  BY DEF Close
<1>. DEFINE b == ClearPosition(a, u)
<1>2. Inv(a) /\ Held(a)
  BY <1>1, RemoveFollows, RemoveHolds DEF Withdrawn, CanSnapshot, Follows
<1>3. Inv(b)
  BY <1>2, ClearPositionKeeps
<1>4. SameRefs(a, b)
  BY <1>2 DEF SameRefs, ClearPosition, Inv, Storage
<1>5. Held(b)
  BY <1>2, <1>4, SameRefsHold
<1>6. r \in {b} \cup Trade(b, u)
  BY <1>1
<1>. HIDE DEF b
<1>. QED  BY <1>3, <1>5, <1>6, TradeHolds

\* The liquidity of a victim is pulled as a withdrawal.
LEMMA PulledHolds ==
    ASSUME NEW s, Inv(s), Held(s), NEW u \in Users, NEW full \in BOOLEAN,
           NEW r \in Pulled(s, u, full)
    PROVE  Held(r)
<1>1. CASE ~Recovered(s, u)
  BY <1>1 DEF Pulled
<1>2. CASE Recovered(s, u) /\ full
  BY <1>2, RemoveHolds DEF Pulled, CanSnapshot
<1>3. CASE Recovered(s, u) /\ ~full
  <2>1. r = s \/ \E keep \in BOOLEAN : CanSnapshot(s, keep) /\ r \in Remove(s, u, keep)
    BY <1>3 DEF Pulled
  <2>. QED  BY <2>1, RemoveHolds
<1>. QED  BY <1>1, <1>2, <1>3

\* A deposit snapshots the sum.
LEMMA AddLiquidityHolds ==
    ASSUME Inv(eng), Held(eng), NEW u \in Users, AddLiquidity(u)
    PROVE  Held(eng')
<1>1. PICK s \in DistributeFee(UpdateFG(eng)), keep \in BOOLEAN :
        /\ CanSnapshot(s, keep)
        /\ eng' = [UpdateSnapshots(s, u, keep) EXCEPT !.lp[u].debt = TRUE]
  BY DEF AddLiquidity
<1>2. Inv(s)
  BY <1>1, UpdateFGFollows, DistributeFeeFollows DEF Follows
<1>. DEFINE b == UpdateSnapshots(s, u, keep)
<1>3. Inv(b) /\ Held(b)
  BY <1>1, <1>2, UpdateSnapshotsKeeps, SnapshotsHold
<1>4. eng' = [b EXCEPT !.lp[u].debt = TRUE]
  BY <1>1
<1>. HIDE DEF b
<1>. QED  BY <1>3, <1>4, DebtHolds

\* A liquidation settles both parties before it pulls and closes.
LEMMA LiquidateHolds ==
    ASSUME Inv(eng), NEW l \in Users, NEW u \in Users, Liquidate(l, u)
    PROVE  Held(eng')
<1>. DEFINE s1 == UpdateFG(eng)
            s2 == Settle(s1, l)
            s3 == Settle(s2, u)
<1>1. CanSettle(s1, l) /\ CanSettle(s2, u)
  BY DEF Liquidate
<1>2. \/ eng' \in Pulled(s3, u, FALSE)
      \/ \E s4 \in Pulled(s3, u, TRUE) : eng' \in Close(s4, u)
  BY DEF Liquidate
<1>3. Inv(s1)
  BY UpdateFGFollows DEF Follows
<1>. HIDE DEF s1
<1>4. Inv(s2)
  BY <1>1, <1>3, SettleKeeps
<1>. HIDE DEF s2
<1>5. Inv(s3) /\ Held(s3)
  BY <1>1, <1>4, SettleKeeps, SettleHolds
<1>. HIDE DEF s3
<1>6. CASE eng' \in Pulled(s3, u, FALSE)
  BY <1>5, <1>6, PulledHolds
<1>7. CASE \E s4 \in Pulled(s3, u, TRUE) : eng' \in Close(s4, u)
  <2>1. PICK s4 \in Pulled(s3, u, TRUE) : eng' \in Close(s4, u)
    BY <1>7
  <2>2. Inv(s4) /\ Held(s4)
    BY <1>5, <2>1, PulledFollows, PulledHolds DEF Follows
  <2>. QED  BY <2>1, <2>2, CloseHolds
<1>. QED  BY <1>2, <1>6, <1>7

\* Every call leaves the window held.
LEMMA NextHolds ==
    ASSUME Inv(eng), Held(eng), [Next]_eng
    PROVE  Held(eng')
<1>1. CASE NewBlock
  <2>1. SameRefs(eng, eng')
    BY <1>1 DEF NewBlock, SameRefs, Inv, Storage
  <2>. QED  BY <2>1, SameRefsHold
<1>2. CASE UpdateFGKeeper
  BY <1>2, UpdatesHold DEF UpdateFGKeeper
<1>3. ASSUME NEW u \in Users, ExecuteTrade(u)
      PROVE  Held(eng')
  BY <1>3, TradeHolds DEF ExecuteTrade
<1>4. ASSUME NEW u \in Users, AddLiquidity(u)
      PROVE  Held(eng')
  BY <1>4, AddLiquidityHolds
<1>5. ASSUME NEW u \in Users, RemoveLiquidity(u)
      PROVE  Held(eng')
  BY <1>5, RemoveHolds DEF RemoveLiquidity
<1>6. ASSUME NEW u \in Users, CanSettle(eng, u), eng' = Settle(UpdateFG(eng), u)
      PROVE  Held(eng')
  <2>1. Inv(UpdateFG(eng)) /\ CanSettle(UpdateFG(eng), u)
    BY <1>6, UpdateFGFollows DEF Follows
  <2>. QED  BY <1>6, <2>1, SettleHolds
<1>7. ASSUME NEW u \in Users, CloseAndWithdraw(u)
      PROVE  Held(eng')
  BY <1>7, CloseHolds DEF CloseAndWithdraw
<1>8. ASSUME NEW l \in Users, NEW u \in Users, Liquidate(l, u)
      PROVE  Held(eng')
  BY <1>8, LiquidateHolds
<1>9. CASE UNCHANGED eng
  BY <1>9
<1>. QED
  BY <1>1, <1>2, <1>3, <1>4, <1>5, <1>6, <1>7, <1>8, <1>9 DEF Next, RealizePnL, UpdateLpSnapshot

\* The window is as short as the references allow: it starts with an epoch
\* that an LP, or a leaked reference, still holds, whatever calls came
\* before.  So with a cap above one a roll that the cap refuses (LECAP) waits
\* for the oldest epoch, and for nothing that could have been retired.
WindowHeld ==
    /\ Held(eng)
    /\ MaxEpochs > 1 /\ ActiveWindow(eng) >= MaxEpochs => Keeps(eng, eng.oldest)

\* Retiring never lags behind: the loop of retire_inactive_liquidity_epochs
\* (funding.rs:64-85) has run wherever a reference went away, so the cap of the
\* roll (funding.rs:87-109, LECAP at :103) never counts an epoch it would free.
THEOREM NothingLeftToRetire == Spec => []WindowHeld
<1>1. Init => Held(eng)
  BY DEF Init, Held
<1>2. Inv(eng) /\ Held(eng) /\ [Next]_eng => Held(eng)'
  BY NextHolds
<1>3. Inv(eng) /\ Held(eng) => WindowHeld
  <2>. SUFFICES ASSUME Inv(eng), Held(eng), MaxEpochs > 1, ActiveWindow(eng) >= MaxEpochs
                PROVE  Keeps(eng, eng.oldest)
    BY DEF WindowHeld
  <2>1. eng.current \in Int /\ eng.oldest \in Int
    BY DEF Inv, Storage, EpochIds
  <2>2. eng.oldest # eng.current
    BY <2>1, BoundsAreNat DEF ActiveWindow
  <2>. QED  BY <2>2 DEF Held
<1>. QED  BY <1>1, <1>2, <1>3, Invariance, PTL DEF Spec

-----------------------------------------------------------------------------
(* The epochs implement the books of LpTracking.  Tracks(s, r, k, A) says  *)
(* that from s to r every snapshot's epoch received k updates, and an      *)
(* accrual if one fell due, and that only A's snapshots were replaced.     *)
(* Operators track, what tracks composes, and a call that tracks is a step *)
(* of the abstract specification.                                          *)

\* Epoch e received k updates, and an accrual if one fell due.
Advanced(s, r, e, k) ==
    /\ r.epochs[e].m = Tracking!Times(s.epochs[e].m, k)
    /\ r.epochs[e].g = IF s.due /\ ~r.due THEN Plus1(s.epochs[e].g) ELSE s.epochs[e].g

SameSnapshot(s, r, v) ==
    /\ r.lp[v].active = s.lp[v].active
    /\ r.lp[v].active => /\ r.lp[v].epoch = s.lp[v].epoch
                         /\ r.lp[v].m = s.lp[v].m /\ r.lp[v].g = s.lp[v].g

\* A replaced snapshot has settled its accruals, and either kept its updates
\* or left some of the last k to come.
Touched(s, r, v, k) ==
    LET e == r.lp[v].epoch
    IN  r.lp[v].active
        => /\ ~r.due
           /\ r.lp[v].g = r.epochs[e].g
           /\ \/ Stays(s, r, v) /\ r.lp[v].m = s.lp[v].m
              \/ \E j \in 0..k : r.epochs[e].m = Tracking!Times(r.lp[v].m, j)

Tracks(s, r, k, A) ==
    /\ r.due => s.due
    /\ \A v \in Users : Stays(s, r, v) => Advanced(s, r, s.lp[v].epoch, k)
    /\ \A v \in Users \ A : SameSnapshot(s, r, v)
    /\ \A v \in A : Touched(s, r, v, k)

\* At most n updates, and no snapshots replaced but some of U's.
Within(s, r, n, U) == \E k \in 0..n, A \in SUBSET U : Tracks(s, r, k, A)

\* Updates add up.
LEMMA TimesAdd ==
    ASSUME NEW x, NEW j \in 0..3, NEW k \in 0..3, j + k <= 3
    PROVE  Tracking!Times(Tracking!Times(x, j), k) = Tracking!Times(x, j + k)
<1>1. \/ j = 0
      \/ k = 0
      \/ j = 1 /\ k = 1
      \/ j = 1 /\ k = 2
      \/ j = 2 /\ k = 1
  <2>1. j \in {0, 1, 2, 3} /\ k \in {0, 1, 2, 3}
    OBVIOUS
  <2>. QED  BY <2>1
<1>2. \A y : /\ Tracking!Times(y, 0) = y
             /\ Tracking!Times(y, 1) = Tracking!Tick(y)
             /\ Tracking!Times(y, 2) = Tracking!Tick(Tracking!Tick(y))
             /\ Tracking!Times(y, 3) = Tracking!Tick(Tracking!Tick(Tracking!Tick(y)))
  BY DEF Tracking!Times
<1>3. CASE j = 0
  BY <1>2, <1>3
<1>4. CASE k = 0
  BY <1>2, <1>4
<1>5. CASE j = 1 /\ k = 1
  BY <1>2, <1>5
<1>6. CASE j = 1 /\ k = 2
  BY <1>2, <1>6
<1>7. CASE j = 2 /\ k = 1
  BY <1>2, <1>7
<1>. QED  BY <1>1, <1>3, <1>4, <1>5, <1>6, <1>7

LEMMA TimesZero ==
    ASSUME NEW x
    PROVE  Tracking!Times(x, 0) = x
BY DEF Tracking!Times

\* An LP that is there in between is at the same epoch if it is at both ends.
LEMMA StaysBetween ==
    ASSUME NEW s, Inv(s), NEW r, Follows(s, r), NEW t, Follows(r, t),
           NEW v \in Users, Stays(s, t, v), r.lp[v].active
    PROVE  Stays(s, r, v) /\ Stays(r, t, v)
<1>1. /\ s.lp[v].epoch \in EpochIds /\ r.lp[v].epoch \in EpochIds /\ t.lp[v].epoch \in EpochIds
      /\ s.lp[v].active /\ t.lp[v].active /\ t.lp[v].epoch = s.lp[v].epoch
      /\ s.current \in EpochIds /\ r.current \in EpochIds
  BY DEF Follows, Inv, Storage, Lp, Stays
<1>2. s.lp[v].epoch <= s.current /\ r.lp[v].epoch <= r.current
  BY <1>1 DEF Follows, Inv, Reachable
<1>3. r.lp[v].epoch = s.lp[v].epoch \/ s.current <= r.lp[v].epoch
  BY DEF Follows, Moves
<1>4. t.lp[v].epoch = r.lp[v].epoch \/ r.current <= t.lp[v].epoch
  BY <1>1 DEF Follows, Moves
<1>5. r.lp[v].epoch = s.lp[v].epoch
  BY <1>1, <1>2, <1>3, <1>4 DEF EpochIds
<1>. QED  BY <1>1, <1>5 DEF Stays

\* What tracks composes, as long as nobody rejoins whose snapshot was dropped.
LEMMA TracksCompose ==
    ASSUME NEW s, Inv(s), NEW r, Follows(s, r), NEW t, Follows(r, t),
           NEW j \in 0..3, NEW k \in 0..3, j + k <= 3,
           NEW A \in SUBSET Users, NEW B \in SUBSET Users,
           Tracks(s, r, j, A), Tracks(r, t, k, B),
           \A v \in A \cap B : t.lp[v].active => r.lp[v].active
    PROVE  Tracks(s, t, j + k, A \cup B)
<1>1. r.due \in BOOLEAN /\ s.due \in BOOLEAN /\ t.due \in BOOLEAN
  BY DEF Follows, Inv, Storage
<1>2. (t.due => r.due) /\ (r.due => s.due)
  BY DEF Tracks
<1>3. ASSUME NEW v \in Users, Stays(s, t, v)
      PROVE  r.lp[v].active
  <2>1. s.lp[v].active /\ t.lp[v].active
    BY <1>3 DEF Stays
  <2>2. CASE v \in A
    BY <2>1, <2>2 DEF Tracks, SameSnapshot
  <2>3. CASE v \notin A
    BY <2>1, <2>3 DEF Tracks, SameSnapshot
  <2>. QED  BY <2>2, <2>3
<1>4. ASSUME NEW e, Advanced(s, r, e, j), Advanced(r, t, e, k)
      PROVE  Advanced(s, t, e, j + k)
  BY <1>1, <1>2, <1>4, TimesAdd DEF Advanced
<1>5. ASSUME NEW v \in Users, Stays(s, t, v)
      PROVE  Advanced(s, t, s.lp[v].epoch, j + k)
  <2>1. Stays(s, r, v) /\ Stays(r, t, v)
    BY <1>3, <1>5, StaysBetween
  <2>2. Advanced(s, r, s.lp[v].epoch, j) /\ Advanced(r, t, r.lp[v].epoch, k)
    BY <2>1 DEF Tracks
  <2>3. r.lp[v].epoch = s.lp[v].epoch
    BY <2>1 DEF Stays
  <2>. QED  BY <1>4, <2>2, <2>3
<1>6. ASSUME NEW v \in Users \ (A \cup B)
      PROVE  SameSnapshot(s, t, v)
  BY <1>6 DEF Tracks, SameSnapshot
<1>7. ASSUME NEW v \in A, r.lp[v].active, t.lp[v].active, Stays(r, t, v),
             t.lp[v].m = r.lp[v].m, t.lp[v].g = t.epochs[t.lp[v].epoch].g, ~t.due
      PROVE  Touched(s, t, v, j + k)
  <2>. DEFINE e == r.lp[v].epoch
  <2>1. v \in Users /\ Touched(s, r, v, j) /\ t.lp[v].epoch = e
    BY <1>7 DEF Tracks, Stays
  <2>2. t.epochs[e].m = Tracking!Times(r.epochs[e].m, k)
    BY <1>7, <2>1 DEF Tracks, Advanced
  <2>3. CASE Stays(s, r, v) /\ r.lp[v].m = s.lp[v].m
    BY <1>7, <2>1, <2>3 DEF Touched, Stays
  <2>4. ASSUME NEW i \in 0..j, r.epochs[e].m = Tracking!Times(r.lp[v].m, i)
        PROVE  Touched(s, t, v, j + k)
    <3>1. i \in 0..3 /\ i + k <= 3 /\ i + k \in 0..(j + k)
      OBVIOUS
    <3>2. t.epochs[e].m = Tracking!Times(t.lp[v].m, i + k)
      BY <1>7, <2>2, <2>4, <3>1, TimesAdd
    <3>. QED  BY <1>7, <2>1, <3>1, <3>2 DEF Touched
  <2>. QED  BY <1>7, <2>1, <2>3, <2>4 DEF Touched
<1>8. ASSUME NEW v \in A \cup B, t.lp[v].active
      PROVE  Touched(s, t, v, j + k)
  <2>1. CASE v \in B /\ \E i \in 0..k :
                t.epochs[t.lp[v].epoch].m = Tracking!Times(t.lp[v].m, i)
    <3>1. PICK i \in 0..k : t.epochs[t.lp[v].epoch].m = Tracking!Times(t.lp[v].m, i)
      BY <2>1
    <3>2. i \in 0..(j + k) /\ Touched(r, t, v, k)
      BY <2>1 DEF Tracks
    <3>. QED  BY <1>8, <3>1, <3>2 DEF Touched
  <2>2. CASE v \in B /\ Stays(r, t, v) /\ t.lp[v].m = r.lp[v].m
    <3>1. Touched(r, t, v, k) /\ r.lp[v].active
      BY <2>2 DEF Tracks, Stays
    <3>2. CASE v \in A
      BY <1>7, <1>8, <2>2, <3>1, <3>2 DEF Touched
    <3>3. CASE v \notin A
      <4>1. SameSnapshot(s, r, v)
        BY <3>3 DEF Tracks
      <4>. QED  BY <1>8, <2>2, <3>1, <4>1 DEF Touched, SameSnapshot, Stays
    <3>. QED  BY <3>2, <3>3
  <2>3. CASE v \notin B
    <3>1. v \in A /\ v \in Users /\ SameSnapshot(r, t, v)
      BY <1>8, <2>3 DEF Tracks
    <3>2. r.lp[v].active /\ Stays(r, t, v) /\ t.lp[v].m = r.lp[v].m /\ t.lp[v].g = r.lp[v].g
      BY <1>8, <3>1 DEF SameSnapshot, Stays
    <3>3. ~r.due /\ r.lp[v].g = r.epochs[r.lp[v].epoch].g
      BY <3>1, <3>2 DEF Tracks, Touched
    <3>4. Advanced(r, t, r.lp[v].epoch, k) /\ t.lp[v].epoch = r.lp[v].epoch
      BY <3>1, <3>2 DEF Tracks, Stays
    <3>5. t.lp[v].g = t.epochs[t.lp[v].epoch].g /\ ~t.due
      BY <1>2, <3>2, <3>3, <3>4 DEF Advanced
    <3>. QED  BY <1>7, <1>8, <3>1, <3>2, <3>5
  <2>4. v \in B => Touched(r, t, v, k)
    BY DEF Tracks
  <2>. QED  BY <1>8, <2>1, <2>2, <2>3, <2>4 DEF Touched
<1>9. \A v \in A \cup B : Touched(s, t, v, j + k)
  BY <1>8 DEF Touched
<1>. QED  BY <1>2, <1>5, <1>6, <1>9 DEF Tracks

\* The same of Within.
LEMMA WithinCompose ==
    ASSUME NEW s, Inv(s), NEW r, Follows(s, r), NEW t, Follows(r, t),
           NEW n \in 0..3, NEW p \in 0..3, n + p <= 3,
           NEW U \in SUBSET Users, NEW V \in SUBSET Users,
           Within(s, r, n, U), Within(r, t, p, V),
           \A v \in U \cap V : t.lp[v].active => r.lp[v].active
    PROVE  Within(s, t, n + p, U \cup V)
<1>1. PICK j \in 0..n, A \in SUBSET U : Tracks(s, r, j, A)
  BY DEF Within
<1>2. PICK k \in 0..p, B \in SUBSET V : Tracks(r, t, k, B)
  BY DEF Within
<1>3. /\ j \in 0..3 /\ k \in 0..3 /\ j + k <= 3 /\ j + k \in 0..(n + p)
  OBVIOUS
<1>4. /\ A \in SUBSET Users /\ B \in SUBSET Users /\ A \cup B \in SUBSET (U \cup V)
      /\ \A v \in A \cap B : t.lp[v].active => r.lp[v].active
  OBVIOUS
<1>5. Tracks(s, t, j + k, A \cup B)
  BY <1>1, <1>2, <1>3, <1>4, TracksCompose
<1>. QED  BY <1>3, <1>4, <1>5 DEF Within

LEMMA WithinReflexive ==
    ASSUME NEW s, Inv(s)
    PROVE  Within(s, s, 0, {})
<1>1. Tracks(s, s, 0, {})
  BY TimesZero DEF Tracks, Advanced, SameSnapshot, Inv, Storage
<1>. QED  BY <1>1 DEF Within

\* The epoch of an LP is one that the update loops visit.
LEMMA HolderReceives ==
    ASSUME NEW s, Inv(s), NEW v \in Users, s.lp[v].active
    PROVE  s.lp[v].epoch \in EpochIds /\ Receives(s, s.lp[v].epoch)
BY HolderCounted DEF Receives, Inv, Reachable

\* What leaves every epoch's updates and accruals alone tracks.
LEMMA UndisturbedTracks ==
    ASSUME NEW s, NEW r, NEW A \in SUBSET Users, Undisturbed(s, r, A), s.due \in BOOLEAN,
           \A v \in A : r.lp[v].active => ~s.due /\ UpToDate(r, v)
    PROVE  Tracks(s, r, 0, A)
<1>1. \A v \in Users : Stays(s, r, v) => Advanced(s, r, s.lp[v].epoch, 0)
  BY TimesZero DEF Undisturbed, Advanced
<1>2. \A v \in Users \ A : SameSnapshot(s, r, v)
  BY DEF Undisturbed, SameSnapshot
<1>3. \A v \in A : Touched(s, r, v, 0)
  <2>. SUFFICES ASSUME NEW v \in A, r.lp[v].active
                PROVE  Touched(s, r, v, 0)
    BY DEF Touched
  <2>1. ~r.due /\ r.lp[v].g = r.epochs[r.lp[v].epoch].g
    BY DEF Undisturbed, UpToDate
  <2>2. r.epochs[r.lp[v].epoch].m = Tracking!Times(r.lp[v].m, 0) /\ 0 \in 0..0
    BY TimesZero DEF UpToDate
  <2>. QED  BY <2>1, <2>2 DEF Touched
<1>. QED  BY <1>1, <1>2, <1>3 DEF Tracks, Undisturbed

LEMMA RevaluedTracks ==
    ASSUME NEW s, Inv(s), NEW r \in Revalued(s)
    PROVE  Tracks(s, r, 0, {})
<1>1. PICK W :
        r = [s EXCEPT !.lp = [u \in Users |-> [s.lp[u] EXCEPT !.worth = u \in W]]]
  BY DEF Revalued
<1>2. r.epochs = s.epochs /\ r.due = s.due /\ s.due \in BOOLEAN
  BY <1>1 DEF Inv, Storage
<1>3. \A v \in Users : SameSnapshot(s, r, v)
  BY <1>1 DEF SameSnapshot, Inv, Storage, Lp
<1>. QED  BY <1>2, <1>3, TimesZero DEF Tracks, Advanced

\* An update reaches every LP, once.
LEMMA ApplyMatrixUpdateTracks ==
    ASSUME NEW s, Inv(s), NEW r \in ApplyMatrixUpdate(s)
    PROVE  Tracks(s, r, 1, {})
<1>1. PICK d \in BOOLEAN : r \in Revalued([FoldUpdate(s) EXCEPT !.decayed = d])
  BY DEF ApplyMatrixUpdate
<1>. DEFINE q == [FoldUpdate(s) EXCEPT !.decayed = d]
<1>2. Inv(q) /\ Moves(s, q)
  BY FoldUpdateKeeps
<1>3. /\ q.lp = s.lp /\ q.due = s.due /\ s.due \in BOOLEAN
      /\ \A id \in EpochIds : Receives(s, id)
            => /\ q.epochs[id].m = Plus1(s.epochs[id].m)
               /\ q.epochs[id].g = s.epochs[id].g
  BY DEF FoldUpdate, Inv, Storage, Epoch
<1>4. r \in Revalued(q)
  BY <1>1
<1>. HIDE DEF q
<1>5. \A x : Tracking!Times(x, 1) = Plus1(x)
  BY DEF Tracking!Times, Tracking!Tick, Plus1
<1>6. Tracks(s, q, 1, {})
  BY <1>3, <1>5, HolderReceives DEF Tracks, Advanced, SameSnapshot, Stays
<1>7. Tracks(q, r, 0, {}) /\ Inv(r) /\ Moves(q, r)
  BY <1>2, <1>4, RevaluedTracks, RevaluedKeeps
<1>8. Tracks(s, r, 1 + 0, {} \cup {})
  BY <1>2, <1>6, <1>7, TracksCompose DEF Follows
<1>. QED  BY <1>8

\* An accrual reaches every LP, once a block.
LEMMA UpdateFGTracks ==
    ASSUME NEW s, Inv(s)
    PROVE  Within(s, UpdateFG(s), 0, {}) /\ ~UpdateFG(s).due
<1>1. CASE ~s.due
  BY <1>1, WithinReflexive DEF UpdateFG
<1>2. CASE s.due
  <2>. DEFINE r == UpdateFG(s)
  <2>1. /\ r.lp = s.lp /\ ~r.due
        /\ \A id \in EpochIds : Receives(s, id)
              => /\ r.epochs[id].g = Plus1(s.epochs[id].g)
                 /\ r.epochs[id].m = s.epochs[id].m
    BY <1>2 DEF UpdateFG, Inv, Storage, Epoch
  <2>. HIDE DEF r
  <2>2. Tracks(s, r, 0, {})
    BY <1>2, <2>1, HolderReceives, TimesZero DEF Tracks, Advanced, SameSnapshot, Stays
  <2>. QED  BY <2>1, <2>2 DEF Within, r
<1>. QED  BY <1>1, <1>2

\* A refreshed funding snapshot keeps the updates that separate it from its
\* epoch.
LEMMA RefreshTracks ==
    ASSUME NEW s, Inv(s), ~s.due, NEW u \in Users
    PROVE  Within(s, RefreshFundingSnapshot(s, u), 0, {u})
<1>1. CASE ~s.lp[u].active
  <2>1. Within(s, s, 0, {})
    BY WithinReflexive
  <2>. QED  BY <1>1, <2>1 DEF RefreshFundingSnapshot, Within
<1>2. CASE s.lp[u].active
  <2>. DEFINE r == RefreshFundingSnapshot(s, u)
  <2>1. /\ r.epochs = s.epochs /\ r.due = s.due
        /\ r.lp[u] = [s.lp[u] EXCEPT !.g = s.epochs[s.lp[u].epoch].g]
        /\ \A v \in Users \ {u} : r.lp[v] = s.lp[v]
    BY <1>2 DEF RefreshFundingSnapshot, Inv, Storage
  <2>2. /\ r.lp[u].active /\ r.lp[u].epoch = s.lp[u].epoch /\ r.lp[u].m = s.lp[u].m
        /\ r.lp[u].g = s.epochs[s.lp[u].epoch].g
    BY <1>2, <2>1 DEF Inv, Storage, Lp
  <2>. HIDE DEF r
  <2>3. Touched(s, r, u, 0)
    BY <1>2, <2>1, <2>2 DEF Touched, Stays
  <2>4. Tracks(s, r, 0, {u})
    BY <2>1, <2>3, TimesZero DEF Tracks, Advanced, SameSnapshot
  <2>. QED  BY <2>4 DEF Within, r
<1>. QED  BY <1>1, <1>2

LEMMA DebtTracks ==
    ASSUME NEW s, Inv(s), NEW u \in Users, NEW d
    PROVE  /\ Within(s, [s EXCEPT !.lp[u].debt = d], 0, {})
           /\ [s EXCEPT !.lp[u].debt = d].lp[u].active = s.lp[u].active
<1>. DEFINE r == [s EXCEPT !.lp[u].debt = d]
<1>1. /\ r.epochs = s.epochs /\ r.due = s.due /\ s.due \in BOOLEAN
      /\ \A v \in Users : SameSnapshot(s, r, v)
  BY DEF SameSnapshot, Inv, Storage, Lp
<1>. HIDE DEF r
<1>2. Tracks(s, r, 0, {})
  BY <1>1, TimesZero DEF Tracks, Advanced
<1>. QED  BY <1>1, <1>2 DEF Within, SameSnapshot, r

LEMMA ClearTracks ==
    ASSUME NEW s, Inv(s), NEW u \in Users
    PROVE  /\ Within(s, ClearPosition(s, u), 0, {u})
           /\ ~ClearPosition(s, u).lp[u].active
<1>. DEFINE r == ClearPosition(s, u)
<1>1. /\ r.epochs = s.epochs /\ r.due = s.due /\ s.due \in BOOLEAN
      /\ ~r.lp[u].active
      /\ \A v \in Users \ {u} : r.lp[v] = s.lp[v]
  BY DEF ClearPosition, NoPosition, Inv, Storage
<1>. HIDE DEF r
<1>2. Undisturbed(s, r, {u})
  BY <1>1 DEF Undisturbed
<1>3. Tracks(s, r, 0, {u})
  BY <1>1, <1>2, UndisturbedTracks
<1>. QED  BY <1>1, <1>3 DEF Within, r

\* A new snapshot misses nothing: its epoch is as it is at that moment.
LEMMA UpdateSnapshotsTracks ==
    ASSUME NEW s, Inv(s), ~s.due, NEW u \in Users, NEW keep \in BOOLEAN, CanSnapshot(s, keep)
    PROVE  /\ Within(s, UpdateSnapshots(s, u, keep), 0, {u})
           /\ UpdateSnapshots(s, u, keep).lp[u].active => keep
<1>. DEFINE r == UpdateSnapshots(s, u, keep)
<1>1. Undisturbed(s, r, {u}) /\ (r.lp[u].active => keep /\ UpToDate(r, u))
  <2>1. CASE keep
    BY <2>1, AttachKeeps DEF UpdateSnapshots, CanSnapshot
  <2>2. CASE ~keep
    BY <2>2, ExitKeeps DEF UpdateSnapshots
  <2>. QED  BY <2>1, <2>2
<1>. HIDE DEF r
<1>2. Tracks(s, r, 0, {u})
  BY <1>1, UndisturbedTracks DEF Inv, Storage
<1>. QED  BY <1>1, <1>2 DEF Within, r

LEMMA SettleTracks ==
    ASSUME NEW s, Inv(s), ~s.due, NEW u \in Users, CanSettle(s, u)
    PROVE  /\ Within(s, Settle(s, u), 0, {u})
           /\ Settle(s, u).lp[u].active => s.lp[u].active
<1>1. Recovered(s, u) \in BOOLEAN
  BY DEF Recovered, Inv, Storage, Lp, Epoch
<1>2. /\ Within(s, Settle(s, u), 0, {u})
      /\ Settle(s, u).lp[u].active => Recovered(s, u)
  BY <1>1, UpdateSnapshotsTracks DEF Settle, CanSettle
<1>. QED  BY <1>2 DEF Recovered

\* Once accrued, nothing falls due before the next block.
LEMMA StaysSettled ==
    ASSUME NEW s, ~s.due, NEW r, NEW n, NEW U, Within(s, r, n, U)
    PROVE  ~r.due
BY DEF Within, Tracks

\* What replaces no snapshot leaves everybody in.
LEMMA UntouchedTracks ==
    ASSUME NEW s, NEW r, NEW n, NEW k \in 0..n, Tracks(s, r, k, {})
    PROVE  /\ Within(s, r, n, {})
           /\ \A v \in Users : r.lp[v].active = s.lp[v].active
<1>1. Within(s, r, n, {})
  BY DEF Within
<1>2. \A v \in Users : SameSnapshot(s, r, v)
  BY DEF Tracks
<1>. QED  BY <1>1, <1>2 DEF SameSnapshot

LEMMA DistributeFeeTracks ==
    ASSUME NEW s, Inv(s), NEW r \in DistributeFee(s)
    PROVE  /\ Within(s, r, 1, {})
           /\ \A v \in Users : r.lp[v].active = s.lp[v].active
<1>1. CASE r \in ApplyMatrixUpdate(s)
  <2>1. Tracks(s, r, 1, {}) /\ 1 \in 0..1
    BY <1>1, ApplyMatrixUpdateTracks
  <2>. QED  BY ONLY <2>1, UntouchedTracks
<1>2. CASE r \in Revalued(s)
  <2>1. Tracks(s, r, 0, {}) /\ 0 \in 0..1
    BY <1>2, RevaluedTracks
  <2>. QED  BY ONLY <2>1, UntouchedTracks
<1>. QED  BY <1>1, <1>2 DEF DistributeFee

LEMMA RemoveTracks ==
    ASSUME NEW s, Inv(s), NEW u \in Users, NEW keep \in BOOLEAN, CanSnapshot(s, keep),
           NEW r \in Remove(s, u, keep)
    PROVE  Within(s, r, 1, {u}) /\ (r.lp[u].active => keep)
<1>. DEFINE a == UpdateFG(s)
            b == UpdateSnapshots(a, u, keep)
<1>1. Follows(s, a) /\ CanSnapshot(a, keep) /\ Within(s, a, 0, {}) /\ ~a.due
  BY UpdateFGFollows, UpdateFGTracks
<1>2. Follows(a, b) /\ Within(a, b, 0, {u}) /\ (b.lp[u].active => keep)
  BY <1>1, UpdateSnapshotsKeeps, UpdateSnapshotsTracks DEF Follows
<1>3. PICK c \in DistributeFee(b), owes \in BOOLEAN :
        r = [c EXCEPT !.lp[u].debt = s.lp[u].debt /\ owes]
  BY DEF Remove
<1>. HIDE DEF a, b
<1>4. Follows(b, c) /\ Within(b, c, 1, {}) /\ c.lp[u].active = b.lp[u].active
  BY <1>2, <1>3, DistributeFeeFollows, DistributeFeeTracks DEF Follows
<1>5. (s.lp[u].debt /\ owes) \in BOOLEAN
  OBVIOUS
<1>6. Follows(c, r) /\ Within(c, r, 0, {}) /\ r.lp[u].active = c.lp[u].active
  BY <1>3, <1>4, <1>5, DebtKeeps, DebtTracks DEF Follows
<1>7. Follows(s, b) /\ Within(s, b, 0 + 0, {} \cup {u})
  BY <1>1, <1>2, FollowsTransitive, WithinCompose
<1>8. Follows(s, c) /\ Within(s, c, 0 + 1, {u} \cup {})
  BY <1>4, <1>7, FollowsTransitive, WithinCompose DEF Follows
<1>9. Within(s, r, 1 + 0, {u} \cup {})
  BY <1>6, <1>8, WithinCompose
<1>. QED  BY <1>2, <1>4, <1>6, <1>9

LEMMA TradeTracks ==
    ASSUME NEW s, Inv(s), NEW u \in Users, NEW r \in Trade(s, u)
    PROVE  Within(s, r, 1, {u}) /\ (r.lp[u].active => s.lp[u].active)
<1>. DEFINE a == UpdateFG(s)
            b == RefreshFundingSnapshot(a, u)
<1>1. Follows(s, a) /\ Within(s, a, 0, {}) /\ ~a.due /\ a.lp = s.lp
  BY UpdateFGFollows, UpdateFGTracks DEF UpdateFG, Inv, Storage
<1>2. Follows(a, b) /\ Within(a, b, 0, {u}) /\ (b.lp[u].active => a.lp[u].active)
  BY <1>1, RefreshKeeps, RefreshTracks DEF Follows, RefreshFundingSnapshot
<1>3. r \in ApplyMatrixUpdate(b)
  BY DEF Trade
<1>. HIDE DEF a, b
<1>4. Follows(b, r) /\ Tracks(b, r, 1, {})
  BY <1>2, <1>3, ApplyMatrixUpdateKeeps, ApplyMatrixUpdateTracks DEF Follows
<1>5. Within(b, r, 1, {}) /\ r.lp[u].active = b.lp[u].active
  <2>1. 1 \in 0..1
    OBVIOUS
  <2>. QED  BY <1>4, <2>1, UntouchedTracks
<1>6. Follows(s, b) /\ Within(s, b, 0 + 0, {} \cup {u})
  BY <1>1, <1>2, FollowsTransitive, WithinCompose
<1>7. Within(s, r, 0 + 1, {u} \cup {})
  BY <1>4, <1>5, <1>6, WithinCompose
<1>. QED  BY <1>1, <1>2, <1>5, <1>7

LEMMA CloseTracks ==
    ASSUME NEW s, Inv(s), NEW u \in Users, NEW r \in Close(s, u)
    PROVE  Within(s, r, 2, {u}) /\ ~r.lp[u].active
<1>1. PICK a \in Withdrawn(s, u) : r \in {ClearPosition(a, u)} \cup Trade(ClearPosition(a, u), u)
  BY DEF Close
<1>. DEFINE b == ClearPosition(a, u)
<1>2. Follows(s, a) /\ Within(s, a, 1, {u})
  <2>1. CASE a = s
    <3>1. Within(s, s, 0, {})
      BY WithinReflexive
    <3>2. Within(s, s, 1, {u})
      BY <3>1 DEF Within
    <3>. QED  BY <2>1, <3>2, FollowsReflexive
  <2>2. CASE a \in Remove(s, u, FALSE)
    BY <2>2, RemoveFollows, RemoveTracks DEF CanSnapshot
  <2>. QED  BY <1>1, <2>1, <2>2 DEF Withdrawn
<1>3. Follows(a, b) /\ Within(a, b, 0, {u}) /\ ~b.lp[u].active
  BY <1>2, ClearPositionKeeps, ClearTracks DEF Follows
<1>4. r = b \/ r \in Trade(b, u)
  BY <1>1
<1>. HIDE DEF b
<1>5. Follows(s, b) /\ Within(s, b, 1 + 0, {u} \cup {u})
  BY <1>2, <1>3, FollowsTransitive, WithinCompose
<1>6. CASE r = b
  BY <1>3, <1>5, <1>6 DEF Within
<1>7. CASE r \in Trade(b, u)
  <2>1. Follows(b, r) /\ Within(b, r, 1, {u}) /\ ~r.lp[u].active
    BY <1>3, <1>7, TradeFollows, TradeTracks DEF Follows
  <2>2. Within(s, r, 1 + 1, {u} \cup {u})
    BY <1>5, <2>1, WithinCompose
  <2>. QED  BY <2>1, <2>2
<1>. QED  BY <1>4, <1>6, <1>7

LEMMA PulledTracks ==
    ASSUME NEW s, Inv(s), NEW u \in Users, NEW full \in BOOLEAN, NEW r \in Pulled(s, u, full)
    PROVE  Within(s, r, 1, {u}) /\ (r.lp[u].active => s.lp[u].active)
<1>1. CASE r = s
  <2>1. Within(s, s, 0, {})
    BY WithinReflexive
  <2>2. Within(s, s, 1, {u})
    BY <2>1 DEF Within
  <2>. QED  BY <1>1, <2>2
<1>2. CASE Recovered(s, u) /\ \E keep \in BOOLEAN : CanSnapshot(s, keep) /\ r \in Remove(s, u, keep)
  BY <1>2, RemoveTracks DEF Recovered
<1>. QED  BY <1>1, <1>2 DEF Pulled, CanSnapshot

-----------------------------------------------------------------------------
(* Every call tracks.                                                      *)

LEMMA AddLiquidityTracks ==
    ASSUME Inv(eng), NEW u \in Users, AddLiquidity(u)
    PROVE  Within(eng, eng', 1, {u})
<1>1. PICK s \in DistributeFee(UpdateFG(eng)), keep \in BOOLEAN :
        /\ CanSnapshot(s, keep)
        /\ eng' = [UpdateSnapshots(s, u, keep) EXCEPT !.lp[u].debt = TRUE]
  BY DEF AddLiquidity
<1>. DEFINE a == UpdateFG(eng)
            b == UpdateSnapshots(s, u, keep)
<1>2. Follows(eng, a) /\ Within(eng, a, 0, {}) /\ ~a.due
  BY UpdateFGFollows, UpdateFGTracks
<1>3. Follows(a, s) /\ Within(a, s, 1, {})
  BY <1>1, <1>2, DistributeFeeFollows, DistributeFeeTracks DEF Follows
<1>4. ~s.due
  BY <1>2, <1>3, StaysSettled
<1>5. Follows(s, b) /\ Within(s, b, 0, {u})
  BY <1>1, <1>3, <1>4, UpdateSnapshotsKeeps, UpdateSnapshotsTracks DEF Follows
<1>6. eng' = [b EXCEPT !.lp[u].debt = TRUE]
  BY <1>1
<1>. HIDE DEF a, b
<1>7. Follows(b, eng') /\ Within(b, eng', 0, {})
  BY <1>5, <1>6, DebtKeeps, DebtTracks DEF Follows
<1>8. Follows(eng, s) /\ Within(eng, s, 0 + 1, {} \cup {})
  BY <1>2, <1>3, FollowsTransitive, WithinCompose
<1>9. Follows(eng, b) /\ Within(eng, b, 1 + 0, {} \cup {u})
  BY <1>5, <1>8, FollowsTransitive, WithinCompose DEF Follows
<1>10. Within(eng, eng', 1 + 0, {u} \cup {})
  BY <1>7, <1>9, WithinCompose
<1>. QED  BY <1>10

LEMMA SettleAfterAccrualTracks ==
    ASSUME Inv(eng), NEW u \in Users, CanSettle(eng, u), eng' = Settle(UpdateFG(eng), u)
    PROVE  Within(eng, eng', 0, {u})
<1>. DEFINE a == UpdateFG(eng)
<1>1. Follows(eng, a) /\ CanSettle(a, u) /\ Within(eng, a, 0, {}) /\ ~a.due
  BY UpdateFGFollows, UpdateFGTracks
<1>2. Follows(a, eng') /\ Within(a, eng', 0, {u})
  BY <1>1, SettleKeeps, SettleTracks DEF Follows
<1>. HIDE DEF a
<1>3. Within(eng, eng', 0 + 0, {} \cup {u})
  BY <1>1, <1>2, WithinCompose
<1>. QED  BY <1>3

LEMMA LiquidateTracks ==
    ASSUME Inv(eng), NEW l \in Users, NEW u \in Users, Liquidate(l, u)
    PROVE  Within(eng, eng', 3, {l, u})
<1>. DEFINE s1 == UpdateFG(eng)
            s2 == Settle(s1, l)
            s3 == Settle(s2, u)
<1>1. l # u /\ CanSettle(s1, l) /\ CanSettle(s2, u)
  BY DEF Liquidate
<1>2. \/ eng' \in Pulled(s3, u, FALSE)
      \/ \E s4 \in Pulled(s3, u, TRUE) : eng' \in Close(s4, u)
  BY DEF Liquidate
<1>3. Follows(eng, s1) /\ Within(eng, s1, 0, {}) /\ ~s1.due
  BY UpdateFGFollows, UpdateFGTracks
<1>. HIDE DEF s1
<1>4. Follows(s1, s2) /\ Within(s1, s2, 0, {l})
  BY <1>1, <1>3, SettleKeeps, SettleTracks DEF Follows
<1>5. ~s2.due
  BY <1>3, <1>4, StaysSettled
<1>. HIDE DEF s2
<1>6. Follows(s2, s3) /\ Within(s2, s3, 0, {u})
  BY <1>1, <1>4, <1>5, SettleKeeps, SettleTracks DEF Follows
<1>. HIDE DEF s3
<1>7. Follows(eng, s2) /\ Within(eng, s2, 0 + 0, {} \cup {l})
  BY <1>3, <1>4, FollowsTransitive, WithinCompose
<1>8. \A v \in {l} \cap {u} : s3.lp[v].active => s2.lp[v].active
  BY <1>1
<1>9. Follows(eng, s3) /\ Within(eng, s3, 0 + 0, {l} \cup {u})
  <2>1. Within(eng, s2, 0, {l}) /\ Follows(eng, s2) /\ Within(s2, s3, 0, {u}) /\ Follows(s2, s3)
    BY <1>6, <1>7
  <2>2. /\ {l} \in SUBSET Users /\ {u} \in SUBSET Users
        /\ 0 \in 0..3 /\ 0 + 0 <= 3 /\ Inv(eng)
    OBVIOUS
  <2>3. Within(eng, s3, 0 + 0, {l} \cup {u})
    BY ONLY <1>8, <2>1, <2>2, WithinCompose
  <2>4. Follows(eng, s3)
    BY ONLY <2>1, <2>2, FollowsTransitive
  <2>. QED  BY <2>3, <2>4
<1>10. /\ Follows(s3, eng') /\ Within(s3, eng', 3, {u})
       /\ eng'.lp[u].active => s3.lp[u].active
  <2>1. CASE eng' \in Pulled(s3, u, FALSE)
    <3>1. Within(s3, eng', 1, {u}) /\ (eng'.lp[u].active => s3.lp[u].active)
      BY <1>6, <2>1, PulledTracks DEF Follows
    <3>2. Within(s3, eng', 3, {u})
      BY <3>1 DEF Within
    <3>. QED  BY <1>6, <2>1, <3>1, <3>2, PulledFollows DEF Follows
  <2>2. CASE \E s4 \in Pulled(s3, u, TRUE) : eng' \in Close(s4, u)
    <3>1. PICK s4 \in Pulled(s3, u, TRUE) : eng' \in Close(s4, u)
      BY <2>2
    <3>2. Follows(s3, s4) /\ Within(s3, s4, 1, {u})
      BY <1>6, <3>1, PulledFollows, PulledTracks DEF Follows
    <3>3. Follows(s4, eng') /\ Within(s4, eng', 2, {u}) /\ ~eng'.lp[u].active
      BY <3>1, <3>2, CloseFollows, CloseTracks DEF Follows
    <3>4. Within(s3, eng', 1 + 2, {u} \cup {u})
      BY <1>6, <3>2, <3>3, WithinCompose DEF Follows
    <3>. QED  BY <1>6, <3>2, <3>3, <3>4, FollowsTransitive DEF Follows
  <2>. QED  BY <1>2, <2>1, <2>2
<1>11. \A v \in {l, u} \cap {u} : eng'.lp[v].active => s3.lp[v].active
  BY <1>10
<1>12. {l} \cup {u} = {l, u} /\ {l, u} \cup {u} = {l, u}
  OBVIOUS
<1>13. Within(eng, eng', 0 + 3, {l, u})
  BY <1>9, <1>10, <1>11, <1>12, WithinCompose
<1>. QED  BY <1>13

\* A call makes at most three updates and is about at most two accounts.
LEMMA NextTracks ==
    ASSUME Inv(eng), [Next]_eng
    PROVE  \/ UNCHANGED <<eng.epochs, eng.lp>>
           \/ \E l, u : Within(eng, eng', 3, {l, u} \cap Users)
<1>0. ASSUME NEW u \in Users, NEW n \in 0..3, Within(eng, eng', n, {u})
      PROVE  \E l, v : Within(eng, eng', 3, {l, v} \cap Users)
  <2>1. Within(eng, eng', 3, {u, u} \cap Users)
    BY <1>0 DEF Within
  <2>. QED  BY <2>1
<1>1. CASE NewBlock
  BY <1>1 DEF NewBlock, Inv, Storage
<1>2. CASE UpdateFGKeeper
  <2>1. Within(eng, eng', 0, {})
    BY <1>2, UpdateFGTracks DEF UpdateFGKeeper
  <2>2. Within(eng, eng', 3, {0, 0} \cap Users)
    BY <2>1 DEF Within
  <2>. QED  BY <2>2
<1>3. ASSUME NEW u \in Users, ExecuteTrade(u)
      PROVE  Within(eng, eng', 1, {u})
  BY <1>3, TradeTracks DEF ExecuteTrade
<1>4. ASSUME NEW u \in Users, AddLiquidity(u)
      PROVE  Within(eng, eng', 1, {u})
  BY <1>4, AddLiquidityTracks
<1>5. ASSUME NEW u \in Users, RemoveLiquidity(u)
      PROVE  Within(eng, eng', 1, {u})
  BY <1>5, RemoveTracks DEF RemoveLiquidity
<1>6. ASSUME NEW u \in Users, RealizePnL(u) \/ UpdateLpSnapshot(u)
      PROVE  Within(eng, eng', 0, {u})
  BY <1>6, SettleAfterAccrualTracks DEF RealizePnL, UpdateLpSnapshot
<1>7. ASSUME NEW u \in Users, CloseAndWithdraw(u)
      PROVE  Within(eng, eng', 2, {u})
  BY <1>7, CloseTracks DEF CloseAndWithdraw
<1>8. ASSUME NEW l \in Users, NEW u \in Users, Liquidate(l, u)
      PROVE  \E k, v : Within(eng, eng', 3, {k, v} \cap Users)
  <2>1. {l, u} \cap Users = {l, u}
    OBVIOUS
  <2>. QED  BY <1>8, <2>1, LiquidateTracks
<1>9. CASE UNCHANGED eng
  BY <1>9
<1>10. ASSUME NEW u \in Users,
              \/ ExecuteTrade(u) \/ AddLiquidity(u) \/ RemoveLiquidity(u)
              \/ RealizePnL(u) \/ UpdateLpSnapshot(u) \/ CloseAndWithdraw(u)
       PROVE  \E l, v : Within(eng, eng', 3, {l, v} \cap Users)
  <2>1. \E n \in 0..3 : Within(eng, eng', n, {u})
    BY <1>3, <1>4, <1>5, <1>6, <1>7, <1>10
  <2>. QED  BY <1>0, <2>1
<1>. QED  BY <1>1, <1>2, <1>8, <1>9, <1>10 DEF Next

-----------------------------------------------------------------------------
(* What tracks is a step of LpTracking.                                    *)

\* SnapshotOf and BookOf of any storage.
SnapshotIn(s, u) ==
    IF s.lp[u].active THEN <<s.lp[u].epoch, s.lp[u].m, s.lp[u].g>> ELSE <<>>

BookIn(s, u) ==
    LET e == s.epochs[s.lp[u].epoch]
    IN  IF s.lp[u].active
        THEN [updates |-> Since(e.m, s.lp[u].m), accruals |-> Since(e.g, s.lp[u].g)]
        ELSE [updates |-> 0, accruals |-> 0]

LEMMA NoTriple ==
    ASSUME NEW a, NEW b, NEW c
    PROVE  <<a, b, c>> # <<>>
OBVIOUS

\* A difference grows by one with the later number, modulo Modulus.
LEMMA SinceTick ==
    ASSUME NEW x \in Counter, NEW y \in Counter
    PROVE  /\ Since(x, y) \in Counter
           /\ Since(x, x) = 0
           /\ Tracking!Tick(x) \in Counter
           /\ Since(Tracking!Tick(x), y) = Tracking!Tick(Since(x, y))
<1>1. /\ Modulus \in Nat \ {0} /\ x \in 0..(Modulus - 1) /\ y \in 0..(Modulus - 1)
  BY BoundsAreNat DEF Counter
<1>2. Since(x, y) \in Counter /\ Since(x, x) = 0 /\ Tracking!Tick(x) \in Counter
  BY <1>1 DEF Since, Counter, Tracking!Tick
<1>3. Since(Tracking!Tick(x), y) = Tracking!Tick(Since(x, y))
  <2>1. CASE x + 1 = Modulus
    BY <1>1, <2>1 DEF Since, Tracking!Tick
  <2>2. CASE x + 1 # Modulus
    BY <1>1, <2>2 DEF Since, Tracking!Tick
  <2>. QED  BY <2>1, <2>2
<1>. QED  BY <1>2, <1>3

LEMMA SinceTimes ==
    ASSUME NEW x \in Counter, NEW y \in Counter, NEW k \in 0..3
    PROVE  Since(Tracking!Times(x, k), y) = Tracking!Times(Since(x, y), k)
<1>. DEFINE T(n) == Tracking!Tick(n)
<1>1. k \in {0, 1, 2, 3}
  OBVIOUS
<1>2. T(x) \in Counter /\ T(T(x)) \in Counter
  BY SinceTick
<1>3. /\ Since(T(x), y) = T(Since(x, y))
      /\ Since(T(T(x)), y) = T(T(Since(x, y)))
      /\ Since(T(T(T(x))), y) = T(T(T(Since(x, y))))
  BY <1>2, SinceTick
<1>4. \A n : /\ Tracking!Times(n, 0) = n
             /\ Tracking!Times(n, 1) = T(n)
             /\ Tracking!Times(n, 2) = T(T(n))
             /\ Tracking!Times(n, 3) = T(T(T(n)))
  BY DEF Tracking!Times
<1>. HIDE DEF T
<1>. QED  BY <1>1, <1>3, <1>4

\* The types of a snapshot and of its epoch.
LEMMA Counters ==
    ASSUME NEW s, Inv(s), NEW v \in Users
    PROVE  LET e == s.lp[v].epoch
           IN  /\ e \in EpochIds /\ s.lp[v].active \in BOOLEAN
               /\ s.lp[v].m \in Counter /\ s.lp[v].g \in Counter
               /\ s.epochs[e].m \in Counter /\ s.epochs[e].g \in Counter
BY DEF Inv, Storage, Lp, Epoch

\* The books of the abstract specification have their type.
LEMMA BooksTyped ==
    ASSUME NEW s, Inv(s), NEW v \in Users
    PROVE  /\ SnapshotIn(s, v) \in (EpochIds \X Counter \X Counter) \cup {<<>>}
           /\ BookIn(s, v) \in [updates : Tracking!Counts, accruals : Tracking!Counts]
<1>1. 0 \in Counter /\ Tracking!Counts = Counter
  BY BoundsAreNat DEF Counter, Tracking!Counts
<1>2. CASE s.lp[v].active
  BY <1>1, <1>2, Counters, SinceTick DEF SnapshotIn, BookIn
<1>3. CASE ~s.lp[v].active
  BY <1>1, <1>3 DEF SnapshotIn, BookIn
<1>. QED  BY <1>2, <1>3

\* A snapshot that stays has its book go on.
LEMMA BookGoesOn ==
    ASSUME NEW s, Inv(s), NEW r, Inv(r), NEW k \in 0..3, NEW A, Tracks(s, r, k, A),
           NEW v \in Users, Stays(s, r, v), r.lp[v].m = s.lp[v].m
    PROVE  /\ BookIn(r, v).updates = Tracking!Times(BookIn(s, v).updates, k)
           /\ r.lp[v].g = s.lp[v].g
                => BookIn(r, v) = Tracking!Entered(BookIn(s, v), k, s.due /\ ~r.due)
<1>. DEFINE e == s.lp[v].epoch
            acc == s.due /\ ~r.due
<1>1. /\ r.lp[v].epoch = e /\ s.lp[v].active /\ r.lp[v].active
      /\ Advanced(s, r, e, k)
  BY DEF Stays, Tracks
<1>2. /\ s.lp[v].m \in Counter /\ s.lp[v].g \in Counter
      /\ s.epochs[e].m \in Counter /\ s.epochs[e].g \in Counter
  BY Counters
<1>3. /\ BookIn(s, v) = [updates  |-> Since(s.epochs[e].m, s.lp[v].m),
                         accruals |-> Since(s.epochs[e].g, s.lp[v].g)]
      /\ BookIn(r, v) = [updates  |-> Since(r.epochs[e].m, s.lp[v].m),
                         accruals |-> Since(r.epochs[e].g, r.lp[v].g)]
  BY <1>1 DEF BookIn
<1>4. Since(r.epochs[e].m, s.lp[v].m) = Tracking!Times(Since(s.epochs[e].m, s.lp[v].m), k)
  BY <1>1, <1>2, SinceTimes DEF Advanced
<1>5. /\ acc => r.epochs[e].g = Tracking!Tick(s.epochs[e].g)
      /\ ~acc => r.epochs[e].g = s.epochs[e].g
  BY <1>1 DEF Advanced, Plus1, Tracking!Tick
<1>6. /\ acc => Since(r.epochs[e].g, s.lp[v].g) = Tracking!Tick(Since(s.epochs[e].g, s.lp[v].g))
      /\ ~acc => Since(r.epochs[e].g, s.lp[v].g) = Since(s.epochs[e].g, s.lp[v].g)
  BY <1>2, <1>5, SinceTick
<1>. HIDE DEF acc
<1>7. ASSUME r.lp[v].g = s.lp[v].g
      PROVE  BookIn(r, v) = Tracking!Entered(BookIn(s, v), k, acc)
  BY <1>3, <1>4, <1>6, <1>7 DEF Tracking!Entered
<1>. QED  BY <1>3, <1>4, <1>7 DEF acc

\* A replaced snapshot has its book restarted, or its accruals settled.
LEMMA BookReplaced ==
    ASSUME NEW s, Inv(s), NEW r, Inv(r), NEW k \in 0..3, NEW A, Tracks(s, r, k, A),
           NEW v \in Users, r.lp[v].active, Touched(s, r, v, k)
    PROVE  BookIn(r, v) \in Tracking!Replaced(BookIn(s, v), k, s.due /\ ~r.due)
<1>. DEFINE e == r.lp[v].epoch
            acc == s.due /\ ~r.due
            b == BookIn(s, v)
<1>1. /\ r.lp[v].m \in Counter /\ r.lp[v].g \in Counter
      /\ r.epochs[e].m \in Counter /\ r.epochs[e].g \in Counter
  BY Counters
<1>2. BookIn(r, v) = [updates  |-> Since(r.epochs[e].m, r.lp[v].m), accruals |-> 0]
  BY <1>1, SinceTick DEF Touched, BookIn
<1>3. CASE Stays(s, r, v) /\ r.lp[v].m = s.lp[v].m
  <2>1. BookIn(r, v).updates = Tracking!Times(b.updates, k)
    BY <1>3, BookGoesOn
  <2>. HIDE DEF acc, b
  <2>2. BookIn(r, v) = [Tracking!Entered(b, k, acc) EXCEPT !.accruals = 0]
    BY <1>2, <2>1 DEF Tracking!Entered
  <2>3. BookIn(r, v) \in Tracking!Replaced(b, k, acc)
    BY <2>2 DEF Tracking!Replaced
  <2>. QED  BY <2>3 DEF acc, b
<1>4. ASSUME NEW j \in 0..k, r.epochs[e].m = Tracking!Times(r.lp[v].m, j)
      PROVE  BookIn(r, v) \in Tracking!Replaced(b, k, acc)
  <2>1. j \in 0..3
    OBVIOUS
  <2>2. Since(r.epochs[e].m, r.lp[v].m) = Tracking!Times(0, j)
    <3>. DEFINE m == r.lp[v].m
    <3>1. m \in Counter /\ r.epochs[e].m = Tracking!Times(m, j)
      BY <1>1, <1>4
    <3>. HIDE DEF m
    <3>2. Since(m, m) = 0 /\ Since(Tracking!Times(m, j), m) = Tracking!Times(Since(m, m), j)
      BY ONLY <2>1, <3>1, SinceTimes, SinceTick
    <3>3. Since(r.epochs[e].m, m) = Tracking!Times(0, j)
      BY <3>1, <3>2
    <3>. QED  BY <3>3 DEF m
  <2>3. BookIn(r, v) = Tracking!Entered(Tracking!Empty, j, FALSE)
    BY <1>2, <2>2 DEF Tracking!Entered, Tracking!Empty
  <2>. HIDE DEF acc, b
  <2>. QED  BY <2>3 DEF Tracking!Replaced
<1>. QED  BY <1>3, <1>4 DEF Touched

\* What tracks is a call of the abstract specification to everybody.
LEMMA EverybodyCalled ==
    ASSUME NEW s, Inv(s), NEW r, Inv(r), NEW k \in 0..3, NEW A, Tracks(s, r, k, A),
           NEW v \in Users
    PROVE  LET acc == s.due /\ ~r.due
           IN  /\ SnapshotIn(r, v) = <<>> => BookIn(r, v) = Tracking!Empty
               /\ SnapshotIn(r, v) = SnapshotIn(s, v) /\ SnapshotIn(s, v) # <<>>
                   => BookIn(r, v) = Tracking!Entered(BookIn(s, v), k, acc)
               /\ SnapshotIn(r, v) # SnapshotIn(s, v) /\ SnapshotIn(r, v) # <<>>
                   => BookIn(r, v) \in Tracking!Replaced(BookIn(s, v), k, acc)
<1>. DEFINE acc == s.due /\ ~r.due
<1>1. /\ s.lp[v].active <=> SnapshotIn(s, v) # <<>>
      /\ r.lp[v].active <=> SnapshotIn(r, v) # <<>>
  BY NoTriple DEF SnapshotIn
<1>2. SnapshotIn(r, v) = <<>> => BookIn(r, v) = Tracking!Empty
  BY <1>1 DEF BookIn, Tracking!Empty
<1>3. ASSUME SnapshotIn(r, v) = SnapshotIn(s, v), SnapshotIn(s, v) # <<>>
      PROVE  BookIn(r, v) = Tracking!Entered(BookIn(s, v), k, acc)
  <2>1. s.lp[v].active /\ r.lp[v].active
    BY <1>1, <1>3
  <2>2. <<r.lp[v].epoch, r.lp[v].m, r.lp[v].g>> = <<s.lp[v].epoch, s.lp[v].m, s.lp[v].g>>
    BY <1>3, <2>1 DEF SnapshotIn
  <2>3. Stays(s, r, v) /\ r.lp[v].m = s.lp[v].m /\ r.lp[v].g = s.lp[v].g
    BY <2>1, <2>2 DEF Stays
  <2>. QED  BY <2>3, BookGoesOn
<1>4. ASSUME SnapshotIn(r, v) # SnapshotIn(s, v), SnapshotIn(r, v) # <<>>
      PROVE  BookIn(r, v) \in Tracking!Replaced(BookIn(s, v), k, acc)
  <2>1. r.lp[v].active
    BY <1>1, <1>4
  <2>2. v \in A
    BY <1>4, <2>1 DEF Tracks, SameSnapshot, SnapshotIn
  <2>3. Touched(s, r, v, k)
    BY <2>2 DEF Tracks
  <2>. QED  BY <2>1, <2>3, BookReplaced
<1>. QED  BY <1>2, <1>3, <1>4

\* The abstract specification counts with the same operator.
LEMMA TrackingCardinality ==
    ASSUME NEW S
    PROVE  Tracking!Cardinality(S) = Cardinality(S)
BY Zenon DEF Cardinality, Tracking!Cardinality

\* No LP misses an update or an accrual, or gets one twice, whoever else joins,
\* leaves, is liquidated or rolls the epoch: the epochs implement a book of
\* one's own for everybody (funding.rs and liquidity.rs as a whole).
THEOREM ImplementsTracking == Spec => TracksEveryUpdate
<1>. DEFINE snapshot == [u \in Users |-> SnapshotOf(u)]
            book == [u \in Users |-> BookOf(u)]
<1>1. Init => Tracking!Init
  BY DEF Init, NoPosition, Tracking!Init, Tracking!Empty, SnapshotOf, BookOf
<1>2. Inv(eng) /\ Inv(eng)' /\ [Next]_eng => [Tracking!Next]_<<snapshot, book>>
  <2>. SUFFICES ASSUME Inv(eng), Inv(eng'), [Next]_eng
                PROVE  [Tracking!Next]_<<snapshot, book>>
    OBVIOUS
  <2>1. \A u \in Users : /\ SnapshotOf(u) = SnapshotIn(eng, u)
                         /\ SnapshotOf(u)' = SnapshotIn(eng', u)
                         /\ BookOf(u) = BookIn(eng, u)
                         /\ BookOf(u)' = BookIn(eng', u)
    BY DEF SnapshotOf, SnapshotIn, BookOf, BookIn
  <2>2. /\ \A u \in Users : snapshot[u] = SnapshotIn(eng, u) /\ snapshot'[u] = SnapshotIn(eng', u)
        /\ \A u \in Users : book[u] = BookIn(eng, u) /\ book'[u] = BookIn(eng', u)
        /\ DOMAIN snapshot' = Users /\ DOMAIN book' = Users
    BY <2>1
  <2>3. CASE UNCHANGED <<eng.epochs, eng.lp>>
    <3>1. UNCHANGED <<snapshot, book>>
      BY <2>3 DEF SnapshotOf, BookOf
    <3>. QED  BY <3>1
  <2>4. ASSUME NEW l, NEW u, Within(eng, eng', 3, {l, u} \cap Users)
        PROVE  Tracking!Next
    <3>1. PICK k \in 0..3, A \in SUBSET ({l, u} \cap Users) : Tracks(eng, eng', k, A)
      BY <2>4 DEF Within
    <3>2. Tracking!TypeOK'
      BY <2>1, BooksTyped DEF Tracking!TypeOK
    <3>3. Cardinality({v \in Users : snapshot'[v] # snapshot[v]}) <= 2
      <4>. DEFINE C == {v \in Users : snapshot'[v] # snapshot[v]}
      <4>1. \A v \in Users \ A : SnapshotIn(eng', v) = SnapshotIn(eng, v)
        BY <3>1 DEF Tracks, SameSnapshot, SnapshotIn
      <4>2. C \in SUBSET {l, u}
        BY <2>2, <3>1, <4>1
      <4>. HIDE DEF C
      <4>3. IsFiniteSet({l, u}) /\ Cardinality({l, u}) <= 2
        <5>1. IsFiniteSet({l}) /\ Cardinality({l}) = 1
          BY FS_Singleton
        <5>2. IsFiniteSet({l} \cup {u}) /\ Cardinality({l} \cup {u}) <= 2
          BY <5>1, FS_AddElement
        <5>3. {l} \cup {u} = {l, u}
          OBVIOUS
        <5>. QED  BY <5>2, <5>3
      <4>4. Cardinality(C) <= Cardinality({l, u}) /\ IsFiniteSet(C)
        BY <4>2, <4>3, FS_Subset
      <4>5. Cardinality(C) \in Nat /\ Cardinality({l, u}) \in Nat
        BY <4>3, <4>4, FS_CardinalityType
      <4>. QED  BY <4>3, <4>4, <4>5 DEF C
    <3>4. Tracking!Call
      <4>. DEFINE acc == eng.due /\ ~eng'.due
      <4>1. acc \in BOOLEAN /\ k \in 0..Tracking!MaxUpdatesPerCall
        BY DEF Tracking!MaxUpdatesPerCall
      <4>2. ASSUME NEW v \in Users
            PROVE  /\ snapshot'[v] = <<>> => book'[v] = Tracking!Empty
                   /\ snapshot'[v] = snapshot[v] /\ snapshot[v] # <<>>
                       => book'[v] = Tracking!Entered(book[v], k, acc)
                   /\ snapshot'[v] # snapshot[v] /\ snapshot'[v] # <<>>
                       => book'[v] \in Tracking!Replaced(book[v], k, acc)
        BY <2>2, <3>1, EverybodyCalled
      <4>. HIDE DEF acc
      <4>. QED  BY <4>1, <4>2 DEF Tracking!Call
    <3>. QED  BY <3>2, <3>3, <3>4, TrackingCardinality DEF Tracking!Next
  <2>. QED  BY <2>3, <2>4, NextTracks
<1>. QED  BY <1>1, <1>2, Invariance, PTL DEF Spec, TracksEveryUpdate, Tracking!Spec
=============================================================================
