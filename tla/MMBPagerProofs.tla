--------------------------- MODULE MMBPagerProofs ---------------------------
(***************************************************************************)
(* Safety of the native pager for every model, capacity, set of threads    *)
(* and number of requests.                                                 *)
(*                                                                         *)
(* The invariant IInv is inductive.  Its conjuncts need each other: that a *)
(* held block is never evicted rests on the lease counters being exact;    *)
(* that the counters stay exact rests on a lease holding a block at most   *)
(* once and on nobody holding a block about to be inserted; that           *)
(* resident_bytes never falls below zero rests on it being the exact size  *)
(* of the cache.  Each conjunct's preservation is a lemma that assumes all *)
(* of IInv before the step.                                                *)
(***************************************************************************)
EXTENDS MMBPager, FiniteSetTheorems, TLAPS
-----------------------------------------------------------------------------
(* The size of a finite set of blocks                                     *)

\* The addresses of one block are finite, as many as it has bytes.
LEMMA AddressesOfOne ==
    ASSUME NEW Size, NEW b, Size[b] \in Nat
    PROVE  /\ IsFiniteSet(Addresses(Size, b))
           /\ Cardinality(Addresses(Size, b)) = Size[b]
<1> DEFINE I == 1 .. Size[b]
<1>1. IsFiniteSet({b}) /\ Cardinality({b}) = 1
  BY FS_Singleton
<1>2. IsFiniteSet(I) /\ Cardinality(I) = Size[b]
  <2>1. ASSUME NEW n \in Nat
        PROVE  IsFiniteSet(1 .. n) /\ Cardinality(1 .. n) = n
    <3>1. 1 \in Int /\ n \in Int /\ (IF 1 > n THEN 0 ELSE n - 1 + 1) = n
      OBVIOUS
    <3> QED BY <3>1, FS_Interval
  <2> QED BY <2>1
<1> HIDE DEF I
<1>3. /\ IsFiniteSet({b} \X I)
      /\ Cardinality({b} \X I) = Cardinality({b}) * Cardinality(I)
  BY <1>1, <1>2, FS_Product
<1>4. Cardinality({b} \X I) = Size[b]
  BY <1>1, <1>2, <1>3
<1>5. QED
  BY <1>3, <1>4 DEF Addresses, I

\* The addresses of a finite set of blocks are finite.
LEMMA AddressesFinite ==
    ASSUME NEW Size, NEW S, IsFiniteSet(S),
           \A b \in S : Size[b] \in Nat
    PROVE  IsFiniteSet(UNION {Addresses(Size, b) : b \in S})
<1> DEFINE A == {Addresses(Size, b) : b \in S}
           f == [b \in S |-> Addresses(Size, b)]
<1>1. f \in Surjection(S, A)
  BY DEF Surjection
<1> HIDE DEF f
<1>2. IsFiniteSet(A)
  <2> HIDE DEF A
  <2> QED BY <1>1, FS_Surjection
<1>3. \A T \in A : IsFiniteSet(T)
  BY AddressesOfOne
<1> HIDE DEF A
<1>4. IsFiniteSet(UNION A)
  BY <1>2, <1>3, FS_UNION
<1>5. QED
  BY <1>4 DEF A

\* Sizes are natural numbers, and no blocks have size zero.
LEMMA BytesOfType ==
    ASSUME NEW Size, NEW S, IsFiniteSet(S),
           \A b \in S : Size[b] \in Nat
    PROVE  BytesOf(Size, S) \in Nat
BY AddressesFinite, FS_CardinalityType DEF BytesOf

\* No blocks, no bytes.
LEMMA BytesOfEmpty == ASSUME NEW Size PROVE BytesOf(Size, {}) = 0
<1>1. UNION {Addresses(Size, b) : b \in {}} = {}
  OBVIOUS
<1>2. QED
  BY <1>1, FS_EmptySet DEF BytesOf

\* A block that joins adds its own size.
LEMMA BytesOfAdd ==
    ASSUME NEW Size, NEW S, IsFiniteSet(S), NEW r, r \notin S,
           \A b \in S \cup {r} : Size[b] \in Nat
    PROVE  BytesOf(Size, S \cup {r})
             = BytesOf(Size, S) + Size[r]
<1> DEFINE U == UNION {Addresses(Size, b) : b \in S}
           V == Addresses(Size, r)
           W == UNION {Addresses(Size, b) : b \in S \cup {r}}
<1>1. W = U \cup V
  OBVIOUS
<1>2. U \cap V = {}
  BY DEF Addresses
<1>3. IsFiniteSet(U)
  BY AddressesFinite
<1>4. IsFiniteSet(V) /\ Cardinality(V) = Size[r]
  BY AddressesOfOne
<1>5. /\ BytesOf(Size, S) = Cardinality(U)
      /\ BytesOf(Size, S \cup {r}) = Cardinality(W)
  BY DEF BytesOf
<1> HIDE DEF U, V, W
<1>6. /\ Cardinality(U \cup V)
           = Cardinality(U) + Cardinality(V) - Cardinality(U \cap V)
      /\ Cardinality(U) \in Nat /\ Cardinality(V) \in Nat
  BY <1>3, <1>4, FS_Union, FS_CardinalityType
<1>7. Cardinality(U \cap V) = 0
  BY <1>2, FS_EmptySet
<1>8. QED
  BY <1>1, <1>4, <1>5, <1>6, <1>7

\* A block that leaves takes its own size away.
LEMMA BytesOfRemove ==
    ASSUME NEW Size, NEW S, IsFiniteSet(S), NEW r \in S,
           \A b \in S : Size[b] \in Nat
    PROVE  /\ BytesOf(Size, S \ {r})
                = BytesOf(Size, S) - Size[r]
           /\ BytesOf(Size, S \ {r}) \in Nat
<1> DEFINE R == S \ {r}
<1>1. IsFiniteSet(R) /\ r \notin R /\ R \cup {r} = S
  BY FS_RemoveElement
<1>2. \A b \in R \cup {r} : Size[b] \in Nat
  BY <1>1
<1> HIDE DEF R
<1>3. BytesOf(Size, R \cup {r}) = BytesOf(Size, R) + Size[r]
  BY <1>1, <1>2, BytesOfAdd
<1>4. BytesOf(Size, R) \in Nat
  BY <1>1, <1>2, BytesOfType
<1>5. Size[r] \in Nat
  OBVIOUS
<1>6. BytesOf(Size, S) = BytesOf(Size, R) + Size[r]
  <2>1. R \cup {r} = S
    BY <1>1
  <2> QED BY <1>3, <2>1, Zenon
<1>7. BytesOf(Size, R) = BytesOf(Size, S) - Size[r]
  BY <1>4, <1>5, <1>6
<1>8. QED
  BY <1>4, <1>7 DEF R
-----------------------------------------------------------------------------

\* Routes, lease numbers and so the entries and holders are finite sets.
LEMMA FiniteSets ==
    ASSUME TypeOK
    PROVE  /\ IsFiniteSet(entries)
           /\ \A S \in SUBSET Route : IsFiniteSet(S)
           /\ \A S \in SUBSET LeaseId : IsFiniteSet(S)
           /\ \A b \in Described : BlockBytes[b] \in Nat \ {0}
<1>1. IsFiniteSet(Route)
  BY PagerAssumption, FS_Product DEF Route
<1>2. IsFiniteSet(LeaseId)
  BY PagerAssumption, FS_Interval DEF LeaseId
<1>3. entries \in SUBSET Route
  BY PagerAssumption DEF TypeOK
<1>4. \A S \in SUBSET Route : IsFiniteSet(S)
  BY <1>1, FS_Subset
<1>5. \A S \in SUBSET LeaseId : IsFiniteSet(S)
  BY <1>2, FS_Subset
<1>6. QED
  BY <1>3, <1>4, <1>5, PagerAssumption

\* What a lease holds is leased, and its counters can be decremented.
LEMMA HeldIsCounted ==
    ASSUME IInv, NEW l \in LeaseId
    PROVE  /\ held[l] \subseteq entries
           /\ \A r \in held[l] : leases[r] \in Nat \ {0}
<1>1. held[l] \subseteq entries
  BY DEF IInv, HeldIsResident, Held
<1>2. ASSUME NEW r \in held[l]
      PROVE  leases[r] \in Nat \ {0}
  <2>1. r \in Route /\ leases[r] \in Nat
    BY DEF IInv, TypeOK
  <2>2. l \in Holders(r) /\ Holders(r) \in SUBSET LeaseId
    BY DEF Holders
  <2>3. IsFiniteSet(Holders(r))
    BY <2>2, FiniteSets DEF IInv
  <2>4. Cardinality(Holders(r)) # 0
    BY <2>2, <2>3, FS_EmptySet
  <2>5. QED
    BY <2>1, <2>4 DEF IInv, LeaseCountsHolders
<1>3. QED
  BY <1>1, <1>2

\* ReleaseEntries on what a lease holds keeps the cache's types.
LEMMA ReleaseEntriesType ==
    ASSUME IInv, NEW l \in LeaseId, ReleaseEntries(held[l])
    PROVE  /\ leases' \in [Route -> Nat]
           /\ last_used' \in [Route -> Nat]
           /\ clock' \in Nat
<1> DEFINE S == held[l]
<1>1. S \in SUBSET Route
  BY DEF IInv, TypeOK
<1>2. \A T \in SUBSET S : T \in SUBSET Route
  BY <1>1
<1>3. \A T \in SUBSET S : Cardinality(T) \in Nat
  BY <1>2, FiniteSets, FS_CardinalityType DEF IInv
<1>4. \A r \in S : leases[r] \in Nat \ {0}
  BY HeldIsCounted
<1> HIDE DEF S
<1>5. \A r \in Route : Cardinality({q \in S : q[2] <= r[2]}) \in Nat
  BY <1>3
<1>6. Cardinality(S) \in Nat
  BY <1>3
<1>7. ReleaseEntries(S)
  BY DEF S
<1>b. /\ leases \in [Route -> Nat] /\ last_used \in [Route -> Nat]
      /\ clock \in Nat
  BY DEF IInv, TypeOK
<1>8. leases' \in [Route -> Nat]
  BY <1>4, <1>7, <1>b DEF ReleaseEntries
<1>9. last_used' \in [Route -> Nat]
  <2>1. \A r \in Route : clock + Cardinality({q \in S : q[2] <= r[2]}) \in Nat
    BY <1>5, <1>b
  <2>2. QED
    BY <1>7, <1>b, <2>1 DEF ReleaseEntries
<1>10. clock' \in Nat
  BY <1>6, <1>7, <1>b DEF ReleaseEntries
<1>11. QED
  BY <1>8, <1>9, <1>10

\* Counting keeps the counters natural.
LEMMA CountType ==
    ASSUME TypeOK, NEW c \in Counters, NEW n \in Nat
    PROVE  Count(c, n) \in [Counters -> Nat]
BY DEF TypeOK, Count

\* The type invariant survives every step.
LEMMA TypeStep == IInv /\ [Next]_vars => TypeOK'
<1> SUFFICES ASSUME IInv, [Next]_vars
             PROVE  TypeOK'
  OBVIOUS
<1> USE DEF TypeOK, Locations, cacheVars, leaseVars, threadVars
<1>0. TypeOK
  BY DEF IInv
<1>a. \A b \in Described : b \in Route /\ BlockBytes[b] \in Nat
  BY PagerAssumption
<1>1. ASSUME NEW t \in Threads, NEW layer \in Layers, NEW S \in SUBSET Experts,
             NEW b \in BOOLEAN, Acquire(t, layer, S, b)
      PROVE  TypeOK'
  <2>1. stats' \in [Counters -> Nat]
    BY <1>0, <1>1, CountType DEF Acquire, Counters
  <2>2. next_lease_id \in LeaseId /\ next_lease_id' \in 1 .. MaxLeases + 1
    BY <1>0, <1>1, PagerAssumption DEF Acquire, LeaseId
  <2>3. next_lease_id \in Nat /\ {layer} \X S \in SUBSET Route
    BY <1>0 DEF Route
  <2>4. QED
    BY <1>0, <1>1, <2>1, <2>2, <2>3 DEF Acquire
<1>2. ASSUME NEW t \in Threads, NEW l \in LeaseId, Release(t, l)
      PROVE  TypeOK'
  <2>1. ReleaseEntries(held[l])
    BY <1>2 DEF Release, GiveBack
  <2>2. QED
    BY <1>0, <1>2, <2>1, ReleaseEntriesType
       DEF Release, GiveBack, ReleaseEntries
<1>3. ASSUME NEW t \in Threads, NEW l \in LeaseId, RecordPagedKernel(t, l)
      PROVE  TypeOK'
  <2>1. stats' \in [Counters -> Nat]
    BY <1>0, <1>3, CountType DEF RecordPagedKernel, Counters
  <2>2. l \in Nat
    BY DEF LeaseId
  <2>3. QED
    BY <1>0, <1>3, <2>1, <2>2 DEF RecordPagedKernel
<1>4. ASSUME NEW t \in Threads, CommitRelease(t)
      PROVE  TypeOK'
  <2>1. cur[t] \in LeaseId
    BY <1>4 DEF CommitRelease, IInv, CallsAndLeases, ThreadAgrees, Locked
  <2>2. ReleaseEntries(held[cur[t]])
    BY <1>4 DEF CommitRelease, GiveBack
  <2>3. QED
    BY <1>0, <1>4, <2>1, <2>2, ReleaseEntriesType
       DEF CommitRelease, GiveBack, ReleaseEntries
<1>5. ASSUME NEW t \in Threads, NEW r \in todo[t], Hit(t, r)
      PROVE  TypeOK'
  <2>1. cur[t] \in LeaseId
    BY <1>5 DEF Hit, AtRoute, IInv, CallsAndLeases, ThreadAgrees, Locked
  <2>2. stats' \in [Counters -> Nat]
    BY <1>0, <1>5 DEF Hit, Counters
  <2>3. r \in Route
    BY <1>0
  <2>4. QED
    BY <1>0, <1>5, <2>1, <2>2, <2>3 DEF Hit, LeaseEntry, Push
<1>6. ASSUME NEW t \in Threads, NEW r \in todo[t], Miss(t, r)
      PROVE  TypeOK'
  <2>1. stats' \in [Counters -> Nat]
    BY <1>0, <1>a, <1>6 DEF Miss, Counters
  <2>2. r \in Nat \X Nat
    BY <1>0, <1>6, PagerAssumption DEF Miss, Route
  <2>3. QED
    BY <1>0, <1>6, <2>1, <2>2 DEF Miss
<1>7. ASSUME NEW t \in Threads, NEW v \in entries, Evict(t, v)
      PROVE  TypeOK'
  <2>1. IsFiniteSet(entries) /\ \A b \in entries : BlockBytes[b] \in Nat
    BY <1>0, FiniteSets
  <2>2. BytesOf(BlockBytes, entries \ {v}) \in Nat
        /\ BytesOf(BlockBytes, entries \ {v})
             = BytesOf(BlockBytes, entries) - BlockBytes[v]
    BY <2>1, BytesOfRemove
  <2>3. resident_bytes' \in Nat
    BY <1>7, <2>2 DEF Evict, IInv, BudgetKept
  <2>4. stats' \in [Counters -> Nat]
    BY <1>0, <1>7, CountType DEF Evict, Counters
  <2>5. QED
    BY <1>0, <1>7, <2>3, <2>4 DEF Evict
<1>8. ASSUME NEW t \in Threads, Insert(t)
      PROVE  TypeOK'
  <2>1. cur[t] \in LeaseId /\ target[t] \in Described
    BY <1>8 DEF Insert, IInv, CallsAndLeases, ThreadAgrees, Locked
  <2>2. stats' \in [Counters -> Nat]
    BY <1>0, <1>8, CountType DEF Insert, Counters
  <2>3. target[t] \in Route /\ BlockBytes[target[t]] \in Nat
    BY <1>a, <2>1
  <2>4. QED
    BY <1>0, <1>8, <2>1, <2>2, <2>3 DEF Insert, LeaseEntry, Push
<1>9. ASSUME NEW t \in Threads, Return(t)
      PROVE  TypeOK'
  BY <1>0, <1>9 DEF Return
<1>10. ASSUME NEW t \in Threads, Unwind(t), Locked(t),
              stats' \in [Counters -> Nat]
       PROVE  TypeOK'
  <2>1. cur[t] \in LeaseId
    BY <1>10 DEF IInv, CallsAndLeases, ThreadAgrees, Locked
  <2>2. ReleaseEntries(held[cur[t]])
    BY <1>10 DEF Unwind
  <2>3. QED
    BY <1>0, <1>10, <2>1, <2>2, ReleaseEntriesType DEF Unwind, ReleaseEntries
<1>11. ASSUME NEW t \in Threads, NEW r \in todo[t],
              UnknownRoute(t, r) \/ ReadFails(t, r)
       PROVE  TypeOK'
  <2>1. Count("misses", 1) \in [Counters -> Nat]
    BY <1>0, CountType DEF Counters
  <2>2. stats' \in [Counters -> Nat]
    BY <1>0, <1>11, <2>1 DEF UnknownRoute, ReadFails
  <2>3. QED
    BY <1>10, <1>11, <2>2 DEF UnknownRoute, ReadFails, AtRoute, Locked
<1>12. ASSUME NEW t \in Threads, TooLarge(t) \/ BudgetExhausted(t)
       PROVE  TypeOK'
  BY <1>0, <1>10, <1>12 DEF TooLarge, BudgetExhausted, Locked
<1>13. CASE UNCHANGED vars
  BY <1>0, <1>13 DEF vars
<1>14. QED
  BY <1>1, <1>2, <1>3, <1>4, <1>5, <1>6, <1>7, <1>8, <1>9, <1>11, <1>12, <1>13
     DEF Next, Outside, Inside

\* What unlocks: no other thread is inside while t is.
LEMMA Alone ==
    ASSUME IInv, NEW t \in Threads, NEW u \in Threads, u # t,
           Locked(t) \/ mutex = NoThread
    PROVE  ~Locked(u)
BY PagerAssumption DEF IInv, CallsAndLeases, ThreadAgrees, Locked

\* The agreement of threads and leases survives every step.
LEMMA CallsStep == IInv /\ TypeOK' /\ [Next]_vars => CallsAndLeases'
<1> SUFFICES ASSUME IInv, TypeOK', [Next]_vars
             PROVE  CallsAndLeases'
  OBVIOUS
<1> USE DEF CallsAndLeases, Locked, ThreadAgrees, LeaseAgrees
<1>0. TypeOK /\ CallsAndLeases
  BY DEF IInv
<1>1. ASSUME NEW t \in Threads, NEW layer \in Layers, NEW S \in SUBSET Experts,
             NEW b \in BOOLEAN, Acquire(t, layer, S, b)
      PROVE  CallsAndLeases'
  <2>a. {layer} \X S # {}
    <3>1. PICK e \in S : TRUE
      BY <1>1 DEF Acquire
    <3>2. <<layer, e>> \in {layer} \X S
      BY <3>1
    <3>3. QED
      BY <3>2
  <2>b. next_lease_id \in LeaseId /\ held[next_lease_id] = {}
    <3>1. next_lease_id \in LeaseId
      BY <1>0, <1>1, PagerAssumption DEF Acquire, TypeOK, LeaseId
    <3>2. LeaseAgrees(next_lease_id) /\ next_lease_id >= next_lease_id
      BY <1>0, <3>1 DEF TypeOK
    <3>3. QED
      BY <3>1, <3>2
  <2>1. ASSUME NEW u \in Threads
        PROVE  ThreadAgrees(u)'
    <3>1. CASE u = t
      BY <1>0, <1>1, <2>a, <2>b, <3>1 DEF Acquire, TypeOK, cacheVars
    <3>2. CASE u # t
      BY <1>0, <1>1, <2>b, <3>2, PagerAssumption DEF Acquire, TypeOK, cacheVars
    <3>3. QED
      BY <3>1, <3>2
  <2>2. ASSUME NEW k \in LeaseId
        PROVE  LeaseAgrees(k)'
    BY <1>0, <1>1, PagerAssumption DEF Acquire, TypeOK, LeaseId, cacheVars
  <2>3. QED
    BY <2>1, <2>2
<1>2. ASSUME NEW t \in Threads, NEW l \in LeaseId, Release(t, l)
      PROVE  CallsAndLeases'
  <2>1. ASSUME NEW u \in Threads
        PROVE  ThreadAgrees(u)'
    BY <1>0, <1>2, PagerAssumption DEF Release, GiveBack, ReleaseEntries, TypeOK, LeaseId, threadVars
  <2>2. ASSUME NEW k \in LeaseId
        PROVE  LeaseAgrees(k)'
    BY <1>0, <1>2, PagerAssumption DEF Release, GiveBack, ReleaseEntries, TypeOK, LeaseId, threadVars
  <2>3. QED
    BY <2>1, <2>2
<1>3. ASSUME NEW t \in Threads, NEW l \in LeaseId, RecordPagedKernel(t, l)
      PROVE  CallsAndLeases'
  <2>1. ASSUME NEW u \in Threads
        PROVE  ThreadAgrees(u)'
    BY <1>0, <1>3, PagerAssumption DEF RecordPagedKernel, TypeOK, LeaseId, cacheVars, leaseVars
  <2>2. ASSUME NEW k \in LeaseId
        PROVE  LeaseAgrees(k)'
    BY <1>0, <1>3, PagerAssumption DEF RecordPagedKernel, TypeOK, LeaseId, cacheVars, leaseVars
  <2>3. QED
    BY <2>1, <2>2
<1>4. ASSUME NEW t \in Threads, CommitRelease(t)
      PROVE  CallsAndLeases'
  <2>1. ASSUME NEW u \in Threads
        PROVE  ThreadAgrees(u)'
    BY <1>0, <1>4, PagerAssumption DEF CommitRelease, GiveBack, ReleaseEntries, TypeOK, LeaseId
  <2>2. ASSUME NEW k \in LeaseId
        PROVE  LeaseAgrees(k)'
    BY <1>0, <1>4, PagerAssumption DEF CommitRelease, GiveBack, ReleaseEntries, TypeOK, LeaseId
  <2>3. QED
    BY <2>1, <2>2
<1>5. ASSUME NEW t \in Threads, NEW r \in todo[t], Hit(t, r)
      PROVE  CallsAndLeases'
  BY <1>0, <1>5, SMTT(30) DEF Hit, AtRoute, LeaseEntry, Push, TypeOK, LeaseId
<1>6. ASSUME NEW t \in Threads, NEW r \in todo[t], Miss(t, r)
      PROVE  CallsAndLeases'
  BY <1>0, <1>6, SMTT(30) DEF Miss, AtRoute, TypeOK, LeaseId, cacheVars, leaseVars
<1>7. ASSUME NEW t \in Threads, NEW v \in entries, Evict(t, v)
      PROVE  CallsAndLeases'
  BY <1>0, <1>7 DEF Evict, TypeOK, LeaseId, leaseVars, threadVars
<1>8. ASSUME NEW t \in Threads, Insert(t)
      PROVE  CallsAndLeases'
  BY <1>0, <1>8, SMTT(30) DEF Insert, LeaseEntry, Push, TypeOK, LeaseId
<1>9. ASSUME NEW t \in Threads, Return(t)
      PROVE  CallsAndLeases'
  <2>1. ASSUME NEW u \in Threads
        PROVE  ThreadAgrees(u)'
    BY <1>0, <1>9, PagerAssumption DEF Return, TypeOK, LeaseId, cacheVars
  <2>2. ASSUME NEW k \in LeaseId
        PROVE  LeaseAgrees(k)'
    BY <1>0, <1>9, PagerAssumption DEF Return, TypeOK, LeaseId, cacheVars
  <2>3. QED
    BY <2>1, <2>2
<1>10. ASSUME NEW t \in Threads, Unwind(t), Locked(t)
       PROVE  CallsAndLeases'
  BY <1>0, <1>10, PagerAssumption DEF Unwind, ReleaseEntries, TypeOK, LeaseId
<1>11. ASSUME NEW t \in Threads, NEW r \in todo[t],
              UnknownRoute(t, r) \/ ReadFails(t, r)
       PROVE  CallsAndLeases'
  BY <1>10, <1>11 DEF UnknownRoute, ReadFails, AtRoute
<1>12. ASSUME NEW t \in Threads, TooLarge(t) \/ BudgetExhausted(t)
       PROVE  CallsAndLeases'
  BY <1>10, <1>12 DEF TooLarge, BudgetExhausted
<1>13. CASE UNCHANGED vars
  BY <1>0, <1>13 DEF vars, cacheVars, leaseVars, threadVars
<1>14. QED
  BY <1>1, <1>2, <1>3, <1>4, <1>5, <1>6, <1>7, <1>8, <1>9, <1>11, <1>12, <1>13
     DEF Next, Outside, Inside

\* The holders of a block are finitely many.
LEMMA HeldIsFinite ==
    ASSUME TypeOK, NEW r
    PROVE  IsFiniteSet(Holders(r)) /\ Cardinality(Holders(r)) \in Nat
<1>1. Holders(r) \in SUBSET LeaseId
  BY DEF Holders
<1>2. QED
  BY <1>1, FiniteSets, FS_CardinalityType

\* A block joins one lease: its counter grows by one with its holders.
LEMMA PushCounts ==
    ASSUME IInv, NEW l \in LeaseId, NEW r \in Route, r \notin held[l],
           held' = [held EXCEPT ![l] = @ \cup {r}],
           leases' = [leases EXCEPT ![r] = @ + 1]
    PROVE  LeaseCountsHolders'
<1>0. TypeOK /\ LeaseCountsHolders
  BY DEF IInv
<1>1. ASSUME NEW q \in Route
      PROVE  leases'[q] = Cardinality(Holders(q)')
  <2>1. IsFiniteSet(Holders(q)) /\ leases[q] = Cardinality(Holders(q))
    BY <1>0, HeldIsFinite DEF LeaseCountsHolders
  <2>2. CASE q = r
    <3>1. Holders(q)' = Holders(q) \cup {l} /\ l \notin Holders(q)
      BY <1>0, <2>2 DEF Holders, TypeOK
    <3>2. Cardinality(Holders(q)') = Cardinality(Holders(q)) + 1
      BY <2>1, <3>1, FS_AddElement
    <3>3. QED
      BY <1>0, <2>1, <2>2, <3>2 DEF TypeOK
  <2>3. CASE q # r
    <3>1. Holders(q)' = Holders(q)
      BY <1>0, <2>3 DEF Holders, TypeOK
    <3>2. leases'[q] = leases[q]
      BY <1>0, <2>3 DEF TypeOK
    <3>3. QED
      BY <2>1, <3>1, <3>2
  <2>4. QED
    BY <2>2, <2>3
<1>2. QED
  BY <1>1 DEF LeaseCountsHolders

\* A lease gives up all it holds: each of those counters falls by one.
LEMMA ReleaseCounts ==
    ASSUME IInv, NEW l \in LeaseId, ReleaseEntries(held[l]),
           held' = [held EXCEPT ![l] = {}]
    PROVE  LeaseCountsHolders'
<1>0. TypeOK /\ LeaseCountsHolders
  BY DEF IInv
<1>1. ASSUME NEW q \in Route
      PROVE  leases'[q] = Cardinality(Holders(q)')
  <2>1. IsFiniteSet(Holders(q)) /\ leases[q] = Cardinality(Holders(q))
    BY <1>0, HeldIsFinite DEF LeaseCountsHolders
  <2>2. CASE q \in held[l]
    <3>1. Holders(q)' = Holders(q) \ {l} /\ l \in Holders(q)
      BY <1>0, <2>2 DEF Holders, TypeOK
    <3>2. Cardinality(Holders(q)') = Cardinality(Holders(q)) - 1
      BY <2>1, <3>1, FS_RemoveElement
    <3>3. leases'[q] = leases[q] - 1
      BY <2>2 DEF ReleaseEntries
    <3>4. QED
      BY <2>1, <3>2, <3>3
  <2>3. CASE q \notin held[l]
    <3>1. Holders(q)' = Holders(q)
      BY <1>0, <2>3 DEF Holders, TypeOK
    <3>2. leases'[q] = leases[q]
      BY <2>3 DEF ReleaseEntries
    <3>3. QED
      BY <2>1, <3>1, <3>2
  <2>4. QED
    BY <2>2, <2>3
<1>2. QED
  BY <1>1 DEF LeaseCountsHolders

\* A block outside the cache is held by nobody: its counter is zero.
LEMMA AbsentIsFree ==
    ASSUME IInv, NEW r \in Route, r \notin entries
    PROVE  leases[r] = 0
<1>1. Holders(r) = {}
  BY DEF IInv, HeldIsResident, Held, Holders
<1>2. QED
  BY <1>1, FS_EmptySet DEF IInv, LeaseCountsHolders

\* What any step does to leases and blocks.  Every action is one of: a lease
\* gains a block that is then resident, a lease gives up all it holds, one
\* unleased block is evicted, or none of these.
PushStep(l, r) ==
    /\ l \in LeaseId /\ r \in Route /\ r \notin held[l] /\ r \in entries'
    /\ held' = [held EXCEPT ![l] = @ \cup {r}]
    /\ leases' = [leases EXCEPT ![r] = @ + 1]
    /\ entries' \in {entries, entries \cup {r}}

ReleaseStep(l) ==
    /\ l \in LeaseId
    /\ ReleaseEntries(held[l])
    /\ held' = [held EXCEPT ![l] = {}]

EvictStep(v) ==
    /\ v \in Unleased
    /\ entries' = entries \ {v}
    /\ UNCHANGED <<leases, held>>

\* A step leaves the leases alone, adds one block to one, or empties one.
LEMMA StepShapes ==
    ASSUME IInv, [Next]_vars
    PROVE  \/ \E l, r : PushStep(l, r)
           \/ \E l : ReleaseStep(l)
           \/ \E v : EvictStep(v)
           \/ UNCHANGED <<entries, leases, held>>
<1> USE DEF cacheVars, leaseVars, threadVars
<1>0. TypeOK /\ CallsAndLeases
  BY DEF IInv
<1>a. ASSUME NEW t \in Threads, Locked(t)
      PROVE  cur[t] \in LeaseId /\ todo[t] \cap held[cur[t]] = {}
  BY <1>0, <1>a DEF CallsAndLeases, ThreadAgrees
<1>1. ASSUME NEW t \in Threads, Outside(t)
      PROVE  \/ \E l : ReleaseStep(l)
             \/ UNCHANGED <<entries, leases, held>>
  <2>1. ASSUME NEW l \in LeaseId, Release(t, l)
        PROVE  ReleaseStep(l)
    BY <2>1 DEF Release, GiveBack, ReleaseStep
  <2>2. ASSUME CommitRelease(t)
        PROVE  ReleaseStep(cur[t])
    BY <1>0, <2>2 DEF CommitRelease, GiveBack, ReleaseStep, CallsAndLeases,
                      ThreadAgrees
  <2>3. ASSUME NEW l \in LeaseId, RecordPagedKernel(t, l)
        PROVE  UNCHANGED <<entries, leases, held>>
    BY <2>3 DEF RecordPagedKernel
  <2>4. ASSUME NEW layer \in Layers, NEW S \in SUBSET Experts,
               NEW b \in BOOLEAN, Acquire(t, layer, S, b)
        PROVE  UNCHANGED <<entries, leases, held>>
    BY <2>4 DEF Acquire
  <2>5. QED
    BY <1>1, <2>1, <2>2, <2>3, <2>4 DEF Outside
<1>2. ASSUME NEW t \in Threads, NEW r \in todo[t], Hit(t, r)
      PROVE  PushStep(cur[t], r)
  <2>1. cur[t] \in LeaseId /\ r \notin held[cur[t]]
    BY <1>a, <1>2 DEF Hit, AtRoute, Locked
  <2>2. r \in Route /\ leases \in [Route -> Nat]
    BY <1>0 DEF TypeOK
  <2>3. QED
    BY <1>2, <2>1, <2>2 DEF Hit, LeaseEntry, Push, PushStep
<1>3. ASSUME NEW t \in Threads, Insert(t)
      PROVE  PushStep(cur[t], target[t])
  <2>1. /\ cur[t] \in LeaseId /\ target[t] \notin held[cur[t]]
        /\ target[t] \in Described \ entries
    BY <1>0, <1>a, <1>3 DEF Insert, Locked, CallsAndLeases, ThreadAgrees
  <2>2. target[t] \in Route /\ leases \in [Route -> Nat]
    BY <1>0, <2>1, PagerAssumption DEF TypeOK
  <2>3. leases[target[t]] = 0
    BY <2>1, <2>2, AbsentIsFree
  <2>4. leases' = [leases EXCEPT ![target[t]] = @ + 1]
    BY <1>3, <2>2, <2>3 DEF Insert, LeaseEntry
  <2>5. QED
    BY <1>3, <2>1, <2>2, <2>4 DEF Insert, Push, PushStep
<1>4. ASSUME NEW t \in Threads, Unwind(t), Locked(t)
      PROVE  ReleaseStep(cur[t])
  BY <1>a, <1>4 DEF Unwind, ReleaseStep
<1>5. ASSUME NEW t \in Threads, NEW v \in entries, Evict(t, v)
      PROVE  EvictStep(v)
  BY <1>5 DEF Evict, IsVictim, EvictStep
<1>6. ASSUME NEW t \in Threads, Inside(t)
      PROVE  \/ \E l, r : PushStep(l, r)
             \/ \E l : ReleaseStep(l)
             \/ \E v : EvictStep(v)
             \/ UNCHANGED <<entries, leases, held>>
  <2>1. ASSUME NEW r \in todo[t], Miss(t, r)
        PROVE  UNCHANGED <<entries, leases, held>>
    BY <2>1 DEF Miss
  <2>2. ASSUME Return(t)
        PROVE  UNCHANGED <<entries, leases, held>>
    BY <2>2 DEF Return
  <2>3. ASSUME NEW r \in todo[t], UnknownRoute(t, r) \/ ReadFails(t, r)
        PROVE  Unwind(t) /\ Locked(t)
    BY <2>3 DEF UnknownRoute, ReadFails, AtRoute, Locked
  <2>4. ASSUME TooLarge(t) \/ BudgetExhausted(t)
        PROVE  Unwind(t) /\ Locked(t)
    BY <2>4 DEF TooLarge, BudgetExhausted, Locked
  <2>5. QED
    BY <1>2, <1>3, <1>4, <1>5, <1>6, <2>1, <2>2, <2>3, <2>4 DEF Inside
<1>7. CASE UNCHANGED vars
  BY <1>7 DEF vars
<1>8. QED
  BY <1>1, <1>6, <1>7 DEF Next

\* The lease counters stay exact.
LEMMA CountStep == IInv /\ [Next]_vars => LeaseCountsHolders'
<1> SUFFICES ASSUME IInv, [Next]_vars
             PROVE  LeaseCountsHolders'
  OBVIOUS
<1>1. ASSUME NEW l, NEW r, PushStep(l, r)
      PROVE  LeaseCountsHolders'
  BY <1>1, PushCounts DEF PushStep
<1>2. ASSUME NEW l, ReleaseStep(l)
      PROVE  LeaseCountsHolders'
  BY <1>2, ReleaseCounts DEF ReleaseStep
<1>3. ASSUME UNCHANGED <<leases, held>>
      PROVE  LeaseCountsHolders'
  BY <1>3 DEF IInv, LeaseCountsHolders, Holders
<1>4. QED
  BY <1>1, <1>2, <1>3, StepShapes DEF EvictStep

\* No step takes a held block out of the cache.
LEMMA ResidentStep == IInv /\ TypeOK' /\ [Next]_vars => HeldIsResident'
<1> SUFFICES ASSUME IInv, TypeOK', [Next]_vars
             PROVE  HeldIsResident'
  OBVIOUS
<1> USE DEF HeldIsResident, Held
<1>0. TypeOK /\ HeldIsResident /\ LeaseCountsHolders
  BY DEF IInv
<1>1. ASSUME NEW l, NEW r, PushStep(l, r)
      PROVE  HeldIsResident'
  BY <1>0, <1>1 DEF PushStep, TypeOK
<1>2. ASSUME NEW l, ReleaseStep(l)
      PROVE  HeldIsResident'
  BY <1>0, <1>2 DEF ReleaseStep, ReleaseEntries, TypeOK
<1>3. ASSUME NEW v, EvictStep(v)
      PROVE  HeldIsResident'
  <2>1. v \in Route /\ leases[v] = 0
    BY <1>0, <1>3, PagerAssumption DEF EvictStep, Unleased, TypeOK
  <2>2. Holders(v) = {}
    BY <1>0, <2>1, HeldIsFinite, FS_EmptySet DEF LeaseCountsHolders
  <2>3. \A l \in LeaseId : v \notin held[l]
    BY <2>2 DEF Holders
  <2>4. QED
    BY <1>0, <1>3, <2>3 DEF EvictStep
<1>4. ASSUME UNCHANGED <<entries, held>>
      PROVE  HeldIsResident'
  BY <1>0, <1>4
<1>5. QED
  BY <1>1, <1>2, <1>3, <1>4, StepShapes

\* resident_bytes stays the size of the cache, within the capacity.
LEMMA BudgetStep == IInv /\ TypeOK' /\ [Next]_vars => BudgetKept'
<1> SUFFICES ASSUME IInv, TypeOK', [Next]_vars
             PROVE  BudgetKept'
  OBVIOUS
<1> USE DEF BudgetKept
<1>0. /\ TypeOK /\ BudgetKept
      /\ IsFiniteSet(entries)
      /\ \A b \in Described : BlockBytes[b] \in Nat
      /\ entries \subseteq Described
      /\ resident_bytes \in Nat /\ peak_bytes \in Nat /\ Capacity \in Nat
  BY FiniteSets, PagerAssumption DEF IInv, TypeOK
<1>1. ASSUME UNCHANGED <<entries, resident_bytes, peak_bytes>>
      PROVE  BudgetKept'
  BY <1>0, <1>1
<1>2. ASSUME NEW t \in Threads, NEW v \in entries, Evict(t, v)
      PROVE  BudgetKept'
  <2>1. BytesOf(BlockBytes, entries \ {v})
          = BytesOf(BlockBytes, entries) - BlockBytes[v]
    BY <1>0, BytesOfRemove
  <2>2. BlockBytes[v] \in Nat
    BY <1>0
  <2>3. QED
    BY <1>0, <1>2, <2>1, <2>2 DEF Evict
<1>3. ASSUME NEW t \in Threads, Insert(t)
      PROVE  BudgetKept'
  <2> DEFINE r == target[t]
  <2>1. r \in Described \ entries
    BY <1>3 DEF Insert, IInv, CallsAndLeases, ThreadAgrees
  <2>2. BlockBytes[r] \in Nat
    BY <1>0, <2>1
  <2>3. BytesOf(BlockBytes, entries \cup {r})
          = BytesOf(BlockBytes, entries) + BlockBytes[r]
    BY <1>0, <2>1, BytesOfAdd
  <2>4. /\ entries' = entries \cup {r}
        /\ resident_bytes' = resident_bytes + BlockBytes[r]
        /\ resident_bytes <= Capacity - BlockBytes[r]
        /\ peak_bytes' = IF resident_bytes' > peak_bytes THEN resident_bytes'
                                                         ELSE peak_bytes
    BY <1>3 DEF Insert, Room
  <2> HIDE DEF r
  <2>5. resident_bytes' = BytesOf(BlockBytes, entries')
    BY <1>0, <2>3, <2>4
  <2>6. resident_bytes' <= peak_bytes' /\ peak_bytes' <= Capacity
    BY <1>0, <2>2, <2>4
  <2>7. QED
    BY <2>5, <2>6
<1>4. ASSUME NEW t \in Threads, Outside(t)
      PROVE  UNCHANGED <<entries, resident_bytes, peak_bytes>>
  BY <1>4 DEF Outside, Acquire, Release, RecordPagedKernel, CommitRelease,
              GiveBack, ReleaseEntries, cacheVars
<1>5. ASSUME NEW t \in Threads, Inside(t)
      PROVE  BudgetKept'
  BY <1>1, <1>2, <1>3, <1>5
     DEF Inside, Hit, Miss, UnknownRoute, ReadFails, TooLarge, BudgetExhausted,
         Return, Unwind, ReleaseEntries, cacheVars
<1>6. CASE UNCHANGED vars
  BY <1>1, <1>6 DEF vars, cacheVars
<1>7. QED
  BY <1>1, <1>4, <1>5, <1>6 DEF Next

\* The invariant holds initially.
LEMMA InitIInv == Init => IInv
<1> SUFFICES ASSUME Init
             PROVE  IInv
  OBVIOUS
<1> USE DEF Init
<1>1. TypeOK
  BY PagerAssumption DEF TypeOK, LeaseId, Locations
<1>2. CallsAndLeases
  BY PagerAssumption
     DEF CallsAndLeases, ThreadAgrees, LeaseAgrees, Locked, LeaseId
<1>3. HeldIsResident
  BY DEF HeldIsResident, Held
<1>4. LeaseCountsHolders
  <2>1. \A r \in Route : Holders(r) = {}
    BY DEF Holders
  <2>2. QED
    BY <2>1, FS_EmptySet DEF LeaseCountsHolders
<1>5. BudgetKept
  BY BytesOfEmpty, PagerAssumption DEF BudgetKept
<1>6. QED
  BY <1>1, <1>2, <1>3, <1>4, <1>5 DEF IInv

\* The pager's inductive invariant holds in every reachable state.
THEOREM PagerInvariant == Spec => []IInv
<1>1. IInv /\ [Next]_vars => IInv'
  <2>1. IInv /\ [Next]_vars => TypeOK'
    BY TypeStep
  <2>2. QED
    BY <2>1, CallsStep, CountStep, ResidentStep, BudgetStep DEF IInv
<1>2. QED
  BY <1>1, InitIInv, PTL DEF Spec

\* No reachable state has a lease on a block that has left the cache: the
\* pointers a kernel computes with (mmb_kernel.cpp, segment) are never to an
\* erased entry, whatever other threads page meanwhile.
THEOREM LeasedBlocksStay == Spec => []HeldIsResident
BY PagerInvariant, PTL DEF IInv

\* Lease counters are exact, also after requests that failed half way.
THEOREM LeaseCountsExact == Spec => []LeaseCountsHolders
BY PagerInvariant, PTL DEF IInv

\* The cache never holds more bytes than its capacity, and its byte counter,
\* which decides evictions, is the size of what it holds.
THEOREM BudgetRespected == Spec => []BudgetKept
BY PagerInvariant, PTL DEF IInv

\* Types.
THEOREM TypesCorrect == Spec => []TypeOK
BY PagerInvariant, PTL DEF IInv

\* Who refuses: a thread that leaves the insertion for "idle" has found its
\* block too large, or no room and nothing to evict.
LEMMA RefusalShape ==
    ASSUME IInv, Next, NEW t \in Threads, pc[t] = "insert", pc'[t] = "idle"
    PROVE  TooLarge(t) \/ BudgetExhausted(t)
<1>0. pc \in [Threads -> Locations]
  BY DEF IInv, TypeOK
<1>1. PICK u \in Threads : Outside(u) \/ Inside(u)
  BY DEF Next
<1>2. CASE u # t
  BY <1>0, <1>1, <1>2
     DEF Outside, Acquire, Release, RecordPagedKernel, CommitRelease, Inside,
         Hit, Miss, UnknownRoute, ReadFails, Evict, Insert, TooLarge,
         BudgetExhausted, Return, Unwind, AtRoute, threadVars
<1>3. CASE u = t
  BY <1>0, <1>1, <1>3
     DEF Outside, Acquire, Release, RecordPagedKernel, CommitRelease, Inside,
         Hit, Miss, UnknownRoute, ReadFails, Evict, Insert, Return, AtRoute,
         threadVars
<1>4. QED
  BY <1>2, <1>3

\* An acquire fails for lack of memory only when what is leased at that
\* moment, with the block it needs, is larger than the capacity.
THEOREM RefusalsJustified == Spec => RefusedOnlyOverBudget
<1>1. ASSUME IInv, Next, NEW t \in Threads, pc[t] = "insert", pc'[t] = "idle"
      PROVE  BytesOf(BlockBytes, Held \cup {target[t]}) > Capacity
  <2> DEFINE r == target[t]
  <2>1. /\ TypeOK /\ IsFiniteSet(entries)
        /\ \A b \in Described : BlockBytes[b] \in Nat
        /\ Capacity \in Nat /\ entries \subseteq Described
        /\ resident_bytes \in Nat
    BY <1>1, FiniteSets, PagerAssumption DEF IInv, TypeOK
  <2>2. r \in Described \ entries /\ Held \subseteq entries
    BY <1>1 DEF IInv, CallsAndLeases, ThreadAgrees, HeldIsResident
  <2>3. IsFiniteSet(Held) /\ \A b \in Held \cup {r} : BlockBytes[b] \in Nat
    BY <2>1, <2>2, FS_Subset
  <2>4. BytesOf(BlockBytes, Held \cup {r})
          = BytesOf(BlockBytes, Held) + BlockBytes[r]
    BY <2>2, <2>3, BytesOfAdd
  <2>5. BytesOf(BlockBytes, Held) \in Nat /\ BlockBytes[r] \in Nat
    BY <2>3, BytesOfType
  <2>6. CASE BlockBytes[r] > Capacity
    <3> HIDE DEF r
    <3> QED BY <2>1, <2>4, <2>5, <2>6 DEF r
  <2>7. CASE BudgetExhausted(t)
    <3>1. \A b \in entries : b \in Held
      <4> SUFFICES ASSUME NEW b \in entries
                   PROVE  b \in Held
        OBVIOUS
      <4>1. b \in Route /\ leases[b] \in Nat /\ leases[b] # 0
        BY <2>1, <2>7, PagerAssumption DEF BudgetExhausted, Unleased, TypeOK
      <4>2. Holders(b) # {}
        BY <1>1, <4>1, FS_EmptySet DEF IInv, LeaseCountsHolders
      <4>3. QED
        BY <4>2 DEF Holders, Held
    <3>2. Held = entries
      BY <2>2, <3>1
    <3>3. resident_bytes = BytesOf(BlockBytes, Held)
      BY <1>1, <3>2 DEF IInv, BudgetKept
    <3>4. ~(resident_bytes <= Capacity - BlockBytes[r])
      BY <2>7 DEF BudgetExhausted, Room
    <3> HIDE DEF r
    <3>5. QED
      BY <2>1, <2>4, <2>5, <3>3, <3>4 DEF r
  <2>8. QED
    BY <1>1, <2>6, <2>7, RefusalShape DEF TooLarge
<1>2. IInv /\ [Next]_vars
        => [\A t \in Threads :
              pc[t] = "insert" /\ pc'[t] = "idle"
                => BytesOf(BlockBytes, Held \cup {target[t]}) > Capacity]_vars
  BY <1>1
<1>3. QED
  BY <1>2, PagerInvariant, PTL DEF Spec, RefusedOnlyOverBudget

\* Used experts are hits plus insertions, and every inserted block is either
\* still in the cache or was evicted.
LEMMA UseAccountingStep ==
    IInv /\ UseAccounting /\ [Next]_vars => UseAccounting'
<1> SUFFICES ASSUME IInv, UseAccounting, [Next]_vars
             PROVE  UseAccounting'
  OBVIOUS
<1> USE DEF UseAccounting, Count
<1> DEFINE used == stats["experts_used"]
           hits == stats["hits"]
           evictions == stats["evictions"]
<1>0. /\ stats \in [Counters -> Nat]
      /\ used \in Nat /\ hits \in Nat /\ evictions \in Nat
      /\ IsFiniteSet(entries) /\ Cardinality(entries) \in Nat
      /\ used = hits + evictions + Cardinality(entries)
  BY FiniteSets, FS_CardinalityType DEF IInv, TypeOK, Counters
<1>1. ASSUME entries' = entries, used' = used, hits' = hits,
             evictions' = evictions
      PROVE  UseAccounting'
  BY <1>0, <1>1
<1>2. ASSUME NEW t \in Threads, Outside(t)
      PROVE  UseAccounting'
  BY <1>0, <1>1, <1>2
     DEF Outside, Acquire, Release, RecordPagedKernel, CommitRelease, GiveBack,
         ReleaseEntries, cacheVars, Counters
<1>3. ASSUME NEW t \in Threads, NEW r \in todo[t], Hit(t, r)
      PROVE  UseAccounting'
  <2>1. entries' = entries /\ used' = used + 1 /\ hits' = hits + 1
        /\ evictions' = evictions
    BY <1>0, <1>3 DEF Hit, Counters
  <2>2. QED
    BY <1>0, <2>1
<1>4. ASSUME NEW t \in Threads, Insert(t)
      PROVE  UseAccounting'
  <2>1. entries' = entries \cup {target[t]} /\ used' = used + 1
        /\ hits' = hits /\ evictions' = evictions
    BY <1>0, <1>4 DEF Insert, Counters
  <2>2. target[t] \notin entries
    BY <1>4 DEF Insert, IInv, CallsAndLeases, ThreadAgrees
  <2>3. Cardinality(entries') = Cardinality(entries) + 1
    BY <1>0, <2>1, <2>2, FS_AddElement
  <2>4. QED
    BY <1>0, <2>1, <2>3
<1>5. ASSUME NEW t \in Threads, NEW v \in entries, Evict(t, v)
      PROVE  UseAccounting'
  <2>1. entries' = entries \ {v} /\ used' = used
        /\ hits' = hits /\ evictions' = evictions + 1
    BY <1>0, <1>5 DEF Evict, Counters
  <2>2. Cardinality(entries') = Cardinality(entries) - 1
    BY <1>0, <2>1, FS_RemoveElement
  <2>3. used' = hits + (evictions + 1) + (Cardinality(entries) - 1)
    BY <1>0, <2>1
  <2>4. QED
    BY <2>1, <2>2, <2>3
<1>6. ASSUME NEW t \in Threads, Inside(t)
      PROVE  UseAccounting'
  BY <1>0, <1>1, <1>3, <1>4, <1>5, <1>6
     DEF Inside, Miss, UnknownRoute, ReadFails, TooLarge, BudgetExhausted,
         Return, Unwind, ReleaseEntries, cacheVars, Counters
<1>7. CASE UNCHANGED vars
  BY <1>1, <1>7 DEF vars, cacheVars
<1>8. QED
  BY <1>2, <1>6, <1>7 DEF Next

\* The pager's count of used experts and the cache's count of evictions agree
\* with what is in the cache, whatever requests failed.
THEOREM UsesAccountedFor == Spec => []UseAccounting
<1>1. Init => UseAccounting
  BY FS_EmptySet DEF Init, UseAccounting, Counters
<1>2. QED
  BY <1>1, UseAccountingStep, PagerInvariant, PTL DEF Spec

\* Every step of the pager is a step of LeaseStore, or leaves it alone.
LEMMA StoreStep == IInv /\ IInv' /\ [Next]_vars => [Store!StoreNext]_(Store!storeVars)
<1> SUFFICES ASSUME IInv, IInv', [Next]_vars
             PROVE  [Store!StoreNext]_(Store!storeVars)
  OBVIOUS
<1> USE DEF StorePhase, StoreGranted
<1>0. TypeOK /\ CallsAndLeases
  BY DEF IInv
<1>a. ASSUME entries' = entries, StorePhase' = StorePhase,
             StoreGranted' = StoreGranted
      PROVE  [Store!StoreNext]_(Store!storeVars)
  BY <1>a DEF Store!storeVars
<1>b. ASSUME NEW l \in LeaseId,
             Store!Refuse(l) \/ \E S \in SUBSET Described : Store!Grant(l, S)
      PROVE  Store!StoreNext
  BY <1>b DEF Store!StoreNext
<1>1. ASSUME NEW t \in Threads, NEW layer \in Layers, NEW S \in SUBSET Experts,
             NEW b \in BOOLEAN, Acquire(t, layer, S, b)
      PROVE  [Store!StoreNext]_(Store!storeVars)
  <2>1. next_lease_id \in LeaseId
    BY <1>0, <1>1, PagerAssumption DEF Acquire, TypeOK, LeaseId
  <2>2. lease_state[next_lease_id] = "new"
    <3>1. LeaseAgrees(next_lease_id) /\ next_lease_id >= next_lease_id
      BY <1>0, <2>1 DEF TypeOK, CallsAndLeases
    <3>2. QED
      BY <3>1 DEF LeaseAgrees
  <2>3. lease_state' = [lease_state EXCEPT ![next_lease_id] = "building"]
        /\ held' = held /\ entries' = entries
    BY <1>1 DEF Acquire, cacheVars
  <2>4. StorePhase' = StorePhase /\ StoreGranted' = StoreGranted
    BY <1>0, <2>1, <2>2, <2>3 DEF TypeOK
  <2>5. QED
    BY <1>a, <2>3, <2>4
<1>2. ASSUME NEW l \in LeaseId, lease_state[l] = "active", GiveBack(l)
      PROVE  Store!GiveBack(l)
  BY <1>0, <1>2 DEF GiveBack, ReleaseEntries, Store!GiveBack, TypeOK
<1>3. ASSUME NEW t \in Threads, Outside(t)
      PROVE  [Store!StoreNext]_(Store!storeVars)
  <2>1. ASSUME NEW l \in LeaseId, Release(t, l)
        PROVE  Store!StoreNext
    BY <1>2, <2>1 DEF Release, Store!StoreNext
  <2>2. ASSUME CommitRelease(t)
        PROVE  Store!StoreNext
    <3>1. cur[t] \in LeaseId /\ lease_state[cur[t]] = "active"
      BY <1>0, <2>2 DEF CommitRelease, CallsAndLeases, ThreadAgrees
    <3>2. QED
      BY <1>2, <2>2, <3>1 DEF CommitRelease, Store!StoreNext
  <2>3. ASSUME NEW l \in LeaseId, RecordPagedKernel(t, l)
        PROVE  [Store!StoreNext]_(Store!storeVars)
    BY <1>a, <2>3 DEF RecordPagedKernel, cacheVars, leaseVars
  <2>4. QED
    BY <1>1, <1>3, <2>1, <2>2, <2>3 DEF Outside
<1>4. ASSUME NEW t \in Threads, Locked(t)
      PROVE  cur[t] \in LeaseId /\ lease_state[cur[t]] = "building"
  BY <1>0, <1>4 DEF CallsAndLeases, ThreadAgrees
<1>5. ASSUME NEW t \in Threads, NEW r \in todo[t], Hit(t, r)
      PROVE  [Store!StoreNext]_(Store!storeVars)
  <2>1. cur[t] \in LeaseId /\ lease_state[cur[t]] = "building"
    BY <1>4, <1>5 DEF Hit, AtRoute, Locked
  <2>2. StorePhase' = StorePhase /\ StoreGranted' = StoreGranted
    BY <1>0, <1>5, <2>1 DEF Hit, Push, TypeOK
  <2>3. QED
    BY <1>a, <1>5, <2>2 DEF Hit
<1>6. ASSUME NEW t \in Threads, NEW v \in entries, Evict(t, v)
      PROVE  Store!StoreNext
  <2>1. v \in Described /\ leases[v] = 0 /\ v \in Route
    BY <1>0, <1>6, PagerAssumption DEF Evict, IsVictim, Unleased, TypeOK
  <2>2. Holders(v) = {}
    BY <1>0, <2>1, HeldIsFinite, FS_EmptySet DEF IInv, LeaseCountsHolders
  <2>3. v \notin Store!Pinned
    BY <2>2 DEF Holders, Store!Pinned
  <2>4. Store!Drop(v)
    BY <1>6, <2>3 DEF Evict, Store!Drop, leaseVars
  <2>5. QED
    BY <2>1, <2>4 DEF Store!StoreNext
<1>7. ASSUME NEW t \in Threads, Insert(t)
      PROVE  Store!StoreNext
  <2> DEFINE r == target[t]
  <2>1. cur[t] \in LeaseId /\ lease_state[cur[t]] = "building"
    BY <1>4, <1>7 DEF Insert, Locked
  <2>2. r \in Described \ entries
    BY <1>0, <1>7 DEF Insert, CallsAndLeases, ThreadAgrees
  <2>3. entries' = entries \cup {r}
    BY <1>7 DEF Insert
  <2>4. BytesOf(BlockBytes, entries \cup {r}) <= Capacity
    <3>1. /\ resident_bytes' = BytesOf(BlockBytes, entries')
          /\ resident_bytes' <= peak_bytes' /\ peak_bytes' <= Capacity
          /\ resident_bytes' \in Nat /\ peak_bytes' \in Nat
      BY DEF IInv, BudgetKept, TypeOK
    <3>2. resident_bytes' <= Capacity
      BY <3>1, PagerAssumption
    <3>3. QED
      BY <2>3, <3>1, <3>2
  <2>5. StorePhase' = StorePhase /\ StoreGranted' = StoreGranted
    BY <1>0, <1>7, <2>1 DEF Insert, Push, TypeOK
  <2>6. Store!Load(r)
    BY <1>0, <2>2, <2>3, <2>4, <2>5
       DEF TypeOK, Store!Load, WithinBudget
  <2>7. QED
    BY <2>2, <2>6 DEF Store!StoreNext
<1>8. ASSUME NEW t \in Threads, Return(t)
      PROVE  Store!StoreNext
  <2>0. cur[t] \in LeaseId /\ lease_state[cur[t]] = "building"
    BY <1>4, <1>8 DEF Return, Locked
  <2>a. held[cur[t]] # {}
    BY <1>0, <1>8 DEF Return, CallsAndLeases, ThreadAgrees, Locked
  <2>b. held[cur[t]] \subseteq entries /\ held[cur[t]] \in SUBSET Described
    BY <1>0, <2>0, HeldIsCounted DEF TypeOK
  <2>1. PICK l \in LeaseId : l = cur[t]
    BY <2>0
  <2>2. PICK S \in SUBSET Described : S = held[cur[t]]
    BY <2>b
  <2>3. lease_state[l] = "building" /\ S # {} /\ S \subseteq entries
    BY <2>0, <2>1, <2>2, <2>a, <2>b
  <2>4. Store!Grant(l, S)
    BY <1>0, <1>8, <2>1, <2>2, <2>3 DEF Return, Store!Grant, TypeOK, cacheVars
  <2>5. QED
    BY <2>4, <1>b
<1>9. ASSUME NEW t \in Threads, Unwind(t), Locked(t)
      PROVE  Store!StoreNext
  <2>1. cur[t] \in LeaseId /\ lease_state[cur[t]] = "building"
    BY <1>4, <1>9
  <2>2. PICK l \in LeaseId : l = cur[t]
    BY <2>1
  <2>3. Store!Refuse(l)
    BY <1>0, <1>9, <2>1, <2>2
       DEF Unwind, ReleaseEntries, Store!Refuse, TypeOK
  <2>4. QED
    BY <2>3, <1>b
<1>10. ASSUME NEW t \in Threads, Inside(t)
       PROVE  [Store!StoreNext]_(Store!storeVars)
  <2>1. ASSUME NEW r \in todo[t], Miss(t, r)
        PROVE  [Store!StoreNext]_(Store!storeVars)
    BY <1>a, <2>1 DEF Miss, cacheVars, leaseVars
  <2>2. ASSUME NEW r \in todo[t], UnknownRoute(t, r) \/ ReadFails(t, r)
        PROVE  Store!StoreNext
    BY <1>9, <2>2 DEF UnknownRoute, ReadFails, AtRoute, Locked
  <2>3. ASSUME TooLarge(t) \/ BudgetExhausted(t)
        PROVE  Store!StoreNext
    BY <1>9, <2>3 DEF TooLarge, BudgetExhausted, Locked
  <2>4. QED
    BY <1>5, <1>6, <1>7, <1>8, <1>10, <2>1, <2>2, <2>3 DEF Inside
<1>11. CASE UNCHANGED vars
  BY <1>a, <1>11 DEF vars, cacheVars, leaseVars
<1>12. QED
  BY <1>3, <1>10, <1>11 DEF Next

\* The pager implements the abstract lease store: seen from its callers, a
\* request is one atomic grant or refusal, and leased blocks stay.
THEOREM PagerImplementsStore == Spec => ImplementsLeaseStore
<1>1. Init => Store!StoreInit
  BY DEF Init, Store!StoreInit, StorePhase, StoreGranted
<1>2. QED
  BY <1>1, StoreStep, PagerInvariant, PTL
     DEF Spec, ImplementsLeaseStore, Store!StoreSpec
=============================================================================
