------------------------- MODULE ExternalGateProofs -------------------------
(***************************************************************************)
(* Safety of the gate and its cache for any number of callers, any blocks, *)
(* any budget, and any requests: exact lease counts, the budget, no lease  *)
(* that nobody will release, and residency of what a caller holds.         *)
(***************************************************************************)
EXTENDS ExternalGate, FiniteSetTheorems, SequenceTheorems, TLAPS

\* _admission_lock is held by the one thread that loads or unwinds.
LocksAgree ==
    \A p \in Procs : pc[p] \in {"load", "read", "lease", "unwind"} <=> admission = p

\* A thread that starts the gate has leased nothing, and only callers lease.
StartsAgree ==
    \A p \in Procs :
        /\ pc[p] \in {"idle", "start", "expire", "expiring", "lease", "unwind", "grant",
                      "holding", "releasing", "open"} => p \notin starting
        /\ pc[p] = "mark" => p \in starting
        /\ p \in starting \/ pc[p] \in {"idle", "start", "wait", "expire", "expiring",
                                        "open"} =>
             acquired[p] = <<>>
        /\ p = Main =>
             /\ acquired[p] = <<>>
             /\ pc[p] \notin {"expire", "expiring", "lease", "unwind", "grant",
                              "holding", "releasing"}
             /\ pc[p] \in {"wait", "load", "read"} => p \in starting

CountsAgree == IsFiniteSet(cache_leases) /\ LeasesExact

\* A caller is registered once, after its acquire has ended.
Registered ==
    \A i \in DOMAIN leases :
        /\ pc[leases[i]] \in {"holding", "releasing", "done"}
        /\ \A j \in DOMAIN leases : leases[i] = leases[j] => i = j

\* Only a thread that expires, closes, releases or unwinds has something to release.
SweepsAgree ==
    /\ DOMAIN sweep = Procs
    /\ \A p \in Procs :
        /\ sweep[p] # <<>> => pc[p] \in {"expiring", "closing", "releasing"}
        /\ giving[p] # <<>> => pc[p] \in {"expiring", "closing", "releasing", "unwind"}

\* What is on its way to be released belongs to nobody who still counts on it.
GivenUp ==
    \A p \in Procs : \A t \in ToSet(giving[p]) :
        /\ t[1] \notin ToSet(leases)
        /\ pc[t[1]] \in {"unwind", "holding", "releasing", "done"}

\* Until the gate closes, a caller that acquires or is registered has a cache
\* lease for everything it was given.
Acquires(c) == pc[c] \in {"load", "read", "lease", "grant"}

Kept ==
    ~Closing =>
        \A c \in Callers : c \in ToSet(leases) \/ Acquires(c) =>
            \A i \in DOMAIN acquired[c] : <<c, i>> \in cache_leases

\* Room is reserved only for the block that is being read, which is not there.
RoomsAgree ==
    \A p \in Procs :
        /\ pc[p] = "read" => todo[p] # <<>> /\ Head(todo[p]) \notin Resident
        /\ reservation[p] # NoOne => pc[p] = "read" /\ reservation[p] = Head(todo[p])

IInv ==
    /\ TypeOK /\ LocksAgree /\ StartsAgree /\ CountsAgree /\ NoLeakedLease
    /\ Registered /\ SweepsAgree /\ GivenUp /\ Kept /\ RoomsAgree /\ BudgetKept
-----------------------------------------------------------------------------
(* The size of a finite set of blocks                                     *)

\* The addresses of one block are finite, as many as it has bytes.
LEMMA AddressesOfOne ==
    ASSUME NEW Size, NEW b, Size[b] \in Nat
    PROVE  /\ IsFiniteSet(Addresses(Size, b))
           /\ Cardinality(Addresses(Size, b)) = Size[b]
<1> DEFINE I == 1 .. Size[b]
<1>1. IsFiniteSet({b}) /\ Cardinality({b}) = 1
  BY FS_Singleton
<1>2. IsFiniteSet(I) /\ Cardinality(I) = Size[b]
  <2>1. ASSUME NEW n \in Nat
        PROVE  IsFiniteSet(1 .. n) /\ Cardinality(1 .. n) = n
    <3>1. 1 \in Int /\ n \in Int /\ (IF 1 > n THEN 0 ELSE n - 1 + 1) = n
      OBVIOUS
    <3> QED BY <3>1, FS_Interval
  <2> QED BY <2>1
<1> HIDE DEF I
<1>3. /\ IsFiniteSet({b} \X I)
      /\ Cardinality({b} \X I) = Cardinality({b}) * Cardinality(I)
  BY <1>1, <1>2, FS_Product
<1>4. Cardinality({b} \X I) = Size[b]
  BY <1>1, <1>2, <1>3
<1>5. QED
  BY <1>3, <1>4 DEF Addresses, I

\* The addresses of a finite set of blocks are finite.
LEMMA AddressesFinite ==
    ASSUME NEW Size, NEW S, IsFiniteSet(S),
           \A b \in S : Size[b] \in Nat
    PROVE  IsFiniteSet(UNION {Addresses(Size, b) : b \in S})
<1> DEFINE A == {Addresses(Size, b) : b \in S}
           f == [b \in S |-> Addresses(Size, b)]
<1>1. f \in Surjection(S, A)
  BY DEF Surjection
<1> HIDE DEF f
<1>2. IsFiniteSet(A)
  <2> HIDE DEF A
  <2> QED BY <1>1, FS_Surjection
<1>3. \A T \in A : IsFiniteSet(T)
  BY AddressesOfOne
<1> HIDE DEF A
<1>4. IsFiniteSet(UNION A)
  BY <1>2, <1>3, FS_UNION
<1>5. QED
  BY <1>4 DEF A

\* No blocks, no bytes.
LEMMA BytesOfEmpty == ASSUME NEW Size PROVE BytesOf(Size, {}) = 0
<1>1. UNION {Addresses(Size, b) : b \in {}} = {}
  OBVIOUS
<1>2. QED
  BY <1>1, FS_EmptySet DEF BytesOf

\* A block that joins adds its own size.
LEMMA BytesOfAdd ==
    ASSUME NEW Size, NEW S, IsFiniteSet(S), NEW r, r \notin S,
           \A b \in S \cup {r} : Size[b] \in Nat
    PROVE  BytesOf(Size, S \cup {r})
             = BytesOf(Size, S) + Size[r]
<1> DEFINE U == UNION {Addresses(Size, b) : b \in S}
           V == Addresses(Size, r)
           W == UNION {Addresses(Size, b) : b \in S \cup {r}}
<1>1. W = U \cup V
  OBVIOUS
<1>2. U \cap V = {}
  BY DEF Addresses
<1>3. IsFiniteSet(U)
  BY AddressesFinite
<1>4. IsFiniteSet(V) /\ Cardinality(V) = Size[r]
  BY AddressesOfOne
<1>5. /\ BytesOf(Size, S) = Cardinality(U)
      /\ BytesOf(Size, S \cup {r}) = Cardinality(W)
  BY DEF BytesOf
<1> HIDE DEF U, V, W
<1>6. /\ Cardinality(U \cup V)
           = Cardinality(U) + Cardinality(V) - Cardinality(U \cap V)
      /\ Cardinality(U) \in Nat /\ Cardinality(V) \in Nat
  BY <1>3, <1>4, FS_Union, FS_CardinalityType
<1>7. Cardinality(U \cap V) = 0
  BY <1>2, FS_EmptySet
<1>8. QED
  BY <1>1, <1>4, <1>5, <1>6, <1>7
-----------------------------------------------------------------------------
(* The operators of the model                                              *)

\* What the assumptions say, with the sets of the model spelled out.
LEMMA Constant ==
    /\ Main \notin Callers /\ NoOne \notin Procs /\ NoOne \notin Blocks
    /\ Main \in Procs /\ Callers \subseteq Procs
    /\ CoreBlocks \in Seq(Blocks) /\ Requests \subseteq Seq(Blocks)
    /\ Capacity \in Nat /\ MaxExperts \in Nat \ {0}
    /\ \A b \in Blocks : BlockLength[b] \in Nat
    /\ Experts \subseteq Blocks
BY ExternalGateAssumption DEF Procs, Blocks

\* There are finitely many blocks.
LEMMA FiniteBlocks == IsFiniteSet(Blocks)
<1>1. CoreBlocks \in Seq(Blocks)
  BY Constant
<1>2. CoreBlocks \in Surjection(1 .. Len(CoreBlocks), ToSet(CoreBlocks))
  BY <1>1, LenProperties DEF Surjection, ToSet
<1>3. IsFiniteSet(1 .. Len(CoreBlocks))
  BY <1>1, LenProperties, FS_Interval
<1>4. IsFiniteSet(ToSet(CoreBlocks)) /\ IsFiniteSet(Experts)
  BY <1>2, <1>3, FS_Surjection, ExternalGateAssumption
<1>5. QED
  BY <1>4, FS_Union DEF Blocks

\* Fewer blocks have fewer bytes.
LEMMA FewerBytes ==
    ASSUME NEW S \in SUBSET Blocks, NEW T \in SUBSET S
    PROVE  /\ IsFiniteSet(S) /\ IsFiniteSet(T)
           /\ BytesOf(BlockLength, T) \in Nat /\ BytesOf(BlockLength, S) \in Nat
           /\ BytesOf(BlockLength, T) <= BytesOf(BlockLength, S)
<1>1. IsFiniteSet(S) /\ IsFiniteSet(T)
  BY FiniteBlocks, FS_Subset
<1>2. \A b \in S : BlockLength[b] \in Nat
  BY Constant
<1> DEFINE U == UNION {Addresses(BlockLength, b) : b \in S}
           V == UNION {Addresses(BlockLength, b) : b \in T}
<1>3. IsFiniteSet(U) /\ V \subseteq U
  BY <1>1, <1>2, AddressesFinite
<1>4. BytesOf(BlockLength, S) = Cardinality(U) /\ BytesOf(BlockLength, T) = Cardinality(V)
  BY DEF BytesOf
<1> HIDE DEF U, V
<1>5. Cardinality(V) <= Cardinality(U) /\ Cardinality(U) \in Nat /\ Cardinality(V) \in Nat
  BY <1>3, FS_Subset, FS_CardinalityType
<1>6. QED
  BY <1>1, <1>4, <1>5

\* One element taken out of a sequence.
LEMMA Removed ==
    ASSUME NEW S, NEW s \in Seq(S), NEW i \in DOMAIN s
    PROVE  /\ RemoveAt(s, i) \in Seq(S) /\ Len(RemoveAt(s, i)) = Len(s) - 1
           /\ \A j \in 1 .. Len(s) - 1 :
                RemoveAt(s, i)[j] = IF j < i THEN s[j] ELSE s[j + 1]
<1> DEFINE a == SubSeq(s, 1, i - 1)
           z == SubSeq(s, i + 1, Len(s))
<1>1. /\ Len(s) \in Nat /\ DOMAIN s = 1 .. Len(s) /\ i \in 1 .. Len(s)
      /\ \A j \in 1 .. Len(s) : s[j] \in S
  BY LenProperties
<1>2. /\ a \in Seq(S) /\ Len(a) = i - 1
      /\ \A j \in 1 .. i - 1 : a[j] = s[j]
  <2>1. \A j \in 1 .. i - 1 : s[j] \in S
    BY <1>1
  <2>2. /\ a \in Seq(S) /\ Len(a) = IF 1 <= i - 1 THEN (i - 1) - 1 + 1 ELSE 0
        /\ \A j \in 1 .. (i - 1) - 1 + 1 : a[j] = s[1 + j - 1]
    BY <1>1, <2>1, SubSeqProperties
  <2> HIDE DEF a
  <2>3. QED
    BY <1>1, <2>2
<1>3. /\ z \in Seq(S) /\ Len(z) = Len(s) - i
      /\ \A j \in 1 .. Len(s) - i : z[j] = s[i + j]
  <2>1. \A j \in i + 1 .. Len(s) : s[j] \in S
    BY <1>1
  <2>2. /\ z \in Seq(S) /\ Len(z) = IF i + 1 <= Len(s) THEN Len(s) - (i + 1) + 1 ELSE 0
        /\ \A j \in 1 .. Len(s) - (i + 1) + 1 : z[j] = s[(i + 1) + j - 1]
    BY <1>1, <2>1, SubSeqProperties
  <2> HIDE DEF z
  <2>3. /\ Len(s) - (i + 1) + 1 = Len(s) - i
        /\ i + 1 <= Len(s) \/ Len(s) - i = 0
        /\ \A j \in 1 .. Len(s) - i : (i + 1) + j - 1 = i + j
    BY <1>1
  <2>4. QED
    BY <1>1, <2>2, <2>3
<1>4. RemoveAt(s, i) = a \o z
  BY DEF RemoveAt
<1> HIDE DEF a, z
<1>5. /\ a \o z \in Seq(S) /\ Len(a \o z) = Len(a) + Len(z)
      /\ \A j \in 1 .. Len(a) + Len(z) : (a \o z)[j] =
           IF j <= Len(a) THEN a[j] ELSE z[j - Len(a)]
  BY <1>2, <1>3, ConcatProperties
<1>6. ASSUME NEW j \in 1 .. Len(s) - 1
      PROVE  (a \o z)[j] = IF j < i THEN s[j] ELSE s[j + 1]
  <2>1. CASE j < i
    BY <1>1, <1>2, <1>3, <1>5, <2>1
  <2>2. CASE ~(j < i)
    <3>1. /\ j - (i - 1) \in 1 .. Len(s) - i /\ i + (j - (i - 1)) = j + 1
          /\ ~(j <= i - 1) /\ j \in 1 .. (i - 1) + (Len(s) - i)
      BY <1>1, <2>2
    <3>2. (a \o z)[j] = z[j - (i - 1)]
      BY <1>2, <1>3, <1>5, <3>1
    <3>3. QED
      BY <1>3, <2>2, <3>1, <3>2
  <2>3. QED
    BY <2>1, <2>2
<1>7. Len(a) + Len(z) = Len(s) - 1
  BY <1>1, <1>2, <1>3
<1>8. QED
  BY <1>4, <1>5, <1>6, <1>7

\* One lease is taken off the list of a table without duplicates.
LEMMA Unlisted ==
    ASSUME NEW s \in Seq(Callers), NEW i \in DOMAIN s,
           \A j, k \in DOMAIN s : s[j] = s[k] => j = k
    PROVE  /\ ToSet(RemoveAt(s, i)) = ToSet(s) \ {s[i]}
           /\ \A j, k \in DOMAIN RemoveAt(s, i) :
                RemoveAt(s, i)[j] = RemoveAt(s, i)[k] => j = k
<1> DEFINE r == RemoveAt(s, i)
<1>1. /\ r \in Seq(Callers) /\ Len(r) = Len(s) - 1
      /\ \A j \in 1 .. Len(s) - 1 : r[j] = IF j < i THEN s[j] ELSE s[j + 1]
  BY Removed
<1>2. Len(s) \in Nat /\ DOMAIN s = 1 .. Len(s) /\ i \in 1 .. Len(s)
  BY LenProperties
<1> HIDE DEF r
<1>3. DOMAIN r = 1 .. Len(s) - 1
  BY <1>1, LenProperties
<1>4. \A j \in DOMAIN r : r[j] \in ToSet(s) \ {s[i]}
  BY <1>1, <1>2, <1>3 DEF ToSet
<1>5. ASSUME NEW k \in DOMAIN s, k # i
      PROVE  \E j \in DOMAIN r : r[j] = s[k]
  <2>1. CASE k < i
    BY <1>1, <1>2, <1>3, <2>1
  <2>2. CASE k > i
    <3>1. k - 1 \in 1 .. Len(s) - 1 /\ ~(k - 1 < i) /\ (k - 1) + 1 = k
      BY <1>2, <2>2
    <3>2. r[k - 1] = s[k]
      BY <1>1, <3>1
    <3>3. QED
      BY <1>3, <3>1, <3>2
  <2>3. QED
    BY <1>2, <1>5, <2>1, <2>2
<1>6. ToSet(r) = ToSet(s) \ {s[i]}
  BY <1>4, <1>5 DEF ToSet
<1>7. ASSUME NEW j \in DOMAIN r, NEW k \in DOMAIN r, r[j] = r[k]
      PROVE  j = k
  <2> DEFINE At2(n) == IF n < i THEN n ELSE n + 1
  <2>1. \A n \in DOMAIN r : At2(n) \in DOMAIN s /\ r[n] = s[At2(n)]
    BY <1>1, <1>2, <1>3
  <2>2. At2(j) = At2(k)
    <3> HIDE DEF At2
    <3>1. QED
      BY <1>7, <2>1
  <2>3. QED
    BY <1>2, <1>3, <2>2
<1>8. QED
  BY <1>6, <1>7 DEF r
-----------------------------------------------------------------------------
(* The steps                                                               *)

\* The disjuncts of Next, sorted by who takes the step.
LEMMA Steps ==
    ASSUME [Next]_vars
    PROVE  \/ \E p \in Procs :
                \/ CheckStart(p) \/ LockAdmission(p) \/ LoopDone(p) \/ MarkStarted(p)
                \/ CloseCheck(p) \/ Shut(p) \/ Skip(p) \/ Hit(p) \/ LeaseNew(p)
                \/ LoadFails(p) \/ Pop(p) \/ GiveBack(p) \/ Clear(p)
                \/ \E b \in Blocks : Reserve(p, b) \/ NoRoom(p, b) \/ Commit(p, b)
                                     \/ NotLeased(p, b)
           \/ \E c \in Callers :
                \/ Call(c) \/ Expire(c) \/ Unwound(c) \/ Register(c) \/ Release(c)
                \/ Released(c) \/ TimeOut(c)
                \/ \E r \in Requests : Ask(c, r)
           \/ Enter \/ Exit \/ UNCHANGED vars
BY DEF Next, Inside, Load, Acquiring

\* The steps that move a thread on and leave the cache, its leases and the table
\* of the gate alone.
Moves(p) ==
    /\ UNCHANGED <<leases, cacheVars, acquired, giving>>
    /\ closed => closed'
    /\ todo' = todo \/ \E s : todo' = [todo EXCEPT ![p] = s]
    /\ \E to : PcTo(p, to) /\
         \/ /\ UNCHANGED <<starting, admission, todo>>
            /\ \/ pc[p] = "idle" /\ to \in {"done", "start"}
               \/ pc[p] = "idle" /\ to = "expire" /\ p # Main
               \/ pc[p] = "start" /\ to \in {"done", AfterStart(p)}
               \/ pc[p] = "expire" /\ to = "expiring"
               \/ pc[p] = "holding" /\ to = "releasing"
               \/ pc[p] = "releasing" /\ to = "done"
               \/ pc[p] = "open" /\ to = "close"
               \/ pc[p] = "close" /\ to \in {"closing", "done"}
               \/ pc[p] = "shut" /\ to = "done" /\ closed'
         \/ pc[p] = "expiring" /\ to = "wait" /\ p # Main /\ UNCHANGED <<starting, admission>>
         \/ pc[p] = "start" /\ to = "wait" /\ starting' = starting \cup {p}
              /\ UNCHANGED admission
         \/ pc[p] = "wait" /\ to = "load" /\ admission = NoOne /\ admission' = p
              /\ UNCHANGED <<starting, todo>>
         \/ pc[p] = "load" /\ to = (IF p \in starting THEN "mark" ELSE "grant")
              /\ admission' = NoOne /\ UNCHANGED <<starting, todo>>
         \/ pc[p] = "mark" /\ to = AfterStart(p) /\ starting' = starting \ {p}
              /\ UNCHANGED <<admission, todo>>
         \/ pc[p] = "unwind" /\ to = "done" /\ admission' = NoOne
              /\ UNCHANGED <<starting, todo>>

\* start and the loop of a load change places as Moves says.
LEMMA MovesOfStart ==
    ASSUME NEW p,
           CheckStart(p) \/ LockAdmission(p) \/ LoopDone(p) \/ MarkStarted(p)
    PROVE  Moves(p)
<1> USE DEF gateVars, loopVars, sweepVars, Moves
<1>1. CASE CheckStart(p)
  BY <1>1, Zenon DEF CheckStart
<1>2. CASE LockAdmission(p)
  BY <1>2 DEF LockAdmission
<1>3. CASE LoopDone(p)
  BY <1>3 DEF LoopDone
<1>4. CASE MarkStarted(p)
  BY <1>4 DEF MarkStarted
<1>5. QED
  BY <1>1, <1>2, <1>3, <1>4

\* So do close, and the main thread outside the gate.
LEMMA MovesOfClose ==
    ASSUME NEW p, CloseCheck(p) \/ Shut(p) \/ (p = Main /\ (Enter \/ Exit))
    PROVE  Moves(p)
<1> USE DEF gateVars, loopVars, sweepVars, Moves
<1>1. CASE CloseCheck(p)
  BY <1>1 DEF CloseCheck
<1>2. CASE Shut(p)
  BY <1>2 DEF Shut
<1>3. CASE p = Main /\ (Enter \/ Exit)
  BY <1>3 DEF Enter, Exit
<1>4. QED
  BY <1>1, <1>2, <1>3

\* So do the steps of acquire and release that touch no block.
LEMMA MovesOfCall ==
    ASSUME NEW c \in Callers,
           \/ Call(c) \/ Expire(c) \/ Unwound(c) \/ Release(c) \/ Released(c)
           \/ \E r \in Requests : Ask(c, r)
    PROVE  Moves(c)
<1> USE DEF gateVars, loopVars, sweepVars, Moves
<1>1. c # Main
  BY Constant
<1>2. CASE Call(c)
  BY <1>1, <1>2 DEF Call
<1>3. CASE Expire(c) \/ Release(c) \/ Released(c)
  BY <1>3 DEF Expire, Release, Released
<1>4. CASE Unwound(c)
  BY <1>4 DEF Unwound, FreeAdmission
<1>5. CASE \E r \in Requests : Ask(c, r)
  <2>1. /\ UNCHANGED <<leases, cacheVars, acquired, giving, closed, starting, admission>>
        /\ pc[c] = "expiring" /\ PcTo(c, "wait")
    BY <1>5 DEF Ask
  <2>2. \E s : todo' = [todo EXCEPT ![c] = s]
    BY <1>5, Zenon DEF Ask
  <2>3. QED
    BY <1>1, <2>1, <2>2
<1>6. QED
  BY <1>2, <1>3, <1>4, <1>5

\* Every step moves a thread on, or is one that the proofs look at.
LEMMA Cases ==
    ASSUME [Next]_vars
    PROVE  \/ \E p \in Procs :
                \/ Moves(p) \/ Skip(p) \/ Hit(p) \/ LeaseNew(p) \/ LoadFails(p)
                \/ Pop(p) \/ GiveBack(p) \/ Clear(p)
                \/ \E b \in Blocks : Reserve(p, b) \/ NoRoom(p, b) \/ Commit(p, b)
                                     \/ NotLeased(p, b)
           \/ \E c \in Callers : Register(c) \/ TimeOut(c)
           \/ UNCHANGED vars
BY Steps, Constant, MovesOfStart, MovesOfClose, MovesOfCall

\* The program counters after a thread has moved.
LEMMA PcAfter ==
    ASSUME TypeOK, NEW p \in Procs, NEW s, PcTo(p, s)
    PROVE  \A q \in Procs : pc'[q] = IF q = p THEN s ELSE pc[q]
BY DEF PcTo, TypeOK

\* Evictions leave the other entries as they are.
LEMMA Evicts ==
    ASSUME NEW V, EvictAll(V)
    PROVE  /\ Resident' = Resident \ V
           /\ \A b \in Resident \ V : entries'[b] = entries[b]
BY DEF EvictAll, Resident

\* One more lease on a resident block.
LEMMA Leases ==
    ASSUME TypeOK, NEW p \in Callers, todo[p] # <<>>, Head(todo[p]) \in Resident, Lease(p)
    PROVE  LET b == Head(todo[p])
               n == Len(acquired[p]) + 1 IN
           /\ b \in Blocks /\ n \in Nat /\ <<p, n>> \notin cache_leases
           /\ Resident' = Resident /\ cache_leases' = cache_leases \cup {<<p, n>>}
           /\ \A x \in Resident :
                /\ entries'[x] \in [pinned : BOOLEAN, leases : Nat]
                /\ entries'[x].leases = entries[x].leases + (IF x = b THEN 1 ELSE 0)
           /\ acquired' \in [Procs -> Seq(Blocks)] /\ todo' \in [Procs -> Seq(Blocks)]
           /\ \A q \in Procs : DOMAIN acquired'[q] = IF q = p THEN DOMAIN acquired[q] \cup {n}
                                                              ELSE DOMAIN acquired[q]
           /\ \A q \in Procs : \A i \in DOMAIN acquired[q] : acquired'[q][i] = acquired[q][i]
           /\ acquired'[p][n] = b
           /\ \A q \in Procs \ {p} : acquired'[q] = acquired[q] /\ todo'[q] = todo[q]
<1> DEFINE b == Head(todo[p])
           n == Len(acquired[p]) + 1
<1>1. /\ p \in Procs /\ todo[p] \in Seq(Blocks) /\ acquired[p] \in Seq(Blocks)
      /\ acquired \in [Procs -> Seq(Blocks)] /\ todo \in [Procs -> Seq(Blocks)]
  BY Constant DEF TypeOK
<1>2. b \in Blocks /\ Tail(todo[p]) \in Seq(Blocks)
  BY <1>1, HeadTailProperties
<1>3. n \in Nat /\ DOMAIN acquired[p] = 1 .. Len(acquired[p]) /\ Len(acquired[p]) \in Nat
  BY <1>1, LenProperties
<1>4. /\ entries' = [entries EXCEPT ![b].leases = @ + 1]
      /\ cache_leases' = cache_leases \cup {<<p, n>>}
      /\ acquired' = [acquired EXCEPT ![p] = Append(@, b)]
      /\ todo' = [todo EXCEPT ![p] = Tail(@)]
  BY DEF Lease
<1>5. /\ Append(acquired[p], b) \in Seq(Blocks)
      /\ DOMAIN Append(acquired[p], b) = DOMAIN acquired[p] \cup {n}
      /\ \A i \in DOMAIN acquired[p] : Append(acquired[p], b)[i] = acquired[p][i]
      /\ Append(acquired[p], b)[n] = b
  <2> HIDE DEF b
  <2>1. /\ Append(acquired[p], b) \in Seq(Blocks)
        /\ Len(Append(acquired[p], b)) = Len(acquired[p]) + 1
        /\ \A i \in 1 .. Len(acquired[p]) + 1 : Append(acquired[p], b)[i] =
             IF i <= Len(acquired[p]) THEN acquired[p][i] ELSE b
    BY <1>1, <1>2, AppendProperties
  <2>2. DOMAIN Append(acquired[p], b) = 1 .. Len(acquired[p]) + 1
    BY <2>1, LenProperties
  <2>3. QED
    BY <1>3, <2>1, <2>2
<1>6. \A t \in cache_leases : t[1] = p => t[2] \in DOMAIN acquired[p]
  BY DEF TypeOK
<1>7. <<p, n>> \notin cache_leases
  <2> HIDE DEF n
  <2>1. n \notin DOMAIN acquired[p]
    BY <1>3 DEF n
  <2>2. QED
    BY <1>6, <2>1
<1> HIDE DEF b, n
<1>8. Resident' = Resident
  BY <1>4 DEF Resident
<1>12. ASSUME NEW x \in Resident
       PROVE  /\ entries'[x] \in [pinned : BOOLEAN, leases : Nat]
              /\ entries'[x].leases = entries[x].leases + (IF x = b THEN 1 ELSE 0)
  <2>1. entries[x] \in [pinned : BOOLEAN, leases : Nat]
    BY DEF TypeOK
  <2>2. CASE x = b
    <3>1. entries'[x] = [entries[x] EXCEPT !.leases = @ + 1]
      BY <1>4, <2>2 DEF Resident
    <3>2. QED
      BY <2>1, <2>2, <3>1
  <2>3. CASE x # b
    <3>1. entries'[x] = entries[x]
      BY <1>4, <2>3 DEF Resident
    <3>2. QED
      BY <2>1, <2>3, <3>1
  <2>4. QED
    BY <2>2, <2>3
<1>9. acquired' \in [Procs -> Seq(Blocks)] /\ todo' \in [Procs -> Seq(Blocks)]
  BY <1>1, <1>2, <1>4, <1>5
<1>10. /\ acquired'[p] = Append(acquired[p], b)
       /\ \A q \in Procs \ {p} : acquired'[q] = acquired[q] /\ todo'[q] = todo[q]
  BY <1>1, <1>4
<1>11. QED
  BY <1>1, <1>2, <1>3, <1>4, <1>5, <1>7, <1>8, <1>9, <1>10, <1>12 DEF b, n

\* The leases counted for a block.
LeasesOn(b) == {t \in cache_leases : BlockOf(t) = b}

\* One lease less, if it was still there, on a block that is resident.
LEMMA Unleases ==
    ASSUME TypeOK, CountsAgree, NEW t, Unlease(t)
    PROVE  /\ Resident' = Resident /\ cache_leases' = cache_leases \ {t}
           /\ \A x \in Resident :
                /\ entries'[x] \in [pinned : BOOLEAN, leases : Nat]
                /\ entries'[x].leases =
                     entries[x].leases - (IF t \in LeasesOn(x) THEN 1 ELSE 0)
<1>1. cache_leases' = cache_leases \ {t}
  BY DEF Unlease
<1>2. CASE t \notin cache_leases
  <2>1. entries' = entries /\ \A x : t \notin LeasesOn(x)
    BY <1>2 DEF Unlease, LeasesOn
  <2>2. \A x \in Resident : entries[x] \in [pinned : BOOLEAN, leases : Nat]
    BY DEF TypeOK
  <2>3. \A x \in Resident : entries[x].leases - 0 = entries[x].leases
    BY <2>2
  <2>4. QED
    BY <1>1, <2>1, <2>2, <2>3 DEF Resident
<1>3. CASE t \in cache_leases
  <2>1. /\ BlockOf(t) \in Resident
        /\ entries' = [entries EXCEPT ![BlockOf(t)].leases = @ - 1]
    BY <1>3 DEF Unlease, CountsAgree, LeasesExact
  <2>2. Resident' = Resident
    BY <2>1 DEF Resident
  <2>3. ASSUME NEW x \in Resident
        PROVE  /\ entries'[x] \in [pinned : BOOLEAN, leases : Nat]
               /\ entries'[x].leases =
                    entries[x].leases - (IF t \in LeasesOn(x) THEN 1 ELSE 0)
    <3>1. /\ entries[x] \in [pinned : BOOLEAN, leases : Nat]
          /\ entries[x].leases = Cardinality(LeasesOn(x)) /\ IsFiniteSet(LeasesOn(x))
          /\ t \in LeasesOn(x) <=> BlockOf(t) = x
      BY <1>3, FS_Subset DEF TypeOK, CountsAgree, LeasesExact, LeasesOn
    <3>2. CASE BlockOf(t) = x
      <4>1. entries[x].leases > 0
        <5>1. Cardinality(LeasesOn(x)) \in Nat /\ Cardinality(LeasesOn(x)) # 0
          BY <3>1, <3>2, FS_CardinalityType, FS_EmptySet
        <5>2. QED
          BY <3>1, <5>1
      <4>2. entries'[x] = [entries[x] EXCEPT !.leases = @ - 1]
        BY <2>1, <3>2 DEF Resident
      <4>3. QED
        BY <3>1, <3>2, <4>1, <4>2
    <3>3. CASE BlockOf(t) # x
      <4>1. entries'[x] = entries[x]
        BY <2>1, <3>3 DEF Resident
      <4>2. QED
        BY <3>1, <3>3, <4>1
    <3>4. QED
      BY <3>2, <3>3
  <2>4. QED
    BY <1>1, <2>2, <2>3
<1>4. QED
  BY <1>2, <1>3

\* An exception under _admission_lock.
LEMMA Raises ==
    ASSUME TypeOK, NEW p \in Procs, Raise(p)
    PROVE  \/ /\ p \in starting /\ admission' = NoOne /\ PcTo(p, "close")
              /\ giving' = giving
           \/ /\ p \notin starting /\ admission' = admission /\ PcTo(p, "unwind")
              /\ giving' = [giving EXCEPT ![p] = TokensOf(p)]
BY DEF Raise, Rollback

\* The list of a caller's cache leases.
LEMMA Tokens ==
    ASSUME TypeOK, NEW c \in Callers
    PROVE  /\ TokensOf(c) \in Seq(Callers \X Nat)
           /\ ToSet(TokensOf(c)) = {<<c, i>> : i \in DOMAIN acquired[c]}
<1>1. acquired[c] \in Seq(Blocks) /\ c \in Procs
  BY Constant DEF TypeOK
<1>2. Len(acquired[c]) \in Nat /\ DOMAIN acquired[c] = 1 .. Len(acquired[c])
  BY <1>1, LenProperties
<1>3. TokensOf(c) = [i \in 1 .. Len(acquired[c]) |-> <<c, i>>]
  BY DEF TokensOf
<1>4. TokensOf(c) \in [1 .. Len(acquired[c]) -> Callers \X Nat]
  BY <1>2, <1>3
<1>5. TokensOf(c) \in Seq(Callers \X Nat)
  BY <1>2, <1>4, SeqDef
<1>6. QED
  BY <1>2, <1>3, <1>5 DEF ToSet
-----------------------------------------------------------------------------
(* Types                                                                   *)

\* Every step keeps the types.
LEMMA TypeStep == IInv /\ [Next]_vars => TypeOK'
<1> SUFFICES ASSUME IInv, [Next]_vars
             PROVE  TypeOK'
  OBVIOUS
<1> USE DEF gateVars, cacheVars, loopVars, sweepVars
<1>1. TypeOK /\ StartsAgree /\ CountsAgree /\ Registered
  BY DEF IInv
<1>2. ASSUME NEW p \in Procs, todo[p] # <<>>
      PROVE  /\ [todo EXCEPT ![p] = Tail(@)] \in [Procs -> Seq(Blocks)]
             /\ Head(todo[p]) \in Blocks
  <2>1. todo[p] \in Seq(Blocks)
    BY <1>1 DEF TypeOK
  <2>2. Tail(todo[p]) \in Seq(Blocks) /\ Head(todo[p]) \in Blocks
    BY <1>2, <2>1, HeadTailProperties
  <2>3. QED
    BY <1>1, <2>2 DEF TypeOK
<1>3. ASSUME NEW p \in Procs, CheckStart(p)
      PROVE  TypeOK'
  <2>1. CoreBlocks \in Seq(Blocks)
    BY Constant
  <2>2. pc' = [pc EXCEPT ![p] =
                 IF closed THEN "done" ELSE IF started THEN AfterStart(p) ELSE "wait"]
    BY <1>3 DEF CheckStart, PcTo
  <2>3. starting' \subseteq Procs /\ todo' \in [Procs -> Seq(Blocks)]
    BY <1>1, <1>3, <2>1 DEF CheckStart, TypeOK
  <2>4. QED
    BY <1>1, <1>3, <2>2, <2>3 DEF CheckStart, AfterStart, TypeOK, Resident
<1>4. ASSUME NEW p \in Procs, LockAdmission(p) \/ LoopDone(p)
      PROVE  TypeOK'
  <2>1. admission' \in Procs \cup {NoOne}
    BY <1>4 DEF LockAdmission, LoopDone
  <2>2. pc' \in {[pc EXCEPT ![p] = "load"], [pc EXCEPT ![p] = "mark"],
                 [pc EXCEPT ![p] = "grant"]}
    BY <1>4 DEF LockAdmission, LoopDone, PcTo
  <2>3. QED
    BY <1>1, <1>4, <2>1, <2>2 DEF LockAdmission, LoopDone, TypeOK, Resident
<1>5. ASSUME NEW p \in Procs, MarkStarted(p) \/ Shut(p)
      PROVE  TypeOK'
  BY <1>1, <1>5 DEF MarkStarted, Shut, PcTo, AfterStart, TypeOK, Resident
<1>6. ASSUME NEW p \in Procs, CloseCheck(p)
      PROVE  TypeOK'
  BY <1>1, <1>6 DEF CloseCheck, PcTo, TypeOK, Resident
<1>7. ASSUME NEW p \in Procs, Skip(p)
      PROVE  TypeOK'
  <2>1. todo' \in [Procs -> Seq(Blocks)]
    BY <1>2, <1>7 DEF Skip, At
  <2>2. QED
    BY <1>1, <1>7, <2>1 DEF Skip, TypeOK, Resident
<1>8. ASSUME NEW p \in Procs, Hit(p) \/ LeaseNew(p)
      PROVE  TypeOK'
  <2>1. /\ p \in Callers /\ todo[p] # <<>> /\ Head(todo[p]) \in Resident /\ Lease(p)
        /\ UNCHANGED <<started, closed, leases, stale, admission, giving, reservation,
                       starting>>
    <3>1. p # Main
      BY <1>1, <1>8 DEF Hit, LeaseNew, At, StartsAgree
    <3>2. QED
      BY <1>8, <3>1 DEF Hit, LeaseNew, At, Procs, Lease
  <2>2. pc' \in [Procs -> {"idle", "start", "wait", "load", "read", "lease", "mark",
                           "unwind", "expire", "expiring", "grant", "holding",
                           "releasing", "open", "close", "closing", "shut", "done"}]
    BY <1>1, <1>8 DEF Hit, LeaseNew, PcTo, TypeOK
  <2>3. /\ acquired' \in [Procs -> Seq(Blocks)] /\ todo' \in [Procs -> Seq(Blocks)]
        /\ Resident' = Resident
        /\ \A x \in Resident : entries'[x] \in [pinned : BOOLEAN, leases : Nat]
    BY <1>1, <2>1, Leases
  <2>4. /\ cache_leases' \subseteq Callers \X Nat
        /\ \A t \in cache_leases' : t[2] \in DOMAIN acquired'[t[1]]
    <3> DEFINE n == Len(acquired[p]) + 1
    <3>1. /\ cache_leases' = cache_leases \cup {<<p, n>>} /\ n \in Nat
          /\ \A q \in Procs : DOMAIN acquired'[q] = IF q = p THEN DOMAIN acquired[q] \cup {n}
                                                             ELSE DOMAIN acquired[q]
      BY <1>1, <2>1, Leases
    <3> HIDE DEF n
    <3>2. \A t \in cache_leases : t[1] \in Procs /\ t[2] \in DOMAIN acquired[t[1]]
      BY <1>1, Constant DEF TypeOK
    <3>3. ASSUME NEW t \in cache_leases'
          PROVE  t[2] \in DOMAIN acquired'[t[1]]
      <4>1. CASE t \in cache_leases
        BY <3>1, <3>2, <4>1
      <4>2. CASE t = <<p, n>>
        BY <2>1, <3>1, <4>2, Constant
      <4>3. QED
        BY <3>1, <4>1, <4>2
    <3>4. cache_leases' \subseteq Callers \X Nat
      BY <1>1, <2>1, <3>1 DEF TypeOK
    <3>5. QED
      BY <3>3, <3>4
  <2>5. QED
    BY <1>1, <2>1, <2>2, <2>3, <2>4 DEF TypeOK
<1>9. ASSUME NEW p \in Procs, Raise(p)
      PROVE  /\ admission' \in Procs \cup {NoOne}
             /\ pc' \in [Procs -> {"idle", "start", "wait", "load", "read", "lease", "mark",
                                   "unwind", "expire", "expiring", "grant", "holding",
                                   "releasing", "open", "close", "closing", "shut",
                                   "done"}]
             /\ p # Main => giving' \in [Procs -> Seq(Callers \X Nat)]
             /\ p \in starting => giving' = giving
  <2>1. CASE p \in starting
    BY <1>1, <1>9, <2>1, Raises DEF PcTo, TypeOK
  <2>2. CASE p \notin starting
    <3>1. /\ admission' = admission /\ PcTo(p, "unwind")
          /\ giving' = [giving EXCEPT ![p] = TokensOf(p)]
      BY <1>1, <1>9, <2>2, Raises
    <3>2. p # Main => TokensOf(p) \in Seq(Callers \X Nat)
      BY <1>1, Tokens DEF Procs
    <3>3. QED
      BY <1>1, <2>2, <3>1, <3>2 DEF PcTo, TypeOK
  <2>3. QED
    BY <2>1, <2>2
<1>10. ASSUME NEW p \in Procs, Raise(p), pc[p] \in {"load", "read", "lease"}
       PROVE  giving' \in [Procs -> Seq(Callers \X Nat)]
  <2>1. p = Main => p \in starting
    BY <1>1, <1>10 DEF StartsAgree
  <2>2. QED
    BY <1>1, <1>9, <1>10, <2>1 DEF TypeOK
<1>11. ASSUME NEW V, EvictAll(V)
       PROVE  /\ Resident' \subseteq Blocks
              /\ \A b \in Resident' : entries'[b] \in [pinned : BOOLEAN, leases : Nat]
  BY <1>1, <1>11, Evicts DEF TypeOK
<1>12. ASSUME NEW p \in Procs, NEW b \in Blocks, Reserve(p, b)
       PROVE  TypeOK'
  <2>1. PICK V \in Victims(b) : EvictAll(V)
    BY <1>12 DEF Reserve
  <2>2. reservation' \in [Procs -> Blocks \cup {NoOne}]
    BY <1>1, <1>12 DEF Reserve, TypeOK
  <2>3. QED
    BY <1>1, <1>11, <1>12, <2>1, <2>2 DEF Reserve, PcTo, TypeOK
<1>13. ASSUME NEW p \in Procs, NEW b \in Blocks, NoRoom(p, b)
       PROVE  TypeOK'
  <2>1. EvictAll(Exhausted(b)) /\ Raise(p) /\ pc[p] = "load"
    BY <1>13 DEF NoRoom, At
  <2>2. QED
    BY <1>1, <1>9, <1>10, <1>11, <1>13, <2>1 DEF NoRoom, TypeOK
<1>14. ASSUME NEW p \in Procs, LoadFails(p)
       PROVE  TypeOK'
  <2>1. /\ reservation' = [reservation EXCEPT ![p] = NoOne] /\ Raise(p) /\ pc[p] = "read"
    BY <1>14 DEF LoadFails, Cancel
  <2>2. QED
    BY <1>1, <1>9, <1>10, <1>14, <2>1 DEF LoadFails, TypeOK, Resident
<1>15. ASSUME NEW p \in Procs, NEW b \in Blocks, NotLeased(p, b)
       PROVE  TypeOK'
  <2>1. Raise(p) /\ pc[p] = "lease"
    BY <1>15 DEF NotLeased, At
  <2>2. QED
    BY <1>1, <1>9, <1>10, <1>15, <2>1 DEF NotLeased, TypeOK, Resident
<1>16. ASSUME NEW p \in Procs, NEW b \in Blocks, Commit(p, b)
       PROVE  TypeOK'
  <2>1. /\ entries' = [x \in Resident \cup {b} |->
                         IF x = b THEN [pinned |-> p \in starting, leases |-> 0]
                                  ELSE entries[x]]
        /\ reservation' = [reservation EXCEPT ![p] = NoOne]
        /\ todo[p] # <<>>
    BY <1>16 DEF Commit, Cancel, At
  <2>2. Resident' \subseteq Blocks
    BY <1>1, <2>1 DEF Resident, TypeOK
  <2>3. \A x \in Resident' : entries'[x] \in [pinned : BOOLEAN, leases : Nat]
    BY <1>1, <2>1 DEF Resident, TypeOK
  <2>4. todo' \in [Procs -> Seq(Blocks)]
    BY <1>1, <1>2, <1>16, <2>1 DEF Commit, TypeOK
  <2>5. reservation' \in [Procs -> Blocks \cup {NoOne}]
    BY <1>1, <2>1 DEF TypeOK
  <2>6. QED
    BY <1>1, <1>16, <2>2, <2>3, <2>4, <2>5 DEF Commit, PcTo, TypeOK
<1>17. ASSUME NEW p \in Procs, Pop(p)
       PROVE  TypeOK'
  <2> DEFINE l == Head(sweep[p])
  <2>1. /\ Popped(l)
        /\ giving' = [giving EXCEPT ![p] = IF l \in ToSet(leases) THEN TokensOf(l) ELSE <<>>]
    BY <1>17 DEF Pop
  <2> HIDE DEF l
  <2>2. leases' \in Seq(Callers) /\ stale' \subseteq ToSet(leases')
    <3>1. CASE l \in ToSet(leases)
      <4>1. PICK i \in DOMAIN leases : leases[i] = l /\ leases' = RemoveAt(leases, i)
        BY <2>1, <3>1 DEF Popped
      <4>2. leases \in Seq(Callers) /\ \A j, k \in DOMAIN leases : leases[j] = leases[k] => j = k
        BY <1>1 DEF TypeOK, Registered
      <4>3. ToSet(leases') = ToSet(leases) \ {l} /\ leases' \in Seq(Callers)
        BY <4>1, <4>2, Unlisted, Removed
      <4>4. QED
        BY <1>1, <2>1, <4>3 DEF Popped, TypeOK
    <3>2. CASE l \notin ToSet(leases)
      BY <1>1, <2>1, <3>2 DEF Popped, TypeOK
    <3>3. QED
      BY <3>1, <3>2
  <2>3. giving' \in [Procs -> Seq(Callers \X Nat)]
    <3>1. l \in ToSet(leases) => l \in Callers
      BY <1>1, ElementOfSeq, LenProperties DEF TypeOK, ToSet
    <3>2. l \in ToSet(leases) => TokensOf(l) \in Seq(Callers \X Nat)
      BY <1>1, <3>1, Tokens
    <3>3. <<>> \in Seq(Callers \X Nat)
      BY EmptySeq
    <3>4. QED
      BY <1>1, <2>1, <3>2, <3>3 DEF TypeOK
  <2>4. QED
    BY <1>1, <1>17, <2>2, <2>3 DEF Pop, TypeOK, Resident
<1>18. ASSUME NEW p \in Procs, GiveBack(p)
       PROVE  TypeOK'
  <2>1. /\ giving[p] # <<>> /\ Unlease(Head(giving[p]))
        /\ giving' = [giving EXCEPT ![p] = Tail(@)]
    BY <1>18 DEF GiveBack
  <2>2. Tail(giving[p]) \in Seq(Callers \X Nat)
    BY <1>1, <2>1, HeadTailProperties DEF TypeOK
  <2>3. giving' \in [Procs -> Seq(Callers \X Nat)]
    BY <1>1, <2>1, <2>2 DEF TypeOK
  <2>4. /\ Resident' = Resident /\ cache_leases' \subseteq cache_leases
        /\ \A x \in Resident : entries'[x] \in [pinned : BOOLEAN, leases : Nat]
    BY <1>1, <2>1, Unleases
  <2>5. QED
    BY <1>1, <1>18, <2>3, <2>4 DEF GiveBack, TypeOK
<1>19. ASSUME NEW p \in Procs, Clear(p)
       PROVE  TypeOK'
  <2>1. /\ Resident' = {} /\ cache_leases' = {}
        /\ reservation' \in [Procs -> Blocks \cup {NoOne}]
    BY <1>19 DEF Clear, CacheClose, Resident
  <2>2. QED
    BY <1>1, <1>19, <2>1 DEF Clear, PcTo, TypeOK
<1>20. ASSUME NEW c \in Callers, Register(c)
       PROVE  TypeOK'
  <2>1. leases' \in Seq(Callers) /\ ToSet(leases) \subseteq ToSet(leases')
    <3>1. leases \in Seq(Callers) /\ leases' = Append(leases, c)
      BY <1>1, <1>20 DEF Register, TypeOK
    <3>2. QED
      BY <3>1, AppendProperties, LenProperties DEF ToSet
  <2>2. QED
    BY <1>1, <1>20, <2>1 DEF Register, PcTo, TypeOK, Resident
<1>21. ASSUME NEW c \in Callers, TimeOut(c)
       PROVE  TypeOK'
  <2>1. c \in ToSet(leases) /\ stale' = stale \cup {c}
    BY <1>21 DEF TimeOut, ToSet
  <2>2. QED
    BY <1>1, <1>21, <2>1 DEF TimeOut, TypeOK, Resident
<1>22. ASSUME NEW c \in Callers,
              Call(c) \/ Expire(c) \/ Unwound(c) \/ Release(c) \/ Released(c)
       PROVE  TypeOK'
  BY <1>1, <1>22 DEF Call, Expire, Unwound, FreeAdmission, Release, Released, PcTo,
     TypeOK, Resident
<1>23. ASSUME NEW c \in Callers, NEW r \in Requests, Ask(c, r)
       PROVE  TypeOK'
  <2>1. r \in Seq(Blocks)
    BY Constant
  <2>2. todo' \in [Procs -> Seq(Blocks)]
    BY <1>1, <1>23, <2>1 DEF Ask, TypeOK
  <2>3. QED
    BY <1>1, <1>23, <2>2 DEF Ask, PcTo, TypeOK, Resident
<1>24. CASE Enter \/ Exit
  BY <1>1, <1>24, Constant DEF Enter, Exit, PcTo, TypeOK, Resident
<1>25. CASE UNCHANGED vars
  BY <1>1, <1>25 DEF vars, TypeOK, Resident
<1>26. QED
  BY <1>3, <1>4, <1>5, <1>6, <1>7, <1>8, <1>12, <1>13, <1>14, <1>15, <1>16, <1>17,
     <1>18, <1>19, <1>20, <1>21, <1>22, <1>23, <1>24, <1>25, Steps
-----------------------------------------------------------------------------
(* The lock, the starting threads and the table of the gate                *)

\* What the other steps do to the lock and the program counters.
Works(p) ==
    \/ /\ UNCHANGED <<admission, pc>>
    \/ /\ admission' = admission
       /\ \/ pc[p] = "lease" /\ p \notin starting /\ PcTo(p, "load")
          \/ pc[p] = "load" /\ PcTo(p, "read")
          \/ pc[p] = "read" /\ p \in starting /\ PcTo(p, "load")
          \/ pc[p] = "read" /\ p \notin starting /\ PcTo(p, "lease")
          \/ pc[p] \in {"load", "read", "lease"} /\ p \notin starting /\ PcTo(p, "unwind")
          \/ pc[p] = "closing" /\ PcTo(p, "shut")
          \/ pc[p] = "grant" /\ p \in Callers /\ PcTo(p, "holding")
    \/ /\ admission' = NoOne
       /\ pc[p] \in {"load", "read", "lease"} /\ p \in starting /\ PcTo(p, "close")

\* A step either moves a thread from one part of its call to the next, or
\* works on blocks inside one part.
LEMMA WorkCases ==
    ASSUME IInv, [Next]_vars
    PROVE  \E p \in Procs : Moves(p) \/ (Works(p) /\ UNCHANGED starting)
<1> USE DEF gateVars, cacheVars, loopVars, sweepVars, Works
<1>1. TypeOK /\ StartsAgree
  BY DEF IInv
<1>2. ASSUME NEW p \in Procs, Raise(p), pc[p] \in {"load", "read", "lease"}
      PROVE  Works(p)
  BY <1>1, <1>2, Raises
<1>3. ASSUME NEW p \in Procs,
             \/ Skip(p) \/ Hit(p) \/ LoadFails(p) \/ Pop(p) \/ GiveBack(p) \/ Clear(p)
      PROVE  Works(p) /\ UNCHANGED starting
  <2>1. CASE Skip(p) \/ Hit(p)
    BY <2>1 DEF Skip, Hit, Lease
  <2>2. CASE LoadFails(p)
    BY <1>2, <2>2 DEF LoadFails
  <2>3. CASE Pop(p) \/ GiveBack(p) \/ Clear(p)
    BY <2>3 DEF Pop, GiveBack, Clear
  <2>4. QED
    BY <1>3, <2>1, <2>2, <2>3
<1>4. ASSUME NEW p \in Procs, LeaseNew(p)
      PROVE  Works(p) /\ UNCHANGED starting
  BY <1>1, <1>4 DEF LeaseNew, At, Lease, StartsAgree
<1>5. ASSUME NEW p \in Procs, NEW b \in Blocks,
             Reserve(p, b) \/ NoRoom(p, b) \/ Commit(p, b) \/ NotLeased(p, b)
      PROVE  Works(p) /\ UNCHANGED starting
  <2>1. CASE Reserve(p, b)
    BY <2>1 DEF Reserve, At
  <2>2. CASE NoRoom(p, b) \/ NotLeased(p, b)
    BY <1>2, <2>2 DEF NoRoom, NotLeased, At
  <2>3. CASE Commit(p, b)
    BY <2>3 DEF Commit, At
  <2>4. QED
    BY <1>5, <2>1, <2>2, <2>3
<1>6. ASSUME NEW c \in Callers, Register(c) \/ TimeOut(c)
      PROVE  Works(c) /\ UNCHANGED starting
  BY <1>6 DEF Register, TimeOut
<1>7. CASE UNCHANGED vars
  <2>1. Works(Main) /\ UNCHANGED starting
    BY <1>7 DEF vars
  <2>2. QED
    BY <2>1, Constant
<1>8. QED
  BY <1>3, <1>4, <1>5, <1>6, <1>7, Cases, Constant

\* _admission_lock is taken and freed with the places it protects.
LEMMA LocksStep == IInv /\ [Next]_vars => LocksAgree'
<1> SUFFICES ASSUME IInv, [Next]_vars
             PROVE  LocksAgree'
  OBVIOUS
<1>1. TypeOK /\ LocksAgree
  BY DEF IInv
<1>2. PICK p \in Procs : Moves(p) \/ Works(p)
  BY WorkCases
<1>3. p # NoOne
  BY Constant
<1>4. CASE UNCHANGED <<admission, pc>>
  BY <1>1, <1>4 DEF LocksAgree
<1>5. ASSUME NEW to, PcTo(p, to),
             \/ /\ admission' = admission
                /\ pc[p] \in {"load", "read", "lease", "unwind"} <=>
                     to \in {"load", "read", "lease", "unwind"}
             \/ /\ pc[p] \in {"load", "read", "lease", "unwind"} /\ admission' = NoOne
                /\ to \notin {"load", "read", "lease", "unwind"}
             \/ /\ admission = NoOne /\ admission' = p
                /\ to \in {"load", "read", "lease", "unwind"}
      PROVE  LocksAgree'
  <2>1. \A q \in Procs : pc'[q] = IF q = p THEN to ELSE pc[q]
    BY <1>1, <1>5, PcAfter
  <2>2. NoOne \notin Procs
    BY Constant
  <2>3. QED
    BY <1>1, <1>5, <2>1, <2>2 DEF LocksAgree
<1>6. CASE Moves(p)
  BY <1>5, <1>6 DEF Moves, AfterStart
<1>7. CASE Works(p)
  BY <1>4, <1>5, <1>7 DEF Works
<1>8. QED
  BY <1>2, <1>6, <1>7

\* Whoever calls acquire has leased nothing until it has the lock.
LEMMA StartsStep == IInv /\ [Next]_vars => StartsAgree'
<1> SUFFICES ASSUME IInv, [Next]_vars
             PROVE  StartsAgree'
  OBVIOUS
<1> USE DEF gateVars, cacheVars, loopVars, sweepVars
<1>1. TypeOK /\ StartsAgree
  BY DEF IInv
<1>2. ASSUME NEW p \in Procs, Moves(p)
      PROVE  StartsAgree'
  <2>1. PICK to : PcTo(p, to) /\
         \/ /\ UNCHANGED <<starting, admission, todo>>
            /\ \/ pc[p] = "idle" /\ to \in {"done", "start"}
               \/ pc[p] = "idle" /\ to = "expire" /\ p # Main
               \/ pc[p] = "start" /\ to \in {"done", AfterStart(p)}
               \/ pc[p] = "expire" /\ to = "expiring"
               \/ pc[p] = "holding" /\ to = "releasing"
               \/ pc[p] = "releasing" /\ to = "done"
               \/ pc[p] = "open" /\ to = "close"
               \/ pc[p] = "close" /\ to \in {"closing", "done"}
               \/ pc[p] = "shut" /\ to = "done" /\ closed'
         \/ pc[p] = "expiring" /\ to = "wait" /\ p # Main /\ UNCHANGED <<starting, admission>>
         \/ pc[p] = "start" /\ to = "wait" /\ starting' = starting \cup {p}
              /\ UNCHANGED admission
         \/ pc[p] = "wait" /\ to = "load" /\ admission = NoOne /\ admission' = p
              /\ UNCHANGED <<starting, todo>>
         \/ pc[p] = "load" /\ to = (IF p \in starting THEN "mark" ELSE "grant")
              /\ admission' = NoOne /\ UNCHANGED <<starting, todo>>
         \/ pc[p] = "mark" /\ to = AfterStart(p) /\ starting' = starting \ {p}
              /\ UNCHANGED <<admission, todo>>
         \/ pc[p] = "unwind" /\ to = "done" /\ admission' = NoOne
              /\ UNCHANGED <<starting, todo>>
    BY <1>2 DEF Moves
  <2>2. /\ \A q \in Procs : pc'[q] = IF q = p THEN to ELSE pc[q]
        /\ acquired' = acquired
        /\ \A q \in Procs \ {p} : q \in starting' <=> q \in starting
    BY <1>1, <1>2, <2>1, PcAfter DEF Moves
  <2>3. ASSUME NEW q \in Procs \ {p}
        PROVE  pc'[q] = pc[q] /\ acquired'[q] = acquired[q]
               /\ (q \in starting' <=> q \in starting)
    BY <2>2
  <2>4. pc'[p] = to /\ acquired'[p] = acquired[p]
    BY <2>2
  <2>5. QED
    BY <1>1, <2>1, <2>3, <2>4 DEF StartsAgree, AfterStart
<1>3. ASSUME NEW p \in Procs, Works(p), UNCHANGED <<starting, acquired>>
      PROVE  StartsAgree'
  <2>1. CASE UNCHANGED pc
    BY <1>1, <1>3, <2>1 DEF StartsAgree
  <2>2. CASE ~UNCHANGED pc
    <3>1. PICK to : PcTo(p, to) /\
               \/ pc[p] = "lease" /\ p \notin starting /\ to = "load"
               \/ pc[p] = "load" /\ to = "read"
               \/ pc[p] = "read" /\ p \in starting /\ to = "load"
               \/ pc[p] = "read" /\ p \notin starting /\ to = "lease"
               \/ pc[p] \in {"load", "read", "lease"} /\ p \notin starting /\ to = "unwind"
               \/ pc[p] = "closing" /\ to = "shut"
               \/ pc[p] = "grant" /\ p \in Callers /\ to = "holding"
               \/ pc[p] \in {"load", "read", "lease"} /\ p \in starting /\ to = "close"
      BY <1>3, <2>2 DEF Works
    <3>2. \A q \in Procs : pc'[q] = IF q = p THEN to ELSE pc[q]
      BY <1>1, <3>1, PcAfter
    <3>3. QED
      BY <1>1, <1>3, <3>1, <3>2, Constant DEF StartsAgree
  <2>3. QED
    BY <2>1, <2>2
<1>4. ASSUME NEW p \in Procs, Hit(p) \/ LeaseNew(p)
      PROVE  StartsAgree'
  <2>1. /\ p \in Callers /\ p # Main /\ todo[p] # <<>> /\ Head(todo[p]) \in Resident
        /\ Lease(p) /\ p \notin starting /\ starting' = starting
        /\ pc[p] \in {"load", "lease"} /\ (PcTo(p, "load") \/ pc' = pc)
    <3>1. p # Main
      BY <1>1, <1>4 DEF Hit, LeaseNew, At, StartsAgree
    <3>2. QED
      BY <1>1, <1>4, <3>1 DEF Hit, LeaseNew, At, Procs, Lease, StartsAgree
  <2>2. \A q \in Procs \ {p} : acquired'[q] = acquired[q]
    BY <1>1, <2>1, Leases
  <2>3. /\ pc'[p] \in {"load", "lease"} /\ \A q \in Procs \ {p} : pc'[q] = pc[q]
    BY <1>1, <2>1, PcAfter
  <2>4. QED
    BY <1>1, <2>1, <2>2, <2>3 DEF StartsAgree
<1>5. PICK p \in Procs : Moves(p) \/ (Works(p) /\ UNCHANGED starting)
  BY WorkCases
<1>6. CASE UNCHANGED acquired
  BY <1>2, <1>3, <1>5, <1>6
<1>7. CASE ~UNCHANGED acquired
  <2>1. \E q \in Procs : Hit(q) \/ LeaseNew(q)
    BY <1>7, Cases DEF Moves, Skip, LoadFails, Pop, GiveBack, Clear, Reserve, NoRoom,
       Commit, NotLeased, Register, TimeOut, vars
  <2>2. QED
    BY <1>4, <2>1
<1>8. QED
  BY <1>6, <1>7

\* An acquire that has ended stays ended, whoever acquires has waited for the
\* lock, and a close that has begun goes on.
LEMMA Went ==
    ASSUME IInv, [Next]_vars
    PROVE  /\ Closing => Closing'
           /\ \A q \in Procs :
                /\ pc[q] \in {"holding", "releasing", "done"} =>
                     pc'[q] \in {"holding", "releasing", "done"}
                /\ pc[q] = "unwind" => pc'[q] \in {"unwind", "done"}
                /\ pc'[q] \in {"load", "read", "lease", "grant"} =>
                     pc[q] \in {"wait", "load", "read", "lease", "grant"}
<1>1. TypeOK
  BY DEF IInv
<1>2. PICK p \in Procs : Moves(p) \/ (Works(p) /\ UNCHANGED starting)
  BY WorkCases
<1>3. CASE UNCHANGED pc /\ (closed => closed')
  BY <1>3 DEF Closing
<1>4. ASSUME NEW to, PcTo(p, to), closed => closed',
             /\ pc[p] \in {"holding", "releasing", "done"} =>
                  to \in {"holding", "releasing", "done"}
             /\ pc[p] = "unwind" => to \in {"unwind", "done"}
             /\ to \in {"load", "read", "lease", "grant"} =>
                  pc[p] \in {"wait", "load", "read", "lease", "grant"}
             /\ pc[p] \in {"closing", "shut"} => to \in {"closing", "shut"} \/ closed'
      PROVE  /\ Closing => Closing'
             /\ \A q \in Procs :
                /\ pc[q] \in {"holding", "releasing", "done"} =>
                     pc'[q] \in {"holding", "releasing", "done"}
                /\ pc[q] = "unwind" => pc'[q] \in {"unwind", "done"}
                /\ pc'[q] \in {"load", "read", "lease", "grant"} =>
                     pc[q] \in {"wait", "load", "read", "lease", "grant"}
  <2>1. \A q \in Procs : pc'[q] = IF q = p THEN to ELSE pc[q]
    BY <1>1, <1>4, PcAfter
  <2>2. Closing => Closing'
    BY <1>4, <2>1 DEF Closing
  <2>3. QED
    BY <1>4, <2>1, <2>2
<1>5. CASE Moves(p)
  BY <1>4, <1>5 DEF Moves, AfterStart
<1>6. CASE Works(p) /\ UNCHANGED starting
  <2>1. closed => closed'
    BY Cases, Zenon DEF gateVars, vars, Moves, Skip, Hit, LeaseNew, LoadFails, Pop,
       GiveBack, Clear, Reserve, NoRoom, Commit, NotLeased, Register, TimeOut
  <2>2. QED
    BY <1>3, <1>4, <1>6, <2>1 DEF Works
<1>7. QED
  BY <1>2, <1>5, <1>6

\* Who is about to register is not registered yet.
LEMMA Registers ==
    ASSUME IInv, NEW c \in Callers, Register(c)
    PROVE  /\ c \notin ToSet(leases) /\ ToSet(leases') = ToSet(leases) \cup {c}
           /\ pc[c] = "grant" /\ pc'[c] = "holding"
           /\ leases' = Append(leases, c) /\ Len(leases) \in Nat
           /\ DOMAIN leases = 1 .. Len(leases)
           /\ DOMAIN leases' = DOMAIN leases \cup {Len(leases) + 1}
           /\ leases'[Len(leases) + 1] = c
           /\ \A i \in DOMAIN leases : leases'[i] = leases[i]
<1>1. /\ leases \in Seq(Callers) /\ leases' = Append(leases, c) /\ pc[c] = "grant"
      /\ PcTo(c, "holding") /\ TypeOK /\ Registered
  BY DEF IInv, TypeOK, Register
<1>2. /\ Len(leases) \in Nat /\ DOMAIN leases = 1 .. Len(leases)
      /\ DOMAIN leases' = 1 .. Len(leases) + 1
      /\ \A i \in 1 .. Len(leases) + 1 :
           leases'[i] = IF i <= Len(leases) THEN leases[i] ELSE c
  BY <1>1, AppendProperties, LenProperties
<1>3. /\ DOMAIN leases' = DOMAIN leases \cup {Len(leases) + 1}
      /\ leases'[Len(leases) + 1] = c
      /\ \A i \in DOMAIN leases : leases'[i] = leases[i]
  BY <1>2
<1>4. c \notin ToSet(leases)
  BY <1>1 DEF Registered, ToSet
<1>5. ToSet(leases') = ToSet(leases) \cup {c}
  BY <1>3 DEF ToSet
<1>6. pc'[c] = "holding"
  BY <1>1, PcAfter, Constant
<1>7. QED
  BY <1>1, <1>2, <1>3, <1>4, <1>5, <1>6

\* A release takes one lease out of the table, if it is there.
LEMMA Pops ==
    ASSUME IInv, NEW p \in Procs, Pop(p)
    PROVE  LET l == Head(sweep[p]) IN
           /\ ToSet(leases') = ToSet(leases) \ {l}
           /\ \A i, j \in DOMAIN leases' : leases'[i] = leases'[j] => i = j
           /\ giving[p] = <<>> /\ UNCHANGED <<pc, cacheVars, acquired>>
           /\ giving' = [giving EXCEPT ![p] =
                           IF l \in ToSet(leases) THEN TokensOf(l) ELSE <<>>]
           /\ l \in ToSet(leases) =>
                l \in Callers /\ pc[l] \in {"holding", "releasing", "done"}
<1> DEFINE l == Head(sweep[p])
<1>1. /\ TypeOK /\ Registered /\ leases \in Seq(Callers)
      /\ \A i, j \in DOMAIN leases : leases[i] = leases[j] => i = j
  BY DEF IInv, TypeOK, Registered
<1>2. /\ Popped(l) /\ giving[p] = <<>> /\ UNCHANGED <<pc, cacheVars, acquired>>
      /\ giving' = [giving EXCEPT ![p] =
                      IF l \in ToSet(leases) THEN TokensOf(l) ELSE <<>>]
  BY DEF Pop, loopVars
<1> HIDE DEF l
<1>3. CASE l \in ToSet(leases)
  <2>1. PICK i \in DOMAIN leases : leases[i] = l /\ leases' = RemoveAt(leases, i)
    BY <1>2, <1>3 DEF Popped
  <2>2. /\ ToSet(leases') = ToSet(leases) \ {l}
        /\ \A j, k \in DOMAIN leases' : leases'[j] = leases'[k] => j = k
    BY <1>1, <2>1, Unlisted
  <2>3. l \in Callers /\ pc[l] \in {"holding", "releasing", "done"}
    BY <1>1, <2>1, ElementOfSeq, LenProperties DEF Registered
  <2>4. QED
    BY <1>2, <2>2, <2>3 DEF l
<1>4. CASE l \notin ToSet(leases)
  <2>1. leases' = leases
    BY <1>2, <1>4 DEF Popped
  <2>2. QED
    BY <1>1, <1>2, <1>4, <2>1 DEF l
<1>5. QED
  BY <1>3, <1>4

\* Only a release and a registration change the table of the gate.
LEMMA TableCases ==
    ASSUME [Next]_vars
    PROVE  \/ UNCHANGED leases
           \/ \E p \in Procs : Pop(p)
           \/ \E c \in Callers : Register(c)
BY Cases DEF gateVars, vars, Moves, Skip, Hit, LeaseNew, LoadFails,
   GiveBack, Clear, Reserve, NoRoom, Commit, NotLeased, TimeOut

\* A caller is put in the table of leases once, when its acquire ends.
LEMMA RegisteredStep == IInv /\ [Next]_vars => Registered'
<1> SUFFICES ASSUME IInv, [Next]_vars
             PROVE  Registered'
  OBVIOUS
<1>1. TypeOK /\ Registered /\ leases \in Seq(Callers)
  BY DEF IInv, TypeOK
<1>2. \A q \in Procs : pc[q] \in {"holding", "releasing", "done"} =>
                         pc'[q] \in {"holding", "releasing", "done"}
  BY Went
<1>3. \A i \in DOMAIN leases : leases[i] \in Procs
  BY <1>1, Constant, ElementOfSeq, LenProperties
<1>4. CASE UNCHANGED leases
  BY <1>1, <1>2, <1>3, <1>4 DEF Registered
<1>5. ASSUME NEW p \in Procs, Pop(p)
      PROVE  Registered'
  <2>1. /\ \A i, j \in DOMAIN leases' : leases'[i] = leases'[j] => i = j
        /\ ToSet(leases') \subseteq ToSet(leases)
    BY <1>5, Pops
  <2>2. \A l \in ToSet(leases) : l \in Procs /\ pc[l] \in {"holding", "releasing", "done"}
    BY <1>1, <1>3 DEF Registered, ToSet
  <2>3. \A i \in DOMAIN leases' : leases'[i] \in ToSet(leases')
    BY DEF ToSet
  <2>4. QED
    BY <1>2, <2>1, <2>2, <2>3 DEF Registered
<1>6. ASSUME NEW c \in Callers, Register(c)
      PROVE  Registered'
  <2>1. c \notin ToSet(leases) /\ pc'[c] = "holding"
    BY <1>6, Registers
  <2>2. /\ Len(leases) \in Nat /\ DOMAIN leases = 1 .. Len(leases)
        /\ DOMAIN leases' = DOMAIN leases \cup {Len(leases) + 1}
        /\ leases'[Len(leases) + 1] = c
        /\ \A i \in DOMAIN leases : leases'[i] = leases[i]
    BY <1>6, Registers
  <2>3. \A i \in DOMAIN leases : leases[i] # c
    BY <2>1 DEF ToSet
  <2>4. \A i \in DOMAIN leases' : pc'[leases'[i]] \in {"holding", "releasing", "done"}
    BY <1>1, <1>2, <1>3, <2>1, <2>2 DEF Registered
  <2>5. \A i, j \in DOMAIN leases' : leases'[i] = leases'[j] => i = j
    BY <1>1, <2>2, <2>3 DEF Registered
  <2>6. QED
    BY <2>4, <2>5 DEF Registered
<1>7. QED
  BY <1>4, <1>5, <1>6, TableCases
-----------------------------------------------------------------------------
(* What is on its way to be released                                       *)

\* A failing acquire puts what it has leased on its list.
GivesUp(p) ==
    /\ p \in Callers /\ pc[p] \in {"load", "read", "lease"}
    /\ pc' = [pc EXCEPT ![p] = "unwind"]
    /\ giving' = [giving EXCEPT ![p] = TokensOf(p)]
    /\ UNCHANGED <<leases, acquired, cache_leases>>

\* Three kinds of step change what is still to be released.
LEMMA GivingCases ==
    ASSUME IInv, [Next]_vars
    PROVE  \/ UNCHANGED giving
           \/ \E p \in Procs : GiveBack(p) \/ Pop(p) \/ GivesUp(p)
<1> USE DEF gateVars, cacheVars, loopVars, sweepVars
<1>1. TypeOK /\ StartsAgree
  BY DEF IInv
<1>2. ASSUME NEW p \in Procs, Raise(p), pc[p] \in {"load", "read", "lease"},
             UNCHANGED <<leases, acquired, cache_leases>>
      PROVE  UNCHANGED giving \/ GivesUp(p)
  <2>1. p \notin starting => p \in Callers
    BY <1>1, <1>2 DEF StartsAgree, Procs
  <2>2. QED
    BY <1>1, <1>2, <2>1, Raises DEF GivesUp, PcTo
<1>3. ASSUME NEW p \in Procs, NEW b \in Blocks, NoRoom(p, b) \/ NotLeased(p, b)
      PROVE  UNCHANGED giving \/ GivesUp(p)
  BY <1>2, <1>3 DEF NoRoom, NotLeased, At
<1>4. ASSUME NEW p \in Procs, LoadFails(p)
      PROVE  UNCHANGED giving \/ GivesUp(p)
  BY <1>2, <1>4 DEF LoadFails
<1>5. ASSUME NEW p \in Procs,
             \/ Moves(p) \/ Skip(p) \/ Hit(p) \/ LeaseNew(p) \/ Clear(p)
             \/ \E b \in Blocks : Reserve(p, b) \/ Commit(p, b)
      PROVE  UNCHANGED giving
  BY <1>5 DEF Moves, Skip, Hit, LeaseNew, Clear, Reserve, Commit
<1>6. ASSUME NEW c \in Callers, Register(c) \/ TimeOut(c)
      PROVE  UNCHANGED giving
  BY <1>6 DEF Register, TimeOut
<1>7. CASE UNCHANGED vars
  BY <1>7 DEF vars
<1>8. QED
  BY <1>3, <1>4, <1>5, <1>6, <1>7, Cases

\* One cache lease leaves the list it is on.
LEMMA GivesBack ==
    ASSUME TypeOK, NEW p \in Procs, GiveBack(p)
    PROVE  LET t == Head(giving[p]) IN
           /\ Unlease(t) /\ t \in ToSet(giving[p])
           /\ \A q \in Procs \ {p} : giving'[q] = giving[q]
           /\ ToSet(giving'[p]) \subseteq ToSet(giving[p])
           /\ ToSet(giving[p]) \subseteq ToSet(giving'[p]) \cup {t}
           /\ UNCHANGED <<leases, pc, acquired>>
<1> DEFINE s == giving[p]
<1>1. /\ s \in Seq(Callers \X Nat) /\ s # <<>>
      /\ giving' = [giving EXCEPT ![p] = Tail(s)] /\ Unlease(Head(s))
      /\ UNCHANGED <<leases, pc, acquired>>
  BY DEF GiveBack, TypeOK, gateVars, loopVars
<1>2. giving'[p] = Tail(s) /\ \A q \in Procs \ {p} : giving'[q] = giving[q]
  BY <1>1 DEF TypeOK
<1> HIDE DEF s
<1>3. /\ Head(s) = s[1] /\ Len(s) \in Nat \ {0} /\ DOMAIN s = 1 .. Len(s)
      /\ DOMAIN Tail(s) = 1 .. Len(s) - 1
      /\ \A i \in 1 .. Len(s) - 1 : Tail(s)[i] = s[i + 1]
  BY <1>1, HeadTailProperties, LenProperties, EmptySeq
<1>4. \A i \in DOMAIN Tail(s) : i + 1 \in DOMAIN s /\ Tail(s)[i] = s[i + 1]
  BY <1>3
<1>5. ASSUME NEW i \in DOMAIN s, i # 1
      PROVE  i - 1 \in DOMAIN Tail(s) /\ Tail(s)[i - 1] = s[i]
  <2>1. i - 1 \in 1 .. Len(s) - 1 /\ (i - 1) + 1 = i
    BY <1>3, <1>5
  <2>2. QED
    BY <1>3, <2>1
<1>6. 1 \in DOMAIN s
  BY <1>3
<1>7. ToSet(Tail(s)) \subseteq ToSet(s) /\ Head(s) \in ToSet(s)
  BY <1>3, <1>4, <1>6 DEF ToSet
<1>8. ToSet(s) \subseteq ToSet(Tail(s)) \cup {Head(s)}
  <2>1. ASSUME NEW i \in DOMAIN s
        PROVE  s[i] \in ToSet(Tail(s)) \cup {Head(s)}
    BY <1>3, <1>5 DEF ToSet
  <2>2. QED
    BY <2>1 DEF ToSet
<1>9. QED
  BY <1>1, <1>2, <1>7, <1>8 DEF s

\* What is to be released has been taken off the list of its holder first.
LEMMA GivenUpStep == IInv /\ [Next]_vars => GivenUp'
<1> SUFFICES ASSUME IInv, [Next]_vars
             PROVE  GivenUp'
  OBVIOUS
<1>1. TypeOK /\ Registered /\ GivenUp
  BY DEF IInv
<1>2. \A q \in Procs : pc[q] \in {"unwind", "holding", "releasing", "done"} =>
                         pc'[q] \in {"unwind", "holding", "releasing", "done"}
  BY Went
<1>3. \A p \in Procs : \A t \in ToSet(giving[p]) : t[1] \in Procs
  <2>1. ASSUME NEW p \in Procs, NEW t \in ToSet(giving[p])
        PROVE  t[1] \in Procs
    <3>1. giving[p] \in Seq(Callers \X Nat)
      BY <1>1 DEF TypeOK
    <3>2. t \in Callers \X Nat
      BY <2>1, <3>1, ElementOfSeq, LenProperties DEF ToSet
    <3>3. QED
      BY <3>2, Constant
  <2>2. QED
    BY <2>1
<1>4. ASSUME \A p \in Procs : ToSet(giving'[p]) \subseteq ToSet(giving[p]),
             UNCHANGED leases
      PROVE  GivenUp'
  <2>1. ToSet(leases') = ToSet(leases)
    BY <1>4
  <2>2. ASSUME NEW p \in Procs, NEW t \in ToSet(giving'[p])
        PROVE  t[1] \notin ToSet(leases')
               /\ pc'[t[1]] \in {"unwind", "holding", "releasing", "done"}
    <3>1. t \in ToSet(giving[p])
      BY <1>4
    <3>2. QED
      BY <1>1, <1>2, <1>3, <2>1, <3>1 DEF GivenUp
  <2>3. QED
    BY <2>2 DEF GivenUp, ToSet
<1>5. ASSUME NEW p \in Procs, NEW c \in Callers, GivesUp(p) \/ Pop(p),
             giving' = [giving EXCEPT ![p] = TokensOf(c)],
             c \notin ToSet(leases'), ToSet(leases') \subseteq ToSet(leases),
             pc'[c] \in {"unwind", "holding", "releasing", "done"}
      PROVE  GivenUp'
  <2>1. \A t \in ToSet(TokensOf(c)) : t[1] = c
    BY <1>1, Tokens
  <2>2. giving'[p] = TokensOf(c) /\ \A q \in Procs \ {p} : giving'[q] = giving[q]
    BY <1>1, <1>5 DEF TypeOK
  <2>3. ASSUME NEW q \in Procs, NEW t \in ToSet(giving'[q])
        PROVE  t[1] \notin ToSet(leases')
               /\ pc'[t[1]] \in {"unwind", "holding", "releasing", "done"}
    <3>1. CASE q = p
      BY <1>5, <2>1, <2>2, <2>3, <3>1
    <3>2. CASE q # p
      BY <1>1, <1>2, <1>3, <1>5, <2>2, <2>3, <3>2 DEF GivenUp
    <3>3. QED
      BY <3>1, <3>2
  <2>4. QED
    BY <2>3 DEF GivenUp, ToSet
<1>6. ASSUME NEW p \in Procs, GivesUp(p)
      PROVE  GivenUp'
  <2>1. /\ p \in Callers /\ giving' = [giving EXCEPT ![p] = TokensOf(p)]
        /\ leases' = leases /\ pc'[p] = "unwind"
    BY <1>1, <1>6 DEF GivesUp, TypeOK
  <2>2. p \notin ToSet(leases)
    BY <1>1, <1>6 DEF GivesUp, Registered, ToSet
  <2>3. QED
    BY <1>5, <1>6, <2>1, <2>2
<1>7. ASSUME NEW p \in Procs, Pop(p)
      PROVE  GivenUp'
  <2> DEFINE l == Head(sweep[p])
  <2>1. /\ ToSet(leases') = ToSet(leases) \ {l} /\ pc' = pc
        /\ giving' = [giving EXCEPT ![p] =
                        IF l \in ToSet(leases) THEN TokensOf(l) ELSE <<>>]
        /\ l \in ToSet(leases) =>
             l \in Callers /\ pc[l] \in {"holding", "releasing", "done"}
        /\ giving[p] = <<>>
    BY <1>7, Pops
  <2> HIDE DEF l
  <2>2. CASE l \in ToSet(leases)
    BY <1>5, <1>7, <2>1, <2>2
  <2>3. CASE l \notin ToSet(leases)
    <3>1. giving' = giving
      BY <1>1, <2>1, <2>3 DEF TypeOK
    <3>2. ASSUME NEW q \in Procs, NEW t \in ToSet(giving[q])
          PROVE  t[1] \notin ToSet(leases')
                 /\ pc'[t[1]] \in {"unwind", "holding", "releasing", "done"}
      BY <1>1, <2>1, <3>2 DEF GivenUp
    <3>3. QED
      BY <3>1, <3>2 DEF GivenUp, ToSet
  <2>4. QED
    BY <2>2, <2>3
<1>8. ASSUME NEW p \in Procs, GiveBack(p)
      PROVE  GivenUp'
  <2>1. /\ \A q \in Procs \ {p} : giving'[q] = giving[q]
        /\ ToSet(giving'[p]) \subseteq ToSet(giving[p]) /\ leases' = leases
    BY <1>1, <1>8, GivesBack
  <2>2. QED
    BY <1>4, <2>1
<1>9. ASSUME NEW c \in Callers, Register(c), UNCHANGED giving
      PROVE  GivenUp'
  <2>1. /\ ToSet(leases') = ToSet(leases) \cup {c} /\ pc[c] = "grant"
    BY <1>9, Registers
  <2>2. ASSUME NEW p \in Procs, NEW t \in ToSet(giving[p])
        PROVE  t[1] \notin ToSet(leases')
               /\ pc'[t[1]] \in {"unwind", "holding", "releasing", "done"}
    BY <1>1, <1>2, <1>3, <2>1, <2>2 DEF GivenUp
  <2>3. QED
    BY <1>9, <2>2 DEF GivenUp, ToSet
<1>10. CASE UNCHANGED giving
  BY <1>4, <1>7, <1>9, <1>10, TableCases
<1>11. QED
  BY <1>6, <1>7, <1>8, <1>10, GivingCases
-----------------------------------------------------------------------------
(* The leases of the cache                                                 *)

\* Every step that changes the entries or the leases of the cache.
LEMMA CacheCases ==
    ASSUME IInv, [Next]_vars
    PROVE  \/ UNCHANGED <<entries, cache_leases, acquired>>
           \/ \E V \in SUBSET Candidates : EvictAll(V) /\ UNCHANGED <<cache_leases, acquired>>
           \/ \E p \in Procs : GiveBack(p) \/ Clear(p) \/ \E b \in Blocks : Commit(p, b)
           \/ \E p \in Callers :
                /\ Hit(p) \/ LeaseNew(p)
                /\ todo[p] # <<>> /\ Head(todo[p]) \in Resident /\ Lease(p)
<1> USE DEF gateVars, cacheVars, loopVars, sweepVars
<1>1. StartsAgree
  BY DEF IInv
<1>2. ASSUME NEW p \in Procs, Hit(p) \/ LeaseNew(p)
      PROVE  /\ p \in Callers /\ todo[p] # <<>> /\ Head(todo[p]) \in Resident /\ Lease(p)
  <2>1. p # Main
    BY <1>1, <1>2 DEF Hit, LeaseNew, At, StartsAgree
  <2>2. QED
    BY <1>2, <2>1 DEF Hit, LeaseNew, At, Procs
<1>3. ASSUME NEW p \in Procs, NEW b \in Blocks, Reserve(p, b) \/ NoRoom(p, b)
      PROVE  \E V \in SUBSET Candidates : EvictAll(V) /\ UNCHANGED <<cache_leases, acquired>>
  <2>1. Exhausted(b) \in SUBSET Candidates /\ Victims(b) \in SUBSET (SUBSET Candidates)
    BY DEF Exhausted, Victims
  <2>2. QED
    BY <1>3, <2>1 DEF Reserve, NoRoom
<1>4. ASSUME NEW p \in Procs,
             \/ Moves(p) \/ Skip(p) \/ LoadFails(p) \/ Pop(p)
             \/ \E b \in Blocks : NotLeased(p, b)
      PROVE  UNCHANGED <<entries, cache_leases, acquired>>
  BY <1>4 DEF Moves, Skip, LoadFails, Pop, NotLeased
<1>5. ASSUME NEW c \in Callers, Register(c) \/ TimeOut(c)
      PROVE  UNCHANGED <<entries, cache_leases, acquired>>
  BY <1>5 DEF Register, TimeOut
<1>6. CASE UNCHANGED vars
  BY <1>6 DEF vars
<1>7. QED
  BY <1>2, <1>3, <1>4, <1>5, <1>6, Cases

\* The next lease is of a block that is resident; the leases of other blocks
\* and of other positions stay what they were.
LEMMA LeasedOn ==
    ASSUME TypeOK, CountsAgree, NEW p \in Callers, todo[p] # <<>>,
           Head(todo[p]) \in Resident, Lease(p)
    PROVE  /\ \A t \in cache_leases' : BlockOf(t)' \in Resident
           /\ \A x \in Resident :
                {t \in cache_leases' : BlockOf(t)' = x} =
                  IF x = Head(todo[p]) THEN LeasesOn(x) \cup {<<p, Len(acquired[p]) + 1>>}
                                       ELSE LeasesOn(x)
<1>1. PICK b, k : b = Head(todo[p]) /\ k = <<p, Len(acquired[p]) + 1>>
  OBVIOUS
<1>2. /\ \A q \in Procs : \A i \in DOMAIN acquired[q] : acquired'[q][i] = acquired[q][i]
      /\ acquired'[p][k[2]] = b /\ cache_leases' = cache_leases \cup {k} /\ k[1] = p
  BY <1>1, Leases
<1>3. BlockOf(k)' = b
  BY <1>2 DEF BlockOf
<1>4. ASSUME NEW t \in cache_leases
      PROVE  BlockOf(t)' = BlockOf(t) /\ BlockOf(t) \in Resident
  BY <1>2, Constant DEF TypeOK, CountsAgree, LeasesExact, BlockOf
<1>5. \A t \in cache_leases' : BlockOf(t)' \in Resident
  BY <1>1, <1>2, <1>3, <1>4
<1>6. ASSUME NEW x \in Resident
      PROVE  {t \in cache_leases' : BlockOf(t)' = x} =
                IF x = b THEN LeasesOn(x) \cup {k} ELSE LeasesOn(x)
  <2>1. ASSUME NEW t
        PROVE  (t \in cache_leases' /\ BlockOf(t)' = x) <=>
                 t \in (IF x = b THEN LeasesOn(x) \cup {k} ELSE LeasesOn(x))
    BY <1>2, <1>3, <1>4 DEF LeasesOn
  <2>2. QED
    BY <2>1
<1>7. QED
  BY <1>1, <1>5, <1>6

\* The lease counts of the cache stay exact.
LEMMA CountsStep == IInv /\ [Next]_vars => CountsAgree'
<1> SUFFICES ASSUME IInv, [Next]_vars
             PROVE  CountsAgree'
  OBVIOUS
<1>1. TypeOK /\ CountsAgree /\ RoomsAgree
  BY DEF IInv
<1>2. /\ IsFiniteSet(cache_leases) /\ \A t \in cache_leases : BlockOf(t) \in Resident
      /\ \A b \in Resident : /\ entries[b].leases = Cardinality(LeasesOn(b))
                             /\ IsFiniteSet(LeasesOn(b))
  BY <1>1, FS_Subset DEF CountsAgree, LeasesExact, LeasesOn
<1>3. ASSUME UNCHANGED <<cache_leases, acquired>>
      PROVE  /\ \A t : BlockOf(t)' = BlockOf(t)
             /\ \A x : {t \in cache_leases' : BlockOf(t)' = x} = LeasesOn(x)
  BY <1>3 DEF BlockOf, LeasesOn
<1>4. CASE UNCHANGED <<entries, cache_leases, acquired>>
  BY <1>1, <1>4 DEF CountsAgree, LeasesExact, Resident, BlockOf
<1>5. ASSUME NEW V \in SUBSET Candidates, EvictAll(V),
             UNCHANGED <<cache_leases, acquired>>
      PROVE  CountsAgree'
  <2>1. Resident' = Resident \ V /\ \A b \in Resident \ V : entries'[b] = entries[b]
    BY <1>5, Evicts
  <2>2. ASSUME NEW v \in V
        PROVE  LeasesOn(v) = {}
    <3>1. v \in Resident /\ entries[v].leases = 0
      BY DEF Candidates
    <3>2. QED
      BY <1>2, <3>1, FS_EmptySet
  <2>3. \A t \in cache_leases : BlockOf(t) \in Resident \ V
    BY <1>2, <2>2 DEF LeasesOn
  <2>4. /\ \A t : BlockOf(t)' = BlockOf(t)
        /\ \A x : {t \in cache_leases' : BlockOf(t)' = x} = LeasesOn(x)
    BY <1>3, <1>5
  <2>5. QED
    BY <1>2, <1>5, <2>1, <2>3, <2>4 DEF CountsAgree, LeasesExact
<1>6. ASSUME NEW p \in Procs, NEW b \in Blocks, Commit(p, b)
      PROVE  CountsAgree'
  <2>1. /\ b \notin Resident /\ UNCHANGED <<cache_leases, acquired>>
        /\ entries' = [x \in Resident \cup {b} |->
                         IF x = b THEN [pinned |-> p \in starting, leases |-> 0]
                                  ELSE entries[x]]
    BY <1>1, <1>6 DEF Commit, At, RoomsAgree
  <2>2. /\ Resident' = Resident \cup {b} /\ entries'[b].leases = 0
        /\ \A x \in Resident : entries'[x] = entries[x]
    BY <2>1 DEF Resident
  <2>3. LeasesOn(b) = {}
    BY <1>2, <2>1 DEF LeasesOn
  <2>4. /\ \A t : BlockOf(t)' = BlockOf(t)
        /\ \A x : {t \in cache_leases' : BlockOf(t)' = x} = LeasesOn(x)
    BY <1>3, <2>1
  <2>5. Cardinality(LeasesOn(b)) = 0
    BY <2>3, FS_EmptySet
  <2>6. QED
    BY <1>2, <2>1, <2>2, <2>4, <2>5 DEF CountsAgree, LeasesExact
<1>7. ASSUME NEW p \in Callers, todo[p] # <<>>, Head(todo[p]) \in Resident, Lease(p)
      PROVE  CountsAgree'
  <2>0. PICK b, k : b = Head(todo[p]) /\ k = <<p, Len(acquired[p]) + 1>>
    OBVIOUS
  <2>1. /\ Resident' = Resident /\ cache_leases' = cache_leases \cup {k}
        /\ k \notin cache_leases
        /\ \A x \in Resident :
             entries'[x].leases = entries[x].leases + (IF x = b THEN 1 ELSE 0)
    BY <1>1, <1>7, <2>0, Leases
  <2>2. /\ \A t \in cache_leases' : BlockOf(t)' \in Resident
        /\ \A x \in Resident :
             {t \in cache_leases' : BlockOf(t)' = x} =
               IF x = b THEN LeasesOn(x) \cup {k} ELSE LeasesOn(x)
    BY <1>1, <1>7, <2>0, LeasedOn
  <2>3. ASSUME NEW x \in Resident
        PROVE  entries'[x].leases = Cardinality({t \in cache_leases' : BlockOf(t)' = x})
    <3>1. entries[x].leases = Cardinality(LeasesOn(x)) /\ entries[x].leases \in Nat
      BY <1>1, <1>2 DEF TypeOK
    <3>2. Cardinality(LeasesOn(x) \cup {k}) = Cardinality(LeasesOn(x)) + 1
      <4>1. k \notin LeasesOn(x) /\ IsFiniteSet(LeasesOn(x))
        BY <1>2, <2>1 DEF LeasesOn
      <4>2. QED
        BY <4>1, FS_AddElement
    <3>3. CASE x = b
      <4>1. {t \in cache_leases' : BlockOf(t)' = x} = LeasesOn(x) \cup {k}
        BY <2>2, <3>3
      <4>2. entries'[x].leases = Cardinality(LeasesOn(x)) + 1
        BY <2>1, <3>1, <3>3
      <4>3. QED
        BY <3>2, <4>1, <4>2, Zenon
    <3>4. CASE x # b
      <4>1. {t \in cache_leases' : BlockOf(t)' = x} = LeasesOn(x)
        BY <2>2, <3>4
      <4>2. entries'[x].leases = Cardinality(LeasesOn(x))
        BY <2>1, <3>1, <3>4
      <4>3. QED
        BY <4>1, <4>2, Zenon
    <3>5. QED
      BY <3>3, <3>4
  <2>4. IsFiniteSet(cache_leases')
    BY <1>2, <2>1, FS_AddElement
  <2>5. QED
    BY <2>1, <2>2, <2>3, <2>4 DEF CountsAgree, LeasesExact
<1>8. ASSUME NEW p \in Procs, GiveBack(p)
      PROVE  CountsAgree'
  <2>1. PICK t : Unlease(t) /\ acquired' = acquired
    BY <1>1, <1>8, GivesBack
  <2>2. /\ Resident' = Resident /\ cache_leases' = cache_leases \ {t}
        /\ \A x \in Resident :
             entries'[x].leases = entries[x].leases - (IF t \in LeasesOn(x) THEN 1 ELSE 0)
    BY <1>1, <2>1, Unleases
  <2>3. /\ \A u : BlockOf(u)' = BlockOf(u)
        /\ \A x : {u \in cache_leases' : BlockOf(u)' = x} = LeasesOn(x) \ {t}
    BY <2>1, <2>2 DEF BlockOf, LeasesOn
  <2>4. ASSUME NEW x \in Resident
        PROVE  entries'[x].leases = Cardinality({u \in cache_leases' : BlockOf(u)' = x})
    <3>1. entries[x].leases = Cardinality(LeasesOn(x)) /\ entries[x].leases \in Nat
      BY <1>1, <1>2 DEF TypeOK
    <3>2. Cardinality(LeasesOn(x) \ {t}) =
            IF t \in LeasesOn(x) THEN Cardinality(LeasesOn(x)) - 1
                                 ELSE Cardinality(LeasesOn(x))
      BY <1>2, FS_RemoveElement
    <3>3. entries'[x].leases = Cardinality(LeasesOn(x) \ {t})
      BY <2>2, <3>1, <3>2
    <3>4. QED
      BY <2>3, <3>3, Zenon
  <2>5. IsFiniteSet(cache_leases')
    BY <1>2, <2>2, FS_RemoveElement
  <2>6. QED
    BY <1>2, <2>2, <2>3, <2>4, <2>5 DEF CountsAgree, LeasesExact
<1>9. ASSUME NEW p \in Procs, Clear(p)
      PROVE  CountsAgree'
  <2>1. cache_leases' = {} /\ Resident' = {}
    BY <1>9 DEF Clear, CacheClose, Resident
  <2>2. QED
    BY <2>1, FS_EmptySet DEF CountsAgree, LeasesExact
<1>10. QED
  BY <1>4, <1>5, <1>6, <1>7, <1>8, <1>9, CacheCases

\* What is to be released is released before the thread goes on.
LEMMA SweepsStep == IInv /\ [Next]_vars => SweepsAgree'
<1> SUFFICES ASSUME IInv, [Next]_vars
             PROVE  SweepsAgree'
  OBVIOUS
<1> USE DEF gateVars, cacheVars, loopVars, sweepVars
<1>1. /\ TypeOK /\ SweepsAgree /\ DOMAIN sweep = Procs /\ DOMAIN giving = Procs
      /\ DOMAIN pc = Procs
  BY DEF IInv, TypeOK, SweepsAgree
<1>2. ASSUME UNCHANGED <<pc, sweep, giving>>
      PROVE  SweepsAgree'
  BY <1>1, <1>2 DEF SweepsAgree
<1>3. ASSUME NEW p \in Procs, NEW to, PcTo(p, to),
             sweep[p] = <<>> /\ giving[p] = <<>>, UNCHANGED <<sweep, giving>>
      PROVE  SweepsAgree'
  <2>1. \A q \in Procs : pc'[q] = IF q = p THEN to ELSE pc[q]
    BY <1>1, <1>3, PcAfter
  <2>2. QED
    BY <1>1, <1>3, <2>1 DEF SweepsAgree
<1>4. ASSUME NEW p \in Procs, NEW to, PcTo(p, to),
             to \in {"expiring", "closing", "releasing"}, NEW s,
             sweep' = [sweep EXCEPT ![p] = s] \/ sweep' = sweep, UNCHANGED giving
      PROVE  SweepsAgree'
  <2>1. \A q \in Procs : pc'[q] = IF q = p THEN to ELSE pc[q]
    BY <1>1, <1>4, PcAfter
  <2>2. DOMAIN sweep' = Procs /\ \A q \in Procs \ {p} : sweep'[q] = sweep[q]
    BY <1>1, <1>4
  <2>3. QED
    BY <1>1, <1>4, <2>1, <2>2 DEF SweepsAgree
<1>5. ASSUME NEW p \in Procs, Raise(p), pc[p] \in {"load", "read", "lease"},
             UNCHANGED sweep
      PROVE  SweepsAgree'
  <2>1. sweep[p] = <<>> /\ giving[p] = <<>>
    BY <1>1, <1>5 DEF SweepsAgree
  <2>2. CASE giving' = [giving EXCEPT ![p] = TokensOf(p)] /\ PcTo(p, "unwind")
    <3>1. \A q \in Procs : pc'[q] = IF q = p THEN "unwind" ELSE pc[q]
      BY <1>1, <2>2, PcAfter
    <3>2. \A q \in Procs \ {p} : giving'[q] = giving[q]
      BY <1>1, <2>2
    <3>3. QED
      BY <1>1, <1>5, <2>1, <3>1, <3>2 DEF SweepsAgree
  <2>3. QED
    BY <1>1, <1>3, <1>5, <2>1, <2>2, Raises
<1>6. ASSUME NEW p \in Procs, Pop(p) \/ GiveBack(p)
      PROVE  SweepsAgree'
  <2>1. /\ pc' = pc /\ DOMAIN sweep' = Procs
        /\ \A q \in Procs \ {p} : sweep'[q] = sweep[q] /\ giving'[q] = giving[q]
        /\ sweep[p] # <<>> \/ (giving[p] # <<>> /\ sweep' = sweep)
    BY <1>1, <1>6 DEF Pop, GiveBack
  <2>2. QED
    BY <1>1, <2>1 DEF SweepsAgree
<1>7. ASSUME NEW p \in Procs, Swept(p), NEW to, PcTo(p, to), UNCHANGED <<sweep, giving>>
      PROVE  SweepsAgree'
  BY <1>3, <1>7 DEF Swept
<1>8. ASSUME NEW p \in Procs, NEW to, PcTo(p, to),
             pc[p] \notin {"expiring", "closing", "releasing", "unwind"},
             UNCHANGED <<sweep, giving>>
      PROVE  SweepsAgree'
  BY <1>1, <1>3, <1>8 DEF SweepsAgree
<1>9. ASSUME NEW p \in Procs, CheckStart(p) \/ LockAdmission(p) \/ LoopDone(p)
                              \/ MarkStarted(p) \/ Shut(p) \/ LeaseNew(p)
      PROVE  SweepsAgree'
  BY <1>8, <1>9 DEF CheckStart, LockAdmission, LoopDone, MarkStarted, Shut, LeaseNew, At
<1>10. ASSUME NEW p \in Procs, CloseCheck(p)
       PROVE  SweepsAgree'
  BY <1>4, <1>8, <1>10 DEF CloseCheck
<1>11. ASSUME NEW p \in Procs, Skip(p) \/ Hit(p)
       PROVE  SweepsAgree'
  BY <1>2, <1>11 DEF Skip, Hit
<1>12. ASSUME NEW p \in Procs, LoadFails(p)
       PROVE  SweepsAgree'
  BY <1>5, <1>12 DEF LoadFails
<1>13. ASSUME NEW p \in Procs, Clear(p)
       PROVE  SweepsAgree'
  BY <1>7, <1>13 DEF Clear
<1>14. ASSUME NEW p \in Procs, NEW b \in Blocks,
              Reserve(p, b) \/ NoRoom(p, b) \/ Commit(p, b) \/ NotLeased(p, b)
       PROVE  SweepsAgree'
  BY <1>5, <1>8, <1>14 DEF Reserve, NoRoom, Commit, NotLeased, At
<1>15. ASSUME NEW c \in Callers, Call(c) \/ Register(c)
       PROVE  SweepsAgree'
  BY <1>8, <1>15, Constant DEF Call, Register
<1>16. ASSUME NEW c \in Callers, Expire(c) \/ Release(c)
       PROVE  SweepsAgree'
  BY <1>4, <1>16, Constant DEF Expire, Release
<1>17. ASSUME NEW c \in Callers,
              Unwound(c) \/ Released(c) \/ \E r \in Requests : Ask(c, r)
       PROVE  SweepsAgree'
  BY <1>7, <1>17, Constant DEF Unwound, Released, Ask
<1>18. ASSUME NEW c \in Callers, TimeOut(c)
       PROVE  SweepsAgree'
  BY <1>2, <1>18 DEF TimeOut
<1>19. CASE Enter \/ Exit
  BY <1>8, <1>19, Constant DEF Enter, Exit
<1>20. CASE UNCHANGED vars
  BY <1>2, <1>20 DEF vars
<1>21. QED
  BY <1>6, <1>9, <1>10, <1>11, <1>12, <1>13, <1>14, <1>15, <1>16, <1>17, <1>18, <1>19,
     <1>20, Steps

\* An acquire ends in a registration or gives up what it leased; a thread that
\* starts the gate leaves without leases.
LEMMA Leaves ==
    ASSUME IInv, [Next]_vars, NEW q \in Procs, Acquires(q)
    PROVE  \/ pc'[q] \in {"load", "read", "lease", "grant"}
           \/ q \in starting \/ GivesUp(q) \/ (q \in Callers /\ Register(q))
<1> USE DEF gateVars, cacheVars, loopVars, sweepVars
<1>1. TypeOK /\ StartsAgree /\ pc[q] \in {"load", "read", "lease", "grant"}
  BY DEF IInv, Acquires
<1>2. CASE UNCHANGED pc
  BY <1>1, <1>2
<1>3. ASSUME NEW p \in Procs, NEW to, PcTo(p, to),
             p # q \/ to \in {"load", "read", "lease", "grant"}
      PROVE  pc'[q] \in {"load", "read", "lease", "grant"}
  BY <1>1, <1>3, PcAfter
<1>4. ASSUME NEW p \in Procs, Moves(p), p = q
      PROVE  pc'[q] \in {"load", "read", "lease", "grant"} \/ q \in starting
  BY <1>1, <1>3, <1>4, PcAfter DEF Moves
<1>5. ASSUME NEW p \in Procs, Raise(p), p = q, UNCHANGED <<leases, acquired, cache_leases>>,
             pc[p] \in {"load", "read", "lease"}
      PROVE  q \in starting \/ GivesUp(q)
  <2>1. q \notin starting => q \in Callers
    BY <1>1, <1>5 DEF StartsAgree, Procs
  <2>2. QED
    BY <1>1, <1>5, <2>1, Raises DEF GivesUp, PcTo
<1>6. PICK p \in Procs : Moves(p) \/ (Works(p) /\ UNCHANGED starting)
  BY WorkCases
<1>7. CASE p # q
  <2>1. UNCHANGED pc \/ \E to : PcTo(p, to)
    BY <1>6 DEF Moves, Works
  <2>2. QED
    BY <1>2, <1>3, <1>7, <2>1
<1>8. CASE p = q /\ ~Moves(q)
  <2>1. ASSUME NEW r \in Procs, \/ LoadFails(r)
                                \/ \E b \in Blocks : NoRoom(r, b) \/ NotLeased(r, b)
        PROVE  r = q => q \in starting \/ GivesUp(q)
    BY <1>5, <2>1 DEF LoadFails, NoRoom, NotLeased, At
  <2>2. ASSUME NEW r \in Procs, \/ LeaseNew(r)
                                \/ \E b \in Blocks : Reserve(r, b) \/ Commit(r, b)
        PROVE  pc'[q] \in {"load", "read", "lease", "grant"}
    <3>1. \E to \in {"load", "read", "lease"} : PcTo(r, to)
      BY <2>2 DEF LeaseNew, Reserve, Commit
    <3>2. QED
      BY <1>3, <3>1
  <2>3. ASSUME NEW r \in Procs, Skip(r) \/ Hit(r) \/ Pop(r) \/ GiveBack(r)
        PROVE  UNCHANGED pc
    BY <2>3 DEF Skip, Hit, Pop, GiveBack
  <2>4. ASSUME NEW r \in Procs, r # q, \E to : PcTo(r, to)
        PROVE  pc'[q] \in {"load", "read", "lease", "grant"}
    BY <1>3, <2>4
  <2>5. ASSUME NEW r \in Procs, \/ LoadFails(r) \/ Clear(r) \/ Moves(r)
                                \/ \E b \in Blocks : NoRoom(r, b) \/ NotLeased(r, b)
        PROVE  \E to : PcTo(r, to)
    BY <2>5 DEF LoadFails, Clear, NoRoom, NotLeased, Raise, Moves
  <2>6. ~Clear(q)
    BY <1>1 DEF Clear
  <2>7. ASSUME NEW c \in Callers, Register(c)
        PROVE  c = q \/ pc'[q] \in {"load", "read", "lease", "grant"}
    BY <1>3, <2>7, Constant DEF Register
  <2>8. ASSUME NEW c \in Callers, TimeOut(c)
        PROVE  UNCHANGED pc
    BY <2>8 DEF TimeOut
  <2>9. UNCHANGED vars => UNCHANGED pc
    BY DEF vars
  <2>10. QED
    BY <1>2, <1>8, <2>1, <2>2, <2>3, <2>4, <2>5, <2>6, <2>7, <2>8, <2>9, Cases
<1>9. QED
  BY <1>4, <1>6, <1>7, <1>8

\* A cache lease stays the one its caller was given.
LEMMA TokenOf ==
    ASSUME TypeOK, NEW t \in cache_leases
    PROVE  /\ t[1] \in Callers /\ t[1] \in Procs /\ t = <<t[1], t[2]>>
           /\ t[2] \in DOMAIN acquired[t[1]] /\ t \in ToSet(TokensOf(t[1]))
           /\ acquired[t[1]] # <<>>
<1>1. t \in Callers \X Nat /\ t[2] \in DOMAIN acquired[t[1]]
  BY DEF TypeOK
<1>2. t[1] \in Callers /\ t[1] \in Procs /\ t = <<t[1], t[2]>>
  BY <1>1, Constant
<1>3. t \in ToSet(TokensOf(t[1]))
  BY <1>1, <1>2, Tokens
<1>4. acquired[t[1]] # <<>>
  BY <1>1
<1>5. QED
  BY <1>1, <1>2, <1>3, <1>4

\* A cache lease passes from list to list and never falls between two.
LEMMA NoLeakStep == IInv /\ [Next]_vars => NoLeakedLease'
<1> SUFFICES ASSUME IInv, [Next]_vars, NEW t \in cache_leases'
             PROVE  \/ t[1] \in ToSet(leases')
                    \/ pc'[t[1]] \in {"load", "read", "lease", "grant"}
                    \/ \E p \in Procs : t \in ToSet(giving'[p])
  BY DEF NoLeakedLease, ToSet
<1>1. TypeOK /\ StartsAgree /\ SweepsAgree /\ NoLeakedLease
  BY DEF IInv
<1>2. CASE t \in cache_leases
  <2>1. /\ t[1] \in Callers /\ t[1] \in Procs /\ t \in ToSet(TokensOf(t[1]))
        /\ t[1] \notin starting
    BY <1>1, <1>2, TokenOf DEF StartsAgree
  <2>2. CASE t[1] \in ToSet(leases)
    <3>1. ASSUME NEW p \in Procs, Pop(p)
          PROVE  t[1] \in ToSet(leases') \/ t \in ToSet(giving'[p])
      <4>1. PICK l : /\ ToSet(leases') = ToSet(leases) \ {l}
                     /\ giving' = [giving EXCEPT ![p] =
                                     IF l \in ToSet(leases) THEN TokensOf(l) ELSE <<>>]
        BY <3>1, Pops
      <4>2. l = t[1] => giving'[p] = TokensOf(l)
        BY <1>1, <2>2, <4>1 DEF TypeOK
      <4>3. QED
        BY <2>1, <2>2, <4>1, <4>2
    <3>2. ASSUME NEW c \in Callers, Register(c)
          PROVE  t[1] \in ToSet(leases')
      BY <2>2, <3>2, Registers
    <3>3. UNCHANGED leases => t[1] \in ToSet(leases')
      BY <2>2
    <3>4. QED
      BY <3>1, <3>2, <3>3, TableCases
  <2>3. CASE Acquires(t[1])
    <3>1. \/ pc'[t[1]] \in {"load", "read", "lease", "grant"}
          \/ GivesUp(t[1]) \/ Register(t[1])
      BY <2>1, <2>3, Leaves
    <3>2. CASE GivesUp(t[1])
      <4>1. giving'[t[1]] = TokensOf(t[1])
        BY <1>1, <2>1, <3>2 DEF GivesUp, TypeOK
      <4>2. QED
        BY <2>1, <4>1
    <3>3. CASE Register(t[1])
      <4>1. ToSet(leases') = ToSet(leases) \cup {t[1]}
        BY <2>1, <3>3, Registers
      <4>2. QED
        BY <4>1
    <3>4. QED
      BY <3>1, <3>2, <3>3
  <2>4. ASSUME NEW q \in Procs, t \in ToSet(giving[q])
        PROVE  \E p \in Procs : t \in ToSet(giving'[p])
    <3>1. UNCHANGED giving => t \in ToSet(giving'[q])
      BY <2>4
    <3>2. giving[q] # <<>>
      BY <2>4 DEF ToSet
    <3>3. ASSUME NEW p \in Procs, GiveBack(p)
          PROVE  t \in ToSet(giving'[q])
      <4>1. PICK u : /\ Unlease(u)
                     /\ \A r \in Procs \ {p} : giving'[r] = giving[r]
                     /\ ToSet(giving[p]) \subseteq ToSet(giving'[p]) \cup {u}
        BY <1>1, <3>3, GivesBack
      <4>2. t # u
        BY <4>1 DEF Unlease
      <4>3. QED
        BY <2>4, <4>1, <4>2
    <3>4. ASSUME NEW p \in Procs, Pop(p)
          PROVE  t \in ToSet(giving'[q])
      <4>1. /\ giving[p] = <<>>
            /\ \E s : giving' = [giving EXCEPT ![p] = s]
        BY <3>4, Pops
      <4>2. q # p /\ giving'[q] = giving[q]
        BY <1>1, <3>2, <4>1 DEF TypeOK
      <4>3. QED
        BY <2>4, <4>2
    <3>5. ASSUME NEW p \in Procs, GivesUp(p)
          PROVE  t \in ToSet(giving'[q])
      <4>1. giving[p] = <<>> /\ \E s : giving' = [giving EXCEPT ![p] = s]
        BY <1>1, <3>5 DEF GivesUp, SweepsAgree
      <4>2. q # p /\ giving'[q] = giving[q]
        BY <1>1, <3>2, <4>1 DEF TypeOK
      <4>3. QED
        BY <2>4, <4>2
    <3>6. QED
      BY <3>1, <3>3, <3>4, <3>5, GivingCases
  <2>5. QED
    BY <1>1, <1>2, <2>2, <2>3, <2>4 DEF NoLeakedLease, Acquires
<1>3. CASE t \notin cache_leases
  <2>1. ASSUME NEW p \in Callers, Hit(p) \/ LeaseNew(p), todo[p] # <<>>,
               Head(todo[p]) \in Resident, Lease(p)
        PROVE  pc'[t[1]] \in {"load", "read", "lease", "grant"}
    <3>1. t = <<p, Len(acquired[p]) + 1>>
      BY <1>3, <2>1 DEF Lease
    <3>2. t[1] = p
      BY <3>1
    <3>3. pc'[p] = "load"
      BY <1>1, <2>1, PcAfter, Constant DEF Hit, LeaseNew, At
    <3>4. QED
      BY <3>2, <3>3
  <2>2. ASSUME NEW p \in Procs, GiveBack(p) \/ Clear(p) \/ \E b \in Blocks : Commit(p, b)
        PROVE  t \in cache_leases
    BY <2>2 DEF GiveBack, Unlease, Clear, CacheClose, Commit
  <2>3. QED
    BY <1>3, <2>1, <2>2, CacheCases
<1>4. QED
  BY <1>2, <1>3

\* Nobody but a close takes a cache lease from a caller that counts on it.
LEMMA KeptStep == IInv /\ [Next]_vars => Kept'
<1> SUFFICES ASSUME IInv, [Next]_vars, ~Closing', NEW c \in Callers,
                    c \in ToSet(leases') \/ pc'[c] \in {"load", "read", "lease", "grant"},
                    NEW i \in DOMAIN acquired'[c]
             PROVE  <<c, i>> \in cache_leases'
  BY DEF Kept, Acquires, ToSet
<1>1. TypeOK /\ StartsAgree /\ GivenUp /\ Kept /\ CountsAgree /\ ~Closing
  BY Went DEF IInv
<1>2. c \in ToSet(leases) \/ Acquires(c) \/ acquired[c] = <<>>
  <2>1. pc'[c] \in {"load", "read", "lease", "grant"} =>
          pc[c] = "wait" \/ Acquires(c)
    BY Went, Constant DEF Acquires
  <2>2. pc[c] = "wait" => acquired[c] = <<>>
    BY <1>1, Constant DEF StartsAgree
  <2>3. c \in ToSet(leases') => c \in ToSet(leases) \/ Acquires(c)
    <3>1. ASSUME NEW p \in Procs, Pop(p)
          PROVE  ToSet(leases') \subseteq ToSet(leases)
      BY <3>1, Pops
    <3>2. ASSUME NEW d \in Callers, Register(d)
          PROVE  ToSet(leases') = ToSet(leases) \cup {d} /\ Acquires(d)
      BY <3>2, Registers DEF Acquires
    <3>3. UNCHANGED leases => ToSet(leases') = ToSet(leases)
      OBVIOUS
    <3>4. QED
      BY <3>1, <3>2, <3>3, TableCases
  <2>4. QED
    BY <2>1, <2>2, <2>3
<1>3. \A j \in DOMAIN acquired[c] : <<c, j>> \in cache_leases
  BY <1>1, <1>2 DEF Kept
<1>4. CASE UNCHANGED <<cache_leases, acquired>>
  BY <1>3, <1>4
<1>5. ASSUME NEW p \in Procs, GiveBack(p)
      PROVE  <<c, i>> \in cache_leases'
  <2>1. PICK t : t \in ToSet(giving[p]) /\ Unlease(t) /\ acquired' = acquired
    BY <1>1, <1>5, GivesBack
  <2>2. t[1] # c \/ acquired[c] = <<>>
    BY <1>1, <1>2, <2>1 DEF GivenUp, Acquires
  <2>3. <<c, i>> \in cache_leases /\ acquired[c] # <<>>
    BY <1>3, <2>1
  <2>4. <<c, i>> # t
    BY <2>2, <2>3
  <2>5. QED
    BY <2>1, <2>3, <2>4 DEF Unlease
<1>6. ASSUME NEW p \in Procs, Clear(p)
      PROVE  FALSE
  <2>1. pc'[p] = "shut"
    BY <1>1, <1>6, PcAfter DEF Clear
  <2>2. QED
    BY <2>1 DEF Closing
<1>7. ASSUME NEW p \in Callers, todo[p] # <<>>, Head(todo[p]) \in Resident, Lease(p)
      PROVE  <<c, i>> \in cache_leases'
  <2> DEFINE n == Len(acquired[p]) + 1
  <2>1. /\ cache_leases' = cache_leases \cup {<<p, n>>}
        /\ \A q \in Procs : DOMAIN acquired'[q] =
             IF q = p THEN DOMAIN acquired[q] \cup {n} ELSE DOMAIN acquired[q]
    BY <1>1, <1>7, Leases
  <2> HIDE DEF n
  <2>2. i \in DOMAIN acquired[c] \/ (c = p /\ i = n)
    BY <2>1, Constant
  <2>3. QED
    BY <1>3, <2>1, <2>2
<1>8. QED
  BY <1>4, <1>5, <1>6, <1>7, CacheCases DEF Commit, loopVars
-----------------------------------------------------------------------------
(* The room that is reserved                                               *)

\* A reservation is for the block that its thread is reading.
LEMMA RoomsStep == IInv /\ [Next]_vars => RoomsAgree'
<1> SUFFICES ASSUME IInv, [Next]_vars
             PROVE  RoomsAgree'
  OBVIOUS
<1> USE DEF gateVars, cacheVars, loopVars, sweepVars
<1>1. TypeOK /\ LocksAgree /\ SweepsAgree /\ CountsAgree /\ RoomsAgree /\ StartsAgree
  BY DEF IInv
\* Nobody else reads.
<1>2. \A p, q \in Procs : pc[p] \in {"load", "read", "lease", "unwind"} /\ pc[q] = "read" => p = q
  BY <1>1 DEF LocksAgree
<1>3. \A p \in Procs : pc[p] # "read" => reservation[p] = NoOne
  BY <1>1 DEF RoomsAgree
\* The step of a thread that reads no block, or is done with it.
<1>4. ASSUME NEW p \in Procs, pc'[p] # "read", reservation'[p] = NoOne,
             \/ Resident' \subseteq Resident
             \/ pc[p] = "read",
             NEW s, todo' = todo \/ todo' = [todo EXCEPT ![p] = s],
             \A q \in Procs \ {p} :
               /\ pc'[q] = pc[q]
               /\ reservation'[q] \in {reservation[q], NoOne}
      PROVE  RoomsAgree'
  <2>1. ASSUME NEW q \in Procs \ {p}
        PROVE  /\ pc[q] = "read" => Resident' \subseteq Resident
               /\ pc'[q] = pc[q] /\ todo'[q] = todo[q]
               /\ reservation'[q] \in {reservation[q], NoOne}
    BY <1>1, <1>2, <1>4 DEF TypeOK
  <2>2. ASSUME NEW q \in Procs \ {p}
        PROVE  /\ pc'[q] = "read" => todo'[q] # <<>> /\ Head(todo'[q]) \notin Resident'
               /\ reservation'[q] # NoOne =>
                    pc'[q] = "read" /\ reservation'[q] = Head(todo'[q])
    BY <1>1, <2>1 DEF RoomsAgree
  <2>3. QED
    BY <1>4, <2>2 DEF RoomsAgree
\* Its entries and program counter may stay.
<1>5. ASSUME NEW p \in Procs, pc[p] # "read", UNCHANGED reservation,
             Resident' \subseteq Resident,
             NEW s, todo' = todo \/ todo' = [todo EXCEPT ![p] = s],
             \/ UNCHANGED pc
             \/ \E to : PcTo(p, to) /\ to # "read"
      PROVE  RoomsAgree'
  <2>1. pc'[p] # "read" /\ \A q \in Procs \ {p} : pc'[q] = pc[q]
    BY <1>1, <1>5, PcAfter
  <2>2. reservation'[p] = NoOne
    BY <1>3, <1>5
  <2>3. QED
    BY <1>4, <1>5, <2>1, <2>2
<1>6. ASSUME NEW p \in Procs, Moves(p)
      PROVE  RoomsAgree'
  <2>1. PICK to : PcTo(p, to) /\ to # "read" /\ pc[p] # "read"
    BY <1>6 DEF Moves, AfterStart
  <2>2. Resident' \subseteq Resident /\ UNCHANGED reservation
    BY <1>6 DEF Moves, Resident
  <2>3. \E s : todo' = todo \/ todo' = [todo EXCEPT ![p] = s]
    BY <1>6 DEF Moves
  <2>4. QED
    BY <1>5, <2>1, <2>2, <2>3
<1>7. ASSUME NEW p \in Procs, Skip(p)
      PROVE  RoomsAgree'
  BY <1>5, <1>7 DEF Skip, At, Resident
<1>8. ASSUME NEW p \in Procs, Hit(p) \/ LeaseNew(p)
      PROVE  RoomsAgree'
  <2>1. p # Main
    BY <1>1, <1>8 DEF Hit, LeaseNew, At, StartsAgree
  <2>2. /\ p \in Callers /\ todo[p] # <<>> /\ Head(todo[p]) \in Resident /\ Lease(p)
        /\ pc[p] # "read" /\ (UNCHANGED pc \/ PcTo(p, "load"))
    BY <1>8, <2>1 DEF Hit, LeaseNew, At, Procs
  <2>3. Resident' = Resident
    BY <1>1, <2>2, Leases
  <2>4. /\ \E s : todo' = todo \/ todo' = [todo EXCEPT ![p] = s]
        /\ reservation' = reservation
    BY <2>2, Zenon DEF Lease
  <2>5. QED
    BY <1>5, <2>2, <2>3, <2>4
<1>9. ASSUME NEW p \in Procs, Raise(p), pc[p] \in {"load", "read", "lease"},
             Resident' \subseteq Resident, UNCHANGED todo,
             \/ Cancel(p)
             \/ reservation' = reservation /\ pc[p] # "read"
      PROVE  RoomsAgree'
  <2>1. PICK to \in {"close", "unwind"} : PcTo(p, to)
    BY <1>9 DEF Raise
  <2>2. pc'[p] # "read" /\ \A q \in Procs \ {p} : pc'[q] = pc[q]
    BY <1>1, <2>1, PcAfter
  <2>3. /\ reservation'[p] = NoOne
        /\ \A q \in Procs \ {p} : reservation'[q] = reservation[q]
    BY <1>1, <1>3, <1>9 DEF TypeOK, Cancel
  <2>4. QED
    BY <1>4, <1>9, <2>2, <2>3
<1>10. ASSUME NEW p \in Procs, LoadFails(p)
       PROVE  RoomsAgree'
  BY <1>9, <1>10 DEF LoadFails, Resident
<1>11. ASSUME NEW p \in Procs, Pop(p) \/ GiveBack(p)
       PROVE  RoomsAgree'
  <2>1. UNCHANGED <<pc, todo, reservation>> /\ pc[p] # "read"
    BY <1>1, <1>11 DEF Pop, GiveBack, SweepsAgree
  <2>2. Resident' = Resident
    <3>1. CASE GiveBack(p)
      BY <1>1, <3>1, GivesBack, Unleases
    <3>2. CASE Pop(p)
      BY <3>2 DEF Pop, Resident
    <3>3. QED
      BY <1>11, <3>1, <3>2
  <2>3. QED
    BY <1>5, <2>1, <2>2
<1>12. ASSUME NEW p \in Procs, Clear(p)
       PROVE  RoomsAgree'
  <2>1. PcTo(p, "shut") /\ todo' = todo
    BY <1>12 DEF Clear
  <2>2. pc'[p] # "read" /\ \A q \in Procs \ {p} : pc'[q] = pc[q]
    BY <1>1, <2>1, PcAfter
  <2>3. Resident' = {} /\ \A q \in Procs : reservation'[q] = NoOne
    BY <1>12 DEF Clear, CacheClose, Resident
  <2>4. QED
    BY <1>4, <2>1, <2>2, <2>3
<1>13. ASSUME NEW p \in Procs, NEW b \in Blocks, NoRoom(p, b) \/ NotLeased(p, b)
       PROVE  RoomsAgree'
  <2>1. CASE NoRoom(p, b)
    BY <1>9, <2>1, Evicts DEF NoRoom, At
  <2>2. CASE NotLeased(p, b)
    BY <1>9, <2>2 DEF NotLeased, At, Resident
  <2>3. QED
    BY <1>13, <2>1, <2>2
<1>14. ASSUME NEW p \in Procs, NEW b \in Blocks, Commit(p, b)
       PROVE  RoomsAgree'
  <2>1. PICK to \in {"load", "lease"} : PcTo(p, to)
    BY <1>14 DEF Commit
  <2>2. pc'[p] # "read" /\ \A q \in Procs \ {p} : pc'[q] = pc[q]
    BY <1>1, <2>1, PcAfter
  <2>3. /\ reservation'[p] = NoOne
        /\ \A q \in Procs \ {p} : reservation'[q] = reservation[q]
        /\ pc[p] = "read"
    BY <1>1, <1>14 DEF TypeOK, Commit, Cancel, At
  <2>4. \E s : todo' = todo \/ todo' = [todo EXCEPT ![p] = s]
    BY <1>14, Zenon DEF Commit
  <2>5. QED
    BY <1>4, <2>2, <2>3, <2>4
<1>15. ASSUME NEW p \in Procs, NEW b \in Blocks, Reserve(p, b)
       PROVE  RoomsAgree'
  <2>1. /\ pc[p] = "load" /\ todo[p] # <<>> /\ b = Head(todo[p]) /\ b \notin Resident
        /\ PcTo(p, "read") /\ todo' = todo
        /\ reservation' = [reservation EXCEPT ![p] = b]
        /\ Resident' \subseteq Resident
    BY <1>15, Evicts DEF Reserve, At
  <2>2. pc'[p] = "read" /\ \A q \in Procs \ {p} : pc'[q] = pc[q]
    BY <1>1, <2>1, PcAfter
  <2>3. /\ reservation'[p] = b
        /\ \A q \in Procs \ {p} : reservation'[q] = reservation[q]
    BY <1>1, <2>1 DEF TypeOK
  <2>4. \A q \in Procs \ {p} : pc[q] # "read" /\ reservation[q] = NoOne
    BY <1>2, <1>3, <2>1
  <2>5. QED
    BY <2>1, <2>2, <2>3, <2>4 DEF RoomsAgree
<1>16. ASSUME NEW c \in Callers, Register(c)
       PROVE  RoomsAgree'
  BY <1>5, <1>16, Constant DEF Register, Resident
<1>17. ASSUME UNCHANGED <<pc, todo, entries, reservation>>
       PROVE  RoomsAgree'
  BY <1>1, <1>17 DEF RoomsAgree, Resident
<1>18. QED
  BY <1>6, <1>7, <1>8, <1>10, <1>11, <1>12, <1>13, <1>14, <1>15, <1>16, <1>17, Cases
  DEF TimeOut, vars
-----------------------------------------------------------------------------
(* The budget                                                              *)

\* Room is reserved for the thread that holds the lock, and nobody else.
LEMMA OneReservation ==
    ASSUME IInv, NEW p \in Procs, pc[p] \in {"load", "read", "lease", "unwind"}
    PROVE  /\ Reserved = {reservation[p]} \ {NoOne}
           /\ \A q \in Procs \ {p} : reservation[q] = NoOne
           /\ pc[p] # "read" => Reserved = {}
<1>1. LocksAgree /\ RoomsAgree
  BY DEF IInv
<1>2. \A q \in Procs : reservation[q] # NoOne => q = p /\ pc[q] = "read"
  BY <1>1 DEF LocksAgree, RoomsAgree
<1>3. QED
  BY <1>2 DEF Reserved

\* What is resident or reserved are blocks.
LEMMA RoomTypes ==
    ASSUME TypeOK
    PROVE  Resident \in SUBSET Blocks /\ Reserved \in SUBSET Blocks
BY DEF TypeOK, Reserved

\* Evictions and reservations that end keep the budget.
LEMMA FewerKept ==
    ASSUME TypeOK, BudgetKept, Resident' \subseteq Resident, Reserved' \subseteq Reserved
    PROVE  BudgetKept'
<1> DEFINE R == Resident
           S == Resident'
           T == Reserved
           U == Reserved'
           X == (R \cup T) \cap Experts
           Y == (S \cup U) \cap Experts
<1>1. R \in SUBSET Blocks /\ T \in SUBSET Blocks /\ S \in SUBSET R /\ U \in SUBSET T
  BY RoomTypes
<1>2. BytesOf(BlockLength, R) + BytesOf(BlockLength, T) <= Capacity /\ Cardinality(X) <= MaxExperts
  BY DEF BudgetKept
<1>3. IsFiniteSet(X) /\ Y \in SUBSET X
  BY <1>1, FS_Subset, ExternalGateAssumption
<1> HIDE DEF R, S, T, U, X, Y
<1>4. /\ BytesOf(BlockLength, S) \in Nat /\ BytesOf(BlockLength, R) \in Nat
      /\ BytesOf(BlockLength, S) <= BytesOf(BlockLength, R)
  BY <1>1, FewerBytes
<1>5. /\ BytesOf(BlockLength, U) \in Nat /\ BytesOf(BlockLength, T) \in Nat
      /\ BytesOf(BlockLength, U) <= BytesOf(BlockLength, T)
  BY <1>1, FewerBytes
<1>6. Cardinality(Y) <= Cardinality(X) /\ Cardinality(Y) \in Nat /\ Cardinality(X) \in Nat
  BY <1>3, FS_Subset, FS_CardinalityType
<1>7. /\ BytesOf(BlockLength, S) + BytesOf(BlockLength, U) <= Capacity
      /\ Cardinality(Y) <= MaxExperts
  BY <1>2, <1>4, <1>5, <1>6, Constant
<1>8. QED
  BY <1>7 DEF BudgetKept, S, U, Y

\* The bytes and slots of one more block.
LEMMA OneMore ==
    ASSUME NEW S \in SUBSET Blocks, NEW b \in Blocks, b \notin S
    PROVE  /\ BytesOf(BlockLength, S \cup {b}) = BytesOf(BlockLength, S) + BlockLength[b]
           /\ BytesOf(BlockLength, {b}) = BlockLength[b]
           /\ BytesOf(BlockLength, {}) = 0
           /\ BytesOf(BlockLength, S) \in Nat /\ BlockLength[b] \in Nat
           /\ b \in Experts => Cardinality((S \cup {b}) \cap Experts)
                                 = Cardinality(S \cap Experts) + 1
<1>1. IsFiniteSet(S) /\ BytesOf(BlockLength, S) \in Nat
  BY FewerBytes
<1>2. \A x \in S \cup {b} : BlockLength[x] \in Nat
  BY Constant
<1>3. BytesOf(BlockLength, S \cup {b}) = BytesOf(BlockLength, S) + BlockLength[b]
  BY <1>1, <1>2, BytesOfAdd
<1>4. BytesOf(BlockLength, {}) = 0
  BY BytesOfEmpty
<1>5. BytesOf(BlockLength, {b}) = BlockLength[b]
  <2>1. IsFiniteSet({}) /\ b \notin {} /\ \A x \in {} \cup {b} : BlockLength[x] \in Nat
    BY FS_EmptySet, <1>2
  <2>2. BytesOf(BlockLength, {} \cup {b}) = BytesOf(BlockLength, {}) + BlockLength[b]
    BY <2>1, BytesOfAdd
  <2>3. {} \cup {b} = {b}
    OBVIOUS
  <2>4. 0 + BlockLength[b] = BlockLength[b]
    BY <1>2
  <2>5. QED
    BY <1>4, <2>2, <2>3, <2>4, Zenon
<1>6. ASSUME b \in Experts
      PROVE  Cardinality((S \cup {b}) \cap Experts) = Cardinality(S \cap Experts) + 1
  <2> DEFINE X == S \cap Experts
  <2>1. /\ IsFiniteSet(X) /\ b \notin X /\ (S \cup {b}) \cap Experts = X \cup {b}
    BY <1>1, <1>6, FS_Subset
  <2> HIDE DEF X
  <2>2. Cardinality(X \cup {b}) = Cardinality(X) + 1
    BY <2>1, FS_AddElement
  <2>3. QED
    BY <2>1, <2>2 DEF X
<1>7. QED
  BY <1>1, <1>2, <1>3, <1>4, <1>5, <1>6

\* Room is reserved where the block fits.
LEMMA ReserveKept ==
    ASSUME IInv, NEW p \in Procs, NEW b \in Blocks, Reserve(p, b)
    PROVE  BudgetKept'
<1>1. TypeOK /\ BudgetKept
  BY DEF IInv
<1>2. PICK V \in Victims(b) : EvictAll(V)
  BY DEF Reserve
<1>3. /\ b \notin Resident /\ reservation' = [reservation EXCEPT ![p] = b] /\ pc[p] = "load"
  BY DEF Reserve, At
<1>4. Reserved = {} /\ \A q \in Procs \ {p} : reservation[q] = NoOne
  BY <1>3, OneReservation
<1>5. Reserved' = {b}
  <2>1. \A q \in Procs : reservation'[q] = IF q = p THEN b ELSE NoOne
    BY <1>1, <1>3, <1>4 DEF TypeOK
  <2>2. b # NoOne
    BY Constant
  <2>3. QED
    BY <2>1, <2>2 DEF Reserved
<1> DEFINE S == Resident \ V
<1>6. Resident' = S /\ S \in SUBSET Resident /\ S \in SUBSET Blocks /\ b \notin S
  BY <1>2, <1>3, Evicts, RoomTypes, <1>1
<1>7. /\ BytesOf(BlockLength, S) + BytesOf(BlockLength, Reserved) + BlockLength[b] <= Capacity
      /\ b \in Experts =>
           Cardinality((Resident \cap Experts) \ V) + Cardinality(Reserved \ Resident)
             < MaxExperts
  BY <1>2 DEF Victims, Fits, BytesFit, SlotsFit
<1>8. (Resident \cap Experts) \ V = S \cap Experts /\ Reserved \ Resident = {}
  BY <1>4
<1> HIDE DEF S
<1>9. /\ BytesOf(BlockLength, {b}) = BlockLength[b] /\ BytesOf(BlockLength, {}) = 0
      /\ BytesOf(BlockLength, S) \in Nat /\ BlockLength[b] \in Nat
      /\ b \in Experts => Cardinality((S \cup {b}) \cap Experts)
                            = Cardinality(S \cap Experts) + 1
  BY <1>6, OneMore
<1>10. BytesOf(BlockLength, S) + BytesOf(BlockLength, {b}) <= Capacity
  <2>1. BytesOf(BlockLength, S) + 0 + BlockLength[b] <= Capacity
    BY <1>4, <1>7, <1>9
  <2>2. QED
    BY <1>9, <2>1, Constant
<1>11. Cardinality((S \cup {b}) \cap Experts) <= MaxExperts
  <2>1. CASE b \in Experts
    <3>1. Cardinality(S \cap Experts) + Cardinality({}) < MaxExperts
      BY <1>7, <1>8, <2>1, Zenon
    <3>2. Cardinality(S \cap Experts) \in Nat /\ Cardinality({}) = 0
      <4>1. IsFiniteSet(S \cap Experts)
        BY FS_Subset, ExternalGateAssumption
      <4>2. QED
        BY <4>1, FS_CardinalityType, FS_EmptySet
    <3>3. QED
      BY <1>9, <2>1, <3>1, <3>2, Constant
  <2>2. CASE b \notin Experts
    <3> DEFINE X == (Resident \cup Reserved) \cap Experts
               Y == (S \cup {b}) \cap Experts
    <3>1. Cardinality(X) <= MaxExperts
      BY <1>1 DEF BudgetKept
    <3>2. IsFiniteSet(X) /\ Y \in SUBSET X
      BY <1>6, <2>2, FS_Subset, ExternalGateAssumption
    <3> HIDE DEF X, Y
    <3>3. Cardinality(Y) <= Cardinality(X) /\ Cardinality(Y) \in Nat /\ Cardinality(X) \in Nat
      BY <3>2, FS_Subset, FS_CardinalityType
    <3>4. Cardinality(Y) <= MaxExperts
      BY <3>1, <3>3, Constant
    <3>5. QED
      BY <3>4 DEF Y
  <2>3. QED
    BY <2>1, <2>2
<1>12. QED
  BY <1>5, <1>6, <1>10, <1>11 DEF BudgetKept

\* A block that was read takes the room reserved for it.
LEMMA CommitKept ==
    ASSUME IInv, NEW p \in Procs, NEW b \in Blocks, Commit(p, b)
    PROVE  BudgetKept'
<1>1. TypeOK /\ BudgetKept /\ RoomsAgree
  BY DEF IInv
<1>2. /\ pc[p] = "read" /\ reservation[p] = b /\ b \notin Resident
      /\ reservation' = [reservation EXCEPT ![p] = NoOne]
  BY <1>1 DEF Commit, At, RoomsAgree, Cancel
<1>3. Resident' = Resident \cup {b}
  BY DEF Commit, Resident
<1>4. /\ Reserved = {b} /\ \A q \in Procs \ {p} : reservation[q] = NoOne
  <2>1. b # NoOne
    BY Constant
  <2>2. QED
    BY <1>2, <2>1, OneReservation
<1>5. Reserved' = {}
  <2>1. \A q \in Procs : reservation'[q] = NoOne
    BY <1>1, <1>2, <1>4 DEF TypeOK
  <2>2. QED
    BY <2>1 DEF Reserved
<1>6. Resident \in SUBSET Blocks
  BY <1>1, RoomTypes
<1>7. /\ BytesOf(BlockLength, Resident \cup {b})
           = BytesOf(BlockLength, Resident) + BlockLength[b]
      /\ BytesOf(BlockLength, {b}) = BlockLength[b] /\ BytesOf(BlockLength, {}) = 0
      /\ BytesOf(BlockLength, Resident) \in Nat /\ BlockLength[b] \in Nat
  BY <1>2, <1>6, OneMore
<1>8. /\ BytesOf(BlockLength, Resident) + BytesOf(BlockLength, {b}) <= Capacity
      /\ Cardinality((Resident \cup {b}) \cap Experts) <= MaxExperts
  BY <1>1, <1>4 DEF BudgetKept
<1>9. BytesOf(BlockLength, Resident \cup {b}) + BytesOf(BlockLength, {}) <= Capacity
  BY <1>7, <1>8, Constant
<1>10. (Resident \cup {b}) \cup {} = Resident \cup {b}
  OBVIOUS
<1>11. QED
  BY <1>3, <1>5, <1>8, <1>9, <1>10 DEF BudgetKept

\* Reserving checks the room that committing takes.
LEMMA BudgetStep == IInv /\ [Next]_vars => BudgetKept'
<1> SUFFICES ASSUME IInv, [Next]_vars
             PROVE  BudgetKept'
  OBVIOUS
<1> USE DEF gateVars, cacheVars, loopVars, sweepVars
<1>1. TypeOK /\ BudgetKept /\ CountsAgree /\ StartsAgree
  BY DEF IInv
<1>2. ASSUME Resident' \subseteq Resident,
             \/ UNCHANGED reservation
             \/ \E p \in Procs : Cancel(p)
             \/ \A p \in Procs : reservation'[p] = NoOne
      PROVE  BudgetKept'
  <2>1. \A q \in Procs : reservation'[q] \in {reservation[q], NoOne}
    BY <1>1, <1>2 DEF Cancel, TypeOK
  <2>2. Reserved' \subseteq Reserved
    BY <2>1 DEF Reserved
  <2>3. QED
    BY <1>1, <1>2, <2>2, FewerKept
<1>3. ASSUME UNCHANGED <<entries, reservation>>
      PROVE  BudgetKept'
  BY <1>2, <1>3 DEF Resident
<1>4. ASSUME NEW p \in Procs, Hit(p) \/ LeaseNew(p)
      PROVE  BudgetKept'
  <2>1. p # Main
    BY <1>1, <1>4 DEF Hit, LeaseNew, At, StartsAgree
  <2>2. /\ p \in Callers /\ todo[p] # <<>> /\ Head(todo[p]) \in Resident /\ Lease(p)
    BY <1>4, <2>1 DEF Hit, LeaseNew, At, Procs
  <2>3. Resident' = Resident /\ reservation' = reservation
    BY <1>1, <2>2, Leases DEF Lease
  <2>4. QED
    BY <1>2, <2>3
<1>5. ASSUME NEW p \in Procs, GiveBack(p)
      PROVE  BudgetKept'
  <2>1. Resident' = Resident /\ reservation' = reservation
    BY <1>1, <1>5, GivesBack, Unleases DEF GiveBack
  <2>2. QED
    BY <1>2, <2>1
<1>6. ASSUME NEW p \in Procs, Clear(p)
      PROVE  BudgetKept'
  BY <1>2, <1>6 DEF Clear, CacheClose, Resident
<1>7. ASSUME NEW p \in Procs, LoadFails(p)
      PROVE  BudgetKept'
  BY <1>2, <1>7 DEF LoadFails, Resident
<1>8. ASSUME NEW p \in Procs, NEW b \in Blocks, NoRoom(p, b)
      PROVE  BudgetKept'
  <2>1. Resident' \subseteq Resident /\ reservation' = reservation
    BY <1>8, Evicts DEF NoRoom
  <2>2. QED
    BY <1>2, <2>1
<1>9. ASSUME NEW p \in Procs, \/ Moves(p) \/ Skip(p) \/ Pop(p)
                              \/ \E b \in Blocks : NotLeased(p, b)
      PROVE  BudgetKept'
  BY <1>3, <1>9 DEF Moves, Skip, Pop, NotLeased
<1>10. ASSUME NEW c \in Callers, Register(c) \/ TimeOut(c)
       PROVE  BudgetKept'
  BY <1>3, <1>10 DEF Register, TimeOut
<1>11. CASE UNCHANGED vars
  BY <1>3, <1>11 DEF vars
<1>12. QED
  BY <1>4, <1>5, <1>6, <1>7, <1>8, <1>9, <1>10, <1>11, ReserveKept, CommitKept, Cases
-----------------------------------------------------------------------------
(* The theorems                                                            *)

\* The invariant holds of a gate that nobody has started.
LEMMA InitInv == Init => IInv
<1> SUFFICES ASSUME Init
             PROVE  IInv
  OBVIOUS
<1>1. /\ Resident = {} /\ cache_leases = {} /\ leases = <<>> /\ stale = {}
      /\ \A p \in Procs : /\ pc[p] = "idle" /\ acquired[p] = <<>> /\ todo[p] = <<>>
                          /\ sweep[p] = <<>> /\ giving[p] = <<>> /\ reservation[p] = NoOne
      /\ admission = NoOne /\ starting = {} /\ ToSet(leases) = {} /\ DOMAIN leases = {}
      /\ DOMAIN sweep = Procs
  BY DEF Init, Resident, ToSet
<1>2. TypeOK
  <2>1. /\ <<>> \in Seq(Callers) /\ <<>> \in Seq(Blocks) /\ <<>> \in Seq(Callers \X Nat)
    BY EmptySeq
  <2>2. QED
    BY <1>1, <2>1 DEF Init, TypeOK
<1>3. LocksAgree /\ StartsAgree /\ Registered /\ SweepsAgree /\ RoomsAgree /\ NoLeakedLease
  BY <1>1, Constant DEF LocksAgree, StartsAgree, Registered, SweepsAgree, RoomsAgree,
     NoLeakedLease
<1>4. CountsAgree
  BY <1>1, FS_EmptySet DEF CountsAgree, LeasesExact
<1>5. GivenUp
  BY <1>1 DEF GivenUp, ToSet
<1>6. Kept
  BY <1>1, Constant DEF Kept, Acquires
<1>7. BudgetKept
  <2>1. Reserved = {}
    BY <1>1 DEF Reserved
  <2>2. BytesOf(BlockLength, {}) = 0 /\ Cardinality({}) = 0
    BY BytesOfEmpty, FS_EmptySet
  <2>3. ({} \cup {}) \cap Experts = {}
    OBVIOUS
  <2>4. QED
    BY <1>1, <2>1, <2>2, <2>3, Constant DEF BudgetKept
<1>8. QED
  BY <1>2, <1>3, <1>4, <1>5, <1>6, <1>7 DEF IInv

\* Every reachable state of the gate satisfies the inductive invariant.
THEOREM GateInvariant == Spec => []IInv
<1>1. Init => IInv
  BY InitInv
<1>2. IInv /\ [Next]_vars => IInv'
  BY TypeStep, LocksStep, StartsStep, CountsStep, NoLeakStep, RegisteredStep, SweepsStep,
     GivenUpStep, KeptStep, RoomsStep, BudgetStep DEF IInv
<1>3. QED
  BY <1>1, <1>2, PTL DEF Spec

\* Every variable of the gate and its cache keeps its type.
THEOREM GateTypes == Spec => []TypeOK
<1>1. IInv => TypeOK
  BY DEF IInv
<1>2. QED
  BY <1>1, GateInvariant, PTL

\* The lease counts of the cache are exact, whatever interleaves with a release,
\* an expiry, a rollback or a close.
THEOREM ExactLeases == Spec => []LeasesExact
<1>1. IInv => LeasesExact
  BY DEF IInv, CountsAgree
<1>2. QED
  BY <1>1, GateInvariant, PTL

\* Resident and reserved blocks fit the bytes and the slots of the budget.
THEOREM BudgetHolds == Spec => []BudgetKept
<1>1. IInv => BudgetKept
  BY DEF IInv
<1>2. QED
  BY <1>1, GateInvariant, PTL

\* No cache lease outlives everybody who would release it.
THEOREM NothingLeaks == Spec => []NoLeakedLease
<1>1. IInv => NoLeakedLease
  BY DEF IInv
<1>2. QED
  BY <1>1, GateInvariant, PTL

\* Until the gate closes, a registered or granted lease has its blocks resident.
THEOREM HeldStaysResident == Spec => []HeldIsResident
<1>1. IInv => HeldIsResident
  <2> SUFFICES ASSUME IInv, ~Closing, NEW c \in Callers,
                      c \in ToSet(leases) \/ pc[c] = "grant", NEW b \in ToSet(acquired[c])
               PROVE  b \in Resident
    BY DEF HeldIsResident, ToSet
  <2>1. Kept /\ LeasesExact
    BY DEF IInv, CountsAgree
  <2>2. PICK i \in DOMAIN acquired[c] : b = acquired[c][i]
    BY DEF ToSet
  <2>3. <<c, i>> \in cache_leases
    BY <2>1 DEF Kept, Acquires
  <2>4. BlockOf(<<c, i>>) = b
    BY <2>2 DEF BlockOf
  <2>5. QED
    BY <2>1, <2>3, <2>4 DEF LeasesExact
<1>2. QED
  BY <1>1, GateInvariant, PTL
=============================================================================
