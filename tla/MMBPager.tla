------------------------------ MODULE MMBPager ------------------------------
(***************************************************************************)
(* The native expert pager: MMBPager (mmb_pager.cpp) over the LRU block    *)
(* cache MMBCache (mmb_cache.cpp), used by concurrent threads through      *)
(* leases (MMBLease, and MMBKernelLease of mmb_kernel.cpp).                *)
(*                                                                         *)
(* The pager's methods run under one mutex, but a lease holder reads the   *)
(* bytes of its blocks through raw pointers without the mutex, while other *)
(* threads page and evict.  So the critical section is modelled step by    *)
(* step: one step per expert looked up, per block read from storage, per   *)
(* eviction and per insertion.                                             *)
(*                                                                         *)
(* Abstractions.  A block's bytes are its identity: the route              *)
(* <<layer, expert>>.  A read from storage either yields the whole block   *)
(* or fails (short read, unreadable shard, SHA-256 mismatch).  Elapsed     *)
(* times are left out.  The 64-bit counters are natural numbers.           *)
(***************************************************************************)
EXTENDS ByteCount

CONSTANTS
    Layers,      \* layer numbers requests may name
    Experts,     \* expert numbers requests may name
    Described,   \* the routes the model map describes
    BlockBytes,  \* block_length of each described route
    Capacity,    \* capacity_bytes_ of the cache
    Threads,     \* threads that call the pager
    NoThread,    \* "the mutex is free"
    MaxLeases    \* bound on the number of acquire calls

Route == Layers \X Experts
LeaseId == 1 .. MaxLeases

ASSUME PagerAssumption ==
    /\ IsFiniteSet(Layers) /\ Layers \subseteq Nat
    /\ IsFiniteSet(Experts) /\ Experts \subseteq Nat
    /\ Described \subseteq Route
    /\ BlockBytes \in [Described -> Nat \ {0}]
    /\ Capacity \in Nat \ {0}
    /\ NoThread \notin Threads
    /\ MaxLeases \in Nat

VARIABLES
    entries,        \* keys of entries_, the blocks in memory
    leases,         \* leases[r]: CacheEntry::leases
    last_used,      \* last_used[r]: CacheEntry::last_used
    clock,          \* clock_
    resident_bytes, \* MMBCacheStats::resident_bytes
    peak_bytes,     \* MMBCacheStats::peak_resident_bytes
    stats,          \* the counters of MMBPagerStats, and evictions
    mutex,          \* the thread inside the critical section
    next_lease_id,  \* next_lease_id_
    lease_state,    \* life cycle of each MMBLease
    held,           \* held[l]: MMBLease::entries
    owner,          \* owner[l]: the thread the lease was made for
    kernel,         \* the leases made for a router request
    pc,             \* what each thread is doing
    cur,            \* cur[t]: the lease t is acquiring or releasing
    todo,           \* todo[t]: routes of the request not yet leased
    target          \* target[t]: the route being read and inserted

cacheVars == <<entries, leases, last_used, clock, resident_bytes, peak_bytes>>
leaseVars == <<next_lease_id, lease_state, held, owner, kernel>>
threadVars == <<pc, cur, todo, target>>
vars == <<cacheVars, stats, mutex, leaseVars, threadVars>>

Counters == {"router_requests", "hits", "misses", "loads", "bytes_read",
             "experts_used", "evictions", "paged_kernels"}

\* Where a thread can be.  "page", "insert": in acquire's loop, holding the
\* mutex.  "commit": in commit_after_compute, between the two critical
\* sections.
Locations == {"idle", "page", "insert", "commit"}

Locked(t) == pc[t] \in {"page", "insert"}

\* Mutant of Count: the counter is set, not added to.
CountOverwrites(c, n) == [stats EXCEPT ![c] = n]

\* Count(c, n): the counter c grows by n.
Count(c, n) == [stats EXCEPT ![c] = @ + n]
-----------------------------------------------------------------------------
(* MMBCache                                                                *)

\* Entries that evict_until may take: no lease.
Unleased == {r \in entries : leases[r] = 0}

\* Mutant of IsVictim: plain LRU, blind to leases.
IsVictimLeasedToo(r) ==
    /\ r \in entries
    /\ \A u \in entries : last_used[r] <= last_used[u]

\* evict_until's choice: the least recently used of the unleased entries.
IsVictim(r) ==
    /\ r \in Unleased
    /\ \A u \in Unleased : last_used[r] <= last_used[u]

\* Mutant of Room: makes room for one byte and inserts the whole block.
RoomForOne(n) == resident_bytes < Capacity

\* evict_until's loop condition for a block of n bytes, negated.
\* n <= Capacity has been tested first, so the subtraction cannot wrap.
Room(n) == resident_bytes <= Capacity - n

\* release on every entry of S, in ascending order of expert, each at its
\* own tick of the clock.
ReleaseEntries(S) ==
    /\ leases' = [r \in Route |-> IF r \in S THEN leases[r] - 1 ELSE leases[r]]
    /\ last_used' = [r \in Route |->
                       IF r \in S
                       THEN clock + Cardinality({q \in S : q[2] <= r[2]})
                       ELSE last_used[r]]
    /\ clock' = clock + Cardinality(S)
    /\ UNCHANGED <<entries, resident_bytes, peak_bytes>>

\* acquire on the entry of r after find or insert has stamped it.
LeaseEntry(r, n) ==
    /\ leases' = [leases EXCEPT ![r] = n]
    /\ last_used' = [last_used EXCEPT ![r] = clock + 2]
    /\ clock' = clock + 2
-----------------------------------------------------------------------------
(* MMBPager::acquire                                                       *)

\* A caller asks for the experts S of a layer and gets the mutex; its lease
\* is numbered.  router_request tells whether the ids come from the model's
\* router (then the lease belongs to an MMBKernelLease).  An empty list
\* throws before anything is locked; sorting and removing duplicates make
\* the request a set.
Acquire(t, layer, S, router_request) ==
    LET l == next_lease_id IN
    /\ pc[t] = "idle" /\ mutex = NoThread
    /\ S # {}
    /\ l <= MaxLeases
    /\ mutex' = t
    /\ pc' = [pc EXCEPT ![t] = "page"]
    /\ cur' = [cur EXCEPT ![t] = l]
    /\ todo' = [todo EXCEPT ![t] = {layer} \X S]
    /\ next_lease_id' = l + 1
    /\ lease_state' = [lease_state EXCEPT ![l] = "building"]
    /\ owner' = [owner EXCEPT ![l] = t]
    /\ kernel' = IF router_request THEN kernel \cup {l} ELSE kernel
    /\ stats' = IF router_request THEN Count("router_requests", 1) ELSE stats
    /\ UNCHANGED <<cacheVars, held, target>>

\* The loop of acquire has come to the route r, its least expert left.
AtRoute(t, r) ==
    /\ pc[t] = "page"
    /\ r \in todo[t]
    /\ \A q \in todo[t] : r[2] <= q[2]

\* r joins the lease; the loop goes on with the next expert.
Push(t, r) ==
    /\ held' = [held EXCEPT ![cur[t]] = @ \cup {r}]
    /\ todo' = [todo EXCEPT ![t] = @ \ {r}]

\* find returns the entry of r, which is stamped and leased.
Hit(t, r) ==
    /\ AtRoute(t, r) /\ r \in Described \cap entries
    /\ LeaseEntry(r, leases[r] + 1)
    /\ Push(t, r)
    /\ stats' = [stats EXCEPT !["hits"] = @ + 1, !["experts_used"] = @ + 1]
    /\ UNCHANGED <<entries, resident_bytes, peak_bytes, mutex, next_lease_id,
                   lease_state, owner, kernel, pc, cur, target>>

\* find returns nothing; the block of r is read from its shard.
Miss(t, r) ==
    /\ AtRoute(t, r) /\ r \in Described \ entries
    /\ pc' = [pc EXCEPT ![t] = "insert"]
    /\ target' = [target EXCEPT ![t] = r]
    /\ stats' = [stats EXCEPT !["misses"] = @ + 1, !["loads"] = @ + 1,
                              !["bytes_read"] = @ + BlockBytes[r]]
    /\ UNCHANGED <<cacheVars, mutex, leaseVars, cur, todo>>

\* evict_until gives up one block; its loop then tests the room again.
Evict(t, v) ==
    /\ pc[t] = "insert"
    /\ BlockBytes[target[t]] <= Capacity
    /\ ~Room(BlockBytes[target[t]])
    /\ IsVictim(v)
    /\ entries' = entries \ {v}
    /\ resident_bytes' = resident_bytes - BlockBytes[v]
    /\ stats' = Count("evictions", 1)
    /\ UNCHANGED <<leases, last_used, clock, peak_bytes, mutex, leaseVars,
                   threadVars>>

\* There is room: the block becomes an entry with one lease, acquire's.
Insert(t) ==
    LET r == target[t] IN
    /\ pc[t] = "insert"
    /\ BlockBytes[r] <= Capacity
    /\ Room(BlockBytes[r])
    /\ entries' = entries \cup {r}
    /\ resident_bytes' = resident_bytes + BlockBytes[r]
    /\ peak_bytes' = IF resident_bytes' > peak_bytes THEN resident_bytes'
                                                     ELSE peak_bytes
    /\ LeaseEntry(r, 1)
    /\ Push(t, r)
    /\ pc' = [pc EXCEPT ![t] = "page"]
    /\ stats' = Count("experts_used", 1)
    /\ UNCHANGED <<mutex, next_lease_id, lease_state, owner, kernel, cur,
                   target>>

\* Every expert is leased: acquire returns the lease and unlocks.
Return(t) ==
    /\ pc[t] = "page" /\ todo[t] = {}
    /\ lease_state' = [lease_state EXCEPT ![cur[t]] = "active"]
    /\ mutex' = NoThread
    /\ pc' = [pc EXCEPT ![t] = "idle"]
    /\ UNCHANGED <<cacheVars, stats, next_lease_id, held, owner, kernel, cur,
                   todo, target>>

\* Mutant of Unwind: the lease is destroyed without releasing its entries.
UnwindLeaksLeases(t) ==
    /\ UNCHANGED cacheVars
    /\ held' = [held EXCEPT ![cur[t]] = {}]
    /\ lease_state' = [lease_state EXCEPT ![cur[t]] = "failed"]
    /\ mutex' = NoThread
    /\ pc' = [pc EXCEPT ![t] = "idle"]
    /\ todo' = [todo EXCEPT ![t] = {}]
    /\ UNCHANGED <<next_lease_id, owner, kernel, cur, target>>

\* Mutant of Unwind: the exception path leaves the mutex locked.
UnwindKeepsMutex(t) ==
    /\ ReleaseEntries(held[cur[t]])
    /\ held' = [held EXCEPT ![cur[t]] = {}]
    /\ lease_state' = [lease_state EXCEPT ![cur[t]] = "failed"]
    /\ pc' = [pc EXCEPT ![t] = "idle"]
    /\ todo' = [todo EXCEPT ![t] = {}]
    /\ UNCHANGED <<mutex, next_lease_id, owner, kernel, cur, target>>

\* An exception leaves the loop: the entries leased so far are released,
\* the lease is destroyed and the mutex freed.  Blocks brought in, blocks
\* evicted and counters stay as they are.
Unwind(t) ==
    /\ ReleaseEntries(held[cur[t]])
    /\ held' = [held EXCEPT ![cur[t]] = {}]
    /\ lease_state' = [lease_state EXCEPT ![cur[t]] = "failed"]
    /\ mutex' = NoThread
    /\ pc' = [pc EXCEPT ![t] = "idle"]
    /\ todo' = [todo EXCEPT ![t] = {}]
    /\ UNCHANGED <<next_lease_id, owner, kernel, cur, target>>

\* MMBModel::expert knows no such route.
UnknownRoute(t, r) ==
    /\ AtRoute(t, r) /\ r \notin Described
    /\ Unwind(t)
    /\ UNCHANGED stats

\* MMBModel::read_expert throws: a short read, or a hash that differs.
ReadFails(t, r) ==
    /\ AtRoute(t, r) /\ r \in Described \ entries
    /\ Unwind(t)
    /\ stats' = Count("misses", 1)

\* evict_until: the block alone is larger than the cache.
TooLarge(t) ==
    /\ pc[t] = "insert"
    /\ BlockBytes[target[t]] > Capacity
    /\ Unwind(t)
    /\ UNCHANGED stats

\* evict_until: no room, and every entry is leased.
BudgetExhausted(t) ==
    /\ pc[t] = "insert"
    /\ BlockBytes[target[t]] <= Capacity
    /\ ~Room(BlockBytes[target[t]])
    /\ Unleased = {}
    /\ Unwind(t)
    /\ UNCHANGED stats
-----------------------------------------------------------------------------
(* Giving leases back                                                      *)

\* MMBPager::release of the active lease l.
GiveBack(l) ==
    /\ ReleaseEntries(held[l])
    /\ held' = [held EXCEPT ![l] = {}]
    /\ lease_state' = [lease_state EXCEPT ![l] = "released"]
    /\ UNCHANGED <<stats, mutex, next_lease_id, owner, kernel>>

\* The holder releases its lease: mmb_pager_release, or the destructor of an
\* MMBKernelLease that was not committed.
Release(t, l) ==
    /\ pc[t] = "idle" /\ mutex = NoThread
    /\ owner[l] = t /\ lease_state[l] = "active"
    /\ GiveBack(l)
    /\ UNCHANGED threadVars

\* MMBKernelLease::commit_after_compute locks the mutex twice: first in
\* record_paged_kernel, then in release.  Other threads may come between.
RecordPagedKernel(t, l) ==
    /\ pc[t] = "idle" /\ mutex = NoThread
    /\ owner[l] = t /\ l \in kernel /\ lease_state[l] = "active"
    /\ stats' = Count("paged_kernels", 1)
    /\ pc' = [pc EXCEPT ![t] = "commit"]
    /\ cur' = [cur EXCEPT ![t] = l]
    /\ UNCHANGED <<cacheVars, mutex, leaseVars, todo, target>>

CommitRelease(t) ==
    /\ pc[t] = "commit" /\ mutex = NoThread
    /\ GiveBack(cur[t])
    /\ pc' = [pc EXCEPT ![t] = "idle"]
    /\ UNCHANGED <<cur, todo, target>>
-----------------------------------------------------------------------------
Init ==
    /\ entries = {}
    /\ leases = [r \in Route |-> 0]
    /\ last_used = [r \in Route |-> 0]
    /\ clock = 0 /\ resident_bytes = 0 /\ peak_bytes = 0
    /\ stats = [c \in Counters |-> 0]
    /\ mutex = NoThread
    /\ next_lease_id = 1
    /\ lease_state = [l \in LeaseId |-> "new"]
    /\ held = [l \in LeaseId |-> {}]
    /\ owner = [l \in LeaseId |-> NoThread]
    /\ kernel = {}
    /\ pc = [t \in Threads |-> "idle"]
    /\ cur = [t \in Threads |-> 0]
    /\ todo = [t \in Threads |-> {}]
    /\ target = [t \in Threads |-> <<0, 0>>]

\* The steps a thread takes while it holds the mutex.
Inside(t) ==
    \/ \E r \in todo[t] : Hit(t, r) \/ Miss(t, r) \/ UnknownRoute(t, r)
                            \/ ReadFails(t, r)
    \/ \E v \in entries : Evict(t, v)
    \/ Insert(t) \/ TooLarge(t) \/ BudgetExhausted(t)
    \/ Return(t)

Outside(t) ==
    \/ \E layer \in Layers, S \in SUBSET Experts, b \in BOOLEAN :
         Acquire(t, layer, S, b)
    \/ \E l \in LeaseId : Release(t, l) \/ RecordPagedKernel(t, l)
    \/ CommitRelease(t)

Next == \E t \in Threads : Outside(t) \/ Inside(t)

Spec == Init /\ [][Next]_vars

\* A thread inside the critical section is scheduled until it leaves it.
\* Nothing makes a caller come back, and nothing orders waiting threads.
FairSpec == Spec /\ \A t \in Threads : WF_vars(Inside(t))
-----------------------------------------------------------------------------
(* Properties                                                              *)

TypeOK ==
    /\ entries \subseteq Described
    /\ leases \in [Route -> Nat]
    /\ last_used \in [Route -> Nat]
    /\ clock \in Nat /\ resident_bytes \in Nat /\ peak_bytes \in Nat
    /\ stats \in [Counters -> Nat]
    /\ mutex \in Threads \cup {NoThread}
    /\ next_lease_id \in 1 .. MaxLeases + 1
    /\ lease_state \in [LeaseId -> {"new", "building", "active", "released",
                                    "failed"}]
    /\ held \in [LeaseId -> SUBSET Route]
    /\ owner \in [LeaseId -> Threads \cup {NoThread}]
    /\ kernel \subseteq LeaseId
    /\ pc \in [Threads -> Locations]
    /\ cur \in [Threads -> Nat]
    /\ todo \in [Threads -> SUBSET Route]
    /\ target \in [Threads -> Nat \X Nat]

\* The leases, granted or under construction, that hold the entry of r, and
\* all blocks held by some lease.
Holders(r) == {l \in LeaseId : r \in held[l]}
Held == UNION {held[l] : l \in LeaseId}

\* Every pointer a lease holds is to an entry that is still in the cache:
\* holders read block bytes without the mutex, so an eviction of a held
\* block, by any interleaving of acquires, failures and releases, would be a
\* use after free.
HeldIsResident == Held \subseteq entries

\* The lease counter of a block is the number of leases that hold it, also in
\* the middle of an acquire and after one that failed half way: a counter too
\* low frees a block in use, one too high pins it for ever.
LeaseCountsHolders ==
    \A r \in Route : leases[r] = Cardinality(Holders(r))

\* resident_bytes is the size of what is in the cache, and neither it nor its
\* recorded peak exceeds the capacity, at every step of the eviction loop.
BudgetKept ==
    /\ resident_bytes = BytesOf(BlockBytes, entries)
    /\ resident_bytes <= peak_bytes
    /\ peak_bytes <= Capacity

\* Each expert counted as used was a hit, or was inserted and is now either
\* in the cache or among the evictions: the pager's counters and the cache's
\* agree whatever requests failed.
UseAccounting ==
    stats["experts_used"] =
        stats["hits"] + stats["evictions"] + Cardinality(entries)

\* Threads and leases agree: the mutex is held exactly by the thread inside
\* acquire, which is building its own lease; what it has leased and what it
\* still wants are disjoint and not both empty; a block about to be inserted
\* is not in the cache; a lease that is being committed is still active; and
\* only leases being built or active hold blocks.
ThreadAgrees(t) ==
    /\ Locked(t) <=> mutex = t
    /\ Locked(t) => /\ cur[t] \in LeaseId
                    /\ lease_state[cur[t]] = "building"
                    /\ todo[t] \cap held[cur[t]] = {}
                    /\ todo[t] \cup held[cur[t]] # {}
    /\ pc[t] = "insert" => target[t] \in (todo[t] \cap Described) \ entries
    /\ pc[t] = "commit" => /\ cur[t] \in LeaseId
                           /\ lease_state[cur[t]] = "active"
                           /\ owner[cur[t]] = t

LeaseAgrees(l) ==
    /\ lease_state[l] = "active" => held[l] # {}
    /\ lease_state[l] \notin {"building", "active"} => held[l] = {}
    /\ l >= next_lease_id => lease_state[l] = "new"

CallsAndLeases ==
    /\ \A t \in Threads : ThreadAgrees(t)
    /\ \A l \in LeaseId : LeaseAgrees(l)

\* An acquire is refused for lack of memory only when the blocks leased at
\* that moment, with the one it needs, really exceed the capacity: unleased
\* blocks, and the ghosts of failed requests, never stand in the way.
RefusedOnlyOverBudget ==
    [][\A t \in Threads :
         pc[t] = "insert" /\ pc'[t] = "idle"
             => BytesOf(BlockBytes, Held \cup {target[t]}) > Capacity]_vars

\* The inductive invariant behind the safety properties.
IInv ==
    /\ TypeOK /\ CallsAndLeases
    /\ HeldIsResident /\ LeaseCountsHolders /\ BudgetKept

\* The critical section ends: acquire's loop over experts and the eviction
\* loop inside it both run out, whatever fails.
CriticalSectionEnds ==
    \A t \in Threads : mutex = t ~> mutex = NoThread

\* The pager implements LeaseStore: a lease is granted when acquire returns
\* it, and a request that is still being served is new to the caller.
StorePhase ==
    [l \in LeaseId |-> CASE lease_state[l] \in {"new", "building"} -> "new"
                         [] lease_state[l] = "active"              -> "granted"
                         [] OTHER                                  -> "closed"]
StoreGranted ==
    [l \in LeaseId |-> IF lease_state[l] = "active" THEN held[l] ELSE {}]

WithinBudget == {S \in SUBSET Described : BytesOf(BlockBytes, S) <= Capacity}

Store == INSTANCE LeaseStore WITH
    Block <- Described, Fitting <- WithinBudget,
    resident <- entries, phase <- StorePhase, granted <- StoreGranted

ImplementsLeaseStore == Store!StoreSpec
=============================================================================
