----------------------------- MODULE ExternalGate -----------------------------
(***************************************************************************)
(* ExternalGate (external.py) over ResidentCache (cache.py): threads that  *)
(* acquire blocks, a main thread that enters and leaves the gate.          *)
(*                                                                         *)
(* The gate has three locks.  _lock and the cache's lock are held for one  *)
(* step each and are not variables; _admission_lock is held across file    *)
(* reads.  release, the expiry of old leases and close do not take it, so  *)
(* they fall between any two steps of an admission.                        *)
(*                                                                         *)
(* Abstractions.  A block's bytes are its presence.  The eviction order    *)
(* follows a clock that may not tick between two uses, so the victims are  *)
(* any candidates.  Each caller acquires once.  Hit, miss and eviction     *)
(* counts are left out, and speculative loads, which the gate never asks   *)
(* for.                                                                    *)
(***************************************************************************)
EXTENDS ByteCount, Sequences, SequencesExt

CONSTANTS
    Callers,        \* threads that acquire
    Main,           \* the thread of the with statement
    NoOne,          \* no lock holder, no reservation
    Experts,        \* expert blocks
    CoreBlocks,     \* model_map.core_blocks
    BlockLength,    \* length of each block
    Capacity,       \* cache capacity_bytes
    MaxExperts,     \* max_expert_entries
    Requests        \* the block_ids callers ask for

Procs == Callers \cup {Main}
Blocks == Experts \cup ToSet(CoreBlocks)

ASSUME ExternalGateAssumption ==
    /\ Main \notin Callers /\ NoOne \notin Procs \cup Blocks
    /\ IsFiniteSet(Experts) /\ Experts \cap ToSet(CoreBlocks) = {}
    /\ CoreBlocks \in Seq(Blocks) /\ Capacity \in Nat
    /\ BlockLength \in [Blocks -> Nat \ {0}]
    /\ MaxExperts \in Nat \ {0}
    \* validate_feasibility
    /\ \A e \in Experts :
         BytesOf(BlockLength, ToSet(CoreBlocks) \cup {e}) <= Capacity
    /\ Requests \subseteq Seq(Blocks) \ {<<>>}

VARIABLES
    started, closed,  \* _started, _closed
    leases,           \* _leases of the gate: callers, oldest first
    stale,            \* leases older than lease_timeout_seconds
    admission,        \* holder of _admission_lock
    entries,          \* _entries: pinned and leases of each resident block
    reservation,      \* reservation[p]: the block p has room reserved for
    cache_leases,     \* _leases of the cache: <<caller, position in its list>>
    pc,               \* pc[p]: where thread p is
    starting,         \* threads inside start
    todo,             \* todo[p]: blocks p has yet to load or lease
    acquired,         \* acquired[p]: blocks p has leased, in order
    sweep,            \* sweep[p]: leases p has yet to release
    giving            \* giving[p]: cache leases p has yet to release

gateVars == <<started, closed, leases, stale>>
cacheVars == <<entries, reservation, cache_leases>>
loopVars == <<starting, todo, acquired>>
sweepVars == <<sweep, giving>>
vars == <<gateVars, admission, cacheVars, pc, loopVars, sweepVars>>

Resident == DOMAIN entries
BlockOf(t) == acquired[t[1]][t[2]]
TokensOf(p) == [i \in 1 .. Len(acquired[p]) |-> <<p, i>>]

PcTo(p, s) == pc' = [pc EXCEPT ![p] = s]
-----------------------------------------------------------------------------
(* Room in the cache                                                       *)

\* _eviction_candidate.
Candidates == {b \in Resident : ~entries[b].pinned /\ entries[b].leases = 0}

Reserved == {reservation[p] : p \in Procs} \ {NoOne}

SlotsFit(b, V) ==
    b \in Experts =>
        Cardinality((Resident \cap Experts) \ V) + Cardinality(Reserved \ Resident)
            < MaxExperts

\* Mutant of BytesFit: the block to come is not counted.
BytesFitWithoutIt(b, V) ==
    BytesOf(BlockLength, Resident \ V) + BytesOf(BlockLength, Reserved) <= Capacity

BytesFit(b, V) ==
    BytesOf(BlockLength, Resident \ V) + BytesOf(BlockLength, Reserved)
        + BlockLength[b] <= Capacity

Fits(b, V) == SlotsFit(b, V) /\ BytesFit(b, V)

\* What the loops of reserve may evict: they stop as soon as b fits.
Victims(b) ==
    {V \in SUBSET Candidates :
        Fits(b, V) /\ (V # {} => \E v \in V : ~Fits(b, V \ {v}))}

\* What they have evicted when no candidate is left.
Exhausted(b) ==
    IF SlotsFit(b, Candidates) THEN Candidates ELSE Candidates \cap Experts

EvictAll(V) == entries' = [b \in Resident \ V |-> entries[b]]
-----------------------------------------------------------------------------
(* Leases of the cache                                                     *)

\* cache.acquire of the block p is at.
Lease(p) ==
    LET b == Head(todo[p]) IN
    /\ entries' = [entries EXCEPT ![b].leases = @ + 1]
    /\ cache_leases' = cache_leases \cup {<<p, Len(acquired[p]) + 1>>}
    /\ acquired' = [acquired EXCEPT ![p] = Append(@, b)]
    /\ todo' = [todo EXCEPT ![p] = Tail(@)]
    /\ UNCHANGED <<reservation, starting>>

\* cache.release.
Unlease(t) ==
    /\ cache_leases' = cache_leases \ {t}
    /\ entries' = IF t \in cache_leases
                  THEN [entries EXCEPT ![BlockOf(t)].leases = @ - 1] ELSE entries

\* One cache lease on the list of p is released.
GiveBack(p) ==
    /\ giving[p] # <<>>
    /\ Unlease(Head(giving[p]))
    /\ giving' = [giving EXCEPT ![p] = Tail(@)]
    /\ UNCHANGED <<gateVars, admission, reservation, pc, loopVars, sweep>>

\* Mutant of Popped: the lease stays in the table while it is released.
PoppedNot(l) == UNCHANGED <<leases, stale>>

Popped(l) ==
    /\ IF l \in ToSet(leases)
       THEN \E i \in DOMAIN leases : leases[i] = l /\ leases' = RemoveAt(leases, i)
       ELSE UNCHANGED leases
    /\ stale' = stale \ {l}

\* release of the next lease p has to release, if it still exists.
Pop(p) ==
    LET l == Head(sweep[p]) IN
    /\ giving[p] = <<>> /\ sweep[p] # <<>>
    /\ Popped(l)
    /\ giving' = [giving EXCEPT ![p] =
                    IF l \in ToSet(leases) THEN TokensOf(l) ELSE <<>>]
    /\ sweep' = [sweep EXCEPT ![p] = Tail(@)]
    /\ UNCHANGED <<started, closed, admission, cacheVars, pc, loopVars>>

\* p has released what it had to.
Swept(p) == sweep[p] = <<>> /\ giving[p] = <<>>
-----------------------------------------------------------------------------
(* close                                                                   *)

CloseCheck(p) ==
    /\ pc[p] = "close"
    /\ IF closed
       THEN PcTo(p, "done") /\ UNCHANGED sweep
       ELSE PcTo(p, "closing") /\ sweep' = [sweep EXCEPT ![p] = leases]
    /\ UNCHANGED <<gateVars, admission, cacheVars, loopVars, giving>>

\* Mutant of CacheClose: the leases are kept.
CacheCloseKeepsLeases ==
    /\ entries' = [b \in {} |-> [pinned |-> FALSE, leases |-> 0]]
    /\ reservation' = [p \in Procs |-> NoOne]
    /\ UNCHANGED cache_leases

\* cache.close.
CacheClose ==
    /\ entries' = [b \in {} |-> [pinned |-> FALSE, leases |-> 0]]
    /\ reservation' = [p \in Procs |-> NoOne]
    /\ cache_leases' = {}

Clear(p) ==
    /\ pc[p] = "closing" /\ Swept(p)
    /\ CacheClose
    /\ PcTo(p, "shut")
    /\ UNCHANGED <<gateVars, admission, loopVars, sweepVars>>

Shut(p) ==
    /\ pc[p] = "shut"
    /\ closed' = TRUE /\ started' = FALSE
    /\ PcTo(p, "done")
    /\ UNCHANGED <<leases, stale, admission, cacheVars, loopVars, sweepVars>>
-----------------------------------------------------------------------------
(* start and _load                                                         *)

\* Where p goes on when the gate has started.
AfterStart(p) == IF p = Main THEN "open" ELSE "expire"

\* start's own look at the two flags.
CheckStart(p) ==
    /\ pc[p] = "start"
    /\ PcTo(p, IF closed THEN "done" ELSE IF started THEN AfterStart(p) ELSE "wait")
    /\ IF closed \/ started
       THEN UNCHANGED <<starting, todo>>
       ELSE /\ starting' = starting \cup {p}
            /\ todo' = [todo EXCEPT ![p] = CoreBlocks]
    /\ UNCHANGED <<gateVars, admission, cacheVars, acquired, sweepVars>>

LockAdmission(p) ==
    /\ pc[p] = "wait" /\ admission = NoOne
    /\ admission' = p
    /\ PcTo(p, "load")
    /\ UNCHANGED <<gateVars, cacheVars, loopVars, sweepVars>>

\* Mutant of Rollback: the lease taken last is forgotten.
RollbackButLast(p) == IF acquired[p] = <<>> THEN <<>> ELSE Front(TokensOf(p))

\* What a failing acquire releases.
Rollback(p) == TokensOf(p)

\* An exception under _admission_lock: start closes the gate, acquire
\* releases what it has leased.
Raise(p) ==
    IF p \in starting
    THEN /\ admission' = NoOne
         /\ PcTo(p, "close")
         /\ UNCHANGED giving
    ELSE /\ PcTo(p, "unwind")
         /\ giving' = [giving EXCEPT ![p] = Rollback(p)]
         /\ UNCHANGED admission

At(p, s, b) == pc[p] = s /\ todo[p] # <<>> /\ b = Head(todo[p])

\* start finds a core block resident.
Skip(p) ==
    /\ p \in starting /\ \E b \in Resident : At(p, "load", b)
    /\ todo' = [todo EXCEPT ![p] = Tail(@)]
    /\ UNCHANGED <<gateVars, admission, cacheVars, pc, starting, acquired, sweepVars>>

\* acquire finds its block resident.
Hit(p) ==
    /\ p \notin starting /\ \E b \in Resident : At(p, "load", b)
    /\ Lease(p)
    /\ UNCHANGED <<gateVars, admission, pc, sweepVars>>

\* cache.reserve evicts what it must and sets the room aside.
Reserve(p, b) ==
    /\ At(p, "load", b) /\ b \notin Resident
    /\ \E V \in Victims(b) : EvictAll(V)
    /\ reservation' = [reservation EXCEPT ![p] = b]
    /\ PcTo(p, "read")
    /\ UNCHANGED <<gateVars, admission, cache_leases, loopVars, sweepVars>>

\* cache.reserve evicts every candidate and still has no room.
NoRoom(p, b) ==
    /\ At(p, "load", b) /\ b \notin Resident /\ ~Fits(b, Candidates)
    /\ EvictAll(Exhausted(b))
    /\ Raise(p)
    /\ UNCHANGED <<gateVars, reservation, cache_leases, loopVars, sweep>>

\* cache.cancel, and the reservation's end in cache.commit.
Cancel(p) == reservation' = [reservation EXCEPT ![p] = NoOne]

\* The file is short or damaged, or the cache was closed meanwhile and the
\* reservation is gone.
LoadFails(p) ==
    /\ pc[p] = "read"
    /\ Cancel(p)
    /\ Raise(p)
    /\ UNCHANGED <<gateVars, entries, cache_leases, loopVars, sweep>>

\* cache.commit of a block that was read.
Commit(p, b) ==
    /\ At(p, "read", b) /\ reservation[p] = b
    /\ entries' = [x \in Resident \cup {b} |->
                     IF x = b THEN [pinned |-> p \in starting, leases |-> 0]
                              ELSE entries[x]]
    /\ Cancel(p)
    /\ IF p \in starting
       THEN PcTo(p, "load") /\ todo' = [todo EXCEPT ![p] = Tail(@)]
       ELSE PcTo(p, "lease") /\ UNCHANGED todo
    /\ UNCHANGED <<gateVars, admission, cache_leases, starting, acquired, sweepVars>>

\* acquire leases the block it has just loaded.
LeaseNew(p) ==
    /\ \E b \in Resident : At(p, "lease", b)
    /\ Lease(p)
    /\ PcTo(p, "load")
    /\ UNCHANGED <<gateVars, admission, sweepVars>>

\* A close has removed it.
NotLeased(p, b) ==
    /\ At(p, "lease", b) /\ b \notin Resident
    /\ Raise(p)
    /\ UNCHANGED <<gateVars, cacheVars, loopVars, sweep>>

\* The loop is done: _admission_lock is released.
LoopDone(p) ==
    /\ pc[p] = "load" /\ todo[p] = <<>>
    /\ admission' = NoOne
    /\ PcTo(p, IF p \in starting THEN "mark" ELSE "grant")
    /\ UNCHANGED <<gateVars, cacheVars, loopVars, sweepVars>>

MarkStarted(p) ==
    /\ pc[p] = "mark"
    /\ started' = TRUE
    /\ starting' = starting \ {p}
    /\ PcTo(p, AfterStart(p))
    /\ UNCHANGED <<closed, leases, stale, admission, cacheVars, todo, acquired,
                   sweepVars>>
-----------------------------------------------------------------------------
(* acquire and release                                                     *)

\* _require_started.
Call(c) ==
    /\ pc[c] = "idle"
    /\ PcTo(c, IF closed THEN "done" ELSE IF started THEN "expire" ELSE "start")
    /\ UNCHANGED <<gateVars, admission, cacheVars, loopVars, sweepVars>>

\* _expire_stale_leases: looked for at most every five seconds.
Expire(c) ==
    /\ pc[c] = "expire"
    /\ \/ sweep' = [sweep EXCEPT ![c] = SelectSeq(leases, LAMBDA l : l \in stale)]
       \/ UNCHANGED sweep
    /\ PcTo(c, "expiring")
    /\ UNCHANGED <<gateVars, admission, cacheVars, loopVars, giving>>

\* The blocks asked for are looked up.
Ask(c, r) ==
    /\ pc[c] = "expiring" /\ Swept(c)
    /\ todo' = [todo EXCEPT ![c] = r]
    /\ PcTo(c, "wait")
    /\ UNCHANGED <<gateVars, admission, cacheVars, starting, acquired, sweepVars>>

\* Mutant of FreeAdmission: the exception keeps the lock.
FreeAdmissionNot(p) == UNCHANGED admission

FreeAdmission(p) == admission' = NoOne

\* The exception leaves acquire.
Unwound(c) ==
    /\ pc[c] = "unwind" /\ Swept(c)
    /\ FreeAdmission(c)
    /\ PcTo(c, "done")
    /\ UNCHANGED <<gateVars, cacheVars, loopVars, sweepVars>>

\* The lease is registered and given to the caller.
Register(c) ==
    /\ pc[c] = "grant"
    /\ leases' = Append(leases, c)
    /\ PcTo(c, "holding")
    /\ UNCHANGED <<started, closed, stale, admission, cacheVars, loopVars, sweepVars>>

\* The caller releases its lease, which may have expired.
Release(c) ==
    /\ pc[c] = "holding"
    /\ sweep' = [sweep EXCEPT ![c] = <<c>>]
    /\ PcTo(c, "releasing")
    /\ UNCHANGED <<gateVars, admission, cacheVars, loopVars, giving>>

Released(c) ==
    /\ pc[c] = "releasing" /\ Swept(c)
    /\ PcTo(c, "done")
    /\ UNCHANGED <<gateVars, admission, cacheVars, loopVars, sweepVars>>

\* The oldest lease that is not stale yet becomes so.
TimeOut(l) ==
    /\ \E i \in DOMAIN leases :
         /\ leases[i] = l /\ l \notin stale
         /\ \A j \in 1 .. i - 1 : leases[j] \in stale
    /\ stale' = stale \cup {l}
    /\ UNCHANGED <<started, closed, leases, admission, cacheVars, pc, loopVars,
                   sweepVars>>
-----------------------------------------------------------------------------
(* The with statement                                                      *)

Enter ==
    /\ pc[Main] = "idle"
    /\ PcTo(Main, "start")
    /\ UNCHANGED <<gateVars, admission, cacheVars, loopVars, sweepVars>>

Exit ==
    /\ pc[Main] = "open"
    /\ PcTo(Main, "close")
    /\ UNCHANGED <<gateVars, admission, cacheVars, loopVars, sweepVars>>
-----------------------------------------------------------------------------
Init ==
    /\ started = FALSE /\ closed = FALSE
    /\ leases = <<>> /\ stale = {}
    /\ admission = NoOne
    /\ entries = [b \in {} |-> [pinned |-> FALSE, leases |-> 0]]
    /\ reservation = [p \in Procs |-> NoOne]
    /\ cache_leases = {}
    /\ pc = [p \in Procs |-> "idle"]
    /\ starting = {}
    /\ todo = [p \in Procs |-> <<>>]
    /\ acquired = [p \in Procs |-> <<>>]
    /\ sweep = [p \in Procs |-> <<>>]
    /\ giving = [p \in Procs |-> <<>>]

\* What a thread inside the gate does.
Load(p) ==
    \/ LockAdmission(p) \/ Skip(p) \/ Hit(p) \/ LoadFails(p) \/ LeaseNew(p)
    \/ \E b \in Blocks : Reserve(p, b) \/ NoRoom(p, b) \/ Commit(p, b)
                        \/ NotLeased(p, b)
    \/ LoopDone(p)

Inside(p) ==
    \/ CheckStart(p) \/ Load(p) \/ MarkStarted(p)
    \/ Pop(p) \/ GiveBack(p)
    \/ CloseCheck(p) \/ Clear(p) \/ Shut(p)

Acquiring(c) ==
    \/ Expire(c) \/ \E r \in Requests : Ask(c, r)
    \/ Unwound(c) \/ Register(c) \/ Released(c)

Next ==
    \/ \E p \in Procs : Inside(p)
    \/ \E c \in Callers : Call(c) \/ Acquiring(c) \/ Release(c) \/ TimeOut(c)
    \/ Enter \/ Exit

\* A thread inside the gate runs on; nobody has to enter, call, release or
\* leave.
Spec ==
    /\ Init /\ [][Next]_vars
    /\ \A p \in Procs : WF_vars(Inside(p))
    /\ \A c \in Callers : WF_vars(Acquiring(c))
-----------------------------------------------------------------------------
(* Properties                                                              *)

TypeOK ==
    /\ started \in BOOLEAN /\ closed \in BOOLEAN
    /\ leases \in Seq(Callers) /\ stale \subseteq ToSet(leases)
    /\ admission \in Procs \cup {NoOne}
    /\ Resident \subseteq Blocks
    /\ \A b \in Resident : entries[b] \in [pinned : BOOLEAN, leases : Nat]
    /\ reservation \in [Procs -> Blocks \cup {NoOne}]
    /\ starting \subseteq Procs
    /\ todo \in [Procs -> Seq(Blocks)] /\ acquired \in [Procs -> Seq(Blocks)]
    /\ cache_leases \subseteq Callers \X Nat
    /\ \A t \in cache_leases : t[2] \in DOMAIN acquired[t[1]]
    /\ giving \in [Procs -> Seq(Callers \X Nat)]
    /\ pc \in [Procs -> {"idle", "start", "wait", "load", "read", "lease", "mark",
                        "unwind", "expire", "expiring", "grant", "holding",
                        "releasing", "open", "close", "closing", "shut", "done"}]

\* Some thread has begun to close the gate.
Closing == closed \/ \E p \in Procs : pc[p] \in {"closing", "shut"}

\* The lease count of every entry is exact, and every cache lease names a
\* resident block, whatever releases, expiries, failed admissions and a close
\* that clears the tables in between: cache.release never finds its block
\* unavailable and never takes a count below zero.
LeasesExact ==
    /\ \A t \in cache_leases : BlockOf(t) \in Resident
    /\ \A b \in Resident :
         entries[b].leases = Cardinality({t \in cache_leases : BlockOf(t) = b})

\* Resident and reserved bytes fit the budget ("no hidden overcommit",
\* cache.py), and expert blocks the slots, also when a close drops
\* reservations that are still being filled.
BudgetKept ==
    /\ BytesOf(BlockLength, Resident) + BytesOf(BlockLength, Reserved) <= Capacity
    /\ Cardinality((Resident \cup Reserved) \cap Experts) <= MaxExperts

\* A cache lease is always on somebody's list: of a registered lease, of an
\* acquire under way, or of a release under way.  None outlives its users and
\* pins its block for ever.
NoLeakedLease ==
    \A t \in cache_leases :
        \/ t[1] \in ToSet(leases)
        \/ pc[t[1]] \in {"load", "read", "lease", "grant"}
        \/ \E p \in Procs : t \in ToSet(giving[p])

\* Until the gate is closed, a caller whose lease has not expired finds all
\* its blocks resident, whatever other callers load and evict.
HeldIsResident ==
    ~Closing =>
        \A c \in Callers :
            c \in ToSet(leases) \/ pc[c] = "grant" =>
                ToSet(acquired[c]) \subseteq Resident

\* Every start, acquire, release and close comes to an end; no failure leaves
\* a lock behind.
CallsEnd ==
    \A p \in Procs :
        pc[p] \notin {"idle", "holding", "open", "done"}
            ~> pc[p] \in {"holding", "open", "done"}

\* A caller that has not released its lease still has its blocks, as long as
\* nobody closes the gate ("hold them until explicit release", external.py).
HeldUntilRelease ==
    ~Closing =>
        \A c \in Callers : pc[c] = "holding" => ToSet(acquired[c]) \subseteq Resident
=============================================================================
