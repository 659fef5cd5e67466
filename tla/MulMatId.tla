------------------------------ MODULE MulMatId ------------------------------
(***************************************************************************)
(* The CPU workers of a GGML graph computing MoE matrix products           *)
(* (ggml_compute_forward_mul_mat_id) on weights that the expert provider   *)
(* of mmb_ggml_bridge.cpp leases from the pager.                           *)
(*                                                                         *)
(* All workers run the same code for the same nodes of the graph, one      *)
(* barrier after the other.  Worker 0 alone groups the routed rows, opens  *)
(* the provider's operation and closes it; every worker computes chunks    *)
(* through the raw pointers worker 0 published in the shared work buffer,  *)
(* which the next operation reuses.                                        *)
(*                                                                         *)
(* The pager is the abstract LeaseStore that MMBPager implements; no one   *)
(* else uses a runtime's pager.  The graph is MaxOps consecutive products  *)
(* of one layer.  A failed GGML_ASSERT aborts the process.                 *)
(***************************************************************************)
EXTENDS LeaseStore, Integers, FiniteSets, Chunking

CONSTANTS
    NWorkers,   \* nth
    NRows,      \* nr0, rows of an expert's matrix
    RowCounts,  \* numbers of rows the router may give one expert
    MaxOps,     \* products in the graph
    Numa        \* ggml_is_numa()

Workers == 0 .. NWorkers - 1
Ops == 0 .. MaxOps - 1
NExperts == Cardinality(Block)

ASSUME MulMatIdAssumption ==
    /\ NWorkers \in Nat \ {0} /\ NRows \in Nat \ {0} /\ MaxOps \in Nat
    /\ IsFiniteSet(Block) /\ Block = 0 .. NExperts - 1
    /\ RowCounts \subseteq Nat /\ 0 \in RowCounts
    /\ LeaseId = Ops /\ Numa \in BOOLEAN

VARIABLES
    arrived,     \* arrived[w]: barriers worker w has entered
    passed,      \* passed[w]: barriers worker w has left
    stage,       \* worker 0 in its set-up: "group", "begin" or "ready"
    slices,      \* slices[w]: the operation whose activations w converted last
    rows,        \* matrix_row_counts
    op_context,  \* *moe_op_context, the lease of the open operation
    expert_data, \* the experts whose moe_expert_data is set
    chunk_ctr,   \* atomic_current_chunk
    cur_a,       \* cur_a[w]: the expert w computes
    chunk,       \* chunk[w]: current_chunk of w
    computed,    \* the chunks computed in the current product
    paged,       \* the products recorded by record_paged_kernel
    aborted      \* a GGML_ASSERT failed

bufferVars == <<slices, rows, op_context, expert_data, chunk_ctr>>
workVars == <<cur_a, chunk, computed>>
opVars == <<arrived, passed, stage, bufferVars, workVars, paged, aborted>>
vars == <<storeVars, opVars>>

NoContext == -1

\* Each node has four barriers: three inside the product and the graph's own.
Op(w) == passed[w] \div 4
Segment(w) == passed[w] % 4
Runs(w, segment) ==
    /\ ~aborted
    /\ Op(w) \in Ops /\ Segment(w) = segment
    /\ arrived[w] = passed[w]

\* ggml_barrier, entered.
Arrive(w) == arrived' = [arrived EXCEPT ![w] = @ + 1]

Used == {e \in Block : rows[e] > 0}

\* The next expert with rows from e on, or NExperts when there is none.
FromExpert(e) ==
    LET later == {u \in Used : u >= e}
    IN  IF later = {} THEN NExperts
        ELSE CHOOSE u \in later : \A v \in later : u <= v

ChunksOf(e) == NChunks(NRows, rows[e], NWorkers, Numa)

AllChunks == UNION {{e} \X (0 .. ChunksOf(e) - 1) : e \in Used}
-----------------------------------------------------------------------------
(* Set-up: up to the first barrier                                         *)

\* The counters that worker w resets: each starts after the workers' own
\* first chunks.
ResetCounters(w) ==
    chunk_ctr' = [e \in Block |-> IF e % NWorkers = w THEN NWorkers
                                                      ELSE chunk_ctr[e]]

\* Worker w other than 0 converts its slice of the activations and resets its
\* counters.
SetUp(w) ==
    /\ w # 0 /\ Runs(w, 0)
    /\ slices' = [slices EXCEPT ![w] = Op(w)]
    /\ ResetCounters(w)
    /\ Arrive(w)
    /\ UNCHANGED <<storeVars, passed, stage, rows, op_context, expert_data,
                   workVars, paged, aborted>>

\* Worker 0 converts its slice and groups the rows by expert.  handled: a
\* provider is registered and the tensor's name is one of its experts'.
Group(counts, handled) ==
    /\ Runs(0, 0) /\ stage = "group"
    /\ \E e \in Block : counts[e] > 0
    /\ slices' = [slices EXCEPT ![0] = Op(0)]
    /\ rows' = counts
    /\ op_context' = NoContext
    /\ expert_data' = {}
    /\ computed' = {}
    /\ stage' = IF handled THEN "begin" ELSE "ready"
    /\ UNCHANGED <<storeVars, arrived, passed, chunk_ctr, cur_a, chunk, paged,
                   aborted>>

\* Inside provider_begin the pager loads and evicts.
Page ==
    /\ Runs(0, 0) /\ stage = "begin"
    /\ \E b \in Block : Load(b) \/ Drop(b)
    /\ UNCHANGED opVars

\* provider_begin returns the operation, and get a pointer per used expert.
Begin ==
    /\ Runs(0, 0) /\ stage = "begin"
    /\ Grant(Op(0), Used)
    /\ op_context' = Op(0)
    /\ expert_data' = Used
    /\ stage' = "ready"
    /\ UNCHANGED <<arrived, passed, slices, rows, chunk_ctr, workVars, paged,
                   aborted>>

\* The acquire throws, or a segment does not have the tensor's stride and the
\* lease is destroyed again: begin returns -1.
BeginFails ==
    /\ Runs(0, 0) /\ stage = "begin"
    /\ Refuse(Op(0))
    /\ aborted' = TRUE
    /\ UNCHANGED <<arrived, passed, stage, bufferVars, workVars, paged>>

SetUpZero ==
    /\ Runs(0, 0) /\ stage = "ready"
    /\ ResetCounters(0)
    /\ stage' = "group"
    /\ Arrive(0)
    /\ UNCHANGED <<storeVars, passed, slices, rows, op_context, expert_data,
                   workVars, paged, aborted>>
-----------------------------------------------------------------------------
(* The barriers                                                            *)

\* Mutant of AllArrived: the barrier opens before the last worker is there.
OneMayBeMissing(w) ==
    Cardinality({u \in Workers : arrived[u] >= arrived[w]}) >= NWorkers - 1

AllArrived(w) == \A u \in Workers : arrived[u] >= arrived[w]

\* ggml_barrier, left.  After the first barrier the loop over experts begins.
Pass(w) ==
    /\ ~aborted
    /\ arrived[w] > passed[w] /\ AllArrived(w)
    /\ passed' = [passed EXCEPT ![w] = arrived[w]]
    /\ IF arrived[w] % 4 = 1
       THEN /\ cur_a' = [cur_a EXCEPT ![w] = FromExpert(0)]
            /\ chunk' = [chunk EXCEPT ![w] = w]
       ELSE UNCHANGED <<cur_a, chunk>>
    /\ UNCHANGED <<storeVars, arrived, stage, bufferVars, computed, paged,
                   aborted>>
-----------------------------------------------------------------------------
(* Between the first and the second barrier: the chunks                    *)

Busy(w) ==
    /\ Runs(w, 1)
    /\ cur_a[w] < NExperts /\ chunk[w] < ChunksOf(cur_a[w])

\* The loop over experts goes on to the next one with rows.
NextExpert(w) ==
    /\ cur_a' = [cur_a EXCEPT ![w] = FromExpert(@ + 1)]
    /\ chunk' = [chunk EXCEPT ![w] = w]

\* Mutant of Claim: the counter is read and not advanced.
ClaimWithoutAdd(w) ==
    /\ chunk' = [chunk EXCEPT ![w] = chunk_ctr[cur_a[w]]]
    /\ UNCHANGED <<chunk_ctr, cur_a>>

\* atomic_fetch_add: the next chunk nobody has taken.
Claim(w) ==
    /\ chunk' = [chunk EXCEPT ![w] = chunk_ctr[cur_a[w]]]
    /\ chunk_ctr' = [chunk_ctr EXCEPT ![cur_a[w]] = @ + 1]
    /\ UNCHANGED cur_a

\* Worker w finishes its chunk; it looks for another one unless the workers'
\* own first chunks were all there are.
Compute(w) ==
    /\ Busy(w)
    /\ computed' = computed \cup {<<cur_a[w], chunk[w]>>}
    /\ IF NWorkers >= ChunksOf(cur_a[w])
       THEN NextExpert(w) /\ UNCHANGED chunk_ctr
       ELSE Claim(w)
    /\ UNCHANGED <<storeVars, arrived, passed, stage, slices, rows, op_context,
                   expert_data, paged, aborted>>

\* No chunk of this expert is left for w.
LeaveExpert(w) ==
    /\ Runs(w, 1) /\ cur_a[w] < NExperts /\ ~Busy(w)
    /\ NextExpert(w)
    /\ UNCHANGED <<storeVars, arrived, passed, stage, bufferVars, computed,
                   paged, aborted>>

\* Mutant of ChunksDone: the worker leaves with its last expert unfinished.
ChunksAbandoned(w) == Runs(w, 1) /\ FromExpert(cur_a[w] + 1) = NExperts

ChunksDone(w) == Runs(w, 1) /\ cur_a[w] >= NExperts

FinishChunks(w) ==
    /\ ChunksDone(w)
    /\ Arrive(w)
    /\ UNCHANGED <<storeVars, passed, stage, bufferVars, workVars, paged,
                   aborted>>
-----------------------------------------------------------------------------
(* After the second barrier                                                *)

\* Mutant of Commit: the kernel is recorded, the lease kept.
CommitKeepsLease ==
    /\ paged' = paged \cup {op_context}
    /\ UNCHANGED storeVars

\* commit_after_compute.
Commit ==
    /\ paged' = paged \cup {op_context}
    /\ GiveBack(op_context)

\* Worker 0 closes the operation, if one is open: provider_end.
End ==
    /\ Runs(0, 2)
    /\ IF op_context # NoContext THEN Commit ELSE UNCHANGED <<storeVars, paged>>
    /\ op_context' = NoContext
    /\ Arrive(0)
    /\ UNCHANGED <<passed, stage, slices, rows, expert_data, chunk_ctr,
                   workVars, aborted>>

\* Nothing to do before the next barrier: the other workers between the
\* second and the third, and all of them before the graph's.
GoOn(w) ==
    /\ Runs(w, 3) \/ (w # 0 /\ Runs(w, 2))
    /\ Arrive(w)
    /\ UNCHANGED <<storeVars, passed, stage, bufferVars, workVars, paged,
                   aborted>>
-----------------------------------------------------------------------------
Init ==
    /\ StoreInit
    /\ arrived = [w \in Workers |-> 0]
    /\ passed = [w \in Workers |-> 0]
    /\ stage = "group"
    /\ slices = [w \in Workers |-> -1]
    /\ rows = [e \in Block |-> 0]
    /\ op_context = NoContext
    /\ expert_data = {}
    /\ chunk_ctr = [e \in Block |-> 0]
    /\ cur_a = [w \in Workers |-> 0]
    /\ chunk = [w \in Workers |-> 0]
    /\ computed = {} /\ paged = {} /\ aborted = FALSE

\* What worker w does; the pager's paging is not among it.
Work(w) ==
    \/ SetUp(w)
    \/ /\ w = 0
       /\ \/ \E counts \in [Block -> RowCounts], h \in BOOLEAN : Group(counts, h)
          \/ Begin \/ BeginFails \/ SetUpZero \/ End
    \/ Compute(w) \/ LeaveExpert(w) \/ FinishChunks(w)
    \/ GoOn(w) \/ Pass(w)

\* The graph is computed, or the process is gone.
GraphDone == \A w \in Workers : Op(w) = MaxOps

Stopped == (GraphDone \/ aborted) /\ UNCHANGED vars

Next == (\E w \in Workers : Work(w)) \/ Page \/ Stopped

\* Workers are threads of the pool, all of them scheduled.  provider_begin
\* answers some time: MMBPager's critical section ends.
Spec == Init /\ [][Next]_vars /\ \A w \in Workers : WF_vars(Work(w))
-----------------------------------------------------------------------------
(* Properties                                                              *)

TypeOK ==
    /\ StoreTypeOK
    /\ arrived \in [Workers -> Nat] /\ passed \in [Workers -> Nat]
    /\ stage \in {"group", "begin", "ready"}
    /\ slices \in [Workers -> Ops \cup {-1}]
    /\ rows \in [Block -> RowCounts]
    /\ op_context \in LeaseId \cup {NoContext}
    /\ expert_data \subseteq Block
    /\ chunk_ctr \in [Block -> Nat]
    /\ cur_a \in [Workers -> 0 .. NExperts]
    /\ chunk \in [Workers -> Nat]
    /\ computed \subseteq Block \X Nat
    /\ paged \subseteq LeaseId
    /\ aborted \in BOOLEAN

\* A worker that computes a chunk through a provider pointer reads a block
\* that is in memory, under the lease of the very product it computes; the
\* operation is closed, and its blocks become evictable, only after the last
\* worker has left its last chunk.
PointersLeased ==
    \A w \in Workers :
        Busy(w) /\ cur_a[w] \in expert_data =>
            /\ op_context = Op(w)
            /\ cur_a[w] \in granted[op_context] \cap resident

\* The work buffer belongs to one product: while a worker computes, every
\* slice of the activations is that product's, converted by now and not yet
\* overwritten by a worker that has run ahead.
BufferOfThisProduct ==
    \A w \in Workers : Busy(w) =>
        \A u \in Workers : slices[u] = Op(w) /\ Op(u) = Op(w)

\* No chunk is computed twice or by two workers at once.
ChunkTakenOnce ==
    \A w \in Workers : Busy(w) =>
        /\ <<cur_a[w], chunk[w]>> \notin computed
        /\ \A u \in Workers :
             Busy(u) /\ u # w /\ cur_a[u] = cur_a[w] => chunk[u] # chunk[w]

\* Once a product has its second barrier behind it every chunk of every used
\* expert has been computed; in particular a paged kernel is recorded only
\* for a complete product.
ProductComplete ==
    \A w \in Workers :
        Op(w) \in Ops /\ Op(w) = slices[0] /\ Segment(w) >= 2 =>
            computed = AllChunks

\* A lease that was granted and returned was recorded as a paged kernel, and
\* no other: the metric counts exactly the products computed from leases.
PagedAreServed ==
    \A l \in LeaseId :
        l \in paged <=> phase[l] = "closed" /\ ~(aborted /\ Op(0) = l)

\* Every graph comes to its end or is aborted by an assertion: no worker waits
\* for ever at a barrier.
GraphEnds == <>(GraphDone \/ aborted)
=============================================================================
