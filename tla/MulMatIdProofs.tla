--------------------------- MODULE MulMatIdProofs ---------------------------
(***************************************************************************)
(* Safety of the shared expert product for any number of workers, experts, *)
(* rows, products, and whatever the router and the pager choose.           *)
(*                                                                         *)
(* The inductive invariant IInv starts from what barriers give             *)
(* (BarriersAgree): no worker has left a barrier that another one has not  *)
(* entered.  So the set-up of a product, its chunks and its end never      *)
(* overlap, which is all that the work buffer, the operation's lease and   *)
(* the chunk counters have instead of locks.                               *)
(*                                                                         *)
(* The last part is about the chunks themselves: those of a product cover  *)
(* its output and do not overlap, for a product of any shape               *)
(* (ChunksPartition) and so in every one that is met (OutputPartitioned).  *)
(***************************************************************************)
EXTENDS MulMatId, ChunkingMC, TLAPS, FiniteSetTheorems, WellFoundedInduction

\* A worker has passed a barrier it has entered, or is waiting in it; nobody has
\* passed one that another has not entered.
BarriersAgree ==
    \A w, u \in Workers :
        /\ passed[w] <= arrived[w] /\ arrived[w] <= passed[w] + 1
        /\ passed[w] <= arrived[u]

\* A worker that has entered a barrier of a product has converted its slice
\* for it; worker 0 converts its slice first and then opens the operation.
SlicesAgree ==
    /\ \A w \in Workers :
         arrived[w] > 0 /\ (w = 0 => stage = "group") =>
           slices[w] = (arrived[w] - 1) \div 4
    /\ stage # "group" =>
         /\ arrived[0] = passed[0] /\ Segment(0) = 0
         /\ Op(0) \in Ops /\ slices[0] = Op(0)

\* Worker 0 has begun the operation of a product and not yet ended it.
Open == stage = "ready" \/ (stage = "group" /\ arrived[0] % 4 \in {1, 2})

\* The operation that is open, if any, holds the one lease, on worker 0's experts.
LeaseAgrees ==
    /\ \A l \in LeaseId :
         /\ phase[l] = "granted" <=> op_context = l
         /\ phase[l] # "granted" => granted[l] = {}
         /\ granted[l] \subseteq resident
    /\ op_context # NoContext =>
         Open /\ op_context = slices[0] /\ granted[op_context] = expert_data
    /\ Open /\ op_context = NoContext => expert_data = {}

\* Counters are never below the workers' own first chunks once they were reset.
CountersAgree ==
    \A e \in Block : arrived[e % NWorkers] > 0 => chunk_ctr[e] >= NWorkers

\* Before a worker has passed the first barrier, nothing is taken from a counter
\* that is reset.
Started(w) == Segment(w) = 1

CountersFresh ==
    (\A w \in Workers : ~Started(w)) =>
        \A e \in Block : arrived[e % NWorkers] % 4 = 1 => chunk_ctr[e] = NWorkers

\* Nothing is computed before a worker has passed the first barrier.
NothingYet == (\A w \in Workers : passed[w] <= 4 * slices[0]) => computed = {}

\* All workers are between the set-up of a product and its end.
InChunks == \A w \in Workers : arrived[w] % 4 \in {1, 2} /\ Segment(w) \in {0, 1}

\* Worker w has its own first chunk of expert e still to compute.
OwnToDo(w, e) ==
    Started(w) => cur_a[w] < e \/ (cur_a[w] = e /\ chunk[w] = w)

\* Between the barriers a worker has a chunk of its own that nobody has computed or
\* taken, and has left no chunk of an earlier expert to be given out.
WorkerAgrees(w) ==
    Started(w) =>
        /\ cur_a[w] \in Used \cup {NExperts}
        /\ arrived[w] # passed[w] => cur_a[w] = NExperts
        /\ cur_a[w] # NExperts =>
             /\ \/ chunk[w] = w
                \/ NWorkers <= chunk[w] /\ chunk[w] < chunk_ctr[cur_a[w]]
             /\ <<cur_a[w], chunk[w]>> \notin computed
             /\ \A u \in Workers :
                  u # w /\ Started(u) /\ cur_a[u] = cur_a[w] => chunk[u] # chunk[w]
        /\ \A e \in Used : e < cur_a[w] =>
             NWorkers >= ChunksOf(e) \/ chunk_ctr[e] >= ChunksOf(e)

\* A computed chunk is no worker's own still to do, and was given out.
ComputedAgrees(e, c) ==
    <<e, c>> \in computed =>
        IF c \in Workers THEN ~OwnToDo(c, e) ELSE c < chunk_ctr[e]

\* A chunk that is not computed is a worker's own, not yet given out, or taken.
PendingAgrees(e, c) ==
    <<e, c>> \notin computed =>
        \/ IF c \in Workers THEN OwnToDo(c, e) ELSE c >= chunk_ctr[e]
        \/ \E w \in Workers : Started(w) /\ cur_a[w] = e /\ chunk[w] = c

\* Chunks of a product are to be given out, taken, or computed.
ChunksAgree ==
    InChunks =>
        /\ \A w \in Workers : WorkerAgrees(w)
        /\ computed \subseteq AllChunks
        /\ \A e \in Used : \A c \in 0 .. ChunksOf(e) - 1 :
             ComputedAgrees(e, c) /\ PendingAgrees(e, c)

IInv ==
    /\ TypeOK /\ BarriersAgree /\ SlicesAgree /\ LeaseAgrees /\ PagedAreServed
    /\ CountersAgree /\ CountersFresh /\ NothingYet /\ ChunksAgree /\ ProductComplete
-----------------------------------------------------------------------------
(* The operators of the model                                              *)

\* A non-empty set of natural numbers has a smallest element.
LEMMA Smallest ==
    ASSUME NEW S \in SUBSET Nat, S # {}
    PROVE  \E x \in S : \A y \in S : x <= y
<1> DEFINE Less == {xy \in Nat \X Nat : xy[1] < xy[2]}
<1>1. IsWellFoundedOn(Less, Nat)
  BY NatLessThanWellFounded DEF OpToRel
<1> HIDE DEF Less
<1>2. PICK x \in S : \A y \in S : ~(<<y, x>> \in Less)
  BY <1>1, WFMin
<1>3. ASSUME NEW y \in S
      PROVE  x <= y
  <2>1. x \in Nat /\ y \in Nat /\ ~(<<y, x>> \in Less)
    BY <1>2
  <2>2. ~(y < x)
    BY <2>1 DEF Less
  <2>3. QED
    BY <2>1, <2>2
<1>4. QED
  BY <1>3

\* What the assumption says, with the sets of the model spelled out.
LEMMA Sizes ==
    /\ NExperts \in Nat /\ Block = 0 .. NExperts - 1
    /\ NWorkers \in Nat \ {0} /\ 0 \in Workers /\ Workers \subseteq Nat
    /\ MaxOps \in Nat /\ LeaseId = Ops /\ NoContext \notin Ops
BY MulMatIdAssumption, FS_CardinalityType DEF NExperts, Workers, Ops, NoContext

\* FromExpert finds the next expert with rows and skips none.
LEMMA NextUsed ==
    ASSUME NEW e \in Nat
    PROVE  /\ FromExpert(e) \in Used \cup {NExperts}
           /\ FromExpert(e) \in 0 .. NExperts
           /\ FromExpert(e) # NExperts => FromExpert(e) >= e
           /\ \A u \in Used : u >= e => FromExpert(e) <= u
<1> DEFINE later == {u \in Used : u >= e}
<1>1. /\ NExperts \in Nat /\ Used \subseteq Nat
      /\ \A u \in Used : u \in Nat /\ u < NExperts
  BY Sizes DEF Used
<1>2. CASE later = {}
  BY <1>1, <1>2 DEF FromExpert
<1>3. CASE later # {}
  <2>1. \E u \in later : \A v \in later : u <= v
    <3>1. later \in SUBSET Nat
      BY <1>1
    <3> HIDE DEF later
    <3>2. QED
      BY <1>3, <3>1, Smallest
  <2>2. FromExpert(e) = CHOOSE u \in later : \A v \in later : u <= v
    BY <1>3 DEF FromExpert
  <2>3. FromExpert(e) \in later /\ \A v \in later : FromExpert(e) <= v
    BY <2>1, <2>2
  <2>4. \A u \in Used : u >= e => u \in later
    OBVIOUS
  <2>5. FromExpert(e) \in Used /\ FromExpert(e) >= e
    BY <2>3
  <2>6. FromExpert(e) \in 0 .. NExperts
    <3>1. FromExpert(e) \in Nat
      BY <1>1, <2>5
    <3>2. FromExpert(e) < NExperts
      BY <1>1, <2>5
    <3>3. QED
      BY <1>1, <3>1, <3>2
  <2>7. QED
    BY <2>3, <2>4, <2>5, <2>6
<1>4. QED
  BY <1>2, <1>3

\* The number of chunks is a number.
LEMMA ChunksType ==
    ASSUME TypeOK, NEW e \in Block
    PROVE  ChunksOf(e) \in Nat
<1> DEFINE nr1 == rows[e]
           size == ChunkSize(NRows, nr1)
           n0 == CeilDiv(NRows, size)
           n1 == CeilDiv(nr1, size)
<1>1. NRows \in Nat /\ nr1 \in Nat /\ NWorkers \in Nat \ {0}
  BY MulMatIdAssumption DEF TypeOK
<1>2. size \in {16, 64}
  BY DEF ChunkSize
<1>3. n0 \in Nat /\ n1 \in Nat
  BY <1>1, <1>2 DEF CeilDiv
<1> HIDE DEF n0, n1
<1>4. Grid(NRows, nr1, NWorkers, Numa) \in {<<n0, n1>>, <<NWorkers, 1>>, <<1, NWorkers>>}
  BY DEF Grid, n0, n1
<1>5. ChunksOf(e) \in {n0 * n1, NWorkers * 1, 1 * NWorkers}
  BY <1>4 DEF ChunksOf, NChunks
<1>6. n0 * n1 \in Nat /\ NWorkers * 1 \in Nat /\ 1 * NWorkers \in Nat
  BY <1>1, <1>3
<1>7. QED
  BY <1>5, <1>6

\* The chunks of a product are those of the experts in use.
LEMMA ChunkIn ==
    ASSUME NEW e, NEW c
    PROVE  <<e, c>> \in AllChunks <=> e \in Used /\ c \in 0 .. ChunksOf(e) - 1
BY DEF AllChunks
-----------------------------------------------------------------------------
(* Steps and barriers                                                      *)

\* The disjuncts of Next, sorted by who takes the step.
LEMMA Steps ==
    ASSUME [Next]_vars
    PROVE  \/ \E w \in Workers :
                \/ SetUp(w) \/ Compute(w) \/ LeaveExpert(w) \/ FinishChunks(w)
                \/ GoOn(w) \/ Pass(w)
           \/ \E counts \in [Block -> RowCounts], h \in BOOLEAN : Group(counts, h)
           \/ Begin \/ BeginFails \/ SetUpZero \/ End \/ Page \/ UNCHANGED vars
BY DEF Next, Work, Stopped

\* A worker may enter a barrier, or leave one, or do neither.
Enters(w) == arrived[w] = passed[w] /\ Arrive(w) /\ UNCHANGED passed

\* No step does more to the barriers than let one worker in or out.
LEMMA BarrierSteps ==
    ASSUME [Next]_vars
    PROVE  \/ \E w \in Workers : Enters(w) \/ Pass(w)
           \/ UNCHANGED <<arrived, passed>>
<1>1. ASSUME NEW w \in Workers, SetUp(w) \/ FinishChunks(w) \/ GoOn(w)
      PROVE  Enters(w)
  BY <1>1 DEF SetUp, FinishChunks, ChunksDone, GoOn, Enters, Runs
<1>2. ASSUME SetUpZero \/ End
      PROVE  0 \in Workers /\ Enters(0)
  BY <1>2, Sizes DEF SetUpZero, End, Enters, Runs
<1>3. ASSUME NEW w \in Workers, Compute(w) \/ LeaveExpert(w)
      PROVE  UNCHANGED <<arrived, passed>>
  BY <1>3 DEF Compute, LeaveExpert
<1>4. ASSUME NEW counts, NEW h, Group(counts, h)
      PROVE  UNCHANGED <<arrived, passed>>
  BY <1>4 DEF Group
<1>5. ASSUME Begin \/ BeginFails \/ Page \/ UNCHANGED vars
      PROVE  UNCHANGED <<arrived, passed>>
  BY <1>5 DEF Begin, BeginFails, Page, opVars, vars
<1>6. QED
  BY <1>1, <1>2, <1>3, <1>4, <1>5, Steps

\* A worker that leaves a barrier has been waited for: no other is behind.
LEMMA BarriersStep == IInv /\ [Next]_vars => BarriersAgree'
<1> SUFFICES ASSUME IInv, [Next]_vars
             PROVE  BarriersAgree'
  OBVIOUS
<1>1. /\ arrived \in [Workers -> Nat] /\ passed \in [Workers -> Nat]
      /\ BarriersAgree
  BY DEF IInv, TypeOK
<1>2. ASSUME NEW w \in Workers, Enters(w)
      PROVE  BarriersAgree'
  BY <1>1, <1>2 DEF Enters, Arrive, BarriersAgree
<1>3. ASSUME NEW w \in Workers, Pass(w)
      PROVE  BarriersAgree'
  <2>1. /\ passed' = [passed EXCEPT ![w] = arrived[w]] /\ arrived' = arrived
        /\ \A u \in Workers : arrived[u] >= arrived[w]
    BY <1>3 DEF Pass, AllArrived
  <2>2. QED
    BY <1>1, <2>1 DEF BarriersAgree
<1>4. CASE UNCHANGED <<arrived, passed>>
  BY <1>1, <1>4 DEF BarriersAgree
<1>5. QED
  BY <1>2, <1>3, <1>4, BarrierSteps

\* While a worker is between two barriers the others are there too, or have
\* entered the one before or the one after.
LEMMA Together ==
    ASSUME IInv, NEW w \in Workers, arrived[w] = passed[w], NEW u \in Workers
    PROVE  /\ arrived[w] \in Nat /\ arrived[u] \in Nat /\ passed[u] \in Nat
           /\ arrived[u] \in {arrived[w], arrived[w] + 1}
           /\ passed[u] \in {arrived[u], arrived[u] - 1}
           /\ passed[u] \in {arrived[w], arrived[w] - 1}
BY DEF IInv, TypeOK, BarriersAgree

\* While a worker computes chunks, all are between set-up and end, with the
\* same product.
LEMMA ComputingTogether ==
    ASSUME IInv, NEW w \in Workers, Runs(w, 1)
    PROVE  /\ InChunks /\ Started(w) /\ stage = "group"
           /\ \A u \in Workers : Op(u) = Op(w) /\ slices[u] = Op(w)
<1>1. /\ arrived[w] = passed[w] /\ passed[w] % 4 = 1 /\ Op(w) \in Ops
      /\ TypeOK /\ SlicesAgree /\ 0 \in Workers
  BY Sizes DEF Runs, Segment, IInv
<1>2. ASSUME NEW u \in Workers
      PROVE  /\ arrived[u] % 4 \in {1, 2} /\ Segment(u) \in {0, 1}
             /\ Op(u) = Op(w) /\ (arrived[u] - 1) \div 4 = Op(w) /\ arrived[u] > 0
  <2>1. /\ arrived[w] \in Nat /\ arrived[u] \in Nat /\ passed[u] \in Nat
        /\ arrived[u] \in {arrived[w], arrived[w] + 1}
        /\ passed[u] \in {arrived[w], arrived[w] - 1}
    BY <1>1, Together
  <2>2. arrived[w] % 4 = 1 /\ Op(w) = arrived[w] \div 4
    BY <1>1 DEF Op
  <2>3. \A n \in Nat : n % 4 = 1 =>
          /\ n > 0 /\ n + 1 > 0 /\ (n + 1) % 4 = 2 /\ (n - 1) % 4 = 0
          /\ (n - 1) \div 4 = n \div 4 /\ ((n + 1) - 1) \div 4 = n \div 4
    OBVIOUS
  <2>4. /\ arrived[u] % 4 \in {1, 2} /\ arrived[u] > 0
        /\ (arrived[u] - 1) \div 4 = arrived[w] \div 4
    BY <2>1, <2>2, <2>3
  <2>5. passed[u] % 4 \in {0, 1} /\ passed[u] \div 4 = arrived[w] \div 4
    BY <2>1, <2>2, <2>3
  <2>6. QED
    BY <2>2, <2>4, <2>5 DEF Op, Segment
<1>3. stage = "group"
  <2>1. arrived[0] % 4 \in {1, 2} /\ arrived[0] \in Nat /\ passed[0] \in Nat
    BY <1>1, <1>2 DEF TypeOK
  <2>2. stage # "group" => arrived[0] = passed[0] /\ passed[0] % 4 = 0
    BY <1>1 DEF SlicesAgree, Segment
  <2>3. QED
    BY <2>1, <2>2
<1>4. QED
  BY <1>1, <1>2, <1>3 DEF InChunks, Started, Segment, SlicesAgree
-----------------------------------------------------------------------------
(* Types, slices, the lease of the product and the metric                  *)

\* Every step keeps the types.
LEMMA TypeStep == IInv /\ [Next]_vars => TypeOK'
<1> SUFFICES ASSUME IInv, [Next]_vars
             PROVE  TypeOK'
  OBVIOUS
<1> USE DEF storeVars, bufferVars, workVars, opVars
<1>1. TypeOK
  BY DEF IInv
<1>0. ASSUME NEW w \in Workers, ResetCounters(w)
      PROVE  chunk_ctr' \in [Block -> Nat]
  BY <1>0, <1>1, Sizes DEF ResetCounters, TypeOK
<1>2. ASSUME NEW w \in Workers, SetUp(w)
      PROVE  TypeOK'
  <2>1. chunk_ctr' \in [Block -> Nat]
    BY <1>0, <1>2 DEF SetUp
  <2>2. /\ arrived' \in [Workers -> Nat]
        /\ slices' \in [Workers -> Ops \cup {-1}]
    BY <1>1, <1>2 DEF SetUp, Runs, Arrive, TypeOK
  <2>3. QED
    BY <1>1, <1>2, <2>1, <2>2 DEF SetUp, TypeOK, StoreTypeOK
<1>3. ASSUME NEW counts \in [Block -> RowCounts], NEW h \in BOOLEAN, Group(counts, h)
      PROVE  TypeOK'
  BY <1>1, <1>3, Sizes DEF Group, Runs, TypeOK, StoreTypeOK
<1>4. CASE Begin
  BY <1>1, <1>4, Sizes DEF Begin, Grant, Runs, Used, TypeOK, StoreTypeOK
<1>5. CASE BeginFails
  <2>1. /\ phase' \in [LeaseId -> {"new", "granted", "closed"}]
        /\ UNCHANGED <<resident, granted>>
    BY <1>1, <1>5 DEF BeginFails, Refuse, TypeOK, StoreTypeOK
  <2>2. QED
    BY <1>1, <1>5, <2>1 DEF BeginFails, TypeOK, StoreTypeOK
<1>6. CASE SetUpZero
  <2>0. 0 \in Workers /\ ResetCounters(0) /\ Arrive(0)
    BY <1>6, Sizes DEF SetUpZero
  <2>1. chunk_ctr' \in [Block -> Nat]
    BY <1>0, <2>0
  <2>2. arrived' \in [Workers -> Nat]
    BY <1>1, <2>0 DEF Arrive, TypeOK
  <2>3. /\ stage' = "group"
        /\ UNCHANGED <<storeVars, passed, slices, rows, op_context, expert_data,
                       workVars, paged, aborted>>
    BY <1>6 DEF SetUpZero
  <2>4. QED
    BY <1>1, <2>1, <2>2, <2>3 DEF TypeOK, StoreTypeOK
<1>7. CASE End
  <2>1. StoreTypeOK' /\ paged' \subseteq LeaseId
    <3>1. op_context # NoContext => op_context \in LeaseId
      BY <1>1 DEF TypeOK
    <3>2. CASE op_context # NoContext
      BY <1>1, <1>7, <3>1, <3>2 DEF End, Commit, GiveBack, TypeOK, StoreTypeOK
    <3>3. CASE op_context = NoContext
      BY <1>1, <1>7, <3>3 DEF End, TypeOK, StoreTypeOK
    <3>4. QED
      BY <3>2, <3>3
  <2>2. arrived' \in [Workers -> Nat]
    <3>1. Arrive(0) /\ 0 \in Workers
      BY <1>7, Sizes DEF End
    <3>2. QED
      BY <1>1, <3>1 DEF Arrive, TypeOK
  <2>3. /\ op_context' = NoContext
        /\ UNCHANGED <<passed, stage, slices, rows, expert_data, chunk_ctr, workVars,
                       aborted>>
    BY <1>7 DEF End
  <2>4. QED
    BY <1>1, <2>1, <2>2, <2>3 DEF TypeOK
<1>8. ASSUME NEW w \in Workers, NextExpert(w)
      PROVE  cur_a' \in [Workers -> 0 .. NExperts] /\ chunk' \in [Workers -> Nat]
  <2>1. cur_a[w] + 1 \in Nat /\ w \in Nat
    BY <1>1, Sizes DEF TypeOK
  <2>2. FromExpert(cur_a[w] + 1) \in 0 .. NExperts
    BY <2>1, NextUsed
  <2>3. QED
    BY <1>1, <1>8, <2>1, <2>2 DEF NextExpert, TypeOK
<1>9. ASSUME NEW w \in Workers, Compute(w)
      PROVE  TypeOK'
  <2>1. cur_a[w] \in Block
    BY <1>1, <1>9, Sizes DEF Compute, Busy, TypeOK
  <2>2. computed' \subseteq Block \X Nat
    BY <1>1, <1>9, <2>1 DEF Compute, TypeOK
  <2>3. CASE NextExpert(w) /\ UNCHANGED chunk_ctr
    BY <1>1, <1>8, <1>9, <2>2, <2>3 DEF Compute, TypeOK, StoreTypeOK
  <2>4. CASE Claim(w)
    <3>1. chunk_ctr[cur_a[w]] \in Nat
      BY <1>1, <2>1 DEF TypeOK
    <3>2. /\ chunk_ctr' \in [Block -> Nat] /\ chunk' \in [Workers -> Nat]
          /\ cur_a' = cur_a
      BY <1>1, <2>1, <2>4, <3>1 DEF Claim, TypeOK
    <3>3. QED
      BY <1>1, <1>9, <2>2, <3>2 DEF Compute, TypeOK, StoreTypeOK
  <2>5. QED
    BY <1>9, <2>3, <2>4 DEF Compute
<1>10. ASSUME NEW w \in Workers, LeaveExpert(w)
       PROVE  TypeOK'
  BY <1>1, <1>8, <1>10 DEF LeaveExpert, TypeOK, StoreTypeOK
<1>11. ASSUME NEW w \in Workers, FinishChunks(w) \/ GoOn(w)
       PROVE  TypeOK'
  BY <1>1, <1>11 DEF FinishChunks, GoOn, Arrive, TypeOK, StoreTypeOK
<1>12. ASSUME NEW w \in Workers, Pass(w)
       PROVE  TypeOK'
  <2>1. FromExpert(0) \in 0 .. NExperts /\ w \in Nat
    BY NextUsed, Sizes
  <2>2. passed' \in [Workers -> Nat]
    BY <1>1, <1>12 DEF Pass, TypeOK
  <2>3. cur_a' \in [Workers -> 0 .. NExperts] /\ chunk' \in [Workers -> Nat]
    BY <1>1, <1>12, <2>1 DEF Pass, TypeOK
  <2>4. QED
    BY <1>1, <1>12, <2>2, <2>3 DEF Pass, TypeOK, StoreTypeOK
<1>13. CASE Page
  BY <1>1, <1>13 DEF Page, Load, Drop, TypeOK, StoreTypeOK
<1>14. CASE UNCHANGED vars
  BY <1>1, <1>14 DEF vars, TypeOK, StoreTypeOK
<1>15. QED
  BY <1>2, <1>3, <1>4, <1>5, <1>6, <1>7, <1>9, <1>10, <1>11, <1>12, <1>13, <1>14,
     Steps

\* A worker converts its slice before the first barrier of a product.
LEMMA SlicesStep == IInv /\ TypeOK' /\ [Next]_vars => SlicesAgree'
<1> SUFFICES ASSUME IInv, TypeOK', [Next]_vars
             PROVE  SlicesAgree'
  OBVIOUS
<1> USE DEF storeVars, bufferVars, workVars, opVars, Op, Segment
<1>1. TypeOK /\ SlicesAgree /\ BarriersAgree /\ 0 \in Workers
  BY Sizes DEF IInv
<1>2. \A n \in Nat : /\ n % 4 = 0 => (n + 1 - 1) \div 4 = n \div 4 /\ n + 1 > 0
                     /\ n % 4 \in {1, 2, 3} =>
                          n > 0 /\ (n + 1 - 1) \div 4 = (n - 1) \div 4
  OBVIOUS
<1>3. ASSUME NEW w \in Workers, SetUp(w)
      PROVE  SlicesAgree'
  <2>1. /\ w # 0 /\ arrived[w] = passed[w] /\ passed[w] % 4 = 0 /\ passed[w] \in Nat
        /\ arrived' = [arrived EXCEPT ![w] = @ + 1]
        /\ slices' = [slices EXCEPT ![w] = passed[w] \div 4]
        /\ UNCHANGED <<passed, stage>>
    BY <1>1, <1>3 DEF SetUp, Runs, Arrive, TypeOK
  <2>2. QED
    BY <1>1, <1>2, <2>1 DEF SlicesAgree, TypeOK
<1>4. ASSUME NEW counts, NEW h, Group(counts, h)
      PROVE  SlicesAgree'
  BY <1>1, <1>4 DEF Group, Runs, SlicesAgree, TypeOK
<1>5. CASE SetUpZero
  <2>1. /\ arrived[0] = passed[0] /\ passed[0] % 4 = 0 /\ passed[0] \in Nat
        /\ slices[0] = passed[0] \div 4 /\ stage' = "group"
        /\ arrived' = [arrived EXCEPT ![0] = @ + 1]
        /\ UNCHANGED <<slices, passed>>
    BY <1>1, <1>5 DEF SetUpZero, Runs, Arrive, SlicesAgree, TypeOK
  <2>2. QED
    BY <1>1, <1>2, <2>1 DEF SlicesAgree, TypeOK
<1>6. ASSUME NEW w \in Workers, FinishChunks(w) \/ GoOn(w) \/ (w = 0 /\ End)
      PROVE  SlicesAgree'
  <2>1. /\ arrived[w] = passed[w] /\ passed[w] % 4 \in {1, 2, 3} /\ passed[w] \in Nat
        /\ arrived' = [arrived EXCEPT ![w] = @ + 1]
        /\ UNCHANGED <<slices, passed, stage>>
    BY <1>1, <1>6 DEF FinishChunks, ChunksDone, GoOn, End, Runs, Arrive, TypeOK
  <2>2. w = 0 => stage = "group"
    <3>1. stage # "group" => passed[0] % 4 = 0
      BY <1>1 DEF SlicesAgree
    <3>2. ~(passed[w] % 4 = 0)
      BY <2>1
    <3>3. QED
      BY <3>1, <3>2
  <2>3. arrived'[w] > 0 /\ (arrived'[w] - 1) \div 4 = (arrived[w] - 1) \div 4
        /\ arrived[w] > 0
    BY <1>1, <1>2, <2>1 DEF TypeOK
  <2>4. stage' # "group" => w # 0
    BY <2>1, <2>2
  <2>5. QED
    BY <1>1, <2>1, <2>2, <2>3, <2>4 DEF SlicesAgree, TypeOK
<1>7. ASSUME NEW w \in Workers, Pass(w)
      PROVE  SlicesAgree'
  BY <1>1, <1>7 DEF Pass, SlicesAgree, TypeOK
<1>8. ASSUME NEW w \in Workers, Compute(w) \/ LeaveExpert(w)
      PROVE  SlicesAgree'
  BY <1>1, <1>8 DEF Compute, LeaveExpert, SlicesAgree
<1>9. CASE Begin \/ BeginFails
  BY <1>1, <1>9 DEF Begin, BeginFails, Runs, SlicesAgree
<1>10. CASE Page \/ UNCHANGED vars
  BY <1>1, <1>10 DEF Page, vars, SlicesAgree
<1>11. QED
  BY <1>1, <1>3, <1>4, <1>5, <1>6, <1>7, <1>8, <1>9, <1>10, Steps

\* The provider's lease exists exactly while worker 0 keeps its identifier; the
\* operation ends when no worker computes any more.
LEMMA LeaseStep == IInv /\ [Next]_vars => LeaseAgrees'
<1> SUFFICES ASSUME IInv, [Next]_vars
             PROVE  LeaseAgrees'
  OBVIOUS
<1> USE DEF storeVars, bufferVars, workVars, opVars, Op, Segment
<1>1. TypeOK /\ SlicesAgree /\ LeaseAgrees
  BY DEF IInv
<1>2. 0 \in Workers /\ LeaseId = Ops /\ NoContext \notin LeaseId
  BY Sizes
<1>3. arrived[0] \in Nat /\ passed[0] \in Nat
  BY <1>1, <1>2 DEF TypeOK
<1>4. \A n \in Nat : /\ n % 4 = 0 => (n + 1) % 4 = 1
                     /\ n % 4 = 1 => (n + 1) % 4 = 2
                     /\ n % 4 = 2 => (n + 1) % 4 = 3
                     /\ n % 4 = 3 => (n + 1) % 4 = 0
  OBVIOUS
<1>5. ASSUME UNCHANGED <<storeVars, op_context, expert_data>>,
             slices'[0] = slices[0], Open' <=> Open
      PROVE  LeaseAgrees'
  BY <1>1, <1>5 DEF LeaseAgrees
<1>6. stage # "group" => passed[0] % 4 = 0
  BY <1>1 DEF SlicesAgree
<1>7. ASSUME NEW w \in Workers, SetUp(w)
      PROVE  LeaseAgrees'
  <2>1. slices'[0] = slices[0] /\ arrived'[0] = arrived[0] /\ stage' = stage
    BY <1>1, <1>2, <1>7 DEF SetUp, Arrive, TypeOK
  <2>2. QED
    BY <1>5, <1>7, <2>1 DEF SetUp, Open
<1>8. ASSUME NEW w \in Workers, FinishChunks(w) \/ GoOn(w)
      PROVE  LeaseAgrees'
  <2>1. /\ UNCHANGED <<storeVars, op_context, expert_data, slices, stage>>
        /\ w = 0 => arrived[0] = passed[0] /\ passed[0] % 4 \in {1, 3}
        /\ arrived' = [arrived EXCEPT ![w] = @ + 1]
    BY <1>8 DEF FinishChunks, ChunksDone, GoOn, Runs, Arrive
  <2>2. arrived'[0] = IF w = 0 THEN arrived[0] + 1 ELSE arrived[0]
    BY <1>1, <1>2, <2>1 DEF TypeOK
  <2>3. arrived'[0] % 4 \in {1, 2} <=> arrived[0] % 4 \in {1, 2}
    BY <1>3, <1>4, <2>1, <2>2
  <2>4. QED
    BY <1>5, <2>1, <2>3 DEF Open
<1>9. ASSUME NEW counts, NEW h, Group(counts, h)
      PROVE  LeaseAgrees'
  <2>1. stage = "group" /\ arrived[0] % 4 = 0
    BY <1>9 DEF Group, Runs
  <2>2. op_context = NoContext
    BY <1>1, <2>1 DEF LeaseAgrees, Open
  <2>3. QED
    BY <1>1, <1>9, <2>2 DEF Group, LeaseAgrees
<1>10. CASE Begin
  <2>1. /\ stage = "begin" /\ Op(0) \in LeaseId /\ slices[0] = Op(0)
        /\ op_context' = Op(0) /\ Grant(Op(0), Used) /\ expert_data' = Used
        /\ stage' = "ready" /\ slices' = slices
    BY <1>1, <1>2, <1>10 DEF Begin, Runs, SlicesAgree
  <2>2. op_context = NoContext
    BY <1>1, <2>1 DEF LeaseAgrees, Open
  <2>3. /\ phase' = [phase EXCEPT ![Op(0)] = "granted"]
        /\ granted' = [granted EXCEPT ![Op(0)] = Used]
        /\ Used \subseteq resident /\ resident' = resident
    BY <2>1 DEF Grant
  <2>4. Open' /\ op_context' # NoContext
    BY <1>2, <2>1 DEF Open
  <2> HIDE DEF Op
  <2>5. \A l \in LeaseId : phase[l] # "granted" /\ granted[l] = {}
    BY <1>1, <1>2, <2>2 DEF LeaseAgrees
  <2>6. \A l \in LeaseId :
          /\ phase'[l] = IF l = Op(0) THEN "granted" ELSE phase[l]
          /\ granted'[l] = IF l = Op(0) THEN Used ELSE {}
    BY <1>1, <2>1, <2>3, <2>5 DEF TypeOK, StoreTypeOK
  <2>7. QED
    BY <2>1, <2>3, <2>4, <2>5, <2>6 DEF LeaseAgrees
<1>11. CASE BeginFails
  <2>1. /\ Op(0) \in LeaseId /\ phase[Op(0)] = "new"
        /\ phase' = [phase EXCEPT ![Op(0)] = "closed"]
        /\ UNCHANGED <<resident, granted, arrived, passed, stage, bufferVars>>
    BY <1>2, <1>11 DEF BeginFails, Refuse, Runs
  <2> HIDE DEF Op
  <2>2. \A l \in LeaseId :
          phase'[l] = IF l = Op(0) THEN "closed" ELSE phase[l]
    BY <1>1, <2>1 DEF TypeOK, StoreTypeOK
  <2>3. \A l \in LeaseId : phase'[l] = "granted" <=> phase[l] = "granted"
    BY <2>1, <2>2
  <2>4. QED
    BY <1>1, <2>1, <2>3 DEF LeaseAgrees, Open
<1>12. CASE SetUpZero
  <2>1. /\ stage = "ready" /\ stage' = "group" /\ arrived[0] = passed[0]
        /\ passed[0] % 4 = 0
        /\ arrived' = [arrived EXCEPT ![0] = @ + 1]
        /\ UNCHANGED <<storeVars, op_context, expert_data, slices>>
    BY <1>12 DEF SetUpZero, Runs, Arrive
  <2>2. arrived'[0] % 4 = 1
    BY <1>1, <1>2, <1>3, <1>4, <2>1 DEF TypeOK
  <2>3. QED
    BY <1>5, <2>1, <2>2 DEF Open
<1>13. CASE End
  <2>1. /\ arrived[0] % 4 = 2 /\ stage' = stage /\ passed[0] % 4 = 2
        /\ arrived' = [arrived EXCEPT ![0] = @ + 1]
        /\ op_context' = NoContext
        /\ IF op_context # NoContext THEN Commit ELSE UNCHANGED storeVars
    BY <1>13 DEF End, Runs, Arrive
  <2>2. stage = "group"
    BY <1>6, <2>1
  <2>3. arrived'[0] % 4 = 3
    BY <1>1, <1>2, <1>3, <1>4, <2>1 DEF TypeOK
  <2>4. ~Open'
    BY <2>1, <2>2, <2>3 DEF Open
  <2>5. \A l \in LeaseId : /\ phase'[l] # "granted" /\ granted'[l] = {}
    <3>1. CASE op_context = NoContext
      BY <1>1, <1>2, <2>1, <3>1 DEF LeaseAgrees
    <3>2. CASE op_context # NoContext
      <4>1. /\ phase' = [phase EXCEPT ![op_context] = "closed"]
            /\ granted' = [granted EXCEPT ![op_context] = {}]
        BY <2>1, <3>2 DEF Commit, GiveBack
      <4>2. QED
        BY <1>1, <4>1 DEF LeaseAgrees, TypeOK, StoreTypeOK
    <3>3. QED
      BY <3>1, <3>2
  <2>6. QED
    BY <1>2, <2>1, <2>4, <2>5 DEF LeaseAgrees
<1>14. ASSUME NEW w \in Workers, Pass(w) \/ Compute(w) \/ LeaveExpert(w)
       PROVE  LeaseAgrees'
  BY <1>5, <1>14 DEF Pass, Compute, LeaveExpert, Open
<1>15. CASE Page
  <2>1. PICK b \in Block : Load(b) \/ Drop(b)
    BY <1>15 DEF Page
  <2>2. UNCHANGED <<arrived, stage, op_context, expert_data, slices, phase, granted>>
    BY <1>15, <2>1 DEF Page, Load, Drop
  <2>3. \A l \in LeaseId : granted[l] \subseteq resident'
    BY <1>1, <2>1 DEF Load, Drop, Pinned, LeaseAgrees
  <2>4. QED
    BY <1>1, <2>2, <2>3 DEF LeaseAgrees, Open
<1>16. CASE UNCHANGED vars
  BY <1>5, <1>16 DEF vars, Open
<1>17. QED
  BY <1>7, <1>8, <1>9, <1>10, <1>11, <1>12, <1>13, <1>14, <1>15, <1>16, Steps

\* end records a paged kernel exactly when it closes a lease.
LEMMA PagedStep == IInv /\ [Next]_vars => PagedAreServed'
<1> SUFFICES ASSUME IInv, [Next]_vars
             PROVE  PagedAreServed'
  OBVIOUS
<1> USE DEF storeVars, bufferVars, workVars, opVars
<1>1. TypeOK /\ PagedAreServed /\ LeaseId = Ops
  BY Sizes DEF IInv
<1>2. ASSUME UNCHANGED <<phase, paged>>, ~aborted, ~aborted'
      PROVE  PagedAreServed'
  BY <1>1, <1>2 DEF PagedAreServed
<1>3. ASSUME NEW w \in Workers,
             \/ SetUp(w) \/ Compute(w) \/ LeaveExpert(w) \/ FinishChunks(w)
             \/ GoOn(w) \/ Pass(w)
      PROVE  PagedAreServed'
  BY <1>2, <1>3 DEF SetUp, Compute, Busy, LeaveExpert, FinishChunks, ChunksDone, GoOn,
     Pass, Runs
<1>4. ASSUME NEW counts, NEW h, Group(counts, h)
      PROVE  PagedAreServed'
  BY <1>2, <1>4 DEF Group, Runs
<1>5. CASE SetUpZero \/ Page
  BY <1>2, <1>5 DEF SetUpZero, Page, Load, Drop, Runs
<1>6. CASE Begin
  <2>1. /\ ~aborted /\ ~aborted' /\ paged' = paged /\ Op(0) \in LeaseId
        /\ phase[Op(0)] = "new" /\ phase' = [phase EXCEPT ![Op(0)] = "granted"]
    BY <1>1, <1>6 DEF Begin, Grant, Runs
  <2>2. QED
    BY <1>1, <2>1 DEF PagedAreServed, TypeOK, StoreTypeOK
<1>7. CASE BeginFails
  <2>1. /\ ~aborted /\ aborted' /\ paged' = paged /\ Op(0) \in LeaseId
        /\ phase[Op(0)] = "new" /\ phase' = [phase EXCEPT ![Op(0)] = "closed"]
        /\ Op(0)' = Op(0)
    BY <1>1, <1>7 DEF BeginFails, Refuse, Runs, Op
  <2>2. QED
    BY <1>1, <2>1 DEF PagedAreServed, TypeOK, StoreTypeOK
<1>8. CASE End
  <2>1. ~aborted /\ ~aborted'
    BY <1>8 DEF End, Runs
  <2>2. CASE op_context = NoContext
    BY <1>2, <1>8, <2>1, <2>2 DEF End
  <2>3. CASE op_context # NoContext
    <3>1. /\ op_context \in LeaseId /\ phase[op_context] = "granted"
          /\ phase' = [phase EXCEPT ![op_context] = "closed"]
          /\ paged' = paged \cup {op_context}
      BY <1>1, <1>8, <2>3 DEF End, Commit, GiveBack, TypeOK
    <3>2. QED
      BY <1>1, <2>1, <3>1 DEF PagedAreServed, TypeOK, StoreTypeOK
  <2>4. QED
    BY <2>2, <2>3
<1>9. CASE UNCHANGED vars
  BY <1>1, <1>9 DEF vars, PagedAreServed, Op
<1>10. QED
  BY <1>3, <1>4, <1>5, <1>6, <1>7, <1>8, <1>9, Steps
-----------------------------------------------------------------------------
(* The chunks                                                              *)

\* A worker claims the next chunk of an expert that it is computing.
LEMMA Claims ==
    ASSUME TypeOK, NEW w \in Workers, Busy(w), Claim(w)
    PROVE  /\ cur_a[w] \in Block /\ chunk_ctr[cur_a[w]] \in Nat
           /\ \A u \in Workers :
                chunk'[u] = IF u = w THEN chunk_ctr[cur_a[w]] ELSE chunk[u]
           /\ \A e \in Block :
                chunk_ctr'[e] = IF e = cur_a[w] THEN chunk_ctr[e] + 1 ELSE chunk_ctr[e]
<1>1. cur_a[w] \in Block
  BY Sizes DEF Busy, TypeOK
<1>2. QED
  BY <1>1 DEF Claim, TypeOK

\* Each worker resets its counters, and chunks only make them grow.
LEMMA CountersStep == IInv /\ [Next]_vars => CountersAgree'
<1> SUFFICES ASSUME IInv, [Next]_vars
             PROVE  CountersAgree'
  OBVIOUS
<1> USE DEF storeVars, bufferVars, workVars, opVars
<1>1. TypeOK /\ CountersAgree /\ 0 \in Workers
  BY Sizes DEF IInv
<1>2. \A e \in Block : /\ e % NWorkers \in Workers /\ chunk_ctr[e] \in Nat
                       /\ arrived[e % NWorkers] \in Nat
  <2>1. \A e \in Block : e % NWorkers \in Workers
    BY Sizes DEF Workers
  <2>2. QED
    BY <1>1, <2>1 DEF TypeOK
<1>3. ASSUME NEW w \in Workers, ResetCounters(w), Arrive(w)
      PROVE  CountersAgree'
  <2>1. ASSUME NEW e \in Block, arrived'[e % NWorkers] > 0
        PROVE  chunk_ctr'[e] >= NWorkers
    <3>1. chunk_ctr'[e] = IF e % NWorkers = w THEN NWorkers ELSE chunk_ctr[e]
      BY <1>3, <2>1 DEF ResetCounters
    <3>2. e % NWorkers # w => arrived'[e % NWorkers] = arrived[e % NWorkers]
      BY <1>1, <1>2, <1>3 DEF Arrive, TypeOK
    <3> HIDE <1>3
    <3>3. QED
      BY <1>1, <2>1, <3>1, <3>2, Sizes DEF CountersAgree
  <2>2. QED
    BY <2>1 DEF CountersAgree
<1>4. ASSUME NEW w \in Workers, Runs(w, Segment(w)), Segment(w) \in {1, 2, 3},
             Arrive(w), chunk_ctr' = chunk_ctr
      PROVE  CountersAgree'
  <2>1. /\ arrived[w] \in Nat /\ arrived[w] > 0
        /\ arrived' = [arrived EXCEPT ![w] = @ + 1]
    <3>1. arrived[w] = passed[w] /\ passed[w] \in Nat /\ passed[w] % 4 \in {1, 2, 3}
      BY <1>1, <1>4 DEF Runs, Segment, TypeOK
    <3>2. passed[w] > 0
      BY <3>1
    <3>3. QED
      BY <1>4, <3>1, <3>2 DEF Arrive
  <2>2. ASSUME NEW u \in Workers, arrived'[u] > 0
        PROVE  arrived[u] > 0
    BY <1>1, <2>1, <2>2 DEF TypeOK
  <2>3. QED
    BY <1>1, <1>2, <1>4, <2>2 DEF CountersAgree
<1>5. ASSUME NEW w \in Workers, FinishChunks(w) \/ GoOn(w) \/ (w = 0 /\ End)
      PROVE  CountersAgree'
  <2>1. /\ Runs(w, Segment(w)) /\ Segment(w) \in {1, 2, 3}
        /\ Arrive(w) /\ chunk_ctr' = chunk_ctr
    BY <1>5 DEF FinishChunks, ChunksDone, GoOn, End, Runs, Segment
  <2>2. QED
    BY <1>4, <2>1
<1>6. ASSUME NEW w \in Workers, Compute(w)
      PROVE  CountersAgree'
  <2>1. arrived' = arrived
    BY <1>6 DEF Compute
  <2>2. CASE chunk_ctr' = chunk_ctr
    BY <1>1, <2>1, <2>2 DEF CountersAgree
  <2>3. CASE Claim(w)
    <3>1. \A e \in Block : chunk_ctr'[e] \in {chunk_ctr[e], chunk_ctr[e] + 1}
      BY <1>1, <1>6, <2>3, Claims DEF Compute
    <3>2. \A e \in Block : chunk_ctr'[e] \in Nat /\ chunk_ctr[e] <= chunk_ctr'[e]
      BY <1>2, <3>1
    <3>3. ASSUME NEW e \in Block, arrived'[e % NWorkers] > 0
          PROVE  chunk_ctr'[e] >= NWorkers
      <4>1. chunk_ctr[e] >= NWorkers
        BY <1>1, <2>1, <3>3 DEF CountersAgree
      <4>2. QED
        BY <1>2, <3>2, <4>1, Sizes
    <3>4. QED
      BY <3>3 DEF CountersAgree
  <2>4. QED
    BY <1>6, <2>2, <2>3 DEF Compute
<1>7. ASSUME UNCHANGED <<arrived, chunk_ctr>>
      PROVE  CountersAgree'
  BY <1>1, <1>7 DEF CountersAgree
<1>8. ASSUME NEW w \in Workers, LeaveExpert(w) \/ Pass(w)
      PROVE  CountersAgree'
  BY <1>7, <1>8 DEF LeaveExpert, Pass
<1>9. ASSUME NEW counts, NEW h, Group(counts, h)
      PROVE  CountersAgree'
  BY <1>7, <1>9 DEF Group
<1>10. CASE Begin \/ BeginFails \/ Page \/ UNCHANGED vars
  BY <1>7, <1>10 DEF Begin, BeginFails, Page, vars
<1>11. ASSUME NEW w \in Workers, SetUp(w)
       PROVE  CountersAgree'
  BY <1>3, <1>11 DEF SetUp
<1>12. CASE SetUpZero
  BY <1>1, <1>3, <1>12 DEF SetUpZero
<1>13. QED
  BY <1>1, <1>5, <1>6, <1>8, <1>9, <1>10, <1>11, <1>12, Steps

\* The first chunk of a product comes after its first barrier.
LEMMA NothingStep == IInv /\ [Next]_vars => NothingYet'
<1> SUFFICES ASSUME IInv, [Next]_vars
             PROVE  NothingYet'
  OBVIOUS
<1> USE DEF storeVars, bufferVars, workVars, opVars
<1>1. TypeOK /\ BarriersAgree /\ NothingYet /\ 0 \in Workers
  BY Sizes DEF IInv
<1>2. ASSUME slices'[0] = slices[0], UNCHANGED <<passed, computed>>
      PROVE  NothingYet'
  BY <1>1, <1>2 DEF NothingYet
<1>3. ASSUME NEW w \in Workers, SetUp(w)
      PROVE  NothingYet'
  BY <1>1, <1>2, <1>3 DEF SetUp, TypeOK
<1>4. ASSUME NEW counts, NEW h, Group(counts, h)
      PROVE  NothingYet'
  BY <1>4 DEF Group, NothingYet
<1>5. ASSUME NEW w \in Workers, Compute(w)
      PROVE  NothingYet'
  <2>1. /\ Runs(w, 1) /\ passed' = passed /\ slices' = slices
        /\ passed[w] \in Nat /\ passed[w] % 4 = 1
    BY <1>1, <1>5 DEF Compute, Busy, Runs, Segment, TypeOK
  <2>2. slices[0] = passed[w] \div 4
    BY <1>1, <2>1, ComputingTogether DEF Op
  <2>3. ~(passed[w] <= 4 * slices[0])
    BY <2>1, <2>2
  <2>4. QED
    BY <2>1, <2>3 DEF NothingYet
<1>6. ASSUME NEW w \in Workers, Pass(w)
      PROVE  NothingYet'
  <2>1. /\ passed' = [passed EXCEPT ![w] = arrived[w]]
        /\ slices' = slices /\ computed' = computed
        /\ passed[w] < arrived[w] /\ arrived[w] \in Nat
    BY <1>1, <1>6 DEF Pass, TypeOK
  <2>2. slices[0] \in Int /\ \A u \in Workers : passed[u] \in Nat
    BY <1>1 DEF TypeOK, Ops
  <2>3. ASSUME NEW u \in Workers
        PROVE  passed[u] <= passed'[u] /\ passed'[u] \in Nat
    BY <1>1, <2>1, <2>2 DEF TypeOK
  <2>4. QED
    BY <1>1, <2>1, <2>2, <2>3 DEF NothingYet
<1>7. ASSUME NEW w \in Workers, LeaveExpert(w) \/ FinishChunks(w) \/ GoOn(w)
      PROVE  NothingYet'
  BY <1>2, <1>7 DEF LeaveExpert, FinishChunks, GoOn
<1>8. CASE Begin \/ BeginFails \/ SetUpZero \/ End \/ Page \/ UNCHANGED vars
  BY <1>2, <1>8 DEF Begin, BeginFails, SetUpZero, End, Page, vars
<1>9. QED
  BY <1>3, <1>4, <1>5, <1>6, <1>7, <1>8, Steps

\* Before that barrier the counters that were reset are as they were reset.
LEMMA FreshStep == IInv /\ [Next]_vars => CountersFresh'
<1> SUFFICES ASSUME IInv, [Next]_vars
             PROVE  CountersFresh'
  OBVIOUS
<1> USE DEF storeVars, bufferVars, workVars, opVars
<1>1. TypeOK /\ BarriersAgree /\ CountersFresh /\ 0 \in Workers
  BY Sizes DEF IInv
<1>2. \A e \in Block : e % NWorkers \in Workers
  BY Sizes DEF Workers
<1>3. ASSUME NEW w \in Workers, ResetCounters(w), Arrive(w), passed' = passed
      PROVE  CountersFresh'
  <2>1. \A u \in Workers : Started(u)' = Started(u)
    BY <1>3 DEF Started, Segment
  <2>2. ASSUME NEW e \in Block, arrived'[e % NWorkers] % 4 = 1,
               \A u \in Workers : ~Started(u)
        PROVE  chunk_ctr'[e] = NWorkers
    <3>1. chunk_ctr'[e] = IF e % NWorkers = w THEN NWorkers ELSE chunk_ctr[e]
      BY <1>3, <2>2 DEF ResetCounters
    <3>2. e % NWorkers # w => arrived'[e % NWorkers] = arrived[e % NWorkers]
      BY <1>1, <1>2, <1>3 DEF Arrive, TypeOK
    <3> HIDE <1>3
    <3>3. QED
      BY <1>1, <2>2, <3>1, <3>2 DEF CountersFresh
  <2>3. QED
    BY <2>1, <2>2 DEF CountersFresh
<1>4. ASSUME NEW w \in Workers, Runs(w, Segment(w)), Segment(w) \in {1, 2, 3},
             Arrive(w), UNCHANGED <<chunk_ctr, passed>>
      PROVE  CountersFresh'
  <2>1. /\ arrived[w] \in Nat /\ arrived[w] % 4 \in {1, 2, 3}
        /\ arrived' = [arrived EXCEPT ![w] = @ + 1]
    BY <1>1, <1>4 DEF Runs, Segment, Arrive, TypeOK
  <2>2. (arrived[w] + 1) % 4 # 1
    BY <2>1
  <2>3. ASSUME NEW u \in Workers, arrived'[u] % 4 = 1
        PROVE  arrived[u] % 4 = 1
    BY <1>1, <2>1, <2>2, <2>3 DEF TypeOK
  <2>4. \A u \in Workers : Started(u)' = Started(u)
    BY <1>4 DEF Started, Segment
  <2>5. QED
    BY <1>1, <1>2, <1>4, <2>3, <2>4 DEF CountersFresh
<1>5. ASSUME NEW w \in Workers, FinishChunks(w) \/ GoOn(w) \/ (w = 0 /\ End)
      PROVE  CountersFresh'
  <2>1. /\ Runs(w, Segment(w)) /\ Segment(w) \in {1, 2, 3}
        /\ Arrive(w) /\ UNCHANGED <<chunk_ctr, passed>>
    BY <1>5 DEF FinishChunks, ChunksDone, GoOn, End, Runs, Segment
  <2>2. QED
    BY <1>4, <2>1
<1>6. ASSUME NEW w \in Workers, Compute(w)
      PROVE  CountersFresh'
  <2>1. Started(w)'
    BY <1>6 DEF Compute, Busy, Runs, Started, Segment
  <2>2. QED
    BY <2>1 DEF CountersFresh
<1>7. ASSUME UNCHANGED <<arrived, passed, chunk_ctr>>
      PROVE  CountersFresh'
  BY <1>1, <1>7 DEF CountersFresh, Started, Segment
<1>8. ASSUME NEW w \in Workers, Pass(w), \A u \in Workers : ~Started(u)',
             NEW e \in Block, arrived'[e % NWorkers] % 4 = 1
      PROVE  chunk_ctr'[e] = NWorkers
  <2>1. /\ passed' = [passed EXCEPT ![w] = arrived[w]] /\ arrived' = arrived
        /\ chunk_ctr' = chunk_ctr /\ arrived[w] > passed[w]
        /\ \A u \in Workers : arrived[u] >= arrived[w]
    BY <1>8 DEF Pass, AllArrived
  <2>2. \A u \in Workers \ {w} : ~Started(u)
    BY <1>1, <1>8, <2>1 DEF Started, Segment, TypeOK
  <2>3. PICK v \in Workers : v = e % NWorkers
    BY <1>2
  <2>4. /\ arrived[w] \in Nat /\ passed[w] \in Nat /\ arrived[w] = passed[w] + 1
        /\ arrived[v] \in Nat /\ arrived[w] <= arrived[v] /\ arrived[v] <= arrived[w] + 1
    BY <1>1, <2>1 DEF TypeOK, BarriersAgree
  <2>5. arrived[v] % 4 = 1
    BY <1>8, <2>1, <2>3
  <2>6. passed[w] % 4 # 1
    BY <2>4, <2>5
  <2>7. QED
    BY <1>1, <2>1, <2>2, <2>3, <2>5, <2>6 DEF CountersFresh, Started, Segment
<1>9. ASSUME NEW w \in Workers, Pass(w)
      PROVE  CountersFresh'
  BY <1>8, <1>9 DEF CountersFresh
<1>10. ASSUME NEW w \in Workers, LeaveExpert(w)
       PROVE  CountersFresh'
  BY <1>7, <1>10 DEF LeaveExpert
<1>11. ASSUME NEW counts, NEW h, Group(counts, h)
       PROVE  CountersFresh'
  BY <1>7, <1>11 DEF Group
<1>12. CASE Begin \/ BeginFails \/ Page \/ UNCHANGED vars
  BY <1>7, <1>12 DEF Begin, BeginFails, Page, vars
<1>13. ASSUME NEW w \in Workers, SetUp(w)
       PROVE  CountersFresh'
  BY <1>3, <1>13 DEF SetUp
<1>14. CASE SetUpZero
  BY <1>1, <1>3, <1>14 DEF SetUpZero
<1>15. QED
  BY <1>1, <1>5, <1>6, <1>9, <1>10, <1>11, <1>12, <1>13, <1>14, Steps

\* What the workers compute, hold and have left while they are at the chunks.
ChunkFacts ==
    /\ \A w \in Workers : WorkerAgrees(w)
    /\ computed \subseteq AllChunks
    /\ \A e \in Used : \A c \in 0 .. ChunksOf(e) - 1 :
         ComputedAgrees(e, c) /\ PendingAgrees(e, c)

\* A worker at an expert with rows holds a chunk that is its own first one or
\* that it has from the counter, and that nobody has computed.
LEMMA Holding ==
    ASSUME IInv, NEW w \in Workers, Runs(w, 1), cur_a[w] < NExperts
    PROVE  /\ InChunks /\ ChunkFacts /\ Started(w) /\ arrived[w] = passed[w]
           /\ cur_a[w] \in Used /\ cur_a[w] \in Block /\ cur_a[w] \in Nat
           /\ chunk[w] \in Nat /\ ChunksOf(cur_a[w]) \in Nat
           /\ chunk_ctr[cur_a[w]] \in Nat /\ chunk_ctr[cur_a[w]] >= NWorkers
           /\ w \in Nat /\ w < NWorkers /\ NWorkers \in Nat
           /\ \/ chunk[w] = w
              \/ NWorkers <= chunk[w] /\ chunk[w] < chunk_ctr[cur_a[w]]
           /\ <<cur_a[w], chunk[w]>> \notin computed
           /\ \A u \in Workers : u # w /\ Started(u) /\ cur_a[u] = cur_a[w] =>
                chunk[u] # chunk[w]
<1>1. /\ InChunks /\ Started(w) /\ arrived[w] = passed[w]
      /\ TypeOK /\ CountersAgree
  BY ComputingTogether DEF Runs, IInv
<1>2. ChunkFacts
  BY <1>1 DEF IInv, ChunksAgree, ChunkFacts
<1>3. cur_a[w] # NExperts /\ cur_a[w] \in 0 .. NExperts /\ NExperts \in Nat
  BY <1>1, Sizes DEF TypeOK
<1>4. cur_a[w] \in Used /\ cur_a[w] \in Block
  BY <1>1, <1>2, <1>3 DEF ChunkFacts, WorkerAgrees, Used
<1>5. /\ chunk[w] \in Nat /\ chunk_ctr[cur_a[w]] \in Nat
      /\ w \in Nat /\ w < NWorkers /\ NWorkers \in Nat
  BY <1>1, <1>4, Sizes DEF TypeOK, Workers
<1>6. chunk_ctr[cur_a[w]] >= NWorkers
  <2>1. cur_a[w] % NWorkers \in Workers
    BY <1>3, <1>5 DEF Workers
  <2>2. arrived[cur_a[w] % NWorkers] > 0
    BY <1>1, <2>1 DEF InChunks, TypeOK
  <2>3. QED
    BY <1>1, <1>4, <2>2 DEF CountersAgree
<1>7. ChunksOf(cur_a[w]) \in Nat
  BY <1>1, <1>4, ChunksType
<1>8. QED
  BY <1>1, <1>2, <1>3, <1>4, <1>5, <1>6, <1>7 DEF ChunkFacts, WorkerAgrees

\* The chunk a started worker holds is its own or past everybody's own.
LEMMA Held ==
    ASSUME ChunkFacts, NEW u \in Workers, Started(u), cur_a[u] \in Used
    PROVE  /\ \/ chunk[u] = u
              \/ NWorkers <= chunk[u] /\ chunk[u] < chunk_ctr[cur_a[u]]
           /\ <<cur_a[u], chunk[u]>> \notin computed
           /\ \A v \in Workers : v # u /\ Started(v) /\ cur_a[v] = cur_a[u] =>
                chunk[v] # chunk[u]
<1>1. cur_a[u] # NExperts
  BY Sizes DEF Used
<1>2. QED
  BY <1>1 DEF ChunkFacts, WorkerAgrees

\* A worker leaves its expert for the next one with rows, after it has computed
\* its own only chunk or found that none is left.
LEMMA MoveOn ==
    ASSUME IInv, TypeOK', NEW w \in Workers,
           Runs(w, 1), cur_a[w] < NExperts, NextExpert(w),
           UNCHANGED <<arrived, passed, rows, chunk_ctr>>,
           computed' = computed \cup ({<<cur_a[w], chunk[w]>>} \cap AllChunks),
           NWorkers >= ChunksOf(cur_a[w]) \/ chunk[w] >= ChunksOf(cur_a[w])
    PROVE  ChunksAgree'
<1> DEFINE a == cur_a[w]
           q == chunk[w]
           n == FromExpert(a + 1)
<1>1. /\ ChunkFacts /\ Started(w) /\ arrived[w] = passed[w]
      /\ a \in Used /\ a \in Block /\ a \in Nat /\ q \in Nat /\ ChunksOf(a) \in Nat
      /\ chunk_ctr[a] \in Nat /\ w \in Nat /\ w < NWorkers /\ NWorkers \in Nat
      /\ q = w \/ (NWorkers <= q /\ q < chunk_ctr[a])
      /\ <<a, q>> \notin computed
      /\ \A u \in Workers : u # w /\ Started(u) /\ cur_a[u] = a => chunk[u] # q
  BY Holding
<1>2. /\ n \in Used \cup {NExperts} /\ n \in Nat /\ a < n
      /\ \A e \in Used : e \in Nat /\ (a < e => n <= e)
  <2>1. a + 1 \in Nat
    BY <1>1
  <2>2. /\ n \in Used \cup {NExperts} /\ n \in 0 .. NExperts
        /\ n # NExperts => n >= a + 1
        /\ \A u \in Used : u >= a + 1 => n <= u
    BY <2>1, NextUsed
  <2>3. NExperts \in Nat /\ \A e \in Used : e \in Nat
    BY Sizes DEF Used
  <2> HIDE DEF n
  <2>4. QED
    BY <1>1, <2>2, <2>3
<1>3. TypeOK
  BY DEF IInv
<1>4. \A u \in Workers : /\ cur_a'[u] = IF u = w THEN n ELSE cur_a[u]
                         /\ chunk'[u] = IF u = w THEN w ELSE chunk[u]
                         /\ Started(u)' = Started(u)
                         /\ cur_a[u] \in Nat /\ chunk[u] \in Nat /\ u \in Nat
                         /\ u < NWorkers
  <2>1. /\ cur_a' = [cur_a EXCEPT ![w] = n]
        /\ chunk' = [chunk EXCEPT ![w] = w]
    BY DEF NextExpert
  <2>2. \A u \in Workers : Started(u)' = Started(u)
    BY DEF Started, Segment
  <2>3. \A u \in Workers : cur_a[u] \in Nat /\ chunk[u] \in Nat
    BY <1>3, Sizes DEF TypeOK
  <2>4. \A u \in Workers : u \in Nat /\ u < NWorkers
    BY Sizes DEF Workers
  <2> HIDE DEF n
  <2>5. QED
    BY <1>3, <2>1, <2>2, <2>3, <2>4 DEF TypeOK
<1>5. /\ Used' = Used /\ AllChunks' = AllChunks
      /\ \A e \in Used : ChunksOf(e)' = ChunksOf(e)
  BY DEF Used, AllChunks, ChunksOf
<1> HIDE DEF a, q, n
<1>6. /\ arrived' = arrived /\ passed' = passed /\ chunk_ctr' = chunk_ctr
      /\ computed' = computed \cup ({<<a, q>>} \cap AllChunks)
      /\ NWorkers >= ChunksOf(a) \/ q >= ChunksOf(a)
  BY DEF a, q
<1>7. ASSUME NEW u \in Workers \ {w}, Started(u), cur_a[u] = n, n # NExperts
      PROVE  chunk[u] # w
  <2>1. chunk[u] = u \/ NWorkers <= chunk[u]
    BY <1>1, <1>2, <1>7, Held
  <2>2. QED
    BY <1>1, <1>4, <1>7, <2>1
<1>8. n # NExperts => <<n, w>> \notin computed
  <2>1. SUFFICES ASSUME n \in Used, <<n, w>> \in computed
                 PROVE  FALSE
    BY <1>2
  <2>2. w \in 0 .. ChunksOf(n) - 1
    BY <1>1, <2>1, ChunkIn DEF ChunkFacts
  <2>3. ~OwnToDo(w, n)
    BY <1>1, <2>1, <2>2 DEF ChunkFacts, ComputedAgrees
  <2>4. QED
    BY <1>1, <1>2, <2>3 DEF OwnToDo, a
<1>9. WorkerAgrees(w)'
  <2>1. \A e \in Used : e < n => NWorkers >= ChunksOf(e) \/ chunk_ctr[e] >= ChunksOf(e)
    <3>1. \A e \in Used : e < a => NWorkers >= ChunksOf(e) \/ chunk_ctr[e] >= ChunksOf(e)
      BY <1>1 DEF ChunkFacts, WorkerAgrees, a
    <3>2. NWorkers >= ChunksOf(a) \/ chunk_ctr[a] >= ChunksOf(a)
      BY <1>1, <1>6
    <3>3. ASSUME NEW e \in Used, e < n
          PROVE  e < a \/ e = a
      <4>1. e \in Nat /\ n \in Nat /\ a \in Nat /\ (a < e => n <= e)
        BY <1>1, <1>2
      <4>2. QED
        BY <3>3, <4>1
    <3>4. QED
      BY <3>1, <3>2, <3>3
  <2>2. n # NExperts => <<n, w>> \notin computed'
    BY <1>1, <1>2, <1>6, <1>8
  <2>3. QED
    BY <1>1, <1>2, <1>4, <1>5, <1>6, <1>7, <2>1, <2>2 DEF WorkerAgrees
<1>10. ASSUME NEW u \in Workers \ {w}
       PROVE  WorkerAgrees(u)'
  <2>1. WorkerAgrees(u)
    BY <1>1 DEF ChunkFacts
  <2>2. Started(u) /\ cur_a[u] # NExperts => <<cur_a[u], chunk[u]>> \notin computed'
    BY <1>1, <1>6, <2>1 DEF WorkerAgrees
  <2>3. Started(u) /\ cur_a[u] # NExperts =>
          \A v \in Workers : v # u /\ Started(v)' /\ cur_a'[v] = cur_a[u] =>
            chunk'[v] # chunk[u]
    BY <1>4, <1>7, <2>1 DEF WorkerAgrees
  <2>4. QED
    BY <1>4, <1>5, <1>6, <2>1, <2>2, <2>3 DEF WorkerAgrees
<1>11. ASSUME NEW e \in Used, NEW c \in 0 .. ChunksOf(e) - 1
       PROVE  ComputedAgrees(e, c)' /\ PendingAgrees(e, c)'
  <2>1. ComputedAgrees(e, c) /\ PendingAgrees(e, c) /\ <<e, c>> \in AllChunks
    BY <1>1, <1>11, ChunkIn DEF ChunkFacts
  <2>2. \A u \in Workers \ {w} : OwnToDo(u, e)' <=> OwnToDo(u, e)
    BY <1>4 DEF OwnToDo
  <2>3. OwnToDo(w, e) <=> a < e \/ (a = e /\ q = w)
    BY <1>1 DEF OwnToDo, a, q
  <2>4. OwnToDo(w, e)' <=> a < e
    BY <1>1, <1>2, <1>4 DEF OwnToDo
  <2>5. <<e, c>> \in computed' <=> <<e, c>> \in computed \/ (e = a /\ c = q)
    BY <1>6, <2>1
  <2>6. e = a /\ c = q => c = w
    BY <1>1, <1>6
  <2>7. ComputedAgrees(e, c)'
    BY <1>1, <1>6, <2>1, <2>2, <2>3, <2>4, <2>5, <2>6 DEF ComputedAgrees
  <2>8. PendingAgrees(e, c)'
    <3>1. SUFFICES ASSUME <<e, c>> \notin computed', ~(e = a /\ c = q)
                   PROVE  PendingAgrees(e, c)'
      BY <2>5 DEF PendingAgrees
    <3>2. CASE IF c \in Workers THEN OwnToDo(c, e) ELSE c >= chunk_ctr[e]
      BY <1>6, <2>2, <2>3, <2>4, <3>1, <3>2 DEF PendingAgrees
    <3>3. CASE \E u \in Workers : Started(u) /\ cur_a[u] = e /\ chunk[u] = c
      BY <1>4, <3>1, <3>3 DEF PendingAgrees, a, q
    <3>4. QED
      BY <2>1, <2>5, <3>1, <3>2, <3>3 DEF PendingAgrees
  <2>9. QED
    BY <2>7, <2>8
<1>12. (computed \subseteq AllChunks)'
  BY <1>1, <1>5, <1>6 DEF ChunkFacts
<1>13. QED
  BY <1>5, <1>9, <1>10, <1>11, <1>12 DEF ChunksAgree

\* A worker computes its chunk and takes the next one from the counter.
LEMMA Claiming ==
    ASSUME IInv, TypeOK', NEW w \in Workers, Busy(w), Claim(w),
           UNCHANGED <<arrived, passed, rows>>,
           computed' = computed \cup {<<cur_a[w], chunk[w]>>}
    PROVE  ChunksAgree'
<1> DEFINE a == cur_a[w]
           q == chunk[w]
           m == chunk_ctr[a]
<1>1. /\ ChunkFacts /\ Started(w) /\ arrived[w] = passed[w]
      /\ a \in Used /\ a \in Block /\ a \in Nat /\ q \in Nat /\ ChunksOf(a) \in Nat
      /\ m \in Nat /\ m >= NWorkers /\ w \in Nat /\ w < NWorkers /\ NWorkers \in Nat
      /\ q = w \/ (NWorkers <= q /\ q < m)
      /\ <<a, q>> \notin computed
      /\ \A u \in Workers : u # w /\ Started(u) /\ cur_a[u] = a => chunk[u] # q
  BY Holding DEF Busy
<1>2. /\ \A u \in Workers : chunk'[u] = IF u = w THEN m ELSE chunk[u]
      /\ \A e \in Used : chunk_ctr'[e] = IF e = a THEN m + 1 ELSE chunk_ctr[e]
      /\ cur_a' = cur_a
  <2>1. TypeOK
    BY DEF IInv
  <2>2. /\ \A u \in Workers : chunk'[u] = IF u = w THEN m ELSE chunk[u]
        /\ \A e \in Block : chunk_ctr'[e] = IF e = a THEN chunk_ctr[e] + 1
                                                   ELSE chunk_ctr[e]
    BY <2>1, Claims
  <2>3. cur_a' = cur_a
    BY DEF Claim
  <2> HIDE DEF a
  <2>4. QED
    BY <2>2, <2>3 DEF Used
<1>3. \A e \in Used : e \in Nat /\ chunk_ctr[e] \in Nat /\ chunk_ctr'[e] \in Nat
                      /\ chunk_ctr[e] <= chunk_ctr'[e]
  <2>1. \A e \in Used : e \in Nat /\ chunk_ctr[e] \in Nat
    BY Sizes DEF IInv, TypeOK, Used
  <2> HIDE DEF m
  <2>2. QED
    BY <1>1, <1>2, <2>1 DEF m
<1>4. \A u \in Workers : /\ Started(u)' = Started(u)
                         /\ u \in Nat /\ u < NWorkers
  BY Sizes DEF Started, Segment, Workers
<1>5. /\ Used' = Used /\ AllChunks' = AllChunks
      /\ \A e \in Used : ChunksOf(e)' = ChunksOf(e)
  BY DEF Used, AllChunks, ChunksOf
<1>6. <<a, q>> \in AllChunks
  <2>1. q < ChunksOf(a)
    BY DEF Busy
  <2> HIDE DEF a, q, m
  <2>2. QED
    BY <1>1, <2>1, ChunkIn
<1> HIDE DEF a, q, m
<1>7. /\ arrived' = arrived /\ passed' = passed
      /\ computed' = computed \cup {<<a, q>>}
  BY DEF a, q
<1>8. ASSUME NEW u \in Workers \ {w}, Started(u), cur_a[u] = a
      PROVE  chunk[u] # m
  <2>1. chunk[u] = u \/ (NWorkers <= chunk[u] /\ chunk[u] < m)
    BY <1>1, <1>8, Held DEF m
  <2>2. QED
    BY <1>1, <1>4, <1>8, <2>1
<1>9. <<a, m>> \notin computed /\ m # q
  <2>1. ASSUME <<a, m>> \in computed
        PROVE  FALSE
    <3>1. m \in 0 .. ChunksOf(a) - 1 /\ m \notin Workers
      BY <1>1, <1>4, <2>1, ChunkIn DEF ChunkFacts
    <3>2. m < chunk_ctr[a]
      BY <1>1, <2>1, <3>1 DEF ChunkFacts, ComputedAgrees
    <3>3. QED
      BY <1>1, <3>2 DEF m
  <2>2. QED
    BY <1>1, <2>1
<1>10. WorkerAgrees(w)'
  <2>1. \A e \in Used : e < a => NWorkers >= ChunksOf(e) \/ chunk_ctr'[e] >= ChunksOf(e)
    <3>1. \A e \in Used : e < a => NWorkers >= ChunksOf(e) \/ chunk_ctr[e] >= ChunksOf(e)
      BY <1>1 DEF ChunkFacts, WorkerAgrees, a
    <3>2. QED
      BY <1>1, <1>2, <3>1
  <2>2. <<a, m>> \notin computed'
    BY <1>7, <1>9
  <2>3. chunk'[w] = m /\ cur_a'[w] = a /\ chunk_ctr'[a] = m + 1
    BY <1>1, <1>2 DEF a
  <2>4. \A u \in Workers : u # w /\ Started(u)' /\ cur_a'[u] = a => chunk'[u] # m
    BY <1>2, <1>4, <1>8
  <2>5. NWorkers <= m /\ m < m + 1
    BY <1>1
  <2>6. QED
    BY <1>1, <1>5, <1>7, <2>1, <2>2, <2>3, <2>4, <2>5 DEF WorkerAgrees
<1>11. ASSUME NEW u \in Workers \ {w}
       PROVE  WorkerAgrees(u)'
  <2>1. SUFFICES ASSUME Started(u)
                 PROVE  WorkerAgrees(u)'
    BY <1>4 DEF WorkerAgrees
  <2>2. WorkerAgrees(u) /\ cur_a'[u] = cur_a[u] /\ chunk'[u] = chunk[u]
    BY <1>1, <1>2 DEF ChunkFacts
  <2>3. cur_a[u] # NExperts =>
          /\ <<cur_a[u], chunk[u]>> \notin computed'
          /\ cur_a[u] \in Used
    BY <1>1, <1>7, <2>1, <2>2 DEF WorkerAgrees
  <2>4. cur_a[u] # NExperts =>
          \A v \in Workers : v # u /\ Started(v)' /\ cur_a'[v] = cur_a[u] =>
            chunk'[v] # chunk[u]
    BY <1>2, <1>4, <1>8, <2>1, <2>2 DEF WorkerAgrees, a
  <2>5. cur_a[u] # NExperts =>
          chunk[u] = u \/ (NWorkers <= chunk[u] /\ chunk[u] < chunk_ctr'[cur_a[u]])
    <3>1. cur_a[u] # NExperts =>
            chunk[u] = u \/ (NWorkers <= chunk[u] /\ chunk[u] < chunk_ctr[cur_a[u]])
      BY <2>1, <2>2 DEF WorkerAgrees
    <3>2. chunk[u] \in Nat
      BY DEF IInv, TypeOK
    <3>3. QED
      BY <1>3, <2>3, <3>1, <3>2
  <2>6. \A e \in Used : e < cur_a[u] =>
          NWorkers >= ChunksOf(e) \/ chunk_ctr'[e] >= ChunksOf(e)
    <3>1. \A e \in Used : e < cur_a[u] =>
            NWorkers >= ChunksOf(e) \/ chunk_ctr[e] >= ChunksOf(e)
      BY <2>1, <2>2 DEF WorkerAgrees
    <3>2. \A e \in Used : ChunksOf(e) \in Nat
      BY ChunksType DEF IInv, Used
    <3>3. QED
      BY <1>3, <3>1, <3>2
  <2>7. cur_a[u] \in Used \cup {NExperts} /\ (arrived[u] # passed[u] => cur_a[u] = NExperts)
    BY <2>1, <2>2 DEF WorkerAgrees
  <2>8. QED
    BY <1>5, <1>7, <2>2, <2>3, <2>4, <2>5, <2>6, <2>7 DEF WorkerAgrees
<1>12. ASSUME NEW e \in Used, NEW c \in 0 .. ChunksOf(e) - 1
       PROVE  ComputedAgrees(e, c)' /\ PendingAgrees(e, c)'
  <2>1. ComputedAgrees(e, c) /\ PendingAgrees(e, c) /\ c \in Nat
    <3>1. c \in Nat
      BY <1>12
    <3>2. QED
      BY <1>1, <1>12, <3>1 DEF ChunkFacts
  <2>2. \A u \in Workers \ {w} : OwnToDo(u, e)' <=> OwnToDo(u, e)
    BY <1>2, <1>4 DEF OwnToDo
  <2>3. OwnToDo(w, e) <=> a < e \/ (a = e /\ q = w)
    BY <1>1 DEF OwnToDo, a, q
  <2>4. OwnToDo(w, e)' <=> a < e
    <3>1. chunk'[w] = m /\ cur_a'[w] = a /\ m # w
      BY <1>1, <1>2 DEF a
    <3>2. QED
      BY <1>1, <1>4, <3>1 DEF OwnToDo
  <2>5. <<e, c>> \in computed' <=> <<e, c>> \in computed \/ (e = a /\ c = q)
    BY <1>7
  <2>6. /\ q \in Workers => q = w
        /\ q \notin Workers => q < m
    BY <1>1, <1>4
  <2>7. chunk_ctr'[e] = IF e = a THEN m + 1 ELSE chunk_ctr[e]
    BY <1>2
  <2>8. ComputedAgrees(e, c)'
    <3>1. SUFFICES ASSUME <<e, c>> \in computed'
                   PROVE  IF c \in Workers THEN ~OwnToDo(c, e)' ELSE c < chunk_ctr'[e]
      BY DEF ComputedAgrees
    <3>2. CASE <<e, c>> \in computed
      <4>1. IF c \in Workers THEN ~OwnToDo(c, e) ELSE c < chunk_ctr[e]
        BY <2>1, <3>2 DEF ComputedAgrees
      <4>2. c \notin Workers => c < chunk_ctr'[e]
        BY <1>3, <2>1, <4>1
      <4>3. c \in Workers => ~OwnToDo(c, e)'
        BY <2>2, <2>3, <2>4, <4>1
      <4>4. QED
        BY <4>2, <4>3
    <3>3. CASE e = a /\ c = q
      BY <1>1, <2>4, <2>6, <2>7, <3>3
    <3>4. QED
      BY <2>5, <3>1, <3>2, <3>3
  <2>9. PendingAgrees(e, c)'
    <3>1. SUFFICES ASSUME <<e, c>> \notin computed', ~(e = a /\ c = q)
                   PROVE  PendingAgrees(e, c)'
      BY <2>5 DEF PendingAgrees
    <3>2. CASE c \in Workers /\ OwnToDo(c, e)
      BY <2>2, <2>3, <2>4, <3>1, <3>2 DEF PendingAgrees
    <3>3. CASE c \notin Workers /\ c >= chunk_ctr[e]
      <4>1. CASE c >= chunk_ctr'[e]
        BY <3>3, <4>1 DEF PendingAgrees
      <4>2. CASE e = a /\ c = m
        <5>1. Started(w)' /\ cur_a'[w] = e /\ chunk'[w] = c
          BY <1>1, <1>2, <1>4, <4>2 DEF a
        <5>2. QED
          BY <5>1 DEF PendingAgrees
      <4>3. c >= chunk_ctr'[e] \/ (e = a /\ c = m)
        BY <1>1, <2>1, <2>7, <3>3 DEF m
      <4>4. QED
        BY <4>1, <4>2, <4>3
    <3>4. CASE \E u \in Workers : Started(u) /\ cur_a[u] = e /\ chunk[u] = c
      <4>1. PICK u \in Workers : Started(u) /\ cur_a[u] = e /\ chunk[u] = c
        BY <3>4
      <4>2. u # w
        BY <3>1, <4>1 DEF a, q
      <4>3. Started(u)' /\ cur_a'[u] = e /\ chunk'[u] = c
        BY <1>2, <1>4, <4>1, <4>2
      <4>4. QED
        BY <4>3 DEF PendingAgrees
    <3>5. QED
      BY <2>1, <2>5, <3>1, <3>2, <3>3, <3>4 DEF PendingAgrees
  <2>10. QED
    BY <2>8, <2>9
<1>13. (computed \subseteq AllChunks)'
  BY <1>1, <1>5, <1>6, <1>7 DEF ChunkFacts
<1>14. QED
  BY <1>5, <1>10, <1>11, <1>12, <1>13 DEF ChunksAgree

\* The last worker to finish its set-up finds nothing computed, every counter
\* reset and nobody started.
LEMMA Opening ==
    ASSUME IInv, CountersFresh', InChunks', NEW w \in Workers,
           arrived[w] = passed[w], Segment(w) = 0, w = 0 => stage = "ready",
           Arrive(w), UNCHANGED <<passed, computed>>
    PROVE  ChunksAgree'
<1>1. /\ TypeOK /\ SlicesAgree /\ BarriersAgree /\ NothingYet /\ 0 \in Workers
  BY Sizes DEF IInv
<1>2. arrived[w] \in Nat /\ arrived[w] % 4 = 0 /\ arrived[w] = passed[w]
  BY <1>1 DEF Segment, TypeOK
<1>3. \A u \in Workers :
        /\ arrived[u] \in {arrived[w], arrived[w] + 1}
        /\ passed[u] \in {arrived[w], arrived[w] - 1} /\ passed[u] \in Nat
  BY <1>2, Together
<1>4. \A u \in Workers : arrived'[u] = IF u = w THEN arrived[w] + 1 ELSE arrived[u]
  BY <1>1 DEF Arrive, TypeOK
<1>5. \A u \in Workers : arrived'[u] % 4 \in {1, 2} /\ passed[u] % 4 \in {0, 1}
  BY DEF InChunks, Segment
<1>6. ASSUME NEW u \in Workers
      PROVE  arrived'[u] = arrived[w] + 1 /\ passed[u] = arrived[w]
  <2>1. /\ arrived'[u] \in {arrived[w], arrived[w] + 1}
        /\ arrived'[u] % 4 \in {1, 2}
    BY <1>3, <1>4, <1>5
  <2>2. passed[u] \in {arrived[w], arrived[w] - 1} /\ passed[u] % 4 \in {0, 1}
        /\ passed[u] \in Nat
    BY <1>3, <1>5
  <2>3. QED
    BY <1>2, <2>1, <2>2
<1>7. slices[0] = arrived[w] \div 4
  <2>1. CASE w = 0
    BY <1>1, <1>2, <2>1 DEF SlicesAgree, Op
  <2>2. CASE w # 0
    <3>1. arrived[0] = arrived[w] + 1 /\ passed[0] = arrived[w]
      BY <1>1, <1>4, <1>6, <2>2
    <3>2. arrived[0] > 0 /\ arrived[0] # passed[0]
      BY <1>2, <3>1
    <3>3. slices[0] = (arrived[0] - 1) \div 4
      BY <1>1, <3>2 DEF SlicesAgree
    <3>4. QED
      BY <1>2, <3>1, <3>3
  <2>3. QED
    BY <2>1, <2>2
<1>8. computed' = {}
  <2>1. 4 * slices[0] = arrived[w]
    BY <1>2, <1>7
  <2>2. \A u \in Workers : passed[u] <= 4 * slices[0]
    BY <1>2, <1>6, <2>1
  <2>3. QED
    BY <1>1, <2>2 DEF NothingYet
<1>9. \A u \in Workers : ~Started(u)'
  BY <1>2, <1>6 DEF Started, Segment
<1>10. \A e \in Block : chunk_ctr'[e] = NWorkers
  <2>1. (arrived[w] + 1) % 4 = 1
    BY <1>2
  <2>2. \A e \in Block : e % NWorkers \in Workers
    BY Sizes DEF Workers
  <2>3. \A e \in Block : arrived'[e % NWorkers] % 4 = 1
    BY <1>6, <2>1, <2>2
  <2>4. QED
    BY <1>9, <2>3 DEF CountersFresh
<1>11. ASSUME NEW e \in Used', NEW c \in 0 .. ChunksOf(e)' - 1
       PROVE  ComputedAgrees(e, c)' /\ PendingAgrees(e, c)'
  <2>1. ComputedAgrees(e, c)'
    BY <1>8 DEF ComputedAgrees
  <2>2. c \in Workers => OwnToDo(c, e)'
    BY <1>9 DEF OwnToDo
  <2>3. c \notin Workers => c >= chunk_ctr'[e]
    <3>1. e \in Block /\ c \in Nat /\ NWorkers \in Nat
      BY Sizes DEF Used
    <3>2. c \notin Workers => c >= NWorkers
      BY <3>1 DEF Workers
    <3>3. QED
      BY <1>10, <3>1, <3>2
  <2>4. QED
    BY <2>1, <2>2, <2>3 DEF PendingAgrees
<1>12. \A u \in Workers : WorkerAgrees(u)'
  BY <1>9 DEF WorkerAgrees
<1>13. (computed \subseteq AllChunks)'
  BY <1>8
<1>14. QED
  BY <1>11, <1>12, <1>13 DEF ChunksAgree

\* A worker starts on the first expert with rows, with its own chunk.
LEMMA Starting ==
    ASSUME IInv, InChunks', NEW w \in Workers, Pass(w)
    PROVE  ChunksAgree'
<1> DEFINE n == FromExpert(0)
<1>1. TypeOK /\ BarriersAgree
  BY DEF IInv
<1>2. /\ passed' = [passed EXCEPT ![w] = arrived[w]] /\ arrived' = arrived
      /\ arrived[w] > passed[w]
      /\ UNCHANGED <<rows, chunk_ctr, computed>>
  BY DEF Pass, bufferVars
<1>3. /\ arrived[w] % 4 = 1 /\ passed[w] % 4 = 0
      /\ arrived[w] \in Nat /\ passed[w] \in Nat
  <2>1. passed'[w] = arrived[w] /\ passed'[w] % 4 \in {0, 1} /\ arrived[w] % 4 \in {1, 2}
    BY <1>1, <1>2 DEF InChunks, Segment, TypeOK
  <2>2. arrived[w] <= passed[w] + 1 /\ arrived[w] \in Nat /\ passed[w] \in Nat
    BY <1>1 DEF BarriersAgree, TypeOK
  <2>3. QED
    BY <1>2, <2>1, <2>2
<1>4. InChunks /\ ~Started(w) /\ Started(w)'
  BY <1>1, <1>2, <1>3 DEF InChunks, Segment, Started, TypeOK
<1>5. ChunkFacts
  BY <1>4 DEF IInv, ChunksAgree, ChunkFacts
<1>6. /\ cur_a' = [cur_a EXCEPT ![w] = n] /\ chunk' = [chunk EXCEPT ![w] = w]
  BY <1>3 DEF Pass
<1>7. /\ n \in Used \cup {NExperts} /\ n \in Nat
      /\ \A e \in Used : e \in Nat /\ n <= e
  <2>1. \A e \in Used : e \in Nat /\ e >= 0
    BY Sizes DEF Used
  <2>2. n \in 0 .. NExperts
    BY NextUsed
  <2>3. QED
    BY <2>1, <2>2, NextUsed, Sizes
<1> HIDE DEF n
<1>8. \A u \in Workers : /\ cur_a'[u] = IF u = w THEN n ELSE cur_a[u]
                         /\ chunk'[u] = IF u = w THEN w ELSE chunk[u]
                         /\ u \in Nat /\ u < NWorkers
  BY <1>1, <1>6, Sizes DEF TypeOK, Workers
<1>9. \A u \in Workers \ {w} : Started(u)' = Started(u) /\ passed'[u] = passed[u]
  BY <1>1, <1>2 DEF Started, Segment, TypeOK
<1>10. /\ Used' = Used /\ AllChunks' = AllChunks
       /\ \A e \in Used : ChunksOf(e)' = ChunksOf(e)
  BY <1>2 DEF Used, AllChunks, ChunksOf
<1>11. ASSUME NEW u \in Workers \ {w}, Started(u), cur_a[u] = n, n # NExperts
       PROVE  chunk[u] # w
  <2>1. chunk[u] = u \/ NWorkers <= chunk[u]
    BY <1>5, <1>7, <1>11, Held
  <2>2. chunk[u] \in Nat /\ NWorkers \in Nat
    BY <1>1, Sizes DEF TypeOK
  <2>3. QED
    BY <1>8, <1>11, <2>1, <2>2
<1>12. n # NExperts => <<n, w>> \notin computed
  <2>1. SUFFICES ASSUME n \in Used, <<n, w>> \in computed
                 PROVE  FALSE
    BY <1>7
  <2>2. w \in 0 .. ChunksOf(n) - 1
    BY <1>5, <2>1, ChunkIn DEF ChunkFacts
  <2>3. ~OwnToDo(w, n)
    BY <1>5, <2>1, <2>2 DEF ChunkFacts, ComputedAgrees
  <2>4. QED
    BY <1>4, <2>3 DEF OwnToDo
<1>13. WorkerAgrees(w)'
  <2>1. arrived'[w] = passed'[w]
    BY <1>1, <1>2 DEF TypeOK
  <2>2. \A e \in Used : ~(e < n)
    BY <1>7
  <2>3. n # NExperts =>
          \A u \in Workers : u # w /\ Started(u)' /\ cur_a'[u] = n => chunk'[u] # w
    BY <1>8, <1>9, <1>11
  <2>4. QED
    BY <1>2, <1>7, <1>8, <1>10, <1>12, <2>1, <2>2, <2>3 DEF WorkerAgrees
<1>14. ASSUME NEW u \in Workers \ {w}
       PROVE  WorkerAgrees(u)'
  <2>1. WorkerAgrees(u)
    BY <1>5 DEF ChunkFacts
  <2>2. Started(u) /\ cur_a[u] # NExperts =>
          \A v \in Workers : v # u /\ Started(v)' /\ cur_a'[v] = cur_a[u] =>
            chunk'[v] # chunk[u]
    BY <1>8, <1>9, <1>11, <2>1 DEF WorkerAgrees
  <2>3. QED
    BY <1>2, <1>8, <1>9, <1>10, <2>1, <2>2 DEF WorkerAgrees
<1>15. ASSUME NEW e \in Used, NEW c \in 0 .. ChunksOf(e) - 1
       PROVE  ComputedAgrees(e, c)' /\ PendingAgrees(e, c)'
  <2>1. ComputedAgrees(e, c) /\ PendingAgrees(e, c)
    BY <1>5 DEF ChunkFacts
  <2>2. \A u \in Workers \ {w} : OwnToDo(u, e)' <=> OwnToDo(u, e)
    BY <1>8, <1>9 DEF OwnToDo
  <2>3. OwnToDo(w, e) /\ OwnToDo(w, e)'
    <3>1. n < e \/ n = e
      BY <1>7
    <3>2. QED
      BY <1>4, <1>8, <3>1 DEF OwnToDo
  <2>4. ComputedAgrees(e, c)'
    BY <1>2, <2>1, <2>2, <2>3 DEF ComputedAgrees
  <2>5. PendingAgrees(e, c)'
    <3>1. SUFFICES ASSUME <<e, c>> \notin computed
                   PROVE  PendingAgrees(e, c)'
      BY <1>2 DEF PendingAgrees
    <3>2. CASE IF c \in Workers THEN OwnToDo(c, e) ELSE c >= chunk_ctr[e]
      BY <1>2, <2>2, <2>3, <3>2 DEF PendingAgrees
    <3>3. CASE \E u \in Workers : Started(u) /\ cur_a[u] = e /\ chunk[u] = c
      BY <1>4, <1>8, <1>9, <3>3 DEF PendingAgrees
    <3>4. QED
      BY <2>1, <3>1, <3>2, <3>3 DEF PendingAgrees
  <2>6. QED
    BY <2>4, <2>5
<1>16. (computed \subseteq AllChunks)'
  BY <1>2, <1>5, <1>10 DEF ChunkFacts
<1>17. QED
  BY <1>10, <1>13, <1>14, <1>15, <1>16 DEF ChunksAgree

\* Every chunk stays in one of three places: to be given out, taken, computed.
LEMMA ChunksStep == IInv /\ TypeOK' /\ CountersFresh' /\ [Next]_vars => ChunksAgree'
<1> SUFFICES ASSUME IInv, TypeOK', CountersFresh', [Next]_vars, InChunks'
             PROVE  ChunksAgree'
  BY DEF ChunksAgree
<1> USE DEF storeVars, bufferVars, workVars, opVars
<1>1. TypeOK /\ ChunksAgree /\ 0 \in Workers
  BY Sizes DEF IInv
<1>2. \A u \in Workers : arrived'[u] % 4 \in {1, 2}
  BY DEF InChunks
<1>3. ASSUME UNCHANGED <<arrived, passed, rows, chunk_ctr, workVars>>
      PROVE  ChunksAgree'
  BY <1>1, <1>3 DEF ChunksAgree, InChunks, WorkerAgrees, ComputedAgrees, PendingAgrees,
     OwnToDo, Started, Segment, AllChunks, ChunksOf, Used
<1>4. ASSUME NEW w \in Workers, SetUp(w)
      PROVE  ChunksAgree'
  BY <1>4, Opening DEF SetUp, Runs
<1>5. CASE SetUpZero
  BY <1>1, <1>5, Opening DEF SetUpZero, Runs
<1>6. ASSUME NEW w \in Workers, Pass(w)
      PROVE  ChunksAgree'
  BY <1>6, Starting
<1>7. ASSUME NEW w \in Workers, Compute(w)
      PROVE  ChunksAgree'
  <2>1. Busy(w) /\ Runs(w, 1) /\ cur_a[w] < NExperts /\ chunk[w] < ChunksOf(cur_a[w])
    BY <1>7 DEF Compute, Busy
  <2>2. /\ UNCHANGED <<arrived, passed, rows>>
        /\ computed' = computed \cup {<<cur_a[w], chunk[w]>>}
    BY <1>7 DEF Compute
  <2>3. CASE Claim(w)
    BY <2>1, <2>2, <2>3, Claiming
  <2>4. CASE NWorkers >= ChunksOf(cur_a[w]) /\ NextExpert(w) /\ UNCHANGED chunk_ctr
    <3>1. <<cur_a[w], chunk[w]>> \in AllChunks
      <4>1. cur_a[w] \in Used /\ chunk[w] \in Nat /\ ChunksOf(cur_a[w]) \in Nat
        BY <2>1, Holding
      <4>2. chunk[w] \in 0 .. ChunksOf(cur_a[w]) - 1
        BY <2>1, <4>1
      <4>3. QED
        BY <4>1, <4>2, ChunkIn
    <3>2. computed' = computed \cup ({<<cur_a[w], chunk[w]>>} \cap AllChunks)
      BY <2>2, <3>1
    <3>3. QED
      BY <2>1, <2>2, <2>4, <3>2, MoveOn
  <2>5. QED
    BY <1>7, <2>3, <2>4 DEF Compute
<1>8. ASSUME NEW w \in Workers, LeaveExpert(w)
      PROVE  ChunksAgree'
  <2>1. /\ Runs(w, 1) /\ cur_a[w] < NExperts /\ ~(chunk[w] < ChunksOf(cur_a[w]))
        /\ NextExpert(w)
        /\ UNCHANGED <<arrived, passed, rows, chunk_ctr, computed>>
    BY <1>8 DEF LeaveExpert, Busy
  <2>2. chunk[w] \in Nat /\ ChunksOf(cur_a[w]) \in Nat
    BY <2>1, Holding
  <2>3. <<cur_a[w], chunk[w]>> \notin AllChunks
    BY <2>1, <2>2, ChunkIn
  <2>4. computed' = computed \cup ({<<cur_a[w], chunk[w]>>} \cap AllChunks)
    BY <2>1, <2>3
  <2>5. chunk[w] >= ChunksOf(cur_a[w])
    BY <2>1, <2>2
  <2>6. QED
    BY <2>1, <2>4, <2>5, MoveOn
<1>9. ASSUME NEW w \in Workers, FinishChunks(w)
      PROVE  ChunksAgree'
  <2>1. /\ Runs(w, 1) /\ cur_a[w] = NExperts
        /\ arrived' = [arrived EXCEPT ![w] = @ + 1]
        /\ UNCHANGED <<passed, rows, chunk_ctr, workVars>>
    <3>1. Runs(w, 1) /\ cur_a[w] >= NExperts /\ cur_a[w] \in 0 .. NExperts
      BY <1>1, <1>9 DEF FinishChunks, ChunksDone, TypeOK
    <3>2. QED
      BY <1>9, <3>1, Sizes DEF FinishChunks, Arrive
  <2>2. ChunkFacts
    BY <1>1, <2>1, ComputingTogether DEF ChunksAgree, ChunkFacts
  <2>3. /\ Used' = Used /\ AllChunks' = AllChunks
        /\ \A e : ChunksOf(e)' = ChunksOf(e)
        /\ \A u : Started(u)' = Started(u)
        /\ \A u, e : OwnToDo(u, e)' = OwnToDo(u, e)
    BY <2>1 DEF Used, AllChunks, ChunksOf, Started, Segment, OwnToDo
  <2>4. \A u \in Workers : u # w => arrived'[u] = arrived[u]
    BY <1>1, <2>1 DEF TypeOK
  <2>5. ASSUME NEW u \in Workers
        PROVE  WorkerAgrees(u)'
    <3>1. WorkerAgrees(u)
      BY <2>2 DEF ChunkFacts
    <3>2. QED
      BY <2>1, <2>3, <2>4, <3>1 DEF WorkerAgrees
  <2>6. QED
    BY <2>1, <2>2, <2>3, <2>5 DEF ChunksAgree, ChunkFacts, ComputedAgrees, PendingAgrees
<1>10. ASSUME NEW w \in Workers, GoOn(w) \/ (w = 0 /\ End)
       PROVE  FALSE
  <2>1. /\ arrived[w] \in Nat /\ arrived[w] % 4 \in {2, 3}
        /\ arrived' = [arrived EXCEPT ![w] = @ + 1]
    BY <1>1, <1>10 DEF GoOn, End, Runs, Segment, Arrive, TypeOK
  <2>2. arrived'[w] = arrived[w] + 1 /\ (arrived[w] + 1) % 4 \in {0, 3}
    BY <1>1, <2>1 DEF TypeOK
  <2>3. QED
    BY <1>2, <2>2
<1>11. ASSUME NEW counts, NEW h, Group(counts, h)
       PROVE  FALSE
  BY <1>1, <1>2, <1>11 DEF Group, Runs, Segment
<1>12. CASE Begin \/ BeginFails \/ Page \/ UNCHANGED vars
  BY <1>3, <1>12 DEF Begin, BeginFails, Page, vars
<1>13. QED
  BY <1>1, <1>4, <1>5, <1>6, <1>7, <1>8, <1>9, <1>10, <1>11, <1>12, Steps

\* When every worker has finished with the experts, all chunks are computed.
LEMMA AllComputed ==
    ASSUME IInv, \A u \in Workers : arrived[u] % 4 = 2 /\ arrived[u] = passed[u] + 1
    PROVE  computed = AllChunks
<1>1. TypeOK /\ 0 \in Workers /\ NExperts \in Nat
  BY Sizes DEF IInv
<1>2. \A u \in Workers : /\ arrived[u] % 4 = 2 /\ passed[u] % 4 = 1
                         /\ arrived[u] # passed[u]
  BY <1>1 DEF TypeOK
<1>3. ChunkFacts /\ \A u \in Workers : Started(u)
  BY <1>2 DEF IInv, ChunksAgree, ChunkFacts, InChunks, Started, Segment
<1>4. \A u \in Workers : cur_a[u] = NExperts
  BY <1>2, <1>3 DEF ChunkFacts, WorkerAgrees
<1>5. ASSUME NEW e \in Used, NEW c \in 0 .. ChunksOf(e) - 1, <<e, c>> \notin computed
      PROVE  FALSE
  <2>1. e \in Nat /\ e < NExperts /\ ChunksOf(e) \in Nat /\ c \in Nat /\ c < ChunksOf(e)
        /\ chunk_ctr[e] \in Nat /\ NWorkers \in Nat
    <3>1. e \in Block
      BY DEF Used
    <3>2. ChunksOf(e) \in Nat
      BY <1>1, <3>1, ChunksType
    <3>3. QED
      BY <1>1, <1>5, <3>1, <3>2, Sizes DEF TypeOK
  <2>2. PendingAgrees(e, c)
    BY <1>3 DEF ChunkFacts
  <2>3. \A u \in Workers : ~OwnToDo(u, e) /\ cur_a[u] # e
    BY <1>1, <1>3, <1>4, <2>1 DEF OwnToDo
  <2>4. c \notin Workers /\ c >= chunk_ctr[e]
    BY <1>5, <2>2, <2>3 DEF PendingAgrees
  <2>5. NWorkers >= ChunksOf(e) \/ chunk_ctr[e] >= ChunksOf(e)
    BY <1>1, <1>3, <1>4, <2>1 DEF ChunkFacts, WorkerAgrees
  <2>6. c >= NWorkers
    BY <2>1, <2>4 DEF Workers
  <2>7. QED
    BY <2>1, <2>4, <2>5, <2>6
<1>6. AllChunks \subseteq computed
  BY <1>5 DEF AllChunks
<1>7. QED
  BY <1>3, <1>6 DEF ChunkFacts

\* The second barrier finds no chunk in the first two.
LEMMA CompleteStep == IInv /\ [Next]_vars => ProductComplete'
<1> SUFFICES ASSUME IInv, [Next]_vars
             PROVE  ProductComplete'
  OBVIOUS
<1> USE DEF storeVars, bufferVars, workVars, opVars
<1>1. TypeOK /\ BarriersAgree /\ ProductComplete /\ 0 \in Workers
  BY Sizes DEF IInv
<1>2. ASSUME slices'[0] = slices[0], UNCHANGED <<passed, rows, computed>>
      PROVE  ProductComplete'
  BY <1>1, <1>2 DEF ProductComplete, Op, Segment, AllChunks, ChunksOf, Used
<1>3. ASSUME NEW w \in Workers, SetUp(w)
      PROVE  ProductComplete'
  BY <1>1, <1>2, <1>3 DEF SetUp, TypeOK
\* A new product is set up, or computed, before anyone can be past it.
<1>4. ASSUME NEW w \in Workers, arrived[w] = passed[w], Segment(w) \in {0, 1},
             slices'[0] = Op(w), passed' = passed
      PROVE  ProductComplete'
  <2>1. SUFFICES ASSUME NEW u \in Workers, Op(u) = Op(w), Segment(u) >= 2
                 PROVE  FALSE
    BY <1>4 DEF ProductComplete, Op, Segment
  <2>2. passed[u] \in Nat /\ passed[w] \in Nat /\ passed[u] <= passed[w]
    BY <1>1, <1>4 DEF TypeOK, BarriersAgree
  <2>3. QED
    BY <1>4, <2>1, <2>2 DEF Op, Segment
<1>5. ASSUME NEW counts, NEW h, Group(counts, h)
      PROVE  ProductComplete'
  BY <1>1, <1>4, <1>5 DEF Group, Runs, TypeOK
<1>6. ASSUME NEW w \in Workers, Compute(w)
      PROVE  ProductComplete'
  <2>1. Runs(w, 1) /\ slices[0] = Op(w)
    BY <1>1, <1>6, ComputingTogether DEF Compute, Busy
  <2>2. QED
    BY <1>4, <1>6, <2>1 DEF Compute, Runs
<1>7. ASSUME NEW w \in Workers, Pass(w), NEW u \in Workers,
             Op(u)' \in Ops, Op(u)' = slices'[0], Segment(u)' >= 2
      PROVE  computed' = AllChunks'
  <2>1. /\ passed' = [passed EXCEPT ![w] = arrived[w]] /\ arrived' = arrived
        /\ arrived[w] > passed[w] /\ \A v \in Workers : arrived[v] >= arrived[w]
        /\ UNCHANGED <<slices, rows, computed>>
    BY <1>7 DEF Pass, AllArrived
  <2>2. AllChunks' = AllChunks
    BY <2>1 DEF AllChunks, ChunksOf, Used
  <2>3. arrived[w] \in Nat /\ passed[w] \in Nat /\ arrived[w] = passed[w] + 1
    BY <1>1, <2>1 DEF TypeOK, BarriersAgree
  <2>4. CASE u # w
    <3>1. passed'[u] = passed[u]
      BY <1>1, <2>1, <2>4 DEF TypeOK
    <3>2. QED
      BY <1>1, <1>7, <2>1, <2>2, <3>1 DEF ProductComplete, Op, Segment
  <2>5. CASE u = w
    <3>1. /\ arrived[w] \div 4 = slices[0] /\ arrived[w] \div 4 \in Ops
          /\ arrived[w] % 4 >= 2
      BY <1>1, <1>7, <2>1, <2>5 DEF Op, Segment, TypeOK
    <3>2. CASE arrived[w] % 4 = 3
      <4>1. passed[w] % 4 = 2 /\ passed[w] \div 4 = arrived[w] \div 4
        BY <2>3, <3>2
      <4>2. QED
        BY <1>1, <2>1, <2>2, <3>1, <4>1 DEF ProductComplete, Op, Segment
    <3>3. CASE arrived[w] % 4 = 2
      <4>1. CASE \E v \in Workers : passed[v] = arrived[w]
        BY <1>1, <2>1, <2>2, <3>1, <3>3, <4>1 DEF ProductComplete, Op, Segment
      <4>2. CASE \A v \in Workers : passed[v] # arrived[w]
        <5>1. ASSUME NEW v \in Workers
              PROVE  arrived[v] % 4 = 2 /\ arrived[v] = passed[v] + 1
          <6>1. /\ arrived[v] \in Nat /\ passed[v] \in Nat
                /\ passed[v] <= arrived[w] /\ arrived[v] <= passed[v] + 1
                /\ arrived[v] >= arrived[w] /\ passed[v] # arrived[w]
            BY <1>1, <2>1, <4>2 DEF TypeOK, BarriersAgree
          <6>2. arrived[v] = arrived[w] /\ arrived[v] = passed[v] + 1
            BY <2>3, <6>1
          <6>3. QED
            BY <3>3, <6>2
        <5>2. QED
          BY <2>1, <2>2, <5>1, AllComputed
      <4>3. QED
        BY <4>1, <4>2
    <3>4. QED
      BY <2>3, <3>1, <3>2, <3>3
  <2>6. QED
    BY <2>4, <2>5
<1>8. ASSUME NEW w \in Workers, Pass(w)
      PROVE  ProductComplete'
  BY <1>7, <1>8 DEF ProductComplete
<1>9. ASSUME NEW w \in Workers, LeaveExpert(w) \/ FinishChunks(w) \/ GoOn(w)
      PROVE  ProductComplete'
  BY <1>2, <1>9 DEF LeaveExpert, FinishChunks, GoOn
<1>10. CASE Begin \/ BeginFails \/ SetUpZero \/ End \/ Page \/ UNCHANGED vars
  BY <1>2, <1>10 DEF Begin, BeginFails, SetUpZero, End, Page, vars
<1>11. QED
  BY <1>3, <1>5, <1>6, <1>8, <1>9, <1>10, Steps
-----------------------------------------------------------------------------
(* The theorem                                                             *)

\* The invariant holds before the first product.
LEMMA InitInv == Init => IInv
<1> SUFFICES ASSUME Init
             PROVE  IInv
  OBVIOUS
<1> USE DEF Init, StoreInit
<1>1. 0 \in RowCounts /\ 0 \in Workers /\ Workers \subseteq Nat /\ NExperts \in Nat
  BY MulMatIdAssumption, Sizes
<1>2. \A w \in Workers : arrived[w] = 0 /\ passed[w] = 0 /\ Segment(w) = 0
  BY DEF Segment
<1>3. TypeOK
  <2>1. StoreTypeOK
    BY DEF StoreTypeOK
  <2>2. /\ rows \in [Block -> RowCounts] /\ cur_a \in [Workers -> 0 .. NExperts]
        /\ slices \in [Workers -> Ops \cup {-1}]
    BY <1>1
  <2>3. /\ arrived \in [Workers -> Nat] /\ passed \in [Workers -> Nat]
        /\ chunk_ctr \in [Block -> Nat] /\ chunk \in [Workers -> Nat]
    OBVIOUS
  <2>4. QED
    BY <2>1, <2>2, <2>3 DEF TypeOK
<1>4. BarriersAgree
  BY <1>2 DEF BarriersAgree
<1>5. SlicesAgree
  BY <1>2 DEF SlicesAgree
<1>6. ~Open
  BY <1>1, <1>2 DEF Open
<1>7. LeaseAgrees /\ PagedAreServed
  BY <1>6, Sizes DEF LeaseAgrees, PagedAreServed
<1>8. CountersAgree /\ CountersFresh
  <2>1. \A e \in Block : e % NWorkers \in Workers
    BY Sizes DEF Workers
  <2>2. QED
    BY <1>2, <2>1 DEF CountersAgree, CountersFresh
<1>9. NothingYet
  BY DEF NothingYet
<1>10. ChunksAgree
  BY <1>1, <1>2 DEF ChunksAgree, InChunks
<1>11. ProductComplete
  BY <1>2 DEF ProductComplete
<1>12. QED
  BY <1>3, <1>4, <1>5, <1>7, <1>8, <1>9, <1>10, <1>11 DEF IInv

\* The invariant of the expert product: barriers keep the set-up, the chunks and
\* the end of a product apart, so that the shared work buffer, the counters and
\* the provider's operation are one product's at a time.
THEOREM ProductInvariant == Spec => []IInv
<1>1. IInv /\ [Next]_vars => IInv'
  <2> SUFFICES ASSUME IInv, [Next]_vars
               PROVE  IInv'
    OBVIOUS
  <2>1. TypeOK' /\ BarriersAgree' /\ CountersFresh'
    BY TypeStep, BarriersStep, FreshStep
  <2>2. SlicesAgree' /\ ChunksAgree'
    BY <2>1, SlicesStep, ChunksStep
  <2>3. QED
    BY <2>1, <2>2, LeaseStep, PagedStep, CountersStep, NothingStep, CompleteStep
       DEF IInv
<1>2. QED
  BY <1>1, InitInv, PTL DEF Spec

\* Every variable of the workers, the buffer and the store keeps its type.
THEOREM ProductTypes == Spec => []TypeOK
<1>1. IInv => TypeOK
  BY DEF IInv
<1>2. QED
  BY <1>1, ProductInvariant, PTL

\* A worker that computes through a provider pointer reads a leased block in
\* memory: provider_end closes no lease that another worker still reads under.
THEOREM LeasedWhileRead == Spec => []PointersLeased
<1>1. IInv => PointersLeased
  <2> SUFFICES ASSUME IInv, NEW w \in Workers, Busy(w), cur_a[w] \in expert_data
               PROVE  op_context = Op(w) /\ cur_a[w] \in granted[op_context] \cap resident
    BY DEF PointersLeased
  <2>1. LeaseAgrees /\ TypeOK /\ 0 \in Workers
    BY Sizes DEF IInv
  <2>2. InChunks /\ stage = "group" /\ slices[0] = Op(w)
    BY <2>1, ComputingTogether DEF Busy
  <2>3. Open
    BY <2>1, <2>2 DEF InChunks, Open
  <2>4. op_context # NoContext
    BY <2>1, <2>3 DEF LeaseAgrees
  <2>5. op_context \in LeaseId
    BY <2>1, <2>4 DEF TypeOK
  <2>6. QED
    BY <2>1, <2>2, <2>4, <2>5 DEF LeaseAgrees
<1>2. QED
  BY <1>1, ProductInvariant, PTL

\* While a worker computes, the converted activations are its product's: no
\* worker has run ahead and overwritten its slice.
THEOREM BufferKept == Spec => []BufferOfThisProduct
<1>1. IInv => BufferOfThisProduct
  BY ComputingTogether DEF BufferOfThisProduct, Busy
<1>2. QED
  BY <1>1, ProductInvariant, PTL

\* No chunk is computed twice or by two workers, whichever take the counter.
THEOREM TakenOnce == Spec => []ChunkTakenOnce
<1>1. IInv => ChunkTakenOnce
  <2> SUFFICES ASSUME IInv, NEW w \in Workers, Busy(w)
               PROVE  /\ <<cur_a[w], chunk[w]>> \notin computed
                      /\ \A u \in Workers :
                           Busy(u) /\ u # w /\ cur_a[u] = cur_a[w] => chunk[u] # chunk[w]
    BY DEF ChunkTakenOnce
  <2>1. Runs(w, 1) /\ cur_a[w] < NExperts
    BY DEF Busy
  <2>2. \A u \in Workers : Busy(u) => Started(u)
    BY DEF Busy, Runs, Started
  <2>3. QED
    BY <2>1, <2>2, Holding
<1>2. QED
  BY <1>1, ProductInvariant, PTL

\* No worker gets past the second barrier of a product that lacks a chunk.
THEOREM CompleteProducts == Spec => []ProductComplete
<1>1. IInv => ProductComplete
  BY DEF IInv
<1>2. QED
  BY <1>1, ProductInvariant, PTL

\* The kernels recorded as paged are exactly the products computed from leases.
THEOREM PagedExactly == Spec => []PagedAreServed
<1>1. IInv => PagedAreServed
  BY DEF IInv
<1>2. QED
  BY <1>1, ProductInvariant, PTL
-----------------------------------------------------------------------------
(* The arithmetic of chunks                                                *)

\* A number is its quotient times the divisor and the rest.
LEMMA DivMod ==
    ASSUME NEW n \in Nat, NEW k \in Nat \ {0}
    PROVE  /\ n \div k \in Nat /\ n % k \in 0 .. k - 1
           /\ n = k * (n \div k) + (n % k)
BY SMT

\* Multiplication keeps the order.
LEMMA ProductGrows ==
    ASSUME NEW a \in Nat, NEW b \in Nat, NEW k \in Nat, a <= b
    PROVE  k * a <= k * b /\ k * a \in Nat /\ k * b \in Nat
BY SMT

\* Quotient and rest are found back.
LEMMA DivUnique ==
    ASSUME NEW q \in Nat, NEW r \in Nat, NEW k \in Nat \ {0}, r < k
    PROVE  (k * q + r) \div k = q /\ (k * q + r) % k = r
BY SMT

\* CeilDiv(n, k) spans for each of k parts are enough for n.
LEMMA CeilDivCovers ==
    ASSUME NEW n \in Nat, NEW k \in Nat \ {0}
    PROVE  /\ CeilDiv(n, k) \in Nat /\ k * CeilDiv(n, k) >= n
           /\ n > 0 => CeilDiv(n, k) > 0
<1> DEFINE m == n + k - 1
<1>1. m \in Nat
  OBVIOUS
<1>2. m \div k \in Nat /\ m % k \in 0 .. k - 1 /\ m = k * (m \div k) + (m % k)
  BY <1>1, DivMod
<1>3. k * (m \div k) \in Nat
  BY <1>2, ProductGrows
<1>4. k * (m \div k) >= n
  BY <1>2, <1>3
<1>5. m \div k = 0 => k * (m \div k) = 0
  OBVIOUS
<1> QED BY <1>2, <1>4, <1>5 DEF CeilDiv

\* The spans of one side stay inside of it, no two of them meet, and each place
\* is in one of them.
LEMMA SpansPartition ==
    ASSUME NEW n \in Nat, NEW k \in Nat \ {0}
    PROVE  /\ \A i \in 0 .. k - 1 : Span(i, n, k) \subseteq 0 .. n - 1
           /\ \A i, j \in 0 .. k - 1 : i # j => Span(i, n, k) \cap Span(j, n, k) = {}
           /\ \A x \in 0 .. n - 1 : \E i \in 0 .. k - 1 : x \in Span(i, n, k)
<1> DEFINE dr == CeilDiv(n, k)
<1>1. dr \in Nat /\ k * dr >= n
  BY CeilDivCovers
<1>2. \A i \in Nat : dr * i \in Nat /\ dr * (i + 1) = dr * i + dr
  BY <1>1, SMT
<1>3. \A i \in Nat : Span(i, n, k) = {x \in Nat : dr * i <= x /\ x < dr * (i + 1) /\ x < n}
  <2> TAKE i \in Nat
  <2> DEFINE a == dr * i
  <2>1. a \in Nat /\ dr * (i + 1) = a + dr
    BY <1>2
  <2>2. Span(i, n, k) = a .. (SmallerOf(a + dr, n) - 1)
    BY DEF Span
  <2> HIDE DEF a, dr
  <2>3. \A x \in Nat : x \in a .. (SmallerOf(a + dr, n) - 1) <=> a <= x /\ x < a + dr /\ x < n
    BY <2>1, <1>1 DEF SmallerOf
  <2>4. \A x : x \in a .. (SmallerOf(a + dr, n) - 1) => x \in Nat
    BY <2>1, <1>1 DEF SmallerOf
  <2>5. Span(i, n, k) = {x \in Nat : a <= x /\ x < a + dr /\ x < n}
    BY <2>2, <2>3, <2>4
  <2> QED BY <2>1, <2>5 DEF a
<1>4. \A i \in 0 .. k - 1 : Span(i, n, k) \subseteq 0 .. n - 1
  BY <1>3
<1>5. ASSUME NEW i \in 0 .. k - 1, NEW j \in 0 .. k - 1, i < j
      PROVE  Span(i, n, k) \cap Span(j, n, k) = {}
  <2>1. dr * (i + 1) <= dr * j
    BY <1>1, <1>5, ProductGrows
  <2>2. dr * (i + 1) \in Nat /\ dr * j \in Nat
    BY <1>2
  <2> HIDE DEF dr
  <2> QED BY <1>3, <2>1, <2>2
<1>6. ASSUME NEW x \in 0 .. n - 1
      PROVE  \E i \in 0 .. k - 1 : x \in Span(i, n, k)
  <2>1. dr # 0
    BY <1>6, CeilDivCovers
  <2> DEFINE i == x \div dr
  <2> HIDE DEF dr
  <2>2. i \in Nat /\ x % dr \in 0 .. dr - 1 /\ x = dr * i + (x % dr)
    <3>1. x \in Nat /\ dr \in Nat \ {0}
      BY <1>1, <2>1
    <3> QED BY <3>1, DivMod
  <2>3. dr * i \in Nat /\ dr * (i + 1) = dr * i + dr
    BY <1>2, <2>2
  <2> HIDE DEF i
  <2>4. dr * i <= x /\ x < dr * (i + 1)
    BY <1>1, <2>2, <2>3
  <2>5. i < k
    <3>1. SUFFICES ASSUME k <= i PROVE FALSE
      BY <2>2
    <3>2. dr * k <= dr * i
      BY <1>1, <2>2, <3>1, ProductGrows
    <3>3. k * dr = dr * k
      BY <1>1
    <3> QED BY <1>1, <1>2, <2>3, <2>4, <3>2, <3>3
  <2>6. x \in Span(i, n, k)
    BY <1>3, <2>2, <2>4
  <2> QED BY <2>2, <2>5, <2>6
<1>7. \A i, j \in 0 .. k - 1 : i # j => Span(i, n, k) \cap Span(j, n, k) = {}
  <2> SUFFICES ASSUME NEW i \in 0 .. k - 1, NEW j \in 0 .. k - 1, i # j
               PROVE  Span(i, n, k) \cap Span(j, n, k) = {}
    OBVIOUS
  <2>1. i < j \/ j < i
    OBVIOUS
  <2> QED BY <1>5, <2>1
<1> QED BY <1>4, <1>6, <1>7

\* A grid has at least one chunk along each side.
LEMMA GridType ==
    ASSUME NEW nr0 \in Nat \ {0}, NEW nr1 \in Nat \ {0}, NEW nth \in Nat \ {0},
           NEW numa
    PROVE  \E g1, g2 \in Nat \ {0} : Grid(nr0, nr1, nth, numa) = <<g1, g2>>
<1> DEFINE n0 == CeilDiv(nr0, ChunkSize(nr0, nr1))
           n1 == CeilDiv(nr1, ChunkSize(nr0, nr1))
<1>1. ChunkSize(nr0, nr1) \in Nat \ {0}
  BY DEF ChunkSize
<1>2. n0 \in Nat \ {0} /\ n1 \in Nat \ {0}
  <2>1. ASSUME NEW n \in Nat \ {0}, NEW k \in Nat \ {0} PROVE CeilDiv(n, k) \in Nat \ {0}
    BY CeilDivCovers
  <2> QED BY <1>1, <2>1
<1>3. Grid(nr0, nr1, nth, numa) \in {<<n0, n1>>, <<nth, 1>>, <<1, nth>>}
  BY DEF Grid
<1> QED BY <1>2, <1>3

\* The chunks of one product have no output cell in common, and all cells
\* between them.
LEMMA CellsPartition ==
    ASSUME NEW nr0 \in Nat \ {0}, NEW nr1 \in Nat \ {0}, NEW nth \in Nat \ {0},
           NEW numa
    PROVE  Partitioned(nr0, nr1, nth, numa)
<1> DEFINE all == 0 .. NChunks(nr0, nr1, nth, numa) - 1
           Part(c) == Cells(nr0, nr1, nth, numa, c)
           Output == (0 .. nr0 - 1) \X (0 .. nr1 - 1)
<1>1. PICK g1 \in Nat \ {0}, g2 \in Nat \ {0} :
        Grid(nr0, nr1, nth, numa) = <<g1, g2>>
  BY GridType
<1>2. all = 0 .. g1 * g2 - 1
  BY <1>1 DEF NChunks
<1>3. \A c : Part(c) = Span(c % g1, nr0, g1) \X Span(c \div g1, nr1, g2)
  BY <1>1 DEF Cells
<1>4. ASSUME NEW c \in all
      PROVE  /\ c \in Nat /\ c % g1 \in 0 .. g1 - 1 /\ c \div g1 \in 0 .. g2 - 1
             /\ c = g1 * (c \div g1) + (c % g1)
  <2>1. c \in Nat /\ c < g1 * g2 /\ g1 * g2 \in Nat
    <3>1. g1 * g2 \in Nat
      BY SMT
    <3> HIDE DEF all
    <3> QED BY <1>2, <3>1
  <2>2. c \div g1 \in Nat /\ c % g1 \in 0 .. g1 - 1 /\ c = g1 * (c \div g1) + (c % g1)
    BY <2>1, DivMod
  <2>3. c \div g1 < g2
    <3>1. SUFFICES ASSUME g2 <= c \div g1 PROVE FALSE
      BY <2>2
    <3>2. g1 * g2 <= g1 * (c \div g1) /\ g1 * (c \div g1) \in Nat
      BY <2>2, <3>1, ProductGrows
    <3> QED BY <2>1, <2>2, <3>2
  <2> QED BY <2>1, <2>2, <2>3
<1>5. \A i, j \in 0 .. g1 - 1 : i # j => Span(i, nr0, g1) \cap Span(j, nr0, g1) = {}
  BY SpansPartition
<1>6. \A i, j \in 0 .. g2 - 1 : i # j => Span(i, nr1, g2) \cap Span(j, nr1, g2) = {}
  BY SpansPartition
<1>7. ASSUME NEW c \in all, NEW d \in all, c # d
      PROVE  Part(c) \cap Part(d) = {}
  <2>1. c % g1 # d % g1 \/ c \div g1 # d \div g1
    BY <1>4, <1>7
  <2>2. CASE c % g1 # d % g1
    <3>1. Span(c % g1, nr0, g1) \cap Span(d % g1, nr0, g1) = {}
      BY <1>4, <1>5, <2>2
    <3> QED BY <1>3, <3>1
  <2>3. CASE c \div g1 # d \div g1
    <3>1. Span(c \div g1, nr1, g2) \cap Span(d \div g1, nr1, g2) = {}
      BY <1>4, <1>6, <2>3
    <3> QED BY <1>3, <3>1
  <2> QED BY <2>1, <2>2, <2>3
<1>8. \A c \in all : Part(c) \subseteq Output
  <2> TAKE c \in all
  <2>1. /\ Span(c % g1, nr0, g1) \subseteq 0 .. nr0 - 1
        /\ Span(c \div g1, nr1, g2) \subseteq 0 .. nr1 - 1
    BY <1>4, SpansPartition
  <2> QED BY <1>3, <2>1
<1>9. ASSUME NEW x \in 0 .. nr0 - 1, NEW y \in 0 .. nr1 - 1
      PROVE  \E c \in all : <<x, y>> \in Part(c)
  <2>1. PICK i \in 0 .. g1 - 1 : x \in Span(i, nr0, g1)
    BY SpansPartition
  <2>2. PICK j \in 0 .. g2 - 1 : y \in Span(j, nr1, g2)
    BY SpansPartition
  <2> DEFINE c == g1 * j + i
  <2>3. c \div g1 = j /\ c % g1 = i
    BY DivUnique
  <2>4. g1 * (j + 1) <= g1 * g2 /\ g1 * g2 \in Nat /\ g1 * j \in Nat
    BY ProductGrows
  <2>5. g1 * (j + 1) = g1 * j + g1
    BY SMT
  <2>6. c \in all
    <3>1. c \in Nat /\ c < g1 * g2
      BY <2>4, <2>5
    <3> HIDE DEF c, all
    <3> QED BY <1>2, <2>4, <3>1
  <2>7. <<x, y>> \in Part(c)
    BY <1>3, <2>1, <2>2, <2>3
  <2> QED BY <2>6, <2>7
<1>10. UNION {Part(c) : c \in all} = Output
  <2> HIDE DEF all, Part
  <2>1. ASSUME NEW o \in Output PROVE o \in UNION {Part(c) : c \in all}
    BY <1>9
  <2> QED BY <1>8, <2>1
<1> QED BY <1>7, <1>10 DEF Partitioned

\* Whatever the shape of a product and however many workers share it, the chunks
\* that they take cover its output, and no output cell belongs to two of them.
THEOREM ChunksPartition == ShapeSpec => []ChunksPartitionOutput
<1> DEFINE Shapes == [nr0 : Nat \ {0}, nr1 : Nat \ {0}, nth : Nat \ {0}, numa : BOOLEAN]
<1>1. ShapeInit => shape \in Shapes
  BY DEF ShapeInit
<1>2. shape \in Shapes /\ [MoreWorkers]_shape => (shape \in Shapes)'
  BY DEF MoreWorkers
<1>3. shape \in Shapes => ChunksPartitionOutput
  BY CellsPartition DEF ChunksPartitionOutput
<1> QED BY <1>1, <1>2, <1>3, PTL DEF ShapeSpec

\* In every product a worker meets, the chunks of each expert with rows cover
\* its output, and no output cell belongs to two of them.
THEOREM OutputPartitioned ==
    Spec => [](\A e \in Used : Partitioned(NRows, rows[e], NWorkers, Numa))
<1>1. TypeOK => \A e \in Used : Partitioned(NRows, rows[e], NWorkers, Numa)
  <2> SUFFICES ASSUME TypeOK, NEW e \in Used
               PROVE  Partitioned(NRows, rows[e], NWorkers, Numa)
    OBVIOUS
  <2>1. rows[e] \in Nat \ {0}
    <3>1. rows[e] \in RowCounts /\ rows[e] > 0
      BY DEF TypeOK, Used
    <3>2. RowCounts \subseteq Nat
      BY MulMatIdAssumption
    <3>3. \A n \in RowCounts : n \in Nat
      BY <3>2
    <3> QED BY <3>1, <3>3
  <2>2. NRows \in Nat \ {0} /\ NWorkers \in Nat \ {0}
    BY MulMatIdAssumption
  <2> QED BY <2>1, <2>2, CellsPartition
<1>2. Spec => []TypeOK
  BY ProductTypes
<1> QED BY <1>1, <1>2, PTL
=============================================================================
