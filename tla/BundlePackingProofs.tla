------------------------ MODULE BundlePackingProofs ------------------------
(***************************************************************************)
(* What a published bundle and the checks of its readers are good for, for *)
(* any number of conversions, sources, tensors, layers, experts and edits. *)
(*                                                                         *)
(* Two halves.  OpenedIsSound is about documents of any content: what the  *)
(* checks say of neighbours in a sorted list holds of any two ranges, and  *)
(* ranges that tile a block leave none of it out; of what one reader       *)
(* accepts the other opens exactly what is Plain and has NamesDiffer       *)
(* (PlainOpens, OpensPlain).  PublishedWhole is about                      *)
(* what the converter has written: its inductive invariant IInv says that  *)
(* the blocks so far are those of the first tensors, in order, with their  *)
(* bytes in the shard (Written), so that a bundle nobody has edited is     *)
(* Whole; and a whole bundle passes every check.                           *)
(***************************************************************************)
EXTENDS BundlePacking, FiniteSetTheorems, SequenceTheorems,
        WellFoundedInduction, TLAPS

CoreBlock == [kind : {"core"}, id : Int, offset : Nat, length : Nat]
ExpertBlock ==
    [kind : {"expert"}, layer : Nat, expert : Nat, offset : Nat, length : Nat]
CoreTensor == [id : Int, tensor : Nat, length : Nat]
Segment == [role : ToSet(Roles), offset : Nat, length : Nat, stride : Nat]
Layer == [layer : Nat, segments : [1 .. 3 -> Segment], length : Nat]

\* The documents are well formed, whatever their numbers say.
DocsType ==
    [alignment : Nat, blocks : Seq(CoreBlock \cup ExpertBlock),
     core : Seq(CoreTensor), odd : SUBSET Fields,
     contract : {"plain", "spaced"}, layout_contract : {"plain", "spaced"},
     layer_count : Nat, expert_count : Nat, layers : Seq(Layer)]
TensorName == ({"core"} \cup ToSet(Roles)) \X Nat
Byte == {Zero} \cup (TensorName \X Nat)

\* A conversion that has not begun or has ended, and one at work.
Idle == [pc : {"new", "failed", "dead", "done"}]
Working ==
    [pc : {"core", "experts", "publish"}, source : Sources, alignment : Alignments,
     shard : Seq(Byte), blocks : Seq(CoreBlock \cup ExpertBlock)]
Bundle == [exists : {TRUE}, source : Sources, shard : Seq(Byte), docs : DocsType]

TypeOK ==
    /\ packer \in [Packers -> Idle \cup Working]
    /\ output \in {Absent} \cup Bundle
    /\ edits \in Nat

\* The n-th block of a conversion, but for its offset, and its bytes.
IsBlock(source, n, b) ==
    IF n <= Len(source.core)
    THEN b.kind = "core" /\ b.id = n /\ b.length = source.core[n]
    ELSE LET k == n - Len(source.core) - 1
         IN  /\ b.kind = "expert"
             /\ b.layer = k \div source.experts /\ b.expert = k % source.experts
             /\ b.length = SegmentOffset(source, b.layer + 1, 4)

BlockBytes(source, n) ==
    IF n <= Len(source.core)
    THEN Slice(<<"core", n>>, 0, source.core[n])
    ELSE LET k == n - Len(source.core) - 1
         IN  ExpertBytes(source, k \div source.experts + 1, k % source.experts)

\* The blocks are written in order, aligned and one behind the other, and each
\* of them is in the shard.
Written(source, alignment, shard, blocks) ==
    \A n \in DOMAIN blocks :
        /\ IsBlock(source, n, blocks[n])
        /\ blocks[n].offset % alignment = 0
        /\ EndOf(blocks[n]) <= Len(shard)
        /\ \A m \in DOMAIN blocks : m < n => EndOf(blocks[m]) <= blocks[n].offset
        /\ \A k \in 1 .. blocks[n].length :
             shard[blocks[n].offset + k] = BlockBytes(source, n)[k]

\* The number of blocks that a conversion writes.
NBlocks(source) == Len(source.core) + Len(source.fused) * source.experts

\* A conversion at work has written its first blocks.
WorkAgrees(work) ==
    /\ Splittable(work.source)
    /\ Written(work.source, work.alignment, work.shard, work.blocks)
    /\ work.pc = "core" => Len(work.blocks) <= Len(work.source.core)
    /\ work.pc = "experts" => Len(work.blocks) \in Len(work.source.core) .. NBlocks(work.source)
    /\ work.pc = "publish" => Len(work.blocks) = NBlocks(work.source)

\* A bundle that nobody has edited is all of one conversion.
Whole(bundle) ==
    LET source == bundle.source
        docs == bundle.docs
    IN  /\ Splittable(source) /\ docs.alignment \in Alignments
        /\ Written(source, docs.alignment, bundle.shard, docs.blocks)
        /\ Len(docs.blocks) = NBlocks(source)
        /\ docs.layer_count = Len(source.fused) /\ docs.expert_count = source.experts
        /\ docs.odd = {} /\ docs.contract = "plain" /\ docs.layout_contract = "plain"
        /\ docs.core = [n \in DOMAIN source.core |->
                           [id |-> n, tensor |-> n, length |-> source.core[n]]]
        /\ docs.layers = [l \in DOMAIN source.fused |->
                             [layer |-> l - 1, segments |-> Segments(source, l),
                              length |-> SegmentOffset(source, l, 4)]]

IInv ==
    /\ TypeOK
    /\ \A p \in Packers : Packing(p) => WorkAgrees(packer[p])
    /\ output.exists /\ edits = 0 => Whole(output)
-----------------------------------------------------------------------------
(* Sorted ranges                                                           *)

\* A set of natural numbers that is not empty has a smallest element.
LEMMA Smallest ==
    ASSUME NEW S \in SUBSET Nat, S # {}
    PROVE  \E x \in S : \A y \in S : x <= y
<1> DEFINE Less == {xy \in Nat \X Nat : xy[1] < xy[2]}
<1>1. IsWellFoundedOn(Less, Nat)
  BY NatLessThanWellFounded DEF OpToRel
<1> HIDE DEF Less
<1>2. PICK x \in S : \A y \in S : ~(<<y, x>> \in Less)
  BY <1>1, WFMin
<1>3. ASSUME NEW y \in S
      PROVE  x <= y
  <2>1. x \in Nat /\ y \in Nat /\ ~(<<y, x>> \in Less)
    BY <1>2
  <2>2. ~(y < x)
    BY <2>1 DEF Less
  <2> QED BY <2>1, <2>2
<1> QED BY <1>3

\* A list of ranges.
Ranges(items) ==
    /\ DOMAIN items \subseteq Nat
    /\ \A i \in DOMAIN items : items[i].offset \in Nat /\ items[i].length \in Nat

\* The ranges are sorted by a strict total order.
LEMMA BeforeOrders ==
    ASSUME NEW items, Ranges(items)
    PROVE  /\ \A i \in DOMAIN items : ~Before(items, i, i)
           /\ \A i, j \in DOMAIN items : Before(items, i, j) => ~Before(items, j, i)
           /\ \A i, j \in DOMAIN items : i # j => Before(items, i, j) \/ Before(items, j, i)
           /\ \A i, j, k \in DOMAIN items :
                Before(items, i, j) /\ Before(items, j, k) => Before(items, i, k)
<1> DEFINE N == DOMAIN items
<1>1. N \subseteq Nat
  BY DEF Ranges
<1>2. \A i \in N : items[i].offset \in Nat /\ items[i].length \in Nat
  BY DEF Ranges
<1> HIDE DEF N
<1>3. \A i \in N : ~Before(items, i, i)
  BY <1>1, <1>2 DEF Before
<1>4. \A i, j \in N : Before(items, i, j) => ~Before(items, j, i)
  BY <1>1, <1>2 DEF Before
<1>5. \A i, j \in N : i # j => Before(items, i, j) \/ Before(items, j, i)
  BY <1>1, <1>2 DEF Before
<1>6. \A i, j, k \in N :
        Before(items, i, j) /\ Before(items, j, k) => Before(items, i, k)
  BY <1>1, <1>2 DEF Before
<1> QED BY <1>3, <1>4, <1>5, <1>6 DEF N

\* A set of ranges that is not empty has a first one.
LEMMA FirstRange ==
    ASSUME NEW items, Ranges(items), NEW S \in SUBSET DOMAIN items, S # {}
    PROVE  \E k \in S : \A x \in S : x = k \/ Before(items, k, x)
<1>1. \A x \in S : items[x].offset \in Nat /\ items[x].length \in Nat /\ x \in Nat
  BY DEF Ranges
<1> DEFINE O == {items[x].offset : x \in S}
<1>2. PICK o \in O : \A y \in O : o <= y
  <2>1. O \in SUBSET Nat /\ O # {}
    BY <1>1
  <2> HIDE DEF O
  <2> QED BY <2>1, Smallest
<1> DEFINE A == {x \in S : items[x].offset = o}
           L == {items[x].length : x \in A}
<1>3. PICK l \in L : \A y \in L : l <= y
  <2>1. L \in SUBSET Nat /\ L # {}
    BY <1>1, <1>2
  <2> HIDE DEF L
  <2> QED BY <2>1, Smallest
<1> DEFINE B == {x \in A : items[x].length = l}
<1>4. PICK k \in B : \A y \in B : k <= y
  <2>1. B \in SUBSET Nat /\ B # {}
    BY <1>1, <1>3
  <2> HIDE DEF B
  <2> QED BY <2>1, Smallest
<1>5. ASSUME NEW x \in S, x # k
      PROVE  Before(items, k, x)
  <2>1. /\ items[k].offset = o /\ items[k].length = l /\ k \in S
        /\ o \in Nat /\ l \in Nat /\ k \in Nat /\ x \in Nat
        /\ items[x].offset \in Nat /\ items[x].length \in Nat
    BY <1>1, <1>4
  <2>2. o <= items[x].offset
    BY <1>2
  <2>3. items[x].offset = o => l <= items[x].length
    BY <1>3
  <2>4. items[x].offset = o /\ items[x].length = l => k <= x
    BY <1>4
  <2> QED BY <1>5, <2>1, <2>2, <2>3, <2>4 DEF Before
<1>6. k \in S
  BY <1>4
<1> QED BY <1>5, <1>6

\* A range that is not the last one has a neighbour.
LEMMA Successor ==
    ASSUME NEW items, Ranges(items), NEW i \in DOMAIN items, NEW j \in DOMAIN items,
           Before(items, i, j)
    PROVE  \E k \in DOMAIN items : Follows(items, i, k) /\ (j = k \/ Before(items, k, j))
<1> DEFINE S == {x \in DOMAIN items : Before(items, i, x)}
<1>1. PICK k \in S : \A x \in S : x = k \/ Before(items, k, x)
  <2>1. S \in SUBSET DOMAIN items /\ S # {}
    OBVIOUS
  <2> HIDE DEF S
  <2> QED BY <2>1, FirstRange
<1>2. k \in DOMAIN items /\ Before(items, i, k)
  BY <1>1
<1>3. ASSUME NEW x \in DOMAIN items, Before(items, i, x), Before(items, x, k)
      PROVE  FALSE
  <2>1. x = k \/ Before(items, k, x)
    BY <1>1, <1>3
  <2> QED BY <1>2, <1>3, <2>1, BeforeOrders
<1>4. Follows(items, i, k)
  BY <1>2, <1>3 DEF Follows
<1>5. j = k \/ Before(items, k, j)
  BY <1>1
<1> QED BY <1>2, <1>4, <1>5

\* Ranges of which no two neighbours overlap do not overlap at all.
LEMMA SortedApart ==
    ASSUME NEW items, Ranges(items),
           \A i, j \in DOMAIN items :
               Follows(items, i, j) => items[j].offset >= EndOf(items[i])
    PROVE  \A i, j \in DOMAIN items :
               i # j => \/ items[j].offset >= EndOf(items[i])
                        \/ items[i].offset >= EndOf(items[j])
<1>1. ASSUME NEW i \in DOMAIN items, NEW j \in DOMAIN items, Before(items, i, j)
      PROVE  items[j].offset >= EndOf(items[i])
  <2>1. PICK k \in DOMAIN items : Follows(items, i, k) /\ (j = k \/ Before(items, k, j))
    BY <1>1, Successor
  <2>2. items[k].offset >= EndOf(items[i])
    BY <2>1
  <2>3. /\ items[k].offset \in Nat /\ items[j].offset \in Nat
        /\ items[i].offset \in Nat /\ items[i].length \in Nat
    BY DEF Ranges
  <2>4. items[k].offset <= items[j].offset
    BY <2>1, <2>3 DEF Before
  <2> QED BY <2>2, <2>3, <2>4 DEF EndOf
<1> QED BY <1>1, BeforeOrders

\* Ranges that tile cover every place, and none outside.
LEMMA TilesCover ==
    ASSUME NEW items, Ranges(items), DOMAIN items # {}, NEW n \in Nat,
           \A i \in DOMAIN items : items[i].length >= 1, Tiles(items, n)
    PROVE  \A x \in Nat : x < n =>
             \E i \in DOMAIN items : items[i].offset <= x /\ x < EndOf(items[i])
<1> SUFFICES ASSUME NEW x \in Nat, x < n,
                    \A i \in DOMAIN items : ~(items[i].offset <= x /\ x < EndOf(items[i]))
             PROVE  FALSE
  OBVIOUS
<1>1. \A i \in DOMAIN items : /\ items[i].offset \in Nat /\ items[i].length \in Nat
                              /\ items[i].length >= 1
  BY DEF Ranges
<1> DEFINE Low == {i \in DOMAIN items : items[i].offset <= x}
           D == {n - items[i].offset : i \in Low}
<1>2. Low # {}
  <2>1. PICK f \in DOMAIN items : \A i \in DOMAIN items : i = f \/ Before(items, f, i)
    BY FirstRange
  <2>2. \A i \in DOMAIN items : ~Before(items, i, f)
    BY <2>1, BeforeOrders
  <2>3. items[f].offset = 0
    BY <2>2 DEF Tiles
  <2> QED BY <2>3
<1>3. PICK d \in D : \A y \in D : d <= y
  <2>1. D \in SUBSET Nat /\ D # {}
    BY <1>1, <1>2
  <2> HIDE DEF D
  <2> QED BY <2>1, Smallest
<1>4. PICK k \in Low : d = n - items[k].offset
  BY <1>3
<1>5. /\ k \in DOMAIN items /\ items[k].offset <= x /\ EndOf(items[k]) <= x
      /\ items[k].offset < EndOf(items[k]) /\ EndOf(items[k]) \in Nat
  BY <1>1, <1>4 DEF EndOf
<1>6. PICK j \in DOMAIN items : Before(items, k, j)
  BY <1>5 DEF Tiles
<1>7. PICK i \in DOMAIN items : Follows(items, k, i)
  BY <1>5, <1>6, Successor
<1>8. items[i].offset = EndOf(items[k])
  BY <1>5, <1>7 DEF Tiles
<1>9. i \in Low
  BY <1>5, <1>8
<1>10. d <= n - items[i].offset
  BY <1>3, <1>9
<1> QED BY <1>1, <1>4, <1>5, <1>8, <1>10
-----------------------------------------------------------------------------
(* What the checks of the readers say                                      *)

\* The fields of well-formed documents.
LEMMA DocsFields ==
    ASSUME NEW docs \in DocsType
    PROVE  /\ docs.alignment \in Nat /\ docs.layer_count \in Nat /\ docs.expert_count \in Nat
           /\ docs.blocks \in Seq(CoreBlock \cup ExpertBlock)
           /\ docs.core \in Seq(CoreTensor) /\ docs.layers \in Seq(Layer)
           /\ docs.odd \subseteq Fields
           /\ docs.contract \in {"plain", "spaced"} /\ docs.layout_contract \in {"plain", "spaced"}
BY DEF DocsType

\* The blocks are a list of ranges, each of a core tensor or of an expert.
LEMMA BlocksTyped ==
    ASSUME NEW docs \in DocsType
    PROVE  /\ Ranges(docs.blocks) /\ IsFiniteSet(ExpertAt(docs))
           /\ CoreAt(docs) \cup ExpertAt(docs) = DOMAIN docs.blocks
           /\ CoreAt(docs) \cap ExpertAt(docs) = {}
           /\ \A i \in CoreAt(docs) : docs.blocks[i].id \in Int
           /\ \A i \in ExpertAt(docs) :
                docs.blocks[i].layer \in Nat /\ docs.blocks[i].expert \in Nat
<1> DEFINE b == docs.blocks
<1>1. b \in Seq(CoreBlock \cup ExpertBlock)
  BY DocsFields
<1> HIDE DEF b
<1>2. /\ Len(b) \in Nat /\ DOMAIN b = 1 .. Len(b)
      /\ \A i \in DOMAIN b : b[i] \in CoreBlock \cup ExpertBlock
  BY <1>1, LenProperties, ElementOfSeq
<1>3. \A x \in CoreBlock : x.kind = "core" /\ x.offset \in Nat /\ x.length \in Nat /\ x.id \in Int
  BY DEF CoreBlock
<1>4. \A x \in ExpertBlock : /\ x.kind = "expert" /\ x.offset \in Nat /\ x.length \in Nat
                             /\ x.layer \in Nat /\ x.expert \in Nat
  BY DEF ExpertBlock
<1>5. Ranges(b)
  BY <1>2, <1>3, <1>4 DEF Ranges
<1>6. CoreAt(docs) = {i \in DOMAIN b : b[i] \in CoreBlock}
  BY <1>2, <1>3, <1>4 DEF CoreAt, b
<1>7. ExpertAt(docs) = {i \in DOMAIN b : b[i] \in ExpertBlock}
  BY <1>2, <1>3, <1>4 DEF ExpertAt, b
<1>8. CoreBlock \cap ExpertBlock = {}
  BY <1>3, <1>4
<1>9. IsFiniteSet(DOMAIN b)
  BY <1>2, FS_Interval
<1>10. IsFiniteSet(ExpertAt(docs))
  BY <1>7, <1>9, FS_Subset
<1> QED BY <1>2, <1>3, <1>4, <1>5, <1>6, <1>7, <1>8, <1>10 DEF b

\* A layer of the documents has three ranges, one or none for each role.
LEMMA LayersTyped ==
    ASSUME NEW docs \in DocsType
    PROVE  /\ Len(docs.layers) \in Nat /\ DOMAIN docs.layers = 1 .. Len(docs.layers)
           /\ \A m \in DOMAIN docs.layers :
                LET layer == docs.layers[m]
                IN  /\ layer.layer \in Nat /\ layer.length \in Nat
                    /\ DOMAIN layer.segments = 1 .. 3 /\ Ranges(layer.segments)
                    /\ \A k \in 1 .. 3 : layer.segments[k].role \in ToSet(Roles)
<1> DEFINE L == docs.layers
<1>1. L \in Seq(Layer)
  BY DocsFields
<1> HIDE DEF L
<1>2. /\ Len(L) \in Nat /\ DOMAIN L = 1 .. Len(L)
      /\ \A m \in DOMAIN L : L[m] \in Layer
  BY <1>1, LenProperties, ElementOfSeq
<1>3. \A x \in Layer : x.layer \in Nat /\ x.length \in Nat /\ x.segments \in [1 .. 3 -> Segment]
  BY DEF Layer
<1>4. \A x \in Segment : x.offset \in Nat /\ x.length \in Nat /\ x.role \in ToSet(Roles)
  BY DEF Segment
<1>5. \A x \in [1 .. 3 -> Segment] :
        /\ DOMAIN x = 1 .. 3 /\ Ranges(x)
        /\ \A k \in 1 .. 3 : x[k].role \in ToSet(Roles)
  BY <1>4 DEF Ranges
<1> QED BY <1>2, <1>3, <1>5 DEF L

\* A function into a set as large as its domain that takes no value twice takes
\* every value.
LEMMA OntoIfAsMany ==
    ASSUME NEW S, NEW T, IsFiniteSet(T), NEW f \in [S -> T],
           \A x, y \in S : f[x] = f[y] => x = y
    PROVE  /\ IsFiniteSet(S)
           /\ Cardinality(S) = Cardinality(T) <=> \A t \in T : \E x \in S : f[x] = t
<1>1. f \in Injection(S, T)
  BY DEF Injection, IsInjective
<1>2. IsFiniteSet(S) /\ (Cardinality(S) = Cardinality(T) <=> f \in Surjection(S, T))
  BY <1>1, FS_Injection
<1>3. f \in Surjection(S, T) <=> \A t \in T : \E x \in S : f[x] = t
  BY DEF Surjection
<1> QED BY <1>2, <1>3

\* There are as many routes as layers times experts.
LEMMA RoutesFinite ==
    ASSUME NEW docs \in DocsType
    PROVE  /\ IsFiniteSet(Routes(docs))
           /\ Cardinality(Routes(docs)) = docs.layer_count * docs.expert_count
<1> DEFINE A == 0 .. docs.layer_count - 1
           B == 0 .. docs.expert_count - 1
<1>1. docs.layer_count \in Nat /\ docs.expert_count \in Nat
  BY DocsFields
<1>2. /\ IsFiniteSet(A) /\ Cardinality(A) = docs.layer_count
      /\ IsFiniteSet(B) /\ Cardinality(B) = docs.expert_count
  <2>1. ASSUME NEW n \in Nat
        PROVE  IsFiniteSet(0 .. n - 1) /\ Cardinality(0 .. n - 1) = n
    <3>1. n - 1 \in Int /\ 0 \in Int
      OBVIOUS
    <3>2. /\ IsFiniteSet(0 .. n - 1)
          /\ Cardinality(0 .. n - 1) = IF 0 > n - 1 THEN 0 ELSE n - 1 - 0 + 1
      BY <3>1, FS_Interval
    <3> QED BY <3>2
  <2> QED BY <1>1, <2>1
<1> HIDE DEF A, B
<1>3. IsFiniteSet(A \X B) /\ Cardinality(A \X B) = Cardinality(A) * Cardinality(B)
  BY <1>2, FS_Product
<1> QED BY <1>2, <1>3 DEF Routes, A, B

\* Counting the blocks of experts and looking at their bounds is as good as
\* comparing the set of their routes.
LEMMA RoutesCounted ==
    ASSUME NEW docs \in DocsType, BlocksDiffer(docs)
    PROVE  RoutesOf(docs) = Routes(docs) <=>
             /\ Cardinality(ExpertAt(docs)) = docs.layer_count * docs.expert_count
             /\ \A i \in ExpertAt(docs) :
                  docs.blocks[i].layer < docs.layer_count /\ docs.blocks[i].expert < docs.expert_count
<1> DEFINE S == ExpertAt(docs)
           f == [i \in S |-> RouteAt(docs, i)]
<1>1. docs.layer_count \in Nat /\ docs.expert_count \in Nat
  BY DocsFields
<1>2. \A i \in S : docs.blocks[i].layer \in Nat /\ docs.blocks[i].expert \in Nat
  BY BlocksTyped
<1>3. \A i \in S : RouteAt(docs, i) \in Routes(docs) <=>
        docs.blocks[i].layer < docs.layer_count /\ docs.blocks[i].expert < docs.expert_count
  <2> TAKE i \in S
  <2>1. docs.blocks[i].layer \in Nat /\ docs.blocks[i].expert \in Nat
    BY <1>2
  <2> QED BY <1>1, <2>1 DEF RouteAt, Routes
<1>4. \A i, j \in S : RouteAt(docs, i) = RouteAt(docs, j) => i = j
  BY DEF BlocksDiffer
<1>5. RoutesOf(docs) = {RouteAt(docs, i) : i \in S}
  BY DEF RoutesOf
<1> HIDE DEF S
<1>6. ASSUME \A i \in S : RouteAt(docs, i) \in Routes(docs)
      PROVE  Cardinality(S) = Cardinality(Routes(docs)) <=>
               \A t \in Routes(docs) : \E i \in S : RouteAt(docs, i) = t
  <2>1. f \in [S -> Routes(docs)] /\ \A i \in S : f[i] = RouteAt(docs, i)
    BY <1>6
  <2> HIDE DEF f
  <2>2. \A i, j \in S : f[i] = f[j] => i = j
    BY <1>4, <2>1
  <2>3. Cardinality(S) = Cardinality(Routes(docs)) <=>
          \A t \in Routes(docs) : \E i \in S : f[i] = t
    BY <2>1, <2>2, OntoIfAsMany, RoutesFinite, SMTT(30)
  <2> QED BY <2>1, <2>3
<1>7. RoutesOf(docs) = Routes(docs) <=>
        /\ \A i \in S : RouteAt(docs, i) \in Routes(docs)
        /\ \A t \in Routes(docs) : \E i \in S : RouteAt(docs, i) = t
  BY <1>5
<1>8. Cardinality(Routes(docs)) = docs.layer_count * docs.expert_count
  BY RoutesFinite
<1> QED BY <1>3, <1>6, <1>7, <1>8 DEF S

\* What both readers make sure of.
Checked(docs) ==
    /\ BlocksDiffer(docs) /\ Disjoint(docs.blocks)
    /\ RoutesOf(docs) = Routes(docs)
    /\ CoreFits(docs) /\ LayersFit(docs)
    /\ \A i \in DOMAIN docs.blocks : docs.blocks[i].length >= 1

\* What the runtime opens is checked.
LEMMA OpenedIsChecked ==
    ASSUME NEW bundle, bundle.docs \in DocsType, NativeAccepts(bundle)
    PROVE  /\ Checked(bundle.docs)
           /\ \A i \in DOMAIN bundle.docs.blocks : BlockFits(bundle.docs.blocks[i], Len(bundle.shard))
<1> DEFINE docs == bundle.docs
<1>1. BlocksDiffer(docs) /\ Disjoint(docs.blocks) /\ CoreFits(docs) /\ LayersFit(docs)
  BY DEF NativeAccepts
<1>2. \A b \in ToSet(docs.blocks) : BlockFits(b, Len(bundle.shard))
  BY DEF NativeAccepts
<1>3. RoutesOf(docs) = Routes(docs)
  BY <1>1, RoutesCounted DEF NativeAccepts
<1>4. \A i \in DOMAIN docs.blocks : BlockFits(docs.blocks[i], Len(bundle.shard))
  BY <1>2 DEF ToSet
<1>5. \A i \in DOMAIN docs.blocks : docs.blocks[i].length >= 1
  BY <1>4 DEF BlockFits
<1> QED BY <1>1, <1>3, <1>4, <1>5 DEF Checked

\* Of what is plain, the Python reader accepts only what the runtime opens, but for
\* the names of core tensors.
LEMMA PlainOpens ==
    ASSUME NEW bundle, bundle.docs \in DocsType,
           PythonAccepts(bundle), NamesDiffer(bundle.docs), Plain(bundle.docs)
    PROVE  NativeAccepts(bundle)
<1> DEFINE docs == bundle.docs
<1>1. /\ BlocksDiffer(docs) /\ Disjoint(docs.blocks) /\ CoreFits(docs) /\ LayersFit(docs)
      /\ RoutesOf(docs) = Routes(docs) /\ ContractsAgree(docs)
      /\ \A b \in ToSet(docs.blocks) : BlockFits(b, Len(bundle.shard))
      /\ docs.layer_count >= 1 /\ docs.expert_count >= 1
  <2>1. Loaded(docs) = docs
    BY DEF Plain
  <2> QED BY <2>1 DEF PythonAccepts
<1>2. /\ Cardinality(ExpertAt(docs)) = docs.layer_count * docs.expert_count
      /\ \A i \in ExpertAt(docs) :
           docs.blocks[i].layer < docs.layer_count /\ docs.blocks[i].expert < docs.expert_count
  BY <1>1, RoutesCounted
<1>3. docs.layer_count > 0 /\ docs.expert_count > 0
  <2>1. docs.layer_count \in Nat /\ docs.expert_count \in Nat
    BY DocsFields
  <2> QED BY <1>1, <2>1
<1>4. docs.odd = {}
  BY DEF Plain
<1> QED BY <1>1, <1>2, <1>3, <1>4 DEF NativeAccepts

\* What load_model_map changes: ids of core blocks, and the contract.
LEMMA LoadedFields ==
    ASSUME NEW docs \in DocsType
    PROVE  LET loaded == Loaded(docs)
           IN  /\ loaded.core = docs.core /\ loaded.contract = "plain"
               /\ loaded.layout_contract = docs.layout_contract
               /\ CoreAt(loaded) = CoreAt(docs)
               /\ \A i \in CoreAt(docs) : loaded.blocks[i].id = Stripped(docs.blocks[i].id)
               /\ (\A i \in CoreAt(docs) : docs.blocks[i].id \in Nat) /\ docs.contract = "plain"
                    => loaded = docs
<1> DEFINE B == docs.blocks
           Made == [i \in DOMAIN B |-> IF i \in CoreAt(docs)
                                       THEN [B[i] EXCEPT !.id = Stripped(@)] ELSE B[i]]
           loaded == Loaded(docs)
<1>1. B \in Seq(CoreBlock \cup ExpertBlock) /\ DOMAIN B = 1 .. Len(B) /\ Len(B) \in Nat
  BY DocsFields, LenProperties
<1>2. loaded = [docs EXCEPT !.contract = "plain", !.blocks = Made]
  BY DEF Loaded
<1>3. \A i \in CoreAt(docs) : B[i] \in CoreBlock
  <2>1. \A x \in ExpertBlock : x.kind = "expert"
    BY DEF ExpertBlock
  <2>2. \A i \in DOMAIN B : B[i] \in CoreBlock \cup ExpertBlock
    BY <1>1, ElementOfSeq
  <2> QED BY <2>1, <2>2 DEF CoreAt
<1> HIDE DEF Made
<1>4. /\ loaded.core = docs.core /\ loaded.contract = "plain" /\ loaded.blocks = Made
      /\ loaded.layout_contract = docs.layout_contract
  BY <1>2 DEF DocsType
<1>5. DOMAIN Made = DOMAIN B
  BY DEF Made
<1>6. ASSUME NEW i \in CoreAt(docs)
      PROVE  Made[i].kind = "core" /\ Made[i].id = Stripped(B[i].id)
  <2>1. Made[i] = [B[i] EXCEPT !.id = Stripped(@)]
    BY DEF Made, CoreAt
  <2>2. B[i] \in CoreBlock
    BY <1>3
  <2> QED BY <2>1, <2>2 DEF CoreBlock
<1>7. \A i \in DOMAIN B : i \notin CoreAt(docs) => Made[i] = B[i]
  BY DEF Made
<1>8. CoreAt(loaded) = CoreAt(docs)
  BY <1>4, <1>5, <1>6, <1>7 DEF CoreAt
<1>9. ASSUME \A i \in CoreAt(docs) : B[i].id \in Nat, docs.contract = "plain"
      PROVE  loaded = docs
  <2>1. ASSUME NEW i \in CoreAt(docs)
        PROVE  Made[i] = B[i]
    <3>1. Made[i] = [B[i] EXCEPT !.id = Stripped(@)]
      BY DEF Made, CoreAt
    <3>2. B[i] \in CoreBlock
      BY <1>3
    <3>3. Stripped(B[i].id) = B[i].id
      BY <1>9 DEF Stripped
    <3> QED BY <3>1, <3>2, <3>3 DEF CoreBlock
  <2>2. Made = B
    <3>1. \A i \in DOMAIN B : Made[i] = B[i]
      BY <1>7, <2>1
    <3>2. Made = [i \in DOMAIN B |-> Made[i]]
      BY DEF Made
    <3>3. B = [i \in DOMAIN B |-> B[i]]
      BY <1>1
    <3> QED BY <3>1, <3>2, <3>3, Zenon
  <2>3. docs = [docs EXCEPT !.contract = docs.contract, !.blocks = docs.blocks]
    BY DEF DocsType
  <2> QED BY <1>2, <1>9, <2>2, <2>3
<1> QED BY <1>4, <1>6, <1>8, <1>9

\* What the Python reader accepts and the runtime opens is plain, and no two core
\* tensors of it have one name.
LEMMA OpensPlain ==
    ASSUME NEW bundle, bundle.docs \in DocsType,
           PythonAccepts(bundle), NativeAccepts(bundle)
    PROVE  NamesDiffer(bundle.docs) /\ Plain(bundle.docs)
<1> DEFINE docs == bundle.docs
           loaded == Loaded(docs)
<1>1. /\ NamesDiffer(docs) /\ docs.odd = {} /\ ContractsAgree(docs)
      /\ {c.id : c \in ToSet(docs.core)} = {docs.blocks[i].id : i \in CoreAt(docs)}
  BY DEF NativeAccepts, CoreFits
<1>2. /\ ContractsAgree(loaded)
      /\ {c.id : c \in ToSet(loaded.core)} = {loaded.blocks[i].id : i \in CoreAt(loaded)}
  BY DEF PythonAccepts, CoreFits
<1>3. docs.contract = "plain"
  BY <1>1, <1>2, LoadedFields DEF ContractsAgree
<1>4. ASSUME NEW i \in CoreAt(docs)
      PROVE  docs.blocks[i].id \in Nat
  <2>1. docs.blocks[i].id \in {c.id : c \in ToSet(docs.core)}
    BY <1>1
  <2>2. PICK j \in CoreAt(docs) : docs.blocks[i].id = Stripped(docs.blocks[j].id)
    <3>1. loaded.core = docs.core /\ CoreAt(loaded) = CoreAt(docs)
      BY LoadedFields
    <3>2. PICK j \in CoreAt(docs) : docs.blocks[i].id = loaded.blocks[j].id
      BY <1>2, <2>1, <3>1
    <3>3. loaded.blocks[j].id = Stripped(docs.blocks[j].id)
      BY LoadedFields
    <3> QED BY <3>2, <3>3
  <2>3. docs.blocks[j].id \in Int
    BY BlocksTyped
  <2> QED BY <2>2, <2>3 DEF Stripped
<1>5. loaded = docs
  BY <1>3, <1>4, LoadedFields
<1> QED BY <1>1, <1>5 DEF Plain
-----------------------------------------------------------------------------
(* The regions                                                             *)

\* The block of a route, the layer of a number, the segment of a role and the
\* block of a core tensor are the only ones.
LEMMA Found ==
    ASSUME NEW docs \in DocsType, Checked(docs)
    PROVE  /\ \A i \in ExpertAt(docs) : BlockOf(docs, RouteAt(docs, i)) = docs.blocks[i]
           /\ \A i \in CoreAt(docs) : CoreBlockOf(docs, docs.blocks[i].id) = docs.blocks[i]
           /\ \A m \in DOMAIN docs.layers :
                /\ (CHOOSE l \in ToSet(docs.layers) : l.layer = docs.layers[m].layer)
                     = docs.layers[m]
                /\ \A k \in 1 .. 3 :
                     (CHOOSE s \in ToSet(docs.layers[m].segments) :
                         s.role = docs.layers[m].segments[k].role) = docs.layers[m].segments[k]
<1>1. ASSUME NEW i \in ExpertAt(docs)
      PROVE  BlockOf(docs, RouteAt(docs, i)) = docs.blocks[i]
  <2> DEFINE c == CHOOSE j \in ExpertAt(docs) : RouteAt(docs, j) = RouteAt(docs, i)
  <2>1. c \in ExpertAt(docs) /\ RouteAt(docs, c) = RouteAt(docs, i)
    OBVIOUS
  <2>2. BlockOf(docs, RouteAt(docs, i)) = docs.blocks[c]
    BY DEF BlockOf
  <2> HIDE DEF c
  <2> QED BY <2>1, <2>2 DEF Checked, BlocksDiffer
<1>2. ASSUME NEW i \in CoreAt(docs)
      PROVE  CoreBlockOf(docs, docs.blocks[i].id) = docs.blocks[i]
  <2> DEFINE c == CHOOSE j \in CoreAt(docs) : docs.blocks[j].id = docs.blocks[i].id
  <2>1. c \in CoreAt(docs) /\ docs.blocks[c].id = docs.blocks[i].id
    OBVIOUS
  <2>2. CoreBlockOf(docs, docs.blocks[i].id) = docs.blocks[c]
    BY DEF CoreBlockOf
  <2> HIDE DEF c
  <2> QED BY <2>1, <2>2 DEF Checked, BlocksDiffer
<1>3. ASSUME NEW m \in DOMAIN docs.layers
      PROVE  (CHOOSE l \in ToSet(docs.layers) : l.layer = docs.layers[m].layer) = docs.layers[m]
  <2> DEFINE c == CHOOSE l \in ToSet(docs.layers) : l.layer = docs.layers[m].layer
  <2>1. docs.layers[m] \in ToSet(docs.layers)
    BY DEF ToSet
  <2>2. c \in ToSet(docs.layers) /\ c.layer = docs.layers[m].layer
    BY <2>1
  <2> HIDE DEF c
  <2>3. PICK n \in DOMAIN docs.layers : c = docs.layers[n]
    BY <2>2 DEF ToSet
  <2>4. n = m
    BY <2>2, <2>3 DEF Checked, LayersFit
  <2> QED BY <2>3, <2>4 DEF c
<1>4. ASSUME NEW m \in DOMAIN docs.layers, NEW k \in 1 .. 3
      PROVE  (CHOOSE s \in ToSet(docs.layers[m].segments) :
                 s.role = docs.layers[m].segments[k].role) = docs.layers[m].segments[k]
  <2> DEFINE S == docs.layers[m].segments
             c == CHOOSE s \in ToSet(S) : s.role = S[k].role
  <2>1. DOMAIN S = 1 .. 3
    BY LayersTyped
  <2>2. \A i, j \in 1 .. 3 : S[i].role = S[j].role => i = j
    BY DEF Checked, LayersFit, LayerFits
  <2> HIDE DEF S
  <2>3. S[k] \in ToSet(S)
    BY <2>1 DEF ToSet
  <2>4. c \in ToSet(S) /\ c.role = S[k].role
    BY <2>3
  <2> HIDE DEF c
  <2>5. PICK n \in 1 .. 3 : c = S[n]
    BY <2>1, <2>4 DEF ToSet
  <2>6. n = k
    BY <2>2, <2>4, <2>5
  <2> QED BY <2>5, <2>6 DEF c, S
<1> QED BY <1>1, <1>2, <1>3, <1>4

\* There is a layer for every number and a segment for every role.
LEMMA AllThere ==
    ASSUME NEW docs \in DocsType, Checked(docs)
    PROVE  /\ \A n \in 0 .. docs.layer_count - 1 :
                \E m \in DOMAIN docs.layers : docs.layers[m].layer = n
           /\ \A m \in DOMAIN docs.layers, r \in ToSet(Roles) :
                \E k \in 1 .. 3 : docs.layers[m].segments[k].role = r
<1>1. \A n \in 0 .. docs.layer_count - 1 :
        \E m \in DOMAIN docs.layers : docs.layers[m].layer = n
  <2> DEFINE S == 1 .. docs.layer_count
             T == 0 .. docs.layer_count - 1
             f == [m \in S |-> docs.layers[m].layer]
  <2>1. docs.layer_count \in Nat /\ DOMAIN docs.layers = S
    BY DocsFields, LayersTyped DEF Checked, LayersFit
  <2>2. \A m \in S : docs.layers[m].layer \in Nat /\ docs.layers[m].layer < docs.layer_count
    BY <2>1, LayersTyped DEF Checked, LayersFit
  <2>3. \A m \in S : docs.layers[m].layer \in T
    BY <2>1, <2>2
  <2>4. \A m, n \in S : docs.layers[m].layer = docs.layers[n].layer => m = n
    BY <2>1 DEF Checked, LayersFit
  <2>5. IsFiniteSet(T) /\ Cardinality(S) = Cardinality(T)
    <3>1. docs.layer_count - 1 \in Int /\ 0 \in Int /\ 1 \in Int /\ docs.layer_count \in Int
      BY <2>1
    <3>2. /\ IsFiniteSet(T)
          /\ Cardinality(T) = IF 0 > docs.layer_count - 1 THEN 0
                              ELSE docs.layer_count - 1 - 0 + 1
      BY <3>1, FS_Interval
    <3>3. Cardinality(S) = IF 1 > docs.layer_count THEN 0 ELSE docs.layer_count - 1 + 1
      BY <3>1, FS_Interval
    <3> QED BY <2>1, <3>2, <3>3
  <2> HIDE DEF S, T
  <2>6. f \in [S -> T] /\ \A m \in S : f[m] = docs.layers[m].layer
    BY <2>3
  <2> HIDE DEF f
  <2>7. \A n \in T : \E m \in S : f[m] = n
    <3>1. \A m, n \in S : f[m] = f[n] => m = n
      BY <2>4, <2>6
    <3>2. IsFiniteSet(T) /\ f \in [S -> T]
      BY <2>5, <2>6
    <3>3. Cardinality(S) = Cardinality(T) <=> \A n \in T : \E m \in S : f[m] = n
      BY ONLY <3>1, <3>2, OntoIfAsMany
    <3> QED BY <2>5, <3>3
  <2> QED BY <2>1, <2>6, <2>7 DEF T
<1>2. ASSUME NEW m \in DOMAIN docs.layers, NEW r \in ToSet(Roles)
      PROVE  \E k \in 1 .. 3 : docs.layers[m].segments[k].role = r
  <2> DEFINE role(k) == docs.layers[m].segments[k].role
  <2>1. ToSet(Roles) = {"down", "gate", "up"}
    BY DEF ToSet, Roles
  <2>2. role(1) \in ToSet(Roles) /\ role(2) \in ToSet(Roles) /\ role(3) \in ToSet(Roles)
    BY LayersTyped
  <2>3. \A i, j \in 1 .. 3 : role(i) = role(j) => i = j
    BY DEF Checked, LayersFit, LayerFits
  <2>4. role(1) # role(2) /\ role(2) # role(3) /\ role(1) # role(3)
    BY <2>3
  <2> HIDE DEF role
  <2>5. r = role(1) \/ r = role(2) \/ r = role(3)
    BY <2>1, <2>2, <2>4
  <2> QED BY <2>5 DEF role
<1> QED BY <1>1, <1>2

\* The region of a role of an expert is the segment of that role in the block
\* of the expert.
LEMMA RegionFound ==
    ASSUME NEW docs \in DocsType, Checked(docs),
           NEW i \in ExpertAt(docs), NEW m \in DOMAIN docs.layers, NEW k \in 1 .. 3,
           docs.layers[m].layer = docs.blocks[i].layer
    PROVE  LET segment == docs.layers[m].segments[k]
           IN  /\ Region(docs, RouteAt(docs, i), segment.role)
                    = [first |-> docs.blocks[i].offset + segment.offset, length |-> segment.length]
               /\ docs.blocks[i].length = docs.layers[m].length
<1> DEFINE route == RouteAt(docs, i)
           segment == docs.layers[m].segments[k]
<1>1. route[1] = docs.layers[m].layer
  BY DEF RouteAt
<1>2. BlockOf(docs, route) = docs.blocks[i]
  BY Found
<1>3. (CHOOSE l \in ToSet(docs.layers) : l.layer = route[1]) = docs.layers[m]
  BY <1>1, Found
<1>4. (CHOOSE s \in ToSet(docs.layers[m].segments) : s.role = segment.role) = segment
  BY Found
<1>5. Region(docs, route, segment.role)
        = [first |-> docs.blocks[i].offset + segment.offset, length |-> segment.length]
  BY <1>2, <1>3, <1>4 DEF Region
<1>6. docs.blocks[i].length = docs.layers[m].length
  <2>1. route \in Routes(docs)
    BY DEF Checked, RoutesOf
  <2>2. route = <<docs.layers[m].layer, docs.blocks[i].expert>>
    BY DEF RouteAt
  <2>3. docs.blocks[i].expert \in 0 .. docs.expert_count - 1
    BY <2>1, <2>2 DEF Routes
  <2>4. BlockOf(docs, <<docs.layers[m].layer, docs.blocks[i].expert>>).length
          = docs.layers[m].length
    BY <2>3 DEF Checked, LayersFit, LayerFits
  <2> QED BY <1>2, <2>2, <2>4
<1> QED BY <1>5, <1>6

\* The segments of a layer are within its blocks, apart from each other, and
\* cover the blocks.
LEMMA SegmentsTile ==
    ASSUME NEW docs \in DocsType, Checked(docs), NEW m \in DOMAIN docs.layers
    PROVE  LET S == docs.layers[m].segments
           IN  /\ \A k \in 1 .. 3 : EndOf(S[k]) <= docs.layers[m].length
               /\ \A k, j \in 1 .. 3 : k # j =>
                    S[j].offset >= EndOf(S[k]) \/ S[k].offset >= EndOf(S[j])
               /\ \A x \in Nat : x < docs.layers[m].length =>
                    \E k \in 1 .. 3 : S[k].offset <= x /\ x < EndOf(S[k])
<1> DEFINE S == docs.layers[m].segments
           n == docs.layers[m].length
<1>1. DOMAIN S = 1 .. 3 /\ Ranges(S) /\ n \in Nat
  BY LayersTyped
<1>2. Tiles(S, n) /\ \A s \in ToSet(S) : s.length >= 1 /\ s.offset + s.length <= n
  BY DEF Checked, LayersFit, LayerFits
<1> HIDE DEF S, n
<1>3. \A k \in 1 .. 3 : S[k].length >= 1 /\ EndOf(S[k]) <= n
  BY <1>1, <1>2 DEF ToSet, EndOf
<1>4. \A i, j \in 1 .. 3 : Follows(S, i, j) => S[j].offset >= EndOf(S[i])
  <2> SUFFICES ASSUME NEW i \in 1 .. 3, NEW j \in 1 .. 3, Follows(S, i, j)
               PROVE  S[j].offset >= EndOf(S[i])
    OBVIOUS
  <2>1. S[j].offset = EndOf(S[i])
    BY <1>1, <1>2 DEF Tiles
  <2>2. S[j].offset \in Nat
    BY <1>1 DEF Ranges
  <2> QED BY <2>1, <2>2
<1>5. \A k, j \in 1 .. 3 : k # j =>
         S[j].offset >= EndOf(S[k]) \/ S[k].offset >= EndOf(S[j])
  BY <1>1, <1>4, SortedApart
<1>6. \A x \in Nat : x < n => \E k \in 1 .. 3 : S[k].offset <= x /\ x < EndOf(S[k])
  <2>1. DOMAIN S # {}
    BY <1>1
  <2> QED BY <1>1, <1>2, <1>3, <2>1, TilesCover
<1> QED BY <1>3, <1>5, <1>6 DEF S, n

\* The place of a tensor: the block it is in, and where in the block.
IsPlace(docs, t, i, first, length) ==
    /\ i \in DOMAIN docs.blocks
    /\ RegionOf(docs, t) = [first |-> docs.blocks[i].offset + first, length |-> length]
    /\ first \in Nat /\ length \in Nat /\ first + length <= docs.blocks[i].length
    /\ \/ /\ i \in CoreAt(docs) /\ t = <<"core", docs.blocks[i].id>>
          /\ first = 0 /\ length = docs.blocks[i].length
       \/ /\ i \in ExpertAt(docs)
          /\ \E m \in DOMAIN docs.layers, k \in 1 .. 3 :
               /\ docs.layers[m].layer = docs.blocks[i].layer
               /\ t = <<"expert", RouteAt(docs, i), docs.layers[m].segments[k].role>>
               /\ first = docs.layers[m].segments[k].offset
               /\ length = docs.layers[m].segments[k].length

\* The block of a core tensor is its place.
LEMMA CorePlace ==
    ASSUME NEW docs \in DocsType, Checked(docs), NEW i \in CoreAt(docs)
    PROVE  /\ <<"core", docs.blocks[i].id>> \in Tensors(docs)
           /\ IsPlace(docs, <<"core", docs.blocks[i].id>>, i, 0, docs.blocks[i].length)
<1> DEFINE t == <<"core", docs.blocks[i].id>>
           b == docs.blocks[i]
<1>1. CoreBlockOf(docs, b.id) = b
  BY Found
<1>2. b.offset \in Nat /\ b.length \in Nat /\ i \in DOMAIN docs.blocks
  BY BlocksTyped DEF Ranges
<1>3. RegionOf(docs, t) = [first |-> b.offset, length |-> b.length]
  BY <1>1 DEF RegionOf, CoreRegion, BlockRegion
<1>4. b.offset + 0 = b.offset /\ 0 + b.length <= b.length /\ 0 \in Nat
  BY <1>2
<1>5. b.id \in {c.id : c \in ToSet(docs.core)}
  BY DEF Checked, CoreFits
<1>6. t \in Tensors(docs)
  BY <1>5 DEF Tensors
<1>7. IsPlace(docs, t, i, 0, b.length)
  BY <1>2, <1>3, <1>4 DEF IsPlace
<1> QED BY <1>6, <1>7

\* The segments in the block of an expert are the places of its roles.
LEMMA ExpertPlace ==
    ASSUME NEW docs \in DocsType, Checked(docs),
           NEW i \in ExpertAt(docs), NEW m \in DOMAIN docs.layers, NEW k \in 1 .. 3,
           docs.layers[m].layer = docs.blocks[i].layer
    PROVE  LET segment == docs.layers[m].segments[k]
               t == <<"expert", RouteAt(docs, i), segment.role>>
           IN  t \in Tensors(docs) /\ IsPlace(docs, t, i, segment.offset, segment.length)
<1> DEFINE segment == docs.layers[m].segments[k]
           t == <<"expert", RouteAt(docs, i), segment.role>>
           b == docs.blocks[i]
<1>1. /\ Region(docs, RouteAt(docs, i), segment.role)
           = [first |-> b.offset + segment.offset, length |-> segment.length]
      /\ b.length = docs.layers[m].length
  BY RegionFound
<1>2. segment.offset \in Nat /\ segment.length \in Nat /\ segment.role \in ToSet(Roles)
  BY LayersTyped DEF Ranges
<1>3. segment.offset + segment.length <= b.length
  BY <1>1, SegmentsTile DEF EndOf
<1>4. RouteAt(docs, i) \in Routes(docs) /\ i \in DOMAIN docs.blocks
  BY BlocksTyped DEF Checked, RoutesOf
<1>5. t \in Tensors(docs)
  BY <1>2, <1>4 DEF Tensors
<1>6. RegionOf(docs, t) = Region(docs, RouteAt(docs, i), segment.role)
  BY DEF RegionOf
<1>7. IsPlace(docs, t, i, segment.offset, segment.length)
  <2> HIDE DEF t, b
  <2>1. \E n \in DOMAIN docs.layers, j \in 1 .. 3 :
          /\ docs.layers[n].layer = docs.blocks[i].layer
          /\ t = <<"expert", RouteAt(docs, i), docs.layers[n].segments[j].role>>
          /\ segment.offset = docs.layers[n].segments[j].offset
          /\ segment.length = docs.layers[n].segments[j].length
    BY DEF t
  <2>2. RegionOf(docs, t) = [first |-> docs.blocks[i].offset + segment.offset,
                             length |-> segment.length]
    BY <1>1, <1>6 DEF b
  <2>3. segment.offset + segment.length <= docs.blocks[i].length
    BY <1>3 DEF b
  <2> HIDE DEF segment
  <2> QED BY <1>2, <1>4, <2>1, <2>2, <2>3 DEF IsPlace
<1> QED BY <1>5, <1>7

\* Every tensor has a place.
LEMMA TensorPlaced ==
    ASSUME NEW docs \in DocsType, Checked(docs), NEW t \in Tensors(docs)
    PROVE  \E i, first, length : IsPlace(docs, t, i, first, length)
<1>1. CASE t \in {"core"} \X {c.id : c \in ToSet(docs.core)}
  <2>1. PICK id \in {c.id : c \in ToSet(docs.core)} : t = <<"core", id>>
    BY <1>1
  <2>2. PICK i \in CoreAt(docs) : id = docs.blocks[i].id
    BY <2>1 DEF Checked, CoreFits
  <2> QED BY <2>1, <2>2, CorePlace
<1>2. CASE t \in {"expert"} \X Routes(docs) \X ToSet(Roles)
  <2>1. PICK route \in Routes(docs), r \in ToSet(Roles) : t = <<"expert", route, r>>
    BY <1>2
  <2>2. PICK i \in ExpertAt(docs) : route = RouteAt(docs, i)
    BY DEF Checked, RoutesOf
  <2>3. docs.blocks[i].layer \in 0 .. docs.layer_count - 1
    BY <2>2 DEF Routes, RouteAt
  <2>4. PICK m \in DOMAIN docs.layers : docs.layers[m].layer = docs.blocks[i].layer
    BY <2>3, AllThere
  <2>5. PICK k \in 1 .. 3 : docs.layers[m].segments[k].role = r
    BY AllThere
  <2> QED BY <2>1, <2>2, <2>4, <2>5, ExpertPlace
<1> QED BY <1>1, <1>2 DEF Tensors

\* A tensor's bytes are bytes of its block.
LEMMA PlaceWithin ==
    ASSUME NEW docs \in DocsType, NEW t, NEW i, NEW first, NEW length,
           IsPlace(docs, t, i, first, length)
    PROVE  BytesOf(RegionOf(docs, t)) \subseteq BytesOf(BlockRegion(docs.blocks[i]))
<1> DEFINE b == docs.blocks[i]
           region == RegionOf(docs, t)
<1>1. /\ i \in DOMAIN docs.blocks /\ region = [first |-> b.offset + first, length |-> length]
      /\ first \in Nat /\ length \in Nat /\ first + length <= b.length
  BY DEF IsPlace
<1>2. b.offset \in Nat /\ b.length \in Nat
  BY <1>1, BlocksTyped DEF Ranges
<1> HIDE DEF b, region
<1>3. BytesOf(region) = b.offset + first .. b.offset + first + length - 1
  BY <1>1 DEF BytesOf
<1>4. BytesOf(BlockRegion(b)) = b.offset .. b.offset + b.length - 1
  BY DEF BytesOf, BlockRegion
<1>5. \A x \in b.offset + first .. b.offset + first + length - 1 :
        x \in b.offset .. b.offset + b.length - 1
  BY <1>1, <1>2
<1> QED BY <1>3, <1>4, <1>5 DEF b, region

\* Different blocks have no byte in common.
LEMMA BlocksApart ==
    ASSUME NEW docs \in DocsType, Checked(docs),
           NEW i \in DOMAIN docs.blocks, NEW j \in DOMAIN docs.blocks, i # j
    PROVE  BytesOf(BlockRegion(docs.blocks[i])) \cap BytesOf(BlockRegion(docs.blocks[j])) = {}
<1> DEFINE b == docs.blocks[i]
           c == docs.blocks[j]
<1>1. Ranges(docs.blocks)
  BY BlocksTyped
<1>2. c.offset >= EndOf(b) \/ b.offset >= EndOf(c)
  BY <1>1, SortedApart DEF Checked, Disjoint
<1>3. b.offset \in Nat /\ b.length \in Nat /\ c.offset \in Nat /\ c.length \in Nat
  BY <1>1 DEF Ranges
<1> HIDE DEF b, c
<1>4. /\ BytesOf(BlockRegion(b)) = b.offset .. b.offset + b.length - 1
      /\ BytesOf(BlockRegion(c)) = c.offset .. c.offset + c.length - 1
  BY DEF BytesOf, BlockRegion
<1>5. (b.offset .. b.offset + b.length - 1) \cap (c.offset .. c.offset + c.length - 1) = {}
  BY <1>2, <1>3 DEF EndOf
<1> QED BY <1>4, <1>5 DEF b, c

\* Different tensors have no byte in common.
LEMMA PlacesApart ==
    ASSUME NEW docs \in DocsType, Checked(docs),
           NEW t, NEW i, NEW first, NEW length, IsPlace(docs, t, i, first, length),
           NEW u, NEW j, NEW start, NEW size, IsPlace(docs, u, j, start, size), t # u
    PROVE  BytesOf(RegionOf(docs, t)) \cap BytesOf(RegionOf(docs, u)) = {}
<1>1. i \in DOMAIN docs.blocks /\ j \in DOMAIN docs.blocks
  BY DEF IsPlace
<1>2. CASE i # j
  <2>1. BytesOf(BlockRegion(docs.blocks[i])) \cap BytesOf(BlockRegion(docs.blocks[j])) = {}
    BY <1>1, <1>2, BlocksApart
  <2>2. /\ BytesOf(RegionOf(docs, t)) \subseteq BytesOf(BlockRegion(docs.blocks[i]))
        /\ BytesOf(RegionOf(docs, u)) \subseteq BytesOf(BlockRegion(docs.blocks[j]))
    BY PlaceWithin
  <2> QED BY <2>1, <2>2
<1>3. CASE i = j
  <2>1. CoreAt(docs) \cap ExpertAt(docs) = {}
    BY BlocksTyped
  <2>2. i \in ExpertAt(docs)
    BY <1>3, <2>1 DEF IsPlace
  <2>3. PICK m \in DOMAIN docs.layers, k \in 1 .. 3 :
          /\ docs.layers[m].layer = docs.blocks[i].layer
          /\ t = <<"expert", RouteAt(docs, i), docs.layers[m].segments[k].role>>
          /\ first = docs.layers[m].segments[k].offset
          /\ length = docs.layers[m].segments[k].length
    BY <2>1, <2>2 DEF IsPlace
  <2>4. PICK n \in DOMAIN docs.layers, l \in 1 .. 3 :
          /\ docs.layers[n].layer = docs.blocks[j].layer
          /\ u = <<"expert", RouteAt(docs, j), docs.layers[n].segments[l].role>>
          /\ start = docs.layers[n].segments[l].offset
          /\ size = docs.layers[n].segments[l].length
    BY <1>3, <2>1, <2>2 DEF IsPlace
  <2>5. n = m
    BY <1>3, <2>3, <2>4 DEF Checked, LayersFit
  <2>6. k # l
    BY <1>3, <2>3, <2>4, <2>5
  <2>7. start >= first + length \/ first >= start + size
    BY <2>3, <2>4, <2>5, <2>6, SegmentsTile DEF EndOf
  <2>8. /\ first \in Nat /\ length \in Nat /\ start \in Nat /\ size \in Nat
        /\ RegionOf(docs, t) = [first |-> docs.blocks[i].offset + first, length |-> length]
        /\ RegionOf(docs, u) = [first |-> docs.blocks[i].offset + start, length |-> size]
    BY <1>3 DEF IsPlace
  <2> DEFINE o == docs.blocks[i].offset
  <2>9. o \in Nat
    BY <1>1, BlocksTyped DEF Ranges
  <2>10. /\ BytesOf(RegionOf(docs, t)) = o + first .. o + first + length - 1
         /\ BytesOf(RegionOf(docs, u)) = o + start .. o + start + size - 1
    BY <2>8 DEF BytesOf
  <2> HIDE DEF o
  <2>11. (o + first .. o + first + length - 1) \cap (o + start .. o + start + size - 1) = {}
    BY <2>7, <2>8, <2>9
  <2> QED BY <2>10, <2>11
<1> QED BY <1>2, <1>3

\* Every byte of a block belongs to a tensor.
LEMMA BlockCovered ==
    ASSUME NEW docs \in DocsType, Checked(docs), NEW i \in DOMAIN docs.blocks,
           NEW x \in BytesOf(BlockRegion(docs.blocks[i]))
    PROVE  \E t \in Tensors(docs) : x \in BytesOf(RegionOf(docs, t))
<1> DEFINE b == docs.blocks[i]
<1>1. b.offset \in Nat /\ b.length \in Nat
  BY BlocksTyped DEF Ranges
<1>2. x \in b.offset .. b.offset + b.length - 1
  BY DEF BytesOf, BlockRegion
<1>3. CASE i \in CoreAt(docs)
  <2>1. PICK t \in Tensors(docs) : IsPlace(docs, t, i, 0, b.length)
    BY <1>3, CorePlace
  <2>2. RegionOf(docs, t) = [first |-> b.offset + 0, length |-> b.length]
    BY <2>1 DEF IsPlace
  <2>3. BytesOf(RegionOf(docs, t)) = b.offset + 0 .. b.offset + 0 + b.length - 1
    BY <2>2 DEF BytesOf
  <2> HIDE DEF b
  <2>4. x \in BytesOf(RegionOf(docs, t))
    BY <1>1, <1>2, <2>3
  <2> QED BY <2>4
<1>4. CASE i \in ExpertAt(docs)
  <2>1. docs.blocks[i].layer \in 0 .. docs.layer_count - 1
    <3>1. RouteAt(docs, i) \in Routes(docs)
      BY <1>4 DEF Checked, RoutesOf
    <3> QED BY <3>1 DEF Routes, RouteAt
  <2>2. PICK m \in DOMAIN docs.layers : docs.layers[m].layer = docs.blocks[i].layer
    BY <2>1, AllThere
  <2> DEFINE S == docs.layers[m].segments
             y == x - b.offset
  <2>3. b.length = docs.layers[m].length
    <3>1. 1 \in 1 .. 3
      OBVIOUS
    <3> QED BY <1>4, <2>2, <3>1, RegionFound
  <2>4. y \in Nat /\ y < docs.layers[m].length
    <3> HIDE DEF b
    <3> QED BY <1>1, <1>2, <2>3
  <2>5. PICK k \in 1 .. 3 : S[k].offset <= y /\ y < EndOf(S[k])
    <3> HIDE DEF y
    <3> QED BY <2>4, SegmentsTile
  <2>6. PICK t \in Tensors(docs) : IsPlace(docs, t, i, S[k].offset, S[k].length)
    BY <1>4, <2>2, ExpertPlace
  <2>7. /\ RegionOf(docs, t) = [first |-> b.offset + S[k].offset, length |-> S[k].length]
        /\ S[k].offset \in Nat /\ S[k].length \in Nat
    BY <2>6 DEF IsPlace
  <2>8. BytesOf(RegionOf(docs, t))
          = b.offset + S[k].offset .. b.offset + S[k].offset + S[k].length - 1
    BY <2>7 DEF BytesOf
  <2>9. x \in BytesOf(RegionOf(docs, t))
    <3> HIDE DEF b, S
    <3>1. b.offset \in Nat /\ x \in Int
      BY <1>1, <1>2
    <3>2. S[k].offset <= x - b.offset /\ x - b.offset < S[k].offset + S[k].length
      BY <2>5 DEF EndOf
    <3>3. \A first, o, n \in Nat, z \in Int :
            o <= z - first /\ z - first < o + n => z \in first + o .. first + o + n - 1
      OBVIOUS
    <3>4. x \in b.offset + S[k].offset .. b.offset + S[k].offset + S[k].length - 1
      BY <2>7, <3>1, <3>2, <3>3
    <3> QED BY <2>8, <3>4
  <2> QED BY <2>9
<1> QED BY <1>3, <1>4, BlocksTyped

\* What the documents of a bundle are good for.
LEMMA DocumentsSound ==
    ASSUME output.exists, output.docs \in DocsType, Len(output.shard) \in Nat
    PROVE  AcceptedIsSound
<1> DEFINE docs == output.docs
           Bytes(t) == BytesOf(RegionOf(docs, t))
<1>1. PythonAccepts(output) => (NativeAccepts(output) <=> NamesDiffer(docs) /\ Plain(docs))
  BY PlainOpens, OpensPlain
<1>2. ASSUME NativeAccepts(output)
      PROVE  /\ \A t, u \in Tensors(docs) : t # u => Bytes(t) \cap Bytes(u) = {}
             /\ UNION {Bytes(t) : t \in Tensors(docs)} =
                  UNION {BytesOf(BlockRegion(b)) : b \in ToSet(docs.blocks)}
             /\ \A t \in Tensors(docs) : Bytes(t) \subseteq 0 .. Len(output.shard) - 1
  <2>1. /\ Checked(docs)
        /\ \A i \in DOMAIN docs.blocks : BlockFits(docs.blocks[i], Len(output.shard))
    BY <1>2, OpenedIsChecked
  <2>2. ASSUME NEW t \in Tensors(docs), NEW u \in Tensors(docs), t # u
        PROVE  Bytes(t) \cap Bytes(u) = {}
    <3>1. /\ \E i, first, length : IsPlace(docs, t, i, first, length)
          /\ \E j, start, size : IsPlace(docs, u, j, start, size)
      BY <2>1, TensorPlaced
    <3> QED BY <2>1, <2>2, <3>1, PlacesApart
  <2>3. ASSUME NEW t \in Tensors(docs)
        PROVE  \E i \in DOMAIN docs.blocks :
                 Bytes(t) \subseteq BytesOf(BlockRegion(docs.blocks[i]))
    <3>1. PICK i, first, length : IsPlace(docs, t, i, first, length)
      BY <2>1, TensorPlaced
    <3>2. i \in DOMAIN docs.blocks
      BY <3>1 DEF IsPlace
    <3> QED BY <3>1, <3>2, PlaceWithin
  <2>4. ASSUME NEW i \in DOMAIN docs.blocks
        PROVE  BytesOf(BlockRegion(docs.blocks[i])) \subseteq 0 .. Len(output.shard) - 1
    <3> DEFINE b == docs.blocks[i]
    <3>1. b.offset \in Nat /\ b.length \in Nat
      BY BlocksTyped DEF Ranges
    <3>2. b.offset + b.length <= Len(output.shard)
      BY <2>1 DEF BlockFits
    <3>3. BytesOf(BlockRegion(b)) = b.offset .. b.offset + b.length - 1
      BY DEF BytesOf, BlockRegion
    <3> HIDE DEF b
    <3>4. \A x \in b.offset .. b.offset + b.length - 1 : x \in 0 .. Len(output.shard) - 1
      BY <3>1, <3>2
    <3>5. BytesOf(BlockRegion(b)) \subseteq 0 .. Len(output.shard) - 1
      BY <3>3, <3>4
    <3> QED BY <3>5 DEF b
  <2>5. \A i \in DOMAIN docs.blocks : \A x \in BytesOf(BlockRegion(docs.blocks[i])) :
          \E t \in Tensors(docs) : x \in Bytes(t)
    BY <2>1, BlockCovered
  <2> HIDE DEF Bytes
  <2>6. \A x \in UNION {Bytes(t) : t \in Tensors(docs)} :
          x \in UNION {BytesOf(BlockRegion(b)) : b \in ToSet(docs.blocks)}
    BY <2>3 DEF ToSet
  <2>7. \A x \in UNION {BytesOf(BlockRegion(b)) : b \in ToSet(docs.blocks)} :
          x \in UNION {Bytes(t) : t \in Tensors(docs)}
    BY <2>5 DEF ToSet
  <2>8. \A t \in Tensors(docs) : Bytes(t) \subseteq 0 .. Len(output.shard) - 1
    BY <2>3, <2>4
  <2> QED BY <2>2, <2>6, <2>7, <2>8
<1> QED BY <1>1, <1>2 DEF AcceptedIsSound
-----------------------------------------------------------------------------
(* Types                                                                   *)

\* Another list in a field of the documents.
LEMMA FieldReplaced ==
    ASSUME NEW docs \in DocsType
    PROVE  /\ \A b \in Seq(CoreBlock \cup ExpertBlock) : [docs EXCEPT !.blocks = b] \in DocsType
           /\ \A c \in Seq(CoreTensor) : [docs EXCEPT !.core = c] \in DocsType
           /\ \A l \in Seq(Layer) : [docs EXCEPT !.layers = l] \in DocsType
           /\ \A n \in Nat : /\ [docs EXCEPT !.layer_count = n] \in DocsType
                             /\ [docs EXCEPT !.expert_count = n] \in DocsType
           /\ \A fields \in SUBSET Fields : [docs EXCEPT !.odd = fields] \in DocsType
           /\ [docs EXCEPT !.contract = "spaced"] \in DocsType
           /\ [docs EXCEPT !.layout_contract = "spaced"] \in DocsType
BY DEF DocsType

\* A change to a block leaves a block.
LEMMA BlockEdited ==
    ASSUME NEW docs \in DocsType, NEW i \in DOMAIN docs.blocks, NEW n \in Nat
    PROVE  /\ [docs EXCEPT !.blocks[i].offset = n] \in DocsType
           /\ [docs EXCEPT !.blocks[i].length = n] \in DocsType
           /\ i \in ExpertAt(docs) => [docs EXCEPT !.blocks[i].expert = n] \in DocsType
           /\ i \in CoreAt(docs) =>
                \A m \in Int : [docs EXCEPT !.blocks[i].id = m] \in DocsType
<1> DEFINE B == docs.blocks
           T == CoreBlock \cup ExpertBlock
<1>1. B \in Seq(T)
  BY DocsFields
<1>2. i \in 1 .. Len(B) /\ B[i] \in T
  BY <1>1, LenProperties, ElementOfSeq
<1>3. [B[i] EXCEPT !.offset = n] \in T /\ [B[i] EXCEPT !.length = n] \in T
  BY <1>2 DEF CoreBlock, ExpertBlock
<1>4. i \in ExpertAt(docs) => [B[i] EXCEPT !.expert = n] \in T
  BY <1>2 DEF ExpertAt, CoreBlock, ExpertBlock
<1>5. i \in CoreAt(docs) => \A m \in Int : [B[i] EXCEPT !.id = m] \in T
  BY <1>2 DEF CoreAt, CoreBlock, ExpertBlock
<1> HIDE DEF T
<1>6. \A e \in T : [docs EXCEPT !.blocks = [B EXCEPT ![i] = e]] \in DocsType
  <2> TAKE e \in T
  <2>1. [B EXCEPT ![i] = e] \in Seq(T)
    BY <1>1, <1>2, ExceptSeq
  <2> QED BY <2>1, FieldReplaced DEF T
<1>7. /\ [docs EXCEPT !.blocks[i].offset = n]
           = [docs EXCEPT !.blocks = [B EXCEPT ![i] = [B[i] EXCEPT !.offset = n]]]
      /\ [docs EXCEPT !.blocks[i].length = n]
           = [docs EXCEPT !.blocks = [B EXCEPT ![i] = [B[i] EXCEPT !.length = n]]]
      /\ [docs EXCEPT !.blocks[i].expert = n]
           = [docs EXCEPT !.blocks = [B EXCEPT ![i] = [B[i] EXCEPT !.expert = n]]]
      /\ \A m \in Int : [docs EXCEPT !.blocks[i].id = m]
           = [docs EXCEPT !.blocks = [B EXCEPT ![i] = [B[i] EXCEPT !.id = m]]]
  OBVIOUS
<1> QED BY <1>3, <1>4, <1>5, <1>6, <1>7

\* A change to a core tensor leaves a core tensor.
LEMMA CoreEdited ==
    ASSUME NEW docs \in DocsType, NEW i \in DOMAIN docs.core, NEW n \in Nat
    PROVE  /\ [docs EXCEPT !.core[i].length = n] \in DocsType
           /\ [docs EXCEPT !.core[i].tensor = n] \in DocsType
           /\ \A m \in Int : [docs EXCEPT !.core[i].id = m] \in DocsType
<1> DEFINE C == docs.core
<1>1. C \in Seq(CoreTensor)
  BY DocsFields
<1>2. i \in 1 .. Len(C) /\ C[i] \in CoreTensor
  BY <1>1, LenProperties, ElementOfSeq
<1>3. /\ [C[i] EXCEPT !.length = n] \in CoreTensor /\ [C[i] EXCEPT !.tensor = n] \in CoreTensor
      /\ \A m \in Int : [C[i] EXCEPT !.id = m] \in CoreTensor
  BY <1>2 DEF CoreTensor
<1>4. \A e \in CoreTensor : [docs EXCEPT !.core = [C EXCEPT ![i] = e]] \in DocsType
  <2> TAKE e \in CoreTensor
  <2>1. [C EXCEPT ![i] = e] \in Seq(CoreTensor)
    BY <1>1, <1>2, ExceptSeq
  <2> QED BY <2>1, FieldReplaced
<1>5. /\ [docs EXCEPT !.core[i].length = n]
           = [docs EXCEPT !.core = [C EXCEPT ![i] = [C[i] EXCEPT !.length = n]]]
      /\ [docs EXCEPT !.core[i].tensor = n]
           = [docs EXCEPT !.core = [C EXCEPT ![i] = [C[i] EXCEPT !.tensor = n]]]
      /\ \A m \in Int : [docs EXCEPT !.core[i].id = m]
           = [docs EXCEPT !.core = [C EXCEPT ![i] = [C[i] EXCEPT !.id = m]]]
  OBVIOUS
<1> QED BY <1>3, <1>4, <1>5

\* A change to a layer, or to a segment of it, leaves a layer.
LEMMA LayerEdited ==
    ASSUME NEW docs \in DocsType, NEW l \in DOMAIN docs.layers, NEW n \in Nat,
           NEW i \in 1 .. 3, NEW r \in ToSet(Roles)
    PROVE  /\ [docs EXCEPT !.layers[l].length = n] \in DocsType
           /\ [docs EXCEPT !.layers[l].layer = n] \in DocsType
           /\ [docs EXCEPT !.layers[l].segments[i].offset = n] \in DocsType
           /\ [docs EXCEPT !.layers[l].segments[i].length = n,
                           !.layers[l].segments[i].stride = n] \in DocsType
           /\ [docs EXCEPT !.layers[l].segments[i].role = r] \in DocsType
<1> DEFINE L == docs.layers
           S == L[l].segments
<1>1. L \in Seq(Layer)
  BY DocsFields
<1>2. l \in 1 .. Len(L) /\ L[l] \in Layer
  BY <1>1, LenProperties, ElementOfSeq
<1>3. S \in [1 .. 3 -> Segment]
  BY <1>2 DEF Layer
<1>4. /\ [L[l] EXCEPT !.length = n] \in Layer /\ [L[l] EXCEPT !.layer = n] \in Layer
      /\ \A s \in [1 .. 3 -> Segment] : [L[l] EXCEPT !.segments = s] \in Layer
  BY <1>2 DEF Layer
<1>5. \A e \in Segment : [S EXCEPT ![i] = e] \in [1 .. 3 -> Segment]
  BY <1>3
<1>6. /\ [S[i] EXCEPT !.offset = n] \in Segment
      /\ [[S[i] EXCEPT !.length = n] EXCEPT !.stride = n] \in Segment
      /\ [S[i] EXCEPT !.role = r] \in Segment
  BY <1>3 DEF Segment
<1>7. \A e \in Layer : [docs EXCEPT !.layers = [L EXCEPT ![l] = e]] \in DocsType
  <2> TAKE e \in Layer
  <2>1. [L EXCEPT ![l] = e] \in Seq(Layer)
    BY <1>1, <1>2, ExceptSeq
  <2> QED BY <2>1, FieldReplaced
<1> DEFINE To(e) == [docs EXCEPT !.layers = [L EXCEPT ![l] = e]]
           Put(e) == To([L[l] EXCEPT !.segments = [S EXCEPT ![i] = e]])
<1>8. \A e \in Segment : Put(e) \in DocsType
  BY <1>4, <1>5, <1>7
<1>9. /\ [docs EXCEPT !.layers[l].length = n] = To([L[l] EXCEPT !.length = n])
      /\ [docs EXCEPT !.layers[l].layer = n] = To([L[l] EXCEPT !.layer = n])
      /\ [docs EXCEPT !.layers[l].segments[i].offset = n] = Put([S[i] EXCEPT !.offset = n])
      /\ [docs EXCEPT !.layers[l].segments[i].role = r] = Put([S[i] EXCEPT !.role = r])
  OBVIOUS
<1>10. [docs EXCEPT !.layers[l].segments[i].length = n,
                    !.layers[l].segments[i].stride = n]
         = Put([[S[i] EXCEPT !.length = n] EXCEPT !.stride = n])
  BY <1>1, <1>2, <1>3, ZenonT(60) DEF DocsType, Layer
<1>11. To([L[l] EXCEPT !.length = n]) \in DocsType /\ To([L[l] EXCEPT !.layer = n]) \in DocsType
  BY <1>4, <1>7
<1> HIDE DEF To, Put
<1>12. /\ Put([S[i] EXCEPT !.offset = n]) \in DocsType
       /\ Put([S[i] EXCEPT !.role = r]) \in DocsType
       /\ Put([[S[i] EXCEPT !.length = n] EXCEPT !.stride = n]) \in DocsType
  BY <1>6, <1>8
<1> QED BY <1>9, <1>10, <1>11, <1>12

\* However the numbers are changed, the documents stay well formed.
LEMMA EditedTyped ==
    ASSUME NEW docs \in DocsType, NEW d \in Edited(docs)
    PROVE  d \in DocsType
<1>1. \/ \E i \in DOMAIN docs.blocks : d \in EditedBlock(docs, i)
      \/ \E i \in CoreAt(docs) : d \in EditedId(docs, i)
      \/ \E i \in ExpertAt(docs) : d \in EditedRoute(docs, i)
      \/ \E i \in DOMAIN docs.core : d \in EditedCore(docs, i)
      \/ \E l \in DOMAIN docs.layers : d \in EditedLayer(docs, l)
      \/ d \in EditedCounts(docs) \/ d \in EditedForm(docs)
  BY DEF Edited
<1>2. \A n : \A m \in Near(n) : m \in Nat
  BY DEF Near
<1>3. "up" \in ToSet(Roles) /\ 1 \in 1 .. 3 /\ 0 \in Nat
  BY DEF ToSet, Roles
<1>4. DOMAIN docs.core \subseteq Nat /\ Ids(docs) \subseteq Int
  <2>1. docs.core \in Seq(CoreTensor)
    BY DocsFields
  <2>2. DOMAIN docs.core = 1 .. Len(docs.core)
    BY <2>1, LenProperties
  <2> QED BY <2>2 DEF Ids
<1>5. ASSUME NEW i \in CoreAt(docs), d \in EditedId(docs, i)
       PROVE  d \in DocsType
  <2>1. \E n \in Ids(docs) : d = [docs EXCEPT !.blocks[i].id = n]
    BY <1>5, Zenon DEF EditedId
  <2>2. i \in DOMAIN docs.blocks
    BY DEF CoreAt
  <2>3. \A n \in Int : [docs EXCEPT !.blocks[i].id = n] \in DocsType
    BY <1>3, <2>2, BlockEdited, Zenon
  <2> QED BY <1>4, <2>1, <2>3, Zenon
<1>6. ASSUME NEW i \in DOMAIN docs.blocks, d \in EditedBlock(docs, i)
      PROVE  d \in DocsType
  <2>1. \/ \E n \in Near(docs.blocks[i].offset) : d = [docs EXCEPT !.blocks[i].offset = n]
        \/ \E n \in Near(docs.blocks[i].length) : d = [docs EXCEPT !.blocks[i].length = n]
    BY <1>6, Zenon DEF EditedBlock
  <2>2. \A n \in Nat : /\ [docs EXCEPT !.blocks[i].offset = n] \in DocsType
                       /\ [docs EXCEPT !.blocks[i].length = n] \in DocsType
    BY BlockEdited, Zenon
  <2> QED BY <1>2, <2>1, <2>2, Zenon
<1>7. ASSUME NEW i \in ExpertAt(docs), d \in EditedRoute(docs, i)
      PROVE  d \in DocsType
  <2>1. \E n \in Near(docs.blocks[i].expert) : d = [docs EXCEPT !.blocks[i].expert = n]
    BY <1>7, Zenon DEF EditedRoute
  <2>2. i \in DOMAIN docs.blocks
    BY DEF ExpertAt
  <2>3. \A n \in Nat : [docs EXCEPT !.blocks[i].expert = n] \in DocsType
    BY <2>2, BlockEdited, Zenon
  <2> QED BY <1>2, <2>1, <2>3, Zenon
<1>8. ASSUME NEW i \in DOMAIN docs.core, d \in EditedCore(docs, i)
      PROVE  d \in DocsType
  <2>1. \/ \E n \in Near(docs.core[i].length) : d = [docs EXCEPT !.core[i].length = n]
        \/ \E n \in DOMAIN docs.core : d = [docs EXCEPT !.core[i].tensor = n]
        \/ \E n \in Ids(docs) : d = [docs EXCEPT !.core[i].id = n]
    BY <1>8, Zenon DEF EditedCore
  <2>2. \A n \in Nat : /\ [docs EXCEPT !.core[i].length = n] \in DocsType
                       /\ [docs EXCEPT !.core[i].tensor = n] \in DocsType
    BY CoreEdited, Zenon
  <2>3. \A n \in Int : [docs EXCEPT !.core[i].id = n] \in DocsType
    BY <1>3, CoreEdited, Zenon
  <2> QED BY <1>2, <1>4, <2>1, <2>2, <2>3, Zenon
<1>9. ASSUME NEW l \in DOMAIN docs.layers, NEW i \in 1 .. 3, d \in EditedSegment(docs, l, i)
      PROVE  d \in DocsType
  <2>1. \/ \E n \in Near(docs.layers[l].segments[i].offset) :
               d = [docs EXCEPT !.layers[l].segments[i].offset = n]
        \/ \E n \in Near(docs.layers[l].segments[i].length) :
               d = [docs EXCEPT !.layers[l].segments[i].length = n,
                                !.layers[l].segments[i].stride = n]
        \/ \E r \in ToSet(Roles) : d = [docs EXCEPT !.layers[l].segments[i].role = r]
    BY <1>9, Zenon DEF EditedSegment
  <2>2. \A n \in Nat :
          /\ [docs EXCEPT !.layers[l].segments[i].offset = n] \in DocsType
          /\ [docs EXCEPT !.layers[l].segments[i].length = n,
                          !.layers[l].segments[i].stride = n] \in DocsType
    BY <1>3, LayerEdited, Zenon
  <2>3. \A r \in ToSet(Roles) : [docs EXCEPT !.layers[l].segments[i].role = r] \in DocsType
    BY <1>3, LayerEdited, Zenon
  <2> QED BY <1>2, <2>1, <2>2, <2>3, Zenon
<1>10. ASSUME NEW l \in DOMAIN docs.layers, d \in EditedLayer(docs, l)
      PROVE  d \in DocsType
  <2>1. ASSUME NEW i \in 1 .. 3, d \in EditedSegment(docs, l, i)
        PROVE  d \in DocsType
    BY <1>9, <2>1, Zenon
  <2>2. \/ \E n \in Near(docs.layers[l].length) : d = [docs EXCEPT !.layers[l].length = n]
        \/ \E n \in Near(docs.layers[l].layer) : d = [docs EXCEPT !.layers[l].layer = n]
        \/ \E i \in 1 .. 3 : d \in EditedSegment(docs, l, i)
    BY <1>10, Zenon DEF EditedLayer
  <2>3. \A n \in Nat : /\ [docs EXCEPT !.layers[l].length = n] \in DocsType
                       /\ [docs EXCEPT !.layers[l].layer = n] \in DocsType
    BY <1>3, LayerEdited, Zenon
  <2> QED BY <1>2, <2>1, <2>2, <2>3, Zenon
<1>11. ASSUME d \in EditedCounts(docs)
      PROVE  d \in DocsType
  <2>1. \/ \E n \in Near(docs.layer_count) : d = [docs EXCEPT !.layer_count = n]
        \/ \E n \in Near(docs.expert_count) : d = [docs EXCEPT !.expert_count = n]
    BY <1>11, Zenon DEF EditedCounts
  <2>2. \A n \in Nat : /\ [docs EXCEPT !.layer_count = n] \in DocsType
                       /\ [docs EXCEPT !.expert_count = n] \in DocsType
    BY FieldReplaced, Zenon
  <2> QED BY <1>2, <2>1, <2>2, Zenon
<1>12. ASSUME d \in EditedForm(docs)
       PROVE  d \in DocsType
  <2>1. \/ \E field \in Fields : d = [docs EXCEPT !.odd = @ \cup {field}]
        \/ d = [docs EXCEPT !.contract = "spaced"]
        \/ d = [docs EXCEPT !.layout_contract = "spaced"]
    BY <1>12 DEF EditedForm
  <2>2. \A field \in Fields : docs.odd \cup {field} \in SUBSET Fields
    BY DocsFields
  <2> QED BY <2>1, <2>2, FieldReplaced
<1> QED BY <1>1, <1>6, <1>7, <1>8, <1>10, <1>11, <1>5, <1>12
-----------------------------------------------------------------------------
(* The layout                                                              *)

\* A number is its quotient times the divisor and the rest, and these are found
\* back.
LEMMA DivMod ==
    ASSUME NEW n \in Nat, NEW k \in Nat \ {0}
    PROVE  /\ n \div k \in Nat /\ n % k \in 0 .. k - 1
           /\ n = k * (n \div k) + (n % k)
BY SMT

\* The quotient and the rest of a product and a smaller rest.
LEMMA DivUnique ==
    ASSUME NEW q \in Nat, NEW r \in Nat, NEW k \in Nat \ {0}, r < k
    PROVE  (k * q + r) \div k = q /\ (k * q + r) % k = r
BY SMT

\* Multiplication keeps the order.
LEMMA ProductGrows ==
    ASSUME NEW a \in Nat, NEW b \in Nat, NEW k \in Nat, a <= b
    PROVE  k * a <= k * b /\ k * a \in Nat /\ k * b \in Nat
BY SMT

\* The types of a source.
LEMMA SourceTyped ==
    ASSUME NEW s \in Sources
    PROVE  /\ s.core \in Seq(Nat \ {0}) /\ Len(s.core) \in Nat
           /\ DOMAIN s.core = 1 .. Len(s.core)
           /\ \A n \in 1 .. Len(s.core) : s.core[n] \in Nat \ {0}
           /\ s.experts \in Nat \ {0}
           /\ Len(s.fused) \in Nat \ {0} /\ DOMAIN s.fused = 1 .. Len(s.fused)
           /\ \A l \in 1 .. Len(s.fused), r \in ToSet(Roles) : s.fused[l][r] \in Nat \ {0}
<1> DEFINE F == [{"down", "gate", "up"} -> Nat \ {0}]
<1>1. s.core \in Seq(Nat \ {0}) /\ s.experts \in Nat \ {0} /\ s.fused \in Seq(F)
      /\ s.fused # <<>>
  BY PackingAssumption
<1>2. ToSet(Roles) = {"down", "gate", "up"}
  BY DEF ToSet, Roles
<1>3. \A f \in F, r \in ToSet(Roles) : f[r] \in Nat \ {0}
  BY <1>2
<1> HIDE DEF F
<1>4. /\ Len(s.core) \in Nat /\ DOMAIN s.core = 1 .. Len(s.core)
      /\ \A n \in 1 .. Len(s.core) : s.core[n] \in Nat \ {0}
  BY <1>1, LenProperties, ElementOfSeq
<1>5. /\ Len(s.fused) \in Nat \ {0} /\ DOMAIN s.fused = 1 .. Len(s.fused)
      /\ \A l \in 1 .. Len(s.fused) : s.fused[l] \in F
  BY <1>1, LenProperties, ElementOfSeq, EmptySeq
<1> QED BY <1>1, <1>3, <1>4, <1>5

\* The lengths of the slices and segments of a layer.
LEMMA LayerLengths ==
    ASSUME NEW s \in Sources, Splittable(s), NEW l \in 1 .. Len(s.fused)
    PROVE  /\ \A i \in 1 .. 3 :
                /\ Roles[i] \in ToSet(Roles) /\ SliceLength(s, l, Roles[i]) \in Nat \ {0}
                /\ SegmentOffset(s, l, i) \in Nat
                /\ SegmentOffset(s, l, i + 1) = SegmentOffset(s, l, i) + SliceLength(s, l, Roles[i])
           /\ SegmentOffset(s, l, 1) = 0 /\ SegmentOffset(s, l, 4) \in Nat \ {0}
<1> DEFINE n(i) == SliceLength(s, l, Roles[i])
<1>1. \A i \in 1 .. 3 : Roles[i] \in ToSet(Roles)
  BY DEF Roles, ToSet
<1>2. ASSUME NEW r \in ToSet(Roles)
      PROVE  SliceLength(s, l, r) \in Nat \ {0}
  <2> DEFINE f == s.fused[l][r]
             e == s.experts
  <2>1. f \in Nat \ {0} /\ e \in Nat \ {0} /\ f % e = 0
    BY SourceTyped DEF Splittable
  <2> HIDE DEF f, e
  <2>2. f \div e \in Nat /\ f = e * (f \div e) + (f % e)
    BY <2>1, DivMod
  <2>3. f \div e = 0 => e * (f \div e) = 0
    BY <2>1
  <2>4. f \div e # 0
    BY <2>1, <2>2, <2>3
  <2> QED BY <2>2, <2>4 DEF SliceLength, f, e
<1>3. n(1) \in Nat \ {0} /\ n(2) \in Nat \ {0} /\ n(3) \in Nat \ {0}
  BY <1>1, <1>2
<1> HIDE DEF n
<1>4. /\ SegmentOffset(s, l, 1) = 0 /\ SegmentOffset(s, l, 2) = n(1)
      /\ SegmentOffset(s, l, 3) = n(1) + n(2) /\ SegmentOffset(s, l, 4) = n(1) + n(2) + n(3)
  <2>1. \A i : SegmentOffset(s, l, i)
                 = (IF 1 < i THEN n(1) ELSE 0) + (IF 2 < i THEN n(2) ELSE 0)
                     + (IF 3 < i THEN n(3) ELSE 0)
    BY DEF SegmentOffset, n
  <2> QED BY <1>3, <2>1
<1>5. \A i \in 1 .. 3 : /\ SegmentOffset(s, l, i) \in Nat /\ n(i) \in Nat \ {0}
                        /\ SegmentOffset(s, l, i + 1) = SegmentOffset(s, l, i) + n(i)
  <2>1. 1 .. 3 = {1, 2, 3} /\ 1 + 1 = 2 /\ 2 + 1 = 3 /\ 3 + 1 = 4
    OBVIOUS
  <2> QED BY <1>3, <1>4, <2>1
<1> QED BY <1>1, <1>3, <1>4, <1>5 DEF n

\* The bytes of a slice.
LEMMA SliceBytes ==
    ASSUME NEW tensor \in TensorName, NEW first \in Nat, NEW length \in Nat
    PROVE  /\ Slice(tensor, first, length) \in Seq(Byte)
           /\ Len(Slice(tensor, first, length)) = length
           /\ \A k \in 1 .. length : Slice(tensor, first, length)[k] = <<tensor, first + k - 1>>
<1> DEFINE f == [i \in 1 .. length |-> <<tensor, first + i - 1>>]
<1>1. \A i \in 1 .. length : <<tensor, first + i - 1>> \in Byte
  <2> TAKE i \in 1 .. length
  <2>1. first + i - 1 \in Nat
    OBVIOUS
  <2> QED BY <2>1 DEF Byte
<1>2. f \in [1 .. length -> Byte]
  BY <1>1
<1>3. f \in Seq(Byte) /\ Len(f) = length
  <2> HIDE DEF f
  <2> QED BY <1>2
<1> QED BY <1>3 DEF Slice

\* The bytes of two pieces joined.
LEMMA Joined ==
    ASSUME NEW s \in Seq(Byte), NEW t \in Seq(Byte)
    PROVE  /\ s \o t \in Seq(Byte) /\ Len(s) \in Nat /\ Len(t) \in Nat
           /\ Len(s \o t) = Len(s) + Len(t)
           /\ \A k \in 1 .. Len(s) : (s \o t)[k] = s[k]
           /\ \A k \in 1 .. Len(t) : (s \o t)[Len(s) + k] = t[k]
<1>1. s \o t \in Seq(Byte) /\ Len(s \o t) = Len(s) + Len(t)
  BY ConcatProperties
<1>2. \A i \in 1 .. Len(s) + Len(t) :
        (s \o t)[i] = IF i <= Len(s) THEN s[i] ELSE t[i - Len(s)]
  BY ConcatProperties
<1>3. Len(s) \in Nat /\ Len(t) \in Nat
  BY LenProperties
<1>4. ASSUME NEW k \in 1 .. Len(s)
      PROVE  (s \o t)[k] = s[k]
  <2>1. k \in 1 .. Len(s) + Len(t) /\ k <= Len(s)
    BY <1>3
  <2> QED BY <1>2, <2>1
<1>5. ASSUME NEW k \in 1 .. Len(t)
      PROVE  (s \o t)[Len(s) + k] = t[k]
  <2>1. Len(s) + k \in 1 .. Len(s) + Len(t) /\ ~(Len(s) + k <= Len(s)) /\ Len(s) + k - Len(s) = k
    BY <1>3
  <2> QED BY <1>2, <2>1
<1> QED BY <1>1, <1>3, <1>4, <1>5

\* Padding to the alignment keeps what is there.
LEMMA Padded ==
    ASSUME NEW shard \in Seq(Byte), NEW alignment \in Nat \ {0}
    PROVE  LET a == Aligned(shard, alignment)
           IN  /\ a \in Seq(Byte) /\ Len(a) \in Nat /\ Len(a) >= Len(shard)
               /\ Len(a) % alignment = 0
               /\ \A k \in 1 .. Len(shard) : a[k] = shard[k]
<1> DEFINE n == Len(shard)
           q == (n + alignment - 1) \div alignment
           end == q * alignment
           pad == [i \in 1 .. end - n |-> Zero]
<1>1. n \in Nat /\ n + alignment - 1 \in Nat
  BY LenProperties
<1> HIDE DEF n
<1>2. /\ q \in Nat /\ (n + alignment - 1) % alignment \in 0 .. alignment - 1
      /\ n + alignment - 1 = alignment * q + ((n + alignment - 1) % alignment)
  BY <1>1, DivMod
<1> HIDE DEF q
<1>3. end = alignment * q /\ end \in Nat
  BY <1>2
<1>4. end >= n
  BY <1>1, <1>2, <1>3
<1>5. end % alignment = 0
  <2>1. 0 \in Nat /\ 0 < alignment
    OBVIOUS
  <2>2. (alignment * q + 0) % alignment = 0
    BY <1>2, <2>1, DivUnique
  <2>3. alignment * q + 0 = end
    BY <1>3
  <2> QED BY <2>2, <2>3
<1> HIDE DEF end
<1>6. pad \in Seq(Byte) /\ Len(pad) = end - n
  <2>1. pad \in [1 .. end - n -> Byte] /\ end - n \in Nat
    BY <1>1, <1>3, <1>4 DEF Byte
  <2> HIDE DEF pad
  <2> QED BY <2>1
<1>7. Aligned(shard, alignment) = shard \o pad
  BY DEF Aligned, pad, end, q, n
<1> HIDE DEF pad
<1>8. /\ shard \o pad \in Seq(Byte) /\ Len(shard \o pad) = n + (end - n)
      /\ \A k \in 1 .. n : (shard \o pad)[k] = shard[k]
  BY <1>6, Joined DEF n
<1>9. n + (end - n) = end
  BY <1>1, <1>3
<1> QED BY <1>3, <1>4, <1>5, <1>7, <1>8, <1>9 DEF n

\* The bytes of an expert's block: its slices of the three fused tensors.
LEMMA BytesOfExpert ==
    ASSUME NEW s \in Sources, Splittable(s), NEW l \in 1 .. Len(s.fused), NEW e \in Nat
    PROVE  /\ ExpertBytes(s, l, e) \in Seq(Byte)
           /\ Len(ExpertBytes(s, l, e)) = SegmentOffset(s, l, 4)
           /\ \A i \in 1 .. 3 :
                LET length == SliceLength(s, l, Roles[i])
                IN  \A k \in 1 .. length :
                      ExpertBytes(s, l, e)[SegmentOffset(s, l, i) + k]
                        = Slice(<<Roles[i], l>>, e * length, length)[k]
<1> DEFINE n(i) == SliceLength(s, l, Roles[i])
           S(i) == Slice(<<Roles[i], l>>, e * n(i), n(i))
<1>1. \A i \in 1 .. 3 : S(i) \in Seq(Byte) /\ Len(S(i)) = n(i) /\ n(i) \in Nat \ {0}
  <2> TAKE i \in 1 .. 3
  <2>1. n(i) \in Nat \ {0} /\ Roles[i] \in ToSet(Roles)
    BY LayerLengths
  <2> HIDE DEF n
  <2>2. <<Roles[i], l>> \in TensorName /\ e * n(i) \in Nat
    <3>1. l \in Nat
      BY SourceTyped
    <3> QED BY <2>1, <3>1 DEF TensorName
  <2> QED BY <2>1, <2>2, SliceBytes
<1>2. /\ SegmentOffset(s, l, 1) = 0 /\ SegmentOffset(s, l, 2) = n(1)
      /\ SegmentOffset(s, l, 3) = n(1) + n(2) /\ SegmentOffset(s, l, 4) = n(1) + n(2) + n(3)
  <2>1. 1 \in 1 .. 3 /\ 2 \in 1 .. 3 /\ 3 \in 1 .. 3 /\ 1 + 1 = 2 /\ 2 + 1 = 3 /\ 3 + 1 = 4
    OBVIOUS
  <2>2. SegmentOffset(s, l, 1) = 0
    BY LayerLengths
  <2>3. /\ SegmentOffset(s, l, 1 + 1) = SegmentOffset(s, l, 1) + n(1)
        /\ SegmentOffset(s, l, 2 + 1) = SegmentOffset(s, l, 2) + n(2)
        /\ SegmentOffset(s, l, 3 + 1) = SegmentOffset(s, l, 3) + n(3)
    BY <2>1, LayerLengths
  <2>4. n(1) \in Nat /\ n(2) \in Nat /\ n(3) \in Nat
    BY <1>1, <2>1
  <2> HIDE DEF n
  <2> QED BY <2>1, <2>2, <2>3, <2>4
<1>3. ExpertBytes(s, l, e) = S(1) \o S(2) \o S(3)
  BY DEF ExpertBytes
<1> HIDE DEF S, n
<1>4. /\ S(1) \o S(2) \in Seq(Byte) /\ Len(S(1) \o S(2)) = n(1) + n(2)
      /\ \A k \in 1 .. n(1) : (S(1) \o S(2))[k] = S(1)[k]
      /\ \A k \in 1 .. n(2) : (S(1) \o S(2))[n(1) + k] = S(2)[k]
  <2>1. /\ S(1) \in Seq(Byte) /\ Len(S(1)) = n(1)
        /\ S(2) \in Seq(Byte) /\ Len(S(2)) = n(2)
    BY <1>1
  <2> QED BY <2>1, Joined
<1> DEFINE A == S(1) \o S(2)
<1>5. /\ A \o S(3) \in Seq(Byte) /\ Len(A \o S(3)) = n(1) + n(2) + n(3)
      /\ \A k \in 1 .. n(1) + n(2) : (A \o S(3))[k] = A[k]
      /\ \A k \in 1 .. n(3) : (A \o S(3))[n(1) + n(2) + k] = S(3)[k]
  <2>1. /\ A \in Seq(Byte) /\ Len(A) = n(1) + n(2)
        /\ S(3) \in Seq(Byte) /\ Len(S(3)) = n(3)
    BY <1>1, <1>4
  <2> HIDE DEF A
  <2>2. /\ A \o S(3) \in Seq(Byte) /\ Len(A \o S(3)) = Len(A) + Len(S(3))
        /\ \A k \in 1 .. Len(A) : (A \o S(3))[k] = A[k]
        /\ \A k \in 1 .. Len(S(3)) : (A \o S(3))[Len(A) + k] = S(3)[k]
    BY <2>1, Joined
  <2>3. Len(A) = n(1) + n(2) /\ Len(S(3)) = n(3)
    BY <2>1
  <2> QED BY <2>2, <2>3, Zenon
<1>6. /\ \A k \in 1 .. n(1) : (A \o S(3))[0 + k] = S(1)[k]
      /\ \A k \in 1 .. n(2) : (A \o S(3))[n(1) + k] = S(2)[k]
  <2>1. n(1) \in Nat /\ n(2) \in Nat
    BY <1>1
  <2>2. /\ \A k \in 1 .. n(1) : A[k] = S(1)[k] /\ k \in 1 .. n(1) + n(2) /\ 0 + k = k
        /\ \A k \in 1 .. n(2) : A[n(1) + k] = S(2)[k] /\ n(1) + k \in 1 .. n(1) + n(2)
    BY <1>4, <2>1, SMTT(30)
  <2> HIDE DEF A
  <2> QED BY <1>5, <2>2
<1>7. \A i \in 1 .. 3 : \A k \in 1 .. n(i) :
        ExpertBytes(s, l, e)[SegmentOffset(s, l, i) + k] = S(i)[k]
  <2> HIDE DEF A
  <2>1. 1 .. 3 = {1, 2, 3}
    OBVIOUS
  <2>2. ExpertBytes(s, l, e) = A \o S(3)
    BY <1>3 DEF A
  <2>3. ASSUME NEW k \in 1 .. n(1)
        PROVE  ExpertBytes(s, l, e)[SegmentOffset(s, l, 1) + k] = S(1)[k]
    BY <1>2, <1>6, <2>2
  <2>4. ASSUME NEW k \in 1 .. n(2)
        PROVE  ExpertBytes(s, l, e)[SegmentOffset(s, l, 2) + k] = S(2)[k]
    BY <1>2, <1>6, <2>2
  <2>5. ASSUME NEW k \in 1 .. n(3)
        PROVE  ExpertBytes(s, l, e)[SegmentOffset(s, l, 3) + k] = S(3)[k]
    BY <1>2, <1>5, <2>2
  <2> QED BY <2>1, <2>3, <2>4, <2>5
<1>8. ExpertBytes(s, l, e) \in Seq(Byte) /\ Len(ExpertBytes(s, l, e)) = SegmentOffset(s, l, 4)
  BY <1>2, <1>3, <1>5
<1> QED BY <1>7, <1>8 DEF S, n

\* The next block of a conversion, at the next aligned offset, and its bytes.
IsNext(source, alignment, shard, blocks, b, bytes) ==
    /\ IsBlock(source, Len(blocks) + 1, b)
    /\ bytes = BlockBytes(source, Len(blocks) + 1)
    /\ b.offset = Len(Aligned(shard, alignment)) /\ b.length = Len(bytes)

\* One more block, behind the padding.
LEMMA BlockAppended ==
    ASSUME NEW source \in Sources, NEW alignment \in Nat \ {0},
           NEW shard \in Seq(Byte), NEW blocks \in Seq(CoreBlock \cup ExpertBlock),
           Written(source, alignment, shard, blocks),
           NEW b \in CoreBlock \cup ExpertBlock, NEW bytes \in Seq(Byte),
           IsNext(source, alignment, shard, blocks, b, bytes)
    PROVE  /\ Aligned(shard, alignment) \o bytes \in Seq(Byte)
           /\ Append(blocks, b) \in Seq(CoreBlock \cup ExpertBlock)
           /\ Len(Append(blocks, b)) = Len(blocks) + 1
           /\ Written(source, alignment, Aligned(shard, alignment) \o bytes, Append(blocks, b))
<1> DEFINE a == Aligned(shard, alignment)
           T == CoreBlock \cup ExpertBlock
           new == Append(blocks, b)
           long == a \o bytes
           N == Len(blocks)
<1>1. /\ a \in Seq(Byte) /\ Len(a) \in Nat /\ Len(a) >= Len(shard) /\ Len(a) % alignment = 0
      /\ \A k \in 1 .. Len(shard) : a[k] = shard[k]
  BY Padded
<1>2. \A x \in T : x.offset \in Nat /\ x.length \in Nat
  BY DEF CoreBlock, ExpertBlock
<1> HIDE DEF T
<1>3. /\ new \in Seq(T) /\ Len(new) = N + 1 /\ N \in Nat
      /\ \A i \in 1 .. N : new[i] = blocks[i] /\ blocks[i] \in T
      /\ new[N + 1] = b /\ DOMAIN blocks = 1 .. N /\ DOMAIN new = 1 .. N + 1
  <2>1. blocks \in Seq(T) /\ b \in T
    BY DEF T
  <2> QED BY <2>1, AppendProperties, LenProperties, ElementOfSeq
<1> HIDE DEF a
<1>4. /\ long \in Seq(Byte) /\ Len(long) = Len(a) + Len(bytes) /\ Len(bytes) \in Nat
      /\ \A k \in 1 .. Len(a) : long[k] = a[k]
      /\ \A k \in 1 .. Len(bytes) : long[Len(a) + k] = bytes[k]
  BY <1>1, Joined
<1> HIDE DEF long, new, N
<1>5. Len(shard) \in Nat
  BY LenProperties
<1>6. ASSUME NEW n \in 1 .. N
      PROVE  /\ IsBlock(source, n, new[n]) /\ new[n].offset % alignment = 0
             /\ EndOf(new[n]) <= Len(shard) /\ EndOf(new[n]) <= Len(long)
             /\ \A m \in 1 .. N + 1 : m < n => EndOf(new[m]) <= new[n].offset
             /\ \A k \in 1 .. new[n].length :
                  long[new[n].offset + k] = BlockBytes(source, n)[k]
  <2> DEFINE x == blocks[n]
  <2>1. /\ IsBlock(source, n, x) /\ x.offset % alignment = 0 /\ EndOf(x) <= Len(shard)
        /\ \A m \in 1 .. N : m < n => EndOf(blocks[m]) <= x.offset
        /\ \A k \in 1 .. x.length : shard[x.offset + k] = BlockBytes(source, n)[k]
    BY <1>3 DEF Written
  <2>2. new[n] = x /\ x.offset \in Nat /\ x.length \in Nat
    BY <1>2, <1>3
  <2> HIDE DEF x
  <2>3. EndOf(x) <= Len(long)
    BY <1>1, <1>4, <1>5, <2>1, <2>2 DEF EndOf
  <2>4. ASSUME NEW m \in 1 .. N + 1, m < n
        PROVE  EndOf(new[m]) <= x.offset
    <3>1. m \in 1 .. N
      BY <1>3, <2>4
    <3> QED BY <1>3, <2>1, <2>4, <3>1
  <2>5. ASSUME NEW k \in 1 .. x.length
        PROVE  long[x.offset + k] = BlockBytes(source, n)[k]
    <3>1. x.offset + k \in 1 .. Len(shard) /\ x.offset + k \in 1 .. Len(a)
      BY <1>1, <1>5, <2>1, <2>2, SMTT(30) DEF EndOf
    <3>2. long[x.offset + k] = shard[x.offset + k]
      BY <1>1, <1>4, <3>1
    <3> QED BY <2>1, <3>2
  <2> QED BY <2>1, <2>2, <2>3, <2>4, <2>5
<1>7. /\ IsBlock(source, N + 1, new[N + 1]) /\ new[N + 1].offset % alignment = 0
      /\ EndOf(new[N + 1]) <= Len(long)
      /\ \A m \in 1 .. N + 1 : m < N + 1 => EndOf(new[m]) <= new[N + 1].offset
      /\ \A k \in 1 .. new[N + 1].length :
           long[new[N + 1].offset + k] = BlockBytes(source, N + 1)[k]
  <2>1. IsBlock(source, N + 1, b) /\ b.offset = Len(a) /\ b.length = Len(bytes)
        /\ bytes = BlockBytes(source, N + 1)
    BY DEF N, a, IsNext
  <2>2. EndOf(b) <= Len(long)
    BY <1>1, <1>4, <2>1 DEF EndOf
  <2>3. ASSUME NEW m \in 1 .. N + 1, m < N + 1
        PROVE  EndOf(new[m]) <= b.offset
    <3>1. m \in 1 .. N
      BY <1>3, <2>3
    <3>2. EndOf(new[m]) <= Len(shard) /\ EndOf(new[m]) \in Int
      BY <1>2, <1>3, <1>6, <3>1 DEF EndOf
    <3> QED BY <1>1, <1>5, <2>1, <3>2
  <2> QED BY <1>1, <1>3, <1>4, <2>1, <2>2, <2>3
<1>8. Written(source, alignment, long, new)
  <2>1. \A n \in DOMAIN new : n \in 1 .. N \/ n = N + 1
    BY <1>3
  <2>2. DOMAIN new = 1 .. N + 1
    BY <1>3
  <2> QED BY <1>6, <1>7, <2>1, <2>2, Zenon DEF Written
<1> QED BY <1>3, <1>4, <1>8 DEF T, N, a, long, new
-----------------------------------------------------------------------------
(* The steps                                                               *)

\* The fields of a conversion at work.
LEMMA WorkFields ==
    ASSUME NEW w \in Working
    PROVE  /\ w.pc \in {"core", "experts", "publish"} /\ w.source \in Sources
           /\ w.alignment \in Alignments /\ w.alignment \in Nat \ {0}
           /\ w.shard \in Seq(Byte) /\ w.blocks \in Seq(CoreBlock \cup ExpertBlock)
           /\ Len(w.blocks) \in Nat
<1>1. /\ w.pc \in {"core", "experts", "publish"} /\ w.source \in Sources
      /\ w.alignment \in Alignments
      /\ w.shard \in Seq(Byte) /\ w.blocks \in Seq(CoreBlock \cup ExpertBlock)
  BY DEF Working
<1>2. w.alignment \in Nat \ {0}
  BY <1>1, PackingAssumption
<1> QED BY <1>1, <1>2, LenProperties

\* Which conversions are at work.
LEMMA AtWork ==
    ASSUME TypeOK, NEW p \in Packers
    PROVE  Packing(p) <=> packer[p] \in Working
<1>1. packer[p] \in Idle \cup Working
  BY DEF TypeOK
<1>2. \A x \in Idle : x.pc \notin {"core", "experts", "publish"}
  BY DEF Idle
<1>3. \A x \in Working : x.pc \in {"core", "experts", "publish"}
  BY DEF Working
<1> QED BY <1>1, <1>2, <1>3 DEF Packing

\* A step of one conversion, which leaves the others and the output alone.
LEMMA OneWorks ==
    ASSUME IInv, NEW p \in Packers, NEW w \in Idle \cup Working,
           w \in Working => WorkAgrees(w),
           packer' = [packer EXCEPT ![p] = w], UNCHANGED <<output, edits>>
    PROVE  IInv'
<1>1. TypeOK'
  BY DEF IInv, TypeOK
<1>2. ASSUME NEW q \in Packers, Packing(q)'
      PROVE  WorkAgrees(packer[q])'
  <2>1. (packer[q] \in Working)'
    <3>1. packer'[q] \in Idle \cup Working
      BY <1>1 DEF TypeOK
    <3>2. packer'[q].pc \in {"core", "experts", "publish"}
      BY <1>2 DEF Packing
    <3>3. \A x \in Idle : x.pc \notin {"core", "experts", "publish"}
      BY DEF Idle
    <3> QED BY <3>1, <3>2, <3>3
  <2>2. packer \in [Packers -> Idle \cup Working]
    BY DEF IInv, TypeOK
  <2>3. CASE q = p
    <3>1. packer'[q] = w
      BY <2>2, <2>3
    <3> QED BY <2>1, <3>1
  <2>4. CASE q # p
    <3>1. packer'[q] = packer[q]
      BY <2>2, <2>4
    <3>2. WorkAgrees(packer[q])
      BY <2>1, <3>1, AtWork DEF IInv
    <3> QED BY <3>1, <3>2
  <2> QED BY <2>3, <2>4
<1>3. output'.exists /\ edits' = 0 => Whole(output')
  BY DEF IInv
<1> QED BY <1>1, <1>2, <1>3 DEF IInv

\* A conversion that ends.
LEMMA EndWorks ==
    ASSUME IInv, NEW p \in Packers, NEW pc \in {"failed", "dead", "done"},
           End(p, pc), UNCHANGED <<output, edits>>
    PROVE  IInv'
<1>1. [pc |-> pc] \in Idle
  BY DEF Idle
<1>2. [pc |-> pc] \notin Working
  <2>1. [pc |-> pc].pc = pc
    OBVIOUS
  <2> QED BY <2>1 DEF Working
<1> QED BY <1>1, <1>2, OneWorks DEF End

\* Nothing is in an empty list of blocks.
LEMMA StartWorks ==
    ASSUME IInv, NEW p \in Packers, NEW source \in Sources, NEW alignment \in Alignments,
           Start(p, source, alignment)
    PROVE  IInv'
<1>1. CASE ~(Splittable(source) /\ ~output.exists)
  BY <1>1, EndWorks DEF Start
<1>2. CASE Splittable(source) /\ ~output.exists
  <2> DEFINE w == [pc |-> "core", source |-> source, alignment |-> alignment,
                   shard |-> <<>>, blocks |-> <<>>]
  <2>1. w \in Working
    BY DEF Working
  <2>2. WorkAgrees(w)
    <3>1. DOMAIN <<>> = {} /\ Len(<<>>) = 0
      OBVIOUS
    <3>2. Written(source, alignment, <<>>, <<>>)
      BY <3>1, Zenon DEF Written
    <3>3. 0 <= Len(source.core)
      BY SourceTyped
    <3> QED BY <1>2, <3>1, <3>2, <3>3 DEF WorkAgrees
  <2>3. packer' = [packer EXCEPT ![p] = w] /\ UNCHANGED <<output, edits>>
    BY <1>2 DEF Start
  <2> HIDE DEF w
  <2> QED BY <2>1, <2>2, <2>3, OneWorks
<1> QED BY <1>1, <1>2

\* A conversion at work that goes on to another part of its work.
LEMMA GoOnWorks ==
    ASSUME IInv, NEW p \in Packers, Packing(p), NEW pc \in {"experts", "publish"},
           GoOn(p, pc), UNCHANGED <<output, edits>>,
           pc = "experts" => Len(packer[p].blocks) \in
                               Len(packer[p].source.core) .. NBlocks(packer[p].source),
           pc = "publish" => Len(packer[p].blocks) = NBlocks(packer[p].source)
    PROVE  IInv'
<1> DEFINE v == packer[p]
           w == [v EXCEPT !.pc = pc]
<1>1. v \in Working /\ WorkAgrees(v)
  BY AtWork DEF IInv
<1>2. packer' = [packer EXCEPT ![p] = w]
  BY DEF GoOn
<1> HIDE DEF v
<1>3. w \in Working /\ w.pc = pc /\ w.source = v.source /\ w.alignment = v.alignment
      /\ w.shard = v.shard /\ w.blocks = v.blocks
  BY <1>1 DEF Working
<1> HIDE DEF w
<1>4. /\ pc = "experts" => Len(v.blocks) \in Len(v.source.core) .. NBlocks(v.source)
      /\ pc = "publish" => Len(v.blocks) = NBlocks(v.source)
  BY DEF v
<1>5. WorkAgrees(w)
  BY <1>1, <1>3, <1>4 DEF WorkAgrees
<1> QED BY <1>2, <1>3, <1>5, OneWorks

\* A conversion at work with one more block.
LEMMA WorkGrows ==
    ASSUME NEW v \in Working, WorkAgrees(v),
           NEW block \in CoreBlock \cup ExpertBlock, NEW bytes \in Seq(Byte),
           IsNext(v.source, v.alignment, v.shard, v.blocks, block, bytes),
           \/ v.pc = "core" /\ Len(v.blocks) + 1 <= Len(v.source.core)
           \/ v.pc = "experts" /\ Len(v.blocks) + 1 \in Len(v.source.core) .. NBlocks(v.source)
    PROVE  LET w == [v EXCEPT !.shard = Aligned(v.shard, v.alignment) \o bytes,
                              !.blocks = Append(v.blocks, block)]
           IN  w \in Working /\ WorkAgrees(w)
<1> DEFINE s == Aligned(v.shard, v.alignment) \o bytes
           b == Append(v.blocks, block)
           w == [v EXCEPT !.shard = s, !.blocks = b]
<1>1. /\ s \in Seq(Byte) /\ b \in Seq(CoreBlock \cup ExpertBlock) /\ Len(b) = Len(v.blocks) + 1
      /\ Written(v.source, v.alignment, s, b)
  <2>1. Written(v.source, v.alignment, v.shard, v.blocks)
    BY DEF WorkAgrees
  <2>2. /\ v.source \in Sources /\ v.alignment \in Nat \ {0} /\ v.shard \in Seq(Byte)
        /\ v.blocks \in Seq(CoreBlock \cup ExpertBlock)
    BY WorkFields, Zenon
  <2> QED BY <2>1, <2>2, BlockAppended
<1> HIDE DEF s, b
<1>2. w \in Working /\ w.pc = v.pc /\ w.source = v.source /\ w.alignment = v.alignment
      /\ w.shard = s /\ w.blocks = b
  BY <1>1 DEF Working
<1> HIDE DEF w
<1>3. WorkAgrees(w)
  <2>1. Splittable(w.source) /\ Written(w.source, w.alignment, w.shard, w.blocks)
    BY <1>1, <1>2 DEF WorkAgrees
  <2>2. /\ w.pc = "core" => Len(w.blocks) <= Len(w.source.core)
        /\ w.pc = "experts" => Len(w.blocks) \in Len(w.source.core) .. NBlocks(w.source)
        /\ w.pc # "publish"
    BY <1>1, <1>2
  <2> QED BY <2>1, <2>2 DEF WorkAgrees
<1> QED BY <1>2, <1>3 DEF w, s, b

\* A conversion at work that has copied its next block.
LEMMA CopyWorks ==
    ASSUME IInv, NEW p \in Packers, Packing(p),
           NEW block \in CoreBlock \cup ExpertBlock, NEW bytes \in Seq(Byte),
           Copy(p, block, bytes), UNCHANGED <<output, edits>>,
           LET v == packer[p]
           IN  /\ IsNext(v.source, v.alignment, v.shard, v.blocks, block, bytes)
               /\ \/ v.pc = "core" /\ Len(v.blocks) + 1 <= Len(v.source.core)
                  \/ /\ v.pc = "experts"
                     /\ Len(v.blocks) + 1 \in Len(v.source.core) .. NBlocks(v.source)
    PROVE  IInv'
<1> DEFINE v == packer[p]
           w == [v EXCEPT !.shard = Aligned(v.shard, v.alignment) \o bytes,
                          !.blocks = Append(v.blocks, block)]
<1>1. v \in Working /\ WorkAgrees(v)
  BY AtWork DEF IInv
<1>2. packer' = [packer EXCEPT ![p] = w]
  BY DEF Copy
<1>3. w \in Working /\ WorkAgrees(w)
  <2> HIDE DEF v
  <2>1. /\ IsNext(v.source, v.alignment, v.shard, v.blocks, block, bytes)
        /\ \/ v.pc = "core" /\ Len(v.blocks) + 1 <= Len(v.source.core)
           \/ v.pc = "experts" /\ Len(v.blocks) + 1 \in Len(v.source.core) .. NBlocks(v.source)
    BY DEF v
  <2> QED BY <1>1, <2>1, WorkGrows
<1> HIDE DEF w
<1> QED BY <1>2, <1>3, OneWorks

\* The core tensors are copied one after the other.
LEMMA CopyCoreWorks ==
    ASSUME IInv, NEW p \in Packers, CopyCore(p)
    PROVE  IInv'
<1> DEFINE v == packer[p]
           core == v.source.core
           n == Len(v.blocks) + 1
<1>1. Packing(p) /\ v.pc = "core" /\ UNCHANGED <<output, edits>>
  BY DEF CopyCore, Packing
<1>2. v \in Working /\ WorkAgrees(v)
  BY <1>1, AtWork DEF IInv
<1>3. /\ v.source \in Sources /\ Len(v.blocks) \in Nat /\ Len(core) \in Nat
      /\ \A i \in 1 .. Len(core) : core[i] \in Nat \ {0}
      /\ Len(v.source.fused) \in Nat \ {0} /\ v.source.experts \in Nat \ {0}
      /\ v.alignment \in Nat \ {0} /\ v.shard \in Seq(Byte)
  BY <1>2, WorkFields, SourceTyped
<1>4. Len(v.blocks) <= Len(core)
  BY <1>1, <1>2 DEF WorkAgrees
<1>5. CASE n > Len(core)
  <2>1. GoOn(p, "experts")
    BY <1>5 DEF CopyCore
  <2>2. Len(v.blocks) \in Len(core) .. NBlocks(v.source)
    <3>1. Len(v.source.fused) * v.source.experts \in Nat
      BY <1>3
    <3> HIDE DEF v, core
    <3>2. NBlocks(v.source) = Len(core) + Len(v.source.fused) * v.source.experts
      BY DEF NBlocks, core
    <3>3. Len(v.blocks) = Len(core)
      BY <1>3, <1>4, <1>5
    <3>4. NBlocks(v.source) \in Nat /\ Len(core) <= NBlocks(v.source)
      BY <1>3, <3>1, <3>2
    <3> QED BY <1>3, <3>3, <3>4
  <2> QED BY <1>1, <2>1, <2>2, GoOnWorks
<1>6. CASE n <= Len(core)
  <2> DEFINE b == [kind |-> "core", id |-> n, offset |-> NextOffset(p), length |-> core[n]]
             bytes == Slice(<<"core", n>>, 0, core[n])
  <2>1. Copy(p, b, bytes)
    BY <1>3, <1>6 DEF CopyCore
  <2>2. n \in 1 .. Len(core) /\ n \in Nat /\ core[n] \in Nat \ {0}
    BY <1>3, <1>6
  <2>3. NextOffset(p) \in Nat
    BY <1>3, Padded DEF NextOffset
  <2>4. bytes \in Seq(Byte) /\ Len(bytes) = core[n]
    <3>1. <<"core", n>> \in TensorName /\ 0 \in Nat /\ core[n] \in Nat
      BY <2>2 DEF TensorName
    <3> QED BY <3>1, SliceBytes
  <2>5. /\ b \in CoreBlock /\ b.kind = "core" /\ b.id = n
        /\ b.offset = NextOffset(p) /\ b.length = core[n]
    <3> HIDE DEF n, core
    <3> QED BY <2>2, <2>3 DEF CoreBlock
  <2>6. IsBlock(v.source, n, b) /\ bytes = BlockBytes(v.source, n)
    BY <1>6, <2>5 DEF IsBlock, BlockBytes
  <2> HIDE DEF b, bytes
  <2>7. /\ b \in CoreBlock \cup ExpertBlock /\ bytes \in Seq(Byte)
        /\ IsNext(v.source, v.alignment, v.shard, v.blocks, b, bytes)
        /\ Len(v.blocks) + 1 <= Len(v.source.core)
    BY <1>6, <2>4, <2>5, <2>6 DEF IsNext, NextOffset
  <2> QED BY <1>1, <2>1, <2>7, CopyWorks
<1>7. n > Len(core) \/ n <= Len(core)
  BY <1>3
<1> QED BY <1>5, <1>6, <1>7

\* How the number of an expert block tells its layer, and when all are written.
LEMMA ExpertNumber ==
    ASSUME NEW n \in Nat, NEW layers \in Nat, NEW experts \in Nat \ {0},
           n <= layers * experts
    PROVE  /\ n \div experts + 1 <= layers => n + 1 <= layers * experts
           /\ n \div experts + 1 > layers => n = layers * experts
<1> DEFINE q == n \div experts
           r == n % experts
<1>1. q \in Nat /\ r \in 0 .. experts - 1 /\ n = experts * q + r
  BY DivMod
<1> HIDE DEF q, r
<1>2. ASSUME q + 1 <= layers
      PROVE  n + 1 <= layers * experts
  <2>1. experts * (q + 1) <= experts * layers
    BY <1>1, <1>2, ProductGrows
  <2>2. experts * (q + 1) = experts * q + experts /\ experts * layers = layers * experts
    BY <1>1
  <2>3. experts * q \in Nat /\ layers * experts \in Nat
    BY <1>1
  <2> QED BY <1>1, <2>1, <2>2, <2>3
<1>3. ASSUME q + 1 > layers
      PROVE  n = layers * experts
  <2>1. layers <= q
    BY <1>1, <1>3
  <2>2. experts * layers <= experts * q
    BY <1>1, <2>1, ProductGrows
  <2>3. experts * layers = layers * experts /\ experts * q \in Nat /\ layers * experts \in Nat
    BY <1>1
  <2> QED BY <1>1, <2>2, <2>3
<1> QED BY <1>2, <1>3 DEF q

\* The blocks behind those of the core tensors.
LEMMA ExpertBlockAt ==
    ASSUME NEW source, NEW n, ~(n <= Len(source.core)),
           NEW k, k = n - Len(source.core) - 1
    PROVE  /\ \A b : /\ b.kind = "expert"
                     /\ b.layer = k \div source.experts /\ b.expert = k % source.experts
                     /\ b.length = SegmentOffset(source, b.layer + 1, 4)
                     => IsBlock(source, n, b)
           /\ BlockBytes(source, n) =
                ExpertBytes(source, k \div source.experts + 1, k % source.experts)
<1>1. ASSUME NEW b, b.kind = "expert",
             b.layer = k \div source.experts, b.expert = k % source.experts,
             b.length = SegmentOffset(source, b.layer + 1, 4)
      PROVE  IsBlock(source, n, b)
  BY <1>1 DEF IsBlock
<1>2. BlockBytes(source, n) =
        ExpertBytes(source, k \div source.experts + 1, k % source.experts)
  BY DEF BlockBytes
<1> QED BY <1>1, <1>2

\* The blocks of the experts are copied layer by layer.
LEMMA CopyExpertWorks ==
    ASSUME IInv, NEW p \in Packers, CopyExpert(p)
    PROVE  IInv'
<1> DEFINE v == packer[p]
           source == v.source
           N == Len(v.blocks)
           C == Len(source.core)
           L == Len(source.fused)
           E == source.experts
           n == N - C
           layer == n \div E + 1
           expert == n % E
<1>1. Packing(p) /\ v.pc = "experts" /\ UNCHANGED <<output, edits>>
  BY DEF CopyExpert, Packing
<1>2. v \in Working /\ WorkAgrees(v)
  BY <1>1, AtWork DEF IInv
<1>3. /\ source \in Sources /\ N \in Nat /\ C \in Nat /\ L \in Nat \ {0} /\ E \in Nat \ {0}
      /\ v.alignment \in Nat \ {0} /\ v.shard \in Seq(Byte)
  BY <1>2, WorkFields, SourceTyped
<1>4. Splittable(source) /\ N \in C .. NBlocks(source)
  BY <1>1, <1>2 DEF WorkAgrees
<1>5. NBlocks(source) = C + L * E /\ L * E \in Nat
  BY <1>3 DEF NBlocks
<1>6. /\ layer > L => GoOn(p, "publish")
      /\ ~(layer > L) =>
           Copy(p, [kind |-> "expert", layer |-> layer - 1, expert |-> expert,
                    offset |-> NextOffset(p), length |-> SegmentOffset(source, layer, 4)],
                ExpertBytes(source, layer, expert))
  BY DEF CopyExpert
<1>7. \A m, k : ~(m <= C) /\ k = m - C - 1 =>
        /\ \A b : /\ b.kind = "expert" /\ b.layer = k \div E /\ b.expert = k % E
                  /\ b.length = SegmentOffset(source, b.layer + 1, 4)
                  => IsBlock(source, m, b)
        /\ BlockBytes(source, m) = ExpertBytes(source, k \div E + 1, k % E)
  BY ExpertBlockAt
<1> HIDE DEF N, C, L, E
<1>8. /\ n \in Nat /\ n <= L * E /\ N + 1 = C + (n + 1) /\ N + 1 - C - 1 = n
      /\ ~(N + 1 <= C)
  BY <1>3, <1>4, <1>5
<1>9. /\ layer <= L => n + 1 <= L * E
      /\ layer > L => n = L * E
  BY <1>3, <1>8, ExpertNumber
<1>10. n \div E \in Nat /\ expert \in Nat
  <2>1. n \in Nat
    BY <1>8
  <2> HIDE DEF n
  <2>2. n \div E \in Nat /\ n % E \in 0 .. E - 1
    BY <1>3, <2>1, DivMod
  <2> QED BY <1>3, <2>2
<1> DEFINE q == n \div E
<1>11. layer = q + 1 /\ layer - 1 = q /\ q \in Nat /\ layer \in Nat /\ layer \in Nat \ {0}
  <2>1. q \in Nat
    BY <1>10
  <2> HIDE DEF q
  <2>2. layer = q + 1
    BY DEF q
  <2> QED BY <2>1, <2>2
<1>12. expert = n % E
  OBVIOUS
<1> HIDE DEF q, layer, expert
<1>13. CASE layer > L
  <2>1. N = NBlocks(source)
    <3>1. N = C + n
      BY <1>3, <1>8
    <3>2. n = L * E
      BY <1>9, <1>13
    <3> HIDE DEF n
    <3> QED BY <1>5, <3>1, <3>2
  <2> QED BY <1>1, <1>6, <1>13, <2>1, GoOnWorks DEF N
<1>14. CASE ~(layer > L)
  <2> DEFINE b == [kind |-> "expert", layer |-> layer - 1, expert |-> expert,
                   offset |-> NextOffset(p), length |-> SegmentOffset(source, layer, 4)]
             bytes == ExpertBytes(source, layer, expert)
  <2>1. layer \in 1 .. L /\ layer <= L
    BY <1>3, <1>11, <1>14
  <2>2. NextOffset(p) \in Nat
    BY <1>3, Padded DEF NextOffset
  <2>3. bytes \in Seq(Byte) /\ Len(bytes) = SegmentOffset(source, layer, 4)
    BY <1>3, <1>4, <1>10, <2>1, BytesOfExpert DEF L
  <2>4. SegmentOffset(source, layer, 4) \in Nat
    BY <1>3, <1>4, <2>1, LayerLengths DEF L
  <2>5. /\ b \in ExpertBlock /\ b.kind = "expert" /\ b.layer = q /\ b.expert = expert
        /\ b.offset = NextOffset(p) /\ b.length = SegmentOffset(source, layer, 4)
    <3> HIDE DEF source
    <3> QED BY <1>10, <1>11, <2>2, <2>4 DEF ExpertBlock
  <2>6. IsBlock(source, N + 1, b) /\ bytes = BlockBytes(source, N + 1)
    <3> DEFINE m == N + 1
    <3>1. ~(m <= C)
      BY <1>8
    <3>2. n = m - C - 1
      BY <1>3
    <3>3. q = n \div E /\ expert = n % E
      BY <1>12 DEF q
    <3> HIDE DEF n, m
    <3>4. /\ \A x : /\ x.kind = "expert" /\ x.layer = q /\ x.expert = expert
                    /\ x.length = SegmentOffset(source, x.layer + 1, 4)
                    => IsBlock(source, m, x)
          /\ BlockBytes(source, m) = ExpertBytes(source, q + 1, expert)
      BY <1>7, <3>1, <3>2, <3>3
    <3>5. layer = b.layer + 1 /\ layer = q + 1
      BY <1>11, <2>5
    <3>6. b.length = SegmentOffset(source, b.layer + 1, 4)
      <4> HIDE DEF b
      <4> QED BY <2>5, <3>5
    <3>7. bytes = BlockBytes(source, m)
      BY <3>4, <3>5
    <3> HIDE DEF b, source
    <3> QED BY <2>5, <3>4, <3>6, <3>7 DEF m
  <2>7. N + 1 \in C .. NBlocks(source)
    <3>1. n + 1 <= L * E
      BY <1>9, <2>1
    <3>2. N + 1 = C + (n + 1) /\ n + 1 \in Nat
      BY <1>8
    <3> HIDE DEF n
    <3> QED BY <1>3, <1>5, <3>1, <3>2
  <2>8. Copy(p, b, bytes)
    BY <1>6, <1>14
  <2> HIDE DEF b, bytes
  <2>9. /\ b \in CoreBlock \cup ExpertBlock /\ bytes \in Seq(Byte)
        /\ IsNext(source, v.alignment, v.shard, v.blocks, b, bytes)
    BY <2>3, <2>5, <2>6 DEF IsNext, NextOffset, N
  <2> QED BY <1>1, <2>7, <2>8, <2>9, CopyWorks DEF N, C
<1> QED BY <1>13, <1>14

\* The lists of core tensors and of layers that are published.
LEMMA ListsTyped ==
    ASSUME NEW source \in Sources, Splittable(source)
    PROVE  /\ [n \in DOMAIN source.core |-> [id |-> n, tensor |-> n, length |-> source.core[n]]]
                \in Seq(CoreTensor)
           /\ [l \in DOMAIN source.fused |->
                  [layer |-> l - 1, segments |-> Segments(source, l),
                   length |-> SegmentOffset(source, l, 4)]] \in Seq(Layer)
<1> DEFINE core == [n \in DOMAIN source.core |->
                       [id |-> n, tensor |-> n, length |-> source.core[n]]]
           L == Len(source.fused)
           Of(l) == [layer |-> l - 1, segments |-> Segments(source, l),
                     length |-> SegmentOffset(source, l, 4)]
<1>1. /\ Len(source.core) \in Nat /\ DOMAIN source.core = 1 .. Len(source.core)
      /\ \A n \in 1 .. Len(source.core) : source.core[n] \in Nat
      /\ L \in Nat /\ DOMAIN source.fused = 1 .. L
  BY SourceTyped
<1>2. core \in Seq(CoreTensor)
  <2>1. core \in [1 .. Len(source.core) -> CoreTensor]
    BY <1>1 DEF CoreTensor
  <2> HIDE DEF core
  <2> QED BY <1>1, <2>1
<1>3. ASSUME NEW l \in 1 .. L
      PROVE  Of(l) \in Layer
  <2>1. Segments(source, l) \in [1 .. 3 -> Segment]
    <3>1. ASSUME NEW i \in 1 .. 3
          PROVE  [role |-> Roles[i], offset |-> SegmentOffset(source, l, i),
                  length |-> SliceLength(source, l, Roles[i]),
                  stride |-> SliceLength(source, l, Roles[i])] \in Segment
      <4>1. Roles[i] \in ToSet(Roles) /\ SegmentOffset(source, l, i) \in Nat
            /\ SliceLength(source, l, Roles[i]) \in Nat
        BY LayerLengths
      <4> QED BY <4>1 DEF Segment
    <3> QED BY <3>1 DEF Segments
  <2>2. l - 1 \in Nat /\ SegmentOffset(source, l, 4) \in Nat
    <3>1. SegmentOffset(source, l, 4) \in Nat
      BY LayerLengths
    <3> QED BY <1>1, <3>1
  <2> QED BY <2>1, <2>2 DEF Layer
<1> DEFINE layers == [l \in 1 .. L |-> Of(l)]
<1>4. layers \in Seq(Layer)
  <2>1. layers \in [1 .. L -> Layer]
    BY <1>3
  <2> HIDE DEF layers
  <2> QED BY <1>1, <2>1
<1> QED BY <1>1, <1>2, <1>4

\* What a conversion publishes is whole.
LEMMA PublishWorks ==
    ASSUME IInv, NEW p \in Packers, Publish(p)
    PROVE  IInv'
<1> DEFINE v == packer[p]
           docs == Documents(p)
           new == [exists |-> TRUE, source |-> v.source, shard |-> v.shard, docs |-> docs]
<1>1. Packing(p) /\ v.pc = "publish" /\ output' = new /\ End(p, "done") /\ edits' = edits
  BY DEF Publish, Packing
<1>2. v \in Working /\ WorkAgrees(v)
  BY <1>1, AtWork DEF IInv
<1>3. /\ v.source \in Sources /\ v.alignment \in Alignments /\ v.alignment \in Nat
      /\ v.shard \in Seq(Byte) /\ v.blocks \in Seq(CoreBlock \cup ExpertBlock)
      /\ Len(v.source.fused) \in Nat /\ v.source.experts \in Nat
  BY <1>2, WorkFields, SourceTyped
<1>4. /\ Splittable(v.source) /\ Len(v.blocks) = NBlocks(v.source)
      /\ Written(v.source, v.alignment, v.shard, v.blocks)
  BY <1>1, <1>2 DEF WorkAgrees
<1> DEFINE core == [n \in DOMAIN v.source.core |->
                       [id |-> n, tensor |-> n, length |-> v.source.core[n]]]
           layers == [l \in DOMAIN v.source.fused |->
                         [layer |-> l - 1, segments |-> Segments(v.source, l),
                          length |-> SegmentOffset(v.source, l, 4)]]
<1>5. core \in Seq(CoreTensor) /\ layers \in Seq(Layer)
  BY <1>3, <1>4, ListsTyped
<1>6. docs = [alignment |-> v.alignment, blocks |-> v.blocks, core |-> core,
              odd |-> {}, contract |-> "plain", layout_contract |-> "plain",
              layer_count |-> Len(v.source.fused), expert_count |-> v.source.experts,
              layers |-> layers]
  BY DEF Documents
<1> HIDE DEF v, docs, core, layers
<1>7. /\ docs \in DocsType /\ docs.alignment = v.alignment /\ docs.blocks = v.blocks
      /\ docs.core = core /\ docs.layer_count = Len(v.source.fused)
      /\ docs.expert_count = v.source.experts /\ docs.layers = layers
      /\ docs.odd = {} /\ docs.contract = "plain" /\ docs.layout_contract = "plain"
  BY <1>3, <1>5, <1>6 DEF DocsType
<1>8. new \in Bundle /\ new.source = v.source /\ new.shard = v.shard /\ new.docs = docs
  BY <1>3, <1>7 DEF Bundle
<1> HIDE DEF new
<1>9. Whole(new)
  BY <1>3, <1>4, <1>7, <1>8 DEF Whole, core, layers
<1>10. TypeOK'
  <2>1. [pc |-> "done"] \in Idle
    BY DEF Idle
  <2>2. packer' = [packer EXCEPT ![p] = [pc |-> "done"]]
    BY <1>1 DEF End
  <2> QED BY <1>1, <1>8, <2>1, <2>2 DEF IInv, TypeOK
<1>11. ASSUME NEW q \in Packers, Packing(q)'
       PROVE  WorkAgrees(packer[q])'
  <2>1. packer \in [Packers -> Idle \cup Working] /\ packer' = [packer EXCEPT ![p] = [pc |-> "done"]]
    BY <1>1 DEF IInv, TypeOK, End
  <2>2. packer'[q].pc \in {"core", "experts", "publish"}
    BY <1>11 DEF Packing
  <2>3. packer'[q] = packer[q]
    <3>1. packer'[p] = [pc |-> "done"]
      BY <2>1
    <3>2. packer'[p].pc = "done"
      BY <3>1
    <3>3. q # p
      BY <2>2, <3>2
    <3> QED BY <2>1, <3>3
  <2>4. Packing(q)
    BY <2>2, <2>3 DEF Packing
  <2> QED BY <2>3, <2>4 DEF IInv
<1>12. output'.exists /\ edits' = 0 => Whole(output')
  BY <1>1, <1>9
<1> QED BY <1>10, <1>11, <1>12 DEF IInv

\* After a change to the documents nothing is said of them but that they are
\* well formed.
LEMMA EditWorks ==
    ASSUME IInv, Edit
    PROVE  IInv'
<1>1. PICK docs \in Edited(output.docs) : output' = [output EXCEPT !.docs = docs]
  BY DEF Edit
<1>2. output \in Bundle
  <2>1. Absent.exists = FALSE
    BY DEF Absent
  <2>2. output.exists
    BY DEF Edit
  <2> QED BY <2>1, <2>2 DEF IInv, TypeOK
<1>3. docs \in DocsType
  <2>1. output.docs \in DocsType
    BY <1>2 DEF Bundle
  <2> QED BY <2>1, EditedTyped
<1>4. output' \in Bundle
  BY <1>1, <1>2, <1>3 DEF Bundle
<1>5. edits' = edits + 1 /\ edits' \in Nat /\ edits' # 0 /\ packer' = packer
  BY DEF Edit, IInv, TypeOK
<1>6. TypeOK'
  BY <1>4, <1>5 DEF IInv, TypeOK
<1>7. ASSUME NEW q \in Packers, Packing(q)'
      PROVE  WorkAgrees(packer[q])'
  <2>1. Packing(q)
    BY <1>5, <1>7 DEF Packing
  <2> QED BY <1>5, <2>1 DEF IInv
<1> QED BY <1>5, <1>6, <1>7 DEF IInv
-----------------------------------------------------------------------------
(* The invariant                                                           *)

\* Every step keeps the invariant.
LEMMA StepWorks ==
    ASSUME IInv, [Next]_vars
    PROVE  IInv'
<1>1. ASSUME NEW p \in Packers, NEW source \in Sources, NEW alignment \in Alignments,
             Start(p, source, alignment)
      PROVE  IInv'
  BY <1>1, StartWorks
<1>2. ASSUME NEW p \in Packers, CopyCore(p)
      PROVE  IInv'
  BY <1>2, CopyCoreWorks
<1>3. ASSUME NEW p \in Packers, CopyExpert(p)
      PROVE  IInv'
  BY <1>3, CopyExpertWorks
<1>4. ASSUME NEW p \in Packers, Publish(p)
      PROVE  IInv'
  BY <1>4, PublishWorks
<1>5. ASSUME NEW p \in Packers, Fail(p)
      PROVE  IInv'
  BY <1>5, EndWorks DEF Fail
<1>6. ASSUME NEW p \in Packers, Die(p)
      PROVE  IInv'
  BY <1>6, EndWorks DEF Die
<1>7. CASE Edit
  BY <1>7, EditWorks
<1>8. CASE UNCHANGED vars
  BY <1>8 DEF vars, IInv, TypeOK, Packing
<1> QED BY <1>1, <1>2, <1>3, <1>4, <1>5, <1>6, <1>7, <1>8 DEF Next

\* Conversions at work have written their first blocks in order, aligned and
\* apart, with the bytes of their tensors (the loops of pack_moe_gguf), and an
\* output that nobody has edited is all of one conversion.
THEOREM Invariance == Spec => []IInv
<1>1. Init => IInv
  <2> SUFFICES ASSUME Init
               PROVE  IInv
    OBVIOUS
  <2>1. [pc |-> "new"] \in Idle /\ [pc |-> "new"].pc = "new" /\ Absent.exists = FALSE
    BY DEF Idle, Absent
  <2>2. packer = [p \in Packers |-> [pc |-> "new"]] /\ output = Absent /\ edits = 0
    BY DEF Init
  <2>3. TypeOK
    BY <2>1, <2>2 DEF TypeOK
  <2>4. \A p \in Packers : ~Packing(p)
    BY <2>1, <2>2 DEF Packing
  <2> QED BY <2>1, <2>2, <2>3, <2>4 DEF IInv
<1>2. IInv /\ [Next]_vars => IInv'
  BY StepWorks
<1> QED BY <1>1, <1>2, PTL DEF Spec

\* The conversions, the output directory and its documents are well formed, the
\* edited ones as well.
THEOREM TypeCorrect == Spec => []TypeOK
<1>1. IInv => TypeOK
  BY DEF IInv
<1> QED BY <1>1, Invariance, PTL

\* The two readers of the documents (the checks of MMBModel's constructor and of
\* validate_moe_layout) let nothing through in which two tensors share a byte,
\* a tensor reaches beyond the shard or a byte of a block belongs to no tensor,
\* whatever conversions and edits have left in the output directory.  Of what
\* load_model_map and validate_moe_layout accept, MMBModel opens exactly what is
\* plainly written and has no two core tensors of one name.
THEOREM OpenedIsSound == Spec => []AcceptedIsSound
<1>1. IInv => AcceptedIsSound
  <2> SUFFICES ASSUME IInv
               PROVE  AcceptedIsSound
    OBVIOUS
  <2>1. CASE ~output.exists
    BY <2>1 DEF AcceptedIsSound
  <2>2. CASE output.exists
    <3>1. Absent.exists = FALSE
      BY DEF Absent
    <3>2. output \in Bundle
      BY <2>2, <3>1 DEF IInv, TypeOK
    <3>3. output.docs \in DocsType /\ output.shard \in Seq(Byte)
      BY <3>2 DEF Bundle
    <3> QED BY <2>2, <3>3, LenProperties, DocumentsSound
  <2> QED BY <2>1, <2>2
<1> QED BY <1>1, Invariance, PTL
-----------------------------------------------------------------------------
(* A bundle of one conversion                                              *)

\* The number of an expert block among those of the experts is that of its
\* layer and of its expert.
LEMMA RouteOfNumber ==
    ASSUME NEW layers \in Nat, NEW experts \in Nat \ {0}
    PROVE  /\ \A k \in 0 .. layers * experts - 1 :
                k \div experts \in 0 .. layers - 1 /\ k % experts \in 0 .. experts - 1
           /\ \A j, k \in 0 .. layers * experts - 1 :
                j \div experts = k \div experts /\ j % experts = k % experts => j = k
           /\ \A l \in 0 .. layers - 1, e \in 0 .. experts - 1 :
                \E k \in 0 .. layers * experts - 1 : k \div experts = l /\ k % experts = e
<1>1. layers * experts \in Nat
  OBVIOUS
<1>2. ASSUME NEW k \in 0 .. layers * experts - 1
      PROVE  /\ k \div experts \in 0 .. layers - 1 /\ k % experts \in 0 .. experts - 1
             /\ k = experts * (k \div experts) + (k % experts)
  <2>1. k \in Nat /\ k < layers * experts /\ k <= layers * experts
    BY <1>1
  <2>2. /\ k \div experts \in Nat /\ k % experts \in 0 .. experts - 1
        /\ k = experts * (k \div experts) + (k % experts)
    BY <2>1, DivMod
  <2>3. ~(k \div experts + 1 > layers)
    <3>1. k \div experts + 1 > layers => k = layers * experts
      BY <2>1, ExpertNumber
    <3> QED BY <1>1, <2>1, <3>1
  <2> DEFINE q == k \div experts
  <2> HIDE DEF q
  <2>4. q \in 0 .. layers - 1
    <3>1. q \in Nat /\ ~(q + 1 > layers)
      BY <2>2, <2>3 DEF q
    <3> QED BY <3>1
  <2> QED BY <2>2, <2>4 DEF q
<1>3. ASSUME NEW j \in 0 .. layers * experts - 1, NEW k \in 0 .. layers * experts - 1,
             j \div experts = k \div experts, j % experts = k % experts
      PROVE  j = k
  <2>1. /\ j = experts * (j \div experts) + (j % experts)
        /\ k = experts * (k \div experts) + (k % experts)
    BY <1>2
  <2> QED BY <1>3, <2>1, Zenon
<1>4. ASSUME NEW l \in 0 .. layers - 1, NEW e \in 0 .. experts - 1
      PROVE  \E k \in 0 .. layers * experts - 1 : k \div experts = l /\ k % experts = e
  <2> DEFINE k == experts * l + e
  <2>1. l \in Nat /\ e \in Nat /\ e < experts /\ l + 1 \in Nat /\ l + 1 <= layers
    OBVIOUS
  <2>2. k \div experts = l /\ k % experts = e
    BY <2>1, DivUnique
  <2>3. k \in 0 .. layers * experts - 1
    <3>1. experts * (l + 1) <= experts * layers
      BY <2>1, ProductGrows
    <3>2. experts * (l + 1) = experts * l + experts /\ experts * layers = layers * experts
          /\ experts * l \in Nat
      BY <2>1
    <3> QED BY <1>1, <2>1, <3>1, <3>2
  <2> QED BY <2>2, <2>3
<1> QED BY <1>2, <1>3, <1>4

\* A piece of the shard.
LEMMA PieceOf ==
    ASSUME NEW shard \in Seq(Byte), NEW bytes \in Seq(Byte),
           NEW first \in Nat, first + Len(bytes) <= Len(shard),
           \A k \in 1 .. Len(bytes) : shard[first + k] = bytes[k]
    PROVE  SubSeq(shard, first + 1, first + Len(bytes)) = bytes
<1> DEFINE n == Len(bytes)
           from == first + 1
           to == first + n
           piece == SubSeq(shard, from, to)
<1>1. n \in Nat /\ Len(shard) \in Nat /\ n <= Len(shard) /\ to <= Len(shard)
      /\ from \in Nat /\ to \in Nat
  BY LenProperties
<1>2. to - from + 1 = n /\ (from <= to <=> n # 0) /\ \A i \in 1 .. n : from + i - 1 = first + i
  BY <1>1
<1>3. \A i \in 1 .. n : shard[first + i] = bytes[i]
  OBVIOUS
<1>4. \A i \in from .. to : shard[i] \in Byte
  <2>1. \A i \in from .. to : i \in 1 .. Len(shard)
    BY <1>1
  <2> QED BY <2>1, ElementOfSeq
<1> HIDE DEF n, from, to
<1>5. /\ piece \in Seq(Byte) /\ Len(piece) = IF from <= to THEN to - from + 1 ELSE 0
      /\ \A i \in 1 .. to - from + 1 : piece[i] = shard[from + i - 1]
  <2>1. from \in Int /\ to \in Int
    BY <1>1
  <2> QED BY <1>4, <2>1, SubSeqProperties
<1> HIDE DEF piece
<1>6. piece \in Seq(Byte) /\ Len(piece) = n /\ \A i \in 1 .. n : piece[i] = bytes[i]
  BY <1>2, <1>3, <1>5
<1>7. Len(piece) = Len(bytes) /\ \A i \in 1 .. Len(piece) : piece[i] = bytes[i]
  BY <1>6 DEF n
<1>8. piece = bytes
  BY <1>6, <1>7, SeqEqual
<1> QED BY <1>8 DEF piece, from, to, n

\* The fields of a bundle of one conversion.
LEMMA WholeFields ==
    ASSUME NEW bundle \in Bundle, Whole(bundle)
    PROVE  LET source == bundle.source
               docs == bundle.docs
               C == Len(source.core)
               L == Len(source.fused)
               E == source.experts
           IN  /\ source \in Sources /\ Splittable(source)
               /\ docs \in DocsType /\ bundle.shard \in Seq(Byte)
               /\ C \in Nat /\ L \in Nat \ {0} /\ E \in Nat \ {0}
               /\ docs.layer_count = L /\ docs.expert_count = E
               /\ DOMAIN docs.blocks = 1 .. C + L * E
               /\ DOMAIN docs.core = 1 .. C /\ Len(docs.layers) = L /\ DOMAIN docs.layers = 1 .. L
               /\ \A n \in 1 .. C :
                    /\ source.core[n] \in Nat \ {0} /\ docs.core[n].id = n
                    /\ docs.core[n].tensor = n /\ docs.core[n].length = source.core[n]
               /\ \A l \in 1 .. L :
                    /\ docs.layers[l].layer = l - 1
                    /\ docs.layers[l].segments = Segments(source, l)
                    /\ docs.layers[l].length = SegmentOffset(source, l, 4)
<1> DEFINE source == bundle.source
           docs == bundle.docs
           C == Len(source.core)
           L == Len(source.fused)
           E == source.experts
<1>1. source \in Sources /\ docs \in DocsType /\ bundle.shard \in Seq(Byte)
  BY DEF Bundle
<1>2. /\ C \in Nat /\ DOMAIN source.core = 1 .. C /\ \A n \in 1 .. C : source.core[n] \in Nat \ {0}
      /\ L \in Nat \ {0} /\ DOMAIN source.fused = 1 .. L /\ E \in Nat \ {0}
  BY <1>1, SourceTyped
<1>3. Splittable(source) /\ docs.layer_count = L /\ docs.expert_count = E
  BY DEF Whole
<1>4. DOMAIN docs.blocks = 1 .. C + L * E
  <2>1. Len(docs.blocks) = C + L * E
    BY DEF Whole, NBlocks
  <2>2. docs.blocks \in Seq(CoreBlock \cup ExpertBlock)
    BY <1>1, DocsFields
  <2> QED BY <2>1, <2>2, LenProperties
<1>5. docs.core = [n \in DOMAIN source.core |-> [id |-> n, tensor |-> n, length |-> source.core[n]]]
  BY DEF Whole
<1>6. docs.layers = [l \in DOMAIN source.fused |->
                        [layer |-> l - 1, segments |-> Segments(source, l),
                         length |-> SegmentOffset(source, l, 4)]]
  BY DEF Whole
<1>7. Len(docs.layers) = L /\ DOMAIN docs.layers = 1 .. L
  <2>1. DOMAIN docs.layers = 1 .. L
    BY <1>2, <1>6
  <2>2. Len(docs.layers) \in Nat /\ DOMAIN docs.layers = 1 .. Len(docs.layers)
    BY <1>1, LayersTyped
  <2> QED BY <1>2, <2>1, <2>2
<1> HIDE DEF docs, source, C, L, E
<1>8. DOMAIN docs.core = 1 .. C
  BY <1>2, <1>5
<1>9. \A n \in 1 .. C : /\ docs.core[n].id = n /\ docs.core[n].tensor = n
                        /\ docs.core[n].length = source.core[n]
  BY <1>2, <1>5
<1>10. \A l \in 1 .. L : /\ docs.layers[l].layer = l - 1
                         /\ docs.layers[l].segments = Segments(source, l)
                         /\ docs.layers[l].length = SegmentOffset(source, l, 4)
  BY <1>2, <1>6
<1> QED BY <1>1, <1>2, <1>3, <1>4, <1>7, <1>8, <1>9, <1>10 DEF docs, source, C, L, E

\* The blocks of a whole bundle: first those of the core tensors, then those of
\* the experts, each in the shard.
LEMMA WholeBlocks ==
    ASSUME NEW bundle \in Bundle, Whole(bundle)
    PROVE  LET source == bundle.source
               docs == bundle.docs
               C == Len(source.core)
               L == Len(source.fused)
               E == source.experts
           IN  /\ CoreAt(docs) = 1 .. C
               /\ \A n \in 1 .. C : /\ docs.blocks[n].id = n
                                    /\ docs.blocks[n].length = source.core[n]
               /\ ExpertAt(docs) = C + 1 .. C + L * E
               /\ \A k \in 0 .. L * E - 1 :
                    LET b == docs.blocks[C + 1 + k]
                    IN  /\ b.layer = k \div E /\ b.expert = k % E
                        /\ b.length = SegmentOffset(source, k \div E + 1, 4)
               /\ \A n \in DOMAIN docs.blocks : docs.blocks[n].length \in Nat \ {0}
<1> DEFINE source == bundle.source
           docs == bundle.docs
           C == Len(source.core)
           L == Len(source.fused)
           E == source.experts
           B == docs.blocks
<1>1. /\ source \in Sources /\ Splittable(source) /\ C \in Nat /\ L \in Nat \ {0}
      /\ E \in Nat \ {0} /\ DOMAIN B = 1 .. C + L * E
      /\ \A n \in 1 .. C : source.core[n] \in Nat \ {0}
  BY WholeFields
<1>2. \A n \in DOMAIN B : IsBlock(source, n, B[n])
  BY DEF Whole, Written
<1>3. \A n \in DOMAIN B :
        IF n <= C
        THEN B[n].kind = "core" /\ B[n].id = n /\ B[n].length = source.core[n]
        ELSE /\ B[n].kind = "expert"
             /\ B[n].layer = (n - C - 1) \div E /\ B[n].expert = (n - C - 1) % E
             /\ B[n].length = SegmentOffset(source, B[n].layer + 1, 4)
  BY <1>2 DEF IsBlock
<1>4. L * E \in Nat
  BY <1>1
<1> DEFINE M == L * E
<1>5. /\ CoreAt(docs) = {n \in DOMAIN B : B[n].kind = "core"}
      /\ ExpertAt(docs) = {n \in DOMAIN B : B[n].kind = "expert"}
  BY DEF CoreAt, ExpertAt
<1>6. \A l \in 1 .. L : SegmentOffset(source, l, 4) \in Nat \ {0}
  BY <1>1, LayerLengths
<1>7. \A k \in 0 .. M - 1 : k \div E \in 0 .. L - 1
  BY <1>1, RouteOfNumber
<1> HIDE DEF B, C, L, E, M
<1>8. /\ CoreAt(docs) = 1 .. C /\ ExpertAt(docs) = C + 1 .. C + M
      /\ C \in Nat /\ M \in Nat /\ DOMAIN B = 1 .. C + M
  <2>1. C \in Nat /\ M \in Nat /\ DOMAIN B = 1 .. C + M
    BY <1>1, <1>4 DEF M
  <2>2. \A n \in 1 .. C + M : /\ n <= C => B[n].kind = "core"
                              /\ ~(n <= C) => B[n].kind = "expert"
    BY <1>3, <2>1
  <2>3. \A n \in 1 .. C : n \in 1 .. C + M /\ n <= C
    BY <2>1
  <2>4. \A n \in C + 1 .. C + M : n \in 1 .. C + M /\ ~(n <= C)
    BY <2>1
  <2>5. \A n \in 1 .. C + M : n \in 1 .. C \/ n \in C + 1 .. C + M
    BY <2>1
  <2> HIDE DEF docs
  <2> QED BY <1>5, <2>1, <2>2, <2>3, <2>4, <2>5
<1>9. \A n \in 1 .. C : n \in DOMAIN B /\ B[n].id = n /\ B[n].length = source.core[n]
  <2>1. \A n \in 1 .. C : n \in 1 .. C + M /\ n <= C
    BY <1>8
  <2> QED BY <1>3, <1>8, <2>1
<1>10. ASSUME NEW k \in 0 .. M - 1
       PROVE  LET b == B[C + 1 + k]
              IN  /\ b.layer = k \div E /\ b.expert = k % E
                  /\ b.length = SegmentOffset(source, k \div E + 1, 4)
  <2> DEFINE n == C + 1 + k
  <2>1. n \in 1 .. C + M /\ ~(n <= C) /\ n - C - 1 = k
    BY <1>8
  <2> HIDE DEF n
  <2>2. /\ B[n].layer = k \div E /\ B[n].expert = k % E
        /\ B[n].length = SegmentOffset(source, B[n].layer + 1, 4)
    BY <1>3, <1>8, <2>1
  <2> QED BY <2>2 DEF n
<1>11. ASSUME NEW n \in DOMAIN B
       PROVE  B[n].length \in Nat \ {0}
  <2>1. CASE n <= C
    <3>1. n \in 1 .. C
      BY <1>8, <2>1
    <3> QED BY <1>1, <1>9, <3>1 DEF C
  <2>2. CASE ~(n <= C)
    <3> DEFINE k == n - C - 1
    <3>1. k \in 0 .. M - 1 /\ n = C + 1 + k
      BY <1>8, <2>2
    <3> HIDE DEF k
    <3>2. B[n].length = SegmentOffset(source, k \div E + 1, 4)
      BY <1>10, <3>1
    <3> DEFINE q == k \div E
    <3>3. q \in 0 .. L - 1
      BY <1>7, <3>1
    <3> HIDE DEF q
    <3>4. q + 1 \in 1 .. L
      BY <1>1, <3>3 DEF L
    <3> QED BY <1>6, <3>2, <3>4 DEF q
  <2> QED BY <2>1, <2>2
<1> QED BY <1>8, <1>9, <1>10, <1>11 DEF B, C, L, E, M

\* The blocks of a whole bundle are one for each core tensor and each route.
LEMMA WholeDiffer ==
    ASSUME NEW bundle \in Bundle, Whole(bundle)
    PROVE  LET source == bundle.source
               docs == bundle.docs
               C == Len(source.core)
               L == Len(source.fused)
               E == source.experts
           IN  /\ BlocksDiffer(docs) /\ RoutesOf(docs) = Routes(docs)
               /\ \A n \in 1 .. C : CoreBlockOf(docs, n) = docs.blocks[n]
               /\ \A l \in 1 .. L, e \in 0 .. E - 1 :
                    \E k \in 0 .. L * E - 1 :
                      /\ k \div E = l - 1 /\ k % E = e /\ C + 1 + k \in ExpertAt(docs)
                      /\ RouteAt(docs, C + 1 + k) = <<l - 1, e>>
                      /\ BlockOf(docs, <<l - 1, e>>) = docs.blocks[C + 1 + k]
<1> DEFINE source == bundle.source
           docs == bundle.docs
           C == Len(source.core)
           L == Len(source.fused)
           E == source.experts
           M == L * E
           B == docs.blocks
<1>1. /\ C \in Nat /\ L \in Nat \ {0} /\ E \in Nat \ {0} /\ DOMAIN B = 1 .. C + M
      /\ docs.layer_count = L /\ docs.expert_count = E
  BY WholeFields
<1>2. /\ CoreAt(docs) = 1 .. C /\ ExpertAt(docs) = C + 1 .. C + M
      /\ \A n \in 1 .. C : B[n].id = n
      /\ \A k \in 0 .. M - 1 : B[C + 1 + k].layer = k \div E /\ B[C + 1 + k].expert = k % E
  BY WholeBlocks
<1>3. /\ \A k \in 0 .. M - 1 : k \div E \in 0 .. L - 1 /\ k % E \in 0 .. E - 1
      /\ \A j, k \in 0 .. M - 1 : j \div E = k \div E /\ j % E = k % E => j = k
      /\ \A l \in 0 .. L - 1, e \in 0 .. E - 1 :
           \E k \in 0 .. M - 1 : k \div E = l /\ k % E = e
  BY <1>1, RouteOfNumber
<1>4. M \in Nat
  BY <1>1
<1>5. \A i : RouteAt(docs, i) = <<B[i].layer, B[i].expert>>
  BY DEF RouteAt
<1>6. Routes(docs) = (0 .. L - 1) \X (0 .. E - 1)
  BY <1>1 DEF Routes
<1>7. RoutesOf(docs) = {RouteAt(docs, i) : i \in ExpertAt(docs)}
  BY DEF RoutesOf
<1> HIDE DEF B, M, C, L, E
<1>8. \A i \in ExpertAt(docs) : i - C - 1 \in 0 .. M - 1 /\ i = C + 1 + (i - C - 1)
  <2>1. \A i \in C + 1 .. C + M : i - C - 1 \in 0 .. M - 1 /\ i = C + 1 + (i - C - 1)
    BY <1>1, <1>4
  <2> QED BY <1>2, <2>1
<1>9. \A k \in 0 .. M - 1 : /\ C + 1 + k \in ExpertAt(docs)
                            /\ RouteAt(docs, C + 1 + k) = <<k \div E, k % E>>
  <2> TAKE k \in 0 .. M - 1
  <2>1. C + 1 + k \in C + 1 .. C + M
    BY <1>1, <1>4
  <2>2. B[C + 1 + k].layer = k \div E /\ B[C + 1 + k].expert = k % E
    BY <1>2
  <2>3. RouteAt(docs, C + 1 + k) = <<B[C + 1 + k].layer, B[C + 1 + k].expert>>
    BY <1>5
  <2> QED BY <1>2, <2>1, <2>2, <2>3, Zenon
<1>10. \A i, j \in CoreAt(docs) : B[i].id = B[j].id => i = j
  BY <1>2
<1>11. ASSUME NEW i \in ExpertAt(docs), NEW j \in ExpertAt(docs),
              RouteAt(docs, i) = RouteAt(docs, j)
       PROVE  i = j
  <2> DEFINE x == i - C - 1
             y == j - C - 1
  <2>1. x \in 0 .. M - 1 /\ i = C + 1 + x /\ y \in 0 .. M - 1 /\ j = C + 1 + y
    BY <1>8
  <2> HIDE DEF x, y
  <2>2. <<x \div E, x % E>> = <<y \div E, y % E>>
    BY <1>9, <1>11, <2>1, Zenon
  <2>3. x \div E = y \div E /\ x % E = y % E
    BY <2>2
  <2>4. x = y
    BY <1>3, <2>1, <2>3, Zenon
  <2> QED BY <2>1, <2>4
<1>12. BlocksDiffer(docs)
  BY <1>10, <1>11 DEF BlocksDiffer, B
<1>13. ASSUME NEW n \in 1 .. C
       PROVE  CoreBlockOf(docs, n) = B[n]
  <2> DEFINE c == CHOOSE i \in CoreAt(docs) : docs.blocks[i].id = n
  <2>1. n \in CoreAt(docs) /\ docs.blocks[n].id = n
    BY <1>2 DEF B
  <2>2. c \in CoreAt(docs) /\ docs.blocks[c].id = n
    BY <2>1
  <2>3. CoreBlockOf(docs, n) = docs.blocks[c]
    BY DEF CoreBlockOf
  <2> HIDE DEF c
  <2>4. c = n
    BY <1>10, <2>1, <2>2 DEF B
  <2> QED BY <2>3, <2>4 DEF B
<1>14. ASSUME NEW i \in ExpertAt(docs)
       PROVE  BlockOf(docs, RouteAt(docs, i)) = B[i]
  <2> DEFINE c == CHOOSE j \in ExpertAt(docs) : RouteAt(docs, j) = RouteAt(docs, i)
  <2>1. c \in ExpertAt(docs) /\ RouteAt(docs, c) = RouteAt(docs, i)
    OBVIOUS
  <2>2. BlockOf(docs, RouteAt(docs, i)) = docs.blocks[c]
    BY DEF BlockOf
  <2> HIDE DEF c
  <2>3. c = i
    BY <1>11, <2>1
  <2> QED BY <2>2, <2>3 DEF B
<1>15. ASSUME NEW l \in 1 .. L, NEW e \in 0 .. E - 1
       PROVE  \E k \in 0 .. M - 1 :
                /\ k \div E = l - 1 /\ k % E = e /\ C + 1 + k \in ExpertAt(docs)
                /\ RouteAt(docs, C + 1 + k) = <<l - 1, e>>
                /\ BlockOf(docs, <<l - 1, e>>) = B[C + 1 + k]
  <2> DEFINE m == l - 1
  <2>1. m \in 0 .. L - 1
    BY <1>1
  <2> HIDE DEF m
  <2>2. PICK k \in 0 .. M - 1 : k \div E = m /\ k % E = e
    BY <1>3, <2>1
  <2>3. C + 1 + k \in ExpertAt(docs) /\ RouteAt(docs, C + 1 + k) = <<m, e>>
    BY <1>9, <2>2, Zenon
  <2>4. BlockOf(docs, <<m, e>>) = B[C + 1 + k]
    BY <1>14, <2>3, Zenon
  <2> QED BY <2>2, <2>3, <2>4 DEF m
<1>16. RoutesOf(docs) = Routes(docs)
  <2>1. ASSUME NEW i \in ExpertAt(docs)
        PROVE  RouteAt(docs, i) \in Routes(docs)
    <3> DEFINE x == i - C - 1
    <3>1. x \in 0 .. M - 1 /\ i = C + 1 + x
      BY <1>8
    <3> HIDE DEF x
    <3>2. RouteAt(docs, i) = <<x \div E, x % E>>
      BY <1>9, <3>1, Zenon
    <3>3. x \div E \in 0 .. L - 1 /\ x % E \in 0 .. E - 1
      BY <1>3, <3>1
    <3> QED BY <1>6, <3>2, <3>3
  <2>2. ASSUME NEW t \in Routes(docs)
        PROVE  \E i \in ExpertAt(docs) : RouteAt(docs, i) = t
    <3>1. PICK m \in 0 .. L - 1, e \in 0 .. E - 1 : t = <<m, e>>
      BY <1>6
    <3>2. PICK k \in 0 .. M - 1 : k \div E = m /\ k % E = e
      BY <1>3
    <3> QED BY <1>9, <3>1, <3>2, Zenon
  <2> QED BY <1>7, <2>1, <2>2
<1> QED BY <1>12, <1>13, <1>15, <1>16 DEF B, M, C, L, E

\* The blocks of a whole bundle lie one behind the other.
LEMMA WholeDisjoint ==
    ASSUME NEW bundle \in Bundle, Whole(bundle)
    PROVE  Disjoint(bundle.docs.blocks)
<1> DEFINE B == bundle.docs.blocks
<1>1. \A n \in DOMAIN B : \A m \in DOMAIN B : m < n => EndOf(B[m]) <= B[n].offset
  BY DEF Whole, Written
<1>2. \A n \in DOMAIN B : B[n].length \in Nat \ {0}
  BY WholeBlocks
<1>3. Ranges(B)
  BY WholeFields, BlocksTyped
<1>4. \A n \in DOMAIN B : n \in Nat /\ B[n].offset \in Nat
  BY <1>3 DEF Ranges
<1> HIDE DEF B
<1>5. ASSUME NEW i \in DOMAIN B, NEW j \in DOMAIN B, Before(B, i, j)
      PROVE  B[j].offset >= EndOf(B[i])
  <2>1. CASE i < j
    BY <1>1, <1>2, <1>4, <2>1 DEF EndOf
  <2>2. CASE j < i
    <3>1. B[j].offset + B[j].length <= B[i].offset
      BY <1>1, <2>2 DEF EndOf
    <3>2. B[j].offset < B[i].offset
      BY <1>2, <1>4, <3>1
    <3> QED BY <1>2, <1>4, <1>5, <3>2 DEF Before
  <2>3. CASE i = j
    BY <1>3, <1>5, <2>3, BeforeOrders
  <2> QED BY <1>4, <2>1, <2>2, <2>3
<1> QED BY <1>5 DEF Disjoint, Follows, B

\* The segments of a source's layer: one for each role, one behind the other.
LEMMA SegmentsFit ==
    ASSUME NEW source \in Sources, Splittable(source), NEW l \in 1 .. Len(source.fused)
    PROVE  LET S == Segments(source, l)
               length == SegmentOffset(source, l, 4)
           IN  /\ \A i \in 1 .. 3 :
                    /\ S[i].role = Roles[i] /\ S[i].offset = SegmentOffset(source, l, i)
                    /\ S[i].length = SliceLength(source, l, Roles[i])
                    /\ S[i].stride = S[i].length /\ S[i].offset \in Nat
                    /\ S[i].length >= 1 /\ EndOf(S[i]) <= length
               /\ ToSet(S) = {S[1], S[2], S[3]}
               /\ \A i, j \in 1 .. 3 : S[i].role = S[j].role => i = j
               /\ Tiles(S, length)
<1> DEFINE S == Segments(source, l)
           n(i) == SliceLength(source, l, Roles[i])
           o(i) == SegmentOffset(source, l, i)
<1>1. /\ \A i \in 1 .. 3 : n(i) \in Nat \ {0} /\ o(i) \in Nat /\ o(i + 1) = o(i) + n(i)
      /\ o(1) = 0 /\ o(4) \in Nat
  BY LayerLengths
<1>2. DOMAIN S = 1 .. 3 /\ \A i \in 1 .. 3 : S[i] = [role |-> Roles[i], offset |-> o(i),
                                                  length |-> n(i), stride |-> n(i)]
  BY DEF Segments
<1> HIDE DEF S, n, o
<1>3. /\ n(1) \in Nat \ {0} /\ n(2) \in Nat \ {0} /\ n(3) \in Nat \ {0}
      /\ o(1) = 0 /\ o(2) = n(1) /\ o(3) = n(1) + n(2) /\ o(4) = n(1) + n(2) + n(3)
  <2>1. 1 \in 1 .. 3 /\ 2 \in 1 .. 3 /\ 3 \in 1 .. 3 /\ 1 + 1 = 2 /\ 2 + 1 = 3 /\ 3 + 1 = 4
    OBVIOUS
  <2>2. n(1) \in Nat \ {0} /\ n(2) \in Nat \ {0} /\ n(3) \in Nat \ {0}
    BY <1>1, <2>1
  <2>3. o(1 + 1) = o(1) + n(1) /\ o(2 + 1) = o(2) + n(2) /\ o(3 + 1) = o(3) + n(3)
    BY <1>1, <2>1
  <2> QED BY <1>1, <2>1, <2>2, <2>3
<1>4. \A i \in 1 .. 3 : i = 1 \/ i = 2 \/ i = 3
  OBVIOUS
<1>5. \A i \in 1 .. 3 : o(i) + n(i) <= o(4) /\ n(i) >= 1
  BY <1>3, <1>4
<1>6. \A i \in 1 .. 3 : /\ S[i].role = Roles[i] /\ S[i].offset = o(i) /\ S[i].length = n(i)
                        /\ S[i].stride = S[i].length /\ S[i].offset \in Nat
                        /\ S[i].length >= 1 /\ EndOf(S[i]) = o(i) + n(i)
                        /\ EndOf(S[i]) <= o(4)
  BY <1>1, <1>2, <1>5, SMTT(30) DEF EndOf
<1>7. ToSet(S) = {S[1], S[2], S[3]}
  BY <1>2, <1>4 DEF ToSet
<1>8. \A i, j \in 1 .. 3 : S[i].role = S[j].role => i = j
  <2>1. \A i, j \in 1 .. 3 : Roles[i] = Roles[j] => i = j
    BY <1>4 DEF Roles
  <2> QED BY <1>6, <2>1
<1>9. \A i, j \in 1 .. 3 : Before(S, i, j) <=> i < j
  <2>1. o(1) < o(2) /\ o(2) < o(3) /\ o(1) < o(3)
    BY <1>3
  <2>2. \A i \in 1 .. 3 : o(i) \in Nat /\ n(i) \in Nat
    BY <1>1
  <2>3. ASSUME NEW i \in 1 .. 3, NEW j \in 1 .. 3
        PROVE  (i < j => o(i) < o(j)) /\ (j < i => o(j) < o(i))
    BY <1>4, <2>1
  <2> QED BY <1>6, <2>2, <2>3, SMTT(30) DEF Before
<1>10. Tiles(S, o(4))
  <2>1. ASSUME NEW i \in 1 .. 3, NEW j \in 1 .. 3, Follows(S, i, j)
        PROVE  S[j].offset = EndOf(S[i])
    <3>1. i < j /\ \A k \in 1 .. 3 : ~(i < k /\ k < j)
      BY <1>2, <1>9, <2>1 DEF Follows
    <3>2. j = i + 1
      <4>1. i + 1 \in 1 .. 3 => ~(i < i + 1 /\ i + 1 < j)
        BY <3>1
      <4> QED BY <3>1, <4>1
    <3>3. o(i + 1) = o(i) + n(i)
      BY <1>1
    <3>4. S[j].offset = o(j) /\ EndOf(S[i]) = o(i) + n(i)
      BY <1>6
    <3> QED BY <3>2, <3>3, <3>4
  <2>2. ASSUME NEW j \in 1 .. 3, \A i \in 1 .. 3 : ~Before(S, i, j)
        PROVE  S[j].offset = 0
    <3>1. 1 \in 1 .. 3 /\ ~(1 < j)
      BY <1>9, <2>2
    <3>2. j = 1
      BY <3>1
    <3> QED BY <1>3, <1>6, <3>2
  <2>3. ASSUME NEW j \in 1 .. 3, \A i \in 1 .. 3 : ~Before(S, j, i)
        PROVE  EndOf(S[j]) = o(4)
    <3>1. 3 \in 1 .. 3 /\ ~(j < 3)
      BY <1>9, <2>3
    <3>2. j = 3
      BY <3>1
    <3> QED BY <1>3, <1>6, <3>2
  <2> QED BY <1>2, <2>1, <2>2, <2>3 DEF Tiles
<1> QED BY <1>6, <1>7, <1>8, <1>10 DEF S, n, o

\* The layers of a whole bundle fit its blocks.
LEMMA WholeLayers ==
    ASSUME NEW bundle \in Bundle, Whole(bundle)
    PROVE  /\ LayersFit(bundle.docs)
           /\ \A l \in ToSet(bundle.docs.layers), i \in 1 .. 3 :
                l.segments[i].stride = l.segments[i].length
<1> DEFINE source == bundle.source
           docs == bundle.docs
           C == Len(source.core)
           L == Len(source.fused)
           E == source.experts
<1>1. /\ source \in Sources /\ Splittable(source) /\ L \in Nat \ {0} /\ E \in Nat \ {0}
      /\ docs.layer_count = L /\ docs.expert_count = E
      /\ Len(docs.layers) = L /\ DOMAIN docs.layers = 1 .. L
      /\ \A l \in 1 .. L : /\ docs.layers[l].layer = l - 1
                           /\ docs.layers[l].segments = Segments(source, l)
                           /\ docs.layers[l].length = SegmentOffset(source, l, 4)
  BY WholeFields
<1>2. \A l \in 1 .. L, e \in 0 .. E - 1 :
        \E k \in 0 .. L * E - 1 :
          k \div E = l - 1 /\ BlockOf(docs, <<l - 1, e>>) = docs.blocks[C + 1 + k]
  BY WholeDiffer
<1>3. \A k \in 0 .. L * E - 1 :
        docs.blocks[C + 1 + k].length = SegmentOffset(source, k \div E + 1, 4)
  BY WholeBlocks
<1>4. \A l \in 1 .. L :
        LET S == Segments(source, l)
        IN  /\ \A i \in 1 .. 3 : /\ S[i].stride = S[i].length /\ S[i].length >= 1
                                 /\ EndOf(S[i]) <= SegmentOffset(source, l, 4)
            /\ ToSet(S) = {S[1], S[2], S[3]}
            /\ \A i, j \in 1 .. 3 : S[i].role = S[j].role => i = j
            /\ Tiles(S, SegmentOffset(source, l, 4))
  BY <1>1, SegmentsFit
<1> HIDE DEF source, docs, C, L, E
<1>5. ASSUME NEW l \in 1 .. L, NEW e \in 0 .. E - 1
      PROVE  BlockOf(docs, <<docs.layers[l].layer, e>>).length = docs.layers[l].length
  <2>1. PICK k \in 0 .. L * E - 1 :
          k \div E = l - 1 /\ BlockOf(docs, <<l - 1, e>>) = docs.blocks[C + 1 + k]
    BY <1>2
  <2>2. BlockOf(docs, <<l - 1, e>>).length = SegmentOffset(source, l - 1 + 1, 4)
    BY <1>3, <2>1, Zenon
  <2>3. l - 1 + 1 = l
    BY <1>1
  <2> QED BY <1>1, <2>2, <2>3
<1>6. ASSUME NEW l \in 1 .. L
      PROVE  LayerFits(docs, docs.layers[l])
  <2> DEFINE S == Segments(source, l)
             length == SegmentOffset(source, l, 4)
  <2>1. docs.layers[l].segments = S /\ docs.layers[l].length = length
    BY <1>1
  <2>2. \A s \in ToSet(S) : s.length >= 1 /\ s.offset + s.length <= length
    <3>1. ToSet(S) = {S[1], S[2], S[3]} /\ 1 \in 1 .. 3 /\ 2 \in 1 .. 3 /\ 3 \in 1 .. 3
      BY <1>4
    <3>2. \A i \in 1 .. 3 : S[i].length >= 1 /\ S[i].offset + S[i].length <= length
      BY <1>4 DEF EndOf
    <3> HIDE DEF S, length
    <3> QED BY <3>1, <3>2
  <2>3. (\A i, j \in 1 .. 3 : S[i].role = S[j].role => i = j) /\ Tiles(S, length)
    BY <1>4
  <2>4. \A e \in 0 .. docs.expert_count - 1 :
          BlockOf(docs, <<docs.layers[l].layer, e>>).length = docs.layers[l].length
    BY <1>1, <1>5
  <2> HIDE DEF S, length
  <2> QED BY <2>1, <2>2, <2>3, <2>4 DEF LayerFits
<1>7. \A l \in 1 .. L : docs.layers[l].layer < docs.layer_count
  BY <1>1
<1>8. \A l, m \in 1 .. L : docs.layers[l].layer = docs.layers[m].layer => l = m
  BY <1>1
<1>9. LayersFit(docs)
  BY <1>1, <1>6, <1>7, <1>8 DEF LayersFit
<1>10. \A l \in ToSet(docs.layers), i \in 1 .. 3 : l.segments[i].stride = l.segments[i].length
  <2> TAKE l \in ToSet(docs.layers), i \in 1 .. 3
  <2>1. PICK m \in 1 .. L : l = docs.layers[m]
    BY <1>1 DEF ToSet
  <2>2. l.segments = Segments(source, m)
    BY <1>1, <2>1
  <2> QED BY <1>4, <2>2
<1> QED BY <1>9, <1>10 DEF docs

\* The core tensors of a whole bundle fit its blocks.
LEMMA WholeCore ==
    ASSUME NEW bundle \in Bundle, Whole(bundle)
    PROVE  CoreFits(bundle.docs) /\ NamesDiffer(bundle.docs)
<1> DEFINE source == bundle.source
           docs == bundle.docs
           C == Len(source.core)
<1>1. /\ DOMAIN docs.core = 1 .. C
      /\ \A n \in 1 .. C : /\ source.core[n] \in Nat \ {0} /\ docs.core[n].id = n
                           /\ docs.core[n].tensor = n /\ docs.core[n].length = source.core[n]
  BY WholeFields
<1>2. /\ CoreAt(docs) = 1 .. C
      /\ \A n \in 1 .. C : docs.blocks[n].id = n /\ docs.blocks[n].length = source.core[n]
  BY WholeBlocks
<1>3. \A n \in 1 .. C : CoreBlockOf(docs, n) = docs.blocks[n]
  BY WholeDiffer
<1> HIDE DEF source, docs, C
<1>4. ToSet(docs.core) = {docs.core[n] : n \in 1 .. C}
  BY <1>1 DEF ToSet
<1>5. {c.id : c \in ToSet(docs.core)} = {docs.blocks[i].id : i \in CoreAt(docs)}
  BY <1>1, <1>2, <1>4
<1>6. \A c \in ToSet(docs.core) : c.length >= 1 /\ c.length = CoreBlockOf(docs, c.id).length
  <2> TAKE c \in ToSet(docs.core)
  <2>1. PICK n \in 1 .. C : c = docs.core[n]
    BY <1>4
  <2> QED BY <1>1, <1>2, <1>3, <2>1
<1>7. \A m, n \in 1 .. C : docs.core[m].id = docs.core[n].id => m = n
  BY <1>1
<1>8. NamesDiffer(docs)
  BY <1>1 DEF NamesDiffer
<1> QED BY <1>1, <1>5, <1>6, <1>7, <1>8 DEF CoreFits, docs

\* Both readers accept a whole bundle.
LEMMA WholeAccepted ==
    ASSUME NEW bundle \in Bundle, Whole(bundle)
    PROVE  PythonAccepts(bundle) /\ NativeAccepts(bundle)
<1> DEFINE docs == bundle.docs
<1>1. \A n \in DOMAIN docs.blocks : docs.blocks[n].length \in Nat \ {0}
  BY WholeBlocks
<1>2. \A n \in DOMAIN docs.blocks : /\ docs.blocks[n].offset % docs.alignment = 0
                                    /\ EndOf(docs.blocks[n]) <= Len(bundle.shard)
  BY DEF Whole, Written
<1>3. \A b \in ToSet(docs.blocks) :
        BlockFits(b, Len(bundle.shard)) /\ b.offset % docs.alignment = 0
  <2> TAKE b \in ToSet(docs.blocks)
  <2>1. PICK n \in DOMAIN docs.blocks : b = docs.blocks[n]
    BY DEF ToSet
  <2>2. b.length \in Nat \ {0} /\ b.offset % docs.alignment = 0
        /\ b.offset + b.length <= Len(bundle.shard)
    BY <1>1, <1>2, <2>1 DEF EndOf
  <2>3. b.length >= 1
    BY <2>2
  <2> QED BY <2>2, <2>3 DEF BlockFits
<1>4. BlocksDiffer(docs) /\ RoutesOf(docs) = Routes(docs)
  BY WholeDiffer
<1>5. Disjoint(docs.blocks)
  BY WholeDisjoint
<1>6. CoreFits(docs) /\ NamesDiffer(docs)
  BY WholeCore
<1>7. /\ LayersFit(docs)
      /\ \A l \in ToSet(docs.layers), i \in 1 .. 3 : l.segments[i].stride = l.segments[i].length
  BY WholeLayers
<1>8. docs.layer_count >= 1 /\ docs.expert_count >= 1 /\ docs \in DocsType
  <2>1. docs.layer_count \in Nat \ {0} /\ docs.expert_count \in Nat \ {0} /\ docs \in DocsType
    BY WholeFields
  <2> QED BY <2>1
<1>9. Plain(docs) /\ ContractsAgree(docs)
  <2>1. docs.odd = {} /\ docs.contract = "plain" /\ docs.layout_contract = "plain"
    BY DEF Whole
  <2>2. \A i \in CoreAt(docs) : docs.blocks[i].id \in Nat
    BY WholeBlocks
  <2>3. Loaded(docs) = docs
    BY <1>8, <2>1, <2>2, LoadedFields
  <2> QED BY <2>1, <2>3 DEF Plain, ContractsAgree
<1>10. PythonAccepts(bundle)
  <2>1. Loaded(docs) = docs
    BY <1>9 DEF Plain
  <2> QED BY <1>3, <1>4, <1>5, <1>6, <1>7, <1>8, <1>9, <2>1 DEF PythonAccepts
<1> QED BY <1>6, <1>8, <1>9, <1>10, PlainOpens

\* In a whole bundle the region of each role of each expert holds its slice.
LEMMA WholeExpert ==
    ASSUME NEW bundle \in Bundle, Whole(bundle),
           NEW l \in DOMAIN bundle.source.fused, NEW e \in 0 .. bundle.source.experts - 1,
           NEW r \in ToSet(Roles)
    PROVE  LET length == bundle.source.fused[l][r] \div bundle.source.experts
           IN  ReadRegion(bundle, Region(bundle.docs, <<l - 1, e>>, r)) =
                 Slice(<<r, l>>, e * length, length)
<1> DEFINE source == bundle.source
           docs == bundle.docs
           C == Len(source.core)
           L == Len(source.fused)
           E == source.experts
           length == SliceLength(source, l, r)
           bytes == Slice(<<r, l>>, e * length, length)
<1>1. /\ source \in Sources /\ Splittable(source) /\ docs \in DocsType
      /\ bundle.shard \in Seq(Byte) /\ C \in Nat /\ L \in Nat \ {0} /\ E \in Nat \ {0}
      /\ DOMAIN docs.blocks = 1 .. C + L * E /\ DOMAIN docs.layers = 1 .. L
      /\ \A m \in 1 .. L : /\ docs.layers[m].layer = m - 1
                           /\ docs.layers[m].segments = Segments(source, m)
  BY WholeFields
<1>2. l \in 1 .. L /\ l \in Nat /\ e \in Nat
  BY <1>1, SourceTyped
<1>3. PICK i \in 1 .. 3 : Roles[i] = r
  BY DEF ToSet, Roles
<1>4. PICK k \in 0 .. L * E - 1 :
        /\ k \div E = l - 1 /\ k % E = e /\ C + 1 + k \in ExpertAt(docs)
        /\ RouteAt(docs, C + 1 + k) = <<l - 1, e>>
  BY <1>2, WholeDiffer
<1> DEFINE n == C + 1 + k
           b == docs.blocks[n]
           at == SegmentOffset(source, l, i)
<1>5. /\ b.layer = l - 1 /\ b.length = SegmentOffset(source, l - 1 + 1, 4) /\ l - 1 + 1 = l
  <2>1. b.layer = k \div E /\ b.length = SegmentOffset(source, k \div E + 1, 4)
    BY WholeBlocks
  <2>2. l - 1 + 1 = l
    BY <1>2
  <2> HIDE DEF b
  <2> QED BY <1>4, <2>1, <2>2
<1>6. LET segment == docs.layers[l].segments[i]
      IN  segment.role = r /\ segment.offset = at /\ segment.length = length
  <2>1. LET segment == Segments(source, l)[i]
        IN  /\ segment.role = Roles[i] /\ segment.offset = SegmentOffset(source, l, i)
            /\ segment.length = SliceLength(source, l, Roles[i])
    BY <1>1, <1>2, SegmentsFit
  <2>2. docs.layers[l].segments[i] = Segments(source, l)[i]
    BY <1>1, <1>2
  <2> QED BY <1>3, <2>1, <2>2
<1>7. Region(docs, <<l - 1, e>>, r) = [first |-> b.offset + at, length |-> length]
  <2>1. Checked(docs)
    BY <1>1, WholeAccepted, OpenedIsChecked
  <2>2. docs.layers[l].layer = b.layer /\ l \in DOMAIN docs.layers
    BY <1>1, <1>2, <1>5
  <2>3. LET segment == docs.layers[l].segments[i]
        IN  Region(docs, RouteAt(docs, n), segment.role)
              = [first |-> b.offset + segment.offset, length |-> segment.length]
    BY <1>1, <1>4, <2>1, <2>2, RegionFound, ZenonT(60)
  <2> QED BY <1>4, <1>6, <2>3
<1>8. n \in DOMAIN docs.blocks /\ ~(n <= C) /\ n - C - 1 = k
  <2>1. n \in DOMAIN docs.blocks
    BY <1>4 DEF ExpertAt
  <2>2. k \in Nat
    <3>1. L * E \in Nat
      BY <1>1, SMTT(30)
    <3> HIDE DEF L, E
    <3> QED BY <3>1
  <2> HIDE DEF C
  <2> QED BY <1>1, <2>1, <2>2
<1>9. b.offset \in Nat /\ b.length \in Nat
  BY <1>1, <1>8, BlocksTyped DEF Ranges
<1>10. /\ EndOf(b) <= Len(bundle.shard)
       /\ \A j \in 1 .. b.length : bundle.shard[b.offset + j] = BlockBytes(source, n)[j]
  BY <1>8 DEF Whole, Written
<1>11. BlockBytes(source, n) = ExpertBytes(source, l, e)
  <2>1. n - Len(source.core) - 1 = k /\ ~(n <= Len(source.core))
    BY <1>8
  <2>2. BlockBytes(source, n) = ExpertBytes(source, k \div source.experts + 1, k % source.experts)
    <3> HIDE DEF n, source
    <3> QED BY <2>1, ExpertBlockAt
  <2>3. k \div source.experts + 1 = l /\ k % source.experts = e
    BY <1>4, <1>5
  <2> HIDE DEF n, source
  <2> QED BY <2>2, <2>3
<1>12. \A j \in 1 .. length : ExpertBytes(source, l, e)[at + j] = bytes[j]
  <2>1. \A j \in 1 .. SliceLength(source, l, Roles[i]) :
          ExpertBytes(source, l, e)[SegmentOffset(source, l, i) + j]
            = Slice(<<Roles[i], l>>, e * SliceLength(source, l, Roles[i]),
                    SliceLength(source, l, Roles[i]))[j]
    BY <1>1, <1>2, BytesOfExpert, ZenonT(60)
  <2> QED BY <1>3, <2>1
<1>13. /\ at \in Nat /\ length \in Nat /\ at + length <= b.length
  <2>1. at \in Nat /\ length \in Nat
    BY <1>1, <1>2, <1>3, LayerLengths
  <2>2. at + length <= SegmentOffset(source, l, 4)
    <3>1. EndOf(Segments(source, l)[i]) <= SegmentOffset(source, l, 4)
          /\ Segments(source, l)[i].offset = at /\ Segments(source, l)[i].length = length
      BY <1>1, <1>2, <1>3, SegmentsFit
    <3> HIDE DEF at, length
    <3> QED BY <3>1 DEF EndOf
  <2> QED BY <1>5, <2>1, <2>2
<1>14. bytes \in Seq(Byte) /\ Len(bytes) = length
  <2>1. <<r, l>> \in TensorName /\ e * length \in Nat
    <3>1. length \in Nat
      BY <1>13
    <3> HIDE DEF length
    <3> QED BY <1>2, <3>1 DEF TensorName
  <2> HIDE DEF length
  <2> QED BY <1>13, <2>1, SliceBytes
<1> DEFINE first == b.offset + at
<1>15. SubSeq(bundle.shard, first + 1, first + Len(bytes)) = bytes
  <2> HIDE DEF b, at, length, bytes, n, source
  <2>1. first \in Nat /\ first + Len(bytes) <= Len(bundle.shard) /\ Len(bundle.shard) \in Nat
    <3>1. Len(bundle.shard) \in Nat
      BY <1>1, LenProperties
    <3> QED BY <1>9, <1>10, <1>13, <1>14, <3>1 DEF EndOf
  <2>2. ASSUME NEW j \in 1 .. Len(bytes)
        PROVE  bundle.shard[first + j] = bytes[j]
    <3>1. at + j \in 1 .. b.length /\ b.offset + (at + j) = first + j
      BY <1>9, <1>13, <1>14
    <3>2. bundle.shard[b.offset + (at + j)] = ExpertBytes(source, l, e)[at + j]
      BY <1>10, <1>11, <3>1
    <3> QED BY <1>12, <1>14, <3>1, <3>2
  <2> HIDE DEF first
  <2> QED BY <1>1, <1>14, <2>1, <2>2, PieceOf
<1>16. ReadRegion(bundle, Region(docs, <<l - 1, e>>, r)) = bytes
  <2>1. ReadRegion(bundle, Region(docs, <<l - 1, e>>, r))
          = SubSeq(bundle.shard, first + 1, first + length)
    <3> DEFINE region == Region(docs, <<l - 1, e>>, r)
    <3>1. region.first = first /\ region.length = length
      <4> HIDE DEF length, b, at
      <4> QED BY <1>7
    <3> HIDE DEF region, first, length
    <3>2. ReadRegion(bundle, region)
            = SubSeq(bundle.shard, region.first + 1, region.first + region.length)
      BY DEF ReadRegion
    <3> QED BY <3>1, <3>2 DEF region
  <2> QED BY <1>14, <1>15, <2>1
<1> QED BY <1>16 DEF SliceLength

\* In a whole bundle the region of each core tensor holds the tensor.
LEMMA WholeTensor ==
    ASSUME NEW bundle \in Bundle, Whole(bundle), NEW n \in DOMAIN bundle.source.core
    PROVE  ReadRegion(bundle, CoreRegion(bundle.docs, n)) =
             Slice(<<"core", n>>, 0, bundle.source.core[n])
<1> DEFINE source == bundle.source
           docs == bundle.docs
           C == Len(source.core)
           length == source.core[n]
           bytes == Slice(<<"core", n>>, 0, length)
           b == docs.blocks[n]
<1>1. source \in Sources /\ docs \in DocsType /\ bundle.shard \in Seq(Byte) /\ C \in Nat
  BY WholeFields
<1>2. n \in 1 .. C /\ n \in Nat /\ length \in Nat
  BY <1>1, SourceTyped
<1>3. b.length = length /\ n \in CoreAt(docs)
  BY <1>2, WholeBlocks
<1>4. CoreBlockOf(docs, n) = b
  BY <1>2, WholeDiffer
<1>5. n \in DOMAIN docs.blocks
  BY <1>3 DEF CoreAt
<1>6. b.offset \in Nat
  BY <1>1, <1>5, BlocksTyped DEF Ranges
<1>7. /\ EndOf(b) <= Len(bundle.shard)
      /\ \A j \in 1 .. b.length : bundle.shard[b.offset + j] = BlockBytes(source, n)[j]
  BY <1>5 DEF Whole, Written
<1>8. BlockBytes(source, n) = bytes
  BY <1>2 DEF BlockBytes
<1>9. bytes \in Seq(Byte) /\ Len(bytes) = length
  <2>1. <<"core", n>> \in TensorName /\ 0 \in Nat
    BY <1>2 DEF TensorName
  <2> QED BY <1>2, <2>1, SliceBytes
<1> HIDE DEF bytes, length, b
<1>10. SubSeq(bundle.shard, b.offset + 1, b.offset + Len(bytes)) = bytes
  <2>1. b.offset + Len(bytes) <= Len(bundle.shard)
    BY <1>3, <1>7, <1>9 DEF EndOf
  <2>2. \A j \in 1 .. Len(bytes) : bundle.shard[b.offset + j] = bytes[j]
    BY <1>3, <1>7, <1>8, <1>9
  <2> QED BY <1>1, <1>6, <1>9, <2>1, <2>2, PieceOf
<1>11. CoreRegion(docs, n) = [first |-> b.offset, length |-> length]
  BY <1>3, <1>4 DEF CoreRegion, BlockRegion
<1>12. ReadRegion(bundle, CoreRegion(docs, n)) = bytes
  BY <1>9, <1>10, <1>11 DEF ReadRegion
<1> QED BY <1>12 DEF bytes, length

\* Whatever conversions run side by side, fail or die, a bundle under the name of
\* the output that nobody has edited is one source's: both readers accept it, and
\* where the runtime pages a tensor from (MMBModel's regions) are its bytes.
THEOREM PublishedWhole == Spec => []PublishedIsWhole
<1>1. IInv => PublishedIsWhole
  <2> SUFFICES ASSUME IInv, output.exists, edits = 0
               PROVE  PublishedIsWhole
    BY DEF PublishedIsWhole
  <2>1. Absent.exists = FALSE
    BY DEF Absent
  <2>2. output \in Bundle /\ Whole(output)
    BY <2>1 DEF IInv, TypeOK
  <2>3. PythonAccepts(output) /\ NativeAccepts(output)
    BY <2>2, WholeAccepted
  <2>4. \A l \in DOMAIN output.source.fused, e \in 0 .. output.source.experts - 1,
           r \in ToSet(Roles) :
          LET length == output.source.fused[l][r] \div output.source.experts
          IN  ReadRegion(output, Region(output.docs, <<l - 1, e>>, r)) =
                Slice(<<r, l>>, e * length, length)
    BY <2>2, WholeExpert
  <2>5. \A n \in DOMAIN output.source.core :
          ReadRegion(output, CoreRegion(output.docs, n)) =
            Slice(<<"core", n>>, 0, output.source.core[n])
    BY <2>2, WholeTensor
  <2> QED BY <2>3, <2>4, <2>5 DEF PublishedIsWhole
<1> QED BY <1>1, Invariance, PTL
=============================================================================
