--------------------------- MODULE BundlePacking ---------------------------
(***************************************************************************)
(* Conversion of a GGUF file into a bundle (pack_moe_gguf), and the two    *)
(* readers of its documents: validate_moe_layout with load_model_map, and  *)
(* the native index MMBModel, which turns them into the byte ranges that   *)
(* the runtime pages.                                                      *)
(*                                                                         *)
(* Packers work side by side towards one output directory; each may fail   *)
(* or die at any step.  Somebody may then edit the documents.              *)
(*                                                                         *)
(* Abstractions.  A byte is named after the tensor and the place it comes  *)
(* from.  Shapes, types, the values of digests and the metadata file say   *)
(* nothing about where a byte is and are left out, and so is the text of   *)
(* the documents, but for the strings and numbers of which one reader      *)
(* takes more than the other:                                              *)
(*   id        negative when the string has spaces around it: -n is the    *)
(*             string of n with spaces, another string than that of n;     *)
(*   contract, layout_contract                                             *)
(*             the backend contract of the map and of the layout, "plain"  *)
(*             or with spaces around it;                                   *)
(*   odd       the fields that the documents have somewhere in a form that *)
(*             only the Python reader takes: a kind or shard with spaces   *)
(*             around it, a shard with backslashes where paths have none,  *)
(*             a sha256 with spaces or in upper case, a type beyond 32     *)
(*             bits, a dimension of a shape beyond 64.                     *)
(* A write is taken to be whole.  _copy_range does not look at what        *)
(* target.write returns, and the target is not buffered: see the README.   *)
(***************************************************************************)
EXTENDS Integers, Sequences, FiniteSets, SequencesExt

CONSTANTS
    Packers,    \* conversions, each run once
    Sources,    \* GGUF files they may be given
    Alignments, \* values of the alignment argument
    MaxEdits    \* bound on the changes to the documents

\* core: encoded lengths of the core tensors; experts: expert_count;
\* fused: for every layer the encoded lengths of the three fused tensors.
ASSUME PackingAssumption ==
    /\ MaxEdits \in Nat /\ Alignments \subseteq Nat \ {0}
    /\ \A s \in Sources :
         /\ s.core \in Seq(Nat \ {0}) /\ s.experts \in Nat \ {0}
         /\ s.fused \in Seq([{"down", "gate", "up"} -> Nat \ {0}])
         /\ s.fused # <<>>

VARIABLES
    packer,  \* where each conversion is, with what it has written
    output,  \* the output directory
    edits    \* for the bound

vars == <<packer, output, edits>>

Absent == [exists |-> FALSE]
Roles == <<"down", "gate", "up">>
Zero == <<"padding">>
-----------------------------------------------------------------------------
(* Layout arithmetic                                                       *)

Aligned(shard, alignment) ==
    LET end == ((Len(shard) + alignment - 1) \div alignment) * alignment
    IN shard \o [i \in 1 .. end - Len(shard) |-> Zero]

\* length bytes of a tensor from the place first on.
Slice(tensor, first, length) ==
    [i \in 1 .. length |-> <<tensor, first + i - 1>>]

SliceLength(source, layer, role) == source.fused[layer][role] \div source.experts

\* Mutant of SegmentOffset: the segments before are counted by the last one.
SegmentOffsetLastOnly(source, layer, i) ==
    IF i = 1 THEN 0 ELSE (i - 1) * SliceLength(source, layer, Roles[i - 1])

SegmentOffset(source, layer, i) ==
    LET Part(j) == IF j < i THEN SliceLength(source, layer, Roles[j]) ELSE 0
    IN  Part(1) + Part(2) + Part(3)

Segments(source, layer) ==
    [i \in 1 .. 3 |->
        [role |-> Roles[i], offset |-> SegmentOffset(source, layer, i),
         length |-> SliceLength(source, layer, Roles[i]),
         stride |-> SliceLength(source, layer, Roles[i])]]

ExpertBytes(source, layer, expert) ==
    LET Part(role) == LET length == SliceLength(source, layer, role)
                      IN Slice(<<role, layer>>, expert * length, length)
    IN  Part(Roles[1]) \o Part(Roles[2]) \o Part(Roles[3])

\* What _expert_groups demands of the fused tensors.
Splittable(source) ==
    \A l \in DOMAIN source.fused, r \in ToSet(Roles) :
        source.fused[l][r] % source.experts = 0
-----------------------------------------------------------------------------
(* pack_moe_gguf                                                           *)

GoOn(p, pc) == packer' = [packer EXCEPT ![p].pc = pc]
End(p, pc) == packer' = [packer EXCEPT ![p] = [pc |-> pc]]

\* The checks that come before anything is written.
Start(p, source, alignment) ==
    /\ packer[p].pc = "new"
    /\ IF Splittable(source) /\ ~output.exists
       THEN packer' = [packer EXCEPT ![p] =
                [pc |-> "core", source |-> source, alignment |-> alignment,
                 shard |-> <<>>, blocks |-> <<>>]]
       ELSE End(p, "failed")
    /\ UNCHANGED <<output, edits>>

NextOffset(p) == Len(Aligned(packer[p].shard, packer[p].alignment))

\* One block, at the next aligned offset of the shard.
Copy(p, block, bytes) ==
    packer' = [packer EXCEPT
        ![p].shard = Aligned(@, packer[p].alignment) \o bytes,
        ![p].blocks = Append(@, block)]

CopyCore(p) ==
    LET n == Len(packer[p].blocks) + 1
        core == packer[p].source.core
    IN /\ packer[p].pc = "core"
       /\ IF n > Len(core)
          THEN GoOn(p, "experts")
          ELSE Copy(p, [kind |-> "core", id |-> n,
                        offset |-> NextOffset(p), length |-> core[n]],
                    Slice(<<"core", n>>, 0, core[n]))
       /\ UNCHANGED <<output, edits>>

CopyExpert(p) ==
    LET source == packer[p].source
        n == Len(packer[p].blocks) - Len(source.core)
        layer == n \div source.experts + 1
        expert == n % source.experts
    IN /\ packer[p].pc = "experts"
       /\ IF layer > Len(source.fused)
          THEN GoOn(p, "publish")
          ELSE Copy(p, [kind |-> "expert", layer |-> layer - 1, expert |-> expert,
                        offset |-> NextOffset(p),
                        length |-> SegmentOffset(source, layer, 4)],
                    ExpertBytes(source, layer, expert))
       /\ UNCHANGED <<output, edits>>

\* model.mmb-map.json and model.mmb-layout.json.
Documents(p) ==
    LET source == packer[p].source
    IN [alignment |-> packer[p].alignment, blocks |-> packer[p].blocks,
        core |-> [n \in DOMAIN source.core |->
                    [id |-> n, tensor |-> n, length |-> source.core[n]]],
        odd |-> {}, contract |-> "plain", layout_contract |-> "plain",
        layer_count |-> Len(source.fused), expert_count |-> source.experts,
        layers |-> [l \in DOMAIN source.fused |->
            [layer |-> l - 1, segments |-> Segments(source, l),
             length |-> SegmentOffset(source, l, 4)]]]

\* The documents are written, and the partial directory becomes the output.
\* os.replace does not replace a directory with files in it.
Publish(p) ==
    /\ packer[p].pc = "publish" /\ ~output.exists
    /\ output' = [exists |-> TRUE, source |-> packer[p].source,
                  shard |-> packer[p].shard, docs |-> Documents(p)]
    /\ End(p, "done") /\ UNCHANGED edits

Packing(p) == packer[p].pc \in {"core", "experts", "publish"}

\* A short read, a full disk, an output that appeared: the partial directory is
\* removed.  One that dies leaves it, under a name of its own no reader opens.
Fail(p) ==
    /\ Packing(p) /\ End(p, "failed") /\ UNCHANGED <<output, edits>>

Die(p) ==
    /\ Packing(p) /\ End(p, "dead")
    /\ UNCHANGED <<output, edits>>
-----------------------------------------------------------------------------
(* The readers                                                             *)

EndOf(item) == item.offset + item.length

\* The order in which the ranges of the items are sorted, equal ones in any.
Before(items, i, j) ==
    LET x == items[i]
        y == items[j]
    IN  \/ x.offset < y.offset
        \/ x.offset = y.offset /\ x.length < y.length
        \/ x.offset = y.offset /\ x.length = y.length /\ i < j

\* Item j comes right after item i.
Follows(items, i, j) ==
    /\ Before(items, i, j)
    /\ \A k \in DOMAIN items : ~(Before(items, i, k) /\ Before(items, k, j))

\* Mutant of Disjoint: only blocks at the same offset are found to overlap.
DisjointStarts(blocks) ==
    \A i, j \in DOMAIN blocks :
        Follows(blocks, i, j) => blocks[j].offset > blocks[i].offset

\* Neighbours in the order of their offsets are compared.
Disjoint(blocks) ==
    \A i, j \in DOMAIN blocks :
        Follows(blocks, i, j) => blocks[j].offset >= EndOf(blocks[i])

\* Each segment begins where the one before ends, the last at the end.
Tiles(segments, length) ==
    /\ \A i, j \in DOMAIN segments :
         Follows(segments, i, j) => segments[j].offset = EndOf(segments[i])
    /\ \A j \in DOMAIN segments :
         /\ (\A i \in DOMAIN segments : ~Before(segments, i, j)) => segments[j].offset = 0
         /\ (\A i \in DOMAIN segments : ~Before(segments, j, i)) => EndOf(segments[j]) = length

CoreAt(docs) == {i \in DOMAIN docs.blocks : docs.blocks[i].kind = "core"}
ExpertAt(docs) == {i \in DOMAIN docs.blocks : docs.blocks[i].kind = "expert"}
RouteAt(docs, i) == <<docs.blocks[i].layer, docs.blocks[i].expert>>
Routes(docs) == (0 .. docs.layer_count - 1) \X (0 .. docs.expert_count - 1)
RoutesOf(docs) == {RouteAt(docs, i) : i \in ExpertAt(docs)}
BlockOf(docs, route) ==
    docs.blocks[CHOOSE i \in ExpertAt(docs) : RouteAt(docs, i) = route]
CoreBlockOf(docs, id) ==
    docs.blocks[CHOOSE i \in CoreAt(docs) : docs.blocks[i].id = id]

\* Both refuse a block id or a route that two blocks have.
BlocksDiffer(docs) ==
    /\ \A i, j \in CoreAt(docs) : docs.blocks[i].id = docs.blocks[j].id => i = j
    /\ \A i, j \in ExpertAt(docs) : RouteAt(docs, i) = RouteAt(docs, j) => i = j

\* Both demand of a layer that its segments are within the block, one for
\* each role, that they tile it, and that each block of it is as long.
LayerFits(docs, layer) ==
    /\ \A s \in ToSet(layer.segments) :
         s.length >= 1 /\ s.offset + s.length <= layer.length
    /\ \A i, j \in 1 .. 3 : layer.segments[i].role = layer.segments[j].role => i = j
    /\ Tiles(layer.segments, layer.length)
    /\ \A e \in 0 .. docs.expert_count - 1 :
         BlockOf(docs, <<layer.layer, e>>).length = layer.length

\* Both demand of the core tensors that each has a block of its length, and
\* each core block a tensor.
CoreFits(docs) ==
    /\ \A m, n \in DOMAIN docs.core : docs.core[m].id = docs.core[n].id => m = n
    /\ {c.id : c \in ToSet(docs.core)} = {docs.blocks[i].id : i \in CoreAt(docs)}
    /\ \A c \in ToSet(docs.core) :
         c.length >= 1 /\ c.length = CoreBlockOf(docs, c.id).length

NamesDiffer(docs) ==
    \A m, n \in DOMAIN docs.core : docs.core[m].tensor = docs.core[n].tensor => m = n

LayersFit(docs) ==
    /\ Len(docs.layers) = docs.layer_count
    /\ \A l, m \in DOMAIN docs.layers : docs.layers[l].layer = docs.layers[m].layer => l = m
    /\ \A l \in DOMAIN docs.layers :
         docs.layers[l].layer < docs.layer_count /\ LayerFits(docs, docs.layers[l])

BlockFits(b, size) == b.length >= 1 /\ b.offset + b.length <= size

Stripped(id) == IF id < 0 THEN -id ELSE id

\* The map as load_model_map keeps it: its strings are stripped, and what is odd
\* in a kind, a shard or a digest is made good.  The layout is read as it is.
Loaded(docs) ==
    [docs EXCEPT !.contract = "plain",
                 !.blocks = [i \in DOMAIN docs.blocks |->
                    IF i \in CoreAt(docs)
                    THEN [docs.blocks[i] EXCEPT !.id = Stripped(@)]
                    ELSE docs.blocks[i]]]

ContractsAgree(docs) == docs.contract = docs.layout_contract

\* load_model_map and validate_moe_layout: all that "mmb check" looks at where
\* there is no native backend to try.
PythonAccepts(bundle) ==
    LET docs == Loaded(bundle.docs)
    IN /\ \A b \in ToSet(docs.blocks) :
            BlockFits(b, Len(bundle.shard)) /\ b.offset % docs.alignment = 0
       /\ BlocksDiffer(docs) /\ Disjoint(docs.blocks) /\ ContractsAgree(docs)
       /\ docs.layer_count >= 1 /\ docs.expert_count >= 1
       /\ RoutesOf(docs) = Routes(docs)
       /\ CoreFits(docs) /\ LayersFit(docs)
       /\ \A l \in ToSet(docs.layers), i \in 1 .. 3 : l.segments[i].stride = l.segments[i].length

\* The constructor of MMBModel: the runtime.  It takes the strings as they are
\* written and numbers of its own width, counts the routes and looks at their
\* bounds, does not look at alignments and strides, and refuses a name that two
\* core tensors share.
NativeAccepts(bundle) ==
    LET docs == bundle.docs
    IN /\ docs.odd = {}
       /\ \A b \in ToSet(docs.blocks) : BlockFits(b, Len(bundle.shard))
       /\ BlocksDiffer(docs) /\ Disjoint(docs.blocks) /\ ContractsAgree(docs)
       /\ docs.layer_count > 0 /\ docs.expert_count > 0
       /\ Cardinality(ExpertAt(docs)) = docs.layer_count * docs.expert_count
       /\ \A i \in ExpertAt(docs) :
            docs.blocks[i].layer < docs.layer_count /\ docs.blocks[i].expert < docs.expert_count
       /\ CoreFits(docs) /\ NamesDiffer(docs) /\ LayersFit(docs)

\* The region of one role of one expert, which GGML reads as its slice.
Region(docs, route, role) ==
    LET layer == CHOOSE l \in ToSet(docs.layers) : l.layer = route[1]
        segment == CHOOSE s \in ToSet(layer.segments) : s.role = role
    IN [first |-> BlockOf(docs, route).offset + segment.offset, length |-> segment.length]

BlockRegion(block) == [first |-> block.offset, length |-> block.length]

CoreRegion(docs, id) == BlockRegion(CoreBlockOf(docs, id))
-----------------------------------------------------------------------------
\* A number of the documents that is off by one, a name or an id exchanged for
\* another, or a string or a number written as only one reader takes it.
Near(n) == {n - 1, n + 1} \cap Nat

EditedBlock(docs, i) ==
    {[docs EXCEPT !.blocks[i].offset = n] : n \in Near(docs.blocks[i].offset)}
    \cup {[docs EXCEPT !.blocks[i].length = n] : n \in Near(docs.blocks[i].length)}

Ids(docs) == UNION {{n, -n} : n \in DOMAIN docs.core}

EditedId(docs, i) == {[docs EXCEPT !.blocks[i].id = n] : n \in Ids(docs)}

EditedRoute(docs, i) ==
    {[docs EXCEPT !.blocks[i].expert = n] : n \in Near(docs.blocks[i].expert)}

EditedCore(docs, i) ==
    {[docs EXCEPT !.core[i].length = n] : n \in Near(docs.core[i].length)}
    \cup {[docs EXCEPT !.core[i].tensor = n] : n \in DOMAIN docs.core}
    \cup {[docs EXCEPT !.core[i].id = n] : n \in Ids(docs)}

EditedSegment(docs, l, i) ==
    LET segment == docs.layers[l].segments[i]
    IN  {[docs EXCEPT !.layers[l].segments[i].offset = n] : n \in Near(segment.offset)}
        \cup {[docs EXCEPT !.layers[l].segments[i].length = n,
                           !.layers[l].segments[i].stride = n] : n \in Near(segment.length)}
        \cup {[docs EXCEPT !.layers[l].segments[i].role = r] : r \in ToSet(Roles)}

EditedLayer(docs, l) ==
    {[docs EXCEPT !.layers[l].length = n] : n \in Near(docs.layers[l].length)}
    \cup {[docs EXCEPT !.layers[l].layer = n] : n \in Near(docs.layers[l].layer)}
    \cup (UNION {EditedSegment(docs, l, i) : i \in 1 .. 3})

EditedCounts(docs) ==
    {[docs EXCEPT !.layer_count = n] : n \in Near(docs.layer_count)}
    \cup {[docs EXCEPT !.expert_count = n] : n \in Near(docs.expert_count)}

Fields == {"kind", "shard", "sha256", "ggml_type", "shape"}

EditedForm(docs) ==
    {[docs EXCEPT !.odd = @ \cup {field}] : field \in Fields}
    \cup {[docs EXCEPT !.contract = "spaced"], [docs EXCEPT !.layout_contract = "spaced"]}

Edited(docs) ==
    UNION ({EditedBlock(docs, i) : i \in DOMAIN docs.blocks}
           \cup {EditedId(docs, i) : i \in CoreAt(docs)}
           \cup {EditedRoute(docs, i) : i \in ExpertAt(docs)}
           \cup {EditedCore(docs, i) : i \in DOMAIN docs.core}
           \cup {EditedLayer(docs, l) : l \in DOMAIN docs.layers}
           \cup {EditedCounts(docs), EditedForm(docs)})

Edit ==
    /\ output.exists /\ edits < MaxEdits
    /\ \E docs \in Edited(output.docs) : output' = [output EXCEPT !.docs = docs]
    /\ edits' = edits + 1 /\ UNCHANGED packer

Init ==
    /\ packer = [p \in Packers |-> [pc |-> "new"]]
    /\ output = Absent /\ edits = 0

Next ==
    \/ \E p \in Packers :
        \/ \E source \in Sources, alignment \in Alignments : Start(p, source, alignment)
        \/ CopyCore(p) \/ CopyExpert(p) \/ Publish(p) \/ Fail(p) \/ Die(p)
    \/ Edit

Spec == Init /\ [][Next]_vars
-----------------------------------------------------------------------------
(* Properties                                                              *)

ReadRegion(bundle, region) ==
    SubSeq(bundle.shard, region.first + 1, region.first + region.length)

\* Whatever conversions run, fail or die, a bundle that stands under the name
\* of the output is complete: both readers accept it, and the region of every
\* expert and role holds that expert's slice of that tensor, of one source.
PublishedIsWhole ==
    output.exists /\ edits = 0 =>
        LET source == output.source
            docs == output.docs
        IN /\ PythonAccepts(output) /\ NativeAccepts(output)
           /\ \A l \in DOMAIN source.fused, e \in 0 .. source.experts - 1, r \in ToSet(Roles) :
                LET length == source.fused[l][r] \div source.experts
                IN ReadRegion(output, Region(docs, <<l - 1, e>>, r)) =
                     Slice(<<r, l>>, e * length, length)
           /\ \A n \in DOMAIN source.core :
                ReadRegion(output, CoreRegion(docs, n)) = Slice(<<"core", n>>, 0, source.core[n])

Tensors(docs) ==
    ({"expert"} \X Routes(docs) \X ToSet(Roles)) \cup ({"core"} \X {c.id : c \in ToSet(docs.core)})

RegionOf(docs, t) ==
    IF t[1] = "expert" THEN Region(docs, t[2], t[3]) ELSE CoreRegion(docs, t[2])

BytesOf(region) == region.first .. region.first + region.length - 1

\* Nothing is in a form that load_model_map makes good, or beyond the integers
\* of the runtime.
Plain(docs) == Loaded(docs) = docs /\ docs.odd = {}

\* However the numbers of the documents are off, the runtime never opens a
\* bundle of which two tensors share a byte, a tensor reaches beyond the shard
\* or a byte of an expert block belongs to no tensor; and of the bundles that
\* load_model_map and validate_moe_layout accept it opens exactly those of which
\* no two core tensors have one name and whose strings and numbers are written as
\* the packer writes them.
AcceptedIsSound ==
    output.exists =>
        LET docs == output.docs
            Bytes(t) == BytesOf(RegionOf(docs, t))
        IN /\ PythonAccepts(output) => (NativeAccepts(output) <=> NamesDiffer(docs) /\ Plain(docs))
           /\ NativeAccepts(output) =>
                /\ \A t, u \in Tensors(docs) : t # u => Bytes(t) \cap Bytes(u) = {}
                /\ UNION {Bytes(t) : t \in Tensors(docs)} =
                     UNION {BytesOf(BlockRegion(b)) : b \in ToSet(docs.blocks)}
                /\ \A t \in Tensors(docs) : Bytes(t) \subseteq 0 .. Len(output.shard) - 1
=============================================================================
