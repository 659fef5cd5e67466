# MiniMaxBrain in TLA+

MiniMaxBrain (MMB) runs Mixture-of-Experts language models whose expert weights
do not fit in memory.  The experts stay in shard files (`.mmbw`); a pager brings
the ones the router selects into a byte-bounded cache, leases them to the matrix
product that needs them and evicts the least recently used ones.  Around that
stand a patched llama.cpp, a C API, a Python runtime and an HTTP server.

This directory models the parts of MMB where steps of several actors meet:
the pager and its cache, the CPU workers that compute with leased experts, the
life of the native runtime, the streaming of a reply from it to an HTTP client,
the page that shows it, the Python gate, a second pager that validates bundles,
and the bundle itself: how a conversion writes it, what its two readers accept
of it, and what becomes of verified bytes when files change.  TLC checks the
models on small instances; TLAPS proves the safety of all of them for every
instance.

Paths below are relative to `src/`.

## 1. Inventory

| Component | State | Operations | Interacts with | What is hard |
|---|---|---|---|---|
| Block cache `MMBCache` (native/src/mmb_cache.cpp) | entries by route, lease count and LRU stamp of each, clock, resident and peak bytes | find, insert, evict_until, acquire, release | called by the pager under its mutex | unsigned arithmetic at the budget's edge, never a leased victim |
| Pager `MMBPager` (native/src/mmb_pager.cpp), `MMBKernelLease` (mmb_kernel.cpp) | mutex, lease numbers, counters, the entries of each lease | acquire, release, record_paged_kernel, snapshot, commit_after_compute | reads shards through `MMBModel`; leases are used by kernels and by C callers without the mutex | partial failure of an acquire, use after free, commit in two critical sections |
| Expert provider (mmb_ggml_bridge.cpp) | one registered pager, one `ProviderOp` per open product | begin, get, end, register, unregister | callbacks of the GGML CPU backend | pointer life time across worker threads |
| `mul_mat_id` workers (native/llama.cpp/ggml/src/ggml-cpu/ggml-cpu.c, patched) | shared work buffer: row counts, activations, provider pointers, chunk counters; barrier | set-up, chunk loop, end, barriers | provider callbacks by worker 0 only | barriers, a shared counter per expert, reuse of the buffer |
| Native runtime (mmb_runtime.cpp, mmb_c_api.cpp) | model, pager, provider, context and its memory; process-wide "active" flag | open, chat, get_stats, close | llama.cpp, provider, Python through ctypes | partial construction, order of destruction |
| `NativeMMBRuntime` (minimaxbrain/native.py) | handle, `_closed`, `_call_lock`; per call a queue, a cancel flag, a worker thread | stream_chat, stats, close | C API; callback from C into Python | close against running calls, error and end in one queue |
| `MMBRuntime` (minimaxbrain/runtime.py) | `backend`, `_closed`, last statistics | stream_chat, stats, close | native runtime, HTTP server | backend set to None while in use |
| HTTP server and page (minimaxbrain/server_http.py) | handler thread per request; in the page: history, epoch, abort controller | GET, POST, send, stop, new chat | `MMBRuntime` | clients that hang up, replies of an earlier conversation |
| External gate (minimaxbrain/external.py, cache.py) | external leases, cache entries, reservations, three locks | start, acquire, release, expire, close | model map, storage | expiry of leases in use, close racing acquire |
| Storage and seal (minimaxbrain/storage.py) | set of verified blocks, seal file | read_into, create and verify seal | shard files | files that change between verification and use |
| Model index, JSON, SHA-256, llama loader (native) | immutable after construction | load, expert, read_expert | shard files | validation of a document |
| Converter (gguf.py, gguf_moe.py, tools/conversor_wizard.py) | files being written | pack | GGUF input | interruption, layout arithmetic |
| Configuration, model map, CLI, tools | none | load, print | everything | budget rule: one expert must fit, a whole product need not |
| Vendored llama.cpp | third party | | | not the project's code |

What makes each component correct:

* **cache and pager**: leased blocks stay resident; lease counts are exact also
  after failures; resident bytes never exceed the capacity; a request is refused
  only if it really does not fit; the counters add up.
* **workers and provider**: no worker reads through a pointer whose lease is
  over; nobody reuses the work buffer early; each output cell is computed
  exactly once; a paged kernel is recorded only for a complete product; the
  graph ends.
* **chat streaming**: no generation on a destroyed runtime; no worker survives
  its request; no piece is lost; an error is never taken for an end; close,
  waiting handlers and abandoned streams all come to an end.
* **native runtime**: one per process; the provider never outlives its pager;
  a failed construction leaves nothing behind; a chat sees no other's context
  and fits its own.
* **external gate**: counts are exact and no lease is without an owner, also
  when a close meets an admission; leased and core blocks stay; the budget
  covers what is being loaded; every call ends.
* **storage and seal**: bytes handed on as verified are those the map promises;
  a seal found under its name is whole; who relies on the seal has checked it.
* **page**: the history that is sent is a dialogue of the conversation on
  screen and what the screen shows; one reply streams at a time; controls and
  readiness follow the runtime whatever answer arrives when.
* **converter and readers**: a published bundle is complete and each region
  holds the bytes of its tensor; the two validators agree; nothing the runtime
  opens has overlapping regions.

`PROJECT.json` lists the hazards with the line where each bites and the
properties that cover it.

## 2. Modules

```
ByteCount          sizes of sets of blocks
LeaseStore         what a pager promises, abstractly
MMBPager           the pager, step by step;  implements LeaseStore
  MMBPagerMC         instances for TLC
  MMBPagerProofs     theorems                             (TLAPS)
Chunking           how a product is cut into chunks
  ChunkingMC         all small products
MulMatId           workers computing with leases of a LeaseStore
  MulMatIdMC
  MulMatIdProofs     theorems                             (TLAPS)
NativeRuntime      open, chat and close of the native runtime
  NativeRuntimeProofs  theorems                           (TLAPS)
ChatStream         handler, generators, native worker, close
  ChatStreamProofs   theorems                             (TLAPS)
WebConversation    the chat page
  WebConversationProofs  theorems                         (TLAPS)
ExternalGate       the Python gate and its cache
  ExternalGateMC
  ExternalGateProofs theorems                             (TLAPS)
BundleIntegrity    digests, seal and integrity modes on changing files
  BundleIntegrityProofs  theorems                         (TLAPS)
BundlePacking      conversion, and the two validators of its documents
  BundlePackingMC
  BundlePackingProofs  theorems                           (TLAPS)
```

`MMBPager` is shown to implement `LeaseStore`, and `MulMatId` uses a
`LeaseStore` as its pager, so what is checked of the workers rests on what is
proved of the pager and not on how it chooses its victims.

Operators whose comment begins "Mutant of" are not part of a model.  Each is a
plausible slip in the definition after it; exchanging the two must make TLC
refute a property, which shows that the property depends on that code.

Type invariants (`TypeOK`, or in the proof module itself) serve the proofs and
are conjuncts of the inductive invariants; the runs check the properties.  Each
inductive invariant has been checked by TLC on the instance of its run as well.

### MMBPager

| Model | Code |
|---|---|
| `entries`, `leases`, `last_used`, `clock`, `resident_bytes`, `peak_bytes` | `MMBCache`: `entries_` and its `CacheEntry`s, `clock_`, `stats_` |
| `stats` | `PagerStats` and `CacheStats::evictions` |
| `mutex`, `next_lease_id` | `mutex_`, `next_lease_id_` |
| `held`, `lease_state`, `owner`, `kernel` | the `MMBLease` objects and the `MMBKernelLease`s that own some of them |
| `pc`, `cur`, `todo`, `target` | where a thread is in `acquire` or `commit_after_compute` |
| `Acquire` | `MMBPager::acquire` up to the loop |
| `Hit`, `Miss`, `Evict`, `Insert` | the loop, `find`, `read_expert`, each turn of `evict_until`, `insert` |
| `UnknownRoute`, `ReadFails`, `TooLarge`, `BudgetExhausted` | the exceptions inside the loop, with the `catch` block (`Unwind`) |
| `Return` | the end of `acquire` |
| `Release` | `mmb_pager_release`, or the destructor of an uncommitted kernel lease |
| `RecordPagedKernel`, `CommitRelease` | the two halves of `commit_after_compute` |

The pager's methods exclude one another, but its callers read block bytes
through raw pointers with no lock, so the critical section is modelled in steps
and residence of leased blocks is required after each of them.

Modelling decisions:

* A block's bytes are its identity.  `read_expert` yields the whole block or
  throws; verification is one of the reasons to throw.
* `release` on a lease's entries is a single step under the mutex.  Each entry
  gets its own tick of the clock, in ascending order of expert, so the stamps
  are those of the code.
* A second release of one lease (it throws) is not modelled: the C function
  deletes the handle on success, and `MMBKernelLease` tests `released`.
* `MaxLeases` bounds the number of acquires.  When it is used up and nobody
  holds a lease the model stops, so deadlock is not checked; that the critical
  section ends is a liveness property instead.
* Times and `snapshot` are left out; 64-bit counters do not wrap.

### LeaseStore

The abstract promise: a request becomes a lease on blocks that are all in
memory, or is refused; leased blocks stay; the blocks in memory fit the budget,
given as the set `Fitting` of block sets that do.  `MMBPager` maps `entries` to
`resident`, its active leases to `granted`, and hides requests still under way.

### Chunking and MulMatId

`Chunking` is the arithmetic of `ggml_compute_forward_mul_mat_id`: the chunk
size, the grid of chunks (or one chunk per worker), the span of rows and columns
of each.

`MulMatId` runs `NWorkers` workers through `MaxOps` products.

| Model | Code |
|---|---|
| `arrived`, `passed` | the barrier, as the number of barriers each worker has entered and left |
| `stage` | worker 0 before, in and after `provider_begin` |
| `slices` | whose activations are in `wdata` |
| `rows`, `op_context`, `expert_data`, `chunk_ctr` | `matrix_row_counts`, `*moe_op_context`, `moe_expert_data`, `atomic_current_chunk` |
| `cur_a`, `chunk` | the loop variables of each worker |
| `computed`, `paged` | chunks computed in this product; products recorded by `record_paged_kernel` |
| `SetUp`, `Group`, `Page`, `Begin`, `BeginFails`, `SetUpZero` | everything before the first barrier |
| `Compute`, `LeaveExpert`, `FinishChunks` | the loops over experts and chunks |
| `End`, `GoOn` | between the second and third barrier, and on to the next node |

A product has three barriers of its own, and the graph adds one after each
node, so the position of a worker is `passed \div 4` and `passed % 4`.  Counting
barriers per worker covers both builds: the OpenMP barrier and the hand-written
one.  A failed `GGML_ASSERT` ends the process (`aborted`).  A chunk's
computation and the fetch of the next chunk number are one step; nothing another
worker does can fall between them with a different effect, because the counter
is the only thing they share there.  `Group` covers the products the provider
declines (`handled` false), for which the tensor's own data are used.

### ChatStream

| Model | Code |
|---|---|
| `rt_closed`, `backend` | `MMBRuntime._closed`, `backend is not None` |
| `closed`, `native`, `call_lock` | `NativeMMBRuntime._closed`, its handle, `_call_lock` |
| `handler` | position of the HTTP handler thread in `do_POST` and the two generators it drives |
| `worker`, `events`, `cancel` | the worker thread, the queue and the flag of one `stream_chat` call |
| `emitted`, `kept`, `delivered` | pieces produced, in the incremental decoder, written to the client |
| `Accept` to `Finish` | the handler: `do_POST`, `require_ready`, the start of the native stream, each event, statistics, writing, the `finally` clause |
| `TakeLock` to `Report` | the worker: the lock, the second look at `_closed`, the native chat with its callback, the last events |
| `CloseRuntime` to `Forget` | `MMBRuntime.close` and `NativeMMBRuntime.close` |

A response without streaming runs the same generator and collects the pieces;
it is the case in which `Write` succeeds.  A piece is a tick of a counter, and
the decoder may hold pieces back, which the code does with incomplete UTF-8.
One thread closes, once, as `cli.py` does; `ThreadedHTTPServer` makes its
handlers daemon threads, so the server's shutdown does not wait for them.

### NativeRuntime

| Model | Code |
|---|---|
| `active` | `g_runtime_active` |
| `registered`, `provider` | `g_registered_pager`; the provider set in GGML |
| `phase`, `parts` | how far `mmb_runtime_open` or the destructor of a runtime is; its members that exist |
| `lock`, `memory` | `generation_mutex_`; the tokens in the context, by the caller they came from |
| `calling`, `place`, `budget` | a caller inside `mmb_runtime_chat` |
| `Refuse`, `Reserve`, `Build`, `Register`, `BuildFails`, `Opened` | `mmb_runtime_open` and the constructor |
| `Close`, `TakeDown`, `Gone` | `mmb_runtime_close`, `cleanup`, the flag |
| `Call` to `TokenFails` | `mmb_runtime_chat` and `MMBLlamaRuntime::chat` |

`cleanup` takes the parts down in its own order, one step each, and serves the
constructor that failed and the destructor alike.  `Close` waits for chats on its
runtime because its only caller, `NativeMMBRuntime.close`, does; that this is so is
`ChatOnLiveRuntime` of `ChatStream`.

### ExternalGate

| Model | Code |
|---|---|
| `started`, `closed`, `leases`, `admission` | `_started`, `_closed`, `_leases`, `_admission_lock` of the gate |
| `stale` | leases created before the deadline of `_expire_stale_leases` |
| `entries`, `reservation`, `cache_leases` | `_entries`, `_reservations`, `_leases` of the cache |
| `pc`, `starting`, `todo`, `acquired`, `sweep`, `giving` | where a thread is, what it has leased and what it has yet to load or release |
| `CheckStart` to `MarkStarted` | `start` and `_load`; the same loading steps serve `acquire` |
| `Call`, `Expire`, `Ask`, `Register`, `Unwound` | `acquire` |
| `Pop`, `GiveBack` | `release`: the gate's table first, then each lease of the cache |
| `CloseCheck`, `Clear`, `Shut` | `close` |

`_lock` and the cache's lock protect single steps; `_admission_lock` spans the
loading of a whole request.  Expiry is a step `TimeOut` that may make the oldest
lease stale at any moment; `_expire_stale_leases` may find that its five seconds
have not passed.  The victim of an eviction is any candidate, since
`time.monotonic` need not tick between two uses; `reserve`'s two loops evict
until the block fits and no further, or every candidate before they fail.  Any
read may fail.  Each caller makes one call, so that a cache lease can be named
by its caller and place.  The gate is meant for several threads (it has three
locks), though the repository's own command line uses it from one.

### WebConversation

| Model | Code (`minimaxbrain/server_http.py`, the page's script) |
|---|---|
| `conversationEpoch`, `history`, `isStreaming`, `abortController`, `runtimeReady` | the variables of the same names |
| `shown` | the articles in `messagesEl` |
| `typed`, `promptDisabled`, `sendDisabled` | the prompt's text is not blank; `disabled` of the prompt and of the button |
| `await`, `epoch`, `aborted` | per submission: the await it is suspended in, its copy of the epoch, whether its controller has aborted |
| `server`, `asks` | the runtime's readiness; requests for statistics and their answers |
| `Type`, `Submit`, `Stop`, `NewChat` | the event listeners; `Submit` runs `submitMessage` to its first await |
| `Respond`, `Chunk`, `Done`, `Fail`, `Aborted`, `AbandonedReply` | the rest of `submitMessage`, from one await to the next, with its `catch` and `finally` clauses |
| `Poll`, `Answer`, `SetRuntimeUI` | the timer and `updateStats` |

JavaScript runs to the next await, so that an action is what happens in
between.  `Finally` ends with the request that `updateStats` makes; that the
awaits of two such requests may end in any order is the point of `asks`.  An
abort makes the pending await fail with `AbortError`, but a read may still
deliver what the browser has of the body, and the reading of an error's detail
swallows it (`server_http.py:828`).  A dialog (`window.confirm`) blocks the
script, and answered with no it changes nothing.

### BundleIntegrity

| Model | Code |
|---|---|
| `shard`, `map`, `layout`, `seal`, `tmp` | the files of a bundle, `model.verified.json` and its temporary file |
| `sealer` | a run of `create_model_seal` (`minimaxbrain/storage.py`): where it is and what it has hashed |
| `reader`, `accepted`, `verified` | a reader, the seal that `verify_model_seal` accepted, `FileRangeStore._verified` |
| `buffer`, `served` | the target of a read under way, and the bytes handed on |
| `Change` | anybody changes a piece of a file |
| `SealStart` to `Replace`, `SealerDies` | `create_model_seal` |
| `Start`, `CheckSeal` to `CheckLayout`, `Stop` | the constructor of `FileRangeStore` with `verify_model_seal`; for the direct runtime, `MMBRuntime._init_backend` |
| `ReadStart`, `ReadPiece`, `ReadEnds` | `FileRangeStore.read_into`; `MMBModel::read_expert` of the direct runtime |

A file is a sequence of pieces and a piece is known by the version its bytes
belong to, so that a file may be half old and half new.  Digests are compared
piece by piece: a block's digest matches if all its pieces do.  `quiet` and
`touched` remember, for the properties only, whether files have changed since
the sealer or the reader began, and which blocks have changed since they were
last verified.  One reader suffices: readers share only files.  The seal records
`layout` for all auxiliary files.

Of the map the code compares only two strings, `model_id` and `map_revision`, so
`Declared` is what a version of the map says there: the versions in `Alike` say
the same, whatever blocks they describe.  A map whose blocks have been edited
under an unchanged revision therefore passes `CheckSeal`.  One sealer works at a
time, several may follow each other, and a later one may find what an earlier one
left when it died.

### BundlePacking

| Model | Code |
|---|---|
| `packer` | a call of `pack_moe_gguf` (`minimaxbrain/gguf_moe.py`) with its shard and block list |
| `output` | the output directory: the shard and the two documents |
| `Start`, `CopyCore`, `CopyExpert`, `Publish`, `Fail`, `Die` | `pack_moe_gguf`; a process that ends in the middle |
| `Segments`, `ExpertBytes`, `Aligned`, `Splittable` | the arithmetic of offsets, slices, padding and splitting |
| `Loaded`, `PythonAccepts` | `load_model_map`, which strips and repairs strings, and `validate_moe_layout` |
| `NativeAccepts` | the constructor of `MMBModel` (`native/src/mmb_model.cpp`) |
| `Region`, `CoreRegion` | the regions it computes |
| `Edit` | one number, id or name in the documents changes, or how one is written |

The shard is a sequence of bytes, each named after the tensor and the place it
was copied from, so that "the right bytes" is equality of sequences.  The
partial directory has a random name, which no reader opens: it is part of
`packer`.  Everything written before `os.replace` is therefore private, and
`Publish` is one step; `os.replace` fails if the output exists by then, since
the output is a directory with files.  Numbers change by one, and roles, ids and
names are exchanged, which is what a slip in another writer of the format, or
in this one, would produce.

The two readers differ in what they take of a string or a number, and the
documents of the model say so where they do.  `load_model_map` strips the strings
of the map, changes backslashes in shard names to slashes and lower-cases digests;
`MMBModel` takes them as they are, wants digests in lower case, and limits types
and dimensions to its integers.  The ids of core blocks and tensors are compared
with each other, so their spaces matter one by one: a negative id is one with
spaces around it, and `Loaded` strips those of the map only, which is why a map
and a layout whose ids have the same spaces agree for `MMBModel` and not for
`validate_moe_layout`.  The backend contracts of the two documents are compared in
the same way (`contract`, `layout_contract`).  All other such fields matter only
to their own reader, and `odd` is the set of those that have such a form somewhere.

## 3. Runs

| Run | Instance | States | Shows |
|---|---|---|---|
| `pager` | 2 threads, 3 layers with 2, 1 and 1 of 2 experts described, sizes 1, 2 and 4, capacity 2, 3 leases | 647,481 | all safety of the pager, refinement of `LeaseStore`, end of the critical section |
| `product_claims` | 2 workers, 3 experts (2 fit), 2 products, up to 8 chunks per expert | 74,434 | claims, leases, buffer, end of the graph, no deadlock |
| `chunk_partition` | all products up to 66 x 34, up to 3 workers, NUMA or not | 13,464 | the chunks partition the output |
| `chat` | 2 requests, a close, replies of up to 2 pieces | 233,942 | safety of streaming; close, waiting handlers and abandoned streams end; no deadlock |
| `chat_close_midstream` | as `chat` | violation | the first finding below |
| `native_runtime` | 2 opens, 3 callers, a context of 5 tokens | 689 | life cycle and context of the native runtime, no deadlock |
| `gate` | 2 callers, a core block, 4 experts of sizes 1, 1, 1, 3, room for 3 beside the core, 2 slots | 212,081 | all safety of the gate; every call ends |
| `gate_expiry` | as `gate`, two requests | violation | the second finding below |
| `web_conversation` | 3 submissions, 1 new chat, replies of up to 1 piece, 2 requests for statistics at once | 309,120 | the page, no deadlock |
| `bundle_integrity` | 2 blocks of 2 pieces, 2 versions of one revision, all modes, both readers, 2 changes, 1 sealing beside an earlier seal and the remains of another | 5,809,408 | what each integrity mode guarantees; seals are whole |
| `seal_startup` | as `bundle_integrity` | violation | the third finding below |
| `packing` | 2 conversions of 3 kinds of source, 2 alignments, 2 edits | 233,307 | bundles are whole; the validators are sound and differ exactly as stated |

Bounds and why they are enough:

* **Pager.**  With sizes 1 and 2 and capacity 2 one insertion may need two
  evictions, a leased block of layer 0 keeps layer 1 out, and an acquire of both
  experts of layer 1 fails on the second route with a lease taken.  The block of
  layer 2 exceeds the cache.  Three leases let two be held while the third
  evicts or fails.  The proofs remove the bounds for safety.
* **Workers.**  Three experts of which two fit make products evict each other's
  blocks, and a product of all three fail.  128 rows and two activations give 8
  chunks, four per worker, the least for which chunks are claimed from the
  counter; one activation gives the other mode.  Two products are needed, and
  enough, for one to overtake the other.
* **Chunks.**  66 rows and 34 columns pass one and two multiples of 16 and one
  of 64, and cross the limit of four chunks per worker.
* **Streaming.**  Two requests compete for the lock with each other and with
  close.  Two pieces allow one in the decoder, one queued and the end behind.
* **Runtime.**  A third open would only be refused as the second is.  Five
  tokens allow prompts and replies on both sides of the limit; a mutex holder
  and two waiting callers are all there is to a mutex.
* **Gate.**  One request hits a block twice and fills the slots, one names the
  core block, one can fail on its second block after leasing its first.  The
  large expert is kept out by bytes, the third small one by slots.  Two callers,
  the second of which may find stale leases of the first while the main thread
  closes, are three threads in the tables at once.
* **Page.**  Two submissions of one conversation give a dialogue an order, and
  the third, or the second after a new chat, meets the reply of an abandoned
  one.  One piece separates an empty reply from one with text; two requests are
  what it takes for answers to overtake each other.
* **Integrity.**  Two blocks separate the verified from the unverified; two
  pieces let a file change within a block during a read.  Two changes replace
  bytes and restore them, the case a check at two moments cannot see.
  The two versions have one revision, so that only digests tell them apart.  A
  sealer may begin where another died: the initial states have the temporary file
  with and without half a seal in it.
* **Packing.**  Segments of different lengths tell the three apart, two layers
  and two experts tell layers from experts, and one source cannot be split.
  Alignment 1 leaves no gaps between blocks and 4 does.  Two edits can make a
  second number agree with a wrong first one, and put spaces around an id in
  both documents.

Fairness: a thread that is inside the pager's critical section runs on; GGML
workers, handlers, the native worker and a close that has been asked for run on.
Operating system threads justify weak fairness for each.  Nothing is assumed of
HTTP clients, which may stop reading for ever, nor of the order in which waiting
threads get a lock.  The native chat is bounded by `max_tokens`, and its model
by `MaxPieces`.  In `MulMatId` the paging inside `provider_begin` is not forced
to stop by fairness of its own; `BeginFails` is always possible as an answer,
and that an answer comes is `CriticalSectionEnds` of the pager.  Threads inside
a method of the gate run on; nobody has to enter, call, release or leave.
In the page the browser
serves the timer, the awaits end, and the server answers (`HandlersGoOn` for
the reply); the user need not do anything, and neither need replies produce
text.  `NativeRuntime`, `BundleIntegrity` and `BundlePacking` state safety only.
The terminal states of `ExternalGate`, where everybody has made his call, are
deadlocks by design and not checked, `CallsEnd` being the property instead; nor
are those of the pager, the bundle modules and `ChunkingMC`, which stop at
their bounds.

## 4. Findings

`FailuresExplicit` states what the comment at `minimaxbrain/server_http.py:959`
says: operational failures are returned explicitly.  TLC refutes it.  A handler
takes a piece from the queue; `MMBRuntime.close` runs in the main thread,
destroys the native runtime and sets `self.backend = None`; the handler then
calls `self.backend.stats()` (`runtime.py:356`) and gets an `AttributeError`.
The handler catches `MMBError` only, so the client receives the part of the
reply it has, `[DONE]`, and no error.  `CompleteIsWhole` shows that this is the
only way: a reply whose stream ends without an exception is whole.

`HeldUntilRelease` states what the docstring of `acquire` says: blocks are held
until explicit release (`external.py:135`).  TLC refutes it without a close: a
lease outlives `lease_timeout_seconds`, the next `acquire` releases it before its
own work (`external.py:125`) and may evict its blocks, whose bytes are then
cleared under the holder.  `HeldIsResident` shows what does hold: blocks stay
until their lease has been released or has expired.

`SealedStartup` states what `SECURITY.md:18` says: `integrity=seal` verifies the
registered set at startup.  TLC refutes it in two steps: `MMBRuntime` passes the
native runtime `verify_sha256 = integrity != "none"` (`runtime.py:208`) and never
looks at the seal; only the gate's `FileRangeStore` and `mmb check` do.
`VerifiedReads` shows what does hold for the direct runtime: the expert blocks
it pages match their digests in the map it loaded.

Smaller observations, made while reading and not the subject of a run:

* `validate_moe_layout` says that the native backend validates the same
  invariants (`gguf_moe.py:337`).  It demands more: it refuses two core tensors of
  one name (`mmb_model.cpp:226`), digests in upper case or with spaces
  (`mmb_model.cpp:142` against `model_map.py:187`), spaces around other strings of
  the map and backslashes in a shard name (`mmb_model.cpp:106` against
  `model_map.py:45` and `128`), and types and dimensions beyond its integers;
  it does not look at alignments and strides.  A bundle that passes `mmb check`
  where no native backend is found (`cli.py:97`) can therefore fail at start.
  `AcceptedIsSound` states the relation that holds, exactly.
* `cli.py:110` calls `pager.model_info()`, a property of `NativePager`
  (`native.py:343`).
* `NativeMMBRuntime.stats` reads the handle without the lock that `close` takes
  to destroy it (`native.py:625`); nothing but the order of the program's
  shutdown separates `/api/stats` from a close.
* An abandoned reply still updates the figures of the page's metrics panel
  (`server_http.py:768`), which belong to no conversation.
* `create_model_seal` reads a shard twice (`storage.py:83` and `storage.py:105`),
  so that files that change while they are sealed can get a seal that no block
  comparison has seen; this is the proviso of `SealedReads`.

## 5. Proofs

`MMBPagerProofs` holds for every set of layers and experts, every model map,
block sizes, capacity, set of threads and number of leases, under
`PagerAssumption` (layers and experts are finite sets of numbers, sizes and
capacity are positive, `NoThread` is not a thread).

The invariants are not inductive one by one.  That no leased block is evicted
follows from the victim having lease count 0 only if counts equal the number of
holders; that counts stay exact when a lease is undone needs that its blocks are
distinct and that a route still to be leased is not already in the lease; the
budget stays exact on insertion only if the block inserted is not in the cache,
which a thread found out in an earlier step and which still holds because no
other thread is inside.  So the inductive invariant is

    IInv == TypeOK /\ CallsAndLeases /\ HeldIsResident
                   /\ LeaseCountsHolders /\ BudgetKept

with `CallsAndLeases` saying where a thread may be and what its lease looks like
there.  The argument:

1. `StepShapes`: each step either leaves the leases alone, adds one block to one
   lease (`Push`), or empties one lease (`ReleaseEntries`).
2. `PushCounts`, `ReleaseCounts`: the last two keep counts equal to the number of
   holders, by cardinalities of finite sets.
3. `HeldIsCounted`: a block with count 0 has no holder, so a victim has none.
4. `BytesOfAdd`, `BytesOfRemove`: the size of a set of blocks changes by the
   size of the block added or removed.
5. `TypeStep`, `CallsStep`, `CountStep`, `ResidentStep`, `BudgetStep` put these
   together, one step per action; `PagerInvariant` is `Spec => []IInv`.

From it follow the theorems named in `PROJECT.json`: the five conjuncts'
consequences, `RefusalsJustified` (an action property), `UsesAccountedFor` (with
an invariant of its own added), and `PagerImplementsStore`: the initial states
of the pager map to those of `LeaseStore`, and each step to a step of it or to a
stutter.

`NativeRuntimeProofs` holds for any number of opens and callers and any size of
context, under `NativeRuntimeAssumption` (`NoOne` is neither a runtime nor a
caller, `n_ctx` is positive).  Its invariant has two halves that hardly touch.
`LifeAgrees`: the flag is set exactly while a runtime lives, there is one at
most, it is registered exactly while it has its provider, and then it has its
pager.  The last needs both orders, of the constructor and of `cleanup`
(`PagerOutlivesProvider`).  `ChatAgrees` with `OwnContextOnly` and `ContextFits`:
a caller past the mutex holds it, so no other's tokens enter the context after
the clearing.  `ChatKeepsLife` and `LifeKeepsContext` keep the halves apart;
`LifePreserved` and `ChatPreserved` go through the actions of each.

`MulMatIdProofs` holds for any number of workers, rows, experts and products,
for every choice of row counts and both NUMA modes, under `MulMatIdAssumption`
(experts are numbered from 0, there is a worker and a row).  Into the invariant,
what `Chunking` computes enters only as a number of chunks per expert.  It has
three layers.

1. `BarriersAgree` is the heart: nobody has passed a barrier that another has not
   entered.  With `SlicesAgree`, where each worker's conversion stands follows
   from the barriers it has entered; so a worker that computes finds all slices
   converted for its product, and none overwritten (`BufferKept`).
2. `LeaseAgrees`: between `begin` and `end` of worker 0 the one lease granted is
   that of the product in the buffer.  `end` comes after the second barrier, when
   nobody computes any more (`LeasedWhileRead`), and `PagedExactly` follows.
3. `ChunksAgree` is about the counters.  Each worker resets the counters of some
   experts before the first barrier, and takes from all of them after it, while
   others may still be waiting in it: `CountersFresh` and `NothingYet` say that
   nothing is taken or computed before all are reset.  From then on a chunk is somebody's
   own first one still to come, not yet given out by its counter, taken by one
   worker, or computed (`ComputedAgrees`, `PendingAgrees`), and an expert left
   behind has none to give out.  `TakenOnce` and `CompleteProducts` follow; the
   second barrier is what turns "nothing left to take" into "all computed".

`ChunksPartition` and `OutputPartitioned` are about what those chunks are: for
every shape of a product, and so for each expert with rows in every product that
is met, the cells of the chunks cover the output and no two chunks share one.  Quotients
rounded up cut a range into spans that meet (`CeilDivCovers`, `SpansPartition`);
the number of a chunk determines its row and its column in the grid
(`DivUnique`), and every place in the grid has a number (`CellsPartition`).

`NextUsed` shows that the least expert in use that a worker moves on to exists;
it rests on `Smallest`, an instance of the library's well-foundedness theorem.

`ChatStreamProofs` holds for any set of requests and any number of pieces, under
`ChatAssumption` (close and nobody are not requests).  `RuntimeAgrees` ties the
lock to the one worker that is inside it and the handle to close's progress: a
worker that generates holds the lock and has seen `_closed` unset under it, so
`Destroy`, which needs the lock, cannot fall in between (`ChatLive`).  For each
request `PlacesAgree` says which places of handler and worker go together, and
`StreamAgrees` what is in the queue behind the pieces: exactly what a worker at
its place has reported of its end.  This makes `CompleteIsWhole` inductive: the
handler that reads `done` first has emptied the queue of a worker that ended
well.  `OthersUntouched` reduces a step of one request to that request.

`ExternalGateProofs` holds for any callers, blocks, lengths, requests, budget
and slots, under `ExternalGateAssumption`, which includes what
`validate_feasibility` checks.  No single property is inductive.  Counts are
exact (`CountsAgree`) only if a lease is given back once; that needs to know
that a lease on its way to be released belongs to nobody any more (`GivenUp`)
and that the table holds each caller once (`Registered`).  `NoLeakedLease` follows the lease
through the three lists of acquire, table and release.  `HeldStaysResident` is
`Kept` (until a close, a caller has a cache lease for all it was given) with
exact counts: a block that is leased is no victim.  The budget needs the
admission lock (`LocksAgree`: one thread loads at a time) and `RoomsAgree`: a
reservation is for the block being read, which is not resident, so `Commit` turns
reserved bytes into resident ones.  A close that drops a reservation leaves
nothing to commit, and the load fails.

`WebConversationProofs` holds for any number of submissions, conversations,
pieces and answers.  `InOrder`, `Submitted` and `Awaited` say that submissions
are made one by one, that history and screen hold only those made, the history
only those of this conversation, and that a reply that streams belongs to the
last message.  Then at most one is live in the current conversation
(`StreamsAlone`), and the epoch test after each await does what it is for.
`ScreenIsHistory` compares two sequences of which one is part of the other; it is
stated by counting (`Told`), since a filter over sequences is defined by recursion
and out of the prover's reach, and `ToldNext` is the induction step of the count.
`Screen` is its form while a reply streams, without the last article.

`BundleIntegrityProofs` holds for any number of blocks, versions, changes and
seals.  Two ideas carry it.  While the files rest (`quiet`), what the sealer has
compared is what it hashes (`SealerRests`), so a seal of files that rested records
blocks that match the map it was made with (`Sound`); and a gate that has found
that map, and the shard, to be those of such a seal reads blocks that match
(`SealCompared`).  It has: the revision does not tell one map from another, but
the digest of the map's file does.  And, files resting or not, a block in `_verified`
that nobody has touched since its read began still matches, because the bytes
hashed are those in the buffer (`Untouched`).  The sealer and the reader share
only the files and the seal: `SealStep`, `ReadStep` and `ChangeStep` each keep one
part of the invariant, and the others' parts are unchanged.

`BundlePackingProofs` holds for any number of conversions, sources of any shape,
alignments and edits, under `PackingAssumption` (lengths, expert counts and
alignments are positive and a source has a layer: the type of the input of
`pack_moe_gguf`, whose metadata reader wants a layer and an expert at least).
It has two halves.

1. `OpenedIsSound` says what the readers' checks are good for and uses only that
   the documents are well formed.  Both readers sort ranges and compare
   neighbours.  A range that ends before its successor begins ends before
   anything later (`SortedApart`, from `Successor`: between two ranges there is a
   next one), and three ranges of which each begins where the one before ends
   leave no byte out (`TilesCover`).  One reader compares the set of routes with
   the set wanted, the other counts them; since no route is named twice the two
   agree (`RoutesCounted`, on cardinalities), so that of plainly written documents
   with different names the native one opens what the other accepts
   (`PlainOpens`), and of what both take the map is its own stripped form, since
   the ids and the contract of the layout, which is not stripped, equal those of
   the map before and after (`OpensPlain`).  Each tensor then has a place in one block
   (`TensorPlaced`), no two of them the same bytes (`PlacesApart`), and each byte
   of a block is in one (`BlockCovered`).
2. `PublishedWhole` needs the history.  That the regions hold the right bytes is
   not inductive; `IInv` says of a conversion at work that its n-th block is that
   of the n-th tensor, aligned, behind all blocks before it, with the bytes of the
   tensor at its offset (`Written`), and how many blocks it has at each stage
   (`WorkAgrees`).  `BlockAppended` is the step: padding keeps what is written,
   and the new block begins at the end of all others.  `ExpertNumber` and
   `RouteOfNumber` turn the count of blocks into layer and expert and back.  What
   is published is then `Whole`, and edits only spoil what is no longer claimed.
   `WholeAccepted` shows that a whole bundle passes every check of both readers,
   `WholeExpert` and `WholeTensor` that the regions they compute hold the slices.

The number of a block is the index of the loop that writes it, so that no step of
this is an induction over the data: the induction is over the steps.

What stays with TLC: liveness under fairness (`CriticalSectionEnds`, `GraphEnds`,
`CloseEnds`, `HandlersGoOn`, `CallsEnd`, `ReadinessCatchesUp`), which the prover
cannot derive.  The three violated claims of section 4 are refuted by TLC's
counterexamples.  Everything else that a run checks is a theorem.

## 6. Not modelled, and the plan

What the model of a component abstracts, where the code could still be looked at:

* the remaining differences between the readers of a bundle's documents: the text
  of JSON (duplicate keys, `NaN`), the names of files, `model.gguf` itself, the
  relations between shapes, types and lengths, ids of expert blocks, version 1
  layouts;
* `_copy_range` (`gguf_moe.py:72`) ignores what `target.write` returns on a file
  opened without a buffer.  A write is whole in the model; one cut short leaves
  recorded digests and lengths ahead of the bytes in the shard;
* two sealers at the same time, which write the same temporary file
  (`storage.py:141`), and a loss of power before written data has reached the disk.

Left out for good:

* vendored llama.cpp and GGML, which are nearly all lines of the repository
  (some 550,000, against about 8,000 of the project's own), apart from the
  patched product of the CPU backend;
* SHA-256, the JSON parser, the parsing of GGUF headers, units and the
  configuration file: functions of one document, without state that survives a
  call, and tested with examples;
* the llama loader, a single pass over the metadata file; the command line, the
  conversion wizard and the developer scripts, which call what is modelled one
  after the other; layout, scrolling and figures of the page;
* the numbers computed and the router's choice: a product is the set of chunks
  it computes, for every choice of experts;
* the readers of statistics (`/health`, `/api/stats`) against close: the code
  does not guard them and promises nothing (see section 4);
* a torn `gate.json` after a crash in `bundle_config.py:80`: every command that
  loads it refuses it.

Of the plan nothing remains: every component with state of its own is modelled,
and every safety property of the models is proved.  What would come next is more
code: `stats` against close once the code says what it promises there, and the
hand-over of a converted bundle between the wizard and a running server.
