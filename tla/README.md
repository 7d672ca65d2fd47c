# tiny-llm-infer in TLA+

TLA+ modules, TLC configurations and TLAPS proofs for the inference engine in
`src/`: from the command line and the checkpoint over the tokenizer, the paged KV-cache
pool with its prefix cache, the continuous-batching scheduler and the engine to the
tensors, layers and kernels a batch runs through.

    tlc -workers 2 -config Engine.cfg MCLLMEngine     # model-check one run
    tlapm BlockManagerProofs.tla                      # check the proofs of one module

## 1. The system

| Part | Sources | State it keeps | Operations |
|---|---|---|---|
| Sequence | `engine/include/sequence.h`, `engine/src/sequence.cpp` | token ids, prompt size, status, block table, cached and scheduled token counts | construct, append a token, slice a block |
| Block manager | `engine/src/block_manager.cpp` | per block: reference count, hash, validity, tokens; free list; index from hash to block | `can_allocate`, `allocate`, `deallocate`, `can_append`, `may_append`, `hash_blocks` |
| Scheduler | `engine/src/scheduler.cpp` | the deques `waiting_` and `running_` | `add`, `schedule` (prefill loop, decode loop, preemption, one recursive call), `postprocess` |
| LLM engine | `engine/src/llm_engine.cpp` | the scheduler, the next request id | `add_request`, `step`, `sample`, `generate` |
| Model runner | `engine/src/qwen3_runner.cpp`, `model/src/qwen3_paged_batch.cpp`, `model/src/qwen3_kv_cache.cpp` | keys and values per layer, block and offset; the tensors of a batch | `configure_kv_cache`, `run_batch`, `forward_paged_batch` |
| Model start-up | `model/src/qwen3.cpp`, `qwen3_layers.cpp`, `qwen3_checkpoint.cpp`, `model.cpp` | configuration, file mapping, host arrays of weights, layers, buffers, the stream | read the checkpoint, build the layers, move them to the GPU, size the KV pool, destroy |
| Layers | `layers/src/*` | slots with the inputs and outputs of the last call, weights | `set_weight`, `to_cuda`, `check`, `forward` |
| Kernels | `kernels/src/*` | shared memory of a CUDA block | attention, matmul, norms, rotation, SwiGLU, addition |
| Memory | `memory/src/*.cpp` | the CUDA block cache: small and big blocks, busy flags, idle counter; per `Buffer` its size, pointer, allocator and whether the memory is external | `allocate`, `release`; construct, destroy, `Buffer::allocate` |
| Tensor | `tensor/src/tensor.cpp` | dimensions, a shared `Buffer` | construct, copy, allocate, reshape, clone, assign, reset, move between devices |
| Tokenizer | `layers/src/encode.cpp` | vocabulary, merge ranks, special tokens | `encode`, `decode` |
| Text utilities | `utils/src/unicode*.cpp`, `utils/include/tiktoken.h` | tables of code points | UTF-8, three scanners that split text, byte-pair merging |
| Command line | `model/model_main.cpp` | options | check the options, choose the engine's limits, run |

How they interact. `LLMEngine::step` is the only driver: it asks the scheduler
for a `BatchPlan`, turns the plan into one row per token, hands the rows and each
row's block table to the runner, samples a token for every sequence whose text is
complete in the batch, and gives the samples to `postprocess`. The scheduler is the
only caller of the block manager. Sequences are shared by pointer between the
queues, the plan and the engine. The runner calls the layers, the layers launch kernels on
one CUDA stream that runs behind the host, and every tensor's memory comes from the caching
allocator. There are no host threads: concurrency is between requests, which arrive between
any two steps, share blocks and compete for the pool; between the host and the stream; and
between the threads of a kernel. Nothing is persisted, so there is no recovery after a crash.

What is hard here:

* **Sharing and recycling.** A block outlives its sequence: with count 0 it is on the
  free list and still in the prefix index, and may be revived by one request and
  reused by another in the same `schedule` call. Counts, free list, index and tables
  must agree after any sequence of admissions, growth, preemption and completion.
* **What is computed.** Attention reads whatever the table names. That every cell a
  row reads was computed from this sequence's text depends on the scheduler's
  counters, on rounding in `hash_blocks` and on the order of stores in a batch.
* **Chunked prefill, preemption, recursion.** A prompt may be prefilled over several
  steps while it stays at the front of `waiting_`; a preempted sequence goes in front
  of it. `schedule` calls itself when it preempted everybody.
* **Error returns half way.** `schedule`, `run_batch` and `postprocess` return errors
  after state has changed, and `step` undoes nothing.
* **Shared memory blocks.** Tensors share Buffers, Buffers own blocks, and the CUDA
  allocator keeps released blocks for reuse and sometimes gives them back to the driver. A
  wrong use count, size check or flag shows long after the call that made it.
* **Host and device.** Work is queued, not done, when a call returns. Memory that the host
  gives back or frees may still be read: blocks of temporaries that the cache hands out
  again, host arrays behind queued uploads, slots of layers that keep old tensors.
* **Threads of a kernel.** The softmax and the reductions reuse shared memory; threads
  without an element return before barriers the others wait at.
* **Hand-written matching.** Scanners stand for regular expressions with look-ahead, merges
  depend on ties and order, special tokens may be prefixes of each other.
* **Limits.** The last position of the context window, a pool of exactly the needed
  size, the token budget, batches of one. The embedding takes no more rows than one context
  has positions, whatever prompts they come from, and no id outside the vocabulary; nobody
  checks either before the batch runs.

Correctness, per part: the pool's accounting is exact and its index sound; a sequence
writes only blocks nobody else reads; no request is lost, queued twice or starved; the
engine's output for a request is what the model would produce for it alone; no internal
error is reachable; every accepted request is answered. A Buffer's block is its own, in use
and large enough; every block is released once, by the allocator it came from; the
allocator's counter is exact and what it keeps idle is bounded. A batch that returns has
computed the decoder from its own inputs, whatever memory was reused; kernels have no races
and compute what the sequential loops do. The checkpoint is mapped exactly while it is read,
weights stay backed by memory, the pool fits the GPU. Decoding gives back the text that was
encoded.

## 2. The modules

| Module | Models | Extends / instances |
|---|---|---|
| `BlockManager` | pool, prefix index and the fields of `Sequence` they use; one action per operation as the scheduler calls it | community modules |
| `Scheduler` | `schedule` and `postprocess`, one action per loop iteration, with a program counter | `BlockManager` |
| `LLMEngine` | `add_request`, `step`, the runner's checks and the cells of the KV cache | `Scheduler`, `Generation` |
| `Generation` | the abstract specification: each request is extended by itself | |
| `DeviceAllocator` | the CUDA block cache and the CPU allocator, as operators from a memory to its successors | community modules |
| `Tensor` | Buffers and tensors; one action per member function that changes them | `DeviceAllocator` |
| `UnicodeData` | the table of letters and numbers | |
| `Unicode` | UTF-8, the classes of code points, bytes as printable code points | `UnicodeData` |
| `TextSplit` | the GPT-2, Llama 3 and Qwen3 scanners as functions from a position to the end of the piece | `Unicode` |
| `Splitters` | a scanner at work on the regions of a text, next to the regular expressions | `TextSplit` |
| `Merges`, `BytePairMerge` | the merge loop of the tokenizer and the one of tiktoken, a merge per step | `Merges` |
| `TextMachines` | scanners, merge loops and tokenizer side by side, with what is assumed of `tokenizer.json` | `Splitters`, `BytePairMerge`, `Tokenizer` |
| `Tokenizer` | `encode` round by round, `decode` | `TextSplit`, `Merges` |
| `KvSizing` | the dimensions of a model, the pool's size, the estimate of its blocks | |
| `Startup` | the program from its command line to the first request and its destruction | `KvSizing` |
| `Forward` | `forward_paged_batch` statement by statement, layers with their slots, the stream | `KvSizing` |
| `CudaKernels` | the threads, barriers and memory of a kernel launch | |
| `BlockManagerProofs`, `TensorProofs`, `ForwardProofs`, `CudaKernelsProofs`, `StartupProofs` | the theorems, those of `StartupProofs` also about `KvSizing` | the module they are about, `TLAPS` |
| `TextProofs` | the theorems about the scanners, the merge loops and the tokenizer | `TextMachines`, `TLAPS` |
| `LLMEngineProofs`, `LLMEngineKvProofs` | the theorems about the engine: queues, protocol and batches; contents of the cache | `LLMEngine` and `BlockManagerProofs`; `LLMEngineProofs` |
| `MCBlockManager`, `MCLLMEngine`, `MCTensor`, `MCText`, `MCCudaKernels`, `MCStartup`, `MCForward` | constants for TLC; `MCText` also chooses which machine of `TextMachines` runs | |

### BlockManager

A block is a number, as in the code. The variables are the fields, one function per
field: `ref_count`, `hash_valid`, `hash`, `block_ids` (the tokens a published block holds),
`free_ids`, `hash_to_block`, and per sequence `token_ids`, `block_table`,
`num_cached_tokens`, `num_scheduled_tokens`. Table positions count from 1.

The 64-bit FNV-1a hash is the parameter `Fnv(tokens, prefix)`; a run chooses a hash that
loses nothing or one that collides. `ZeroHash` is the seed 0. Loops that the code runs to
completion inside one call are set expressions: `cached_blocks` is the longest run of
hits, `lowest(F, n)` the blocks that n calls of `allocate_block` pop from a `std::set`,
`count_released` the effect of one `release_block` per table entry.

Operators in lower case that prime variables (`allocate`, `may_append`, `deallocate`,
`hash_blocks`) are the member functions; the actions at the end are the calls as the
scheduler makes them, with the conditions it has established. `UsesBlockManager` checks
that the scheduler module really stays within them.

### Scheduler and LLMEngine

`pc` is the position inside `step`: `idle`, `prefill`, `decode`, `run`, `commit`, `emit`,
`release`, `collect`. Each iteration of a loop is one action (`PrefillSchedule`,
`DecodeSchedule`, `Preempt`, `PostCommit`, ...); a preceding allocation is an action of its
own so that the pool's protocol is visible step by step. Locals of `schedule` and
`postprocess` (`plan`, `batched_tokens`, `candidates`, `preempted_sequence`, `index`) are
variables that are cleared when the call returns. `AddRequest` is enabled only at `idle`:
the program is single-threaded.

An `InternalError` sets `pc` to `error` and stops the behaviour, so that "no internal
error is returned" is one invariant. The argument errors that can be returned
(`prompt_exceeds_pool`, `run_failed`) return to `idle` with everything the call has
already changed left changed, as in the code.

`kv[b][o]` is the text from which the key and value in block `b` at offset `o` were
computed, or `Garbage`. A row stores its own cell, then attends to all earlier positions
through the table; only if each of those cells was computed from the sequence's own text
does it leave its own text behind and only then is its logits row a correct one (`LM`);
otherwise it leaves `Garbage` and any token may be sampled. All rows store before any
attends, as the loops in `forward_paged_batch` do per layer. `FailBatch` covers failures
before, between and after the layers.

`batch_rejected` is what the runner refuses before it computes anything: the checks of
`forward_paged_batch`, and those of `embedding` and its layer (`embedding_rejected`), which it
calls first: more rows than `ModelSeqLen`, or an id outside `Vocabulary`, the ids that have a
row in the embedding table. `add_request` checks neither, so prompts may hold any `Token`; what is
sampled, from `LM` or from garbage, is in `Vocabulary`, since it is a column of the logits.

### Generation

What a caller sees: `Submit` and `Extend`, a token at a time from `LM` of the request's own
text, until a stop token or the limit. `GeneratesAlone` is `Alone!Spec` with its liveness,
the refinement mapping being `request`, `token_ids` and the status.

### DeviceAllocator and Tensor

A CUDA block is identified by its address; `memory.blocks[p]` says in which list it is, its
size and whether it is busy. The lists are searched in the order of creation, which the
model does not keep: a small request takes any idle block that fits, a big one any of the
smallest that fit. Every allocation may also fail, as `cudaMalloc` and `malloc` may.
`release` collects the idle small blocks before it looks at the block it was given, as the
code does. There is one GPU, because the program sets device 0 and no other.

`tensor[t]` is a variable of the program (its element count and the `Buffer` its
`shared_ptr` names). A Buffer lives while a tensor names it, so the use count is not a
variable: `Rebind` gives a tensor its new members and destroys the Buffer it dropped when no
other tensor names it, after the new memory has been allocated. External Buffers are the
weights (`SetWeight`) and the views of rows (`View`); they own nothing. A failed `CHECK`
aborts the program and has no step. `memory.lost` and `memory.corrupt` are history: blocks
in use that nobody can release any more, and releases of blocks that were not in use.

Not modelled here: contents and copies, `memset`, element types, and how long a view may
outlive the tensor it points into (in the code it never leaves its block). Streams are the
subject of `Startup` and `Forward`.

### Unicode, TextSplit, Splitters, Merges, BytePairMerge, Tokenizer

Bytes and code points are numbers, a symbol is the byte string the code keeps for it. A
scanner is an operator `gpt2(s, p)`, `llama3(s, p)`, `qwen3(s, p)` from a region and a
position to where the piece ends: its alternatives in the order of the code's branches, the
first that moves on wins (`first_end`). `Splitters` runs a scanner over one or two regions
and states the regular expressions by sets of ends, so that alternation and greediness are
"the first alternative that matches, as much of it as matches". `UnicodeData`
is the code's table of letters and numbers, area by area, with neighbouring ranges of one class
put together; the white space is the code's list. Only the map to lower case stops at 255: the
scanners use it to recognise contractions, whose letters have upper forms in ASCII alone.

`merged` is `encode_piece`'s loop; `BytePairMerge` takes it merge by merge, and beside it
`_byte_pair_merge`, where `parts` holds the ranks that tiktoken keeps between merges. Merge
tables are those that training yields. `Tokenizer` takes a round of `encode`'s loop per
step; `status` is `failed` once it throws. `decode` is an operator over `ids`.

### KvSizing and Startup

`KvSizing` is the arithmetic of `qwen3.cpp`, with `size_t` and `int32_t` as the numbers up
to `SizeMax` and `IntMax`: every product is checked as in the code. `Startup` follows one run
of the program: `pc` is the function it is in, every step that can fail does so at any time,
`Return` is an error `Status`, `Abort` a failed `CHECK`. `storage` are the arrays of
`weight_storage_` that are allocated, `weight[w]` where the tensor of a layer's weight
points, `stream` the uploads the GPU has not done, which the action `Upload` does in order at
any time. The last requests are accepted against the engine's limits to relate those to the
model's context.

### Forward

The program of a batch is four sequences of statements, in the order of the code:
`batch_inputs`, `decoder_layer`, `final_norm` and `sampled_row`. `part` says which of them
runs, `turn` is the loop variable of the layers and of the sampled rows, `pc` the statement;
`following` is where the control goes after the last one. The actions are the kinds of statements: `New` (a local tensor, whose allocation may fail),
`View`, `Upload`, `Forward` (a layer: its slots take the tensors, `check`, the kernel),
`Kernel` (launched without a layer), `Fetch`, `LeaveLayer` and so on. `embedding` is where batches
are refused: `Start` ends a batch with more rows than the model has positions at once, and `Embed`,
the call of the embedding layer, one with an unknown id (`in_vocabulary`, chosen with the batch)
or without memory for its output. On CUDA a launch
appends to `stream`; `Execute` is the device. On the CPU it takes effect at once.

A cell of memory holds which operation of which batch wrote it and whether that operation
itself read what it should (`reads_right`); `Inputs` says what the decoder's operations
depend on. Blocks are held by local tensors, by layer slots and by what a growing `reshape`
loses; any other block may be handed out, which reuses more than the code's size classes do.
`Reusable` names those the allocator takes: TLC takes the lowest, since blocks are
interchangeable, the proof any.

### CudaKernels

A kernel is a program of phases; a thread's step is a phase: a loop over the elements it
owns, its part of a reduction, an access to a shared variable. `SyncThreads` takes the
threads of a block that have not returned over a barrier together. `cub::BlockReduce` is
external: shuffles inside a warp, one cell per warp, a barrier, thread 0. A cell of memory
holds the phase that wrote it last.

## 3. The runs

| Run | Instance | What it shows |
|---|---|---|
| `pool` | 2 sequences, 4 blocks of 2 tokens, texts of at most 5 tokens | every order of pool calls, including preemption in the middle of a prompt: accounting, index, prefixes, tails, no failure after `can_allocate`, no failure in `hash_blocks` |
| `engine` | 3 requests of 4 kinds, 4 blocks, batches of 3 tokens and 2 sequences, context of 5, all ids in the vocabulary | queues, blocks and KV contents agree; no internal error; no refused batch under these limits, at the end of the context window too; no shared write |
| `engine_fair` | 2 requests, 3 blocks | refinement of `Generation`, every request is reported, published cells are stable, the pool's protocol is respected |
| `engine_errors` | pool of 2 blocks, budget of 1 token, 2 failing batches, one kind of request with a token outside the vocabulary | accounting and queues survive failed and refused batches and requests too large for the pool |
| `tensors` | 2 tensors, 3 Buffers, 3 CUDA and 2 CPU blocks, sizes 1 to 3 with the small-block limit 2 and the idle limit 1 | blocks belong to one Buffer and are in use, tensors fit, releases are valid, memory in use is explained, the idle counter is exact and bounded |
| `text` | texts of 4 code points out of 9, in one region or two; pieces of 5 letters under every table of 3 merges; sentences of 5 bytes | the scanners cut as their patterns say, both merge loops apply the merges in order of rank, special tokens win over text, decoding gives the bytes back |
| `kernels` | 4 threads in 2 warps; a head of 4 elements, 3 query heads on 1 key head; 1, 4 or 6 elements for the others | no two threads ever race, and every read sees what the sequential loop would |
| `startup` | 1 decoder layer, CPU and GPU, good and bad options, headers and files, GPUs of three sizes, contexts 2 to 4 | the mapping is open exactly while it is read, weights and uploads are backed by living memory, the pool fits the GPU |
| `forward` | 2 layers, context of 4, 2 batches of 1, 2 or 5 rows with known or unknown ids, allocations of the first may fail | what a batch returns was computed from its own inputs on both devices; the embedding refuses the batches with 5 rows or an unknown id and no others, unless an allocation failed; every other layer call passes its checks |
| `tensor_growth` | sizes 1 and 2 | **violation**: `reshape` loses a block |
| `engine_failed_batch` | one failing batch | **violation**: blocks published although their cells were never computed |
| `engine_large_prompt` | pool of 2 blocks | **violation**: a sequence that outgrows the pool stops the engine for good |

### Bounds

Engine. `MaxLen` bounds the text of a sequence; in the engine runs it is `MaxModelLen + 1`,
the longest text `add_request` permits, so it cuts nothing off. Two tokens per block is the
smallest size with a partly filled block; prompts of one to three blocks give the boundary
cases of `can_allocate` (a fully cached prompt whose length is a multiple of the block size)
and of `hash_blocks` (a chunk that ends inside a block). Three requests are enough for one to
prefill, one to decode and one to wait; four blocks are enough for two of them and not for
three. `MaxFaults` bounds failing batches. Sequences are interchangeable in the safety runs
(`SYMMETRY`); the runs with liveness use none.

Tensors. A third Buffer is what an operation builds before it drops the old one; three CUDA
blocks are enough for the old block and the two allocations of a growing reshape, and for a
collection that frees one idle block while one stays busy and one is released. Sizes lie on
both sides of the small-block limit.

Text. The alphabet has a code point per class the patterns tell apart: a lower-case letter
that is a contraction, its capital, the letter of a longer contraction, a digit (an Arabic-Indic
one), the space, a white space that is no newline (the ideographic space), a newline, what is
none of these (a combining accent), the apostrophe. Four code points are
the longest context a branch looks at (a contraction with three letters, a run of digits that
is cut after three, a run of spaces with its look-ahead); two regions show that a scanner
never looks across a boundary. Three merges and five letters are enough for ties, for merges
of merges, and for a merge that takes away a neighbour's pair. Sentences mix valid and invalid
UTF-8 and special tokens one of which is a prefix of the other.

Kernels. Two warps are the smallest block whose reduction goes through shared memory; a head
of 4 fills the block, three query heads on one key head make the threads of a block go
around the loop over tasks; counts of 1, 4 and 6 elements give idle threads, a full round and a
partial second round. The proofs lift all of these.

Startup. Every step may fail and every option may be missing. `SizeMax` and `IntMax` are
small enough that products overflow at each factor; the three GPUs leave no room, exactly some
room and more than the limit of blocks.

Forward. Two layers make each slot of the first be overwritten while the second works; two
batches with one and two rows make slots and `reshape` grow and shrink, and five rows are one more
than the context has positions; 60 blocks are more
than a batch ever holds, so failing allocations are the explicit ones.

Deadlock. `CHECK_DEADLOCK FALSE` stands in `Text.cfg`, where every machine ends with its text,
and in `Forward.cfg`, where the program ends after the last batch or in `abort`. The startup
and kernel models have an explicit stuttering step for the end.

Fairness. `FairSpec` assumes weak fairness of `EngineStep`: `generate()` calls `step` until
`is_finished()`, and inside `step` the thread always takes its next step. Failing batches
(`FailBatch`) and arrivals are never assumed.

### What the violations say

* `engine_failed_batch`: `schedule` moves a prompt to `running_` before its batch has run.
  When `run_batch` fails, `step` returns and the sequence is decoded in the next step with
  its cached count still behind: each decode step computes only the last token but advances
  the count by one, and `hash_blocks` publishes blocks with cells that were never written.
  Other requests then share them.
* `engine_large_prompt`: the check of `num_blocks` against the pool comes when a request
  reaches the front of the queue, not in `add_request`, and returns without removing it.
* `tensor_growth`: `reshape` of a tensor that grows builds a Buffer whose constructor
  allocates, and then calls `Buffer::allocate`, which allocates again and overwrites the
  pointer. `Qwen3Model::embedding` reshapes local copies of the model's one-token inputs, so
  every batch of more than one token loses two blocks, on the GPU and on the CPU alike.

The first two are statements about the engine's interface: `generate()` returns at the first
error of `step`, so the command line meets them as the end of the program.

### Further configurations

These are kept beside the runs, to be used by hand:

| Configuration | Module | What TLC says |
|---|---|---|
| `BlockManagerCollisions.cfg` | `MCBlockManager` | passes: with a hash that keeps only the last token, accounting and index stay right, even inside one sequence |
| `TensorBig.cfg` | `MCTensor` | passes: big blocks are reused only within the permitted slack (also proved) |
| `TensorRelease.cfg` | `MCTensor` | violation: `release` returns at once while no small block was ever requested (`cuda_alloc.cpp:85`), so a big block released before stays busy |
| `EngineTokenBudget.cfg` | `MCLLMEngine` | violation: `max_num_batched_tokens` bounds prefill only (`scheduler.cpp:101`); with `max_num_seqs` above it the decode loop plans a batch the runner refuses, step after step. The command line sets `max_num_seqs` to at most 16 and the budget to `min(max_seq_len, 256)`, so it meets this only with a context below 16 tokens |
| `EngineRows.cfg` | `MCLLMEngine` | violation: with a budget of 6 rows and a context of 5, prompts of 2 and 4 tokens make a batch that the embedding refuses (`qwen3.cpp:158`), although every position lies in the context; the engine's defaults permit it, 1024 rows (`scheduler.h:18`) on any shorter context. The command line's budget is never above the context it asks for |
| `SplittersQwen3.cfg` | `Splitters` | violation: for `"\n\t\n"` the pattern in the comment (`unicode.cpp:571`, `\s*[\r\n]+`) matches all three, the code stops after the first run of newlines |
| `StartupContext.cfg` | `MCStartup` | violation: the engine accepts requests up to the command line's `max_seq_len` (`model_main.cpp:44`), the model keeps the smaller of that and the checkpoint's (`qwen3_checkpoint.cpp:41`), and the runner refuses the batch that reaches the end of the smaller one |
| `ForwardWorkspace.cfg` | `MCForward` | violation: the estimate's reserve is to cover the workspaces (`README.md:50`), but the slots of each decoder layer keep their tensors until the layer's next call (`layer.cpp:123-135`), so workspaces add up over layers: about 22 MB per layer of Qwen3-0.6B at 256 tokens, 616 MB in all, where the reserve counts one layer's |

## 4. The proofs

`BlockManagerProofs` proves, for every set of sequences, pool, block size, prompts, bound
and hash function, that `BlockManagerSpec` implies the invariance of `TypeOK`,
`AccountsExact` (counts and free list), `IndexSound`, `CachedBlocksOwn`, `TailPrivate`,
`Covered`, `HashNeverFails`, `AllocateNeverFails` and `CachedBlocksChained`. Assumed are only
`SeqsAssumption` (finitely many sequences), `PoolAssumption` (block size and pool are positive)
and `PromptAssumption` (prompts are non-empty), which the engine's `init` and `add_request`
enforce.

None of the first seven is inductive alone. `IndInv` is their conjunction, and the argument is
circular in the way the code is:

* the counts are exact because each operation changes them by the number of entries it
  adds to or takes out of a table (`ReplaceTable`, `ConcatOccurrences`);
* a recycled block is nobody's because the free list is exact, so clearing it disturbs no
  cached prefix (`NamedInUse`, `ClearBlocks`);
* a block being published stands once in one table (`TailNamedOnce`, from `TailPrivate` and
  the counts), so overwriting its hash takes no other index entry's block away, and it was
  unpublished, so no cached prefix changes;
* tails stay private because a prefix hit is a published block and a tail block is not;
* `Covered` keeps the computed blocks inside the table and the text, so that appended blocks
  and tokens lie behind them (`EndFacts`, `WholeBlockTokens`).

`AllocateNeverFails` follows from the invariant: enough free blocks have an ordered table, by a
smallest counterexample to "the lowest n of a set of free blocks exist" (`lowest`).
`CachedBlocksChained` is an invariant beside `IndInv`: a hit continues the chain of the text
before it, and a block's hash changes only while no cached prefix names it. Induction on the
length of the chain is again a smallest counterexample, because the chain is a recursive
function of numbers.

The order of the module: largest elements, counting, division, the invariant, then one
lemma per action, then the theorems. Facts about `Max`, defined by `CHOOSE`, come from the
library's theorem on minimal elements of well-founded sets.

`LLMEngineProofs` proves that the engine calls the pool only as `BlockManager` allows
(`KeepsProtocol`), hence implements `BlockManagerSpec` (`EngineUsesPool`) and inherits its
theorems; and that requests are queued once (`RequestsQueuedOnce`) and only the front of
`waiting_` holds blocks (`OnlyFrontHolds`). Assumed in addition are what `init` and
`add_request` check, `BatchAssumption`, `LengthAssumption` and `RequestAssumption` (budgets and
lengths are positive, requests are well formed), and `SamplingAssumption` (what the model may
sample are tokens). Neither half stands alone: the pool's
`IndInv` holds because the scheduler keeps to the protocol, and the scheduler keeps to
it because of `QueueInv`, which says of each queue, and of each position of `pc`, what its
members have in tables, counters and plan.

The second half of `LLMEngineProofs` proves `NoInternalError`, `FinishedIsReported` and
`NoSharedWrite` from the same assumptions, and `BatchAccepted` where the engine is configured
for its model (`Matched`): neither its context nor its token budget is larger than the model's
context, the budget covers a token per sequence, and every token has a row in the embedding
table. The code enforces none of the four in the engine: `StartupContext.cfg`, `EngineRows.cfg`
and `EngineTokenBudget.cfg` (see "Further configurations") violate one each of the first three,
and `engine_errors` contains batches refused for an unknown id. The invariant of these proofs,
`BatchInv` adds to `QueueInv` that tables are no longer than the text needs (`TablesFit`), a
waiting prompt has something left to compute and a finished sequence has given its blocks back
(`Unfinished`), prompts are never planned after the decode loop has begun (`Kind`), an entry of
the plan lies behind what is cached and within its text and table (`Shares`), whoever reaches
the end of its text has a sample (`Sampled`), the rows are within the budget (`Counted`), a
decode loop that has planned and preempted nobody still has somebody to run (`Stuck`), and who
has finished is reported or in the plan being walked over (`Reports`).

`LLMEngineKvProofs` is about what the cache contains. `PublishedCellsStable` (a published block
in use is not written again) needs nothing more: rows write tails and tails are private. The
others assume `Collisionless` (different blocks, or different prefixes, have different hashes;
the hash of the runs, which loses nothing, is of this kind) and `Undisturbed` (no batch fails,
requests fit the pool, and `Matched`, so that none is refused). `EngineFailedBatch.cfg`
shows what a failing batch does to these properties, `EngineLargePrompt.cfg` and
`EngineTokenBudget.cfg` how a refused one stops the engine, and `BlockManagerCollisions.cfg` is
the pool with colliding hashes, of which only the accounting is claimed. The invariant has three
parts:

* `SyncInv`: the shares of the plan are the next positions to compute of their sequences, and
  a running sequence lacks only its last token;
* `KvReached`: every position up to the cached count has a cell computed from this text up to
  it, through whatever block the table names;
* `KvPublished`: a published block holds (`Holds`) the end of some text whose chain of hashes
  is its hash, and cells computed from that text. A hit on the hash is then a hit on the text
  (`SameChain`), which is why a shared block's cells are right for the sequence that finds it.

From it come `CachedTokensComputed` and `PublishedBlocksComputed`, that all sampled tokens are
drawn from `LM` of the sequence's own text (`Drawn`), and `RequestsExtendedAlone`: under the
mapping of `GeneratesAlone` the engine starts in `Generation`'s initial states and every step
of it is a step of `Generation` or changes nothing there.

`TensorProofs` proves, for every set of tensors, Buffers and addresses, all sizes and all
limits, that `Spec` of `Tensor` implies the invariance of `TypeOK`, `BlocksExclusive`,
`TensorFits`, `ReleasesValid`, `InUseExplained`, `IdleCountExact`, `IdleBounded` and
`SlackBounded`. Assumed are
`PtrAssumption`, `ForeignAssumption` and `BufferAssumption` (the kinds of addresses and
identities are distinct), `LimitAssumption` and `SizesAssumption` (limits and sizes are
natural numbers). The invariant is `Good(memory, buffer, {})` with `Sharing` and
`TensorFits`, where `Good(m, bs, X)` accounts for every block in use: it is owned by exactly
one Buffer of `bs`, lost, or in `X`, the blocks an operation has allocated and not yet
bound. It says in addition that blocks in use are listed and small blocks are small,
without which neither `ReleasesValid` nor `IdleBounded` is inductive. The idle counter is a sum
over a set, of which the proof needs only what one block adds or takes away. Each operation is a
chain of lemmas: `AllocateGood` adds to `X`, `OverwriteGood` moves from `X` to the lost,
`OwnGood` and `ExternalGood` bind a new Buffer, `DestroyGood` releases the old one, and
`Rebinding` joins the last two.

`ForwardProofs` proves `ShapesAgree` and `ComputesDecoder` for every `config.json` the code
accepts, both devices, every batch size and number of batches, every allocator and every delay of
the device. Assumed is `ForwardAssumption` with `SizingAssumption`: the numbers of the
configuration have passed `valid_dimensions`. The argument has two halves.

* The static half walks the statements. Before each one it is known which locals live (`live`),
  with what dimensions (`dims_of`) and which operation's result each must hold (`Source`). That
  every statement fits this table, its layer's `check` included, is `StatementFits`; that it
  leads to the next entry of it is `StatementMoves`. Here the shapes of `q_norm`, of the heads
  and of the views meet the arithmetic of `model_infos`.
* The dynamic half carries the table over to memory. Live locals that own memory hold different
  blocks (`Apart`), and each cell holds, *once the queue in front of it has run*, what the table
  says (`Leaves`, `Holds`, `Filled`). `StreamOK` says it of the kernels that are queued: each will
  read what its operation depends on. So a block may be handed out while work on it is still
  queued, because whoever gets it writes behind that work; and what the slots keep never matters.

`IInv` joins these with the control (`ControlOK`), the KV pool (`KvFilled`), the row that is
sampled (`RowOK`), what the host has read (`LogitsOK`) and the outcome (`StatusOK`: an error has
too many rows, an unknown id or a failed allocation before it, a crash a failed allocation).
`ShapesAgree` says this and its converse: a batch that returns was not to be refused. For the converse
`OnlyAdmittedRun` proves `Admitted`, that no refused batch gets past `Start`, nor past `Embed`. On the instance of the `forward` run TLC finds
`IInv` to hold in all its states.

`TextProofs` proves `FollowsPattern` for texts of any length over any set of code points
(`AlphabetAssumption`, `KindsAssumption`): each alternative of the three regular expressions ends
where the branch of the scanner does (`NumbersFit`, `PunctuationFits`, `ContractionFits`, ...),
and the first that matches is the first branch that moves on (`FirstOfAll`). For runs of spaces it
is the position of the last newline and of the last space that decides, which the code finds
going forward and the pattern going back. It also proves `CachedRanksFresh` for every set of letters
and bound on tables, from `TableAssumption` (the bound is a number): a merge changes only the two
pairs around it (`RefreshedIs`, `RemoveIs`), and a rank that was right for a pair of neighbours is
right for it after the positions have shifted.

Of the other loop it proves `MergesInOrder`, from the same assumption. The folds of the definition
are unrolled into sequences of results (`Scanned`, `Ordered`; `IterationExists`, where induction is
over a set of numbers, `Upward`). The invariant `OrderInv` is that the merges in order would lead
from the symbols of now where they lead from the letters (`InOrder`). A round keeps it
(`RoundKeepsEnd`): merges of lower rank find nothing, neither before the round nor after it, because
what a merge yields is no part of an earlier one (`LaterOnly`); and the merges of this rank, from the
left, begin with the one the round has done (`FirstReplaced`).

The tokenizer puts the two together, and of it `TextProofs` proves `RoundTrip` and `SpecialsFirst` for
every text of bytes (`SentencesAssumption`) and every `tokenizer.json` in which ids are natural numbers,
one per token, and special tokens are non-empty and in UTF-8 (`FilesAssumption`). The JSON parser rejects what
is not UTF-8; distinct ids are what `decode`, a map from ids to tokens, presupposes, and a special
token of no bytes would keep `encode` in its loop. The argument goes from the bytes up:

* UTF-8. A text of code points is written as the characters one after the other, and where each of them
  begins is a `Border`. Read at a border, `unicode_cpt_from_utf8` gives the character that was
  written there (`ReadsBack`, `StandsThere`), so reading undoes writing (`CodedDecodes`); and since only the first byte of a
  character is not `Trailing`, the first byte of any other text in UTF-8 can be found at a border only
  (`BordersOnly`), and that text ends at one (`OccursToBorder`). Special tokens are found by comparing bytes;
  this is why none is ever found across characters, and why the ordinary text between them is UTF-8
  again (`BetweenBorders`).
* Printable bytes. `byte_cpt` takes no code point twice (`CodesDiffer`: the printable bytes stand for
  themselves, the others are counted up from 256), so a spelled byte is read back as itself (`SpelledBack`).
* Pieces. From each position the scanner moves on to a later one within the text, so the pieces are
  non-empty and put together they are the text (`SplitJoins`).
* Merges. `Grouping(word, merges)` are the lists of symbols that spell consecutive parts of a word, each of them
  a byte of it or the result of a merge. A merge of neighbours stays in it (`RoundKeepsGrouping`),
  wherever characters end, and so do several pieces after each other (`GroupingsJoin`, `OrdinaryGroups`).
* Ids. Tokens are found again by their ids, special tokens first (`GroupDecodes`, `SpecialDecodes`), and
  the bytes of two lists of ids are those of the first, then those of the second (`DecodeConcat`).

The invariant `EncodedSoFar` is then short: the cursor is at a border, the ids decode to the text before it,
and where `encode` has thrown, the vocabulary lacks a byte of the text or the result of a merge. Neither of
the first two is inductive alone: from inside a character, the next text would not be UTF-8.
What recursive functions compute (decoding a text, splitting it, merging, flattening lists) is proved by
induction over a set of numbers or positions (`Ascends`, `Descends`: that a function defined upwards, or
from the end of the text, exists and is the one the definition chooses), or over lists that grow by an element (`ByAppending`).

`CudaKernelsProofs` proves `RaceFree` and `ReadsAsSequential` for every block and warp size, number
of elements and shape of the heads, from `BlockAssumption`, `KernelAssumption`, `HeadAssumption`
(sizes are positive, the head width is even, there are no more key heads than query heads, the
launches are of the six kernels) and `RotationAssumption` (a rotation is launched for whole rows).
Between two barriers the phases of a block's threads are those of one stretch of the program
(`Together`); phases where one thread reads what another writes never share a stretch
(`BarriersSeparate`, an inspection of each program), and the rest touch, for different threads,
different cells (arithmetic of strided loops and of pairs). For the second property `LastWritten`
says that a cell holds the last phase of the *program* that has written it, in whatever order the
threads came: two phases that write the same cell without a barrier between are of the same thread
(`CellsApart`). What is written before a phase is then what the sequential loops have written before
it (`WrittenBefore`), and the strided loops and the pairs cover every element of the result
(`WholeOwned`, `RotationWritten`).

`StartupProofs` first proves about the operators of `KvSizing`, not about a behaviour, that
`paged_kv_cache_size_bytes` is the exact product or 0 (`SizeExact`), and that an estimate other
than 0 fits `int32_t`, leaves pool, reserve and memory in use below the target, and is the
largest that does (`EstimateFits`), from `SizingAssumption` only.

It then proves `MappingScoped`, `WeightsBacked` and `PoolFits` for every checkpoint,
command line and GPU; assumed is that their numbers are integers in the ranges their C++ types
give them. `MapInv` adds to `MappingScoped` what is open at each step. `SizeInv` keeps the
dimensions that `generate_model_infos` accepted positive, which is what `EstimateFits` needs.
`WeightInv` says for each step which weights are where: while loading, those the loop has
passed are on the host; while moving, those it has passed are on the device and their upload
is done or queued, and all host arrays are still there; so that when the stream is empty
(`RopeCache`) every weight is resident and the arrays can go. `Orders` is why the two loops,
which take the weights in different orders, see the same ones.

Only model-checked:

* liveness: `EveryRequestReported`, and the fairness in `GeneratesAlone` (its initial states and
  steps are proved).

## 5. What is left

Of what the runs check as safety, everything is also proved. The liveness of the engine
(`EveryRequestReported`) is out of the provers' reach and stays with TLC.

Not modelled, and why:

* **Floating point.** What the kernels compute is the operation and its operands; rounding,
  the online softmax's stability and the sampling temperature are not states TLC can visit.
* **Unicode tables nobody reads.** Upper case and canonical decomposition (NFD) in
  `unicode-data.cpp` have no reader in the tokenizer. `unordered_dense.h` is a vendored hash
  map of 1936 lines that serves only the tokenizer layers behind macros no build file defines.
* **Code that is not reached.** The branches of `qwen2` and `llama3` that `main` never
  selects, `unicode_regex_split`'s fallback to `std::regex` for patterns no tokenizer has, the
  kernels `scale` and `scale_sum`, and the single-row rotation, whose bound
  `idx > total_pairs` lets one thread too many through but which no layer calls.
* **Kernels with one thread per cell** (`store` to the KV cache, embedding, the batched matrix
  product): no two threads meet, so there is nothing to interleave. `Forward` models their effect.
* **Option parsing, files, `Status`, logging.** Options are a record with a value or none,
  a file is what reading it gives, a `Status` is the branch its creation takes.
* **Flags fixed by the checkpoint.** `has_bos` and `has_eos` are false in the exported
  models; the tokenizer is modelled with them so.
