---------------------------- MODULE CudaKernels ----------------------------
(***************************************************************************)
(* kernels/src/*.cu: the threads of a kernel launch, their shared and global*)
(* memory and their barriers.                                               *)
(*                                                                          *)
(* A kernel is a program of phases, the same for every thread; a phase is   *)
(* what a thread does between two points where the order among threads      *)
(* could matter: a loop over the elements it owns, its part of a reduction, *)
(* an access to a shared variable, __syncthreads.  Of a cell only the phase *)
(* that wrote it last is kept, which is what tells a right read from a wrong*)
(* one; arithmetic is left out.                                             *)
(*                                                                          *)
(* Kernels with barriers are modelled by one block, whose grid runs them    *)
(* for independent rows; the others by all the threads of the grid.         *)
(***************************************************************************)
EXTENDS Integers, Sequences, FiniteSets

CONSTANTS
  BlockDim,  \* threads of a block
  WarpSize,  \* threads of a warp
  Kernels,   \* the launches considered: kernel, and count, the elements it is for
  HeadSize, QueryHeads, KvHeads

ASSUME BlockAssumption == BlockDim \in Nat \ {0} /\ WarpSize \in Nat \ {0}
ASSUME KernelAssumption ==
  Kernels \subseteq [kernel : {"attention", "rmsnorm", "matmul", "swiglu", "add", "rope"},
                     count : Nat \ {0}]
ASSUME HeadAssumption ==
  HeadSize \in Nat \ {0} /\ HeadSize % 2 = 0 /\ QueryHeads \in Nat \ {0} /\ KvHeads \in 1..QueryHeads
\* A thread for each pair of every query head of each row.
ASSUME RotationAssumption ==
  \A k \in Kernels : k.kernel = "rope" => k.count % (QueryHeads * (HeadSize \div 2)) = 0

VARIABLES
  launch,  \* the kernel that runs
  pc,      \* the phase each thread has come to
  mem      \* the phase that wrote a cell last, 0 before the launch

vars == <<launch, pc, mem>>

----------------------------------------------------------------------------
(* The kernels as programs *)

\* A loop over own elements, a barrier, and the accesses to shared variables.
map(in, out) == [op |-> "map", in |-> in, out |-> out]
sync == [op |-> "sync", in |-> "", out |-> ""]
load(var) == [op |-> "load", in |-> var, out |-> ""]
publish(var) == [op |-> "publish", in |-> "", out |-> var]
all_to_own(in, out) == [op |-> "all", in |-> in, out |-> out]

\* cub::BlockReduce, around its own barrier: the lanes of a warp combine by
\* shuffles and the first one leaves the result in the storage; thread 0 adds up.
warp == [op |-> "warp", in |-> "", out |-> "storage"]
gather == [op |-> "gather", in |-> "storage", out |-> ""]

\* Slip: no barrier between the softmax and the weighted sum.
paged_attention_unsynced ==
  <<map("", "scores"), sync,
    map("scores", ""), warp, sync, gather, publish("shared"), sync, load("shared"),
    map("scores", "scores"), warp, sync, gather, publish("shared"), sync, load("shared"),
    map("scores", "scores"),
    all_to_own("scores", "output")>>

\* The scores; paged_softmax with one loop each for the maximum, the
\* exponentials and the quotients; the weighted sum of the values.
paged_attention ==
  <<map("", "scores"), sync,
    map("scores", ""), warp, sync, gather, publish("shared"), sync, load("shared"),
    map("scores", "scores"), warp, sync, gather, publish("shared"), sync, load("shared"),
    map("scores", "scores"), sync,
    all_to_own("scores", "output")>>

\* Slip: the sum is read back without a barrier.
rmsnorm_unsynced ==
  <<map("row", ""), warp, sync, gather, publish("shared"), load("shared"), map("row", "row")>>

\* The output may be the input.
rmsnorm ==
  <<map("row", ""), warp, sync, gather, publish("shared"), sync, load("shared"),
    map("row", "row")>>

\* One row of the weight per block; sdata has a cell per thread.
matmul ==
  <<map("", "sdata"), sync, map("sdata", ""), warp, sync, gather, sync, publish("output"), sync>>

swiglu == <<map("", "smem"), sync, map("smem", "output")>>

add == <<map("row", "row")>>

rope == <<[op |-> "rotate", in |-> "heads", out |-> "heads"]>>

programs ==
  [attention |-> paged_attention, rmsnorm |-> rmsnorm, matmul |-> matmul,
   swiglu |-> swiglu, add |-> add, rope |-> rope]

program == programs[launch.kernel]

\* Grids are sized so that every element has a thread.
blocks(count) == (count + BlockDim - 1) \div BlockDim

OneBlock == {"attention", "rmsnorm", "matmul"}

Threads ==
  IF launch.kernel \in OneBlock THEN 0..(BlockDim - 1)
  ELSE 0..(blocks(launch.count) * BlockDim - 1)

\* Threads beyond the elements of a grid return at once; swiglu's do so before
\* its barrier, which waits for the others alone.
Running == IF launch.kernel \in OneBlock THEN Threads ELSE {t \in Threads : t < launch.count}

Block(t) == t \div BlockDim
Warp(t) == t \div WarpSize
Lanes(w) == {t \in Threads : Warp(t) = w}
Warps == {Warp(t) : t \in Threads}

----------------------------------------------------------------------------
(* What a phase of a thread reads and writes *)

\* How many elements an array has; one block computes one head, row or element.
Extent(array) ==
  CASE array = "sdata" -> BlockDim
    [] launch.kernel = "attention" /\ array = "output" -> HeadSize
    [] launch.kernel = "matmul" /\ array = "output" -> 1
    [] array = "query" -> (2 * launch.count)
    [] array = "key" -> (2 * launch.count * KvHeads) \div QueryHeads
    [] OTHER -> launch.count

\* The loops of a block go in strides; a thread of a grid has one element.
Owner(i) == IF launch.kernel \in OneBlock THEN i % BlockDim ELSE i

Own(array, t) == {<<array, i>> : i \in {i \in 0..(Extent(array) - 1) : Owner(i) = t}}

Whole(array) == {<<array, i>> : i \in 0..(Extent(array) - 1)}

\* qwen3_rope_batch_kernel: thread t turns one pair of a query head, and of the
\* key head of the same number where there is one.
Half == HeadSize \div 2
Pair(t) ==
  LET per_row == QueryHeads * Half
      row     == t \div per_row
      head    == (t % per_row) \div Half
      i       == (t % per_row) % Half
      q       == row * QueryHeads * HeadSize + head * HeadSize + i
      k       == row * KvHeads * HeadSize + head * HeadSize + i
  IN {<<"query", q>>, <<"query", q + Half>>}
       \cup (IF head < KvHeads THEN {<<"key", k>>, <<"key", k + Half>>} ELSE {})

Reads(k, t) ==
  LET phase == program[k]
  IN CASE phase.op = "map" /\ phase.in # "" -> Own(phase.in, t)
       [] phase.op = "all"    -> Whole(phase.in)
       [] phase.op = "load"   -> {<<phase.in, 0>>}
       [] phase.op = "gather" -> IF t = 0 THEN {<<"storage", w>> : w \in Warps} ELSE {}
       [] phase.op = "rotate" -> Pair(t)
       [] OTHER -> {}

Writes(k, t) ==
  LET phase == program[k]
  IN CASE phase.op \in {"map", "all"} /\ phase.out # "" -> Own(phase.out, t)
       [] phase.op = "warp"    -> IF t % WarpSize = 0 THEN {<<"storage", Warp(t)>>} ELSE {}
       [] phase.op = "publish" -> IF t = 0 THEN {<<phase.out, 0>>} ELSE {}
       [] phase.op = "rotate"  -> Pair(t)
       [] OTHER -> {}

----------------------------------------------------------------------------
(* The launch *)

Cells ==
  UNION {Reads(k, t) \cup Writes(k, t) : k \in DOMAIN program, t \in Running}

Done(t) == pc[t] > Len(program)
At(t, op) == ~Done(t) /\ program[pc[t]].op = op

Init ==
  /\ launch \in Kernels
  /\ pc = [t \in Running |-> 1]
  /\ mem = [c \in Cells |-> 0]

Write(cells, k) == mem' = [c \in DOMAIN mem |-> IF c \in cells THEN k ELSE mem[c]]

\* A thread does its next phase.
Step(t) ==
  /\ ~Done(t) /\ ~At(t, "sync") /\ ~At(t, "warp")
  /\ Write(Writes(pc[t], t), pc[t])
  /\ pc' = [pc EXCEPT ![t] = @ + 1]
  /\ UNCHANGED launch

\* The lanes of a warp do a reduction together.
WarpReduce(w) ==
  /\ Lanes(w) \subseteq Running
  /\ \A t \in Lanes(w) : At(t, "warp")
  /\ Write(UNION {Writes(pc[t], t) : t \in Lanes(w)}, pc[w * WarpSize])
  /\ pc' = [t \in Running |-> IF t \in Lanes(w) THEN pc[t] + 1 ELSE pc[t]]
  /\ UNCHANGED launch

\* __syncthreads: the threads of a block that have not returned go on together.
SyncThreads(b) ==
  /\ \A t \in Running : Block(t) = b => At(t, "sync")
  /\ \E t \in Running : Block(t) = b
  /\ pc' = [t \in Running |-> IF Block(t) = b THEN pc[t] + 1 ELSE pc[t]]
  /\ UNCHANGED <<launch, mem>>

Finished == (\A t \in Running : Done(t)) /\ UNCHANGED vars

Next ==
  \/ \E t \in Running : Step(t)
  \/ \E w \in Warps : WarpReduce(w)
  \/ \E t \in Running : SyncThreads(Block(t))
  \/ Finished

Spec == Init /\ [][Next]_vars

----------------------------------------------------------------------------
(* Properties *)

\* One thread's phase writes what the other's touches.
Conflict(t, u) ==
  Writes(pc[t], t) \cap (Reads(pc[u], u) \cup Writes(pc[u], u)) # {}

(* No two threads can be in phases of which one writes what the other reads*)
(* or writes: every reuse of shared memory and every element that passes   *)
(* from one thread to another is separated by a barrier, those inside      *)
(* cub::BlockReduce included, and no two threads rotate the same pair.     *)
RaceFree ==
  \A t, u \in Running :
    t # u /\ ~Done(t) /\ ~Done(u) => ~Conflict(t, u)

\* The phase that writes a cell last before phase k when one thread after the
\* other runs each phase, as the loops of the CPU kernels do.
SequentialWriter(k, c) ==
  LET phases == {j \in 1..(k - 1) : j \in DOMAIN program /\ \E t \in Running : c \in Writes(j, t)}
  IN IF phases = {} THEN 0 ELSE CHOOSE j \in phases : \A i \in phases : i <= j

\* The cells that hold the result: those the CPU kernel computes.
Results ==
  CASE launch.kernel = "rope" -> Whole("query") \cup Whole("key")
    [] launch.kernel \in {"rmsnorm", "add"} -> Whole("row")
    [] OTHER -> Whole("output")

(* Whatever the order of the threads, each reads what the sequential loops *)
(* of the CPU kernel would have left there, so both devices compute the    *)
(* same; and in the end every element of the result has been computed: the *)
(* grid covers the last, partial block.                                    *)
ReadsAsSequential ==
  /\ \A t \in Running : ~Done(t) =>
        \A c \in Reads(pc[t], t) : mem[c] = SequentialWriter(pc[t], c)
  /\ (\A t \in Running : Done(t)) =>
        \A c \in Results : c \in DOMAIN mem /\ mem[c] # 0
=============================================================================
