-------------------------- MODULE DeviceAllocator --------------------------
(***************************************************************************)
(* The allocators of memory/src: CUDADeviceAllocator, which keeps every     *)
(* block it got from cudaMalloc in one of two lists and hands idle ones out *)
(* again, and CPUDeviceAllocator, which is malloc and free.                 *)
(*                                                                          *)
(* The program runs on GPU 0 only (qwen3.cpp:43 sets it), so the maps keyed *)
(* by device are single values.  The allocators are objects without threads *)
(* of their own: a call is an operator from the memory before it to the     *)
(* memory after it, and allocate, which the driver may refuse, to the set   *)
(* of its outcomes.  Sizes are in units chosen by the instance.             *)
(***************************************************************************)
EXTENDS Integers, FiniteSets, FiniteSetsExt

CONSTANTS
  CudaPtr,   \* addresses cudaMalloc may return
  CpuPtr,    \* addresses malloc may return
  Null,      \* nullptr
  MB,        \* 1024 * 1024: larger requests use the list of big blocks
  TrimLimit  \* 1024 * 1024 * 1024: idle small memory kept at most

ASSUME PtrAssumption == CudaPtr \cap CpuPtr = {} /\ Null \notin CudaPtr \cup CpuPtr
ASSUME LimitAssumption == MB \in Nat \ {0} /\ TrimLimit \in Nat

(***************************************************************************)
(* A CudaMemoryBuffer, at its address: listed in cuda_buffers_map_ (small)  *)
(* or big_buffers_map_ (big), or not with the driver at all (none).         *)
(***************************************************************************)
Block == [list : {"none", "small", "big"}, byte_size : Nat, busy : BOOLEAN]
Unlisted == [list |-> "none", byte_size |-> 0, busy |-> FALSE]

(***************************************************************************)
(* The memory: the blocks of the GPU, no_busy_cnt_, whether                 *)
(* cuda_buffers_map_ has an entry, and what malloc has handed out.          *)
(* Two fields only record history: lost are the addresses in use that no    *)
(* owner can release any more, and corrupt says that a block was released   *)
(* that was not in use.                                                     *)
(***************************************************************************)
Memory == [blocks : [CudaPtr -> Block], no_busy_cnt : Int, has_small : BOOLEAN,
           heap : SUBSET CpuPtr, lost : SUBSET (CudaPtr \cup CpuPtr),
           corrupt : BOOLEAN]

EmptyMemory == [blocks |-> [p \in CudaPtr |-> Unlisted], no_busy_cnt |-> 0,
                has_small |-> FALSE, heap |-> {}, lost |-> {}, corrupt |-> FALSE]

InUse(m) == {p \in CudaPtr : m.blocks[p].busy} \cup m.heap

IdleSmall(m) == {p \in CudaPtr : m.blocks[p].list = "small" /\ ~m.blocks[p].busy}

Bytes(m, S) == MapThenSumSet(LAMBDA p : m.blocks[p].byte_size, S)

----------------------------------------------------------------------------
(***************************************************************************)
(* CUDADeviceAllocator::allocate.  The lists are searched in the order      *)
(* their blocks were created, which the model leaves open: a small request  *)
(* takes any idle block that fits, a big one any of the smallest that fit   *)
(* with less than MB to spare.                                              *)
(***************************************************************************)
SmallFits(m, n) == {p \in IdleSmall(m) : m.blocks[p].byte_size >= n}

BigFits(m, n) == {p \in CudaPtr : /\ m.blocks[p].list = "big" /\ ~m.blocks[p].busy
                                  /\ m.blocks[p].byte_size >= n
                                  /\ m.blocks[p].byte_size - n < MB}

BestBigFits(m, n) == {p \in BigFits(m, n) : \A q \in BigFits(m, n) :
                         m.blocks[p].byte_size <= m.blocks[q].byte_size}

TakeSmall(m, p) == [m EXCEPT !.blocks[p].busy = TRUE,
                             !.no_busy_cnt = @ - m.blocks[p].byte_size]

TakeBig(m, p) == [m EXCEPT !.blocks[p].busy = TRUE]

\* cudaMalloc: a new address, or an error when the GPU has no room.
CudaMalloc(m, list, n) ==
  {[mem |-> m, ptr |-> Null]} \cup
  {[mem |-> [m EXCEPT !.blocks[p] = [list |-> list, byte_size |-> n, busy |-> TRUE]],
    ptr |-> p] : p \in {q \in CudaPtr : m.blocks[q].list = "none"}}

CudaAllocateBig(m, n) ==
  IF BigFits(m, n) # {}
  THEN {[mem |-> TakeBig(m, p), ptr |-> p] : p \in BestBigFits(m, n)}
  ELSE CudaMalloc(m, "big", n)

CudaAllocateSmall(m, n) ==
  LET seen == [m EXCEPT !.has_small = TRUE]
  IN IF SmallFits(m, n) # {}
     THEN {[mem |-> TakeSmall(seen, p), ptr |-> p] : p \in SmallFits(m, n)}
     ELSE CudaMalloc(seen, "small", n)

CudaAllocate(m, n) == IF n > MB THEN CudaAllocateBig(m, n) ELSE CudaAllocateSmall(m, n)

(* Slip: all small blocks are freed, the busy ones too. *)
Trim_busy(m) ==
  IF m.no_busy_cnt > TrimLimit
  THEN [m EXCEPT !.blocks = [p \in CudaPtr |-> IF @[p].list = "small" THEN Unlisted ELSE @[p]],
                 !.no_busy_cnt = 0]
  ELSE m

(* Slip: the counter is not reset. *)
Trim_count(m) ==
  IF m.no_busy_cnt > TrimLimit
  THEN [m EXCEPT !.blocks = [p \in CudaPtr |-> IF p \in IdleSmall(m) THEN Unlisted ELSE @[p]]]
  ELSE m

(* Slip: the limit is compared with the wrong unit. *)
Trim_late(m) ==
  IF m.no_busy_cnt > 2 * TrimLimit
  THEN [m EXCEPT !.blocks = [p \in CudaPtr |-> IF p \in IdleSmall(m) THEN Unlisted ELSE @[p]],
                 !.no_busy_cnt = 0]
  ELSE m

(***************************************************************************)
(* CUDADeviceAllocator::release.  It returns at once while no small block   *)
(* was ever requested; otherwise it first gives all idle small blocks back  *)
(* to the driver when they exceed the limit, and then looks the address up. *)
(***************************************************************************)
Trim(m) ==
  IF m.no_busy_cnt > TrimLimit
  THEN [m EXCEPT !.blocks = [p \in CudaPtr |-> IF p \in IdleSmall(m) THEN Unlisted ELSE @[p]],
                 !.no_busy_cnt = 0]
  ELSE m

\* cudaFree of an address in neither list is an error of the caller.
ReleaseListed(m, p) ==
  CASE m.blocks[p].list = "small" ->
         [m EXCEPT !.no_busy_cnt = @ + m.blocks[p].byte_size, !.blocks[p].busy = FALSE,
                   !.corrupt = @ \/ ~m.blocks[p].busy]
    [] m.blocks[p].list = "big" ->
         [m EXCEPT !.blocks[p].busy = FALSE, !.corrupt = @ \/ ~m.blocks[p].busy]
    [] OTHER -> [m EXCEPT !.corrupt = TRUE]

CudaRelease(m, p) ==
  IF m.has_small THEN ReleaseListed(Trim(m), p) ELSE [m EXCEPT !.lost = @ \cup {p}]

----------------------------------------------------------------------------
(* CPUDeviceAllocator *)

CpuAllocate(m, n) ==
  {[mem |-> m, ptr |-> Null]} \cup
  (IF n = 0 THEN {}
   ELSE {[mem |-> [m EXCEPT !.heap = @ \cup {p}], ptr |-> p] : p \in CpuPtr \ m.heap})

CpuRelease(m, p) == [m EXCEPT !.heap = @ \ {p}, !.corrupt = @ \/ p \notin m.heap]

----------------------------------------------------------------------------
(* DeviceAllocatorFactory: the two allocators are found by device *)

Device == {"cpu", "cuda"}

Allocate(m, device, n) == IF device = "cuda" THEN CudaAllocate(m, n) ELSE CpuAllocate(m, n)

Release(m, device, p) == IF device = "cuda" THEN CudaRelease(m, p) ELSE CpuRelease(m, p)
=============================================================================
