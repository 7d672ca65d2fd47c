------------------------------- MODULE Tensor -------------------------------
(***************************************************************************)
(* memory/src/buffer.cpp and tensor/src/tensor.cpp: tensors that share      *)
(* Buffers, and Buffers that own one block of an allocator or point to      *)
(* memory of somebody else.                                                 *)
(*                                                                          *)
(* tensor[t] is a Tensor variable of the program: how many elements it has  *)
(* and which Buffer its shared_ptr names; elements are one unit of size.    *)
(* A Buffer lives as long as a tensor names it and is destroyed with the    *)
(* last one, within the operation that drops the reference; buffer[b] of a  *)
(* Buffer that does not live is NoContents.  One thread runs all of it, so  *)
(* a member function is one step.  A failed CHECK aborts the process: such  *)
(* a call has no step.  What the elements are is left out.                  *)
(***************************************************************************)
EXTENDS DeviceAllocator

CONSTANTS
  Tensors,  \* Tensor variables of the program
  Buffers,  \* identities of Buffer objects
  NoBuffer, \* the null shared_ptr
  Foreign,   \* memory of the model: its converted weights
  Sizes     \* element counts the program asks for

ASSUME BufferAssumption == NoBuffer \notin Buffers
ASSUME ForeignAssumption == Foreign \notin CudaPtr \cup CpuPtr \cup {Null}
ASSUME SizesAssumption == Sizes \subseteq Nat \ {0}

VARIABLES
  memory,  \* the state of the two allocators
  buffer,  \* the members of each living Buffer
  tensor   \* Tensor::size_ and Tensor::buffer_

vars == <<memory, buffer, tensor>>

Contents == [byte_size : Nat, ptr : CudaPtr \cup CpuPtr \cup {Foreign, Null},
             use_external : BOOLEAN, allocator : Device \cup {"none"}, device_type : Device]

NoContents == [byte_size |-> 0, ptr |-> Null, use_external |-> FALSE,
               allocator |-> "none", device_type |-> "cpu"]

Empty == [size |-> 0, buf |-> NoBuffer]

Named == {tensor[t].buf : t \in Tensors} \ {NoBuffer}

----------------------------------------------------------------------------
(* Buffer *)

\* Buffer::Buffer(byte_size, allocator): its contents once allocate returned p.
Owning(n, device, p) == [byte_size |-> n, ptr |-> p, use_external |-> FALSE,
                         allocator |-> device, device_type |-> device]

\* Buffer::Buffer(byte_size, nullptr, ptr, true) with set_device_type(device).
External(n, device, p) == [byte_size |-> n, ptr |-> p, use_external |-> TRUE,
                           allocator |-> "none", device_type |-> device]

(* Slip: the block of a CUDA Buffer is not released. *)
Destroy_cpu_only(m, c) ==
  IF ~c.use_external /\ c.ptr # Null /\ c.allocator = "cpu"
  THEN Release(m, c.allocator, c.ptr)
  ELSE m

\* Buffer::~Buffer
Destroy(m, c) ==
  IF ~c.use_external /\ c.ptr # Null /\ c.allocator # "none"
  THEN Release(m, c.allocator, c.ptr)
  ELSE m

\* Buffer::allocate overwrites ptr_, whatever it held.
Overwrite(m, p) == IF p = Null THEN m ELSE [m EXCEPT !.lost = @ \cup {p}]

(***************************************************************************)
(* t's members become those of view, a Buffer with contents c takes the     *)
(* identity of view.buf if that is new, and the Buffer t named is destroyed *)
(* if no other tensor names it.  m is the memory after the allocations.     *)
(***************************************************************************)
Dropped(t, view) ==
  {tensor[t].buf} \ ({view.buf, NoBuffer} \cup {tensor[u].buf : u \in Tensors \ {t}})

Rebind(t, view, contents, m) ==
  /\ tensor' = [tensor EXCEPT ![t] = view]
  /\ buffer' = [b \in Buffers |-> IF b \in Dropped(t, view) THEN NoContents ELSE contents[b]]
  /\ memory' = IF Dropped(t, view) = {} THEN m ELSE Destroy(m, buffer[tensor[t].buf])

\* make_shared<Buffer>: t gets n elements in a Buffer of its own.
BindNew(t, n, c, m) ==
  \E b \in Buffers \ Named :
     Rebind(t, [size |-> n, buf |-> b], [buffer EXCEPT ![b] = c], m)

----------------------------------------------------------------------------
(* Tensor *)

Init == /\ memory = EmptyMemory
        /\ buffer = [b \in Buffers |-> NoContents]
        /\ tensor = [t \in Tensors |-> Empty]

\* t = Tensor(type, dims, true, allocator).  A null block is kept: the
\* constructor ignores what Tensor::allocate returns.
Construct(t, n, device) ==
  \E r \in Allocate(memory, device, n) : BindNew(t, n, Owning(n, device, r.ptr), r.mem)

\* t.allocate(allocator, need_realloc)
AllocateTensor(t, device, need_realloc) ==
  /\ tensor[t].size # 0
  /\ ~(/\ tensor[t].buf # NoBuffer
       /\ tensor[t].size <= buffer[tensor[t].buf].byte_size
       /\ ~need_realloc)
  /\ Construct(t, tensor[t].size, device)

\* t = u, the copy constructor and assignment
Copy(t, u) == tensor[u] # Empty /\ Rebind(t, tensor[u], buffer, memory)

\* t.reset(type, dims), and with 0 elements the end of t's scope
Reset(t, n) == /\ tensor[t] # Empty
               /\ Rebind(t, [size |-> n, buf |-> NoBuffer], buffer, memory)

(* Slip: the size of the Buffer is not checked. *)
Assign_unchecked(t, u) ==
  /\ tensor[t] # Empty /\ tensor[u].buf # NoBuffer
  /\ Rebind(t, [tensor[t] EXCEPT !.buf = tensor[u].buf], buffer, memory)

\* t.assign(u.get_buffer()): refused when the Buffer is too small
Assign(t, u) ==
  /\ tensor[t] # Empty /\ tensor[u].buf # NoBuffer
  /\ tensor[t].size <= buffer[tensor[u].buf].byte_size
  /\ Rebind(t, [tensor[t] EXCEPT !.buf = tensor[u].buf], buffer, memory)

\* LayerParam::set_weight: t becomes a view of the weights.
SetWeight(t, n) == BindNew(t, n, External(n, "cpu", Foreign), memory)

(* Slip: the view takes a share in the block. *)
View_owning(t, u, n) ==
  /\ t # u /\ tensor[u].buf # NoBuffer /\ n <= tensor[u].size
  /\ LET c == buffer[tensor[u].buf]
     IN BindNew(t, n, Owning(n, c.device_type, c.ptr), memory)

\* t = tensor_view(dims, u.ptr(), device): rows of u, without a share in them.
View(t, u, n) ==
  /\ t # u /\ tensor[u].buf # NoBuffer /\ n <= tensor[u].size
  /\ LET c == buffer[tensor[u].buf]
     IN BindNew(t, n, External(n, c.device_type, c.ptr), memory)

(***************************************************************************)
(* Tensor::reshape.  A tensor without Buffer, or one that does not grow,    *)
(* changes its shape only.  One that grows gets a new Buffer: its           *)
(* constructor allocates, then the CHECK calls Buffer::allocate, which      *)
(* allocates again; copy_from needs both blocks.                            *)
(***************************************************************************)
Reshape(t, n) ==
  /\ tensor[t] # Empty
  /\ tensor[t].buf = NoBuffer \/ n <= tensor[t].size
  /\ Rebind(t, [tensor[t] EXCEPT !.size = n], buffer, memory)

Grow(t, n) ==
  /\ tensor[t].buf # NoBuffer /\ n > tensor[t].size
  /\ LET old == buffer[tensor[t].buf]
     IN /\ old.allocator # "none" /\ old.ptr # Null
        /\ \E first \in Allocate(memory, old.allocator, n) :
           \E second \in Allocate(first.mem, old.allocator, n) :
              /\ second.ptr # Null
              /\ BindNew(t, n, Owning(n, old.allocator, second.ptr),
                         Overwrite(second.mem, first.ptr))

\* t = u.clone(): copy_from needs an allocator and two blocks.
Clone(t, u) ==
  /\ tensor[u].buf # NoBuffer
  /\ LET source == buffer[tensor[u].buf]
     IN /\ source.allocator # "none" /\ source.ptr # Null
        /\ \E r \in Allocate(memory, source.allocator, tensor[u].size) :
              /\ r.ptr # Null
              /\ BindNew(t, tensor[u].size,
                         Owning(tensor[u].size, source.allocator, r.ptr), r.mem)

\* t.to_cuda(stream) and t.to_cpu(): nothing to do on the right device already.
MoveTo(t, device) ==
  /\ tensor[t].buf # NoBuffer
  /\ buffer[tensor[t].buf].device_type # device
  /\ buffer[tensor[t].buf].ptr # Null
  /\ \E r \in Allocate(memory, device, tensor[t].size) :
        /\ r.ptr # Null
        /\ BindNew(t, tensor[t].size, Owning(tensor[t].size, device, r.ptr), r.mem)

ToCuda(t) == MoveTo(t, "cuda")
ToCpu(t) == MoveTo(t, "cpu")

Next ==
  \E t \in Tensors :
     \/ \E n \in Sizes, device \in Device : Construct(t, n, device)
     \/ \E device \in Device, need_realloc \in BOOLEAN : AllocateTensor(t, device, need_realloc)
     \/ \E u \in Tensors : Copy(t, u) \/ Assign(t, u) \/ Clone(t, u)
     \/ \E n \in Sizes : Reshape(t, n) \/ Grow(t, n) \/ SetWeight(t, n)
     \/ \E n \in Sizes \cup {0} : Reset(t, n)
     \/ \E u \in Tensors, n \in Sizes : View(t, u, n)
     \/ ToCuda(t) \/ ToCpu(t)

Spec == Init /\ [][Next]_vars
----------------------------------------------------------------------------
(* Properties *)

\* The members have their types; a Buffer that owns memory is not external, its
\* block comes from its own allocator, and dead Buffers hold nothing.
TypeOK ==
  /\ memory \in Memory
  /\ buffer \in [Buffers -> Contents]
  /\ tensor \in [Tensors -> [size : Nat, buf : Buffers \cup {NoBuffer}]]
  /\ \A b \in Buffers : b \notin Named => buffer[b] = NoContents

\* The Buffers that have a block of their own.
Owners == {b \in Buffers : buffer[b].allocator # "none" /\ buffer[b].ptr # Null}

Owned == {buffer[b].ptr : b \in Owners}

\* The block of an owning Buffer is in use, on the Buffer's device, holds what the
\* Buffer says it does, and is no other Buffer's: sharing, trimming and reuse never
\* take it away, and neither allocator hands it out twice.
Backed(c) ==
  /\ ~c.use_external /\ c.device_type = c.allocator
  /\ IF c.allocator = "cpu" THEN c.ptr \in memory.heap
     ELSE /\ c.ptr \in CudaPtr /\ memory.blocks[c.ptr].busy
          /\ memory.blocks[c.ptr].byte_size >= c.byte_size

BlocksExclusive ==
  /\ \A b \in Owners : Backed(buffer[b])
  /\ \A b, c \in Owners : buffer[b].ptr = buffer[c].ptr => b = c

\* A tensor never reads or writes beyond its Buffer, through reshapes, sharing,
\* assign and moves between devices.
TensorFits ==
  \A t \in Tensors : tensor[t].buf # NoBuffer => tensor[t].size <= buffer[tensor[t].buf].byte_size

\* release is called once for each block, with an address of its allocator;
\* views and the weights of the model are never released.
ReleasesValid == ~memory.corrupt

\* Memory in use belongs to a Buffer or was lost in one of the two ways the code
\* loses it (Overwrite, and release before any small request), and never both.
InUseExplained == InUse(memory) = Owned \cup memory.lost /\ Owned \cap memory.lost = {}

\* no_busy_cnt_, a size_t, is exactly the idle small memory: it never wraps and
\* never triggers a collection too early or too late.
IdleCountExact == memory.no_busy_cnt = Bytes(memory, IdleSmall(memory))

\* The small blocks kept idle stay within the limit and one block more.
IdleBounded == memory.no_busy_cnt <= TrimLimit + MB

\* A big block is never handed to a request smaller by MB or more.
SlackBounded ==
  \A b \in Owners :
     LET p == buffer[b].ptr
     IN p \in CudaPtr /\ memory.blocks[p].list = "big"
           => memory.blocks[p].byte_size - buffer[b].byte_size < MB

\* memory/readme.md:7, "a Buffer holds one block of memory": all memory in use
\* is the block of a living Buffer.  False: Grow allocates twice.
InUseOwned == InUse(memory) \subseteq Owned

\* memory/readme.md:3, the allocator interface defines allocation and release:
\* the block of a Buffer that is destroyed is free to be used again.  False for
\* big blocks while no small block was requested.
ReleaseReturns ==
  [][\A b \in Owners : buffer'[b] = NoContents => buffer[b].ptr \notin InUse(memory')]_vars
=============================================================================
