---------------------------- MODULE TensorProofs ----------------------------
(***************************************************************************)
(* Proofs about Tensor.tla for every set of tensors, Buffers, addresses and *)
(* sizes and every limit of the allocator.                                  *)
(*                                                                          *)
(* An operation allocates up to two blocks, gives a Buffer to a tensor and  *)
(* releases the block of the Buffer it replaced.  Good(m, bs, X) is what    *)
(* holds between these parts: X are the blocks already allocated that no    *)
(* Buffer of bs has yet.  A lemma for each part says how it carries Good    *)
(* on, Rebinding puts the last two together, and each action is a chain of  *)
(* these lemmas.                                                            *)
(***************************************************************************)
EXTENDS Tensor, FiniteSetTheorems, WellFoundedInduction, TLAPS

----------------------------------------------------------------------------
(***************************************************************************)
(* The sum of the sizes of a finite set of blocks.  Bytes is defined by     *)
(* taking the elements in the order CHOOSE picks them; these lemmas say     *)
(* that there is such a sum and that the order does not matter.             *)
(***************************************************************************)

\* A set that holds 0 and with each number its successor is Nat.
LEMMA ByNumber ==
  ASSUME NEW G \in SUBSET Nat, 0 \in G, \A n \in G : n + 1 \in G
  PROVE  G = Nat
<1>1. SUFFICES ASSUME Nat \ G # {} PROVE FALSE
  OBVIOUS
<1>2. PICK n \in Nat \ G : \A k \in Nat \ G : <<k, n>> \notin OpToRel(<, Nat)
  BY <1>1, WFMin, NatLessThanWellFounded, Zenon
<1>3. \A k \in Nat \ G : ~(k < n)
  BY <1>2 DEF OpToRel
<1>4. n # 0 /\ n - 1 \in Nat
  OBVIOUS
<1>5. n - 1 \notin G
  BY <1>4
<1> QED
  BY <1>3, <1>4, <1>5

\* g adds up the weights of each subset of S.
Picked(s) == CHOOSE x \in s : TRUE

Adds(g, w, S) ==
  g = [s \in SUBSET S |-> IF s = {} THEN 0 ELSE w[Picked(s)] + g[s \ {Picked(s)}]]

Sum(w, S) == (CHOOSE g : Adds(g, w, S))[S]

\* There is such a function on the subsets of at most n elements, for every n.
AddsUpTo(h, w, S, n) ==
  h = [s \in {s \in SUBSET S : Cardinality(s) <= n} |->
         IF s = {} THEN 0 ELSE w[Picked(s)] + h[s \ {Picked(s)}]]

LEMMA AddsExists ==
  ASSUME NEW S, IsFiniteSet(S), NEW w
  PROVE  \E g : Adds(g, w, S)
<1> DEFINE Small(n) == {s \in SUBSET S : Cardinality(s) <= n}
           G == {n \in Nat : \E h : AddsUpTo(h, w, S, n)}
<1>0. \A s \in SUBSET S : /\ IsFiniteSet(s) /\ Cardinality(s) \in Nat /\ Cardinality(s) <= Cardinality(S)
                          /\ Cardinality(s) = 0 <=> s = {}
  BY FS_Subset, FS_CardinalityType, FS_EmptySet
<1>1. 0 \in G
  <2>1. \A s \in Small(0) : s = {}
    BY <1>0
  <2>2. PICK h : h = [s \in Small(0) |-> 0]
    OBVIOUS
  <2>3. h = [s \in Small(0) |-> IF s = {} THEN 0 ELSE w[Picked(s)] + h[s \ {Picked(s)}]]
    BY <2>1, <2>2
  <2> QED
    BY <2>3 DEF AddsUpTo
<1>2. ASSUME NEW n \in G PROVE n + 1 \in G
  <2>1. PICK h : AddsUpTo(h, w, S, n)
    OBVIOUS
  <2> DEFINE F(f, s) == IF s = {} THEN 0 ELSE w[Picked(s)] + f[s \ {Picked(s)}]
  <2>2. PICK k : k = [s \in Small(n + 1) |-> F(h, s)]
    OBVIOUS
  <2>3. ASSUME NEW s \in Small(n)
        PROVE  s \in Small(n + 1) /\ k[s] = h[s]
    <3>1. s \in Small(n + 1)
      BY <1>0
    <3>2. h = [t \in Small(n) |-> F(h, t)]
      BY <2>1 DEF AddsUpTo
    <3> HIDE DEF F, Small
    <3>3. k[s] = F(h, s) /\ h[s] = F(h, s)
      BY <2>2, <3>1, <3>2, Zenon
    <3> QED
      BY <3>1, <3>3
  <2>4. ASSUME NEW s \in Small(n + 1)
        PROVE  F(h, s) = F(k, s)
    <3>1. CASE s = {}
      BY <3>1
    <3>2. CASE s # {}
      <4>1. PICK x \in s : x = Picked(s)
        BY <3>2 DEF Picked
      <4>2. IsFiniteSet(s) /\ Cardinality(s) \in Nat /\ Cardinality(s) <= n + 1
        BY <1>0
      <4>3. Cardinality(s \ {x}) = Cardinality(s) - 1
        BY <4>2, FS_RemoveElement
      <4>4. s \ {x} \in Small(n)
        BY <4>2, <4>3
      <4> QED
        BY <2>3, <3>2, <4>1, <4>4
    <3> QED
      BY <3>1, <3>2
  <2>5. k = [s \in Small(n + 1) |-> F(k, s)]
    <3>1. PICK kk : kk = [s \in Small(n + 1) |-> F(k, s)]
      OBVIOUS
    <3> HIDE DEF F, Small
    <3>2. \A s \in Small(n + 1) : k[s] = kk[s]
      BY <2>2, <2>4, <3>1
    <3>3. k = kk
      BY <2>2, <3>1, <3>2
    <3> QED
      BY <3>1, <3>3
  <2>6. AddsUpTo(k, w, S, n + 1)
    BY <2>5 DEF AddsUpTo
  <2> HIDE DEF F, Small
  <2> QED
    BY <2>6
<1> HIDE DEF G
<1>3. Cardinality(S) \in G
  BY <1>0, <1>1, <1>2, ByNumber DEF G
<1>4. PICK h : AddsUpTo(h, w, S, Cardinality(S))
  BY <1>3 DEF G
<1>5. Small(Cardinality(S)) = SUBSET S
  BY <1>0
<1> QED
  BY <1>4, <1>5 DEF AddsUpTo, Adds


\* The sums of integers are integers.
LEMMA SumAdds ==
  ASSUME NEW S, IsFiniteSet(S), NEW w, \A x \in S : w[x] \in Int
  PROVE  \E g \in [SUBSET S -> Int] :
           /\ Adds(g, w, S)
           /\ Sum(w, S) = g[S]
<1> DEFINE g == CHOOSE h : Adds(h, w, S)
<1>1. Adds(g, w, S)
  BY AddsExists, Zenon
<1> HIDE DEF g
<1> DEFINE G == {n \in Nat : \A s \in SUBSET S : Cardinality(s) = n => g[s] \in Int}
<1>0. \A s \in SUBSET S : /\ IsFiniteSet(s) /\ Cardinality(s) \in Nat
                          /\ Cardinality(s) = 0 <=> s = {}
  BY FS_Subset, FS_CardinalityType, FS_EmptySet
<1>2. \A s \in SUBSET S : g[s] = IF s = {} THEN 0
                          ELSE w[Picked(s)] + g[s \ {Picked(s)}]
  BY <1>1 DEF Adds
<1>3. 0 \in G
  <2>1. g[{}] = 0
    BY <1>2
  <2> QED
    BY <1>0, <2>1
<1>4. ASSUME NEW n \in G PROVE n + 1 \in G
  <2>1. SUFFICES ASSUME NEW s \in SUBSET S, Cardinality(s) = n + 1
                 PROVE  g[s] \in Int
    OBVIOUS
  <2>2. s # {} /\ IsFiniteSet(s)
    BY <1>0, <2>1
  <2>3. PICK x \in s : x = Picked(s)
    BY <2>2 DEF Picked
  <2>4. Cardinality(s \ {x}) = n
    <3>1. Cardinality(s \ {x}) = Cardinality(s) - 1
      BY <2>2, FS_RemoveElement
    <3> QED
      BY <2>1, <3>1
  <2>5. g[s \ {x}] \in Int /\ w[x] \in Int
    BY <2>4
  <2>6. g[s] = w[x] + g[s \ {x}]
    BY <1>2, <2>2, <2>3
  <2> QED
    BY <2>5, <2>6
<1> HIDE DEF G
<1>5. G = Nat
  BY <1>3, <1>4, ByNumber DEF G
<1>6. \A s \in SUBSET S : g[s] \in Int
  BY <1>0, <1>5 DEF G
<1>7. g \in [SUBSET S -> Int]
  BY <1>1, <1>6 DEF Adds
<1> QED
  BY <1>1, <1>7 DEF Sum, g

\* Sums over S and over a part of it agree on the part.
LEMMA SumOfSubset ==
  ASSUME NEW S, IsFiniteSet(S), NEW w, \A x \in S : w[x] \in Int,
         NEW g, Adds(g, w, S), NEW h, NEW T \in SUBSET S, Adds(h, w, T)
  PROVE  g[T] = h[T]
<1> DEFINE G == {n \in Nat : \A s \in SUBSET T : Cardinality(s) = n => g[s] = h[s]}
<1>0. \A s \in SUBSET T : /\ IsFiniteSet(s) /\ Cardinality(s) \in Nat
                          /\ Cardinality(s) = 0 <=> s = {}
  BY FS_Subset, FS_CardinalityType, FS_EmptySet
<1>2. \A s \in SUBSET T :
        /\ g[s] = IF s = {} THEN 0
                  ELSE w[Picked(s)] + g[s \ {Picked(s)}]
        /\ h[s] = IF s = {} THEN 0
                  ELSE w[Picked(s)] + h[s \ {Picked(s)}]
  BY DEF Adds
<1>3. 0 \in G
  BY <1>0, <1>2
<1>4. ASSUME NEW n \in G PROVE n + 1 \in G
  <2>1. SUFFICES ASSUME NEW s \in SUBSET T, Cardinality(s) = n + 1
                 PROVE  g[s] = h[s]
    OBVIOUS
  <2>2. s # {} /\ IsFiniteSet(s)
    BY <1>0, <2>1
  <2>3. PICK x \in s : x = Picked(s)
    BY <2>2 DEF Picked
  <2>4. Cardinality(s \ {x}) = n
    <3>1. Cardinality(s \ {x}) = Cardinality(s) - 1
      BY <2>2, FS_RemoveElement
    <3> QED
      BY <2>1, <3>1
  <2>5. g[s \ {x}] = h[s \ {x}]
    BY <2>4
  <2> QED
    BY <1>2, <2>2, <2>3, <2>5
<1> HIDE DEF G
<1>5. G = Nat
  BY <1>3, <1>4, ByNumber DEF G
<1> QED
  BY <1>0, <1>5 DEF G

\* Any element may be taken out of the sum first.
AnyFirst(g, w, S) == \A s \in SUBSET S : \A z \in s : g[s] = w[z] + g[s \ {z}]

LEMMA AddsAny ==
  ASSUME NEW S, IsFiniteSet(S), NEW w, \A x \in S : w[x] \in Int,
         NEW g, g \in [SUBSET S -> Int], Adds(g, w, S)
  PROVE  AnyFirst(g, w, S)
<1> DEFINE G == {n \in Nat : \A s \in SUBSET S : Cardinality(s) = n =>
                   \A z \in s : g[s] = w[z] + g[s \ {z}]}
<1>0. \A s \in SUBSET S : /\ IsFiniteSet(s) /\ Cardinality(s) \in Nat
                          /\ Cardinality(s) = 0 <=> s = {}
  BY FS_Subset, FS_CardinalityType, FS_EmptySet
<1>2. \A s \in SUBSET S : g[s] = IF s = {} THEN 0
                          ELSE w[Picked(s)] + g[s \ {Picked(s)}]
  BY DEF Adds
<1>3. 0 \in G
  BY <1>0
<1>4. ASSUME NEW n \in G PROVE n + 1 \in G
  <2>1. SUFFICES ASSUME NEW s \in SUBSET S, Cardinality(s) = n + 1, NEW z \in s
                 PROVE  g[s] = w[z] + g[s \ {z}]
    OBVIOUS
  <2>2. s # {} /\ IsFiniteSet(s)
    BY <1>0, <2>1
  <2>3. PICK x \in s : x = Picked(s)
    BY <2>2 DEF Picked
  <2>4. g[s] = w[x] + g[s \ {x}]
    BY <1>2, <2>2, <2>3
  <2>5. CASE z = x
    BY <2>4, <2>5
  <2>6. CASE z # x
    <3>1. Cardinality(s \ {x}) = n /\ Cardinality(s \ {z}) = n
      <4>1. Cardinality(s \ {x}) = Cardinality(s) - 1 /\ Cardinality(s \ {z}) = Cardinality(s) - 1
        BY <2>2, FS_RemoveElement
      <4> QED
        BY <2>1, <4>1
    <3>2. g[s \ {x}] = w[z] + g[(s \ {x}) \ {z}] /\ g[s \ {z}] = w[x] + g[(s \ {z}) \ {x}]
      BY <2>6, <3>1
    <3>3. (s \ {x}) \ {z} = (s \ {z}) \ {x}
      OBVIOUS
    <3>4. w[x] \in Int /\ w[z] \in Int /\ g[(s \ {x}) \ {z}] \in Int
      OBVIOUS
    <3>5. g[s \ {x}] \in Int /\ g[s \ {z}] \in Int
      OBVIOUS
    <3> DEFINE a == g[s \ {x}]
               b == g[s \ {z}]
               c == g[(s \ {x}) \ {z}]
    <3>6. /\ a = w[z] + c /\ b = w[x] + c /\ g[s] = w[x] + a
          /\ a \in Int /\ b \in Int /\ c \in Int /\ w[x] \in Int /\ w[z] \in Int
      BY <2>4, <3>2, <3>3, <3>4, <3>5, Zenon
    <3> HIDE DEF a, b, c
    <3>7. g[s] = w[z] + b
      BY <3>6
    <3> QED
      BY <3>7 DEF b
  <2> QED
    BY <2>5, <2>6
<1> HIDE DEF G
<1>5. G = Nat
  BY <1>3, <1>4, ByNumber DEF G
<1> QED
  BY <1>0, <1>5 DEF G, AnyFirst

\* What the sum is, one element at a time.
LEMMA SumStep ==
  ASSUME NEW S, IsFiniteSet(S), NEW w, \A x \in S : w[x] \in Int, NEW y \in S
  PROVE  Sum(w, S) = w[y] + Sum(w, S \ {y}) /\ Sum(w, S \ {y}) \in Int
<1>1. PICK g \in [SUBSET S -> Int] : Adds(g, w, S) /\ Sum(w, S) = g[S]
  BY SumAdds
<1>2. IsFiniteSet(S \ {y})
  BY FS_RemoveElement
<1>3. PICK h \in [SUBSET (S \ {y}) -> Int] : Adds(h, w, S \ {y}) /\ Sum(w, S \ {y}) = h[S \ {y}]
  BY <1>2, SumAdds
<1>4. g[S] = w[y] + g[S \ {y}]
  <2>1. AnyFirst(g, w, S)
    BY <1>1, AddsAny
  <2> QED
    BY <2>1 DEF AnyFirst
<1>5. g[S \ {y}] = h[S \ {y}]
  BY <1>1, <1>3, SumOfSubset
<1> QED
  BY <1>1, <1>3, <1>4, <1>5

LEMMA SumEmpty == ASSUME NEW w PROVE Sum(w, {}) = 0
<1>1. IsFiniteSet({}) /\ \A x \in {} : w[x] \in Int
  BY FS_EmptySet
<1>2. PICK g \in [SUBSET {} -> Int] : Adds(g, w, {}) /\ Sum(w, {}) = g[{}]
  BY <1>1, SumAdds
<1> QED
  BY <1>2 DEF Adds

\* It depends on the sizes of the members only.
LEMMA SumKept ==
  ASSUME NEW S, NEW w, NEW v, \A x \in S : w[x] = v[x]
  PROVE  Sum(w, S) = Sum(v, S)
<1>1. ASSUME NEW g PROVE Adds(g, w, S) <=> Adds(g, v, S)
  <2>1. \A s \in SUBSET S : s # {} => w[Picked(s)] = v[Picked(s)]
    BY DEF Picked
  <2> QED
    BY <2>1 DEF Adds
<1> QED
  BY <1>1 DEF Sum

\* Bytes is such a sum.
LEMMA BytesSum ==
  ASSUME NEW m, NEW S \in SUBSET CudaPtr
  PROVE  Bytes(m, S) = Sum([p \in CudaPtr |-> m.blocks[p].byte_size], S)
<1> DEFINE w == [p \in CudaPtr |-> m.blocks[p].byte_size]
<1>1. ASSUME NEW g
      PROVE  Adds(g, w, S) <=>
       (g = [s \in SUBSET S |-> IF s = {} THEN 0
                          ELSE m.blocks[CHOOSE x \in s : TRUE].byte_size + g[s \ {CHOOSE x \in s : TRUE}]])
  <2>1. \A s \in SUBSET S : s # {} => w[CHOOSE x \in s : TRUE] = m.blocks[CHOOSE x \in s : TRUE].byte_size
    OBVIOUS
  <2> QED
    BY <2>1 DEF Adds, Picked
<1>2. Bytes(m, S) = (CHOOSE g : g = [s \in SUBSET S |-> IF s = {} THEN 0
                          ELSE m.blocks[CHOOSE x \in s : TRUE].byte_size + g[s \ {CHOOSE x \in s : TRUE}]])[S]
  BY DEF Bytes, MapThenSumSet, MapThenFoldSet
<1> QED
  BY <1>1, <1>2 DEF Sum

LEMMA BytesKept ==
  ASSUME NEW m, NEW mm, NEW S \in SUBSET CudaPtr,
         \A p \in S : mm.blocks[p].byte_size = m.blocks[p].byte_size
  PROVE  Bytes(mm, S) = Bytes(m, S)
<1> DEFINE w == [p \in CudaPtr |-> m.blocks[p].byte_size]
           v == [p \in CudaPtr |-> mm.blocks[p].byte_size]
<1>1. \A p \in S : w[p] = v[p]
  OBVIOUS
<1> HIDE DEF w, v
<1>2. Sum(w, S) = Sum(v, S)
  BY <1>1, SumKept
<1> QED
  BY <1>2, BytesSum DEF w, v

LEMMA BytesWithout ==
  ASSUME NEW m, m \in Memory, NEW S \in SUBSET CudaPtr, IsFiniteSet(S), NEW p \in S
  PROVE  /\ Bytes(m, S) = m.blocks[p].byte_size + Bytes(m, S \ {p})
         /\ Bytes(m, S \ {p}) \in Int
<1> DEFINE w == [q \in CudaPtr |-> m.blocks[q].byte_size]
<1>1. (\A q \in S : w[q] \in Int) /\ w[p] = m.blocks[p].byte_size
  BY DEF Memory, Block
<1>2. Bytes(m, S) = Sum(w, S) /\ Bytes(m, S \ {p}) = Sum(w, S \ {p})
  BY BytesSum
<1> HIDE DEF w
<1>3. Sum(w, S) = w[p] + Sum(w, S \ {p}) /\ Sum(w, S \ {p}) \in Int
  BY <1>1, SumStep
<1> QED
  BY <1>1, <1>2, <1>3

LEMMA BytesNone == ASSUME NEW m PROVE Bytes(m, {}) = 0
BY BytesSum, SumEmpty

\* no_busy_cnt_ is the idle small memory, of which there is a finite number of blocks.
Counted(m) == IsFiniteSet(IdleSmall(m)) /\ m.no_busy_cnt = Bytes(m, IdleSmall(m))

\* The same blocks are idle, with their sizes.
LEMMA CountKept ==
  ASSUME NEW m, Counted(m), NEW mm, mm.no_busy_cnt = m.no_busy_cnt,
         IdleSmall(mm) = IdleSmall(m),
         \A p \in IdleSmall(m) : mm.blocks[p].byte_size = m.blocks[p].byte_size
  PROVE  Counted(mm)
<1>1. IdleSmall(m) \in SUBSET CudaPtr
  BY DEF IdleSmall
<1>2. Bytes(mm, IdleSmall(m)) = Bytes(m, IdleSmall(m))
  BY <1>1, BytesKept
<1> QED
  BY <1>2 DEF Counted

\* One block less, or one more.
LEMMA CountMoved ==
  ASSUME NEW m, m \in Memory, NEW mm, mm \in Memory, NEW p \in CudaPtr,
         \A q \in CudaPtr : mm.blocks[q].byte_size = m.blocks[q].byte_size,
         p \in IdleSmall(m), IdleSmall(mm) = IdleSmall(m) \ {p},
         m.no_busy_cnt = mm.no_busy_cnt + m.blocks[p].byte_size
  PROVE  Counted(m) <=> Counted(mm)
<1>1. IdleSmall(m) \in SUBSET CudaPtr /\ IdleSmall(m) = IdleSmall(mm) \cup {p}
  BY DEF IdleSmall
<1>2. IsFiniteSet(IdleSmall(m)) <=> IsFiniteSet(IdleSmall(mm))
  BY <1>1, FS_AddElement, FS_RemoveElement
<1>3. Bytes(mm, IdleSmall(mm)) = Bytes(m, IdleSmall(mm))
  BY <1>1, BytesKept
<1>4. ASSUME IsFiniteSet(IdleSmall(m))
      PROVE  /\ Bytes(m, IdleSmall(m)) = m.blocks[p].byte_size + Bytes(m, IdleSmall(mm))
             /\ Bytes(m, IdleSmall(mm)) \in Int
  BY <1>1, <1>4, BytesWithout
<1>5. m.no_busy_cnt \in Int /\ mm.no_busy_cnt \in Int /\ m.blocks[p].byte_size \in Int
  BY DEF Memory, Block
<1>6. CASE IsFiniteSet(IdleSmall(m))
  <2> DEFINE a == Bytes(m, IdleSmall(m))
             b == Bytes(m, IdleSmall(mm))
             c == m.no_busy_cnt
             d == mm.no_busy_cnt
             e == m.blocks[p].byte_size
  <2>1. a = e + b /\ b \in Int
    BY <1>4, <1>6
  <2>2. c \in Int /\ d \in Int /\ e \in Int /\ c = d + e /\ a = e + b /\ b \in Int
    BY <1>5, <2>1
  <2> HIDE DEF a, b, c, d, e
  <2>3. c = a <=> d = b
    BY <2>2
  <2> QED
    BY <1>2, <1>3, <1>6, <2>3 DEF Counted, a, b, c, d
<1> QED
  BY <1>2, <1>6 DEF Counted

LEMMA CountUntouched ==
  ASSUME NEW m, Counted(m), NEW mm, mm.blocks = m.blocks, mm.no_busy_cnt = m.no_busy_cnt
  PROVE  Counted(mm)
BY CountKept DEF IdleSmall

LEMMA CountNone ==
  ASSUME NEW m, IdleSmall(m) = {}, m.no_busy_cnt = 0
  PROVE  Counted(m)
BY BytesNone, FS_EmptySet DEF Counted

----------------------------------------------------------------------------
(* What holds between the parts of an operation *)

\* Blocks of the GPU that are in use are listed, and small ones are small.
BlocksListed(m) ==
  \A p \in CudaPtr : /\ m.blocks[p].busy => m.blocks[p].list # "none"
                     /\ m.blocks[p].list = "small" => m.blocks[p].byte_size <= MB

Sound(m) == /\ m \in Memory
            /\ BlocksListed(m)
            /\ ~m.corrupt
            /\ m.no_busy_cnt <= TrimLimit + MB
            /\ Counted(m)

PtrOf(device) == IF device = "cuda" THEN CudaPtr ELSE CpuPtr

\* p is a block of the device in use in m that serves a request of n.
Serves(m, device, n, p) ==
  IF device = "cuda"
  THEN /\ p \in CudaPtr /\ m.blocks[p].busy /\ m.blocks[p].byte_size >= n
       /\ m.blocks[p].list = "big" => m.blocks[p].byte_size - n < MB
  ELSE p \in m.heap

\* What is in use in m keeps its block in mm.
Keeps(m, mm, S) ==
  /\ \A p \in CudaPtr \cap S : mm.blocks[p] = m.blocks[p]
  /\ m.heap \cap S \subseteq mm.heap

Inventory(bs) == {b \in Buffers : bs[b].allocator # "none" /\ bs[b].ptr # Null}

Stock(bs) == {bs[b].ptr : b \in Inventory(bs)}

Housed(m, c) == /\ ~c.use_external /\ c.device_type = c.allocator
                /\ Serves(m, c.allocator, c.byte_size, c.ptr)

Good(m, bs, X) ==
  /\ Sound(m)
  /\ bs \in [Buffers -> Contents]
  /\ \A b \in Inventory(bs) : Housed(m, bs[b])
  /\ \A b, c \in Inventory(bs) : bs[b].ptr = bs[c].ptr => b = c
  /\ InUse(m) = Stock(bs) \cup m.lost \cup X
  /\ Stock(bs) \cap m.lost = {} /\ Stock(bs) \cap X = {} /\ m.lost \cap X = {}

Sharing ==
  /\ tensor \in [Tensors -> [size : Nat, buf : Buffers \cup {NoBuffer}]]
  /\ \A b \in Buffers : b \notin Named => buffer[b] = NoContents

IndInv == Good(memory, buffer, {}) /\ Sharing /\ TensorFits

----------------------------------------------------------------------------
(* The allocators *)

\* A new block from the driver.
LEMMA CudaMallocSound ==
  ASSUME NEW m, Sound(m), NEW n \in Nat, NEW list \in {"small", "big"},
         list = "small" => n <= MB, NEW r \in CudaMalloc(m, list, n)
  PROVE  /\ Sound(r.mem) /\ r.mem.lost = m.lost
         /\ r.ptr = Null => InUse(r.mem) = InUse(m)
         /\ r.ptr # Null => /\ r.ptr \notin InUse(m) /\ InUse(r.mem) = InUse(m) \cup {r.ptr}
                            /\ Serves(r.mem, "cuda", n, r.ptr)
         /\ r.ptr \in CudaPtr \cup {Null}
         /\ Keeps(m, r.mem, InUse(m))
<1>1. CASE r = [mem |-> m, ptr |-> Null]
  BY <1>1, PtrAssumption DEF Keeps
<1>2. ASSUME NEW p \in CudaPtr, m.blocks[p].list = "none",
             r = [mem |-> [m EXCEPT !.blocks[p] =
                             [list |-> list, byte_size |-> n, busy |-> TRUE]], ptr |-> p]
      PROVE  /\ Sound(r.mem) /\ r.mem.lost = m.lost
             /\ r.ptr # Null /\ r.ptr \notin InUse(m) /\ InUse(r.mem) = InUse(m) \cup {r.ptr}
             /\ Serves(r.mem, "cuda", n, r.ptr)
             /\ r.ptr \in CudaPtr /\ Keeps(m, r.mem, InUse(m))
  <2> DEFINE mm == r.mem
  <2>1. /\ m \in Memory /\ r.ptr = p /\ mm = [m EXCEPT !.blocks[p] =
                             [list |-> list, byte_size |-> n, busy |-> TRUE]]
    BY <1>2 DEF Sound
  <2>2. mm \in Memory
    <3>1. PICK B : B = [m.blocks EXCEPT ![p] = [list |-> list, byte_size |-> n, busy |-> TRUE]]
      OBVIOUS
    <3>2. B \in [CudaPtr -> Block]
      BY <2>1, <3>1 DEF Memory, Block
    <3>3. mm = [m EXCEPT !.blocks = B]
      BY <2>1, <3>1
    <3> QED
      BY <2>1, <3>2, <3>3 DEF Memory
  <2>3. /\ \A q \in CudaPtr : q # p => mm.blocks[q] = m.blocks[q]
        /\ mm.blocks[p] = [list |-> list, byte_size |-> n, busy |-> TRUE]
        /\ mm.heap = m.heap /\ mm.lost = m.lost /\ mm.corrupt = m.corrupt
        /\ mm.no_busy_cnt = m.no_busy_cnt
    BY <2>1 DEF Memory
  <2>4. ~m.blocks[p].busy
    BY <1>2 DEF Sound, BlocksListed
  <2>5. BlocksListed(mm)
    BY <2>3 DEF Sound, BlocksListed
  <2>6. Sound(mm)
    <3>1. p \notin IdleSmall(m) /\ IdleSmall(mm) = IdleSmall(m)
      <4>1. p \notin IdleSmall(m) /\ p \notin IdleSmall(mm)
        BY <1>2, <2>3 DEF IdleSmall
      <4>2. \A q \in CudaPtr : q # p => (q \in IdleSmall(mm) <=> q \in IdleSmall(m))
        BY <2>3 DEF IdleSmall
      <4> QED
        BY <4>1, <4>2 DEF IdleSmall
    <3>2. \A q \in IdleSmall(m) : mm.blocks[q].byte_size = m.blocks[q].byte_size
      BY <2>3, <3>1 DEF IdleSmall
    <3>3. Counted(mm)
      BY <2>3, <3>1, <3>2, CountKept DEF Sound
    <3> QED
      BY <2>2, <2>3, <2>5, <3>3 DEF Sound
  <2>7. p \notin InUse(m) /\ InUse(mm) = InUse(m) \cup {p}
    BY <2>1, <2>3, <2>4, PtrAssumption DEF InUse, Memory
  <2>8. Serves(mm, "cuda", n, p)
    BY <2>3, LimitAssumption DEF Serves
  <2>9. Keeps(m, mm, InUse(m))
    BY <2>3, <2>7 DEF Keeps
  <2> QED
    BY <2>1, <2>3, <2>6, <2>7, <2>8, <2>9, PtrAssumption
<1> QED
  BY <1>1, <1>2 DEF CudaMalloc

\* An idle block of either list, and the counter lowered by its size or kept.
LEMMA TakeSound ==
  ASSUME NEW m, Sound(m), NEW n \in Nat, NEW p \in CudaPtr,
         ~m.blocks[p].busy, m.blocks[p].list # "none", m.blocks[p].byte_size >= n,
         m.blocks[p].list = "big" => m.blocks[p].byte_size - n < MB,
         NEW mm, mm = IF m.blocks[p].list = "small" THEN TakeSmall(m, p) ELSE TakeBig(m, p)
  PROVE  /\ Sound(mm) /\ mm.lost = m.lost
         /\ p \notin InUse(m) /\ InUse(mm) = InUse(m) \cup {p}
         /\ Serves(mm, "cuda", n, p) /\ Keeps(m, mm, InUse(m))
<1>1. PICK B : B = [m.blocks EXCEPT ![p].busy = TRUE]
  OBVIOUS
<1>2. PICK k : /\ mm = [m EXCEPT !.blocks = B, !.no_busy_cnt = k] /\ k \in Int
               /\ k <= m.no_busy_cnt
               /\ k = IF m.blocks[p].list = "small" THEN m.no_busy_cnt - m.blocks[p].byte_size
                                                    ELSE m.no_busy_cnt
  <2>1. CASE m.blocks[p].list = "small"
    <3>1. m.no_busy_cnt - m.blocks[p].byte_size \in Int
          /\ m.no_busy_cnt - m.blocks[p].byte_size <= m.no_busy_cnt
      BY DEF Sound, Memory, Block
    <3>2. mm = [m EXCEPT !.blocks = B, !.no_busy_cnt = m.no_busy_cnt - m.blocks[p].byte_size]
      BY <1>1, <2>1 DEF TakeSmall, Sound, Memory
    <3> QED
      BY <2>1, <3>1, <3>2
  <2>2. CASE m.blocks[p].list # "small"
    <3>1. m.no_busy_cnt \in Int /\ m.no_busy_cnt <= m.no_busy_cnt
      BY DEF Sound, Memory
    <3>2. mm = [m EXCEPT !.blocks = B, !.no_busy_cnt = m.no_busy_cnt]
      BY <1>1, <2>2 DEF TakeBig, Sound, Memory
    <3> QED
      BY <2>2, <3>1, <3>2
  <2> QED
    BY <2>1, <2>2
<1>3. /\ B \in [CudaPtr -> Block]
      /\ \A q \in CudaPtr : q # p => B[q] = m.blocks[q]
      /\ B[p].busy /\ B[p].list = m.blocks[p].list /\ B[p].byte_size = m.blocks[p].byte_size
  BY <1>1 DEF Sound, Memory, Block
<1>4. /\ mm \in Memory /\ mm.blocks = B /\ mm.no_busy_cnt = k
      /\ mm.heap = m.heap /\ mm.lost = m.lost /\ mm.corrupt = m.corrupt
  BY <1>2, <1>3 DEF Sound, Memory
<1>5. Sound(mm)
  <2>1. BlocksListed(mm)
    BY <1>3, <1>4 DEF Sound, BlocksListed
  <2>2. k <= TrimLimit + MB
    BY <1>2, LimitAssumption DEF Sound, Memory
  <2>3. \A q \in CudaPtr : B[q].byte_size = m.blocks[q].byte_size
    BY <1>3
  <2>4. Counted(mm)
    <3>1. CASE m.blocks[p].list = "small"
      <4>1. p \in IdleSmall(m) /\ IdleSmall(mm) = IdleSmall(m) \ {p}
        BY <1>3, <1>4, <3>1 DEF IdleSmall
      <4>2. m.no_busy_cnt = mm.no_busy_cnt + m.blocks[p].byte_size
        BY <1>2, <1>4, <3>1 DEF Sound, Memory, Block
      <4> QED
        BY <1>4, <2>3, <4>1, <4>2, CountMoved DEF Sound
    <3>2. CASE m.blocks[p].list # "small"
      <4>1. IdleSmall(mm) = IdleSmall(m)
        BY <1>3, <1>4, <3>2 DEF IdleSmall
      <4>2. \A q \in IdleSmall(m) : mm.blocks[q].byte_size = m.blocks[q].byte_size
        BY <1>4, <2>3 DEF IdleSmall
      <4> QED
        <5>1. mm.no_busy_cnt = m.no_busy_cnt /\ Counted(m)
          BY <1>2, <1>4, <3>2 DEF Sound
        <5> QED
          BY <4>1, <4>2, <5>1, CountKept
    <3> QED
      BY <3>1, <3>2
  <2> QED
    BY <1>4, <2>1, <2>2, <2>4 DEF Sound
<1>6. p \notin InUse(m) /\ InUse(mm) = InUse(m) \cup {p}
  BY <1>3, <1>4, PtrAssumption DEF InUse, Sound, Memory
<1>7. Serves(mm, "cuda", n, p)
  BY <1>3, <1>4 DEF Serves
<1>8. Keeps(m, mm, InUse(m))
  BY <1>3, <1>4, <1>6 DEF Keeps
<1> QED
  BY <1>4, <1>5, <1>6, <1>7, <1>8

\* allocate of either device: null and nothing changed, or a block that was not in
\* use and serves the request; all other blocks in use stay as they are.
Served(m, device, n, r) ==
  /\ Sound(r.mem) /\ r.mem.lost = m.lost
  /\ r.ptr = Null => InUse(r.mem) = InUse(m)
  /\ r.ptr # Null => /\ r.ptr \notin InUse(m) /\ InUse(r.mem) = InUse(m) \cup {r.ptr}
                     /\ Serves(r.mem, device, n, r.ptr)
  /\ r.ptr \in CudaPtr \cup CpuPtr \cup {Null}
  /\ Keeps(m, r.mem, InUse(m))

LEMMA CudaAllocateServed ==
  ASSUME NEW m, Sound(m), NEW n \in Nat, NEW r \in CudaAllocate(m, n)
  PROVE  Served(m, "cuda", n, r)
<1>1. CASE n > MB
  <2>1. r \in CudaAllocateBig(m, n)
    BY <1>1 DEF CudaAllocate
  <2>2. CASE BigFits(m, n) # {}
    <3>1. PICK p \in BestBigFits(m, n) : r = [mem |-> TakeBig(m, p), ptr |-> p]
      BY <2>1, <2>2 DEF CudaAllocateBig
    <3>2. /\ p \in CudaPtr /\ m.blocks[p].list = "big" /\ ~m.blocks[p].busy
          /\ m.blocks[p].byte_size >= n /\ m.blocks[p].byte_size - n < MB
      BY DEF BestBigFits, BigFits
    <3>3. p # Null /\ r.mem = TakeBig(m, p) /\ r.ptr = p
      BY <3>1, <3>2, PtrAssumption
    <3>4. /\ Sound(r.mem) /\ r.mem.lost = m.lost
          /\ p \notin InUse(m) /\ InUse(r.mem) = InUse(m) \cup {p}
          /\ Serves(r.mem, "cuda", n, p) /\ Keeps(m, r.mem, InUse(m))
      BY <3>2, <3>3, TakeSound
    <3> QED
      BY <3>2, <3>3, <3>4 DEF Served
  <2>3. CASE BigFits(m, n) = {}
    <3>1. r \in CudaMalloc(m, "big", n)
      BY <2>1, <2>3 DEF CudaAllocateBig
    <3> QED
      BY <3>1, CudaMallocSound DEF Served
  <2> QED
    BY <2>2, <2>3
<1>2. CASE ~(n > MB)
  <2> DEFINE seen == [m EXCEPT !.has_small = TRUE]
  <2>1. /\ r \in CudaAllocateSmall(m, n)
        /\ seen \in Memory /\ seen.blocks = m.blocks /\ seen.heap = m.heap
        /\ seen.lost = m.lost /\ seen.corrupt = m.corrupt /\ seen.no_busy_cnt = m.no_busy_cnt
    BY <1>2 DEF CudaAllocate, Sound, Memory
  <2>2. Sound(seen) /\ InUse(seen) = InUse(m)
    BY <2>1, CountUntouched DEF Sound, BlocksListed, InUse
  <2>3. \A x : Keeps(seen, x, InUse(m)) => Keeps(m, x, InUse(m))
    BY <2>1 DEF Keeps
  <2> HIDE DEF seen
  <2>4. CASE SmallFits(m, n) # {}
    <3>1. PICK p \in SmallFits(m, n) : r = [mem |-> TakeSmall(seen, p), ptr |-> p]
      BY <2>1, <2>4 DEF CudaAllocateSmall, seen
    <3>2. /\ p \in CudaPtr /\ seen.blocks[p].list = "small" /\ ~seen.blocks[p].busy
          /\ seen.blocks[p].byte_size >= n
      BY <2>1 DEF SmallFits, IdleSmall
    <3>3. p # Null /\ r.mem = TakeSmall(seen, p) /\ r.ptr = p
      BY <3>1, <3>2, PtrAssumption
    <3>4. /\ Sound(r.mem) /\ r.mem.lost = seen.lost
          /\ p \notin InUse(seen) /\ InUse(r.mem) = InUse(seen) \cup {p}
          /\ Serves(r.mem, "cuda", n, p) /\ Keeps(seen, r.mem, InUse(seen))
      BY <2>2, <3>2, <3>3, TakeSound
    <3> QED
      BY <2>1, <2>2, <2>3, <3>2, <3>3, <3>4 DEF Served
  <2>5. CASE SmallFits(m, n) = {}
    <3>1. r \in CudaMalloc(seen, "small", n) /\ n <= MB
      BY <1>2, <2>1, <2>5, LimitAssumption DEF CudaAllocateSmall, seen
    <3>2. Served(seen, "cuda", n, r)
      BY <2>2, <3>1, CudaMallocSound DEF Served
    <3> QED
      BY <2>1, <2>2, <2>3, <3>2 DEF Served
  <2> QED
    BY <2>4, <2>5
<1> QED
  BY <1>1, <1>2

LEMMA CpuAllocateServed ==
  ASSUME NEW m, Sound(m), NEW n \in Nat, NEW r \in CpuAllocate(m, n)
  PROVE  Served(m, "cpu", n, r)
<1>1. CASE r = [mem |-> m, ptr |-> Null]
  BY <1>1 DEF Served, Keeps
<1>2. ASSUME NEW p \in CpuPtr \ m.heap,
             r = [mem |-> [m EXCEPT !.heap = @ \cup {p}], ptr |-> p]
      PROVE  Served(m, "cpu", n, r)
  <2>1. /\ r.ptr = p /\ r.mem \in Memory /\ r.mem.heap = m.heap \cup {p}
        /\ r.mem.blocks = m.blocks /\ r.mem.no_busy_cnt = m.no_busy_cnt
        /\ r.mem.lost = m.lost /\ r.mem.corrupt = m.corrupt
    BY <1>2 DEF Sound, Memory
  <2>2. Sound(r.mem) /\ Keeps(m, r.mem, InUse(m))
    BY <2>1, CountUntouched DEF Sound, BlocksListed, Keeps
  <2>3. p \notin InUse(m) /\ InUse(r.mem) = InUse(m) \cup {p} /\ p # Null
    BY <2>1, PtrAssumption DEF InUse
  <2> QED
    BY <2>1, <2>2, <2>3 DEF Served, Serves
<1> QED
  BY <1>1, <1>2 DEF CpuAllocate

LEMMA AllocateServed ==
  ASSUME NEW m, Sound(m), NEW device \in Device, NEW n \in Nat, NEW r \in Allocate(m, device, n)
  PROVE  Served(m, device, n, r)
BY CudaAllocateServed, CpuAllocateServed DEF Allocate, Device

\* The collection frees idle blocks only and leaves the counter within the limit.
LEMMA TrimSound ==
  ASSUME NEW m, Sound(m)
  PROVE  LET mm == Trim(m)
         IN /\ Sound(mm) /\ mm.no_busy_cnt <= TrimLimit /\ InUse(mm) = InUse(m)
            /\ mm.lost = m.lost /\ mm.heap = m.heap /\ mm.has_small = m.has_small
            /\ Keeps(m, mm, InUse(m))
<1> DEFINE mm == Trim(m)
<1>1. CASE m.no_busy_cnt > TrimLimit
  <2>1. PICK B : B = [p \in CudaPtr |-> IF p \in IdleSmall(m) THEN Unlisted ELSE m.blocks[p]]
    OBVIOUS
  <2>2. mm = [m EXCEPT !.blocks = B, !.no_busy_cnt = 0]
    BY <1>1, <2>1 DEF Trim, Sound, Memory
  <2>3. /\ B \in [CudaPtr -> Block]
        /\ \A p \in CudaPtr : B[p] = IF p \in IdleSmall(m) THEN Unlisted ELSE m.blocks[p]
    BY <2>1 DEF Sound, Memory, Block, Unlisted
  <2>4. /\ mm \in Memory /\ mm.blocks = B /\ mm.no_busy_cnt = 0 /\ mm.heap = m.heap
        /\ mm.lost = m.lost /\ mm.corrupt = m.corrupt /\ mm.has_small = m.has_small
    <3> HIDE DEF mm
    <3>1. m \in Memory /\ 0 \in Int
      BY DEF Sound
    <3>2. mm \in Memory
      BY <2>2, <2>3, <3>1 DEF Memory
    <3> QED
      BY <2>2, <3>1, <3>2 DEF Memory
  <2>5. \A p \in CudaPtr : B[p].busy <=> m.blocks[p].busy
    BY <2>3 DEF IdleSmall, Unlisted, Sound, Memory, Block
  <2>6. \A p \in CudaPtr : m.blocks[p].busy => B[p] = m.blocks[p]
    BY <2>3 DEF IdleSmall
  <2>7. InUse(mm) = InUse(m)
    BY <2>4, <2>5 DEF InUse
  <2>8. BlocksListed(mm)
    BY <2>3, <2>4, <2>5 DEF Sound, BlocksListed, Unlisted
  <2>9. Sound(mm) /\ mm.no_busy_cnt <= TrimLimit
    <3>1. IdleSmall(mm) = {}
      BY <2>3, <2>4 DEF IdleSmall, Unlisted
    <3>2. Counted(mm)
      BY <2>4, <3>1, CountNone
    <3> QED
      BY <2>4, <2>8, <3>2, LimitAssumption DEF Sound
  <2>10. Keeps(m, mm, InUse(m))
    BY <2>4, <2>6, PtrAssumption DEF Keeps, InUse, Sound, Memory
  <2> QED
    BY <2>4, <2>7, <2>9, <2>10
<1>2. CASE ~(m.no_busy_cnt > TrimLimit)
  BY <1>2, LimitAssumption DEF Trim, Sound, Memory, Keeps
<1> QED
  BY <1>1, <1>2

\* release of a block in use: it is in use no more, or lost.
Returned(m, p, mm) ==
  /\ Sound(mm)
  /\ \/ InUse(mm) = InUse(m) \ {p} /\ mm.lost = m.lost
     \/ InUse(mm) = InUse(m) /\ mm.lost = m.lost \cup {p}
  /\ Keeps(m, mm, InUse(m) \ {p})

LEMMA ReleaseListedReturned ==
  ASSUME NEW m, Sound(m), m.no_busy_cnt <= TrimLimit, NEW p \in CudaPtr, m.blocks[p].busy
  PROVE  Returned(m, p, ReleaseListed(m, p))
<1> DEFINE mm == ReleaseListed(m, p)
<1>1. PICK B : B = [m.blocks EXCEPT ![p].busy = FALSE]
  OBVIOUS
<1>2. m.blocks[p].list \in {"small", "big"}
  BY DEF Sound, BlocksListed, Memory, Block
<1>3. PICK k \in Int : /\ mm = [m EXCEPT !.blocks = B, !.no_busy_cnt = k]
                       /\ k <= TrimLimit + MB
                       /\ k = IF m.blocks[p].list = "small"
                             THEN m.no_busy_cnt + m.blocks[p].byte_size ELSE m.no_busy_cnt
  <2>1. CASE m.blocks[p].list = "small"
    <3>1. /\ m.no_busy_cnt + m.blocks[p].byte_size \in Int
          /\ m.no_busy_cnt + m.blocks[p].byte_size <= TrimLimit + MB
      BY <2>1, LimitAssumption DEF Sound, BlocksListed, Memory, Block
    <3>2. mm = [m EXCEPT !.blocks = B, !.no_busy_cnt = m.no_busy_cnt + m.blocks[p].byte_size]
      BY <1>1, <2>1 DEF ReleaseListed, Sound, Memory
    <3> QED
      BY <2>1, <3>1, <3>2
  <2>2. CASE m.blocks[p].list = "big"
    <3>1. m.no_busy_cnt \in Int /\ m.no_busy_cnt <= TrimLimit + MB
      BY DEF Sound, Memory
    <3>2. mm = [m EXCEPT !.blocks = B, !.no_busy_cnt = m.no_busy_cnt]
      BY <1>1, <2>2 DEF ReleaseListed, Sound, Memory
    <3> QED
      BY <2>2, <3>1, <3>2
  <2> QED
    BY <1>2, <2>1, <2>2
<1>4. /\ B \in [CudaPtr -> Block]
      /\ \A q \in CudaPtr : q # p => B[q] = m.blocks[q]
      /\ ~B[p].busy /\ B[p].list = m.blocks[p].list /\ B[p].byte_size = m.blocks[p].byte_size
  BY <1>1 DEF Sound, Memory, Block
<1>5. /\ mm \in Memory /\ mm.blocks = B /\ mm.no_busy_cnt = k
      /\ mm.heap = m.heap /\ mm.lost = m.lost /\ mm.corrupt = m.corrupt
  BY <1>3, <1>4 DEF Sound, Memory
<1>6. Sound(mm)
  <2>1. BlocksListed(mm)
    BY <1>4, <1>5 DEF Sound, BlocksListed
  <2>2. \A q \in CudaPtr : B[q].byte_size = m.blocks[q].byte_size
    BY <1>4
  <2>3. Counted(mm)
    <3>1. CASE m.blocks[p].list = "small"
      <4>1. p \in IdleSmall(mm) /\ IdleSmall(m) = IdleSmall(mm) \ {p}
        BY <1>4, <1>5, <3>1 DEF IdleSmall
      <4>2. mm.no_busy_cnt = m.no_busy_cnt + mm.blocks[p].byte_size
        BY <1>3, <1>4, <1>5, <3>1
      <4> QED
        BY <1>5, <2>2, <4>1, <4>2, CountMoved DEF Sound
    <3>2. CASE m.blocks[p].list # "small"
      <4>1. IdleSmall(mm) = IdleSmall(m)
        BY <1>4, <1>5, <3>2 DEF IdleSmall
      <4>2. \A q \in IdleSmall(m) : mm.blocks[q].byte_size = m.blocks[q].byte_size
        BY <1>5, <2>2 DEF IdleSmall
      <4> QED
        BY <1>3, <1>5, <3>2, <4>1, <4>2, CountKept DEF Sound
    <3> QED
      BY <3>1, <3>2
  <2> QED
    BY <1>3, <1>5, <2>1, <2>3 DEF Sound
<1>7. InUse(mm) = InUse(m) \ {p}
  BY <1>4, <1>5, PtrAssumption DEF InUse, Sound, Memory
<1>8. Keeps(m, mm, InUse(m) \ {p})
  BY <1>4, <1>5 DEF Keeps
<1> QED
  BY <1>5, <1>6, <1>7, <1>8 DEF Returned

LEMMA CudaReleaseReturned ==
  ASSUME NEW m, Sound(m), NEW p \in CudaPtr, m.blocks[p].busy
  PROVE  Returned(m, p, CudaRelease(m, p))
<1>1. CASE m.has_small
  <2> DEFINE tt == Trim(m)
  <2>1. /\ Sound(tt) /\ tt.no_busy_cnt <= TrimLimit /\ InUse(tt) = InUse(m)
        /\ tt.lost = m.lost /\ Keeps(m, tt, InUse(m))
    BY TrimSound
  <2>2. tt.blocks[p].busy
    BY <2>1 DEF InUse, Keeps
  <2> HIDE DEF tt
  <2>3. Returned(tt, p, ReleaseListed(tt, p))
    BY <2>1, <2>2, ReleaseListedReturned
  <2>4. \A mm : Keeps(tt, mm, InUse(tt) \ {p}) => Keeps(m, mm, InUse(m) \ {p})
    BY <2>1 DEF Keeps
  <2>5. Returned(m, p, ReleaseListed(tt, p))
    BY <2>1, <2>3, <2>4 DEF Returned
  <2> QED
    BY <1>1, <2>5 DEF CudaRelease, tt
<1>2. CASE ~m.has_small
  <2> DEFINE mm == [m EXCEPT !.lost = @ \cup {p}]
  <2>1. /\ mm \in Memory /\ mm.lost = m.lost \cup {p} /\ mm.blocks = m.blocks
        /\ mm.heap = m.heap /\ mm.corrupt = m.corrupt /\ mm.no_busy_cnt = m.no_busy_cnt
    BY DEF Sound, Memory
  <2>2. CudaRelease(m, p) = mm
    BY <1>2 DEF CudaRelease
  <2> HIDE DEF mm
  <2>3. Sound(mm) /\ InUse(mm) = InUse(m) /\ Keeps(m, mm, InUse(m) \ {p})
    BY <2>1, CountUntouched DEF Sound, BlocksListed, InUse, Keeps
  <2> QED
    BY <2>1, <2>2, <2>3 DEF Returned
<1> QED
  BY <1>1, <1>2

LEMMA CpuReleaseReturned ==
  ASSUME NEW m, Sound(m), NEW p \in m.heap
  PROVE  Returned(m, p, CpuRelease(m, p))
<1> DEFINE mm == CpuRelease(m, p)
<1>1. /\ mm \in Memory /\ mm.lost = m.lost /\ mm.blocks = m.blocks
      /\ mm.heap = m.heap \ {p} /\ mm.corrupt = m.corrupt /\ mm.no_busy_cnt = m.no_busy_cnt
  BY DEF Sound, Memory, CpuRelease
<1>2. p \in CpuPtr
  BY DEF Sound, Memory
<1> HIDE DEF mm
<1>3. Sound(mm) /\ Keeps(m, mm, InUse(m) \ {p})
  BY <1>1, CountUntouched DEF Sound, BlocksListed, Keeps
<1>4. InUse(mm) = InUse(m) \ {p}
  BY <1>1, <1>2, PtrAssumption DEF InUse
<1> QED
  BY <1>1, <1>3, <1>4 DEF Returned, mm

----------------------------------------------------------------------------
(* Buffers *)

\* Blocks that stay in use keep serving what they served.
LEMMA ServesKept ==
  ASSUME NEW m, NEW mm, NEW S, Keeps(m, mm, S), NEW device, NEW n, NEW p \in S,
         Serves(m, device, n, p)
  PROVE  Serves(mm, device, n, p)
BY DEF Keeps, Serves

\* An allocation on behalf of a Buffer still to come.
LEMMA AllocateGood ==
  ASSUME NEW m, NEW bs, NEW X, Good(m, bs, X),
         NEW device \in Device, NEW n \in Nat, NEW r \in Allocate(m, device, n)
  PROVE  /\ Good(r.mem, bs, X \cup ({r.ptr} \ {Null}))
         /\ r.ptr \in CudaPtr \cup CpuPtr \cup {Null} /\ r.ptr \notin X
         /\ r.ptr # Null => Serves(r.mem, device, n, r.ptr)
<1>1. Served(m, device, n, r)
  BY AllocateServed DEF Good
<1>2. InUse(r.mem) = InUse(m) \cup ({r.ptr} \ {Null}) /\ ({r.ptr} \ {Null}) \cap InUse(m) = {}
  BY <1>1 DEF Served
<1>3. \A b \in Inventory(bs) : Housed(r.mem, bs[b])
  <2> SUFFICES ASSUME NEW b \in Inventory(bs) PROVE Housed(r.mem, bs[b])
    OBVIOUS
  <2>1. bs[b].ptr \in InUse(m) /\ Housed(m, bs[b])
    BY DEF Good, Stock
  <2>2. Serves(r.mem, bs[b].allocator, bs[b].byte_size, bs[b].ptr)
    BY <1>1, <2>1, ServesKept DEF Served, Housed
  <2> QED
    BY <2>1, <2>2 DEF Housed
<1>4. Null \notin InUse(m)
  BY PtrAssumption DEF InUse, Good, Sound, Memory
<1>5. Good(r.mem, bs, X \cup ({r.ptr} \ {Null}))
  BY <1>1, <1>2, <1>3 DEF Good, Served
<1>6. r.ptr \notin X
  BY <1>1, <1>4 DEF Good, Served
<1> QED
  BY <1>1, <1>5, <1>6 DEF Served

\* Buffer::allocate overwrites a pointer nobody else has: its block is lost.
LEMMA OverwriteGood ==
  ASSUME NEW m, NEW bs, NEW X, Good(m, bs, X), NEW p \in X \cup {Null}
  PROVE  /\ Good(Overwrite(m, p), bs, X \ {p})
         /\ Overwrite(m, p).blocks = m.blocks /\ Overwrite(m, p).heap = m.heap
<1>1. CASE p = Null
  <2>1. Null \notin X
    BY PtrAssumption DEF Good, InUse, Sound, Memory
  <2> QED
    BY <1>1, <2>1 DEF Overwrite
<1>2. CASE p # Null
  <2> DEFINE mm == Overwrite(m, p)
  <2>1. p \in CudaPtr \cup CpuPtr
    BY <1>2 DEF Good, InUse, Sound, Memory
  <2>2. /\ mm \in Memory /\ mm.lost = m.lost \cup {p} /\ mm.blocks = m.blocks
        /\ mm.heap = m.heap /\ mm.corrupt = m.corrupt /\ mm.no_busy_cnt = m.no_busy_cnt
    BY <1>2, <2>1 DEF Overwrite, Good, Sound, Memory
  <2> HIDE DEF mm
  <2>3. Sound(mm) /\ InUse(mm) = InUse(m)
    BY <2>2, CountUntouched DEF Good, Sound, BlocksListed, InUse
  <2>4. \A b \in Inventory(bs) : Housed(mm, bs[b])
    BY <2>2 DEF Good, Housed, Serves
  <2>5. Good(mm, bs, X \ {p})
    BY <1>2, <2>2, <2>3, <2>4 DEF Good
  <2> QED
    BY <2>2, <2>5 DEF mm
<1> QED
  BY <1>1, <1>2

\* A new Buffer takes over the block that was allocated for it.
LEMMA OwnGood ==
  ASSUME NEW m, NEW bs, NEW p \in CudaPtr \cup CpuPtr \cup {Null}, Good(m, bs, {p} \ {Null}),
         NEW b \in Buffers, bs[b] = NoContents, NEW device \in Device, NEW n \in Nat,
         p # Null => Serves(m, device, n, p)
  PROVE  Good(m, [bs EXCEPT ![b] = Owning(n, device, p)], {})
<1> DEFINE c == Owning(n, device, p)
           cs == [bs EXCEPT ![b] = c]
<1>1. /\ c \in Contents /\ c.ptr = p /\ c.allocator = device /\ c.byte_size = n
      /\ ~c.use_external /\ c.device_type = device /\ device # "none"
  BY DEF Owning, Contents, Device
<1> HIDE DEF c
<1>2. /\ cs \in [Buffers -> Contents] /\ cs[b] = c
      /\ \A d \in Buffers : d # b => cs[d] = bs[d]
  BY <1>1 DEF Good
<1> HIDE DEF cs
<1>3. b \notin Inventory(bs)
  BY DEF Inventory, NoContents
<1>4. Inventory(cs) = Inventory(bs) \cup (IF p = Null THEN {} ELSE {b})
  BY <1>1, <1>2, <1>3 DEF Inventory
<1>5. Stock(cs) = Stock(bs) \cup ({p} \ {Null})
  <2>1. \A d \in Inventory(bs) : cs[d] = bs[d]
    BY <1>2, <1>3 DEF Inventory
  <2>2. CASE p = Null
    BY <1>4, <2>1, <2>2 DEF Stock
  <2>3. CASE p # Null
    BY <1>1, <1>2, <1>4, <2>1, <2>3 DEF Stock
  <2> QED
    BY <2>2, <2>3
<1>6. \A d \in Inventory(cs) : Housed(m, cs[d])
  BY <1>1, <1>2, <1>3, <1>4 DEF Good, Housed, Inventory
<1>7. \A d, e \in Inventory(cs) : cs[d].ptr = cs[e].ptr => d = e
  <2>1. p # Null => p \notin Stock(bs)
    BY DEF Good
  <2>2. \A d \in Inventory(bs) : cs[d] = bs[d] /\ bs[d].ptr \in Stock(bs)
    BY <1>2, <1>3 DEF Stock, Inventory
  <2>3. \A d, e \in Inventory(bs) : cs[d].ptr = cs[e].ptr => d = e
    BY <2>2 DEF Good
  <2> QED
    BY <1>1, <1>2, <1>4, <2>1, <2>2, <2>3
<1>8. Good(m, cs, {})
  <2>1. InUse(m) = Stock(cs) \cup m.lost \cup {}
    BY <1>5 DEF Good
  <2>2. Stock(cs) \cap m.lost = {}
    BY <1>5 DEF Good
  <2> QED
    BY <1>2, <1>6, <1>7, <2>1, <2>2 DEF Good
<1> QED
  BY <1>8 DEF cs, c

\* A new Buffer that owns nothing.
LEMMA ExternalGood ==
  ASSUME NEW m, NEW bs, Good(m, bs, {}), NEW b \in Buffers, bs[b] = NoContents,
         NEW c \in Contents, c.allocator = "none"
  PROVE  Good(m, [bs EXCEPT ![b] = c], {})
<1> DEFINE cs == [bs EXCEPT ![b] = c]
<1>1. /\ cs \in [Buffers -> Contents] /\ cs[b] = c
      /\ \A d \in Buffers : d # b => cs[d] = bs[d]
  BY DEF Good
<1> HIDE DEF cs
<1>2. b \notin Inventory(bs)
  BY DEF Inventory, NoContents
<1>3. Inventory(cs) = Inventory(bs) /\ \A d \in Inventory(bs) : cs[d] = bs[d]
  BY <1>1, <1>2 DEF Inventory
<1>4. Stock(cs) = Stock(bs)
  BY <1>3 DEF Stock
<1>5. Good(m, cs, {})
  BY <1>1, <1>3, <1>4 DEF Good
<1> QED
  BY <1>5 DEF cs

\* The destructor releases what the Buffer owns and nothing else.
LEMMA DestroyGood ==
  ASSUME NEW m, NEW bs, Good(m, bs, {}), NEW d \in Buffers
  PROVE  Good(Destroy(m, bs[d]), [bs EXCEPT ![d] = NoContents], {})
<1> DEFINE cs == [bs EXCEPT ![d] = NoContents]
           mm == Destroy(m, bs[d])
<1>1. NoContents \in Contents
  BY PtrAssumption DEF NoContents, Contents, Device
<1>2. /\ cs \in [Buffers -> Contents] /\ cs[d] = NoContents
      /\ \A b \in Buffers : b # d => cs[b] = bs[b]
  BY <1>1 DEF Good
<1> HIDE DEF cs
<1>3. Inventory(cs) = Inventory(bs) \ {d}
  BY <1>2 DEF Inventory, NoContents
<1>4. \A b, c \in Inventory(cs) : cs[b].ptr = cs[c].ptr => b = c
  <2>1. \A b \in Inventory(cs) : b \in Inventory(bs) /\ cs[b] = bs[b]
    BY <1>2, <1>3 DEF Inventory
  <2> QED
    BY <2>1 DEF Good
<1>5. CASE d \notin Inventory(bs)
  <2>1. mm = m
    BY <1>5 DEF Inventory, Destroy
  <2>2. Inventory(cs) = Inventory(bs) /\ \A b \in Inventory(bs) : cs[b] = bs[b]
    BY <1>2, <1>3, <1>5 DEF Inventory
  <2>3. Stock(cs) = Stock(bs)
    BY <2>2 DEF Stock
  <2> QED
    BY <1>2, <1>4, <2>1, <2>2, <2>3 DEF Good, cs
<1>6. CASE d \in Inventory(bs)
  <2> DEFINE p == bs[d].ptr
             device == bs[d].allocator
  <2>1. Housed(m, bs[d]) /\ bs[d] \in Contents /\ device # "none" /\ p # Null
    BY <1>6 DEF Good, Inventory
  <2>2. device \in Device /\ mm = Release(m, device, p)
    BY <2>1 DEF Destroy, Housed, Contents
  <2>3. Returned(m, p, mm)
    <3>1. CASE device = "cuda"
      <4>1. p \in CudaPtr /\ m.blocks[p].busy /\ mm = CudaRelease(m, p)
        BY <2>1, <2>2, <3>1 DEF Housed, Serves, Release
      <4> QED
        BY <4>1, CudaReleaseReturned DEF Good
    <3>2. CASE device = "cpu"
      <4>1. p \in m.heap /\ mm = CpuRelease(m, p)
        BY <2>1, <2>2, <3>2 DEF Housed, Serves, Release
      <4> QED
        BY <4>1, CpuReleaseReturned DEF Good
    <3> QED
      BY <2>2, <3>1, <3>2 DEF Device
  <2> HIDE DEF mm
  <2>4. Stock(cs) = Stock(bs) \ {p} /\ p \in Stock(bs)
    BY <1>2, <1>3, <1>6 DEF Stock, Inventory, Good
  <2>5. \A b \in Inventory(cs) : Housed(mm, cs[b])
    <3> SUFFICES ASSUME NEW b \in Inventory(cs) PROVE Housed(mm, cs[b])
      OBVIOUS
    <3>1. /\ b \in Inventory(bs) /\ cs[b] = bs[b] /\ Housed(m, bs[b])
          /\ bs[b].ptr \in InUse(m) /\ bs[b].ptr # p
      BY <1>2, <1>3, <1>6 DEF Good, Stock, Inventory
    <3>2. Serves(mm, bs[b].allocator, bs[b].byte_size, bs[b].ptr)
      BY <2>3, <3>1, ServesKept DEF Returned, Housed
    <3> QED
      BY <3>1, <3>2 DEF Housed
  <2>6. /\ Sound(mm) /\ InUse(mm) = Stock(cs) \cup mm.lost \cup {}
        /\ Stock(cs) \cap mm.lost = {}
    BY <2>3, <2>4 DEF Returned, Good
  <2>7. Good(mm, cs, {})
    BY <1>2, <1>4, <2>5, <2>6 DEF Good
  <2> QED
    BY <2>7 DEF cs, mm
<1> QED
  BY <1>5, <1>6

----------------------------------------------------------------------------
(* Tensors *)

\* Dropping the old Buffer of t after its new one has been built.
LEMMA Rebinding ==
  ASSUME IndInv, NEW t \in Tensors, NEW view \in [size : Nat, buf : Buffers \cup {NoBuffer}],
         NEW contents, NEW m, Good(m, contents, {}),
         \A b \in Named : contents[b] = buffer[b],
         \A b \in Buffers : b \notin Named \cup {view.buf} => contents[b] = NoContents,
         view.buf # NoBuffer => view.size <= contents[view.buf].byte_size,
         Rebind(t, view, contents, m)
  PROVE  IndInv'
<1> DEFINE old == tensor[t].buf
<1>1. /\ tensor' \in [Tensors -> [size : Nat, buf : Buffers \cup {NoBuffer}]]
      /\ tensor'[t] = view /\ \A u \in Tensors \ {t} : tensor'[u] = tensor[u]
  BY DEF Rebind, IndInv, Sharing
<1>2. /\ contents \in [Buffers -> Contents]
      /\ \A b \in Buffers : buffer'[b] = IF b \in Dropped(t, view) THEN NoContents ELSE contents[b]
  BY DEF Rebind, Good
<1>3. /\ old \in Buffers \cup {NoBuffer} /\ view.buf \in Buffers \cup {NoBuffer}
      /\ \A u \in Tensors : tensor[u].buf # NoBuffer => tensor[u].buf \in Named /\ tensor[u].buf \in Buffers
  BY DEF IndInv, Sharing, Named
<1>4. Good(memory, buffer, {})'
  <2>1. CASE Dropped(t, view) = {}
    <3>1. buffer' = contents /\ memory' = m
      BY <1>2, <2>1 DEF Rebind
    <3>2. Good(memory', buffer', {})
      BY <3>1
    <3> QED
      BY <3>2 DEF Good, Sound, BlocksListed, Inventory, Housed, Serves, InUse, Stock
  <2>2. CASE Dropped(t, view) # {}
    <3>1. Dropped(t, view) = {old} /\ old \in Named /\ old \in Buffers
      BY <1>3, <2>2 DEF Dropped
    <3>2. buffer' = [contents EXCEPT ![old] = NoContents]
      BY <1>2, <3>1 DEF Rebind
    <3>3. memory' = Destroy(m, contents[old])
      BY <2>2, <3>1 DEF Rebind
    <3>4. Good(memory', buffer', {})
      BY <3>1, <3>2, <3>3, DestroyGood
    <3> QED
      BY <3>4 DEF Good, Sound, BlocksListed, Inventory, Housed, Serves, InUse, Stock
  <2> QED
    BY <2>1, <2>2
<1>5. Sharing'
  <2>1. ASSUME NEW b \in Buffers, b \notin Named' PROVE buffer'[b] = NoContents
    <3>1. b # view.buf /\ \A u \in Tensors \ {t} : tensor[u].buf # b
      BY <1>1, <2>1, BufferAssumption DEF Named
    <3>2. CASE b = old
      <4>1. b \in Dropped(t, view)
        BY <3>1, <3>2, BufferAssumption DEF Dropped
      <4> QED
        BY <1>2, <4>1
    <3>3. CASE b # old
      <4>1. b \notin Named
        BY <3>1, <3>3 DEF Named
      <4>2. contents[b] = NoContents
        BY <3>1, <4>1
      <4> QED
        BY <1>2, <4>2
    <3> QED
      BY <3>2, <3>3
  <2> QED
    BY <1>1, <2>1 DEF Sharing
<1>6. TensorFits'
  <2> SUFFICES ASSUME NEW u \in Tensors, tensor'[u].buf # NoBuffer
               PROVE  tensor'[u].size <= buffer'[tensor'[u].buf].byte_size
    BY DEF TensorFits
  <2>1. CASE u = t
    BY <1>1, <1>2, <1>3, <2>1 DEF Dropped
  <2>2. CASE u # t
    <3>1. tensor'[u] = tensor[u] /\ tensor[u].buf \in Named /\ tensor[u].buf \in Buffers
      BY <1>1, <1>3, <2>2
    <3>2. buffer'[tensor[u].buf] = buffer[tensor[u].buf]
      BY <1>2, <2>2, <3>1 DEF Dropped
    <3> QED
      BY <3>1, <3>2 DEF IndInv, TensorFits
  <2> QED
    BY <2>1, <2>2
<1> QED
  BY <1>4, <1>5, <1>6 DEF IndInv

LEMMA BindingNew ==
  ASSUME IndInv, NEW t \in Tensors, NEW n \in Nat, NEW c \in Contents, n <= c.byte_size, NEW m,
         \A b \in Buffers : buffer[b] = NoContents => Good(m, [buffer EXCEPT ![b] = c], {}),
         BindNew(t, n, c, m)
  PROVE  IndInv'
<1>1. PICK b \in Buffers \ Named :
         Rebind(t, [size |-> n, buf |-> b], [buffer EXCEPT ![b] = c], m)
  BY DEF BindNew
<1> DEFINE contents == [buffer EXCEPT ![b] = c]
           view == [size |-> n, buf |-> b]
<1>2. buffer[b] = NoContents /\ buffer \in [Buffers -> Contents]
  BY DEF IndInv, Sharing, Good
<1>3. Good(m, contents, {})
  BY <1>2
<1>4. /\ \A d \in Named : contents[d] = buffer[d]
      /\ \A d \in Buffers : d \notin Named \cup {view.buf} => contents[d] = NoContents
      /\ view \in [size : Nat, buf : Buffers \cup {NoBuffer}]
      /\ view.size <= contents[view.buf].byte_size
  <2>1. \A d \in Named : d \in Buffers
    BY DEF Named, IndInv, Sharing
  <2> QED
    BY <1>2, <2>1 DEF IndInv, Sharing
<1> HIDE DEF contents, view
<1>5. Rebind(t, view, contents, m)
  BY <1>1 DEF contents, view
<1> QED
  BY <1>3, <1>4, <1>5, Rebinding

LEMMA BindingOwning ==
  ASSUME IndInv, NEW t \in Tensors, NEW n \in Nat, NEW device \in Device,
         NEW p \in CudaPtr \cup CpuPtr \cup {Null}, NEW m, Good(m, buffer, {p} \ {Null}),
         p # Null => Serves(m, device, n, p),
         BindNew(t, n, Owning(n, device, p), m)
  PROVE  IndInv'
<1> DEFINE c == Owning(n, device, p)
<1>1. c \in Contents /\ n <= c.byte_size
  BY DEF Owning, Contents, Device
<1>2. \A b \in Buffers : buffer[b] = NoContents => Good(m, [buffer EXCEPT ![b] = c], {})
  BY OwnGood
<1> HIDE DEF c
<1>3. BindNew(t, n, c, m)
  BY DEF c
<1> QED
  BY <1>1, <1>2, <1>3, BindingNew

\* One allocation, bound to t: constructors, allocate, clone and the moves.
LEMMA Binding ==
  ASSUME IndInv, NEW t \in Tensors, NEW n \in Nat, NEW device \in Device,
         NEW r \in Allocate(memory, device, n), BindNew(t, n, Owning(n, device, r.ptr), r.mem)
  PROVE  IndInv'
<1>1. /\ Good(r.mem, buffer, {r.ptr} \ {Null})
      /\ r.ptr \in CudaPtr \cup CpuPtr \cup {Null}
      /\ r.ptr # Null => Serves(r.mem, device, n, r.ptr)
  <2>1. Good(memory, buffer, {})
    BY DEF IndInv
  <2>2. {} \cup ({r.ptr} \ {Null}) = {r.ptr} \ {Null}
    OBVIOUS
  <2> QED
    BY <2>1, <2>2, AllocateGood
<1> QED
  BY <1>1, BindingOwning

\* No allocation: t is renamed to a Buffer that lives, or to none.
LEMMA Renaming ==
  ASSUME IndInv, NEW t \in Tensors, NEW view \in [size : Nat, buf : Buffers \cup {NoBuffer}],
         view.buf # NoBuffer => view.buf \in Named /\ view.size <= buffer[view.buf].byte_size,
         Rebind(t, view, buffer, memory)
  PROVE  IndInv'
<1>1. \A b \in Buffers : b \notin Named \cup {view.buf} => buffer[b] = NoContents
  BY DEF IndInv, Sharing
<1>2. Good(memory, buffer, {})
  BY DEF IndInv
<1> QED
  BY <1>1, <1>2, Rebinding

\* t's members have their types, whatever t names.
LEMMA TensorType ==
  ASSUME IndInv, NEW t \in Tensors
  PROVE  /\ tensor[t] \in [size : Nat, buf : Buffers \cup {NoBuffer}]
         /\ tensor[t].buf # NoBuffer => /\ tensor[t].buf \in Named /\ tensor[t].buf \in Buffers
                                        /\ buffer[tensor[t].buf] \in Contents
                                        /\ tensor[t].size <= buffer[tensor[t].buf].byte_size
BY DEF IndInv, Sharing, Named, TensorFits, Good

LEMMA AllocatorType ==
  ASSUME IndInv, NEW t \in Tensors, tensor[t].buf # NoBuffer
  PROVE  buffer[tensor[t].buf].allocator # "none" => buffer[tensor[t].buf].allocator \in Device
BY TensorType DEF Contents

LEMMA ConstructInv ==
  ASSUME IndInv, NEW t \in Tensors, NEW n \in Nat, NEW device \in Device, Construct(t, n, device)
  PROVE  IndInv'
BY Binding DEF Construct

LEMMA GrowInv ==
  ASSUME IndInv, NEW t \in Tensors, NEW n \in Nat, Grow(t, n)
  PROVE  IndInv'
<1> DEFINE device == buffer[tensor[t].buf].allocator
<1>1. device \in Device
  BY AllocatorType DEF Grow
<1>2. PICK first \in Allocate(memory, device, n) :
        \E second \in Allocate(first.mem, device, n) :
           /\ second.ptr # Null
           /\ BindNew(t, n, Owning(n, device, second.ptr), Overwrite(second.mem, first.ptr))
  BY DEF Grow
<1>3. PICK second \in Allocate(first.mem, device, n) :
        /\ second.ptr # Null
        /\ BindNew(t, n, Owning(n, device, second.ptr), Overwrite(second.mem, first.ptr))
  BY <1>2
<1> HIDE DEF device
<1> DEFINE lost == {first.ptr} \ {Null}
           mm == Overwrite(second.mem, first.ptr)
<1>4. Good(first.mem, buffer, lost)
  <2>1. Good(memory, buffer, {}) /\ {} \cup lost = lost
    BY DEF IndInv
  <2> QED
    BY <1>1, <2>1, AllocateGood
<1>5. /\ Good(second.mem, buffer, lost \cup ({second.ptr} \ {Null}))
      /\ second.ptr \in CudaPtr \cup CpuPtr \cup {Null} /\ second.ptr \notin lost
      /\ Serves(second.mem, device, n, second.ptr)
  BY <1>1, <1>3, <1>4, AllocateGood
<1>6. /\ Good(mm, buffer, (lost \cup ({second.ptr} \ {Null})) \ {first.ptr})
      /\ mm.blocks = second.mem.blocks /\ mm.heap = second.mem.heap
  <2>1. first.ptr \in lost \cup ({second.ptr} \ {Null}) \cup {Null}
    OBVIOUS
  <2> QED
    BY <1>5, <2>1, OverwriteGood
<1>7. (lost \cup ({second.ptr} \ {Null})) \ {first.ptr} = {second.ptr} \ {Null}
  BY <1>3, <1>5
<1>8. Good(mm, buffer, {second.ptr} \ {Null}) /\ Serves(mm, device, n, second.ptr)
  BY <1>5, <1>6, <1>7 DEF Serves
<1>9. BindNew(t, n, Owning(n, device, second.ptr), mm)
  BY <1>3
<1> HIDE DEF mm
<1> QED
  BY <1>1, <1>5, <1>8, <1>9, BindingOwning

LEMMA ExternalInv ==
  ASSUME IndInv, NEW t \in Tensors, NEW n \in Nat, NEW device \in Device,
         NEW p \in CudaPtr \cup CpuPtr \cup {Foreign, Null},
         BindNew(t, n, External(n, device, p), memory)
  PROVE  IndInv'
<1> DEFINE c == External(n, device, p)
<1>1. c \in Contents /\ n <= c.byte_size /\ c.allocator = "none"
  BY DEF External, Contents
<1> HIDE DEF c
<1>2. \A b \in Buffers : buffer[b] = NoContents => Good(memory, [buffer EXCEPT ![b] = c], {})
  BY <1>1, ExternalGood DEF IndInv
<1>3. BindNew(t, n, c, memory)
  BY DEF c
<1> QED
  BY <1>1, <1>2, <1>3, BindingNew

\* IndInv is inductive: one step per action.
LEMMA NextInv ==
  ASSUME IndInv, [Next]_vars
  PROVE  IndInv'
<1> SUFFICES ASSUME IndInv, [Next]_vars PROVE IndInv'
  OBVIOUS
<1>0. CASE UNCHANGED vars
  BY <1>0 DEF vars, IndInv, Sharing, Named, TensorFits, Good, Sound, BlocksListed, Inventory,
     Stock, Housed, Serves, InUse
<1>1. ASSUME NEW t \in Tensors, NEW n \in Sizes, NEW device \in Device, Construct(t, n, device)
      PROVE  IndInv'
  BY <1>1, ConstructInv, SizesAssumption
<1>2. ASSUME NEW t \in Tensors, NEW device \in Device, NEW need_realloc \in BOOLEAN,
             AllocateTensor(t, device, need_realloc)
      PROVE  IndInv'
  BY <1>2, ConstructInv, TensorType DEF AllocateTensor
<1>3. ASSUME NEW t \in Tensors, NEW u \in Tensors, Copy(t, u) PROVE IndInv'
  BY <1>3, TensorType, Renaming DEF Copy
<1>4. ASSUME NEW t \in Tensors, NEW u \in Tensors, Assign(t, u) PROVE IndInv'
  <2> DEFINE view == [tensor[t] EXCEPT !.buf = tensor[u].buf]
  <2>1. /\ view \in [size : Nat, buf : Buffers \cup {NoBuffer}]
        /\ view.buf \in Named /\ view.size <= buffer[view.buf].byte_size
    BY <1>4, TensorType DEF Assign
  <2>2. Rebind(t, view, buffer, memory)
    BY <1>4 DEF Assign
  <2> HIDE DEF view
  <2> QED
    BY <2>1, <2>2, Renaming
<1>5. ASSUME NEW t \in Tensors, NEW u \in Tensors, Clone(t, u) PROVE IndInv'
  <2> DEFINE device == buffer[tensor[u].buf].allocator
  <2>1. device \in Device /\ tensor[u].size \in Nat
    BY <1>5, AllocatorType, TensorType DEF Clone
  <2>2. PICK r \in Allocate(memory, device, tensor[u].size) :
           BindNew(t, tensor[u].size, Owning(tensor[u].size, device, r.ptr), r.mem)
    BY <1>5 DEF Clone
  <2> QED
    BY <2>1, <2>2, Binding
<1>6. ASSUME NEW t \in Tensors, NEW n \in Sizes, Reshape(t, n) PROVE IndInv'
  <2> DEFINE view == [tensor[t] EXCEPT !.size = n]
  <2>1. n \in Nat
    BY SizesAssumption
  <2>2. /\ view \in [size : Nat, buf : Buffers \cup {NoBuffer}]
        /\ view.buf = tensor[t].buf /\ view.size = n
    BY <2>1, TensorType
  <2>3. view.buf # NoBuffer => view.buf \in Named /\ n <= buffer[view.buf].byte_size
    <3>1. view.buf # NoBuffer => /\ n <= tensor[t].size /\ tensor[t].size \in Nat
                                 /\ tensor[t].size <= buffer[view.buf].byte_size
                                 /\ buffer[view.buf].byte_size \in Nat /\ view.buf \in Named
      BY <1>6, <2>2, TensorType DEF Reshape, Contents
    <3> QED
      BY <2>1, <3>1
  <2>4. Rebind(t, view, buffer, memory)
    BY <1>6 DEF Reshape
  <2> HIDE DEF view
  <2> QED
    BY <2>2, <2>3, <2>4, Renaming
<1>7. ASSUME NEW t \in Tensors, NEW n \in Sizes, Grow(t, n) PROVE IndInv'
  BY <1>7, GrowInv, SizesAssumption
<1>8. ASSUME NEW t \in Tensors, NEW n \in Sizes, SetWeight(t, n) PROVE IndInv'
  BY <1>8, ExternalInv, SizesAssumption DEF SetWeight, Device
<1>9. ASSUME NEW t \in Tensors, NEW n \in Sizes \cup {0}, Reset(t, n) PROVE IndInv'
  <2> DEFINE view == [size |-> n, buf |-> NoBuffer]
  <2>1. view \in [size : Nat, buf : Buffers \cup {NoBuffer}] /\ view.buf = NoBuffer
    BY SizesAssumption
  <2>2. Rebind(t, view, buffer, memory)
    BY <1>9 DEF Reset
  <2> HIDE DEF view
  <2> QED
    BY <2>1, <2>2, Renaming
<1>10. ASSUME NEW t \in Tensors, NEW u \in Tensors, NEW n \in Sizes, View(t, u, n) PROVE IndInv'
  <2> DEFINE c == buffer[tensor[u].buf]
  <2>1. c.device_type \in Device /\ c.ptr \in CudaPtr \cup CpuPtr \cup {Foreign, Null}
    BY <1>10, TensorType DEF View, Contents
  <2>2. BindNew(t, n, External(n, c.device_type, c.ptr), memory)
    BY <1>10 DEF View
  <2> QED
    BY <2>1, <2>2, ExternalInv, SizesAssumption
<1>11. ASSUME NEW t \in Tensors, NEW device \in Device, MoveTo(t, device) PROVE IndInv'
  BY <1>11, Binding, TensorType DEF MoveTo
<1> QED
  BY <1>0, <1>1, <1>2, <1>3, <1>4, <1>5, <1>6, <1>7, <1>8, <1>9, <1>10, <1>11
  DEF Next, ToCuda, ToCpu, Device

LEMMA InitInv ==
  ASSUME Init
  PROVE  IndInv
<1>1. /\ memory \in Memory /\ \A p \in CudaPtr : memory.blocks[p] = Unlisted
      /\ memory.no_busy_cnt = 0 /\ memory.lost = {} /\ memory.heap = {} /\ ~memory.corrupt
  BY DEF Init, EmptyMemory, Memory, Block, Unlisted
<1>2. Sound(memory) /\ InUse(memory) = {}
  <2>1. IdleSmall(memory) = {}
    BY <1>1 DEF IdleSmall, Unlisted
  <2>2. Counted(memory)
    BY <1>1, <2>1, CountNone
  <2> QED
    BY <1>1, <2>2, LimitAssumption DEF Sound, BlocksListed, Unlisted, InUse
<1>3. buffer \in [Buffers -> Contents] /\ \A b \in Buffers : buffer[b] = NoContents
  BY PtrAssumption DEF Init, NoContents, Contents, Device
<1>4. Inventory(buffer) = {} /\ Stock(buffer) = {}
  BY <1>3 DEF Inventory, NoContents, Stock
<1>5. Good(memory, buffer, {})
  BY <1>1, <1>2, <1>3, <1>4 DEF Good
<1>6. Sharing /\ TensorFits
  BY <1>3 DEF Init, Sharing, TensorFits, Empty
<1> QED
  BY <1>5, <1>6 DEF IndInv

THEOREM Invariance == Spec => []IndInv
<1>1. Init => IndInv
  BY InitInv
<1>2. IndInv /\ [Next]_vars => IndInv'
  BY NextInv
<1> QED
  BY <1>1, <1>2, PTL DEF Spec

----------------------------------------------------------------------------
(* What it says of the program *)

LEMMA SameOwners == Owners = Inventory(buffer) /\ Owned = Stock(buffer)
BY DEF Owners, Inventory, Owned, Stock

\* The members of allocators, Buffers and tensors keep their types, and a Buffer
\* nobody names any more holds nothing.
THEOREM TypeCorrect == Spec => []TypeOK
<1>1. IndInv => TypeOK
  BY DEF IndInv, Good, Sound, Sharing, TypeOK
<1> QED
  BY <1>1, Invariance, PTL

\* For any number of tensors, sizes and limits: the block of a Buffer is in use,
\* large enough, and no other Buffer's, through sharing, reuse and collection.
THEOREM BlocksStayExclusive == Spec => []BlocksExclusive
<1>1. IndInv => BlocksExclusive
  <2> SUFFICES ASSUME IndInv PROVE BlocksExclusive
    OBVIOUS
  <2>1. \A b \in Owners : Backed(buffer[b])
    <3> SUFFICES ASSUME NEW b \in Owners PROVE Backed(buffer[b])
      OBVIOUS
    <3>1. Housed(memory, buffer[b]) /\ buffer[b] \in Contents /\ buffer[b].allocator # "none"
      BY SameOwners DEF IndInv, Good, Owners
    <3> QED
      BY <3>1 DEF Housed, Serves, Backed, Contents, Device
  <2> QED
    BY <2>1, SameOwners DEF IndInv, Good, BlocksExclusive
<1> QED
  BY <1>1, Invariance, PTL

\* No tensor reaches beyond its Buffer.
THEOREM TensorsFit == Spec => []TensorFits
<1>1. IndInv => TensorFits
  BY DEF IndInv
<1> QED
  BY <1>1, Invariance, PTL

\* Every release is of a block in use, by the allocator it came from.
THEOREM ReleasesStayValid == Spec => []ReleasesValid
<1>1. IndInv => ReleasesValid
  BY DEF IndInv, Good, Sound, ReleasesValid
<1> QED
  BY <1>1, Invariance, PTL

\* Memory in use is owned or lost in one of the two recorded ways: no other path
\* through the code loses memory.
THEOREM MemoryExplained == Spec => []InUseExplained
<1>1. IndInv => InUseExplained
  BY SameOwners DEF IndInv, Good, InUseExplained
<1> QED
  BY <1>1, Invariance, PTL

(* no_busy_cnt_ of CUDADeviceAllocator is the idle small memory, whatever  *)
(* was allocated, taken, released and collected: IdleCountExact.           *)
THEOREM IdleCountStaysExact == Spec => []IdleCountExact
<1>1. IndInv => IdleCountExact
  BY DEF IndInv, Good, Sound, Counted, IdleCountExact
<1> QED
  BY <1>1, Invariance, PTL

\* The idle counter stays within the limit and one small block.
THEOREM IdleStaysBounded == Spec => []IdleBounded
<1>1. IndInv => IdleBounded
  BY DEF IndInv, Good, Sound, IdleBounded
<1> QED
  BY <1>1, Invariance, PTL

\* A big block exceeds the request it serves by less than MB.
THEOREM SlackStaysBounded == Spec => []SlackBounded
<1>1. IndInv => SlackBounded
  <2> SUFFICES ASSUME IndInv, NEW b \in Owners, buffer[b].ptr \in CudaPtr,
                      memory.blocks[buffer[b].ptr].list = "big"
               PROVE  memory.blocks[buffer[b].ptr].byte_size - buffer[b].byte_size < MB
    BY DEF SlackBounded
  <2>1. /\ Housed(memory, buffer[b]) /\ buffer[b] \in Contents /\ buffer[b].allocator # "none"
        /\ memory \in Memory
    BY SameOwners DEF IndInv, Good, Sound, Owners
  <2>2. buffer[b].allocator = "cuda"
    BY <2>1, PtrAssumption DEF Housed, Serves, Contents, Device, Memory
  <2> QED
    BY <2>1, <2>2 DEF Housed, Serves
<1> QED
  BY <1>1, Invariance, PTL
==============================================================================
