--------------------------- MODULE LLMEngineKvProofs ---------------------------
(***************************************************************************)
(* What the engine's batches (LLMEngineProofs) imply for the contents        *)
(* of the paged KV cache: a published block is never written again, and,     *)
(* where hashes do not collide and no batch is refused or fails, every token *)
(* that counts as cached has its key and value computed from its own text.   *)
(***************************************************************************)
EXTENDS LLMEngineProofs

-----------------------------------------------------------------------------
(* Stores to the cache *)

Offset == 0 .. BlockSize - 1

\* The cache has a content for every offset of every block.
Shape == kv = [b \in Block |-> [o \in Offset |-> kv[b][o]]]

\* Only a batch that runs stores to the cache.
LEMMA KvSteps ==
  ASSUME [LLMEngineNext]_engineVars
  PROVE  \/ UNCHANGED kv
         \/ pc = "run" /\ \E content : kv' = kv_storing(content)
<1>1. ASSUME NEW s \in Seqs, NEW r \in Requests, AddRequest(s, r) PROVE UNCHANGED kv
  BY <1>1 DEF AddRequest
<1>2. CASE StartStep \/ SchedulerStep \/ RejectBatch \/ CollectResults
  BY <1>2 DEF StartStep, SchedulerStep, RejectBatch, CollectResults
<1>3. CASE RunBatch \/ FailBatch
  BY <1>3 DEF RunBatch, FailBatch
<1>4. CASE UNCHANGED engineVars
  BY <1>4 DEF engineVars
<1> QED
  BY <1>1, <1>2, <1>3, <1>4 DEF LLMEngineNext, EngineStep, IdleStep

LEMMA Storing ==
  ASSUME NEW content, NEW b \in Block, NEW o \in Offset
  PROVE  LET writers == {r \in rows : cell(r.seq, r.pos) = <<b, o>>}
         IN  kv_storing(content)[b][o] =
               IF writers = {} THEN kv[b][o] ELSE content[CHOOSE r \in writers : TRUE]
BY DEF kv_storing, Offset

LEMMA ShapeNext ==
  ASSUME Shape, [LLMEngineNext]_engineVars
  PROVE  Shape'
<1>1. CASE UNCHANGED kv
  BY <1>1 DEF Shape
<1>2. ASSUME NEW content, kv' = kv_storing(content) PROVE Shape'
  <2> DEFINE at(b, o) == LET writers == {r \in rows : cell(r.seq, r.pos) = <<b, o>>}
                         IN  IF writers = {} THEN kv[b][o]
                             ELSE content[CHOOSE r \in writers : TRUE]
  <2>1. kv' = [b \in Block |-> [o \in Offset |-> at(b, o)]]
    BY <1>2 DEF kv_storing, Offset
  <2> HIDE DEF at
  <2>2. \A b \in Block : kv'[b] = [o \in Offset |-> kv'[b][o]]
    BY <2>1
  <2> QED
    BY <2>1, <2>2 DEF Shape
<1> QED
  BY <1>1, <1>2, KvSteps

\* The rows write to unpublished blocks that are their sequence's own.
LEMMA RowBlocks ==
  ASSUME EngineInv, pc = "run", NEW r \in rows
  PROVE  LET b == block_table[r.seq][page(r.pos)]
         IN  b \in Block /\ ~ hash_valid[b] /\ ref_count[b] = 1
<1>1. IndInv /\ r.seq \in Seqs
      /\ page(r.pos) \in hash_start(r.seq) + 1 .. Len(block_table[r.seq])
  BY RowFacts DEF EngineInv
<1>2. page(r.pos) \in 1 .. Len(block_table[r.seq])
  BY <1>1, TypeFacts DEF IndInv
<1> QED
  BY <1>1, <1>2, TypeFacts DEF IndInv, TailPrivate

LEMMA UntouchedBlock ==
  ASSUME Shape, NEW b \in Block, NEW content,
         \A r \in rows : block_table[r.seq][page(r.pos)] # b
  PROVE  kv_storing(content)[b] = kv[b]
<1>1. \A r \in rows, o \in Offset : cell(r.seq, r.pos) # <<b, o>>
  BY DEF cell
<1>2. \A o \in Offset : {r \in rows : cell(r.seq, r.pos) = <<b, o>>} = {}
  BY <1>1
<1>3. \A o \in Offset : kv_storing(content)[b][o] = kv[b][o]
  BY <1>2, Storing
<1>4. kv[b] = [o \in Offset |-> kv[b][o]]
  BY DEF Shape
<1>5. kv_storing(content)[b] = [o \in Offset |-> kv_storing(content)[b][o]]
  BY DEF kv_storing, Offset
<1> QED
  BY <1>3, <1>4, <1>5

\* A step keeps the contents of the published blocks.
LEMMA PublishedKept ==
  ASSUME EngineInv, Shape, [LLMEngineNext]_engineVars, NEW b \in Block, hash_valid[b]
  PROVE  kv'[b] = kv[b]
<1>1. CASE UNCHANGED kv
  BY <1>1
<1>2. ASSUME NEW content, pc = "run", kv' = kv_storing(content) PROVE kv'[b] = kv[b]
  <2>1. \A r \in rows : block_table[r.seq][page(r.pos)] # b
    BY <1>2, RowBlocks
  <2> QED
    BY <1>2, <2>1, UntouchedBlock
<1> QED
  BY <1>1, <1>2, KvSteps

LEMMA ShapeInvariance == LLMEngineSpec => []Shape
<1>1. LLMEngineInit => Shape
  <2> SUFFICES ASSUME LLMEngineInit PROVE Shape
    OBVIOUS
  <2>1. kv = [b \in Block |-> [o \in Offset |-> Garbage]]
    BY DEF LLMEngineInit, Offset
  <2>2. \A b \in Block : kv[b] = [o \in Offset |-> kv[b][o]]
    BY <2>1
  <2> QED
    BY <2>1, <2>2 DEF Shape
<1>2. Shape /\ [LLMEngineNext]_engineVars => Shape'
  BY ShapeNext
<1> QED
  BY <1>1, <1>2, PTL DEF LLMEngineSpec

(* The cells of a published block in use stay as they are, whatever batches    *)
(* run, fail half way or are refused: what several sequences read is never    *)
(* written.                                                                   *)
THEOREM PublishedCellsStable == LLMEngineSpec => PublishedKvStable
<1>1. EngineInv /\ Shape /\ [LLMEngineNext]_engineVars =>
        [\A b \in Block : (hash_valid[b] /\ ref_count[b] > 0) => kv'[b] = kv[b]]_engineVars
  BY PublishedKept
<1> QED
  BY <1>1, BatchInvariance, ShapeInvariance, PTL DEF LLMEngineSpec, PublishedKvStable

-----------------------------------------------------------------------------
(* Chains of hashes and the texts they stand for *)

Piece(text, i) == SubSeq(text, (i - 1) * BlockSize + 1, i * BlockSize)

Full == {t \in Seq(Token) : Len(t) = BlockSize}

\* The hashes of whole blocks do not collide, and none is the 0 that seeds a
\* chain.
Faithful(Hash) ==
  /\ ZeroHash \in Hash
  /\ \A t \in Full, h \in Hash : Fnv(t, h) \in Hash \ {ZeroHash}
  /\ \A t, u \in Full, h, g \in Hash : Fnv(t, h) = Fnv(u, g) => t = u /\ h = g

Collisionless == \E Hash : Faithful(Hash)

\* f gives the hashes of the first n blocks of the text.
Links(f, text, n) ==
  f[0] = ZeroHash /\ \A i \in 1 .. n : f[i] = Fnv(Piece(text, i), f[i - 1])

LEMMA PieceFacts ==
  ASSUME NEW text \in Seq(Token), NEW i \in Nat \ {0}, i * BlockSize <= Len(text)
  PROVE  /\ (i - 1) * BlockSize \in Nat /\ i * BlockSize = (i - 1) * BlockSize + BlockSize
         /\ Piece(text, i) \in Full
         /\ \A o \in 1 .. BlockSize : Piece(text, i)[o] = text[(i - 1) * BlockSize + o]
<1> DEFINE a == (i - 1) * BlockSize
           c == i * BlockSize
           d == a + 1
<1>1. a \in Nat /\ c \in Nat /\ c = a + BlockSize /\ BlockSize \in Nat \ {0} /\ d = a + 1
  BY PoolAssumption
<1>2. Piece(text, i) = SubSeq(text, d, c)
  BY DEF Piece
<1>3. Len(text) \in Nat /\ c <= Len(text) /\ \A k \in 1 .. Len(text) : text[k] \in Token
  BY LenProperties, ElementOfSeq
<1> HIDE DEF a, c, d
<1>4. /\ d \in Nat /\ c \in Nat /\ d <= c /\ c - d + 1 = BlockSize
      /\ \A k \in d .. c : text[k] \in Token
  BY <1>1, <1>3
<1>5. /\ SubSeq(text, d, c) \in Seq(Token)
      /\ Len(SubSeq(text, d, c)) = c - d + 1
      /\ \A o \in 1 .. c - d + 1 : SubSeq(text, d, c)[o] = text[d + o - 1]
  BY <1>4, SubSeqProperties
<1>6. ASSUME NEW o \in 1 .. BlockSize PROVE SubSeq(text, d, c)[o] = text[a + o]
  <2>1. d + o - 1 = a + o /\ o \in 1 .. c - d + 1
    BY <1>1, <1>4
  <2>2. SubSeq(text, d, c)[o] = text[d + o - 1]
    BY <1>5, <2>1
  <2> QED
    BY <2>1, <2>2
<1> QED
  BY <1>1, <1>2, <1>4, <1>5, <1>6 DEF Full, a, c

\* The blocks of a text are whole, and so the hashes of its chain are hashes.
LEMMA LinksFacts ==
  ASSUME NEW Hash, Faithful(Hash), NEW n \in Nat, NEW text \in Seq(Token),
         n * BlockSize <= Len(text), NEW f, Links(f, text, n)
  PROVE  /\ \A i \in 1 .. n : i * BlockSize <= Len(text) /\ Piece(text, i) \in Full
         /\ \A i \in 0 .. n : f[i] \in Hash
<1>1. ASSUME NEW i \in 1 .. n PROVE i * BlockSize <= Len(text) /\ Piece(text, i) \in Full
  <2>1. i \in Nat \ {0} /\ i <= n /\ BlockSize \in Nat
    BY PoolAssumption
  <2>2. i * BlockSize <= n * BlockSize /\ i * BlockSize \in Nat /\ n * BlockSize \in Nat
    BY <2>1, ProductMonotone
  <2>3. Len(text) \in Nat
    OBVIOUS
  <2>4. i * BlockSize <= Len(text)
    BY <2>2, <2>3
  <2> QED
    BY <2>1, <2>4, PieceFacts
<1> DEFINE D == {i \in Nat : i <= n /\ f[i] \notin Hash}
<1>2. D = {}
  <2> SUFFICES ASSUME D # {} PROVE FALSE
    OBVIOUS
  <2>1. PICK i \in D : \A e \in D : <<e, i>> \notin OpToRel(<, Nat)
    <3>1. D \in SUBSET Nat
      OBVIOUS
    <3> HIDE DEF D
    <3> QED
      BY <3>1, WFMin, NatLessThanWellFounded, Zenon
  <2>2. i \in Nat /\ i <= n /\ f[i] \notin Hash /\ \A e \in D : ~ (e < i)
    BY <2>1 DEF OpToRel
  <2>3. i # 0
    BY <2>2 DEF Links, Faithful
  <2>4. i \in 1 .. n /\ i - 1 \in Nat /\ i - 1 <= n /\ i - 1 < i
    BY <2>2, <2>3
  <2>5. f[i - 1] \in Hash
    BY <2>2, <2>4
  <2>6. f[i] = Fnv(Piece(text, i), f[i - 1])
    BY <2>4 DEF Links
  <2> QED
    BY <1>1, <2>2, <2>4, <2>5, <2>6 DEF Faithful
<1> QED
  BY <1>1, <1>2

\* A place of the text is a place of one of its blocks.
LEMMA PlaceInPiece ==
  ASSUME NEW n \in Nat, NEW j \in 1 .. n * BlockSize
  PROVE  \E i \in 1 .. n : \E o \in 1 .. BlockSize : j = (i - 1) * BlockSize + o
<1> DEFINE d == (j - 1) \div BlockSize
           a == d * BlockSize
           c == n * BlockSize
<1>1. c \in Nat /\ j \in 1 .. c /\ j - 1 \in Nat
  BY PoolAssumption
<1>2. d \in Nat /\ a <= j - 1 /\ j - 1 < a + BlockSize
  BY <1>1, DivBounds, PoolAssumption
<1>3. a \in Nat
  <2> HIDE DEF d
  <2> QED
    BY <1>2, PoolAssumption
<1>4. d < n
  <2>1. d * BlockSize < n * BlockSize
    <3> HIDE DEF d
    <3> QED
      BY <1>1, <1>2, <1>3
  <2> HIDE DEF d
  <2>2. CASE n <= d
    <3>1. n * BlockSize <= d * BlockSize /\ n * BlockSize \in Nat /\ d * BlockSize \in Nat
      BY <1>2, <2>2, ProductMonotone, PoolAssumption
    <3> QED
      BY <2>1, <3>1
  <2> QED
    BY <1>2, <2>2
<1> HIDE DEF c
<1>5. j - a \in 1 .. BlockSize /\ j = a + (j - a)
  <2> HIDE DEF a
  <2> QED
    BY <1>1, <1>2, <1>3, PoolAssumption
<1> HIDE DEF d
<1>6. d + 1 \in 1 .. n /\ (d + 1) - 1 = d
  BY <1>2, <1>4
<1>7. j = ((d + 1) - 1) * BlockSize + (j - a)
  BY <1>5, <1>6
<1> QED
  BY <1>5, <1>6, <1>7

\* Without collisions the hash of a chain determines its text.
LEMMA SameChain ==
  ASSUME Collisionless, NEW m \in Nat, NEW n \in Nat,
         NEW text \in Seq(Token), NEW other \in Seq(Token), NEW f, NEW g,
         Links(f, text, m), Links(g, other, n), f[m] = g[n],
         m * BlockSize <= Len(text), n * BlockSize <= Len(other)
  PROVE  m = n /\ \A j \in 1 .. n * BlockSize : text[j] = other[j]
<1>0. PICK Hash : Faithful(Hash)
  BY DEF Collisionless
<1> DEFINE D == {k \in Nat : k <= m /\ k <= n /\ f[m - k] # g[n - k]}
<1>1. ASSUME NEW k \in Nat, k < m, k < n, f[m - k] = g[n - k]
      PROVE  Piece(text, m - k) = Piece(other, n - k) /\ f[m - (k + 1)] = g[n - (k + 1)]
  <2>1. m - k \in 1 .. m /\ n - k \in 1 .. n /\ m - k - 1 = m - (k + 1)
        /\ n - k - 1 = n - (k + 1)
    BY <1>1
  <2>2. f[m - k] = Fnv(Piece(text, m - k), f[m - k - 1])
        /\ g[n - k] = Fnv(Piece(other, n - k), g[n - k - 1])
    BY <2>1 DEF Links
  <2>3. Fnv(Piece(text, m - k), f[m - k - 1]) = Fnv(Piece(other, n - k), g[n - k - 1])
    BY <1>1, <2>2
  <2>4. /\ Piece(text, m - k) \in Full /\ Piece(other, n - k) \in Full
        /\ f[m - k - 1] \in Hash /\ g[n - k - 1] \in Hash
    <3>1. m - k - 1 \in 0 .. m /\ n - k - 1 \in 0 .. n
      BY <2>1
    <3> QED
      BY <1>0, <2>1, <3>1, LinksFacts
  <2>5. Piece(text, m - k) = Piece(other, n - k) /\ f[m - k - 1] = g[n - k - 1]
    BY <1>0, <2>3, <2>4 DEF Faithful
  <2> QED
    BY <2>1, <2>5
<1>2. D = {}
  <2> SUFFICES ASSUME D # {} PROVE FALSE
    OBVIOUS
  <2>1. PICK k \in D : \A e \in D : <<e, k>> \notin OpToRel(<, Nat)
    <3>1. D \in SUBSET Nat
      OBVIOUS
    <3> HIDE DEF D
    <3> QED
      BY <3>1, WFMin, NatLessThanWellFounded, Zenon
  <2>2. k \in Nat /\ k <= m /\ k <= n /\ f[m - k] # g[n - k] /\ \A e \in D : ~ (e < k)
    BY <2>1 DEF OpToRel
  <2>3. k # 0
    <3>1. m - 0 = m /\ n - 0 = n
      OBVIOUS
    <3> QED
      BY <2>2, <3>1
  <2>4. k - 1 \in Nat /\ k - 1 < m /\ k - 1 < n /\ k - 1 < k /\ (k - 1) + 1 = k
    BY <2>2, <2>3
  <2> HIDE DEF D
  <2>5. f[m - (k - 1)] = g[n - (k - 1)]
    <3>1. k - 1 \notin D /\ k - 1 <= m /\ k - 1 <= n
      BY <2>2, <2>4
    <3> QED
      BY <2>4, <3>1 DEF D
  <2>6. f[m - ((k - 1) + 1)] = g[n - ((k - 1) + 1)]
    BY <1>1, <2>4, <2>5
  <2> QED
    BY <2>2, <2>4, <2>6
<1>3. \A k \in Nat : k <= m /\ k <= n => f[m - k] = g[n - k]
  BY <1>2
<1> HIDE DEF D
<1>4. ~ (m < n)
  <2> SUFFICES ASSUME m < n PROVE FALSE
    OBVIOUS
  <2>1. m - m = 0 /\ n - m \in 1 .. n /\ m <= m /\ m <= n
    OBVIOUS
  <2>2. g[n - m] = ZeroHash
    BY <1>3, <2>1 DEF Links
  <2>3. g[n - m] = Fnv(Piece(other, n - m), g[n - m - 1])
    BY <2>1 DEF Links
  <2>4. Piece(other, n - m) \in Full /\ g[n - m - 1] \in Hash
    <3>1. n - m - 1 \in 0 .. n
      BY <2>1
    <3> QED
      BY <1>0, <2>1, <3>1, LinksFacts
  <2> QED
    BY <1>0, <2>2, <2>3, <2>4 DEF Faithful
<1>5. ~ (n < m)
  <2> SUFFICES ASSUME n < m PROVE FALSE
    OBVIOUS
  <2>1. n - n = 0 /\ m - n \in 1 .. m /\ n <= m /\ n <= n
    OBVIOUS
  <2>2. f[m - n] = ZeroHash
    BY <1>3, <2>1 DEF Links
  <2>3. f[m - n] = Fnv(Piece(text, m - n), f[m - n - 1])
    BY <2>1 DEF Links
  <2>4. Piece(text, m - n) \in Full /\ f[m - n - 1] \in Hash
    <3>1. m - n - 1 \in 0 .. m
      BY <2>1
    <3> QED
      BY <1>0, <2>1, <3>1, LinksFacts
  <2> QED
    BY <1>0, <2>2, <2>3, <2>4 DEF Faithful
<1>6. m = n
  BY <1>4, <1>5
<1>7. ASSUME NEW i \in 1 .. n PROVE Piece(text, i) = Piece(other, i)
  <2>1. n - i \in Nat /\ n - i < n /\ n - (n - i) = i /\ n - i <= n
    OBVIOUS
  <2>2. f[m - (n - i)] = g[n - (n - i)]
    BY <1>3, <1>6, <2>1
  <2>3. Piece(text, m - (n - i)) = Piece(other, n - (n - i))
    BY <1>1, <1>6, <2>1, <2>2
  <2> QED
    BY <1>6, <2>1, <2>3
<1>8. ASSUME NEW j \in 1 .. n * BlockSize PROVE text[j] = other[j]
  <2>1. PICK i \in 1 .. n, o \in 1 .. BlockSize : j = (i - 1) * BlockSize + o
    BY PlaceInPiece
  <2>2. i \in Nat \ {0} /\ i * BlockSize <= Len(text) /\ i * BlockSize <= Len(other)
    <3>1. i \in Nat /\ i <= n /\ BlockSize \in Nat
      BY PoolAssumption
    <3>2. i * BlockSize <= n * BlockSize /\ i * BlockSize \in Nat /\ n * BlockSize \in Nat
      BY <3>1, ProductMonotone
    <3>3. Len(text) \in Nat /\ Len(other) \in Nat
      OBVIOUS
    <3> QED
      BY <1>6, <3>2, <3>3
  <2>3. Piece(text, i)[o] = text[(i - 1) * BlockSize + o]
        /\ Piece(other, i)[o] = other[(i - 1) * BlockSize + o]
    BY <2>2, PieceFacts
  <2> QED
    BY <1>7, <2>1, <2>3
<1> QED
  BY <1>6, <1>8

-----------------------------------------------------------------------------
(* Without refused and failing batches the accounts follow the plan *)

\* No batch fails in the runner, no prompt is too large for the pool, and the
\* runner accepts every batch: a call never returns an error half way.
Undisturbed ==
  /\ MaxFaults = 0 /\ MaxModelLen <= NumBlocks * BlockSize /\ Matched

\* Whoever has tokens scheduled is in the plan, ...
Planned ==
  \A s \in Seqs : num_scheduled_tokens[s] # 0 => \E i \in pending : plan[i].seq = s

\* ... its share are the next positions to be computed, ...
Following ==
  \A i \in pending : /\ plan[i].start = num_cached_tokens[plan[i].seq]
                     /\ plan[i].count = num_scheduled_tokens[plan[i].seq]

\* ... and a running sequence lacks no other token than its last one.
Caught ==
  \A s \in Seqs : status[s] = "running" =>
    num_cached_tokens[s] + num_scheduled_tokens[s] =
      IF num_scheduled_tokens[s] > 0 \/ (pc = "emit" /\ s = current)
      THEN size(s) ELSE size(s) - 1

SyncInv == faults = 0 /\ Planned /\ Following /\ Caught

\* No call returns before its batch has been accounted for.
LEMMA NoEarlyReturn ==
  ASSUME EngineInv, Undisturbed, faults = 0
  PROVE  ~ PrefillReject /\ ~ RejectBatch /\ ~ FailBatch
<1>1. ~ RejectBatch
  BY BatchFits DEF Undisturbed, BatchAccepted, RejectBatch
<1>2. ~ FailBatch
  BY DEF Undisturbed, FailBatch
<1>3. ASSUME PrefillReject PROVE FALSE
  <2>1. waiting # <<>> /\ num_blocks(front) > NumBlocks
    BY <1>3 DEF PrefillReject, InPrefillLoop
  <2>2. PICK s \in Seqs : s = front /\ status[s] = "waiting"
    BY <2>1, FrontWaits DEF EngineInv
  <2>3. TypeOK /\ size(s) \in Nat \ {0} /\ size(s) < MaxLen
    BY <2>2, UnfinishedSize DEF EngineInv, IndInv
  <2>4. size(s) <= NumBlocks * BlockSize
    <3>1. NumBlocks * BlockSize \in Nat
      BY PoolAssumption
    <3> QED
      BY <2>3, <3>1, LengthAssumption DEF Undisturbed
  <2>5. num_blocks(s) \in Nat /\ (num_blocks(s) - 1) * BlockSize < size(s)
    BY <2>3, SizeFacts
  <2>6. NumBlocks <= num_blocks(s) - 1 /\ num_blocks(s) - 1 \in Nat
    BY <2>1, <2>2, <2>5, PoolAssumption
  <2>7. /\ NumBlocks * BlockSize <= (num_blocks(s) - 1) * BlockSize
        /\ NumBlocks * BlockSize \in Nat /\ (num_blocks(s) - 1) * BlockSize \in Nat
    BY <2>6, ProductMonotone, PoolAssumption
  <2> QED
    BY <2>3, <2>4, <2>5, <2>7
<1> QED
  BY <1>1, <1>2, <1>3

LEMMA PlannedKept ==
  ASSUME Planned,
         \A x \in Seqs : num_scheduled_tokens'[x] # 0 => num_scheduled_tokens[x] # 0,
         \A i \in pending : plan[i].seq \in Seqs /\ num_scheduled_tokens'[plan[i].seq] # 0
                              => i \in pending' /\ plan'[i] = plan[i]
  PROVE  Planned'
BY DEF Planned

LEMMA FollowingFrom ==
  ASSUME \A i \in pending' : \E x \in Seqs :
           /\ x = plan'[i].seq /\ plan'[i].start = num_cached_tokens'[x]
           /\ plan'[i].count = num_scheduled_tokens'[x]
  PROVE  Following'
BY DEF Following

LEMMA FollowingKept ==
  ASSUME QueueInv, Following, pending' \subseteq pending,
         \A i \in pending' : plan'[i] = plan[i],
         \A i \in pending' : \A x \in Seqs : x = plan[i].seq =>
           /\ num_cached_tokens'[x] = num_cached_tokens[x]
           /\ num_scheduled_tokens'[x] = num_scheduled_tokens[x]
  PROVE  Following'
<1> SUFFICES ASSUME NEW i \in pending'
             PROVE  \E x \in Seqs :
                      /\ x = plan'[i].seq /\ plan'[i].start = num_cached_tokens'[x]
                      /\ plan'[i].count = num_scheduled_tokens'[x]
  BY FollowingFrom
<1>1. i \in pending /\ plan'[i] = plan[i] /\ plan[i].seq \in Seqs
  BY PendingInPlan DEF QueueInv
<1> QED
  BY <1>1 DEF Following

\* An entry joins the plan.
LEMMA JoinsPlan ==
  ASSUME QueueInv, Planned, Following, NEW s \in Seqs, NEW a \in Nat, NEW n \in Nat,
         pc \in {"prefill", "decode"}, pc' \in {"prefill", "decode", "run"},
         plan' = Append(plan, [seq |-> s, start |-> a, count |-> n]),
         \A i \in DOMAIN plan : plan[i].seq # s,
         a = num_cached_tokens'[s], n = num_scheduled_tokens'[s],
         \A x \in Seqs \ {s} : /\ num_cached_tokens'[x] = num_cached_tokens[x]
                               /\ num_scheduled_tokens'[x] = num_scheduled_tokens[x]
  PROVE  Planned' /\ Following'
<1> DEFINE m == Len(plan)
           e == [seq |-> s, start |-> a, count |-> n]
<1>1. /\ DOMAIN plan = 1 .. m /\ m \in Nat /\ pending = DOMAIN plan
      /\ \A i \in DOMAIN plan : plan[i].seq \in Seqs
  BY PendingInPlan DEF QueueInv, pending
<1>2. /\ DOMAIN plan' = 1 .. m + 1 /\ plan'[m + 1] = e
      /\ \A i \in 1 .. m : plan'[i] = plan[i]
  <2> DEFINE Entry == [seq : Seqs, start : Nat, count : Nat]
  <2>1. plan \in Seq(Entry) /\ e \in Entry /\ plan' = Append(plan, e)
    BY DEF QueueInv, QueueTypes
  <2> HIDE DEF Entry, e
  <2> QED
    BY <2>1
<1>3. pending' = 1 .. m + 1
  BY <1>2 DEF pending
<1>4. e.seq = s /\ e.start = a /\ e.count = n
  OBVIOUS
<1> HIDE DEF m, e
<1>5. Planned'
  <2> SUFFICES ASSUME NEW x \in Seqs, num_scheduled_tokens'[x] # 0
               PROVE  \E i \in pending' : plan'[i].seq = x
    BY DEF Planned
  <2>1. CASE x = s
    <3>1. m + 1 \in pending' /\ plan'[m + 1].seq = x
      BY <1>1, <1>2, <1>3, <1>4, <2>1
    <3> QED
      BY <3>1
  <2>2. CASE x # s
    <3>1. PICK i \in pending : plan[i].seq = x
      BY <2>2 DEF Planned
    <3>2. i \in 1 .. m /\ i \in pending'
      BY <1>1, <1>3, <3>1
    <3> QED
      BY <1>2, <3>1, <3>2
  <2> QED
    BY <2>1, <2>2
<1>6. Following'
  <2> SUFFICES ASSUME NEW i \in pending'
               PROVE  \E x \in Seqs :
                        /\ x = plan'[i].seq /\ plan'[i].start = num_cached_tokens'[x]
                        /\ plan'[i].count = num_scheduled_tokens'[x]
    BY FollowingFrom
  <2>1. CASE i = m + 1
    BY <1>2, <1>4, <2>1
  <2>2. CASE i # m + 1
    <3>1. i \in 1 .. m
      BY <1>1, <1>3, <2>2
    <3>2. i \in pending /\ plan'[i] = plan[i] /\ plan[i].seq \in Seqs \ {s}
      BY <1>1, <1>2, <3>1
    <3> QED
      BY <3>2 DEF Following
  <2> QED
    BY <2>1, <2>2
<1> QED
  BY <1>5, <1>6

LEMMA CaughtOne ==
  ASSUME Caught, NEW s \in Seqs,
         \A x \in Seqs \ {s} :
           /\ status'[x] = status[x] /\ size(x)' = size(x)
           /\ num_cached_tokens'[x] = num_cached_tokens[x]
           /\ num_scheduled_tokens'[x] = num_scheduled_tokens[x]
           /\ ~ (pc = "emit" /\ x = current) /\ ~ (pc' = "emit" /\ x = current'),
         status'[s] = "running" =>
           num_cached_tokens'[s] + num_scheduled_tokens'[s] =
             IF num_scheduled_tokens'[s] > 0 \/ (pc' = "emit" /\ s = current')
             THEN size(s)' ELSE size(s)' - 1
  PROVE  Caught'
<1> SUFFICES ASSUME NEW x \in Seqs, status'[x] = "running"
             PROVE  num_cached_tokens'[x] + num_scheduled_tokens'[x] =
                      IF num_scheduled_tokens'[x] > 0 \/ (pc' = "emit" /\ x = current')
                      THEN size(x)' ELSE size(x)' - 1
  BY DEF Caught
<1>1. CASE x = s
  BY <1>1
<1>2. CASE x # s
  BY <1>2 DEF Caught
<1> QED
  BY <1>1, <1>2

LEMMA CaughtKept ==
  ASSUME Caught, pc # "emit", pc' # "emit",
         UNCHANGED <<status, token_ids, num_cached_tokens, num_scheduled_tokens>>
  PROVE  Caught'
<1>1. \A x \in Seqs : size(x)' = size(x)
  BY SameText
<1> QED
  BY <1>1 DEF Caught

\* A step that changes neither the accounts nor what is pending.
LEMMA SyncKept ==
  ASSUME QueueInv, SyncInv, faults' = faults, pc # "emit", pc' # "emit",
         UNCHANGED <<status, token_ids, num_cached_tokens, num_scheduled_tokens>>,
         pending' = pending, \A i \in pending : plan'[i] = plan[i]
  PROVE  SyncInv'
<1>1. Planned' /\ Following'
  BY PlannedKept, FollowingKept DEF SyncInv
<1> QED
  BY <1>1, CaughtKept DEF SyncInv

\* postprocess' walk: the entry whose turn it is leaves the pending ones.
LEMMA SyncWalk ==
  ASSUME EngineInv, SyncInv, PostCommit \/ PostEmit \/ PostRelease, pc' # "error",
         faults' = faults
  PROVE  SyncInv'
<1>1. TypeOK /\ QueueInv /\ Planned /\ Following /\ Caught
  BY DEF EngineInv, IndInv, SyncInv
<1>2. PICK s \in Seqs : s = current
  BY <1>1, WalkStep
<1>3. /\ pc \in {"commit", "emit", "release"}
      /\ pc' \in {"commit", "emit", "release", "collect"}
      /\ pc' \in {"emit", "release"} => index' = index
      /\ index \in 1 .. Len(plan)
      /\ pending' \subseteq index + 1 .. Len(plan)
      /\ index + 1 .. Len(plan) \subseteq pending
      /\ \A i \in index + 1 .. Len(plan) : plan[i].seq \in Seqs /\ plan[i].seq # s
      /\ plan' = plan
      /\ \A x \in Seqs \ {s} :
           /\ status'[x] = status[x] /\ size(x)' = size(x)
           /\ num_cached_tokens'[x] = num_cached_tokens[x]
           /\ num_scheduled_tokens'[x] = num_scheduled_tokens[x]
  BY <1>1, <1>2, WalkStep
<1>4. Len(plan) \in Nat
  BY <1>1, PendingInPlan DEF QueueInv
<1>5. \A i \in pending : plan[i].seq # s => i \in pending'
  <2>1. \A i \in pending : plan[i].seq # s => i \in index + 1 .. Len(plan)
    <3>1. \A i \in pending : i = index \/ i \in index + 1 .. Len(plan)
      BY <1>3, <1>4 DEF pending
    <3> QED
      BY <1>2, <3>1 DEF current
  <2>2. index + 1 .. Len(plan) \subseteq pending'
    <3>1. \/ NextIndex
          \/ pc' \in {"emit", "release"} /\ index' = index
      BY DEF PostCommit, PostEmit, PostRelease, InternalError
    <3>2. CASE NextIndex
      BY <1>3, <1>4, <3>2 DEF NextIndex, pending
    <3>3. CASE pc' \in {"emit", "release"} /\ index' = index
      BY <1>3, <3>3 DEF pending
    <3> QED
      BY <3>1, <3>2, <3>3
  <2> QED
    BY <2>1, <2>2
<1>6. num_scheduled_tokens'[s] = 0
  <2>1. CASE PostCommit
    BY <1>1, <1>2, <2>1 DEF PostCommit, InternalError, TypeOK
  <2>2. CASE PostEmit
    BY <1>1, <1>2, <2>2 DEF PostEmit, InternalError, QueueInv, CurrentInv
  <2>3. CASE PostRelease
    BY <1>1, <1>2, <2>3, DeallocatedTable DEF PostRelease
  <2> QED
    BY <2>1, <2>2, <2>3
<1>7. Planned'
  <2>1. \A x \in Seqs : num_scheduled_tokens'[x] # 0 =>
          x # s /\ num_scheduled_tokens[x] # 0
    BY <1>3, <1>6
  <2> QED
    BY <1>1, <1>3, <1>5, <2>1, PlannedKept
<1>8. Following'
  BY <1>1, <1>3, FollowingKept
<1>9. /\ num_cached_tokens[s] \in Nat /\ num_scheduled_tokens[s] \in Nat /\ size(s) \in Nat
      /\ token_ids[s] \in Seq(Token)
  BY <1>1, TypeFacts
<1>10. status'[s] = "running" =>
         num_cached_tokens'[s] + num_scheduled_tokens'[s] =
           IF num_scheduled_tokens'[s] > 0 \/ (pc' = "emit" /\ s = current')
           THEN size(s)' ELSE size(s)' - 1
  <2> SUFFICES ASSUME status'[s] = "running"
               PROVE  num_cached_tokens'[s] =
                        IF pc' = "emit" /\ s = current' THEN size(s)' ELSE size(s)' - 1
    <3>1. num_cached_tokens'[s] + 0 = num_cached_tokens'[s]
      <4>1. CASE PostCommit
        BY <1>1, <1>2, <1>9, <4>1 DEF PostCommit, InternalError, TypeOK
      <4>2. CASE PostEmit
        BY <1>2, <1>9, <4>2 DEF PostEmit, InternalError
      <4>3. CASE PostRelease
        BY <1>1, <1>2, <4>3, DeallocatedTable DEF PostRelease
      <4> QED
        BY <4>1, <4>2, <4>3
    <3>2. ~ (0 > 0)
      OBVIOUS
    <3> QED
      BY <1>6, <3>1, <3>2
  <2>1. CASE PostCommit
    <3>1. /\ pc = "commit" /\ status'[s] = status[s] /\ token_ids' = token_ids
          /\ num_cached_tokens'[s] = num_cached_tokens[s] + num_scheduled_tokens[s]
          /\ \/ /\ is_prefill
                /\ num_cached_tokens[s] + num_scheduled_tokens[s] < size(s)
             \/ pc' = "emit" /\ index' = index
      BY <1>1, <1>2, <2>1 DEF PostCommit, InternalError, TypeOK, queueVars
    <3>2. num_scheduled_tokens[s] > 0
      BY <1>1, <1>2, <3>1, CurrentFacts DEF Due
    <3>3. num_cached_tokens[s] + num_scheduled_tokens[s] = size(s)
      BY <1>1, <3>1, <3>2 DEF Caught
    <3>4. pc' = "emit" /\ index' = index
      BY <1>9, <3>1, <3>3
    <3>5. s = current' /\ size(s)' = size(s)
      BY <1>2, <1>3, <3>1, <3>4, SameText DEF current
    <3> QED
      BY <3>1, <3>3, <3>4, <3>5
  <2>2. CASE PostEmit
    <3>1. /\ pc = "emit" /\ status[s] = "running" /\ num_scheduled_tokens[s] = 0
          /\ num_cached_tokens' = num_cached_tokens
          /\ \E t : token_ids' = [token_ids EXCEPT ![s] = Append(@, t)]
          /\ \/ status' = [status EXCEPT ![s] = "finished"]
             \/ pc' # "emit"
      BY <1>1, <1>2, <2>2
        DEF PostEmit, InternalError, QueueInv, CurrentInv, NextIndex
    <3>2. num_cached_tokens[s] + 0 = size(s)
      BY <1>1, <1>2, <3>1 DEF Caught
    <3>3. pc' # "emit"
      <4>1. status \in [Seqs -> {"none", "waiting", "running", "finished"}]
        BY <1>1 DEF QueueInv, QueueTypes
      <4> QED
        BY <3>1, <4>1
    <3>4. size(s)' = size(s) + 1
      <4>1. PICK t : token_ids'[s] = Append(token_ids[s], t)
        BY <1>1, <3>1 DEF TypeOK
      <4> QED
        BY <1>9, <4>1 DEF size
    <3> QED
      BY <1>9, <3>1, <3>2, <3>3, <3>4
  <2>3. CASE PostRelease
    <3>1. pc = "release" /\ status' = status
      BY <2>3 DEF PostRelease, queueVars
    <3>2. status[s] = "finished"
      BY <1>1, <1>2, <3>1 DEF QueueInv, CurrentInv
    <3> QED
      BY <3>1, <3>2
  <2> QED
    BY <2>1, <2>2, <2>3
<1>11. pc' = "emit" => s = current'
  BY <1>2, <1>3 DEF current
<1>12. Caught'
  BY <1>1, <1>2, <1>3, <1>10, <1>11, CaughtOne
<1> QED
  BY <1>7, <1>8, <1>12 DEF SyncInv

LEMMA SyncNext ==
  ASSUME EngineInv, Undisturbed, SyncInv, [LLMEngineNext]_engineVars
  PROVE  SyncInv'
<1>1. /\ TypeOK /\ QueueInv /\ QueueTypes /\ PlanInv /\ pc' # "error"
      /\ Planned /\ Following /\ Caught /\ faults = 0
      /\ status \in [Seqs -> {"none", "waiting", "running", "finished"}]
  BY NoErrorNext DEF EngineInv, IndInv, QueueInv, QueueTypes, SyncInv
<1>2. ~ PrefillReject /\ ~ RejectBatch /\ ~ FailBatch
  BY <1>1, NoEarlyReturn
<1>3. faults' = faults
  BY <1>2 DEF LLMEngineNext, EngineStep, SchedulerStep, AddRequest, StartStep, RunBatch,
              CollectResults, IdleStep, engineVars
<1>4. ASSUME NEW s \in Seqs, NEW r \in Requests, AddRequest(s, r) PROVE SyncInv'
  <2>1. /\ pc = "idle" /\ pc' = "idle" /\ plan' = plan
        /\ status' = [status EXCEPT ![s] = "waiting"]
        /\ token_ids' = [token_ids EXCEPT ![s] = r.prompt]
        /\ UNCHANGED <<num_cached_tokens, num_scheduled_tokens>>
    BY <1>4 DEF AddRequest, Create, callVars
  <2>2. pending = {} /\ pending' = {}
    BY <2>1 DEF pending
  <2>3. \A x \in Seqs \ {s} : status'[x] = status[x] /\ size(x)' = size(x)
    BY <1>1, <2>1 DEF TypeOK, size
  <2>4. status'[s] = "waiting"
    BY <1>1, <2>1
  <2>5. Caught'
    BY <1>1, <2>1, <2>3, <2>4, CaughtOne
  <2>6. Planned' /\ Following'
    BY <1>1, <2>1, <2>2, PlannedKept, FollowingKept
  <2> QED
    BY <1>1, <1>3, <2>5, <2>6 DEF SyncInv
<1>5. CASE StartStep
  <2>1. /\ pc = "idle" /\ pc' = "prefill" /\ plan' = plan
        /\ UNCHANGED <<status, token_ids, num_cached_tokens, num_scheduled_tokens>>
    BY <1>5 DEF StartStep, callVars, queueVars, blockManagerVars, seqVars
  <2>2. plan = <<>>
    BY <1>1, <2>1 DEF PlanInv
  <2>3. pending = {} /\ pending' = {}
    BY <2>1, <2>2 DEF pending
  <2> QED
    BY <1>1, <1>3, <2>1, <2>3, SyncKept
<1>6. CASE PrefillAllocate
  <2>1. waiting # <<>> /\ pc = "prefill"
    BY <1>6 DEF PrefillAllocate, InPrefillLoop
  <2>2. PICK s \in Seqs : s = front /\ status[s] = "waiting"
    BY <1>1, <2>1, FrontWaits
  <2>3. allocate(s) /\ UNCHANGED <<plan, pc, status>>
    BY <1>1, <1>6, <2>2 DEF PrefillAllocate, InternalError, callVars, queueVars
  <2>4. size(s) > 0 /\ size(s) \in Nat
    BY <1>1, <2>2, UnfinishedSize
  <2>5. /\ num_cached_tokens' = [num_cached_tokens EXCEPT ![s] = cached_tokens(s)]
        /\ UNCHANGED <<token_ids, num_scheduled_tokens>>
    BY <1>1, <2>3, <2>4, AllocatedTable
  <2>6. \A x \in Seqs \ {s} : num_cached_tokens'[x] = num_cached_tokens[x]
    BY <1>1, <2>5 DEF TypeOK
  <2>7. \A i \in DOMAIN plan : plan[i].seq # s
    BY <1>1, <2>1, <2>2, PlannedRunning
  <2>8. pending = DOMAIN plan /\ pending' = DOMAIN plan
    BY <2>1, <2>3 DEF pending
  <2>9. Planned' /\ Following'
    BY <1>1, <2>3, <2>5, <2>6, <2>7, <2>8, PlannedKept, FollowingKept
  <2>10. \A x \in Seqs : size(x)' = size(x)
    BY <2>5, SameText
  <2>11. Caught'
    BY <1>1, <2>1, <2>2, <2>3, <2>5, <2>6, <2>10, CaughtOne
  <2> QED
    BY <1>1, <1>3, <2>9, <2>11 DEF SyncInv
<1>7. CASE PrefillSchedule
  <2>1. waiting # <<>> /\ pc = "prefill" /\ block_table[front] # <<>>
    BY <1>7 DEF PrefillSchedule, InPrefillLoop
  <2>2. PICK s \in Seqs : s = front /\ status[s] = "waiting"
    BY <1>1, <2>1, FrontWaits
  <2> DEFINE left == remaining_tokens(s)
             n == IF left <= available THEN left ELSE available
  <2>3. /\ ~ token_budget_spent(s)
        /\ num_scheduled_tokens' = [num_scheduled_tokens EXCEPT ![s] = n]
        /\ plan' = Append(plan, [seq |-> s, start |-> num_cached_tokens[s], count |-> n])
        /\ pc' \in {"prefill", "run"}
        /\ UNCHANGED <<token_ids, num_cached_tokens>>
        /\ \/ /\ num_cached_tokens[s] + n = size(s)
              /\ status' = [status EXCEPT ![s] = "running"]
           \/ status' = status
    BY <1>1, <1>7, <2>2 DEF PrefillSchedule, InternalError, queueVars
  <2>4. /\ size(s) \in Nat \ {0} /\ num_cached_tokens[s] \in Nat
        /\ num_cached_tokens[s] < size(s)
    BY <1>1, <2>2, UnfinishedSize DEF EngineInv, BatchInv, Unfinished
  <2>5. left = size(s) - num_cached_tokens[s] /\ available \in Nat /\ available # 0
    <3>1. available \in Nat
      BY <1>1, BatchAssumption DEF QueueTypes, available
    <3> QED
      BY <2>3, <3>1 DEF remaining_tokens, token_budget_spent
  <2> HIDE DEF left
  <2>6. n \in Nat /\ n > 0
    BY <2>4, <2>5
  <2> HIDE DEF n
  <2>7. \A i \in DOMAIN plan : plan[i].seq # s
    BY <1>1, <2>1, <2>2, PlannedRunning
  <2>8. /\ num_scheduled_tokens'[s] = n /\ num_cached_tokens'[s] = num_cached_tokens[s]
        /\ \A x \in Seqs \ {s} : /\ num_scheduled_tokens'[x] = num_scheduled_tokens[x]
                                 /\ num_cached_tokens'[x] = num_cached_tokens[x]
                                 /\ status'[x] = status[x]
    BY <1>1, <2>3 DEF TypeOK
  <2>9. \A x \in Seqs : size(x)' = size(x)
    BY <2>3, SameText
  <2> DEFINE a == num_cached_tokens[s]
  <2>10. /\ a \in Nat /\ a = num_cached_tokens'[s]
         /\ plan' = Append(plan, [seq |-> s, start |-> a, count |-> n])
    BY <2>3, <2>4, <2>8
  <2> HIDE DEF a
  <2>11. Planned' /\ Following'
    <3>1. pc \in {"prefill", "decode"} /\ pc' \in {"prefill", "decode", "run"}
          /\ n = num_scheduled_tokens'[s]
      BY <2>1, <2>3, <2>8
    <3> QED
      BY <1>1, <2>6, <2>7, <2>8, <2>10, <3>1, JoinsPlan
  <2>12. status'[s] = "running" => num_cached_tokens[s] + n = size(s)
    BY <2>2, <2>3
  <2>13. Caught'
    BY <1>1, <2>1, <2>3, <2>6, <2>8, <2>9, <2>12, CaughtOne
  <2> QED
    BY <1>1, <1>3, <2>11, <2>13 DEF SyncInv
<1>8. CASE PrefillEnd
  <2>1. /\ pc = "prefill" /\ pc' \in {"run", "decode"} /\ plan' = plan
        /\ UNCHANGED <<status, token_ids, num_cached_tokens, num_scheduled_tokens>>
    BY <1>8 DEF PrefillEnd, queueVars, blockManagerVars, seqVars
  <2>2. pending = DOMAIN plan /\ pending' = DOMAIN plan
    BY <2>1 DEF pending
  <2> QED
    BY <1>1, <1>3, <2>1, <2>2, SyncKept
<1>9. CASE DecodeGrow
  <2>1. InDecodeLoop /\ may_append(oldest) /\ UNCHANGED <<pc, plan, status>>
    BY <1>9 DEF DecodeGrow, callVars, queueVars
  <2>2. pc = "decode" /\ UNCHANGED <<token_ids, num_cached_tokens, num_scheduled_tokens>>
    BY <2>1 DEF InDecodeLoop, may_append
  <2>3. pending = DOMAIN plan /\ pending' = DOMAIN plan
    BY <2>1, <2>2 DEF pending
  <2> QED
    BY <1>1, <1>3, <2>1, <2>2, <2>3, SyncKept
<1>10. CASE DecodeSchedule
  <2>1. InDecodeLoop
    BY <1>10 DEF DecodeSchedule
  <2>2. PICK s \in Seqs : s = oldest /\ pc = "decode" /\ status[s] = "running"
    BY <1>1, <2>1, OldestRuns
  <2>3. /\ num_scheduled_tokens' = [num_scheduled_tokens EXCEPT ![s] = 1]
        /\ plan' = Append(plan, [seq |-> s, start |-> size(s) - 1, count |-> 1])
        /\ UNCHANGED <<pc, status, token_ids, num_cached_tokens>>
    BY <1>10, <2>2 DEF DecodeSchedule
  <2>4. \A i \in DOMAIN plan : plan[i].seq # s
    BY <1>1, <2>1, <2>2, OldestRuns
  <2>5. /\ size(s) \in Nat \ {0} /\ num_cached_tokens[s] \in Nat
        /\ num_scheduled_tokens[s] \in Nat
    BY <1>1, <2>2, UnfinishedSize
  <2>6. num_cached_tokens[s] = size(s) - 1
    <3>1. num_scheduled_tokens[s] = 0
      BY <1>1, <2>2, <2>4 DEF Planned, pending
    <3> QED
      BY <1>1, <2>2, <2>5, <3>1 DEF Caught
  <2>7. /\ num_scheduled_tokens'[s] = 1 /\ num_cached_tokens'[s] = num_cached_tokens[s]
        /\ \A x \in Seqs \ {s} : /\ num_scheduled_tokens'[x] = num_scheduled_tokens[x]
                                 /\ num_cached_tokens'[x] = num_cached_tokens[x]
    BY <1>1, <2>3 DEF TypeOK
  <2>8. \A x \in Seqs : size(x)' = size(x)
    BY <2>3, SameText
  <2> DEFINE a == size(s) - 1
  <2>9. /\ a \in Nat /\ a = num_cached_tokens'[s] /\ a + 1 = size(s)
        /\ plan' = Append(plan, [seq |-> s, start |-> a, count |-> 1])
    BY <2>3, <2>5, <2>6, <2>7
  <2> HIDE DEF a
  <2>10. Planned' /\ Following'
    <3>1. /\ pc \in {"prefill", "decode"} /\ pc' \in {"prefill", "decode", "run"}
          /\ 1 \in Nat /\ 1 = num_scheduled_tokens'[s]
      BY <2>2, <2>3, <2>7
    <3> QED
      BY <1>1, <2>4, <2>7, <2>9, <3>1, JoinsPlan
  <2>11. Caught'
    <3>1. num_cached_tokens'[s] + num_scheduled_tokens'[s] = size(s)' /\ 1 > 0
      BY <2>7, <2>8, <2>9
    <3> QED
      BY <1>1, <2>2, <2>3, <2>7, <2>8, <3>1, CaughtOne
  <2> QED
    BY <1>1, <1>3, <2>10, <2>11 DEF SyncInv
<1>11. CASE Preempt
  <2>1. InDecodeLoop /\ deallocate(oldest) /\ UNCHANGED <<pc, plan>>
        /\ status' = [status EXCEPT ![oldest] = "waiting"]
    BY <1>11 DEF Preempt
  <2>2. PICK s \in Seqs : s = oldest /\ pc = "decode"
    BY <1>1, <2>1, OldestRuns
  <2>3. /\ UNCHANGED token_ids /\ num_scheduled_tokens'[s] = 0
        /\ \A x \in Seqs \ {s} : /\ num_cached_tokens'[x] = num_cached_tokens[x]
                                 /\ num_scheduled_tokens'[x] = num_scheduled_tokens[x]
    BY <1>1, <2>1, <2>2, DeallocatedTable
  <2>4. status'[s] = "waiting" /\ \A x \in Seqs \ {s} : status'[x] = status[x]
    BY <1>1, <2>1, <2>2
  <2>5. \A x \in Seqs : size(x)' = size(x)
    BY <2>3, SameText
  <2>6. \A i \in DOMAIN plan : plan[i].seq # s
    BY <1>1, <2>1, <2>2, OldestRuns
  <2>7. pending = DOMAIN plan /\ pending' = DOMAIN plan
    BY <2>1, <2>2 DEF pending
  <2>8. Planned'
    <3>1. \A x \in Seqs : num_scheduled_tokens'[x] # 0 => num_scheduled_tokens[x] # 0
      BY <2>3
    <3> QED
      BY <1>1, <2>1, <2>7, <3>1, PlannedKept
  <2>9. Following'
    BY <1>1, <2>1, <2>3, <2>6, <2>7, FollowingKept
  <2>10. Caught'
    BY <1>1, <2>1, <2>2, <2>3, <2>4, <2>5, CaughtOne
  <2> QED
    BY <1>1, <1>3, <2>8, <2>9, <2>10 DEF SyncInv
<1>12. CASE DecodeEnd
  <2>1. /\ pc = "decode" /\ pc' \in {"run", "prefill"}
        /\ \/ plan' = plan
           \/ plan = <<>> /\ plan' = <<>>
        /\ UNCHANGED <<status, token_ids, num_cached_tokens, num_scheduled_tokens>>
    BY <1>1, <1>12 DEF DecodeEnd, InternalError, ClearCall, callVars, queueVars,
                       blockManagerVars, seqVars
  <2>2. plan' = plan
    BY <2>1
  <2>3. pending = DOMAIN plan /\ pending' = DOMAIN plan
    BY <2>1, <2>2 DEF pending
  <2> QED
    BY <1>1, <1>3, <2>1, <2>2, <2>3, SyncKept
<1>13. CASE RunBatch
  <2>1. /\ pc = "run" /\ pc' = "commit" /\ index' = 1 /\ plan' = plan
        /\ UNCHANGED <<status, token_ids, num_cached_tokens, num_scheduled_tokens>>
    BY <1>13 DEF RunBatch, queueVars, blockManagerVars, seqVars
  <2>2. DOMAIN plan = 1 .. Len(plan)
    BY <1>1, PendingInPlan
  <2>3. pending = DOMAIN plan /\ pending' = DOMAIN plan
    BY <2>1, <2>2 DEF pending
  <2> QED
    BY <1>1, <1>3, <2>1, <2>3, SyncKept
<1>14. CASE CollectResults
  <2>1. /\ pc = "collect" /\ pc' = "idle"
        /\ UNCHANGED <<status, token_ids, num_cached_tokens, num_scheduled_tokens>>
    BY <1>14 DEF CollectResults, Return, queueVars, blockManagerVars, seqVars
  <2>2. pending = {} /\ pending' = {}
    BY <2>1 DEF pending
  <2> QED
    BY <1>1, <1>3, <2>1, <2>2, SyncKept
<1>15. CASE PostCommit \/ PostEmit \/ PostRelease
  BY <1>1, <1>3, <1>15, SyncWalk
<1>16. CASE UNCHANGED engineVars
  <2>1. UNCHANGED <<pc, plan, index, status, token_ids, num_cached_tokens,
                    num_scheduled_tokens>>
    BY <1>16 DEF engineVars, schedulerVars, queueVars, callVars, blockManagerVars, seqVars
  <2>2. pending' = pending /\ current' = current
    BY <2>1 DEF pending, current
  <2>3. \A x \in Seqs : size(x)' = size(x)
    BY <2>1, SameText
  <2>4. Planned' /\ Following'
    BY <1>1, <2>1, <2>2, PlannedKept, FollowingKept
  <2>5. Caught'
    BY <1>1, <2>1, <2>2, <2>3 DEF Caught
  <2> QED
    BY <1>1, <1>3, <2>4, <2>5 DEF SyncInv
<1> QED
  BY <1>2, <1>4, <1>5, <1>6, <1>7, <1>8, <1>9, <1>10, <1>11, <1>12, <1>13, <1>14, <1>15, <1>16
    DEF LLMEngineNext, EngineStep, SchedulerStep, ScheduleStep, PostprocessStep, IdleStep

-----------------------------------------------------------------------------
(* The contents of the cache *)

\* The batch has run, and its tokens are being accounted for.
ran == pc \in {"commit", "emit", "release"}

\* How far the keys and values of s have been computed.
reached(s) == num_cached_tokens[s] + IF ran THEN num_scheduled_tokens[s] ELSE 0

Written(s, pos) == kv[block_table[s][page(pos)]][pos % BlockSize] = text_upto(s, pos)

KvReached == \A s \in Seqs : \A pos \in 0 .. reached(s) - 1 : Written(s, pos)

\* Block b is block n of a text: its hash is that of the whole prefix, and so are
\* the texts its cells were computed from.
Holds(b, text, n) ==
  /\ n * BlockSize <= Len(text)
  /\ \E f : Links(f, text, n) /\ hash[b] = f[n]
  /\ block_ids[b] = Piece(text, n)
  /\ \A o \in Offset : kv[b][o] = SubSeq(text, 1, (n - 1) * BlockSize + 1 + o)

KvPublished ==
  \A b \in Block : hash_valid[b] =>
    \E n \in Nat \ {0}, text \in Seq(Token) : Holds(b, text, n)

\* Where a position lies in the table.
LEMMA PageFacts ==
  ASSUME NEW n \in Nat, NEW pos \in Nat, pos < n * BlockSize
  PROVE  /\ page(pos) \in 1 .. n /\ pos % BlockSize \in Offset
         /\ pos = (page(pos) - 1) * BlockSize + (pos % BlockSize)
<1> DEFINE d == pos \div BlockSize
           o == pos % BlockSize
<1>1. d \in Nat /\ d * BlockSize <= pos /\ o \in 0 .. BlockSize - 1
  BY DivBounds, PoolAssumption
<1>2. pos = d * BlockSize + o
  <2>1. ASSUME NEW a \in Nat, NEW m \in Nat \ {0} PROVE a = m * (a \div m) + (a % m)
    OBVIOUS
  <2>2. pos = BlockSize * d + o
    BY <2>1, PoolAssumption
  <2>3. BlockSize * d = d * BlockSize
    <3> HIDE DEF d
    <3> QED
      BY <1>1, PoolAssumption
  <2> HIDE DEF d, o
  <2> QED
    BY <2>2, <2>3
<1>3. page(pos) = d + 1
  BY DEF page
<1> HIDE DEF d, o
<1>4. d < n
  <2>1. CASE n <= d
    <3>1. n * BlockSize <= d * BlockSize /\ n * BlockSize \in Nat /\ d * BlockSize \in Nat
      BY <1>1, <2>1, ProductMonotone, PoolAssumption
    <3> QED
      BY <1>1, <3>1
  <2> QED
    BY <1>1, <2>1
<1>5. (d + 1) - 1 = d
  BY <1>1
<1> QED
  BY <1>1, <1>2, <1>3, <1>4, <1>5 DEF Offset, o

\* The places where sequence s has been, or is about to be, computed.
LEMMA ReachFacts ==
  ASSUME TypeOK, Covered, NEW s \in Seqs,
         NEW pos \in 0 .. num_cached_tokens[s] + num_scheduled_tokens[s] - 1
  PROVE  /\ pos \in Nat /\ pos < size(s) /\ pos < Len(block_table[s]) * BlockSize
         /\ page(pos) \in 1 .. Len(block_table[s]) /\ pos % BlockSize \in Offset
         /\ block_table[s][page(pos)] \in Block
<1>1. /\ num_cached_tokens[s] \in Nat /\ num_scheduled_tokens[s] \in Nat
      /\ size(s) \in Nat /\ Len(block_table[s]) \in Nat
  BY TypeFacts
<1>2. Len(block_table[s]) * BlockSize \in Nat
  BY <1>1, PoolAssumption
<1>3. /\ num_cached_tokens[s] + num_scheduled_tokens[s] <= size(s)
      /\ num_cached_tokens[s] + num_scheduled_tokens[s] <= Len(block_table[s]) * BlockSize
  BY DEF Covered
<1>4. pos \in Nat /\ pos < size(s) /\ pos < Len(block_table[s]) * BlockSize
  BY <1>1, <1>2, <1>3
<1>5. page(pos) \in 1 .. Len(block_table[s]) /\ pos % BlockSize \in Offset
  BY <1>1, <1>4, PageFacts
<1> QED
  BY <1>4, <1>5, TypeFacts

LEMMA ReachedBound ==
  ASSUME TypeOK, NEW s \in Seqs
  PROVE  /\ reached(s) \in Nat
         /\ reached(s) <= num_cached_tokens[s] + num_scheduled_tokens[s]
         /\ num_cached_tokens[s] <= reached(s)
BY TypeFacts DEF reached

\* Equal beginnings.
LEMMA SamePrefix ==
  ASSUME NEW text \in Seq(Token), NEW other \in Seq(Token), NEW n \in Nat,
         n <= Len(text), n <= Len(other), \A j \in 1 .. n : text[j] = other[j]
  PROVE  SubSeq(text, 1, n) = SubSeq(other, 1, n)
<1>1. /\ Len(text) \in Nat /\ Len(other) \in Nat
      /\ \A k \in 1 .. n : text[k] \in Token /\ other[k] \in Token
  BY LenProperties, ElementOfSeq
<1>2. /\ SubSeq(text, 1, n) \in Seq(Token)
      /\ Len(SubSeq(text, 1, n)) = IF 1 <= n THEN n - 1 + 1 ELSE 0
      /\ \A i \in 1 .. n - 1 + 1 : SubSeq(text, 1, n)[i] = text[1 + i - 1]
  BY <1>1, SubSeqProperties
<1>3. /\ SubSeq(other, 1, n) \in Seq(Token)
      /\ Len(SubSeq(other, 1, n)) = IF 1 <= n THEN n - 1 + 1 ELSE 0
      /\ \A i \in 1 .. n - 1 + 1 : SubSeq(other, 1, n)[i] = other[1 + i - 1]
  BY <1>1, SubSeqProperties
<1>4. \A i \in 1 .. n : i \in 1 .. n - 1 + 1 /\ 1 + i - 1 = i
  OBVIOUS
<1>5. Len(SubSeq(text, 1, n)) = Len(SubSeq(other, 1, n))
      /\ 1 .. Len(SubSeq(text, 1, n)) \subseteq 1 .. n
  BY <1>2, <1>3
<1>6. \A i \in 1 .. Len(SubSeq(text, 1, n)) : SubSeq(text, 1, n)[i] = SubSeq(other, 1, n)[i]
  <2> SUFFICES ASSUME NEW i \in 1 .. n PROVE SubSeq(text, 1, n)[i] = SubSeq(other, 1, n)[i]
    BY <1>5
  <2>1. SubSeq(text, 1, n)[i] = text[i]
    BY <1>2, <1>4
  <2>2. SubSeq(other, 1, n)[i] = other[i]
    BY <1>3, <1>4
  <2> QED
    BY <2>1, <2>2
<1> QED
  BY <1>2, <1>3, <1>5, <1>6, SeqEqual

\* What is left of a sequence, and not written to, stays computed.
LEMMA ReachedKept ==
  ASSUME TypeOK, Covered, KvReached, NEW s \in Seqs, reached(s)' \in Nat,
         reached(s)' <= reached(s),
         \A i \in 1 .. Len(block_table[s]) : block_table'[s][i] = block_table[s][i],
         \A pos \in 0 .. reached(s) - 1 :
           LET b == block_table[s][page(pos)]
           IN  /\ text_upto(s, pos)' = text_upto(s, pos)
               /\ kv'[b][pos % BlockSize] = kv[b][pos % BlockSize]
  PROVE  \A pos \in 0 .. reached(s)' - 1 : Written(s, pos)'
<1> SUFFICES ASSUME NEW pos \in 0 .. reached(s)' - 1 PROVE Written(s, pos)'
  OBVIOUS
<1>1. /\ reached(s) \in Nat
      /\ reached(s) <= num_cached_tokens[s] + num_scheduled_tokens[s]
      /\ num_cached_tokens[s] \in Nat /\ num_scheduled_tokens[s] \in Nat
  BY ReachedBound, TypeFacts
<1>2. pos \in 0 .. reached(s) - 1
      /\ pos \in 0 .. num_cached_tokens[s] + num_scheduled_tokens[s] - 1
  BY <1>1
<1>3. page(pos) \in 1 .. Len(block_table[s])
  BY <1>2, ReachFacts
<1>4. Written(s, pos)
  BY <1>2 DEF KvReached
<1>5. block_table'[s][page(pos)] = block_table[s][page(pos)]
  BY <1>3
<1>6. /\ text_upto(s, pos)' = text_upto(s, pos)
      /\ kv'[block_table[s][page(pos)]][pos % BlockSize]
           = kv[block_table[s][page(pos)]][pos % BlockSize]
  BY <1>2
<1>7. Written(s, pos)' <=>
        kv'[block_table'[s][page(pos)]][pos % BlockSize] = text_upto(s, pos)'
  BY DEF Written, page
<1> QED
  BY <1>4, <1>5, <1>6, <1>7 DEF Written

\* A published block that is left as it is stays what it is.
LEMMA PublishedLeft ==
  ASSUME KvPublished,
         \A b \in Block : hash_valid'[b] =>
           /\ hash_valid[b] /\ hash'[b] = hash[b] /\ block_ids'[b] = block_ids[b]
           /\ kv'[b] = kv[b]
  PROVE  KvPublished'
<1> SUFFICES ASSUME NEW b \in Block, hash_valid'[b]
             PROVE  \E n \in Nat \ {0}, text \in Seq(Token) : Holds(b, text, n)'
  BY DEF KvPublished
<1>1. PICK n \in Nat \ {0}, text \in Seq(Token) : Holds(b, text, n)
  BY DEF KvPublished
<1>2. Holds(b, text, n)'
  BY <1>1 DEF Holds, Links, Piece, Offset
<1> QED
  BY <1>2

LEMMA ReachedLess ==
  ASSUME TypeOK, NEW s \in Seqs, num_cached_tokens'[s] = num_cached_tokens[s],
         ~ ran' \/ (num_scheduled_tokens'[s] = num_scheduled_tokens[s] /\ (ran' => ran))
  PROVE  reached(s)' \in Nat /\ reached(s)' <= reached(s)
<1>1. num_cached_tokens[s] \in Nat /\ num_scheduled_tokens[s] \in Nat
  BY TypeFacts
<1>2. reached(s)' = num_cached_tokens'[s] + IF ran' THEN num_scheduled_tokens'[s] ELSE 0
  BY DEF reached
<1>3. CASE ~ ran'
  BY <1>1, <1>2, <1>3 DEF reached
<1>4. CASE ran'
  BY <1>1, <1>2, <1>4 DEF reached
<1> QED
  BY <1>3, <1>4

\* A sequence whose text and table stay what they are.
LEMMA SeqLeft ==
  ASSUME TypeOK, Covered, KvReached, NEW s \in Seqs, UNCHANGED kv,
         token_ids'[s] = token_ids[s], block_table'[s] = block_table[s],
         num_cached_tokens'[s] = num_cached_tokens[s],
         ~ ran' \/ (num_scheduled_tokens'[s] = num_scheduled_tokens[s] /\ (ran' => ran))
  PROVE  \A pos \in 0 .. reached(s)' - 1 : Written(s, pos)'
<1>1. reached(s)' \in Nat /\ reached(s)' <= reached(s)
  BY ReachedLess
<1>2. \A pos : text_upto(s, pos)' = text_upto(s, pos)
  BY DEF text_upto
<1> QED
  BY <1>1, <1>2, ReachedKept

\* A step that leaves texts, tables and contents alone.
LEMMA QuietKv ==
  ASSUME TypeOK, Covered, KvReached, KvPublished,
         UNCHANGED <<token_ids, block_table, num_cached_tokens, kv, hash_valid, hash, block_ids>>,
         ~ ran' \/ UNCHANGED <<pc, num_scheduled_tokens>>
  PROVE  KvReached' /\ KvPublished'
<1>1. UNCHANGED pc => (ran' => ran)
  BY DEF ran
<1>2. KvReached'
  BY <1>1, SeqLeft DEF KvReached
<1>3. KvPublished'
  BY PublishedLeft
<1> QED
  BY <1>2, <1>3

-----------------------------------------------------------------------------
(* A batch *)

\* The cells of cached tokens are nobody's to write, ...
LEMMA CachedUnwritten ==
  ASSUME EngineInv, pc = "run", NEW s \in Seqs, NEW pos \in 0 .. num_cached_tokens[s] - 1
  PROVE  {r \in rows : cell(r.seq, r.pos) = cell(s, pos)} = {}
<1> SUFFICES ASSUME NEW r \in rows, cell(r.seq, r.pos) = cell(s, pos) PROVE FALSE
  OBVIOUS
<1>1. IndInv /\ TypeOK /\ Covered
  BY DEF EngineInv, IndInv
<1>2. /\ r.seq \in Seqs /\ r.pos \in Nat /\ num_cached_tokens[r.seq] <= r.pos
      /\ page(r.pos) \in hash_start(r.seq) + 1 .. Len(block_table[r.seq])
  BY RowFacts
<1>3. num_cached_tokens[s] \in Nat /\ num_scheduled_tokens[s] \in Nat
  BY <1>1, TypeFacts
<1>4. pos \in 0 .. num_cached_tokens[s] + num_scheduled_tokens[s] - 1 /\ pos \in Nat
  BY <1>3
<1>5. page(pos) \in 1 .. Len(block_table[s])
  BY <1>1, <1>4, ReachFacts
<1>6. /\ block_table[r.seq][page(r.pos)] = block_table[s][page(pos)]
      /\ r.pos % BlockSize = pos % BlockSize
  BY DEF cell
<1>7. s = r.seq /\ page(pos) = page(r.pos)
  BY <1>1, <1>2, <1>5, <1>6, TailNamedOnce
<1>8. pos = r.pos
  BY <1>2, <1>4, <1>6, <1>7, SamePosition
<1> QED
  BY <1>2, <1>3, <1>7, <1>8

\* ... and each of the others is written by its own row.
LEMMA ScheduledWritten ==
  ASSUME EngineInv, SyncInv, pc = "run", NEW s \in Seqs,
         NEW pos \in num_cached_tokens[s] .. num_cached_tokens[s] + num_scheduled_tokens[s] - 1
  PROVE  \E r \in rows : /\ r.seq = s /\ r.pos = pos
                         /\ {q \in rows : cell(q.seq, q.pos) = cell(s, pos)} = {r}
<1>1. TypeOK /\ QueueInv /\ Planned /\ Following
  BY DEF EngineInv, IndInv, SyncInv
<1>2. num_cached_tokens[s] \in Nat /\ num_scheduled_tokens[s] \in Nat
  BY <1>1, TypeFacts
<1>3. PICK i \in pending : plan[i].seq = s
  BY <1>1, <1>2 DEF Planned
<1>4. /\ i \in DOMAIN plan /\ plan[i].start = num_cached_tokens[s]
      /\ plan[i].count = num_scheduled_tokens[s]
  BY <1>1, <1>3, PendingInPlan DEF QueueInv, Following
<1> DEFINE r == [item |-> i, seq |-> plan[i].seq, pos |-> pos]
<1>5. r \in rows
  BY <1>4 DEF rows
<1>6. r.seq = s /\ r.pos = pos
  BY <1>3
<1> HIDE DEF r
<1>7. \A q \in rows : cell(q.seq, q.pos) = cell(r.seq, r.pos) => q = r
  BY <1>5, OwnCells DEF NoSharedWrite
<1> QED
  BY <1>5, <1>6, <1>7

LEMMA StoredText ==
  ASSUME EngineInv, SyncInv, KvReached, pc = "run", NEW s \in Seqs,
         NEW pos \in 0 .. num_cached_tokens[s] + num_scheduled_tokens[s] - 1
  PROVE  stored(cell(s, pos)) = {text_upto(s, pos)}
<1>1. num_cached_tokens[s] \in Nat /\ num_scheduled_tokens[s] \in Nat
  BY TypeFacts DEF EngineInv, IndInv
<1>2. CASE pos < num_cached_tokens[s]
  <2>1. pos \in 0 .. num_cached_tokens[s] - 1
    BY <1>1, <1>2
  <2>2. {r \in rows : cell(r.seq, r.pos) = cell(s, pos)} = {}
    BY <2>1, CachedUnwritten
  <2>3. reached(s) = num_cached_tokens[s]
    BY <1>1 DEF reached, ran
  <2>4. kv[block_table[s][page(pos)]][pos % BlockSize] = text_upto(s, pos)
    BY <2>1, <2>3 DEF KvReached, Written
  <2>5. kv[cell(s, pos)[1]][cell(s, pos)[2]] = text_upto(s, pos)
    BY <2>4 DEF cell
  <2> QED
    BY <2>2, <2>5 DEF stored
<1>3. CASE num_cached_tokens[s] <= pos
  <2>1. pos \in num_cached_tokens[s] .. num_cached_tokens[s] + num_scheduled_tokens[s] - 1
    BY <1>1, <1>3
  <2>2. PICK r \in rows : /\ r.seq = s /\ r.pos = pos
                          /\ {q \in rows : cell(q.seq, q.pos) = cell(s, pos)} = {r}
    BY <2>1, ScheduledWritten
  <2>3. {text_upto(q.seq, q.pos) : q \in {r}} = {text_upto(s, pos)}
    BY <2>2
  <2> QED
    BY <2>2, <2>3 DEF stored
<1> QED
  BY <1>1, <1>2, <1>3

\* Every row computes its key and value from its sequence's text.
LEMMA RowsComputed ==
  ASSUME EngineInv, SyncInv, KvReached, pc = "run", NEW r \in rows
  PROVE  reads_own_text(r) /\ computed_cell(r) = text_upto(r.seq, r.pos)
<1>1. TypeOK /\ QueueInv /\ Following
  BY DEF EngineInv, IndInv, SyncInv
<1>2. /\ r.item \in DOMAIN plan /\ r.seq \in Seqs /\ r.seq = plan[r.item].seq
      /\ r.pos \in Nat
  BY RowFacts
<1>3. r \in entry_rows(r.item, plan[r.item].seq, plan[r.item].start, plan[r.item].count)
  <2>1. PICK i \in DOMAIN plan : r \in entry_rows(i, plan[i].seq, plan[i].start, plan[i].count)
    BY RowsMembers
  <2>2. r.item = i
    BY <2>1 DEF entry_rows
  <2> QED
    BY <2>1, <2>2
<1>4. r.pos \in plan[r.item].start .. plan[r.item].start + plan[r.item].count - 1
  BY <1>3 DEF entry_rows
<1>5. r.item \in pending
  BY <1>2 DEF pending
<1>6. /\ plan[r.item].start = num_cached_tokens[r.seq]
      /\ plan[r.item].count = num_scheduled_tokens[r.seq]
  BY <1>1, <1>2, <1>5 DEF Following
<1>7. num_cached_tokens[r.seq] \in Nat /\ num_scheduled_tokens[r.seq] \in Nat
  BY <1>1, <1>2, TypeFacts
<1>8. \A p \in 0 .. r.pos :
        p \in 0 .. num_cached_tokens[r.seq] + num_scheduled_tokens[r.seq] - 1
  BY <1>2, <1>4, <1>6, <1>7
<1>9. reads_own_text(r)
  BY <1>2, <1>8, StoredText DEF reads_own_text
<1> QED
  BY <1>9 DEF computed_cell

LEMMA RunKv ==
  ASSUME EngineInv, SyncInv, Shape, KvReached, KvPublished, RunBatch
  PROVE  KvReached' /\ KvPublished'
<1> DEFINE content == [r \in rows |-> computed_cell(r)]
<1>1. /\ pc = "run" /\ pc' = "commit" /\ kv' = kv_storing(content)
      /\ UNCHANGED blockManagerVars
  BY DEF RunBatch
<1>2. TypeOK /\ Covered
  BY DEF EngineInv, IndInv
<1>3. \A r \in rows : content[r] = text_upto(r.seq, r.pos)
  BY <1>1, RowsComputed
<1> HIDE DEF content
<1>4. KvReached'
  <2> SUFFICES ASSUME NEW s \in Seqs, NEW pos \in 0 .. reached(s)' - 1
               PROVE  Written(s, pos)'
    BY DEF KvReached
  <2> DEFINE b == block_table[s][page(pos)]
             o == pos % BlockSize
             writers == {r \in rows : cell(r.seq, r.pos) = <<b, o>>}
  <2>1. num_cached_tokens[s] \in Nat /\ num_scheduled_tokens[s] \in Nat
    BY <1>2, TypeFacts
  <2>2. reached(s)' = num_cached_tokens[s] + num_scheduled_tokens[s]
    BY <1>1 DEF reached, ran, blockManagerVars, seqVars
  <2>3. pos \in 0 .. num_cached_tokens[s] + num_scheduled_tokens[s] - 1
    BY <2>1, <2>2
  <2>4. b \in Block /\ o \in Offset
    BY <1>2, <2>3, ReachFacts
  <2>5. kv'[b][o] = IF writers = {} THEN kv[b][o] ELSE content[CHOOSE r \in writers : TRUE]
    BY <1>1, <2>4, Storing
  <2>6. cell(s, pos) = <<b, o>>
    BY DEF cell
  <2>7. kv'[b][o] = text_upto(s, pos)
    <3>1. CASE pos < num_cached_tokens[s]
      <4>1. pos \in 0 .. num_cached_tokens[s] - 1
        BY <2>1, <2>3, <3>1
      <4>2. writers = {}
        BY <1>1, <2>6, <4>1, CachedUnwritten
      <4>3. reached(s) = num_cached_tokens[s]
        BY <1>1, <2>1 DEF reached, ran
      <4>4. kv[b][o] = text_upto(s, pos)
        BY <4>1, <4>3 DEF KvReached, Written
      <4> QED
        BY <2>5, <4>2, <4>4
    <3>2. CASE num_cached_tokens[s] <= pos
      <4>1. pos \in num_cached_tokens[s] .. num_cached_tokens[s] + num_scheduled_tokens[s] - 1
        BY <2>1, <2>3, <3>2
      <4>2. PICK r \in rows : r.seq = s /\ r.pos = pos /\ writers = {r}
        BY <1>1, <2>6, <4>1, ScheduledWritten
      <4> HIDE DEF writers
      <4>3. (CHOOSE q \in writers : TRUE) = r
        BY <4>2
      <4> QED
        BY <1>3, <2>5, <4>2, <4>3
    <3> QED
      BY <2>1, <2>3, <3>1, <3>2
  <2>8. block_table'[s][page(pos)] = b /\ text_upto(s, pos)' = text_upto(s, pos)
    BY <1>1 DEF blockManagerVars, seqVars, text_upto
  <2> HIDE DEF b, o
  <2>9. Written(s, pos)' <=> kv'[block_table'[s][page(pos)]][pos % BlockSize] = text_upto(s, pos)'
    BY DEF Written, page
  <2> QED
    BY <2>7, <2>8, <2>9 DEF o
<1>5. KvPublished'
  <2>1. [LLMEngineNext]_engineVars
    BY DEF LLMEngineNext, EngineStep
  <2>2. /\ hash_valid' = hash_valid /\ hash' = hash /\ block_ids' = block_ids
    BY <1>1 DEF blockManagerVars, poolVars
  <2>3. \A b \in Block : hash_valid[b] => kv'[b] = kv[b]
    BY <2>1, PublishedKept
  <2> QED
    BY <2>2, <2>3, PublishedLeft
<1> QED
  BY <1>4, <1>5

-----------------------------------------------------------------------------
(* The steps that move blocks, tokens or accounts *)

\* A shared block holds the very prefix of the sequence that takes it over.
LEMMA AllocateKv ==
  ASSUME Collisionless, IndInv, KvReached, KvPublished, NEW s \in Seqs, size(s) > 0,
         allocate(s), UNCHANGED kv, ~ ran'
  PROVE  KvReached' /\ KvPublished'
<1> DEFINE c == cached_blocks(s)
           text == token_ids[s]
           chain == prefix_hash(s, 0, ZeroHash)
<1>1. TypeOK /\ Covered /\ IndexSound
  BY DEF IndInv
<1>2. text \in Seq(Token) /\ Len(text) \in Nat /\ Len(text) = size(s)
  BY <1>1, TypeFacts DEF size
<1>3. /\ \A i \in 1 .. c : block_table'[s][i] = hit_block(s, i)
      /\ num_cached_tokens'[s] = c * BlockSize
      /\ UNCHANGED <<token_ids, num_scheduled_tokens>>
      /\ \A r \in Seqs \ {s} : /\ block_table'[r] = block_table[r]
                               /\ num_cached_tokens'[r] = num_cached_tokens[r]
      /\ \A b \in Block : hash_valid'[b] =>
           hash_valid[b] /\ hash'[b] = hash[b] /\ block_ids'[b] = block_ids[b]
  BY AllocateEffect
<1>4. /\ chain[0] = ZeroHash
      /\ \A i \in 1 .. c : /\ hash[hit_block(s, i)] = chain[i]
                           /\ chain[i] = Fnv(block_tokens(s, i), chain[i - 1])
  BY <1>1, HitHashes
<1>5. c \in Nat /\ \A i \in 1 .. c : hit_block(s, i) \in Block /\ hash_valid[hit_block(s, i)]
  BY <1>1, CachedBlocks
<1>6. c * BlockSize < Len(text) /\ c * BlockSize \in Nat
  BY <1>1, <1>2, <1>5, CachedLess, PoolAssumption DEF cached_tokens
<1> HIDE DEF c, chain
<1>7. \A i \in 1 .. c : i * BlockSize <= Len(text) /\ i * BlockSize \in Nat
  <2> TAKE i \in 1 .. c
  <2>1. i * BlockSize <= c * BlockSize /\ i * BlockSize \in Nat
    BY <1>5, ProductMonotone, PoolAssumption
  <2> QED
    BY <1>2, <1>6, <2>1
<1>8. \A i \in 1 .. c : block_tokens(s, i) = Piece(text, i)
  BY <1>2, <1>7 DEF block_tokens, Piece
<1>9. \A i \in 1 .. c : Links(chain, text, i)
  BY <1>4, <1>5, <1>8 DEF Links
<1>10. ASSUME NEW pos \in 0 .. c * BlockSize - 1 PROVE Written(s, pos)'
  <2> DEFINE i == page(pos)
             o == pos % BlockSize
             b == hit_block(s, i)
  <2>1. pos \in Nat /\ pos < c * BlockSize
    BY <1>6
  <2>2. i \in 1 .. c /\ o \in Offset /\ pos = (i - 1) * BlockSize + o
    BY <1>5, <2>1, PageFacts
  <2> HIDE DEF i, o
  <2>3. b \in Block /\ hash_valid[b] /\ hash[b] = chain[i]
    BY <1>4, <1>5, <2>2
  <2> HIDE DEF b
  <2>4. PICK n \in Nat \ {0}, other \in Seq(Token) : Holds(b, other, n)
    BY <2>3 DEF KvPublished
  <2>5. PICK f :
        /\ n * BlockSize <= Len(other) /\ Links(f, other, n) /\ hash[b] = f[n]
        /\ kv[b][o] = SubSeq(other, 1, (n - 1) * BlockSize + 1 + o)
    BY <2>2, <2>4 DEF Holds
  <2>6. i = n /\ \A j \in 1 .. n * BlockSize : text[j] = other[j]
    <3>1. i \in Nat /\ n \in Nat /\ chain[i] = f[n] /\ i * BlockSize <= Len(text)
          /\ Links(chain, text, i)
      BY <1>5, <1>7, <1>9, <2>2, <2>3, <2>5
    <3> QED
      BY <1>2, <2>5, <3>1, SameChain
  <2>7. kv[b][o] = SubSeq(other, 1, pos + 1)
    <3>1. (n - 1) * BlockSize \in Nat /\ o \in Nat
      BY <2>2, PoolAssumption DEF Offset
    <3>2. (n - 1) * BlockSize + 1 + o = pos + 1
      BY <2>2, <2>6, <3>1
    <3> QED
      BY <2>5, <3>2
  <2>8. SubSeq(text, 1, pos + 1) = SubSeq(other, 1, pos + 1)
    <3>1. /\ i * BlockSize = (i - 1) * BlockSize + BlockSize
          /\ i * BlockSize <= Len(text) /\ (i - 1) * BlockSize \in Nat
      <4>1. i \in Nat \ {0} /\ i * BlockSize <= Len(text)
        BY <1>5, <1>7, <2>2
      <4> QED
        BY <1>2, <4>1, PieceFacts
    <3>2. pos + 1 \in Nat /\ pos + 1 <= n * BlockSize /\ n * BlockSize \in Nat
      BY <2>1, <2>2, <2>6, <3>1, PoolAssumption DEF Offset
    <3>3. Len(other) \in Nat
      OBVIOUS
    <3>4. /\ pos + 1 <= Len(text) /\ pos + 1 <= Len(other)
          /\ \A j \in 1 .. pos + 1 : text[j] = other[j]
      BY <1>2, <2>5, <2>6, <3>1, <3>2, <3>3
    <3> QED
      BY <1>2, <3>2, <3>4, SamePrefix
  <2>9. /\ block_table'[s][page(pos)] = b
        /\ text_upto(s, pos)' = SubSeq(text, 1, pos + 1)
    BY <1>3, <2>2 DEF text_upto, b, i
  <2>10. Written(s, pos)' <=> kv'[block_table'[s][page(pos)]][pos % BlockSize] = text_upto(s, pos)'
    BY DEF Written, page
  <2> QED
    BY <2>7, <2>8, <2>9, <2>10 DEF o
<1>11. reached(s)' = c * BlockSize
  BY <1>3, <1>6 DEF reached
<1>12. KvReached'
  <2> SUFFICES ASSUME NEW x \in Seqs PROVE \A pos \in 0 .. reached(x)' - 1 : Written(x, pos)'
    BY DEF KvReached
  <2>1. CASE x = s
    BY <1>10, <1>11, <2>1
  <2>2. CASE x # s
    BY <1>1, <1>3, <2>2, SeqLeft
  <2> QED
    BY <2>1, <2>2
<1>13. KvPublished'
  BY <1>3, PublishedLeft
<1> QED
  BY <1>12, <1>13

LEMMA GrowKv ==
  ASSUME IndInv, KvReached, KvPublished, NEW s \in Seqs, may_append(s), UNCHANGED kv, ~ ran'
  PROVE  KvReached' /\ KvPublished'
<1>1. /\ \A r \in Seqs : \A i \in 1 .. Len(block_table[r]) :
           block_table'[r][i] = block_table[r][i]
      /\ UNCHANGED <<token_ids, num_cached_tokens, num_scheduled_tokens>>
      /\ \A b \in Block : hash_valid'[b] =>
           hash_valid[b] /\ hash'[b] = hash[b] /\ block_ids'[b] = block_ids[b]
  BY MayAppendEffect
<1>2. TypeOK /\ Covered
  BY DEF IndInv
<1>3. \A x \in Seqs : reached(x)' \in Nat /\ reached(x)' <= reached(x)
  BY <1>1, <1>2, ReachedLess
<1>4. \A x \in Seqs : \A pos : text_upto(x, pos)' = text_upto(x, pos)
  BY <1>1 DEF text_upto
<1>5. KvReached'
  BY <1>1, <1>2, <1>3, <1>4, ReachedKept DEF KvReached
<1>6. KvPublished'
  BY <1>1, PublishedLeft
<1> QED
  BY <1>5, <1>6

LEMMA ReleaseKv ==
  ASSUME TypeOK, Covered, KvReached, KvPublished, NEW s \in Seqs, deallocate(s), UNCHANGED kv,
         ran' => ran
  PROVE  KvReached' /\ KvPublished'
<1>1. /\ num_cached_tokens'[s] = 0 /\ num_scheduled_tokens'[s] = 0
      /\ \A x \in Seqs \ {s} : /\ block_table'[x] = block_table[x]
                               /\ num_cached_tokens'[x] = num_cached_tokens[x]
                               /\ num_scheduled_tokens'[x] = num_scheduled_tokens[x]
      /\ UNCHANGED token_ids
  BY DeallocatedTable
<1>2. reached(s)' = 0
  BY <1>1 DEF reached
<1>3. KvReached'
  <2> SUFFICES ASSUME NEW x \in Seqs PROVE \A pos \in 0 .. reached(x)' - 1 : Written(x, pos)'
    BY DEF KvReached
  <2>1. CASE x = s
    BY <1>2, <2>1
  <2>2. CASE x # s
    BY <1>1, <2>2, SeqLeft
  <2> QED
    BY <2>1, <2>2
<1>4. KvPublished'
  BY PublishedLeft DEF deallocate
<1> QED
  BY <1>3, <1>4

LEMMA CreateKv ==
  ASSUME TypeOK, Covered, KvReached, KvPublished, NEW s \in Seqs, NEW p \in Prompts, Create(s, p),
         UNCHANGED kv, ~ ran'
  PROVE  KvReached' /\ KvPublished'
<1>1. /\ token_ids[s] = <<>> /\ \A x \in Seqs \ {s} : token_ids'[x] = token_ids[x]
      /\ UNCHANGED <<block_table, num_cached_tokens, num_scheduled_tokens, poolVars>>
  BY DEF Create, TypeOK
<1>2. num_cached_tokens[s] \in Nat /\ num_scheduled_tokens[s] \in Nat
      /\ num_cached_tokens[s] + num_scheduled_tokens[s] <= size(s)
  BY TypeFacts DEF Covered
<1>3. size(s) = 0
  BY <1>1 DEF size
<1>4. reached(s)' = 0
  BY <1>1, <1>2, <1>3 DEF reached
<1>5. KvReached'
  <2> SUFFICES ASSUME NEW x \in Seqs PROVE \A pos \in 0 .. reached(x)' - 1 : Written(x, pos)'
    BY DEF KvReached
  <2>1. CASE x = s
    BY <1>4, <2>1
  <2>2. CASE x # s
    BY <1>1, <2>2, SeqLeft
  <2> QED
    BY <2>1, <2>2
<1>6. KvPublished'
  BY <1>1, PublishedLeft DEF poolVars
<1> QED
  BY <1>5, <1>6

LEMMA EmitKv ==
  ASSUME TypeOK, Covered, KvReached, KvPublished, NEW s \in Seqs, NEW t \in Token,
         token_ids' = [token_ids EXCEPT ![s] = Append(@, t)],
         UNCHANGED <<block_table, num_cached_tokens, num_scheduled_tokens, poolVars, kv>>,
         ran' => ran
  PROVE  KvReached' /\ KvPublished'
<1>1. token_ids'[s] = Append(token_ids[s], t) /\ \A x \in Seqs \ {s} : token_ids'[x] = token_ids[x]
  BY DEF TypeOK
<1>2. KvReached'
  <2> SUFFICES ASSUME NEW x \in Seqs PROVE \A pos \in 0 .. reached(x)' - 1 : Written(x, pos)'
    BY DEF KvReached
  <2>1. CASE x = s
    <3>1. reached(s)' \in Nat /\ reached(s)' <= reached(s)
      BY ReachedLess
    <3>2. ASSUME NEW pos \in 0 .. reached(s) - 1 PROVE text_upto(s, pos)' = text_upto(s, pos)
      <4>1. /\ reached(s) \in Nat
            /\ reached(s) <= num_cached_tokens[s] + num_scheduled_tokens[s]
            /\ num_cached_tokens[s] \in Nat /\ num_scheduled_tokens[s] \in Nat
            /\ token_ids[s] \in Seq(Token) /\ Len(token_ids[s]) \in Nat
            /\ num_cached_tokens[s] + num_scheduled_tokens[s] <= Len(token_ids[s])
        BY ReachedBound, TypeFacts DEF Covered, size
      <4>2. pos + 1 \in Nat /\ pos + 1 <= Len(token_ids[s])
        BY <4>1
      <4>3. SubSeq(Append(token_ids[s], t), 1, pos + 1) = SubSeq(token_ids[s], 1, pos + 1)
        BY <4>1, <4>2, SubSeqOfAppend
      <4> QED
        BY <1>1, <4>3 DEF text_upto
    <3> QED
      BY <2>1, <3>1, <3>2, ReachedKept
  <2>2. CASE x # s
    BY <1>1, <2>2, SeqLeft
  <2> QED
    BY <2>1, <2>2
<1>3. KvPublished'
  BY PublishedLeft DEF poolVars
<1> QED
  BY <1>2, <1>3

\* A place of a block is a position of the text.
LEMMA PlaceFacts ==
  ASSUME NEW i \in Nat \ {0}, NEW o \in Offset, NEW pos, pos = (i - 1) * BlockSize + o
  PROVE  /\ pos \in Nat /\ pos < i * BlockSize /\ i * BlockSize \in Nat
         /\ page(pos) = i /\ pos % BlockSize = o
<1> DEFINE d == i - 1
           a == d * BlockSize
           c == i * BlockSize
<1>1. d \in Nat /\ a \in Nat /\ c \in Nat /\ c = a + BlockSize /\ BlockSize \in Nat \ {0}
      /\ o \in Nat /\ o < BlockSize /\ pos = a + o
  BY PoolAssumption DEF Offset
<1> HIDE DEF a, c, d
<1>2. pos \in Nat /\ pos < c
  BY <1>1
<1>3. a <= pos /\ pos < a + BlockSize
  BY <1>1
<1>4. pos \div BlockSize = d
  BY <1>1, <1>2, <1>3, DivUnique DEF a
<1>5. page(pos) = i
  BY <1>1, <1>4 DEF page, d
<1>6. pos = (page(pos) - 1) * BlockSize + (pos % BlockSize) /\ pos % BlockSize \in Offset
  BY <1>2, PageFacts DEF c
<1>7. pos = a + (pos % BlockSize) /\ pos % BlockSize \in Int
  BY <1>5, <1>6, <1>1 DEF a, d, Offset
<1> QED
  BY <1>1, <1>2, <1>5, <1>7 DEF c

\* A block that has been filled is published with the text it was computed from.
LEMMA CommitKv ==
  ASSUME IndInv, CachedBlocksOwn', CachedBlocksChained', KvReached, KvPublished,
         NEW s \in Seqs, Commit(s), UNCHANGED kv, ran
  PROVE  KvReached' /\ KvPublished'
<1> DEFINE from == hash_start(s)
           to == hash_end(s)
           table == block_table[s]
           text == token_ids[s]
           computed == num_cached_tokens[s] + num_scheduled_tokens[s]
<1>1. TypeOK /\ Covered
  BY DEF IndInv
<1>2. /\ num_cached_tokens[s] \in Nat /\ num_scheduled_tokens[s] \in Nat
      /\ text \in Seq(Token) /\ Len(text) \in Nat /\ Len(text) = size(s)
  BY <1>1, TypeFacts DEF size
<1>3. /\ num_cached_tokens'[s] = computed /\ num_scheduled_tokens'[s] = 0
      /\ \A x \in Seqs \ {s} : /\ num_cached_tokens'[x] = num_cached_tokens[x]
                               /\ num_scheduled_tokens'[x] = num_scheduled_tokens[x]
      /\ UNCHANGED <<token_ids, block_table>>
  BY <1>1 DEF Commit, TypeOK
<1>4. reached(s) = computed /\ reached(s)' = computed
  BY <1>2, <1>3 DEF reached
<1>5. KvReached'
  <2> SUFFICES ASSUME NEW x \in Seqs PROVE \A pos \in 0 .. reached(x)' - 1 : Written(x, pos)'
    BY DEF KvReached
  <2>1. CASE x = s
    <3>1. reached(s)' \in Nat /\ reached(s)' <= reached(s)
      BY <1>2, <1>4
    <3>2. \A pos : text_upto(s, pos)' = text_upto(s, pos)
      BY <1>3 DEF text_upto
    <3> QED
      BY <1>1, <1>3, <2>1, <3>1, <3>2, ReachedKept
  <2>2. CASE x # s
    BY <1>1, <1>3, <2>2, SeqLeft
  <2> QED
    BY <2>1, <2>2
<1>6. /\ \A i \in from + 1 .. to : /\ i \in 1 .. Len(table) /\ table[i] \in Block
                                   /\ i * BlockSize <= size(s)
      /\ \A b \in Block : (\A i \in from + 1 .. to : table[i] # b) =>
           hash'[b] = hash[b] /\ hash_valid'[b] = hash_valid[b] /\ block_ids'[b] = block_ids[b]
  BY HashBlocks DEF Commit
<1>7. /\ from \in Nat /\ to \in Nat /\ from <= to
      /\ \A i \in 1 .. to : i * BlockSize <= Len(text)
  BY <1>1, <1>2, EndFacts
<1>8. to * BlockSize <= computed /\ to * BlockSize \in Nat
  <2>1. computed \in Nat /\ to = computed \div BlockSize
    BY <1>2 DEF hash_end
  <2> HIDE DEF computed, to
  <2>2. to \in Nat /\ to * BlockSize <= computed
    BY <2>1, DivBounds, PoolAssumption
  <2> QED
    BY <2>2, PoolAssumption
<1>9. hash_start(s)' = to
  BY <1>3 DEF hash_start, hash_end
<1> HIDE DEF from, to
<1>10. \A j \in 1 .. to : block_ids'[table[j]] = Piece(text, j)
  <2> TAKE j \in 1 .. to
  <2>1. block_ids'[table[j]] = block_tokens(s, j)'
    BY <1>3, <1>9 DEF CachedBlocksOwn
  <2>2. block_tokens(s, j)' = block_tokens(s, j)
    BY <1>3 DEF block_tokens, size
  <2>3. block_tokens(s, j) = Piece(text, j)
    BY <1>2, <1>7 DEF block_tokens, Piece
  <2> QED
    BY <2>1, <2>2, <2>3
<1>11. \A j \in 1 .. to :
         hash'[table[j]] = Fnv(Piece(text, j), IF j = 1 THEN ZeroHash ELSE hash'[table[j - 1]])
  BY <1>3, <1>9, <1>10 DEF CachedBlocksChained
<1>12. ASSUME NEW b \in Block, NEW i \in from + 1 .. to, table[i] = b
       PROVE  \E n \in Nat \ {0}, other \in Seq(Token) : Holds(b, other, n)'
  <2> DEFINE f == [j \in 0 .. i |-> IF j = 0 THEN ZeroHash ELSE hash'[table[j]]]
  <2>1. i \in Nat \ {0} /\ i \in 1 .. to /\ i \in 1 .. Len(table) /\ b \in Block
        /\ i * BlockSize <= Len(text) /\ i \in 0 .. i /\ 0 \in 0 .. i
    BY <1>6, <1>7
  <2>2. f[0] = ZeroHash /\ \A j \in 1 .. i : f[j] = hash'[table[j]]
    BY <2>1
  <2>3. \A j \in 1 .. i : f[j - 1] = IF j = 1 THEN ZeroHash ELSE hash'[table[j - 1]]
    BY <2>1
  <2> HIDE DEF f
  <2>4. Links(f, text, i)
    <3>1. \A j \in 1 .. i : j \in 1 .. to
      BY <2>1, <1>7
    <3> QED
      BY <1>11, <2>2, <2>3, <3>1 DEF Links
  <2>5. hash'[b] = f[i] /\ block_ids'[b] = Piece(text, i)
    BY <1>10, <1>12, <2>1, <2>2
  <2>6. ASSUME NEW o \in Offset
        PROVE  kv'[b][o] = SubSeq(text, 1, (i - 1) * BlockSize + 1 + o)
    <3> DEFINE pos == (i - 1) * BlockSize + o
    <3>1. /\ pos \in Nat /\ pos < i * BlockSize /\ i * BlockSize \in Nat
          /\ page(pos) = i /\ pos % BlockSize = o
      BY <2>1, PlaceFacts
    <3>2. (i - 1) * BlockSize + 1 + o = pos + 1
      BY <2>1, PoolAssumption DEF Offset
    <3> HIDE DEF pos
    <3>3. i * BlockSize <= to * BlockSize
      BY <1>7, <2>1, ProductMonotone, PoolAssumption
    <3>4. pos \in 0 .. reached(s) - 1
      BY <1>2, <1>4, <1>8, <3>1, <3>3
    <3>5. kv[b][o] = SubSeq(text, 1, pos + 1)
      BY <1>12, <3>1, <3>4 DEF KvReached, Written, text_upto
    <3> QED
      BY <3>2, <3>5
  <2>7. PICK g : g = f
    OBVIOUS
  <2>8. PICK other \in Seq(Token) : other = text
    BY <1>2
  <2>9. Holds(b, other, i)'
    BY <2>1, <2>4, <2>5, <2>6, <2>7, <2>8 DEF Holds
  <2> QED
    BY <2>1, <2>9
<1>13. KvPublished'
  <2> SUFFICES ASSUME NEW b \in Block, hash_valid'[b]
               PROVE  \E n \in Nat \ {0}, other \in Seq(Token) : Holds(b, other, n)'
    BY DEF KvPublished
  <2>1. CASE \E i \in from + 1 .. to : table[i] = b
    <3>1. PICK i \in from + 1 .. to : table[i] = b
      BY <2>1
    <3> HIDE DEF table
    <3> QED
      BY <1>12, <3>1
  <2>2. CASE \A i \in from + 1 .. to : table[i] # b
    <3>1. hash_valid[b] /\ hash'[b] = hash[b] /\ block_ids'[b] = block_ids[b]
      BY <1>6, <2>2
    <3>2. PICK n \in Nat \ {0}, other \in Seq(Token) : Holds(b, other, n)
      BY <3>1 DEF KvPublished
    <3>3. Holds(b, other, n)'
      BY <3>1, <3>2 DEF Holds
    <3> QED
      BY <3>3
  <2> QED
    BY <2>1, <2>2
<1> QED
  BY <1>5, <1>13

LEMMA KvNext ==
  ASSUME Collisionless, Undisturbed, EngineInv, IndInv', CachedBlocksChained', SyncInv, Shape,
         KvReached, KvPublished, [LLMEngineNext]_engineVars
  PROVE  KvReached' /\ KvPublished'
<1>1. /\ IndInv /\ TypeOK /\ Covered /\ QueueInv /\ QueueTypes /\ pc' # "error" /\ faults = 0
      /\ CachedBlocksOwn'
  BY NoErrorNext DEF EngineInv, IndInv, QueueInv, SyncInv
<1>2. ~ PrefillReject /\ ~ RejectBatch /\ ~ FailBatch
  BY <1>1, NoEarlyReturn
<1>3. ASSUME NEW s \in Seqs, NEW r \in Requests, AddRequest(s, r)
      PROVE  KvReached' /\ KvPublished'
  <2>1. pc = "idle" /\ pc' = pc /\ Create(s, r.prompt) /\ kv' = kv
    BY <1>3 DEF AddRequest
  <2>2. r.prompt \in Prompts
    BY RequestAssumption
  <2>3. ~ ran'
    BY <2>1 DEF ran
  <2> QED
    BY <1>1, <2>1, <2>2, <2>3, CreateKv
<1>4. CASE StartStep \/ CollectResults
  <2>1. /\ pc' \in {"prefill", "idle"}
        /\ UNCHANGED <<token_ids, block_table, num_cached_tokens, kv, hash_valid, hash, block_ids>>
    BY <1>4 DEF StartStep, CollectResults, Return, blockManagerVars, seqVars, poolVars
  <2>2. ~ ran'
    BY <2>1 DEF ran
  <2> QED
    BY <1>1, <2>1, <2>2, QuietKv
<1>5. CASE RunBatch
  BY <1>5, RunKv
<1>6. CASE UNCHANGED engineVars
  <2>1. UNCHANGED <<token_ids, block_table, num_cached_tokens, kv, hash_valid, hash, block_ids,
                    pc, num_scheduled_tokens>>
    BY <1>6 DEF engineVars, schedulerVars, blockManagerVars, seqVars, poolVars
  <2> QED
    BY <1>1, <2>1, QuietKv
<1>7. CASE SchedulerStep
  <2>1. UNCHANGED kv
    BY <1>7 DEF SchedulerStep
  <2>2. CASE PrefillAllocate
    <3>1. waiting # <<>> /\ pc = "prefill"
      BY <2>2 DEF PrefillAllocate, InPrefillLoop
    <3>2. PICK s \in Seqs : s = front /\ status[s] = "waiting"
      BY <1>1, <3>1, FrontWaits
    <3>3. allocate(s) /\ pc' = pc
      BY <1>1, <2>2, <3>2 DEF PrefillAllocate, InternalError
    <3>4. size(s) > 0
      BY <1>1, <3>2, UnfinishedSize
    <3>5. ~ ran'
      BY <3>1, <3>3 DEF ran
    <3> QED
      BY <1>1, <2>1, <3>3, <3>4, <3>5, AllocateKv
  <2>3. CASE PrefillSchedule
    <3>1. /\ pc' \in {"prefill", "run"}
          /\ UNCHANGED <<token_ids, block_table, num_cached_tokens, hash_valid, hash, block_ids>>
      BY <1>1, <2>3 DEF PrefillSchedule, InternalError, poolVars
    <3>2. ~ ran'
      BY <3>1 DEF ran
    <3> QED
      BY <1>1, <2>1, <3>1, <3>2, QuietKv
  <2>4. CASE PrefillEnd \/ DecodeEnd
    <3>1. /\ pc' \in {"prefill", "decode", "run"}
          /\ UNCHANGED <<token_ids, block_table, num_cached_tokens, hash_valid, hash, block_ids>>
      BY <1>1, <2>4 DEF PrefillEnd, DecodeEnd, InternalError, blockManagerVars, seqVars, poolVars
    <3>2. ~ ran'
      BY <3>1 DEF ran
    <3> QED
      BY <1>1, <2>1, <3>1, <3>2, QuietKv
  <2>5. CASE DecodeGrow
    <3>1. pc = "decode" /\ pc' = pc /\ may_append(oldest) /\ InDecodeLoop
      BY <2>5 DEF DecodeGrow, InDecodeLoop
    <3>2. PICK s \in Seqs : s = oldest
      BY <1>1, <3>1, OldestRuns
    <3>3. ~ ran'
      BY <3>1 DEF ran
    <3> QED
      BY <1>1, <2>1, <3>1, <3>2, <3>3, GrowKv
  <2>6. CASE DecodeSchedule
    <3>1. /\ pc = "decode" /\ pc' = pc
          /\ UNCHANGED <<token_ids, block_table, num_cached_tokens, hash_valid, hash, block_ids>>
      BY <2>6 DEF DecodeSchedule, InDecodeLoop, poolVars
    <3>2. ~ ran'
      BY <3>1 DEF ran
    <3> QED
      BY <1>1, <2>1, <3>1, <3>2, QuietKv
  <2>7. CASE Preempt
    <3>1. pc = "decode" /\ pc' = pc /\ deallocate(oldest) /\ InDecodeLoop
      BY <2>7 DEF Preempt, InDecodeLoop
    <3>2. PICK s \in Seqs : s = oldest
      BY <1>1, <3>1, OldestRuns
    <3>3. ran' => ran
      BY <3>1 DEF ran
    <3> QED
      BY <1>1, <2>1, <3>1, <3>2, <3>3, ReleaseKv
  <2>8. CASE PostCommit
    <3>1. pc = "commit" /\ ~ hash_blocks_fails(current)
      BY <1>1, <2>8, CommitSucceeds DEF PostCommit
    <3>2. PICK s \in Seqs : s = current /\ Due(s)
      BY <1>1, <3>1, CurrentFacts
    <3>3. /\ hash_blocks(s)
          /\ num_cached_tokens' = [num_cached_tokens EXCEPT ![s] =
               num_cached_tokens[s] + num_scheduled_tokens[s]]
          /\ num_scheduled_tokens' = [num_scheduled_tokens EXCEPT ![s] = 0]
          /\ UNCHANGED <<token_ids, block_table>>
      BY <2>8, <3>1, <3>2 DEF PostCommit
    <3>4. Commit(s)
      BY <3>1, <3>2, <3>3 DEF Commit, Due
    <3>5. ran
      BY <3>1 DEF ran
    <3> QED
      BY <1>1, <2>1, <3>4, <3>5, CommitKv
  <2>9. CASE PostEmit
    <3>1. pc = "emit" /\ sampled[index] # NoSample /\ index \in 1 .. Len(plan)
          /\ DOMAIN plan = 1 .. Len(plan)
      BY <1>1, <2>9, SampleThere, CurrentFacts DEF PostEmit, EngineInv
    <3>2. sampled[index] \in Token
      BY <1>1, <3>1 DEF QueueInv, PlanInv
    <3>3. PICK s \in Seqs : s = current
      BY <1>1, <3>1, CurrentFacts
    <3>4. /\ token_ids' = [token_ids EXCEPT ![s] = Append(@, sampled[index])]
          /\ UNCHANGED <<block_table, num_cached_tokens, num_scheduled_tokens, poolVars>>
      BY <2>9, <3>1, <3>3 DEF PostEmit
    <3>5. ran' => ran
      BY <3>1 DEF ran
    <3> QED
      BY <1>1, <2>1, <3>2, <3>4, <3>5, EmitKv
  <2>10. CASE PostRelease
    <3>1. pc = "release" /\ deallocate(current)
      BY <2>10 DEF PostRelease
    <3>2. PICK s \in Seqs : s = current
      BY <1>1, <3>1, CurrentFacts
    <3>3. ran' => ran
      BY <3>1 DEF ran
    <3> QED
      BY <1>1, <2>1, <3>1, <3>2, <3>3, ReleaseKv
  <2> QED
    BY <1>2, <1>7, <2>2, <2>3, <2>4, <2>5, <2>6, <2>7, <2>8, <2>9, <2>10
      DEF SchedulerStep, ScheduleStep, PostprocessStep
<1> QED
  BY <1>2, <1>3, <1>4, <1>5, <1>6, <1>7 DEF LLMEngineNext, EngineStep, IdleStep

KvInv == SyncInv /\ KvReached /\ KvPublished

LEMMA KvInit == LLMEngineInit => KvInv
<1> SUFFICES ASSUME LLMEngineInit PROVE KvInv
  OBVIOUS
<1>1. /\ pc = "idle" /\ plan = <<>> /\ faults = 0
      /\ \A s \in Seqs : /\ status[s] = "none" /\ num_cached_tokens[s] = 0
                         /\ num_scheduled_tokens[s] = 0
      /\ \A b \in Block : ~ hash_valid[b]
  BY DEF LLMEngineInit, SchedulerInit, BlockManagerInit
<1>2. pending = {}
  BY <1>1 DEF pending
<1>3. SyncInv
  BY <1>1, <1>2 DEF SyncInv, Planned, Following, Caught
<1>4. \A s \in Seqs : reached(s) = 0
  BY <1>1 DEF reached
<1>5. KvReached
  BY <1>4 DEF KvReached
<1>6. KvPublished
  BY <1>1 DEF KvPublished
<1> QED
  BY <1>3, <1>5, <1>6 DEF KvInv

LEMMA KvInvariance ==
  ASSUME Collisionless, Undisturbed
  PROVE  LLMEngineSpec => []KvInv
<1>1. EngineInv /\ EngineInv' /\ CachedBlocksChained' /\ Shape /\ KvInv
        /\ [LLMEngineNext]_engineVars => KvInv'
  BY KvNext, SyncNext DEF KvInv, EngineInv
<1>2. LLMEngineSpec => []CachedBlocksChained
  BY EngineUsesPool, PrefixesChained
<1> QED
  BY <1>1, <1>2, KvInit, BatchInvariance, ShapeInvariance, PTL DEF LLMEngineSpec

(* Every token a sequence counts as cached has its key and value in the        *)
(* sequence's blocks, computed from the sequence's own text.                  *)
THEOREM CachedTokensComputed ==
  ASSUME Collisionless, Undisturbed
  PROVE  LLMEngineSpec => []CachedKvComputed
<1>1. EngineInv /\ KvInv => CachedKvComputed
  <2> SUFFICES ASSUME EngineInv, KvInv, NEW s \in Seqs, NEW pos \in 0 .. num_cached_tokens[s] - 1
               PROVE  Written(s, pos)
    BY DEF CachedKvComputed, Written
  <2>1. TypeOK
    BY DEF EngineInv, IndInv
  <2>2. reached(s) \in Nat /\ num_cached_tokens[s] <= reached(s) /\ num_cached_tokens[s] \in Nat
    BY <2>1, ReachedBound, TypeFacts
  <2>3. pos \in 0 .. reached(s) - 1
    BY <2>2
  <2> QED
    BY <2>3 DEF KvInv, KvReached
<1> QED
  BY <1>1, KvInvariance, BatchInvariance, PTL

LEMMA PrefixOfPrefix ==
  ASSUME NEW text \in Seq(Token), NEW m \in Nat \ {0}, NEW n \in Nat, m <= n, n <= Len(text)
  PROVE  /\ Len(SubSeq(text, 1, n)) = n /\ SubSeq(SubSeq(text, 1, n), 1, m) = SubSeq(text, 1, m)
         /\ SubSeq(text, 1, n)[m] = text[m] /\ SubSeq(text, 1, n) \in Seq(Token)
<1>1. Len(text) \in Nat /\ \A k \in 1 .. n : text[k] \in Token
  BY LenProperties, ElementOfSeq
<1>2. /\ SubSeq(text, 1, n) \in Seq(Token)
      /\ Len(SubSeq(text, 1, n)) = IF 1 <= n THEN n - 1 + 1 ELSE 0
      /\ \A i \in 1 .. n - 1 + 1 : SubSeq(text, 1, n)[i] = text[1 + i - 1]
  BY <1>1, SubSeqProperties
<1>3. \A i \in 1 .. n : SubSeq(text, 1, n)[i] = text[i]
  <2> TAKE i \in 1 .. n
  <2>1. i \in 1 .. n - 1 + 1 /\ 1 + i - 1 = i
    OBVIOUS
  <2> QED
    BY <1>2, <2>1
<1>4. Len(SubSeq(text, 1, n)) = n
  BY <1>2
<1>5. SubSeq(SubSeq(text, 1, n), 1, m) = SubSeq(text, 1, m)
  <2>1. \A j \in 1 .. m : SubSeq(text, 1, n)[j] = text[j]
    BY <1>3
  <2>2. m <= Len(text) /\ m \in Nat
    BY <1>1
  <2> QED
    BY <1>2, <1>4, <2>1, <2>2, SamePrefix
<1> QED
  BY <1>2, <1>3, <1>4, <1>5

(* A block in the prefix index is complete: all its cells were computed from   *)
(* one text, of which the block's tokens are the end.                         *)
THEOREM PublishedBlocksComputed ==
  ASSUME Collisionless, Undisturbed
  PROVE  LLMEngineSpec => []PublishedKvComputed
<1>1. EngineInv /\ KvInv => PublishedKvComputed
  <2> SUFFICES ASSUME EngineInv, KvInv, NEW h \in DOMAIN hash_to_block, NEW o \in Offset
               PROVE  LET b == hash_to_block[h]
                          whole == kv[b][BlockSize - 1]
                      IN  /\ whole # Garbage
                          /\ kv[b][o] = SubSeq(whole, 1, Len(whole) - BlockSize + 1 + o)
                          /\ block_ids[b][o + 1] = kv[b][o][Len(kv[b][o])]
    BY DEF PublishedKvComputed, Offset
  <2> DEFINE b == hash_to_block[h]
             last == BlockSize - 1
  <2>1. TypeOK /\ IndexSound
    BY DEF EngineInv, IndInv
  <2>2. b \in Block /\ hash_valid[b]
    BY <2>1 DEF TypeOK, IndexSound
  <2> HIDE DEF b
  <2>3. PICK n \in Nat \ {0}, text \in Seq(Token) : Holds(b, text, n)
    BY <2>2 DEF KvInv, KvPublished
  <2>4. /\ n * BlockSize <= Len(text) /\ block_ids[b] = Piece(text, n)
        /\ \A p \in Offset : kv[b][p] = SubSeq(text, 1, (n - 1) * BlockSize + 1 + p)
    BY <2>3 DEF Holds
  <2> DEFINE a == (n - 1) * BlockSize
             c == n * BlockSize
  <2>5. /\ a \in Nat /\ c = a + BlockSize
        /\ \A p \in 1 .. BlockSize : Piece(text, n)[p] = text[a + p]
    BY <2>4, PieceFacts
  <2>6. /\ BlockSize \in Nat \ {0} /\ o \in Nat /\ o < BlockSize /\ last \in Offset
        /\ o + 1 \in 1 .. BlockSize
    BY PoolAssumption DEF Offset
  <2> HIDE DEF a, c
  <2>7. kv[b][last] = SubSeq(text, 1, a + 1 + last) /\ kv[b][o] = SubSeq(text, 1, a + 1 + o)
    BY <2>4, <2>6 DEF a
  <2>8. a + 1 + last = c /\ a + 1 + o \in Nat \ {0} /\ a + 1 + o <= c /\ c \in Nat \ {0}
    BY <2>5, <2>6
  <2>9. c <= Len(text) /\ Len(text) \in Nat
    BY <2>4 DEF c
  <2>10. a + 1 + o <= Len(text)
    BY <2>8, <2>9
  <2> HIDE DEF last
  <2>11. kv[b][last] = SubSeq(text, 1, c)
    BY <2>7, <2>8
  <2>12. /\ Len(SubSeq(text, 1, c)) = c
         /\ SubSeq(SubSeq(text, 1, c), 1, a + 1 + o) = SubSeq(text, 1, a + 1 + o)
    BY <2>8, <2>9, PrefixOfPrefix
  <2>13. /\ Len(SubSeq(text, 1, a + 1 + o)) = a + 1 + o
         /\ SubSeq(text, 1, a + 1 + o)[a + 1 + o] = text[a + 1 + o]
    BY <2>8, <2>10, PrefixOfPrefix
  <2>14. kv[b][last] # Garbage
    <3>1. Len(kv[b][last]) # 0
      BY <2>8, <2>11, <2>12
    <3> QED
      BY <3>1 DEF Garbage
  <2>15. Len(kv[b][last]) - BlockSize + 1 + o = a + 1 + o
    BY <2>5, <2>6, <2>11, <2>12
  <2>16. kv[b][o] = SubSeq(kv[b][last], 1, Len(kv[b][last]) - BlockSize + 1 + o)
    BY <2>7, <2>11, <2>12, <2>15
  <2>17. block_ids[b][o + 1] = kv[b][o][Len(kv[b][o])]
    <3>1. a + (o + 1) = a + 1 + o
      BY <2>5, <2>6
    <3>2. block_ids[b][o + 1] = text[a + 1 + o]
      BY <2>4, <2>5, <2>6, <3>1
    <3> QED
      BY <2>7, <2>13, <3>2
  <2> QED
    BY <2>14, <2>16, <2>17 DEF b, last
<1> QED
  BY <1>1, KvInvariance, BatchInvariance, PTL

-----------------------------------------------------------------------------
(* What a caller sees *)

\* The tokens that have been sampled and not yet appended are tokens the model may
\* choose after their sequence's text.
Drawn ==
  /\ pc \in {"commit", "emit", "release"} =>
       \A i \in pending : is_sampled(i) => sampled[i] \in LM(token_ids[plan[i].seq])
  /\ pc = "emit" => sampled[index] \in LM(token_ids[current])

\* A batch samples from the sequences' own texts.
LEMMA SamplesOwnText ==
  ASSUME EngineInv, SyncInv, KvReached, pc = "run", NEW i \in DOMAIN plan, is_sampled(i)
  PROVE  samples(i) = LM(token_ids[plan[i].seq])
<1>1. i \in pending /\ Share(plan[i])
  BY DEF pending, EngineInv, BatchInv, Shares
<1>2. plan[i].start \in Nat /\ plan[i].count \in Nat /\ plan[i].count > 0
  BY <1>1, PendingInPlan DEF EngineInv, QueueInv, Share
<1> DEFINE p == plan[i].start + plan[i].count - 1
           r == [item |-> i, seq |-> plan[i].seq, pos |-> p]
<1>3. p \in plan[i].start .. plan[i].start + plan[i].count - 1
  BY <1>2
<1>4. r \in rows /\ r.item = i /\ r.pos = p
  BY <1>3 DEF rows
<1> HIDE DEF p, r
<1>5. \E q \in rows : q.item = i /\ q.pos = plan[i].start + plan[i].count - 1
  BY <1>4 DEF p
<1>6. last_row(i) \in rows
  BY <1>5 DEF last_row
<1>7. reads_own_text(last_row(i))
  BY <1>6, RowsComputed
<1> QED
  BY <1>7 DEF samples

LEMMA DrawnNext ==
  ASSUME EngineInv, SyncInv, KvReached, Drawn, [LLMEngineNext]_engineVars
  PROVE  Drawn'
<1>1. /\ TypeOK /\ Covered /\ QueueInv /\ QueueTypes /\ PlanInv /\ Shares /\ pc' # "error"
      /\ is_prefill \in BOOLEAN
  BY NoErrorNext DEF EngineInv, IndInv, BatchInv, QueueInv
<1>2. ASSUME pc' \notin {"commit", "emit", "release"} PROVE Drawn'
  BY <1>2 DEF Drawn
<1>3. CASE RunBatch
  <2>1. /\ pc = "run" /\ pc' = "commit" /\ index' = 1
        /\ \A i \in DOMAIN plan : sampled'[i] \in samples(i)
        /\ UNCHANGED <<plan, is_prefill, token_ids>>
    BY <1>3 DEF RunBatch, blockManagerVars, seqVars
  <2>2. DOMAIN plan = 1 .. Len(plan)
    BY <1>1, PendingInPlan
  <2>3. pending' = DOMAIN plan
    BY <2>1, <2>2 DEF pending
  <2>4. \A i \in DOMAIN plan : is_sampled(i)' <=> is_sampled(i)
    BY <2>1 DEF is_sampled, size
  <2>5. \A i \in DOMAIN plan : is_sampled(i) => sampled'[i] \in LM(token_ids[plan[i].seq])
    BY <2>1, SamplesOwnText
  <2> QED
    BY <2>1, <2>3, <2>4, <2>5 DEF Drawn
<1>4. CASE PostCommit \/ PostEmit \/ PostRelease
  <2>1. /\ pc \in {"commit", "emit", "release"} /\ index \in 1 .. Len(plan) /\ current \in Seqs
        /\ pending' \subseteq index + 1 .. Len(plan) /\ index + 1 .. Len(plan) \subseteq pending
        /\ \A i \in index + 1 .. Len(plan) : plan[i].seq \in Seqs /\ plan[i].seq # current
        /\ UNCHANGED <<plan, is_prefill, sampled>>
        /\ pc' \in {"emit", "release"} => index' = index
    BY <1>1, <1>4, WalkStep
  <2>2. \A x \in Seqs \ {current} : token_ids'[x] = token_ids[x]
    <3>1. CASE PostCommit
      BY <1>1, <3>1 DEF PostCommit, InternalError
    <3>2. CASE PostEmit
      BY <1>1, <2>1, <3>2 DEF PostEmit, InternalError, TypeOK
    <3>3. CASE PostRelease
      BY <3>3 DEF PostRelease, deallocate
    <3> QED
      BY <1>4, <3>1, <3>2, <3>3
  <2>3. ASSUME NEW i \in pending', is_sampled(i)'
        PROVE  sampled'[i] \in LM(token_ids'[plan'[i].seq])
    <3>1. PICK x \in Seqs : x = plan[i].seq /\ x # current
      BY <2>1
    <3>2. token_ids'[x] = token_ids[x]
      BY <2>2, <3>1
    <3>3. is_sampled(i)
      BY <2>1, <2>3, <3>1, <3>2 DEF is_sampled, size
    <3>4. sampled[i] \in LM(token_ids[x])
      BY <2>1, <3>1, <3>3 DEF Drawn
    <3> QED
      BY <2>1, <3>1, <3>2, <3>4
  <2>4. ASSUME pc' = "emit" PROVE sampled'[index'] \in LM(token_ids'[current'])
    <3>1. PostCommit
      BY <1>4, <2>4 DEF PostEmit, PostRelease, InternalError, NextIndex
    <3>2. pc = "commit" /\ index' = index
      BY <2>1, <2>4, <3>1 DEF PostCommit
    <3>3. PICK s \in Seqs : s = current /\ s = plan[index].seq
      BY <1>1, <3>2, CurrentFacts DEF current
    <3>4. /\ ~(is_prefill /\ num_cached_tokens[s] + num_scheduled_tokens[s] < size(s))
          /\ token_ids' = token_ids
      BY <1>1, <2>4, <3>1, <3>3 DEF PostCommit, NextIndex, InternalError
    <3>5. index \in pending
      BY <2>1, <3>2 DEF pending
    <3>6. is_prefill => /\ plan[index].start = num_cached_tokens[s]
                        /\ plan[index].count = num_scheduled_tokens[s]
      BY <1>1, <3>3, <3>5 DEF Shares, Share
    <3>7. num_cached_tokens[s] + num_scheduled_tokens[s] <= size(s)
      BY <1>1 DEF Covered
    <3>8. is_prefill => num_cached_tokens[s] + num_scheduled_tokens[s] = size(s)
      BY <1>1, <3>4, <3>7, TypeFacts
    <3>9. is_sampled(index)
      BY <1>1, <3>3, <3>6, <3>8 DEF is_sampled
    <3>10. sampled[index] \in LM(token_ids[s])
      BY <2>1, <3>3, <3>5, <3>9 DEF Drawn
    <3>11. current' = s
      BY <2>1, <3>2, <3>3 DEF current
    <3> QED
      BY <2>1, <3>2, <3>4, <3>10, <3>11
  <2> QED
    BY <2>3, <2>4 DEF Drawn
<1>5. CASE \/ \E s \in Seqs, r \in Requests : AddRequest(s, r)
           \/ StartStep \/ RejectBatch \/ FailBatch \/ CollectResults
           \/ PrefillReject \/ PrefillEnd \/ PrefillSchedule
  BY <1>1, <1>2, <1>5 DEF AddRequest, StartStep, RejectBatch, FailBatch, CollectResults,
       PrefillReject, PrefillEnd, PrefillSchedule, Return, InternalError
<1>6. CASE PrefillAllocate \/ DecodeGrow \/ DecodeSchedule \/ Preempt \/ DecodeEnd
  BY <1>1, <1>2, <1>6 DEF PrefillAllocate, InPrefillLoop, DecodeGrow, DecodeSchedule, Preempt,
       InDecodeLoop, DecodeEnd, InternalError
<1>7. CASE UNCHANGED engineVars
  <2>1. UNCHANGED <<pc, plan, is_prefill, index, sampled, token_ids>>
    BY <1>7 DEF engineVars, schedulerVars, callVars, blockManagerVars, seqVars
  <2>2. pending' = pending /\ current' = current
    BY <2>1 DEF pending, current
  <2>3. \A i \in pending : is_sampled(i)' <=> is_sampled(i)
    BY <2>1 DEF is_sampled, size
  <2> QED
    BY <1>1, <2>1, <2>2, <2>3 DEF Drawn
<1> QED
  BY <1>3, <1>4, <1>5, <1>6, <1>7
    DEF LLMEngineNext, EngineStep, SchedulerStep, ScheduleStep, PostprocessStep, IdleStep

LEMMA DrawnInvariance ==
  ASSUME Collisionless, Undisturbed
  PROVE  LLMEngineSpec => []Drawn
<1>1. LLMEngineInit => Drawn
  BY DEF LLMEngineInit, SchedulerInit, Drawn
<1>2. EngineInv /\ KvInv /\ Drawn /\ [LLMEngineNext]_engineVars => Drawn'
  BY DrawnNext DEF KvInv
<1> QED
  BY <1>1, <1>2, KvInvariance, BatchInvariance, PTL DEF LLMEngineSpec

\* The phase of a request, as Generation.tla sees it.
PhaseOf(st) ==
  CASE st = "none" -> "none"
    [] st = "finished" -> "done"
    [] OTHER -> "active"

Phases == [s \in Seqs |-> PhaseOf(status[s])]

LEMMA PhaseFacts ==
  /\ PhaseOf("none") = "none" /\ PhaseOf("finished") = "done"
  /\ PhaseOf("waiting") = "active" /\ PhaseOf("running") = "active"
BY DEF PhaseOf

\* A step that only moves sequences between the queues.
LEMMA PhasesLeft ==
  ASSUME UNCHANGED <<request, token_ids>>,
         \A s \in Seqs : PhaseOf(status'[s]) = PhaseOf(status[s])
  PROVE  UNCHANGED <<request, token_ids, Phases>>
BY DEF Phases

LEMMA PhaseMoves ==
  ASSUME QueueTypes, NEW s \in Seqs, NEW new, status' = [status EXCEPT ![s] = new]
  PROVE  Phases' = [Phases EXCEPT ![s] = PhaseOf(new)]
<1>1. \A x \in Seqs : status'[x] = IF x = s THEN new ELSE status[x]
  BY DEF QueueTypes
<1>2. \A x \in Seqs : PhaseOf(status'[x]) = IF x = s THEN PhaseOf(new) ELSE PhaseOf(status[x])
  BY <1>1
<1>3. Phases' = [x \in Seqs |-> PhaseOf(status'[x])]
  BY DEF Phases
<1>4. \A x \in Seqs : Phases[x] = PhaseOf(status[x])
  BY DEF Phases
<1>5. [Phases EXCEPT ![s] = PhaseOf(new)] =
        [x \in Seqs |-> IF x = s THEN PhaseOf(new) ELSE Phases[x]]
  BY DEF Phases
<1> QED
  BY <1>2, <1>3, <1>4, <1>5

LEMMA ExtendStep ==
  ASSUME EngineInv, Drawn, PostEmit
  PROVE  \E s \in Seqs : Alone!Extend(s)
<1>1. /\ TypeOK /\ QueueInv /\ QueueTypes /\ pc = "emit" /\ sampled[index] # NoSample
      /\ sampled[index] \in LM(token_ids[current])
  BY SampleThere DEF EngineInv, IndInv, QueueInv, PostEmit, Drawn
<1>2. PICK s \in Seqs : s = current /\ status[s] = "running"
  BY <1>1, CurrentFacts DEF QueueInv, CurrentInv
<1> DEFINE t == sampled[index]
<1>3. /\ token_ids' = [token_ids EXCEPT ![s] = Append(@, t)] /\ request' = request
      /\ \/ stops(s, t) /\ status' = [status EXCEPT ![s] = "finished"]
         \/ ~ stops(s, t) /\ status' = status
  BY <1>1, <1>2 DEF PostEmit, queueVars
<1>4. t \in LM(token_ids[s])
  BY <1>1, <1>2
<1> HIDE DEF t
<1>5. Phases[s] = "active"
  BY <1>2, PhaseFacts DEF Phases
<1>6. stops(s, t) <=> \/ t \in Eos /\ ~ request[s].ignore_eos
                      \/ Len(token_ids[s]) + 1 = Len(request[s].prompt) + request[s].max_tokens
  <2>1. /\ request[s] \in Requests /\ prompt_size(s) <= size(s)
        /\ size(s) - prompt_size(s) < request[s].max_tokens
    BY <1>1, <1>2 DEF QueueInv, Lengths, completion_size
  <2>2. request[s].max_tokens \in Nat /\ prompt_size(s) \in Nat /\ size(s) \in Nat
    BY <1>1, <2>1, TypeFacts, RequestAssumption, PromptAssumption DEF prompt_size
  <2>3. size(s) - prompt_size(s) + 1 >= request[s].max_tokens
          <=> size(s) + 1 = prompt_size(s) + request[s].max_tokens
    BY <2>1, <2>2
  <2> QED
    BY <2>3 DEF stops, completion_size, prompt_size, size
<1>7. Phases' = [Phases EXCEPT ![s] =
        IF \/ t \in Eos /\ ~ request[s].ignore_eos
           \/ Len(token_ids[s]) + 1 = Len(request[s].prompt) + request[s].max_tokens
        THEN "done" ELSE "active"]
  <2>1. CASE stops(s, t)
    <3>1. Phases' = [Phases EXCEPT ![s] = "done"]
      BY <1>1, <1>3, <2>1, PhaseMoves, PhaseFacts
    <3> QED
      BY <1>6, <2>1, <3>1
  <2>2. CASE ~ stops(s, t)
    <3>1. Phases' = Phases
      BY <1>3, <2>2 DEF Phases
    <3>2. [Phases EXCEPT ![s] = "active"] = Phases
      BY <1>5 DEF Phases
    <3> QED
      BY <1>6, <2>2, <3>1, <3>2
  <2> QED
    BY <2>1, <2>2
<1> QED
  BY <1>3, <1>4, <1>5, <1>7 DEF Alone!Extend, Alone!Last, Phases, PhaseOf

LEMMA SubmitStep ==
  ASSUME TypeOK, QueueInv, NEW s \in Seqs, NEW r \in Requests, AddRequest(s, r)
  PROVE  Alone!Submit(s, r)
<1>1. /\ token_ids[s] = <<>> /\ token_ids' = [token_ids EXCEPT ![s] = r.prompt]
      /\ request' = [request EXCEPT ![s] = r]
      /\ status' = [status EXCEPT ![s] = "waiting"]
  BY DEF AddRequest, Create
<1>2. status[s] = "none"
  BY <1>1 DEF QueueInv, Tables
<1>3. Phases[s] = "none"
  BY <1>2, PhaseFacts DEF Phases
<1>4. Phases' = [Phases EXCEPT ![s] = "active"]
  BY <1>1, PhaseMoves, PhaseFacts DEF QueueInv
<1> QED
  BY <1>1, <1>3, <1>4 DEF Alone!Submit, Phases, PhaseOf

LEMMA OtherSteps ==
  ASSUME EngineInv, [LLMEngineNext]_engineVars,
         ~ \E s \in Seqs, r \in Requests : AddRequest(s, r), ~ PostEmit
  PROVE  UNCHANGED <<request, token_ids, Phases>>
<1>1. TypeOK /\ QueueInv /\ QueueTypes /\ pc' # "error"
  BY NoErrorNext DEF EngineInv, IndInv, QueueInv
<1>2. CASE \/ StartStep \/ RunBatch \/ RejectBatch \/ FailBatch \/ CollectResults
           \/ PrefillReject \/ PrefillEnd \/ DecodeEnd
  <2>1. UNCHANGED <<request, token_ids, status>>
    BY <1>1, <1>2 DEF StartStep, RunBatch, RejectBatch, FailBatch, CollectResults, PrefillReject,
         PrefillEnd, DecodeEnd, InternalError, queueVars, blockManagerVars, seqVars
  <2> QED
    BY <2>1, PhasesLeft
<1>3. CASE PrefillAllocate
  <2>1. UNCHANGED <<request, token_ids, status>>
    BY <1>1, <1>3 DEF PrefillAllocate, InternalError, allocate, queueVars
  <2> QED
    BY <2>1, PhasesLeft
<1>4. CASE PrefillSchedule
  <2>1. PICK s \in Seqs : s = front /\ status[s] = "waiting"
    BY <1>1, <1>4, FrontWaits DEF PrefillSchedule, InPrefillLoop
  <2>2. /\ UNCHANGED <<request, token_ids>>
        /\ status' = status \/ status' = [status EXCEPT ![s] = "running"]
    BY <1>1, <1>4, <2>1 DEF PrefillSchedule, InternalError, queueVars
  <2>3. \A x \in Seqs : status'[x] = status[x] \/ (status[x] = "waiting" /\ status'[x] = "running")
    BY <1>1, <2>1, <2>2 DEF QueueTypes
  <2> QED
    BY <2>2, <2>3, PhasesLeft, PhaseFacts
<1>5. CASE DecodeGrow \/ DecodeSchedule
  <2>1. UNCHANGED <<request, token_ids, status>>
    BY <1>5 DEF DecodeGrow, DecodeSchedule, may_append, queueVars
  <2> QED
    BY <2>1, PhasesLeft
<1>6. CASE Preempt
  <2>1. PICK s \in Seqs : s = oldest /\ status[s] = "running"
    BY <1>1, <1>6, OldestRuns DEF Preempt
  <2>2. UNCHANGED <<request, token_ids>> /\ status' = [status EXCEPT ![s] = "waiting"]
    BY <1>6, <2>1 DEF Preempt, deallocate
  <2>3. \A x \in Seqs : status'[x] = status[x] \/ (status[x] = "running" /\ status'[x] = "waiting")
    BY <1>1, <2>1, <2>2 DEF QueueTypes
  <2> QED
    BY <2>2, <2>3, PhasesLeft, PhaseFacts
<1>7. CASE PostCommit \/ PostRelease
  <2>1. UNCHANGED <<request, token_ids, status>>
    BY <1>1, <1>7 DEF PostCommit, PostRelease, InternalError, deallocate, queueVars
  <2> QED
    BY <2>1, PhasesLeft
<1>8. CASE UNCHANGED engineVars
  <2>1. UNCHANGED <<request, token_ids, status>>
    BY <1>8 DEF engineVars, schedulerVars, queueVars, blockManagerVars, seqVars
  <2> QED
    BY <2>1, PhasesLeft
<1> QED
  BY <1>2, <1>3, <1>4, <1>5, <1>6, <1>7, <1>8
    DEF LLMEngineNext, EngineStep, SchedulerStep, ScheduleStep, PostprocessStep, IdleStep

(* The engine extends every request as if it were alone: each step of it is a   *)
(* step of Generation.tla or leaves what the caller sees unchanged.  (That it   *)
(* goes on doing so, GeneratesAlone's fairness, is checked by TLC only.)        *)
THEOREM RequestsExtendedAlone ==
  ASSUME Collisionless, Undisturbed
  PROVE  LLMEngineSpec => Alone!Init /\ [][Alone!Next]_(Alone!vars)
<1>1. LLMEngineInit => Alone!Init
  <2> SUFFICES ASSUME LLMEngineInit PROVE Alone!Init
    OBVIOUS
  <2>1. /\ request = [s \in Seqs |-> NoRequest] /\ token_ids = [s \in Seqs |-> <<>>]
        /\ status = [s \in Seqs |-> "none"]
    BY DEF LLMEngineInit, SchedulerInit, BlockManagerInit
  <2>2. Phases = [s \in Seqs |-> "none"]
    BY <2>1, PhaseFacts DEF Phases
  <2>3. request \in [Seqs -> {[prompt |-> <<>>, max_tokens |-> 0, ignore_eos |-> FALSE]}]
    BY <2>1 DEF NoRequest
  <2> QED
    BY <2>1, <2>2, <2>3 DEF Alone!Init, Phases, PhaseOf
<1>2. EngineInv /\ Drawn /\ [LLMEngineNext]_engineVars => [Alone!Next]_(Alone!vars)
  <2> SUFFICES ASSUME EngineInv, Drawn, [LLMEngineNext]_engineVars
               PROVE  [Alone!Next]_(Alone!vars)
    OBVIOUS
  <2>1. TypeOK /\ QueueInv
    BY DEF EngineInv, IndInv
  <2>2. ASSUME NEW s \in Seqs, NEW r \in Requests, AddRequest(s, r) PROVE Alone!Next
    <3>1. Alone!Submit(s, r)
      BY <2>1, <2>2, SubmitStep
    <3> QED
      BY <3>1 DEF Alone!Next
  <2>3. CASE PostEmit
    <3>1. \E s \in Seqs : Alone!Extend(s)
      BY <2>3, ExtendStep
    <3> QED
      BY <3>1 DEF Alone!Next
  <2>4. CASE ~ PostEmit /\ ~ \E s \in Seqs, r \in Requests : AddRequest(s, r)
    <3>1. UNCHANGED <<request, token_ids, Phases>>
      BY <2>4, OtherSteps
    <3> QED
      BY <3>1 DEF Alone!vars, Phases, PhaseOf
  <2> QED
    BY <2>2, <2>3, <2>4
<1> QED
  BY <1>1, <1>2, DrawnInvariance, BatchInvariance, PTL DEF LLMEngineSpec
=============================================================================
