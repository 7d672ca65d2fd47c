-------------------------- MODULE BlockManagerProofs --------------------------
(***************************************************************************)
(* Proofs about BlockManager.tla, for every pool size, block size, set of    *)
(* sequences, prompts and hash function.                                    *)
(***************************************************************************)
EXTENDS BlockManager, FiniteSetTheorems, FunctionTheorems, SequenceTheorems,
        WellFoundedInduction, TLAPS

-----------------------------------------------------------------------------
(* Largest elements *)

LEMMA MaxOfBounded ==
  ASSUME NEW n \in Nat, NEW T \in SUBSET (0 .. n), T # {}
  PROVE  /\ Max(T) \in T
         /\ \A x \in T : x <= Max(T)
<1> DEFINE R == {n - x : x \in T}
<1>1. R \in SUBSET Nat /\ R # {}
  <2>1. PICK x \in T : TRUE
    OBVIOUS
  <2>2. n - x \in R
    OBVIOUS
  <2>3. \A y \in 0 .. n : n - y \in Nat
    OBVIOUS
  <2> QED
    BY <2>2, <2>3
<1>2. PICK m \in R : \A y \in R : <<y, m>> \notin OpToRel(<, Nat)
  BY <1>1, WFMin, NatLessThanWellFounded, Zenon
<1>3. \A y \in R : ~ (y < m)
  BY <1>1, <1>2 DEF OpToRel
<1>4. PICK k \in T : m = n - k
  BY <1>2
<1>5. \A x \in T : k >= x
  BY <1>3, <1>4
<1> QED
  BY <1>4, <1>5 DEF Max
-----------------------------------------------------------------------------
(* Counting the table entries that name a block *)

(* The entries of the other sequences' tables. *)
OtherSlots(tables, s, b) == UNION {{r} \X positions(tables[r], b) : r \in Seqs \ {s}}

LEMMA PositionsFinite ==
  ASSUME NEW table, NEW b, table \in Seq(Block)
  PROVE  /\ IsFiniteSet(positions(table, b))
         /\ occurrences(table, b) \in Nat
         /\ b \notin Range(table) => occurrences(table, b) = 0
         /\ b \in Range(table) => occurrences(table, b) > 0
<1>1. IsFiniteSet(1 .. Len(table)) /\ Len(table) \in Nat /\ DOMAIN table = 1 .. Len(table)
  BY FS_Interval
<1>2. IsFiniteSet(positions(table, b))
  BY <1>1, FS_Subset DEF positions
<1>3. b \notin Range(table) => positions(table, b) = {}
  BY DEF positions, Range
<1>4. b \in Range(table) => positions(table, b) # {}
  BY DEF positions, Range
<1> QED
  BY <1>2, <1>3, <1>4, FS_EmptySet, FS_CardinalityType DEF occurrences

LEMMA SlotsSplit ==
  ASSUME NEW s \in Seqs, NEW b \in Block,
         NEW tables, tables \in [Seqs -> Seq(Block)]
  PROVE  /\ IsFiniteSet(OtherSlots(tables, s, b))
         /\ Cardinality(OtherSlots(tables, s, b)) \in Nat
         /\ Cardinality(Slots(tables, b)) =
              Cardinality(OtherSlots(tables, s, b)) + occurrences(tables[s], b)
<1> DEFINE P(r) == positions(tables[r], b)
           Family == {{r} \X P(r) : r \in Seqs \ {s}}
           g == [r \in Seqs \ {s} |-> {r} \X P(r)]
<1>1. \A r \in Seqs : IsFiniteSet(P(r))
  BY PositionsFinite
<1>2. \A r \in Seqs : IsFiniteSet({r} \X P(r))
  BY <1>1, FS_Product, FS_Singleton
<1>3. IsFiniteSet(Seqs \ {s})
  BY SeqsAssumption, FS_RemoveElement
<1>4. g \in Surjection(Seqs \ {s}, Family)
  <2>1. \A r \in Seqs \ {s} : g[r] \in Family
    OBVIOUS
  <2>2. g \in [Seqs \ {s} -> Family]
    BY <2>1, Zenon
  <2>3. \A F \in Family : \E r \in Seqs \ {s} : g[r] = F
    BY Zenon
  <2> QED
    BY <2>2, <2>3, Zenon DEF Surjection
<1>5. IsFiniteSet(Family)
  BY <1>3, <1>4, FS_Surjection
<1>6. IsFiniteSet(OtherSlots(tables, s, b))
  BY <1>2, <1>5, FS_UNION DEF OtherSlots
<1>7. Cardinality({s} \X P(s)) = occurrences(tables[s], b)
  <2>1. IsFiniteSet({s}) /\ Cardinality({s}) = 1
    BY FS_Singleton
  <2>2. IsFiniteSet(P(s)) /\ Cardinality(P(s)) \in Nat
    BY <1>1, FS_CardinalityType
  <2>3. Cardinality({s} \X P(s)) = Cardinality({s}) * Cardinality(P(s))
    BY <2>1, <2>2, FS_Product
  <2> QED
    BY <2>1, <2>2, <2>3 DEF occurrences
<1>8. Slots(tables, b) = OtherSlots(tables, s, b) \cup ({s} \X P(s))
  BY DEF Slots, OtherSlots
<1>9. OtherSlots(tables, s, b) \cap ({s} \X P(s)) = {}
  BY DEF OtherSlots
<1>10. Cardinality(Slots(tables, b)) =
         Cardinality(OtherSlots(tables, s, b)) + Cardinality({s} \X P(s)) - Cardinality({})
  BY <1>2, <1>6, <1>8, <1>9, FS_Union
<1>11. Cardinality(OtherSlots(tables, s, b)) \in Nat
  BY <1>6, FS_CardinalityType
<1>12. Cardinality({s} \X P(s)) \in Nat
  BY <1>2, FS_CardinalityType
<1> QED
  BY <1>6, <1>7, <1>10, <1>11, <1>12, FS_EmptySet

-----------------------------------------------------------------------------
(* Division by the block size *)

LEMMA DivBounds ==
  ASSUME NEW a \in Nat, NEW m \in Nat \ {0}
  PROVE  a \div m \in Nat /\ (a \div m) * m <= a /\ a < (a \div m) * m + m
  OBVIOUS

LEMMA DivUnique ==
  ASSUME NEW a \in Nat, NEW m \in Nat \ {0}, NEW k \in Nat,
         k * m <= a, a < k * m + m
  PROVE  a \div m = k
  OBVIOUS

LEMMA FactorBound ==
  ASSUME NEW a \in Nat, NEW b \in Nat, NEW m \in Nat \ {0}, a * m < b * m + m
  PROVE  a <= b
  OBVIOUS

LEMMA DivMonotone ==
  ASSUME NEW a \in Nat, NEW b \in Nat, NEW m \in Nat \ {0}, a <= b
  PROVE  a \div m <= b \div m
<1>1. (a \div m) * m < (b \div m) * m + m
  BY DivBounds
<1> QED
  BY <1>1, DivBounds, FactorBound

LEMMA DivOfMultiple ==
  ASSUME NEW m \in Nat \ {0}, NEW k \in Nat
  PROVE  k * m \in Nat /\ (k * m) \div m = k
<1>1. k * m \in Nat
  OBVIOUS
<1> QED
  BY <1>1, DivUnique

LEMMA DivAtMost ==
  ASSUME NEW a \in Nat, NEW m \in Nat \ {0}, NEW k \in Nat, a <= k * m
  PROVE  a \div m <= k
<1>1. (a \div m) * m < k * m + m
  BY DivBounds
<1> QED
  BY <1>1, DivBounds, FactorBound

-----------------------------------------------------------------------------
(* The inductive invariant.  The counts and the free list need TailPrivate    *)
(* nowhere, but the index does: only because a block being published is      *)
(* unpublished and named once does no other entry lose its block.  TailPrivate *)
(* in turn needs the counts (a recycled block is nobody's) and Covered (a     *)
(* block appended to the table lies behind the computed ones).               *)

IndInv ==
  /\ TypeOK
  /\ RefCountExact
  /\ FreeIdsExact
  /\ IndexSound
  /\ CachedBlocksOwn
  /\ TailPrivate
  /\ Covered

LEMMA InitInv == BlockManagerInit => IndInv
<1> SUFFICES ASSUME BlockManagerInit PROVE IndInv
  OBVIOUS
<1> USE DEF BlockManagerInit
<1>1. TypeOK
  BY DEF TypeOK, ZeroHash
<1>2. \A s \in Seqs : block_table[s] = <<>> /\ num_cached_tokens[s] = 0
                      /\ num_scheduled_tokens[s] = 0 /\ token_ids[s] = <<>>
  OBVIOUS
<1>3. \A b \in Block : Slots(block_table, b) = {}
  BY <1>2 DEF Slots, positions
<1>4. RefCountExact /\ FreeIdsExact
  BY <1>3, FS_EmptySet DEF RefCountExact, FreeIdsExact
<1>5. IndexSound
  BY DEF IndexSound
<1>6. \A s \in Seqs : hash_start(s) = 0 /\ Len(block_table[s]) = 0
  BY <1>2, DivOfMultiple, PoolAssumption DEF hash_start
<1>7. CachedBlocksOwn /\ TailPrivate
  BY <1>6 DEF CachedBlocksOwn, TailPrivate
<1>8. Covered
  BY <1>2, PoolAssumption DEF Covered, size
<1> QED
  BY <1>1, <1>4, <1>5, <1>7, <1>8 DEF IndInv

(* The tables after one of them is replaced name each block as often as      *)
(* before, less the entries taken out, plus the entries put in.              *)
LEMMA ReplaceTable ==
  ASSUME NEW s \in Seqs, NEW b \in Block, NEW table \in Seq(Block),
         NEW tables, tables \in [Seqs -> Seq(Block)]
  PROVE  LET new == [tables EXCEPT ![s] = table]
         IN  /\ occurrences(tables[s], b) \in Nat /\ occurrences(table, b) \in Nat
             /\ Cardinality(Slots(tables, b)) \in Nat
             /\ occurrences(tables[s], b) <= Cardinality(Slots(tables, b))
             /\ Cardinality(Slots(new, b)) =
                  Cardinality(Slots(tables, b)) - occurrences(tables[s], b)
                    + occurrences(table, b)
<1> DEFINE new == [tables EXCEPT ![s] = table]
<1>1. new \in [Seqs -> Seq(Block)] /\ new[s] = table
  OBVIOUS
<1>2. OtherSlots(new, s, b) = OtherSlots(tables, s, b)
  BY DEF OtherSlots
<1>3. occurrences(tables[s], b) \in Nat /\ occurrences(table, b) \in Nat
  BY PositionsFinite
<1> HIDE DEF new
<1>4. /\ Cardinality(OtherSlots(tables, s, b)) \in Nat
      /\ Cardinality(Slots(tables, b)) =
           Cardinality(OtherSlots(tables, s, b)) + occurrences(tables[s], b)
  BY SlotsSplit
<1>5. Cardinality(Slots(new, b)) =
        Cardinality(OtherSlots(new, s, b)) + occurrences(table, b)
  BY <1>1, SlotsSplit
<1> QED
  BY <1>2, <1>3, <1>4, <1>5 DEF new

LEMMA TypeFacts ==
  ASSUME TypeOK, NEW s \in Seqs
  PROVE  /\ token_ids[s] \in Seq(Token) /\ size(s) \in Nat
         /\ block_table[s] \in Seq(Block) /\ Len(block_table[s]) \in Nat
         /\ DOMAIN block_table[s] = 1 .. Len(block_table[s])
         /\ num_cached_tokens[s] \in Nat /\ num_scheduled_tokens[s] \in Nat
         /\ hash_start(s) \in Nat /\ hash_end(s) \in Nat
         /\ \A i \in 1 .. Len(block_table[s]) : block_table[s][i] \in Block
         /\ hash_start(s) * BlockSize <= num_cached_tokens[s]
         /\ num_cached_tokens[s] < hash_start(s) * BlockSize + BlockSize
<1>1. token_ids[s] \in Seq(Token) /\ block_table[s] \in Seq(Block)
      /\ num_cached_tokens[s] \in Nat /\ num_scheduled_tokens[s] \in Nat
  BY DEF TypeOK
<1>2. num_cached_tokens[s] + num_scheduled_tokens[s] \in Nat
  BY <1>1
<1> QED
  BY <1>1, <1>2, DivBounds, PoolAssumption, LenProperties, ElementOfSeq
     DEF hash_start, hash_end, size

(* hash_start lies within the table: the computed blocks have entries. *)
LEMMA StartWithinTable ==
  ASSUME TypeOK, Covered, NEW s \in Seqs
  PROVE  hash_start(s) <= Len(block_table[s])
<1>1. num_cached_tokens[s] \in Nat /\ num_scheduled_tokens[s] \in Nat
      /\ Len(block_table[s]) \in Nat
  BY TypeFacts
<1>2. Len(block_table[s]) * BlockSize \in Nat
  BY <1>1, PoolAssumption
<1>3. num_cached_tokens[s] + num_scheduled_tokens[s] <= Len(block_table[s]) * BlockSize
  BY DEF Covered
<1>4. num_cached_tokens[s] <= Len(block_table[s]) * BlockSize
  BY <1>1, <1>2, <1>3
<1> QED
  BY <1>1, <1>4, DivAtMost, PoolAssumption DEF hash_start

LEMMA ProductMonotone ==
  ASSUME NEW a \in Nat, NEW b \in Nat, NEW m \in Nat, a <= b
  PROVE  a * m \in Nat /\ b * m \in Nat /\ a * m <= b * m
<1>1. b * m = a * m + (b - a) * m
  OBVIOUS
<1>2. a * m \in Nat /\ (b - a) * m \in Nat
  OBVIOUS
<1> QED
  BY <1>1, <1>2

(* A computed block lies within the text. *)
LEMMA StartWithinText ==
  ASSUME TypeOK, Covered, NEW s \in Seqs, NEW i \in 1 .. hash_start(s)
  PROVE  /\ i * BlockSize \in Nat /\ i * BlockSize <= size(s)
         /\ (i - 1) * BlockSize + 1 \in Nat \ {0}
<1>1. i \in Nat /\ i - 1 \in Nat /\ i <= hash_start(s) /\ BlockSize \in Nat
  BY TypeFacts, PoolAssumption
<1>2. i * BlockSize \in Nat /\ i * BlockSize <= hash_start(s) * BlockSize
      /\ hash_start(s) * BlockSize \in Nat
  BY <1>1, TypeFacts, ProductMonotone
<1>3. (i - 1) * BlockSize \in Nat
  BY <1>1
<1>4. num_cached_tokens[s] <= size(s)
  BY TypeFacts DEF Covered
<1> QED
  BY <1>2, <1>3, <1>4, TypeFacts

LEMMA StutterInv ==
  ASSUME IndInv, UNCHANGED blockManagerVars
  PROVE  IndInv'
<1> USE DEF IndInv, blockManagerVars, seqVars, poolVars
<1>1. TypeOK'
  BY DEF TypeOK
<1>2. RefCountExact' /\ FreeIdsExact' /\ IndexSound'
  BY DEF RefCountExact, FreeIdsExact, IndexSound
<1>3. CachedBlocksOwn' /\ TailPrivate'
  BY DEF CachedBlocksOwn, TailPrivate, hash_start, block_tokens, size
<1>4. Covered'
  BY DEF Covered, size
<1> QED
  BY <1>1, <1>2, <1>3, <1>4

LEMMA CreateInv ==
  ASSUME IndInv, NEW s \in Seqs, NEW p \in Prompts, Create(s, p)
  PROVE  IndInv'
<1> USE DEF IndInv, Create, poolVars
<1>1. TypeOK'
  BY PromptAssumption DEF TypeOK
<1>2. RefCountExact' /\ FreeIdsExact' /\ IndexSound'
  BY DEF RefCountExact, FreeIdsExact, IndexSound
<1>3. \A r \in Seqs : hash_start(r)' = hash_start(r)
  BY DEF hash_start
<1>4. num_cached_tokens[s] = 0 /\ num_scheduled_tokens[s] = 0
  <2>1. size(s) = 0
    BY DEF size
  <2> QED
    BY <2>1, TypeFacts DEF Covered
<1>5. hash_start(s) = 0
  BY <1>4, DivOfMultiple, PoolAssumption DEF hash_start
<1>6. \A r \in Seqs \ {s} : token_ids'[r] = token_ids[r]
  BY DEF TypeOK
<1>7. CachedBlocksOwn'
  BY <1>3, <1>5, <1>6 DEF CachedBlocksOwn, block_tokens, size
<1>8. TailPrivate'
  BY <1>3 DEF TailPrivate
<1>9. Covered'
  <2>1. p \in Seq(Token) /\ Len(p) \in Nat /\ token_ids'[s] = p
    BY PromptAssumption, LenProperties DEF TypeOK
  <2> QED
    BY <1>4, <1>6, <2>1 DEF Covered, size
<1> QED
  BY <1>1, <1>2, <1>7, <1>8, <1>9

LEMMA SetScheduledInv ==
  ASSUME IndInv, NEW s \in Seqs, NEW n, SetScheduled(s, n)
  PROVE  IndInv'
<1> USE DEF IndInv, SetScheduled, poolVars
<1>1. n \in Nat
  BY TypeFacts
<1>2. TypeOK'
  BY <1>1 DEF TypeOK
<1>3. RefCountExact' /\ FreeIdsExact' /\ IndexSound'
  BY DEF RefCountExact, FreeIdsExact, IndexSound
<1>4. CachedBlocksOwn' /\ TailPrivate'
  BY DEF CachedBlocksOwn, TailPrivate, hash_start, block_tokens, size
<1>5. Covered'
  <2>1. num_scheduled_tokens'[s] = n
    BY DEF TypeOK
  <2>2. \A r \in Seqs \ {s} : num_scheduled_tokens'[r] = num_scheduled_tokens[r]
    BY DEF TypeOK
  <2> QED
    BY <1>1, <2>1, <2>2, TypeFacts DEF Covered, size
<1> QED
  BY <1>2, <1>3, <1>4, <1>5

LEMMA SubSeqOfAppend ==
  ASSUME NEW seq \in Seq(Token), NEW t \in Token, NEW m \in Nat \ {0}, NEW n \in Nat,
         n <= Len(seq)
  PROVE  SubSeq(Append(seq, t), m, n) = SubSeq(seq, m, n)
<1> DEFINE long == Append(seq, t)
<1>1. Len(seq) \in Nat /\ \A i \in 1 .. Len(seq) : seq[i] \in Token /\ long[i] = seq[i]
  BY LenProperties, ElementOfSeq
<1>2. \A i \in m .. n : i \in 1 .. Len(seq)
  BY <1>1
<1>3. /\ SubSeq(seq, m, n) \in Seq(Token)
      /\ Len(SubSeq(seq, m, n)) = IF m <= n THEN n - m + 1 ELSE 0
      /\ \A i \in 1 .. n - m + 1 : SubSeq(seq, m, n)[i] = seq[m + i - 1]
  BY <1>1, <1>2, SubSeqProperties
<1> HIDE DEF long
<1>4. /\ SubSeq(long, m, n) \in Seq(Token)
      /\ Len(SubSeq(long, m, n)) = IF m <= n THEN n - m + 1 ELSE 0
      /\ \A i \in 1 .. n - m + 1 : SubSeq(long, m, n)[i] = long[m + i - 1]
  BY <1>1, <1>2, SubSeqProperties
<1>5. \A i \in 1 .. Len(SubSeq(long, m, n)) :
        SubSeq(long, m, n)[i] = SubSeq(seq, m, n)[i]
  BY <1>1, <1>3, <1>4
<1>6. SubSeq(long, m, n) = SubSeq(seq, m, n)
  BY <1>3, <1>4, <1>5, SeqEqual
<1> QED
  BY <1>6 DEF long

LEMMA AppendTokenInv ==
  ASSUME IndInv, NEW s \in Seqs, NEW t \in Token, AppendToken(s, t)
  PROVE  IndInv'
<1> USE DEF IndInv, AppendToken, poolVars
<1>1. TypeOK'
  BY DEF TypeOK
<1>2. RefCountExact' /\ FreeIdsExact' /\ IndexSound'
  BY DEF RefCountExact, FreeIdsExact, IndexSound
<1>3. TailPrivate'
  BY DEF TailPrivate, hash_start
<1>4. \A r \in Seqs : size(r) \in Nat /\ size(r)' \in Nat /\ size(r) <= size(r)'
  BY TypeFacts DEF TypeOK, size
<1>5. Covered'
  <2> SUFFICES ASSUME NEW r \in Seqs
               PROVE  LET reach == num_cached_tokens[r] + num_scheduled_tokens[r]
                      IN  reach <= size(r)' /\ reach <= Len(block_table[r]) * BlockSize
    BY DEF Covered
  <2> QED
    BY <1>4, TypeFacts DEF Covered
<1>6. ASSUME NEW r \in Seqs, NEW i \in 1 .. hash_start(r)
      PROVE  block_tokens(r, i)' = block_tokens(r, i)
  <2>1. CASE r # s
    BY <2>1 DEF TypeOK, block_tokens, size
  <2>2. CASE r = s
    <3>2. i * BlockSize <= size(s) /\ i * BlockSize \in Nat
          /\ (i - 1) * BlockSize + 1 \in Nat \ {0}
      BY <2>2, StartWithinText
    <3>3. i * BlockSize <= size(s)'
      BY <1>4, <3>2
    <3>4. token_ids'[s] = Append(token_ids[s], t)
      BY DEF TypeOK
    <3> QED
      <4>1. block_tokens(s, i) =
              SubSeq(token_ids[s], (i - 1) * BlockSize + 1, i * BlockSize)
        BY <3>2 DEF block_tokens
      <4>2. block_tokens(s, i)' =
              SubSeq(Append(token_ids[s], t), (i - 1) * BlockSize + 1, i * BlockSize)
        BY <3>3, <3>4 DEF block_tokens
      <4>3. SubSeq(Append(token_ids[s], t), (i - 1) * BlockSize + 1, i * BlockSize) =
              SubSeq(token_ids[s], (i - 1) * BlockSize + 1, i * BlockSize)
        <5>1. token_ids[s] \in Seq(Token) /\ i * BlockSize <= Len(token_ids[s])
          BY <3>2, TypeFacts DEF size
        <5> QED
          BY <3>2, <5>1, SubSeqOfAppend, Zenon
      <4> QED
        BY <2>2, <4>1, <4>2, <4>3
  <2> QED
    BY <2>1, <2>2
<1>7. CachedBlocksOwn'
  BY <1>6 DEF CachedBlocksOwn, hash_start
<1> QED
  BY <1>1, <1>2, <1>3, <1>5, <1>7

(* A block that a table names has a slot; a block with one slot is named once. *)
LEMMA SlotCounts ==
  ASSUME NEW tables, tables \in [Seqs -> Seq(Block)], NEW b \in Block,
         NEW s \in Seqs, NEW i \in DOMAIN tables[s], tables[s][i] = b
  PROVE  /\ Cardinality(Slots(tables, b)) \in Nat \ {0}
         /\ \A r \in Seqs : \A j \in DOMAIN tables[r] :
              Cardinality(Slots(tables, b)) = 1 /\ tables[r][j] = b => r = s /\ j = i
<1>1. b \in Range(tables[s])
  BY DEF Range
<1>2. tables[s] \in Seq(Block)
  OBVIOUS
<1>3. occurrences(tables[s], b) \in Nat \ {0}
  BY <1>1, <1>2, PositionsFinite
<1>4. /\ IsFiniteSet(OtherSlots(tables, s, b))
      /\ Cardinality(OtherSlots(tables, s, b)) \in Nat
      /\ Cardinality(Slots(tables, b)) =
           Cardinality(OtherSlots(tables, s, b)) + occurrences(tables[s], b)
  BY SlotsSplit
<1>5. Cardinality(Slots(tables, b)) \in Nat \ {0}
  BY <1>3, <1>4
<1>6. IsFiniteSet(Slots(tables, b))
  <2>1. Slots(tables, b) = OtherSlots(tables, s, b) \cup ({s} \X positions(tables[s], b))
    BY DEF Slots, OtherSlots
  <2> DEFINE own == {s} \X positions(tables[s], b)
  <2>2. IsFiniteSet(own)
    BY <1>2, PositionsFinite, FS_Product, FS_Singleton
  <2> HIDE DEF own
  <2>3. IsFiniteSet(OtherSlots(tables, s, b) \cup own)
    BY <1>4, <2>2, FS_Union
  <2> QED
    BY <2>1, <2>3 DEF own
<1>7. ASSUME NEW r \in Seqs, NEW j \in DOMAIN tables[r],
             Cardinality(Slots(tables, b)) = 1, tables[r][j] = b
      PROVE  r = s /\ j = i
  <2>1. <<s, i>> \in Slots(tables, b) /\ <<r, j>> \in Slots(tables, b)
    <3>1. i \in positions(tables[s], b) /\ j \in positions(tables[r], b)
      BY <1>7 DEF positions
    <3> QED
      BY <3>1 DEF Slots
  <2>2. \E x : Slots(tables, b) = {x}
    BY <1>6, <1>7, FS_Singleton
  <2> QED
    BY <2>1, <2>2
<1> QED
  BY <1>5, <1>7

LEMMA DeallocateInv ==
  ASSUME IndInv, NEW s \in Seqs, Deallocate(s)
  PROVE  IndInv'
<1> USE DEF IndInv, Deallocate, deallocate
<1>1. \A b \in Block :
        /\ ref_count[b] \in Nat /\ occurrences(block_table[s], b) \in Nat
        /\ ref_count'[b] = ref_count[b] - occurrences(block_table[s], b)
        /\ ref_count'[b] = Cardinality(Slots(block_table', b))
        /\ ref_count'[b] \in Nat
        /\ occurrences(block_table[s], b) = 0 <=> b \notin Range(block_table[s])
  <2> SUFFICES ASSUME NEW b \in Block
               PROVE  /\ ref_count[b] \in Nat /\ occurrences(block_table[s], b) \in Nat
                      /\ ref_count'[b] = ref_count[b] - occurrences(block_table[s], b)
                      /\ ref_count'[b] = Cardinality(Slots(block_table', b))
                      /\ ref_count'[b] \in Nat
                      /\ occurrences(block_table[s], b) = 0 <=> b \notin Range(block_table[s])
    OBVIOUS
  <2>1. block_table \in [Seqs -> Seq(Block)] /\ <<>> \in Seq(Block)
    BY EmptySeq DEF TypeOK
  <2>2. ref_count[b] = Cardinality(Slots(block_table, b))
    BY DEF RefCountExact
  <2>3. occurrences(<<>>, b) = 0
    <3>1. b \notin Range(<<>>)
      BY DEF Range
    <3> QED
      BY <2>1, <3>1, PositionsFinite
  <2>4. /\ occurrences(block_table[s], b) \in Nat
        /\ Cardinality(Slots(block_table, b)) \in Nat
        /\ occurrences(block_table[s], b) <= Cardinality(Slots(block_table, b))
        /\ Cardinality(Slots(block_table', b)) =
             Cardinality(Slots(block_table, b)) - occurrences(block_table[s], b) + 0
    BY <2>1, <2>3, ReplaceTable
  <2>5. ref_count'[b] = count_released(s, b)
    OBVIOUS
  <2>6. ref_count'[b] = ref_count[b] - occurrences(block_table[s], b)
    BY <2>2, <2>4, <2>5 DEF count_released
  <2>7. occurrences(block_table[s], b) = 0 <=> b \notin Range(block_table[s])
    BY <2>1, PositionsFinite
  <2> QED
    BY <2>2, <2>4, <2>6, <2>7
<1>2. TypeOK'
  <2>1. block_table' \in [Seqs -> Seq(Block)]
    BY EmptySeq DEF TypeOK
  <2>2. ref_count' \in [Block -> Nat]
    BY <1>1
  <2>3. free_ids' \in SUBSET Block
    <3>1. Range(block_table[s]) \subseteq Block
      BY RangeOfSeq DEF TypeOK
    <3> QED
      BY <3>1 DEF TypeOK
  <2> QED
    BY <2>1, <2>2, <2>3 DEF TypeOK
<1>3. RefCountExact'
  BY <1>1 DEF RefCountExact
<1>4. FreeIdsExact'
  <2> SUFFICES ASSUME NEW b \in Block PROVE b \in free_ids' <=> ref_count'[b] = 0
    BY DEF FreeIdsExact
  <2>1. b \in free_ids <=> ref_count[b] = 0
    BY DEF FreeIdsExact
  <2>2. count_released(s, b) = ref_count'[b]
    OBVIOUS
  <2> QED
    BY <1>1, <2>1, <2>2
<1>5. IndexSound'
  BY DEF IndexSound
<1>6. \A r \in Seqs \ {s} : block_table'[r] = block_table[r]
        /\ num_cached_tokens'[r] = num_cached_tokens[r]
        /\ num_scheduled_tokens'[r] = num_scheduled_tokens[r]
  BY DEF TypeOK
<1>7. block_table'[s] = <<>> /\ num_cached_tokens'[s] = 0 /\ num_scheduled_tokens'[s] = 0
  BY DEF TypeOK
<1>8. hash_start(s)' = 0 /\ \A r \in Seqs \ {s} : hash_start(r)' = hash_start(r)
  BY <1>6, <1>7, DivOfMultiple, PoolAssumption DEF hash_start
<1>9. CachedBlocksOwn'
  BY <1>6, <1>8 DEF CachedBlocksOwn, block_tokens, size
<1>10. TailPrivate'
  <2> SUFFICES ASSUME NEW r \in Seqs,
                      NEW i \in (hash_start(r) + 1 .. Len(block_table[r]))'
               PROVE  LET b == block_table'[r][i] IN ref_count'[b] = 1 /\ ~ hash_valid[b]
    BY DEF TailPrivate
  <2>1. r # s
    BY <1>7, <1>8
  <2>2. i \in hash_start(r) + 1 .. Len(block_table[r]) /\ block_table'[r] = block_table[r]
    BY <1>6, <1>8, <2>1
  <2> DEFINE b == block_table[r][i]
  <2>3. ref_count[b] = 1 /\ ~ hash_valid[b]
    BY <2>2 DEF TailPrivate
  <2>4. i \in DOMAIN block_table[r] /\ b \in Block
    BY <2>2, TypeFacts
  <2>5. block_table' \in [Seqs -> Seq(Block)]
    BY <1>2 DEF TypeOK
  <2>6. Cardinality(Slots(block_table', b)) \in Nat \ {0}
    <3>1. i \in DOMAIN block_table'[r] /\ block_table'[r][i] = b
      BY <2>2, <2>4
    <3> HIDE DEF b
    <3> QED
      BY <2>4, <2>5, <3>1, SlotCounts
  <2> QED
    BY <1>1, <2>2, <2>3, <2>4, <2>6
<1>11. Covered'
  <2>1. \A r \in Seqs : size(r)' = size(r) /\ size(r) \in Nat
    BY TypeFacts DEF size
  <2>2. Len(<<>>) * BlockSize = 0
    BY PoolAssumption
  <2> QED
    BY <1>6, <1>7, <2>1, <2>2 DEF Covered
<1> QED
  BY <1>2, <1>3, <1>4, <1>5, <1>9, <1>10, <1>11

(* Clearing blocks keeps the index sound: their entries go with them. *)
LEMMA ClearBlocks ==
  ASSUME TypeOK, IndexSound, NEW F \in SUBSET Block, clear_blocks(F)
  PROVE  /\ hash_valid' \in [Block -> BOOLEAN]
         /\ hash' = [b \in Block |-> hash'[b]]
         /\ block_ids' \in [Block -> Seq(Token)]
         /\ hash_to_block' \in [DOMAIN hash_to_block' -> Block]
         /\ IndexSound'
         /\ \A b \in F : ~ hash_valid'[b]
         /\ \A b \in Block \ F : /\ hash_valid'[b] = hash_valid[b]
                                 /\ hash'[b] = hash[b]
                                 /\ block_ids'[b] = block_ids[b]
<1> USE DEF clear_blocks
<1>1. hash_valid' \in [Block -> BOOLEAN]
  BY DEF TypeOK
<1>2. hash' = [b \in Block |-> hash'[b]]
  OBVIOUS
<1>3. block_ids' \in [Block -> Seq(Token)]
  BY EmptySeq DEF TypeOK
<1>4. \A h \in DOMAIN hash_to_block' :
        /\ h \in DOMAIN hash_to_block
        /\ hash_to_block'[h] = hash_to_block[h]
        /\ ~ \E b \in F : hash_valid[b] /\ hash[b] = h /\ hash_to_block[h] = b
  BY DEF without_entries
<1>5. hash_to_block' \in [DOMAIN hash_to_block' -> Block]
  BY <1>4 DEF without_entries, TypeOK
<1>6. \A b \in F : ~ hash_valid'[b]
  OBVIOUS
<1>7. \A b \in Block \ F :
        hash_valid'[b] = hash_valid[b] /\ hash'[b] = hash[b] /\ block_ids'[b] = block_ids[b]
  OBVIOUS
<1>8. IndexSound'
  <2> SUFFICES ASSUME NEW h \in DOMAIN hash_to_block'
               PROVE  hash_valid'[hash_to_block'[h]] /\ hash'[hash_to_block'[h]] = h
    BY DEF IndexSound
  <2>1. hash_valid[hash_to_block[h]] /\ hash[hash_to_block[h]] = h
    BY <1>4 DEF IndexSound
  <2>2. hash_to_block'[h] \in Block \ F
    BY <1>4, <1>5, <2>1
  <2> QED
    BY <1>4, <1>7, <2>1, <2>2
<1> QED
  BY <1>1, <1>2, <1>3, <1>5, <1>6, <1>7, <1>8

LEMMA SizeFacts ==
  ASSUME TypeOK, NEW s \in Seqs, size(s) > 0
  PROVE  /\ last_block(s) \in Nat \ {0}
         /\ num_blocks(s) = last_block(s)
         /\ (last_block(s) - 1) * BlockSize < size(s)
         /\ size(s) <= last_block(s) * BlockSize
<1> DEFINE q == (size(s) - 1) \div BlockSize
<1>1. size(s) - 1 \in Nat /\ size(s) \in Nat
  BY TypeFacts
<1>2. q \in Nat /\ q * BlockSize <= size(s) - 1 /\ size(s) - 1 < q * BlockSize + BlockSize
  BY <1>1, DivBounds, PoolAssumption
<1>3. last_block(s) = q + 1
  BY DEF last_block
<1> HIDE DEF q
<1>4. (q + 1) * BlockSize = q * BlockSize + BlockSize /\ q * BlockSize \in Nat
      /\ BlockSize \in Nat \ {0}
  BY <1>2, PoolAssumption
<1>5. (size(s) + BlockSize - 1) \div BlockSize = q + 1
  <2>1. size(s) + BlockSize - 1 \in Nat
    BY <1>1, <1>4
  <2>2. (q + 1) * BlockSize <= size(s) + BlockSize - 1
        /\ size(s) + BlockSize - 1 < (q + 1) * BlockSize + BlockSize
    BY <1>1, <1>2, <1>4
  <2> DEFINE a == size(s) + BlockSize - 1
             k == q + 1
  <2>3. a \in Nat /\ k \in Nat /\ k * BlockSize <= a /\ a < k * BlockSize + BlockSize
    BY <1>2, <2>1, <2>2
  <2> HIDE DEF a, k
  <2>4. a \div BlockSize = k
    BY <1>4, <2>3, DivUnique
  <2> QED
    BY <2>4 DEF a, k
<1> QED
  BY <1>1, <1>2, <1>3, <1>4, <1>5 DEF num_blocks

LEMMA FunctionSeq ==
  ASSUME NEW n \in Nat, NEW S, NEW q \in [1 .. n -> S]
  PROVE  q \in Seq(S) /\ Len(q) = n
<1>1. q \in Seq(S)
  OBVIOUS
<1>2. Len(q) \in Nat /\ DOMAIN q = 1 .. Len(q) /\ DOMAIN q = 1 .. n
  BY <1>1
<1> QED
  BY <1>1, <1>2

LEMMA MayAppendInv ==
  ASSUME IndInv, NEW s \in Seqs, MayAppend(s)
  PROVE  IndInv'
<1> USE DEF IndInv, MayAppend
<1>1. CASE last_block(s) <= Len(block_table[s])
  <2>1. UNCHANGED blockManagerVars
    BY <1>1 DEF may_append, blockManagerVars, seqVars, poolVars
  <2> QED
    BY <2>1, StutterInv
<1>2. CASE ~ (last_block(s) <= Len(block_table[s]))
  <2>1. PICK fresh \in lowest(free_ids, 1) :
          /\ clear_blocks(Range(fresh))
          /\ ref_count' = [ref_count EXCEPT ![fresh[1]] = 1]
          /\ free_ids' = free_ids \ {fresh[1]}
          /\ block_table' = [block_table EXCEPT ![s] = @ \o fresh]
          /\ UNCHANGED <<token_ids, num_cached_tokens, num_scheduled_tokens>>
    BY <1>2 DEF may_append
  <2> DEFINE f == fresh[1]
             F == {f}
             table == block_table[s]
  <2>2. /\ f \in free_ids /\ f \in Block /\ ref_count[f] = 0
        /\ Range(fresh) = F /\ fresh \in Seq(Block) /\ Len(fresh) = 1
        /\ DOMAIN fresh = 1 .. 1
    <3>1. fresh \in [1 .. 1 -> free_ids]
      BY DEF lowest
    <3>2. free_ids \subseteq Block
      BY DEF TypeOK
    <3>3. fresh \in Seq(Block) /\ Len(fresh) = 1
      <4>1. fresh \in [1 .. 1 -> Block]
        BY <3>1, <3>2
      <4> QED
        BY <4>1, FunctionSeq
    <3> QED
      BY <3>1, <3>2, <3>3 DEF Range, FreeIdsExact
  <2> HIDE DEF f
  <2>3. clear_blocks(F)
    BY <2>1, <2>2
  <2>16. /\ hash_valid' \in [Block -> BOOLEAN]
         /\ hash' = [b \in Block |-> hash'[b]]
         /\ block_ids' \in [Block -> Seq(Token)]
         /\ hash_to_block' \in [DOMAIN hash_to_block' -> Block]
         /\ IndexSound'
         /\ ~ hash_valid'[f]
         /\ \A b \in Block \ F : /\ hash_valid'[b] = hash_valid[b]
                                 /\ block_ids'[b] = block_ids[b]
    <3>1. F \in SUBSET Block /\ f \in F
      BY <2>2
    <3> HIDE DEF F
    <3> QED
      BY <2>3, <3>1, ClearBlocks
  <2>4. /\ table \in Seq(Block) /\ Len(table) \in Nat
        /\ table \o fresh \in Seq(Block) /\ Len(table \o fresh) = Len(table) + 1
        /\ \A i \in 1 .. Len(table) : (table \o fresh)[i] = table[i]
        /\ (table \o fresh)[Len(table) + 1] = f
    <3>1. table \in Seq(Block) /\ Len(table) \in Nat
      BY TypeFacts
    <3> HIDE DEF table
    <3>2. /\ table \o fresh \in Seq(Block)
          /\ Len(table \o fresh) = Len(table) + Len(fresh)
          /\ \A i \in 1 .. Len(table) + Len(fresh) :
               (table \o fresh)[i] = IF i <= Len(table) THEN table[i] ELSE fresh[i - Len(table)]
      BY <2>2, <3>1, ConcatProperties
    <3> QED
      BY <2>2, <3>1, <3>2 DEF f
  <2>5. block_table' \in [Seqs -> Seq(Block)] /\ block_table'[s] = table \o fresh
        /\ \A r \in Seqs \ {s} : block_table'[r] = block_table[r]
    BY <2>1, <2>4 DEF TypeOK
  <2>6. /\ ref_count' \in [Block -> Nat]
        /\ ref_count'[f] = 1
        /\ \A b \in Block \ F : ref_count'[b] = ref_count[b]
    BY <2>1, <2>2 DEF TypeOK, f
  <2>7. \A r \in Seqs : hash_start(r)' = hash_start(r) /\ size(r)' = size(r)
          /\ \A i \in 1 .. hash_start(r) : block_tokens(r, i)' = block_tokens(r, i)
    BY <2>1 DEF hash_start, size, block_tokens
  <2>8. \A r \in Seqs : \A i \in 1 .. Len(block_table[r]) :
          block_table[r][i] \in Block \ F
    <3> SUFFICES ASSUME NEW r \in Seqs, NEW i \in 1 .. Len(block_table[r])
                 PROVE  block_table[r][i] \in Block /\ ref_count[block_table[r][i]] # 0
      BY <2>2
    <3> DEFINE b == block_table[r][i]
    <3>1. b \in Block /\ i \in DOMAIN block_table[r] /\ block_table \in [Seqs -> Seq(Block)]
      BY TypeFacts DEF TypeOK
    <3> HIDE DEF b
    <3>2. Cardinality(Slots(block_table, b)) \in Nat \ {0}
      BY <3>1, SlotCounts DEF b
    <3> QED
      BY <3>1, <3>2 DEF RefCountExact, b
  <2>9. TypeOK'
    <3>1. free_ids' \in SUBSET Block
      BY <2>1 DEF TypeOK
    <3> QED
      BY <2>1, <2>5, <2>6, <2>16, <3>1 DEF TypeOK
  <2>10. RefCountExact'
    <3> SUFFICES ASSUME NEW b \in Block
                 PROVE  ref_count'[b] = Cardinality(Slots(block_table', b))
      BY DEF RefCountExact
    <3>1. occurrences(table \o fresh, b) = occurrences(table, b) + IF b = f THEN 1 ELSE 0
      <4> DEFINE last == Len(table) + 1
      <4>1. positions(table \o fresh, b) =
              positions(table, b) \cup IF b = f THEN {last} ELSE {}
        <5>1. DOMAIN (table \o fresh) = 1 .. last /\ DOMAIN table = 1 .. Len(table)
          BY <2>4
        <5>2. \A i : i \in 1 .. last <=> i \in 1 .. Len(table) \/ i = last
          BY <2>4
        <5> QED
          BY <2>4, <5>1, <5>2 DEF positions
      <4>2. last \notin positions(table, b)
        BY <2>4 DEF positions
      <4>3. IsFiniteSet(positions(table, b)) /\ Cardinality(positions(table, b)) \in Nat
        BY <2>4, PositionsFinite DEF occurrences
      <4> HIDE DEF last
      <4>4. Cardinality(positions(table, b) \cup {last}) = Cardinality(positions(table, b)) + 1
        BY <4>2, <4>3, FS_AddElement
      <4>5. CASE b = f
        BY <4>1, <4>4, <4>5 DEF occurrences
      <4>6. CASE b # f
        <5>1. positions(table \o fresh, b) = positions(table, b)
          BY <4>1, <4>6
        <5> QED
          BY <4>3, <4>6, <5>1 DEF occurrences
      <4> QED
        BY <4>5, <4>6
    <3>2. /\ occurrences(table, b) \in Nat
          /\ Cardinality(Slots(block_table, b)) \in Nat
          /\ Cardinality(Slots(block_table', b)) =
               Cardinality(Slots(block_table, b)) - occurrences(table, b)
                 + occurrences(table \o fresh, b)
      <4>1. block_table' = [block_table EXCEPT ![s] = table \o fresh]
        BY <2>1
      <4>2. block_table \in [Seqs -> Seq(Block)]
        BY DEF TypeOK
      <4> HIDE DEF table
      <4> QED
        BY <2>4, <4>1, <4>2, ReplaceTable DEF table
    <3>3. ref_count[b] = Cardinality(Slots(block_table, b))
      BY DEF RefCountExact
    <3> HIDE DEF table
    <3> QED
      BY <2>2, <2>6, <3>1, <3>2, <3>3
  <2>11. FreeIdsExact'
    BY <2>1, <2>2, <2>6 DEF FreeIdsExact, f
  <2>12. IndexSound'
    BY <2>16
  <2>13. CachedBlocksOwn'
    <3> SUFFICES ASSUME NEW r \in Seqs, NEW i \in 1 .. hash_start(r)
                 PROVE  LET b == block_table'[r][i]
                        IN  hash_valid'[b] /\ block_ids'[b] = block_tokens(r, i)
      BY <2>7 DEF CachedBlocksOwn
    <3>1. i \in 1 .. Len(block_table[r])
      BY StartWithinTable, TypeFacts
    <3>2. block_table'[r][i] = block_table[r][i] /\ block_table[r][i] \in Block \ F
      BY <2>4, <2>5, <2>8, <3>1
    <3> QED
      BY <2>16, <3>2 DEF CachedBlocksOwn
  <2>14. TailPrivate'
    <3> SUFFICES ASSUME NEW r \in Seqs,
                        NEW i \in (hash_start(r) + 1 .. Len(block_table[r]))'
                 PROVE  LET b == block_table'[r][i]
                        IN  ref_count'[b] = 1 /\ ~ hash_valid'[b]
      BY DEF TailPrivate
    <3>1. CASE r = s /\ i = Len(table) + 1
      BY <2>4, <2>5, <2>6, <2>16, <3>1
    <3>2. CASE ~ (r = s /\ i = Len(table) + 1)
      <4>1. i \in hash_start(r) + 1 .. Len(block_table[r])
        <5>1. i \in hash_start(r) + 1 .. Len(block_table'[r])
          BY <2>7
        <5>2. hash_start(r) \in Nat
          BY TypeFacts
        <5>3. CASE r # s
          BY <2>5, <5>1, <5>3
        <5>4. CASE r = s
          BY <2>4, <2>5, <3>2, <5>1, <5>2, <5>4
        <5> QED
          BY <5>3, <5>4
      <4>2. i \in 1 .. Len(block_table[r])
        BY <4>1, TypeFacts
      <4>3. block_table'[r][i] = block_table[r][i] /\ block_table[r][i] \in Block \ F
        BY <2>4, <2>5, <2>8, <4>2
      <4> QED
        BY <2>6, <2>16, <4>1, <4>3 DEF TailPrivate
    <3> QED
      BY <3>1, <3>2
  <2>15. Covered'
    <3> SUFFICES ASSUME NEW r \in Seqs
                 PROVE  LET reach == num_cached_tokens[r] + num_scheduled_tokens[r]
                        IN  reach <= size(r) /\ reach <= Len(block_table'[r]) * BlockSize
      BY <2>1, <2>7 DEF Covered
    <3>1. Len(block_table[r]) <= Len(block_table'[r]) /\ Len(block_table'[r]) \in Nat
          /\ Len(block_table[r]) \in Nat
      <4>1. Len(block_table[r]) \in Nat
        BY TypeFacts
      <4>2. CASE r = s
        BY <2>4, <2>5, <4>2
      <4>3. CASE r # s
        BY <2>5, <4>1, <4>3
      <4> QED
        BY <4>1, <4>2, <4>3
    <3>2. Len(block_table[r]) * BlockSize <= Len(block_table'[r]) * BlockSize
          /\ Len(block_table[r]) * BlockSize \in Nat /\ Len(block_table'[r]) * BlockSize \in Nat
      BY <3>1, ProductMonotone, PoolAssumption
    <3> QED
      BY <3>2, TypeFacts DEF Covered
  <2> QED
    BY <2>9, <2>10, <2>11, <2>12, <2>13, <2>14, <2>15
<1> QED
  BY <1>1, <1>2

(* A table made of shared blocks followed by fresh ones, each fresh block     *)
(* once: how often it names a block.                                         *)
LEMMA ConcatOccurrences ==
  ASSUME NEW hits \in Seq(Block), NEW fresh \in Seq(Block), NEW b,
         \A i, j \in 1 .. Len(fresh) : i # j => fresh[i] # fresh[j],
         Range(hits) \cap Range(fresh) = {}
  PROVE  occurrences(hits \o fresh, b) =
           IF b \in Range(fresh) THEN 1 ELSE occurrences(hits, b)
<1> DEFINE m == Len(hits)
           n == Len(fresh)
           long == hits \o fresh
<1>1. m \in Nat /\ n \in Nat /\ DOMAIN hits = 1 .. m /\ DOMAIN fresh = 1 .. n
  OBVIOUS
<1>2. /\ long \in Seq(Block) /\ Len(long) = m + n
      /\ \A i \in 1 .. m + n : long[i] = IF i <= m THEN hits[i] ELSE fresh[i - m]
  BY ConcatProperties
<1>3. DOMAIN long = 1 .. m + n
  BY <1>2
<1> HIDE DEF m, n, long
<1>4. CASE b \notin Range(fresh)
  <2>1. \A i \in 1 .. m + n : i > m => long[i] # b
    <3> SUFFICES ASSUME NEW i \in 1 .. m + n, i > m PROVE long[i] # b
      OBVIOUS
    <3>1. i - m \in 1 .. n /\ long[i] = fresh[i - m]
      BY <1>1, <1>2
    <3> QED
      BY <1>1, <1>4, <3>1 DEF Range
  <2>2. \A i : i \in positions(long, b) <=> i \in positions(hits, b)
    BY <1>1, <1>2, <1>3, <2>1 DEF positions
  <2>3. positions(long, b) = positions(hits, b)
    BY <2>2
  <2> QED
    BY <1>4, <2>3 DEF occurrences, long
<1>5. CASE b \in Range(fresh)
  <2>1. PICK j \in 1 .. n : fresh[j] = b
    BY <1>1, <1>5 DEF Range
  <2>2. \A i \in 1 .. n : fresh[i] = b <=> i = j
    BY <2>1 DEF n
  <2>3. \A i \in 1 .. m : hits[i] # b
    BY <1>1, <1>5 DEF Range
  <2>4. m + j \in 1 .. m + n /\ long[m + j] = b
    BY <1>1, <1>2, <2>1
  <2>5. \A i \in 1 .. m + n : long[i] = b => i = m + j
    <3> SUFFICES ASSUME NEW i \in 1 .. m + n, long[i] = b PROVE i = m + j
      OBVIOUS
    <3>1. i > m
      BY <1>1, <1>2, <2>3
    <3>2. i - m \in 1 .. n /\ long[i] = fresh[i - m]
      BY <1>1, <1>2, <3>1
    <3>3. i - m = j
      BY <2>2, <3>2
    <3> QED
      BY <1>1, <3>3
  <2>6. positions(long, b) = {m + j}
    BY <1>3, <2>4, <2>5 DEF positions
  <2>7. Cardinality({m + j}) = 1
    BY FS_Singleton
  <2> QED
    BY <1>5, <2>6, <2>7 DEF occurrences, long
<1> QED
  BY <1>4, <1>5

(* What the prefix search finds: fewer blocks than the text has, every one    *)
(* published and holding the sequence's own tokens.                          *)
LEMMA CachedBlocks ==
  ASSUME TypeOK, NEW s \in Seqs, size(s) > 0
  PROVE  /\ num_blocks(s) \in Nat \ {0}
         /\ cached_blocks(s) \in 0 .. num_blocks(s) - 1
         /\ \A i \in 1 .. cached_blocks(s) :
              /\ hit_block(s, i) \in Block
              /\ hash_valid[hit_block(s, i)]
              /\ block_ids[hit_block(s, i)] = block_tokens(s, i)
         /\ hits_of(s) \in Seq(Block) /\ Len(hits_of(s)) = cached_blocks(s)
<1>1. num_blocks(s) \in Nat \ {0}
  BY SizeFacts
<1> DEFINE T == {c \in 0 .. num_blocks(s) - 1 : \A i \in 1 .. c : is_hit(s, i)}
           n == num_blocks(s) - 1
<1>2. n \in Nat /\ T \in SUBSET (0 .. n)
  BY <1>1
<1>3. 0 \in T
  BY <1>1
<1>4. Max(T) \in T
  <2>1. T # {}
    BY <1>3
  <2> HIDE DEF T, n
  <2> QED
    BY <1>2, <2>1, MaxOfBounded
<1>5. cached_blocks(s) = Max(T)
  BY DEF cached_blocks
<1>6. cached_blocks(s) \in 0 .. n /\ \A i \in 1 .. cached_blocks(s) : is_hit(s, i)
  BY <1>4, <1>5
<1>7. \A i \in 1 .. cached_blocks(s) :
        /\ hit_block(s, i) \in Block
        /\ hash_valid[hit_block(s, i)]
        /\ block_ids[hit_block(s, i)] = block_tokens(s, i)
  <2> SUFFICES ASSUME NEW i \in 1 .. cached_blocks(s)
               PROVE  /\ hit_block(s, i) \in Block
                      /\ hash_valid[hit_block(s, i)]
                      /\ block_ids[hit_block(s, i)] = block_tokens(s, i)
    OBVIOUS
  <2>1. is_hit(s, i)
    BY <1>6
  <2>2. hit_block(s, i) \in Block
    BY <2>1 DEF is_hit, hit_block, TypeOK
  <2> QED
    BY <2>1, <2>2 DEF is_hit
<1>8. hits_of(s) \in [1 .. cached_blocks(s) -> Block]
  BY <1>7 DEF hits_of
<1>9. cached_blocks(s) \in Nat
  BY <1>2, <1>6
<1> QED
  BY <1>1, <1>6, <1>7, <1>8, <1>9, FunctionSeq

(* The tables allocate_block can pop: free, pairwise different blocks. *)
LEMMA LowestTables ==
  ASSUME NEW n \in Nat, NEW F \in SUBSET Block, NEW q \in lowest(F, n)
  PROVE  /\ q \in Seq(Block) /\ Len(q) = n
         /\ Range(q) \subseteq F
         /\ \A i, j \in 1 .. Len(q) : i # j => q[i] # q[j]
<1>1. q \in [1 .. n -> F] /\ \A i, j \in 1 .. n : i < j => q[i] < q[j]
  BY DEF lowest
<1>2. q \in [1 .. n -> Block]
  BY <1>1
<1>3. q \in Seq(Block) /\ Len(q) = n
  BY <1>2, FunctionSeq
<1>4. Range(q) \subseteq F
  BY <1>1 DEF Range
<1>5. \A i \in 1 .. n : q[i] \in Int
  BY <1>2 DEF Block
<1>6. \A i, j \in 1 .. n : i # j => i < j \/ j < i
  OBVIOUS
<1> QED
  BY <1>1, <1>3, <1>4, <1>5, <1>6

(* A block named by a table is in use. *)
LEMMA NamedInUse ==
  ASSUME TypeOK, RefCountExact, NEW s \in Seqs, NEW i \in 1 .. Len(block_table[s])
  PROVE  /\ block_table[s][i] \in Block
         /\ ref_count[block_table[s][i]] \in Nat \ {0}
<1> DEFINE b == block_table[s][i]
<1>1. b \in Block /\ i \in DOMAIN block_table[s] /\ block_table \in [Seqs -> Seq(Block)]
  BY TypeFacts DEF TypeOK
<1> HIDE DEF b
<1>2. Cardinality(Slots(block_table, b)) \in Nat \ {0}
  BY <1>1, SlotCounts DEF b
<1> QED
  BY <1>1, <1>2 DEF RefCountExact, b

LEMMA AllocateInv ==
  ASSUME IndInv, NEW s \in Seqs, Allocate(s)
  PROVE  IndInv'
<1> USE DEF IndInv
<1> DEFINE c == cached_blocks(s)
           n == num_blocks(s) - c
           hits == hits_of(s)
<1>1. size(s) \in Nat \ {0}
  <2>1. token_ids[s] \in Seq(Token) /\ token_ids[s] # <<>>
    BY TypeFacts DEF Allocate
  <2> QED
    BY <2>1, EmptySeq DEF size
<1>2. /\ num_blocks(s) \in Nat \ {0}
      /\ c \in 0 .. num_blocks(s) - 1 /\ c \in Nat /\ n \in Nat \ {0}
      /\ hits \in Seq(Block) /\ Len(hits) = c
      /\ \A i \in 1 .. c : /\ hit_block(s, i) \in Block
                           /\ hash_valid[hit_block(s, i)]
                           /\ block_ids[hit_block(s, i)] = block_tokens(s, i)
                           /\ hits[i] = hit_block(s, i)
  BY <1>1, CachedBlocks DEF hits_of
<1>3. PICK fresh \in fresh_tables(s) :
        /\ clear_blocks(Range(fresh))
        /\ ref_count' = [b \in Block |-> count_after(hits, fresh, b)]
        /\ free_ids' = free_without_hits(s) \ Range(fresh)
        /\ block_table' = [block_table EXCEPT ![s] = hits \o fresh]
        /\ num_cached_tokens' = [num_cached_tokens EXCEPT ![s] = cached_tokens(s)]
        /\ UNCHANGED <<token_ids, num_scheduled_tokens>>
  BY DEF Allocate, allocate
<1> DEFINE F == Range(fresh)
<1> HIDE DEF c, n, hits
<1>4. /\ fresh \in Seq(Block) /\ Len(fresh) = n
      /\ F \subseteq free_without_hits(s)
      /\ \A i, j \in 1 .. Len(fresh) : i # j => fresh[i] # fresh[j]
  <2>1. free_without_hits(s) \in SUBSET Block /\ fresh \in lowest(free_without_hits(s), n)
    BY DEF TypeOK, free_without_hits, fresh_tables, n, c
  <2> QED
    BY <1>2, <2>1, LowestTables
<1>5. /\ F \subseteq free_ids /\ F \subseteq Block
      /\ Range(hits) \cap F = {} /\ Range(hits) \subseteq Block
      /\ \A b \in F : ref_count[b] = 0
  <2>1. F \subseteq free_ids /\ Range(hits) \cap F = {}
    BY <1>4 DEF free_without_hits, hits
  <2>2. Range(hits) \subseteq Block
    BY <1>2, RangeOfSeq
  <2> QED
    BY <2>1, <2>2 DEF TypeOK, FreeIdsExact
<1>6. \A b \in Range(hits) : hash_valid[b]
  <2>1. DOMAIN hits = 1 .. c
    BY <1>2
  <2> QED
    BY <1>2, <2>1 DEF Range
<1>7. /\ hash_valid' \in [Block -> BOOLEAN]
      /\ hash' = [b \in Block |-> hash'[b]]
      /\ block_ids' \in [Block -> Seq(Token)]
      /\ hash_to_block' \in [DOMAIN hash_to_block' -> Block]
      /\ IndexSound'
      /\ \A b \in F : ~ hash_valid'[b]
      /\ \A b \in Block \ F : hash_valid'[b] = hash_valid[b] /\ block_ids'[b] = block_ids[b]
  <2>1. F \in SUBSET Block /\ clear_blocks(F)
    BY <1>3, <1>5
  <2> HIDE DEF F
  <2> QED
    BY <2>1, ClearBlocks
<1>8. /\ block_table \in [Seqs -> Seq(Block)] /\ block_table[s] = <<>>
      /\ \A b : occurrences(<<>>, b) = 0
  <2>1. \A b : positions(<<>>, b) = {}
    BY DEF positions
  <2> QED
    BY <2>1, FS_EmptySet DEF Allocate, TypeOK, occurrences
<1> DEFINE table == hits \o fresh
<1>9. /\ table \in Seq(Block) /\ Len(table) = num_blocks(s)
      /\ \A i \in 1 .. c : table[i] = hits[i]
      /\ \A i \in c + 1 .. num_blocks(s) : table[i] \in F
  <2>1. /\ table \in Seq(Block) /\ Len(table) = c + n
        /\ \A i \in 1 .. c + n : table[i] = IF i <= c THEN hits[i] ELSE fresh[i - c]
    <3>1. /\ table \in Seq(Block) /\ Len(table) = Len(hits) + Len(fresh)
          /\ \A i \in 1 .. Len(hits) + Len(fresh) :
               table[i] = IF i <= Len(hits) THEN hits[i] ELSE fresh[i - Len(hits)]
      <4>1. hits \in Seq(Block) /\ fresh \in Seq(Block)
        BY <1>2, <1>4
      <4> QED
        BY <4>1, ConcatProperties
    <3>2. Len(hits) = c /\ Len(fresh) = n
      BY <1>2, <1>4
    <3> HIDE DEF table
    <3> QED
      BY <3>1, <3>2
  <2>2. c + n = num_blocks(s) /\ c \in Nat /\ n \in Nat
    BY <1>2 DEF n
  <2>3. ASSUME NEW i \in c + 1 .. num_blocks(s) PROVE table[i] \in F
    <3>1. i - c \in 1 .. n /\ table[i] = fresh[i - c]
      BY <2>1, <2>2
    <3>2. i - c \in DOMAIN fresh
      BY <1>4, <3>1
    <3> QED
      BY <3>1, <3>2 DEF Range
  <2> QED
    BY <2>1, <2>2, <2>3
<1> HIDE DEF table
<1>10. \A b \in Block :
         /\ ref_count[b] \in Nat /\ occurrences(hits, b) \in Nat
         /\ occurrences(hits, b) > 0 <=> b \in Range(hits)
         /\ ref_count'[b] = IF b \in F THEN 1 ELSE ref_count[b] + occurrences(hits, b)
         /\ ref_count'[b] \in Nat
         /\ occurrences(table, b) = IF b \in F THEN 1 ELSE occurrences(hits, b)
  <2> SUFFICES ASSUME NEW b \in Block
        PROVE /\ ref_count[b] \in Nat /\ occurrences(hits, b) \in Nat
              /\ occurrences(hits, b) > 0 <=> b \in Range(hits)
              /\ ref_count'[b] = IF b \in F THEN 1 ELSE ref_count[b] + occurrences(hits, b)
              /\ ref_count'[b] \in Nat
              /\ occurrences(table, b) = IF b \in F THEN 1 ELSE occurrences(hits, b)
    OBVIOUS
  <2>1. ref_count[b] \in Nat
    BY DEF TypeOK
  <2>2. occurrences(hits, b) \in Nat /\ (occurrences(hits, b) > 0 <=> b \in Range(hits))
    BY <1>2, PositionsFinite
  <2>3. ref_count'[b] = IF b \in F THEN 1 ELSE ref_count[b] + occurrences(hits, b)
    BY <1>3 DEF count_after
  <2>4. occurrences(table, b) = IF b \in F THEN 1 ELSE occurrences(hits, b)
    BY <1>2, <1>4, <1>5, ConcatOccurrences DEF table
  <2> QED
    BY <2>1, <2>2, <2>3, <2>4
<1> HIDE DEF F
<1>11. /\ block_table' \in [Seqs -> Seq(Block)] /\ block_table'[s] = table
       /\ \A r \in Seqs \ {s} : block_table'[r] = block_table[r]
  BY <1>3, <1>8, <1>9 DEF table
<1>12. /\ num_cached_tokens'[s] = c * BlockSize /\ c * BlockSize \in Nat
       /\ num_cached_tokens' \in [Seqs -> Nat]
       /\ \A r \in Seqs \ {s} : num_cached_tokens'[r] = num_cached_tokens[r]
  <2>1. c * BlockSize \in Nat
    BY <1>2, PoolAssumption
  <2>2. num_cached_tokens' = [num_cached_tokens EXCEPT ![s] = c * BlockSize]
    BY <1>3 DEF cached_tokens, c
  <2> QED
    BY <2>1, <2>2 DEF TypeOK
<1>13. \A r \in Seqs : /\ size(r)' = size(r)
                       /\ num_scheduled_tokens'[r] = num_scheduled_tokens[r]
                       /\ \A i : block_tokens(r, i)' = block_tokens(r, i)
  BY <1>3 DEF size, block_tokens
<1>14. hash_start(s)' = c /\ \A r \in Seqs \ {s} : hash_start(r)' = hash_start(r)
  <2>1. (c * BlockSize) \div BlockSize = c
    BY <1>2, DivOfMultiple, PoolAssumption
  <2> QED
    BY <1>12, <2>1 DEF hash_start
<1>15. TypeOK'
  <2>1. free_ids' \in SUBSET Block
    BY <1>3 DEF TypeOK, free_without_hits
  <2>2. ref_count' \in [Block -> Nat]
    BY <1>3, <1>10
  <2> QED
    BY <1>3, <1>7, <1>11, <1>12, <2>1, <2>2 DEF TypeOK
<1>16. RefCountExact'
  <2> SUFFICES ASSUME NEW b \in Block
               PROVE  ref_count'[b] = Cardinality(Slots(block_table', b))
    BY DEF RefCountExact
  <2>1. /\ Cardinality(Slots(block_table, b)) \in Nat
        /\ Cardinality(Slots([block_table EXCEPT ![s] = table], b)) =
             Cardinality(Slots(block_table, b)) - occurrences(block_table[s], b)
               + occurrences(table, b)
    BY <1>8, <1>9, ReplaceTable
  <2>2. ref_count[b] = Cardinality(Slots(block_table, b))
    BY DEF RefCountExact
  <2>3. block_table' = [block_table EXCEPT ![s] = table]
    BY <1>3 DEF table
  <2> QED
    BY <1>5, <1>8, <1>10, <2>1, <2>2, <2>3
<1>17. FreeIdsExact'
  <2> SUFFICES ASSUME NEW b \in Block PROVE b \in free_ids' <=> ref_count'[b] = 0
    BY DEF FreeIdsExact
  <2>1. b \in free_ids' <=> b \in free_ids /\ b \notin Range(hits) /\ b \notin F
    BY <1>3 DEF free_without_hits, hits, F
  <2>2. b \in free_ids <=> ref_count[b] = 0
    BY DEF FreeIdsExact
  <2> QED
    BY <1>10, <2>1, <2>2
<1>18. CachedBlocksOwn'
  <2> SUFFICES ASSUME NEW r \in Seqs, NEW i \in 1 .. hash_start(r)'
               PROVE  LET b == block_table'[r][i]
                      IN  hash_valid'[b] /\ block_ids'[b] = block_tokens(r, i)
    BY <1>13 DEF CachedBlocksOwn
  <2>1. CASE r = s
    <3>1. i \in 1 .. c /\ block_table'[s][i] = hit_block(s, i)
      BY <1>2, <1>9, <1>11, <1>14, <2>1
    <3>2. hit_block(s, i) \in Range(hits)
      BY <1>2, <3>1 DEF Range
    <3> QED
      BY <1>2, <1>5, <1>7, <2>1, <3>1, <3>2
  <2>2. CASE r # s
    <3>1. i \in 1 .. hash_start(r) /\ block_table'[r] = block_table[r]
      BY <1>11, <1>14, <2>2
    <3>2. i \in 1 .. Len(block_table[r])
      BY <3>1, StartWithinTable, TypeFacts
    <3>3. block_table[r][i] \in Block \ F
      BY <1>5, <3>2, NamedInUse
    <3> QED
      BY <1>7, <3>1, <3>3 DEF CachedBlocksOwn
  <2> QED
    BY <2>1, <2>2
<1>19. TailPrivate'
  <2> SUFFICES ASSUME NEW r \in Seqs, NEW i \in hash_start(r)' + 1 .. Len(block_table'[r])
               PROVE  LET b == block_table'[r][i] IN ref_count'[b] = 1 /\ ~ hash_valid'[b]
    BY DEF TailPrivate
  <2>1. CASE r = s
    <3>1. i \in c + 1 .. num_blocks(s)
      BY <1>9, <1>11, <1>14, <2>1
    <3>2. block_table'[r][i] \in F
      BY <1>9, <1>11, <2>1, <3>1
    <3> QED
      BY <1>5, <1>7, <1>10, <3>2
  <2>2. CASE r # s
    <3>1. i \in hash_start(r) + 1 .. Len(block_table[r]) /\ block_table'[r] = block_table[r]
      BY <1>11, <1>14, <2>2
    <3>2. i \in 1 .. Len(block_table[r])
      BY <3>1, TypeFacts
    <3> DEFINE b == block_table[r][i]
    <3>3. b \in Block /\ b \notin F
      BY <1>5, <3>2, NamedInUse
    <3>4. ref_count[b] = 1 /\ ~ hash_valid[b]
      BY <3>1 DEF TailPrivate
    <3>5. b \notin Range(hits)
      BY <1>6, <3>4
    <3> HIDE DEF b
    <3>6. ref_count'[b] = 1 /\ ~ hash_valid'[b]
      BY <1>7, <1>10, <3>3, <3>4, <3>5
    <3> QED
      BY <3>1, <3>6 DEF b
  <2> QED
    BY <2>1, <2>2
<1>20. Covered'
  <2> SUFFICES ASSUME NEW r \in Seqs
               PROVE  LET reach == num_cached_tokens'[r] + num_scheduled_tokens[r]
                      IN  reach <= size(r) /\ reach <= Len(block_table'[r]) * BlockSize
    BY <1>13 DEF Covered
  <2>1. CASE r # s
    BY <1>11, <1>12, <2>1 DEF Covered
  <2>2. CASE r = s
    <3>1. num_scheduled_tokens[s] = 0
      <4>1. Len(block_table[s]) * BlockSize = 0
        BY <1>8, PoolAssumption
      <4> QED
        BY <4>1, TypeFacts DEF Covered
    <3>2. (num_blocks(s) - 1) * BlockSize < size(s) /\ num_blocks(s) - 1 \in Nat
      BY <1>1, <1>2, SizeFacts
    <3>3. c * BlockSize <= (num_blocks(s) - 1) * BlockSize
          /\ (num_blocks(s) - 1) * BlockSize \in Nat
      <4> DEFINE k == num_blocks(s) - 1
      <4>1. c \in Nat /\ k \in Nat /\ c <= k /\ BlockSize \in Nat
        BY <1>2, <3>2, PoolAssumption
      <4> HIDE DEF k
      <4>2. c * BlockSize <= k * BlockSize /\ k * BlockSize \in Nat
        BY <4>1, ProductMonotone
      <4> QED
        BY <4>2 DEF k
    <3>4. c * BlockSize <= num_blocks(s) * BlockSize /\ num_blocks(s) * BlockSize \in Nat
      BY <1>2, ProductMonotone, PoolAssumption
    <3> QED
      BY <1>1, <1>9, <1>11, <1>12, <2>2, <3>1, <3>2, <3>3, <3>4
  <2> QED
    BY <2>1, <2>2
<1> QED
  BY <1>7, <1>15, <1>16, <1>17, <1>18, <1>19, <1>20

LEMMA WholeBlockTokens ==
  ASSUME TypeOK, NEW s \in Seqs, NEW i \in Nat \ {0}, i * BlockSize <= size(s)
  PROVE  /\ block_tokens(s, i) \in Seq(Token)
         /\ Len(block_tokens(s, i)) = BlockSize
<1> DEFINE seq == token_ids[s]
           m == (i - 1) * BlockSize + 1
           n == i * BlockSize
<1>1. seq \in Seq(Token) /\ Len(seq) \in Nat /\ n <= Len(seq)
      /\ \A k \in 1 .. Len(seq) : seq[k] \in Token
  BY TypeFacts DEF size
<1>2. /\ (i - 1) * BlockSize \in Nat /\ i * BlockSize \in Nat
      /\ i * BlockSize = (i - 1) * BlockSize + BlockSize /\ BlockSize \in Nat \ {0}
  BY PoolAssumption
<1>3. m \in Nat \ {0} /\ n \in Nat /\ n = m + BlockSize - 1 /\ m <= n
  BY <1>2
<1>4. block_tokens(s, i) = SubSeq(seq, m, n)
  BY DEF block_tokens
<1> HIDE DEF seq, m, n
<1>5. \A k \in m .. n : seq[k] \in Token
  BY <1>1, <1>3
<1>6. SubSeq(seq, m, n) \in Seq(Token) /\ Len(SubSeq(seq, m, n)) = n - m + 1
  BY <1>3, <1>5, SubSeqProperties
<1> QED
  BY <1>2, <1>3, <1>4, <1>6

(* The blocks Commit completes come after the computed ones and lie within    *)
(* the table and the text.                                                   *)
LEMMA EndFacts ==
  ASSUME TypeOK, Covered, NEW s \in Seqs
  PROVE  /\ hash_start(s) \in Nat /\ hash_end(s) \in Nat
         /\ hash_start(s) <= hash_end(s)
         /\ hash_end(s) <= Len(block_table[s])
         /\ \A i \in 1 .. hash_end(s) : i * BlockSize <= size(s)
<1> DEFINE reach == num_cached_tokens[s] + num_scheduled_tokens[s]
<1>1. /\ num_cached_tokens[s] \in Nat /\ reach \in Nat /\ num_cached_tokens[s] <= reach
      /\ hash_start(s) \in Nat /\ hash_end(s) \in Nat
      /\ Len(block_table[s]) \in Nat /\ size(s) \in Nat
  BY TypeFacts
<1>2. reach <= size(s) /\ reach <= Len(block_table[s]) * BlockSize
  BY DEF Covered
<1>3. hash_end(s) = reach \div BlockSize
  BY DEF hash_end
<1> HIDE DEF reach
<1>4. hash_start(s) <= hash_end(s)
  BY <1>1, <1>3, DivMonotone, PoolAssumption DEF hash_start
<1>5. hash_end(s) <= Len(block_table[s])
  BY <1>1, <1>2, <1>3, DivAtMost, PoolAssumption
<1>6. hash_end(s) * BlockSize <= reach /\ hash_end(s) * BlockSize \in Nat
  BY <1>1, <1>3, DivBounds, PoolAssumption
<1>7. ASSUME NEW i \in 1 .. hash_end(s) PROVE i * BlockSize <= size(s)
  <2>1. i \in Nat /\ i <= hash_end(s) /\ BlockSize \in Nat
    BY <1>1, PoolAssumption
  <2>2. i * BlockSize \in Nat /\ i * BlockSize <= hash_end(s) * BlockSize
    BY <1>1, <2>1, ProductMonotone
  <2> QED
    BY <1>1, <1>2, <1>6, <2>2
<1> QED
  BY <1>1, <1>4, <1>5, <1>7

(* An unpublished block of a tail stands at one place of one table. *)
LEMMA TailNamedOnce ==
  ASSUME IndInv, NEW s \in Seqs, NEW i \in hash_start(s) + 1 .. Len(block_table[s]),
         NEW r \in Seqs, NEW j \in 1 .. Len(block_table[r]),
         block_table[r][j] = block_table[s][i]
  PROVE  r = s /\ j = i
<1> USE DEF IndInv
<1> DEFINE b == block_table[s][i]
<1>1. i \in 1 .. Len(block_table[s])
  BY TypeFacts
<1>2. i \in DOMAIN block_table[s] /\ j \in DOMAIN block_table[r] /\ b \in Block
      /\ block_table \in [Seqs -> Seq(Block)]
  BY <1>1, TypeFacts DEF TypeOK
<1>3. ref_count[b] = 1
  BY DEF TailPrivate
<1>4. Cardinality(Slots(block_table, b)) = 1
  BY <1>2, <1>3 DEF RefCountExact
<1>5. block_table[s][i] = b /\ block_table[r][j] = b
  OBVIOUS
<1> HIDE DEF b
<1> QED
  BY <1>2, <1>4, <1>5, SlotCounts

LEMMA CommitInv ==
  ASSUME IndInv, NEW s \in Seqs, Commit(s)
  PROVE  IndInv'
<1> USE DEF IndInv
<1> DEFINE from == hash_start(s)
           to == hash_end(s)
           filled == from + 1 .. to
           table == block_table[s]
           chain == prefix_hash(s, from, hash_seed(s))
           published == {table[i] : i \in filled}
           last_at(b) == Max({i \in filled : table[i] = b})
           last_with(h) == Max({i \in filled : chain[i] = h})
           new_keys == {chain[i] : i \in filled}
<1>1. /\ hash' = [b \in Block |-> IF b \in published THEN chain[last_at(b)] ELSE hash[b]]
      /\ hash_valid' = [b \in Block |-> hash_valid[b] \/ b \in published]
      /\ block_ids' = [b \in Block |-> IF b \in published
                                       THEN block_tokens(s, last_at(b)) ELSE block_ids[b]]
      /\ hash_to_block' = [h \in DOMAIN hash_to_block \cup new_keys |->
                             IF h \in new_keys THEN table[last_with(h)]
                             ELSE hash_to_block[h]]
  BY DEF Commit, hash_blocks
<1>2. /\ UNCHANGED <<token_ids, block_table, ref_count, free_ids>>
      /\ num_cached_tokens' =
           [num_cached_tokens EXCEPT ![s] = @ + num_scheduled_tokens[s]]
      /\ num_scheduled_tokens' = [num_scheduled_tokens EXCEPT ![s] = 0]
  BY DEF Commit, hash_blocks
<1>3. /\ from \in Nat /\ to \in Nat /\ from <= to /\ to <= Len(table)
      /\ \A i \in 1 .. to : i * BlockSize <= size(s)
  BY EndFacts
<1> HIDE DEF from, to, table, chain
<1>4. filled \in SUBSET (0 .. to) /\ filled \subseteq 1 .. to
  BY <1>3
<1>5. \A i \in filled : /\ i \in hash_start(s) + 1 .. Len(block_table[s])
                        /\ i \in 1 .. Len(block_table[s])
                        /\ table[i] \in Block /\ ref_count[table[i]] = 1
                        /\ ~ hash_valid[table[i]]
  <2> SUFFICES ASSUME NEW i \in filled
               PROVE  /\ i \in hash_start(s) + 1 .. Len(block_table[s])
                      /\ i \in 1 .. Len(block_table[s])
                      /\ table[i] \in Block /\ ref_count[table[i]] = 1
                      /\ ~ hash_valid[table[i]]
    OBVIOUS
  <2>1. i \in hash_start(s) + 1 .. Len(block_table[s])
        /\ i \in 1 .. Len(block_table[s])
    BY <1>3, TypeFacts DEF from, table
  <2> QED
    BY <2>1, TypeFacts DEF TailPrivate, table
<1>6. ASSUME NEW i \in filled
      PROVE  last_at(table[i]) = i
  <2> DEFINE S == {j \in filled : table[j] = table[i]}
  <2>1. \A j \in filled : table[j] = table[i] => j = i
    BY <1>5, TailNamedOnce DEF table
  <2>2. S \in SUBSET (0 .. to) /\ S # {} /\ \A j \in S : j = i
    BY <1>4, <2>1
  <2>3. last_at(table[i]) = Max(S)
    OBVIOUS
  <2> HIDE DEF S
  <2>4. Max(S) \in S
    BY <1>3, <2>2, MaxOfBounded
  <2> QED
    BY <2>2, <2>3, <2>4
<1>7. ASSUME NEW h \in new_keys
      PROVE  last_with(h) \in filled /\ chain[last_with(h)] = h
  <2> DEFINE S == {j \in filled : chain[j] = h}
  <2>1. S \in SUBSET (0 .. to) /\ S # {}
    BY <1>4
  <2>2. last_with(h) = Max(S)
    OBVIOUS
  <2>3. \A j \in S : j \in filled /\ chain[j] = h
    OBVIOUS
  <2> HIDE DEF S
  <2>4. Max(S) \in S
    BY <1>3, <2>1, MaxOfBounded
  <2> QED
    BY <2>2, <2>3, <2>4
<1> HIDE DEF last_at, last_with
<1>8. ASSUME NEW i \in filled
      PROVE  /\ hash'[table[i]] = chain[i]
             /\ hash_valid'[table[i]]
             /\ block_ids'[table[i]] = block_tokens(s, i)
  BY <1>1, <1>5, <1>6
<1>9. ASSUME NEW b \in Block \ published
      PROVE  hash'[b] = hash[b] /\ hash_valid'[b] = hash_valid[b]
             /\ block_ids'[b] = block_ids[b]
  BY <1>1 DEF TypeOK
<1>10. \A b \in published : b \in Block /\ ~ hash_valid[b]
  BY <1>5
<1> HIDE DEF filled
<1>11. TypeOK'
  <2>1. hash_valid' \in [Block -> BOOLEAN] /\ hash' = [b \in Block |-> hash'[b]]
    BY <1>1 DEF TypeOK
  <2>2. block_ids' \in [Block -> Seq(Token)]
    <3> SUFFICES ASSUME NEW b \in Block PROVE block_ids'[b] \in Seq(Token)
      BY <1>1
    <3>1. CASE b \in published
      <4>1. PICK i \in filled : b = table[i]
        BY <3>1
      <4>2. i \in Nat \ {0} /\ i * BlockSize <= size(s)
        BY <1>3, <1>4
      <4> QED
        BY <1>8, <4>1, <4>2, WholeBlockTokens
    <3>2. CASE b \notin published
      BY <1>9, <3>2 DEF TypeOK
    <3> QED
      BY <3>1, <3>2
  <2>3. hash_to_block' \in [DOMAIN hash_to_block' -> Block]
    <3>1. \A h \in new_keys : table[last_with(h)] \in Block
      BY <1>5, <1>7
    <3>2. \A h \in DOMAIN hash_to_block : hash_to_block[h] \in Block
      BY DEF TypeOK
    <3> HIDE DEF new_keys
    <3> QED
      BY <1>1, <3>1, <3>2
  <2>4. num_cached_tokens' \in [Seqs -> Nat] /\ num_scheduled_tokens' \in [Seqs -> Nat]
    BY <1>2, TypeFacts DEF TypeOK
  <2> QED
    BY <1>2, <2>1, <2>2, <2>3, <2>4 DEF TypeOK
<1>12. RefCountExact' /\ FreeIdsExact'
  BY <1>2 DEF RefCountExact, FreeIdsExact
<1>13. IndexSound'
  <2> SUFFICES ASSUME NEW h \in DOMAIN hash_to_block'
               PROVE  hash_valid'[hash_to_block'[h]] /\ hash'[hash_to_block'[h]] = h
    BY DEF IndexSound
  <2>1. CASE h \in new_keys
    <3>1. hash_to_block'[h] = table[last_with(h)]
      BY <1>1, <2>1
    <3> QED
      BY <1>7, <1>8, <2>1, <3>1
  <2>2. CASE h \notin new_keys
    <3>1. h \in DOMAIN hash_to_block /\ hash_to_block'[h] = hash_to_block[h]
      BY <1>1, <2>2
    <3>2. hash_valid[hash_to_block[h]] /\ hash[hash_to_block[h]] = h
          /\ hash_to_block[h] \in Block
      BY <3>1 DEF IndexSound, TypeOK
    <3> QED
      BY <1>9, <1>10, <3>1, <3>2
  <2> QED
    BY <2>1, <2>2
<1>14. hash_start(s)' = to /\ \A r \in Seqs \ {s} : hash_start(r)' = hash_start(r)
  BY <1>2 DEF hash_start, hash_end, to, TypeOK
<1>15. \A r \in Seqs : size(r)' = size(r) /\ \A i : block_tokens(r, i)' = block_tokens(r, i)
  BY <1>2 DEF size, block_tokens
<1> HIDE DEF published
<1>16. CachedBlocksOwn'
  <2> SUFFICES ASSUME NEW r \in Seqs, NEW i \in 1 .. hash_start(r)'
               PROVE  LET b == block_table[r][i]
                      IN  hash_valid'[b] /\ block_ids'[b] = block_tokens(r, i)
    BY <1>2, <1>15 DEF CachedBlocksOwn
  <2>1. CASE i \in 1 .. hash_start(r)
    <3> DEFINE b == block_table[r][i]
    <3>1. i \in 1 .. Len(block_table[r])
      BY <2>1, StartWithinTable, TypeFacts
    <3>2. b \in Block /\ hash_valid[b] /\ block_ids[b] = block_tokens(r, i)
      BY <2>1, <3>1, TypeFacts DEF CachedBlocksOwn
    <3> QED
      BY <1>9, <1>10, <3>2
  <2>2. CASE i \notin 1 .. hash_start(r)
    <3>1. r = s /\ i \in filled
      BY <1>3, <1>14, <2>2 DEF from, filled
    <3> QED
      BY <1>8, <3>1 DEF table
  <2> QED
    BY <2>1, <2>2
<1>17. TailPrivate'
  <2> SUFFICES ASSUME NEW r \in Seqs, NEW i \in hash_start(r)' + 1 .. Len(block_table[r])
               PROVE  LET b == block_table[r][i] IN ref_count[b] = 1 /\ ~ hash_valid'[b]
    BY <1>2 DEF TailPrivate
  <2>1. i \in hash_start(r) + 1 .. Len(block_table[r]) /\ i \in 1 .. Len(block_table[r])
    <3>1. hash_start(r) <= hash_start(r)' /\ hash_start(r) \in Nat /\ hash_start(r)' \in Nat
      BY <1>3, <1>14, TypeFacts DEF from
    <3> QED
      BY <3>1
  <2> DEFINE b == block_table[r][i]
  <2>2. b \in Block /\ ref_count[b] = 1 /\ ~ hash_valid[b]
    BY <2>1, TypeFacts DEF TailPrivate
  <2>3. b \notin published
    <3> SUFFICES ASSUME NEW j \in filled, b = table[j] PROVE FALSE
      BY DEF published
    <3>1. r = s /\ i = j
      BY <1>5, <2>1, TailNamedOnce DEF table
    <3> QED
      BY <1>3, <1>14, <3>1 DEF filled
  <2> QED
    BY <1>9, <2>2, <2>3
<1>18. Covered'
  <2> SUFFICES ASSUME NEW r \in Seqs
               PROVE  LET reach == num_cached_tokens'[r] + num_scheduled_tokens'[r]
                      IN  reach <= size(r) /\ reach <= Len(block_table[r]) * BlockSize
    BY <1>2, <1>15 DEF Covered
  <2>1. num_cached_tokens'[r] + num_scheduled_tokens'[r] =
          num_cached_tokens[r] + num_scheduled_tokens[r]
    BY <1>2, TypeFacts DEF TypeOK
  <2> QED
    BY <2>1 DEF Covered
<1> QED
  BY <1>11, <1>12, <1>13, <1>16, <1>17, <1>18

-----------------------------------------------------------------------------
(* The theorems *)

LEMMA NextInv == IndInv /\ [BlockManagerNext]_blockManagerVars => IndInv'
<1> SUFFICES ASSUME IndInv, [BlockManagerNext]_blockManagerVars PROVE IndInv'
  OBVIOUS
<1>1. ASSUME NEW s \in Seqs, NEW p \in Prompts, Create(s, p) PROVE IndInv'
  BY <1>1, CreateInv
<1>2. ASSUME NEW s \in Seqs, Allocate(s) PROVE IndInv'
  BY <1>2, AllocateInv
<1>3. ASSUME NEW s \in Seqs, NEW n \in 1 .. MaxLen, SetScheduled(s, n) PROVE IndInv'
  BY <1>3, SetScheduledInv
<1>4. ASSUME NEW s \in Seqs, Commit(s) PROVE IndInv'
  BY <1>4, CommitInv
<1>5. ASSUME NEW s \in Seqs, NEW t \in Token, AppendToken(s, t) PROVE IndInv'
  BY <1>5, AppendTokenInv
<1>6. ASSUME NEW s \in Seqs, MayAppend(s) PROVE IndInv'
  BY <1>6, MayAppendInv
<1>7. ASSUME NEW s \in Seqs, Deallocate(s) PROVE IndInv'
  BY <1>7, DeallocateInv
<1>8. CASE UNCHANGED blockManagerVars
  BY <1>8, StutterInv
<1> QED
  BY <1>1, <1>2, <1>3, <1>4, <1>5, <1>6, <1>7, <1>8 DEF BlockManagerNext

(* Every sequence of pool calls in the scheduler's protocol preserves the     *)
(* inductive invariant.                                                      *)
THEOREM Invariance == BlockManagerSpec => []IndInv
<1>1. BlockManagerInit => IndInv
  BY InitInv
<1>2. IndInv /\ [BlockManagerNext]_blockManagerVars => IndInv'
  BY NextInv
<1> QED
  BY <1>1, <1>2, PTL DEF BlockManagerSpec

(* The tables, counts and the index keep their shapes: in particular no count *)
(* drops below 0 in deallocate, and the index names blocks of the pool.      *)
THEOREM TypeCorrect == BlockManagerSpec => []TypeOK
<1>1. IndInv => TypeOK
  BY DEF IndInv
<1> QED
  BY <1>1, Invariance, PTL

(* ref_count is exactly the number of table entries, and free_ids_ exactly    *)
(* the blocks nobody names: no block is reclaimed under a reader, none leaks. *)
THEOREM AccountingExact == BlockManagerSpec => []AccountsExact
<1>1. IndInv => AccountsExact
  BY DEF IndInv, AccountsExact
<1> QED
  BY <1>1, Invariance, PTL

(* hash_to_block_ never keeps an entry of a block that has been recycled or   *)
(* published anew under another hash, even if hashes collide.                *)
THEOREM IndexStaysSound == BlockManagerSpec => []IndexSound
<1>1. IndInv => IndexSound
  BY DEF IndInv
<1> QED
  BY <1>1, Invariance, PTL

(* The blocks a sequence counts as computed hold its own tokens, whoever      *)
(* filled them.                                                              *)
THEOREM PrefixesOwn == BlockManagerSpec => []CachedBlocksOwn
<1>1. IndInv => CachedBlocksOwn
  BY DEF IndInv
<1> QED
  BY <1>1, Invariance, PTL

(* The blocks a sequence writes to are its own and cannot be found as a       *)
(* prefix by another one.                                                    *)
THEOREM TailsPrivate == BlockManagerSpec => []TailPrivate
<1>1. IndInv => TailPrivate
  BY DEF IndInv
<1> QED
  BY <1>1, Invariance, PTL

(* What counts as computed or scheduled lies within the text and the table.   *)
THEOREM ReachCovered == BlockManagerSpec => []Covered
<1>1. IndInv => Covered
  BY DEF IndInv
<1> QED
  BY <1>1, Invariance, PTL

LEMMA HashFacts == IndInv => HashNeverFails
<1> SUFFICES ASSUME IndInv, NEW s \in Seqs, hash_blocks_fails(s) PROVE FALSE
  BY DEF HashNeverFails
<1> USE DEF IndInv
<1>1. /\ hash_start(s) \in Nat /\ hash_end(s) \in Nat
      /\ hash_end(s) <= Len(block_table[s])
      /\ \A i \in 1 .. hash_end(s) : i * BlockSize <= size(s)
  BY EndFacts
<1>2. CASE hash_end(s) > Len(block_table[s])
  BY <1>1, <1>2, TypeFacts
<1>3. CASE hash_start(s) > 0 /\ ~ hash_valid[block_table[s][hash_start(s)]]
  <2>1. hash_start(s) \in 1 .. hash_start(s)
    BY <1>1, <1>3
  <2> QED
    BY <1>3, <2>1 DEF CachedBlocksOwn
<1>4. CASE \E i \in hash_start(s) + 1 .. hash_end(s) : Len(block_tokens(s, i)) # BlockSize
  <2>1. PICK i \in hash_start(s) + 1 .. hash_end(s) : Len(block_tokens(s, i)) # BlockSize
    BY <1>4
  <2>2. i \in Nat \ {0} /\ i * BlockSize <= size(s)
    BY <1>1
  <2> QED
    BY <2>1, <2>2, WholeBlockTokens
<1> QED
  BY <1>2, <1>3, <1>4 DEF hash_blocks_fails

(* hash_blocks returns none of its InternalErrors: postprocess cannot fail    *)
(* half way through a batch because of the pool.                             *)
THEOREM HashingNeverFails == BlockManagerSpec => []HashNeverFails
<1>1. IndInv => HashNeverFails
  BY HashFacts
<1> QED
  BY <1>1, Invariance, PTL

-----------------------------------------------------------------------------
(* allocate delivers what can_allocate promises *)

(* n blocks can be popped off a free list that has n. *)
LEMMA LowestExists ==
  ASSUME NEW F \in SUBSET Block, NEW n \in Nat, n <= Cardinality(F)
  PROVE  lowest(F, n) # {}
<1> DEFINE R == {k \in Nat : k <= Cardinality(F) /\ lowest(F, k) = {}}
<1> SUFFICES ASSUME R # {} PROVE FALSE
  OBVIOUS
<1>1. IsFiniteSet(F) /\ Cardinality(F) \in Nat
  <2>1. IsFiniteSet(Block)
    BY FS_Interval, PoolAssumption DEF Block
  <2> QED
    BY <2>1, FS_Subset, FS_CardinalityType
<1>2. PICK m \in R : \A k \in R : <<k, m>> \notin OpToRel(<, Nat)
  <2>1. R \in SUBSET Nat
    OBVIOUS
  <2> HIDE DEF R
  <2> QED
    BY <2>1, WFMin, NatLessThanWellFounded, Zenon
<1>3. m \in Nat /\ m <= Cardinality(F) /\ lowest(F, m) = {} /\ \A k \in R : ~ (k < m)
  BY <1>2 DEF OpToRel
<1>4. m # 0
  <2>1. [i \in 1 .. 0 |-> 0] \in lowest(F, 0)
    BY DEF lowest
  <2> QED
    BY <1>3, <2>1
<1>5. m - 1 \in Nat /\ m - 1 <= Cardinality(F) /\ m - 1 < m
  BY <1>1, <1>3, <1>4
<1>6. PICK q : q \in lowest(F, m - 1)
  BY <1>3, <1>5
<1>7. /\ q \in [1 .. m - 1 -> F]
      /\ \A i, j \in 1 .. m - 1 : i < j => q[i] < q[j]
      /\ \A i \in 1 .. m - 1 : \A b \in F : b < q[i] => \E j \in 1 .. m - 1 : q[j] = b
  BY <1>6 DEF lowest
<1> HIDE DEF R
<1> DEFINE D == {q[i] : i \in 1 .. m - 1}
<1>8. IsFiniteSet(D) /\ Cardinality(D) <= m - 1
  <2>1. IsFiniteSet(1 .. m - 1) /\ Cardinality(1 .. m - 1) = m - 1
    BY <1>5, FS_Interval
  <2>2. q \in Surjection(1 .. m - 1, D)
    BY <1>7 DEF Surjection
  <2> QED
    BY <2>1, <2>2, FS_Surjection
<1>9. F \ D # {}
  <2> SUFFICES ASSUME F \subseteq D PROVE FALSE
    BY Zenon
  <2> HIDE DEF D
  <2>1. Cardinality(F) <= Cardinality(D) /\ Cardinality(D) \in Nat
    BY <1>8, FS_Subset, FS_CardinalityType
  <2> QED
    BY <1>1, <1>3, <1>5, <1>8, <2>1
<1>10. PICK b \in F \ D : \A x \in F \ D : ~ (x < b)
  <2> HIDE DEF D
  <2>1. F \ D \in SUBSET Nat
    <3>1. \A x \in Block : x \in Nat
      BY PoolAssumption DEF Block
    <3> QED
      BY <3>1
  <2>2. PICK b \in F \ D : \A x \in F \ D : <<x, b>> \notin OpToRel(<, Nat)
    BY <1>9, <2>1, WFMin, NatLessThanWellFounded, Zenon
  <2> QED
    BY <2>1, <2>2 DEF OpToRel
<1>11. /\ b \in F /\ b \in Int /\ \A x \in F : x \in Int
       /\ \A i \in 1 .. m - 1 : q[i] \in F /\ q[i] # b
       /\ \A x \in F : x < b => \E j \in 1 .. m - 1 : q[j] = x
  BY <1>7, <1>10 DEF Block
<1> HIDE DEF D
<1> DEFINE r == [i \in 1 .. m |-> IF i < m THEN q[i] ELSE b]
<1>12. /\ r \in [1 .. m -> F] /\ r[m] = b
       /\ \A i \in 1 .. m - 1 : r[i] = q[i]
       /\ \A i \in 1 .. m : i = m \/ i \in 1 .. m - 1
  BY <1>3, <1>4, <1>11
<1> HIDE DEF r
<1>13. \A i, j \in 1 .. m : i < j => r[i] < r[j]
  <2> SUFFICES ASSUME NEW i \in 1 .. m, NEW j \in 1 .. m, i < j PROVE r[i] < r[j]
    OBVIOUS
  <2>1. i \in 1 .. m - 1
    BY <1>3, <1>12
  <2>2. CASE j \in 1 .. m - 1
    BY <1>7, <1>12, <2>1, <2>2
  <2>3. CASE j = m
    <3>1. ~ (b < q[i])
      BY <1>7, <1>11, <2>1
    <3>2. q[i] \in Int /\ q[i] # b
      BY <1>11, <2>1
    <3>3. r[i] = q[i] /\ r[j] = b
      BY <1>12, <2>1, <2>3
    <3> QED
      BY <1>11, <3>1, <3>2, <3>3
  <2> QED
    BY <1>12, <2>2, <2>3
<1>14. \A i \in 1 .. m : \A x \in F : x < r[i] => \E j \in 1 .. m : r[j] = x
  <2> SUFFICES ASSUME NEW i \in 1 .. m, NEW x \in F, x < r[i]
               PROVE  \E j \in 1 .. m - 1 : q[j] = x
    BY <1>3, <1>12
  <2> QED
    BY <1>7, <1>11, <1>12
<1>15. r \in lowest(F, m)
  BY <1>12, <1>13, <1>14 DEF lowest
<1> QED
  BY <1>3, <1>15

LEMMA AllocateFacts == IndInv => AllocateNeverFails
<1> SUFFICES ASSUME IndInv, NEW s \in Seqs, token_ids[s] # <<>>, can_allocate(s)
             PROVE  ~ allocate_fails(s) /\ fresh_tables(s) # {}
  BY DEF AllocateNeverFails
<1> USE DEF IndInv
<1> DEFINE c == cached_blocks(s)
           K == {i \in 1 .. c : ref_count[hit_block(s, i)] > 0}
           Z == (1 .. c) \ K
           H == Range(hits_of(s))
<1>1. size(s) > 0
  <2>1. token_ids[s] \in Seq(Token)
    BY TypeFacts
  <2> QED
    BY <2>1, EmptySeq DEF size
<1>2. /\ num_blocks(s) \in Nat /\ c \in Nat /\ c <= num_blocks(s) - 1
      /\ \A i \in 1 .. c : hit_block(s, i) \in Block
  BY <1>1, CachedBlocks
<1>3. IsFiniteSet(free_ids) /\ Cardinality(free_ids) \in Nat /\ free_ids \subseteq Block
  <2>1. IsFiniteSet(Block)
    BY FS_Interval, PoolAssumption DEF Block
  <2> QED
    BY <2>1, FS_Subset, FS_CardinalityType DEF TypeOK
<1>4. /\ IsFiniteSet(1 .. c) /\ Cardinality(1 .. c) = c
      /\ IsFiniteSet(K) /\ Cardinality(K) \in Nat
      /\ IsFiniteSet(Z) /\ Cardinality(Z) = c - Cardinality(K)
  <2>1. IsFiniteSet(1 .. c) /\ Cardinality(1 .. c) = c
    BY <1>2, FS_Interval
  <2>2. K \subseteq 1 .. c
    OBVIOUS
  <2> HIDE DEF K, c
  <2>3. IsFiniteSet(K) /\ Cardinality(K) \in Nat /\ (1 .. c) \cap K = K
    BY <2>1, <2>2, FS_Subset, FS_CardinalityType
  <2>4. IsFiniteSet(Z) /\ Cardinality(Z) = Cardinality(1 .. c) - Cardinality((1 .. c) \cap K)
    BY <2>1, FS_Difference
  <2> QED
    BY <2>1, <2>3, <2>4
<1>5. \A i \in 1 .. c : ref_count[hit_block(s, i)] = 0 => hit_block(s, i) \in free_ids
  BY <1>2 DEF FreeIdsExact
<1> DEFINE V == {hit_block(s, i) : i \in Z}
<1>6. free_ids \cap H \subseteq V
  <2> SUFFICES ASSUME NEW b \in free_ids, b \in H PROVE b \in V
    OBVIOUS
  <2>1. PICK i \in 1 .. c : b = hit_block(s, i)
    BY <1>2 DEF Range, hits_of
  <2>2. ~ (ref_count[b] > 0)
    BY <1>3 DEF FreeIdsExact
  <2> QED
    BY <2>1, <2>2
<1>7. IsFiniteSet(V) /\ Cardinality(V) <= Cardinality(Z)
  <2> DEFINE g == [i \in Z |-> hit_block(s, i)]
  <2>1. g \in Surjection(Z, V)
    BY DEF Surjection
  <2> HIDE DEF g, V, Z
  <2> QED
    BY <1>4, <2>1, FS_Surjection
<1> HIDE DEF V, Z, H, K
<1>8. IsFiniteSet(free_ids \cap H) /\ Cardinality(free_ids \cap H) \in Nat
      /\ Cardinality(free_ids \cap H) <= c - Cardinality(K)
  <2>1. /\ IsFiniteSet(free_ids \cap H) /\ Cardinality(free_ids \cap H) <= Cardinality(V)
        /\ Cardinality(free_ids \cap H) \in Nat /\ Cardinality(V) \in Nat
    BY <1>6, <1>7, FS_Subset, FS_CardinalityType
  <2> QED
    BY <1>2, <1>4, <1>7, <2>1
<1>9. Cardinality(free_ids \ H) = Cardinality(free_ids) - Cardinality(free_ids \cap H)
  BY <1>3, FS_Difference
<1>10. Cardinality(free_ids) >= num_blocks(s) - Cardinality(K)
  BY DEF can_allocate, new_blocks, K
<1>11. free_without_hits(s) = free_ids \ H
  BY DEF free_without_hits, H
<1>12. num_blocks(s) - c \in Nat /\ num_blocks(s) - c <= Cardinality(free_without_hits(s))
  BY <1>2, <1>3, <1>4, <1>8, <1>9, <1>10, <1>11
<1>13. ~ (Cardinality(free_without_hits(s)) < num_blocks(s) - c)
  BY <1>2, <1>3, <1>8, <1>9, <1>11, <1>12
<1>14. fresh_tables(s) # {}
  <2>1. free_without_hits(s) \in SUBSET Block
    BY <1>3, <1>11
  <2> QED
    BY <1>12, <2>1, LowestExists DEF fresh_tables
<1> QED
  BY <1>5, <1>13, <1>14 DEF allocate_fails

(* When can_allocate has said yes, allocate finds every block it needs, with  *)
(* cached blocks in use, cached blocks revived from the free list and new     *)
(* ones in any mixture.                                                      *)
THEOREM AllocationNeverFails == BlockManagerSpec => []AllocateNeverFails
<1>1. IndInv => AllocateNeverFails
  BY AllocateFacts
<1> QED
  BY <1>1, Invariance, PTL


-----------------------------------------------------------------------------
(* The chain of hashes *)

IsChain(f, a, n, seed, tokens) ==
  f = [i \in a .. n |-> IF i = a THEN seed ELSE Fnv(tokens[i], f[i - 1])]

(* A chain over blocks a + 1 .. n exists: the recursive definition of         *)
(* prefix_hash has a solution.                                               *)
LEMMA ChainExists ==
  ASSUME NEW a \in Nat, NEW n \in Nat, a <= n, NEW seed, NEW tokens
  PROVE  \E f : IsChain(f, a, n, seed, tokens)
<1> USE DEF IsChain
<1> DEFINE Is(f, k) == IsChain(f, a, k, seed, tokens)
           R == {k \in Nat : a <= k /\ ~ \E f : Is(f, k)}
<1> SUFFICES ASSUME R # {} PROVE FALSE
  OBVIOUS
<1>1. PICK m \in R : \A k \in R : <<k, m>> \notin OpToRel(<, Nat)
  <2>1. R \in SUBSET Nat
    OBVIOUS
  <2> HIDE DEF R
  <2> QED
    BY <2>1, WFMin, NatLessThanWellFounded, Zenon
<1>2. m \in Nat /\ a <= m /\ (\A f : ~ Is(f, m)) /\ \A k \in R : ~ (k < m)
  BY <1>1 DEF OpToRel
<1>3. m # a
  <2> DEFINE f == [i \in a .. a |-> seed]
  <2>1. Is(f, a)
    OBVIOUS
  <2> QED
    BY <1>2, <2>1
<1>4. m - 1 \in Nat /\ a <= m - 1 /\ m - 1 < m
  BY <1>2, <1>3
<1>5. PICK g : Is(g, m - 1)
  BY <1>2, <1>4
<1> DEFINE f == [i \in a .. m |-> IF i = m THEN Fnv(tokens[m], g[m - 1]) ELSE g[i]]
<1>6. \A i \in a .. m : f[i] = IF i = a THEN seed ELSE Fnv(tokens[i], f[i - 1])
  <2> SUFFICES ASSUME NEW i \in a .. m
               PROVE  f[i] = IF i = a THEN seed ELSE Fnv(tokens[i], f[i - 1])
    OBVIOUS
  <2>1. CASE i = m
    BY <1>2, <1>3, <1>4, <2>1
  <2>2. CASE i # m
    <3>1. i \in a .. m - 1 /\ f[i] = g[i]
      BY <1>2, <2>2
    <3>2. g[i] = IF i = a THEN seed ELSE Fnv(tokens[i], g[i - 1])
      BY <1>5, <3>1
    <3>3. i # a => i - 1 \in a .. m /\ i - 1 # m
      BY <1>2, <3>1
    <3> QED
      BY <3>1, <3>2, <3>3
  <2> QED
    BY <2>1, <2>2
<1>7. Is(f, m)
  <2>1. f = [i \in a .. m |-> f[i]]
    OBVIOUS
  <2> HIDE DEF f
  <2> QED
    BY <1>6, <2>1
<1> QED
  BY <1>2, <1>7

LEMMA PrefixHash ==
  ASSUME NEW s, NEW a \in Nat, num_blocks(s) \in Nat, a <= num_blocks(s), NEW seed
  PROVE  LET chain == prefix_hash(s, a, seed)
         IN  /\ chain[a] = seed
             /\ \A i \in a + 1 .. num_blocks(s) :
                  chain[i] = Fnv(block_tokens(s, i), chain[i - 1])
<1> DEFINE n == num_blocks(s)
           tokens == [i \in a .. n |-> block_tokens(s, i)]
           Is(f) == f = [i \in a .. n |-> IF i = a THEN seed ELSE Fnv(block_tokens(s, i), f[i - 1])]
<1>1. \E f : IsChain(f, a, n, seed, tokens)
  <2>1. n \in Nat /\ a <= n
    OBVIOUS
  <2> HIDE DEF n, tokens
  <2> QED
    BY <2>1, ChainExists
<1>2. \A i \in a .. n : tokens[i] = block_tokens(s, i)
  OBVIOUS
<1>3. \E f : Is(f)
  <2>1. PICK f : IsChain(f, a, n, seed, tokens)
    BY <1>1
  <2> HIDE DEF tokens, n
  <2>2. [i \in a .. n |-> IF i = a THEN seed ELSE Fnv(tokens[i], f[i - 1])]
          = [i \in a .. n |-> IF i = a THEN seed ELSE Fnv(block_tokens(s, i), f[i - 1])]
    BY <1>2
  <2> QED
    BY <2>1, <2>2 DEF IsChain
<1>4. prefix_hash(s, a, seed) = CHOOSE f : Is(f)
  BY DEF prefix_hash
<1> DEFINE chain == CHOOSE f : Is(f)
<1>5. Is(chain)
  BY <1>3
<1> HIDE DEF chain
<1>6. chain[a] = seed
  BY <1>5
<1>7. ASSUME NEW i \in a + 1 .. n PROVE chain[i] = Fnv(block_tokens(s, i), chain[i - 1])
  <2>1. i \in a .. n /\ i # a
    OBVIOUS
  <2> QED
    BY <1>5, <2>1
<1> QED
  BY <1>4, <1>6, <1>7 DEF chain

(* The hits of the prefix search carry the hashes of the text's blocks. *)
LEMMA HitHashes ==
  ASSUME TypeOK, IndexSound, NEW s \in Seqs, size(s) > 0
  PROVE  LET chain == prefix_hash(s, 0, ZeroHash)
         IN  /\ chain[0] = ZeroHash
             /\ \A i \in 1 .. cached_blocks(s) :
                  /\ hash[hit_block(s, i)] = chain[i]
                  /\ chain[i] = Fnv(block_tokens(s, i), chain[i - 1])
                  /\ Len(block_tokens(s, i)) = BlockSize
<1> DEFINE T == {c \in 0 .. num_blocks(s) - 1 : \A i \in 1 .. c : is_hit(s, i)}
           n == num_blocks(s) - 1
<1>1. num_blocks(s) \in Nat \ {0} /\ cached_blocks(s) \in 0 .. n
  BY CachedBlocks
<1>2. cached_blocks(s) \in T
  <2>1. 0 \in T /\ T \in SUBSET (0 .. n) /\ n \in Nat
    BY <1>1
  <2>2. cached_blocks(s) = Max(T)
    BY DEF cached_blocks
  <2> HIDE DEF T, n
  <2> QED
    BY <2>1, <2>2, MaxOfBounded
<1>3. \A i \in 1 .. cached_blocks(s) : is_hit(s, i)
  BY <1>2
<1>4. /\ prefix_hash(s, 0, ZeroHash)[0] = ZeroHash
      /\ \A i \in 1 .. num_blocks(s) : prefix_hash(s, 0, ZeroHash)[i]
           = Fnv(block_tokens(s, i), prefix_hash(s, 0, ZeroHash)[i - 1])
  BY <1>1, PrefixHash
<1>5. \A i \in 1 .. cached_blocks(s) : i \in 1 .. num_blocks(s)
  BY <1>1
<1>6. ASSUME NEW i \in 1 .. cached_blocks(s)
      PROVE  /\ hash[hit_block(s, i)] = prefix_hash(s, 0, ZeroHash)[i]
             /\ Len(block_tokens(s, i)) = BlockSize
  BY <1>3 DEF is_hit, hit_block, IndexSound
<1> QED
  BY <1>4, <1>5, <1>6

(* What hash_blocks does to the pool: the blocks it completes get their links *)
(* of the chain, every other block stays as it is.                           *)
LEMMA HashBlocks ==
  ASSUME IndInv, NEW s \in Seqs, hash_blocks(s)
  PROVE  LET filled == hash_start(s) + 1 .. hash_end(s)
             table == block_table[s]
             chain == prefix_hash(s, hash_start(s), hash_seed(s))
         IN  /\ \A i \in filled : /\ i \in 1 .. Len(table) /\ table[i] \in Block
                                  /\ ~ hash_valid[table[i]]
                                  /\ hash'[table[i]] = chain[i] /\ hash_valid'[table[i]]
                                  /\ block_ids'[table[i]] = block_tokens(s, i)
                                  /\ i * BlockSize <= size(s)
             /\ chain[hash_start(s)] = hash_seed(s)
             /\ \A i \in filled : chain[i] = Fnv(block_tokens(s, i), chain[i - 1])
             /\ \A b \in Block : (\A i \in filled : table[i] # b) =>
                  hash'[b] = hash[b] /\ hash_valid'[b] = hash_valid[b]
                    /\ block_ids'[b] = block_ids[b]
<1> USE DEF IndInv
<1> DEFINE from == hash_start(s)
           to == hash_end(s)
           filled == from + 1 .. to
           table == block_table[s]
           chain == prefix_hash(s, from, hash_seed(s))
           published == {table[i] : i \in filled}
           last_at(b) == Max({i \in filled : table[i] = b})
<1>1. /\ hash' = [b \in Block |-> IF b \in published THEN chain[last_at(b)] ELSE hash[b]]
      /\ hash_valid' = [b \in Block |-> hash_valid[b] \/ b \in published]
      /\ block_ids' = [b \in Block |-> IF b \in published
                                       THEN block_tokens(s, last_at(b)) ELSE block_ids[b]]
  BY DEF hash_blocks
<1>2. /\ from \in Nat /\ to \in Nat /\ from <= to /\ to <= Len(table)
      /\ \A i \in 1 .. to : i * BlockSize <= size(s)
  BY EndFacts
<1>3. to <= num_blocks(s) /\ num_blocks(s) \in Nat
  <2>1. size(s) \in Nat
    BY TypeFacts
  <2>2. to * BlockSize <= size(s)
    <3>1. CASE to = 0
      BY <2>1, <3>1, PoolAssumption
    <3>2. CASE to # 0
      BY <1>2, <3>2
    <3> QED
      BY <3>1, <3>2
  <2>3. (size(s) + BlockSize - 1) \in Nat /\ size(s) <= size(s) + BlockSize - 1
    BY <2>1, PoolAssumption
  <2>4. (to * BlockSize) \div BlockSize = to /\ to * BlockSize \in Nat
    BY <1>2, DivOfMultiple, PoolAssumption
  <2> HIDE DEF to
  <2> DEFINE a == to * BlockSize
             b == size(s) + BlockSize - 1
  <2>5. a \in Nat /\ b \in Nat /\ a <= b
    BY <2>1, <2>2, <2>3, <2>4
  <2>6. num_blocks(s) = b \div BlockSize /\ to = a \div BlockSize
    BY <2>4 DEF num_blocks
  <2> HIDE DEF a, b
  <2> QED
    BY <2>5, <2>6, DivMonotone, DivBounds, PoolAssumption
<1>4. /\ chain[from] = hash_seed(s)
      /\ \A i \in from + 1 .. num_blocks(s) : chain[i] = Fnv(block_tokens(s, i), chain[i - 1])
  <2>1. from \in Nat /\ from <= num_blocks(s)
    BY <1>2, <1>3
  <2> QED
    BY <1>3, <2>1, PrefixHash
<1> HIDE DEF from, to, table, chain
<1>5. filled \in SUBSET (0 .. to) /\ filled \subseteq 1 .. to
  BY <1>2
<1>6. \A i \in filled : /\ i \in hash_start(s) + 1 .. Len(block_table[s])
                        /\ i \in 1 .. Len(block_table[s])
                        /\ table[i] \in Block /\ ~ hash_valid[table[i]]
  <2> SUFFICES ASSUME NEW i \in filled
               PROVE  /\ i \in hash_start(s) + 1 .. Len(block_table[s])
                      /\ i \in 1 .. Len(block_table[s])
                      /\ table[i] \in Block /\ ~ hash_valid[table[i]]
    OBVIOUS
  <2>1. i \in hash_start(s) + 1 .. Len(block_table[s])
        /\ i \in 1 .. Len(block_table[s])
    BY <1>2, TypeFacts DEF from, table
  <2> QED
    BY <2>1, TypeFacts DEF TailPrivate, table
<1>7. ASSUME NEW i \in filled
      PROVE  last_at(table[i]) = i
  <2> DEFINE S == {j \in filled : table[j] = table[i]}
  <2>1. \A j \in filled : table[j] = table[i] => j = i
    BY <1>6, TailNamedOnce DEF table
  <2>2. S \in SUBSET (0 .. to) /\ S # {} /\ \A j \in S : j = i
    BY <1>5, <2>1
  <2>3. last_at(table[i]) = Max(S)
    OBVIOUS
  <2> HIDE DEF S
  <2>4. Max(S) \in S
    BY <1>2, <2>2, MaxOfBounded
  <2> QED
    BY <2>2, <2>3, <2>4
<1> HIDE DEF last_at
<1>8. \A i \in filled : /\ hash'[table[i]] = chain[i] /\ hash_valid'[table[i]]
                        /\ block_ids'[table[i]] = block_tokens(s, i)
  BY <1>1, <1>6, <1>7
<1>9. \A b \in Block : b \notin published =>
        hash'[b] = hash[b] /\ hash_valid'[b] = hash_valid[b] /\ block_ids'[b] = block_ids[b]
  BY <1>1 DEF TypeOK
<1>10. \A i \in filled : i * BlockSize <= size(s) /\ i \in from + 1 .. num_blocks(s)
  BY <1>2, <1>3
<1> HIDE DEF filled
<1>11. \A b \in Block : (\A i \in filled : table[i] # b) => b \notin published
  OBVIOUS
<1> QED
  BY <1>4, <1>6, <1>8, <1>9, <1>10, <1>11 DEF from, to, table, chain, filled

(* What allocate does: the table begins with the hits, and only blocks that   *)
(* are free and no hit are cleared.                                          *)
LEMMA AllocateEffect ==
  ASSUME IndInv, NEW s \in Seqs, size(s) > 0, allocate(s)
  PROVE  /\ \A i \in 1 .. cached_blocks(s) : block_table'[s][i] = hit_block(s, i)
         /\ num_cached_tokens'[s] = cached_blocks(s) * BlockSize
         /\ hash_start(s)' = cached_blocks(s)
         /\ UNCHANGED <<token_ids, num_scheduled_tokens>>
         /\ \A r \in Seqs \ {s} : /\ block_table'[r] = block_table[r]
                                  /\ num_cached_tokens'[r] = num_cached_tokens[r]
                                  /\ hash_start(r)' = hash_start(r)
         /\ \A b \in Block : hash_valid'[b] =>
              hash_valid[b] /\ hash'[b] = hash[b] /\ block_ids'[b] = block_ids[b]
         /\ \A b \in Block : ref_count[b] # 0 =>
              hash_valid'[b] = hash_valid[b] /\ hash'[b] = hash[b]
                /\ block_ids'[b] = block_ids[b]
         /\ \A i \in 1 .. cached_blocks(s) : LET b == hit_block(s, i) IN
              hash_valid'[b] /\ hash'[b] = hash[b] /\ block_ids'[b] = block_ids[b]
<1> USE DEF IndInv
<1> DEFINE c == cached_blocks(s)
           n == num_blocks(s) - c
           hits == hits_of(s)
<1>1. /\ num_blocks(s) \in Nat \ {0}
      /\ c \in 0 .. num_blocks(s) - 1 /\ c \in Nat /\ n \in Nat
      /\ hits \in Seq(Block) /\ Len(hits) = c
      /\ \A i \in 1 .. c : hit_block(s, i) \in Block /\ hash_valid[hit_block(s, i)]
                           /\ hits[i] = hit_block(s, i)
  BY CachedBlocks DEF hits_of
<1>2. PICK fresh \in fresh_tables(s) :
        /\ clear_blocks(Range(fresh))
        /\ block_table' = [block_table EXCEPT ![s] = hits \o fresh]
        /\ num_cached_tokens' = [num_cached_tokens EXCEPT ![s] = cached_tokens(s)]
        /\ UNCHANGED <<token_ids, num_scheduled_tokens>>
  BY DEF allocate
<1> DEFINE F == Range(fresh)
<1> HIDE DEF c, n, hits
<1>3. fresh \in Seq(Block) /\ F \subseteq free_without_hits(s)
  <2>1. free_without_hits(s) \in SUBSET Block /\ fresh \in lowest(free_without_hits(s), n)
    BY DEF TypeOK, free_without_hits, fresh_tables, n, c
  <2> QED
    BY <1>1, <2>1, LowestTables
<1>4. /\ F \in SUBSET Block /\ clear_blocks(F)
      /\ Range(hits) \cap F = {} /\ \A b \in F : ref_count[b] = 0
  BY <1>2, <1>3 DEF free_without_hits, hits, TypeOK, FreeIdsExact
<1> HIDE DEF F
<1>5. /\ \A b \in F : ~ hash_valid'[b]
      /\ \A b \in Block \ F : hash_valid'[b] = hash_valid[b] /\ hash'[b] = hash[b]
                              /\ block_ids'[b] = block_ids[b]
  BY <1>4, ClearBlocks
<1>6. \A i \in 1 .. c : hit_block(s, i) \in Block \ F /\ hash_valid[hit_block(s, i)]
  <2> SUFFICES ASSUME NEW i \in 1 .. c PROVE hit_block(s, i) \in Block \ F
    BY <1>1
  <2>1. i \in DOMAIN hits
    BY <1>1
  <2> QED
    BY <1>1, <1>4, <2>1 DEF Range
<1>7. \A i \in 1 .. c : (hits \o fresh)[i] = hits[i]
  BY <1>1, <1>3, ConcatProperties
<1>8. block_table'[s] = hits \o fresh /\ \A r \in Seqs \ {s} : block_table'[r] = block_table[r]
  BY <1>2 DEF TypeOK
<1>9. /\ num_cached_tokens'[s] = c * BlockSize
      /\ \A r \in Seqs \ {s} : num_cached_tokens'[r] = num_cached_tokens[r]
  BY <1>2 DEF TypeOK, cached_tokens, c
<1>10. (c * BlockSize) \div BlockSize = c
  BY <1>1, DivOfMultiple, PoolAssumption
<1>11. hash_start(s)' = c /\ \A r \in Seqs \ {s} : hash_start(r)' = hash_start(r)
  BY <1>9, <1>10 DEF hash_start
<1>12. \A i \in 1 .. c : block_table'[s][i] = hit_block(s, i)
  BY <1>1, <1>7, <1>8
<1>13. \A b \in Block : b \in F \/ b \in Block \ F
  OBVIOUS
<1> QED
  BY <1>2, <1>4, <1>5, <1>6, <1>8, <1>9, <1>11, <1>12, <1>13 DEF c

(* What may_append does: a free block may be cleared and stands at the end. *)
LEMMA MayAppendEffect ==
  ASSUME IndInv, NEW s \in Seqs, may_append(s)
  PROVE  /\ \A r \in Seqs : \A i \in 1 .. Len(block_table[r]) :
              block_table'[r][i] = block_table[r][i]
         /\ \A r \in Seqs \ {s} : block_table'[r] = block_table[r]
         /\ UNCHANGED <<token_ids, num_cached_tokens, num_scheduled_tokens>>
         /\ \A b \in Block : hash_valid'[b] =>
              hash_valid[b] /\ hash'[b] = hash[b] /\ block_ids'[b] = block_ids[b]
         /\ \A b \in Block : ref_count[b] # 0 =>
              hash_valid'[b] = hash_valid[b] /\ hash'[b] = hash[b]
                /\ block_ids'[b] = block_ids[b]
<1> USE DEF IndInv
<1>1. UNCHANGED <<token_ids, num_cached_tokens, num_scheduled_tokens>>
  BY DEF may_append
<1>2. CASE last_block(s) <= Len(block_table[s])
  BY <1>1, <1>2 DEF may_append, poolVars
<1>3. CASE ~ (last_block(s) <= Len(block_table[s]))
  <2>1. PICK fresh \in lowest(free_ids, 1) :
          /\ clear_blocks(Range(fresh))
          /\ block_table' = [block_table EXCEPT ![s] = @ \o fresh]
    BY <1>3 DEF may_append
  <2> DEFINE F == Range(fresh)
  <2>2. /\ fresh \in Seq(Block) /\ F \in SUBSET Block /\ clear_blocks(F)
        /\ \A b \in F : ref_count[b] = 0
    <3>1. free_ids \in SUBSET Block
      BY DEF TypeOK
    <3>2. fresh \in Seq(Block) /\ F \subseteq free_ids
      BY <3>1, LowestTables
    <3> QED
      BY <2>1, <3>1, <3>2 DEF FreeIdsExact
  <2> HIDE DEF F
  <2>3. /\ \A b \in F : ~ hash_valid'[b]
        /\ \A b \in Block \ F : hash_valid'[b] = hash_valid[b] /\ hash'[b] = hash[b]
                                /\ block_ids'[b] = block_ids[b]
    BY <2>2, ClearBlocks
  <2>4. \A r \in Seqs \ {s} : block_table'[r] = block_table[r]
    BY <2>1 DEF TypeOK
  <2>5. ASSUME NEW r \in Seqs, NEW i \in 1 .. Len(block_table[r])
        PROVE  block_table'[r][i] = block_table[r][i]
    <3>1. CASE r # s
      BY <2>4, <3>1
    <3>2. CASE r = s
      <4>1. block_table'[s] = block_table[s] \o fresh /\ block_table[s] \in Seq(Block)
        BY <2>1 DEF TypeOK
      <4> QED
        BY <2>2, <3>2, <4>1, ConcatProperties
    <3> QED
      BY <3>1, <3>2
  <2>6. \A b \in Block : b \in F \/ b \in Block \ F
    OBVIOUS
  <2> QED
    BY <1>1, <2>2, <2>3, <2>4, <2>5, <2>6
<1> QED
  BY <1>2, <1>3

-----------------------------------------------------------------------------
(* CachedBlocksChained.  It is inductive on top of IndInv: only Allocate and  *)
(* Commit lengthen the computed prefix of a table, and the others leave the   *)
(* blocks of the prefix, which are in use and published, as they are.         *)

Chained(s) ==
  \A i \in 1 .. hash_start(s) :
    LET b == block_table[s][i]
    IN  hash[b] = Fnv(block_ids[b], IF i = 1 THEN ZeroHash
                                    ELSE hash[block_table[s][i - 1]])

(* A computed block is named by the table, in use and published. *)
LEMMA ComputedInUse ==
  ASSUME IndInv, NEW s \in Seqs, NEW i \in 1 .. hash_start(s)
  PROVE  /\ i \in 1 .. Len(block_table[s])
         /\ block_table[s][i] \in Block
         /\ ref_count[block_table[s][i]] # 0
         /\ hash_valid[block_table[s][i]]
<1> USE DEF IndInv
<1>1. i \in 1 .. Len(block_table[s])
  BY StartWithinTable, TypeFacts
<1> QED
  BY <1>1, NamedInUse DEF CachedBlocksOwn

LEMMA ChainedKept ==
  ASSUME IndInv, NEW s \in Seqs, Chained(s), hash_start(s)' = hash_start(s),
         \A i \in 1 .. hash_start(s) : block_table'[s][i] = block_table[s][i],
         \A b \in Block : ref_count[b] # 0 /\ hash_valid[b] =>
           hash'[b] = hash[b] /\ block_ids'[b] = block_ids[b]
  PROVE  Chained(s)'
<1>1. hash_start(s) \in Nat
  BY TypeFacts DEF IndInv
<1>2. \A i \in 1 .. hash_start(s) :
        LET b == block_table[s][i] IN
          block_table'[s][i] = b /\ hash'[b] = hash[b] /\ block_ids'[b] = block_ids[b]
  BY ComputedInUse
<1> SUFFICES ASSUME NEW i \in 1 .. hash_start(s)
             PROVE  hash'[block_table'[s][i]] =
                      Fnv(block_ids'[block_table'[s][i]],
                          IF i = 1 THEN ZeroHash ELSE hash'[block_table'[s][i - 1]])
  BY DEF Chained
<1>3. i # 1 => i - 1 \in 1 .. hash_start(s)
  BY <1>1
<1> HIDE DEF hash_start
<1>4. hash[block_table[s][i]] =
        Fnv(block_ids[block_table[s][i]],
            IF i = 1 THEN ZeroHash ELSE hash[block_table[s][i - 1]])
  BY DEF Chained
<1>5. CASE i = 1
  BY <1>2, <1>4, <1>5
<1>6. CASE i # 1
  BY <1>2, <1>3, <1>4, <1>6
<1> QED
  BY <1>5, <1>6

(* Allocate: the computed prefix is the run of hits, a chain from ZeroHash. *)
LEMMA AllocateChained ==
  ASSUME IndInv, CachedBlocksChained, NEW s \in Seqs, size(s) > 0, allocate(s)
  PROVE  CachedBlocksChained'
<1> USE DEF IndInv
<1> DEFINE c == cached_blocks(s)
           chain == prefix_hash(s, 0, ZeroHash)
<1>1. \A r \in Seqs : Chained(r)
  BY DEF CachedBlocksChained, Chained
<1>2. \A r \in Seqs \ {s} : Chained(r)'
  BY <1>1, AllocateEffect, ChainedKept
<1>3. /\ chain[0] = ZeroHash
      /\ \A i \in 1 .. c : /\ hash[hit_block(s, i)] = chain[i]
                           /\ chain[i] = Fnv(block_tokens(s, i), chain[i - 1])
  BY HitHashes
<1>4. /\ c \in Nat
      /\ \A i \in 1 .. c : block_ids[hit_block(s, i)] = block_tokens(s, i)
  BY CachedBlocks
<1>5. /\ hash_start(s)' = c
      /\ \A i \in 1 .. c : /\ block_table'[s][i] = hit_block(s, i)
                           /\ hash'[hit_block(s, i)] = hash[hit_block(s, i)]
                           /\ block_ids'[hit_block(s, i)] = block_ids[hit_block(s, i)]
  BY AllocateEffect
<1> HIDE DEF c, chain
<1>6. Chained(s)'
  <2> SUFFICES ASSUME NEW i \in 1 .. c
               PROVE  hash'[block_table'[s][i]] =
                        Fnv(block_ids'[block_table'[s][i]],
                            IF i = 1 THEN ZeroHash ELSE hash'[block_table'[s][i - 1]])
    BY <1>5 DEF Chained
  <2>1. i # 1 => i - 1 \in 1 .. c
    BY <1>4
  <2>2. hash'[block_table'[s][i]] = chain[i]
        /\ block_ids'[block_table'[s][i]] = block_tokens(s, i)
        /\ chain[i] = Fnv(block_tokens(s, i), chain[i - 1])
    BY <1>3, <1>4, <1>5
  <2>3. i = 1 => chain[i - 1] = ZeroHash
    BY <1>3
  <2>4. i # 1 => hash'[block_table'[s][i - 1]] = chain[i - 1]
    BY <1>3, <1>5, <2>1
  <2> QED
    BY <2>2, <2>3, <2>4
<1> QED
  BY <1>2, <1>6 DEF CachedBlocksChained, Chained

(* Commit: the new links continue the chain from the last computed block. *)
LEMMA CommitChained ==
  ASSUME IndInv, CachedBlocksChained, NEW s \in Seqs, Commit(s)
  PROVE  CachedBlocksChained'
<1> USE DEF IndInv
<1> DEFINE from == hash_start(s)
           to == hash_end(s)
           table == block_table[s]
           filled == from + 1 .. to
           chain == prefix_hash(s, from, hash_seed(s))
<1>1. \A r \in Seqs : Chained(r)
  BY DEF CachedBlocksChained, Chained
<1>2. /\ \A i \in filled : /\ i \in 1 .. Len(table) /\ table[i] \in Block
                           /\ ~ hash_valid[table[i]]
                           /\ hash'[table[i]] = chain[i]
                           /\ block_ids'[table[i]] = block_tokens(s, i)
      /\ chain[from] = hash_seed(s)
      /\ \A i \in filled : chain[i] = Fnv(block_tokens(s, i), chain[i - 1])
      /\ \A b \in Block : (\A i \in filled : table[i] # b) =>
           hash'[b] = hash[b] /\ block_ids'[b] = block_ids[b]
  BY HashBlocks DEF Commit
<1>3. from \in Nat /\ to \in Nat /\ from <= to
  BY EndFacts
<1>4. /\ block_table' = block_table
      /\ num_cached_tokens' =
           [num_cached_tokens EXCEPT ![s] = @ + num_scheduled_tokens[s]]
  BY DEF Commit
<1>5. hash_start(s)' = to /\ \A r \in Seqs \ {s} : hash_start(r)' = hash_start(r)
  BY <1>4 DEF TypeOK, hash_start, hash_end
<1>6. \A i \in 1 .. from : table[i] \in Block /\ hash_valid[table[i]]
  BY ComputedInUse
<1>7. from # 0 => hash_seed(s) = hash[table[from]]
  BY DEF hash_seed
<1>8. from = 0 => hash_seed(s) = ZeroHash
  BY DEF hash_seed
<1> HIDE DEF chain, from, to
<1>9. \A b \in Block : hash_valid[b] => hash'[b] = hash[b] /\ block_ids'[b] = block_ids[b]
  BY <1>2
<1>10. \A r \in Seqs \ {s} : Chained(r)'
  BY <1>1, <1>4, <1>5, <1>9, ChainedKept
<1>11. ASSUME NEW i \in 1 .. to
       PROVE  hash'[table[i]] = Fnv(block_ids'[table[i]],
                                    IF i = 1 THEN ZeroHash ELSE hash'[table[i - 1]])
  <2>1. CASE i \in 1 .. from
    <3>1. i # 1 => i - 1 \in 1 .. from
      BY <1>3, <2>1
    <3>2. hash[table[i]] = Fnv(block_ids[table[i]],
                               IF i = 1 THEN ZeroHash ELSE hash[table[i - 1]])
      BY <1>1, <2>1 DEF Chained, from
    <3>3. CASE i = 1
      BY <1>6, <1>9, <2>1, <3>2, <3>3
    <3>4. CASE i # 1
      BY <1>6, <1>9, <2>1, <3>1, <3>2, <3>4
    <3> QED
      BY <3>3, <3>4
  <2>2. CASE i = from + 1
    <3>1. i \in filled /\ i - 1 = from
      BY <1>3, <2>2
    <3>2. hash'[table[i]] = Fnv(block_ids'[table[i]], hash_seed(s))
      BY <1>2, <3>1
    <3>3. CASE from = 0
      BY <1>8, <2>2, <3>2, <3>3
    <3>4. CASE from # 0
      <4>1. from \in 1 .. from /\ i # 1
        BY <1>3, <2>2, <3>4
      <4> QED
        BY <1>6, <1>7, <1>9, <3>1, <3>2, <3>4, <4>1
    <3> QED
      BY <3>3, <3>4
  <2>3. CASE i \in from + 2 .. to
    <3>1. i \in filled /\ i - 1 \in filled /\ i # 1
      BY <1>3, <2>3
    <3> QED
      BY <1>2, <3>1
  <2>4. i \in 1 .. from \/ i = from + 1 \/ i \in from + 2 .. to
    BY <1>3
  <2> QED
    BY <2>1, <2>2, <2>3, <2>4
<1>12. Chained(s)'
  BY <1>4, <1>5, <1>11 DEF Chained
<1> QED
  BY <1>10, <1>12 DEF CachedBlocksChained, Chained

LEMMA NextChained ==
  IndInv /\ CachedBlocksChained /\ [BlockManagerNext]_blockManagerVars
    => CachedBlocksChained'
<1> SUFFICES ASSUME IndInv, CachedBlocksChained, [BlockManagerNext]_blockManagerVars
             PROVE  CachedBlocksChained'
  OBVIOUS
<1> USE DEF IndInv
<1>1. \A r \in Seqs : Chained(r)
  BY DEF CachedBlocksChained, Chained
<1>2. ASSUME UNCHANGED <<block_table, num_cached_tokens, hash, block_ids>>
      PROVE  CachedBlocksChained'
  BY <1>2 DEF CachedBlocksChained, hash_start
<1>3. ASSUME NEW s \in Seqs, NEW p \in Prompts, Create(s, p) PROVE CachedBlocksChained'
  BY <1>2, <1>3 DEF Create, poolVars
<1>4. ASSUME NEW s \in Seqs, Allocate(s) PROVE CachedBlocksChained'
  <2>1. size(s) > 0
    BY <1>4, TypeFacts, EmptySeq, LenProperties DEF Allocate, size
  <2> QED
    BY <1>4, <2>1, AllocateChained DEF Allocate
<1>5. ASSUME NEW s \in Seqs, NEW n \in 1 .. MaxLen, SetScheduled(s, n)
      PROVE  CachedBlocksChained'
  BY <1>2, <1>5 DEF SetScheduled, poolVars
<1>6. ASSUME NEW s \in Seqs, Commit(s) PROVE CachedBlocksChained'
  BY <1>6, CommitChained
<1>7. ASSUME NEW s \in Seqs, NEW t \in Token, AppendToken(s, t)
      PROVE  CachedBlocksChained'
  BY <1>2, <1>7 DEF AppendToken, poolVars
<1>8. ASSUME NEW s \in Seqs, MayAppend(s) PROVE CachedBlocksChained'
  <2>1. may_append(s)
    BY <1>8 DEF MayAppend
  <2>2. \A r \in Seqs : hash_start(r)' = hash_start(r)
    BY <2>1, MayAppendEffect DEF hash_start
  <2>3. \A r \in Seqs : \A i \in 1 .. hash_start(r) :
          block_table'[r][i] = block_table[r][i]
    BY <2>1, MayAppendEffect, ComputedInUse
  <2>4. \A b \in Block : ref_count[b] # 0 =>
          hash'[b] = hash[b] /\ block_ids'[b] = block_ids[b]
    BY <2>1, MayAppendEffect
  <2>5. \A r \in Seqs : Chained(r)'
    BY <1>1, <2>2, <2>3, <2>4, ChainedKept
  <2> QED
    BY <2>5 DEF CachedBlocksChained, Chained
<1>9. ASSUME NEW s \in Seqs, Deallocate(s) PROVE CachedBlocksChained'
  <2>1. /\ num_cached_tokens' = [num_cached_tokens EXCEPT ![s] = 0]
        /\ block_table' = [block_table EXCEPT ![s] = <<>>]
        /\ UNCHANGED <<hash, block_ids>>
    BY <1>9 DEF Deallocate, deallocate
  <2>2. num_cached_tokens'[s] = 0
        /\ \A r \in Seqs \ {s} : num_cached_tokens'[r] = num_cached_tokens[r]
                                 /\ block_table'[r] = block_table[r]
    BY <2>1 DEF TypeOK
  <2>3. hash_start(s)' = 0
    BY <2>2, DivOfMultiple, PoolAssumption DEF hash_start
  <2>4. Chained(s)'
    BY <2>3 DEF Chained
  <2>5. \A r \in Seqs \ {s} : hash_start(r)' = hash_start(r)
    BY <2>2 DEF hash_start
  <2>6. \A r \in Seqs \ {s} : Chained(r)'
    BY <1>1, <2>1, <2>2, <2>5, ChainedKept
  <2> QED
    BY <2>4, <2>6 DEF CachedBlocksChained, Chained
<1>10. CASE UNCHANGED blockManagerVars
  BY <1>2, <1>10 DEF blockManagerVars, seqVars, poolVars
<1> QED
  BY <1>3, <1>4, <1>5, <1>6, <1>7, <1>8, <1>9, <1>10 DEF BlockManagerNext

(* The hashes of a sequence's computed blocks form one chain from ZeroHash,   *)
(* whoever computed them and whatever was recycled in between.               *)
THEOREM PrefixesChained == BlockManagerSpec => []CachedBlocksChained
<1>1. BlockManagerInit => CachedBlocksChained
  <2> SUFFICES ASSUME BlockManagerInit PROVE CachedBlocksChained
    OBVIOUS
  <2>1. \A s \in Seqs : hash_start(s) = 0
    BY DivOfMultiple, PoolAssumption DEF BlockManagerInit, hash_start
  <2> QED
    BY <2>1 DEF CachedBlocksChained
<1>2. IndInv /\ CachedBlocksChained /\ [BlockManagerNext]_blockManagerVars
        => CachedBlocksChained'
  BY NextChained
<1> QED
  BY <1>1, <1>2, Invariance, PTL DEF BlockManagerSpec
=============================================================================
