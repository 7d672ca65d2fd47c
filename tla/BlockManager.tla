---------------------------- MODULE BlockManager ----------------------------
(***************************************************************************)
(* The paged KV-cache pool of engine/src/block_manager.cpp together with    *)
(* the fields of engine/include/sequence.h its operations read and write.   *)
(*                                                                          *)
(* A sequence owns a table of blocks; block i of the table (1-based here,   *)
(* 0-based in the code) holds the keys and values of BlockSize consecutive  *)
(* tokens.  Full blocks are published in hash_to_block under a hash chained *)
(* over the whole prefix, and later sequences share them by reference       *)
(* count.  A block whose count drops to 0 keeps its hash and its contents   *)
(* until allocate_block hands it out again.                                 *)
(*                                                                          *)
(* Operators carry the names of the member functions they translate; those  *)
(* in lower case that prime variables are effects, used by the actions at   *)
(* the end and by the modules that extend this one.                         *)
(***************************************************************************)
EXTENDS Integers, Sequences, FiniteSets, FiniteSetsExt

CONSTANTS
  Seqs,        \* identities of the Sequence objects
  Token,       \* token ids
  Prompts,     \* prompts a request may carry
  BlockSize,   \* block_size_
  NumBlocks,   \* number of KV blocks
  MaxLen,      \* bound: tokens a sequence may grow to
  Fnv(_, _)    \* hash of one block's tokens, seeded with the prefix's hash

ASSUME SeqsAssumption == IsFiniteSet(Seqs)
ASSUME PoolAssumption == BlockSize \in Nat \ {0} /\ NumBlocks \in Nat \ {0}
ASSUME PromptAssumption == \A p \in Prompts : p \in Seq(Token) /\ p # <<>>

VARIABLES
  token_ids,             \* Sequence::token_ids_, <<>> before the request exists
  block_table,           \* Sequence::block_table
  num_cached_tokens,     \* Sequence::num_cached_tokens
  num_scheduled_tokens,  \* Sequence::num_scheduled_tokens
  ref_count,             \* Block::ref_count
  hash_valid,            \* Block::hash_valid
  hash,                  \* Block::hash
  block_ids,             \* Block::token_ids, the tokens a published block holds
  free_ids,              \* free_ids_
  hash_to_block          \* hash_to_block_

seqVars == <<token_ids, block_table, num_cached_tokens, num_scheduled_tokens>>
poolVars == <<ref_count, hash_valid, hash, block_ids, free_ids, hash_to_block>>
blockManagerVars == <<seqVars, poolVars>>

Block == 0 .. NumBlocks - 1
ZeroHash == <<>>      \* the hash 0 that seeds a chain and marks a cleared block

-----------------------------------------------------------------------------
(* Sequence *)

size(s) == Len(token_ids[s])

num_blocks(s) == (size(s) + BlockSize - 1) \div BlockSize

block_tokens(s, i) ==
  SubSeq(token_ids[s], (i - 1) * BlockSize + 1,
         IF i * BlockSize <= size(s) THEN i * BlockSize ELSE size(s))

(* Block (1-based) that holds the sequence's last token. *)
last_block(s) == (size(s) - 1) \div BlockSize + 1

-----------------------------------------------------------------------------
(* prefix_hash(s, start, seed)[i] is the hash of block i     *)
(* when the chain runs over blocks start + 1, start + 2, ... from seed.      *)

(* Slip: the hash of a block says nothing of its prefix. *)
prefix_hash_flat(s, start, seed) ==
  [i \in start .. num_blocks(s) |->
     IF i = start THEN seed ELSE Fnv(block_tokens(s, i), ZeroHash)]

prefix_hash(s, start, seed) ==
  LET chain[i \in start .. num_blocks(s)] ==
        IF i = start THEN seed ELSE Fnv(block_tokens(s, i), chain[i - 1])
  IN  chain

hit_block(s, i) == hash_to_block[prefix_hash(s, 0, ZeroHash)[i]]

is_hit(s, i) ==
  /\ Len(block_tokens(s, i)) = BlockSize
  /\ prefix_hash(s, 0, ZeroHash)[i] \in DOMAIN hash_to_block
  /\ hash_valid[hit_block(s, i)]
  /\ block_ids[hit_block(s, i)] = block_tokens(s, i)

(* Slip: also offers the last block, whose final token must be computed. *)
cached_blocks_all(s) ==
  Max({c \in 0 .. num_blocks(s) : \A i \in 1 .. c : is_hit(s, i)})

(* can_allocate's out-parameter: the longest run of hits that leaves the     *)
(* last block out.                                                           *)
cached_blocks(s) ==
  Max({c \in 0 .. num_blocks(s) - 1 : \A i \in 1 .. c : is_hit(s, i)})

(* Slip: counts a cached block that is on the free list as if in use. *)
new_blocks_any(s) == num_blocks(s) - cached_blocks(s)

new_blocks(s) ==
  num_blocks(s)
    - Cardinality({i \in 1 .. cached_blocks(s) : ref_count[hit_block(s, i)] > 0})

can_allocate(s) == Cardinality(free_ids) >= new_blocks(s)

-----------------------------------------------------------------------------
(* The pool *)

(* The tables of n blocks that n calls of allocate_block can pop off the     *)
(* set F, lowest id first.  There is one when n <= Cardinality(F), else none.*)
lowest(F, n) ==
  {q \in [1 .. n -> F] :
     \A i \in 1 .. n : /\ \A j \in 1 .. n : i < j => q[i] < q[j]
                       /\ \A b \in F : b < q[i] => \E j \in 1 .. n : q[j] = b}

positions(table, b) == {i \in DOMAIN table : table[i] = b}
occurrences(table, b) == Cardinality(positions(table, b))

(* Slip: the popped block keeps its entry in hash_to_block_. *)
without_entries_stale(F) == hash_to_block

(* The map once allocate_block has dropped the entries that name a block of F.*)
without_entries(F) ==
  [h \in {k \in DOMAIN hash_to_block :
            ~ \E b \in F : hash_valid[b] /\ hash[b] = k /\ hash_to_block[k] = b}
     |-> hash_to_block[h]]

(* Hash, validity and tokens of the blocks of F cleared by allocate_block. *)
clear_blocks(F) ==
  /\ hash_valid' = [b \in Block |-> IF b \in F THEN FALSE ELSE hash_valid[b]]
  /\ hash' = [b \in Block |-> IF b \in F THEN ZeroHash ELSE hash[b]]
  /\ block_ids' = [b \in Block |-> IF b \in F THEN <<>> ELSE block_ids[b]]
  /\ hash_to_block' = without_entries(F)

(* Slip: a shared block is handed out with a count of 1. *)
count_after_one(hits, fresh, b) ==
  IF b \in Range(fresh) \cup Range(hits) THEN 1 ELSE ref_count[b]

count_after(hits, fresh, b) ==
  IF b \in Range(fresh) THEN 1 ELSE ref_count[b] + occurrences(hits, b)

(* The table of shared blocks allocate takes over, one per cached block. *)
hits_of(s) == [i \in 1 .. cached_blocks(s) |-> hit_block(s, i)]

free_without_hits(s) == free_ids \ Range(hits_of(s))

fresh_tables(s) == lowest(free_without_hits(s), num_blocks(s) - cached_blocks(s))

(* The InternalErrors of allocate that are not a re-check of can_allocate on *)
(* the same state: a shared block with count 0 missing from the free list,   *)
(* and a pool that runs out.                                                 *)
allocate_fails(s) ==
  \/ \E i \in 1 .. cached_blocks(s) :
       ref_count[hit_block(s, i)] = 0 /\ hit_block(s, i) \notin free_ids
  \/ Cardinality(free_without_hits(s)) < num_blocks(s) - cached_blocks(s)

(* Slip: a re-admitted sequence starts from its first token. *)
cached_tokens_none(s) == 0

(* Slip: the blocks just taken count as computed too. *)
cached_tokens_whole(s) == num_blocks(s) * BlockSize

cached_tokens(s) == cached_blocks(s) * BlockSize

allocate(s) ==
  \E fresh \in fresh_tables(s) :
    /\ clear_blocks(Range(fresh))
    /\ ref_count' = [b \in Block |-> count_after(hits_of(s), fresh, b)]
    /\ free_ids' = free_without_hits(s) \ Range(fresh)
    /\ block_table' = [block_table EXCEPT ![s] = hits_of(s) \o fresh]
    /\ num_cached_tokens' = [num_cached_tokens EXCEPT ![s] = cached_tokens(s)]
    /\ UNCHANGED <<token_ids, num_scheduled_tokens>>

can_append(s) ==
  size(s) > 0 /\ (last_block(s) <= Len(block_table[s]) \/ free_ids # {})

may_append(s) ==
  /\ IF last_block(s) <= Len(block_table[s])
     THEN UNCHANGED <<poolVars, block_table>>
     ELSE \E fresh \in lowest(free_ids, 1) :
            /\ clear_blocks(Range(fresh))
            /\ ref_count' = [ref_count EXCEPT ![fresh[1]] = 1]
            /\ free_ids' = free_ids \ {fresh[1]}
            /\ block_table' = [block_table EXCEPT ![s] = @ \o fresh]
  /\ UNCHANGED <<token_ids, num_cached_tokens, num_scheduled_tokens>>

(* Slip: the count is lowered even when it is 0 already. *)
count_released_below(s, b) ==
  ref_count[b] - occurrences(block_table[s], b) - 1

(* release_block once per entry of the table: a count never drops below 0. *)
count_released(s, b) ==
  IF ref_count[b] > occurrences(block_table[s], b)
  THEN ref_count[b] - occurrences(block_table[s], b) ELSE 0

(* Slip: the table is not cleared. *)
deallocate_keeps_table(s) ==
  /\ ref_count' = [b \in Block |-> count_released(s, b)]
  /\ free_ids' = free_ids \cup {b \in Range(block_table[s]) :
                                  ref_count[b] > 0 /\ count_released(s, b) = 0}
  /\ num_cached_tokens' = [num_cached_tokens EXCEPT ![s] = 0]
  /\ num_scheduled_tokens' = [num_scheduled_tokens EXCEPT ![s] = 0]
  /\ UNCHANGED <<token_ids, block_table, hash_valid, hash, block_ids, hash_to_block>>

deallocate(s) ==
  /\ ref_count' = [b \in Block |-> count_released(s, b)]
  /\ free_ids' = free_ids \cup {b \in Range(block_table[s]) :
                                  ref_count[b] > 0 /\ count_released(s, b) = 0}
  /\ block_table' = [block_table EXCEPT ![s] = <<>>]
  /\ num_cached_tokens' = [num_cached_tokens EXCEPT ![s] = 0]
  /\ num_scheduled_tokens' = [num_scheduled_tokens EXCEPT ![s] = 0]
  /\ UNCHANGED <<token_ids, hash_valid, hash, block_ids, hash_to_block>>

-----------------------------------------------------------------------------
(* hash_blocks: publish the blocks start + 1 .. end that this step filled. *)

hash_start(s) == num_cached_tokens[s] \div BlockSize

(* Slip: the partly filled last block counts as complete. *)
hash_end_partial(s) ==
  (num_cached_tokens[s] + num_scheduled_tokens[s] + BlockSize - 1) \div BlockSize

(* Slip: every full block of the prompt counts, computed or not. *)
hash_end_uncomputed(s) == size(s) \div BlockSize

hash_end(s) == (num_cached_tokens[s] + num_scheduled_tokens[s]) \div BlockSize

(* Slip: every block is hashed as if it were the first. *)
hash_seed_zero(s) == ZeroHash

hash_seed(s) ==
  IF hash_start(s) = 0 THEN ZeroHash ELSE hash[block_table[s][hash_start(s)]]

hash_blocks_fails(s) ==
  /\ hash_start(s) < hash_end(s)
  /\ \/ hash_end(s) > Len(block_table[s])
     \/ hash_start(s) > 0 /\ ~ hash_valid[block_table[s][hash_start(s)]]
     \/ \E i \in hash_start(s) + 1 .. hash_end(s) :
          Len(block_tokens(s, i)) # BlockSize

hash_blocks(s) ==
  LET filled == hash_start(s) + 1 .. hash_end(s)
      chain == prefix_hash(s, hash_start(s), hash_seed(s))
      published == {block_table[s][i] : i \in filled}
      last_at(b) == Max({i \in filled : block_table[s][i] = b})
      last_with(h) == Max({i \in filled : chain[i] = h})
      new_keys == {chain[i] : i \in filled}
  IN  /\ hash' = [b \in Block |->
                    IF b \in published THEN chain[last_at(b)] ELSE hash[b]]
      /\ hash_valid' = [b \in Block |-> hash_valid[b] \/ b \in published]
      /\ block_ids' = [b \in Block |->
                         IF b \in published THEN block_tokens(s, last_at(b))
                         ELSE block_ids[b]]
      /\ hash_to_block' =
           [h \in DOMAIN hash_to_block \cup new_keys |->
              IF h \in new_keys THEN block_table[s][last_with(h)]
              ELSE hash_to_block[h]]
      /\ UNCHANGED <<ref_count, free_ids>>

-----------------------------------------------------------------------------
(* The operations as the scheduler calls them. *)

BlockManagerInit ==
  /\ token_ids = [s \in Seqs |-> <<>>]
  /\ block_table = [s \in Seqs |-> <<>>]
  /\ num_cached_tokens = [s \in Seqs |-> 0]
  /\ num_scheduled_tokens = [s \in Seqs |-> 0]
  /\ ref_count = [b \in Block |-> 0]
  /\ hash_valid = [b \in Block |-> FALSE]
  /\ hash = [b \in Block |-> ZeroHash]
  /\ block_ids = [b \in Block |-> <<>>]
  /\ free_ids = Block
  /\ hash_to_block = [h \in {} |-> 0]

(* A request arrives: a Sequence is constructed with its prompt. *)
Create(s, p) ==
  /\ token_ids[s] = <<>>
  /\ token_ids' = [token_ids EXCEPT ![s] = p]
  /\ UNCHANGED <<block_table, num_cached_tokens, num_scheduled_tokens, poolVars>>

(* The scheduler admits a sequence: allocate right after can_allocate. *)
Allocate(s) ==
  /\ token_ids[s] # <<>> /\ block_table[s] = <<>>
  /\ can_allocate(s)
  /\ ~ allocate_fails(s)
  /\ allocate(s)

(* The scheduler puts the next n tokens of the sequence into a batch. *)
SetScheduled(s, n) ==
  /\ block_table[s] # <<>>
  /\ n \in 1 .. size(s) - num_cached_tokens[s]
  /\ num_cached_tokens[s] + n <= Len(block_table[s]) * BlockSize
  /\ num_scheduled_tokens' = [num_scheduled_tokens EXCEPT ![s] = n]
  /\ UNCHANGED <<token_ids, block_table, num_cached_tokens, poolVars>>

(* postprocess accounts for a sequence's share of the batch that has run. *)
Commit(s) ==
  /\ block_table[s] # <<>> /\ num_scheduled_tokens[s] > 0
  /\ ~ hash_blocks_fails(s)
  /\ hash_blocks(s)
  /\ num_cached_tokens' =
       [num_cached_tokens EXCEPT ![s] = @ + num_scheduled_tokens[s]]
  /\ num_scheduled_tokens' = [num_scheduled_tokens EXCEPT ![s] = 0]
  /\ UNCHANGED <<token_ids, block_table>>

(* postprocess appends the sampled token. *)
AppendToken(s, t) ==
  /\ block_table[s] # <<>> /\ num_scheduled_tokens[s] = 0
  /\ size(s) < MaxLen
  /\ token_ids' = [token_ids EXCEPT ![s] = Append(@, t)]
  /\ UNCHANGED <<block_table, num_cached_tokens, num_scheduled_tokens, poolVars>>

(* The decode loop makes room for the sequence's last token. *)
MayAppend(s) ==
  /\ block_table[s] # <<>> /\ can_append(s)
  /\ may_append(s)

(* The sequence finishes or is preempted. *)
Deallocate(s) ==
  /\ block_table[s] # <<>>
  /\ deallocate(s)

BlockManagerNext ==
  \E s \in Seqs :
    \/ \E p \in Prompts : Create(s, p)
    \/ Allocate(s)
    \/ \E n \in 1 .. MaxLen : SetScheduled(s, n)
    \/ Commit(s)
    \/ \E t \in Token : AppendToken(s, t)
    \/ MayAppend(s)
    \/ Deallocate(s)

BlockManagerSpec == BlockManagerInit /\ [][BlockManagerNext]_blockManagerVars
-----------------------------------------------------------------------------
(* Properties *)

TypeOK ==
  /\ token_ids \in [Seqs -> Seq(Token)]
  /\ block_table \in [Seqs -> Seq(Block)]
  /\ num_cached_tokens \in [Seqs -> Nat]
  /\ num_scheduled_tokens \in [Seqs -> Nat]
  /\ ref_count \in [Block -> Nat]
  /\ hash_valid \in [Block -> BOOLEAN]
  /\ hash = [b \in Block |-> hash[b]]
  /\ block_ids \in [Block -> Seq(Token)]
  /\ free_ids \in SUBSET Block
  /\ hash_to_block \in [DOMAIN hash_to_block -> Block]

(* The entries of the given tables, one per sequence, that name block b. *)
Slots(tables, b) == UNION {{s} \X positions(tables[s], b) : s \in Seqs}

(* A block's reference count is the number of table entries that name it, so *)
(* a block is never reclaimed under a sequence that still reads it, nor kept  *)
(* when nobody does (allocate, may_append, release_block).                    *)
RefCountExact == \A b \in Block : ref_count[b] = Cardinality(Slots(block_table, b))

(* The free list holds exactly the blocks with count 0; a cached block whose *)
(* last holder leaves can be revived or reused, and only once.                *)
FreeIdsExact == \A b \in Block : b \in free_ids <=> ref_count[b] = 0

(* The accounting as a whole: allocate, may_append and deallocate change      *)
(* counts, tables and the free list in separate loops, which have to agree    *)
(* after sharing a cached block, reviving one from the free list and          *)
(* releasing it by several holders in any order.                              *)
AccountsExact == RefCountExact /\ FreeIdsExact

(* Every entry of the prefix index names a block that still holds what was   *)
(* published under that hash: recycling a block retires its entry, and a     *)
(* later block with the same hash takes the entry over.                      *)
IndexSound ==
  \A h \in DOMAIN hash_to_block :
    hash_valid[hash_to_block[h]] /\ hash[hash_to_block[h]] = h

(* What a sequence counts as computed or about to be computed lies within its *)
(* text and within the blocks of its table.                                  *)
Covered ==
  \A s \in Seqs :
    LET reach == num_cached_tokens[s] + num_scheduled_tokens[s] IN
      reach <= size(s) /\ reach <= Len(block_table[s]) * BlockSize

(* The leading blocks a sequence counts as cached are published and hold its *)
(* own tokens, whoever computed them and whatever was recycled since.        *)
CachedBlocksOwn ==
  \A s \in Seqs : \A i \in 1 .. hash_start(s) :
    LET b == block_table[s][i]
    IN  hash_valid[b] /\ block_ids[b] = block_tokens(s, i)

(* The hashes of the leading blocks form one chain: each was computed on top  *)
(* of the previous one's, also where the blocks come from other sequences.   *)
CachedBlocksChained ==
  \A s \in Seqs : \A i \in 1 .. hash_start(s) :
    LET b == block_table[s][i]
    IN  hash[b] = Fnv(block_ids[b], IF i = 1 THEN ZeroHash
                                    ELSE hash[block_table[s][i - 1]])

(* The blocks a sequence still has to fill are its own and unpublished: no    *)
(* other sequence shares them, and no admission can pick them as a prefix.   *)
TailPrivate ==
  \A s \in Seqs : \A i \in hash_start(s) + 1 .. Len(block_table[s]) :
    LET b == block_table[s][i] IN ref_count[b] = 1 /\ ~ hash_valid[b]

(* What can_allocate promises, allocate delivers: when it says the blocks    *)
(* suffice, the pool does not run out half way through the table.            *)
AllocateNeverFails ==
  \A s \in Seqs :
    (token_ids[s] # <<>> /\ block_table[s] = <<>> /\ can_allocate(s))
      => ~ allocate_fails(s) /\ fresh_tables(s) # {}

(* None of hash_blocks' InternalErrors can be returned to postprocess. *)
HashNeverFails ==
  \A s \in Seqs :
    (block_table[s] # <<>> /\ num_scheduled_tokens[s] > 0) => ~ hash_blocks_fails(s)
=============================================================================
