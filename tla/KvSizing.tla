------------------------------ MODULE KvSizing ------------------------------
(***************************************************************************)
(* model/src/qwen3.cpp, model.cpp and qwen3_checkpoint.cpp: the dimensions  *)
(* of a model, the size of its KV pool and the number of blocks the free    *)
(* memory of the GPU is worth.  size_t and int32_t are the numbers up to    *)
(* SizeMax and IntMax; gpu_memory_utilization is the fraction               *)
(* utilization / Scale.                                                     *)
(***************************************************************************)
EXTENDS Integers

CONSTANTS
  SizeMax,    \* numeric_limits<size_t>::max()
  IntMax,     \* numeric_limits<int32_t>::max()
  FloatSize,  \* sizeof(float)
  MinReserve, \* 256ull << 20
  Scale       \* the denominator of gpu_memory_utilization

ASSUME SizingAssumption ==
  /\ SizeMax \in Nat /\ IntMax \in Nat /\ MinReserve \in Nat
  /\ FloatSize \in Nat \ {0} /\ Scale \in Nat \ {0}

\* Larger of two numbers: std::max.
larger(a, b) == IF a > b THEN a ELSE b

\* What generate_model_infos refuses of config.json and the context length.
valid_dimensions(c) ==
  /\ c.head_dim > 0 /\ c.head_num > 0 /\ c.kv_head_num > 0 /\ c.vocab_size > 0 /\ c.seq_len > 0
  /\ c.kv_head_num <= c.head_num
  /\ c.head_num % c.kv_head_num = 0 /\ c.head_dim % 2 = 0
  /\ c.dim > 0 /\ c.hidden_dim > 0 /\ c.layer_num > 0
  /\ c.dim % c.head_num = 0 /\ (c.dim \div c.head_num) % 2 = 0

\* config_ as generate_model_infos leaves it: Qwen3 has a head width of its own.
model_infos(c) ==
  [layer_num |-> c.layer_num, head_num |-> c.head_num, kv_head_num |-> c.kv_head_num,
   seq_len |-> c.seq_len, dim |-> c.dim, hidden_dim |-> c.hidden_dim,
   vocab_size |-> c.vocab_size, head_size |-> c.head_dim,
   kv_dim |-> c.kv_head_num * c.head_dim, query_dim |-> c.head_num * c.head_dim]

----------------------------------------------------------------------------
(* The size of the pool *)

\* One turn of the loop over the factors; 0 once the product does not fit.
times(bytes, factor) == IF bytes > SizeMax \div factor THEN 0 ELSE bytes * factor

paged_kv_cache_size_bytes(m, num_blocks, block_size) ==
  IF num_blocks <= 0 \/ block_size <= 0 \/ block_size > m.seq_len THEN 0
  ELSE times(times(times(times(times(2, m.layer_num), num_blocks), block_size), m.kv_dim), FloatSize)

----------------------------------------------------------------------------
(* estimate_paged_kv_cache_blocks *)

\* Floats the estimator sets aside for each token of a batch.
workspace_floats(m) ==
  9 * m.dim + 2 * m.query_dim + 2 * m.kv_dim + 3 * m.hidden_dim + m.head_num * m.seq_len

\* No sum of workspace_floats leaves size_t, and no product of workspace_bytes.
workspace_fits(m, max_batch_tokens) ==
  /\ m.head_num * m.seq_len <= SizeMax
  /\ workspace_floats(m) <= SizeMax
  /\ workspace_floats(m) <= (SizeMax \div max_batch_tokens) \div FloatSize

workspace_bytes(m, max_batch_tokens) == workspace_floats(m) * max_batch_tokens * FloatSize

reserve_bytes(m, max_batch_tokens, total) ==
  larger(larger(MinReserve, total \div 20), workspace_bytes(m, max_batch_tokens))

\* Slip: the memory other programs and the weights use is forgotten.
budget_bytes_of_total(total, free, utilization) == (total * utilization) \div Scale

\* What the target leaves above the memory in use.
budget_bytes(total, free, utilization) ==
  LET target == (total * utilization) \div Scale
  IN IF target > total - free THEN target - (total - free) ELSE 0

\* The blocks that budget and reserve allow; 0 for every error return.
estimate(m, block_size, max_batch_tokens, utilization, total, free) ==
  LET budget    == budget_bytes(total, free, utilization)
      reserve   == reserve_bytes(m, max_batch_tokens, total)
      per_block == paged_kv_cache_size_bytes(m, 1, block_size)
      count     == (budget - reserve) \div per_block
  IN IF \/ block_size <= 0 \/ block_size > m.seq_len \/ max_batch_tokens <= 0
        \/ utilization <= 0 \/ 20 * utilization > 19 * Scale
        \/ ~workspace_fits(m, max_batch_tokens)
        \/ budget <= reserve
        \/ per_block = 0
        \/ count > IntMax
     THEN 0 ELSE count
=============================================================================
