---------------------------- MODULE StartupProofs ----------------------------
(***************************************************************************)
(* One start of the program, for every checkpoint, command line and GPU:    *)
(* the guarded product of the pool's dimensions is exact and the blocks the *)
(* estimator answers are as many as fit (KvSizing); the checkpoint is mapped*)
(* exactly while it is read, every weight and every upload has its host     *)
(* array, and the pool the program sizes itself fits (Startup).             *)
(***************************************************************************)
EXTENDS Startup, TLAPS

-----------------------------------------------------------------------------
(* The arithmetic of the pool *)

\* A product as size_t shows it to a caller who takes 0 for "too large".
Capped(n) == IF n <= SizeMax THEN n ELSE 0

\* The fields the sizing reads, as generate_model_infos leaves them.
Dimensions(m) ==
  /\ m.layer_num \in Nat \ {0} /\ m.kv_dim \in Nat \ {0} /\ m.seq_len \in Nat \ {0}
  /\ m.dim \in Nat /\ m.query_dim \in Nat /\ m.hidden_dim \in Nat /\ m.head_num \in Nat

PoolBytes(m, num_blocks, tokens) ==
  2 * m.layer_num * num_blocks * tokens * m.kv_dim * FloatSize

-----------------------------------------------------------------------------
(* Arithmetic *)

LEMMA ProductOfPositive ==
  ASSUME NEW a \in Nat \ {0}, NEW b \in Nat \ {0}
  PROVE  a * b \in Nat \ {0} /\ a <= a * b
  OBVIOUS

LEMMA QuotientBounds ==
  ASSUME NEW a \in Nat, NEW d \in Nat \ {0}
  PROVE  a \div d \in Nat /\ (a \div d) * d <= a /\ a < ((a \div d) + 1) * d
  OBVIOUS

LEMMA Monotone ==
  ASSUME NEW a \in Nat, NEW b \in Nat, NEW f \in Nat, a <= b
  PROVE  a * f <= b * f
  OBVIOUS

LEMMA Between ==
  ASSUME NEW b \in Nat, NEW f \in Nat \ {0}, NEW q \in Nat, NEW n \in Nat,
         q * f <= n, n < (q + 1) * f
  PROVE  b > q <=> b * f > n
<1>1. b * f \in Nat /\ q * f \in Nat /\ (q + 1) * f \in Nat
  OBVIOUS
<1>2. CASE b > q
  <2>1. (q + 1) * f <= b * f
    BY <1>2, Monotone
  <2> QED
    BY <1>1, <1>2, <2>1
<1>3. CASE b <= q
  <2>1. b * f <= q * f
    BY <1>3, Monotone
  <2> QED
    BY <1>1, <1>3, <2>1
<1> QED
  BY <1>2, <1>3

LEMMA QuotientGuards ==
  ASSUME NEW b \in Nat, NEW f \in Nat \ {0}
  PROVE  b > SizeMax \div f <=> b * f > SizeMax
  BY QuotientBounds, Between, SizingAssumption

\* One turn of the loop keeps the product exact, or says that it is not.
LEMMA TimesExact ==
  ASSUME NEW b \in Nat, NEW f \in Nat \ {0}
  PROVE  times(b, f) = Capped(b * f)
<1>1. b * f \in Nat /\ SizeMax \in Nat
  BY SizingAssumption
<1>2. CASE b > SizeMax \div f
  <2>1. ~(b * f <= SizeMax)
    BY <1>1, <1>2, QuotientGuards
  <2> QED
    BY <1>2, <2>1 DEF times, Capped
<1>3. CASE ~(b > SizeMax \div f)
  <2>1. b * f <= SizeMax
    BY <1>1, <1>3, QuotientGuards
  <2> QED
    BY <1>3, <2>1 DEF times, Capped
<1> QED
  BY <1>2, <1>3

LEMMA TimesOfCapped ==
  ASSUME NEW b \in Nat, NEW f \in Nat \ {0}
  PROVE  times(Capped(b), f) = Capped(b * f)
<1>1. CASE b <= SizeMax
  BY <1>1, TimesExact DEF Capped
<1>2. CASE ~(b <= SizeMax)
  <2>1. times(0, f) = Capped(0 * f)
    BY TimesExact
  <2>2. Capped(0 * f) = 0
    BY SizingAssumption DEF Capped
  <2>3. b * f \in Nat /\ b <= b * f
    OBVIOUS
  <2>4. Capped(b * f) = 0
    BY <1>2, <2>3, SizingAssumption DEF Capped
  <2>5. Capped(b) = 0
    BY <1>2 DEF Capped
  <2> QED
    BY <2>1, <2>2, <2>4, <2>5
<1> QED
  BY <1>1, <1>2

-----------------------------------------------------------------------------
(* The size of the pool *)

(* paged_kv_cache_size_bytes (qwen3.cpp:137): for arguments it accepts the  *)
(* answer is the exact product, or 0 where the product does not fit size_t; *)
(* no intermediate overflow can bring out a wrong, smaller size.            *)
THEOREM SizeExact ==
  ASSUME NEW m, Dimensions(m),
         NEW num_blocks \in Nat \ {0}, NEW tokens \in Nat \ {0}, tokens <= m.seq_len
  PROVE  paged_kv_cache_size_bytes(m, num_blocks, tokens)
           = Capped(PoolBytes(m, num_blocks, tokens))
<1> DEFINE a == 2 * m.layer_num
           b == a * num_blocks
           c == b * tokens
           d == c * m.kv_dim
<1>1. a \in Nat \ {0}
  BY ProductOfPositive DEF Dimensions
<1>2. b \in Nat \ {0}
  BY <1>1, ProductOfPositive
<1>3. c \in Nat \ {0}
  BY <1>2, ProductOfPositive
<1>4. d \in Nat \ {0}
  BY <1>3, ProductOfPositive DEF Dimensions
<1>5. times(2, m.layer_num) = Capped(a)
  BY TimesExact DEF Dimensions
<1>6. times(Capped(a), num_blocks) = Capped(b)
  BY <1>1, TimesOfCapped
<1>7. times(Capped(b), tokens) = Capped(c)
  BY <1>2, TimesOfCapped
<1>8. times(Capped(c), m.kv_dim) = Capped(d)
  BY <1>3, TimesOfCapped DEF Dimensions
<1>9. times(Capped(d), FloatSize) = Capped(d * FloatSize)
  BY <1>4, TimesOfCapped, SizingAssumption
<1>10. paged_kv_cache_size_bytes(m, num_blocks, tokens)
         = times(times(times(times(times(2, m.layer_num), num_blocks), tokens), m.kv_dim), FloatSize)
  BY DEF paged_kv_cache_size_bytes, Dimensions
<1> QED
  BY <1>5, <1>6, <1>7, <1>8, <1>9, <1>10 DEF PoolBytes

-----------------------------------------------------------------------------
(* The estimate *)

LEMMA PoolPositive ==
  ASSUME NEW m, Dimensions(m), NEW num_blocks \in Nat \ {0}, NEW tokens \in Nat \ {0}
  PROVE  PoolBytes(m, num_blocks, tokens) \in Nat \ {0}
<1> DEFINE a == 2 * m.layer_num
           b == a * num_blocks
           c == b * tokens
           d == c * m.kv_dim
<1>1. a \in Nat \ {0}
  BY ProductOfPositive DEF Dimensions
<1>2. b \in Nat \ {0}
  BY <1>1, ProductOfPositive
<1>3. c \in Nat \ {0}
  BY <1>2, ProductOfPositive
<1>4. d \in Nat \ {0}
  BY <1>3, ProductOfPositive DEF Dimensions
<1>5. d * FloatSize \in Nat \ {0}
  BY <1>4, ProductOfPositive, SizingAssumption
<1> QED
  BY <1>5 DEF PoolBytes

LEMMA Associates ==
  ASSUME NEW n \in Nat, NEW a \in Nat, NEW b \in Nat
  PROVE  (n * a) * b = n * (a * b)
  OBVIOUS

LEMMA Regroup ==
  ASSUME NEW a \in Nat, NEW n \in Nat, NEW b \in Nat
  PROVE  (a * n) * b = n * (a * b)
  OBVIOUS

\* A pool of n blocks is n pools of one.
LEMMA PoolScales ==
  ASSUME NEW m, Dimensions(m), NEW n \in Nat, NEW tokens \in Nat \ {0}
  PROVE  PoolBytes(m, n, tokens) = n * PoolBytes(m, 1, tokens)
<1> DEFINE a == 2 * m.layer_num
<1>1. a \in Nat /\ m.kv_dim \in Nat /\ FloatSize \in Nat
  BY SizingAssumption DEF Dimensions
<1>2. (a * n) * tokens = n * (a * tokens) /\ a * tokens \in Nat
  BY <1>1, Regroup
<1> DEFINE c == a * tokens
<1> HIDE DEF a, c
<1>3. (n * c) * m.kv_dim = n * (c * m.kv_dim) /\ c * m.kv_dim \in Nat
  BY <1>1, <1>2, Associates DEF c
<1> DEFINE d == c * m.kv_dim
<1>4. (n * d) * FloatSize = n * (d * FloatSize)
  BY <1>1, <1>3, Associates
<1>5. PoolBytes(m, n, tokens) = n * (d * FloatSize)
  BY <1>2, <1>3, <1>4 DEF PoolBytes, a, c
<1>6. PoolBytes(m, 1, tokens) = d * FloatSize
  <2>1. a * 1 = a
    BY <1>1
  <2> QED
    BY <2>1 DEF PoolBytes, a, c
<1> QED
  BY <1>5, <1>6

LEMMA ReserveType ==
  ASSUME NEW m, Dimensions(m), NEW max_batch_tokens \in Nat, NEW total \in Nat
  PROVE  /\ reserve_bytes(m, max_batch_tokens, total) \in Nat
         /\ workspace_bytes(m, max_batch_tokens) <= reserve_bytes(m, max_batch_tokens, total)
         /\ MinReserve <= reserve_bytes(m, max_batch_tokens, total)
<1>1. workspace_floats(m) \in Nat
  <2>1. m.head_num * m.seq_len \in Nat
    BY DEF Dimensions
  <2> QED
    BY <2>1 DEF workspace_floats, Dimensions
<1>2. workspace_floats(m) * max_batch_tokens \in Nat
  BY <1>1
<1>3. workspace_bytes(m, max_batch_tokens) \in Nat
  BY <1>2, SizingAssumption DEF workspace_bytes
<1>4. total \div 20 \in Nat
  OBVIOUS
<1> QED
  BY <1>3, <1>4, SizingAssumption DEF reserve_bytes, larger

\* A budget is what the target leaves above the memory in use.
LEMMA BudgetSplits ==
  ASSUME NEW total \in Nat, NEW free \in 0..total, NEW utilization \in Nat,
         budget_bytes(total, free, utilization) > 0
  PROVE  /\ budget_bytes(total, free, utilization) \in Nat
         /\ (total - free) + budget_bytes(total, free, utilization) = (total * utilization) \div Scale
<1>1. (total * utilization) \div Scale \in Nat
  <2>1. total * utilization \in Nat
    OBVIOUS
  <2> QED
    BY <2>1, QuotientBounds, SizingAssumption
<1> QED
  BY <1>1 DEF budget_bytes

\* utilization / Scale is at most 0.95, so the target is no more than the GPU has.
LEMMA TargetWithinTotal ==
  ASSUME NEW total \in Nat, NEW utilization \in Nat, 20 * utilization <= 19 * Scale
  PROVE  (total * utilization) \div Scale <= total
<1> DEFINE t == (total * utilization) \div Scale
<1>1. utilization <= Scale
  BY SizingAssumption
<1>2. total * utilization <= total * Scale
  BY <1>1, SizingAssumption
<1>3. total * utilization \in Nat
  OBVIOUS
<1>4. t \in Nat /\ t * Scale <= total * utilization
  BY <1>3, QuotientBounds, SizingAssumption
<1>5. t * Scale <= total * Scale
  <2>1. t * Scale \in Nat /\ total * Scale \in Nat
    BY <1>4, SizingAssumption
  <2> HIDE DEF t
  <2> QED
    BY <1>2, <1>3, <1>4, <2>1
<1>6. ASSUME t > total PROVE FALSE
  <2>1. (total + 1) * Scale <= t * Scale
    BY <1>4, <1>6, Monotone, SizingAssumption
  <2> HIDE DEF t
  <2>2. (total + 1) * Scale > total * Scale
    BY SizingAssumption
  <2> QED
    BY <1>4, <1>5, <2>1, <2>2, SizingAssumption
<1> QED
  BY <1>4, <1>6

(* estimate_paged_kv_cache_blocks (qwen3.cpp:80): an answer other than an   *)
(* error fits int32_t; the pool of that many blocks, the memory in use and  *)
(* the reserve are within the target, which is no more than the GPU has;    *)
(* one block more is not; and the size the pool is then allocated with is   *)
(* the exact product, since it fits size_t.                                 *)
THEOREM EstimateFits ==
  ASSUME NEW m, Dimensions(m),
         NEW tokens \in Nat, NEW max_batch_tokens \in Nat, NEW utilization \in Nat,
         NEW total \in 0..SizeMax, NEW free \in 0..total,
         NEW count, count = estimate(m, tokens, max_batch_tokens, utilization, total, free),
         count # 0
  PROVE  LET used    == total - free
             reserve == reserve_bytes(m, max_batch_tokens, total)
             target  == (total * utilization) \div Scale
             one     == paged_kv_cache_size_bytes(m, 1, tokens)
         IN /\ count \in 1..IntMax
            /\ used + reserve + count * one <= target
            /\ target <= total
            /\ target < used + reserve + (count + 1) * one
            /\ paged_kv_cache_size_bytes(m, count, tokens) = count * one
<1> DEFINE used    == total - free
           reserve == reserve_bytes(m, max_batch_tokens, total)
           target  == (total * utilization) \div Scale
           one     == paged_kv_cache_size_bytes(m, 1, tokens)
           budget  == budget_bytes(total, free, utilization)
<1>1. /\ tokens \in Nat \ {0} /\ tokens <= m.seq_len
      /\ max_batch_tokens \in Nat \ {0}
      /\ 20 * utilization <= 19 * Scale
      /\ ~(budget <= reserve) /\ one # 0
      /\ count = (budget - reserve) \div one
      /\ ~(count > IntMax)
  BY SizingAssumption DEF estimate, Dimensions
<1>2. total \in Nat /\ SizeMax \in Nat
  BY SizingAssumption
<1>3. reserve \in Nat
  BY <1>2, ReserveType
<1>4. target \in Nat
  <2>1. total * utilization \in Nat
    BY <1>2
  <2> QED
    BY <2>1, QuotientBounds, SizingAssumption
<1>5. budget \in Nat
  BY <1>2, <1>4 DEF budget_bytes
<1>6. used \in Nat /\ used + budget = target
  BY <1>1, <1>2, <1>3, <1>5, BudgetSplits
<1>7. target <= total
  BY <1>1, <1>2, TargetWithinTotal
<1>8. one = Capped(PoolBytes(m, 1, tokens)) /\ PoolBytes(m, 1, tokens) \in Nat \ {0}
  <2>1. 1 \in Nat \ {0} /\ tokens \in Nat \ {0} /\ tokens <= m.seq_len
    BY <1>1
  <2> HIDE <1>1
  <2>2. paged_kv_cache_size_bytes(m, 1, tokens) = Capped(PoolBytes(m, 1, tokens))
    BY <2>1, SizeExact
  <2>3. PoolBytes(m, 1, tokens) \in Nat \ {0}
    BY <2>1, PoolPositive
  <2> QED
    BY <2>2, <2>3
<1>10. one \in Nat \ {0} /\ one = PoolBytes(m, 1, tokens)
  BY <1>1, <1>8 DEF Capped
<1> HIDE DEF used, reserve, target, one, budget
<1>11. budget - reserve \in Nat
  BY <1>1, <1>3, <1>5
<1>12. count \in Nat /\ count * one <= budget - reserve /\ budget - reserve < (count + 1) * one
  BY <1>1, <1>10, <1>11, QuotientBounds
<1>13. count \in 1..IntMax
  BY <1>1, <1>12, SizingAssumption
<1>14. count * one \in Nat /\ (count + 1) * one \in Nat
  BY <1>10, <1>12
<1>15. used + reserve + count * one <= target /\ target < used + reserve + (count + 1) * one
  BY <1>3, <1>4, <1>5, <1>6, <1>12, <1>14
<1>16. PoolBytes(m, count, tokens) = count * one
  BY <1>1, <1>10, <1>12, PoolScales
<1>17. count * one <= SizeMax
  BY <1>2, <1>3, <1>4, <1>6, <1>7, <1>14, <1>15
<1>18. paged_kv_cache_size_bytes(m, count, tokens) = count * one
  BY <1>1, <1>13, <1>16, <1>17, SizeExact, SizingAssumption DEF Capped
<1> QED
  BY <1>7, <1>13, <1>15, <1>18 DEF used, reserve, target, one, budget

-----------------------------------------------------------------------------
(* The steps of a start *)

\* The steps before the dimensions are known, and those with a model.
EarlyPcs == {"arguments", "device", "tokenizer", "open", "map", "header"}
ModelPcs == {"load", "layers", "move", "buffers", "rope", "limits", "serve"}

-----------------------------------------------------------------------------
(* The mapping of the checkpoint *)

MapInv ==
  /\ fd \/ mapped \/ header # {} => pc \in {"map", "header", "load", "layers"}
  /\ pc = "map" => fd
  /\ pc \in {"header", "load"} => fd /\ mapped

\* The file is open and mapped while the layers are built from it and at no other
\* time, whatever fails.
THEOREM MappingIsScoped == Spec => []MappingScoped
<1>1. Init => MapInv
  BY DEF Init, MapInv
<1>2. MapInv /\ [Next]_vars => MapInv'
  <2> SUFFICES ASSUME MapInv, [Next]_vars PROVE MapInv'
    OBVIOUS
  <2> USE DEF MapInv, files, Goto, Return, Abort, release_safetensors_map
  <2>1. CASE RunInference \/ SelectDevice \/ CreateEncodeLayer
    BY <2>1 DEF RunInference, SelectDevice, CreateEncodeLayer
  <2>2. CASE OpenFile \/ MapFile
    BY <2>2 DEF OpenFile, MapFile
  <2>3. CASE ReadHeader
    <3>1. \/ pc' = "load" /\ UNCHANGED <<fd, mapped>>
          \/ pc' = "destroy" /\ fd' = FALSE /\ mapped' = FALSE /\ header' = {}
      BY <2>3 DEF ReadHeader
    <3> QED
      BY <2>3, <3>1 DEF ReadHeader
  <2>4. CASE LoadWeight
    <3>1. pc = "load" /\ pc' \in {"load", "layers"} /\ UNCHANGED <<fd, mapped, header>>
      BY <2>4 DEF LoadWeight
    <3> QED
      BY <3>1
  <2>5. CASE CreateLayers
    BY <2>5 DEF CreateLayers
  <2>6. CASE MoveWeight \/ TieHead \/ InitMem \/ RopeCache
    <3>1. /\ pc \in {"move", "buffers", "rope"}
          /\ pc' \in {"move", "buffers", "rope", "limits", "destroy", "exit"}
          /\ UNCHANGED <<fd, mapped, header>>
      BY <2>6 DEF MoveWeight, TieHead, InitMem, RopeCache
    <3> QED
      BY <3>1
  <2>7. CASE SizePool \/ AddRequest \/ FinishServing
    <3>1. /\ pc \in {"limits", "serve"} /\ pc' \in {"serve", "destroy"}
          /\ UNCHANGED <<fd, mapped, header>>
      BY <2>7 DEF SizePool, AddRequest, FinishServing
    <3> QED
      BY <3>1
  <2>8. CASE Destroy
    BY <2>8 DEF Destroy
  <2>9. CASE Upload \/ Exited \/ UNCHANGED vars
    BY <2>9 DEF Upload, Exited, vars
  <2> QED
    BY <2>1, <2>2, <2>3, <2>4, <2>5, <2>6, <2>7, <2>8, <2>9 DEF Next
<1>3. MapInv => MappingScoped
  BY DEF MapInv, MappingScoped
<1> QED
  BY <1>1, <1>2, <1>3, PTL DEF Spec

-----------------------------------------------------------------------------
(* The dimensions and the size of the pool *)

LEMMA ModelDimensions ==
  ASSUME NEW c \in Checkpoints, NEW d, d = context(c), command.max_seq_len \in Int,
         valid_dimensions(d)
  PROVE  Dimensions(model_infos(d))
<1>1. /\ d.layer_num = c.layer_num /\ d.head_num = c.head_num /\ d.dim = c.dim
      /\ d.kv_head_num = c.kv_head_num /\ d.head_dim = c.head_dim
      /\ d.hidden_dim = c.hidden_dim /\ d.seq_len \in Int
  BY CheckpointAssumption DEF context
<1>2. /\ d.layer_num \in Nat \ {0} /\ d.head_num \in Nat \ {0} /\ d.dim \in Nat
      /\ d.kv_head_num \in Nat \ {0} /\ d.head_dim \in Nat \ {0} /\ d.hidden_dim \in Nat
      /\ d.seq_len \in Nat \ {0}
  BY <1>1, CheckpointAssumption DEF valid_dimensions
<1>3. /\ d.kv_head_num * d.head_dim \in Nat \ {0}
      /\ d.head_num * d.head_dim \in Nat \ {0}
  BY <1>2, ProductOfPositive
<1> QED
  BY <1>2, <1>3 DEF Dimensions, model_infos

\* A pool is sized only once its model is complete; its size suits it.
SizeInv ==
  /\ command \in Commands /\ config \in Checkpoints
  /\ pc \notin {"arguments", "exit"} => command.max_seq_len > 0
  /\ pc \in ModelPcs => Dimensions(model)
  /\ pool # 0 => pc \in {"serve", "destroy"}
  /\ PoolFits

LEMMA PoolOnCpu ==
  ASSUME NEW n \in Nat \ {0}, NEW b \in Nat \ {0}
  PROVE  ((n + b - 1) \div b) * b >= n
<1> DEFINE q == (n + b - 1) \div b
<1>1. q \in Nat /\ n + b - 1 < (q + 1) * b
  BY QuotientBounds, n + b - 1 \in Nat
<1>2. (q + 1) * b = q * b + b /\ q * b \in Nat
  BY <1>1
<1> QED
  BY <1>1, <1>2

LEMMA SizedPoolFits ==
  ASSUME SizeInv, pc = "limits", SizePool
  PROVE  PoolFits'
<1> SUFFICES ASSUME pool' > 0, command.kv_blocks = 0
             PROVE  PoolFits'
  BY DEF SizePool, Goto, Return, PoolFits
<1>1. UNCHANGED <<command, model>>
  BY DEF SizePool, Goto, Return, weights
<1>2. /\ Dimensions(model) /\ command.max_seq_len \in Nat \ {0} /\ pool = 0
  BY CommandAssumption DEF SizeInv, ModelPcs
<1>3. /\ block_size \in Nat \ {0} /\ max_num_batched_tokens \in Nat \ {0}
  BY <1>2, OptionAssumption DEF block_size, max_num_batched_tokens, smaller
<1>4. PICK g \in Gpus : /\ gpu' = g /\ pool' = num_kv_blocks(g)
                        /\ paged_kv_cache_size_bytes(model, pool', block_size) # 0
  BY <1>2 DEF SizePool, Goto, Return
<1>5. pool' \in Int => pool' \in Nat \ {0}
  OBVIOUS
<1>6. UNCHANGED <<block_size, max_num_batched_tokens>>
  BY <1>1 DEF block_size, max_num_batched_tokens
<1>7. CASE command.device = "cuda"
  <2> DEFINE used    == g.total - g.free
             reserve == reserve_bytes(model, max_num_batched_tokens, g.total)
             bytes   == paged_kv_cache_size_bytes(model, pool', block_size)
  <2>1. pool' = estimate(model, block_size, max_num_batched_tokens, Utilization, g.total, g.free)
    BY <1>4, <1>7 DEF num_kv_blocks
  <2>2. g.total \in 0..SizeMax /\ g.free \in 0..g.total
    BY GpuAssumption
  <2>3. /\ pool' \in 1..IntMax
        /\ used + reserve + pool' * paged_kv_cache_size_bytes(model, 1, block_size)
             <= (g.total * Utilization) \div Scale
        /\ bytes = pool' * paged_kv_cache_size_bytes(model, 1, block_size)
    BY <1>2, <1>3, <2>1, <2>2, EstimateFits, OptionAssumption
  <2>4. block_size <= model.seq_len
    BY <1>2, <1>3, <1>4 DEF paged_kv_cache_size_bytes, Dimensions
  <2>5. bytes = PoolBytes(model, pool', block_size)
    BY <1>2, <1>3, <1>4, <2>3, <2>4, SizeExact, SizingAssumption DEF Capped
  <2>6. used + reserve + PoolBytes(model, pool', block_size) <= (g.total * Utilization) \div Scale
    BY <2>3, <2>5
  <2>7. PoolBytes(model, pool', block_size) \in Nat /\ used \in Nat /\ reserve \in Nat
    <3>1. pool' \in Nat \ {0} /\ g.total \in Nat /\ used \in Nat
      BY <2>2, <2>3, SizingAssumption
    <3> QED
      BY <1>2, <1>3, <3>1, PoolPositive, ReserveType
  <2>8. used + PoolBytes(model, pool', block_size) + reserve <= (g.total * Utilization) \div Scale
    BY <2>6, <2>7
  <2> QED
    BY <1>1, <1>4, <1>6, <1>7, <2>3, <2>8 DEF PoolFits, PoolBytes
<1>8. CASE command.device # "cuda"
  <2>1. pool' = (command.max_seq_len + block_size - 1) \div block_size
    BY <1>4, <1>8 DEF num_kv_blocks
  <2>2. pool' * block_size >= command.max_seq_len
    BY <1>2, <1>3, <2>1, PoolOnCpu
  <2> QED
    BY <1>1, <1>6, <1>8, <2>2 DEF PoolFits
<1> QED
  BY <1>7, <1>8

\* PoolFits is about nothing but these.
LEMMA PoolFitsKept ==
  ASSUME PoolFits, UNCHANGED <<pool, gpu, command, model>>
  PROVE  PoolFits'
BY DEF PoolFits, block_size, max_num_batched_tokens, smaller

LEMMA NoPoolFits ==
  ASSUME pool' = 0
  PROVE  PoolFits'
BY DEF PoolFits

LEMMA SizeInvStep ==
  ASSUME SizeInv, [Next]_vars
  PROVE  SizeInv'
<1> USE DEF Goto, Return, Abort, ModelPcs
<1>1. command' = command /\ config' = config
  BY DEF Next, vars, files, RunInference, SelectDevice, CreateEncodeLayer, OpenFile, MapFile,
         ReadHeader, LoadWeight, CreateLayers, MoveWeight, TieHead, InitMem, Upload, RopeCache,
         SizePool, AddRequest, FinishServing, Destroy, Exited, release_safetensors_map
<1>2. CASE RunInference \/ SelectDevice \/ CreateEncodeLayer \/ OpenFile \/ MapFile
  <2>1. /\ UNCHANGED <<gpu, pool, model>> /\ pc' \notin ModelPcs
        /\ pc = "arguments" /\ pc' # "exit" => command.max_seq_len > 0
        /\ pc \notin {"exit", "serve", "destroy"} /\ (pc = "arguments" \/ pc' # "arguments")
    BY <1>2 DEF RunInference, SelectDevice, CreateEncodeLayer, OpenFile, MapFile, engine
  <2> QED
    BY <1>1, <2>1, PoolFitsKept DEF SizeInv
<1>3. CASE ReadHeader
  <2>1. /\ pc = "header" /\ UNCHANGED <<gpu, pool>>
        /\ \/ pc' = "load" /\ valid_dimensions(context(config)) /\ model' = model_infos(context(config))
           \/ pc' = "destroy"
    BY <1>3 DEF ReadHeader, engine
  <2>2. pc' = "load" => Dimensions(model')
    BY <2>1, ModelDimensions, CommandAssumption DEF SizeInv
  <2>3. pool' = 0
    BY <2>1 DEF SizeInv
  <2> QED
    BY <1>1, <2>1, <2>2, <2>3, NoPoolFits DEF SizeInv
<1>4. CASE LoadWeight \/ CreateLayers \/ MoveWeight \/ TieHead \/ InitMem \/ RopeCache
  <2>1. /\ UNCHANGED <<gpu, pool, model>> /\ pc \in ModelPcs \ {"serve"}
    BY <1>4 DEF LoadWeight, CreateLayers, MoveWeight, TieHead, InitMem, RopeCache, engine
  <2> QED
    BY <1>1, <2>1, PoolFitsKept DEF SizeInv
<1>5. CASE SizePool
  <2>1. /\ UNCHANGED model /\ pc = "limits" /\ pc' \in {"serve", "destroy"}
    BY <1>5 DEF SizePool
  <2> QED
    BY <1>1, <1>5, <2>1, SizedPoolFits DEF SizeInv
<1>6. CASE AddRequest \/ FinishServing
  <2>1. /\ UNCHANGED <<gpu, pool, model>> /\ pc = "serve" /\ pc' \in {"serve", "destroy"}
    BY <1>6 DEF AddRequest, FinishServing, engine
  <2> QED
    BY <1>1, <2>1, PoolFitsKept DEF SizeInv
<1>7. CASE Destroy
  <2>1. pool' = 0 /\ pc' = "exit"
    BY <1>7 DEF Destroy
  <2> QED
    BY <1>1, <2>1, NoPoolFits DEF SizeInv
<1>8. CASE Upload \/ Exited \/ UNCHANGED vars
  <2>1. UNCHANGED <<pc, gpu, pool, model>>
    BY <1>8 DEF Upload, Exited, vars, engine
  <2> QED
    BY <1>1, <2>1, PoolFitsKept DEF SizeInv
<1> QED
  BY <1>2, <1>3, <1>4, <1>5, <1>6, <1>7, <1>8 DEF Next

LEMMA SizeInvariant == Spec => []SizeInv
<1>1. Init => SizeInv
  BY DEF Init, SizeInv, PoolFits, ModelPcs
<1>2. SizeInv /\ [Next]_vars => SizeInv'
  BY SizeInvStep
<1> QED
  BY <1>1, <1>2, PTL DEF Spec

\* The pool that the program sizes itself leaves the reserve free and keeps the GPU
\* below the fraction asked for, on the CPU it holds the longest sequence, for every
\* model, GPU, width of size_t and command line.
THEOREM PoolAlwaysFits == Spec => []PoolFits
<1>1. SizeInv => PoolFits
  BY DEF SizeInv
<1> QED
  BY <1>1, SizeInvariant, PTL

-----------------------------------------------------------------------------
(* The order of the weights *)

LEMMA DecoderWeightNames ==
  ASSUME NEW n \in Nat \ {0}
  PROVE  decoder_weight(n) # LmHead
<1>1. (n - 1) % 11 \in 0..10
  OBVIOUS
<1>2. \A k \in 0..10 : DecoderWeights[k + 1] # "lm_head"
  BY DEF DecoderWeights
<1>3. Len(DecoderWeights) = 11
  BY DEF DecoderWeights
<1> QED
  BY <1>1, <1>2, <1>3 DEF decoder_weight, LmHead

\* Both orders go through the same weights, none of which is the head.
LEMMA Orders ==
  ASSUME model.layer_num \in Nat
  PROVE  /\ DOMAIN load_order = 1..Len(load_order) /\ DOMAIN move_order = 1..Len(move_order)
         /\ Len(load_order) \in Nat /\ Len(load_order) >= 2
         /\ Len(move_order) = Len(load_order)
         /\ load_order[1] = Embedding
         /\ Loaded = {move_order[n] : n \in 1..Len(move_order)}
         /\ LmHead \notin Loaded /\ Embedding \in Loaded
<1> DEFINE k == decoder_count
           decoders == [n \in 1..k |-> decoder_weight(n)]
<1>1. k \in Nat
  BY DEF decoder_count, DecoderWeights
<1>2. decoders \in Seq({decoder_weight(n) : n \in 1..k}) /\ Len(decoders) = k
  BY <1>1
<1> HIDE DEF k, decoders
<1> DEFINE D == {decoder_weight(n) : n \in 1..k} \cup {Embedding, FinalNorm}
<1>3. decoders \in Seq(D) /\ <<Embedding>> \in Seq(D) /\ <<FinalNorm>> \in Seq(D)
      /\ <<Embedding, FinalNorm>> \in Seq(D)
  BY <1>2
<1> HIDE DEF D
<1>4. load_order = (<<Embedding>> \o decoders) \o <<FinalNorm>>
      /\ move_order = <<Embedding, FinalNorm>> \o decoders
  BY DEF load_order, move_order, k, decoders
<1>5. /\ load_order \in Seq(D) /\ Len(load_order) = k + 2
      /\ load_order[1] = Embedding /\ load_order[k + 2] = FinalNorm
      /\ \A n \in 1..k : load_order[n + 1] = decoders[n]
  <2>1. /\ <<Embedding>> \o decoders \in Seq(D) /\ Len(<<Embedding>> \o decoders) = k + 1
        /\ (<<Embedding>> \o decoders)[1] = Embedding
        /\ \A n \in 1..k : (<<Embedding>> \o decoders)[n + 1] = decoders[n]
    BY <1>1, <1>2, <1>3
  <2> DEFINE front == <<Embedding>> \o decoders
  <2> HIDE DEF front
  <2>2. front \in Seq(D) /\ Len(front) = k + 1 /\ front[1] = Embedding
        /\ \A n \in 1..k : front[n + 1] = decoders[n]
    BY <2>1 DEF front
  <2>3. load_order = front \o <<FinalNorm>>
    BY <1>4 DEF front
  <2> QED
    BY <1>1, <1>3, <2>2, <2>3
<1>6. /\ move_order \in Seq(D) /\ Len(move_order) = k + 2
      /\ move_order[1] = Embedding /\ move_order[2] = FinalNorm
      /\ \A n \in 1..k : move_order[n + 2] = decoders[n]
  BY <1>1, <1>2, <1>3, <1>4
<1>7. DOMAIN load_order = 1..k + 2 /\ DOMAIN move_order = 1..k + 2
  BY <1>5, <1>6
<1>8. Loaded = {Embedding, FinalNorm} \cup {decoders[n] : n \in 1..k}
  <2>1. ASSUME NEW i \in 1..k + 2
        PROVE  load_order[i] \in {Embedding, FinalNorm} \cup {decoders[n] : n \in 1..k}
    <3>1. i = 1 \/ i = k + 2 \/ (i - 1 \in 1..k /\ i = (i - 1) + 1)
      BY <1>1
    <3> QED
      BY <1>5, <3>1
  <2>2. \A n \in 1..k : decoders[n] \in Loaded
    <3>1. \A n \in 1..k : n + 1 \in 1..k + 2
      BY <1>1
    <3> QED
      BY <1>5, <1>7, <3>1 DEF Loaded
  <2>3. Embedding \in Loaded /\ FinalNorm \in Loaded
    BY <1>1, <1>5, <1>7 DEF Loaded
  <2> QED
    BY <1>7, <2>1, <2>2, <2>3 DEF Loaded
<1>9. {move_order[n] : n \in 1..k + 2}
        = {Embedding, FinalNorm} \cup {decoders[n] : n \in 1..k}
  <2>1. ASSUME NEW i \in 1..k + 2
        PROVE  move_order[i] \in {Embedding, FinalNorm} \cup {decoders[n] : n \in 1..k}
    <3>1. i = 1 \/ i = 2 \/ (i - 2 \in 1..k /\ i = (i - 2) + 2)
      BY <1>1
    <3> QED
      BY <1>6, <3>1
  <2>2. \A n \in 1..k : n + 2 \in 1..k + 2 /\ move_order[n + 2] = decoders[n]
    BY <1>1, <1>6
  <2>3. 1 \in 1..k + 2 /\ 2 \in 1..k + 2
    BY <1>1
  <2> QED
    BY <1>6, <2>1, <2>2, <2>3
<1>10. LmHead \notin Loaded
  <2>1. \A n \in 1..k : decoders[n] # LmHead
    BY <1>1, DecoderWeightNames DEF decoders
  <2>2. Embedding # LmHead /\ FinalNorm # LmHead
    BY DEF Embedding, FinalNorm, LmHead
  <2> QED
    BY <1>8, <2>1, <2>2
<1>11. Loaded = {move_order[n] : n \in 1..k + 2} /\ Embedding \in Loaded
  BY <1>8, <1>9
<1>12. Len(load_order) = k + 2 /\ Len(move_order) = k + 2 /\ k + 2 \in Nat /\ k + 2 >= 2
  BY <1>1, <1>5, <1>6
<1>13. {move_order[n] : n \in 1..Len(move_order)} = {move_order[n] : n \in 1..k + 2}
  BY <1>12
<1> QED
  BY <1>5, <1>7, <1>10, <1>11, <1>12, <1>13

-----------------------------------------------------------------------------
(* The weights and their arrays *)

HostComplete ==
  /\ \A w \in Loaded : weight[w] = on_host(w)
  /\ weight[LmHead] = on_host(Embedding)

DeviceComplete ==
  /\ \A w \in Loaded : weight[w] = on_device(w)
  /\ weight[LmHead] = on_device(Embedding)

\* The upload of w is done or queued.
Uploaded(w, done, queue) == w \in done \/ \E n \in DOMAIN queue : queue[n] = w

\* Views of host arrays and queued uploads have their arrays.
Backed ==
  /\ \A w \in DOMAIN weight : weight[w].at = "cpu" => weight[w].array \in storage
  /\ stream \in Seq(storage)

BeforeLoading ==
  /\ weight = [w \in {LmHead} |-> Nowhere]
  /\ stream = <<>> /\ ~failed /\ next = 1

Loading ==
  /\ stream = <<>> /\ next \in 1..Len(load_order)
  /\ ~failed => \A n \in 1..next - 1 : weight[load_order[n]] = on_host(load_order[n])

LoadEnded == stream = <<>> /\ next = 1 /\ (~failed => HostComplete)

Moving ==
  /\ command.device = "cuda"
  /\ next \in 1..Len(move_order) + 1
  /\ weight[LmHead] = on_host(Embedding)
  /\ Loaded \subseteq storage
  /\ \A n \in 1..next - 1 :
       /\ weight[move_order[n]] = on_device(move_order[n])
       /\ Uploaded(move_order[n], resident, stream)

Placed ==
  \/ command.device # "cuda" /\ HostComplete
  \/ command.device = "cuda" /\ DeviceComplete /\ \A w \in Loaded : Uploaded(w, resident, stream)

Ready ==
  \/ command.device = "cpu" /\ HostComplete
  \/ command.device = "cuda" /\ DeviceComplete /\ Loaded \subseteq resident

WeightInv ==
  /\ pc \in ModelPcs => model.layer_num \in Nat /\ DOMAIN weight = Layers
  /\ pc # "exit" => Backed
  /\ pc \in EarlyPcs => BeforeLoading
  /\ pc = "load" => Loading
  /\ pc = "layers" => LoadEnded
  /\ pc = "move" => Moving
  /\ pc \in {"buffers", "rope"} => Placed
  /\ pc \in {"limits", "serve"} => Ready

LEMMA Places ==
  ASSUME NEW w
  PROVE  /\ on_host(w).at = "cpu" /\ on_host(w).array = w
         /\ on_device(w).at = "cuda" /\ on_device(w).array = w
BY DEF on_host, on_device

\* A complete model has all its weights in one place.
LEMMA CompletePlace ==
  /\ HostComplete => \A w \in Layers : weight[w].at = "cpu"
  /\ DeviceComplete => \A w \in Layers : weight[w].at = "cuda"
<1>1. \A w \in Layers : w \in Loaded \/ w = LmHead
  BY DEF Layers
<1>2. ASSUME HostComplete, NEW w \in Layers PROVE weight[w].at = "cpu"
  <2>1. \E v : weight[w] = on_host(v)
    BY <1>1, <1>2 DEF HostComplete
  <2> QED
    BY <2>1, Places
<1>3. ASSUME DeviceComplete, NEW w \in Layers PROVE weight[w].at = "cuda"
  <2>1. \E v : weight[w] = on_device(v)
    BY <1>1, <1>3 DEF DeviceComplete
  <2> QED
    BY <2>1, Places
<1> QED
  BY <1>2, <1>3

LEMMA LoadOrderLength ==
  model.layer_num \in Nat => Len(load_order) \in Nat /\ Len(load_order) >= 2
BY Orders

LEMMA WeightsAreBacked == WeightInv => WeightsBacked
<1> SUFFICES ASSUME WeightInv, pc # "exit" PROVE WeightsBacked
  BY DEF WeightsBacked
<1>1. \A n \in DOMAIN stream : stream[n] \in storage
  BY DEF WeightInv, Backed
<1>2. ASSUME pc \in {"limits", "serve"}
      PROVE  /\ \A w \in Layers : /\ weight[w].at = command.device
                                  /\ command.device = "cuda" => weight[w].array \in resident
             /\ weight[LmHead] = weight[Embedding]
  <2>1. Ready /\ Embedding \in Loaded
    BY <1>2, Orders DEF WeightInv, ModelPcs
  <2>2. CASE command.device = "cpu" /\ HostComplete
    <3>1. weight[LmHead] = weight[Embedding]
      BY <2>1, <2>2 DEF HostComplete
    <3> QED
      BY <2>2, <3>1, CompletePlace
  <2>3. CASE command.device = "cuda" /\ DeviceComplete /\ Loaded \subseteq resident
    <3>1. weight[LmHead] = weight[Embedding]
      BY <2>1, <2>3 DEF DeviceComplete
    <3>2. ASSUME NEW w \in Layers PROVE weight[w].array \in resident
      <4>1. \E v \in Loaded : weight[w] = on_device(v)
        BY <2>1, <2>3 DEF DeviceComplete, Layers
      <4> QED
        BY <2>3, <4>1, Places
    <3> QED
      BY <2>3, <3>1, <3>2, CompletePlace
  <2> QED
    BY <2>1, <2>2, <2>3 DEF Ready
<1> QED
  BY <1>1, <1>2 DEF WeightInv, Backed, WeightsBacked

\* The orders depend on the model only.
LEMMA SameOrders ==
  ASSUME UNCHANGED model
  PROVE  UNCHANGED <<load_order, move_order, Loaded, Layers>>
BY DEF load_order, move_order, decoder_count, Loaded, Layers

\* Nothing a stage says changes while these do not.
LEMMA WeightInvKept ==
  ASSUME WeightInv, UNCHANGED <<pc, command, model, next, failed, weight, storage, stream, resident>>
  PROVE  WeightInv'
<1>1. UNCHANGED <<load_order, move_order, Loaded, Layers>>
  BY SameOrders
<1> QED
  BY <1>1 DEF WeightInv, Backed, BeforeLoading, Loading, LoadEnded, Moving, Placed, Ready,
              HostComplete, DeviceComplete

LEMMA LoadWeightStep ==
  ASSUME WeightInv, LoadWeight
  PROVE  WeightInv'
<1> DEFINE w == load_order[next]
           last == next = Len(load_order)
<1>1. /\ pc = "load" /\ UNCHANGED <<command, model, stream, resident>>
      /\ failed' = (failed \/ w \notin header)
      /\ storage' = IF w \in header THEN storage \cup {w} ELSE storage
      /\ weight' = [v \in DOMAIN weight |->
                      IF v = w /\ w \in header THEN on_host(w)
                      ELSE IF v = LmHead /\ last /\ ~failed' THEN on_host(Embedding)
                      ELSE weight[v]]
      /\ IF last \/ (failed' /\ checks_after(next)) THEN pc' = "layers" /\ next' = 1
         ELSE pc' = pc /\ next' = next + 1
  BY DEF LoadWeight, Goto
<1>2. /\ model.layer_num \in Nat /\ DOMAIN weight = Layers /\ Backed /\ Loading
  BY <1>1 DEF WeightInv, ModelPcs
<1>3. UNCHANGED <<load_order, move_order, Loaded, Layers>>
  BY <1>1, SameOrders
<1>4. /\ DOMAIN load_order = 1..Len(load_order) /\ Len(load_order) \in Nat
      /\ load_order[1] = Embedding /\ LmHead \notin Loaded /\ next \in 1..Len(load_order)
      /\ Len(load_order) >= 2
  BY <1>2, Orders DEF Loading
<1>5. w \in Loaded /\ \A n \in 1..Len(load_order) : load_order[n] \in Loaded /\ load_order[n] \in Layers
  BY <1>4 DEF Loaded, Layers
<1>6. ~failed' => /\ ~failed /\ w \in header
                  /\ \A n \in 1..next : weight'[load_order[n]] = on_host(load_order[n])
  <2> SUFFICES ASSUME ~failed', NEW n \in 1..next
               PROVE  weight'[load_order[n]] = on_host(load_order[n])
    BY <1>1
  <2>1. n \in 1..Len(load_order) /\ (n = next \/ n \in 1..next - 1)
    BY <1>4
  <2>2. load_order[n] \in Layers /\ load_order[n] # LmHead
    BY <1>4, <1>5, <2>1
  <2>3. n \in 1..next - 1 => weight[load_order[n]] = on_host(load_order[n])
    BY <1>1, <1>2 DEF Loading
  <2> QED
    BY <1>1, <1>2, <2>1, <2>2, <2>3
<1>7. ~failed' /\ last => Embedding \in storage
  <2> SUFFICES ASSUME ~failed', last PROVE Embedding \in storage
    OBVIOUS
  <2>1. 1 \in 1..next - 1
    BY <1>4
  <2>2. weight[load_order[1]] = on_host(load_order[1])
    BY <1>1, <1>2, <2>1 DEF Loading
  <2>3. load_order[1] \in Layers
    BY <1>4, <1>5
  <2> QED
    BY <1>2, <1>4, <2>2, <2>3 DEF Backed, on_host
<1>8. Backed'
  <2>1. \A v \in DOMAIN weight' : weight'[v].at = "cpu" => weight'[v].array \in storage'
    BY <1>1, <1>2, <1>7 DEF Backed, on_host
  <2>2. stream' \in Seq(storage')
    BY <1>1, <1>2 DEF Loading
  <2> QED
    BY <2>1, <2>2 DEF Backed
<1>9. CASE pc' = "load"
  <2>1. next' = next + 1 /\ next' \in 1..Len(load_order)
    BY <1>1, <1>4, <1>9
  <2>2. 1..next' - 1 = 1..next
    BY <1>4, <2>1
  <2>3. stream' = <<>> /\ next' \in 1..Len(load_order')
    BY <1>1, <1>2, <1>3, <2>1 DEF Loading
  <2>4. ~failed' => \A n \in 1..next' - 1 : weight'[load_order'[n]] = on_host(load_order'[n])
    BY <1>3, <1>6, <2>2
  <2>5. Loading'
    BY <2>3, <2>4 DEF Loading
  <2> QED
    BY <1>1, <1>2, <1>3, <1>8, <1>9, <2>5 DEF WeightInv, ModelPcs, EarlyPcs
<1>10. CASE pc' = "layers"
  <2>1. ~failed' => last
    BY <1>1, <1>10
  <2>2. ASSUME ~failed' PROVE HostComplete'
    <3>1. \A v \in Loaded : weight'[v] = on_host(v)
      BY <1>4, <1>6, <2>1, <2>2 DEF Loaded
    <3>2. weight'[LmHead] = on_host(Embedding)
      BY <1>1, <1>2, <1>4, <1>5, <2>1, <2>2 DEF Layers
    <3> QED
      BY <1>3, <3>1, <3>2 DEF HostComplete
  <2>3. LoadEnded'
    BY <1>1, <1>2, <1>10, <2>2 DEF LoadEnded, Loading
  <2> QED
    BY <1>1, <1>2, <1>3, <1>8, <1>10, <2>3 DEF WeightInv, ModelPcs, EarlyPcs
<1> QED
  BY <1>1, <1>9, <1>10

LEMMA MoveWeightStep ==
  ASSUME WeightInv, MoveWeight
  PROVE  WeightInv'
<1> DEFINE w == move_order[next]
<1>1. /\ pc = "move" /\ next <= Len(move_order)
      /\ UNCHANGED <<command, model, failed, storage, resident>>
      /\ \/ /\ pc' = pc /\ next' = next + 1
            /\ weight' = [weight EXCEPT ![w] = on_device(w)] /\ stream' = Append(stream, w)
         \/ pc' = "exit" /\ UNCHANGED <<weight, stream, next>>
  BY DEF MoveWeight, Abort
<1>2. /\ model.layer_num \in Nat /\ DOMAIN weight = Layers /\ Backed /\ Moving
  BY <1>1 DEF WeightInv, ModelPcs
<1>3. UNCHANGED <<load_order, move_order, Loaded, Layers>>
  BY <1>1, SameOrders
<1>4. CASE pc' = "exit"
  BY <1>1, <1>4 DEF WeightInv, ModelPcs, EarlyPcs
<1>5. CASE pc' = pc
  <2>1. /\ Len(move_order) \in Nat /\ next \in 1..Len(move_order)
        /\ LmHead \notin Loaded /\ \A n \in 1..Len(move_order) : move_order[n] \in Loaded
    BY <1>1, <1>2, Orders DEF Moving
  <2>2. w \in Loaded /\ w \in Layers /\ w # LmHead /\ w \in storage
    BY <1>2, <2>1 DEF Layers, Moving
  <2>3. /\ weight' = [weight EXCEPT ![w] = on_device(w)] /\ stream' = Append(stream, w)
        /\ next' = next + 1
    BY <1>1, <1>5
  <2>4. Backed'
    BY <1>1, <1>2, <2>2, <2>3 DEF Backed, on_device
  <2>5. weight'[LmHead] = on_host(Embedding) /\ DOMAIN weight' = Layers
    BY <1>2, <2>2, <2>3 DEF Moving
  <2>6. \A v : Uploaded(v, resident, stream) => Uploaded(v, resident, stream')
    <3>1. stream \in Seq(storage)
      BY <1>2 DEF Backed
    <3>2. \A n \in DOMAIN stream : n \in DOMAIN stream' /\ stream'[n] = stream[n]
      BY <2>2, <2>3, <3>1
    <3> QED
      BY <3>2 DEF Uploaded
  <2>7. Uploaded(w, resident, stream')
    <3>1. stream \in Seq(storage)
      BY <1>2 DEF Backed
    <3>2. Len(stream) + 1 \in DOMAIN stream' /\ stream'[Len(stream) + 1] = w
      BY <2>2, <2>3, <3>1
    <3> QED
      BY <3>2 DEF Uploaded
  <2>8. ASSUME NEW n \in 1..next
        PROVE  /\ weight'[move_order[n]] = on_device(move_order[n])
               /\ Uploaded(move_order[n], resident, stream')
    <3>1. n = next \/ n \in 1..next - 1
      BY <2>1
    <3>2. CASE n = next
      BY <1>2, <2>2, <2>3, <2>7, <3>2
    <3>3. CASE n \in 1..next - 1
      <4>1. /\ weight[move_order[n]] = on_device(move_order[n])
            /\ Uploaded(move_order[n], resident, stream)
        BY <1>2, <3>3 DEF Moving
      <4>2. move_order[n] \in Layers
        BY <2>1, <3>3 DEF Layers
      <4> QED
        BY <1>2, <2>3, <2>6, <4>1, <4>2
    <3> QED
      BY <3>1, <3>2, <3>3
  <2>9. 1..next' - 1 = 1..next /\ next' \in 1..Len(move_order) + 1
    BY <2>1, <2>3
  <2>10. Moving'
    <3>1. \A n \in 1..next' - 1 : /\ weight'[move_order'[n]] = on_device(move_order'[n])
                                  /\ Uploaded(move_order'[n], resident', stream')
      BY <1>1, <1>3, <2>8, <2>9
    <3> QED
      BY <1>1, <1>2, <1>3, <2>5, <2>9, <3>1 DEF Moving
  <2> QED
    BY <1>1, <1>2, <1>3, <1>5, <2>4, <2>5, <2>10 DEF WeightInv, ModelPcs, EarlyPcs
<1> QED
  BY <1>1, <1>4, <1>5

LEMMA TieHeadStep ==
  ASSUME WeightInv, TieHead
  PROVE  WeightInv'
<1>1. /\ pc = "move" /\ next > Len(move_order) /\ pc' = "buffers"
      /\ weight' = [weight EXCEPT ![LmHead] = weight[Embedding]]
      /\ UNCHANGED <<command, model, next, failed, storage, stream, resident>>
  BY DEF TieHead, Goto, tied
<1>2. /\ model.layer_num \in Nat /\ DOMAIN weight = Layers /\ Backed /\ Moving
  BY <1>1 DEF WeightInv, ModelPcs
<1>3. UNCHANGED <<load_order, move_order, Loaded, Layers>>
  BY <1>1, SameOrders
<1>4. /\ Len(move_order) \in Nat /\ Loaded = {move_order[n] : n \in 1..Len(move_order)}
      /\ LmHead \notin Loaded /\ Embedding \in Loaded
  BY <1>2, Orders
<1>5. \A n \in 1..Len(move_order) : n \in 1..next - 1
  BY <1>1, <1>2, <1>4 DEF Moving
<1>6. \A w \in Loaded : weight[w] = on_device(w) /\ Uploaded(w, resident, stream)
  BY <1>2, <1>4, <1>5 DEF Moving
<1>7. /\ \A w \in Loaded : weight'[w] = on_device(w)
      /\ weight'[LmHead] = on_device(Embedding) /\ DOMAIN weight' = Layers
  BY <1>1, <1>2, <1>4, <1>6 DEF Layers
<1>8. Placed'
  <2>1. DeviceComplete'
    BY <1>3, <1>7 DEF DeviceComplete
  <2>2. \A w \in Loaded' : Uploaded(w, resident', stream')
    BY <1>1, <1>3, <1>6
  <2> QED
    BY <1>1, <1>2, <2>1, <2>2 DEF Placed, Moving
<1>9. Backed'
  <2>1. ASSUME NEW w \in Layers, weight'[w].at = "cpu" PROVE FALSE
    <3>1. \E v : weight'[w] = on_device(v)
      BY <1>7 DEF Layers
    <3> QED
      BY <2>1, <3>1, Places
  <2> QED
    BY <1>1, <1>2, <1>7, <2>1 DEF Backed
<1> QED
  BY <1>1, <1>2, <1>3, <1>7, <1>8, <1>9 DEF WeightInv, ModelPcs, EarlyPcs

LEMMA CreateLayersStep ==
  ASSUME WeightInv, CreateLayers
  PROVE  WeightInv'
<1>1. /\ pc = "layers"
      /\ UNCHANGED <<command, model, next, failed, weight, storage, stream, resident>>
      /\ IF failed THEN pc' = "destroy"
         ELSE pc' = IF command.device = "cuda" THEN "move" ELSE "buffers"
  BY DEF CreateLayers, Goto, Return, weights
<1>2. /\ model.layer_num \in Nat /\ DOMAIN weight = Layers /\ Backed /\ LoadEnded
  BY <1>1 DEF WeightInv, ModelPcs
<1>3. UNCHANGED <<load_order, move_order, Loaded, Layers>>
  BY <1>1, SameOrders
<1>4. Backed'
  BY <1>1, <1>2 DEF Backed
<1>5. CASE failed
  BY <1>1, <1>4, <1>5 DEF WeightInv, ModelPcs, EarlyPcs
<1>6. CASE ~failed
  <2>1. HostComplete /\ HostComplete'
    BY <1>1, <1>2, <1>3, <1>6 DEF LoadEnded, HostComplete
  <2>2. Loaded \subseteq storage
    <3>1. \A w \in Loaded : weight[w].at = "cpu" /\ weight[w].array = w /\ w \in DOMAIN weight
      BY <1>2, <2>1 DEF HostComplete, on_host, Layers
    <3> QED
      BY <1>2, <3>1 DEF Backed
  <2>3. CASE command.device = "cuda"
    <3>1. 1 \in 1..Len(move_order) + 1 /\ 1..1 - 1 = {}
      BY <1>2, Orders
    <3>2. Moving'
      BY <1>1, <1>2, <1>3, <2>1, <2>2, <2>3, <3>1 DEF Moving, LoadEnded, HostComplete
    <3> QED
      BY <1>1, <1>2, <1>3, <1>4, <1>6, <2>3, <3>2 DEF WeightInv, ModelPcs, EarlyPcs
  <2>4. CASE command.device # "cuda"
    BY <1>1, <1>2, <1>3, <1>4, <1>6, <2>1, <2>4 DEF WeightInv, ModelPcs, EarlyPcs, Placed
  <2> QED
    BY <2>3, <2>4
<1> QED
  BY <1>5, <1>6

LEMMA RopeCacheStep ==
  ASSUME WeightInv, RopeCache
  PROVE  WeightInv'
<1>1. /\ pc = "rope" /\ UNCHANGED <<command, model, next, failed, weight, stream, resident>>
      /\ \/ command.device = "cpu" /\ pc' = "limits" /\ UNCHANGED storage
         \/ command.device = "cuda" /\ stream = <<>> /\ pc' = "limits" /\ storage' = {}
         \/ pc' = "destroy" /\ UNCHANGED storage
  BY DEF RopeCache, Goto, Return
<1>2. /\ model.layer_num \in Nat /\ DOMAIN weight = Layers /\ Backed /\ Placed
  BY <1>1 DEF WeightInv, ModelPcs
<1>3. UNCHANGED <<load_order, move_order, Loaded, Layers>>
  BY <1>1, SameOrders
<1>4. CASE pc' = "destroy"
  BY <1>1, <1>2, <1>4 DEF WeightInv, Backed, ModelPcs, EarlyPcs
<1>5. CASE command.device = "cpu" /\ pc' = "limits" /\ UNCHANGED storage
  <2>1. HostComplete'
    BY <1>1, <1>2, <1>3, <1>5 DEF Placed, HostComplete
  <2> QED
    BY <1>1, <1>2, <1>3, <1>5, <2>1 DEF WeightInv, Backed, ModelPcs, EarlyPcs, Ready
<1>6. CASE command.device = "cuda" /\ stream = <<>> /\ pc' = "limits" /\ storage' = {}
  <2>1. DeviceComplete /\ \A w \in Loaded : Uploaded(w, resident, stream)
    BY <1>2, <1>6 DEF Placed
  <2>2. Loaded \subseteq resident
    BY <1>6, <2>1 DEF Uploaded
  <2>3. Ready'
    BY <1>1, <1>3, <1>6, <2>1, <2>2 DEF Ready, DeviceComplete
  <2>4. Backed'
    <3>1. \A w \in Layers : weight[w].at = "cuda"
      BY <2>1, CompletePlace
    <3> QED
      BY <1>1, <1>2, <1>6, <3>1 DEF Backed
  <2> QED
    BY <1>1, <1>2, <1>3, <1>6, <2>3, <2>4 DEF WeightInv, ModelPcs, EarlyPcs
<1> QED
  BY <1>1, <1>4, <1>5, <1>6

LEMMA UploadStep ==
  ASSUME WeightInv, Upload
  PROVE  WeightInv'
<1>1. /\ stream # <<>> /\ pc # "exit" /\ resident' = resident \cup {Head(stream)}
      /\ stream' = Tail(stream)
      /\ UNCHANGED <<pc, command, model, next, failed, weight, storage>>
  BY DEF Upload
<1>2. Backed /\ stream \in Seq(storage)
  BY <1>1 DEF WeightInv, Backed
<1>3. UNCHANGED <<load_order, move_order, Loaded, Layers>>
  BY <1>1, SameOrders
<1>4. \A w : Uploaded(w, resident, stream) => Uploaded(w, resident', stream')
  <2> SUFFICES ASSUME NEW w, NEW n \in DOMAIN stream, stream[n] = w
               PROVE  Uploaded(w, resident', stream')
    BY <1>1 DEF Uploaded
  <2>1. n = 1 \/ (n - 1 \in DOMAIN stream' /\ stream'[n - 1] = stream[n])
    BY <1>1, <1>2
  <2>2. CASE n = 1
    BY <1>1, <1>2, <2>2 DEF Uploaded
  <2> QED
    BY <2>1, <2>2 DEF Uploaded
<1>5. Backed'
  BY <1>1, <1>2 DEF Backed
<1>6. Moving => Moving'
  BY <1>1, <1>3, <1>4 DEF Moving
<1>7. /\ HostComplete => HostComplete'
      /\ DeviceComplete => DeviceComplete'
  BY <1>1, <1>3 DEF HostComplete, DeviceComplete
<1>8. (Placed => Placed') /\ (Ready => Ready')
  BY <1>1, <1>3, <1>4, <1>7 DEF Placed, Ready
<1>9. ~BeforeLoading /\ ~Loading /\ ~LoadEnded
  BY <1>1 DEF BeforeLoading, Loading, LoadEnded
<1> QED
  BY <1>1, <1>3, <1>5, <1>6, <1>8, <1>9 DEF WeightInv

LEMMA ReadHeaderStep ==
  ASSUME WeightInv, ReadHeader, pc' = "load" => model'.layer_num \in Nat
  PROVE  WeightInv'
<1>1. /\ pc = "header" /\ UNCHANGED <<command, next, failed, storage, stream, resident>>
      /\ \/ pc' = "load" /\ weight' = [w \in Layers' |-> Nowhere]
         \/ pc' = "destroy" /\ UNCHANGED weight
  BY DEF ReadHeader, Goto, Return
<1>2. BeforeLoading /\ Backed
  BY <1>1 DEF WeightInv, EarlyPcs
<1>3. CASE pc' = "destroy"
  BY <1>1, <1>2, <1>3 DEF WeightInv, Backed, ModelPcs, EarlyPcs
<1>4. CASE pc' = "load"
  <2>1. model'.layer_num \in Nat
    BY <1>4
  <2>2. Len(load_order') \in Nat /\ Len(load_order') >= 2
    <3>1. (model.layer_num \in Nat)' => (Len(load_order) \in Nat /\ Len(load_order) >= 2)'
      BY LoadOrderLength, PTL
    <3> QED
      BY <2>1, <3>1
  <2>3. Loading'
    BY <1>1, <1>2, <2>2 DEF Loading, BeforeLoading
  <2>4. Backed'
    BY <1>1, <1>2, <1>4 DEF Backed, BeforeLoading, Nowhere
  <2> QED
    BY <1>1, <1>4, <2>1, <2>3, <2>4 DEF WeightInv, ModelPcs, EarlyPcs
<1> QED
  BY <1>1, <1>3, <1>4

LEMMA WeightInvStep ==
  ASSUME SizeInv, SizeInv', WeightInv, [Next]_vars
  PROVE  WeightInv'
<1>1. CASE RunInference \/ SelectDevice \/ CreateEncodeLayer \/ OpenFile \/ MapFile
  <2>1. /\ UNCHANGED <<command, model, next, failed, weight, storage, stream, resident>>
        /\ pc \in EarlyPcs /\ (pc' \in EarlyPcs \/ pc' \in {"exit", "destroy"})
    BY <1>1 DEF RunInference, SelectDevice, CreateEncodeLayer, OpenFile, MapFile, Goto, Return,
                weights, EarlyPcs
  <2> QED
    BY <2>1 DEF WeightInv, EarlyPcs, ModelPcs, Backed, BeforeLoading
<1>2. CASE ReadHeader
  <2>1. pc' = "load" => model'.layer_num \in Nat
    BY DEF SizeInv, Dimensions, ModelPcs
  <2> QED
    BY <1>2, <2>1, ReadHeaderStep
<1>3. CASE InitMem
  <2>1. /\ UNCHANGED <<command, model, next, failed, weight, storage, stream, resident>>
        /\ pc = "buffers" /\ pc' \in {"rope", "exit"}
    BY <1>3 DEF InitMem, Goto, Abort, weights
  <2>2. UNCHANGED <<Loaded, Layers>>
    BY <2>1, SameOrders
  <2> QED
    BY <2>1, <2>2 DEF WeightInv, EarlyPcs, ModelPcs, Backed, Placed, HostComplete, DeviceComplete
<1>4. CASE SizePool \/ AddRequest \/ FinishServing
  <2>1. /\ UNCHANGED <<command, model, next, failed, weight, storage, stream, resident>>
        /\ pc \in {"limits", "serve"} /\ pc' \in {"serve", "destroy"}
    BY <1>4 DEF SizePool, AddRequest, FinishServing, Goto, Return, weights
  <2>2. UNCHANGED <<Loaded, Layers>>
    BY <2>1, SameOrders
  <2> QED
    BY <2>1, <2>2 DEF WeightInv, EarlyPcs, ModelPcs, Backed, Ready, HostComplete, DeviceComplete
<1>5. CASE Destroy
  <2>1. pc' = "exit"
    BY <1>5 DEF Destroy
  <2> QED
    BY <2>1 DEF WeightInv, EarlyPcs, ModelPcs
<1>6. CASE Exited \/ UNCHANGED vars
  BY <1>6, WeightInvKept DEF Exited, vars, weights
<1> QED
  BY <1>1, <1>2, <1>3, <1>4, <1>5, <1>6, LoadWeightStep, CreateLayersStep, MoveWeightStep,
     TieHeadStep, UploadStep, RopeCacheStep DEF Next

\* Every view of a host array and every queued upload has its array, and a model
\* that is initialised has all its weights on its device, for any number of layers
\* and any failure on the way.
THEOREM WeightsStayBacked == Spec => []WeightsBacked
<1>1. Init => WeightInv
  BY DEF Init, WeightInv, EarlyPcs, ModelPcs, BeforeLoading, Backed, Nowhere
<1>2. SizeInv /\ SizeInv' /\ WeightInv /\ [Next]_vars => WeightInv'
  BY WeightInvStep
<1> QED
  BY <1>1, <1>2, SizeInvariant, WeightsAreBacked, PTL DEF Spec
=============================================================================
