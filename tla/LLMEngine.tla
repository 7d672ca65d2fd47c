------------------------------ MODULE LLMEngine ------------------------------
(***************************************************************************)
(* LLMEngine of engine/src/llm_engine.cpp on top of the scheduler, and the   *)
(* model runner behind it (engine/src/qwen3_runner.cpp and                  *)
(* model/src/qwen3_paged_batch.cpp) down to the cells of the paged KV cache. *)
(*                                                                          *)
(* A cell remembers the text its key and value were computed from.  A row of *)
(* a batch computes the token at one position of one sequence: it stores its *)
(* own cell, then attends to the cells of all positions up to its own         *)
(* through the block table.  Its output is right only if each of those cells *)
(* was computed from this sequence's text; otherwise it may be anything.     *)
(***************************************************************************)
EXTENDS Scheduler

CONSTANTS
  MaxModelLen,   \* config_.max_model_len
  ModelSeqLen,   \* config_->seq_len_ of the loaded model
  Vocabulary,    \* the token ids below vocab_size_, rows of the embedding table
  LM(_),         \* tokens sampling may choose after a text
  MaxFaults      \* bound: batches that fail inside the runner

ASSUME LengthAssumption ==
  /\ MaxModelLen \in Nat \ {0} /\ ModelSeqLen \in Nat \ {0}
  /\ MaxLen = MaxModelLen + 1
ASSUME FaultAssumption == MaxFaults \in Nat
ASSUME SamplingAssumption ==
  /\ NoSample \notin Token /\ Vocabulary \subseteq Token
  /\ \A n \in 1 .. MaxLen : \A text \in [1 .. n -> Token] : LM(text) \subseteq Vocabulary

VARIABLES
  kv,         \* the text each cell [block][offset] was computed from
  reported,   \* sequences whose GenerationResult has been returned
  faults      \* failed batches so far

engineVars == <<blockManagerVars, schedulerVars, kv, reported, faults>>

Garbage == <<>>     \* a cell never written, or computed from wrong cells

LLMEngineInit ==
  /\ SchedulerInit
  /\ kv = [b \in Block |-> [o \in 0 .. BlockSize - 1 |-> Garbage]]
  /\ reported = {} /\ faults = 0

-----------------------------------------------------------------------------
(* add_request *)

(* Slip: the last token is taken to need a position of its own. *)
accepts_any(r) == Len(r.prompt) <= MaxModelLen

accepts(r) ==
  /\ Len(r.prompt) <= MaxModelLen
  /\ r.max_tokens <= MaxModelLen - Len(r.prompt) + 1

AddRequest(s, r) ==
  /\ pc = "idle" /\ accepts(r)
  /\ Create(s, r.prompt)
  /\ request' = [request EXCEPT ![s] = r]
  /\ status' = [status EXCEPT ![s] = "waiting"]
  /\ waiting' = Append(waiting, s)
  /\ UNCHANGED <<running, pc, callVars, last_status, kv, reported, faults>>

-----------------------------------------------------------------------------
(* step *)

StartStep ==
  /\ pc = "idle" /\ ~ is_finished
  /\ pc' = "prefill"
  /\ UNCHANGED <<request, queueVars, callVars, last_status, kv, reported, faults,
                 blockManagerVars>>

(* step on an engine with nothing queued returns Success and an empty list. *)
IdleStep == pc = "idle" /\ is_finished /\ UNCHANGED engineVars

(* The rows of the batch: plan entry i, 0-based position p. *)
rows ==
  UNION {{[item |-> i, seq |-> plan[i].seq, pos |-> p] :
            p \in plan[i].start .. plan[i].start + plan[i].count - 1} :
         i \in DOMAIN plan}

table_entries == (ModelSeqLen + BlockSize - 1) \div BlockSize

page(pos) == pos \div BlockSize + 1

(* embedding and its layer's check: more rows than the model has positions,  *)
(* whatever sequences they come from, or an id without a row in the table.   *)
embedding_rejected ==
  \/ Cardinality(rows) > ModelSeqLen
  \/ \E r \in rows : token_ids[r.seq][r.pos + 1] \notin Vocabulary

(* forward_paged_batch refuses the batch before it computes anything. *)
batch_rejected ==
  \/ Cardinality(rows) > MaxNumBatchedTokens
  \/ \E r \in rows :
       \/ r.pos >= ModelSeqLen
       \/ Len(block_table[r.seq]) > table_entries
       \/ page(r.pos) > Len(block_table[r.seq])
  \/ embedding_rejected

cell(s, pos) == <<block_table[s][page(pos)], pos % BlockSize>>

(* The text that position pos of s stands for. *)
text_upto(s, pos) == SubSeq(token_ids[s], 1, pos + 1)

(* Cell c after all rows have stored theirs, before any is known to be wrong. *)
stored(c) ==
  LET writers == {r \in rows : cell(r.seq, r.pos) = c}
  IN  IF writers = {} THEN {kv[c[1]][c[2]]}
      ELSE {text_upto(r.seq, r.pos) : r \in writers}

(* Row r attends only to cells computed from its own sequence's text. *)
reads_own_text(r) ==
  \A p \in 0 .. r.pos : stored(cell(r.seq, p)) = {text_upto(r.seq, p)}

(* The content row r leaves in its cell. *)
computed_cell(r) ==
  IF reads_own_text(r) THEN text_upto(r.seq, r.pos) ELSE Garbage

last_row(i) ==
  CHOOSE r \in rows : r.item = i /\ r.pos = plan[i].start + plan[i].count - 1

(* Which plan entries get a logits row. *)
is_sampled(i) ==
  ~ is_prefill \/ plan[i].start + plan[i].count = size(plan[i].seq)

samples(i) ==
  IF ~ is_sampled(i) THEN {NoSample}
  ELSE IF reads_own_text(last_row(i)) THEN LM(token_ids[plan[i].seq])
  ELSE Vocabulary

(* The cache after every row r has stored content[r]. *)
kv_storing(content) ==
  [b \in Block |-> [o \in 0 .. BlockSize - 1 |->
     LET writers == {r \in rows : cell(r.seq, r.pos) = <<b, o>>}
     IN  IF writers = {} THEN kv[b][o]
         ELSE content[CHOOSE r \in writers : TRUE]]]

RunBatch ==
  /\ pc = "run" /\ ~ batch_rejected
  /\ kv' = kv_storing([r \in rows |-> computed_cell(r)])
  /\ sampled' \in [DOMAIN plan -> UNION {samples(i) : i \in DOMAIN plan}]
  /\ \A i \in DOMAIN plan : sampled'[i] \in samples(i)
  /\ pc' = "commit" /\ index' = 1
  /\ UNCHANGED <<request, queueVars, plan, is_prefill, batched_tokens, candidates,
                 preempted_sequence, last_status, reported, faults, blockManagerVars>>

RejectBatch ==
  /\ pc = "run" /\ batch_rejected
  /\ Return("run_failed")
  /\ UNCHANGED <<request, queueVars, kv, reported, faults, blockManagerVars>>

(* run_batch fails on the way: before the first layer, between two layers    *)
(* (the rows' cells half written), or after the last one.                    *)
FailBatch ==
  /\ pc = "run" /\ ~ batch_rejected /\ faults < MaxFaults
  /\ faults' = faults + 1
  /\ kv' \in {kv, kv_storing([r \in rows |-> Garbage]),
             kv_storing([r \in rows |-> computed_cell(r)])}
  /\ Return("run_failed")
  /\ UNCHANGED <<request, queueVars, reported, blockManagerVars>>

(* Slip: only the plan's first entry is looked at. *)
finished_first == {s \in {plan[1].seq} : status[s] = "finished"}

(* Slip: every sequence of the plan counts as finished. *)
finished_all == {plan[i].seq : i \in DOMAIN plan}

finished_in_plan ==
  {s \in {plan[i].seq : i \in DOMAIN plan} : status[s] = "finished"}

(* step returns the results of the sequences of the plan that finished. *)
CollectResults ==
  /\ pc = "collect"
  /\ reported' = reported \cup finished_in_plan
  /\ Return("ok")
  /\ UNCHANGED <<request, queueVars, kv, faults, blockManagerVars>>

SchedulerStep ==
  /\ ScheduleStep \/ PostprocessStep
  /\ UNCHANGED <<kv, reported, faults>>

(* What the thread inside LLMEngine::step does next. *)
EngineStep ==
  StartStep \/ SchedulerStep \/ RunBatch \/ RejectBatch \/ CollectResults

LLMEngineNext ==
  \/ \E s \in Seqs, r \in Requests : AddRequest(s, r)
  \/ EngineStep
  \/ IdleStep
  \/ FailBatch

LLMEngineSpec == LLMEngineInit /\ [][LLMEngineNext]_engineVars

(* generate() calls step until is_finished: a pending step is always taken.   *)
FairSpec == LLMEngineSpec /\ WF_engineVars(EngineStep)
-----------------------------------------------------------------------------
(* Properties *)

(* No request is lost or scheduled twice: an accepted request that has not   *)
(* finished is in exactly one of the two queues, once, and the queue is the  *)
(* one its status names (add, preempt, the two loops, postprocess).           *)
QueuedOnce ==
  \A s \in Seqs :
    LET entries(q) == Cardinality({i \in DOMAIN q : q[i] = s})
    IN  /\ entries(waiting) = IF status[s] = "waiting" THEN 1 ELSE 0
        /\ entries(running) = IF status[s] = "running" THEN 1 ELSE 0

(* Blocks are held by running sequences and by at most one waiting one, the   *)
(* front of the queue: a preempted sequence never overtakes a half-prefilled *)
(* one, and the rest of the queue never starves the pool.                    *)
OnlyFrontWaitingHoldsBlocks ==
  \A i \in DOMAIN waiting : i > 1 => block_table[waiting[i]] = <<>>

(* None of the scheduler's InternalErrors is ever returned: no allocation    *)
(* that fails after can_allocate, no waiting prompt without uncached tokens, *)
(* no unhashed prefix, no missing sample, and never "could not make          *)
(* progress with the available KV blocks".                                  *)
NoInternalError == pc # "error"

(* The tokens a sequence counts as cached have their keys and values in its   *)
(* blocks, computed from its own text, however the blocks were come by:      *)
(* computed, shared with a live sequence, or revived from the free list.     *)
CachedKvComputed ==
  \A s \in Seqs : \A pos \in 0 .. num_cached_tokens[s] - 1 :
    kv[block_table[s][page(pos)]][pos % BlockSize] = text_upto(s, pos)

(* What may be shared is complete: every offset of a block in the prefix      *)
(* index was computed, from one text, of which the block's tokens are the end.*)
PublishedKvComputed ==
  \A h \in DOMAIN hash_to_block : \A o \in 0 .. BlockSize - 1 :
    LET b == hash_to_block[h]
        whole == kv[b][BlockSize - 1]
    IN  /\ whole # Garbage
        /\ kv[b][o] = SubSeq(whole, 1, Len(whole) - BlockSize + 1 + o)
        /\ block_ids[b][o + 1] = kv[b][o][Len(kv[b][o])]

(* When a batch runs no two of its rows store to the same cell, and none     *)
(* stores to a block that is published or that another table names.          *)
NoSharedWrite ==
  pc = "run" =>
    \A r \in rows :
      LET b == block_table[r.seq][page(r.pos)] IN
        /\ ~ hash_valid[b] /\ ref_count[b] = 1
        /\ \A q \in rows : cell(q.seq, q.pos) = cell(r.seq, r.pos) => q = r

(* The runner never refuses a batch the scheduler built: enough positions,   *)
(* table entries and rows, including at the very end of the context window.  *)
(* It takes a budget that covers a token of every sequence, a model context  *)
(* that covers the engine's and the budget, and ids of the vocabulary.       *)
BatchAccepted == pc = "run" => ~ batch_rejected

(* Content that another table may read is never overwritten: the cells of a   *)
(* block in use that was published stay as they are.                         *)
PublishedKvStable ==
  [][\A b \in Block : (hash_valid[b] /\ ref_count[b] > 0) => kv'[b] = kv[b]]_engineVars

(* Every accepted request finishes and its result is returned.               *)
EveryRequestReported ==
  \A s \in Seqs : status[s] = "waiting" ~> s \in reported

(* A sequence is reported only in the step in which it finished, and by the  *)
(* time the call returns Success nothing finished is left unreported.        *)
FinishedIsReported ==
  pc = "idle" => \A s \in Seqs : status[s] = "finished" <=> s \in reported

(* An engine that is stepped finishes what it has accepted.                  *)
SteppingFinishes == []<>is_finished

(* The engine extends each request as if it were alone (Generation.tla).     *)
Alone == INSTANCE Generation WITH
  asked <- request,
  text <- token_ids,
  phase <- [s \in Seqs |-> CASE status[s] = "none" -> "none"
                             [] status[s] = "finished" -> "done"
                             [] OTHER -> "active"]

GeneratesAlone == Alone!Spec

(* The scheduler drives the pool only as BlockManager.tla lets it.           *)
UsesBlockManager == [][BlockManagerNext]_blockManagerVars
=============================================================================
