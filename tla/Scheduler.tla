------------------------------ MODULE Scheduler ------------------------------
(***************************************************************************)
(* The continuous-batching scheduler of engine/src/scheduler.cpp.           *)
(*                                                                          *)
(* schedule() and postprocess() are loops over the two deques and over the   *)
(* plan.  Each iteration is one action here (two when it also takes blocks  *)
(* from the pool), and pc says where the call stands.  Nothing else runs    *)
(* between two iterations: requests arrive and batches run only at the      *)
(* points LLMEngine.tla allows.                                             *)
(***************************************************************************)
EXTENDS BlockManager

CONSTANTS
  MaxNumSeqs,            \* config_.max_num_seqs
  MaxNumBatchedTokens,   \* config_.max_num_batched_tokens
  Requests,              \* [prompt, max_tokens, ignore_eos]
  Eos                    \* tokens for which is_eos holds

ASSUME BatchAssumption ==
  MaxNumSeqs \in Nat \ {0} /\ MaxNumBatchedTokens \in Nat \ {0}
ASSUME RequestAssumption ==
  \A r \in Requests :
    r.prompt \in Prompts /\ r.max_tokens \in Nat \ {0} /\ r.ignore_eos \in BOOLEAN

VARIABLES
  request,              \* the prompt and SamplingParams of each sequence
  status,               \* Sequence::status, "none" before it exists
  waiting, running,     \* waiting_, running_
  pc,                   \* where the current step stands
  plan,                 \* BatchPlan::sequences: [seq, start, count]
  is_prefill,           \* BatchPlan::is_prefill
  batched_tokens,       \* schedule's batched_tokens
  candidates,           \* iterations left to schedule's decode loop
  preempted_sequence,   \* schedule's preempted_sequence
  index,                \* postprocess' index, 1-based
  sampled,              \* sampled_tokens, NoSample where the code holds -1
  last_status           \* the Status of the last call that returned

queueVars == <<status, waiting, running>>
callVars == <<plan, is_prefill, batched_tokens, candidates,
              preempted_sequence, index, sampled>>
schedulerVars == <<request, queueVars, pc, callVars, last_status>>

NoRequest == [prompt |-> <<>>, max_tokens |-> 0, ignore_eos |-> FALSE]
NoSample == -1

prompt_size(s) == Len(request[s].prompt)
completion_size(s) == size(s) - prompt_size(s)

is_finished == waiting = <<>> /\ running = <<>>

(* schedule() starts from BatchPlan{} and no batched tokens. *)
ClearCall ==
  /\ plan' = <<>> /\ is_prefill' = FALSE /\ batched_tokens' = 0
  /\ candidates' = 0 /\ preempted_sequence' = FALSE
  /\ index' = 0 /\ sampled' = <<>>

(* The call returns to the caller of LLMEngine::step with a Status. *)
Return(st) == pc' = "idle" /\ last_status' = st /\ ClearCall

(* An InternalError: the behaviour stops here, so that "no InternalError" is *)
(* the invariant pc # "error".                                              *)
InternalError ==
  /\ pc' = "error"
  /\ UNCHANGED <<request, queueVars, callVars, last_status, blockManagerVars>>

SchedulerInit ==
  /\ BlockManagerInit
  /\ request = [s \in Seqs |-> NoRequest]
  /\ status = [s \in Seqs |-> "none"]
  /\ waiting = <<>> /\ running = <<>>
  /\ pc = "idle" /\ last_status = "ok"
  /\ plan = <<>> /\ is_prefill = FALSE /\ batched_tokens = 0
  /\ candidates = 0 /\ preempted_sequence = FALSE
  /\ index = 0 /\ sampled = <<>>

-----------------------------------------------------------------------------
(* schedule(): prefill *)

(* The loop condition of the prefill loop. *)
InPrefillLoop == pc = "prefill" /\ waiting # <<>> /\ Len(plan) < MaxNumSeqs

front == Head(waiting)

(* Slip: forgets what the prefix cache already provides. *)
remaining_tokens_all(s) == size(s)

remaining_tokens(s) == size(s) - num_cached_tokens[s]
available == MaxNumBatchedTokens - batched_tokens

token_budget_spent(s) ==
  available = 0 \/ (available < remaining_tokens(s) /\ plan # <<>>)

PrefillAllocate ==
  /\ InPrefillLoop /\ block_table[front] = <<>> /\ can_allocate(front)
  /\ IF allocate_fails(front) THEN InternalError
     ELSE /\ allocate(front)
          /\ UNCHANGED <<request, queueVars, pc, callVars, last_status>>

PrefillSchedule ==
  LET s == front
      scheduled == IF remaining_tokens(s) <= available
                   THEN remaining_tokens(s) ELSE available
  IN
  /\ InPrefillLoop /\ block_table[s] # <<>>
  /\ IF remaining_tokens(s) = 0 THEN InternalError
     ELSE
      /\ ~ token_budget_spent(s)
      /\ num_scheduled_tokens' = [num_scheduled_tokens EXCEPT ![s] = scheduled]
      /\ plan' = Append(plan, [seq |-> s, start |-> num_cached_tokens[s],
                               count |-> scheduled])
      /\ is_prefill' = TRUE
      /\ batched_tokens' = batched_tokens + scheduled
      /\ IF num_cached_tokens[s] + scheduled = size(s)
         THEN /\ waiting' = Tail(waiting)
              /\ running' = Append(running, s)
              /\ status' = [status EXCEPT ![s] = "running"]
              /\ pc' = "prefill"
         ELSE /\ pc' = "run"
              /\ UNCHANGED queueVars
      /\ UNCHANGED <<request, candidates, preempted_sequence, index, sampled,
                     last_status, token_ids, block_table, num_cached_tokens, poolVars>>

(* The waiting front can never be admitted: the call returns an error, with   *)
(* the sequences it has already moved left in running_.                      *)
PrefillReject ==
  /\ InPrefillLoop /\ block_table[front] = <<>> /\ ~ can_allocate(front)
  /\ num_blocks(front) > NumBlocks
  /\ Return("prompt_exceeds_pool")
  /\ UNCHANGED <<request, queueVars, blockManagerVars>>

(* The loop ends: every condition under which it stops adding prompts. *)
PrefillEnd ==
  /\ pc = "prefill"
  /\ \/ waiting = <<>>
     \/ Len(plan) >= MaxNumSeqs
     \/ /\ InPrefillLoop
        /\ \/ /\ block_table[front] = <<>> /\ ~ can_allocate(front)
              /\ num_blocks(front) <= NumBlocks
           \/ /\ block_table[front] # <<>> /\ remaining_tokens(front) # 0
              /\ token_budget_spent(front)
  /\ IF plan # <<>>
     THEN pc' = "run" /\ UNCHANGED <<candidates, preempted_sequence>>
     ELSE /\ pc' = "decode"
          /\ candidates' = Len(running)
          /\ preempted_sequence' = FALSE
  /\ UNCHANGED <<request, queueVars, plan, is_prefill, batched_tokens, index,
                 sampled, last_status, blockManagerVars>>

-----------------------------------------------------------------------------
(* schedule(): decode *)

InDecodeLoop == pc = "decode" /\ candidates > 0 /\ Len(plan) < MaxNumSeqs

oldest == Head(running)

(* can_append, then may_append takes a block. *)
DecodeGrow ==
  /\ InDecodeLoop /\ can_append(oldest)
  /\ last_block(oldest) > Len(block_table[oldest])
  /\ may_append(oldest)
  /\ UNCHANGED <<request, queueVars, pc, callVars, last_status>>

rotated == Append(Tail(running), oldest)

DecodeSchedule ==
  LET s == oldest IN
  /\ InDecodeLoop
  /\ size(s) > 0 /\ last_block(s) <= Len(block_table[s])
  /\ num_scheduled_tokens' = [num_scheduled_tokens EXCEPT ![s] = 1]
  /\ plan' = Append(plan, [seq |-> s, start |-> size(s) - 1, count |-> 1])
  /\ running' = rotated
  /\ candidates' = candidates - 1
  /\ UNCHANGED <<request, status, waiting, pc, is_prefill, batched_tokens,
                 preempted_sequence, index, sampled, last_status, token_ids,
                 block_table, num_cached_tokens, poolVars>>

(* preempt(): the candidate gives its blocks back and goes to the head of    *)
(* the waiting queue.                                                       *)
Preempt ==
  LET s == oldest IN
  /\ InDecodeLoop /\ ~ can_append(s)
  /\ deallocate(s)
  /\ running' = Tail(running)
  /\ waiting' = <<s>> \o waiting
  /\ status' = [status EXCEPT ![s] = "waiting"]
  /\ candidates' = candidates - 1
  /\ preempted_sequence' = TRUE
  /\ UNCHANGED <<request, pc, plan, is_prefill, batched_tokens, index, sampled,
                 last_status>>

(* The decode loop ends; with nothing planned, schedule() calls itself once   *)
(* more if it preempted somebody.                                           *)
DecodeEnd ==
  /\ pc = "decode" /\ (candidates = 0 \/ Len(plan) >= MaxNumSeqs)
  /\ \/ /\ plan # <<>>
        /\ pc' = "run"
        /\ UNCHANGED <<request, queueVars, callVars, last_status, blockManagerVars>>
     \/ /\ plan = <<>> /\ ~ is_finished
        /\ IF ~ preempted_sequence THEN InternalError
           ELSE /\ pc' = "prefill"
                /\ ClearCall
                /\ UNCHANGED <<request, queueVars, last_status, blockManagerVars>>

-----------------------------------------------------------------------------
(* postprocess() *)

current == plan[index].seq

(* The loop moves on, or the call returns to LLMEngine::step. *)
NextIndex ==
  IF index < Len(plan) THEN pc' = "commit" /\ index' = index + 1
                       ELSE pc' = "collect" /\ index' = index

(* hash_blocks, then the accounting; an unfinished prompt ends its iteration. *)
PostCommit ==
  LET s == current
      computed == num_cached_tokens[s] + num_scheduled_tokens[s]
  IN
  /\ pc = "commit"
  /\ IF hash_blocks_fails(s) THEN InternalError
     ELSE
      /\ hash_blocks(s)
      /\ num_cached_tokens' = [num_cached_tokens EXCEPT ![s] = computed]
      /\ num_scheduled_tokens' = [num_scheduled_tokens EXCEPT ![s] = 0]
      /\ IF is_prefill /\ computed < size(s) THEN NextIndex
         ELSE pc' = "emit" /\ index' = index
      /\ UNCHANGED <<request, queueVars, plan, is_prefill, batched_tokens,
                     candidates, preempted_sequence, sampled, last_status,
                     token_ids, block_table>>

(* Slip: ignore_eos is not looked at. *)
stops_always(s, t) ==
  t \in Eos \/ completion_size(s) + 1 >= request[s].max_tokens

(* stopped_on_eos or reached_limit, t being appended. *)
stops(s, t) ==
  \/ ~ request[s].ignore_eos /\ t \in Eos
  \/ completion_size(s) + 1 >= request[s].max_tokens

(* Slip: a finished sequence stays in running_. *)
running_kept(s) == running

(* erase(remove()): the entries that are not s, in their order. *)
running_without(s) ==
  LET kept == {i \in DOMAIN running : running[i] # s}
      place(i) == Cardinality({j \in kept : j <= i})
  IN  [k \in 1 .. Cardinality(kept) |-> running[CHOOSE i \in kept : place(i) = k]]

(* append_token; a sequence that stops leaves running_ ... *)
PostEmit ==
  LET s == current
      t == sampled[index]
  IN
  /\ pc = "emit"
  /\ IF t = NoSample THEN InternalError
     ELSE
      /\ token_ids' = [token_ids EXCEPT ![s] = Append(@, t)]
      /\ IF stops(s, t)
         THEN /\ status' = [status EXCEPT ![s] = "finished"]
              /\ running' = running_without(s)
              /\ pc' = "release" /\ index' = index
              /\ UNCHANGED waiting
         ELSE /\ NextIndex
              /\ UNCHANGED queueVars
      /\ UNCHANGED <<request, plan, is_prefill, batched_tokens, candidates,
                     preempted_sequence, sampled, last_status, block_table,
                     num_cached_tokens, num_scheduled_tokens, poolVars>>

(* ... and gives its blocks back in the same iteration. *)
PostRelease ==
  /\ pc = "release"
  /\ deallocate(current)
  /\ NextIndex
  /\ UNCHANGED <<request, queueVars, plan, is_prefill, batched_tokens, candidates,
                 preempted_sequence, sampled, last_status>>

ScheduleStep ==
  \/ PrefillAllocate \/ PrefillSchedule \/ PrefillReject \/ PrefillEnd
  \/ DecodeGrow \/ DecodeSchedule \/ Preempt \/ DecodeEnd

PostprocessStep == PostCommit \/ PostEmit \/ PostRelease
=============================================================================
