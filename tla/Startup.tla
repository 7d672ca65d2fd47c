------------------------------- MODULE Startup -------------------------------
(***************************************************************************)
(* model/model_main.cpp, qwen3.cpp, qwen3_checkpoint.cpp, qwen3_layers.cpp, *)
(* model.cpp and qwen3_kv_cache.cpp: one run of the program from its        *)
(* command line to the first request, and its destruction.                  *)
(*                                                                          *)
(* The checkpoint is mapped, converted into host arrays (weight_storage_),  *)
(* unmapped, and on CUDA uploaded by the stream while the host goes on; then*)
(* the KV pool is sized and allocated.  Every step that can fail does so at *)
(* any time; CHECK ends the process.                                        *)
(***************************************************************************)
EXTENDS KvSizing, Sequences

CONSTANTS
  Commands,    \* command lines: device, max_seq_len, kv_blocks, max_new_tokens, prompts
  Checkpoints, \* config.json: dimensions and max_position_embeddings
  Gpus,        \* memory of the GPU: total, free
  Utilization, \* --gpu-memory-utilization
  BlockLimit,  \* 16: the block size the command line asks for
  BatchLimit,  \* 256: the token budget the command line asks for
  Requests     \* requests: prompt and max_tokens

ASSUME CommandAssumption == \A c \in Commands : c.max_seq_len \in Int
ASSUME CheckpointAssumption ==
  Checkpoints \subseteq
    [layer_num : Int, head_num : Int, kv_head_num : Int, head_dim : Int, dim : Int,
     hidden_dim : Int, vocab_size : Int, max_position_embeddings : Int]
ASSUME GpuAssumption == \A g \in Gpus : g.total \in 0..SizeMax /\ g.free \in 0..g.total
ASSUME OptionAssumption ==
  Utilization \in Nat /\ BlockLimit \in Nat \ {0} /\ BatchLimit \in Nat \ {0}

VARIABLES
  pc, outcome, \* where the program is, and how it has ended
  command,     \* its arguments
  fd, mapped,  \* safetensors_fd_ >= 0, safetensors_mapping_ # nullptr
  header,      \* safetensors_: the tensors found with the dtype and size expected
  config,      \* what config.json and the command line say
  model,       \* config_
  next,        \* the weight create_param_layers comes to, then the one to_cuda does
  failed,      \* weight_loading_error_ is set
  weight,      \* where the tensor of a layer's weight is: [at, array]
  storage,     \* weight_storage_: the arrays that are allocated
  stream,      \* uploads queued on the stream
  resident,    \* arrays whose upload has finished
  gpu,         \* what cudaMemGetInfo reported
  pool,        \* paged_num_blocks_
  request      \* the last request add_request accepted

files == <<fd, mapped, header, config>>
weights == <<next, failed, weight, storage, stream, resident>>
engine == <<gpu, pool, request>>
vars == <<pc, outcome, command, files, model, weights, engine>>

NoModel == [layer_num |-> 0]
NoGpu == [total |-> 0, free |-> 0]
NoRequest == [prompt |-> 0, max_tokens |-> 0]

----------------------------------------------------------------------------
(* The layers and their weights *)

\* A decoder layer's weights in the order they are created and moved.
DecoderWeights ==
  <<"input_norm", "q_proj", "k_proj", "v_proj", "o_proj", "q_norm", "k_norm",
    "post_attention_norm", "gate_proj", "up_proj", "down_proj">>

decoder_weight(n) ==
  <<(n - 1) \div Len(DecoderWeights), DecoderWeights[((n - 1) % Len(DecoderWeights)) + 1]>>

decoder_count == model.layer_num * Len(DecoderWeights)

Embedding == <<0, "embed_tokens">>
FinalNorm == <<0, "norm">>
LmHead == <<0, "lm_head">>

\* The order of create_param_layers, and of Qwen3Layers::to_cuda.
load_order == <<Embedding>> \o [n \in 1..decoder_count |-> decoder_weight(n)] \o <<FinalNorm>>
move_order == <<Embedding, FinalNorm>> \o [n \in 1..decoder_count |-> decoder_weight(n)]

Loaded == {load_order[n] : n \in DOMAIN load_order}
Layers == Loaded \cup {LmHead}

Nowhere == [at |-> "none", array |-> LmHead]
on_host(w) == [at |-> "cpu", array |-> w]
on_device(w) == [at |-> "cuda", array |-> w]

\* create_param_layers looks for missing weights behind the embedding, behind
\* every decoder layer and behind the last norm.
checks_after(n) == (n - 1) % Len(DecoderWeights) = 0 \/ n = Len(load_order)

----------------------------------------------------------------------------
(* Outcomes *)

Goto(label) == pc' = label /\ UNCHANGED <<outcome, command>>

\* An error Status, which run_qwen3_engine turns into its exit code.
Return(status) == pc' = "destroy" /\ outcome' = status /\ UNCHANGED command

\* CHECK, or an exception nobody catches.
Abort == pc' = "exit" /\ outcome' = "aborted" /\ UNCHANGED command

release_safetensors_map == fd' = FALSE /\ mapped' = FALSE /\ header' = {} /\ UNCHANGED config

----------------------------------------------------------------------------
(* Qwen3Model::init up to the mapping of the checkpoint *)

Init ==
  /\ command \in Commands
  /\ pc = "arguments" /\ outcome = "none"
  /\ fd = FALSE /\ mapped = FALSE /\ header = {}
  /\ config \in Checkpoints /\ model = NoModel /\ next = 1 /\ failed = FALSE
  /\ weight = [w \in {LmHead} |-> Nowhere]
  /\ storage = {} /\ stream = <<>> /\ resident = {}
  /\ gpu = NoGpu /\ pool = 0 /\ request = NoRequest

RunInference ==
  /\ pc = "arguments"
  /\ IF command.max_seq_len > 0 /\ command.kv_blocks >= 0 /\ command.max_new_tokens >= 0
        /\ command.prompts > 0
     THEN Goto("device") ELSE pc' = "exit" /\ outcome' = "usage" /\ UNCHANGED command
  /\ UNCHANGED <<files, model, weights, engine>>

\* cudaSetDevice and cudaStreamCreate, then the tokenizer: any may fail.
SelectDevice ==
  /\ pc = "device"
  /\ Goto("tokenizer") \/ (command.device = "cuda" /\ Return("error"))
  /\ UNCHANGED <<files, model, weights, engine>>

CreateEncodeLayer ==
  /\ pc = "tokenizer"
  /\ Goto("open") \/ Return("error")
  /\ UNCHANGED <<files, model, weights, engine>>

\* read_qwen3_config, which may not find or parse config.json, and open.
OpenFile ==
  /\ pc = "open"
  /\ \/ Goto("map") /\ fd' = TRUE
     \/ Return("error") /\ UNCHANGED fd
  /\ UNCHANGED <<mapped, header, config, model, weights, engine>>

\* The context length is the smaller of the two.
context(c) ==
  [f \in DOMAIN c \cup {"seq_len"} |->
     IF f # "seq_len" THEN c[f]
     ELSE IF command.max_seq_len < c.max_position_embeddings THEN command.max_seq_len
     ELSE c.max_position_embeddings]

\* fstat and mmap.
MapFile ==
  /\ pc = "map"
  /\ \/ Goto("header") /\ mapped' = TRUE /\ UNCHANGED <<fd, header, config>>
     \/ Return("error") /\ release_safetensors_map
  /\ UNCHANGED <<model, weights, engine>>

\* Slip: the map stays when the header or the configuration is bad.
ReadHeader_kept ==
  /\ pc = "header"
  /\ LET c == context(config)
     IN \/ /\ valid_dimensions(c)
           /\ model' = model_infos(c)
           /\ weight' = [w \in Layers' |-> Nowhere]
           /\ \E missing \in {{}} \cup {{w} : w \in Loaded'} : header' = Loaded' \ missing
           /\ Goto("load") /\ UNCHANGED <<fd, mapped, config>>
        \/ Return("error") /\ UNCHANGED <<files, model, weight>>
  /\ UNCHANGED <<next, failed, storage, stream, resident, engine>>

\* The header is parsed, which fails for its size, its syntax or an offset, and
\* the dimensions checked; a tensor of it may be missing or of another shape.
ReadHeader ==
  /\ pc = "header"
  /\ LET c == context(config)
     IN \/ /\ valid_dimensions(c)
           /\ model' = model_infos(c)
           /\ weight' = [w \in Layers' |-> Nowhere]
           /\ \E missing \in {{}} \cup {{w} : w \in Loaded'} : header' = Loaded' \ missing
           /\ Goto("load") /\ UNCHANGED <<fd, mapped, config>>
        \/ Return("error") /\ release_safetensors_map /\ UNCHANGED <<model, weight>>
  /\ UNCHANGED <<next, failed, storage, stream, resident, engine>>

----------------------------------------------------------------------------
(* The layers *)

\* load_weight converts the tensor into an array of its own and the layer takes
\* a view of it; the head takes one of the embedding's.
LoadWeight ==
  /\ pc = "load"
  /\ LET w == load_order[next]
         last == next = Len(load_order)
     IN /\ failed' = (failed \/ w \notin header)
        /\ storage' = IF w \in header THEN storage \cup {w} ELSE storage
        /\ weight' = [v \in DOMAIN weight |->
                        IF v = w /\ w \in header THEN on_host(w)
                        ELSE IF v = LmHead /\ last /\ ~failed' THEN on_host(Embedding)
                        ELSE weight[v]]
        /\ IF last \/ (failed' /\ checks_after(next)) THEN Goto("layers") /\ next' = 1
           ELSE UNCHANGED <<pc, outcome, command>> /\ next' = next + 1
  /\ UNCHANGED <<files, model, stream, resident, engine>>

\* The rest of create_layers; either way the map is released.
CreateLayers ==
  /\ pc = "layers"
  /\ release_safetensors_map
  /\ IF failed THEN Return("error")
     ELSE Goto(IF command.device = "cuda" THEN "move" ELSE "buffers")
  /\ UNCHANGED <<model, weights, engine>>

\* Tensor::to_cuda of the next weight: a device buffer and a copy on the stream;
\* a failed cudaMalloc ends in the CHECK of memcpy.
MoveWeight ==
  /\ pc = "move" /\ next <= Len(move_order)
  /\ LET w == move_order[next]
     IN \/ /\ weight' = [weight EXCEPT ![w] = on_device(w)]
           /\ stream' = Append(stream, w)
           /\ next' = next + 1 /\ UNCHANGED <<pc, outcome, command>>
        \/ Abort /\ UNCHANGED <<weight, stream, next>>
  /\ UNCHANGED <<files, model, failed, storage, resident, engine>>

\* The tied head takes the tensor of the embedding, once that is on the device.
tied(ws) == [ws EXCEPT ![LmHead] = ws[Embedding]]

TieHead ==
  /\ pc = "move" /\ next > Len(move_order)
  /\ weight' = tied(weight)
  /\ Goto("buffers")
  /\ UNCHANGED <<files, model, next, failed, storage, stream, resident, engine>>

\* init_mem: an empty tensor is refused by insert_buffer, inside a CHECK.
InitMem ==
  /\ pc = "buffers"
  /\ Goto("rope") \/ Abort
  /\ UNCHANGED <<files, model, weights, engine>>

\* The device works on the stream.
Upload ==
  /\ stream # <<>> /\ pc # "exit"
  /\ resident' = resident \cup {Head(stream)}
  /\ stream' = Tail(stream)
  /\ UNCHANGED <<pc, outcome, command, files, model, next, failed, weight, storage, engine>>

\* Slip: weight_storage_ is cleared without waiting for the stream.
RopeCache_unsynced ==
  /\ pc = "rope"
  /\ \/ command.device = "cpu" /\ Goto("limits") /\ UNCHANGED storage
     \/ command.device = "cuda" /\ Goto("limits") /\ storage' = {}
     \/ command.device = "cuda" /\ Return("error") /\ UNCHANGED storage
  /\ UNCHANGED <<files, model, next, failed, weight, stream, resident, engine>>

\* The tables of rope, and on CUDA the wait for the uploads, which may report an
\* error of any of them; only then the host arrays go.
RopeCache ==
  /\ pc = "rope"
  /\ \/ command.device = "cpu" /\ Goto("limits") /\ UNCHANGED storage
     \/ command.device = "cuda" /\ stream = <<>> /\ Goto("limits") /\ storage' = {}
     \/ command.device = "cuda" /\ Return("error") /\ UNCHANGED storage
  /\ UNCHANGED <<files, model, next, failed, weight, stream, resident, engine>>

----------------------------------------------------------------------------
(* run_qwen3_engine *)

smaller(a, b) == IF a < b THEN a ELSE b

block_size == smaller(BlockLimit, command.max_seq_len)
max_num_batched_tokens == smaller(BatchLimit, command.max_seq_len)

\* The blocks of the pool: asked for, estimated, or enough for one sequence.
num_kv_blocks(g) ==
  IF command.kv_blocks > 0 THEN command.kv_blocks
  ELSE IF command.device = "cuda"
  THEN estimate(model, block_size, max_num_batched_tokens, Utilization, g.total, g.free)
  ELSE (command.max_seq_len + block_size - 1) \div block_size

\* The pool is sized and LLMEngine::init has the model allocate it, which may
\* fail; nothing to generate ends the program before.
SizePool ==
  /\ pc = "limits"
  /\ IF command.max_new_tokens = 0 THEN Return("ok") /\ UNCHANGED <<gpu, pool>>
     ELSE \E g \in Gpus :
       /\ gpu' = g
       /\ LET n == num_kv_blocks(g)
          IN IF paged_kv_cache_size_bytes(model, n, block_size) = 0
             THEN Return("error") /\ UNCHANGED pool
             ELSE \/ Goto("serve") /\ pool' = n
                  \/ Return("error") /\ UNCHANGED pool
  /\ UNCHANGED <<files, model, weights, request>>

\* max_model_len of the engine is the argument of the command line.
AddRequest ==
  /\ pc = "serve"
  /\ \E r \in Requests :
       /\ r.prompt <= command.max_seq_len
       /\ r.max_tokens <= command.max_seq_len - r.prompt + 1
       /\ request' = r
  /\ UNCHANGED <<pc, outcome, command, files, model, weights, gpu, pool>>

FinishServing ==
  /\ pc = "serve"
  /\ Return("ok")
  /\ UNCHANGED <<files, model, weights, engine>>

\* ~Qwen3Model waits for the stream and releases the map, then its members go.
Destroy ==
  /\ pc = "destroy" /\ stream = <<>>
  /\ release_safetensors_map
  /\ storage' = {} /\ weight' = [w \in {LmHead} |-> Nowhere] /\ model' = NoModel /\ pool' = 0
  /\ pc' = "exit" /\ UNCHANGED <<outcome, command>>
  /\ UNCHANGED <<next, failed, stream, resident, gpu, request>>

Exited == pc = "exit" /\ UNCHANGED vars

Next ==
  \/ RunInference \/ SelectDevice \/ CreateEncodeLayer \/ OpenFile \/ MapFile \/ ReadHeader
  \/ LoadWeight \/ CreateLayers \/ MoveWeight \/ TieHead \/ InitMem \/ Upload \/ RopeCache
  \/ SizePool \/ AddRequest \/ FinishServing \/ Destroy \/ Exited

Spec == Init /\ [][Next]_vars

----------------------------------------------------------------------------
(* Properties *)

(* The file is open and mapped while the layers are built from it and at no*)
(* other time: no return of init leaves a descriptor or a mapping behind,   *)
(* and no weight is converted from memory that is not mapped.               *)
MappingScoped ==
  /\ fd \/ mapped \/ header # {} => pc \in {"map", "header", "load", "layers"}
  /\ pc = "load" => fd /\ mapped

(* A weight has its values: the host array behind a view exists, so does   *)
(* the source of every upload that the stream has not done, and an          *)
(* initialised model has all its weights on its device, complete, the tied *)
(* head sharing the embedding's.                                           *)
WeightsBacked ==
  pc # "exit" =>
    /\ \A w \in DOMAIN weight : weight[w].at = "cpu" => weight[w].array \in storage
    /\ \A n \in DOMAIN stream : stream[n] \in storage
    /\ pc \in {"limits", "serve"} =>
         /\ \A w \in Layers :
              /\ weight[w].at = command.device
              /\ command.device = "cuda" => weight[w].array \in resident
         /\ weight[LmHead] = weight[Embedding]

(* A pool that the program sized itself suits it.  On CUDA it leaves the   *)
(* reserve of the workspaces free and keeps the GPU below the fraction     *)
(* asked for; on the CPU it holds a sequence of max_seq_len tokens.        *)
PoolFits ==
  pool > 0 /\ command.kv_blocks = 0 =>
    LET bytes == 2 * model.layer_num * pool * block_size * model.kv_dim * FloatSize
    IN IF command.device = "cuda"
       THEN /\ (gpu.total - gpu.free) + bytes
                 + reserve_bytes(model, max_num_batched_tokens, gpu.total)
                   <= (gpu.total * Utilization) \div Scale
            /\ pool <= IntMax
       ELSE pool * block_size >= command.max_seq_len

(* What add_request accepts lies in the context window of the model, so the*)
(* runner does not refuse its positions half way through.                  *)
RequestsFitContext ==
  request # NoRequest /\ pc = "serve" => request.prompt + request.max_tokens - 1 <= model.seq_len
=============================================================================
