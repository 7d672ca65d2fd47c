------------------------------- MODULE Forward -------------------------------
(***************************************************************************)
(* model/src/qwen3_paged_batch.cpp and qwen3.cpp with layers/src/*.cpp and  *)
(* the launchers of kernels/src: how one batch goes through the decoder.    *)
(*                                                                          *)
(* forward_paged_batch is a sequence of statements that allocate tensors,   *)
(* call layers and launch kernels.  A layer keeps the tensors of its last   *)
(* call in its slots, so their memory is given back when the layer is called*)
(* again and not when the batch returns.  On CUDA the statements only queue *)
(* work on one stream; the host waits for it in synchronous copies.         *)
(*                                                                          *)
(* Of the memory of a tensor only the kernel that wrote it is kept, and     *)
(* whether that kernel itself read what it should: the cells of the KV pool *)
(* are told apart in LLMEngine.  The allocator may hand out any block nobody*)
(* holds, whatever its size: it reuses more than the program's does.        *)
(***************************************************************************)
EXTENDS KvSizing, Sequences, FiniteSetsExt

CONSTANTS
  Devices,    \* the devices considered, of "cpu" and "cuda"
  Config,     \* config.json with the context length
  Rows,       \* batch sizes
  MaxBatches, \* bound: batches that are run
  Failing,    \* bound: the batches whose allocations may fail
  Blocks,     \* bound: device blocks the allocator can hand out
  Reusable(_) \* of a set of idle blocks those the allocator may take

ASSUME ForwardAssumption ==
  /\ Devices \subseteq {"cpu", "cuda"} /\ Rows \subseteq Nat \ {0}
  /\ Config \in [layer_num : Nat, head_num : Nat, kv_head_num : Nat, head_dim : Nat, dim : Nat,
                  hidden_dim : Nat, vocab_size : Nat, seq_len : Nat]
  /\ valid_dimensions(Config)
  /\ MaxBatches \in Nat /\ Blocks \in Nat \ {0} /\ Failing \subseteq 1..MaxBatches

VARIABLES
  device,   \* device_type_
  part,     \* the part of forward_paged_batch that runs, "none" between batches
  turn,     \* the loop variable of the part
  pc,       \* the next statement of the part
  batch,    \* number of the batch
  rows,     \* its tokens
  samples,  \* how many of its rows are sampled
  in_vocabulary, \* whether each of its token ids is below vocab_size_
  tensors,  \* the local tensors by name
  slots,    \* inputs_ and outputs_ of the layers
  lost,     \* blocks no Buffer holds and nobody releases: Tensor.tla
  floats,   \* the size of each block's last tensor
  contents, \* what wrote a block or a layer of the KV pool last
  stream,   \* kernels queued
  logits,   \* what the host has read
  status,   \* of the last batch: "ok", "error", "crash", or "running"
  starved   \* the batches one of whose allocations failed

call == <<device, batch, rows, samples, in_vocabulary>>
control == <<part, turn, pc>>
memory == <<tensors, slots, lost, floats, starved>>
vars == <<call, control, memory, contents, stream, logits, status>>

model == model_infos(Config)

----------------------------------------------------------------------------
(* Tensors and memory *)

Null == 0

\* kInputEmbeddings, which the model owns: embeddings of one token.
ModelBlock == 1

Held ==
  {ModelBlock} \cup lost
    \cup {t.block : t \in {t \in {tensors[v] : v \in DOMAIN tensors}
                                 \cup {slots[s] : s \in DOMAIN slots} : ~t.view}}

count(dims) == IF Len(dims) = 1 THEN dims[1] ELSE dims[1] * dims[2]

idle == (1..Blocks) \ Held
allocatable(blocks) == blocks \cap Reusable(blocks)

\* f extended or updated at one point.
with(f, x, y) == [z \in DOMAIN f \cup {x} |-> IF z = x THEN y ELSE f[z]]

tensor(block, dims) == [block |-> block, dims |-> dims, view |-> FALSE, row |-> 0]

\* The memory of a local: "kv" is the pool's, one cell for each decoder layer.
Cell(v, op) == IF v = "kv" THEN <<"kv", op[1]>> ELSE <<"block", tensors[v].block>>
Cells == {<<"kv", l>> : l \in 1..model.layer_num} \cup {<<"block", b>> : b \in 0..Blocks}

Value == [batch |-> 0, op |-> <<0, "none">>, at |-> 0, row |-> 0, right |-> FALSE]

----------------------------------------------------------------------------
(* The decoder: what each operation must read *)

hidden(l) == IF l = 0 THEN <<0, "embedding", 1>> ELSE <<l, "add_mlp", 1>>

\* The inputs of an operation of a decoder layer, as producer, and which output.
Inputs(op) ==
  LET l == op[1]
      of(name, i) == <<l, name, i>>
      batch_of(name) == <<0, name, 1>>
  IN CASE op[2] = "embedding"      -> <<batch_of("tokens")>>
       [] op[2] = "input_norm"     -> <<hidden(l - 1)>>
       [] op[2] \in {"q_proj", "k_proj", "v_proj"} -> <<of("input_norm", 1)>>
       [] op[2] = "q_norm"         -> <<of("q_proj", 1)>>
       [] op[2] = "k_norm"         -> <<of("k_proj", 1)>>
       [] op[2] = "rope"           -> <<of("q_norm", 1), of("k_norm", 1), batch_of("positions")>>
       [] op[2] = "store"          -> <<of("rope", 2), of("v_proj", 1), batch_of("positions"),
                                        batch_of("tables")>>
       [] op[2] = "attention"      -> <<of("rope", 1), of("store", 1), batch_of("positions"),
                                        batch_of("tables")>>
       [] op[2] = "o_proj"         -> <<of("attention", 1)>>
       [] op[2] = "add_attention"  -> <<hidden(l - 1), of("o_proj", 1)>>
       [] op[2] = "post_attention_norm" -> <<of("add_attention", 1)>>
       [] op[2] \in {"gate_proj", "up_proj"} -> <<of("post_attention_norm", 1)>>
       [] op[2] = "swiglu"         -> <<of("gate_proj", 1), of("up_proj", 1)>>
       [] op[2] = "down_proj"      -> <<of("swiglu", 1)>>
       [] op[2] = "add_mlp"        -> <<of("add_attention", 1), of("down_proj", 1)>>
       [] op[2] = "norm"           -> <<hidden(model.layer_num)>>
       [] op[2] = "lm_head"        -> <<<<0, "norm", 1>>>>
       [] OTHER                    -> <<>>

----------------------------------------------------------------------------
(* Layers *)

\* Slip: the projection back is built as square.
weight_dims_square(name) ==
  CASE name = "q_proj"    -> <<model.query_dim, model.dim>>
    [] name \in {"k_proj", "v_proj"} -> <<model.kv_dim, model.dim>>
    [] name = "o_proj"    -> <<model.dim, model.dim>>
    [] name \in {"gate_proj", "up_proj"} -> <<model.hidden_dim, model.dim>>
    [] name = "down_proj" -> <<model.dim, model.hidden_dim>>
    [] name \in {"q_norm", "k_norm"} -> <<model.head_size>>
    [] name \in {"embedding", "lm_head"} -> <<model.vocab_size, model.dim>>
    [] OTHER              -> <<model.dim>>

\* The dimensions a layer is constructed with, which are those of its weight.
weight_dims(name) ==
  CASE name = "q_proj"    -> <<model.query_dim, model.dim>>
    [] name \in {"k_proj", "v_proj"} -> <<model.kv_dim, model.dim>>
    [] name = "o_proj"    -> <<model.dim, model.query_dim>>
    [] name \in {"gate_proj", "up_proj"} -> <<model.hidden_dim, model.dim>>
    [] name = "down_proj" -> <<model.dim, model.hidden_dim>>
    [] name \in {"q_norm", "k_norm"} -> <<model.head_size>>
    [] name \in {"embedding", "lm_head"} -> <<model.vocab_size, model.dim>>
    [] OTHER              -> <<model.dim>>

Norms == {"input_norm", "q_norm", "k_norm", "post_attention_norm", "norm"}
Adds == {"add_attention", "add_mlp"}

\* One object serves all the decoder layers for the operators without weights.
layer_object(op) ==
  IF op[2] \in Adds THEN <<0, "add">> ELSE IF op[2] = "swiglu" THEN <<0, "swiglu">> ELSE op

last(dims) == dims[Len(dims)]

\* Slip: only the tensors are looked at.
embedding_check_shapes(out) == out.block # Null /\ out.dims = <<rows, model.dim>>

\* check() of the embedding layer, which sees the token ids on the host.
embedding_check(out) ==
  /\ rows <= model.seq_len /\ in_vocabulary
  /\ out.block # Null /\ out.dims = <<rows, model.dim>>

\* check() of each other layer, for the tensors in its slots.
check(name, in, out) ==
  /\ \A n \in DOMAIN in : in[n].block # Null
  /\ out.block # Null
  /\ CASE name \in Norms -> last(in[1].dims) = weight_dims(name)[1] /\ out.dims = in[1].dims
       [] name \in Adds \cup {"swiglu"} ->
            /\ in[1].dims = in[2].dims /\ out.dims = in[1].dims
            /\ name = "swiglu" => last(out.dims) = model.hidden_dim
       [] OTHER ->
            /\ last(in[1].dims) = weight_dims(name)[2]
            /\ out.dims = [in[1].dims EXCEPT ![Len(in[1].dims)] = weight_dims(name)[1]]

----------------------------------------------------------------------------
(* The statements of forward_paged_batch *)

new(v, dims) == [do |-> "new", to |-> v, dims |-> dims]
view(v, of, dims, row) == [do |-> "view", to |-> v, of |-> of, dims |-> dims, row |-> row]
upload(v) == [do |-> "upload", to |-> v]
forward(op, in, out) == [do |-> "forward", op |-> op, in |-> in, out |-> out]
kernel(op, in, out) == [do |-> "kernel", op |-> op, in |-> in, out |-> out]
just(what) == [do |-> what]

\* Up to the decoder layers.  First embedding(): the tensor of the model for one
\* token, else one grown from it, and the layer's check; then the launcher takes a
\* device copy of the tokens, which the kernel is waited for.
batch_inputs(device_type, n) ==
  <<just(IF n = 1 THEN "share" ELSE "grow"),
    just("embed"),
    new("tokens", <<n>>),
    upload("tokens"),
    kernel(<<0, "embedding">>, <<"tokens">>, <<"hidden">>),
    just("synchronize"),
    new("tables", <<n, (model.seq_len + 1) \div 2>>),
    upload("tables"),
    new("positions", <<n>>),
    upload("positions"),
    new("scores", IF device_type = "cuda" THEN <<n * model.head_num, model.seq_len>>
                  ELSE <<model.head_num, model.seq_len>>)>>

decoder_layer(l, n) ==
  <<new("normalized", <<n, model.dim>>),
    forward(<<l, "input_norm">>, <<"hidden">>, "normalized"),
    new("query", <<n, model.query_dim>>),
    new("keys", <<n, model.kv_dim>>),
    new("values", <<n, model.kv_dim>>),
    forward(<<l, "q_proj">>, <<"normalized">>, "query"),
    forward(<<l, "k_proj">>, <<"normalized">>, "keys"),
    forward(<<l, "v_proj">>, <<"normalized">>, "values"),
    view("query_heads", "query", <<n * model.head_num, model.head_size>>, 0),
    view("key_heads", "keys", <<n * model.kv_head_num, model.head_size>>, 0),
    forward(<<l, "q_norm">>, <<"query_heads">>, "query_heads"),
    forward(<<l, "k_norm">>, <<"key_heads">>, "key_heads"),
    kernel(<<l, "rope">>, <<"query", "keys", "positions">>, <<"query", "keys">>),
    kernel(<<l, "store">>, <<"keys", "values", "positions", "tables">>, <<"kv">>),
    new("mha_output", <<n, model.query_dim>>),
    kernel(<<l, "attention">>, <<"query", "kv", "positions", "tables">>, <<"mha_output", "scores">>),
    new("attention_output", <<n, model.dim>>),
    forward(<<l, "o_proj">>, <<"mha_output">>, "attention_output"),
    new("residual", <<n, model.dim>>),
    forward(<<l, "add_attention">>, <<"hidden", "attention_output">>, "residual"),
    new("ffn_normalized", <<n, model.dim>>),
    forward(<<l, "post_attention_norm">>, <<"residual">>, "ffn_normalized"),
    new("gate", <<n, model.hidden_dim>>),
    new("up", <<n, model.hidden_dim>>),
    forward(<<l, "gate_proj">>, <<"ffn_normalized">>, "gate"),
    forward(<<l, "up_proj">>, <<"ffn_normalized">>, "up"),
    new("activated", <<n, model.hidden_dim>>),
    forward(<<l, "swiglu">>, <<"gate", "up">>, "activated"),
    new("down", <<n, model.dim>>),
    forward(<<l, "down_proj">>, <<"activated">>, "down"),
    new("next_hidden", <<n, model.dim>>),
    forward(<<l, "add_mlp">>, <<"residual", "down">>, "next_hidden"),
    just("leave_layer")>>

decoder_layers == [l \in 1..model.layer_num |-> [n \in Rows |-> decoder_layer(l, n)]]

final_norm(n) ==
  <<new("final_hidden", <<n, model.dim>>),
    forward(<<0, "norm">>, <<"hidden">>, "final_hidden")>>

sampled_row(r) ==
  <<view("hidden_row", "final_hidden", <<model.dim>>, r),
    new("row_logits", <<model.vocab_size>>),
    forward(<<0, "lm_head">>, <<"hidden_row">>, "row_logits"),
    just("fetch")>>

\* The statements of the part that runs.
code ==
  CASE part = "inputs" -> batch_inputs(device, rows)
    [] part = "layer"  -> decoder_layers[turn][rows]
    [] part = "norm"   -> final_norm(rows)
    [] part = "sample" -> sampled_row(turn)
    [] OTHER           -> <<just("return")>>

At(what) == part # "none" /\ code[pc].do = what
statement == code[pc]

\* The turn of the loop or the part that follows the last statement.
following ==
  CASE part = "inputs" -> <<"layer", 1>>
    [] part = "layer"  -> IF turn < model.layer_num THEN <<"layer", turn + 1>> ELSE <<"norm", 1>>
    [] part = "norm"   -> IF samples > 0 THEN <<"sample", 1>> ELSE <<"return", 1>>
    [] OTHER           -> IF turn < samples THEN <<"sample", turn + 1>> ELSE <<"return", 1>>

Advance ==
  IF pc < Len(code) THEN pc' = pc + 1 /\ UNCHANGED <<part, turn>>
  ELSE pc' = 1 /\ part' = following[1] /\ turn' = following[2]

----------------------------------------------------------------------------
(* The stream *)

\* A kernel reads what its inputs hold when it runs, not when it is queued.
reads_right(k) ==
  \A n \in DOMAIN k.in :
    LET c == contents[k.in[n]]
    IN c.right /\ c.batch = k.batch /\ <<c.op[1], c.op[2], c.at>> = Inputs(k.op)[n]

\* A null pointer among the operands is a fault.
faults(k) == <<"block", Null>> \in {k.in[n] : n \in DOMAIN k.in} \cup {k.out[n] : n \in DOMAIN k.out}

after(k) ==
  [c \in Cells |->
     IF \E n \in DOMAIN k.out : k.out[n] = c
     THEN [batch |-> k.batch, op |-> k.op, at |-> CHOOSE n \in DOMAIN k.out : k.out[n] = c,
           row |-> k.row, right |-> reads_right(k)]
     ELSE contents[c]]

work(op, in, out, row) ==
  [op |-> op, batch |-> batch, row |-> row,
   in |-> [n \in DOMAIN in |-> Cell(in[n], op)], out |-> [n \in DOMAIN out |-> Cell(out[n], op)]]

Leave(outcome) == part' = "none" /\ status' = outcome /\ UNCHANGED <<turn, pc>>
Continue == Advance /\ UNCHANGED status

\* A launch: queued on the GPU, done at once on the CPU.
Launch(k) ==
  IF device = "cuda" THEN stream' = Append(stream, k) /\ Continue /\ UNCHANGED contents
  ELSE IF faults(k) THEN Leave("crash") /\ UNCHANGED <<stream, contents>>
  ELSE contents' = after(k) /\ Continue /\ UNCHANGED stream

\* The device does the next kernel; a fault of one ends the process.
Execute ==
  /\ stream # <<>> /\ status # "crash"
  /\ stream' = Tail(stream)
  /\ IF faults(Head(stream)) THEN Leave("crash") /\ UNCHANGED contents
     ELSE contents' = after(Head(stream)) /\ UNCHANGED <<control, status>>
  /\ UNCHANGED <<call, memory, logits>>

----------------------------------------------------------------------------
(* forward_paged_batch *)

Init ==
  /\ device \in Devices
  /\ part = "none" /\ turn = 1 /\ pc = 1
  /\ batch = 0 /\ rows = 1 /\ samples = 0 /\ in_vocabulary = TRUE
  /\ tensors = <<>> /\ slots = <<>> /\ lost = {} /\ starved = {}
  /\ floats = [b \in 0..Blocks |-> 0]
  /\ contents = [c \in Cells |-> Value]
  /\ stream = <<>> /\ logits = <<>> /\ status = "ok"

\* A batch that passes the checks of its arguments; rows of several prompts may
\* be more than the model has positions, which embedding() refuses at once.
Start ==
  /\ part = "none" /\ status # "crash" /\ batch < MaxBatches
  /\ rows' \in Rows /\ samples' \in 0..rows' /\ in_vocabulary' \in BOOLEAN
  /\ batch' = batch + 1 /\ logits' = <<>>
  /\ IF rows' <= model.seq_len
     THEN part' = "inputs" /\ turn' = 1 /\ pc' = 1 /\ status' = "running"
     ELSE UNCHANGED control /\ status' = "error"
  /\ UNCHANGED <<device, memory, contents, stream>>

\* The token and index tensors and the logits, which the estimator leaves out.
Uncounted == {"tokens", "tables", "positions", "row_logits"}

\* A tensor of its own for a local; out of memory it stays without a block.
New ==
  /\ At("new")
  /\ \/ \E b \in allocatable(idle) :
           /\ tensors' = with(tensors, statement.to, tensor(b, statement.dims))
           /\ floats' = [floats EXCEPT ![b] =
                            IF statement.to \in Uncounted THEN 0 ELSE count(statement.dims)]
           /\ UNCHANGED starved
     \/ /\ batch \in Failing
        /\ tensors' = with(tensors, statement.to, tensor(Null, statement.dims))
        /\ starved' = starved \cup {batch} /\ UNCHANGED floats
  /\ Continue
  /\ UNCHANGED <<call, slots, lost, contents, stream, logits>>

View ==
  /\ At("view")
  /\ tensors' = with(tensors, statement.to,
                     [block |-> tensors[statement.of].block, dims |-> statement.dims,
                      view |-> TRUE, row |-> statement.row])
  /\ Continue
  /\ UNCHANGED <<call, slots, lost, floats, starved, contents, stream, logits>>

\* One token: the tensors of the model themselves.
Share ==
  /\ At("share")
  /\ tensors' = with(tensors, "hidden", tensor(ModelBlock, <<1, model.dim>>))
  /\ Continue
  /\ UNCHANGED <<call, slots, lost, floats, starved, contents, stream, logits>>

\* More: reshape allocates twice, loses the first block and copies the old
\* contents synchronously.
Grow ==
  /\ At("grow") /\ stream = <<>>
  /\ \/ \E first \in allocatable(idle) : \E second \in allocatable(idle \ {first}) :
           /\ lost' = lost \cup {first}
           /\ tensors' = with(tensors, "hidden", tensor(second, <<rows, model.dim>>))
           /\ floats' = [floats EXCEPT ![second] = rows * model.dim]
           /\ contents' = [contents EXCEPT ![<<"block", second>>] = contents[<<"block", ModelBlock>>]]
           /\ Continue /\ UNCHANGED starved
     \/ /\ batch \in Failing /\ Leave("crash") /\ starved' = starved \cup {batch}
        /\ UNCHANGED <<lost, tensors, floats, contents>>
  /\ UNCHANGED <<call, slots, stream, logits>>

\* EmbeddingLayer::forward up to the launch: its slots take the tensors, of which
\* the tokens are the host's, and its check refuses the batch or lets it go on.
Embed ==
  /\ At("embed")
  /\ slots' = with(slots, <<<<0, "embedding">>, 0>>, tensors["hidden"])
  /\ IF embedding_check(tensors["hidden"]) THEN Continue /\ UNCHANGED tensors
     ELSE Leave("error") /\ tensors' = <<>>
  /\ UNCHANGED <<call, lost, floats, starved, contents, stream, logits>>

\* The token ids go by a synchronous copy, which waits for the stream; tables
\* and positions by the stream, and there a failed allocation is an error.
Upload ==
  /\ At("upload")
  /\ LET v == statement.to
         k == work(<<0, v>>, <<>>, <<v>>, 0)
     IN IF tensors[v].block = Null
        THEN /\ Leave(IF device = "cuda" /\ v # "tokens" THEN "error" ELSE "crash")
             /\ tensors' = <<>> /\ UNCHANGED <<contents, stream>>
        ELSE /\ IF v = "tokens"
                THEN stream = <<>> /\ contents' = after(k) /\ Continue /\ UNCHANGED stream
                ELSE Launch(k)
             /\ UNCHANGED tensors
  /\ UNCHANGED <<call, slots, lost, floats, starved, logits>>

\* Layer::forward: the slots take the tensors, then check() and the kernel.
Forward ==
  /\ At("forward")
  /\ LET op  == statement.op
         in  == [n \in DOMAIN statement.in |-> tensors[statement.in[n]]]
         out == tensors[statement.out]
     IN /\ slots' = [s \in DOMAIN slots
                       \cup {<<layer_object(op), n>> : n \in 0..Len(in)} |->
                       IF s[1] # layer_object(op) THEN slots[s]
                       ELSE IF s[2] = 0 THEN out ELSE in[s[2]]]
        /\ IF check(op[2], in, out)
           THEN Launch(work(op, statement.in, <<statement.out>>,
                            IF op[2] = "lm_head" THEN in[1].row ELSE 0)) /\ UNCHANGED tensors
           ELSE Leave("error") /\ tensors' = <<>> /\ UNCHANGED <<stream, contents>>
  /\ UNCHANGED <<call, lost, floats, starved, logits>>

\* A kernel launched without a layer, and without a check of its tensors.
Kernel ==
  /\ At("kernel")
  /\ Launch(work(statement.op, statement.in, statement.out, 0))
  /\ UNCHANGED <<call, memory, logits>>

\* Behind the embedding kernel: the copy of the token ids may go.
Synchronize ==
  /\ At("synchronize") /\ stream = <<>>
  /\ tensors' = [v \in DOMAIN tensors \ {"tokens"} |-> tensors[v]]
  /\ Continue
  /\ UNCHANGED <<call, slots, lost, floats, starved, contents, stream, logits>>

\* The end of the loop's body: hidden = std::move(next_hidden), the rest goes.
LeaveLayer ==
  /\ At("leave_layer")
  /\ tensors' = [v \in {"hidden", "tables", "positions", "scores"} |->
                   IF v = "hidden" THEN tensors["next_hidden"] ELSE tensors[v]]
  /\ Continue
  /\ UNCHANGED <<call, slots, lost, floats, starved, contents, stream, logits>>

\* Slip: the logits are copied without waiting for the stream.
Fetch_unsynced ==
  /\ At("fetch")
  /\ logits' = Append(logits, contents[Cell("row_logits", <<0, "lm_head">>)])
  /\ tensors' = [v \in DOMAIN tensors \ {"row_logits", "hidden_row"} |-> tensors[v]]
  /\ Continue
  /\ UNCHANGED <<call, slots, lost, floats, starved, contents, stream>>

\* to_cpu, a synchronous copy: only the slot of lm_head keeps the device tensor.
Fetch ==
  /\ At("fetch") /\ stream = <<>>
  /\ logits' = Append(logits, contents[Cell("row_logits", <<0, "lm_head">>)])
  /\ tensors' = [v \in DOMAIN tensors \ {"row_logits", "hidden_row"} |-> tensors[v]]
  /\ Continue
  /\ UNCHANGED <<call, slots, lost, floats, starved, contents, stream>>

Return ==
  /\ At("return")
  /\ Leave("ok") /\ tensors' = <<>>
  /\ UNCHANGED <<call, slots, lost, floats, starved, contents, stream, logits>>

Next ==
  \/ Start \/ New \/ View \/ Share \/ Grow \/ Embed \/ Upload \/ Forward \/ Kernel
  \/ Synchronize \/ LeaveLayer \/ Fetch \/ Return \/ Execute

Spec == Init /\ [][Next]_vars

----------------------------------------------------------------------------
(* Properties *)

(* The layers, the tensors of a batch and the dimensions of the model agree:*)
(* a batch is refused for more rows than the context has positions, for a   *)
(* token id outside the vocabulary, or after a failed allocation, and passes*)
(* every check() otherwise; one with too many rows or an unknown id never   *)
(* returns.  Only a failed allocation makes a kernel meet a null pointer,   *)
(* and the views by heads cover their tensors exactly.                      *)
ShapesAgree ==
  /\ status = "error" => batch \in starved \/ rows > model.seq_len \/ ~in_vocabulary
  /\ status = "ok" /\ batch > 0 => rows <= model.seq_len /\ in_vocabulary
  /\ status = "crash" => starved # {}
  /\ \A v \in DOMAIN tensors \cap {"query_heads", "key_heads"} :
       count(tensors[v].dims) =
         count(tensors[IF v = "query_heads" THEN "query" ELSE "keys"].dims)

(* Whatever blocks the allocator reuses, whatever earlier batches, failed   *)
(* ones too, left in the slots, and however far the device lags behind the  *)
(* host, a batch that returns has computed the decoder: every operation has *)
(* read the results of the operations it depends on, of this batch, down to *)
(* the logits of each sampled row and the keys and values of every layer.   *)
ComputesDecoder ==
  status = "ok" /\ batch > 0 =>
    /\ Len(logits) = samples
    /\ \A r \in DOMAIN logits :
         logits[r] = [batch |-> batch, op |-> <<0, "lm_head">>, at |-> 1, row |-> r, right |-> TRUE]
    /\ stream = <<>> =>
         \A l \in 1..model.layer_num :
           contents[<<"kv", l>>] =
             [batch |-> batch, op |-> <<l, "store">>, at |-> 1, row |-> 0, right |-> TRUE]

(* README.md:50: the estimator leaves additional room for workspaces.  The  *)
(* tensors that locals and slots hold fit the reserve the estimator leaves  *)
(* for the largest batch, on a GPU whose twentieth is no more than the least*)
(* reserve.  False: the slots of every decoder layer keep the tensors of    *)
(* that layer until it is called again.                                     *)
WorkspaceCovered ==
  FloatSize * MapThenSumSet(LAMBDA b : floats[b], Held \ (lost \cup {ModelBlock}))
    <= reserve_bytes(model, Max(Rows), 20 * MinReserve)
=============================================================================
