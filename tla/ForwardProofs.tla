---------------------------- MODULE ForwardProofs ----------------------------
(***************************************************************************)
(* For every model configuration, batch size, number of batches, allocator  *)
(* and delay of the device: the dimensions of layers and tensors agree, and *)
(* a batch that returns has computed the decoder.                           *)
(*                                                                          *)
(* The argument has two halves.  The static one walks the statements: at    *)
(* each point it is known which locals live, with what dimensions (dims_of),*)
(* and which operation's result each must hold (Source); every statement    *)
(* fits that table and moves the point to the next entry of it              *)
(* (StatementFits, StatementMoves).  The dynamic one carries the table over *)
(* to memory: live locals that own memory have blocks of their own (Apart), *)
(* and each cell, once the queue in front of it has run, holds what the     *)
(* table says (Leaves, Holds).  Blocks that slots keep never matter: the    *)
(* allocator only hands out what nobody holds.                              *)
(***************************************************************************)
EXTENDS Forward, TLAPS

----------------------------------------------------------------------------
(* The locals of forward_paged_batch *)

Views == {"query_heads", "key_heads", "hidden_row"}

Owners ==
  {"hidden", "tokens", "tables", "positions", "scores", "normalized", "query", "keys", "values",
   "mha_output", "attention_output", "residual", "ffn_normalized", "gate", "up", "activated",
   "down", "next_hidden", "final_hidden", "row_logits"}

Locals == Views \cup Owners

\* The local whose memory a local is.
base(v) ==
  CASE v = "query_heads" -> "query"
    [] v = "key_heads"   -> "keys"
    [] v = "hidden_row"  -> "final_hidden"
    [] OTHER             -> v

dims_of(v) ==
  CASE v \in {"tokens", "positions"} -> <<rows>>
    [] v = "tables" -> <<rows, (model.seq_len + 1) \div 2>>
    [] v = "scores" -> IF device = "cuda" THEN <<rows * model.head_num, model.seq_len>>
                       ELSE <<model.head_num, model.seq_len>>
    [] v \in {"query", "mha_output"} -> <<rows, model.query_dim>>
    [] v \in {"keys", "values"} -> <<rows, model.kv_dim>>
    [] v = "query_heads" -> <<rows * model.head_num, model.head_size>>
    [] v = "key_heads" -> <<rows * model.kv_head_num, model.head_size>>
    [] v \in {"gate", "up", "activated"} -> <<rows, model.hidden_dim>>
    [] v = "hidden_row" -> <<model.dim>>
    [] v = "row_logits" -> <<model.vocab_size>>
    [] OTHER -> <<rows, model.dim>>

\* The statement of a layer that makes a local.
born(v) ==
  CASE v = "normalized" -> 1 [] v = "query" -> 3 [] v = "keys" -> 4 [] v = "values" -> 5
    [] v = "query_heads" -> 9 [] v = "key_heads" -> 10 [] v = "mha_output" -> 15
    [] v = "attention_output" -> 17 [] v = "residual" -> 19 [] v = "ffn_normalized" -> 21
    [] v = "gate" -> 23 [] v = "up" -> 24 [] v = "activated" -> 27 [] v = "down" -> 29
    [] OTHER -> 31

\* Whether a local exists before statement i of a part.
live(v, P, i) ==
  CASE v = "hidden"       -> P # "inputs" \/ i >= 2
    [] v = "tokens"       -> P = "inputs" /\ i \in {4, 5, 6}
    [] v = "tables"       -> P # "inputs" \/ i >= 8
    [] v = "positions"    -> P # "inputs" \/ i >= 10
    [] v = "scores"       -> P # "inputs"
    [] v = "final_hidden" -> P \in {"sample", "return"} \/ (P = "norm" /\ i = 2)
    [] v = "hidden_row"   -> P = "sample" /\ i >= 2
    [] v = "row_logits"   -> P = "sample" /\ i >= 3
    [] OTHER              -> P = "layer" /\ i > born(v)

None == <<0, "none", 0>>

\* What wrote the memory of a local last, before statement i of turn t of a part.
source(v, P, t, i) ==
  CASE v = "hidden" ->
         IF P = "inputs" THEN IF i >= 6 THEN hidden(0) ELSE None
         ELSE IF P = "layer" THEN hidden(t - 1) ELSE hidden(model.layer_num)
    [] v = "tokens" -> IF i >= 5 THEN <<0, "tokens", 1>> ELSE None
    [] v = "tables" -> IF P # "inputs" \/ i >= 9 THEN <<0, "tables", 1>> ELSE None
    [] v = "positions" -> IF P # "inputs" \/ i >= 11 THEN <<0, "positions", 1>> ELSE None
    [] v = "normalized" -> IF i > 2 THEN <<t, "input_norm", 1>> ELSE None
    [] v = "query" -> IF i > 13 THEN <<t, "rope", 1>> ELSE IF i > 11 THEN <<t, "q_norm", 1>>
                      ELSE IF i > 6 THEN <<t, "q_proj", 1>> ELSE None
    [] v = "keys" -> IF i > 13 THEN <<t, "rope", 2>> ELSE IF i > 12 THEN <<t, "k_norm", 1>>
                     ELSE IF i > 7 THEN <<t, "k_proj", 1>> ELSE None
    [] v = "values" -> IF i > 8 THEN <<t, "v_proj", 1>> ELSE None
    [] v = "mha_output" -> IF i > 16 THEN <<t, "attention", 1>> ELSE None
    [] v = "attention_output" -> IF i > 18 THEN <<t, "o_proj", 1>> ELSE None
    [] v = "residual" -> IF i > 20 THEN <<t, "add_attention", 1>> ELSE None
    [] v = "ffn_normalized" -> IF i > 22 THEN <<t, "post_attention_norm", 1>> ELSE None
    [] v = "gate" -> IF i > 25 THEN <<t, "gate_proj", 1>> ELSE None
    [] v = "up" -> IF i > 26 THEN <<t, "up_proj", 1>> ELSE None
    [] v = "activated" -> IF i > 28 THEN <<t, "swiglu", 1>> ELSE None
    [] v = "down" -> IF i > 30 THEN <<t, "down_proj", 1>> ELSE None
    [] v = "next_hidden" -> IF i > 32 THEN <<t, "add_mlp", 1>> ELSE None
    [] v = "final_hidden" -> IF P # "norm" THEN <<0, "norm", 1>> ELSE None
    [] v = "row_logits" -> IF i > 3 THEN <<0, "lm_head", 1>> ELSE None
    [] OTHER -> None

\* The layers whose keys and values are stored.
stored(P, t, i) ==
  {l \in 1..model.layer_num :
     \/ P \in {"none", "norm", "sample", "return"}
     \/ P = "layer" /\ (l < t \/ (l = t /\ i > 14))}

Length(P) == CASE P = "inputs" -> 11 [] P = "layer" -> 33 [] P = "norm" -> 2 [] P = "sample" -> 4
               [] OTHER -> 1

----------------------------------------------------------------------------
(* What the queued kernels will have done *)

\* What an operation leaves: src is an operation with one of its outputs.
Made(b, src, r) ==
  [batch |-> b, op |-> <<src[1], src[2]>>, at |-> src[3], row |-> r, right |-> TRUE]

Operations ==
  {"tokens", "tables", "positions", "embedding", "input_norm", "q_proj", "k_proj", "v_proj",
   "q_norm", "k_norm", "rope", "store", "attention", "o_proj", "add_attention",
   "post_attention_norm", "gate_proj", "up_proj", "swiglu", "down_proj", "add_mlp", "norm",
   "lm_head"}

Kernels == [op : Nat \X Operations, batch : Nat, row : Nat, in : Seq(Cells), out : Seq(Cells)]

writes(k, c) == \E n \in DOMAIN k.out : k.out[n] = c

Result(k, c) ==
  [batch |-> k.batch, op |-> k.op, at |-> CHOOSE n \in DOMAIN k.out : k.out[n] = c,
   row |-> k.row, right |-> TRUE]

\* After the first m kernels of the stream a cell holds r.
Leaves(m, c, r) ==
  \/ \E i \in 1..m : /\ writes(stream[i], c) /\ r = Result(stream[i], c)
                     /\ \A j \in (i + 1)..m : ~writes(stream[j], c)
  \/ contents[c] = r /\ \A j \in 1..m : ~writes(stream[j], c)

\* What the host may count on once the stream is empty.
Holds(c, r) == Leaves(Len(stream), c, r)

\* Behind the first m kernels of the stream, k finds what it must read.
Ready(m, k) ==
  ~faults(k) =>
    \A n \in DOMAIN k.in :
      LET src == Inputs(k.op)[n]
      IN src = <<src[1], src[2], src[3]>> /\ Leaves(m, k.in[n], Made(k.batch, src, 0))

StreamRight == \A i \in 1..Len(stream) : Ready(i - 1, stream[i])

----------------------------------------------------------------------------
(* The invariant *)

Running == part # "none"
Returned == part = "none" /\ status = "ok" /\ batch > 0

ControlOK ==
  /\ device \in Devices /\ batch \in Nat /\ rows \in Nat \ {0} /\ samples \in Nat
  /\ part \in {"none", "inputs", "layer", "norm", "sample", "return"}
  /\ turn \in Nat /\ pc \in Nat
  /\ Running => pc \in 1..Length(part) /\ batch > 0 /\ rows \in Rows /\ status = "running"
  /\ ~Running => status \in {"ok", "error", "crash"}
  /\ part = "layer" => turn \in 1..model.layer_num
  /\ part = "sample" => turn \in 1..samples

StreamOK ==
  /\ stream \in Seq(Kernels)
  /\ device # "cuda" => stream = <<>>
  /\ \A i \in 1..Len(stream) : faults(stream[i]) => starved # {}
  /\ status # "crash" => StreamRight

TensorOK(v) ==
  /\ tensors[v].block \in 0..Blocks
  /\ tensors[v].dims = dims_of(v)
  /\ tensors[v].view <=> v \in Views
  /\ v \in Views => base(v) \in DOMAIN tensors /\ tensors[v].block = tensors[base(v)].block

TensorsOK == DOMAIN tensors \subseteq Locals /\ \A v \in DOMAIN tensors : TensorOK(v)

\* Two tensors of their own never share a block.
Apart ==
  \A u, v \in DOMAIN tensors :
    tensors[u].block = tensors[v].block /\ tensors[u].block # Null => base(u) = base(v)

LocalsOK ==
  IF Running
  THEN /\ DOMAIN tensors = {v \in Locals : live(v, part, pc)}
       /\ \A v \in DOMAIN tensors : tensors[v].block = Null => batch \in starved
  ELSE status # "crash" => tensors = <<>>

\* Every local holds what its last operation makes of its inputs.
Filled ==
  Running =>
    \A v \in DOMAIN tensors \cap Owners :
      source(v, part, turn, pc) # None /\ tensors[v].block # Null =>
        Holds(<<"block", tensors[v].block>>,
              Made(batch, source(v, part, turn, pc), IF v = "row_logits" THEN turn ELSE 0))

\* The row that is sampled, and what check() has seen before it is fetched.
RowOK ==
  part = "sample" =>
    /\ pc >= 2 => tensors["hidden_row"].row = turn
    /\ pc = 4 => tensors["row_logits"].block # Null

KvFilled ==
  Running \/ Returned =>
    \A l \in stored(part, turn, pc) : Holds(<<"kv", l>>, Made(batch, <<l, "store", 1>>, 0))

Read ==
  CASE Running /\ part # "sample" /\ part # "return" -> 0
    [] part = "sample" -> turn - 1
    [] OTHER -> samples

LogitsOK ==
  Running \/ Returned =>
    /\ logits = [r \in 1..Read |-> Made(batch, <<0, "lm_head", 1>>, r)]

StatusOK ==
  /\ status = "error" => batch \in starved \/ rows > model.seq_len \/ ~in_vocabulary
  /\ status = "crash" => starved # {}

IInv ==
  /\ ControlOK /\ StreamOK /\ TensorsOK /\ Apart /\ LocalsOK /\ Filled /\ RowOK /\ KvFilled
  /\ LogitsOK /\ StatusOK

----------------------------------------------------------------------------
(* The stream *)

LEMMA AfterIs ==
  ASSUME NEW k, NEW c \in Cells
  PROVE  /\ ~writes(k, c) => after(k)[c] = contents[c]
         /\ writes(k, c) => after(k)[c] = [Result(k, c) EXCEPT !.right = reads_right(k)]
         /\ writes(k, c) /\ reads_right(k) => after(k)[c] = Result(k, c)
<1> DEFINE n == CHOOSE n \in DOMAIN k.out : k.out[n] = c
<1>1. after(k)[c] = IF writes(k, c)
                    THEN [batch |-> k.batch, op |-> k.op, at |-> n,
                          row |-> k.row, right |-> reads_right(k)]
                    ELSE contents[c]
  BY Zenon DEF after, writes
<1>2. Result(k, c) = [batch |-> k.batch, op |-> k.op, at |-> n, row |-> k.row, right |-> TRUE]
  BY Zenon DEF Result
<1> HIDE DEF n
<1>3. reads_right(k) \in BOOLEAN
  BY DEF reads_right
<1>4. writes(k, c) => [Result(k, c) EXCEPT !.right = reads_right(k)]
                    = [batch |-> k.batch, op |-> k.op, at |-> n, row |-> k.row,
                       right |-> reads_right(k)]
  BY <1>2
<1> QED
  BY <1>1, <1>2, <1>4

\* A kernel that is ready and runs at once reads what it must.
LEMMA ReadyReads ==
  ASSUME NEW k, Ready(0, k), ~faults(k)
  PROVE  reads_right(k)
<1> SUFFICES ASSUME NEW n \in DOMAIN k.in
             PROVE  LET c == contents[k.in[n]]
                    IN c.right /\ c.batch = k.batch
                         /\ <<c.op[1], c.op[2], c.at>> = Inputs(k.op)[n]
  BY DEF reads_right
<1> DEFINE src == Inputs(k.op)[n]
<1>1. src = <<src[1], src[2], src[3]>> /\ Leaves(0, k.in[n], Made(k.batch, src, 0))
  BY Zenon DEF Ready
<1>2. contents[k.in[n]] = Made(k.batch, src, 0)
  BY <1>1 DEF Leaves
<1> HIDE DEF src
<1>3. /\ Made(k.batch, src, 0).right /\ Made(k.batch, src, 0).batch = k.batch
      /\ Made(k.batch, src, 0).op = <<src[1], src[2]>> /\ Made(k.batch, src, 0).at = src[3]
  BY DEF Made
<1> QED
  BY <1>1, <1>2, <1>3 DEF src

\* When the first kernel runs, what the first m kernels leave stays what they leave.
LEMMA ExecuteKeeps ==
  ASSUME stream \in Seq(Kernels), stream # <<>>, Ready(0, Head(stream)), ~faults(Head(stream)),
         stream' = Tail(stream), contents' = after(Head(stream)),
         NEW c \in Cells, NEW r, NEW m \in 0..(Len(stream) - 1), Leaves(m + 1, c, r)
  PROVE  Leaves(m, c, r)'
<1>1. /\ Len(stream) \in Nat /\ Len(stream) >= 1 /\ Len(stream') = Len(stream) - 1
      /\ \A i \in 1..(Len(stream) - 1) : stream'[i] = stream[i + 1]
      /\ Head(stream) = stream[1]
  OBVIOUS
<1>2. reads_right(stream[1])
  BY <1>1, ReadyReads
<1>3. \A i \in 1..m : stream'[i] = stream[i + 1]
  BY <1>1
<1>4. CASE \E i \in 1..(m + 1) : /\ writes(stream[i], c) /\ r = Result(stream[i], c)
                                 /\ \A j \in (i + 1)..(m + 1) : ~writes(stream[j], c)
  <2>1. PICK i \in 1..(m + 1) : /\ writes(stream[i], c) /\ r = Result(stream[i], c)
                                /\ \A j \in (i + 1)..(m + 1) : ~writes(stream[j], c)
    BY <1>4
  <2>2. CASE i = 1
    <3>1. contents'[c] = r
      <4>1. after(stream[1])[c] = Result(stream[1], c)
        BY <1>2, <2>1, <2>2, AfterIs
      <4> QED
        BY <1>1, <2>1, <2>2, <4>1
    <3>2. ASSUME NEW j \in 1..m PROVE ~writes(stream'[j], c)
      <4>1. j + 1 \in (i + 1)..(m + 1)
        BY <2>2
      <4> QED
        BY <1>3, <2>1, <4>1
    <3> QED
      BY <3>1, <3>2 DEF Leaves, writes
  <2>3. CASE i # 1
    <3>1. i - 1 \in 1..m /\ stream'[i - 1] = stream[i]
      BY <1>3, <2>3
    <3>2. ASSUME NEW j \in ((i - 1) + 1)..m PROVE ~writes(stream'[j], c)
      <4>1. j \in 1..m /\ j + 1 \in (i + 1)..(m + 1)
        BY <2>3
      <4> QED
        BY <1>3, <2>1, <4>1
    <3>3. writes(stream'[i - 1], c) /\ r = Result(stream'[i - 1], c)
      BY <2>1, <3>1
    <3> QED
      BY <3>1, <3>2, <3>3 DEF Leaves, writes, Result
  <2> QED
    BY <2>2, <2>3
<1>5. CASE contents[c] = r /\ \A j \in 1..(m + 1) : ~writes(stream[j], c)
  <2>1. contents'[c] = r
    <3>1. ~writes(stream[1], c)
      BY <1>5
    <3>2. after(stream[1])[c] = contents[c]
      BY <3>1, AfterIs
    <3> QED
      BY <1>1, <1>5, <3>2
  <2>2. ASSUME NEW j \in 1..m PROVE ~writes(stream'[j], c)
    BY <1>3, <1>5
  <2> QED
    BY <2>1, <2>2 DEF Leaves, writes
<1> QED
  BY <1>4, <1>5 DEF Leaves

\* How a kernel gets to the device.
Launched(k) ==
  \/ stream' = Append(stream, k) /\ contents' = contents
  \/ stream = <<>> /\ stream' = stream /\ contents' = after(k) /\ ~faults(k)

LEMMA LeavesSame ==
  ASSUME NEW m \in Nat, NEW c, NEW r, \A i \in 1..m : stream'[i] = stream[i],
         contents' = contents
  PROVE  Leaves(m, c, r)' <=> Leaves(m, c, r)
BY DEF Leaves, writes, Result

LEMMA ReadySame ==
  ASSUME NEW m \in Nat, NEW k, \A i \in 1..m : stream'[i] = stream[i], contents' = contents
  PROVE  Ready(m, k)' <=> Ready(m, k)
BY LeavesSame, Zenon DEF Ready

LEMMA LaunchKeeps ==
  ASSUME stream \in Seq(Kernels), StreamRight, NEW k \in Kernels, Ready(Len(stream), k),
         Launched(k)
  PROVE  /\ stream' \in Seq(Kernels) /\ StreamRight'
         /\ \A i \in 1..Len(stream') : (i \in 1..Len(stream) /\ stream'[i] = stream[i]) \/ stream'[i] = k
         /\ \A c \in Cells : \A r :
              (writes(k, c) /\ r = Result(k, c)) \/ (~writes(k, c) /\ Holds(c, r)) => Holds(c, r)'
<1>0. Len(stream) \in Nat
  OBVIOUS
<1>1. CASE stream' = Append(stream, k) /\ contents' = contents
  <2>1. /\ stream' \in Seq(Kernels) /\ Len(stream') = Len(stream) + 1
        /\ \A i \in 1..Len(stream) : stream'[i] = stream[i]
        /\ stream'[Len(stream) + 1] = k
    BY <1>1
  <2> PICK n \in Nat : n = Len(stream)
    BY <1>0
  <2>2. \A m \in 0..n : \A c, r : Leaves(m, c, r)' <=> Leaves(m, c, r)
    BY <1>0, <1>1, <2>1, LeavesSame
  <2>3. \A m \in 0..n : \A kk : Ready(m, kk)' <=> Ready(m, kk)
    BY <1>0, <1>1, <2>1, ReadySame
  <2>4. StreamRight'
    <3> SUFFICES ASSUME NEW i \in 1..Len(stream') PROVE Ready(i - 1, stream[i])'
      BY DEF StreamRight
    <3>1. CASE i \in 1..n
      <4>1. Ready(i - 1, stream[i])
        BY <3>1 DEF StreamRight
      <4>2. i - 1 \in 0..n /\ stream'[i] = stream[i]
        BY <1>0, <2>1, <3>1
      <4> QED
        BY <2>3, <4>1, <4>2
    <3>2. CASE i = n + 1
      <4>1. i - 1 = n /\ n \in 0..n /\ stream'[i] = k
        BY <1>0, <2>1, <3>2
      <4> QED
        BY <2>3, <4>1
    <3> QED
      BY <1>0, <2>1, <3>1, <3>2
  <2>5. ASSUME NEW c \in Cells, NEW r,
               (writes(k, c) /\ r = Result(k, c)) \/ (~writes(k, c) /\ Holds(c, r))
        PROVE  Holds(c, r)'
    <3>1. n \in Nat /\ Len(stream') = n + 1 /\ stream'[n + 1] = k
          /\ \A i \in 1..n : stream'[i] = stream[i]
      BY <1>0, <2>1
    <3>2. CASE writes(k, c) /\ r = Result(k, c)
      <4>1. writes(stream'[n + 1], c) /\ r = Result(stream'[n + 1], c)
        BY <3>1, <3>2
      <4>2. \A j \in ((n + 1) + 1)..(n + 1) : ~writes(stream'[j], c)
        BY <3>1
      <4>3. n + 1 \in 1..(n + 1)
        BY <3>1
      <4>4. Leaves(n + 1, c, r)'
        BY <4>1, <4>2, <4>3, Zenon DEF Leaves, writes, Result
      <4> QED
        BY <3>1, <4>4 DEF Holds
    <3>3. CASE ~writes(k, c) /\ Holds(c, r)
      <4>1. Leaves(n, c, r)
        BY <3>3 DEF Holds
      <4>2. CASE \E i \in 1..n : /\ writes(stream[i], c) /\ r = Result(stream[i], c)
                                 /\ \A j \in (i + 1)..n : ~writes(stream[j], c)
        <5>1. PICK i \in 1..n : /\ writes(stream[i], c) /\ r = Result(stream[i], c)
                                /\ \A j \in (i + 1)..n : ~writes(stream[j], c)
          BY <4>2
        <5>2. i \in 1..(n + 1) /\ writes(stream'[i], c) /\ r = Result(stream'[i], c)
          BY <3>1, <5>1
        <5>3. \A j \in (i + 1)..(n + 1) : ~writes(stream'[j], c)
          BY <3>1, <3>3, <5>1
        <5>4. Leaves(n + 1, c, r)'
          BY <5>2, <5>3, Zenon DEF Leaves, writes, Result
        <5> QED
          BY <3>1, <5>4 DEF Holds
      <4>3. CASE contents[c] = r /\ \A j \in 1..n : ~writes(stream[j], c)
        <5>1. contents'[c] = r /\ \A j \in 1..(n + 1) : ~writes(stream'[j], c)
          BY <1>1, <3>1, <3>3, <4>3
        <5>2. Leaves(n + 1, c, r)'
          BY <5>1, Zenon DEF Leaves, writes
        <5> QED
          BY <3>1, <5>2 DEF Holds
      <4> QED
        BY <4>1, <4>2, <4>3 DEF Leaves
    <3> QED
      BY <2>5, <3>2, <3>3
  <2>6. \A c \in Cells : \A r :
          (writes(k, c) /\ r = Result(k, c)) \/ (~writes(k, c) /\ Holds(c, r)) => Holds(c, r)'
    <3> TAKE c \in Cells
    <3> TAKE r
    <3> HAVE (writes(k, c) /\ r = Result(k, c)) \/ (~writes(k, c) /\ Holds(c, r))
    <3> QED
      BY <2>5
  <2> QED
    BY <1>0, <2>1, <2>4, <2>6
<1>2. CASE stream = <<>> /\ stream' = stream /\ contents' = after(k) /\ ~faults(k)
  <2>1. Len(stream) = 0 /\ stream' \in Seq(Kernels) /\ Len(stream') = 0
    BY <1>2
  <2>2. StreamRight'
    BY <2>1 DEF StreamRight
  <2>3. reads_right(k)
    BY <1>2, <2>1, ReadyReads
  <2>4. \A c, r : (Holds(c, r) <=> contents[c] = r) /\ (Holds(c, r)' <=> contents'[c] = r)
    BY <2>1 DEF Holds, Leaves
  <2>5. ASSUME NEW c \in Cells, NEW r,
               (writes(k, c) /\ r = Result(k, c)) \/ (~writes(k, c) /\ Holds(c, r))
        PROVE  Holds(c, r)'
    <3>1. CASE writes(k, c) /\ r = Result(k, c)
      <4>1. after(k)[c] = Result(k, c)
        BY <2>3, <3>1, AfterIs
      <4> QED
        BY <1>2, <2>4, <3>1, <4>1
    <3>2. CASE ~writes(k, c) /\ Holds(c, r)
      <4>1. after(k)[c] = contents[c]
        BY <3>2, AfterIs
      <4> QED
        BY <1>2, <2>4, <3>2, <4>1
    <3> QED
      BY <2>5, <3>1, <3>2
  <2>6. \A c \in Cells : \A r :
          (writes(k, c) /\ r = Result(k, c)) \/ (~writes(k, c) /\ Holds(c, r)) => Holds(c, r)'
    <3> TAKE c \in Cells
    <3> TAKE r
    <3> HAVE (writes(k, c) /\ r = Result(k, c)) \/ (~writes(k, c) /\ Holds(c, r))
    <3> QED
      BY <2>5
  <2> QED
    BY <2>1, <2>2, <2>6
<1> QED
  BY <1>1, <1>2 DEF Launched

----------------------------------------------------------------------------
(* The statements *)

Live(v) == live(v, part, pc)
Source(v) == source(v, part, turn, pc)
Stored == stored(part, turn, pc)

\* What an operation reads is there.
Found(op, v, src) ==
  IF v = "kv" THEN op[1] \in Stored /\ src = <<op[1], "store", 1>>
  ELSE /\ v \in Locals /\ Live(v) /\ base(v) # "row_logits"
       /\ Source(base(v)) = src /\ src # None /\ src = <<src[1], src[2], src[3]>>

Reads(op, in) ==
  in \in Seq(Locals \cup {"kv"}) /\ \A n \in DOMAIN in : Found(op, in[n], Inputs(op)[n])

Writes(op, out, row) ==
  /\ op \in Nat \X Operations /\ op = <<op[1], op[2]>> /\ row \in Nat
  /\ out \in Seq(Locals \cup {"kv"})
  /\ \A n \in DOMAIN out :
       \/ out[n] = "kv" /\ n = 1 /\ op[2] = "store" /\ op[1] \in 1..model.layer_num /\ row = 0
       \/ out[n] \in Locals /\ Live(out[n])
  /\ \A m, n \in DOMAIN out : base(out[m]) = base(out[n]) => m = n

\* The tensors a layer is given pass its check.
ShapesFit(op, in, out) ==
  (\A v \in Locals : Live(v) => tensors[v].dims = dims_of(v))
    /\ (\A n \in DOMAIN in : tensors[in[n]].block # Null) /\ tensors[out].block # Null
    => check(op[2], [n \in DOMAIN in |-> tensors[in[n]]], tensors[out])

RowOf(op) == IF op[2] = "lm_head" THEN turn ELSE 0

\* The statement finds what it needs.
StatementFits ==
  /\ statement.do \in {"new", "view", "share", "grow", "embed", "upload", "forward", "kernel",
                       "synchronize", "leave_layer", "fetch", "return"}
  /\ statement.do = "new" =>
       statement.to \in Owners /\ ~Live(statement.to) /\ statement.dims = dims_of(statement.to)
  /\ statement.do = "view" =>
       /\ statement.to \in Views /\ ~Live(statement.to) /\ statement.dims = dims_of(statement.to)
       /\ statement.of = base(statement.to) /\ Live(statement.of)
       /\ statement.to = "hidden_row" => statement.row = turn
  /\ statement.do = "share" => rows = 1
  /\ statement.do \in {"share", "grow"} => \A v \in Locals : ~Live(v)
  /\ statement.do = "embed" => part = "inputs" /\ Live("hidden")
  /\ statement.do = "upload" =>
       /\ statement.to \in Owners /\ Live(statement.to)
       /\ Writes(<<0, statement.to>>, <<statement.to>>, 0)
  /\ statement.do = "forward" =>
       /\ Reads(statement.op, statement.in)
       /\ Writes(statement.op, <<statement.out>>, RowOf(statement.op))
       /\ ShapesFit(statement.op, statement.in, statement.out)
       /\ statement.out # "kv" /\ \A n \in DOMAIN statement.in : statement.in[n] # "kv"
       /\ statement.op[2] = "lm_head" => part = "sample" /\ pc = 3 /\ statement.in = <<"hidden_row">>
  /\ statement.do = "kernel" =>
       Reads(statement.op, statement.in) /\ Writes(statement.op, statement.out, 0)
  /\ statement.do = "leave_layer" => Live("next_hidden")
  /\ statement.do = "fetch" =>
       part = "sample" /\ pc = 4 /\ Live("row_logits") /\ Source("row_logits") = <<0, "lm_head", 1>>
  /\ statement.do = "synchronize" => part = "inputs"
  /\ statement.do = "return" => part = "return"

\* Nothing new is expected of a local.
Keeps(v) == Source(v)' = None \/ (Source(v)' = Source(v) /\ (v = "row_logits" => turn' = turn))

\* What a local is expected to hold after an operation.
Expected(op, out, row, v) ==
  \/ Source(v)' = None
  \/ \E n \in DOMAIN out :
       base(out[n]) = v /\ Source(v)' = <<op[1], op[2], n>>
         /\ row = IF v = "row_logits" THEN turn' ELSE 0
  \/ Keeps(v) /\ \A n \in DOMAIN out : base(out[n]) # v

SameLocals == \A v \in Locals : Live(v)' <=> Live(v)

\* One more local, of which nothing is expected.
OneMore(w) ==
  /\ \A v \in Locals : Live(v)' <=> v = w \/ Live(v)
  /\ \A v \in Owners : Live(v) => Keeps(v)
  /\ w \in Owners => Source(w)' = None

\* The row that is sampled stays, and it is fetched after its logits are computed.
SameRow ==
  part' = "sample" =>
    /\ pc' >= 2 => part = "sample" /\ pc >= 2 /\ turn' = turn
    /\ pc' = 4 => statement.do = "forward" /\ statement.out = "row_logits"

Steady == Read' = Read /\ \A l \in Stored' : l \in Stored

WorkMoves(op, out, row) ==
  /\ SameLocals /\ Read' = Read /\ SameRow
  /\ \A v \in Owners : Live(v) => Expected(op, out, row, v)
  /\ \A l \in Stored' : l \in Stored \/ (l = op[1] /\ out[1] = "kv" /\ 1 \in DOMAIN out)

\* The next statement expects no more than this one leaves.
StatementMoves ==
  /\ statement.do = "new" => OneMore(statement.to) /\ Steady /\ SameRow
  /\ statement.do = "view" =>
       /\ OneMore(statement.to) /\ Steady
       /\ part' = "sample" => statement.to = "hidden_row" /\ pc' = 2 /\ turn' = turn
  /\ statement.do \in {"share", "grow"} =>
       OneMore("hidden") /\ Steady /\ Stored' = {} /\ part' # "sample"
  /\ statement.do = "embed" =>
       SameLocals /\ (\A v \in Owners : Live(v) => Keeps(v)) /\ Steady /\ part' # "sample"
  /\ statement.do = "upload" => WorkMoves(<<0, statement.to>>, <<statement.to>>, 0)
  /\ statement.do = "forward" =>
       WorkMoves(statement.op, <<statement.out>>, RowOf(statement.op))
  /\ statement.do = "kernel" => WorkMoves(statement.op, statement.out, 0)
  /\ statement.do = "synchronize" =>
       /\ \A v \in Locals : Live(v)' <=> v # "tokens" /\ Live(v)
       /\ \A v \in Owners \ {"tokens"} : Live(v) => Keeps(v)
       /\ Steady /\ part' # "sample"
  /\ statement.do = "leave_layer" =>
       /\ \A v \in Locals : Live(v)' <=> v \in {"hidden", "tables", "positions", "scores"}
       /\ \A v \in {"hidden", "tables", "positions", "scores"} : Live(v)
       /\ Source("hidden")' \in {None, Source("next_hidden")}
       /\ \A v \in {"tables", "positions", "scores"} : Keeps(v)
       /\ Steady /\ part' # "sample"
  /\ statement.do = "fetch" =>
       /\ \A v \in Locals : Live(v)' <=> v \notin {"row_logits", "hidden_row"} /\ Live(v)
       /\ \A v \in Owners \ {"row_logits"} : Live(v) => Keeps(v)
       /\ Read' = turn /\ Read = turn - 1 /\ (\A l \in Stored' : l \in Stored) /\ pc' = 1

LEMMA ModelIs ==
  /\ model.layer_num \in Nat \ {0}
  /\ model.head_num \in Nat /\ model.kv_head_num \in Nat /\ model.head_size \in Nat
  /\ model.seq_len \in Nat
  /\ model.query_dim = model.head_num * model.head_size
  /\ model.kv_dim = model.kv_head_num * model.head_size
BY ForwardAssumption DEF ForwardAssumption, model, model_infos, valid_dimensions

----------------------------------------------------------------------------
(* The checks of the layers *)

LEMMA LastOfTwo ==
  ASSUME NEW a, NEW b, NEW c, NEW d, d = <<a, b>>
  PROVE  [d EXCEPT ![Len(d)] = c] = <<a, c>> /\ last(d) = b
BY DEF last

LEMMA LastOfOne ==
  ASSUME NEW a, NEW c, NEW d, d = <<a>>
  PROVE  [d EXCEPT ![Len(d)] = c] = <<c>> /\ last(d) = a
BY DEF last

LEMMA MatrixFits ==
  ASSUME NEW op, NEW v \in Locals, NEW w \in Locals, Live(v), Live(w),
         op[2] \in {"q_proj", "k_proj", "v_proj", "o_proj", "gate_proj", "up_proj", "down_proj",
                    "lm_head"},
         NEW a, NEW b, weight_dims(op[2]) = <<b, a>>,
         \/ dims_of(v) = <<a>> /\ dims_of(w) = <<b>>
         \/ dims_of(v) = <<rows, a>> /\ dims_of(w) = <<rows, b>>
  PROVE  ShapesFit(op, <<v>>, w)
<1> DEFINE in == [n \in DOMAIN <<v>> |-> tensors[<<v>>[n]]]
<1> SUFFICES ASSUME tensors[v].dims = dims_of(v), tensors[w].dims = dims_of(w),
                    tensors[v].block # Null, tensors[w].block # Null
             PROVE  check(op[2], in, tensors[w])
  BY DEF ShapesFit
<1>1. in[1] = tensors[v] /\ DOMAIN in = {1} /\ \A n \in DOMAIN in : in[n].block # Null
  OBVIOUS
<1> HIDE DEF in
<1>2. op[2] \notin Norms /\ op[2] \notin Adds \cup {"swiglu"}
  BY DEF Norms, Adds
<1>3. [in[1].dims EXCEPT ![Len(in[1].dims)] = b] = tensors[w].dims /\ last(in[1].dims) = a
  <2>1. CASE dims_of(v) = <<a>> /\ dims_of(w) = <<b>>
    BY <1>1, <2>1, LastOfOne
  <2>2. CASE dims_of(v) = <<rows, a>> /\ dims_of(w) = <<rows, b>>
    <3>1. in[1].dims = <<rows, a>> /\ tensors[w].dims = <<rows, b>>
      BY <1>1, <2>2
    <3> QED
      BY <3>1 DEF last
  <2> QED
    BY <2>1, <2>2
<1>4. weight_dims(op[2])[1] = b /\ weight_dims(op[2])[2] = a
  OBVIOUS
<1> QED
  BY <1>1, <1>2, <1>3, <1>4, Zenon DEF check

LEMMA NormFits ==
  ASSUME NEW op, NEW v \in Locals, NEW w \in Locals, Live(v), Live(w),
         op[2] \in Norms, NEW a, NEW b, weight_dims(op[2]) = <<a>>,
         dims_of(v) = <<b, a>>, dims_of(w) = dims_of(v)
  PROVE  ShapesFit(op, <<v>>, w)
<1> DEFINE in == [n \in DOMAIN <<v>> |-> tensors[<<v>>[n]]]
<1> SUFFICES ASSUME tensors[v].dims = dims_of(v), tensors[w].dims = dims_of(w),
                    tensors[v].block # Null, tensors[w].block # Null
             PROVE  check(op[2], in, tensors[w])
  BY DEF ShapesFit
<1>1. in[1] = tensors[v] /\ DOMAIN in = {1} /\ \A n \in DOMAIN in : in[n].block # Null
  OBVIOUS
<1> HIDE DEF in
<1>2. last(in[1].dims) = weight_dims(op[2])[1] /\ tensors[w].dims = in[1].dims
  BY <1>1, LastOfTwo
<1>3. op[2] \notin Adds \cup {"swiglu"}
  BY DEF Norms, Adds
<1> QED
  BY <1>1, <1>2, <1>3, Zenon DEF check

LEMMA PairFits ==
  ASSUME NEW op, NEW u \in Locals, NEW v \in Locals, NEW w \in Locals, Live(u), Live(v), Live(w),
         op[2] \in Adds \cup {"swiglu"},
         NEW a, dims_of(u) = <<rows, a>>, dims_of(v) = dims_of(u), dims_of(w) = dims_of(u),
         op[2] = "swiglu" => a = model.hidden_dim
  PROVE  ShapesFit(op, <<u, v>>, w)
<1> DEFINE in == [n \in DOMAIN <<u, v>> |-> tensors[<<u, v>>[n]]]
<1> SUFFICES ASSUME tensors[u].dims = dims_of(u), tensors[v].dims = dims_of(v),
                    tensors[w].dims = dims_of(w),
                    tensors[u].block # Null, tensors[v].block # Null, tensors[w].block # Null
             PROVE  check(op[2], in, tensors[w])
  BY DEF ShapesFit
<1>1. /\ in[1] = tensors[u] /\ in[2] = tensors[v] /\ DOMAIN in = {1, 2}
      /\ \A n \in DOMAIN in : in[n].block # Null
  OBVIOUS
<1> HIDE DEF in
<1>2. last(tensors[w].dims) = a /\ in[1].dims = in[2].dims /\ tensors[w].dims = in[1].dims
  BY <1>1, LastOfTwo
<1>3. op[2] \notin Norms /\ (op[2] = "swiglu" => last(tensors[w].dims) = model.hidden_dim)
  BY <1>2 DEF Norms, Adds
<1> QED
  BY <1>1, <1>2, <1>3, Zenon DEF check

----------------------------------------------------------------------------
(* The statements of a decoder layer *)

LEMMA LayerStatements ==
  ASSUME ControlOK, part = "layer"
  PROVE  /\ Len(code) = 33
         /\ code[1] = new("normalized", <<rows, model.dim>>)
         /\ code[2] = forward(<<turn, "input_norm">>, <<"hidden">>, "normalized")
         /\ code[3] = new("query", <<rows, model.query_dim>>)
         /\ code[4] = new("keys", <<rows, model.kv_dim>>)
         /\ code[5] = new("values", <<rows, model.kv_dim>>)
         /\ code[6] = forward(<<turn, "q_proj">>, <<"normalized">>, "query")
         /\ code[7] = forward(<<turn, "k_proj">>, <<"normalized">>, "keys")
         /\ code[8] = forward(<<turn, "v_proj">>, <<"normalized">>, "values")
         /\ code[9] = view("query_heads", "query", <<rows * model.head_num, model.head_size>>, 0)
         /\ code[10] = view("key_heads", "keys", <<rows * model.kv_head_num, model.head_size>>, 0)
         /\ code[11] = forward(<<turn, "q_norm">>, <<"query_heads">>, "query_heads")
         /\ code[12] = forward(<<turn, "k_norm">>, <<"key_heads">>, "key_heads")
         /\ code[13] = kernel(<<turn, "rope">>, <<"query", "keys", "positions">>, <<"query", "keys">>)
         /\ code[14] = kernel(<<turn, "store">>, <<"keys", "values", "positions", "tables">>, <<"kv">>)
         /\ code[15] = new("mha_output", <<rows, model.query_dim>>)
         /\ code[16] = kernel(<<turn, "attention">>, <<"query", "kv", "positions", "tables">>, <<"mha_output", "scores">>)
         /\ code[17] = new("attention_output", <<rows, model.dim>>)
         /\ code[18] = forward(<<turn, "o_proj">>, <<"mha_output">>, "attention_output")
         /\ code[19] = new("residual", <<rows, model.dim>>)
         /\ code[20] = forward(<<turn, "add_attention">>, <<"hidden", "attention_output">>, "residual")
         /\ code[21] = new("ffn_normalized", <<rows, model.dim>>)
         /\ code[22] = forward(<<turn, "post_attention_norm">>, <<"residual">>, "ffn_normalized")
         /\ code[23] = new("gate", <<rows, model.hidden_dim>>)
         /\ code[24] = new("up", <<rows, model.hidden_dim>>)
         /\ code[25] = forward(<<turn, "gate_proj">>, <<"ffn_normalized">>, "gate")
         /\ code[26] = forward(<<turn, "up_proj">>, <<"ffn_normalized">>, "up")
         /\ code[27] = new("activated", <<rows, model.hidden_dim>>)
         /\ code[28] = forward(<<turn, "swiglu">>, <<"gate", "up">>, "activated")
         /\ code[29] = new("down", <<rows, model.dim>>)
         /\ code[30] = forward(<<turn, "down_proj">>, <<"activated">>, "down")
         /\ code[31] = new("next_hidden", <<rows, model.dim>>)
         /\ code[32] = forward(<<turn, "add_mlp">>, <<"residual", "down">>, "next_hidden")
         /\ code[33] = just("leave_layer")
<1>1. code = decoder_layer(turn, rows)
  BY DEF code, decoder_layers, ControlOK, Running
<1> HIDE DEF code
<1> QED
  BY <1>1 DEF decoder_layer

Early == {"hidden", "tokens", "tables", "positions", "scores", "final_hidden", "row_logits",
          "hidden_row"}

Works == {2, 6, 7, 8, 11, 12, 13, 14, 16, 18, 20, 22, 25, 26, 28, 30, 32}

LEMMA BornOnce ==
  \A v \in Locals \ Early :
    /\ born(v) \in 1..31 /\ born(v) \notin Works
    /\ \A w \in Locals \ Early : born(v) = born(w) => v = w
BY DEF Locals, Owners, Views, born, Early, Works

LEMMA LayerLives ==
  ASSUME part = "layer", part' = part, pc' = pc + 1
  PROVE  /\ \A v \in Early : Live(v)' <=> Live(v)
         /\ \A v \in Locals \ Early : (Live(v) <=> pc > born(v)) /\ (Live(v)' <=> pc + 1 > born(v))
<1>1. \A v \in Early : Live(v)' <=> Live(v)
  BY DEF Live, live, Early
<1>2. \A v \in Locals \ Early :
        (Live(v) <=> pc > born(v)) /\ (Live(v)' <=> pc + 1 > born(v))
  BY DEF Live, live, Early, Locals, Owners, Views
<1> QED
  BY <1>1, <1>2

LEMMA LayerMakes ==
  ASSUME ControlOK, part = "layer", part' = part, turn' = turn, pc' = pc + 1, samples' = samples,
         NEW w \in Locals \ Early, pc = born(w)
  PROVE  ~Live(w) /\ OneMore(w) /\ Steady /\ SameRow
<1>1. ~Live(w) /\ \A v \in Locals : Live(v)' <=> v = w \/ Live(v)
  BY LayerLives, BornOnce DEF ControlOK
<1>2. \A v \in Owners : Live(v) => Keeps(v)
  BY DEF Source, source, None, Keeps, Live, live, born, Owners, ControlOK, Locals, Views, Early
<1>3. w \in Owners => Source(w)' = None
  BY DEF Source, source, None, born, Owners, ControlOK, Locals, Views, Early
<1>4. pc # 14
  BY BornOnce DEF Works
<1>5. Steady /\ SameRow
  BY <1>4 DEF Steady, SameRow, Read, Stored, stored, Running, ControlOK
<1> QED
  BY <1>1, <1>2, <1>3, <1>5 DEF OneMore

LEMMA LayerWorks ==
  ASSUME ControlOK, part = "layer", part' = part, turn' = turn, pc' = pc + 1, samples' = samples,
         pc \in Works
  PROVE  SameLocals /\ Read' = Read /\ SameRow
<1>1. \A v \in Locals : Live(v)' <=> Live(v)
  BY LayerLives, BornOnce DEF ControlOK, Works
<1> QED
  BY <1>1 DEF SameLocals, Read, Running, SameRow

LEMMA LayerNext ==
  ASSUME ControlOK, part = "layer", pc < 33, Advance, samples' = samples
  PROVE  part' = part /\ turn' = turn /\ pc' = pc + 1
BY LayerStatements DEF Advance, ControlOK, Running, Length

LEMMA LayerFits ==
  ASSUME ControlOK, part = "layer"
  PROVE  StatementFits /\ (Advance /\ samples' = samples => StatementMoves)
<1>0. rows \in Rows /\ turn \in 1..model.layer_num /\ turn \in Nat /\ pc \in 1..33
  BY DEF ControlOK, Running, Length
<1>1. CASE pc = 1
  <2>1. statement = new("normalized", <<rows, model.dim>>) /\ pc < 33
    BY <1>1, LayerStatements DEF statement
  <2>2. "normalized" \in Owners /\ "normalized" \in Locals \ Early /\ pc = born("normalized")
    BY <1>1 DEF Locals, Owners, Views, Early, born
  <2>3. statement.dims = dims_of("normalized")
    BY <2>1 DEF new, dims_of
  <2>4. ~Live("normalized")
    BY <1>1 DEF Live, live, born
  <2> QED
    BY <2>1, <2>2, <2>3, <2>4, LayerNext, LayerMakes DEF StatementFits, StatementMoves, new
<1>2. CASE pc = 2
  <2>1. statement = forward(<<turn, "input_norm">>, <<"hidden">>, "normalized") /\ pc < 33
    BY <1>2, LayerStatements DEF statement
  <2>2. Reads(<<turn, "input_norm">>, <<"hidden">>)
    BY <1>0, <1>2 DEF Reads, Found, Inputs, hidden, Source, source, Stored, stored, base, None,
                     Live, live, Locals, Owners, Views, born
  <2>3. Writes(<<turn, "input_norm">>, <<"normalized">>, 0)
    BY <1>0, <1>2 DEF Writes, Operations, base, Live, live, Locals, Owners, Views, born
  <2>4. ASSUME Advance, samples' = samples
        PROVE  WorkMoves(<<turn, "input_norm">>, <<"normalized">>, 0)
    <3>1. part' = part /\ turn' = turn /\ pc' = 3
      BY <1>2, <2>1, <2>4, LayerNext
    <3>2. \A v \in Owners : Live(v) => Expected(<<turn, "input_norm">>, <<"normalized">>, 0, v)
      BY <1>0, <1>2, <3>1 DEF Expected, Keeps, Source, source, None, base, Live, live, Locals, Owners, Views, born
    <3>3. \A l \in Stored' : l \in Stored \/ (l = <<turn, "input_norm">>[1] /\ <<"normalized">>[1] = "kv" /\ 1 \in DOMAIN <<"normalized">>)
      BY <1>0, <1>2, <3>1 DEF Stored, stored
    <3> QED
      BY <1>2, <2>4, <3>1, <3>2, <3>3, LayerWorks DEF WorkMoves, Works
  <2>5. ShapesFit(<<turn, "input_norm">>, <<"hidden">>, "normalized")
    <3>1. Live("hidden") /\ Live("normalized")
      BY <1>2 DEF Live, live, born
    <3>2. /\ dims_of("hidden") = <<rows, model.dim>>
          /\ dims_of("normalized") = <<rows, model.dim>>
          /\ weight_dims("input_norm") = <<model.dim>>
      BY DEF dims_of, weight_dims
    <3> QED
      BY <3>1, <3>2, NormFits DEF Norms, Locals, Views, Owners
  <2>6. RowOf(<<turn, "input_norm">>) = 0 /\ <<turn, "input_norm">>[2] # "lm_head"
    BY DEF RowOf
  <2> QED
    BY <2>1, <2>2, <2>3, <2>4, <2>5, <2>6 DEF StatementFits, StatementMoves, forward
<1>3. CASE pc = 3
  <2>1. statement = new("query", <<rows, model.query_dim>>) /\ pc < 33
    BY <1>3, LayerStatements DEF statement
  <2>2. "query" \in Owners /\ "query" \in Locals \ Early /\ pc = born("query")
    BY <1>3 DEF Locals, Owners, Views, Early, born
  <2>3. statement.dims = dims_of("query")
    BY <2>1 DEF new, dims_of
  <2>4. ~Live("query")
    BY <1>3 DEF Live, live, born
  <2> QED
    BY <2>1, <2>2, <2>3, <2>4, LayerNext, LayerMakes DEF StatementFits, StatementMoves, new
<1>4. CASE pc = 4
  <2>1. statement = new("keys", <<rows, model.kv_dim>>) /\ pc < 33
    BY <1>4, LayerStatements DEF statement
  <2>2. "keys" \in Owners /\ "keys" \in Locals \ Early /\ pc = born("keys")
    BY <1>4 DEF Locals, Owners, Views, Early, born
  <2>3. statement.dims = dims_of("keys")
    BY <2>1 DEF new, dims_of
  <2>4. ~Live("keys")
    BY <1>4 DEF Live, live, born
  <2> QED
    BY <2>1, <2>2, <2>3, <2>4, LayerNext, LayerMakes DEF StatementFits, StatementMoves, new
<1>5. CASE pc = 5
  <2>1. statement = new("values", <<rows, model.kv_dim>>) /\ pc < 33
    BY <1>5, LayerStatements DEF statement
  <2>2. "values" \in Owners /\ "values" \in Locals \ Early /\ pc = born("values")
    BY <1>5 DEF Locals, Owners, Views, Early, born
  <2>3. statement.dims = dims_of("values")
    BY <2>1 DEF new, dims_of
  <2>4. ~Live("values")
    BY <1>5 DEF Live, live, born
  <2> QED
    BY <2>1, <2>2, <2>3, <2>4, LayerNext, LayerMakes DEF StatementFits, StatementMoves, new
<1>6. CASE pc = 6
  <2>1. statement = forward(<<turn, "q_proj">>, <<"normalized">>, "query") /\ pc < 33
    BY <1>6, LayerStatements DEF statement
  <2>2. Reads(<<turn, "q_proj">>, <<"normalized">>)
    BY <1>0, <1>6 DEF Reads, Found, Inputs, hidden, Source, source, Stored, stored, base, None,
                     Live, live, Locals, Owners, Views, born
  <2>3. Writes(<<turn, "q_proj">>, <<"query">>, 0)
    BY <1>0, <1>6 DEF Writes, Operations, base, Live, live, Locals, Owners, Views, born
  <2>4. ASSUME Advance, samples' = samples
        PROVE  WorkMoves(<<turn, "q_proj">>, <<"query">>, 0)
    <3>1. part' = part /\ turn' = turn /\ pc' = 7
      BY <1>6, <2>1, <2>4, LayerNext
    <3>2. \A v \in Owners : Live(v) => Expected(<<turn, "q_proj">>, <<"query">>, 0, v)
      BY <1>0, <1>6, <3>1 DEF Expected, Keeps, Source, source, None, base, Live, live, Locals, Owners, Views, born
    <3>3. \A l \in Stored' : l \in Stored \/ (l = <<turn, "q_proj">>[1] /\ <<"query">>[1] = "kv" /\ 1 \in DOMAIN <<"query">>)
      BY <1>0, <1>6, <3>1 DEF Stored, stored
    <3> QED
      BY <1>6, <2>4, <3>1, <3>2, <3>3, LayerWorks DEF WorkMoves, Works
  <2>5. ShapesFit(<<turn, "q_proj">>, <<"normalized">>, "query")
    <3>1. Live("normalized") /\ Live("query")
      BY <1>6 DEF Live, live, born
    <3>2. /\ dims_of("normalized") = <<rows, model.dim>>
          /\ dims_of("query") = <<rows, model.query_dim>>
          /\ weight_dims("q_proj") = <<model.query_dim, model.dim>>
      BY DEF dims_of, weight_dims
    <3> QED
      BY <3>1, <3>2, MatrixFits DEF Locals, Views, Owners
  <2>6. RowOf(<<turn, "q_proj">>) = 0 /\ <<turn, "q_proj">>[2] # "lm_head"
    BY DEF RowOf
  <2> QED
    BY <2>1, <2>2, <2>3, <2>4, <2>5, <2>6 DEF StatementFits, StatementMoves, forward
<1>7. CASE pc = 7
  <2>1. statement = forward(<<turn, "k_proj">>, <<"normalized">>, "keys") /\ pc < 33
    BY <1>7, LayerStatements DEF statement
  <2>2. Reads(<<turn, "k_proj">>, <<"normalized">>)
    BY <1>0, <1>7 DEF Reads, Found, Inputs, hidden, Source, source, Stored, stored, base, None,
                     Live, live, Locals, Owners, Views, born
  <2>3. Writes(<<turn, "k_proj">>, <<"keys">>, 0)
    BY <1>0, <1>7 DEF Writes, Operations, base, Live, live, Locals, Owners, Views, born
  <2>4. ASSUME Advance, samples' = samples
        PROVE  WorkMoves(<<turn, "k_proj">>, <<"keys">>, 0)
    <3>1. part' = part /\ turn' = turn /\ pc' = 8
      BY <1>7, <2>1, <2>4, LayerNext
    <3>2. \A v \in Owners : Live(v) => Expected(<<turn, "k_proj">>, <<"keys">>, 0, v)
      BY <1>0, <1>7, <3>1 DEF Expected, Keeps, Source, source, None, base, Live, live, Locals, Owners, Views, born
    <3>3. \A l \in Stored' : l \in Stored \/ (l = <<turn, "k_proj">>[1] /\ <<"keys">>[1] = "kv" /\ 1 \in DOMAIN <<"keys">>)
      BY <1>0, <1>7, <3>1 DEF Stored, stored
    <3> QED
      BY <1>7, <2>4, <3>1, <3>2, <3>3, LayerWorks DEF WorkMoves, Works
  <2>5. ShapesFit(<<turn, "k_proj">>, <<"normalized">>, "keys")
    <3>1. Live("normalized") /\ Live("keys")
      BY <1>7 DEF Live, live, born
    <3>2. /\ dims_of("normalized") = <<rows, model.dim>>
          /\ dims_of("keys") = <<rows, model.kv_dim>>
          /\ weight_dims("k_proj") = <<model.kv_dim, model.dim>>
      BY DEF dims_of, weight_dims
    <3> QED
      BY <3>1, <3>2, MatrixFits DEF Locals, Views, Owners
  <2>6. RowOf(<<turn, "k_proj">>) = 0 /\ <<turn, "k_proj">>[2] # "lm_head"
    BY DEF RowOf
  <2> QED
    BY <2>1, <2>2, <2>3, <2>4, <2>5, <2>6 DEF StatementFits, StatementMoves, forward
<1>8. CASE pc = 8
  <2>1. statement = forward(<<turn, "v_proj">>, <<"normalized">>, "values") /\ pc < 33
    BY <1>8, LayerStatements DEF statement
  <2>2. Reads(<<turn, "v_proj">>, <<"normalized">>)
    BY <1>0, <1>8 DEF Reads, Found, Inputs, hidden, Source, source, Stored, stored, base, None,
                     Live, live, Locals, Owners, Views, born
  <2>3. Writes(<<turn, "v_proj">>, <<"values">>, 0)
    BY <1>0, <1>8 DEF Writes, Operations, base, Live, live, Locals, Owners, Views, born
  <2>4. ASSUME Advance, samples' = samples
        PROVE  WorkMoves(<<turn, "v_proj">>, <<"values">>, 0)
    <3>1. part' = part /\ turn' = turn /\ pc' = 9
      BY <1>8, <2>1, <2>4, LayerNext
    <3>2. \A v \in Owners : Live(v) => Expected(<<turn, "v_proj">>, <<"values">>, 0, v)
      BY <1>0, <1>8, <3>1 DEF Expected, Keeps, Source, source, None, base, Live, live, Locals, Owners, Views, born
    <3>3. \A l \in Stored' : l \in Stored \/ (l = <<turn, "v_proj">>[1] /\ <<"values">>[1] = "kv" /\ 1 \in DOMAIN <<"values">>)
      BY <1>0, <1>8, <3>1 DEF Stored, stored
    <3> QED
      BY <1>8, <2>4, <3>1, <3>2, <3>3, LayerWorks DEF WorkMoves, Works
  <2>5. ShapesFit(<<turn, "v_proj">>, <<"normalized">>, "values")
    <3>1. Live("normalized") /\ Live("values")
      BY <1>8 DEF Live, live, born
    <3>2. /\ dims_of("normalized") = <<rows, model.dim>>
          /\ dims_of("values") = <<rows, model.kv_dim>>
          /\ weight_dims("v_proj") = <<model.kv_dim, model.dim>>
      BY DEF dims_of, weight_dims
    <3> QED
      BY <3>1, <3>2, MatrixFits DEF Locals, Views, Owners
  <2>6. RowOf(<<turn, "v_proj">>) = 0 /\ <<turn, "v_proj">>[2] # "lm_head"
    BY DEF RowOf
  <2> QED
    BY <2>1, <2>2, <2>3, <2>4, <2>5, <2>6 DEF StatementFits, StatementMoves, forward
<1>9. CASE pc = 9
  <2>1. statement = view("query_heads", "query", <<rows * model.head_num, model.head_size>>, 0) /\ pc < 33
    BY <1>9, LayerStatements DEF statement
  <2>2. "query_heads" \in Views /\ "query_heads" \in Locals \ Early /\ pc = born("query_heads")
    BY <1>9 DEF Locals, Owners, Views, Early, born
  <2>3. statement.dims = dims_of("query_heads") /\ "query" = base("query_heads") /\ Live("query")
    BY <1>9, <2>1 DEF view, dims_of, base, Live, live, born
  <2>4. ~Live("query_heads") /\ "query_heads" # "hidden_row"
    BY <1>9 DEF Live, live, born
  <2>5. Advance /\ samples' = samples => part' # "sample"
    BY <2>1, LayerNext
  <2> QED
    BY <2>1, <2>2, <2>3, <2>4, <2>5, LayerNext, LayerMakes DEF StatementFits, StatementMoves, view
<1>10. CASE pc = 10
  <2>1. statement = view("key_heads", "keys", <<rows * model.kv_head_num, model.head_size>>, 0) /\ pc < 33
    BY <1>10, LayerStatements DEF statement
  <2>2. "key_heads" \in Views /\ "key_heads" \in Locals \ Early /\ pc = born("key_heads")
    BY <1>10 DEF Locals, Owners, Views, Early, born
  <2>3. statement.dims = dims_of("key_heads") /\ "keys" = base("key_heads") /\ Live("keys")
    BY <1>10, <2>1 DEF view, dims_of, base, Live, live, born
  <2>4. ~Live("key_heads") /\ "key_heads" # "hidden_row"
    BY <1>10 DEF Live, live, born
  <2>5. Advance /\ samples' = samples => part' # "sample"
    BY <2>1, LayerNext
  <2> QED
    BY <2>1, <2>2, <2>3, <2>4, <2>5, LayerNext, LayerMakes DEF StatementFits, StatementMoves, view
<1>11. CASE pc = 11
  <2>1. statement = forward(<<turn, "q_norm">>, <<"query_heads">>, "query_heads") /\ pc < 33
    BY <1>11, LayerStatements DEF statement
  <2>2. Reads(<<turn, "q_norm">>, <<"query_heads">>)
    BY <1>0, <1>11 DEF Reads, Found, Inputs, hidden, Source, source, Stored, stored, base, None,
                     Live, live, Locals, Owners, Views, born
  <2>3. Writes(<<turn, "q_norm">>, <<"query_heads">>, 0)
    BY <1>0, <1>11 DEF Writes, Operations, base, Live, live, Locals, Owners, Views, born
  <2>4. ASSUME Advance, samples' = samples
        PROVE  WorkMoves(<<turn, "q_norm">>, <<"query_heads">>, 0)
    <3>1. part' = part /\ turn' = turn /\ pc' = 12
      BY <1>11, <2>1, <2>4, LayerNext
    <3>2. \A v \in Owners : Live(v) => Expected(<<turn, "q_norm">>, <<"query_heads">>, 0, v)
      BY <1>0, <1>11, <3>1 DEF Expected, Keeps, Source, source, None, base, Live, live, Locals, Owners, Views, born
    <3>3. \A l \in Stored' : l \in Stored \/ (l = <<turn, "q_norm">>[1] /\ <<"query_heads">>[1] = "kv" /\ 1 \in DOMAIN <<"query_heads">>)
      BY <1>0, <1>11, <3>1 DEF Stored, stored
    <3> QED
      BY <1>11, <2>4, <3>1, <3>2, <3>3, LayerWorks DEF WorkMoves, Works
  <2>5. ShapesFit(<<turn, "q_norm">>, <<"query_heads">>, "query_heads")
    <3>1. Live("query_heads")
      BY <1>11 DEF Live, live, born
    <3>2. /\ dims_of("query_heads") = <<rows * model.head_num, model.head_size>>
          /\ weight_dims("q_norm") = <<model.head_size>>
      BY DEF dims_of, weight_dims
    <3> QED
      BY <3>1, <3>2, NormFits DEF Norms, Locals, Views, Owners
  <2>6. RowOf(<<turn, "q_norm">>) = 0 /\ <<turn, "q_norm">>[2] # "lm_head"
    BY DEF RowOf
  <2> QED
    BY <2>1, <2>2, <2>3, <2>4, <2>5, <2>6 DEF StatementFits, StatementMoves, forward
<1>12. CASE pc = 12
  <2>1. statement = forward(<<turn, "k_norm">>, <<"key_heads">>, "key_heads") /\ pc < 33
    BY <1>12, LayerStatements DEF statement
  <2>2. Reads(<<turn, "k_norm">>, <<"key_heads">>)
    BY <1>0, <1>12 DEF Reads, Found, Inputs, hidden, Source, source, Stored, stored, base, None,
                     Live, live, Locals, Owners, Views, born
  <2>3. Writes(<<turn, "k_norm">>, <<"key_heads">>, 0)
    BY <1>0, <1>12 DEF Writes, Operations, base, Live, live, Locals, Owners, Views, born
  <2>4. ASSUME Advance, samples' = samples
        PROVE  WorkMoves(<<turn, "k_norm">>, <<"key_heads">>, 0)
    <3>1. part' = part /\ turn' = turn /\ pc' = 13
      BY <1>12, <2>1, <2>4, LayerNext
    <3>2. \A v \in Owners : Live(v) => Expected(<<turn, "k_norm">>, <<"key_heads">>, 0, v)
      BY <1>0, <1>12, <3>1 DEF Expected, Keeps, Source, source, None, base, Live, live, Locals, Owners, Views, born
    <3>3. \A l \in Stored' : l \in Stored \/ (l = <<turn, "k_norm">>[1] /\ <<"key_heads">>[1] = "kv" /\ 1 \in DOMAIN <<"key_heads">>)
      BY <1>0, <1>12, <3>1 DEF Stored, stored
    <3> QED
      BY <1>12, <2>4, <3>1, <3>2, <3>3, LayerWorks DEF WorkMoves, Works
  <2>5. ShapesFit(<<turn, "k_norm">>, <<"key_heads">>, "key_heads")
    <3>1. Live("key_heads")
      BY <1>12 DEF Live, live, born
    <3>2. /\ dims_of("key_heads") = <<rows * model.kv_head_num, model.head_size>>
          /\ weight_dims("k_norm") = <<model.head_size>>
      BY DEF dims_of, weight_dims
    <3> QED
      BY <3>1, <3>2, NormFits DEF Norms, Locals, Views, Owners
  <2>6. RowOf(<<turn, "k_norm">>) = 0 /\ <<turn, "k_norm">>[2] # "lm_head"
    BY DEF RowOf
  <2> QED
    BY <2>1, <2>2, <2>3, <2>4, <2>5, <2>6 DEF StatementFits, StatementMoves, forward
<1>13. CASE pc = 13
  <2>1. statement = kernel(<<turn, "rope">>, <<"query", "keys", "positions">>, <<"query", "keys">>) /\ pc < 33
    BY <1>13, LayerStatements DEF statement
  <2>2. Reads(<<turn, "rope">>, <<"query", "keys", "positions">>)
    BY <1>0, <1>13 DEF Reads, Found, Inputs, hidden, Source, source, Stored, stored, base, None,
                     Live, live, Locals, Owners, Views, born
  <2>3. Writes(<<turn, "rope">>, <<"query", "keys">>, 0)
    BY <1>0, <1>13 DEF Writes, Operations, base, Live, live, Locals, Owners, Views, born
  <2>4. ASSUME Advance, samples' = samples
        PROVE  WorkMoves(<<turn, "rope">>, <<"query", "keys">>, 0)
    <3>1. part' = part /\ turn' = turn /\ pc' = 14
      BY <1>13, <2>1, <2>4, LayerNext
    <3>2. \A v \in Owners : Live(v) => Expected(<<turn, "rope">>, <<"query", "keys">>, 0, v)
      BY <1>0, <1>13, <3>1 DEF Expected, Keeps, Source, source, None, base, Live, live, Locals, Owners, Views, born
    <3>3. \A l \in Stored' : l \in Stored \/ (l = <<turn, "rope">>[1] /\ <<"query", "keys">>[1] = "kv" /\ 1 \in DOMAIN <<"query", "keys">>)
      BY <1>0, <1>13, <3>1 DEF Stored, stored
    <3> QED
      BY <1>13, <2>4, <3>1, <3>2, <3>3, LayerWorks DEF WorkMoves, Works
  <2> QED
    BY <2>1, <2>2, <2>3, <2>4 DEF StatementFits, StatementMoves, kernel
<1>14. CASE pc = 14
  <2>1. statement = kernel(<<turn, "store">>, <<"keys", "values", "positions", "tables">>, <<"kv">>) /\ pc < 33
    BY <1>14, LayerStatements DEF statement
  <2>2. Reads(<<turn, "store">>, <<"keys", "values", "positions", "tables">>)
    BY <1>0, <1>14 DEF Reads, Found, Inputs, hidden, Source, source, Stored, stored, base, None,
                     Live, live, Locals, Owners, Views, born
  <2>3. Writes(<<turn, "store">>, <<"kv">>, 0)
    BY <1>0, <1>14 DEF Writes, Operations, base, Live, live, Locals, Owners, Views, born
  <2>4. ASSUME Advance, samples' = samples
        PROVE  WorkMoves(<<turn, "store">>, <<"kv">>, 0)
    <3>1. part' = part /\ turn' = turn /\ pc' = 15
      BY <1>14, <2>1, <2>4, LayerNext
    <3>2. \A v \in Owners : Live(v) => Expected(<<turn, "store">>, <<"kv">>, 0, v)
      BY <1>0, <1>14, <3>1 DEF Expected, Keeps, Source, source, None, base, Live, live, Locals, Owners, Views, born
    <3>3. \A l \in Stored' : l \in Stored \/ (l = <<turn, "store">>[1] /\ <<"kv">>[1] = "kv" /\ 1 \in DOMAIN <<"kv">>)
      BY <1>0, <1>14, <3>1 DEF Stored, stored
    <3> QED
      BY <1>14, <2>4, <3>1, <3>2, <3>3, LayerWorks DEF WorkMoves, Works
  <2> QED
    BY <2>1, <2>2, <2>3, <2>4 DEF StatementFits, StatementMoves, kernel
<1>15. CASE pc = 15
  <2>1. statement = new("mha_output", <<rows, model.query_dim>>) /\ pc < 33
    BY <1>15, LayerStatements DEF statement
  <2>2. "mha_output" \in Owners /\ "mha_output" \in Locals \ Early /\ pc = born("mha_output")
    BY <1>15 DEF Locals, Owners, Views, Early, born
  <2>3. statement.dims = dims_of("mha_output")
    BY <2>1 DEF new, dims_of
  <2>4. ~Live("mha_output")
    BY <1>15 DEF Live, live, born
  <2> QED
    BY <2>1, <2>2, <2>3, <2>4, LayerNext, LayerMakes DEF StatementFits, StatementMoves, new
<1>16. CASE pc = 16
  <2>1. statement = kernel(<<turn, "attention">>, <<"query", "kv", "positions", "tables">>, <<"mha_output", "scores">>) /\ pc < 33
    BY <1>16, LayerStatements DEF statement
  <2>2. Reads(<<turn, "attention">>, <<"query", "kv", "positions", "tables">>)
    BY <1>0, <1>16 DEF Reads, Found, Inputs, hidden, Source, source, Stored, stored, base, None,
                     Live, live, Locals, Owners, Views, born
  <2>3. Writes(<<turn, "attention">>, <<"mha_output", "scores">>, 0)
    BY <1>0, <1>16 DEF Writes, Operations, base, Live, live, Locals, Owners, Views, born
  <2>4. ASSUME Advance, samples' = samples
        PROVE  WorkMoves(<<turn, "attention">>, <<"mha_output", "scores">>, 0)
    <3>1. part' = part /\ turn' = turn /\ pc' = 17
      BY <1>16, <2>1, <2>4, LayerNext
    <3>2. \A v \in Owners : Live(v) => Expected(<<turn, "attention">>, <<"mha_output", "scores">>, 0, v)
      BY <1>0, <1>16, <3>1 DEF Expected, Keeps, Source, source, None, base, Live, live, Locals, Owners, Views, born
    <3>3. \A l \in Stored' : l \in Stored \/ (l = <<turn, "attention">>[1] /\ <<"mha_output", "scores">>[1] = "kv" /\ 1 \in DOMAIN <<"mha_output", "scores">>)
      BY <1>0, <1>16, <3>1 DEF Stored, stored
    <3> QED
      BY <1>16, <2>4, <3>1, <3>2, <3>3, LayerWorks DEF WorkMoves, Works
  <2> QED
    BY <2>1, <2>2, <2>3, <2>4 DEF StatementFits, StatementMoves, kernel
<1>17. CASE pc = 17
  <2>1. statement = new("attention_output", <<rows, model.dim>>) /\ pc < 33
    BY <1>17, LayerStatements DEF statement
  <2>2. "attention_output" \in Owners /\ "attention_output" \in Locals \ Early /\ pc = born("attention_output")
    BY <1>17 DEF Locals, Owners, Views, Early, born
  <2>3. statement.dims = dims_of("attention_output")
    BY <2>1 DEF new, dims_of
  <2>4. ~Live("attention_output")
    BY <1>17 DEF Live, live, born
  <2> QED
    BY <2>1, <2>2, <2>3, <2>4, LayerNext, LayerMakes DEF StatementFits, StatementMoves, new
<1>18. CASE pc = 18
  <2>1. statement = forward(<<turn, "o_proj">>, <<"mha_output">>, "attention_output") /\ pc < 33
    BY <1>18, LayerStatements DEF statement
  <2>2. Reads(<<turn, "o_proj">>, <<"mha_output">>)
    BY <1>0, <1>18 DEF Reads, Found, Inputs, hidden, Source, source, Stored, stored, base, None,
                     Live, live, Locals, Owners, Views, born
  <2>3. Writes(<<turn, "o_proj">>, <<"attention_output">>, 0)
    BY <1>0, <1>18 DEF Writes, Operations, base, Live, live, Locals, Owners, Views, born
  <2>4. ASSUME Advance, samples' = samples
        PROVE  WorkMoves(<<turn, "o_proj">>, <<"attention_output">>, 0)
    <3>1. part' = part /\ turn' = turn /\ pc' = 19
      BY <1>18, <2>1, <2>4, LayerNext
    <3>2. \A v \in Owners : Live(v) => Expected(<<turn, "o_proj">>, <<"attention_output">>, 0, v)
      BY <1>0, <1>18, <3>1 DEF Expected, Keeps, Source, source, None, base, Live, live, Locals, Owners, Views, born
    <3>3. \A l \in Stored' : l \in Stored \/ (l = <<turn, "o_proj">>[1] /\ <<"attention_output">>[1] = "kv" /\ 1 \in DOMAIN <<"attention_output">>)
      BY <1>0, <1>18, <3>1 DEF Stored, stored
    <3> QED
      BY <1>18, <2>4, <3>1, <3>2, <3>3, LayerWorks DEF WorkMoves, Works
  <2>5. ShapesFit(<<turn, "o_proj">>, <<"mha_output">>, "attention_output")
    <3>1. Live("mha_output") /\ Live("attention_output")
      BY <1>18 DEF Live, live, born
    <3>2. /\ dims_of("mha_output") = <<rows, model.query_dim>>
          /\ dims_of("attention_output") = <<rows, model.dim>>
          /\ weight_dims("o_proj") = <<model.dim, model.query_dim>>
      BY DEF dims_of, weight_dims
    <3> QED
      BY <3>1, <3>2, MatrixFits DEF Locals, Views, Owners
  <2>6. RowOf(<<turn, "o_proj">>) = 0 /\ <<turn, "o_proj">>[2] # "lm_head"
    BY DEF RowOf
  <2> QED
    BY <2>1, <2>2, <2>3, <2>4, <2>5, <2>6 DEF StatementFits, StatementMoves, forward
<1>19. CASE pc = 19
  <2>1. statement = new("residual", <<rows, model.dim>>) /\ pc < 33
    BY <1>19, LayerStatements DEF statement
  <2>2. "residual" \in Owners /\ "residual" \in Locals \ Early /\ pc = born("residual")
    BY <1>19 DEF Locals, Owners, Views, Early, born
  <2>3. statement.dims = dims_of("residual")
    BY <2>1 DEF new, dims_of
  <2>4. ~Live("residual")
    BY <1>19 DEF Live, live, born
  <2> QED
    BY <2>1, <2>2, <2>3, <2>4, LayerNext, LayerMakes DEF StatementFits, StatementMoves, new
<1>20. CASE pc = 20
  <2>1. statement = forward(<<turn, "add_attention">>, <<"hidden", "attention_output">>, "residual") /\ pc < 33
    BY <1>20, LayerStatements DEF statement
  <2>2. Reads(<<turn, "add_attention">>, <<"hidden", "attention_output">>)
    BY <1>0, <1>20 DEF Reads, Found, Inputs, hidden, Source, source, Stored, stored, base, None,
                     Live, live, Locals, Owners, Views, born
  <2>3. Writes(<<turn, "add_attention">>, <<"residual">>, 0)
    BY <1>0, <1>20 DEF Writes, Operations, base, Live, live, Locals, Owners, Views, born
  <2>4. ASSUME Advance, samples' = samples
        PROVE  WorkMoves(<<turn, "add_attention">>, <<"residual">>, 0)
    <3>1. part' = part /\ turn' = turn /\ pc' = 21
      BY <1>20, <2>1, <2>4, LayerNext
    <3>2. \A v \in Owners : Live(v) => Expected(<<turn, "add_attention">>, <<"residual">>, 0, v)
      BY <1>0, <1>20, <3>1 DEF Expected, Keeps, Source, source, None, base, Live, live, Locals, Owners, Views, born
    <3>3. \A l \in Stored' : l \in Stored \/ (l = <<turn, "add_attention">>[1] /\ <<"residual">>[1] = "kv" /\ 1 \in DOMAIN <<"residual">>)
      BY <1>0, <1>20, <3>1 DEF Stored, stored
    <3> QED
      BY <1>20, <2>4, <3>1, <3>2, <3>3, LayerWorks DEF WorkMoves, Works
  <2>5. ShapesFit(<<turn, "add_attention">>, <<"hidden", "attention_output">>, "residual")
    <3>1. Live("hidden") /\ Live("attention_output") /\ Live("residual")
      BY <1>20 DEF Live, live, born
    <3>2. /\ dims_of("hidden") = <<rows, model.dim>>
          /\ dims_of("attention_output") = <<rows, model.dim>>
          /\ dims_of("residual") = <<rows, model.dim>>
      BY DEF dims_of, weight_dims
    <3> QED
      BY <3>1, <3>2, PairFits DEF Adds, Locals, Views, Owners
  <2>6. RowOf(<<turn, "add_attention">>) = 0 /\ <<turn, "add_attention">>[2] # "lm_head"
    BY DEF RowOf
  <2> QED
    BY <2>1, <2>2, <2>3, <2>4, <2>5, <2>6 DEF StatementFits, StatementMoves, forward
<1>21. CASE pc = 21
  <2>1. statement = new("ffn_normalized", <<rows, model.dim>>) /\ pc < 33
    BY <1>21, LayerStatements DEF statement
  <2>2. "ffn_normalized" \in Owners /\ "ffn_normalized" \in Locals \ Early /\ pc = born("ffn_normalized")
    BY <1>21 DEF Locals, Owners, Views, Early, born
  <2>3. statement.dims = dims_of("ffn_normalized")
    BY <2>1 DEF new, dims_of
  <2>4. ~Live("ffn_normalized")
    BY <1>21 DEF Live, live, born
  <2> QED
    BY <2>1, <2>2, <2>3, <2>4, LayerNext, LayerMakes DEF StatementFits, StatementMoves, new
<1>22. CASE pc = 22
  <2>1. statement = forward(<<turn, "post_attention_norm">>, <<"residual">>, "ffn_normalized") /\ pc < 33
    BY <1>22, LayerStatements DEF statement
  <2>2. Reads(<<turn, "post_attention_norm">>, <<"residual">>)
    BY <1>0, <1>22 DEF Reads, Found, Inputs, hidden, Source, source, Stored, stored, base, None,
                     Live, live, Locals, Owners, Views, born
  <2>3. Writes(<<turn, "post_attention_norm">>, <<"ffn_normalized">>, 0)
    BY <1>0, <1>22 DEF Writes, Operations, base, Live, live, Locals, Owners, Views, born
  <2>4. ASSUME Advance, samples' = samples
        PROVE  WorkMoves(<<turn, "post_attention_norm">>, <<"ffn_normalized">>, 0)
    <3>1. part' = part /\ turn' = turn /\ pc' = 23
      BY <1>22, <2>1, <2>4, LayerNext
    <3>2. \A v \in Owners : Live(v) => Expected(<<turn, "post_attention_norm">>, <<"ffn_normalized">>, 0, v)
      BY <1>0, <1>22, <3>1 DEF Expected, Keeps, Source, source, None, base, Live, live, Locals, Owners, Views, born
    <3>3. \A l \in Stored' : l \in Stored \/ (l = <<turn, "post_attention_norm">>[1] /\ <<"ffn_normalized">>[1] = "kv" /\ 1 \in DOMAIN <<"ffn_normalized">>)
      BY <1>0, <1>22, <3>1 DEF Stored, stored
    <3> QED
      BY <1>22, <2>4, <3>1, <3>2, <3>3, LayerWorks DEF WorkMoves, Works
  <2>5. ShapesFit(<<turn, "post_attention_norm">>, <<"residual">>, "ffn_normalized")
    <3>1. Live("residual") /\ Live("ffn_normalized")
      BY <1>22 DEF Live, live, born
    <3>2. /\ dims_of("residual") = <<rows, model.dim>>
          /\ dims_of("ffn_normalized") = <<rows, model.dim>>
          /\ weight_dims("post_attention_norm") = <<model.dim>>
      BY DEF dims_of, weight_dims
    <3> QED
      BY <3>1, <3>2, NormFits DEF Norms, Locals, Views, Owners
  <2>6. RowOf(<<turn, "post_attention_norm">>) = 0 /\ <<turn, "post_attention_norm">>[2] # "lm_head"
    BY DEF RowOf
  <2> QED
    BY <2>1, <2>2, <2>3, <2>4, <2>5, <2>6 DEF StatementFits, StatementMoves, forward
<1>23. CASE pc = 23
  <2>1. statement = new("gate", <<rows, model.hidden_dim>>) /\ pc < 33
    BY <1>23, LayerStatements DEF statement
  <2>2. "gate" \in Owners /\ "gate" \in Locals \ Early /\ pc = born("gate")
    BY <1>23 DEF Locals, Owners, Views, Early, born
  <2>3. statement.dims = dims_of("gate")
    BY <2>1 DEF new, dims_of
  <2>4. ~Live("gate")
    BY <1>23 DEF Live, live, born
  <2> QED
    BY <2>1, <2>2, <2>3, <2>4, LayerNext, LayerMakes DEF StatementFits, StatementMoves, new
<1>24. CASE pc = 24
  <2>1. statement = new("up", <<rows, model.hidden_dim>>) /\ pc < 33
    BY <1>24, LayerStatements DEF statement
  <2>2. "up" \in Owners /\ "up" \in Locals \ Early /\ pc = born("up")
    BY <1>24 DEF Locals, Owners, Views, Early, born
  <2>3. statement.dims = dims_of("up")
    BY <2>1 DEF new, dims_of
  <2>4. ~Live("up")
    BY <1>24 DEF Live, live, born
  <2> QED
    BY <2>1, <2>2, <2>3, <2>4, LayerNext, LayerMakes DEF StatementFits, StatementMoves, new
<1>25. CASE pc = 25
  <2>1. statement = forward(<<turn, "gate_proj">>, <<"ffn_normalized">>, "gate") /\ pc < 33
    BY <1>25, LayerStatements DEF statement
  <2>2. Reads(<<turn, "gate_proj">>, <<"ffn_normalized">>)
    BY <1>0, <1>25 DEF Reads, Found, Inputs, hidden, Source, source, Stored, stored, base, None,
                     Live, live, Locals, Owners, Views, born
  <2>3. Writes(<<turn, "gate_proj">>, <<"gate">>, 0)
    BY <1>0, <1>25 DEF Writes, Operations, base, Live, live, Locals, Owners, Views, born
  <2>4. ASSUME Advance, samples' = samples
        PROVE  WorkMoves(<<turn, "gate_proj">>, <<"gate">>, 0)
    <3>1. part' = part /\ turn' = turn /\ pc' = 26
      BY <1>25, <2>1, <2>4, LayerNext
    <3>2. \A v \in Owners : Live(v) => Expected(<<turn, "gate_proj">>, <<"gate">>, 0, v)
      BY <1>0, <1>25, <3>1 DEF Expected, Keeps, Source, source, None, base, Live, live, Locals, Owners, Views, born
    <3>3. \A l \in Stored' : l \in Stored \/ (l = <<turn, "gate_proj">>[1] /\ <<"gate">>[1] = "kv" /\ 1 \in DOMAIN <<"gate">>)
      BY <1>0, <1>25, <3>1 DEF Stored, stored
    <3> QED
      BY <1>25, <2>4, <3>1, <3>2, <3>3, LayerWorks DEF WorkMoves, Works
  <2>5. ShapesFit(<<turn, "gate_proj">>, <<"ffn_normalized">>, "gate")
    <3>1. Live("ffn_normalized") /\ Live("gate")
      BY <1>25 DEF Live, live, born
    <3>2. /\ dims_of("ffn_normalized") = <<rows, model.dim>>
          /\ dims_of("gate") = <<rows, model.hidden_dim>>
          /\ weight_dims("gate_proj") = <<model.hidden_dim, model.dim>>
      BY DEF dims_of, weight_dims
    <3> QED
      BY <3>1, <3>2, MatrixFits DEF Locals, Views, Owners
  <2>6. RowOf(<<turn, "gate_proj">>) = 0 /\ <<turn, "gate_proj">>[2] # "lm_head"
    BY DEF RowOf
  <2> QED
    BY <2>1, <2>2, <2>3, <2>4, <2>5, <2>6 DEF StatementFits, StatementMoves, forward
<1>26. CASE pc = 26
  <2>1. statement = forward(<<turn, "up_proj">>, <<"ffn_normalized">>, "up") /\ pc < 33
    BY <1>26, LayerStatements DEF statement
  <2>2. Reads(<<turn, "up_proj">>, <<"ffn_normalized">>)
    BY <1>0, <1>26 DEF Reads, Found, Inputs, hidden, Source, source, Stored, stored, base, None,
                     Live, live, Locals, Owners, Views, born
  <2>3. Writes(<<turn, "up_proj">>, <<"up">>, 0)
    BY <1>0, <1>26 DEF Writes, Operations, base, Live, live, Locals, Owners, Views, born
  <2>4. ASSUME Advance, samples' = samples
        PROVE  WorkMoves(<<turn, "up_proj">>, <<"up">>, 0)
    <3>1. part' = part /\ turn' = turn /\ pc' = 27
      BY <1>26, <2>1, <2>4, LayerNext
    <3>2. \A v \in Owners : Live(v) => Expected(<<turn, "up_proj">>, <<"up">>, 0, v)
      BY <1>0, <1>26, <3>1 DEF Expected, Keeps, Source, source, None, base, Live, live, Locals, Owners, Views, born
    <3>3. \A l \in Stored' : l \in Stored \/ (l = <<turn, "up_proj">>[1] /\ <<"up">>[1] = "kv" /\ 1 \in DOMAIN <<"up">>)
      BY <1>0, <1>26, <3>1 DEF Stored, stored
    <3> QED
      BY <1>26, <2>4, <3>1, <3>2, <3>3, LayerWorks DEF WorkMoves, Works
  <2>5. ShapesFit(<<turn, "up_proj">>, <<"ffn_normalized">>, "up")
    <3>1. Live("ffn_normalized") /\ Live("up")
      BY <1>26 DEF Live, live, born
    <3>2. /\ dims_of("ffn_normalized") = <<rows, model.dim>>
          /\ dims_of("up") = <<rows, model.hidden_dim>>
          /\ weight_dims("up_proj") = <<model.hidden_dim, model.dim>>
      BY DEF dims_of, weight_dims
    <3> QED
      BY <3>1, <3>2, MatrixFits DEF Locals, Views, Owners
  <2>6. RowOf(<<turn, "up_proj">>) = 0 /\ <<turn, "up_proj">>[2] # "lm_head"
    BY DEF RowOf
  <2> QED
    BY <2>1, <2>2, <2>3, <2>4, <2>5, <2>6 DEF StatementFits, StatementMoves, forward
<1>27. CASE pc = 27
  <2>1. statement = new("activated", <<rows, model.hidden_dim>>) /\ pc < 33
    BY <1>27, LayerStatements DEF statement
  <2>2. "activated" \in Owners /\ "activated" \in Locals \ Early /\ pc = born("activated")
    BY <1>27 DEF Locals, Owners, Views, Early, born
  <2>3. statement.dims = dims_of("activated")
    BY <2>1 DEF new, dims_of
  <2>4. ~Live("activated")
    BY <1>27 DEF Live, live, born
  <2> QED
    BY <2>1, <2>2, <2>3, <2>4, LayerNext, LayerMakes DEF StatementFits, StatementMoves, new
<1>28. CASE pc = 28
  <2>1. statement = forward(<<turn, "swiglu">>, <<"gate", "up">>, "activated") /\ pc < 33
    BY <1>28, LayerStatements DEF statement
  <2>2. Reads(<<turn, "swiglu">>, <<"gate", "up">>)
    BY <1>0, <1>28 DEF Reads, Found, Inputs, hidden, Source, source, Stored, stored, base, None,
                     Live, live, Locals, Owners, Views, born
  <2>3. Writes(<<turn, "swiglu">>, <<"activated">>, 0)
    BY <1>0, <1>28 DEF Writes, Operations, base, Live, live, Locals, Owners, Views, born
  <2>4. ASSUME Advance, samples' = samples
        PROVE  WorkMoves(<<turn, "swiglu">>, <<"activated">>, 0)
    <3>1. part' = part /\ turn' = turn /\ pc' = 29
      BY <1>28, <2>1, <2>4, LayerNext
    <3>2. \A v \in Owners : Live(v) => Expected(<<turn, "swiglu">>, <<"activated">>, 0, v)
      BY <1>0, <1>28, <3>1 DEF Expected, Keeps, Source, source, None, base, Live, live, Locals, Owners, Views, born
    <3>3. \A l \in Stored' : l \in Stored \/ (l = <<turn, "swiglu">>[1] /\ <<"activated">>[1] = "kv" /\ 1 \in DOMAIN <<"activated">>)
      BY <1>0, <1>28, <3>1 DEF Stored, stored
    <3> QED
      BY <1>28, <2>4, <3>1, <3>2, <3>3, LayerWorks DEF WorkMoves, Works
  <2>5. ShapesFit(<<turn, "swiglu">>, <<"gate", "up">>, "activated")
    <3>1. Live("gate") /\ Live("up") /\ Live("activated")
      BY <1>28 DEF Live, live, born
    <3>2. /\ dims_of("gate") = <<rows, model.hidden_dim>>
          /\ dims_of("up") = <<rows, model.hidden_dim>>
          /\ dims_of("activated") = <<rows, model.hidden_dim>>
      BY DEF dims_of, weight_dims
    <3> QED
      BY <3>1, <3>2, PairFits DEF Adds, Locals, Views, Owners
  <2>6. RowOf(<<turn, "swiglu">>) = 0 /\ <<turn, "swiglu">>[2] # "lm_head"
    BY DEF RowOf
  <2> QED
    BY <2>1, <2>2, <2>3, <2>4, <2>5, <2>6 DEF StatementFits, StatementMoves, forward
<1>29. CASE pc = 29
  <2>1. statement = new("down", <<rows, model.dim>>) /\ pc < 33
    BY <1>29, LayerStatements DEF statement
  <2>2. "down" \in Owners /\ "down" \in Locals \ Early /\ pc = born("down")
    BY <1>29 DEF Locals, Owners, Views, Early, born
  <2>3. statement.dims = dims_of("down")
    BY <2>1 DEF new, dims_of
  <2>4. ~Live("down")
    BY <1>29 DEF Live, live, born
  <2> QED
    BY <2>1, <2>2, <2>3, <2>4, LayerNext, LayerMakes DEF StatementFits, StatementMoves, new
<1>30. CASE pc = 30
  <2>1. statement = forward(<<turn, "down_proj">>, <<"activated">>, "down") /\ pc < 33
    BY <1>30, LayerStatements DEF statement
  <2>2. Reads(<<turn, "down_proj">>, <<"activated">>)
    BY <1>0, <1>30 DEF Reads, Found, Inputs, hidden, Source, source, Stored, stored, base, None,
                     Live, live, Locals, Owners, Views, born
  <2>3. Writes(<<turn, "down_proj">>, <<"down">>, 0)
    BY <1>0, <1>30 DEF Writes, Operations, base, Live, live, Locals, Owners, Views, born
  <2>4. ASSUME Advance, samples' = samples
        PROVE  WorkMoves(<<turn, "down_proj">>, <<"down">>, 0)
    <3>1. part' = part /\ turn' = turn /\ pc' = 31
      BY <1>30, <2>1, <2>4, LayerNext
    <3>2. \A v \in Owners : Live(v) => Expected(<<turn, "down_proj">>, <<"down">>, 0, v)
      BY <1>0, <1>30, <3>1 DEF Expected, Keeps, Source, source, None, base, Live, live, Locals, Owners, Views, born
    <3>3. \A l \in Stored' : l \in Stored \/ (l = <<turn, "down_proj">>[1] /\ <<"down">>[1] = "kv" /\ 1 \in DOMAIN <<"down">>)
      BY <1>0, <1>30, <3>1 DEF Stored, stored
    <3> QED
      BY <1>30, <2>4, <3>1, <3>2, <3>3, LayerWorks DEF WorkMoves, Works
  <2>5. ShapesFit(<<turn, "down_proj">>, <<"activated">>, "down")
    <3>1. Live("activated") /\ Live("down")
      BY <1>30 DEF Live, live, born
    <3>2. /\ dims_of("activated") = <<rows, model.hidden_dim>>
          /\ dims_of("down") = <<rows, model.dim>>
          /\ weight_dims("down_proj") = <<model.dim, model.hidden_dim>>
      BY DEF dims_of, weight_dims
    <3> QED
      BY <3>1, <3>2, MatrixFits DEF Locals, Views, Owners
  <2>6. RowOf(<<turn, "down_proj">>) = 0 /\ <<turn, "down_proj">>[2] # "lm_head"
    BY DEF RowOf
  <2> QED
    BY <2>1, <2>2, <2>3, <2>4, <2>5, <2>6 DEF StatementFits, StatementMoves, forward
<1>31. CASE pc = 31
  <2>1. statement = new("next_hidden", <<rows, model.dim>>) /\ pc < 33
    BY <1>31, LayerStatements DEF statement
  <2>2. "next_hidden" \in Owners /\ "next_hidden" \in Locals \ Early /\ pc = born("next_hidden")
    BY <1>31 DEF Locals, Owners, Views, Early, born
  <2>3. statement.dims = dims_of("next_hidden")
    BY <2>1 DEF new, dims_of
  <2>4. ~Live("next_hidden")
    BY <1>31 DEF Live, live, born
  <2> QED
    BY <2>1, <2>2, <2>3, <2>4, LayerNext, LayerMakes DEF StatementFits, StatementMoves, new
<1>32. CASE pc = 32
  <2>1. statement = forward(<<turn, "add_mlp">>, <<"residual", "down">>, "next_hidden") /\ pc < 33
    BY <1>32, LayerStatements DEF statement
  <2>2. Reads(<<turn, "add_mlp">>, <<"residual", "down">>)
    BY <1>0, <1>32 DEF Reads, Found, Inputs, hidden, Source, source, Stored, stored, base, None,
                     Live, live, Locals, Owners, Views, born
  <2>3. Writes(<<turn, "add_mlp">>, <<"next_hidden">>, 0)
    BY <1>0, <1>32 DEF Writes, Operations, base, Live, live, Locals, Owners, Views, born
  <2>4. ASSUME Advance, samples' = samples
        PROVE  WorkMoves(<<turn, "add_mlp">>, <<"next_hidden">>, 0)
    <3>1. part' = part /\ turn' = turn /\ pc' = 33
      BY <1>32, <2>1, <2>4, LayerNext
    <3>2. \A v \in Owners : Live(v) => Expected(<<turn, "add_mlp">>, <<"next_hidden">>, 0, v)
      BY <1>0, <1>32, <3>1 DEF Expected, Keeps, Source, source, None, base, Live, live, Locals, Owners, Views, born
    <3>3. \A l \in Stored' : l \in Stored \/ (l = <<turn, "add_mlp">>[1] /\ <<"next_hidden">>[1] = "kv" /\ 1 \in DOMAIN <<"next_hidden">>)
      BY <1>0, <1>32, <3>1 DEF Stored, stored
    <3> QED
      BY <1>32, <2>4, <3>1, <3>2, <3>3, LayerWorks DEF WorkMoves, Works
  <2>5. ShapesFit(<<turn, "add_mlp">>, <<"residual", "down">>, "next_hidden")
    <3>1. Live("residual") /\ Live("down") /\ Live("next_hidden")
      BY <1>32 DEF Live, live, born
    <3>2. /\ dims_of("residual") = <<rows, model.dim>>
          /\ dims_of("down") = <<rows, model.dim>>
          /\ dims_of("next_hidden") = <<rows, model.dim>>
      BY DEF dims_of, weight_dims
    <3> QED
      BY <3>1, <3>2, PairFits DEF Adds, Locals, Views, Owners
  <2>6. RowOf(<<turn, "add_mlp">>) = 0 /\ <<turn, "add_mlp">>[2] # "lm_head"
    BY DEF RowOf
  <2> QED
    BY <2>1, <2>2, <2>3, <2>4, <2>5, <2>6 DEF StatementFits, StatementMoves, forward
<1>33. CASE pc = 33
  <2>1. statement = just("leave_layer") /\ Len(code) = 33
    BY <1>33, LayerStatements DEF statement
  <2>2. Live("next_hidden") /\ \A v \in {"hidden", "tables", "positions", "scores"} : Live(v)
    BY <1>33 DEF Live, live, born
  <2>3. ASSUME Advance, samples' = samples
        PROVE  StatementMoves
    <3>0. following = IF turn < model.layer_num THEN <<"layer", turn + 1>> ELSE <<"norm", 1>>
      BY DEF following
    <3>1. /\ pc' = 1
          /\ \/ turn < model.layer_num /\ part' = "layer" /\ turn' = turn + 1
             \/ turn = model.layer_num /\ part' = "norm" /\ turn' = 1
      <4>1. pc' = 1 /\ part' = following[1] /\ turn' = following[2]
        BY <1>33, <2>1, <2>3 DEF Advance
      <4>2. model.layer_num \in Nat /\ (turn < model.layer_num \/ turn = model.layer_num)
        <5> PICK n \in Nat \ {0} : n = model.layer_num
          BY ModelIs
        <5> QED
          BY <1>0
      <4> QED
        BY <3>0, <4>1, <4>2
    <3>2. \A v \in Locals : Live(v)' <=> v \in {"hidden", "tables", "positions", "scores"}
      BY <3>1 DEF Live, live, Locals, Owners, Views, born
    <3>3. Source("hidden")' \in {None, Source("next_hidden")}
      <4>1. Source("next_hidden") = <<turn, "add_mlp", 1>>
        BY <1>33 DEF Source, source
      <4>2. CASE turn < model.layer_num /\ part' = "layer" /\ turn' = turn + 1
        <5>1. Source("hidden")' = hidden(turn)
          BY <1>0, <4>2 DEF Source, source
        <5> QED
          BY <1>0, <4>1, <5>1 DEF hidden
      <4>3. CASE turn = model.layer_num /\ part' = "norm" /\ turn' = 1
        <5>1. Source("hidden")' = hidden(turn)
          BY <4>3 DEF Source, source
        <5> QED
          BY <1>0, <4>1, <5>1 DEF hidden
      <4> QED
        BY <3>1, <4>2, <4>3
    <3>4. \A v \in {"tables", "positions", "scores"} : Keeps(v)
      BY <1>33, <3>1 DEF Keeps, Source, source
    <3>5. Steady /\ part' # "sample"
      BY <1>0, <1>33, <2>3, <3>1 DEF Steady, Read, Running, Stored, stored
    <3> QED
      BY <2>1, <2>2, <3>2, <3>3, <3>4, <3>5 DEF StatementMoves, just
  <2> QED
    BY <2>1, <2>2, <2>3 DEF StatementFits, just
<1> QED
  BY <1>0, <1>1, <1>2, <1>3, <1>4, <1>5, <1>6, <1>7, <1>8, <1>9, <1>10, <1>11, <1>12, <1>13,
     <1>14, <1>15, <1>16, <1>17, <1>18, <1>19, <1>20, <1>21, <1>22, <1>23, <1>24, <1>25, <1>26,
     <1>27, <1>28, <1>29, <1>30, <1>31, <1>32, <1>33

----------------------------------------------------------------------------
(* The statements before and behind the decoder layers *)

LEMMA InputsStatements ==
  ASSUME part = "inputs"
  PROVE  /\ Len(code) = 11
         /\ code[1] = just(IF rows = 1 THEN "share" ELSE "grow")
         /\ code[2] = just("embed")
         /\ code[3] = new("tokens", <<rows>>)
         /\ code[4] = upload("tokens")
         /\ code[5] = kernel(<<0, "embedding">>, <<"tokens">>, <<"hidden">>)
         /\ code[6] = just("synchronize")
         /\ code[7] = new("tables", <<rows, (model.seq_len + 1) \div 2>>)
         /\ code[8] = upload("tables")
         /\ code[9] = new("positions", <<rows>>)
         /\ code[10] = upload("positions")
         /\ code[11] = new("scores", IF device = "cuda"
                                     THEN <<rows * model.head_num, model.seq_len>>
                                     ELSE <<model.head_num, model.seq_len>>)
<1>1. code = batch_inputs(device, rows)
  BY DEF code
<1> HIDE DEF code
<1> QED
  BY <1>1 DEF batch_inputs

LEMMA InputsNext ==
  ASSUME ControlOK, part = "inputs", Advance
  PROVE  /\ pc < 11 => part' = part /\ turn' = turn /\ pc' = pc + 1
         /\ pc = 11 => part' = "layer" /\ turn' = 1 /\ pc' = 1
<1>1. pc \in 1..11 /\ Len(code) = 11
  BY InputsStatements DEF ControlOK, Running, Length
<1>2. following = <<"layer", 1>>
  BY DEF following
<1> QED
  BY <1>1, <1>2 DEF Advance

LEMMA InputsMakes ==
  ASSUME ControlOK, part = "inputs", Advance, samples' = samples,
         NEW w \in {"hidden", "tokens", "tables", "positions", "scores"},
         pc = CASE w = "hidden" -> 1 [] w = "tokens" -> 3 [] w = "tables" -> 7
                [] w = "positions" -> 9 [] OTHER -> 11
  PROVE  OneMore(w) /\ Steady /\ SameRow /\ Stored' = {} /\ part' # "sample"
<1>1. \/ pc < 11 /\ part' = "inputs" /\ turn' = turn /\ pc' = pc + 1
      \/ pc = 11 /\ part' = "layer" /\ turn' = 1 /\ pc' = 1
  BY InputsNext DEF ControlOK, Running, Length
<1>2. \A v \in Locals : Live(v)' <=> v = w \/ Live(v)
  BY <1>1 DEF Live, live, Locals, Owners, Views, born
<1>3. \A v \in Owners : Live(v) => Keeps(v)
  BY <1>1 DEF Keeps, Source, source, None, Live, live, Locals, Owners, Views, born
<1>4. Source(w)' = None
  BY <1>1 DEF Source, source, None
<1>5. Stored' = {}
  BY <1>1 DEF Stored, stored
<1> QED
  BY <1>1, <1>2, <1>3, <1>4, <1>5 DEF OneMore, Steady, SameRow, Read, Running

LEMMA InputsWorks ==
  ASSUME ControlOK, part = "inputs", Advance, samples' = samples, pc \in {2, 4, 5, 8, 10}
  PROVE  /\ part' = part /\ turn' = turn /\ pc' = pc + 1
         /\ SameLocals /\ Read' = Read /\ SameRow /\ Stored' = {}
<1>1. part' = part /\ turn' = turn /\ pc' = pc + 1
  BY InputsNext
<1>2. SameLocals
  BY <1>1 DEF SameLocals, Live, live, Locals, Owners, Views, born
<1> QED
  BY <1>1, <1>2 DEF SameRow, Read, Running, Stored, stored

LEMMA InputsFits ==
  ASSUME ControlOK, part = "inputs"
  PROVE  StatementFits /\ (Advance /\ samples' = samples => StatementMoves)
<1>0. pc \in 1..11 /\ rows \in Nat \ {0}
  BY DEF ControlOK, Running, Length
<1>1. CASE pc = 1
  <2>1. statement = just(IF rows = 1 THEN "share" ELSE "grow")
    BY <1>1, InputsStatements DEF statement
  <2>2. \A v \in Locals : ~Live(v)
    BY <1>1 DEF Live, live, Locals, Owners, Views, born
  <2>3. Advance /\ samples' = samples => OneMore("hidden") /\ Steady /\ Stored' = {} /\ part' # "sample"
    BY <1>1, InputsMakes
  <2>4. StatementFits
    BY <2>1, <2>2 DEF StatementFits, just
  <2>5. statement.do \in {"share", "grow"}
    BY <2>1 DEF just
  <2> QED
    BY <2>3, <2>4, <2>5 DEF StatementMoves
<1>2. CASE pc = 2
  <2>1. statement = just("embed")
    BY <1>2, InputsStatements DEF statement
  <2>2. Live("hidden")
    BY <1>2 DEF Live, live
  <2>3. ASSUME Advance, samples' = samples
        PROVE  StatementMoves
    <3>1. part' = part /\ turn' = turn /\ pc' = 3 /\ SameLocals
      BY <1>2, <2>3, InputsWorks
    <3>2. \A v \in Owners : Live(v) => Keeps(v)
      BY <1>2, <3>1 DEF Keeps, Source, source, None, Live, live, Locals, Owners, Views, born
    <3>3. Steady /\ part' # "sample"
      BY <3>1 DEF Steady, Read, Running, Stored, stored
    <3> QED
      BY <2>1, <3>1, <3>2, <3>3 DEF StatementMoves, just
  <2> QED
    BY <2>1, <2>2, <2>3 DEF StatementFits, just
<1>3. CASE pc = 3
  <2>1. statement = new("tokens", dims_of("tokens"))
    BY <1>3, InputsStatements DEF statement, dims_of
  <2>2. ~Live("tokens") /\ "tokens" \in Owners
    BY <1>3 DEF Live, live, Owners
  <2>3. Advance /\ samples' = samples => OneMore("tokens") /\ Steady /\ SameRow
    BY <1>3, InputsMakes
  <2> QED
    BY <2>1, <2>2, <2>3 DEF StatementFits, StatementMoves, new
<1>4. CASE pc = 4
  <2>1. statement = upload("tokens")
    BY <1>4, InputsStatements DEF statement
  <2>2. Live("tokens") /\ "tokens" \in Owners
    BY <1>4 DEF Live, live, Owners
  <2>3. Writes(<<0, "tokens">>, <<"tokens">>, 0)
    BY <1>4 DEF Writes, Operations, base, Live, live, Locals, Owners, Views, born
  <2>4. ASSUME Advance, samples' = samples
        PROVE  WorkMoves(<<0, "tokens">>, <<"tokens">>, 0)
    <3>1. \A v \in Owners : Live(v) => Expected(<<0, "tokens">>, <<"tokens">>, 0, v)
      BY <1>4, <2>4, InputsWorks DEF Expected, Keeps, Source, source, None, base, Live, live, Locals, Owners, Views, born
    <3> QED
      BY <1>4, <2>4, <3>1, InputsWorks DEF WorkMoves
  <2> QED
    BY <2>1, <2>2, <2>3, <2>4 DEF StatementFits, StatementMoves, upload
<1>5. CASE pc = 5
  <2>1. statement = kernel(<<0, "embedding">>, <<"tokens">>, <<"hidden">>)
    BY <1>5, InputsStatements DEF statement
  <2>2. Reads(<<0, "embedding">>, <<"tokens">>)
    BY <1>5 DEF Reads, Found, Inputs, Source, source, base, None, Live, live, Locals, Owners, Views, born
  <2>3. Writes(<<0, "embedding">>, <<"hidden">>, 0)
    BY <1>5 DEF Writes, Operations, base, Live, live, Locals, Owners, Views, born
  <2>4. ASSUME Advance, samples' = samples
        PROVE  WorkMoves(<<0, "embedding">>, <<"hidden">>, 0)
    <3>1. \A v \in Owners : Live(v) => Expected(<<0, "embedding">>, <<"hidden">>, 0, v)
      BY <1>5, <2>4, InputsWorks DEF Expected, Keeps, Source, source, hidden, None, base, Live, live, Locals, Owners, Views, born
    <3> QED
      BY <1>5, <2>4, <3>1, InputsWorks DEF WorkMoves
  <2> QED
    BY <2>1, <2>2, <2>3, <2>4 DEF StatementFits, StatementMoves, kernel
<1>6. CASE pc = 6
  <2>1. statement = just("synchronize")
    BY <1>6, InputsStatements DEF statement
  <2>2. ASSUME Advance, samples' = samples
        PROVE  StatementMoves
    <3>1. part' = part /\ turn' = turn /\ pc' = 7
      BY <1>6, <2>2, InputsNext
    <3>2. \A v \in Locals : Live(v)' <=> v # "tokens" /\ Live(v)
      BY <1>6, <3>1 DEF Live, live, Locals, Owners, Views, born
    <3>3. \A v \in Owners \ {"tokens"} : Live(v) => Keeps(v)
      BY <1>6, <3>1 DEF Keeps, Source, source, None, Live, live, Locals, Owners, Views, born
    <3>4. Steady /\ part' # "sample"
      BY <3>1 DEF Steady, Read, Running, Stored, stored
    <3> QED
      BY <2>1, <3>2, <3>3, <3>4 DEF StatementMoves, just
  <2> QED
    BY <2>1, <2>2 DEF StatementFits, just
<1>7. CASE pc = 7
  <2>1. statement = new("tables", dims_of("tables"))
    BY <1>7, InputsStatements DEF statement, dims_of
  <2>2. ~Live("tables") /\ "tables" \in Owners
    BY <1>7 DEF Live, live, Owners
  <2>3. Advance /\ samples' = samples => OneMore("tables") /\ Steady /\ SameRow
    BY <1>7, InputsMakes
  <2> QED
    BY <2>1, <2>2, <2>3 DEF StatementFits, StatementMoves, new
<1>8. CASE pc = 8
  <2>1. statement = upload("tables")
    BY <1>8, InputsStatements DEF statement
  <2>2. Live("tables") /\ "tables" \in Owners
    BY <1>8 DEF Live, live, Owners
  <2>3. Writes(<<0, "tables">>, <<"tables">>, 0)
    BY <1>8 DEF Writes, Operations, base, Live, live, Locals, Owners, Views, born
  <2>4. ASSUME Advance, samples' = samples
        PROVE  WorkMoves(<<0, "tables">>, <<"tables">>, 0)
    <3>1. \A v \in Owners : Live(v) => Expected(<<0, "tables">>, <<"tables">>, 0, v)
      BY <1>8, <2>4, InputsWorks DEF Expected, Keeps, Source, source, None, base, Live, live, Locals, Owners, Views, born
    <3> QED
      BY <1>8, <2>4, <3>1, InputsWorks DEF WorkMoves
  <2> QED
    BY <2>1, <2>2, <2>3, <2>4 DEF StatementFits, StatementMoves, upload
<1>9. CASE pc = 9
  <2>1. statement = new("positions", dims_of("positions"))
    BY <1>9, InputsStatements DEF statement, dims_of
  <2>2. ~Live("positions") /\ "positions" \in Owners
    BY <1>9 DEF Live, live, Owners
  <2>3. Advance /\ samples' = samples => OneMore("positions") /\ Steady /\ SameRow
    BY <1>9, InputsMakes
  <2> QED
    BY <2>1, <2>2, <2>3 DEF StatementFits, StatementMoves, new
<1>10. CASE pc = 10
  <2>1. statement = upload("positions")
    BY <1>10, InputsStatements DEF statement
  <2>2. Live("positions") /\ "positions" \in Owners
    BY <1>10 DEF Live, live, Owners
  <2>3. Writes(<<0, "positions">>, <<"positions">>, 0)
    BY <1>10 DEF Writes, Operations, base, Live, live, Locals, Owners, Views, born
  <2>4. ASSUME Advance, samples' = samples
        PROVE  WorkMoves(<<0, "positions">>, <<"positions">>, 0)
    <3>1. \A v \in Owners : Live(v) => Expected(<<0, "positions">>, <<"positions">>, 0, v)
      BY <1>10, <2>4, InputsWorks DEF Expected, Keeps, Source, source, None, base, Live, live, Locals, Owners, Views, born
    <3> QED
      BY <1>10, <2>4, <3>1, InputsWorks DEF WorkMoves
  <2> QED
    BY <2>1, <2>2, <2>3, <2>4 DEF StatementFits, StatementMoves, upload
<1>11. CASE pc = 11
  <2>1. statement = new("scores", dims_of("scores"))
    BY <1>11, InputsStatements DEF statement, dims_of
  <2>2. ~Live("scores") /\ "scores" \in Owners
    BY <1>11 DEF Live, live, Owners
  <2>3. Advance /\ samples' = samples => OneMore("scores") /\ Steady /\ SameRow
    BY <1>11, InputsMakes
  <2> QED
    BY <2>1, <2>2, <2>3 DEF StatementFits, StatementMoves, new
<1> QED
  BY <1>0, <1>1, <1>2, <1>3, <1>4, <1>5, <1>6, <1>7, <1>8, <1>9, <1>10, <1>11

LEMMA NormStatements ==
  ASSUME part = "norm"
  PROVE  /\ Len(code) = 2
         /\ code[1] = new("final_hidden", <<rows, model.dim>>)
         /\ code[2] = forward(<<0, "norm">>, <<"hidden">>, "final_hidden")
<1>1. code = final_norm(rows)
  BY DEF code
<1> HIDE DEF code
<1> QED
  BY <1>1 DEF final_norm

LEMMA FinalNormFits ==
  ASSUME ControlOK, part = "norm"
  PROVE  StatementFits /\ (Advance /\ samples' = samples => StatementMoves)
<1>0. pc \in 1..2 /\ samples \in Nat
  BY DEF ControlOK, Running, Length
<1>1. CASE pc = 1
  <2>1. statement = new("final_hidden", dims_of("final_hidden"))
    BY <1>1, NormStatements DEF statement, dims_of
  <2>2. ~Live("final_hidden") /\ "final_hidden" \in Owners
    BY <1>1 DEF Live, live, Owners
  <2>3. ASSUME Advance, samples' = samples
        PROVE  OneMore("final_hidden") /\ Steady /\ SameRow
    <3>1. part' = part /\ turn' = turn /\ pc' = 2
      BY <1>1, <2>3, NormStatements DEF Advance
    <3>2. OneMore("final_hidden")
      BY <1>1, <3>1 DEF OneMore, Keeps, Source, source, None, Live, live, Locals, Owners, Views, born
    <3>3. Steady /\ SameRow
      BY <3>1 DEF Steady, SameRow, Read, Running, Stored, stored
    <3> QED
      BY <3>2, <3>3
  <2> QED
    BY <2>1, <2>2, <2>3 DEF StatementFits, StatementMoves, new
<1>2. CASE pc = 2
  <2>1. statement = forward(<<0, "norm">>, <<"hidden">>, "final_hidden")
    BY <1>2, NormStatements DEF statement
  <2>2. Reads(<<0, "norm">>, <<"hidden">>)
    <3>1. hidden(model.layer_num) = <<model.layer_num, "add_mlp", 1>>
      BY ModelIs DEF hidden
    <3>2. Source("hidden") = hidden(model.layer_num)
      BY DEF Source, source
    <3>3. Inputs(<<0, "norm">>) = <<hidden(model.layer_num)>>
      BY DEF Inputs
    <3>4. hidden(model.layer_num) # None
      BY <3>1, ModelIs DEF None
    <3>5. Live("hidden") /\ base("hidden") = "hidden"
      BY DEF Live, live, base
    <3> QED
      BY <3>1, <3>2, <3>3, <3>4, <3>5 DEF Reads, Found, Locals, Owners
  <2>3. Writes(<<0, "norm">>, <<"final_hidden">>, 0)
    BY <1>2 DEF Writes, Operations, base, Live, live, Locals, Owners, Views, born
  <2>4. ASSUME Advance, samples' = samples
        PROVE  WorkMoves(<<0, "norm">>, <<"final_hidden">>, 0)
    <3>0. following = IF samples > 0 THEN <<"sample", 1>> ELSE <<"return", 1>>
      BY DEF following
    <3>1. /\ pc' = 1 /\ turn' = 1
          /\ part' = "sample" \/ (part' = "return" /\ samples = 0)
      <4>1. pc' = 1 /\ part' = following[1] /\ turn' = following[2]
        <5>1. Len(code) = 2
          BY NormStatements
        <5> QED
          BY <1>2, <2>4, <5>1 DEF Advance
      <4> QED
        BY <1>0, <3>0, <4>1
    <3>2. \A v \in Owners : Live(v) => Expected(<<0, "norm">>, <<"final_hidden">>, 0, v)
      BY <1>2, <3>1 DEF Expected, Keeps, Source, source, None, base, Live, live, Locals, Owners, Views, born
    <3>3. SameLocals
      BY <1>2, <3>1 DEF SameLocals, Live, live, Locals, Owners, Views, born
    <3>4. Read' = Read /\ SameRow
      BY <2>4, <3>1 DEF Read, Running, SameRow
    <3>5. \A l \in Stored' : l \in Stored
      BY DEF Stored, stored
    <3> QED
      BY <3>2, <3>3, <3>4, <3>5 DEF WorkMoves
  <2>5. ShapesFit(<<0, "norm">>, <<"hidden">>, "final_hidden")
    <3>1. Live("hidden") /\ Live("final_hidden")
      BY <1>2 DEF Live, live
    <3>2. /\ dims_of("hidden") = <<rows, model.dim>> /\ dims_of("final_hidden") = <<rows, model.dim>>
          /\ weight_dims("norm") = <<model.dim>>
      BY DEF dims_of, weight_dims
    <3> QED
      BY <3>1, <3>2, NormFits DEF Norms, Locals, Owners
  <2>6. RowOf(<<0, "norm">>) = 0
    BY DEF RowOf
  <2> QED
    BY <2>1, <2>2, <2>3, <2>4, <2>5, <2>6 DEF StatementFits, StatementMoves, forward
<1> QED
  BY <1>0, <1>1, <1>2

LEMMA SampleStatements ==
  ASSUME part = "sample"
  PROVE  /\ Len(code) = 4
         /\ code[1] = view("hidden_row", "final_hidden", <<model.dim>>, turn)
         /\ code[2] = new("row_logits", <<model.vocab_size>>)
         /\ code[3] = forward(<<0, "lm_head">>, <<"hidden_row">>, "row_logits")
         /\ code[4] = just("fetch")
<1>1. code = sampled_row(turn)
  BY DEF code
<1> HIDE DEF code
<1> QED
  BY <1>1 DEF sampled_row

LEMMA SampleFits ==
  ASSUME ControlOK, part = "sample"
  PROVE  StatementFits /\ (Advance /\ samples' = samples => StatementMoves)
<1>0. pc \in 1..4 /\ samples \in Nat /\ turn \in 1..samples
  BY DEF ControlOK, Running, Length
<1>5. ASSUME Advance, pc < 4
       PROVE  part' = part /\ turn' = turn /\ pc' = pc + 1
  BY <1>5, SampleStatements DEF Advance
<1>6. \A l \in Stored' : l \in Stored
  BY DEF Stored, stored
<1>1. CASE pc = 1
  <2>1. statement = view("hidden_row", "final_hidden", dims_of("hidden_row"), turn)
    BY <1>1, SampleStatements DEF statement, dims_of
  <2>2. /\ ~Live("hidden_row") /\ "hidden_row" \in Views
        /\ Live("final_hidden") /\ base("hidden_row") = "final_hidden"
    BY <1>1 DEF Live, live, Views, base
  <2>3. ASSUME Advance, samples' = samples
        PROVE  OneMore("hidden_row") /\ Steady /\ pc' = 2 /\ turn' = turn
    <3>1. OneMore("hidden_row")
      BY <1>1, <1>5, <2>3 DEF OneMore, Keeps, Source, source, None, Live, live, Locals, Owners, Views, born
    <3> QED
      BY <1>1, <1>5, <1>6, <2>3, <3>1 DEF Steady, Read, Running
  <2> QED
    BY <2>1, <2>2, <2>3 DEF StatementFits, StatementMoves, view
<1>2. CASE pc = 2
  <2>1. statement = new("row_logits", dims_of("row_logits"))
    BY <1>2, SampleStatements DEF statement, dims_of
  <2>2. ~Live("row_logits") /\ "row_logits" \in Owners
    BY <1>2 DEF Live, live, Owners
  <2>3. ASSUME Advance, samples' = samples
        PROVE  OneMore("row_logits") /\ Steady /\ SameRow
    <3>1. OneMore("row_logits")
      BY <1>2, <1>5, <2>3 DEF OneMore, Keeps, Source, source, None, Live, live, Locals, Owners, Views, born
    <3> QED
      BY <1>2, <1>5, <1>6, <2>3, <3>1 DEF Steady, SameRow, Read, Running
  <2> QED
    BY <2>1, <2>2, <2>3 DEF StatementFits, StatementMoves, new
<1>3. CASE pc = 3
  <2>1. statement = forward(<<0, "lm_head">>, <<"hidden_row">>, "row_logits")
    BY <1>3, SampleStatements DEF statement
  <2>2. Reads(<<0, "lm_head">>, <<"hidden_row">>)
    BY <1>3 DEF Reads, Found, Inputs, Source, source, base, None, Live, live, Locals, Owners, Views, born
  <2>3. Writes(<<0, "lm_head">>, <<"row_logits">>, turn)
    BY <1>0, <1>3 DEF Writes, Operations, base, Live, live, Locals, Owners, Views, born
  <2>4. ASSUME Advance, samples' = samples
        PROVE  WorkMoves(<<0, "lm_head">>, <<"row_logits">>, turn)
    <3>1. \A v \in Owners : Live(v) => Expected(<<0, "lm_head">>, <<"row_logits">>, turn, v)
      BY <1>3, <1>5, <2>4 DEF Expected, Keeps, Source, source, None, base, Live, live, Locals, Owners, Views, born
    <3>2. SameLocals
      BY <1>3, <1>5, <2>4 DEF SameLocals, Live, live, Locals, Owners, Views, born
    <3>3. Read' = Read /\ SameRow
      BY <1>3, <1>5, <2>1, <2>4 DEF Read, Running, SameRow, forward
    <3> QED
      BY <1>6, <3>1, <3>2, <3>3 DEF WorkMoves
  <2>5. ShapesFit(<<0, "lm_head">>, <<"hidden_row">>, "row_logits")
    <3>1. Live("hidden_row") /\ Live("row_logits")
      BY <1>3 DEF Live, live
    <3>2. /\ dims_of("hidden_row") = <<model.dim>> /\ dims_of("row_logits") = <<model.vocab_size>>
          /\ weight_dims("lm_head") = <<model.vocab_size, model.dim>>
      BY DEF dims_of, weight_dims
    <3> QED
      BY <3>1, <3>2, MatrixFits DEF Locals, Owners, Views
  <2>6. RowOf(<<0, "lm_head">>) = turn
    BY DEF RowOf
  <2> QED
    BY <1>3, <2>1, <2>2, <2>3, <2>4, <2>5, <2>6 DEF StatementFits, StatementMoves, forward
<1>4. CASE pc = 4
  <2>1. statement = just("fetch")
    BY <1>4, SampleStatements DEF statement
  <2>2. Live("row_logits") /\ Source("row_logits") = <<0, "lm_head", 1>>
    BY <1>4 DEF Live, live, Source, source
  <2>3. ASSUME Advance, samples' = samples
        PROVE  StatementMoves
    <3>0. following = IF turn < samples THEN <<"sample", turn + 1>> ELSE <<"return", 1>>
      BY DEF following
    <3>1. /\ pc' = 1
          /\ \/ part' = "sample" /\ turn' = turn + 1
             \/ part' = "return" /\ turn' = 1 /\ samples = turn
      <4>1. pc' = 1 /\ part' = following[1] /\ turn' = following[2]
        <5>1. Len(code) = 4
          BY SampleStatements
        <5> QED
          BY <1>4, <2>3, <5>1 DEF Advance
      <4>2. turn < samples \/ turn = samples
        BY <1>0
      <4> QED
        BY <1>0, <3>0, <4>1, <4>2
    <3>2. \A v \in Locals : Live(v)' <=> v \notin {"row_logits", "hidden_row"} /\ Live(v)
      BY <1>4, <3>1 DEF Live, live, Locals, Owners, Views, born
    <3>3. \A v \in Owners \ {"row_logits"} : Live(v) => Keeps(v)
      BY <1>4, <3>1 DEF Keeps, Source, source, None, Live, live, Locals, Owners, Views, born
    <3>4. Read' = turn /\ Read = turn - 1
      BY <1>0, <2>3, <3>1 DEF Read, Running
    <3> QED
      BY <1>6, <2>1, <3>1, <3>2, <3>3, <3>4 DEF StatementMoves, just
  <2> QED
    BY <1>4, <2>1, <2>2, <2>3 DEF StatementFits, just
<1> QED
  BY <1>0, <1>1, <1>2, <1>3, <1>4

\* Every statement finds what it needs, and leaves what the next one needs.
LEMMA StatementsFit ==
  ASSUME ControlOK, Running
  PROVE  StatementFits /\ (Advance /\ samples' = samples => StatementMoves)
<1>1. CASE part = "return"
  <2>1. statement = just("return")
    BY <1>1 DEF statement, code, ControlOK, Running, Length
  <2> QED
    BY <1>1, <2>1 DEF StatementFits, StatementMoves, just
<1> QED
  BY <1>1, InputsFits, LayerFits, FinalNormFits, SampleFits DEF ControlOK, Running

----------------------------------------------------------------------------
(* What the steps share *)

LEMMA BaseIs ==
  /\ \A v \in Locals : base(v) \in Owners /\ base(base(v)) = base(v)
  /\ \A v \in Owners : base(v) = v /\ v \notin Views /\ v \in Locals
  /\ \A v \in Locals : v # "kv" /\ (v \notin Views => v \in Owners)
  /\ base("kv") = "kv" /\ "kv" \notin Owners
BY DEF Locals, Owners, Views, base

LEMMA DimsKept ==
  ASSUME UNCHANGED call, NEW v
  PROVE  dims_of(v)' = dims_of(v)
BY DEF dims_of, call

LEMMA CodeLength ==
  ASSUME ControlOK, Running
  PROVE  Len(code) = Length(part)
<1>1. CASE part = "return"
  BY <1>1 DEF code, Length
<1> QED
  BY <1>1, InputsStatements, LayerStatements, NormStatements, SampleStatements
     DEF ControlOK, Running, Length

LEMMA AdvanceControl ==
  ASSUME ControlOK, Running, Advance, UNCHANGED <<call, status>>, statement.do # "return"
  PROVE  ControlOK' /\ Running' /\ ~Returned'
<1>1. Len(code) = Length(part) /\ pc \in 1..Length(part)
  BY CodeLength DEF ControlOK
<1>2. CASE pc < Len(code)
  <2>1. pc' = pc + 1 /\ part' = part /\ turn' = turn
    BY <1>2 DEF Advance
  <2>2. pc + 1 \in 1..Length(part)
    BY <1>1, <1>2 DEF Length
  <2> QED
    BY <2>1, <2>2 DEF ControlOK, Running, Returned, call, Length
<1>3. CASE ~(pc < Len(code))
  <2>1. pc' = 1 /\ part' = following[1] /\ turn' = following[2]
    BY <1>3 DEF Advance
  <2>2. model.layer_num \in Nat \ {0} /\ samples \in Nat /\ turn \in Nat
    BY ModelIs DEF ControlOK
  <2>3. /\ part' \in {"layer", "norm", "sample", "return"} /\ turn' \in Nat
        /\ part' = "layer" => turn' \in 1..model.layer_num
        /\ part' = "sample" => turn' \in 1..samples
    <3>1. CASE part = "inputs"
      BY <2>1, <2>2, <3>1 DEF following
    <3>2. CASE part = "layer"
      <4>1. turn \in 1..model.layer_num
        BY <3>2 DEF ControlOK
      <4> QED
        BY <2>1, <2>2, <3>2, <4>1 DEF following
    <3>3. CASE part = "norm"
      BY <2>1, <2>2, <3>3 DEF following
    <3>4. CASE part = "sample"
      <4>1. turn \in 1..samples
        BY <3>4 DEF ControlOK
      <4> QED
        BY <2>1, <2>2, <3>4, <4>1 DEF following
    <3>5. CASE part = "return"
      BY <3>5, <1>1 DEF statement, code, just, Length
    <3> QED
      BY <3>1, <3>2, <3>3, <3>4, <3>5 DEF ControlOK, Running
  <2>4. 1 \in 1..Length(part)'
    BY DEF Length
  <2> QED
    BY <2>1, <2>3, <2>4 DEF ControlOK, Running, Returned, call
<1> QED
  BY <1>2, <1>3

LEMMA StreamStill ==
  ASSUME stream \in Seq(Kernels), UNCHANGED <<stream, contents>>
  PROVE  /\ \A c, r : Holds(c, r)' <=> Holds(c, r)
         /\ StreamRight' <=> StreamRight
<1> PICK n \in Nat : n = Len(stream)
  OBVIOUS
<1>1. \A m \in 0..n : \A c, r : Leaves(m, c, r)' <=> Leaves(m, c, r)
  BY LeavesSame
<1>2. \A m \in 0..n : \A k : Ready(m, k)' <=> Ready(m, k)
  BY ReadySame
<1>3. \A c, r : Holds(c, r)' <=> Holds(c, r)
  BY <1>1 DEF Holds
<1>4. StreamRight' <=> \A i \in 1..n : Ready(i - 1, stream[i])'
  BY DEF StreamRight
<1>5. StreamRight <=> \A i \in 1..n : Ready(i - 1, stream[i])
  BY DEF StreamRight
<1>6. \A i \in 1..n : Ready(i - 1, stream[i])' <=> Ready(i - 1, stream[i])
  <2> TAKE i \in 1..n
  <2> PICK k : k = stream[i]
    OBVIOUS
  <2>1. k = stream'[i] /\ i - 1 \in 0..n
    OBVIOUS
  <2> QED
    BY <1>2, <2>1
<1> QED
  BY <1>3, <1>4, <1>5, <1>6

LEMMA StreamOKStill ==
  ASSUME StreamOK, UNCHANGED <<stream, contents, device>>, starved \subseteq starved',
         status' = "crash" \/ status # "crash"
  PROVE  StreamOK'
<1>1. stream' \in Seq(Kernels) /\ (device' # "cuda" => stream' = <<>>)
  BY DEF StreamOK
<1>2. \A i \in 1..Len(stream') : faults(stream[i])' => starved' # {}
  <2> SUFFICES ASSUME NEW i \in 1..Len(stream), faults(stream'[i]) PROVE starved' # {}
    OBVIOUS
  <2>1. faults(stream[i])
    OBVIOUS
  <2> QED
    BY <2>1 DEF StreamOK
<1>3. status' # "crash" => StreamRight'
  BY StreamStill DEF StreamOK
<1> QED
  BY <1>1, <1>2, <1>3 DEF StreamOK

\* A batch that ends otherwise than by returning.
LEMMA LeaveKeeps ==
  ASSUME IInv, part' = "none", UNCHANGED <<turn, pc, call, stream, contents>>,
         status' \in {"error", "crash"}, tensors' = <<>> \/ (tensors' = tensors /\ status' = "crash"),
         starved \subseteq starved',
         status' = "error" => batch \in starved' \/ rows > model.seq_len \/ ~in_vocabulary,
         status' = "crash" => starved' # {}, status # "crash"
  PROVE  IInv'
<1>1. ControlOK'
  BY DEF IInv, ControlOK, call, Running
<1>2. StreamOK'
  BY StreamOKStill DEF IInv, call
<1>3. TensorsOK' /\ Apart'
  <2>1. CASE tensors' = <<>>
    BY <2>1 DEF TensorsOK, Apart
  <2>2. CASE tensors' = tensors
    BY <2>2, DimsKept DEF IInv, TensorsOK, TensorOK, Apart
  <2> QED
    BY <2>1, <2>2
<1>4. LocalsOK'
  BY DEF LocalsOK, Running
<1>5. Filled' /\ RowOK' /\ KvFilled' /\ LogitsOK'
  BY DEF Filled, RowOK, KvFilled, LogitsOK, Running, Returned
<1>6. StatusOK'
  BY DEF StatusOK, call
<1> QED
  BY <1>1, <1>2, <1>3, <1>4, <1>5, <1>6 DEF IInv

\* A statement that makes one local.
LEMMA MakesKeep ==
  ASSUME IInv, Running, Advance, UNCHANGED <<call, status, logits>>, statement.do # "return",
         NEW w \in Locals, ~Live(w), OneMore(w), Steady, NEW x, tensors' = with(tensors, w, x),
         x.block \in 0..Blocks, x.dims = dims_of(w), x.view <=> w \in Views,
         w \in Views => Live(base(w)) /\ x.block = tensors[base(w)].block,
         w \in Owners => \A v \in DOMAIN tensors : x.block # Null => tensors[v].block # x.block,
         x.block = Null => batch \in starved', starved \subseteq starved',
         \A v \in DOMAIN tensors : \A c, r :
           c = <<"block", tensors[v].block>> /\ Holds(c, r) => Holds(c, r)',
         \A l \in Stored' : \A r : Holds(<<"kv", l>>, r) => Holds(<<"kv", l>>, r)',
         StreamOK', RowOK'
  PROVE  IInv'
<1>1. ControlOK' /\ Running' /\ ~Returned'
  BY AdvanceControl DEF IInv
<1>2. /\ DOMAIN tensors = {v \in Locals : Live(v)} /\ w \notin DOMAIN tensors
      /\ DOMAIN tensors' = DOMAIN tensors \cup {w} /\ tensors'[w] = x
      /\ \A v \in DOMAIN tensors : tensors'[v] = tensors[v]
  BY DEF IInv, LocalsOK, Live, with
<1>3. DOMAIN tensors' = {v \in Locals : Live(v)'}
  BY <1>2 DEF OneMore
<1>4. TensorsOK'
  <2>1. ASSUME NEW v \in DOMAIN tensors PROVE TensorOK(v)'
    BY <1>2, <2>1, DimsKept DEF IInv, TensorsOK, TensorOK
  <2>2. TensorOK(w)'
    <3>1. w \in Views => base(w) \in DOMAIN tensors
      BY <1>2, BaseIs
    <3> QED
      BY <1>2, <3>1, DimsKept DEF TensorOK
  <2> QED
    BY <1>2, <2>1, <2>2 DEF TensorsOK, IInv
<1>5. Apart'
  <2>1. ASSUME NEW v \in DOMAIN tensors, tensors[v].block = x.block, x.block # Null
        PROVE  base(v) = base(w)
    <3>1. w \in Views
      BY <2>1, BaseIs
    <3>2. base(w) \in DOMAIN tensors /\ tensors[v].block = tensors[base(w)].block
      BY <1>2, <2>1, <3>1, BaseIs
    <3> QED
      BY <2>1, <3>2, BaseIs DEF IInv, Apart
  <2> QED
    BY <1>2, <2>1 DEF IInv, Apart
<1>6. LocalsOK'
  BY <1>1, <1>2, <1>3 DEF IInv, LocalsOK, Live, call
<1>7. Filled'
  <2> SUFFICES ASSUME NEW v \in DOMAIN tensors' \cap Owners, Source(v)' # None, tensors'[v].block # Null
               PROVE  Holds(<<"block", tensors[v].block>>,
                            Made(batch, Source(v), IF v = "row_logits" THEN turn ELSE 0))'
    BY DEF Filled, Source
  <2>1. v # w
    BY DEF OneMore
  <2>2. v \in DOMAIN tensors /\ Live(v) /\ tensors'[v] = tensors[v]
    BY <1>2, <2>1
  <2>3. Source(v)' = Source(v) /\ (v = "row_logits" => turn' = turn)
    BY <2>2 DEF OneMore, Keeps
  <2> PICK s, row, b, c : /\ s = Source(v) /\ row = (IF v = "row_logits" THEN turn ELSE 0)
                          /\ b = batch /\ c = <<"block", tensors[v].block>>
    OBVIOUS
  <2>4. Holds(c, Made(b, s, row))
    BY <2>2, <2>3 DEF IInv, Filled, Source
  <2>5. Holds(c, Made(b, s, row))'
    BY <2>2, <2>4
  <2>6. /\ s = Source(v)' /\ row = (IF v = "row_logits" THEN turn' ELSE 0) /\ b = batch'
        /\ c = <<"block", tensors'[v].block>>
    BY <2>2, <2>3 DEF call
  <2> QED
    BY <2>5, <2>6
<1>8. KvFilled'
  <2> SUFFICES ASSUME NEW l \in Stored'
               PROVE  Holds(<<"kv", l>>, Made(batch, <<l, "store", 1>>, 0))'
    BY DEF KvFilled, Stored
  <2> PICK b : b = batch
    OBVIOUS
  <2>1. Holds(<<"kv", l>>, Made(b, <<l, "store", 1>>, 0))
    BY DEF IInv, KvFilled, Steady, Stored
  <2>2. Holds(<<"kv", l>>, Made(b, <<l, "store", 1>>, 0))'
    BY <2>1
  <2> QED
    BY <2>2 DEF call
<1>9. LogitsOK'
  BY <1>1 DEF IInv, LogitsOK, Steady, call
<1>10. StatusOK'
  BY DEF IInv, StatusOK, ControlOK, Running
<1> QED
  BY <1>1, <1>4, <1>5, <1>6, <1>7, <1>8, <1>9, <1>10 DEF IInv

----------------------------------------------------------------------------
(* Launches *)

LEMMA CellsAre ==
  ASSUME IInv, Running, NEW op, NEW v, v = "kv" \/ v \in DOMAIN tensors,
         v = "kv" => op[1] \in 1..model.layer_num
  PROVE  /\ Cell(v, op) \in Cells
         /\ v = "kv" => Cell(v, op) = <<"kv", op[1]>> /\ Cell(v, op) # <<"block", Null>>
         /\ v # "kv" => Cell(v, op) = <<"block", tensors[v].block>>
<1>1. CASE v = "kv"
  BY <1>1 DEF Cell, Cells
<1>2. CASE v # "kv"
  BY <1>2 DEF Cell, Cells, IInv, TensorsOK, TensorOK
<1> QED
  BY <1>1, <1>2

\* The memory of a local is that of its owner.
LEMMA OwnerOf ==
  ASSUME IInv, NEW v \in DOMAIN tensors
  PROVE  /\ base(v) \in DOMAIN tensors \cap Owners /\ v \in Locals
         /\ tensors[v].block = tensors[base(v)].block
BY BaseIs DEF IInv, TensorsOK, TensorOK

LEMMA LiveAre ==
  ASSUME IInv, Running
  PROVE  \A v \in Locals : Live(v) <=> v \in DOMAIN tensors
BY DEF IInv, LocalsOK, Live

\* The kernel of an operation.
LEMMA WorkIs ==
  ASSUME IInv, Running, NEW op, NEW in, NEW out, NEW row, Reads(op, in), Writes(op, out, row),
         NEW k, k = work(op, in, out, row)
  PROVE  /\ k \in Kernels /\ k.op = op /\ k.batch = batch /\ k.row = row
         /\ DOMAIN k.in = DOMAIN in /\ \A n \in DOMAIN in : k.in[n] = Cell(in[n], op)
         /\ DOMAIN k.out = DOMAIN out /\ \A n \in DOMAIN out : k.out[n] = Cell(out[n], op)
         /\ \A n \in DOMAIN in : in[n] = "kv" => op[1] \in 1..model.layer_num
         /\ \A n \in DOMAIN in : in[n] = "kv" \/ in[n] \in DOMAIN tensors
         /\ \A n \in DOMAIN out : out[n] = "kv" => op[1] \in 1..model.layer_num
         /\ \A n \in DOMAIN out : out[n] = "kv" \/ out[n] \in DOMAIN tensors
<1>1. \A n \in DOMAIN in : /\ in[n] = "kv" => op[1] \in 1..model.layer_num
                           /\ in[n] = "kv" \/ in[n] \in DOMAIN tensors
  BY LiveAre DEF Reads, Found, Stored, stored
<1>2. \A n \in DOMAIN out : /\ out[n] = "kv" => op[1] \in 1..model.layer_num
                            /\ out[n] = "kv" \/ out[n] \in DOMAIN tensors
  BY LiveAre, BaseIs DEF Writes
<1>3. \A n \in DOMAIN in : Cell(in[n], op) \in Cells
  BY <1>1, CellsAre
<1>4. \A n \in DOMAIN out : Cell(out[n], op) \in Cells
  BY <1>2, CellsAre
<1> DEFINE reads == [n \in DOMAIN in |-> Cell(in[n], op)]
           writ == [n \in DOMAIN out |-> Cell(out[n], op)]
<1>5. reads \in Seq(Cells) /\ writ \in Seq(Cells)
  <2>1. in \in Seq(Locals \cup {"kv"}) /\ out \in Seq(Locals \cup {"kv"})
    BY DEF Reads, Writes
  <2>2. DOMAIN in = 1..Len(in) /\ DOMAIN out = 1..Len(out) /\ Len(in) \in Nat /\ Len(out) \in Nat
    BY <2>1
  <2> QED
    BY <1>3, <1>4, <2>2
<1>6. k = [op |-> op, batch |-> batch, row |-> row, in |-> reads, out |-> writ]
  BY DEF work
<1>7. DOMAIN reads = DOMAIN in /\ \A n \in DOMAIN in : reads[n] = Cell(in[n], op)
  OBVIOUS
<1>8. DOMAIN writ = DOMAIN out /\ \A n \in DOMAIN out : writ[n] = Cell(out[n], op)
  OBVIOUS
<1> HIDE DEF reads, writ
<1>9. op \in Nat \X Operations /\ row \in Nat /\ batch \in Nat
  BY DEF Writes, IInv, ControlOK
<1>10. k \in Kernels
  BY <1>5, <1>6, <1>9 DEF Kernels
<1> QED
  BY <1>1, <1>2, <1>6, <1>7, <1>8, <1>10

\* An operand without memory: an allocation of this batch has failed.
LEMMA FaultStarves ==
  ASSUME IInv, Running, NEW op, NEW in, NEW out, NEW row, Reads(op, in), Writes(op, out, row),
         NEW k, k = work(op, in, out, row), faults(k)
  PROVE  /\ batch \in starved
         /\ \/ \E n \in DOMAIN in : in[n] # "kv" /\ tensors[in[n]].block = Null
            \/ \E n \in DOMAIN out : out[n] # "kv" /\ tensors[out[n]].block = Null
<1>1. \/ \E n \in DOMAIN in : Cell(in[n], op) = <<"block", Null>>
      \/ \E n \in DOMAIN out : Cell(out[n], op) = <<"block", Null>>
  <2>1. /\ DOMAIN k.in = DOMAIN in /\ \A n \in DOMAIN in : k.in[n] = Cell(in[n], op)
        /\ DOMAIN k.out = DOMAIN out /\ \A n \in DOMAIN out : k.out[n] = Cell(out[n], op)
    BY WorkIs
  <2>2. \/ \E n \in DOMAIN k.in : k.in[n] = <<"block", Null>>
        \/ \E n \in DOMAIN k.out : k.out[n] = <<"block", Null>>
    BY DEF faults
  <2> QED
    BY <2>1, <2>2
<1>2. ASSUME NEW v, v = "kv" \/ v \in DOMAIN tensors, v = "kv" => op[1] \in 1..model.layer_num,
             Cell(v, op) = <<"block", Null>>
      PROVE  v # "kv" /\ v \in DOMAIN tensors /\ tensors[v].block = Null
  BY <1>2, CellsAre
<1>3. \/ \E n \in DOMAIN in : in[n] # "kv" /\ in[n] \in DOMAIN tensors /\ tensors[in[n]].block = Null
      \/ \E n \in DOMAIN out : out[n] # "kv" /\ out[n] \in DOMAIN tensors /\ tensors[out[n]].block = Null
  BY <1>1, <1>2, WorkIs
<1> QED
  BY <1>3 DEF IInv, LocalsOK

LEMMA WorkReady ==
  ASSUME IInv, Running, NEW op, NEW in, NEW out, NEW row, Reads(op, in), Writes(op, out, row),
         NEW k, k = work(op, in, out, row)
  PROVE  Ready(Len(stream), k)
<1> SUFFICES ASSUME ~faults(k), NEW n \in DOMAIN in
             PROVE  LET src == Inputs(op)[n]
                    IN src = <<src[1], src[2], src[3]>> /\ Holds(k.in[n], Made(batch, src, 0))
  BY WorkIs DEF Ready, Holds
<1> DEFINE v == in[n]
           src == Inputs(op)[n]
<1>0. Found(op, v, src)
  BY DEF Reads
<1>1. CASE v = "kv"
  <2>1. op[1] \in Stored /\ src = <<op[1], "store", 1>>
    BY <1>0, <1>1 DEF Found
  <2>2. k.in[n] = <<"kv", op[1]>>
    BY <1>1, WorkIs, CellsAre
  <2>3. Holds(<<"kv", op[1]>>, Made(batch, <<op[1], "store", 1>>, 0))
    BY <2>1 DEF IInv, KvFilled, Stored
  <2> QED
    BY <2>1, <2>2, <2>3
<1>2. CASE v # "kv"
  <2>1. /\ v \in Locals /\ Live(v) /\ base(v) # "row_logits"
        /\ Source(base(v)) = src /\ src # None /\ src = <<src[1], src[2], src[3]>>
    BY <1>0, <1>2 DEF Found
  <2>2. v \in DOMAIN tensors
    BY <2>1, LiveAre
  <2>3. k.in[n] = <<"block", tensors[v].block>>
    BY <1>2, <2>2, WorkIs, CellsAre
  <2>4. k.in[n] # <<"block", Null>>
    BY WorkIs DEF faults
  <2>5. tensors[base(v)].block # Null /\ k.in[n] = <<"block", tensors[base(v)].block>>
        /\ base(v) \in DOMAIN tensors \cap Owners
    BY <2>2, <2>3, <2>4, OwnerOf
  <2>6. Holds(<<"block", tensors[base(v)].block>>, Made(batch, src, 0))
    BY <2>1, <2>5 DEF IInv, Filled, Source
  <2> QED
    BY <2>1, <2>5, <2>6
<1> QED
  BY <1>1, <1>2

\* What the kernel leaves in the memory of a local.
LEMMA WorkLeaves ==
  ASSUME IInv, Running, NEW op, NEW in, NEW out, NEW row, Reads(op, in), Writes(op, out, row),
         NEW k, k = work(op, in, out, row),
         NEW v \in DOMAIN tensors \cap Owners, tensors[v].block # Null, NEW c,
         c = <<"block", tensors[v].block>>
  PROVE  /\ (\A n \in DOMAIN out : base(out[n]) # v) => ~writes(k, c)
         /\ \A n \in DOMAIN out : base(out[n]) = v =>
              writes(k, c) /\ Result(k, c) = Made(batch, <<op[1], op[2], n>>, row)
<1>1. \A n \in DOMAIN out : k.out[n] = c <=> base(out[n]) = v
  <2> TAKE n \in DOMAIN out
  <2>1. CASE out[n] = "kv"
    BY <2>1, WorkIs, CellsAre, BaseIs
  <2>2. CASE out[n] # "kv"
    <3>1. out[n] \in DOMAIN tensors /\ k.out[n] = <<"block", tensors[out[n]].block>>
      BY <2>2, WorkIs, CellsAre
    <3>2. base(v) = v
      BY BaseIs
    <3>3. base(out[n]) = v => tensors[out[n]].block = tensors[v].block
      BY <3>1, OwnerOf
    <3>4. tensors[out[n]].block = tensors[v].block => base(out[n]) = v
      BY <3>1, <3>2 DEF IInv, Apart
    <3> QED
      BY <3>1, <3>3, <3>4
  <2> QED
    BY <2>1, <2>2
<1>2. (\A n \in DOMAIN out : base(out[n]) # v) => ~writes(k, c)
  BY <1>1, WorkIs DEF writes
<1>3. ASSUME NEW n \in DOMAIN out, base(out[n]) = v
      PROVE  writes(k, c) /\ Result(k, c) = Made(batch, <<op[1], op[2], n>>, row)
  <2>1. \A m \in DOMAIN k.out : k.out[m] = c <=> m = n
    BY <1>1, <1>3, WorkIs DEF Writes
  <2>2. n \in DOMAIN k.out
    BY WorkIs
  <2>3. (CHOOSE m \in DOMAIN k.out : k.out[m] = c) = n
    BY <2>1, <2>2
  <2>4. op = <<op[1], op[2]>> /\ k.op = op /\ k.batch = batch /\ k.row = row
    BY WorkIs DEF Writes
  <2>5. Result(k, c) = [batch |-> batch, op |-> op, at |-> n, row |-> row, right |-> TRUE]
    BY <2>3, <2>4 DEF Result
  <2>6. Made(batch, <<op[1], op[2], n>>, row) =
          [batch |-> batch, op |-> <<op[1], op[2]>>, at |-> n, row |-> row, right |-> TRUE]
    BY DEF Made
  <2>7. writes(k, c)
    BY <2>1, <2>2 DEF writes
  <2> QED
    BY <2>4, <2>5, <2>6, <2>7
<1> QED
  BY <1>2, <1>3

LEMMA WorkStores ==
  ASSUME IInv, Running, NEW op, NEW in, NEW out, NEW row, Reads(op, in), Writes(op, out, row),
         NEW k, k = work(op, in, out, row), NEW l \in 1..model.layer_num
  PROVE  /\ l = op[1] /\ out[1] = "kv" /\ 1 \in DOMAIN out =>
              writes(k, <<"kv", l>>) /\ Result(k, <<"kv", l>>) = Made(batch, <<l, "store", 1>>, 0)
         /\ ~(l = op[1] /\ out[1] = "kv" /\ 1 \in DOMAIN out) => ~writes(k, <<"kv", l>>)
<1>1. \A n \in DOMAIN out : k.out[n] = <<"kv", l>> <=> out[n] = "kv" /\ op[1] = l
  BY WorkIs, CellsAre
<1>2. \A n \in DOMAIN out : out[n] = "kv" => n = 1 /\ op[2] = "store" /\ row = 0
  BY BaseIs DEF Writes
<1>3. CASE l = op[1] /\ out[1] = "kv" /\ 1 \in DOMAIN out
  <2>1. \A m \in DOMAIN k.out : k.out[m] = <<"kv", l>> <=> m = 1
    BY <1>1, <1>2, <1>3, WorkIs
  <2>2. 1 \in DOMAIN k.out
    BY <1>3, WorkIs
  <2>3. (CHOOSE m \in DOMAIN k.out : k.out[m] = <<"kv", l>>) = 1
    BY <2>1, <2>2
  <2>4. op = <<op[1], op[2]>> /\ k.op = op /\ k.batch = batch /\ k.row = row
    BY WorkIs DEF Writes
  <2>5. op[2] = "store" /\ row = 0
    BY <1>2, <1>3
  <2> QED
    BY <1>3, <2>1, <2>2, <2>3, <2>4, <2>5 DEF Result, Made, writes
<1>4. CASE ~(l = op[1] /\ out[1] = "kv" /\ 1 \in DOMAIN out)
  BY <1>1, <1>2, <1>4, WorkIs DEF writes
<1> QED
  BY <1>3, <1>4

\* A statement that launches a kernel.
LEMMA LaunchStep ==
  ASSUME IInv, Running, Advance, UNCHANGED <<call, status, logits, tensors, starved>>,
         statement.do # "return",
         NEW op, NEW in, NEW out, NEW row, Reads(op, in), Writes(op, out, row),
         WorkMoves(op, out, row), NEW k, k = work(op, in, out, row), Launched(k), RowOK',
         device # "cuda" => stream' = <<>>
  PROVE  IInv'
<1>0. status # "crash" /\ batch > 0
  BY DEF IInv, ControlOK, Running
<1>1. ControlOK' /\ Running' /\ ~Returned'
  BY AdvanceControl DEF IInv
<1>2. stream \in Seq(Kernels) /\ StreamRight /\ k \in Kernels /\ Ready(Len(stream), k)
  BY <1>0, WorkIs, WorkReady DEF IInv, StreamOK
<1>3. /\ stream' \in Seq(Kernels) /\ StreamRight'
      /\ \A i \in 1..Len(stream') : (i \in 1..Len(stream) /\ stream'[i] = stream[i]) \/ stream'[i] = k
  BY <1>2, LaunchKeeps
<1>4. \A c \in Cells : \A r :
              (writes(k, c) /\ r = Result(k, c)) \/ (~writes(k, c) /\ Holds(c, r)) => Holds(c, r)'
  BY <1>2, LaunchKeeps
<1>5. StreamOK'
  <2>1. ASSUME NEW i \in 1..Len(stream'), faults(stream'[i]) PROVE starved' # {}
    <3>1. CASE i \in 1..Len(stream) /\ stream'[i] = stream[i]
      <4>1. faults(stream[i])
        BY <2>1, <3>1
      <4> QED
        BY <3>1, <4>1 DEF IInv, StreamOK
    <3>2. CASE stream'[i] = k
      <4>1. faults(k)
        BY <2>1, <3>2
      <4> QED
        BY <4>1, FaultStarves
    <3> QED
      BY <1>3, <3>1, <3>2
  <2>2. \A i \in 1..Len(stream') : faults(stream[i])' => starved' # {}
    BY <2>1
  <2> QED
    BY <1>3, <2>2 DEF StreamOK, call
<1>6. TensorsOK' /\ Apart'
  BY DimsKept DEF IInv, TensorsOK, TensorOK, Apart
<1>7. LocalsOK'
  <2>1. \A v \in Locals : Live(v)' <=> Live(v)
    BY DEF WorkMoves, SameLocals
  <2>2. {v \in Locals : Live(v)'} = {v \in Locals : Live(v)}
    BY <2>1
  <2> QED
    BY <1>1, <2>2 DEF IInv, LocalsOK, Live, call
<1>8. Filled'
  <2> SUFFICES ASSUME NEW v \in DOMAIN tensors \cap Owners, Source(v)' # None, tensors[v].block # Null
               PROVE  Holds(<<"block", tensors[v].block>>,
                            Made(batch, Source(v), IF v = "row_logits" THEN turn ELSE 0))'
    BY DEF Filled, Source
  <2> PICK c, s, b, r : /\ c = <<"block", tensors[v].block>> /\ s = Source(v)' /\ b = batch
                        /\ r = IF v = "row_logits" THEN turn' ELSE 0
    OBVIOUS
  <2>1. c \in Cells
    BY DEF Cells, IInv, TensorsOK, TensorOK
  <2>2. Live(v) /\ Expected(op, out, row, v)
    BY LiveAre, BaseIs DEF WorkMoves
  <2>3. Holds(c, Made(b, s, r))'
    <3>1. CASE \E n \in DOMAIN out : base(out[n]) = v /\ s = <<op[1], op[2], n>> /\ row = r
      <4> PICK n \in DOMAIN out : base(out[n]) = v /\ s = <<op[1], op[2], n>> /\ row = r
        BY <3>1
      <4>1. writes(k, c) /\ Result(k, c) = Made(b, <<op[1], op[2], n>>, row)
        BY WorkLeaves
      <4> QED
        BY <1>4, <2>1, <4>1
    <3>2. CASE Keeps(v) /\ \A n \in DOMAIN out : base(out[n]) # v
      <4>1. s = Source(v) /\ (v = "row_logits" => turn' = turn)
        BY <3>2 DEF Keeps
      <4>2. Holds(c, Made(b, s, r))
        BY <4>1 DEF IInv, Filled, Source
      <4>3. ~writes(k, c)
        BY <3>2, WorkLeaves
      <4> QED
        BY <1>4, <2>1, <4>2, <4>3
    <3> QED
      BY <2>2, <3>1, <3>2 DEF Expected
  <2>4. b = batch' /\ c = <<"block", tensors'[v].block>>
    BY DEF call
  <2> QED
    BY <2>3, <2>4
<1>9. KvFilled'
  <2> SUFFICES ASSUME NEW l \in Stored'
               PROVE  Holds(<<"kv", l>>, Made(batch, <<l, "store", 1>>, 0))'
    BY DEF KvFilled, Stored
  <2> PICK b : b = batch
    OBVIOUS
  <2>1. l \in 1..model.layer_num
    BY DEF Stored, stored
  <2>2. <<"kv", l>> \in Cells
    BY <2>1 DEF Cells
  <2>3. l \in Stored \/ (l = op[1] /\ out[1] = "kv" /\ 1 \in DOMAIN out)
    BY DEF WorkMoves
  <2>4. l \in Stored => Holds(<<"kv", l>>, Made(b, <<l, "store", 1>>, 0))
    BY DEF IInv, KvFilled, Stored
  <2>5. Holds(<<"kv", l>>, Made(b, <<l, "store", 1>>, 0))'
    <3>1. CASE l = op[1] /\ out[1] = "kv" /\ 1 \in DOMAIN out
      <4>1. writes(k, <<"kv", l>>) /\ Result(k, <<"kv", l>>) = Made(b, <<l, "store", 1>>, 0)
        BY <2>1, <3>1, WorkStores
      <4> QED
        BY <1>4, <2>2, <4>1
    <3>2. CASE ~(l = op[1] /\ out[1] = "kv" /\ 1 \in DOMAIN out)
      <4>1. ~writes(k, <<"kv", l>>)
        BY <2>1, <3>2, WorkStores
      <4> QED
        BY <1>4, <2>2, <2>3, <2>4, <3>2, <4>1
    <3> QED
      BY <3>1, <3>2
  <2> QED
    BY <2>5 DEF call
<1>10. LogitsOK'
  BY <1>1 DEF IInv, LogitsOK, WorkMoves, call
<1>11. StatusOK'
  BY DEF IInv, StatusOK, call
<1> QED
  BY <1>1, <1>5, <1>6, <1>7, <1>8, <1>9, <1>10, <1>11 DEF IInv

----------------------------------------------------------------------------
(* The actions *)

LEMMA LaunchOrFault ==
  ASSUME IInv, Running, UNCHANGED <<call, logits, tensors, starved>>, statement.do # "return",
         NEW op, NEW in, NEW out, NEW row, Reads(op, in), Writes(op, out, row),
         Launch(work(op, in, out, row)),
         Advance => WorkMoves(op, out, row) /\ RowOK'
  PROVE  IInv'
<1> PICK k : k = work(op, in, out, row)
  OBVIOUS
<1>0. status # "crash"
  BY DEF IInv, ControlOK, Running
<1>1. CASE device = "cuda"
  <2>1. stream' = Append(stream, k) /\ Advance /\ UNCHANGED <<status, contents>>
    BY <1>1 DEF Launch, Continue
  <2>2. Launched(k)
    BY <2>1 DEF Launched
  <2> QED
    BY <1>1, <2>1, <2>2, LaunchStep
<1>2. CASE device # "cuda" /\ faults(k)
  <2>1. part' = "none" /\ status' = "crash" /\ UNCHANGED <<turn, pc, stream, contents>>
    BY <1>2 DEF Launch, Leave
  <2>2. starved' # {}
    BY <1>2, FaultStarves
  <2> QED
    BY <1>0, <2>1, <2>2, LeaveKeeps
<1>3. CASE device # "cuda" /\ ~faults(k)
  <2>1. contents' = after(k) /\ Advance /\ UNCHANGED <<status, stream>>
    BY <1>3 DEF Launch, Continue
  <2>2. stream = <<>>
    BY <1>3 DEF IInv, StreamOK
  <2>3. Launched(k)
    BY <1>3, <2>1, <2>2 DEF Launched
  <2> QED
    BY <1>3, <2>1, <2>2, <2>3, LaunchStep
<1> QED
  BY <1>1, <1>2, <1>3

LEMMA HeldAre ==
  ASSUME IInv, NEW v \in DOMAIN tensors
  PROVE  tensors[v].block \in Held
<1>1. base(v) \in DOMAIN tensors /\ ~tensors[base(v)].view
  BY OwnerOf, BaseIs DEF IInv, TensorsOK, TensorOK
<1>2. tensors[base(v)].block \in Held
  BY <1>1 DEF Held
<1> QED
  BY <1>2, OwnerOf

LEMMA AllocatableAre ==
  /\ allocatable(idle) \subseteq (1..Blocks) \ Held
  /\ \A blocks : allocatable(blocks) \subseteq blocks
BY DEF allocatable, idle

\* The sampled row stays in its local.
LEMMA RowKept ==
  ASSUME IInv, Running, SameRow, statement.do # "forward",
         part = "sample" => tensors'["hidden_row"] = tensors["hidden_row"]
  PROVE  RowOK'
BY DEF RowOK, SameRow, IInv

\* embedding() refuses more rows than the context has positions.
LEMMA RefusedKeeps == ASSUME IInv, Start, ~(rows' <= model.seq_len) PROVE IInv'
<1>0. /\ part = "none" /\ UNCHANGED <<part, turn, pc>> /\ tensors = <<>> /\ tensors' = <<>>
      /\ status' = "error" /\ batch' = batch + 1 /\ batch \in Nat
      /\ UNCHANGED <<device, stream, contents, starved>> /\ status # "crash"
      /\ rows' \in Rows /\ samples' \in 0..rows'
  BY DEF Start, memory, control, IInv, LocalsOK, Running, ControlOK
<1>1. rows' \in Nat \ {0} /\ samples' \in Nat
  BY <1>0, ForwardAssumption DEF ForwardAssumption
<1>2. ControlOK'
  BY <1>0, <1>1 DEF ControlOK, Running, IInv
<1>3. StreamOK'
  BY <1>0, StreamOKStill DEF IInv
<1>4. TensorsOK' /\ Apart' /\ Filled' /\ LocalsOK' /\ RowOK' /\ KvFilled' /\ LogitsOK'
  BY <1>0 DEF TensorsOK, Apart, Filled, LocalsOK, RowOK, KvFilled, LogitsOK, Running, Returned
<1>5. StatusOK'
  <2>1. rows' > model.seq_len
    BY <1>1, ModelIs
  <2> QED
    BY <1>0, <2>1 DEF StatusOK, model
<1> QED
  BY <1>2, <1>3, <1>4, <1>5 DEF IInv

LEMMA AdmittedStartKeeps == ASSUME IInv, Start, rows' <= model.seq_len PROVE IInv'
<1>0. /\ part = "none" /\ part' = "inputs" /\ turn' = 1 /\ pc' = 1 /\ tensors = <<>> /\ tensors' = <<>>
      /\ status' = "running" /\ batch' = batch + 1 /\ batch \in Nat /\ logits' = <<>>
      /\ UNCHANGED <<device, stream, contents, starved>> /\ status # "crash"
      /\ rows' \in Rows /\ samples' \in 0..rows'
  BY DEF Start, memory, IInv, LocalsOK, Running, ControlOK
<1>1. ControlOK'
  <2>1. rows' \in Nat \ {0} /\ samples' \in Nat
    BY <1>0, ForwardAssumption DEF ForwardAssumption
  <2> QED
    BY <1>0, <2>1 DEF ControlOK, Running, Length, IInv
<1>2. StreamOK'
  BY <1>0, StreamOKStill DEF IInv
<1>3. TensorsOK' /\ Apart' /\ Filled'
  BY <1>0 DEF TensorsOK, Apart, Filled
<1>4. LocalsOK'
  <2>1. \A v \in Locals : ~live(v, "inputs", 1)
    BY DEF live, Locals, Owners, Views
  <2> QED
    BY <1>0, <2>1 DEF LocalsOK, Running
<1>5. RowOK' /\ KvFilled'
  BY <1>0 DEF RowOK, KvFilled, stored
<1>6. LogitsOK'
  <2>1. Read' = 0
    BY <1>0 DEF Read, Running
  <2>2. \A b : <<>> = [r \in 1..0 |-> Made(b, <<0, "lm_head", 1>>, r)]
    OBVIOUS
  <2> QED
    BY <1>0, <2>1, <2>2 DEF LogitsOK
<1>7. StatusOK'
  BY <1>0 DEF StatusOK
<1> QED
  BY <1>1, <1>2, <1>3, <1>4, <1>5, <1>6, <1>7 DEF IInv

LEMMA StartKeeps == ASSUME IInv, Start PROVE IInv'
BY RefusedKeeps, AdmittedStartKeeps

\* A statement is run at its point of a part.
LEMMA AtPoint ==
  ASSUME IInv, NEW what, At(what)
  PROVE  /\ Running /\ statement.do = what /\ StatementFits
         /\ Advance /\ samples' = samples => StatementMoves
         /\ status # "crash"
BY StatementsFit DEF IInv, At, Running, statement, ControlOK

LEMMA NewKeeps == ASSUME IInv, New PROVE IInv'
<1>0. Running /\ statement.do = "new" /\ StatementFits /\ status # "crash"
  BY AtPoint DEF New
<1> PICK w : w = statement.to
  OBVIOUS
<1>1. /\ Advance /\ UNCHANGED <<call, status, slots, lost, contents, stream, logits>>
      /\ samples' = samples /\ device' = device
  BY DEF New, Continue, call
<1>2. /\ w \in Owners /\ w \in Locals /\ w \notin Views /\ ~Live(w) /\ statement.dims = dims_of(w)
      /\ OneMore(w) /\ Steady /\ SameRow
  BY <1>0, <1>1, AtPoint, BaseIs DEF New, StatementFits, StatementMoves
<1>3. PICK b \in 0..Blocks : /\ tensors' = with(tensors, w, tensor(b, dims_of(w)))
                             /\ b # Null => b \notin Held
                             /\ b = Null => batch \in starved'
                             /\ starved \subseteq starved'
  <2>1. CASE \E b \in allocatable(idle) : /\ tensors' = with(tensors, w, tensor(b, dims_of(w)))
                                          /\ UNCHANGED starved
    BY <2>1, AllocatableAre, ForwardAssumption DEF Null, ForwardAssumption
  <2>2. CASE tensors' = with(tensors, w, tensor(Null, dims_of(w))) /\ starved' = starved \cup {batch}
    BY <2>2, ForwardAssumption DEF Null, ForwardAssumption
  <2> QED
    BY <1>2, <2>1, <2>2 DEF New
<1> PICK x : x = tensor(b, dims_of(w))
  OBVIOUS
<1>4. x.block = b /\ x.dims = dims_of(w) /\ ~x.view
  BY DEF tensor
<1>5. StreamOK' /\ \A c, r : Holds(c, r) => Holds(c, r)'
  BY <1>0, <1>1, <1>3, StreamOKStill, StreamStill DEF IInv, StreamOK
<1>6. RowOK'
  <2>1. part = "sample" /\ pc >= 2 => "hidden_row" \in DOMAIN tensors
    BY <1>0, LiveAre DEF Live, live, Locals, Views
  <2>2. part = "sample" /\ pc >= 2 => tensors'["hidden_row"] = tensors["hidden_row"]
    BY <1>2, <1>3, <2>1 DEF with, Views
  <2> QED
    BY <1>0, <1>2, <2>2 DEF RowOK, SameRow, IInv
<1>7. \A v \in DOMAIN tensors : x.block # Null => tensors[v].block # x.block
  BY <1>3, <1>4, HeldAre
<1>8. /\ \A v \in DOMAIN tensors : \A c, r :
           c = <<"block", tensors[v].block>> /\ Holds(c, r) => Holds(c, r)'
      /\ \A l \in Stored' : \A r : Holds(<<"kv", l>>, r) => Holds(<<"kv", l>>, r)'
  BY <1>5
<1> QED
  BY <1>0, <1>1, <1>2, <1>3, <1>4, <1>5, <1>6, <1>7, <1>8, MakesKeep

LEMMA ViewKeeps == ASSUME IInv, View PROVE IInv'
<1>0. Running /\ statement.do = "view" /\ StatementFits /\ status # "crash"
  BY AtPoint DEF View
<1> PICK w : w = statement.to
  OBVIOUS
<1>1. /\ Advance /\ UNCHANGED <<call, status, starved, contents, stream, logits>>
      /\ samples' = samples /\ device' = device
  BY DEF View, Continue, call
<1>2. /\ w \in Views /\ w \in Locals /\ w \notin Owners /\ ~Live(w) /\ statement.dims = dims_of(w)
      /\ statement.of = base(w) /\ Live(base(w)) /\ OneMore(w) /\ Steady
      /\ w = "hidden_row" => statement.row = turn
      /\ part' = "sample" => w = "hidden_row" /\ pc' = 2 /\ turn' = turn
  BY <1>0, <1>1, AtPoint, BaseIs DEF View, StatementFits, StatementMoves, Locals
<1> PICK x : x = [block |-> tensors[base(w)].block, dims |-> dims_of(w), view |-> TRUE,
                  row |-> statement.row]
  OBVIOUS
<1>3. tensors' = with(tensors, w, x)
  BY <1>2 DEF View
<1>4. base(w) \in DOMAIN tensors /\ base(w) \in Locals
  BY <1>0, <1>2, LiveAre, BaseIs
<1>5. x.block \in 0..Blocks /\ (x.block = Null => batch \in starved)
  BY <1>0, <1>4 DEF IInv, TensorsOK, TensorOK, LocalsOK
<1>6. StreamOK' /\ \A c, r : Holds(c, r) => Holds(c, r)'
  BY <1>0, <1>1, StreamOKStill, StreamStill DEF IInv, StreamOK
<1>7. RowOK'
  <2>1. tensors'[w] = x
    BY <1>3 DEF with
  <2> QED
    BY <1>2, <2>1 DEF RowOK
<1>8. x.dims = dims_of(w) /\ x.view /\ x.block = tensors[base(w)].block
  OBVIOUS
<1>9. /\ \A v \in DOMAIN tensors : \A c, r :
           c = <<"block", tensors[v].block>> /\ Holds(c, r) => Holds(c, r)'
      /\ \A l \in Stored' : \A r : Holds(<<"kv", l>>, r) => Holds(<<"kv", l>>, r)'
  BY <1>6
<1> QED
  BY <1>0, <1>1, <1>2, <1>3, <1>5, <1>6, <1>7, <1>8, <1>9, MakesKeep

LEMMA NothingLive ==
  ASSUME IInv, Running, \A v \in Locals : ~Live(v)
  PROVE  DOMAIN tensors = {}
BY LiveAre DEF IInv, TensorsOK

LEMMA ShareKeeps == ASSUME IInv, Share PROVE IInv'
<1>0. Running /\ statement.do = "share" /\ StatementFits /\ status # "crash"
  BY AtPoint DEF Share
<1>1. /\ Advance /\ UNCHANGED <<call, status, starved, contents, stream, logits>>
      /\ samples' = samples /\ device' = device
  BY DEF Share, Continue, call
<1>2. /\ rows = 1 /\ (\A v \in Locals : ~Live(v)) /\ OneMore("hidden") /\ Steady /\ Stored' = {}
      /\ part' # "sample"
  BY <1>0, <1>1, AtPoint DEF Share, StatementFits, StatementMoves
<1>3. DOMAIN tensors = {} /\ "hidden" \in Locals /\ "hidden" \in Owners /\ "hidden" \notin Views
  BY <1>0, <1>2, NothingLive DEF Locals, Owners, Views
<1> PICK x : x = tensor(ModelBlock, dims_of("hidden"))
  OBVIOUS
<1>4. x.block = ModelBlock /\ x.dims = dims_of("hidden") /\ ~x.view
  BY DEF tensor
<1>5. dims_of("hidden") = <<1, model.dim>>
  BY <1>2 DEF dims_of
<1>6. tensors' = with(tensors, "hidden", x)
  BY <1>5 DEF Share
<1>7. ModelBlock \in 0..Blocks /\ ModelBlock # Null
  BY ForwardAssumption DEF ForwardAssumption, ModelBlock, Null
<1>8. StreamOK' /\ RowOK' /\ \A c, r : Holds(c, r) => Holds(c, r)'
  BY <1>0, <1>1, <1>2, StreamOKStill, StreamStill DEF IInv, StreamOK, RowOK
<1> QED
  BY <1>0, <1>1, <1>2, <1>3, <1>4, <1>6, <1>7, <1>8, MakesKeep

LEMMA GrowKeeps == ASSUME IInv, Grow PROVE IInv'
<1>0. Running /\ statement.do = "grow" /\ StatementFits /\ status # "crash"
  BY AtPoint DEF Grow
<1>1. UNCHANGED <<call, stream, logits>> /\ samples' = samples /\ device' = device /\ stream = <<>>
  BY DEF Grow, call
<1>2. CASE /\ batch \in Failing /\ Leave("crash") /\ starved' = starved \cup {batch}
           /\ UNCHANGED <<lost, tensors, floats, contents>>
  <2>1. part' = "none" /\ status' = "crash" /\ UNCHANGED <<turn, pc>>
    BY <1>2 DEF Leave
  <2> QED
    BY <1>0, <1>1, <1>2, <2>1, LeaveKeeps
<1>3. CASE \E first \in allocatable(idle) : \E second \in allocatable(idle \ {first}) :
             /\ tensors' = with(tensors, "hidden", tensor(second, <<rows, model.dim>>))
             /\ Continue /\ UNCHANGED starved
  <2>1. PICK second \in 1..Blocks :
          /\ tensors' = with(tensors, "hidden", tensor(second, <<rows, model.dim>>))
          /\ Advance /\ UNCHANGED <<status, starved>>
    <3>1. PICK first \in allocatable(idle) : \E second \in allocatable(idle \ {first}) :
             /\ tensors' = with(tensors, "hidden", tensor(second, <<rows, model.dim>>))
             /\ Continue /\ UNCHANGED starved
      BY <1>3
    <3>2. PICK second \in allocatable(idle \ {first}) :
             /\ tensors' = with(tensors, "hidden", tensor(second, <<rows, model.dim>>))
             /\ Continue /\ UNCHANGED starved
      BY <3>1
    <3>3. second \in 1..Blocks
      BY AllocatableAre DEF idle
    <3> QED
      BY <3>2, <3>3 DEF Continue
  <2>2. /\ (\A v \in Locals : ~Live(v)) /\ OneMore("hidden") /\ Steady /\ Stored' = {}
        /\ part' # "sample"
    BY <1>0, <1>1, <2>1, AtPoint DEF Grow, StatementFits, StatementMoves
  <2>3. DOMAIN tensors = {} /\ "hidden" \in Locals /\ "hidden" \in Owners /\ "hidden" \notin Views
    BY <1>0, <2>2, NothingLive DEF Locals, Owners, Views
  <2> PICK x : x = tensor(second, dims_of("hidden"))
    OBVIOUS
  <2>4. x.block = second /\ x.dims = dims_of("hidden") /\ ~x.view
    BY DEF tensor
  <2>5. dims_of("hidden") = <<rows, model.dim>>
    BY DEF dims_of
  <2>6. tensors' = with(tensors, "hidden", x)
    BY <2>1, <2>5
  <2>7. second \in 0..Blocks /\ second # Null
    BY ForwardAssumption DEF ForwardAssumption, Null
  <2>8. StreamOK'
    BY <1>1 DEF StreamOK, StreamRight
  <2>9. RowOK'
    BY <2>2 DEF RowOK
  <2> QED
    BY <1>0, <1>1, <2>1, <2>2, <2>3, <2>4, <2>6, <2>7, <2>8, <2>9, MakesKeep
<1> QED
  BY <1>2, <1>3 DEF Grow

LEMMA UploadKeeps == ASSUME IInv, Upload PROVE IInv'
<1>0. Running /\ statement.do = "upload" /\ StatementFits /\ status # "crash"
  BY AtPoint DEF Upload
<1> PICK v : v = statement.to
  OBVIOUS
<1>1. UNCHANGED <<call, logits, starved>> /\ samples' = samples /\ device' = device
  BY DEF Upload, call
<1>2. v \in Owners /\ v \in DOMAIN tensors /\ v # "kv" /\ Writes(<<0, v>>, <<v>>, 0)
  BY <1>0, LiveAre, BaseIs DEF StatementFits
<1>3. Reads(<<0, v>>, <<>>)
  BY DEF Reads
<1>4. Advance => WorkMoves(<<0, v>>, <<v>>, 0)
  BY <1>0, <1>1, AtPoint DEF Upload, StatementMoves
<1>5. CASE tensors[v].block = Null
  <2>1. part' = "none" /\ status' \in {"error", "crash"} /\ UNCHANGED <<turn, pc, contents, stream>>
        /\ tensors' = <<>>
    BY <1>5 DEF Upload, Leave
  <2>2. batch \in starved
    BY <1>0, <1>2, <1>5 DEF IInv, LocalsOK
  <2> QED
    BY <1>0, <1>1, <2>1, <2>2, LeaveKeeps
<1>6. CASE tensors[v].block # Null
  <2>0. UNCHANGED tensors
    BY <1>6 DEF Upload
  <2>1. Advance => RowOK'
    BY <1>0, <1>4, <2>0, RowKept DEF WorkMoves
  <2>2. CASE v = "tokens"
    <3> PICK k : k = work(<<0, v>>, <<>>, <<v>>, 0)
      OBVIOUS
    <3>1. stream = <<>> /\ contents' = after(k) /\ Advance /\ UNCHANGED <<status, stream>>
      BY <1>6, <2>2 DEF Upload, Continue
    <3>2. ~faults(k)
      BY <1>0, <1>2, <1>3, <1>6, FaultStarves
    <3>3. Launched(k)
      BY <3>1, <3>2 DEF Launched
    <3> QED
      BY <1>0, <1>1, <1>2, <1>3, <1>4, <2>0, <2>1, <3>1, <3>3, LaunchStep
  <2>3. CASE v # "tokens"
    <3>1. Launch(work(<<0, v>>, <<>>, <<v>>, 0))
      BY <1>6, <2>3 DEF Upload
    <3> QED
      BY <1>0, <1>1, <1>2, <1>3, <1>4, <2>0, <2>1, <3>1, LaunchOrFault
  <2> QED
    BY <2>2, <2>3
<1> QED
  BY <1>5, <1>6

LEMMA ForwardKeeps == ASSUME IInv, Forward PROVE IInv'
<1>0. Running /\ statement.do = "forward" /\ StatementFits /\ status # "crash"
  BY AtPoint DEF Forward
<1> PICK op, in, out : op = statement.op /\ in = statement.in /\ out = statement.out
  OBVIOUS
<1>1. UNCHANGED <<call, logits, starved>> /\ samples' = samples /\ device' = device
  BY DEF Forward, call
<1>2. /\ Reads(op, in) /\ Writes(op, <<out>>, RowOf(op)) /\ ShapesFit(op, in, out)
      /\ op[2] = "lm_head" => part = "sample" /\ pc = 3 /\ in = <<"hidden_row">>
  BY <1>0 DEF StatementFits
<1>3. Advance => WorkMoves(op, <<out>>, RowOf(op))
  BY <1>0, <1>1, AtPoint DEF Forward, StatementMoves
<1> PICK given : given = [n \in DOMAIN in |-> tensors[in[n]]]
  OBVIOUS
<1>4. (IF op[2] = "lm_head" THEN given[1].row ELSE 0) = RowOf(op)
  <2>1. CASE op[2] = "lm_head"
    <3>1. given[1] = tensors["hidden_row"] /\ tensors["hidden_row"].row = turn
      BY <1>2, <2>1 DEF IInv, RowOK
    <3> QED
      BY <2>1, <3>1 DEF RowOf
  <2>2. CASE op[2] # "lm_head"
    BY <2>2 DEF RowOf
  <2> QED
    BY <2>1, <2>2
<1>5. out \in DOMAIN tensors /\ \A n \in DOMAIN in : in[n] \in DOMAIN tensors
  <2>1. out \in Locals /\ Live(out)
    <3>1. <<out>>[1] # "kv" /\ 1 \in DOMAIN <<out>>
      BY <1>0 DEF StatementFits
    <3> QED
      BY <1>2, <3>1 DEF Writes
  <2>2. \A n \in DOMAIN in : in[n] \in Locals /\ Live(in[n])
    BY <1>0, <1>2 DEF Reads, Found, StatementFits
  <2> QED
    BY <1>0, <2>1, <2>2, LiveAre
<1>6. CASE check(op[2], given, tensors[out])
  <2>1. Launch(work(op, in, <<out>>, RowOf(op))) /\ UNCHANGED tensors
    BY <1>4, <1>6 DEF Forward
  <2>2. Advance => RowOK'
    <3>1. tensors[out].block # Null
      BY <1>6 DEF check
    <3> QED
      BY <1>0, <1>3, <2>1, <3>1 DEF WorkMoves, SameRow, RowOK, IInv
  <2> QED
    BY <1>0, <1>1, <1>2, <1>3, <2>1, <2>2, LaunchOrFault
<1>7. CASE ~check(op[2], given, tensors[out])
  <2>1. part' = "none" /\ status' = "error" /\ UNCHANGED <<turn, pc, contents, stream>>
        /\ tensors' = <<>>
    BY <1>7 DEF Forward, Leave
  <2>2. batch \in starved
    <3>1. \A v \in Locals : Live(v) => tensors[v].dims = dims_of(v)
      BY <1>0, LiveAre DEF IInv, TensorsOK, TensorOK
    <3>4. \/ tensors[out].block = Null
          \/ \E n \in DOMAIN in : tensors[in[n]].block = Null
      BY <1>2, <1>7, <3>1 DEF ShapesFit
    <3> QED
      BY <1>0, <1>5, <3>4 DEF IInv, LocalsOK
  <2> QED
    BY <1>0, <1>1, <2>1, <2>2, LeaveKeeps
<1> QED
  BY <1>6, <1>7

LEMMA KernelKeeps == ASSUME IInv, Kernel PROVE IInv'
<1>0. Running /\ statement.do = "kernel" /\ StatementFits /\ status # "crash"
  BY AtPoint DEF Kernel
<1> PICK op, in, out : op = statement.op /\ in = statement.in /\ out = statement.out
  OBVIOUS
<1>1. UNCHANGED <<call, logits, starved, tensors>> /\ samples' = samples /\ device' = device
  BY DEF Kernel, call, memory
<1>2. Reads(op, in) /\ Writes(op, out, 0)
  BY <1>0 DEF StatementFits
<1>3. Advance => WorkMoves(op, out, 0)
  BY <1>0, <1>1, AtPoint DEF Kernel, StatementMoves
<1>4. Advance => RowOK'
  BY <1>0, <1>1, <1>3, RowKept DEF WorkMoves
<1>5. Launch(work(op, in, out, 0))
  BY DEF Kernel
<1> QED
  BY <1>0, <1>1, <1>2, <1>3, <1>4, <1>5, LaunchOrFault

\* A statement after which locals are gone or have moved: from is where each of
\* those that stay was before.
LEMMA DropsKeep ==
  ASSUME IInv, Running, Advance, UNCHANGED <<call, status, starved, contents, stream>>,
         statement.do # "return", \A l \in Stored' : l \in Stored, LogitsOK', RowOK',
         DOMAIN tensors' = {v \in Locals : Live(v)'},
         NEW from,
         \A v \in DOMAIN tensors' :
           /\ from[v] \in DOMAIN tensors /\ tensors'[v] = tensors[from[v]]
           /\ (from[v] \in Views <=> v \in Views) /\ dims_of(from[v]) = dims_of(v)
           /\ v \in Views => from[v] = v /\ base(v) \in DOMAIN tensors' /\ from[base(v)] = base(v)
           /\ v \in Owners => \/ Source(v)' = None
                              \/ /\ Source(v)' = Source(from[v]) /\ from[v] # "row_logits"
                                 /\ v # "row_logits",
         \A u, v \in DOMAIN tensors' : base(from[u]) = base(from[v]) => base(u) = base(v)
  PROVE  IInv'
<1>1. ControlOK' /\ Running' /\ ~Returned'
  BY AdvanceControl DEF IInv
<1>2. StreamOK'
  BY StreamOKStill DEF IInv, ControlOK, Running, call
<1>3. TensorsOK'
  <2> SUFFICES ASSUME NEW v \in DOMAIN tensors' PROVE TensorOK(v)'
    BY DEF TensorsOK
  <2>1. /\ from[v] \in DOMAIN tensors /\ tensors'[v] = tensors[from[v]]
        /\ (from[v] \in Views <=> v \in Views)
        /\ dims_of(from[v]) = dims_of(v)
        /\ v \in Views => from[v] = v /\ base(v) \in DOMAIN tensors' /\ from[base(v)] = base(v)
    OBVIOUS
  <2>2. v \in Views => tensors'[base(v)] = tensors[base(v)]
    BY <2>1
  <2>3. TensorOK(from[v])
    BY <2>1 DEF IInv, TensorsOK
  <2> QED
    BY <2>1, <2>2, <2>3, DimsKept DEF TensorOK
<1>4. Apart'
  BY DEF IInv, Apart
<1>5. LocalsOK'
  BY <1>1 DEF IInv, LocalsOK, Live, call
<1>6. \A c, r : Holds(c, r) => Holds(c, r)'
  BY StreamStill DEF IInv, StreamOK
<1>7. Filled'
  <2> SUFFICES ASSUME NEW v \in DOMAIN tensors' \cap Owners, Source(v)' # None, tensors'[v].block # Null
               PROVE  Holds(<<"block", tensors[v].block>>,
                            Made(batch, Source(v), IF v = "row_logits" THEN turn ELSE 0))'
    BY DEF Filled, Source
  <2> PICK u : u = from[v]
    OBVIOUS
  <2>1. /\ u \in DOMAIN tensors /\ tensors'[v] = tensors[u] /\ u \in Owners
        /\ Source(v)' = Source(u) /\ u # "row_logits" /\ v # "row_logits"
    BY BaseIs DEF IInv, TensorsOK
  <2> PICK c, s, b : c = <<"block", tensors[u].block>> /\ s = Source(u) /\ b = batch
    OBVIOUS
  <2>2. Holds(c, Made(b, s, 0))
    BY <2>1 DEF IInv, Filled, Source
  <2>3. Holds(c, Made(b, s, 0))'
    BY <1>6, <2>2
  <2>4. c = <<"block", tensors'[v].block>> /\ s = Source(v)' /\ b = batch'
    BY <2>1 DEF call
  <2> QED
    BY <2>1, <2>3, <2>4
<1>8. KvFilled'
  <2> SUFFICES ASSUME NEW l \in Stored'
               PROVE  Holds(<<"kv", l>>, Made(batch, <<l, "store", 1>>, 0))'
    BY DEF KvFilled, Stored
  <2> PICK b : b = batch
    OBVIOUS
  <2>1. Holds(<<"kv", l>>, Made(b, <<l, "store", 1>>, 0))
    BY DEF IInv, KvFilled, Stored
  <2>2. Holds(<<"kv", l>>, Made(b, <<l, "store", 1>>, 0))'
    BY <1>6, <2>1
  <2> QED
    BY <2>2 DEF call
<1>9. StatusOK'
  BY DEF IInv, StatusOK, call
<1> QED
  BY <1>1, <1>2, <1>3, <1>4, <1>5, <1>7, <1>8, <1>9 DEF IInv

LEMMA LogitsStill ==
  ASSUME IInv, Running, Advance, UNCHANGED <<call, status, logits>>, statement.do # "return",
         Read' = Read
  PROVE  LogitsOK'
BY AdvanceControl DEF IInv, LogitsOK, call

\* The row of logits exists in no part but the last.
LEMMA InNoSample ==
  ASSUME Running, StatementFits, statement.do = "synchronize"
  PROVE  ~Live("row_logits")
BY DEF StatementFits, Live, live

LEMMA SynchronizeKeeps == ASSUME IInv, Synchronize PROVE IInv'
<1>0. Running /\ statement.do = "synchronize" /\ StatementFits
  BY AtPoint DEF Synchronize
<1>1. /\ Advance /\ UNCHANGED <<call, status, starved, contents, stream, logits>>
      /\ samples' = samples
  BY DEF Synchronize, Continue, call
<1>2. /\ \A v \in Locals : Live(v)' <=> v # "tokens" /\ Live(v)
      /\ \A v \in Owners \ {"tokens"} : Live(v) => Keeps(v)
      /\ Steady /\ part' # "sample"
  BY <1>0, <1>1, AtPoint DEF Synchronize, StatementMoves
<1>3. /\ DOMAIN tensors' = DOMAIN tensors \ {"tokens"}
      /\ \A v \in DOMAIN tensors' : tensors'[v] = tensors[v]
  BY DEF Synchronize
<1>4. DOMAIN tensors = {v \in Locals : Live(v)} /\ DOMAIN tensors' = {v \in Locals : Live(v)'}
  BY <1>0, <1>2, <1>3 DEF IInv, LocalsOK, Live
<1> PICK from : from = [v \in Locals |-> v]
  OBVIOUS
<1>5. LogitsOK' /\ RowOK'
  BY <1>0, <1>1, <1>2, LogitsStill DEF Steady, RowOK
<1>6. ASSUME NEW v \in DOMAIN tensors'
      PROVE  /\ from[v] = v /\ v \in DOMAIN tensors /\ v \in Locals
             /\ v \in Views => base(v) \in DOMAIN tensors' /\ from[base(v)] = base(v)
             /\ v \in Owners => Source(v)' = None \/ (Source(v)' = Source(v) /\ v # "row_logits")
  <2>1. v \in DOMAIN tensors /\ v \in Locals /\ Live(v) /\ v # "tokens"
    BY <1>3, <1>4
  <2>2. v \in Views => base(v) \in DOMAIN tensors /\ base(v) # "tokens" /\ base(v) \in Locals
    BY <2>1, OwnerOf, BaseIs DEF base, Views
  <2>3. v # "row_logits"
    BY <1>0, <2>1, InNoSample
  <2> QED
    BY <1>2, <1>3, <2>1, <2>2, <2>3 DEF Keeps
<1>7. \A u, v \in DOMAIN tensors' : base(from[u]) = base(from[v]) => base(u) = base(v)
  BY <1>6
<1>8. \A v \in DOMAIN tensors' :
       /\ from[v] \in DOMAIN tensors /\ tensors'[v] = tensors[from[v]]
       /\ (from[v] \in Views <=> v \in Views) /\ dims_of(from[v]) = dims_of(v)
       /\ v \in Views => from[v] = v /\ base(v) \in DOMAIN tensors' /\ from[base(v)] = base(v)
       /\ v \in Owners => \/ Source(v)' = None
                          \/ /\ Source(v)' = Source(from[v]) /\ from[v] # "row_logits"
                             /\ v # "row_logits"
  <2> SUFFICES ASSUME NEW v \in DOMAIN tensors'
               PROVE  /\ from[v] \in DOMAIN tensors /\ tensors'[v] = tensors[from[v]]
                      /\ (from[v] \in Views <=> v \in Views) /\ dims_of(from[v]) = dims_of(v)
                      /\ v \in Views => from[v] = v /\ base(v) \in DOMAIN tensors' /\ from[base(v)] = base(v)
                      /\ v \in Owners => \/ Source(v)' = None
                                         \/ /\ Source(v)' = Source(from[v]) /\ from[v] # "row_logits"
                                            /\ v # "row_logits"
    OBVIOUS
  <2> QED
    BY <1>3, <1>6
<1>9. statement.do # "return" /\ \A l \in Stored' : l \in Stored
  BY <1>0, <1>2 DEF Steady
<1> QED
  BY <1>0, <1>1, <1>4, <1>5, <1>7, <1>8, <1>9, DropsKeep

LEMMA EmbedKeeps == ASSUME IInv, Embed PROVE IInv'
<1>0. Running /\ statement.do = "embed" /\ StatementFits /\ status # "crash"
  BY AtPoint DEF Embed
<1>1. UNCHANGED <<call, starved, contents, stream, logits>> /\ samples' = samples
  BY DEF Embed, call
<1>2. part = "inputs" /\ "hidden" \in DOMAIN tensors
  <2>1. Live("hidden") /\ "hidden" \in Locals
    BY <1>0 DEF StatementFits, Locals, Owners
  <2> QED
    BY <1>0, <2>1, LiveAre DEF StatementFits
<1>3. CASE embedding_check(tensors["hidden"])
  <2>1. Advance /\ UNCHANGED <<status, tensors>>
    BY <1>3 DEF Embed, Continue
  <2>2. SameLocals /\ (\A v \in Owners : Live(v) => Keeps(v)) /\ Steady /\ part' # "sample"
    BY <1>0, <1>1, <2>1, AtPoint DEF Embed, StatementMoves
  <2>3. DOMAIN tensors = {v \in Locals : Live(v)} /\ DOMAIN tensors' = {v \in Locals : Live(v)'}
    BY <1>0, <2>1, <2>2 DEF IInv, LocalsOK, Live, SameLocals
  <2> PICK from : from = [v \in Locals |-> v]
    OBVIOUS
  <2>4. LogitsOK' /\ RowOK'
    BY <1>0, <1>1, <2>1, <2>2, LogitsStill DEF Steady, RowOK
  <2>5. ASSUME NEW v \in DOMAIN tensors'
        PROVE  /\ from[v] = v /\ v \in DOMAIN tensors /\ v \in Locals
               /\ v \in Views => base(v) \in DOMAIN tensors' /\ from[base(v)] = base(v)
               /\ v \in Owners => Source(v)' = None \/ (Source(v)' = Source(v) /\ v # "row_logits")
    <3>1. v \in DOMAIN tensors /\ v \in Locals /\ Live(v)
      BY <2>1, <2>3
    <3>2. v \in Views => base(v) \in DOMAIN tensors /\ base(v) \in Locals
      BY <3>1, OwnerOf, BaseIs
    <3>3. v # "row_logits"
      BY <1>2, <3>1 DEF Live, live
    <3> QED
      BY <2>1, <2>2, <3>1, <3>2, <3>3 DEF Keeps
  <2>6. \A u, v \in DOMAIN tensors' : base(from[u]) = base(from[v]) => base(u) = base(v)
    BY <2>5
  <2>7. \A v \in DOMAIN tensors' :
         /\ from[v] \in DOMAIN tensors /\ tensors'[v] = tensors[from[v]]
         /\ (from[v] \in Views <=> v \in Views) /\ dims_of(from[v]) = dims_of(v)
         /\ v \in Views => from[v] = v /\ base(v) \in DOMAIN tensors' /\ from[base(v)] = base(v)
         /\ v \in Owners => \/ Source(v)' = None
                            \/ /\ Source(v)' = Source(from[v]) /\ from[v] # "row_logits"
                               /\ v # "row_logits"
    <3> SUFFICES ASSUME NEW v \in DOMAIN tensors'
                 PROVE  /\ from[v] \in DOMAIN tensors /\ tensors'[v] = tensors[from[v]]
                        /\ (from[v] \in Views <=> v \in Views) /\ dims_of(from[v]) = dims_of(v)
                        /\ v \in Views => from[v] = v /\ base(v) \in DOMAIN tensors' /\ from[base(v)] = base(v)
                        /\ v \in Owners => \/ Source(v)' = None
                                           \/ /\ Source(v)' = Source(from[v]) /\ from[v] # "row_logits"
                                              /\ v # "row_logits"
      OBVIOUS
    <3> QED
      BY <2>1, <2>5
  <2>8. statement.do # "return" /\ \A l \in Stored' : l \in Stored
    BY <1>0, <2>2 DEF Steady
  <2> QED
    BY <1>0, <1>1, <2>1, <2>3, <2>4, <2>6, <2>7, <2>8, DropsKeep
<1>4. CASE ~embedding_check(tensors["hidden"])
  <2>1. part' = "none" /\ status' = "error" /\ UNCHANGED <<turn, pc>> /\ tensors' = <<>>
    BY <1>4 DEF Embed, Leave
  <2>2. tensors["hidden"].dims = <<rows, model.dim>>
    BY <1>2 DEF IInv, TensorsOK, TensorOK, dims_of
  <2>3. tensors["hidden"].block = Null => batch \in starved
    BY <1>0, <1>2 DEF IInv, LocalsOK
  <2>4. ~(rows <= model.seq_len) => rows > model.seq_len
    BY ModelIs DEF IInv, ControlOK
  <2>5. batch \in starved \/ rows > model.seq_len \/ ~in_vocabulary
    BY <1>4, <2>2, <2>3, <2>4 DEF embedding_check
  <2> QED
    BY <1>0, <1>1, <2>1, <2>5, LeaveKeeps
<1> QED
  BY <1>3, <1>4

LEMMA LeaveLayerKeeps == ASSUME IInv, LeaveLayer PROVE IInv'
<1>0. Running /\ statement.do = "leave_layer" /\ StatementFits
  BY AtPoint DEF LeaveLayer
<1>1. /\ Advance /\ UNCHANGED <<call, status, starved, contents, stream, logits>>
      /\ samples' = samples
  BY DEF LeaveLayer, Continue, call
<1> DEFINE Rest == {"hidden", "tables", "positions", "scores"}
<1>2. /\ \A v \in Locals : Live(v)' <=> v \in Rest
      /\ \A v \in Rest : Live(v)
      /\ Source("hidden")' \in {None, Source("next_hidden")}
      /\ \A v \in {"tables", "positions", "scores"} : Keeps(v)
      /\ Steady /\ part' # "sample" /\ Live("next_hidden")
  BY <1>0, <1>1, AtPoint DEF LeaveLayer, StatementMoves, StatementFits
<1>3. /\ DOMAIN tensors' = Rest /\ Rest \subseteq Locals /\ Rest \subseteq Owners
      /\ "next_hidden" \in Owners /\ "next_hidden" \in Locals
      /\ tensors'["hidden"] = tensors["next_hidden"]
      /\ \A v \in {"tables", "positions", "scores"} : tensors'[v] = tensors[v]
  BY DEF LeaveLayer, Locals, Owners
<1>4. "next_hidden" \in DOMAIN tensors /\ \A v \in Rest : v \in DOMAIN tensors
  BY <1>0, <1>2, <1>3, LiveAre
<1> PICK from : from = [v \in Rest |-> IF v = "hidden" THEN "next_hidden" ELSE v]
  OBVIOUS
<1>5. LogitsOK' /\ RowOK'
  BY <1>0, <1>1, <1>2, LogitsStill DEF Steady, RowOK
<1>6. dims_of("next_hidden") = dims_of("hidden")
  BY DEF dims_of
<1>7. \A v \in Rest : /\ from[v] \in DOMAIN tensors /\ tensors'[v] = tensors[from[v]]
                      /\ from[v] \notin Views /\ v \notin Views /\ dims_of(from[v]) = dims_of(v)
                      /\ \/ Source(v)' = None
                         \/ /\ Source(v)' = Source(from[v])
                            /\ from[v] # "row_logits" /\ v # "row_logits"
  BY <1>2, <1>3, <1>4, <1>6, BaseIs DEF Keeps
<1>8. \A u, v \in Rest : base(from[u]) = base(from[v]) => base(u) = base(v)
  BY <1>3, BaseIs
<1>9. DOMAIN tensors' = {v \in Locals : Live(v)'}
  BY <1>2, <1>3
<1> HIDE DEF Rest
<1> QED
  BY <1>0, <1>1, <1>2, <1>3, <1>5, <1>7, <1>8, <1>9, DropsKeep DEF Steady

LEMMA LogitsGrow ==
  ASSUME NEW b, NEW n \in Nat
  PROVE  Append([r \in 1..n |-> Made(b, <<0, "lm_head", 1>>, r)],
                Made(b, <<0, "lm_head", 1>>, n + 1))
           = [r \in 1..(n + 1) |-> Made(b, <<0, "lm_head", 1>>, r)]
<1> PICK f : f = [r \in 1..(n + 1) |-> Made(b, <<0, "lm_head", 1>>, r)]
  OBVIOUS
<1> PICK s : s = [r \in 1..n |-> Made(b, <<0, "lm_head", 1>>, r)]
  OBVIOUS
<1> PICK S : S = {Made(b, <<0, "lm_head", 1>>, r) : r \in 1..(n + 1)}
  OBVIOUS
<1>1. s \in Seq(S) /\ Len(s) = n /\ \A r \in 1..n : s[r] = Made(b, <<0, "lm_head", 1>>, r)
  <2>1. \A r \in 1..n : s[r] \in S
    OBVIOUS
  <2> QED
    BY <2>1
<1> PICK x : x = Made(b, <<0, "lm_head", 1>>, n + 1)
  OBVIOUS
<1>2. x \in S
  OBVIOUS
<1>3. /\ Append(s, x) \in Seq(S) /\ Len(Append(s, x)) = n + 1
      /\ \A r \in 1..n : Append(s, x)[r] = s[r]
      /\ Append(s, x)[n + 1] = x
  BY <1>1, <1>2
<1>4. \A r \in 1..(n + 1) : Append(s, x)[r] = f[r]
  BY <1>1, <1>3
<1>5. Append(s, x) = f
  BY <1>3, <1>4
<1> QED
  BY <1>5

LEMMA FetchKeeps == ASSUME IInv, Fetch PROVE IInv'
<1>0. Running /\ statement.do = "fetch" /\ StatementFits
  BY AtPoint DEF Fetch
<1>1. /\ Advance /\ UNCHANGED <<call, status, starved, contents, stream>> /\ samples' = samples
      /\ stream = <<>>
  BY DEF Fetch, Continue, call
<1>2. /\ part = "sample" /\ pc = 4 /\ Live("row_logits") /\ Source("row_logits") = <<0, "lm_head", 1>>
      /\ \A v \in Locals : Live(v)' <=> v \notin {"row_logits", "hidden_row"} /\ Live(v)
      /\ \A v \in Owners \ {"row_logits"} : Live(v) => Keeps(v)
      /\ Read' = turn /\ Read = turn - 1 /\ (\A l \in Stored' : l \in Stored) /\ pc' = 1
  BY <1>0, <1>1, AtPoint DEF Fetch, StatementMoves, StatementFits
<1>3. /\ DOMAIN tensors' = DOMAIN tensors \ {"row_logits", "hidden_row"}
      /\ \A v \in DOMAIN tensors' : tensors'[v] = tensors[v]
  BY DEF Fetch
<1>4. DOMAIN tensors = {v \in Locals : Live(v)} /\ DOMAIN tensors' = {v \in Locals : Live(v)'}
  BY <1>0, <1>2, <1>3 DEF IInv, LocalsOK, Live
<1>5. RowOK'
  BY <1>2 DEF RowOK
<1>6. LogitsOK'
  <2> PICK b, n, c : b = batch /\ n = turn - 1 /\ c = <<"block", tensors["row_logits"].block>>
    OBVIOUS
  <2>1. n \in Nat /\ turn = n + 1
    BY <1>2 DEF IInv, ControlOK
  <2>2. "row_logits" \in DOMAIN tensors \cap Owners
    BY <1>2, <1>4 DEF Locals, Owners
  <2>3. tensors["row_logits"].block # Null
    BY <1>2 DEF IInv, RowOK
  <2>4. Holds(c, Made(b, <<0, "lm_head", 1>>, turn))
    <3>1. Source("row_logits") # None
      BY <1>2 DEF None
    <3> QED
      BY <1>0, <1>2, <2>2, <2>3, <3>1 DEF IInv, Filled, Source
  <2>5. contents[c] = Made(b, <<0, "lm_head", 1>>, n + 1)
    <3>1. Holds(c, Made(b, <<0, "lm_head", 1>>, n + 1))
      BY <2>1, <2>4
    <3> QED
      BY <1>1, <3>1 DEF Holds, Leaves
  <2>6. Cell("row_logits", <<0, "lm_head">>) = c
    BY DEF Cell
  <2>7. logits = [r \in 1..n |-> Made(b, <<0, "lm_head", 1>>, r)]
    BY <1>0, <1>2 DEF IInv, LogitsOK
  <2>8. logits' = Append(logits, contents[c])
    BY <2>6 DEF Fetch
  <2>9. logits' = [r \in 1..(n + 1) |-> Made(b, <<0, "lm_head", 1>>, r)]
    BY <2>1, <2>5, <2>7, <2>8, LogitsGrow
  <2>10. b = batch' /\ Read' = n + 1
    BY <1>1, <1>2, <2>1 DEF call
  <2> QED
    BY <2>9, <2>10 DEF LogitsOK
<1> PICK from : from = [v \in Locals |-> v]
  OBVIOUS
<1>7. ASSUME NEW v \in DOMAIN tensors'
      PROVE  /\ from[v] = v /\ v \in DOMAIN tensors /\ v \in Locals
             /\ v \in Views => base(v) \in DOMAIN tensors' /\ from[base(v)] = base(v)
             /\ v \in Owners => Source(v)' = None \/ (Source(v)' = Source(v) /\ v # "row_logits")
  <2>1. v \in DOMAIN tensors /\ v \in Locals /\ Live(v) /\ v # "row_logits" /\ v # "hidden_row"
    BY <1>3, <1>4
  <2>2. v \in Views => /\ base(v) \in DOMAIN tensors /\ base(v) \notin {"row_logits", "hidden_row"}
                       /\ base(v) \in Locals
    BY <2>1, OwnerOf, BaseIs DEF base, Views
  <2> QED
    BY <1>2, <1>3, <2>1, <2>2 DEF Keeps
<1>8. \A u, v \in DOMAIN tensors' : base(from[u]) = base(from[v]) => base(u) = base(v)
  BY <1>7
<1>9. \A v \in DOMAIN tensors' :
       /\ from[v] \in DOMAIN tensors /\ tensors'[v] = tensors[from[v]]
       /\ (from[v] \in Views <=> v \in Views) /\ dims_of(from[v]) = dims_of(v)
       /\ v \in Views => from[v] = v /\ base(v) \in DOMAIN tensors' /\ from[base(v)] = base(v)
       /\ v \in Owners => \/ Source(v)' = None
                          \/ /\ Source(v)' = Source(from[v]) /\ from[v] # "row_logits"
                             /\ v # "row_logits"
  <2> SUFFICES ASSUME NEW v \in DOMAIN tensors'
               PROVE  /\ from[v] \in DOMAIN tensors /\ tensors'[v] = tensors[from[v]]
                      /\ (from[v] \in Views <=> v \in Views) /\ dims_of(from[v]) = dims_of(v)
                      /\ v \in Views => from[v] = v /\ base(v) \in DOMAIN tensors' /\ from[base(v)] = base(v)
                      /\ v \in Owners => \/ Source(v)' = None
                                         \/ /\ Source(v)' = Source(from[v]) /\ from[v] # "row_logits"
                                            /\ v # "row_logits"
    OBVIOUS
  <2> QED
    BY <1>3, <1>7
<1>10. statement.do # "return" /\ \A l \in Stored' : l \in Stored
  BY <1>0, <1>2
<1> QED
  BY <1>0, <1>1, <1>4, <1>5, <1>6, <1>8, <1>9, <1>10, DropsKeep

LEMMA ReturnKeeps == ASSUME IInv, Return PROVE IInv'
<1>0. Running /\ statement.do = "return" /\ StatementFits /\ status # "crash"
  BY AtPoint DEF Return
<1>1. /\ part' = "none" /\ status' = "ok" /\ tensors' = <<>>
      /\ UNCHANGED <<turn, pc, call, starved, contents, stream, logits>>
      /\ device' = device /\ samples' = samples /\ batch' = batch
  BY DEF Return, Leave, call
<1>2. part = "return"
  BY <1>0 DEF StatementFits
<1>3. ControlOK'
  BY <1>1 DEF IInv, ControlOK, Running, call
<1>4. StreamOK'
  BY <1>0, <1>1, StreamOKStill DEF IInv
<1>5. TensorsOK' /\ Apart' /\ LocalsOK' /\ Filled' /\ RowOK' /\ StatusOK'
  BY <1>1 DEF TensorsOK, Apart, LocalsOK, Filled, RowOK, StatusOK, Running
<1>6. KvFilled'
  <2> SUFFICES ASSUME NEW l \in Stored'
               PROVE  Holds(<<"kv", l>>, Made(batch, <<l, "store", 1>>, 0))'
    BY DEF KvFilled, Stored
  <2> PICK b : b = batch
    OBVIOUS
  <2>1. l \in Stored
    BY <1>2 DEF Stored, stored
  <2>2. Holds(<<"kv", l>>, Made(b, <<l, "store", 1>>, 0))
    BY <1>0, <2>1 DEF IInv, KvFilled, Stored
  <2>3. Holds(<<"kv", l>>, Made(b, <<l, "store", 1>>, 0))'
    BY <1>1, <2>2, StreamStill DEF IInv, StreamOK
  <2> QED
    BY <1>1, <2>3
<1>7. LogitsOK'
  <2>1. Read = samples /\ Read' = samples
    BY <1>1, <1>2 DEF Read, Running
  <2> QED
    BY <1>0, <1>1, <2>1 DEF IInv, LogitsOK
<1> QED
  BY <1>3, <1>4, <1>5, <1>6, <1>7 DEF IInv

LEMMA ExecuteStep == ASSUME IInv, Execute PROVE IInv'
<1>0. /\ stream # <<>> /\ status # "crash" /\ stream' = Tail(stream) /\ stream \in Seq(Kernels)
      /\ UNCHANGED <<call, memory, logits>> /\ StreamRight
      /\ UNCHANGED <<device, batch, rows, samples, in_vocabulary, tensors, starved>>
  BY DEF Execute, IInv, StreamOK, memory, call
<1> PICK n \in Nat : n = Len(stream) - 1
  BY <1>0
<1>1. /\ Len(stream) = n + 1 /\ Len(stream') = n /\ stream' \in Seq(Kernels)
      /\ Head(stream) = stream[1] /\ \A i \in 1..n : stream'[i] = stream[i + 1]
  BY <1>0
<1>2. \A i \in 1..n : faults(stream[i])' => starved' # {}
  <2> SUFFICES ASSUME NEW i \in 1..n, faults(stream'[i]) PROVE starved' # {}
    OBVIOUS
  <2>1. faults(stream[i + 1]) /\ i + 1 \in 1..Len(stream)
    BY <1>1
  <2> QED
    BY <1>0, <2>1 DEF IInv, StreamOK
<1>3. TensorsOK' /\ Apart'
  BY <1>0, DimsKept DEF IInv, TensorsOK, TensorOK, Apart
<1>4. device' # "cuda" => stream' = <<>>
  BY <1>0 DEF IInv, StreamOK
<1>5. CASE faults(Head(stream))
  <2>1. part' = "none" /\ status' = "crash" /\ UNCHANGED <<turn, pc, contents>>
    BY <1>5 DEF Execute, Leave
  <2>2. starved' # {}
    <3>1. 1 \in 1..Len(stream)
      BY <1>1
    <3> QED
      BY <1>0, <1>1, <1>5, <3>1 DEF IInv, StreamOK
  <2>3. ControlOK' /\ LocalsOK' /\ StatusOK'
    BY <1>0, <2>1, <2>2 DEF IInv, ControlOK, LocalsOK, StatusOK, Running
  <2>4. Filled' /\ RowOK' /\ KvFilled' /\ LogitsOK'
    BY <2>1 DEF Filled, RowOK, KvFilled, LogitsOK, Running, Returned
  <2>5. StreamOK'
    BY <1>1, <1>2, <1>4, <2>1 DEF StreamOK
  <2> QED
    BY <1>3, <2>3, <2>4, <2>5 DEF IInv
<1>6. CASE ~faults(Head(stream))
  <2>1. contents' = after(Head(stream)) /\ UNCHANGED <<part, turn, pc, status>>
    BY <1>6 DEF Execute, control
  <2>2. Ready(0, Head(stream))
    <3>1. 1 \in 1..Len(stream) /\ 1 - 1 = 0
      BY <1>1
    <3> QED
      BY <1>0, <1>1, <3>1 DEF StreamRight
  <2>3. \A c \in Cells : \A r : \A m \in 0..n : Leaves(m + 1, c, r) => Leaves(m, c, r)'
    <3> TAKE c \in Cells
    <3> TAKE r
    <3> TAKE m \in 0..n
    <3> HAVE Leaves(m + 1, c, r)
    <3> QED
      BY <1>0, <1>1, <1>6, <2>1, <2>2, ExecuteKeeps
  <2>4. \A c \in Cells : \A r : Holds(c, r) => Holds(c, r)'
    <3> SUFFICES ASSUME NEW c \in Cells, NEW r, Holds(c, r) PROVE Holds(c, r)'
      OBVIOUS
    <3>1. Leaves(n + 1, c, r) /\ n \in 0..n
      BY <1>1 DEF Holds
    <3>2. Leaves(n, c, r)'
      BY <2>3, <3>1
    <3> QED
      BY <1>1, <3>2 DEF Holds
  <2>5. StreamRight'
    <3> SUFFICES ASSUME NEW i \in 1..n PROVE Ready(i - 1, stream[i])'
      BY <1>1 DEF StreamRight
    <3> PICK k : k = stream[i + 1]
      OBVIOUS
    <3>1. i + 1 \in 1..Len(stream) /\ (i + 1) - 1 = (i - 1) + 1 /\ i - 1 \in 0..n
      BY <1>1
    <3>2. Ready((i - 1) + 1, k) /\ k \in Kernels
      BY <1>0, <3>1 DEF StreamRight
    <3>3. Ready(i - 1, k)'
      <4> SUFFICES ASSUME ~faults(k), NEW j \in DOMAIN k.in
                   PROVE  LET src == Inputs(k.op)[j]
                          IN  /\ src = <<src[1], src[2], src[3]>>
                              /\ Leaves(i - 1, k.in[j], Made(k.batch, src, 0))'
        BY DEF Ready
      <4> PICK src, c : src = Inputs(k.op)[j] /\ c = k.in[j]
        OBVIOUS
      <4>1. src = <<src[1], src[2], src[3]>> /\ Leaves((i - 1) + 1, c, Made(k.batch, src, 0))
        BY <3>2 DEF Ready
      <4>2. c \in Cells
        BY <3>2 DEF Kernels
      <4>3. Leaves(i - 1, c, Made(k.batch, src, 0))'
        BY <2>3, <3>1, <4>1, <4>2
      <4> QED
        BY <4>1, <4>3
    <3>4. k = stream'[i]
      BY <1>1
    <3> QED
      BY <3>3, <3>4
  <2>6. StreamOK'
    BY <1>1, <1>2, <1>4, <2>5 DEF StreamOK
  <2>7. ControlOK' /\ LocalsOK' /\ RowOK' /\ LogitsOK' /\ StatusOK'
    BY <1>0, <2>1 DEF IInv, ControlOK, LocalsOK, RowOK, LogitsOK, StatusOK, Running, Returned, Read
  <2>8. Filled'
    <3> SUFFICES ASSUME Running, NEW v \in DOMAIN tensors \cap Owners, Source(v) # None,
                        tensors[v].block # Null
                 PROVE  Holds(<<"block", tensors[v].block>>,
                              Made(batch, Source(v), IF v = "row_logits" THEN turn ELSE 0))'
      BY <1>0, <2>1 DEF Filled, Source, Running
    <3> PICK c, r : /\ c = <<"block", tensors[v].block>>
                    /\ r = Made(batch, Source(v), IF v = "row_logits" THEN turn ELSE 0)
      OBVIOUS
    <3>1. c \in Cells
      BY DEF Cells, IInv, TensorsOK, TensorOK
    <3>2. Holds(c, r)
      BY DEF IInv, Filled, Source
    <3>3. Holds(c, r)'
      BY <2>4, <3>1, <3>2
    <3>4. /\ c = <<"block", tensors'[v].block>>
          /\ r = Made(batch', Source(v)', IF v = "row_logits" THEN turn' ELSE 0)
      BY <1>0, <2>1 DEF Source
    <3> QED
      BY <3>3, <3>4
  <2>9. KvFilled'
    <3> SUFFICES ASSUME Running \/ Returned, NEW l \in Stored
                 PROVE  Holds(<<"kv", l>>, Made(batch, <<l, "store", 1>>, 0))'
      BY <1>0, <2>1 DEF KvFilled, Stored, Running, Returned
    <3> PICK b : b = batch
      OBVIOUS
    <3>1. <<"kv", l>> \in Cells
      BY DEF Cells, Stored, stored
    <3>2. Holds(<<"kv", l>>, Made(b, <<l, "store", 1>>, 0))
      BY DEF IInv, KvFilled, Stored
    <3>3. Holds(<<"kv", l>>, Made(b, <<l, "store", 1>>, 0))'
      BY <2>4, <3>1, <3>2
    <3> QED
      BY <1>0, <3>3
  <2> QED
    BY <1>3, <2>6, <2>7, <2>8, <2>9 DEF IInv
<1> QED
  BY <1>5, <1>6

LEMMA StillKeeps == ASSUME IInv, UNCHANGED vars PROVE IInv'
<1>1. UNCHANGED <<call, tensors, starved, contents, stream, logits, status, part, turn, pc>>
      /\ UNCHANGED <<device, batch, rows, samples, in_vocabulary>>
  BY DEF vars, memory, control, call
<1>2. StreamOK'
  BY <1>1, StreamOKStill DEF IInv
<1>3. TensorsOK' /\ Apart'
  BY <1>1, DimsKept DEF IInv, TensorsOK, TensorOK, Apart
<1>4. ControlOK' /\ LocalsOK' /\ RowOK' /\ LogitsOK' /\ StatusOK'
  BY <1>1 DEF IInv, ControlOK, LocalsOK, RowOK, LogitsOK, StatusOK, Running, Returned, Read
<1>5. \A c, r : Holds(c, r) => Holds(c, r)'
  BY <1>1, StreamStill DEF IInv, StreamOK
<1>6. Filled'
  <2> SUFFICES ASSUME Running, NEW v \in DOMAIN tensors \cap Owners, Source(v) # None,
                      tensors[v].block # Null
               PROVE  Holds(<<"block", tensors[v].block>>,
                            Made(batch, Source(v), IF v = "row_logits" THEN turn ELSE 0))'
    BY <1>1 DEF Filled, Source, Running
  <2> PICK c, r : /\ c = <<"block", tensors[v].block>>
                  /\ r = Made(batch, Source(v), IF v = "row_logits" THEN turn ELSE 0)
    OBVIOUS
  <2>1. Holds(c, r)
    BY DEF IInv, Filled, Source
  <2>2. Holds(c, r)'
    BY <1>5, <2>1
  <2>3. /\ c = <<"block", tensors'[v].block>>
        /\ r = Made(batch', Source(v)', IF v = "row_logits" THEN turn' ELSE 0)
    BY <1>1 DEF Source
  <2> QED
    BY <2>2, <2>3
<1>7. KvFilled'
  <2> SUFFICES ASSUME Running \/ Returned, NEW l \in Stored
               PROVE  Holds(<<"kv", l>>, Made(batch, <<l, "store", 1>>, 0))'
    BY <1>1 DEF KvFilled, Stored, Running, Returned
  <2> PICK b : b = batch
    OBVIOUS
  <2>1. Holds(<<"kv", l>>, Made(b, <<l, "store", 1>>, 0))
    BY DEF IInv, KvFilled, Stored
  <2>2. Holds(<<"kv", l>>, Made(b, <<l, "store", 1>>, 0))'
    BY <1>5, <2>1
  <2> QED
    BY <1>1, <2>2
<1> QED
  BY <1>2, <1>3, <1>4, <1>6, <1>7 DEF IInv

----------------------------------------------------------------------------
(* The theorems *)

LEMMA InitHolds == ASSUME Init PROVE IInv
<1>1. ControlOK
  BY DEF Init, ControlOK, Running
<1>2. StreamOK
  <2>1. stream = <<>> /\ Len(stream) = 0
    BY DEF Init
  <2>2. stream \in Seq(Kernels)
    BY <2>1
  <2>3. StreamRight
    BY <2>1 DEF StreamRight
  <2> QED
    BY <2>1, <2>2, <2>3 DEF StreamOK
<1>3. TensorsOK /\ Apart /\ LocalsOK /\ Filled /\ RowOK /\ KvFilled /\ LogitsOK /\ StatusOK
  BY DEF Init, TensorsOK, Apart, LocalsOK, Filled, RowOK, KvFilled, LogitsOK, StatusOK, Running,
         Returned
<1> QED
  BY <1>1, <1>2, <1>3 DEF IInv

(* At every point of forward_paged_batch the live locals have the expected  *)
(* dimensions and blocks of their own, and each holds, behind the kernels   *)
(* still queued, the result it should: the inductive invariant.             *)
THEOREM ForwardInvariant == Spec => []IInv
<1>1. Init => IInv
  BY InitHolds
<1>2. IInv /\ [Next]_vars => IInv'
  <2> SUFFICES ASSUME IInv, [Next]_vars PROVE IInv'
    OBVIOUS
  <2> QED
    BY StartKeeps, NewKeeps, ViewKeeps, ShareKeeps, GrowKeeps, UploadKeeps, ForwardKeeps,
       KernelKeeps, SynchronizeKeeps, LeaveLayerKeeps, FetchKeeps, ReturnKeeps, ExecuteStep,
       StillKeeps, EmbedKeeps DEF Next
<1> QED
  BY <1>1, <1>2, PTL DEF Spec

----------------------------------------------------------------------------
(* Which batches run *)

\* A batch that runs, or has returned, has no more rows than the context has
\* positions, and behind the check of the embedding layer no unknown token id.
Admitted ==
  Running \/ Returned =>
    /\ rows <= model.seq_len
    /\ ~(part = "inputs" /\ pc <= 2) => in_vocabulary

Ends == part' = "none" /\ status' \in {"error", "crash"}
Passes == Advance /\ UNCHANGED status

LEMMA LaunchPasses ==
  ASSUME NEW k, Launch(k)
  PROVE  Passes \/ Ends
BY DEF Launch, Continue, Leave, Passes, Ends

LEMMA PassAdmits ==
  ASSUME IInv, Admitted, Running, UNCHANGED call, Passes, statement.do = "embed" => in_vocabulary
  PROVE  Admitted'
<1>1. rows' = rows /\ in_vocabulary' = in_vocabulary /\ model' = model /\ ControlOK
  BY DEF call, IInv, model
<1>2. rows <= model.seq_len
  BY DEF Admitted
<1>3. CASE part = "inputs" /\ pc = 1
  BY <1>1, <1>2, <1>3, InputsNext DEF Passes, Admitted
<1>4. CASE part = "inputs" /\ pc = 2
  <2>1. statement.do = "embed"
    BY <1>4, InputsStatements DEF statement, just
  <2> QED
    BY <1>1, <1>2, <2>1 DEF Admitted
<1>5. CASE ~(part = "inputs" /\ pc \in {1, 2})
  <2>1. pc \in Nat /\ pc >= 1
    BY <1>1 DEF ControlOK, Running, Length
  <2>2. in_vocabulary
    BY <1>5, <2>1 DEF Admitted
  <2> QED
    BY <1>1, <1>2, <2>2 DEF Admitted
<1> QED
  BY <1>3, <1>4, <1>5

LEMMA AdmittedKeeps ==
  ASSUME IInv, Admitted, [Next]_vars
  PROVE  Admitted'
<1>0. Ends => Admitted'
  BY DEF Ends, Admitted, Running, Returned
<1>1. CASE Start
  <2>1. CASE rows' <= model.seq_len
    BY <1>1, <2>1 DEF Start, Admitted, model
  <2>2. CASE ~(rows' <= model.seq_len)
    BY <1>1, <2>2 DEF Start, control, Admitted, Running, Returned
  <2> QED
    BY <2>1, <2>2
<1>2. CASE New \/ View \/ Share \/ Synchronize \/ LeaveLayer \/ Fetch
  <2>1. Running /\ statement.do # "embed"
    BY <1>2, AtPoint DEF New, View, Share, Synchronize, LeaveLayer, Fetch
  <2>2. UNCHANGED call /\ Passes
    BY <1>2 DEF New, View, Share, Synchronize, LeaveLayer, Fetch, Continue, Passes
  <2> QED
    BY <2>1, <2>2, PassAdmits
<1>3. CASE Grow
  <2>1. Running /\ statement.do # "embed"
    BY <1>3, AtPoint DEF Grow
  <2>2. UNCHANGED call /\ (Passes \/ Ends)
    BY <1>3 DEF Grow, Continue, Leave, Passes, Ends
  <2> QED
    BY <1>0, <2>1, <2>2, PassAdmits
<1>4. CASE Embed
  <2>1. Running
    BY <1>4, AtPoint DEF Embed
  <2>2. UNCHANGED call /\ ((Passes /\ in_vocabulary) \/ Ends)
    BY <1>4 DEF Embed, embedding_check, Continue, Leave, Passes, Ends
  <2> QED
    BY <1>0, <2>1, <2>2, PassAdmits
<1>5. CASE Upload
  <2>1. Running /\ statement.do # "embed"
    BY <1>5, AtPoint DEF Upload
  <2>2. UNCHANGED call /\ (Passes \/ Ends)
    BY <1>5, LaunchPasses DEF Upload, Continue, Leave, Passes, Ends
  <2> QED
    BY <1>0, <2>1, <2>2, PassAdmits
<1>6. CASE Forward
  <2>1. Running /\ statement.do # "embed"
    BY <1>6, AtPoint DEF Forward
  <2>2. UNCHANGED call /\ (Passes \/ Ends)
    BY <1>6, LaunchPasses DEF Forward, Leave, Ends
  <2> QED
    BY <1>0, <2>1, <2>2, PassAdmits
<1>7. CASE Kernel
  <2>1. Running /\ statement.do # "embed"
    BY <1>7, AtPoint DEF Kernel
  <2>2. UNCHANGED call /\ (Passes \/ Ends)
    BY <1>7, LaunchPasses DEF Kernel
  <2> QED
    BY <1>0, <2>1, <2>2, PassAdmits
<1>8. CASE Return
  <2>1. Running /\ part = "return"
    BY <1>8, AtPoint DEF Return, StatementFits
  <2>2. rows <= model.seq_len /\ in_vocabulary
    BY <2>1 DEF Admitted
  <2> QED
    BY <1>8, <2>2 DEF Return, call, Admitted, model
<1>9. CASE Execute
  <2>1. CASE Leave("crash")
    BY <1>0, <2>1 DEF Leave, Ends
  <2>2. CASE UNCHANGED <<control, status>>
    BY <1>9, <2>2 DEF Execute, call, control, Admitted, Running, Returned, model
  <2> QED
    BY <1>9, <2>1, <2>2 DEF Execute
<1>10. CASE UNCHANGED vars
  BY <1>10 DEF vars, call, control, Admitted, Running, Returned, model
<1> QED
  BY <1>1, <1>2, <1>3, <1>4, <1>5, <1>6, <1>7, <1>8, <1>9, <1>10 DEF Next

(* No batch of more rows than the context has positions is computed at all,  *)
(* and none with a token id outside the vocabulary gets past the check of    *)
(* the embedding layer.                                                     *)
THEOREM OnlyAdmittedRun == Spec => []Admitted
<1>1. Init => Admitted
  BY DEF Init, Admitted, Running, Returned
<1>2. IInv /\ Admitted /\ [Next]_vars => Admitted'
  BY AdmittedKeeps
<1> QED
  BY <1>1, <1>2, ForwardInvariant, PTL DEF Spec

LEMMA HeadsCover ==
  ASSUME NEW a \in Nat, NEW b \in Nat, NEW c \in Nat
  PROVE  (a * b) * c = a * (b * c)
OBVIOUS

(* Whatever dimensions config.json gives, a batch whose allocations succeed *)
(* is refused only for more rows than the context has positions or a token  *)
(* id outside the vocabulary, and then always; no layer's check() fails, no *)
(* kernel meets a null pointer, and the views by heads of q and k cover     *)
(* their tensors exactly.                                                   *)
THEOREM ShapesAlwaysAgree == Spec => []ShapesAgree
<1>1. IInv /\ Admitted => ShapesAgree
  <2>0. ASSUME IInv, Admitted, status = "ok", batch > 0
        PROVE  rows <= model.seq_len /\ in_vocabulary
    <3>1. Returned /\ part = "none"
      BY <2>0 DEF IInv, ControlOK, Running, Returned
    <3> QED
      BY <2>0, <3>1 DEF Admitted
  <2> SUFFICES ASSUME IInv, NEW v \in DOMAIN tensors \cap {"query_heads", "key_heads"}
               PROVE  count(tensors[v].dims) =
                        count(tensors[IF v = "query_heads" THEN "query" ELSE "keys"].dims)
    BY <2>0 DEF ShapesAgree, IInv, StatusOK
  <2>3. rows \in Nat
    BY DEF IInv, ControlOK
  <2>1. CASE v = "query_heads"
    <3>1. "query" \in DOMAIN tensors
      BY <2>1 DEF IInv, TensorsOK, TensorOK, Views, base
    <3>2. /\ tensors[v].dims = <<rows * model.head_num, model.head_size>>
          /\ tensors["query"].dims = <<rows, model.query_dim>>
      BY <2>1, <3>1 DEF IInv, TensorsOK, TensorOK, dims_of
    <3>3. (rows * model.head_num) * model.head_size = rows * model.query_dim
      BY <2>3, ModelIs, HeadsCover
    <3> QED
      BY <2>1, <3>2, <3>3 DEF count
  <2>2. CASE v = "key_heads"
    <3>1. "keys" \in DOMAIN tensors
      BY <2>2 DEF IInv, TensorsOK, TensorOK, Views, base
    <3>2. /\ tensors[v].dims = <<rows * model.kv_head_num, model.head_size>>
          /\ tensors["keys"].dims = <<rows, model.kv_dim>>
      BY <2>2, <3>1 DEF IInv, TensorsOK, TensorOK, dims_of
    <3>3. (rows * model.kv_head_num) * model.head_size = rows * model.kv_dim
      BY <2>3, ModelIs, HeadsCover
    <3> QED
      BY <2>2, <3>2, <3>3 DEF count
  <2> QED
    BY <2>1, <2>2
<1> QED
  BY <1>1, ForwardInvariant, OnlyAdmittedRun, PTL

(* A batch that returns has computed the decoder from its own inputs: the   *)
(* logits of every sampled row and the keys and values of every layer,      *)
(* whatever blocks the allocator reuses, whatever failed batches left in    *)
(* the slots of the layers, and however far the device lags behind.         *)
THEOREM BatchComputesDecoder == Spec => []ComputesDecoder
<1>1. IInv => ComputesDecoder
  <2> SUFFICES ASSUME IInv, status = "ok", batch > 0 PROVE ComputesDecoder
    BY DEF ComputesDecoder
  <2>1. Returned /\ part = "none" /\ samples \in Nat
    BY DEF IInv, ControlOK, Running, Returned
  <2>2. Read = samples
    BY <2>1 DEF Read, Running
  <2>3. logits = [r \in 1..samples |-> Made(batch, <<0, "lm_head", 1>>, r)]
    BY <2>1, <2>2 DEF IInv, LogitsOK
  <2>4. Len(logits) = samples /\ DOMAIN logits = 1..samples
    BY <2>1, <2>3
  <2>5. \A r \in DOMAIN logits :
          logits[r] = [batch |-> batch, op |-> <<0, "lm_head">>, at |-> 1, row |-> r, right |-> TRUE]
    BY <2>3, <2>4 DEF Made
  <2>6. ASSUME stream = <<>>, NEW l \in 1..model.layer_num
        PROVE  contents[<<"kv", l>>] =
                 [batch |-> batch, op |-> <<l, "store">>, at |-> 1, row |-> 0, right |-> TRUE]
    <3>1. l \in Stored
      BY <2>1 DEF Stored, stored
    <3>2. Holds(<<"kv", l>>, Made(batch, <<l, "store", 1>>, 0))
      BY <2>1, <3>1 DEF IInv, KvFilled, Stored
    <3>3. contents[<<"kv", l>>] = Made(batch, <<l, "store", 1>>, 0)
      BY <2>6, <3>2 DEF Holds, Leaves
    <3> QED
      BY <3>3 DEF Made
  <2> QED
    BY <2>4, <2>5, <2>6 DEF ComputesDecoder
<1> QED
  BY <1>1, ForwardInvariant, PTL
=============================================================================
