------------------------------ MODULE MCForward ------------------------------
(* Two heads of six on a hidden size of four, so that the widths of queries,  *)
(* keys, hidden state and feed-forward all differ, as Qwen3's may.            *)
EXTENDS Forward

MCConfig ==
  [layer_num |-> 2, head_num |-> 2, kv_head_num |-> 1, head_dim |-> 6, dim |-> 4,
   hidden_dim |-> 10, vocab_size |-> 9, seq_len |-> 4]

\* The block with the lowest number.
MCReusable(blocks) == {b \in blocks : \A c \in blocks : b <= c}
=============================================================================
