------------------------------ MODULE MCStartup ------------------------------
(* One decoder layer of two heads, or dimensions that do not divide; a       *)
(* context of three positions against the two or four the command line asks   *)
(* for; pools that fit, that are too small or too large, and sizes that       *)
(* overflow.                                                                  *)
EXTENDS Startup

Dimensions ==
  [layer_num |-> 1, head_num |-> 2, kv_head_num |-> 1, head_dim |-> 4, dim |-> 4,
   hidden_dim |-> 3, vocab_size |-> 5, max_position_embeddings |-> 3]

MCCheckpoints == {Dimensions, [Dimensions EXCEPT !.kv_head_num = 3]}

MCCommands ==
  [device : {"cpu", "cuda"}, max_seq_len : {0, 2, 4}, kv_blocks : {0, 3, 30},
   max_new_tokens : {0, 1}, prompts : {1}]

MCGpus == [total : {2000}, free : {2000, 1480, 1400, 300}]

MCRequests == [prompt : 1..4, max_tokens : 1..2]
=============================================================================
