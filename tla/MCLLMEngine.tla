----------------------------- MODULE MCLLMEngine -----------------------------
(* Instances of LLMEngine for TLC. *)
EXTENDS LLMEngine, TLC

(* A hash that loses nothing: the whole prefix, token by token. *)
ChainedHash(tokens, prefix) == prefix \o tokens

(* Token 2 stops a sequence; token 3 is never produced from a correct text.  *)
MCEos == {2}
MCLM(text) == IF text[Len(text)] = 1 THEN {1, 2} ELSE {1}

Ask(p, n) == [prompt |-> p, max_tokens |-> n, ignore_eos |-> FALSE]
AskAll(p, n) == [prompt |-> p, max_tokens |-> n, ignore_eos |-> TRUE]

(* Two prompts with equal second blocks behind different first ones, and one  *)
(* that grows to the end of the context window.                             *)
SharedRequests == {Ask(<<1, 2, 1, 1, 1>>, 1), AskAll(<<1, 1, 1, 1>>, 2), Ask(<<1, 1>>, 4),
                   Ask(<<1, 1, 1, 1>>, 3)}
SharedPrompts == {r.prompt : r \in SharedRequests}

(* The second request grows past a pool of two blocks.                       *)
LargeRequests == {Ask(<<1, 1>>, 2), AskAll(<<1, 2, 1>>, 3)}
LargePrompts == {r.prompt : r \in LargeRequests}

(* And one that asks about a token the model has no embedding of.            *)
UnknownRequests == LargeRequests \cup {Ask(<<3>>, 1)}
UnknownPrompts == {r.prompt : r \in UnknownRequests}

SeqSymmetry == Permutations(Seqs)
=============================================================================
