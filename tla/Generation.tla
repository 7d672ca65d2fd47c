----------------------------- MODULE Generation -----------------------------
(***************************************************************************)
(* What the engine promises its caller: every accepted request is extended,  *)
(* one token at a time, by a token the model may produce for exactly that    *)
(* request's own text, until a stop token or its limit.  Batching, paging,   *)
(* prefix sharing, chunking and preemption must not be observable.          *)
(***************************************************************************)
EXTENDS Integers, Sequences

CONSTANTS
  Seqs, Requests, Eos,
  LM(_)     \* tokens the model may choose after a text

VARIABLES
  asked,    \* the request each identity carries
  text,     \* prompt and completion so far
  phase     \* "none", "active", "done"

vars == <<asked, text, phase>>

Init ==
  /\ asked \in [Seqs -> {[prompt |-> <<>>, max_tokens |-> 0, ignore_eos |-> FALSE]}]
  /\ text = [s \in Seqs |-> <<>>]
  /\ phase = [s \in Seqs |-> "none"]

Submit(s, r) ==
  /\ phase[s] = "none"
  /\ asked' = [asked EXCEPT ![s] = r]
  /\ text' = [text EXCEPT ![s] = r.prompt]
  /\ phase' = [phase EXCEPT ![s] = "active"]

(* t ends the completion of s. *)
Last(s, t) ==
  \/ t \in Eos /\ ~ asked[s].ignore_eos
  \/ Len(text[s]) + 1 = Len(asked[s].prompt) + asked[s].max_tokens

Extend(s) ==
  /\ phase[s] = "active"
  /\ \E t \in LM(text[s]) :
       /\ text' = [text EXCEPT ![s] = Append(@, t)]
       /\ phase' = [phase EXCEPT ![s] = IF Last(s, t) THEN "done" ELSE "active"]
  /\ UNCHANGED asked

Next == \E s \in Seqs : Extend(s) \/ \E r \in Requests : Submit(s, r)

Spec == Init /\ [][Next]_vars /\ \A s \in Seqs : WF_vars(Extend(s))
=============================================================================
