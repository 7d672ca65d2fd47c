--------------------------- MODULE LLMEngineProofs ---------------------------
(***************************************************************************)
(* The engine drives the pool within its protocol and keeps its queues, for *)
(* any number of requests, pool, budgets and failing batches.               *)
(*                                                                          *)
(* The two go together: the pool's invariant (BlockManagerProofs) holds     *)
(* because the scheduler keeps to the protocol, and the scheduler keeps to  *)
(* it because of what its queues and its plan say about the tables.         *)
(*                                                                          *)
(* From there on batches: the scheduler returns none of its InternalErrors, *)
(* the runner never refuses a batch, no two rows write to one cell and none *)
(* to a block that is shared, and every result is returned in the step that *)
(* finished it.                                                             *)
(***************************************************************************)
EXTENDS LLMEngine, BlockManagerProofs

-----------------------------------------------------------------------------
(* Queues *)

In(q, s) == \E i \in DOMAIN q : q[i] = s
Distinct(q) == \A i, j \in DOMAIN q : q[i] = q[j] => i = j

LEMMA AppendFacts ==
  ASSUME NEW q \in Seq(Seqs), NEW s \in Seqs
  PROVE  /\ Len(Append(q, s)) = Len(q) + 1 /\ Append(q, s)[Len(q) + 1] = s
         /\ \A i \in 1 .. Len(q) : Append(q, s)[i] = q[i]
OBVIOUS

LEMMA AppendQueue ==
  ASSUME NEW q \in Seq(Seqs), NEW s \in Seqs, Distinct(q), ~In(q, s)
  PROVE  /\ Append(q, s) \in Seq(Seqs) /\ Distinct(Append(q, s))
         /\ \A x : In(Append(q, s), x) <=> In(q, x) \/ x = s
<1> DEFINE r == Append(q, s)
<1>1. /\ r \in Seq(Seqs) /\ DOMAIN r = 1 .. Len(q) + 1 /\ DOMAIN q = 1 .. Len(q)
      /\ Len(q) \in Nat /\ r[Len(q) + 1] = s /\ \A i \in 1 .. Len(q) : r[i] = q[i]
  OBVIOUS
<1>2. Distinct(r)
  BY <1>1 DEF Distinct, In
<1>3. ASSUME NEW x PROVE In(r, x) <=> In(q, x) \/ x = s
  <2>1. In(r, x) => In(q, x) \/ x = s
    BY <1>1 DEF In
  <2>2. In(q, x) => In(r, x)
    BY <1>1 DEF In
  <2>3. In(r, s)
    BY <1>1 DEF In
  <2> QED
    BY <2>1, <2>2, <2>3
<1> QED
  BY <1>1, <1>2, <1>3

LEMMA TailQueue ==
  ASSUME NEW q \in Seq(Seqs), q # <<>>, Distinct(q)
  PROVE  /\ Tail(q) \in Seq(Seqs) /\ Distinct(Tail(q)) /\ Head(q) \in Seqs
         /\ Len(Tail(q)) = Len(q) - 1 /\ \A i \in 1 .. Len(q) - 1 : Tail(q)[i] = q[i + 1]
         /\ \A x : In(Tail(q), x) <=> In(q, x) /\ x # Head(q)
<1> DEFINE r == Tail(q)
<1>1. /\ r \in Seq(Seqs) /\ DOMAIN r = 1 .. Len(q) - 1 /\ DOMAIN q = 1 .. Len(q)
      /\ Len(q) \in Nat \ {0} /\ Head(q) = q[1] /\ \A i \in 1 .. Len(q) - 1 : r[i] = q[i + 1]
      /\ Len(r) = Len(q) - 1 /\ Head(q) \in Seqs
  OBVIOUS
<1>2. Distinct(r)
  BY <1>1 DEF Distinct
<1>3. ASSUME NEW x PROVE In(r, x) <=> In(q, x) /\ x # Head(q)
  <2>1. ASSUME In(r, x) PROVE In(q, x) /\ x # Head(q)
    <3>1. PICK i \in 1 .. Len(q) - 1 : r[i] = x
      BY <1>1, <2>1 DEF In
    <3>2. q[i + 1] = x /\ i + 1 \in DOMAIN q /\ i + 1 # 1
      BY <1>1, <3>1
    <3> QED
      BY <1>1, <3>2 DEF In, Distinct
  <2>2. ASSUME In(q, x), x # Head(q) PROVE In(r, x)
    <3>1. PICK i \in 1 .. Len(q) : q[i] = x
      BY <1>1, <2>2 DEF In
    <3>2. i # 1 /\ i - 1 \in 1 .. Len(q) - 1 /\ r[i - 1] = q[i]
      BY <1>1, <2>2, <3>1
    <3> QED
      BY <1>1, <3>1, <3>2 DEF In
  <2> QED
    BY <2>1, <2>2
<1> QED
  BY <1>1, <1>2, <1>3

LEMMA ConsQueue ==
  ASSUME NEW q \in Seq(Seqs), NEW s \in Seqs, Distinct(q), ~In(q, s)
  PROVE  /\ <<s>> \o q \in Seq(Seqs) /\ Distinct(<<s>> \o q)
         /\ Len(<<s>> \o q) = Len(q) + 1 /\ (<<s>> \o q)[1] = s
         /\ \A i \in 1 .. Len(q) : (<<s>> \o q)[i + 1] = q[i]
         /\ \A x : In(<<s>> \o q, x) <=> In(q, x) \/ x = s
<1> DEFINE r == <<s>> \o q
<1>1. /\ r \in Seq(Seqs) /\ Len(r) = Len(q) + 1 /\ DOMAIN q = 1 .. Len(q) /\ Len(q) \in Nat
      /\ r[1] = s /\ \A i \in 1 .. Len(q) : r[i + 1] = q[i]
  OBVIOUS
<1>2. DOMAIN r = 1 .. Len(q) + 1
  BY <1>1
<1> HIDE DEF r
<1>3. \A i \in 1 .. Len(q) + 1 : i = 1 \/ (i - 1 \in 1 .. Len(q) /\ r[i] = q[i - 1])
  <2> SUFFICES ASSUME NEW i \in 1 .. Len(q) + 1, i # 1
               PROVE  i - 1 \in 1 .. Len(q) /\ r[i] = q[i - 1]
    OBVIOUS
  <2>1. i - 1 \in 1 .. Len(q) /\ (i - 1) + 1 = i
    BY <1>1
  <2> QED
    BY <1>1, <2>1
<1>4. Distinct(r)
  <2> SUFFICES ASSUME NEW i \in 1 .. Len(q) + 1, NEW j \in 1 .. Len(q) + 1, r[i] = r[j]
               PROVE  i = j
    BY <1>2 DEF Distinct
  <2>1. i # 1 => r[i] # s
    BY <1>1, <1>3 DEF In
  <2>2. j # 1 => r[j] # s
    BY <1>1, <1>3 DEF In
  <2>3. CASE i # 1 /\ j # 1
    <3>1. i - 1 = j - 1
      BY <1>1, <1>3, <2>3 DEF Distinct
    <3> QED
      BY <3>1
  <2> QED
    BY <1>1, <2>1, <2>2, <2>3
<1>5. ASSUME NEW x PROVE In(r, x) <=> In(q, x) \/ x = s
  <2>1. In(r, x) => In(q, x) \/ x = s
    BY <1>1, <1>2, <1>3 DEF In
  <2>2. In(q, x) => In(r, x)
    <3> SUFFICES ASSUME NEW i \in 1 .. Len(q), q[i] = x PROVE In(r, x)
      BY <1>1 DEF In
    <3>1. i + 1 \in 1 .. Len(q) + 1 /\ r[i + 1] = x
      BY <1>1
    <3> QED
      BY <1>2, <3>1 DEF In
  <2>3. In(r, s)
    <3>1. 1 \in 1 .. Len(q) + 1
      BY <1>1
    <3> QED
      BY <1>1, <1>2, <3>1 DEF In
  <2> QED
    BY <2>1, <2>2, <2>3
<1> QED
  BY <1>1, <1>4, <1>5 DEF r

LEMMA RotateQueue ==
  ASSUME NEW q \in Seq(Seqs), q # <<>>, Distinct(q), NEW r, r = Append(Tail(q), Head(q))
  PROVE  /\ r \in Seq(Seqs) /\ Distinct(r) /\ Len(r) = Len(q) /\ r[Len(q)] = Head(q)
         /\ \A i \in 1 .. Len(q) - 1 : r[i] = q[i + 1]
         /\ \A x : In(r, x) <=> In(q, x)
<1>1. /\ Tail(q) \in Seq(Seqs) /\ Distinct(Tail(q)) /\ Head(q) \in Seqs
      /\ Len(Tail(q)) = Len(q) - 1 /\ \A i \in 1 .. Len(q) - 1 : Tail(q)[i] = q[i + 1]
      /\ \A x : In(Tail(q), x) <=> In(q, x) /\ x # Head(q)
  BY TailQueue
<1>2. /\ r \in Seq(Seqs) /\ Distinct(r)
      /\ \A x : In(r, x) <=> In(Tail(q), x) \/ x = Head(q)
  BY <1>1, AppendQueue
<1>3. In(q, Head(q)) /\ Len(q) \in Nat \ {0}
  <2>1. 1 \in DOMAIN q /\ q[1] = Head(q) /\ Len(q) \in Nat \ {0}
    OBVIOUS
  <2> QED
    BY <2>1 DEF In
<1>4. /\ Len(r) = Len(q) /\ r[Len(q)] = Head(q)
      /\ \A i \in 1 .. Len(q) - 1 : r[i] = Tail(q)[i]
  <2> DEFINE u == Tail(q)
             h == Head(q)
  <2>1. u \in Seq(Seqs) /\ h \in Seqs /\ Len(u) = Len(q) - 1 /\ r = Append(u, h)
    BY <1>1
  <2> HIDE DEF u, h
  <2>2. Len(r) = Len(u) + 1 /\ r[Len(u) + 1] = h /\ \A i \in 1 .. Len(u) : r[i] = u[i]
    BY <2>1, AppendFacts
  <2>3. Len(u) + 1 = Len(q) /\ 1 .. Len(u) = 1 .. Len(q) - 1
    BY <1>3, <2>1
  <2> QED
    BY <2>2, <2>3 DEF u, h
<1> QED
  BY <1>1, <1>2, <1>3, <1>4

\* What std::remove leaves: all the others.
LEMMA RemoveQueue ==
  ASSUME running \in Seq(Seqs), Distinct(running), NEW s, In(running, s)
  PROVE  /\ running_without(s) \in Seq(Seqs) /\ Distinct(running_without(s))
         /\ \A x : In(running_without(s), x) <=> In(running, x) /\ x # s
<1> DEFINE n == Len(running)
           kept == {i \in DOMAIN running : running[i] # s}
           place(i) == Cardinality({j \in kept : j <= i})
           c(k) == CHOOSE i \in kept : place(i) = k
           r == running_without(s)
<1>1. n \in Nat /\ DOMAIN running = 1 .. n /\ \A i \in 1 .. n : running[i] \in Seqs
  OBVIOUS
<1>2. PICK m \in 1 .. n : running[m] = s
  BY <1>1 DEF In
<1>3. kept = (1 .. n) \ {m}
  BY <1>1, <1>2 DEF Distinct
<1>4. Cardinality(kept) = n - 1
  <2>1. IsFiniteSet(1 .. n) /\ Cardinality(1 .. n) = n
    BY <1>1, <1>2, FS_Interval
  <2> QED
    BY <1>1, <1>2, <1>3, <2>1, FS_RemoveElement
<1> HIDE DEF kept
<1>5. ASSUME NEW i \in kept PROVE place(i) = IF i < m THEN i ELSE i - 1
  <2>1. i \in 1 .. n /\ i # m
    BY <1>3
  <2>2. IsFiniteSet(1 .. i) /\ Cardinality(1 .. i) = i
    BY <1>1, <2>1, FS_Interval
  <2>3. CASE i < m
    <3>1. {j \in kept : j <= i} = 1 .. i
      BY <1>1, <1>2, <1>3, <2>1, <2>3
    <3> QED
      BY <2>2, <2>3, <3>1
  <2>4. CASE i > m
    <3>1. {j \in kept : j <= i} = (1 .. i) \ {m} /\ m \in 1 .. i
      BY <1>1, <1>2, <1>3, <2>1, <2>4
    <3>2. Cardinality((1 .. i) \ {m}) = i - 1
      BY <2>2, <3>1, FS_RemoveElement
    <3>3. place(i) = i - 1
      BY <3>1, <3>2
    <3>4. ~(i < m)
      BY <1>1, <1>2, <2>1, <2>4
    <3> QED
      BY <3>3, <3>4
  <2> QED
    BY <1>1, <1>2, <2>1, <2>3, <2>4
<1> HIDE DEF place
<1>6. ASSUME NEW k \in 1 .. n - 1
      PROVE  c(k) = IF k < m THEN k ELSE k + 1
  <2> DEFINE a == IF k < m THEN k ELSE k + 1
  <2>1. a \in kept /\ (a < m <=> k < m)
    BY <1>1, <1>2, <1>3
  <2>2. place(a) = IF a < m THEN a ELSE a - 1
    BY <1>5, <2>1
  <2>3. c(k) \in kept /\ place(c(k)) = k
    <3>1. place(a) = k
      BY <1>1, <1>2, <2>1, <2>2
    <3> QED
      BY <2>1, <3>1
  <2> HIDE DEF c
  <2>4. c(k) \in 1 .. n /\ c(k) # m /\ k = IF c(k) < m THEN c(k) ELSE c(k) - 1
    BY <1>3, <1>5, <2>3
  <2> QED
    BY <1>1, <1>2, <2>4
<1>7. r = [k \in 1 .. n - 1 |-> running[c(k)]]
  BY <1>4 DEF running_without, kept, place
<1> HIDE DEF r, c
<1>8. \A k \in 1 .. n - 1 : c(k) \in 1 .. n /\ c(k) # m
  BY <1>1, <1>2, <1>6
<1>9. r \in Seq(Seqs) /\ DOMAIN r = 1 .. n - 1
  <2>1. r \in [1 .. n - 1 -> Seqs]
    BY <1>1, <1>7, <1>8
  <2>2. n - 1 \in Nat
    BY <1>1, <1>2
  <2> QED
    BY <2>1, <2>2, FunctionSeq
<1>10. Distinct(r)
  <2> SUFFICES ASSUME NEW i \in 1 .. n - 1, NEW j \in 1 .. n - 1, r[i] = r[j] PROVE i = j
    BY <1>9 DEF Distinct
  <2>1. running[c(i)] = running[c(j)]
    BY <1>7
  <2>2. c(i) = c(j)
    BY <1>1, <1>8, <2>1 DEF Distinct
  <2> QED
    BY <1>1, <1>2, <1>6, <2>2
<1>11. ASSUME NEW x PROVE In(r, x) <=> In(running, x) /\ x # s
  <2>1. ASSUME In(r, x) PROVE In(running, x) /\ x # s
    <3>1. PICK k \in 1 .. n - 1 : running[c(k)] = x
      BY <1>7, <1>9, <2>1 DEF In
    <3> QED
      BY <1>1, <1>2, <1>8, <3>1 DEF In, Distinct
  <2>2. ASSUME In(running, x), x # s PROVE In(r, x)
    <3>1. PICK i \in 1 .. n : running[i] = x
      BY <1>1, <2>2 DEF In
    <3> DEFINE k == IF i < m THEN i ELSE i - 1
    <3>2. i # m /\ k \in 1 .. n - 1 /\ (k < m <=> i < m)
      BY <1>1, <1>2, <2>2, <3>1
    <3>3. c(k) = i
      BY <1>1, <1>2, <1>6, <3>2
    <3> QED
      BY <1>7, <1>9, <3>1, <3>2, <3>3 DEF In
  <2> QED
    BY <2>1, <2>2
<1> QED
  BY <1>9, <1>10, <1>11 DEF r

-----------------------------------------------------------------------------
(* The invariant of the queues, the tables and the plan *)

StepPcs == {"prefill", "decode", "run", "commit", "emit", "release", "collect"}

QueueTypes ==
  /\ waiting \in Seq(Seqs) /\ running \in Seq(Seqs)
  /\ status \in [Seqs -> {"none", "waiting", "running", "finished"}]
  /\ request \in [Seqs -> Requests \cup {NoRequest}]
  /\ plan \in Seq([seq : Seqs, start : Nat, count : Nat])
  /\ pc \in StepPcs \cup {"idle", "error"}
  /\ batched_tokens \in 0 .. MaxNumBatchedTokens
  /\ candidates \in Nat /\ index \in Nat

\* The queues hold what the statuses say.
Queued ==
  /\ Distinct(waiting) /\ Distinct(running)
  /\ \A s \in Seqs : /\ status[s] = "waiting" <=> In(waiting, s)
                     /\ status[s] = "running" <=> In(running, s)

\* Who has a table, and how long the table of a prompt is.
Tables ==
  /\ \A s \in Seqs :
       /\ status[s] = "none" <=> token_ids[s] = <<>>
       /\ status[s] = "none" => block_table[s] = <<>>
       /\ status[s] = "running" => block_table[s] # <<>>
       /\ status[s] = "waiting" /\ block_table[s] # <<>> => Len(block_table[s]) = num_blocks(s)
  /\ OnlyFrontWaitingHoldsBlocks

\* Nobody unfinished has reached its limit.
Lengths ==
  \A s \in Seqs : status[s] \in {"waiting", "running"} =>
    /\ request[s] \in Requests /\ accepts(request[s])
    /\ prompt_size(s) <= size(s) /\ completion_size(s) < request[s].max_tokens

\* A running sequence has a token to compute, but for the moment between the
\* accounting of its last one and the append of the next.
Behind ==
  pc # "error" =>
    \A s \in Seqs : status[s] = "running" /\ ~(pc = "emit" /\ s = current) =>
      num_cached_tokens[s] < size(s)

\* The entries of the plan that postprocess has still to account for.
pending ==
  IF pc \in {"prefill", "decode", "run"} THEN DOMAIN plan
  ELSE IF pc = "commit" THEN index .. Len(plan)
  ELSE IF pc \in {"emit", "release"} THEN index + 1 .. Len(plan)
  ELSE {}

\* s has a share in the batch; a prompt that stays in waiting_ is left unfinished.
Due(s) ==
  /\ num_scheduled_tokens[s] > 0 /\ block_table[s] # <<>>
  /\ \/ status[s] = "running"
     \/ /\ status[s] = "waiting" /\ is_prefill /\ pc \notin {"prefill", "decode"}
        /\ num_cached_tokens[s] + num_scheduled_tokens[s] < size(s)

PlanInv ==
  /\ \A i, j \in DOMAIN plan : plan[i].seq = plan[j].seq => i = j
  /\ \A i \in pending : Due(plan[i].seq)
  /\ pc = "idle" => plan = <<>>
  /\ pc \in {"idle", "prefill"} /\ plan = <<>> => batched_tokens = 0
  /\ pc \in {"run", "commit", "emit", "release", "collect"} => plan # <<>>
  /\ pc \in {"commit", "emit", "release"} =>
       index \in 1 .. Len(plan) /\ sampled \in [DOMAIN plan -> Token \cup {NoSample}]

\* Where the decode loop stands: behind the candidates come those it has planned.
DecodeInv ==
  pc = "decode" =>
    /\ candidates <= Len(running)
    /\ \A i \in DOMAIN plan :
         \E k \in candidates + 1 .. Len(running) : running[k] = plan[i].seq
    /\ \A i \in DOMAIN waiting : block_table[waiting[i]] = <<>>

\* The sequence whose sample is being appended, or that has just finished.
CurrentInv ==
  /\ pc = "emit" => status[current] = "running" /\ num_scheduled_tokens[current] = 0
  /\ pc = "release" => status[current] = "finished" /\ block_table[current] # <<>>

QueueInv ==
  /\ QueueTypes /\ Queued /\ Tables /\ Lengths /\ Behind /\ PlanInv /\ DecodeInv /\ CurrentInv

-----------------------------------------------------------------------------
(* What the lengths and tables derive from *)

LEMMA SameText ==
  ASSUME UNCHANGED token_ids
  PROVE  \A s \in Seqs : UNCHANGED <<size(s), num_blocks(s), last_block(s)>>
BY DEF size, num_blocks, last_block

LEMMA SameAsked ==
  ASSUME UNCHANGED <<token_ids, request>>
  PROVE  \A s \in Seqs : UNCHANGED <<prompt_size(s), completion_size(s)>>
BY SameText DEF prompt_size, completion_size

\* The parts that do not mention the plan, from those of their variables.
LEMMA QueuesKept ==
  ASSUME Queued, Tables, Lengths, UNCHANGED <<request, queueVars, blockManagerVars>>
  PROVE  Queued' /\ Tables' /\ Lengths'
<1>1. UNCHANGED <<status, waiting, running, request, token_ids, block_table>>
  BY DEF queueVars, blockManagerVars, seqVars
<1>2. Queued'
  BY <1>1 DEF Queued, Distinct, In
<1>3. Tables'
  BY <1>1, SameText DEF Tables, OnlyFrontWaitingHoldsBlocks
<1>4. Lengths'
  BY <1>1, SameText, SameAsked DEF Lengths, accepts
<1> QED
  BY <1>2, <1>3, <1>4

LEMMA PendingInPlan ==
  ASSUME QueueTypes, PlanInv
  PROVE  /\ \A i \in DOMAIN plan :
              plan[i].seq \in Seqs /\ plan[i].start \in Nat /\ plan[i].count \in Nat
         /\ pending \subseteq DOMAIN plan
         /\ DOMAIN plan = 1 .. Len(plan) /\ Len(plan) \in Nat
         /\ \A i \in pending : i \in DOMAIN plan /\ plan[i].seq \in Seqs
<1> DEFINE Entry == [seq : Seqs, start : Nat, count : Nat]
<1>1. plan \in Seq(Entry)
  BY DEF QueueTypes
<1> HIDE DEF Entry
<1>2. /\ DOMAIN plan = 1 .. Len(plan) /\ Len(plan) \in Nat
      /\ \A i \in 1 .. Len(plan) : plan[i] \in Entry
  BY <1>1
<1>3. pc \in {"commit", "emit", "release"} => index \in 1 .. Len(plan)
  BY DEF PlanInv
<1>4. pending \subseteq 1 .. Len(plan)
  BY <1>2, <1>3 DEF pending
<1>5. \A i \in 1 .. Len(plan) :
        plan[i].seq \in Seqs /\ plan[i].start \in Nat /\ plan[i].count \in Nat
  BY <1>2 DEF Entry
<1> QED
  BY <1>2, <1>4, <1>5

LEMMA DueSeqs ==
  ASSUME \A i \in pending' : \E x \in Seqs : x = plan'[i].seq /\ Due(x)'
  PROVE  (\A i \in pending : Due(plan[i].seq))'
<1> SUFFICES ASSUME NEW i \in pending', NEW x \in Seqs, x = plan'[i].seq, Due(x)'
             PROVE  Due(plan[i].seq)'
  OBVIOUS
<1> QED
  BY DEF Due, size

LEMMA ErrorQueue ==
  ASSUME QueueInv, InternalError
  PROVE  QueueInv'
<1>1. pc' = "error" /\ UNCHANGED <<request, status, waiting, running, plan, is_prefill,
        batched_tokens, candidates, index, sampled, token_ids, block_table,
        num_cached_tokens, num_scheduled_tokens>>
  BY DEF InternalError, queueVars, callVars, blockManagerVars, seqVars
<1>2. Queued' /\ Tables' /\ Lengths'
  BY QueuesKept DEF InternalError, QueueInv
<1>3. QueueTypes'
  BY <1>1 DEF QueueInv, QueueTypes
<1>4. Behind' /\ DecodeInv' /\ CurrentInv'
  BY <1>1 DEF Behind, DecodeInv, CurrentInv
<1>5. PlanInv'
  BY <1>1 DEF QueueInv, PlanInv, pending, QueueTypes
<1> QED
  BY <1>2, <1>3, <1>4, <1>5 DEF QueueInv

LEMMA ReturnQueue ==
  ASSUME QueueInv, NEW st, Return(st), pc # "error", pc # "emit",
         UNCHANGED <<request, queueVars, blockManagerVars>>
  PROVE  QueueInv'
<1>1. /\ pc' = "idle" /\ plan' = <<>> /\ is_prefill' = FALSE /\ batched_tokens' = 0
      /\ candidates' = 0 /\ index' = 0
      /\ UNCHANGED <<request, status, waiting, running, token_ids, block_table,
                     num_cached_tokens, num_scheduled_tokens>>
  BY DEF Return, ClearCall, queueVars, blockManagerVars, seqVars
<1>2. Queued' /\ Tables' /\ Lengths'
  BY QueuesKept DEF QueueInv
<1>3. QueueTypes'
  BY <1>1, BatchAssumption DEF QueueInv, QueueTypes
<1>4. Behind'
  BY <1>1, SameText DEF Behind, QueueInv
<1>5. DecodeInv' /\ CurrentInv'
  BY <1>1 DEF DecodeInv, CurrentInv
<1>6. PlanInv'
  BY <1>1 DEF PlanInv, pending
<1> QED
  BY <1>2, <1>3, <1>4, <1>5, <1>6 DEF QueueInv

-----------------------------------------------------------------------------
(* add_request, and the beginning of a step *)

LEMMA AddRequestQueue ==
  ASSUME TypeOK, QueueInv, NEW s \in Seqs, NEW r \in Requests, AddRequest(s, r)
  PROVE  BlockManagerNext /\ QueueInv'
<1>1. /\ pc = "idle" /\ pc' = "idle" /\ accepts(r)
      /\ token_ids[s] = <<>> /\ token_ids' = [token_ids EXCEPT ![s] = r.prompt]
      /\ request' = [request EXCEPT ![s] = r]
      /\ status' = [status EXCEPT ![s] = "waiting"]
      /\ waiting' = Append(waiting, s)
      /\ UNCHANGED <<running, plan, is_prefill, batched_tokens, candidates, index,
                     block_table, num_cached_tokens, num_scheduled_tokens>>
  BY DEF AddRequest, Create, callVars
<1>2. QueueTypes /\ Queued /\ Tables /\ Lengths
  BY DEF QueueInv
<1>3. plan = <<>> /\ status[s] = "none" /\ block_table[s] = <<>>
  BY <1>1, <1>2 DEF QueueInv, PlanInv, Tables
<1>4. /\ r.prompt \in Prompts /\ r.prompt \in Seq(Token) /\ r.prompt # <<>>
      /\ r.max_tokens \in Nat \ {0}
  BY RequestAssumption, PromptAssumption
<1>5. /\ status' \in [Seqs -> {"none", "waiting", "running", "finished"}]
      /\ status'[s] = "waiting" /\ \A x \in Seqs \ {s} : status'[x] = status[x]
      /\ token_ids'[s] = r.prompt /\ \A x \in Seqs \ {s} : token_ids'[x] = token_ids[x]
      /\ request' \in [Seqs -> Requests \cup {NoRequest}]
      /\ request'[s] = r /\ \A x \in Seqs \ {s} : request'[x] = request[x]
  BY <1>1, <1>2 DEF QueueTypes, TypeOK
<1>6. /\ waiting' \in Seq(Seqs) /\ Distinct(waiting')
      /\ \A x : In(waiting', x) <=> In(waiting, x) \/ x = s
      /\ Len(waiting') = Len(waiting) + 1 /\ waiting'[Len(waiting) + 1] = s
      /\ \A i \in 1 .. Len(waiting) : waiting'[i] = waiting[i]
  <2>1. waiting \in Seq(Seqs) /\ Distinct(waiting) /\ ~ In(waiting, s)
    BY <1>2, <1>3 DEF QueueTypes, Queued
  <2> QED
    BY <1>1, <2>1, AppendQueue, AppendFacts
<1>7. \A x \in Seqs \ {s} :
        UNCHANGED <<size(x), num_blocks(x), prompt_size(x), completion_size(x)>>
  BY <1>5 DEF size, num_blocks, prompt_size, completion_size
<1>8. size(s)' = Len(r.prompt) /\ prompt_size(s)' = Len(r.prompt)
  BY <1>5 DEF size, prompt_size
<1>9. completion_size(s)' = 0
  BY <1>4, <1>8 DEF completion_size
<1>10. BlockManagerNext
  BY <1>4 DEF BlockManagerNext, AddRequest
<1>11. QueueTypes'
  BY <1>1, <1>2, <1>5, <1>6 DEF QueueTypes
<1>12. Queued'
  <2>1. (Distinct(waiting) /\ Distinct(running))'
    BY <1>1, <1>2, <1>6 DEF Queued
  <2>2. ASSUME NEW x \in Seqs
        PROVE  (status'[x] = "waiting" <=> In(waiting', x))
               /\ (status'[x] = "running" <=> In(running, x))
    BY <1>2, <1>3, <1>5, <1>6 DEF Queued
  <2> QED
    BY <1>1, <2>1, <2>2 DEF Queued
<1>13. Tables'
  <2>1. ASSUME NEW x \in Seqs
        PROVE  /\ status'[x] = "none" <=> token_ids'[x] = <<>>
               /\ status'[x] = "none" => block_table[x] = <<>>
               /\ status'[x] = "running" => block_table[x] # <<>>
               /\ status'[x] = "waiting" /\ block_table[x] # <<>>
                    => Len(block_table[x]) = num_blocks(x)'
    BY <1>2, <1>3, <1>4, <1>5, <1>7 DEF Tables
  <2>2. OnlyFrontWaitingHoldsBlocks'
    <3>1. \A i \in DOMAIN waiting' : i > 1 => block_table[waiting'[i]] = <<>>
      BY <1>2, <1>3, <1>6 DEF Tables, OnlyFrontWaitingHoldsBlocks, QueueTypes
    <3> QED
      BY <1>1, <3>1 DEF OnlyFrontWaitingHoldsBlocks
  <2> QED
    BY <1>1, <2>1, <2>2 DEF Tables
<1>14. Lengths'
  <2> SUFFICES ASSUME NEW x \in Seqs, status'[x] \in {"waiting", "running"}
               PROVE  /\ request'[x] \in Requests /\ accepts(request'[x])
                      /\ prompt_size(x)' <= size(x)'
                      /\ completion_size(x)' < request'[x].max_tokens
    BY DEF Lengths, accepts
  <2>1. CASE x = s
    BY <1>1, <1>4, <1>5, <1>8, <1>9, <2>1
  <2>2. CASE x # s
    BY <1>2, <1>5, <1>7, <2>2 DEF Lengths
  <2> QED
    BY <2>1, <2>2
<1>15. Behind'
  <2>1. \A x \in Seqs : status'[x] = "running" => num_cached_tokens[x] < size(x)'
    BY <1>1, <1>5, <1>7 DEF QueueInv, Behind
  <2> QED
    BY <1>1, <2>1 DEF Behind
<1>16. DecodeInv' /\ CurrentInv'
  BY <1>1 DEF DecodeInv, CurrentInv
<1>17. PlanInv'
  BY <1>1, <1>3 DEF QueueInv, PlanInv, pending
<1> QED
  BY <1>10, <1>11, <1>12, <1>13, <1>14, <1>15, <1>16, <1>17 DEF QueueInv

\* What a step of the loops keeps when it changes no queue and no table.
LEMMA StartStepQueue ==
  ASSUME QueueInv, StartStep
  PROVE  UNCHANGED blockManagerVars /\ QueueInv'
<1>1. /\ pc = "idle" /\ pc' = "prefill"
      /\ UNCHANGED <<request, status, waiting, running, plan, is_prefill,
           batched_tokens, candidates, index, token_ids, block_table,
           num_cached_tokens, num_scheduled_tokens>>
  BY DEF StartStep, queueVars, callVars, blockManagerVars, seqVars
<1>2. Queued' /\ Tables' /\ Lengths'
  BY QueuesKept DEF StartStep, QueueInv
<1>3. QueueTypes'
  BY <1>1 DEF QueueInv, QueueTypes, StepPcs
<1>4. Behind'
  BY <1>1, SameText DEF Behind, QueueInv
<1>5. DecodeInv' /\ CurrentInv'
  BY <1>1 DEF DecodeInv, CurrentInv
<1>6. PlanInv'
  BY <1>1 DEF QueueInv, PlanInv, pending
<1> QED
  BY <1>2, <1>3, <1>4, <1>5, <1>6 DEF QueueInv, StartStep

LEMMA StutterQueue ==
  ASSUME QueueInv, UNCHANGED engineVars
  PROVE  UNCHANGED blockManagerVars /\ QueueInv'
<1>1. UNCHANGED <<request, status, waiting, running, pc, plan, is_prefill,
        batched_tokens, candidates, index, sampled, token_ids, block_table,
        num_cached_tokens, num_scheduled_tokens>>
  BY DEF engineVars, schedulerVars, queueVars, callVars, blockManagerVars, seqVars
<1>2. UNCHANGED blockManagerVars
  BY DEF engineVars
<1>3. Queued' /\ Tables' /\ Lengths'
  BY <1>1, <1>2, QueuesKept DEF QueueInv, queueVars
<1>4. QueueTypes'
  BY <1>1 DEF QueueInv, QueueTypes
<1>5. Behind' /\ CurrentInv'
  BY <1>1, SameText DEF Behind, QueueInv, CurrentInv, current
<1>6. DecodeInv'
  BY <1>1 DEF DecodeInv, QueueInv
<1>7. PlanInv'
  <2>1. pending' = pending
    BY <1>1 DEF pending
  <2>2. \A s \in Seqs : Due(s)' <=> Due(s)
    BY <1>1, SameText DEF Due
  <2>3. \A i \in pending : plan[i].seq \in Seqs
    BY PendingInPlan DEF QueueInv
  <2> QED
    BY <1>1, <2>1, <2>2, <2>3 DEF QueueInv, PlanInv
<1> QED
  BY <1>2, <1>3, <1>4, <1>5, <1>6, <1>7 DEF QueueInv

-----------------------------------------------------------------------------
(* schedule(): prefill *)

\* While the plan is being built its entries are running sequences.
LEMMA PlannedRunning ==
  ASSUME QueueInv, pc \in {"prefill", "decode"}
  PROVE  /\ pending = DOMAIN plan
         /\ \A i \in DOMAIN plan : /\ plan[i].seq \in Seqs
                                   /\ status[plan[i].seq] = "running"
                                   /\ num_scheduled_tokens[plan[i].seq] > 0
                                   /\ block_table[plan[i].seq] # <<>>
<1>1. pending = DOMAIN plan
  BY DEF pending
<1>2. \A i \in DOMAIN plan : Due(plan[i].seq)
  BY <1>1 DEF QueueInv, PlanInv
<1>3. \A i \in DOMAIN plan : plan[i].seq \in Seqs
  BY PendingInPlan DEF QueueInv
<1> QED
  BY <1>1, <1>2, <1>3 DEF Due

LEMMA FrontWaits ==
  ASSUME QueueInv, waiting # <<>>
  PROVE  /\ front \in Seqs /\ status[front] = "waiting" /\ 1 \in DOMAIN waiting
         /\ waiting[1] = front
         /\ \A i \in DOMAIN waiting : i \in Nat \ {0} /\ (i > 1 => waiting[i] # front)
<1>1. waiting \in Seq(Seqs) /\ Distinct(waiting)
  BY DEF QueueInv, QueueTypes, Queued
<1>2. /\ 1 \in DOMAIN waiting /\ waiting[1] = front /\ front \in Seqs
      /\ \A i \in DOMAIN waiting : i \in Nat \ {0}
  BY <1>1 DEF front
<1>3. status[front] = "waiting"
  BY <1>2 DEF QueueInv, Queued, In
<1> QED
  BY <1>1, <1>2, <1>3 DEF Distinct

LEMMA UnfinishedSize ==
  ASSUME TypeOK, QueueInv, NEW s \in Seqs, status[s] \in {"waiting", "running"}
  PROVE  /\ size(s) \in Nat \ {0} /\ size(s) < MaxLen /\ token_ids[s] # <<>>
         /\ token_ids[s] \in Seq(Token)
         /\ num_cached_tokens[s] \in Nat /\ num_scheduled_tokens[s] \in Nat
<1>1. /\ request[s] \in Requests /\ accepts(request[s])
      /\ prompt_size(s) <= size(s) /\ completion_size(s) < request[s].max_tokens
  BY DEF QueueInv, Lengths
<1>2. /\ request[s].prompt \in Seq(Token) /\ request[s].prompt # <<>>
      /\ request[s].max_tokens \in Nat
  BY <1>1, RequestAssumption, PromptAssumption
<1>3. prompt_size(s) \in Nat \ {0}
  BY <1>2 DEF prompt_size
<1>4. size(s) \in Nat /\ token_ids[s] \in Seq(Token)
      /\ num_cached_tokens[s] \in Nat /\ num_scheduled_tokens[s] \in Nat
  BY TypeFacts
<1>5. /\ completion_size(s) = size(s) - prompt_size(s)
      /\ request[s].max_tokens <= MaxModelLen - prompt_size(s) + 1
  BY <1>1 DEF completion_size, accepts, prompt_size
<1>6. size(s) < MaxLen
  BY <1>1, <1>2, <1>3, <1>4, <1>5, LengthAssumption
<1>7. token_ids[s] # <<>>
  BY <1>1, <1>3, <1>4 DEF size
<1> QED
  BY <1>1, <1>3, <1>4, <1>6, <1>7

LEMMA AllocatedTable ==
  ASSUME TypeOK, NEW s \in Seqs, size(s) > 0, allocate(s)
  PROVE  /\ block_table' = [block_table EXCEPT ![s] = block_table'[s]]
         /\ Len(block_table'[s]) = num_blocks(s) /\ block_table'[s] # <<>>
         /\ num_cached_tokens' = [num_cached_tokens EXCEPT ![s] = cached_tokens(s)]
         /\ UNCHANGED <<token_ids, num_scheduled_tokens>>
<1>1. PICK fresh \in fresh_tables(s) :
        block_table' = [block_table EXCEPT ![s] = hits_of(s) \o fresh]
  BY DEF allocate
<1>2. /\ num_blocks(s) \in Nat \ {0} /\ cached_blocks(s) \in 0 .. num_blocks(s) - 1
      /\ hits_of(s) \in Seq(Block) /\ Len(hits_of(s)) = cached_blocks(s)
  BY CachedBlocks
<1>3. num_blocks(s) - cached_blocks(s) \in Nat
  BY <1>2
<1>4. free_without_hits(s) \in SUBSET Block
  BY DEF free_without_hits, TypeOK
<1>5. fresh \in Seq(Block) /\ Len(fresh) = num_blocks(s) - cached_blocks(s)
  BY <1>3, <1>4, LowestTables DEF fresh_tables
<1>6. block_table'[s] = hits_of(s) \o fresh
  BY <1>1 DEF TypeOK
<1>7. Len(hits_of(s) \o fresh) = num_blocks(s) /\ hits_of(s) \o fresh # <<>>
  BY <1>2, <1>5
<1> QED
  BY <1>1, <1>6, <1>7 DEF allocate

LEMMA PrefillAllocateQueue ==
  ASSUME TypeOK, QueueInv, PrefillAllocate
  PROVE  [BlockManagerNext]_blockManagerVars /\ QueueInv'
<1> DEFINE s == front
<1>1. waiting # <<>> /\ pc = "prefill" /\ block_table[s] = <<>> /\ can_allocate(s)
  BY DEF PrefillAllocate, InPrefillLoop
<1>2. /\ s \in Seqs /\ status[s] = "waiting" /\ 1 \in DOMAIN waiting /\ waiting[1] = s
      /\ \A i \in DOMAIN waiting : i \in Nat \ {0} /\ (i > 1 => waiting[i] # s)
  BY <1>1, FrontWaits
<1>3. CASE allocate_fails(s)
  BY <1>3, ErrorQueue DEF PrefillAllocate, InternalError
<1>4. CASE ~ allocate_fails(s)
  <2>1. /\ allocate(s)
        /\ UNCHANGED <<request, status, waiting, running, pc, plan, is_prefill,
             batched_tokens, candidates, index>>
    BY <1>4 DEF PrefillAllocate, queueVars, callVars
  <2> HIDE DEF s
  <2>2. size(s) \in Nat \ {0} /\ token_ids[s] # <<>>
    BY <1>2, UnfinishedSize
  <2>3. BlockManagerNext
    BY <1>1, <1>2, <1>4, <2>1, <2>2 DEF BlockManagerNext, Allocate
  <2>4. /\ block_table' = [block_table EXCEPT ![s] = block_table'[s]]
        /\ Len(block_table'[s]) = num_blocks(s) /\ block_table'[s] # <<>>
        /\ num_cached_tokens' = [num_cached_tokens EXCEPT ![s] = cached_tokens(s)]
        /\ UNCHANGED <<token_ids, num_scheduled_tokens>>
    BY <1>2, <2>1, <2>2, AllocatedTable
  <2>5. \A x \in Seqs \ {s} : /\ block_table'[x] = block_table[x]
                              /\ num_cached_tokens'[x] = num_cached_tokens[x]
    BY <2>4 DEF TypeOK
  <2>6. QueueTypes'
    BY <2>1 DEF QueueInv, QueueTypes
  <2>7. Queued'
    BY <2>1 DEF QueueInv, Queued, Distinct, In
  <2>8. Tables'
    <3>1. OnlyFrontWaitingHoldsBlocks'
      <4>1. \A i \in DOMAIN waiting : i > 1 => block_table'[waiting[i]] = <<>>
        BY <1>2, <2>5 DEF QueueInv, Tables, OnlyFrontWaitingHoldsBlocks, QueueTypes
      <4> QED
        BY <2>1, <4>1 DEF OnlyFrontWaitingHoldsBlocks
    <3>2. \A x \in Seqs :
            /\ status[x] = "none" <=> token_ids[x] = <<>>
            /\ status[x] = "none" => block_table'[x] = <<>>
            /\ status[x] = "running" => block_table'[x] # <<>>
            /\ status[x] = "waiting" /\ block_table'[x] # <<>>
                 => Len(block_table'[x]) = num_blocks(x)
      BY <1>2, <2>4, <2>5 DEF QueueInv, Tables
    <3> QED
      BY <2>1, <2>4, <3>1, <3>2, SameText DEF Tables
  <2>9. Lengths'
    BY <2>1, <2>4, SameText, SameAsked DEF QueueInv, Lengths, accepts
  <2>10. Behind'
    BY <1>1, <1>2, <2>1, <2>4, <2>5, SameText DEF QueueInv, Behind
  <2>11. PlanInv'
    <3>1. pending' = pending /\ pending = DOMAIN plan
      BY <1>1, <2>1 DEF pending
    <3>2. \A i \in DOMAIN plan : Due(plan[i].seq)'
      BY <1>1, <1>2, <2>1, <2>4, <2>5, PlannedRunning DEF Due
    <3> QED
      BY <1>1, <2>1, <3>1, <3>2 DEF QueueInv, PlanInv
  <2>12. DecodeInv' /\ CurrentInv'
    BY <1>1, <2>1 DEF DecodeInv, CurrentInv
  <2> QED
    BY <2>3, <2>6, <2>7, <2>8, <2>9, <2>10, <2>11, <2>12 DEF QueueInv
<1> QED
  BY <1>3, <1>4

LEMMA AppendPlan ==
  ASSUME NEW q \in Seq([seq : Seqs, start : Nat, count : Nat]),
         NEW s \in Seqs, NEW a \in Nat, NEW n \in Nat,
         NEW r, r = Append(q, [seq |-> s, start |-> a, count |-> n])
  PROVE  /\ Len(r) = Len(q) + 1 /\ Len(q) \in Nat /\ r # <<>>
         /\ DOMAIN r = 1 .. Len(q) + 1 /\ DOMAIN q = 1 .. Len(q)
         /\ r[Len(q) + 1].seq = s
         /\ \A i \in 1 .. Len(q) : r[i] = q[i]
         /\ r \in Seq([seq : Seqs, start : Nat, count : Nat])
<1> DEFINE Entry == [seq : Seqs, start : Nat, count : Nat]
           e == [seq |-> s, start |-> a, count |-> n]
<1>1. e \in Entry /\ e.seq = s
  OBVIOUS
<1>2. q \in Seq(Entry) /\ r = Append(q, e)
  OBVIOUS
<1> SUFFICES /\ Len(r) = Len(q) + 1 /\ Len(q) \in Nat /\ r # <<>>
             /\ DOMAIN r = 1 .. Len(q) + 1 /\ DOMAIN q = 1 .. Len(q)
             /\ r[Len(q) + 1] = e
             /\ \A i \in 1 .. Len(q) : r[i] = q[i]
             /\ r \in Seq(Entry)
  BY <1>1
<1> HIDE DEF Entry, e
<1> QED
  BY <1>1, <1>2

LEMMA AppendDistinct ==
  ASSUME NEW n \in Nat, NEW q, NEW r, NEW s, DOMAIN r = 1 .. n + 1,
         \A i, j \in 1 .. n : q[i].seq = q[j].seq => i = j,
         \A i \in 1 .. n : r[i] = q[i] /\ q[i].seq # s,
         r[n + 1].seq = s
  PROVE  \A i, j \in DOMAIN r : r[i].seq = r[j].seq => i = j
<1>1. \A i \in 1 .. n : r[i].seq = q[i].seq /\ q[i].seq # s
  OBVIOUS
<1>2. \A i \in 1 .. n + 1 : i \in 1 .. n \/ i = n + 1
  OBVIOUS
<1> QED
  BY <1>1, <1>2

LEMMA PrefillScheduleQueue ==
  ASSUME IndInv, QueueInv, PrefillSchedule
  PROVE  [BlockManagerNext]_blockManagerVars /\ QueueInv'
<1> DEFINE s == front
           n == IF remaining_tokens(s) <= available THEN remaining_tokens(s) ELSE available
<1>1. waiting # <<>> /\ pc = "prefill" /\ block_table[s] # <<>>
  BY DEF PrefillSchedule, InPrefillLoop
<1>2. /\ s \in Seqs /\ status[s] = "waiting" /\ 1 \in DOMAIN waiting /\ waiting[1] = s
      /\ \A i \in DOMAIN waiting : i \in Nat \ {0} /\ (i > 1 => waiting[i] # s)
  BY <1>1, FrontWaits
<1>3. CASE remaining_tokens(s) = 0
  BY <1>3, ErrorQueue DEF PrefillSchedule, InternalError
<1>4. CASE remaining_tokens(s) # 0
  <2>1. /\ ~ token_budget_spent(s)
        /\ num_scheduled_tokens' = [num_scheduled_tokens EXCEPT ![s] = n]
        /\ plan' = Append(plan, [seq |-> s, start |-> num_cached_tokens[s], count |-> n])
        /\ is_prefill' = TRUE /\ batched_tokens' = batched_tokens + n
        /\ IF num_cached_tokens[s] + n = size(s)
           THEN /\ waiting' = Tail(waiting) /\ running' = Append(running, s)
                /\ status' = [status EXCEPT ![s] = "running"] /\ pc' = "prefill"
           ELSE /\ pc' = "run" /\ UNCHANGED <<status, waiting, running>>
        /\ UNCHANGED <<request, candidates, index, sampled, token_ids, block_table,
                       num_cached_tokens, poolVars>>
    BY <1>4 DEF PrefillSchedule, queueVars
  <2>2. TypeOK /\ Covered /\ QueueTypes /\ Queued /\ Tables /\ Lengths /\ PlanInv
    BY DEF IndInv, QueueInv
  <2>3. /\ size(s) \in Nat \ {0} /\ size(s) < MaxLen /\ token_ids[s] # <<>>
        /\ num_cached_tokens[s] \in Nat /\ num_scheduled_tokens[s] \in Nat
        /\ num_cached_tokens[s] <= size(s)
    <3>1. /\ size(s) \in Nat \ {0} /\ size(s) < MaxLen /\ token_ids[s] # <<>>
          /\ num_cached_tokens[s] \in Nat /\ num_scheduled_tokens[s] \in Nat
      BY <1>2, <2>2, UnfinishedSize
    <3>2. num_cached_tokens[s] + num_scheduled_tokens[s] <= size(s)
      BY <1>2, <2>2 DEF Covered
    <3> QED
      BY <3>1, <3>2
  <2>4. /\ remaining_tokens(s) = size(s) - num_cached_tokens[s]
        /\ available = MaxNumBatchedTokens - batched_tokens
        /\ available \in Nat \ {0} /\ batched_tokens \in Nat
    BY <2>1, <2>2, BatchAssumption
      DEF remaining_tokens, available, token_budget_spent, QueueTypes
  <2>5. /\ n \in Nat \ {0} /\ n <= size(s) - num_cached_tokens[s]
        /\ n <= MaxNumBatchedTokens - batched_tokens
    BY <1>4, <2>3, <2>4
  <2> HIDE DEF s, n
  <2>6. SetScheduled(s, n) /\ n \in 1 .. MaxLen
    <3>1. n \in 1 .. size(s) - num_cached_tokens[s] /\ n \in 1 .. MaxLen
      BY <2>3, <2>5, LengthAssumption
    <3>2. num_cached_tokens[s] + n <= Len(block_table[s]) * BlockSize
      <4>1. Len(block_table[s]) = last_block(s) /\ size(s) <= last_block(s) * BlockSize
        BY <1>1, <1>2, <2>2, <2>3, SizeFacts DEF Tables
      <4>2. num_cached_tokens[s] + n <= size(s)
        BY <2>3, <2>5
      <4>3. last_block(s) * BlockSize \in Nat
        BY <1>2, <2>2, <2>3, SizeFacts, PoolAssumption
      <4> QED
        BY <2>3, <2>5, <4>1, <4>2, <4>3
    <3> QED
      BY <1>1, <2>1, <3>1, <3>2 DEF SetScheduled
  <2>7. BlockManagerNext
    BY <1>2, <2>6 DEF BlockManagerNext
  <2>8. /\ num_scheduled_tokens'[s] = n
        /\ \A x \in Seqs \ {s} : num_scheduled_tokens'[x] = num_scheduled_tokens[x]
        /\ status' \in [Seqs -> {"none", "waiting", "running", "finished"}]
        /\ \A x \in Seqs \ {s} : status'[x] = status[x]
        /\ status'[s] = IF num_cached_tokens[s] + n = size(s) THEN "running" ELSE "waiting"
    BY <1>2, <2>1, <2>2 DEF TypeOK, QueueTypes
  <2>9. /\ Len(plan') = Len(plan) + 1 /\ Len(plan) \in Nat /\ plan' # <<>>
        /\ DOMAIN plan' = 1 .. Len(plan) + 1 /\ DOMAIN plan = 1 .. Len(plan)
        /\ plan'[Len(plan) + 1].seq = s
        /\ \A i \in 1 .. Len(plan) : plan'[i] = plan[i]
        /\ plan' \in Seq([seq : Seqs, start : Nat, count : Nat])
    BY <1>2, <2>1, <2>2, <2>3, <2>5, AppendPlan DEF QueueTypes
  <2>10. \A i \in 1 .. Len(plan) : /\ plan[i].seq \in Seqs /\ plan[i].seq # s
                                   /\ status[plan[i].seq] = "running"
                                   /\ num_scheduled_tokens[plan[i].seq] > 0
                                   /\ block_table[plan[i].seq] # <<>>
    BY <1>1, <1>2, <2>9, PlannedRunning
  <2>11. /\ waiting \in Seq(Seqs) /\ running \in Seq(Seqs)
         /\ Distinct(waiting) /\ Distinct(running) /\ ~ In(running, s)
         /\ Head(waiting) = s
    BY <1>1, <1>2, <2>2 DEF QueueTypes, Queued, s, front
  <2>12. /\ waiting' \in Seq(Seqs) /\ running' \in Seq(Seqs)
         /\ Distinct(waiting') /\ Distinct(running')
         /\ \A x \in Seqs : /\ status'[x] = "waiting" <=> In(waiting', x)
                            /\ status'[x] = "running" <=> In(running', x)
    <3>1. CASE num_cached_tokens[s] + n = size(s)
      <4>1. waiting' = Tail(waiting) /\ running' = Append(running, s)
        BY <2>1, <3>1
      <4>2. /\ waiting' \in Seq(Seqs) /\ Distinct(waiting')
            /\ \A x : In(waiting', x) <=> In(waiting, x) /\ x # s
        BY <1>1, <2>11, <4>1, TailQueue
      <4>3. /\ running' \in Seq(Seqs) /\ Distinct(running')
            /\ \A x : In(running', x) <=> In(running, x) \/ x = s
        BY <1>2, <2>11, <4>1, AppendQueue
      <4> QED
        BY <1>2, <2>2, <2>8, <3>1, <4>2, <4>3 DEF Queued
    <3>2. CASE num_cached_tokens[s] + n # size(s)
      <4>1. UNCHANGED <<status, waiting, running>>
        BY <2>1, <3>2
      <4>2. Distinct(waiting') /\ Distinct(running')
            /\ \A x : (In(waiting', x) <=> In(waiting, x)) /\ (In(running', x) <=> In(running, x))
        BY <2>11, <4>1
      <4> QED
        BY <2>2, <2>11, <4>1, <4>2 DEF Queued
    <3> QED
      BY <3>1, <3>2
  <2>13. QueueTypes'
    <3>1. batched_tokens' \in 0 .. MaxNumBatchedTokens
      BY <2>1, <2>4, <2>5, BatchAssumption
    <3>2. pc' \in StepPcs
      BY <2>1 DEF StepPcs
    <3>3. candidates' \in Nat /\ index' \in Nat
          /\ request' \in [Seqs -> Requests \cup {NoRequest}]
      BY <2>1, <2>2 DEF QueueTypes
    <3> QED
      BY <2>8, <2>9, <2>12, <3>1, <3>2, <3>3 DEF QueueTypes
  <2>14. Queued'
    BY <2>12 DEF Queued
  <2>15. Tables'
    <3>1. OnlyFrontWaitingHoldsBlocks'
      <4>1. \A i \in DOMAIN waiting' : i > 1 => block_table[waiting'[i]] = <<>>
        <5>1. \A i \in DOMAIN waiting : i > 1 => block_table[waiting[i]] = <<>>
          BY <2>2 DEF Tables, OnlyFrontWaitingHoldsBlocks
        <5>2. CASE num_cached_tokens[s] + n = size(s)
          <6>1. waiting' = Tail(waiting)
            BY <2>1, <5>2
          <6>2. /\ DOMAIN waiting = 1 .. Len(waiting) /\ Len(waiting) \in Nat \ {0}
                /\ DOMAIN waiting' = 1 .. Len(waiting) - 1
                /\ \A i \in 1 .. Len(waiting) - 1 : waiting'[i] = waiting[i + 1]
            BY <1>1, <2>11, <6>1
          <6> QED
            BY <5>1, <6>2
        <5>3. CASE num_cached_tokens[s] + n # size(s)
          BY <2>1, <5>1, <5>3
        <5> QED
          BY <5>2, <5>3
      <4> QED
        BY <2>1, <4>1 DEF OnlyFrontWaitingHoldsBlocks
    <3>2. \A x \in Seqs :
            /\ status'[x] = "none" <=> token_ids[x] = <<>>
            /\ status'[x] = "none" => block_table[x] = <<>>
            /\ status'[x] = "running" => block_table[x] # <<>>
            /\ status'[x] = "waiting" /\ block_table[x] # <<>>
                 => Len(block_table[x]) = num_blocks(x)
      BY <1>1, <1>2, <2>2, <2>3, <2>8 DEF Tables
    <3> QED
      BY <2>1, <3>1, <3>2, SameText DEF Tables
  <2>16. Lengths'
    <3>1. \A x \in Seqs : status'[x] \in {"waiting", "running"} =>
                            status[x] \in {"waiting", "running"}
      BY <1>2, <2>8
    <3> QED
      BY <2>1, <2>2, <3>1, SameText, SameAsked DEF Lengths, accepts
  <2>17. Behind'
    <3>1. num_cached_tokens[s] < size(s)
      BY <1>4, <2>3, <2>4
    <3>2. \A x \in Seqs : status'[x] = "running" => num_cached_tokens[x] < size(x)
      BY <1>1, <1>2, <2>8, <3>1 DEF QueueInv, Behind
    <3> QED
      BY <2>1, <3>2, SameText DEF Behind
  <2>18. PlanInv'
    <3>1. pending' = DOMAIN plan' /\ pc' \in {"prefill", "run"}
      BY <2>1 DEF pending
    <3>2. ASSUME NEW x \in Seqs, x = s PROVE Due(x)'
      <4>1. num_scheduled_tokens'[x] > 0 /\ block_table'[x] # <<>>
        BY <1>1, <2>1, <2>5, <2>8, <3>2
      <4>2. CASE num_cached_tokens[s] + n = size(s)
        BY <2>8, <3>2, <4>1, <4>2 DEF Due
      <4>3. CASE num_cached_tokens[s] + n # size(s)
        <5>1. num_cached_tokens'[x] + num_scheduled_tokens'[x] < size(x)
          BY <2>1, <2>3, <2>5, <2>8, <3>2, <4>3
        <5> QED
          BY <1>2, <2>1, <2>8, <3>2, <4>1, <4>3, <5>1, SameText DEF Due
      <4> QED
        BY <4>2, <4>3
    <3>3. ASSUME NEW i \in 1 .. Len(plan), NEW x \in Seqs, x = plan[i].seq PROVE Due(x)'
      BY <2>1, <2>8, <2>10, <3>3 DEF Due
    <3>4. (\A i \in pending : Due(plan[i].seq))'
      <4>1. \A i \in DOMAIN plan' : \E x \in Seqs : x = plan'[i].seq /\ Due(x)'
        BY <1>2, <2>9, <2>10, <3>2, <3>3
      <4> QED
        BY <3>1, <4>1, DueSeqs
    <3>5. \A i, j \in DOMAIN plan' : plan'[i].seq = plan'[j].seq => i = j
      <4>1. \A i, j \in DOMAIN plan : plan[i].seq = plan[j].seq => i = j
        BY <2>2 DEF PlanInv
      <4>2. /\ Len(plan) \in Nat /\ DOMAIN plan = 1 .. Len(plan)
            /\ DOMAIN plan' = 1 .. Len(plan) + 1 /\ plan'[Len(plan) + 1].seq = s
            /\ \A i \in 1 .. Len(plan) : plan'[i] = plan[i] /\ plan[i].seq # s
        BY <2>9, <2>10
      <4>3. \A i, j \in 1 .. Len(plan) : plan[i].seq = plan[j].seq => i = j
        BY <4>1, <4>2
      <4> QED
        BY <4>2, <4>3, AppendDistinct, SMTT(30)
    <3> QED
      BY <2>1, <2>9, <3>1, <3>4, <3>5 DEF PlanInv
  <2>19. DecodeInv' /\ CurrentInv'
    BY <2>1 DEF DecodeInv, CurrentInv
  <2> QED
    BY <2>7, <2>13, <2>14, <2>15, <2>16, <2>17, <2>18, <2>19 DEF QueueInv
<1> QED
  BY <1>3, <1>4

LEMMA PrefillRejectQueue ==
  ASSUME QueueInv, PrefillReject
  PROVE  UNCHANGED blockManagerVars /\ QueueInv'
BY ReturnQueue DEF PrefillReject, InPrefillLoop

LEMMA PrefillEndQueue ==
  ASSUME QueueInv, PrefillEnd
  PROVE  UNCHANGED blockManagerVars /\ QueueInv'
<1>1. /\ pc = "prefill" /\ UNCHANGED <<request, queueVars, blockManagerVars>>
      /\ UNCHANGED <<status, waiting, running, plan, is_prefill, batched_tokens, index,
           token_ids, block_table, num_cached_tokens, num_scheduled_tokens>>
      /\ \/ plan # <<>> /\ pc' = "run" /\ candidates' = candidates
         \/ plan = <<>> /\ pc' = "decode" /\ candidates' = Len(running)
  BY DEF PrefillEnd, queueVars, blockManagerVars, seqVars
<1>2. Queued' /\ Tables' /\ Lengths'
  BY <1>1, QueuesKept DEF QueueInv
<1>3. QueueTypes'
  BY <1>1 DEF QueueInv, QueueTypes, StepPcs
<1>4. Behind'
  BY <1>1, SameText DEF Behind, QueueInv
<1>5. CurrentInv'
  BY <1>1 DEF CurrentInv
<1>6. PlanInv'
  <2>1. pending' = DOMAIN plan
    BY <1>1 DEF pending
  <2>2. \A i \in DOMAIN plan : Due(plan[i].seq)'
    BY <1>1, PlannedRunning DEF Due
  <2> QED
    BY <1>1, <2>1, <2>2 DEF QueueInv, PlanInv
<1>7. DecodeInv'
  <2>1. CASE plan # <<>>
    BY <1>1, <2>1 DEF DecodeInv
  <2>2. CASE plan = <<>>
    <3>1. DOMAIN plan = {} /\ Len(plan) = 0
      BY <2>2
    <3>2. ASSUME waiting # <<>> PROVE block_table[front] = <<>>
      <4>1. /\ front \in Seqs /\ batched_tokens = 0 /\ available = MaxNumBatchedTokens
        BY <1>1, <2>2, <3>2, FrontWaits, BatchAssumption
          DEF available, QueueInv, PlanInv
      <4>2. ~ token_budget_spent(front)
        BY <2>2, <4>1, BatchAssumption DEF token_budget_spent
      <4> QED
        BY <3>1, <3>2, <4>2, BatchAssumption DEF PrefillEnd
    <3>3. \A i \in DOMAIN waiting : block_table[waiting[i]] = <<>>
      <4>1. waiting \in Seq(Seqs) /\ \A i \in DOMAIN waiting : i > 1 => block_table[waiting[i]] = <<>>
        BY DEF QueueInv, QueueTypes, Tables, OnlyFrontWaitingHoldsBlocks
      <4>2. \A i \in DOMAIN waiting : i = 1 \/ i > 1
        BY <4>1
      <4>3. \A i \in DOMAIN waiting : waiting # <<>> /\ waiting[1] = front
        BY <4>1 DEF front
      <4> QED
        BY <3>2, <4>1, <4>2, <4>3
    <3>4. Len(running) \in Nat
      BY DEF QueueInv, QueueTypes
    <3> QED
      BY <1>1, <2>2, <3>1, <3>3, <3>4 DEF DecodeInv
  <2> QED
    BY <2>1, <2>2
<1> QED
  BY <1>1, <1>2, <1>3, <1>4, <1>5, <1>6, <1>7 DEF QueueInv

-----------------------------------------------------------------------------
(* schedule(): decode *)

LEMMA OldestRuns ==
  ASSUME QueueInv, InDecodeLoop
  PROVE  /\ pc = "decode" /\ candidates \in Nat \ {0} /\ candidates <= Len(running)
         /\ running # <<>> /\ running \in Seq(Seqs) /\ Distinct(running)
         /\ oldest \in Seqs /\ oldest = Head(running) /\ status[oldest] = "running"
         /\ block_table[oldest] # <<>>
         /\ waiting \in Seq(Seqs)
         /\ \A i \in DOMAIN waiting :
              waiting[i] \in Seqs /\ waiting[i] # oldest /\ block_table[waiting[i]] = <<>>
         /\ \A i \in DOMAIN plan : plan[i].seq # oldest
<1>1. /\ pc = "decode" /\ candidates \in Nat \ {0} /\ candidates <= Len(running)
      /\ running \in Seq(Seqs) /\ Distinct(running) /\ waiting \in Seq(Seqs)
  BY DEF InDecodeLoop, QueueInv, QueueTypes, DecodeInv, Queued
<1>2. /\ Len(running) \in Nat \ {0} /\ DOMAIN running = 1 .. Len(running)
      /\ running # <<>> /\ oldest = Head(running) /\ oldest = running[1] /\ oldest \in Seqs
  BY <1>1 DEF oldest
<1>3. status[oldest] = "running"
  BY <1>2 DEF QueueInv, Queued, In
<1>4. block_table[oldest] # <<>>
  BY <1>2, <1>3 DEF QueueInv, Tables
<1>5. \A i \in DOMAIN waiting : waiting[i] \in Seqs /\ status[waiting[i]] = "waiting"
  BY <1>1 DEF QueueInv, Queued, In
<1>6. \A i \in DOMAIN waiting : block_table[waiting[i]] = <<>>
  BY <1>1 DEF QueueInv, DecodeInv
<1>7. ASSUME NEW i \in DOMAIN plan PROVE plan[i].seq # oldest
  <2>1. PICK k \in candidates + 1 .. Len(running) : running[k] = plan[i].seq
    BY <1>1 DEF QueueInv, DecodeInv
  <2>2. k \in DOMAIN running /\ 1 \in DOMAIN running /\ k # 1
    BY <1>1, <1>2
  <2> QED
    BY <1>1, <1>2, <2>1, <2>2 DEF Distinct
<1> QED
  BY <1>1, <1>2, <1>3, <1>4, <1>5, <1>6, <1>7

LEMMA DecodeGrowQueue ==
  ASSUME TypeOK, QueueInv, DecodeGrow
  PROVE  BlockManagerNext /\ QueueInv'
<1> DEFINE s == oldest
<1>1. /\ pc = "decode" /\ s \in Seqs /\ status[s] = "running" /\ block_table[s] # <<>>
      /\ waiting \in Seq(Seqs)
      /\ \A i \in DOMAIN waiting :
           waiting[i] \in Seqs /\ waiting[i] # s /\ block_table[waiting[i]] = <<>>
      /\ \A i \in DOMAIN plan : plan[i].seq # s
  BY OldestRuns DEF DecodeGrow
<1>2. /\ can_append(s) /\ may_append(s) /\ ~ (last_block(s) <= Len(block_table[s]))
      /\ UNCHANGED <<request, status, waiting, running, pc, plan, is_prefill,
           batched_tokens, candidates, index>>
  <2>1. last_block(s) > Len(block_table[s])
    BY DEF DecodeGrow
  <2>2. last_block(s) \in Int /\ Len(block_table[s]) \in Nat
    <3>1. size(s) \in Nat \ {0}
      BY <1>1, UnfinishedSize
    <3> QED
      BY <1>1, <3>1, SizeFacts, TypeFacts
  <2> QED
    BY <2>1, <2>2 DEF DecodeGrow, queueVars, callVars
<1> HIDE DEF s
<1>3. BlockManagerNext
  BY <1>1, <1>2 DEF BlockManagerNext, MayAppend
<1>4. /\ block_table'[s] # <<>> /\ \A x \in Seqs \ {s} : block_table'[x] = block_table[x]
      /\ UNCHANGED <<token_ids, num_cached_tokens, num_scheduled_tokens>>
  <2>1. PICK fresh \in lowest(free_ids, 1) :
          block_table' = [block_table EXCEPT ![s] = @ \o fresh]
    BY <1>2 DEF may_append
  <2>2. fresh \in Seq(Block) /\ block_table[s] \in Seq(Block)
    BY <1>1, LowestTables DEF TypeOK
  <2>3. block_table'[s] = block_table[s] \o fresh
        /\ \A x \in Seqs \ {s} : block_table'[x] = block_table[x]
    BY <1>1, <2>1 DEF TypeOK
  <2>4. block_table[s] \o fresh # <<>>
    BY <1>1, <2>2
  <2> QED
    BY <1>2, <2>3, <2>4 DEF may_append
<1>5. QueueTypes'
  BY <1>2 DEF QueueInv, QueueTypes
<1>6. Queued'
  BY <1>2 DEF QueueInv, Queued, Distinct, In
<1>7. Tables'
  <2>1. \A i \in DOMAIN waiting : block_table'[waiting[i]] = <<>>
    BY <1>1, <1>4
  <2>2. \A x \in Seqs :
          /\ status[x] = "none" <=> token_ids[x] = <<>>
          /\ status[x] = "none" => block_table'[x] = <<>>
          /\ status[x] = "running" => block_table'[x] # <<>>
          /\ status[x] = "waiting" /\ block_table'[x] # <<>>
               => Len(block_table'[x]) = num_blocks(x)
    BY <1>1, <1>4 DEF QueueInv, Tables
  <2> QED
    BY <1>2, <1>4, <2>1, <2>2, SameText DEF Tables, OnlyFrontWaitingHoldsBlocks
<1>8. Lengths'
  BY <1>2, <1>4, SameText, SameAsked DEF QueueInv, Lengths, accepts
<1>9. Behind'
  BY <1>1, <1>2, <1>4, SameText DEF QueueInv, Behind
<1>10. PlanInv'
  <2>1. pending' = pending /\ pending = DOMAIN plan
    BY <1>1, <1>2 DEF pending
  <2>2. \A i \in DOMAIN plan : Due(plan[i].seq)'
    BY <1>1, <1>2, <1>4, PlannedRunning DEF Due
  <2> QED
    BY <1>1, <1>2, <2>1, <2>2 DEF QueueInv, PlanInv
<1>11. DecodeInv'
  <2>1. \A i \in DOMAIN waiting : block_table'[waiting[i]] = <<>>
    BY <1>1, <1>4
  <2> QED
    BY <1>1, <1>2, <2>1 DEF QueueInv, DecodeInv
<1>12. CurrentInv'
  BY <1>1, <1>2 DEF CurrentInv
<1> QED
  BY <1>3, <1>5, <1>6, <1>7, <1>8, <1>9, <1>10, <1>11, <1>12 DEF QueueInv

LEMMA DecodeScheduleQueue ==
  ASSUME IndInv, QueueInv, DecodeSchedule
  PROVE  BlockManagerNext /\ QueueInv'
<1> DEFINE s == oldest
<1>1. /\ pc = "decode" /\ candidates \in Nat \ {0} /\ candidates <= Len(running)
      /\ running # <<>> /\ running \in Seq(Seqs) /\ Distinct(running)
      /\ s \in Seqs /\ s = Head(running) /\ status[s] = "running"
      /\ block_table[s] # <<>>
      /\ \A i \in DOMAIN waiting : waiting[i] # s /\ block_table[waiting[i]] = <<>>
      /\ \A i \in DOMAIN plan : plan[i].seq # s
  BY OldestRuns DEF DecodeSchedule
<1>2. /\ last_block(s) <= Len(block_table[s])
      /\ num_scheduled_tokens' = [num_scheduled_tokens EXCEPT ![s] = 1]
      /\ plan' = Append(plan, [seq |-> s, start |-> size(s) - 1, count |-> 1])
      /\ running' = Append(Tail(running), s)
      /\ candidates' = candidates - 1
      /\ UNCHANGED <<request, status, waiting, pc, is_prefill, batched_tokens, index,
           token_ids, block_table, num_cached_tokens, poolVars>>
  BY DEF DecodeSchedule, rotated
<1> HIDE DEF s
<1>3. TypeOK /\ QueueTypes /\ Queued /\ Tables /\ Lengths /\ PlanInv /\ DecodeInv
  BY DEF IndInv, QueueInv
<1>4. /\ size(s) \in Nat \ {0} /\ size(s) < MaxLen /\ num_cached_tokens[s] \in Nat
      /\ num_cached_tokens[s] < size(s)
  BY <1>1, <1>3, UnfinishedSize DEF QueueInv, Behind
<1>5. SetScheduled(s, 1) /\ 1 \in 1 .. MaxLen
  <2>1. /\ last_block(s) \in Nat /\ size(s) <= last_block(s) * BlockSize
        /\ Len(block_table[s]) \in Nat
    BY <1>1, <1>3, <1>4, SizeFacts, TypeFacts
  <2>2. last_block(s) * BlockSize <= Len(block_table[s]) * BlockSize
    BY <1>2, <2>1, ProductMonotone, PoolAssumption
  <2>3. last_block(s) * BlockSize \in Nat /\ Len(block_table[s]) * BlockSize \in Nat
    BY <2>1, PoolAssumption
  <2>4. num_cached_tokens[s] + 1 <= Len(block_table[s]) * BlockSize
    BY <1>4, <2>1, <2>2, <2>3
  <2>5. 1 \in 1 .. size(s) - num_cached_tokens[s] /\ 1 \in 1 .. MaxLen
    BY <1>4, LengthAssumption
  <2> QED
    BY <1>1, <1>2, <2>4, <2>5 DEF SetScheduled
<1>6. BlockManagerNext
  BY <1>1, <1>5 DEF BlockManagerNext
<1>7. /\ num_scheduled_tokens'[s] = 1
      /\ \A x \in Seqs \ {s} : num_scheduled_tokens'[x] = num_scheduled_tokens[x]
  BY <1>1, <1>2, <1>3 DEF TypeOK
<1>8. /\ Len(plan') = Len(plan) + 1 /\ Len(plan) \in Nat /\ plan' # <<>>
      /\ DOMAIN plan' = 1 .. Len(plan) + 1 /\ DOMAIN plan = 1 .. Len(plan)
      /\ plan'[Len(plan) + 1].seq = s
      /\ \A i \in 1 .. Len(plan) : plan'[i] = plan[i]
      /\ plan' \in Seq([seq : Seqs, start : Nat, count : Nat])
  <2>1. plan \in Seq([seq : Seqs, start : Nat, count : Nat]) /\ size(s) - 1 \in Nat
    BY <1>3, <1>4 DEF QueueTypes
  <2> QED
    BY <1>1, <1>2, <2>1, AppendPlan
<1>9. \A i \in 1 .. Len(plan) : /\ plan[i].seq \in Seqs /\ plan[i].seq # s
                                /\ status[plan[i].seq] = "running"
                                /\ num_scheduled_tokens[plan[i].seq] > 0
                                /\ block_table[plan[i].seq] # <<>>
  BY <1>1, <1>8, PlannedRunning
<1>10. /\ running' \in Seq(Seqs) /\ Distinct(running') /\ Len(running') = Len(running)
       /\ running'[Len(running)] = s
       /\ \A i \in 1 .. Len(running) - 1 : running'[i] = running[i + 1]
       /\ \A x : In(running', x) <=> In(running, x)
  BY <1>1, <1>2, RotateQueue
<1>11. QueueTypes'
  <2>1. candidates' \in Nat
    BY <1>1, <1>2
  <2> QED
    BY <1>2, <1>3, <1>8, <1>10, <2>1 DEF QueueTypes
<1>12. Queued'
  <2>1. \A x \in Seqs : /\ status[x] = "waiting" <=> In(waiting, x)
                        /\ status[x] = "running" <=> In(running', x)
    BY <1>3, <1>10 DEF Queued
  <2> QED
    BY <1>2, <1>3, <1>10, <2>1 DEF Queued
<1>13. Tables' /\ Lengths'
  BY <1>2, <1>3, SameText, SameAsked
    DEF Tables, OnlyFrontWaitingHoldsBlocks, Lengths, accepts
<1>14. Behind'
  BY <1>1, <1>2, SameText DEF QueueInv, Behind
<1>15. PlanInv'
  <2>1. pending' = DOMAIN plan'
    BY <1>1, <1>2 DEF pending
  <2>2. ASSUME NEW x \in Seqs, x = s PROVE Due(x)'
    BY <1>1, <1>2, <1>7, <2>2 DEF Due
  <2>3. ASSUME NEW i \in 1 .. Len(plan), NEW x \in Seqs, x = plan[i].seq PROVE Due(x)'
    BY <1>2, <1>7, <1>9, <2>3 DEF Due
  <2>4. (\A i \in pending : Due(plan[i].seq))'
    <3>1. \A i \in DOMAIN plan' : \E x \in Seqs : x = plan'[i].seq /\ Due(x)'
      BY <1>1, <1>8, <1>9, <2>2, <2>3
    <3> QED
      BY <2>1, <3>1, DueSeqs
  <2>5. \A i, j \in DOMAIN plan' : plan'[i].seq = plan'[j].seq => i = j
    <3>1. /\ Len(plan) \in Nat /\ DOMAIN plan = 1 .. Len(plan)
          /\ DOMAIN plan' = 1 .. Len(plan) + 1 /\ plan'[Len(plan) + 1].seq = s
          /\ \A i \in 1 .. Len(plan) : plan'[i] = plan[i] /\ plan[i].seq # s
      BY <1>8, <1>9
    <3>2. \A i, j \in 1 .. Len(plan) : plan[i].seq = plan[j].seq => i = j
      BY <1>3, <3>1 DEF PlanInv
    <3> QED
      BY <3>1, <3>2, AppendDistinct, SMTT(30)
  <2> QED
    BY <1>1, <1>2, <1>8, <2>1, <2>4, <2>5 DEF PlanInv
<1>16. DecodeInv'
  <2>1. candidates' <= Len(running')
    BY <1>1, <1>2, <1>10
  <2>2. ASSUME NEW i \in DOMAIN plan'
        PROVE  \E k \in candidates' + 1 .. Len(running') : running'[k] = plan'[i].seq
    <3>1. CASE i = Len(plan) + 1
      <4>1. Len(running) \in candidates' + 1 .. Len(running') /\ running'[Len(running)] = s
        BY <1>1, <1>2, <1>10
      <4>2. plan'[i].seq = s
        BY <1>8, <3>1
      <4> QED
        BY <4>1, <4>2
    <3>2. CASE i \in 1 .. Len(plan)
      <4>1. PICK k \in candidates + 1 .. Len(running) : running[k] = plan[i].seq
        BY <1>1, <1>3, <1>8, <3>2 DEF DecodeInv
      <4>2. /\ k - 1 \in candidates' + 1 .. Len(running')
            /\ k - 1 \in 1 .. Len(running) - 1 /\ (k - 1) + 1 = k
        BY <1>1, <1>2, <1>10
      <4>3. running'[k - 1] = plan'[i].seq
        BY <1>8, <1>10, <3>2, <4>1, <4>2
      <4> QED
        BY <4>2, <4>3
    <3> QED
      BY <1>8, <3>1, <3>2
  <2> QED
    BY <1>1, <1>2, <2>1, <2>2 DEF DecodeInv
<1>17. CurrentInv'
  BY <1>1, <1>2 DEF CurrentInv
<1> QED
  BY <1>6, <1>11, <1>12, <1>13, <1>14, <1>15, <1>16, <1>17 DEF QueueInv

\* What deallocate leaves to the others.
LEMMA DeallocatedTable ==
  ASSUME TypeOK, NEW s \in Seqs, deallocate(s)
  PROVE  /\ block_table'[s] = <<>> /\ num_cached_tokens'[s] = 0
         /\ num_scheduled_tokens'[s] = 0
         /\ \A x \in Seqs \ {s} : /\ block_table'[x] = block_table[x]
                                  /\ num_cached_tokens'[x] = num_cached_tokens[x]
                                  /\ num_scheduled_tokens'[x] = num_scheduled_tokens[x]
         /\ UNCHANGED token_ids
<1>1. /\ block_table' = [block_table EXCEPT ![s] = <<>>]
      /\ num_cached_tokens' = [num_cached_tokens EXCEPT ![s] = 0]
      /\ num_scheduled_tokens' = [num_scheduled_tokens EXCEPT ![s] = 0]
      /\ UNCHANGED token_ids
  BY DEF deallocate
<1> QED
  BY <1>1 DEF TypeOK

LEMMA PreemptQueue ==
  ASSUME TypeOK, QueueInv, Preempt
  PROVE  BlockManagerNext /\ QueueInv'
<1> DEFINE s == oldest
<1>1. /\ pc = "decode" /\ candidates \in Nat \ {0} /\ candidates <= Len(running)
      /\ running # <<>> /\ running \in Seq(Seqs) /\ Distinct(running)
      /\ s \in Seqs /\ s = Head(running) /\ status[s] = "running"
      /\ block_table[s] # <<>> /\ waiting \in Seq(Seqs)
      /\ \A i \in DOMAIN waiting : waiting[i] # s /\ waiting[i] \in Seqs
                                   /\ block_table[waiting[i]] = <<>>
      /\ \A i \in DOMAIN plan : plan[i].seq # s
  BY OldestRuns DEF Preempt
<1>2. /\ deallocate(s)
      /\ running' = Tail(running) /\ waiting' = <<s>> \o waiting
      /\ status' = [status EXCEPT ![s] = "waiting"]
      /\ candidates' = candidates - 1
      /\ UNCHANGED <<request, pc, plan, is_prefill, batched_tokens, index>>
  BY DEF Preempt
<1> HIDE DEF s
<1>3. QueueTypes /\ Queued /\ Tables /\ Lengths /\ PlanInv /\ DecodeInv /\ Behind
  BY DEF QueueInv
<1>4. BlockManagerNext
  BY <1>1, <1>2 DEF BlockManagerNext, Deallocate
<1>5. /\ block_table'[s] = <<>> /\ num_cached_tokens'[s] = 0
      /\ num_scheduled_tokens'[s] = 0
      /\ \A x \in Seqs \ {s} : /\ block_table'[x] = block_table[x]
                               /\ num_cached_tokens'[x] = num_cached_tokens[x]
                               /\ num_scheduled_tokens'[x] = num_scheduled_tokens[x]
      /\ UNCHANGED token_ids
  BY <1>1, <1>2, DeallocatedTable
<1>6. /\ status' \in [Seqs -> {"none", "waiting", "running", "finished"}]
      /\ status'[s] = "waiting" /\ \A x \in Seqs \ {s} : status'[x] = status[x]
  BY <1>1, <1>2, <1>3 DEF QueueTypes
<1>7. /\ running' \in Seq(Seqs) /\ Distinct(running') /\ Len(running') = Len(running) - 1
      /\ \A i \in 1 .. Len(running) - 1 : running'[i] = running[i + 1]
      /\ \A x : In(running', x) <=> In(running, x) /\ x # s
  BY <1>1, <1>2, TailQueue
<1>8. /\ waiting' \in Seq(Seqs) /\ Distinct(waiting')
      /\ \A x : In(waiting', x) <=> In(waiting, x) \/ x = s
  <2>1. Distinct(waiting) /\ ~ In(waiting, s)
    BY <1>1, <1>3 DEF Queued, In
  <2> QED
    BY <1>1, <1>2, <2>1, ConsQueue
<1>9. \A i \in DOMAIN waiting' : block_table'[waiting'[i]] = <<>>
  <2> SUFFICES ASSUME NEW i \in DOMAIN waiting' PROVE block_table'[waiting'[i]] = <<>>
    OBVIOUS
  <2>1. In(waiting, waiting'[i]) \/ waiting'[i] = s
    BY <1>8 DEF In
  <2>2. In(waiting, waiting'[i]) =>
          waiting'[i] \in Seqs \ {s} /\ block_table[waiting'[i]] = <<>>
    BY <1>1 DEF In
  <2> QED
    BY <1>5, <2>1, <2>2
<1>10. QueueTypes'
  <2>1. candidates' \in Nat
    BY <1>1, <1>2
  <2> QED
    BY <1>2, <1>3, <1>6, <1>7, <1>8, <2>1 DEF QueueTypes
<1>11. Queued'
  <2>1. \A x \in Seqs : /\ status'[x] = "waiting" <=> In(waiting', x)
                        /\ status'[x] = "running" <=> In(running', x)
    BY <1>1, <1>3, <1>6, <1>7, <1>8 DEF Queued
  <2> QED
    BY <1>7, <1>8, <2>1 DEF Queued
<1>12. Tables'
  <2>1. \A x \in Seqs :
          /\ status'[x] = "none" <=> token_ids[x] = <<>>
          /\ status'[x] = "none" => block_table'[x] = <<>>
          /\ status'[x] = "running" => block_table'[x] # <<>>
          /\ status'[x] = "waiting" /\ block_table'[x] # <<>>
               => Len(block_table'[x]) = num_blocks(x)
    <3> SUFFICES ASSUME NEW x \in Seqs
                 PROVE  /\ status'[x] = "none" <=> token_ids[x] = <<>>
                        /\ status'[x] = "none" => block_table'[x] = <<>>
                        /\ status'[x] = "running" => block_table'[x] # <<>>
                        /\ status'[x] = "waiting" /\ block_table'[x] # <<>>
                             => Len(block_table'[x]) = num_blocks(x)
      OBVIOUS
    <3>1. CASE x = s
      BY <1>1, <1>3, <1>5, <1>6, <3>1 DEF Tables
    <3>2. CASE x # s
      BY <1>3, <1>5, <1>6, <3>2 DEF Tables
    <3> QED
      BY <3>1, <3>2
  <2> QED
    BY <1>5, <1>9, <2>1, SameText DEF Tables, OnlyFrontWaitingHoldsBlocks
<1>13. Lengths'
  <2>1. \A x \in Seqs : status'[x] \in {"waiting", "running"} =>
                          status[x] \in {"waiting", "running"}
    BY <1>1, <1>6
  <2> QED
    BY <1>2, <1>3, <1>5, <2>1, SameText, SameAsked DEF Lengths, accepts
<1>14. Behind'
  <2>1. \A x \in Seqs : status'[x] = "running" => num_cached_tokens'[x] < size(x)
    BY <1>1, <1>3, <1>5, <1>6 DEF Behind
  <2> QED
    BY <1>5, <2>1, SameText DEF Behind
<1>15. PlanInv'
  <2>1. pending' = DOMAIN plan /\ pending = DOMAIN plan
    BY <1>1, <1>2 DEF pending
  <2>2. \A i \in DOMAIN plan : Due(plan[i].seq)'
    BY <1>1, <1>2, <1>5, <1>6, PlannedRunning DEF Due
  <2> QED
    BY <1>1, <1>2, <1>3, <2>1, <2>2 DEF PlanInv
<1>16. DecodeInv'
  <2>1. candidates' <= Len(running')
    BY <1>1, <1>2, <1>7
  <2>2. ASSUME NEW i \in DOMAIN plan
        PROVE  \E k \in candidates' + 1 .. Len(running') : running'[k] = plan[i].seq
    <3>1. PICK k \in candidates + 1 .. Len(running) : running[k] = plan[i].seq
      BY <1>1, <1>3 DEF DecodeInv
    <3>2. /\ k - 1 \in candidates' + 1 .. Len(running')
          /\ k - 1 \in 1 .. Len(running) - 1 /\ (k - 1) + 1 = k
      BY <1>1, <1>2, <1>7
    <3> QED
      BY <1>7, <3>1, <3>2
  <2> QED
    BY <1>1, <1>2, <1>9, <2>1, <2>2 DEF DecodeInv
<1>17. CurrentInv'
  BY <1>1, <1>2 DEF CurrentInv
<1> QED
  BY <1>4, <1>10, <1>11, <1>12, <1>13, <1>14, <1>15, <1>16, <1>17 DEF QueueInv

LEMMA DecodeEndQueue ==
  ASSUME QueueInv, DecodeEnd
  PROVE  UNCHANGED blockManagerVars /\ QueueInv'
<1>1. CASE InternalError
  BY <1>1, ErrorQueue DEF InternalError
<1>2. CASE ~ InternalError
  <2>1. /\ pc = "decode" /\ UNCHANGED <<request, queueVars, blockManagerVars>>
        /\ UNCHANGED <<status, waiting, running, token_ids, block_table,
                       num_cached_tokens, num_scheduled_tokens>>
        /\ \/ /\ plan # <<>> /\ pc' = "run"
              /\ UNCHANGED <<plan, is_prefill, batched_tokens, candidates, index>>
           \/ /\ pc' = "prefill" /\ plan' = <<>> /\ is_prefill' = FALSE
              /\ batched_tokens' = 0 /\ candidates' = 0 /\ index' = 0
    BY <1>2 DEF DecodeEnd, ClearCall, queueVars, callVars, blockManagerVars, seqVars
  <2>2. Queued' /\ Tables' /\ Lengths'
    BY <2>1, QueuesKept DEF QueueInv
  <2>3. QueueTypes'
    <3>1. QueueTypes
      BY DEF QueueInv
    <3>2. plan' \in Seq([seq : Seqs, start : Nat, count : Nat])
      <4> DEFINE Entry == [seq : Seqs, start : Nat, count : Nat]
      <4>1. plan \in Seq(Entry)
        BY <3>1 DEF QueueTypes
      <4> HIDE DEF Entry
      <4>2. plan' = plan \/ plan' = <<>>
        BY <2>1
      <4>3. plan' \in Seq(Entry)
        BY <4>1, <4>2, EmptySeq, Zenon
      <4> QED
        BY <4>3 DEF Entry
    <3>3. /\ pc' \in StepPcs /\ candidates' \in Nat /\ index' \in Nat
          /\ batched_tokens' \in 0 .. MaxNumBatchedTokens
      BY <2>1, <3>1, BatchAssumption DEF QueueTypes, StepPcs
    <3> QED
      BY <2>1, <3>1, <3>2, <3>3 DEF QueueTypes
  <2>4. Behind'
    BY <2>1, SameText DEF Behind, QueueInv
  <2>5. DecodeInv' /\ CurrentInv'
    BY <2>1 DEF DecodeInv, CurrentInv
  <2>6. PlanInv'
    <3>1. CASE plan # <<>> /\ pc' = "run" /\ UNCHANGED <<plan, is_prefill, batched_tokens>>
      <4>1. pending' = DOMAIN plan
        BY <3>1 DEF pending
      <4>2. \A i \in DOMAIN plan : Due(plan[i].seq)'
        BY <2>1, <3>1, PlannedRunning DEF Due
      <4> QED
        BY <3>1, <4>1, <4>2 DEF QueueInv, PlanInv
    <3>2. CASE pc' = "prefill" /\ plan' = <<>> /\ batched_tokens' = 0
      BY <3>2 DEF PlanInv, pending
    <3> QED
      BY <2>1, <3>1, <3>2
  <2> QED
    BY <2>1, <2>2, <2>3, <2>4, <2>5, <2>6 DEF QueueInv
<1> QED
  BY <1>1, <1>2

-----------------------------------------------------------------------------
(* run_batch *)

LEMMA RunBatchQueue ==
  ASSUME TypeOK, QueueInv, RunBatch
  PROVE  UNCHANGED blockManagerVars /\ QueueInv'
<1>1. /\ pc = "run" /\ pc' = "commit" /\ index' = 1
      /\ \A i \in DOMAIN plan : sampled'[i] \in samples(i)
      /\ sampled' \in [DOMAIN plan -> UNION {samples(i) : i \in DOMAIN plan}]
      /\ UNCHANGED <<request, queueVars, blockManagerVars>>
      /\ UNCHANGED <<status, waiting, running, plan, is_prefill, batched_tokens,
           candidates, token_ids, block_table, num_cached_tokens, num_scheduled_tokens>>
  BY DEF RunBatch, queueVars, blockManagerVars, seqVars
<1>2. pending = DOMAIN plan /\ plan # <<>> /\ \A i \in DOMAIN plan : plan[i].seq \in Seqs
      /\ Len(plan) \in Nat /\ DOMAIN plan = 1 .. Len(plan)
  BY <1>1, PendingInPlan DEF QueueInv, PlanInv, pending
<1>3. Len(plan) \in Nat \ {0}
  BY <1>2 DEF QueueInv, QueueTypes
<1>4. Queued' /\ Tables' /\ Lengths'
  BY <1>1, QueuesKept DEF QueueInv
<1>5. QueueTypes'
  BY <1>1 DEF QueueInv, QueueTypes, StepPcs
<1>6. Behind'
  BY <1>1, SameText DEF Behind, QueueInv
<1>7. DecodeInv' /\ CurrentInv'
  BY <1>1 DEF DecodeInv, CurrentInv
<1>8. ASSUME NEW i \in DOMAIN plan PROVE sampled'[i] \in Token \cup {NoSample}
  <2> DEFINE s == plan[i].seq
  <2>1. s \in Seqs /\ status[s] \in {"waiting", "running"}
    BY <1>1, <1>2 DEF QueueInv, PlanInv, Due
  <2>2. token_ids[s] \in Seq(Token) /\ Len(token_ids[s]) \in 1 .. MaxLen
    BY <2>1, UnfinishedSize, LengthAssumption DEF size
  <2>3. token_ids[s] \in [1 .. Len(token_ids[s]) -> Token]
    BY <2>2
  <2>4. LM(token_ids[s]) \subseteq Token /\ Vocabulary \subseteq Token
    BY <2>2, <2>3, SamplingAssumption
  <2>5. samples(i) \subseteq Token \cup {NoSample}
    BY <2>4 DEF samples
  <2> QED
    BY <1>1, <2>5
<1>9. PlanInv'
  <2>1. pending' = DOMAIN plan
    BY <1>1, <1>2 DEF pending
  <2>2. \A i \in DOMAIN plan : Due(plan[i].seq)
    BY <1>2 DEF QueueInv, PlanInv
  <2>3. \A s \in Seqs : Due(s) => Due(s)'
    BY <1>1, SameText DEF Due
  <2>4. (\A i \in pending : Due(plan[i].seq))'
    <3>1. \A i \in pending' : \E x \in Seqs : x = plan'[i].seq /\ Due(x)'
      BY <1>1, <1>2, <2>1, <2>2, <2>3
    <3> QED
      BY <3>1, DueSeqs
  <2>5. index' \in 1 .. Len(plan) /\ sampled' \in [DOMAIN plan -> Token \cup {NoSample}]
    BY <1>1, <1>3, <1>8
  <2> QED
    BY <1>1, <1>2, <2>4, <2>5 DEF QueueInv, PlanInv
<1> QED
  BY <1>1, <1>4, <1>5, <1>6, <1>7, <1>9 DEF QueueInv

LEMMA ReturnsQueue ==
  ASSUME QueueInv, RejectBatch \/ FailBatch \/ CollectResults
  PROVE  UNCHANGED blockManagerVars /\ QueueInv'
BY ReturnQueue DEF RejectBatch, FailBatch, CollectResults

-----------------------------------------------------------------------------
(* postprocess() *)

\* The entry whose turn it is, and what is left behind it.
LEMMA CurrentFacts ==
  ASSUME QueueInv, pc \in {"commit", "emit", "release"}
  PROVE  /\ index \in 1 .. Len(plan) /\ Len(plan) \in Nat /\ DOMAIN plan = 1 .. Len(plan)
         /\ current \in Seqs /\ plan # <<>>
         /\ pc = "commit" => Due(current)
         /\ \A i \in index + 1 .. Len(plan) :
              /\ plan[i].seq \in Seqs /\ plan[i].seq # current
              /\ Due(plan[i].seq)
<1>1. /\ index \in 1 .. Len(plan) /\ Len(plan) \in Nat /\ DOMAIN plan = 1 .. Len(plan)
      /\ plan # <<>> /\ \A i \in DOMAIN plan : plan[i].seq \in Seqs
  BY PendingInPlan DEF QueueInv, PlanInv
<1>2. current \in Seqs
  BY <1>1 DEF current
<1>3. pc = "commit" => Due(current)
  <2>1. ASSUME pc = "commit" PROVE index \in pending
    BY <1>1, <2>1 DEF pending
  <2> QED
    BY <2>1 DEF QueueInv, PlanInv, current
<1>4. ASSUME NEW i \in index + 1 .. Len(plan)
      PROVE  plan[i].seq \in Seqs /\ plan[i].seq # current /\ Due(plan[i].seq)
  <2>1. i \in DOMAIN plan /\ index \in DOMAIN plan /\ i # index /\ i \in index .. Len(plan)
    BY <1>1
  <2>2. i \in pending
    BY <2>1 DEF pending
  <2> QED
    BY <1>1, <2>1, <2>2 DEF QueueInv, PlanInv, current
<1> QED
  BY <1>1, <1>2, <1>3, <1>4

\* Going on to the next entry leaves those that are still due.
LEMMA NextIndexFacts ==
  ASSUME QueueTypes, index \in 1 .. Len(plan), NextIndex, UNCHANGED plan
  PROVE  /\ pc' \in {"commit", "collect"} /\ index' \in Nat
         /\ pending' \subseteq index + 1 .. Len(plan)
         /\ pc' = "commit" => index' \in 1 .. Len(plan)
<1>1. Len(plan) \in Nat
  BY DEF QueueTypes
<1>2. CASE index < Len(plan)
  BY <1>1, <1>2 DEF NextIndex, pending
<1>3. CASE ~ (index < Len(plan))
  BY <1>1, <1>3 DEF NextIndex, pending
<1> QED
  BY <1>2, <1>3

\* The plan's part of the invariant, while postprocess walks over the plan.
LEMMA WalkPlan ==
  ASSUME QueueInv, pc \in {"commit", "emit", "release"},
         UNCHANGED <<plan, is_prefill, sampled, batched_tokens>>,
         pc' \in {"commit", "emit", "release", "collect"},
         pc' # "collect" => index' \in 1 .. Len(plan),
         pending' \subseteq index + 1 .. Len(plan),
         \A x \in Seqs \ {current} :
           /\ Due(x) => num_scheduled_tokens'[x] = num_scheduled_tokens[x]
                        /\ num_cached_tokens'[x] = num_cached_tokens[x]
           /\ status'[x] = status[x] /\ block_table'[x] = block_table[x]
           /\ size(x)' = size(x)
  PROVE  PlanInv'
<1>1. /\ index \in 1 .. Len(plan) /\ plan # <<>>
      /\ \A i \in index + 1 .. Len(plan) :
           plan[i].seq \in Seqs /\ plan[i].seq # current /\ Due(plan[i].seq)
  BY CurrentFacts
<1>2. ASSUME NEW x \in Seqs, x # current, Due(x) PROVE Due(x)'
  BY <1>2 DEF Due
<1>3. (\A i \in pending : Due(plan[i].seq))'
  <2>1. \A i \in pending' : \E x \in Seqs : x = plan'[i].seq /\ Due(x)'
    BY <1>1, <1>2
  <2> QED
    BY <2>1, DueSeqs
<1>4. /\ \A i, j \in DOMAIN plan : plan[i].seq = plan[j].seq => i = j
      /\ sampled \in [DOMAIN plan -> Token \cup {NoSample}]
  BY DEF QueueInv, PlanInv
<1> QED
  BY <1>1, <1>3, <1>4 DEF PlanInv

LEMMA PostCommitQueue ==
  ASSUME IndInv, QueueInv, PostCommit
  PROVE  [BlockManagerNext]_blockManagerVars /\ QueueInv'
<1> DEFINE s == current
           computed == num_cached_tokens[s] + num_scheduled_tokens[s]
<1>1. CASE hash_blocks_fails(s)
  BY <1>1, ErrorQueue DEF PostCommit, InternalError
<1>2. CASE ~ hash_blocks_fails(s)
  <2>1. /\ pc = "commit" /\ hash_blocks(s)
        /\ num_cached_tokens' = [num_cached_tokens EXCEPT ![s] = computed]
        /\ num_scheduled_tokens' = [num_scheduled_tokens EXCEPT ![s] = 0]
        /\ IF is_prefill /\ computed < size(s) THEN NextIndex
           ELSE pc' = "emit" /\ index' = index
        /\ UNCHANGED <<request, status, waiting, running, plan, is_prefill,
             batched_tokens, candidates, sampled, token_ids, block_table>>
    BY <1>2 DEF PostCommit, queueVars
  <2>2. TypeOK /\ Covered /\ QueueTypes /\ Queued /\ Tables /\ Lengths /\ Behind
    BY DEF IndInv, QueueInv
  <2>3. /\ s \in Seqs /\ index \in 1 .. Len(plan) /\ Due(s)
    BY <2>1, CurrentFacts
  <2>4. index' = index => current' = current
    BY <2>1 DEF current
  <2> HIDE DEF s
  <2>5. /\ block_table[s] # <<>> /\ num_scheduled_tokens[s] > 0
        /\ num_cached_tokens[s] \in Nat /\ num_scheduled_tokens[s] \in Nat
        /\ size(s) \in Nat /\ computed <= size(s)
    <3>1. block_table[s] # <<>> /\ num_scheduled_tokens[s] > 0
      BY <2>3 DEF Due
    <3>2. computed <= size(s)
      BY <2>2, <2>3 DEF Covered
    <3> QED
      BY <2>2, <2>3, <3>1, <3>2, TypeFacts
  <2>6. Commit(s)
    BY <1>2, <2>1, <2>5 DEF Commit
  <2>7. BlockManagerNext
    BY <2>3, <2>6 DEF BlockManagerNext
  <2>8. /\ num_cached_tokens'[s] = computed /\ num_scheduled_tokens'[s] = 0
        /\ \A x \in Seqs \ {s} : /\ num_cached_tokens'[x] = num_cached_tokens[x]
                                 /\ num_scheduled_tokens'[x] = num_scheduled_tokens[x]
    BY <2>1, <2>2, <2>3 DEF TypeOK
  <2>9. /\ pc' \in {"commit", "emit", "collect"} /\ index' \in Nat
        /\ pending' \subseteq index + 1 .. Len(plan)
        /\ pc' # "collect" => index' \in 1 .. Len(plan)
        /\ pc' = "emit" => index' = index /\ ~ (is_prefill /\ computed < size(s))
        /\ pc' # "emit" => computed < size(s)
    <3>1. CASE is_prefill /\ computed < size(s)
      BY <2>1, <2>2, <2>3, <3>1, NextIndexFacts
    <3>2. CASE ~ (is_prefill /\ computed < size(s))
      BY <2>1, <2>2, <2>3, <3>2 DEF pending
    <3> QED
      BY <3>1, <3>2
  <2>10. QueueTypes'
    BY <2>1, <2>2, <2>9 DEF QueueTypes, StepPcs
  <2>11. Queued'
    BY <2>1, <2>2 DEF Queued, Distinct, In
  <2>12. Tables' /\ Lengths'
    BY <2>1, <2>2, SameText, SameAsked
      DEF Tables, OnlyFrontWaitingHoldsBlocks, Lengths, accepts
  <2>13. Behind'
    <3>1. \A x \in Seqs : status[x] = "running" /\ ~(pc' = "emit" /\ x = s) =>
                            num_cached_tokens'[x] < size(x)
      BY <2>1, <2>2, <2>8, <2>9 DEF Behind
    <3> QED
      BY <2>1, <2>4, <2>9, <3>1, SameText DEF Behind, s
  <2>14. PlanInv'
    <3>1. \A x \in Seqs \ {current} :
           /\ Due(x) => num_scheduled_tokens'[x] = num_scheduled_tokens[x]
                        /\ num_cached_tokens'[x] = num_cached_tokens[x]
           /\ status'[x] = status[x] /\ block_table'[x] = block_table[x]
           /\ size(x)' = size(x)
      BY <2>1, <2>8, SameText DEF s
    <3> QED
      BY <2>1, <2>9, <3>1, WalkPlan
  <2>15. DecodeInv'
    BY <2>9 DEF DecodeInv
  <2>16. CurrentInv'
    <3>1. ASSUME pc' = "emit" PROVE status[s] = "running" /\ num_scheduled_tokens'[s] = 0
      BY <2>3, <2>8, <2>9, <3>1 DEF Due
    <3> QED
      BY <2>1, <2>4, <2>9, <3>1 DEF CurrentInv, s
  <2> QED
    BY <2>7, <2>10, <2>11, <2>12, <2>13, <2>14, <2>15, <2>16 DEF QueueInv
<1> QED
  BY <1>1, <1>2

LEMMA PostReleaseQueue ==
  ASSUME TypeOK, QueueInv, PostRelease
  PROVE  BlockManagerNext /\ QueueInv'
<1> DEFINE s == current
<1>1. /\ pc = "release" /\ deallocate(s) /\ NextIndex
      /\ UNCHANGED <<request, status, waiting, running, plan, is_prefill,
             batched_tokens, candidates, sampled>>
  BY DEF PostRelease, queueVars
<1>2. /\ s \in Seqs /\ index \in 1 .. Len(plan)
      /\ status[s] = "finished" /\ block_table[s] # <<>>
  BY <1>1, CurrentFacts DEF QueueInv, CurrentInv
<1>3. QueueTypes /\ Queued /\ Tables /\ Lengths /\ Behind
  BY DEF QueueInv
<1>4. BlockManagerNext
  BY <1>1, <1>2 DEF BlockManagerNext, Deallocate
<1>5. /\ block_table'[s] = <<>>
      /\ \A x \in Seqs \ {s} : /\ block_table'[x] = block_table[x]
                               /\ num_cached_tokens'[x] = num_cached_tokens[x]
                               /\ num_scheduled_tokens'[x] = num_scheduled_tokens[x]
      /\ UNCHANGED token_ids
  BY <1>1, <1>2, DeallocatedTable
<1>6. /\ pc' \in {"commit", "collect"} /\ index' \in Nat
      /\ pending' \subseteq index + 1 .. Len(plan)
      /\ pc' = "commit" => index' \in 1 .. Len(plan)
  BY <1>1, <1>2, <1>3, NextIndexFacts
<1>7. QueueTypes'
  BY <1>1, <1>3, <1>6 DEF QueueTypes, StepPcs
<1>8. Queued'
  BY <1>1, <1>3 DEF Queued, Distinct, In
<1> HIDE DEF s
<1>9. Tables'
  <2>1. \A x \in Seqs :
          /\ status[x] = "none" <=> token_ids[x] = <<>>
          /\ status[x] = "none" => block_table'[x] = <<>>
          /\ status[x] = "running" => block_table'[x] # <<>>
          /\ status[x] = "waiting" /\ block_table'[x] # <<>>
               => Len(block_table'[x]) = num_blocks(x)
    BY <1>2, <1>3, <1>5 DEF Tables
  <2>2. \A i \in DOMAIN waiting : i > 1 => block_table'[waiting[i]] = <<>>
    BY <1>3, <1>5 DEF QueueTypes, Tables, OnlyFrontWaitingHoldsBlocks
  <2> QED
    BY <1>1, <1>5, <2>1, <2>2, SameText DEF Tables, OnlyFrontWaitingHoldsBlocks
<1>10. Lengths'
  BY <1>1, <1>3, <1>5, SameText, SameAsked DEF Lengths, accepts
<1>11. Behind'
  <2>1. \A x \in Seqs : status[x] = "running" => num_cached_tokens'[x] < size(x)
    BY <1>1, <1>2, <1>3, <1>5 DEF Behind
  <2> QED
    BY <1>1, <1>5, <2>1, SameText DEF Behind
<1>12. PlanInv'
  <2>1. \A x \in Seqs \ {current} :
         /\ Due(x) => num_scheduled_tokens'[x] = num_scheduled_tokens[x]
                      /\ num_cached_tokens'[x] = num_cached_tokens[x]
         /\ status'[x] = status[x] /\ block_table'[x] = block_table[x]
         /\ size(x)' = size(x)
    BY <1>1, <1>5, SameText DEF s
  <2> QED
    BY <1>1, <1>6, <2>1, WalkPlan
<1>13. DecodeInv' /\ CurrentInv'
  BY <1>6 DEF DecodeInv, CurrentInv
<1> QED
  BY <1>4, <1>7, <1>8, <1>9, <1>10, <1>11, <1>12, <1>13 DEF QueueInv

LEMMA PostEmitQueue ==
  ASSUME TypeOK, Covered, QueueInv, PostEmit
  PROVE  [BlockManagerNext]_blockManagerVars /\ QueueInv'
<1>1. CASE sampled[index] = NoSample
  BY <1>1, ErrorQueue DEF PostEmit, InternalError
<1>2. CASE sampled[index] # NoSample
  <2>1. pc = "emit" /\ current \in Seqs
    BY CurrentFacts DEF PostEmit
  <2>2. PICK s \in Seqs : s = current
    BY <2>1
  <2> DEFINE t == sampled[index]
  <2>3. /\ token_ids' = [token_ids EXCEPT ![s] = Append(@, t)]
        /\ IF stops(s, t)
           THEN /\ status' = [status EXCEPT ![s] = "finished"]
                /\ running' = running_without(s)
                /\ pc' = "release" /\ index' = index /\ UNCHANGED waiting
           ELSE NextIndex /\ UNCHANGED <<status, waiting, running>>
        /\ UNCHANGED <<request, plan, is_prefill, batched_tokens, candidates, sampled,
             block_table, num_cached_tokens, num_scheduled_tokens, poolVars>>
    BY <1>2, <2>2 DEF PostEmit, queueVars
  <2>4. QueueTypes /\ Queued /\ Tables /\ Lengths /\ Behind
    BY DEF QueueInv
  <2>5. /\ index \in 1 .. Len(plan) /\ index \in DOMAIN plan
        /\ status[s] = "running" /\ num_scheduled_tokens[s] = 0
    BY <2>1, <2>2, CurrentFacts DEF QueueInv, CurrentInv
  <2>6. t \in Token
    BY <1>2, <2>1, <2>5 DEF QueueInv, PlanInv
  <2>7. index' = index => current' = s
    BY <2>2, <2>3 DEF current
  <2> HIDE DEF t
  <2>8. /\ size(s) \in Nat \ {0} /\ size(s) < MaxLen /\ block_table[s] # <<>>
        /\ token_ids[s] \in Seq(Token) /\ num_cached_tokens[s] \in Nat
        /\ num_cached_tokens[s] <= size(s)
    <3>1. num_cached_tokens[s] + num_scheduled_tokens[s] <= size(s)
      BY DEF Covered
    <3>2. /\ size(s) \in Nat \ {0} /\ size(s) < MaxLen
          /\ token_ids[s] \in Seq(Token) /\ num_cached_tokens[s] \in Nat
      BY <2>5, UnfinishedSize
    <3> QED
      BY <2>4, <2>5, <3>1, <3>2 DEF Tables
  <2>9. AppendToken(s, t)
    BY <2>3, <2>5, <2>8 DEF AppendToken
  <2>10. BlockManagerNext
    BY <2>6, <2>9 DEF BlockManagerNext
  <2>11. /\ token_ids'[s] = Append(token_ids[s], t)
         /\ \A x \in Seqs \ {s} : token_ids'[x] = token_ids[x]
    BY <2>3 DEF TypeOK
  <2>12. /\ size(s)' = size(s) + 1 /\ token_ids'[s] # <<>> /\ token_ids[s] # <<>>
         /\ \A x \in Seqs \ {s} : size(x)' = size(x) /\ num_blocks(x)' = num_blocks(x)
    <3>1. \A x \in Seqs \ {s} : size(x)' = size(x) /\ num_blocks(x)' = num_blocks(x)
      BY <2>11 DEF size, num_blocks
    <3>2. Len(token_ids'[s]) = Len(token_ids[s]) + 1 /\ token_ids'[s] # <<>>
      BY <2>6, <2>8, <2>11
    <3> QED
      BY <2>8, <3>1, <3>2 DEF size
  <2>13. /\ status' \in [Seqs -> {"none", "waiting", "running", "finished"}]
         /\ \A x \in Seqs \ {s} : status'[x] = status[x]
         /\ status'[s] = IF stops(s, t) THEN "finished" ELSE "running"
    BY <2>3, <2>4, <2>5 DEF QueueTypes
  <2>14. /\ pc' \in {"commit", "release", "collect"} /\ index' \in Nat
         /\ pending' \subseteq index + 1 .. Len(plan)
         /\ pc' # "collect" => index' \in 1 .. Len(plan)
         /\ pc' = "release" => index' = index /\ stops(s, t)
    <3>1. CASE stops(s, t)
      BY <2>3, <2>5, <3>1 DEF pending
    <3>2. CASE ~ stops(s, t)
      BY <2>3, <2>4, <2>5, <3>2, NextIndexFacts
    <3> QED
      BY <3>1, <3>2
  <2>15. /\ running' \in Seq(Seqs) /\ Distinct(running') /\ waiting' = waiting
         /\ \A x \in Seqs : In(running', x) <=> status'[x] = "running"
    <3>1. CASE stops(s, t)
      <4>1. running \in Seq(Seqs) /\ Distinct(running) /\ In(running, s)
        BY <2>4, <2>5 DEF QueueTypes, Queued
      <4>2. /\ running' \in Seq(Seqs) /\ Distinct(running')
            /\ \A x : In(running', x) <=> In(running, x) /\ x # s
        BY <2>3, <3>1, <4>1, RemoveQueue
      <4> QED
        BY <2>3, <2>4, <2>13, <3>1, <4>2 DEF Queued
    <3>2. CASE ~ stops(s, t)
      <4>1. UNCHANGED <<status, waiting, running>>
        BY <2>3, <3>2
      <4>2. \A x : In(running', x) <=> In(running, x)
        BY <4>1
      <4> QED
        BY <2>4, <4>1, <4>2 DEF QueueTypes, Queued
    <3> QED
      BY <3>1, <3>2
  <2>16. QueueTypes'
    BY <2>3, <2>4, <2>13, <2>14, <2>15 DEF QueueTypes, StepPcs
  <2>17. Queued'
    <3>1. \A x \in Seqs : status'[x] = "waiting" <=> In(waiting, x)
      BY <2>4, <2>5, <2>13 DEF Queued
    <3> QED
      BY <2>4, <2>15, <3>1 DEF Queued
  <2>18. Tables'
    <3>1. ASSUME NEW x \in Seqs
          PROVE  /\ status'[x] = "none" <=> token_ids'[x] = <<>>
                 /\ status'[x] = "none" => block_table[x] = <<>>
                 /\ status'[x] = "running" => block_table[x] # <<>>
                 /\ status'[x] = "waiting" /\ block_table[x] # <<>>
                      => Len(block_table[x]) = num_blocks(x)'
      <4>1. CASE x = s
        BY <2>8, <2>12, <2>13, <4>1
      <4>2. CASE x # s
        BY <2>4, <2>11, <2>12, <2>13, <4>2 DEF Tables
      <4> QED
        BY <4>1, <4>2
    <3> QED
      BY <2>3, <2>4, <2>15, <3>1 DEF Tables, OnlyFrontWaitingHoldsBlocks
  <2>19. Lengths'
    <3> SUFFICES ASSUME NEW x \in Seqs, status'[x] \in {"waiting", "running"}
                 PROVE  /\ request[x] \in Requests /\ accepts(request[x])
                        /\ prompt_size(x) <= size(x)'
                        /\ size(x)' - prompt_size(x) < request[x].max_tokens
      BY <2>3 DEF Lengths, accepts, prompt_size, completion_size
    <3>1. status[x] \in {"waiting", "running"}
      BY <2>5, <2>13
    <3>2. /\ request[x] \in Requests /\ accepts(request[x])
          /\ prompt_size(x) <= size(x)
          /\ size(x) - prompt_size(x) < request[x].max_tokens
      BY <2>4, <3>1 DEF Lengths, completion_size
    <3>3. CASE x # s
      BY <2>12, <3>2, <3>3
    <3>4. CASE x = s
      <4>1. ~ (completion_size(s) + 1 >= request[s].max_tokens)
        BY <2>13, <3>4 DEF stops
      <4>2. request[s].max_tokens \in Nat /\ prompt_size(s) \in Nat
        BY <3>2, <3>4, RequestAssumption, PromptAssumption DEF prompt_size
      <4> QED
        BY <2>8, <2>12, <3>2, <3>4, <4>1, <4>2 DEF completion_size
    <3> QED
      BY <3>3, <3>4
  <2>20. Behind'
    <3>1. ASSUME NEW x \in Seqs, status'[x] = "running" PROVE num_cached_tokens[x] < size(x)'
      <4>1. CASE x = s
        BY <2>8, <2>12, <4>1
      <4>2. CASE x # s
        BY <2>1, <2>2, <2>4, <2>12, <2>13, <3>1, <4>2 DEF Behind
      <4> QED
        BY <4>1, <4>2
    <3> QED
      BY <2>3, <3>1 DEF Behind
  <2>21. PlanInv'
    <3>1. \A x \in Seqs \ {current} :
           /\ Due(x) => num_scheduled_tokens'[x] = num_scheduled_tokens[x]
                        /\ num_cached_tokens'[x] = num_cached_tokens[x]
           /\ status'[x] = status[x] /\ block_table'[x] = block_table[x]
           /\ size(x)' = size(x)
      BY <2>2, <2>3, <2>12, <2>13
    <3> QED
      BY <2>1, <2>3, <2>14, <3>1, WalkPlan
  <2>22. DecodeInv'
    BY <2>14 DEF DecodeInv
  <2>23. CurrentInv'
    BY <2>3, <2>7, <2>8, <2>13, <2>14 DEF CurrentInv
  <2> QED
    BY <2>10, <2>16, <2>17, <2>18, <2>19, <2>20, <2>21, <2>22, <2>23 DEF QueueInv
<1> QED
  BY <1>1, <1>2

-----------------------------------------------------------------------------
(* Every step of the engine *)

LEMMA EngineInitInv == LLMEngineInit => BlockManagerInit /\ IndInv /\ QueueInv
<1> SUFFICES ASSUME LLMEngineInit PROVE BlockManagerInit /\ IndInv /\ QueueInv
  OBVIOUS
<1>1. BlockManagerInit /\ IndInv
  BY InitInv DEF LLMEngineInit, SchedulerInit
<1>2. /\ request = [s \in Seqs |-> NoRequest] /\ status = [s \in Seqs |-> "none"]
      /\ waiting = <<>> /\ running = <<>> /\ pc = "idle"
      /\ plan = <<>> /\ batched_tokens = 0 /\ candidates = 0 /\ index = 0
      /\ token_ids = [s \in Seqs |-> <<>>] /\ block_table = [s \in Seqs |-> <<>>]
  BY <1>1 DEF LLMEngineInit, SchedulerInit, BlockManagerInit
<1>3. \A s \in Seqs : status[s] = "none" /\ token_ids[s] = <<>> /\ block_table[s] = <<>>
  BY <1>2
<1>4. QueueTypes
  BY <1>2, BatchAssumption DEF QueueTypes
<1>5. Queued
  BY <1>2, <1>3 DEF Queued, Distinct, In
<1>6. Tables
  BY <1>2, <1>3 DEF Tables, OnlyFrontWaitingHoldsBlocks
<1>7. Lengths /\ Behind /\ DecodeInv /\ CurrentInv
  BY <1>2, <1>3 DEF Lengths, Behind, DecodeInv, CurrentInv
<1>8. PlanInv
  BY <1>2 DEF PlanInv, pending
<1> QED
  BY <1>1, <1>4, <1>5, <1>6, <1>7, <1>8 DEF QueueInv

LEMMA EngineStepQueue ==
  ASSUME IndInv, QueueInv, [LLMEngineNext]_engineVars
  PROVE  [BlockManagerNext]_blockManagerVars /\ QueueInv'
<1>1. TypeOK /\ Covered
  BY DEF IndInv
<1>2. ASSUME NEW s \in Seqs, NEW r \in Requests, AddRequest(s, r)
      PROVE  BlockManagerNext /\ QueueInv'
  BY <1>1, <1>2, AddRequestQueue
<1>3. CASE StartStep
  BY <1>3, StartStepQueue
<1>4. CASE ScheduleStep
  <2>1. CASE PrefillAllocate
    BY <1>1, <2>1, PrefillAllocateQueue
  <2>2. CASE PrefillSchedule
    BY <2>2, PrefillScheduleQueue
  <2>3. CASE PrefillReject
    BY <2>3, PrefillRejectQueue
  <2>4. CASE PrefillEnd
    BY <2>4, PrefillEndQueue
  <2>5. CASE DecodeGrow
    BY <1>1, <2>5, DecodeGrowQueue
  <2>6. CASE DecodeSchedule
    BY <2>6, DecodeScheduleQueue
  <2>7. CASE Preempt
    BY <1>1, <2>7, PreemptQueue
  <2>8. CASE DecodeEnd
    BY <2>8, DecodeEndQueue
  <2> QED
    BY <1>4, <2>1, <2>2, <2>3, <2>4, <2>5, <2>6, <2>7, <2>8 DEF ScheduleStep
<1>5. CASE PostprocessStep
  <2>1. CASE PostCommit
    BY <2>1, PostCommitQueue
  <2>2. CASE PostEmit
    BY <1>1, <2>2, PostEmitQueue
  <2>3. CASE PostRelease
    BY <1>1, <2>3, PostReleaseQueue
  <2> QED
    BY <1>5, <2>1, <2>2, <2>3 DEF PostprocessStep
<1>6. CASE RunBatch
  BY <1>1, <1>6, RunBatchQueue
<1>7. CASE RejectBatch \/ FailBatch \/ CollectResults
  BY <1>7, ReturnsQueue
<1>8. CASE UNCHANGED engineVars
  BY <1>8, StutterQueue
<1> QED
  BY <1>2, <1>3, <1>4, <1>5, <1>6, <1>7, <1>8
    DEF LLMEngineNext, EngineStep, SchedulerStep, IdleStep

LEMMA EngineNextInv ==
  IndInv /\ QueueInv /\ [LLMEngineNext]_engineVars
    => [BlockManagerNext]_blockManagerVars /\ IndInv' /\ QueueInv'
BY EngineStepQueue, NextInv

LEMMA EngineInvariance == LLMEngineSpec => [](IndInv /\ QueueInv)
<1>1. LLMEngineInit => IndInv /\ QueueInv
  BY EngineInitInv
<1>2. IndInv /\ QueueInv /\ [LLMEngineNext]_engineVars => (IndInv /\ QueueInv)'
  BY EngineNextInv
<1> QED
  BY <1>1, <1>2, PTL DEF LLMEngineSpec

(* The scheduler drives the pool only as BlockManager.tla lets it: every     *)
(* call of schedule() and postprocess(), in every interleaving with requests *)
(* and failing batches, is one of the pool's operations within its           *)
(* precondition.                                                            *)
THEOREM KeepsProtocol == LLMEngineSpec => UsesBlockManager
<1>1. IndInv /\ QueueInv /\ [LLMEngineNext]_engineVars => [BlockManagerNext]_blockManagerVars
  BY EngineNextInv
<1> QED
  BY <1>1, EngineInvariance, PTL DEF LLMEngineSpec, UsesBlockManager

(* So the engine is an implementation of the pool's specification, and what  *)
(* is proved of the pool alone holds inside the engine.                      *)
THEOREM EngineUsesPool == LLMEngineSpec => BlockManagerSpec
<1>1. LLMEngineInit => BlockManagerInit
  BY EngineInitInv
<1> QED
  BY <1>1, KeepsProtocol, PTL DEF LLMEngineSpec, UsesBlockManager, BlockManagerSpec

(* Reference counts and free list stay exact while the engine runs. *)
THEOREM EngineAccountsExact == LLMEngineSpec => []AccountsExact
BY EngineUsesPool, AccountingExact

(* A request that was accepted and has not finished is queued exactly once,   *)
(* in the queue its status names.                                            *)
THEOREM RequestsQueuedOnce == LLMEngineSpec => []QueuedOnce
<1>1. QueueInv => QueuedOnce
  <2> SUFFICES ASSUME QueueInv, NEW s \in Seqs
               PROVE  /\ Cardinality({i \in DOMAIN waiting : waiting[i] = s})
                           = IF status[s] = "waiting" THEN 1 ELSE 0
                      /\ Cardinality({i \in DOMAIN running : running[i] = s})
                           = IF status[s] = "running" THEN 1 ELSE 0
    BY DEF QueuedOnce
  <2>1. /\ Distinct(waiting) /\ Distinct(running)
        /\ status[s] = "waiting" <=> In(waiting, s)
        /\ status[s] = "running" <=> In(running, s)
    BY DEF QueueInv, Queued
  <2>2. ASSUME NEW q, Distinct(q)
        PROVE  Cardinality({i \in DOMAIN q : q[i] = s}) = IF In(q, s) THEN 1 ELSE 0
    <3>1. CASE In(q, s)
      <4>1. PICK k \in DOMAIN q : q[k] = s
        BY <3>1 DEF In
      <4>2. {i \in DOMAIN q : q[i] = s} = {k}
        BY <2>2, <4>1 DEF Distinct
      <4> QED
        BY <3>1, <4>2, FS_Singleton
    <3>2. CASE ~ In(q, s)
      <4>1. {i \in DOMAIN q : q[i] = s} = {}
        BY <3>2 DEF In
      <4> QED
        BY <3>2, <4>1, FS_EmptySet
    <3> QED
      BY <3>1, <3>2
  <2> QED
    BY <2>1, <2>2
<1> QED
  BY <1>1, EngineInvariance, PTL

(* Only the front of waiting_ holds blocks: a preempted sequence never       *)
(* overtakes a half-prefilled one.                                           *)
THEOREM OnlyFrontHolds == LLMEngineSpec => []OnlyFrontWaitingHoldsBlocks
<1>1. QueueInv => OnlyFrontWaitingHoldsBlocks
  BY DEF QueueInv, Tables
<1> QED
  BY <1>1, EngineInvariance, PTL

-----------------------------------------------------------------------------
(* No table is longer than its text needs *)

TablesFit == \A s \in Seqs : Len(block_table[s]) <= num_blocks(s)

LEMMA TablesFitNext ==
  ASSUME IndInv, TablesFit, [BlockManagerNext]_blockManagerVars
  PROVE  TablesFit'
<1>1. TypeOK
  BY DEF IndInv
<1>2. \A x \in Seqs : Len(block_table[x]) \in Nat /\ size(x) \in Nat
  BY <1>1, TypeFacts
<1>3. ASSUME UNCHANGED <<token_ids, block_table>> PROVE TablesFit'
  BY <1>3, SameText DEF TablesFit
<1>4. ASSUME NEW s \in Seqs, NEW p \in Prompts, Create(s, p) PROVE TablesFit'
  <2>1. p \in Seq(Token) /\ token_ids[s] = <<>>
        /\ token_ids' = [token_ids EXCEPT ![s] = p] /\ block_table' = block_table
    BY <1>4, PromptAssumption DEF Create
  <2>2. \A x \in Seqs \ {s} : num_blocks(x)' = num_blocks(x)
    BY <1>1, <2>1 DEF num_blocks, size, TypeOK
  <2>3. block_table[s] = <<>>
    <3>1. size(s) = 0
      BY <2>1 DEF size
    <3>2. num_blocks(s) = 0
      BY <3>1, PoolAssumption DEF num_blocks
    <3>3. Len(block_table[s]) = 0 /\ block_table[s] \in Seq(Block)
      BY <1>1, <1>2, <3>2, TypeFacts DEF TablesFit
    <3> QED
      BY <3>3
  <2>4. token_ids'[s] = p
    BY <1>1, <2>1 DEF TypeOK
  <2>5. num_blocks(s)' \in Nat
    <3>1. Len(p) + BlockSize - 1 \in Nat
      BY <2>1, PoolAssumption
    <3>2. num_blocks(s)' = (Len(p) + BlockSize - 1) \div BlockSize
      BY <2>4 DEF num_blocks, size
    <3> QED
      BY <3>1, <3>2, DivBounds, PoolAssumption
  <2>6. \A x \in Seqs : Len(block_table[x]) <= num_blocks(x)'
    BY <2>2, <2>3, <2>5 DEF TablesFit
  <2> QED
    BY <2>1, <2>6 DEF TablesFit
<1>5. ASSUME NEW s \in Seqs, Allocate(s) PROVE TablesFit'
  <2>1. size(s) > 0
    <3>1. token_ids[s] \in Seq(Token) /\ token_ids[s] # <<>>
      BY <1>1, <1>5, TypeFacts DEF Allocate
    <3> QED
      BY <3>1, EmptySeq DEF size
  <2>2. /\ block_table' = [block_table EXCEPT ![s] = block_table'[s]]
        /\ Len(block_table'[s]) = num_blocks(s) /\ token_ids' = token_ids
    BY <1>1, <1>5, <2>1, AllocatedTable DEF Allocate
  <2>3. num_blocks(s) \in Nat
    BY <1>1, <2>1, SizeFacts
  <2>4. \A x \in Seqs : Len(block_table'[x]) <= num_blocks(x)
    <3>1. \A x \in Seqs \ {s} : block_table'[x] = block_table[x]
      BY <1>1, <2>2 DEF TypeOK
    <3> QED
      BY <2>2, <2>3, <3>1 DEF TablesFit
  <2> QED
    BY <2>2, <2>4, SameText DEF TablesFit
<1>6. ASSUME NEW s \in Seqs, NEW n \in 1 .. MaxLen, SetScheduled(s, n) PROVE TablesFit'
  BY <1>3, <1>6 DEF SetScheduled
<1>7. ASSUME NEW s \in Seqs, Commit(s) PROVE TablesFit'
  BY <1>3, <1>7 DEF Commit
<1>8. ASSUME NEW s \in Seqs, NEW t \in Token, AppendToken(s, t) PROVE TablesFit'
  <2>1. token_ids' = [token_ids EXCEPT ![s] = Append(@, t)] /\ block_table' = block_table
    BY <1>8 DEF AppendToken
  <2>2. \A x \in Seqs \ {s} : num_blocks(x)' = num_blocks(x)
    BY <1>1, <2>1 DEF num_blocks, size, TypeOK
  <2>3. size(s)' = size(s) + 1
    BY <1>1, <2>1 DEF size, TypeOK
  <2>4. num_blocks(s) <= num_blocks(s)' /\ num_blocks(s) \in Nat /\ num_blocks(s)' \in Nat
    <3>1. /\ size(s) + BlockSize - 1 \in Nat /\ size(s)' + BlockSize - 1 \in Nat
          /\ size(s) + BlockSize - 1 <= size(s)' + BlockSize - 1
      BY <1>2, <2>3, PoolAssumption
    <3> DEFINE a == size(s) + BlockSize - 1
               b == size(s)' + BlockSize - 1
    <3>2. num_blocks(s) = a \div BlockSize /\ num_blocks(s)' = b \div BlockSize
      BY DEF num_blocks
    <3> HIDE DEF a, b
    <3>3. a \in Nat /\ b \in Nat /\ a <= b
      BY <3>1 DEF a, b
    <3> QED
      BY <3>2, <3>3, DivMonotone, DivBounds, PoolAssumption
  <2>5. \A x \in Seqs : Len(block_table[x]) <= num_blocks(x)'
    BY <1>2, <2>2, <2>4 DEF TablesFit
  <2> QED
    BY <2>1, <2>5 DEF TablesFit
<1>9. ASSUME NEW s \in Seqs, MayAppend(s) PROVE TablesFit'
  <2>1. CASE last_block(s) <= Len(block_table[s])
    BY <1>3, <1>9, <2>1 DEF MayAppend, may_append
  <2>2. CASE ~ (last_block(s) <= Len(block_table[s]))
    <3>1. PICK fresh \in lowest(free_ids, 1) :
            block_table' = [block_table EXCEPT ![s] = @ \o fresh]
      BY <1>9, <2>2 DEF MayAppend, may_append
    <3>2. token_ids' = token_ids /\ size(s) > 0
      BY <1>9 DEF MayAppend, may_append, can_append
    <3>3. fresh \in Seq(Block) /\ Len(fresh) = 1
      BY <1>1, LowestTables DEF TypeOK
    <3>4. Len(block_table[s] \o fresh) = Len(block_table[s]) + 1
      <4>1. block_table[s] \in Seq(Block)
        BY <1>1, TypeFacts
      <4> QED
        BY <3>3, <4>1, ConcatProperties
    <3>5. last_block(s) \in Nat /\ num_blocks(s) = last_block(s)
      BY <1>1, <3>2, SizeFacts
    <3>6. \A x \in Seqs : Len(block_table'[x]) <= num_blocks(x)
      BY <1>1, <1>2, <2>2, <3>1, <3>4, <3>5 DEF TypeOK, TablesFit
    <3> QED
      BY <3>2, <3>6, SameText DEF TablesFit
  <2> QED
    BY <2>1, <2>2
<1>10. ASSUME NEW s \in Seqs, Deallocate(s) PROVE TablesFit'
  <2>1. /\ block_table'[s] = <<>> /\ UNCHANGED token_ids
        /\ \A x \in Seqs \ {s} : block_table'[x] = block_table[x]
    BY <1>1, <1>10, DeallocatedTable DEF Deallocate
  <2>2. num_blocks(s) \in Int /\ 0 <= num_blocks(s)
    <3>1. size(s) + BlockSize - 1 \in Nat
      BY <1>2, PoolAssumption
    <3> QED
      BY <3>1, DivBounds, PoolAssumption DEF num_blocks
  <2>3. \A x \in Seqs : Len(block_table'[x]) <= num_blocks(x)
    BY <2>1, <2>2 DEF TablesFit
  <2> QED
    BY <2>1, <2>3, SameText DEF TablesFit
<1>11. CASE UNCHANGED blockManagerVars
  BY <1>3, <1>11 DEF blockManagerVars, seqVars
<1> QED
  BY <1>4, <1>5, <1>6, <1>7, <1>8, <1>9, <1>10, <1>11 DEF BlockManagerNext

-----------------------------------------------------------------------------
(* The invariant of the batches.  Its parts stand beside IndInv and QueueInv, *)
(* which are used freely in the proofs that each is preserved.               *)

\* A prompt that waits always has a token left to compute, and the blocks of a
\* sequence that has finished are gone with the iteration that finished it.
Unfinished ==
  /\ \A s \in Seqs : status[s] = "waiting" => num_cached_tokens[s] < size(s)
  /\ \A s \in Seqs : status[s] = "finished" /\ ~(pc = "release" /\ s = current) =>
                       block_table[s] = <<>>

\* Which kind of batch is being planned.
Kind ==
  /\ pc \in {"idle", "prefill"} => (is_prefill <=> plan # <<>>)
  /\ pc = "decode" => ~ is_prefill

\* The positions of a plan entry lie behind what is cached, within the text and
\* within the table; those of a prompt are its next ones.
Share(e) ==
  /\ e.count > 0 /\ num_cached_tokens[e.seq] <= e.start
  /\ e.start + e.count <= size(e.seq)
  /\ e.start + e.count <= Len(block_table[e.seq]) * BlockSize
  /\ is_prefill => /\ e.start = num_cached_tokens[e.seq]
                   /\ e.count = num_scheduled_tokens[e.seq]

Shares == \A i \in pending : Share(plan[i])

\* Whoever gets to the end of its text in this batch has a sample.
Sampled ==
  /\ pc \in {"commit", "emit", "release"} =>
       \A i \in pending : is_sampled(i) => sampled[i] # NoSample
  /\ pc = "emit" => sampled[index] # NoSample

\* The rows of the plan so far.
Counted ==
  /\ IsFiniteSet(rows)
  /\ pc = "prefill" => Cardinality(rows) = batched_tokens
  /\ pc = "decode" => Cardinality(rows) = Len(plan) /\ Len(plan) <= MaxNumSeqs
  /\ pc = "run" => \/ Cardinality(rows) <= MaxNumBatchedTokens
                   \/ Cardinality(rows) <= MaxNumSeqs

\* With nobody planned and nobody preempted the decode loop has done nothing, and
\* there is somebody running unless nobody waits either.
Stuck ==
  pc = "decode" /\ plan = <<>> /\ ~ preempted_sequence =>
    /\ candidates = Len(running)
    /\ running = <<>> => waiting = <<>>

\* Who has finished is reported, or is in the plan that is being walked over.
Reports ==
  /\ \A s \in reported : s \in Seqs /\ status[s] = "finished"
  /\ \A s \in Seqs : status[s] = "finished" =>
       \/ s \in reported
       \/ /\ pc \in {"commit", "emit", "release", "collect"}
          /\ \E i \in DOMAIN plan : plan[i].seq = s

BatchInv ==
  /\ pc # "error" /\ preempted_sequence \in BOOLEAN /\ is_prefill \in BOOLEAN
  /\ TablesFit /\ Unfinished /\ Kind /\ Shares /\ Sampled /\ Counted /\ Stuck /\ Reports

-----------------------------------------------------------------------------
(* No InternalError *)

\* A pool that no table names can serve every prompt that is not larger.
LEMMA EmptyPoolAdmits ==
  ASSUME IndInv, \A x \in Seqs : block_table[x] = <<>>,
         NEW s \in Seqs, size(s) > 0, num_blocks(s) <= NumBlocks
  PROVE  can_allocate(s)
<1> DEFINE K == {i \in 1 .. cached_blocks(s) : ref_count[hit_block(s, i)] > 0}
<1>1. TypeOK /\ RefCountExact /\ FreeIdsExact
  BY DEF IndInv
<1>2. \A b \in Block : Slots(block_table, b) = {}
  BY DEF Slots, positions
<1>3. \A b \in Block : b \in free_ids
  BY <1>1, <1>2, FS_EmptySet DEF RefCountExact, FreeIdsExact
<1>4. free_ids = Block
  BY <1>1, <1>3 DEF TypeOK
<1>5. Cardinality(free_ids) = NumBlocks
  BY <1>4, FS_Interval, PoolAssumption DEF Block
<1>6. num_blocks(s) \in Nat /\ cached_blocks(s) \in Nat
  BY <1>1, CachedBlocks
<1>7. Cardinality(K) \in Nat
  <2>1. IsFiniteSet(1 .. cached_blocks(s)) /\ K \subseteq 1 .. cached_blocks(s)
    BY <1>6, FS_Interval
  <2> HIDE DEF K
  <2> QED
    BY <2>1, FS_Subset, FS_CardinalityType
<1> HIDE DEF K
<1>8. new_blocks(s) = num_blocks(s) - Cardinality(K)
  BY DEF new_blocks, K
<1> QED
  BY <1>5, <1>6, <1>7, <1>8, PoolAssumption DEF can_allocate

\* The prefill loop admits the front of waiting_ if nobody runs: the pool is free.
LEMMA PrefillProgress ==
  ASSUME IndInv, QueueInv, Unfinished, PrefillEnd, plan = <<>>, running = <<>>
  PROVE  waiting = <<>>
<1> SUFFICES ASSUME waiting # <<>> PROVE FALSE
  OBVIOUS
<1>1. pc = "prefill" /\ Len(plan) = 0
  BY DEF PrefillEnd
<1>2. front \in Seqs /\ status[front] = "waiting" /\ 1 \in DOMAIN waiting
      /\ waiting[1] = front /\ \A i \in DOMAIN waiting : i \in Nat \ {0}
  BY FrontWaits
<1>3. batched_tokens = 0
  BY <1>1 DEF QueueInv, PlanInv
<1>4. ~ token_budget_spent(front)
  BY <1>3, BatchAssumption DEF token_budget_spent, available
<1>5. block_table[front] = <<>> /\ ~ can_allocate(front) /\ num_blocks(front) <= NumBlocks
  BY <1>1, <1>4, BatchAssumption DEF PrefillEnd
<1>6. \A x \in Seqs : block_table[x] = <<>>
  <2> SUFFICES ASSUME NEW x \in Seqs PROVE block_table[x] = <<>>
    OBVIOUS
  <2>1. status[x] \in {"none", "waiting", "running", "finished"}
    BY DEF QueueInv, QueueTypes
  <2>2. status[x] # "running"
    BY DEF QueueInv, Queued, In
  <2>3. status[x] = "waiting" => block_table[x] = <<>>
    <3> SUFFICES ASSUME status[x] = "waiting" PROVE block_table[x] = <<>>
      OBVIOUS
    <3>1. PICK i \in DOMAIN waiting : waiting[i] = x
      BY DEF QueueInv, Queued, In
    <3>2. i = 1 \/ i > 1
      BY <1>2
    <3> QED
      BY <1>2, <1>5, <3>1, <3>2 DEF QueueInv, Tables, OnlyFrontWaitingHoldsBlocks
  <2>4. status[x] = "finished" => block_table[x] = <<>>
    BY <1>1 DEF Unfinished
  <2>5. status[x] = "none" => block_table[x] = <<>>
    BY DEF QueueInv, Tables
  <2> QED
    BY <2>1, <2>2, <2>3, <2>4, <2>5
<1>7. size(front) > 0
  BY <1>2, UnfinishedSize DEF IndInv
<1> QED
  BY <1>2, <1>5, <1>6, <1>7, EmptyPoolAdmits

\* schedule() never ends with nothing planned and nobody preempted.
LEMMA DecodeProgress ==
  ASSUME QueueInv, BatchInv, DecodeEnd
  PROVE  ~ InternalError
<1> SUFFICES ASSUME InternalError PROVE FALSE
  OBVIOUS
<1>1. pc' = "error"
  BY DEF InternalError
<1>2. /\ pc = "decode" /\ plan = <<>> /\ ~ preempted_sequence /\ ~ is_finished
      /\ candidates = 0 \/ Len(plan) >= MaxNumSeqs
  BY <1>1 DEF DecodeEnd
<1>3. Len(plan) = 0
  BY <1>2
<1>4. candidates = 0
  BY <1>2, <1>3, BatchAssumption
<1>5. candidates = Len(running) /\ (running = <<>> => waiting = <<>>)
  BY <1>2 DEF BatchInv, Stuck
<1>6. running = <<>>
  BY <1>4, <1>5 DEF QueueInv, QueueTypes
<1> QED
  BY <1>2, <1>5, <1>6 DEF is_finished

LEMMA AllocateSucceeds ==
  ASSUME IndInv, QueueInv, PrefillAllocate
  PROVE  ~ allocate_fails(front)
<1>1. waiting # <<>> /\ block_table[front] = <<>> /\ can_allocate(front)
  BY DEF PrefillAllocate, InPrefillLoop
<1>2. front \in Seqs /\ status[front] = "waiting"
  BY <1>1, FrontWaits
<1>3. token_ids[front] # <<>>
  BY <1>2, UnfinishedSize DEF IndInv
<1> QED
  BY <1>1, <1>2, <1>3, AllocateFacts DEF AllocateNeverFails

LEMMA PromptRemains ==
  ASSUME IndInv, QueueInv, BatchInv, PrefillSchedule
  PROVE  remaining_tokens(front) # 0
<1>1. waiting # <<>>
  BY DEF PrefillSchedule, InPrefillLoop
<1>2. front \in Seqs /\ status[front] = "waiting"
  BY <1>1, FrontWaits
<1>3. size(front) \in Nat /\ num_cached_tokens[front] \in Nat
      /\ num_cached_tokens[front] < size(front)
  BY <1>2, UnfinishedSize DEF IndInv, BatchInv, Unfinished
<1> QED
  BY <1>3 DEF remaining_tokens

LEMMA CommitSucceeds ==
  ASSUME IndInv, QueueInv, PostCommit
  PROVE  ~ hash_blocks_fails(current)
<1>1. current \in Seqs /\ Due(current)
  BY CurrentFacts DEF PostCommit
<1> QED
  BY <1>1, HashFacts DEF HashNeverFails, Due

LEMMA SampleThere ==
  ASSUME BatchInv, PostEmit
  PROVE  sampled[index] # NoSample
BY DEF BatchInv, Sampled, PostEmit

LEMMA NoErrorNext ==
  ASSUME IndInv, QueueInv, BatchInv, [LLMEngineNext]_engineVars
  PROVE  pc' # "error"
<1>1. pc # "error"
  BY DEF BatchInv
<1>2. CASE \E s \in Seqs, r \in Requests : AddRequest(s, r)
  BY <1>1, <1>2 DEF AddRequest
<1>3. CASE StartStep \/ RunBatch
  BY <1>3 DEF StartStep, RunBatch
<1>4. CASE RejectBatch \/ FailBatch \/ CollectResults
  BY <1>4 DEF RejectBatch, FailBatch, CollectResults, Return
<1>5. CASE PrefillAllocate
  BY <1>1, <1>5, AllocateSucceeds DEF PrefillAllocate
<1>6. CASE PrefillSchedule
  BY <1>6, PromptRemains DEF PrefillSchedule
<1>7. CASE PrefillReject \/ PrefillEnd
  BY <1>7 DEF PrefillReject, PrefillEnd, Return
<1>8. CASE DecodeGrow \/ DecodeSchedule \/ Preempt
  BY <1>1, <1>8 DEF DecodeGrow, DecodeSchedule, Preempt
<1>9. CASE DecodeEnd
  BY <1>9, DecodeProgress DEF DecodeEnd
<1>10. CASE PostCommit
  BY <1>10, CommitSucceeds DEF PostCommit, NextIndex
<1>11. CASE PostEmit
  BY <1>11, SampleThere DEF PostEmit, NextIndex
<1>12. CASE PostRelease
  BY <1>12 DEF PostRelease, NextIndex
<1>13. CASE UNCHANGED engineVars
  BY <1>1, <1>13 DEF engineVars, schedulerVars
<1> QED
  BY <1>2, <1>3, <1>4, <1>5, <1>6, <1>7, <1>8, <1>9, <1>10, <1>11, <1>12, <1>13
    DEF LLMEngineNext, EngineStep, SchedulerStep, ScheduleStep, PostprocessStep, IdleStep

-----------------------------------------------------------------------------
(* Every step preserves the invariant of the batches, part by part *)

\* The prefix cache never provides the whole text.
LEMMA CachedLess ==
  ASSUME TypeOK, NEW s \in Seqs, size(s) > 0
  PROVE  cached_tokens(s) < size(s)
<1>1. /\ num_blocks(s) \in Nat \ {0} /\ cached_blocks(s) \in Nat
      /\ cached_blocks(s) <= num_blocks(s) - 1 /\ num_blocks(s) - 1 \in Nat
  BY CachedBlocks
<1>2. (num_blocks(s) - 1) * BlockSize < size(s)
  BY SizeFacts
<1>3. /\ cached_blocks(s) * BlockSize \in Nat /\ (num_blocks(s) - 1) * BlockSize \in Nat
      /\ cached_blocks(s) * BlockSize <= (num_blocks(s) - 1) * BlockSize
  BY <1>1, ProductMonotone, PoolAssumption
<1> QED
  BY <1>2, <1>3, TypeFacts DEF cached_tokens

\* What a step that changes one sequence s may do to it.
LEMMA UnfinishedOne ==
  ASSUME Unfinished, NEW s \in Seqs, pc # "release" \/ s = current,
         \A x \in Seqs \ {s} : /\ status'[x] = status[x] /\ size(x)' = size(x)
                               /\ num_cached_tokens'[x] = num_cached_tokens[x]
                               /\ block_table'[x] = block_table[x],
         status'[s] = "waiting" => num_cached_tokens'[s] < size(s)',
         status'[s] = "finished" => block_table'[s] = <<>> \/ (pc' = "release" /\ s = current')
  PROVE  Unfinished'
<1>1. \A x \in Seqs : status'[x] = "waiting" => num_cached_tokens'[x] < size(x)'
  BY DEF Unfinished
<1>2. \A x \in Seqs : status'[x] = "finished" /\ ~(pc' = "release" /\ x = current') =>
                        block_table'[x] = <<>>
  BY DEF Unfinished
<1> QED
  BY <1>1, <1>2 DEF Unfinished

LEMMA UnfinishedKept ==
  ASSUME Unfinished, pc # "release",
         UNCHANGED <<status, token_ids, num_cached_tokens, block_table>>
  PROVE  Unfinished'
<1>1. \A x \in Seqs : size(x)' = size(x)
  BY SameText
<1> QED
  BY <1>1 DEF Unfinished

LEMMA UnfinishedNext ==
  ASSUME IndInv, QueueInv, BatchInv, [LLMEngineNext]_engineVars
  PROVE  Unfinished'
<1>1. /\ TypeOK /\ Covered /\ QueueTypes /\ Unfinished /\ pc' # "error"
      /\ status \in [Seqs -> {"none", "waiting", "running", "finished"}]
  BY NoErrorNext DEF IndInv, BatchInv, QueueInv, QueueTypes
<1>2. ASSUME NEW s \in Seqs, NEW r \in Requests, AddRequest(s, r) PROVE Unfinished'
  <2>1. /\ pc = "idle" /\ pc' = "idle" /\ token_ids[s] = <<>>
        /\ token_ids' = [token_ids EXCEPT ![s] = r.prompt]
        /\ status' = [status EXCEPT ![s] = "waiting"]
        /\ UNCHANGED <<block_table, num_cached_tokens, num_scheduled_tokens>>
    BY <1>2 DEF AddRequest, Create
  <2>2. r.prompt \in Seq(Token) /\ r.prompt # <<>>
    BY RequestAssumption, PromptAssumption
  <2>3. \A x \in Seqs \ {s} : size(x)' = size(x) /\ status'[x] = status[x]
    BY <1>1, <2>1 DEF size, TypeOK
  <2>4. size(s) = 0 /\ size(s)' > 0
    <3>1. token_ids'[s] = r.prompt
      BY <1>1, <2>1 DEF TypeOK
    <3> QED
      BY <2>1, <2>2, <3>1 DEF size
  <2>5. num_cached_tokens[s] = 0
    BY <1>1, <2>4, TypeFacts DEF Covered
  <2>6. status'[s] = "waiting"
    BY <1>1, <2>1
  <2> QED
    BY <1>1, <2>1, <2>3, <2>4, <2>5, <2>6, UnfinishedOne
<1>3. CASE StartStep \/ RunBatch \/ RejectBatch \/ FailBatch \/ CollectResults
           \/ PrefillReject \/ PrefillEnd \/ DecodeSchedule
  <2>1. pc # "release" /\ UNCHANGED <<status, token_ids, num_cached_tokens, block_table>>
    BY <1>3 DEF StartStep, RunBatch, RejectBatch, FailBatch, CollectResults, PrefillReject,
         PrefillEnd, InPrefillLoop, DecodeSchedule, InDecodeLoop,
         queueVars, blockManagerVars, seqVars
  <2> QED
    BY <1>1, <2>1, UnfinishedKept
<1>4. CASE DecodeEnd
  <2>1. pc = "decode" /\ UNCHANGED <<status, token_ids, num_cached_tokens, block_table>>
    BY <1>4 DEF DecodeEnd, InternalError, queueVars, blockManagerVars, seqVars
  <2> QED
    BY <1>1, <2>1, UnfinishedKept
<1>5. CASE PrefillAllocate
  <2>1. waiting # <<>> /\ pc = "prefill" /\ block_table[front] = <<>>
    BY <1>5 DEF PrefillAllocate, InPrefillLoop
  <2>2. PICK s \in Seqs : s = front /\ status[s] = "waiting"
    BY <2>1, FrontWaits
  <2>3. allocate(s) /\ UNCHANGED <<status, pc>>
    BY <1>1, <1>5, <2>2 DEF PrefillAllocate, InternalError, queueVars
  <2>4. size(s) > 0 /\ size(s) \in Nat
    BY <1>1, <2>2, UnfinishedSize
  <2>5. /\ block_table' = [block_table EXCEPT ![s] = block_table'[s]]
        /\ num_cached_tokens' = [num_cached_tokens EXCEPT ![s] = cached_tokens(s)]
        /\ UNCHANGED token_ids
    BY <1>1, <2>3, <2>4, AllocatedTable
  <2>6. /\ num_cached_tokens'[s] = cached_tokens(s)
        /\ \A x \in Seqs \ {s} : /\ num_cached_tokens'[x] = num_cached_tokens[x]
                                 /\ block_table'[x] = block_table[x]
    BY <1>1, <2>5 DEF TypeOK
  <2>7. cached_tokens(s) < size(s)
    BY <1>1, <2>4, CachedLess
  <2>8. \A x \in Seqs : size(x)' = size(x)
    BY <2>5, SameText
  <2> QED
    BY <1>1, <2>1, <2>2, <2>3, <2>6, <2>7, <2>8, UnfinishedOne
<1>6. CASE PrefillSchedule
  <2>1. waiting # <<>> /\ pc = "prefill"
    BY <1>6 DEF PrefillSchedule, InPrefillLoop
  <2>2. PICK s \in Seqs : s = front /\ status[s] = "waiting"
    BY <2>1, FrontWaits
  <2>3. /\ UNCHANGED <<token_ids, num_cached_tokens, block_table>>
        /\ status' = [status EXCEPT ![s] = "running"] \/ status' = status
    BY <1>1, <1>6, <2>2 DEF PrefillSchedule, InternalError, queueVars
  <2>4. \A x \in Seqs : size(x)' = size(x)
    BY <2>3, SameText
  <2>5. /\ \A x \in Seqs \ {s} : status'[x] = status[x]
        /\ status'[s] \in {"running", "waiting"}
    BY <1>1, <2>2, <2>3
  <2>6. num_cached_tokens[s] < size(s)
    BY <1>1, <2>2 DEF Unfinished
  <2> QED
    BY <1>1, <2>1, <2>3, <2>4, <2>5, <2>6, UnfinishedOne
<1>7. CASE DecodeGrow
  <2>1. InDecodeLoop /\ may_append(oldest) /\ UNCHANGED <<pc, status>>
    BY <1>7 DEF DecodeGrow, queueVars
  <2>2. PICK s \in Seqs : s = oldest /\ status[s] = "running" /\ pc = "decode"
    BY <2>1, OldestRuns
  <2>3. /\ UNCHANGED <<token_ids, num_cached_tokens>>
        /\ \A x \in Seqs \ {s} : block_table'[x] = block_table[x]
    <3>1. may_append(s)
      BY <2>1, <2>2
    <3> QED
      BY <1>1, <3>1 DEF may_append, TypeOK
  <2>4. \A x \in Seqs : size(x)' = size(x)
    BY <2>3, SameText
  <2> QED
    BY <1>1, <2>1, <2>2, <2>3, <2>4, UnfinishedOne
<1>8. CASE Preempt
  <2>1. /\ InDecodeLoop /\ deallocate(oldest)
        /\ status' = [status EXCEPT ![oldest] = "waiting"] /\ pc' = pc
    BY <1>8 DEF Preempt
  <2>2. PICK s \in Seqs : s = oldest /\ status[s] = "running" /\ pc = "decode"
    BY <2>1, OldestRuns
  <2>3. /\ num_cached_tokens'[s] = 0 /\ UNCHANGED token_ids
        /\ \A x \in Seqs \ {s} : /\ block_table'[x] = block_table[x]
                                 /\ num_cached_tokens'[x] = num_cached_tokens[x]
    BY <1>1, <2>1, <2>2, DeallocatedTable
  <2>4. \A x \in Seqs : size(x)' = size(x)
    BY <2>3, SameText
  <2>5. status'[s] = "waiting" /\ \A x \in Seqs \ {s} : status'[x] = status[x]
    BY <1>1, <2>1, <2>2
  <2>6. size(s) \in Nat \ {0}
    BY <1>1, <2>2, UnfinishedSize
  <2> QED
    BY <1>1, <2>2, <2>3, <2>4, <2>5, <2>6, UnfinishedOne
<1>9. CASE PostCommit
  <2>1. pc = "commit" /\ current \in Seqs
    BY <1>9, CurrentFacts DEF PostCommit
  <2>2. PICK s \in Seqs : s = current
    BY <2>1
  <2>3. /\ num_cached_tokens' = [num_cached_tokens EXCEPT ![s] =
             num_cached_tokens[s] + num_scheduled_tokens[s]]
        /\ UNCHANGED <<status, token_ids, block_table>>
    BY <1>1, <1>9, <2>2 DEF PostCommit, InternalError, queueVars
  <2>4. \A x \in Seqs : size(x)' = size(x)
    BY <2>3, SameText
  <2>5. /\ num_cached_tokens'[s] = num_cached_tokens[s] + num_scheduled_tokens[s]
        /\ \A x \in Seqs \ {s} : num_cached_tokens'[x] = num_cached_tokens[x]
    BY <1>1, <2>3 DEF TypeOK
  <2>6. Due(s)
    BY <2>1, <2>2, CurrentFacts
  <2>7. /\ status[s] \in {"running", "waiting"}
        /\ status[s] = "waiting" =>
             num_cached_tokens[s] + num_scheduled_tokens[s] < size(s)
    BY <2>6 DEF Due
  <2> QED
    BY <1>1, <2>1, <2>3, <2>4, <2>5, <2>7, UnfinishedOne
<1>10. CASE PostEmit
  <2>1. pc = "emit" /\ current \in Seqs
    BY <1>10, CurrentFacts DEF PostEmit
  <2>2. PICK s \in Seqs : s = current /\ status[s] = "running"
    BY <2>1 DEF QueueInv, CurrentInv
  <2>3. /\ token_ids' = [token_ids EXCEPT ![s] = Append(@, sampled[index])]
        /\ \/ /\ status' = [status EXCEPT ![s] = "finished"]
              /\ pc' = "release" /\ index' = index
           \/ status' = status
        /\ UNCHANGED <<plan, num_cached_tokens, block_table>>
    BY <1>1, <1>10, <2>2 DEF PostEmit, InternalError, queueVars
  <2>4. index' = index => current' = s
    BY <2>2, <2>3 DEF current
  <2>5. \A x \in Seqs \ {s} : size(x)' = size(x) /\ status'[x] = status[x]
    BY <1>1, <2>3 DEF size, TypeOK
  <2>6. \/ status'[s] = "running"
        \/ status'[s] = "finished" /\ pc' = "release" /\ index' = index
    BY <1>1, <2>2, <2>3
  <2> QED
    BY <1>1, <2>1, <2>3, <2>4, <2>5, <2>6, UnfinishedOne
<1>11. CASE PostRelease
  <2>1. /\ pc = "release" /\ current \in Seqs /\ deallocate(current)
        /\ status' = status
    BY <1>11, CurrentFacts DEF PostRelease, queueVars
  <2>2. PICK s \in Seqs : s = current /\ status[s] = "finished"
    BY <2>1 DEF QueueInv, CurrentInv
  <2>3. /\ block_table'[s] = <<>> /\ UNCHANGED token_ids
        /\ \A x \in Seqs \ {s} : /\ block_table'[x] = block_table[x]
                                 /\ num_cached_tokens'[x] = num_cached_tokens[x]
    BY <1>1, <2>1, <2>2, DeallocatedTable
  <2>4. \A x \in Seqs : size(x)' = size(x)
    BY <2>3, SameText
  <2> QED
    BY <1>1, <2>1, <2>2, <2>3, <2>4, UnfinishedOne
<1>12. CASE UNCHANGED engineVars
  <2>1. UNCHANGED <<status, token_ids, num_cached_tokens, block_table, pc, plan, index>>
    BY <1>12 DEF engineVars, schedulerVars, queueVars, callVars, blockManagerVars, seqVars
  <2>2. \A x \in Seqs : size(x)' = size(x)
    BY <2>1, SameText
  <2>3. current' = current
    BY <2>1 DEF current
  <2> QED
    BY <1>1, <2>1, <2>2, <2>3 DEF Unfinished
<1> QED
  BY <1>2, <1>3, <1>4, <1>5, <1>6, <1>7, <1>8, <1>9, <1>10, <1>11, <1>12
    DEF LLMEngineNext, EngineStep, SchedulerStep, ScheduleStep, PostprocessStep, IdleStep

LEMMA KindNext ==
  ASSUME IndInv, QueueInv, BatchInv, [LLMEngineNext]_engineVars
  PROVE  Kind' /\ preempted_sequence' \in BOOLEAN /\ is_prefill' \in BOOLEAN
<1>1. /\ QueueTypes /\ Kind /\ pc' # "error"
      /\ preempted_sequence \in BOOLEAN /\ is_prefill \in BOOLEAN
  BY NoErrorNext DEF BatchInv, QueueInv
<1>2. ASSUME UNCHANGED <<pc, plan, is_prefill, preempted_sequence>>
      PROVE  Kind' /\ preempted_sequence' \in BOOLEAN /\ is_prefill' \in BOOLEAN
  BY <1>1, <1>2 DEF Kind
<1>3. ASSUME NEW st, Return(st)
      PROVE  Kind' /\ preempted_sequence' \in BOOLEAN /\ is_prefill' \in BOOLEAN
  BY <1>3 DEF Return, ClearCall, Kind
<1>4. CASE \E s \in Seqs, r \in Requests : AddRequest(s, r)
  BY <1>2, <1>4 DEF AddRequest, callVars
<1>5. CASE StartStep
  BY <1>1, <1>5 DEF StartStep, callVars, Kind
<1>6. CASE PrefillAllocate
  BY <1>1, <1>2, <1>6 DEF PrefillAllocate, InternalError, callVars
<1>7. CASE PrefillSchedule
  <2>1. /\ is_prefill' = TRUE /\ pc' \in {"prefill", "run"}
        /\ UNCHANGED preempted_sequence
        /\ \E e : plan' = Append(plan, e)
    BY <1>1, <1>7 DEF PrefillSchedule, InternalError
  <2>2. plan' # <<>>
    <3> DEFINE Entry == [seq : Seqs, start : Nat, count : Nat]
    <3>1. plan \in Seq(Entry)
      BY <1>1 DEF QueueTypes
    <3> HIDE DEF Entry
    <3>2. PICK e : plan' = Append(plan, e)
      BY <2>1
    <3> QED
      BY <3>1, <3>2
  <2> QED
    BY <1>1, <2>1, <2>2 DEF Kind
<1>8. CASE PrefillReject \/ RejectBatch \/ FailBatch \/ CollectResults
  BY <1>3, <1>8 DEF PrefillReject, RejectBatch, FailBatch, CollectResults
<1>9. CASE PrefillEnd
  BY <1>1, <1>9 DEF PrefillEnd, Kind
<1>10. CASE DecodeGrow
  BY <1>1, <1>2, <1>10 DEF DecodeGrow, callVars
<1>11. CASE DecodeSchedule \/ Preempt
  <2>1. pc = "decode" /\ pc' = "decode" /\ UNCHANGED is_prefill
    BY <1>11 DEF DecodeSchedule, Preempt, InDecodeLoop
  <2>2. preempted_sequence' \in BOOLEAN
    BY <1>1, <1>11 DEF DecodeSchedule, Preempt
  <2> QED
    BY <1>1, <2>1, <2>2 DEF Kind
<1>12. CASE DecodeEnd
  BY <1>1, <1>12 DEF DecodeEnd, InternalError, ClearCall, callVars, Kind
<1>13. CASE RunBatch
  BY <1>1, <1>13 DEF RunBatch, Kind
<1>14. CASE PostCommit \/ PostEmit \/ PostRelease
  <2>1. /\ pc' \in {"commit", "emit", "release", "collect"}
        /\ UNCHANGED <<is_prefill, preempted_sequence>>
    BY <1>1, <1>14 DEF PostCommit, PostEmit, PostRelease, InternalError, NextIndex
  <2> QED
    BY <1>1, <2>1 DEF Kind
<1>15. CASE UNCHANGED engineVars
  BY <1>2, <1>15 DEF engineVars, schedulerVars, callVars
<1> QED
  BY <1>4, <1>5, <1>6, <1>7, <1>8, <1>9, <1>10, <1>11, <1>12, <1>13, <1>14, <1>15
    DEF LLMEngineNext, EngineStep, SchedulerStep, ScheduleStep, PostprocessStep, IdleStep

\* What a step of postprocess leaves as it is.
LEMMA WalkStep ==
  ASSUME TypeOK, QueueInv, PostCommit \/ PostEmit \/ PostRelease, pc' # "error"
  PROVE  /\ pc \in {"commit", "emit", "release"} /\ current \in Seqs
         /\ pc' \in {"commit", "emit", "release", "collect"}
         /\ pc' \in {"emit", "release"} => index' = index
         /\ index \in 1 .. Len(plan)
         /\ pending' \subseteq index + 1 .. Len(plan)
         /\ index + 1 .. Len(plan) \subseteq pending
         /\ \A i \in index + 1 .. Len(plan) : plan[i].seq \in Seqs /\ plan[i].seq # current
         /\ UNCHANGED <<plan, is_prefill, sampled, preempted_sequence>>
         /\ \A x \in Seqs \ {current} :
              /\ status'[x] = status[x] /\ size(x)' = size(x)
              /\ block_table'[x] = block_table[x]
              /\ num_cached_tokens'[x] = num_cached_tokens[x]
              /\ num_scheduled_tokens'[x] = num_scheduled_tokens[x]
<1>1. pc \in {"commit", "emit", "release"}
  BY DEF PostCommit, PostEmit, PostRelease
<1>2. /\ index \in 1 .. Len(plan) /\ current \in Seqs /\ Len(plan) \in Nat
      /\ \A i \in index + 1 .. Len(plan) : plan[i].seq \in Seqs /\ plan[i].seq # current
  BY <1>1, CurrentFacts
<1>3. QueueTypes /\ status \in [Seqs -> {"none", "waiting", "running", "finished"}]
  BY DEF QueueInv, QueueTypes
<1>4. index + 1 .. Len(plan) \subseteq pending
  BY <1>1, <1>2 DEF pending
<1>5. UNCHANGED <<plan, is_prefill, sampled, preempted_sequence>>
  BY DEF PostCommit, PostEmit, PostRelease, InternalError, callVars
<1>6. \/ NextIndex
      \/ pc' \in {"emit", "release"} /\ index' = index
  BY DEF PostCommit, PostEmit, PostRelease, InternalError
<1>7. /\ pc' \in {"commit", "emit", "release", "collect"}
      /\ pc' \in {"emit", "release"} => index' = index
      /\ pending' \subseteq index + 1 .. Len(plan)
  <2>1. CASE NextIndex
    BY <1>2, <1>3, <1>5, <2>1, NextIndexFacts
  <2>2. CASE pc' \in {"emit", "release"} /\ index' = index
    BY <1>2, <1>5, <2>2 DEF pending
  <2> QED
    BY <1>6, <2>1, <2>2
<1>8. PICK s \in Seqs : s = current
  BY <1>2
<1>9. /\ status' = status \/ status' = [status EXCEPT ![s] = "finished"]
      /\ token_ids' = token_ids \/ \E t : token_ids' = [token_ids EXCEPT ![s] = Append(@, t)]
  BY <1>8 DEF PostCommit, PostEmit, PostRelease, InternalError, queueVars, deallocate
<1>10. \A x \in Seqs \ {s} :
         /\ block_table'[x] = block_table[x]
         /\ num_cached_tokens'[x] = num_cached_tokens[x]
         /\ num_scheduled_tokens'[x] = num_scheduled_tokens[x]
  <2>1. CASE PostCommit \/ PostEmit
    BY <1>8, <2>1 DEF PostCommit, PostEmit, InternalError, TypeOK
  <2>2. CASE PostRelease
    <3>1. deallocate(s)
      BY <1>8, <2>2 DEF PostRelease
    <3> QED
      BY <3>1, DeallocatedTable
  <2> QED
    BY <2>1, <2>2
<1>11. \A x \in Seqs \ {s} : status'[x] = status[x] /\ token_ids'[x] = token_ids[x]
  <2>1. \A x \in Seqs \ {s} : status'[x] = status[x]
    BY <1>3, <1>9
  <2>2. \A x \in Seqs \ {s} : token_ids'[x] = token_ids[x]
    BY <1>9 DEF TypeOK
  <2> QED
    BY <2>1, <2>2
<1>12. \A x \in Seqs \ {s} : size(x)' = size(x)
  BY <1>11 DEF size
<1> QED
  BY <1>1, <1>2, <1>4, <1>5, <1>7, <1>8, <1>10, <1>11, <1>12

-----------------------------------------------------------------------------
(* Shares *)

LEMMA SharesFrom ==
  ASSUME \A i \in pending' : \E x \in Seqs :
           /\ x = plan'[i].seq /\ plan'[i].count > 0
           /\ num_cached_tokens'[x] <= plan'[i].start
           /\ plan'[i].start + plan'[i].count <= size(x)'
           /\ plan'[i].start + plan'[i].count <= Len(block_table'[x]) * BlockSize
           /\ is_prefill' => /\ plan'[i].start = num_cached_tokens'[x]
                             /\ plan'[i].count = num_scheduled_tokens'[x]
  PROVE  Shares'
<1> SUFFICES ASSUME NEW i \in pending' PROVE Share(plan[i])'
  BY DEF Shares
<1>1. PICK x \in Seqs :
           /\ x = plan'[i].seq /\ plan'[i].count > 0
           /\ num_cached_tokens'[x] <= plan'[i].start
           /\ plan'[i].start + plan'[i].count <= size(x)'
           /\ plan'[i].start + plan'[i].count <= Len(block_table'[x]) * BlockSize
           /\ is_prefill' => /\ plan'[i].start = num_cached_tokens'[x]
                             /\ plan'[i].count = num_scheduled_tokens'[x]
  OBVIOUS
<1> QED
  BY <1>1 DEF Share, size

\* Those that stay in the plan are not touched.
LEMMA SharesKept ==
  ASSUME TypeOK, QueueInv, Shares, UNCHANGED is_prefill, pending' \subseteq pending,
         \A i \in pending' : plan'[i] = plan[i],
         \A i \in pending' : \A x \in Seqs : x = plan[i].seq =>
           /\ num_cached_tokens'[x] = num_cached_tokens[x]
           /\ num_scheduled_tokens'[x] = num_scheduled_tokens[x]
           /\ size(x)' = size(x) /\ block_table'[x] = block_table[x]
  PROVE  Shares'
<1> SUFFICES ASSUME NEW i \in pending'
             PROVE  \E x \in Seqs :
               /\ x = plan'[i].seq /\ plan'[i].count > 0
               /\ num_cached_tokens'[x] <= plan'[i].start
               /\ plan'[i].start + plan'[i].count <= size(x)'
               /\ plan'[i].start + plan'[i].count <= Len(block_table'[x]) * BlockSize
               /\ is_prefill' => /\ plan'[i].start = num_cached_tokens'[x]
                                 /\ plan'[i].count = num_scheduled_tokens'[x]
  BY SharesFrom
<1>1. i \in pending /\ plan'[i] = plan[i] /\ plan[i].seq \in Seqs
  BY PendingInPlan DEF QueueInv
<1>2. PICK x \in Seqs : x = plan[i].seq
  BY <1>1
<1>3. /\ num_cached_tokens'[x] = num_cached_tokens[x]
      /\ num_scheduled_tokens'[x] = num_scheduled_tokens[x]
      /\ size(x)' = size(x) /\ block_table'[x] = block_table[x]
  BY <1>2
<1>4. Share(plan[i])
  BY <1>1 DEF Shares
<1>5. /\ plan[i].count > 0 /\ num_cached_tokens[x] <= plan[i].start
      /\ plan[i].start + plan[i].count <= size(x)
      /\ plan[i].start + plan[i].count <= Len(block_table[x]) * BlockSize
      /\ is_prefill => /\ plan[i].start = num_cached_tokens[x]
                       /\ plan[i].count = num_scheduled_tokens[x]
  BY <1>2, <1>4 DEF Share
<1> QED
  BY <1>1, <1>2, <1>3, <1>5

\* A step of the two loops that plans nobody and touches nobody who is planned.
LEMMA SharesElsewhere ==
  ASSUME TypeOK, QueueInv, Shares, NEW s \in Seqs, UNCHANGED <<plan, is_prefill>>,
         pc \in {"prefill", "decode"}, pc' \in {"prefill", "decode", "run"},
         \A i \in DOMAIN plan : plan[i].seq # s,
         \A x \in Seqs \ {s} :
           /\ num_cached_tokens'[x] = num_cached_tokens[x]
           /\ num_scheduled_tokens'[x] = num_scheduled_tokens[x]
           /\ size(x)' = size(x) /\ block_table'[x] = block_table[x]
  PROVE  Shares'
<1>1. pending = DOMAIN plan /\ pending' = DOMAIN plan
  BY DEF pending
<1>2. \A i \in pending' : \A x \in Seqs : x = plan[i].seq =>
           /\ num_cached_tokens'[x] = num_cached_tokens[x]
           /\ num_scheduled_tokens'[x] = num_scheduled_tokens[x]
           /\ size(x)' = size(x) /\ block_table'[x] = block_table[x]
  BY <1>1
<1> QED
  BY <1>1, <1>2, SharesKept

\* A step that appends an entry for s to the plan.
LEMMA SharesAppended ==
  ASSUME TypeOK, QueueInv, Shares, NEW s \in Seqs, NEW a \in Nat, NEW n \in Nat,
         plan' = Append(plan, [seq |-> s, start |-> a, count |-> n]),
         pc \in {"prefill", "decode"}, pc' \in {"prefill", "decode", "run"},
         plan # <<>> => is_prefill' = is_prefill,
         \A i \in DOMAIN plan : plan[i].seq # s,
         UNCHANGED <<token_ids, block_table, num_cached_tokens>>,
         \A x \in Seqs \ {s} : num_scheduled_tokens'[x] = num_scheduled_tokens[x],
         n > 0, num_cached_tokens[s] <= a, a + n <= size(s),
         a + n <= Len(block_table[s]) * BlockSize,
         is_prefill' => a = num_cached_tokens[s] /\ n = num_scheduled_tokens'[s]
  PROVE  Shares'
<1> DEFINE m == Len(plan)
           ok(i, x) == /\ x = plan'[i].seq /\ plan'[i].count > 0
                       /\ num_cached_tokens[x] <= plan'[i].start
                       /\ plan'[i].start + plan'[i].count <= size(x)
                       /\ plan'[i].start + plan'[i].count <= Len(block_table[x]) * BlockSize
                       /\ is_prefill' => /\ plan'[i].start = num_cached_tokens[x]
                                         /\ plan'[i].count = num_scheduled_tokens'[x]
<1>1. /\ DOMAIN plan = 1 .. m /\ DOMAIN plan' = 1 .. m + 1 /\ m \in Nat
      /\ \A i \in 1 .. m : plan'[i] = plan[i]
      /\ plan'[m + 1] = [seq |-> s, start |-> a, count |-> n]
  <2> DEFINE Entry == [seq : Seqs, start : Nat, count : Nat]
             e == [seq |-> s, start |-> a, count |-> n]
  <2>1. plan \in Seq(Entry) /\ e \in Entry /\ plan' = Append(plan, e)
    BY DEF QueueInv, QueueTypes
  <2> HIDE DEF Entry, e
  <2>2. /\ DOMAIN plan = 1 .. m /\ DOMAIN plan' = 1 .. m + 1 /\ m \in Nat
        /\ \A i \in 1 .. m : plan'[i] = plan[i]
        /\ plan'[m + 1] = e
    BY <2>1
  <2> QED
    BY <2>2 DEF e
<1>2. pending = 1 .. m /\ pending' = 1 .. m + 1
  BY <1>1 DEF pending
<1> HIDE DEF m
<1>3. ok(m + 1, s)
  BY <1>1
<1>4. ASSUME NEW i \in 1 .. m PROVE \E x \in Seqs : ok(i, x)
  <2>1. plan[i].seq \in Seqs /\ plan[i].seq # s /\ plan'[i] = plan[i] /\ plan # <<>>
    BY <1>1, <1>4, PendingInPlan DEF QueueInv, m
  <2>2. PICK x \in Seqs : x = plan[i].seq
    BY <2>1
  <2>3. Share(plan[i])
    BY <1>2 DEF Shares
  <2>4. /\ plan[i].count > 0 /\ num_cached_tokens[x] <= plan[i].start
        /\ plan[i].start + plan[i].count <= size(x)
        /\ plan[i].start + plan[i].count <= Len(block_table[x]) * BlockSize
        /\ is_prefill => /\ plan[i].start = num_cached_tokens[x]
                         /\ plan[i].count = num_scheduled_tokens[x]
    BY <2>2, <2>3 DEF Share
  <2>5. num_scheduled_tokens'[x] = num_scheduled_tokens[x] /\ is_prefill' = is_prefill
    BY <2>1, <2>2
  <2> QED
    BY <2>1, <2>2, <2>4, <2>5
<1>5. \A i \in pending' : \E x \in Seqs : ok(i, x)
  <2>1. \A i \in 1 .. m + 1 : i \in 1 .. m \/ i = m + 1
    BY <1>1
  <2> HIDE DEF ok
  <2> QED
    BY <1>2, <1>3, <1>4, <2>1
<1>6. \A x \in Seqs : size(x)' = size(x)
  BY SameText
<1> QED
  BY <1>5, <1>6, SharesFrom

LEMMA SharesNext ==
  ASSUME IndInv, QueueInv, BatchInv, [LLMEngineNext]_engineVars
  PROVE  Shares'
<1>1. /\ TypeOK /\ QueueTypes /\ PlanInv /\ Shares /\ Kind /\ pc' # "error"
      /\ is_prefill \in BOOLEAN /\ plan \in Seq([seq : Seqs, start : Nat, count : Nat])
  BY NoErrorNext DEF IndInv, BatchInv, QueueInv, QueueTypes
<1>2. ASSUME pending' = {} PROVE Shares'
  BY <1>2 DEF Shares
<1>3. CASE \/ \E s \in Seqs, r \in Requests : AddRequest(s, r)
           \/ StartStep
  <2>1. pc = "idle" /\ pc' \in {"idle", "prefill"} /\ plan' = plan
    BY <1>3 DEF AddRequest, StartStep, callVars
  <2>2. plan' = <<>>
    BY <1>1, <2>1 DEF PlanInv
  <2> QED
    BY <1>2, <2>1, <2>2 DEF pending
<1>4. CASE PrefillReject \/ RejectBatch \/ FailBatch \/ CollectResults
  BY <1>2, <1>4 DEF PrefillReject, RejectBatch, FailBatch, CollectResults, Return, pending
<1>5. CASE PrefillAllocate
  <2>1. waiting # <<>> /\ pc = "prefill" /\ block_table[front] = <<>>
    BY <1>5 DEF PrefillAllocate, InPrefillLoop
  <2>2. PICK s \in Seqs : s = front /\ status[s] = "waiting"
    BY <2>1, FrontWaits
  <2>3. allocate(s) /\ UNCHANGED <<plan, is_prefill, pc>>
    BY <1>1, <1>5, <2>2 DEF PrefillAllocate, InternalError, callVars
  <2>4. size(s) > 0 /\ size(s) \in Nat
    BY <1>1, <2>2, UnfinishedSize
  <2>5. /\ block_table' = [block_table EXCEPT ![s] = block_table'[s]]
        /\ num_cached_tokens' = [num_cached_tokens EXCEPT ![s] = cached_tokens(s)]
        /\ UNCHANGED <<token_ids, num_scheduled_tokens>>
    BY <1>1, <2>3, <2>4, AllocatedTable
  <2>6. \A x \in Seqs \ {s} : /\ num_cached_tokens'[x] = num_cached_tokens[x]
                              /\ block_table'[x] = block_table[x]
    BY <1>1, <2>5 DEF TypeOK
  <2>7. \A x \in Seqs : size(x)' = size(x)
    BY <2>5, SameText
  <2>8. \A i \in DOMAIN plan : plan[i].seq # s
    BY <2>1, <2>2, PlannedRunning
  <2> QED
    BY <1>1, <2>1, <2>3, <2>5, <2>6, <2>7, <2>8, SharesElsewhere
<1>6. CASE PrefillSchedule
  <2>1. waiting # <<>> /\ pc = "prefill" /\ block_table[front] # <<>>
    BY <1>6 DEF PrefillSchedule, InPrefillLoop
  <2>2. PICK s \in Seqs : s = front /\ status[s] = "waiting"
    BY <2>1, FrontWaits
  <2> DEFINE left == remaining_tokens(s)
             n == IF left <= available THEN left ELSE available
  <2>3. /\ ~ token_budget_spent(s)
        /\ num_scheduled_tokens' = [num_scheduled_tokens EXCEPT ![s] = n]
        /\ plan' = Append(plan, [seq |-> s, start |-> num_cached_tokens[s], count |-> n])
        /\ is_prefill' = TRUE /\ pc' \in {"prefill", "run"}
        /\ UNCHANGED <<token_ids, block_table, num_cached_tokens>>
    BY <1>1, <1>6, <2>2 DEF PrefillSchedule, InternalError
  <2>4. /\ size(s) \in Nat \ {0} /\ num_cached_tokens[s] \in Nat
        /\ num_cached_tokens[s] < size(s)
    BY <1>1, <2>2, UnfinishedSize DEF BatchInv, Unfinished
  <2>5. left = size(s) - num_cached_tokens[s] /\ available \in Nat /\ available # 0
    <3>1. available \in Nat
      BY <1>1, BatchAssumption DEF QueueTypes, available
    <3> QED
      BY <2>3, <3>1 DEF remaining_tokens, token_budget_spent
  <2> HIDE DEF left
  <2>6. n \in Nat /\ n > 0 /\ num_cached_tokens[s] + n <= size(s)
    BY <2>4, <2>5
  <2>7. num_cached_tokens[s] + n <= Len(block_table[s]) * BlockSize
    <3>1. Len(block_table[s]) = num_blocks(s)
      BY <2>1, <2>2 DEF QueueInv, Tables
    <3>2. /\ num_blocks(s) = last_block(s) /\ last_block(s) \in Nat
          /\ size(s) <= last_block(s) * BlockSize
      BY <1>1, <2>4, SizeFacts
    <3>3. last_block(s) * BlockSize \in Nat
      BY <3>2, PoolAssumption
    <3> HIDE DEF n
    <3> QED
      BY <2>4, <2>6, <3>1, <3>2, <3>3
  <2>8. \A i \in DOMAIN plan : plan[i].seq # s
    BY <2>1, <2>2, PlannedRunning
  <2>9. plan # <<>> => is_prefill' = is_prefill
    BY <1>1, <2>1, <2>3 DEF Kind
  <2>10. /\ num_scheduled_tokens'[s] = n
         /\ \A x \in Seqs \ {s} : num_scheduled_tokens'[x] = num_scheduled_tokens[x]
    BY <1>1, <2>3 DEF TypeOK
  <2> DEFINE a == num_cached_tokens[s]
  <2>11. /\ plan' = Append(plan, [seq |-> s, start |-> a, count |-> n])
         /\ a \in Nat /\ a = num_cached_tokens[s] /\ num_cached_tokens[s] <= a
         /\ a + n <= size(s) /\ a + n <= Len(block_table[s]) * BlockSize
    BY <2>3, <2>4, <2>6, <2>7
  <2> HIDE DEF a, n
  <2>12. /\ n \in Nat /\ n > 0 /\ pc' \in {"prefill", "decode", "run"}
         /\ is_prefill' => a = num_cached_tokens[s] /\ n = num_scheduled_tokens'[s]
    BY <2>3, <2>6, <2>10, <2>11
  <2> QED
    BY <1>1, <2>1, <2>3, <2>8, <2>9, <2>10, <2>11, <2>12, SharesAppended
<1>7. CASE PrefillEnd
  <2>1. /\ pc = "prefill" /\ pc' \in {"run", "decode"}
        /\ UNCHANGED <<plan, is_prefill, token_ids, block_table, num_cached_tokens,
                       num_scheduled_tokens>>
    BY <1>7 DEF PrefillEnd, blockManagerVars, seqVars
  <2>2. pending = DOMAIN plan /\ pending' = DOMAIN plan
    BY <2>1 DEF pending
  <2>3. \A x \in Seqs : size(x)' = size(x)
    BY <2>1, SameText
  <2> QED
    BY <1>1, <2>1, <2>2, <2>3, SharesKept
<1>8. CASE DecodeGrow
  <2>1. InDecodeLoop /\ may_append(oldest) /\ UNCHANGED <<pc, plan, is_prefill>>
    BY <1>8 DEF DecodeGrow, callVars
  <2>2. PICK s \in Seqs : s = oldest /\ pc = "decode"
    BY <2>1, OldestRuns
  <2>3. /\ UNCHANGED <<token_ids, num_cached_tokens, num_scheduled_tokens>>
        /\ \A x \in Seqs \ {s} : block_table'[x] = block_table[x]
    <3>1. may_append(s)
      BY <2>1, <2>2
    <3> QED
      BY <1>1, <3>1 DEF may_append, TypeOK
  <2>4. \A x \in Seqs : size(x)' = size(x)
    BY <2>3, SameText
  <2>5. \A i \in DOMAIN plan : plan[i].seq # s
    BY <2>1, <2>2, OldestRuns
  <2> QED
    BY <1>1, <2>1, <2>2, <2>3, <2>4, <2>5, SharesElsewhere
<1>9. CASE DecodeSchedule
  <2>1. InDecodeLoop
    BY <1>9 DEF DecodeSchedule
  <2>2. PICK s \in Seqs : s = oldest /\ pc = "decode" /\ status[s] = "running"
    BY <2>1, OldestRuns
  <2>3. /\ last_block(s) <= Len(block_table[s])
        /\ num_scheduled_tokens' = [num_scheduled_tokens EXCEPT ![s] = 1]
        /\ plan' = Append(plan, [seq |-> s, start |-> size(s) - 1, count |-> 1])
        /\ UNCHANGED <<pc, is_prefill, token_ids, block_table, num_cached_tokens>>
    BY <1>9, <2>2 DEF DecodeSchedule
  <2>4. /\ size(s) \in Nat \ {0} /\ num_cached_tokens[s] \in Nat
        /\ num_cached_tokens[s] < size(s)
    BY <1>1, <2>2, UnfinishedSize DEF QueueInv, Behind
  <2>5. /\ size(s) - 1 \in Nat /\ num_cached_tokens[s] <= size(s) - 1
        /\ (size(s) - 1) + 1 = size(s)
    BY <2>4
  <2>6. size(s) <= Len(block_table[s]) * BlockSize
    <3>1. last_block(s) \in Nat /\ size(s) <= last_block(s) * BlockSize
          /\ Len(block_table[s]) \in Nat
      BY <1>1, <2>4, SizeFacts, TypeFacts
    <3>2. /\ last_block(s) * BlockSize <= Len(block_table[s]) * BlockSize
          /\ last_block(s) * BlockSize \in Nat /\ Len(block_table[s]) * BlockSize \in Nat
      BY <2>3, <3>1, ProductMonotone, PoolAssumption
    <3> QED
      BY <2>4, <3>1, <3>2
  <2>7. \A i \in DOMAIN plan : plan[i].seq # s
    BY <2>1, <2>2, OldestRuns
  <2>8. ~ is_prefill
    BY <1>1, <2>2 DEF Kind
  <2>9. \A x \in Seqs \ {s} : num_scheduled_tokens'[x] = num_scheduled_tokens[x]
    BY <1>1, <2>3 DEF TypeOK
  <2> DEFINE a == size(s) - 1
  <2>10. /\ a \in Nat /\ num_cached_tokens[s] <= a /\ a + 1 = size(s)
         /\ plan' = Append(plan, [seq |-> s, start |-> a, count |-> 1])
    BY <2>3, <2>5
  <2> HIDE DEF a
  <2>11. a + 1 <= size(s) /\ a + 1 <= Len(block_table[s]) * BlockSize
    BY <2>4, <2>6, <2>10
  <2>12. 1 \in Nat /\ 1 > 0 /\ pc' \in {"prefill", "decode", "run"} /\ ~ is_prefill'
         /\ is_prefill' = is_prefill
    BY <2>2, <2>3, <2>8
  <2> QED
    BY <1>1, <2>2, <2>3, <2>7, <2>9, <2>10, <2>11, <2>12, SharesAppended
<1>10. CASE Preempt
  <2>1. InDecodeLoop /\ deallocate(oldest) /\ UNCHANGED <<pc, plan, is_prefill>>
    BY <1>10 DEF Preempt
  <2>2. PICK s \in Seqs : s = oldest /\ pc = "decode"
    BY <2>1, OldestRuns
  <2>3. /\ UNCHANGED token_ids
        /\ \A x \in Seqs \ {s} : /\ block_table'[x] = block_table[x]
                                 /\ num_cached_tokens'[x] = num_cached_tokens[x]
                                 /\ num_scheduled_tokens'[x] = num_scheduled_tokens[x]
    BY <1>1, <2>1, <2>2, DeallocatedTable
  <2>4. \A x \in Seqs : size(x)' = size(x)
    BY <2>3, SameText
  <2>5. \A i \in DOMAIN plan : plan[i].seq # s
    BY <2>1, <2>2, OldestRuns
  <2> QED
    BY <1>1, <2>1, <2>2, <2>3, <2>4, <2>5, SharesElsewhere
<1>11. CASE DecodeEnd
  <2>1. CASE pc' = "run"
    <3>1. /\ pc = "decode"
          /\ UNCHANGED <<plan, is_prefill, token_ids, block_table, num_cached_tokens,
                         num_scheduled_tokens>>
      BY <1>1, <1>11, <2>1
        DEF DecodeEnd, InternalError, ClearCall, callVars, blockManagerVars, seqVars
    <3>2. pending = DOMAIN plan /\ pending' = DOMAIN plan
      BY <2>1, <3>1 DEF pending
    <3> QED
      BY <1>1, <3>1, <3>2, SameText, SharesKept
  <2>2. CASE pc' # "run"
    BY <1>1, <1>2, <1>11, <2>2 DEF DecodeEnd, InternalError, ClearCall, pending
  <2> QED
    BY <2>1, <2>2
<1>12. CASE RunBatch
  <2>1. /\ pc = "run" /\ pc' = "commit" /\ index' = 1
        /\ UNCHANGED <<plan, is_prefill, token_ids, block_table, num_cached_tokens,
                       num_scheduled_tokens>>
    BY <1>12 DEF RunBatch, blockManagerVars, seqVars
  <2>2. DOMAIN plan = 1 .. Len(plan)
    BY <1>1, PendingInPlan
  <2>3. pending = DOMAIN plan /\ pending' = DOMAIN plan
    BY <2>1, <2>2 DEF pending
  <2> QED
    BY <1>1, <2>1, <2>3, SameText, SharesKept
<1>13. CASE PostCommit \/ PostEmit \/ PostRelease
  <2>1. /\ pending' \subseteq index + 1 .. Len(plan) /\ index + 1 .. Len(plan) \subseteq pending
        /\ \A i \in index + 1 .. Len(plan) : plan[i].seq \in Seqs /\ plan[i].seq # current
        /\ UNCHANGED <<plan, is_prefill>>
        /\ \A x \in Seqs \ {current} :
             /\ size(x)' = size(x) /\ block_table'[x] = block_table[x]
             /\ num_cached_tokens'[x] = num_cached_tokens[x]
             /\ num_scheduled_tokens'[x] = num_scheduled_tokens[x]
    BY <1>1, <1>13, WalkStep
  <2> QED
    BY <1>1, <2>1, SharesKept
<1>14. CASE UNCHANGED engineVars
  <2>1. UNCHANGED <<pc, plan, is_prefill, index, token_ids, block_table, num_cached_tokens,
                    num_scheduled_tokens>>
    BY <1>14 DEF engineVars, schedulerVars, callVars, blockManagerVars, seqVars
  <2>2. pending' = pending
    BY <2>1 DEF pending
  <2> QED
    BY <1>1, <2>1, <2>2, SameText, SharesKept
<1> QED
  BY <1>3, <1>4, <1>5, <1>6, <1>7, <1>8, <1>9, <1>10, <1>11, <1>12, <1>13, <1>14
    DEF LLMEngineNext, EngineStep, SchedulerStep, ScheduleStep, PostprocessStep, IdleStep

-----------------------------------------------------------------------------
(* Sampled *)

\* Sampling yields a token, or none for an entry that gets no logits row.
LEMMA SamplesAreTokens ==
  ASSUME TypeOK, QueueInv, NEW i \in pending
  PROVE  is_sampled(i) => NoSample \notin samples(i)
<1>1. plan[i].seq \in Seqs /\ Due(plan[i].seq)
  BY PendingInPlan DEF QueueInv, PlanInv
<1>2. PICK s \in Seqs : s = plan[i].seq /\ Due(s)
  BY <1>1
<1>3. status[s] \in {"waiting", "running"}
  BY <1>2 DEF Due
<1>4. size(s) \in Nat \ {0} /\ size(s) < MaxLen /\ token_ids[s] \in Seq(Token)
  BY <1>3, UnfinishedSize
<1>5. size(s) \in 1 .. MaxLen /\ token_ids[s] \in [1 .. size(s) -> Token]
  BY <1>4, LengthAssumption DEF size
<1>6. /\ LM(token_ids[s]) \subseteq Token /\ Vocabulary \subseteq Token
      /\ NoSample \notin Token
  BY <1>5, SamplingAssumption
<1> QED
  BY <1>2, <1>6 DEF samples

LEMMA SampledNext ==
  ASSUME IndInv, QueueInv, BatchInv, [LLMEngineNext]_engineVars
  PROVE  Sampled'
<1>1. /\ TypeOK /\ Covered /\ QueueTypes /\ PlanInv /\ Shares /\ Sampled /\ pc' # "error"
      /\ is_prefill \in BOOLEAN
  BY NoErrorNext DEF IndInv, BatchInv, QueueInv
<1>2. ASSUME pc' \notin {"commit", "emit", "release"} PROVE Sampled'
  BY <1>2 DEF Sampled
<1>3. CASE RunBatch
  <2>1. /\ pc = "run" /\ pc' = "commit" /\ index' = 1
        /\ \A i \in DOMAIN plan : sampled'[i] \in samples(i)
        /\ UNCHANGED <<plan, is_prefill, token_ids>>
    BY <1>3 DEF RunBatch, blockManagerVars, seqVars
  <2>2. DOMAIN plan = 1 .. Len(plan)
    BY <1>1, PendingInPlan
  <2>3. pending = DOMAIN plan /\ pending' = DOMAIN plan
    BY <2>1, <2>2 DEF pending
  <2>4. \A i \in DOMAIN plan : is_sampled(i)' <=> is_sampled(i)
    BY <2>1 DEF is_sampled, size
  <2>5. \A i \in DOMAIN plan : is_sampled(i) => sampled'[i] # NoSample
    BY <1>1, <2>1, <2>3, SamplesAreTokens
  <2> QED
    BY <2>1, <2>3, <2>4, <2>5 DEF Sampled
<1>4. CASE PostCommit \/ PostEmit \/ PostRelease
  <2>1. /\ pc \in {"commit", "emit", "release"} /\ index \in 1 .. Len(plan)
        /\ pending' \subseteq index + 1 .. Len(plan) /\ index + 1 .. Len(plan) \subseteq pending
        /\ \A i \in index + 1 .. Len(plan) : plan[i].seq \in Seqs /\ plan[i].seq # current
        /\ UNCHANGED <<plan, is_prefill, sampled>>
        /\ \A x \in Seqs \ {current} : size(x)' = size(x)
        /\ pc' \in {"emit", "release"} => index' = index
    BY <1>1, <1>4, WalkStep
  <2>2. ASSUME NEW i \in pending', is_sampled(i)' PROVE sampled'[i] # NoSample
    <3>1. PICK x \in Seqs : x = plan[i].seq /\ x # current
      BY <2>1
    <3>2. size(x)' = size(x)
      BY <2>1, <3>1
    <3>3. is_sampled(i)
      BY <2>1, <2>2, <3>1, <3>2 DEF is_sampled, size
    <3> QED
      BY <1>1, <2>1, <3>3 DEF Sampled
  <2>3. ASSUME pc' = "emit" PROVE sampled'[index'] # NoSample
    <3>1. PostCommit
      BY <1>4, <2>3 DEF PostEmit, PostRelease, InternalError, NextIndex
    <3>2. pc = "commit" /\ index' = index
      BY <2>1, <2>3, <3>1 DEF PostCommit
    <3>3. PICK s \in Seqs : s = current /\ s = plan[index].seq
      BY <2>1, <3>2, CurrentFacts DEF current
    <3>4. ~(is_prefill /\ num_cached_tokens[s] + num_scheduled_tokens[s] < size(s))
      BY <1>1, <2>3, <3>1, <3>3 DEF PostCommit, NextIndex, InternalError
    <3>5. index \in pending
      BY <2>1, <3>2 DEF pending
    <3>6. is_prefill => /\ plan[index].start = num_cached_tokens[s]
                        /\ plan[index].count = num_scheduled_tokens[s]
      BY <1>1, <3>3, <3>5 DEF Shares, Share
    <3>7. num_cached_tokens[s] + num_scheduled_tokens[s] <= size(s)
      BY <1>1 DEF Covered
    <3>8. is_prefill => num_cached_tokens[s] + num_scheduled_tokens[s] = size(s)
      BY <1>1, <3>4, <3>7, TypeFacts
    <3>9. is_sampled(index)
      BY <1>1, <3>3, <3>6, <3>8 DEF is_sampled
    <3> QED
      BY <1>1, <2>1, <3>2, <3>5, <3>9 DEF Sampled
  <2> QED
    BY <2>2, <2>3 DEF Sampled
<1>5. CASE \/ \E s \in Seqs, r \in Requests : AddRequest(s, r)
           \/ StartStep \/ RejectBatch \/ FailBatch \/ CollectResults
           \/ PrefillReject \/ PrefillEnd \/ PrefillSchedule
  BY <1>1, <1>2, <1>5 DEF AddRequest, StartStep, RejectBatch, FailBatch, CollectResults,
       PrefillReject, PrefillEnd, PrefillSchedule, Return, InternalError
<1>6. CASE PrefillAllocate \/ DecodeGrow \/ DecodeSchedule \/ Preempt \/ DecodeEnd
  BY <1>1, <1>2, <1>6 DEF PrefillAllocate, InPrefillLoop, DecodeGrow, DecodeSchedule, Preempt,
       InDecodeLoop, DecodeEnd, InternalError
<1>7. CASE UNCHANGED engineVars
  <2>1. UNCHANGED <<pc, plan, is_prefill, index, sampled, token_ids>>
    BY <1>7 DEF engineVars, schedulerVars, callVars, blockManagerVars, seqVars
  <2>2. pending' = pending
    BY <2>1 DEF pending
  <2>3. \A i \in pending : is_sampled(i)' <=> is_sampled(i)
    BY <2>1 DEF is_sampled, size
  <2> QED
    BY <1>1, <2>1, <2>2, <2>3 DEF Sampled
<1> QED
  BY <1>3, <1>4, <1>5, <1>6, <1>7
    DEF LLMEngineNext, EngineStep, SchedulerStep, ScheduleStep, PostprocessStep, IdleStep

-----------------------------------------------------------------------------
(* Stuck *)

LEMMA StuckNext ==
  ASSUME IndInv, QueueInv, BatchInv, [LLMEngineNext]_engineVars
  PROVE  Stuck'
<1>1. /\ QueueTypes /\ Stuck /\ Unfinished /\ pc' # "error"
      /\ plan \in Seq([seq : Seqs, start : Nat, count : Nat])
  BY NoErrorNext DEF BatchInv, QueueInv, QueueTypes
<1>2. ASSUME pc' # "decode" PROVE Stuck'
  BY <1>2 DEF Stuck
<1>3. ASSUME UNCHANGED <<pc, plan, preempted_sequence, candidates, running, waiting>>
      PROVE  Stuck'
  BY <1>1, <1>3 DEF Stuck
<1>4. CASE PrefillEnd
  <2>1. /\ UNCHANGED <<running, waiting, plan>>
        /\ pc' = "decode" => plan = <<>> /\ candidates' = Len(running)
    BY <1>4 DEF PrefillEnd, queueVars
  <2>2. plan = <<>> /\ running = <<>> => waiting = <<>>
    BY <1>1, <1>4, PrefillProgress
  <2> QED
    BY <2>1, <2>2 DEF Stuck
<1>5. CASE DecodeGrow
  BY <1>3, <1>5 DEF DecodeGrow, queueVars, callVars
<1>6. CASE DecodeSchedule
  <2>1. plan' = Append(plan, [seq |-> oldest, start |-> size(oldest) - 1, count |-> 1])
    BY <1>6 DEF DecodeSchedule
  <2>2. plan' # <<>>
    <3> DEFINE Entry == [seq : Seqs, start : Nat, count : Nat]
    <3>1. plan \in Seq(Entry)
      BY <1>1
    <3> HIDE DEF Entry
    <3>2. PICK e : plan' = Append(plan, e)
      BY <2>1
    <3> QED
      BY <3>1, <3>2
  <2> QED
    BY <2>2 DEF Stuck
<1>7. CASE Preempt
  BY <1>7 DEF Preempt, Stuck
<1>8. CASE PostCommit \/ PostEmit \/ PostRelease
  BY <1>1, <1>2, <1>8 DEF PostCommit, PostEmit, PostRelease, NextIndex, InternalError
<1>9. CASE \/ \E s \in Seqs, r \in Requests : AddRequest(s, r)
           \/ StartStep \/ RejectBatch \/ FailBatch \/ CollectResults
           \/ PrefillReject \/ PrefillSchedule \/ RunBatch
  BY <1>1, <1>2, <1>9 DEF AddRequest, StartStep, RejectBatch, FailBatch, CollectResults,
       PrefillReject, PrefillSchedule, RunBatch, Return, InternalError
<1>10. CASE PrefillAllocate \/ DecodeEnd
  BY <1>1, <1>2, <1>10 DEF PrefillAllocate, InPrefillLoop, DecodeEnd, InternalError
<1>11. CASE UNCHANGED engineVars
  BY <1>3, <1>11 DEF engineVars, schedulerVars, queueVars, callVars
<1> QED
  BY <1>4, <1>5, <1>6, <1>7, <1>8, <1>9, <1>10, <1>11
    DEF LLMEngineNext, EngineStep, SchedulerStep, ScheduleStep, PostprocessStep, IdleStep

-----------------------------------------------------------------------------
(* Reports *)

\* Outside postprocess nobody finishes.
LEMMA ReportsOutside ==
  ASSUME Reports, pc \notin {"commit", "emit", "release", "collect"}, reported' = reported,
         \A s \in Seqs : status'[s] = "finished" <=> status[s] = "finished"
  PROVE  Reports'
BY DEF Reports

LEMMA ReportsNext ==
  ASSUME IndInv, QueueInv, BatchInv, [LLMEngineNext]_engineVars
  PROVE  Reports'
<1>1. /\ TypeOK /\ QueueTypes /\ Reports /\ pc' # "error"
      /\ status \in [Seqs -> {"none", "waiting", "running", "finished"}]
  BY NoErrorNext DEF IndInv, BatchInv, QueueInv, QueueTypes
<1>2. ASSUME NEW s \in Seqs, NEW r \in Requests, AddRequest(s, r) PROVE Reports'
  <2>1. /\ pc = "idle" /\ token_ids[s] = <<>> /\ reported' = reported
        /\ status' = [status EXCEPT ![s] = "waiting"]
    BY <1>2 DEF AddRequest, Create
  <2>2. status[s] = "none"
    BY <2>1 DEF QueueInv, Tables
  <2>3. \A x \in Seqs : status'[x] = "finished" <=> status[x] = "finished"
    BY <1>1, <2>1, <2>2
  <2> QED
    BY <1>1, <2>1, <2>3, ReportsOutside
<1>3. CASE StartStep \/ RunBatch \/ RejectBatch \/ FailBatch
  <2>1. pc \in {"idle", "run"} /\ UNCHANGED <<status, reported>>
    BY <1>3 DEF StartStep, RunBatch, RejectBatch, FailBatch, queueVars
  <2> QED
    BY <1>1, <2>1, ReportsOutside
<1>4. CASE CollectResults
  <2>1. /\ reported' = reported \cup finished_in_plan /\ pc = "collect"
        /\ status' = status
    BY <1>4 DEF CollectResults, queueVars
  <2>2. \A i \in DOMAIN plan : plan[i].seq \in Seqs
    BY PendingInPlan DEF QueueInv
  <2>3. \A s \in Seqs : status[s] = "finished" =>
          s \in reported \/ \E i \in DOMAIN plan : plan[i].seq = s
    BY <1>1 DEF Reports
  <2>4. \A s \in reported : s \in Seqs /\ status[s] = "finished"
    BY <1>1 DEF Reports
  <2>5. \A s \in Seqs : status[s] = "finished" => s \in reported'
    BY <2>1, <2>3 DEF finished_in_plan
  <2>6. \A s \in reported' : s \in Seqs /\ status[s] = "finished"
    BY <2>1, <2>2, <2>4 DEF finished_in_plan
  <2> QED
    BY <2>1, <2>5, <2>6 DEF Reports
<1>5. CASE ScheduleStep /\ reported' = reported
  <2>1. CASE PrefillAllocate \/ PrefillReject \/ PrefillEnd \/ DecodeGrow \/ DecodeSchedule
             \/ DecodeEnd
    <3>1. pc \in {"prefill", "decode"} /\ status' = status
      BY <2>1 DEF PrefillAllocate, PrefillReject, PrefillEnd, InPrefillLoop, DecodeGrow,
           DecodeSchedule, InDecodeLoop, DecodeEnd, InternalError, queueVars
    <3> QED
      BY <1>1, <1>5, <3>1, ReportsOutside
  <2>2. CASE PrefillSchedule
    <3>1. waiting # <<>> /\ pc = "prefill"
      BY <2>2 DEF PrefillSchedule, InPrefillLoop
    <3>2. PICK s \in Seqs : s = front /\ status[s] = "waiting"
      BY <3>1, FrontWaits
    <3>3. status' = [status EXCEPT ![s] = "running"] \/ status' = status
      BY <1>1, <2>2, <3>2 DEF PrefillSchedule, InternalError, queueVars
    <3>4. \A x \in Seqs : status'[x] = "finished" <=> status[x] = "finished"
      BY <1>1, <3>2, <3>3
    <3> QED
      BY <1>1, <1>5, <3>1, <3>4, ReportsOutside
  <2>3. CASE Preempt
    <3>1. InDecodeLoop /\ status' = [status EXCEPT ![oldest] = "waiting"]
      BY <2>3 DEF Preempt
    <3>2. PICK s \in Seqs : s = oldest /\ status[s] = "running" /\ pc = "decode"
      BY <3>1, OldestRuns
    <3>3. \A x \in Seqs : status'[x] = "finished" <=> status[x] = "finished"
      BY <1>1, <3>1, <3>2
    <3> QED
      BY <1>1, <1>5, <3>2, <3>3, ReportsOutside
  <2> QED
    BY <1>5, <2>1, <2>2, <2>3 DEF ScheduleStep
<1>6. CASE PostprocessStep /\ reported' = reported
  <2>1. PostCommit \/ PostEmit \/ PostRelease
    BY <1>6 DEF PostprocessStep
  <2>2. /\ pc \in {"commit", "emit", "release"} /\ current \in Seqs
        /\ pc' \in {"commit", "emit", "release", "collect"}
        /\ index \in 1 .. Len(plan) /\ UNCHANGED plan
        /\ \A x \in Seqs \ {current} : status'[x] = status[x]
    BY <1>1, <2>1, WalkStep
  <2>3. status'[current] = status[current] \/ status'[current] = "finished"
    <3>1. PICK s \in Seqs : s = current
      BY <2>2
    <3>2. status' = status \/ status' = [status EXCEPT ![s] = "finished"]
      BY <2>1, <3>1 DEF PostCommit, PostEmit, PostRelease, InternalError, queueVars
    <3> QED
      BY <1>1, <3>1, <3>2
  <2>4. index \in DOMAIN plan /\ plan[index].seq = current
    BY <2>2, PendingInPlan DEF QueueInv, current
  <2>5. \A s \in reported' : s \in Seqs /\ status'[s] = "finished"
    BY <1>1, <1>6, <2>2, <2>3 DEF Reports
  <2>6. \A s \in Seqs : status'[s] = "finished" =>
          s \in reported' \/ \E i \in DOMAIN plan' : plan'[i].seq = s
    BY <1>1, <1>6, <2>2, <2>3, <2>4 DEF Reports
  <2> QED
    BY <2>2, <2>5, <2>6 DEF Reports
<1>7. CASE UNCHANGED engineVars
  BY <1>1, <1>7 DEF engineVars, schedulerVars, queueVars, callVars, Reports
<1> QED
  BY <1>2, <1>3, <1>4, <1>5, <1>6, <1>7
    DEF LLMEngineNext, EngineStep, SchedulerStep, IdleStep

-----------------------------------------------------------------------------
(* Counted *)

\* The rows of one entry of the plan.
entry_rows(i, s, a, n) == {[item |-> i, seq |-> s, pos |-> p] : p \in a .. a + n - 1}

LEMMA EntryRows ==
  ASSUME NEW i, NEW s, NEW a \in Nat, NEW n \in Nat
  PROVE  IsFiniteSet(entry_rows(i, s, a, n)) /\ Cardinality(entry_rows(i, s, a, n)) = n
<1> DEFINE P == a .. a + n - 1
           R == entry_rows(i, s, a, n)
           f == [p \in P |-> [item |-> i, seq |-> s, pos |-> p]]
<1>1. IsFiniteSet(P) /\ Cardinality(P) = n
  <2>1. a \in Int /\ a + n - 1 \in Int
    OBVIOUS
  <2>2. /\ IsFiniteSet(P)
        /\ Cardinality(P) = IF a > a + n - 1 THEN 0 ELSE (a + n - 1) - a + 1
    BY <2>1, FS_Interval
  <2> QED
    BY <2>2
<1>2. f \in [P -> R]
  BY DEF entry_rows
<1>3. \A p, q \in P : f[p] = f[q] => p = q
  <2> SUFFICES ASSUME NEW p \in P, NEW q \in P, f[p] = f[q] PROVE p = q
    OBVIOUS
  <2>1. f[p].pos = p /\ f[q].pos = q
    OBVIOUS
  <2> QED
    BY <2>1
<1>4. \A r \in R : \E p \in P : f[p] = r
  BY DEF entry_rows
<1> HIDE DEF f, P, R
<1>5. f \in Bijection(P, R)
  BY <1>2, <1>3, <1>4, Fun_IsBij
<1>6. ExistsBijection(P, R)
  BY <1>5 DEF ExistsBijection
<1>7. IsFiniteSet(R) /\ Cardinality(R) = Cardinality(P)
  BY <1>1, <1>6, FS_Bijection
<1> QED
  BY <1>1, <1>7 DEF R

\* A row belongs to an entry and lies within the positions of the entry.
LEMMA RowsMembers ==
  ASSUME NEW r
  PROVE  r \in rows <=> \E i \in DOMAIN plan :
                          r \in entry_rows(i, plan[i].seq, plan[i].start, plan[i].count)
BY DEF rows, entry_rows

LEMMA RowsSame ==
  ASSUME UNCHANGED plan
  PROVE  rows' = rows
BY DEF rows

LEMMA NoRows ==
  ASSUME plan = <<>>
  PROVE  IsFiniteSet(rows) /\ Cardinality(rows) = 0
<1>1. rows = {}
  BY DEF rows
<1> QED
  BY <1>1, FS_EmptySet

\* An entry appended to the plan adds as many rows as it schedules tokens.
LEMMA RowsAppended ==
  ASSUME plan \in Seq([seq : Seqs, start : Nat, count : Nat]), IsFiniteSet(rows),
         NEW s \in Seqs, NEW a \in Nat, NEW n \in Nat,
         plan' = Append(plan, [seq |-> s, start |-> a, count |-> n])
  PROVE  IsFiniteSet(rows') /\ Cardinality(rows') = Cardinality(rows) + n
<1> DEFINE m == Len(plan)
           R == entry_rows(m + 1, s, a, n)
<1>1. /\ DOMAIN plan = 1 .. m /\ DOMAIN plan' = 1 .. m + 1 /\ m \in Nat
      /\ \A i \in 1 .. m : plan'[i] = plan[i]
      /\ plan'[m + 1] = [seq |-> s, start |-> a, count |-> n]
  <2> DEFINE Entry == [seq : Seqs, start : Nat, count : Nat]
             e == [seq |-> s, start |-> a, count |-> n]
  <2>1. plan \in Seq(Entry) /\ e \in Entry /\ plan' = Append(plan, e)
    OBVIOUS
  <2> HIDE DEF Entry, e
  <2>2. /\ DOMAIN plan = 1 .. m /\ DOMAIN plan' = 1 .. m + 1 /\ m \in Nat
        /\ \A i \in 1 .. m : plan'[i] = plan[i]
        /\ plan'[m + 1] = e
    BY <2>1
  <2> QED
    BY <2>2 DEF e
<1> HIDE DEF m
<1>2. rows' = rows \cup R
  <2>1. ASSUME NEW r
        PROVE  r \in rows' <=> \E i \in DOMAIN plan' :
                 r \in entry_rows(i, plan'[i].seq, plan'[i].start, plan'[i].count)
    BY DEF rows, entry_rows
  <2>2. \A i \in 1 .. m + 1 : i \in 1 .. m \/ i = m + 1
    BY <1>1
  <2>3. ASSUME NEW r PROVE r \in rows' <=> r \in rows \/ r \in R
    <3>1. plan'[m + 1].seq = s /\ plan'[m + 1].start = a /\ plan'[m + 1].count = n
      BY <1>1
    <3>2. r \in R <=> r \in entry_rows(m + 1, plan'[m + 1].seq, plan'[m + 1].start,
                                       plan'[m + 1].count)
      BY <3>1
    <3>3. r \in rows <=> \E i \in 1 .. m :
             r \in entry_rows(i, plan'[i].seq, plan'[i].start, plan'[i].count)
      BY <1>1, RowsMembers
    <3>4. r \in rows' <=> \E i \in 1 .. m + 1 :
             r \in entry_rows(i, plan'[i].seq, plan'[i].start, plan'[i].count)
      BY <1>1, <2>1
    <3>5. 1 .. m \subseteq 1 .. m + 1 /\ m + 1 \in 1 .. m + 1
      BY <1>1
    <3> HIDE DEF R
    <3> QED
      BY <2>2, <3>2, <3>3, <3>4, <3>5
  <2> HIDE DEF R
  <2> QED
    BY <2>3
<1>3. rows \cap R = {}
  <2> SUFFICES ASSUME NEW r \in rows, r \in R PROVE FALSE
    OBVIOUS
  <2>1. PICK i \in 1 .. m : r \in entry_rows(i, plan[i].seq, plan[i].start, plan[i].count)
    BY <1>1, RowsMembers
  <2>2. r.item = i
    BY <2>1 DEF entry_rows
  <2>3. r.item = m + 1
    BY DEF entry_rows
  <2> QED
    BY <1>1, <2>2, <2>3
<1>4. IsFiniteSet(R) /\ Cardinality(R) = n
  BY EntryRows
<1> HIDE DEF R
<1>5. /\ IsFiniteSet(rows \cup R)
      /\ Cardinality(rows \cup R) = Cardinality(rows) + n - Cardinality({})
  BY <1>3, <1>4, FS_Union
<1>6. Cardinality({}) = 0 /\ Cardinality(rows) \in Nat
  BY FS_EmptySet, FS_CardinalityType
<1> QED
  BY <1>2, <1>5, <1>6

LEMMA CountedNext ==
  ASSUME IndInv, QueueInv, BatchInv, [LLMEngineNext]_engineVars
  PROVE  Counted'
<1>1. /\ TypeOK /\ QueueTypes /\ PlanInv /\ Counted /\ pc' # "error"
      /\ plan \in Seq([seq : Seqs, start : Nat, count : Nat])
      /\ batched_tokens \in Nat /\ batched_tokens <= MaxNumBatchedTokens
      /\ MaxNumSeqs \in Nat /\ MaxNumBatchedTokens \in Nat /\ Len(plan) \in Nat
  BY NoErrorNext, BatchAssumption DEF IndInv, BatchInv, QueueInv, QueueTypes
<1>2. ASSUME plan' = <<>>, pc' = "prefill" => batched_tokens' = 0, pc' \notin {"decode", "run"}
      PROVE  Counted'
  <2>1. rows' = {}
    BY <1>2 DEF rows
  <2> QED
    BY <1>2, <2>1, FS_EmptySet DEF Counted
<1>3. ASSUME UNCHANGED <<plan, batched_tokens>>,
             pc' = pc \/ pc' \notin {"prefill", "decode", "run"}
      PROVE  Counted'
  <2>1. rows' = rows
    BY <1>3, RowsSame
  <2> QED
    BY <1>1, <1>3, <2>1 DEF Counted
<1>4. CASE \/ \E s \in Seqs, r \in Requests : AddRequest(s, r)
           \/ StartStep
  <2>1. /\ pc = "idle" /\ pc' \in {"idle", "prefill"} /\ UNCHANGED <<plan, batched_tokens>>
    BY <1>4 DEF AddRequest, StartStep, callVars
  <2> QED
    BY <1>1, <1>2, <2>1 DEF PlanInv
<1>5. CASE PrefillReject \/ RejectBatch \/ FailBatch \/ CollectResults
  BY <1>2, <1>5 DEF PrefillReject, RejectBatch, FailBatch, CollectResults, Return, ClearCall
<1>6. CASE PrefillAllocate \/ DecodeGrow \/ Preempt
  BY <1>1, <1>3, <1>6 DEF PrefillAllocate, DecodeGrow, Preempt, InternalError, callVars
<1>7. CASE PrefillSchedule
  <2>1. waiting # <<>> /\ pc = "prefill"
    BY <1>7 DEF PrefillSchedule, InPrefillLoop
  <2>2. PICK s \in Seqs : s = front /\ status[s] = "waiting"
    BY <2>1, FrontWaits
  <2> DEFINE left == remaining_tokens(s)
             n == IF left <= available THEN left ELSE available
             a == num_cached_tokens[s]
  <2>3. /\ plan' = Append(plan, [seq |-> s, start |-> a, count |-> n])
        /\ batched_tokens' = batched_tokens + n /\ pc' \in {"prefill", "run"}
    BY <1>1, <1>7, <2>2 DEF PrefillSchedule, InternalError
  <2>4. /\ size(s) \in Nat \ {0} /\ num_cached_tokens[s] \in Nat
        /\ num_cached_tokens[s] < size(s)
    BY <1>1, <2>2, UnfinishedSize DEF BatchInv, Unfinished
  <2>5. left \in Nat /\ available \in Nat /\ available = MaxNumBatchedTokens - batched_tokens
    BY <1>1, <2>4 DEF remaining_tokens, available
  <2> HIDE DEF left
  <2>6. n \in Nat /\ n <= available /\ a \in Nat
    BY <2>4, <2>5
  <2> HIDE DEF n, a
  <2>7. IsFiniteSet(rows') /\ Cardinality(rows') = Cardinality(rows) + n
    BY <1>1, <2>3, <2>6, RowsAppended DEF Counted
  <2>8. Cardinality(rows) = batched_tokens
    BY <1>1, <2>1 DEF Counted
  <2>9. Cardinality(rows') = batched_tokens' /\ batched_tokens' <= MaxNumBatchedTokens
    BY <1>1, <2>3, <2>5, <2>6, <2>7, <2>8
  <2> QED
    BY <2>3, <2>7, <2>9 DEF Counted
<1>8. CASE PrefillEnd
  <2>1. /\ pc = "prefill" /\ UNCHANGED <<plan, batched_tokens>>
        /\ pc' = "run" \/ (pc' = "decode" /\ plan = <<>>)
    BY <1>8 DEF PrefillEnd
  <2>2. rows' = rows
    BY <2>1, RowsSame
  <2>3. IsFiniteSet(rows) /\ Cardinality(rows) = batched_tokens
    BY <1>1, <2>1 DEF Counted
  <2>4. plan = <<>> => Cardinality(rows) = Len(plan) /\ Len(plan) <= MaxNumSeqs
    BY <1>1, NoRows
  <2> QED
    BY <1>1, <2>1, <2>2, <2>3, <2>4 DEF Counted
<1>9. CASE DecodeSchedule
  <2>1. InDecodeLoop /\ Len(plan) < MaxNumSeqs
    BY <1>9 DEF DecodeSchedule, InDecodeLoop
  <2>2. PICK s \in Seqs : s = oldest /\ pc = "decode" /\ status[s] = "running"
    BY <2>1, OldestRuns
  <2> DEFINE a == size(s) - 1
  <2>3. plan' = Append(plan, [seq |-> s, start |-> a, count |-> 1]) /\ pc' = pc
    BY <1>9, <2>2 DEF DecodeSchedule
  <2>4. a \in Nat
    BY <1>1, <2>2, UnfinishedSize
  <2> HIDE DEF a
  <2>5. IsFiniteSet(rows') /\ Cardinality(rows') = Cardinality(rows) + 1
    BY <1>1, <2>3, <2>4, RowsAppended DEF Counted
  <2>6. Len(plan') = Len(plan) + 1
    BY <1>1, <2>3, <2>4, AppendPlan
  <2>7. Cardinality(rows) = Len(plan)
    BY <1>1, <2>2 DEF Counted
  <2>8. Cardinality(rows') = Len(plan') /\ Len(plan') <= MaxNumSeqs
    BY <1>1, <2>1, <2>5, <2>6, <2>7
  <2> QED
    BY <2>2, <2>3, <2>5, <2>8 DEF Counted
<1>10. CASE DecodeEnd
  <2>1. CASE pc' = "run"
    <3>1. pc = "decode" /\ UNCHANGED plan
      BY <1>1, <1>10, <2>1 DEF DecodeEnd, InternalError, ClearCall, callVars
    <3>2. rows' = rows
      BY <3>1, RowsSame
    <3> QED
      BY <1>1, <2>1, <3>1, <3>2 DEF Counted
  <2>2. CASE pc' # "run"
    BY <1>1, <1>2, <1>10, <2>2 DEF DecodeEnd, InternalError, ClearCall
  <2> QED
    BY <2>1, <2>2
<1>11. CASE RunBatch
  BY <1>1, <1>3, <1>11 DEF RunBatch
<1>12. CASE PostCommit \/ PostEmit \/ PostRelease
  BY <1>1, <1>3, <1>12 DEF PostCommit, PostEmit, PostRelease, NextIndex, InternalError
<1>13. CASE UNCHANGED engineVars
  BY <1>3, <1>13 DEF engineVars, schedulerVars, callVars
<1> QED
  BY <1>4, <1>5, <1>6, <1>7, <1>8, <1>9, <1>10, <1>11, <1>12, <1>13
    DEF LLMEngineNext, EngineStep, SchedulerStep, ScheduleStep, PostprocessStep, IdleStep

-----------------------------------------------------------------------------
(* The theorems about batches *)

LEMMA BatchInitInv == LLMEngineInit => BatchInv
<1> SUFFICES ASSUME LLMEngineInit PROVE BatchInv
  OBVIOUS
<1>1. /\ status = [s \in Seqs |-> "none"] /\ pc = "idle" /\ plan = <<>> /\ reported = {}
      /\ is_prefill = FALSE /\ preempted_sequence = FALSE
      /\ token_ids = [s \in Seqs |-> <<>>] /\ block_table = [s \in Seqs |-> <<>>]
  BY DEF LLMEngineInit, SchedulerInit, BlockManagerInit
<1>2. TablesFit
  <2> SUFFICES ASSUME NEW s \in Seqs PROVE Len(block_table[s]) <= num_blocks(s)
    BY DEF TablesFit
  <2>1. Len(block_table[s]) = 0 /\ size(s) = 0
    BY <1>1 DEF size
  <2>2. num_blocks(s) = (0 + BlockSize - 1) \div BlockSize /\ 0 + BlockSize - 1 \in Nat
    BY <2>1, PoolAssumption DEF num_blocks
  <2>3. num_blocks(s) \in Nat
    BY <2>2, DivBounds, PoolAssumption
  <2> QED
    BY <2>1, <2>3
<1>3. Unfinished /\ Reports
  BY <1>1 DEF Unfinished, Reports
<1>4. Kind /\ Sampled /\ Stuck
  BY <1>1 DEF Kind, Sampled, Stuck
<1>5. Shares
  BY <1>1 DEF Shares, pending
<1>6. Counted
  BY <1>1, NoRows DEF Counted
<1> QED
  BY <1>1, <1>2, <1>3, <1>4, <1>5, <1>6 DEF BatchInv

LEMMA BatchNextInv ==
  IndInv /\ QueueInv /\ BatchInv /\ [LLMEngineNext]_engineVars => BatchInv'
<1> SUFFICES ASSUME IndInv, QueueInv, BatchInv, [LLMEngineNext]_engineVars PROVE BatchInv'
  OBVIOUS
<1>1. TablesFit'
  BY EngineNextInv, TablesFitNext DEF BatchInv
<1>2. pc' # "error" /\ Unfinished' /\ Shares' /\ Sampled'
  BY NoErrorNext, UnfinishedNext, SharesNext, SampledNext
<1>3. Kind' /\ preempted_sequence' \in BOOLEAN /\ is_prefill' \in BOOLEAN
  BY KindNext
<1>4. Counted' /\ Stuck' /\ Reports'
  BY CountedNext, StuckNext, ReportsNext
<1> QED
  BY <1>1, <1>2, <1>3, <1>4 DEF BatchInv

EngineInv == IndInv /\ QueueInv /\ BatchInv

LEMMA BatchInvariance == LLMEngineSpec => []EngineInv
<1>1. LLMEngineInit => EngineInv
  BY EngineInitInv, BatchInitInv DEF EngineInv
<1>2. EngineInv /\ [LLMEngineNext]_engineVars => EngineInv'
  BY EngineNextInv, BatchNextInv DEF EngineInv
<1> QED
  BY <1>1, <1>2, PTL DEF LLMEngineSpec

(* schedule() and postprocess() return none of their InternalErrors, whatever  *)
(* requests, pool, budgets and failing batches: in particular the engine       *)
(* always makes progress with the available KV blocks or names a prompt that   *)
(* is too large.                                                              *)
THEOREM ErrorsAreUnreachable == LLMEngineSpec => []NoInternalError
<1>1. EngineInv => NoInternalError
  BY DEF EngineInv, BatchInv, NoInternalError
<1> QED
  BY <1>1, BatchInvariance, PTL

(* A result is returned in the step in which its sequence finished, and when   *)
(* a call has returned nothing finished is left unreported.                   *)
THEOREM ResultsAreReturned == LLMEngineSpec => []FinishedIsReported
<1>1. EngineInv => FinishedIsReported
  BY DEF EngineInv, BatchInv, Reports, FinishedIsReported
<1> QED
  BY <1>1, BatchInvariance, PTL

\* What the checks of the runner and the stores to the cache need of a row.
LEMMA RowFacts ==
  ASSUME EngineInv, pc = "run", NEW r \in rows
  PROVE  /\ r.item \in DOMAIN plan /\ r.seq \in Seqs /\ r.seq = plan[r.item].seq
         /\ r = [item |-> r.item, seq |-> r.seq, pos |-> r.pos]
         /\ r.pos \in Nat /\ num_cached_tokens[r.seq] <= r.pos /\ r.pos < size(r.seq)
         /\ size(r.seq) \in Nat /\ size(r.seq) < MaxLen
         /\ page(r.pos) \in hash_start(r.seq) + 1 .. Len(block_table[r.seq])
<1>1. TypeOK /\ QueueInv /\ Shares /\ QueueTypes /\ PlanInv
  BY DEF EngineInv, IndInv, QueueInv, BatchInv
<1>2. PICK i \in DOMAIN plan : r \in entry_rows(i, plan[i].seq, plan[i].start, plan[i].count)
  BY RowsMembers
<1>3. /\ plan[i].seq \in Seqs /\ plan[i].start \in Nat /\ plan[i].count \in Nat
      /\ i \in pending
  BY <1>1, PendingInPlan DEF pending
<1>4. PICK s \in Seqs, a \in Nat, n \in Nat :
        s = plan[i].seq /\ a = plan[i].start /\ n = plan[i].count
  BY <1>3
<1>5. PICK p \in a .. a + n - 1 : r = [item |-> i, seq |-> s, pos |-> p]
  BY <1>2, <1>4 DEF entry_rows
<1>6. r.item = i /\ r.seq = s /\ r.pos = p
  BY <1>5
<1>7. Share(plan[i]) /\ Due(s)
  BY <1>1, <1>3, <1>4 DEF Shares, PlanInv
<1>8. /\ num_cached_tokens[s] <= a /\ a + n <= size(s)
      /\ a + n <= Len(block_table[s]) * BlockSize
  BY <1>4, <1>7 DEF Share
<1>9. size(s) \in Nat /\ size(s) < MaxLen /\ num_cached_tokens[s] \in Nat
  <2>1. status[s] \in {"waiting", "running"}
    BY <1>7 DEF Due
  <2> QED
    BY <1>1, <2>1, UnfinishedSize
<1>10. Len(block_table[s]) \in Nat /\ Len(block_table[s]) * BlockSize \in Nat
       /\ BlockSize \in Nat \ {0}
  BY <1>1, TypeFacts, PoolAssumption
<1>11. /\ p \in Nat /\ num_cached_tokens[s] <= p /\ p < size(s)
       /\ p < Len(block_table[s]) * BlockSize
  BY <1>8, <1>9, <1>10
<1>12. p \div BlockSize \in Nat /\ (p \div BlockSize) * BlockSize <= p
       /\ (p \div BlockSize) * BlockSize \in Nat
  <2>1. p \div BlockSize \in Nat /\ (p \div BlockSize) * BlockSize <= p
    BY <1>10, <1>11, DivBounds
  <2> DEFINE d == p \div BlockSize
  <2>2. d \in Nat /\ BlockSize \in Nat
    BY <1>10, <2>1
  <2> HIDE DEF d
  <2>3. d * BlockSize \in Nat
    BY <2>2
  <2> QED
    BY <2>1, <2>3 DEF d
<1>13. hash_start(s) <= p \div BlockSize
  BY <1>9, <1>10, <1>11, DivMonotone DEF hash_start
<1>14. p \div BlockSize <= Len(block_table[s]) - 1
  <2> DEFINE k == Len(block_table[s]) - 1
             d == p \div BlockSize
  <2>1. Len(block_table[s]) # 0
    BY <1>11, <1>10
  <2>2. k \in Nat /\ k * BlockSize + BlockSize = Len(block_table[s]) * BlockSize
    BY <1>10, <2>1
  <2>3. d \in Nat /\ d * BlockSize <= p /\ d * BlockSize \in Nat
    BY <1>12
  <2> HIDE DEF k, d
  <2>4. d * BlockSize < k * BlockSize + BlockSize
    BY <1>10, <1>11, <2>2, <2>3
  <2>5. d <= k
    BY <1>10, <2>2, <2>3, <2>4, FactorBound
  <2> QED
    BY <2>5 DEF k, d
<1>15. page(p) \in hash_start(s) + 1 .. Len(block_table[s])
  <2>1. hash_start(s) \in Nat
    BY <1>1, TypeFacts
  <2> QED
    BY <1>10, <1>12, <1>13, <1>14, <2>1 DEF page
<1> QED
  BY <1>4, <1>5, <1>6, <1>9, <1>11, <1>15

LEMMA SamePosition ==
  ASSUME NEW p \in Nat, NEW q \in Nat, page(p) = page(q), p % BlockSize = q % BlockSize
  PROVE  p = q
<1>1. ASSUME NEW a \in Nat, NEW m \in Nat \ {0} PROVE a = m * (a \div m) + (a % m)
  OBVIOUS
<1>2. p \div BlockSize = q \div BlockSize
  <2> DEFINE u == p \div BlockSize
             v == q \div BlockSize
  <2>1. u \in Nat /\ v \in Nat
    BY DivBounds, PoolAssumption
  <2>2. u + 1 = v + 1
    BY DEF page
  <2> HIDE DEF u, v
  <2>3. u = v
    BY <2>1, <2>2
  <2> QED
    BY <2>3 DEF u, v
<1>3. p = BlockSize * (p \div BlockSize) + (p % BlockSize)
      /\ q = BlockSize * (q \div BlockSize) + (q % BlockSize)
  BY <1>1, PoolAssumption
<1>4. BlockSize * (p \div BlockSize) + (p % BlockSize)
        = BlockSize * (q \div BlockSize) + (q % BlockSize)
  BY <1>2
<1> QED
  BY <1>3, <1>4

\* A row has its cell to itself.
LEMMA OwnCells ==
  ASSUME EngineInv
  PROVE  NoSharedWrite
<1> SUFFICES ASSUME pc = "run", NEW r \in rows
             PROVE  LET b == block_table[r.seq][page(r.pos)] IN
                      /\ ~ hash_valid[b] /\ ref_count[b] = 1
                      /\ \A q \in rows : cell(q.seq, q.pos) = cell(r.seq, r.pos) => q = r
  BY DEF NoSharedWrite
<1>1. IndInv /\ PlanInv
  BY DEF EngineInv, QueueInv
<1>2. /\ r.item \in DOMAIN plan /\ r.seq \in Seqs /\ r.seq = plan[r.item].seq
      /\ r = [item |-> r.item, seq |-> r.seq, pos |-> r.pos] /\ r.pos \in Nat
      /\ page(r.pos) \in hash_start(r.seq) + 1 .. Len(block_table[r.seq])
  BY RowFacts
<1>3. LET b == block_table[r.seq][page(r.pos)] IN ~ hash_valid[b] /\ ref_count[b] = 1
  BY <1>1, <1>2 DEF IndInv, TailPrivate
<1>4. ASSUME NEW q \in rows, cell(q.seq, q.pos) = cell(r.seq, r.pos) PROVE q = r
  <2>1. /\ q.item \in DOMAIN plan /\ q.seq \in Seqs /\ q.seq = plan[q.item].seq
        /\ q = [item |-> q.item, seq |-> q.seq, pos |-> q.pos] /\ q.pos \in Nat
        /\ page(q.pos) \in hash_start(q.seq) + 1 .. Len(block_table[q.seq])
    BY RowFacts
  <2>2. /\ block_table[q.seq][page(q.pos)] = block_table[r.seq][page(r.pos)]
        /\ q.pos % BlockSize = r.pos % BlockSize
    BY <1>4 DEF cell
  <2>3. page(q.pos) \in 1 .. Len(block_table[q.seq])
    BY <1>1, <2>1, TypeFacts DEF IndInv
  <2>4. q.seq = r.seq /\ page(q.pos) = page(r.pos)
    BY <1>1, <1>2, <2>1, <2>2, <2>3, TailNamedOnce
  <2>5. q.pos = r.pos
    BY <1>2, <2>1, <2>2, <2>4, SamePosition
  <2>6. q.item = r.item
    BY <1>1, <1>2, <2>1, <2>4 DEF PlanInv
  <2> QED
    BY <1>2, <2>1, <2>4, <2>5, <2>6
<1> QED
  BY <1>3, <1>4

(* No two rows of a batch store to one cell, and none to a block that is       *)
(* published or that another table names: the rows lie behind the computed    *)
(* blocks of their sequence, where every block is its own.                    *)
THEOREM RowsWriteOwnCells == LLMEngineSpec => []NoSharedWrite
<1>1. EngineInv => NoSharedWrite
  BY OwnCells
<1> QED
  BY <1>1, BatchInvariance, PTL

\* The engine is configured for the model behind it: every position and every
\* batch the budget allows lie in the model's context, the budget covers a token
\* of each sequence, and every id has a row in the embedding table.
Matched ==
  /\ MaxModelLen <= ModelSeqLen /\ MaxNumBatchedTokens <= ModelSeqLen
  /\ MaxNumSeqs <= MaxNumBatchedTokens
  /\ Token \subseteq Vocabulary

\* The checks of forward_paged_batch against what the scheduler builds.
LEMMA BatchFits ==
  ASSUME EngineInv, Matched
  PROVE  BatchAccepted
<1> SUFFICES ASSUME pc = "run" PROVE ~ batch_rejected
  BY DEF BatchAccepted
<1>1. TypeOK /\ Counted /\ TablesFit
  BY DEF EngineInv, IndInv, BatchInv
<1>2. Cardinality(rows) \in Nat /\ Cardinality(rows) <= MaxNumBatchedTokens
  <2>1. Cardinality(rows) \in Nat
    BY <1>1, FS_CardinalityType DEF Counted
  <2> QED
    BY <1>1, <2>1, BatchAssumption DEF Counted, Matched
<1>3. ASSUME NEW r \in rows
      PROVE  /\ r.pos < ModelSeqLen /\ Len(block_table[r.seq]) <= table_entries
             /\ page(r.pos) <= Len(block_table[r.seq])
  <2>1. /\ r.seq \in Seqs /\ r.pos \in Nat /\ r.pos < size(r.seq)
        /\ size(r.seq) \in Nat /\ size(r.seq) < MaxLen
        /\ page(r.pos) \in hash_start(r.seq) + 1 .. Len(block_table[r.seq])
    BY RowFacts
  <2>2. size(r.seq) <= ModelSeqLen
    BY <2>1, LengthAssumption DEF Matched
  <2>3. num_blocks(r.seq) <= table_entries /\ num_blocks(r.seq) \in Nat
        /\ table_entries \in Nat
    <3> DEFINE a == size(r.seq) + BlockSize - 1
               b == ModelSeqLen + BlockSize - 1
    <3>1. a \in Nat /\ b \in Nat /\ a <= b
      BY <2>1, <2>2, PoolAssumption, LengthAssumption
    <3>2. num_blocks(r.seq) = a \div BlockSize /\ table_entries = b \div BlockSize
      BY DEF num_blocks, table_entries
    <3> HIDE DEF a, b
    <3> QED
      BY <3>1, <3>2, DivMonotone, DivBounds, PoolAssumption
  <2>4. Len(block_table[r.seq]) <= num_blocks(r.seq) /\ Len(block_table[r.seq]) \in Nat
        /\ hash_start(r.seq) \in Nat
    BY <1>1, <2>1, TypeFacts DEF TablesFit
  <2> QED
    BY <2>1, <2>2, <2>3, <2>4, LengthAssumption
<1>4. \A r \in rows : r.pos \in Nat /\ r.seq \in Seqs /\ page(r.pos) \in Int
                      /\ Len(block_table[r.seq]) \in Nat
  <2> SUFFICES ASSUME NEW r \in rows
               PROVE  r.pos \in Nat /\ r.seq \in Seqs /\ page(r.pos) \in Int
                      /\ Len(block_table[r.seq]) \in Nat
    OBVIOUS
  <2>1. r.seq \in Seqs /\ r.pos \in Nat
        /\ page(r.pos) \in hash_start(r.seq) + 1 .. Len(block_table[r.seq])
    BY RowFacts
  <2>2. Len(block_table[r.seq]) \in Nat /\ hash_start(r.seq) \in Nat
    BY <1>1, <2>1, TypeFacts
  <2> QED
    BY <2>1, <2>2
<1>5. table_entries \in Int
  BY PoolAssumption, LengthAssumption, DivBounds DEF table_entries
<1>6. ~ embedding_rejected
  <2>1. ~ (Cardinality(rows) > ModelSeqLen)
    BY <1>2, BatchAssumption, LengthAssumption DEF Matched
  <2>2. ASSUME NEW r \in rows PROVE token_ids[r.seq][r.pos + 1] \in Vocabulary
    <3>1. /\ r.seq \in Seqs /\ r.pos \in Nat /\ r.pos < size(r.seq) /\ size(r.seq) \in Nat
      BY RowFacts
    <3>2. token_ids[r.seq] \in Seq(Token) /\ size(r.seq) = Len(token_ids[r.seq])
      BY <1>1, <3>1, TypeFacts DEF size
    <3>3. r.pos + 1 \in 1 .. Len(token_ids[r.seq])
      BY <3>1, <3>2
    <3> QED
      BY <3>2, <3>3 DEF Matched
  <2> QED
    BY <2>1, <2>2 DEF embedding_rejected
<1> QED
  BY <1>2, <1>3, <1>4, <1>5, <1>6, BatchAssumption, LengthAssumption DEF batch_rejected

(* The runner accepts every batch the scheduler builds, up to the very end of  *)
(* the context window and to rows of many sequences at once, if neither the    *)
(* engine's context nor its token budget exceeds the model's context, the      *)
(* budget has room for one token of each sequence, and every token id is one   *)
(* of the model's vocabulary.                                                 *)
THEOREM BatchesAreAccepted ==
  ASSUME Matched
  PROVE  LLMEngineSpec => []BatchAccepted
<1>1. EngineInv => BatchAccepted
  BY BatchFits
<1> QED
  BY <1>1, BatchInvariance, PTL
=============================================================================
