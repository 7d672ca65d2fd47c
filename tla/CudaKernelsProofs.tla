------------------------- MODULE CudaKernelsProofs -------------------------
(***************************************************************************)
(* The kernels have no data race and read what the sequential loops would, *)
(* for every size of a block, of a warp, of the heads and of the arrays.    *)
(*                                                                          *)
(* Between two barriers the phases a block's threads can be in are those of *)
(* one stretch of the program (Together).  A pair of phases in which one    *)
(* thread reads what another writes (Dependent) is never within a stretch;  *)
(* the rest touch, for different threads, different cells (CellsApart).     *)
(* So a cell holds the last phase of the program that has written it        *)
(* (LastWritten), and when a thread comes to read it those phases are the   *)
(* ones before its own (WrittenBefore).                                     *)
(***************************************************************************)
EXTENDS CudaKernels, TLAPS

\* What the phases of a stretch of the program may do.
Groups == {{"map", "warp", "load", "sync"}, {"gather", "publish", "sync"}, {"all", "sync"}}

MayTogether(p, q) == \E G \in Groups : p \in G /\ q \in G

\* Phases i to j with no barrier from i up to j.
SameStretch(prog, i, j) ==
  \A k \in 1..Len(prog) : i <= k /\ k < j => prog[k].op # "sync"

\* The phases of a stretch are all of one group.
BarriersSeparate(prog) ==
  \A i, j \in 1..Len(prog) :
    i <= j /\ SameStretch(prog, i, j) => MayTogether(prog[i].op, prog[j].op)

\* The shared result of a reduction is not one of the arrays; the threads that
\* read all of the scores write the output; only reductions use their storage.
PhaseFormed(p) ==
  /\ p.op \in {"map", "sync", "load", "publish", "all", "warp", "gather"}
  /\ p.op = "load" => p.in = "shared"
  /\ p.op = "map" => p.out # "shared" /\ p.out # "storage" /\ p.in # "storage"
  /\ p.op = "publish" => p.out # "storage"
  /\ p.op = "all" => p.in = "scores" /\ p.out = "output"

WellFormed(prog) == \A i \in 1..Len(prog) : PhaseFormed(prog[i])

-----------------------------------------------------------------------------
(* The programs *)

LEMMA AttentionSeparates ==
  WellFormed(paged_attention) /\ BarriersSeparate(paged_attention)
<1>1. Len(paged_attention) = 19
  BY DEF paged_attention
<1>2. /\ paged_attention[1].op = "map" /\ paged_attention[2].op = "sync"
      /\ paged_attention[3].op = "map" /\ paged_attention[4].op = "warp"
      /\ paged_attention[5].op = "sync" /\ paged_attention[6].op = "gather"
      /\ paged_attention[7].op = "publish" /\ paged_attention[8].op = "sync"
      /\ paged_attention[9].op = "load" /\ paged_attention[10].op = "map"
      /\ paged_attention[11].op = "warp" /\ paged_attention[12].op = "sync"
      /\ paged_attention[13].op = "gather" /\ paged_attention[14].op = "publish"
      /\ paged_attention[15].op = "sync" /\ paged_attention[16].op = "load"
      /\ paged_attention[17].op = "map" /\ paged_attention[18].op = "sync"
      /\ paged_attention[19].op = "all"
  BY DEF paged_attention, all_to_own, gather, load, map, publish, sync, warp
<1>3. /\ paged_attention[1].in = "" /\ paged_attention[2].in = ""
      /\ paged_attention[3].in = "scores" /\ paged_attention[4].in = ""
      /\ paged_attention[5].in = "" /\ paged_attention[6].in = "storage"
      /\ paged_attention[7].in = "" /\ paged_attention[8].in = ""
      /\ paged_attention[9].in = "shared" /\ paged_attention[10].in = "scores"
      /\ paged_attention[11].in = "" /\ paged_attention[12].in = ""
      /\ paged_attention[13].in = "storage" /\ paged_attention[14].in = ""
      /\ paged_attention[15].in = "" /\ paged_attention[16].in = "shared"
      /\ paged_attention[17].in = "scores" /\ paged_attention[18].in = ""
      /\ paged_attention[19].in = "scores"
  BY DEF paged_attention, all_to_own, gather, load, map, publish, sync, warp
<1>4. /\ paged_attention[1].out = "scores" /\ paged_attention[2].out = ""
      /\ paged_attention[3].out = "" /\ paged_attention[4].out = "storage"
      /\ paged_attention[5].out = "" /\ paged_attention[6].out = ""
      /\ paged_attention[7].out = "shared" /\ paged_attention[8].out = ""
      /\ paged_attention[9].out = "" /\ paged_attention[10].out = "scores"
      /\ paged_attention[11].out = "storage" /\ paged_attention[12].out = ""
      /\ paged_attention[13].out = "" /\ paged_attention[14].out = "shared"
      /\ paged_attention[15].out = "" /\ paged_attention[16].out = ""
      /\ paged_attention[17].out = "scores" /\ paged_attention[18].out = ""
      /\ paged_attention[19].out = "output"
  BY DEF paged_attention, all_to_own, gather, load, map, publish, sync, warp
<1>5. ASSUME NEW i \in 1..19 PROVE PhaseFormed(paged_attention[i])
  <2>1. i = 1 \/ i = 2 \/ i = 3 \/ i = 4 \/ i = 5 \/ i = 6 \/ i = 7 \/ i = 8 \/ i = 9 \/ i = 10 \/ i = 11 \/ i = 12 \/ i = 13 \/ i = 14 \/ i = 15 \/ i = 16 \/ i = 17 \/ i = 18 \/ i = 19
    BY <1>5
  <2>2. PhaseFormed(paged_attention[1])
    BY <1>2, <1>3, <1>4 DEF PhaseFormed
  <2>3. PhaseFormed(paged_attention[2])
    BY <1>2, <1>3, <1>4 DEF PhaseFormed
  <2>4. PhaseFormed(paged_attention[3])
    BY <1>2, <1>3, <1>4 DEF PhaseFormed
  <2>5. PhaseFormed(paged_attention[4])
    BY <1>2, <1>3, <1>4 DEF PhaseFormed
  <2>6. PhaseFormed(paged_attention[5])
    BY <1>2, <1>3, <1>4 DEF PhaseFormed
  <2>7. PhaseFormed(paged_attention[6])
    BY <1>2, <1>3, <1>4 DEF PhaseFormed
  <2>8. PhaseFormed(paged_attention[7])
    BY <1>2, <1>3, <1>4 DEF PhaseFormed
  <2>9. PhaseFormed(paged_attention[8])
    BY <1>2, <1>3, <1>4 DEF PhaseFormed
  <2>10. PhaseFormed(paged_attention[9])
    BY <1>2, <1>3, <1>4 DEF PhaseFormed
  <2>11. PhaseFormed(paged_attention[10])
    BY <1>2, <1>3, <1>4 DEF PhaseFormed
  <2>12. PhaseFormed(paged_attention[11])
    BY <1>2, <1>3, <1>4 DEF PhaseFormed
  <2>13. PhaseFormed(paged_attention[12])
    BY <1>2, <1>3, <1>4 DEF PhaseFormed
  <2>14. PhaseFormed(paged_attention[13])
    BY <1>2, <1>3, <1>4 DEF PhaseFormed
  <2>15. PhaseFormed(paged_attention[14])
    BY <1>2, <1>3, <1>4 DEF PhaseFormed
  <2>16. PhaseFormed(paged_attention[15])
    BY <1>2, <1>3, <1>4 DEF PhaseFormed
  <2>17. PhaseFormed(paged_attention[16])
    BY <1>2, <1>3, <1>4 DEF PhaseFormed
  <2>18. PhaseFormed(paged_attention[17])
    BY <1>2, <1>3, <1>4 DEF PhaseFormed
  <2>19. PhaseFormed(paged_attention[18])
    BY <1>2, <1>3, <1>4 DEF PhaseFormed
  <2>20. PhaseFormed(paged_attention[19])
    BY <1>2, <1>3, <1>4 DEF PhaseFormed
  <2> QED
    BY <2>1, <2>2, <2>3, <2>4, <2>5, <2>6, <2>7, <2>8, <2>9, <2>10, <2>11, <2>12, <2>13, <2>14, <2>15, <2>16, <2>17, <2>18, <2>19, <2>20
<1>6. ASSUME NEW i \in 1..19, NEW j \in 1..19, i <= j, SameStretch(paged_attention, i, j)
      PROVE  MayTogether(paged_attention[i].op, paged_attention[j].op)
  <2>1. \A k \in {2, 5, 8, 12, 15, 18} : paged_attention[k].op = "sync"
    BY <1>2
  <2>2. \A k \in {2, 5, 8, 12, 15, 18} : j <= k \/ i > k
    BY <1>1, <1>6, <2>1 DEF SameStretch
  <2>3. CASE i \in 1..2 /\ j \in 1..2
    <3>1. \A k \in 1..2 : paged_attention[k].op \in {"map", "warp", "load", "sync"}
      BY <1>2
    <3> QED
      BY <2>3, <3>1 DEF MayTogether, Groups
  <2>4. CASE i \in 3..5 /\ j \in 3..5
    <3>1. \A k \in 3..5 : paged_attention[k].op \in {"map", "warp", "load", "sync"}
      BY <1>2
    <3> QED
      BY <2>4, <3>1 DEF MayTogether, Groups
  <2>5. CASE i \in 6..8 /\ j \in 6..8
    <3>1. \A k \in 6..8 : paged_attention[k].op \in {"gather", "publish", "sync"}
      BY <1>2
    <3> QED
      BY <2>5, <3>1 DEF MayTogether, Groups
  <2>6. CASE i \in 9..12 /\ j \in 9..12
    <3>1. \A k \in 9..12 : paged_attention[k].op \in {"map", "warp", "load", "sync"}
      BY <1>2
    <3> QED
      BY <2>6, <3>1 DEF MayTogether, Groups
  <2>7. CASE i \in 13..15 /\ j \in 13..15
    <3>1. \A k \in 13..15 : paged_attention[k].op \in {"gather", "publish", "sync"}
      BY <1>2
    <3> QED
      BY <2>7, <3>1 DEF MayTogether, Groups
  <2>8. CASE i \in 16..18 /\ j \in 16..18
    <3>1. \A k \in 16..18 : paged_attention[k].op \in {"map", "warp", "load", "sync"}
      BY <1>2
    <3> QED
      BY <2>8, <3>1 DEF MayTogether, Groups
  <2>9. CASE i \in 19..19 /\ j \in 19..19
    <3>1. \A k \in 19..19 : paged_attention[k].op \in {"all", "sync"}
      BY <1>2
    <3> QED
      BY <2>9, <3>1 DEF MayTogether, Groups
  <2> QED
    BY <1>6, <2>2, <2>3, <2>4, <2>5, <2>6, <2>7, <2>8, <2>9
<1> QED
  BY <1>1, <1>5, <1>6 DEF WellFormed, BarriersSeparate

LEMMA RmsnormSeparates ==
  WellFormed(rmsnorm) /\ BarriersSeparate(rmsnorm)
<1>1. Len(rmsnorm) = 8
  BY DEF rmsnorm
<1>2. /\ rmsnorm[1].op = "map" /\ rmsnorm[2].op = "warp" /\ rmsnorm[3].op = "sync"
      /\ rmsnorm[4].op = "gather" /\ rmsnorm[5].op = "publish" /\ rmsnorm[6].op = "sync"
      /\ rmsnorm[7].op = "load" /\ rmsnorm[8].op = "map"
  BY DEF rmsnorm, gather, load, map, publish, sync, warp
<1>3. /\ rmsnorm[1].in = "row" /\ rmsnorm[2].in = "" /\ rmsnorm[3].in = ""
      /\ rmsnorm[4].in = "storage" /\ rmsnorm[5].in = "" /\ rmsnorm[6].in = ""
      /\ rmsnorm[7].in = "shared" /\ rmsnorm[8].in = "row"
  BY DEF rmsnorm, gather, load, map, publish, sync, warp
<1>4. /\ rmsnorm[1].out = "" /\ rmsnorm[2].out = "storage" /\ rmsnorm[3].out = ""
      /\ rmsnorm[4].out = "" /\ rmsnorm[5].out = "shared" /\ rmsnorm[6].out = ""
      /\ rmsnorm[7].out = "" /\ rmsnorm[8].out = "row"
  BY DEF rmsnorm, gather, load, map, publish, sync, warp
<1>5. ASSUME NEW i \in 1..8 PROVE PhaseFormed(rmsnorm[i])
  <2>1. i = 1 \/ i = 2 \/ i = 3 \/ i = 4 \/ i = 5 \/ i = 6 \/ i = 7 \/ i = 8
    BY <1>5
  <2>2. PhaseFormed(rmsnorm[1])
    BY <1>2, <1>3, <1>4 DEF PhaseFormed
  <2>3. PhaseFormed(rmsnorm[2])
    BY <1>2, <1>3, <1>4 DEF PhaseFormed
  <2>4. PhaseFormed(rmsnorm[3])
    BY <1>2, <1>3, <1>4 DEF PhaseFormed
  <2>5. PhaseFormed(rmsnorm[4])
    BY <1>2, <1>3, <1>4 DEF PhaseFormed
  <2>6. PhaseFormed(rmsnorm[5])
    BY <1>2, <1>3, <1>4 DEF PhaseFormed
  <2>7. PhaseFormed(rmsnorm[6])
    BY <1>2, <1>3, <1>4 DEF PhaseFormed
  <2>8. PhaseFormed(rmsnorm[7])
    BY <1>2, <1>3, <1>4 DEF PhaseFormed
  <2>9. PhaseFormed(rmsnorm[8])
    BY <1>2, <1>3, <1>4 DEF PhaseFormed
  <2> QED
    BY <2>1, <2>2, <2>3, <2>4, <2>5, <2>6, <2>7, <2>8, <2>9
<1>6. ASSUME NEW i \in 1..8, NEW j \in 1..8, i <= j, SameStretch(rmsnorm, i, j)
      PROVE  MayTogether(rmsnorm[i].op, rmsnorm[j].op)
  <2>1. \A k \in {3, 6} : rmsnorm[k].op = "sync"
    BY <1>2
  <2>2. \A k \in {3, 6} : j <= k \/ i > k
    BY <1>1, <1>6, <2>1 DEF SameStretch
  <2>3. CASE i \in 1..3 /\ j \in 1..3
    <3>1. \A k \in 1..3 : rmsnorm[k].op \in {"map", "warp", "load", "sync"}
      BY <1>2
    <3> QED
      BY <2>3, <3>1 DEF MayTogether, Groups
  <2>4. CASE i \in 4..6 /\ j \in 4..6
    <3>1. \A k \in 4..6 : rmsnorm[k].op \in {"gather", "publish", "sync"}
      BY <1>2
    <3> QED
      BY <2>4, <3>1 DEF MayTogether, Groups
  <2>5. CASE i \in 7..8 /\ j \in 7..8
    <3>1. \A k \in 7..8 : rmsnorm[k].op \in {"map", "warp", "load", "sync"}
      BY <1>2
    <3> QED
      BY <2>5, <3>1 DEF MayTogether, Groups
  <2> QED
    BY <1>6, <2>2, <2>3, <2>4, <2>5
<1> QED
  BY <1>1, <1>5, <1>6 DEF WellFormed, BarriersSeparate

LEMMA MatmulSeparates ==
  WellFormed(matmul) /\ BarriersSeparate(matmul)
<1>1. Len(matmul) = 9
  BY DEF matmul
<1>2. /\ matmul[1].op = "map" /\ matmul[2].op = "sync" /\ matmul[3].op = "map"
      /\ matmul[4].op = "warp" /\ matmul[5].op = "sync" /\ matmul[6].op = "gather"
      /\ matmul[7].op = "sync" /\ matmul[8].op = "publish" /\ matmul[9].op = "sync"
  BY DEF matmul, gather, map, publish, sync, warp
<1>3. /\ matmul[1].in = "" /\ matmul[2].in = "" /\ matmul[3].in = "sdata"
      /\ matmul[4].in = "" /\ matmul[5].in = "" /\ matmul[6].in = "storage"
      /\ matmul[7].in = "" /\ matmul[8].in = "" /\ matmul[9].in = ""
  BY DEF matmul, gather, map, publish, sync, warp
<1>4. /\ matmul[1].out = "sdata" /\ matmul[2].out = "" /\ matmul[3].out = ""
      /\ matmul[4].out = "storage" /\ matmul[5].out = "" /\ matmul[6].out = ""
      /\ matmul[7].out = "" /\ matmul[8].out = "output" /\ matmul[9].out = ""
  BY DEF matmul, gather, map, publish, sync, warp
<1>5. ASSUME NEW i \in 1..9 PROVE PhaseFormed(matmul[i])
  <2>1. i = 1 \/ i = 2 \/ i = 3 \/ i = 4 \/ i = 5 \/ i = 6 \/ i = 7 \/ i = 8 \/ i = 9
    BY <1>5
  <2>2. PhaseFormed(matmul[1])
    BY <1>2, <1>3, <1>4 DEF PhaseFormed
  <2>3. PhaseFormed(matmul[2])
    BY <1>2, <1>3, <1>4 DEF PhaseFormed
  <2>4. PhaseFormed(matmul[3])
    BY <1>2, <1>3, <1>4 DEF PhaseFormed
  <2>5. PhaseFormed(matmul[4])
    BY <1>2, <1>3, <1>4 DEF PhaseFormed
  <2>6. PhaseFormed(matmul[5])
    BY <1>2, <1>3, <1>4 DEF PhaseFormed
  <2>7. PhaseFormed(matmul[6])
    BY <1>2, <1>3, <1>4 DEF PhaseFormed
  <2>8. PhaseFormed(matmul[7])
    BY <1>2, <1>3, <1>4 DEF PhaseFormed
  <2>9. PhaseFormed(matmul[8])
    BY <1>2, <1>3, <1>4 DEF PhaseFormed
  <2>10. PhaseFormed(matmul[9])
    BY <1>2, <1>3, <1>4 DEF PhaseFormed
  <2> QED
    BY <2>1, <2>2, <2>3, <2>4, <2>5, <2>6, <2>7, <2>8, <2>9, <2>10
<1>6. ASSUME NEW i \in 1..9, NEW j \in 1..9, i <= j, SameStretch(matmul, i, j)
      PROVE  MayTogether(matmul[i].op, matmul[j].op)
  <2>1. \A k \in {2, 5, 7} : matmul[k].op = "sync"
    BY <1>2
  <2>2. \A k \in {2, 5, 7} : j <= k \/ i > k
    BY <1>1, <1>6, <2>1 DEF SameStretch
  <2>3. CASE i \in 1..2 /\ j \in 1..2
    <3>1. \A k \in 1..2 : matmul[k].op \in {"map", "warp", "load", "sync"}
      BY <1>2
    <3> QED
      BY <2>3, <3>1 DEF MayTogether, Groups
  <2>4. CASE i \in 3..5 /\ j \in 3..5
    <3>1. \A k \in 3..5 : matmul[k].op \in {"map", "warp", "load", "sync"}
      BY <1>2
    <3> QED
      BY <2>4, <3>1 DEF MayTogether, Groups
  <2>5. CASE i \in 6..7 /\ j \in 6..7
    <3>1. \A k \in 6..7 : matmul[k].op \in {"gather", "publish", "sync"}
      BY <1>2
    <3> QED
      BY <2>5, <3>1 DEF MayTogether, Groups
  <2>6. CASE i \in 8..9 /\ j \in 8..9
    <3>1. \A k \in 8..9 : matmul[k].op \in {"gather", "publish", "sync"}
      BY <1>2
    <3> QED
      BY <2>6, <3>1 DEF MayTogether, Groups
  <2> QED
    BY <1>6, <2>2, <2>3, <2>4, <2>5, <2>6
<1> QED
  BY <1>1, <1>5, <1>6 DEF WellFormed, BarriersSeparate

-----------------------------------------------------------------------------
(* The threads and their cells *)

LEMMA Quotient ==
  ASSUME NEW a \in Nat, NEW m \in Nat \ {0}
  PROVE  /\ a \div m \in Nat /\ a % m \in 0..(m - 1)
         /\ a = (a \div m) * m + (a % m)
<1>1. a \div m \in Nat
  OBVIOUS
<1>2. a % m \in 0..(m - 1)
  OBVIOUS
<1>3. a = m * (a \div m) + (a % m)
  OBVIOUS
<1>4. m * (a \div m) = (a \div m) * m
  BY <1>1
<1> QED
  BY <1>1, <1>2, <1>3, <1>4

LEMMA Digits ==
  ASSUME NEW m \in Nat \ {0}, NEW a \in Nat, NEW b \in Nat,
         NEW x \in 0..(m - 1), NEW y \in 0..(m - 1),
         a * m + x = b * m + y
  PROVE  a = b /\ x = y
<1>1. a * m \in Nat /\ b * m \in Nat
  OBVIOUS
<1>2. ASSUME NEW c \in Nat, NEW d \in Nat, c < d PROVE c * m + m <= d * m
  <2>1. (c + 1) * m <= d * m
    BY <1>2
  <2> QED
    BY <2>1
<1>3. ~(a < b)
  <2>1. ASSUME a < b PROVE FALSE
    <3>1. a * m + m <= b * m
      BY <1>2, <2>1
    <3> QED
      BY <1>1, <3>1
  <2> QED
    BY <2>1
<1>4. ~(b < a)
  <2>1. ASSUME b < a PROVE FALSE
    <3>1. b * m + m <= a * m
      BY <1>2, <2>1
    <3> QED
      BY <1>1, <3>1
  <2> QED
    BY <2>1
<1>5. a = b
  BY <1>3, <1>4
<1> QED
  BY <1>1, <1>5

LEMMA KernelNames ==
  ASSUME launch \in Kernels
  PROVE  /\ launch.kernel \in {"attention", "rmsnorm", "matmul", "swiglu", "add", "rope"}
         /\ launch.count \in Nat \ {0}
  BY KernelAssumption

LEMMA ThreadsAreNumbers ==
  ASSUME launch \in Kernels
  PROVE  Running \subseteq Nat /\ Running \subseteq Threads
  BY BlockAssumption DEF Running, Threads

\* A kernel with barriers is one block.
LEMMA OneBlockThreads ==
  ASSUME launch \in Kernels, launch.kernel \in OneBlock
  PROVE  Running = 0..(BlockDim - 1) /\ \A t \in Running : Block(t) = 0
<1>1. Running = 0..(BlockDim - 1)
  BY DEF Running, Threads
<1>2. ASSUME NEW t \in 0..(BlockDim - 1) PROVE t \div BlockDim = 0
  BY BlockAssumption
<1> QED
  BY <1>1, <1>2 DEF Block

LEMMA ProgramSeparates ==
  ASSUME launch \in Kernels, launch.kernel \in OneBlock
  PROVE  WellFormed(program) /\ BarriersSeparate(program)
<1>1. program \in {paged_attention, rmsnorm, matmul}
  BY DEF program, programs, OneBlock
<1> QED
  BY <1>1, AttentionSeparates, RmsnormSeparates, MatmulSeparates

\* Different threads own different elements.
LEMMA OwnDisjoint ==
  ASSUME NEW t, NEW u, t # u, NEW a, NEW b
  PROVE  Own(a, t) \cap Own(b, u) = {}
  BY DEF Own

\* Two phases of one group: what one thread writes another does not touch.
LEMMA GroupIndependent ==
  ASSUME launch \in Kernels,
         NEW t \in Running, NEW u \in Running, t # u,
         NEW i \in 1..Len(program), NEW j \in 1..Len(program),
         PhaseFormed(program[i]), PhaseFormed(program[j]),
         MayTogether(program[i].op, program[j].op)
  PROVE  Writes(i, t) \cap (Reads(j, u) \cup Writes(j, u)) = {}
<1> DEFINE p == program[i]
           q == program[j]
<1>1. PICK G \in Groups : p.op \in G /\ q.op \in G
  BY DEF MayTogether
<1>2. CASE p.op \in {"map", "warp", "load", "sync"} /\ q.op \in {"map", "warp", "load", "sync"}
  <2>1. CASE p.op = "map"
    <3>1. Writes(i, t) \subseteq Own(p.out, t)
      BY <2>1 DEF Writes
    <3>2. CASE q.op = "map"
      <4>1. Reads(j, u) \cup Writes(j, u) \subseteq Own(q.in, u) \cup Own(q.out, u)
        BY <3>2 DEF Reads, Writes
      <4> QED
        BY <3>1, <4>1, OwnDisjoint
    <3>3. CASE q.op = "warp"
      <4>1. \A c \in Reads(j, u) \cup Writes(j, u) : c[1] = "storage"
        BY <3>3 DEF Reads, Writes
      <4>2. \A c \in Own(p.out, t) : c[1] = p.out
        BY DEF Own
      <4> QED
        BY <2>1, <3>1, <4>1, <4>2 DEF PhaseFormed
    <3>4. CASE q.op = "load"
      <4>1. \A c \in Reads(j, u) \cup Writes(j, u) : c[1] = "shared"
        BY <3>4 DEF Reads, Writes, PhaseFormed
      <4>2. \A c \in Own(p.out, t) : c[1] = p.out
        BY DEF Own
      <4> QED
        BY <2>1, <3>1, <4>1, <4>2 DEF PhaseFormed
    <3>5. CASE q.op = "sync"
      BY <3>5 DEF Reads, Writes
    <3> QED
      BY <1>2, <3>2, <3>3, <3>4, <3>5
  <2>2. CASE p.op = "warp"
    <3>1. Writes(i, t) \subseteq {c \in {<<"storage", Warp(t)>>} : t % WarpSize = 0}
      BY <2>2 DEF Writes
    <3>2. CASE q.op = "map"
      <4>1. Reads(j, u) \cup Writes(j, u) \subseteq Own(q.in, u) \cup Own(q.out, u)
        BY <3>2 DEF Reads, Writes
      <4>2. \A a : \A c \in Own(a, u) : c[1] = a
        BY DEF Own
      <4>3. q.in # "storage" /\ q.out # "storage"
        BY <3>2 DEF PhaseFormed
      <4> QED
        BY <3>1, <4>1, <4>2, <4>3
    <3>3. CASE q.op = "warp"
      <4>1. Reads(j, u) \cup Writes(j, u) \subseteq {c \in {<<"storage", Warp(u)>>} : u % WarpSize = 0}
        BY <3>3 DEF Reads, Writes
      <4>2. ASSUME t % WarpSize = 0, u % WarpSize = 0, Warp(t) = Warp(u) PROVE FALSE
        <5>1. t \in Nat /\ u \in Nat
          BY ThreadsAreNumbers
        <5>2. t = (t \div WarpSize) * WarpSize + (t % WarpSize)
          BY <5>1, Quotient, BlockAssumption
        <5>3. u = (u \div WarpSize) * WarpSize + (u % WarpSize)
          BY <5>1, Quotient, BlockAssumption
        <5>4. t \div WarpSize = u \div WarpSize
          BY <4>2 DEF Warp
        <5> QED
          BY <4>2, <5>2, <5>3, <5>4
      <4> QED
        BY <3>1, <4>1, <4>2
    <3>4. CASE q.op = "load"
      <4>1. \A c \in Reads(j, u) \cup Writes(j, u) : c[1] = "shared"
        BY <3>4 DEF Reads, Writes, PhaseFormed
      <4> QED
        BY <3>1, <4>1
    <3>5. CASE q.op = "sync"
      BY <3>5 DEF Reads, Writes
    <3> QED
      BY <1>2, <3>2, <3>3, <3>4, <3>5
  <2>3. CASE p.op \in {"load", "sync"}
    BY <2>3 DEF Writes
  <2> QED
    BY <1>2, <2>1, <2>2, <2>3
<1>3. CASE p.op \in {"gather", "publish", "sync"} /\ q.op \in {"gather", "publish", "sync"}
  <2>1. t # 0 \/ u # 0
    OBVIOUS
  <2>2. t # 0 => Writes(i, t) = {}
    BY <1>3 DEF Writes
  <2>3. u # 0 => Reads(j, u) = {} /\ Writes(j, u) = {}
    BY <1>3 DEF Reads, Writes
  <2> QED
    BY <2>1, <2>2, <2>3
<1>4. CASE p.op \in {"all", "sync"} /\ q.op \in {"all", "sync"}
  <2>1. CASE p.op = "sync" \/ q.op = "sync"
    BY <2>1 DEF Reads, Writes
  <2>2. CASE p.op = "all" /\ q.op = "all"
    <3>1. Writes(i, t) \subseteq Own(p.out, t)
      BY <2>2 DEF Writes
    <3>2. Writes(j, u) \subseteq Own(q.out, u)
      BY <2>2 DEF Writes
    <3>3. \A c \in Reads(j, u) : c[1] = q.in
      BY <2>2 DEF Reads, Whole
    <3>4. \A c \in Own(p.out, t) : c[1] = p.out
      BY DEF Own
    <3>5. p.out # q.in
      BY <2>2 DEF PhaseFormed
    <3> QED
      BY <3>1, <3>2, <3>3, <3>4, <3>5, OwnDisjoint
  <2> QED
    BY <1>4, <2>1, <2>2
<1> QED
  BY <1>1, <1>2, <1>3, <1>4 DEF Groups


-----------------------------------------------------------------------------
(* The kernels whose threads own an element of the grid *)

LEMMA SyncOrMap ==
  ASSUME launch \in Kernels, launch.kernel \in {"swiglu", "add"},
         NEW k \in 1..Len(program)
  PROVE  program[k].op \in {"map", "sync"}
<1>1. CASE launch.kernel = "add"
  <2>1. program = add
    BY <1>1 DEF program, programs
  <2>2. Len(add) = 1 /\ add[1].op = "map"
    BY DEF add, map
  <2> QED
    BY <2>1, <2>2
<1>2. CASE launch.kernel = "swiglu"
  <2>1. program = swiglu
    BY <1>2 DEF program, programs
  <2>2. Len(swiglu) = 3
    BY DEF swiglu
  <2>3. swiglu[1].op = "map" /\ swiglu[2].op = "sync" /\ swiglu[3].op = "map"
    BY DEF swiglu, map, sync
  <2> QED
    BY <2>1, <2>2, <2>3
<1> QED
  BY <1>1, <1>2

LEMMA MapIndependent ==
  ASSUME launch \in Kernels, launch.kernel \in {"swiglu", "add"},
         NEW t \in Running, NEW u \in Running, t # u,
         NEW i \in 1..Len(program), NEW j \in 1..Len(program)
  PROVE  Writes(i, t) \cap (Reads(j, u) \cup Writes(j, u)) = {}
<1>1. program[i].op \in {"map", "sync"} /\ program[j].op \in {"map", "sync"}
  BY SyncOrMap
<1>2. Writes(i, t) \subseteq Own(program[i].out, t)
  BY <1>1 DEF Writes
<1>3. Reads(j, u) \cup Writes(j, u) \subseteq Own(program[j].in, u) \cup Own(program[j].out, u)
  BY <1>1 DEF Reads, Writes
<1> QED
  BY <1>2, <1>3, OwnDisjoint

LEMMA HalfHead ==
  Half \in Nat \ {0} /\ HeadSize = Half + Half
  BY HeadAssumption DEF Half

RowOf(t) == t \div (QueryHeads * Half)
HeadOf(t) == (t % (QueryHeads * Half)) \div Half
Offset(t) == (t % (QueryHeads * Half)) % Half

LEMMA Coordinates ==
  ASSUME NEW t \in Nat
  PROVE  /\ RowOf(t) \in Nat /\ HeadOf(t) \in 0..(QueryHeads - 1) /\ Offset(t) \in 0..(Half - 1)
         /\ t = RowOf(t) * (QueryHeads * Half) + (HeadOf(t) * Half + Offset(t))
<1> DEFINE n == QueryHeads * Half
           rest == t % n
<1>1. QueryHeads \in Nat \ {0} /\ Half \in Nat \ {0}
  BY HeadAssumption, HalfHead
<1>2. n \in Nat \ {0}
  BY <1>1
<1>3. RowOf(t) \in Nat /\ rest \in 0..(n - 1) /\ t = RowOf(t) * n + rest
  BY <1>2, Quotient DEF RowOf
<1>4. HeadOf(t) \in Nat /\ Offset(t) \in 0..(Half - 1) /\ rest = HeadOf(t) * Half + Offset(t)
  <2>1. HeadOf(t) = rest \div Half /\ Offset(t) = rest % Half
    BY DEF HeadOf, Offset
  <2>2. rest \in Nat
    BY <1>2, <1>3
  <2> HIDE DEF rest
  <2> QED
    BY <1>1, <2>1, <2>2, Quotient
<1>5. HeadOf(t) < QueryHeads
  <2>1. ASSUME HeadOf(t) >= QueryHeads PROVE FALSE
    <3>1. \A a, b \in Nat : a >= b => a * Half >= b * Half
      BY <1>1
    <3>2. HeadOf(t) * Half >= n
      BY <1>1, <1>4, <2>1, <3>1
    <3>3. HeadOf(t) * Half \in Nat
      BY <1>1, <1>4
    <3> HIDE DEF n, rest
    <3> QED
      BY <1>1, <1>2, <1>3, <1>4, <3>2, <3>3
  <2> QED
    BY <1>1, <1>4, <2>1
<1> QED
  BY <1>1, <1>3, <1>4, <1>5

\* Where a thread's pair has its two elements, in rows of W heads.
Place(W, s, a) == RowOf(s) * W * HeadSize + HeadOf(s) * HeadSize + Offset(s) + a

LEMMA PlaceAsDigits ==
  ASSUME NEW W \in Nat \ {0}, NEW s \in Nat, NEW a \in {0, Half}
  PROVE  /\ RowOf(s) * W + HeadOf(s) \in Nat
         /\ Offset(s) + a \in 0..(HeadSize - 1)
         /\ Place(W, s, a) = (RowOf(s) * W + HeadOf(s)) * HeadSize + (Offset(s) + a)
<1>1. RowOf(s) \in Nat /\ HeadOf(s) \in Nat /\ Offset(s) \in 0..(Half - 1)
  BY Coordinates, HeadAssumption
<1>2. HeadSize \in Nat \ {0} /\ Half \in Nat \ {0} /\ HeadSize = Half + Half
  BY HalfHead, HeadAssumption
<1> DEFINE x == RowOf(s) * W
<1>3. x \in Nat
  BY <1>1
<1>4. x * HeadSize \in Nat /\ HeadOf(s) * HeadSize \in Nat
  <2> HIDE DEF x
  <2> QED
    BY <1>1, <1>2, <1>3
<1>5. x * HeadSize + HeadOf(s) * HeadSize = (x + HeadOf(s)) * HeadSize
  <2> HIDE DEF x
  <2> QED
    BY <1>1, <1>2, <1>3
<1>6. Place(W, s, a) = x * HeadSize + HeadOf(s) * HeadSize + Offset(s) + a
  BY DEF Place
<1> HIDE DEF x
<1>7. Place(W, s, a) = (x * HeadSize + HeadOf(s) * HeadSize) + (Offset(s) + a)
  BY <1>1, <1>2, <1>4, <1>6
<1>8. x + HeadOf(s) \in Nat /\ Offset(s) + a \in 0..(HeadSize - 1)
  BY <1>1, <1>2, <1>3
<1> QED
  BY <1>5, <1>7, <1>8 DEF x

\* A place has one row, head and offset in a half.
LEMMA PlaceUnique ==
  ASSUME NEW W \in Nat \ {0}, NEW t \in Nat, NEW u \in Nat,
         HeadOf(t) < W, HeadOf(u) < W,
         NEW a \in {0, Half}, NEW b \in {0, Half},
         Place(W, t, a) = Place(W, u, b)
  PROVE  t = u
<1> DEFINE x == RowOf(t) * W + HeadOf(t)
           y == RowOf(u) * W + HeadOf(u)
<1>1. HeadSize \in Nat \ {0} /\ Half \in Nat \ {0} /\ HeadSize = Half + Half
  BY HalfHead, HeadAssumption
<1>2. /\ RowOf(t) \in Nat /\ HeadOf(t) \in 0..(W - 1) /\ Offset(t) \in 0..(Half - 1)
      /\ RowOf(u) \in Nat /\ HeadOf(u) \in 0..(W - 1) /\ Offset(u) \in 0..(Half - 1)
  <2>1. /\ RowOf(t) \in Nat /\ HeadOf(t) \in Nat /\ Offset(t) \in 0..(Half - 1)
        /\ RowOf(u) \in Nat /\ HeadOf(u) \in Nat /\ Offset(u) \in 0..(Half - 1)
    BY Coordinates, HeadAssumption
  <2> QED
    BY <2>1
<1>3. /\ x \in Nat /\ Offset(t) + a \in 0..(HeadSize - 1)
      /\ y \in Nat /\ Offset(u) + b \in 0..(HeadSize - 1)
      /\ x * HeadSize + (Offset(t) + a) = y * HeadSize + (Offset(u) + b)
  BY PlaceAsDigits
<1>4. x = y /\ Offset(t) + a = Offset(u) + b
  <2> HIDE DEF x, y
  <2> QED
    BY <1>1, <1>3, Digits
<1>5. Offset(t) = Offset(u)
  BY <1>1, <1>2, <1>4
<1>6. RowOf(t) * W + HeadOf(t) = RowOf(u) * W + HeadOf(u)
  BY <1>4
<1>7. RowOf(t) = RowOf(u) /\ HeadOf(t) = HeadOf(u)
  BY <1>2, <1>6, Digits
<1> QED
  BY <1>5, <1>7, Coordinates

LEMMA PairsDisjoint ==
  ASSUME NEW t \in Nat, NEW u \in Nat, t # u
  PROVE  Pair(t) \cap Pair(u) = {}
<1>1. Half \in Nat /\ QueryHeads \in Nat \ {0} /\ KvHeads \in Nat \ {0}
  BY HalfHead, HeadAssumption
<1>2. ASSUME NEW s \in Nat, NEW c \in Pair(s)
      PROVE  \/ \E a \in {0, Half} : c = <<"query", Place(QueryHeads, s, a)>>
             \/ HeadOf(s) < KvHeads /\ \E a \in {0, Half} : c = <<"key", Place(KvHeads, s, a)>>
  <2> DEFINE q == RowOf(s) * QueryHeads * HeadSize + HeadOf(s) * HeadSize + Offset(s)
             k == RowOf(s) * KvHeads * HeadSize + HeadOf(s) * HeadSize + Offset(s)
  <2>1. q \in Nat /\ k \in Nat
    <3>1. RowOf(s) \in Nat /\ HeadOf(s) \in Nat /\ Offset(s) \in Nat /\ HeadSize \in Nat
      BY <1>1, Coordinates, HeadAssumption
    <3> QED
      BY <1>1, <3>1
  <2>2. Pair(s) = {<<"query", q>>, <<"query", q + Half>>}
                    \cup (IF HeadOf(s) < KvHeads THEN {<<"key", k>>, <<"key", k + Half>>} ELSE {})
    BY DEF Pair, RowOf, HeadOf, Offset
  <2>3. \A a \in {0, Half} : Place(QueryHeads, s, a) = q + a /\ Place(KvHeads, s, a) = k + a
    BY DEF Place
  <2> HIDE DEF q, k
  <2>4. Place(QueryHeads, s, 0) = q /\ Place(QueryHeads, s, Half) = q + Half
        /\ Place(KvHeads, s, 0) = k /\ Place(KvHeads, s, Half) = k + Half
    BY <2>1, <2>3
  <2> QED
    BY <1>2, <2>2, <2>4
<1>3. HeadOf(t) < QueryHeads /\ HeadOf(u) < QueryHeads
  BY <1>1, Coordinates
<1>4. \A a, b \in {0, Half} : Place(QueryHeads, t, a) # Place(QueryHeads, u, b)
  BY <1>1, <1>3, PlaceUnique
<1>5. HeadOf(t) < KvHeads /\ HeadOf(u) < KvHeads =>
        \A a, b \in {0, Half} : Place(KvHeads, t, a) # Place(KvHeads, u, b)
  BY <1>1, PlaceUnique
<1> QED
  BY <1>2, <1>4, <1>5

LEMMA RotateIndependent ==
  ASSUME launch \in Kernels, launch.kernel = "rope",
         NEW t \in Running, NEW u \in Running, t # u,
         NEW i \in 1..Len(program), NEW j \in 1..Len(program)
  PROVE  Writes(i, t) \cap (Reads(j, u) \cup Writes(j, u)) = {}
<1>1. program = rope
  BY DEF program, programs
<1>2. Len(rope) = 1 /\ rope[1].op = "rotate"
  BY DEF rope
<1>3. program[i].op = "rotate" /\ program[j].op = "rotate"
  BY <1>1, <1>2
<1>4. Writes(i, t) = Pair(t) /\ Reads(j, u) = Pair(u) /\ Writes(j, u) = Pair(u)
  BY <1>3 DEF Reads, Writes
<1>5. t \in Nat /\ u \in Nat
  BY ThreadsAreNumbers
<1> QED
  BY <1>4, <1>5, PairsDisjoint

-----------------------------------------------------------------------------
(* The inductive invariant *)

TypeInv ==
  /\ launch \in Kernels
  /\ pc \in [Running -> Nat \ {0}]

(* No barrier lies between the phases of two threads of a block: one that   *)
(* has passed a barrier has done so with all the others.                    *)
Together ==
  launch.kernel \in OneBlock =>
    \A t, u \in Running : SameStretch(program, pc[t], pc[u])

LEMMA ProgramLength ==
  ASSUME launch \in Kernels
  PROVE  Len(program) \in Nat /\ DOMAIN program = 1..Len(program)
<1>1. /\ Len(paged_attention) = 19 /\ DOMAIN paged_attention = 1..19
      /\ Len(rmsnorm) = 8 /\ DOMAIN rmsnorm = 1..8
      /\ Len(matmul) = 9 /\ DOMAIN matmul = 1..9
      /\ Len(swiglu) = 3 /\ DOMAIN swiglu = 1..3
      /\ Len(add) = 1 /\ DOMAIN add = 1..1 /\ Len(rope) = 1 /\ DOMAIN rope = 1..1
  BY DEF paged_attention, rmsnorm, matmul, swiglu, add, rope
<1>2. program \in {paged_attention, rmsnorm, matmul, swiglu, add, rope}
  BY KernelNames DEF program, programs
<1> QED
  BY <1>1, <1>2

(* Phases with no barrier between them touch different cells for different  *)
(* threads, those of the kernels without shared memory any two phases.      *)
LEMMA CellsApart ==
  ASSUME launch \in Kernels,
         NEW t \in Running, NEW u \in Running, t # u,
         NEW i \in 1..Len(program), NEW j \in 1..Len(program),
         launch.kernel \in OneBlock =>
           SameStretch(program, i, j) /\ SameStretch(program, j, i)
  PROVE  Writes(i, t) \cap (Reads(j, u) \cup Writes(j, u)) = {}
<1>1. CASE launch.kernel \in OneBlock
  <2>1. WellFormed(program) /\ BarriersSeparate(program)
    BY <1>1, ProgramSeparates
  <2>2. PhaseFormed(program[i]) /\ PhaseFormed(program[j])
    BY <2>1 DEF WellFormed
  <2>3. CASE i <= j
    <3>1. MayTogether(program[i].op, program[j].op)
      BY <1>1, <2>1, <2>3 DEF BarriersSeparate
    <3> QED
      BY <2>2, <3>1, GroupIndependent
  <2>4. CASE j <= i
    <3>1. MayTogether(program[j].op, program[i].op)
      BY <1>1, <2>1, <2>4 DEF BarriersSeparate
    <3>2. MayTogether(program[i].op, program[j].op)
      BY <3>1 DEF MayTogether
    <3> QED
      BY <2>2, <3>2, GroupIndependent
  <2>5. i \in Nat /\ j \in Nat
    BY ProgramLength
  <2> QED
    BY <2>3, <2>4, <2>5
<1>2. CASE launch.kernel \in {"swiglu", "add"}
  BY <1>2, MapIndependent
<1>3. CASE launch.kernel = "rope"
  BY <1>3, RotateIndependent
<1> QED
  BY <1>1, <1>2, <1>3, KernelNames DEF OneBlock

LEMMA InvImpliesRaceFree == TypeInv /\ Together => RaceFree
<1> SUFFICES ASSUME TypeInv, Together, NEW t \in Running, NEW u \in Running, t # u,
                    ~Done(t), ~Done(u)
             PROVE  Writes(pc[t], t) \cap (Reads(pc[u], u) \cup Writes(pc[u], u)) = {}
  BY DEF RaceFree, Conflict
<1>1. launch \in Kernels
  BY DEF TypeInv
<1>2. pc[t] \in 1..Len(program) /\ pc[u] \in 1..Len(program)
  BY <1>1, ProgramLength DEF TypeInv, Done
<1>3. launch.kernel \in OneBlock =>
        SameStretch(program, pc[t], pc[u]) /\ SameStretch(program, pc[u], pc[t])
  BY DEF Together
<1> QED
  BY <1>1, <1>2, <1>3, CellsApart

-----------------------------------------------------------------------------
(* What memory holds *)

\* The phases in which a thread has already written a cell.
WrittenIn(c) == {j \in 1..Len(program) : \E t \in Running : c \in Writes(j, t) /\ j < pc[t]}

(* A cell holds the last of the phases of the program that have written it, *)
(* whatever the order in which the threads came to it.                      *)
LastWritten ==
  /\ DOMAIN mem = Cells
  /\ \A c \in Cells : /\ mem[c] \in WrittenIn(c) \cup {0}
                       /\ \A j \in WrittenIn(c) : j <= mem[c]

\* A phase that has been left without its thread has no barrier behind it that
\* the thread has not passed.
LEMMA BehindIsSameStretch ==
  ASSUME TypeInv, Together, launch.kernel \in OneBlock,
         NEW t \in Running, NEW u \in Running,
         NEW i \in 1..Len(program), NEW j \in 1..Len(program),
         pc[t] <= i, i <= j, j <= pc[u]
  PROVE  SameStretch(program, i, j) /\ SameStretch(program, j, i)
<1>1. SameStretch(program, pc[t], pc[u])
  BY DEF Together
<1>2. pc[t] \in Nat /\ pc[u] \in Nat /\ Len(program) \in Nat
  BY ProgramLength DEF TypeInv
<1>3. SameStretch(program, i, j)
  BY <1>1, <1>2 DEF SameStretch
<1>4. SameStretch(program, j, i)
  BY <1>2 DEF SameStretch
<1> QED
  BY <1>3, <1>4

(* Who has gone through a phase beyond mine without a barrier between has   *)
(* not touched my cells, and I not theirs.                                  *)
LEMMA AheadApart ==
  ASSUME TypeInv, Together,
         NEW t \in Running, NEW u \in Running, t # u,
         NEW i \in 1..Len(program), NEW j \in 1..Len(program),
         pc[t] <= i, i <= j, j <= pc[u]
  PROVE  /\ Writes(i, t) \cap (Reads(j, u) \cup Writes(j, u)) = {}
         /\ Writes(j, u) \cap (Reads(i, t) \cup Writes(i, t)) = {}
<1>1. launch \in Kernels
  BY DEF TypeInv
<1>2. launch.kernel \in OneBlock =>
        SameStretch(program, i, j) /\ SameStretch(program, j, i)
  BY BehindIsSameStretch
<1> QED
  BY <1>1, <1>2, CellsApart

LEMMA TouchedAreCells ==
  ASSUME launch \in Kernels, NEW t \in Running, NEW k \in 1..Len(program)
  PROVE  Reads(k, t) \subseteq Cells /\ Writes(k, t) \subseteq Cells
<1>1. k \in DOMAIN program
  BY ProgramLength
<1> DEFINE X == {Reads(i, u) \cup Writes(i, u) : i \in DOMAIN program, u \in Running}
<1>2. Cells = UNION X
  BY DEF Cells
<1>3. Reads(k, t) \cup Writes(k, t) \in X
  BY <1>1
<1> HIDE DEF X
<1> QED
  BY <1>2, <1>3

Inv == TypeInv /\ Together /\ LastWritten

LEMMA InitInv == Init => Inv
<1> SUFFICES ASSUME Init PROVE Inv
  OBVIOUS
<1>1. TypeInv
  BY DEF Init, TypeInv
<1>2. Together
  BY DEF Init, Together, SameStretch
<1>3. LastWritten
  <2>1. \A c : WrittenIn(c) = {}
    <3>1. Len(program) \in Nat
      BY <1>1, ProgramLength DEF TypeInv
    <3> QED
      BY <3>1 DEF Init, WrittenIn
  <2> QED
    BY <2>1 DEF Init, LastWritten
<1> QED
  BY <1>1, <1>2, <1>3 DEF Inv

LEMMA LaunchFixed ==
  ASSUME UNCHANGED launch
  PROVE  /\ Running' = Running /\ program' = program
         /\ (launch.kernel)' = launch.kernel /\ Threads' = Threads
         /\ \A k, t : Reads(k, t)' = Reads(k, t) /\ Writes(k, t)' = Writes(k, t)
         /\ Cells' = Cells
<1>1. Threads' = Threads
  BY DEF Threads, OneBlock
<1>2. program' = program
  BY DEF program
<1>3. Running' = Running
  BY <1>1 DEF Running
<1>4. \A a : Whole(a)' = Whole(a) /\ \A t : Own(a, t)' = Own(a, t)
  BY DEF Whole, Own, Extent, Owner, OneBlock
<1>5. Warps' = Warps
  BY <1>1 DEF Warps
<1>6. \A k, t : Reads(k, t)' = Reads(k, t) /\ Writes(k, t)' = Writes(k, t)
  BY <1>2, <1>4, <1>5 DEF Reads, Writes
<1>7. Cells' = Cells
  BY <1>2, <1>3, <1>6 DEF Cells
<1> QED
  BY <1>1, <1>2, <1>3, <1>6, <1>7

\* Threads that move on, all from phases that are not barriers.
LEMMA AdvanceKeeps ==
  ASSUME Inv, UNCHANGED launch, NEW moved \in SUBSET Running,
         \A t \in moved : ~At(t, "sync") /\ ~Done(t),
         pc' = [t \in Running |-> IF t \in moved THEN pc[t] + 1 ELSE pc[t]],
         NEW cells, NEW now, Write(cells, now),
         cells = UNION {Writes(pc[t], t) : t \in moved},
         \A t \in moved : Writes(pc[t], t) # {} => pc[t] = now
  PROVE  Inv'
<1>1. /\ Running' = Running /\ program' = program /\ (launch.kernel)' = launch.kernel
  BY LaunchFixed
<1>2. TypeInv'
  BY <1>1 DEF Inv, TypeInv
<1>3. Together'
  <2> SUFFICES ASSUME launch.kernel \in OneBlock, NEW t \in Running, NEW u \in Running,
                      NEW k \in 1..Len(program), pc'[t] <= k, k < pc'[u]
               PROVE  program[k].op # "sync"
    BY <1>1 DEF Together, SameStretch
  <2>1. pc[t] \in Nat /\ pc[u] \in Nat /\ pc[t] <= pc'[t] /\ pc'[u] <= pc[u] + 1
    BY DEF Inv, TypeInv
  <2>2. CASE k < pc[u]
    <3>1. SameStretch(program, pc[t], pc[u])
      BY DEF Inv, Together
    <3>2. pc[t] <= k
      BY <1>2, <2>1
    <3> QED
      BY <2>2, <3>1, <3>2 DEF SameStretch
  <2>3. CASE ~(k < pc[u])
    <3>1. u \in moved /\ k = pc[u]
      BY <2>1, <2>3
    <3> QED
      BY <1>1, <3>1, ProgramLength DEF At, Done, Inv, TypeInv
  <2> QED
    BY <2>2, <2>3
<1>4. LastWritten'
  <2>1. launch \in Kernels /\ Len(program) \in Nat
    BY ProgramLength DEF Inv, TypeInv
  <2>2. \A t \in Running : pc[t] \in Nat \ {0}
    BY DEF Inv, TypeInv
  <2>3. \A t \in moved : pc[t] \in 1..Len(program)
    BY <2>1, <2>2 DEF Done
  <2>4. \A t \in Running : pc'[t] = IF t \in moved THEN pc[t] + 1 ELSE pc[t]
    OBVIOUS
  <2>5. \A c : WrittenIn(c)' = {j \in 1..Len(program) : \E t \in Running : c \in Writes(j, t) /\ j < pc'[t]}
    BY <1>1, LaunchFixed DEF WrittenIn
  <2>6. ASSUME NEW c
        PROVE  WrittenIn(c)' = WrittenIn(c) \cup {j \in {now} : c \in cells}
    <3>1. ASSUME NEW j \in WrittenIn(c)' PROVE j \in WrittenIn(c) \cup {i \in {now} : c \in cells}
      <4>1. PICK t \in Running : c \in Writes(j, t) /\ j < pc'[t]
        BY <2>5, <3>1
      <4>2. j \in 1..Len(program)
        BY <2>5, <3>1
      <4>3. CASE j < pc[t]
        BY <4>1, <4>2, <4>3 DEF WrittenIn
      <4>4. CASE ~(j < pc[t])
        <5>1. t \in moved /\ j = pc[t]
          BY <2>2, <2>4, <4>1, <4>2, <4>4
        <5>2. c \in cells /\ j = now
          BY <4>1, <5>1
        <5> QED
          BY <5>2
      <4> QED
        BY <4>3, <4>4
    <3>2. ASSUME NEW j \in WrittenIn(c) PROVE j \in WrittenIn(c)'
      <4>1. PICK t \in Running : c \in Writes(j, t) /\ j < pc[t]
        BY DEF WrittenIn
      <4>2. j \in 1..Len(program)
        BY DEF WrittenIn
      <4>3. j < pc'[t]
        BY <2>2, <2>4, <4>1, <4>2
      <4> QED
        BY <2>5, <4>1, <4>2, <4>3
    <3>3. ASSUME c \in cells PROVE now \in WrittenIn(c)'
      <4>1. PICK t \in moved : c \in Writes(pc[t], t)
        BY <3>3
      <4>2. pc[t] = now
        BY <4>1
      <4>3. now \in 1..Len(program) /\ now < pc'[t] /\ c \in Writes(now, t)
        BY <2>3, <2>4, <4>1, <4>2
      <4> QED
        BY <2>5, <4>3
    <3> QED
      BY <3>1, <3>2, <3>3
  <2>7. ASSUME NEW c \in cells, NEW j \in WrittenIn(c) PROVE j <= now
    <3>1. PICK t \in moved : c \in Writes(pc[t], t) /\ pc[t] = now
      BY <2>7
    <3>2. PICK u \in Running : c \in Writes(j, u) /\ j < pc[u]
      BY DEF WrittenIn
    <3>3. j \in 1..Len(program) /\ now \in 1..Len(program) /\ pc[u] \in Nat
      BY <2>2, <2>3, <3>1 DEF WrittenIn
    <3>4. CASE u = t
      BY <3>1, <3>2, <3>3, <3>4
    <3>5. CASE u # t
      <4> SUFFICES ASSUME now < j PROVE FALSE
        BY <3>3
      <4>1. Writes(now, t) \cap (Reads(j, u) \cup Writes(j, u)) = {}
        BY <3>1, <3>2, <3>3, <3>5, AheadApart DEF Inv
      <4> QED
        BY <3>1, <3>2, <4>1
    <3> QED
      BY <3>4, <3>5
  <2>8. DOMAIN mem' = Cells' /\ Cells' = Cells
    BY LaunchFixed DEF Inv, LastWritten, Write
  <2>9. ASSUME NEW c \in Cells
        PROVE  /\ mem'[c] \in WrittenIn(c)' \cup {0}
               /\ \A j \in WrittenIn(c)' : j <= mem'[c]
    <3>1. mem'[c] = IF c \in cells THEN now ELSE mem[c]
      BY DEF Inv, LastWritten, Write
    <3>2. CASE c \in cells
      <4>1. mem'[c] = now /\ WrittenIn(c)' = WrittenIn(c) \cup {now}
        BY <2>6, <3>1, <3>2
      <4>2. now \in Nat
        BY <2>3, <3>2
      <4> QED
        BY <2>7, <3>2, <4>1, <4>2
    <3>3. CASE c \notin cells
      <4>1. mem'[c] = mem[c] /\ WrittenIn(c)' = WrittenIn(c)
        BY <2>6, <3>1, <3>3
      <4> QED
        BY <4>1 DEF Inv, LastWritten
    <3> QED
      BY <3>2, <3>3
  <2> QED
    BY <2>8, <2>9 DEF LastWritten
<1> QED
  BY <1>2, <1>3, <1>4 DEF Inv

LEMMA StepKeeps ==
  ASSUME Inv, NEW t \in Running, Step(t)
  PROVE  Inv'
<1>1. pc' = [s \in Running |-> IF s \in {t} THEN pc[s] + 1 ELSE pc[s]]
  BY DEF Step, Inv, TypeInv
<1>2. UNCHANGED launch /\ \A s \in {t} : ~At(s, "sync") /\ ~Done(s)
  BY DEF Step
<1>3. {t} \in SUBSET Running
  OBVIOUS
<1>4. Write(Writes(pc[t], t), pc[t])
  BY DEF Step
<1>5. Writes(pc[t], t) = UNION {Writes(pc[s], s) : s \in {t}}
  OBVIOUS
<1> QED
  BY <1>1, <1>2, <1>3, <1>4, <1>5, AdvanceKeeps

LEMMA WarpReduceKeeps ==
  ASSUME Inv, NEW w, WarpReduce(w)
  PROVE  Inv'
<1>1. Lanes(w) \in SUBSET Running
  BY DEF WarpReduce
<1>2. \A t \in Lanes(w) : ~At(t, "sync") /\ ~Done(t) /\ program[pc[t]].op = "warp"
  BY DEF WarpReduce, At
<1>3. pc' = [t \in Running |-> IF t \in Lanes(w) THEN pc[t] + 1 ELSE pc[t]]
  BY DEF WarpReduce
<1>4. ASSUME NEW t \in Lanes(w), Writes(pc[t], t) # {} PROVE pc[t] = pc[w * WarpSize]
  <2>1. t % WarpSize = 0 /\ t \div WarpSize = w
    BY <1>2, <1>4 DEF Writes, Lanes, Warp
  <2>2. t \in Nat
    BY <1>1, ThreadsAreNumbers DEF Inv, TypeInv
  <2>3. t = (t \div WarpSize) * WarpSize + (t % WarpSize) /\ t \div WarpSize \in Nat
    BY <2>2, Quotient, BlockAssumption
  <2>4. t = w * WarpSize
    BY <2>1, <2>3, BlockAssumption
  <2> QED
    BY <2>4
<1>5. Write(UNION {Writes(pc[t], t) : t \in Lanes(w)}, pc[w * WarpSize]) /\ UNCHANGED launch
  BY DEF WarpReduce
<1> QED
  BY <1>1, <1>2, <1>3, <1>4, <1>5, AdvanceKeeps

LEMMA SyncKeeps ==
  ASSUME Inv, NEW s \in Running, SyncThreads(Block(s))
  PROVE  Inv'
<1>1. /\ Running' = Running /\ program' = program /\ (launch.kernel)' = launch.kernel
  BY LaunchFixed DEF SyncThreads
<1>2. TypeInv'
  BY <1>1 DEF Inv, TypeInv, SyncThreads
<1>3. Together'
  <2> SUFFICES ASSUME launch.kernel \in OneBlock, NEW t \in Running, NEW u \in Running
               PROVE  pc'[t] = pc'[u]
    BY <1>1, <1>2 DEF Together, SameStretch, TypeInv
  <2>1. \A r \in Running : Block(r) = 0
    BY OneBlockThreads DEF Inv, TypeInv
  <2>2. \A r \in Running : At(r, "sync") /\ pc'[r] = pc[r] + 1
    BY <2>1 DEF SyncThreads
  <2>3. pc[t] \in 1..Len(program) /\ pc[u] \in 1..Len(program)
    BY <2>2, ProgramLength DEF At, Done, Inv, TypeInv
  <2>4. ~(pc[t] < pc[u]) /\ ~(pc[u] < pc[t])
    BY <2>2, <2>3 DEF Inv, Together, SameStretch, At
  <2> QED
    BY <2>2, <2>3, <2>4
<1>4. LastWritten'
  <2>1. launch \in Kernels /\ Len(program) \in Nat
    BY ProgramLength DEF Inv, TypeInv
  <2>2. \A t \in Running : /\ pc[t] \in Nat
                           /\ pc'[t] = pc[t] \/ (pc'[t] = pc[t] + 1 /\ program[pc[t]].op = "sync")
    BY DEF SyncThreads, At, Inv, TypeInv
  <2>3. ASSUME NEW c PROVE WrittenIn(c)' = WrittenIn(c)
    <3>1. WrittenIn(c)' = {j \in 1..Len(program) : \E t \in Running : c \in Writes(j, t) /\ j < pc'[t]}
      BY <1>1, LaunchFixed DEF WrittenIn, SyncThreads
    <3>2. \A j \in 1..Len(program), t \in Running :
            c \in Writes(j, t) => (j < pc'[t] <=> j < pc[t])
      <4> SUFFICES ASSUME NEW j \in 1..Len(program), NEW t \in Running, c \in Writes(j, t)
                   PROVE  j < pc'[t] <=> j < pc[t]
        OBVIOUS
      <4>1. program[j].op # "sync"
        BY DEF Writes
      <4>2. j # pc[t] \/ pc'[t] = pc[t]
        BY <2>2, <4>1
      <4> QED
        BY <2>1, <2>2, <4>2
    <3> QED
      BY <3>1, <3>2 DEF WrittenIn
  <2>4. mem' = mem /\ Cells' = Cells
    BY LaunchFixed DEF SyncThreads
  <2> QED
    BY <2>3, <2>4 DEF Inv, LastWritten
<1> QED
  BY <1>2, <1>3, <1>4 DEF Inv

LEMMA NextKeeps == Inv /\ [Next]_vars => Inv'
<1> SUFFICES ASSUME Inv, [Next]_vars PROVE Inv'
  OBVIOUS
<1>1. CASE \E t \in Running : Step(t)
  BY <1>1, StepKeeps
<1>2. CASE \E w \in Warps : WarpReduce(w)
  BY <1>2, WarpReduceKeeps
<1>3. CASE \E t \in Running : SyncThreads(Block(t))
  BY <1>3, SyncKeeps
<1>4. CASE UNCHANGED vars
  <2>1. UNCHANGED launch /\ UNCHANGED pc /\ UNCHANGED mem
    BY <1>4 DEF vars
  <2>2. /\ Running' = Running /\ program' = program /\ (launch.kernel)' = launch.kernel
        /\ Cells' = Cells /\ \A k, t : Writes(k, t)' = Writes(k, t)
    BY <2>1, LaunchFixed
  <2>3. \A c : WrittenIn(c)' = WrittenIn(c)
    BY <2>1, <2>2 DEF WrittenIn
  <2> QED
    BY <2>1, <2>2, <2>3 DEF Inv, TypeInv, Together, SameStretch, LastWritten
<1> QED
  BY <1>1, <1>2, <1>3, <1>4 DEF Next, Finished

-----------------------------------------------------------------------------
(* What a thread reads *)

LEMMA ChosenIs ==
  ASSUME NEW S \in SUBSET Nat, NEW m \in S, \A i \in S : i <= m
  PROVE  (CHOOSE j \in S : \A i \in S : i <= j) = m
<1> PICK n : n = CHOOSE j \in S : \A i \in S : i <= j
  OBVIOUS
<1>1. n \in S /\ \A i \in S : i <= n
  BY Zenon
<1>2. n \in Nat /\ m \in Nat /\ n <= m /\ m <= n
  BY <1>1
<1>3. n = m
  BY <1>2
<1> QED
  BY <1>3

(* The phases that have written a cell when a thread comes to read it are   *)
(* exactly those before its own.                                            *)
LEMMA WrittenBefore ==
  ASSUME Inv, NEW t \in Running, ~Done(t), NEW c \in Reads(pc[t], t)
  PROVE  WrittenIn(c) =
           {j \in 1..(pc[t] - 1) : j \in DOMAIN program /\ \E u \in Running : c \in Writes(j, u)}
<1>1. launch \in Kernels /\ Len(program) \in Nat /\ DOMAIN program = 1..Len(program)
  BY ProgramLength DEF Inv, TypeInv
<1>2. pc[t] \in 1..Len(program) /\ \A u \in Running : pc[u] \in Nat \ {0}
  BY <1>1 DEF Inv, TypeInv, Done
<1>3. ASSUME NEW j \in 1..Len(program), NEW u \in Running, c \in Writes(j, u)
      PROVE  j < pc[u] <=> j < pc[t]
  <2>1. CASE u = t
    BY <2>1
  <2>2. CASE u # t
    <3>1. ASSUME j < pc[u], pc[t] <= j PROVE FALSE
      <4>1. Writes(j, u) \cap (Reads(pc[t], t) \cup Writes(pc[t], t)) = {}
        BY <1>2, <2>2, <3>1, AheadApart DEF Inv
      <4> QED
        BY <1>3, <4>1
    <3>2. ASSUME j < pc[t], pc[u] <= j PROVE FALSE
      <4>1. Writes(j, u) \cap (Reads(pc[t], t) \cup Writes(pc[t], t)) = {}
        BY <1>2, <2>2, <3>2, AheadApart DEF Inv
      <4> QED
        BY <1>3, <4>1
    <3> QED
      BY <1>2, <3>1, <3>2
  <2> QED
    BY <2>1, <2>2
<1>4. \A j : j \in 1..(pc[t] - 1) /\ j \in DOMAIN program <=> j \in 1..Len(program) /\ j < pc[t]
  BY <1>1, <1>2
<1>5. ASSUME NEW j
      PROVE  j \in WrittenIn(c) <=>
               j \in 1..Len(program) /\ j < pc[t] /\ \E u \in Running : c \in Writes(j, u)
  BY <1>3 DEF WrittenIn
<1> QED
  BY <1>4, <1>5

LEMMA ReadsSequential ==
  ASSUME Inv, NEW t \in Running, ~Done(t), NEW c \in Reads(pc[t], t)
  PROVE  mem[c] = SequentialWriter(pc[t], c)
<1>1. launch \in Kernels /\ Len(program) \in Nat
  BY ProgramLength DEF Inv, TypeInv
<1>2. pc[t] \in 1..Len(program)
  BY <1>1 DEF Inv, TypeInv, Done
<1>3. c \in Cells
  BY <1>1, <1>2, TouchedAreCells
<1> DEFINE S == {j \in 1..(pc[t] - 1) : j \in DOMAIN program /\ \E u \in Running : c \in Writes(j, u)}
<1>4. SequentialWriter(pc[t], c) =
        IF S = {} THEN 0 ELSE CHOOSE j \in S : \A i \in S : i <= j
  BY DEF SequentialWriter
<1>5. S = WrittenIn(c)
  BY WrittenBefore
<1> HIDE DEF S
<1>6. mem[c] \in S \cup {0} /\ \A j \in S : j <= mem[c]
  BY <1>3, <1>5 DEF Inv, LastWritten
<1>7. S \in SUBSET (Nat \ {0})
  BY <1>1, <1>5 DEF WrittenIn
<1>8. CASE S = {}
  BY <1>4, <1>6, <1>8
<1>9. CASE S # {}
  <2>1. mem[c] \in S
    <3>1. PICK j \in S : TRUE
      BY <1>9
    <3>2. j \in Nat \ {0} /\ j <= mem[c]
      BY <1>6, <1>7
    <3>3. mem[c] # 0
      BY <3>2
    <3> QED
      BY <1>6, <3>3
  <2> QED
    BY <1>4, <1>6, <1>7, <1>9, <2>1, ChosenIs
<1> QED
  BY <1>8, <1>9

-----------------------------------------------------------------------------
(* What a launch computes *)

\* The grid has a thread for every element.
LEMMA GridCovers ==
  ASSUME NEW n \in Nat \ {0}
  PROVE  n <= blocks(n) * BlockDim
<1>1. BlockDim \in Nat \ {0}
  BY BlockAssumption
<1>2. n + BlockDim - 1 \in Nat
  BY <1>1
<1>3. /\ blocks(n) \in Nat /\ (n + BlockDim - 1) % BlockDim \in 0..(BlockDim - 1)
      /\ n + BlockDim - 1 = blocks(n) * BlockDim + ((n + BlockDim - 1) % BlockDim)
  BY <1>1, <1>2, Quotient DEF blocks
<1>4. blocks(n) * BlockDim \in Nat
  BY <1>1, <1>3
<1> QED
  BY <1>1, <1>3, <1>4

LEMMA GridThreads ==
  ASSUME launch \in Kernels, launch.kernel \notin OneBlock
  PROVE  Running = 0..(launch.count - 1)
<1>1. launch.count \in Nat \ {0}
  BY KernelNames
<1>2. launch.count <= blocks(launch.count) * BlockDim
  BY <1>1, GridCovers
<1>3. blocks(launch.count) * BlockDim \in Nat
  <2>1. BlockDim \in Nat \ {0} /\ launch.count + BlockDim - 1 \in Nat
    BY <1>1, BlockAssumption
  <2>2. blocks(launch.count) \in Nat
    BY <2>1, Quotient DEF blocks
  <2> QED
    BY <2>1, <2>2
<1>4. Running = {t \in 0..(blocks(launch.count) * BlockDim - 1) : t < launch.count}
  BY DEF Running, Threads
<1> QED
  BY <1>1, <1>2, <1>3, <1>4

\* Every element of an array is its owner's, who runs.
LEMMA WholeOwned ==
  ASSUME launch \in Kernels, NEW a, Extent(a) \in Nat,
         launch.kernel \notin OneBlock => Extent(a) = launch.count,
         NEW c \in Whole(a)
  PROVE  \E t \in Running : c \in Own(a, t)
<1>1. PICK i \in 0..(Extent(a) - 1) : c = <<a, i>>
  BY DEF Whole
<1>2. Owner(i) \in Running
  <2>1. CASE launch.kernel \in OneBlock
    BY <1>1, <2>1, OneBlockThreads, BlockAssumption DEF Owner
  <2>2. CASE launch.kernel \notin OneBlock
    BY <1>1, <2>2, GridThreads DEF Owner
  <2> QED
    BY <2>1, <2>2
<1>3. c \in Own(a, Owner(i))
  BY <1>1 DEF Own
<1> QED
  BY <1>2, <1>3

LEMMA Composed ==
  ASSUME NEW m \in Nat \ {0}, NEW b \in Nat, NEW a \in Nat, a < b, NEW x \in 0..(m - 1)
  PROVE  a * m + x \in 0..(b * m - 1)
<1>1. (a + 1) * m <= b * m
  OBVIOUS
<1>2. a * m + m <= b * m /\ a * m \in Nat /\ b * m \in Nat
  BY <1>1
<1> QED
  BY <1>2

LEMMA Decomposed ==
  ASSUME NEW m \in Nat \ {0}, NEW a \in Nat, NEW x \in 0..(m - 1)
  PROVE  a * m + x \in Nat /\ (a * m + x) \div m = a /\ (a * m + x) % m = x
<1> PICK y : y = a * m + x
  OBVIOUS
<1>1. y \in Nat
  OBVIOUS
<1>2. y \div m \in Nat /\ y % m \in 0..(m - 1) /\ y = (y \div m) * m + (y % m)
  BY <1>1, Quotient
<1>3. (y \div m) * m + (y % m) = a * m + x
  BY <1>2
<1>4. y \div m = a /\ y % m = x
  BY <1>2, <1>3, Digits
<1> QED
  BY <1>1, <1>4

\* Whose pair an element of a query or key head is: of rows of W heads.
LEMMA PlaceFound ==
  ASSUME NEW rows \in Nat, NEW W \in 1..QueryHeads, NEW i \in 0..(rows * W * HeadSize - 1)
  PROVE  \E t \in 0..(rows * (QueryHeads * Half) - 1), a \in {0, Half} :
            HeadOf(t) < W /\ i = Place(W, t, a)
<1>1. /\ HeadSize \in Nat \ {0} /\ Half \in Nat \ {0} /\ HeadSize = Half + Half
      /\ QueryHeads \in Nat \ {0} /\ W \in Nat \ {0} /\ i \in Nat
  BY HalfHead, HeadAssumption
<1>x. PICK x, y : x = i \div HeadSize /\ y = i % HeadSize
  OBVIOUS
<1>2. x \in Nat /\ y \in 0..(HeadSize - 1) /\ i = x * HeadSize + y
  BY <1>1, <1>x, Quotient
<1>r. PICK r, h : r = x \div W /\ h = x % W
  OBVIOUS
<1>3. r \in Nat /\ h \in 0..(W - 1) /\ x = r * W + h
  BY <1>1, <1>2, <1>r, Quotient
<1>o. PICK o, a : o = (IF y < Half THEN y ELSE y - Half) /\ a = (IF y < Half THEN 0 ELSE Half)
  OBVIOUS
<1>4. o \in 0..(Half - 1) /\ a \in {0, Half} /\ y = o + a
  BY <1>1, <1>2, <1>o
<1>z. PICK z : z = h * Half + o
  OBVIOUS
<1>5. z \div Half = h /\ z % Half = o
  BY <1>1, <1>3, <1>4, <1>z, Decomposed
<1>n. PICK n : n = QueryHeads * Half
  OBVIOUS
<1>6. n \in Nat \ {0}
  BY <1>1, <1>n
<1>7. z \in 0..(n - 1)
  BY <1>1, <1>3, <1>4, <1>n, <1>z, Composed
<1>t. PICK t : t = r * n + z
  OBVIOUS
<1>8. t \in Nat /\ t \div n = r /\ t % n = z
  BY <1>3, <1>6, <1>7, <1>t, Decomposed
<1>9. RowOf(t) = r /\ HeadOf(t) = h /\ Offset(t) = o
  BY <1>5, <1>8, <1>n DEF RowOf, HeadOf, Offset
<1>10. i = Place(W, t, a)
  <2>1. Place(W, t, a) = (RowOf(t) * W + HeadOf(t)) * HeadSize + (Offset(t) + a)
    BY <1>1, <1>4, <1>8, PlaceAsDigits
  <2> QED
    BY <1>2, <1>3, <1>4, <1>9, <2>1
<1>11. r < rows
  <2>1. ASSUME r >= rows PROVE FALSE
    <3>1. r * W >= rows * W /\ r * W \in Nat /\ rows * W \in Nat
      BY <1>1, <1>3, <2>1
    <3>2. x >= rows * W
      BY <1>1, <1>3, <3>1
    <3>3. x * HeadSize >= (rows * W) * HeadSize /\ x * HeadSize \in Nat /\ (rows * W) * HeadSize \in Nat
      BY <1>1, <1>2, <3>1, <3>2
    <3> QED
      BY <1>1, <1>2, <3>3
  <2> QED
    BY <1>3, <2>1
<1>12. t \in 0..(rows * n - 1)
  BY <1>3, <1>6, <1>7, <1>11, <1>t, Composed
<1>13. t \in 0..(rows * (QueryHeads * Half) - 1)
  BY <1>12, <1>n
<1>14. HeadOf(t) < W
  BY <1>1, <1>3, <1>9
<1> QED
  BY <1>4, <1>10, <1>13, <1>14

\* The elements of a pair by their places.
LEMMA PairPlaces ==
  ASSUME NEW t \in Nat, NEW a \in {0, Half}
  PROVE  /\ <<"query", Place(QueryHeads, t, a)>> \in Pair(t)
         /\ HeadOf(t) < KvHeads => <<"key", Place(KvHeads, t, a)>> \in Pair(t)
<1>1. Half \in Nat /\ QueryHeads \in Nat \ {0} /\ KvHeads \in Nat \ {0} /\ HeadSize \in Nat
  BY HalfHead, HeadAssumption
<1>2. RowOf(t) \in Nat /\ HeadOf(t) \in Nat /\ Offset(t) \in Nat
  BY <1>1, Coordinates
<1> DEFINE q == RowOf(t) * QueryHeads * HeadSize + HeadOf(t) * HeadSize + Offset(t)
           k == RowOf(t) * KvHeads * HeadSize + HeadOf(t) * HeadSize + Offset(t)
<1>3. q \in Nat /\ k \in Nat
  BY <1>1, <1>2
<1>4. Pair(t) = {<<"query", q>>, <<"query", q + Half>>}
                  \cup (IF HeadOf(t) < KvHeads THEN {<<"key", k>>, <<"key", k + Half>>} ELSE {})
  BY DEF Pair, RowOf, HeadOf, Offset
<1>5. Place(QueryHeads, t, a) = q + a /\ Place(KvHeads, t, a) = k + a
  BY DEF Place
<1> HIDE DEF q, k
<1> QED
  BY <1>3, <1>4, <1>5

\* Every pair of every head, of keys too, has its thread.
LEMMA RotationWritten ==
  ASSUME launch \in Kernels, launch.kernel = "rope", NEW c \in Whole("query") \cup Whole("key")
  PROVE  \E t \in Running : c \in Pair(t)
<1> PICK n, H : n = launch.count /\ H = HeadSize
  OBVIOUS
<1>1. /\ H \in Nat \ {0} /\ Half \in Nat \ {0} /\ H = Half + Half /\ n \in Nat \ {0}
      /\ QueryHeads \in Nat \ {0} /\ KvHeads \in Nat \ {0} /\ KvHeads \in 1..QueryHeads
      /\ QueryHeads \in 1..QueryHeads
  BY HalfHead, HeadAssumption, KernelNames
<1> PICK m : m = QueryHeads * Half
  OBVIOUS
<1>2. m \in Nat \ {0} /\ n % m = 0
  <2>1. n % (QueryHeads * (HeadSize \div 2)) = 0
    BY RotationAssumption
  <2> QED
    BY <1>1, <2>1 DEF Half
<1> PICK rows : rows = n \div m
  OBVIOUS
<1>3. rows \in Nat /\ n = rows * m
  <2>1. ASSUME NEW b \in Nat, NEW d \in Nat \ {0}, b % d = 0
        PROVE  b \div d \in Nat /\ b = (b \div d) * d
    BY <2>1, Quotient
  <2> QED
    BY <1>1, <1>2, <2>1
<1>4. 2 * n = rows * QueryHeads * H
  <2>1. QueryHeads * H = 2 * m
    BY <1>1
  <2>2. rows * QueryHeads * H = rows * (2 * m)
    BY <1>1, <1>3, <2>1
  <2> QED
    BY <1>2, <1>3, <2>2
<1>5. (2 * n * KvHeads) \div QueryHeads = rows * KvHeads * H
  <2> PICK k : k = rows * KvHeads * H
    OBVIOUS
  <2>1. k \in Nat
    BY <1>1, <1>3
  <2>2. 2 * n * KvHeads = k * QueryHeads
    BY <1>1, <1>3, <1>4
  <2>3. (k * QueryHeads) \div QueryHeads = k
    BY <1>1, <2>1
  <2> QED
    BY <2>2, <2>3
<1>6. /\ Extent("query") = rows * QueryHeads * HeadSize
      /\ Extent("key") = rows * KvHeads * HeadSize
  BY <1>4, <1>5 DEF Extent
<1>7. Running = 0..(rows * (QueryHeads * Half) - 1) /\ Running \subseteq Nat
  BY <1>3, GridThreads, ThreadsAreNumbers DEF OneBlock
<1>8. CASE c \in Whole("query")
  <2>1. PICK i \in 0..(rows * QueryHeads * HeadSize - 1) : c = <<"query", i>>
    BY <1>6, <1>8 DEF Whole
  <2>2. PICK t \in Running, a \in {0, Half} : i = Place(QueryHeads, t, a)
    <3>1. \E t \in 0..(rows * (QueryHeads * Half) - 1), a \in {0, Half} :
             HeadOf(t) < QueryHeads /\ i = Place(QueryHeads, t, a)
      BY <1>1, <1>3, PlaceFound, Zenon
    <3> QED
      BY <1>7, <3>1, Zenon
  <2>3. c \in Pair(t)
    BY <1>7, <2>1, <2>2, PairPlaces
  <2> QED
    BY <2>3
<1>9. CASE c \in Whole("key")
  <2>1. PICK i \in 0..(rows * KvHeads * HeadSize - 1) : c = <<"key", i>>
    BY <1>6, <1>9 DEF Whole
  <2>2. PICK t \in Running, a \in {0, Half} : HeadOf(t) < KvHeads /\ i = Place(KvHeads, t, a)
    BY <1>1, <1>3, <1>7, <2>1, PlaceFound
  <2>3. c \in Pair(t)
    BY <1>7, <2>1, <2>2, PairPlaces
  <2> QED
    BY <2>3
<1> QED
  BY <1>8, <1>9

\* Some thread writes each element of the result in some phase.
LEMMA ResultsWritten ==
  ASSUME launch \in Kernels, NEW c \in Results
  PROVE  \E j \in 1..Len(program), t \in Running : c \in Writes(j, t)
<1>0. launch.count \in Nat \ {0}
  BY KernelNames
<1>1. CASE launch.kernel = "attention"
  <2>1. program = paged_attention /\ Len(program) = 19 /\ program[19] = all_to_own("scores", "output")
    <3>1. program = paged_attention
      BY <1>1 DEF program, programs
    <3>2. Len(paged_attention) = 19 /\ paged_attention[19] = all_to_own("scores", "output")
      BY DEF paged_attention
    <3> QED
      BY <3>1, <3>2
  <2>2. \A t : Writes(19, t) = Own("output", t)
    BY <2>1 DEF Writes, all_to_own
  <2>3. Extent("output") = HeadSize /\ c \in Whole("output")
    BY <1>1 DEF Extent, Results
  <2>4. PICK t \in Running : c \in Own("output", t)
    BY <1>1, <2>3, WholeOwned, HeadAssumption DEF OneBlock
  <2> QED
    BY <2>1, <2>2, <2>4
<1>2. CASE launch.kernel = "rmsnorm"
  <2>1. program = rmsnorm /\ Len(program) = 8 /\ program[8] = map("row", "row")
    <3>1. program = rmsnorm
      BY <1>2 DEF program, programs
    <3>2. Len(rmsnorm) = 8 /\ rmsnorm[8] = map("row", "row")
      BY DEF rmsnorm
    <3> QED
      BY <3>1, <3>2
  <2>2. \A t : Writes(8, t) = Own("row", t)
    BY <2>1 DEF Writes, map
  <2>3. Extent("row") = launch.count /\ c \in Whole("row")
    BY <1>2 DEF Extent, Results
  <2>4. PICK t \in Running : c \in Own("row", t)
    BY <1>0, <1>2, <2>3, WholeOwned
  <2> QED
    BY <2>1, <2>2, <2>4
<1>3. CASE launch.kernel = "matmul"
  <2>1. program = matmul /\ Len(program) = 9 /\ program[8] = publish("output")
    <3>1. program = matmul
      BY <1>3 DEF program, programs
    <3>2. Len(matmul) = 9 /\ matmul[8] = publish("output")
      BY DEF matmul
    <3> QED
      BY <3>1, <3>2
  <2>2. Writes(8, 0) = {<<"output", 0>>}
    <3>1. program[8].op = "publish" /\ program[8].out = "output"
      <4>1. publish("output").op = "publish" /\ publish("output").out = "output"
        BY DEF publish
      <4> QED
        BY <2>1, <4>1, Zenon
    <3> QED
      BY <3>1 DEF Writes
  <2>3. Extent("output") = 1 /\ c \in Whole("output")
    BY <1>3 DEF Extent, Results
  <2>4. c = <<"output", 0>>
    BY <2>3 DEF Whole
  <2>5. 0 \in Running
    BY <1>3, OneBlockThreads, BlockAssumption DEF OneBlock
  <2> QED
    BY <2>1, <2>2, <2>4, <2>5
<1>4. CASE launch.kernel = "swiglu"
  <2>1. program = swiglu /\ Len(program) = 3 /\ program[3] = map("smem", "output")
    <3>1. program = swiglu
      BY <1>4 DEF program, programs
    <3>2. Len(swiglu) = 3 /\ swiglu[3] = map("smem", "output")
      BY DEF swiglu
    <3> QED
      BY <3>1, <3>2
  <2>2. \A t : Writes(3, t) = Own("output", t)
    BY <2>1 DEF Writes, map
  <2>3. Extent("output") = launch.count /\ c \in Whole("output")
    BY <1>4 DEF Extent, Results
  <2>4. PICK t \in Running : c \in Own("output", t)
    BY <1>0, <2>3, WholeOwned
  <2> QED
    BY <2>1, <2>2, <2>4
<1>5. CASE launch.kernel = "add"
  <2>1. program = add /\ Len(program) = 1 /\ program[1] = map("row", "row")
    BY <1>5 DEF program, programs, add
  <2>2. \A t : Writes(1, t) = Own("row", t)
    BY <2>1 DEF Writes, map
  <2>3. Extent("row") = launch.count /\ c \in Whole("row")
    BY <1>5 DEF Extent, Results
  <2>4. PICK t \in Running : c \in Own("row", t)
    BY <1>0, <2>3, WholeOwned
  <2> QED
    BY <2>1, <2>2, <2>4
<1>6. CASE launch.kernel = "rope"
  <2>1. program = rope /\ Len(program) = 1 /\ program[1].op = "rotate"
    BY <1>6 DEF program, programs, rope
  <2>2. \A t : Writes(1, t) = Pair(t)
    BY <2>1 DEF Writes
  <2>3. PICK t \in Running : c \in Pair(t)
    BY <1>6, RotationWritten DEF Results
  <2> QED
    BY <2>1, <2>2, <2>3
<1> QED
  BY <1>1, <1>2, <1>3, <1>4, <1>5, <1>6, KernelNames

(* The __syncthreads of the kernels, those inside cub::BlockReduce and the   *)
(* division of the work among threads exclude every data race: for every    *)
(* size of a block, a warp, a row and the heads, two threads are never in   *)
(* phases of which one writes what the other reads or writes.               *)
THEOREM NoRace == Spec => []RaceFree
<1>1. Init => Inv
  BY InitInv
<1>2. Inv /\ [Next]_vars => Inv'
  BY NextKeeps
<1>3. Inv => RaceFree
  BY InvImpliesRaceFree DEF Inv
<1> QED
  BY <1>1, <1>2, <1>3, PTL DEF Spec

(* Whatever the order of the threads, each reads what the loops of the CPU  *)
(* kernels would have left there; and when all have ended every element of  *)
(* the result has been written: ReadsAsSequential, of kernels/src/*.cu.     *)
THEOREM KernelsReadAsSequential == Spec => []ReadsAsSequential
<1>1. Init => Inv
  BY InitInv
<1>2. Inv /\ [Next]_vars => Inv'
  BY NextKeeps
<1>3. Inv => ReadsAsSequential
  <2> SUFFICES ASSUME Inv PROVE ReadsAsSequential
    OBVIOUS
  <2>1. \A t \in Running : ~Done(t) => \A c \in Reads(pc[t], t) : mem[c] = SequentialWriter(pc[t], c)
    BY ReadsSequential
  <2>2. ASSUME \A t \in Running : Done(t), NEW c \in Results
        PROVE  c \in DOMAIN mem /\ mem[c] # 0
    <3>1. launch \in Kernels /\ Len(program) \in Nat
      BY ProgramLength DEF Inv, TypeInv
    <3>2. PICK j \in 1..Len(program), t \in Running : c \in Writes(j, t)
      BY <3>1, ResultsWritten
    <3>3. c \in Cells
      BY <3>1, <3>2, TouchedAreCells
    <3>4. j < pc[t]
      BY <2>2, <3>1, <3>2 DEF Done, Inv, TypeInv
    <3>5. j \in WrittenIn(c)
      BY <3>2, <3>4 DEF WrittenIn
    <3>6. c \in DOMAIN mem /\ j <= mem[c]
      BY <3>3, <3>5 DEF Inv, LastWritten
    <3>7. j # 0 /\ j > 0
      BY <3>1
    <3> QED
      BY <3>6, <3>7
  <2> QED
    BY <2>1, <2>2 DEF ReadsAsSequential
<1> QED
  BY <1>1, <1>2, <1>3, PTL DEF Spec
=============================================================================
