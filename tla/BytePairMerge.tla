--------------------------- MODULE BytePairMerge ---------------------------
(***************************************************************************)
(* The two merge loops of the repository, one merge per step:               *)
(* Qwen3EncodeLayer::encode_piece, which looks every pair up again in each  *)
(* round, and _byte_pair_merge (utils/include/tiktoken.h), which keeps the  *)
(* rank of a pair next to the part it begins at and after a merge refreshes *)
(* two of them.  The second serves the Llama 3 and Qwen2 tokenizers, which  *)
(* are built on request only.                                               *)
(***************************************************************************)
EXTENDS Merges

CONSTANTS
  Letters,    \* the bytes of a piece
  MaxPiece,   \* the length of the longest piece
  MaxMerges   \* how many merges a table has at most

VARIABLES
  merges,   \* merge_ranks_, and for tiktoken the ranks of what the merges yield
  piece,
  symbols,  \* encode_piece
  parts     \* _byte_pair_merge: where a part begins and the rank of its pair

vars == <<merges, piece, symbols, parts>>

NoRank == 0

Product(pair) == pair[1] \o pair[2]

\* Tables as training yields them: a merge joins letters or what earlier merges
\* have yielded, and no two merges yield the same string.
Tables ==
  LET table[n \in 0..MaxMerges] ==
        IF n = 0 THEN {<<>>}
        ELSE table[n - 1] \cup
             UNION {LET known == {<<x>> : x \in Letters} \cup {Product(t[i]) : i \in DOMAIN t}
                    IN {Append(t, pair) : pair \in {q \in known \X known : Product(q) \notin known}} :
                    t \in table[n - 1]}
  IN table[MaxMerges]

----------------------------------------------------------------------------
(* tiktoken *)

\* get_rank: of the string from part i to skip parts behind the next one.
get_rank(m, s, ps, i, skip) ==
  IF i + skip + 2 > Len(ps) THEN NoRank
  ELSE LET key == SubSeq(s, ps[i].first, ps[i + skip + 2].first - 1)
           found == {r \in DOMAIN m : Product(m[r]) = key}
       IN IF found = {} THEN NoRank ELSE Min(found)

initial_parts(m, s) ==
  LET bare == [i \in 1..(Len(s) + 1) |-> [first |-> i, rank |-> NoRank]]
  IN [i \in DOMAIN bare |->
        IF i <= Len(bare) - 2 THEN [bare[i] EXCEPT !.rank = get_rank(m, s, bare, i, 0)]
        ELSE bare[i]]

\* The first part of lowest rank, 0 when none has a rank.
min_part(ps) ==
  LET ranks == {ps[i].rank : i \in DOMAIN ps} \ {NoRank}
  IN IF ranks = {} THEN 0 ELSE Min({i \in DOMAIN ps : ps[i].rank = Min(ranks)})

\* Slip: the left neighbour keeps its rank.
refreshed_right(m, s, ps, i) == [ps EXCEPT ![i].rank = get_rank(m, s, ps, i, 1)]

\* The ranks next to the merge are those of the string with the part removed.
refreshed(m, s, ps, i) ==
  [j \in DOMAIN ps |-> IF j \in {i, i - 1}
                       THEN [ps[j] EXCEPT !.rank = get_rank(m, s, ps, j, 1)]
                       ELSE ps[j]]

----------------------------------------------------------------------------
Init ==
  /\ merges \in Tables
  /\ piece \in UNION {[1..n -> Letters] : n \in 2..MaxPiece}
  /\ symbols = [i \in DOMAIN piece |-> <<piece[i]>>]
  /\ parts = initial_parts(merges, piece)

MergeSymbols ==
  /\ best_index(merges, symbols) # 0
  /\ symbols' = merge_at(symbols, best_index(merges, symbols))
  /\ UNCHANGED <<merges, piece, parts>>

\* The loop of tiktoken, which the model runs after the other.
MergeParts ==
  /\ best_index(merges, symbols) = 0
  /\ min_part(parts) # 0
  /\ parts' = RemoveAt(refreshed(merges, piece, parts, min_part(parts)), min_part(parts) + 1)
  /\ UNCHANGED <<merges, piece, symbols>>

Next == MergeSymbols \/ MergeParts

Spec == Init /\ [][Next]_vars

----------------------------------------------------------------------------
(* Properties *)

\* One merge done wherever it fits, from the left.
replace_all(syms, pair) ==
  FoldLeft(LAMBDA acc, x : IF acc # <<>> /\ Last(acc) = pair[1] /\ x = pair[2]
                           THEN Append(Front(acc), Product(pair)) ELSE Append(acc, x),
           <<>>, syms)

(* The greedy loop of encode_piece, which takes the best pair of the whole *)
(* sequence each round, arrives where the definition of byte-pair encoding *)
(* does: the merges done in the order they were learned, each wherever it  *)
(* fits.  It depends on ties going to the left and on a new symbol never   *)
(* beating an older merge.                                                 *)
MergesInOrder ==
  best_index(merges, symbols) = 0 =>
    symbols = FoldLeft(replace_all, [i \in DOMAIN piece |-> <<piece[i]>>], merges)

(* The ranks tiktoken keeps are those it would find if it looked them up   *)
(* again, so the merge it takes next is the best one: the two refreshed    *)
(* after a merge are all that went stale.                                  *)
CachedRanksFresh ==
  \A i \in DOMAIN parts : parts[i].rank = get_rank(merges, piece, parts, i, 0)

=============================================================================
