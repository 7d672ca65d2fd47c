------------------------------- MODULE Merges -------------------------------
(***************************************************************************)
(* What a merge of byte-pair encoding does to a sequence of symbols:        *)
(* Qwen3EncodeLayer::encode_piece (layers/src/encode.cpp).  A symbol is a   *)
(* string, a merge table a sequence of pairs of symbols by ascending rank.  *)
(***************************************************************************)
EXTENDS Integers, Sequences, FiniteSetsExt, SequencesExt

\* The ranks of the table entries for the pair that begins at i; the first
\* emplace of a pair into merge_ranks_ counts.
ranks_at(merges, symbols, i) ==
  {r \in DOMAIN merges : merges[r] = <<symbols[i], symbols[i + 1]>>}

\* Slip: the last of the pairs of lowest rank.
best_index_last(merges, symbols) ==
  LET ranks == UNION {ranks_at(merges, symbols, i) : i \in 1..(Len(symbols) - 1)}
  IN IF ranks = {} THEN 0
     ELSE Max({i \in 1..(Len(symbols) - 1) : Min(ranks) \in ranks_at(merges, symbols, i)})

\* best_index: the first pair of lowest rank, 0 when no pair is in the table.
best_index(merges, symbols) ==
  LET ranks == UNION {ranks_at(merges, symbols, i) : i \in 1..(Len(symbols) - 1)}
  IN IF ranks = {} THEN 0
     ELSE Min({i \in 1..(Len(symbols) - 1) : Min(ranks) \in ranks_at(merges, symbols, i)})

\* Slip: the erase takes the symbol behind the pair along.
merge_at_wide(symbols, i) ==
  SubSeq(symbols, 1, i - 1) \o <<symbols[i] \o symbols[i + 1]>>
    \o SubSeq(symbols, i + 3, Len(symbols))

merge_at(symbols, i) ==
  SubSeq(symbols, 1, i - 1) \o <<symbols[i] \o symbols[i + 1]>>
    \o SubSeq(symbols, i + 2, Len(symbols))

\* The loop of encode_piece.
merged(merges, symbols) ==
  LET loop[n \in 0..Len(symbols)] ==
        IF n = 0 THEN symbols
        ELSE LET i == best_index(merges, loop[n - 1])
             IN IF i = 0 THEN loop[n - 1] ELSE merge_at(loop[n - 1], i)
  IN loop[Len(symbols)]
=============================================================================
