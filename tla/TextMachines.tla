---------------------------- MODULE TextMachines ----------------------------
(***************************************************************************)
(* The scanners, the merge loops and the tokenizer side by side: the        *)
(* variables of all three, and what is said of the other two where the      *)
(* first is extended.                                                       *)
(***************************************************************************)
EXTENDS Splitters

CONSTANTS
  Letters,    \* the bytes of a piece
  MaxPiece,   \* bound: the length of the longest piece
  MaxMerges,  \* bound: merges of a table
  Files,      \* contents of tokenizer.json
  Sentences   \* texts, as bytes

ASSUME TableAssumption == MaxMerges \in Nat

VARIABLES
  merges, piece, symbols, parts,
  file, sentence, cursor, ids, status

Merging == INSTANCE BytePairMerge
Encoding == INSTANCE Tokenizer

\* A token table: ids are numbers, no two tokens have the same.
IdsOf(tokens) ==
  /\ IsFiniteSet(DOMAIN tokens)
  /\ \A x \in DOMAIN tokens : tokens[x] \in Nat
  /\ \A x, y \in DOMAIN tokens : tokens[x] = tokens[y] => x = y

\* tokenizer.json is JSON, whose strings are UTF-8 without overlong forms, and
\* an added token has an id of its own and is not empty.
ASSUME FilesAssumption ==
  \A f \in Files :
    /\ IdsOf(f.vocab)
    /\ IdsOf(f.added)
    /\ \A x \in DOMAIN f.vocab, y \in DOMAIN f.added : f.vocab[x] # f.added[y]
    /\ \A x \in DOMAIN f.added : x \in Seq(Byte) \ {<<>>} /\ Encoding!canonical(x)
    /\ f.merges \in Seq(Seq(Byte) \X Seq(Byte))

ASSUME SentencesAssumption == Sentences \subseteq Seq(Byte)

(* The greedy merge loop arrives where byte-pair encoding is defined to:     *)
(* BytePairMerge.MergesInOrder, of Qwen3EncodeLayer::encode_piece.           *)
MergesInOrder == Merging!MergesInOrder

(* The ranks tiktoken keeps are those it would look up again:                *)
(* BytePairMerge.CachedRanksFresh, of _byte_pair_merge.                      *)
CachedRanksFresh == Merging!CachedRanksFresh

(* Decoding what encode returned gives the text back: Tokenizer.RoundTrip,   *)
(* of Qwen3EncodeLayer::encode and decode.                                   *)
RoundTrip == Encoding!RoundTrip

(* Special tokens win over ordinary text, the longest first:                 *)
(* Tokenizer.SpecialsFirst, of Qwen3EncodeLayer::encode.                     *)
SpecialsFirst == Encoding!SpecialsFirst
=============================================================================
