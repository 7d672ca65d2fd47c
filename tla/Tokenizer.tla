----------------------------- MODULE Tokenizer -----------------------------
(***************************************************************************)
(* Qwen3EncodeLayer (layers/src/encode.cpp): from a text to token ids and   *)
(* back.                                                                    *)
(*                                                                          *)
(* file is what the constructor reads in tokenizer.json, sentence the       *)
(* argument of encode, cursor its position, ids its result.  One step is    *)
(* one round of encode's loop: a special token, or the ordinary text up to  *)
(* the next one, which is split, spelled in printable bytes and merged.     *)
(* status is "failed" once encode has thrown.  The program constructs the   *)
(* layer without begin and end tokens, so these are left out.               *)
(***************************************************************************)
EXTENDS TextSplit, Merges

CONSTANTS
  Files,      \* contents of tokenizer.json: vocab, merges, added
  Sentences   \* texts, as bytes

VARIABLES file, sentence, cursor, ids, status

vars == <<file, sentence, cursor, ids, status>>

Specials == DOMAIN file.added

num_token == 1 + Max({file.vocab[x] : x \in DOMAIN file.vocab}
                       \cup {file.added[x] : x \in Specials})

----------------------------------------------------------------------------
(* encode_piece, encode_ordinary *)

\* The symbols of a piece: its code points, each a string.
symbols_of(piece) ==
  LET cpts == unicode_cpts_from_utf8(piece)
  IN [i \in DOMAIN cpts |-> unicode_cpt_to_utf8(cpts[i])]

piece_symbols(piece) == merged(file.merges, symbols_of(unicode_byte_encoding(piece)))

\* The symbols of a text without special tokens.
ordinary_symbols(text) ==
  LET pieces == unicode_regex_split("qwen3", unicode_cpts_from_utf8(text))
  IN FlattenSeq([i \in DOMAIN pieces |-> piece_symbols(unicode_cpts_to_utf8(pieces[i]))])

----------------------------------------------------------------------------
(* encode *)

occurs(token, i) ==
  /\ i + Len(token) - 1 <= Len(sentence)
  /\ SubSeq(sentence, i, i + Len(token) - 1) = token

\* Slip: of the special tokens at the same place the shortest is taken.
special_at_shortest(i) ==
  LET found == {token \in Specials : occurs(token, i)}
  IN CHOOSE token \in found : \A other \in found : Len(token) <= Len(other)

\* special_tokens_ is sorted by length, so of the special tokens found at the
\* same place the longest is taken.
special_at(i) ==
  LET found == {token \in Specials : occurs(token, i)}
  IN CHOOSE token \in found : \A other \in found : Len(token) >= Len(other)

special_places == {i \in cursor..Len(sentence) : \E token \in Specials : occurs(token, i)}

\* Where the ordinary text that begins at the cursor ends.
next_special == Min(special_places \cup {Len(sentence) + 1})

Init ==
  /\ file \in Files
  /\ sentence \in Sentences
  /\ cursor = 1
  /\ ids = <<>>
  /\ status = "encoding"

PushSpecial ==
  /\ status = "encoding"
  /\ cursor \in special_places
  /\ ids' = Append(ids, file.added[special_at(cursor)])
  /\ cursor' = cursor + Len(special_at(cursor))
  /\ UNCHANGED <<file, sentence, status>>

EncodeOrdinary ==
  /\ status = "encoding"
  /\ cursor < next_special
  /\ LET text    == SubSeq(sentence, cursor, next_special - 1)
         symbols == ordinary_symbols(text)
     IN IF decodes(text) /\ Range(symbols) \subseteq DOMAIN file.vocab
        THEN /\ ids' = ids \o [i \in DOMAIN symbols |-> file.vocab[symbols[i]]]
             /\ cursor' = next_special
             /\ UNCHANGED status
        ELSE /\ status' = "failed"
             /\ UNCHANGED <<ids, cursor>>
  /\ UNCHANGED <<file, sentence>>

Return ==
  /\ status = "encoding"
  /\ cursor > Len(sentence)
  /\ status' = "done"
  /\ UNCHANGED <<file, sentence, cursor, ids>>

Next == PushSpecial \/ EncodeOrdinary \/ Return

Spec == Init /\ [][Next]_vars

----------------------------------------------------------------------------
(* decode *)

\* The bytes of one id; special_decoder_ is asked first.
decode_id(id) ==
  IF \E x \in Specials : file.added[x] = id
  THEN CHOOSE x \in Specials : file.added[x] = id
  ELSE LET symbols == symbols_of(CHOOSE x \in DOMAIN file.vocab : file.vocab[x] = id)
       IN [i \in DOMAIN symbols |-> unicode_utf8_to_byte(symbols[i])]

decode(tokens) == FlattenSeq([i \in DOMAIN tokens |-> decode_id(tokens[i])])

----------------------------------------------------------------------------
(* Properties *)

\* UTF-8 without overlong forms, which decoding turns into the short ones.
canonical(text) == decodes(text) /\ unicode_cpts_to_utf8(unicode_cpts_from_utf8(text)) = text

\* The vocabulary has every byte of the text and all that merges yield.
complete ==
  {unicode_byte_to_utf8(sentence[i]) : i \in DOMAIN sentence}
    \cup {file.merges[i][1] \o file.merges[i][2] : i \in DOMAIN file.merges}
    \subseteq DOMAIN file.vocab

(* Decoding what encode returned gives the text back, byte for byte, for   *)
(* every text in UTF-8 whatever the split on special tokens, the pieces and*)
(* the merges cut it into, inside characters included; and encode fails    *)
(* only on text that is not UTF-8 or when the vocabulary lacks a token.    *)
RoundTrip ==
  canonical(sentence) =>
    /\ status = "done" => decode(ids) = sentence
    /\ status = "failed" => ~complete

\* What a round takes: no special token begins inside what it takes as ordinary
\* text, no special token it could have taken instead is longer.
TakesLongest ==
  cursor' # cursor =>
    LET taken == SubSeq(sentence, cursor, cursor' - 1)
        last  == ids'[Len(ids')]
    IN /\ last \in 0..(num_token - 1)
       /\ IF \E x \in Specials : file.added[x] = last
          THEN \A token \in Specials : occurs(token, cursor) => Len(token) <= Len(taken)
          ELSE \A i \in cursor..(cursor' - 1), token \in Specials : ~occurs(token, i)

(* Special tokens win over ordinary text: no special token begins inside   *)
(* the text a round takes as ordinary, and of several at one place none    *)
(* that is longer than the one taken.  Every id is below vocab_size(), the *)
(* bound of the embedding table.                                           *)
SpecialsFirst == [][TakesLongest]_vars
=============================================================================
