------------------------------- MODULE MCText -------------------------------
(* The three machines of the text side for TLC, one of them in a behaviour:  *)
(* the scanners, the merge loops and the tokenizer.  part says which one;    *)
(* the variables of the others are idle.                                     *)
EXTENDS TextMachines

CONSTANT MaxSentence

VARIABLE part

----------------------------------------------------------------------------
(* Tokenizer files and sentences: two letters, a space, the first byte of    *)
(* the special tokens, a two-byte letter or its halves, the first byte of    *)
(* overlong forms.  One file has every token its merges yield, the other     *)
(* lacks one.                                                                *)
Bytes == <<97, 98, 32, 60, 195, 169, 192, 41>>

MCSentences == UNION {[1..n -> {Bytes[i] : i \in 1..7}] : n \in 0..MaxSentence}

Spelled(bytes) == unicode_byte_encoding(bytes)

MCMerges == <<<<Spelled(<<195>>), Spelled(<<169>>)>>,
              <<Spelled(<<97>>), Spelled(<<98>>)>>,
              <<Spelled(<<32>>), Spelled(<<97, 98>>)>>,
              <<Spelled(<<97, 98>>), Spelled(<<97>>)>>>>

Base == [i \in DOMAIN Bytes |-> Spelled(<<Bytes[i]>>)]
Merged == [i \in DOMAIN MCMerges |-> MCMerges[i][1] \o MCMerges[i][2]]

Vocab(tokens) ==
  [x \in {tokens[i] : i \in DOMAIN tokens} |-> (CHOOSE i \in DOMAIN tokens : tokens[i] = x) - 1]

Added == [x \in {<<60, 97>>, <<60, 97, 98>>} |-> 18 + Len(x)]

MCFiles == {[vocab |-> Vocab(Base \o Merged), merges |-> MCMerges, added |-> Added],
            [vocab |-> Vocab(Base \o SubSeq(Merged, 1, 3)), merges |-> MCMerges,
             added |-> Added]}

----------------------------------------------------------------------------
splitVars == <<splitter, regions, p, pieces>>
mergeVars == <<merges, piece, symbols, parts>>
encodeVars == <<file, sentence, cursor, ids, status>>

NoSplit == splitter = "none" /\ regions = <<>> /\ p = 1 /\ pieces = <<>>
NoMerge == merges = <<>> /\ piece = <<>> /\ symbols = <<>> /\ parts = <<>>
NoEncode == file = <<>> /\ sentence = <<>> /\ cursor = 1 /\ ids = <<>> /\ status = "idle"

TextInit ==
  \/ part = "split" /\ Init /\ NoMerge /\ NoEncode
  \/ part = "merge" /\ Merging!Init /\ NoSplit /\ NoEncode
  \/ part = "encode" /\ Encoding!Init /\ NoSplit /\ NoMerge

TextNext ==
  \/ part = "split" /\ Next /\ UNCHANGED <<part, mergeVars, encodeVars>>
  \/ part = "merge" /\ Merging!Next /\ UNCHANGED <<part, splitVars, encodeVars>>
  \/ part = "encode" /\ Encoding!Next /\ UNCHANGED <<part, splitVars, mergeVars>>

TextSpec == TextInit /\ [][TextNext]_<<part, splitVars, mergeVars, encodeVars>>

=============================================================================
