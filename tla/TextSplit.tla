----------------------------- MODULE TextSplit -----------------------------
(***************************************************************************)
(* The splitters of utils/src/unicode.cpp, which cut a text into the pieces *)
(* that are merged one by one: three hand-written scanners, each standing   *)
(* for a regular expression.                                                *)
(*                                                                          *)
(* A scanner works through the regions of the text that earlier expressions *)
(* left; s is the region it is in, p the position it has come to.  A text   *)
(* is a sequence of code points.  unicode_regex_split falls back on         *)
(* std::regex for any other expression; that path, which the Qwen3 tokenizer*)
(* never takes, is left out.                                                *)
(***************************************************************************)
EXTENDS Unicode

Apostrophe == 39
Space == 32
Newline == {10, 13}
Other == Codepoint \ (Letter \cup Number \cup Whitespace)

----------------------------------------------------------------------------
(* What the scanners share *)

at(s, p) == IF p \in DOMAIN s THEN s[p] ELSE OutOfRange

\* Where the loop that skips members of a class from p on stops.
after(s, p, class) ==
  CHOOSE e \in p..(Max({p, Len(s) + 1})) :
    at(s, e) \notin class /\ \A q \in p..(e - 1) : at(s, q) \in class

\* 's|'t|'re|'ve|'m|'ll|'d
contraction(s, p, fold(_)) ==
  LET c1 == fold(at(s, p + 1))
      c2 == fold(at(s, p + 2))
  IN IF at(s, p) # Apostrophe THEN p
     ELSE IF c1 \in {115, 116, 109, 100} THEN p + 2
     ELSE IF <<c1, c2>> \in {<<114, 101>>, <<118, 101>>, <<108, 108>>} THEN p + 3
     ELSE p

as_is(c) == c

behind_space(s, p) == IF at(s, p) = Space THEN p + 1 ELSE p

\* A run of one class with an optional space in front.
spaced(s, p, class) ==
  LET q == behind_space(s, p) IN IF at(s, q) \in class THEN after(s, q, class) ELSE p

\* Slip: the white space before more text is not given back.
whitespace_greedy(s, p) == after(s, p, Whitespace)

\* \s+(?!\S) and \s+: all of the white space but the last when more text follows.
whitespace(s, p) ==
  LET e == after(s, p, Whitespace)
  IN IF e - p > 1 /\ e <= Len(s) THEN e - 1 ELSE e

\* The first alternative that moves on; a code point that none takes stands alone.
first_end(p, ends) ==
  IF \E i \in DOMAIN ends : ends[i] > p
  THEN ends[CHOOSE i \in DOMAIN ends : ends[i] > p /\ \A j \in 1..(i - 1) : ends[j] <= p]
  ELSE p + 1

----------------------------------------------------------------------------
(* The scanners: where the piece that begins at p ends *)

gpt2(s, p) ==
  first_end(p, <<contraction(s, p, as_is),
                 spaced(s, p, Letter), spaced(s, p, Number), spaced(s, p, Other),
                 whitespace(s, p)>>)

\* [^\r\n\p{L}\p{N}]?\p{L}+
letters(s, p) ==
  IF /\ at(s, p) \notin Newline
     /\ at(s, p) \notin Number
     /\ at(s, p) \in Letter \/ at(s, p + 1) \in Letter
  THEN after(s, p + 1, Letter) ELSE p

\* <space>?[^\s\p{L}\p{N}]+[\r\n]*
punctuation(s, p) ==
  LET e == spaced(s, p, Other) IN IF e > p THEN after(s, e, Newline) ELSE p

\* \s*[\r\n]+, to the last newline of the white space.
to_last_newline(s, p) ==
  LET e == after(s, p, Whitespace)
      ends == {q + 1 : q \in {q \in p..(e - 1) : s[q] \in Newline}}
  IN IF ends = {} THEN p ELSE Max(ends)

\* \p{N}{1,3}: the loop cuts the run of digits every three.
numbers(s, p) == Min({after(s, p, Number), p + 3})

llama3(s, p) ==
  first_end(p, <<contraction(s, p, unicode_tolower), letters(s, p), numbers(s, p),
                 punctuation(s, p), to_last_newline(s, p), whitespace(s, p)>>)

\* White space up to the first newline, and the newlines that follow it at once.
to_first_newlines(s, p) ==
  LET e == after(s, p, Whitespace \ Newline)
  IN IF at(s, e) \in Newline THEN after(s, e, Newline) ELSE p

number(s, p) == IF at(s, p) \in Number THEN p + 1 ELSE p

qwen3(s, p) ==
  first_end(p, <<contraction(s, p, unicode_tolower), letters(s, p), number(s, p),
                 punctuation(s, p), to_first_newlines(s, p), whitespace(s, p)>>)

\* unicode_regex_split_custom: the scanner that stands for an expression.
piece_end(splitter, s, p) ==
  CASE splitter = "gpt2"   -> gpt2(s, p)
    [] splitter = "llama3" -> llama3(s, p)
    [] splitter = "qwen3"  -> qwen3(s, p)

\* The pieces of a text that is one region.
unicode_regex_split(splitter, s) ==
  LET from[p \in 1..(Len(s) + 1)] ==
        IF p > Len(s) THEN <<>>
        ELSE LET e == piece_end(splitter, s, p) IN <<SubSeq(s, p, e - 1)>> \o from[e]
  IN from[1]
=============================================================================
