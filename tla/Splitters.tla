----------------------------- MODULE Splitters -----------------------------
(***************************************************************************)
(* The scanners of TextSplit at work, next to the regular expressions they  *)
(* stand for.                                                               *)
(*                                                                          *)
(* splitter is the scanner that runs, regions what is left of the text from *)
(* the current region on, p the position in the current one, pieces the     *)
(* bpe_offsets so far: the lengths of the pieces.                           *)
(***************************************************************************)
EXTENDS TextSplit

CONSTANTS
  Alphabet,  \* the code points texts are made of
  MaxText,   \* the length of the longest text
  Kinds      \* the splitters that run

ASSUME AlphabetAssumption == Alphabet \subseteq Codepoint
ASSUME KindsAssumption == Kinds \subseteq {"gpt2", "llama3", "qwen3"}

VARIABLES splitter, regions, p, pieces

vars == <<splitter, regions, p, pieces>>

Texts == UNION {[1..n -> Alphabet] : n \in 1..MaxText}

\* An earlier expression has left the text whole or cut it in two.
Cuts(text) == {<<text>>} \cup {<<SubSeq(text, 1, i), SubSeq(text, i + 1, Len(text))>> :
                                 i \in 1..(Len(text) - 1)}

Init ==
  /\ splitter \in Kinds
  /\ regions \in UNION {Cuts(text) : text \in Texts}
  /\ p = 1
  /\ pieces = <<>>

s == Head(regions)

Scanning == regions # <<>> /\ p <= Len(s)

AddPiece ==
  /\ Scanning
  /\ LET e == piece_end(splitter, s, p)
     IN /\ pieces' = Append(pieces, e - p)
        /\ p' = e
  /\ UNCHANGED <<splitter, regions>>

NextRegion ==
  /\ regions # <<>>
  /\ p > Len(s)
  /\ regions' = Tail(regions)
  /\ p' = 1
  /\ UNCHANGED <<splitter, pieces>>

Next == AddPiece \/ NextRegion

Spec == Init /\ [][Next]_vars

----------------------------------------------------------------------------
(* The regular expressions: matches are sets of ends *)

\* The text from a up to before b is a non-empty run of a class.
run(a, b, class) == a < b /\ \A q \in a..(b - 1) : s[q] \in class

Ends == (p + 1)..(Len(s) + 1)

opt(class) == {p} \cup {q \in {p + 1} : at(s, p) \in class}

suffixes(fold(_)) ==
  {e \in Ends :
     [q \in 1..(e - p) |-> fold(s[p + q - 1])] \in
       {<<39, 115>>, <<39, 116>>, <<39, 114, 101>>, <<39, 118, 101>>, <<39, 109>>,
        <<39, 108, 108>>, <<39, 100>>}}

maybe_space(class) == {e \in Ends : \E q \in opt({Space}) : run(q, e, class)}

plain_whitespace ==
  <<{e \in Ends : run(p, e, Whitespace) /\ (e > Len(s) \/ s[e] \in Whitespace)},
    {e \in Ends : run(p, e, Whitespace)}>>

gpt2_pattern ==
  <<suffixes(as_is), maybe_space(Letter), maybe_space(Number), maybe_space(Other)>>
    \o plain_whitespace

\* [^\r\n\p{L}\p{N}]
Leading == Codepoint \ (Newline \cup Letter \cup Number)

modern_pattern(digits) ==
  <<suffixes(unicode_tolower),
    {e \in Ends : \E q \in opt(Leading) : run(q, e, Letter)},
    {e \in Ends : e - p <= digits /\ run(p, e, Number)},
    {e \in Ends : \E q \in opt({Space}), m \in Ends :
                    run(q, m, Other) /\ (m = e \/ run(m, e, Newline))},
    {e \in Ends : run(p, e, Whitespace) /\ s[e - 1] \in Newline}>>
    \o plain_whitespace

pattern ==
  CASE splitter = "gpt2"   -> gpt2_pattern
    [] splitter = "llama3" -> modern_pattern(3)
    [] splitter = "qwen3"  -> modern_pattern(1)

\* The first alternative that matches, as much of it as matches.
pattern_end ==
  LET matches == pattern
      first == {i \in DOMAIN matches : matches[i] # {} /\ \A j \in 1..(i - 1) : matches[j] = {}}
  IN IF first = {} THEN p + 1 ELSE Max(UNION {matches[i] : i \in first})

\* White space with a newline that comes after another one and something between.
SplitNewlines ==
  \E a, b, c \in p..Len(s) :
    a < b /\ b < c /\ {s[a], s[c]} \subseteq Newline /\ s[b] \notin Newline
      /\ run(p, c + 1, Whitespace)

----------------------------------------------------------------------------
(* Properties *)

(* Each piece a scanner cuts off is the one its regular expression matches *)
(* there, for every sequence of classes, region boundary and position: the *)
(* comments above the scanners (unicode.cpp, the custom splitters) promise *)
(* no less.  The Qwen3 scanner is excepted where white space holds two     *)
(* separate runs of newlines, which Qwen3FollowsPattern is about.          *)
FollowsPattern ==
  Scanning /\ ~(splitter = "qwen3" /\ SplitNewlines) => piece_end(splitter, s, p) = pattern_end

(* The Qwen3 scanner cuts off what "\s*[\r\n]+" of its expression matches, *)
(* as the comment over that branch says.                                   *)
Qwen3FollowsPattern == Scanning => piece_end(splitter, s, p) = pattern_end
=============================================================================
