------------------------------ MODULE Unicode ------------------------------
(***************************************************************************)
(* utils/src/unicode.cpp and unicode-data.cpp: code points, their classes,  *)
(* UTF-8, and the spelling of bytes as printable code points that byte-level*)
(* BPE works on.                                                            *)
(*                                                                          *)
(* Code points and bytes are numbers, a string is a sequence of bytes.  The *)
(* map to lower case is that of the code points up to 255: only ASCII has   *)
(* upper forms of the letters that are asked about.  Flags that no caller   *)
(* reads (upper and lower case, NFD) are left out.                          *)
(***************************************************************************)
EXTENDS UnicodeData, Sequences, FiniteSetsExt, SequencesExt

Byte == 0..255
Codepoint == 0..(MAX_CODEPOINTS - 1)

\* _get_cpt outside of its region.
OutOfRange == -1
Invalid == [cpt |-> OutOfRange, next |-> 0]

----------------------------------------------------------------------------
(* Flags *)

unicode_set_whitespace ==
  (9..13) \cup {32, 133, 160, 5760} \cup (8192..8202) \cup {8232, 8233, 8239, 8287, 12288}

unicode_map_lowercase == [c \in (65..90) \cup ((192..222) \ {215}) |-> c + 32]

\* unicode_cpt_flags: the code points of a class; none from MAX_CODEPOINTS on.
unicode_cpt_flags(class) ==
  {c \in UNION {area[class] : area \in unicode_ranges_flags} : c \in Codepoint}

Letter == unicode_cpt_flags("LETTER")
Number == unicode_cpt_flags("NUMBER")
Whitespace == unicode_set_whitespace

\* The alternatives of a scanner exclude each other by these.
ASSUME OneClass ==
  /\ Letter \cap Number = {}
  /\ Whitespace \cap (Letter \cup Number) = {}

unicode_tolower(c) ==
  IF c \in DOMAIN unicode_map_lowercase THEN unicode_map_lowercase[c] ELSE c

----------------------------------------------------------------------------
(* UTF-8 *)

\* The bytes behind the first one of a character.
Trailing == 128..191

\* How many bytes a character takes by its first one; 0 is not a first byte.
width(lead) ==
  CASE lead < 128 -> 1
    [] lead \in 192..223 -> 2
    [] lead \in 224..239 -> 3
    [] lead \in 240..247 -> 4
    [] OTHER -> 0

\* unicode_cpt_from_utf8: the code point at an offset and the offset behind it.
\* Overlong forms and surrogates pass.
unicode_cpt_from_utf8(utf8, offset) ==
  LET lead    == utf8[offset]
      n       == width(lead)
      bits(i) == utf8[offset + i] % 64
  IN IF n > 0 /\ offset + n - 1 <= Len(utf8) /\ \A i \in 1..(n - 1) : utf8[offset + i] \in Trailing
     THEN [cpt  |-> CASE n = 1 -> lead
                      [] n = 2 -> 64 * (lead % 32) + bits(1)
                      [] n = 3 -> 4096 * (lead % 16) + 64 * bits(1) + bits(2)
                      [] n = 4 -> 262144 * (lead % 8) + 4096 * bits(1) + 64 * bits(2) + bits(3),
           next |-> offset + n]
     ELSE Invalid

\* The largest code point that has a UTF-8 form; the code throws beyond it.
MaxCodepoint == 1114111

unicode_cpt_to_utf8(c) ==
  CASE c <= 127 -> <<c>>
    [] 128 <= c /\ c <= 2047 -> <<192 + c \div 64, 128 + (c % 64)>>
    [] 2048 <= c /\ c <= 65535 -> <<224 + c \div 4096, 128 + ((c \div 64) % 64), 128 + (c % 64)>>
    [] 65536 <= c /\ c <= MaxCodepoint ->
         <<240 + c \div 262144, 128 + ((c \div 4096) % 64), 128 + ((c \div 64) % 64), 128 + (c % 64)>>

\* Whether every character decodes, and encodes again.
decodes(utf8) ==
  LET ok[i \in 1..(Len(utf8) + 1)] ==
        \/ i = Len(utf8) + 1
        \/ LET d == unicode_cpt_from_utf8(utf8, i)
           IN d # Invalid /\ d.cpt <= MaxCodepoint /\ ok[d.next]
  IN ok[1]

\* The code points up to the end, or to the first invalid character, which throws.
unicode_cpts_from_utf8(utf8) ==
  LET cpts[i \in 1..(Len(utf8) + 1)] ==
        IF i = Len(utf8) + 1 THEN <<>>
        ELSE LET d == unicode_cpt_from_utf8(utf8, i)
             IN IF d = Invalid THEN <<>> ELSE <<d.cpt>> \o cpts[d.next]
  IN cpts[1]

unicode_cpts_to_utf8(cpts) == FlattenSeq([i \in DOMAIN cpts |-> unicode_cpt_to_utf8(cpts[i])])

----------------------------------------------------------------------------
(* Bytes as printable code points *)

Printable == (33..126) \cup (161..172) \cup (174..255)

\* unicode_byte_to_utf8_map: a byte that is not printable is the next code
\* point from 256 on.
byte_cpt ==
  [b \in Byte |-> IF b \in Printable THEN b
                  ELSE 256 + Cardinality({c \in Byte \ Printable : c < b})]

unicode_byte_to_utf8(b) == unicode_cpt_to_utf8(byte_cpt[b])

\* unicode_utf8_to_byte_map: built as the other one, and read the other way.
unicode_utf8_to_byte(utf8) == CHOOSE b \in Byte : unicode_byte_to_utf8(b) = utf8

\* unicode_byte_encoding_process of one word.
unicode_byte_encoding(word) == FlattenSeq([i \in DOMAIN word |-> unicode_byte_to_utf8(word[i])])
=============================================================================
