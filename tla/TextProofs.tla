----------------------------- MODULE TextProofs -----------------------------
(***************************************************************************)
(* Proofs about the text side: the scanners of Splitters.tla, the two       *)
(* merge loops of BytePairMerge.tla and Tokenizer.tla, for every text,      *)
(* merge table and tokenizer.json.                                          *)
(***************************************************************************)
EXTENDS TextMachines, FiniteSetTheorems, WellFoundedInduction, TLAPS

----------------------------------------------------------------------------
(* Classes of code points *)

LEMMA ClassesOfCodepoints ==
  /\ Letter \subseteq Codepoint /\ Number \subseteq Codepoint /\ Whitespace \subseteq Codepoint
  /\ Other \subseteq Codepoint /\ Leading \subseteq Codepoint /\ Newline \subseteq Codepoint
  /\ Codepoint \subseteq Nat
  /\ Newline \subseteq Whitespace /\ Space \in Whitespace \ Newline
  /\ OutOfRange \notin Codepoint
<1>1. Letter \subseteq Codepoint /\ Number \subseteq Codepoint
  BY DEF Letter, Number, unicode_cpt_flags
<1>2. MAX_CODEPOINTS \in Nat /\ MAX_CODEPOINTS > 12288
  BY SMT DEF MAX_CODEPOINTS
<1>3. Codepoint \subseteq Nat
  BY <1>2, SMT DEF Codepoint
<1>4. Whitespace \subseteq Codepoint
  BY <1>2, SMT DEF Codepoint, Whitespace, unicode_set_whitespace
<1>5. Newline \subseteq Whitespace /\ Space \in Whitespace \ Newline
  BY SMT DEF Newline, Whitespace, unicode_set_whitespace, Space
<1>6. Other \subseteq Codepoint /\ Leading \subseteq Codepoint
  BY DEF Other, Leading
<1> QED
  BY <1>1, <1>3, <1>4, <1>5, <1>6 DEF OutOfRange

LEMMA ClassesExclusive ==
  /\ Letter \cap Number = {} /\ Whitespace \cap Letter = {} /\ Whitespace \cap Number = {}
  /\ Other \cap Whitespace = {} /\ Newline \cap Letter = {} /\ Newline \cap Other = {}
  /\ Space \notin Letter /\ Space \notin Number /\ Space \notin Other /\ Space \notin Newline
BY OneClass, ClassesOfCodepoints DEF Other

----------------------------------------------------------------------------
(* The helpers of the scanners *)

LEMMA MaxIs ==
  ASSUME NEW S \in SUBSET Int, NEW x \in S, \A y \in S : y <= x
  PROVE  Max(S) = x
<1>1. \A y \in S : x >= y
  OBVIOUS
<1>2. Max(S) \in S /\ \A y \in S : Max(S) >= y
  BY <1>1, Zenon DEF Max
<1>3. x \in Int /\ Max(S) \in Int /\ x >= Max(S) /\ Max(S) >= x
  BY <1>1, <1>2
<1> QED
  BY <1>3

LEMMA MinIs ==
  ASSUME NEW S \in SUBSET Int, NEW x \in S, \A y \in S : x <= y
  PROVE  Min(S) = x
<1>1. Min(S) \in S /\ \A y \in S : Min(S) <= y
  BY Zenon DEF Min
<1>2. x \in Int /\ Min(S) \in Int /\ x <= Min(S) /\ Min(S) <= x
  BY <1>1
<1> QED
  BY <1>2

LEMMA LeastOf ==
  ASSUME NEW K \in SUBSET Nat, K # {}
  PROVE  \E e \in K : \A k \in K : e <= k
<1>1. K \subseteq Nat /\ K # {}
  OBVIOUS
<1>2. PICK e \in K : \A k \in K : <<k, e>> \notin OpToRel(<, Nat)
  BY <1>1, WFMin, NatLessThanWellFounded, Zenon
<1>3. \A k \in K : ~(k < e)
  BY <1>2 DEF OpToRel
<1> QED
  BY <1>3

LEMMA AtIs ==
  ASSUME NEW t \in Seq(Codepoint), NEW a \in Nat \ {0}, NEW C, C \subseteq Codepoint
  PROVE  at(t, a) \in C <=> a <= Len(t) /\ t[a] \in C
<1>1. a \in DOMAIN t <=> a <= Len(t)
  OBVIOUS
<1>2. OutOfRange \notin C
  BY ClassesOfCodepoints
<1> QED
  BY <1>1, <1>2 DEF at

\* The loop stops at the first member that is not of the class, or at the end.
Stops(t, a, C, e) ==
  /\ e \in a..(Len(t) + 1)
  /\ \A q \in a..(e - 1) : t[q] \in C
  /\ e <= Len(t) => t[e] \notin C

LEMMA AfterStops ==
  ASSUME NEW t \in Seq(Codepoint), NEW a \in 1..(Len(t) + 1), NEW C, C \subseteq Codepoint
  PROVE  Stops(t, a, C, after(t, a, C))
<1> DEFINE K == {k \in Nat : k >= a /\ k <= Len(t) + 1 /\ at(t, k) \notin C}
           P(e) == at(t, e) \notin C /\ \A q \in a..(e - 1) : at(t, q) \in C
<1>0. a \in Nat \ {0} /\ Len(t) \in Nat
  OBVIOUS
<1>1. Len(t) + 1 \in K
  BY <1>0, AtIs
<1>2. K \in SUBSET Nat /\ K # {}
  BY <1>1
<1>3. PICK e \in K : \A k \in K : e <= k
  <2> HIDE DEF K
  <2> QED
    BY <1>2, LeastOf
<1>4. e \in a..(Len(t) + 1) /\ P(e)
  BY <1>0, <1>3
<1>5. Max({a, Len(t) + 1}) = Len(t) + 1
  <2>1. {a, Len(t) + 1} \in SUBSET Int /\ \A y \in {a, Len(t) + 1} : y <= Len(t) + 1
    BY <1>0
  <2> QED
    BY <2>1, MaxIs
<1>6. after(t, a, C) = CHOOSE x \in a..(Len(t) + 1) : P(x)
  BY <1>5 DEF after
<1>7. after(t, a, C) \in a..(Len(t) + 1) /\ P(after(t, a, C))
  <2> HIDE DEF P
  <2> QED
    BY <1>4, <1>6, Zenon
<1>8. \A q \in a..(Len(t) + 1) : at(t, q) \in C <=> q <= Len(t) /\ t[q] \in C
  BY <1>0, AtIs
<1> QED
  BY <1>0, <1>7, <1>8 DEF Stops

----------------------------------------------------------------------------
(* Alternatives *)

Placed == s \in Seq(Codepoint) /\ p \in 1..Len(s)

\* What an expression matches at p, and where the scanner goes: nowhere when
\* there is no match, otherwise to the end of the longest.
Fits(match, e) ==
  /\ match \subseteq Ends
  /\ IF match = {} THEN e = p ELSE e \in match /\ \A x \in match : x <= e

\* A run of a class from a on goes at most to where the loop stops.
LEMMA RunStops ==
  ASSUME Placed, NEW C, NEW a \in 1..(Len(s) + 1), NEW e, Stops(s, a, C, e)
  PROVE  \A x \in 1..(Len(s) + 1) : run(a, x, C) <=> a < x /\ x <= e
<1>1. Len(s) \in Nat
  BY DEF Placed
<1> QED
  BY <1>1 DEF run, Stops

LEMMA StopsMoved ==
  ASSUME Placed, NEW C, NEW a \in 1..(Len(s) + 1), NEW e, Stops(s, a, C, e)
  PROVE  /\ e \in Nat /\ a <= e /\ e <= Len(s) + 1
         /\ a < e <=> a <= Len(s) /\ s[a] \in C
BY DEF Placed, Stops

LEMMA EndsAre ==
  ASSUME Placed
  PROVE  /\ Len(s) \in Nat /\ p \in Nat \ {0} /\ p <= Len(s)
         /\ Ends = (p + 1)..(Len(s) + 1)
         /\ p \in 1..(Len(s) + 1) /\ p + 1 \in 1..(Len(s) + 1)
BY DEF Placed, Ends

LEMMA RunsOf ==
  ASSUME Placed, NEW a \in 1..(Len(s) + 1), NEW C, C \subseteq Codepoint
  PROVE  LET e == after(s, a, C)
         IN  /\ Stops(s, a, C, e)
             /\ e \in Nat /\ a <= e /\ e <= Len(s) + 1
             /\ at(s, a) \in C <=> a < e
             /\ \A x \in 1..(Len(s) + 1) : run(a, x, C) <=> a < x /\ x <= e
<1> DEFINE e == after(s, a, C)
<1>1. Stops(s, a, C, e)
  BY AfterStops DEF Placed
<1>2. at(s, a) \in C <=> a <= Len(s) /\ s[a] \in C
  BY AtIs DEF Placed
<1> HIDE DEF e
<1>3. e \in Nat /\ a <= e /\ e <= Len(s) + 1 /\ (a < e <=> a <= Len(s) /\ s[a] \in C)
  BY <1>1, StopsMoved
<1>4. \A x \in 1..(Len(s) + 1) : run(a, x, C) <=> a < x /\ x <= e
  BY <1>1, RunStops
<1> QED
  BY <1>1, <1>2, <1>3, <1>4 DEF e

\* A class that may follow a space.
LEMMA SpacedFits ==
  ASSUME Placed, NEW C \in {Letter, Number, Other}
  PROVE  Fits(maybe_space(C), spaced(s, p, C))
<1>1. C \subseteq Codepoint /\ Space \notin C /\ Space \in Codepoint
  BY ClassesOfCodepoints, ClassesExclusive
<1> DEFINE q == behind_space(s, p)
           e == after(s, q, C)
<1>2. /\ Len(s) \in Nat /\ p \in Nat \ {0} /\ p <= Len(s) /\ Ends = (p + 1)..(Len(s) + 1)
      /\ p \in 1..(Len(s) + 1) /\ p + 1 \in 1..(Len(s) + 1) /\ s \in Seq(Codepoint)
  BY EndsAre DEF Placed
<1>3. q = (IF s[p] = Space THEN p + 1 ELSE p) /\ q \in 1..(Len(s) + 1)
  BY <1>2 DEF behind_space, at
<1>4. opt({Space}) = {p} \cup (IF s[p] = Space THEN {p + 1} ELSE {})
  BY <1>2 DEF opt, at
<1>5. Stops(s, q, C, e)
  BY <1>1, <1>2, <1>3, AfterStops
<1>6. \A x \in 1..(Len(s) + 1) : run(q, x, C) <=> q < x /\ x <= e
  BY <1>3, <1>5, RunStops
<1>7. s[p] = Space => \A x \in 1..(Len(s) + 1) : ~run(p, x, C)
  BY <1>1, <1>2 DEF run
<1>8. maybe_space(C) = {x \in Ends : q < x /\ x <= e}
  <2>1. \A x \in Ends : (\E r \in opt({Space}) : run(r, x, C)) <=> run(q, x, C)
    <3>1. CASE s[p] = Space
      <4>1. opt({Space}) = {p, p + 1} /\ q = p + 1
        BY <1>3, <1>4, <3>1
      <4>2. \A x \in Ends : ~run(p, x, C)
        BY <1>2, <1>7, <3>1
      <4> HIDE DEF q
      <4> QED
        BY <4>1, <4>2
    <3>2. CASE s[p] # Space
      <4>1. opt({Space}) = {p} /\ q = p
        BY <1>3, <1>4, <3>2
      <4> HIDE DEF q
      <4> QED
        BY <4>1
    <3> QED
      BY <3>1, <3>2
  <2>2. \A x \in Ends : run(q, x, C) <=> q < x /\ x <= e
    BY <1>2, <1>6
  <2> HIDE DEF q, e
  <2> QED
    BY <2>1, <2>2 DEF maybe_space
<1>9. at(s, q) \in C <=> q < e
  <2>1. at(s, q) \in C <=> q <= Len(s) /\ s[q] \in C
    BY <1>1, <1>2, <1>3, AtIs
  <2>2. q < e <=> q <= Len(s) /\ s[q] \in C
    BY <1>3, <1>5, StopsMoved
  <2> QED
    BY <2>1, <2>2
<1>10. e \in Nat /\ q <= e /\ e <= Len(s) + 1
  BY <1>3, <1>5, StopsMoved
<1>11. spaced(s, p, C) = IF q < e THEN e ELSE p
  BY <1>9 DEF spaced
<1> HIDE DEF q, e
<1> QED
  BY <1>2, <1>3, <1>8, <1>10, <1>11 DEF Fits

\* [^\r\n\p{L}\p{N}]?\p{L}+
LEMMA LettersFit ==
  ASSUME Placed
  PROVE  Fits({x \in Ends : \E q \in opt(Leading) : run(q, x, Letter)}, letters(s, p))
<1> DEFINE M == {x \in Ends : \E q \in opt(Leading) : run(q, x, Letter)}
           e == after(s, p + 1, Letter)
<1>1. /\ Len(s) \in Nat /\ p \in Nat \ {0} /\ p <= Len(s) /\ Ends = (p + 1)..(Len(s) + 1)
      /\ p \in 1..(Len(s) + 1) /\ p + 1 \in 1..(Len(s) + 1) /\ s \in Seq(Codepoint) /\ s[p] \in Codepoint
  BY EndsAre DEF Placed
<1>2. Stops(s, p + 1, Letter, e)
  BY <1>1, ClassesOfCodepoints, RunsOf
<1>3. \A x \in Ends : run(p + 1, x, Letter) <=> p + 1 < x /\ x <= e
  BY <1>1, <1>2, RunStops
<1>4. \A x \in Ends : run(p, x, Letter) <=> s[p] \in Letter /\ x <= e
  BY <1>1, <1>2 DEF run, Stops
<1>5. /\ e \in Nat /\ p + 1 <= e /\ e <= Len(s) + 1
      /\ p + 1 < e <=> at(s, p + 1) \in Letter
  BY <1>1, ClassesOfCodepoints, RunsOf
<1>6. at(s, p) = s[p]
  BY <1>1 DEF at
<1>7. opt(Leading) = {p} \cup (IF s[p] \in Leading THEN {p + 1} ELSE {})
  BY <1>1, <1>6 DEF opt
<1>8. CASE s[p] \in Letter
  <2>1. letters(s, p) = e /\ opt(Leading) = {p}
    BY <1>6, <1>7, <1>8, ClassesExclusive DEF letters, Leading
  <2>2. M = {x \in Ends : x <= e}
    BY <1>4, <1>8, <2>1
  <2> HIDE DEF M, e
  <2>3. e \in M
    BY <1>1, <1>5, <2>2
  <2> QED
    BY <1>1, <1>5, <2>1, <2>2, <2>3 DEF Fits, M
<1>9. CASE s[p] \in Leading
  <2>1. letters(s, p) = IF p + 1 < e THEN e ELSE p
    BY <1>5, <1>6, <1>9 DEF letters, Leading
  <2>2. opt(Leading) = {p, p + 1} /\ s[p] \notin Letter
    BY <1>7, <1>9 DEF Leading
  <2>3. M = {x \in Ends : p + 1 < x /\ x <= e}
    BY <1>3, <1>4, <2>2
  <2> HIDE DEF M, e
  <2>4. p + 1 < e => e \in M
    BY <1>1, <1>5, <2>3
  <2> QED
    BY <1>1, <1>5, <2>1, <2>3, <2>4 DEF Fits, M
<1>10. CASE s[p] \notin Letter \cup Leading
  <2>1. letters(s, p) = p /\ opt(Leading) = {p}
    BY <1>1, <1>6, <1>7, <1>10 DEF letters, Leading
  <2>2. M = {}
    BY <1>4, <1>10, <2>1
  <2> QED
    BY <2>1, <2>2 DEF Fits
<1> QED
  BY <1>8, <1>9, <1>10

\* \p{N}{1,3} and \p{N}
LEMMA NumbersFit ==
  ASSUME Placed
  PROVE  /\ Fits({x \in Ends : x - p <= 3 /\ run(p, x, Number)}, numbers(s, p))
         /\ Fits({x \in Ends : x - p <= 1 /\ run(p, x, Number)}, number(s, p))
<1> DEFINE M(n) == {x \in Ends : x - p <= n /\ run(p, x, Number)}
           e == after(s, p, Number)
<1>1. /\ Len(s) \in Nat /\ p \in Nat \ {0} /\ p <= Len(s) /\ Ends = (p + 1)..(Len(s) + 1)
      /\ p \in 1..(Len(s) + 1) /\ p + 1 \in 1..(Len(s) + 1) /\ s \in Seq(Codepoint)
  BY EndsAre DEF Placed
<1>2. Stops(s, p, Number, e)
  BY <1>1, ClassesOfCodepoints, RunsOf
<1>3. \A x \in Ends : run(p, x, Number) <=> x <= e
  BY <1>1, <1>2, RunStops
<1>4. /\ e \in Nat /\ p <= e /\ e <= Len(s) + 1
      /\ p < e <=> at(s, p) \in Number
  BY <1>1, ClassesOfCodepoints, RunsOf
<1>5. \A n \in Nat : M(n) = {x \in Ends : x - p <= n /\ x <= e}
  BY <1>3
<1>6. number(s, p) = IF p < e THEN p + 1 ELSE p
  BY <1>4 DEF number
<1>7. numbers(s, p) = IF e <= p + 3 THEN e ELSE p + 3
  <2>1. {e, p + 3} \in SUBSET Int
    BY <1>1, <1>4
  <2>2. numbers(s, p) = Min({e, p + 3})
    BY DEF numbers
  <2> HIDE DEF e
  <2>3. CASE e <= p + 3
    <3>1. e \in {e, p + 3} /\ \A y \in {e, p + 3} : e <= y
      BY <1>1, <1>4, <2>3
    <3> QED
      BY <2>1, <2>2, <2>3, <3>1, MinIs
  <2>4. CASE ~(e <= p + 3)
    <3>1. p + 3 \in {e, p + 3} /\ \A y \in {e, p + 3} : p + 3 <= y
      BY <1>1, <1>4, <2>4
    <3> QED
      BY <2>1, <2>2, <2>4, <3>1, MinIs
  <2> QED
    BY <2>3, <2>4
<1> HIDE DEF e
<1>8. Fits(M(3), numbers(s, p))
  <2>1. M(3) = {x \in Ends : x - p <= 3 /\ x <= e}
    BY <1>5
  <2> HIDE DEF M
  <2> QED
    BY <1>1, <1>4, <1>7, <2>1 DEF Fits
<1>9. Fits(M(1), number(s, p))
  <2>1. M(1) = {x \in Ends : x - p <= 1 /\ x <= e}
    BY <1>5
  <2> HIDE DEF M
  <2> QED
    BY <1>1, <1>4, <1>6, <2>1 DEF Fits
<1> QED
  BY <1>8, <1>9

\* \s*[\r\n]+
LEMMA LastNewlineFits ==
  ASSUME Placed
  PROVE  Fits({x \in Ends : run(p, x, Whitespace) /\ s[x - 1] \in Newline}, to_last_newline(s, p))
<1> DEFINE M == {x \in Ends : run(p, x, Whitespace) /\ s[x - 1] \in Newline}
           e == after(s, p, Whitespace)
           N == {q + 1 : q \in {q \in p..(e - 1) : s[q] \in Newline}}
<1>1. /\ Len(s) \in Nat /\ p \in Nat \ {0} /\ p <= Len(s) /\ Ends = (p + 1)..(Len(s) + 1)
      /\ p \in 1..(Len(s) + 1) /\ p + 1 \in 1..(Len(s) + 1) /\ s \in Seq(Codepoint)
  BY EndsAre DEF Placed
<1>2. Stops(s, p, Whitespace, e)
  BY <1>1, ClassesOfCodepoints, RunsOf
<1>3. \A x \in Ends : run(p, x, Whitespace) <=> x <= e
  BY <1>1, <1>2, RunStops
<1>4. e \in Nat /\ p <= e /\ e <= Len(s) + 1
  BY <1>1, ClassesOfCodepoints, RunsOf
<1>5. to_last_newline(s, p) = IF N = {} THEN p ELSE Max(N)
  BY DEF to_last_newline
<1> HIDE DEF e
<1>6. M = N
  <2>1. ASSUME NEW x \in M PROVE x \in N
    <3>1. x - 1 \in p..(e - 1) /\ s[x - 1] \in Newline /\ x = (x - 1) + 1
      BY <1>1, <1>3, <1>4
    <3> QED
      BY <3>1
  <2>2. ASSUME NEW x \in N PROVE x \in M
    <3>1. PICK q \in p..(e - 1) : s[q] \in Newline /\ x = q + 1
      OBVIOUS
    <3>2. x \in Ends /\ x <= e /\ x - 1 = q
      BY <1>1, <1>4, <3>1
    <3> QED
      BY <1>3, <3>1, <3>2
  <2> QED
    BY <2>1, <2>2
<1>7. N # {} => Max(N) \in N /\ \A x \in N : x <= Max(N)
  <2> DEFINE D == {Len(s) + 1 - x : x \in N}
  <2>1. SUFFICES ASSUME N # {} PROVE Max(N) \in N /\ \A x \in N : x <= Max(N)
    OBVIOUS
  <2>2. N \in SUBSET Int /\ \A x \in N : Len(s) + 1 - x \in Nat
    BY <1>1, <1>4
  <2> HIDE DEF N
  <2>3. D \in SUBSET Nat /\ D # {}
    BY <2>1, <2>2
  <2>4. PICK d \in D : \A k \in D : d <= k
    <3> HIDE DEF D
    <3> QED
      BY <2>3, LeastOf
  <2>5. PICK x \in N : d = Len(s) + 1 - x
    OBVIOUS
  <2>6. \A y \in N : y <= x
    <3>1. SUFFICES ASSUME NEW y \in N PROVE y <= x
      OBVIOUS
    <3>2. Len(s) + 1 - x <= Len(s) + 1 - y
      BY <2>4, <2>5
    <3>3. x \in Int /\ y \in Int
      BY <2>2
    <3> QED
      BY <1>1, <3>2, <3>3
  <2>7. Max(N) = x
    BY <2>2, <2>6, MaxIs
  <2> QED
    BY <2>6, <2>7
<1>8. M \subseteq Ends
  OBVIOUS
<1> HIDE DEF M, N
<1> QED
  BY <1>5, <1>6, <1>7, <1>8 DEF Fits, M

\* <space>?[^\s\p{L}\p{N}]+[\r\n]*
LEMMA PunctuationFits ==
  ASSUME Placed
  PROVE  Fits({x \in Ends : \E q \in opt({Space}), m \in Ends :
                              run(q, m, Other) /\ (m = x \/ run(m, x, Newline))},
              punctuation(s, p))
<1> DEFINE q == behind_space(s, p)
           e == after(s, q, Other)
           f == after(s, e, Newline)
           M == {x \in Ends : \E r \in opt({Space}), m \in Ends :
                              run(r, m, Other) /\ (m = x \/ run(m, x, Newline))}
<1>1. /\ Len(s) \in Nat /\ p \in Nat \ {0} /\ p <= Len(s) /\ Ends = (p + 1)..(Len(s) + 1)
      /\ p \in 1..(Len(s) + 1) /\ p + 1 \in 1..(Len(s) + 1) /\ s \in Seq(Codepoint)
  BY EndsAre DEF Placed
<1>2. q = (IF s[p] = Space THEN p + 1 ELSE p) /\ q \in 1..(Len(s) + 1) /\ p <= q
  BY <1>1 DEF behind_space, at
<1>3. /\ Stops(s, q, Other, e)
      /\ e \in Nat /\ q <= e /\ e <= Len(s) + 1 /\ e \in 1..(Len(s) + 1)
      /\ at(s, q) \in Other <=> q < e
      /\ \A x \in 1..(Len(s) + 1) : run(q, x, Other) <=> q < x /\ x <= e
  <2> HIDE DEF q
  <2>1. Other \subseteq Codepoint
    BY ClassesOfCodepoints
  <2>2. /\ Stops(s, q, Other, e)
        /\ e \in Nat /\ q <= e /\ e <= Len(s) + 1
        /\ at(s, q) \in Other <=> q < e
        /\ \A x \in 1..(Len(s) + 1) : run(q, x, Other) <=> q < x /\ x <= e
    BY <1>2, <2>1, RunsOf
  <2> HIDE DEF e
  <2> QED
    BY <1>1, <1>2, <2>2
<1>4. /\ f \in Nat /\ e <= f /\ f <= Len(s) + 1
      /\ \A x \in 1..(Len(s) + 1) : run(e, x, Newline) <=> e < x /\ x <= f
  BY <1>3, ClassesOfCodepoints, RunsOf
<1>5. punctuation(s, p) = IF q < e THEN f ELSE p
  <2>1. spaced(s, p, Other) = IF q < e THEN e ELSE p
    BY <1>3 DEF spaced
  <2>2. q < e => e > p
    BY <1>1, <1>2, <1>3
  <2>3. ~(p > p)
    BY <1>1
  <2> HIDE DEF q, e
  <2> QED
    BY <2>1, <2>2, <2>3 DEF punctuation
<1>6. ASSUME NEW r \in opt({Space}), NEW m \in Ends, run(r, m, Other)
      PROVE  r = q
  <2>1. r \in {p} \cup (IF s[p] = Space THEN {p + 1} ELSE {})
    BY <1>1 DEF opt, at
  <2>2. s[p] # Space \/ r # p
    <3>1. ASSUME r = p PROVE s[p] \in Other
      BY <1>1, <1>6, <3>1 DEF run
    <3> QED
      BY <3>1, ClassesExclusive
  <2> QED
    BY <1>2, <2>1, <2>2
<1>7. q \in opt({Space})
  BY <1>1, <1>2 DEF opt, at
<1> HIDE DEF q, e, f
<1>8. ASSUME NEW x \in M PROVE q < e /\ x <= f
  <2>1. PICK r \in opt({Space}), m \in Ends : run(r, m, Other) /\ (m = x \/ run(m, x, Newline))
    OBVIOUS
  <2>2. run(q, m, Other)
    BY <1>6, <2>1
  <2>3. q < m /\ m <= e
    BY <1>1, <1>3, <2>2
  <2>4. CASE m = x
    BY <1>1, <1>2, <1>3, <1>4, <2>3, <2>4
  <2>5. CASE run(m, x, Newline) /\ m = e
    BY <1>1, <1>2, <1>3, <1>4, <2>3, <2>5
  <2>6. CASE run(m, x, Newline) /\ m # e
    <3>1. s[m] \in Newline
      BY <1>1, <2>6 DEF run
    <3>2. s[m] \in Other
      BY <1>1, <1>2, <1>3, <2>3, <2>6 DEF Stops
    <3> QED
      BY <3>1, <3>2, ClassesExclusive
  <2> QED
    BY <2>1, <2>4, <2>5, <2>6
<1>9. ASSUME q < e PROVE f \in M
  <2>1. e \in Ends /\ f \in Ends
    BY <1>1, <1>2, <1>3, <1>4, <1>9
  <2>2. run(q, e, Other)
    BY <1>2, <1>3, <1>9
  <2>3. e = f \/ run(e, f, Newline)
    BY <1>1, <1>3, <1>4
  <2> QED
    BY <1>7, <2>1, <2>2, <2>3
<1>10. M \subseteq Ends
  OBVIOUS
<1>11. Fits(M, punctuation(s, p))
  <2> HIDE DEF M
  <2> QED
    BY <1>5, <1>8, <1>9, <1>10 DEF Fits
<1> QED
  BY <1>11

\* \s*[\r\n]+, which the Qwen3 scanner stops at the first newlines of.
LEMMA FirstNewlinesFit ==
  ASSUME Placed
  PROVE  /\ ~SplitNewlines =>
              Fits({x \in Ends : run(p, x, Whitespace) /\ s[x - 1] \in Newline},
                   to_first_newlines(s, p))
         /\ to_first_newlines(s, p) \in p..(Len(s) + 1)
<1> DEFINE M == {x \in Ends : run(p, x, Whitespace) /\ s[x - 1] \in Newline}
           B == Whitespace \ Newline
           e == after(s, p, B)
           f == after(s, e, Newline)
<1>1. /\ Len(s) \in Nat /\ p \in Nat \ {0} /\ p <= Len(s) /\ Ends = (p + 1)..(Len(s) + 1)
      /\ p \in 1..(Len(s) + 1) /\ p + 1 \in 1..(Len(s) + 1) /\ s \in Seq(Codepoint)
  BY EndsAre DEF Placed
<1>2. B \subseteq Codepoint /\ Newline \subseteq Codepoint /\ Newline \subseteq Whitespace
  BY ClassesOfCodepoints
<1>3. /\ Stops(s, p, B, e)
      /\ e \in Nat /\ p <= e /\ e <= Len(s) + 1 /\ e \in 1..(Len(s) + 1)
  BY <1>1, <1>2, RunsOf
<1>4. /\ Stops(s, e, Newline, f)
      /\ f \in Nat /\ e <= f /\ f <= Len(s) + 1
      /\ at(s, e) \in Newline <=> e < f
  BY <1>2, <1>3, RunsOf
<1>5. to_first_newlines(s, p) = IF e < f THEN f ELSE p
  BY <1>4 DEF to_first_newlines
<1> HIDE DEF e, f
<1>6. M \subseteq Ends /\ \A x \in M : run(p, x, Whitespace) /\ s[x - 1] \in Newline
  OBVIOUS
<1>7. e < f => f \in M
  <2>1. SUFFICES ASSUME e < f PROVE f \in M
    OBVIOUS
  <2>2. f \in Ends /\ f - 1 \in e..(f - 1)
    BY <1>1, <1>3, <1>4, <2>1
  <2>3. s[f - 1] \in Newline
    BY <1>4, <2>2 DEF Stops
  <2>4. \A x \in p..(f - 1) : s[x] \in Whitespace
    <3>1. \A x \in p..(e - 1) : s[x] \in Whitespace
      BY <1>3 DEF Stops
    <3>2. \A x \in e..(f - 1) : s[x] \in Whitespace
      BY <1>2, <1>4 DEF Stops
    <3> QED
      BY <1>1, <1>3, <1>4, <3>1, <3>2
  <2>5. run(p, f, Whitespace)
    BY <1>1, <1>3, <1>4, <2>1, <2>4 DEF run
  <2> QED
    BY <2>2, <2>3, <2>5
<1>8. ASSUME ~SplitNewlines, NEW x \in M PROVE e < f /\ x <= f
  <2>1. /\ x \in Nat /\ x - 1 \in p..Len(s) /\ p < x /\ s[x - 1] \in Newline
        /\ \A y \in p..(x - 1) : s[y] \in Whitespace
    BY <1>1, <1>6, <1>8 DEF run
  <2>2. e <= x - 1
    <3>1. SUFFICES ASSUME x - 1 < e PROVE FALSE
      BY <1>3, <2>1
    <3>2. s[x - 1] \in B
      BY <1>1, <1>3, <2>1, <3>1 DEF Stops
    <3> QED
      BY <2>1, <3>2
  <2>3. e < f
    <3>1. s[e] \in Whitespace /\ e <= Len(s)
      BY <1>1, <1>3, <2>1, <2>2
    <3>2. s[e] \in Newline
      BY <1>3, <3>1 DEF Stops
    <3>3. at(s, e) = s[e]
      BY <1>1, <1>3, <3>1 DEF at
    <3> QED
      BY <1>4, <3>2, <3>3
  <2>4. x <= f
    <3>1. SUFFICES ASSUME f < x PROVE FALSE
      BY <1>4, <2>1
    <3>2. f <= Len(s) /\ s[f] \in Whitespace /\ s[f] \notin Newline
      BY <1>1, <1>3, <1>4, <2>1, <3>1 DEF Stops
    <3>3. f # x - 1
      BY <2>1, <3>2
    <3>4. e < f /\ f < x - 1 /\ {s[e], s[x - 1]} \subseteq Newline
      BY <1>3, <1>4, <2>1, <2>3, <3>1, <3>3 DEF Stops
    <3>5. run(p, (x - 1) + 1, Whitespace)
      BY <1>1, <2>1 DEF run
    <3>6. e \in p..Len(s) /\ f \in p..Len(s) /\ x - 1 \in p..Len(s)
      BY <1>1, <1>3, <1>4, <2>1, <3>2, <3>4
    <3> QED
      BY <1>8, <3>2, <3>4, <3>5, <3>6 DEF SplitNewlines
  <2> QED
    BY <2>3, <2>4
<1>9. ASSUME ~SplitNewlines
      PROVE  Fits(M, to_first_newlines(s, p))
  <2> HIDE DEF M
  <2> QED
    BY <1>5, <1>6, <1>7, <1>8, <1>9 DEF Fits
<1> QED
  BY <1>1, <1>3, <1>4, <1>5, <1>9

\* \s+(?!\S) and \s+ together.
LEMMA WhitespaceFits ==
  ASSUME Placed
  PROVE  LET ws == plain_whitespace
             e  == whitespace(s, p)
         IN  IF ws[1] # {} THEN Fits(ws[1], e) ELSE Fits(ws[2], e)
<1> DEFINE A == {x \in Ends : run(p, x, Whitespace) /\ (x > Len(s) \/ s[x] \in Whitespace)}
           B == {x \in Ends : run(p, x, Whitespace)}
           f == after(s, p, Whitespace)
<1>1. /\ Len(s) \in Nat /\ p \in Nat \ {0} /\ p <= Len(s) /\ Ends = (p + 1)..(Len(s) + 1)
      /\ p \in 1..(Len(s) + 1) /\ p + 1 \in 1..(Len(s) + 1) /\ s \in Seq(Codepoint)
  BY EndsAre DEF Placed
<1>2. /\ Stops(s, p, Whitespace, f)
      /\ f \in Nat /\ p <= f /\ f <= Len(s) + 1
      /\ \A x \in 1..(Len(s) + 1) : run(p, x, Whitespace) <=> p < x /\ x <= f
  BY <1>1, ClassesOfCodepoints, RunsOf
<1>3. whitespace(s, p) = IF f - p > 1 /\ f <= Len(s) THEN f - 1 ELSE f
  BY DEF whitespace
<1>4. plain_whitespace[1] = A /\ plain_whitespace[2] = B
  BY DEF plain_whitespace
<1> HIDE DEF f
<1>5. \A x \in Ends : x \in B <=> x <= f
  BY <1>1, <1>2
<1>6. \A x \in Ends : x \in A <=> x <= f /\ (x = f => f > Len(s))
  <2>1. SUFFICES ASSUME NEW x \in Ends
                 PROVE  x \in A <=> x <= f /\ (x = f => f > Len(s))
    OBVIOUS
  <2>2. x < f => s[x] \in Whitespace
    BY <1>1, <1>2, <2>1 DEF Stops
  <2>3. x = f /\ ~(f > Len(s)) => s[x] \notin Whitespace
    BY <1>1, <1>2, <2>1 DEF Stops
  <2> QED
    BY <1>1, <1>2, <2>2, <2>3
<1>7. A \subseteq Ends /\ B \subseteq Ends
  OBVIOUS
<1> HIDE DEF A, B
<1> DEFINE e == whitespace(s, p)
<1>8. CASE A # {}
  <2>1. PICK x \in A : x \in Ends /\ x <= f /\ (x = f => f > Len(s))
    BY <1>6, <1>7, <1>8
  <2>2. e \in Ends /\ e <= f /\ (e = f => f > Len(s))
    BY <1>1, <1>2, <1>3, <2>1
  <2>3. \A y \in A : y <= e
    BY <1>1, <1>2, <1>3, <1>6, <1>7, <2>1
  <2> HIDE DEF e
  <2>4. Fits(A, e)
    BY <1>6, <1>7, <1>8, <2>2, <2>3 DEF Fits
  <2> QED
    BY <1>4, <1>8, <2>4 DEF e
<1>9. CASE A = {}
  <2>1. ~(p < f /\ f > Len(s))
    BY <1>1, <1>2, <1>6, <1>9
  <2>2. ~(f - p > 1)
    <3>1. SUFFICES ASSUME f - p > 1 PROVE FALSE
      OBVIOUS
    <3>2. f - 1 \in Ends
      BY <1>1, <1>2, <3>1
    <3> QED
      BY <1>2, <1>6, <1>9, <3>2
  <2>3. e = f
    BY <1>3, <2>2
  <2> HIDE DEF e
  <2>4. IF f = p THEN B = {} ELSE f \in B /\ \A y \in B : y <= f
    BY <1>1, <1>2, <1>5, <1>7
  <2>5. Fits(B, e)
    BY <1>1, <1>2, <1>5, <1>7, <2>3, <2>4 DEF Fits
  <2> QED
    BY <1>4, <1>9, <2>5 DEF e
<1> QED
  BY <1>4, <1>8, <1>9

\* What words of two and three letters are.
Spells(w, n) ==
  /\ \A a, b : w = <<a, b>> <=> n = 2 /\ w[1] = a /\ w[2] = b
  /\ \A a, b, c : w = <<a, b, c>> <=> n = 3 /\ w[1] = a /\ w[2] = b /\ w[3] = c

LEMMA WordIs ==
  ASSUME NEW n \in Nat, NEW w, w = [q \in 1..n |-> w[q]]
  PROVE  Spells(w, n)
<1> SUFFICES ASSUME NEW a, NEW b, NEW c
             PROVE  /\ w = <<a, b>> <=> n = 2 /\ w[1] = a /\ w[2] = b
                    /\ w = <<a, b, c>> <=> n = 3 /\ w[1] = a /\ w[2] = b /\ w[3] = c
  BY DEF Spells
<1>1. DOMAIN w = 1..n
  OBVIOUS
<1>2. 1..n = 1..2 => n = 2
  <2>1. 1..n = 1..2 => 2 \in 1..n /\ 3 \notin 1..n
    OBVIOUS
  <2> QED
    BY <2>1
<1>3. 1..n = 1..3 => n = 3
  <2>1. 1..n = 1..3 => 3 \in 1..n /\ 4 \notin 1..n
    <3>1. 3 \in 1..3 /\ 4 \notin 1..3
      OBVIOUS
    <3> QED
      BY <3>1, Zenon
  <2> QED
    BY <2>1
<1>4. CASE n = 2
  <2>1. w = <<w[1], w[2]>>
    BY <1>4
  <2> QED
    BY <1>4, <2>1
<1>5. CASE n = 3
  <2>1. w = <<w[1], w[2], w[3]>>
    BY <1>5
  <2> QED
    BY <1>5, <2>1
<1>6. CASE n # 2 /\ n # 3
  <2>1. DOMAIN <<a, b>> = 1..2 /\ DOMAIN <<a, b, c>> = 1..3
    OBVIOUS
  <2> QED
    BY <1>1, <1>2, <1>3, <1>6, <2>1
<1> QED
  BY <1>4, <1>5, <1>6

\* What folds letters leaves apart what no folded letter is.
Folding(F) ==
  /\ F \in [Codepoint \cup {OutOfRange} -> Int]
  /\ \A c \in Codepoint : F[c] = 39 <=> c = 39
  /\ F[OutOfRange] = OutOfRange

\* 's|'t|'re|'ve|'m|'ll|'d, with the letters folded by F.
Suffixed(F) ==
  {x \in Ends :
     [q \in 1..(x - p) |-> F[s[p + q - 1]]] \in
       {<<39, 115>>, <<39, 116>>, <<39, 114, 101>>, <<39, 118, 101>>, <<39, 109>>,
        <<39, 108, 108>>, <<39, 100>>}}

Contracted(F) ==
  LET c1 == F[at(s, p + 1)]
      c2 == F[at(s, p + 2)]
  IN IF at(s, p) # Apostrophe THEN p
     ELSE IF c1 \in {115, 116, 109, 100} THEN p + 2
     ELSE IF <<c1, c2>> \in {<<114, 101>>, <<118, 101>>, <<108, 108>>} THEN p + 3
     ELSE p

LEMMA SuffixesFit ==
  ASSUME Placed, NEW F, Folding(F)
  PROVE  Fits(Suffixed(F), Contracted(F))
<1> DEFINE c1 == F[at(s, p + 1)]
           c2 == F[at(s, p + 2)]
           W(x) == [q \in 1..(x - p) |-> F[s[p + q - 1]]]
           D == {<<39, 115>>, <<39, 116>>, <<39, 114, 101>>, <<39, 118, 101>>, <<39, 109>>,
                 <<39, 108, 108>>, <<39, 100>>}
           M == {x \in Ends : W(x) \in D}
           one == s[p] = 39 /\ c1 \in {115, 116, 109, 100}
           two == s[p] = 39 /\ <<c1, c2>> \in {<<114, 101>>, <<118, 101>>, <<108, 108>>}
           e == IF at(s, p) # Apostrophe THEN p
                  ELSE IF c1 \in {115, 116, 109, 100} THEN p + 2
                  ELSE IF <<c1, c2>> \in {<<114, 101>>, <<118, 101>>, <<108, 108>>} THEN p + 3
                  ELSE p
<1>0. /\ F \in [Codepoint \cup {OutOfRange} -> Int]
      /\ \A c \in Codepoint : F[c] = 39 <=> c = 39
      /\ F[OutOfRange] = OutOfRange
  BY DEF Folding
<1>1. /\ Len(s) \in Nat /\ p \in Nat \ {0} /\ p <= Len(s) /\ Ends = (p + 1)..(Len(s) + 1)
      /\ s \in Seq(Codepoint)
  BY EndsAre DEF Placed
<1>2. at(s, p) = s[p] /\ s[p] \in Codepoint
  BY <1>1 DEF at
<1>3. at(s, p + 1) = IF p + 1 <= Len(s) THEN s[p + 1] ELSE OutOfRange
  BY <1>1 DEF at
<1>4. at(s, p + 2) = IF p + 2 <= Len(s) THEN s[p + 2] ELSE OutOfRange
  BY <1>1 DEF at
<1>5. e = IF one THEN p + 2 ELSE IF two THEN p + 3 ELSE p
  BY <1>2 DEF Apostrophe
<1>6. (one => p + 2 <= Len(s) + 1) /\ (two => p + 3 <= Len(s) + 1)
  <2>1. OutOfRange = -1
    BY DEF OutOfRange
  <2>2. c1 # -1 => p + 1 <= Len(s)
    BY <1>0, <1>3, <2>1
  <2>3. c2 # -1 => p + 2 <= Len(s)
    BY <1>0, <1>4, <2>1
  <2> HIDE DEF c1, c2
  <2>4. one => c1 # -1
    OBVIOUS
  <2>5. two => c2 # -1
    OBVIOUS
  <2> QED
    BY <1>1, <2>2, <2>3, <2>4, <2>5
<1>7. ASSUME NEW x \in Ends
      PROVE  W(x) \in D <=> (x = p + 2 /\ one) \/ (x = p + 3 /\ two)
  <2>1. x - p \in Nat /\ x - p >= 1 /\ x <= Len(s) + 1 /\ x \in Nat
    BY <1>1
  <2> DEFINE w == W(x)
             n == x - p
  <2>2. w = [q \in 1..n |-> w[q]] /\ n \in Nat /\ W(x) = w
    BY <2>1
  <2>3. F[s[p]] = 39 <=> s[p] = 39
    BY <1>0, <1>2
  <2>4. x = p + 2 => w[1] = F[s[p]] /\ w[2] = c1
    BY <1>1, <1>3, <2>1
  <2>5. x = p + 3 => w[1] = F[s[p]] /\ w[2] = c1 /\ w[3] = c2
    BY <1>1, <1>3, <1>4, <2>1
  <2>6. (n = 2 <=> x = p + 2) /\ (n = 3 <=> x = p + 3) /\ ~(n = 2 /\ n = 3)
    BY <1>1, <2>1
  <2> HIDE DEF w, c1, c2, n, W
  <2>0. Spells(w, n)
    BY <2>2, WordIs
  <2>7. \A a, b : w = <<a, b>> <=> n = 2 /\ w[1] = a /\ w[2] = b
    BY <2>0 DEF Spells
  <2>8. \A a, b, c : w = <<a, b, c>> <=> n = 3 /\ w[1] = a /\ w[2] = b /\ w[3] = c
    BY <2>0 DEF Spells
  <2>9. w \in D <=> \/ n = 2 /\ w[1] = 39 /\ w[2] \in {115, 116, 109, 100}
                    \/ n = 3 /\ w[1] = 39 /\ \/ w[2] = 114 /\ w[3] = 101
                                             \/ w[2] = 118 /\ w[3] = 101
                                             \/ w[2] = 108 /\ w[3] = 108
    BY <2>7, <2>8
  <2>10. two <=> s[p] = 39 /\ \/ c1 = 114 /\ c2 = 101
                              \/ c1 = 118 /\ c2 = 101
                              \/ c1 = 108 /\ c2 = 108
    OBVIOUS
  <2>11. one <=> s[p] = 39 /\ c1 \in {115, 116, 109, 100}
    OBVIOUS
  <2> HIDE DEF D, one, two
  <2>12. CASE x = p + 2
    BY <2>2, <2>3, <2>4, <2>6, <2>9, <2>11, <2>12
  <2>13. CASE x = p + 3
    BY <2>2, <2>3, <2>5, <2>6, <2>9, <2>10, <2>13
  <2>14. CASE x # p + 2 /\ x # p + 3
    BY <2>2, <2>6, <2>9, <2>14
  <2> QED
    BY <2>12, <2>13, <2>14
<1>8. ~(one /\ two)
  <2> HIDE DEF c1, c2
  <2> QED
    OBVIOUS
<1>9. M \subseteq Ends /\ \A x \in Ends : x \in M <=> (x = p + 2 /\ one) \/ (x = p + 3 /\ two)
  BY <1>7
<1>10. Fits(M, e)
  <2> HIDE DEF M, e, one, two
  <2> QED
    BY <1>1, <1>5, <1>6, <1>8, <1>9 DEF Fits
<1> QED
  BY <1>10, Zenon DEF Suffixed, Contracted

LEMMA AtOrOut ==
  ASSUME Placed, NEW q \in Nat \ {0}
  PROVE  at(s, q) \in Codepoint \cup {OutOfRange}
BY DEF Placed, at

LEMMA ContractionFits ==
  ASSUME Placed
  PROVE  /\ Fits(suffixes(as_is), contraction(s, p, as_is))
         /\ Fits(suffixes(unicode_tolower), contraction(s, p, unicode_tolower))
<1>1. /\ Len(s) \in Nat /\ p \in Nat \ {0} /\ p <= Len(s) /\ Ends = (p + 1)..(Len(s) + 1)
      /\ s \in Seq(Codepoint)
  BY EndsAre DEF Placed
<1>2. \A x \in Ends : x - p \in Nat /\ \A q \in 1..(x - p) : s[p + q - 1] \in Codepoint
  BY <1>1
<1>3. /\ at(s, p + 1) \in Codepoint \cup {OutOfRange}
      /\ at(s, p + 2) \in Codepoint \cup {OutOfRange}
  BY <1>1, AtOrOut
<1>4. Codepoint \cup {OutOfRange} \subseteq Int /\ OutOfRange = -1
  BY ClassesOfCodepoints DEF OutOfRange
<1>5. Fits(suffixes(as_is), contraction(s, p, as_is))
  <2> DEFINE F == [c \in Codepoint \cup {OutOfRange} |-> c]
  <2>1. /\ F \in [Codepoint \cup {OutOfRange} -> Int]
        /\ \A c \in Codepoint \cup {OutOfRange} : F[c] = as_is(c)
    BY <1>4 DEF as_is
  <2>2. (\A c \in Codepoint : F[c] = 39 <=> c = 39) /\ F[OutOfRange] = OutOfRange
    OBVIOUS
  <2> HIDE DEF F
  <2>3. \A x \in Ends : [q \in 1..(x - p) |-> as_is(s[p + q - 1])]
                          = [q \in 1..(x - p) |-> F[s[p + q - 1]]]
    BY <1>2, <2>1
  <2>4. suffixes(as_is) = Suffixed(F)
    BY <2>3, Zenon DEF suffixes, Suffixed
  <2>5. F[at(s, p + 1)] = as_is(at(s, p + 1)) /\ F[at(s, p + 2)] = as_is(at(s, p + 2))
    BY <1>3, <2>1
  <2>6. contraction(s, p, as_is) = Contracted(F)
    BY <2>5, Zenon DEF contraction, Contracted
  <2>7. Fits(Suffixed(F), Contracted(F))
    BY <2>1, <2>2, SuffixesFit DEF Folding
  <2> QED
    BY <2>4, <2>6, <2>7
<1>6. Fits(suffixes(unicode_tolower), contraction(s, p, unicode_tolower))
  <2> DEFINE F == [c \in Codepoint \cup {OutOfRange} |-> unicode_tolower(c)]
  <2>0. \A c \in Int : /\ unicode_tolower(c) \in Int
                       /\ unicode_tolower(c) = 39 <=> c = 39
                       /\ c = -1 => unicode_tolower(c) = -1
    BY SMT DEF unicode_tolower, unicode_map_lowercase
  <2>1. /\ F \in [Codepoint \cup {OutOfRange} -> Int]
        /\ \A c \in Codepoint \cup {OutOfRange} : F[c] = unicode_tolower(c)
    BY <1>4, <2>0
  <2>2. (\A c \in Codepoint : F[c] = 39 <=> c = 39) /\ F[OutOfRange] = OutOfRange
    BY <1>4, <2>0
  <2> HIDE DEF F
  <2>3. \A x \in Ends : [q \in 1..(x - p) |-> unicode_tolower(s[p + q - 1])]
                          = [q \in 1..(x - p) |-> F[s[p + q - 1]]]
    BY <1>2, <2>1
  <2>4. suffixes(unicode_tolower) = Suffixed(F)
    BY <2>3, Zenon DEF suffixes, Suffixed
  <2>5. /\ F[at(s, p + 1)] = unicode_tolower(at(s, p + 1))
        /\ F[at(s, p + 2)] = unicode_tolower(at(s, p + 2))
    BY <1>3, <2>1
  <2>6. contraction(s, p, unicode_tolower) = Contracted(F)
    BY <2>5, Zenon DEF contraction, Contracted
  <2>7. Fits(Suffixed(F), Contracted(F))
    BY <2>1, <2>2, SuffixesFit DEF Folding
  <2> QED
    BY <2>4, <2>6, <2>7
<1> QED
  BY <1>5, <1>6

----------------------------------------------------------------------------
(* All alternatives together *)

\* The alternatives of a scanner and those of its expression, which writes the
\* white space as two.
Corresponds(n, ends, matches) ==
  /\ DOMAIN ends = 1..n /\ DOMAIN matches = 1..(n + 1)
  /\ \A i \in 1..(n - 1) : Fits(matches[i], ends[i])
  /\ IF matches[n] # {} THEN Fits(matches[n], ends[n]) ELSE Fits(matches[n + 1], ends[n])

LEMMA FirstOfAll ==
  ASSUME Placed, NEW n \in Nat \ {0}, NEW ends, NEW matches, Corresponds(n, ends, matches)
  PROVE  LET first == {i \in DOMAIN matches :
                         matches[i] # {} /\ \A j \in 1..(i - 1) : matches[j] = {}}
         IN  first_end(p, ends) = IF first = {} THEN p + 1
                                  ELSE Max(UNION {matches[i] : i \in first})
<1> DEFINE first == {i \in DOMAIN matches :
                       matches[i] # {} /\ \A j \in 1..(i - 1) : matches[j] = {}}
<1>1. /\ Len(s) \in Nat /\ p \in Nat \ {0} /\ Ends = (p + 1)..(Len(s) + 1)
  BY EndsAre
<1>2. DOMAIN ends = 1..n /\ DOMAIN matches = 1..(n + 1)
  BY DEF Corresponds
<1>3. \A i \in 1..(n - 1) : (ends[i] > p <=> matches[i] # {})
                         /\ (ends[i] <= p <=> matches[i] = {})
  <2> SUFFICES ASSUME NEW i \in 1..(n - 1)
               PROVE  (ends[i] > p <=> matches[i] # {}) /\ (ends[i] <= p <=> matches[i] = {})
    OBVIOUS
  <2>1. Fits(matches[i], ends[i])
    BY DEF Corresponds
  <2> QED
    BY <1>1, <2>1 DEF Fits
<1>4. /\ ends[n] > p <=> matches[n] # {} \/ matches[n + 1] # {}
      /\ ends[n] <= p <=> matches[n] = {} /\ matches[n + 1] = {}
  <2>1. CASE matches[n] # {}
    <3>1. Fits(matches[n], ends[n])
      BY <2>1 DEF Corresponds
    <3> QED
      BY <1>1, <2>1, <3>1 DEF Fits
  <2>2. CASE matches[n] = {}
    <3>1. Fits(matches[n + 1], ends[n])
      BY <2>2 DEF Corresponds
    <3> QED
      BY <1>1, <2>2, <3>1 DEF Fits
  <2> QED
    BY <2>1, <2>2
<1>5. CASE \A i \in 1..n : ~(ends[i] > p)
  <2>1. \A i \in 1..(n + 1) : matches[i] = {}
    BY <1>3, <1>4, <1>5
  <2>2. first = {}
    BY <1>2, <2>1
  <2>3. first_end(p, ends) = p + 1
    BY <1>2, <1>5 DEF first_end
  <2> QED
    BY <2>2, <2>3
<1>6. CASE \E i \in 1..n : ends[i] > p
  <2> DEFINE k == CHOOSE i \in DOMAIN ends : ends[i] > p /\ \A j \in 1..(i - 1) : ends[j] <= p
  <2>1. \E i \in DOMAIN ends : ends[i] > p /\ \A j \in 1..(i - 1) : ends[j] <= p
    <3> DEFINE K == {i \in Nat : i \in 1..n /\ ends[i] > p}
    <3>1. K \in SUBSET Nat /\ K # {}
      BY <1>6
    <3>2. PICK i \in K : \A j \in K : i <= j
      <4> HIDE DEF K
      <4> QED
        BY <3>1, LeastOf
    <3>3. ASSUME NEW j \in 1..(i - 1) PROVE ends[j] <= p
      <4>1. j \in 1..(n - 1) /\ ~(ends[j] > p)
        BY <3>2
      <4> QED
        BY <1>3, <4>1
    <3> QED
      BY <1>2, <3>2, <3>3
  <2>2. /\ k \in 1..n /\ ends[k] > p /\ \A j \in 1..(k - 1) : ends[j] <= p
        /\ first_end(p, ends) = ends[k]
    <3>1. k \in DOMAIN ends /\ ends[k] > p /\ \A j \in 1..(k - 1) : ends[j] <= p
      BY <2>1, Zenon
    <3>2. \E i \in DOMAIN ends : ends[i] > p
      BY <3>1
    <3>3. first_end(p, ends) = ends[k]
      BY <3>2, Zenon DEF first_end
    <3> HIDE DEF k
    <3> QED
      BY <1>2, <3>1, <3>3
  <2> HIDE DEF k
  <2>3. \A j \in 1..(k - 1) : matches[j] = {}
    BY <1>3, <2>2
  <2>4. PICK m \in {k, n + 1} :
          /\ (k < n => m = k) /\ (m = n + 1 => k = n)
          /\ Fits(matches[m], ends[k]) /\ matches[m] # {}
          /\ \A j \in 1..(m - 1) : matches[j] = {}
    <3>1. CASE k < n
      <4>1. k \in 1..(n - 1)
        BY <2>2, <3>1
      <4> QED
        BY <1>3, <2>2, <2>3, <3>1, <4>1 DEF Corresponds
    <3>2. CASE k = n /\ matches[n] # {}
      BY <2>2, <2>3, <3>2 DEF Corresponds
    <3>3. CASE k = n /\ matches[n] = {}
      <4>1. Fits(matches[n + 1], ends[k]) /\ matches[n + 1] # {}
        BY <1>4, <2>2, <3>3 DEF Corresponds
      <4>2. \A j \in 1..((n + 1) - 1) : matches[j] = {}
        BY <2>3, <3>3
      <4> QED
        BY <3>3, <4>1, <4>2
    <3> QED
      BY <2>2, <3>1, <3>2, <3>3
  <2>5. m \in 1..(n + 1)
    BY <2>2
  <2>6. first = {m}
    <3>1. m \in first
      BY <1>2, <2>4, <2>5
    <3>2. ASSUME NEW i \in first PROVE i = m
      <4>1. i \in 1..(n + 1) /\ matches[i] # {} /\ \A j \in 1..(i - 1) : matches[j] = {}
        BY <1>2
      <4>2. ~(i < m)
        BY <2>4, <2>5, <4>1
      <4>3. ~(m < i)
        BY <2>4, <2>5, <4>1
      <4> QED
        BY <2>5, <4>1, <4>2, <4>3
    <3> QED
      BY <3>1, <3>2
  <2>7. UNION {matches[i] : i \in first} = matches[m]
    BY <2>6
  <2>8. Max(matches[m]) = ends[k]
    <3>1. matches[m] \in SUBSET Int /\ ends[k] \in matches[m] /\ \A x \in matches[m] : x <= ends[k]
      BY <1>1, <2>4 DEF Fits
    <3> QED
      BY <3>1, MaxIs
  <2> HIDE DEF first
  <2>9. first # {}
    BY <2>6
  <2> QED
    BY <2>2, <2>7, <2>8, <2>9 DEF first
<1> QED
  BY <1>5, <1>6

LEMMA FirstOfAllWithin ==
  ASSUME Placed, NEW n \in Nat \ {0}, NEW ends, DOMAIN ends = 1..n,
         \A i \in 1..n : ends[i] \in p..(Len(s) + 1)
  PROVE  first_end(p, ends) \in Ends
<1>1. /\ Len(s) \in Nat /\ p \in Nat \ {0} /\ p <= Len(s) /\ Ends = (p + 1)..(Len(s) + 1)
  BY EndsAre
<1>2. CASE \A i \in DOMAIN ends : ~(ends[i] > p)
  BY <1>1, <1>2 DEF first_end
<1>3. CASE \E i \in DOMAIN ends : ends[i] > p
  <2> DEFINE K == {i \in Nat : i \in 1..n /\ ends[i] > p}
             k == CHOOSE i \in DOMAIN ends : ends[i] > p /\ \A j \in 1..(i - 1) : ends[j] <= p
  <2>1. K \in SUBSET Nat /\ K # {}
    BY <1>3
  <2>2. PICK i \in K : \A j \in K : i <= j
    <3> HIDE DEF K
    <3> QED
      BY <2>1, LeastOf
  <2>3. ASSUME NEW j \in 1..(i - 1) PROVE ends[j] <= p
    <3>1. j \in 1..n /\ ~(ends[j] > p)
      BY <2>2
    <3> QED
      BY <1>1, <3>1
  <2>4. i \in DOMAIN ends /\ ends[i] > p
    BY <2>2
  <2>5. k \in DOMAIN ends /\ ends[k] > p
    BY <2>3, <2>4, Zenon
  <2>6. first_end(p, ends) = ends[k]
    BY <1>3, Zenon DEF first_end
  <2> HIDE DEF k
  <2> QED
    BY <1>1, <2>5, <2>6
<1> QED
  BY <1>2, <1>3

\* What fits lies within the text.
LEMMA FitsWithin ==
  ASSUME Placed, NEW match, NEW e, Fits(match, e)
  PROVE  e \in p..(Len(s) + 1)
<1>1. /\ Len(s) \in Nat /\ p \in Nat \ {0} /\ p <= Len(s) /\ Ends = (p + 1)..(Len(s) + 1)
  BY EndsAre
<1>2. match = {} => e = p
  BY DEF Fits
<1>3. match # {} => e \in Ends
  BY DEF Fits
<1> QED
  BY <1>1, <1>2, <1>3

----------------------------------------------------------------------------
(* The scanners *)

LEMMA FourTwo ==
  ASSUME NEW a, NEW b, NEW c, NEW d, NEW e, NEW f
  PROVE <<a, b, c, d>> \o <<e, f>> = <<a, b, c, d, e, f>>
<1> DEFINE l == <<a, b, c, d>> \o <<e, f>>
           w == <<a, b, c, d, e, f>>
           S == {a, b, c, d, e, f}
<1>1. l \in Seq(S) /\ Len(l) = 6 /\ \A i \in 1..6 : w[i] = l[i]
  <2>1. <<a, b, c, d>> \in Seq(S) /\ <<e, f>> \in Seq(S)
    OBVIOUS
  <2> QED
    BY <2>1
<1>2. w = [i \in 1..6 |-> w[i]]
  OBVIOUS
<1> HIDE DEF l, S
<1>3. l = [i \in 1..6 |-> l[i]]
  BY <1>1
<1> HIDE DEF w
<1>4. [i \in 1..6 |-> l[i]] = [i \in 1..6 |-> w[i]]
  BY <1>1
<1>5. l = w
  BY <1>2, <1>3, <1>4
<1> QED
  BY <1>5 DEF l, w

LEMMA FiveTwo ==
  ASSUME NEW a, NEW b, NEW c, NEW d, NEW e, NEW f, NEW g
  PROVE <<a, b, c, d, e>> \o <<f, g>> = <<a, b, c, d, e, f, g>>
<1> DEFINE l == <<a, b, c, d, e>> \o <<f, g>>
           w == <<a, b, c, d, e, f, g>>
           S == {a, b, c, d, e, f, g}
<1>1. l \in Seq(S) /\ Len(l) = 7 /\ \A i \in 1..7 : w[i] = l[i]
  <2>1. <<a, b, c, d, e>> \in Seq(S) /\ <<f, g>> \in Seq(S)
    OBVIOUS
  <2> QED
    BY <2>1
<1>2. w = [i \in 1..7 |-> w[i]]
  OBVIOUS
<1> HIDE DEF l, S
<1>3. l = [i \in 1..7 |-> l[i]]
  BY <1>1
<1> HIDE DEF w
<1>4. [i \in 1..7 |-> l[i]] = [i \in 1..7 |-> w[i]]
  BY <1>1
<1>5. l = w
  BY <1>2, <1>3, <1>4
<1> QED
  BY <1>5 DEF l, w

LEMMA Gpt2Scans ==
  ASSUME Placed
  PROVE  LET ends == <<contraction(s, p, as_is), spaced(s, p, Letter), spaced(s, p, Number),
                       spaced(s, p, Other), whitespace(s, p)>>
         IN  Corresponds(5, ends, gpt2_pattern)
<1> DEFINE E1 == contraction(s, p, as_is)
           E2 == spaced(s, p, Letter)
           E3 == spaced(s, p, Number)
           E4 == spaced(s, p, Other)
           E5 == whitespace(s, p)
           M1 == suffixes(as_is)
           M2 == maybe_space(Letter)
           M3 == maybe_space(Number)
           M4 == maybe_space(Other)
           M5 == plain_whitespace[1]
           M6 == plain_whitespace[2]
<1>1. Fits(M1, E1) /\ Fits(M2, E2) /\ Fits(M3, E3) /\ Fits(M4, E4)
  BY ContractionFits, SpacedFits
<1>2. IF M5 # {} THEN Fits(M5, E5) ELSE Fits(M6, E5)
  BY WhitespaceFits
<1>3. plain_whitespace = <<M5, M6>>
  BY Zenon DEF plain_whitespace
<1>4. gpt2_pattern = <<M1, M2, M3, M4>> \o <<M5, M6>>
  BY <1>3, Zenon DEF gpt2_pattern
<1> HIDE DEF E1, E2, E3, E4, E5, M1, M2, M3, M4, M5, M6
<1>5. gpt2_pattern = <<M1, M2, M3, M4, M5, M6>>
  BY <1>4, FourTwo
<1>6. Corresponds(5, <<E1, E2, E3, E4, E5>>, <<M1, M2, M3, M4, M5, M6>>)
  <2> DEFINE ends == <<E1, E2, E3, E4, E5>>
             matches == <<M1, M2, M3, M4, M5, M6>>
  <2>1. DOMAIN ends = 1..5 /\ DOMAIN matches = 1..6
    OBVIOUS
  <2>2. /\ ends[1] = E1 /\ ends[2] = E2 /\ ends[3] = E3 /\ ends[4] = E4 /\ ends[5] = E5
        /\ matches[1] = M1 /\ matches[2] = M2 /\ matches[3] = M3 /\ matches[4] = M4
        /\ matches[5] = M5 /\ matches[6] = M6
    OBVIOUS
  <2> HIDE DEF ends, matches
  <2>3. \A i \in 1..(5 - 1) : i = 1 \/ i = 2 \/ i = 3 \/ i = 4
    OBVIOUS
  <2>4. \A i \in 1..(5 - 1) : Fits(matches[i], ends[i])
    BY <1>1, <2>2, <2>3
  <2>5. DOMAIN ends = 1..5 /\ DOMAIN matches = 1..(5 + 1) /\ matches[5 + 1] = M6
    BY <2>1, <2>2
  <2>6. IF matches[5] # {} THEN Fits(matches[5], ends[5]) ELSE Fits(matches[5 + 1], ends[5])
    BY <1>2, <2>2, <2>5
  <2>7. Corresponds(5, ends, matches)
    BY <2>4, <2>5, <2>6 DEF Corresponds
  <2> QED
    BY <2>7 DEF ends, matches
<1> QED
  BY <1>5, <1>6 DEF E1, E2, E3, E4, E5

\* The two modern expressions and their scanners differ in two alternatives.
ModernEnds(digits, newlines) ==
  <<contraction(s, p, unicode_tolower), letters(s, p), digits, punctuation(s, p), newlines,
    whitespace(s, p)>>

LEMMA ModernScans ==
  ASSUME Placed, NEW n, NEW digits, NEW newlines,
         Fits({e \in Ends : e - p <= n /\ run(p, e, Number)}, digits),
         Fits({e \in Ends : run(p, e, Whitespace) /\ s[e - 1] \in Newline}, newlines)
  PROVE  Corresponds(6, ModernEnds(digits, newlines), modern_pattern(n))
<1> DEFINE E1 == contraction(s, p, unicode_tolower)
           E2 == letters(s, p)
           E4 == punctuation(s, p)
           E6 == whitespace(s, p)
           M1 == suffixes(unicode_tolower)
           M2 == {x \in Ends : \E q \in opt(Leading) : run(q, x, Letter)}
           M3 == {e \in Ends : e - p <= n /\ run(p, e, Number)}
           M4 == {x \in Ends : \E q \in opt({Space}), m \in Ends :
                              run(q, m, Other) /\ (m = x \/ run(m, x, Newline))}
           M5 == {e \in Ends : run(p, e, Whitespace) /\ s[e - 1] \in Newline}
           M6 == plain_whitespace[1]
           M7 == plain_whitespace[2]
<1>1. Fits(M1, E1) /\ Fits(M2, E2) /\ Fits(M4, E4)
  BY ContractionFits, LettersFit, PunctuationFits
<1>2. IF M6 # {} THEN Fits(M6, E6) ELSE Fits(M7, E6)
  BY WhitespaceFits
<1>3. Fits(M3, digits) /\ Fits(M5, newlines)
  OBVIOUS
<1>4. plain_whitespace = <<M6, M7>>
  BY Zenon DEF plain_whitespace
<1>5. modern_pattern(n) = <<M1, M2, M3, M4, M5>> \o <<M6, M7>>
  BY <1>4, Zenon DEF modern_pattern
<1> HIDE DEF E1, E2, E4, E6, M1, M2, M3, M4, M5, M6, M7
<1>6. modern_pattern(n) = <<M1, M2, M3, M4, M5, M6, M7>>
  BY <1>5, FiveTwo
<1>7. Corresponds(6, <<E1, E2, digits, E4, newlines, E6>>, <<M1, M2, M3, M4, M5, M6, M7>>)
  <2> DEFINE ends == <<E1, E2, digits, E4, newlines, E6>>
             matches == <<M1, M2, M3, M4, M5, M6, M7>>
  <2>1. DOMAIN ends = 1..6 /\ DOMAIN matches = 1..7
    OBVIOUS
  <2>2. /\ ends[1] = E1 /\ ends[2] = E2 /\ ends[3] = digits /\ ends[4] = E4
        /\ ends[5] = newlines /\ ends[6] = E6
        /\ matches[1] = M1 /\ matches[2] = M2 /\ matches[3] = M3 /\ matches[4] = M4
        /\ matches[5] = M5 /\ matches[6] = M6 /\ matches[7] = M7
    OBVIOUS
  <2> HIDE DEF ends, matches
  <2>3. \A i \in 1..(6 - 1) : i = 1 \/ i = 2 \/ i = 3 \/ i = 4 \/ i = 5
    OBVIOUS
  <2>4. \A i \in 1..(6 - 1) : Fits(matches[i], ends[i])
    BY <1>1, <1>3, <2>2, <2>3
  <2>5. DOMAIN ends = 1..6 /\ DOMAIN matches = 1..(6 + 1) /\ matches[6 + 1] = M7
    BY <2>1, <2>2
  <2>6. IF matches[6] # {} THEN Fits(matches[6], ends[6]) ELSE Fits(matches[6 + 1], ends[6])
    BY <1>2, <2>2, <2>5
  <2>7. Corresponds(6, ends, matches)
    BY <2>4, <2>5, <2>6 DEF Corresponds
  <2> QED
    BY <2>7 DEF ends, matches
<1> QED
  BY <1>6, <1>7, Zenon DEF ModernEnds, E1, E2, E4, E6

LEMMA ScansAsMatched ==
  ASSUME Placed, splitter \in {"gpt2", "llama3", "qwen3"}, splitter = "qwen3" => ~SplitNewlines
  PROVE  piece_end(splitter, s, p) = pattern_end
<1> DEFINE ends5 == <<contraction(s, p, as_is), spaced(s, p, Letter), spaced(s, p, Number),
                       spaced(s, p, Other), whitespace(s, p)>>
<1>1. ASSUME NEW n \in Nat \ {0}, NEW ends, Corresponds(n, ends, pattern)
      PROVE  first_end(p, ends) = pattern_end
  <2> HIDE DEF ends5
  <2> QED
    BY <1>1, FirstOfAll, Zenon DEF pattern_end
<1>2. CASE splitter = "gpt2"
  <2>1. pattern = gpt2_pattern
    BY <1>2 DEF pattern
  <2>2. piece_end(splitter, s, p) = first_end(p, ends5)
    BY <1>2, "gpt2" # "llama3" DEF piece_end, gpt2
  <2>3. Corresponds(5, ends5, gpt2_pattern)
    BY Gpt2Scans
  <2> HIDE DEF ends5
  <2> QED
    BY <1>1, <2>1, <2>2, <2>3
<1>3. CASE splitter = "llama3"
  <2>1. pattern = modern_pattern(3)
    BY <1>3 DEF pattern
  <2>2. piece_end(splitter, s, p)
          = first_end(p, ModernEnds(numbers(s, p), to_last_newline(s, p)))
    BY <1>3 DEF piece_end, llama3, ModernEnds
  <2>3. Corresponds(6, ModernEnds(numbers(s, p), to_last_newline(s, p)), modern_pattern(3))
    BY ModernScans, NumbersFit, LastNewlineFits
  <2> QED
    BY <1>1, <2>1, <2>2, <2>3
<1>4. CASE splitter = "qwen3"
  <2>1. pattern = modern_pattern(1)
    BY <1>4 DEF pattern
  <2>2. piece_end(splitter, s, p)
          = first_end(p, ModernEnds(number(s, p), to_first_newlines(s, p)))
    BY <1>4 DEF piece_end, qwen3, ModernEnds
  <2>3. Corresponds(6, ModernEnds(number(s, p), to_first_newlines(s, p)), modern_pattern(1))
    BY <1>4, ModernScans, NumbersFit, FirstNewlinesFit
  <2> QED
    BY <1>1, <2>1, <2>2, <2>3
<1> QED
  BY <1>2, <1>3, <1>4

\* A scanner moves on, and stays in the text.
LEMMA PiecesWithin ==
  ASSUME Placed, splitter \in {"gpt2", "llama3", "qwen3"}
  PROVE  piece_end(splitter, s, p) \in Ends
<1> DEFINE Within(e) == e \in p..(Len(s) + 1)
<1>1. /\ Within(contraction(s, p, as_is)) /\ Within(contraction(s, p, unicode_tolower))
      /\ Within(letters(s, p)) /\ Within(numbers(s, p)) /\ Within(number(s, p))
      /\ Within(punctuation(s, p)) /\ Within(to_last_newline(s, p))
  BY FitsWithin, ContractionFits, LettersFit, NumbersFit, PunctuationFits, LastNewlineFits
<1>2. Within(to_first_newlines(s, p))
  BY FirstNewlinesFit
<1>3. Within(whitespace(s, p))
  <2> DEFINE e == whitespace(s, p)
  <2>1. \E m : Fits(m, e)
    BY WhitespaceFits
  <2> HIDE DEF e
  <2>2. Within(e)
    BY <2>1, FitsWithin
  <2> QED
    BY <2>2 DEF e
<1>4. Within(spaced(s, p, Letter)) /\ Within(spaced(s, p, Number)) /\ Within(spaced(s, p, Other))
  <2>1. \A C \in {Letter, Number, Other} : Within(spaced(s, p, C))
    BY SpacedFits, FitsWithin
  <2> QED
    BY <2>1
<1>5. ASSUME NEW a, NEW b, NEW c, NEW d, NEW e,
             Within(a), Within(b), Within(c), Within(d), Within(e)
      PROVE  first_end(p, <<a, b, c, d, e>>) \in Ends
  <2> DEFINE ends == <<a, b, c, d, e>>
  <2>1. DOMAIN ends = 1..5 /\ 5 \in Nat \ {0}
    OBVIOUS
  <2>2. ends[1] = a /\ ends[2] = b /\ ends[3] = c /\ ends[4] = d /\ ends[5] = e
    OBVIOUS
  <2> HIDE DEF ends
  <2>3. \A i \in 1..5 : i = 1 \/ i = 2 \/ i = 3 \/ i = 4 \/ i = 5
    OBVIOUS
  <2>4. \A i \in 1..5 : Within(ends[i])
    BY <1>5, <2>2, <2>3
  <2>5. \A i \in 1..5 : ends[i] \in p..(Len(s) + 1)
    BY <2>4
  <2> HIDE DEF Within
  <2>6. first_end(p, ends) \in Ends
    BY <2>1, <2>5, FirstOfAllWithin
  <2> QED
    BY <2>6 DEF ends
<1>6. ASSUME NEW a, NEW b, NEW c, NEW d, NEW e, NEW f,
             Within(a), Within(b), Within(c), Within(d), Within(e), Within(f)
      PROVE  first_end(p, <<a, b, c, d, e, f>>) \in Ends
  <2> DEFINE ends == <<a, b, c, d, e, f>>
  <2>1. DOMAIN ends = 1..6 /\ 6 \in Nat \ {0}
    OBVIOUS
  <2>2. ends[1] = a /\ ends[2] = b /\ ends[3] = c /\ ends[4] = d /\ ends[5] = e /\ ends[6] = f
    OBVIOUS
  <2> HIDE DEF ends
  <2>3. \A i \in 1..6 : i = 1 \/ i = 2 \/ i = 3 \/ i = 4 \/ i = 5 \/ i = 6
    OBVIOUS
  <2>4. \A i \in 1..6 : Within(ends[i])
    BY <1>6, <2>2, <2>3
  <2>5. \A i \in 1..6 : ends[i] \in p..(Len(s) + 1)
    BY <2>4
  <2> HIDE DEF Within
  <2>6. first_end(p, ends) \in Ends
    BY <2>1, <2>5, FirstOfAllWithin
  <2> QED
    BY <2>6 DEF ends
<1> HIDE DEF Within
<1>7. CASE splitter = "gpt2"
  BY <1>1, <1>3, <1>4, <1>5, <1>7 DEF piece_end, gpt2
<1>8. CASE splitter = "llama3"
  BY <1>1, <1>3, <1>6, <1>8 DEF piece_end, llama3
<1>9. CASE splitter = "qwen3"
  BY <1>1, <1>2, <1>3, <1>6, <1>9 DEF piece_end, qwen3
<1> QED
  BY <1>7, <1>8, <1>9

----------------------------------------------------------------------------
(* The specification *)

ScanInv ==
  /\ splitter \in Kinds
  /\ regions \in Seq(Seq(Codepoint))
  /\ p \in Nat \ {0}

LEMMA ScanInvHolds ==
  Spec => []ScanInv
<1>1. Init => ScanInv
  <2> SUFFICES ASSUME Init PROVE ScanInv
    OBVIOUS
  <2>1. PICK text \in Texts : regions \in Cuts(text)
    BY DEF Init
  <2>2. text \in Seq(Codepoint)
    <3>1. PICK n \in 1..MaxText : text \in [1..n -> Alphabet]
      BY <2>1 DEF Texts
    <3>2. n \in Nat
      OBVIOUS
    <3>3. text \in [1..n -> Codepoint]
      BY <3>1, AlphabetAssumption
    <3> QED
      BY <3>2, <3>3
  <2>3. CASE regions = <<text>>
    BY <2>2, <2>3 DEF ScanInv, Init
  <2>4. CASE \E i \in 1..(Len(text) - 1) :
               regions = <<SubSeq(text, 1, i), SubSeq(text, i + 1, Len(text))>>
    <3>1. PICK i \in 1..(Len(text) - 1) :
               regions = <<SubSeq(text, 1, i), SubSeq(text, i + 1, Len(text))>>
      BY <2>4
    <3>2. SubSeq(text, 1, i) \in Seq(Codepoint) /\ SubSeq(text, i + 1, Len(text)) \in Seq(Codepoint)
      BY <2>2
    <3> QED
      BY <3>1, <3>2 DEF ScanInv, Init
  <2> QED
    BY <2>1, <2>3, <2>4 DEF Cuts
<1>2. ScanInv /\ [Next]_vars => ScanInv'
  <2> SUFFICES ASSUME ScanInv, [Next]_vars PROVE ScanInv'
    OBVIOUS
  <2>1. CASE AddPiece
    <3>1. Placed
      BY <2>1 DEF ScanInv, AddPiece, Scanning, Placed, s
    <3>2. p' = piece_end(splitter, s, p)
      BY <2>1 DEF AddPiece
    <3>3. p' \in Ends
      BY <3>1, <3>2, PiecesWithin, KindsAssumption DEF ScanInv
    <3> QED
      BY <2>1, <3>1, <3>3, EndsAre DEF ScanInv, AddPiece
  <2>2. CASE NextRegion
    BY <2>2 DEF ScanInv, NextRegion
  <2>3. CASE UNCHANGED vars
    BY <2>3 DEF ScanInv, vars
  <2> QED
    BY <2>1, <2>2, <2>3 DEF Next
<1> QED
  BY <1>1, <1>2, PTL DEF Spec

(* Every piece that the scanners cut off is the one their regular           *)
(* expressions match there, for texts of any length over any code points,   *)
(* the Qwen3 scanner where white space holds at most one run of newlines    *)
(* (unicode.cpp, the custom splitters against the expressions in their      *)
(* comments).                                                               *)
THEOREM PiecesFollowPattern ==
  Spec => []FollowsPattern
<1>1. ScanInv => FollowsPattern
  <2> SUFFICES ASSUME ScanInv, Scanning, ~(splitter = "qwen3" /\ SplitNewlines)
               PROVE  piece_end(splitter, s, p) = pattern_end
    BY DEF FollowsPattern
  <2>1. Placed
    BY DEF ScanInv, Scanning, Placed, s
  <2>2. splitter \in {"gpt2", "llama3", "qwen3"}
    BY KindsAssumption DEF ScanInv
  <2> QED
    BY <2>1, <2>2, ScansAsMatched
<1> QED
  BY <1>1, ScanInvHolds, PTL

----------------------------------------------------------------------------
(* The merge loop of tiktoken *)

String == Seq(Letters)
Part == [first : Int, rank : Nat]

\* The rank of a key in the table.
rank_of(m, key) ==
  LET found == {r \in DOMAIN m : Merging!Product(m[r]) = key}
  IN IF found = {} THEN Merging!NoRank ELSE Merging!Min(found)

LEMMA RankIs ==
  ASSUME NEW m, NEW t, NEW ps, NEW i, NEW k
  PROVE  Merging!get_rank(m, t, ps, i, k) =
           IF i + k + 2 > Len(ps) THEN 0
           ELSE rank_of(m, SubSeq(t, ps[i].first, ps[i + k + 2].first - 1))
BY Zenon DEF Merging!get_rank, Merging!NoRank, rank_of

LEMMA MinIn ==
  ASSUME NEW S \in SUBSET Nat, S # {}
  PROVE  Merging!Min(S) \in S
<1>1. PICK x \in S : \A y \in S : x <= y
  BY LeastOf
<1>2. Merging!Min(S) = CHOOSE x2 \in S : \A y \in S : x2 <= y
  BY Zenon DEF Merging!Min
<1> QED
  BY <1>1, <1>2, Zenon

LEMMA RanksAreNumbers ==
  ASSUME NEW m, DOMAIN m \subseteq Nat, NEW key
  PROVE  rank_of(m, key) \in Nat
<1> DEFINE found == {r \in DOMAIN m : Merging!Product(m[r]) = key}
<1>1. found \in SUBSET Nat
  OBVIOUS
<1>2. rank_of(m, key) = IF found = {} THEN 0 ELSE Merging!Min(found)
  BY Zenon DEF rank_of, Merging!NoRank
<1> HIDE DEF found
<1>3. CASE found = {}
  BY <1>2, <1>3
<1>4. CASE found # {}
  <2>1. Merging!Min(found) \in found
    BY <1>1, <1>4, MinIn
  <2> QED
    BY <1>1, <1>2, <1>4, <2>1
<1> QED
  BY <1>3, <1>4

LEMMA LowestPart ==
  ASSUME NEW ps \in Seq(Part), Merging!min_part(ps) # 0
  PROVE  Merging!min_part(ps) \in DOMAIN ps /\ ps[Merging!min_part(ps)].rank # 0
<1> DEFINE ranks == {ps[i].rank : i \in DOMAIN ps} \ {0}
           lowest == {i \in DOMAIN ps : ps[i].rank = Merging!Min(ranks)}
<1>1. Merging!min_part(ps) = IF ranks = {} THEN 0 ELSE Merging!Min(lowest)
  BY Zenon DEF Merging!min_part, Merging!NoRank
<1>0. \A i \in DOMAIN ps : i \in Nat /\ ps[i].rank \in Nat
  <2> TAKE i \in DOMAIN ps
  <2>1. ps[i] \in Part /\ i \in Nat
    OBVIOUS
  <2> QED
    BY <2>1 DEF Part
<1>2. ranks \in SUBSET Nat /\ ranks # {}
  BY <1>0, <1>1
<1>3. Merging!Min(ranks) \in ranks
  <2> HIDE DEF ranks
  <2> QED
    BY <1>2, MinIn
<1>4. lowest \in SUBSET Nat /\ lowest # {}
  <2>1. \E i \in DOMAIN ps : ps[i].rank = Merging!Min(ranks)
    BY <1>3
  <2> HIDE DEF ranks
  <2> QED
    BY <1>0, <2>1
<1>5. Merging!Min(lowest) \in lowest
  <2> HIDE DEF lowest
  <2> QED
    BY <1>4, MinIn
<1>6. Merging!min_part(ps) \in lowest
  BY <1>1, <1>2, <1>5
<1> QED
  BY <1>3, <1>6

\* What is known about the tables: pairs of strings by rank.
Table == Seq(String \X String)

Known(t) == {<<x>> : x \in Letters} \cup {Merging!Product(t[i]) : i \in DOMAIN t}
Grown(T) ==
  T \cup UNION {{Merging!Append(t, pair) :
                   pair \in {q \in Known(t) \X Known(t) : Merging!Product(q) \notin Known(t)}} :
                t \in T}

\* The tables of n merges at most.
Grows(f, n) == f = [k \in 0..n |-> IF k = 0 THEN {<<>>} ELSE Grown(f[k - 1])]

LEMMA GrowsExists ==
  ASSUME NEW n \in Nat
  PROVE  \E f : Grows(f, n)
<1> DEFINE K == {k \in Nat : ~ \E f : Grows(f, k)}
<1>1. SUFFICES ASSUME K # {} PROVE FALSE
  OBVIOUS
<1>2. PICK k \in K : \A j \in K : k <= j
  <2>1. K \in SUBSET Nat
    OBVIOUS
  <2> HIDE DEF K
  <2> QED
    BY <1>1, <2>1, LeastOf
<1>3. k \in Nat /\ ~ \E f : Grows(f, k)
  OBVIOUS
<1>4. k # 0
  <2>1. Grows([j \in 0..0 |-> {<<>>}], 0)
    BY DEF Grows
  <2> QED
    BY <1>3, <2>1
<1>5. PICK f : Grows(f, k - 1)
  <2>1. k - 1 \in Nat /\ ~(k <= k - 1)
    BY <1>3, <1>4
  <2> QED
    BY <1>2, <2>1
<1> DEFINE g == [j \in 0..k |-> IF j = k THEN Grown(f[k - 1]) ELSE f[j]]
<1>6. \A j \in 0..(k - 1) : f[j] = IF j = 0 THEN {<<>>} ELSE Grown(f[j - 1])
  BY <1>5 DEF Grows
<1>7. \A j \in 0..k : g[j] = IF j = 0 THEN {<<>>} ELSE Grown(g[j - 1])
  <2> TAKE j \in 0..k
  <2>1. CASE j = k
    <3>1. g[j] = Grown(f[k - 1]) /\ j # 0
      BY <1>3, <1>4, <2>1
    <3>2. g[j - 1] = f[k - 1]
      BY <1>3, <1>4, <2>1
    <3> HIDE DEF g
    <3> QED
      BY <3>1, <3>2
  <2>2. CASE j # k
    <3>1. j \in 0..(k - 1) /\ g[j] = f[j]
      BY <1>3, <2>2
    <3>2. j # 0 => g[j - 1] = f[j - 1]
      BY <1>3, <2>2
    <3> HIDE DEF g
    <3> QED
      BY <1>6, <3>1, <3>2
  <2> QED
    BY <2>1, <2>2
<1>8. Grows(g, k)
  <2>1. g = [j \in 0..k |-> g[j]]
    OBVIOUS
  <2> HIDE DEF g
  <2>2. [j \in 0..k |-> g[j]] = [j \in 0..k |-> IF j = 0 THEN {<<>>} ELSE Grown(g[j - 1])]
    BY <1>7
  <2> QED
    BY <2>1, <2>2, Zenon DEF Grows
<1> QED
  BY <1>3, <1>8

LEMMA StringsKnown ==
  ASSUME NEW t \in Table
  PROVE  Known(t) \subseteq String
<1>1. \A x \in Letters : <<x>> \in String
  BY DEF String
<1>2. \A i \in DOMAIN t : Merging!Product(t[i]) \in String
  <2> TAKE i \in DOMAIN t
  <2>1. t[i] \in String \X String
    BY DEF Table
  <2>2. t[i][1] \in String /\ t[i][2] \in String
    BY <2>1
  <2> QED
    BY <2>2 DEF Merging!Product, String
<1> QED
  BY <1>1, <1>2 DEF Known

LEMMA TablesAreTables ==
  ASSUME MaxMerges \in Nat
  PROVE  Merging!Tables \subseteq Table
<1> DEFINE f == CHOOSE f : Grows(f, MaxMerges)
<1>1. Grows(f, MaxMerges)
  <2>1. \E g : Grows(g, MaxMerges)
    BY GrowsExists
  <2> QED
    BY <2>1, Zenon
<1>2. Merging!Tables = f[MaxMerges]
  BY Zenon DEF Merging!Tables, Grows, Grown, Known
<1> HIDE DEF f
<1>3. \A k \in 0..MaxMerges : f[k] = IF k = 0 THEN {<<>>} ELSE Grown(f[k - 1])
  BY <1>1 DEF Grows
<1> DEFINE K == {k \in Nat : k <= MaxMerges /\ ~(f[k] \subseteq Table)}
<1>4. SUFFICES ASSUME K # {} PROVE FALSE
  BY <1>2
<1>5. PICK k \in K : \A j \in K : k <= j
  <2>1. K \in SUBSET Nat
    OBVIOUS
  <2> HIDE DEF K
  <2> QED
    BY <1>4, <2>1, LeastOf
<1>6. k \in 0..MaxMerges /\ ~(f[k] \subseteq Table)
  OBVIOUS
<1>7. k # 0
  <2>1. <<>> \in Table
    BY DEF Table
  <2> QED
    BY <1>3, <1>6, <2>1
<1>8. f[k - 1] \subseteq Table
  BY <1>5, <1>6, <1>7
<1>9. ASSUME NEW t \in Table, NEW pair \in Known(t) \X Known(t)
      PROVE  Merging!Append(t, pair) \in Table
  <2>1. pair \in String \X String
    BY StringsKnown
  <2> QED
    BY <2>1 DEF Table
<1>10. f[k] = Grown(f[k - 1])
  BY <1>3, <1>6, <1>7
<1>11. Grown(f[k - 1]) \subseteq Table
  <2>1. ASSUME NEW x \in Grown(f[k - 1]) PROVE x \in Table
    <3> HIDE DEF K
    <3>1. CASE x \in f[k - 1]
      BY <1>8, <3>1
    <3>2. CASE x \notin f[k - 1]
      <4>1. \E t \in f[k - 1] : \E pair \in Known(t) \X Known(t) : x = Merging!Append(t, pair)
        BY <3>2, Zenon DEF Grown
      <4> QED
        BY <1>8, <1>9, <4>1
    <3> QED
      BY <3>1, <3>2
  <2> QED
    BY <2>1
<1> QED
  BY <1>6, <1>10, <1>11

MergeInv ==
  /\ merges \in Table
  /\ parts \in Seq(Part)
  /\ Merging!CachedRanksFresh

\* Fresh ranks by the keys they are found under.
LEMMA FreshIs ==
  ASSUME DOMAIN parts = 1..Len(parts)
  PROVE  Merging!CachedRanksFresh <=>
           \A i \in 1..Len(parts) :
              parts[i].rank = IF i + 2 > Len(parts) THEN 0
                 ELSE rank_of(merges, SubSeq(piece, parts[i].first, parts[i + 2].first - 1))
<1>1. Len(parts) \in Int
  OBVIOUS
<1>2. \A i \in 1..Len(parts) : i + 0 + 2 = i + 2
  BY <1>1
<1> QED
  BY <1>2, RankIs, Zenon DEF Merging!CachedRanksFresh

LEMMA BothOf ==
  ASSUME NEW S, NEW a \in Seq(S), NEW b \in Seq(S)
  PROVE  /\ a \o b \in Seq(S) /\ Len(a \o b) = Len(a) + Len(b)
         /\ \A j \in 1..(Len(a) + Len(b)) :
              (a \o b)[j] = IF j <= Len(a) THEN a[j] ELSE b[j - Len(a)]
OBVIOUS

LEMMA RemoveIs ==
  ASSUME NEW ps \in Seq(Part), NEW m \in 1..(Len(ps) - 1)
  PROVE  LET qs == Merging!RemoveAt(ps, m + 1)
         IN  /\ qs \in Seq(Part) /\ Len(qs) = Len(ps) - 1
             /\ \A j \in 1..(Len(ps) - 1) : qs[j] = IF j <= m THEN ps[j] ELSE ps[j + 1]
<1> DEFINE l == SubSeq(ps, 1, (m + 1) - 1)
           r == SubSeq(ps, (m + 1) + 1, Len(ps))
           n == Len(ps)
<1>1. l \in Seq(Part) /\ Len(l) = m /\ \A j \in 1..m : l[j] = ps[j]
  OBVIOUS
<1>2. r \in Seq(Part) /\ Len(r) = n - m - 1 /\ \A j \in 1..(n - m - 1) : r[j] = ps[j + m + 1]
  OBVIOUS
<1>3. Merging!RemoveAt(ps, m + 1) = l \o r
  BY Zenon DEF Merging!RemoveAt
<1>4. n \in Nat /\ m \in Nat /\ m >= 1 /\ m <= n - 1
  OBVIOUS
<1> HIDE DEF l, r, n
<1>5. l \o r \in Seq(Part) /\ Len(l \o r) = n - 1
  <2>1. l \o r \in Seq(Part) /\ Len(l \o r) = Len(l) + Len(r)
    BY <1>1, <1>2, BothOf
  <2> QED
    BY <1>1, <1>2, <1>4, <2>1
<1>6. ASSUME NEW j \in 1..(n - 1) PROVE (l \o r)[j] = IF j <= m THEN ps[j] ELSE ps[j + 1]
  <2>1. (l \o r)[j] = IF j <= m THEN l[j] ELSE r[j - m]
    <3>1. j \in 1..(Len(l) + Len(r))
      BY <1>1, <1>2, <1>4
    <3>2. l \in Seq(Part) /\ r \in Seq(Part) /\ Len(l) = m
      BY <1>1, <1>2
    <3>3. (l \o r)[j] = IF j <= Len(l) THEN l[j] ELSE r[j - Len(l)]
      BY <3>1, <3>2, BothOf, Zenon
    <3> QED
      BY <3>2, <3>3, Zenon
  <2>2. CASE j <= m
    BY <1>1, <1>4, <2>1, <2>2
  <2>3. CASE j > m
    <3>1. j - m \in 1..(n - m - 1) /\ (j - m) + m + 1 = j + 1
      BY <1>4, <2>3
    <3>2. r[j - m] = ps[(j - m) + m + 1]
      BY <1>2, <3>1
    <3> QED
      BY <1>4, <2>1, <2>3, <3>1, <3>2
  <2>4. j <= m \/ j > m
    BY <1>4
  <2>5. j > m => ~(j <= m)
    BY <1>4
  <2> QED
    BY <2>2, <2>3, <2>4, <2>5, Zenon
<1> QED
  BY <1>3, <1>5, <1>6 DEF n

LEMMA RefreshedIs ==
  ASSUME NEW m, DOMAIN m \subseteq Nat, NEW t, NEW ps \in Seq(Part), NEW i
  PROVE  LET rs == Merging!refreshed(m, t, ps, i)
         IN  /\ rs \in Seq(Part) /\ Len(rs) = Len(ps)
             /\ \A j \in 1..Len(ps) :
                  /\ rs[j].first = ps[j].first
                  /\ j \notin {i, i - 1} => rs[j] = ps[j]
                  /\ j \in {i, i - 1} =>
                      rs[j].rank = IF j + 3 > Len(ps) THEN 0
                                   ELSE rank_of(m, SubSeq(t, ps[j].first, ps[j + 3].first - 1))
<1> DEFINE G(j) == Merging!get_rank(m, t, ps, j, 1)
           rs == [j \in 1..Len(ps) |-> IF j \in {i, i - 1}
                                       THEN [ps[j] EXCEPT !.rank = G(j)] ELSE ps[j]]
<1>1. Merging!refreshed(m, t, ps, i) = rs
  <2>1. DOMAIN ps = 1..Len(ps)
    OBVIOUS
  <2> QED
    BY <2>1, Zenon DEF Merging!refreshed
<1>2. \A j \in 1..Len(ps) :
        G(j) = IF j + 3 > Len(ps) THEN 0
               ELSE rank_of(m, SubSeq(t, ps[j].first, ps[j + 3].first - 1))
  <2>1. \A j \in 1..Len(ps) : j + 1 + 2 = j + 3
    OBVIOUS
  <2> QED
    BY <2>1, RankIs, Zenon
<1>3. \A j \in 1..Len(ps) : G(j) \in Nat
  BY <1>2, RanksAreNumbers
<1> HIDE DEF G
<1>4. \A j \in 1..Len(ps) :
        /\ rs[j] \in Part /\ rs[j].first = ps[j].first
        /\ j \notin {i, i - 1} => rs[j] = ps[j]
        /\ j \in {i, i - 1} => rs[j].rank = G(j)
  <2> TAKE j \in 1..Len(ps)
  <2>1. ps[j] \in Part /\ G(j) \in Nat
    BY <1>3
  <2>2. /\ [ps[j] EXCEPT !.rank = G(j)] \in Part
        /\ [ps[j] EXCEPT !.rank = G(j)].first = ps[j].first
        /\ [ps[j] EXCEPT !.rank = G(j)].rank = G(j)
    BY <2>1 DEF Part
  <2>3. rs[j] = IF j \in {i, i - 1} THEN [ps[j] EXCEPT !.rank = G(j)] ELSE ps[j]
    OBVIOUS
  <2> HIDE DEF rs
  <2> QED
    BY <2>1, <2>2, <2>3, Zenon
<1>5. rs \in Seq(Part) /\ Len(rs) = Len(ps)
  <2>1. Len(ps) \in Nat
    OBVIOUS
  <2>2. DOMAIN rs = 1..Len(ps) /\ rs \in [1..Len(ps) -> Part]
    BY <1>4
  <2> HIDE DEF rs
  <2> QED
    BY <2>1, <2>2
<1> HIDE DEF rs
<1> QED
  BY <1>1, <1>2, <1>4, <1>5

\* A round of the loop.
LEMMA RoundKeepsFresh ==
  ASSUME MergeInv, Merging!MergeParts
  PROVE  MergeInv'
<1> DEFINE m == Merging!min_part(parts)
           rs == Merging!refreshed(merges, piece, parts, m)
           n == Len(parts)
           R(i, j) == rank_of(merges, SubSeq(piece, i, j - 1))
<1>1. /\ parts \in Seq(Part) /\ DOMAIN parts = 1..n /\ n \in Nat
      /\ DOMAIN merges \subseteq Nat /\ merges \in Table
  BY DEF MergeInv, Table
<1>2. m # 0 /\ parts' = Merging!RemoveAt(rs, m + 1) /\ merges' = merges /\ piece' = piece
  BY Zenon DEF Merging!MergeParts
<1>3. \A i \in 1..n : parts[i].rank = IF i + 2 > n THEN 0
                                       ELSE R(parts[i].first, parts[i + 2].first)
  BY <1>1, FreshIs DEF MergeInv
<1>4. m \in 1..n /\ parts[m].rank # 0
  BY <1>1, <1>2, LowestPart
<1>5. m + 2 <= n /\ m \in Nat \ {0}
  BY <1>1, <1>3, <1>4
<1>6. /\ rs \in Seq(Part) /\ Len(rs) = n
      /\ \A j \in 1..n : /\ rs[j].first = parts[j].first
                         /\ j \notin {m, m - 1} => rs[j] = parts[j]
                         /\ j \in {m, m - 1} =>
                             rs[j].rank = IF j + 3 > n THEN 0
                                          ELSE R(parts[j].first, parts[j + 3].first)
  BY <1>1, RefreshedIs
<1> HIDE DEF rs, m, n, R
<1>7. /\ parts' \in Seq(Part) /\ Len(parts') = n - 1
      /\ \A j \in 1..(n - 1) : parts'[j] = IF j <= m THEN rs[j] ELSE rs[j + 1]
  <2>1. m \in 1..(Len(rs) - 1)
    BY <1>1, <1>5, <1>6
  <2> QED
    BY <1>2, <1>6, <2>1, RemoveIs
<1>8. \A j \in 1..(n - 1) : parts'[j].first = IF j <= m THEN parts[j].first ELSE parts[j + 1].first
  <2> TAKE j \in 1..(n - 1)
  <2>1. j \in 1..n /\ j + 1 \in 1..n
    BY <1>1
  <2>2. rs[j].first = parts[j].first /\ rs[j + 1].first = parts[j + 1].first
    BY <1>6, <2>1
  <2>3. parts'[j] = IF j <= m THEN rs[j] ELSE rs[j + 1]
    BY <1>7
  <2> QED
    BY <2>2, <2>3
<1>9. ASSUME NEW i \in 1..(n - 1)
      PROVE  parts'[i].rank = IF i + 2 > n - 1 THEN 0
                              ELSE R(parts'[i].first, parts'[i + 2].first)
  <2>0. i \in Nat /\ i >= 1 /\ i <= n - 1
    BY <1>1
  <2>1. CASE i < m - 1
    <3>1. parts'[i] = parts[i] /\ ~(i + 2 > n - 1) /\ ~(i + 2 > n)
      BY <1>1, <1>5, <1>6, <1>7, <2>0, <2>1
    <3>2. parts'[i].first = parts[i].first /\ parts'[i + 2].first = parts[i + 2].first
      BY <1>1, <1>5, <1>8, <2>0, <2>1
    <3> QED
      BY <1>1, <1>3, <2>0, <3>1, <3>2
  <2>2. CASE i \in {m, m - 1}
    <3>1. parts'[i] = rs[i] /\ (i + 2 > n - 1 <=> i + 3 > n)
      BY <1>1, <1>5, <1>7, <2>0, <2>2
    <3>2. parts'[i].first = parts[i].first
      BY <1>1, <1>5, <1>8, <2>0, <2>2
    <3>3. i + 3 <= n => parts'[i + 2].first = parts[i + 3].first
      <4>1. i + 3 <= n => i + 2 \in 1..(n - 1) /\ ~(i + 2 <= m) /\ (i + 2) + 1 = i + 3
        BY <1>1, <1>5, <2>0, <2>2
      <4> QED
        BY <1>8, <4>1
    <3>4. rs[i].rank = IF i + 3 > n THEN 0 ELSE R(parts[i].first, parts[i + 3].first)
      BY <1>1, <1>6, <2>0, <2>2
    <3> QED
      BY <1>1, <2>0, <3>1, <3>2, <3>3, <3>4
  <2>3. CASE i > m
    <3>1. parts'[i] = parts[i + 1] /\ (i + 2 > n - 1 <=> (i + 1) + 2 > n)
      <4>1. i + 1 \in 1..n /\ i + 1 \notin {m, m - 1} /\ ~(i <= m)
        BY <1>1, <1>5, <2>0, <2>3
      <4> QED
        BY <1>1, <1>6, <1>7, <2>0, <4>1
    <3>2. i + 2 <= n - 1 => parts'[i + 2].first = parts[(i + 1) + 2].first
      <4>1. i + 2 <= n - 1 => i + 2 \in 1..(n - 1) /\ ~(i + 2 <= m) /\ (i + 2) + 1 = (i + 1) + 2
        BY <1>1, <1>5, <2>0, <2>3
      <4> QED
        BY <1>8, <4>1
    <3>3. parts[i + 1].rank = IF (i + 1) + 2 > n THEN 0
                              ELSE R(parts[i + 1].first, parts[(i + 1) + 2].first)
      BY <1>1, <1>3, <2>0
    <3> QED
      BY <1>1, <2>0, <3>1, <3>2, <3>3
  <2> QED
    BY <1>5, <2>0, <2>1, <2>2, <2>3
<1>10. Merging!CachedRanksFresh'
  <2>1. Len(parts') = n - 1 /\ DOMAIN parts' = 1..Len(parts')
    BY <1>1, <1>7
  <2>2. \A i \in 1..Len(parts') :
           parts'[i].rank = IF i + 2 > Len(parts') THEN 0
                 ELSE rank_of(merges', SubSeq(piece', parts'[i].first, parts'[i + 2].first - 1))
    BY <1>2, <1>9, <2>1 DEF R
  <2>3. \A i \in 1..Len(parts') : i + 0 + 2 = i + 2
    BY <1>1, <2>1
  <2>4. \A i \in DOMAIN parts' : parts'[i].rank = Merging!get_rank(merges', piece', parts', i, 0)
    BY <2>1, <2>2, <2>3, RankIs, Zenon
  <2> QED
    BY <2>4, Zenon DEF Merging!CachedRanksFresh
<1> QED
  BY <1>1, <1>2, <1>7, <1>10 DEF MergeInv

LEMMA FreshAtFirst ==
  ASSUME MaxMerges \in Nat, Merging!Init
  PROVE  MergeInv
<1> DEFINE n == Len(piece) + 1
           bare == [i \in 1..n |-> [first |-> i, rank |-> 0]]
           R(i, j) == rank_of(merges, SubSeq(piece, i, j - 1))
<1>1. merges \in Table /\ DOMAIN merges \subseteq Nat
  BY TablesAreTables DEF Merging!Init, Table
<1>2. Len(piece) \in Nat /\ n \in Nat
  <2>1. PICK l \in 2..MaxPiece : piece \in [1..l -> Letters]
    BY DEF Merging!Init
  <2> QED
    BY <2>1
<1>3. Len(bare) = n /\ DOMAIN bare = 1..n
  BY <1>2
<1>4. parts = [i \in 1..n |->
                 IF i <= n - 2 THEN [bare[i] EXCEPT !.rank = Merging!get_rank(merges, piece, bare, i, 0)]
                 ELSE bare[i]]
  <2>1. parts = Merging!initial_parts(merges, piece)
    BY Zenon DEF Merging!Init
  <2>2. bare = [i \in 1..n |-> [first |-> i, rank |-> Merging!NoRank]]
    BY DEF Merging!NoRank
  <2>3. Merging!initial_parts(merges, piece) =
          [i \in DOMAIN bare |->
             IF i <= Len(bare) - 2
             THEN [bare[i] EXCEPT !.rank = Merging!get_rank(merges, piece, bare, i, 0)]
             ELSE bare[i]]
    BY <2>2, Zenon DEF Merging!initial_parts
  <2> HIDE DEF bare
  <2> QED
    BY <1>3, <2>1, <2>3, Zenon
<1>5. \A i \in 1..n : i <= n - 2 => Merging!get_rank(merges, piece, bare, i, 0) = R(i, i + 2)
  <2> TAKE i \in 1..n
  <2> HAVE i <= n - 2
  <2>1. bare[i].first = i /\ bare[i + 2].first = i + 2 /\ i + 0 + 2 = i + 2 /\ ~(i + 2 > n)
    BY <1>2
  <2>2. Merging!get_rank(merges, piece, bare, i, 0)
          = IF i + 0 + 2 > Len(bare) THEN 0
            ELSE rank_of(merges, SubSeq(piece, bare[i].first, bare[i + 0 + 2].first - 1))
    BY RankIs, Zenon
  <2> HIDE DEF bare
  <2> QED
    BY <1>3, <2>1, <2>2
<1>6. \A i, j : R(i, j) \in Nat
  BY <1>1, RanksAreNumbers
<1> HIDE DEF R
<1>7. \A i \in 1..n : /\ parts[i] \in Part /\ parts[i].first = i
                      /\ parts[i].rank = IF i + 2 > n THEN 0 ELSE R(i, i + 2)
  <2> TAKE i \in 1..n
  <2>1. CASE i <= n - 2
    BY <1>2, <1>4, <1>5, <1>6, <2>1 DEF Part
  <2>2. CASE ~(i <= n - 2)
    BY <1>2, <1>4, <2>2 DEF Part
  <2> QED
    BY <2>1, <2>2
<1>8. DOMAIN parts = 1..n
  BY <1>4
<1>9. parts = [i \in 1..n |-> parts[i]]
  BY <1>4
<1>10. parts \in Seq(Part) /\ Len(parts) = n
  <2> HIDE DEF n
  <2>1. parts \in [1..n -> Part]
    BY <1>7, <1>8, <1>9
  <2> QED
    BY <1>2, <1>8, <2>1
<1>11. \A i \in 1..Len(parts) :
              parts[i].rank = IF i + 2 > Len(parts) THEN 0
                 ELSE rank_of(merges, SubSeq(piece, parts[i].first, parts[i + 2].first - 1))
  <2> HIDE DEF n, bare
  <2> TAKE i \in 1..Len(parts)
  <2>1. parts[i].first = i /\ parts[i].rank = IF i + 2 > n THEN 0 ELSE R(i, i + 2)
    BY <1>7, <1>10
  <2>2. ~(i + 2 > n) => parts[i + 2].first = i + 2
    BY <1>2, <1>7, <1>10
  <2> QED
    BY <1>10, <2>1, <2>2 DEF R
<1>12. Merging!CachedRanksFresh
  BY <1>8, <1>10, <1>11, FreshIs
<1> QED
  BY <1>1, <1>10, <1>12 DEF MergeInv

(* The ranks that _byte_pair_merge keeps next to its parts are those it      *)
(* would find if it looked every pair up again, for every merge table that  *)
(* training can yield and every piece (tiktoken.h): refreshing the two       *)
(* around a merge is enough.                                                 *)
THEOREM RanksStayFresh == Merging!Spec => []CachedRanksFresh
<1>1. Merging!Init => MergeInv
  BY FreshAtFirst, TableAssumption
<1>2. MergeInv /\ [Merging!Next]_Merging!vars => MergeInv'
  <2> SUFFICES ASSUME MergeInv, [Merging!Next]_Merging!vars PROVE MergeInv'
    OBVIOUS
  <2>1. CASE Merging!MergeSymbols
    BY <2>1, Zenon DEF MergeInv, Merging!MergeSymbols, Merging!CachedRanksFresh
  <2>2. CASE Merging!MergeParts
    BY <2>2, RoundKeepsFresh
  <2>3. CASE UNCHANGED Merging!vars
    BY <2>3, Zenon DEF MergeInv, Merging!vars, Merging!CachedRanksFresh
  <2> QED
    BY <2>1, <2>2, <2>3 DEF Merging!Next
<1>3. MergeInv => CachedRanksFresh
  BY DEF MergeInv, CachedRanksFresh
<1> QED
  BY <1>1, <1>2, <1>3, PTL DEF Merging!Spec

----------------------------------------------------------------------------
(* Folds over sequences *)

\* What holds at 0 and passes from each number to the next holds up to n.
LEMMA Upward ==
  ASSUME NEW n \in Nat, NEW K \in SUBSET Nat, 0 \in K, \A k \in 1..n : k - 1 \in K => k \in K
  PROVE  0..n \subseteq K
<1> DEFINE M == {k \in 0..n : k \notin K}
<1>1. SUFFICES ASSUME M # {} PROVE FALSE
  OBVIOUS
<1>2. PICK k \in M : \A j \in M : k <= j
  <2>1. M \in SUBSET Nat
    OBVIOUS
  <2> HIDE DEF M
  <2> QED
    BY <1>1, <2>1, LeastOf
<1>3. k \in 1..n /\ k - 1 \in 0..n /\ ~(k <= k - 1)
  OBVIOUS
<1>4. k - 1 \in K
  BY <1>2, <1>3
<1> QED
  BY <1>2, <1>3, <1>4

LEMMA UpTo ==
  ASSUME NEW k \in Nat \ {0}
  PROVE  1..k # {} /\ Max(1..k) = k /\ (1..k) \ {k} = 1..(k - 1)
<1>1. k \in 1..k /\ \A y \in 1..k : y <= k
  OBVIOUS
<1>2. 1..k \in SUBSET Int
  OBVIOUS
<1>3. (1..k) \ {k} = 1..(k - 1)
  OBVIOUS
<1>4. Max(1..k) = k
  BY <1>1, <1>2, MaxIs, Zenon
<1> QED
  BY <1>1, <1>3, <1>4

\* The largest number of a set up to n + 1 is n + 1 or belongs to the part up to n.
LEMMA MaxWithin ==
  ASSUME NEW n \in Nat, NEW S \in SUBSET (1..n), S # {}
  PROVE  Max(S) \in S
<1> DEFINE K == {n - x : x \in S}
<1>1. K \in SUBSET Nat /\ K # {}
  <2>1. \A x \in S : n - x \in Nat
    OBVIOUS
  <2> QED
    BY <2>1
<1>2. PICK e \in K : \A k \in K : e <= k
  <2> HIDE DEF K
  <2> QED
    BY <1>1, LeastOf
<1>3. PICK x \in S : e = n - x
  OBVIOUS
<1>4. \A y \in S : y <= x
  <2> TAKE y \in S
  <2>1. n - y \in K /\ y \in Int /\ x \in Int
    OBVIOUS
  <2> HIDE DEF K
  <2> QED
    BY <1>2, <1>3, <2>1
<1>5. S \in SUBSET Int
  OBVIOUS
<1> QED
  BY <1>3, <1>4, <1>5, MaxIs

\* A function on the sets up to n that takes the largest element first.
TakesLargest(g, n, b, h) ==
  \A S \in SUBSET (1..n) :
    g[S] = IF S = {} THEN b ELSE h[<<Max(S), g[S \ {Max(S)}]>>]

LEMMA IterationExists ==
  ASSUME NEW n \in Nat, NEW Y, NEW b \in Y, NEW h \in [(1..n) \X Y -> Y]
  PROVE  \E g \in [SUBSET (1..n) -> Y] : TakesLargest(g, n, b, h)
<1> DEFINE K == {k \in Nat : k <= n => \E g \in [SUBSET (1..k) -> Y] : TakesLargest(g, k, b, h)}
<1>1. 0 \in K
  <2> DEFINE g == [S \in SUBSET (1..0) |-> b]
  <2>1. g \in [SUBSET (1..0) -> Y]
    OBVIOUS
  <2>2. \A S \in SUBSET (1..0) : S = {}
    OBVIOUS
  <2>3. TakesLargest(g, 0, b, h)
    BY <2>2 DEF TakesLargest
  <2> QED
    BY <2>1, <2>3
<1>2. ASSUME NEW k \in 1..n, k - 1 \in K PROVE k \in K
  <2>1. PICK f \in [SUBSET (1..(k - 1)) -> Y] : TakesLargest(f, k - 1, b, h)
    <3>1. k - 1 \in Nat /\ k - 1 <= n
      OBVIOUS
    <3> QED
      BY <1>2, <3>1
  <2> DEFINE g == [S \in SUBSET (1..k) |-> IF k \in S THEN h[<<k, f[S \ {k}]>>] ELSE f[S]]
  <2>2. \A S \in SUBSET (1..k) : /\ S \ {k} \in SUBSET (1..(k - 1))
                                 /\ k \notin S => S \in SUBSET (1..(k - 1))
    OBVIOUS
  <2>3. g \in [SUBSET (1..k) -> Y]
    <3> SUFFICES ASSUME NEW S \in SUBSET (1..k) PROVE g[S] \in Y
      BY DEF g
    <3>1. CASE k \in S
      <4>1. f[S \ {k}] \in Y
        BY <2>2
      <4> QED
        BY <3>1, <4>1
    <3>2. CASE k \notin S
      BY <2>2, <3>2
    <3> QED
      BY <3>1, <3>2
  <2>4. ASSUME NEW S \in SUBSET (1..k)
        PROVE  g[S] = IF S = {} THEN b ELSE h[<<Max(S), g[S \ {Max(S)}]>>]
    <3>1. CASE k \in S
      <4>1. Max(S) = k
        <5>1. S \in SUBSET Int /\ \A y \in S : y <= k
          OBVIOUS
        <5> QED
          BY <3>1, <5>1, MaxIs
      <4>2. g[S \ {k}] = f[S \ {k}]
        <5>1. S \ {k} \in SUBSET (1..k) /\ k \notin S \ {k}
          OBVIOUS
        <5> QED
          BY <5>1
      <4> QED
        BY <3>1, <4>1, <4>2
    <3>2. CASE k \notin S
      <4>1. S \in SUBSET (1..(k - 1)) /\ g[S] = f[S]
        BY <2>2, <3>2
      <4>2. S # {} => Max(S) \in S /\ S \ {Max(S)} \in SUBSET (1..k) /\ k \notin S \ {Max(S)}
        <5>1. k \in Nat
          OBVIOUS
        <5>2. S # {} => Max(S) \in S
          BY <5>1, MaxWithin, Zenon
        <5> QED
          BY <3>2, <5>2
      <4>3. S # {} => g[S \ {Max(S)}] = f[S \ {Max(S)}]
        BY <4>2
      <4> HIDE DEF g
      <4> QED
        BY <2>1, <4>1, <4>3 DEF TakesLargest
    <3> QED
      BY <3>1, <3>2
  <2>5. TakesLargest(g, k, b, h)
    BY <2>4 DEF TakesLargest
  <2> HIDE DEF g
  <2> QED
    BY <2>3, <2>5
<1>3. K \in SUBSET Nat
  OBVIOUS
<1> HIDE DEF K
<1>4. n \in K
  BY <1>1, <1>2, <1>3, Upward
<1>5. n <= n
  OBVIOUS
<1> QED
  BY <1>4, <1>5, Zenon DEF K

\* What such a function makes of the first k numbers.
LEMMA IterationSteps ==
  ASSUME NEW n \in Nat, NEW Y, NEW g, g[{}] \in Y,
         \A k \in 1..n : g[1..(k - 1)] \in Y => g[1..k] \in Y
  PROVE  \A k \in 0..n : g[1..k] \in Y
<1> DEFINE K == {k \in Nat : k <= n => g[1..k] \in Y}
<1>1. 0 \in K
  <2>1. 1..0 = {}
    OBVIOUS
  <2> QED
    BY <2>1
<1>2. ASSUME NEW k \in 1..n, k - 1 \in K PROVE k \in K
  <2>1. k - 1 <= n /\ k \in Nat
    OBVIOUS
  <2>2. g[1..(k - 1)] \in Y
    BY <1>2, <2>1
  <2>3. g[1..k] \in Y
    BY <2>2
  <2> QED
    BY <2>1, <2>3
<1>3. K \in SUBSET Nat
  OBVIOUS
<1> HIDE DEF K
<1>4. 0..n \subseteq K
  BY <1>1, <1>2, <1>3, Upward
<1> QED
  BY <1>4 DEF K

----------------------------------------------------------------------------
(* The merges of a pair, from the left *)

Word == String \ {<<>>}

LEMMA JoinedWord ==
  ASSUME NEW a \in Word, NEW b \in Word
  PROVE  a \o b \in Word /\ Len(a \o b) = Len(a) + Len(b) /\ Len(a) \in Nat \ {0}
           /\ Len(b) \in Nat \ {0}
BY DEF Word, String

Scan(pair, acc, x) ==
  IF acc # <<>> /\ acc[Len(acc)] = pair[1] /\ x = pair[2]
  THEN Append(SubSeq(acc, 1, Len(acc) - 1), pair[1] \o pair[2]) ELSE Append(acc, x)

LEMMA ScanIn ==
  ASSUME NEW pair \in Word \X Word, NEW acc \in Seq(Word), NEW x \in Word
  PROVE  Scan(pair, acc, x) \in Seq(Word)
<1>1. pair[1] \o pair[2] \in Word
  BY JoinedWord
<1>2. acc # <<>> => SubSeq(acc, 1, Len(acc) - 1) \in Seq(Word)
  OBVIOUS
<1> DEFINE P == pair[1] \o pair[2]
<1> HIDE DEF P
<1> QED
  BY <1>1, <1>2 DEF Scan, P

\* What the scan has built before each symbol.
Scanned(t, syms, pair) ==
  /\ t \in [0..Len(syms) -> Seq(Word)]
  /\ t[0] = <<>>
  /\ \A k \in 1..Len(syms) : t[k] = Scan(pair, t[k - 1], syms[k])

LEMMA ReplaceScans ==
  ASSUME NEW syms \in Seq(Word), NEW pair \in Word \X Word
  PROVE  \E t : Scanned(t, syms, pair) /\ Merging!replace_all(syms, pair) = t[Len(syms)]
<1> DEFINE n == Len(syms)
           D == SUBSET (1..n)
           h == [z \in (1..n) \X Seq(Word) |-> Scan(pair, z[2], syms[z[1]])]
           Recurs(g) == g = [S \in D |-> IF S = {} THEN <<>>
                                       ELSE Scan(pair, g[S \ {Max(S)}], syms[Max(S)])]
           iter == CHOOSE g : Recurs(g)
           t == [k \in 0..n |-> iter[1..k]]
<1>1. n \in Nat /\ DOMAIN syms = 1..n /\ \A k \in 1..n : syms[k] \in Word
  OBVIOUS
<1>2. Merging!replace_all(syms, pair) = iter[1..n]
  <2> HIDE DEF n
  <2> QED
    BY <1>1, Zenon DEF Merging!replace_all, Merging!FoldLeft, Merging!MapThenFoldSet, Merging!Last,
         Merging!Front, Merging!Max, Max, Merging!Product, Scan
<1>3. <<>> \in Seq(Word)
  OBVIOUS
<1>4. h \in [(1..n) \X Seq(Word) -> Seq(Word)]
  <2> SUFFICES ASSUME NEW z \in (1..n) \X Seq(Word) PROVE Scan(pair, z[2], syms[z[1]]) \in Seq(Word)
    OBVIOUS
  <2>1. z[2] \in Seq(Word) /\ syms[z[1]] \in Word
    BY <1>1
  <2> QED
    BY <2>1, ScanIn
<1>5. \A k \in 1..n, acc \in Seq(Word) : h[<<k, acc>>] = Scan(pair, acc, syms[k])
  OBVIOUS
<1> HIDE DEF h
<1>6. Recurs(iter)
  <2>1. PICK g \in [D -> Seq(Word)] : TakesLargest(g, n, <<>>, h)
    <3> HIDE DEF n
    <3> QED
      BY <1>1, <1>3, <1>4, IterationExists
  <2>2. ASSUME NEW S \in D
        PROVE  g[S] = IF S = {} THEN <<>> ELSE Scan(pair, g[S \ {Max(S)}], syms[Max(S)])
    <3>1. S # {} => Max(S) \in S
      BY <1>1, MaxWithin
    <3>2. S \ {Max(S)} \in D
      OBVIOUS
    <3> HIDE DEF n
    <3> QED
      BY <1>5, <2>1, <3>1, <3>2 DEF TakesLargest
  <2>3. Recurs(g)
    <3>1. g = [S \in D |-> g[S]]
      OBVIOUS
    <3> QED
      BY <2>2, <3>1
  <2> HIDE DEF Recurs
  <2> QED
    BY <2>3, Zenon
<1>7. \A S \in D : iter[S] = IF S = {} THEN <<>>
                             ELSE Scan(pair, iter[S \ {Max(S)}], syms[Max(S)])
  <2> HIDE DEF iter
  <2> QED
    BY <1>6
<1> HIDE DEF iter
<1>8. ASSUME NEW k \in 1..n PROVE iter[1..k] = Scan(pair, iter[1..(k - 1)], syms[k])
  <2>1. 1..k \in D /\ k \in Nat \ {0}
    BY <1>1
  <2>2. 1..k # {} /\ Max(1..k) = k /\ (1..k) \ {k} = 1..(k - 1)
    BY <2>1, UpTo
  <2> QED
    BY <1>7, <2>1, <2>2
<1>9. t \in [0..n -> Seq(Word)] /\ t[0] = <<>> /\ \A k \in 1..n : t[k] = Scan(pair, t[k - 1], syms[k])
  <2>1. iter[{}] = <<>>
    BY <1>7
  <2>2. \A k \in 1..n : iter[1..(k - 1)] \in Seq(Word) => iter[1..k] \in Seq(Word)
    <3> SUFFICES ASSUME NEW k \in 1..n, iter[1..(k - 1)] \in Seq(Word)
                 PROVE  iter[1..k] \in Seq(Word)
      OBVIOUS
    <3>1. syms[k] \in Word
      BY <1>1
    <3>2. Scan(pair, iter[1..(k - 1)], syms[k]) \in Seq(Word)
      BY <3>1, ScanIn, Zenon
    <3> QED
      BY <1>8, <3>2, Zenon
  <2>3. n \in Nat
    BY <1>1
  <2>4. \A k \in 0..n : iter[1..k] \in Seq(Word)
    <3> HIDE DEF n
    <3> QED
      BY <1>3, <2>1, <2>2, <2>3, IterationSteps
  <2>5. 1..0 = {} /\ 0 \in 0..n /\ \A k \in 1..n : k \in 0..n /\ k - 1 \in 0..n
    BY <2>3
  <2> QED
    BY <1>8, <2>1, <2>4, <2>5
<1>10. Merging!replace_all(syms, pair) = t[n]
  BY <1>1, <1>2
<1>11. Scanned(t, syms, pair)
  <2> HIDE DEF t
  <2> QED
    BY <1>9 DEF Scanned
<1> QED
  <2> HIDE DEF t
  <2> QED
    BY <1>10, <1>11

LEMMA ReplacedIn ==
  ASSUME NEW syms \in Seq(Word), NEW pair \in Word \X Word
  PROVE  Merging!replace_all(syms, pair) \in Seq(Word)
<1>1. PICK t : Scanned(t, syms, pair) /\ Merging!replace_all(syms, pair) = t[Len(syms)]
  BY ReplaceScans
<1> QED
  BY <1>1 DEF Scanned

\* Up to the first place where the pair stands the scan copies.
LEMMA ScanCopies ==
  ASSUME NEW syms \in Seq(Word), NEW pair \in Word \X Word, NEW t, Scanned(t, syms, pair),
         NEW m \in 0..Len(syms),
         \A i \in 1..(m - 1) : ~(syms[i] = pair[1] /\ syms[i + 1] = pair[2])
  PROVE  \A k \in 0..m : t[k] = SubSeq(syms, 1, k)
<1> DEFINE K == {k \in Nat : k <= m => t[k] = SubSeq(syms, 1, k)}
<1>1. 0 \in K
  <2>1. SubSeq(syms, 1, 0) = <<>>
    OBVIOUS
  <2> QED
    BY <2>1 DEF Scanned
<1>2. ASSUME NEW k \in 1..m, k - 1 \in K PROVE k \in K
  <2>1. k - 1 <= m /\ k \in Nat /\ k - 1 \in Nat /\ k \in 1..Len(syms)
    OBVIOUS
  <2>2. t[k - 1] = SubSeq(syms, 1, k - 1)
    BY <1>2, <2>1
  <2>3. SubSeq(syms, 1, k - 1) \in Seq(Word) /\ Len(SubSeq(syms, 1, k - 1)) = k - 1
        /\ (k > 1 => SubSeq(syms, 1, k - 1)[k - 1] = syms[k - 1])
    BY <2>1
  <2>4. t[k] = Append(SubSeq(syms, 1, k - 1), syms[k])
    <3>1. t[k] = Scan(pair, t[k - 1], syms[k])
      BY <2>1 DEF Scanned
    <3>2. CASE k = 1
      <4>1. SubSeq(syms, 1, k - 1) = <<>>
        BY <3>2
      <4> QED
        BY <2>2, <3>1, <4>1, Zenon DEF Scan
    <3>3. CASE k > 1
      <4>1. ~(syms[k - 1] = pair[1] /\ syms[k] = pair[2])
        <5>1. k - 1 \in 1..(m - 1) /\ (k - 1) + 1 = k
          BY <3>3, <2>1
        <5> QED
          BY <5>1
      <4> QED
        BY <2>2, <2>3, <3>1, <3>3, <4>1, Zenon DEF Scan
    <3> QED
      BY <2>1, <3>2, <3>3
  <2>5. Append(SubSeq(syms, 1, k - 1), syms[k]) = SubSeq(syms, 1, k)
    BY <2>1
  <2> QED
    BY <2>1, <2>4, <2>5
<1>3. K \in SUBSET Nat
  OBVIOUS
<1> HIDE DEF K
<1>4. 0..m \subseteq K
  <2>1. m \in Nat
    OBVIOUS
  <2> QED
    BY <1>1, <1>2, <1>3, <2>1, Upward
<1> QED
  BY <1>4 DEF K

LEMMA NothingReplaced ==
  ASSUME NEW syms \in Seq(Word), NEW pair \in Word \X Word,
         \A i \in 1..(Len(syms) - 1) : ~(syms[i] = pair[1] /\ syms[i + 1] = pair[2])
  PROVE  Merging!replace_all(syms, pair) = syms
<1>1. PICK t : Scanned(t, syms, pair) /\ Merging!replace_all(syms, pair) = t[Len(syms)]
  BY ReplaceScans
<1>2. Len(syms) \in 0..Len(syms)
  OBVIOUS
<1>3. t[Len(syms)] = SubSeq(syms, 1, Len(syms))
  BY <1>1, <1>2, ScanCopies
<1>4. SubSeq(syms, 1, Len(syms)) = syms
  OBVIOUS
<1> QED
  BY <1>1, <1>3, <1>4

LEMMA MergeAtIs ==
  ASSUME NEW syms \in Seq(Word), NEW i \in 1..(Len(syms) - 1)
  PROVE  LET m == Merging!merge_at(syms, i)
         IN  /\ m \in Seq(Word) /\ Len(m) = Len(syms) - 1
             /\ \A j \in 1..(Len(syms) - 1) :
                  m[j] = IF j < i THEN syms[j] ELSE IF j = i THEN syms[i] \o syms[i + 1]
                         ELSE syms[j + 1]
<1> DEFINE n == Len(syms)
           P == syms[i] \o syms[i + 1]
           l == SubSeq(syms, 1, i - 1)
           r == SubSeq(syms, i + 2, Len(syms))
<1>1. i \in Nat /\ n \in Nat /\ 1 <= i /\ i <= n - 1
  OBVIOUS
<1>2. P \in Word
  <2>1. syms[i] \in Word /\ syms[i + 1] \in Word
    OBVIOUS
  <2> QED
    BY <2>1, JoinedWord
<1>3. l \in Seq(Word) /\ Len(l) = i - 1 /\ \A j \in 1..(i - 1) : l[j] = syms[j]
  OBVIOUS
<1>4. r \in Seq(Word) /\ Len(r) = n - i - 1 /\ \A j \in 1..(n - i - 1) : r[j] = syms[j + i + 1]
  OBVIOUS
<1>5. Merging!merge_at(syms, i) = l \o <<P>> \o r
  BY Zenon DEF Merging!merge_at
<1> HIDE DEF P, l, r, n
<1>6. l \o <<P>> \in Seq(Word) /\ Len(l \o <<P>>) = i
        /\ \A j \in 1..i : (l \o <<P>>)[j] = IF j < i THEN syms[j] ELSE P
  BY <1>1, <1>2, <1>3
<1> DEFINE lp == l \o <<P>>
<1> HIDE DEF lp
<1>7. lp \in Seq(Word) /\ Len(lp) = i /\ \A j \in 1..i : lp[j] = IF j < i THEN syms[j] ELSE P
  BY <1>6 DEF lp
<1>8. /\ lp \o r \in Seq(Word) /\ Len(lp \o r) = n - 1
      /\ \A j \in 1..(n - 1) : (lp \o r)[j] = IF j <= i THEN lp[j] ELSE r[j - i]
  <2>1. /\ lp \o r \in Seq(Word) /\ Len(lp \o r) = i + (n - i - 1)
        /\ \A j \in 1..(i + (n - i - 1)) : (lp \o r)[j] = IF j <= i THEN lp[j] ELSE r[j - i]
    <3>1. /\ lp \o r \in Seq(Word) /\ Len(lp \o r) = Len(lp) + Len(r)
          /\ \A j \in 1..(Len(lp) + Len(r)) :
                (lp \o r)[j] = IF j <= Len(lp) THEN lp[j] ELSE r[j - Len(lp)]
      <4>1. lp \in Seq(Word) /\ r \in Seq(Word)
        BY <1>4, <1>7
      <4> QED
        BY <4>1, BothOf, Zenon
    <3>2. Len(lp) = i /\ Len(r) = n - i - 1
      BY <1>4, <1>7
    <3> QED
      BY <3>1, <3>2, Zenon
  <2>2. i + (n - i - 1) = n - 1
    BY <1>1
  <2> QED
    BY <2>1, <2>2
<1>9. ASSUME NEW j \in 1..(n - 1)
      PROVE  (lp \o r)[j] = IF j < i THEN syms[j] ELSE IF j = i THEN P ELSE syms[j + 1]
  <2>1. CASE j <= i
    BY <1>1, <1>7, <1>8, <2>1
  <2>2. CASE j > i
    <3>1. j - i \in 1..(n - i - 1) /\ (j - i) + i + 1 = j + 1
      BY <1>1, <2>2
    <3>2. r[j - i] = syms[(j - i) + i + 1]
      BY <1>4, <3>1
    <3>3. ~(j <= i) /\ ~(j < i) /\ j # i
      BY <1>1, <2>2
    <3> QED
      BY <1>8, <3>1, <3>2, <3>3, Zenon
  <2>3. j <= i \/ j > i
    BY <1>1
  <2> QED
    BY <2>1, <2>2, <2>3, Zenon
<1> QED
  BY <1>5, <1>8, <1>9 DEF lp, n, P

\* Merging the first place by itself leads to the same end.
LEMMA FirstReplaced ==
  ASSUME NEW syms \in Seq(Word), NEW pair \in Word \X Word, NEW i \in 1..(Len(syms) - 1),
         syms[i] = pair[1], syms[i + 1] = pair[2],
         \A j \in 1..(i - 1) : ~(syms[j] = pair[1] /\ syms[j + 1] = pair[2])
  PROVE  Merging!replace_all(Merging!merge_at(syms, i), pair) = Merging!replace_all(syms, pair)
<1> DEFINE n == Len(syms)
           w == Merging!merge_at(syms, i)
           P == pair[1] \o pair[2]
<1>1. i \in Nat /\ n \in Nat /\ 1 <= i /\ i <= n - 1
  OBVIOUS
<1>2. /\ w \in Seq(Word) /\ Len(w) = n - 1
      /\ \A j \in 1..(n - 1) : w[j] = IF j < i THEN syms[j] ELSE IF j = i THEN P ELSE syms[j + 1]
  BY MergeAtIs
<1>3. P \in Word /\ P # pair[2]
  <2>1. P \in Word /\ Len(P) = Len(pair[1]) + Len(pair[2]) /\ Len(pair[1]) \in Nat \ {0}
        /\ Len(pair[2]) \in Nat \ {0}
    BY JoinedWord
  <2> HIDE DEF P
  <2> QED
    BY <2>1
<1>4. PICK t : Scanned(t, syms, pair) /\ Merging!replace_all(syms, pair) = t[n]
  BY ReplaceScans
<1>5. PICK u : Scanned(u, w, pair) /\ Merging!replace_all(w, pair) = u[n - 1]
  <2> HIDE DEF w
  <2> QED
    BY <1>2, ReplaceScans
<1> DEFINE before == SubSeq(syms, 1, i - 1)
<1>6. before \in Seq(Word) /\ Len(before) = i - 1
  OBVIOUS
<1>7. t[i] = SubSeq(syms, 1, i)
  <2>1. i \in 0..Len(syms) /\ i \in 0..i
    BY <1>1
  <2> QED
    BY <1>4, <2>1, ScanCopies
<1>8. t[i + 1] = Append(before, P)
  <2>1. t[i + 1] = Scan(pair, t[i], syms[i + 1])
    <3>1. i + 1 \in 1..n /\ (i + 1) - 1 = i
      BY <1>1
    <3> QED
      BY <1>4, <3>1 DEF Scanned
  <2>2. Len(t[i]) = i /\ t[i] # <<>> /\ t[i][i] = pair[1] /\ SubSeq(t[i], 1, i - 1) = before
    <3>1. SubSeq(syms, 1, i) \in Seq(Word) /\ Len(SubSeq(syms, 1, i)) = i /\ SubSeq(syms, 1, i)[i] = syms[i]
      BY <1>1
    <3>2. SubSeq(syms, 1, i) # <<>>
      BY <1>1, <3>1
    <3>3. SubSeq(SubSeq(syms, 1, i), 1, i - 1) = before
      BY <1>1
    <3> QED
      BY <1>7, <3>1, <3>2, <3>3, Zenon
  <2> HIDE DEF P, before
  <2> QED
    BY <2>1, <2>2, Zenon DEF Scan, P
<1>9. u[i - 1] = before
  <2>1. i - 1 \in 0..Len(w) /\ i - 1 \in 0..(i - 1)
    BY <1>1, <1>2
  <2>2. ASSUME NEW j \in 1..((i - 1) - 1) PROVE ~(w[j] = pair[1] /\ w[j + 1] = pair[2])
    <3>1. j \in 1..(i - 1) /\ j \in 1..(n - 1) /\ j + 1 \in 1..(n - 1) /\ j < i /\ j + 1 < i
      BY <1>1
    <3>2. w[j] = syms[j] /\ w[j + 1] = syms[j + 1]
      BY <1>2, <3>1, Zenon
    <3> QED
      BY <3>1, <3>2, Zenon
  <2>3. u[i - 1] = SubSeq(w, 1, i - 1)
    <3> HIDE DEF w
    <3> QED
      BY <1>2, <1>5, <2>1, <2>2, ScanCopies
  <2>4. ASSUME NEW j \in 1..(i - 1) PROVE w[j] = before[j]
    <3>1. j \in 1..(n - 1) /\ j < i /\ before[j] = syms[j]
      BY <1>1
    <3> QED
      BY <1>2, <3>1, Zenon
  <2>5. SubSeq(w, 1, i - 1) = before
    <3> HIDE DEF w, before
    <3> QED
      BY <1>1, <1>2, <1>6, <2>4
  <2> QED
    BY <2>3, <2>5
<1>10. u[i] = t[i + 1]
  <2>1. i \in 1..Len(w) /\ i \in 1..(n - 1) /\ ~(i < i)
    BY <1>1, <1>2
  <2>2. u[i] = Scan(pair, u[i - 1], w[i])
    BY <1>5, <2>1 DEF Scanned
  <2>3. w[i] = P
    BY <1>2, <2>1, Zenon
  <2> HIDE DEF P, w, before
  <2> QED
    BY <1>3, <1>8, <1>9, <2>2, <2>3, Zenon DEF Scan
<1> DEFINE K == {k \in Nat : k <= n - 1 - i => u[i + k] = t[i + k + 1]}
<1>11. 0 \in K
  <2>1. i + 0 = i
    BY <1>1
  <2> QED
    BY <1>10, <2>1
<1>12. ASSUME NEW k \in 1..(n - 1 - i), k - 1 \in K PROVE k \in K
  <2>1. /\ k - 1 <= n - 1 - i /\ k \in Nat /\ i + (k - 1) = (i + k) - 1
        /\ i + (k - 1) + 1 = (i + k + 1) - 1 /\ i + k \in 1..Len(w) /\ i + k \in 1..(n - 1)
        /\ i + k + 1 \in 1..n /\ ~(i + k < i) /\ i + k # i
    BY <1>1, <1>2
  <2>2. u[(i + k) - 1] = t[(i + k + 1) - 1]
    BY <1>12, <2>1
  <2>3. w[i + k] = syms[i + k + 1]
    BY <1>2, <2>1, Zenon
  <2>4. u[i + k] = Scan(pair, u[(i + k) - 1], w[i + k])
    BY <1>5, <2>1 DEF Scanned
  <2>5. t[i + k + 1] = Scan(pair, t[(i + k + 1) - 1], syms[i + k + 1])
    BY <1>4, <2>1 DEF Scanned
  <2> HIDE DEF w, P
  <2>6. u[i + k] = t[i + k + 1]
    BY <2>2, <2>3, <2>4, <2>5, Zenon
  <2> QED
    BY <2>1, <2>6
<1>13. K \in SUBSET Nat
  OBVIOUS
<1> HIDE DEF K
<1>14. n - 1 - i \in K
  <2>1. n - 1 - i \in Nat
    BY <1>1
  <2>2. n - 1 - i \in 0..(n - 1 - i)
    BY <2>1
  <2>3. 0..(n - 1 - i) \subseteq K
    BY <1>11, <1>12, <1>13, <2>1, Upward, Zenon
  <2> QED
    BY <2>2, <2>3
<1>15. u[n - 1] = t[n]
  <2>1. n - 1 - i <= n - 1 - i /\ i + (n - 1 - i) = n - 1 /\ i + (n - 1 - i) + 1 = n
    BY <1>1
  <2>2. u[i + (n - 1 - i)] = t[i + (n - 1 - i) + 1]
    BY <1>14, <2>1 DEF K
  <2> QED
    BY <2>1, <2>2
<1> QED
  BY <1>4, <1>5, <1>15

----------------------------------------------------------------------------
(* Merge tables *)

\* What training knows before the merge of rank r.
KnownBefore(m, r) ==
  {<<x>> : x \in Letters} \cup {m[j][1] \o m[j][2] : j \in 1..(r - 1)}

Trained(m) ==
  /\ m \in Seq(Word \X Word)
  /\ \A r \in 1..Len(m) :
       /\ m[r][1] \in KnownBefore(m, r) /\ m[r][2] \in KnownBefore(m, r)
       /\ m[r][1] \o m[r][2] \notin KnownBefore(m, r)

LEMMA AppendTrained ==
  ASSUME NEW m, Trained(m), NEW pair \in Known(m) \X Known(m),
         Merging!Product(pair) \notin Known(m)
  PROVE  Trained(Append(m, pair))
<1> DEFINE n == Len(m)
           q == Append(m, pair)
<1>1. n \in Nat /\ DOMAIN m = 1..n /\ m \in Seq(Word \X Word)
  BY DEF Trained
<1>2. Known(m) = KnownBefore(m, n + 1)
  <2>1. (n + 1) - 1 = n
    BY <1>1
  <2> QED
    BY <1>1, <2>1 DEF Known, KnownBefore, Merging!Product
<1>3. Known(m) \subseteq Word
  <2>1. \A x \in Letters : <<x>> \in Word
    BY DEF Word, String
  <2>2. \A j \in 1..n : m[j][1] \o m[j][2] \in Word
    <3> TAKE j \in 1..n
    <3>1. m[j] \in Word \X Word
      BY <1>1
    <3> QED
      BY <3>1, JoinedWord
  <2> QED
    BY <1>1, <2>1, <2>2 DEF Known, Merging!Product
<1>4. pair \in Word \X Word
  BY <1>3
<1>5. q \in Seq(Word \X Word) /\ Len(q) = n + 1 /\ q[n + 1] = pair /\ \A j \in 1..n : q[j] = m[j]
  BY <1>1, <1>4
<1> HIDE DEF q
<1>6. ASSUME NEW r \in 1..(n + 1) PROVE KnownBefore(q, r) = KnownBefore(m, r)
  <2>1. \A j \in 1..(r - 1) : q[j] = m[j]
    BY <1>1, <1>5
  <2> QED
    BY <2>1 DEF KnownBefore
<1>7. ASSUME NEW r \in 1..(n + 1)
      PROVE  /\ q[r][1] \in KnownBefore(q, r) /\ q[r][2] \in KnownBefore(q, r)
             /\ q[r][1] \o q[r][2] \notin KnownBefore(q, r)
  <2>1. CASE r = n + 1
    <3>1. q[r] = pair /\ KnownBefore(q, r) = Known(m)
      BY <1>2, <1>5, <1>6, <2>1
    <3> QED
      BY <3>1 DEF Merging!Product
  <2>2. CASE r \in 1..n
    <3>1. q[r] = m[r] /\ KnownBefore(q, r) = KnownBefore(m, r)
      BY <1>5, <1>6, <2>2
    <3> QED
      BY <2>2, <3>1, Zenon DEF Trained
  <2>3. r = n + 1 \/ r \in 1..n
    BY <1>1
  <2> QED
    BY <2>1, <2>2, <2>3
<1> HIDE DEF n
<1>8. Trained(q)
  BY <1>5, <1>7 DEF Trained
<1> QED
  BY <1>8 DEF q

LEMMA TablesAreTrained ==
  ASSUME MaxMerges \in Nat
  PROVE  \A m \in Merging!Tables : Trained(m)
<1> DEFINE f == CHOOSE f : Grows(f, MaxMerges)
<1>1. Grows(f, MaxMerges)
  <2>1. \E g : Grows(g, MaxMerges)
    BY GrowsExists
  <2> QED
    BY <2>1, Zenon
<1>2. Merging!Tables = f[MaxMerges]
  BY Zenon DEF Merging!Tables, Grows, Grown, Known
<1> HIDE DEF f
<1>3. \A k \in 0..MaxMerges : f[k] = IF k = 0 THEN {<<>>} ELSE Grown(f[k - 1])
  BY <1>1 DEF Grows
<1> DEFINE K == {k \in Nat : k <= MaxMerges => \A m \in f[k] : Trained(m)}
<1>4. 0 \in K
  <2>1. Trained(<<>>)
    BY DEF Trained
  <2>2. f[0] = {<<>>}
    BY <1>3
  <2> QED
    BY <2>1, <2>2
<1>5. ASSUME NEW k \in 1..MaxMerges, k - 1 \in K PROVE k \in K
  <2>1. k - 1 <= MaxMerges /\ k \in Nat /\ k # 0 /\ k \in 0..MaxMerges
    OBVIOUS
  <2>2. \A m \in f[k - 1] : Trained(m)
    BY <1>5, <2>1
  <2>3. f[k] = Grown(f[k - 1])
    BY <1>3, <2>1
  <2>4. ASSUME NEW x \in Grown(f[k - 1]) PROVE Trained(x)
    <3>1. CASE x \in f[k - 1]
      BY <2>2, <3>1
    <3>2. CASE x \notin f[k - 1]
      <4>1. PICK m \in f[k - 1] :
              \E pair \in {q \in Known(m) \X Known(m) : Merging!Product(q) \notin Known(m)} :
                x = Append(m, pair)
        BY <3>2, Zenon DEF Grown
      <4>2. PICK pair \in Known(m) \X Known(m) :
              Merging!Product(pair) \notin Known(m) /\ x = Append(m, pair)
        BY <4>1
      <4> QED
        BY <2>2, <4>2, AppendTrained
    <3> QED
      BY <3>1, <3>2
  <2> QED
    BY <2>1, <2>3, <2>4
<1>6. K \in SUBSET Nat
  OBVIOUS
<1> HIDE DEF K
<1>7. MaxMerges \in K
  <2>1. MaxMerges \in 0..MaxMerges
    OBVIOUS
  <2>2. 0..MaxMerges \subseteq K
    BY <1>4, <1>5, <1>6, Upward, Zenon
  <2> QED
    BY <2>1, <2>2
<1> QED
  BY <1>2, <1>7 DEF K

----------------------------------------------------------------------------
(* The merges of a table, in the order they were learned *)

\* What the fold over a table computes.
InOrder(m, syms) ==
  (CHOOSE g : g = [S \in SUBSET DOMAIN m |->
                     IF S = {} THEN syms
                     ELSE Merging!replace_all(g[S \ {Max(S)}], m[Max(S)])])[DOMAIN m]

\* The symbols after each merge of the table.
Ordered(u, m, syms) ==
  /\ u \in [0..Len(m) -> Seq(Word)]
  /\ u[0] = syms
  /\ \A r \in 1..Len(m) : u[r] = Merging!replace_all(u[r - 1], m[r])

LEMMA InOrderSteps ==
  ASSUME NEW m \in Seq(Word \X Word), NEW syms \in Seq(Word)
  PROVE  \E u : Ordered(u, m, syms) /\ InOrder(m, syms) = u[Len(m)]
<1> DEFINE n == Len(m)
           D == SUBSET (1..n)
           h == [z \in (1..n) \X Seq(Word) |-> Merging!replace_all(z[2], m[z[1]])]
           Recurs(g) == g = [S \in D |-> IF S = {} THEN syms
                                       ELSE Merging!replace_all(g[S \ {Max(S)}], m[Max(S)])]
           iter == CHOOSE g : Recurs(g)
           u == [k \in 0..n |-> iter[1..k]]
<1>1. n \in Nat /\ DOMAIN m = 1..n /\ \A k \in 1..n : m[k] \in Word \X Word
  OBVIOUS
<1>2. InOrder(m, syms) = iter[1..n]
  <2> HIDE DEF n
  <2> QED
    BY <1>1, Zenon DEF InOrder
<1>4. h \in [(1..n) \X Seq(Word) -> Seq(Word)]
  <2> SUFFICES ASSUME NEW z \in (1..n) \X Seq(Word)
               PROVE  Merging!replace_all(z[2], m[z[1]]) \in Seq(Word)
    OBVIOUS
  <2>1. z[2] \in Seq(Word) /\ m[z[1]] \in Word \X Word
    BY <1>1
  <2> QED
    BY <2>1, ReplacedIn
<1>5. \A k \in 1..n, acc \in Seq(Word) : h[<<k, acc>>] = Merging!replace_all(acc, m[k])
  OBVIOUS
<1> HIDE DEF h
<1>6. Recurs(iter)
  <2>1. PICK g \in [D -> Seq(Word)] : TakesLargest(g, n, syms, h)
    <3> HIDE DEF n
    <3> QED
      BY <1>1, <1>4, IterationExists
  <2>2. ASSUME NEW S \in D
        PROVE  g[S] = IF S = {} THEN syms ELSE Merging!replace_all(g[S \ {Max(S)}], m[Max(S)])
    <3>1. S # {} => Max(S) \in S
      BY <1>1, MaxWithin
    <3>2. S \ {Max(S)} \in D
      OBVIOUS
    <3> HIDE DEF n
    <3> QED
      BY <1>5, <2>1, <3>1, <3>2 DEF TakesLargest
  <2>3. Recurs(g)
    <3>1. g = [S \in D |-> g[S]]
      OBVIOUS
    <3> QED
      BY <2>2, <3>1
  <2> HIDE DEF Recurs
  <2> QED
    BY <2>3, Zenon
<1>7. \A S \in D : iter[S] = IF S = {} THEN syms
                             ELSE Merging!replace_all(iter[S \ {Max(S)}], m[Max(S)])
  <2> HIDE DEF iter
  <2> QED
    BY <1>6
<1> HIDE DEF iter
<1>8. ASSUME NEW k \in 1..n PROVE iter[1..k] = Merging!replace_all(iter[1..(k - 1)], m[k])
  <2>1. 1..k \in D /\ k \in Nat \ {0}
    BY <1>1
  <2>2. 1..k # {} /\ Max(1..k) = k /\ (1..k) \ {k} = 1..(k - 1)
    BY <2>1, UpTo
  <2> QED
    BY <1>7, <2>1, <2>2
<1>9. u \in [0..n -> Seq(Word)] /\ u[0] = syms
        /\ \A k \in 1..n : u[k] = Merging!replace_all(u[k - 1], m[k])
  <2>1. iter[{}] = syms
    BY <1>7
  <2>2. \A k \in 1..n : iter[1..(k - 1)] \in Seq(Word) => iter[1..k] \in Seq(Word)
    <3> SUFFICES ASSUME NEW k \in 1..n, iter[1..(k - 1)] \in Seq(Word)
                 PROVE  iter[1..k] \in Seq(Word)
      OBVIOUS
    <3>1. m[k] \in Word \X Word
      BY <1>1
    <3>2. Merging!replace_all(iter[1..(k - 1)], m[k]) \in Seq(Word)
      BY <3>1, ReplacedIn, Zenon
    <3> QED
      BY <1>8, <3>2, Zenon
  <2>3. n \in Nat
    BY <1>1
  <2>4. \A k \in 0..n : iter[1..k] \in Seq(Word)
    <3> HIDE DEF n
    <3> QED
      BY <2>1, <2>2, <2>3, IterationSteps
  <2>5. 1..0 = {} /\ 0 \in 0..n /\ \A k \in 1..n : k \in 0..n /\ k - 1 \in 0..n
    BY <2>3
  <2> QED
    BY <1>8, <2>1, <2>4, <2>5
<1>10. InOrder(m, syms) = u[n]
  BY <1>1, <1>2
<1>11. Ordered(u, m, syms)
  <2> HIDE DEF u
  <2> QED
    BY <1>9 DEF Ordered
<1> QED
  <2> HIDE DEF u
  <2> QED
    BY <1>10, <1>11

\* As long as no pair of a rank stands anywhere the merges do nothing.
LEMMA OrderedIdle ==
  ASSUME NEW m \in Seq(Word \X Word), NEW syms \in Seq(Word), NEW u, Ordered(u, m, syms),
         NEW r \in 0..Len(m),
         \A j \in 1..r, i \in 1..(Len(syms) - 1) : ~(syms[i] = m[j][1] /\ syms[i + 1] = m[j][2])
  PROVE  u[r] = syms
<1> DEFINE K == {k \in Nat : k <= r => u[k] = syms}
<1>1. 0 \in K
  BY DEF Ordered
<1>2. ASSUME NEW k \in 1..r, k - 1 \in K PROVE k \in K
  <2>1. k - 1 <= r /\ k \in Nat /\ k \in 1..Len(m)
    OBVIOUS
  <2>2. u[k - 1] = syms
    BY <1>2, <2>1
  <2>3. u[k] = Merging!replace_all(syms, m[k])
    BY <2>1, <2>2 DEF Ordered
  <2>4. m[k] \in Word \X Word
    BY <2>1
  <2>5. Merging!replace_all(syms, m[k]) = syms
    BY <2>4, NothingReplaced
  <2> QED
    BY <2>1, <2>3, <2>5
<1>3. K \in SUBSET Nat
  OBVIOUS
<1> HIDE DEF K
<1>4. r \in K
  <2>1. r \in Nat /\ r \in 0..r
    OBVIOUS
  <2>2. 0..r \subseteq K
    BY <1>1, <1>2, <1>3, <2>1, Upward, Zenon
  <2> QED
    BY <2>1, <2>2
<1>5. r <= r
  OBVIOUS
<1> QED
  BY <1>4, <1>5 DEF K

\* The first pair of lowest rank.
LEMMA BestIndexIs ==
  ASSUME NEW m \in Seq(Word \X Word), NEW syms \in Seq(Word)
  PROVE  LET i == Merging!best_index(m, syms)
         IN  \/ /\ i = 0
                /\ \A j \in 1..(Len(syms) - 1), r \in 1..Len(m) : m[r] # <<syms[j], syms[j + 1]>>
             \/ /\ i \in 1..(Len(syms) - 1)
                /\ \E r \in 1..Len(m) :
                     /\ m[r] = <<syms[i], syms[i + 1]>>
                     /\ \A j \in 1..(Len(syms) - 1), q \in 1..(r - 1) : m[q] # <<syms[j], syms[j + 1]>>
                     /\ \A j \in 1..(i - 1) : m[r] # <<syms[j], syms[j + 1]>>
<1> DEFINE I == 1..(Len(syms) - 1)
           at_(j) == {r \in DOMAIN m : m[r] = <<syms[j], syms[j + 1]>>}
           ranks == UNION {at_(j) : j \in I}
           places == {j \in I : Merging!Min(ranks) \in at_(j)}
<1>1. Merging!best_index(m, syms) = IF ranks = {} THEN 0 ELSE Merging!Min(places)
  BY Zenon DEF Merging!best_index, Merging!ranks_at
<1>2. DOMAIN m = 1..Len(m) /\ Len(m) \in Nat /\ Len(syms) \in Nat
  OBVIOUS
<1>3. \A r \in DOMAIN m, j \in I : m[r] = <<syms[j], syms[j + 1]>> => r \in ranks
  OBVIOUS
<1>4. CASE ranks = {}
  <2>1. \A j \in I, r \in 1..Len(m) : m[r] # <<syms[j], syms[j + 1]>>
    <3> HIDE DEF ranks, I
    <3> QED
      BY <1>2, <1>3, <1>4
  <2> HIDE DEF ranks, places
  <2> QED
    BY <1>1, <1>4, <2>1
<1>5. CASE ranks # {}
  <2>1. ranks \in SUBSET Nat
    BY <1>2
  <2> DEFINE r == Merging!Min(ranks)
  <2>2. r \in ranks /\ \A q \in ranks : r <= q
    <3>1. \E x \in ranks : \A q \in ranks : x <= q
      <4> HIDE DEF ranks
      <4> QED
        BY <1>5, <2>1, LeastOf
    <3> HIDE DEF ranks
    <3> QED
      BY <3>1, Zenon DEF Merging!Min
  <2>3. PICK x \in I : r \in at_(x)
    BY <2>2
  <2>4. places \in SUBSET Nat /\ places # {}
    <3>1. I \subseteq Nat
      BY <1>2
    <3>2. x \in places
      BY <2>3
    <3> HIDE DEF I, ranks
    <3> QED
      BY <3>1, <3>2
  <2> DEFINE i == Merging!Min(places)
  <2>5. i \in places /\ \A j \in places : i <= j
    <3>1. \E y \in places : \A q \in places : y <= q
      <4> HIDE DEF places
      <4> QED
        BY <2>4, LeastOf
    <3> HIDE DEF places
    <3> QED
      BY <3>1, Zenon DEF Merging!Min
  <2>6. Merging!best_index(m, syms) = i
    <3> HIDE DEF ranks, places
    <3> QED
      BY <1>1, <1>5
  <2>7. i \in I /\ r \in DOMAIN m /\ m[r] = <<syms[i], syms[i + 1]>>
    BY <2>5
  <2>8. ASSUME NEW j \in I, NEW q \in 1..(r - 1) PROVE m[q] # <<syms[j], syms[j + 1]>>
    <3>1. q \in DOMAIN m /\ ~(r <= q)
      <4>1. r \in 1..Len(m)
        BY <1>2, <2>7, Zenon
      <4> HIDE DEF r, ranks, I
      <4>2. q \in 1..(r - 1)
        OBVIOUS
      <4> QED
        BY <1>2, <4>1, <4>2
    <3> HIDE DEF ranks, r, I
    <3> QED
      BY <1>3, <2>2, <3>1
  <2>9. ASSUME NEW j \in 1..(i - 1) PROVE m[r] # <<syms[j], syms[j + 1]>>
    <3>1. j \in I /\ ~(i <= j)
      <4> HIDE DEF i
      <4> QED
        BY <1>2, <2>7
    <3>2. j \notin places
      <4> HIDE DEF i, places
      <4> QED
        BY <2>5, <3>1
    <3>3. r \notin at_(j)
      <4> HIDE DEF at_, ranks
      <4> QED
        BY <3>1, <3>2
    <3> HIDE DEF r, i, places
    <3> QED
      BY <2>7, <3>3
  <2> HIDE DEF r, i
  <2> QED
    BY <1>2, <2>6, <2>7, <2>8, <2>9
<1> QED
  BY <1>4, <1>5

\* What a merge yields is no part of an earlier one.
LEMMA LaterOnly ==
  ASSUME NEW m, Trained(m), NEW r \in 1..Len(m), NEW j \in 1..(r - 1)
  PROVE  m[j][1] # m[r][1] \o m[r][2] /\ m[j][2] # m[r][1] \o m[r][2]
<1>1. Len(m) \in Nat
  BY DEF Trained
<1>2. j \in 1..Len(m)
  BY <1>1
<1>3. KnownBefore(m, j) \subseteq KnownBefore(m, r)
  <2>1. 1..(j - 1) \subseteq 1..(r - 1)
    BY <1>1
  <2> QED
    BY <2>1 DEF KnownBefore
<1>4. m[j][1] \in KnownBefore(m, j) /\ m[j][2] \in KnownBefore(m, j)
  BY <1>2, Zenon DEF Trained
<1>5. m[r][1] \o m[r][2] \notin KnownBefore(m, r)
  BY Zenon DEF Trained
<1> QED
  BY <1>3, <1>4, <1>5, Zenon

\* A round of the loop does not change where the merges in order lead.
LEMMA RoundKeepsEnd ==
  ASSUME NEW m, Trained(m), NEW syms \in Seq(Word), Merging!best_index(m, syms) # 0
  PROVE  LET w == Merging!merge_at(syms, Merging!best_index(m, syms))
         IN  w \in Seq(Word) /\ InOrder(m, w) = InOrder(m, syms)
<1> DEFINE i == Merging!best_index(m, syms)
           w == Merging!merge_at(syms, i)
           n == Len(syms)
           l == Len(m)
<1>1. m \in Seq(Word \X Word) /\ l \in Nat /\ n \in Nat
  BY DEF Trained
<1>2. i \in 1..(n - 1)
  BY <1>1, BestIndexIs
<1>3. PICK r \in 1..l :
        /\ m[r] = <<syms[i], syms[i + 1]>>
        /\ \A j \in 1..(n - 1), q \in 1..(r - 1) : m[q] # <<syms[j], syms[j + 1]>>
        /\ \A j \in 1..(i - 1) : m[r] # <<syms[j], syms[j + 1]>>
  BY <1>1, BestIndexIs
<1> DEFINE P == m[r][1] \o m[r][2]
<1> HIDE DEF i
<1>4. m[r] \in Word \X Word /\ m[r][1] = syms[i] /\ m[r][2] = syms[i + 1]
  BY <1>1, <1>3
<1>5. /\ w \in Seq(Word) /\ Len(w) = n - 1
      /\ \A j \in 1..(n - 1) : w[j] = IF j < i THEN syms[j] ELSE IF j = i THEN P ELSE syms[j + 1]
  BY <1>2, <1>4, MergeAtIs
<1>6. Merging!replace_all(w, m[r]) = Merging!replace_all(syms, m[r])
  <2>1. \A j \in 1..(i - 1) : ~(syms[j] = m[r][1] /\ syms[j + 1] = m[r][2])
    <3> SUFFICES ASSUME NEW j \in 1..(i - 1), syms[j] = m[r][1], syms[j + 1] = m[r][2] PROVE FALSE
      OBVIOUS
    <3>1. m[r] = <<m[r][1], m[r][2]>>
      BY <1>4
    <3> QED
      BY <1>3, <3>1
  <2> QED
    BY <1>2, <1>4, <2>1, FirstReplaced
<1> HIDE DEF w
<1>7. ASSUME NEW j \in 1..(r - 1), NEW k \in 1..(n - 1)
      PROVE  ~(syms[k] = m[j][1] /\ syms[k + 1] = m[j][2])
  <2>1. m[j] # <<syms[k], syms[k + 1]>>
    BY <1>3
  <2>2. m[j] \in Word \X Word
    <3>1. j \in 1..l
      BY <1>1
    <3> QED
      BY <1>1, <3>1
  <2>3. m[j] = <<m[j][1], m[j][2]>>
    BY <2>2
  <2> QED
    BY <2>1, <2>3, Zenon
<1>8. ASSUME NEW j \in 1..(r - 1), NEW k \in 1..(Len(w) - 1)
      PROVE  ~(w[k] = m[j][1] /\ w[k + 1] = m[j][2])
  <2>1. k \in 1..(n - 1) /\ k + 1 \in 1..(n - 1) /\ (k + 1) + 1 = k + 2
    BY <1>1, <1>5
  <2>2. m[j][1] # P /\ m[j][2] # P
    BY LaterOnly
  <2> HIDE DEF P, n
  <2>3. CASE k + 1 < i
    <3>1. k < i
      BY <2>1, <2>3, <1>1, <1>2
    <3>2. w[k] = syms[k] /\ w[k + 1] = syms[k + 1]
      BY <1>5, <2>1, <2>3, <3>1, Zenon
    <3> QED
      BY <1>7, <2>1, <3>2, Zenon
  <2>4. CASE k + 1 = i
    <3>1. ~(k + 1 < i)
      BY <2>1, <2>4, <1>1, <1>2
    <3>2. w[k + 1] = P
      BY <1>5, <2>1, <2>4, <3>1, Zenon
    <3> QED
      BY <2>2, <3>2
  <2>5. CASE k = i
    <3>1. ~(k < i)
      BY <2>1, <2>5, <1>1, <1>2
    <3>2. w[k] = P
      BY <1>5, <2>1, <2>5, <3>1, Zenon
    <3> QED
      BY <2>2, <3>2
  <2>6. CASE k > i
    <3>1. ~(k < i) /\ k # i /\ ~(k + 1 < i) /\ k + 1 # i
      BY <2>1, <2>6, <1>1, <1>2
    <3>2. w[k] = syms[k + 1] /\ w[k + 1] = syms[(k + 1) + 1]
      BY <1>5, <2>1, <3>1, Zenon
    <3> QED
      BY <1>7, <2>1, <3>2, Zenon
  <2>7. k + 1 < i \/ k + 1 = i \/ k = i \/ k > i
    BY <1>1, <1>2, <2>1
  <2> QED
    BY <2>3, <2>4, <2>5, <2>6, <2>7
<1>9. PICK u : Ordered(u, m, syms) /\ InOrder(m, syms) = u[l]
  BY <1>1, InOrderSteps
<1>10. PICK v : Ordered(v, m, w) /\ InOrder(m, w) = v[l]
  BY <1>1, <1>5, InOrderSteps
<1>11. r - 1 \in 0..l /\ r \in 1..l
  BY <1>1
<1>12. u[r - 1] = syms
  BY <1>1, <1>7, <1>9, <1>11, OrderedIdle
<1>13. v[r - 1] = w
  <2>1. r - 1 \in 0..Len(m) /\ w \in Seq(Word)
    BY <1>5, <1>11
  <2>2. \A j \in 1..(r - 1), k \in 1..(Len(w) - 1) : ~(w[k] = m[j][1] /\ w[k + 1] = m[j][2])
    BY <1>8
  <2> HIDE DEF l, n
  <2> QED
    BY <1>1, <1>10, <2>1, <2>2, OrderedIdle
<1>14. u[r] = v[r]
  <2>1. u[r] = Merging!replace_all(syms, m[r])
    BY <1>9, <1>12, Zenon DEF Ordered
  <2>2. v[r] = Merging!replace_all(w, m[r])
    BY <1>10, <1>13, Zenon DEF Ordered
  <2> QED
    BY <1>6, <2>1, <2>2
<1> DEFINE K == {k \in Nat : k <= l - r => u[r + k] = v[r + k]}
<1>15. 0 \in K
  <2>1. r + 0 = r
    BY <1>1
  <2> QED
    BY <1>14, <2>1
<1>16. ASSUME NEW k \in 1..(l - r), k - 1 \in K PROVE k \in K
  <2>1. k - 1 <= l - r /\ k \in Nat /\ r + (k - 1) = (r + k) - 1 /\ r + k \in 1..l
    BY <1>1
  <2>2. u[(r + k) - 1] = v[(r + k) - 1]
    BY <1>16, <2>1
  <2>3. u[r + k] = Merging!replace_all(u[(r + k) - 1], m[r + k])
    BY <1>9, <2>1, Zenon DEF Ordered
  <2>4. v[r + k] = Merging!replace_all(v[(r + k) - 1], m[r + k])
    BY <1>10, <2>1, Zenon DEF Ordered
  <2> QED
    BY <2>1, <2>2, <2>3, <2>4
<1>17. K \in SUBSET Nat
  OBVIOUS
<1> HIDE DEF K
<1>18. u[l] = v[l]
  <2>1. l - r \in Nat /\ l - r \in 0..(l - r) /\ r + (l - r) = l /\ l - r <= l - r
    BY <1>1
  <2>2. 0..(l - r) \subseteq K
    BY <1>15, <1>16, <1>17, <2>1, Upward, Zenon
  <2>3. u[r + (l - r)] = v[r + (l - r)]
    BY <2>1, <2>2 DEF K
  <2> QED
    BY <2>1, <2>3
<1> QED
  BY <1>5, <1>9, <1>10, <1>18 DEF i, w

\* When no pair is in the table any more, this is that end.
LEMMA EndIsEnd ==
  ASSUME NEW m \in Seq(Word \X Word), NEW syms \in Seq(Word), Merging!best_index(m, syms) = 0
  PROVE  InOrder(m, syms) = syms
<1>1. PICK u : Ordered(u, m, syms) /\ InOrder(m, syms) = u[Len(m)]
  BY InOrderSteps
<1>2. \A i \in 1..(Len(syms) - 1), j \in 1..Len(m) : m[j] # <<syms[i], syms[i + 1]>>
  <2>1. Merging!best_index(m, syms) \notin 1..(Len(syms) - 1)
    OBVIOUS
  <2> QED
    BY <2>1, BestIndexIs, Zenon
<1>3. ASSUME NEW j \in 1..Len(m), NEW i \in 1..(Len(syms) - 1)
      PROVE  ~(syms[i] = m[j][1] /\ syms[i + 1] = m[j][2])
  <2>1. m[j] \in Word \X Word
    OBVIOUS
  <2>2. m[j] = <<m[j][1], m[j][2]>>
    BY <2>1
  <2> QED
    BY <1>2, <2>2
<1>4. Len(m) \in 0..Len(m)
  OBVIOUS
<1> QED
  BY <1>1, <1>3, <1>4, OrderedIdle

LetterSymbols == [i \in DOMAIN piece |-> <<piece[i]>>]

OrderInv ==
  /\ Trained(merges)
  /\ symbols \in Seq(Word)
  /\ InOrder(merges, symbols) = InOrder(merges, LetterSymbols)

LEMMA OrderAtFirst ==
  ASSUME MaxMerges \in Nat, Merging!Init
  PROVE  OrderInv
<1>1. Trained(merges)
  BY TablesAreTrained DEF Merging!Init
<1>2. symbols = LetterSymbols
  BY DEF Merging!Init, LetterSymbols
<1>3. PICK n \in 2..MaxPiece : piece \in [1..n -> Letters]
  BY DEF Merging!Init
<1>4. \A x \in Letters : <<x>> \in Word
  BY DEF Word, String
<1>5. symbols \in Seq(Word)
  <2>1. symbols \in [1..n -> Word]
    BY <1>2, <1>3, <1>4 DEF LetterSymbols
  <2>2. n \in Nat
    OBVIOUS
  <2> QED
    BY <2>1, <2>2
<1> QED
  BY <1>1, <1>2, <1>5 DEF OrderInv

LEMMA OrderInvMeans == OrderInv => MergesInOrder
<1> SUFFICES ASSUME OrderInv, Merging!best_index(merges, symbols) = 0
             PROVE  symbols = InOrder(merges, LetterSymbols)
  BY Zenon DEF MergesInOrder, Merging!MergesInOrder, InOrder, LetterSymbols, Merging!FoldLeft,
       Merging!MapThenFoldSet, Merging!Max, Max
<1> QED
  BY EndIsEnd DEF OrderInv, Trained

(* The loop of encode_piece, which takes the best pair of the whole piece in *)
(* each round, ends where doing the merges in the order they were learned,   *)
(* each wherever it fits, ends, for every merge table that training can      *)
(* yield and every piece (encode.cpp, encode_piece).                         *)
THEOREM MergesStayInOrder == Merging!Spec => []MergesInOrder
<1>1. Merging!Init => OrderInv
  BY OrderAtFirst, TableAssumption
<1>2. OrderInv /\ [Merging!Next]_Merging!vars => OrderInv'
  <2> SUFFICES ASSUME OrderInv, [Merging!Next]_Merging!vars PROVE OrderInv'
    OBVIOUS
  <2>1. CASE Merging!MergeSymbols
    <3>1. /\ symbols' = Merging!merge_at(symbols, Merging!best_index(merges, symbols))
          /\ Merging!best_index(merges, symbols) # 0 /\ UNCHANGED <<merges, piece>>
      BY <2>1 DEF Merging!MergeSymbols
    <3>2. symbols' \in Seq(Word) /\ InOrder(merges, symbols') = InOrder(merges, symbols)
      BY <3>1, RoundKeepsEnd DEF OrderInv
    <3>3. LetterSymbols' = LetterSymbols
      BY <3>1 DEF LetterSymbols
    <3>4. InOrder(merges, symbols)' = InOrder(merges, symbols') /\ Trained(merges)' = Trained(merges)
            /\ InOrder(merges, LetterSymbols)' = InOrder(merges, LetterSymbols)
      BY <3>1, <3>3
    <3> QED
      BY <3>2, <3>4 DEF OrderInv
  <2>2. CASE Merging!MergeParts
    BY <2>2, Zenon DEF OrderInv, LetterSymbols, Merging!MergeParts
  <2>3. CASE UNCHANGED Merging!vars
    BY <2>3, Zenon DEF OrderInv, LetterSymbols, Merging!vars
  <2> QED
    BY <2>1, <2>2, <2>3 DEF Merging!Next
<1>3. OrderInv => MergesInOrder
  BY OrderInvMeans
<1> QED
  BY <1>1, <1>2, <1>3, PTL DEF Merging!Spec

----------------------------------------------------------------------------
(* Recursion along a text *)

\* A function on the numbers up to n that asks for its own value one before.
Ascends(f, n, b, h) == f[0] = b /\ \A k \in 1..n : f[k] = h[<<k, f[k - 1]>>]

LEMMA RecursionExists ==
  ASSUME NEW n \in Nat, NEW Y, NEW b \in Y, NEW h \in [(1..n) \X Y -> Y]
  PROVE  \E f \in [0..n -> Y] : Ascends(f, n, b, h)
<1>1. PICK g \in [SUBSET (1..n) -> Y] : TakesLargest(g, n, b, h)
  BY IterationExists
<1> DEFINE f == [k \in 0..n |-> g[1..k]]
<1>2. f \in [0..n -> Y]
  <2>1. \A k \in 0..n : 1..k \in SUBSET (1..n)
    OBVIOUS
  <2> QED BY <2>1, <1>1
<1>3. f[0] = b
  <2>1. 1..0 = {} /\ {} \in SUBSET (1..n)
    OBVIOUS
  <2>2. f[0] = g[{}]
    BY <2>1
  <2> QED BY <2>1, <2>2, <1>1 DEF TakesLargest
<1>4. ASSUME NEW k \in 1..n PROVE f[k] = h[<<k, f[k - 1]>>]
  <2>1. 1..k # {} /\ Max(1..k) = k /\ (1..k) \ {k} = 1..(k - 1)
    BY UpTo
  <2>2. 1..k \in SUBSET (1..n) /\ k - 1 \in 0..n /\ k \in 0..n
    OBVIOUS
  <2>3. g[1..k] = h[<<Max(1..k), g[(1..k) \ {Max(1..k)}]>>]
    BY <2>1, <2>2, <1>1 DEF TakesLargest
  <2>4. f[k] = g[1..k] /\ f[k - 1] = g[1..(k - 1)]
    BY <2>2
  <2> QED BY <2>1, <2>3, <2>4
<1>5. Ascends(f, n, b, h)
  BY <1>3, <1>4 DEF Ascends
<1> QED BY <1>2, <1>5

\* What holds at the end and passes from all later places to a place holds everywhere.
LEMMA Downward ==
  ASSUME NEW n \in Nat, NEW K, n + 1 \in K,
         \A i \in 1..n : (i + 1)..(n + 1) \subseteq K => i \in K
  PROVE  1..(n + 1) \subseteq K
<1> DEFINE L == {k \in Nat : k <= n => (n + 1 - k)..(n + 1) \subseteq K}
<1>1. 0 \in L
  OBVIOUS
<1>2. ASSUME NEW k \in 1..n, k - 1 \in L PROVE k \in L
  <2>1. (n + 1 - k + 1)..(n + 1) \subseteq K
    BY <1>2
  <2>2. n + 1 - k \in 1..n
    OBVIOUS
  <2>3. n + 1 - k \in K
    BY <2>1, <2>2
  <2>4. (n + 1 - k)..(n + 1) \subseteq {n + 1 - k} \cup (n + 1 - k + 1)..(n + 1)
    OBVIOUS
  <2> QED BY <2>1, <2>3, <2>4
<1>3. 0..n \subseteq L
  BY <1>1, <1>2, Upward
<1>4. 1..(n + 1) \subseteq K
  BY <1>3
<1> QED BY <1>4

\* A function on the places of a text that asks for its own value further on.
Descends(f, n, b, step, h) ==
  f[n + 1] = b /\ \A i \in 1..n : f[i] = h[<<i, f[step[i]]>>]

LEMMA DescentExists ==
  ASSUME NEW n \in Nat, NEW Y, NEW b \in Y, NEW step, NEW h \in [(1..n) \X Y -> Y],
         \A i \in 1..n : step[i] \in (i + 1)..(n + 1)
  PROVE  \E f \in [1..(n + 1) -> Y] : Descends(f, n, b, step, h)
<1> DEFINE Reached(f, k) ==
             /\ f[n + 1] = b
             /\ \A i \in (n + 1 - k)..n : f[i] = h[<<i, f[step[i]]>>]
           K == {k \in Nat : k <= n => \E f \in [(n + 1 - k)..(n + 1) -> Y] : Reached(f, k)}
<1>1. 0 \in K
  <2> DEFINE f == [i \in (n + 1)..(n + 1) |-> b]
  <2>1. f \in [(n + 1 - 0)..(n + 1) -> Y] /\ Reached(f, 0)
    OBVIOUS
  <2> QED BY <2>1
<1>2. ASSUME NEW k \in 1..n, k - 1 \in K PROVE k \in K
  <2> DEFINE m == n + 1 - k
  <2>1. PICK f \in [(m + 1)..(n + 1) -> Y] : Reached(f, k - 1)
    BY <1>2
  <2> DEFINE g == [i \in m..(n + 1) |-> IF i = m THEN h[<<m, f[step[m]]>>] ELSE f[i]]
  <2>2. m \in 1..n
    OBVIOUS
  <2>3. step[m] \in (m + 1)..(n + 1)
    BY <2>2
  <2>4. h[<<m, f[step[m]]>>] \in Y
    BY <2>1, <2>2, <2>3
  <2>5. g \in [m..(n + 1) -> Y]
    BY <2>1, <2>4
  <2>6. ASSUME NEW i \in m..n PROVE g[i] = h[<<i, g[step[i]]>>]
    <3>1. i \in 1..n /\ step[i] \in (i + 1)..(n + 1)
      BY <2>2
    <3>2. g[step[i]] = f[step[i]]
      BY <3>1, <2>2
    <3>3. CASE i = m
      <4>1. m \in m..(n + 1)
        BY <2>2
      <4>2. g[m] = h[<<m, f[step[m]]>>]
        BY <4>1
      <4> QED BY <4>2, <3>2, <3>3
    <3>4. CASE i # m
      <4>1. i \in (n + 1 - (k - 1))..n
        BY <3>4, <2>2
      <4>2. f[i] = h[<<i, f[step[i]]>>]
        BY <4>1, <2>1
      <4>3. g[i] = f[i]
        BY <3>1, <3>4
      <4> HIDE DEF g
      <4> QED BY <4>2, <4>3, <3>2, Zenon
    <3> QED BY <3>3, <3>4
  <2>7. g[n + 1] = b
    BY <2>1, <2>2
  <2> HIDE DEF g
  <2>8. Reached(g, k)
    BY <2>6, <2>7
  <2>9. \E ff \in [(n + 1 - k)..(n + 1) -> Y] : Reached(ff, k)
    BY <2>5, <2>8, Zenon
  <2>10. k \in Nat
    OBVIOUS
  <2> HIDE DEF Part
  <2> QED BY <2>9, <2>10
<1>3. 0..n \subseteq K
  BY <1>1, <1>2, Upward
<1>4. PICK f \in [(n + 1 - n)..(n + 1) -> Y] : Reached(f, n)
  BY <1>3
<1> QED BY <1>4 DEF Descends

----------------------------------------------------------------------------
(* Sequences of sequences *)

LEMMA Grouped ==
  ASSUME NEW S, NEW a \in Seq(S), NEW b \in Seq(S), NEW c \in Seq(S)
  PROVE  /\ (a \o b) \o c = a \o (b \o c)
         /\ <<>> \o a = a /\ a \o <<>> = a
OBVIOUS

LEMMA Shorter ==
  ASSUME NEW S, NEW t \in Seq(S), NEW k \in 1..Len(t)
  PROVE  /\ SubSeq(t, 1, k - 1) \in Seq(S) /\ t[k] \in S
         /\ SubSeq(t, 1, k) = Append(SubSeq(t, 1, k - 1), t[k])
         /\ Len(SubSeq(t, 1, k)) = k
OBVIOUS

LEMMA AllOfIt ==
  ASSUME NEW S, NEW t \in Seq(S)
  PROVE  SubSeq(t, 1, Len(t)) = t /\ SubSeq(t, 1, 0) = <<>>
OBVIOUS

\* What the empty sequence has and every element added to it keeps, every sequence has.
LEMMA ByAppending ==
  ASSUME NEW S, NEW P, <<>> \in P, \A a \in Seq(S), x \in S : a \in P => Append(a, x) \in P
  PROVE  Seq(S) \subseteq P
<1> SUFFICES ASSUME NEW t \in Seq(S) PROVE t \in P
  OBVIOUS
<1> DEFINE K == {k \in Nat : k <= Len(t) => SubSeq(t, 1, k) \in P}
<1>1. 0 \in K
  BY AllOfIt
<1>2. ASSUME NEW k \in 1..Len(t), k - 1 \in K PROVE k \in K
  <2>1. SubSeq(t, 1, k - 1) \in P
    BY <1>2
  <2>2. SubSeq(t, 1, k - 1) \in Seq(S) /\ t[k] \in S
    BY Shorter
  <2>3. Append(SubSeq(t, 1, k - 1), t[k]) \in P
    BY <2>1, <2>2
  <2>4. SubSeq(t, 1, k) = Append(SubSeq(t, 1, k - 1), t[k])
    BY Shorter
  <2>5. SubSeq(t, 1, k) \in P
    BY <2>3, <2>4, Zenon
  <2> QED BY <2>5
<1>3. 0..Len(t) \subseteq K
  <2>1. Len(t) \in Nat
    OBVIOUS
  <2> HIDE DEF K
  <2>2. K \in SUBSET Nat
    BY DEF K
  <2> QED BY <1>1, <1>2, <2>1, <2>2, Upward
<1>4. SubSeq(t, 1, Len(t)) \in P
  BY <1>3
<1> QED BY <1>4, AllOfIt

LEMMA Appended ==
  ASSUME NEW S, NEW a \in Seq(S), NEW x \in S
  PROVE  /\ Append(a, x) \in Seq(S) /\ Append(a, x) = a \o <<x>> /\ <<x>> \in Seq(S)
         /\ Len(Append(a, x)) = Len(a) + 1
         /\ \A i \in 1..(Len(a) + 1) : Append(a, x)[i] = IF i <= Len(a) THEN a[i] ELSE x
OBVIOUS

\* What is built up while a sequence of sequences is flattened.
Flattened(f, ss, S) ==
  /\ f \in [0..Len(ss) -> Seq(S)]
  /\ f[0] = <<>>
  /\ \A k \in 1..Len(ss) : f[k] = f[k - 1] \o ss[k]

LEMMA FlattenIs ==
  ASSUME NEW S, NEW ss \in Seq(Seq(S))
  PROVE  \E f : Flattened(f, ss, S) /\ FlattenSeq(ss) = f[Len(ss)]
<1> DEFINE n == Len(ss)
           h == [x \in (1..n) \X Seq(S) |-> x[2] \o ss[x[1]]]
           Eq(fl) == fl = [i \in 1..n |-> IF i = 1 THEN ss[i] ELSE fl[i - 1] \o ss[i]]
<1>0. n \in Nat /\ <<>> \in Seq(S) /\ \A k \in 1..n : ss[k] \in Seq(S)
  OBVIOUS
<1>1. h \in [(1..n) \X Seq(S) -> Seq(S)]
  OBVIOUS
<1>2a. PICK f \in [0..n -> Seq(S)] : Ascends(f, n, <<>>, h)
  <2> DEFINE Y == Seq(S)
  <2>1. <<>> \in Y /\ h \in [(1..n) \X Y -> Y]
    BY <1>0, <1>1
  <2> HIDE DEF h, n, Y
  <2>2. \E f \in [0..n -> Y] : Ascends(f, n, <<>>, h)
    BY <1>0, <2>1, RecursionExists
  <2> QED BY <2>2 DEF Y
<1>2. f[0] = <<>> /\ \A k \in 1..n : f[k] = h[<<k, f[k - 1]>>]
  BY <1>2a DEF Ascends
<1>3. \A k \in 1..n : f[k] = f[k - 1] \o ss[k]
  <2> TAKE k \in 1..n
  <2>1. k - 1 \in 0..n
    BY <1>0
  <2>2. f[k - 1] \in Seq(S)
    BY <2>1, <1>2
  <2>3. <<k, f[k - 1]>> \in (1..n) \X Seq(S)
    BY <2>2
  <2>4. h[<<k, f[k - 1]>>] = f[k - 1] \o ss[k]
    BY <2>3
  <2> HIDE DEF h
  <2> QED BY <2>4, <1>2
<1>4. Flattened(f, ss, S)
  BY <1>2, <1>3 DEF Flattened
<1>5. CASE n = 0
  <2>1. ss = <<>>
    BY <1>5
  <2> QED BY <2>1, <1>2, <1>4, <1>5 DEF FlattenSeq
<1>6. CASE n # 0
  <2> DEFINE g == [i \in 1..n |-> f[i]]
             c == CHOOSE fl : Eq(fl)
  <2>1. Eq(g)
    <3>1. ASSUME NEW i \in 1..n PROVE f[i] = IF i = 1 THEN ss[i] ELSE g[i - 1] \o ss[i]
      <4>1. CASE i = 1
        <5>1. f[1] = f[1 - 1] \o ss[1] /\ ss[1] \in Seq(S)
          BY <4>1, <1>0, <1>3
        <5>2. f[1 - 1] = <<>>
          BY <1>2
        <5>3. f[1] = ss[1]
          BY <5>1, <5>2, Grouped
        <5> QED BY <5>3, <4>1
      <4>2. CASE i # 1
        <5>1. i - 1 \in 1..n
          BY <4>2, <1>0
        <5> QED BY <5>1, <4>2, <1>3
      <4> QED BY <4>1, <4>2
    <3> QED BY <3>1
  <2>2. Eq(c)
    <3> HIDE DEF Eq, g
    <3> QED BY <2>1
  <2>3. FlattenSeq(ss) = c[n]
    BY <1>6 DEF FlattenSeq
  <2> DEFINE K == {k \in Nat : k \in 1..n => c[k] = f[k]}
  <2>4. 0 \in K
    OBVIOUS
  <2>5. ASSUME NEW k \in 1..n, k - 1 \in K PROVE k \in K
    <3>1. c[k] = IF k = 1 THEN ss[k] ELSE c[k - 1] \o ss[k]
      <4> HIDE DEF c
      <4> QED BY <2>2
    <3>2. CASE k = 1
      <4>1. f[1] = f[1 - 1] \o ss[1] /\ ss[1] \in Seq(S)
        BY <3>2, <1>0, <1>3
      <4>2. f[1 - 1] = <<>>
        BY <1>2
      <4>3. f[1] = ss[1]
        BY <4>1, <4>2, Grouped
      <4> HIDE DEF c
      <4> QED BY <4>3, <3>1, <3>2
    <3>3. CASE k # 1
      <4>1. k - 1 \in 1..n
        BY <3>3, <1>0
      <4>2. c[k - 1] = f[k - 1]
        BY <4>1, <2>5
      <4> HIDE DEF c
      <4>3. c[k] = c[k - 1] \o ss[k] /\ f[k] = f[k - 1] \o ss[k]
        BY <3>1, <3>3, <1>3
      <4>4. c[k] = f[k] /\ k \in Nat
        BY <4>2, <4>3
      <4> QED BY <4>4
    <3> QED BY <3>2, <3>3
  <2>6. 0..n \subseteq K
    <3>1. K \in SUBSET Nat
      OBVIOUS
    <3> HIDE DEF K, n
    <3> QED BY <2>4, <2>5, <3>1, <1>0, Upward
  <2>7. c[n] = f[n]
    <3> HIDE DEF c
    <3> QED BY <2>6, <1>6, <1>0
  <2> QED BY <2>3, <2>7, <1>4
<1> QED BY <1>5, <1>6

LEMMA FlattenIn ==
  ASSUME NEW S, NEW ss \in Seq(Seq(S))
  PROVE  FlattenSeq(ss) \in Seq(S)
<1>1. PICK f : Flattened(f, ss, S) /\ FlattenSeq(ss) = f[Len(ss)]
  BY FlattenIs
<1> QED BY <1>1 DEF Flattened

LEMMA FlattenEmpty ==
  FlattenSeq(<<>>) = <<>>
BY DEF FlattenSeq

LEMMA FlattenAppend ==
  ASSUME NEW S, NEW ss \in Seq(Seq(S)), NEW x \in Seq(S)
  PROVE  FlattenSeq(Append(ss, x)) = FlattenSeq(ss) \o x
<1> DEFINE tt == Append(ss, x)
           n == Len(ss)
<1>0. /\ tt \in Seq(Seq(S)) /\ n \in Nat /\ Len(tt) = n + 1 /\ tt[n + 1] = x
      /\ \A i \in 1..n : tt[i] = ss[i]
  OBVIOUS
<1>1. PICK f : Flattened(f, ss, S) /\ FlattenSeq(ss) = f[n]
  BY FlattenIs
<1>2. PICK g : Flattened(g, tt, S) /\ FlattenSeq(tt) = g[n + 1]
  <2> HIDE DEF tt
  <2> QED BY <1>0, FlattenIs
<1> DEFINE K == {k \in Nat : k <= n => g[k] = f[k]}
<1> HIDE DEF tt
<1>3. 0 \in K
  BY <1>1, <1>2 DEF Flattened
<1>4. ASSUME NEW k \in 1..n, k - 1 \in K PROVE k \in K
  <2>1. g[k] = g[k - 1] \o tt[k] /\ f[k] = f[k - 1] \o ss[k]
    <3>1. k \in 1..Len(tt) /\ k \in 1..Len(ss)
      BY <1>0
    <3> QED BY <3>1, <1>1, <1>2 DEF Flattened
  <2>2. g[k - 1] = f[k - 1] /\ tt[k] = ss[k]
    BY <1>0, <1>4
  <2>3. g[k] = f[k] /\ k \in Nat
    BY <2>1, <2>2
  <2> QED BY <2>3
<1>5. 0..n \subseteq K
  <2>1. K \in SUBSET Nat
    OBVIOUS
  <2> HIDE DEF K
  <2> QED BY <1>0, <1>3, <1>4, <2>1, Upward
<1>6. g[n] = f[n]
  <2>1. n \in 0..n
    BY <1>0
  <2>2. n \in K
    BY <2>1, <1>5, Zenon
  <2> QED BY <2>2
<1>7. g[n + 1] = g[n] \o tt[n + 1]
  <2>1. n + 1 \in 1..Len(tt) /\ n + 1 - 1 = n
    BY <1>0
  <2> QED BY <2>1, <1>2 DEF Flattened
<1> QED BY <1>0, <1>1, <1>2, <1>6, <1>7 DEF tt

LEMMA FlattenConcat ==
  ASSUME NEW S, NEW a \in Seq(Seq(S)), NEW b \in Seq(Seq(S))
  PROVE  FlattenSeq(a \o b) = FlattenSeq(a) \o FlattenSeq(b)
<1> DEFINE P == {c \in Seq(Seq(S)) : FlattenSeq(a \o c) = FlattenSeq(a) \o FlattenSeq(c)}
<1>1. <<>> \in P
  <2>1. FlattenSeq(a) \in Seq(S)
    BY FlattenIn
  <2> QED BY <2>1, FlattenEmpty, Grouped
<1>2. ASSUME NEW c \in Seq(Seq(S)), NEW x \in Seq(S), c \in P PROVE Append(c, x) \in P
  <2>1. a \o Append(c, x) = Append(a \o c, x) /\ a \o c \in Seq(Seq(S))
        /\ Append(c, x) \in Seq(Seq(S))
    OBVIOUS
  <2>2. FlattenSeq(a \o Append(c, x)) = FlattenSeq(a \o c) \o x
    BY <2>1, FlattenAppend
  <2>3. FlattenSeq(Append(c, x)) = FlattenSeq(c) \o x
    BY FlattenAppend
  <2>4. FlattenSeq(a) \in Seq(S) /\ FlattenSeq(c) \in Seq(S)
    BY FlattenIn
  <2>5. (FlattenSeq(a) \o FlattenSeq(c)) \o x = FlattenSeq(a) \o (FlattenSeq(c) \o x)
    BY <2>4, Grouped
  <2> QED BY <2>1, <2>2, <2>3, <2>5, <1>2
<1>3. Seq(Seq(S)) \subseteq P
  <2> HIDE DEF P
  <2> QED BY <1>1, <1>2, ByAppending
<1> QED BY <1>3

----------------------------------------------------------------------------
(* A function along a sequence *)

Mapped(F, t) == [i \in DOMAIN t |-> F[t[i]]]

LEMMA MappedIs ==
  \A S, T : \A F \in [S -> T], t \in Seq(S) :
     Mapped(F, t) \in Seq(T) /\ Len(Mapped(F, t)) = Len(t)
BY DEF Mapped

LEMMA MappedAppend ==
  \A S, T : \A F \in [S -> T], t \in Seq(S), x \in S :
     Mapped(F, Append(t, x)) = Append(Mapped(F, t), F[x])
<1> SUFFICES ASSUME NEW S, NEW T, NEW F \in [S -> T], NEW t \in Seq(S), NEW x \in S
             PROVE  Mapped(F, Append(t, x)) = Append(Mapped(F, t), F[x])
  OBVIOUS
<1>1. Mapped(F, t) \in Seq(T) /\ F[x] \in T /\ Append(t, x) \in Seq(S)
  BY MappedIs
<1>2. Mapped(F, Append(t, x)) \in Seq(T)
  BY <1>1, MappedIs, Zenon
<1>3. Len(Mapped(F, Append(t, x))) = Len(t) + 1
  <2>1. Len(Mapped(F, Append(t, x))) = Len(Append(t, x))
    BY <1>1 DEF Mapped
  <2> QED BY <2>1, Appended
<1>4. Len(Append(Mapped(F, t), F[x])) = Len(t) + 1
  <2>1. Len(Mapped(F, t)) = Len(t)
    BY DEF Mapped
  <2> QED BY <2>1, <1>1, Appended
<1>5. ASSUME NEW i \in 1..(Len(t) + 1)
      PROVE  Mapped(F, Append(t, x))[i] = Append(Mapped(F, t), F[x])[i]
  <2>1. i \in 1..Len(Append(t, x))
    BY Appended
  <2>2. Mapped(F, Append(t, x))[i] = F[Append(t, x)[i]]
    <3> DEFINE tx == Append(t, x)
    <3>1. tx \in Seq(S)
      BY <1>1
    <3> HIDE DEF tx
    <3>2. \A j \in 1..Len(tx) : Mapped(F, tx)[j] = F[tx[j]]
      BY <3>1 DEF Mapped
    <3> QED BY <3>2, <2>1 DEF tx
  <2>3. Append(t, x)[i] = IF i <= Len(t) THEN t[i] ELSE x
    BY Appended
  <2>4. Append(Mapped(F, t), F[x])[i] = IF i <= Len(t) THEN Mapped(F, t)[i] ELSE F[x]
    BY <1>1, Appended, MappedIs
  <2>5. i <= Len(t) => Mapped(F, t)[i] = F[t[i]]
    BY DEF Mapped
  <2> QED BY <2>2, <2>3, <2>4, <2>5
<1>6. Append(Mapped(F, t), F[x]) \in Seq(T)
  BY <1>1
<1> QED BY <1>2, <1>3, <1>4, <1>5, <1>6

----------------------------------------------------------------------------
(* UTF-8, one character *)

LEMMA CodepointsAre ==
  \A c : c \in Codepoint <=> c \in Nat /\ c <= 1114111
<1>1. MAX_CODEPOINTS \in Nat /\ MAX_CODEPOINTS <= 1114112 /\ MAX_CODEPOINTS > 1114111
  BY SMT DEF MAX_CODEPOINTS
<1> QED BY <1>1, SMT DEF Codepoint

\* The last bits of a number and the bits before them.
LEMMA DigitsOf ==
  ASSUME NEW c \in Nat
  PROVE  \E x1, x2, x3, x4 \in Nat :
           /\ x2 <= 63 /\ x3 <= 63 /\ x4 <= 63
           /\ c = 262144 * x1 + 4096 * x2 + 64 * x3 + x4
           /\ c \div 262144 = x1 /\ (c \div 4096) % 64 = x2 /\ (c \div 64) % 64 = x3
           /\ c % 64 = x4 /\ c \div 4096 = 64 * x1 + x2
           /\ c \div 64 = 4096 * x1 + 64 * x2 + x3
BY SMT

LEMMA TrailingIs ==
  \A b : b \in Trailing <=> b \in Nat /\ 128 <= b /\ b <= 191
BY SMT DEF Trailing

LEMMA WidthIs ==
  ASSUME NEW b \in Nat
  PROVE  /\ b < 128 => width(b) = 1
         /\ 192 <= b /\ b <= 223 => width(b) = 2
         /\ 224 <= b /\ b <= 239 => width(b) = 3
         /\ 240 <= b /\ b <= 247 => width(b) = 4
         /\ width(b) \in {0, 1, 2, 3, 4}
BY SMT DEF width

LEMMA BytesAre ==
  \A b : b \in Byte <=> b \in Nat /\ b <= 255
BY SMT DEF Byte

\* The bytes of a character: the first tells how many there are, and only the others are Trailing.
Character(e) ==
  /\ e \in Seq(Byte) /\ Len(e) \in {1, 2, 3, 4}
  /\ e[1] \notin Trailing /\ width(e[1]) = Len(e)
  /\ \A j \in 2..Len(e) : e[j] \in Trailing

LEMMA Utf8Forms ==
  ASSUME NEW c \in Codepoint
  PROVE  /\ c <= 127 => unicode_cpt_to_utf8(c) = <<c>>
         /\ 128 <= c /\ c <= 2047 =>
              unicode_cpt_to_utf8(c) = <<192 + c \div 64, 128 + (c % 64)>>
         /\ 2048 <= c /\ c <= 65535 =>
              unicode_cpt_to_utf8(c) =
                <<224 + c \div 4096, 128 + ((c \div 64) % 64), 128 + (c % 64)>>
         /\ 65536 <= c =>
              unicode_cpt_to_utf8(c) =
                <<240 + c \div 262144, 128 + ((c \div 4096) % 64), 128 + ((c \div 64) % 64),
                  128 + (c % 64)>>
<1>0. c \in Nat /\ c <= 1114111
  BY CodepointsAre, SMT
<1> QED BY <1>0, SMT DEF unicode_cpt_to_utf8, MaxCodepoint

LEMMA Utf8Is ==
  ASSUME NEW c \in Codepoint
  PROVE  Character(unicode_cpt_to_utf8(c))
<1>0. c \in Nat /\ c <= 1114111
  BY CodepointsAre, SMT
<1>1. CASE c <= 127
  <2>1. unicode_cpt_to_utf8(c) = <<c>>
    BY <1>1, Utf8Forms, SMT
  <2>2. width(c) = 1 /\ c \in Byte /\ c \notin Trailing
    BY <1>0, <1>1, WidthIs, BytesAre, TrailingIs, SMT
  <2> QED BY <2>1, <2>2, SMT DEF Character
<1> PICK x1, x2, x3, x4 \in Nat :
      /\ x2 <= 63 /\ x3 <= 63 /\ x4 <= 63
      /\ c = 262144 * x1 + 4096 * x2 + 64 * x3 + x4
      /\ c \div 262144 = x1 /\ (c \div 4096) % 64 = x2 /\ (c \div 64) % 64 = x3
      /\ c % 64 = x4 /\ c \div 4096 = 64 * x1 + x2
      /\ c \div 64 = 4096 * x1 + 64 * x2 + x3
  BY <1>0, DigitsOf, SMT
<1>2. CASE 128 <= c /\ c <= 2047
  <2> DEFINE a1 == 192 + c \div 64
             a2 == 128 + (c % 64)
  <2>1. unicode_cpt_to_utf8(c) = <<a1, a2>>
    BY <1>2, Utf8Forms, SMT
  <2>2. a1 \in Nat /\ 192 <= a1 /\ a1 <= 223 /\ a2 \in Nat /\ 128 <= a2 /\ a2 <= 191
    BY <1>2, SMT
  <2> HIDE DEF a1, a2
  <2>3. width(a1) = 2 /\ a1 \in Byte /\ a2 \in Byte /\ a1 \notin Trailing /\ a2 \in Trailing
    BY <2>2, WidthIs, BytesAre, TrailingIs, SMT
  <2> DEFINE e == <<a1, a2>>
  <2>4. e \in Seq(Byte) /\ Len(e) = 2 /\ e[1] = a1 /\ e[2] = a2
    BY <2>3, SMT
  <2> HIDE DEF e
  <2>5. \A j \in 2..Len(e) : e[j] \in Trailing
    BY <2>3, <2>4, SMT
  <2>6. Character(e)
    BY <2>3, <2>4, <2>5, SMT DEF Character
  <2> QED BY <2>1, <2>6, SMT DEF e
<1>3. CASE 2048 <= c /\ c <= 65535
  <2> DEFINE a1 == 224 + c \div 4096
             a2 == 128 + ((c \div 64) % 64)
             a3 == 128 + (c % 64)
  <2>1. unicode_cpt_to_utf8(c) = <<a1, a2, a3>>
    BY <1>3, Utf8Forms, SMT
  <2>2. /\ a1 \in Nat /\ 224 <= a1 /\ a1 <= 239 /\ a2 \in Nat /\ 128 <= a2 /\ a2 <= 191
        /\ a3 \in Nat /\ 128 <= a3 /\ a3 <= 191
    BY <1>3, SMT
  <2> HIDE DEF a1, a2, a3
  <2>3. /\ width(a1) = 3 /\ a1 \in Byte /\ a2 \in Byte /\ a3 \in Byte
        /\ a1 \notin Trailing /\ a2 \in Trailing /\ a3 \in Trailing
    BY <2>2, WidthIs, BytesAre, TrailingIs, SMT
  <2> DEFINE e == <<a1, a2, a3>>
  <2>4. e \in Seq(Byte) /\ Len(e) = 3 /\ e[1] = a1 /\ e[2] = a2 /\ e[3] = a3
    BY <2>3, SMT
  <2> HIDE DEF e
  <2>5. \A j \in 2..Len(e) : e[j] \in Trailing
    BY <2>3, <2>4, SMT
  <2>6. Character(e)
    BY <2>3, <2>4, <2>5, SMT DEF Character
  <2> QED BY <2>1, <2>6, SMT DEF e
<1>4. CASE 65536 <= c
  <2> DEFINE a1 == 240 + c \div 262144
             a2 == 128 + ((c \div 4096) % 64)
             a3 == 128 + ((c \div 64) % 64)
             a4 == 128 + (c % 64)
  <2>1. unicode_cpt_to_utf8(c) = <<a1, a2, a3, a4>>
    BY <1>4, Utf8Forms, SMT
  <2>2. /\ a1 \in Nat /\ 240 <= a1 /\ a1 <= 247 /\ a2 \in Nat /\ 128 <= a2 /\ a2 <= 191
        /\ a3 \in Nat /\ 128 <= a3 /\ a3 <= 191 /\ a4 \in Nat /\ 128 <= a4 /\ a4 <= 191
    BY <1>0, <1>4, SMT
  <2> HIDE DEF a1, a2, a3, a4
  <2>3. /\ width(a1) = 4 /\ a1 \in Byte /\ a2 \in Byte /\ a3 \in Byte /\ a4 \in Byte
        /\ a1 \notin Trailing /\ a2 \in Trailing /\ a3 \in Trailing /\ a4 \in Trailing
    BY <2>2, WidthIs, BytesAre, TrailingIs, SMT
  <2> DEFINE e == <<a1, a2, a3, a4>>
  <2>4. e \in Seq(Byte) /\ Len(e) = 4 /\ e[1] = a1 /\ e[2] = a2 /\ e[3] = a3 /\ e[4] = a4
    BY <2>3, SMT
  <2> HIDE DEF e
  <2>5. \A j \in 2..Len(e) : e[j] \in Trailing
    BY <2>3, <2>4, SMT
  <2>6. Character(e)
    BY <2>3, <2>4, <2>5, SMT DEF Character
  <2> QED BY <2>1, <2>6, SMT DEF e
<1> QED BY <1>0, <1>1, <1>2, <1>3, <1>4, SMT

\* What is read where the first byte announces n.
Value(u, i, n) ==
  CASE n = 1 -> u[i]
    [] n = 2 -> 64 * (u[i] % 32) + (u[i + 1] % 64)
    [] n = 3 -> 4096 * (u[i] % 16) + 64 * (u[i + 1] % 64) + (u[i + 2] % 64)
    [] n = 4 -> 262144 * (u[i] % 8) + 4096 * (u[i + 1] % 64) + 64 * (u[i + 2] % 64)
                  + (u[i + 3] % 64)

Whole(u, i, n) ==
  /\ n > 0 /\ i + n - 1 <= Len(u)
  /\ \A j \in 1..(n - 1) : u[i + j] \in Trailing

LEMMA ReadIs ==
  ASSUME NEW u, NEW i
  PROVE  LET n == width(u[i])
         IN  unicode_cpt_from_utf8(u, i) =
               IF Whole(u, i, n) THEN [cpt |-> Value(u, i, n), next |-> i + n] ELSE Invalid
BY SMT DEF unicode_cpt_from_utf8, Whole, Value

\* The character c stands at i.
Stands(u, i, c) ==
  LET e == unicode_cpt_to_utf8(c)
  IN  /\ i + Len(e) - 1 <= Len(u)
      /\ \A j \in 1..Len(e) : u[i + j - 1] = e[j]

LEMMA ReadsBack ==
  ASSUME NEW c \in Codepoint, NEW u \in Seq(Byte), NEW i \in 1..Len(u), Stands(u, i, c)
  PROVE  unicode_cpt_from_utf8(u, i) = [cpt |-> c, next |-> i + Len(unicode_cpt_to_utf8(c))]
<1>0. c \in Nat /\ c <= 1114111
  BY CodepointsAre, SMT
<1> DEFINE e == unicode_cpt_to_utf8(c)
           n == Len(e)
           bits(j) == u[i + j] % 64
<1>1. /\ e \in Seq(Byte) /\ n \in {1, 2, 3, 4} /\ width(e[1]) = n
      /\ \A j \in 2..n : e[j] \in Trailing
  BY Utf8Is, SMT DEF Character
<1>2. /\ i \in Nat \ {0} /\ Len(u) \in Nat /\ i + n - 1 <= Len(u)
      /\ \A j \in 1..n : u[i + j - 1] = e[j]
  BY SMT DEF Stands
<1> HIDE DEF e
<1>3. u[i] = e[1]
  <2>1. 1 \in 1..n /\ i + 1 - 1 = i
    BY <1>1, <1>2, SMT
  <2> QED BY <2>1, <1>2, SMT
<1>4. \A j \in 1..(n - 1) : u[i + j] = e[j + 1] /\ u[i + j] \in Trailing
  <2> TAKE j \in 1..(n - 1)
  <2>1. j + 1 \in 1..n /\ j + 1 \in 2..n /\ i + (j + 1) - 1 = i + j
    BY <1>1, <1>2, SMT
  <2> QED BY <2>1, <1>1, <1>2, SMT
<1> DEFINE v == Value(u, i, n)
<1>5. unicode_cpt_from_utf8(u, i) = [cpt |-> v, next |-> i + n]
  <2>1. Whole(u, i, n) /\ width(u[i]) = n
    BY <1>1, <1>2, <1>3, <1>4, SMT DEF Whole
  <2> HIDE DEF n
  <2> QED BY <2>1, ReadIs, SMT
<1>6. v = c
  <2>0. PICK x1, x2, x3, x4 \in Nat :
        /\ x2 <= 63 /\ x3 <= 63 /\ x4 <= 63
        /\ c = 262144 * x1 + 4096 * x2 + 64 * x3 + x4
        /\ c \div 262144 = x1 /\ (c \div 4096) % 64 = x2 /\ (c \div 64) % 64 = x3
        /\ c % 64 = x4 /\ c \div 4096 = 64 * x1 + x2
        /\ c \div 64 = 4096 * x1 + 64 * x2 + x3
    BY <1>0, DigitsOf, SMT
  <2>1. CASE c <= 127
    <3>1. e = <<c>>
      BY <2>1, Utf8Forms, SMT DEF e
    <3>2. n = 1 /\ e[1] = c
      BY <3>1, SMT
    <3> QED BY <1>3, <3>2, SMT DEF Value
  <2>2. CASE 128 <= c /\ c <= 2047
    <3>1. e = <<192 + c \div 64, 128 + (c % 64)>>
      BY <2>2, Utf8Forms, SMT DEF e
    <3>2. n = 2 /\ e[1] = 192 + c \div 64 /\ e[2] = 128 + (c % 64)
      BY <3>1, SMT
    <3>3. u[i + 1] = 128 + (c % 64)
      BY <3>2, <1>4, SMT
    <3>4. v = 64 * (e[1] % 32) + (u[i + 1] % 64)
      BY <1>3, <3>2, SMT DEF Value
    <3>5. 64 * ((192 + c \div 64) % 32) + ((128 + (c % 64)) % 64) = c
      BY <2>0, <2>2, SMT
    <3> QED BY <3>2, <3>3, <3>4, <3>5, SMT
  <2>3. CASE 2048 <= c /\ c <= 65535
    <3>1. e = <<224 + c \div 4096, 128 + ((c \div 64) % 64), 128 + (c % 64)>>
      BY <2>3, Utf8Forms, SMT DEF e
    <3>2. /\ n = 3 /\ e[1] = 224 + c \div 4096 /\ e[2] = 128 + ((c \div 64) % 64)
          /\ e[3] = 128 + (c % 64)
      BY <3>1, SMT
    <3>3. u[i + 1] = 128 + ((c \div 64) % 64) /\ u[i + 2] = 128 + (c % 64)
      BY <3>2, <1>4, SMT
    <3>4. v = 4096 * (e[1] % 16) + 64 * (u[i + 1] % 64) + (u[i + 2] % 64)
      BY <1>3, <3>2, SMT DEF Value
    <3>5. 4096 * ((224 + c \div 4096) % 16) + 64 * ((128 + ((c \div 64) % 64)) % 64)
            + ((128 + (c % 64)) % 64) = c
      BY <2>0, <2>3, SMT
    <3> QED BY <3>2, <3>3, <3>4, <3>5, SMT
  <2>4. CASE 65536 <= c
    <3>1. e = <<240 + c \div 262144, 128 + ((c \div 4096) % 64), 128 + ((c \div 64) % 64),
                128 + (c % 64)>>
      BY <2>4, Utf8Forms, SMT DEF e
    <3>2. /\ n = 4 /\ e[1] = 240 + c \div 262144 /\ e[2] = 128 + ((c \div 4096) % 64)
          /\ e[3] = 128 + ((c \div 64) % 64) /\ e[4] = 128 + (c % 64)
      BY <3>1, SMT
    <3>3. /\ u[i + 1] = 128 + ((c \div 4096) % 64) /\ u[i + 2] = 128 + ((c \div 64) % 64)
          /\ u[i + 3] = 128 + (c % 64)
      BY <3>2, <1>4, SMT
    <3>4. v = 262144 * (e[1] % 8) + 4096 * (u[i + 1] % 64) + 64 * (u[i + 2] % 64) + (u[i + 3] % 64)
      BY <1>3, <3>2, SMT DEF Value
    <3>5. 262144 * ((240 + c \div 262144) % 8) + 4096 * ((128 + ((c \div 4096) % 64)) % 64)
            + 64 * ((128 + ((c \div 64) % 64)) % 64) + ((128 + (c % 64)) % 64) = c
      BY <1>0, <2>0, <2>4, SMT
    <3> QED BY <3>2, <3>3, <3>4, <3>5, SMT
  <2> HIDE DEF v
  <2> QED BY <1>0, <2>1, <2>2, <2>3, <2>4, SMT
<1> HIDE DEF v
<1> QED BY <1>5, <1>6, SMT DEF e

\* What reading a character at a place can yield.
LEMMA ReadsOn ==
  ASSUME NEW u \in Seq(Byte), NEW i \in 1..Len(u)
  PROVE  LET d == unicode_cpt_from_utf8(u, i)
         IN  \/ d = Invalid
             \/ d.next \in (i + 1)..(Len(u) + 1) /\ d.cpt \in Nat /\ d # Invalid
<1> DEFINE d == unicode_cpt_from_utf8(u, i)
           n == width(u[i])
<1>1. n \in {0, 1, 2, 3, 4} /\ u[i] \in Nat /\ i \in Nat /\ Len(u) \in Nat
  <2>1. u[i] \in Byte
    BY SMT
  <2> QED BY <2>1, WidthIs, BytesAre, SMT
<1>2. CASE ~Whole(u, i, n)
  BY <1>2, ReadIs, SMT
<1>3. CASE Whole(u, i, n)
  <2>1. d = [cpt |-> Value(u, i, n), next |-> i + n]
    BY <1>3, ReadIs, SMT
  <2> HIDE DEF n
  <2>2. Value(u, i, n) \in Nat
    <3>1. n \in {1, 2, 3, 4} /\ \A j \in 1..(n - 1) : u[i + j] \in Nat
      BY <1>1, <1>3, TrailingIs, SMT DEF Whole
    <3>2. n >= 2 => u[i + 1] \in Nat
      BY <3>1, SMT
    <3>3. n >= 3 => u[i + 2] \in Nat
      BY <3>1, SMT
    <3>4. n = 4 => u[i + 3] \in Nat
      BY <3>1, SMT
    <3>5. CASE n = 1
      BY <1>1, <3>5, SMT DEF Value
    <3>6. CASE n = 2
      <4>1. Value(u, i, n) = 64 * (u[i] % 32) + (u[i + 1] % 64)
        BY <3>6, SMT DEF Value
      <4> QED BY <1>1, <3>2, <3>6, <4>1, SMT
    <3>7. CASE n = 3
      <4>1. Value(u, i, n) = 4096 * (u[i] % 16) + 64 * (u[i + 1] % 64) + (u[i + 2] % 64)
        BY <3>7, SMT DEF Value
      <4>2. u[i] % 16 \in Nat /\ u[i + 1] % 64 \in Nat /\ u[i + 2] % 64 \in Nat
        BY <1>1, <3>2, <3>3, <3>7, SMT
      <4> QED BY <4>1, <4>2, SMT
    <3>8. CASE n = 4
      <4>1. Value(u, i, n) = 262144 * (u[i] % 8) + 4096 * (u[i + 1] % 64)
                               + 64 * (u[i + 2] % 64) + (u[i + 3] % 64)
        BY <3>8, SMT DEF Value
      <4>2. ASSUME NEW x \in Nat, NEW y \in Nat, NEW z \in Nat, NEW w \in Nat
            PROVE  262144 * (x % 8) + 4096 * (y % 64) + 64 * (z % 64) + (w % 64) \in Nat
        BY SMT
      <4>3. u[i + 1] \in Nat /\ u[i + 2] \in Nat /\ u[i + 3] \in Nat
        BY <3>2, <3>3, <3>4, <3>8, SMT
      <4> DEFINE x == u[i]
                 y == u[i + 1]
                 z == u[i + 2]
                 w == u[i + 3]
      <4>4. x \in Nat /\ y \in Nat /\ z \in Nat /\ w \in Nat
        BY <1>1, <4>3, SMT
      <4>5. Value(u, i, n) = 262144 * (x % 8) + 4096 * (y % 64) + 64 * (z % 64) + (w % 64)
        BY <4>1, SMT
      <4> HIDE DEF x, y, z, w
      <4> QED BY <4>2, <4>4, <4>5, SMT
    <3> QED BY <3>1, <3>5, <3>6, <3>7, <3>8, SMT
  <2>3. i + n \in (i + 1)..(Len(u) + 1)
    BY <1>1, <1>3, SMT DEF Whole
  <2>4. d.next \in (i + 1)..(Len(u) + 1) /\ d.cpt \in Nat
    BY <2>1, <2>2, <2>3, SMT
  <2>5. d.next # 0
    BY <2>4, <1>1, SMT
  <2>6. d # Invalid
    BY <2>5, SMT DEF Invalid
  <2> QED BY <2>4, <2>6, SMT
<1> QED BY <1>2, <1>3, SMT

----------------------------------------------------------------------------
(* UTF-8, texts *)

LEMMA CodepointsEncode ==
  \A c \in Nat : c <= MaxCodepoint <=> c \in Codepoint
BY CodepointsAre, SMT DEF MaxCodepoint

Utf8 == [c \in Codepoint |-> unicode_cpt_to_utf8(c)]

LEMMA Utf8Function ==
  Utf8 \in [Codepoint -> Seq(Byte)]
BY Utf8Is DEF Utf8, Character

LEMMA CodedIs ==
  ASSUME NEW cs \in Seq(Codepoint)
  PROVE  /\ unicode_cpts_to_utf8(cs) = FlattenSeq(Mapped(Utf8, cs))
         /\ Mapped(Utf8, cs) \in Seq(Seq(Byte))
         /\ unicode_cpts_to_utf8(cs) \in Seq(Byte)
<1>1. Mapped(Utf8, cs) = [i \in DOMAIN cs |-> unicode_cpt_to_utf8(cs[i])]
  BY DEF Mapped, Utf8
<1>2. unicode_cpts_to_utf8(cs) = FlattenSeq(Mapped(Utf8, cs))
  BY <1>1 DEF unicode_cpts_to_utf8
<1>3. Mapped(Utf8, cs) \in Seq(Seq(Byte))
  BY Utf8Function, MappedIs
<1> QED BY <1>2, <1>3, FlattenIn

LEMMA CodedEmpty ==
  unicode_cpts_to_utf8(<<>>) = <<>>
<1>1. [i \in DOMAIN <<>> |-> unicode_cpt_to_utf8(<<>>[i])] = <<>>
  OBVIOUS
<1> QED BY <1>1, FlattenEmpty DEF unicode_cpts_to_utf8

LEMMA CodedAppend ==
  \A cs \in Seq(Codepoint), c \in Codepoint :
     unicode_cpts_to_utf8(Append(cs, c)) = unicode_cpts_to_utf8(cs) \o unicode_cpt_to_utf8(c)
<1> SUFFICES ASSUME NEW cs \in Seq(Codepoint), NEW c \in Codepoint
             PROVE  unicode_cpts_to_utf8(Append(cs, c))
                      = unicode_cpts_to_utf8(cs) \o unicode_cpt_to_utf8(c)
  OBVIOUS
<1>1. Append(cs, c) \in Seq(Codepoint)
  OBVIOUS
<1>2. Mapped(Utf8, Append(cs, c)) = Append(Mapped(Utf8, cs), Utf8[c])
  BY Utf8Function, MappedAppend
<1>3. unicode_cpts_to_utf8(Append(cs, c)) = FlattenSeq(Mapped(Utf8, Append(cs, c)))
  BY <1>1, CodedIs
<1>4. Mapped(Utf8, cs) \in Seq(Seq(Byte)) /\ Utf8[c] \in Seq(Byte)
  BY Utf8Function, CodedIs
<1>5. FlattenSeq(Append(Mapped(Utf8, cs), Utf8[c])) = FlattenSeq(Mapped(Utf8, cs)) \o Utf8[c]
  BY <1>4, FlattenAppend
<1>6. Utf8[c] = unicode_cpt_to_utf8(c)
  BY DEF Utf8
<1> QED BY <1>2, <1>3, <1>5, <1>6, CodedIs

LEMMA CodedConcat ==
  \A a, b \in Seq(Codepoint) :
     unicode_cpts_to_utf8(a \o b) = unicode_cpts_to_utf8(a) \o unicode_cpts_to_utf8(b)
<1> SUFFICES ASSUME NEW a \in Seq(Codepoint), NEW b \in Seq(Codepoint)
             PROVE  unicode_cpts_to_utf8(a \o b)
                      = unicode_cpts_to_utf8(a) \o unicode_cpts_to_utf8(b)
  OBVIOUS
<1> DEFINE P == {c \in Seq(Codepoint) : unicode_cpts_to_utf8(a \o c)
                                            = unicode_cpts_to_utf8(a) \o unicode_cpts_to_utf8(c)}
           ua == unicode_cpts_to_utf8(a)
<1>0. ua \in Seq(Byte)
  BY CodedIs
<1>1. <<>> \in P
  <2>1. a \o <<>> = a /\ ua \o <<>> = ua
    BY <1>0, Grouped
  <2>2. unicode_cpts_to_utf8(a \o <<>>) = ua \o unicode_cpts_to_utf8(<<>>)
    BY <2>1, CodedEmpty
  <2>3. <<>> \in Seq(Codepoint)
    OBVIOUS
  <2> QED BY <2>2, <2>3
<1>2. ASSUME NEW c \in Seq(Codepoint), NEW x \in Codepoint, c \in P PROVE Append(c, x) \in P
  <2> DEFINE uc == unicode_cpts_to_utf8(c)
             e == unicode_cpt_to_utf8(x)
  <2>1. /\ a \o Append(c, x) = Append(a \o c, x) /\ a \o c \in Seq(Codepoint)
        /\ Append(c, x) \in Seq(Codepoint)
    OBVIOUS
  <2>2. unicode_cpts_to_utf8(Append(a \o c, x)) = unicode_cpts_to_utf8(a \o c) \o e
    BY <2>1, CodedAppend
  <2>3. unicode_cpts_to_utf8(Append(c, x)) = uc \o e
    BY CodedAppend
  <2>4. uc \in Seq(Byte) /\ e \in Seq(Byte)
    BY CodedIs, Utf8Is DEF Character
  <2>5. unicode_cpts_to_utf8(a \o c) = ua \o uc
    BY <1>2
  <2>6. (ua \o uc) \o e = ua \o (uc \o e)
    BY <1>0, <2>4, Grouped
  <2> QED BY <2>1, <2>2, <2>3, <2>5, <2>6
<1>3. Seq(Codepoint) \subseteq P
  <2> HIDE DEF P
  <2> QED BY <1>1, <1>2, ByAppending
<1> QED BY <1>3

LEMMA CodedOne ==
  ASSUME NEW c \in Codepoint
  PROVE  unicode_cpts_to_utf8(<<c>>) = unicode_cpt_to_utf8(c)
<1>1. Append(<<>>, c) = <<c>> /\ <<>> \in Seq(Codepoint)
  OBVIOUS
<1>2. unicode_cpts_to_utf8(Append(<<>>, c)) = <<>> \o unicode_cpt_to_utf8(c)
  BY <1>1, CodedAppend, CodedEmpty
<1>3. unicode_cpt_to_utf8(c) \in Seq(Byte)
  BY Utf8Is DEF Character
<1> QED BY <1>1, <1>2, <1>3, Grouped

LEMMA CodedNonEmpty ==
  ASSUME NEW cs \in Seq(Codepoint), cs # <<>>
  PROVE  unicode_cpts_to_utf8(cs) # <<>>
<1> DEFINE a == SubSeq(cs, 1, Len(cs) - 1)
           c == cs[Len(cs)]
<1>1. a \in Seq(Codepoint) /\ c \in Codepoint /\ cs = Append(a, c)
  OBVIOUS
<1> HIDE DEF a, c
<1>2. unicode_cpts_to_utf8(cs) = unicode_cpts_to_utf8(a) \o unicode_cpt_to_utf8(c)
  BY <1>1, CodedAppend
<1>3. unicode_cpts_to_utf8(a) \in Seq(Byte) /\ unicode_cpt_to_utf8(c) \in Seq(Byte)
      /\ Len(unicode_cpt_to_utf8(c)) >= 1
  <2>1. Character(unicode_cpt_to_utf8(c))
    BY <1>1, Utf8Is
  <2> QED BY <1>1, <2>1, CodedIs DEF Character
<1> QED BY <1>2, <1>3

\* Where the characters of a text begin, and where it ends.
Border(cs, k) == 1 + Len(unicode_cpts_to_utf8(SubSeq(cs, 1, k)))

LEMMA BordersAre ==
  ASSUME NEW cs \in Seq(Codepoint)
  PROVE  /\ Border(cs, 0) = 1
         /\ Border(cs, Len(cs)) = Len(unicode_cpts_to_utf8(cs)) + 1
         /\ \A k \in 0..Len(cs) : Border(cs, k) \in Nat \ {0}
<1>1. SubSeq(cs, 1, 0) = <<>> /\ SubSeq(cs, 1, Len(cs)) = cs
  BY AllOfIt
<1>2. Border(cs, 0) = 1
  <2>1. Border(cs, 0) = 1 + Len(<<>>)
    BY <1>1, CodedEmpty DEF Border
  <2> QED BY <2>1
<1>3. Border(cs, Len(cs)) = Len(unicode_cpts_to_utf8(cs)) + 1
  <2>1. unicode_cpts_to_utf8(cs) \in Seq(Byte)
    BY CodedIs
  <2>2. Border(cs, Len(cs)) = 1 + Len(unicode_cpts_to_utf8(cs))
    BY <1>1 DEF Border
  <2> QED BY <2>1, <2>2
<1>4. ASSUME NEW k \in 0..Len(cs) PROVE Border(cs, k) \in Nat \ {0}
  <2>1. SubSeq(cs, 1, k) \in Seq(Codepoint)
    OBVIOUS
  <2>2. unicode_cpts_to_utf8(SubSeq(cs, 1, k)) \in Seq(Byte)
    BY <2>1, CodedIs
  <2> QED BY <2>2 DEF Border
<1> QED BY <1>2, <1>3, <1>4

LEMMA StandsThere ==
  ASSUME NEW cs \in Seq(Codepoint), NEW k \in 1..Len(cs)
  PROVE  /\ Stands(unicode_cpts_to_utf8(cs), Border(cs, k - 1), cs[k])
         /\ Border(cs, k) = Border(cs, k - 1) + Len(unicode_cpt_to_utf8(cs[k]))
         /\ Border(cs, k) <= Len(unicode_cpts_to_utf8(cs)) + 1
<1> DEFINE a == SubSeq(cs, 1, k - 1)
           c == cs[k]
           b == SubSeq(cs, k + 1, Len(cs))
           ua == unicode_cpts_to_utf8(a)
           ub == unicode_cpts_to_utf8(b)
           e == unicode_cpt_to_utf8(c)
           u == unicode_cpts_to_utf8(cs)
<1>1. /\ a \in Seq(Codepoint) /\ b \in Seq(Codepoint) /\ c \in Codepoint
      /\ SubSeq(cs, 1, k) = Append(a, c) /\ cs = Append(a, c) \o b
      /\ Append(a, c) \in Seq(Codepoint)
  <2>1. cs = SubSeq(cs, 1, k) \o b
    OBVIOUS
  <2>2. SubSeq(cs, 1, k) = Append(a, c) /\ a \in Seq(Codepoint) /\ c \in Codepoint
    BY Shorter
  <2>3. b \in Seq(Codepoint)
    OBVIOUS
  <2>4. Append(a, c) \in Seq(Codepoint)
    BY <2>2
  <2>5. cs = Append(a, c) \o b
    BY <2>1, <2>2, Zenon
  <2> HIDE DEF a, b, c
  <2> QED BY <2>2, <2>3, <2>4, <2>5
<1> HIDE DEF a, b, c
<1>2. unicode_cpts_to_utf8(Append(a, c)) = ua \o e
  BY <1>1, CodedAppend
<1>3. u = (ua \o e) \o ub
  <2>1. unicode_cpts_to_utf8(Append(a, c) \o b) = unicode_cpts_to_utf8(Append(a, c)) \o ub
    BY <1>1, CodedConcat
  <2> QED BY <2>1, <1>1, <1>2
<1>4. ua \in Seq(Byte) /\ ub \in Seq(Byte) /\ e \in Seq(Byte)
  BY <1>1, CodedIs, Utf8Is DEF Character
<1>5. Border(cs, k) = 1 + Len(ua \o e)
  BY <1>1, <1>2 DEF Border
<1>6. Border(cs, k - 1) = 1 + Len(ua)
  BY DEF Border, a
<1> HIDE DEF ua, ub, e, u
<1>7. /\ Len(ua \o e) = Len(ua) + Len(e) /\ Len(u) = Len(ua) + Len(e) + Len(ub)
      /\ Len(ua) \in Nat /\ Len(e) \in Nat /\ Len(ub) \in Nat
  BY <1>3, <1>4
<1>8. \A j \in 1..Len(e) : u[Len(ua) + j] = e[j]
  BY <1>3, <1>4
<1>9. Stands(u, 1 + Len(ua), c)
  <2>1. 1 + Len(ua) + Len(e) - 1 <= Len(u)
    BY <1>7
  <2>2. \A j \in 1..Len(e) : u[1 + Len(ua) + j - 1] = e[j]
    <3> TAKE j \in 1..Len(e)
    <3>1. 1 + Len(ua) + j - 1 = Len(ua) + j
      BY <1>7
    <3> QED BY <3>1, <1>8
  <2> QED BY <2>1, <2>2 DEF Stands, e
<1>10. Stands(u, Border(cs, k - 1), cs[k])
  BY <1>6, <1>9 DEF c
<1>11. Border(cs, k) = Border(cs, k - 1) + Len(e) /\ Border(cs, k) <= Len(u) + 1
  BY <1>5, <1>6, <1>7
<1> QED BY <1>10, <1>11 DEF u, e, c

LEMMA ReadsThere ==
  ASSUME NEW cs \in Seq(Codepoint), NEW k \in 1..Len(cs)
  PROVE  LET u == unicode_cpts_to_utf8(cs)
         IN  /\ Border(cs, k - 1) \in 1..Len(u)
             /\ Border(cs, k - 1) < Border(cs, k)
             /\ unicode_cpt_from_utf8(u, Border(cs, k - 1)) = [cpt |-> cs[k], next |-> Border(cs, k)]
<1> DEFINE u == unicode_cpts_to_utf8(cs)
           i == Border(cs, k - 1)
           e == unicode_cpt_to_utf8(cs[k])
<1>1. Stands(u, i, cs[k]) /\ Border(cs, k) = i + Len(e) /\ Border(cs, k) <= Len(u) + 1
  BY StandsThere
<1>2. cs[k] \in Codepoint /\ k - 1 \in 0..Len(cs)
  OBVIOUS
<1>3. Len(e) \in Nat /\ Len(e) >= 1
  <2>1. Character(e)
    BY <1>2, Utf8Is
  <2> HIDE DEF e
  <2> QED BY <2>1 DEF Character
<1>4. i \in Nat \ {0} /\ u \in Seq(Byte)
  BY <1>2, BordersAre, CodedIs
<1> HIDE DEF u, i, e
<1>5. i \in 1..Len(u)
  BY <1>1, <1>3, <1>4
<1>6. unicode_cpt_from_utf8(u, i) = [cpt |-> cs[k], next |-> i + Len(unicode_cpt_to_utf8(cs[k]))]
  BY <1>1, <1>2, <1>4, <1>5, ReadsBack
<1>7. unicode_cpt_from_utf8(u, i) = [cpt |-> cs[k], next |-> Border(cs, k)]
  BY <1>1, <1>6 DEF e
<1>8. i < Border(cs, k)
  BY <1>1, <1>3, <1>4
<1> QED BY <1>5, <1>7, <1>8 DEF u, i

\* What is read from a place on.
Reading(f, u) ==
  /\ f[Len(u) + 1] = <<>>
  /\ \A i \in 1..Len(u) :
       LET d == unicode_cpt_from_utf8(u, i)
       IN  f[i] = IF d = Invalid THEN <<>> ELSE <<d.cpt>> \o f[d.next]

LEMMA ReadingExists ==
  ASSUME NEW u \in Seq(Byte)
  PROVE  \E f \in [1..(Len(u) + 1) -> Seq(Int)] : Reading(f, u)
<1> DEFINE n == Len(u)
           Y == Seq(Int)
           d(i) == unicode_cpt_from_utf8(u, i)
           step == [i \in 1..n |-> IF d(i) = Invalid THEN n + 1 ELSE d(i).next]
           h == [x \in (1..n) \X Y |-> IF d(x[1]) = Invalid THEN <<>> ELSE <<d(x[1]).cpt>> \o x[2]]
<1>1. \A i \in 1..n : d(i) = Invalid \/ (d(i).next \in (i + 1)..(n + 1) /\ d(i).cpt \in Int)
  BY ReadsOn
<1>2. n \in Nat /\ <<>> \in Y
  OBVIOUS
<1> HIDE DEF d, n
<1>3. \A i \in 1..n : step[i] \in (i + 1)..(n + 1)
  BY <1>1, <1>2
<1>4. h \in [(1..n) \X Y -> Y]
  <2>1. ASSUME NEW i \in 1..n, NEW y \in Y
        PROVE  (IF d(i) = Invalid THEN <<>> ELSE <<d(i).cpt>> \o y) \in Y
    BY <1>1, <1>2
  <2>2. \A x \in (1..n) \X Y : x[1] \in 1..n /\ x[2] \in Y
    OBVIOUS
  <2> HIDE DEF Y
  <2> QED BY <2>1, <2>2
<1>5. \A i \in 1..n, y \in Y : h[<<i, y>>] = IF d(i) = Invalid THEN <<>> ELSE <<d(i).cpt>> \o y
  OBVIOUS
<1> HIDE DEF h, step, Y
<1>6. PICK f \in [1..(n + 1) -> Y] : Descends(f, n, <<>>, step, h)
  BY <1>2, <1>3, <1>4, DescentExists
<1>7. ASSUME NEW i \in 1..n
      PROVE  f[i] = IF d(i) = Invalid THEN <<>> ELSE <<d(i).cpt>> \o f[d(i).next]
  <2>1. f[i] = h[<<i, f[step[i]]>>] /\ step[i] \in 1..(n + 1)
    BY <1>2, <1>3, <1>6 DEF Descends
  <2>2. f[i] = IF d(i) = Invalid THEN <<>> ELSE <<d(i).cpt>> \o f[step[i]]
    BY <2>1, <1>5
  <2>3. d(i) # Invalid => step[i] = d(i).next
    BY DEF step
  <2> QED BY <2>2, <2>3
<1>8. Reading(f, u)
  BY <1>6, <1>7 DEF Reading, Descends, n, d
<1> QED BY <1>6, <1>8 DEF n, Y

LEMMA DecodedIs ==
  ASSUME NEW u \in Seq(Byte)
  PROVE  \E f \in [1..(Len(u) + 1) -> Seq(Int)] :
           Reading(f, u) /\ unicode_cpts_from_utf8(u) = f[1]
<1> DEFINE Eq(f) == f = [i \in 1..(Len(u) + 1) |->
                           IF i = Len(u) + 1 THEN <<>>
                           ELSE LET d == unicode_cpt_from_utf8(u, i)
                                IN IF d = Invalid THEN <<>> ELSE <<d.cpt>> \o f[d.next]]
           c == CHOOSE f : Eq(f)
<1>1. PICK f \in [1..(Len(u) + 1) -> Seq(Int)] : Reading(f, u)
  BY ReadingExists
<1>2. Eq(f)
  <2>1. Len(u) + 1 \notin 1..Len(u) /\ 1..(Len(u) + 1) = 1..Len(u) \cup {Len(u) + 1}
    OBVIOUS
  <2>2. ASSUME NEW i \in 1..(Len(u) + 1)
        PROVE  f[i] = IF i = Len(u) + 1 THEN <<>>
                      ELSE LET d == unicode_cpt_from_utf8(u, i)
                           IN IF d = Invalid THEN <<>> ELSE <<d.cpt>> \o f[d.next]
    BY <2>1, <1>1, Zenon DEF Reading
  <2>3. f = [i \in 1..(Len(u) + 1) |-> f[i]]
    BY <1>1
  <2> QED BY <2>2, <2>3, Zenon
<1>3. Eq(c)
  <2> HIDE DEF Eq
  <2> QED BY <1>2
<1>4. unicode_cpts_from_utf8(u) = c[1]
  BY DEF unicode_cpts_from_utf8
<1> HIDE DEF c
<1>5. Reading(c, u)
  <2>1. Len(u) + 1 \in 1..(Len(u) + 1)
    OBVIOUS
  <2>2. c[Len(u) + 1] = <<>>
    BY <1>3, <2>1
  <2>3. \A i \in 1..Len(u) : i \in 1..(Len(u) + 1) /\ i # Len(u) + 1
    OBVIOUS
  <2> QED BY <1>3, <2>2, <2>3 DEF Reading
<1>6. c = f
  <2> DEFINE n == Len(u)
             K == {i \in 1..(n + 1) : c[i] = f[i]}
  <2>0. n \in Nat
    OBVIOUS
  <2>1. n + 1 \in K
    BY <1>1, <1>5 DEF Reading
  <2>2. ASSUME NEW i \in 1..n, (i + 1)..(n + 1) \subseteq K PROVE i \in K
    <3> DEFINE d == unicode_cpt_from_utf8(u, i)
    <3>1. d = Invalid \/ d.next \in (i + 1)..(n + 1)
      BY ReadsOn
    <3>2. d # Invalid => c[d.next] = f[d.next]
      BY <3>1, <2>2
    <3>3. /\ c[i] = IF d = Invalid THEN <<>> ELSE <<d.cpt>> \o c[d.next]
          /\ f[i] = IF d = Invalid THEN <<>> ELSE <<d.cpt>> \o f[d.next]
      BY <1>1, <1>5 DEF Reading
    <3>4. c[i] = f[i] /\ i \in 1..(n + 1)
      BY <3>2, <3>3, <2>0
    <3> QED BY <3>4
  <2>3. 1..(n + 1) \subseteq K
    <3> HIDE DEF K, n
    <3> QED BY <2>0, <2>1, <2>2, Downward
  <2>4. c = [i \in 1..(n + 1) |-> c[i]] /\ f = [i \in 1..(n + 1) |-> f[i]]
    <3>1. c = [i \in 1..(n + 1) |-> c[i]]
      BY <1>3
    <3> QED BY <3>1, <1>1
  <2> QED BY <2>3, <2>4
<1> QED BY <1>1, <1>4, <1>6

\* Whether what is read from a place on is all valid.
Validity(ok, u) ==
  /\ ok[Len(u) + 1]
  /\ \A i \in 1..Len(u) :
       LET d == unicode_cpt_from_utf8(u, i)
       IN  ok[i] <=> d # Invalid /\ d.cpt <= MaxCodepoint /\ ok[d.next]

LEMMA ValidityExists ==
  ASSUME NEW u \in Seq(Byte)
  PROVE  \E ok \in [1..(Len(u) + 1) -> BOOLEAN] : Validity(ok, u)
<1> DEFINE n == Len(u)
           d(i) == unicode_cpt_from_utf8(u, i)
           good(i) == d(i) # Invalid /\ d(i).cpt <= MaxCodepoint
           step == [i \in 1..n |-> IF d(i) = Invalid THEN n + 1 ELSE d(i).next]
           h == [x \in (1..n) \X BOOLEAN |-> good(x[1]) /\ x[2]]
<1>1. \A i \in 1..n : d(i) = Invalid \/ d(i).next \in (i + 1)..(n + 1)
  BY ReadsOn
<1>2. n \in Nat /\ TRUE \in BOOLEAN
  OBVIOUS
<1> HIDE DEF d, n
<1>3. \A i \in 1..n : step[i] \in (i + 1)..(n + 1)
  BY <1>1, <1>2
<1>4. h \in [(1..n) \X BOOLEAN -> BOOLEAN]
  OBVIOUS
<1>5. \A i \in 1..n, y \in BOOLEAN : h[<<i, y>>] = (good(i) /\ y)
  OBVIOUS
<1> HIDE DEF h, step, good
<1>6. PICK f \in [1..(n + 1) -> BOOLEAN] : Descends(f, n, TRUE, step, h)
  BY <1>2, <1>3, <1>4, DescentExists
<1>7. ASSUME NEW i \in 1..n
      PROVE  f[i] <=> good(i) /\ f[d(i).next]
  <2>1. f[i] = h[<<i, f[step[i]]>>] /\ step[i] \in 1..(n + 1)
    BY <1>2, <1>3, <1>6 DEF Descends
  <2>2. f[step[i]] \in BOOLEAN
    BY <2>1
  <2>3. f[i] = (good(i) /\ f[step[i]])
    BY <2>1, <2>2, <1>5
  <2>4. good(i) => step[i] = d(i).next
    BY DEF step, good
  <2> QED BY <2>3, <2>4, Zenon
<1>8. Validity(f, u)
  BY <1>6, <1>7 DEF Validity, Descends, n, d, good
<1> QED BY <1>6, <1>8 DEF n

LEMMA DecodesIs ==
  ASSUME NEW u \in Seq(Byte)
  PROVE  \E ok : Validity(ok, u) /\ (decodes(u) <=> ok[1])
<1> DEFINE Eq(ok) == ok = [i \in 1..(Len(u) + 1) |->
                             \/ i = Len(u) + 1
                             \/ LET d == unicode_cpt_from_utf8(u, i)
                                IN d # Invalid /\ d.cpt <= MaxCodepoint /\ ok[d.next]]
           c == CHOOSE ok : Eq(ok)
<1>1. PICK ok \in [1..(Len(u) + 1) -> BOOLEAN] : Validity(ok, u)
  BY ValidityExists
<1>2. Eq(ok)
  BY <1>1 DEF Validity
<1>3. Eq(c)
  <2> HIDE DEF Eq
  <2> QED BY <1>2
<1>4. decodes(u) <=> c[1]
  BY DEF decodes
<1> HIDE DEF c
<1>5. Validity(c, u)
  <2>1. Len(u) + 1 \in 1..(Len(u) + 1)
    OBVIOUS
  <2>2. c[Len(u) + 1]
    BY <1>3, <2>1
  <2>3. \A i \in 1..Len(u) : i \in 1..(Len(u) + 1) /\ i # Len(u) + 1
    OBVIOUS
  <2> QED BY <1>3, <2>2, <2>3 DEF Validity
<1> QED BY <1>4, <1>5

LEMMA FromTheRight ==
  ASSUME NEW S, NEW t \in Seq(S), NEW k \in 1..Len(t)
  PROVE  /\ <<t[k]>> \o SubSeq(t, k + 1, Len(t)) = SubSeq(t, k, Len(t))
         /\ SubSeq(t, Len(t) + 1, Len(t)) = <<>>
OBVIOUS

\* What was encoded decodes to the same code points.
LEMMA CodedDecodes ==
  ASSUME NEW cs \in Seq(Codepoint)
  PROVE  LET u == unicode_cpts_to_utf8(cs)
         IN  unicode_cpts_from_utf8(u) = cs /\ decodes(u)
<1> DEFINE u == unicode_cpts_to_utf8(cs)
           n == Len(cs)
           B(k) == Border(cs, k)
<1>1. u \in Seq(Byte) /\ n \in Nat
  BY CodedIs
<1>2. PICK f \in [1..(Len(u) + 1) -> Seq(Int)] : Reading(f, u) /\ unicode_cpts_from_utf8(u) = f[1]
  BY <1>1, DecodedIs
<1>3. PICK ok : Validity(ok, u) /\ (decodes(u) <=> ok[1])
  BY <1>1, DecodesIs
<1>4. B(0) = 1 /\ B(n) = Len(u) + 1
  BY BordersAre
<1>5. ASSUME NEW k \in 1..n
      PROVE  /\ B(k - 1) \in 1..Len(u)
             /\ unicode_cpt_from_utf8(u, B(k - 1)) = [cpt |-> cs[k], next |-> B(k)]
             /\ [cpt |-> cs[k], next |-> B(k)] # Invalid /\ cs[k] <= MaxCodepoint
  <2>1. B(k - 1) \in 1..Len(u) /\ B(k - 1) < B(k)
        /\ unicode_cpt_from_utf8(u, B(k - 1)) = [cpt |-> cs[k], next |-> B(k)]
    BY ReadsThere
  <2>2. B(k) # 0
    <3>1. k \in 0..n
      OBVIOUS
    <3> HIDE DEF B, n
    <3>2. B(k) \in Nat \ {0}
      BY <3>1, BordersAre DEF B, n
    <3> QED BY <3>2
  <2>3. [cpt |-> cs[k], next |-> B(k)] # Invalid
    BY <2>2 DEF Invalid
  <2>4. cs[k] \in Codepoint /\ cs[k] \in Nat
    <3>1. cs[k] \in Codepoint
      OBVIOUS
    <3>2. Codepoint \subseteq Nat
      BY ClassesOfCodepoints
    <3> QED BY <3>1, <3>2
  <2> HIDE DEF u, B
  <2> QED BY <2>1, <2>3, <2>4, CodepointsEncode
<1> DEFINE K == {i \in 1..(n + 1) : f[B(i - 1)] = SubSeq(cs, i, n) /\ ok[B(i - 1)]}
<1> HIDE DEF u, B
<1>6. n + 1 \in K
  <2>1. f[B(n)] = <<>> /\ ok[B(n)]
    BY <1>2, <1>3, <1>4 DEF Reading, Validity
  <2>2. n + 1 - 1 = n /\ n + 1 \in 1..(n + 1)
    BY <1>1
  <2>3. SubSeq(cs, n + 1, n) = <<>>
    BY FromTheRight
  <2>4. f[B(n + 1 - 1)] = SubSeq(cs, n + 1, n) /\ ok[B(n + 1 - 1)]
    BY <2>1, <2>2, <2>3
  <2> DEFINE m == n + 1
  <2>5. m \in 1..(n + 1) /\ f[B(m - 1)] = SubSeq(cs, m, n) /\ ok[B(m - 1)]
    BY <2>2, <2>4
  <2> HIDE DEF m
  <2>6. m \in K
    BY <2>5
  <2> QED BY <2>6 DEF m
<1>7. ASSUME NEW i \in 1..n, (i + 1)..(n + 1) \subseteq K PROVE i \in K
  <2>1. i + 1 \in (i + 1)..(n + 1) /\ i + 1 - 1 = i /\ i \in 1..(n + 1)
    OBVIOUS
  <2>2. f[B(i)] = SubSeq(cs, i + 1, n) /\ ok[B(i)]
    <3>1. i + 1 \in K
      BY <2>1, <1>7
    <3> QED BY <3>1, <2>1
  <2>3. f[B(i - 1)] = <<cs[i]>> \o f[B(i)]
    <3> DEFINE d == unicode_cpt_from_utf8(u, B(i - 1))
    <3>1. d = [cpt |-> cs[i], next |-> B(i)] /\ d # Invalid /\ B(i - 1) \in 1..Len(u)
      BY <1>5
    <3>2. d.cpt = cs[i] /\ d.next = B(i)
      BY <3>1
    <3>3. f[B(i - 1)] = IF d = Invalid THEN <<>> ELSE <<d.cpt>> \o f[d.next]
      BY <3>1, <1>2 DEF Reading
    <3> QED BY <3>1, <3>2, <3>3
  <2>4. ok[B(i - 1)]
    <3> DEFINE d == unicode_cpt_from_utf8(u, B(i - 1))
    <3>1. d = [cpt |-> cs[i], next |-> B(i)] /\ d # Invalid /\ B(i - 1) \in 1..Len(u)
      BY <1>5
    <3>2. d.cpt = cs[i] /\ d.next = B(i)
      BY <3>1
    <3>3. d.cpt <= MaxCodepoint /\ ok[d.next]
      BY <3>2, <2>2, <1>5
    <3>4. ok[B(i - 1)] <=> d # Invalid /\ d.cpt <= MaxCodepoint /\ ok[d.next]
      BY <3>1, <1>3 DEF Validity
    <3> QED BY <3>1, <3>3, <3>4
  <2>5. <<cs[i]>> \o SubSeq(cs, i + 1, n) = SubSeq(cs, i, n)
    BY FromTheRight
  <2>6. f[B(i - 1)] = SubSeq(cs, i, n)
    BY <2>2, <2>3, <2>5
  <2> QED BY <2>1, <2>4, <2>6
<1>8. 1..(n + 1) \subseteq K
  <2> HIDE DEF K, n
  <2> QED BY <1>1, <1>6, <1>7, Downward
<1>9. f[B(0)] = SubSeq(cs, 1, n) /\ ok[B(0)]
  <2>1. 1 \in 1..(n + 1) /\ 1 - 1 = 0
    BY <1>1
  <2>2. 1 \in K
    BY <2>1, <1>8
  <2>3. f[B(1 - 1)] = SubSeq(cs, 1, n) /\ ok[B(1 - 1)]
    BY <2>2
  <2> QED BY <2>1, <2>3
<1>10. SubSeq(cs, 1, n) = cs
  BY AllOfIt
<1>11. f[1] = cs /\ ok[1]
  BY <1>4, <1>9, <1>10
<1> QED BY <1>2, <1>3, <1>11 DEF u

\* A text that decodes yields code points, and a text yields some.
LEMMA DecodedText ==
  ASSUME NEW u \in Seq(Byte), decodes(u)
  PROVE  /\ unicode_cpts_from_utf8(u) \in Seq(Codepoint)
         /\ u # <<>> => unicode_cpts_from_utf8(u) # <<>>
<1> DEFINE n == Len(u)
           d(i) == unicode_cpt_from_utf8(u, i)
<1>1. PICK f \in [1..(n + 1) -> Seq(Int)] : Reading(f, u) /\ unicode_cpts_from_utf8(u) = f[1]
  BY DecodedIs
<1>2. PICK ok : Validity(ok, u) /\ (decodes(u) <=> ok[1])
  BY DecodesIs
<1>3. ASSUME NEW i \in 1..n
      PROVE  d(i) = Invalid \/ (d(i).next \in (i + 1)..(n + 1) /\ d(i).cpt \in Nat /\ d(i) # Invalid)
  BY ReadsOn
<1>4. n \in Nat /\ <<>> \in Seq(Codepoint)
  OBVIOUS
<1> DEFINE K == {i \in 1..(n + 1) : ok[i] => f[i] \in Seq(Codepoint) /\ (i <= n => f[i] # <<>>)}
<1>5. n + 1 \in K
  BY <1>1, <1>4 DEF Reading
<1>6. ASSUME NEW i \in 1..n, (i + 1)..(n + 1) \subseteq K PROVE i \in K
  <2>1. SUFFICES ASSUME ok[i] PROVE f[i] \in Seq(Codepoint) /\ f[i] # <<>>
    BY <1>4
  <2>2. d(i) # Invalid /\ d(i).cpt <= MaxCodepoint /\ ok[d(i).next]
    BY <2>1, <1>2 DEF Validity
  <2>3. d(i).next \in (i + 1)..(n + 1) /\ d(i).cpt \in Nat
    BY <2>2, <1>3
  <2>4. f[d(i).next] \in Seq(Codepoint)
    <3>1. d(i).next \in K
      BY <2>3, <1>6
    <3> QED BY <3>1, <2>2
  <2>5. d(i).cpt \in Codepoint
    BY <2>2, <2>3, CodepointsEncode
  <2>6. f[i] = <<d(i).cpt>> \o f[d(i).next]
    BY <2>2, <1>1 DEF Reading
  <2> DEFINE c == d(i).cpt
             t == f[d(i).next]
  <2> HIDE DEF c, t, d
  <2>7. c \in Codepoint /\ t \in Seq(Codepoint) /\ f[i] = <<c>> \o t
    BY <2>4, <2>5, <2>6 DEF c, t
  <2>8. <<c>> \o t \in Seq(Codepoint) /\ <<c>> \o t # <<>>
    BY <2>7
  <2> QED BY <2>7, <2>8
<1>7. 1..(n + 1) \subseteq K
  <2> HIDE DEF K, n
  <2> QED BY <1>4, <1>5, <1>6, Downward
<1>8. 1 \in K
  BY <1>4, <1>7
<1>9. u # <<>> => 1 <= n
  OBVIOUS
<1> QED BY <1>1, <1>2, <1>8, <1>9

\* canonical of Tokenizer.tla
LEMMA CanonicalIs ==
  ASSUME NEW u \in Seq(Byte),
         decodes(u), unicode_cpts_to_utf8(unicode_cpts_from_utf8(u)) = u
  PROVE  \E cs \in Seq(Codepoint) : u = unicode_cpts_to_utf8(cs) /\ cs = unicode_cpts_from_utf8(u)
BY DecodedText

----------------------------------------------------------------------------
(* Cutting a text *)

LEMMA ThreeParts ==
  ASSUME NEW S, NEW a \in Seq(S), NEW b \in Seq(S), NEW c \in Seq(S)
  PROVE  LET t == (a \o b) \o c
         IN  /\ SubSeq(t, Len(a) + 1, Len(a) + Len(b)) = b
             /\ Len(t) = Len(a) + Len(b) + Len(c)
             /\ Len(a \o b) = Len(a) + Len(b)
OBVIOUS

LEMMA CutInTwo ==
  ASSUME NEW S, NEW t \in Seq(S), NEW l \in 0..Len(t)
  PROVE  t = SubSeq(t, 1, l) \o SubSeq(t, l + 1, Len(t))
<1> DEFINE a == SubSeq(t, 1, l)
           b == SubSeq(t, l + 1, Len(t))
<1>0. l \in Nat /\ l <= Len(t) /\ Len(t) \in Nat
  OBVIOUS
<1>1. a \in Seq(S) /\ Len(a) = l /\ \A j \in 1..l : a[j] = t[j]
  BY <1>0
<1>2. b \in Seq(S) /\ Len(b) = Len(t) - l /\ \A j \in 1..(Len(t) - l) : b[j] = t[l + j]
  BY <1>0
<1> HIDE DEF a, b
<1>3. /\ a \o b \in Seq(S) /\ Len(a \o b) = Len(t)
      /\ \A j \in 1..Len(t) : (a \o b)[j] = IF j <= l THEN a[j] ELSE b[j - l]
  BY <1>0, <1>1, <1>2, BothOf
<1>4. ASSUME NEW j \in 1..Len(t) PROVE (a \o b)[j] = t[j]
  <2>1. CASE j <= l
    BY <2>1, <1>1, <1>3
  <2>2. CASE j > l
    <3>1. j - l \in 1..(Len(t) - l) /\ l + (j - l) = j
      BY <2>2, <1>0
    <3>2. b[j - l] = t[l + (j - l)]
      BY <3>1, <1>2
    <3> QED BY <3>1, <3>2, <1>0, <1>3, <2>2
  <2>3. j <= l \/ j > l
    BY <1>0
  <2> QED BY <2>1, <2>2, <2>3, Zenon
<1> DEFINE w == a \o b
<1> HIDE DEF w
<1>5. w \in Seq(S) /\ Len(w) = Len(t) /\ \A j \in 1..Len(t) : w[j] = t[j]
  BY <1>3, <1>4 DEF w
<1>6. w = t
  BY <1>5
<1> QED BY <1>6 DEF w, a, b

LEMMA CutInThree ==
  \A S : \A t \in Seq(S) : \A k \in 0..Len(t) : \A l \in k..Len(t) :
    /\ SubSeq(t, 1, k) \in Seq(S) /\ SubSeq(t, k + 1, l) \in Seq(S)
    /\ SubSeq(t, l + 1, Len(t)) \in Seq(S)
    /\ SubSeq(t, 1, l) = SubSeq(t, 1, k) \o SubSeq(t, k + 1, l)
    /\ SubSeq(t, 1, l) \o SubSeq(t, l + 1, Len(t)) = t
<1> TAKE S
<1> TAKE t \in Seq(S)
<1> TAKE k \in 0..Len(t)
<1> TAKE l \in k..Len(t)
<1>1. /\ SubSeq(t, 1, k) \in Seq(S) /\ SubSeq(t, k + 1, l) \in Seq(S)
      /\ SubSeq(t, l + 1, Len(t)) \in Seq(S) /\ SubSeq(t, 1, l) \in Seq(S)
  OBVIOUS
<1>2. SubSeq(t, 1, l) = SubSeq(t, 1, k) \o SubSeq(t, k + 1, l)
  <2> DEFINE w == SubSeq(t, 1, l)
  <2>1. w \in Seq(S) /\ Len(w) = l /\ k \in 0..l
    OBVIOUS
  <2>2. \A x \in 1..l : w[x] = t[x]
    OBVIOUS
  <2>3. SubSeq(w, 1, k) = SubSeq(t, 1, k)
    OBVIOUS
  <2>5. SubSeq(w, k + 1, l) = SubSeq(t, k + 1, l)
    <3> DEFINE x == SubSeq(w, k + 1, l)
               y == SubSeq(t, k + 1, l)
    <3>1. k \in Nat /\ l \in Nat /\ k <= l /\ l <= Len(t) /\ Len(t) \in Nat
      OBVIOUS
    <3> HIDE DEF w
    <3>2. x \in Seq(S) /\ Len(x) = l - k /\ \A j \in 1..(l - k) : x[j] = w[k + j]
      BY <2>1, <3>1
    <3>3. y \in Seq(S) /\ Len(y) = l - k /\ \A j \in 1..(l - k) : y[j] = t[k + j]
      BY <3>1
    <3>4. \A j \in 1..(l - k) : k + j \in 1..l
      BY <3>1
    <3>5. \A j \in 1..(l - k) : x[j] = y[j]
      BY <3>2, <3>3, <3>4, <2>2
    <3> HIDE DEF x, y
    <3>6. x = y
      BY <3>2, <3>3, <3>5
    <3> QED BY <3>6 DEF x, y
  <2> HIDE DEF w
  <2>4. w = SubSeq(w, 1, k) \o SubSeq(w, k + 1, l)
    BY <2>1, CutInTwo
  <2> QED BY <2>3, <2>4, <2>5 DEF w
<1>3. SubSeq(t, 1, l) \o SubSeq(t, l + 1, Len(t)) = t
  <2>1. l \in 0..Len(t)
    OBVIOUS
  <2> QED BY <2>1, CutInTwo
<1> QED BY <1>1, <1>2, <1>3

\* The text between two borders is that of the code points between them.
LEMMA BetweenBorders ==
  ASSUME NEW cs \in Seq(Codepoint), NEW k \in 0..Len(cs), NEW l \in k..Len(cs)
  PROVE  LET u == unicode_cpts_to_utf8(cs)
         IN  /\ SubSeq(u, Border(cs, k), Border(cs, l) - 1)
                  = unicode_cpts_to_utf8(SubSeq(cs, k + 1, l))
             /\ Border(cs, k) <= Border(cs, l) /\ Border(cs, l) <= Len(u) + 1
             /\ Border(cs, k) \in Nat \ {0} /\ Border(cs, l) \in Nat \ {0}
<1> DEFINE a == SubSeq(cs, 1, k)
           b == SubSeq(cs, k + 1, l)
           c == SubSeq(cs, l + 1, Len(cs))
           ua == unicode_cpts_to_utf8(a)
           ub == unicode_cpts_to_utf8(b)
           uc == unicode_cpts_to_utf8(c)
           u == unicode_cpts_to_utf8(cs)
<1>1. /\ a \in Seq(Codepoint) /\ b \in Seq(Codepoint) /\ c \in Seq(Codepoint)
      /\ SubSeq(cs, 1, l) = a \o b /\ cs = (a \o b) \o c
  <2> HIDE DEF Codepoint
  <2>0. \A x \in 0..Len(cs) : \A y \in x..Len(cs) :
          /\ SubSeq(cs, 1, x) \in Seq(Codepoint) /\ SubSeq(cs, x + 1, y) \in Seq(Codepoint)
          /\ SubSeq(cs, y + 1, Len(cs)) \in Seq(Codepoint)
          /\ SubSeq(cs, 1, y) = SubSeq(cs, 1, x) \o SubSeq(cs, x + 1, y)
          /\ SubSeq(cs, 1, y) \o SubSeq(cs, y + 1, Len(cs)) = cs
    BY CutInThree, Zenon
  <2>1. SubSeq(cs, 1, l) = a \o b /\ SubSeq(cs, 1, l) \o c = cs
    BY <2>0, Zenon
  <2>2. a \in Seq(Codepoint) /\ b \in Seq(Codepoint) /\ c \in Seq(Codepoint)
    BY <2>0, Zenon
  <2> HIDE DEF a, b, c
  <2> QED BY <2>1, <2>2
<1>2. Border(cs, k) = 1 + Len(ua)
  BY DEF Border
<1> HIDE DEF a, b, c
<1>3. a \o b \in Seq(Codepoint)
  BY <1>1
<1>4. unicode_cpts_to_utf8(a \o b) = ua \o ub
  BY <1>1, CodedConcat
<1>5. Border(cs, l) = 1 + Len(ua \o ub)
  BY <1>1, <1>4 DEF Border
<1>6. u = (ua \o ub) \o uc
  <2>1. unicode_cpts_to_utf8((a \o b) \o c) = unicode_cpts_to_utf8(a \o b) \o uc
    BY <1>1, <1>3, CodedConcat
  <2> QED BY <2>1, <1>1, <1>4
<1>7. ua \in Seq(Byte) /\ ub \in Seq(Byte) /\ uc \in Seq(Byte)
  BY <1>1, CodedIs
<1> HIDE DEF ua, ub, uc, u
<1>8. /\ SubSeq(u, Len(ua) + 1, Len(ua) + Len(ub)) = ub
      /\ Len(u) = Len(ua) + Len(ub) + Len(uc) /\ Len(ua \o ub) = Len(ua) + Len(ub)
  BY <1>6, <1>7, ThreeParts
<1>9. Len(ua) \in Nat /\ Len(ub) \in Nat /\ Len(uc) \in Nat
  BY <1>7
<1>10. Border(cs, k) = Len(ua) + 1 /\ Border(cs, l) - 1 = Len(ua) + Len(ub)
  BY <1>2, <1>5, <1>8, <1>9
<1>11. SubSeq(u, Border(cs, k), Border(cs, l) - 1) = ub
  BY <1>8, <1>10
<1>12. /\ Border(cs, k) <= Border(cs, l) /\ Border(cs, l) <= Len(u) + 1
       /\ Border(cs, k) \in Nat \ {0} /\ Border(cs, l) \in Nat \ {0}
  BY <1>2, <1>5, <1>8, <1>9
<1> QED BY <1>11, <1>12 DEF u, ub, b

\* Only the bytes at borders are first bytes of a character.
LEMMA BordersOnly ==
  ASSUME NEW cs \in Seq(Codepoint), NEW i \in 1..Len(unicode_cpts_to_utf8(cs)),
         unicode_cpts_to_utf8(cs)[i] \notin Trailing
  PROVE  \E k \in 0..Len(cs) : i = Border(cs, k)
<1> DEFINE u == unicode_cpts_to_utf8(cs)
           n == Len(cs)
           B(k) == Border(cs, k)
           K == {k \in Nat : k <= n => \A j \in 1..(B(k) - 1) :
                   u[j] \notin Trailing => \E x \in 0..n : j = B(x)}
<1>1. n \in Nat /\ B(0) = 1 /\ B(n) = Len(u) + 1 /\ u \in Seq(Byte)
  BY BordersAre, CodedIs
<1>2. 0 \in K
  BY <1>1
<1>3. ASSUME NEW k \in 1..n, k - 1 \in K PROVE k \in K
  <2>0. k \in 0..n /\ k - 1 \in 0..n /\ k <= n /\ k - 1 <= n
    OBVIOUS
  <2> DEFINE e == unicode_cpt_to_utf8(cs[k])
             i0 == B(k - 1)
  <2>1. Stands(u, i0, cs[k]) /\ B(k) = i0 + Len(e)
    BY StandsThere
  <2>2. e \in Seq(Byte) /\ \A j \in 2..Len(e) : e[j] \in Trailing
    <3>1. cs[k] \in Codepoint
      OBVIOUS
    <3> QED BY <3>1, Utf8Is DEF Character
  <2>3. i0 \in Nat \ {0}
    <3> HIDE DEF n
    <3> QED BY <2>0, BordersAre DEF n
  <2>4. \A j \in 1..Len(e) : u[i0 + j - 1] = e[j]
    BY <2>1 DEF Stands
  <2>5. \A j \in 1..(i0 - 1) : u[j] \notin Trailing => \E x \in 0..n : j = B(x)
    BY <1>3, <2>0
  <2> HIDE DEF e, u, i0, n
  <2>6. ASSUME NEW j \in 1..(B(k) - 1), u[j] \notin Trailing
        PROVE  \E x \in 0..n : j = B(x)
    <3>1. CASE j < i0
      <4>1. j \in 1..(i0 - 1)
        BY <3>1, <2>3
      <4> QED BY <4>1, <2>5, <2>6
    <3>2. CASE j = i0
      BY <3>2, <2>0 DEF i0
    <3>3. CASE j > i0
      <4> DEFINE m == j - i0 + 1
      <4>1. m \in 2..Len(e) /\ m \in 1..Len(e) /\ i0 + m - 1 = j
        <5> HIDE DEF B
        <5> QED BY <3>3, <2>1, <2>2, <2>3
      <4> HIDE DEF m
      <4>2. u[j] = e[m]
        BY <4>1, <2>4
      <4> QED BY <4>1, <4>2, <2>2, <2>6
    <3>4. j < i0 \/ j = i0 \/ j > i0
      BY <2>3
    <3> QED BY <3>1, <3>2, <3>3, <3>4
  <2> QED BY <2>6
<1>4. 0..n \subseteq K
  <2>1. K \in SUBSET Nat
    OBVIOUS
  <2> HIDE DEF K, n
  <2> QED BY <1>1, <1>2, <1>3, <2>1, Upward
<1>5. n \in K
  BY <1>1, <1>4
<1>6. i \in 1..(B(n) - 1)
  BY <1>1
<1> HIDE DEF B
<1>7. \E x \in 0..n : i = B(x)
  BY <1>1, <1>5, <1>6
<1> QED BY <1>7 DEF B

LEMMA FirstByte ==
  ASSUME NEW ts \in Seq(Codepoint), unicode_cpts_to_utf8(ts) # <<>>
  PROVE  unicode_cpts_to_utf8(ts)[1] \notin Trailing
<1> DEFINE u == unicode_cpts_to_utf8(ts)
           e == unicode_cpt_to_utf8(ts[1])
<1>1. ts # <<>>
  BY CodedEmpty
<1>2. 1 \in 1..Len(ts) /\ ts[1] \in Codepoint
  BY <1>1
<1>3. Stands(u, Border(ts, 1 - 1), ts[1])
  <2> HIDE DEF u
  <2> QED BY <1>2, StandsThere DEF u
<1>4. Border(ts, 1 - 1) = 1
  BY BordersAre
<1>5. Stands(u, 1, ts[1])
  BY <1>3, <1>4
<1>6. e[1] \notin Trailing /\ Len(e) >= 1 /\ Len(e) \in Nat
  <2>1. Character(e)
    BY <1>2, Utf8Is
  <2> HIDE DEF e
  <2> QED BY <2>1 DEF Character
<1> HIDE DEF u, e
<1>7. u[1] = e[1]
  <2>1. 1 \in 1..Len(e) /\ 1 + 1 - 1 = 1
    BY <1>6
  <2>2. \A j \in 1..Len(e) : u[1 + j - 1] = e[j]
    BY <1>5 DEF Stands, e
  <2>3. u[1 + 1 - 1] = e[1]
    BY <2>1, <2>2
  <2> QED BY <2>1, <2>3
<1> QED BY <1>6, <1>7 DEF u

\* A text that occurs at a border of another one ends at a border of it.
LEMMA OccursToBorder ==
  ASSUME NEW cs \in Seq(Codepoint), NEW ts \in Seq(Codepoint), NEW k \in 0..Len(cs),
         Border(cs, k) + Len(unicode_cpts_to_utf8(ts)) - 1 <= Len(unicode_cpts_to_utf8(cs)),
         \A j \in 1..Len(unicode_cpts_to_utf8(ts)) :
            unicode_cpts_to_utf8(cs)[Border(cs, k) + j - 1] = unicode_cpts_to_utf8(ts)[j]
  PROVE  \E l \in 0..Len(cs) : Border(cs, l) = Border(cs, k) + Len(unicode_cpts_to_utf8(ts))
<1> DEFINE u == unicode_cpts_to_utf8(cs)
           v == unicode_cpts_to_utf8(ts)
           b == Border(cs, k)
           T(j) == Border(ts, j)
           K == {j \in Nat : j <= Len(ts) =>
                   \E l \in 0..Len(cs) : Border(cs, l) = b + T(j) - 1}
<1>0. /\ u \in Seq(Byte) /\ v \in Seq(Byte) /\ b \in Nat \ {0} /\ T(0) = 1
      /\ T(Len(ts)) = Len(v) + 1 /\ Len(ts) \in Nat /\ Len(cs) \in Nat
  BY CodedIs, BordersAre
<1>1. b + Len(v) - 1 <= Len(u) /\ \A j \in 1..Len(v) : u[b + j - 1] = v[j]
  OBVIOUS
<1>2. 0 \in K
  <2>1. b + T(0) - 1 = b
    BY <1>0
  <2> QED BY <2>1
<1> HIDE DEF u, v, b
<1>3. ASSUME NEW j \in 1..Len(ts), j - 1 \in K PROVE j \in K
  <2>1. PICK l \in 0..Len(cs) : Border(cs, l) = b + T(j - 1) - 1
    BY <1>3
  <2> DEFINE c == ts[j]
             e == unicode_cpt_to_utf8(c)
             i == Border(cs, l)
             t0 == T(j - 1)
  <2>2. /\ Stands(v, t0, c) /\ T(j) = t0 + Len(e) /\ T(j) <= Len(v) + 1
    BY StandsThere DEF v
  <2>3. c \in Codepoint
    OBVIOUS
  <2>4. e \in Seq(Byte) /\ Len(e) >= 1
    <3>1. Character(e)
      BY <2>3, Utf8Is
    <3> HIDE DEF e
    <3> QED BY <3>1 DEF Character
  <2>5. t0 \in Nat \ {0} /\ i \in Nat \ {0}
    <3>1. j - 1 \in 0..Len(ts)
      BY <1>0
    <3> QED BY <3>1, BordersAre
  <2>6. i = b + t0 - 1
    BY <2>1
  <2>7. /\ t0 + Len(e) - 1 <= Len(v)
        /\ \A m \in 1..Len(e) : v[t0 + m - 1] = e[m]
    BY <2>2 DEF Stands
  <2> HIDE DEF c, t0, i, T
  <2>8. Stands(u, i, c)
    <3> HIDE DEF e
    <3>1. i + Len(e) - 1 <= Len(u)
      BY <1>0, <1>1, <2>4, <2>5, <2>6, <2>7
    <3>2. \A m \in 1..Len(e) : u[i + m - 1] = e[m]
      <4> TAKE m \in 1..Len(e)
      <4> DEFINE x == t0 + m - 1
      <4>1. x \in 1..Len(v) /\ b + x - 1 = i + m - 1
        BY <1>0, <2>4, <2>5, <2>6, <2>7
      <4>2. v[x] = e[m]
        BY <2>7
      <4> HIDE DEF x
      <4>3. u[b + x - 1] = v[x]
        BY <4>1, <1>1
      <4> QED BY <4>1, <4>2, <4>3
    <3> QED BY <3>1, <3>2 DEF Stands, e
  <2>9. i \in 1..Len(u)
    <3>1. i + Len(e) - 1 <= Len(u)
      BY <2>8 DEF Stands
    <3> HIDE DEF e
    <3> QED BY <3>1, <1>0, <2>4, <2>5
  <2>10. unicode_cpt_from_utf8(u, i) = [cpt |-> c, next |-> i + Len(e)]
    BY <2>3, <2>8, <2>9, <1>0, ReadsBack
  <2>11. l < Len(cs)
    <3>1. CASE l = Len(cs)
      <4>1. i = Len(u) + 1
        BY <3>1, BordersAre DEF i, u
      <4> QED BY <4>1, <2>9, <1>0
    <3> QED BY <3>1, <1>0
  <2>12. /\ l + 1 \in 1..Len(cs) /\ l + 1 - 1 = l /\ l + 1 \in 0..Len(cs)
    BY <2>11, <1>0
  <2>13. unicode_cpt_from_utf8(u, Border(cs, l + 1 - 1))
           = [cpt |-> cs[l + 1], next |-> Border(cs, l + 1)]
    <3> DEFINE m == l + 1
    <3>1. m \in 1..Len(cs)
      BY <2>12
    <3> HIDE DEF m
    <3>2. unicode_cpt_from_utf8(u, Border(cs, m - 1)) = [cpt |-> cs[m], next |-> Border(cs, m)]
      BY <3>1, ReadsThere DEF u
    <3> QED BY <3>2 DEF m
  <2>14. unicode_cpt_from_utf8(u, i) = [cpt |-> cs[l + 1], next |-> Border(cs, l + 1)]
    BY <2>12, <2>13 DEF i
  <2>15. Border(cs, l + 1) = i + Len(e)
    <3>1. [cpt |-> c, next |-> i + Len(e)].next = i + Len(e)
      OBVIOUS
    <3>2. [cpt |-> cs[l + 1], next |-> Border(cs, l + 1)].next = Border(cs, l + 1)
      OBVIOUS
    <3> HIDE DEF e
    <3> QED BY <2>10, <2>14, <3>1, <3>2
  <2>16. i + Len(e) = b + T(j) - 1
    <3>1. T(j) = t0 + Len(e) /\ Len(e) \in Nat
      BY <2>2, <2>4
    <3> HIDE DEF e
    <3> QED BY <3>1, <1>0, <2>5, <2>6
  <2>17. \E x \in 0..Len(cs) : Border(cs, x) = b + T(j) - 1
    BY <2>12, <2>15, <2>16
  <2> QED BY <2>17
<1>4. 0..Len(ts) \subseteq K
  <2>1. K \in SUBSET Nat
    OBVIOUS
  <2> HIDE DEF K
  <2> QED BY <1>0, <1>2, <1>3, <2>1, Upward
<1>5. Len(ts) \in K
  BY <1>0, <1>4
<1>6. PICK l \in 0..Len(cs) : Border(cs, l) = b + T(Len(ts)) - 1
  BY <1>5
<1>7. b + T(Len(ts)) - 1 = b + Len(v)
  BY <1>0
<1> QED BY <1>6, <1>7 DEF b, v

----------------------------------------------------------------------------
(* Bytes as printable code points *)

\* How many bytes that are not printable come before one.
Earlier(b) == {c \in Byte \ Printable : c < b}

LEMMA EarlierCount ==
  ASSUME NEW b \in Byte
  PROVE  Cardinality(Earlier(b)) \in Nat /\ Cardinality(Earlier(b)) <= 256
         /\ IsFiniteSet(Earlier(b))
<1>1. IsFiniteSet(Byte) /\ Cardinality(Byte) = 256
  <2>1. ASSUME NEW n \in Nat PROVE IsFiniteSet(0..n) /\ Cardinality(0..n) = n + 1
    BY FS_Interval
  <2>2. Byte = 0..255 /\ 255 \in Nat /\ 255 + 1 = 256
    BY SMT DEF Byte
  <2> DEFINE n == 255
  <2>3. Byte = 0..n /\ n \in Nat /\ n + 1 = 256
    BY <2>2, SMT
  <2> HIDE DEF n
  <2> QED BY <2>1, <2>3, SMT
<1>2. Earlier(b) \in SUBSET Byte
  BY DEF Earlier
<1>3. IsFiniteSet(Earlier(b)) /\ Cardinality(Earlier(b)) <= Cardinality(Byte)
  BY <1>1, <1>2, FS_Subset
<1>4. Cardinality(Earlier(b)) \in Nat
  BY <1>3, FS_CardinalityType
<1> QED BY <1>1, <1>3, <1>4

LEMMA EarlierGrows ==
  ASSUME NEW a \in Byte \ Printable, NEW b \in Byte, a < b
  PROVE  Cardinality(Earlier(a)) < Cardinality(Earlier(b))
<1>0. a \in Nat /\ b \in Nat
  BY BytesAre
<1>1. Earlier(a) \in SUBSET Earlier(b)
  <2>1. \A c \in Byte : c < a => c < b
    BY <1>0, BytesAre
  <2> QED BY <2>1 DEF Earlier
<1>2. a \in Earlier(b) /\ a \notin Earlier(a)
  BY <1>0 DEF Earlier
<1>3. IsFiniteSet(Earlier(b)) /\ Cardinality(Earlier(b)) \in Nat /\ Cardinality(Earlier(a)) \in Nat
  BY EarlierCount
<1>4. /\ Cardinality(Earlier(a)) <= Cardinality(Earlier(b))
      /\ Cardinality(Earlier(b)) = Cardinality(Earlier(a)) => Earlier(b) = Earlier(a)
  BY <1>1, <1>3, FS_Subset
<1> QED BY <1>2, <1>3, <1>4

LEMMA ByteCptIs ==
  ASSUME NEW b \in Byte
  PROVE  byte_cpt[b] = IF b \in Printable THEN b ELSE 256 + Cardinality(Earlier(b))
BY DEF byte_cpt, Earlier

\* The spelling of a byte is that of no other byte.
LEMMA ByteCpts ==
  /\ byte_cpt \in [Byte -> Codepoint]
  /\ \A a, b \in Byte : byte_cpt[a] = byte_cpt[b] => a = b
<1>1. ASSUME NEW b \in Byte
      PROVE  /\ b \in Printable => byte_cpt[b] = b /\ b <= 255
             /\ b \notin Printable => byte_cpt[b] = 256 + Cardinality(Earlier(b))
             /\ b \in Nat /\ Cardinality(Earlier(b)) \in Nat /\ Cardinality(Earlier(b)) <= 256
             /\ byte_cpt[b] \in Nat /\ byte_cpt[b] <= 512
  <2>1. b \in Nat /\ b <= 255
    BY BytesAre
  <2>2. Cardinality(Earlier(b)) \in Nat /\ Cardinality(Earlier(b)) <= 256
    BY EarlierCount
  <2>3. byte_cpt[b] = IF b \in Printable THEN b ELSE 256 + Cardinality(Earlier(b))
    BY ByteCptIs
  <2> QED BY <2>1, <2>2, <2>3, SMT
<1>2. \A b \in Byte : byte_cpt[b] \in Codepoint
  BY <1>1, CodepointsAre, SMT
<1>3. byte_cpt \in [Byte -> Codepoint]
  <2>1. byte_cpt = [b \in Byte |-> byte_cpt[b]]
    BY DEF byte_cpt
  <2> QED BY <2>1, <1>2
<1>4. ASSUME NEW a \in Byte, NEW b \in Byte, a < b PROVE byte_cpt[a] # byte_cpt[b]
  <2>1. CASE a \in Printable
    BY <2>1, <1>1, <1>4, SMT
  <2>2. CASE a \notin Printable
    <3>1. Cardinality(Earlier(a)) < Cardinality(Earlier(b))
      BY <2>2, <1>4, EarlierGrows
    <3> QED BY <3>1, <2>2, <1>1, SMT
  <2> QED BY <2>1, <2>2
<1>5. ASSUME NEW a \in Byte, NEW b \in Byte, byte_cpt[a] = byte_cpt[b] PROVE a = b
  <2>1. a < b \/ b < a \/ a = b
    BY <1>1, SMT
  <2> QED BY <2>1, <1>4, <1>5
<1> QED BY <1>3, <1>5

LEMMA CodesDiffer ==
  ASSUME NEW c \in Codepoint, NEW d \in Codepoint, unicode_cpt_to_utf8(c) = unicode_cpt_to_utf8(d)
  PROVE  c = d
<1>1. <<c>> \in Seq(Codepoint) /\ <<d>> \in Seq(Codepoint)
  OBVIOUS
<1>2. unicode_cpts_to_utf8(<<c>>) = unicode_cpts_to_utf8(<<d>>)
  BY CodedOne
<1>3. /\ unicode_cpts_from_utf8(unicode_cpts_to_utf8(<<c>>)) = <<c>>
      /\ unicode_cpts_from_utf8(unicode_cpts_to_utf8(<<d>>)) = <<d>>
  BY <1>1, CodedDecodes
<1>4. <<c>> = <<d>>
  BY <1>2, <1>3
<1> QED BY <1>4

LEMMA SpelledBack ==
  ASSUME NEW b \in Byte
  PROVE  unicode_utf8_to_byte(unicode_byte_to_utf8(b)) = b
<1> DEFINE x == unicode_utf8_to_byte(unicode_byte_to_utf8(b))
<1>1. x \in Byte /\ unicode_byte_to_utf8(x) = unicode_byte_to_utf8(b)
  BY DEF unicode_utf8_to_byte
<1> HIDE DEF x
<1>2. byte_cpt[x] \in Codepoint /\ byte_cpt[b] \in Codepoint
  BY <1>1, ByteCpts
<1>3. byte_cpt[x] = byte_cpt[b]
  BY <1>1, <1>2, CodesDiffer DEF unicode_byte_to_utf8
<1>4. x = b
  BY <1>1, <1>3, ByteCpts
<1> QED BY <1>4 DEF x

LEMMA SpellingIs ==
  ASSUME NEW w \in Seq(Byte)
  PROVE  /\ unicode_byte_encoding(w) = unicode_cpts_to_utf8(Mapped(byte_cpt, w))
         /\ Mapped(byte_cpt, w) \in Seq(Codepoint)
         /\ unicode_byte_encoding(w) \in Seq(Byte)
<1> DEFINE m == Mapped(byte_cpt, w)
<1>1. m \in Seq(Codepoint) /\ DOMAIN m = DOMAIN w /\ \A i \in DOMAIN w : m[i] = byte_cpt[w[i]]
  <2>1. m \in Seq(Codepoint)
    BY ByteCpts, MappedIs
  <2> QED BY <2>1 DEF Mapped
<1> HIDE DEF m
<1>2. [i \in DOMAIN w |-> unicode_byte_to_utf8(w[i])] = [i \in DOMAIN m |-> unicode_cpt_to_utf8(m[i])]
  BY <1>1 DEF unicode_byte_to_utf8
<1>3. unicode_byte_encoding(w) = unicode_cpts_to_utf8(m)
  BY <1>2 DEF unicode_byte_encoding, unicode_cpts_to_utf8
<1> QED BY <1>1, <1>3, CodedIs DEF m

LEMMA SpellingAppend ==
  \A w \in Seq(Byte), b \in Byte :
    unicode_byte_encoding(Append(w, b)) = unicode_byte_encoding(w) \o unicode_byte_to_utf8(b)
<1> SUFFICES ASSUME NEW w \in Seq(Byte), NEW b \in Byte
             PROVE  unicode_byte_encoding(Append(w, b))
                      = unicode_byte_encoding(w) \o unicode_byte_to_utf8(b)
  OBVIOUS
<1>1. Append(w, b) \in Seq(Byte)
  OBVIOUS
<1>2. Mapped(byte_cpt, Append(w, b)) = Append(Mapped(byte_cpt, w), byte_cpt[b])
  <2>1. byte_cpt \in [Byte -> Codepoint]
    BY ByteCpts
  <2> QED BY <2>1, MappedAppend
<1>3. Mapped(byte_cpt, w) \in Seq(Codepoint) /\ byte_cpt[b] \in Codepoint
  BY ByteCpts, SpellingIs
<1>4. unicode_cpts_to_utf8(Append(Mapped(byte_cpt, w), byte_cpt[b]))
        = unicode_cpts_to_utf8(Mapped(byte_cpt, w)) \o unicode_cpt_to_utf8(byte_cpt[b])
  BY <1>3, CodedAppend
<1>5. unicode_byte_encoding(Append(w, b)) = unicode_cpts_to_utf8(Mapped(byte_cpt, Append(w, b)))
  BY <1>1, SpellingIs
<1> QED BY <1>2, <1>4, <1>5, SpellingIs DEF unicode_byte_to_utf8

LEMMA SpellingConcat ==
  \A a, b \in Seq(Byte) :
    unicode_byte_encoding(a \o b) = unicode_byte_encoding(a) \o unicode_byte_encoding(b)
<1> SUFFICES ASSUME NEW a \in Seq(Byte), NEW b \in Seq(Byte)
             PROVE  unicode_byte_encoding(a \o b)
                      = unicode_byte_encoding(a) \o unicode_byte_encoding(b)
  OBVIOUS
<1> DEFINE P == {c \in Seq(Byte) : unicode_byte_encoding(a \o c)
                                     = unicode_byte_encoding(a) \o unicode_byte_encoding(c)}
           ua == unicode_byte_encoding(a)
<1>0. ua \in Seq(Byte)
  BY SpellingIs
<1>1. <<>> \in P
  <2>1. a \o <<>> = a /\ ua \o <<>> = ua
    BY <1>0, Grouped
  <2>2. unicode_byte_encoding(<<>>) = <<>>
    <3>1. [i \in DOMAIN <<>> |-> unicode_byte_to_utf8(<<>>[i])] = <<>>
      OBVIOUS
    <3> QED BY <3>1, FlattenEmpty DEF unicode_byte_encoding
  <2>3. <<>> \in Seq(Byte)
    OBVIOUS
  <2> QED BY <2>1, <2>2, <2>3
<1>2. ASSUME NEW c \in Seq(Byte), NEW x \in Byte, c \in P PROVE Append(c, x) \in P
  <2> DEFINE uc == unicode_byte_encoding(c)
             e == unicode_byte_to_utf8(x)
  <2>1. a \o Append(c, x) = Append(a \o c, x) /\ a \o c \in Seq(Byte) /\ Append(c, x) \in Seq(Byte)
    OBVIOUS
  <2>2. unicode_byte_encoding(Append(a \o c, x)) = unicode_byte_encoding(a \o c) \o e
    BY <2>1, SpellingAppend
  <2>3. unicode_byte_encoding(Append(c, x)) = uc \o e
    BY SpellingAppend
  <2>4. uc \in Seq(Byte) /\ e \in Seq(Byte)
    <3>1. byte_cpt[x] \in Codepoint
      BY ByteCpts
    <3> QED BY <3>1, SpellingIs, Utf8Is DEF Character, unicode_byte_to_utf8
  <2>5. unicode_byte_encoding(a \o c) = ua \o uc
    BY <1>2
  <2>6. (ua \o uc) \o e = ua \o (uc \o e)
    BY <1>0, <2>4, Grouped
  <2> QED BY <2>1, <2>2, <2>3, <2>5, <2>6
<1>3. Seq(Byte) \subseteq P
  <2> HIDE DEF P
  <2> QED BY <1>1, <1>2, ByAppending
<1> QED BY <1>3

\* The symbols of a word that was spelled are the spellings of its bytes.
LEMMA SpellingReads ==
  ASSUME NEW w \in Seq(Byte)
  PROVE  unicode_cpts_from_utf8(unicode_byte_encoding(w)) = Mapped(byte_cpt, w)
BY SpellingIs, CodedDecodes

LEMMA SpellingOne ==
  ASSUME NEW b \in Byte
  PROVE  unicode_byte_encoding(<<b>>) = unicode_byte_to_utf8(b)
<1>1. Append(<<>>, b) = <<b>> /\ <<>> \in Seq(Byte)
  OBVIOUS
<1>2. unicode_byte_encoding(<<>>) = <<>>
  <2>1. [i \in DOMAIN <<>> |-> unicode_byte_to_utf8(<<>>[i])] = <<>>
    OBVIOUS
  <2> QED BY <2>1, FlattenEmpty DEF unicode_byte_encoding
<1>3. unicode_byte_encoding(Append(<<>>, b)) = <<>> \o unicode_byte_to_utf8(b)
  BY <1>1, <1>2, SpellingAppend
<1>4. unicode_byte_to_utf8(b) \in Seq(Byte)
  <2>1. byte_cpt[b] \in Codepoint
    BY ByteCpts
  <2> QED BY <2>1, Utf8Is DEF Character, unicode_byte_to_utf8
<1> QED BY <1>1, <1>3, <1>4, Grouped

----------------------------------------------------------------------------
(* The pieces of a text *)

LEMMA SameScan ==
  /\ \A t, a : Encoding!at(t, a) = at(t, a)
  /\ \A t, a, C : Encoding!after(t, a, C) = after(t, a, C)
  /\ \A q, ends : Encoding!first_end(q, ends) = first_end(q, ends)
<1>1. \A t, a : Encoding!at(t, a) = at(t, a)
  BY DEF Encoding!at, at, Encoding!OutOfRange, OutOfRange
<1>2. \A t, a, C : Encoding!after(t, a, C) = after(t, a, C)
  <2>1. \A S : Encoding!Max(S) = Max(S)
    BY DEF Encoding!Max, Max
  <2> QED BY <1>1, <2>1 DEF Encoding!after, after
<1>3. \A q, ends : Encoding!first_end(q, ends) = first_end(q, ends)
  BY DEF Encoding!first_end, first_end
<1> QED BY <1>1, <1>2, <1>3

LEMMA EncodingClasses ==
  /\ Encoding!Letter \subseteq Codepoint /\ Encoding!Number \subseteq Codepoint
  /\ Encoding!Whitespace \subseteq Codepoint /\ Encoding!Newline \subseteq Codepoint
  /\ Encoding!Other \subseteq Codepoint
<1>1. Encoding!MAX_CODEPOINTS = MAX_CODEPOINTS
  BY SMT DEF Encoding!MAX_CODEPOINTS, MAX_CODEPOINTS
<1>2. Encoding!Codepoint = Codepoint
  BY <1>1, Zenon DEF Encoding!Codepoint, Codepoint
<1>3. Encoding!Letter \subseteq Codepoint /\ Encoding!Number \subseteq Codepoint
  BY <1>2 DEF Encoding!Letter, Encoding!Number, Encoding!unicode_cpt_flags
<1>4. Encoding!Other \subseteq Codepoint
  BY <1>2 DEF Encoding!Other
<1>5. Encoding!Whitespace = Whitespace
  BY SMT DEF Encoding!Whitespace, Whitespace, Encoding!unicode_set_whitespace, unicode_set_whitespace
<1>6. Encoding!Newline = Newline
  BY DEF Encoding!Newline, Newline
<1>7. Whitespace \subseteq Codepoint /\ Newline \subseteq Codepoint
  BY ClassesOfCodepoints
<1> QED BY <1>3, <1>4, <1>5, <1>6, <1>7

LEMMA LoopWithin ==
  ASSUME NEW t \in Seq(Codepoint), NEW a \in 1..(Len(t) + 1), NEW C, C \subseteq Codepoint
  PROVE  /\ Encoding!after(t, a, C) \in a..(Len(t) + 1)
         /\ Encoding!at(t, a) \in C => a <= Len(t)
<1>1. a \in Nat \ {0}
  OBVIOUS
<1>2. at(t, a) \in C <=> a <= Len(t) /\ t[a] \in C
  BY <1>1, AtIs
<1>3. Stops(t, a, C, after(t, a, C))
  BY AfterStops
<1> QED BY <1>2, <1>3, SameScan DEF Stops

LEMMA FirstWithin ==
  ASSUME NEW n \in Nat, NEW q \in Nat, NEW m \in Nat, q < m, NEW ends, DOMAIN ends = 1..n,
         \A i \in 1..n : ends[i] \in q..m
  PROVE  first_end(q, ends) \in (q + 1)..m
<1>2. CASE \A i \in DOMAIN ends : ~(ends[i] > q)
  BY <1>2 DEF first_end
<1>3. CASE \E i \in DOMAIN ends : ends[i] > q
  <2> DEFINE K == {i \in Nat : i \in 1..n /\ ends[i] > q}
             k == CHOOSE i \in DOMAIN ends : ends[i] > q /\ \A j \in 1..(i - 1) : ends[j] <= q
  <2>1. K \in SUBSET Nat /\ K # {}
    BY <1>3
  <2>2. PICK i \in K : \A j \in K : i <= j
    <3> HIDE DEF K
    <3> QED BY <2>1, LeastOf
  <2>3. ASSUME NEW j \in 1..(i - 1) PROVE ends[j] <= q
    <3>1. j \in 1..n /\ ~(ends[j] > q)
      BY <2>2
    <3>2. ends[j] \in q..m
      BY <3>1
    <3> QED BY <3>1, <3>2
  <2>4. i \in DOMAIN ends /\ ends[i] > q
    BY <2>2
  <2>5. k \in DOMAIN ends /\ ends[k] > q
    BY <2>3, <2>4, Zenon
  <2>6. first_end(q, ends) = ends[k]
    BY <1>3, Zenon DEF first_end
  <2> HIDE DEF k
  <2>7. ends[k] \in q..m
    BY <2>5
  <2> QED BY <2>5, <2>6, <2>7
<1> QED BY <1>2, <1>3

LEMMA SuffixWithin ==
  ASSUME NEW t \in Seq(Codepoint), NEW q \in 1..Len(t)
  PROVE  Encoding!contraction(t, q, Encoding!unicode_tolower) \in q..(Len(t) + 1)
<1> DEFINE low(c) == Encoding!unicode_tolower(c)
           c1 == low(Encoding!at(t, q + 1))
           c2 == low(Encoding!at(t, q + 2))
           short == c1 \in {115, 116, 109, 100}
           long == <<c1, c2>> \in {<<114, 101>>, <<118, 101>>, <<108, 108>>}
           e == Encoding!contraction(t, q, Encoding!unicode_tolower)
<1>0. q \in Nat \ {0} /\ Len(t) \in Nat /\ q <= Len(t)
  OBVIOUS
<1>1. low(-1) = -1
  BY SMT DEF Encoding!unicode_tolower, Encoding!unicode_map_lowercase
<1>2. \A a \in Nat \ {0} : a > Len(t) => Encoding!at(t, a) = -1
  <2>1. DOMAIN t = 1..Len(t)
    OBVIOUS
  <2> QED BY <2>1 DEF Encoding!at, Encoding!OutOfRange
<1>3. short \/ long => q + 1 <= Len(t)
  <2>1. CASE q + 1 > Len(t)
    <3>1. c1 = -1
      BY <2>1, <1>0, <1>1, <1>2
    <3> HIDE DEF c1, c2
    <3>2. ~short /\ ~long
      BY <3>1, SMT
    <3> QED BY <3>2
  <2> HIDE DEF short, long
  <2> QED BY <2>1, <1>0
<1>4. long => q + 2 <= Len(t)
  <2>1. CASE q + 2 > Len(t)
    <3>1. c2 = -1
      BY <2>1, <1>0, <1>1, <1>2
    <3> HIDE DEF c1, c2
    <3>2. ~long
      BY <3>1, SMT
    <3> QED BY <3>2
  <2> HIDE DEF long
  <2> QED BY <2>1, <1>0
<1>5. e = q \/ (short /\ e = q + 2) \/ (long /\ e = q + 3)
  <2>1. e = IF Encoding!at(t, q) # Encoding!Apostrophe THEN q
            ELSE IF short THEN q + 2 ELSE IF long THEN q + 3 ELSE q
    BY DEF Encoding!contraction
  <2> HIDE DEF e, short, long
  <2> QED BY <2>1
<1> HIDE DEF e, short, long
<1>6. e \in q..(Len(t) + 1)
  BY <1>0, <1>3, <1>4, <1>5
<1> QED BY <1>6 DEF e

LEMMA SpacedWithin ==
  ASSUME NEW t \in Seq(Codepoint), NEW q \in 1..Len(t), NEW C, C \subseteq Codepoint
  PROVE  Encoding!spaced(t, q, C) \in q..(Len(t) + 1)
<1> DEFINE a == Encoding!behind_space(t, q)
<1>1. a \in 1..(Len(t) + 1) /\ a >= q /\ a \in Nat
  BY DEF Encoding!behind_space
<1>2. Encoding!spaced(t, q, C) = IF Encoding!at(t, a) \in C THEN Encoding!after(t, a, C) ELSE q
  BY DEF Encoding!spaced
<1> HIDE DEF a
<1>3. Encoding!after(t, a, C) \in a..(Len(t) + 1)
  BY <1>1, LoopWithin
<1> QED BY <1>1, <1>2, <1>3

LEMMA Qwen3Within ==
  ASSUME NEW t \in Seq(Codepoint), NEW q \in 1..Len(t)
  PROVE  Encoding!piece_end("qwen3", t, q) \in (q + 1)..(Len(t) + 1)
<1> DEFINE m == Len(t) + 1
           e1 == Encoding!contraction(t, q, Encoding!unicode_tolower)
           e2 == Encoding!letters(t, q)
           e3 == Encoding!number(t, q)
           e4 == Encoding!punctuation(t, q)
           e5 == Encoding!to_first_newlines(t, q)
           e6 == Encoding!whitespace(t, q)
           ends == <<e1, e2, e3, e4, e5, e6>>
<1>0. q \in Nat \ {0} /\ m \in Nat /\ q < m /\ q \in 1..m /\ q + 1 \in 1..m
  OBVIOUS
<1>1. e1 \in q..m
  BY SuffixWithin
<1>2. e2 \in q..m
  <2>1. Encoding!after(t, q + 1, Encoding!Letter) \in (q + 1)..m
    BY <1>0, EncodingClasses, LoopWithin
  <2>2. e2 = Encoding!after(t, q + 1, Encoding!Letter) \/ e2 = q
    BY DEF Encoding!letters
  <2> HIDE DEF e2
  <2> QED BY <1>0, <2>1, <2>2
<1>3. e3 \in q..m
  BY <1>0 DEF Encoding!number
<1>4. e4 \in q..m
  <2> DEFINE x == Encoding!spaced(t, q, Encoding!Other)
  <2>1. x \in q..m
    BY EncodingClasses, SpacedWithin
  <2>2. e4 = IF x > q THEN Encoding!after(t, x, Encoding!Newline) ELSE q
    BY DEF Encoding!punctuation
  <2> HIDE DEF x, e4
  <2>3. x \in 1..m
    BY <1>0, <2>1
  <2>4. Encoding!after(t, x, Encoding!Newline) \in x..m
    BY <2>3, EncodingClasses, LoopWithin
  <2> QED BY <1>0, <2>1, <2>2, <2>4
<1>5. e5 \in q..m
  <2> DEFINE x == Encoding!after(t, q, Encoding!Whitespace \ Encoding!Newline)
  <2>1. x \in q..m
    <3>1. Encoding!Whitespace \ Encoding!Newline \subseteq Codepoint
      BY EncodingClasses
    <3> QED BY <3>1, <1>0, LoopWithin
  <2>2. e5 = IF Encoding!at(t, x) \in Encoding!Newline THEN Encoding!after(t, x, Encoding!Newline)
             ELSE q
    BY DEF Encoding!to_first_newlines
  <2> HIDE DEF x, e5
  <2>3. x \in 1..m
    BY <1>0, <2>1
  <2>4. Encoding!after(t, x, Encoding!Newline) \in x..m
    BY <2>3, EncodingClasses, LoopWithin
  <2> QED BY <1>0, <2>1, <2>2, <2>4
<1>6. e6 \in q..m
  <2> DEFINE x == Encoding!after(t, q, Encoding!Whitespace)
  <2>1. x \in q..m
    BY <1>0, EncodingClasses, LoopWithin
  <2>2. e6 = IF x - q > 1 /\ x <= Len(t) THEN x - 1 ELSE x
    BY DEF Encoding!whitespace
  <2> HIDE DEF x, e6
  <2> QED BY <1>0, <2>1, <2>2
<1>7. Encoding!piece_end("qwen3", t, q) = first_end(q, ends)
  <2>1. Encoding!piece_end("qwen3", t, q) = Encoding!first_end(q, ends)
    BY DEF Encoding!piece_end, Encoding!qwen3
  <2> HIDE DEF ends
  <2> QED BY <2>1, SameScan
<1> HIDE DEF e1, e2, e3, e4, e5, e6
<1>8. DOMAIN ends = 1..6 /\ 6 \in Nat
  OBVIOUS
<1>9. /\ ends[1] = e1 /\ ends[2] = e2 /\ ends[3] = e3 /\ ends[4] = e4 /\ ends[5] = e5
      /\ ends[6] = e6
  OBVIOUS
<1> HIDE DEF ends
<1>10. \A i \in 1..6 : i = 1 \/ i = 2 \/ i = 3 \/ i = 4 \/ i = 5 \/ i = 6
  OBVIOUS
<1> HIDE DEF m
<1>11. \A i \in 1..6 : ends[i] \in q..m
  BY <1>1, <1>2, <1>3, <1>4, <1>5, <1>6, <1>9, <1>10
<1>12. first_end(q, ends) \in (q + 1)..m
  BY <1>0, <1>8, <1>11, FirstWithin
<1> QED BY <1>7, <1>12 DEF m

LEMMA FlattenOne ==
  ASSUME NEW S, NEW x \in Seq(S)
  PROVE  FlattenSeq(<<x>>) = x
<1>1. <<>> \in Seq(Seq(S)) /\ Append(<<>>, x) = <<x>>
  OBVIOUS
<1>2. FlattenSeq(Append(<<>>, x)) = FlattenSeq(<<>>) \o x
  BY <1>1, FlattenAppend
<1>3. <<>> \o x = x
  BY Grouped
<1> QED BY <1>1, <1>2, <1>3, FlattenEmpty

\* The pieces from a place on.
Pieces(f, cs) ==
  /\ f[Len(cs) + 1] = <<>>
  /\ \A q \in 1..Len(cs) :
       LET e == Encoding!piece_end("qwen3", cs, q)
       IN  f[q] = <<SubSeq(cs, q, e - 1)>> \o f[e]

Filled == Seq(Codepoint) \ {<<>>}

LEMMA TailIs ==
  ASSUME NEW S, NEW t \in Seq(S), NEW l \in 0..Len(t)
  PROVE  LET y == SubSeq(t, l + 1, Len(t))
         IN  y \in Seq(S) /\ Len(y) = Len(t) - l /\ \A j \in 1..(Len(t) - l) : y[j] = t[l + j]
OBVIOUS

LEMMA PieceIs ==
  ASSUME NEW cs \in Seq(Codepoint), NEW q \in 1..Len(cs)
  PROVE  LET e == Encoding!piece_end("qwen3", cs, q)
         IN  /\ e \in (q + 1)..(Len(cs) + 1) /\ SubSeq(cs, q, e - 1) \in Filled
             /\ SubSeq(cs, q, e - 1) \o SubSeq(cs, e, Len(cs)) = SubSeq(cs, q, Len(cs))
<1> DEFINE e == Encoding!piece_end("qwen3", cs, q)
           w == SubSeq(cs, q, Len(cs))
           l == e - q
<1>1. e \in (q + 1)..(Len(cs) + 1)
  BY Qwen3Within
<1> HIDE DEF e
<1>2. w \in Seq(Codepoint) /\ Len(w) = Len(cs) - q + 1 /\ \A j \in 1..(Len(cs) - q + 1) : w[j] = cs[q + j - 1]
  OBVIOUS
<1>3. l \in 1..Len(w) /\ l \in 0..Len(w)
  BY <1>1, <1>2
<1>4. SubSeq(cs, q, e - 1) = SubSeq(w, 1, l)
  <2>1. Len(SubSeq(cs, q, e - 1)) = l /\ Len(SubSeq(w, 1, l)) = l
    BY <1>1, <1>2, <1>3
  <2>2. \A j \in 1..l : SubSeq(cs, q, e - 1)[j] = cs[q + j - 1] /\ SubSeq(w, 1, l)[j] = w[j]
    BY <1>1, <1>2, <1>3
  <2>3. SubSeq(cs, q, e - 1) \in Seq(Codepoint) /\ SubSeq(w, 1, l) \in Seq(Codepoint)
    BY <1>1, <1>2, <1>3
  <2>4. \A j \in 1..l : w[j] = cs[q + j - 1]
    BY <1>2, <1>3
  <2> DEFINE x == SubSeq(cs, q, e - 1)
             y == SubSeq(w, 1, l)
  <2>5. x \in Seq(Codepoint) /\ y \in Seq(Codepoint) /\ Len(x) = Len(y)
        /\ \A j \in 1..Len(x) : x[j] = y[j]
    <3> HIDE DEF w
    <3> QED BY <2>1, <2>2, <2>3, <2>4
  <2> HIDE DEF x, y
  <2>6. x = y
    BY <2>5
  <2> QED BY <2>6 DEF x, y
<1>5. SubSeq(cs, e, Len(cs)) = SubSeq(w, l + 1, Len(w))
  <2> DEFINE x == SubSeq(cs, e, Len(cs))
             y == SubSeq(w, l + 1, Len(w))
             d == Len(cs) + 1 - e
  <2>0. d \in Nat
    BY <1>1
  <2>1. x \in Seq(Codepoint) /\ Len(x) = d /\ \A j \in 1..d : x[j] = cs[e + j - 1]
    BY <1>1
  <2>2. y \in Seq(Codepoint) /\ Len(y) = d /\ \A j \in 1..d : y[j] = w[l + j]
    <3>1. Len(w) - l = d
      BY <1>1, <1>2
    <3> HIDE DEF w, l, d
    <3> QED BY <3>1, <1>2, <1>3, TailIs
  <2>3. \A j \in 1..d : w[l + j] = cs[e + j - 1]
    <3> TAKE j \in 1..d
    <3>1. l + j \in 1..(Len(cs) - q + 1) /\ q + (l + j) - 1 = e + j - 1
      BY <1>1
    <3> HIDE DEF w, l
    <3> QED BY <3>1, <1>2
  <2> HIDE DEF x, y, d
  <2>4. \A j \in 1..d : x[j] = y[j]
    BY <2>1, <2>2, <2>3
  <2>5. x = y
    BY <2>0, <2>1, <2>2, <2>4
  <2> QED BY <2>5 DEF x, y
<1>6. w = SubSeq(w, 1, l) \o SubSeq(w, l + 1, Len(w))
  <2> HIDE DEF w, l
  <2> QED BY <1>2, <1>3, CutInTwo
<1>7. SubSeq(cs, q, e - 1) \in Seq(Codepoint) /\ Len(SubSeq(cs, q, e - 1)) >= 1
  BY <1>1
<1>8. SubSeq(cs, q, e - 1) \in Filled
  BY <1>7 DEF Filled
<1>9. SubSeq(cs, q, e - 1) \o SubSeq(cs, e, Len(cs)) = w
  <2> HIDE DEF w, l
  <2> QED BY <1>4, <1>5, <1>6
<1> QED BY <1>1, <1>8, <1>9 DEF e

LEMMA PiecesExist ==
  ASSUME NEW cs \in Seq(Codepoint)
  PROVE  \E f \in [1..(Len(cs) + 1) -> Seq(Filled)] : Pieces(f, cs)
<1> DEFINE n == Len(cs)
           Y == Seq(Filled)
           e(q) == Encoding!piece_end("qwen3", cs, q)
           step == [q \in 1..n |-> e(q)]
           h == [x \in (1..n) \X Y |-> <<SubSeq(cs, x[1], e(x[1]) - 1)>> \o x[2]]
<1>1. \A q \in 1..n : e(q) \in (q + 1)..(n + 1) /\ SubSeq(cs, q, e(q) - 1) \in Filled
  BY PieceIs
<1>2. n \in Nat /\ <<>> \in Y
  OBVIOUS
<1> HIDE DEF e, n
<1>3. \A q \in 1..n : step[q] \in (q + 1)..(n + 1) /\ step[q] = e(q)
  BY <1>1, <1>2
<1>4. h \in [(1..n) \X Y -> Y]
  <2>1. ASSUME NEW x \in Filled, NEW y \in Seq(Filled)
        PROVE  <<x>> \o y \in Seq(Filled)
    <3> HIDE DEF Filled
    <3> QED OBVIOUS
  <2>2. ASSUME NEW q \in 1..n, NEW y \in Y PROVE <<SubSeq(cs, q, e(q) - 1)>> \o y \in Y
    BY <1>1, <2>1
  <2>3. \A x \in (1..n) \X Y : x[1] \in 1..n /\ x[2] \in Y
    OBVIOUS
  <2> HIDE DEF Y
  <2> QED BY <2>2, <2>3
<1>5. \A q \in 1..n, y \in Y : h[<<q, y>>] = <<SubSeq(cs, q, e(q) - 1)>> \o y
  OBVIOUS
<1> HIDE DEF h, step, Y
<1>6. PICK f \in [1..(n + 1) -> Y] : Descends(f, n, <<>>, step, h)
  BY <1>2, <1>3, <1>4, DescentExists
<1>7. ASSUME NEW q \in 1..n
      PROVE  f[q] = <<SubSeq(cs, q, e(q) - 1)>> \o f[e(q)]
  <2>1. f[q] = h[<<q, f[step[q]]>>] /\ step[q] \in 1..(n + 1)
    BY <1>2, <1>3, <1>6 DEF Descends
  <2> QED BY <2>1, <1>3, <1>5
<1>8. Pieces(f, cs)
  BY <1>6, <1>7 DEF Pieces, Descends, n, e
<1> QED BY <1>6, <1>8 DEF n, Y

LEMMA SplitIs ==
  ASSUME NEW cs \in Seq(Codepoint)
  PROVE  \E f \in [1..(Len(cs) + 1) -> Seq(Filled)] :
           Pieces(f, cs) /\ Encoding!unicode_regex_split("qwen3", cs) = f[1]
<1> DEFINE n == Len(cs)
           Eq(f) == f = [q \in 1..(n + 1) |->
                           IF q > n THEN <<>>
                           ELSE LET e == Encoding!piece_end("qwen3", cs, q)
                                IN <<SubSeq(cs, q, e - 1)>> \o f[e]]
           c == CHOOSE f : Eq(f)
<1>0. /\ n \in Nat /\ n + 1 \in 1..(n + 1) /\ n + 1 > n
      /\ \A q \in 1..n : q \in 1..(n + 1) /\ ~(q > n)
      /\ \A q \in 1..(n + 1) : q = n + 1 \/ q \in 1..n
  OBVIOUS
<1>1. PICK f \in [1..(n + 1) -> Seq(Filled)] : Pieces(f, cs)
  BY PiecesExist
<1>2. Eq(f)
  <2>1. f[n + 1] = <<>> /\ \A q \in 1..n : f[q] = LET e == Encoding!piece_end("qwen3", cs, q)
                                                  IN <<SubSeq(cs, q, e - 1)>> \o f[e]
    BY <1>1 DEF Pieces
  <2> HIDE DEF n
  <2>2. ASSUME NEW q \in 1..(n + 1)
        PROVE  f[q] = IF q > n THEN <<>>
                      ELSE LET e == Encoding!piece_end("qwen3", cs, q)
                           IN <<SubSeq(cs, q, e - 1)>> \o f[e]
    BY <1>0, <2>1, Zenon
  <2>3. f = [q \in 1..(n + 1) |-> f[q]]
    BY <1>1
  <2> QED BY <2>2, <2>3, Zenon
<1>3. Eq(c)
  <2> HIDE DEF Eq
  <2> QED BY <1>2
<1>4. Encoding!unicode_regex_split("qwen3", cs) = c[1]
  BY DEF Encoding!unicode_regex_split
<1> HIDE DEF c
<1>5. Pieces(c, cs)
  <2> HIDE DEF n
  <2>1. c[n + 1] = <<>>
    BY <1>0, <1>3
  <2>2. \A q \in 1..n : c[q] = LET e == Encoding!piece_end("qwen3", cs, q)
                               IN <<SubSeq(cs, q, e - 1)>> \o c[e]
    BY <1>0, <1>3
  <2> QED BY <2>1, <2>2 DEF Pieces, n
<1>6. c = f
  <2> DEFINE K == {i \in 1..(n + 1) : c[i] = f[i]}
  <2>1. n + 1 \in K
    BY <1>0, <1>1, <1>5 DEF Pieces
  <2>2. ASSUME NEW i \in 1..n, (i + 1)..(n + 1) \subseteq K PROVE i \in K
    <3> DEFINE e == Encoding!piece_end("qwen3", cs, i)
    <3>1. e \in (i + 1)..(n + 1)
      BY Qwen3Within
    <3>2. c[e] = f[e]
      BY <3>1, <2>2
    <3>3. /\ c[i] = <<SubSeq(cs, i, e - 1)>> \o c[e]
          /\ f[i] = <<SubSeq(cs, i, e - 1)>> \o f[e]
      BY <1>1, <1>5 DEF Pieces
    <3>4. c[i] = f[i] /\ i \in 1..(n + 1)
      BY <3>2, <3>3, <1>0
    <3> QED BY <3>4
  <2>3. 1..(n + 1) \subseteq K
    <3> HIDE DEF K, n
    <3> QED BY <1>0, <2>1, <2>2, Downward
  <2>4. c = [i \in 1..(n + 1) |-> c[i]]
    BY <1>3
  <2>5. f = [i \in 1..(n + 1) |-> f[i]]
    BY <1>1
  <2> QED BY <2>3, <2>4, <2>5
<1> QED BY <1>1, <1>4, <1>6

\* No piece is empty, and together they are the text.
LEMMA SplitJoins ==
  ASSUME NEW cs \in Seq(Codepoint)
  PROVE  LET ps == Encoding!unicode_regex_split("qwen3", cs)
         IN  ps \in Seq(Filled) /\ FlattenSeq(ps) = cs /\ (cs # <<>> => ps # <<>>)
<1> DEFINE n == Len(cs)
           ps == Encoding!unicode_regex_split("qwen3", cs)
<1>0. n \in Nat
  OBVIOUS
<1>1. PICK f \in [1..(n + 1) -> Seq(Filled)] : Pieces(f, cs) /\ ps = f[1]
  BY SplitIs
<1> HIDE DEF ps
<1> DEFINE K == {i \in 1..(n + 1) : FlattenSeq(f[i]) = SubSeq(cs, i, n)}
<1>2. n + 1 \in K
  <2>1. f[n + 1] = <<>>
    BY <1>1 DEF Pieces
  <2>2. SubSeq(cs, n + 1, n) = <<>>
    OBVIOUS
  <2>3. FlattenSeq(f[n + 1]) = SubSeq(cs, n + 1, n) /\ n + 1 \in 1..(n + 1)
    BY <2>1, <2>2, <1>0, FlattenEmpty
  <2> QED BY <2>3
<1>3. ASSUME NEW i \in 1..n, (i + 1)..(n + 1) \subseteq K PROVE i \in K
  <2> DEFINE e == Encoding!piece_end("qwen3", cs, i)
             x == SubSeq(cs, i, e - 1)
  <2>1. /\ e \in (i + 1)..(n + 1) /\ x \in Filled
        /\ x \o SubSeq(cs, e, n) = SubSeq(cs, i, n)
    BY PieceIs
  <2>2. f[i] = <<x>> \o f[e]
    BY <1>1 DEF Pieces
  <2> HIDE DEF x, e
  <2>3. FlattenSeq(f[e]) = SubSeq(cs, e, n)
    BY <2>1, <1>3
  <2>4. e \in 1..(n + 1) /\ x \in Seq(Codepoint)
    BY <2>1, <1>0 DEF Filled
  <2>5. f[e] \in Seq(Filled) /\ <<x>> \in Seq(Seq(Codepoint))
    BY <1>1, <2>4
  <2>6. f[e] \in Seq(Seq(Codepoint))
    BY <2>5 DEF Filled
  <2>7. FlattenSeq(<<x>> \o f[e]) = FlattenSeq(<<x>>) \o FlattenSeq(f[e])
    BY <2>5, <2>6, FlattenConcat
  <2>8. FlattenSeq(<<x>>) = x
    BY <2>4, FlattenOne
  <2>9. FlattenSeq(f[i]) = SubSeq(cs, i, n)
    BY <2>1, <2>2, <2>3, <2>7, <2>8, Zenon
  <2>10. i \in 1..(n + 1)
    BY <1>0
  <2> QED BY <2>9, <2>10
<1>4. 1..(n + 1) \subseteq K
  <2> HIDE DEF K, n
  <2> QED BY <1>0, <1>2, <1>3, Downward
<1>5. FlattenSeq(ps) = cs
  <2>0. 1 \in 1..(n + 1)
    BY <1>0
  <2>1. 1 \in K
    BY <2>0, <1>4, Zenon
  <2>2. SubSeq(cs, 1, n) = cs
    BY AllOfIt
  <2> QED BY <2>1, <2>2, <1>1
<1>6. ps \in Seq(Filled)
  <2>1. 1 \in 1..(n + 1)
    BY <1>0
  <2> QED BY <1>1, <2>1
<1>7. cs # <<>> => ps # <<>>
  BY <1>5, FlattenEmpty
<1> QED BY <1>5, <1>6, <1>7 DEF ps

----------------------------------------------------------------------------
(* Merging spelled bytes *)

ByteWord == Seq(Byte) \ {<<>>}

\* What a word can be merged into.
Tokens(word, m) ==
  {unicode_byte_to_utf8(word[i]) : i \in 1..Len(word)} \cup {m[r][1] \o m[r][2] : r \in DOMAIN m}

\* The symbols spell consecutive parts of the word.
Divided(w, ss, word, m) ==
  /\ w \in Seq(ByteWord) /\ Len(w) = Len(ss) /\ FlattenSeq(w) = word
  /\ \A j \in 1..Len(ss) : ss[j] = unicode_byte_encoding(w[j]) /\ ss[j] \in Tokens(word, m)

Grouping(word, m) == {ss \in Seq(Seq(Byte)) : \E w : Divided(w, ss, word, m)}

LEMMA FlattenWords ==
  \A a \in Seq(ByteWord), b \in Seq(ByteWord) : FlattenSeq(a \o b) = FlattenSeq(a) \o FlattenSeq(b)
<1>1. Seq(ByteWord) \subseteq Seq(Seq(Byte))
  BY DEF ByteWord
<1> HIDE DEF ByteWord
<1>2. ASSUME NEW a \in Seq(ByteWord), NEW b \in Seq(ByteWord)
      PROVE  FlattenSeq(a \o b) = FlattenSeq(a) \o FlattenSeq(b)
  <2>1. a \in Seq(Seq(Byte)) /\ b \in Seq(Seq(Byte))
    BY <1>1
  <2> HIDE DEF Byte
  <2> QED BY <2>1, FlattenConcat
<1> QED BY <1>2

LEMMA FlattenWordIn ==
  \A a \in Seq(ByteWord) : FlattenSeq(a) \in Seq(Byte)
<1>1. Seq(ByteWord) \subseteq Seq(Seq(Byte))
  BY DEF ByteWord
<1> QED BY <1>1, FlattenIn

\* Two neighbours replaced by one.
Joined(ss, i, z) == SubSeq(ss, 1, i - 1) \o <<z>> \o SubSeq(ss, i + 2, Len(ss))

LEMMA JoinedIs ==
  ASSUME NEW S, NEW ss \in Seq(S), NEW i \in 1..(Len(ss) - 1), NEW z \in S
  PROVE  LET t == Joined(ss, i, z)
         IN  /\ t \in Seq(S) /\ Len(t) = Len(ss) - 1
             /\ \A j \in 1..(Len(ss) - 1) :
                  t[j] = IF j < i THEN ss[j] ELSE IF j = i THEN z ELSE ss[j + 1]
<1> DEFINE a == SubSeq(ss, 1, i - 1)
           b == SubSeq(ss, i + 2, Len(ss))
           n == Len(ss)
<1>0. n \in Nat /\ i \in Nat \ {0} /\ i <= n - 1
  OBVIOUS
<1>1. a \in Seq(S) /\ Len(a) = i - 1 /\ \A j \in 1..(i - 1) : a[j] = ss[j]
  BY <1>0
<1>2. b \in Seq(S) /\ Len(b) = n - 1 - i /\ \A j \in 1..(n - 1 - i) : b[j] = ss[i + 1 + j]
  BY <1>0
<1> HIDE DEF a, b, n
<1>3. /\ a \o <<z>> \in Seq(S) /\ Len(a \o <<z>>) = i
      /\ \A j \in 1..i : (a \o <<z>>)[j] = IF j < i THEN a[j] ELSE z
  BY <1>0, <1>1
<1> DEFINE c == a \o <<z>>
           t == c \o b
<1> HIDE DEF c
<1>4. c \in Seq(S) /\ Len(c) = i /\ \A j \in 1..i : c[j] = IF j < i THEN a[j] ELSE z
  BY <1>3 DEF c
<1>5. /\ t \in Seq(S) /\ Len(t) = n - 1
      /\ \A j \in 1..(n - 1) : t[j] = IF j <= i THEN c[j] ELSE b[j - i]
  <2>1. /\ c \o b \in Seq(S) /\ Len(c \o b) = Len(c) + Len(b)
        /\ \A j \in 1..(Len(c) + Len(b)) :
             (c \o b)[j] = IF j <= Len(c) THEN c[j] ELSE b[j - Len(c)]
    BY <1>2, <1>4, BothOf
  <2>2. Len(c) + Len(b) = n - 1 /\ Len(c) = i
    BY <1>0, <1>2, <1>4
  <2> HIDE DEF t
  <2>3. t = c \o b
    BY DEF t
  <2> QED BY <2>1, <2>2, <2>3
<1>6. ASSUME NEW j \in 1..(n - 1)
      PROVE  t[j] = IF j < i THEN ss[j] ELSE IF j = i THEN z ELSE ss[j + 1]
  <2> HIDE DEF t
  <2>1. CASE j < i
    <3>1. j \in 1..i /\ j \in 1..(i - 1) /\ j <= i
      BY <2>1, <1>0
    <3> QED BY <3>1, <2>1, <1>1, <1>4, <1>5
  <2>2. CASE j = i
    <3>1. j \in 1..i /\ ~(j < i) /\ j <= i
      BY <2>2, <1>0
    <3> QED BY <3>1, <2>2, <1>4, <1>5
  <2>3. CASE j > i
    <3>1. j - i \in 1..(n - 1 - i) /\ i + 1 + (j - i) = j + 1 /\ ~(j <= i) /\ ~(j < i) /\ j # i
      BY <2>3, <1>0
    <3>2. b[j - i] = ss[i + 1 + (j - i)]
      BY <3>1, <1>2
    <3> QED BY <3>1, <3>2, <1>5
  <2>4. j < i \/ j = i \/ j > i
    BY <1>0
  <2> QED BY <2>1, <2>2, <2>3, <2>4, Zenon
<1>7. t = Joined(ss, i, z)
  BY DEF t, c, a, b, Joined
<1> HIDE DEF t
<1>8. \A j \in 1..(n - 1) : t[j] = IF j < i THEN ss[j] ELSE IF j = i THEN z ELSE ss[j + 1]
  BY <1>6
<1> QED BY <1>5, <1>7, <1>8 DEF n

\* Joining two parts of a word leaves the word.
LEMMA JoinedFlattens ==
  ASSUME NEW w \in Seq(ByteWord), NEW i \in 1..(Len(w) - 1)
  PROVE  /\ FlattenSeq(Joined(w, i, w[i] \o w[i + 1])) = FlattenSeq(w)
         /\ w[i] \o w[i + 1] \in ByteWord
<1> DEFINE a == SubSeq(w, 1, i - 1)
           b == SubSeq(w, i + 2, Len(w))
           x == w[i]
           y == w[i + 1]
<1>0. i \in Nat \ {0} /\ i <= Len(w) - 1 /\ Len(w) \in Nat
  OBVIOUS
<1>1. x \in ByteWord /\ y \in ByteWord /\ x \in Seq(Byte) /\ y \in Seq(Byte)
  <2>1. x \in ByteWord /\ y \in ByteWord
    BY <1>0
  <2> QED BY <2>1 DEF ByteWord
<1>2. a \in Seq(ByteWord) /\ b \in Seq(ByteWord)
  <2> HIDE DEF ByteWord
  <2> QED BY <1>0
<1>3. w = ((a \o <<x>>) \o <<y>>) \o b
  <2> HIDE DEF ByteWord
  <2> DEFINE t == (a \o <<x>>) \o <<y>>
             c == SubSeq(w, 1, i + 1)
  <2>1. Len(a) = i - 1 /\ \A j \in 1..(i - 1) : a[j] = w[j]
    BY <1>0
  <2>2. c \in Seq(ByteWord) /\ Len(c) = i + 1 /\ \A j \in 1..(i + 1) : c[j] = w[j]
    BY <1>0
  <2> HIDE DEF a, c, x, y
  <2>3. a \o <<x>> \in Seq(ByteWord) /\ Len(a \o <<x>>) = i
        /\ \A j \in 1..i : (a \o <<x>>)[j] = IF j < i THEN a[j] ELSE x
    BY <1>0, <1>1, <1>2, <2>1
  <2> DEFINE d == a \o <<x>>
  <2> HIDE DEF d
  <2>4. d \in Seq(ByteWord) /\ Len(d) = i /\ \A j \in 1..i : d[j] = IF j < i THEN a[j] ELSE x
    BY <2>3 DEF d
  <2>5. /\ d \o <<y>> \in Seq(ByteWord) /\ Len(d \o <<y>>) = i + 1
        /\ \A j \in 1..(i + 1) : (d \o <<y>>)[j] = IF j <= i THEN d[j] ELSE y
    BY <1>0, <1>1, <2>4
  <2>6. t = d \o <<y>>
    BY DEF d
  <2> HIDE DEF t
  <2>7. \A j \in 1..(i + 1) : t[j] = w[j]
    <3> TAKE j \in 1..(i + 1)
    <3>1. CASE j < i
      <4>1. j \in 1..i /\ j <= i /\ j \in 1..(i - 1)
        BY <3>1, <1>0
      <4> QED BY <4>1, <3>1, <2>1, <2>4, <2>5, <2>6
    <3>2. CASE j = i
      <4>1. j \in 1..i /\ j <= i /\ ~(j < i)
        BY <3>2, <1>0
      <4> QED BY <4>1, <3>2, <2>4, <2>5, <2>6 DEF x
    <3>3. CASE j = i + 1
      <4>1. ~(j <= i)
        BY <3>3, <1>0
      <4> QED BY <4>1, <3>3, <2>5, <2>6 DEF y
    <3>4. j < i \/ j = i \/ j = i + 1
      BY <1>0
    <3> QED BY <3>1, <3>2, <3>3, <3>4
  <2>8. t = c
    <3>1. t \in Seq(ByteWord) /\ Len(t) = i + 1
      BY <2>5, <2>6
    <3>2. \A j \in 1..(i + 1) : t[j] = c[j]
      BY <2>2, <2>7
    <3> QED BY <3>1, <3>2, <2>2
  <2>9. w = c \o SubSeq(w, i + 1 + 1, Len(w))
    <3> DEFINE l == i + 1
    <3>1. l \in 0..Len(w)
      BY <1>0
    <3> HIDE DEF l
    <3>2. w = SubSeq(w, 1, l) \o SubSeq(w, l + 1, Len(w))
      BY <3>1, CutInTwo
    <3> QED BY <3>2 DEF l, c
  <2>10. i + 1 + 1 = i + 2
    BY <1>0
  <2>11. w = t \o b
    BY <2>8, <2>9, <2>10
  <2> QED BY <2>11 DEF t
<1> HIDE DEF a, b, x, y
<1> DEFINE Fa == FlattenSeq(a)
           Fb == FlattenSeq(b)
<1>4. Fa \in Seq(Byte) /\ Fb \in Seq(Byte)
  BY <1>2, FlattenWordIn
<1>5. x \o y \in ByteWord
  <2>1. x \o y \in Seq(Byte) /\ x # <<>>
    BY <1>1 DEF ByteWord
  <2>2. x \o y # <<>>
    <3>1. Len(x \o y) = Len(x) + Len(y) /\ Len(x) \in Nat \ {0} /\ Len(y) \in Nat
      BY <1>1, <2>1
    <3> QED BY <3>1
  <2> QED BY <2>1, <2>2 DEF ByteWord
<1>6. ASSUME NEW v \in ByteWord PROVE FlattenSeq(<<v>>) = v /\ <<v>> \in Seq(ByteWord) /\ v \in Seq(Byte)
  <2>1. v \in Seq(Byte)
    BY DEF ByteWord
  <2>2. FlattenSeq(<<v>>) = v
    BY <2>1, FlattenOne
  <2> QED BY <2>1, <2>2
<1>7. /\ a \o <<x>> \in Seq(ByteWord) /\ (a \o <<x>>) \o <<y>> \in Seq(ByteWord)
      /\ a \o <<x \o y>> \in Seq(ByteWord)
  <2> DEFINE xy == x \o y
  <2>1. xy \in ByteWord
    BY <1>5
  <2> HIDE DEF xy, ByteWord
  <2>2. a \o <<x>> \in Seq(ByteWord) /\ a \o <<xy>> \in Seq(ByteWord)
    BY <2>1, <1>1, <1>2
  <2> DEFINE ax == a \o <<x>>
  <2> HIDE DEF ax
  <2>3. ax \o <<y>> \in Seq(ByteWord)
    BY <2>2, <1>1 DEF ax
  <2> QED BY <2>2, <2>3 DEF ax, xy
<1>8. FlattenSeq(w) = ((Fa \o x) \o y) \o Fb
  <2>1. FlattenSeq(a \o <<x>>) = Fa \o x
    <3>1. <<x>> \in Seq(ByteWord) /\ FlattenSeq(<<x>>) = x
      BY <1>1, <1>6
    <3> QED BY <3>1, <1>2, FlattenWords, Zenon
  <2>2. FlattenSeq((a \o <<x>>) \o <<y>>) = (Fa \o x) \o y
    <3>1. <<y>> \in Seq(ByteWord) /\ FlattenSeq(<<y>>) = y
      BY <1>1, <1>6
    <3> QED BY <2>1, <3>1, <1>7, FlattenWords, Zenon
  <2>3. FlattenSeq(((a \o <<x>>) \o <<y>>) \o b) = ((Fa \o x) \o y) \o Fb
    BY <2>2, <1>2, <1>7, FlattenWords
  <2> QED BY <2>3, <1>3
<1>9. FlattenSeq((a \o <<x \o y>>) \o b) = (Fa \o (x \o y)) \o Fb
  <2>1. FlattenSeq(a \o <<x \o y>>) = Fa \o (x \o y)
    <3>1. <<x \o y>> \in Seq(ByteWord) /\ FlattenSeq(<<x \o y>>) = x \o y
      BY <1>5, <1>6
    <3> QED BY <3>1, <1>2, FlattenWords, Zenon
  <2> QED BY <2>1, <1>2, <1>7, FlattenWords
<1>10. (Fa \o x) \o y = Fa \o (x \o y)
  <2> HIDE DEF Fa
  <2> QED BY <1>1, <1>4, Grouped
<1>11. Joined(w, i, x \o y) = (a \o <<x \o y>>) \o b
  BY DEF Joined, a, b
<1>12. FlattenSeq(Joined(w, i, x \o y)) = FlattenSeq(w)
  BY <1>8, <1>9, <1>10, <1>11
<1> QED BY <1>5, <1>12 DEF x, y

LEMMA NextMerge ==
  ASSUME NEW m, DOMAIN m \subseteq Nat, NEW ss \in Seq(Seq(Byte))
  PROVE  LET i == Encoding!best_index(m, ss)
         IN  \/ i = 0
             \/ /\ i \in 1..(Len(ss) - 1)
                /\ \E r \in DOMAIN m : m[r] = <<ss[i], ss[i + 1]>>
<1> DEFINE at_(i) == {r \in DOMAIN m : m[r] = <<ss[i], ss[i + 1]>>}
           I == 1..(Len(ss) - 1)
           ranks == UNION {at_(i) : i \in I}
           best == {i \in I : Encoding!Min(ranks) \in at_(i)}
           k == Encoding!best_index(m, ss)
<1>1. k = IF ranks = {} THEN 0 ELSE Encoding!Min(best)
  BY DEF Encoding!best_index, Encoding!ranks_at
<1>2. ASSUME NEW S \in SUBSET Nat, S # {} PROVE Encoding!Min(S) \in S
  <2>1. PICK e \in S : \A x \in S : e <= x
    BY <1>2, LeastOf
  <2> QED BY <2>1, Zenon DEF Encoding!Min
<1>3. CASE ranks = {}
  BY <1>1, <1>3
<1>4. CASE ranks # {}
  <2>1. ranks \in SUBSET Nat
    OBVIOUS
  <2>2. Encoding!Min(ranks) \in ranks
    <3> HIDE DEF ranks
    <3> QED BY <1>2, <1>4, <2>1
  <2>3. best \in SUBSET Nat /\ best # {}
    <3>1. \E i \in I : Encoding!Min(ranks) \in at_(i)
      BY <2>2
    <3> HIDE DEF ranks, at_
    <3>2. best # {}
      BY <3>1
    <3>3. \A i \in best : i \in I
      OBVIOUS
    <3>4. I \subseteq Nat
      OBVIOUS
    <3> HIDE DEF best, I
    <3> QED BY <3>2, <3>3, <3>4
  <2>4. Encoding!Min(best) \in best
    <3> HIDE DEF best
    <3> QED BY <1>2, <2>3
  <2>5. k \in best
    BY <1>1, <1>4, <2>4
  <2> HIDE DEF k, ranks
  <2>6. k \in I /\ \E r \in DOMAIN m : m[r] = <<ss[k], ss[k + 1]>>
    BY <2>5
  <2> QED BY <2>6 DEF k
<1> QED BY <1>3, <1>4

\* A round of the loop keeps the symbols spelling the word.
LEMMA RoundKeepsGrouping ==
  ASSUME NEW word, NEW m \in Seq(Seq(Byte) \X Seq(Byte)), NEW ss \in Grouping(word, m),
         NEW i \in 1..(Len(ss) - 1), NEW r \in DOMAIN m, m[r] = <<ss[i], ss[i + 1]>>
  PROVE  Encoding!merge_at(ss, i) \in Grouping(word, m)
<1>1. PICK w : Divided(w, ss, word, m)
  BY DEF Grouping
<1>2. /\ w \in Seq(ByteWord) /\ Len(w) = Len(ss) /\ FlattenSeq(w) = word /\ ss \in Seq(Seq(Byte))
      /\ \A j \in 1..Len(ss) : ss[j] = unicode_byte_encoding(w[j]) /\ ss[j] \in Tokens(word, m)
  BY <1>1 DEF Divided, Grouping
<1>3. i \in Nat \ {0} /\ i <= Len(ss) - 1 /\ Len(ss) \in Nat /\ i \in 1..(Len(w) - 1)
  BY <1>2
<1> DEFINE z == ss[i] \o ss[i + 1]
           v == w[i] \o w[i + 1]
           t == Joined(ss, i, z)
           x == Joined(w, i, v)
<1>4. ss[i] \in Seq(Byte) /\ ss[i + 1] \in Seq(Byte) /\ z \in Seq(Byte)
  <2>1. ss[i] \in Seq(Byte) /\ ss[i + 1] \in Seq(Byte)
    BY <1>2, <1>3
  <2> QED BY <2>1
<1>5. v \in ByteWord /\ FlattenSeq(x) = word
  BY <1>2, <1>3, JoinedFlattens
<1>6. z = unicode_byte_encoding(v)
  <2>1. i \in 1..Len(ss) /\ i + 1 \in 1..Len(ss)
    BY <1>3
  <2>2. ss[i] = unicode_byte_encoding(w[i]) /\ ss[i + 1] = unicode_byte_encoding(w[i + 1])
    BY <1>2, <2>1
  <2>3. w[i] \in Seq(Byte) /\ w[i + 1] \in Seq(Byte)
    <3>1. w[i] \in ByteWord /\ w[i + 1] \in ByteWord
      BY <1>2, <2>1
    <3> QED BY <3>1 DEF ByteWord
  <2> QED BY <2>2, <2>3, SpellingConcat
<1>7. z \in Tokens(word, m)
  <2>1. m[r][1] = ss[i] /\ m[r][2] = ss[i + 1]
    <3> DEFINE pair == <<ss[i], ss[i + 1]>>
    <3>1. pair[1] = ss[i] /\ pair[2] = ss[i + 1]
      OBVIOUS
    <3>2. m[r] = pair
      BY Zenon
    <3> HIDE DEF pair
    <3> QED BY <3>1, <3>2
  <2>2. z = m[r][1] \o m[r][2]
    BY <2>1, Zenon
  <2> QED BY <2>2, Zenon DEF Tokens
<1> HIDE DEF z, v
<1>8. /\ t \in Seq(Seq(Byte)) /\ Len(t) = Len(ss) - 1
      /\ \A j \in 1..(Len(ss) - 1) :
           t[j] = IF j < i THEN ss[j] ELSE IF j = i THEN z ELSE ss[j + 1]
  <2> DEFINE S == Seq(Byte)
  <2>1. ss \in Seq(S) /\ z \in S
    BY <1>2, <1>4
  <2> HIDE DEF S
  <2> QED BY <2>1, JoinedIs DEF S
<1>9. /\ x \in Seq(ByteWord) /\ Len(x) = Len(ss) - 1
      /\ \A j \in 1..(Len(ss) - 1) :
           x[j] = IF j < i THEN w[j] ELSE IF j = i THEN v ELSE w[j + 1]
  <2>1. Len(w) = Len(ss)
    BY <1>2
  <2> HIDE DEF ByteWord
  <2>2. /\ x \in Seq(ByteWord) /\ Len(x) = Len(w) - 1
        /\ \A j \in 1..(Len(w) - 1) :
             x[j] = IF j < i THEN w[j] ELSE IF j = i THEN v ELSE w[j + 1]
    <3>1. w \in Seq(ByteWord) /\ i \in 1..(Len(w) - 1) /\ v \in ByteWord
      BY <1>2, <1>3, <1>5
    <3> QED BY <3>1, JoinedIs
  <2> QED BY <2>1, <2>2
<1> HIDE DEF t, x
<1>10. ASSUME NEW j \in 1..(Len(ss) - 1)
       PROVE  t[j] = unicode_byte_encoding(x[j]) /\ t[j] \in Tokens(word, m)
  <2>1. j \in 1..Len(ss) /\ j + 1 \in 1..Len(ss)
    BY <1>3
  <2>2. /\ ss[j] = unicode_byte_encoding(w[j]) /\ ss[j] \in Tokens(word, m)
        /\ ss[j + 1] = unicode_byte_encoding(w[j + 1]) /\ ss[j + 1] \in Tokens(word, m)
    BY <1>2, <2>1
  <2>3. /\ t[j] = IF j < i THEN ss[j] ELSE IF j = i THEN z ELSE ss[j + 1]
        /\ x[j] = IF j < i THEN w[j] ELSE IF j = i THEN v ELSE w[j + 1]
    BY <1>8, <1>9
  <2> QED BY <2>2, <2>3, <1>6, <1>7, Zenon
<1>11. Divided(x, t, word, m)
  BY <1>5, <1>8, <1>9, <1>10 DEF Divided
<1>12. t \in Grouping(word, m)
  BY <1>8, <1>11 DEF Grouping
<1>13. t = Encoding!merge_at(ss, i)
  BY DEF t, z, Joined, Encoding!merge_at
<1> QED BY <1>12, <1>13

\* Merging a word that was cut into symbols ends with symbols that spell it.
LEMMA MergedGroups ==
  ASSUME NEW word, NEW m \in Seq(Seq(Byte) \X Seq(Byte)), NEW ss \in Grouping(word, m)
  PROVE  Encoding!merged(m, ss) \in Grouping(word, m)
<1> DEFINE Y == Grouping(word, m)
           n == Len(ss)
           best(t) == Encoding!best_index(m, t)
           next(t) == IF best(t) = 0 THEN t ELSE Encoding!merge_at(t, best(t))
           h == [x \in (1..n) \X Y |-> next(x[2])]
           Eq(f) == f = [k \in 0..n |->
                           IF k = 0 THEN ss
                           ELSE LET i == Encoding!best_index(m, f[k - 1])
                                IN IF i = 0 THEN f[k - 1] ELSE Encoding!merge_at(f[k - 1], i)]
           c == CHOOSE f : Eq(f)
<1>0. n \in Nat /\ \A t \in Y : t \in Seq(Seq(Byte))
  BY DEF Grouping
<1>1. \A t \in Y : next(t) \in Y
  <2> TAKE t \in Y
  <2>1. DOMAIN m \subseteq Nat
    OBVIOUS
  <2>2. \/ best(t) = 0
        \/ best(t) \in 1..(Len(t) - 1) /\ \E r \in DOMAIN m : m[r] = <<t[best(t)], t[best(t) + 1]>>
    BY <1>0, <2>1, NextMerge
  <2>3. CASE best(t) = 0
    BY <2>3
  <2>4. CASE best(t) # 0
    <3> DEFINE i == best(t)
    <3>1. i \in 1..(Len(t) - 1)
      BY <2>2, <2>4
    <3>2. PICK r \in DOMAIN m : m[r] = <<t[i], t[i + 1]>>
      BY <2>2, <2>4
    <3> HIDE DEF i
    <3>3. Encoding!merge_at(t, i) \in Y
      BY <3>1, <3>2, RoundKeepsGrouping
    <3> QED BY <2>4, <3>3 DEF i
  <2> QED BY <2>3, <2>4
<1> HIDE DEF Y, next
<1>2. h \in [(1..n) \X Y -> Y] /\ ss \in Y /\ \A k \in 1..n, t \in Y : h[<<k, t>>] = next(t)
  BY <1>1 DEF Y
<1> HIDE DEF h, n
<1>3. PICK f \in [0..n -> Y] : Ascends(f, n, ss, h)
  BY <1>0, <1>2, RecursionExists
<1>4. \A k \in 1..n : f[k] = next(f[k - 1])
  <2> TAKE k \in 1..n
  <2>1. f[k - 1] \in Y
    BY <1>0, <1>3
  <2> QED BY <2>1, <1>2, <1>3 DEF Ascends
<1>5. f[0] = ss
  BY <1>3 DEF Ascends
<1>6. Eq(f)
  <2>1. \A k \in 0..n : k = 0 \/ (k \in 1..n /\ k # 0)
    BY <1>0
  <2>2. ASSUME NEW k \in 0..n
        PROVE  f[k] = IF k = 0 THEN ss
                      ELSE LET i == Encoding!best_index(m, f[k - 1])
                           IN IF i = 0 THEN f[k - 1] ELSE Encoding!merge_at(f[k - 1], i)
    BY <2>1, <1>4, <1>5, Zenon DEF next
  <2>3. f = [k \in 0..n |-> f[k]]
    BY <1>3
  <2> QED BY <2>2, <2>3, Zenon
<1>7. Eq(c)
  <2> HIDE DEF Eq
  <2> QED BY <1>6
<1>8. Encoding!merged(m, ss) = c[n]
  BY DEF Encoding!merged, n
<1> HIDE DEF c
<1>9. c[0] = ss /\ \A k \in 1..n : c[k] = next(c[k - 1])
  <2>1. 0 \in 0..n /\ \A k \in 1..n : k \in 0..n /\ k # 0
    BY <1>0
  <2> QED BY <1>7, <2>1, Zenon DEF next
<1> DEFINE K == {k \in Nat : k <= n => c[k] \in Y}
<1> HIDE DEF Eq
<1>10. 0 \in K
  BY <1>2, <1>9
<1>11. ASSUME NEW k \in 1..n, k - 1 \in K PROVE k \in K
  <2>1. c[k - 1] \in Y
    BY <1>0, <1>11
  <2>2. c[k] \in Y
    BY <2>1, <1>1, <1>9
  <2> QED BY <2>2
<1>12. 0..n \subseteq K
  <2>1. K \in SUBSET Nat
    OBVIOUS
  <2> HIDE DEF K
  <2> QED BY <1>0, <1>10, <1>11, <2>1, Upward
<1>13. c[n] \in Y
  <2>1. n \in 0..n
    BY <1>0
  <2>2. n \in K
    BY <2>1, <1>12, Zenon
  <2> QED BY <2>2, <1>0
<1> QED BY <1>8, <1>13 DEF Y

----------------------------------------------------------------------------
(* The text operators as the tokenizer sees them *)

LEMMA SameText ==
  /\ \A u : Encoding!unicode_cpts_from_utf8(u) = unicode_cpts_from_utf8(u)
  /\ \A u : Encoding!decodes(u) <=> decodes(u)
  /\ \A c : Encoding!unicode_cpt_to_utf8(c) = unicode_cpt_to_utf8(c)
  /\ \A cs : Encoding!unicode_cpts_to_utf8(cs) = unicode_cpts_to_utf8(cs)
  /\ \A ss : Encoding!FlattenSeq(ss) = FlattenSeq(ss)
<1>1. \A u : Encoding!unicode_cpts_from_utf8(u) = unicode_cpts_from_utf8(u)
  BY DEF Encoding!unicode_cpts_from_utf8, unicode_cpts_from_utf8, Encoding!unicode_cpt_from_utf8,
         unicode_cpt_from_utf8, Encoding!width, width, Encoding!Trailing, Trailing,
         Encoding!Invalid, Invalid, Encoding!OutOfRange, OutOfRange
<1>2. \A u : Encoding!decodes(u) <=> decodes(u)
  BY SMT DEF Encoding!decodes, decodes, Encoding!unicode_cpt_from_utf8,
         unicode_cpt_from_utf8, Encoding!width, width, Encoding!Trailing, Trailing,
         Encoding!Invalid, Invalid, Encoding!OutOfRange, OutOfRange, Encoding!MaxCodepoint,
         MaxCodepoint
<1>3. \A c : Encoding!unicode_cpt_to_utf8(c) = unicode_cpt_to_utf8(c)
  BY DEF Encoding!unicode_cpt_to_utf8, unicode_cpt_to_utf8, Encoding!MaxCodepoint, MaxCodepoint
<1>4. \A ss : Encoding!FlattenSeq(ss) = FlattenSeq(ss)
  BY DEF Encoding!FlattenSeq, FlattenSeq
<1>5. \A cs : Encoding!unicode_cpts_to_utf8(cs) = unicode_cpts_to_utf8(cs)
  BY <1>3, <1>4 DEF Encoding!unicode_cpts_to_utf8, unicode_cpts_to_utf8
<1> QED BY <1>1, <1>2, <1>3, <1>4, <1>5

LEMMA SameSpelling ==
  /\ \A b : Encoding!unicode_byte_to_utf8(b) = unicode_byte_to_utf8(b)
  /\ \A w : Encoding!unicode_byte_encoding(w) = unicode_byte_encoding(w)
  /\ \A x : Encoding!unicode_utf8_to_byte(x) = unicode_utf8_to_byte(x)
  /\ Encoding!Byte = Byte
<1>1. Encoding!Byte = Byte
  BY Zenon DEF Encoding!Byte, Byte
<1>2. Encoding!Printable = Printable
  BY SMT DEF Encoding!Printable, Printable
<1>3. Encoding!byte_cpt = byte_cpt
  <2>1. \A S : Encoding!Cardinality(S) = Cardinality(S)
    BY DEF Encoding!Cardinality, Cardinality, Encoding!IsFiniteSet, IsFiniteSet
  <2> QED BY <1>1, <1>2, <2>1, Zenon DEF Encoding!byte_cpt, byte_cpt
<1>4. \A b : Encoding!unicode_byte_to_utf8(b) = unicode_byte_to_utf8(b)
  BY <1>3, SameText DEF Encoding!unicode_byte_to_utf8, unicode_byte_to_utf8
<1>5. \A w : Encoding!unicode_byte_encoding(w) = unicode_byte_encoding(w)
  BY <1>4, SameText DEF Encoding!unicode_byte_encoding, unicode_byte_encoding
<1>6. \A x : Encoding!unicode_utf8_to_byte(x) = unicode_utf8_to_byte(x)
  BY <1>1, <1>4 DEF Encoding!unicode_utf8_to_byte, unicode_utf8_to_byte
<1> QED BY <1>1, <1>4, <1>5, <1>6

LEMMA CanonicalText ==
  ASSUME NEW u \in Seq(Byte)
  PROVE  /\ Encoding!canonical(u) <=> decodes(u) /\ unicode_cpts_to_utf8(unicode_cpts_from_utf8(u)) = u
         /\ Encoding!canonical(u) => \E cs \in Seq(Codepoint) : u = unicode_cpts_to_utf8(cs)
<1>1. Encoding!canonical(u) <=> decodes(u) /\ unicode_cpts_to_utf8(unicode_cpts_from_utf8(u)) = u
  BY SameText DEF Encoding!canonical
<1> QED BY <1>1, CanonicalIs

\* The symbols of a spelled word are the spellings of its bytes, each read back as its byte.
LEMMA SymbolsOfSpelled ==
  ASSUME NEW w \in Seq(Byte)
  PROVE  LET ss == Encoding!symbols_of(unicode_byte_encoding(w))
         IN  /\ ss = [i \in 1..Len(w) |-> unicode_byte_to_utf8(w[i])]
             /\ [i \in DOMAIN ss |-> Encoding!unicode_utf8_to_byte(ss[i])] = w
<1> DEFINE ss == Encoding!symbols_of(unicode_byte_encoding(w))
           m == Mapped(byte_cpt, w)
<1>1. Encoding!unicode_cpts_from_utf8(unicode_byte_encoding(w)) = m
  BY SpellingReads, SameText
<1>2. DOMAIN m = 1..Len(w) /\ \A i \in 1..Len(w) : m[i] = byte_cpt[w[i]]
  BY DEF Mapped
<1> HIDE DEF m
<1>3. ss = [i \in DOMAIN m |-> Encoding!unicode_cpt_to_utf8(m[i])]
  BY <1>1 DEF Encoding!symbols_of
<1> HIDE DEF ss
<1>4. ss = [i \in 1..Len(w) |-> unicode_byte_to_utf8(w[i])]
  BY <1>2, <1>3, SameText DEF unicode_byte_to_utf8
<1>5. \A i \in 1..Len(w) : Encoding!unicode_utf8_to_byte(ss[i]) = w[i]
  <2> TAKE i \in 1..Len(w)
  <2>1. w[i] \in Byte
    OBVIOUS
  <2>2. ss[i] = unicode_byte_to_utf8(w[i])
    BY <1>4
  <2> QED BY <2>1, <2>2, SpelledBack, SameSpelling
<1>6. w = [i \in 1..Len(w) |-> w[i]]
  OBVIOUS
<1>7. DOMAIN ss = 1..Len(w)
  BY <1>4
<1>8. [i \in DOMAIN ss |-> Encoding!unicode_utf8_to_byte(ss[i])] = w
  BY <1>5, <1>6, <1>7
<1> QED BY <1>4, <1>8 DEF ss

\* A word before any merge.
LEMMA UnmergedGroups ==
  ASSUME NEW word \in Seq(Byte), NEW m
  PROVE  [i \in 1..Len(word) |-> unicode_byte_to_utf8(word[i])] \in Grouping(word, m)
<1> DEFINE One == [b \in Byte |-> <<b>>]
           w == Mapped(One, word)
           ss == [i \in 1..Len(word) |-> unicode_byte_to_utf8(word[i])]
<1>1. One \in [Byte -> ByteWord]
  BY DEF ByteWord
<1>2. w \in Seq(ByteWord) /\ Len(w) = Len(word)
  <2> HIDE DEF One, ByteWord, w, ss
  <2>1. \A F \in [Byte -> ByteWord], t \in Seq(Byte) :
          Mapped(F, t) \in Seq(ByteWord) /\ Len(Mapped(F, t)) = Len(t)
    BY MappedIs
  <2>2. Mapped(One, word) \in Seq(ByteWord) /\ Len(Mapped(One, word)) = Len(word)
    BY <1>1, <2>1
  <2> QED BY <2>2 DEF w
<1>3. \A i \in 1..Len(word) : w[i] = <<word[i]>> /\ word[i] \in Byte
  BY DEF Mapped
<1>4. \A i \in 1..Len(word) : unicode_byte_to_utf8(word[i]) \in Seq(Byte)
  <2>1. \A b \in Byte : byte_cpt[b] \in Codepoint
    BY ByteCpts
  <2>2. \A b \in Byte : unicode_byte_to_utf8(b) \in Seq(Byte)
    BY <2>1, Utf8Is DEF Character, unicode_byte_to_utf8
  <2> QED BY <1>3, <2>2
<1>5. ss \in Seq(Seq(Byte)) /\ Len(ss) = Len(word)
  BY <1>4
<1>6. FlattenSeq(w) = word
  <2> DEFINE P == {t \in Seq(Byte) : FlattenSeq(Mapped(One, t)) = t}
  <2>0. One \in [Byte -> Seq(Byte)]
    BY <1>1 DEF ByteWord
  <2>1. <<>> \in P
    <3>1. Mapped(One, <<>>) = <<>> /\ <<>> \in Seq(Byte)
      BY DEF Mapped
    <3> QED BY <3>1, FlattenEmpty
  <2>2. ASSUME NEW t \in Seq(Byte), NEW b \in Byte, t \in P PROVE Append(t, b) \in P
    <3>1. One[b] = <<b>>
      OBVIOUS
    <3> HIDE DEF One
    <3>2. Mapped(One, Append(t, b)) = Append(Mapped(One, t), One[b])
      BY <2>0, MappedAppend
    <3>3. Mapped(One, t) \in Seq(Seq(Byte)) /\ One[b] \in Seq(Byte)
      BY <2>0, MappedIs
    <3>4. FlattenSeq(Append(Mapped(One, t), One[b])) = FlattenSeq(Mapped(One, t)) \o One[b]
      BY <3>3, FlattenAppend
    <3>5. FlattenSeq(Mapped(One, t)) = t
      BY <2>2
    <3>6. t \o <<b>> = Append(t, b) /\ Append(t, b) \in Seq(Byte)
      OBVIOUS
    <3>7. FlattenSeq(Mapped(One, Append(t, b))) = Append(t, b)
      BY <3>1, <3>2, <3>4, <3>5, <3>6
    <3> QED BY <3>6, <3>7
  <2>3. Seq(Byte) \subseteq P
    <3> HIDE DEF P
    <3> QED BY <2>1, <2>2, ByAppending
  <2> QED BY <2>3
<1> HIDE DEF w
<1>7. ASSUME NEW j \in 1..Len(ss)
      PROVE  ss[j] = unicode_byte_encoding(w[j]) /\ ss[j] \in Tokens(word, m)
  <2>1. j \in 1..Len(word)
    BY <1>5
  <2>2. ss[j] = unicode_byte_to_utf8(word[j])
    BY <2>1
  <2> HIDE DEF ss
  <2>3. w[j] = <<word[j]>> /\ word[j] \in Byte
    BY <1>3, <2>1
  <2>4. ss[j] = unicode_byte_encoding(w[j])
    BY <2>2, <2>3, SpellingOne
  <2>5. ss[j] \in Tokens(word, m)
    BY <2>1, <2>2 DEF Tokens
  <2> QED BY <2>4, <2>5
<1> HIDE DEF ss
<1>8. Divided(w, ss, word, m)
  BY <1>2, <1>5, <1>6, <1>7 DEF Divided
<1>9. ss \in Grouping(word, m)
  BY <1>5, <1>8 DEF Grouping
<1> QED BY <1>9 DEF ss

\* Groupings of two texts make one of both.
LEMMA GroupingsJoin ==
  ASSUME NEW m, NEW a \in Seq(Byte), NEW b \in Seq(Byte),
         NEW x \in Grouping(a, m), NEW y \in Grouping(b, m)
  PROVE  x \o y \in Grouping(a \o b, m)
<1>1. PICK v : Divided(v, x, a, m)
  BY DEF Grouping
<1>2. PICK w : Divided(w, y, b, m)
  BY DEF Grouping
<1>3. x \in Seq(Seq(Byte)) /\ y \in Seq(Seq(Byte))
  BY DEF Grouping
<1>4. v \in Seq(ByteWord) /\ w \in Seq(ByteWord) /\ Len(v) = Len(x) /\ Len(w) = Len(y)
  BY <1>1, <1>2 DEF Divided
<1>5. FlattenSeq(v \o w) = a \o b
  <2>1. FlattenSeq(v) = a /\ FlattenSeq(w) = b
    BY <1>1, <1>2 DEF Divided
  <2> QED BY <1>4, <2>1, FlattenWords
<1>6. /\ v \o w \in Seq(ByteWord) /\ Len(v \o w) = Len(x) + Len(y)
      /\ \A j \in 1..(Len(x) + Len(y)) : (v \o w)[j] = IF j <= Len(x) THEN v[j] ELSE w[j - Len(x)]
  <2> HIDE DEF ByteWord
  <2>1. /\ v \o w \in Seq(ByteWord) /\ Len(v \o w) = Len(v) + Len(w)
        /\ \A j \in 1..(Len(v) + Len(w)) : (v \o w)[j] = IF j <= Len(v) THEN v[j] ELSE w[j - Len(v)]
    BY <1>4, BothOf
  <2> QED BY <2>1, <1>4
<1>7. /\ x \o y \in Seq(Seq(Byte)) /\ Len(x \o y) = Len(x) + Len(y)
      /\ \A j \in 1..(Len(x) + Len(y)) : (x \o y)[j] = IF j <= Len(x) THEN x[j] ELSE y[j - Len(x)]
  <2> DEFINE S == Seq(Byte)
  <2> HIDE DEF S
  <2>1. x \in Seq(S) /\ y \in Seq(S)
    BY <1>3 DEF S
  <2>2. /\ x \o y \in Seq(S) /\ Len(x \o y) = Len(x) + Len(y)
        /\ \A j \in 1..(Len(x) + Len(y)) : (x \o y)[j] = IF j <= Len(x) THEN x[j] ELSE y[j - Len(x)]
    BY <2>1, BothOf
  <2> QED BY <2>2 DEF S
<1>8. Len(x) \in Nat /\ Len(y) \in Nat
  BY <1>3
<1>9. Tokens(a, m) \subseteq Tokens(a \o b, m) /\ Tokens(b, m) \subseteq Tokens(a \o b, m)
  <2>1. \A i \in 1..Len(a) : i \in 1..Len(a \o b) /\ (a \o b)[i] = a[i]
    OBVIOUS
  <2>2. \A i \in 1..Len(b) : Len(a) + i \in 1..Len(a \o b) /\ (a \o b)[Len(a) + i] = b[i]
    OBVIOUS
  <2>3. Tokens(a, m) \subseteq Tokens(a \o b, m)
    BY <2>1, Zenon DEF Tokens
  <2>4. Tokens(b, m) \subseteq Tokens(a \o b, m)
    BY <2>2, Zenon DEF Tokens
  <2> QED BY <2>3, <2>4
<1> DEFINE xy == x \o y
           vw == v \o w
<1> HIDE DEF xy, vw
<1>10. ASSUME NEW j \in 1..Len(xy)
       PROVE  xy[j] = unicode_byte_encoding(vw[j]) /\ xy[j] \in Tokens(a \o b, m)
  <2>0. j \in 1..(Len(x) + Len(y))
    BY <1>7 DEF xy
  <2>1. CASE j <= Len(x)
    <3>1. xy[j] = x[j] /\ vw[j] = v[j] /\ j \in 1..Len(x)
      BY <2>0, <2>1, <1>6, <1>7 DEF xy, vw
    <3>2. x[j] = unicode_byte_encoding(v[j]) /\ x[j] \in Tokens(a, m)
      BY <3>1, <1>1 DEF Divided
    <3> QED BY <3>1, <3>2, <1>9
  <2>2. CASE ~(j <= Len(x))
    <3>1. xy[j] = y[j - Len(x)] /\ vw[j] = w[j - Len(x)] /\ j - Len(x) \in 1..Len(y)
      BY <2>0, <2>2, <1>6, <1>7, <1>8 DEF xy, vw
    <3>2. y[j - Len(x)] = unicode_byte_encoding(w[j - Len(x)]) /\ y[j - Len(x)] \in Tokens(b, m)
      BY <3>1, <1>2 DEF Divided
    <3> QED BY <3>1, <3>2, <1>9
  <2> QED BY <2>1, <2>2
<1>11. Divided(vw, xy, a \o b, m)
  <2>1. vw \in Seq(ByteWord) /\ Len(vw) = Len(xy) /\ FlattenSeq(vw) = a \o b
    BY <1>5, <1>6, <1>7 DEF vw, xy
  <2> QED BY <2>1, <1>10 DEF Divided
<1>12. xy \in Seq(Seq(Byte))
  BY <1>7 DEF xy
<1> QED BY <1>11, <1>12 DEF Grouping, xy

LEMMA PieceGroups ==
  ASSUME file.merges \in Seq(Seq(Byte) \X Seq(Byte)), NEW word \in Seq(Byte)
  PROVE  Encoding!piece_symbols(word) \in Grouping(word, file.merges)
<1> DEFINE ss == [i \in 1..Len(word) |-> unicode_byte_to_utf8(word[i])]
           m == file.merges
<1>1. Encoding!symbols_of(Encoding!unicode_byte_encoding(word)) = ss
  <2>1. Encoding!unicode_byte_encoding(word) = unicode_byte_encoding(word)
    BY SameSpelling
  <2> QED BY <2>1, SymbolsOfSpelled
<1>2. ss \in Grouping(word, m)
  BY UnmergedGroups
<1> HIDE DEF ss
<1>3. Encoding!piece_symbols(word) = Encoding!merged(m, ss)
  BY <1>1 DEF Encoding!piece_symbols
<1>4. m \in Seq(Seq(Byte) \X Seq(Byte))
  OBVIOUS
<1> HIDE DEF m
<1>5. Encoding!merged(m, ss) \in Grouping(word, m)
  BY <1>2, <1>4, MergedGroups
<1> QED BY <1>3, <1>5 DEF m

\* The symbols of ordinary text spell it, whatever the pieces and the merges.
LEMMA OrdinaryGroups ==
  ASSUME file.merges \in Seq(Seq(Byte) \X Seq(Byte)), NEW text, NEW cs \in Seq(Codepoint),
         unicode_cpts_from_utf8(text) = cs
  PROVE  Encoding!ordinary_symbols(text) \in Grouping(unicode_cpts_to_utf8(cs), file.merges)
<1> DEFINE m == file.merges
           to(x) == unicode_cpts_to_utf8(x)
           PS == [x \in Filled |-> Encoding!piece_symbols(to(x))]
           ps == Encoding!unicode_regex_split("qwen3", cs)
           F(x) == FlattenSeq(x)
           P == {t \in Seq(Filled) : F(Mapped(PS, t)) \in Grouping(to(F(t)), m)}
<1>1. \A x \in Filled : x \in Seq(Codepoint) /\ to(x) \in Seq(Byte)
  BY CodedIs DEF Filled
<1>2. \A x \in Filled : PS[x] = Encoding!piece_symbols(to(x)) /\ PS[x] \in Grouping(to(x), m)
  BY <1>1, PieceGroups
<1>3. PS \in [Filled -> Seq(Seq(Byte))]
  BY <1>2 DEF Grouping
<1> HIDE DEF PS, m
<1>4. <<>> \in P
  <2>1. Mapped(PS, <<>>) = <<>> /\ <<>> \in Seq(Filled) /\ <<>> \in Seq(Byte)
    BY DEF Mapped
  <2>2. [i \in 1..Len(<<>>) |-> unicode_byte_to_utf8(<<>>[i])] = <<>>
    OBVIOUS
  <2>3. <<>> \in Grouping(<<>>, m)
    BY <2>1, <2>2, UnmergedGroups
  <2> QED BY <2>1, <2>3, FlattenEmpty, CodedEmpty
<1>5. ASSUME NEW t \in Seq(Filled), NEW x \in Filled, t \in P PROVE Append(t, x) \in P
  <2>1. Mapped(PS, Append(t, x)) = Append(Mapped(PS, t), PS[x])
    BY <1>3, MappedAppend
  <2>2. Mapped(PS, t) \in Seq(Seq(Seq(Byte))) /\ PS[x] \in Seq(Seq(Byte))
    <3> DEFINE T == Seq(Seq(Byte))
    <3> HIDE DEF T
    <3>1. PS \in [Filled -> T]
      BY <1>3 DEF T
    <3>2. Mapped(PS, t) \in Seq(T) /\ PS[x] \in T
      BY <3>1, MappedIs
    <3> QED BY <3>2 DEF T
  <2>3. F(Append(Mapped(PS, t), PS[x])) = F(Mapped(PS, t)) \o PS[x]
    <3> DEFINE S == Seq(Byte)
               a == Mapped(PS, t)
               b == PS[x]
    <3>1. a \in Seq(Seq(S)) /\ b \in Seq(S)
      BY <2>2
    <3> HIDE DEF S, a, b
    <3>2. F(Append(a, b)) = F(a) \o b
      BY <3>1, FlattenAppend
    <3> QED BY <3>2 DEF a, b
  <2>4. t \in Seq(Seq(Codepoint)) /\ x \in Seq(Codepoint)
    BY DEF Filled
  <2>5. F(Append(t, x)) = F(t) \o x /\ F(t) \in Seq(Codepoint)
    BY <2>4, FlattenAppend, FlattenIn
  <2>6. to(F(t) \o x) = to(F(t)) \o to(x) /\ to(F(t)) \in Seq(Byte) /\ to(x) \in Seq(Byte)
    BY <2>4, <2>5, CodedConcat, CodedIs
  <2>7. F(Mapped(PS, t)) \in Grouping(to(F(t)), m) /\ PS[x] \in Grouping(to(x), m)
    BY <1>2, <1>5
  <2> DEFINE a == F(Mapped(PS, t))
             b == PS[x]
             wa == to(F(t))
             wb == to(x)
  <2>8. a \in Grouping(wa, m) /\ b \in Grouping(wb, m) /\ wa \in Seq(Byte) /\ wb \in Seq(Byte)
    BY <2>6, <2>7
  <2> HIDE DEF a, b, wa, wb
  <2>9. a \o b \in Grouping(wa \o wb, m)
    BY <2>8, GroupingsJoin
  <2>10. F(Mapped(PS, Append(t, x))) = a \o b
    BY <2>1, <2>3 DEF a, b
  <2>11. to(F(Append(t, x))) = wa \o wb
    BY <2>5, <2>6 DEF wa, wb
  <2>12. F(Mapped(PS, Append(t, x))) \in Grouping(to(F(Append(t, x))), m)
    BY <2>9, <2>10, <2>11
  <2>13. Append(t, x) \in Seq(Filled)
    <3> HIDE DEF Filled
    <3> QED OBVIOUS
  <2> QED BY <2>12, <2>13
<1>6. Seq(Filled) \subseteq P
  <2> HIDE DEF P, Filled
  <2> QED BY <1>4, <1>5, ByAppending
<1>7. ps \in Seq(Filled) /\ F(ps) = cs
  BY SplitJoins
<1>8. F(Mapped(PS, ps)) \in Grouping(to(cs), m)
  BY <1>6, <1>7
<1>9. Encoding!ordinary_symbols(text) = F(Mapped(PS, ps))
  <2>1. Encoding!unicode_cpts_from_utf8(text) = cs
    BY SameText
  <2>2. Encoding!ordinary_symbols(text)
          = Encoding!FlattenSeq([i \in DOMAIN ps |->
                                   Encoding!piece_symbols(Encoding!unicode_cpts_to_utf8(ps[i]))])
    BY <2>1 DEF Encoding!ordinary_symbols
  <2> HIDE DEF ps
  <2>3. \A i \in DOMAIN ps : ps[i] \in Filled
    <3> HIDE DEF Filled
    <3> QED BY <1>7
  <2>4. \A i \in DOMAIN ps : Encoding!piece_symbols(Encoding!unicode_cpts_to_utf8(ps[i])) = PS[ps[i]]
    BY <2>3, <1>2, SameText
  <2>5. [i \in DOMAIN ps |-> Encoding!piece_symbols(Encoding!unicode_cpts_to_utf8(ps[i]))]
          = Mapped(PS, ps)
    BY <2>4 DEF Mapped
  <2> QED BY <2>2, <2>5, SameText
<1> QED BY <1>8, <1>9 DEF m

LEMMA GroupingNonEmpty ==
  ASSUME NEW m, NEW word, word # <<>>, NEW ss \in Grouping(word, m)
  PROVE  ss # <<>>
<1>1. PICK w : Divided(w, ss, word, m)
  BY DEF Grouping
<1>2. w \in Seq(ByteWord) /\ Len(w) = Len(ss) /\ FlattenSeq(w) = word
  BY <1>1 DEF Divided
<1>3. CASE ss = <<>>
  <2>1. w = <<>>
    <3> HIDE DEF ByteWord
    <3> QED BY <1>2, <1>3
  <2> QED BY <2>1, <1>2, FlattenEmpty
<1> QED BY <1>3

----------------------------------------------------------------------------
(* Decoding *)

DecodeId(f, id) ==
  IF \E x \in DOMAIN f.added : f.added[x] = id
  THEN CHOOSE x \in DOMAIN f.added : f.added[x] = id
  ELSE LET ss == Encoding!symbols_of(CHOOSE x \in DOMAIN f.vocab : f.vocab[x] = id)
       IN [i \in DOMAIN ss |-> Encoding!unicode_utf8_to_byte(ss[i])]

Decode(f, tokens) == FlattenSeq([i \in DOMAIN tokens |-> DecodeId(f, tokens[i])])

LEMMA DecodeIs ==
  \A tokens : Encoding!decode(tokens) = Decode(file, tokens)
<1>1. \A id : Encoding!decode_id(id) = DecodeId(file, id)
  BY Zenon DEF Encoding!decode_id, DecodeId, Encoding!Specials
<1> QED BY <1>1, SameText, Zenon DEF Encoding!decode, Decode

\* The ids that decode to bytes.
Decodable(f) == {id \in Nat : DecodeId(f, id) \in Seq(Byte)}

LEMMA DecodeMaps ==
  ASSUME NEW f, NEW t \in Seq(Decodable(f))
  PROVE  LET D == [id \in Decodable(f) |-> DecodeId(f, id)]
         IN  /\ D \in [Decodable(f) -> Seq(Byte)]
             /\ Decode(f, t) = FlattenSeq(Mapped(D, t))
             /\ Mapped(D, t) \in Seq(Seq(Byte))
             /\ Decode(f, t) \in Seq(Byte)
<1> DEFINE D == [id \in Decodable(f) |-> DecodeId(f, id)]
<1>1. D \in [Decodable(f) -> Seq(Byte)]
  BY DEF Decodable
<1>2. \A i \in DOMAIN t : t[i] \in Decodable(f)
  <2> HIDE DEF Decodable
  <2> QED OBVIOUS
<1>3. Mapped(D, t) = [i \in DOMAIN t |-> DecodeId(f, t[i])]
  BY <1>2 DEF Mapped
<1> HIDE DEF D
<1>4. Decode(f, t) = FlattenSeq(Mapped(D, t))
  BY <1>3 DEF Decode
<1>5. Mapped(D, t) \in Seq(Seq(Byte))
  <2> DEFINE T == Seq(Byte)
             S == Decodable(f)
  <2> HIDE DEF T, S
  <2>1. D \in [S -> T] /\ t \in Seq(S)
    BY <1>1 DEF S, T
  <2>2. Mapped(D, t) \in Seq(T)
    BY <2>1, MappedIs
  <2> QED BY <2>2 DEF T
<1>6. Decode(f, t) \in Seq(Byte)
  BY <1>4, <1>5, FlattenIn
<1> QED BY <1>1, <1>4, <1>5, <1>6 DEF D

LEMMA DecodeEmpty ==
  \A f : Decode(f, <<>>) = <<>>
<1> TAKE f
<1>1. [i \in DOMAIN <<>> |-> DecodeId(f, <<>>[i])] = <<>>
  OBVIOUS
<1> QED BY <1>1, FlattenEmpty DEF Decode

LEMMA DecodeAppend ==
  \A f : \A t \in Seq(Decodable(f)), id \in Decodable(f) :
     Decode(f, Append(t, id)) = Decode(f, t) \o DecodeId(f, id)
<1> SUFFICES ASSUME NEW f, NEW t \in Seq(Decodable(f)), NEW id \in Decodable(f)
             PROVE  Decode(f, Append(t, id)) = Decode(f, t) \o DecodeId(f, id)
  OBVIOUS
<1> DEFINE D == [x \in Decodable(f) |-> DecodeId(f, x)]
           S == Decodable(f)
<1>0. D[id] = DecodeId(f, id)
  OBVIOUS
<1>1. t \in Seq(S) /\ id \in S
  OBVIOUS
<1>2. D \in [S -> Seq(Byte)] /\ Mapped(D, t) \in Seq(Seq(Byte)) /\ Decode(f, t) = FlattenSeq(Mapped(D, t))
  BY DecodeMaps
<1>3. Append(t, id) \in Seq(S)
  <2> HIDE DEF S
  <2> QED BY <1>1
<1>4. Decode(f, Append(t, id)) = FlattenSeq(Mapped(D, Append(t, id)))
  BY <1>3, DecodeMaps
<1> HIDE DEF D, S
<1>5. Mapped(D, Append(t, id)) = Append(Mapped(D, t), D[id])
  BY <1>1, <1>2, MappedAppend
<1>6. D[id] \in Seq(Byte)
  BY <1>1, <1>2
<1>7. FlattenSeq(Append(Mapped(D, t), D[id])) = FlattenSeq(Mapped(D, t)) \o D[id]
  BY <1>2, <1>6, FlattenAppend
<1> QED BY <1>0, <1>2, <1>4, <1>5, <1>7

LEMMA DecodeConcat ==
  ASSUME NEW f, NEW a \in Seq(Decodable(f)), NEW b \in Seq(Decodable(f))
  PROVE  Decode(f, a \o b) = Decode(f, a) \o Decode(f, b)
<1> DEFINE S == Decodable(f)
           P == {c \in Seq(S) : Decode(f, a \o c) = Decode(f, a) \o Decode(f, c)}
           da == Decode(f, a)
<1>0. da \in Seq(Byte) /\ a \in Seq(S) /\ b \in Seq(S)
  BY DecodeMaps
<1>1. <<>> \in P
  <2>1. a \o <<>> = a /\ <<>> \in Seq(S)
    <3> HIDE DEF S
    <3> QED BY <1>0, Grouped
  <2>2. da \o <<>> = da
    BY <1>0, Grouped
  <2> HIDE DEF S
  <2>3. Decode(f, a \o <<>>) = da \o Decode(f, <<>>)
    BY <2>1, <2>2, DecodeEmpty
  <2> QED BY <2>1, <2>3
<1>2. ASSUME NEW c \in Seq(S), NEW x \in S, c \in P PROVE Append(c, x) \in P
  <2> DEFINE dc == Decode(f, c)
             e == DecodeId(f, x)
  <2>1. a \o Append(c, x) = Append(a \o c, x) /\ a \o c \in Seq(S) /\ Append(c, x) \in Seq(S)
    <3> HIDE DEF S
    <3> QED BY <1>0
  <2>2. Decode(f, Append(a \o c, x)) = Decode(f, a \o c) \o e
    BY <2>1, DecodeAppend
  <2>3. Decode(f, Append(c, x)) = dc \o e
    BY DecodeAppend
  <2>4. dc \in Seq(Byte)
    BY DecodeMaps
  <2>7. e \in Seq(Byte)
    BY DEF Decodable
  <2>5. Decode(f, a \o c) = da \o dc
    BY <1>2
  <2> HIDE DEF S, da, dc, e
  <2>6. (da \o dc) \o e = da \o (dc \o e)
    BY <1>0, <2>4, <2>7, Grouped
  <2>8. Decode(f, a \o Append(c, x)) = da \o Decode(f, Append(c, x))
    BY <2>1, <2>2, <2>3, <2>5, <2>6
  <2> QED BY <2>1, <2>8 DEF da
<1>3. Seq(S) \subseteq P
  <2> HIDE DEF P, S
  <2> QED BY <1>1, <1>2, ByAppending
<1> QED BY <1>0, <1>3

\* The id of a spelled word decodes to the word, that of a special token to the token.
LEMMA VocabDecodes ==
  \A f \in Files, w \in Seq(Byte) :
     unicode_byte_encoding(w) \in DOMAIN f.vocab =>
       f.vocab[unicode_byte_encoding(w)] \in Nat /\ DecodeId(f, f.vocab[unicode_byte_encoding(w)]) = w
<1> SUFFICES ASSUME NEW f \in Files, NEW w \in Seq(Byte),
                    unicode_byte_encoding(w) \in DOMAIN f.vocab
             PROVE  LET id == f.vocab[unicode_byte_encoding(w)]
                    IN  id \in Nat /\ DecodeId(f, id) = w
  OBVIOUS
<1> DEFINE x == unicode_byte_encoding(w)
           id == f.vocab[x]
           y == CHOOSE z \in DOMAIN f.vocab : f.vocab[z] = id
           ss == Encoding!symbols_of(x)
<1>1. x \in DOMAIN f.vocab
  OBVIOUS
<1>2. [i \in DOMAIN ss |-> Encoding!unicode_utf8_to_byte(ss[i])] = w
  BY SymbolsOfSpelled, Zenon
<1> HIDE DEF x
<1>3. IdsOf(f.vocab) /\ \A v \in DOMAIN f.added : id # f.added[v]
  BY <1>1, FilesAssumption
<1>4. y = x
  BY <1>1, <1>3, Zenon DEF IdsOf
<1>5. id \in Nat
  BY <1>1, <1>3 DEF IdsOf
<1>6. ~ \E v \in DOMAIN f.added : f.added[v] = id
  BY <1>3
<1>7. DecodeId(f, id) = LET z == Encoding!symbols_of(y)
                        IN [i \in DOMAIN z |-> Encoding!unicode_utf8_to_byte(z[i])]
  BY <1>6, Zenon DEF DecodeId
<1>8. DecodeId(f, id) = w
  BY <1>2, <1>4, <1>7, Zenon
<1> QED BY <1>5, <1>8 DEF x

LEMMA SpecialDecodes ==
  \A f \in Files : \A x \in DOMAIN f.added :
     f.added[x] \in Nat /\ DecodeId(f, f.added[x]) = x /\ f.added[x] \in Decodable(f)
<1> SUFFICES ASSUME NEW f \in Files, NEW x \in DOMAIN f.added
             PROVE  f.added[x] \in Nat /\ DecodeId(f, f.added[x]) = x /\ f.added[x] \in Decodable(f)
  OBVIOUS
<1>1. IdsOf(f.added) /\ x \in Seq(Byte)
  BY FilesAssumption
<1>2. (CHOOSE z \in DOMAIN f.added : f.added[z] = f.added[x]) = x
  BY <1>1, Zenon DEF IdsOf
<1>3. f.added[x] \in Nat
  BY <1>1 DEF IdsOf
<1>4. DecodeId(f, f.added[x]) = x
  BY <1>2, Zenon DEF DecodeId
<1> QED BY <1>1, <1>3, <1>4 DEF Decodable

\* The ids of symbols that spell a text decode to the text.
LEMMA GroupDecodes ==
  ASSUME NEW f \in Files, NEW m, NEW text, NEW ss \in Grouping(text, m),
         \A j \in 1..Len(ss) : ss[j] \in DOMAIN f.vocab
  PROVE  LET t == [j \in 1..Len(ss) |-> f.vocab[ss[j]]]
         IN  t \in Seq(Decodable(f)) /\ Decode(f, t) = text
<1> DEFINE t == [j \in 1..Len(ss) |-> f.vocab[ss[j]]]
<1>1. PICK w : Divided(w, ss, text, m)
  BY DEF Grouping
<1>2. /\ w \in Seq(ByteWord) /\ Len(w) = Len(ss) /\ FlattenSeq(w) = text
      /\ \A j \in 1..Len(ss) : ss[j] = unicode_byte_encoding(w[j])
  BY <1>1 DEF Divided
<1>3. Len(ss) \in Nat
  BY DEF Grouping
<1>4. \A j \in 1..Len(ss) : w[j] \in Seq(Byte)
  <2>1. \A j \in 1..Len(ss) : w[j] \in ByteWord
    <3> HIDE DEF ByteWord
    <3> QED BY <1>2
  <2> QED BY <2>1 DEF ByteWord
<1>5. \A j \in 1..Len(ss) : f.vocab[ss[j]] \in Nat /\ DecodeId(f, f.vocab[ss[j]]) = w[j]
  <2> TAKE j \in 1..Len(ss)
  <2>1. ss[j] = unicode_byte_encoding(w[j]) /\ w[j] \in Seq(Byte) /\ ss[j] \in DOMAIN f.vocab
    BY <1>2, <1>4
  <2> QED BY <2>1, VocabDecodes, Zenon
<1>6. \A j \in 1..Len(ss) : f.vocab[ss[j]] \in Decodable(f)
  BY <1>4, <1>5 DEF Decodable
<1>7. t \in Seq(Decodable(f)) /\ Len(t) = Len(ss)
  <2> HIDE DEF Decodable
  <2> QED BY <1>3, <1>6
<1>8. [i \in DOMAIN t |-> DecodeId(f, t[i])] = w
  <2>1. DOMAIN t = 1..Len(ss) /\ \A i \in 1..Len(ss) : DecodeId(f, t[i]) = w[i]
    BY <1>5
  <2>2. w = [i \in 1..Len(ss) |-> w[i]]
    <3> HIDE DEF ByteWord
    <3> QED BY <1>2
  <2> HIDE DEF t
  <2> QED BY <2>1, <2>2
<1>9. Decode(f, t) = text
  BY <1>2, <1>8 DEF Decode
<1> QED BY <1>7, <1>9

----------------------------------------------------------------------------
(* Special tokens and ids *)

LEMMA GreatestOf ==
  ASSUME NEW K \in SUBSET Nat, K # {}, NEW n \in Nat, \A k \in K : k <= n
  PROVE  \E e \in K : \A k \in K : k <= e
<1> DEFINE D == {n - k : k \in K}
<1>1. D \in SUBSET Nat /\ D # {}
  <2>1. \A k \in K : k \in Nat /\ k <= n /\ n - k \in Nat
    OBVIOUS
  <2> QED BY <2>1
<1>2. PICK d \in D : \A x \in D : d <= x
  <2> HIDE DEF D
  <2> QED BY <1>1, LeastOf
<1>3. PICK e \in K : d = n - e
  BY <1>2
<1>4. \A k \in K : n - e <= n - k
  BY <1>2, <1>3
<1>5. \A k \in K : k <= e
  BY <1>4
<1> QED BY <1>5

LEMMA IdsBounded ==
  ASSUME NEW tokens, IdsOf(tokens)
  PROVE  \E n \in Nat : \A x \in DOMAIN tokens : tokens[x] <= n
<1> DEFINE X == DOMAIN tokens
           P == {t \in Seq(X) : \E n \in Nat : \A i \in 1..Len(t) : tokens[t[i]] <= n}
<1>1. PICK all \in Seq(X) : \A x \in X : \E i \in 1..Len(all) : all[i] = x
  BY DEF IdsOf, IsFiniteSet
<1>2. \A x \in X : tokens[x] \in Nat
  BY DEF IdsOf
<1> HIDE DEF X
<1>3. <<>> \in P
  <2>1. <<>> \in Seq(X) /\ 0 \in Nat /\ 1..Len(<<>>) = {}
    OBVIOUS
  <2> QED BY <2>1
<1>4. ASSUME NEW t \in Seq(X), NEW x \in X, t \in P PROVE Append(t, x) \in P
  <2>1. PICK n \in Nat : \A i \in 1..Len(t) : tokens[t[i]] <= n
    BY <1>4
  <2>2. PICK m \in Nat : m >= n /\ m >= tokens[x]
    <3>1. n + tokens[x] \in Nat /\ n + tokens[x] >= n /\ n + tokens[x] >= tokens[x]
      BY <1>2
    <3> QED BY <3>1
  <2>3. /\ Append(t, x) \in Seq(X) /\ Len(Append(t, x)) = Len(t) + 1 /\ Len(t) \in Nat
        /\ \A i \in 1..(Len(t) + 1) : Append(t, x)[i] = IF i <= Len(t) THEN t[i] ELSE x
    OBVIOUS
  <2>4. \A i \in 1..Len(t) : t[i] \in X
    OBVIOUS
  <2>5. ASSUME NEW i \in 1..(Len(t) + 1) PROVE tokens[Append(t, x)[i]] <= m
    <3>1. CASE i <= Len(t)
      <4>1. i \in 1..Len(t) /\ Append(t, x)[i] = t[i]
        BY <2>3, <3>1
      <4>2. tokens[t[i]] <= n /\ tokens[t[i]] \in Nat
        BY <4>1, <2>1, <2>4, <1>2
      <4>3. tokens[t[i]] <= m
        BY <4>2, <2>2
      <4> QED BY <4>1, <4>3
    <3>2. CASE ~(i <= Len(t))
      <4>1. Append(t, x)[i] = x
        BY <2>3, <3>2
      <4> QED BY <4>1, <2>2, <1>2
    <3> QED BY <3>1, <3>2
  <2> QED BY <2>3, <2>5
<1>5. all \in P
  <2> HIDE DEF P
  <2> QED BY <1>1, <1>3, <1>4, ByAppending
<1>6. PICK n \in Nat : \A i \in 1..Len(all) : tokens[all[i]] <= n
  BY <1>5
<1>7. \A x \in X : tokens[x] <= n
  BY <1>1, <1>6
<1> QED BY <1>7 DEF X

\* vocab_size() is above every id of the vocabulary and of the special tokens.
LEMMA IdsBelow ==
  ASSUME file \in Files
  PROVE  /\ \A x \in DOMAIN file.vocab : file.vocab[x] \in 0..(Encoding!num_token - 1)
         /\ \A x \in DOMAIN file.added : file.added[x] \in 0..(Encoding!num_token - 1)
<1> DEFINE K == {file.vocab[x] : x \in DOMAIN file.vocab} \cup {file.added[x] : x \in DOMAIN file.added}
<1>1. IdsOf(file.vocab) /\ IdsOf(file.added)
  BY FilesAssumption
<1>2. PICK a \in Nat : \A x \in DOMAIN file.vocab : file.vocab[x] <= a
  BY <1>1, IdsBounded
<1>3. PICK b \in Nat : \A x \in DOMAIN file.added : file.added[x] <= b
  BY <1>1, IdsBounded
<1>4. /\ \A x \in DOMAIN file.vocab : file.vocab[x] \in Nat
      /\ \A x \in DOMAIN file.added : file.added[x] \in Nat
  BY <1>1 DEF IdsOf
<1>5. K \in SUBSET Nat /\ a + b \in Nat /\ \A k \in K : k <= a + b
  BY <1>2, <1>3, <1>4
<1>6. Encoding!num_token = 1 + Max(K)
  BY DEF Encoding!num_token, Encoding!Max, Max, Encoding!Specials
<1> HIDE DEF K
<1>7. ASSUME NEW k \in K PROVE k \in 0..(Encoding!num_token - 1)
  <2>1. K # {}
    BY <1>7
  <2>2. PICK e \in K : \A y \in K : y <= e
    BY <1>5, <2>1, GreatestOf
  <2>3. K \in SUBSET Int
    BY <1>5
  <2>4. Max(K) = e
    BY <2>2, <2>3, MaxIs
  <2>5. e \in Nat /\ k \in Nat /\ k <= e
    BY <1>5, <2>2
  <2> QED BY <2>4, <2>5, <1>6
<1> QED BY <1>7 DEF K

LEMMA OccursIs ==
  \A token, i : Encoding!occurs(token, i) <=>
     /\ i + Len(token) - 1 <= Len(sentence)
     /\ SubSeq(sentence, i, i + Len(token) - 1) = token
BY DEF Encoding!occurs

\* Of the special tokens at the cursor the longest is taken.
LEMMA SpecialTaken ==
  ASSUME file \in Files, sentence \in Seq(Byte), cursor \in Nat \ {0},
         cursor \in Encoding!special_places
  PROVE  /\ Encoding!special_at(cursor) \in DOMAIN file.added
         /\ Encoding!occurs(Encoding!special_at(cursor), cursor)
         /\ \A token \in DOMAIN file.added :
              Encoding!occurs(token, cursor) => Len(token) <= Len(Encoding!special_at(cursor))
<1> DEFINE found == {token \in DOMAIN file.added : Encoding!occurs(token, cursor)}
           K == {Len(token) : token \in found}
<1>1. \A token \in found : token \in Seq(Byte) /\ Len(token) \in Nat
  BY FilesAssumption
<1>2. found # {}
  BY Zenon DEF Encoding!special_places, Encoding!Specials
<1>3. K \in SUBSET Nat /\ K # {}
  BY <1>1, <1>2
<1>4. \A k \in K : k <= Len(sentence)
  <2>1. ASSUME NEW token \in found PROVE Len(token) <= Len(sentence)
    <3>1. cursor + Len(token) - 1 <= Len(sentence)
      BY DEF Encoding!occurs
    <3>2. Len(token) \in Nat /\ Len(sentence) \in Nat
      BY <1>1, <2>1
    <3> QED BY <3>1, <3>2
  <2> QED BY <2>1
<1>5. PICK e \in K : \A k \in K : k <= e
  <2> HIDE DEF K
  <2>1. Len(sentence) \in Nat
    OBVIOUS
  <2> QED BY <1>3, <1>4, <2>1, GreatestOf
<1>6. PICK t \in found : \A other \in found : Len(other) <= Len(t)
  BY <1>5
<1>7. \A other \in found : Len(t) >= Len(other)
  BY <1>1, <1>6
<1>8. Encoding!special_at(cursor) = CHOOSE token \in found : \A other \in found : Len(token) >= Len(other)
  BY Zenon DEF Encoding!special_at, Encoding!Specials
<1> DEFINE tk == CHOOSE token \in found : \A other \in found : Len(token) >= Len(other)
<1>9. tk \in found /\ \A other \in found : Len(tk) >= Len(other)
  <2> HIDE DEF found
  <2> QED BY <1>7, Zenon
<1> HIDE DEF tk
<1>10. \A other \in found : Len(other) <= Len(tk)
  BY <1>1, <1>9
<1> QED BY <1>8, <1>9, <1>10 DEF tk

\* The ordinary text ends at the next special token, and has none inside.
LEMMA NextSpecial ==
  ASSUME sentence \in Seq(Byte), cursor \in Nat \ {0}, cursor <= Len(sentence) + 1
  PROVE  /\ Encoding!next_special \in Nat /\ cursor <= Encoding!next_special
         /\ Encoding!next_special <= Len(sentence) + 1
         /\ \/ Encoding!next_special = Len(sentence) + 1
            \/ \E token \in DOMAIN file.added : Encoding!occurs(token, Encoding!next_special)
         /\ \A i \in cursor..(Encoding!next_special - 1) :
              \A token \in DOMAIN file.added : ~Encoding!occurs(token, i)
<1> DEFINE K == Encoding!special_places \cup {Len(sentence) + 1}
           n == Encoding!next_special
<1>1. n = Min(K)
  BY DEF Encoding!next_special, Encoding!Min, Min
<1>2. Len(sentence) \in Nat
  OBVIOUS
<1>3. Encoding!special_places
        = {i \in cursor..Len(sentence) : \E token \in DOMAIN file.added : Encoding!occurs(token, i)}
  BY Zenon DEF Encoding!special_places, Encoding!Specials
<1>4. K \in SUBSET Nat /\ K # {} /\ \A k \in K : cursor <= k /\ k <= Len(sentence) + 1
  BY <1>2, <1>3
<1> HIDE DEF n
<1>5. n \in K /\ \A k \in K : n <= k
  <2> HIDE DEF K
  <2>1. PICK e \in K : \A k \in K : e <= k
    BY <1>4, LeastOf
  <2>2. K \in SUBSET Int
    BY <1>4
  <2>3. Min(K) = e
    BY <2>1, <2>2, MinIs
  <2> QED BY <1>1, <2>1, <2>3
<1>6. n \in Nat /\ cursor <= n /\ n <= Len(sentence) + 1
  BY <1>4, <1>5
<1>7. n = Len(sentence) + 1 \/ \E token \in DOMAIN file.added : Encoding!occurs(token, n)
  BY <1>3, <1>5
<1>8. ASSUME NEW i \in cursor..(n - 1), NEW token \in DOMAIN file.added, Encoding!occurs(token, i)
      PROVE  FALSE
  <2>1. i \in cursor..Len(sentence) /\ ~(n <= i)
    BY <1>6, <1>2
  <2>2. i \in K
    BY <2>1, <1>3, <1>8
  <2> QED BY <2>1, <2>2, <1>5
<1> QED BY <1>6, <1>7, <1>8 DEF n

----------------------------------------------------------------------------
(* encode, round by round *)

EncodingTypes ==
  /\ file \in Files /\ sentence \in Seq(Byte)
  /\ cursor \in Nat \ {0} /\ cursor <= Len(sentence) + 1
  /\ ids \in Seq(Nat)
  /\ status \in {"encoding", "done", "failed"}

LEMMA FileIs ==
  ASSUME file \in Files
  PROVE  /\ file.merges \in Seq(Seq(Byte) \X Seq(Byte))
         /\ \A x \in DOMAIN file.vocab : file.vocab[x] \in Nat
         /\ \A x \in DOMAIN file.added : /\ file.added[x] \in Nat
                                         /\ x \in Seq(Byte) /\ Len(x) \in Nat \ {0}
                                         /\ \E ts \in Seq(Codepoint) : x = unicode_cpts_to_utf8(ts)
         /\ \A x \in DOMAIN file.vocab, y \in DOMAIN file.added : file.vocab[x] # file.added[y]
<1>1. IdsOf(file.vocab) /\ IdsOf(file.added)
  BY FilesAssumption
<1>2. \A x \in DOMAIN file.added : x \in Seq(Byte) \ {<<>>} /\ Encoding!canonical(x)
  BY FilesAssumption
<1>3. \A x \in Seq(Byte) \ {<<>>} : Len(x) \in Nat \ {0}
  OBVIOUS
<1>4. \A x \in DOMAIN file.added : \E ts \in Seq(Codepoint) : x = unicode_cpts_to_utf8(ts)
  BY <1>2, CanonicalText
<1>5. /\ \A x \in DOMAIN file.vocab : file.vocab[x] \in Nat
      /\ \A x \in DOMAIN file.added : file.added[x] \in Nat
  BY <1>1 DEF IdsOf
<1>6. file.merges \in Seq(Seq(Byte) \X Seq(Byte))
  BY FilesAssumption
<1>7. \A x \in DOMAIN file.vocab, y \in DOMAIN file.added : file.vocab[x] # file.added[y]
  BY FilesAssumption
<1> QED BY <1>2, <1>3, <1>4, <1>5, <1>6, <1>7

\* What a round that takes a special token does.
LEMMA SpecialRound ==
  ASSUME EncodingTypes, Encoding!PushSpecial
  PROVE  \E t \in DOMAIN file.added :
           /\ Encoding!occurs(t, cursor)
           /\ \A token \in DOMAIN file.added :
                Encoding!occurs(token, cursor) => Len(token) <= Len(t)
           /\ cursor' = cursor + Len(t) /\ ids' = Append(ids, file.added[t])
           /\ UNCHANGED <<file, sentence, status>> /\ status = "encoding"
           /\ cursor + Len(t) - 1 <= Len(sentence) /\ SubSeq(sentence, cursor, cursor + Len(t) - 1) = t
<1> DEFINE t == Encoding!special_at(cursor)
<1>1. cursor \in Encoding!special_places
  BY DEF Encoding!PushSpecial
<1>2. /\ t \in DOMAIN file.added /\ Encoding!occurs(t, cursor)
      /\ \A token \in DOMAIN file.added : Encoding!occurs(token, cursor) => Len(token) <= Len(t)
  BY <1>1, SpecialTaken DEF EncodingTypes
<1>3. /\ cursor' = cursor + Len(t) /\ ids' = Append(ids, file.added[t])
      /\ UNCHANGED <<file, sentence, status>> /\ status = "encoding"
  BY DEF Encoding!PushSpecial
<1> HIDE DEF t
<1>4. cursor + Len(t) - 1 <= Len(sentence) /\ SubSeq(sentence, cursor, cursor + Len(t) - 1) = t
  BY <1>2, OccursIs
<1> QED BY <1>2, <1>3, <1>4

\* What a round that takes ordinary text does, when it does not fail.
LEMMA OrdinaryRound ==
  ASSUME EncodingTypes, Encoding!EncodeOrdinary, status' # "failed"
  PROVE  LET text == SubSeq(sentence, cursor, Encoding!next_special - 1)
             ss   == Encoding!ordinary_symbols(text)
         IN  /\ ss \in Grouping(unicode_cpts_to_utf8(unicode_cpts_from_utf8(text)), file.merges)
             /\ ss \in Seq(Seq(Byte)) /\ Len(ss) \in Nat \ {0}
             /\ \A j \in 1..Len(ss) : ss[j] \in DOMAIN file.vocab
             /\ ids' = ids \o [j \in 1..Len(ss) |-> file.vocab[ss[j]]]
             /\ cursor' = Encoding!next_special
             /\ UNCHANGED <<file, sentence, status>> /\ status = "encoding"
<1> DEFINE text == SubSeq(sentence, cursor, Encoding!next_special - 1)
           ss == Encoding!ordinary_symbols(text)
           cs == unicode_cpts_from_utf8(text)
           u == unicode_cpts_to_utf8(cs)
<1>1. cursor < Encoding!next_special /\ Encoding!next_special \in Nat
      /\ Encoding!next_special <= Len(sentence) + 1
  BY NextSpecial DEF Encoding!EncodeOrdinary, EncodingTypes
<1>2. /\ Encoding!decodes(text) /\ Encoding!Range(ss) \subseteq DOMAIN file.vocab
      /\ ids' = ids \o [j \in DOMAIN ss |-> file.vocab[ss[j]]]
      /\ cursor' = Encoding!next_special
      /\ UNCHANGED <<file, sentence, status>> /\ status = "encoding"
  BY DEF Encoding!EncodeOrdinary
<1>3. decodes(text)
  BY <1>2, SameText
<1>4. text \in Seq(Byte) /\ text # <<>>
  <2> DEFINE n == Encoding!next_special
  <2> HIDE DEF n
  <2>1. cursor \in Nat \ {0} /\ n \in Nat /\ cursor < n /\ n <= Len(sentence) + 1 /\ sentence \in Seq(Byte)
    BY <1>1 DEF EncodingTypes, n
  <2>2. SubSeq(sentence, cursor, n - 1) \in Seq(Byte) /\ Len(SubSeq(sentence, cursor, n - 1)) = n - cursor
    BY <2>1
  <2>3. n - cursor # 0
    BY <2>1
  <2>4. SubSeq(sentence, cursor, n - 1) # <<>>
    BY <2>2, <2>3
  <2> QED BY <2>2, <2>4 DEF n
<1> HIDE DEF text
<1>5. cs \in Seq(Codepoint) /\ cs # <<>>
  BY <1>3, <1>4, DecodedText
<1>6. file.merges \in Seq(Seq(Byte) \X Seq(Byte))
  BY FileIs DEF EncodingTypes
<1>7. ss \in Grouping(u, file.merges)
  BY <1>5, <1>6, OrdinaryGroups
<1>8. u # <<>>
  BY <1>5, CodedNonEmpty
<1>9. ss # <<>>
  <2> HIDE DEF u, ss
  <2> QED BY <1>7, <1>8, GroupingNonEmpty
<1> HIDE DEF ss
<1>10. ss \in Seq(Seq(Byte))
  BY <1>7 DEF Grouping
<1>11. DOMAIN ss = 1..Len(ss) /\ Len(ss) \in Nat \ {0}
  BY <1>9, <1>10
<1>12. \A j \in 1..Len(ss) : ss[j] \in DOMAIN file.vocab
  BY <1>2, <1>11 DEF Encoding!Range
<1> QED BY <1>2, <1>7, <1>10, <1>11, <1>12 DEF text, ss

\* One state of encode to the next keeps the types.
LEMMA EncodingTypesKept ==
  EncodingTypes /\ [Encoding!Next]_(Encoding!vars) => EncodingTypes'
<1> SUFFICES ASSUME EncodingTypes, [Encoding!Next]_(Encoding!vars) PROVE EncodingTypes'
  OBVIOUS
<1>1. CASE Encoding!PushSpecial
  <2>1. PICK t \in DOMAIN file.added :
           /\ cursor' = cursor + Len(t) /\ ids' = Append(ids, file.added[t])
           /\ UNCHANGED <<file, sentence, status>>
           /\ cursor + Len(t) - 1 <= Len(sentence)
    BY <1>1, SpecialRound
  <2>2. Len(t) \in Nat /\ file.added[t] \in Nat
    BY FileIs DEF EncodingTypes
  <2>3. cursor' \in Nat \ {0} /\ cursor' <= Len(sentence) + 1
    <3>1. cursor \in Nat \ {0} /\ Len(sentence) \in Nat
      BY DEF EncodingTypes
    <3> QED BY <2>1, <2>2, <3>1
  <2>4. ids' \in Seq(Nat)
    BY <2>1, <2>2 DEF EncodingTypes
  <2> QED BY <2>1, <2>3, <2>4 DEF EncodingTypes
<1>2. CASE Encoding!EncodeOrdinary
  <2>1. CASE status' = "failed"
    <3>1. UNCHANGED <<file, sentence, cursor, ids>>
      BY <1>2, <2>1 DEF Encoding!EncodeOrdinary
    <3> QED BY <2>1, <3>1 DEF EncodingTypes
  <2>2. CASE status' # "failed"
    <3> DEFINE ss == Encoding!ordinary_symbols(SubSeq(sentence, cursor, Encoding!next_special - 1))
               t == [j \in 1..Len(ss) |-> file.vocab[ss[j]]]
    <3>1. /\ Len(ss) \in Nat /\ \A j \in 1..Len(ss) : ss[j] \in DOMAIN file.vocab
          /\ ids' = ids \o t /\ cursor' = Encoding!next_special
          /\ UNCHANGED <<file, sentence, status>>
      BY <1>2, <2>2, OrdinaryRound
    <3> HIDE DEF ss
    <3>2. t \in Seq(Nat)
      <4>1. \A j \in 1..Len(ss) : file.vocab[ss[j]] \in Nat
        BY <3>1, FileIs DEF EncodingTypes
      <4> QED BY <3>1, <4>1
    <3> HIDE DEF t
    <3>3. ids' \in Seq(Nat)
      BY <3>1, <3>2 DEF EncodingTypes
    <3>4. cursor' \in Nat \ {0} /\ cursor' <= Len(sentence) + 1
      BY <3>1, NextSpecial DEF EncodingTypes
    <3> QED BY <3>1, <3>3, <3>4 DEF EncodingTypes
  <2> QED BY <2>1, <2>2
<1>3. CASE Encoding!Return
  BY <1>3 DEF Encoding!Return, EncodingTypes
<1>4. CASE UNCHANGED Encoding!vars
  BY <1>4 DEF Encoding!vars, EncodingTypes
<1> QED BY <1>1, <1>2, <1>3, <1>4 DEF Encoding!Next

LEMMA EncodingStarts ==
  Encoding!Init => EncodingTypes
<1>1. ASSUME Encoding!Init PROVE EncodingTypes
  <2>1. file \in Files /\ sentence \in Seq(Byte) /\ cursor = 1 /\ ids = <<>> /\ status = "encoding"
    BY <1>1, SentencesAssumption DEF Encoding!Init
  <2>2. cursor <= Len(sentence) + 1 /\ ids \in Seq(Nat)
    BY <2>1
  <2> QED BY <2>1, <2>2 DEF EncodingTypes
<1> QED BY <1>1

\* A round takes the longest special token, or text without any.
LEMMA RoundTakesLongest ==
  EncodingTypes /\ [Encoding!Next]_(Encoding!vars) => [Encoding!TakesLongest]_(Encoding!vars)
<1> SUFFICES ASSUME EncodingTypes, [Encoding!Next]_(Encoding!vars), cursor' # cursor
             PROVE  LET taken == SubSeq(sentence, cursor, cursor' - 1)
                        last  == ids'[Len(ids')]
                    IN /\ last \in 0..(Encoding!num_token - 1)
                       /\ IF \E x \in DOMAIN file.added : file.added[x] = last
                          THEN \A token \in DOMAIN file.added :
                                 Encoding!occurs(token, cursor) => Len(token) <= Len(taken)
                          ELSE \A i \in cursor..(cursor' - 1), token \in DOMAIN file.added :
                                 ~Encoding!occurs(token, i)
  BY Zenon DEF Encoding!TakesLongest, Encoding!Specials
<1> DEFINE taken == SubSeq(sentence, cursor, cursor' - 1)
           last == ids'[Len(ids')]
<1>0. ids \in Seq(Nat) /\ cursor \in Nat \ {0} /\ sentence \in Seq(Byte)
  BY DEF EncodingTypes
<1>1. CASE Encoding!PushSpecial
  <2>1. PICK t \in DOMAIN file.added :
           /\ \A token \in DOMAIN file.added :
                Encoding!occurs(token, cursor) => Len(token) <= Len(t)
           /\ cursor' = cursor + Len(t) /\ ids' = Append(ids, file.added[t])
           /\ cursor + Len(t) - 1 <= Len(sentence)
           /\ SubSeq(sentence, cursor, cursor + Len(t) - 1) = t
    BY <1>1, SpecialRound, Zenon
  <2>2. last = file.added[t]
    BY <2>1, <1>0
  <2>3. taken = t
    <3>1. Len(t) \in Nat
      BY FileIs DEF EncodingTypes
    <3>2. cursor' - 1 = cursor + Len(t) - 1
      BY <2>1, <3>1, <1>0
    <3> QED BY <2>1, <3>2, Zenon
  <2>4. last \in 0..(Encoding!num_token - 1)
    BY <2>2, IdsBelow DEF EncodingTypes
  <2> HIDE DEF last, taken
  <2> QED BY <2>1, <2>2, <2>3, <2>4, Zenon DEF last, taken
<1>2. CASE Encoding!EncodeOrdinary
  <2>0. status' # "failed"
    <3>1. status = "encoding"
      BY <1>2 DEF Encoding!EncodeOrdinary
    <3> QED BY <1>2, <3>1 DEF Encoding!EncodeOrdinary
  <2> DEFINE ss == Encoding!ordinary_symbols(SubSeq(sentence, cursor, Encoding!next_special - 1))
             t == [j \in 1..Len(ss) |-> file.vocab[ss[j]]]
             x == ss[Len(ss)]
  <2>1. /\ Len(ss) \in Nat \ {0} /\ \A j \in 1..Len(ss) : ss[j] \in DOMAIN file.vocab
        /\ ids' = ids \o t /\ cursor' = Encoding!next_special
    BY <1>2, <2>0, OrdinaryRound
  <2> HIDE DEF ss
  <2>2. x \in DOMAIN file.vocab /\ last = file.vocab[x]
    <3>1. Len(ss) \in 1..Len(ss)
      BY <2>1
    <3>2. x \in DOMAIN file.vocab
      BY <2>1, <3>1
    <3>3. t \in Seq(Nat) /\ Len(t) = Len(ss) /\ t[Len(ss)] = file.vocab[x]
      <4>1. \A j \in 1..Len(ss) : file.vocab[ss[j]] \in Nat
        BY <2>1, FileIs DEF EncodingTypes
      <4> QED BY <2>1, <3>1, <4>1
    <3> HIDE DEF t
    <3>4. (ids \o t)[Len(ids \o t)] = t[Len(t)]
      BY <1>0, <2>1, <3>3
    <3> QED BY <2>1, <3>2, <3>3, <3>4
  <2>3. last \in 0..(Encoding!num_token - 1)
    BY <2>2, IdsBelow DEF EncodingTypes
  <2>4. ~ \E y \in DOMAIN file.added : file.added[y] = last
    BY <2>2, FileIs DEF EncodingTypes
  <2>5. \A i \in cursor..(cursor' - 1) : \A token \in DOMAIN file.added : ~Encoding!occurs(token, i)
    BY <2>1, NextSpecial DEF EncodingTypes
  <2> HIDE DEF last
  <2> QED BY <2>3, <2>4, <2>5, Zenon DEF last
<1>3. CASE Encoding!Return
  BY <1>3 DEF Encoding!Return
<1>4. CASE UNCHANGED Encoding!vars
  BY <1>4 DEF Encoding!vars
<1> QED BY <1>1, <1>2, <1>3, <1>4 DEF Encoding!Next

(* Special tokens win over ordinary text, whatever the vocabulary, the      *)
(* special tokens and the text: no special token begins inside the text a   *)
(* round of Qwen3EncodeLayer::encode takes as ordinary, none at the cursor  *)
(* is longer than the one taken, and every id is below vocab_size().        *)
THEOREM SpecialsComeFirst == Encoding!Spec => SpecialsFirst
<1>1. Encoding!Spec => []EncodingTypes
  BY EncodingStarts, EncodingTypesKept, PTL DEF Encoding!Spec
<1>2. Encoding!Spec /\ []EncodingTypes => [][Encoding!TakesLongest]_(Encoding!vars)
  BY RoundTakesLongest, PTL DEF Encoding!Spec
<1>3. SpecialsFirst <=> [][Encoding!TakesLongest]_(Encoding!vars)
  BY DEF SpecialsFirst, Encoding!SpecialsFirst
<1> QED BY <1>1, <1>2, <1>3, PTL

LEMMA TextGrows ==
  \A t \in Seq(Byte) : \A a \in Nat \ {0} : \A b \in Nat : a <= b /\ b <= Len(t) + 1 =>
     SubSeq(t, 1, b - 1) = SubSeq(t, 1, a - 1) \o SubSeq(t, a, b - 1)
<1> SUFFICES ASSUME NEW t \in Seq(Byte), NEW a \in Nat \ {0}, NEW b \in Nat,
                    a <= b, b <= Len(t) + 1
             PROVE  SubSeq(t, 1, b - 1) = SubSeq(t, 1, a - 1) \o SubSeq(t, a, b - 1)
  OBVIOUS
<1> DEFINE k == a - 1
           l == b - 1
<1>1. Len(t) \in Nat /\ k \in 0..Len(t) /\ l \in k..Len(t) /\ a = k + 1
  OBVIOUS
<1> HIDE DEF k, l
<1>2. SubSeq(t, 1, l) = SubSeq(t, 1, k) \o SubSeq(t, k + 1, l)
  BY <1>1, CutInThree
<1> QED BY <1>1, <1>2 DEF k, l

\* A special token that begins at a border of the text ends at one.
LEMMA SpecialToBorder ==
  ASSUME EncodingTypes, NEW cs \in Seq(Codepoint), sentence = unicode_cpts_to_utf8(cs),
         NEW k \in 0..Len(cs), cursor = Border(cs, k), NEW t \in DOMAIN file.added,
         cursor + Len(t) - 1 <= Len(sentence), SubSeq(sentence, cursor, cursor + Len(t) - 1) = t
  PROVE  \E l \in 0..Len(cs) : Border(cs, l) = cursor + Len(t)
<1>1. PICK ts \in Seq(Codepoint) : t = unicode_cpts_to_utf8(ts)
  BY FileIs DEF EncodingTypes
<1>2. /\ Len(t) \in Nat \ {0} /\ t \in Seq(Byte) /\ sentence \in Seq(Byte)
      /\ cursor \in Nat \ {0} /\ Len(sentence) \in Nat
  BY FileIs DEF EncodingTypes
<1>3. \A j \in 1..Len(t) : sentence[cursor + j - 1] = t[j]
  <2> DEFINE e == cursor + Len(t) - 1
             w == SubSeq(sentence, cursor, e)
  <2>1. e \in Nat /\ cursor <= e /\ e <= Len(sentence) /\ (e - cursor) + 1 = Len(t)
    BY <1>2
  <2>2. \A j \in 1..((e - cursor) + 1) : w[j] = sentence[(cursor + j) - 1]
    <3> DEFINE c == cursor
    <3> HIDE DEF e, c
    <3>1. c \in Nat \ {0} /\ e \in Nat /\ c <= e /\ e <= Len(sentence) /\ sentence \in Seq(Byte)
      BY <1>2, <2>1 DEF c
    <3>2. \A j \in 1..((e - c) + 1) : SubSeq(sentence, c, e)[j] = sentence[(c + j) - 1]
      BY <3>1
    <3> QED BY <3>2 DEF c
  <2>3. w = t
    OBVIOUS
  <2>4. \A j \in 1..Len(t) : (cursor + j) - 1 = cursor + j - 1
    BY <1>2
  <2> HIDE DEF e, w
  <2>5. \A j \in 1..Len(t) : t[j] = sentence[(cursor + j) - 1]
    BY <2>1, <2>2, <2>3
  <2> QED BY <2>4, <2>5
<1>4. /\ Border(cs, k) + Len(unicode_cpts_to_utf8(ts)) - 1 <= Len(unicode_cpts_to_utf8(cs))
      /\ \A j \in 1..Len(unicode_cpts_to_utf8(ts)) :
           unicode_cpts_to_utf8(cs)[Border(cs, k) + j - 1] = unicode_cpts_to_utf8(ts)[j]
  <2>1. cursor + Len(t) - 1 <= Len(sentence)
    OBVIOUS
  <2> QED BY <1>1, <1>3, <2>1
<1>5. \E l \in 0..Len(cs) : Border(cs, l) = Border(cs, k) + Len(unicode_cpts_to_utf8(ts))
  BY <1>4, OccursToBorder
<1> QED BY <1>1, <1>5

\* Ordinary text ends at a border of the text.
LEMMA OrdinaryToBorder ==
  ASSUME EncodingTypes, NEW cs \in Seq(Codepoint), sentence = unicode_cpts_to_utf8(cs),
         NEW k \in 0..Len(cs), cursor = Border(cs, k), cursor < Encoding!next_special
  PROVE  \E l \in k..Len(cs) : Encoding!next_special = Border(cs, l)
<1> DEFINE n == Encoding!next_special
<1>1. /\ n \in Nat /\ n <= Len(sentence) + 1
      /\ n = Len(sentence) + 1 \/ \E token \in DOMAIN file.added : Encoding!occurs(token, n)
  BY NextSpecial DEF EncodingTypes
<1>2. sentence \in Seq(Byte) /\ Len(sentence) \in Nat /\ cursor \in Nat \ {0} /\ Len(cs) \in Nat
  BY DEF EncodingTypes
<1>3. cursor < n
  OBVIOUS
<1> HIDE DEF n
<1>4. \E l \in 0..Len(cs) : n = Border(cs, l)
  <2>1. CASE n = Len(sentence) + 1
    <3>1. Border(cs, Len(cs)) = Len(sentence) + 1 /\ Len(cs) \in 0..Len(cs)
      BY <1>2, BordersAre
    <3> QED BY <2>1, <3>1
  <2>2. ASSUME NEW token \in DOMAIN file.added, Encoding!occurs(token, n)
        PROVE  \E l \in 0..Len(cs) : n = Border(cs, l)
    <3>1. /\ n + Len(token) - 1 <= Len(sentence)
          /\ SubSeq(sentence, n, n + Len(token) - 1) = token
      BY <2>2, OccursIs
    <3>2. PICK ts \in Seq(Codepoint) : token = unicode_cpts_to_utf8(ts)
      BY FileIs DEF EncodingTypes
    <3>3. Len(token) \in Nat \ {0} /\ token \in Seq(Byte)
      BY FileIs DEF EncodingTypes
    <3>4. n \in 1..Len(sentence)
      BY <1>1, <1>2, <1>3, <3>1, <3>3
    <3>5. token[1] = sentence[n]
      <4> DEFINE e == n + Len(token) - 1
      <4>1. e \in Nat /\ e <= Len(sentence) /\ n <= e
        BY <1>1, <3>1, <3>3
      <4>2. SubSeq(sentence, n, e) = token
        BY <3>1
      <4> HIDE DEF e
      <4>3. SubSeq(sentence, n, e)[1] = sentence[n]
        BY <1>2, <3>4, <4>1
      <4> QED BY <4>2, <4>3
    <3>6. token # <<>>
      BY <3>3
    <3>7. token[1] \notin Trailing
      BY <3>2, <3>6, FirstByte
    <3>8. n \in 1..Len(unicode_cpts_to_utf8(cs)) /\ unicode_cpts_to_utf8(cs)[n] \notin Trailing
      BY <3>4, <3>5, <3>7
    <3> QED BY <3>8, BordersOnly
  <2> QED BY <1>1, <2>1, <2>2
<1>5. PICK l \in 0..Len(cs) : n = Border(cs, l)
  BY <1>4
<1>6. CASE l < k
  <2>1. l \in 0..Len(cs) /\ k \in l..Len(cs)
    BY <1>2, <1>6
  <2>2. Border(cs, l) <= Border(cs, k)
    BY <2>1, BetweenBorders
  <2>3. n <= cursor
    BY <2>2, <1>5
  <2> QED BY <2>3, <1>1, <1>2, <1>3
<1>7. CASE ~(l < k)
  <2>1. l \in k..Len(cs)
    BY <1>2, <1>7
  <2> QED BY <2>1, <1>5 DEF n
<1> QED BY <1>6, <1>7

\* The symbols of the ordinary text at the cursor spell it.
LEMMA OrdinarySpells ==
  ASSUME EncodingTypes, NEW cs \in Seq(Codepoint), sentence = unicode_cpts_to_utf8(cs),
         NEW k \in 0..Len(cs), cursor = Border(cs, k), NEW l \in k..Len(cs),
         Encoding!next_special = Border(cs, l)
  PROVE  LET text == SubSeq(sentence, cursor, Encoding!next_special - 1)
         IN  decodes(text) /\ Encoding!ordinary_symbols(text) \in Grouping(text, file.merges)
<1> DEFINE text == SubSeq(sentence, cursor, Encoding!next_special - 1)
           d == SubSeq(cs, k + 1, l)
<1>1. text = unicode_cpts_to_utf8(d)
  <2>1. SubSeq(unicode_cpts_to_utf8(cs), Border(cs, k), Border(cs, l) - 1) = unicode_cpts_to_utf8(d)
    BY BetweenBorders
  <2> QED BY <2>1
<1>2. d \in Seq(Codepoint)
  <2> HIDE DEF d
  <2>1. SubSeq(cs, k + 1, l) \in Seq(Codepoint)
    OBVIOUS
  <2> QED BY <2>1 DEF d
<1>3. file.merges \in Seq(Seq(Byte) \X Seq(Byte))
  BY FileIs DEF EncodingTypes
<1> HIDE DEF text, d
<1>4. unicode_cpts_from_utf8(text) = d /\ decodes(text)
  BY <1>1, <1>2, CodedDecodes
<1>5. Encoding!ordinary_symbols(text) \in Grouping(text, file.merges)
  BY <1>1, <1>2, <1>3, <1>4, OrdinaryGroups
<1> QED BY <1>4, <1>5 DEF text

LEMMA TokensWithin ==
  ASSUME EncodingTypes, NEW a \in Nat \ {0}, NEW b \in Nat, b <= Len(sentence) + 1, NEW m
  PROVE  Tokens(SubSeq(sentence, a, b - 1), m) \subseteq Tokens(sentence, m)
<1> DEFINE t == SubSeq(sentence, a, b - 1)
<1>1. \A i \in 1..Len(t) : a + i - 1 \in 1..Len(sentence) /\ t[i] = sentence[a + i - 1]
  BY DEF EncodingTypes
<1> HIDE DEF t
<1>2. \A i \in 1..Len(t) : \E j \in 1..Len(sentence) : t[i] = sentence[j]
  BY <1>1
<1>3. Tokens(t, m) \subseteq Tokens(sentence, m)
  BY <1>2, Zenon DEF Tokens
<1> QED BY <1>3 DEF t

\* The ids decode to the text before the cursor, which is between two characters.
DecodesBack(cs) ==
  /\ \E k \in 0..Len(cs) : cursor = Border(cs, k)
  /\ ids \in Seq(Decodable(file))
  /\ Decode(file, ids) = SubSeq(sentence, 1, cursor - 1)
  /\ status = "failed" => ~(Tokens(sentence, file.merges) \subseteq DOMAIN file.vocab)

EncodedSoFar ==
  /\ status = "done" => cursor > Len(sentence)
  /\ \A cs \in Seq(Codepoint) : sentence = unicode_cpts_to_utf8(cs) => DecodesBack(cs)

LEMMA SpecialDecodesBack ==
  ASSUME EncodingTypes, Encoding!PushSpecial, NEW cs \in Seq(Codepoint),
         sentence = unicode_cpts_to_utf8(cs), DecodesBack(cs)
  PROVE  DecodesBack(cs)'
<1>1. PICK t \in DOMAIN file.added :
           /\ cursor' = cursor + Len(t) /\ ids' = Append(ids, file.added[t])
           /\ UNCHANGED <<file, sentence, status>> /\ status = "encoding"
           /\ cursor + Len(t) - 1 <= Len(sentence)
           /\ SubSeq(sentence, cursor, cursor + Len(t) - 1) = t
  BY SpecialRound, Zenon
<1>2. PICK k \in 0..Len(cs) : cursor = Border(cs, k)
  BY DEF DecodesBack
<1>3. \E l \in 0..Len(cs) : cursor' = Border(cs, l)
  <2>1. \E l \in 0..Len(cs) : Border(cs, l) = cursor + Len(t)
    BY <1>1, <1>2, SpecialToBorder
  <2> QED BY <1>1, <2>1
<1>4. /\ Len(t) \in Nat \ {0} /\ cursor \in Nat \ {0} /\ Len(sentence) \in Nat
      /\ sentence \in Seq(Byte)
  BY FileIs DEF EncodingTypes
<1>5. file.added[t] \in Decodable(file) /\ DecodeId(file, file.added[t]) = t
  BY SpecialDecodes DEF EncodingTypes
<1>6. ids \in Seq(Decodable(file)) /\ Decode(file, ids) = SubSeq(sentence, 1, cursor - 1)
  BY DEF DecodesBack
<1>7. ids' \in Seq(Decodable(file))
  <2> HIDE DEF Decodable
  <2> QED BY <1>1, <1>5, <1>6
<1>8. Decode(file, ids') = SubSeq(sentence, 1, cursor' - 1)
  <2> DEFINE b == cursor + Len(t)
  <2>1. b \in Nat /\ cursor <= b /\ b <= Len(sentence) + 1 /\ b - 1 = cursor + Len(t) - 1
    BY <1>1, <1>4
  <2>2. SubSeq(sentence, cursor, b - 1) = t
    BY <2>1, <1>1, Zenon
  <2>3. cursor' = b
    BY <1>1
  <2> HIDE DEF b
  <2>4. SubSeq(sentence, 1, b - 1) = SubSeq(sentence, 1, cursor - 1) \o t
    BY <2>1, <2>2, <1>4, TextGrows
  <2>5. Decode(file, Append(ids, file.added[t])) = Decode(file, ids) \o t
    BY <1>5, <1>6, DecodeAppend
  <2> QED BY <1>1, <1>6, <2>3, <2>4, <2>5
<1>9. file' = file /\ sentence' = sentence /\ status' = "encoding"
  BY <1>1
<1> QED BY <1>3, <1>7, <1>8, <1>9 DEF DecodesBack

LEMMA OrdinaryDecodesBack ==
  ASSUME EncodingTypes, Encoding!EncodeOrdinary, NEW cs \in Seq(Codepoint),
         sentence = unicode_cpts_to_utf8(cs), DecodesBack(cs)
  PROVE  DecodesBack(cs)'
<1> DEFINE n == Encoding!next_special
           text == SubSeq(sentence, cursor, n - 1)
           ss == Encoding!ordinary_symbols(text)
           m == file.merges
<1>1. PICK k \in 0..Len(cs) : cursor = Border(cs, k)
  BY DEF DecodesBack
<1>2. /\ cursor < n /\ n \in Nat /\ n <= Len(sentence) + 1
      /\ cursor \in Nat \ {0} /\ sentence \in Seq(Byte)
  BY NextSpecial DEF Encoding!EncodeOrdinary, EncodingTypes
<1>3. PICK l \in k..Len(cs) : n = Border(cs, l)
  BY <1>1, <1>2, OrdinaryToBorder
<1>4. decodes(text) /\ ss \in Grouping(text, m)
  BY <1>1, <1>3, OrdinarySpells
<1>5. ids \in Seq(Decodable(file)) /\ Decode(file, ids) = SubSeq(sentence, 1, cursor - 1)
  BY DEF DecodesBack
<1>6. CASE status' = "failed"
  <2>1. UNCHANGED <<file, sentence, cursor, ids>>
        /\ ~(Encoding!decodes(text) /\ Encoding!Range(ss) \subseteq DOMAIN file.vocab)
    BY <1>6 DEF Encoding!EncodeOrdinary
  <2>2. ~(Encoding!Range(ss) \subseteq DOMAIN file.vocab)
    BY <1>4, <2>1, SameText
  <2> HIDE DEF ss
  <2>3. DOMAIN ss = 1..Len(ss)
    <3>1. ss \in Seq(Seq(Byte))
      BY <1>4 DEF Grouping
    <3> QED BY <3>1
  <2>4. PICK j \in 1..Len(ss) : ss[j] \notin DOMAIN file.vocab
    BY <2>2, <2>3 DEF Encoding!Range
  <2>5. ss[j] \in Tokens(text, m)
    BY <1>4 DEF Grouping, Divided
  <2>6. Tokens(text, m) \subseteq Tokens(sentence, m)
    BY <1>2, TokensWithin
  <2>7. ~(Tokens(sentence, m) \subseteq DOMAIN file.vocab)
    BY <2>4, <2>5, <2>6
  <2> QED BY <2>1, <2>7 DEF DecodesBack
<1>7. CASE status' # "failed"
  <2> DEFINE t == [j \in 1..Len(ss) |-> file.vocab[ss[j]]]
  <2>1. /\ \A j \in 1..Len(ss) : ss[j] \in DOMAIN file.vocab
        /\ ids' = ids \o t /\ cursor' = n
        /\ UNCHANGED <<file, sentence, status>> /\ status = "encoding"
    BY <1>7, OrdinaryRound, Zenon
  <2> HIDE DEF ss, text, n
  <2>2. t \in Seq(Decodable(file)) /\ Decode(file, t) = text
    BY <1>4, <2>1, GroupDecodes DEF EncodingTypes
  <2> HIDE DEF t
  <2>3. ids \o t \in Seq(Decodable(file))
    <3> HIDE DEF Decodable
    <3> QED BY <1>5, <2>2
  <2>4. Decode(file, ids \o t) = SubSeq(sentence, 1, cursor - 1) \o text
    BY <1>5, <2>2, DecodeConcat
  <2>5. SubSeq(sentence, 1, n - 1) = SubSeq(sentence, 1, cursor - 1) \o text
    BY <1>2, TextGrows DEF text
  <2>6. \E x \in 0..Len(cs) : n = Border(cs, x)
    <3>1. l \in 0..Len(cs)
      OBVIOUS
    <3> QED BY <3>1, <1>3
  <2>7. file' = file /\ sentence' = sentence /\ status' = "encoding" /\ cursor' = n /\ ids' = ids \o t
    BY <2>1
  <2> QED BY <2>3, <2>4, <2>5, <2>6, <2>7 DEF DecodesBack
<1> QED BY <1>6, <1>7

LEMMA EncodedStep ==
  EncodingTypes /\ EncodedSoFar /\ [Encoding!Next]_(Encoding!vars) => EncodedSoFar'
<1> SUFFICES ASSUME EncodingTypes, EncodedSoFar, [Encoding!Next]_(Encoding!vars)
             PROVE  EncodedSoFar'
  OBVIOUS
<1>0. sentence' = sentence
  BY DEF Encoding!Next, Encoding!PushSpecial, Encoding!EncodeOrdinary, Encoding!Return, Encoding!vars
<1>1. CASE Encoding!PushSpecial
  <2>1. status' # "done"
    BY <1>1 DEF Encoding!PushSpecial
  <2> QED BY <1>0, <1>1, <2>1, SpecialDecodesBack DEF EncodedSoFar
<1>2. CASE Encoding!EncodeOrdinary
  <2>1. status' # "done"
    BY <1>2 DEF Encoding!EncodeOrdinary
  <2> QED BY <1>0, <1>2, <2>1, OrdinaryDecodesBack DEF EncodedSoFar
<1>3. CASE Encoding!Return
  <2>1. UNCHANGED <<file, sentence, cursor, ids>> /\ status' = "done" /\ cursor > Len(sentence)
    BY <1>3 DEF Encoding!Return
  <2> QED BY <2>1 DEF EncodedSoFar, DecodesBack
<1>4. CASE UNCHANGED Encoding!vars
  BY <1>4 DEF Encoding!vars, EncodedSoFar, DecodesBack
<1> QED BY <1>1, <1>2, <1>3, <1>4 DEF Encoding!Next

LEMMA EncodedStarts ==
  Encoding!Init => EncodedSoFar
<1> SUFFICES ASSUME Encoding!Init PROVE EncodedSoFar
  OBVIOUS
<1>1. cursor = 1 /\ ids = <<>> /\ status = "encoding" /\ sentence \in Seq(Byte)
  BY SentencesAssumption DEF Encoding!Init
<1>2. ASSUME NEW cs \in Seq(Codepoint) PROVE DecodesBack(cs)
  <2>1. 0 \in 0..Len(cs) /\ Border(cs, 0) = 1
    BY BordersAre
  <2>2. ids \in Seq(Decodable(file))
    <3> HIDE DEF Decodable
    <3> QED BY <1>1
  <2>3. SubSeq(sentence, 1, cursor - 1) = <<>>
    BY <1>1
  <2>4. Decode(file, ids) = <<>>
    BY <1>1, DecodeEmpty
  <2> QED BY <1>1, <2>1, <2>2, <2>3, <2>4 DEF DecodesBack
<1> QED BY <1>1, <1>2 DEF EncodedSoFar

LEMMA EncodedIsRoundTrip ==
  EncodingTypes /\ EncodedSoFar => RoundTrip
<1> SUFFICES ASSUME EncodingTypes, EncodedSoFar, Encoding!canonical(sentence)
             PROVE  /\ status = "done" => Encoding!decode(ids) = sentence
                    /\ status = "failed" => ~Encoding!complete
  BY Zenon DEF RoundTrip, Encoding!RoundTrip
<1>1. /\ sentence \in Seq(Byte) /\ Len(sentence) \in Nat /\ cursor \in Nat
      /\ cursor <= Len(sentence) + 1
  BY DEF EncodingTypes
<1>2. PICK cs \in Seq(Codepoint) : sentence = unicode_cpts_to_utf8(cs)
  BY <1>1, CanonicalText
<1>3. DecodesBack(cs)
  BY <1>2 DEF EncodedSoFar
<1>4. ASSUME status = "done" PROVE Encoding!decode(ids) = sentence
  <2>1. cursor > Len(sentence)
    BY <1>4 DEF EncodedSoFar
  <2>2. cursor - 1 = Len(sentence)
    BY <1>1, <2>1
  <2>3. SubSeq(sentence, 1, Len(sentence)) = sentence
    BY <1>1
  <2>4. Decode(file, ids) = SubSeq(sentence, 1, cursor - 1)
    BY <1>3 DEF DecodesBack
  <2>5. Decode(file, ids) = sentence
    BY <2>2, <2>3, <2>4
  <2> QED BY <2>5, DecodeIs
<1>5. Encoding!complete <=> Tokens(sentence, file.merges) \subseteq DOMAIN file.vocab
  <2>1. DOMAIN sentence = 1..Len(sentence)
    BY <1>1
  <2>2. \A b : Encoding!unicode_byte_to_utf8(b) = unicode_byte_to_utf8(b)
    BY SameSpelling
  <2> QED BY <2>1, <2>2 DEF Encoding!complete, Tokens
<1>6. status = "failed" => ~Encoding!complete
  BY <1>3, <1>5 DEF DecodesBack
<1> QED BY <1>4, <1>6

(* Encoding loses nothing, whatever the text in UTF-8, the vocabulary, the  *)
(* merges and the special tokens: once Qwen3EncodeLayer::encode returns,    *)
(* decode gives the text back byte for byte, and encode throws only when    *)
(* the vocabulary lacks a byte of the text or the result of a merge.        *)
THEOREM EncodingRoundTrips == Encoding!Spec => []RoundTrip
<1> DEFINE I == EncodingTypes /\ EncodedSoFar
<1>1. Encoding!Init => I
  BY EncodingStarts, EncodedStarts
<1>2. I /\ [Encoding!Next]_(Encoding!vars) => I'
  BY EncodingTypesKept, EncodedStep
<1>3. I => RoundTrip
  BY EncodedIsRoundTrip
<1> QED BY <1>1, <1>2, <1>3, PTL DEF Encoding!Spec
=============================================================================
