---------------------------- MODULE LexerProofs ----------------------------
(***************************************************************************)
(* Theorems about the lexer, for every alphabet, keyword list, buffer size *)
(* and file.                                                               *)
(*                                                                         *)
(* The reference definitions of Lexer are restated for a text s that may   *)
(* still grow unless e says that it has ended: what was found to be a gap  *)
(* or a lexeme then stays one (GapStays, LexemeStays).  There is one way   *)
(* only to cut a text into gaps and lexemes (FollowerIsUnique), so the     *)
(* token that a seek makes unread must come again.                         *)
(***************************************************************************)
EXTENDS Lexer, FiniteSetTheorems, SequenceTheorems, WellFoundedInduction, TLAPS

-----------------------------------------------------------------------------
(* The cut of a text. *)

\* a..b is a blank, or a comment that no later character can change: it has
\* its terminator, or the text has ended.
LineCommentIn(s, e, a, b) ==
  /\ a < b /\ s[a] = "/" /\ s[a + 1] = "/"
  /\ \A k \in a..(b - 1) : s[k] # "nl"
  /\ s[b] = "nl" \/ (b = Len(s) /\ e)
BlockCommentIn(s, e, a, b) ==
  /\ a < b /\ s[a] = "/" /\ s[a + 1] = "*"
  /\ \A k \in (a + 3)..(b - 1) : ~(s[k - 1] = "*" /\ s[k] = "/")
  /\ (a + 3 <= b /\ s[b - 1] = "*" /\ s[b] = "/") \/ (b = Len(s) /\ e)
Piece(s, e, a, b) ==
  \/ a = b /\ s[a] \in Blank
  \/ LineCommentIn(s, e, a, b)
  \/ BlockCommentIn(s, e, a, b)

Adjacent(cuts, a, b) ==
  /\ a \in cuts /\ b \in cuts /\ a < b
  /\ \A c \in cuts : c <= a \/ b <= c

CutsAt(s, e, i, j, cuts) ==
  /\ cuts \subseteq i..(j + 1) /\ i \in cuts /\ (j + 1) \in cuts
  /\ \A a, b \in cuts : Adjacent(cuts, a, b) => Piece(s, e, a, b - 1)
Gap(s, e, i, j) ==
  /\ i \in Nat \ {0} /\ j \in 0..Len(s) /\ i <= j + 1
  /\ \E cuts : CutsAt(s, e, i, j, cuts)

\* s[i..j] is a word, or a number.
Run(s, chars, i, j) == \A k \in i..j : s[k] \in chars

NextIn(s, i) == IF i <= Len(s) THEN s[i] ELSE EOF

\* t is a lexeme of s that no later character can make longer.
LexemeIn(s, e, t) ==
  LET lex  == SubSeq(s, t.from, t.to)
      next == NextIn(s, t.to + 1)
  IN  /\ t.kind \in {"identifier", "keyword"} =>
           /\ t.from <= t.to /\ s[t.from] \in Letter
           /\ Run(s, WordChar, t.from, t.to) /\ next \notin WordChar
           /\ t.kind = "keyword" <=> lex \in Keywords
           /\ t.to < Len(s) \/ e
      /\ t.kind = "number" =>
           /\ t.from <= t.to /\ s[t.from] \in Digit
           /\ Run(s, NumChar, t.from, t.to) /\ next \notin NumChar
           /\ t.to < Len(s) \/ e
      /\ t.kind = "operator" =>
           \/ t.to = t.from + 1 /\ <<s[t.from], s[t.to]>> \in Pairs
           \/ /\ t.to = t.from /\ s[t.from] \in Other
              /\ <<s[t.from], next>> \notin Pairs
              /\ <<s[t.from], next>> \notin {<<"/", "/">>, <<"/", "*">>}
              /\ t.to < Len(s) \/ e
      /\ t.kind = "punctuation" => t.to = t.from /\ s[t.from] \in Punctuation
      /\ t.kind = "eof" => e /\ t.from = Len(s) + 1 /\ t.to = Len(s)

Token == [kind : Kind, value : Seq(Char), line : Nat \ {0},
          from : Nat \ {0}, to : Nat]

\* What is stored of a lexeme is its beginning, as far as it fits.
Stored(s, t) ==
  t.value = SubSeq(s, t.from, IF t.to < t.from + MaxValue THEN t.to
                              ELSE t.from + MaxValue - 1)

\* t is the token behind position p.
Follows(s, e, p, t) ==
  /\ t \in Token /\ t.to \in 0..Len(s) /\ t.from <= t.to + 1
  /\ Gap(s, e, p + 1, t.from - 1)
  /\ LexemeIn(s, e, t) /\ Stored(s, t)

-----------------------------------------------------------------------------
(* The inductive invariant. *)

Types ==
  /\ text \in Seq(Alphabet) /\ Len(text) <= InputLen
  /\ ended \in BOOLEAN /\ pos \in 0..Len(text) /\ line \in Nat \ {0}
  /\ pc \in Place /\ prev \in Alphabet \cup {EOF}
  /\ errors \in Nat /\ rewinds \in 0..MaxRewinds
  /\ tok \in Token /\ out \in Seq(Token)
  /\ expected = <<>> \/ expected \in Nat \X Token

\* Where the token before out[i] ends, and where the last one does.
EndBefore(i) == IF i = 1 THEN 0 ELSE out[i - 1].to
Behind == EndBefore(Len(out) + 1)

TokensFollow == \A i \in DOMAIN out : Follows(text, ended, EndBefore(i), out[i])

\* The token a seek made unread follows the one before it.
ExpectedFollows ==
  expected # <<>> =>
    /\ expected[1] >= 2 /\ Len(out) >= expected[1] - 1
    /\ Follows(text, ended, EndBefore(expected[1]), expected[2])

\* The token being built: its first character, what may be in it, its value.
Reading ==
  /\ tok.from \in 1..pos /\ tok.to = pos /\ tok.line = line
  /\ Gap(text, ended, Behind + 1, tok.from - 1) /\ Stored(text, tok)

\* A comment that begins at c and is still open.
OpenComment(c, mark) ==
  /\ c + 1 <= pos /\ text[c] = "/" /\ text[c + 1] = mark
  /\ Gap(text, ended, Behind + 1, c - 1)

Stands ==
  /\ pc = "idle" => pos = Behind
  /\ pc = "blank" => Gap(text, ended, Behind + 1, pos)
  /\ pc = "slash" => Reading /\ tok.from = pos /\ text[pos] = "/"
  /\ pc = "word" => /\ Reading /\ text[tok.from] \in Letter
                    /\ Run(text, WordChar, tok.from, pos)
  /\ pc = "number" => /\ Reading /\ text[tok.from] \in Digit
                      /\ Run(text, NumChar, tok.from, pos)
  /\ pc = "operator" => /\ Reading /\ tok.from = pos
                        /\ text[pos] \in Other \ {"/"}
  /\ pc = "lineComment" =>
       \E c \in 1..pos : /\ OpenComment(c, "/")
                         /\ \A k \in c..pos : text[k] # "nl"
  /\ pc = "blockComment" =>
       \E c \in 1..pos :
         /\ OpenComment(c, "*")
         /\ \A k \in (c + 3)..pos : ~(text[k - 1] = "*" /\ text[k] = "/")
         /\ prev = IF pos = c + 1 THEN EOF ELSE text[pos]

\* The lines of the tokens never decrease, nor does the lexer's; each is the
\* line of its place as long as no seek has set the place back.
Newlines(s, i) == {k \in 1..(i - 1) : s[k] = "nl"}
Counts(s, r, l, i) ==
  /\ l >= 1 + Cardinality(Newlines(s, i))
  /\ r = 0 => l = 1 + Cardinality(Newlines(s, i))
LinesCount ==
  /\ Counts(text, rewinds, line, pos + 1)
  /\ \A i \in DOMAIN out : /\ Counts(text, rewinds, out[i].line, out[i].from)
                           /\ out[i].line <= line
                           /\ i > 1 => out[i - 1].line <= out[i].line

IInv == /\ Types /\ TokensFollow /\ ExpectedFollows /\ Stands /\ LinesCount
        /\ TruncatedIdentifierIsAnError

-----------------------------------------------------------------------------
(* Characters. *)

\* The classes of characters are disjoint, and the end of the file is in none.
LEMMA Classes ==
  /\ EOF \notin Char /\ "/" \in Other /\ "nl" \in Blank /\ "/" # "*"
  /\ \A c \in Blank : c \notin WordChar \cup Punctuation \cup Other
  /\ \A c \in Letter : c \notin Digit \cup Punctuation \cup Other
  /\ \A c \in Digit : c \notin Punctuation \cup Other
  /\ \A c \in Punctuation : c \notin Other
  /\ Char = Blank \cup WordChar \cup Punctuation \cup Other
  /\ WordChar = Letter \cup Digit
  /\ \A c \in NumChar : c \in Digit \cup Other
  /\ Digit \subseteq NumChar
BY Zenon DEF EOF, Char, Blank, WordChar, Letter, Digit, Punctuation, Other,
             NumChar

\* Both halves of a two-character operator are operators; the first is no slash.
LEMMA PairsAreOperators ==
  \A c, d : <<c, d>> \in Pairs => c \in Other \ {"/"} /\ d \in Other
BY DEF Pairs, Other

-----------------------------------------------------------------------------
(* A text that grows keeps its cut. *)

\* s1 is the text s, or s and more if it had not ended.
Grows(s, e, s1, e1) ==
  /\ s \in Seq(Char) /\ s1 \in Seq(Char) /\ e \in BOOLEAN /\ e1 \in BOOLEAN
  /\ Len(s) <= Len(s1) /\ \A k \in 1..Len(s) : s1[k] = s[k]
  /\ e => s1 = s /\ e1

\* A blank or a closed comment stays one when the text grows.
LEMMA PieceStays ==
  ASSUME NEW s, NEW e, NEW s1, NEW e1, Grows(s, e, s1, e1),
         NEW a \in Nat \ {0}, NEW b \in 1..Len(s), Piece(s, e, a, b)
  PROVE  Piece(s1, e1, a, b)
<1>1. /\ Len(s) \in Nat /\ Len(s1) \in Nat /\ Len(s) <= Len(s1)
      /\ \A k \in 1..Len(s) : s1[k] = s[k]
      /\ e => s1 = s /\ e1
  BY DEF Grows
<1>2. CASE a = b /\ s[a] \in Blank
  BY <1>1, <1>2 DEF Piece
<1>3. CASE LineCommentIn(s, e, a, b)
  <2>1. LineCommentIn(s1, e1, a, b)
    BY <1>1, <1>3 DEF LineCommentIn
  <2>2. QED BY <2>1 DEF Piece
<1>4. CASE BlockCommentIn(s, e, a, b)
  <2>1. s1[a] = s[a] /\ s1[a + 1] = s[a + 1] /\ s1[b] = s[b] /\ a < b
    BY <1>1, <1>4 DEF BlockCommentIn
  <2>2. \A k \in (a + 3)..b : s1[k - 1] = s[k - 1] /\ s1[k] = s[k]
    BY <1>1
  <2>3. b = Len(s) /\ e => b = Len(s1) /\ e1
    BY <1>1
  <2>4. /\ s[a] = "/" /\ s[a + 1] = "*"
        /\ \A k \in (a + 3)..(b - 1) : ~(s[k - 1] = "*" /\ s[k] = "/")
        /\ (a + 3 <= b /\ s[b - 1] = "*" /\ s[b] = "/") \/ (b = Len(s) /\ e)
    BY <1>4 DEF BlockCommentIn
  <2>5. ASSUME NEW k \in (a + 3)..(b - 1)
        PROVE  ~(s1[k - 1] = "*" /\ s1[k] = "/")
    <3>1. k \in (a + 3)..b
      OBVIOUS
    <3>2. s1[k - 1] = s[k - 1] /\ s1[k] = s[k]
      BY <2>2, <3>1
    <3>3. QED BY <2>4, <3>2
  <2>6. a + 3 <= b => s1[b - 1] = s[b - 1]
    BY <2>2
  <2>7. BlockCommentIn(s1, e1, a, b)
    BY <2>1, <2>3, <2>4, <2>5, <2>6 DEF BlockCommentIn
  <2>8. QED BY <2>7 DEF Piece
<1>5. QED BY <1>2, <1>3, <1>4 DEF Piece

\* So does what is cut into them.
LEMMA GapStays ==
  ASSUME NEW s, NEW e, NEW s1, NEW e1, Grows(s, e, s1, e1),
         NEW i, NEW j, Gap(s, e, i, j)
  PROVE  Gap(s1, e1, i, j)
<1>1. /\ Len(s) \in Nat /\ Len(s1) \in Nat /\ Len(s) <= Len(s1)
  BY DEF Grows
<1>2. i \in Nat \ {0} /\ j \in 0..Len(s) /\ i <= j + 1
  BY DEF Gap
<1>3. PICK cuts : CutsAt(s, e, i, j, cuts)
  BY DEF Gap
<1>4. ASSUME NEW a \in cuts, NEW b \in cuts, Adjacent(cuts, a, b)
      PROVE  Piece(s1, e1, a, b - 1)
  <2>1. a \in Nat \ {0} /\ b - 1 \in 1..Len(s)
    BY <1>1, <1>2, <1>3, <1>4 DEF CutsAt, Adjacent
  <2>2. QED BY <1>3, <1>4, <2>1, PieceStays DEF CutsAt
<1>5. CutsAt(s1, e1, i, j, cuts)
  BY <1>3, <1>4 DEF CutsAt
<1>6. QED BY <1>1, <1>2, <1>5 DEF Gap

\* There is a gap without a character at every place.
LEMMA EmptyGap ==
  ASSUME NEW s \in Seq(Char), NEW e, NEW j \in 0..Len(s)
  PROVE  Gap(s, e, j + 1, j)
<1>1. CutsAt(s, e, j + 1, j, {j + 1})
  BY DEF CutsAt, Adjacent
<1>2. QED BY <1>1 DEF Gap

\* A gap and one more blank or comment are a gap.
LEMMA GapExtends ==
  ASSUME NEW s \in Seq(Char), NEW e, NEW i, NEW j, Gap(s, e, i, j),
         NEW k \in Nat, j < k, k <= Len(s), Piece(s, e, j + 1, k)
  PROVE  Gap(s, e, i, k)
<1>1. i \in Nat \ {0} /\ j \in 0..Len(s) /\ i <= j + 1 /\ Len(s) \in Nat
  BY DEF Gap
<1>2. PICK cuts : CutsAt(s, e, i, j, cuts)
  BY DEF Gap
<1> DEFINE more == cuts \cup {k + 1}
<1>3. \A c \in cuts : c \in Int /\ c <= j + 1
  BY <1>1, <1>2 DEF CutsAt
<1>4. ASSUME NEW a \in more, NEW b \in more, Adjacent(more, a, b)
      PROVE  Piece(s, e, a, b - 1)
  <2>1. CASE b \in cuts
    <3>1. Adjacent(cuts, a, b)
      BY <1>1, <1>3, <1>4, <2>1 DEF Adjacent
    <3>2. QED BY <1>2, <3>1 DEF CutsAt, Adjacent
  <2>2. CASE b = k + 1
    <3>1. a = j + 1
      BY <1>1, <1>2, <1>3, <1>4, <2>2 DEF Adjacent, CutsAt
    <3>2. QED BY <2>2, <3>1
  <2>3. QED BY <2>1, <2>2
<1>5. more \subseteq i..(k + 1) /\ i \in more /\ (k + 1) \in more
  BY <1>1, <1>2 DEF CutsAt
<1>6. CutsAt(s, e, i, k, more)
  <2> HIDE DEF more
  <2>1. QED BY <1>4, <1>5 DEF CutsAt
<1>7. QED BY <1>1, <1>6 DEF Gap

\* Two texts that agree up to n have the same parts up to n.
LEMMA SamePart ==
  ASSUME NEW s \in Seq(Char), NEW s1 \in Seq(Char), NEW i \in Nat \ {0},
         NEW n \in Int, n <= Len(s), n <= Len(s1),
         \A k \in 1..n : s1[k] = s[k]
  PROVE  SubSeq(s1, i, n) = SubSeq(s, i, n)
<1>1. CASE i <= n + 1
  <2>1. i \in 1..(Len(s) + 1) /\ i \in 1..(Len(s1) + 1)
        /\ n \in (i - 1)..Len(s) /\ n \in (i - 1)..Len(s1)
    BY <1>1
  <2>2. QED BY <2>1, SubSeqProperties
<1>2. CASE i > n + 1
  BY <1>2
<1>3. QED BY <1>1, <1>2

\* A lexeme whose next character is known stays one.
LEMMA LexemeStays ==
  ASSUME NEW s, NEW e, NEW s1, NEW e1, Grows(s, e, s1, e1),
         NEW t \in Token, t.to \in 0..Len(s), LexemeIn(s, e, t)
  PROVE  LexemeIn(s1, e1, t)
<1>1. /\ Len(s) \in Nat /\ Len(s1) \in Nat /\ Len(s) <= Len(s1)
      /\ s \in Seq(Char) /\ s1 \in Seq(Char)
      /\ \A k \in 1..Len(s) : s1[k] = s[k]
      /\ e => s1 = s /\ e1
      /\ t.from \in Nat \ {0} /\ t.to \in Nat
  BY DEF Grows, Token
<1>2. SubSeq(s1, t.from, t.to) = SubSeq(s, t.from, t.to)
  <2>1. /\ t.to \in Int /\ t.to <= Len(s) /\ t.to <= Len(s1)
        /\ \A k \in 1..t.to : s1[k] = s[k]
    BY <1>1
  <2>2. QED BY <1>1, <2>1, SamePart
<1>3. t.to < Len(s) \/ e => NextIn(s1, t.to + 1) = NextIn(s, t.to + 1)
  BY <1>1 DEF NextIn
<1>4. t.from <= t.to => s1[t.from] = s[t.from] /\ s1[t.to] = s[t.to]
  BY <1>1
<1>5. \A chars : t.from <= t.to /\ Run(s, chars, t.from, t.to) =>
                   Run(s1, chars, t.from, t.to)
  BY <1>1 DEF Run
<1>6. t.to < Len(s) \/ e => t.to < Len(s1) \/ e1
  BY <1>1
<1>7. t.from = t.to \/ t.to = t.from + 1 => t.from <= t.to
  BY <1>1
<1>8. QED BY <1>1, <1>2, <1>3, <1>4, <1>5, <1>6, <1>7 DEF LexemeIn

\* What is stored of a lexeme is its beginning also in the longer text.
LEMMA StoredStays ==
  ASSUME NEW s, NEW e, NEW s1, NEW e1, Grows(s, e, s1, e1),
         NEW t \in Token, t.to \in 0..Len(s), Stored(s, t)
  PROVE  Stored(s1, t)
<1>1. /\ Len(s) \in Nat /\ Len(s1) \in Nat /\ Len(s) <= Len(s1)
      /\ s \in Seq(Char) /\ s1 \in Seq(Char)
      /\ \A k \in 1..Len(s) : s1[k] = s[k]
      /\ t.from \in Nat \ {0} /\ t.to \in Nat
  BY DEF Grows, Token
<1>2. MaxValue \in Nat
  BY LexerAssumption
<1>3. ASSUME NEW n \in Int, n <= t.to
      PROVE  SubSeq(s1, t.from, n) = SubSeq(s, t.from, n)
  <2>1. /\ n <= Len(s) /\ n <= Len(s1) /\ \A k \in 1..n : s1[k] = s[k]
    BY <1>1, <1>3
  <2>2. QED BY <1>1, <2>1, SamePart
<1> DEFINE last == IF t.to < t.from + MaxValue THEN t.to
                   ELSE t.from + MaxValue - 1
<1>4. last \in Int /\ last <= t.to
  BY <1>1, <1>2
<1> HIDE DEF last
<1>5. SubSeq(s1, t.from, last) = SubSeq(s, t.from, last)
  BY <1>3, <1>4
<1>6. QED BY <1>5 DEF Stored, last

\* A token stays the one behind its place.
LEMMA FollowsStays ==
  ASSUME NEW s, NEW e, NEW s1, NEW e1, Grows(s, e, s1, e1),
         NEW p, NEW t, Follows(s, e, p, t)
  PROVE  Follows(s1, e1, p, t)
<1>1. t \in Token /\ t.to \in 0..Len(s) /\ t.from <= t.to + 1
  BY DEF Follows
<1>2. t.to \in 0..Len(s1)
  BY <1>1 DEF Grows
<1>3. Gap(s1, e1, p + 1, t.from - 1)
  BY GapStays DEF Follows
<1>4. LexemeIn(s1, e1, t) /\ Stored(s1, t)
  BY <1>1, LexemeStays, StoredStays DEF Follows
<1>5. QED BY <1>1, <1>2, <1>3, <1>4 DEF Follows

-----------------------------------------------------------------------------
(* There is one way to cut a text. *)

\* A set of numbers that is not empty has a least one.
LEMMA Least ==
  ASSUME NEW T \in SUBSET Nat, T # {}
  PROVE  \E x \in T : \A y \in T : x <= y
<1> DEFINE less == OpToRel(<, Nat)
<1>1. less = {p \in Nat \X Nat : p[1] < p[2]}
  BY Zenon DEF OpToRel
<1>2. IsWellFoundedOn(less, Nat)
  BY NatLessThanWellFounded
<1> HIDE DEF less
<1>3. PICK x \in T : \A y \in T : ~(<<y, x>> \in less)
  BY <1>2, WFMin
<1>4. \A y \in T : ~(y < x)
  BY <1>1, <1>3
<1>5. QED BY <1>4

\* A bounded set of numbers that is not empty has a greatest one.
LEMMA Greatest ==
  ASSUME NEW n \in Nat, NEW T \in SUBSET (0..n), T # {}
  PROVE  \E x \in T : \A y \in T : y <= x
<1> DEFINE U == {k \in 0..n : n - k \in T}
<1>1. PICK t \in T : TRUE
  OBVIOUS
<1>2. t \in 0..n /\ n - t \in 0..n /\ n - (n - t) = t
  OBVIOUS
<1>3. U \in SUBSET Nat /\ U # {}
  BY <1>2
<1>4. PICK x \in U : \A y \in U : x <= y
  BY <1>3, Least
<1>5. n - x \in T
  OBVIOUS
<1>6. ASSUME NEW y \in T
      PROVE  y <= n - x
  <2>1. y \in 0..n /\ n - y \in 0..n /\ n - (n - y) = y
    OBVIOUS
  <2>2. n - y \in U
    BY <2>1
  <2>3. x <= n - y
    BY <1>4, <2>2
  <2>4. QED BY <2>1, <2>3
<1>7. QED BY <1>5, <1>6

\* Two pieces that begin at the same place end at the same place.
LEMMA PieceIsUnique ==
  ASSUME NEW s \in Seq(Char), NEW e, NEW a \in Nat \ {0},
         NEW b \in 1..Len(s), NEW c \in 1..Len(s),
         Piece(s, e, a, b), Piece(s, e, a, c)
  PROVE  ~(b < c)
<1> SUFFICES ASSUME b < c
             PROVE  FALSE
  OBVIOUS
<1>1. "/" \notin Blank /\ "/" # "*"
  BY Classes
<1>2. Len(s) \in Nat
  OBVIOUS
<1>3. CASE a = b /\ s[a] \in Blank
  BY <1>1, <1>2, <1>3 DEF Piece, LineCommentIn, BlockCommentIn
<1>4. CASE LineCommentIn(s, e, a, b)
  <2>1. s[a + 1] # "*" /\ s[a] \notin Blank
    BY <1>1, <1>4 DEF LineCommentIn
  <2>2. LineCommentIn(s, e, a, c)
    BY <1>2, <2>1 DEF Piece, BlockCommentIn
  <2>3. b \in a..(c - 1) /\ b # Len(s)
    BY <1>2, <1>4 DEF LineCommentIn
  <2>4. QED BY <1>4, <2>2, <2>3 DEF LineCommentIn
<1>5. CASE BlockCommentIn(s, e, a, b)
  <2>1. s[a + 1] # "/" /\ s[a] \notin Blank
    BY <1>1, <1>5 DEF BlockCommentIn
  <2>2. BlockCommentIn(s, e, a, c)
    BY <1>2, <2>1 DEF Piece, LineCommentIn
  <2>3. b # Len(s)
    BY <1>2
  <2>4. a + 3 <= b /\ s[b - 1] = "*" /\ s[b] = "/"
    BY <1>5, <2>3 DEF BlockCommentIn
  <2>5. b \in (a + 3)..(c - 1)
    BY <2>4
  <2>6. QED BY <2>2, <2>4, <2>5 DEF BlockCommentIn
<1>6. QED BY <1>3, <1>4, <1>5 DEF Piece

\* A cut of more text has the end of the shorter gap among its places, so that
\* another blank or comment begins there.
LEMMA GapIsUnique ==
  ASSUME NEW s \in Seq(Char), NEW e, NEW i, NEW j, NEW k,
         Gap(s, e, i, j), Gap(s, e, i, k), j < k
  PROVE  \E b \in (j + 1)..k : Piece(s, e, j + 1, b)
<1>1. /\ i \in Nat \ {0} /\ j \in 0..Len(s) /\ k \in 0..Len(s) /\ i <= j + 1
      /\ Len(s) \in Nat
  BY DEF Gap
<1>2. PICK C : CutsAt(s, e, i, j, C)
  BY DEF Gap
<1>3. PICK D : CutsAt(s, e, i, k, D)
  BY DEF Gap
<1>4. /\ C \subseteq i..(j + 1) /\ i \in C /\ (j + 1) \in C
      /\ D \subseteq i..(k + 1) /\ i \in D /\ (k + 1) \in D
  BY <1>2, <1>3 DEF CutsAt
\* The successor of a cut.
<1>5. ASSUME NEW E, NEW l \in 0..Len(s), CutsAt(s, e, i, l, E),
             NEW a \in E, a # l + 1
      PROVE  \E b \in E : a < b /\ b - 1 \in 1..Len(s) /\ Piece(s, e, a, b - 1)
  <2>1. E \subseteq i..(l + 1) /\ (l + 1) \in E
    BY <1>5 DEF CutsAt
  <2> DEFINE later == {b \in E : a < b}
  <2>2. \A x \in E : x \in Nat /\ x <= l + 1
    BY <1>1, <2>1
  <2>3. later \in SUBSET Nat /\ l + 1 \in later
    <3>1. l \in Nat /\ a \in Nat /\ a <= l + 1 /\ a # l + 1
      BY <1>1, <1>5, <2>2
    <3>2. a < l + 1
      BY <3>1
    <3>3. QED BY <2>1, <2>2, <3>2
  <2>4. PICK b \in later : \A d \in later : b <= d
    BY <2>3, Least
  <2>5. Adjacent(E, a, b)
    BY <2>2, <2>4 DEF Adjacent
  <2>6. Piece(s, e, a, b - 1)
    BY <1>5, <2>5 DEF CutsAt, Adjacent
  <2>7. b \in E /\ a < b /\ b - 1 \in 1..Len(s)
    BY <1>1, <2>1, <2>4
  <2>8. QED BY <2>6, <2>7
<1>6. PICK a \in C \cap D : \A d \in C \cap D : d <= a
  <2>1. Len(s) + 1 \in Nat /\ C \cap D \subseteq 0..(Len(s) + 1) /\ C \cap D # {}
    BY <1>1, <1>4
  <2>2. QED BY <2>1, Greatest
<1>7. a \in Nat \ {0} /\ a <= j + 1 /\ a # k + 1
  BY <1>1, <1>4
<1>8. PICK d \in D : a < d /\ d - 1 \in 1..Len(s) /\ Piece(s, e, a, d - 1)
  BY <1>1, <1>3, <1>5, <1>6, <1>7
<1>9. CASE a = j + 1
  <2>1. d - 1 \in (j + 1)..k
    BY <1>1, <1>4, <1>8, <1>9
  <2>2. QED BY <1>8, <1>9, <2>1
<1>10. CASE a # j + 1
  <2>1. PICK c \in C : a < c /\ c - 1 \in 1..Len(s) /\ Piece(s, e, a, c - 1)
    BY <1>1, <1>2, <1>5, <1>6, <1>10
  <2>2. ~(c - 1 < d - 1) /\ ~(d - 1 < c - 1)
    BY <1>7, <1>8, <2>1, PieceIsUnique
  <2>3. c = d
    BY <1>1, <1>4, <1>8, <2>1, <2>2
  <2>4. c <= a
    BY <1>6, <2>3
  <2>5. QED BY <1>1, <1>4, <1>7, <2>1, <2>4
<1>11. QED BY <1>9, <1>10

\* No blank and no comment begins where a lexeme does.
LEMMA LexemeIsNoPiece ==
  ASSUME NEW s \in Seq(Char), NEW e, NEW t \in Token, LexemeIn(s, e, t),
         t.to \in 0..Len(s), NEW b \in t.from..Len(s)
  PROVE  ~Piece(s, e, t.from, b)
<1>1. t.kind \in Kind /\ t.from \in Nat \ {0} /\ t.to \in Nat /\ Len(s) \in Nat
  BY DEF Token
<1>2. Piece(s, e, t.from, b) =>
        \/ s[t.from] \in Blank
        \/ /\ s[t.from] = "/" /\ t.from + 1 <= Len(s)
           /\ s[t.from + 1] \in {"/", "*"}
  BY <1>1 DEF Piece, LineCommentIn, BlockCommentIn
<1>3. CASE t.kind \in {"identifier", "keyword", "number", "punctuation"}
  <2>1. s[t.from] \in Letter \cup Digit \cup Punctuation
    BY <1>3 DEF LexemeIn
  <2>2. s[t.from] \notin Blank /\ s[t.from] # "/"
    BY <2>1, Classes
  <2>3. QED BY <1>2, <2>2
<1>4. CASE t.kind = "operator"
  <2>1. CASE <<s[t.from], s[t.to]>> \in Pairs
    <3>1. s[t.from] \in Other \ {"/"}
      BY <2>1, PairsAreOperators
    <3>2. s[t.from] \notin Blank /\ s[t.from] # "/"
      BY <3>1, Classes
    <3>3. QED BY <1>2, <3>2
  <2>2. CASE <<s[t.from], s[t.to]>> \notin Pairs
    <3>1. /\ t.to = t.from /\ s[t.from] \in Other
          /\ <<s[t.from], NextIn(s, t.to + 1)>> \notin {<<"/", "/">>, <<"/", "*">>}
      BY <1>1, <1>4, <2>2 DEF LexemeIn
    <3>2. s[t.from] \notin Blank
      BY <3>1, Classes
    <3>3. QED BY <1>1, <1>2, <3>1, <3>2 DEF NextIn
  <2>3. QED BY <2>1, <2>2
<1>5. CASE t.kind = "eof"
  BY <1>1, <1>5 DEF LexemeIn
<1>6. QED BY <1>1, <1>3, <1>4, <1>5 DEF Kind

\* The first character decides what a lexeme is, and the text where it ends.
LEMMA LexemeIsUnique ==
  ASSUME NEW s \in Seq(Char), NEW e,
         NEW t \in Token, t.to \in 0..Len(s), LexemeIn(s, e, t),
         NEW u \in Token, u.to \in 0..Len(s), LexemeIn(s, e, u),
         t.from = u.from
  PROVE  t.to = u.to /\ t.kind = u.kind
<1>1. /\ t.kind \in Kind /\ u.kind \in Kind /\ Len(s) \in Nat
      /\ t.from \in Nat \ {0} /\ t.to \in Nat /\ u.to \in Nat
  BY DEF Token
<1> DEFINE Class(v) ==
      IF v.kind = "eof" THEN v.from = Len(s) + 1 /\ v.to = Len(s)
      ELSE /\ v.from \in 1..Len(s)
           /\ v.kind \in {"identifier", "keyword"} => s[v.from] \in Letter
           /\ v.kind = "number" => s[v.from] \in Digit
           /\ v.kind = "operator" => s[v.from] \in Other
           /\ v.kind = "punctuation" => s[v.from] \in Punctuation
<1>2. ASSUME NEW v \in Token, v.to \in 0..Len(s), LexemeIn(s, e, v)
      PROVE  Class(v)
  <2>1. v.kind \in Kind /\ v.from \in Nat \ {0} /\ v.to \in Nat /\ v.to <= Len(s)
    BY <1>1, <1>2 DEF Token
  <2>2. v.kind = "eof" => v.from = Len(s) + 1 /\ v.to = Len(s)
    BY <1>2 DEF LexemeIn
  <2>3. v.kind # "eof" => v.from <= v.to
    BY <1>2, <2>1 DEF LexemeIn, Kind
  <2>4. v.kind = "operator" => s[v.from] \in Other
    BY <1>2, PairsAreOperators DEF LexemeIn
  <2>5. /\ v.kind \in {"identifier", "keyword"} => s[v.from] \in Letter
        /\ v.kind = "number" => s[v.from] \in Digit
        /\ v.kind = "punctuation" => s[v.from] \in Punctuation
    BY <1>2 DEF LexemeIn
  <2>6. QED BY <1>1, <2>1, <2>2, <2>3, <2>4, <2>5
<1>3. Class(t) /\ Class(u)
  BY <1>2
<1>4. \/ t.kind = u.kind
      \/ t.kind \in {"identifier", "keyword"} /\ u.kind \in {"identifier", "keyword"}
  BY <1>1, <1>3, Classes DEF Kind
\* A run that another one goes beyond was not over.
<1>5. ASSUME NEW chars, NEW v \in Token, NEW w \in Token,
             v.from = w.from, v.from <= v.to, v.to < w.to, w.to \in 0..Len(s),
             Run(s, chars, w.from, w.to)
      PROVE  NextIn(s, v.to + 1) \in chars
  <2>1. v.to \in Nat /\ w.to \in Nat /\ v.from \in Nat /\ w.to <= Len(s)
    BY <1>1, <1>5 DEF Token
  <2>2. v.to + 1 \in w.from..w.to /\ v.to + 1 <= Len(s)
    BY <1>1, <1>5, <2>1
  <2>3. s[v.to + 1] \in chars
    BY <1>5, <2>2 DEF Run
  <2>4. QED BY <2>2, <2>3 DEF NextIn
<1>6. CASE t.kind \in {"identifier", "keyword"}
  <2>1. u.kind \in {"identifier", "keyword"}
    BY <1>4, <1>6
  <2>2. /\ Run(s, WordChar, t.from, t.to) /\ NextIn(s, t.to + 1) \notin WordChar
        /\ Run(s, WordChar, u.from, u.to) /\ NextIn(s, u.to + 1) \notin WordChar
        /\ t.from <= t.to /\ u.from <= u.to
    BY <1>6, <2>1 DEF LexemeIn
  <2>3. ~(t.to < u.to)
    BY <1>1, <1>5, <2>2
  <2>4. ~(u.to < t.to)
    BY <1>1, <1>5, <2>2
  <2>5. t.to = u.to
    BY <1>1, <2>3, <2>4
  <2>6. /\ t.kind = "keyword" <=> SubSeq(s, t.from, t.to) \in Keywords
        /\ u.kind = "keyword" <=> SubSeq(s, u.from, u.to) \in Keywords
    BY <1>6, <2>1 DEF LexemeIn
  <2>7. QED BY <1>6, <2>1, <2>5, <2>6
<1>7. CASE t.kind = "number"
  <2>1. u.kind = "number"
    BY <1>4, <1>7
  <2>2. /\ Run(s, NumChar, t.from, t.to) /\ NextIn(s, t.to + 1) \notin NumChar
        /\ Run(s, NumChar, u.from, u.to) /\ NextIn(s, u.to + 1) \notin NumChar
        /\ t.from <= t.to /\ u.from <= u.to
    BY <1>7, <2>1 DEF LexemeIn
  <2>3. ~(t.to < u.to)
    BY <1>1, <1>5, <2>2
  <2>4. ~(u.to < t.to)
    BY <1>1, <1>5, <2>2
  <2>5. t.to = u.to
    BY <1>1, <2>3, <2>4
  <2>6. QED BY <1>7, <2>1, <2>5
<1>8. CASE t.kind = "operator"
  <2>1. u.kind = "operator"
    BY <1>4, <1>8
  <2>2. ASSUME NEW v \in Token, v.kind = "operator", LexemeIn(s, e, v),
               v.to \in 0..Len(s), v.from = t.from
        PROVE  v.to = IF <<s[t.from], NextIn(s, t.from + 1)>> \in Pairs
                      THEN t.from + 1 ELSE t.from
    <3>1. CASE v.to = v.from + 1 /\ <<s[v.from], s[v.to]>> \in Pairs
      BY <1>1, <2>2, <3>1 DEF NextIn
    <3>2. CASE v.to = v.from /\ <<s[v.from], NextIn(s, v.to + 1)>> \notin Pairs
      BY <2>2, <3>2
    <3>3. QED BY <2>2, <3>1, <3>2 DEF LexemeIn
  <2>3. QED BY <1>8, <2>1, <2>2
<1>9. CASE t.kind = "punctuation"
  BY <1>4, <1>9 DEF LexemeIn
<1>10. CASE t.kind = "eof"
  BY <1>4, <1>10 DEF LexemeIn
<1>11. QED BY <1>1, <1>6, <1>7, <1>8, <1>9, <1>10 DEF Kind

\* Two tokens behind one position are the same, but for their lines.
LEMMA FollowerIsUnique ==
  ASSUME NEW s \in Seq(Char), NEW e, NEW p, NEW t, NEW u,
         Follows(s, e, p, t), Follows(s, e, p, u)
  PROVE  [t EXCEPT !.line = 0] = [u EXCEPT !.line = 0]
<1>1. /\ t \in Token /\ t.to \in 0..Len(s) /\ LexemeIn(s, e, t) /\ Stored(s, t)
      /\ u \in Token /\ u.to \in 0..Len(s) /\ LexemeIn(s, e, u) /\ Stored(s, u)
      /\ Gap(s, e, p + 1, t.from - 1) /\ Gap(s, e, p + 1, u.from - 1)
  BY DEF Follows
<1>2. Len(s) \in Nat /\ t.from \in Nat /\ u.from \in Nat
  BY <1>1 DEF Token
<1>3. t.from - 1 <= Len(s) /\ u.from - 1 <= Len(s)
  BY <1>1, <1>2 DEF Gap
<1>4. ~(t.from < u.from)
  <2> SUFFICES ASSUME t.from < u.from
               PROVE  FALSE
    OBVIOUS
  <2>1. \E b \in t.from..(u.from - 1) : Piece(s, e, t.from, b)
    <3>1. t.from - 1 < u.from - 1 /\ t.from - 1 + 1 = t.from
      BY <1>2
    <3>2. QED BY <1>1, <3>1, GapIsUnique
  <2>2. t.from..(u.from - 1) \subseteq t.from..Len(s)
    BY <1>2, <1>3
  <2>3. QED BY <1>1, <2>1, <2>2, LexemeIsNoPiece
<1>5. ~(u.from < t.from)
  <2> SUFFICES ASSUME u.from < t.from
               PROVE  FALSE
    OBVIOUS
  <2>1. \E b \in u.from..(t.from - 1) : Piece(s, e, u.from, b)
    <3>1. u.from - 1 < t.from - 1 /\ u.from - 1 + 1 = u.from
      BY <1>2
    <3>2. QED BY <1>1, <3>1, GapIsUnique
  <2>2. u.from..(t.from - 1) \subseteq u.from..Len(s)
    BY <1>2, <1>3
  <2>3. QED BY <1>1, <2>1, <2>2, LexemeIsNoPiece
<1>6. t.from = u.from
  BY <1>2, <1>4, <1>5
<1>7. t.to = u.to /\ t.kind = u.kind
  BY <1>1, <1>6, LexemeIsUnique
<1>8. t.value = u.value
  BY <1>1, <1>6, <1>7 DEF Stored
<1>9. QED BY <1>1, <1>6, <1>7, <1>8 DEF Token

-----------------------------------------------------------------------------
(* Parts of a text. *)

\* The characters of a part of a text.
LEMMA Part ==
  ASSUME NEW s \in Seq(Char), NEW i \in Nat \ {0}, NEW j \in 0..Len(s),
         i <= j + 1
  PROVE  /\ SubSeq(s, i, j) \in Seq(Char) /\ Len(SubSeq(s, i, j)) = j - i + 1
         /\ DOMAIN SubSeq(s, i, j) = 1..(j - i + 1)
         /\ \A k \in 1..(j - i + 1) : SubSeq(s, i, j)[k] = s[i + k - 1]
<1>1. \A k \in i..j : s[k] \in Char
  OBVIOUS
<1>2. /\ SubSeq(s, i, j) \in Seq(Char)
      /\ Len(SubSeq(s, i, j)) = IF i <= j THEN j - i + 1 ELSE 0
      /\ \A k \in 1..(j - i + 1) : SubSeq(s, i, j)[k] = s[i + k - 1]
  BY <1>1, SubSeqProperties
<1>3. Len(SubSeq(s, i, j)) = j - i + 1
  BY <1>2
<1>4. QED BY <1>2, <1>3

\* The part of a text that is its i-th character only.
LEMMA OneCharacter ==
  ASSUME NEW s \in Seq(Char), NEW i \in 1..Len(s)
  PROVE  SubSeq(s, i, i) = <<s[i]>>
<1> DEFINE lex == SubSeq(s, i, i)
<1>1. lex \in Seq(Char) /\ Len(lex) = 1 /\ lex[1] = s[i]
  BY Part
<1> HIDE DEF lex
<1>2. lex = <<s[i]>>
  BY <1>1
<1>3. QED BY <1>2 DEF lex

\* The part of a text that is two adjacent characters.
LEMMA TwoCharacters ==
  ASSUME NEW s \in Seq(Char), NEW i \in 1..Len(s), i + 1 <= Len(s)
  PROVE  SubSeq(s, i, i + 1) = <<s[i], s[i + 1]>>
<1> DEFINE lex == SubSeq(s, i, i + 1)
<1>1. lex \in Seq(Char) /\ Len(lex) = 2 /\ lex[1] = s[i] /\ lex[2] = s[i + 1]
  <2>1. i \in Nat \ {0} /\ i + 1 \in 0..Len(s) /\ i <= i + 1 + 1
        /\ i + 1 - i + 1 = 2 /\ i + 1 - 1 = i /\ i + 2 - 1 = i + 1
    OBVIOUS
  <2>2. /\ lex \in Seq(Char) /\ Len(lex) = 2
        /\ \A k \in 1..2 : lex[k] = s[i + k - 1]
    BY <2>1, Part
  <2> HIDE DEF lex
  <2>3. QED BY <2>1, <2>2
<1> HIDE DEF lex
<1>2. lex = <<s[i], s[i + 1]>>
  BY <1>1
<1>3. QED BY <1>2 DEF lex

\* Two characters put together are what Pairs compares them with.
LEMMA ConcatenatedPair ==
  ASSUME NEW c, NEW d
  PROVE  <<c>> \o <<d>> = <<c, d>>
<1> DEFINE S == {c, d}
           lex == <<c>> \o <<d>>
<1>1. <<c>> \in Seq(S) /\ <<d>> \in Seq(S) /\ <<c>>[1] = c /\ <<d>>[1] = d
      /\ Len(<<c>>) = 1 /\ Len(<<d>>) = 1
  OBVIOUS
<1>2. /\ lex \in Seq(S) /\ Len(lex) = Len(<<c>>) + Len(<<d>>)
      /\ \A i \in 1..(Len(<<c>>) + Len(<<d>>)) :
           lex[i] = IF i <= Len(<<c>>) THEN <<c>>[i] ELSE <<d>>[i - Len(<<c>>)]
  <2> HIDE DEF S
  <2>1. QED BY <1>1, ConcatProperties
<1> HIDE DEF lex, S
<1>3. Len(lex) = 2 /\ lex[1] = c /\ lex[2] = d
  BY <1>1, <1>2
<1>4. lex = <<c, d>>
  BY <1>2, <1>3
<1>5. QED BY <1>4 DEF lex

-----------------------------------------------------------------------------
(* The definitions of Lexer. *)

\* A gap of a text that may grow is one of the text as Lexer reads it.
LEMMA GapIsGap ==
  ASSUME text \in Seq(Char), NEW i, NEW j, Gap(text, ended, i, j)
  PROVE  IsGap(i, j)
<1>1. i \in Nat \ {0} /\ j \in 0..Len(text) /\ i <= j + 1 /\ Len(text) \in Nat
  BY DEF Gap
<1>2. PICK cuts : CutsAt(text, ended, i, j, cuts)
  BY DEF Gap
<1>3. cuts \subseteq i..(j + 1) /\ i \in cuts /\ (j + 1) \in cuts
  BY <1>2 DEF CutsAt
<1>5. ASSUME NEW a \in cuts, NEW b \in cuts, a < b,
             \A c \in cuts : c <= a \/ b <= c
      PROVE  \/ a = b - 1 /\ text[a] \in Blank
             \/ IsLineComment(a, b - 1)
             \/ IsBlockComment(a, b - 1)
  <2>1. Adjacent(cuts, a, b)
    BY <1>5 DEF Adjacent
  <2>2. a \in 1..Len(text) /\ b - 1 \in 1..Len(text)
    BY <1>1, <1>3, <1>5
  <2> DEFINE z == b - 1
  <2>3. z \in 1..Len(text) /\ Piece(text, ended, a, z)
    BY <1>2, <2>1, <2>2 DEF CutsAt
  <2> HIDE DEF z
  <2>4. ASSUME a < z, NEW c, NEW d, text[a] = c, text[a + 1] = d
        PROVE  Span(a, a + 1) = <<c, d>>
    <3>1. a + 1 \in 1..Len(text)
      BY <1>1, <2>2, <2>3, <2>4
    <3>2. QED BY <1>1, <2>2, <2>4, <3>1, TwoCharacters DEF Span
  <2>5. CASE LineCommentIn(text, ended, a, z)
    <3>1. a < z /\ text[a] = "/" /\ text[a + 1] = "/"
      BY <2>5 DEF LineCommentIn
    <3>2. Span(a, a + 1) = <<"/", "/">>
      BY <2>4, <3>1
    <3>3. IsLineComment(a, z)
      BY <2>5, <3>1, <3>2 DEF IsLineComment, LineCommentIn
    <3>4. QED BY <3>3 DEF z
  <2>6. CASE BlockCommentIn(text, ended, a, z)
    <3>1. a < z /\ text[a] = "/" /\ text[a + 1] = "*"
      BY <2>6 DEF BlockCommentIn
    <3>2. Span(a, a + 1) = <<"/", "*">>
      BY <2>4, <3>1
    <3>3. ASSUME NEW k \in (a + 3)..Len(text)
          PROVE  Span(k - 1, k) = <<"*", "/">> <=> text[k - 1] = "*" /\ text[k] = "/"
      <4>1. k - 1 \in 1..Len(text) /\ k \in 1..Len(text)
        BY <1>1, <2>2
      <4>2. Span(k - 1, k) = <<text[k - 1], text[k]>>
        <5>1. k - 1 + 1 = k /\ k - 1 + 1 <= Len(text)
          BY <1>1, <4>1
        <5>2. SubSeq(text, k - 1, k - 1 + 1) = <<text[k - 1], text[k - 1 + 1]>>
          BY <4>1, <5>1, TwoCharacters
        <5>3. QED BY <5>1, <5>2 DEF Span
      <4>3. QED BY <4>2
    <3> DEFINE ends == {k \in (a + 3)..Len(text) : Span(k - 1, k) = <<"*", "/">>}
    <3>4. \A k \in ends : z <= k
      <4> SUFFICES ASSUME NEW k \in ends, k < z
                   PROVE  FALSE
        BY <1>1, <2>2, <2>3
      <4>1. text[k - 1] = "*" /\ text[k] = "/" /\ k \in (a + 3)..(z - 1)
        BY <1>1, <2>2, <2>3, <3>3
      <4>2. QED BY <2>6, <4>1 DEF BlockCommentIn
    <3>5. z \in ends \/ z = Len(text)
      <4>1. CASE a + 3 <= z /\ text[z - 1] = "*" /\ text[z] = "/"
        BY <1>1, <2>2, <2>3, <3>3, <4>1
      <4>2. QED BY <2>6, <4>1 DEF BlockCommentIn
    <3>6. IsBlockComment(a, z)
      BY <3>1, <3>2, <3>4, <3>5 DEF IsBlockComment
    <3>7. QED BY <3>6 DEF z
  <2>7. CASE a = z /\ text[a] \in Blank
    BY <2>7 DEF z
  <2>8. QED BY <2>3, <2>5, <2>6, <2>7 DEF Piece
<1>6. cuts \in SUBSET (i..(j + 1)) /\ {i, j + 1} \subseteq cuts
  BY <1>3
<1>7. QED BY <1>5, <1>6 DEF IsGap

\* So is a lexeme.
LEMMA LexemeIsLexeme ==
  ASSUME text \in Seq(Char), NEW t \in Token, t.to \in 0..Len(text),
         t.from <= t.to + 1, LexemeIn(text, ended, t)
  PROVE  IsLexeme(t)
<1>1. t.kind \in Kind /\ t.from \in Nat \ {0} /\ t.to \in Nat /\ Len(text) \in Nat
  BY DEF Token
<1> DEFINE lex == Span(t.from, t.to)
<1>2. /\ Len(lex) = t.to - t.from + 1 /\ DOMAIN lex = 1..(t.to - t.from + 1)
      /\ \A i \in 1..(t.to - t.from + 1) : lex[i] = text[t.from + i - 1]
  BY <1>1, Part DEF Span
<1> HIDE DEF lex
<1>3. CharAt(t.to + 1) = NextIn(text, t.to + 1)
  BY DEF CharAt, NextIn
<1>4. t.from <= t.to => lex[1] = text[t.from]
  <2> SUFFICES ASSUME t.from <= t.to
               PROVE  lex[1] = text[t.from]
    OBVIOUS
  <2>1. 1 \in 1..(t.to - t.from + 1) /\ t.from + 1 - 1 = t.from
    BY <1>1
  <2>2. QED BY <1>2, <2>1
<1>5. ASSUME NEW chars, Run(text, chars, t.from, t.to)
      PROVE  \A i \in DOMAIN lex : lex[i] \in chars
  <2> SUFFICES ASSUME NEW i \in DOMAIN lex
               PROVE  lex[i] \in chars
    OBVIOUS
  <2>1. lex[i] = text[t.from + i - 1] /\ t.from + i - 1 \in t.from..t.to
    BY <1>1, <1>2
  <2>2. QED BY <1>5, <2>1 DEF Run
<1>6. CASE t.kind \in {"identifier", "keyword"}
  <2>1. /\ lex[1] \in Letter /\ CharAt(t.to + 1) \notin WordChar
        /\ \A i \in DOMAIN lex : lex[i] \in WordChar
        /\ t.kind = "keyword" <=> lex \in Keywords
    BY <1>3, <1>4, <1>5, <1>6 DEF LexemeIn, Span, lex
  <2>2. QED BY <1>6, <2>1 DEF IsLexeme, lex
<1>7. CASE t.kind = "number"
  <2>1. /\ lex[1] \in Digit /\ CharAt(t.to + 1) \notin NumChar
        /\ \A i \in DOMAIN lex : lex[i] \in NumChar
    BY <1>3, <1>4, <1>5, <1>7 DEF LexemeIn
  <2>2. QED BY <1>7, <2>1 DEF IsLexeme, lex
<1>8. CASE t.kind = "operator"
  <2>1. CASE t.to = t.from + 1 /\ <<text[t.from], text[t.to]>> \in Pairs
    <3>1. t.from \in 1..Len(text) /\ t.from + 1 <= Len(text)
      BY <1>1, <2>1
    <3>2. lex = <<text[t.from], text[t.to]>>
      BY <2>1, <3>1, TwoCharacters DEF Span, lex
    <3>3. lex \in Pairs
      BY <2>1, <3>2
    <3>4. QED BY <1>8, <3>3 DEF IsLexeme, lex
  <2>2. CASE ~(t.to = t.from + 1 /\ <<text[t.from], text[t.to]>> \in Pairs)
    <3>1. /\ t.to = t.from /\ text[t.from] \in Other
          /\ <<text[t.from], NextIn(text, t.to + 1)>> \notin Pairs
          /\ <<text[t.from], NextIn(text, t.to + 1)>>
               \notin {<<"/", "/">>, <<"/", "*">>}
      BY <1>8, <2>2 DEF LexemeIn
    <3>2. t.from \in 1..Len(text)
      BY <1>1, <3>1
    <3>3. lex = <<text[t.from]>>
      BY <3>1, <3>2, OneCharacter DEF Span, lex
    <3>4. Len(lex) = 1 /\ lex[1] = text[t.from]
      BY <3>3
    <3>5. lex \o <<CharAt(t.to + 1)>> = <<text[t.from], CharAt(t.to + 1)>>
      BY <3>3, Zenon, ConcatenatedPair
    <3>6. /\ Len(lex) = 1 /\ lex[1] \in Other
          /\ lex \o <<CharAt(t.to + 1)>> \notin Pairs
          /\ lex \o <<CharAt(t.to + 1)>> \notin {<<"/", "/">>, <<"/", "*">>}
      BY <1>3, <3>1, <3>4, <3>5
    <3>7. QED BY <1>8, <3>6 DEF IsLexeme, lex
  <2>3. QED BY <2>1, <2>2
<1>9. CASE t.kind = "punctuation"
  <2>1. t.to = t.from /\ text[t.from] \in Punctuation
    BY <1>9 DEF LexemeIn
  <2>2. Len(lex) = 1 /\ lex[1] \in Punctuation
    BY <1>1, <1>2, <1>4, <2>1
  <2>3. QED BY <1>9, <2>2 DEF IsLexeme, lex
<1>10. CASE t.kind = "eof"
  BY <1>10 DEF LexemeIn, IsLexeme
<1>11. QED BY <1>1, <1>6, <1>7, <1>8, <1>9, <1>10 DEF Kind

\* What is stored of a lexeme of one character, and of one that grows.
LEMMA StoredBegins ==
  ASSUME NEW s \in Seq(Char), NEW t \in Token, t.from \in 1..Len(s),
         t.to = t.from, t.value = <<s[t.from]>>
  PROVE  Stored(s, t)
<1>1. t.to < t.from + MaxValue
  BY LexerAssumption DEF Token
<1>2. QED BY <1>1, OneCharacter DEF Stored

\* One more character is kept if there is room for it.
LEMMA StoredGrows ==
  ASSUME NEW s \in Seq(Char), NEW t \in Token, t.from <= t.to,
         t.to + 1 <= Len(s), Stored(s, t),
         NEW u \in Token, u.from = t.from, u.to = t.to + 1,
         u.value = IF Len(t.value) < MaxValue THEN Append(t.value, s[u.to])
                   ELSE t.value
  PROVE  Stored(s, u)
<1>1. /\ t.from \in Nat \ {0} /\ t.to \in Nat /\ MaxValue \in Nat /\ MaxValue >= 2
      /\ Len(s) \in Nat
  BY LexerAssumption DEF Token
<1>2. CASE t.to < t.from + MaxValue - 1
  <2>1. t.value = SubSeq(s, t.from, t.to)
    <3>1. t.to < t.from + MaxValue
      BY <1>1, <1>2
    <3>2. QED BY <3>1 DEF Stored
  <2>2. /\ t.value \in Seq(Char) /\ Len(t.value) = t.to - t.from + 1
        /\ \A k \in 1..(t.to - t.from + 1) : t.value[k] = s[t.from + k - 1]
    <3>1. t.from \in Nat \ {0} /\ t.to \in 0..Len(s) /\ t.from <= t.to + 1
      BY <1>1
    <3> DEFINE w == SubSeq(s, t.from, t.to)
    <3>2. /\ w \in Seq(Char) /\ Len(w) = t.to - t.from + 1
          /\ \A k \in 1..(t.to - t.from + 1) : w[k] = s[t.from + k - 1]
      BY <3>1, Part
    <3>3. t.value = w
      BY <2>1
    <3> HIDE DEF w
    <3>4. QED BY <3>2, <3>3
  <2>3. Len(t.value) < MaxValue /\ s[u.to] \in Char
    BY <1>1, <1>2, <2>2
  <2> DEFINE v == Append(t.value, s[u.to])
             w == SubSeq(s, u.from, u.to)
  <2>4. /\ v \in Seq(Char) /\ Len(v) = u.to - u.from + 1
        /\ \A k \in 1..Len(t.value) : v[k] = t.value[k]
        /\ v[Len(t.value) + 1] = s[u.to]
    <3>1. u.to - u.from + 1 = Len(t.value) + 1
      BY <1>1, <2>2
    <3>2. QED BY <2>2, <2>3, <3>1, AppendProperties
  <2>5. /\ w \in Seq(Char) /\ Len(w) = u.to - u.from + 1
        /\ \A k \in 1..(u.to - u.from + 1) : w[k] = s[u.from + k - 1]
    <3>1. u.from \in Nat \ {0} /\ u.to \in 0..Len(s) /\ u.from <= u.to + 1
      BY <1>1
    <3>2. QED BY <3>1, Part
  <2> HIDE DEF v, w
  <2>0. /\ Len(t.value) \in Nat /\ Len(v) = Len(t.value) + 1
        /\ u.from + Len(t.value) = u.to
    <3>1. Len(t.value) = t.to - t.from + 1
      BY <2>2
    <3>2. Len(v) = u.to - u.from + 1
      BY <2>4
    <3>3. /\ u.from = t.from /\ u.to = t.to + 1 /\ t.from <= t.to
          /\ t.from \in Int /\ t.to \in Int
      BY <1>1
    <3>4. Len(t.value) \in Nat
      BY <3>1, <3>3
    <3>5. Len(v) = Len(t.value) + 1
      BY <3>1, <3>2, <3>3
    <3>6. u.from + Len(t.value) = u.to
      BY <3>1, <3>3
    <3>7. QED BY <3>4, <3>5, <3>6
  <2>6. \A k \in 1..Len(v) : v[k] = w[k]
    <3> SUFFICES ASSUME NEW k \in 1..Len(v)
                 PROVE  v[k] = w[k]
      OBVIOUS
    <3>1. w[k] = s[u.from + k - 1]
      BY <2>4, <2>5
    <3>2. CASE k <= Len(t.value)
      BY <1>1, <2>2, <2>4, <3>1, <3>2
    <3>3. CASE k > Len(t.value)
      <4>1. k = Len(t.value) + 1
        BY <2>0, <3>3
      <4>3. u.from \in Nat /\ u.to \in Nat
        BY <1>1
      <4>4. u.from + k - 1 = u.to
        BY <2>0, <4>1, <4>3
      <4>2. QED BY <2>4, <3>1, <4>1, <4>4
    <3>4. Len(t.value) \in Nat /\ k \in Nat
      BY <2>2, <2>4
    <3>5. QED BY <3>2, <3>3, <3>4
  <2>7. v = w
    BY <2>4, <2>5, <2>6, SeqEqual
  <2>8. u.to < u.from + MaxValue
    BY <1>1, <1>2
  <2>9. u.value = v
    BY <2>3 DEF v
  <2>10. QED BY <2>7, <2>8, <2>9 DEF Stored, w
<1>3. CASE t.to >= t.from + MaxValue - 1
  <2> DEFINE last == t.from + MaxValue - 1
  <2>1. last \in 0..Len(s) /\ t.from <= last + 1 /\ last - t.from + 1 = MaxValue
    BY <1>1, <1>3
  <2>2. t.value = SubSeq(s, t.from, last)
    <3>1. ~(t.to < t.from + MaxValue) \/ t.to = last
      BY <1>1, <1>3
    <3>2. QED BY <3>1 DEF Stored
  <2>3. Len(t.value) = MaxValue
    BY <1>1, <2>1, <2>2, Part
  <2>4. u.value = SubSeq(s, u.from, last)
    <3>1. ~(Len(t.value) < MaxValue)
      BY <1>1, <2>3
    <3>2. QED BY <2>2, <3>1
  <2>5. ~(u.to < u.from + MaxValue)
    BY <1>1, <1>3
  <2>6. QED BY <2>4, <2>5 DEF Stored
<1>4. QED BY <1>1, <1>2, <1>3

\* How much is stored, and that all of a keyword is.
LEMMA StoredLength ==
  ASSUME NEW s \in Seq(Char), NEW t \in Token, t.from <= t.to + 1,
         t.to \in 0..Len(s), Stored(s, t)
  PROVE  /\ Len(t.value) <= MaxValue
         /\ t.value \in Keywords <=> SubSeq(s, t.from, t.to) \in Keywords
<1>1. /\ t.from \in Nat \ {0} /\ t.to \in Nat /\ MaxValue \in Nat /\ MaxValue >= 2
      /\ Len(s) \in Nat /\ \A word \in Keywords : Len(word) < MaxValue
  BY LexerAssumption DEF Token
<1>2. Len(SubSeq(s, t.from, t.to)) = t.to - t.from + 1
  BY <1>1, Part
<1>3. CASE t.to < t.from + MaxValue
  <2>1. t.value = SubSeq(s, t.from, t.to)
    BY <1>3 DEF Stored
  <2>2. QED BY <1>1, <1>2, <1>3, <2>1
<1>4. CASE t.to >= t.from + MaxValue
  <2> DEFINE last == t.from + MaxValue - 1
  <2>1. last \in 0..Len(s) /\ t.from <= last + 1 /\ last - t.from + 1 = MaxValue
    BY <1>1, <1>4
  <2>2. t.value = SubSeq(s, t.from, last)
    <3>1. ~(t.to < t.from + MaxValue)
      BY <1>1, <1>4
    <3>2. QED BY <3>1 DEF Stored
  <2>3. Len(t.value) = MaxValue
    BY <1>1, <2>1, <2>2, Part
  <2>4. t.value \notin Keywords
    BY <1>1, <2>3
  <2>5. SubSeq(s, t.from, t.to) \notin Keywords
    <3>1. ~(Len(SubSeq(s, t.from, t.to)) < MaxValue)
      BY <1>1, <1>2, <1>4
    <3>2. QED BY <1>1, <3>1
  <2>6. QED BY <1>1, <2>3, <2>4, <2>5
<1>5. QED BY <1>1, <1>3, <1>4

-----------------------------------------------------------------------------
(* Lines. *)

\* The line ends before a place can be counted.
LEMMA NewlinesFinite ==
  ASSUME NEW s, NEW i \in Nat
  PROVE  IsFiniteSet(Newlines(s, i)) /\ Cardinality(Newlines(s, i)) \in Nat
<1>1. IsFiniteSet(1..(i - 1)) /\ Newlines(s, i) \in SUBSET (1..(i - 1))
  BY FS_Interval DEF Newlines
<1>2. IsFiniteSet(Newlines(s, i))
  BY <1>1, FS_Subset
<1>3. QED BY <1>2, FS_CardinalityType

\* What is known of a line stays right when the text grows.
LEMMA CountsStay ==
  ASSUME NEW s, NEW e, NEW s1, NEW e1, Grows(s, e, s1, e1),
         NEW r, NEW l, NEW i \in Nat, i <= Len(s) + 1, Counts(s, r, l, i)
  PROVE  Counts(s1, r, l, i)
<1>1. Newlines(s1, i) = Newlines(s, i)
  BY DEF Newlines, Grows
<1>2. QED BY <1>1 DEF Counts

\* The line behind a character.
LEMMA CountsNext ==
  ASSUME NEW s, NEW r, NEW l \in Nat, NEW i \in Nat \ {0}, Counts(s, r, l, i)
  PROVE  Counts(s, r, IF s[i] = "nl" THEN l + 1 ELSE l, i + 1)
<1>1. IsFiniteSet(Newlines(s, i)) /\ Cardinality(Newlines(s, i)) \in Nat
  BY NewlinesFinite
<1>2. CASE s[i] = "nl"
  <2>1. Newlines(s, i + 1) = Newlines(s, i) \cup {i} /\ i \notin Newlines(s, i)
    BY <1>2 DEF Newlines
  <2>2. Cardinality(Newlines(s, i + 1)) = Cardinality(Newlines(s, i)) + 1
    BY <1>1, <2>1, FS_AddElement
  <2>3. QED BY <1>1, <1>2, <2>2 DEF Counts
<1>3. CASE s[i] # "nl"
  <2>1. Newlines(s, i + 1) = Newlines(s, i)
    BY <1>3 DEF Newlines
  <2>2. QED BY <1>3, <2>1 DEF Counts
<1>4. QED BY <1>2, <1>3

\* The line of a place is that of an earlier one without a line end between.
LEMMA CountsBack ==
  ASSUME NEW s, NEW r, NEW l, NEW i \in Nat \ {0}, NEW j \in Nat, i <= j + 1,
         \A k \in i..j : s[k] # "nl", Counts(s, r, l, j + 1)
  PROVE  Counts(s, r, l, i)
<1>1. Newlines(s, j + 1) = Newlines(s, i)
  BY DEF Newlines
<1>2. QED BY <1>1 DEF Counts

\* A place that is set back keeps a line that is large enough.
LEMMA CountsRewound ==
  ASSUME NEW s, NEW r, NEW q \in Nat \ {0}, NEW l \in Nat, NEW i \in Nat,
         NEW j \in Nat, i <= j, Counts(s, r, l, j)
  PROVE  Counts(s, q, l, i)
<1>1. /\ Newlines(s, i) \in SUBSET Newlines(s, j)
      /\ IsFiniteSet(Newlines(s, j)) /\ Cardinality(Newlines(s, j)) \in Nat
      /\ Cardinality(Newlines(s, i)) \in Nat
  <2>1. Newlines(s, i) \in SUBSET Newlines(s, j)
    BY DEF Newlines
  <2>2. QED BY <2>1, NewlinesFinite
<1>2. Cardinality(Newlines(s, i)) <= Cardinality(Newlines(s, j))
  BY <1>1, FS_Subset
<1>3. QED BY <1>1, <1>2 DEF Counts

-----------------------------------------------------------------------------
(* What every step does to the text, the tokens and the lines. *)

\* What fgetc finds, and does to the text.
LEMMA Looks ==
  ASSUME Types, NEW ch \in Fetched, Look(ch)
  PROVE  /\ Grows(text, ended, text', ended')
         /\ text' \in Seq(Alphabet) /\ Len(text') <= InputLen /\ ended' \in BOOLEAN
         /\ Len(text') \in Nat /\ Len(text) \in Nat /\ Len(text) <= Len(text')
         /\ ch = EOF => pos = Len(text') /\ pos = Len(text) /\ ended'
         /\ ch # EOF => ch \in Alphabet /\ ch \in Char /\ pos + 1 <= Len(text')
                          /\ text'[pos + 1] = ch
         /\ NextIn(text', pos + 1) = ch /\ (pos < Len(text') \/ ended')
         /\ pos \in 0..Len(text')
<1>1. /\ Alphabet \subseteq Char /\ EOF \notin Alphabet
      /\ text \in Seq(Alphabet) /\ Len(text) <= InputLen /\ InputLen \in Nat
      /\ Len(text) \in Nat /\ pos \in 0..Len(text) /\ ended \in BOOLEAN
  BY LexerAssumption, Classes DEF Types
<1>2. text \in Seq(Char)
  BY <1>1
<1>3. CASE pos < Len(text) /\ ch = text[pos + 1] /\ UNCHANGED <<text, ended>>
  <2>1. ch \in Alphabet
    BY <1>1, <1>3
  <2>2. QED BY <1>1, <1>2, <1>3, <2>1 DEF Grows, NextIn
<1>4. CASE /\ pos = Len(text) /\ ~ended /\ Len(text) < InputLen
           /\ ch \in Alphabet /\ text' = Append(text, ch) /\ UNCHANGED ended
  <2>1. /\ text' \in Seq(Alphabet) /\ Len(text') = Len(text) + 1
        /\ \A k \in 1..Len(text) : text'[k] = text[k]
        /\ text'[Len(text) + 1] = ch
    BY <1>1, <1>4, AppendProperties
  <2>2. text' \in Seq(Char)
    BY <1>1, <2>1
  <2>3. Grows(text, ended, text', ended')
    BY <1>1, <1>2, <1>4, <2>1, <2>2 DEF Grows
  <2>4. QED BY <1>1, <1>4, <2>1, <2>3 DEF NextIn
<1>5. CASE pos = Len(text) /\ ch = EOF /\ ended' = TRUE /\ UNCHANGED text
  BY <1>1, <1>2, <1>5 DEF Grows, NextIn
<1>6. QED BY <1>3, <1>4, <1>5 DEF Look

\* A step that returns no token, and one that returns t.
LEMMA TokensStay ==
  ASSUME IInv, Grows(text, ended, text', ended'), out' = out, expected' = expected
  PROVE  TokensFollow' /\ ExpectedFollows' /\ Behind' = Behind
<1>1. Behind' = Behind /\ \A i : EndBefore(i)' = EndBefore(i)
  BY DEF Behind, EndBefore
<1>2. ASSUME NEW i \in DOMAIN out
      PROVE  Follows(text', ended', EndBefore(i), out[i])
  <2>1. Follows(text, ended, EndBefore(i), out[i])
    BY DEF IInv, TokensFollow
  <2>2. QED BY <2>1, FollowsStays
<1>3. TokensFollow'
  BY <1>1, <1>2 DEF TokensFollow
<1>4. ASSUME expected # <<>>
      PROVE  Follows(text', ended', EndBefore(expected[1]), expected[2])
  <2>1. Follows(text, ended, EndBefore(expected[1]), expected[2])
    BY <1>4 DEF IInv, ExpectedFollows
  <2>2. QED BY <2>1, FollowsStays
<1>5. ExpectedFollows'
  BY <1>1, <1>4 DEF IInv, ExpectedFollows
<1>6. QED BY <1>1, <1>3, <1>5

\* A step that returns the token t: it is the last, and follows the others.
LEMMA TokensGrow ==
  ASSUME IInv, Grows(text, ended, text', ended'), expected' = expected,
         NEW t, out' = Append(out, t), Follows(text', ended', Behind, t)
  PROVE  /\ TokensFollow' /\ ExpectedFollows' /\ Behind' = t.to
         /\ out' \in Seq(Token) /\ t \in Token
<1>1. out \in Seq(Token) /\ t \in Token /\ Len(out) \in Nat
  BY DEF IInv, Types, Follows
<1>2. /\ out' \in Seq(Token) /\ Len(out') = Len(out) + 1
      /\ DOMAIN out' = 1..(Len(out) + 1) /\ DOMAIN out = 1..Len(out)
      /\ \A i \in 1..Len(out) : out'[i] = out[i]
      /\ out'[Len(out) + 1] = t
  BY <1>1, AppendProperties
<1>3. \A i \in 1..(Len(out) + 1) : EndBefore(i)' = EndBefore(i)
  <2> SUFFICES ASSUME NEW i \in 1..(Len(out) + 1)
               PROVE  EndBefore(i)' = EndBefore(i)
    OBVIOUS
  <2>1. CASE i = 1
    BY <2>1 DEF EndBefore
  <2>2. CASE i # 1
    <3>1. i - 1 \in 1..Len(out)
      BY <1>1, <2>2
    <3>2. out'[i - 1] = out[i - 1]
      BY <1>2, <3>1
    <3>3. QED BY <2>2, <3>2 DEF EndBefore
  <2>3. QED BY <2>1, <2>2
<1>4. ASSUME NEW i \in 1..(Len(out) + 1)
      PROVE  Follows(text', ended', EndBefore(i), out'[i])
  <2>1. CASE i \in 1..Len(out)
    <3>1. Follows(text, ended, EndBefore(i), out[i])
      BY <1>2, <2>1 DEF IInv, TokensFollow
    <3>2. QED BY <1>2, <2>1, <3>1, FollowsStays
  <2>2. CASE i = Len(out) + 1
    BY <1>2, <2>2 DEF Behind
  <2>3. QED BY <1>1, <2>1, <2>2
<1>5. TokensFollow'
  BY <1>2, <1>3, <1>4 DEF TokensFollow
<1>6. ExpectedFollows'
  <2> SUFFICES ASSUME expected # <<>>
               PROVE  /\ expected[1] >= 2 /\ Len(out') >= expected[1] - 1
                      /\ Follows(text', ended', EndBefore(expected[1])', expected[2])
    BY DEF ExpectedFollows
  <2>1. /\ expected[1] >= 2 /\ Len(out) >= expected[1] - 1
        /\ expected[1] \in Nat
        /\ Follows(text, ended, EndBefore(expected[1]), expected[2])
    BY DEF IInv, ExpectedFollows, Types
  <2>2. expected[1] \in 1..(Len(out) + 1)
    BY <1>1, <2>1
  <2>3. Follows(text', ended', EndBefore(expected[1]), expected[2])
    BY <2>1, FollowsStays
  <2>4. QED BY <1>1, <1>2, <1>3, <2>1, <2>2, <2>3
<1>7. Behind' = t.to
  <2>1. Len(out') + 1 # 1 /\ Len(out') + 1 - 1 = Len(out) + 1
    BY <1>1, <1>2
  <2>2. QED BY <1>2, <2>1 DEF Behind, EndBefore
<1>8. QED BY <1>1, <1>2, <1>5, <1>6, <1>7

\* The lines of the tokens returned so far stay right.
LEMMA LinesStay ==
  ASSUME IInv, Grows(text, ended, text', ended'), rewinds' = rewinds,
         line' \in Nat, line' >= line
  PROVE  /\ \A i \in DOMAIN out :
              /\ Counts(text', rewinds', out[i].line, out[i].from)
              /\ out[i].line <= line'
              /\ i > 1 => out[i - 1].line <= out[i].line
<1> SUFFICES ASSUME NEW i \in DOMAIN out
             PROVE  /\ Counts(text', rewinds', out[i].line, out[i].from)
                    /\ out[i].line <= line'
                    /\ i > 1 => out[i - 1].line <= out[i].line
  OBVIOUS
<1>1. /\ Counts(text, rewinds, out[i].line, out[i].from) /\ out[i].line <= line
      /\ i > 1 => out[i - 1].line <= out[i].line
  BY DEF IInv, LinesCount
<1>2. Follows(text, ended, EndBefore(i), out[i])
  BY DEF IInv, TokensFollow
<1>3. out[i].from \in Nat /\ out[i].line \in Nat /\ line \in Nat
  BY <1>2 DEF Follows, Token, IInv, Types
<1>4. out[i].from <= Len(text) + 1
  BY <1>2, <1>3 DEF Follows, Grows
<1>5. Counts(text', rewinds, out[i].line, out[i].from)
  BY <1>1, <1>3, <1>4, CountsStay
<1>6. out[i].line <= line'
  BY <1>1, <1>3
<1>7. QED BY <1>1, <1>5, <1>6

\* The lexer's line after a character that is taken or left.
LEMMA LineFollows ==
  ASSUME IInv, NEW ch \in Fetched, Look(ch), rewinds' = rewinds,
         \/ pos' = pos /\ line' = line
         \/ Take(ch) /\ Newline(ch)
         \/ Take(ch) /\ line' = line /\ ch # "nl"
  PROVE  /\ Counts(text', rewinds', line', pos' + 1)
         /\ line' \in Nat \ {0} /\ line' >= line /\ pos' \in 0..Len(text')
<1>1. /\ Grows(text, ended, text', ended') /\ Len(text) \in Nat
      /\ ch # EOF => pos + 1 <= Len(text') /\ text'[pos + 1] = ch
      /\ pos \in 0..Len(text') /\ Len(text') \in Nat
  BY Looks DEF IInv
<1>2. pos \in 0..Len(text) /\ line \in Nat \ {0} /\ "nl" # EOF
  BY DEF IInv, Types, EOF
<1>3. Counts(text', rewinds, line, pos + 1)
  <2>1. pos + 1 \in Nat /\ pos + 1 <= Len(text) + 1
    BY <1>1, <1>2
  <2>2. QED BY <1>1, <2>1, CountsStay DEF IInv, LinesCount
<1>4. CASE pos' = pos /\ line' = line
  BY <1>1, <1>2, <1>3, <1>4
<1>5. CASE Take(ch) /\ ch = EOF
  <2>1. pos' = pos /\ line' = line
    BY <1>2, <1>5 DEF Take, Newline
  <2>2. QED BY <1>1, <1>2, <1>3, <2>1
<1>6. CASE Take(ch) /\ ch # EOF
  <2>1. /\ pos' = pos + 1
        /\ line' = IF text'[pos + 1] = "nl" THEN line + 1 ELSE line
    BY <1>1, <1>6 DEF Take, Newline
  <2>2. Counts(text', rewinds, line', pos + 1 + 1)
    <3>1. pos + 1 \in Nat \ {0} /\ line \in Nat
      BY <1>1, <1>2
    <3>2. QED BY <1>3, <2>1, <3>1, CountsNext
  <2>3. QED BY <1>1, <1>2, <1>6, <2>1, <2>2
<1>7. QED BY <1>4, <1>5, <1>6

\* A step that returns no token keeps what is known of the tokens.
LEMMA NothingReturned ==
  ASSUME IInv, NEW ch \in Fetched, Look(ch), out' = out, UNCHANGED Parser,
         errors' = errors,
         \/ pos' = pos /\ line' = line
         \/ Take(ch) /\ Newline(ch)
         \/ Take(ch) /\ line' = line /\ ch # "nl"
  PROVE  /\ TokensFollow' /\ ExpectedFollows' /\ LinesCount'
         /\ TruncatedIdentifierIsAnError' /\ Behind' = Behind
         /\ pos' \in 0..Len(text') /\ line' \in Nat \ {0}
         /\ out' \in Seq(Token) /\ errors' \in Nat /\ rewinds' \in 0..MaxRewinds
         /\ expected' = <<>> \/ expected' \in Nat \X Token
<1>1. Grows(text, ended, text', ended')
  BY Looks DEF IInv
<1>2. rewinds' = rewinds /\ expected' = expected
  BY DEF Parser
<1>3. TokensFollow' /\ ExpectedFollows' /\ Behind' = Behind
  BY <1>1, <1>2, TokensStay
<1>4. /\ Counts(text', rewinds', line', pos' + 1)
      /\ line' \in Nat \ {0} /\ line' >= line /\ pos' \in 0..Len(text')
  BY <1>2, LineFollows
<1>5. LinesCount'
  BY <1>1, <1>2, <1>4, LinesStay DEF LinesCount
<1>6. TruncatedIdentifierIsAnError'
  BY DEF IInv, TruncatedIdentifierIsAnError
<1>7. QED BY <1>2, <1>3, <1>4, <1>5, <1>6 DEF IInv, Types

\* A step that returns the token t, which ends where the stream then stands.
LEMMA TokenReturned ==
  ASSUME IInv, NEW ch \in Fetched, Look(ch), NEW t, Deliver(t), UNCHANGED Parser,
         prev' \in Alphabet \cup {EOF}, t.line = line, t.to = pos',
         (pos' = pos /\ line' = line) \/ (Take(ch) /\ line' = line /\ ch # "nl"),
         Follows(text', ended', Behind, t),
         \A k \in t.from..t.to : text'[k] # "nl",
         errors' \in Nat, errors' >= errors,
         t.kind \in {"identifier", "keyword"}
           /\ Len(t.value) < t.to - t.from + 1 => errors' > errors
  PROVE  IInv'
<1>1. /\ Grows(text, ended, text', ended') /\ text' \in Seq(Alphabet)
      /\ Len(text') <= InputLen /\ ended' \in BOOLEAN
  BY Looks DEF IInv
<1>2. rewinds' = rewinds /\ expected' = expected /\ out' = Append(out, t)
      /\ pc' = "idle" /\ tok' = NoToken
  BY DEF Parser, Deliver
<1>3. /\ TokensFollow' /\ ExpectedFollows' /\ Behind' = t.to
      /\ out' \in Seq(Token) /\ t \in Token
  BY <1>1, <1>2, TokensGrow
<1>4. /\ Counts(text', rewinds', line', pos' + 1)
      /\ line' \in Nat \ {0} /\ line' >= line /\ pos' \in 0..Len(text')
  BY <1>2, LineFollows
<1>5. Len(out) \in Nat /\ out \in Seq(Token) /\ errors \in Nat
  BY DEF IInv, Types
<1>6. /\ Len(out') = Len(out) + 1 /\ DOMAIN out' = 1..(Len(out) + 1)
      /\ DOMAIN out = 1..Len(out)
      /\ \A i \in 1..Len(out) : out'[i] = out[i]
      /\ out'[Len(out) + 1] = t
  BY <1>2, <1>3, <1>5, AppendProperties
<1>7. Counts(text', rewinds', t.line, t.from)
  <2>1. t.from \in Nat \ {0} /\ t.to \in Nat /\ t.from <= t.to + 1
    BY <1>3 DEF Follows, Token
  <2>2. Counts(text', rewinds', line, t.to + 1)
    BY <1>4
  <2>3. QED BY <2>1, <2>2, CountsBack
<1>8. LinesCount'
  <2>1. \A i \in DOMAIN out : /\ Counts(text', rewinds', out[i].line, out[i].from)
                              /\ out[i].line <= line'
                              /\ i > 1 => out[i - 1].line <= out[i].line
    <3>1. line' \in Nat
      BY <1>4
    <3>2. QED BY <1>1, <1>2, <1>4, <3>1, LinesStay
  <2>2. ASSUME NEW i \in 1..(Len(out) + 1)
        PROVE  /\ Counts(text', rewinds', out'[i].line, out'[i].from)
               /\ out'[i].line <= line'
               /\ i > 1 => out'[i - 1].line <= out'[i].line
    <3>1. CASE i \in 1..Len(out)
      <4>1. i > 1 => i - 1 \in 1..Len(out)
        BY <1>5, <3>1
      <4>2. QED BY <1>6, <2>1, <3>1, <4>1
    <3>2. CASE i = Len(out) + 1
      <4>1. i > 1 => i - 1 \in 1..Len(out)
        BY <1>5, <3>2
      <4>2. out'[i] = t /\ t.line = line'
        BY <1>6, <3>2
      <4>3. i > 1 => out'[i - 1].line <= line'
        BY <1>6, <2>1, <4>1
      <4>4. QED BY <1>4, <1>7, <4>2, <4>3
    <3>3. QED BY <1>5, <3>1, <3>2
  <2>3. QED BY <1>4, <1>6, <2>2 DEF LinesCount
<1>9. TruncatedIdentifierIsAnError'
  <2> SUFFICES ASSUME NEW i \in 1..(Len(out) + 1),
                      out'[i].kind \in {"identifier", "keyword"},
                      Len(out'[i].value) < out'[i].to - out'[i].from + 1
               PROVE  errors' > 0
    BY <1>6 DEF TruncatedIdentifierIsAnError
  <2>1. CASE i \in 1..Len(out)
    <3>1. errors > 0
      BY <1>6, <2>1 DEF IInv, TruncatedIdentifierIsAnError
    <3>2. QED BY <1>5, <3>1
  <2>2. CASE i = Len(out) + 1
    BY <1>5, <1>6, <2>2
  <2>3. QED BY <1>5, <2>1, <2>2
<1>10. Types'
  <2>1. NoToken \in Token
    BY DEF NoToken, Token, Kind
  <2>2. "idle" \in Place
    BY DEF Place
  <2>3. QED BY <1>1, <1>2, <1>3, <1>4, <2>1, <2>2 DEF IInv, Types
<1>11. Stands'
  BY <1>2, <1>3 DEF Stands
<1>12. QED BY <1>3, <1>8, <1>9, <1>10, <1>11 DEF IInv

-----------------------------------------------------------------------------
(* The token being built. *)

\* It takes one more character.
LEMMA ReadingGrows ==
  ASSUME IInv, Reading, NEW ch \in Fetched, Look(ch), ch # EOF, Take(ch),
         Grow(ch), line' = line, Behind' = Behind
  PROVE  /\ Reading' /\ tok' \in Token
         /\ text'[tok'.from] = text[tok.from]
         /\ \A chars : Run(text, chars, tok.from, pos) /\ ch \in chars =>
                         Run(text', chars, tok'.from, pos')
<1>1. /\ Grows(text, ended, text', ended') /\ Len(text') \in Nat
      /\ ch \in Char /\ pos + 1 <= Len(text') /\ text'[pos + 1] = ch
      /\ pos \in 0..Len(text')
  BY Looks DEF IInv
<1>2. /\ tok \in Token /\ tok.from \in 1..pos /\ tok.to = pos
      /\ Stored(text, tok) /\ Gap(text, ended, Behind + 1, tok.from - 1)
      /\ pos \in 0..Len(text) /\ Len(text) \in Nat
  BY DEF Reading, IInv, Types
<1>3. /\ tok' \in Token /\ tok'.from = tok.from /\ tok'.to = tok.to + 1
      /\ tok'.line = tok.line
      /\ tok'.value = IF Len(tok.value) < MaxValue THEN Append(tok.value, ch)
                      ELSE tok.value
  <2>1. tok.value \in Seq(Char) /\ tok.to \in Nat
    BY <1>2 DEF Token
  <2>2. Append(tok.value, ch) \in Seq(Char)
    BY <1>1, <2>1, AppendProperties
  <2> DEFINE v == IF Len(tok.value) < MaxValue THEN Append(tok.value, ch)
                  ELSE tok.value
  <2>3. v \in Seq(Char) /\ tok' = [tok EXCEPT !.to = @ + 1, !.value = v]
    BY <2>1, <2>2 DEF Grow
  <2>4. tok' = [tok EXCEPT !.to = tok.to + 1, !.value = v] /\ tok.to + 1 \in Nat
    BY <2>1, <2>3
  <2> HIDE DEF v
  <2>5. /\ tok' \in Token /\ tok'.from = tok.from /\ tok'.to = tok.to + 1
        /\ tok'.line = tok.line /\ tok'.value = v
    BY <1>2, <2>3, <2>4 DEF Token
  <2>6. QED BY <2>5 DEF v
<1>4. pos' = pos + 1
  BY DEF Take
<1>5. Stored(text', tok) /\ Gap(text', ended', Behind + 1, tok.from - 1)
  BY <1>1, <1>2, StoredStays, GapStays
<1>6. Stored(text', tok')
  <2>1. /\ text' \in Seq(Char) /\ tok.from <= tok.to /\ tok.to + 1 <= Len(text')
        /\ tok'.value = IF Len(tok.value) < MaxValue
                        THEN Append(tok.value, text'[tok'.to]) ELSE tok.value
    BY <1>1, <1>2, <1>3 DEF Grows
  <2>2. QED BY <1>2, <1>3, <1>5, <2>1, StoredGrows
<1>7. Reading'
  BY <1>1, <1>2, <1>3, <1>4, <1>5, <1>6 DEF Reading
<1>8. ASSUME NEW chars, Run(text, chars, tok.from, pos), ch \in chars
      PROVE  Run(text', chars, tok'.from, pos')
  BY <1>1, <1>2, <1>3, <1>4, <1>8 DEF Run, Grows
<1>9. text'[tok'.from] = text[tok.from]
  BY <1>1, <1>2, <1>3 DEF Grows
<1>10. QED BY <1>3, <1>7, <1>8, <1>9

\* It ends before the character looked at, and is of kind k.
LEMMA ReadingEnds ==
  ASSUME IInv, Reading, NEW ch \in Fetched, Look(ch), NEW k \in Kind,
         LexemeIn(text', ended', [tok EXCEPT !.kind = k])
  PROVE  Follows(text', ended', Behind, [tok EXCEPT !.kind = k])
<1> DEFINE t == [tok EXCEPT !.kind = k]
<1>1. Grows(text, ended, text', ended') /\ pos \in 0..Len(text')
  BY Looks DEF IInv
<1>2. /\ tok \in Token /\ tok.from \in 1..pos /\ tok.to = pos
      /\ Stored(text, tok) /\ Gap(text, ended, Behind + 1, tok.from - 1)
      /\ pos \in 0..Len(text)
  BY DEF Reading, IInv, Types
<1>3. t \in Token /\ t.from = tok.from /\ t.to = tok.to /\ t.value = tok.value
  BY <1>2 DEF Token
<1>4. Gap(text', ended', Behind + 1, t.from - 1) /\ Stored(text', tok)
  BY <1>1, <1>2, <1>3, GapStays, StoredStays
<1>5. Stored(text', t)
  BY <1>3, <1>4 DEF Stored
<1>6. t.to \in 0..Len(text') /\ t.from <= t.to + 1
  BY <1>1, <1>2, <1>3
<1>7. QED BY <1>3, <1>4, <1>5, <1>6 DEF Follows

-----------------------------------------------------------------------------
(* The actions. *)

\* The parser asks for the next token; the gap before it is empty so far.
LEMMA CallKeeps ==
  ASSUME IInv, Call
  PROVE  IInv'
<1>1. /\ UNCHANGED <<text, ended, pos, line, prev, tok, out, errors>>
      /\ rewinds' = rewinds /\ expected' = expected /\ pc = "idle" /\ pc' = "blank"
  BY DEF Call, Parser
<1>2. Behind' = Behind /\ \A i : EndBefore(i)' = EndBefore(i)
  BY <1>1 DEF Behind, EndBefore
<1>3. /\ text \in Seq(Char) /\ pos \in 0..Len(text) /\ pos = Behind
  BY <1>1, LexerAssumption DEF IInv, Types, Stands
<1>4. Gap(text, ended, Behind + 1, pos)
  BY <1>3, EmptyGap
<1>5. Stands'
  BY <1>1, <1>2, <1>4 DEF Stands
<1>6. Types'
  BY <1>1 DEF IInv, Types, Place
<1>7. TokensFollow' /\ ExpectedFollows'
  BY <1>1, <1>2 DEF IInv, TokensFollow, ExpectedFollows
<1>8. LinesCount' /\ TruncatedIdentifierIsAnError'
  BY <1>1 DEF IInv, LinesCount, TruncatedIdentifierIsAnError
<1>9. QED BY <1>5, <1>6, <1>7, <1>8 DEF IInv

\* A gap is continued by a blank, or by a comment that ends here.
LEMMA GapContinues ==
  ASSUME IInv, NEW ch \in Fetched, Look(ch), NEW j, NEW k \in Nat,
         Gap(text, ended, Behind + 1, j), j < k, k <= Len(text'),
         Piece(text', ended', j + 1, k)
  PROVE  Gap(text', ended', Behind + 1, k)
<1>1. Grows(text, ended, text', ended') /\ text' \in Seq(Char)
  BY Looks DEF IInv, Grows
<1>2. Gap(text', ended', Behind + 1, j)
  BY <1>1, GapStays
<1>3. QED BY <1>1, <1>2, GapExtends

\* A blank continues the gap; any other character begins a token, is one, or
\* is the end of the file.
LEMMA SkipWhitespaceKeeps ==
  ASSUME IInv, SkipWhitespace
  PROVE  IInv'
<1> DEFINE First(ch) == [kind |-> "eof", value |-> <<ch>>, line |-> line,
                         from |-> pos + 1, to |-> pos + 1]
<1>1. PICK ch \in Fetched :
        /\ Look(ch) /\ Take(ch) /\ Newline(ch)
        /\ \/ ch \in Blank /\ UNCHANGED <<pc, tok, out>>
           \/ /\ ch = EOF
              /\ Deliver([First(ch) EXCEPT !.value = <<>>, !.to = pos])
           \/ /\ ch \in Punctuation
              /\ Deliver([First(ch) EXCEPT !.kind = "punctuation"])
           \/ /\ ch \notin Blank \cup Punctuation \cup {EOF}
              /\ pc' = Start(ch) /\ tok' = First(ch) /\ UNCHANGED out
  BY DEF SkipWhitespace
<1>2. /\ pc = "blank" /\ UNCHANGED <<prev, errors, Parser>>
  BY DEF SkipWhitespace
<1>3. /\ Grows(text, ended, text', ended') /\ text' \in Seq(Alphabet)
      /\ text' \in Seq(Char) /\ Len(text') <= InputLen /\ ended' \in BOOLEAN
      /\ Len(text') \in Nat
      /\ ch = EOF => pos = Len(text') /\ ended'
      /\ ch # EOF => ch \in Char /\ pos + 1 <= Len(text') /\ text'[pos + 1] = ch
      /\ pos \in 0..Len(text')
  BY <1>1, Looks DEF IInv, Grows
<1>4. /\ Gap(text, ended, Behind + 1, pos) /\ pos \in Nat /\ line \in Nat \ {0}
      /\ MaxValue \in Nat /\ MaxValue >= 2 /\ prev \in Alphabet \cup {EOF}
      /\ errors \in Nat /\ tok \in Token
  BY <1>2, LexerAssumption DEF IInv, Types, Stands
<1>5. Gap(text', ended', Behind + 1, pos)
  BY <1>3, <1>4, GapStays
<1>6. CASE ch \in Blank
  <2>1. ch # EOF /\ UNCHANGED <<pc, tok, out>>
    BY <1>1, <1>6, Classes DEF Deliver, EOF
  <2>2. pos' = pos + 1
    BY <1>1, <2>1 DEF Take
  <2>3. /\ TokensFollow' /\ ExpectedFollows' /\ LinesCount'
        /\ TruncatedIdentifierIsAnError' /\ Behind' = Behind
        /\ pos' \in 0..Len(text') /\ line' \in Nat \ {0}
        /\ out' \in Seq(Token) /\ errors' \in Nat /\ rewinds' \in 0..MaxRewinds
        /\ expected' = <<>> \/ expected' \in Nat \X Token
    BY <1>1, <1>2, <2>1, NothingReturned
  <2>4. Piece(text', ended', pos + 1, pos + 1)
    BY <1>3, <1>6, <2>1 DEF Piece
  <2>5. Gap(text', ended', Behind + 1, pos + 1)
    <3>1. pos < pos + 1 /\ pos + 1 \in Nat /\ pos + 1 <= Len(text')
      BY <1>3, <1>4, <2>1
    <3>2. QED BY <1>1, <1>4, <2>4, <3>1, GapContinues
  <2>6. Stands'
    BY <1>2, <2>1, <2>2, <2>3, <2>5 DEF Stands
  <2>7. Types'
    BY <1>2, <1>3, <1>4, <2>1, <2>3 DEF Types, Place
  <2>8. QED BY <2>3, <2>6, <2>7 DEF IInv
<1>7. CASE ch = EOF
  <2> DEFINE t == [First(ch) EXCEPT !.value = <<>>, !.to = pos]
  <2>1. Deliver(t) /\ ch \notin Blank \cup Punctuation
    BY <1>1, <1>7, Classes
  <2>2. /\ t.kind = "eof" /\ t.value = <<>> /\ t.line = line /\ t.from = pos + 1
        /\ t.to = pos /\ t \in Token
    <3> DEFINE S == Seq(Char) \cup {<<ch>>}
    <3>1. <<>> \in Seq(Char) /\ pos + 1 \in Nat \ {0} /\ "eof" \in Kind
      BY <1>4 DEF Kind
    <3>2. t \in [kind : {"eof"}, value : S, line : {line}, from : Int, to : Int]
      <4>1. \A X : \A v \in X, w \in X, i \in Int, j \in Int :
              [[kind |-> "eof", value |-> w, line |-> line, from |-> i, to |-> i]
                 EXCEPT !.value = v, !.to = j]
                \in [kind : {"eof"}, value : X, line : {line}, from : Int, to : Int]
        OBVIOUS
      <4>2. <<>> \in S /\ <<ch>> \in S /\ pos \in Int /\ pos + 1 \in Int
        BY <1>4, <3>1
      <4> HIDE DEF S
      <4>3. QED BY <4>1, <4>2, Zenon
    <3>3. /\ t.kind = "eof" /\ t.value = <<>> /\ t.line = line /\ t.from = pos + 1
          /\ t.to = pos
      OBVIOUS
    <3> HIDE DEF t, S
    <3>4. QED BY <1>4, <3>1, <3>2, <3>3 DEF Token
  <2> HIDE DEF t
  <2>3. LexemeIn(text', ended', t)
    BY <1>3, <1>7, <2>2 DEF LexemeIn
  <2>4. Stored(text', t)
    <3>1. t.to < t.from + MaxValue
      BY <1>4, <2>2
    <3>2. SubSeq(text', t.from, t.to) = <<>>
      BY <1>4, <2>2, SubSeqEmpty
    <3>3. QED BY <2>2, <3>1, <3>2 DEF Stored
  <2>5. Follows(text', ended', Behind, t)
    <3>1. t.to \in 0..Len(text') /\ t.from <= t.to + 1 /\ t.from - 1 = pos
      BY <1>3, <1>4, <2>2
    <3>2. QED BY <1>5, <2>2, <2>3, <2>4, <3>1 DEF Follows
  <2>6. pos' = pos /\ line' = line
    BY <1>1, <1>7 DEF Take, Newline, EOF
  <2>7. \A k \in t.from..t.to : text'[k] # "nl"
    BY <1>4, <2>2
  <2>8. QED BY <1>1, <1>2, <1>4, <2>1, <2>2, <2>5, <2>6, <2>7, TokenReturned
<1>8. CASE ch \in Punctuation
  <2> DEFINE t == [First(ch) EXCEPT !.kind = "punctuation"]
  <2>1. /\ Deliver(t) /\ ch \notin Blank /\ ch # EOF /\ ch # "nl"
    BY <1>1, <1>8, Classes
  <2>2. /\ t.kind = "punctuation" /\ t.value = <<ch>> /\ t.line = line
        /\ t.from = pos + 1 /\ t.to = pos + 1 /\ t \in Token
    <3>1. t = [kind |-> "punctuation", value |-> <<ch>>, line |-> line,
               from |-> pos + 1, to |-> pos + 1]
      OBVIOUS
    <3>2. <<ch>> \in Seq(Char) /\ pos + 1 \in Nat \ {0} /\ "punctuation" \in Kind
      BY <1>3, <1>4, <2>1 DEF Kind
    <3> HIDE DEF t
    <3>3. QED BY <1>4, <3>1, <3>2 DEF Token
  <2> HIDE DEF t
  <2>3. LexemeIn(text', ended', t)
    BY <1>3, <1>8, <2>1, <2>2 DEF LexemeIn
  <2>4. Stored(text', t)
    <3>1. t.from \in 1..Len(text') /\ t.value = <<text'[t.from]>>
      BY <1>3, <1>4, <2>1, <2>2
    <3>2. QED BY <1>3, <2>2, <3>1, StoredBegins
  <2>5. Follows(text', ended', Behind, t)
    <3>1. t.to \in 0..Len(text') /\ t.from <= t.to + 1 /\ t.from - 1 = pos
      BY <1>3, <1>4, <2>1, <2>2
    <3>2. QED BY <1>5, <2>2, <2>3, <2>4, <3>1 DEF Follows
  <2>6. pos' = pos + 1 /\ line' = line
    BY <1>1, <2>1 DEF Take, Newline
  <2>7. \A k \in t.from..t.to : text'[k] # "nl"
    BY <1>3, <1>4, <2>1, <2>2
  <2>8. QED BY <1>1, <1>2, <1>4, <2>1, <2>2, <2>5, <2>6, <2>7, TokenReturned
<1>9. CASE ch \notin Blank \cup Punctuation \cup {EOF}
  <2>1. /\ pc' = Start(ch) /\ tok' = First(ch) /\ UNCHANGED out /\ ch # EOF
        /\ ch # "nl"
    BY <1>1, <1>9, Classes
  <2>2. pos' = pos + 1 /\ line' = line
    BY <1>1, <2>1 DEF Take, Newline
  <2>3. /\ TokensFollow' /\ ExpectedFollows' /\ LinesCount'
        /\ TruncatedIdentifierIsAnError' /\ Behind' = Behind
        /\ pos' \in 0..Len(text') /\ line' \in Nat \ {0}
        /\ out' \in Seq(Token) /\ errors' \in Nat /\ rewinds' \in 0..MaxRewinds
        /\ expected' = <<>> \/ expected' \in Nat \X Token
    BY <1>1, <1>2, <2>1, NothingReturned
  <2>4. /\ tok'.value = <<ch>> /\ tok'.line = line /\ tok'.from = pos + 1
        /\ tok'.to = pos + 1 /\ tok' \in Token
    BY <1>3, <1>4, <2>1 DEF Token, Kind
  <2>5. /\ tok'.from \in 1..Len(text') /\ tok'.value = <<text'[tok'.from]>>
        /\ tok'.to = tok'.from /\ tok'.from - 1 = pos /\ tok'.from \in 1..pos'
    BY <1>3, <1>4, <2>1, <2>2, <2>4
  <2>6. Stored(text', tok')
    BY <1>3, <2>4, <2>5, StoredBegins
  <2>7. Reading'
    BY <1>5, <2>2, <2>3, <2>4, <2>5, <2>6 DEF Reading
  <2>8. text'[pos'] = ch /\ tok'.from = pos' /\ pos' \in Nat
    BY <1>3, <1>4, <2>1, <2>2, <2>4
  <2>9. \A chars : ch \in chars => Run(text', chars, tok'.from, pos')
    BY <2>8 DEF Run
  <2>10. Letter \subseteq WordChar /\ Digit \subseteq NumChar
    BY Classes
  <2>11. ch \in Letter \cup Digit \cup Other
    BY <1>3, <1>9, <2>1, Classes
  <2>12. Stands'
    <3>1. CASE pc' = "slash" /\ ch = "/"
      BY <2>7, <2>8, <3>1 DEF Stands
    <3>2. CASE pc' = "word" /\ ch \in Letter
      BY <2>7, <2>8, <2>9, <2>10, <3>2 DEF Stands
    <3>3. CASE pc' = "number" /\ ch \in Digit
      BY <2>7, <2>8, <2>9, <2>10, <3>3 DEF Stands
    <3>4. CASE pc' = "operator" /\ ch \in Other \ {"/"}
      BY <2>7, <2>8, <3>4 DEF Stands
    <3>5. QED BY <2>1, <2>11, <3>1, <3>2, <3>3, <3>4 DEF Start
  <2>13. Types'
    <3>1. pc' \in Place
      BY <2>1 DEF Start, Place
    <3>2. QED BY <1>2, <1>3, <1>4, <2>3, <2>4, <3>1 DEF Types
  <2>14. QED BY <2>3, <2>12, <2>13 DEF IInv
<1>10. QED BY <1>1, <1>6, <1>7, <1>8, <1>9

\* What a step that is not a call of the parser finds.
LEMMA Stream ==
  ASSUME IInv, NEW ch \in Fetched, Look(ch)
  PROVE  /\ text' \in Seq(Alphabet) /\ text' \in Seq(Char) /\ Len(text') <= InputLen
         /\ ended' \in BOOLEAN /\ Len(text') \in Nat /\ text \in Seq(Char)
         /\ Len(text) \in Nat /\ Len(text) <= Len(text') /\ pos \in 0..Len(text)
         /\ pos \in Nat /\ line \in Nat \ {0} /\ errors \in Nat /\ tok \in Token
         /\ prev \in Alphabet \cup {EOF}
         /\ \A k \in 1..Len(text) : text'[k] = text[k]
         /\ ch = EOF => pos = Len(text') /\ pos = Len(text) /\ ended'
         /\ ch # EOF => ch \in Alphabet /\ ch \in Char /\ pos + 1 <= Len(text')
                          /\ text'[pos + 1] = ch
         /\ NextIn(text', pos + 1) = ch /\ (pos < Len(text') \/ ended')
BY Looks DEF IInv, Types, Grows

\* The character after a slash opens a comment or is pushed back.
LEMMA CommentOrDivisionKeeps ==
  ASSUME IInv, CommentOrDivision
  PROVE  IInv'
<1>1. PICK ch \in Fetched :
        /\ Look(ch)
        /\ \/ ch = "/" /\ Take(ch) /\ pc' = "lineComment" /\ UNCHANGED <<tok, out>>
           \/ ch = "*" /\ Take(ch) /\ pc' = "blockComment" /\ UNCHANGED <<tok, out>>
           \/ /\ ch \notin {"/", "*"} /\ Unread(ch)
              /\ Deliver([tok EXCEPT !.kind = "operator"])
  BY DEF CommentOrDivision
<1>2. pc = "slash" /\ prev' = EOF /\ UNCHANGED <<line, errors, Parser>>
  BY DEF CommentOrDivision
<1>3. /\ Reading /\ tok.from = pos /\ text[pos] = "/"
      /\ tok.from \in 1..pos /\ tok.to = pos /\ tok.line = line
      /\ Gap(text, ended, Behind + 1, tok.from - 1)
  BY <1>2 DEF IInv, Stands, Reading
<1>4. text'[pos] = "/" /\ Len(text') \in Nat
  BY <1>1, <1>3, Stream
<1>5. Gap(text', ended', Behind + 1, pos - 1)
  <2>1. Grows(text, ended, text', ended')
    BY <1>1, Looks DEF IInv
  <2>2. QED BY <1>3, <2>1, GapStays
<1>6. CASE ch \in {"/", "*"}
  <2>1. /\ Take(ch) /\ UNCHANGED <<tok, out>> /\ ch # EOF /\ ch # "nl"
        /\ pc' = IF ch = "/" THEN "lineComment" ELSE "blockComment"
    BY <1>1, <1>6, Classes DEF EOF
  <2>2. pos' = pos + 1 /\ line' = line /\ errors' = errors /\ UNCHANGED Parser
    BY <1>2, <2>1 DEF Take
  <2>3. /\ TokensFollow' /\ ExpectedFollows' /\ LinesCount'
        /\ TruncatedIdentifierIsAnError' /\ Behind' = Behind
        /\ pos' \in 0..Len(text') /\ line' \in Nat \ {0}
        /\ out' \in Seq(Token) /\ errors' \in Nat /\ rewinds' \in 0..MaxRewinds
        /\ expected' = <<>> \/ expected' \in Nat \X Token
    BY <1>1, <2>1, <2>2, NothingReturned
  <2>4. text'[pos + 1] = ch /\ pos \in Nat
    BY <1>1, <2>1, Stream
  <2>5. pos \in 1..pos' /\ pos + 1 <= pos' /\ pos' = pos + 1
    BY <1>3, <2>2, <2>4
  <2> PICK c \in Nat : c = pos
    BY <2>4
  <2>6. OpenComment(c, ch)' /\ c \in 1..pos' /\ text'[c] = "/"
    BY <1>4, <1>5, <2>3, <2>4, <2>5 DEF OpenComment
  <2>7. Stands'
    <3>1. CASE ch = "/"
      <4>1. \A k \in c..pos' : text'[k] # "nl"
        BY <1>4, <2>4, <2>5, <3>1
      <4>2. QED BY <2>1, <2>5, <2>6, <3>1, <4>1 DEF Stands
    <3>2. CASE ch = "*"
      <4>1. (c + 3)..pos' = {} /\ pos' = c + 1
        BY <2>4, <2>5
      <4>2. QED BY <1>2, <2>1, <2>5, <2>6, <3>2, <4>1 DEF Stands
    <3>3. QED BY <1>6, <3>1, <3>2
  <2>8. Types'
    <3>1. pc' \in Place /\ tok' \in Token /\ prev' \in Alphabet \cup {EOF}
      BY <1>1, <1>2, <2>1, Stream DEF Place
    <3>2. QED BY <1>1, <2>3, <3>1, Stream DEF Types
  <2>9. QED BY <2>3, <2>7, <2>8 DEF IInv
<1>7. CASE ch \notin {"/", "*"}
  <2> DEFINE t == [tok EXCEPT !.kind = "operator"]
  <2>1. Deliver(t) /\ pos' = pos
    BY <1>1, <1>7 DEF Unread
  <2>2. /\ t.kind = "operator" /\ t.from = pos /\ t.to = pos /\ t.line = line
        /\ "operator" \in Kind /\ tok \in Token
    BY <1>1, <1>3, Stream DEF Token, Kind
  <2>3. LexemeIn(text', ended', t)
    <3>1. NextIn(text', t.to + 1) = ch /\ (t.to < Len(text') \/ ended')
      BY <1>1, <2>2, Stream
    <3>2. text'[t.from] = "/" /\ "/" \in Other
      BY <1>4, <2>2, Classes
    <3>3. <<"/", ch>> \notin Pairs /\ <<"/", ch>> \notin {<<"/", "/">>, <<"/", "*">>}
      BY <1>7, PairsAreOperators
    <3> HIDE DEF t
    <3>4. QED BY <2>2, <3>1, <3>2, <3>3 DEF LexemeIn
  <2>4. Follows(text', ended', Behind, t)
    BY <1>1, <1>3, <2>2, <2>3, ReadingEnds
  <2>5. \A k \in t.from..t.to : text'[k] # "nl"
    BY <1>1, <1>4, <2>2, Stream
  <2>6. /\ prev' \in Alphabet \cup {EOF} /\ errors' = errors /\ errors \in Nat
        /\ line' = line /\ UNCHANGED Parser
    BY <1>1, <1>2, Stream
  <2>7. Look(ch) /\ pos' = pos /\ t.to = pos' /\ errors' \in Nat /\ errors' >= errors
        /\ t.kind \notin {"identifier", "keyword"}
    BY <1>1, <2>1, <2>2, <2>6
  <2> HIDE DEF t
  <2>8. QED BY <2>1, <2>2, <2>4, <2>5, <2>6, <2>7, TokenReturned
<1>8. QED BY <1>6, <1>7

\* A line comment is part of the gap once its line ends.
LEMMA LineCommentKeeps ==
  ASSUME IInv, LineComment
  PROVE  IInv'
<1>1. PICK ch \in Fetched :
        /\ Look(ch) /\ Take(ch) /\ Newline(ch)
        /\ pc' = IF ch \in {"nl", EOF} THEN "blank" ELSE pc
  BY DEF LineComment
<1>2. /\ pc = "lineComment" /\ tok' = NoToken /\ UNCHANGED <<prev, out, errors, Parser>>
  BY DEF LineComment
<1>3. /\ TokensFollow' /\ ExpectedFollows' /\ LinesCount'
      /\ TruncatedIdentifierIsAnError' /\ Behind' = Behind
      /\ pos' \in 0..Len(text') /\ line' \in Nat \ {0}
      /\ out' \in Seq(Token) /\ errors' \in Nat /\ rewinds' \in 0..MaxRewinds
      /\ expected' = <<>> \/ expected' \in Nat \X Token
  BY <1>1, <1>2, NothingReturned
<1>4. PICK c \in 1..pos : /\ OpenComment(c, "/")
                          /\ \A k \in c..pos : text[k] # "nl"
  BY <1>2 DEF IInv, Stands
<1>5. /\ c + 1 <= pos /\ text[c] = "/" /\ text[c + 1] = "/"
      /\ Gap(text, ended, Behind + 1, c - 1)
  BY <1>4 DEF OpenComment
<1>7. c \in Nat \ {0} /\ pos \in Nat /\ pos <= Len(text) /\ Len(text) \in Nat
  BY <1>1, Stream
<1>6. /\ text'[c] = "/" /\ text'[c + 1] = "/" /\ \A k \in c..pos : text'[k] # "nl"
  <2>1. \A k \in c..pos : text'[k] = text[k]
    BY <1>1, <1>7, Stream
  <2>2. QED BY <1>4, <1>5, <1>7, <2>1
<1>8. CASE ch \in {"nl", EOF}
  <2>1. /\ pc' = "blank" /\ pos' \in Nat /\ pos <= pos' /\ pos' <= Len(text')
        /\ \A k \in c..(pos' - 1) : text'[k] # "nl"
        /\ text'[pos'] = "nl" \/ (pos' = Len(text') /\ ended')
    <3>1. CASE ch = EOF
      BY <1>1, <1>6, <1>7, <3>1, Stream DEF Take
    <3>2. CASE ch = "nl"
      <4>1. pos' = pos + 1 /\ pos + 1 <= Len(text') /\ text'[pos + 1] = "nl"
        BY <1>1, <3>2, Stream DEF Take, EOF
      <4>2. QED BY <1>1, <1>6, <1>7, <3>2, <4>1
    <3>3. QED BY <1>8, <3>1, <3>2
  <2>2. LineCommentIn(text', ended', c, pos')
    <3>1. c < pos'
      BY <1>5, <1>7, <2>1
    <3>2. QED BY <1>6, <2>1, <3>1 DEF LineCommentIn
  <2>3. Piece(text', ended', c - 1 + 1, pos') /\ c - 1 < pos'
    <3>1. c - 1 + 1 = c /\ c - 1 < pos'
      BY <1>5, <1>7, <2>1
    <3>2. QED BY <2>2, <3>1 DEF Piece
  <2>4. Gap(text', ended', Behind + 1, pos')
    BY <1>1, <1>5, <2>1, <2>3, GapContinues
  <2>5. Stands'
    BY <1>3, <2>1, <2>4 DEF Stands
  <2>6. Types'
    <3>1. pc' \in Place /\ tok' \in Token /\ prev' \in Alphabet \cup {EOF}
      BY <1>1, <1>2, <2>1, Stream DEF Place, NoToken, Token, Kind
    <3>2. QED BY <1>1, <1>3, <3>1, Stream DEF Types
  <2>7. QED BY <1>3, <2>5, <2>6 DEF IInv
<1>9. CASE ch \notin {"nl", EOF}
  <2>1. /\ pc' = "lineComment" /\ pos' = pos + 1 /\ text'[pos + 1] = ch
    BY <1>1, <1>2, <1>9, Stream DEF Take
  <2>2. \A k \in c..pos' : text'[k] # "nl"
    BY <1>6, <1>7, <1>9, <2>1
  <2>3. OpenComment(c, "/")'
    <3>1. Grows(text, ended, text', ended')
      BY <1>1, Looks DEF IInv
    <3>2. Gap(text', ended', Behind + 1, c - 1)
      BY <1>5, <3>1, GapStays
    <3>3. QED BY <1>3, <1>5, <1>6, <1>7, <2>1, <3>2 DEF OpenComment
  <2>4. c \in 1..pos'
    BY <1>7, <1>5, <2>1
  <2>5. Stands'
    BY <2>1, <2>2, <2>3, <2>4 DEF Stands
  <2>6. Types'
    <3>1. pc' \in Place /\ tok' \in Token /\ prev' \in Alphabet \cup {EOF}
      BY <1>1, <1>2, <2>1, Stream DEF Place, NoToken, Token, Kind
    <3>2. QED BY <1>1, <1>3, <3>1, Stream DEF Types
  <2>7. QED BY <1>3, <2>5, <2>6 DEF IInv
<1>10. QED BY <1>8, <1>9

\* A block comment is part of the gap at its first terminator; prev is the
\* character before the one read, so the mark that opened it closes nothing.
LEMMA BlockCommentKeeps ==
  ASSUME IInv, BlockComment
  PROVE  IInv'
<1>1. PICK ch \in Fetched :
        /\ Look(ch) /\ Take(ch) /\ Newline(ch)
        /\ pc' = IF Closes(ch) THEN "blank" ELSE pc
        /\ prev' = IF Closes(ch) THEN EOF ELSE ch
  BY DEF BlockComment
<1>2. /\ pc = "blockComment" /\ tok' = NoToken /\ UNCHANGED <<out, errors, Parser>>
  BY DEF BlockComment
<1>3. /\ TokensFollow' /\ ExpectedFollows' /\ LinesCount'
      /\ TruncatedIdentifierIsAnError' /\ Behind' = Behind
      /\ pos' \in 0..Len(text') /\ line' \in Nat \ {0}
      /\ out' \in Seq(Token) /\ errors' \in Nat /\ rewinds' \in 0..MaxRewinds
      /\ expected' = <<>> \/ expected' \in Nat \X Token
  BY <1>1, <1>2, NothingReturned
<1>4. PICK c \in 1..pos :
        /\ OpenComment(c, "*")
        /\ \A k \in (c + 3)..pos : ~(text[k - 1] = "*" /\ text[k] = "/")
        /\ prev = IF pos = c + 1 THEN EOF ELSE text[pos]
  BY <1>2 DEF IInv, Stands
<1>5. /\ c + 1 <= pos /\ text[c] = "/" /\ text[c + 1] = "*"
      /\ Gap(text, ended, Behind + 1, c - 1)
  BY <1>4 DEF OpenComment
<1>6. c \in Nat \ {0} /\ pos \in Nat /\ pos <= Len(text) /\ Len(text) \in Nat
  BY <1>1, Stream
<1>7. /\ text'[c] = "/" /\ text'[c + 1] = "*"
      /\ prev = IF pos = c + 1 THEN EOF ELSE text'[pos]
  BY <1>1, <1>4, <1>5, Stream
<1>8. \A k \in (c + 3)..pos : ~(text'[k - 1] = "*" /\ text'[k] = "/")
  <2> SUFFICES ASSUME NEW k \in (c + 3)..pos
               PROVE  ~(text'[k - 1] = "*" /\ text'[k] = "/")
    OBVIOUS
  <2>1. k - 1 \in 1..Len(text) /\ k \in 1..Len(text)
    BY <1>6
  <2>2. text'[k - 1] = text[k - 1] /\ text'[k] = text[k]
    BY <1>1, <2>1, Stream
  <2>3. QED BY <1>4, <2>2
<1>9. CASE Closes(ch)
  <2>1. /\ pos' \in Nat /\ pos <= pos' /\ pos' <= Len(text')
        /\ \A k \in (c + 3)..(pos' - 1) : ~(text'[k - 1] = "*" /\ text'[k] = "/")
        /\ \/ c + 3 <= pos' /\ text'[pos' - 1] = "*" /\ text'[pos'] = "/"
           \/ pos' = Len(text') /\ ended'
    <3>1. CASE ch = EOF
      <4>1. pos' = pos /\ pos = Len(text') /\ ended'
        BY <1>1, <3>1, Stream DEF Take
      <4>2. QED BY <1>6, <1>8, <4>1
    <3>2. CASE ch # EOF
      <4>1. prev = "*" /\ ch = "/"
        BY <1>9, <3>2 DEF Closes
      <4>2. pos' = pos + 1 /\ pos + 1 <= Len(text') /\ text'[pos + 1] = "/"
        BY <1>1, <3>2, <4>1, Stream DEF Take
      <4>3. pos # c + 1 /\ text'[pos] = "*"
        BY <1>7, <4>1 DEF EOF
      <4>4. QED BY <1>5, <1>6, <1>8, <4>2, <4>3
    <3>3. QED BY <3>1, <3>2
  <2>2. BlockCommentIn(text', ended', c, pos')
    <3>1. c < pos'
      BY <1>5, <1>6, <2>1
    <3>2. QED BY <1>7, <2>1, <3>1 DEF BlockCommentIn
  <2>3. Piece(text', ended', c - 1 + 1, pos') /\ c - 1 < pos'
    <3>1. c - 1 + 1 = c /\ c - 1 < pos'
      BY <1>5, <1>6, <2>1
    <3>2. QED BY <2>2, <3>1 DEF Piece
  <2>4. Gap(text', ended', Behind + 1, pos')
    BY <1>1, <1>5, <2>1, <2>3, GapContinues
  <2>5. pc' = "blank" /\ prev' = EOF
    BY <1>1, <1>9
  <2>6. Stands'
    BY <1>3, <2>4, <2>5 DEF Stands
  <2>7. Types'
    <3>1. pc' \in Place /\ tok' \in Token /\ prev' \in Alphabet \cup {EOF}
      BY <1>2, <2>5 DEF Place, NoToken, Token, Kind
    <3>2. QED BY <1>1, <1>3, <3>1, Stream DEF Types
  <2>8. QED BY <1>3, <2>6, <2>7 DEF IInv
<1>10. CASE ~Closes(ch)
  <2>1. /\ pc' = "blockComment" /\ prev' = ch /\ ch # EOF /\ ~(prev = "*" /\ ch = "/")
    BY <1>1, <1>2, <1>10 DEF Closes
  <2>2. pos' = pos + 1 /\ text'[pos + 1] = ch
    BY <1>1, <2>1, Stream DEF Take
  <2>3. \A k \in (c + 3)..pos' : ~(text'[k - 1] = "*" /\ text'[k] = "/")
    <3> SUFFICES ASSUME NEW k \in (c + 3)..pos'
                 PROVE  ~(text'[k - 1] = "*" /\ text'[k] = "/")
      OBVIOUS
    <3>1. CASE k \in (c + 3)..pos
      BY <1>8, <3>1
    <3>2. CASE k = pos + 1
      <4>1. pos # c + 1 /\ k - 1 = pos
        BY <1>6, <2>2, <3>2
      <4>2. QED BY <1>7, <2>1, <2>2, <3>2, <4>1
    <3>3. QED BY <1>6, <2>2, <3>1, <3>2
  <2>4. OpenComment(c, "*")'
    <3>1. Grows(text, ended, text', ended')
      BY <1>1, Looks DEF IInv
    <3>2. Gap(text', ended', Behind + 1, c - 1)
      BY <1>5, <3>1, GapStays
    <3>3. QED BY <1>3, <1>5, <1>6, <1>7, <2>2, <3>2 DEF OpenComment
  <2>5. c \in 1..pos' /\ prev' = IF pos' = c + 1 THEN EOF ELSE text'[pos']
    BY <1>5, <1>6, <2>1, <2>2
  <2>6. Stands'
    BY <2>1, <2>3, <2>4, <2>5 DEF Stands
  <2>7. Types'
    <3>1. pc' \in Place /\ tok' \in Token /\ prev' \in Alphabet \cup {EOF}
      BY <1>1, <1>2, <2>1, Stream DEF Place, NoToken, Token, Kind
    <3>2. QED BY <1>1, <1>3, <3>1, Stream DEF Types
  <2>8. QED BY <1>3, <2>6, <2>7 DEF IInv
<1>11. QED BY <1>9, <1>10

\* A step that reads one more character of a word or a number keeps the rest.
LEMMA ReadingGoesOn ==
  ASSUME IInv, NEW ch \in Fetched, Look(ch), ch # EOF, ch # "nl", Take(ch),
         Grow(ch), Reading,
         UNCHANGED <<pc, out, errors, line, prev, Parser>>,
         \/ pc = "word" /\ ch \in WordChar
         \/ pc = "number" /\ ch \in NumChar
  PROVE  IInv'
<1>1. /\ TokensFollow' /\ ExpectedFollows' /\ LinesCount'
      /\ TruncatedIdentifierIsAnError' /\ Behind' = Behind
      /\ pos' \in 0..Len(text') /\ line' \in Nat \ {0}
      /\ out' \in Seq(Token) /\ errors' \in Nat /\ rewinds' \in 0..MaxRewinds
      /\ expected' = <<>> \/ expected' \in Nat \X Token
  BY NothingReturned
<1>2. /\ Reading' /\ tok' \in Token
      /\ text'[tok'.from] = text[tok.from]
      /\ \A chars : Run(text, chars, tok.from, pos) /\ ch \in chars =>
                      Run(text', chars, tok'.from, pos')
  BY <1>1, ReadingGrows
<1>3. Stands'
  <2>1. CASE pc = "word" /\ ch \in WordChar
    <3>1. text[tok.from] \in Letter /\ Run(text, WordChar, tok.from, pos)
      BY <2>1 DEF IInv, Stands
    <3>2. pc' = "word" /\ Run(text', WordChar, tok'.from, pos')
      BY <1>2, <2>1, <3>1
    <3>3. QED BY <1>2, <3>1, <3>2 DEF Stands
  <2>2. CASE pc = "number" /\ ch \in NumChar
    <3>1. text[tok.from] \in Digit /\ Run(text, NumChar, tok.from, pos)
      BY <2>2 DEF IInv, Stands
    <3>2. pc' = "number" /\ Run(text', NumChar, tok'.from, pos')
      BY <1>2, <2>2, <3>1
    <3>3. QED BY <1>2, <3>1, <3>2 DEF Stands
  <2>3. QED BY <2>1, <2>2
<1>4. Types'
  <2>1. pc' \in Place /\ prev' \in Alphabet \cup {EOF}
    BY DEF IInv, Types
  <2>2. QED BY <1>1, <1>2, <2>1, Stream DEF Types
<1>5. QED BY <1>1, <1>3, <1>4 DEF IInv

\* A word or a number ends before ch: it is returned as a token of kind k.
LEMMA ReadingReturned ==
  ASSUME IInv, NEW ch \in Fetched, Look(ch), Unread(ch), Reading,
         NEW k \in Kind, Deliver([tok EXCEPT !.kind = k]),
         UNCHANGED <<line, prev, Parser>>,
         LexemeIn(text', ended', [tok EXCEPT !.kind = k]),
         \A i \in tok.from..pos : text[i] # "nl",
         errors' \in Nat, errors' >= errors,
         k \in {"identifier", "keyword"} /\ Truncated(tok) => errors' > errors
  PROVE  IInv'
<1> DEFINE t == [tok EXCEPT !.kind = k]
<1>1. /\ tok \in Token /\ tok.from \in 1..pos /\ tok.to = pos /\ tok.line = line
      /\ pos \in Nat /\ pos <= Len(text) /\ Len(text) \in Nat
  BY Stream DEF Reading
<1>2. /\ t.kind = k /\ t.from = tok.from /\ t.to = pos /\ t.line = line
      /\ t.value = tok.value
  BY <1>1 DEF Token
<1>3. Follows(text', ended', Behind, t)
  BY ReadingEnds
<1>4. \A i \in t.from..t.to : text'[i] # "nl"
  BY <1>1, <1>2, Stream
<1>5. pos' = pos /\ line' = line /\ prev' \in Alphabet \cup {EOF}
  BY Stream DEF Unread
<1>6. t.kind \in {"identifier", "keyword"} /\ Len(t.value) < t.to - t.from + 1
        => errors' > errors
  <2>1. Len(tok.value) < tok.to - tok.from + 1 => Truncated(tok)
    <3>1. Len(tok.value) \in Nat
      BY <1>1 DEF Token
    <3>2. QED BY <1>1, <3>1 DEF Truncated
  <2>2. QED BY <1>1, <1>2, <2>1
<1>7. Deliver(t) /\ UNCHANGED Parser
  OBVIOUS
<1> HIDE DEF t
<1>8. QED BY <1>2, <1>3, <1>4, <1>5, <1>6, <1>7, TokenReturned

\* A word ends before the first character that is none of it; one that is
\* too long is no keyword, and has logged an error.
LEMMA LexIdentifierOrKeywordKeeps ==
  ASSUME IInv, LexIdentifierOrKeyword
  PROVE  IInv'
<1>1. PICK ch \in Fetched :
        /\ Look(ch)
        /\ \/ /\ ch \in WordChar /\ Take(ch) /\ Grow(ch)
              /\ UNCHANGED <<pc, out, errors>>
           \/ /\ ch \notin WordChar /\ Unread(ch)
              /\ errors' = IF Truncated(tok) THEN errors + 1 ELSE errors
              /\ Deliver([tok EXCEPT !.kind = WordKind(tok.value)])
  BY DEF LexIdentifierOrKeyword
<1>2. pc = "word" /\ UNCHANGED <<line, prev, Parser>>
  BY DEF LexIdentifierOrKeyword
<1>3. /\ Reading /\ text[tok.from] \in Letter
      /\ Run(text, WordChar, tok.from, pos)
      /\ tok.from \in 1..pos /\ tok.to = pos /\ Stored(text, tok)
  BY <1>2 DEF IInv, Stands, Reading
<1>4. CASE ch \in WordChar
  <2>1. ch # EOF /\ ch # "nl" /\ Take(ch) /\ Grow(ch) /\ UNCHANGED <<pc, out, errors>>
    BY <1>1, <1>4, Classes
  <2>2. QED BY <1>1, <1>2, <1>3, <1>4, <2>1, ReadingGoesOn
<1>5. CASE ch \notin WordChar
  <2> DEFINE k == WordKind(tok.value)
             t == [tok EXCEPT !.kind = k]
  <2>1. /\ Unread(ch) /\ Deliver(t)
        /\ errors' = IF Truncated(tok) THEN errors + 1 ELSE errors
    BY <1>1, <1>5
  <2>2. k \in {"identifier", "keyword"} /\ k \in Kind
        /\ (k = "keyword" <=> tok.value \in Keywords)
    BY DEF WordKind, Kind
  <2>3. /\ tok \in Token /\ pos \in Nat /\ pos <= Len(text) /\ errors \in Nat
        /\ Len(text) \in Nat /\ text \in Seq(Char) /\ text' \in Seq(Char)
        /\ Len(text) <= Len(text')
        /\ \A i \in 1..Len(text) : text'[i] = text[i]
        /\ NextIn(text', pos + 1) = ch /\ (pos < Len(text') \/ ended')
    BY <1>1, Stream
  <2>4. t.kind = k /\ t.from = tok.from /\ t.to = pos
    BY <1>3, <2>3 DEF Token
  <2>5. tok.value \in Keywords <=> SubSeq(text', tok.from, pos) \in Keywords
    <3>1. SubSeq(text', tok.from, pos) = SubSeq(text, tok.from, pos)
      <4>1. /\ tok.from \in Nat \ {0} /\ pos \in Int /\ pos <= Len(text')
            /\ \A i \in 1..pos : text'[i] = text[i]
        BY <1>3, <2>3
      <4>2. QED BY <2>3, <4>1, SamePart
    <3>2. tok.to \in 0..Len(text) /\ tok.from <= tok.to + 1
      BY <1>3, <2>3
    <3>3. QED BY <1>3, <2>3, <3>1, <3>2, StoredLength
  <2>6. LexemeIn(text', ended', t)
    <3>1. t.from <= t.to /\ text'[t.from] \in Letter
      BY <1>3, <2>3, <2>4
    <3>2. Run(text', WordChar, t.from, t.to)
      BY <1>3, <2>3, <2>4 DEF Run
    <3>3. NextIn(text', t.to + 1) \notin WordChar /\ (t.to < Len(text') \/ ended')
      BY <1>5, <2>3, <2>4
    <3>4. t.kind = "keyword" <=> SubSeq(text', t.from, t.to) \in Keywords
      BY <2>2, <2>4, <2>5
    <3>5. t.kind \in {"identifier", "keyword"}
      BY <2>2, <2>4
    <3> HIDE DEF t, k
    <3>6. QED BY <3>1, <3>2, <3>3, <3>4, <3>5 DEF LexemeIn
  <2>7. \A i \in tok.from..pos : text[i] # "nl"
    BY <1>3, Classes DEF Run
  <2>8. errors' \in Nat /\ errors' >= errors /\ (Truncated(tok) => errors' > errors)
    BY <2>1, <2>3
  <2> HIDE DEF k
  <2>9. QED BY <1>1, <1>2, <1>3, <2>1, <2>2, <2>6, <2>7, <2>8, ReadingReturned
<1>6. QED BY <1>4, <1>5

\* A number ends before the first character that is none of it.
LEMMA LexNumberKeeps ==
  ASSUME IInv, LexNumber
  PROVE  IInv'
<1>1. PICK ch \in Fetched :
        /\ Look(ch)
        /\ \/ ch \in NumChar /\ Take(ch) /\ Grow(ch) /\ UNCHANGED <<pc, out>>
           \/ /\ ch \notin NumChar /\ Unread(ch)
              /\ Deliver([tok EXCEPT !.kind = "number"])
  BY DEF LexNumber
<1>2. pc = "number" /\ UNCHANGED <<line, prev, errors, Parser>>
  BY DEF LexNumber
<1>3. /\ Reading /\ text[tok.from] \in Digit /\ Run(text, NumChar, tok.from, pos)
      /\ tok.from \in 1..pos /\ tok.to = pos
  BY <1>2 DEF IInv, Stands, Reading
<1>4. \A c \in NumChar : c # EOF /\ c # "nl"
  BY Classes DEF NumChar, Digit, EOF
<1>5. CASE ch \in NumChar
  <2>1. ch # EOF /\ ch # "nl" /\ Take(ch) /\ Grow(ch) /\ UNCHANGED <<pc, out>>
    BY <1>1, <1>4, <1>5
  <2>2. QED BY <1>1, <1>2, <1>3, <1>5, <2>1, ReadingGoesOn
<1>6. CASE ch \notin NumChar
  <2> DEFINE t == [tok EXCEPT !.kind = "number"]
  <2>1. Unread(ch) /\ Deliver(t)
    BY <1>1, <1>6
  <2>2. /\ tok \in Token /\ pos \in Nat /\ pos <= Len(text) /\ errors \in Nat
        /\ Len(text) \in Nat
        /\ \A i \in 1..Len(text) : text'[i] = text[i]
        /\ NextIn(text', pos + 1) = ch /\ (pos < Len(text') \/ ended')
    BY <1>1, Stream
  <2>3. t.kind = "number" /\ t.from = tok.from /\ t.to = pos /\ "number" \in Kind
    BY <1>3, <2>2 DEF Token, Kind
  <2>4. LexemeIn(text', ended', t)
    <3>1. t.from <= t.to /\ text'[t.from] \in Digit
      BY <1>3, <2>2, <2>3
    <3>2. Run(text', NumChar, t.from, t.to)
      BY <1>3, <2>2, <2>3 DEF Run
    <3>3. NextIn(text', t.to + 1) \notin NumChar /\ (t.to < Len(text') \/ ended')
      BY <1>6, <2>2, <2>3
    <3> HIDE DEF t
    <3>4. QED BY <2>3, <3>1, <3>2, <3>3 DEF LexemeIn
  <2>5. \A i \in tok.from..pos : text[i] # "nl"
    BY <1>3, <1>4 DEF Run
  <2>6. errors' \in Nat /\ errors' >= errors
    BY <1>2, <2>2
  <2>7. QED BY <1>1, <1>2, <1>3, <2>1, <2>3, <2>4, <2>5, <2>6, ReadingReturned
<1>7. QED BY <1>5, <1>6

\* An operator takes the second character if the two form one.
LEMMA BuildOperatorTokenKeeps ==
  ASSUME IInv, BuildOperatorToken
  PROVE  IInv'
<1>1. PICK ch \in Fetched :
        /\ Look(ch)
        /\ \/ /\ tok.value \o <<ch>> \in Pairs /\ Take(ch)
              /\ Deliver([tok EXCEPT !.kind = "operator", !.to = @ + 1,
                                     !.value = Append(@, ch)])
           \/ /\ tok.value \o <<ch>> \notin Pairs /\ Unread(ch)
              /\ Deliver([tok EXCEPT !.kind = "operator"])
  BY DEF BuildOperatorToken
<1>2. pc = "operator" /\ UNCHANGED <<line, prev, errors, Parser>>
  BY DEF BuildOperatorToken
<1>3. /\ Reading /\ tok.from = pos /\ text[pos] \in Other \ {"/"}
      /\ tok.from \in 1..pos /\ tok.to = pos /\ tok.line = line
      /\ Stored(text, tok) /\ Gap(text, ended, Behind + 1, tok.from - 1)
  BY <1>2 DEF IInv, Stands, Reading
<1>4. /\ tok \in Token /\ pos \in Nat /\ pos <= Len(text) /\ errors \in Nat
      /\ Len(text) \in Nat /\ text \in Seq(Char) /\ text' \in Seq(Char)
      /\ Len(text) <= Len(text') /\ Len(text') \in Nat
      /\ \A i \in 1..Len(text) : text'[i] = text[i]
      /\ ch # EOF => ch \in Char /\ pos + 1 <= Len(text') /\ text'[pos + 1] = ch
      /\ NextIn(text', pos + 1) = ch /\ (pos < Len(text') \/ ended')
      /\ MaxValue \in Nat /\ MaxValue >= 2 /\ prev' \in Alphabet \cup {EOF}
  BY <1>1, <1>2, Stream, LexerAssumption
<1>5. text'[pos] = text[pos] /\ pos \in 1..Len(text')
  BY <1>3, <1>4
<1>6. tok.value = <<text'[pos]>>
  <2>1. tok.value = SubSeq(text, pos, pos)
    BY <1>3, <1>4 DEF Stored
  <2>2. QED BY <1>3, <1>4, <1>5, <2>1, OneCharacter
<1>7. text'[pos] # "nl"
  BY <1>3, <1>5, Classes
<1>8. CASE tok.value \o <<ch>> \in Pairs
  <2> DEFINE v == Append(tok.value, ch)
             t == [tok EXCEPT !.kind = "operator", !.to = @ + 1,
                              !.value = Append(@, ch)]
  <2>1. Take(ch) /\ Deliver(t)
    BY <1>1, <1>8
  <2>2. <<text'[pos], ch>> \in Pairs
    BY <1>6, <1>8, ConcatenatedPair
  <2>3. ch \in Other /\ ch # EOF /\ ch # "nl"
    BY <2>2, PairsAreOperators, Classes
  <2>4. pos' = pos + 1 /\ line' = line
    BY <1>2, <2>1, <2>3 DEF Take
  <2>5. v \in Seq(Char) /\ tok.to + 1 \in Nat /\ "operator" \in Kind
    BY <1>4, <2>3, AppendProperties DEF Token, Kind
  <2>6. /\ t \in Token /\ t.kind = "operator" /\ t.from = pos /\ t.to = pos + 1
        /\ t.line = line /\ t.value = v
    <3>1. /\ t.kind = "operator" /\ t.from = tok.from /\ t.to = tok.to + 1
          /\ t.line = tok.line /\ t.value = v
      BY <1>4 DEF Token
    <3>2. t \in Token
      BY <1>4, <2>5 DEF Token
    <3>3. QED BY <1>3, <3>1, <3>2
  <2> HIDE DEF t
  <2>7. LexemeIn(text', ended', t)
    <3>1. text'[t.from] = text'[pos] /\ text'[t.to] = ch /\ t.to = t.from + 1
      BY <1>4, <2>3, <2>6
    <3>2. QED BY <2>2, <2>6, <3>1 DEF LexemeIn
  <2>8. Grows(text, ended, text', ended')
    BY <1>1, Looks DEF IInv
  <2>9. Stored(text', t)
    <3>1. Stored(text', tok)
      <4>1. tok.to \in 0..Len(text)
        BY <1>3, <1>4
      <4>2. QED BY <1>3, <1>4, <2>8, <4>1, StoredStays
    <3>2. Len(tok.value) = 1
      BY <1>6
    <3>3. t.value = IF Len(tok.value) < MaxValue
                    THEN Append(tok.value, text'[t.to]) ELSE tok.value
      BY <1>4, <2>3, <2>6, <3>2
    <3>4. tok.from <= tok.to /\ tok.to + 1 <= Len(text') /\ t.from = tok.from
          /\ t.to = tok.to + 1
      BY <1>3, <1>4, <2>3, <2>6
    <3>5. QED BY <1>4, <2>6, <3>1, <3>3, <3>4, StoredGrows
  <2>10. Follows(text', ended', Behind, t)
    <3>1. Gap(text', ended', Behind + 1, t.from - 1)
      BY <1>3, <2>6, <2>8, GapStays
    <3>2. t.to \in 0..Len(text') /\ t.from <= t.to + 1
      BY <1>4, <2>3, <2>6
    <3>3. QED BY <2>6, <2>7, <2>9, <3>1, <3>2 DEF Follows
  <2>11. \A k \in t.from..t.to : text'[k] # "nl"
    BY <1>4, <1>7, <2>3, <2>6
  <2>12. /\ t.to = pos' /\ errors' \in Nat /\ errors' >= errors /\ UNCHANGED Parser
         /\ t.kind \notin {"identifier", "keyword"}
    BY <1>2, <1>4, <2>4, <2>6
  <2>13. QED BY <1>1, <1>4, <2>1, <2>3, <2>4, <2>6, <2>10, <2>11, <2>12, TokenReturned
<1>9. CASE tok.value \o <<ch>> \notin Pairs
  <2> DEFINE t == [tok EXCEPT !.kind = "operator"]
  <2>1. Unread(ch) /\ Deliver(t)
    BY <1>1, <1>9
  <2>2. t.kind = "operator" /\ t.from = pos /\ t.to = pos /\ "operator" \in Kind
    BY <1>3, <1>4 DEF Token, Kind
  <2>3. LexemeIn(text', ended', t)
    <3>1. <<text'[t.from], ch>> \notin Pairs
      BY <1>6, <1>9, <2>2, ConcatenatedPair
    <3>2. text'[t.from] \in Other /\ text'[t.from] # "/"
      BY <1>3, <1>5, <2>2
    <3>3. <<text'[t.from], ch>> \notin {<<"/", "/">>, <<"/", "*">>}
      BY <3>2
    <3>4. NextIn(text', t.to + 1) = ch /\ (t.to < Len(text') \/ ended')
      BY <1>4, <2>2
    <3> HIDE DEF t
    <3>5. QED BY <2>2, <3>1, <3>2, <3>3, <3>4 DEF LexemeIn
  <2>4. \A i \in tok.from..pos : text[i] # "nl"
    BY <1>3, <1>4, <1>5, <1>7
  <2>5. errors' \in Nat /\ errors' >= errors
    BY <1>2, <1>4
  <2>6. QED BY <1>1, <1>2, <1>3, <2>1, <2>2, <2>3, <2>4, <2>5, ReadingReturned
<1>10. QED BY <1>8, <1>9

\* The parser seeks back: the token before the last is the last again, and
\* the one made unread is what follows it in the text.
LEMMA RewindKeeps ==
  ASSUME IInv, Rewind
  PROVE  IInv'
<1>1. /\ pc = "idle" /\ rewinds < MaxRewinds /\ Len(out) >= 2
      /\ Saved.kind = "identifier"
      /\ pos' = Saved.to /\ out' = SubSeq(out, 1, Len(out) - 1)
      /\ rewinds' = rewinds + 1 /\ expected' = <<Len(out), Last>>
      /\ UNCHANGED <<text, ended, line, pc, prev, tok, errors>>
  BY DEF Rewind, Position
<1>2. /\ out \in Seq(Token) /\ Len(out) \in Nat /\ text \in Seq(Alphabet)
      /\ Len(text) \in Nat /\ pos \in 0..Len(text) /\ rewinds \in 0..MaxRewinds
      /\ MaxRewinds \in Nat /\ pos = Behind /\ line \in Nat \ {0}
      /\ DOMAIN out = 1..Len(out)
  BY <1>1, LexerAssumption DEF IInv, Types, Stands
<1> PICK n \in Nat : n = Len(out) - 1
  <2>1. Len(out) - 1 \in Nat
    BY <1>1, <1>2
  <2>2. QED BY <2>1
<1>3. /\ n \in Nat \ {0} /\ Len(out) = n + 1 /\ n \in 1..Len(out)
      /\ n + 1 \in 1..Len(out) /\ Len(out) # 1
  BY <1>1, <1>2
<1>4. /\ out' \in Seq(Token) /\ Len(out') = n /\ DOMAIN out' = 1..n
      /\ \A i \in 1..n : out'[i] = out[i]
  <2>1. out' = SubSeq(out, 1, n) /\ 1..n \subseteq 1..Len(out)
    BY <1>1, <1>2, <1>3
  <2>2. QED BY <1>2, <1>3, <2>1
<1>5. Saved = out[n] /\ Last = out[n + 1] /\ Behind = Last.to
  <2>1. Saved = out[n] /\ Last = out[n + 1]
    BY <1>3 DEF Saved, Last
  <2>2. EndBefore(Len(out) + 1) = out[Len(out)].to
    <3>1. Len(out) + 1 # 1 /\ Len(out) + 1 - 1 = Len(out)
      BY <1>2, <1>3
    <3>2. QED BY <3>1 DEF EndBefore
  <2>3. QED BY <2>1, <2>2 DEF Behind, Last
<1>6. \A i \in 1..(n + 1) : EndBefore(i)' = EndBefore(i)
  <2> SUFFICES ASSUME NEW i \in 1..(n + 1) PROVE EndBefore(i)' = EndBefore(i)
    OBVIOUS
  <2>1. CASE i = 1
    BY <2>1 DEF EndBefore
  <2>2. CASE i # 1
    <3>1. i - 1 \in 1..n
      BY <1>3, <2>2
    <3>2. out'[i - 1] = out[i - 1]
      BY <1>4, <3>1
    <3>3. QED BY <2>2, <3>2 DEF EndBefore
  <2>3. QED BY <2>1, <2>2
<1>7. EndBefore(n + 1) = Saved.to
  <2>1. n + 1 # 1 /\ n + 1 - 1 = n
    BY <1>3
  <2>2. QED BY <1>5, <2>1 DEF EndBefore
<1>8. Follows(text, ended, Saved.to, Last) /\ Last \in Token
  <2>1. Follows(text, ended, EndBefore(n + 1), out[n + 1])
    BY <1>2, <1>3 DEF IInv, TokensFollow
  <2>2. QED BY <1>5, <1>7, <2>1 DEF Follows
<1>9. Saved \in Token /\ Saved.to \in Nat /\ Saved.to <= pos
  <2>1. Saved \in Token /\ Saved.to \in Nat
    <3>1. out[n] \in Token
      BY <1>2, <1>3
    <3>2. QED BY <1>5, <3>1 DEF Token
  <2>2. Gap(text, ended, Saved.to + 1, Last.from - 1) /\ Last.from <= Last.to + 1
    BY <1>8 DEF Follows
  <2>3. Saved.to + 1 <= Last.from - 1 + 1 /\ Last.from \in Nat /\ Last.to \in Nat
    BY <1>8, <2>2 DEF Gap, Token
  <2>4. Saved.to <= Last.to
    <3>1. \A a, b, c \in Nat : a + 1 <= b - 1 + 1 /\ b <= c + 1 => a <= c
      OBVIOUS
    <3>2. QED BY <2>1, <2>2, <2>3, <3>1
  <2>5. pos = Last.to
    BY <1>2, <1>5
  <2>6. QED BY <2>1, <2>4, <2>5
<1>10. TokensFollow'
  <2>1. ASSUME NEW i \in 1..n
        PROVE  Follows(text', ended', EndBefore(i)', out'[i])
    <3>1. Follows(text, ended, EndBefore(i), out[i])
      BY <1>2, <1>3 DEF IInv, TokensFollow
    <3>2. i \in 1..(n + 1)
      BY <1>3
    <3>3. EndBefore(i)' = EndBefore(i) /\ out'[i] = out[i]
      BY <1>4, <1>6, <3>2
    <3>4. QED BY <1>1, <3>1, <3>3
  <2>2. QED BY <1>4, <2>1 DEF TokensFollow
<1>11. ExpectedFollows'
  <2>1. expected' = <<n + 1, Last>>
    BY <1>1, <1>3
  <2>2. EndBefore(expected[1])' = Saved.to
    <3>1. expected'[1] # 1 /\ expected'[1] - 1 = n
      BY <1>3, <2>1
    <3>2. out'[n] = Saved
      BY <1>3, <1>4, <1>5
    <3>3. QED BY <3>1, <3>2 DEF EndBefore
  <2>3. Follows(text', ended', Saved.to, expected'[2])
    BY <1>1, <1>8, <2>1
  <2>4. expected'[1] >= 2 /\ Len(out') >= expected'[1] - 1
    BY <1>3, <1>4, <2>1
  <2>5. QED BY <2>2, <2>3, <2>4 DEF ExpectedFollows
<1>12. Stands'
  <2>1. Behind' = Saved.to
    <3>1. Behind' = EndBefore(n + 1)'
      BY <1>4 DEF Behind
    <3>2. n + 1 \in 1..(n + 1)
      BY <1>3
    <3>3. QED BY <1>6, <1>7, <3>1, <3>2
  <2>2. QED BY <1>1, <2>1 DEF Stands
<1>13. LinesCount'
  <2>1. rewinds' \in Nat \ {0} /\ text' = text /\ line' = line
    BY <1>1, <1>2
  <2>2. Counts(text', rewinds', line', pos' + 1)
    <3>1. Counts(text, rewinds, line, pos + 1)
      BY DEF IInv, LinesCount
    <3>2. pos' + 1 \in Nat /\ pos + 1 \in Nat /\ pos' + 1 <= pos + 1 /\ line \in Nat
      BY <1>1, <1>2, <1>9
    <3>3. QED BY <2>1, <3>1, <3>2, CountsRewound
  <2>3. ASSUME NEW i \in 1..n
        PROVE  /\ Counts(text', rewinds', out'[i].line, out'[i].from)
               /\ out'[i].line <= line'
               /\ i > 1 => out'[i - 1].line <= out'[i].line
    <3>1. /\ Counts(text, rewinds, out[i].line, out[i].from)
          /\ out[i].line <= line
          /\ i > 1 => out[i - 1].line <= out[i].line
      <4>1. i \in DOMAIN out
        BY <1>2, <1>3
      <4>2. QED BY <4>1 DEF IInv, LinesCount
    <3>2. out'[i] = out[i] /\ (i > 1 => out'[i - 1] = out[i - 1])
      BY <1>3, <1>4
    <3>3. out[i].line \in Nat /\ out[i].from \in Nat
      <4>1. out[i] \in Token
        BY <1>2, <1>3
      <4>2. QED BY <4>1 DEF Token
    <3>4. Counts(text, rewinds', out[i].line, out[i].from)
      <4>1. out[i].from <= out[i].from
        BY <3>3
      <4>2. QED BY <2>1, <3>1, <3>3, <4>1, CountsRewound
    <3>5. QED BY <2>1, <3>1, <3>2, <3>4
  <2>4. QED BY <1>4, <2>2, <2>3 DEF LinesCount
<1>14. TruncatedIdentifierIsAnError'
  <2>1. \A i \in 1..n : out'[i] = out[i] /\ i \in DOMAIN out
    BY <1>2, <1>3, <1>4
  <2>2. QED BY <1>1, <1>4, <2>1 DEF IInv, TruncatedIdentifierIsAnError
<1>15. Types'
  <2>1. expected' \in Nat \X Token
    BY <1>1, <1>2, <1>8
  <2>2. pos' \in 0..Len(text') /\ rewinds' \in 0..MaxRewinds
    BY <1>1, <1>2, <1>9
  <2>3. QED BY <1>1, <1>4, <2>1, <2>2 DEF IInv, Types
<1>16. QED BY <1>10, <1>11, <1>12, <1>13, <1>14, <1>15 DEF IInv

-----------------------------------------------------------------------------
(* The theorems. *)

\* The invariant holds before the first call.
LEMMA InitEstablishes == Init => IInv
<1> SUFFICES ASSUME Init PROVE IInv
  OBVIOUS
<1>1. /\ text = <<>> /\ ended = FALSE /\ pos = 0 /\ line = 1
      /\ pc = "idle" /\ prev = EOF /\ tok = NoToken /\ out = <<>>
      /\ errors = 0 /\ rewinds = 0 /\ expected = <<>>
  BY DEF Init
<1>2. Types
  <2>1. /\ NoToken \in Token /\ "idle" \in Place
        /\ InputLen \in Nat /\ MaxRewinds \in Nat
    BY LexerAssumption DEF NoToken, Token, Kind, Place
  <2>2. /\ text \in Seq(Alphabet) /\ Len(text) = 0 /\ out \in Seq(Token)
    BY <1>1
  <2>3. /\ pos \in 0..Len(text) /\ line \in Nat \ {0} /\ errors \in Nat
        /\ ended \in BOOLEAN
    <3>1. 0 \in 0..0 /\ 1 \in Nat \ {0} /\ 0 \in Nat /\ FALSE \in BOOLEAN
      OBVIOUS
    <3>2. QED BY <1>1, <2>2, <3>1, Zenon
  <2>4. Len(text) <= InputLen /\ rewinds \in 0..MaxRewinds
    <3>1. 0 <= InputLen /\ 0 \in 0..MaxRewinds
      BY <2>1
    <3>2. QED BY <1>1, <2>2, <3>1
  <2>5. QED BY <1>1, <2>1, <2>2, <2>3, <2>4 DEF Types
<1>3. TokensFollow /\ ExpectedFollows /\ TruncatedIdentifierIsAnError
  BY <1>1 DEF TokensFollow, ExpectedFollows, TruncatedIdentifierIsAnError
<1>4. Stands
  BY <1>1 DEF Stands, Behind, EndBefore
<1>5. LinesCount
  <2>1. Newlines(text, pos + 1) = {}
    BY <1>1 DEF Newlines
  <2>2. Cardinality(Newlines(text, pos + 1)) = 0
    BY <2>1, FS_EmptySet
  <2>3. Counts(text, rewinds, line, pos + 1)
    BY <1>1, <2>2 DEF Counts
  <2>4. QED BY <1>1, <2>3 DEF LinesCount
<1>6. QED BY <1>2, <1>3, <1>4, <1>5 DEF IInv

\* Every step keeps it.
LEMMA NextKeeps == IInv /\ [Next]_vars => IInv'
<1> SUFFICES ASSUME IInv, [Next]_vars PROVE IInv'
  OBVIOUS
<1>1. CASE Call
  BY <1>1, CallKeeps
<1>2. CASE SkipWhitespace
  BY <1>2, SkipWhitespaceKeeps
<1>3. CASE CommentOrDivision
  BY <1>3, CommentOrDivisionKeeps
<1>4. CASE LineComment
  BY <1>4, LineCommentKeeps
<1>5. CASE BlockComment
  BY <1>5, BlockCommentKeeps
<1>6. CASE LexIdentifierOrKeyword
  BY <1>6, LexIdentifierOrKeywordKeeps
<1>7. CASE LexNumber
  BY <1>7, LexNumberKeeps
<1>8. CASE BuildOperatorToken
  BY <1>8, BuildOperatorTokenKeeps
<1>9. CASE Rewind
  BY <1>9, RewindKeeps
<1>10. CASE UNCHANGED vars
  <2>1. /\ UNCHANGED <<text, ended, pos, line, pc, prev, tok, out, errors>>
        /\ rewinds' = rewinds /\ expected' = expected
    BY <1>10 DEF vars
  <2>2. Behind' = Behind /\ \A i : EndBefore(i)' = EndBefore(i)
    BY <2>1 DEF Behind, EndBefore
  <2>3. Types' /\ LinesCount' /\ TruncatedIdentifierIsAnError'
    BY <2>1 DEF IInv, Types, LinesCount, TruncatedIdentifierIsAnError
  <2>4. TokensFollow' /\ ExpectedFollows'
    BY <2>1, <2>2 DEF IInv, TokensFollow, ExpectedFollows
  <2>5. Reading' = Reading /\ \A c, mark : OpenComment(c, mark)' = OpenComment(c, mark)
    BY <2>1, <2>2 DEF Reading, OpenComment
  <2>6. Stands'
    BY <2>1, <2>2, <2>5 DEF IInv, Stands
  <2>7. QED BY <2>3, <2>4, <2>6 DEF IInv
<1>11. QED BY <1>1, <1>2, <1>3, <1>4, <1>5, <1>6, <1>7, <1>8, <1>9, <1>10
           DEF Next, GetNextToken

\* The inductive invariant holds of every behaviour of the lexer.
THEOREM Invariance == Spec => []IInv
BY InitEstablishes, NextKeeps, PTL DEF Spec

\* Every variable has its type, the stream never stands behind what has been
\* read, and no token is longer than the buffer it was put together in.
THEOREM TypeCorrect == Spec => []TypeOK
<1>1. IInv => TypeOK
  <2> SUFFICES ASSUME IInv PROVE TypeOK
    OBVIOUS
  <2>1. Types /\ text \in Seq(Char)
    BY LexerAssumption DEF IInv, Types
  <2>2. \A i \in DOMAIN out : out[i].kind \in Kind /\ Len(out[i].value) <= MaxValue
    <3> SUFFICES ASSUME NEW i \in DOMAIN out
                 PROVE  out[i].kind \in Kind /\ Len(out[i].value) <= MaxValue
      OBVIOUS
    <3>1. Follows(text, ended, EndBefore(i), out[i])
      BY DEF IInv, TokensFollow
    <3>2. /\ out[i] \in Token /\ out[i].from <= out[i].to + 1
          /\ out[i].to \in 0..Len(text) /\ Stored(text, out[i])
      BY <3>1 DEF Follows
    <3>3. Len(out[i].value) <= MaxValue
      BY <2>1, <3>2, StoredLength
    <3>4. out[i].kind \in Kind
      BY <3>2 DEF Token
    <3>5. QED BY <3>3, <3>4
  <2>3. QED BY <2>1, <2>2 DEF Types, TypeOK
<1>2. QED BY <1>1, Invariance, PTL

\* The tokens cut the text into whole lexemes and what the language lets stand
\* between them, however often the parser has sought back.
THEOREM TokensAreTheCut == Spec => []TokensCutTheText
<1>1. IInv => TokensCutTheText
  <2> SUFFICES ASSUME IInv, NEW i \in DOMAIN out
               PROVE  /\ IsLexeme(out[i])
                      /\ IsGap(IF i = 1 THEN 1 ELSE out[i - 1].to + 1,
                               out[i].from - 1)
    BY DEF TokensCutTheText
  <2>1. Follows(text, ended, EndBefore(i), out[i]) /\ text \in Seq(Char)
    BY LexerAssumption DEF IInv, TokensFollow, Types
  <2>2. /\ out[i] \in Token /\ out[i].to \in 0..Len(text)
        /\ out[i].from <= out[i].to + 1 /\ LexemeIn(text, ended, out[i])
        /\ Gap(text, ended, EndBefore(i) + 1, out[i].from - 1)
    BY <2>1 DEF Follows
  <2>3. IsLexeme(out[i])
    BY <2>1, <2>2, LexemeIsLexeme
  <2>4. EndBefore(i) + 1 = IF i = 1 THEN 1 ELSE out[i - 1].to + 1
    BY DEF EndBefore
  <2>5. IsGap(EndBefore(i) + 1, out[i].from - 1)
    BY <2>1, <2>2, GapIsGap
  <2>6. QED BY <2>3, <2>4, <2>5
<1>2. QED BY <1>1, Invariance, PTL

\* The line of a token is that of its first character until the parser seeks
\* back; after that it is never smaller, and lines never decrease.
THEOREM LinesAreExact == Spec => []LinesAreExactUntilRewound
<1>1. IInv => LinesAreExactUntilRewound
  <2> SUFFICES ASSUME IInv, NEW i \in DOMAIN out
               PROVE  /\ out[i].line >= 1 + NewlinesBefore(out[i].from)
                      /\ rewinds = 0 => out[i].line = 1 + NewlinesBefore(out[i].from)
                      /\ i > 1 => out[i - 1].line <= out[i].line
    BY DEF LinesAreExactUntilRewound
  <2>1. /\ Counts(text, rewinds, out[i].line, out[i].from)
        /\ i > 1 => out[i - 1].line <= out[i].line
    BY DEF IInv, LinesCount
  <2>2. NewlinesBefore(out[i].from) = Cardinality(Newlines(text, out[i].from))
    BY DEF NewlinesBefore, Newlines
  <2>3. QED BY <2>1, <2>2 DEF Counts
<1>2. QED BY <1>1, Invariance, PTL

\* The token that a seek made unread is read again as it was, but for its line.
THEOREM RewoundTokenRepeats == Spec => []RewindRepeatsTheToken
<1>1. IInv => RewindRepeatsTheToken
  <2> SUFFICES ASSUME IInv, expected # <<>>, Len(out) >= expected[1]
               PROVE  [out[expected[1]] EXCEPT !.line = 0]
                        = [expected[2] EXCEPT !.line = 0]
    BY DEF RewindRepeatsTheToken
  <2>1. /\ expected[1] >= 2 /\ expected[1] \in Nat
        /\ Follows(text, ended, EndBefore(expected[1]), expected[2])
    BY DEF IInv, ExpectedFollows, Types
  <2>2. expected[1] \in DOMAIN out /\ text \in Seq(Char)
    BY <2>1, LexerAssumption DEF IInv, Types
  <2>3. Follows(text, ended, EndBefore(expected[1]), out[expected[1]])
    BY <2>2 DEF IInv, TokensFollow
  <2>4. QED BY <2>1, <2>2, <2>3, FollowerIsUnique
<1>2. QED BY <1>1, Invariance, PTL

\* An identifier that lost its tail has logged an error.
THEOREM TruncationIsReported == Spec => []TruncatedIdentifierIsAnError
BY Invariance, PTL DEF IInv

=============================================================================
