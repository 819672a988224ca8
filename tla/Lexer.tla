-------------------------------- MODULE Lexer --------------------------------
(***************************************************************************)
(* The lexer of gates, src/parser/token.c, and the one place where the     *)
(* parser moves the stream under it: parse_for_init.                       *)
(*                                                                         *)
(* A character class stands for the characters the lexer treats alike.     *)
(* The file is chosen one character at a time, when fgetc first reaches    *)
(* it; `text` is the part of it that has been looked at.  A step is one    *)
(* fgetc with the code that follows it, an ungetc included.  The end of    *)
(* the file and a read error are the same EOF to fgetc's callers.          *)
(***************************************************************************)
EXTENDS Integers, Sequences, FiniteSets

CONSTANTS
  Alphabet,   \* the character classes the file is made of
  Keywords,   \* the words in keywords[], as sequences of classes
  MaxValue,   \* MAX_TOKEN_VALUE_LEN
  InputLen,   \* bound on the length of the file
  MaxRewinds  \* bound on the number of times the parser seeks back

EOF     == "EOF"
Blank   == {"sp", "nl"}
Letter  == {"a", "_"}                        \* isalpha, or '_'
Digit   == {"1"}
WordChar == Letter \cup Digit
NumChar  == Digit \cup {"."}
Punctuation == {";", "("}                    \* classify_punctuation
Other   == {"/", "*", "=", "<", "&", "-", "."} \* operators and any other byte
Char    == Blank \cup WordChar \cup Punctuation \cup Other

\* The two-character operators of build_operator_token.
Pairs == {<<"=", "=">>, <<"<", "=">>, <<"<", "<">>, <<"&", "&">>, <<"-", "-">>}

ASSUME LexerAssumption ==
  /\ Alphabet \subseteq Char
  /\ MaxValue \in Nat \ 0..1        \* an operator of two characters fits
  /\ InputLen \in Nat /\ MaxRewinds \in Nat
  /\ \A word \in Keywords : word \in Seq(Letter) /\ Len(word) < MaxValue

VARIABLES
  text,       \* the characters of the file looked at so far
  ended,      \* fgetc has returned EOF after the last of them
  pos,        \* how many characters the stream has delivered
  line,       \* ctx->current_line
  pc,         \* where get_next_token stands; "idle" outside of it
  prev,       \* prev in the block comment loop
  tok,        \* the token being built
  out,        \* the tokens returned; the last is ctx->current_token
  errors,     \* errors logged by the lexer
  rewinds,    \* how often the parser has sought back
  expected    \* history: the token the last seek made unread, or <<>>

vars == <<text, ended, pos, line, pc, prev, tok, out, errors, rewinds, expected>>

Place == {"idle", "blank", "slash", "lineComment", "blockComment", "word",
          "number", "operator"}
Kind  == {"eof", "identifier", "keyword", "number", "operator", "punctuation"}

\* A token: its kind, spelling and line, and the part of the text it is from.
NoToken == [kind |-> "eof", value |-> <<>>, line |-> 1, from |-> 1, to |-> 0]

Init ==
  /\ text = <<>> /\ ended = FALSE /\ pos = 0 /\ line = 1
  /\ pc = "idle" /\ prev = EOF /\ tok = NoToken /\ out = <<>>
  /\ errors = 0 /\ rewinds = 0 /\ expected = <<>>

-----------------------------------------------------------------------------
(* The stream. *)

\* What fgetc finds: a known character, the next one of the file, or its end.
Look(ch) ==
  \/ /\ pos < Len(text) /\ ch = text[pos + 1]
     /\ UNCHANGED <<text, ended>>
  \/ /\ pos = Len(text) /\ ~ended /\ Len(text) < InputLen
     /\ ch \in Alphabet
     /\ text' = Append(text, ch) /\ UNCHANGED ended
  \/ /\ pos = Len(text) /\ ch = EOF
     /\ ended' = TRUE /\ UNCHANGED text

\* Fault: the end of the file counts as a character.
TakeEof(ch) == pos' = pos + 1
Take(ch)   == pos' = IF ch = EOF THEN pos ELSE pos + 1
\* Fault: the character read ahead is not pushed back.
Forget(ch) == Take(ch)
Unread(ch) == pos' = pos
\* Fault: line ends are counted between tokens only.
NewlineOutside(ch) ==
  line' = IF ch = "nl" /\ pc = "blank" THEN line + 1 ELSE line
Newline(ch) == line' = IF ch = "nl" THEN line + 1 ELSE line

Fetched == Alphabet \cup {EOF}

-----------------------------------------------------------------------------
(* get_next_token. *)

\* return token: the parser has it as ctx->current_token.
Deliver(t) ==
  /\ out' = Append(out, t) /\ pc' = "idle" /\ tok' = NoToken

Parser == <<rewinds, expected>>

\* advance(ctx), while the last token is not the end of the file.
Call ==
  /\ pc = "idle"
  /\ out # <<>> => out[Len(out)].kind # "eof"
  /\ pc' = "blank"
  /\ UNCHANGED <<text, ended, pos, line, prev, tok, out, errors, Parser>>

\* Where the first character of a token leads.
Start(ch) ==
  CASE ch = "/"            -> "slash"
    [] ch \in Letter       -> "word"
    [] ch \in Digit        -> "number"
    [] OTHER               -> "operator"

\* skip_whitespace, then the branches on the first other character.
SkipWhitespace ==
  /\ pc = "blank"
  /\ \E ch \in Fetched :
       LET first == [kind |-> "eof", value |-> <<ch>>, line |-> line,
                     from |-> pos + 1, to |-> pos + 1]
       IN /\ Look(ch) /\ Take(ch) /\ Newline(ch)
          /\ \/ ch \in Blank /\ UNCHANGED <<pc, tok, out>>
             \/ /\ ch = EOF
                /\ Deliver([first EXCEPT !.value = <<>>, !.to = pos])
             \/ /\ ch \in Punctuation
                /\ Deliver([first EXCEPT !.kind = "punctuation"])
             \/ /\ ch \notin Blank \cup Punctuation \cup {EOF}
                /\ pc' = Start(ch) /\ tok' = first /\ UNCHANGED out
  /\ UNCHANGED <<prev, errors, Parser>>

\* skip_comment_or_division: what follows a slash.
CommentOrDivision ==
  /\ pc = "slash"
  /\ \E ch \in Fetched :
       /\ Look(ch)
       /\ \/ ch = "/" /\ Take(ch) /\ pc' = "lineComment" /\ UNCHANGED <<tok, out>>
          \/ ch = "*" /\ Take(ch) /\ pc' = "blockComment" /\ UNCHANGED <<tok, out>>
          \/ /\ ch \notin {"/", "*"} /\ Unread(ch)
             /\ Deliver([tok EXCEPT !.kind = "operator"])
  /\ prev' = EOF
  /\ UNCHANGED <<line, errors, Parser>>

LineComment ==
  /\ pc = "lineComment"
  /\ \E ch \in Fetched :
       /\ Look(ch) /\ Take(ch) /\ Newline(ch)
       /\ pc' = IF ch \in {"nl", EOF} THEN "blank" ELSE pc
  /\ tok' = NoToken
  /\ UNCHANGED <<prev, out, errors, Parser>>

\* The loop that looks for "*/"; the end of the file ends it without an error.
\* Fault: only the terminator ends the loop.
ClosesAtMark(ch) == prev = "*" /\ ch = "/"
Closes(ch) == ch = EOF \/ (prev = "*" /\ ch = "/")

BlockComment ==
  /\ pc = "blockComment"
  /\ \E ch \in Fetched :
       /\ Look(ch) /\ Take(ch) /\ Newline(ch)
       /\ pc' = IF Closes(ch) THEN "blank" ELSE pc
       /\ prev' = IF Closes(ch) THEN EOF ELSE ch
  /\ tok' = NoToken
  /\ UNCHANGED <<out, errors, Parser>>

\* One more character of a word or a number, kept if there is room for it.
Grow(ch) ==
  tok' = [tok EXCEPT !.to = @ + 1,
                     !.value = IF Len(@) < MaxValue THEN Append(@, ch) ELSE @]

\* Fault: one character may be lost silently.
TruncatedLate(t) == t.to - t.from > Len(t.value)
Truncated(t) == t.to - t.from + 1 > Len(t.value)

WordKind(value) == IF value \in Keywords THEN "keyword" ELSE "identifier"

\* lex_identifier_or_keyword: keywords are looked up by the stored spelling.
LexIdentifierOrKeyword ==
  /\ pc = "word"
  /\ \E ch \in Fetched :
       /\ Look(ch)
       /\ \/ /\ ch \in WordChar /\ Take(ch) /\ Grow(ch)
             /\ UNCHANGED <<pc, out, errors>>
          \/ /\ ch \notin WordChar /\ Unread(ch)
             /\ errors' = IF Truncated(tok) THEN errors + 1 ELSE errors
             /\ Deliver([tok EXCEPT !.kind = WordKind(tok.value)])
  /\ UNCHANGED <<line, prev, Parser>>

\* lex_number: digits and dots; a long number loses its tail silently.
LexNumber ==
  /\ pc = "number"
  /\ \E ch \in Fetched :
       /\ Look(ch)
       /\ \/ ch \in NumChar /\ Take(ch) /\ Grow(ch) /\ UNCHANGED <<pc, out>>
          \/ /\ ch \notin NumChar /\ Unread(ch)
             /\ Deliver([tok EXCEPT !.kind = "number"])
  /\ UNCHANGED <<line, prev, errors, Parser>>

\* build_operator_token: two characters if they form an operator, else one.
BuildOperatorToken ==
  /\ pc = "operator"
  /\ \E ch \in Fetched :
       /\ Look(ch)
       /\ \/ /\ tok.value \o <<ch>> \in Pairs /\ Take(ch)
             /\ Deliver([tok EXCEPT !.kind = "operator", !.to = @ + 1,
                                    !.value = Append(@, ch)])
          \/ /\ tok.value \o <<ch>> \notin Pairs /\ Unread(ch)
             /\ Deliver([tok EXCEPT !.kind = "operator"])
  /\ UNCHANGED <<line, prev, errors, Parser>>

GetNextToken ==
  \/ SkipWhitespace \/ CommentOrDivision \/ LineComment \/ BlockComment
  \/ LexIdentifierOrKeyword \/ LexNumber \/ BuildOperatorToken

(***************************************************************************)
(* parse_for_init has read the token after an identifier, and it           *)
(* is not "=": fseek to where the stream stood after the identifier, which *)
(* is the current token again.  ctx->current_line stays.                   *)
(***************************************************************************)
Last  == out[Len(out)]
Saved == out[Len(out) - 1]
\* Fault: the position is taken after the next character.
PositionLate == Saved.to + 1
Position     == Saved.to                           \* saved_pos

Rewind ==
  /\ pc = "idle" /\ rewinds < MaxRewinds
  /\ Len(out) >= 2 /\ Saved.kind = "identifier" /\ Last.value # <<"=">>
  /\ pos' = Position
  /\ out' = SubSeq(out, 1, Len(out) - 1)
  /\ rewinds' = rewinds + 1
  /\ expected' = <<Len(out), Last>>
  /\ UNCHANGED <<text, ended, line, pc, prev, tok, errors>>

Next == Call \/ GetNextToken \/ Rewind

Spec == Init /\ [][Next]_vars

\* The lexer is sequential code: a call that can go on does.
FairSpec == Spec /\ WF_vars(GetNextToken)

-----------------------------------------------------------------------------
(* What the text says, read without the lexer. *)

Span(i, j)  == SubSeq(text, i, j)
CharAt(i)   == IF i <= Len(text) THEN text[i] ELSE EOF
NewlinesBefore(i) == Cardinality({k \in 1..(i - 1) : text[k] = "nl"})

\* i..j is a comment: it ends with the first terminator behind its opening,
\* or, never closed, with the text.
IsLineComment(i, j) ==
  /\ i < j /\ Span(i, i + 1) = <<"/", "/">>
  /\ \A k \in i..(j - 1) : text[k] # "nl"
  /\ text[j] = "nl" \/ j = Len(text)
IsBlockComment(i, j) ==
  LET ends == {k \in (i + 3)..Len(text) : Span(k - 1, k) = <<"*", "/">>}
  IN  /\ i < j /\ Span(i, i + 1) = <<"/", "*">>
      /\ \A k \in ends : j <= k
      /\ j \in ends \/ j = Len(text)

\* i..j can be cut into blanks and comments: each begins at one of the cuts and
\* ends before the next.
IsGap(i, j) ==
  \E cuts \in SUBSET (i..(j + 1)) :
    /\ {i, j + 1} \subseteq cuts
    /\ \A a, b \in cuts :
         a < b /\ (\A c \in cuts : c <= a \/ b <= c) =>
           \/ a = b - 1 /\ text[a] \in Blank
           \/ IsLineComment(a, b - 1)
           \/ IsBlockComment(a, b - 1)

\* The token is a whole lexeme: it is one, and one more character is not.
IsLexeme(t) ==
  LET lex  == Span(t.from, t.to)
      next == CharAt(t.to + 1)
  IN  CASE t.kind \in {"identifier", "keyword"} ->
             /\ lex[1] \in Letter /\ next \notin WordChar
             /\ \A i \in DOMAIN lex : lex[i] \in WordChar
             /\ t.kind = "keyword" <=> lex \in Keywords
        [] t.kind = "number" ->
             /\ lex[1] \in Digit /\ next \notin NumChar
             /\ \A i \in DOMAIN lex : lex[i] \in NumChar
        [] t.kind = "operator" ->
             \/ lex \in Pairs
             \/ /\ Len(lex) = 1 /\ lex[1] \in Other
                /\ lex \o <<next>> \notin Pairs
                /\ lex \o <<next>> \notin {<<"/", "/">>, <<"/", "*">>}
        [] t.kind = "punctuation" -> Len(lex) = 1 /\ lex[1] \in Punctuation
        [] t.kind = "eof" -> ended /\ t.from = Len(text) + 1

-----------------------------------------------------------------------------
(* Properties. *)

\* The type invariant; the stream never stands behind what it has read.
TypeOK ==
  /\ text \in Seq(Alphabet) /\ Len(text) <= InputLen
  /\ ended \in BOOLEAN /\ pos \in 0..Len(text) /\ line \in Nat \ {0}
  /\ pc \in Place /\ prev \in Alphabet \cup {EOF}
  /\ errors \in Nat /\ rewinds \in 0..MaxRewinds
  /\ \A i \in DOMAIN out : out[i].kind \in Kind /\ Len(out[i].value) <= MaxValue

\* The tokens cut the file the one way the language allows: each is the
\* longest lexeme at its place, and what lies between two of them, or before
\* the end of the file, is blanks and comments only.  So no character is lost,
\* read twice or taken over from before the seek, whatever was pushed back;
\* a read error, which is an end of the file, makes no token of its own.
TokensCutTheText ==
  \A i \in DOMAIN out :
    /\ IsLexeme(out[i])
    /\ IsGap(IF i = 1 THEN 1 ELSE out[i - 1].to + 1, out[i].from - 1)

\* The line of a token is that of its first character as long as the parser
\* has not sought back; after that it is never smaller, and never decreases.
LinesAreExactUntilRewound ==
  \A i \in DOMAIN out :
    /\ out[i].line >= 1 + NewlinesBefore(out[i].from)
    /\ rewinds = 0 => out[i].line = 1 + NewlinesBefore(out[i].from)
    /\ i > 1 => out[i - 1].line <= out[i].line

\* Seeking back is invisible but for the line: the token that was made unread
\* comes again, spelled the same and from the same place.
RewindRepeatsTheToken ==
  (expected # <<>> /\ Len(out) >= expected[1]) =>
    [out[expected[1]] EXCEPT !.line = 0] = [expected[2] EXCEPT !.line = 0]

\* An identifier that lost its tail, and so may have become another one, has
\* logged an error, which fails the compilation.
TruncatedIdentifierIsAnError ==
  (\E i \in DOMAIN out : out[i].kind \in {"identifier", "keyword"}
                          /\ Len(out[i].value) < out[i].to - out[i].from + 1)
    => errors > 0

\* Every call of the lexer returns, also inside a comment that never ends.
EveryCallReturns == (pc # "idle") ~> (pc = "idle")

=============================================================================
