---------------------------- MODULE EmissionProofs ----------------------------
(***************************************************************************)
(* The lines that code generation writes, for every tree of statements,    *)
(* and the run of the process they make.                                   *)
(***************************************************************************)
EXTENDS Process, WellFoundedInduction, TLAPS

-----------------------------------------------------------------------------
(* The text, whoever writes it by the grammar. *)

Lines  == [op : Operations, name : Names, indent : Nat]
Blocks == [kind : {"while", "if", "else"}, line : Nat]

TextTypes == text \in Seq(Lines) /\ open \in Seq(Blocks)

\* Block b is open: everything behind its first line is deeper, or a branch of
\* it; no else has been among them while its kind is "if".
BlockOpen(b) ==
  /\ open[b].line \in DOMAIN text
  /\ text[open[b].line].indent = BodyIndent + b - 1
  /\ text[open[b].line].op = IF open[b].kind = "while" THEN "while" ELSE "if"
  /\ \A l \in (open[b].line + 1)..Len(text) :
       \/ text[l].indent > BodyIndent + b - 1
       \/ /\ text[l].indent = BodyIndent + b - 1 /\ text[l].op \in Branches
          /\ open[b].kind # "while"
          /\ open[b].kind = "if" => text[l].op = "elsif"

BlocksOpen == \A b \in DOMAIN open : BlockOpen(b)

\* Every block that was begun is open or has been closed.
Accounted ==
  \A k \in DOMAIN text : text[k].op \in Openers =>
    \/ \E b \in DOMAIN open : open[b].line = k
    \/ \E i \in (k + 1)..Len(text) : text[i].op \in Closers /\ BelongsTo(i, k)

TextInv == TextTypes /\ BlocksOpen /\ Accounted /\ WellNested

\* What a line that follows by the grammar does to the lines and the blocks.
Written(op, name) ==
  /\ op \in Operations /\ name \in Names
  /\ MayFollow(op) /\ Put(op, name, IndentOf(op))

NewLine(op) == text'[Len(text) + 1].op = op
               /\ text'[Len(text) + 1].indent = IndentOf(op)

LinesStay == /\ Len(text') = Len(text) + 1
             /\ \A l \in 1..Len(text) : text'[l] = text[l]

LEMMA OpenTypes ==
  ASSUME TextTypes, NEW op, NEW name, Written(op, name)
  PROVE  /\ Len(open) \in Nat
         /\ DOMAIN open = 1..Len(open)
         /\ \A b \in DOMAIN open : open[b] \in Blocks
         /\ Len(text) \in Nat /\ DOMAIN text = 1..Len(text)
         /\ \A i \in DOMAIN text : text[i] \in Lines
         /\ IndentOf(op) \in Nat
         /\ op \in Branches \cup Closers => Len(open) > 0
<1>1. /\ Len(open) \in Nat /\ DOMAIN open = 1..Len(open)
      /\ \A b \in DOMAIN open : open[b] \in Blocks
      /\ Len(text) \in Nat /\ DOMAIN text = 1..Len(text)
      /\ \A i \in DOMAIN text : text[i] \in Lines
  BY DEF TextTypes
<1>2. open # <<>> => Len(open) > 0
  BY <1>1 DEF TextTypes
<1>3. op \in Branches \cup Closers => open # <<>>
  BY DEF Written, MayFollow, Innermost, Branches, Closers
<1> QED BY <1>1, <1>2, <1>3 DEF IndentOf, BodyIndent

LEMMA TextGrows ==
  ASSUME TextTypes, NEW op, NEW name, Written(op, name)
  PROVE  LinesStay /\ NewLine(op) /\ text' \in Seq(Lines)
<1>1. IndentOf(op) \in Nat
  BY OpenTypes
<1> DEFINE new == [op |-> op, name |-> name, indent |-> IndentOf(op)]
<1>2. new \in Lines /\ new.op = op /\ new.indent = IndentOf(op)
  BY <1>1 DEF Written, Lines
<1>3. text' = Append(text, new)
  BY DEF Written, Put
<1> HIDE DEF new
<1> QED BY <1>2, <1>3 DEF TextTypes, LinesStay, NewLine

\* Innermost is about the last element.
LEMMA InnermostIs ==
  ASSUME TextTypes, NEW kinds, Innermost(kinds)
  PROVE  /\ Len(open) \in DOMAIN open /\ Len(open) \in Nat \ {0}
         /\ open[Len(open)].kind \in kinds
BY DEF Innermost, TextTypes, Last

\* What is said of lines stays true behind further ones.
LEMMA SpansStay ==
  ASSUME LinesStay, NEW i \in 1..Len(text), NEW k \in 1..i, Len(text) \in Nat
  PROVE  /\ BelongsTo(i, k) => BelongsTo(i, k)'
         /\ InLoop(i, k) => InLoop(i, k)'
<1>1. \A l \in k..i : text'[l] = text[l]
  BY DEF LinesStay
<1>2. Spans(k, i) => Spans(k, i)'
  BY <1>1 DEF Spans
<1>3. BelongsTo(i, k) => BelongsTo(i, k)'
  <2>1. text'[i] = text[i] /\ text'[k] = text[k]
    BY <1>1
  <2> QED BY <2>1, <1>2 DEF BelongsTo
<1>4. InLoop(i, k) => InLoop(i, k)'
  BY <1>1 DEF InLoop
<1> QED BY <1>3, <1>4

\* The blocks that stay open, as they are, around a line at IndentOf(op).
LEMMA BlockStays ==
  ASSUME TextTypes, NEW op, NEW name, Written(op, name), NEW b \in DOMAIN open,
         BlockOpen(b), b \in DOMAIN open', open'[b] = open[b],
         b = Len(open) => op \notin Closers \cup {"else"}
  PROVE  BlockOpen(b)'
<1>1. LinesStay /\ NewLine(op)
  BY TextGrows
<1>2. PICK n \in Nat : n = Len(text)
  BY OpenTypes
<1>3. /\ open[b].line \in 1..n /\ b \in 1..Len(open) /\ Len(open) \in Nat
      /\ \A l \in 1..n : text[l].indent \in Nat
  BY <1>2, OpenTypes DEF BlockOpen, Lines
<1>4. \A l \in 1..n : text'[l] = text[l]
  BY <1>1, <1>2 DEF LinesStay
<1>5. \/ IndentOf(op) > BodyIndent + b - 1
      \/ /\ IndentOf(op) = BodyIndent + b - 1 /\ op \in Branches
         /\ open[b].kind # "while" /\ op = "elsif"
  <2>1. CASE op \in Branches \cup Closers
    <3>1. CASE b = Len(open)
      <4>1. op \in Branches /\ op = "elsif"
        BY <2>1, <3>1 DEF Branches, Closers
      <4>2. open[b].kind = "if"
        BY <4>1, <3>1, InnermostIs DEF Written, MayFollow
      <4> QED BY <4>1, <4>2, <3>1, <1>3 DEF IndentOf, BodyIndent
    <3>2. CASE b < Len(open)
      BY <3>2, <2>1, <1>3 DEF IndentOf, BodyIndent
    <3> QED BY <3>1, <3>2, <1>3
  <2>2. CASE op \notin Branches \cup Closers
    BY <2>2, <1>3 DEF IndentOf, BodyIndent
  <2> QED BY <2>1, <2>2
<1>6. ASSUME NEW l \in (open[b].line + 1)..(n + 1)
      PROVE  \/ text'[l].indent > BodyIndent + b - 1
             \/ /\ text'[l].indent = BodyIndent + b - 1 /\ text'[l].op \in Branches
                /\ open[b].kind # "while"
                /\ open[b].kind = "if" => text'[l].op = "elsif"
  <2>1. CASE l = n + 1
    BY <2>1, <1>5, <1>1, <1>2 DEF NewLine
  <2>2. CASE l # n + 1
    <3>1. l \in 1..n /\ l \in (open[b].line + 1)..Len(text)
      BY <2>2, <1>3, <1>2
    <3> QED BY <3>1, <1>4 DEF BlockOpen
  <2> QED BY <2>1, <2>2
<1>7. Len(text') = n + 1 /\ DOMAIN text' = 1..(n + 1)
  BY <1>1, <1>2, TextGrows DEF LinesStay
<1>8. /\ open[b].line \in DOMAIN text'
      /\ text'[open[b].line].indent = BodyIndent + b - 1
      /\ text'[open[b].line].op = IF open[b].kind = "while" THEN "while" ELSE "if"
  <2>1. open[b].line \in 1..(n + 1)
    BY <1>3
  <2> QED BY <2>1, <1>3, <1>4, <1>7 DEF BlockOpen
<1> QED BY <1>6, <1>7, <1>8 DEF BlockOpen

\* The block that a line opens, or turns to its else.
LEMMA NewBlock ==
  ASSUME TextTypes, NEW op \in Openers, NEW name, Written(op, name)
  PROVE  /\ Len(open') = Len(open) + 1
         /\ \A b \in DOMAIN open : open'[b] = open[b]
         /\ open'[Len(open) + 1] = Block(op, Len(text) + 1)
         /\ open' \in Seq(Blocks)
         /\ \A b : b = Len(open) + 1 => BlockOpen(b)'
<1> DEFINE new == Block(op, Len(text) + 1)
<1>1. new \in Blocks /\ new.kind = op /\ new.line = Len(text) + 1
  BY OpenTypes DEF Block, Blocks, Openers
<1>a. op \notin Closers /\ op \notin Branches /\ op # "else"
  BY DEF Openers, Closers, Branches
<1>2. open' = Append(open, new)
  <2>1. open' = OpenBehind(op)
    BY DEF Written, Put
  <2> QED BY <2>1, <1>a DEF OpenBehind
<1> HIDE DEF new
<1>3. /\ Len(open') = Len(open) + 1 /\ open' \in Seq(Blocks)
      /\ \A b \in DOMAIN open : open'[b] = open[b]
      /\ open'[Len(open) + 1] = new
  BY <1>1, <1>2 DEF TextTypes
<1>4. LinesStay /\ NewLine(op) /\ text' \in Seq(Lines)
  BY TextGrows
<1>5. PICK n \in Nat : n = Len(text)
  BY OpenTypes
<1>6. Len(text') = n + 1 /\ DOMAIN text' = 1..(n + 1)
  BY <1>4, <1>5 DEF LinesStay
<1>7. IndentOf(op) = BodyIndent + (Len(open) + 1) - 1
  <2>1. Len(open) \in Nat
    BY OpenTypes
  <2> QED BY <2>1, <1>a DEF IndentOf, BodyIndent
<1>8. op = IF new.kind = "while" THEN "while" ELSE "if"
  BY <1>1 DEF Openers
<1>9. ASSUME NEW b, b = Len(open) + 1
      PROVE  BlockOpen(b)'
  <2>1. /\ open'[Len(open) + 1].line = n + 1 /\ n + 1 \in DOMAIN text'
        /\ text'[n + 1].op = op
        /\ text'[n + 1].indent = BodyIndent + (Len(open) + 1) - 1
    BY <1>3, <1>1, <1>4, <1>5, <1>6, <1>7 DEF NewLine
  <2>2. open'[Len(open) + 1].kind = op
    BY <1>3, <1>1
  <2>3. op = IF op = "while" THEN "while" ELSE "if"
    BY DEF Openers
  <2>4. \A l \in ((n + 1) + 1)..Len(text') : FALSE
    BY <1>6
  <2> HIDE DEF Written
  <2> QED BY <1>9, <2>1, <2>2, <2>3, <2>4 DEF BlockOpen
<1> QED BY <1>3, <1>9 DEF new

LEMMA ElseBlock ==
  ASSUME TextTypes, NEW name, Written("else", name), BlocksOpen
  PROVE  /\ Len(open') = Len(open) /\ open' \in Seq(Blocks)
         /\ \A b \in DOMAIN open : b < Len(open) => open'[b] = open[b]
         /\ open'[Len(open)].line = open[Len(open)].line
         /\ open'[Len(open)].kind = "else"
         /\ \A b : b = Len(open) => BlockOpen(b)'
<1>0. "else" \in Branches /\ "else" \notin Openers /\ "else" \notin Closers
  BY DEF Branches, Openers, Closers
<1>1. PICK n \in Nat \ {0} : n = Len(open)
  BY OpenTypes, <1>0
<1>2. /\ n \in DOMAIN open /\ open[n].kind = "if" /\ BlockOpen(n)
      /\ DOMAIN open = 1..n
  <2>1. Innermost({"if"})
    BY <1>0 DEF Written, MayFollow
  <2>2. Len(open) \in DOMAIN open /\ open[Len(open)].kind \in {"if"}
    BY <2>1, InnermostIs
  <2>3. DOMAIN open = 1..Len(open)
    BY OpenTypes
  <2> QED BY <1>1, <2>2, <2>3 DEF BlocksOpen
<1> DEFINE new == [open[n] EXCEPT !.kind = "else"]
<1>3. open' = [open EXCEPT ![n] = new]
  <2>1. open' = OpenBehind("else")
    BY DEF Written, Put
  <2> QED BY <2>1, <1>0, <1>1 DEF OpenBehind
<1>4. new \in Blocks /\ new.line = open[n].line /\ new.kind = "else"
  BY <1>2, OpenTypes DEF Blocks
<1> HIDE DEF new
<1>5. /\ Len(open') = n /\ open' \in Seq(Blocks)
      /\ \A b \in DOMAIN open : b < n => open'[b] = open[b]
      /\ open'[n] = new
  BY <1>1, <1>2, <1>3, <1>4 DEF TextTypes
<1>6. open'[n].line = open[n].line /\ open'[n].kind = "else"
  BY <1>5, <1>4
<1>7. LinesStay /\ NewLine("else") /\ text' \in Seq(Lines)
  BY TextGrows
<1>8. PICK m \in Nat : m = Len(text)
  BY OpenTypes
<1>9. IndentOf("else") = BodyIndent + n - 1
  BY <1>0, <1>1 DEF IndentOf, BodyIndent
<1>10. /\ Len(text') = m + 1 /\ DOMAIN text' = 1..(m + 1) /\ open[n].line \in 1..m
       /\ \A l \in 1..m : text'[l] = text[l]
  BY <1>2, <1>7, <1>8, OpenTypes DEF LinesStay, BlockOpen
<1>11. ASSUME NEW l \in (open[n].line + 1)..(m + 1)
       PROVE  \/ text'[l].indent > BodyIndent + n - 1
              \/ text'[l].indent = BodyIndent + n - 1 /\ text'[l].op \in Branches
  <2>1. CASE l = m + 1
    BY <2>1, <1>9, <1>7, <1>8, <1>0 DEF NewLine
  <2>2. CASE l # m + 1
    <3>1. l \in 1..m /\ l \in (open[n].line + 1)..Len(text)
      BY <2>2, <1>10, <1>8
    <3> QED BY <3>1, <1>10, <1>2 DEF BlockOpen
  <2> QED BY <2>1, <2>2
<1>12. ASSUME NEW b, b = Len(open)
       PROVE  BlockOpen(b)'
  <2>1. /\ open[n].line \in DOMAIN text'
        /\ text'[open[n].line].indent = BodyIndent + n - 1
        /\ text'[open[n].line].op = "if"
    BY <1>10, <1>2 DEF BlockOpen
  <2>2. "else" # "while" /\ "else" # "if"
    OBVIOUS
  <2>3. b = n
    BY <1>12, <1>1
  <2> HIDE DEF Written
  <2> QED BY <2>1, <2>2, <2>3, <1>6, <1>10, <1>11 DEF BlockOpen
<1> QED BY <1>5, <1>6, <1>12, <1>1

LEMMA ClosedBlock ==
  ASSUME TextTypes, NEW op \in Closers, NEW name, Written(op, name)
  PROVE  /\ Len(open') = Len(open) - 1 /\ open' \in Seq(Blocks)
         /\ Len(open) \in DOMAIN open
         /\ \A b \in DOMAIN open : b < Len(open) => open'[b] = open[b]
<1>0. op \notin Openers /\ op # "else" /\ op \in Branches \cup Closers
  BY DEF Openers, Closers
<1>1. open' = Front(open)
  <2>1. open' = OpenBehind(op)
    BY DEF Written, Put
  <2> QED BY <2>1, <1>0 DEF OpenBehind
<1>2. PICK n \in Nat : n = Len(open) /\ n > 0 /\ DOMAIN open = 1..n
  BY <1>0, OpenTypes
<1>3. /\ Len(open') = n - 1 /\ open' \in Seq(Blocks)
      /\ \A b \in DOMAIN open : b < n => open'[b] = open[b]
  BY <1>1, <1>2 DEF Front, TextTypes
<1> QED BY <1>2, <1>3

LEMMA OtherBlocks ==
  ASSUME NEW op, NEW name, Written(op, name), op \notin Openers \cup Closers \cup {"else"}
  PROVE  open' = open
BY DEF Written, Put, OpenBehind

\* The blocks that are open behind the line are as BlocksOpen says.
LEMMA BlocksOpenStep ==
  ASSUME TextTypes, BlocksOpen, NEW op, NEW name, Written(op, name)
  PROVE  TextTypes' /\ BlocksOpen'
<1>1. text' \in Seq(Lines)
  BY TextGrows
<1>2. Len(open) \in Nat /\ DOMAIN open = 1..Len(open)
  BY OpenTypes
<1>3. CASE op \in Openers
  <2>1. /\ open' \in Seq(Blocks) /\ Len(open') = Len(open) + 1
        /\ \A b \in DOMAIN open : open'[b] = open[b]
        /\ \A b : b = Len(open) + 1 => BlockOpen(b)'
    BY <1>3, NewBlock
  <2>2. DOMAIN open' = 1..(Len(open) + 1)
    BY <2>1
  <2>3. op \notin Closers \cup {"else"}
    BY <1>3 DEF Openers, Closers
  <2>4. ASSUME NEW b \in DOMAIN open' PROVE BlockOpen(b)'
    <3>1. CASE b \in DOMAIN open
      <4>1. BlockOpen(b) /\ open'[b] = open[b]
        BY <3>1, <2>1 DEF BlocksOpen
      <4> QED BY <3>1, <4>1, <2>3, BlockStays
    <3>2. CASE b \notin DOMAIN open
      BY <3>2, <1>2, <2>1, <2>2
    <3> QED BY <3>1, <3>2
  <2> QED BY <1>1, <2>1, <2>4 DEF TextTypes, BlocksOpen
<1>4. CASE op \in Closers
  <2>1. /\ Len(open') = Len(open) - 1 /\ open' \in Seq(Blocks)
        /\ Len(open) \in DOMAIN open
        /\ \A b \in DOMAIN open : b < Len(open) => open'[b] = open[b]
    BY <1>4, ClosedBlock
  <2>2. ASSUME NEW b \in DOMAIN open' PROVE BlockOpen(b)'
    <3>1. b \in DOMAIN open /\ b < Len(open)
      BY <2>1, <1>2
    <3>2. BlockOpen(b) /\ open'[b] = open[b]
      BY <3>1, <2>1 DEF BlocksOpen
    <3> QED BY <3>1, <3>2, BlockStays
  <2> QED BY <1>1, <2>1, <2>2 DEF TextTypes, BlocksOpen
<1>5. CASE op = "else"
  <2>1. /\ Len(open') = Len(open) /\ open' \in Seq(Blocks)
        /\ \A b \in DOMAIN open : b < Len(open) => open'[b] = open[b]
        /\ \A b : b = Len(open) => BlockOpen(b)'
    BY <1>5, ElseBlock
  <2>2. ASSUME NEW b \in DOMAIN open' PROVE BlockOpen(b)'
    <3>1. CASE b < Len(open)
      <4>1. b \in DOMAIN open
        BY <2>1, <1>2, <3>1
      <4>2. BlockOpen(b) /\ open'[b] = open[b]
        BY <4>1, <3>1, <2>1 DEF BlocksOpen
      <4> QED BY <3>1, <4>1, <4>2, BlockStays
    <3>2. CASE ~(b < Len(open))
      BY <3>2, <1>2, <2>1
    <3> QED BY <3>1, <3>2
  <2> QED BY <1>1, <2>1, <2>2 DEF TextTypes, BlocksOpen
<1>6. CASE op \notin Openers \cup Closers \cup {"else"}
  <2>1. open' = open
    BY <1>6, OtherBlocks
  <2>2. ASSUME NEW b \in DOMAIN open' PROVE BlockOpen(b)'
    <3>1. BlockOpen(b) /\ b \in DOMAIN open /\ open'[b] = open[b]
      BY <2>1 DEF BlocksOpen
    <3> QED BY <3>1, <1>6, BlockStays
  <2> QED BY <1>1, <2>1, <2>2 DEF TextTypes, BlocksOpen
<1> QED BY <1>3, <1>4, <1>5, <1>6

\* A line that ends or continues a block belongs to the innermost.
LEMMA NewBelongs ==
  ASSUME TextTypes, BlocksOpen, NEW op \in Closers \cup Branches, NEW name,
         Written(op, name), NEW i, i = Len(text) + 1
  PROVE  /\ Len(open) \in DOMAIN open
         /\ open[Len(open)].line \in 1..(i - 1)
         /\ \A k : k = open[Len(open)].line => BelongsTo(i, k)'
<1>1. PICK n \in Nat \ {0} : n = Len(open)
  BY OpenTypes
<1>2. PICK m \in Nat : m = Len(text)
  BY OpenTypes
<1>3. DOMAIN open = 1..n /\ n \in DOMAIN open /\ BlockOpen(n) /\ i = m + 1
      /\ DOMAIN text = 1..m
  BY <1>1, <1>2, OpenTypes DEF BlocksOpen
<1>4. LinesStay /\ NewLine(op)
  BY TextGrows
<1>5. IndentOf(op) = BodyIndent + n - 1
  BY <1>1 DEF IndentOf, BodyIndent
<1>6. open[n].kind = "while" <=> op = "end loop"
  <2>1. CASE op \in Branches
    <3>1. Innermost({"if"})
      BY <2>1 DEF Written, MayFollow
    <3>2. open[n].kind \in {"if"}
      BY <3>1, <1>1, InnermostIs
    <3> QED BY <3>2, <2>1 DEF Branches
  <2>2. CASE op = "end if"
    <3>1. Innermost({"if", "else"})
      BY <2>2 DEF Written, MayFollow
    <3>2. open[n].kind \in {"if", "else"}
      BY <3>1, <1>1, InnermostIs
    <3> QED BY <3>2, <2>2
  <2>3. CASE op = "end loop"
    <3>1. Innermost({"while"})
      BY <2>3 DEF Written, MayFollow
    <3>2. open[n].kind \in {"while"}
      BY <3>1, <1>1, InnermostIs
    <3> QED BY <3>2, <2>3
  <2> QED BY <2>1, <2>2, <2>3 DEF Closers
<1>7. /\ open[n].line \in 1..m
      /\ text[open[n].line].indent = BodyIndent + n - 1
      /\ text[open[n].line].op = IF open[n].kind = "while" THEN "while" ELSE "if"
      /\ \A l \in (open[n].line + 1)..m :
           \/ text[l].indent > BodyIndent + n - 1
           \/ text[l].indent = BodyIndent + n - 1 /\ text[l].op \in Branches
  BY <1>2, <1>3 DEF BlockOpen
<1>8. \A l \in 1..m : text'[l] = text[l]
  BY <1>2, <1>4 DEF LinesStay
<1>9. text'[i].op = op /\ text'[i].indent = BodyIndent + n - 1
  BY <1>2, <1>3, <1>4, <1>5 DEF NewLine
<1>10. ASSUME NEW k, k = open[n].line
       PROVE  BelongsTo(i, k)'
  <2>1. text'[k] = text[k] /\ text[k].op \in Openers /\ k \in 1..m
    BY <1>10, <1>7, <1>8 DEF Openers
  <2>2. \A l \in (k + 1)..(i - 1) : l \in (k + 1)..m /\ text'[l] = text[l]
    BY <2>1, <1>8, <1>3
  <2>3. text[k].indent = BodyIndent + n - 1
    BY <1>10, <1>7
  <2>4. Spans(k, i)'
    BY <2>1, <2>2, <2>3, <1>9, <1>7, <1>10 DEF Spans
  <2>5. text[k].op = "while" <=> op = "end loop"
    BY <1>6, <1>7, <1>10
  <2> QED BY <2>1, <2>4, <2>5, <1>9 DEF BelongsTo
<1> QED BY <1>1, <1>3, <1>7, <1>10

\* A jump has an open loop around it.
LEMMA NewInLoop ==
  ASSUME TextTypes, BlocksOpen, NEW op \in Jumps, NEW name,
         Written(op, name), NEW i, i = Len(text) + 1
  PROVE  \E k \in 1..(i - 1) : InLoop(i, k)'
<1>1. PICK m \in Nat : m = Len(text) /\ DOMAIN text = 1..m
  BY OpenTypes
<1>2. PICK b \in DOMAIN open : open[b].kind = "while"
  BY DEF Written, MayFollow
<1>3. BlockOpen(b) /\ b \in 1..Len(open) /\ Len(open) \in Nat
  BY OpenTypes DEF BlocksOpen
<1>4. PICK k : k = open[b].line
  OBVIOUS
<1>5. /\ k \in 1..m /\ text[k].op = "while" /\ text[k].indent = BodyIndent + b - 1
      /\ \A l \in (k + 1)..m : text[l].indent > BodyIndent + b - 1
  BY <1>1, <1>2, <1>3, <1>4 DEF BlockOpen
<1>6. LinesStay /\ NewLine(op)
  BY TextGrows
<1>7. IndentOf(op) = BodyIndent + Len(open)
  <2>1. op \notin Branches \cup Closers
    BY DEF Jumps, Branches, Closers
  <2> QED BY <2>1, <1>3 DEF IndentOf, BodyIndent
<1>8. \A l \in 1..m : text'[l] = text[l]
  BY <1>1, <1>6 DEF LinesStay
<1>9. text'[m + 1].indent > BodyIndent + b - 1
  BY <1>1, <1>3, <1>6, <1>7 DEF NewLine, BodyIndent
<1>10. ASSUME NEW l \in (k + 1)..i
       PROVE  text'[l].indent > BodyIndent + b - 1
  <2>1. l = m + 1 \/ (l \in (k + 1)..m /\ l \in 1..m)
    <3>1. i = m + 1
      BY <1>1
    <3> QED BY <3>1, <1>1, <1>5, <1>10
  <2> QED BY <2>1, <1>5, <1>8, <1>9
<1>11. text'[k] = text[k]
  BY <1>5, <1>8
<1>12. InLoop(i, k)'
  BY <1>5, <1>10, <1>11 DEF InLoop
<1> QED BY <1>12, <1>5, <1>1

LEMMA WellNestedStep ==
  ASSUME TextInv, NEW op, NEW name, Written(op, name)
  PROVE  WellNested'
<1>0. TextTypes /\ BlocksOpen /\ WellNested
  BY DEF TextInv
<1>1. PICK m \in Nat : m = Len(text) /\ DOMAIN text = 1..m
  BY <1>0, OpenTypes
<1>2. LinesStay /\ NewLine(op) /\ text' \in Seq(Lines)
  BY <1>0, TextGrows
<1>3. DOMAIN text' = 1..(m + 1) /\ \A l \in 1..m : text'[l] = text[l]
  BY <1>1, <1>2 DEF LinesStay
<1>4. text'[m + 1].op = op /\ text'[m + 1].indent = IndentOf(op)
  BY <1>1, <1>2 DEF NewLine
<1>5. ASSUME NEW i \in DOMAIN text', text'[i].op \in Closers \cup Branches
      PROVE  \E k \in 1..(i - 1) : BelongsTo(i, k)'
  <2>1. CASE i \in 1..m
    <3>1. PICK k \in 1..(i - 1) : BelongsTo(i, k)
      BY <2>1, <1>0, <1>1, <1>3, <1>5 DEF WellNested
    <3>2. k \in 1..i
      BY <3>1, <2>1
    <3> QED BY <3>1, <3>2, <2>1, <1>1, <1>2, SpansStay
  <2>2. CASE i = m + 1
    <3>1. op \in Closers \cup Branches /\ i = Len(text) + 1
      BY <2>2, <1>4, <1>5, <1>1
    <3>2. PICK k : k = open[Len(open)].line
      OBVIOUS
    <3>3. k \in 1..(i - 1) /\ BelongsTo(i, k)'
      BY <3>1, <3>2, <1>0, NewBelongs
    <3> QED BY <3>3
  <2> QED BY <2>1, <2>2, <1>3
<1>6. ASSUME NEW i \in DOMAIN text', text'[i].op \in Jumps
      PROVE  \E k \in 1..(i - 1) : InLoop(i, k)'
  <2>1. CASE i \in 1..m
    <3>1. PICK k \in 1..(i - 1) : InLoop(i, k)
      BY <2>1, <1>0, <1>1, <1>3, <1>6 DEF WellNested
    <3>2. k \in 1..i
      BY <3>1, <2>1
    <3> QED BY <3>1, <3>2, <2>1, <1>1, <1>2, SpansStay
  <2>2. CASE i = m + 1
    <3>1. op \in Jumps /\ i = Len(text) + 1
      BY <2>2, <1>4, <1>6, <1>1
    <3> QED BY <3>1, <1>0, NewInLoop
  <2> QED BY <2>1, <2>2, <1>3
<1>7. ASSUME NEW i \in DOMAIN text', NEW j \in DOMAIN text',
             i < j, text'[i].op = "else", text'[j].op \in Branches,
             text'[i].indent = text'[j].indent
      PROVE  \E l \in (i + 1)..(j - 1) :
               text'[l].indent <= text'[i].indent /\ text'[l].op \notin Branches
  <2>1. i \in 1..m /\ text'[i] = text[i]
    BY <1>3, <1>7
  <2>2. \A l \in (i + 1)..(j - 1) : text'[l] = text[l]
    BY <1>3, <1>7
  <2>3. CASE j \in 1..m
    BY <2>1, <2>2, <2>3, <1>0, <1>1, <1>3, <1>7 DEF WellNested
  <2>4. CASE j = m + 1
    <3>1. op \in Branches /\ text[i].indent = IndentOf(op) /\ text[i].op = "else"
      BY <2>1, <2>4, <1>4, <1>7
    <3>2. Innermost({"if"})
      BY <3>1 DEF Written, MayFollow
    <3>3. PICK n \in Nat \ {0} : n = Len(open) /\ n \in DOMAIN open
      BY <3>2, <1>0, InnermostIs
    <3>4. open[n].kind = "if" /\ BlockOpen(n)
      BY <3>2, <3>3, <1>0, InnermostIs DEF BlocksOpen
    <3>5. IndentOf(op) = BodyIndent + n - 1
      BY <3>1, <3>3 DEF IndentOf, BodyIndent
    <3>6. PICK k : k = open[n].line
      OBVIOUS
    <3>7. /\ k \in 1..m /\ text[k].op = "if" /\ text[k].indent = text[i].indent
          /\ i \notin (k + 1)..m
      BY <3>1, <3>4, <3>5, <3>6, <1>1 DEF BlockOpen, BodyIndent
    <3>8. k # i
      BY <3>1, <3>7
    <3>9. k \in (i + 1)..(j - 1)
      BY <3>7, <3>8, <2>1, <2>4
    <3>10. text[i].indent \in Nat
      BY <2>1, <1>0, <1>1, OpenTypes DEF Lines
    <3> QED BY <3>7, <3>9, <3>10, <2>1, <2>2 DEF Branches
  <2> QED BY <2>3, <2>4, <1>3
<1> QED BY <1>5, <1>6, <1>7 DEF WellNested

LEMMA AccountedStep ==
  ASSUME TextInv, NEW op, NEW name, Written(op, name)
  PROVE  Accounted'
<1>0. TextTypes /\ BlocksOpen /\ Accounted
  BY DEF TextInv
<1>1. PICK m \in Nat : m = Len(text) /\ DOMAIN text = 1..m
  BY <1>0, OpenTypes
<1>2. LinesStay /\ NewLine(op) /\ text' \in Seq(Lines)
  BY <1>0, TextGrows
<1>3. /\ DOMAIN text' = 1..(m + 1) /\ Len(text') = m + 1
      /\ \A l \in 1..m : text'[l] = text[l]
  BY <1>1, <1>2 DEF LinesStay
<1>4. text'[m + 1].op = op
  BY <1>1, <1>2 DEF NewLine
<1>5. Len(open) \in Nat /\ DOMAIN open = 1..Len(open)
  BY <1>0, OpenTypes
<1> SUFFICES ASSUME NEW k \in DOMAIN text', text'[k].op \in Openers
             PROVE  \/ \E b \in DOMAIN open' : open'[b].line = k
                    \/ \E i \in (k + 1)..Len(text') :
                         text'[i].op \in Closers /\ BelongsTo(i, k)'
  BY DEF Accounted
<1>6. CASE k = m + 1
  <2>1. /\ Len(open') = Len(open) + 1 /\ open' \in Seq(Blocks)
        /\ open'[Len(open) + 1] = Block(op, Len(text) + 1)
    BY <1>6, <1>4, <1>0, NewBlock
  <2>2. open'[Len(open) + 1].line = k
    BY <2>1, <1>6, <1>1 DEF Block
  <2> QED BY <2>1, <2>2, <1>5
<1>7. CASE k \in 1..m /\ \E b \in DOMAIN open : open[b].line = k
  <2>1. PICK b \in DOMAIN open : open[b].line = k
    BY <1>7
  <2>2. CASE op \in Closers /\ b = Len(open)
    <3>1. PICK i : i = Len(text) + 1
      OBVIOUS
    <3>2. op \in Closers \cup Branches
      BY <2>2
    <3>3. \A h : h = open[Len(open)].line => BelongsTo(i, h)'
      BY <3>1, <3>2, <1>0, NewBelongs
    <3>4. BelongsTo(i, k)'
      BY <3>3, <2>1, <2>2
    <3> QED BY <3>1, <3>4, <1>1, <1>3, <1>4, <1>7, <2>2
  <2>3. CASE op \in Closers /\ b # Len(open)
    <3>1. /\ Len(open') = Len(open) - 1 /\ open' \in Seq(Blocks)
          /\ \A c \in DOMAIN open : c < Len(open) => open'[c] = open[c]
      BY <2>3, <1>0, ClosedBlock
    <3>2. b \in DOMAIN open' /\ open'[b] = open[b]
      BY <3>1, <2>3, <1>5
    <3> QED BY <3>2, <2>1
  <2>4. CASE op \in Openers
    <3>1. /\ Len(open') = Len(open) + 1 /\ open' \in Seq(Blocks)
          /\ \A c \in DOMAIN open : open'[c] = open[c]
      BY <2>4, <1>0, NewBlock
    <3>2. b \in DOMAIN open' /\ open'[b] = open[b]
      BY <3>1, <1>5
    <3> QED BY <3>2, <2>1
  <2>5. CASE op = "else"
    <3>1. /\ Len(open') = Len(open) /\ open' \in Seq(Blocks)
          /\ \A c \in DOMAIN open : c < Len(open) => open'[c] = open[c]
          /\ open'[Len(open)].line = open[Len(open)].line
      BY <2>5, <1>0, ElseBlock
    <3>2. b \in DOMAIN open' /\ open'[b].line = open[b].line
      BY <3>1, <1>5
    <3> QED BY <3>2, <2>1
  <2>6. CASE op \notin Openers \cup Closers \cup {"else"}
    BY <2>6, <2>1, OtherBlocks
  <2> QED BY <2>2, <2>3, <2>4, <2>5, <2>6
<1>8. CASE k \in 1..m /\ \E i \in (k + 1)..Len(text) :
                            text[i].op \in Closers /\ BelongsTo(i, k)
  <2>1. PICK i \in (k + 1)..Len(text) : text[i].op \in Closers /\ BelongsTo(i, k)
    BY <1>8
  <2>2. i \in 1..Len(text) /\ k \in 1..i
    BY <2>1, <1>8, <1>1
  <2>3. BelongsTo(i, k)'
    BY <2>1, <2>2, <1>1, <1>2, SpansStay
  <2>4. text'[i].op \in Closers /\ i \in (k + 1)..Len(text')
    BY <2>1, <2>2, <1>1, <1>3
  <2> QED BY <2>3, <2>4
<1> QED BY <1>0, <1>1, <1>3, <1>6, <1>7, <1>8 DEF Accounted

LEMMA TextStep ==
  ASSUME TextInv, WriteLine
  PROVE  TextInv'
<1>1. PICK op \in Operations, name \in Names :
        MayFollow(op) /\ Put(op, name, IndentOf(op))
  BY DEF WriteLine
<1>2. Written(op, name)
  BY <1>1 DEF Written
<1>3. TextTypes /\ BlocksOpen
  BY DEF TextInv
<1> QED BY <1>2, <1>3, BlocksOpenStep, AccountedStep, WellNestedStep DEF TextInv

LEMMA TextStutters == TextInv /\ UNCHANGED <<text, open>> => TextInv'
<1> SUFFICES ASSUME TextInv, text' = text, open' = open PROVE TextInv'
  OBVIOUS
<1>1. TextTypes' /\ BlocksOpen'
  BY DEF TextInv, TextTypes, BlocksOpen, BlockOpen
<1>2. \A i, k : (BelongsTo(i, k)' <=> BelongsTo(i, k)) /\ (InLoop(i, k)' <=> InLoop(i, k))
  BY DEF BelongsTo, Spans, InLoop
<1>3. Accounted'
  BY <1>2 DEF TextInv, Accounted
<1>4. WellNested'
  BY <1>2 DEF TextInv, WellNested
<1> QED BY <1>1, <1>3, <1>4 DEF TextInv

\* Whatever is written line by line as the grammar allows is well nested.
LEMMA TextIsWellNested == TextSpec => []TextInv
<1>1. TextInit => TextInv
  BY DEF TextInit, TextInv, TextTypes, BlocksOpen, Accounted, WellNested
<1> QED BY <1>1, TextStutters, TextStep, PTL DEF TextSpec

-----------------------------------------------------------------------------
(* The walk over the tree.  The blocks that are open are those that the       *)
(* activations on the stack have opened, in their order.                      *)

Frames == [node : Nodes, next : Nat \ {0}]

\* The kind of the block is the one that the activation will end.
KindFits(kind, frame) ==
  CASE frame.node.type \in Loops -> kind = "while"
    [] frame.node.type = "IF" ->
         kind = "if" \/ (kind = "else" /\ frame.next > Len(frame.node.children))
    [] OTHER -> kind = IF frame.next <= 3 THEN "if" ELSE "else"

\* at[b] is the frame that opened block b of the blocks bs.
Opened(at, frames, bs) ==
  /\ Len(at) = Len(bs)
  /\ \A b \in DOMAIN bs :
       /\ at[b] \in DOMAIN frames /\ HasOpened(frames[at[b]])
       /\ KindFits(bs[b].kind, frames[at[b]])
  /\ \A b, c \in DOMAIN bs : b < c => at[b] < at[c]
  /\ \A f \in DOMAIN frames : HasOpened(frames[f]) =>
       \E b \in DOMAIN bs : at[b] = f

\* A node of a loop's body is handled while the loop is open.
LoopsOpen == \A f \in DOMAIN stack : stack[f].node \notin Outside =>
  \E g \in 1..(f - 1) : stack[g].node.type \in Loops /\ HasOpened(stack[g])

Booleans == \A f \in DOMAIN stack :
  stack[f].node.type = "BINARY_EXPR" => stack[f].next <= 5

EmissionInv ==
  /\ TextInv
  /\ stack \in Seq(Frames) /\ indent = BodyIndent + Len(open)
  /\ Booleans /\ LoopsOpen
  /\ \E at \in Seq(Nat) : Opened(at, stack, open)

LEMMA ConditionIsEarly ==
  ASSUME NEW node PROVE ConditionIndex(node) \in {1, 2}
BY DEF ConditionIndex

LEMMA SeqFacts ==
  ASSUME NEW S, NEW s \in Seq(S)
  PROVE  /\ Len(s) \in Nat /\ DOMAIN s = 1..Len(s)
         /\ \A i \in 1..Len(s) : s[i] \in S
         /\ s # <<>> <=> Len(s) > 0
OBVIOUS

\* A block of the frame on top is the innermost.
LEMMA TopOpened ==
  ASSUME NEW s \in Seq(Frames), NEW o \in Seq(Blocks), NEW at \in Seq(Nat),
         Opened(at, s, o), NEW n \in Nat \ {0}, n = Len(s), HasOpened(s[n])
  PROVE  /\ Len(o) \in DOMAIN o /\ Len(o) \in Nat \ {0}
         /\ at[Len(o)] = n /\ KindFits(o[Len(o)].kind, s[n])
         /\ \A b \in DOMAIN o : b < Len(o) => at[b] < n
<1>1. /\ Len(o) \in Nat /\ DOMAIN o = 1..Len(o) /\ DOMAIN s = 1..n
      /\ Len(at) = Len(o) /\ \A b \in 1..Len(o) : at[b] \in Nat
  BY SeqFacts DEF Opened
<1>2. PICK b \in DOMAIN o : at[b] = n
  <2>1. n \in DOMAIN s
    BY <1>1
  <2> QED BY <2>1 DEF Opened
<1>3. \A c \in DOMAIN o : at[c] \in 1..n
  BY <1>1 DEF Opened
<1>4. b = Len(o)
  <2>1. Len(o) \in DOMAIN o
    BY <1>1, <1>2
  <2>2. b < Len(o) => at[b] < at[Len(o)]
    BY <2>1, <1>2 DEF Opened
  <2>3. at[Len(o)] \in 1..n
    BY <2>1, <1>3
  <2> QED BY <2>1, <2>2, <2>3, <1>1, <1>2
<1>5. KindFits(o[b].kind, s[n])
  BY <1>2 DEF Opened
<1>6. \A c \in DOMAIN o : c < Len(o) => at[c] < at[Len(o)]
  BY <1>2, <1>4 DEF Opened
<1> QED BY <1>1, <1>2, <1>4, <1>5, <1>6

\* The frame on top goes on, and may call.
LEMMA StaysOpened ==
  ASSUME NEW s \in Seq(Frames), NEW t \in Seq(Frames), NEW o \in Seq(Blocks),
         NEW p \in Seq(Blocks), NEW at \in Seq(Nat), Opened(at, s, o),
         NEW n \in Nat \ {0}, n = Len(s), n <= Len(t), Len(p) = Len(o),
         \A f \in 1..(n - 1) : t[f] = s[f],
         \A f \in (n + 1)..Len(t) : ~ HasOpened(t[f]),
         HasOpened(t[n]) <=> HasOpened(s[n]),
         \A b \in DOMAIN o : at[b] # n => p[b].kind = o[b].kind,
         \A b \in DOMAIN o : at[b] = n => KindFits(p[b].kind, t[n])
  PROVE  Opened(at, t, p)
<1>1. /\ Len(o) \in Nat /\ DOMAIN o = 1..Len(o) /\ DOMAIN s = 1..n
      /\ DOMAIN t = 1..Len(t) /\ Len(t) \in Nat /\ DOMAIN p = DOMAIN o
      /\ Len(at) = Len(p)
  BY SeqFacts DEF Opened
<1>2. ASSUME NEW b \in DOMAIN p
      PROVE  /\ at[b] \in DOMAIN t /\ HasOpened(t[at[b]])
             /\ KindFits(p[b].kind, t[at[b]])
  <2>1. /\ at[b] \in 1..n /\ HasOpened(s[at[b]])
        /\ KindFits(o[b].kind, s[at[b]]) /\ b \in DOMAIN o
    BY <1>1, <1>2 DEF Opened
  <2>2. CASE at[b] = n
    <3>1. HasOpened(t[n]) /\ KindFits(p[b].kind, t[n])
      BY <2>1, <2>2
    <3> QED BY <3>1, <2>2, <1>1
  <2>3. CASE at[b] # n
    <3>1. at[b] \in 1..(n - 1) /\ p[b].kind = o[b].kind
      BY <2>1, <2>3
    <3>2. t[at[b]] = s[at[b]]
      BY <3>1
    <3>3. at[b] \in DOMAIN t
      BY <2>1, <1>1
    <3> QED BY <3>1, <3>2, <3>3, <2>1
  <2> QED BY <2>2, <2>3
<1>3. \A b, c \in DOMAIN p : b < c => at[b] < at[c]
  BY <1>1 DEF Opened
<1>4. ASSUME NEW f \in DOMAIN t, HasOpened(t[f])
      PROVE  \E b \in DOMAIN p : at[b] = f
  <2>1. f \in 1..n
    BY <1>1, <1>4
  <2>2. HasOpened(s[f])
    <3>1. CASE f = n
      BY <3>1, <1>4
    <3>2. CASE f # n
      <4>1. f \in 1..(n - 1)
        BY <3>2, <2>1
      <4>2. t[f] = s[f]
        BY <4>1
      <4> QED BY <4>2, <1>4
    <3> QED BY <3>1, <3>2
  <2> QED BY <2>1, <2>2, <1>1 DEF Opened
<1> QED BY <1>1, <1>2, <1>3, <1>4 DEF Opened

\* The frame on top opens a block.
LEMMA OpensBlock ==
  ASSUME NEW s \in Seq(Frames), NEW t \in Seq(Frames), NEW o \in Seq(Blocks),
         NEW p \in Seq(Blocks), NEW at \in Seq(Nat), Opened(at, s, o),
         NEW n \in Nat \ {0}, n = Len(s), n = Len(t), Len(p) = Len(o) + 1,
         \A f \in 1..(n - 1) : t[f] = s[f],
         \A b \in DOMAIN o : p[b] = o[b],
         ~ HasOpened(s[n]), HasOpened(t[n]), KindFits(p[Len(o) + 1].kind, t[n])
  PROVE  Opened(Append(at, n), t, p)
<1>1. PICK m \in Nat : m = Len(o)
  BY SeqFacts
<1>2. /\ DOMAIN o = 1..m /\ DOMAIN s = 1..n /\ DOMAIN t = 1..n
      /\ DOMAIN p = 1..(m + 1) /\ Len(at) = m
  BY <1>1, SeqFacts DEF Opened
<1> DEFINE new == Append(at, n)
<1>3. /\ Len(new) = m + 1 /\ new[m + 1] = n
      /\ \A b \in 1..m : new[b] = at[b]
  BY <1>2
<1> HIDE DEF new
<1>4. \A b \in 1..m : at[b] \in 1..(n - 1) /\ HasOpened(s[at[b]])
                      /\ KindFits(o[b].kind, s[at[b]])
  <2> SUFFICES ASSUME NEW b \in 1..m
               PROVE  at[b] \in 1..(n - 1) /\ HasOpened(s[at[b]])
                      /\ KindFits(o[b].kind, s[at[b]])
    OBVIOUS
  <2>1. at[b] \in 1..n /\ HasOpened(s[at[b]]) /\ KindFits(o[b].kind, s[at[b]])
    BY <1>2 DEF Opened
  <2>2. at[b] # n
    BY <2>1
  <2> QED BY <2>1, <2>2
<1>5. ASSUME NEW b \in 1..(m + 1)
      PROVE  /\ new[b] \in 1..n /\ HasOpened(t[new[b]])
             /\ KindFits(p[b].kind, t[new[b]])
  <2>1. CASE b = m + 1
    BY <2>1, <1>1, <1>3
  <2>2. CASE b # m + 1
    <3>1. b \in 1..m
      BY <2>2
    <3>2. new[b] = at[b] /\ p[b] = o[b] /\ t[at[b]] = s[at[b]]
      BY <3>1, <1>2, <1>3, <1>4
    <3>3. at[b] \in 1..(n - 1)
      BY <3>1, <1>4
    <3>4. at[b] \in 1..n
      BY <3>3
    <3> QED BY <3>1, <3>2, <3>4, <1>4
  <2> QED BY <2>1, <2>2
<1>6. ASSUME NEW b \in 1..(m + 1), NEW c \in 1..(m + 1), b < c
      PROVE  new[b] < new[c]
  <2>1. b \in 1..m /\ new[b] = at[b]
    BY <1>3, <1>6
  <2>2. CASE c = m + 1
    BY <2>1, <2>2, <1>3, <1>4
  <2>3. CASE c # m + 1
    <3>1. c \in 1..m
      BY <2>3
    <3> QED BY <3>1, <2>1, <1>2, <1>3, <1>6 DEF Opened
  <2> QED BY <2>2, <2>3
<1>7. ASSUME NEW f \in 1..n, HasOpened(t[f])
      PROVE  \E b \in 1..(m + 1) : new[b] = f
  <2>1. CASE f = n
    BY <2>1, <1>3
  <2>2. CASE f # n
    <3>1. f \in 1..(n - 1)
      BY <2>2
    <3>2. HasOpened(s[f])
      BY <3>1, <1>7
    <3>3. PICK b \in 1..m : at[b] = f
      BY <3>2, <1>2 DEF Opened
    <3>4. b \in 1..(m + 1) /\ new[b] = f
      BY <3>3, <1>3
    <3> QED BY <3>4
  <2> QED BY <2>1, <2>2
<1>8. Opened(new, t, p)
  BY <1>1, <1>2, <1>3, <1>5, <1>6, <1>7 DEF Opened
<1> QED BY <1>8 DEF new

\* The activation on top returns, and ends its block if it opened one.
LEMMA ClosesBlock ==
  ASSUME NEW s \in Seq(Frames), NEW t \in Seq(Frames), NEW o \in Seq(Blocks),
         NEW p \in Seq(Blocks), NEW at \in Seq(Nat), Opened(at, s, o),
         NEW n \in Nat \ {0}, n = Len(s), Len(t) = n - 1,
         Len(p) = IF HasOpened(s[n]) THEN Len(o) - 1 ELSE Len(o),
         \A f \in 1..(n - 1) : t[f] = s[f],
         \A b \in DOMAIN p : p[b] = o[b]
  PROVE  \E new \in Seq(Nat) : Opened(new, t, p)
<1>0. HasOpened(s[n]) => at[Len(o)] = n /\ \A b \in DOMAIN o : b < Len(o) => at[b] < n
  BY TopOpened
<1>1. PICK m \in Nat : m = Len(o)
  BY SeqFacts
<1>2. PICK k \in Nat : k = Len(p)
  BY SeqFacts
<1>3. /\ DOMAIN o = 1..m /\ DOMAIN s = 1..n /\ DOMAIN t = 1..(n - 1)
      /\ DOMAIN p = 1..k /\ Len(at) = m /\ k <= m
      /\ \A b \in 1..m : at[b] \in Nat
  BY <1>1, <1>2, SeqFacts DEF Opened
<1>4. \A b \in 1..k : at[b] \in 1..(n - 1)
  <2> SUFFICES ASSUME NEW b \in 1..k PROVE at[b] \in 1..(n - 1)
    OBVIOUS
  <2>1. at[b] \in 1..n /\ HasOpened(s[at[b]])
    BY <1>3 DEF Opened
  <2>2. CASE HasOpened(s[n])
    <3>1. b < Len(o) /\ b \in DOMAIN o
      BY <2>2, <1>1, <1>2, <1>3
    <3>2. at[b] < n
      BY <2>2, <3>1, <1>0
    <3> QED BY <3>2, <2>1
  <2>3. CASE ~ HasOpened(s[n])
    <3>1. at[b] # n
      BY <2>1, <2>3
    <3> QED BY <3>1, <2>1
  <2> QED BY <2>2, <2>3
<1> DEFINE new == [b \in 1..k |-> at[b]]
<1>5. new \in Seq(Nat) /\ Len(new) = k /\ \A b \in 1..k : new[b] = at[b]
  BY <1>3
<1> HIDE DEF new
<1>6. ASSUME NEW b \in 1..k
      PROVE  /\ new[b] \in 1..(n - 1) /\ HasOpened(t[new[b]])
             /\ KindFits(p[b].kind, t[new[b]])
  <2>1. b \in DOMAIN o /\ b \in DOMAIN p
    BY <1>3
  <2>2. new[b] = at[b] /\ at[b] \in 1..(n - 1) /\ t[at[b]] = s[at[b]] /\ p[b] = o[b]
    BY <2>1, <1>4, <1>5
  <2> QED BY <2>1, <2>2 DEF Opened
<1>7. ASSUME NEW b \in 1..k, NEW c \in 1..k, b < c
      PROVE  new[b] < new[c]
  <2>1. b \in DOMAIN o /\ c \in DOMAIN o
    BY <1>3
  <2>2. at[b] < at[c]
    BY <2>1, <1>7 DEF Opened
  <2> QED BY <2>2, <1>5
<1>8. ASSUME NEW f \in 1..(n - 1), HasOpened(t[f])
      PROVE  \E b \in 1..k : new[b] = f
  <2>1. t[f] = s[f] /\ f \in 1..n
    OBVIOUS
  <2>2. PICK b \in 1..m : at[b] = f
    BY <2>1, <1>3, <1>8 DEF Opened
  <2>3. b \in 1..k
    <3>1. CASE HasOpened(s[n])
      <4>1. at[Len(o)] = n
        BY <3>1, <1>0
      <4>2. b # m
        BY <4>1, <2>2, <1>1
      <4> QED BY <3>1, <4>2, <1>1, <1>2
    <3>2. CASE ~ HasOpened(s[n])
      BY <3>2, <1>1, <1>2
    <3> QED BY <3>1, <3>2
  <2> QED BY <2>2, <2>3, <1>5
<1>9. Opened(new, t, p)
  BY <1>2, <1>3, <1>5, <1>6, <1>7, <1>8 DEF Opened
<1> QED BY <1>5, <1>9

-----------------------------------------------------------------------------
(* The kinds of steps, and why each keeps EmissionInv.                        *)

Quiet     == UNCHANGED <<text, open, indent>>
Wrote(op) == (\E name : Written(op, name)) /\ indent' = BodyIndent + Len(open')
Simple    == Operations \ (Openers \cup Closers \cup {"else"})

\* The frame on top behind the step.
Behind == Frame(Top.node, Top.next + 1)

MayCall(node) ==
  /\ node \in Nodes
  /\ node \notin Outside =>
       Top.node \notin Outside \/ (Top.node.type \in Loops /\ HasOpened(Top))

Goes ==
  /\ Top.node.type = "BINARY_EXPR" => Top.next <= 4
  /\ \/ stack' = Advanced
     \/ \E node, i : /\ MayCall(node) /\ i \in {1, 2} /\ ~ HasOpened(Frame(node, i))
                     /\ stack' = Append(Advanced, Frame(node, i))

SameBlock ==
  /\ HasOpened(Behind) <=> HasOpened(Top)
  /\ \A kind : HasOpened(Top) /\ KindFits(kind, Top) => KindFits(kind, Behind)

PlainStep ==
  /\ stack # <<>> /\ Goes /\ SameBlock
  /\ Quiet \/ \E op \in Simple : Wrote(op)
ElseStep ==
  /\ stack # <<>> /\ Goes /\ Wrote("else")
  /\ HasOpened(Top) /\ KindFits("else", Behind)
OpenStep ==
  /\ stack # <<>> /\ Goes /\ stack' = Advanced /\ ~ HasOpened(Top) /\ HasOpened(Behind)
  /\ \E op \in Openers : Wrote(op) /\ KindFits(op, Behind)
CloseStep ==
  /\ stack # <<>> /\ Leave
  /\ IF HasOpened(Top) THEN \E op \in Closers : Wrote(op) ELSE Quiet

StepKinds == PlainStep \/ ElseStep \/ OpenStep \/ CloseStep

LEMMA WroteIs ==
  ASSUME TextInv, NEW op, Wrote(op)
  PROVE  WriteLine /\ TextInv' /\ op \in Operations
<1>1. PICK name : Written(op, name)
  BY DEF Wrote
<1>2. WriteLine
  BY <1>1 DEF Written, WriteLine
<1>3. op \in Operations
  BY <1>1 DEF Written
<1> QED BY <1>2, <1>3, TextStep

LEMMA StillOpened ==
  ASSUME NEW node, NEW next \in Nat, HasOpened(Frame(node, next))
  PROVE  HasOpened(Frame(node, next + 1))
<1>1. ConditionIndex(node) \in {1, 2}
  BY ConditionIsEarly
<1> QED BY <1>1 DEF HasOpened, Frame

LEMMA AdvancedIs ==
  ASSUME stack \in Seq(Frames), stack # <<>>
  PROVE  \E n \in Nat \ {0} :
           /\ n = Len(stack) /\ Top = stack[n] /\ Top \in Frames /\ Behind \in Frames
           /\ Behind.node = Top.node /\ Behind.next = Top.next + 1
           /\ Advanced \in Seq(Frames) /\ Len(Advanced) = n /\ Advanced[n] = Behind
           /\ \A f \in 1..(n - 1) : Advanced[f] = stack[f]
           /\ HasOpened(Top) => HasOpened(Behind)
<1>1. PICK n \in Nat \ {0} : n = Len(stack) /\ DOMAIN stack = 1..n
  BY SeqFacts
<1>2. Top = stack[n] /\ Top \in Frames
  BY <1>1 DEF Top, Last
<1>3. /\ Behind \in Frames /\ Behind.node = Top.node /\ Behind.next = Top.next + 1
      /\ Top = Frame(Top.node, Top.next) /\ Top.next \in Nat
  BY <1>2 DEF Behind, Frame, Frames
<1>4. Advanced = [stack EXCEPT ![n] = Behind]
  <2>1. Advanced = [stack EXCEPT ![n].next = @ + 1]
    BY <1>1 DEF Advanced
  <2>2. [stack[n] EXCEPT !.next = @ + 1] = Behind
    BY <1>2, <1>3 DEF Frames, Frame, Behind
  <2> QED BY <2>1, <2>2, <1>1
<1>5. /\ Advanced \in Seq(Frames) /\ Len(Advanced) = n /\ Advanced[n] = Behind
      /\ \A f \in 1..(n - 1) : Advanced[f] = stack[f]
  BY <1>1, <1>3, <1>4
<1>6. HasOpened(Top) => HasOpened(Behind)
  <2>1. HasOpened(Frame(Top.node, Top.next)) => HasOpened(Frame(Top.node, Top.next + 1))
    BY <1>3, StillOpened
  <2> QED BY <2>1, <1>3 DEF Behind
<1> QED BY <1>1, <1>2, <1>3, <1>5, <1>6

LEMMA GoesIs ==
  ASSUME stack \in Seq(Frames), stack # <<>>, Goes, NEW n, n = Len(stack)
  PROVE  /\ n \in Nat \ {0} /\ Len(stack') \in Nat /\ n <= Len(stack')
         /\ stack' \in Seq(Frames) /\ stack'[n] = Behind
         /\ \A f \in 1..(n - 1) : stack'[f] = stack[f]
         /\ \A f \in (n + 1)..Len(stack') :
              ~ HasOpened(stack'[f]) /\ MayCall(stack'[f].node)
              /\ stack'[f].next \in {1, 2}
<1>1. /\ n \in Nat \ {0} /\ Advanced \in Seq(Frames) /\ Len(Advanced) = n
      /\ Advanced[n] = Behind /\ \A f \in 1..(n - 1) : Advanced[f] = stack[f]
  BY AdvancedIs
<1>2. CASE stack' = Advanced
  <2>1. \A f \in (n + 1)..n : FALSE
    BY <1>1
  <2> QED BY <2>1, <1>1, <1>2
<1>3. CASE stack' # Advanced
  <2>1. PICK node, i : /\ MayCall(node) /\ i \in {1, 2} /\ ~ HasOpened(Frame(node, i))
                       /\ stack' = Append(Advanced, Frame(node, i))
    BY <1>3 DEF Goes
  <2>2. Frame(node, i) \in Frames
    BY <2>1 DEF Frame, Frames, MayCall
  <2>3. Frame(node, i).node = node /\ Frame(node, i).next = i
    BY DEF Frame
  <2>4. PICK new : new = Frame(node, i)
    OBVIOUS
  <2>5. /\ stack' \in Seq(Frames) /\ Len(stack') = n + 1 /\ stack'[n + 1] = new
        /\ \A f \in 1..n : stack'[f] = Advanced[f]
    BY <2>1, <2>2, <2>4, <1>1
  <2>6. \A f \in (n + 1)..(n + 1) : f = n + 1
    BY <1>1
  <2>7. n \in 1..n /\ \A f \in 1..(n - 1) : f \in 1..n
    BY <1>1
  <2>8. \A f \in 1..(n - 1) : stack'[f] = stack[f]
    BY <2>5, <2>7, <1>1
  <2>9. stack'[n] = Behind
    BY <2>5, <2>7, <1>1
  <2>10. ~ HasOpened(new) /\ MayCall(new.node) /\ new.next \in {1, 2}
    BY <2>1, <2>3, <2>4
  <2>11. Len(stack') \in Nat /\ n <= Len(stack')
    BY <2>5, <1>1
  <2> QED BY <2>5, <2>6, <2>8, <2>9, <2>10, <2>11, <1>1
<1> QED BY <1>2, <1>3

\* What is said of the frames alone stays true.
LEMMA GoesKeeps ==
  ASSUME stack \in Seq(Frames), stack # <<>>, Booleans, LoopsOpen, Goes
  PROVE  Booleans' /\ LoopsOpen'
<1>1. PICK n \in Nat \ {0} : n = Len(stack) /\ Top = stack[n]
                             /\ Behind.node = Top.node /\ Behind.next = Top.next + 1
                             /\ Top \in Frames
                             /\ (HasOpened(Top) => HasOpened(Behind))
  BY AdvancedIs
<1>2. PICK m \in Nat : m = Len(stack')
  BY <1>1, GoesIs
<1>3. /\ DOMAIN stack = 1..n /\ DOMAIN stack' = 1..m /\ n <= m
      /\ stack'[n] = Behind
      /\ \A f \in 1..(n - 1) : stack'[f] = stack[f]
      /\ \A f \in (n + 1)..m : MayCall(stack'[f].node) /\ stack'[f].next \in {1, 2}
  BY <1>1, <1>2, GoesIs
<1>4. \A f \in 1..m : f \in 1..(n - 1) \/ f = n \/ f \in (n + 1)..m
  BY <1>1, <1>2
<1>5. Booleans'
  <2> SUFFICES ASSUME NEW f \in 1..m, stack'[f].node.type = "BINARY_EXPR"
               PROVE  stack'[f].next <= 5
    BY <1>3 DEF Booleans
  <2>1. CASE f \in 1..(n - 1)
    <3>1. f \in 1..n
      BY <2>1
    <3> QED BY <2>1, <3>1, <1>3 DEF Booleans
  <2>2. CASE f = n
    <3>1. Top.next <= 4 /\ Top.next \in Nat
      BY <2>2, <1>1, <1>3 DEF Goes, Frames
    <3>2. stack'[f].next = Top.next + 1
      BY <2>2, <1>1, <1>3
    <3> QED BY <3>1, <3>2
  <2>3. CASE f \in (n + 1)..m
    <3>1. stack'[f].next \in {1, 2}
      BY <2>3, <1>3
    <3> QED BY <3>1
  <2> QED BY <2>1, <2>2, <2>3, <1>4
<1>6. \A g \in 1..n : /\ stack'[g].node = stack[g].node
                      /\ HasOpened(stack[g]) => HasOpened(stack'[g])
  <2> SUFFICES ASSUME NEW g \in 1..n
               PROVE  /\ stack'[g].node = stack[g].node
                      /\ HasOpened(stack[g]) => HasOpened(stack'[g])
    OBVIOUS
  <2>1. CASE g = n
    BY <2>1, <1>1, <1>3
  <2>2. CASE g # n
    <3>1. g \in 1..(n - 1)
      BY <2>2
    <3> QED BY <3>1, <1>3
  <2> QED BY <2>1, <2>2
<1>7. ASSUME NEW f \in 1..n, stack[f].node \notin Outside
      PROVE  \E g \in 1..(f - 1) : stack'[g].node.type \in Loops /\ HasOpened(stack'[g])
  <2>1. PICK g \in 1..(f - 1) : stack[g].node.type \in Loops /\ HasOpened(stack[g])
    BY <1>3, <1>7 DEF LoopsOpen
  <2>2. g \in 1..n
    BY <2>1
  <2>3. stack'[g].node = stack[g].node /\ HasOpened(stack'[g])
    BY <2>1, <2>2, <1>6
  <2> QED BY <2>1, <2>3
<1>8. LoopsOpen'
  <2> SUFFICES ASSUME NEW f \in 1..m, stack'[f].node \notin Outside
               PROVE  \E g \in 1..(f - 1) :
                        stack'[g].node.type \in Loops /\ HasOpened(stack'[g])
    BY <1>3 DEF LoopsOpen
  <2>1. CASE f \in 1..n
    BY <2>1, <1>6, <1>7
  <2>2. CASE f \in (n + 1)..m
    <3>1. \/ Top.node \notin Outside
          \/ Top.node.type \in Loops /\ HasOpened(Top)
      BY <2>2, <1>3 DEF MayCall
    <3>2. n \in 1..n /\ n \in 1..(f - 1) /\ \A g \in 1..(n - 1) : g \in 1..(f - 1)
      BY <2>2
    <3>3. CASE Top.node \notin Outside
      <4>1. PICK g \in 1..(n - 1) : stack'[g].node.type \in Loops /\ HasOpened(stack'[g])
        BY <3>2, <3>3, <1>1, <1>7
      <4> QED BY <4>1, <3>2
    <3>4. CASE Top.node.type \in Loops /\ HasOpened(Top)
      BY <3>2, <3>4, <1>1, <1>3
    <3> QED BY <3>1, <3>3, <3>4
  <2> QED BY <2>1, <2>2, <1>3, <1>4
<1> QED BY <1>5, <1>8

LEMMA PlainKeeps ==
  ASSUME EmissionInv, PlainStep
  PROVE  EmissionInv' /\ (WriteLine \/ UNCHANGED <<text, open>>)
<1>0. TextInv /\ stack \in Seq(Frames) /\ stack # <<>> /\ Goes /\ Booleans /\ LoopsOpen
      /\ open \in Seq(Blocks)
  BY DEF EmissionInv, PlainStep, TextInv, TextTypes
<1>1. /\ TextInv' /\ open' = open /\ indent' = BodyIndent + Len(open')
      /\ WriteLine \/ UNCHANGED <<text, open>>
  <2>1. CASE Quiet
    BY <2>1, TextStutters, <1>0 DEF Quiet, EmissionInv
  <2>2. CASE \E op \in Simple : Wrote(op)
    <3>1. PICK op \in Simple : Wrote(op)
      BY <2>2
    <3>2. PICK name : Written(op, name)
      BY <3>1 DEF Wrote
    <3>3. open' = open
      BY <3>2, OtherBlocks DEF Simple
    <3> QED BY <3>1, <3>3, <1>0, WroteIs DEF Wrote
  <2> QED BY <2>1, <2>2 DEF PlainStep
<1>2. PICK at \in Seq(Nat) : Opened(at, stack, open)
  BY DEF EmissionInv
<1>3. PICK n \in Nat \ {0} : n = Len(stack) /\ Top = stack[n]
  BY <1>0, AdvancedIs
<1>4. /\ stack' \in Seq(Frames) /\ stack'[n] = Behind /\ n <= Len(stack')
      /\ \A f \in 1..(n - 1) : stack'[f] = stack[f]
      /\ \A f \in (n + 1)..Len(stack') : ~ HasOpened(stack'[f])
  BY <1>0, <1>3, GoesIs
<1>5. HasOpened(stack'[n]) <=> HasOpened(stack[n])
  BY <1>3, <1>4 DEF PlainStep, SameBlock
<1>6. \A b \in DOMAIN open : at[b] = n => KindFits(open[b].kind, stack'[n])
  BY <1>2, <1>3, <1>4 DEF Opened, PlainStep, SameBlock
<1>7. \A t : t = stack' => Opened(at, t, open)
  <2> SUFFICES ASSUME NEW t, t = stack' PROVE Opened(at, t, open)
    OBVIOUS
  <2>1. /\ t \in Seq(Frames) /\ n <= Len(t)
        /\ \A f \in 1..(n - 1) : t[f] = stack[f]
        /\ \A f \in (n + 1)..Len(t) : ~ HasOpened(t[f])
        /\ HasOpened(t[n]) <=> HasOpened(stack[n])
        /\ \A b \in DOMAIN open : at[b] = n => KindFits(open[b].kind, t[n])
    BY <1>4, <1>5, <1>6
  <2>2. PICK p : p = open
    OBVIOUS
  <2>3. /\ p \in Seq(Blocks) /\ stack \in Seq(Frames) /\ Len(p) = Len(open)
        /\ \A b \in DOMAIN open : at[b] # n => p[b].kind = open[b].kind
        /\ \A b \in DOMAIN open : at[b] = n => KindFits(p[b].kind, t[n])
    BY <1>0, <2>1, <2>2
  <2>4. Opened(at, t, p)
    <3> HIDE DEF Opened
    <3> QED BY <2>1, <2>3, <1>0, <1>2, <1>3, StaysOpened
  <2> QED BY <2>2, <2>4
<1>8. Opened(at, stack, open)'
  BY <1>1, <1>7 DEF Opened
<1>9. Booleans' /\ LoopsOpen'
  BY <1>0, GoesKeeps
<1> QED BY <1>1, <1>4, <1>8, <1>9 DEF EmissionInv

LEMMA ElseKeeps ==
  ASSUME EmissionInv, ElseStep
  PROVE  EmissionInv' /\ WriteLine
<1>0. TextInv /\ stack \in Seq(Frames) /\ stack # <<>> /\ Goes /\ Booleans /\ LoopsOpen
      /\ open \in Seq(Blocks) /\ TextTypes /\ BlocksOpen
  BY DEF EmissionInv, ElseStep, TextInv, TextTypes
<1>1. TextInv' /\ WriteLine /\ indent' = BodyIndent + Len(open')
  BY <1>0, WroteIs DEF ElseStep, Wrote
<1>a. PICK p : p = open'
  OBVIOUS
<1>b. /\ Len(p) = Len(open) /\ p \in Seq(Blocks)
      /\ \A b \in DOMAIN open : b < Len(open) => p[b] = open[b]
      /\ p[Len(open)].kind = "else"
  <2>1. PICK name : Written("else", name)
    BY DEF ElseStep, Wrote
  <2> QED BY <2>1, <1>0, <1>a, ElseBlock
<1>2. PICK at \in Seq(Nat) : Opened(at, stack, open)
  BY DEF EmissionInv
<1>3. PICK n \in Nat \ {0} : n = Len(stack) /\ Top = stack[n]
                             /\ (HasOpened(Top) => HasOpened(Behind))
  BY <1>0, AdvancedIs
<1>4. PICK t : t = stack'
  OBVIOUS
<1>5. /\ t \in Seq(Frames) /\ t[n] = Behind /\ n <= Len(t)
      /\ \A f \in 1..(n - 1) : t[f] = stack[f]
      /\ \A f \in (n + 1)..Len(t) : ~ HasOpened(t[f])
  BY <1>0, <1>3, <1>4, GoesIs
<1>6. HasOpened(t[n]) <=> HasOpened(stack[n])
  BY <1>3, <1>5 DEF ElseStep
<1>7. /\ Len(open) \in Nat /\ DOMAIN open = 1..Len(open)
      /\ at[Len(open)] = n /\ \A b \in DOMAIN open : b < Len(open) => at[b] < n
  <2>1. HasOpened(stack[n])
    BY <1>3 DEF ElseStep
  <2> HIDE DEF Opened
  <2> QED BY <2>1, <1>0, <1>2, <1>3, TopOpened, SeqFacts
<1>8. \A b \in DOMAIN open : /\ at[b] # n => b < Len(open)
                             /\ at[b] = n => b = Len(open)
  <2> SUFFICES ASSUME NEW b \in DOMAIN open
               PROVE  (at[b] # n => b < Len(open)) /\ (at[b] = n => b = Len(open))
    OBVIOUS
  <2>1. b < Len(open) \/ b = Len(open)
    BY <1>7
  <2>2. CASE b < Len(open)
    <3>1. at[b] < n
      BY <2>2, <1>7
    <3>2. at[b] # n
      BY <3>1
    <3> QED BY <3>2, <2>2
  <2>3. CASE b = Len(open)
    BY <2>3, <1>7
  <2> QED BY <2>1, <2>2, <2>3
<1>9. \A b \in DOMAIN open : at[b] # n => p[b].kind = open[b].kind
  BY <1>8, <1>b
<1>10. \A b \in DOMAIN open : at[b] = n => KindFits(p[b].kind, t[n])
  BY <1>8, <1>b, <1>5 DEF ElseStep
<1>11. Opened(at, t, p)
  <2> HIDE DEF Opened
  <2> QED BY <1>0, <1>b, <1>2, <1>3, <1>5, <1>6, <1>9, <1>10, StaysOpened
<1>12. Opened(at, stack, open)'
  BY <1>4, <1>a, <1>11 DEF Opened
<1>13. Booleans' /\ LoopsOpen'
  BY <1>0, GoesKeeps
<1> QED BY <1>1, <1>4, <1>5, <1>12, <1>13 DEF EmissionInv

LEMMA OpenKeeps ==
  ASSUME EmissionInv, OpenStep
  PROVE  EmissionInv' /\ WriteLine
<1>0. TextInv /\ stack \in Seq(Frames) /\ stack # <<>> /\ Goes /\ Booleans /\ LoopsOpen
      /\ open \in Seq(Blocks) /\ TextTypes /\ stack' = Advanced
  BY DEF EmissionInv, OpenStep, TextInv, TextTypes
<1>1. PICK op \in Openers : Wrote(op) /\ KindFits(op, Behind)
  BY DEF OpenStep
<1>2. TextInv' /\ WriteLine /\ indent' = BodyIndent + Len(open')
  BY <1>0, <1>1, WroteIs DEF Wrote
<1>a. PICK p : p = open'
  OBVIOUS
<1>b. /\ Len(p) = Len(open) + 1 /\ p \in Seq(Blocks)
      /\ \A b \in DOMAIN open : p[b] = open[b]
      /\ p[Len(open) + 1].kind = op
  <2>1. PICK name : Written(op, name)
    BY <1>1 DEF Wrote
  <2>2. /\ Len(p) = Len(open) + 1 /\ p \in Seq(Blocks)
        /\ \A b \in DOMAIN open : p[b] = open[b]
        /\ p[Len(open) + 1] = Block(op, Len(text) + 1)
    BY <2>1, <1>0, <1>a, NewBlock
  <2> QED BY <2>2 DEF Block
<1>3. PICK at \in Seq(Nat) : Opened(at, stack, open)
  BY DEF EmissionInv
<1>4. PICK t : t = stack'
  OBVIOUS
<1>5. PICK n \in Nat \ {0} :
        /\ n = Len(stack) /\ Top = stack[n]
        /\ t \in Seq(Frames) /\ t[n] = Behind /\ n = Len(t)
        /\ \A f \in 1..(n - 1) : t[f] = stack[f]
  BY <1>0, <1>4, AdvancedIs
<1>6. ~ HasOpened(stack[n]) /\ HasOpened(t[n]) /\ KindFits(p[Len(open) + 1].kind, t[n])
  BY <1>1, <1>b, <1>5 DEF OpenStep
<1>7. Opened(Append(at, n), t, p)
  <2> HIDE DEF Opened
  <2> QED BY <1>0, <1>b, <1>3, <1>5, <1>6, OpensBlock
<1>8. PICK new \in Seq(Nat) : Opened(new, t, p)
  <2>1. Append(at, n) \in Seq(Nat)
    BY <1>3, <1>5
  <2> QED BY <1>7, <2>1
<1>9. Opened(new, stack, open)'
  BY <1>4, <1>a, <1>8 DEF Opened
<1>10. Booleans' /\ LoopsOpen'
  BY <1>0, GoesKeeps
<1> QED BY <1>2, <1>4, <1>5, <1>9, <1>10 DEF EmissionInv

LEMMA CloseKeeps ==
  ASSUME EmissionInv, CloseStep
  PROVE  EmissionInv' /\ (WriteLine \/ UNCHANGED <<text, open>>)
<1>0. TextInv /\ stack \in Seq(Frames) /\ stack # <<>> /\ Booleans /\ LoopsOpen
      /\ open \in Seq(Blocks) /\ TextTypes /\ stack' = Front(stack)
  BY DEF EmissionInv, CloseStep, TextInv, TextTypes, Leave
<1>1. PICK n \in Nat \ {0} : n = Len(stack) /\ Top = stack[n] /\ DOMAIN stack = 1..n
  BY <1>0, AdvancedIs, SeqFacts
<1>2. PICK t : t = stack'
  OBVIOUS
<1>3. /\ t \in Seq(Frames) /\ Len(t) = n - 1 /\ DOMAIN t = 1..(n - 1)
      /\ \A f \in 1..(n - 1) : t[f] = stack[f]
  BY <1>0, <1>1, <1>2 DEF Front
<1>4. PICK p : p = open'
  OBVIOUS
<1>5. /\ TextInv' /\ indent' = BodyIndent + Len(open')
      /\ WriteLine \/ UNCHANGED <<text, open>>
      /\ p \in Seq(Blocks)
      /\ Len(p) = (IF HasOpened(stack[n]) THEN Len(open) - 1 ELSE Len(open))
      /\ \A b \in DOMAIN p : p[b] = open[b]
  <2>1. CASE HasOpened(Top)
    <3>1. PICK op \in Closers : Wrote(op)
      BY <2>1 DEF CloseStep
    <3>2. TextInv' /\ WriteLine /\ indent' = BodyIndent + Len(open')
      BY <3>1, <1>0, WroteIs DEF Wrote
    <3>3. PICK name : Written(op, name)
      BY <3>1 DEF Wrote
    <3>4. /\ Len(p) = Len(open) - 1 /\ p \in Seq(Blocks)
          /\ \A b \in DOMAIN open : b < Len(open) => p[b] = open[b]
      BY <3>1, <3>3, <1>0, <1>4, ClosedBlock
    <3>5. \A b \in DOMAIN p : b \in DOMAIN open /\ b < Len(open)
      <4>1. /\ DOMAIN p = 1..Len(p) /\ DOMAIN open = 1..Len(open)
            /\ Len(p) \in Nat /\ Len(open) \in Nat
        BY <3>4, <1>0, SeqFacts
      <4> QED BY <4>1, <3>4
    <3> QED BY <2>1, <3>2, <3>4, <3>5, <1>1
  <2>2. CASE ~ HasOpened(Top)
    <3>1. Quiet
      BY <2>2 DEF CloseStep
    <3>2. TextInv' /\ p = open /\ indent' = BodyIndent + Len(open')
      BY <3>1, TextStutters, <1>0, <1>4 DEF Quiet, EmissionInv
    <3> QED BY <2>2, <3>1, <3>2, <1>0, <1>1 DEF Quiet
  <2> QED BY <2>1, <2>2
<1>6. PICK at \in Seq(Nat) : Opened(at, stack, open)
  BY DEF EmissionInv
<1>7. PICK new \in Seq(Nat) : Opened(new, t, p)
  <2> HIDE DEF Opened
  <2> QED BY <1>0, <1>1, <1>3, <1>5, <1>6, ClosesBlock
<1>8. Opened(new, stack, open)'
  BY <1>2, <1>4, <1>7 DEF Opened
<1>9. Booleans'
  <2>1. \A f \in 1..(n - 1) : f \in 1..n
    OBVIOUS
  <2> QED BY <2>1, <1>0, <1>1, <1>2, <1>3 DEF Booleans
<1>10. LoopsOpen'
  <2> SUFFICES ASSUME NEW f \in 1..(n - 1), t[f].node \notin Outside
               PROVE  \E g \in 1..(f - 1) : t[g].node.type \in Loops /\ HasOpened(t[g])
    BY <1>2, <1>3 DEF LoopsOpen
  <2>1. f \in DOMAIN stack /\ stack[f] = t[f]
    BY <1>1, <1>3
  <2>2. PICK g \in 1..(f - 1) : stack[g].node.type \in Loops /\ HasOpened(stack[g])
    BY <2>1 DEF LoopsOpen, EmissionInv
  <2>3. g \in 1..(n - 1)
    OBVIOUS
  <2> QED BY <2>2, <2>3, <1>3
<1> QED BY <1>2, <1>3, <1>5, <1>8, <1>9, <1>10 DEF EmissionInv

LEMMA StepsKeep ==
  ASSUME EmissionInv, StepKinds
  PROVE  EmissionInv' /\ (WriteLine \/ UNCHANGED <<text, open>>)
BY PlainKeeps, ElseKeeps, OpenKeeps, CloseKeeps DEF StepKinds

-----------------------------------------------------------------------------
(* What the emitter writes follows by the grammar.                            *)

LEMMA EmissionFacts ==
  ASSUME EmissionInv
  PROVE  /\ TextTypes /\ BlocksOpen /\ open \in Seq(Blocks) /\ stack \in Seq(Frames)
         /\ Len(open) \in Nat /\ DOMAIN open = 1..Len(open)
         /\ indent = BodyIndent + Len(open)
BY SeqFacts DEF EmissionInv, TextInv, TextTypes

LEMMA IndentIs ==
  ASSUME EmissionInv, NEW op
  PROVE  /\ op \notin Branches \cup Closers => IndentOf(op) = indent
         /\ op \in Branches \cup Closers /\ Len(open) > 0 =>
              IndentOf(op) = Decremented /\ Decremented = BodyIndent + Len(open) - 1
<1>1. PICK n \in Nat : n = Len(open)
  BY EmissionFacts
<1>2. indent = BodyIndent + n
  BY <1>1, EmissionFacts
<1>3. CASE op \in Branches \cup Closers
  <2>1. IndentOf(op) = BodyIndent + n - 1
    BY <1>1, <1>3 DEF IndentOf
  <2>2. n > 0 => Decremented = BodyIndent + n - 1
    BY <1>2 DEF Decremented, BodyIndent
  <2> QED BY <2>1, <2>2, <1>1, <1>3
<1>4. CASE op \notin Branches \cup Closers
  <2>1. IndentOf(op) = BodyIndent + n - 0
    BY <1>1, <1>4 DEF IndentOf
  <2> QED BY <2>1, <1>2, <1>4 DEF BodyIndent
<1> QED BY <1>3, <1>4

LEMMA LineIsWritten ==
  ASSUME EmissionInv, NEW op, NEW name \in Names, EmitLine(op, name),
         \/ op = "assign"
         \/ op \in Jumps /\ \E b \in DOMAIN open : open[b].kind = "while"
  PROVE  op \in Simple /\ Wrote(op)
<1>1. /\ op \in Simple /\ op \in Operations
      /\ op \notin Branches /\ op # "end if" /\ op # "end loop" /\ op \notin Closers
      /\ op \notin Openers \cup Closers \cup {"else"}
  BY DEF Simple, Operations, Openers, Closers, Branches, Jumps
<1>2. MayFollow(op)
  BY <1>1, Zenon DEF MayFollow, Jumps
<1>3. IndentOf(op) = indent
  BY <1>1, IndentIs
<1>4. Written(op, name)
  BY <1>1, <1>2, <1>3 DEF Written, EmitLine
<1>5. open' = open
  BY <1>1, <1>4, OtherBlocks
<1> QED BY <1>1, <1>4, <1>5, EmissionFacts DEF Wrote, EmitLine

LEMMA BeginIsWritten ==
  ASSUME EmissionInv, NEW op \in Openers, NEW name \in Names, EmitBegin(op, name)
  PROVE  Wrote(op)
<1>1. /\ op \in Operations /\ op \notin Branches /\ op \notin Closers
      /\ op # "end if" /\ op # "end loop" /\ op \notin Jumps
  BY DEF Operations, Openers, Closers, Branches, Jumps
<1>2. MayFollow(op)
  BY <1>1, Zenon DEF MayFollow
<1>3. IndentOf(op) = indent
  BY <1>1, IndentIs
<1>4. Written(op, name)
  BY <1>1, <1>2, <1>3 DEF Written, EmitBegin
<1>5. Len(open') = Len(open) + 1
  BY <1>4, EmissionFacts, NewBlock
<1>6. indent' = BodyIndent + Len(open')
  BY <1>5, EmissionFacts DEF EmitBegin, BodyIndent
<1> QED BY <1>4, <1>6 DEF Wrote

LEMMA BranchIsWritten ==
  ASSUME EmissionInv, NEW op \in Branches, NEW name \in Names, EmitBranch(op, name),
         Innermost({"if"})
  PROVE  Wrote(op)
<1>1. /\ op \in Operations /\ op \notin Closers
      /\ op # "end if" /\ op # "end loop" /\ op \notin Jumps
  BY DEF Operations, Openers, Closers, Branches, Jumps
<1>2. MayFollow(op)
  BY <1>1, Zenon DEF MayFollow
<1>3. Len(open) \in Nat \ {0}
  BY EmissionFacts, InnermostIs
<1>4. IndentOf(op) = Decremented /\ Decremented + 1 = BodyIndent + Len(open)
  <2>1. IndentOf(op) = Decremented /\ Decremented = BodyIndent + Len(open) - 1
    BY <1>3, IndentIs
  <2> QED BY <2>1, <1>3 DEF BodyIndent
<1>5. Written(op, name)
  BY <1>1, <1>2, <1>4 DEF Written, EmitBranch
<1>6. Len(open') = Len(open)
  <2>1. CASE op = "else"
    BY <2>1, <1>5, EmissionFacts, ElseBlock
  <2>2. CASE op # "else"
    <3>1. op \notin Openers \cup Closers \cup {"else"}
      BY <2>2, <1>1 DEF Openers, Branches
    <3> QED BY <3>1, <1>5, OtherBlocks
  <2> QED BY <2>1, <2>2
<1>7. indent' = BodyIndent + Len(open')
  BY <1>4, <1>6 DEF EmitBranch
<1> QED BY <1>5, <1>7 DEF Wrote

LEMMA EndIsWritten ==
  ASSUME EmissionInv, NEW op \in Closers, EmitEnd(op), MayFollow(op), open # <<>>
  PROVE  Wrote(op)
<1>1. op \in Operations /\ op \notin Branches /\ op \notin Jumps
  BY DEF Operations, Openers, Closers, Branches, Jumps
<1>3. PICK n \in Nat \ {0} : n = Len(open)
  <2>1. open \in Seq(Blocks) /\ Len(open) \in Nat
    BY EmissionFacts
  <2>2. Len(open) # 0
    BY <2>1
  <2> QED BY <2>1, <2>2
<1>4. IndentOf(op) = Decremented /\ Decremented = BodyIndent + Len(open) - 1
  <2>1. op \in Branches \cup Closers
    OBVIOUS
  <2>2. Len(open) > 0
    BY <1>3
  <2> QED BY <2>1, <2>2, IndentIs
<1>5. Written(op, "")
  <2>1. "" \in Names
    BY TreeAssumption
  <2> QED BY <2>1, <1>1, <1>4 DEF Written, EmitEnd
<1>6. Len(open') = Len(open) - 1
  BY <1>5, EmissionFacts, ClosedBlock
<1>7. indent' = BodyIndent + Len(open')
  BY <1>3, <1>4, <1>6 DEF EmitEnd, BodyIndent
<1> QED BY <1>5, <1>7 DEF Wrote

\* The innermost block is that of the activation on top.
LEMMA TopIsInnermost ==
  ASSUME EmissionInv, stack # <<>>, HasOpened(Top)
  PROVE  open # <<>> /\ KindFits(Last(open).kind, Top)
<1>0. stack \in Seq(Frames) /\ open \in Seq(Blocks)
  BY EmissionFacts
<1>1. PICK n \in Nat \ {0} : n = Len(stack) /\ Top = stack[n]
  BY <1>0, AdvancedIs
<1>2. PICK at \in Seq(Nat) : Opened(at, stack, open)
  BY DEF EmissionInv
<1>3. Len(open) \in DOMAIN open /\ Len(open) \in Nat \ {0}
      /\ KindFits(open[Len(open)].kind, stack[n])
  <2> HIDE DEF Opened
  <2> QED BY <1>0, <1>1, <1>2, TopOpened
<1>4. open # <<>>
  BY <1>3, <1>0, SeqFacts
<1> QED BY <1>1, <1>3, <1>4 DEF Last

LEMMA KindIs ==
  ASSUME NEW frame, NEW kind, KindFits(kind, frame)
  PROVE  /\ frame.node.type \in Loops => kind = "while"
         /\ frame.node.type = "IF" => kind \in {"if", "else"}
         /\ frame.node.type = "IF" /\ ~ (frame.next > Len(frame.node.children)) =>
              kind = "if"
         /\ frame.node.type = "BINARY_EXPR" =>
              kind = IF frame.next <= 3 THEN "if" ELSE "else"
BY DEF KindFits, Loops

LEMMA NodeFacts ==
  ASSUME NEW node \in Nodes
  PROVE  /\ node.type \in Types /\ node.value \in Names
         /\ node.children \in Seq(Nodes)
         /\ Len(node.children) \in Nat
         /\ DOMAIN node.children = 1..Len(node.children)
         /\ \A i \in 1..Len(node.children) : node.children[i] \in Nodes
         /\ node.children # <<>> => 1 \in 1..Len(node.children)
<1>1. /\ node.type \in Types /\ node.value \in Names /\ node.children \in Seq(Nodes)
  BY TreeAssumption
<1> QED BY <1>1, SeqFacts

LEMMA ChildFacts ==
  ASSUME stack \in Seq(Frames), stack # <<>>, Top.next \in DOMAIN Top.node.children
  PROVE  /\ Top.node \in Nodes /\ Top.next \in Nat \ {0} /\ Child \in Nodes
         /\ Top.next <= Len(Top.node.children) /\ Len(Top.node.children) \in Nat
         /\ (Top.node.type \in Loops => HasOpened(Top)) => MayCall(Child)
<1>1. Top \in Frames
  BY AdvancedIs
<1>2. Top.node \in Nodes /\ Top.next \in Nat \ {0}
  BY <1>1 DEF Frames
<1>3. /\ Child \in Nodes /\ Top.next <= Len(Top.node.children)
      /\ Len(Top.node.children) \in Nat
  BY <1>2, NodeFacts DEF Child
<1>4. Child \in Outside \/ Top.node \notin Outside \/ Top.node.type \in Loops
  <2> SUFFICES ASSUME Top.node \in Outside, Top.node.type \notin Loops
               PROVE  Child \in Outside
    OBVIOUS
  <2>1. Child \in Range(Top.node.children)
    BY DEF Child, Range
  <2> QED BY <2>1, TreeAssumption DEF ChildrenOf
<1> QED BY <1>2, <1>3, <1>4 DEF MayCall

\* A jump is handled while a loop is open.
LEMMA JumpsInLoop ==
  ASSUME EmissionInv, stack # <<>>, NEW node, MayCall(node),
         node.type \in {"BREAK", "CONTINUE"}
  PROVE  \E b \in DOMAIN open : open[b].kind = "while"
<1>0. stack \in Seq(Frames)
  BY EmissionFacts
<1>1. PICK n \in Nat \ {0} : n = Len(stack) /\ Top = stack[n]
  BY <1>0, AdvancedIs
<1>2. DOMAIN stack = 1..n
  BY <1>0, <1>1, SeqFacts
<1>3. node \notin Outside
  BY TreeAssumption
<1>4. PICK g \in 1..n : stack[g].node.type \in Loops /\ HasOpened(stack[g])
  <2>1. CASE Top.node \notin Outside
    <3>1. n \in DOMAIN stack /\ stack[n].node \notin Outside
      BY <2>1, <1>1, <1>2
    <3>2. PICK g \in 1..(n - 1) : stack[g].node.type \in Loops /\ HasOpened(stack[g])
      BY <3>1 DEF EmissionInv, LoopsOpen
    <3>3. g \in 1..n
      OBVIOUS
    <3> QED BY <3>2, <3>3
  <2>2. CASE Top.node.type \in Loops /\ HasOpened(Top)
    <3>1. n \in 1..n
      OBVIOUS
    <3> QED BY <3>1, <2>2, <1>1
  <2> QED BY <2>1, <2>2, <1>3 DEF MayCall
<1>5. PICK at \in Seq(Nat) : Opened(at, stack, open)
  BY DEF EmissionInv
<1>6. PICK b \in DOMAIN open : at[b] = g
  BY <1>2, <1>4, <1>5 DEF Opened
<1>7. KindFits(open[b].kind, stack[g])
  BY <1>5, <1>6 DEF Opened
<1>8. open[b].kind = "while"
  BY <1>4, <1>7, KindIs
<1> QED BY <1>8

-----------------------------------------------------------------------------
(* The actions.                                                               *)

LEMMA NotOpenedYet ==
  ASSUME NEW node
  PROVE  /\ ~ HasOpened(Frame(node, 1))
         /\ node.type = "ELSE_IF" => ~ HasOpened(Frame(node, 2))
<1>1. ConditionIndex(node) \in {1, 2}
  BY ConditionIsEarly
<1> QED BY <1>1 DEF HasOpened, Frame, Loops

LEMMA SameBlockIf ==
  ASSUME stack \in Seq(Frames), stack # <<>>,
         \/ Top.node.type \notin Loops \cup {"IF", "BINARY_EXPR"}
         \/ HasOpened(Top) /\ Top.node.type # "BINARY_EXPR"
         \/ ~ HasOpened(Behind)
  PROVE  SameBlock
<1>1. /\ Top \in Frames /\ Behind.node = Top.node /\ Behind.next = Top.next + 1
      /\ HasOpened(Top) => HasOpened(Behind)
  BY AdvancedIs
<1>2. Top.next \in Nat
  BY <1>1 DEF Frames
<1>3. CASE Top.node.type \notin Loops \cup {"IF", "BINARY_EXPR"}
  BY <1>1, <1>3 DEF SameBlock, HasOpened
<1>4. CASE HasOpened(Top) /\ Top.node.type # "BINARY_EXPR"
  <2>1. HasOpened(Behind)
    BY <1>1, <1>4
  <2>2. Top.node.type \in Loops \/ Top.node.type = "IF"
    BY <1>4 DEF HasOpened
  <2>3. CASE Top.node.type \in Loops
    <3>1. ASSUME NEW kind, KindFits(kind, Top) PROVE KindFits(kind, Behind)
      <4>1. kind = "while"
        BY <2>3, <3>1, KindIs
      <4>2. Behind.node.type \in Loops
        BY <2>3, <1>1
      <4> QED BY <4>1, <4>2 DEF KindFits, Loops
    <3> QED BY <3>1, <1>4, <2>1 DEF SameBlock
  <2>4. CASE Top.node.type = "IF"
    <3>1. Len(Top.node.children) \in Nat
      BY <1>1, NodeFacts DEF Frames
    <3>2. Top.next > Len(Top.node.children) => Behind.next > Len(Top.node.children)
      BY <3>1, <1>1, <1>2
    <3>3. "IF" \notin Loops
      BY DEF Loops
    <3> QED BY <1>1, <1>4, <2>1, <2>4, <3>2, <3>3 DEF SameBlock, KindFits
  <2> QED BY <2>2, <2>3, <2>4
<1>5. CASE ~ HasOpened(Behind)
  BY <1>1, <1>5 DEF SameBlock
<1> QED BY <1>3, <1>4, <1>5

LEMMA GoesOn ==
  ASSUME Top.node.type = "BINARY_EXPR" => Top.next <= 4
  PROVE  /\ ToNext => Goes
         /\ \A node : MayCall(node) /\ Call(node, 1) => Goes
<1>1. ToNext => Goes
  BY DEF Goes, ToNext
<1>2. ASSUME NEW node, MayCall(node), Call(node, 1)
      PROVE  Goes
  <2>1. ~ HasOpened(Frame(node, 1)) /\ stack' = Append(Advanced, Frame(node, 1))
    BY <1>2, NotOpenedYet DEF Call
  <2> QED BY <2>1, <1>2 DEF Goes
<1> QED BY <1>1, <1>2

\* A step that writes nothing, or an assignment.
LEMMA NothingOrAssigned ==
  ASSUME EmissionInv, stack # <<>>, Goes, SameBlock,
         \/ EmitNothing
         \/ \E name \in Names : EmitLine("assign", name)
  PROVE  PlainStep
<1>1. CASE EmitNothing
  BY <1>1 DEF EmitNothing, Quiet, PlainStep
<1>2. CASE \E name \in Names : EmitLine("assign", name)
  <2>1. PICK name \in Names : EmitLine("assign", name)
    BY <1>2
  <2>2. "assign" \in Simple /\ Wrote("assign")
    BY <2>1, LineIsWritten
  <2> QED BY <2>2 DEF PlainStep
<1> QED BY <1>1, <1>2

LEMMA NodeIsGenerated ==
  ASSUME EmissionInv, stack # <<>>, Top.next \in DOMAIN Top.node.children,
         SameBlock, Top.node.type # "BINARY_EXPR",
         Top.node.type \in Loops => HasOpened(Top),
         GenerateNode(Child)
  PROVE  PlainStep
<1>1. Child \in Nodes /\ MayCall(Child)
  BY EmissionFacts, ChildFacts
<1>2. ToNext => Goes
  BY GoesOn
<1>3. Call(Child, 1) => Goes
  BY <1>1, GoesOn
<1>4. "" \in Names
  BY TreeAssumption
<1>5. CASE Child.type \in {"STATEMENT", "WHILE", "FOR", "IF"}
  <2>1. Call(Child, 1) /\ EmitNothing
    BY <1>5 DEF GenerateNode
  <2> QED BY <2>1, <1>3, NothingOrAssigned
<1>6. CASE Child.type \in {"BREAK", "CONTINUE"}
  <2>1. \E b \in DOMAIN open : open[b].kind = "while"
    BY <1>1, <1>6, JumpsInLoop
  <2>2. PICK op \in Jumps : EmitLine(op, "") /\ ToNext
    <3>1. CASE Child.type = "BREAK"
      BY <3>1 DEF GenerateNode, GenerateBreakStatement, Jumps
    <3>2. CASE Child.type = "CONTINUE"
      BY <3>2 DEF GenerateNode, GenerateContinueStatement, Jumps
    <3> QED BY <3>1, <3>2, <1>6
  <2>3. op \in Simple /\ Wrote(op)
    BY <2>1, <2>2, <1>4, LineIsWritten
  <2> QED BY <2>2, <2>3, <1>2 DEF PlainStep
<1>7. CASE Child.type \notin {"STATEMENT", "WHILE", "FOR", "IF", "BREAK", "CONTINUE"}
  <2>1. EmitNothing /\ ToNext
    BY <1>7 DEF GenerateNode
  <2> QED BY <2>1, <1>2, NothingOrAssigned
<1> QED BY <1>5, <1>6, <1>7

LEMMA AssignmentIsWritten ==
  ASSUME NEW node \in Nodes
  PROVE  /\ EmitVariableAssignment(node) =>
              EmitNothing \/ \E name \in Names : EmitLine("assign", name)
         /\ EmitVariableInitializer(node) =>
              EmitNothing \/ \E name \in Names : EmitLine("assign", name)
<1>1. node.value \in Names
  BY NodeFacts
<1>2. Len(node.children) = 2 => node.children[1].value \in Names
  BY NodeFacts
<1> QED BY <1>1, <1>2 DEF EmitVariableAssignment, EmitVariableInitializer

LEMMA FunctionBodyStep ==
  ASSUME EmissionInv, GenerateFunctionBody
  PROVE  PlainStep
<1>1. /\ stack # <<>> /\ Top.node.type = "FUNCTION_DECL"
      /\ Top.next \in DOMAIN Top.node.children
  BY DEF GenerateFunctionBody, At
<1>2. "FUNCTION_DECL" \notin Loops \cup {"IF", "BINARY_EXPR"}
  BY DEF Loops
<1>3. SameBlock
  BY <1>1, <1>2, EmissionFacts, SameBlockIf
<1>4. CASE GenerateNode(Child)
  BY <1>1, <1>2, <1>3, <1>4, NodeIsGenerated
<1>5. CASE EmitNothing /\ ToNext
  BY <1>1, <1>3, <1>5, GoesOn, NothingOrAssigned
<1> QED BY <1>4, <1>5 DEF GenerateFunctionBody

LEMMA StatementBlockStep ==
  ASSUME EmissionInv, GenerateStatementBlock
  PROVE  PlainStep
<1>1. /\ stack # <<>> /\ Top.node.type = "STATEMENT"
      /\ Top.next \in DOMAIN Top.node.children
  BY DEF GenerateStatementBlock, At
<1>2. "STATEMENT" \notin Loops \cup {"IF", "BINARY_EXPR"}
  BY DEF Loops
<1>3. SameBlock
  BY <1>1, <1>2, EmissionFacts, SameBlockIf
<1>4. Child \in Nodes /\ MayCall(Child)
  BY <1>1, <1>2, EmissionFacts, ChildFacts
<1>5. ToNext => Goes
  BY <1>1, GoesOn
<1>6. CASE /\ EmitNothing \/ \E name \in Names : EmitLine("assign", name)
           /\ ToNext
  BY <1>1, <1>3, <1>5, <1>6, NothingOrAssigned
<1>7. CASE GenerateNode(Child)
  BY <1>1, <1>2, <1>3, <1>7, NodeIsGenerated
<1>8. CASE EmitExpressionAsReturn(Child)
  <2>1. CASE Child.type = "BINARY_EXPR"
    <3>1. Call(Child, 1) /\ EmitNothing
      BY <1>8, <2>1 DEF EmitExpressionAsReturn
    <3>2. Goes
      BY <3>1, <1>1, <1>4, GoesOn
    <3> QED BY <3>1, <3>2, <1>1, <1>3, NothingOrAssigned
  <2>2. CASE Child.type # "BINARY_EXPR"
    <3>1. EmitLine("assign", "result") /\ ToNext /\ "result" \in Names
      BY <1>8, <2>2, TreeAssumption DEF EmitExpressionAsReturn
    <3> QED BY <3>1, <1>6
  <2> QED BY <2>1, <2>2
<1>9. \/ EmitVariableInitializer(Child) /\ ToNext
      \/ EmitVariableAssignment(Child) /\ ToNext
      \/ GenerateNode(Child)
      \/ EmitExpressionAsReturn(Child)
      \/ EmitNothing /\ ToNext
  BY DEF GenerateStatementBlock
<1> QED BY <1>4, <1>6, <1>7, <1>8, <1>9, AssignmentIsWritten

LEMMA BranchStep ==
  ASSUME EmissionInv, GenerateBranch
  PROVE  PlainStep
<1>1. /\ stack # <<>> /\ Top.node.type \in {"ELSE_IF", "ELSE"}
      /\ Top.next \in DOMAIN Top.node.children
  BY DEF GenerateBranch, At
<1>2. Top.node.type \notin Loops \cup {"IF", "BINARY_EXPR"}
  BY <1>1 DEF Loops
<1>3. SameBlock
  BY <1>1, <1>2, EmissionFacts, SameBlockIf
<1> QED BY <1>1, <1>2, <1>3, NodeIsGenerated DEF GenerateBranch

LEMMA WhileStep ==
  ASSUME EmissionInv, GenerateWhileLoop
  PROVE  StepKinds
<1>1. /\ stack # <<>> /\ Top.node.type = "WHILE" /\ stack \in Seq(Frames)
      /\ Top.next \in DOMAIN Top.node.children
  BY EmissionFacts DEF GenerateWhileLoop, At
<1>2. /\ "WHILE" \in Loops /\ Top.next \in Nat \ {0} /\ Child.value \in Names
      /\ Behind.node = Top.node /\ Behind.next = Top.next + 1
      /\ ConditionIndex(Top.node) = 1
  BY <1>1, AdvancedIs, ChildFacts, NodeFacts DEF Loops, ConditionIndex, HasInit
<1>3. CASE Top.next = 1
  <2>1. EmitBegin("while", Child.value) /\ ToNext /\ "while" \in Openers
    BY <1>3 DEF GenerateWhileLoop, Openers
  <2>2. Wrote("while")
    BY <2>1, <1>2, BeginIsWritten
  <2>3. Goes /\ stack' = Advanced
    BY <2>1, <1>1, GoesOn DEF ToNext
  <2>4. ~ HasOpened(Top) /\ HasOpened(Behind) /\ KindFits("while", Behind)
    BY <1>1, <1>2, <1>3 DEF HasOpened, KindFits
  <2> QED BY <2>1, <2>2, <2>3, <2>4, <1>1 DEF OpenStep, StepKinds
<1>4. CASE Top.next # 1
  <2>1. HasOpened(Top)
    BY <1>1, <1>2, <1>4 DEF HasOpened
  <2>2. SameBlock
    BY <2>1, <1>1, SameBlockIf
  <2>3. GenerateNode(Child)
    BY <1>4 DEF GenerateWhileLoop
  <2> QED BY <2>1, <2>2, <2>3, <1>1, NodeIsGenerated DEF StepKinds
<1> QED BY <1>3, <1>4

LEMMA ForStep ==
  ASSUME EmissionInv, GenerateForLoop
  PROVE  StepKinds
<1>1. /\ stack # <<>> /\ Top.node.type = "FOR" /\ stack \in Seq(Frames)
      /\ Top.next \in DOMAIN Top.node.children
  BY EmissionFacts DEF GenerateForLoop, At
<1>2. /\ "FOR" \in Loops /\ Top.next \in Nat \ {0} /\ Child \in Nodes
      /\ Child.value \in Names
      /\ Behind.node = Top.node /\ Behind.next = Top.next + 1
      /\ ConditionIndex(Top.node) \in {1, 2}
  BY <1>1, AdvancedIs, ChildFacts, NodeFacts, ConditionIsEarly DEF Loops
<1>3. ToNext => Goes
  BY <1>1, GoesOn
<1>4. /\ HasOpened(Top) <=> Top.next > ConditionIndex(Top.node)
      /\ HasOpened(Behind) <=> Top.next + 1 > ConditionIndex(Top.node)
  BY <1>1, <1>2 DEF HasOpened
<1>5. CASE /\ Top.next < ConditionIndex(Top.node)
           /\ GenerateForInit(Unwrapped(Child)) /\ ToNext
  <2>1. Unwrapped(Child) \in Nodes
    <3>1. Len(Child.children) = 1 => Child.children[1] \in Nodes
      BY <1>2, NodeFacts
    <3> QED BY <3>1, <1>2 DEF Unwrapped
  <2>2. EmitNothing \/ \E name \in Names : EmitLine("assign", name)
    BY <2>1, <1>5, AssignmentIsWritten DEF GenerateForInit
  <2>3. ~ HasOpened(Behind)
    BY <1>2, <1>4, <1>5
  <2>4. SameBlock
    BY <2>3, <1>1, SameBlockIf
  <2> QED BY <2>2, <2>4, <1>1, <1>3, <1>5, NothingOrAssigned DEF StepKinds
<1>6. CASE /\ Top.next = ConditionIndex(Top.node)
           /\ EmitBegin("while", Child.value) /\ ToNext
  <2>1. Wrote("while") /\ "while" \in Openers
    BY <1>2, <1>6, BeginIsWritten DEF Openers
  <2>2. Goes /\ stack' = Advanced
    BY <1>3, <1>6 DEF ToNext
  <2>3. ~ HasOpened(Top) /\ HasOpened(Behind)
    BY <1>2, <1>4, <1>6
  <2>4. KindFits("while", Behind)
    BY <1>1, <1>2 DEF KindFits
  <2> QED BY <2>1, <2>2, <2>3, <2>4, <1>1 DEF OpenStep, StepKinds
<1>7. CASE /\ Top.next > ConditionIndex(Top.node)
           /\ IF IsIncrement(Top.node, Top.next)
              THEN GenerateForIncrement(Child) /\ ToNext
              ELSE GenerateNode(Child)
  <2>1. HasOpened(Top)
    BY <1>4, <1>7
  <2>2. SameBlock
    BY <2>1, <1>1, SameBlockIf
  <2>3. CASE GenerateForIncrement(Child) /\ ToNext
    <3>1. EmitNothing \/ \E name \in Names : EmitLine("assign", name)
      BY <2>3, <1>2, AssignmentIsWritten DEF GenerateForIncrement
    <3> QED BY <3>1, <2>2, <2>3, <1>1, <1>3, NothingOrAssigned DEF StepKinds
  <2>4. CASE GenerateNode(Child)
    BY <2>1, <2>2, <2>4, <1>1, NodeIsGenerated DEF StepKinds
  <2> QED BY <2>3, <2>4, <1>7
<1> QED BY <1>5, <1>6, <1>7 DEF GenerateForLoop

LEMMA IfStep ==
  ASSUME EmissionInv, GenerateIfStatement
  PROVE  StepKinds
<1>1. /\ stack # <<>> /\ Top.node.type = "IF" /\ stack \in Seq(Frames)
      /\ Top.next \in DOMAIN Top.node.children
  BY EmissionFacts DEF GenerateIfStatement, At
<1>0. "IF" \notin Loops
  BY DEF Loops
<1>2. /\ Top.next \in Nat \ {0} /\ Top.node \in Nodes /\ Child \in Nodes
      /\ Child.value \in Names /\ MayCall(Child)
      /\ Behind.node = Top.node /\ Behind.next = Top.next + 1
      /\ ConditionIndex(Top.node) = 1
      /\ Top.next <= Len(Top.node.children) /\ Len(Top.node.children) \in Nat
  BY <1>0, <1>1, AdvancedIs, ChildFacts, NodeFacts DEF ConditionIndex, HasInit
<1>3. ToNext => Goes
  BY <1>1, GoesOn
<1>4. CASE Top.next = 1 /\ EmitBegin("if", Child.value) /\ ToNext
  <2>1. Wrote("if") /\ "if" \in Openers
    BY <1>2, <1>4, BeginIsWritten DEF Openers
  <2>2. Goes /\ stack' = Advanced
    BY <1>3, <1>4 DEF ToNext
  <2>3. ~ HasOpened(Top) /\ HasOpened(Behind)
    BY <1>1, <1>2, <1>4 DEF HasOpened
  <2>4. KindFits("if", Behind)
    BY <1>0, <1>1, <1>2 DEF KindFits
  <2> QED BY <2>1, <2>2, <2>3, <2>4, <1>1 DEF OpenStep, StepKinds
<1>5. Top.next > 1 => HasOpened(Top) /\ SameBlock
  <2> SUFFICES ASSUME Top.next > 1 PROVE HasOpened(Top) /\ SameBlock
    OBVIOUS
  <2>1. HasOpened(Top)
    BY <1>1, <1>2 DEF HasOpened
  <2> QED BY <2>1, <1>1, SameBlockIf
<1>6. Top.next > 1 => \A kinds : "if" \in kinds => Innermost(kinds)
  <2> SUFFICES ASSUME Top.next > 1, NEW kinds, "if" \in kinds
               PROVE  Innermost(kinds)
    OBVIOUS
  <2>1. open # <<>> /\ KindFits(Last(open).kind, Top)
    BY <1>1, <1>5, TopIsInnermost
  <2>2. PICK kind : kind = Last(open).kind
    OBVIOUS
  <2>3. ~ (Top.next > Len(Top.node.children))
    BY <1>2
  <2>4. kind = "if"
    BY <2>1, <2>2, <2>3, <1>1, KindIs
  <2> QED BY <2>1, <2>2, <2>4 DEF Innermost
<1>7. CASE /\ Top.next > 1 /\ Child.type = "ELSE_IF"
           /\ IF Child.children = <<>> THEN EmitNothing /\ ToNext
              ELSE EmitBranch("elsif", Child.children[1].value) /\ Call(Child, 2)
  <2>1. CASE EmitNothing /\ ToNext
    BY <2>1, <1>1, <1>3, <1>5, <1>7, NothingOrAssigned DEF StepKinds
  <2>2. CASE /\ Child.children # <<>> /\ Call(Child, 2)
             /\ EmitBranch("elsif", Child.children[1].value)
    <3>1. Child.children[1] \in Nodes
      BY <2>2, <1>2, NodeFacts
    <3>2. Child.children[1].value \in Names
      BY <3>1, NodeFacts
    <3>3. "elsif" \in Branches /\ "elsif" \in Simple
      BY DEF Simple, Operations, Openers, Closers, Branches, Jumps
    <3>4. Wrote("elsif")
      <4>1. Innermost({"if"})
        BY <1>6, <1>7
      <4> QED BY <4>1, <3>2, <3>3, <2>2, BranchIsWritten
    <3>5. Goes
      <4>1. ~ HasOpened(Frame(Child, 2))
        BY <1>7, NotOpenedYet
      <4> QED BY <4>1, <2>2, <1>1, <1>2 DEF Goes, Call
    <3> QED BY <3>3, <3>4, <3>5, <1>1, <1>5, <1>7 DEF PlainStep, StepKinds
  <2> QED BY <2>1, <2>2, <1>7
<1>8. CASE /\ Top.next > 1 /\ Child.type = "ELSE"
           /\ GenerateElse /\ Call(Child, 1)
  <2>1. "else" \in Branches
    BY DEF Branches
  <2>2. Wrote("else")
    <3>1. Innermost({"if"})
      BY <1>6, <1>8
    <3>2. "" \in Names /\ EmitBranch("else", "")
      BY <1>8, TreeAssumption DEF GenerateElse
    <3> QED BY <3>1, <3>2, <2>1, BranchIsWritten
  <2>3. Goes
    BY <1>1, <1>2, <1>8, GoesOn
  <2>4. Behind.next > Len(Behind.node.children)
    <3>1. Top.next = Len(Top.node.children)
      BY <1>1, <1>2, <1>8, TreeAssumption DEF Child
    <3> QED BY <3>1, <1>2
  <2>5. KindFits("else", Behind)
    BY <2>4, <1>0, <1>1, <1>2 DEF KindFits
  <2> QED BY <2>2, <2>3, <2>5, <1>1, <1>5, <1>8 DEF ElseStep, StepKinds
<1>9. CASE /\ Top.next > 1 /\ Child.type \notin {"ELSE_IF", "ELSE"}
           /\ GenerateNode(Child)
  BY <1>0, <1>1, <1>5, <1>9, NodeIsGenerated DEF StepKinds
<1> QED BY <1>4, <1>7, <1>8, <1>9 DEF GenerateIfStatement

LEMMA EndLoopStep ==
  ASSUME EmissionInv, EndLoop
  PROVE  StepKinds
<1>1. stack # <<>> /\ Top.node.type \in Loops /\ Leave
  BY DEF EndLoop, Ended
<1>2. CASE HasOpened(Top)
  <2>1. EmitEnd("end loop") /\ "end loop" \in Closers
    BY <1>2 DEF EndLoop, Closers
  <2>2. open # <<>> /\ Last(open).kind = "while"
    BY <1>1, <1>2, TopIsInnermost, KindIs
  <2>3. MayFollow("end loop")
    <3>1. Innermost({"while"})
      BY <2>2 DEF Innermost
    <3> QED BY <3>1, Zenon DEF MayFollow, Branches, Jumps
  <2>4. Wrote("end loop")
    BY <2>1, <2>2, <2>3, EndIsWritten
  <2> QED BY <2>1, <2>4, <1>1, <1>2 DEF CloseStep, StepKinds
<1>3. CASE ~ HasOpened(Top)
  <2>1. Quiet
    BY <1>3 DEF EndLoop, EmitNothing, Quiet
  <2> QED BY <2>1, <1>1, <1>3 DEF CloseStep, StepKinds
<1> QED BY <1>2, <1>3

LEMMA EndIfIsWritten ==
  ASSUME EmissionInv, open # <<>>, Last(open).kind \in {"if", "else"},
         EmitEnd("end if")
  PROVE  "end if" \in Closers /\ Wrote("end if")
<1>1. "end if" \in Closers
  BY DEF Closers
<1>2. MayFollow("end if")
  <2>1. Innermost({"if", "else"})
    BY DEF Innermost
  <2> QED BY <2>1, Zenon DEF MayFollow, Branches, Jumps
<1> QED BY <1>1, <1>2, EndIsWritten

LEMMA EndIfStep ==
  ASSUME EmissionInv, EndIf
  PROVE  StepKinds
<1>1. stack # <<>> /\ Top.node.type = "IF" /\ Leave
  BY DEF EndIf, Ended
<1>2. CASE HasOpened(Top)
  <2>1. EmitEnd("end if")
    BY <1>2 DEF EndIf
  <2>2. open # <<>> /\ Last(open).kind \in {"if", "else"}
    BY <1>1, <1>2, TopIsInnermost, KindIs
  <2> QED BY <2>1, <2>2, <1>1, <1>2, EndIfIsWritten DEF CloseStep, StepKinds
<1>3. CASE ~ HasOpened(Top)
  <2>1. Quiet
    BY <1>3 DEF EndIf, EmitNothing, Quiet
  <2> QED BY <2>1, <1>1, <1>3 DEF CloseStep, StepKinds
<1> QED BY <1>2, <1>3

LEMMA EndBlockStep ==
  ASSUME EmissionInv, EndBlock
  PROVE  StepKinds
<1>1. /\ stack # <<>> /\ Leave /\ Quiet
      /\ Top.node.type \in {"FUNCTION_DECL", "STATEMENT", "ELSE_IF", "ELSE"}
  BY DEF EndBlock, Ended, EmitNothing, Quiet
<1>2. ~ HasOpened(Top)
  BY <1>1 DEF HasOpened, Loops
<1> QED BY <1>1, <1>2 DEF CloseStep, StepKinds

LEMMA BooleanCases ==
  ASSUME NEW next, next = Top.next, EmitBooleanAsReturn
  PROVE  /\ next = 1 => EmitBegin("if", Top.node.value) /\ ToNext
         /\ next \in {2, 4} => EmitLine("assign", "result") /\ ToNext
         /\ next = 3 => EmitBranch("else", "") /\ ToNext
         /\ next = 5 => EmitEnd("end if") /\ Leave
<1>1. 1 \notin {2, 4} /\ 3 \notin {2, 4} /\ 5 \notin {2, 4} /\ 1 # 3 /\ 1 # 5 /\ 3 # 5
  OBVIOUS
<1> QED BY <1>1, Zenon DEF EmitBooleanAsReturn

LEMMA BooleanStep ==
  ASSUME EmissionInv, EmitBooleanAsReturn
  PROVE  StepKinds
<1>1. /\ stack # <<>> /\ Top.node.type = "BINARY_EXPR" /\ stack \in Seq(Frames)
  BY EmissionFacts DEF EmitBooleanAsReturn
<1>0. "BINARY_EXPR" \notin Loops
  BY DEF Loops
<1>2. PICK n \in Nat \ {0} :
        /\ n = Len(stack) /\ Top = stack[n] /\ Top \in Frames
        /\ Behind.node = Top.node /\ Behind.next = Top.next + 1
  BY <1>1, AdvancedIs
<1>3. /\ Top.next \in {1, 2, 3, 4, 5} /\ Top.node \in Nodes
      /\ Top.node.value \in Names
  <2>1. Top.next \in Nat \ {0} /\ Top.node \in Nodes
    BY <1>2 DEF Frames
  <2>2. Top.next <= 5
    <3>1. n \in DOMAIN stack
      BY <1>1, <1>2, SeqFacts
    <3> QED BY <3>1, <1>1, <1>2 DEF EmissionInv, Booleans
  <2> QED BY <2>1, <2>2, NodeFacts
<1>4. /\ HasOpened(Top) <=> Top.next > 1
      /\ HasOpened(Behind) <=> Top.next + 1 > 1
  <2>1. ConditionIndex(Top.node) = 1
    BY <1>1 DEF ConditionIndex, HasInit
  <2> QED BY <2>1, <1>1, <1>2 DEF HasOpened
<1>5. \A kind : /\ KindFits(kind, Top) <=> kind = IF Top.next <= 3 THEN "if" ELSE "else"
                /\ KindFits(kind, Behind) <=> kind = IF Top.next + 1 <= 3 THEN "if" ELSE "else"
  BY <1>0, <1>1, <1>2 DEF KindFits
<1>6. Top.next \in {1, 2, 3, 4} /\ ToNext => Goes /\ stack' = Advanced
  BY GoesOn DEF ToNext
<1>7. HasOpened(Top) => open # <<>> /\ KindFits(Last(open).kind, Top)
  BY <1>1, TopIsInnermost
<1>8. CASE Top.next = 1
  <2>1. EmitBegin("if", Top.node.value) /\ ToNext
    BY <1>8, Zenon, BooleanCases
  <2>2. Wrote("if") /\ "if" \in Openers
    BY <2>1, <1>3, BeginIsWritten DEF Openers
  <2>3. ~ HasOpened(Top) /\ HasOpened(Behind) /\ KindFits("if", Behind)
    BY <1>4, <1>5, <1>8
  <2> QED BY <2>1, <2>2, <2>3, <1>1, <1>6, <1>8 DEF OpenStep, StepKinds
<1>9. CASE Top.next \in {2, 4}
  <2>1. EmitLine("assign", "result") /\ ToNext /\ "result" \in Names
    BY <1>9, TreeAssumption, Zenon, BooleanCases
  <2>2. SameBlock
    BY <1>4, <1>5, <1>9 DEF SameBlock
  <2> QED BY <2>1, <2>2, <1>1, <1>6, <1>9, NothingOrAssigned DEF StepKinds
<1>10. CASE Top.next = 3
  <2>1. EmitBranch("else", "") /\ ToNext /\ "" \in Names
    BY <1>10, TreeAssumption, Zenon, BooleanCases
  <2>2. Innermost({"if"})
    <3>1. open # <<>> /\ Last(open).kind = "if"
      BY <1>4, <1>5, <1>7, <1>10
    <3> QED BY <3>1 DEF Innermost
  <2>3. Wrote("else")
    <3>1. "else" \in Branches
      BY DEF Branches
    <3> QED BY <3>1, <2>1, <2>2, BranchIsWritten
  <2>4. HasOpened(Top) /\ KindFits("else", Behind)
    BY <1>4, <1>5, <1>10
  <2> QED BY <2>1, <2>3, <2>4, <1>1, <1>6, <1>10 DEF ElseStep, StepKinds
<1>11. CASE Top.next = 5
  <2>1. EmitEnd("end if") /\ Leave
    BY <1>11, Zenon, BooleanCases
  <2>2. HasOpened(Top)
    BY <1>4, <1>11
  <2>3. open # <<>> /\ Last(open).kind \in {"if", "else"}
    BY <2>2, <1>5, <1>7
  <2> QED BY <2>1, <2>2, <2>3, <1>1, EndIfIsWritten DEF CloseStep, StepKinds
<1> QED BY <1>3, <1>8, <1>9, <1>10, <1>11

LEMMA EveryStep ==
  ASSUME EmissionInv, Next
  PROVE  StepKinds
<1>1. CASE PlainStep
  BY <1>1 DEF StepKinds
<1> QED BY <1>1, FunctionBodyStep, StatementBlockStep, BranchStep, BooleanStep,
           WhileStep, ForStep, EndLoopStep, IfStep, EndIfStep, EndBlockStep
        DEF Next, Generate

LEMMA EmissionInit == Init => EmissionInv
<1> SUFFICES ASSUME NEW function \in Outside, function.type = "FUNCTION_DECL",
                    Begin(function)
             PROVE  EmissionInv
  BY DEF Init
<1>1. text = <<>> /\ open = <<>> /\ indent = BodyIndent
      /\ stack = <<Frame(function, 1)>>
  BY DEF Begin, TextInit
<1>2. PICK frame : frame = Frame(function, 1)
  OBVIOUS
<1>3. frame \in Frames /\ frame.node = function /\ ~ HasOpened(frame)
  <2>1. ~ HasOpened(frame)
    BY <1>2, NotOpenedYet
  <2>2. function \in Nodes
    BY DEF Nodes
  <2> QED BY <1>2, <2>1, <2>2 DEF Frame, Frames
<1>4. /\ stack \in Seq(Frames) /\ Len(stack) = 1 /\ stack[1] = frame
      /\ DOMAIN stack = {1}
  BY <1>1, <1>2, <1>3
<1>5. TextInv
  BY <1>1 DEF TextInv, TextTypes, BlocksOpen, Accounted, WellNested
<1>6. Booleans /\ LoopsOpen
  BY <1>3, <1>4 DEF Booleans, LoopsOpen
<1>7. Opened(<<>>, stack, open)
  BY <1>1, <1>3, <1>4 DEF Opened
<1>8. indent = BodyIndent + Len(open)
  BY <1>1 DEF BodyIndent
<1>9. <<>> \in Seq(Nat)
  OBVIOUS
<1> QED BY <1>4, <1>5, <1>6, <1>7, <1>8, <1>9 DEF EmissionInv

LEMMA EmissionNext == EmissionInv /\ [Next]_vars => EmissionInv'
<1> SUFFICES ASSUME EmissionInv, [Next]_vars PROVE EmissionInv'
  OBVIOUS
<1>1. CASE Next
  BY <1>1, EveryStep, StepsKeep
<1>2. CASE UNCHANGED vars
  <2>1. text' = text /\ open' = open /\ stack' = stack /\ indent' = indent
    BY <1>2 DEF vars
  <2>2. TextInv'
    BY <2>1, TextStutters DEF EmissionInv
  <2>3. Booleans' /\ LoopsOpen'
    BY <2>1 DEF EmissionInv, Booleans, LoopsOpen
  <2>4. \A at : Opened(at, stack, open) => Opened(at, stack, open)'
    BY <2>1 DEF Opened
  <2> QED BY <2>1, <2>2, <2>3, <2>4 DEF EmissionInv
<1> QED BY <1>1, <1>2

LEMMA EmissionAlways == Spec => []EmissionInv
BY EmissionInit, EmissionNext, PTL DEF Spec

\* Every line that code generation writes for a function is one that VHDL
\* allows behind those before it, at the indentation of the blocks that are
\* open, for every tree of statements the parser may build
\* (generate_statement_block and the functions it calls).
THEOREM WritesTheProcess == Spec => WritesProcess
<1>1. Init => TextInit
  BY DEF Init, Begin
<1>2. EmissionInv /\ [Next]_vars => [WriteLine]_<<text, open>>
  <2> SUFFICES ASSUME EmissionInv, [Next]_vars PROVE [WriteLine]_<<text, open>>
    OBVIOUS
  <2>1. CASE Next
    BY <2>1, EveryStep, StepsKeep
  <2>2. CASE UNCHANGED vars
    BY <2>2 DEF vars
  <2> QED BY <2>1, <2>2
<1> QED BY <1>1, <1>2, EmissionAlways, PTL DEF Spec, WritesProcess, TextSpec

\* The walk keeps to the tree, its lines are VHDL's and its indentation never
\* falls below zero.
THEOREM TypeCorrect == Spec => []TypeOK
<1>1. EmissionInv => TypeOK
  <2> SUFFICES ASSUME EmissionInv PROVE TypeOK
    OBVIOUS
  <2>1. indent \in Nat
    BY EmissionFacts DEF BodyIndent
  <2> QED BY <2>1 DEF EmissionInv, TextInv, TextTypes, TypeOK, Lines, Blocks, Frames
<1> QED BY <1>1, EmissionAlways, PTL

\* The text is well nested: every end and branch belongs to a block of its
\* kind, no branch follows an else, exit and next are in a loop.
THEOREM NestsWell == Spec => []WellNested
<1>1. EmissionInv => WellNested
  BY DEF EmissionInv, TextInv
<1> QED BY <1>1, EmissionAlways, PTL

LEMMA AllAreClosed ==
  ASSUME EmissionInv, stack = <<>>
  PROVE  open = <<>> /\ Closed /\ indent = BodyIndent
<1>1. PICK at \in Seq(Nat) : Opened(at, stack, open)
  BY DEF EmissionInv
<1>2. DOMAIN open = {}
  <2>1. DOMAIN stack = {}
    OBVIOUS
  <2> QED BY <2>1, <1>1 DEF Opened
<1>3. open = <<>> /\ Len(open) = 0
  BY <1>2, EmissionFacts
<1>4. Closed
  BY <1>2 DEF EmissionInv, TextInv, Accounted, Closed
<1> QED BY <1>3, <1>4, EmissionFacts DEF BodyIndent

\* Behind the last line every block has been closed and the indentation is the
\* process's (emit_architecture goes on with the end of the process).
THEOREM EndsAreBalanced == Spec => []EndsBalanced
<1>1. EmissionInv => EndsBalanced
  BY AllAreClosed DEF EndsBalanced
<1> QED BY <1>1, EmissionAlways, PTL

\* LinesNest: both of the lines a function has got so far.
THEOREM LinesNestWell == Spec => []LinesNest
<1>1. WellNested /\ EndsBalanced => LinesNest
  BY DEF LinesNest
<1> QED BY <1>1, NestsWell, EndsAreBalanced, PTL

-----------------------------------------------------------------------------
(* The run of the process.                                                    *)

LEMMA LeastIs ==
  ASSUME NEW S \in SUBSET Nat, S # {}
  PROVE  \E m \in S : \A x \in S : m <= x
<1> DEFINE less == OpToRel(<, Nat)
<1>1. less = {p \in Nat \X Nat : p[1] < p[2]}
  BY Zenon DEF OpToRel
<1>2. IsWellFoundedOn(less, Nat)
  BY NatLessThanWellFounded
<1> HIDE DEF less
<1>3. PICK m \in S : \A x \in S : ~ (<<x, m>> \in less)
  BY <1>2, WFMin
<1>4. \A x \in S : ~ (x < m)
  BY <1>1, <1>3
<1> QED BY <1>4

LEMMA GreatestIs ==
  ASSUME NEW n \in Nat, NEW S \in SUBSET (1..n), S # {}
  PROVE  \E m \in S : \A x \in S : x <= m
<1> DEFINE T == {t \in 0..n : n - t \in S}
<1>1. \A x \in S : n - x \in T
  OBVIOUS
<1>a. PICK x \in S : TRUE
  OBVIOUS
<1>b. T \in SUBSET Nat /\ n - x \in T
  BY <1>1
<1>2. PICK t \in T : \A y \in T : t <= y
  BY <1>b, LeastIs
<1>3. t \in 0..n /\ n - t \in S
  BY <1>2
<1>4. \A y \in S : y \in 1..n /\ t <= n - y
  BY <1>1, <1>2
<1> QED BY <1>3, <1>4

\* The text of a function that has been generated.
Complete == TextTypes /\ WellNested /\ Closed

LEMMA CompleteFacts ==
  ASSUME Complete
  PROVE  /\ Len(text) \in Nat /\ DOMAIN text = 1..Len(text)
         /\ \A i \in 1..Len(text) : text[i].op \in Operations /\ text[i].indent \in Nat
<1>1. /\ Len(text) \in Nat /\ DOMAIN text = 1..Len(text)
      /\ \A i \in DOMAIN text : text[i] \in Lines
  BY SeqFacts DEF Complete, TextTypes
<1> QED BY <1>1 DEF Lines

\* If any line behind line i ends or continues its block, one is the nearest.
LEMMA NearestIs ==
  ASSUME Complete, NEW i \in 1..Len(text), NEW ops,
         NEW h \in (i + 1)..Len(text),
         text[h].indent = text[i].indent, text[h].op \in ops
  PROVE  /\ NearestAfter(i, ops) \in Candidates(i, ops)
         /\ NearestAfter(i, ops) <= h
<1>1. PICK n \in Nat : n = Len(text) /\ i \in 1..n
  BY CompleteFacts
<1> DEFINE S == Candidates(i, ops)
<1>2. S \in SUBSET Nat /\ h \in S
  BY <1>1 DEF Candidates
<1> HIDE DEF S
<1>3. \E m \in S : \A x \in S : m <= x
  BY <1>2, LeastIs
<1>4. Min(S) \in S /\ \A x \in S : Min(S) <= x
  BY <1>3, Zenon DEF Min
<1>5. NearestAfter(i, ops) = Min(S)
  BY <1>2 DEF NearestAfter, S
<1> QED BY <1>2, <1>4, <1>5 DEF S

\* Every block and every branch has an end behind it.
LEMMA EndIsBehind ==
  ASSUME Complete, NEW i \in 1..Len(text), text[i].op \in Openers \cup Branches
  PROVE  \E h \in (i + 1)..Len(text) :
           text[h].indent = text[i].indent /\ text[h].op \in Closers
<1>1. PICK n \in Nat : n = Len(text) /\ DOMAIN text = 1..n
  BY CompleteFacts
<1>2. ASSUME NEW k \in 1..n, text[k].op \in Openers
      PROVE  \E h \in (k + 1)..n : /\ text[h].op \in Closers
                                   /\ text[h].indent = text[k].indent
  <2>1. PICK h \in (k + 1)..n : text[h].op \in Closers /\ BelongsTo(h, k)
    BY <1>1, <1>2 DEF Complete, Closed
  <2> QED BY <2>1 DEF BelongsTo, Spans
<1>3. CASE text[i].op \in Openers
  BY <1>1, <1>2, <1>3
<1>4. CASE text[i].op \in Branches
  <2>1. PICK k \in 1..(i - 1) : BelongsTo(i, k)
    BY <1>1, <1>4 DEF Complete, WellNested
  <2>2. /\ text[k].op \in Openers /\ text[k].indent = text[i].indent
        /\ \A l \in (k + 1)..(i - 1) :
             \/ text[l].indent > text[k].indent
             \/ text[l].indent = text[k].indent /\ text[l].op \in Branches
    BY <2>1 DEF BelongsTo, Spans
  <2>3. k \in 1..n
    BY <1>1, <2>1
  <2>4. PICK h \in (k + 1)..n : text[h].op \in Closers /\ text[h].indent = text[k].indent
    BY <1>2, <2>2, <2>3
  <2>5. h # i
    BY <2>4, <1>4 DEF Closers, Branches
  <2>6. h \notin (k + 1)..(i - 1)
    <3>1. text[h].op \notin Branches
      BY <2>4 DEF Closers, Branches
    <3>2. text[h].indent \in Nat
      BY <2>4, <1>1, <2>3, CompleteFacts
    <3>3. ~ (text[h].indent > text[k].indent)
      BY <2>4, <3>2
    <3> QED BY <2>2, <3>1, <3>3
  <2>7. h \in (i + 1)..n
    BY <2>4, <2>5, <2>6, <1>1
  <2> QED BY <2>2, <2>4, <2>7, <1>1
<1> QED BY <1>3, <1>4

LEMMA EndOfIs ==
  ASSUME Complete, NEW i \in 1..Len(text), text[i].op \in Openers \cup Branches
  PROVE  /\ EndOf(i) \in (i + 1)..Len(text)
         /\ text[EndOf(i)].op \in Closers /\ text[EndOf(i)].indent = text[i].indent
<1>1. PICK h \in (i + 1)..Len(text) :
        text[h].indent = text[i].indent /\ text[h].op \in Closers
  BY EndIsBehind
<1>2. EndOf(i) \in Candidates(i, Closers)
  BY <1>1, NearestIs DEF EndOf
<1> QED BY <1>2, Zenon DEF Candidates

LEMMA OnwardIs ==
  ASSUME Complete, NEW i \in 1..(Len(text) + 1)
  PROVE  Onward(i) \in 1..(Len(text) + 1) /\ ~ Is(Onward(i), Branches)
<1>1. PICK n \in Nat : n = Len(text) /\ DOMAIN text = 1..n
  BY CompleteFacts
<1>2. CASE Is(i, Branches)
  <2>1. i \in 1..n /\ text[i].op \in Openers \cup Branches
    BY <1>1, <1>2 DEF Is
  <2>2. PICK e : e = EndOf(i)
    OBVIOUS
  <2>3. e \in (i + 1)..n /\ text[e].op \in Closers
    BY <2>1, <2>2, <1>1, EndOfIs
  <2>4. Onward(i) = e /\ e \in 1..(n + 1)
    BY <2>1, <2>2, <2>3, <1>2 DEF Onward
  <2> QED BY <2>3, <2>4, <1>1 DEF Is, Closers, Branches
<1>3. CASE ~ Is(i, Branches)
  BY <1>3 DEF Onward
<1> QED BY <1>2, <1>3

\* exit, next and the end of a loop have a loop around them.
NeedsLoop(i) == text[i].op \in Jumps \/ text[i].op = "end loop"

LEMMA LoopIsAround ==
  ASSUME Complete, NEW i \in 1..Len(text), NeedsLoop(i)
  PROVE  /\ LoopOf(i) \in 1..(i - 1) /\ text[LoopOf(i)].op = "while"
<1>1. PICK n \in Nat : n = Len(text) /\ DOMAIN text = 1..n
  BY CompleteFacts
<1>0. i \in 1..n /\ \A k \in 1..n : text[k].indent \in Nat
  BY <1>1, CompleteFacts
<1>2. PICK k \in 1..(i - 1) :
        /\ text[k].op = "while"
        /\ \A l \in (k + 1)..(i - 1) : ~ (/\ text[l].indent = text[k].indent
                                          /\ text[l].op \in Closers)
  <2>1. CASE text[i].op \in Jumps
    <3>1. PICK k \in 1..(i - 1) : InLoop(i, k)
      BY <2>1, <1>1 DEF Complete, WellNested
    <3>2. /\ text[k].op = "while"
          /\ \A l \in (k + 1)..i : text[l].indent > text[k].indent
      BY <3>1 DEF InLoop
    <3>3. k \in 1..n /\ \A l \in (k + 1)..(i - 1) : l \in (k + 1)..i
      BY <1>0
    <3>4. \A l \in (k + 1)..(i - 1) : text[l].indent # text[k].indent
      BY <3>2, <3>3, <1>0
    <3> QED BY <3>2, <3>4
  <2>2. CASE text[i].op = "end loop"
    <3>1. text[i].op \in Closers \cup Branches
      BY <2>2 DEF Closers
    <3>2. PICK k \in 1..(i - 1) : BelongsTo(i, k)
      BY <3>1, <1>1 DEF Complete, WellNested
    <3>3. /\ text[k].op = "while"
          /\ \A l \in (k + 1)..(i - 1) :
               \/ text[l].indent > text[k].indent
               \/ text[l].indent = text[k].indent /\ text[l].op \in Branches
      BY <3>2, <2>2 DEF BelongsTo, Spans
    <3>4. k \in 1..n
      BY <1>0
    <3>5. \A l \in (k + 1)..(i - 1) :
            ~ (text[l].indent = text[k].indent /\ text[l].op \in Closers)
      <4>1. \A l : text[l].op \in Closers => text[l].op \notin Branches
        BY DEF Closers, Branches
      <4> QED BY <4>1, <3>3, <3>4, <1>0
    <3> QED BY <3>3, <3>5
  <2> QED BY <2>1, <2>2 DEF NeedsLoop
<1>3. k \in LoopsAround(i)
  <2>1. k \in 1..n /\ text[k].op \in Openers \cup Branches
    BY <1>0, <1>2 DEF Openers
  <2>2. PICK e : e = EndOf(k)
    OBVIOUS
  <2>3. e \in (k + 1)..n /\ text[e].op \in Closers /\ text[e].indent = text[k].indent
    BY <2>1, <2>2, <1>1, EndOfIs
  <2>4. e \notin (k + 1)..(i - 1)
    BY <2>3, <1>2
  <2>5. e >= i
    BY <2>3, <2>4, <1>0, <1>2
  <2> QED BY <2>2, <2>5, <1>2 DEF LoopsAround
<1>4. LoopsAround(i) \in SUBSET (1..n)
  BY <1>0 DEF LoopsAround
<1>5. \E m \in LoopsAround(i) : \A l \in LoopsAround(i) : l <= m
  BY <1>1, <1>3, <1>4, GreatestIs
<1>6. LoopOf(i) \in LoopsAround(i)
  <2>1. Max(LoopsAround(i)) \in LoopsAround(i)
    BY <1>5, Zenon DEF Max
  <2> QED BY <2>1, <1>3 DEF LoopOf
<1> QED BY <1>6 DEF LoopsAround

LEMMA PerformIs ==
  ASSUME Complete, NEW outcome, Perform(outcome)
  PROVE  /\ pc \in 1..Len(text) /\ pc' \in 1..(Len(text) + 1)
         /\ Is(pc', Branches) => text[pc'].op = "elsif"
<1>1. PICK n \in Nat : n = Len(text) /\ DOMAIN text = 1..n
  BY CompleteFacts
<1>2. pc \in 1..n
  BY <1>1 DEF Perform, Is
<1>3. \A i \in 1..(n + 1) : Onward(i) \in 1..(n + 1) /\ ~ Is(Onward(i), Branches)
  BY <1>1, OnwardIs
<1>4. CASE outcome
  <2>1. pc' = Onward(pc + 1) /\ pc + 1 \in 1..(n + 1)
    BY <1>2, <1>4 DEF Perform
  <2> QED BY <2>1, <1>1, <1>2, <1>3
<1>5. CASE ~ outcome
  <2>1. pc' = Otherwise(pc) /\ text[pc].op \in Openers \cup Branches
    BY <1>5 DEF Perform, Is, Tests, Openers, Branches
  <2>2. PICK ops : ops = Closers \cup Branches
    OBVIOUS
  <2>3. PICK j : j = NearestAfter(pc, ops)
    OBVIOUS
  <2>4. j \in (pc + 1)..n
    <3>1. pc \in 1..Len(text)
      BY <1>1, <1>2
    <3>2. PICK h \in (pc + 1)..Len(text) :
            text[h].indent = text[pc].indent /\ text[h].op \in Closers
      BY <2>1, <3>1, EndIsBehind
    <3>3. text[h].op \in ops
      BY <2>2, <3>2
    <3>4. j \in Candidates(pc, ops)
      BY <2>3, <3>1, <3>2, <3>3, NearestIs
    <3> QED BY <3>4, <1>1 DEF Candidates
  <2>5. pc' = IF Is(j, {"elsif"}) THEN j ELSE Onward(j + 1)
    BY <2>1, <2>2, <2>3, Zenon DEF Otherwise
  <2>a. Is(j, {"elsif"}) => text[j].op = "elsif"
    BY DEF Is
  <2>6. j \in 1..(n + 1) /\ j + 1 \in 1..(n + 1)
    BY <2>4, <1>2
  <2> QED BY <2>5, <2>a, <2>6, <1>1, <1>2, <1>3
<1> QED BY <1>4, <1>5

LEMMA JumpIs ==
  ASSUME Complete, Jump
  PROVE  /\ pc \in 1..Len(text) /\ pc' \in 1..(Len(text) + 1)
         /\ ~ Is(pc', Branches)
<1>1. PICK n \in Nat : n = Len(text) /\ DOMAIN text = 1..n
  BY CompleteFacts
<1>2. pc \in 1..n /\ pc \in 1..Len(text)
  BY <1>1 DEF Jump, Is
<1>3. \A i \in 1..(n + 1) : Onward(i) \in 1..(n + 1) /\ ~ Is(Onward(i), Branches)
  BY <1>1, OnwardIs
<1>4. \/ pc' = Onward(pc + 1)
      \/ NeedsLoop(pc) /\ pc' = Onward(EndOf(LoopOf(pc)) + 1)
      \/ NeedsLoop(pc) /\ pc' = LoopOf(pc)
  <2>1. CASE text[pc].op = "end if"
    BY <2>1 DEF Jump
  <2>2. CASE text[pc].op = "exit"
    BY <2>2 DEF Jump, NeedsLoop, Jumps
  <2>3. CASE text[pc].op \notin {"end if", "exit"}
    <3>1. NeedsLoop(pc)
      BY <2>3 DEF Jump, Is, NeedsLoop, Jumps, Closers
    <3> QED BY <2>3, <3>1 DEF Jump
  <2> QED BY <2>1, <2>2, <2>3
<1>5. NeedsLoop(pc) =>
        /\ LoopOf(pc) \in 1..(pc - 1) /\ text[LoopOf(pc)].op = "while"
        /\ EndOf(LoopOf(pc)) \in (LoopOf(pc) + 1)..n
  <2> SUFFICES ASSUME NeedsLoop(pc)
               PROVE  /\ LoopOf(pc) \in 1..(pc - 1) /\ text[LoopOf(pc)].op = "while"
                      /\ EndOf(LoopOf(pc)) \in (LoopOf(pc) + 1)..n
    OBVIOUS
  <2>1. PICK k : k = LoopOf(pc)
    OBVIOUS
  <2>2. k \in 1..(pc - 1) /\ text[k].op = "while"
    BY <2>1, <1>2, LoopIsAround
  <2>3. k \in 1..Len(text) /\ text[k].op \in Openers \cup Branches
    BY <2>2, <1>1, <1>2 DEF Openers
  <2>4. EndOf(k) \in (k + 1)..n
    BY <2>3, <1>1, EndOfIs
  <2> QED BY <2>1, <2>2, <2>4
<1>6. PICK k, e : k = LoopOf(pc) /\ e = EndOf(k)
  OBVIOUS
<1>7. CASE pc' = Onward(pc + 1)
  <2>1. pc + 1 \in 1..(n + 1)
    BY <1>2
  <2> QED BY <2>1, <1>1, <1>2, <1>3, <1>7
<1>8. CASE NeedsLoop(pc) /\ pc' = Onward(EndOf(LoopOf(pc)) + 1)
  <2>1. k \in 1..(pc - 1) /\ e \in (k + 1)..n /\ pc' = Onward(e + 1)
    BY <1>5, <1>6, <1>8
  <2>2. e + 1 \in 1..(n + 1)
    BY <2>1, <1>2
  <2> QED BY <2>1, <2>2, <1>1, <1>2, <1>3
<1>9. CASE NeedsLoop(pc) /\ pc' = LoopOf(pc)
  <2>1. pc' = k /\ k \in 1..(pc - 1) /\ text[k].op = "while"
    BY <1>5, <1>6, <1>9
  <2>2. k \in 1..(n + 1)
    BY <2>1, <1>2
  <2>3. ~ Is(k, Branches)
    BY <2>1 DEF Is, Branches
  <2> QED BY <2>1, <2>2, <2>3, <1>1, <1>2
<1> QED BY <1>4, <1>7, <1>8, <1>9

ProcessInv == EmissionInv /\ PcOK

LEMMA ProcessIsKept == ProcessInv /\ [ProcessNext]_<<vars, pc>> => ProcessInv'
<1> SUFFICES ASSUME EmissionInv, PcOK, [ProcessNext]_<<vars, pc>>
             PROVE  EmissionInv' /\ PcOK'
  BY DEF ProcessInv
<1>1. stack = <<>> => Complete
  BY AllAreClosed DEF EmissionInv, TextInv, Complete
<1>2. PICK n \in Nat : n = Len(text) /\ DOMAIN text = 1..n
  BY EmissionFacts, SeqFacts DEF TextTypes
<1>3. CASE Generate /\ UNCHANGED pc
  <2>1. EmissionInv' /\ stack # <<>>
    <3>1. StepKinds
      BY <1>3, EveryStep DEF Next
    <3>2. stack # <<>>
      BY <3>1 DEF StepKinds, PlainStep, ElseStep, OpenStep, CloseStep
    <3> QED BY <3>1, <3>2, StepsKeep
  <2>2. pc = 0 /\ pc' = 0
    BY <2>1, <1>3 DEF PcOK
  <2>3. Len(text') \in Nat /\ DOMAIN text' = 1..Len(text')
    <3>1. text' \in Seq(Lines)
      BY <2>1 DEF EmissionInv, TextInv, TextTypes
    <3> QED BY <3>1, SeqFacts
  <2>4. ~ Is(pc, Branches)'
    BY <2>2, <2>3 DEF Is
  <2> QED BY <2>1, <2>2, <2>3, <2>4 DEF PcOK
<1>4. CASE UNCHANGED vars
  <2>0. /\ text' = text /\ stack' = stack /\ EmissionInv'
    <3>1. [Next]_vars
      BY <1>4
    <3> QED BY <3>1, <1>4, EmissionNext DEF vars
  <2>1. \/ /\ stack = <<>> /\ pc' \in 1..(n + 1)
           /\ Is(pc', Branches) => text[pc'].op = "elsif"
        \/ pc' = pc
    <3>1. CASE Activate
      <4>1. stack = <<>> /\ Complete /\ pc' = Onward(1)
        BY <3>1, <1>1 DEF Activate
      <4>2. 1 \in 1..(Len(text) + 1)
        BY <1>2
      <4>3. pc' \in 1..(Len(text) + 1) /\ ~ Is(pc', Branches)
        BY <4>1, <4>2, OnwardIs
      <4> QED BY <4>1, <4>3, <1>2
    <3>2. CASE Jump
      <4>1. pc \in 1..n
        BY <3>2, <1>2 DEF Jump, Is
      <4>2. stack = <<>>
        BY <4>1 DEF PcOK
      <4> QED BY <3>2, <4>2, <1>1, <1>2, JumpIs
    <3>3. CASE \E outcome \in BOOLEAN : Perform(outcome)
      <4>1. pc \in 1..n
        BY <3>3, <1>2 DEF Perform, Is
      <4>2. stack = <<>>
        BY <4>1 DEF PcOK
      <4> QED BY <3>3, <4>2, <1>1, <1>2, PerformIs
    <3>4. CASE UNCHANGED pc
      BY <3>4
    <3>5. CASE Generate /\ UNCHANGED pc
      BY <3>5
    <3> QED BY <3>1, <3>2, <3>3, <3>4, <3>5 DEF ProcessNext, Run
  <2>2. CASE pc' = pc
    BY <2>0, <2>2 DEF PcOK, Is
  <2>3. CASE /\ stack = <<>> /\ pc' \in 1..(n + 1)
             /\ Is(pc', Branches) => text[pc'].op = "elsif"
    <3>1. pc' \in 0..(Len(text') + 1)
      BY <2>0, <2>3, <1>2
    <3>2. Is(pc, Branches)' => text'[pc'].op = "elsif"
      BY <2>0, <2>3 DEF Is
    <3> QED BY <2>0, <2>3, <3>1, <3>2 DEF PcOK
  <2> QED BY <2>1, <2>2, <2>3
<1> QED BY <1>3, <1>4 DEF ProcessNext

\* The process that has been written can be run: from every line execution
\* goes on inside it or to its end, exit and next find their loop, and no
\* branch is entered from above (the text of emit_architecture's process).
THEOREM RunStaysInProcess == ProcessSpec => []PcOK
<1>1. ProcessInit => ProcessInv
  <2> SUFFICES ASSUME ProcessInit PROVE ProcessInv
    OBVIOUS
  <2>1. EmissionInv /\ pc = 0
    BY EmissionInit DEF ProcessInit
  <2>2. Len(text) \in Nat /\ DOMAIN text = 1..Len(text)
    BY <2>1, EmissionFacts, SeqFacts DEF TextTypes
  <2> QED BY <2>1, <2>2 DEF ProcessInv, PcOK, Is
<1>2. ProcessInv => PcOK
  BY DEF ProcessInv
<1> QED BY <1>1, <1>2, ProcessIsKept, PTL DEF ProcessSpec
=============================================================================
