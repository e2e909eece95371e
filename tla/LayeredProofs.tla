--------------------------- MODULE LayeredProofs ----------------------------
(* What is layered over the bracket parser, for every table, tab width and   *)
(* source.  The indent parser and the markdown wrapper over it: their nodes  *)
(* tile the source as the bracket parser's do, and the columns they hold     *)
(* open are the ones their array implies.  The declaration passes: through   *)
(* every carving their array renders the source.                             *)
EXTENDS MarkdownParser, Schemas, BracketParserProofs, OperatorProofs, FiniteSetTheorems

---------------------------------------------------------------------------
(* The two parsers keep the parse's invariant.                               *)

(* Where the blanks end: at a byte that is none, or at the end of the source.*)
LEMMA IndentedIs ==
  ASSUME source \in Seq(Byte), NEW pos \in Nat, pos =< Len(source)
  PROVE  Indented(pos) \in pos..Len(source)
<1> DEFINE S == {end \in pos..Len(source) : end = Len(source) \/ source[end + 1] \notin Blanks}
<1>1. Len(source) \in Nat /\ S \in SUBSET Nat /\ Len(source) \in S
  OBVIOUS
<1>2. PICK m \in S : \A end \in S : m =< end
  <2>. HIDE DEF S
  <2>1. S # {}
    BY <1>1
  <2>. QED BY <1>1, <2>1, NatLeast
<1>3. m \in pos..Len(source) /\ (m = Len(source) \/ source[m + 1] \notin Blanks)
  BY <1>2
<1>4. ASSUME NEW k \in (pos + 1)..m
      PROVE  source[k] \in Blanks
  <2>1. k - 1 \in pos..Len(source) /\ ~(m =< k - 1) /\ k - 1 # Len(source) /\ (k - 1) + 1 = k
    BY <1>1, <1>3
  <2>2. k - 1 \notin S
    BY <1>2, <2>1
  <2>. QED BY <2>1, <2>2
<1>. QED BY <1>3, <1>4 DEF Indented

(* A node is emitted by one of the two, and nothing else moves.              *)
LEMMA EmitsInv ==
  ASSUME ParseInv, NEW kind \in Markers, NEW n \in Nat, n > 0 \/ kind = "Indent",
         walk.pos + n =< Len(source), walk' = Emit(walk, kind, n),
         UNCHANGED <<source, stack, demoted>>
  PROVE  ParseInv'
<1>1. Sound(walk') /\ StackOK(walk', stack) /\ RecordsOK(walk', stack, demoted)
  BY NodeKept
<1>. QED BY <1>1, Primed

(* The root and the Indents take the blanks that begin their line.           *)
LEMMA IndentEmits ==
  ASSUME ParseInv, Root \/ Announce
  PROVE  /\ UNCHANGED <<source, stack, demoted>> /\ stack = <<>>
         /\ \E n \in Nat :
              /\ walk.pos + n =< Len(source) /\ walk' = Emit(walk, "Indent", n)
              /\ Root => n = 0
              /\ Announce => walk.pos + n = Indented(walk.pos)
<1>1. source \in Seq(Byte) /\ walk.pos \in Nat /\ walk.pos =< Len(source) /\ Len(source) \in Nat
  BY Typed DEF ParseInv, Sound, Tiled
<1>2. UNCHANGED <<source, stack, demoted>> /\ stack = <<>>
  BY DEF Root, Announce, Offered, AtTop
<1>3. CASE Root
  <2>1. walk' = Emit(walk, "Indent", 0) /\ walk.out = <<>> /\ ~Announce
    BY <1>3 DEF Root, Announce, Announces
  <2>. QED BY <1>1, <1>2, <2>1
<1>4. CASE Announce
  <2> DEFINE n == Indented(walk.pos) - walk.pos
  <2>1. walk' = Emit(walk, "Indent", n) /\ ~Root
    BY <1>4 DEF Announce, Announces, Root
  <2>2. n \in Nat /\ walk.pos + n = Indented(walk.pos) /\ walk.pos + n =< Len(source)
    <3>1. Indented(walk.pos) \in walk.pos..Len(source)
      BY <1>1, IndentedIs
    <3>. QED BY <1>1, <3>1
  <2>. HIDE DEF n
  <2>. QED BY <1>2, <2>1, <2>2
<1>. QED BY <1>2, <1>3, <1>4

(* A step of the indent parser keeps the parse's invariant.                  *)
LEMMA IndentStepInv ==
  ASSUME ParseInv, IndentNext
  PROVE  ParseInv'
<1>1. CASE Root \/ Announce
  <2>1. "Indent" \in Markers
    BY DEF Markers
  <2>. QED BY <1>1, <2>1, IndentEmits, EmitsInv
<1>2. CASE Delegate
  BY <1>2, ParseStep DEF Delegate
<1>. QED BY <1>1, <1>2 DEF IndentNext

(* The marker at a line head has bytes, and the source has them.             *)
LEMMA HeadEmits ==
  ASSUME ParseInv, MarkHead
  PROVE  /\ UNCHANGED <<source, stack, demoted, levels>> /\ stack = <<>> /\ walk.out # <<>>
         /\ \E kind \in Markers \ {"Indent", "Opener"}, n \in Nat :
              n > 0 /\ walk.pos + n =< Len(source) /\ walk' = Emit(walk, kind, n)
<1>1. PICK h \in Heads(SQE!Last(walk.out)) : walk' = Emit(walk, h.kind, Len(h.mark))
  BY DEF MarkHead
<1>2. \/ h \in MarkersAt("Checkbox", Checkboxes, walk.pos)
      \/ h \in MarkersAt("Heading", Headings, walk.pos)
      \/ h \in MarkersAt("ListItem", ListItems, walk.pos)
  BY <1>1 DEF Heads
<1>3. h.kind \in {"Checkbox", "Heading", "ListItem"} /\ Occurs(h.mark, walk.pos)
      /\ h.mark \in Checkboxes \cup Headings \cup ListItems
  BY <1>2 DEF MarkersAt
<1>4. Len(h.mark) \in Nat /\ Len(h.mark) > 0
  <2>1. CASE h.mark \in Checkboxes \cup ListItems
    <3>1. \A m \in ListItems : Len(m) = 2
      <4>1. Len(<<"-", " ">>) = 2
        OBVIOUS
      <4>. QED BY <4>1, Zenon DEF ListItems
    <3>2. \A m \in Checkboxes : Len(m) = 3
      <4>1. Len(<<"[", " ", "]">>) = 3 /\ Len(<<"[", "x", "]">>) = 3
        OBVIOUS
      <4>. QED BY <4>1, Zenon DEF Checkboxes
    <3>. QED BY <2>1, <3>1, <3>2
  <2>2. CASE h.mark \in Headings
    <3>1. PICK n \in 1..HeadingMax : h.mark = Append([k \in 1..n |-> "#"], " ")
      BY <2>2 DEF Headings
    <3> DEFINE s == [k \in 1..n |-> "#"]
    <3>2. s \in Seq({"#", " "}) /\ Len(s) = n
      OBVIOUS
    <3>. HIDE DEF s
    <3>3. " " \in {"#", " "}
      BY Zenon
    <3>4. Len(Append(s, " ")) = n + 1
      BY <3>2, <3>3, AppendProperties
    <3>5. Len(h.mark) = n + 1
      BY <3>1, <3>4, Zenon DEF s
    <3>. QED BY <3>5
  <2>. QED BY <1>3, <2>1, <2>2
<1>5. h.kind \in Markers \ {"Indent", "Opener"} /\ walk.pos + Len(h.mark) =< Len(source)
  BY <1>3 DEF Markers, Occurs
<1>6. UNCHANGED <<source, stack, demoted, levels>> /\ stack = <<>> /\ walk.out # <<>>
  BY DEF MarkHead, Declined, Offered, AtTop
<1>. QED BY <1>1, <1>4, <1>5, <1>6

(* So does a step of the wrapper.                                            *)
LEMMA MarkdownStepInv ==
  ASSUME ParseInv, MarkdownNext
  PROVE  ParseInv'
<1>1. CASE MarkHead
  BY <1>1, HeadEmits, EmitsInv
<1>. QED BY <1>1, IndentStepInv DEF MarkdownNext

\* What the initial states and every step of the indent parser keep.
THEOREM IndentInvariance == IndentSpec => []ParseInv
<1>1. IndentInit => ParseInv
  BY ParseBegins DEF IndentInit
<1>2. ParseInv /\ [IndentNext]_indentVars => ParseInv'
  BY IndentStepInv, ParseStays DEF indentVars
<1>. QED BY <1>1, <1>2, PTL DEF IndentSpec

\* And of the markdown wrapper.
THEOREM MarkdownInvariance == MarkdownSpec => []ParseInv
<1>1. IndentInit => ParseInv
  BY ParseBegins DEF IndentInit
<1>2. ParseInv /\ [MarkdownNext]_indentVars => ParseInv'
  BY MarkdownStepInv, ParseStays DEF indentVars
<1>. QED BY <1>1, <1>2, PTL DEF MarkdownSpec

\* Under the layered parsers too the document round-trips: with Indents, which
\* may be empty, and line-head markers among the nodes they tile what was read
\* (indent.go, Parse; schema/markdown.go, Parse).
THEOREM LayeredTiling == (IndentSpec => []NodesTile) /\ (MarkdownSpec => []NodesTile)
<1>1. ParseInv => NodesTile
  BY NodesTiled
<1>. QED BY <1>1, IndentInvariance, MarkdownInvariance, PTL

\* And a text run is everything between two nodes of another kind.
THEOREM LayeredRuns ==
  (IndentSpec => []TextRunsAreMaximal) /\ (MarkdownSpec => []TextRunsAreMaximal)
<1>1. ParseInv => TextRunsAreMaximal
  BY RunsMaximal
<1>. QED BY <1>1, IndentInvariance, MarkdownInvariance, PTL

\* And every demotion recorded is anchored at the bytes it took, though Indents
\* and markers were emitted around it.
THEOREM LayeredAnchoring ==
  (IndentSpec => []DemotionsAnchored) /\ (MarkdownSpec => []DemotionsAnchored)
<1>1. ParseInv => DemotionsAnchored
  BY RecordsAnchored
<1>. QED BY <1>1, IndentInvariance, MarkdownInvariance, PTL

---------------------------------------------------------------------------
(* What one more frame does to the open columns, in the parse and in the     *)
(* derivation.                                                               *)

\* The levels a parse holds where the derivation holds cols: the frame of a
\* return to the first column is the root to the parse.
Implied(cols, lv) == lv = IF Len(cols) > 1 /\ cols[2] = 0 THEN Tail(cols) ELSE cols

\* The columns the derivation holds after a frame at col; and the parse's.
FramedAt(cols, col) == Append(SubSeq(cols, 1, Kept(cols, col)), col)

Entered(lv, col) ==
  LET left == SubSeq(lv, 1, Kept(lv, col))
  IN  IF col > SQE!Last(left) THEN Append(left, col) ELSE left

\* Columns that are open: the root's first.
Rooted(cols) == cols \in Seq(Nat) /\ cols # <<>> /\ cols[1] = 0

\* The first c columns, those a frame at col leaves open; and a frame more.
Leaves(cols, col, c, left) == c = Kept(cols, col) /\ left = SubSeq(cols, 1, c)

LeftAt(cols, col, c, left) ==
  /\ c \in 1..Len(cols) /\ (c = 1 \/ cols[c] < col)
  /\ \A k \in 1..Len(cols) : k > c => cols[k] >= col
  /\ left \in Seq(Nat) /\ Len(left) = c
  /\ \A k \in 1..c : left[k] = cols[k]

Follows(cols, col, c, next) ==
  /\ Rooted(next) /\ Len(next) = c + 1 /\ next[c + 1] = col
  /\ \A k \in 1..c : next[k] = cols[k]

(* What is left open of a sequence of columns.                               *)
LEMMA LeftIs ==
  ASSUME NEW cols, Rooted(cols), NEW col \in Nat, NEW c, NEW left, Leaves(cols, col, c, left)
  PROVE  LeftAt(cols, col, c, left) /\ SQE!Last(left) = cols[c]
<1>1. cols \in Seq(Nat) /\ cols \in Seq(Int) /\ cols # <<>> /\ Len(cols) \in Nat
  BY DEF Rooted
<1>2. c \in 1..Len(cols) /\ (c = 1 \/ cols[c] < col)
      /\ \A k \in 1..Len(cols) : k > c => cols[k] >= col
  <2>1. cols \in Seq(Int) /\ col \in Int /\ cols # <<>>
    BY <1>1
  <2>2. /\ Kept(cols, col) \in 1..Len(cols)
        /\ Kept(cols, col) = 1 \/ cols[Kept(cols, col)] < col
        /\ \A k \in 1..Len(cols) : k > Kept(cols, col) => cols[k] >= col
    BY <2>1, KeptIs
  <2>. QED BY <2>2 DEF Leaves
<1>3. left \in Seq(Nat) /\ Len(left) = c /\ \A k \in 1..c : left[k] = cols[k]
  <2>1. c \in Nat /\ 0 \in Nat /\ 0 + c =< Len(cols)
    BY <1>1, <1>2
  <2>2. /\ SubSeq(cols, 0 + 1, 0 + c) \in Seq(Nat) /\ Len(SubSeq(cols, 0 + 1, 0 + c)) = c
        /\ \A k \in 1..c : SubSeq(cols, 0 + 1, 0 + c)[k] = cols[0 + k]
    BY <1>1, <2>1, SubSeqIs
  <2>3. left = SubSeq(cols, 0 + 1, 0 + c)
    BY <2>1 DEF Leaves
  <2>4. \A k \in 1..c : left[k] = cols[k]
    <3>1. \A k \in 1..c : 0 + k = k
      OBVIOUS
    <3>. QED BY <2>2, <2>3, <3>1
  <2>. QED BY <2>2, <2>3, <2>4
<1>4. SQE!Last(left) = cols[c]
  BY <1>2, <1>3 DEF SQE!Last
<1>. QED BY <1>2, <1>3, <1>4 DEF LeftAt

(* The columns after one more frame.                                         *)
LEMMA FramedIs ==
  ASSUME NEW cols, Rooted(cols), NEW col \in Nat, NEW c, NEW left, Leaves(cols, col, c, left),
         NEW next, next = Append(left, col)
  PROVE  next = FramedAt(cols, col) /\ Follows(cols, col, c, next)
<1>1. LeftAt(cols, col, c, left)
  BY LeftIs
<1>2. c \in 1..Len(cols) /\ left \in Seq(Nat) /\ Len(left) = c /\ \A k \in 1..c : left[k] = cols[k]
  BY <1>1 DEF LeftAt
<1>3. next \in Seq(Nat) /\ Len(next) = c + 1 /\ next[c + 1] = col
      /\ \A k \in 1..c : next[k] = left[k]
  BY <1>2
<1>4. next # <<>> /\ next[1] = 0
  <2>1. 1 \in 1..c /\ Len(next) # 0
    BY <1>2, <1>3
  <2>. QED BY <1>2, <1>3, <2>1 DEF Rooted
<1>5. next = FramedAt(cols, col)
  BY DEF Leaves, FramedAt
<1>. QED BY <1>2, <1>3, <1>4, <1>5 DEF Rooted, Follows

(* A column entered ends the levels, and they stay what the frames imply.    *)
LEMMA EnterFollows ==
  ASSUME NEW cols, Rooted(cols), NEW lv, Implied(cols, lv), NEW col \in Nat,
         NEW next, next = FramedAt(cols, col), NEW new, new = Entered(lv, col)
  PROVE  /\ Implied(next, new)
         /\ Rooted(new) /\ SQE!Last(new) = col
<1> DEFINE c == Kept(cols, col)
           e == Kept(lv, col)
           a == SubSeq(cols, 1, c)
           b == SubSeq(lv, 1, e)
           f == Append(b, col)
<1>a. Leaves(cols, col, c, a) /\ Leaves(lv, col, e, b)
  BY DEF Leaves
<1>b. next = Append(a, col) /\ f = Append(b, col)
  BY DEF FramedAt
<1>c. new = IF col > SQE!Last(b) THEN f ELSE b
  BY DEF Entered
<1>d. lv = cols => c = e /\ f = next
  BY DEF FramedAt
<1>. HIDE DEF c, e, a, b, f
<1>1. /\ cols \in Seq(Nat) /\ Len(cols) \in Nat /\ Len(cols) > 0 /\ cols[1] = 0
      /\ \A k \in 1..Len(cols) : cols[k] \in Nat
  BY DEF Rooted
<1>2. Rooted(lv)
  <2>1. CASE Len(cols) > 1 /\ cols[2] = 0
    <3>1. lv = Tail(cols)
      BY <2>1 DEF Implied
    <3>2. lv \in Seq(Nat) /\ Len(lv) = Len(cols) - 1 /\ lv[1] = cols[2]
      BY <1>1, <2>1, <3>1
    <3>. QED BY <1>1, <2>1, <3>2 DEF Rooted
  <2>2. CASE ~(Len(cols) > 1 /\ cols[2] = 0)
    BY <2>2 DEF Implied
  <2>. QED BY <2>1, <2>2
<1>l. /\ LeftAt(cols, col, c, a) /\ LeftAt(lv, col, e, b) /\ SQE!Last(b) = lv[e]
      /\ Follows(cols, col, c, next) /\ Follows(lv, col, e, f)
  BY <1>a, <1>b, <1>2, LeftIs, FramedIs
<1>3. /\ c \in 1..Len(cols) /\ (c = 1 \/ cols[c] < col)
      /\ \A k \in 1..Len(cols) : k > c => cols[k] >= col
  BY <1>l DEF LeftAt
<1>4. /\ e \in 1..Len(lv) /\ (e = 1 \/ lv[e] < col)
      /\ \A k \in 1..Len(lv) : k > e => lv[k] >= col
      /\ lv \in Seq(Nat) /\ lv[1] = 0 /\ Len(lv) \in Nat
      /\ \A k \in 1..Len(lv) : lv[k] \in Nat
  <2>1. /\ e \in 1..Len(lv) /\ (e = 1 \/ lv[e] < col)
        /\ \A k \in 1..Len(lv) : k > e => lv[k] >= col
    BY <1>l DEF LeftAt
  <2>2. lv \in Seq(Nat) /\ lv[1] = 0
    BY <1>2 DEF Rooted
  <2>. QED BY <2>1, <2>2
<1>5. Rooted(next) /\ Len(next) = c + 1 /\ next[c + 1] = col /\ \A k \in 1..c : next[k] = cols[k]
  BY <1>l DEF Follows
<1>6. Rooted(f) /\ Len(f) = e + 1 /\ f[e + 1] = col /\ \A k \in 1..e : f[k] = lv[k]
  BY <1>l DEF Follows
<1>7. /\ b \in Seq(Nat) /\ Len(b) = e /\ \A k \in 1..e : b[k] = lv[k]
      /\ new = IF col > lv[e] THEN f ELSE b
  BY <1>c, <1>l DEF LeftAt
<1>8. CASE col = 0
  <2>1. c = 1 /\ e = 1
    BY <1>1, <1>3, <1>4, <1>8
  <2>2. ~(col > lv[e])
    BY <1>4, <1>8, <2>1
  <2>3. new \in Seq(Nat) /\ Len(new) = 1 /\ new[1] = 0
    BY <1>4, <1>7, <2>1, <2>2
  <2>4. next \in Seq(Nat) /\ Len(next) = 2 /\ next[2] = 0 /\ next[1] = 0
    BY <1>5, <1>8, <2>1 DEF Rooted
  <2>5. Tail(next) \in Seq(Nat) /\ Len(Tail(next)) = 1 /\ Tail(next)[1] = 0
    <3>1. next # <<>>
      BY <2>4
    <3>2. /\ Tail(next) \in Seq(Nat) /\ Len(Tail(next)) = Len(next) - 1
          /\ \A k \in 1..Len(Tail(next)) : Tail(next)[k] = next[k + 1]
      BY <2>4, <3>1, HeadTailProperties
    <3> DEFINE u == Tail(next)
    <3>3. u \in Seq(Nat) /\ Len(u) = Len(next) - 1 /\ \A k \in 1..Len(u) : u[k] = next[k + 1]
      BY <3>2
    <3>. HIDE DEF u
    <3>4. Len(u) = 1 /\ u[1] = next[2]
      BY <2>4, <3>3
    <3>. QED BY <2>4, <3>3, <3>4 DEF u
  <2>6. new = Tail(next)
    <3> DEFINE u == Tail(next)
    <3>1. u \in Seq(Nat) /\ Len(u) = 1 /\ u[1] = 0
      BY <2>5
    <3>. HIDE DEF u
    <3>2. \A k \in 1..Len(new) : new[k] = u[k]
      BY <2>3, <3>1
    <3>3. new = u
      BY <2>3, <3>1, <3>2, SeqEqual
    <3>. QED BY <3>3 DEF u
  <2>7. Rooted(new) /\ SQE!Last(new) = col
    BY <1>8, <2>3 DEF Rooted, SQE!Last
  <2>. QED BY <2>4, <2>6, <2>7 DEF Implied
<1>9. CASE col # 0
  <2>1. col > lv[e]
    BY <1>4, <1>9
  <2>2. new = f
    BY <1>7, <2>1
  <2>3. Rooted(new) /\ new \in Seq(Nat) /\ Len(new) = e + 1 /\ new[e + 1] = col
        /\ \A k \in 1..e : new[k] = lv[k]
    BY <1>6, <2>2 DEF Rooted
  <2>4. SQE!Last(new) = col
    BY <2>3 DEF SQE!Last
  <2>5. CASE Len(cols) > 1 /\ cols[2] = 0
    <3>1. lv = Tail(cols)
      BY <2>5 DEF Implied
    <3>2. Len(lv) = Len(cols) - 1 /\ \A k \in 1..Len(lv) : lv[k] = cols[k + 1]
      BY <1>1, <2>5, <3>1
    <3>3. c = e + 1
      <4>1. c >= 2
        BY <1>1, <1>3, <1>9, <2>5
      <4>2. c - 1 \in 1..Len(lv) /\ lv[c - 1] = cols[c] /\ cols[c] < col
        BY <1>1, <1>3, <3>2, <4>1
      <4>3. ~(c - 1 > e)
        <5>1. ~(lv[c - 1] >= col)
          BY <1>1, <1>3, <4>2
        <5>. QED BY <1>4, <4>2, <5>1
      <4>4. e + 1 \in 1..Len(cols) /\ cols[e + 1] = lv[e] /\ lv[e] < col /\ cols[e + 1] \in Nat
        BY <1>1, <1>4, <2>1, <3>2, SMTT(30)
      <4>5. ~(e + 1 > c)
        BY <1>3, <4>4
      <4>. QED BY <1>3, <1>4, <4>3, <4>5
    <3>4. next[2] = 0 /\ Len(next) > 1 /\ next \in Seq(Nat)
      BY <1>4, <1>5, <2>5, <3>3 DEF Rooted
    <3>5. Tail(next) \in Seq(Nat) /\ Len(Tail(next)) = c
          /\ \A k \in 1..c : Tail(next)[k] = next[k + 1]
      BY <1>3, <1>5, <3>4
    <3>6. ASSUME NEW k \in 1..c
          PROVE  new[k] = Tail(next)[k]
      <4>1. CASE k = c
        BY <1>5, <2>3, <3>3, <3>5, <4>1
      <4>2. CASE k # c
        <5>1. k \in 1..e /\ k + 1 \in 1..c /\ k \in 1..Len(lv)
          BY <1>4, <3>3, <4>2
        <5>. QED BY <1>5, <2>3, <3>2, <3>5, <5>1
      <4>. QED BY <4>1, <4>2
    <3>7. new = Tail(next)
      BY <2>3, <3>3, <3>5, <3>6, SeqEqual
    <3>. QED BY <2>3, <2>4, <3>4, <3>7 DEF Implied
  <2>6. CASE ~(Len(cols) > 1 /\ cols[2] = 0)
    <3>1. lv = cols
      BY <2>6 DEF Implied
    <3>2. c = e /\ new = next
      BY <1>d, <2>2, <3>1
    <3>3. ~(Len(next) > 1 /\ next[2] = 0)
      <4>1. CASE c = 1
        BY <1>5, <1>9, <4>1
      <4>2. CASE c # 1
        <5>1. 2 \in 1..c /\ Len(cols) > 1
          BY <1>1, <1>3, <4>2
        <5>. QED BY <1>5, <2>6, <5>1
      <4>. QED BY <4>1, <4>2
    <3>. QED BY <2>3, <2>4, <3>2, <3>3 DEF Implied
  <2>. QED BY <2>5, <2>6
<1>. QED BY <1>8, <1>9

---------------------------------------------------------------------------
(* A parse leaves the Indents alone.                                         *)

NoIndents(w, n) == \A i \in (n + 1)..Len(w.out) : w.out[i].kind # "Indent"

SameIndents(w, v, n) ==
  /\ n =< Len(w.out) /\ n =< Len(v.out)
  /\ \A i \in 1..n :
       /\ v.out[i].kind = "Indent" <=> w.out[i].kind = "Indent"
       /\ w.out[i].kind = "Indent" => v.out[i] = w.out[i]

\* Two walks have the same Indents, at the same places.
Framed(w, v) ==
  \E n \in Nat : SameIndents(w, v, n) /\ NoIndents(w, n) /\ NoIndents(v, n)

\* What is open holds no Indent: they stand outside every group.
IndentsOutside(w, st) == \A k \in 1..Len(st) : NoIndents(w, st[k].count)

LEMMA FramedThen ==
  ASSUME NEW w, Len(w.out) \in Nat, NEW u, Len(u.out) \in Nat, NEW v, Len(v.out) \in Nat,
         Framed(w, u), Framed(u, v)
  PROVE  Framed(w, v)
<1>1. PICK m \in Nat : SameIndents(w, u, m) /\ NoIndents(w, m) /\ NoIndents(u, m)
  BY DEF Framed
<1>2. PICK n \in Nat : SameIndents(u, v, n) /\ NoIndents(u, n) /\ NoIndents(v, n)
  BY DEF Framed
<1>3. CASE m =< n
  <2>1. SameIndents(w, v, m)
    BY <1>1, <1>2, <1>3 DEF SameIndents
  <2>2. NoIndents(v, m)
    <3>. SUFFICES ASSUME NEW i \in (m + 1)..Len(v.out) PROVE v.out[i].kind # "Indent"
      BY DEF NoIndents
    <3>1. CASE i > n
      <4>1. i \in (n + 1)..Len(v.out)
        BY <3>1
      <4>. QED BY <1>2, <4>1 DEF NoIndents
    <3>2. CASE i =< n
      <4>1. i \in 1..n /\ i \in (m + 1)..Len(u.out)
        BY <1>2, <3>2 DEF SameIndents
      <4>. QED BY <1>1, <1>2, <4>1 DEF NoIndents, SameIndents
    <3>. QED BY <3>1, <3>2
  <2>. QED BY <1>1, <2>1, <2>2 DEF Framed
<1>4. CASE n < m
  <2>1. SameIndents(w, v, n)
    BY <1>1, <1>2, <1>4 DEF SameIndents
  <2>2. NoIndents(w, n)
    <3>. SUFFICES ASSUME NEW i \in (n + 1)..Len(w.out) PROVE w.out[i].kind # "Indent"
      BY DEF NoIndents
    <3>1. CASE i > m
      <4>1. i \in (m + 1)..Len(w.out)
        BY <3>1
      <4>. QED BY <1>1, <4>1 DEF NoIndents
    <3>2. CASE i =< m
      <4>1. i \in 1..m /\ i \in (n + 1)..Len(u.out)
        BY <1>1, <3>2 DEF SameIndents
      <4>. QED BY <1>1, <1>2, <4>1 DEF NoIndents, SameIndents
    <3>. QED BY <3>1, <3>2
  <2>. QED BY <1>2, <2>1, <2>2 DEF Framed
<1>. QED BY <1>3, <1>4

(* A place with no Indent after it stays one.                                *)
LEMMA NoneAfter ==
  ASSUME NEW w, Len(w.out) \in Nat, NEW v, Len(v.out) \in Nat, Framed(w, v),
         NEW c \in Nat, NoIndents(w, c)
  PROVE  NoIndents(v, c)
<1>1. PICK n \in Nat : SameIndents(w, v, n) /\ NoIndents(v, n)
  BY DEF Framed
<1>. SUFFICES ASSUME NEW i \in (c + 1)..Len(v.out) PROVE v.out[i].kind # "Indent"
  BY DEF NoIndents
<1>2. CASE i > n
  <2>1. i \in (n + 1)..Len(v.out)
    BY <1>2
  <2>. QED BY <1>1, <2>1 DEF NoIndents
<1>3. CASE i =< n
  <2>1. i \in 1..n /\ i \in (c + 1)..Len(w.out)
    BY <1>1, <1>3 DEF SameIndents
  <2>. QED BY <1>1, <2>1 DEF NoIndents, SameIndents
<1>. QED BY <1>2, <1>3

(* A node of another kind adds none.                                         *)
LEMMA MarkerFramed ==
  ASSUME ParseInv, NEW kind \in Markers \ {"Indent"}, NEW n \in Nat, n > 0,
         walk.pos + n =< Len(source), NEW v, v = Emit(walk, kind, n)
  PROVE  Framed(walk, v) /\ NoIndents(v, Len(walk.out)) /\ Len(v.out) \in Nat
<1> DEFINE L == Len(walk.out)
<1>1. /\ L \in Nat /\ Len(v.out) = L + 1 /\ v.out[L + 1].kind = kind /\ kind # "Indent"
      /\ \A i \in 1..L : v.out[i] = walk.out[i]
  BY NodeKept
<1>2. NoIndents(v, L)
  <2>1. \A i \in (L + 1)..Len(v.out) : i = L + 1
    BY <1>1
  <2>. QED BY <1>1, <2>1 DEF NoIndents
<1>3. NoIndents(walk, L)
  BY <1>1 DEF NoIndents
<1>4. SameIndents(walk, v, L)
  BY <1>1 DEF SameIndents
<1>. QED BY <1>1, <1>2, <1>3, <1>4 DEF Framed

(* Neither do bytes taken as text.                                           *)
LEMMA TextFramed ==
  ASSUME source \in Seq(Byte), NEW w, Sound(w), NEW n \in Nat, n > 0, w.pos + n =< Len(source),
         NEW v, v = Advance(w, n)
  PROVE  Framed(w, v) /\ Len(v.out) \in Nat
<1> DEFINE L == Len(w.out)
<1>1. /\ L \in Nat /\ w.out \in Seq(ParsedNodes) /\ w.pos \in Nat /\ w.run \in Nat
      /\ \A i \in 1..L : w.out[i] \in ParsedNodes /\ w.out[i].at \in Nat
  BY Typed
<1>2. "Text" # "Indent" /\ "Text" \in ParsedKinds
  BY DEF ParsedKinds
<1>3. NoIndents(w, L)
  BY <1>1 DEF NoIndents
<1>4. CASE w.run = 0
  <2> DEFINE x == Node("Text", w.pos, w.pos + n)
  <2>1. x \in ParsedNodes /\ x.kind = "Text"
    <3>1. w.pos + n \in Nat /\ w.pos =< w.pos + n
      BY <1>1
    <3>. QED BY <1>1, <1>2, <3>1, NodeTyped
  <2>2. v.out = Append(w.out, x)
    BY <1>4 DEF Advance
  <2>. HIDE DEF x
  <2>3. Len(v.out) = L + 1 /\ v.out[L + 1] = x /\ \A i \in 1..L : v.out[i] = w.out[i]
    BY <1>1, <2>1, <2>2
  <2>4. NoIndents(v, L)
    <3>1. \A i \in (L + 1)..Len(v.out) : i = L + 1
      BY <1>1, <2>3
    <3>. QED BY <1>2, <2>1, <2>3, <3>1 DEF NoIndents
  <2>5. SameIndents(w, v, L)
    BY <1>1, <2>3 DEF SameIndents
  <2>. QED BY <1>1, <1>3, <2>3, <2>4, <2>5 DEF Framed
<1>5. CASE w.run # 0
  <2> DEFINE x == Node("Text", w.out[L].at, w.pos + n)
  <2>1. w.run = L /\ w.out[L].kind = "Text" /\ L \in 1..L
    BY <1>1, <1>5 DEF Sound, RunIsLast
  <2>2. x.kind = "Text"
    BY DEF Node
  <2>3. v.out = [w.out EXCEPT ![L] = x]
    <3>1. v = [w EXCEPT !.out = [w.out EXCEPT ![L] = x], !.pos = w.pos + n]
      BY <1>5, <2>1 DEF Advance
    <3>. HIDE DEF x
    <3>. QED BY <3>1 DEF Sound, Walks
  <2>. HIDE DEF x
  <2>4. Len(v.out) = L /\ v.out[L] = x /\ \A i \in 1..L : i # L => v.out[i] = w.out[i]
    BY <1>1, <2>1, <2>3
  <2>5. SameIndents(w, v, L)
    BY <1>1, <1>2, <2>1, <2>2, <2>4 DEF SameIndents
  <2>6. NoIndents(v, L)
    BY <1>1, <2>4 DEF NoIndents
  <2>. QED BY <1>1, <1>3, <2>4, <2>5, <2>6 DEF Framed
<1>. QED BY <1>4, <1>5

(* Nor does going back to an opener with none after it.                      *)
LEMMA CutFramed ==
  ASSUME NEW w, Sound(w), NEW c \in Nat, c < Len(w.out), NoIndents(w, c),
         NEW u, CutAt(w, u, c)
  PROVE  Framed(w, u) /\ Len(u.out) \in Nat
<1>1. Len(w.out) \in Nat /\ Len(u.out) = c /\ \A i \in 1..c : u.out[i] = w.out[i]
  BY Typed DEF CutAt
<1>2. NoIndents(u, c) /\ SameIndents(w, u, c)
  BY <1>1 DEF NoIndents, SameIndents
<1>. QED BY <1>1, <1>2 DEF Framed

(* A step of the parse neither adds nor takes an Indent: where it goes back   *)
(* to an opener, none was emitted since.                                     *)
LEMMA ParseFramed ==
  ASSUME ParseInv, IndentsOutside(walk, stack), Next
  PROVE  Framed(walk, walk') /\ IndentsOutside(walk', stack') /\ Len((walk').out) \in Nat
<1>0. /\ source \in Seq(Byte) /\ Sound(walk) /\ Len(walk.out) \in Nat
      /\ StackOK(walk, stack) /\ stack \in Seq(FrameSet)
  BY Typed DEF ParseInv, StackOK
<1>1. PICK r : r = Read /\ (\/ OpenGroup(r) \/ CloseGroup(r) \/ RejectRun(r) \/ Separate(r)
                            \/ StrayCloser(r) \/ TakeText(r) \/ LeaveOpen(r) \/ Demote(r))
  BY DEF Next
<1>2. r # Nothing
  BY <1>1 DEF OpenGroup, CloseGroup, RejectRun, Separate, StrayCloser, TakeText,
              LeaveOpen, Demote, Nothing, Ending
<1>3. Marked(r) \/ (r = Ending /\ stack # <<>>)
  BY <1>1, <1>2, ReadWhere
<1>4. ASSUME NEW v, Framed(walk, v), Len(v.out) \in Nat
      PROVE  IndentsOutside(v, stack) /\ IndentsOutside(v, SQE!Front(stack))
  <2>1. \A k \in 1..Len(stack) : stack[k].count \in Nat
    BY <1>0, FrameTyped
  <2>2. \A k \in 1..Len(stack) : NoIndents(v, stack[k].count)
    BY <1>0, <1>4, <2>1, NoneAfter DEF IndentsOutside
  <2> DEFINE s == SQE!Front(stack)
  <2>3. \A k \in 1..Len(s) : k \in 1..Len(stack) /\ s[k] = stack[k]
    BY <1>0 DEF SQE!Front
  <2>. HIDE DEF s
  <2>4. IndentsOutside(v, s)
    BY <2>2, <2>3 DEF IndentsOutside
  <2>. QED BY <2>2, <2>4 DEF IndentsOutside, s
<1>5. CASE Marked(r)
  <2>0. Len(r.mark) \in Nat /\ Len(r.mark) > 0 /\ walk.pos + Len(r.mark) =< Len(source)
        /\ r # Ending
    BY <1>5, MarkedLen DEF Marked, Ending
  <2>1. ASSUME NEW kind \in Markers \ {"Indent"}, walk' = Emit(walk, kind, Len(r.mark))
        PROVE  /\ Framed(walk, walk') /\ NoIndents(walk', Len(walk.out))
               /\ Len((walk').out) \in Nat
    <3> DEFINE n == Len(r.mark)
    <3>1. n \in Nat /\ n > 0 /\ walk.pos + n =< Len(source) /\ walk' = Emit(walk, kind, n)
      BY <2>0, <2>1
    <3>. HIDE DEF n
    <3>. QED BY <3>1, MarkerFramed
  <2>2. {"Opener", "Closer", "Separator"} \subseteq Markers \ {"Indent"}
    BY DEF Markers
  <2>3. CASE OpenGroup(r)
    <3>1. Framed(walk, walk') /\ NoIndents(walk', Len(walk.out)) /\ Len((walk').out) \in Nat
      BY <2>1, <2>2, <2>3 DEF OpenGroup
    <3>2. PICK f : stack' = Append(stack, f) /\ f.count = Len(walk.out)
      BY <2>3 DEF OpenGroup
    <3>3. IndentsOutside(walk', stack)
      BY <1>4, <3>1
    <3>4. ASSUME NEW k \in 1..Len(stack')
          PROVE  NoIndents(walk', stack'[k].count)
      <4>1. CASE k \in 1..Len(stack)
        <5>1. stack'[k] = stack[k]
          BY <1>0, <3>2, <4>1
        <5>. QED BY <3>3, <4>1, <5>1 DEF IndentsOutside
      <4>2. CASE k \notin 1..Len(stack)
        <5>1. stack'[k] = f
          BY <1>0, <3>2, <4>2
        <5>. QED BY <3>1, <3>2, <5>1
      <4>. QED BY <4>1, <4>2
    <3>5. IndentsOutside(walk', stack')
      BY <3>4 DEF IndentsOutside
    <3>. QED BY <3>1, <3>5
  <2>4. CASE CloseGroup(r) \/ RejectRun(r)
    <3>1. walk' = Emit(walk, "Closer", Len(r.mark)) /\ stack' = SQE!Front(stack)
      BY <2>4 DEF CloseGroup, RejectRun
    <3>. QED BY <1>4, <2>1, <2>2, <3>1
  <2>5. CASE Separate(r) \/ StrayCloser(r)
    <3>1. PICK kind \in {"Closer", "Separator"} : walk' = Emit(walk, kind, Len(r.mark))
      BY <2>5 DEF Separate, StrayCloser
    <3>2. stack' = stack
      BY <2>5 DEF Separate, StrayCloser
    <3>. QED BY <1>4, <2>1, <2>2, <3>1, <3>2
  <2>6. CASE TakeText(r)
    <3>1. walk' = Advance(walk, Len(r.mark)) /\ stack' = stack
      BY <2>6 DEF TakeText
    <3>2. Framed(walk, walk') /\ Len((walk').out) \in Nat
      BY <1>0, <2>0, <3>1, TextFramed
    <3>. QED BY <1>4, <3>1, <3>2
  <2>7. CASE LeaveOpen(r) \/ Demote(r)
    BY <2>0, <2>7 DEF LeaveOpen, Demote
  <2>. QED BY <1>1, <2>3, <2>4, <2>5, <2>6, <2>7
<1>6. CASE r = Ending /\ stack # <<>>
  <2>1. LeaveOpen(r) \/ Demote(r)
    BY <1>1, <1>6 DEF OpenGroup, CloseGroup, RejectRun, Separate, StrayCloser, TakeText, Ending
  <2>2. CASE LeaveOpen(r)
    <3>1. walk' = walk /\ stack' = SQE!Front(stack)
      BY <2>2 DEF LeaveOpen
    <3>2. Framed(walk, walk)
      <4>1. SameIndents(walk, walk, Len(walk.out)) /\ NoIndents(walk, Len(walk.out))
        BY <1>0 DEF SameIndents, NoIndents
      <4>. QED BY <1>0, <4>1 DEF Framed
    <3>. QED BY <1>0, <1>4, <3>1, <3>2
  <2>3. CASE Demote(r)
    <3> DEFINE f == SQE!Last(stack)
               u == Rewind(walk, f.count, f.pos)
               n == Len(f.opened)
    <3>1. walk' = Advance(u, n) /\ stack' = SQE!Front(stack)
      BY <2>3 DEF Demote, Folded, Frame
    <3>2. Len(stack) \in 1..Len(stack) /\ f = stack[Len(stack)]
      BY <1>0, <1>6 DEF SQE!Last
    <3>. HIDE DEF f
    <3>3. FrameIn(walk, f) /\ f.count \in Nat /\ f.opened \in Seq(Byte) /\ f.pos \in Nat
          /\ NoIndents(walk, f.count)
      BY <1>0, <3>2, FrameTyped DEF IndentsOutside
    <3>4. /\ f.count < Len(walk.out) /\ walk.out[f.count + 1].at = f.pos
          /\ n \in Nat /\ n > 0 /\ f.pos + n =< Len(source)
      <4>1. f.count + 1 \in 1..Len(walk.out) /\ walk.out[f.count + 1].at = f.pos
            /\ f.opened # NoMark /\ Occurs(f.opened, f.pos)
        BY <3>3 DEF FrameIn
      <4>2. n \in Nat /\ n > 0 /\ f.pos + n =< Len(source)
        BY <3>3, <4>1 DEF Occurs, NoMark
      <4>. QED BY <1>0, <3>3, <4>1, <4>2
    <3>5. CutAt(walk, u, f.count)
      BY <1>0, <3>3, <3>4, RewindCuts
    <3>. HIDE DEF u, n
    <3>6. Framed(walk, u) /\ Len(u.out) \in Nat /\ Sound(u) /\ u.pos = f.pos
      BY <1>0, <3>3, <3>4, <3>5, CutFramed DEF CutAt
    <3>7. u.pos + n =< Len(source)
      BY <3>4, <3>6
    <3>8. Framed(u, walk') /\ Len((walk').out) \in Nat
      BY <1>0, <3>1, <3>4, <3>6, <3>7, TextFramed
    <3>9. Framed(walk, walk')
      BY <1>0, <3>6, <3>8, FramedThen
    <3>. QED BY <1>4, <3>1, <3>8, <3>9
  <2>. QED BY <2>1, <2>2, <2>3
<1>. QED BY <1>3, <1>5, <1>6

---------------------------------------------------------------------------
(* The levels of a walk.                                                     *)

OpenFrames == [id : Nat, col : Nat]

ShapeOf(w) == [i \in 1..Len(w.out) |-> [id |-> i, kind |-> w.out[i].kind, text |-> w.out[i].text]]

OpenIn(w) == WalkFrames(ShapeOf(w)).stack

\* The Indents change the column, each from the one before.
Changing(w) ==
  \A i, j \in 1..Len(w.out) :
    (/\ w.out[i].kind = "Indent" /\ w.out[j].kind = "Indent" /\ i < j
     /\ \A k \in (i + 1)..(j - 1) : w.out[k].kind # "Indent") =>
      Column(w.out[i].text) # Column(w.out[j].text)

\* The column of the last Indent ends the levels.
LastLevel(w, lv) ==
  \A i \in 1..Len(w.out) :
    (w.out[i].kind = "Indent" /\ NoIndents(w, i)) => Column(w.out[i].text) = SQE!Last(lv)

\* The frames the derivation of an array leaves open are those of its levels.
Derivable(fs, lv) ==
  fs \in Seq(OpenFrames) /\ Rooted(Columns(fs)) /\ Implied(Columns(fs), lv)

Leveled(w, lv) ==
  /\ 1 \in 1..Len(w.out) /\ w.out[1].kind = "Indent"
  /\ Derivable(OpenIn(w), lv)
  /\ LastLevel(w, lv)
  /\ Changing(w)

LEMMA ShapeIs ==
  ASSUME NEW w, Len(w.out) \in Nat
  PROVE  /\ Len(ShapeOf(w)) = Len(w.out)
         /\ \A i \in 1..Len(w.out) : /\ ShapeOf(w)[i].id = i
                                     /\ ShapeOf(w)[i].kind = w.out[i].kind
                                     /\ ShapeOf(w)[i].text = w.out[i].text
BY DEF ShapeOf

(* What keeps the Indents keeps the levels.                                  *)
LEMMA LevelsStay ==
  ASSUME NEW w, Len(w.out) \in Nat, NEW v, Len(v.out) \in Nat, Framed(w, v),
         NEW lv, Leveled(w, lv)
  PROVE  Leveled(v, lv)
<1>1. PICK n \in Nat : SameIndents(w, v, n) /\ NoIndents(w, n) /\ NoIndents(v, n)
  BY DEF Framed
<1>2. /\ n =< Len(w.out) /\ n =< Len(v.out)
      /\ \A i \in 1..n : /\ v.out[i].kind = "Indent" <=> w.out[i].kind = "Indent"
                         /\ w.out[i].kind = "Indent" => v.out[i] = w.out[i]
      /\ \A i \in (n + 1)..Len(w.out) : w.out[i].kind # "Indent"
      /\ \A i \in (n + 1)..Len(v.out) : v.out[i].kind # "Indent"
  BY <1>1 DEF SameIndents, NoIndents
<1>3. ASSUME NEW i \in 1..Len(v.out), v.out[i].kind = "Indent"
      PROVE  i \in 1..n /\ i \in 1..Len(w.out) /\ w.out[i].kind = "Indent" /\ v.out[i] = w.out[i]
  <2>1. i \notin (n + 1)..Len(v.out)
    BY <1>2, <1>3
  <2>2. i \in 1..n /\ i \in 1..Len(w.out)
    BY <1>2, <2>1
  <2>. QED BY <1>2, <1>3, <2>2
<1>4. 1 \in 1..Len(v.out) /\ v.out[1].kind = "Indent"
  <2>1. 1 \in 1..Len(w.out) /\ w.out[1].kind = "Indent"
    BY DEF Leveled
  <2>2. 1 \notin (n + 1)..Len(w.out)
    BY <1>2, <2>1
  <2>3. 1 \in 1..n /\ 1 \in 1..Len(v.out)
    BY <1>2, <2>1, <2>2
  <2>. QED BY <1>2, <2>1, <2>3
<1>5. OpenIn(v) = OpenIn(w)
  <2> DEFINE a == ShapeOf(w)
             b == ShapeOf(v)
  <2>1. /\ Len(a) = Len(w.out) /\ Len(b) = Len(v.out)
        /\ \A i \in 1..Len(w.out) : a[i].id = i /\ a[i].kind = w.out[i].kind /\ a[i].text = w.out[i].text
        /\ \A i \in 1..Len(v.out) : b[i].id = i /\ b[i].kind = v.out[i].kind /\ b[i].text = v.out[i].text
    BY ShapeIs
  <2>. HIDE DEF a, b
  <2>2. \A i \in 1..n : i \in 1..Len(w.out) /\ i \in 1..Len(v.out)
    BY <1>2
  <2>3. SameFrames(a, b, n)
    <3>. SUFFICES ASSUME NEW i \in 1..n
         PROVE  /\ a[i].kind = "Indent" <=> b[i].kind = "Indent"
                /\ a[i].kind = "Indent" => a[i].id = b[i].id /\ a[i].text = b[i].text
      BY DEF SameFrames
    <3>1. i \in 1..Len(w.out) /\ i \in 1..Len(v.out)
      BY <2>2
    <3>2. a[i].kind = w.out[i].kind /\ b[i].kind = v.out[i].kind /\ a[i].id = b[i].id
          /\ a[i].text = w.out[i].text /\ b[i].text = v.out[i].text
      BY <2>1, <3>1
    <3>3. /\ v.out[i].kind = "Indent" <=> w.out[i].kind = "Indent"
          /\ w.out[i].kind = "Indent" => v.out[i] = w.out[i]
      BY <1>2
    <3>. QED BY <3>2, <3>3
  <2>4. \A i \in (n + 1)..Len(a) : a[i].kind # "Indent"
    <3>1. \A i \in (n + 1)..Len(w.out) : i \in 1..Len(w.out)
      BY <1>2
    <3>. QED BY <1>2, <2>1, <3>1
  <2>5. \A i \in (n + 1)..Len(b) : b[i].kind # "Indent"
    <3>1. \A i \in (n + 1)..Len(v.out) : i \in 1..Len(v.out)
      BY <1>2
    <3>. QED BY <1>2, <2>1, <3>1
  <2>6. Len(a) \in Nat /\ Len(b) \in Nat /\ n =< Len(a) /\ n =< Len(b)
    BY <1>2, <2>1
  <2>7. WalkFrames(b).stack = WalkFrames(a).stack
    BY <2>3, <2>4, <2>5, <2>6, OpenAfter
  <2>. QED BY <2>7 DEF OpenIn, a, b
<1>6. LastLevel(v, lv)
  <2>. SUFFICES ASSUME NEW i \in 1..Len(v.out), v.out[i].kind = "Indent", NoIndents(v, i)
       PROVE  Column(v.out[i].text) = SQE!Last(lv)
    BY DEF LastLevel
  <2>1. i \in 1..n /\ i \in 1..Len(w.out) /\ w.out[i].kind = "Indent" /\ v.out[i] = w.out[i]
    BY <1>3
  <2>2. Framed(v, w)
    <3>1. SameIndents(v, w, n)
      BY <1>2 DEF SameIndents
    <3>. QED BY <1>1, <3>1 DEF Framed
  <2>3. NoIndents(w, i)
    BY <2>2, NoneAfter
  <2>. QED BY <2>1, <2>3 DEF Leveled, LastLevel
<1>7. Changing(v)
  <2>. SUFFICES ASSUME NEW i \in 1..Len(v.out), NEW j \in 1..Len(v.out),
                       v.out[i].kind = "Indent", v.out[j].kind = "Indent", i < j,
                       \A k \in (i + 1)..(j - 1) : v.out[k].kind # "Indent"
       PROVE  Column(v.out[i].text) # Column(v.out[j].text)
    BY DEF Changing
  <2>1. /\ i \in 1..Len(w.out) /\ w.out[i].kind = "Indent" /\ v.out[i] = w.out[i]
        /\ j \in 1..n /\ j \in 1..Len(w.out) /\ w.out[j].kind = "Indent" /\ v.out[j] = w.out[j]
    BY <1>3
  <2>2. \A k \in (i + 1)..(j - 1) : k \in 1..n
    BY <2>1
  <2>3. \A k \in (i + 1)..(j - 1) : w.out[k].kind # "Indent"
    BY <1>2, <2>2
  <2>. QED BY <2>1, <2>3 DEF Leveled, Changing
<1>. QED BY <1>4, <1>5, <1>6, <1>7 DEF Leveled

AddsTo(fs, gs, id, col) == gs = Append(LeftOpen(fs, col), [id |-> id, col |-> col])

\* Nodes with a frame at col after them.
OneMore(nodes, other, col) ==
  /\ Len(nodes) \in Nat /\ Len(other) = Len(nodes) + 1 /\ SameFrames(nodes, other, Len(nodes))
  /\ other[Len(other)].kind = "Indent" /\ col = Column(other[Len(other)].text)

LEMMA OneMoreIs ==
  ASSUME NEW nodes, NEW other, NEW col, OneMore(nodes, other, col)
  PROVE  AddsTo(WalkFrames(nodes).stack, WalkFrames(other).stack, other[Len(other)].id, col)
<1> DEFINE n == Len(nodes)
<1>1. /\ n \in Nat /\ n =< Len(nodes) /\ n =< Len(other) /\ Len(other) = n + 1
      /\ SameFrames(nodes, other, n) /\ \A i \in (n + 1)..Len(nodes) : nodes[i].kind # "Indent"
      /\ Len(nodes) \in Nat /\ Len(other) \in Nat
      /\ other[n + 1].kind = "Indent" /\ col \in {Column(other[n + 1].text)}
  BY DEF OneMore
<1>. HIDE DEF n
<1>2. \A q \in {Column(other[n + 1].text)} :
        WalkFrames(other).stack =
          Append(LeftOpen(WalkFrames(nodes).stack, q), [id |-> other[n + 1].id, col |-> q])
  BY <1>1, OpenAfter, ZenonT(60)
<1>. QED BY <1>1, <1>2 DEF AddsTo

(* A frame more, in the derivation.                                          *)
LEMMA ColumnsFramed ==
  ASSUME NEW fs \in Seq(OpenFrames), Rooted(Columns(fs)), NEW id \in Nat, NEW col \in Nat,
         NEW gs, AddsTo(fs, gs, id, col)
  PROVE  gs \in Seq(OpenFrames) /\ Columns(gs) = FramedAt(Columns(fs), col)
<1> DEFINE cols == Columns(fs)
           c == Kept(cols, col)
           f == [id |-> id, col |-> col]
           left == SubSeq(fs, 1, c)
           a == SubSeq(cols, 1, c)
<1>1. /\ Len(fs) \in Nat /\ cols \in Seq(Nat) /\ Len(cols) = Len(fs)
      /\ \A k \in 1..Len(fs) : fs[k] \in OpenFrames /\ cols[k] = fs[k].col
  <2>1. Len(fs) \in Nat /\ \A k \in 1..Len(fs) : fs[k] \in OpenFrames
    OBVIOUS
  <2>2. \A k \in 1..Len(fs) : fs[k].col \in Nat
    BY <2>1 DEF OpenFrames
  <2>3. cols = [k \in 1..Len(fs) |-> fs[k].col]
    BY DEF Columns
  <2>. HIDE DEF cols
  <2>4. cols \in Seq(Nat) /\ Len(cols) = Len(fs) /\ \A k \in 1..Len(fs) : cols[k] = fs[k].col
    BY <2>1, <2>2, <2>3
  <2>. QED BY <2>1, <2>4
<1>2. gs = Append(left, f)
  BY DEF LeftOpen, AddsTo
<1>3. Rooted(cols) /\ Leaves(cols, col, c, a) /\ FramedAt(cols, col) = Append(a, col)
  BY DEF Leaves, FramedAt
<1>4. f \in OpenFrames /\ f.col = col
  BY DEF OpenFrames
<1>5. left = SubSeq(fs, 1, c)
  OBVIOUS
<1>. HIDE DEF cols, c, a, f, left
<1>6. LeftAt(cols, col, c, a)
  BY <1>3, LeftIs
<1>7. c \in 1..Len(fs) /\ a \in Seq(Nat) /\ Len(a) = c /\ \A k \in 1..c : a[k] = cols[k]
  BY <1>1, <1>6 DEF LeftAt
<1>8. left \in Seq(OpenFrames) /\ Len(left) = c /\ \A k \in 1..c : left[k] = fs[k]
  <2>1. c \in Nat /\ 0 \in Nat /\ 0 + c =< Len(fs) /\ 0 + 1 = 1 /\ 0 + c = c
    BY <1>1, <1>7
  <2>2. /\ SubSeq(fs, 0 + 1, 0 + c) \in Seq(OpenFrames) /\ Len(SubSeq(fs, 0 + 1, 0 + c)) = c
        /\ \A k \in 1..c : SubSeq(fs, 0 + 1, 0 + c)[k] = fs[0 + k]
    BY <2>1, SubSeqIs
  <2>3. left = SubSeq(fs, 0 + 1, 0 + c)
    BY <1>5, <2>1
  <2>4. \A k \in 1..c : 0 + k = k
    OBVIOUS
  <2>. QED BY <2>2, <2>3, <2>4
<1>9. gs \in Seq(OpenFrames) /\ Len(gs) = c + 1 /\ gs[c + 1] = f /\ \A k \in 1..c : gs[k] = left[k]
  <2>1. left \in Seq(OpenFrames) /\ f \in OpenFrames /\ Len(left) = c
    BY <1>4, <1>8
  <2>2. /\ Append(left, f) \in Seq(OpenFrames) /\ Len(Append(left, f)) = Len(left) + 1
        /\ Append(left, f)[Len(left) + 1] = f
        /\ \A k \in 1..Len(left) : Append(left, f)[k] = left[k]
    BY <2>1, AppendProperties
  <2>. QED BY <1>2, <2>1, <2>2
<1> DEFINE next == Append(a, col)
<1>10. next \in Seq(Nat) /\ Len(next) = c + 1 /\ next[c + 1] = col /\ \A k \in 1..c : next[k] = a[k]
  BY <1>7
<1>11. Columns(gs) = [k \in 1..(c + 1) |-> gs[k].col] /\ Columns(gs) \in Seq(Nat)
       /\ Len(Columns(gs)) = c + 1
  <2>1. \A k \in 1..(c + 1) : gs[k] \in OpenFrames
    BY <1>9
  <2>2. \A k \in 1..(c + 1) : gs[k].col \in Nat
    BY <2>1 DEF OpenFrames
  <2>3. Columns(gs) = [k \in 1..(c + 1) |-> gs[k].col]
    BY <1>9 DEF Columns
  <2> DEFINE d == Columns(gs)
             n == c + 1
  <2>4. d = [k \in 1..n |-> gs[k].col] /\ n \in Nat /\ \A k \in 1..n : gs[k].col \in Nat
    BY <1>1, <1>7, <2>2, <2>3
  <2>. HIDE DEF d, n
  <2>5. d \in Seq(Nat) /\ Len(d) = n
    BY <2>4
  <2>6. d = [k \in 1..(c + 1) |-> gs[k].col] /\ Len(d) = c + 1
    BY <2>4, <2>5 DEF n
  <2>. QED BY <2>5, <2>6 DEF d
<1>. HIDE DEF next
<1>12. ASSUME NEW k \in 1..(c + 1)
       PROVE  Columns(gs)[k] = next[k]
  <2>1. Columns(gs)[k] = gs[k].col
    BY <1>11
  <2>2. CASE k = c + 1
    BY <1>4, <1>9, <1>10, <2>1, <2>2
  <2>3. CASE k # c + 1
    <3>1. k \in 1..c /\ k \in 1..Len(fs)
      BY <1>7, <2>3
    <3>2. gs[k] = fs[k] /\ next[k] = cols[k] /\ cols[k] = fs[k].col
      BY <1>1, <1>7, <1>8, <1>9, <1>10, <3>1
    <3>. QED BY <2>1, <3>2
  <2>. QED BY <2>2, <2>3
<1>13. Columns(gs) = next
  <2> DEFINE d == Columns(gs)
  <2>1. d \in Seq(Nat) /\ Len(d) = c + 1 /\ \A k \in 1..(c + 1) : d[k] = next[k]
    BY <1>11, <1>12
  <2>. HIDE DEF d
  <2>2. d = next
    BY <1>10, <2>1, SeqEqual
  <2>. QED BY <2>2 DEF d
<1>. QED BY <1>3, <1>9, <1>13 DEF next, cols

(* An Indent at another column than the last one's ends the array.           *)
LEMMA LevelsFollow ==
  ASSUME NEW w, Len(w.out) \in Nat, NEW v, Len(v.out) = Len(w.out) + 1,
         \A i \in 1..Len(w.out) : v.out[i] = w.out[i],
         v.out[Len(w.out) + 1].kind = "Indent",
         NEW col \in Nat, col = Column(v.out[Len(w.out) + 1].text),
         NEW lv, Leveled(w, lv), col # SQE!Last(lv),
         NEW new, new = Entered(lv, col)
  PROVE  Leveled(v, new)
<1> DEFINE L == Len(w.out)
           a == ShapeOf(w)
           b == ShapeOf(v)
           fs == OpenIn(w)
           gs == OpenIn(v)
<1>1. /\ Len(a) = L /\ Len(b) = L + 1
      /\ \A i \in 1..L : a[i].id = i /\ a[i].kind = w.out[i].kind /\ a[i].text = w.out[i].text
      /\ \A i \in 1..(L + 1) : b[i].id = i /\ b[i].kind = v.out[i].kind /\ b[i].text = v.out[i].text
  <2>1. Len(v.out) \in Nat
    OBVIOUS
  <2>. QED BY <2>1, ShapeIs
<1>2. \A i \in 1..L : i \in 1..(L + 1)
  OBVIOUS
<1>3. gs = Append(LeftOpen(fs, col), [id |-> L + 1, col |-> col])
  <2>. HIDE DEF a, b
  <2>1. SameFrames(a, b, L)
    BY <1>1, <1>2, SMTT(30) DEF SameFrames
  <2>2. \A i \in (L + 1)..Len(a) : a[i].kind # "Indent"
    BY <1>1
  <2>3. L + 1 \in 1..(L + 1)
    OBVIOUS
  <2>4. Len(b) = L + 1 /\ b[L + 1].kind = "Indent" /\ col \in {Column(b[L + 1].text)}
        /\ b[L + 1].id = L + 1
    BY <1>1, <2>3
  <2>5. Len(a) \in Nat /\ Len(b) \in Nat /\ L \in Nat /\ L =< Len(a) /\ L =< Len(b)
    BY <1>1
  <2>6. OneMore(a, b, col)
    BY <1>1, <2>1, <2>4, <2>5 DEF OneMore
  <2>7. AddsTo(WalkFrames(a).stack, WalkFrames(b).stack, Len(b), col)
    <3>1. b[Len(b)].id = Len(b)
      BY <1>1, <2>3
    <3>. QED BY <2>6, <3>1, OneMoreIs
  <2>. QED BY <1>1, <2>7 DEF OpenIn, AddsTo, a, b
<1>. HIDE DEF a, b, fs, gs
<1>4. fs \in Seq(OpenFrames) /\ Rooted(Columns(fs)) /\ Implied(Columns(fs), lv)
  BY DEF Leveled, Derivable, fs
<1>5. L + 1 \in Nat
  OBVIOUS
<1>6. gs \in Seq(OpenFrames) /\ Columns(gs) = FramedAt(Columns(fs), col)
  <2> DEFINE id == L + 1
  <2>1. id \in Nat /\ AddsTo(fs, gs, id, col)
    BY <1>3, <1>5 DEF AddsTo
  <2>. HIDE DEF id
  <2>. QED BY <1>4, <2>1, ColumnsFramed
<1> DEFINE next == FramedAt(Columns(fs), col)
<1>7. next = FramedAt(Columns(fs), col)
  OBVIOUS
<1>. HIDE DEF next
<1>8. Implied(next, new) /\ Rooted(new) /\ SQE!Last(new) = col
  BY <1>4, <1>7, EnterFollows
<1>9. Rooted(next)
  <2> DEFINE cols == Columns(fs)
             c == Kept(cols, col)
             left == SubSeq(cols, 1, c)
  <2>1. Rooted(cols) /\ Leaves(cols, col, c, left) /\ next = Append(left, col)
    BY <1>4, <1>7 DEF Leaves, FramedAt
  <2>. HIDE DEF cols, c, left
  <2>2. Follows(cols, col, c, next)
    BY <2>1, FramedIs
  <2>. QED BY <2>2 DEF Follows
<1>10. Derivable(gs, new)
  BY <1>6, <1>7, <1>8, <1>9 DEF Derivable
<1>11. 1 \in 1..Len(v.out) /\ v.out[1].kind = "Indent"
  <2>1. 1 \in 1..L /\ w.out[1].kind = "Indent"
    BY DEF Leveled
  <2>. QED BY <2>1
<1>12. LastLevel(v, new)
  <2>. SUFFICES ASSUME NEW i \in 1..Len(v.out), v.out[i].kind = "Indent", NoIndents(v, i)
       PROVE  Column(v.out[i].text) = SQE!Last(new)
    BY DEF LastLevel
  <2>1. L + 1 \notin (i + 1)..Len(v.out)
    BY DEF NoIndents
  <2>2. i = L + 1
    BY <2>1
  <2>. QED BY <1>8, <2>2
<1>13. Changing(v)
  <2>. SUFFICES ASSUME NEW i \in 1..Len(v.out), NEW j \in 1..Len(v.out),
                       v.out[i].kind = "Indent", v.out[j].kind = "Indent", i < j,
                       \A k \in (i + 1)..(j - 1) : v.out[k].kind # "Indent"
       PROVE  Column(v.out[i].text) # Column(v.out[j].text)
    BY DEF Changing
  <2>1. i \in 1..L /\ v.out[i] = w.out[i]
    BY <1>1
  <2>2. \A k \in (i + 1)..(j - 1) : k \in 1..L /\ v.out[k] = w.out[k]
    BY <2>1
  <2>3. CASE j \in 1..L
    <3>1. v.out[j] = w.out[j] /\ w.out[j].kind = "Indent" /\ w.out[i].kind = "Indent"
      BY <2>1, <2>3
    <3>2. \A k \in (i + 1)..(j - 1) : w.out[k].kind # "Indent"
      BY <2>2
    <3>3. Column(w.out[i].text) # Column(w.out[j].text)
      BY <2>1, <2>3, <3>1, <3>2 DEF Leveled, Changing
    <3>. QED BY <2>1, <3>1, <3>3
  <2>4. CASE j \notin 1..L
    <3>1. j = L + 1
      BY <2>4
    <3>2. NoIndents(w, i)
      <4>1. \A k \in (i + 1)..L : k \in (i + 1)..(j - 1)
        BY <3>1
      <4>. QED BY <2>2, <4>1 DEF NoIndents
    <3>3. Column(w.out[i].text) = SQE!Last(lv)
      BY <2>1, <3>2 DEF Leveled, LastLevel
    <3>. QED BY <2>1, <3>1, <3>3
  <2>. QED BY <2>3, <2>4
<1>. QED BY <1>10, <1>11, <1>12, <1>13 DEF Leveled, gs

(* The root alone.                                                           *)
LEMMA RootLeveled ==
  ASSUME NEW v, Len(v.out) = 1, v.out[1].kind = "Indent", Column(v.out[1].text) = 0
  PROVE  Leveled(v, <<0>>)
<1> DEFINE a == ShapeOf([out |-> <<>>])
           b == ShapeOf(v)
<1>1. Len(a) = 0 /\ Len(b) = 1 /\ b[1].id = 1 /\ b[1].kind = "Indent" /\ b[1].text = v.out[1].text
  BY DEF ShapeOf
<1>2. Len(a) \in Nat
  BY <1>1
<1>. HIDE DEF a, b
<1>3. WalkFrames(a).stack = <<>>
  <2>1. PICK w : Turns(w, a) /\ WalkFrames(a) = w[Len(a)]
    BY <1>2, WalkIs
  <2>2. w[0] = FreshWalk(a)
    BY <1>2, <2>1, TurnIs
  <2>. QED BY <1>1, <2>1, <2>2 DEF FreshWalk
<1>4. WalkFrames(b).stack = Append(LeftOpen(WalkFrames(a).stack, 0), [id |-> b[1].id, col |-> 0])
  <2> DEFINE n == 0
  <2>1. /\ n \in Nat /\ n =< Len(a) /\ n =< Len(b) /\ SameFrames(a, b, n)
        /\ (\A i \in (n + 1)..Len(a) : a[i].kind # "Indent")
        /\ Len(b) = n + 1 /\ b[n + 1].kind = "Indent" /\ Len(b) \in Nat
    BY <1>1 DEF SameFrames
  <2>2. n + 1 = 1
    OBVIOUS
  <2>. HIDE DEF n
  <2>3. \A q \in {Column(b[n + 1].text)} :
          WalkFrames(b).stack =
            Append(LeftOpen(WalkFrames(a).stack, q), [id |-> b[n + 1].id, col |-> q])
    BY <1>2, <2>1, OpenAfter, ZenonT(90)
  <2>4. 0 \in {Column(b[n + 1].text)}
    BY <1>1, <2>2
  <2>. QED BY <2>2, <2>3, <2>4
<1>5. LeftOpen(<<>>, 0) = <<>>
  BY DEF LeftOpen, Columns, Kept
<1> DEFINE gs == OpenIn(v)
<1>6. gs = << [id |-> 1, col |-> 0] >>
  <2>1. gs = Append(<<>>, [id |-> 1, col |-> 0])
    BY <1>1, <1>3, <1>4, <1>5 DEF OpenIn, b
  <2>. QED BY <2>1
<1>. HIDE DEF gs
<1>7. gs \in Seq(OpenFrames) /\ Len(gs) = 1 /\ gs[1].col = 0
  BY <1>6 DEF OpenFrames
<1>8. Columns(gs) = <<0>>
  BY <1>7 DEF Columns
<1>9. Derivable(gs, <<0>>)
  BY <1>7, <1>8 DEF Derivable, Rooted, Implied
<1>10. LastLevel(v, <<0>>)
  BY DEF LastLevel, SQE!Last
<1>11. Changing(v)
  BY DEF Changing
<1>. QED BY <1>9, <1>10, <1>11 DEF Leveled, gs

---------------------------------------------------------------------------
(* The levels of a parse.                                                    *)

LevelInv ==
  /\ ParseInv
  /\ IndentsOutside(walk, stack)
  /\ walk.out = <<>> => stack = <<>> /\ levels = <<>>
  /\ walk.out # <<>> => Leveled(walk, levels)

LEMMA LevelsBegin ==
  ASSUME IndentInit
  PROVE  LevelInv
<1>1. ParseInv /\ walk.out = <<>> /\ stack = <<>> /\ levels = <<>>
  BY ParseBegins DEF IndentInit, Init, NewWalk
<1>2. IndentsOutside(walk, stack)
  BY <1>1 DEF IndentsOutside
<1>. QED BY <1>1, <1>2 DEF LevelInv

(* The root is at the first column.                                          *)
LEMMA RootKeeps ==
  ASSUME LevelInv, Root
  PROVE  LevelInv'
<1>1. /\ ParseInv /\ walk.out = <<>> /\ stack' = <<>> /\ levels' = <<0>>
      /\ walk' = Emit(walk, "Indent", 0) /\ walk.pos \in Nat
  BY Typed DEF LevelInv, ParseInv, Root, Offered, AtTop
<1>2. ParseInv'
  BY <1>1, IndentStepInv DEF IndentNext
<1>3. (walk').out = << Node("Indent", walk.pos, walk.pos) >>
  <2>1. (walk').out = Append(<<>>, Node("Indent", walk.pos, walk.pos + 0)) /\ walk.pos + 0 = walk.pos
    BY <1>1 DEF Emit
  <2>. QED BY <2>1
<1>4. Len((walk').out) = 1 /\ (walk').out[1].kind = "Indent"
      /\ (walk').out[1].text = Slice(walk.pos, walk.pos) /\ (walk').out # <<>>
  BY <1>3 DEF Node
<1>5. Slice(walk.pos, walk.pos) \in Seq(Byte) /\ Len(Slice(walk.pos, walk.pos)) = 0
  BY <1>1 DEF Slice, ParseInv
<1> DEFINE ws == Slice(walk.pos, walk.pos)
<1>6. ws \in Seq(Byte) /\ Len(ws) = 0 /\ (walk').out[1].text = ws
  BY <1>4, <1>5
<1>. HIDE DEF ws
<1>7. Column((walk').out[1].text) = 0
  BY <1>6, ColumnTyped
<1>8. Leveled(walk', <<0>>)
  BY <1>4, <1>7, RootLeveled
<1>9. IndentsOutside(walk', stack')
  BY <1>1 DEF IndentsOutside
<1>. QED BY <1>1, <1>2, <1>4, <1>8, <1>9 DEF LevelInv

(* An Indent is announced only at another column.                            *)
LEMMA AnnounceKeeps ==
  ASSUME LevelInv, Announce
  PROVE  LevelInv'
<1>1. /\ ParseInv /\ walk.out # <<>> /\ stack' = <<>> /\ Changes(walk.pos)
      /\ levels' = Enter(ColumnAt(walk.pos))
  BY DEF LevelInv, Announce, Announces, Offered, AtTop
<1>2. ParseInv'
  BY <1>1, IndentStepInv DEF IndentNext
<1> DEFINE n == Indented(walk.pos) - walk.pos
           L == Len(walk.out)
           ws == Slice(walk.pos, Indented(walk.pos))
           col == Column(ws)
<1>3. walk' = Emit(walk, "Indent", n)
  BY DEF Announce
<1>4. source \in Seq(Byte) /\ walk.pos \in Nat /\ walk.pos =< Len(source) /\ Sound(walk)
      /\ walk.out \in Seq(ParsedNodes) /\ L \in Nat
  BY <1>1, Typed DEF ParseInv, Sound, Tiled
<1>5. Indented(walk.pos) \in walk.pos..Len(source)
  BY <1>4, IndentedIs
<1>6. n \in Nat /\ walk.pos + n = Indented(walk.pos) /\ walk.pos + n =< Len(source)
  BY <1>4, <1>5
<1>7. ws \in Seq(Byte)
  BY <1>4, <1>5 DEF Slice
<1>8. (walk').out[L + 1].text = ws
  <2> DEFINE x == Node("Indent", walk.pos, walk.pos + n)
  <2>1. (walk').out = Append(walk.out, x)
    BY <1>3 DEF Emit
  <2>2. x.text = ws
    BY <1>6 DEF Node
  <2>. HIDE DEF x, n, ws
  <2>3. (walk').out[L + 1] = x
    BY <1>4, <2>1
  <2>. QED BY <2>2, <2>3
<1>. HIDE DEF n, ws
<1>9. /\ Len((walk').out) = L + 1 /\ (walk').out[L + 1].kind = "Indent"
      /\ \A i \in 1..L : (walk').out[i] = walk.out[i]
  <2>1. "Indent" \in Markers
    BY DEF Markers
  <2>. QED BY <1>1, <1>3, <1>6, <2>1, NodeKept
<1>10. col \in Nat /\ col = Column((walk').out[L + 1].text)
  BY <1>7, <1>8, ColumnTyped
<1>11. col = ColumnAt(walk.pos)
  BY DEF ColumnAt, ws
<1>12. col # SQE!Last(levels) /\ levels' = Entered(levels, col)
  BY <1>1, <1>11 DEF Changes, Enter, Entered
<1>. HIDE DEF col
<1>13. Leveled(walk, levels)
  BY <1>1 DEF LevelInv
<1>14. Leveled(walk', levels')
  BY <1>4, <1>9, <1>10, <1>12, <1>13, LevelsFollow
<1>15. (walk').out # <<>>
  BY <1>4, <1>9
<1>16. IndentsOutside(walk', stack')
  BY <1>1 DEF IndentsOutside
<1>. QED BY <1>2, <1>14, <1>15, <1>16 DEF LevelInv

(* What keeps the Indents, with the root among them, keeps the levels.       *)
LEMMA FramedKeeps ==
  ASSUME LevelInv, ParseInv', walk.out # <<>>, Framed(walk, walk'), Len((walk').out) \in Nat,
         IndentsOutside(walk', stack'), levels' = levels
  PROVE  LevelInv'
<1>1. Len(walk.out) \in Nat /\ Leveled(walk, levels)
  BY Typed DEF LevelInv, ParseInv
<1>2. Leveled(walk', levels)
  BY <1>1, LevelsStay
<1>3. (walk').out # <<>>
  BY <1>2 DEF Leveled
<1>. QED BY <1>2, <1>3 DEF LevelInv

(* A step of the indent parser keeps the levels.                             *)
LEMMA IndentKeeps ==
  ASSUME LevelInv, IndentNext
  PROVE  LevelInv'
<1>1. CASE Delegate
  <2>1. ParseInv /\ ParseInv' /\ Next /\ levels' = levels /\ IndentsOutside(walk, stack)
    BY <1>1, IndentStepInv DEF LevelInv, Delegate
  <2>2. walk.out # <<>>
    <3>. SUFFICES ASSUME walk.out = <<>> PROVE FALSE
      OBVIOUS
    <3>1. AtTop /\ Finished
      BY <1>1 DEF LevelInv, Delegate, Offered, AtTop
    <3>2. Read = Nothing
      BY <3>1 DEF Read
    <3>. QED BY <2>1, <3>2 DEF Next, OpenGroup, CloseGroup, RejectRun, Separate, StrayCloser,
                TakeText, LeaveOpen, Demote, Nothing, Ending
  <2>3. Framed(walk, walk') /\ IndentsOutside(walk', stack') /\ Len((walk').out) \in Nat
    BY <2>1, ParseFramed
  <2>. QED BY <2>1, <2>2, <2>3, FramedKeeps
<1>. QED BY <1>1, RootKeeps, AnnounceKeeps DEF IndentNext

(* And a step of the wrapper.                                                *)
LEMMA MarkdownKeeps ==
  ASSUME LevelInv, MarkdownNext
  PROVE  LevelInv'
<1>1. CASE MarkHead
  <2>1. ParseInv /\ ParseInv'
    BY <1>1, MarkdownStepInv DEF LevelInv, MarkdownNext
  <2>2. /\ UNCHANGED <<source, stack, demoted, levels>> /\ stack = <<>> /\ walk.out # <<>>
        /\ \E kind \in Markers \ {"Indent"}, n \in Nat :
             n > 0 /\ walk.pos + n =< Len(source) /\ walk' = Emit(walk, kind, n)
    BY <1>1, <2>1, HeadEmits
  <2>3. Framed(walk, walk') /\ Len((walk').out) \in Nat
    BY <2>1, <2>2, MarkerFramed
  <2>4. IndentsOutside(walk', stack')
    BY <2>2 DEF IndentsOutside
  <2>. QED BY <2>1, <2>2, <2>3, <2>4, FramedKeeps
<1>. QED BY <1>1, IndentKeeps DEF MarkdownNext

LEMMA LevelsRest ==
  ASSUME LevelInv, UNCHANGED indentVars
  PROVE  LevelInv'
<1>1. source' = source /\ walk' = walk /\ stack' = stack /\ demoted' = demoted /\ levels' = levels
  BY DEF indentVars, vars
<1>2. ParseInv'
  BY ParseStays DEF LevelInv, indentVars
<1>. QED BY <1>1, <1>2 DEF LevelInv

\* What the initial states and every step of the two layered parsers keep: the
\* columns held open are those of the array's own frames, the last is the last
\* Indent's, consecutive Indents differ, and no Indent is behind the opener of a
\* group still open, so none is lost when one demotes.
THEOREM LevelInvariance == (IndentSpec => []LevelInv) /\ (MarkdownSpec => []LevelInv)
<1>1. IndentInit => LevelInv
  BY LevelsBegin
<1>2. LevelInv /\ [IndentNext]_indentVars => LevelInv'
  BY IndentKeeps, LevelsRest
<1>3. LevelInv /\ [MarkdownNext]_indentVars => LevelInv'
  BY MarkdownKeeps, LevelsRest
<1>. QED BY <1>1, <1>2, <1>3, PTL DEF IndentSpec, MarkdownSpec

(* What the array implies is open, of no node as of all of them.             *)
LEMMA LevelsImplied ==
  ASSUME LevelInv
  PROVE  LevelsAreDerivable
<1>1. ParsedShape = ShapeOf(walk)
  BY DEF ParsedShape, Places, ShapeOf
<1>2. DerivedLevels = Columns(OpenIn(walk))
  BY <1>1 DEF DerivedLevels, OpenIn
<1>3. CASE walk.out = <<>>
  <2> DEFINE a == ShapeOf(walk)
  <2>1. Len(a) = 0
    BY <1>3 DEF ShapeOf
  <2>. HIDE DEF a
  <2>2. PICK w : Turns(w, a) /\ WalkFrames(a) = w[Len(a)]
    BY <2>1, WalkIs
  <2>3. w[0] = FreshWalk(a)
    BY <2>1, <2>2, TurnIs
  <2>4. WalkFrames(a).stack = <<>>
    BY <2>1, <2>2, <2>3 DEF FreshWalk
  <2>5. DerivedLevels = <<>>
    BY <1>2, <2>4 DEF OpenIn, Columns, a
  <2>. QED BY <1>3, <2>5 DEF LevelInv, LevelsAreDerivable
<1>4. CASE walk.out # <<>>
  <2>1. Implied(DerivedLevels, levels)
    BY <1>2, <1>4 DEF LevelInv, Leveled, Derivable
  <2>. QED BY <2>1 DEF Implied, LevelsAreDerivable
<1>. QED BY <1>3, <1>4

\* Two Indents in a row are at two columns.
LEMMA LevelsChange ==
  ASSUME LevelInv
  PROVE  IndentsAnnounceChanges
<1>1. Len(walk.out) \in Nat
  BY Typed DEF LevelInv, ParseInv
<1>. SUFFICES ASSUME NEW i \in Indents, NEW j \in Indents, i < j,
                     \A k \in (i + 1)..(j - 1) : k \notin Indents
     PROVE  Column(walk.out[i].text) # Column(walk.out[j].text)
  BY DEF IndentsAnnounceChanges
<1>2. /\ i \in 1..Len(walk.out) /\ walk.out[i].kind = "Indent"
      /\ j \in 1..Len(walk.out) /\ walk.out[j].kind = "Indent"
  BY DEF Indents, Places
<1>3. walk.out # <<>>
  BY <1>2
<1>4. Changing(walk)
  BY <1>3 DEF LevelInv, Leveled
<1>5. \A k \in (i + 1)..(j - 1) : walk.out[k].kind # "Indent"
  <2>1. \A k \in (i + 1)..(j - 1) : k \in 1..Len(walk.out)
    BY <1>1, <1>2
  <2>. QED BY <2>1 DEF Indents, Places
<1>. QED BY <1>2, <1>4, <1>5 DEF Changing

\* What the parse holds open is what the array implies it holds open, through
\* every demotion (change and enter against rebuild of indent.go).
THEOREM LayeredLevels ==
  (IndentSpec => []LevelsAreDerivable) /\ (MarkdownSpec => []LevelsAreDerivable)
<1>1. LevelInv => LevelsAreDerivable
  BY LevelsImplied
<1>. QED BY <1>1, LevelInvariance, PTL

\* An Indent is announced for a change of column only, and a demotion between
\* two never leaves them at one (change of indent.go).
THEOREM LayeredChanges ==
  (IndentSpec => []IndentsAnnounceChanges) /\ (MarkdownSpec => []IndentsAnnounceChanges)
<1>1. LevelInv => IndentsAnnounceChanges
  BY LevelsChange
<1>. QED BY <1>1, LevelInvariance, PTL

---------------------------------------------------------------------------
(* Groups that demote.                                                       *)

(* An Indent or a line-head marker ends no group and opens none.             *)
LEMMA EmitsEnd ==
  ASSUME EndsInv, NEW kind \in Markers \ {"Opener"}, NEW n \in Nat, n > 0 \/ kind = "Indent",
         walk.pos + n =< Len(source), walk' = Emit(walk, kind, n),
         UNCHANGED <<stack, linked>>, ParseInv'
  PROVE  EndsInv'
<1>1. \A l \in linked : l[2] \in Nat
  BY DEF EndsInv, EndsOK
<1>2. EndsOK(walk', stack, linked)
  BY <1>1, MarkEnds
<1>. QED BY <1>2, EndsPrimed

LEMMA MarkdownEndsStep ==
  ASSUME DemotersTell, EndsInv, MarkdownNext \/ IndentNext
  PROVE  EndsInv'
<1>1. ParseInv /\ ParseInv'
  BY MarkdownStepInv, IndentStepInv DEF EndsInv
<1>2. CASE MarkHead
  <2>1. UNCHANGED <<stack, linked>>
    BY <1>2 DEF MarkHead
  <2>2. PICK kind \in Markers \ {"Indent", "Opener"}, n \in Nat :
          n > 0 /\ walk.pos + n =< Len(source) /\ walk' = Emit(walk, kind, n)
    BY <1>1, <1>2, HeadEmits
  <2>. QED BY <1>1, <2>1, <2>2, EmitsEnd
<1>3. CASE Root \/ Announce
  <2>1. UNCHANGED <<stack, linked>>
    BY <1>3 DEF Root, Announce
  <2>2. PICK n \in Nat : walk.pos + n =< Len(source) /\ walk' = Emit(walk, "Indent", n)
    BY <1>1, <1>3, IndentEmits
  <2>3. "Indent" \in Markers \ {"Opener"}
    BY DEF Markers
  <2>. QED BY <1>1, <2>1, <2>2, <2>3, EmitsEnd
<1>4. CASE Delegate
  BY <1>4, EndsStep DEF Delegate
<1>. QED BY <1>2, <1>3, <1>4 DEF MarkdownNext, IndentNext

(* Under the layered parsers too a group that demotes never stands unclosed, *)
(* but for a run it rejects: the Indents and markers between do not hide its *)
(* end (indent.go, Parse; schema/markdown.go, Parse).                        *)
THEOREM LayeredEnds ==
  DemotersTell => (IndentSpec => []DemotingGroupsEnd) /\ (MarkdownSpec => []DemotingGroupsEnd)
<1>. SUFFICES ASSUME DemotersTell
              PROVE  (IndentSpec => []DemotingGroupsEnd) /\ (MarkdownSpec => []DemotingGroupsEnd)
  OBVIOUS
<1>1. IndentInit => EndsInv
  BY EndsBegin DEF IndentInit
<1>2. UNCHANGED indentVars => UNCHANGED vars
  BY DEF indentVars, vars
<1>3. EndsInv /\ [IndentNext]_indentVars => EndsInv'
  BY <1>2, MarkdownEndsStep, EndsStay
<1>4. EndsInv /\ [MarkdownNext]_indentVars => EndsInv'
  BY <1>2, MarkdownEndsStep, EndsStay
<1>5. EndsInv => DemotingGroupsEnd
  BY DemotersEnded
<1>. QED BY <1>1, <1>3, <1>4, <1>5, PTL DEF IndentSpec, MarkdownSpec

---------------------------------------------------------------------------
(* What the patterns of the passes match lies in its text.                   *)

LEMMA PastIs ==
  ASSUME NEW text, Len(text) \in Nat, NEW from \in 0..Len(text), NEW bytes
  PROVE  /\ Past(text, from, bytes) \in from..Len(text)
         /\ \A k \in (from + 1)..Past(text, from, bytes) : text[k] \in bytes
         /\ Past(text, from, bytes) = Len(text) \/ text[Past(text, from, bytes) + 1] \notin bytes
<1> DEFINE Stop(p) == p = Len(text) \/ text[p + 1] \notin bytes
           S == {p \in from..Len(text) : Stop(p)}
           Fits(p) == (\A k \in (from + 1)..p : text[k] \in bytes) /\ Stop(p)
<1>1. PICK m \in S : \A p \in S : m =< p
  <2>1. S \in SUBSET Nat /\ Len(text) \in S
    OBVIOUS
  <2>. HIDE DEF S
  <2>. QED BY <2>1, NatLeast
<1>2. ASSUME NEW k \in (from + 1)..m
      PROVE  text[k] \in bytes
  <2>1. m \in from..Len(text) /\ k - 1 \in from..Len(text) /\ ~(m =< k - 1) /\ (k - 1) + 1 = k
    OBVIOUS
  <2>2. k - 1 \notin S
    BY <1>1, <2>1
  <2>. QED BY <2>1, <2>2
<1>3. m \in from..Len(text) /\ Fits(m)
  BY <1>1, <1>2
<1>4. Past(text, from, bytes) = CHOOSE p \in from..Len(text) : Fits(p)
  BY DEF Past
<1>. HIDE DEF Fits
<1>5. Past(text, from, bytes) \in from..Len(text) /\ Fits(Past(text, from, bytes))
  BY <1>3, <1>4
<1>. QED BY <1>5 DEF Fits

\* A span that is not empty, from from on.
Within(s, from, to) ==
  s \in Nat \X Nat /\ from =< s[1] /\ s[1] < s[2] /\ s[2] =< to

LEMMA WordIs ==
  ASSUME NEW text \in Seq(Byte), NEW from \in 0..Len(text), Word(text, from) # NoSpan
  PROVE  Within(Word(text, from), from, Len(text))
<1> DEFINE start == Past(text, from, Byte \ WordBytes)
           end == Past(text, start, WordBytes)
<1>0. Len(text) \in Nat
  OBVIOUS
<1>1. start \in from..Len(text) /\ (start = Len(text) \/ text[start + 1] \notin Byte \ WordBytes)
  BY <1>0, PastIs
<1>2. start # Len(text) /\ Word(text, from) = <<start, end>>
  BY DEF Word
<1>. HIDE DEF start
<1>3. start \in 0..Len(text) /\ start + 1 \in 1..Len(text)
  BY <1>0, <1>1, <1>2
<1>4. end \in start..Len(text) /\ (end = Len(text) \/ text[end + 1] \notin WordBytes)
  BY <1>0, <1>3, PastIs
<1>5. text[start + 1] \in WordBytes
  BY <1>1, <1>2, <1>3
<1>6. end # start
  BY <1>2, <1>4, <1>5
<1>. HIDE DEF end
<1>7. start \in Nat /\ end \in Nat /\ from =< start /\ start < end /\ end =< Len(text)
  BY <1>0, <1>1, <1>4, <1>6
<1>. QED BY <1>2, <1>7 DEF Within

LEMMA FirstWordIs ==
  ASSUME NEW text \in Seq(Byte), NEW start \in 0..Len(text)
  PROVE  /\ FirstWord(text, start) \in Nat \X Nat
         /\ start =< FirstWord(text, start)[1]
         /\ FirstWord(text, start)[1] =< FirstWord(text, start)[2]
         /\ FirstWord(text, start)[2] =< Len(text)
<1> DEFINE at == Past(text, start, Blanks)
           end == Past(text, at, WordBytes)
<1>0. Len(text) \in Nat
  OBVIOUS
<1>1. at \in start..Len(text)
  BY <1>0, PastIs
<1>2. FirstWord(text, start) = <<at, end>>
  BY DEF FirstWord
<1>. HIDE DEF at
<1>3. at \in 0..Len(text)
  BY <1>0, <1>1
<1>4. end \in at..Len(text)
  BY <1>0, <1>3, PastIs
<1>. HIDE DEF end
<1>. QED BY <1>0, <1>1, <1>2, <1>4

LEMMA TailIs ==
  ASSUME NEW text \in Seq(Byte), TailOf(text)[1] < Len(text)
  PROVE  Within(TailOf(text), 0, Len(text))
<1> DEFINE S == {k \in 0..Len(text) : \A j \in (k + 1)..Len(text) : text[j] \in WordBytes}
           from == FSE!Min(S)
<1>0. Len(text) \in Nat
  OBVIOUS
<1>1. S \in SUBSET Nat /\ Len(text) \in S /\ \A k \in S : k \in 0..Len(text)
  BY <1>0
<1>. HIDE DEF S
<1>2. from \in S
  BY <1>0, <1>1, MinIn
<1>3. TailOf(text) = <<from, Len(text)>>
  BY DEF TailOf, S
<1>. HIDE DEF from
<1>. QED BY <1>0, <1>1, <1>2, <1>3 DEF Within

---------------------------------------------------------------------------
(* What a turn finds can be carved.                                          *)

\* The array's nodes.
Kinds == ParsedKinds \cup {"DeclarationType", "DeclarationName"}

Helds == [id : Nat, kind : Kinds, at : Nat, text : Seq(Byte)]

\* Spans in order that are not empty.
Apart(spans) ==
  \A k \in 1..Len(spans) : \A l \in 1..Len(spans) : k < l => spans[k][2] =< spans[l][1]

Names(spans, from, to) ==
  /\ spans \in Seq(Nat \X Nat) /\ Apart(spans)
  /\ \A k \in 1..Len(spans) : Within(spans[k], from, to)

\* An announcement names two nodes of the array, the second no earlier than the
\* first, and spans of theirs; in one node the names are right of the keyword.
NamesIn(i, from, names) ==
  names.into # None =>
    /\ names.into \in i..Len(array) /\ array[names.into].kind = "Text"
    /\ Names(names.spans, IF names.into = i THEN from ELSE 0, Len(array[names.into].text))

Sane(a) ==
  /\ a.node \in 1..Len(array) /\ array[a.node].kind \in {"Text", "Opener"}
  /\ a.kw \in Nat \X Nat /\ a.kw[1] =< a.kw[2] /\ a.kw[2] =< Len(array[a.node].text)
  /\ NamesIn(a.node, a.kw[2], [into |-> a.into, spans |-> a.spans])

LEMMA HeldIs ==
  ASSUME array \in Seq(Helds), NEW i \in 1..Len(array)
  PROVE  /\ array[i] \in Helds /\ array[i].text \in Seq(Byte) /\ Len(array[i].text) \in Nat
         /\ array[i].at \in Nat /\ array[i].id \in Nat /\ array[i].kind \in Kinds
<1>1. array[i] \in Helds
  OBVIOUS
<1>2. array[i].text \in Seq(Byte)
  BY <1>1 DEF Helds
<1>. QED BY <1>1, <1>2 DEF Helds

LEMMA SkipIs ==
  ASSUME Len(array) \in Nat, NEW info, NEW from \in Nat, SkipForward(info, from) # None
  PROVE  SkipForward(info, from) \in from..Len(array)
<1> DEFINE left == (from..Len(array)) \ Passed(info)
<1>1. left # {} /\ SkipForward(info, from) = FSE!Min(left)
  BY DEF SkipForward
<1>2. left \in SUBSET Nat /\ left \subseteq from..Len(array)
  OBVIOUS
<1>. HIDE DEF left
<1>3. FSE!Min(left) \in left
  BY <1>1, <1>2, MinIn
<1>. QED BY <1>1, <1>2, <1>3

LEMMA NamedIs ==
  ASSUME array \in Seq(Helds), NEW i \in Nat, NEW from, NEW j \in i..Len(array), j \in 1..Len(array),
         array[j].kind = "Text", NEW span,
         span # NoSpan => Within(span, IF j = i THEN from ELSE 0, Len(array[j].text))
  PROVE  NamesIn(i, from, Named(j, span))
<1>1. CASE span = NoSpan
  BY <1>1 DEF Named, Nowhere, NamesIn
<1>2. CASE span # NoSpan
  <2>1. Named(j, span).into = j /\ Named(j, span).spans = <<span>>
    BY <1>2 DEF Named
  <2>2. span \in Nat \X Nat
    BY <1>2 DEF Within
  <2>3. <<span>> \in Seq(Nat \X Nat) /\ Len(<<span>>) = 1 /\ <<span>>[1] = span
    BY <2>2
  <2>4. Names(<<span>>, IF j = i THEN from ELSE 0, Len(array[j].text))
    BY <1>2, <2>3 DEF Names, Apart
  <2>. QED BY <2>1, <2>4 DEF NamesIn
<1>. QED BY <1>1, <1>2

\* The first word of a text met further on.
LEMMA FirstInIs ==
  ASSUME array \in Seq(Helds), NEW i \in Nat, NEW from, NEW j, j # None => j \in (i + 1)..Len(array)
  PROVE  NamesIn(i, from, FirstIn(j))
<1>1. CASE j = None \/ array[j].kind # "Text"
  BY <1>1 DEF FirstIn, Nowhere, NamesIn
<1>2. CASE j # None /\ array[j].kind = "Text"
  <2>1. j \in 1..Len(array) /\ j \in i..Len(array) /\ j # i
    BY <1>2
  <2>2. array[j].text \in Seq(Byte) /\ 0 \in 0..Len(array[j].text)
    BY <2>1, HeldIs
  <2>3. Word(array[j].text, 0) # NoSpan => Within(Word(array[j].text, 0), 0, Len(array[j].text))
    BY <2>2, WordIs
  <2>4. FirstIn(j) = Named(j, Word(array[j].text, 0))
    BY <1>2 DEF FirstIn
  <2>. QED BY <1>2, <2>1, <2>3, <2>4, NamedIs
<1>. QED BY <1>1, <1>2
---------------------------------------------------------------------------
(* A group's closer, as the derivation links them, comes after its opener.   *)

ClosesOnly(info, told, D, S, n) ==
  \A i \in D : told[i].closer # info[i].closer => told[i].closer = n.id /\ \E x \in S : x.id = i

LEMMA VisitCloses ==
  ASSUME NEW D \in SUBSET Nat, NEW t, t.info \in [D -> Infos], NEW S, t.stack \in Seq(S),
         NEW n, n.id \in D, \A x \in S : x.id \in D /\ x.id # n.id
  PROVE  Visit(t, n).info \in [D -> Infos] /\ ClosesOnly(t.info, Visit(t, n).info, D, S, n)
<1> DEFINE s == t.stack
           info == t.info
           told == Visit(t, n).info
           j == EnclosingCloses(s, n)
<1>1. s \in Seq(S) /\ info \in [D -> Infos] /\ ClosesOnly(info, info, D, S, n)
  BY DEF ClosesOnly
<1>2. CASE s = <<>>
  <2>1. told = info
    BY <1>2 DEF Visit, AtCloser, AtOther
  <2>. QED BY <1>1, <2>1
<1>3. CASE s # <<>>
  <2> DEFINE x == SQE!Last(s)
  <2>1. x = s[Len(s)] /\ Len(s) \in 1..Len(s) /\ x \in S
    BY <1>1, <1>3 DEF SQE!Last
  <2>2. j = 0 \/ (j \in 1..Len(s) /\ j > 0)
    <3>1. j = 0 \/ j \in 1..(Len(s) - 1)
      <4>. HIDE DEF s
      <4>. QED BY <1>1, EnclosingIs
    <3>. HIDE DEF j, s
    <3>. QED BY <2>1, <3>1
  <2>3. j > 0 => s[j] \in S
    BY <1>1, <2>2
  <2>. HIDE DEF x, j, s, info
  <2>4. ASSUME NEW y \in S
        PROVE  Pair(info, y, n) \in [D -> Infos] /\ ClosesOnly(info, Pair(info, y, n), D, S, n)
    <3>1. D \in SUBSET Nat /\ info \in [D -> Infos] /\ y.id \in D /\ n.id \in D /\ y.id # n.id
      BY <1>1
    <3>2. /\ Pair(info, y, n) \in [D -> Infos] /\ Rests(info, Pair(info, y, n), D, n.id)
          /\ ClosersRest(info, Pair(info, y, n), D, y.id) /\ Pair(info, y, n)[y.id].closer = n.id
      BY ONLY <3>1, PairTells
    <3>. QED BY <3>1, <3>2 DEF ClosersRest, ClosesOnly
  <2>5. Enclose(info, n, x) \in [D -> Infos] /\ ClosesOnly(info, Enclose(info, n, x), D, S, n)
    <3>1. D \in SUBSET Nat /\ info \in [D -> Infos] /\ x.id \in D /\ n.id \in D /\ x.id # n.id
      BY <1>1, <2>1
    <3>2. /\ Enclose(info, n, x) \in [D -> Infos]
          /\ Enclose(info, n, x)[n.id].closer = info[n.id].closer
          /\ ClosersRest(info, Enclose(info, n, x), D, n.id)
      BY ONLY <3>1, EncloseTells
    <3>. QED BY <3>1, <3>2 DEF ClosersRest, ClosesOnly
  <2>6. \/ told = info \/ told = Enclose(info, n, x) \/ told = Pair(info, x, n)
        \/ j > 0 /\ told = Pair(info, s[j], n)
    BY <1>3 DEF Visit, AtCloser, AtOther, x, j, s, info
  <2>. HIDE DEF told
  <2>7. told \in [D -> Infos] /\ ClosesOnly(info, told, D, S, n)
    BY <1>1, <2>1, <2>3, <2>4, <2>5, <2>6
  <2>. QED BY <2>7 DEF told, info
<1>. QED BY <1>2, <1>3

\* Identities are those of one node each.
Identified(shape) ==
  /\ Len(shape) \in Nat /\ \A i \in 1..Len(shape) : shape[i].id \in Nat
  /\ \A i, k \in 1..Len(shape) : shape[i].id = shape[k].id => i = k

IdsOf(shape) == {shape[i].id : i \in 1..Len(shape)}

Later(shape, info, k) ==
  \A i \in 1..Len(shape) :
    info[shape[i].id].closer # None =>
      \E j \in (i + 1)..k : info[shape[i].id].closer = shape[j].id

ClosedBy(shape, k) ==
  /\ WalkOf(shape)[k].info \in [IdsOf(shape) -> Infos]
  /\ WalkOf(shape)[k].stack \in Seq({shape[i] : i \in 1..k})
  /\ Later(shape, WalkOf(shape)[k].info, k)

LEMMA ClosesNext ==
  ASSUME NEW shape, Identified(shape), NEW k \in 1..Len(shape), ClosedBy(shape, k - 1)
  PROVE  ClosedBy(shape, k)
<1> DEFINE t == WalkOf(shape)[k - 1]
           n == shape[k]
           D == IdsOf(shape)
           S == {shape[i] : i \in 1..(k - 1)}
           T == {shape[i] : i \in 1..k}
           told == Visit(t, n).info
<1>1. Len(shape) \in Nat /\ k \in Nat /\ k - 1 \in Nat
  BY DEF Identified
<1>2. WalkOf(shape)[k] = Visit(t, n)
  BY <1>1, WalkTurns
<1>3. D \in SUBSET Nat /\ n.id \in D /\ \A x \in S : x.id \in D /\ x.id # n.id
  <2>1. D \in SUBSET Nat /\ n.id \in D
    BY DEF Identified, IdsOf
  <2>2. ASSUME NEW i \in 1..(k - 1)
        PROVE  shape[i].id \in D /\ shape[i].id # n.id
    <3>1. i \in 1..Len(shape) /\ i # k
      BY <1>1
    <3>. QED BY <3>1 DEF Identified, IdsOf
  <2>. QED BY <2>1, <2>2
<1>4. t.info \in [D -> Infos] /\ t.stack \in Seq(S) /\ Later(shape, t.info, k - 1)
  BY DEF ClosedBy
<1>5. S \subseteq T /\ n \in T
  BY <1>1
<1>. HIDE DEF t, D, S, T
<1>6. told \in [D -> Infos] /\ ClosesOnly(t.info, told, D, S, n)
  <2>. HIDE DEF n
  <2>. QED BY <1>3, <1>4, VisitCloses
<1>7. Visit(t, n).stack \in Seq(T)
  <2>1. t.stack \in Seq(T)
    BY <1>4, <1>5
  <2>. QED BY <1>5, <2>1, VisitLeaves, AfterIn
<1>. HIDE DEF told
<1>8. ASSUME NEW i \in 1..Len(shape), told[shape[i].id].closer # None
      PROVE  \E j \in (i + 1)..k : told[shape[i].id].closer = shape[j].id
  <2>1. shape[i].id \in D
    BY DEF IdsOf, D
  <2>2. CASE told[shape[i].id].closer = t.info[shape[i].id].closer
    <3>1. PICK j \in (i + 1)..(k - 1) : told[shape[i].id].closer = shape[j].id
      BY <1>4, <1>8, <2>2 DEF Later
    <3>2. j \in (i + 1)..k
      BY <1>1
    <3>. QED BY <3>1, <3>2
  <2>3. CASE told[shape[i].id].closer # t.info[shape[i].id].closer
    <3>1. told[shape[i].id].closer = n.id /\ \E x \in S : x.id = shape[i].id
      BY <1>6, <2>1, <2>3 DEF ClosesOnly
    <3>2. PICK h \in 1..(k - 1) : shape[h].id = shape[i].id
      BY <3>1 DEF S
    <3>3. h = i
      <4>1. h \in 1..Len(shape)
        BY <1>1
      <4>. QED BY <3>2, <4>1 DEF Identified
    <3>4. k \in (i + 1)..k
      BY <1>1, <3>2, <3>3
    <3>. QED BY <3>1, <3>4
  <2>. QED BY <2>2, <2>3
<1>9. Later(shape, told, k)
  BY <1>8 DEF Later
<1>. QED BY <1>2, <1>6, <1>7, <1>9 DEF ClosedBy, D, T, told

LEMMA LinksLater ==
  ASSUME NEW shape, Identified(shape)
  PROVE  Later(shape, Derive(shape), Len(shape))
<1> DEFINE Bad == {k \in 0..Len(shape) : ~ClosedBy(shape, k)}
<1>1. Len(shape) \in Nat
  BY DEF Identified
<1>2. Bad = {}
  <2>. SUFFICES ASSUME Bad # {} PROVE FALSE
    OBVIOUS
  <2>1. Bad \in SUBSET Nat
    BY <1>1
  <2>2. PICK m \in Bad : \A k \in Bad : m =< k
    <3>. HIDE DEF Bad
    <3>. QED BY <2>1, NatLeast
  <2>3. m \in 0..Len(shape) /\ ~ClosedBy(shape, m)
    BY <2>2
  <2>4. CASE m = 0
    <3>1. WalkOf(shape)[0] = Unlinked(shape)
      BY <1>1, WalkTurns
    <3>2. NoInfo \in Infos /\ NoInfo.closer = None
      BY DEF NoInfo, Infos, None
    <3>3. Unlinked(shape).info \in [IdsOf(shape) -> Infos] /\ Unlinked(shape).stack = <<>>
      BY <3>2 DEF Unlinked, IdsOf
    <3>4. Later(shape, Unlinked(shape).info, 0)
      BY <3>2 DEF Later, Unlinked
    <3>5. <<>> \in Seq({shape[i] : i \in 1..0})
      OBVIOUS
    <3>. QED BY <2>3, <2>4, <3>1, <3>3, <3>4, <3>5 DEF ClosedBy
  <2>5. CASE m # 0
    <3>1. m - 1 \in 0..Len(shape) /\ ~(m =< m - 1) /\ m \in 1..Len(shape)
      BY <1>1, <2>3, <2>5
    <3>2. ClosedBy(shape, m - 1)
      <4>1. m - 1 \notin Bad
        <5>. HIDE DEF Bad
        <5>. QED BY <2>2, <3>1
      <4>. QED BY <3>1, <4>1
    <3>. QED BY <2>3, <3>1, <3>2, ClosesNext
  <2>. QED BY <2>4, <2>5
<1>3. ClosedBy(shape, Len(shape))
  BY <1>1, <1>2
<1>. QED BY <1>3 DEF ClosedBy, Derive
---------------------------------------------------------------------------
(* Carving.                                                                  *)

Till(n) == n.at + Len(n.text)

\* A node holds the bytes of the source at its place.
InSource(n) ==
  /\ n.at \in Nat /\ n.text \in Seq(Byte) /\ Till(n) =< Len(source)
  /\ n.text = Slice(n.at, Till(n))

\* Such nodes one after another, from a to b.
Runs(S, a, b) ==
  /\ Len(S) \in Nat
  /\ \A i \in 1..Len(S) : InSource(S[i]) /\ S[i].at = IF i = 1 THEN a ELSE Till(S[i - 1])
  /\ b = IF Len(S) = 0 THEN a ELSE Till(S[Len(S)])

LEMMA RunsJoin ==
  ASSUME NEW T, NEW S \in Seq(T), NEW U \in Seq(T), NEW a, NEW b, NEW c, Runs(S, a, b), Runs(U, b, c)
  PROVE  Runs(S \o U, a, c)
<1> DEFINE V == S \o U
           m == Len(S)
           n == Len(U)
<1>1. /\ m \in Nat /\ n \in Nat /\ Len(V) = m + n
      /\ \A i \in 1..m : V[i] = S[i]
      /\ \A i \in (m + 1)..(m + n) : V[i] = U[i - m]
  OBVIOUS
<1>. HIDE DEF V
<1>2. ASSUME NEW i \in 1..Len(V)
      PROVE  InSource(V[i]) /\ V[i].at = IF i = 1 THEN a ELSE Till(V[i - 1])
  <2>1. CASE i =< m
    <3>1. i \in 1..m /\ V[i] = S[i] /\ (i # 1 => i - 1 \in 1..m /\ V[i - 1] = S[i - 1])
      BY <1>1, <2>1
    <3>. QED BY <3>1 DEF Runs
  <2>2. CASE i = m + 1
    <3>1. 1 \in 1..n /\ V[i] = U[1] /\ U[1].at = b /\ InSource(U[1])
      <4>1. 1 \in 1..n /\ i - m = 1 /\ i \in (m + 1)..(m + n)
        BY <1>1, <2>2
      <4>. QED BY <1>1, <4>1 DEF Runs
    <3>2. CASE m = 0
      <4>1. b = a /\ i = 1
        BY <1>1, <2>2, <3>2 DEF Runs
      <4>. QED BY <3>1, <4>1
    <3>3. CASE m # 0
      <4>1. i # 1 /\ i - 1 = m /\ V[i - 1] = S[m]
        BY <1>1, <2>2, <3>3
      <4>2. b = Till(S[m])
        BY <3>3 DEF Runs
      <4>. QED BY <3>1, <4>1, <4>2
    <3>. QED BY <3>2, <3>3
  <2>3. CASE i > m + 1
    <3> DEFINE k == i - m
    <3>1. k \in 1..n /\ k # 1 /\ i # 1 /\ V[i] = U[k] /\ V[i - 1] = U[k - 1]
      <4>1. i \in (m + 1)..(m + n) /\ i - 1 \in (m + 1)..(m + n) /\ (i - 1) - m = k - 1
        BY <1>1, <2>3
      <4>. QED BY <1>1, <2>3, <4>1
    <3>. HIDE DEF k
    <3>. QED BY <3>1 DEF Runs
  <2>. QED BY <1>1, <2>1, <2>2, <2>3
<1>3. c = IF Len(V) = 0 THEN a ELSE Till(V[Len(V)])
  <2>1. CASE n = 0
    <3>1. c = b /\ Len(V) = m /\ (m # 0 => V[m] = S[m])
      BY <1>1, <2>1 DEF Runs
    <3>. QED BY <3>1 DEF Runs
  <2>2. CASE n # 0
    <3>1. m + n \in (m + 1)..(m + n) /\ (m + n) - m = n /\ m + n # 0
      BY <1>1, <2>2
    <3>2. V[m + n] = U[n] /\ c = Till(U[n])
      <4>1. V[m + n] = U[(m + n) - m]
        BY <1>1, <3>1
      <4>. QED BY <2>2, <3>1, <4>1 DEF Runs
    <3>. QED BY <1>1, <3>1, <3>2
  <2>. QED BY <2>1, <2>2
<1>. QED BY <1>1, <1>2, <1>3 DEF Runs, V

LEMMA RunsParts ==
  ASSUME NEW T, NEW S \in Seq(T), NEW a, NEW b, Runs(S, a, b), NEW i \in 1..Len(S)
  PROVE  /\ SubSeq(S, 1, i - 1) \in Seq(T) /\ Runs(SubSeq(S, 1, i - 1), a, S[i].at)
         /\ SubSeq(S, i + 1, Len(S)) \in Seq(T) /\ Runs(SubSeq(S, i + 1, Len(S)), Till(S[i]), b)
<1> DEFINE n == Len(S)
           V == SubSeq(S, 1, i - 1)
           W == SubSeq(S, i + 1, n)
<1>1. n \in Nat /\ i \in Nat /\ i - 1 \in Nat /\ n - i \in Nat
  OBVIOUS
<1>2. V \in Seq(T) /\ Len(V) = i - 1 /\ \A k \in 1..(i - 1) : V[k] = S[k]
  <2> DEFINE m == i - 1
  <2>1. m \in Nat /\ 0 + m =< Len(S)
    BY <1>1
  <2>. HIDE DEF m
  <2>2. /\ SubSeq(S, 0 + 1, 0 + m) \in Seq(T) /\ Len(SubSeq(S, 0 + 1, 0 + m)) = m
        /\ \A k \in 1..m : SubSeq(S, 0 + 1, 0 + m)[k] = S[0 + k]
    BY <2>1, SubSeqIs
  <2>. QED BY <2>1, <2>2 DEF m
<1>3. W \in Seq(T) /\ Len(W) = n - i /\ \A k \in 1..(n - i) : W[k] = S[i + k]
  <2> DEFINE m == n - i
  <2>1. m \in Nat /\ i + m = n
    BY <1>1
  <2>. HIDE DEF m
  <2>2. /\ SubSeq(S, i + 1, i + m) \in Seq(T) /\ Len(SubSeq(S, i + 1, i + m)) = m
        /\ \A k \in 1..m : SubSeq(S, i + 1, i + m)[k] = S[i + k]
    BY <1>1, <2>1, SubSeqIs
  <2>. QED BY <2>1, <2>2 DEF m
<1>. HIDE DEF V, W
<1>4. Runs(V, a, S[i].at)
  <2>1. ASSUME NEW k \in 1..Len(V)
        PROVE  InSource(V[k]) /\ V[k].at = IF k = 1 THEN a ELSE Till(V[k - 1])
    <3>1. k \in 1..Len(S) /\ V[k] = S[k] /\ (k # 1 => V[k - 1] = S[k - 1])
      BY <1>1, <1>2
    <3>. QED BY <3>1 DEF Runs
  <2>2. S[i].at = IF Len(V) = 0 THEN a ELSE Till(V[Len(V)])
    BY <1>1, <1>2 DEF Runs
  <2>. QED BY <1>1, <1>2, <2>1, <2>2 DEF Runs
<1>5. Runs(W, Till(S[i]), b)
  <2>1. ASSUME NEW k \in 1..Len(W)
        PROVE  InSource(W[k]) /\ W[k].at = IF k = 1 THEN Till(S[i]) ELSE Till(W[k - 1])
    <3>1. /\ i + k \in 1..Len(S) /\ i + k # 1 /\ W[k] = S[i + k]
          /\ (i + k) - 1 = i + (k - 1) /\ (k # 1 => W[k - 1] = S[i + (k - 1)])
      BY <1>1, <1>3
    <3>2. InSource(S[i + k]) /\ S[i + k].at = Till(S[i + (k - 1)])
      BY <3>1 DEF Runs
    <3>. QED BY <1>1, <3>1, <3>2
  <2>2. b = Till(S[n])
    BY <1>1 DEF Runs
  <2>3. b = IF Len(W) = 0 THEN Till(S[i]) ELSE Till(W[Len(W)])
    <3>1. CASE n = i
      BY <1>1, <1>3, <2>2, <3>1
    <3>2. CASE n # i
      <4>1. n - i \in 1..(n - i) /\ i + (n - i) = n
        BY <1>1, <3>2
      <4>. QED BY <1>1, <1>3, <2>2, <4>1
    <3>. QED BY <3>1, <3>2
  <2>. QED BY <1>1, <1>3, <2>1, <2>3 DEF Runs
<1>. QED BY <1>2, <1>3, <1>4, <1>5 DEF V, W

\* What is said of an array by its places and texts.
LEMMA RunsAlike ==
  ASSUME NEW S, NEW U, Len(U) = Len(S), NEW a, NEW b, Runs(S, a, b),
         \A i \in 1..Len(S) : U[i].at = S[i].at /\ U[i].text = S[i].text
  PROVE  Runs(U, a, b)
<1>1. Len(S) \in Nat /\ \A i \in 1..Len(S) : Till(U[i]) = Till(S[i]) /\ (InSource(S[i]) => InSource(U[i]))
  BY DEF Till, InSource, Runs
<1>2. ASSUME NEW i \in 1..Len(U)
      PROVE  InSource(U[i]) /\ U[i].at = IF i = 1 THEN a ELSE Till(U[i - 1])
  <2>1. i \in 1..Len(S) /\ (i # 1 => i - 1 \in 1..Len(S))
    BY <1>1
  <2>2. InSource(S[i]) /\ S[i].at = IF i = 1 THEN a ELSE Till(S[i - 1])
    BY <2>1 DEF Runs
  <2>. QED BY <1>1, <2>1, <2>2
<1>3. b = IF Len(U) = 0 THEN a ELSE Till(U[Len(U)])
  BY <1>1 DEF Runs
<1>. QED BY <1>1, <1>2, <1>3 DEF Runs

Carved(kind) == [kind : {"Text", kind}, at : Nat, text : Seq(Byte)]

LEMMA PartIs ==
  ASSUME source \in Seq(Byte), NEW n, InSource(n), NEW from \in Nat, NEW to \in Nat,
         from =< to, to =< Len(n.text), NEW kind
  PROVE  /\ InSource(Part(n, from, to, kind)) /\ Part(n, from, to, kind).kind = kind
         /\ Part(n, from, to, kind).at = n.at + from
         /\ Part(n, from, to, kind).text = SubSeq(n.text, from + 1, to)
         /\ Till(Part(n, from, to, kind)) = n.at + to
<1> DEFINE p == Part(n, from, to, kind)
           a == n.at
           b == Till(n)
           w == to - from
<1>1. /\ a \in Nat /\ Len(n.text) \in Nat /\ b = a + Len(n.text) /\ b \in Nat /\ b =< Len(source)
      /\ n.text = Slice(a, b) /\ n.text \in Seq(Byte)
  BY DEF InSource, Till
<1>2. w \in Nat /\ from + w = to /\ from + w =< Len(n.text) /\ a + from + w =< b /\ a + from + w = a + to
  BY <1>1
<1>3. p.kind = kind /\ p.at = a + from /\ p.text = SubSeq(n.text, from + 1, to)
  BY DEF Part
<1>. HIDE DEF a, b, p, w
<1>4. p.text \in Seq(Byte) /\ Len(p.text) = w
  <2>1. SubSeq(n.text, from + 1, from + w) \in Seq(Byte) /\ Len(SubSeq(n.text, from + 1, from + w)) = w
    BY <1>1, <1>2, SubSeqIs
  <2>. QED BY <1>2, <1>3, <2>1
<1>5. p.text = Slice(a + from, a + to)
  <2>1. /\ source \in Seq(Byte) /\ a \in Nat /\ b \in Nat /\ from \in Nat /\ w \in Nat
        /\ a + from + w =< b /\ b =< Len(source)
    BY <1>1, <1>2
  <2>2. SubSeq(Slice(a, b), from + 1, from + w) = Slice(a + from, a + from + w)
    BY ONLY <2>1, SliceOfSlice, ZenonT(40)
  <2>. QED BY <1>1, <1>2, <1>3, <2>2
<1>6. Till(p) = a + to
  BY <1>1, <1>2, <1>3, <1>4 DEF Till
<1>7. Len(source) \in Nat /\ a + to =< Len(source)
  BY <1>1
<1>8. InSource(p)
  BY <1>1, <1>3, <1>4, <1>5, <1>6, <1>7 DEF InSource
<1>. QED BY <1>3, <1>6, <1>8 DEF p, a

LEMMA OneRuns ==
  ASSUME NEW x, InSource(x)
  PROVE  Runs(<<x>>, x.at, Till(x))
BY DEF Runs

LEMMA PartCarved ==
  ASSUME source \in Seq(Byte), NEW n, InSource(n), NEW from \in Nat, NEW to \in Nat,
         from =< to, to =< Len(n.text), NEW kind, NEW k, k \in {"Text", kind}
  PROVE  /\ <<Part(n, from, to, k)>> \in Seq(Carved(kind))
         /\ Runs(<<Part(n, from, to, k)>>, n.at + from, n.at + to)
<1> DEFINE p == Part(n, from, to, k)
<1>1. /\ InSource(p) /\ p.kind = k /\ p.at = n.at + from /\ Till(p) = n.at + to
  BY PartIs
<1>2. p = [kind |-> p.kind, at |-> p.at, text |-> p.text]
  BY DEF Part
<1>. HIDE DEF p
<1>3. p \in Carved(kind)
  BY <1>1, <1>2 DEF Carved, InSource
<1>4. <<p>> \in Seq(Carved(kind))
  BY <1>3
<1>5. Runs(<<p>>, p.at, Till(p))
  BY <1>1, OneRuns
<1>. QED BY <1>1, <1>4, <1>5 DEF p

LEMMA GapIs ==
  ASSUME source \in Seq(Byte), NEW n, InSource(n), NEW from \in Nat, NEW to \in Nat,
         from =< to, to =< Len(n.text), NEW kind
  PROVE  Gap(n, from, to) \in Seq(Carved(kind)) /\ Runs(Gap(n, from, to), n.at + from, n.at + to)
<1>1. CASE from < to
  BY <1>1, PartCarved DEF Gap
<1>2. CASE from = to
  <2>1. Gap(n, from, to) = <<>>
    BY <1>2 DEF Gap
  <2>2. <<>> \in Seq(Carved(kind)) /\ Runs(<<>>, n.at + from, n.at + from)
    BY DEF Runs
  <2>. QED BY <1>2, <2>1, <2>2
<1>. QED BY <1>1, <1>2

SpansIn(spans, to) ==
  /\ spans \in Seq(Nat \X Nat) /\ Apart(spans)
  /\ \A k \in 1..Len(spans) : spans[k][1] =< spans[k][2] /\ spans[k][2] =< to

\* Where the first k spans end.
EndAfter(spans, k) == IF k = 0 THEN 0 ELSE spans[k][2]

\* What is carved with the span at k: what lies before it, and it.
PiecesAt(n, spans, kind, k) ==
  Gap(n, EndOf(SubSeq(spans, 1, k - 1)), spans[k][1]) \o <<Part(n, spans[k][1], spans[k][2], kind)>>

LEMMA EndOfIs ==
  ASSUME NEW spans \in Seq(Nat \X Nat), NEW k \in 0..Len(spans)
  PROVE  EndOf(SubSeq(spans, 1, k)) = EndAfter(spans, k)
<1> DEFINE s == SubSeq(spans, 0 + 1, 0 + k)
<1>1. k \in Nat /\ 0 + k =< Len(spans)
  OBVIOUS
<1>2. Len(s) = k /\ \A i \in 1..k : s[i] = spans[0 + i]
  BY <1>1, SubSeqIs
<1>3. s = SubSeq(spans, 1, k)
  BY <1>1
<1>. HIDE DEF s
<1>4. CASE k = 0
  <2>1. SubSeq(spans, 1, k) = <<>>
    BY <1>4
  <2>. QED BY <1>4, <2>1 DEF EndOf, EndAfter
<1>5. CASE k # 0
  <2>1. s # <<>> /\ SQE!Last(s) = spans[k]
    BY <1>1, <1>2, <1>5 DEF SQE!Last
  <2>. QED BY <1>3, <1>5, <2>1 DEF EndOf, EndAfter
<1>. QED BY <1>4, <1>5

LEMMA PieceIs ==
  ASSUME source \in Seq(Byte), NEW n, InSource(n), NEW spans, SpansIn(spans, Len(n.text)),
         NEW kind, NEW k \in 1..Len(spans)
  PROVE  /\ PiecesAt(n, spans, kind, k) \in Seq(Carved(kind))
         /\ Runs(PiecesAt(n, spans, kind, k), n.at + EndAfter(spans, k - 1), n.at + EndAfter(spans, k))
<1> DEFINE e == EndAfter(spans, k - 1)
           s == spans[k]
<1>1. /\ spans \in Seq(Nat \X Nat) /\ k \in Nat /\ Len(spans) \in Nat /\ Len(n.text) \in Nat
      /\ s \in Nat \X Nat /\ s[1] =< s[2] /\ s[2] =< Len(n.text)
  BY DEF SpansIn, InSource
<1>2. s[1] \in Nat /\ s[2] \in Nat /\ s[1] =< Len(n.text)
  BY <1>1
<1>3. e \in Nat /\ e =< s[1]
  <2>1. CASE k = 1
    BY <1>2, <2>1 DEF EndAfter
  <2>2. CASE k # 1
    <3>1. k - 1 \in 1..Len(spans) /\ k - 1 < k /\ k - 1 # 0
      BY <1>1, <2>2
    <3>2. spans[k - 1] \in Nat \X Nat
      BY <1>1, <3>1
    <3>3. spans[k - 1][2] =< s[1]
      <4> DEFINE l == k - 1
      <4>1. l \in 1..Len(spans) /\ l < k
        BY <3>1
      <4>. HIDE DEF l
      <4>2. spans[l][2] =< spans[k][1]
        BY <4>1 DEF SpansIn, Apart
      <4>. QED BY <4>2 DEF l
    <3>. QED BY <3>1, <3>2, <3>3 DEF EndAfter
  <2>. QED BY <2>1, <2>2
<1>4. EndOf(SubSeq(spans, 1, k - 1)) = e /\ EndAfter(spans, k) = s[2]
  <2>1. k - 1 \in 0..Len(spans)
    BY <1>1
  <2>2. EndAfter(spans, k) = s[2]
    BY <1>1 DEF EndAfter
  <2>. QED BY <1>1, <2>1, <2>2, EndOfIs
<1>. HIDE DEF e, s
<1> DEFINE g == Gap(n, e, s[1])
           p == <<Part(n, s[1], s[2], kind)>>
<1>5. g \in Seq(Carved(kind)) /\ Runs(g, n.at + e, n.at + s[1])
  BY <1>2, <1>3, GapIs
<1>6. p \in Seq(Carved(kind)) /\ Runs(p, n.at + s[1], n.at + s[2])
  BY <1>1, <1>2, PartCarved
<1>7. PiecesAt(n, spans, kind, k) = g \o p
  BY <1>4 DEF PiecesAt, s
<1>. HIDE DEF g, p
<1>8. g \o p \in Seq(Carved(kind)) /\ Runs(g \o p, n.at + e, n.at + s[2])
  BY <1>5, <1>6, RunsJoin
<1>. QED BY <1>4, <1>7, <1>8 DEF e

LEMMA FlatIs ==
  ASSUME NEW s
  PROVE  SQE!FlattenSeq(s) = Concatenated(s)
BY DEF SQE!FlattenSeq, Concatenated, SE!FlattenSeq

PiecesSeq(n, spans, kind) == [k \in 1..Len(spans) |-> PiecesAt(n, spans, kind, k)]

LEMMA PiecesAre ==
  ASSUME source \in Seq(Byte), NEW n, InSource(n), NEW spans, SpansIn(spans, Len(n.text)),
         NEW kind, Len(spans) > 0
  PROVE  /\ Pieces(n, spans, kind) \in Seq(Carved(kind))
         /\ Runs(Pieces(n, spans, kind), n.at, Till(n))
<1> DEFINE W == PiecesSeq(n, spans, kind)
           T == Carved(kind)
           L == Len(spans)
<1>1. /\ L \in Nat /\ spans \in Seq(Nat \X Nat) /\ Len(n.text) \in Nat /\ n.at \in Nat
  BY DEF SpansIn, InSource
<1>2. ASSUME NEW k \in 1..L
      PROVE  /\ W[k] \in Seq(T)
             /\ Runs(W[k], n.at + EndAfter(spans, k - 1), n.at + EndAfter(spans, k))
  <2>1. W[k] = PiecesAt(n, spans, kind, k)
    BY DEF PiecesSeq
  <2>. QED BY <2>1, PieceIs
<1>3. W \in Seq(Seq(T)) /\ Len(W) = L
  <2>1. W = [k \in 1..L |-> W[k]]
    BY DEF PiecesSeq
  <2>2. Len(W) = L
    BY <1>1 DEF PiecesSeq
  <2>. HIDE DEF W, T
  <2>3. \A k \in 1..L : W[k] \in Seq(T)
    BY <1>2
  <2>. QED BY <1>1, <2>1, <2>2, <2>3
<1>4. Pieces(n, spans, kind) = Concatenated(W) \o Gap(n, EndOf(spans), Len(n.text))
  <2>1. SQE!FlattenSeq(W) = Concatenated(W)
    BY FlatIs
  <2>. QED BY <2>1 DEF Pieces, PiecesSeq, PiecesAt
<1>5. EndOf(spans) = spans[L][2] /\ spans[L][2] \in Nat /\ spans[L][2] =< Len(n.text)
  <2>1. L \in 1..Len(spans) /\ spans # <<>>
    BY <1>1
  <2>2. spans[L] \in Nat \X Nat /\ spans[L][2] =< Len(n.text)
    BY <1>1, <2>1 DEF SpansIn
  <2>. QED BY <2>1, <2>2 DEF EndOf, SQE!Last
<1>. HIDE DEF W, T
<1>6. PICK f : Joins(f, W) /\ Concatenated(W) = f[L]
  <2>1. W \in Seq(Seq(T)) /\ Len(W) > 0
    BY <1>1, <1>3
  <2>2. \E f : Joins(f, W) /\ Concatenated(W) = f[Len(W)]
    BY <2>1, ConcatenatedIs
  <2>. QED BY <1>3, <2>2
<1>7. ASSUME NEW i \in 1..L
      PROVE  f[i] = IF i = 1 THEN W[i] ELSE f[i - 1] \o W[i]
  <2>1. f = [k \in 1..L |-> IF k = 1 THEN W[k] ELSE f[k - 1] \o W[k]]
    BY <1>3, <1>6 DEF Joins
  <2>. QED BY <2>1, Zenon
<1> DEFINE Fine(i) == f[i] \in Seq(T) /\ Runs(f[i], n.at, n.at + EndAfter(spans, i))
           Bad == {i \in 1..L : ~Fine(i)}
<1>8. Bad = {}
  <2>. SUFFICES ASSUME Bad # {} PROVE FALSE
    OBVIOUS
  <2>1. Bad \in SUBSET Nat
    BY <1>1
  <2>2. PICK m \in Bad : \A i \in Bad : m =< i
    <3>. HIDE DEF Bad
    <3>. QED BY <2>1, NatLeast
  <2>3. m \in 1..L /\ ~Fine(m)
    BY <2>2
  <2>4. W[m] \in Seq(T) /\ Runs(W[m], n.at + EndAfter(spans, m - 1), n.at + EndAfter(spans, m))
    BY <1>2, <2>3
  <2>5. CASE m = 1
    <3>1. f[m] = W[m] /\ EndAfter(spans, m - 1) = 0 /\ n.at + 0 = n.at
      BY <1>1, <1>7, <2>3, <2>5 DEF EndAfter
    <3>. QED BY <2>3, <2>4, <3>1
  <2>6. CASE m # 1
    <3>1. m - 1 \in 1..L /\ ~(m =< m - 1)
      BY <1>1, <2>3, <2>6
    <3>2. Fine(m - 1)
      <4>1. m - 1 \notin Bad
        <5>. HIDE DEF Bad
        <5>. QED BY <2>2, <3>1
      <4>. HIDE DEF Fine
      <4>. QED BY <3>1, <4>1
    <3>3. f[m] = f[m - 1] \o W[m]
      BY <1>7, <2>3, <2>6
    <3>4. f[m - 1] \o W[m] \in Seq(T)
      BY <2>4, <3>2
    <3>5. Runs(f[m - 1] \o W[m], n.at, n.at + EndAfter(spans, m))
      BY <2>4, <3>2, RunsJoin
    <3>. QED BY <2>3, <3>3, <3>4, <3>5
  <2>. QED BY <2>5, <2>6
<1>9. f[L] \in Seq(T) /\ Runs(f[L], n.at, n.at + spans[L][2])
  <2>1. L \in 1..L /\ Fine(L) /\ L # 0
    <3>. HIDE DEF Fine
    <3>. QED BY <1>1, <1>8
  <2>. QED BY <2>1 DEF EndAfter
<1> DEFINE g == Gap(n, spans[L][2], Len(n.text))
<1>10. g \in Seq(T) /\ Runs(g, n.at + spans[L][2], n.at + Len(n.text))
  <2> DEFINE from == spans[L][2]
             to == Len(n.text)
  <2>1. from \in Nat /\ to \in Nat /\ from =< to
    BY <1>1, <1>5
  <2>. HIDE DEF from, to
  <2>2. Gap(n, from, to) \in Seq(T) /\ Runs(Gap(n, from, to), n.at + from, n.at + to)
    <3>1. to =< Len(n.text)
      BY <2>1 DEF to
    <3>. QED BY <2>1, <3>1, GapIs DEF T
  <2>. QED BY <2>2 DEF from, to
<1>. HIDE DEF g
<1>11. f[L] \o g \in Seq(T) /\ Runs(f[L] \o g, n.at, Till(n))
  BY <1>9, <1>10, RunsJoin DEF Till
<1>. QED BY <1>4, <1>5, <1>6, <1>11 DEF g, T

LEMMA PiecesOne ==
  ASSUME source \in Seq(Byte), NEW n, InSource(n), NEW kw \in Nat \X Nat,
         kw[1] =< kw[2], kw[2] =< Len(n.text), NEW kind
  PROVE  /\ Pieces(n, <<kw>>, kind) \in Seq(Carved(kind))
         /\ Runs(Pieces(n, <<kw>>, kind), n.at, Till(n))
         /\ Pieces(n, <<kw>>, kind) =
              (Gap(n, 0, kw[1]) \o <<Part(n, kw[1], kw[2], kind)>>) \o Gap(n, kw[2], Len(n.text))
<1> DEFINE spans == <<kw>>
           W == PiecesSeq(n, spans, kind)
<1>1. spans \in Seq(Nat \X Nat) /\ Len(spans) = 1 /\ spans[1] = kw /\ kw[1] \in Nat /\ kw[2] \in Nat
  OBVIOUS
<1>2. SpansIn(spans, Len(n.text))
  BY <1>1 DEF SpansIn, Apart
<1>. HIDE DEF spans
<1>3. Pieces(n, spans, kind) \in Seq(Carved(kind)) /\ Runs(Pieces(n, spans, kind), n.at, Till(n))
  <2>1. source \in Seq(Byte) /\ InSource(n) /\ SpansIn(spans, Len(n.text)) /\ Len(spans) > 0
    BY <1>1, <1>2
  <2>. QED BY ONLY <2>1, PiecesAre
<1>4. EndOf(spans) = kw[2] /\ EndOf(SubSeq(spans, 1, 0)) = 0
  <2>1. EndOf(SubSeq(spans, 1, 0)) = EndAfter(spans, 0)
    BY <1>1, EndOfIs
  <2>2. spans # <<>>
    BY DEF spans
  <2>3. SQE!Last(spans) = kw
    BY <1>1 DEF SQE!Last
  <2>. QED BY <2>1, <2>2, <2>3 DEF EndAfter, EndOf
<1>5. Pieces(n, spans, kind) = Concatenated(W) \o Gap(n, kw[2], Len(n.text))
  <2>1. SQE!FlattenSeq(W) = Concatenated(W)
    BY FlatIs
  <2>. QED BY <1>4, <2>1 DEF Pieces, PiecesSeq, PiecesAt
<1>6. PiecesAt(n, spans, kind, 1) \in Seq(Carved(kind))
  <2>1. source \in Seq(Byte) /\ InSource(n) /\ SpansIn(spans, Len(n.text)) /\ 1 \in 1..Len(spans)
    BY <1>1, <1>2
  <2>. QED BY ONLY <2>1, PieceIs
<1>7. W = <<PiecesAt(n, spans, kind, 1)>>
  BY <1>1 DEF PiecesSeq
<1>8. PiecesAt(n, spans, kind, 1) = Gap(n, 0, kw[1]) \o <<Part(n, kw[1], kw[2], kind)>>
  BY <1>1, <1>4 DEF PiecesAt
<1>. HIDE DEF W
<1>9. Concatenated(W) = PiecesAt(n, spans, kind, 1)
  <2> DEFINE x == PiecesAt(n, spans, kind, 1)
             T == Carved(kind)
  <2>1. x \in Seq(T)
    BY <1>6
  <2>. HIDE DEF x, T
  <2>2. W \in Seq(Seq(T)) /\ Len(W) = 1 /\ W[1] = x
    BY <1>7, <2>1 DEF x
  <2>3. PICK f : Joins(f, W) /\ Concatenated(W) = f[1]
    <3>1. W \in Seq(Seq(T)) /\ Len(W) > 0
      BY <2>2
    <3>2. \E f : Joins(f, W) /\ Concatenated(W) = f[Len(W)]
      BY ONLY <3>1, ConcatenatedIs
    <3>. QED BY <2>2, <3>2
  <2>4. f = [i \in 1..1 |-> IF i = 1 THEN W[i] ELSE f[i - 1] \o W[i]]
    BY <2>2, <2>3 DEF Joins
  <2>5. f[1] = W[1]
    BY <2>4
  <2>. QED BY <2>2, <2>3, <2>5 DEF x
<1>. QED BY <1>3, <1>5, <1>8, <1>9 DEF spans

\* Whether there is anything before the keyword.
Before1(kw) == IF kw[1] > 0 THEN 1 ELSE 0

\* The keyword is one piece, and the last is what is right of it.
LEMMA PiecesOneAre ==
  ASSUME source \in Seq(Byte), NEW n, InSource(n), NEW kw \in Nat \X Nat,
         kw[1] =< kw[2], kw[2] =< Len(n.text), NEW kind, NEW P, P = Pieces(n, <<kw>>, kind)
  PROVE  /\ Len(P) = Before1(kw) + 1 + (IF kw[2] < Len(n.text) THEN 1 ELSE 0)
         /\ P[Before1(kw) + 1] = Part(n, kw[1], kw[2], kind)
         /\ \A i \in 1..Len(P) : i # Before1(kw) + 1 => P[i].kind = "Text"
         /\ kw[2] < Len(n.text) => P[Len(P)] = Part(n, kw[2], Len(n.text), "Text")
<1> DEFINE g == Gap(n, 0, kw[1])
           p == Part(n, kw[1], kw[2], kind)
           h == Gap(n, kw[2], Len(n.text))
           b == Before1(kw)
           x == Part(n, 0, kw[1], "Text")
           y == Part(n, kw[2], Len(n.text), "Text")
<1>1. P = (g \o <<p>>) \o h
  BY PiecesOne
<1>2. kw[1] \in Nat /\ kw[2] \in Nat
  OBVIOUS
<1>3. \/ b = 0 /\ g = <<>>
      \/ b = 1 /\ g = <<x>> /\ x.kind = "Text"
  BY <1>2 DEF Gap, Part, Before1
<1>4. \/ kw[2] < Len(n.text) /\ h = <<y>> /\ y.kind = "Text"
      \/ ~(kw[2] < Len(n.text)) /\ h = <<>>
  BY <1>2 DEF Gap, Part
<1>. HIDE DEF g, p, h, b, x, y
<1> DEFINE T == Carved(kind)
           L == Len(n.text)
           After1 == kw[2] < L
           more == IF After1 THEN 1 ELSE 0
           q == g \o <<p>>
<1>5. g \in Seq(T) /\ <<p>> \in Seq(T) /\ h \in Seq(T)
  <2>1. L \in Nat /\ 0 =< kw[1] /\ kw[1] =< L
    BY <1>2 DEF InSource
  <2>2. g \in Seq(T)
    BY <1>2, <2>1, GapIs DEF g
  <2>3. h \in Seq(T)
    <3> DEFINE to == L
    <3>1. to \in Nat /\ kw[2] =< to /\ to =< Len(n.text)
      BY <2>1
    <3>. HIDE DEF to
    <3>2. Gap(n, kw[2], to) \in Seq(Carved(kind))
      BY <1>2, <3>1, GapIs
    <3>. QED BY <3>2 DEF h, to
  <2>4. <<p>> \in Seq(T)
    BY <1>2, <2>1, PartCarved DEF p
  <2>. QED BY <2>2, <2>3, <2>4
<1>6. /\ b \in Nat /\ Len(g) = b /\ \A i \in 1..b : g[i].kind = "Text"
      /\ Len(h) = more /\ more \in 0..1 /\ \A i \in 1..more : h[i] = y /\ y.kind = "Text"
      /\ After1 => more = 1
  <2>1. b \in Nat /\ Len(g) = b /\ \A i \in 1..b : g[i].kind = "Text"
    <3>1. CASE b = 0 /\ g = <<>>
      BY <3>1
    <3>2. CASE b = 1 /\ g = <<x>> /\ x.kind = "Text"
      BY <3>2
    <3>. QED BY <1>3, <3>1, <3>2
  <2>2. /\ Len(h) = more /\ more \in 0..1 /\ \A i \in 1..more : h[i] = y /\ y.kind = "Text"
        /\ After1 => more = 1
    <3>1. CASE After1 /\ h = <<y>> /\ y.kind = "Text"
      BY <3>1
    <3>2. CASE ~After1 /\ h = <<>>
      BY <3>2
    <3>. QED BY <1>4, <3>1, <3>2
  <2>. QED BY <2>1, <2>2
<1>. HIDE DEF T, L, After1, more
<1>7. /\ q \in Seq(T) /\ Len(q) = b + 1 /\ q[b + 1] = p
      /\ \A i \in 1..b : q[i].kind = "Text"
  BY <1>5, <1>6
<1>. HIDE DEF q
<1>8. /\ Len(P) = b + 1 + more
      /\ \A i \in 1..(b + 1) : P[i] = q[i]
      /\ more = 1 => P[b + 2] = h[1]
  <2>1. P = q \o h
    BY <1>1 DEF q
  <2>2. /\ Len(q \o h) = (b + 1) + more /\ \A i \in 1..(b + 1) : (q \o h)[i] = q[i]
        /\ more = 1 => (q \o h)[b + 2] = h[1]
    BY <1>5, <1>6, <1>7
  <2>. QED BY <1>6, <2>1, <2>2
<1>9. /\ P[b + 1] = p
      /\ \A i \in 1..Len(P) : i # b + 1 => P[i].kind = "Text"
      /\ After1 => P[Len(P)] = y
  <2>1. P[b + 1] = p
    BY <1>6, <1>7, <1>8
  <2>2. more = 1 => P[b + 2] = y /\ y.kind = "Text"
    BY <1>6, <1>8
  <2>3. ASSUME NEW i \in 1..Len(P), i # b + 1
        PROVE  P[i].kind = "Text"
    <3>1. i \in 1..b \/ (more = 1 /\ i = b + 2)
      BY <1>6, <1>8, <2>3
    <3>2. CASE i \in 1..b
      <4>1. i \in 1..(b + 1)
        BY <1>6, <3>2
      <4>. QED BY <1>7, <1>8, <3>2, <4>1
    <3>. QED BY <2>2, <3>1, <3>2
  <2>4. After1 => more = 1 /\ Len(P) = b + 2
    BY <1>6, <1>8
  <2>. QED BY <2>1, <2>2, <2>3, <2>4
<1>. QED BY <1>8, <1>9 DEF b, p, y, more, After1, L

---------------------------------------------------------------------------
(* Carving an array.                                                         *)

\* Identities up to count, one node each.
Issued(S, count) ==
  /\ \A i \in 1..Len(S) : S[i].id =< count
  /\ \A i, k \in 1..Len(S) : S[i].id = S[k].id => i = k

\* The array renders the source.
Whole(S, count) == S \in Seq(Helds) /\ Runs(S, 0, Len(source)) /\ Issued(S, count)

HeldsOf(pieces, count) ==
  [p \in 1..Len(pieces) |->
     [id |-> count + p, kind |-> pieces[p].kind, at |-> pieces[p].at, text |-> pieces[p].text]]

LEMMA EnteredIs ==
  ASSUME NEW kind \in Kinds, NEW P \in Seq(Carved(kind)), NEW count \in Nat
  PROVE  /\ HeldsOf(P, count) \in Seq(Helds) /\ Len(HeldsOf(P, count)) = Len(P)
         /\ \A k \in 1..Len(P) :
              /\ HeldsOf(P, count)[k].id = count + k /\ HeldsOf(P, count)[k].kind = P[k].kind
              /\ HeldsOf(P, count)[k].at = P[k].at /\ HeldsOf(P, count)[k].text = P[k].text
<1> DEFINE E == HeldsOf(P, count)
<1>1. Len(P) \in Nat
  OBVIOUS
<1>2. ASSUME NEW k \in 1..Len(P)
      PROVE  /\ E[k] \in Helds /\ E[k].id = count + k /\ E[k].kind = P[k].kind
             /\ E[k].at = P[k].at /\ E[k].text = P[k].text
  <2>1. P[k] \in Carved(kind)
    OBVIOUS
  <2>2. P[k].kind \in Kinds /\ P[k].at \in Nat /\ P[k].text \in Seq(Byte)
    BY <2>1 DEF Carved, Kinds, ParsedKinds
  <2>3. E[k] = [id |-> count + k, kind |-> P[k].kind, at |-> P[k].at, text |-> P[k].text]
    BY DEF HeldsOf
  <2>4. count + k \in Nat
    BY <1>1
  <2>. QED BY <2>2, <2>3, <2>4 DEF Helds
<1>3. E = [k \in 1..Len(P) |-> E[k]] /\ Len(E) = Len(P)
  BY <1>1 DEF HeldsOf
<1>. HIDE DEF E
<1>4. E \in Seq(Helds)
  BY <1>1, <1>2, <1>3
<1>. QED BY <1>2, <1>3, <1>4 DEF E

\* The node at i gives way to pieces of its bytes.
LEMMA EntryIs ==
  ASSUME source \in Seq(Byte), NEW count \in Nat, NEW S, Whole(S, count), NEW i \in 1..Len(S),
         NEW kind \in Kinds, NEW P \in Seq(Carved(kind)), Runs(P, S[i].at, Till(S[i])),
         NEW R, R = Splice(S, i, i + 1, HeldsOf(P, count))
  PROVE  /\ Whole(R, count + Len(P)) /\ Len(R) = Len(S) - 1 + Len(P)
         /\ \A k \in 1..Len(R) :
              R[k] = IF k < i THEN S[k]
                     ELSE IF k < i + Len(P) THEN HeldsOf(P, count)[k - i + 1]
                     ELSE S[k - Len(P) + 1]
<1> DEFINE E == HeldsOf(P, count)
           n == Len(P)
           L == Len(S)
<1>1. /\ S \in Seq(Helds) /\ Runs(S, 0, Len(source)) /\ Issued(S, count)
      /\ L \in Nat /\ n \in Nat /\ i \in Nat
  BY DEF Whole
<1>2. /\ E \in Seq(Helds) /\ Len(E) = n
      /\ \A k \in 1..n : E[k].id = count + k /\ E[k].at = P[k].at /\ E[k].text = P[k].text
  BY EnteredIs
<1>. HIDE DEF E
<1>3. Runs(E, S[i].at, Till(S[i]))
  BY <1>2, RunsAlike
<1>4. /\ R \in Seq(Helds) /\ Len(R) = L - 1 + n
      /\ \A k \in 1..Len(R) :
           R[k] = IF k < i THEN S[k] ELSE IF k < i + n THEN E[k - i + 1] ELSE S[k - n + 1]
  <2> DEFINE j == i + 1
  <2>1. i \in 1..(Len(S) + 1) /\ j \in i..(Len(S) + 1)
    BY <1>1
  <2>2. \A k \in Int : k - n - i + j = k - n + 1
    BY <1>1
  <2>3. (i - 1) + n + (L - j + 1) = L - 1 + n
    BY <1>1
  <2>. HIDE DEF j
  <2>4. /\ Splice(S, i, j, E) \in Seq(Helds)
        /\ Len(Splice(S, i, j, E)) = (i - 1) + Len(E) + (Len(S) - j + 1)
        /\ \A k \in 1..Len(Splice(S, i, j, E)) :
             Splice(S, i, j, E)[k] =
               IF k < i THEN S[k] ELSE IF k < i + Len(E) THEN E[k - i + 1] ELSE S[k - Len(E) - i + j]
    <3>1. S \in Seq(Helds) /\ E \in Seq(Helds) /\ i \in 1..(Len(S) + 1) /\ j \in i..(Len(S) + 1)
      BY <1>1, <1>2, <2>1
    <3>2. Splice(S, i, j, E) \in Seq(Helds)
      BY ONLY <3>1, SpliceElements
    <3>3. Len(Splice(S, i, j, E)) = (i - 1) + Len(E) + (Len(S) - j + 1)
      BY ONLY <3>1, SpliceElements
    <3>4. ASSUME NEW k \in 1..Len(Splice(S, i, j, E))
          PROVE  Splice(S, i, j, E)[k] =
                   IF k < i THEN S[k] ELSE IF k < i + Len(E) THEN E[k - i + 1] ELSE S[k - Len(E) - i + j]
      BY ONLY <3>1, <3>4, SpliceElements
    <3>. QED BY <3>2, <3>3, <3>4
  <2>5. R = Splice(S, i, j, E)
    BY DEF E, j
  <2>6. R \in Seq(Helds) /\ Len(R) = L - 1 + n
    BY <1>2, <2>3, <2>4, <2>5
  <2>7. ASSUME NEW k \in 1..Len(R)
        PROVE  R[k] = IF k < i THEN S[k] ELSE IF k < i + n THEN E[k - i + 1] ELSE S[k - n + 1]
    <3>1. k \in Int /\ k - n - i + j = k - n + 1
      BY <2>2, <2>6
    <3>2. R[k] = IF k < i THEN S[k] ELSE IF k < i + n THEN E[k - i + 1] ELSE S[k - n - i + j]
      BY <1>2, <2>4, <2>5
    <3>. QED BY <3>1, <3>2
  <2>. QED BY <2>6, <2>7
<1>5. Runs(R, 0, Len(source))
  <2> DEFINE front == SubSeq(S, 1, i - 1)
             back == SubSeq(S, i + 1, L)
  <2>1. /\ front \in Seq(Helds) /\ Runs(front, 0, S[i].at)
        /\ back \in Seq(Helds) /\ Runs(back, Till(S[i]), Len(source))
    BY <1>1, RunsParts
  <2>2. R = (front \o E) \o back
    BY DEF Splice, E
  <2>. HIDE DEF front, back
  <2>3. front \o E \in Seq(Helds) /\ Runs(front \o E, 0, Till(S[i]))
    BY <1>2, <1>3, <2>1, RunsJoin
  <2>. QED BY <2>1, <2>2, <2>3, RunsJoin
<1>6. Issued(R, count + n)
  <2>1. ASSUME NEW k \in 1..L
        PROVE  S[k].id \in Nat /\ S[k].id =< count
    <3>1. S[k] \in Helds
      BY <1>1
    <3>. QED BY <1>1, <3>1 DEF Issued, Helds
  <2>a. /\ L \in Nat /\ n \in Nat /\ i \in Nat /\ i \in 1..L /\ count \in Nat /\ Len(R) = L - 1 + n
        /\ \A p, q \in 1..L : S[p].id = S[q].id => p = q
    BY <1>1, <1>4 DEF Issued
  <2>. HIDE DEF n, L
  <2>2. ASSUME NEW k \in 1..Len(R)
        PROVE  \/ k < i /\ k \in 1..L /\ R[k] = S[k]
               \/ i =< k /\ k < i + n /\ R[k].id = count + (k - i + 1)
               \/ i + n =< k /\ k - n + 1 \in 1..L /\ k - n + 1 > i /\ R[k] = S[k - n + 1]
    <3>1. k < i => k \in 1..L
      BY <2>a
    <3>2. i =< k /\ k < i + n => k - i + 1 \in 1..n
      BY <2>a
    <3>3. i + n =< k => k - n + 1 \in 1..L /\ k - n + 1 > i
      BY <2>a, <1>4
    <3>4. CASE k < i
      BY <1>4, <3>1, <3>4
    <3>5. CASE i =< k /\ k < i + n
      <4> DEFINE e == k - i + 1
      <4>1. e \in 1..n /\ ~(k < i)
        BY <2>a, <3>2, <3>5
      <4>2. R[k] = E[e]
        BY <1>4, <3>5, <4>1
      <4>. HIDE DEF e
      <4>3. R[k].id = count + e
        BY <1>2, <4>1, <4>2
      <4>. QED BY <3>5, <4>3 DEF e
    <3>6. CASE i + n =< k
      <4>1. ~(k < i) /\ ~(k < i + n)
        BY <2>a, <3>6
      <4>2. R[k] = S[k - n + 1]
        BY <1>4, <4>1
      <4>. QED BY <3>3, <3>6, <4>2
    <3>7. k < i \/ (i =< k /\ k < i + n) \/ i + n =< k
      BY <2>a
    <3>. QED BY <3>4, <3>5, <3>6, <3>7
  <2>3. ASSUME NEW k \in 1..Len(R)
        PROVE  R[k].id =< count + n
    <3>1. CASE k < i /\ k \in 1..L /\ R[k] = S[k]
      <4>1. S[k].id \in Nat /\ S[k].id =< count
        BY <2>1, <3>1
      <4> DEFINE id == S[k].id
      <4>2. R[k].id = id /\ id \in Nat /\ id =< count /\ count \in Nat /\ n \in Nat
        BY <2>a, <3>1, <4>1
      <4>. HIDE DEF id
      <4>. QED BY <4>2
    <3>2. CASE i =< k /\ k < i + n /\ R[k].id = count + (k - i + 1)
      <4> DEFINE id == R[k].id
      <4>1. id = count + (k - i + 1) /\ k < i + n /\ count \in Nat /\ n \in Nat /\ i \in Int /\ k \in Int
        BY <2>a, <3>2
      <4>. HIDE DEF id
      <4>2. id =< count + n
        BY ONLY <4>1
      <4>. QED BY <4>2 DEF id
    <3>3. CASE k - n + 1 \in 1..L /\ R[k] = S[k - n + 1]
      <4> DEFINE a == k - n + 1
      <4>1. a \in 1..L /\ R[k] = S[a]
        BY <3>3
      <4>. HIDE DEF a
      <4>2. S[a].id \in Nat /\ S[a].id =< count
        BY <2>1, <4>1
      <4> DEFINE id == S[a].id
      <4>3. id \in Nat /\ id =< count /\ R[k].id = id
        BY <4>1, <4>2
      <4>. HIDE DEF id
      <4>4. id =< count + n
        BY <2>a, <4>3
      <4>. QED BY <4>3, <4>4
    <3>. QED BY <2>2, <3>1, <3>2, <3>3
  <2>4. ASSUME NEW k \in 1..Len(R), NEW l \in 1..Len(R), R[k].id = R[l].id
        PROVE  k = l
    <3>1. \A p, q \in 1..L : S[p].id = S[q].id => p = q
      BY <2>a
    <3>0. ASSUME NEW a \in 1..Len(R), NEW b \in 1..Len(R), R[a].id = R[b].id, i =< a, a < i + n
          PROVE  a = b
      <4>0. a \in Int /\ b \in Int
        BY <2>a
      <4>1. R[a].id = count + (a - i + 1)
        <5>1. ~(a < i) /\ ~(i + n =< a)
          BY <2>a, <3>0, <4>0
        <5>. QED BY <2>2, <5>1
      <4> DEFINE id == R[b].id
      <4>2. id = count + (a - i + 1)
        BY <3>0, <4>1
      <4>3. ~(id =< count)
        <5>. HIDE DEF id
        <5>. QED BY <2>a, <3>0, <4>0, <4>2
      <4>4. ~(\E c \in 1..L : R[b] = S[c])
        BY <2>1, <4>3
      <4>5. id = count + (b - i + 1)
        BY <2>2, <4>4
      <4>. HIDE DEF id
      <4>. QED BY <2>a, <4>0, <4>2, <4>5
    <3>2. CASE i =< k /\ k < i + n
      BY <2>4, <3>0, <3>2
    <3>3. CASE i =< l /\ l < i + n
      BY <2>4, <3>0, <3>3
    <3>4. CASE ~(i =< k /\ k < i + n) /\ ~(i =< l /\ l < i + n)
      <4> DEFINE a == IF k < i THEN k ELSE k - n + 1
                 b == IF l < i THEN l ELSE l - n + 1
      <4>1. a \in 1..L /\ R[k] = S[a] /\ b \in 1..L /\ R[l] = S[b]
        BY <2>a, <2>2, <3>4, SMTT(30)
      <4>2. a = b
        <5>. HIDE DEF a, b
        <5>. QED BY <2>4, <3>1, <4>1
      <4>3. k \in Nat /\ l \in Nat /\ (k < i \/ i + n =< k) /\ (l < i \/ i + n =< l)
        BY <2>a, <1>4, <3>4
      <4>. QED BY <2>a, <4>2, <4>3
    <3>. QED BY <3>2, <3>3, <3>4
  <2>. QED BY <2>3, <2>4 DEF Issued
<1>. QED BY <1>4, <1>5, <1>6 DEF Whole, E

\* The pieces of a node at spans take its place, under new identities.
CarvedAt(S, i, spans, kind, count, R) ==
  LET P == Pieces(S[i], spans, kind)
  IN  /\ Len(P) \in Nat /\ P \in Seq(Carved(kind))
      /\ Whole(R, count + Len(P)) /\ Len(R) = Len(S) - 1 + Len(P)
      /\ \A k \in 1..Len(R) :
           R[k] = IF k < i THEN S[k]
                  ELSE IF k < i + Len(P) THEN HeldsOf(P, count)[k - i + 1]
                  ELSE S[k - Len(P) + 1]

LEMMA WholeNode ==
  ASSUME NEW S, NEW count, Whole(S, count), NEW i \in 1..Len(S)
  PROVE  /\ InSource(S[i]) /\ S[i].text \in Seq(Byte) /\ Len(S[i].text) \in Nat /\ S[i].at \in Nat
         /\ S[i] \in Helds /\ S[i].id \in Nat /\ S[i].id =< count
<1>1. S \in Seq(Helds) /\ Runs(S, 0, Len(source)) /\ Issued(S, count)
  BY DEF Whole
<1>2. S[i] \in Helds
  BY <1>1
<1>3. InSource(S[i])
  BY <1>1 DEF Runs
<1>4. S[i].text \in Seq(Byte)
  BY <1>3 DEF InSource
<1>5. S[i].id \in Nat /\ S[i].id =< count
  BY <1>1, <1>2 DEF Helds, Issued
<1>. QED BY <1>2, <1>3, <1>4, <1>5 DEF InSource

LEMMA CarveIs ==
  ASSUME source \in Seq(Byte), NEW count \in Nat, NEW S, Whole(S, count), NEW i \in 1..Len(S),
         NEW spans, SpansIn(spans, Len(S[i].text)), Len(spans) > 0, NEW kind \in Kinds
  PROVE  CarvedAt(S, i, spans, kind, count, Carve(S, i, spans, kind, count))
<1> DEFINE n == S[i]
           P == Pieces(n, spans, kind)
           R == Carve(S, i, spans, kind, count)
<1>1. InSource(n)
  BY WholeNode
<1>2. P \in Seq(Carved(kind)) /\ Runs(P, n.at, Till(n))
  <2>1. source \in Seq(Byte) /\ InSource(n) /\ SpansIn(spans, Len(n.text)) /\ Len(spans) > 0
    BY <1>1
  <2>. HIDE DEF n
  <2>. QED BY ONLY <2>1, PiecesAre DEF P
<1>3. R = Splice(S, i, i + 1, HeldsOf(P, count))
  <2>1. spans # <<>>
    OBVIOUS
  <2>. QED BY <2>1 DEF Carve, HeldsOf
<1>. HIDE DEF P, R
<1>4. /\ Whole(R, count + Len(P)) /\ Len(R) = Len(S) - 1 + Len(P)
      /\ \A k \in 1..Len(R) :
           R[k] = IF k < i THEN S[k]
                  ELSE IF k < i + Len(P) THEN HeldsOf(P, count)[k - i + 1]
                  ELSE S[k - Len(P) + 1]
  <2>1. /\ source \in Seq(Byte) /\ count \in Nat /\ Whole(S, count) /\ i \in 1..Len(S) /\ kind \in Kinds
        /\ P \in Seq(Carved(kind)) /\ Runs(P, S[i].at, Till(S[i]))
        /\ R = Splice(S, i, i + 1, HeldsOf(P, count))
    BY <1>2, <1>3
  <2>2. Whole(R, count + Len(P)) /\ Len(R) = Len(S) - 1 + Len(P)
    BY ONLY <2>1, EntryIs
  <2>3. ASSUME NEW k \in 1..Len(R)
        PROVE  R[k] = IF k < i THEN S[k]
                      ELSE IF k < i + Len(P) THEN HeldsOf(P, count)[k - i + 1]
                      ELSE S[k - Len(P) + 1]
    BY ONLY <2>1, <2>3, EntryIs
  <2>. QED BY <2>2, <2>3
<1>5. Len(P) \in Nat
  BY <1>2
<1>. QED BY <1>2, <1>4, <1>5 DEF CarvedAt, P, R

---------------------------------------------------------------------------
(* The window of a turn.                                                     *)

Lowered(spans, shift) == [k \in 1..Len(spans) |-> <<spans[k][1] - shift, spans[k][2] - shift>>]

LEMMA LoweredIs ==
  ASSUME NEW shift \in Nat, NEW to \in Nat, NEW spans, Names(spans, shift, to)
  PROVE  SpansIn(Lowered(spans, shift), to - shift) /\ Len(Lowered(spans, shift)) = Len(spans)
<1> DEFINE L == Len(spans)
           low == Lowered(spans, shift)
<1>1. /\ L \in Nat /\ spans \in Seq(Nat \X Nat) /\ Apart(spans)
      /\ \A k \in 1..L : /\ spans[k] \in Nat \X Nat /\ shift =< spans[k][1]
                         /\ spans[k][1] < spans[k][2] /\ spans[k][2] =< to
  BY DEF Names, Within
<1>2. Len(low) = L /\ \A k \in 1..L : low[k] = <<spans[k][1] - shift, spans[k][2] - shift>>
  BY <1>1 DEF Lowered
<1>3. ASSUME NEW k \in 1..L
      PROVE  /\ low[k] \in Nat \X Nat /\ low[k][1] = spans[k][1] - shift /\ low[k][2] = spans[k][2] - shift
             /\ low[k][1] =< low[k][2] /\ low[k][2] =< to - shift
  <2>1. /\ spans[k][1] \in Nat /\ spans[k][2] \in Nat /\ shift =< spans[k][1]
        /\ spans[k][1] < spans[k][2] /\ spans[k][2] =< to
    BY <1>1
  <2>2. spans[k][1] - shift \in Nat /\ spans[k][2] - shift \in Nat
    BY <2>1
  <2> DEFINE x == spans[k][1] - shift
             y == spans[k][2] - shift
  <2>3. low[k] = <<x, y>>
    BY <1>2
  <2>4. x \in Nat /\ y \in Nat /\ x =< y /\ y =< to - shift
    BY <2>1, <2>2
  <2>. HIDE DEF x, y, low
  <2>5. low[k][1] = x /\ low[k][2] = y /\ low[k] \in Nat \X Nat
    BY <2>3, <2>4
  <2>. QED BY <2>4, <2>5 DEF x, y
<1>4. low = [k \in 1..L |-> low[k]]
  BY DEF Lowered
<1>. HIDE DEF low
<1>5. low \in Seq(Nat \X Nat)
  BY <1>1, <1>3, <1>4
<1>6. ASSUME NEW k \in 1..L, NEW l \in 1..L, k < l
      PROVE  low[k][2] =< low[l][1]
  <2>1. spans[k][2] =< spans[l][1] /\ spans[k][2] \in Nat /\ spans[l][1] \in Nat
    BY <1>1, <1>6 DEF Apart
  <2>. QED BY <1>3, <2>1, SMTT(30)
<1>. QED BY <1>2, <1>3, <1>5, <1>6 DEF SpansIn, Apart, low

KeyedBy(hit) == Carve(array, hit.node, <<hit.kw>>, "DeclarationType", made)

CountBy(hit) == made + Len(KeyedBy(hit)) - Len(array) + 1

\* The keyword's node is carved, and then a text, if there are names.
CarvedFor(hit, R) ==
  /\ CarvedAt(array, hit.node, <<hit.kw>>, "DeclarationType", made, KeyedBy(hit))
  /\ Whole(KeyedBy(hit), CountBy(hit)) /\ CountBy(hit) \in Nat /\ made =< CountBy(hit)
  /\ R # KeyedBy(hit) =>
       \E into \in 1..Len(KeyedBy(hit)) : \E low :
         /\ KeyedBy(hit)[into].kind = "Text"
         /\ CarvedAt(KeyedBy(hit), into, low, "DeclarationName", CountBy(hit), R)

LEMMA DeclareIs ==
  ASSUME source \in Seq(Byte), made \in Nat, Whole(array, made),
         NEW hit, Sane(hit), hit.into # None, Declare(hit)
  PROVE  Whole(array', made') /\ made' \in Nat /\ CarvedFor(hit, array')
<1> DEFINE kind == "DeclarationType"
           name == "DeclarationName"
           kws == <<hit.kw>>
           i == hit.node
           t == hit.into
           n == array[i]
           P == Pieces(n, kws, kind)
           keyed == Carve(array, i, kws, kind, made)
           now == made + Len(keyed) - Len(array) + 1
           into == t + Len(keyed) - Len(array)
           shift == IF t = i THEN hit.kw[2] ELSE 0
           low == Lowered(hit.spans, shift)
           named == Carve(keyed, into, low, name, now)
<1>1. /\ array' = named
      /\ made' = now + Len(named) - Len(keyed) + 1
  BY DEF Declare, Lowered
<1>2. /\ i \in 1..Len(array) /\ t \in i..Len(array) /\ Len(array) \in Nat /\ i \in Nat /\ t \in Nat
      /\ hit.kw \in Nat \X Nat /\ hit.kw[1] =< hit.kw[2] /\ hit.kw[2] =< Len(n.text)
      /\ Names(hit.spans, shift, Len(array[t].text)) /\ array[t].kind = "Text"
  <2>1. Len(array) \in Nat
    BY DEF Whole
  <2>2. /\ t \in i..Len(array) /\ array[t].kind = "Text"
        /\ Names(hit.spans, shift, Len(array[t].text))
    BY DEF Sane, NamesIn
  <2>. QED BY <2>1, <2>2 DEF Sane
<1>3. /\ kind \in Kinds /\ name \in Kinds
  BY DEF Kinds
<1>4. InSource(n) /\ Len(n.text) \in Nat
  BY <1>2, WholeNode
<1>. HIDE DEF kind, name, i, t, n
<1>5. SpansIn(kws, Len(n.text)) /\ Len(kws) = 1
  BY <1>2 DEF SpansIn, Apart
<1>. HIDE DEF kws
<1>6. CarvedAt(array, i, kws, kind, made, keyed)
  <2>1. /\ source \in Seq(Byte) /\ made \in Nat /\ Whole(array, made) /\ i \in 1..Len(array)
        /\ SpansIn(kws, Len(array[i].text)) /\ Len(kws) > 0 /\ kind \in Kinds
    BY <1>2, <1>3, <1>5 DEF n
  <2>. QED BY ONLY <2>1, CarveIs DEF keyed
<1>7. /\ Len(P) \in Nat /\ P \in Seq(Carved(kind))
      /\ Whole(keyed, made + Len(P)) /\ Len(keyed) = Len(array) - 1 + Len(P)
      /\ \A k \in 1..Len(keyed) :
           keyed[k] = IF k < i THEN array[k]
                      ELSE IF k < i + Len(P) THEN HeldsOf(P, made)[k - i + 1]
                      ELSE array[k - Len(P) + 1]
  BY <1>6 DEF CarvedAt, n
<1>8. now = made + Len(P) /\ now \in Nat /\ into = t - 1 + Len(P)
  <2>1. /\ made \in Nat /\ Len(P) \in Nat /\ Len(array) \in Nat /\ t \in Nat
        /\ Len(keyed) = Len(array) - 1 + Len(P)
    BY <1>2, <1>7
  <2>. HIDE DEF keyed, P
  <2>. QED BY ONLY <2>1 DEF now, into
<1>9. Whole(keyed, now)
  BY <1>7, <1>8
<1>10. shift \in Nat
  BY <1>2
<1>a. /\ CarvedAt(array, hit.node, <<hit.kw>>, "DeclarationType", made, KeyedBy(hit))
      /\ KeyedBy(hit) = keyed /\ CountBy(hit) = now
  BY <1>6 DEF KeyedBy, CountBy, i, kws, kind
<1>b. made =< now
  <2>. HIDE DEF P
  <2>. QED BY <1>7, <1>8
<1>. HIDE DEF now, keyed, into
<1>11. CASE hit.spans = <<>>
  <2>1. low = <<>>
    BY <1>11 DEF Lowered
  <2>2. named = keyed
    BY <2>1 DEF Carve
  <2>3. keyed \in Seq(Helds)
    BY <1>9 DEF Whole
  <2>4. made' = now + 1
    <3>1. Len(keyed) \in Nat
      BY <2>3
    <3>. QED BY <1>1, <1>8, <2>2, <3>1
  <2>5. Whole(keyed, now + 1)
    <3>1. Issued(keyed, now)
      BY <1>9 DEF Whole
    <3>2. ASSUME NEW k \in 1..Len(keyed)
          PROVE  keyed[k].id =< now + 1
      <4>1. keyed[k].id \in Nat /\ keyed[k].id =< now
        BY <1>9, WholeNode
      <4>. QED BY <1>8, <4>1
    <3>3. Issued(keyed, now + 1)
      BY <3>1, <3>2 DEF Issued
    <3>. QED BY <1>9, <3>3 DEF Whole
  <2>6. CarvedFor(hit, array')
    BY <1>1, <1>8, <1>9, <1>a, <1>b, <2>2 DEF CarvedFor
  <2>. QED BY <1>1, <1>8, <2>2, <2>4, <2>5, <2>6
<1>12. CASE hit.spans # <<>>
  <2> DEFINE to == Len(array[t].text)
  <2>1. Len(hit.spans) \in Nat /\ Len(hit.spans) > 0 /\ Within(hit.spans[1], shift, to)
    <3>1. hit.spans \in Seq(Nat \X Nat)
      BY <1>2 DEF Names
    <3>2. Len(hit.spans) \in Nat /\ Len(hit.spans) > 0
      BY <1>12, <3>1
    <3>. QED BY <1>2, <3>2 DEF Names
  <2>2. to \in Nat /\ shift < to
    <3>1. t \in 1..Len(array)
      BY <1>2
    <3>2. to \in Nat
      BY <3>1, WholeNode
    <3>. QED BY <1>10, <2>1, <3>2, SMTT(30) DEF Within
  <2>3. into \in 1..Len(keyed) /\ Len(keyed[into].text) = to - shift /\ keyed[into].kind = "Text"
    <3>1. CASE t = i
      <4>1. shift = hit.kw[2] /\ to = Len(n.text)
        BY <3>1 DEF n
      <4>2. /\ Len(P) = Before1(hit.kw) + 1 + (IF hit.kw[2] < Len(n.text) THEN 1 ELSE 0)
            /\ hit.kw[2] < Len(n.text) => P[Len(P)] = Part(n, hit.kw[2], Len(n.text), "Text")
        <5>1. source \in Seq(Byte) /\ InSource(n) /\ hit.kw \in Nat \X Nat
              /\ hit.kw[1] =< hit.kw[2] /\ hit.kw[2] =< Len(n.text) /\ P = Pieces(n, <<hit.kw>>, kind)
          BY <1>2, <1>4 DEF n, kws
        <5>. HIDE DEF P
        <5>. QED BY ONLY <5>1, PiecesOneAre
      <4>3. Len(P) > 0 /\ P[Len(P)] = Part(n, hit.kw[2], Len(n.text), "Text")
        <5>1. hit.kw[2] < Len(n.text) /\ Before1(hit.kw) \in Nat
          BY <2>2, <4>1 DEF Before1
        <5>. HIDE DEF P
        <5>. QED BY <4>2, <5>1
      <4>4. into = i + Len(P) - 1 /\ ~(into < i) /\ into < i + Len(P) /\ into - i + 1 = Len(P)
        <5>. HIDE DEF P
        <5>. QED BY <1>2, <1>7, <1>8, <3>1, <4>3, SMTT(30)
      <4>5. into \in 1..Len(keyed)
        <5>. HIDE DEF P
        <5>1. Len(P) \in Nat /\ Len(P) > 0 /\ Len(keyed) = Len(array) - 1 + Len(P)
          BY <1>7, <4>3
        <5>2. into = i + Len(P) - 1 /\ i \in 1..Len(array) /\ Len(array) \in Nat
          BY <1>2, <4>4
        <5>. QED BY ONLY <5>1, <5>2
      <4>6. keyed[into] = HeldsOf(P, made)[Len(P)]
        <5>. HIDE DEF P
        <5>. QED BY <1>7, <4>4, <4>5
      <4>7. keyed[into].text = P[Len(P)].text /\ keyed[into].kind = P[Len(P)].kind
        <5>. HIDE DEF P
        <5>1. Len(P) \in 1..Len(P)
          BY <1>7, <4>3
        <5>. QED BY <1>3, <1>7, <4>6, <5>1, EnteredIs
      <4>8. Len(P[Len(P)].text) = Len(n.text) - hit.kw[2]
        <5> DEFINE from == hit.kw[2]
                   w == Len(n.text) - from
        <5>1. from \in Nat /\ w \in Nat /\ from + w = Len(n.text)
          BY <1>2, <1>4, SMTT(30)
        <5>2. P[Len(P)].text = SubSeq(n.text, from + 1, from + w)
          <6>. HIDE DEF P
          <6>1. P[Len(P)].text = SubSeq(n.text, from + 1, Len(n.text))
            <7>1. Part(n, from, Len(n.text), "Text").text = SubSeq(n.text, from + 1, Len(n.text))
              BY DEF Part
            <7>. QED BY <4>3, <7>1
          <6>. QED BY <5>1, <6>1
        <5>3. n.text \in Seq(Byte)
          BY <1>4 DEF InSource
        <5>. HIDE DEF from, w
        <5>4. Len(SubSeq(n.text, from + 1, from + w)) = w
          <6>1. from + w =< Len(n.text)
            BY <1>4, <5>1
          <6>. QED BY <5>1, <5>3, <6>1, SubSeqIs
        <5>. QED BY <5>2, <5>4 DEF w, from
      <4>9. P[Len(P)].kind = "Text"
        <5>. HIDE DEF P
        <5>1. Part(n, hit.kw[2], Len(n.text), "Text").kind = "Text"
          BY DEF Part
        <5>. QED BY <4>3, <5>1
      <4>. QED BY <4>1, <4>5, <4>7, <4>8, <4>9
    <3>2. CASE t # i
      <4>. HIDE DEF P
      <4>1. into \in 1..Len(keyed) /\ ~(into < i) /\ ~(into < i + Len(P)) /\ into - Len(P) + 1 = t
        BY <1>2, <1>7, <1>8, <3>2, SMTT(30)
      <4>2. keyed[into] = array[t]
        BY <1>7, <4>1
      <4>3. shift = 0
        BY <3>2
      <4>. QED BY <1>2, <2>2, <4>1, <4>2, <4>3
    <3>. QED BY <3>1, <3>2
  <2>. HIDE DEF to, shift, P
  <2>4. SpansIn(low, to - shift) /\ Len(low) = Len(hit.spans)
    <3>1. Names(hit.spans, shift, to)
      BY <1>2 DEF to, shift
    <3>. QED BY <1>10, <2>2, <3>1, LoweredIs
  <2>. HIDE DEF low
  <2>5. CarvedAt(keyed, into, low, name, now, named)
    <3>1. /\ source \in Seq(Byte) /\ now \in Nat /\ Whole(keyed, now) /\ into \in 1..Len(keyed)
          /\ SpansIn(low, Len(keyed[into].text)) /\ Len(low) > 0 /\ name \in Kinds
      BY <1>3, <1>8, <1>9, <2>1, <2>3, <2>4
    <3>. QED BY ONLY <3>1, CarveIs DEF named
  <2> DEFINE Q == Pieces(keyed[into], low, name)
  <2>6. Len(Q) \in Nat /\ Whole(named, now + Len(Q)) /\ Len(named) = Len(keyed) - 1 + Len(Q)
    BY <2>5 DEF CarvedAt
  <2>. HIDE DEF Q, named
  <2>7. keyed \in Seq(Helds)
    BY <1>9 DEF Whole
  <2>8. made' = now + Len(Q) /\ now + Len(Q) \in Nat
    <3>1. Len(keyed) \in Nat
      BY <2>7
    <3>. QED BY <1>1, <1>8, <2>6, <3>1
  <2>9. CarvedFor(hit, array')
    <3>1. /\ into \in 1..Len(KeyedBy(hit)) /\ KeyedBy(hit)[into].kind = "Text"
          /\ CarvedAt(KeyedBy(hit), into, low, "DeclarationName", CountBy(hit), array')
      BY <1>1, <1>a, <2>3, <2>5 DEF name
    <3>. QED BY <1>8, <1>9, <1>a, <1>b, <3>1 DEF CarvedFor
  <2>. QED BY <1>1, <2>6, <2>8, <2>9
<1>. QED BY <1>11, <1>12

---------------------------------------------------------------------------
(* The names of a group.                                                     *)

Lesser(numbers, n) == {m \in numbers : m < n}

\* Every rank is a number's.
LEMMA RankIs ==
  ASSUME NEW numbers \in SUBSET Nat, IsFiniteSet(numbers)
  PROVE  /\ \A k \in 1..Cardinality(numbers) : \E n \in numbers : Cardinality(Lesser(numbers, n)) = k - 1
         /\ \A n \in numbers : Cardinality(Lesser(numbers, n)) \in 0..(Cardinality(numbers) - 1)
         /\ \A m, n \in numbers : m < n => Cardinality(Lesser(numbers, m)) < Cardinality(Lesser(numbers, n))
<1> DEFINE c == Cardinality(numbers)
           T == 0..(c - 1)
           r == [n \in numbers |-> Cardinality(Lesser(numbers, n))]
<1>1. c \in Nat
  BY FS_CardinalityType
<1>2. ASSUME NEW n \in numbers
      PROVE  IsFiniteSet(Lesser(numbers, n)) /\ r[n] \in T /\ r[n] = Cardinality(Lesser(numbers, n))
  <2>1. Lesser(numbers, n) \in SUBSET numbers /\ n \notin Lesser(numbers, n)
    BY DEF Lesser
  <2>2. IsFiniteSet(Lesser(numbers, n)) /\ Cardinality(Lesser(numbers, n)) =< c
        /\ (c = Cardinality(Lesser(numbers, n)) => numbers = Lesser(numbers, n))
    BY <2>1, FS_Subset
  <2>3. Cardinality(Lesser(numbers, n)) \in Nat
    BY <2>2, FS_CardinalityType
  <2>4. Cardinality(Lesser(numbers, n)) # c
    BY <2>1, <2>2
  <2>. HIDE DEF c
  <2>5. Cardinality(Lesser(numbers, n)) \in T
    BY <1>1, <2>2, <2>3, <2>4
  <2>. QED BY <2>2, <2>5
<1>3. ASSUME NEW m \in numbers, NEW n \in numbers, m < n
      PROVE  r[m] < r[n]
  <2> DEFINE M == Lesser(numbers, m)
             N == Lesser(numbers, n)
  <2>1. M \in SUBSET N /\ m \in N /\ m \notin M
    <3>1. m \notin M /\ m \in N
      BY <1>3 DEF Lesser
    <3>2. ASSUME NEW x \in M
          PROVE  x \in N
      <4>1. x \in numbers /\ x < m
        BY DEF Lesser
      <4>2. x \in Nat /\ m \in Nat /\ n \in Nat
        BY <4>1
      <4>3. x < n
        BY <1>3, <4>1, <4>2
      <4>. QED BY <4>1, <4>3 DEF Lesser
    <3>. QED BY <3>1, <3>2
  <2>2. IsFiniteSet(M) /\ IsFiniteSet(N) /\ r[m] = Cardinality(M) /\ r[n] = Cardinality(N)
        /\ r[m] \in T /\ r[n] \in T
    BY <1>2
  <2>. HIDE DEF M, N, r
  <2>3. Cardinality(M) =< Cardinality(N) /\ (Cardinality(N) = Cardinality(M) => N = M)
    BY <2>1, <2>2, FS_Subset
  <2>4. Cardinality(M) # Cardinality(N)
    BY <2>1, <2>3
  <2>. HIDE DEF c
  <2>. QED BY <1>1, <2>2, <2>3, <2>4
<1>. HIDE DEF c
<1>4. r \in [numbers -> T]
  BY <1>2
<1>5. ASSUME NEW m \in numbers, NEW n \in numbers, r[m] = r[n]
      PROVE  m = n
  <2>1. m \in Nat /\ n \in Nat
    OBVIOUS
  <2>2. ~(m < n) /\ ~(n < m)
    <3>1. r[m] \in Nat /\ r[n] \in Nat
      BY <1>1, <1>2
    <3>. HIDE DEF r
    <3>. QED BY <1>3, <1>5, <3>1
  <2>. QED BY <2>1, <2>2
<1>. HIDE DEF r
<1>6. r \in Injection(numbers, T)
  <2>. HIDE DEF T
  <2>. QED BY <1>4, <1>5 DEF Injection, IsInjective
<1>7. IsFiniteSet(T) /\ Cardinality(T) = c
  <2>1. IsFiniteSet(0..(c - 1)) /\ Cardinality(0..(c - 1)) = IF 0 > c - 1 THEN 0 ELSE (c - 1) - 0 + 1
    <3>1. 0 \in Int /\ c - 1 \in Int
      BY <1>1
    <3>. QED BY <3>1, FS_Interval
  <2>. QED BY <1>1, <2>1
<1>. HIDE DEF T
<1>8. r \in Surjection(numbers, T)
  BY <1>6, <1>7, FS_Injection DEF c
<1>9. ASSUME NEW k \in 1..c
      PROVE  \E n \in numbers : Cardinality(Lesser(numbers, n)) = k - 1
  <2>1. k - 1 \in T
    BY <1>1 DEF T
  <2>2. PICK n \in numbers : r[n] = k - 1
    BY <1>8, <2>1 DEF Surjection
  <2>. QED BY <1>2, <2>2
<1>10. \A n \in numbers : Cardinality(Lesser(numbers, n)) \in 0..(c - 1)
  BY <1>2 DEF T
<1>11. \A m, n \in numbers : m < n => Cardinality(Lesser(numbers, m)) < Cardinality(Lesser(numbers, n))
  BY <1>2, <1>3
<1>. QED BY <1>9, <1>10, <1>11 DEF c

LEMMA OrderIs ==
  ASSUME NEW numbers \in SUBSET Nat, IsFiniteSet(numbers)
  PROVE  /\ InOrder(numbers) \in Seq(numbers) /\ Len(InOrder(numbers)) = Cardinality(numbers)
         /\ Len(InOrder(numbers)) \in Nat
         /\ \A k, l \in 1..Len(InOrder(numbers)) : k < l => InOrder(numbers)[k] < InOrder(numbers)[l]
         /\ \A n \in numbers : \E k \in 1..Len(InOrder(numbers)) : InOrder(numbers)[k] = n
<1> DEFINE c == Cardinality(numbers)
           s == InOrder(numbers)
           R(n) == Cardinality(Lesser(numbers, n))
<1>1. c \in Nat
  BY FS_CardinalityType
<1>2. \A k \in 1..c : \E n \in numbers : R(n) = k - 1
  BY RankIs
<1>3. \A n \in numbers : R(n) \in 0..(c - 1)
  BY RankIs
<1>4. \A m, n \in numbers : m < n => R(m) < R(n)
  BY RankIs
<1>5. ASSUME NEW k \in 1..c
      PROVE  s[k] \in numbers /\ R(s[k]) = k - 1
  <2>1. s[k] = CHOOSE n \in numbers : R(n) = k - 1
    BY DEF InOrder, Lesser
  <2>. HIDE DEF s, c, R
  <2>. QED BY <1>2, <2>1
<1>a. s = [k \in 1..c |-> CHOOSE n \in numbers : R(n) = k - 1]
  BY DEF InOrder, Lesser
<1>. HIDE DEF s, c, R
<1>6. s = [k \in 1..c |-> s[k]] /\ Len(s) = c
  BY <1>1, <1>a
<1>7. s \in Seq(numbers)
  BY <1>1, <1>5, <1>6
<1>8. ASSUME NEW k \in 1..c, NEW l \in 1..c, k < l
      PROVE  s[k] < s[l]
  <2>1. s[k] \in numbers /\ s[l] \in numbers /\ R(s[k]) = k - 1 /\ R(s[l]) = l - 1
    BY <1>5
  <2>2. s[k] \in Nat /\ s[l] \in Nat
    BY <2>1
  <2>a. R(s[k]) < R(s[l]) /\ ~(R(s[l]) < R(s[k]))
    <3>1. k \in Int /\ l \in Int
      BY <1>1
    <3>. QED BY <1>8, <2>1, <3>1
  <2>b. R(s[k]) # R(s[l])
    <3>1. k \in Int /\ l \in Int /\ k - 1 # l - 1
      BY <1>1, <1>8
    <3>. QED BY <2>1, <3>1
  <2>3. ~(s[l] < s[k]) /\ s[l] # s[k]
    <3>1. ~(s[l] < s[k])
      BY <1>4, <2>1, <2>a
    <3>. QED BY <2>b, <3>1
  <2>. QED BY <2>2, <2>3
<1>9. ASSUME NEW n \in numbers
      PROVE  \E k \in 1..c : s[k] = n
  <2> DEFINE k == R(n) + 1
  <2>1. k \in 1..c /\ R(n) = k - 1
    BY <1>1, <1>3
  <2>. HIDE DEF k
  <2>2. s[k] \in numbers /\ R(s[k]) = R(n)
    BY <1>5, <2>1
  <2>3. n \in Nat /\ s[k] \in Nat
    BY <2>2
  <2>4. R(n) \in Nat
    BY <1>1, <1>3
  <2>5. ~(n < s[k]) /\ ~(s[k] < n)
    <3>1. ~(R(n) < R(n))
      BY <2>4
    <3>2. ~(n < s[k])
      <4>1. n < s[k] => R(n) < R(s[k])
        BY <1>4, <2>2
      <4>. QED BY <2>2, <3>1, <4>1
    <3>3. ~(s[k] < n)
      <4>1. s[k] < n => R(s[k]) < R(n)
        BY <1>4, <2>2
      <4>. QED BY <2>2, <3>1, <4>1
    <3>. QED BY <3>2, <3>3
  <2>. QED BY <2>1, <2>3, <2>5
<1>. QED BY <1>1, <1>6, <1>7, <1>8, <1>9 DEF s, c

\* Spans in the order of where they begin.
ByHead(names) ==
  LET heads == InOrder({n[1] : n \in names})
  IN  [k \in 1..Len(heads) |-> CHOOSE n \in names : n[1] = heads[k]]

LEMMA ByHeadIs ==
  ASSUME NEW names, IsFiniteSet({n[1] : n \in names}), NEW to, \A n \in names : Within(n, 0, to),
         \A m, n \in names : m = n \/ m[2] =< n[1] \/ n[2] =< m[1]
  PROVE  Names(ByHead(names), 0, to)
<1> DEFINE H == {n[1] : n \in names}
           heads == InOrder(H)
           s == ByHead(names)
           c == Len(heads)
<1>1. \A n \in names : n \in Nat \X Nat /\ n[1] \in Nat /\ n[2] \in Nat /\ n[1] < n[2]
  BY DEF Within
<1>2. H \in SUBSET Nat
  BY <1>1
<1>3. s = [k \in 1..c |-> CHOOSE n \in names : n[1] = heads[k]]
  BY DEF ByHead
<1>. HIDE DEF s
<1>4. /\ heads \in Seq(H) /\ c \in Nat
      /\ \A k, l \in 1..c : k < l => heads[k] < heads[l]
  <2>. HIDE DEF H
  <2>0. IsFiniteSet(H)
    BY DEF H
  <2>1. heads \in Seq(H) /\ c \in Nat
    BY <1>2, <2>0, OrderIs
  <2>2. \A k, l \in 1..c : k < l => heads[k] < heads[l]
    BY <1>2, <2>0, OrderIs
  <2>. QED BY <2>1, <2>2
<1>. HIDE DEF heads
<1>5. ASSUME NEW k \in 1..c
      PROVE  s[k] \in names /\ s[k][1] = heads[k]
  <2>1. heads[k] \in H
    BY <1>4
  <2>2. PICK n \in names : n[1] = heads[k]
    BY <2>1
  <2>3. s[k] = CHOOSE m \in names : m[1] = heads[k]
    BY <1>3
  <2>. QED BY <2>2, <2>3
<1>6. s = [k \in 1..c |-> s[k]] /\ Len(s) = c
  BY <1>3, <1>4
<1>. HIDE DEF H, c
<1>7. ASSUME NEW k \in 1..c, NEW l \in 1..c, k < l
      PROVE  s[k][2] =< s[l][1]
  <2>1. s[k] \in names /\ s[l] \in names /\ s[k][1] < s[l][1]
    BY <1>4, <1>5, <1>7
  <2> DEFINE p == s[k]
             q == s[l]
  <2>2. p \in names /\ q \in names /\ p[1] < q[1]
    BY <2>1
  <2>. HIDE DEF p, q
  <2>3. p[1] \in Nat /\ p[2] \in Nat /\ q[1] \in Nat /\ q[2] \in Nat /\ q[1] < q[2]
    BY <1>1, <2>2
  <2>4. p # q /\ ~(q[2] =< p[1])
    BY <2>2, <2>3
  <2>5. p[2] =< q[1]
    BY <2>2, <2>4
  <2>. QED BY <2>5 DEF p, q
<1>8. s \in Seq(Nat \X Nat)
  <2> DEFINE P == Nat \X Nat
  <2>1. \A k \in 1..c : s[k] \in P
    BY <1>1, <1>5
  <2>. HIDE DEF P
  <2>2. s \in Seq(P)
    BY <1>4, <1>6, <2>1
  <2>. QED BY <2>2 DEF P
<1>9. \A k \in 1..Len(s) : Within(s[k], 0, to)
  BY <1>5, <1>6
<1>10. Apart(s)
  BY <1>6, <1>7 DEF Apart
<1>. QED BY <1>8, <1>9, <1>10 DEF Names, s

LEMMA WordsInAre ==
  ASSUME NEW text, NEW from \in Nat, NEW to \in Nat
  PROVE  /\ \A w \in WordsIn(text, from, to) : Within(w, from, to)
         /\ \A v, w \in WordsIn(text, from, to) : v = w \/ v[2] =< w[1] \/ w[2] =< v[1]
<1> DEFINE W == WordsIn(text, from, to)
<1>1. ASSUME NEW w \in W
      PROVE  /\ w \in Nat \X Nat /\ w = <<w[1], w[2]>> /\ w[1] \in Nat /\ w[2] \in Nat
             /\ from =< w[1] /\ w[1] < w[2] /\ w[2] =< to
             /\ \A k \in (w[1] + 1)..w[2] : text[k] \in WordBytes
             /\ w[1] = from \/ text[w[1]] \notin WordBytes
             /\ w[2] = to \/ text[w[2] + 1] \notin WordBytes
  <2>1. w \in (from..to) \X (from..to)
    BY DEF WordsIn
  <2>2. w[1] \in from..to /\ w[2] \in from..to /\ w = <<w[1], w[2]>>
    BY <2>1
  <2>3. /\ w[1] < w[2] /\ \A k \in (w[1] + 1)..w[2] : text[k] \in WordBytes
        /\ w[1] = from \/ text[w[1]] \notin WordBytes
        /\ w[2] = to \/ text[w[2] + 1] \notin WordBytes
    BY DEF WordsIn
  <2>4. w[1] \in Nat /\ w[2] \in Nat
    BY <2>2
  <2>5. w \in Nat \X Nat
    <3> DEFINE a == w[1]
               b == w[2]
    <3>1. w = <<a, b>> /\ a \in Nat /\ b \in Nat
      BY <2>2, <2>4
    <3>. HIDE DEF a, b
    <3>. QED BY <3>1
  <2>. QED BY <2>2, <2>3, <2>4, <2>5
<1>. HIDE DEF W
<1>2. ASSUME NEW v \in W, NEW w \in W, v[1] < w[1]
      PROVE  v[2] =< w[1]
  <2>1. v[1] \in Nat /\ v[2] \in Nat /\ w[1] \in Nat /\ from =< v[1]
    BY <1>1
  <2>2. text[w[1]] \notin WordBytes
    BY <1>1, <1>2, <2>1
  <2>3. w[1] \notin (v[1] + 1)..v[2]
    BY <1>1, <2>2
  <2>. QED BY <1>2, <2>1, <2>3
<1>3. ASSUME NEW v \in W, NEW w \in W, v[1] = w[1], v[2] < w[2]
      PROVE  FALSE
  <2>1. v[1] \in Nat /\ v[2] \in Nat /\ w[2] \in Nat /\ w[2] =< to /\ v[1] < v[2]
    BY <1>1
  <2>2. text[v[2] + 1] \notin WordBytes
    BY <1>1, <1>3, <2>1
  <2>3. v[2] + 1 \in (w[1] + 1)..w[2]
    BY <1>3, <2>1
  <2>. QED BY <1>1, <2>2, <2>3
<1>4. ASSUME NEW v \in W, NEW w \in W
      PROVE  v = w \/ v[2] =< w[1] \/ w[2] =< v[1]
  <2>1. v[1] \in Nat /\ v[2] \in Nat /\ w[1] \in Nat /\ w[2] \in Nat
        /\ v = <<v[1], v[2]>> /\ w = <<w[1], w[2]>>
    BY <1>1
  <2>2. CASE v[1] < w[1] \/ w[1] < v[1]
    BY <1>2, <2>2
  <2>3. CASE v[1] = w[1]
    <3>1. ~(v[2] < w[2]) /\ ~(w[2] < v[2])
      BY <1>3, <2>3
    <3>2. v[2] = w[2]
      BY <2>1, <3>1
    <3>. QED BY <2>1, <2>3, <3>2
  <2>. QED BY <2>1, <2>2, <2>3
<1>5. \A w \in W : Within(w, from, to)
  BY <1>1 DEF Within
<1>. QED BY <1>4, <1>5 DEF W

\* A list lies between the separator it begins after and the next.
LEMMA ListIs ==
  ASSUME NEW text \in Seq(Byte), NEW start \in Starts(text), ListFrom(text, start) # {}
  PROVE  \E from, to \in 0..Len(text) :
           /\ ListFrom(text, start) = WordsIn(text, from, to)
           /\ start =< from /\ \A k \in (start + 1)..to : text[k] \notin Separators
<1> DEFINE from == Past(text, start, Blanks)
           ends == {to \in (from + 1)..Len(text) : IsNameList(text, from, to) /\ GoesOn(text, to)}
           to == FSE!Max(ends)
<1>0. Len(text) \in Nat /\ start \in 0..Len(text)
  BY DEF Starts
<1>1. from \in start..Len(text) /\ \A k \in (start + 1)..from : text[k] \in Blanks
  BY <1>0, PastIs
<1>2. ListFrom(text, start) = IF ends = {} THEN {} ELSE WordsIn(text, from, to)
  BY DEF ListFrom
<1>3. ends # {} /\ ListFrom(text, start) = WordsIn(text, from, to)
  BY <1>2
<1>. HIDE DEF from
<1>4. ends \in SUBSET (1..Len(text))
  BY <1>0, <1>1
<1>5. to \in ends
  <2>. HIDE DEF ends
  <2>. QED BY <1>0, <1>3, <1>4, MaxIn
<1>6. to \in (from + 1)..Len(text) /\ IsNameList(text, from, to)
  <2>. HIDE DEF to
  <2>. QED BY <1>5
<1>. HIDE DEF ends, to
<1>7. ASSUME NEW k \in (start + 1)..to
      PROVE  text[k] \notin Separators
  <2>1. CASE k =< from
    <3>1. k \in (start + 1)..from
      BY <1>0, <1>1, <2>1
    <3>. QED BY <1>1, <3>1, GoAssumption
  <2>2. CASE k > from
    <3>1. k \in (from + 1)..to
      BY <1>0, <1>1, <1>6, <2>2
    <3>2. text[k] \in WordBytes \cup Blanks \cup {Comma}
      BY <1>6, <3>1 DEF IsNameList
    <3>. QED BY <3>2, GoAssumption
  <2>. QED BY <1>0, <1>1, <1>6, <2>1, <2>2
<1>8. from \in 0..Len(text) /\ to \in 0..Len(text) /\ start =< from
  BY <1>0, <1>1, <1>6
<1>. QED BY <1>3, <1>7, <1>8

LEMMA GoNamesAre ==
  ASSUME NEW text \in Seq(Byte)
  PROVE  Names(GoNames(text), 0, Len(text))
<1> DEFINE names == UNION {ListFrom(text, s) : s \in Starts(text)}
           L == Len(text)
<1>0. L \in Nat /\ Starts(text) \subseteq 0..L
  BY DEF Starts
<1>1. GoNames(text) = ByHead(names)
  BY DEF GoNames, ByHead
<1>2. ASSUME NEW n \in names
      PROVE  \E s \in Starts(text), from \in 0..L, to \in 0..L :
               /\ n \in ListFrom(text, s) /\ ListFrom(text, s) = WordsIn(text, from, to)
               /\ s =< from /\ \A k \in (s + 1)..to : text[k] \notin Separators
  <2>1. PICK s \in Starts(text) : n \in ListFrom(text, s)
    OBVIOUS
  <2>2. ListFrom(text, s) # {}
    BY <2>1
  <2>. QED BY <2>1, <2>2, ListIs
<1>. HIDE DEF names
<1>3. ASSUME NEW n \in names
      PROVE  Within(n, 0, L)
  <2>1. PICK s \in Starts(text), from \in 0..L, to \in 0..L :
          n \in ListFrom(text, s) /\ ListFrom(text, s) = WordsIn(text, from, to)
    BY <1>2
  <2>2. from \in Nat /\ to \in Nat /\ to =< L
    BY <1>0
  <2>3. Within(n, from, to)
    BY <2>1, <2>2, WordsInAre
  <2>. QED BY <1>0, <2>2, <2>3 DEF Within
<1>4. ASSUME NEW m \in names, NEW n \in names
      PROVE  m = n \/ m[2] =< n[1] \/ n[2] =< m[1]
  <2>1. PICK s \in Starts(text), from \in 0..L, to \in 0..L :
          /\ m \in ListFrom(text, s) /\ ListFrom(text, s) = WordsIn(text, from, to)
          /\ s =< from /\ \A k \in (s + 1)..to : text[k] \notin Separators
    BY <1>2
  <2>2. PICK t \in Starts(text), gone \in 0..L, end \in 0..L :
          /\ n \in ListFrom(text, t) /\ ListFrom(text, t) = WordsIn(text, gone, end)
          /\ t =< gone /\ \A k \in (t + 1)..end : text[k] \notin Separators
    BY <1>2
  <2>3. Within(m, from, to) /\ Within(n, gone, end)
    BY <1>0, <2>1, <2>2, WordsInAre
  <2>4. /\ m[1] \in Nat /\ m[2] \in Nat /\ from =< m[1] /\ m[2] =< to
        /\ n[1] \in Nat /\ n[2] \in Nat /\ gone =< n[1] /\ n[2] =< end
        /\ s \in 0..L /\ t \in 0..L
    BY <1>0, <2>3 DEF Within
  <2>5. CASE s = t
    BY <1>0, <2>1, <2>2, <2>5, WordsInAre
  <2>6. CASE s < t
    <3>1. t \in 1..L /\ text[t] \in Separators
      BY <2>4, <2>6 DEF Starts
    <3>2. t \notin (s + 1)..to
      BY <2>1, <3>1
    <3>3. to < t
      BY <2>4, <2>6, <3>2
    <3>. QED BY <2>2, <2>4, <3>3
  <2>7. CASE t < s
    <3>1. s \in 1..L /\ text[s] \in Separators
      BY <2>4, <2>7 DEF Starts
    <3>2. s \notin (t + 1)..end
      BY <2>2, <3>1
    <3>3. end < s
      BY <2>4, <2>7, <3>2
    <3>. QED BY <2>1, <2>4, <3>3
  <2>. QED BY <2>4, <2>5, <2>6, <2>7
<1>5. IsFiniteSet({n[1] : n \in names})
  <2>1. {n[1] : n \in names} \in SUBSET (0..L)
    <3>1. ASSUME NEW n \in names
          PROVE  n[1] \in 0..L
      <4>1. n \in Nat \X Nat /\ n[1] < n[2] /\ n[2] =< L
        BY <1>3 DEF Within
      <4>. QED BY <1>0, <4>1
    <3>. QED BY <3>1
  <2>2. IsFiniteSet(0..L)
    <3>1. 0 \in Int /\ L \in Int
      BY <1>0
    <3>. QED BY <3>1, FS_Interval
  <2> DEFINE heads == {n[1] : n \in names}
  <2>. HIDE DEF heads, L
  <2>3. IsFiniteSet(heads)
    BY <2>1, <2>2, FS_Subset DEF heads
  <2>. QED BY <2>3 DEF heads
<1>6. Names(ByHead(names), 0, L)
  <2>. HIDE DEF L
  <2>. QED BY <1>3, <1>4, <1>5, ByHeadIs
<1>. QED BY <1>1, <1>6

---------------------------------------------------------------------------
(* What each language announces can be carved.                               *)

LEMMA AnnounceIs ==
  ASSUME NEW i \in 1..Len(array), array[i].kind \in {"Text", "Opener"}, NEW kw \in Nat \X Nat,
         kw[1] =< kw[2], kw[2] =< Len(array[i].text), NEW names, NamesIn(i, kw[2], names), NEW tail
  PROVE  Sane(Announcement(i, kw, names, tail))
<1> DEFINE a == Announcement(i, kw, names, tail)
<1>1. a.node = i /\ a.kw = kw /\ a.into = names.into /\ a.spans = names.spans
  BY DEF Announcement
<1>. HIDE DEF a
<1>2. NamesIn(i, kw[2], [into |-> names.into, spans |-> names.spans])
  BY DEF NamesIn
<1>. QED BY <1>1, <1>2 DEF Sane, a

LEMMA NowhereIs ==
  ASSUME NEW i, NEW from
  PROVE  NamesIn(i, from, Nowhere)
BY DEF NamesIn, Nowhere

LEMMA TopTextIs ==
  ASSUME array \in Seq(Helds), NEW info, NEW i \in TopTexts(info)
  PROVE  /\ i \in 1..Len(array) /\ i \in Nat /\ array[i].kind = "Text"
         /\ array[i].text \in Seq(Byte) /\ Len(array[i].text) \in Nat
<1>1. i \in 1..Len(array) /\ array[i].kind = "Text"
  BY DEF TopTexts
<1>. QED BY <1>1, HeldIs

LEMMA StartIs ==
  ASSUME NEW text \in Seq(Byte), NEW s \in Starts(text)
  PROVE  s \in 0..Len(text)
BY DEF Starts

\* A keyword's span, or the empty one before it.
LEMMA KeywordIs ==
  ASSUME NEW text \in Seq(Byte), NEW s \in Starts(text), NEW w, w = FirstWord(text, s)
  PROVE  /\ w \in Nat \X Nat /\ w[1] \in Nat /\ w[2] \in Nat /\ w[1] =< w[2] /\ w[2] =< Len(text)
         /\ w[1] \in 0..Len(text) /\ w[2] \in 0..Len(text) /\ w = <<w[1], w[2]>>
         /\ <<w[1], w[1]>> \in Nat \X Nat
         /\ w[1] < w[2] => Within(w, w[1], Len(text))
<1>1. s \in 0..Len(text) /\ Len(text) \in Nat
  BY StartIs
<1>2. w \in Nat \X Nat /\ w[1] =< w[2] /\ w[2] =< Len(text)
  BY <1>1, FirstWordIs
<1>3. w[1] \in Nat /\ w[2] \in Nat /\ w = <<w[1], w[2]>>
  BY <1>2
<1>. QED BY <1>1, <1>2, <1>3 DEF Within

LEMMA LuaNameIs ==
  ASSUME array \in Seq(Helds), NEW info, NEW i \in 1..Len(array),
         NEW after \in 0..Len(array[i].text)
  PROVE  NamesIn(i, after, LuaNameAfter(info, i, after))
<1> DEFINE here == IF array[i].kind = "Text" THEN Word(array[i].text, after) ELSE NoSpan
           next == SkipForward(info, i + 1)
           into == LuaInto(info, next)
<1>1. i \in Nat /\ Len(array) \in Nat /\ i \in i..Len(array)
  OBVIOUS
<1>2. CASE here # NoSpan
  <2>1. array[i].kind = "Text" /\ LuaNameAfter(info, i, after) = Named(i, here) /\ here = Word(array[i].text, after)
    BY <1>2 DEF LuaNameAfter
  <2>2. array[i].text \in Seq(Byte)
    BY HeldIs
  <2>. HIDE DEF here
  <2>3. Within(here, after, Len(array[i].text))
    BY <1>2, <2>1, <2>2, WordIs
  <2>. QED BY <1>1, <2>1, <2>3, NamedIs
<1>3. CASE here = NoSpan
  <2>1. LuaNameAfter(info, i, after) = FirstIn(into)
    BY <1>3 DEF LuaNameAfter
  <2>. HIDE DEF here
  <2>2. next # None => next \in (i + 1)..Len(array)
    <3>1. i + 1 \in Nat
      BY <1>1
    <3>. QED BY <1>1, <3>1, SkipIs
  <2>. HIDE DEF next
  <2>3. into # None => into \in (i + 1)..Len(array)
    <3>1. CASE next # None /\ IsFunction(next)
      <4>1. into = SkipForward(info, next + 1) /\ next + 1 \in Nat
        BY <1>1, <2>2, <3>1 DEF LuaInto
      <4>2. into # None => into \in (next + 1)..Len(array)
        BY <1>1, <4>1, SkipIs
      <4>. HIDE DEF into
      <4>. QED BY <1>1, <2>2, <3>1, <4>2
    <3>2. CASE ~(next # None /\ IsFunction(next))
      BY <2>2, <3>2 DEF LuaInto
    <3>. QED BY <3>1, <3>2
  <2>. HIDE DEF into
  <2>. QED BY <1>1, <2>1, <2>3, FirstInIs
<1>. QED BY <1>2, <1>3

LEMMA LuaIs ==
  ASSUME array \in Seq(Helds), NEW info, NEW a \in LuaAnnounced(info)
  PROVE  Sane(a)
<1>1. CASE a \in { Announcement(i, <<0, Len(array[i].text)>>, LuaNameAfter(info, i, 0), FALSE) :
                     i \in {j \in 1..Len(array) : IsFunction(j) /\ TopLevel(info, j)} }
  <2>1. PICK i \in 1..Len(array) :
          IsFunction(i) /\ a = Announcement(i, <<0, Len(array[i].text)>>, LuaNameAfter(info, i, 0), FALSE)
    BY <1>1
  <2> DEFINE to == Len(array[i].text)
             kw == <<0, to>>
  <2>2. array[i].kind = "Opener" /\ to \in Nat
    BY <2>1, HeldIs DEF IsFunction
  <2>3. NamesIn(i, 0, LuaNameAfter(info, i, 0))
    <3>1. 0 \in 0..to
      BY <2>2
    <3>. QED BY <3>1, LuaNameIs
  <2>4. NamesIn(i, to, LuaNameAfter(info, i, 0))
    <3>1. LuaNameAfter(info, i, 0).into # i
      <4>1. LuaNameAfter(info, i, 0).into # None => array[LuaNameAfter(info, i, 0).into].kind = "Text"
        BY <2>3 DEF NamesIn
      <4>2. i # None
        BY DEF None
      <4>. QED BY <2>2, <4>1, <4>2
    <3>. QED BY <2>3, <3>1 DEF NamesIn
  <2>5. kw \in Nat \X Nat /\ kw[1] = 0 /\ kw[2] = to
    BY <2>2
  <2>. HIDE DEF to, kw
  <2>6. kw[1] =< kw[2] /\ kw[2] =< Len(array[i].text)
    BY <2>2, <2>5 DEF to
  <2>7. a = Announcement(i, kw, LuaNameAfter(info, i, 0), FALSE)
    BY <2>1 DEF kw, to
  <2>. QED BY <2>2, <2>4, <2>5, <2>6, <2>7, AnnounceIs
<1>2. CASE a \in UNION { { LuaStatement(info, i, s) :
                             s \in {t \in Starts(array[i].text) :
                                      \/ Keyed(array[i].text, t, {Local})
                                      \/ LuaAssigns(array[i].text, t)} } : i \in TopTexts(info) }
  <2>0. PICK i \in TopTexts(info) : \E s \in Starts(array[i].text) : a = LuaStatement(info, i, s)
    BY <1>2
  <2>1. PICK s \in Starts(array[i].text) : a = LuaStatement(info, i, s)
    BY <2>0
  <2> DEFINE text == array[i].text
             word == FirstWord(text, s)
             kw == IF Keyed(text, s, {Local}) THEN word ELSE <<word[1], word[1]>>
             name == IF kw = word THEN LuaNameAfter(info, i, word[2]) ELSE Named(i, word)
             names == IF Begun(info, i, s) THEN name ELSE Nowhere
  <2>2. a = Announcement(i, kw, names, FALSE)
    BY <2>1 DEF LuaStatement
  <2>3. i \in 1..Len(array) /\ i \in Nat /\ array[i].kind = "Text" /\ text \in Seq(Byte) /\ Len(text) \in Nat
        /\ i \in i..Len(array)
    BY TopTextIs
  <2>4. /\ word \in Nat \X Nat /\ word[1] \in Nat /\ word[2] \in Nat /\ word[1] =< word[2] /\ word[2] =< Len(text)
        /\ word[2] \in 0..Len(text) /\ word = <<word[1], word[2]>>
        /\ <<word[1], word[1]>> \in Nat \X Nat
        /\ word[1] < word[2] => Within(word, word[1], Len(text))
    <3>. HIDE DEF text
    <3>. QED BY <2>3, KeywordIs DEF text
  <2>. HIDE DEF word, text
  <2>5. kw \in Nat \X Nat /\ kw[1] =< kw[2] /\ kw[2] =< Len(text)
    <3>1. <<word[1], word[1]>>[1] = word[1] /\ <<word[1], word[1]>>[2] = word[1]
      OBVIOUS
    <3>. QED BY <2>3, <2>4, <3>1
  <2>6. NamesIn(i, kw[2], name)
    <3>1. CASE kw = word
      <4>1. name = LuaNameAfter(info, i, word[2]) /\ kw[2] = word[2]
        BY <3>1
      <4>2. NamesIn(i, word[2], LuaNameAfter(info, i, word[2]))
        BY <2>3, <2>4, LuaNameIs DEF text
      <4>. HIDE DEF name, kw
      <4>. QED BY <4>1, <4>2
    <3>2. CASE kw # word
      <4>1. kw = <<word[1], word[1]>> /\ name = Named(i, word)
        BY <3>2
      <4>2. kw[2] = word[1] /\ word[1] # word[2]
        BY <2>4, <3>2, <4>1
      <4>3. Within(word, word[1], Len(text))
        BY <2>4, <4>2
      <4>. HIDE DEF name, kw
      <4>4. NamesIn(i, word[1], Named(i, word))
        BY <2>3, <4>3, NamedIs DEF text
      <4>. QED BY <4>1, <4>2, <4>4
    <3>. QED BY <3>1, <3>2
  <2>. HIDE DEF kw, name
  <2>7. NamesIn(i, kw[2], names)
    BY <2>6, NowhereIs
  <2>. HIDE DEF names
  <2>. QED BY <2>2, <2>3, <2>5, <2>7, AnnounceIs DEF text
<1>. QED BY <1>1, <1>2 DEF LuaAnnounced

LEMMA PythonIs ==
  ASSUME array \in Seq(Helds), NEW info, NEW a \in PythonAnnounced(info)
  PROVE  Sane(a)
<1>0. PICK i \in TopTexts(info) :
        \E s \in Starts(array[i].text) :
          a = Announcement(i, FirstWord(array[i].text, s),
                           IF Begun(info, i, s)
                           THEN PyNameAfter(i, FirstWord(array[i].text, s)[2]) ELSE Nowhere, FALSE)
  BY DEF PythonAnnounced
<1>1. PICK s \in Starts(array[i].text) :
        a = Announcement(i, FirstWord(array[i].text, s),
                         IF Begun(info, i, s)
                         THEN PyNameAfter(i, FirstWord(array[i].text, s)[2]) ELSE Nowhere, FALSE)
  BY <1>0
<1> DEFINE text == array[i].text
           kw == FirstWord(text, s)
           name == PyNameAfter(i, kw[2])
           names == IF Begun(info, i, s) THEN name ELSE Nowhere
           here == Word(text, kw[2])
<1>2. a = Announcement(i, kw, names, FALSE)
  BY <1>1
<1>3. i \in 1..Len(array) /\ i \in Nat /\ array[i].kind = "Text" /\ text \in Seq(Byte) /\ Len(text) \in Nat
      /\ i \in i..Len(array)
  BY TopTextIs
<1>4. kw \in Nat \X Nat /\ kw[1] =< kw[2] /\ kw[2] =< Len(text) /\ kw[2] \in 0..Len(text)
  <2>. HIDE DEF text
  <2>. QED BY <1>3, KeywordIs DEF text
<1>. HIDE DEF kw
<1>5. NamesIn(i, kw[2], name)
  <2>1. name = Named(i, here) \/ name = Nowhere
    BY DEF PyNameAfter
  <2>2. here # NoSpan => Within(here, kw[2], Len(text))
    <3>. HIDE DEF text
    <3>. QED BY <1>3, <1>4, WordIs DEF text
  <2>. HIDE DEF name, here
  <2>3. NamesIn(i, kw[2], Named(i, here))
    BY <1>3, <2>2, NamedIs
  <2>. QED BY <2>1, <2>3, NowhereIs
<1>. HIDE DEF name
<1>6. NamesIn(i, kw[2], names)
  BY <1>5, NowhereIs
<1>. HIDE DEF names
<1>. QED BY <1>2, <1>3, <1>4, <1>6, AnnounceIs

LEMMA ShellNameIs ==
  ASSUME array \in Seq(Helds), NEW i \in 1..Len(array), array[i].kind = "Text",
         NEW word, Within(word, 0, Len(array[i].text)), NEW begun, NEW tail
  PROVE  Sane(ShellName(i, word, begun, tail))
<1> DEFINE kw == <<word[1], word[1]>>
           names == IF begun THEN Named(i, word) ELSE Nowhere
<1>1. ShellName(i, word, begun, tail) = Announcement(i, kw, names, tail)
  BY DEF ShellName
<1>2. /\ word \in Nat \X Nat /\ word[1] \in Nat /\ word[2] \in Nat /\ word[1] < word[2]
      /\ word[2] =< Len(array[i].text) /\ Len(array[i].text) \in Nat
  BY HeldIs DEF Within
<1>3. kw \in Nat \X Nat /\ kw[1] = word[1] /\ kw[2] = word[1]
  BY <1>2
<1>. HIDE DEF kw
<1>4. kw[1] =< kw[2] /\ kw[2] =< Len(array[i].text) /\ Within(word, kw[2], Len(array[i].text))
  BY <1>2, <1>3 DEF Within
<1>5. NamesIn(i, kw[2], Named(i, word))
  <2>1. i \in Nat /\ i \in i..Len(array)
    OBVIOUS
  <2>. QED BY <1>4, <2>1, NamedIs
<1>6. NamesIn(i, kw[2], names)
  BY <1>5, NowhereIs
<1>. HIDE DEF names
<1>. QED BY <1>1, <1>3, <1>4, <1>6, AnnounceIs

LEMMA ShellIs ==
  ASSUME array \in Seq(Helds), NEW info, NEW a \in ShellAnnounced(info)
  PROVE  Sane(a)
<1>1. CASE a \in { ShellName(i, TailOf(array[i].text), TRUE, TRUE) :
                     i \in {j \in TopTexts(info) : TailOf(array[j].text)[1] < Len(array[j].text) /\ IsFunc(info, j)} }
  <2>1. PICK i \in TopTexts(info) :
          a = ShellName(i, TailOf(array[i].text), TRUE, TRUE) /\ TailOf(array[i].text)[1] < Len(array[i].text)
    BY <1>1
  <2>2. i \in 1..Len(array) /\ array[i].kind = "Text" /\ array[i].text \in Seq(Byte)
    BY TopTextIs
  <2>3. Within(TailOf(array[i].text), 0, Len(array[i].text))
    BY <2>1, <2>2, TailIs
  <2>. QED BY <2>1, <2>2, <2>3, ShellNameIs
<1>2. CASE a \in UNION { { ShellName(i, FirstWord(array[i].text, s), Begun(info, i, s), FALSE) :
                             s \in {t \in Starts(array[i].text) : ShellAssigns(array[i].text, t)} } :
                         i \in TopTexts(info) }
  <2>0. PICK i \in TopTexts(info) :
          \E s \in Starts(array[i].text) :
            a = ShellName(i, FirstWord(array[i].text, s), Begun(info, i, s), FALSE) /\ ShellAssigns(array[i].text, s)
    BY <1>2
  <2>1. PICK s \in Starts(array[i].text) :
          a = ShellName(i, FirstWord(array[i].text, s), Begun(info, i, s), FALSE) /\ ShellAssigns(array[i].text, s)
    BY <2>0
  <2> DEFINE word == FirstWord(array[i].text, s)
  <2>2. i \in 1..Len(array) /\ array[i].kind = "Text" /\ array[i].text \in Seq(Byte)
    BY TopTextIs
  <2>3. word[1] < word[2]
    BY <2>1 DEF ShellAssigns
  <2>4. Within(word, 0, Len(array[i].text))
    <3>1. Within(word, word[1], Len(array[i].text)) /\ word[1] \in Nat
      BY <2>2, <2>3, KeywordIs
    <3>. QED BY <3>1 DEF Within
  <2>. QED BY <2>1, <2>2, <2>4, ShellNameIs
<1>. QED BY <1>1, <1>2 DEF ShellAnnounced

---------------------------------------------------------------------------
(* Go jumps a group to its closer, which comes later.                        *)

LEMMA PassShape ==
  ASSUME NEW count, Whole(array, count)
  PROVE  /\ Len(Shape) = Len(array) /\ Identified(Shape) /\ Len(array) \in Nat
         /\ \A i \in 1..Len(array) : Shape[i].id = array[i].id
<1>1. array \in Seq(Helds) /\ Issued(array, count)
  BY DEF Whole
<1>2. Len(array) \in Nat
  BY <1>1
<1>3. Len(Shape) = Len(array) /\ \A i \in 1..Len(array) : Shape[i].id = array[i].id
  BY <1>2 DEF Shape
<1>4. \A i \in 1..Len(array) : array[i].id \in Nat
  BY WholeNode
<1>. HIDE DEF Shape
<1>. QED BY <1>1, <1>2, <1>3, <1>4 DEF Identified, Issued

LEMMA IndexIs ==
  ASSUME NEW count, Whole(array, count), NEW i \in 1..Len(array)
  PROVE  Index(array[i].id) = i
<1>1. Issued(array, count)
  BY DEF Whole
<1> DEFINE j == Index(array[i].id)
<1>2. j \in 1..Len(array) /\ array[j].id = array[i].id
  BY DEF Index
<1>. HIDE DEF j
<1>3. j = i
  BY <1>1, <1>2 DEF Issued
<1>. QED BY <1>3 DEF j

LEMMA BeyondIs ==
  ASSUME NEW count, Whole(array, count), NEW i \in 1..Len(array),
         Beyond(Links, Links[array[i].id].closer) # None
  PROVE  Beyond(Links, Links[array[i].id].closer) \in (i + 1)..Len(array)
<1> DEFINE closer == Links[array[i].id].closer
<1>1. Len(Shape) = Len(array) /\ Identified(Shape) /\ Len(array) \in Nat
      /\ \A k \in 1..Len(array) : Shape[k].id = array[k].id
  BY PassShape
<1>2. Later(Shape, Links, Len(array))
  BY <1>1, LinksLater DEF Links
<1>. HIDE DEF Links
<1>3. closer # None /\ Beyond(Links, closer) = SkipForward(Links, Index(closer) + 1)
  BY DEF Beyond
<1>4. PICK j \in (i + 1)..Len(array) : closer = array[j].id
  <2>1. i \in 1..Len(Shape) /\ Shape[i].id = array[i].id
    BY <1>1
  <2>2. PICK j \in (i + 1)..Len(array) : closer = Shape[j].id
    BY <1>2, <1>3, <2>1 DEF Later
  <2>3. j \in 1..Len(array)
    BY <1>1
  <2>. QED BY <1>1, <2>2, <2>3
<1>5. Index(closer) = j
  <2>1. j \in 1..Len(array)
    BY <1>1
  <2>. QED BY <1>4, <2>1, IndexIs
<1>. HIDE DEF closer
<1>6. SkipForward(Links, j + 1) # None => SkipForward(Links, j + 1) \in (j + 1)..Len(array)
  <2>1. j + 1 \in Nat
    BY <1>1
  <2>. QED BY <1>1, <2>1, SkipIs
<1>7. SkipForward(Links, Index(closer) + 1) \in (i + 1)..Len(array)
  BY <1>1, <1>3, <1>5, <1>6 DEF closer
<1>. QED BY <1>3, <1>7 DEF closer

LEMMA GoNameIs ==
  ASSUME NEW count, Whole(array, count), NEW i \in TopTexts(Links),
         NEW after \in 0..Len(array[i].text)
  PROVE  NamesIn(i, after, GoNameAfter(Links, i, after))
<1> DEFINE here == Word(array[i].text, after)
           next == SkipForward(Links, i + 1)
           into == GoInto(Links, next)
           closer == Links[array[next].id].closer
<1>1. array \in Seq(Helds) /\ Len(array) \in Nat
  BY DEF Whole
<1>2. i \in 1..Len(array) /\ i \in Nat /\ array[i].kind = "Text" /\ array[i].text \in Seq(Byte)
      /\ i \in i..Len(array)
  BY <1>1, TopTextIs
<1>3. \/ here # NoSpan /\ GoNameAfter(Links, i, after) = Named(i, here)
      \/ GoNameAfter(Links, i, after) = FirstIn(into)
  BY DEF GoNameAfter
<1>4. here # NoSpan => Within(here, after, Len(array[i].text))
  BY <1>2, WordIs
<1>. HIDE DEF here
<1>5. NamesIn(i, after, Named(i, here))
  BY <1>1, <1>2, <1>4, NamedIs
<1>6. next # None => next \in (i + 1)..Len(array)
  <2>1. i + 1 \in Nat
    BY <1>2
  <2>. QED BY <1>1, <2>1, SkipIs
<1>. HIDE DEF next
<1>7. into # None => into \in (i + 1)..Len(array)
  <2>1. CASE next # None /\ array[next].kind = "Opener"
    <3>1. into = Beyond(Links, closer)
      BY <2>1 DEF GoInto
    <3>2. next \in 1..Len(array) /\ next \in (i + 1)..Len(array)
      BY <1>1, <1>2, <1>6, <2>1
    <3>3. Beyond(Links, closer) # None => Beyond(Links, closer) \in (next + 1)..Len(array)
      <4>. HIDE DEF Links
      <4>. QED BY <3>2, BeyondIs
    <3>. HIDE DEF into, closer
    <3>. QED BY <1>1, <1>2, <3>1, <3>2, <3>3
  <2>2. CASE ~(next # None /\ array[next].kind = "Opener")
    BY <1>6, <2>2 DEF GoInto
  <2>. QED BY <2>1, <2>2
<1>. HIDE DEF into
<1>8. NamesIn(i, after, FirstIn(into))
  BY <1>1, <1>2, <1>7, FirstInIs
<1>. QED BY <1>3, <1>5, <1>8

LEMMA GoDeclaresIs ==
  ASSUME NEW count, Whole(array, count), NEW i \in TopTexts(Links),
         NEW kw, kw[2] \in 0..Len(array[i].text)
  PROVE  NamesIn(i, kw[2], GoDeclares(Links, i, kw))
<1> DEFINE alone == GoNameAfter(Links, i, kw[2])
           body == GoGroupBody(Links, i, kw[2])
           o == SkipForward(Links, i + 1)
           names == GoNames(array[body].text)
<1>1. array \in Seq(Helds) /\ Len(array) \in Nat
  BY DEF Whole
<1>2. i \in 1..Len(array) /\ i \in Nat /\ array[i].kind = "Text"
  BY <1>1, TopTextIs
<1>3. NamesIn(i, kw[2], alone)
  BY GoNameIs
<1>4. \/ GoDeclares(Links, i, kw) \in {alone, Nowhere}
      \/ body # None /\ GoDeclares(Links, i, kw) = [into |-> body, spans |-> names]
  BY DEF GoDeclares, GoReached, GoEntries
<1>. HIDE DEF alone
<1>5. o # None => o \in (i + 1)..Len(array)
  <2>1. i + 1 \in Nat
    BY <1>2
  <2>. QED BY <1>1, <2>1, SkipIs
<1>6. ASSUME body # None
      PROVE  body \in (i + 1)..Len(array) /\ array[body].kind = "Text"
  <2>1. body = TextIn(o)
    BY <1>6 DEF GoGroupBody
  <2>. HIDE DEF o
  <2>2. IsParen(o) /\ o < Len(array) /\ array[o + 1].kind = "Text" /\ body = o + 1
    BY <1>6, <2>1 DEF TextIn
  <2>3. o \in (i + 1)..Len(array)
    BY <1>5, <2>2 DEF IsParen
  <2>. HIDE DEF body
  <2>. QED BY <1>1, <1>2, <2>2, <2>3
<1>. HIDE DEF o
<1>7. ASSUME body # None
      PROVE  NamesIn(i, kw[2], [into |-> body, spans |-> names])
  <2>1. body \in 1..Len(array) /\ body \in i..Len(array) /\ body # i /\ array[body].kind = "Text"
    BY <1>1, <1>2, <1>6, <1>7
  <2>. HIDE DEF body
  <2>2. array[body].text \in Seq(Byte)
    BY <1>1, <2>1, HeldIs
  <2>3. Names(names, 0, Len(array[body].text))
    BY <2>2, GoNamesAre
  <2>. HIDE DEF names
  <2>. QED BY <2>1, <2>3 DEF NamesIn
<1>. HIDE DEF body, names
<1>. QED BY <1>3, <1>4, <1>7, NowhereIs

LEMMA GoIs ==
  ASSUME NEW count, Whole(array, count), NEW a \in GoAnnounced(Links)
  PROVE  Sane(a)
<1>. HIDE DEF Links
<1>0. PICK i \in TopTexts(Links) :
        \E s \in Starts(array[i].text) :
          a = Announcement(i, FirstWord(array[i].text, s),
                           IF Begun(Links, i, s)
                           THEN GoDeclares(Links, i, FirstWord(array[i].text, s)) ELSE Nowhere, FALSE)
  BY DEF GoAnnounced
<1>1. PICK s \in Starts(array[i].text) :
        a = Announcement(i, FirstWord(array[i].text, s),
                         IF Begun(Links, i, s)
                         THEN GoDeclares(Links, i, FirstWord(array[i].text, s)) ELSE Nowhere, FALSE)
  BY <1>0
<1> DEFINE text == array[i].text
           kw == FirstWord(text, s)
           name == GoDeclares(Links, i, kw)
           names == IF Begun(Links, i, s) THEN name ELSE Nowhere
<1>2. a = Announcement(i, kw, names, FALSE)
  BY <1>1
<1>3. i \in 1..Len(array) /\ array[i].kind = "Text" /\ text \in Seq(Byte)
  <2>1. array \in Seq(Helds)
    BY DEF Whole
  <2>. QED BY <2>1, TopTextIs
<1>4. kw \in Nat \X Nat /\ kw[1] =< kw[2] /\ kw[2] =< Len(text) /\ kw[2] \in 0..Len(text)
  <2>. HIDE DEF text
  <2>. QED BY <1>3, KeywordIs DEF text
<1>. HIDE DEF kw
<1>5. NamesIn(i, kw[2], name)
  BY <1>4, GoDeclaresIs
<1>. HIDE DEF name
<1>6. NamesIn(i, kw[2], names)
  BY <1>5, NowhereIs
<1>. HIDE DEF names
<1>. QED BY <1>2, <1>3, <1>4, <1>6, AnnounceIs

---------------------------------------------------------------------------
(* A pass: the array renders the source, from the parse on.                  *)

PassInv ==
  /\ ParseInv
  /\ lang \in {"Lua", "Go", "Python", "Shell"}
  /\ passing # "no" => made \in Nat /\ Whole(array, made)

LEMMA WholeStays ==
  ASSUME source' = source, made' \in Nat, Whole(array', made')
  PROVE  (made \in Nat /\ Whole(array, made))'
BY DEF Whole, Runs, InSource, Till, Slice, Issued, Helds, Kinds, ParsedKinds, Markers

LEMMA ParsingKeepsSource ==
  ASSUME Parsing
  PROVE  source' = source
<1>1. ASSUME Next PROVE source' = source
  <2>1. PICK r : r = Read /\ (\/ OpenGroup(r) \/ CloseGroup(r) \/ RejectRun(r) \/ Separate(r)
                              \/ StrayCloser(r) \/ TakeText(r) \/ LeaveOpen(r) \/ Demote(r))
    BY <1>1 DEF Next
  <2>. QED BY <2>1 DEF OpenGroup, CloseGroup, RejectRun, Separate, StrayCloser, TakeText,
                       LeaveOpen, Demote
<1>. QED BY <1>1 DEF Parsing, IndentNext, Root, Announce, Delegate

\* The parse is over: its nodes, with their places for identities.
LEMMA PassBegins ==
  ASSUME ParseInv, Begin
  PROVE  Whole(array', made') /\ made' \in Nat
<1> DEFINE L == Len(walk.out)
           A == [i \in 1..L |-> [ id |-> i, kind |-> walk.out[i].kind, at |-> walk.out[i].at,
                                  text |-> walk.out[i].text ]]
<1>1. Sound(walk) /\ Tiled(walk) /\ source \in Seq(Byte) /\ array' = A /\ made' = L
      /\ Finished
  BY DEF ParseInv, Sound, Begin
<1>2. L \in Nat /\ walk.pos \in Nat /\ Len(source) \in Nat
      /\ \A i \in 1..L : /\ walk.out[i].at \in Nat /\ walk.out[i].kind \in ParsedKinds
                         /\ walk.out[i].text \in Seq(Byte) /\ EndAt(walk, i) \in Nat
  BY <1>1, Typed
<1>3. walk.pos = Len(source)
  BY <1>1, <1>2 DEF Finished, Tiled
<1>4. /\ A = [i \in 1..L |-> A[i]] /\ Len(A) = L /\ L \in Nat
      /\ \A i \in 1..L : /\ A[i].id = i /\ A[i].kind = walk.out[i].kind
                         /\ A[i].at = walk.out[i].at /\ A[i].text = walk.out[i].text
      /\ \A i \in 1..L : A[i] = [id |-> A[i].id, kind |-> A[i].kind, at |-> A[i].at, text |-> A[i].text]
  BY <1>2
<1>. HIDE DEF A
<1>5. A \in Seq(Helds)
  <2>1. ASSUME NEW i \in 1..L
        PROVE  A[i] \in Helds
    <3>1. walk.out[i].kind \in Kinds
      BY <1>2 DEF Kinds
    <3>a. i \in Nat
      BY <1>2
    <3>b. A[i].id = i
      BY <1>4
    <3>2. A[i].id = i /\ A[i].id \in Nat
      BY <3>a, <3>b
    <3>3. A[i].kind \in Kinds /\ A[i].at \in Nat /\ A[i].text \in Seq(Byte)
      BY <1>2, <1>4, <3>1
    <3>4. A[i] = [id |-> A[i].id, kind |-> A[i].kind, at |-> A[i].at, text |-> A[i].text]
      BY <1>4
    <3>. QED BY <3>2, <3>3, <3>4 DEF Helds
  <2>2. A = [i \in 1..L |-> A[i]] /\ L \in Nat
    BY <1>4
  <2>. HIDE DEF L
  <2>. QED BY <2>1, <2>2
<1>6. ASSUME NEW i \in 1..L
      PROVE  /\ InSource(A[i]) /\ Till(A[i]) = EndAt(walk, i)
             /\ i = 1 => A[i].at = 0
  <2> DEFINE a == walk.out[i].at
             b == EndAt(walk, i)
             w == b - a
  <2>1. walk.out[i].text = Slice(a, b) /\ a =< b /\ (i = 1 => a = 0)
    BY <1>1 DEF Tiled
  <2>2. a \in Nat /\ b \in Nat /\ b =< Len(source)
    <3>1. b =< walk.pos
      BY <1>1 DEF Sound, Ordered
    <3>. QED BY <1>2, <1>3, <3>1
  <2>3. A[i].at = a /\ A[i].text = Slice(a, b) /\ A[i].text \in Seq(Byte)
    BY <1>2, <1>4, <2>1
  <2>. HIDE DEF a, b
  <2>4. Len(Slice(a, b)) = w
    <3>1. w \in Nat /\ a + w = b /\ a + w =< Len(source)
      BY <2>1, <2>2
    <3>. HIDE DEF w
    <3>2. Len(SubSeq(source, a + 1, a + w)) = w
      BY <1>1, <2>2, <3>1, SubSeqIs
    <3>. QED BY <3>1, <3>2 DEF Slice
  <2>5. Till(A[i]) = b
    BY <2>2, <2>3, <2>4 DEF Till
  <2>. QED BY <2>1, <2>2, <2>3, <2>5 DEF InSource, b
<1>7. Runs(A, 0, Len(source))
  <2>1. ASSUME NEW i \in 1..L, i # 1
        PROVE  A[i].at = Till(A[i - 1])
    <3>1. i - 1 \in 1..L /\ i - 1 # L /\ (i - 1) + 1 = i
      BY <1>2, <2>1
    <3>2. EndAt(walk, i - 1) = walk.out[i].at
      BY <3>1 DEF EndAt
    <3>. QED BY <1>4, <1>6, <3>1, <3>2
  <2>2. Len(source) = IF Len(A) = 0 THEN 0 ELSE Till(A[Len(A)])
    <3>1. CASE L = 0
      <4>1. walk.out = <<>>
        BY <1>1, <3>1, Typed
      <4>2. walk.pos = 0
        BY <1>1, <4>1 DEF Tiled
      <4>. QED BY <1>3, <1>4, <3>1, <4>2
    <3>2. CASE L # 0
      <4>1. L \in 1..L
        BY <1>2, <3>2
      <4>2. EndAt(walk, L) = walk.pos
        BY DEF EndAt
      <4>. QED BY <1>3, <1>4, <1>6, <3>2, <4>1, <4>2
    <3>. QED BY <3>1, <3>2
  <2>. QED BY <1>4, <1>6, <2>1, <2>2 DEF Runs
<1>8. Issued(A, L)
  <2>1. Len(A) = L /\ L \in Nat /\ \A i \in 1..L : A[i].id = i
    BY <1>4
  <2>. HIDE DEF L
  <2>2. \A i \in 1..L : i =< L
    BY <2>1
  <2>. QED BY <2>1, <2>2 DEF Issued
<1>. QED BY <1>1, <1>2, <1>5, <1>7, <1>8 DEF Whole

LEMMA AnnouncedIs ==
  ASSUME PassInv, passing = "on", NEW a \in Announced(Links)
  PROVE  Sane(a)
<1>. HIDE DEF Links
<1>1. Whole(array, made) /\ array \in Seq(Helds)
  BY DEF PassInv, Whole
<1>2. CASE lang = "Lua"
  <2>1. a \in LuaAnnounced(Links)
    BY <1>2 DEF Announced
  <2>. QED BY <1>1, <2>1, LuaIs
<1>3. CASE lang = "Go"
  <2>1. a \in GoAnnounced(Links)
    BY <1>3 DEF Announced
  <2>. QED BY <1>1, <2>1, GoIs
<1>4. CASE lang = "Python"
  <2>1. a \in PythonAnnounced(Links)
    BY <1>4 DEF Announced
  <2>. QED BY <1>1, <2>1, PythonIs
<1>5. CASE lang = "Shell"
  <2>1. a \in ShellAnnounced(Links)
    BY <1>5 DEF Announced
  <2>. QED BY <1>1, <2>1, ShellIs
<1>. QED BY <1>2, <1>3, <1>4, <1>5 DEF PassInv

LEMMA TurnKeeps ==
  ASSUME PassInv, Turn
  PROVE  Whole(array', made') /\ made' \in Nat /\ passing' = passing /\ source' = source
<1>. HIDE DEF Links
<1>1. TurnOf(Announced(Links))
  BY DEF Turn
<1>2. passing = "on" /\ passing' = passing /\ source' = source
  BY <1>1 DEF TurnOf, indentVars, vars
<1>3. PICK hit \in Announced(Links) : ~Dismissed(hit) /\ Declare(hit)
  BY <1>1 DEF TurnOf
<1>4. Sane(hit)
  BY <1>2, AnnouncedIs
<1>5. source \in Seq(Byte) /\ made \in Nat /\ Whole(array, made) /\ Sane(hit) /\ hit.into # None /\ Declare(hit)
  BY <1>2, <1>3, <1>4 DEF PassInv, ParseInv, Dismissed
<1>6. Whole(array', made') /\ made' \in Nat
  BY ONLY <1>5, DeclareIs
<1>. QED BY <1>2, <1>6

LEMMA PassStep ==
  ASSUME PassInv, [SchemaNext]_schemaVars
  PROVE  PassInv'
<1>1. CASE Parsing
  <2>1. ParseInv'
    BY <1>1, ParseStep, IndentStepInv DEF Parsing, PassInv
  <2>2. lang' = lang /\ passing' = passing /\ array' = array /\ made' = made
    BY <1>1 DEF Parsing, passVars
  <2>3. source' = source
    BY <1>1, ParsingKeepsSource
  <2>4. passing' # "no" => (made \in Nat /\ Whole(array, made))'
    BY <2>2, <2>3, WholeStays DEF PassInv
  <2>. QED BY <2>1, <2>2, <2>4 DEF PassInv
<1>2. CASE UNCHANGED indentVars /\ UNCHANGED lang /\ (passing' # "no" => made' \in Nat /\ Whole(array', made'))
  <2>1. ParseInv' /\ source' = source
    BY <1>2, ParseStays DEF PassInv, indentVars, vars
  <2>2. passing' # "no" => (made \in Nat /\ Whole(array, made))'
    BY <1>2, <2>1, WholeStays
  <2>. QED BY <1>2, <2>1, <2>2 DEF PassInv
<1>3. CASE Begin
  <2>1. Whole(array', made') /\ made' \in Nat
    BY <1>3, PassBegins DEF PassInv
  <2>. QED BY <1>2, <1>3, <2>1 DEF Begin
<1>4. CASE Turn
  <2>1. Whole(array', made') /\ made' \in Nat
    BY <1>4, TurnKeeps
  <2>2. UNCHANGED indentVars /\ UNCHANGED lang
    BY <1>4 DEF Turn, TurnOf
  <2>. QED BY <1>2, <2>1, <2>2
<1>5. CASE Record
  <2>1. UNCHANGED indentVars /\ UNCHANGED lang /\ array' = array /\ made' = made /\ passing = "on"
    BY <1>5 DEF Record, RecordOf
  <2>2. made' \in Nat /\ Whole(array', made')
    BY <2>1 DEF PassInv
  <2>. QED BY <1>2, <2>1, <2>2
<1>6. CASE UNCHANGED schemaVars
  <2>1. UNCHANGED indentVars /\ UNCHANGED lang /\ array' = array /\ made' = made /\ passing' = passing
    BY <1>6 DEF schemaVars, passVars
  <2>2. passing' # "no" => made' \in Nat /\ Whole(array', made')
    BY <2>1 DEF PassInv
  <2>. QED BY <1>2, <2>1, <2>2
<1>. QED BY <1>1, <1>3, <1>4, <1>5, <1>6 DEF SchemaNext

\* What the initial states and every step of a parse and of the pass over its
\* array keep: under every language's announcements the array renders the source
\* and no two nodes of it have one identity (schema.go, carve; context.go,
\* SetDeclarations).
THEOREM PassInvariance == SchemaSpec => []PassInv
<1>1. PassInit => PassInv
  BY ParseBegins, SchemasAssumption DEF PassInit, PassInv, IndentInit
<1>2. PassInv /\ [SchemaNext]_schemaVars => PassInv'
  BY PassStep
<1>. QED BY <1>1, <1>2, PTL DEF SchemaSpec

LEMMA WholeKeepsBytes ==
  ASSUME PassInv
  PROVE  CarvingKeepsBytes
<1>. SUFFICES ASSUME passing # "no", NEW i \in 1..Len(array)
     PROVE  /\ array[i].at = IF i = 1 THEN 0 ELSE array[i - 1].at + Len(array[i - 1].text)
            /\ array[i].text = Slice(array[i].at, array[i].at + Len(array[i].text))
            /\ i = Len(array) => array[i].at + Len(array[i].text) = Len(source)
  BY DEF CarvingKeepsBytes
<1>1. Runs(array, 0, Len(source)) /\ Len(array) \in Nat
  BY DEF PassInv, Whole, Runs
<1>2. InSource(array[i]) /\ array[i].at = IF i = 1 THEN 0 ELSE Till(array[i - 1])
  BY <1>1 DEF Runs
<1>3. i = Len(array) => Till(array[i]) = Len(source)
  BY <1>1 DEF Runs
<1>. QED BY <1>2, <1>3 DEF InSource, Till

\* Through every carving of every pass, over every source, the array renders the
\* source, each node the bytes at its offset (schema.go, carve; doc.go, Split
\* and Replace).
THEOREM CarvingKept == SchemaSpec => []CarvingKeepsBytes
<1>1. PassInv => CarvingKeepsBytes
  BY WholeKeepsBytes
<1>. QED BY <1>1, PassInvariance, PTL

---------------------------------------------------------------------------
(* The links of a pass cover its array.                                      *)

IdsIn(S, kind) == {S[i].id : i \in {j \in 1..Len(S) : S[j].kind = kind}}

\* The identities given out after count.
NewIds(S, kind, count) ==
  {S[i].id : i \in {j \in 1..Len(S) : S[j].id > count /\ S[j].kind = kind}}

\* A node of a carved array is another of the array's, or a piece.
LEMMA CarvedNode ==
  ASSUME NEW count \in Nat, NEW S, Whole(S, count), NEW i \in 1..Len(S), NEW spans, NEW kind \in Kinds,
         NEW R, CarvedAt(S, i, spans, kind, count, R), NEW k \in 1..Len(R),
         NEW P, P = Pieces(S[i], spans, kind)
  PROVE  \/ R[k].id =< count /\ \E l \in 1..Len(S) : l # i /\ R[k] = S[l]
         \/ /\ R[k].id > count /\ k - i + 1 \in 1..Len(P) /\ R[k].id = count + (k - i + 1)
            /\ R[k].kind = P[k - i + 1].kind /\ R[k].kind \in {"Text", kind}
<1>1. /\ Len(P) \in Nat /\ P \in Seq(Carved(kind)) /\ Len(R) = Len(S) - 1 + Len(P)
      /\ R[k] = IF k < i THEN S[k]
                ELSE IF k < i + Len(P) THEN HeldsOf(P, count)[k - i + 1]
                ELSE S[k - Len(P) + 1]
  BY DEF CarvedAt
<1>2. Len(S) \in Nat /\ i \in Nat /\ k \in Nat
  BY <1>1 DEF Whole
<1>3. CASE k < i
  <2>1. k \in 1..Len(S) /\ k # i /\ R[k] = S[k]
    BY <1>1, <1>2, <1>3
  <2>2. S[k].id =< count
    BY <2>1, WholeNode
  <2>. QED BY <2>1, <2>2
<1>4. CASE ~(k < i) /\ k < i + Len(P)
  <2> DEFINE p == k - i + 1
  <2>1. p \in 1..Len(P) /\ count + p > count /\ R[k] = HeldsOf(P, count)[p]
    BY <1>1, <1>2, <1>4
  <2>. HIDE DEF p
  <2>2. HeldsOf(P, count)[p].id = count + p /\ HeldsOf(P, count)[p].kind = P[p].kind
    BY <1>1, <2>1, EnteredIs
  <2>3. P[p] \in Carved(kind)
    BY <1>1, <2>1
  <2>4. P[p].kind \in {"Text", kind}
    BY <2>3 DEF Carved
  <2>. QED BY <2>1, <2>2, <2>4 DEF p
<1>5. CASE ~(k < i) /\ ~(k < i + Len(P))
  <2> DEFINE l == k - Len(P) + 1
  <2>1. l \in 1..Len(S) /\ l # i /\ R[k] = S[l]
    BY <1>1, <1>2, <1>5
  <2>. HIDE DEF l
  <2>2. S[l].id =< count
    BY <2>1, WholeNode
  <2>. QED BY <2>1, <2>2
<1>. QED BY <1>3, <1>4, <1>5

Has(R, n) == \E k \in 1..Len(R) : R[k] = n

\* And every one of these is in it.
LEMMA CarvedKept ==
  ASSUME NEW count \in Nat, NEW S, Whole(S, count), NEW i \in 1..Len(S), NEW spans, NEW kind \in Kinds,
         NEW R, CarvedAt(S, i, spans, kind, count, R), NEW l \in 1..Len(S), l # i
  PROVE  Has(R, S[l])
<1> DEFINE P == Pieces(S[i], spans, kind)
<1>1. /\ Len(P) \in Nat /\ Len(R) = Len(S) - 1 + Len(P)
      /\ \A k \in 1..Len(R) :
           R[k] = IF k < i THEN S[k]
                  ELSE IF k < i + Len(P) THEN HeldsOf(P, count)[k - i + 1]
                  ELSE S[k - Len(P) + 1]
  BY DEF CarvedAt
<1>2. Len(S) \in Nat /\ i \in Nat /\ l \in Nat
  BY DEF Whole
<1>. HIDE DEF P
<1>3. CASE l < i
  <2>1. l \in 1..Len(R)
    BY <1>1, <1>2, <1>3
  <2>. QED BY <1>1, <1>3, <2>1 DEF Has
<1>4. CASE i < l
  <2> DEFINE k == l + Len(P) - 1
  <2>1. k \in 1..Len(R) /\ ~(k < i) /\ ~(k < i + Len(P)) /\ k - Len(P) + 1 = l
    BY <1>1, <1>2, <1>4
  <2>. HIDE DEF k
  <2>2. R[k] = S[l]
    BY <1>1, <2>1
  <2>. QED BY <2>1, <2>2 DEF Has
<1>. QED BY <1>2, <1>3, <1>4

HasNode(R, id, kind) == \E k \in 1..Len(R) : R[k].id = id /\ R[k].kind = kind

LEMMA CarvedPiece ==
  ASSUME NEW count \in Nat, NEW S, Whole(S, count), NEW i \in 1..Len(S), NEW spans, NEW kind \in Kinds,
         NEW R, CarvedAt(S, i, spans, kind, count, R),
         NEW P, P = Pieces(S[i], spans, kind), NEW p \in 1..Len(P)
  PROVE  HasNode(R, count + p, P[p].kind)
<1>1. /\ Len(P) \in Nat /\ P \in Seq(Carved(kind)) /\ Len(R) = Len(S) - 1 + Len(P)
      /\ \A k \in 1..Len(R) :
           R[k] = IF k < i THEN S[k]
                  ELSE IF k < i + Len(P) THEN HeldsOf(P, count)[k - i + 1]
                  ELSE S[k - Len(P) + 1]
  BY DEF CarvedAt
<1>2. Len(S) \in Nat /\ i \in Nat
  BY DEF Whole
<1> DEFINE k == i + p - 1
<1>3. k \in 1..Len(R) /\ ~(k < i) /\ k < i + Len(P) /\ k - i + 1 = p
  BY <1>1, <1>2
<1>. HIDE DEF k
<1>4. R[k] = HeldsOf(P, count)[p]
  BY <1>1, <1>3
<1>5. HeldsOf(P, count)[p].id = count + p /\ HeldsOf(P, count)[p].kind = P[p].kind
  BY <1>1, EnteredIs
<1>. QED BY <1>3, <1>4, <1>5 DEF HasNode

\* Carving a node of another kind, an array keeps the nodes of a kind it has.
LEMMA CarvedIds ==
  ASSUME NEW count \in Nat, NEW S, Whole(S, count), NEW i \in 1..Len(S), NEW spans, NEW kind \in Kinds,
         NEW R, CarvedAt(S, i, spans, kind, count, R), NEW K, S[i].kind # K
  PROVE  /\ IdsIn(R, K) = IdsIn(S, K) \cup NewIds(R, K, count)
         /\ K \notin {"Text", kind} => NewIds(R, K, count) = {}
<1> DEFINE P == Pieces(S[i], spans, kind)
<1>1. ASSUME NEW k \in 1..Len(R)
      PROVE  \/ R[k].id =< count /\ \E l \in 1..Len(S) : l # i /\ R[k] = S[l]
             \/ R[k].id > count /\ R[k].kind \in {"Text", kind}
  BY CarvedNode
<1>2. ASSUME NEW l \in 1..Len(S), l # i
      PROVE  Has(R, S[l])
  <2>1. /\ count \in Nat /\ Whole(S, count) /\ i \in 1..Len(S) /\ kind \in Kinds
        /\ CarvedAt(S, i, spans, kind, count, R) /\ l \in 1..Len(S) /\ l # i
    BY <1>2
  <2>. QED BY ONLY <2>1, CarvedKept
<1>3. \A k \in 1..Len(R) : R[k].id \in Nat
  BY WholeNode DEF CarvedAt
<1>4. ASSUME NEW x \in IdsIn(R, K)
      PROVE  x \in IdsIn(S, K) \cup NewIds(R, K, count)
  <2>1. PICK k \in 1..Len(R) : R[k].kind = K /\ x = R[k].id
    BY DEF IdsIn
  <2>2. CASE R[k].id =< count /\ \E l \in 1..Len(S) : l # i /\ R[k] = S[l]
    BY <2>1, <2>2 DEF IdsIn
  <2>3. CASE R[k].id > count
    BY <2>1, <2>3 DEF NewIds
  <2>. QED BY <1>1, <2>2, <2>3
<1>5. ASSUME NEW x \in IdsIn(S, K)
      PROVE  x \in IdsIn(R, K)
  <2>1. PICK l \in 1..Len(S) : S[l].kind = K /\ x = S[l].id
    BY DEF IdsIn
  <2>2. PICK k \in 1..Len(R) : R[k] = S[l]
    BY <1>2, <2>1 DEF Has
  <2>. QED BY <2>1, <2>2 DEF IdsIn
<1>6. NewIds(R, K, count) \subseteq IdsIn(R, K)
  BY DEF NewIds, IdsIn
<1>7. ASSUME K \notin {"Text", kind}, NEW x \in NewIds(R, K, count)
      PROVE  FALSE
  <2>1. PICK k \in 1..Len(R) : R[k].kind = K /\ R[k].id > count
    BY DEF NewIds
  <2>2. ~(R[k].id =< count)
    BY <1>3, <2>1
  <2>. QED BY <1>1, <1>7, <2>1, <2>2
<1>. QED BY <1>4, <1>5, <1>6, <1>7

Alone(ids) == \E id : ids = {id}

\* The keyword is the one node of its kind that its carving makes.
LEMMA WordMade ==
  ASSUME source \in Seq(Byte), NEW count \in Nat, NEW S, Whole(S, count), NEW i \in 1..Len(S),
         NEW kw \in Nat \X Nat, kw[1] =< kw[2], kw[2] =< Len(S[i].text),
         NEW kind \in Kinds, kind # "Text", NEW R, CarvedAt(S, i, <<kw>>, kind, count, R)
  PROVE  Alone(NewIds(R, kind, count))
<1> DEFINE n == S[i]
           spans == <<kw>>
           P == Pieces(n, <<kw>>, kind)
           b == Before1(kw) + 1
<1>1. InSource(n)
  BY WholeNode
<1>2. /\ Len(P) = Before1(kw) + 1 + (IF kw[2] < Len(n.text) THEN 1 ELSE 0)
      /\ P[b] = Part(n, kw[1], kw[2], kind)
  <2>. HIDE DEF P
  <2>1. source \in Seq(Byte) /\ InSource(n) /\ kw \in Nat \X Nat /\ kw[1] =< kw[2] /\ kw[2] =< Len(n.text)
        /\ P = Pieces(n, <<kw>>, kind)
    BY <1>1 DEF P
  <2>. HIDE DEF n
  <2>. QED BY ONLY <2>1, PiecesOneAre
<1>3. \A p \in 1..Len(P) : p # b => P[p].kind = "Text"
  <2>. HIDE DEF P
  <2>1. source \in Seq(Byte) /\ InSource(n) /\ kw \in Nat \X Nat /\ kw[1] =< kw[2] /\ kw[2] =< Len(n.text)
        /\ P = Pieces(n, <<kw>>, kind)
    BY <1>1 DEF P
  <2>. HIDE DEF n
  <2>. QED BY ONLY <2>1, PiecesOneAre
<1>4. P[b].kind = kind
  BY <1>2 DEF Part
<1>5. b \in 1..Len(P) /\ b \in Nat
  <2>1. Before1(kw) \in Nat
    BY DEF Before1
  <2>. HIDE DEF P
  <2>2. CASE kw[2] < Len(n.text)
    BY <1>2, <2>1, <2>2
  <2>3. CASE ~(kw[2] < Len(n.text))
    BY <1>2, <2>1, <2>3
  <2>. QED BY <2>2, <2>3
<1>. HIDE DEF b
<1>a. /\ count \in Nat /\ Whole(S, count) /\ i \in 1..Len(S) /\ kind \in Kinds
      /\ P = Pieces(S[i], spans, kind) /\ CarvedAt(S, i, spans, kind, count, R)
  OBVIOUS
<1>. HIDE DEF P, spans
<1>6. PICK m \in 1..Len(R) : R[m].id = count + b /\ R[m].kind = P[b].kind
  <2>1. /\ count \in Nat /\ Whole(S, count) /\ i \in 1..Len(S) /\ kind \in Kinds
        /\ P = Pieces(S[i], spans, kind) /\ CarvedAt(S, i, spans, kind, count, R)
        /\ b \in 1..Len(P)
    BY <1>a, <1>5
  <2>2. HasNode(R, count + b, P[b].kind)
    BY ONLY <2>1, CarvedPiece
  <2>. QED BY <2>2 DEF HasNode
<1>7. ASSUME NEW k \in 1..Len(R)
      PROVE  \/ R[k].id =< count
             \/ /\ k - i + 1 \in 1..Len(P) /\ R[k].id = count + (k - i + 1)
                /\ R[k].kind = P[k - i + 1].kind
  BY ONLY <1>a, <1>7, CarvedNode
<1>8. \A k \in 1..Len(R) : R[k].id \in Nat
  BY WholeNode DEF CarvedAt
<1>. HIDE DEF P, n
<1>9. count + b \in NewIds(R, kind, count)
  BY <1>4, <1>5, <1>6 DEF NewIds
<1>10. ASSUME NEW x \in NewIds(R, kind, count)
       PROVE  x = count + b
  <2>1. PICK k \in 1..Len(R) : R[k].kind = kind /\ R[k].id > count /\ x = R[k].id
    BY DEF NewIds
  <2>2. ~(R[k].id =< count)
    BY <1>8, <2>1
  <2>3. k - i + 1 \in 1..Len(P) /\ R[k].id = count + (k - i + 1) /\ R[k].kind = P[k - i + 1].kind
    BY <1>7, <2>2
  <2>4. k - i + 1 = b
    BY <1>3, <2>1, <2>3
  <2>. QED BY <2>1, <2>3, <2>4
<1>. QED BY <1>9, <1>10 DEF Alone

LEMMA FreshIs ==
  ASSUME NEW S, Len(S) \in Nat, NEW kind, NEW count
  PROVE  /\ SQE!ToSet(Fresh(S, kind, count)) = NewIds(S, kind, count)
         /\ NewIds(S, kind, count) # {} => Fresh(S, kind, count)[1] \in NewIds(S, kind, count)
<1> DEFINE H == {i \in 1..Len(S) : S[i].id > count /\ S[i].kind = kind}
           new == InOrder(H)
           F == Fresh(S, kind, count)
<1>1. H \in SUBSET Nat /\ IsFiniteSet(H)
  <2>1. IsFiniteSet(1..Len(S)) /\ H \in SUBSET (1..Len(S))
    <3>1. 1 \in Int /\ Len(S) \in Int
      OBVIOUS
    <3>. QED BY <3>1, FS_Interval
  <2>2. H \in SUBSET Nat
    OBVIOUS
  <2> DEFINE places == 1..Len(S)
  <2>. HIDE DEF H, places
  <2>3. IsFiniteSet(H)
    BY <2>1, FS_Subset DEF places
  <2>. QED BY <2>2, <2>3
<1>2. F = [k \in 1..Len(new) |-> S[new[k]].id]
  BY DEF Fresh
<1>3. NewIds(S, kind, count) = {S[i].id : i \in H}
  BY DEF NewIds
<1>. HIDE DEF H, F
<1>4. new \in Seq(H) /\ Len(new) \in Nat
  BY <1>1, OrderIs
<1>5. \A n \in H : \E k \in 1..Len(new) : new[k] = n
  BY <1>1, OrderIs
<1>. HIDE DEF new
<1>6. DOMAIN F = 1..Len(new) /\ \A k \in 1..Len(new) : new[k] \in H /\ F[k] = S[new[k]].id
  BY <1>2, <1>4
<1>7. SQE!ToSet(F) = {F[k] : k \in 1..Len(new)}
  BY <1>6 DEF SQE!ToSet
<1>8. \A x \in SQE!ToSet(F) : x \in NewIds(S, kind, count)
  BY <1>3, <1>6, <1>7
<1>9. ASSUME NEW x \in NewIds(S, kind, count)
      PROVE  x \in SQE!ToSet(F) /\ F[1] \in NewIds(S, kind, count)
  <2>1. PICK n \in H : x = S[n].id
    BY <1>3
  <2>2. PICK k \in 1..Len(new) : new[k] = n
    BY <1>5
  <2>3. 1 \in 1..Len(new)
    BY <1>4
  <2>. QED BY <1>3, <1>6, <1>7, <2>1, <2>2, <2>3
<1>. QED BY <1>8, <1>9 DEF F

\* LinksCoverTheArray, of an array and links.
Covers(S, links) ==
  /\ DOMAIN links = IdsIn(S, "DeclarationType")
  /\ UNION {SQE!ToSet(links[k]) : k \in DOMAIN links} = IdsIn(S, "DeclarationName")
  /\ \A k, l \in DOMAIN links : k # l => SQE!ToSet(links[k]) \cap SQE!ToSet(links[l]) = {}

\* A link more, of a keyword and names that are new.
LEMMA CoversMore ==
  ASSUME NEW S, NEW links, Covers(S, links), NEW w, w \notin DOMAIN links, NEW names,
         SQE!ToSet(names) \cap IdsIn(S, "DeclarationName") = {},
         NEW R, IdsIn(R, "DeclarationType") = IdsIn(S, "DeclarationType") \cup {w},
         IdsIn(R, "DeclarationName") = IdsIn(S, "DeclarationName") \cup SQE!ToSet(names),
         NEW more, more = [k \in DOMAIN links \cup {w} |-> IF k = w THEN names ELSE links[k]]
  PROVE  Covers(R, more)
<1> DEFINE D == DOMAIN links
           T == IdsIn(S, "DeclarationType")
           N == IdsIn(S, "DeclarationName")
           X == SQE!ToSet(names)
           Old(k) == SQE!ToSet(links[k])
           New(k) == SQE!ToSet(more[k])
<1>1. /\ D = T /\ UNION {Old(k) : k \in D} = N
      /\ \A k, l \in D : k # l => Old(k) \cap Old(l) = {}
  BY DEF Covers
<1>2. DOMAIN more = D \cup {w} /\ New(w) = X /\ \A k \in D : New(k) = Old(k)
  OBVIOUS
<1>3. w \notin D /\ X \cap N = {} /\ IdsIn(R, "DeclarationType") = T \cup {w}
      /\ IdsIn(R, "DeclarationName") = N \cup X
  OBVIOUS
<1>. HIDE DEF D, T, N, X, Old, New
<1>4. \A k \in D : Old(k) \subseteq N
  BY <1>1
<1>5. UNION {New(k) : k \in D \cup {w}} = N \cup X
  <2>1. ASSUME NEW x \in N
        PROVE  \E k \in D \cup {w} : x \in New(k)
    <3>1. PICK k \in D : x \in Old(k)
      BY <1>1
    <3>. QED BY <1>2, <3>1
  <2>2. ASSUME NEW x \in X
        PROVE  \E k \in D \cup {w} : x \in New(k)
    BY <1>2
  <2>3. ASSUME NEW k \in D \cup {w}
        PROVE  New(k) \subseteq N \cup X
    BY <1>2, <1>4
  <2>. QED BY <2>1, <2>2, <2>3
<1>6. ASSUME NEW k \in D \cup {w}, NEW l \in D \cup {w}, k # l
      PROVE  New(k) \cap New(l) = {}
  <2>1. CASE k = w \/ l = w
    BY <1>2, <1>3, <1>4, <1>6, <2>1
  <2>2. CASE k \in D /\ l \in D
    BY <1>1, <1>2, <1>6, <2>2
  <2>. QED BY <2>1, <2>2
<1>7. /\ DOMAIN more = IdsIn(R, "DeclarationType")
      /\ UNION {New(k) : k \in DOMAIN more} = IdsIn(R, "DeclarationName")
      /\ \A k, l \in DOMAIN more : k # l => New(k) \cap New(l) = {}
  BY <1>1, <1>2, <1>3, <1>5, <1>6
<1>. QED BY <1>7 DEF Covers, New

\* The two carvings of a turn.
LEMMA TurnIds ==
  ASSUME source \in Seq(Byte), made \in Nat, Whole(array, made), NEW hit, Sane(hit),
         NEW R, CarvedFor(hit, R), NEW count, Whole(R, count)
  PROVE  /\ IdsIn(R, "DeclarationType") =
              IdsIn(array, "DeclarationType") \cup {Fresh(KeyedBy(hit), "DeclarationType", made)[1]}
         /\ IdsIn(R, "DeclarationName") =
              IdsIn(array, "DeclarationName") \cup SQE!ToSet(Fresh(R, "DeclarationName", CountBy(hit)))
         /\ Fresh(KeyedBy(hit), "DeclarationType", made)[1] > made
         /\ \A x \in SQE!ToSet(Fresh(R, "DeclarationName", CountBy(hit))) : x > made
<1> DEFINE T == "DeclarationType"
           N == "DeclarationName"
           i == hit.node
           K == KeyedBy(hit)
           now == CountBy(hit)
           kws == <<hit.kw>>
           w == Fresh(K, T, made)[1]
           F == Fresh(R, N, now)
<1>1. /\ CarvedAt(array, i, kws, T, made, K) /\ Whole(K, now) /\ now \in Nat /\ made =< now
      /\ R # K => \E into \in 1..Len(K) : \E low : K[into].kind = "Text" /\ CarvedAt(K, into, low, N, now, R)
  BY DEF CarvedFor
<1>2. i \in 1..Len(array) /\ array[i].kind \in {"Text", "Opener"} /\ hit.kw \in Nat \X Nat
      /\ hit.kw[1] =< hit.kw[2] /\ hit.kw[2] =< Len(array[i].text)
  BY DEF Sane
<1>3. T \in Kinds /\ N \in Kinds /\ T # "Text" /\ N # "Text" /\ N # T
      /\ array[i].kind # T /\ array[i].kind # N
  BY <1>2 DEF Kinds
<1>4. /\ Len(K) \in Nat /\ Len(R) \in Nat
  BY <1>1 DEF Whole
<1>5. Alone(NewIds(K, T, made))
  <2>1. /\ source \in Seq(Byte) /\ made \in Nat /\ Whole(array, made) /\ i \in 1..Len(array)
        /\ hit.kw \in Nat \X Nat /\ hit.kw[1] =< hit.kw[2] /\ hit.kw[2] =< Len(array[i].text)
        /\ T \in Kinds /\ T # "Text" /\ CarvedAt(array, i, <<hit.kw>>, T, made, K)
    BY <1>1, <1>2, <1>3
  <2>. HIDE DEF T, i, K
  <2>. QED BY ONLY <2>1, WordMade
<1>. HIDE DEF T, N, i, K, now, kws, F
<1>6. NewIds(K, T, made) = {w} /\ SQE!ToSet(F) = NewIds(R, N, now)
  <2>1. NewIds(K, T, made) # {}
    BY <1>5 DEF Alone
  <2>2. w \in NewIds(K, T, made)
    BY <1>4, <2>1, FreshIs
  <2>3. SQE!ToSet(F) = NewIds(R, N, now)
    BY <1>4, FreshIs DEF F
  <2>. HIDE DEF w
  <2>. QED BY <1>5, <2>2, <2>3 DEF Alone
<1>. HIDE DEF w
<1>7. /\ IdsIn(K, T) = IdsIn(array, T) \cup {w}
      /\ IdsIn(K, N) = IdsIn(array, N)
  <2>1. /\ made \in Nat /\ Whole(array, made) /\ i \in 1..Len(array) /\ T \in Kinds
        /\ CarvedAt(array, i, kws, T, made, K)
    BY <1>1, <1>2, <1>3
  <2>2. IdsIn(K, T) = IdsIn(array, T) \cup NewIds(K, T, made)
    <3>1. array[i].kind # T
      BY <1>3
    <3>. QED BY ONLY <2>1, <3>1, CarvedIds
  <2>3. IdsIn(K, N) = IdsIn(array, N) \cup NewIds(K, N, made)
    <3>1. array[i].kind # N
      BY <1>3
    <3>. QED BY ONLY <2>1, <3>1, CarvedIds
  <2>4. NewIds(K, N, made) = {}
    <3>1. array[i].kind # N /\ N \notin {"Text", T}
      BY <1>3
    <3>. QED BY ONLY <2>1, <3>1, CarvedIds
  <2>. QED BY <1>6, <2>2, <2>3, <2>4
<1>8. /\ IdsIn(R, T) = IdsIn(K, T)
      /\ IdsIn(R, N) = IdsIn(K, N) \cup NewIds(R, N, now)
  <2>1. CASE R = K
    <3>1. ASSUME NEW x \in NewIds(K, N, now)
          PROVE  FALSE
      <4>1. PICK k \in 1..Len(K) : K[k].id > now
        BY DEF NewIds
      <4>2. K[k].id \in Nat /\ K[k].id =< now
        BY <1>1, WholeNode
      <4>. QED BY <1>1, <4>1, <4>2
    <3>. QED BY <2>1, <3>1
  <2>2. CASE R # K
    <3>1. PICK into \in 1..Len(K) : \E low : K[into].kind = "Text" /\ CarvedAt(K, into, low, N, now, R)
      BY <1>1, <2>2
    <3>2. PICK low : K[into].kind = "Text" /\ CarvedAt(K, into, low, N, now, R)
      BY <3>1
    <3>3. /\ now \in Nat /\ Whole(K, now) /\ into \in 1..Len(K) /\ N \in Kinds
          /\ CarvedAt(K, into, low, N, now, R)
      BY <1>1, <1>3, <3>2
    <3>4. K[into].kind # T /\ K[into].kind # N /\ T \notin {"Text", N}
      BY <1>3, <3>2
    <3>5. IdsIn(R, T) = IdsIn(K, T) \cup NewIds(R, T, now)
      BY ONLY <3>3, <3>4, CarvedIds
    <3>6. NewIds(R, T, now) = {}
      BY ONLY <3>3, <3>4, CarvedIds
    <3>7. IdsIn(R, N) = IdsIn(K, N) \cup NewIds(R, N, now)
      BY ONLY <3>3, <3>4, CarvedIds
    <3>. QED BY <3>5, <3>6, <3>7
  <2>. QED BY <2>1, <2>2
<1>9. w > made
  BY <1>6 DEF NewIds
<1>10. ASSUME NEW x \in NewIds(R, N, now)
       PROVE  x > made
  <2>1. PICK k \in 1..Len(R) : x = R[k].id /\ R[k].id > now
    BY DEF NewIds
  <2>2. R[k].id \in Nat
    BY WholeNode
  <2>. QED BY <1>1, <2>1, <2>2
<1>11. /\ IdsIn(R, T) = IdsIn(array, T) \cup {w}
       /\ IdsIn(R, N) = IdsIn(array, N) \cup SQE!ToSet(F)
       /\ w > made
       /\ \A x \in SQE!ToSet(F) : x > made
  BY <1>6, <1>7, <1>8, <1>9, <1>10
<1>. QED BY <1>11 DEF T, N, K, now, w, F

LEMMA TurnCovers ==
  ASSUME PassInv, passing = "on", Covers(array, found), NEW hit, Sane(hit), hit.into # None, Declare(hit)
  PROVE  Covers(array', found')
<1> DEFINE w == Fresh(KeyedBy(hit), "DeclarationType", made)[1]
           F == Fresh(array', "DeclarationName", CountBy(hit))
<1>1. found' = [k \in DOMAIN found \cup {w} |-> IF k = w THEN F ELSE found[k]]
  <2>1. array' = Carve(KeyedBy(hit), hit.into + Len(KeyedBy(hit)) - Len(array),
                       [k \in 1..Len(hit.spans) |->
                          <<hit.spans[k][1] - (IF hit.into = hit.node THEN hit.kw[2] ELSE 0),
                            hit.spans[k][2] - (IF hit.into = hit.node THEN hit.kw[2] ELSE 0)>>],
                       "DeclarationName", CountBy(hit))
    BY DEF Declare, KeyedBy, CountBy
  <2>. QED BY <2>1 DEF Declare, KeyedBy, CountBy
<1>2. /\ source \in Seq(Byte) /\ made \in Nat /\ Whole(array, made)
      /\ Sane(hit) /\ hit.into # None /\ Declare(hit)
  BY DEF PassInv, ParseInv
<1>3. Whole(array', made') /\ CarvedFor(hit, array')
  BY ONLY <1>2, DeclareIs
<1> DEFINE R == array'
           count == made'
<1>4. /\ source \in Seq(Byte) /\ made \in Nat /\ Whole(array, made) /\ Sane(hit)
      /\ CarvedFor(hit, R) /\ Whole(R, count)
  BY <1>2, <1>3
<1>. HIDE DEF R, count
<1>5. /\ IdsIn(R, "DeclarationType") =
           IdsIn(array, "DeclarationType") \cup {Fresh(KeyedBy(hit), "DeclarationType", made)[1]}
      /\ IdsIn(R, "DeclarationName") =
           IdsIn(array, "DeclarationName") \cup SQE!ToSet(Fresh(R, "DeclarationName", CountBy(hit)))
      /\ Fresh(KeyedBy(hit), "DeclarationType", made)[1] > made
  BY ONLY <1>4, TurnIds
<1>6. \A x \in SQE!ToSet(Fresh(R, "DeclarationName", CountBy(hit))) : x > made
  BY ONLY <1>4, TurnIds
<1>7. ASSUME NEW kind, NEW x \in IdsIn(array, kind)
      PROVE  x =< made /\ x \in Nat
  <2>1. PICK k \in 1..Len(array) : x = array[k].id
    BY DEF IdsIn
  <2>. QED BY <1>2, <2>1, WholeNode
<1>8. DOMAIN found = IdsIn(array, "DeclarationType")
  BY DEF Covers
<1>9. w \notin DOMAIN found
  <2>1. w > made
    BY <1>5
  <2>. HIDE DEF w
  <2>2. ASSUME w \in IdsIn(array, "DeclarationType")
        PROVE  FALSE
    BY <1>2, <1>7, <2>1, <2>2
  <2>. QED BY <1>8, <2>2
<1>10. SQE!ToSet(F) \cap IdsIn(array, "DeclarationName") = {}
  <2>1. ASSUME NEW x \in SQE!ToSet(F), x \in IdsIn(array, "DeclarationName")
        PROVE  FALSE
    <3>1. x > made
      BY <1>6 DEF R
    <3>2. x =< made /\ x \in Nat
      BY <1>7, <2>1
    <3>. QED BY <1>2, <3>1, <3>2
  <2>. QED BY <2>1
<1>11. /\ IdsIn(R, "DeclarationType") = IdsIn(array, "DeclarationType") \cup {w}
       /\ IdsIn(R, "DeclarationName") = IdsIn(array, "DeclarationName") \cup SQE!ToSet(F)
  BY <1>5 DEF R
<1> DEFINE more == found'
<1>12. /\ Covers(array, found) /\ w \notin DOMAIN found
       /\ SQE!ToSet(F) \cap IdsIn(array, "DeclarationName") = {}
       /\ IdsIn(R, "DeclarationType") = IdsIn(array, "DeclarationType") \cup {w}
       /\ IdsIn(R, "DeclarationName") = IdsIn(array, "DeclarationName") \cup SQE!ToSet(F)
       /\ more = [k \in DOMAIN found \cup {w} |-> IF k = w THEN F ELSE found[k]]
  BY <1>1, <1>9, <1>10, <1>11
<1>. HIDE DEF w, F, more
<1>13. Covers(R, more)
  BY ONLY <1>12, CoversMore
<1>. QED BY <1>13 DEF R, more

LinkInv == PassInv /\ (IF passing = "no" THEN found = <<>> ELSE Covers(array, found))

LEMMA CoversStays ==
  ASSUME Covers(array', found')
  PROVE  Covers(array, found)'
BY DEF Covers, IdsIn

LEMMA LinkStep ==
  ASSUME LinkInv, [SchemaNext]_schemaVars
  PROVE  LinkInv'
<1>1. PassInv /\ PassInv'
  BY PassStep DEF LinkInv
<1>2. CASE UNCHANGED <<passing, array, found>>
  <2>1. passing = "no" => found' = <<>>
    BY <1>2 DEF LinkInv
  <2>2. passing # "no" => Covers(array, found)'
    BY <1>2, CoversStays DEF LinkInv
  <2>. QED BY <1>1, <1>2, <2>1, <2>2 DEF LinkInv
<1>3. CASE Parsing
  BY <1>2, <1>3 DEF Parsing, passVars
<1>4. CASE Begin
  <2>1. found' = <<>> /\ passing' # "no"
    BY <1>4 DEF Begin, LinkInv
  <2>2. ASSUME NEW kind, kind \notin ParsedKinds
        PROVE  IdsIn(array', kind) = {}
    <3>1. /\ array' = [i \in 1..Len(walk.out) |->
                         [ id |-> i, kind |-> walk.out[i].kind, at |-> walk.out[i].at,
                           text |-> walk.out[i].text ]]
          /\ Len(walk.out) \in Nat /\ \A i \in 1..Len(walk.out) : walk.out[i].kind \in ParsedKinds
      BY <1>1, <1>4, Typed DEF Begin, PassInv, ParseInv
    <3>2. Len(array') = Len(walk.out) /\ \A i \in 1..Len(array') : array'[i].kind \in ParsedKinds
      BY <3>1
    <3>. QED BY <2>2, <3>2 DEF IdsIn
  <2>3. IdsIn(array', "DeclarationType") = {} /\ IdsIn(array', "DeclarationName") = {}
    <3>1. "DeclarationType" \notin ParsedKinds /\ "DeclarationName" \notin ParsedKinds
      BY DEF ParsedKinds, Markers
    <3>. QED BY <2>2, <3>1
  <2>4. DOMAIN found' = {}
    BY <2>1
  <2>5. Covers(array', found')
    BY <2>3, <2>4 DEF Covers
  <2>. QED BY <1>1, <2>1, <2>5, CoversStays DEF LinkInv
<1>5. CASE Turn
  <2>. HIDE DEF Links
  <2>1. TurnOf(Announced(Links))
    BY <1>5 DEF Turn
  <2>2. passing = "on" /\ passing' = "on"
    BY <2>1 DEF TurnOf
  <2>3. PICK hit \in Announced(Links) : ~Dismissed(hit) /\ Declare(hit)
    BY <2>1 DEF TurnOf
  <2>4. Sane(hit)
    BY <1>1, <2>2, AnnouncedIs
  <2>5. PassInv /\ passing = "on" /\ Covers(array, found) /\ Sane(hit) /\ hit.into # None /\ Declare(hit)
    BY <1>1, <2>2, <2>3, <2>4 DEF LinkInv, Dismissed
  <2>6. Covers(array', found')
    BY ONLY <2>5, TurnCovers
  <2>. QED BY <1>1, <2>2, <2>6, CoversStays DEF LinkInv
<1>6. CASE Record
  <2>1. passing = "on" /\ passing' = "over" /\ array' = array /\ found' = found
    BY <1>6 DEF Record, RecordOf
  <2>2. Covers(array', found')
    BY <2>1 DEF LinkInv
  <2>. QED BY <1>1, <2>1, <2>2, CoversStays DEF LinkInv
<1>7. CASE UNCHANGED schemaVars
  BY <1>2, <1>7 DEF schemaVars, passVars
<1>. QED BY <1>3, <1>4, <1>5, <1>6, <1>7 DEF SchemaNext

\* The links of a pass are whole between any two turns: every keyword and every
\* name that carving made is in one link, once, and no link names a node that a
\* later turn replaced (schema.go, carve; context.go, SetDeclarations).
THEOREM LinksCover == SchemaSpec => []LinksCoverTheArray
<1>1. PassInit => LinkInv
  <2>1. ASSUME PassInit PROVE PassInv /\ found = <<>> /\ passing = "no"
    BY <2>1, ParseBegins, SchemasAssumption DEF PassInit, PassInv, IndentInit
  <2>. QED BY <2>1 DEF LinkInv
<1>2. LinkInv /\ [SchemaNext]_schemaVars => LinkInv'
  BY LinkStep
<1>3. LinkInv => LinksCoverTheArray
  BY DEF LinkInv, Covers, LinksCoverTheArray, OfKind, IdsIn, Linked
<1>. QED BY <1>1, <1>2, <1>3, PTL DEF SchemaSpec
============================================================================
