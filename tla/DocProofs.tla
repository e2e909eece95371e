---------------------------- MODULE DocProofs -----------------------------
(* The document's theorems, for every source, layout, set of texts and bound.*)
EXTENDS Doc, OperatorProofs, FiniteSetTheorems

---------------------------------------------------------------------------
(* Locations, for every origin, offset and length.                          *)

(* Merging a run of nodes gives the same location however the merges are     *)
(* grouped (the comment on mergeLocs, R35): the leftmost provenance, the     *)
(* summed length, faithful only if all three are.                            *)
THEOREM MergeLocsAssociative ==
  ASSUME NEW a \in Locs, NEW b \in Locs, NEW c \in Locs
  PROVE  MergeLocs(MergeLocs(a, b), c) = MergeLocs(a, MergeLocs(b, c))
<1> DEFINE L == MergeLocs(MergeLocs(a, b), c)
           R == MergeLocs(a, MergeLocs(b, c))
<1>1. L.origin = R.origin
  BY DEF MergeLocs, FirstKnown
<1>2. L.offset = R.offset
  BY DEF MergeLocs, FirstOffset
<1>3. L.length = R.length
  BY DEF MergeLocs, Locs
<1>4. L.altered = R.altered
  <2>1. MergeLocs(a, b).offset = FirstOffset(a.offset, b.offset)
        /\ MergeLocs(b, c).offset = FirstOffset(b.offset, c.offset)
    BY DEF MergeLocs
  <2>2. Faithful(MergeLocs(a, b)) = (Faithful(a) /\ Faithful(b))
    BY DEF MergeLocs, Faithful, FirstOffset, Locs
  <2>3. Faithful(MergeLocs(b, c)) = (Faithful(b) /\ Faithful(c))
    BY DEF MergeLocs, Faithful, FirstOffset, Locs
  <2>4. FirstOffset(FirstOffset(a.offset, b.offset), c.offset)
        = FirstOffset(a.offset, FirstOffset(b.offset, c.offset))
    BY DEF FirstOffset
  <2>. QED
    BY <2>1, <2>2, <2>3, <2>4 DEF MergeLocs
<1>. QED
  BY <1>1, <1>2, <1>3, <1>4 DEF MergeLocs

(* A merge is faithful exactly when both operands are, so a synthesized node *)
(* never lends its neighbour's offset a faithful claim (R34).                *)
THEOREM MergeLocsFaithful ==
  ASSUME NEW a \in Locs, NEW b \in Locs
  PROVE  Faithful(MergeLocs(a, b)) <=> Faithful(a) /\ Faithful(b)
BY DEF MergeLocs, Faithful, FirstOffset, Locs

(* The merge of two locations is a location.                                 *)
LEMMA MergeLocsTyped ==
  ASSUME NEW a \in Locs, NEW b \in Locs
  PROVE  MergeLocs(a, b) \in Locs
<1>1. FirstKnown(a.origin, b.origin) \in Origins \cup {NoOrigin}
  BY DEF FirstKnown, Locs
<1>2. FirstOffset(a.offset, b.offset) \in Nat
  BY DEF FirstOffset, Locs
<1>3. a.length + b.length \in Nat
  BY DEF Locs
<1>. QED
  BY <1>1, <1>2, <1>3 DEF MergeLocs, Locs

(* A location read from a source and attributed to a parse.                  *)
LEMMA SourceIn ==
  ASSUME NEW offset \in Nat, NEW length \in Nat, NEW o \in Origins
  PROVE  /\ In(Source(offset, length), o) \in Locs
         /\ In(Source(offset, length), o) =
              [origin |-> o, offset |-> offset + 1,
               length |-> length, altered |-> FALSE]
<1>1. ASSUME NEW l \in Locs
      PROVE  /\ In(l, o) \in Locs
             /\ In(l, o) = [origin |-> o, offset |-> l.offset,
                            length |-> l.length, altered |-> l.altered]
  BY DEF In, Locs
<1>2. Source(offset, length) \in Locs
  BY DEF Source, Locs
<1>3. /\ Source(offset, length).offset = offset + 1
      /\ Source(offset, length).length = length
      /\ Source(offset, length).altered = FALSE
  BY DEF Source
<1>. QED BY <1>1, <1>2, <1>3

(* Splitting a location with provenance and merging the halves gives back    *)
(* its offset, its length and its faithfulness (R36); the origin is lost.    *)
THEOREM SplitThenMerge ==
  ASSUME NEW l \in Locs, NEW at \in 0..l.length, l.offset # 0
  PROVE  MergeLocs(SplitLeft(l, at), SplitRight(l, at)) = In(l, NoOrigin)
<1> DEFINE m == MergeLocs(SplitLeft(l, at), SplitRight(l, at))
<1>1. m.offset = l.offset
  BY DEF MergeLocs, SplitLeft, SplitRight, FirstOffset
<1>2. at + (l.length - at) = l.length
  BY DEF Locs
<1>3. m.length = l.length
  BY <1>2 DEF MergeLocs, SplitLeft, SplitRight
<1>4. l.offset + at # 0 /\ l.altered \in BOOLEAN
  BY DEF Locs
<1>5. m.altered = l.altered
  BY <1>1, <1>4 DEF MergeLocs, SplitLeft, SplitRight, Faithful, FirstOffset
<1>6. m.origin = NoOrigin
  BY DEF MergeLocs, SplitLeft, SplitRight, FirstKnown
<1>7. l = [origin |-> l.origin, offset |-> l.offset,
           length |-> l.length, altered |-> l.altered]
  BY DEF Locs
<1>. QED
  BY <1>1, <1>3, <1>5, <1>6, <1>7 DEF MergeLocs, In

---------------------------------------------------------------------------
(* Nodes.                                                                   *)

(* The location of a node is a location whose length is that of its text.    *)
LEMMA LocationTyped ==
  ASSUME NEW n \in Nodes
  PROVE  /\ Location(n) \in Locs
         /\ Location(n).length = Len(n.text)
         /\ Location(n).offset = n.loc.offset
         /\ Location(n).altered = n.loc.altered
         /\ Location(n).origin = n.loc.origin
BY DEF Location, Nodes, Locs

(* What a parse reads is a node, and a faithful one.                         *)
LEMMA ReadTyped ==
  ASSUME NEW layout \in Layouts, NEW i \in 1..Len(layout)
  PROVE  Read(layout[i]) \in Nodes /\ RendersSource(Read(layout[i]))
<1> DEFINE span == layout[i]
<1>1. /\ span.kind \in Kinds /\ span.at \in Nat /\ span.len \in Nat
      /\ span.at + span.len =< Len(DocSource)
  <2>1. layout \in Seq(Spans)
    BY DocAssumption
  <2>2. span \in Spans
    BY <2>1
  <2>3. span.at + span.len =< Len(DocSource)
    BY DocAssumption
  <2>. QED BY <2>2, <2>3 DEF Spans
<1> DEFINE text == SubSeq(DocSource, span.at + 1, span.at + span.len)
<1>2. DocSource \in Seq(Byte) /\ Len(DocSource) \in Nat
  BY DocAssumption
<1>. HIDE DEF span
<1>4. /\ text \in Seq(Byte)
      /\ Len(text) = span.len
      /\ \A k \in 1..span.len : text[k] = DocSource[span.at + k]
  BY <1>1, <1>2, SpanElements, ZenonT(40)
<1>. HIDE DEF text
<1>5. In(Source(span.at, span.len), ParseOrigin)
        = [origin |-> ParseOrigin, offset |-> span.at + 1,
           length |-> span.len, altered |-> FALSE]
  BY <1>1, DocAssumption, SourceIn
<1>6. Read(span) = [kind |-> span.kind, text |-> text,
                    loc |-> [origin |-> ParseOrigin, offset |-> span.at + 1,
                             length |-> span.len, altered |-> FALSE]]
  BY <1>5 DEF Read, text
<1>7. Read(span) \in Nodes
  BY <1>1, <1>4, <1>6, DocAssumption DEF Nodes, Locs
<1>8. RendersSource(Read(span))
  <2> DEFINE l == Location(Read(span))
  <2>1. l.length = span.len /\ l.offset = span.at + 1
    BY <1>4, <1>6, <1>7, LocationTyped
  <2>2. Offset(l) = span.at /\ Read(span).text = text
    BY <1>1, <1>6, <2>1 DEF Offset
  <2>. HIDE DEF l
  <2>. QED BY <1>1, <1>4, <2>1, <2>2 DEF RendersSource, l
<1>. QED BY <1>7, <1>8 DEF span

(* The halves of a node are nodes, faithful only where the node was.         *)
LEMMA HalvesTyped ==
  ASSUME NEW t \in Nodes, NEW at \in 0..Len(t.text)
  PROVE  /\ LeftHalf(t, at) \in Nodes
         /\ RightHalf(t, at) \in Nodes
         /\ RendersSource(t) =>
              RendersSource(LeftHalf(t, at)) /\ RendersSource(RightHalf(t, at))
<1> DEFINE left  == SubSeq(t.text, 1, at)
           right == SubSeq(t.text, at + 1, Len(t.text))
<1>0. /\ t.text \in Seq(Byte) /\ Len(t.text) \in Nat /\ at \in Nat
      /\ "Text" \in Kinds
      /\ \A k \in 1..Len(t.text) : t.text[k] \in Byte
  BY DocAssumption DEF Nodes
<1>1. left \in Seq(Byte) /\ Len(left) = at /\ \A k \in 1..at : left[k] = t.text[k]
  BY <1>0, SubSeqProperties
<1>2. /\ right \in Seq(Byte)
      /\ Len(right) = Len(t.text) - at
      /\ \A k \in 1..(Len(t.text) - at) : right[k] = t.text[at + k]
  <2>1. \A k \in (at + 1)..Len(t.text) : t.text[k] \in Byte
    BY <1>0
  <2>2. /\ right \in Seq(Byte)
        /\ Len(right) = IF at + 1 =< Len(t.text) THEN Len(t.text) - (at + 1) + 1 ELSE 0
        /\ \A k \in 1..(Len(t.text) - (at + 1) + 1) : right[k] = t.text[(at + 1) + k - 1]
    BY <1>0, <2>1, SubSeqProperties
  <2>. HIDE DEF right
  <2>. QED BY <1>0, <2>2
<1>. HIDE DEF left, right
<1>3. /\ Location(t) \in Locs
      /\ Location(t).length = Len(t.text)
  BY LocationTyped
<1>4. SplitLeft(Location(t), at) \in Locs
  BY <1>0, <1>3 DEF SplitLeft, Locs
<1>5. SplitRight(Location(t), at) \in Locs
  BY <1>0, <1>3 DEF SplitRight, Locs
<1>6. LeftHalf(t, at) = [kind |-> "Text", text |-> left, loc |-> SplitLeft(Location(t), at)]
  BY DEF LeftHalf, left
<1>7. RightHalf(t, at) = [kind |-> "Text", text |-> right, loc |-> SplitRight(Location(t), at)]
  BY DEF RightHalf, right
<1>8. LeftHalf(t, at) \in Nodes /\ RightHalf(t, at) \in Nodes
  BY <1>0, <1>1, <1>2, <1>4, <1>5, <1>6, <1>7 DEF Nodes
<1>9. ASSUME RendersSource(t)
      PROVE  RendersSource(LeftHalf(t, at))
  <2> DEFINE l == Location(LeftHalf(t, at))
  <2>1. /\ l.length = at /\ l.offset = Location(t).offset
        /\ l.altered = Location(t).altered
    BY <1>1, <1>6, <1>8, LocationTyped DEF SplitLeft
  <2>. HIDE DEF l
  <2>2. SUFFICES ASSUME Faithful(l)
                 PROVE  /\ Offset(l) + l.length =< Len(DocSource)
                        /\ \A k \in 1..l.length : left[k] = DocSource[Offset(l) + k]
    BY <1>6 DEF RendersSource, l
  <2>3. Faithful(Location(t)) /\ Offset(Location(t)) = Offset(l)
    BY <2>1, <2>2 DEF Faithful, Offset
  <2>4. /\ Offset(l) + Len(t.text) =< Len(DocSource)
        /\ \A k \in 1..Len(t.text) : t.text[k] = DocSource[Offset(l) + k]
    BY <1>3, <1>9, <2>3 DEF RendersSource
  <2>5. Offset(l) \in Int /\ Len(DocSource) \in Int
    BY <1>3, <2>3, DocAssumption DEF Offset, Locs
  <2>6. Offset(l) + l.length =< Len(DocSource)
    BY <1>0, <2>1, <2>4, <2>5
  <2>7. \A k \in 1..l.length : left[k] = DocSource[Offset(l) + k]
    BY <1>0, <1>1, <2>1, <2>4
  <2>. QED BY <2>6, <2>7
<1>10. ASSUME RendersSource(t)
       PROVE  RendersSource(RightHalf(t, at))
  <2> DEFINE l == Location(RightHalf(t, at))
  <2>1. /\ l.length = Len(t.text) - at
        /\ l.offset = SplitRight(Location(t), at).offset
        /\ l.altered = Location(t).altered
    BY <1>2, <1>7, <1>8, LocationTyped DEF SplitRight
  <2>. HIDE DEF l
  <2>2. SUFFICES ASSUME Faithful(l)
                 PROVE  /\ Offset(l) + l.length =< Len(DocSource)
                        /\ \A k \in 1..l.length : right[k] = DocSource[Offset(l) + k]
    BY <1>7 DEF RendersSource, l
  <2>3. Faithful(Location(t)) /\ Offset(Location(t)) + at = Offset(l)
    BY <1>0, <1>3, <2>1, <2>2 DEF Faithful, Offset, SplitRight, Locs
  <2>4. /\ Offset(Location(t)) + Len(t.text) =< Len(DocSource)
        /\ \A k \in 1..Len(t.text) : t.text[k] = DocSource[Offset(Location(t)) + k]
    BY <1>3, <1>9, <1>10, <2>3 DEF RendersSource
  <2>5. Offset(Location(t)) \in Int /\ Len(DocSource) \in Int
    BY <1>3, DocAssumption DEF Offset, Locs
  <2>6. Offset(l) + l.length =< Len(DocSource)
    BY <1>0, <2>1, <2>3, <2>4, <2>5
  <2>7. ASSUME NEW k \in 1..l.length
        PROVE  right[k] = DocSource[Offset(l) + k]
    <3>1. right[k] = t.text[at + k] /\ at + k \in 1..Len(t.text)
      BY <1>0, <1>2, <2>1
    <3>2. Offset(Location(t)) + (at + k) = Offset(l) + k
      BY <1>0, <2>1, <2>3, <2>5
    <3>. QED BY <2>4, <3>1, <3>2
  <2>. QED BY <2>6, <2>7
<1>. QED BY <1>8, <1>9, <1>10

(* Two adjacent nodes merge into a node, which is faithful only where both   *)
(* were, and then renders the source.                                        *)
LEMMA MergedTyped ==
  ASSUME NEW a \in Nodes, NEW b \in Nodes,
         Adjacent(Location(a), Location(b)),
         RendersSource(a), RendersSource(b)
  PROVE  /\ Merged(a, b) \in Nodes
         /\ RendersSource(Merged(a, b))
         /\ MergedText(a, b) = a.text \o b.text
<1> DEFINE ta == a.text
           tb == b.text
           la == Location(a)
           lb == Location(b)
           t  == MergedText(a, b)
           m  == Merged(a, b)
<1>0. /\ ta \in Seq(Byte) /\ tb \in Seq(Byte)
      /\ Len(ta) \in Nat /\ Len(tb) \in Nat
      /\ "Text" \in Kinds
      /\ DocSource \in Seq(Byte) /\ Len(DocSource) \in Nat
  BY DocAssumption DEF Nodes
<1>. HIDE DEF ta, tb
<1>1. /\ la \in Locs /\ la.length = Len(ta)
      /\ lb \in Locs /\ lb.length = Len(tb)
  BY LocationTyped DEF ta, tb
<1>2. MergeLocs(la, lb) \in Locs
  BY <1>1, MergeLocsTyped
<1>3. /\ ta \o tb \in Seq(Byte)
      /\ Len(ta \o tb) = Len(ta) + Len(tb)
      /\ \A k \in 1..(Len(ta) + Len(tb)) :
           (ta \o tb)[k] = IF k =< Len(ta) THEN ta[k]
                                   ELSE tb[k - Len(ta)]
  BY <1>0, ConcatProperties
<1>. HIDE DEF la, lb, t, m
<1>4. CASE Faithful(la) /\ Faithful(lb)
  <2> DEFINE at == Offset(la)
             len == Len(ta) + Len(tb)
  <2>1. /\ at \in Nat /\ Offset(lb) \in Nat
        /\ Offset(lb) = at + Len(ta)
        /\ Offset(lb) + lb.length = at + len
    <3>1. Offset(la) \in Nat
      BY <1>1, <1>4 DEF Faithful, Offset, Locs
    <3>2. Offset(lb) \in Nat
      BY <1>1, <1>4 DEF Faithful, Offset, Locs
    <3>3. Offset(la) + Len(ta) = Offset(lb)
      BY <1>1, <1>4 DEF Adjacent, la, lb
    <3>4. lb.length = Len(tb)
      BY <1>1
    <3> DEFINE end == Offset(lb) + lb.length
    <3>5. end = Offset(lb) + Len(tb)
      BY <3>4
    <3>. HIDE DEF end
    <3>6. Offset(lb) = at + Len(ta)
      BY <3>3
    <3>. HIDE DEF at
    <3>7. end = at + len
      BY <1>0, <3>1, <3>5, <3>6 DEF at
    <3>. QED BY <3>1, <3>2, <3>6, <3>7 DEF at, end
  <2>2. /\ \A k \in 1..Len(ta) : ta[k] = DocSource[at + k]
        /\ \A k \in 1..Len(tb) : tb[k] = DocSource[at + Len(ta) + k]
        /\ at + len =< Len(DocSource)
    BY <1>1, <1>4, <2>1 DEF RendersSource, la, lb, ta, tb
  <2>3. t = SubSeq(DocSource, at + 1, at + len)
    BY <1>4, <2>1 DEF MergedText, t, la, lb, ta, tb
  <2>. HIDE DEF at
  <2>4. /\ t \in Seq(Byte) /\ Len(t) = len
        /\ \A k \in 1..len : t[k] = DocSource[at + k]
    <3>1. len \in Nat
      BY <1>0
    <3>. HIDE DEF len
    <3>. QED BY <1>0, <2>1, <2>2, <2>3, <3>1, SpanElements
  <2>5. ASSUME NEW k \in 1..len
        PROVE  (ta \o tb)[k] = DocSource[at + k]
    <3>1. CASE k =< Len(ta)
      BY <1>0, <1>3, <2>2, <3>1
    <3>2. CASE k > Len(ta)
      <4>1. k - Len(ta) \in 1..Len(tb)
        BY <1>0, <3>2
      <4>2. tb[k - Len(ta)] = DocSource[at + Len(ta) + (k - Len(ta))]
        BY <2>2, <4>1
      <4>3. at + Len(ta) + (k - Len(ta)) = at + k
        BY <1>0, <2>1
      <4>. QED BY <1>0, <1>3, <3>2, <4>2, <4>3
    <3>. QED BY <1>0, <3>1, <3>2
  <2>6. t = ta \o tb
    BY <1>3, <2>4, <2>5, SeqEqual
  <2>7. m \in Nodes /\ m.text = t
    BY <1>0, <1>2, <2>4 DEF Merged, Nodes, m, t, la, lb
  <2>8. Location(m).length = len /\ Location(m).offset = la.offset
    BY <1>4, <2>4, <2>7, LocationTyped
       DEF Merged, MergeLocs, FirstOffset, Faithful, m, la, lb
  <2>9. Offset(Location(m)) = at
    BY <2>8 DEF Offset, at
  <2>10. RendersSource(m)
    <3>. HIDE DEF len
    <3>. QED BY <2>2, <2>4, <2>7, <2>8, <2>9 DEF RendersSource
  <2>. QED BY <2>6, <2>7, <2>10 DEF m, t, ta, tb
<1>5. CASE ~(Faithful(la) /\ Faithful(lb))
  <2>1. t = ta \o tb
    BY <1>5 DEF MergedText, t, la, lb, ta, tb
  <2>2. m \in Nodes /\ m.loc = MergeLocs(la, lb)
    BY <1>0, <1>2, <1>3, <2>1 DEF Merged, Nodes, m, t, la, lb
  <2>3. ~Faithful(MergeLocs(la, lb))
    BY <1>1, <1>5, MergeLocsFaithful
  <2>4. ~Faithful(Location(m))
    BY <2>2, <2>3, LocationTyped DEF Faithful
  <2>. QED BY <2>1, <2>2, <2>4 DEF RendersSource, m, t, ta, tb
<1>. QED BY <1>4, <1>5

---------------------------------------------------------------------------
(* The inductive invariant.                                                 *)

\* The window's flags agree with the calls on the stack.
WindowInv ==
  /\ WindowOutlivesNesting
  /\ raised # "none" => mutating
  /\ poisoned => ~mutating

\* Membership that differs from the index is noted as dirty, and dirt is only
\* left in a window or by a failed one.
IndexInv ==
  /\ ~dirty => nodeIndex = IndexMap(dom)
  /\ (~mutating /\ ~poisoned) => ~dirty

IInv == TypeOK /\ Distinct(dom) /\ FaithfulRenders /\ WindowInv /\ IndexInv

(* The index of an array without duplicates inverts it.                      *)
LEMMA IndexMapInverts ==
  ASSUME NEW S, NEW d \in Seq(S), Distinct(d)
  PROVE  /\ DOMAIN IndexMap(d) = {d[i] : i \in 1..Len(d)}
         /\ DOMAIN IndexMap(d) \subseteq S
         /\ \A i \in 1..Len(d) : IndexMap(d)[d[i]] = i - 1
         /\ \A n \in DOMAIN IndexMap(d) : IndexMap(d)[n] \in Nat
<1> DEFINE At(n, p) == /\ d[p + 1] = n
                       /\ \A q \in (p + 2)..Len(d) : d[q] # n
<1>1. DOMAIN IndexMap(d) = {d[i] : i \in 1..Len(d)}
  BY DEF IndexMap
<1>2. ASSUME NEW i \in 1..Len(d)
      PROVE  IndexMap(d)[d[i]] = i - 1
  <2>1. IndexMap(d)[d[i]] = CHOOSE p \in 0..(Len(d) - 1) : At(d[i], p)
    BY DEF IndexMap
  <2>2. i - 1 \in 0..(Len(d) - 1) /\ At(d[i], i - 1)
    BY DEF Distinct
  <2>3. ASSUME NEW p \in 0..(Len(d) - 1), At(d[i], p)
        PROVE  p = i - 1
    <3>1. p + 1 \in 1..Len(d) /\ d[p + 1] = d[i]
      BY <2>3
    <3>2. p + 1 = i
      BY <3>1 DEF Distinct
    <3>. QED BY <3>2
  <2>. HIDE DEF At
  <2>. QED BY <2>1, <2>2, <2>3
<1>3. \A i \in 1..Len(d) : i - 1 \in Nat
  OBVIOUS
<1>. QED BY <1>1, <1>2, <1>3

(* The invariant holds of a document just made.                              *)
LEMMA InitInvariant == Init => IInv
<1>. SUFFICES ASSUME Init PROVE IInv
  OBVIOUS
<1>1. PICK layout \in Layouts :
        /\ heap = [i \in 1..Len(layout) |-> Read(layout[i])]
        /\ dom = [i \in 1..Len(layout) |-> i]
  BY DEF Init
<1>2. layout \in Seq(Spans) /\ Len(layout) \in Nat
  BY DocAssumption
<1>3. heap \in Seq(Nodes) /\ Len(heap) = Len(layout)
  BY <1>1, <1>2, ReadTyped
<1>4. dom \in Seq(Held) /\ Len(dom) = Len(layout) /\ \A i \in 1..Len(dom) : dom[i] = i
  BY <1>1, <1>2, <1>3 DEF Held
<1>5. Distinct(dom) /\ FaithfulRenders
  BY <1>1, <1>2, <1>3, <1>4, ReadTyped DEF Distinct, FaithfulRenders, Held
<1>6. nodeIndex = IndexMap(dom) /\ generation = 0 /\ mutating = FALSE /\ dirty = FALSE
      /\ poisoned = FALSE /\ depth = 0 /\ raised = "none" /\ stray = FALSE /\ edits = 0
  BY DEF Init
<1>7. DOMAIN nodeIndex \subseteq Held /\ \A n \in DOMAIN nodeIndex : nodeIndex[n] \in Nat
  BY <1>4, <1>5, <1>6, IndexMapInverts DEF Held
<1>8. TypeOK
  BY <1>3, <1>4, <1>6, <1>7 DEF TypeOK
<1>. QED
  BY <1>5, <1>6, <1>8 DEF IInv, WindowInv, WindowOutlivesNesting, IndexInv

(* An edit that keeps the array a duplicate-free sequence of held nodes, and *)
(* leaves the indices and the window alone, keeps the invariant.             *)
LEMMA EditKeepsInvariant ==
  ASSUME IInv,
         heap' \in Seq(Nodes), Len(heap') >= Len(heap),
         dom' \in Seq(Held'), Distinct(dom'), FaithfulRenders',
         \/ Editable /\ dirty' = TRUE
         \/ dom' = dom /\ dirty' = dirty,
         stray' \in BOOLEAN, edits' \in Nat,
         UNCHANGED <<indices, window, raised>>
  PROVE  IInv'
<1>1. /\ UNCHANGED <<nodeIndex, generation, mutating, poisoned, depth, raised>>
  BY DEF indices, window
<1>2. heap \in Seq(Nodes) /\ heap' \in Seq(Nodes)
  BY DEF IInv, TypeOK
<1>3. Held \subseteq Held'
  BY <1>2 DEF Held
<1>4. TypeOK'
  <2>1. DOMAIN nodeIndex' \subseteq Held'
    BY <1>1, <1>3 DEF IInv, TypeOK
  <2>2. dirty' \in BOOLEAN
    BY DEF IInv, TypeOK
  <2>. QED BY <1>1, <1>2, <2>1, <2>2 DEF IInv, TypeOK
<1>5. WindowInv'
  BY <1>1 DEF IInv, WindowInv, WindowOutlivesNesting
<1>6. IndexInv'
  <2>1. CASE Editable /\ dirty' = TRUE
    BY <1>1, <2>1 DEF IInv, IndexInv, Editable
  <2>2. CASE dom' = dom /\ dirty' = dirty
    BY <1>1, <2>2 DEF IInv, IndexInv, IndexMap
  <2>. QED BY <2>1, <2>2
<1>. QED BY <1>4, <1>5, <1>6 DEF IInv

(* Splicing nodes that are held and not in the array into it.                *)
LEMMA SpliceTyped ==
  ASSUME IInv, heap' \in Seq(Nodes), Len(heap') >= Len(heap),
         NEW i \in 1..(Len(dom) + 1), NEW j \in i..(Len(dom) + 1),
         NEW m \in Seq(1..Len(heap')), Distinct(m),
         \A q \in 1..Len(m) : m[q] \notin Members,
         dom' = Splice(dom, i, j, m)
  PROVE  dom' \in Seq(Held') /\ Distinct(dom')
<1>1. heap \in Seq(Nodes) /\ dom \in Seq(Held) /\ Distinct(dom)
  BY DEF IInv, TypeOK
<1>2. dom \in Seq(1..Len(heap'))
  BY <1>1 DEF Held
<1>3. \A p \in 1..Len(dom) : \A q \in 1..Len(m) : dom[p] # m[q]
  BY DEF Members
<1>4. Splice(dom, i, j, m) \in Seq(1..Len(heap'))
  BY <1>2, SpliceElements
<1>5. Distinct(Splice(dom, i, j, m))
  BY <1>1, <1>2, <1>3, SpliceDistinct
<1>. QED BY <1>4, <1>5 DEF Held

(* The array holds held nodes, so a node just made is not in it.             *)
LEMMA MembersHeld ==
  ASSUME IInv
  PROVE  /\ Members \subseteq Held
         /\ \A k \in Nat : k > Len(heap) => k \notin Members
         /\ \A i \in 1..Len(dom) : dom[i] \in Held /\ heap[dom[i]] \in Nodes
         /\ heap \in Seq(Nodes) /\ Len(heap) \in Nat
         /\ dom \in Seq(Held) /\ Len(dom) \in Nat
BY DEF IInv, TypeOK, Members, Held

(* The node to enter makes the heap no shorter and is not in the array.      *)
LEMMA EnteringTyped ==
  ASSUME IInv, NEW made, made \subseteq Nodes, NEW n, Entering(n, made)
  PROVE  /\ heap' \in Seq(Nodes) /\ Len(heap') >= Len(heap)
         /\ n \in 1..Len(heap') /\ n \notin Members
         /\ \A k \in 1..Len(heap) : heap'[k] = heap[k]
         /\ Len(heap') > Len(heap) => heap'[Len(heap')] \in made
         /\ Len(heap') =< Len(heap) + 1
         /\ Editable /\ edits' = edits + 1
<1>1. CASE n = Len(heap) + 1 /\ \E node \in made : heap' = Append(heap, node)
  <2>1. PICK node \in made : heap' = Append(heap, node)
    BY <1>1
  <2>2. /\ heap' \in Seq(Nodes) /\ Len(heap') = Len(heap) + 1
        /\ \A k \in 1..Len(heap) : heap'[k] = heap[k]
        /\ heap'[Len(heap) + 1] = node
    BY <2>1, MembersHeld, AppendProperties
  <2>. QED BY <1>1, <2>2, MembersHeld DEF Entering, Counted
<1>2. CASE n \in Held \ Members /\ heap' = heap
  BY <1>2, MembersHeld DEF Entering, Counted, Held
<1>. QED BY <1>1, <1>2 DEF Entering

\* Callers enter nodes of this parse and nodes without an origin only.
OneParse == ForeignNodes = {}

(* New material and retyped nodes are nodes, as faithful as what they        *)
(* replace.                                                                  *)
LEMMA MadeTyped ==
  ASSUME IInv, OneParse
  PROVE  /\ \A node \in Synthesized \cup ForeignNodes :
              node \in Nodes /\ RendersSource(node)
         /\ \A i \in 1..Len(dom) : \A node \in Retyped(dom[i]) :
              node \in Nodes /\ RendersSource(node)
<1>1. ASSUME NEW node \in Synthesized
      PROVE  node \in Nodes /\ RendersSource(node)
  <2>1. Synthetic(0) \in Locs
    BY DEF Synthetic, Locs
  <2>2. node \in Nodes /\ node.loc = Synthetic(0)
    BY <2>1, DocAssumption DEF Synthesized, Nodes
  <2>3. ~Faithful(Location(node))
    BY <2>2, LocationTyped DEF Faithful, Synthetic
  <2>. QED BY <2>2, <2>3 DEF RendersSource
<1>2. ASSUME NEW i \in 1..Len(dom), NEW node \in Retyped(dom[i])
      PROVE  node \in Nodes /\ RendersSource(node)
  <2>1. heap[dom[i]] \in Nodes /\ RendersSource(heap[dom[i]])
    BY MembersHeld DEF IInv, FaithfulRenders
  <2>2. PICK k \in Kinds : node = [heap[dom[i]] EXCEPT !.kind = k]
    BY DEF Retyped
  <2>3. node \in Nodes /\ node.text = heap[dom[i]].text /\ node.loc = heap[dom[i]].loc
    BY <2>1, <2>2 DEF Nodes
  <2>4. Location(node) = Location(heap[dom[i]])
    BY <2>3 DEF Location
  <2>. QED BY <2>1, <2>3, <2>4 DEF RendersSource
<1>. QED BY <1>1, <1>2 DEF OneParse

(* Entering a node keeps every node's claim true.                            *)
LEMMA EnteringFaithful ==
  ASSUME IInv, NEW made, NEW n, Entering(n, made),
         \A node \in made : node \in Nodes /\ RendersSource(node)
  PROVE  FaithfulRenders'
<1>1. /\ heap' \in Seq(Nodes) /\ Len(heap') >= Len(heap)
      /\ \A k \in 1..Len(heap) : heap'[k] = heap[k]
      /\ Len(heap') > Len(heap) => heap'[Len(heap')] \in made
      /\ Len(heap') =< Len(heap) + 1
  BY EnteringTyped
<1>2. ASSUME NEW k \in 1..Len(heap')
      PROVE  RendersSource(heap'[k])
  <2>1. CASE k \in 1..Len(heap)
    BY <1>1, <2>1 DEF IInv, FaithfulRenders, Held
  <2>2. CASE k \notin 1..Len(heap)
    <3>1. k = Len(heap') /\ Len(heap') > Len(heap)
      BY <1>1, <2>2, MembersHeld
    <3>. QED BY <1>1, <3>1
  <2>. QED BY <2>1, <2>2
<1>. QED BY <1>2 DEF FaithfulRenders, Held

(* Rewriting a node's text takes back its claim to be faithful.              *)
LEMMA SetTextKeeps ==
  ASSUME IInv, NEW n \in Held, NEW s \in NewTexts, SetText(n, s)
  PROVE  IInv'
<1> DEFINE node == Rewritten(heap[n], s)
<1>1. heap[n] \in Nodes /\ heap \in Seq(Nodes) /\ Len(heap) \in Nat
  BY MembersHeld DEF Held
<1>2. s \in Seq(Byte)
  BY DocAssumption
<1>3. heap[n].loc \in Locs
  BY <1>1 DEF Nodes
<1>4. Alter(heap[n].loc) \in Locs /\ Alter(heap[n].loc).altered
  BY <1>3 DEF Alter, Locs
<1>5. node \in Nodes /\ node.loc = Alter(heap[n].loc)
  BY <1>1, <1>2, <1>4 DEF Nodes, Rewritten
<1>6. RendersSource(node)
  <2>1. ~Faithful(Location(node))
    BY <1>4, <1>5, LocationTyped DEF Faithful
  <2>. QED BY <2>1 DEF RendersSource
<1>. HIDE DEF node
<1>7. heap' = [heap EXCEPT ![n] = node]
  BY DEF SetText, node
<1>8. /\ heap' \in Seq(Nodes) /\ Len(heap') = Len(heap)
      /\ \A k \in 1..Len(heap) : heap'[k] = IF k = n THEN node ELSE heap[k]
  BY <1>1, <1>5, <1>7, ExceptSeq DEF Held
<1>9. FaithfulRenders'
  BY <1>6, <1>8 DEF IInv, FaithfulRenders, Held
<1>10. dom' = dom /\ dirty' = dirty /\ UNCHANGED <<indices, window, raised>>
  BY DEF SetText
<1>11. stray' \in BOOLEAN /\ edits' \in Nat
  BY DEF SetText, Counted, IInv, TypeOK
<1>12. dom' \in Seq(Held') /\ Distinct(dom')
  BY <1>8, <1>10 DEF IInv, TypeOK, Held
<1>. QED BY <1>1, <1>8, <1>9, <1>10, <1>11, <1>12, EditKeepsInvariant

(* A merge enters one node, faithful only if it renders the source.          *)
LEMMA MergeKeeps ==
  ASSUME IInv, OneParse, NEW i \in 1..Len(dom), Merge(i)
  PROVE  IInv'
<1> DEFINE a == heap[dom[i]]
           b == heap[dom[i + 1]]
           id == Len(heap) + 1
<1>1. i + 1 \in 1..Len(dom) /\ Adjacent(Location(a), Location(b))
  BY MembersHeld DEF Merge, Mergeable
<1>2. a \in Nodes /\ b \in Nodes /\ RendersSource(a) /\ RendersSource(b)
  BY <1>1, MembersHeld DEF IInv, FaithfulRenders
<1>3. Merged(a, b) \in Nodes /\ RendersSource(Merged(a, b))
  BY <1>1, <1>2, MergedTyped
<1>4. heap' = Append(heap, Merged(a, b)) /\ dom' = Splice(dom, i, i + 2, <<id>>)
  BY DEF Merge
<1>. HIDE DEF a, b
<1>5. /\ heap' \in Seq(Nodes) /\ Len(heap') = Len(heap) + 1
      /\ \A k \in 1..Len(heap) : heap'[k] = heap[k]
      /\ heap'[Len(heap) + 1] = Merged(a, b)
  BY <1>3, <1>4, MembersHeld, AppendProperties
<1>6. FaithfulRenders'
  <2>. SUFFICES ASSUME NEW k \in 1..Len(heap') PROVE RendersSource(heap'[k])
    BY DEF FaithfulRenders, Held
  <2>. QED BY <1>3, <1>5, MembersHeld DEF IInv, FaithfulRenders, Held
<1>7. /\ <<id>> \in Seq(1..Len(heap')) /\ Distinct(<<id>>)
      /\ \A q \in 1..Len(<<id>>) : <<id>>[q] \notin Members
  BY <1>5, MembersHeld DEF Distinct
<1>8. dom' \in Seq(Held') /\ Distinct(dom')
  <2>1. i \in 1..(Len(dom) + 1) /\ i + 2 \in i..(Len(dom) + 1)
    BY <1>1, MembersHeld
  <2>2. Len(heap') >= Len(heap)
    BY <1>5, MembersHeld
  <2>. HIDE DEF id
  <2>. QED BY <1>4, <1>5, <1>7, <2>1, <2>2, SpliceTyped
<1>9. /\ Editable /\ dirty' = TRUE /\ stray' = stray /\ edits' = edits + 1
      /\ UNCHANGED <<indices, window, raised>>
  BY DEF Merge, Counted
<1>10. stray' \in BOOLEAN /\ edits' \in Nat
  BY <1>9 DEF IInv, TypeOK
<1>. QED BY <1>5, <1>6, <1>8, <1>9, <1>10, MembersHeld, EditKeepsInvariant

(* A split enters two halves, faithful only if they render the source.       *)
LEMMA SplitKeeps ==
  ASSUME IInv, NEW i \in 1..Len(dom), NEW at \in 0..Len(heap[dom[i]].text), Split(i, at)
  PROVE  IInv'
<1> DEFINE t == heap[dom[i]]
           l == LeftHalf(t, at)
           r == RightHalf(t, at)
           ids == <<Len(heap) + 1, Len(heap) + 2>>
<1>1. t \in Nodes /\ RendersSource(t)
  BY MembersHeld DEF IInv, FaithfulRenders
<1>2. l \in Nodes /\ r \in Nodes /\ RendersSource(l) /\ RendersSource(r)
  BY <1>1, HalvesTyped
<1>3. heap' = heap \o <<l, r>> /\ dom' = Splice(dom, i, i + 1, ids)
  BY DEF Split
<1>. HIDE DEF l, r
<1>4. /\ heap' \in Seq(Nodes) /\ Len(heap') = Len(heap) + 2
      /\ \A k \in 1..Len(heap) : heap'[k] = heap[k]
      /\ heap'[Len(heap) + 1] = l
      /\ heap'[Len(heap) + 2] = r
  <2>1. <<l, r>> \in Seq(Nodes) /\ Len(<<l, r>>) = 2 /\ <<l, r>>[1] = l /\ <<l, r>>[2] = r
    BY <1>2
  <2> DEFINE pair == <<l, r>>
  <2>. HIDE DEF pair
  <2>2. /\ heap \o pair \in Seq(Nodes)
        /\ Len(heap \o pair) = Len(heap) + Len(pair)
        /\ \A k \in 1..(Len(heap) + Len(pair)) :
             (heap \o pair)[k] = IF k =< Len(heap) THEN heap[k] ELSE pair[k - Len(heap)]
    BY <2>1, MembersHeld, ConcatProperties DEF pair
  <2>3. heap' = heap \o pair
    BY <1>3 DEF pair
  <2>4. Len(pair) = 2 /\ pair[1] = l /\ pair[2] = r
    BY <2>1 DEF pair
  <2>5. /\ Len(heap) + 1 - Len(heap) = 1
        /\ Len(heap) + 2 - Len(heap) = 2
    BY MembersHeld
  <2>. QED BY <2>2, <2>3, <2>4, <2>5, MembersHeld
<1>5. FaithfulRenders'
  <2>. SUFFICES ASSUME NEW k \in 1..Len(heap') PROVE RendersSource(heap'[k])
    BY DEF FaithfulRenders, Held
  <2>1. k \in 1..Len(heap) \/ k = Len(heap) + 1 \/ k = Len(heap) + 2
    BY <1>4, MembersHeld
  <2>. QED BY <1>2, <1>4, <2>1 DEF IInv, FaithfulRenders, Held
<1>6. /\ ids \in Seq(1..Len(heap')) /\ Distinct(ids)
      /\ \A q \in 1..Len(ids) : ids[q] \notin Members
  BY <1>4, MembersHeld DEF Distinct
<1>7. dom' \in Seq(Held') /\ Distinct(dom')
  <2>1. i \in 1..(Len(dom) + 1) /\ i + 1 \in i..(Len(dom) + 1)
    BY MembersHeld
  <2>2. Len(heap') >= Len(heap)
    BY <1>4, MembersHeld
  <2>. HIDE DEF ids
  <2>. QED BY <1>3, <1>4, <1>6, <2>1, <2>2, SpliceTyped
<1>8. /\ Editable /\ dirty' = TRUE /\ stray' = stray /\ edits' = edits + 1
      /\ UNCHANGED <<indices, window, raised>>
  BY DEF Split, Counted
<1>9. stray' \in BOOLEAN /\ edits' \in Nat
  BY <1>8 DEF IInv, TypeOK
<1>. QED BY <1>4, <1>5, <1>7, <1>8, <1>9, MembersHeld, EditKeepsInvariant

(* A replacement keeps the array duplicate-free and every claim true.        *)
LEMMA ReplaceKeeps ==
  ASSUME IInv, OneParse, NEW i \in 1..Len(dom), NEW n, Replace(i, n)
  PROVE  IInv'
<1> DEFINE made == Synthesized \cup Retyped(dom[i]) \cup ForeignNodes
<1>1. \A node \in made : node \in Nodes /\ RendersSource(node)
  BY MadeTyped
<1>2. Entering(n, made) /\ dom' = [dom EXCEPT ![i] = n]
  BY DEF Replace
<1>. HIDE DEF made
<1>3. /\ heap' \in Seq(Nodes) /\ Len(heap') >= Len(heap)
      /\ n \in 1..Len(heap') /\ n \notin Members
      /\ Editable /\ edits' = edits + 1
  BY <1>1, <1>2, EnteringTyped
<1>4. FaithfulRenders'
  BY <1>1, <1>2, EnteringFaithful
<1>5. dom \in Seq(1..Len(heap')) /\ Distinct(dom)
  BY <1>3, MembersHeld DEF IInv, Held
<1>6. /\ dom' \in Seq(1..Len(heap')) /\ Len(dom') = Len(dom)
      /\ \A j \in 1..Len(dom) : dom'[j] = IF j = i THEN n ELSE dom[j]
  BY <1>2, <1>3, <1>5, ExceptSeq
<1>7. Distinct(dom')
  BY <1>3, <1>5, <1>6 DEF Distinct, Members
<1>8. dirty' = TRUE /\ stray' = stray /\ UNCHANGED <<indices, window, raised>>
  BY DEF Replace
<1>9. stray' \in BOOLEAN /\ edits' \in Nat
  BY <1>3, <1>8 DEF IInv, TypeOK
<1>10. dom' \in Seq(Held')
  BY <1>6 DEF Held
<1>. QED BY <1>3, <1>4, <1>7, <1>8, <1>9, <1>10, EditKeepsInvariant

(* An insertion keeps the array duplicate-free and every claim true.         *)
LEMMA InsertKeeps ==
  ASSUME IInv, OneParse, NEW i \in 1..(Len(dom) + 1), NEW n, Insert(i, n)
  PROVE  IInv'
<1> DEFINE made == Synthesized \cup ForeignNodes
<1>1. \A node \in made : node \in Nodes /\ RendersSource(node)
  BY MadeTyped
<1>2. Entering(n, made) /\ dom' = Splice(dom, i, i, <<n>>)
  BY DEF Insert
<1>. HIDE DEF made
<1>3. /\ heap' \in Seq(Nodes) /\ Len(heap') >= Len(heap)
      /\ n \in 1..Len(heap') /\ n \notin Members
      /\ Editable /\ edits' = edits + 1
  BY <1>1, <1>2, EnteringTyped
<1>4. FaithfulRenders'
  BY <1>1, <1>2, EnteringFaithful
<1>5. /\ <<n>> \in Seq(1..Len(heap')) /\ Distinct(<<n>>)
      /\ \A q \in 1..Len(<<n>>) : <<n>>[q] \notin Members
  BY <1>3 DEF Distinct
<1>6. i \in i..(Len(dom) + 1)
  BY MembersHeld
<1>7. dom' \in Seq(Held') /\ Distinct(dom')
  BY <1>2, <1>3, <1>5, <1>6, SpliceTyped
<1>8. dirty' = TRUE /\ stray' = stray /\ UNCHANGED <<indices, window, raised>>
  BY DEF Insert
<1>9. stray' \in BOOLEAN /\ edits' \in Nat
  BY <1>3, <1>8 DEF IInv, TypeOK
<1>. QED BY <1>3, <1>4, <1>7, <1>8, <1>9, EditKeepsInvariant

(* A removal keeps the array duplicate-free.                                 *)
LEMMA RemoveKeeps ==
  ASSUME IInv, NEW i \in 1..Len(dom), Remove(i)
  PROVE  IInv'
<1>1. heap' = heap /\ dom' = Splice(dom, i, i + 1, <<>>) /\ Editable
  BY DEF Remove
<1>2. heap' \in Seq(Nodes) /\ Len(heap') >= Len(heap) /\ FaithfulRenders'
  BY <1>1, MembersHeld DEF IInv, FaithfulRenders, Held
<1>3. <<>> \in Seq(1..Len(heap')) /\ Distinct(<<>>) /\ Len(<<>>) = 0
  BY DEF Distinct
<1>4. i \in 1..(Len(dom) + 1) /\ i + 1 \in i..(Len(dom) + 1)
  BY MembersHeld
<1>5. dom' \in Seq(Held') /\ Distinct(dom')
  <2> DEFINE none == <<>>
  <2>1. none \in Seq(1..Len(heap')) /\ Distinct(none)
        /\ \A q \in 1..Len(none) : none[q] \notin Members
    BY <1>3
  <2>2. dom' = Splice(dom, i, i + 1, none)
    BY <1>1
  <2>. HIDE DEF none
  <2>. QED BY <1>2, <1>4, <2>1, <2>2, SpliceTyped
<1>6. /\ dirty' = TRUE /\ stray' = stray /\ edits' = edits + 1
      /\ UNCHANGED <<indices, window, raised>>
  BY DEF Remove, Counted
<1>7. stray' \in BOOLEAN /\ edits' \in Nat
  BY <1>6 DEF IInv, TypeOK
<1>. QED BY <1>1, <1>2, <1>5, <1>6, <1>7, EditKeepsInvariant

(* A step that leaves the array and the indices alone, and whose flags agree *)
(* with the stack again, keeps the invariant.                                *)
LEMMA ControlKeeps ==
  ASSUME IInv, UNCHANGED <<array, indices, edits>>,
         mutating' \in BOOLEAN, poisoned' \in BOOLEAN, stray' \in BOOLEAN,
         depth' \in Nat, raised' \in {"none", "inMutation", "foreign"},
         WindowInv', (~mutating' /\ ~poisoned') => ~dirty
  PROVE  IInv'
<1>1. heap' = heap /\ dom' = dom /\ dirty' = dirty /\ nodeIndex' = nodeIndex
      /\ generation' = generation /\ edits' = edits
  BY DEF array, indices
<1>2. TypeOK'
  BY <1>1 DEF IInv, TypeOK, Held
<1>3. Distinct(dom)' /\ FaithfulRenders'
  BY <1>1 DEF IInv, FaithfulRenders, Held, Distinct
<1>4. IndexInv'
  BY <1>1 DEF IInv, IndexInv, IndexMap
<1>. QED BY <1>2, <1>3, <1>4 DEF IInv

(* The outermost exit without an error rebuilds the indices.                 *)
LEMMA RebuildKeeps ==
  ASSUME IInv, OuterReturnNil
  PROVE  IInv'
<1>1. /\ heap' = heap /\ dom' = dom /\ nodeIndex' = IndexMap(dom)
      /\ generation' = IF dirty THEN generation + 1 ELSE generation
      /\ dirty' = FALSE /\ mutating' = FALSE /\ depth' = 0 /\ stray' = FALSE
      /\ poisoned' = poisoned /\ raised' = "none" /\ edits' = edits
  BY DEF OuterReturnNil, Rebuild, Calm
<1>2. dom \in Seq(Held) /\ Distinct(dom)
  BY DEF IInv, TypeOK
<1>3. /\ DOMAIN nodeIndex' \subseteq Held
      /\ \A n \in DOMAIN nodeIndex' : nodeIndex'[n] \in Nat
  BY <1>1, <1>2, IndexMapInverts
<1>4. generation' \in Nat
  BY <1>1 DEF IInv, TypeOK
<1>5. TypeOK'
  BY <1>1, <1>3, <1>4 DEF IInv, TypeOK, Held
<1>6. Distinct(dom)' /\ FaithfulRenders'
  BY <1>1 DEF IInv, FaithfulRenders, Held, Distinct
<1>7. WindowInv'
  BY <1>1 DEF WindowInv, WindowOutlivesNesting
<1>8. IndexInv'
  BY <1>1 DEF IndexInv, IndexMap
<1>. QED BY <1>5, <1>6, <1>7, <1>8 DEF IInv

(* Every step of a window keeps the invariant.                               *)
LEMMA WindowKeeps ==
  ASSUME IInv, WindowStep
  PROVE  IInv'
<1>0. /\ mutating \in BOOLEAN /\ poisoned \in BOOLEAN /\ stray \in BOOLEAN
      /\ depth \in Nat /\ raised \in {"none", "inMutation", "foreign"}
      /\ mutating <=> depth > 0
      /\ raised # "none" => mutating
      /\ poisoned => ~mutating
      /\ (~mutating /\ ~poisoned) => ~dirty
  BY DEF IInv, TypeOK, WindowInv, WindowOutlivesNesting, IndexInv
<1>1. CASE MutateOuter
  BY <1>0, <1>1, ControlKeeps DEF MutateOuter, Calm, WindowInv, WindowOutlivesNesting
<1>2. CASE MutateNested
  <2>1. depth + 1 \in Nat /\ depth + 1 > 0
    BY <1>0
  <2>. QED
    BY <1>0, <1>2, <2>1, ControlKeeps DEF MutateNested, Calm, WindowInv, WindowOutlivesNesting
<1>3. CASE NestedReturn
  <2>1. depth - 1 \in Nat /\ depth - 1 > 0 /\ mutating
    BY <1>0, <1>3 DEF NestedReturn
  <2>. QED
    BY <1>0, <1>3, <2>1, ControlKeeps DEF NestedReturn, Calm, WindowInv, WindowOutlivesNesting
<1>4. CASE OuterReturnNil
  BY <1>4, RebuildKeeps
<1>5. CASE OuterReturnError
  <2>1. /\ mutating' = FALSE /\ poisoned' = TRUE /\ depth' = 0 /\ raised' = "none"
        /\ UNCHANGED <<array, indices, stray, edits>>
    BY <1>5 DEF OuterReturnError, CloseFailed, Calm
  <2>2. WindowInv'
    BY <2>1 DEF WindowInv, WindowOutlivesNesting
  <2>3. UNCHANGED <<array, indices, edits>> /\ stray' \in BOOLEAN
    BY <1>0, <2>1
  <2>. QED BY <2>1, <2>2, <2>3, ControlKeeps
<1>6. CASE RefusedRead
  BY <1>0, <1>6, ControlKeeps
     DEF RefusedRead, Refuses, window, Calm, WindowInv, WindowOutlivesNesting
<1>7. CASE ForeignPanic
  BY <1>0, <1>7, ControlKeeps DEF ForeignPanic, window, Calm, WindowInv, WindowOutlivesNesting
<1>8. CASE RecoveredInside
  BY <1>0, <1>8, ControlKeeps DEF RecoveredInside, window, WindowInv, WindowOutlivesNesting
<1>9. CASE UnwindNested
  <2>1. depth - 1 \in Nat /\ depth - 1 > 0 /\ mutating
    BY <1>0, <1>9 DEF UnwindNested
  <2>. QED
    BY <1>0, <1>9, <2>1, ControlKeeps DEF UnwindNested, WindowInv, WindowOutlivesNesting
<1>10. CASE UnwindOuter
  <2>1. /\ mutating' = FALSE /\ poisoned' = TRUE /\ depth' = 0 /\ raised' = "none"
        /\ UNCHANGED <<array, indices, stray, edits>>
    BY <1>10 DEF UnwindOuter, CloseFailed
  <2>2. WindowInv'
    BY <2>1 DEF WindowInv, WindowOutlivesNesting
  <2>3. UNCHANGED <<array, indices, edits>> /\ stray' \in BOOLEAN
    BY <1>0, <2>1
  <2>. QED BY <2>1, <2>2, <2>3, ControlKeeps
<1>. QED
  BY <1>1, <1>2, <1>3, <1>4, <1>5, <1>6, <1>7, <1>8, <1>9, <1>10 DEF WindowStep

(* Every step keeps the invariant.                                           *)
LEMMA NextKeeps ==
  ASSUME IInv, OneParse, [Next]_vars
  PROVE  IInv'
<1>1. CASE WindowStep
  BY <1>1, WindowKeeps
<1>2. CASE EditStep
  BY <1>2, SetTextKeeps, MergeKeeps, SplitKeeps, ReplaceKeeps, InsertKeeps, RemoveKeeps
     DEF EditStep
<1>3. CASE UNCHANGED vars
  <2>1. /\ UNCHANGED <<array, indices, edits>>
        /\ UNCHANGED <<mutating, poisoned, depth, raised, stray>>
    BY <1>3 DEF vars, window
  <2>. QED
    BY <2>1, ControlKeeps DEF IInv, TypeOK, WindowInv, WindowOutlivesNesting, IndexInv
<1>. QED BY <1>1, <1>2, <1>3 DEF Next

(* The inductive invariant holds of every run.                               *)
(* A step of the document either marks it dirty, or leaves the array and     *)
(* every kind in it alone; only a step that publishes moves the generation.  *)
LEMMA DocStepShape ==
  ASSUME IInv, Next
  PROVE  /\ generation' = generation \/ (dirty /\ generation' = generation + 1)
         /\ generation' = generation =>
              \/ dirty'
              \/ /\ dom' = dom /\ ~dirty
                 /\ Held' = Held
                 /\ \A n \in Held : heap'[n].kind = heap[n].kind
<1>0. /\ heap \in Seq(Nodes) /\ generation \in Nat /\ dirty \in BOOLEAN
      /\ mutating <=> depth > 0
  BY DEF IInv, TypeOK, WindowInv, WindowOutlivesNesting
<1>1. CASE WindowStep
  <2>1. CASE OuterReturnNil
    BY <1>0, <2>1 DEF OuterReturnNil, Rebuild, Held
  <2>2. CASE UNCHANGED <<array, indices>>
    BY <1>0, <2>2 DEF array, indices, Held
  <2>. QED
    BY <1>1, <2>1, <2>2
       DEF WindowStep, MutateOuter, MutateNested, NestedReturn, OuterReturnError, CloseFailed,
           RefusedRead, ForeignPanic, RecoveredInside, UnwindNested, UnwindOuter
<1>2. ASSUME NEW n \in Held, NEW s \in NewTexts, SetText(n, s)
      PROVE  /\ generation' = generation /\ dom' = dom /\ dirty' = dirty
             /\ Held' = Held
             /\ \A m \in Held : heap'[m].kind = heap[m].kind
  <2>1. heap' = [heap EXCEPT ![n] = Rewritten(heap[n], s)]
    BY <1>2 DEF SetText
  <2>2. Rewritten(heap[n], s).kind = heap[n].kind
    <3>1. heap[n] \in Nodes
      BY <1>0 DEF Held
    <3>2. s \in Seq(Byte)
      BY DocAssumption
    <3>3. Alter(heap[n].loc) \in Locs
      BY <3>1 DEF Alter, Locs, Nodes
    <3>. QED BY <3>1, <3>2, <3>3 DEF Rewritten, Nodes
  <2>3. /\ Len(heap') = Len(heap)
        /\ \A m \in 1..Len(heap) : heap'[m] = IF m = n THEN Rewritten(heap[n], s) ELSE heap[m]
    BY <1>0, <2>1 DEF Held
  <2>4. generation' = generation /\ dom' = dom /\ dirty' = dirty
    BY <1>2 DEF SetText, indices
  <2>. QED BY <2>2, <2>3, <2>4 DEF Held
<1>3. CASE EditStep
  <2>1. CASE \E n \in Held, s \in NewTexts : SetText(n, s)
    BY <1>0, <1>2, <2>1
  <2>2. CASE generation' = generation /\ dirty' = TRUE
    BY <2>2
  <2>. QED
    BY <1>3, <2>1, <2>2 DEF EditStep, Merge, Split, Replace, Insert, Remove, indices
<1>. QED BY <1>1, <1>3 DEF Next

THEOREM Invariance == OneParse => (Spec => []IInv)
<1>. SUFFICES ASSUME OneParse PROVE Spec => []IInv
  OBVIOUS
<1>1. Init => IInv
  BY InitInvariant
<1>2. IInv /\ [Next]_vars => IInv'
  BY NextKeeps
<1>. QED BY <1>1, <1>2, PTL DEF Spec

---------------------------------------------------------------------------
(* What the invariant gives.                                                *)

(* Every run stays within the types of the document (doc.go:37-61).          *)
THEOREM TypeCorrect == OneParse => (Spec => []TypeOK)
<1>1. IInv => TypeOK
  BY DEF IInv
<1>. QED BY <1>1, Invariance, PTL

(* A node that claims to be faithful renders the source span at its offset,  *)
(* whatever was split, merged, rewritten or entered before (loc.go:60).      *)
THEOREM Faithfulness == OneParse => (Spec => []FaithfulRenders)
<1>1. IInv => FaithfulRenders
  BY DEF IInv
<1>. QED BY <1>1, Invariance, PTL

(* Merge slices the source only where joining the texts gives the same bytes *)
(* (mutate.go:139-146), as long as the nodes come from one parse.            *)
THEOREM MergePath == OneParse => (Spec => []MergePathUnobservable)
<1>1. IInv => MergePathUnobservable
  <2>. SUFFICES ASSUME IInv, NEW i \in 1..Len(dom), Mergeable(i)
                PROVE  MergedText(heap[dom[i]], heap[dom[i+1]])
                         = heap[dom[i]].text \o heap[dom[i+1]].text
    BY DEF MergePathUnobservable
  <2> DEFINE a == heap[dom[i]]
             b == heap[dom[i + 1]]
  <2>1. i + 1 \in 1..Len(dom) /\ Adjacent(Location(a), Location(b))
    BY MembersHeld DEF Mergeable
  <2>2. a \in Nodes /\ b \in Nodes /\ RendersSource(a) /\ RendersSource(b)
    BY <2>1, MembersHeld DEF IInv, FaithfulRenders
  <2>. HIDE DEF a, b
  <2>3. MergedText(a, b) = a.text \o b.text
    BY <2>1, <2>2, MergedTyped
  <2>. QED BY <2>3 DEF a, b
<1>. QED BY <1>1, Invariance, PTL

(* Outside a window the indices answer for the array as it stands: every     *)
(* read that does not refuse is right (doc.go:118-145).                      *)
THEOREM ReadsTruthful == OneParse => (Spec => []ReadsTellTheTruth)
<1>1. IInv => ReadsTellTheTruth
  <2>. SUFFICES ASSUME IInv, ~Refuses, ~poisoned
                PROVE  /\ \A n \in Held \ Members : IndexOf(n) = -1
                       /\ \A p \in 1..Len(dom) :
                            /\ IndexOf(dom[p]) = p - 1
                            /\ NextNode(dom[p]) = IF p = Len(dom) THEN Nil ELSE dom[p + 1]
                            /\ PrevNode(dom[p]) = IF p = 1 THEN Nil ELSE dom[p - 1]
    BY DEF ReadsTellTheTruth
  <2>1. nodeIndex = IndexMap(dom) /\ Distinct(dom) /\ dom \in Seq(Held)
    BY DEF IInv, IndexInv, TypeOK, Refuses
  <2>2. /\ DOMAIN nodeIndex = Members
        /\ \A p \in 1..Len(dom) : nodeIndex[dom[p]] = p - 1
    BY <2>1, IndexMapInverts DEF Members
  <2>3. \A n \in Held \ Members : IndexOf(n) = -1
    BY <2>2 DEF IndexOf
  <2>4. ASSUME NEW p \in 1..Len(dom)
        PROVE  IndexOf(dom[p]) = p - 1
    BY <2>2 DEF IndexOf, Members
  <2>5. ASSUME NEW p \in 1..Len(dom)
        PROVE  /\ NextNode(dom[p]) = IF p = Len(dom) THEN Nil ELSE dom[p + 1]
               /\ PrevNode(dom[p]) = IF p = 1 THEN Nil ELSE dom[p - 1]
    <3>1. Len(dom) \in Nat
      BY MembersHeld
    <3>. QED BY <2>4, <3>1 DEF NextNode, PrevNode
  <2>. QED BY <2>3, <2>4, <2>5
<1>. QED BY <1>1, Invariance, PTL

(* The window is open exactly while a Mutate call is on the stack            *)
(* (mutate.go:61-90).                                                        *)
THEOREM WindowNesting == OneParse => (Spec => []WindowOutlivesNesting)
<1>1. IInv => WindowOutlivesNesting
  BY DEF IInv, WindowInv
<1>. QED BY <1>1, Invariance, PTL

(* No step of a poisoned document moves its array, its index or its          *)
(* generation, or cures it (mutate.go:61-101).                               *)
THEOREM PoisonForever == OneParse => (Spec => PoisonIsForever)
<1>1. ASSUME IInv, [Next]_vars, poisoned
      PROVE  poisoned' /\ UNCHANGED <<dom, nodeIndex, generation>>
  <2>1. poisoned /\ ~mutating /\ depth = 0 /\ Calm
    BY <1>1 DEF IInv, TypeOK, WindowInv, WindowOutlivesNesting, Calm
  <2>2. ~WindowStep
    BY <2>1 DEF WindowStep, MutateOuter, MutateNested, NestedReturn, OuterReturnNil,
                OuterReturnError, RefusedRead, Refuses, ForeignPanic, RecoveredInside,
                UnwindNested, UnwindOuter
  <2>3. CASE EditStep
    <3>1. PICK n \in Held, s \in NewTexts : SetText(n, s)
      BY <2>1, <2>3 DEF EditStep, Merge, Split, Replace, Insert, Remove, Entering, Editable
    <3>. QED BY <2>1, <3>1 DEF SetText, indices, window
  <2>4. CASE UNCHANGED vars
    BY <2>1, <2>4 DEF vars, array, indices, window
  <2>. QED BY <1>1, <2>2, <2>3, <2>4 DEF Next
<1>2. IInv /\ [Next]_vars => [poisoned => poisoned' /\ UNCHANGED <<dom, nodeIndex, generation>>]_vars
  BY <1>1
<1>. QED BY <1>2, Invariance, PTL DEF Spec, PoisonIsForever

(* The document implements the versioned order: equal generations mean equal *)
(* published orders, a window publishes at most once, and a failed one never *)
(* (specs/document.md, "The structural generation"; doc.go:180-233).         *)
THEOREM ImplementsVersionedOrder == OneParse => (Spec => VersionsOrder)
<1>1. Init => VO!Init
  BY DEF Init, VO!Init
<1>2. ASSUME IInv, [Next]_vars
      PROVE  [VO!Next]_VO!vars
  <2>0. /\ mutating <=> depth > 0
        /\ raised # "none" => mutating
        /\ poisoned => ~mutating
        /\ ~dirty => nodeIndex = IndexMap(dom)
    BY <1>2 DEF IInv, WindowInv, WindowOutlivesNesting, IndexInv
  <2>1. CASE MutateOuter
    BY <2>1 DEF MutateOuter, VO!Next, VO!Open, indices
  <2>2. CASE OuterReturnNil
    <3>1. mutating /\ mutating' = FALSE /\ poisoned' = poisoned
      BY <2>0, <2>2 DEF OuterReturnNil
    <3>2. nodeIndex' = IndexMap(dom)
          /\ generation' = IF dirty THEN generation + 1 ELSE generation
      BY <2>2 DEF OuterReturnNil, Rebuild
    <3>3. CASE dirty
      BY <3>1, <3>2, <3>3 DEF VO!Next, VO!Publish, VO!Close
    <3>4. CASE ~dirty
      BY <2>0, <3>1, <3>2, <3>4 DEF VO!Next, VO!Settle, VO!Close
    <3>. QED BY <3>3, <3>4
  <2>3. CASE OuterReturnError \/ UnwindOuter
    <3>1. mutating /\ CloseFailed
      BY <2>0, <2>3 DEF OuterReturnError, UnwindOuter
    <3>. QED BY <3>1 DEF CloseFailed, indices, VO!Next, VO!Fail, VO!Close
  <2>4. CASE \/ MutateNested \/ NestedReturn \/ RefusedRead \/ ForeignPanic
             \/ RecoveredInside \/ UnwindNested
    BY <2>4 DEF MutateNested, NestedReturn, RefusedRead, ForeignPanic, RecoveredInside,
                UnwindNested, indices, window, VO!vars
  <2>5. CASE EditStep
    <3>1. UNCHANGED <<indices, window>>
      BY <2>5 DEF EditStep, SetText, Merge, Split, Replace, Insert, Remove
    <3>. QED BY <3>1 DEF indices, window, VO!vars
  <2>6. CASE UNCHANGED vars
    BY <2>6 DEF vars, indices, window, VO!vars
  <2>. QED BY <1>2, <2>1, <2>2, <2>3, <2>4, <2>5, <2>6 DEF Next, WindowStep
<1>. QED BY <1>1, <1>2, Invariance, PTL DEF Spec, VersionsOrder, VO!Spec

---------------------------------------------------------------------------
(* What the document renders.                                                *)

\* The texts of some of the nodes of a heap.
TextsOf(h, d) == [k \in 1..Len(d) |-> h[d[k]].text]

(* They are sequences of bytes.                                              *)
LEMMA TextsTyped ==
  ASSUME NEW h \in Seq(Nodes), NEW d \in Seq(1..Len(h))
  PROVE  TextsOf(h, d) \in Seq(Seq(Byte)) /\ Len(TextsOf(h, d)) = Len(d)
<1> DEFINE B == Seq(Byte)
           t == TextsOf(h, d)
           n == Len(d)
<1>1. n \in Nat /\ \A k \in 1..n : h[d[k]].text \in B
  <2>1. \A k \in 1..n : d[k] \in 1..Len(h)
    OBVIOUS
  <2>2. \A k \in 1..Len(h) : h[k] \in Nodes
    OBVIOUS
  <2>3. \A k \in 1..n : h[d[k]] \in Nodes
    BY <2>1, <2>2
  <2>. QED BY <2>3 DEF Nodes
<1>. HIDE DEF B
<1>2. t \in [1..n -> B]
  BY <1>1 DEF TextsOf
<1>. HIDE DEF t, n
<1>3. t \in Seq(B) /\ Len(t) = n
  BY <1>1, <1>2, SeqDef, LenProperties
<1>. QED BY <1>3 DEF B, t, n

(* The texts of two spans of nodes are those of one, then those of the other.*)
LEMMA TextsParts ==
  ASSUME NEW h \in Seq(Nodes), NEW d \in Seq(1..Len(h)), NEW e \in Seq(1..Len(h))
  PROVE  TextsOf(h, d \o e) = TextsOf(h, d) \o TextsOf(h, e)
<1>1. /\ d \o e \in Seq(1..Len(h)) /\ Len(d \o e) = Len(d) + Len(e)
      /\ \A k \in 1..(Len(d) + Len(e)) :
           (d \o e)[k] = IF k =< Len(d) THEN d[k] ELSE e[k - Len(d)]
  BY ConcatProperties
<1> DEFINE l == TextsOf(h, d \o e)
           r == TextsOf(h, d) \o TextsOf(h, e)
<1>2. /\ TextsOf(h, d) \in Seq(Seq(Byte)) /\ Len(TextsOf(h, d)) = Len(d)
      /\ TextsOf(h, e) \in Seq(Seq(Byte)) /\ Len(TextsOf(h, e)) = Len(e)
      /\ l \in Seq(Seq(Byte)) /\ Len(l) = Len(d) + Len(e)
  BY <1>1, TextsTyped
<1>3. /\ r \in Seq(Seq(Byte)) /\ Len(r) = Len(d) + Len(e)
      /\ \A k \in 1..(Len(d) + Len(e)) :
           r[k] = IF k =< Len(d) THEN TextsOf(h, d)[k] ELSE TextsOf(h, e)[k - Len(d)]
  <2> DEFINE x == TextsOf(h, d)
             y == TextsOf(h, e)
             B == Seq(Byte)
  <2>1. x \in Seq(B) /\ y \in Seq(B) /\ Len(x) = Len(d) /\ Len(y) = Len(e) /\ r = x \o y
    BY <1>2
  <2>. HIDE DEF x, y, r, B
  <2>2. /\ x \o y \in Seq(B) /\ Len(x \o y) = Len(x) + Len(y)
        /\ \A k \in 1..(Len(x) + Len(y)) :
             (x \o y)[k] = IF k =< Len(x) THEN x[k] ELSE y[k - Len(x)]
    BY <2>1, ConcatProperties
  <2>3. /\ r \in Seq(B) /\ Len(r) = Len(d) + Len(e)
        /\ \A k \in 1..(Len(d) + Len(e)) :
             r[k] = IF k =< Len(d) THEN x[k] ELSE y[k - Len(d)]
    BY <2>1, <2>2
  <2>. QED BY <2>3 DEF x, y, B
<1>4. Len(d) \in Nat /\ Len(e) \in Nat
  OBVIOUS
<1>5. ASSUME NEW k \in 1..(Len(d) + Len(e))
      PROVE  l[k] = r[k]
  <2>1. l[k] = h[(d \o e)[k]].text
    BY <1>1, <1>5 DEF TextsOf
  <2>2. CASE k =< Len(d)
    <3>1. k \in 1..Len(d)
      BY <1>4, <2>2
    <3>. QED BY <1>1, <1>3, <2>1, <2>2, <3>1 DEF TextsOf
  <2>3. CASE ~(k =< Len(d))
    <3>1. k - Len(d) \in 1..Len(e)
      BY <1>4, <2>3
    <3>. QED BY <1>1, <1>3, <2>1, <2>3, <3>1 DEF TextsOf
  <2>. QED BY <2>2, <2>3
<1>. HIDE DEF l, r
<1>6. l = r
  BY <1>2, <1>3, <1>5, SeqEqual
<1>. QED BY <1>6 DEF l, r

(* Where a span of nodes gives way to another that writes the same bytes, so *)
(* does the array: a heap that only grows keeps what the others write.       *)
LEMMA SpanKeepsBytes ==
  ASSUME NEW h \in Seq(Nodes), NEW v \in Seq(Nodes), Len(h) =< Len(v),
         \A n \in 1..Len(h) : v[n] = h[n],
         NEW d \in Seq(1..Len(h)), NEW m \in Seq(1..Len(v)),
         NEW i \in 1..(Len(d) + 1), NEW j \in i..(Len(d) + 1),
         Concatenated(TextsOf(h, SubSeq(d, i, j - 1))) = Concatenated(TextsOf(v, m))
  PROVE  Concatenated(TextsOf(v, Splice(d, i, j, m))) = Concatenated(TextsOf(h, d))
<1> DEFINE a == SubSeq(d, 1, i - 1)
           b == SubSeq(d, i, j - 1)
           c == SubSeq(d, j, Len(d))
           B == Seq(Seq(Byte))
<1>0. Len(d) \in Nat /\ i \in Nat /\ j \in Nat /\ Len(h) \in Nat /\ Len(v) \in Nat
  OBVIOUS
<1>1. a \in Seq(1..Len(h)) /\ b \in Seq(1..Len(h)) /\ c \in Seq(1..Len(h))
  <2>1. \A k \in 1..Len(d) : d[k] \in 1..Len(h)
    OBVIOUS
  <2>2. /\ \A k \in 1..(i - 1) : d[k] \in 1..Len(h)
        /\ \A k \in i..(j - 1) : d[k] \in 1..Len(h)
        /\ \A k \in j..Len(d) : d[k] \in 1..Len(h)
    BY <1>0, <2>1
  <2>. QED BY <1>0, <2>2, SubSeqProperties
<1>2. d = (a \o b) \o c
  <2>1. SubSeq(d, 1, i - 1) \o SubSeq(d, (i - 1) + 1, j - 1) = SubSeq(d, 1, j - 1)
    <3>1. 1 \in 1..(Len(d) + 1) /\ i - 1 \in (1 - 1)..Len(d) /\ j - 1 \in (i - 1)..Len(d)
      BY <1>0
    <3>. QED BY <3>1, ConcatAdjacentSubSeq
  <2>2. SubSeq(d, 1, j - 1) \o SubSeq(d, (j - 1) + 1, Len(d)) = SubSeq(d, 1, Len(d))
    <3>1. 1 \in 1..(Len(d) + 1) /\ j - 1 \in (1 - 1)..Len(d) /\ Len(d) \in (j - 1)..Len(d)
      BY <1>0
    <3>. QED BY <3>1, ConcatAdjacentSubSeq
  <2>3. (i - 1) + 1 = i /\ (j - 1) + 1 = j /\ SubSeq(d, 1, Len(d)) = d
    BY <1>0, SubSeqFull
  <2>. QED BY <2>1, <2>2, <2>3
<1>3. Splice(d, i, j, m) = (a \o m) \o c
  BY DEF Splice
<1>. HIDE DEF a, b, c
<1>4. a \in Seq(1..Len(v)) /\ c \in Seq(1..Len(v)) /\ TextsOf(v, a) = TextsOf(h, a) /\ TextsOf(v, c) = TextsOf(h, c)
  <2>1. 1..Len(h) \subseteq 1..Len(v)
    BY <1>0
  <2>2. \A k \in 1..Len(a) : a[k] \in 1..Len(h)
    BY <1>1
  <2>3. \A k \in 1..Len(c) : c[k] \in 1..Len(h)
    BY <1>1, SMTT(30)
  <2>4. TextsOf(v, a) = TextsOf(h, a) /\ TextsOf(v, c) = TextsOf(h, c)
    BY <2>2, <2>3 DEF TextsOf
  <2>. QED BY <1>1, <2>1, <2>4, SeqMonotonic
<1> DEFINE A == TextsOf(h, a)
           C == TextsOf(h, c)
           M == TextsOf(v, m)
           O == TextsOf(h, b)
<1>5. A \in Seq(Seq(Byte)) /\ C \in Seq(Seq(Byte)) /\ M \in Seq(Seq(Byte)) /\ O \in Seq(Seq(Byte))
  BY <1>1, TextsTyped
<1>6. TextsOf(h, d) = (A \o O) \o C
  <2>1. a \o b \in Seq(1..Len(h))
    BY <1>1, ConcatProperties
  <2>2. TextsOf(h, (a \o b) \o c) = TextsOf(h, a \o b) \o TextsOf(h, c)
    BY <1>1, <2>1, TextsParts
  <2>3. TextsOf(h, a \o b) = TextsOf(h, a) \o TextsOf(h, b)
    BY <1>1, TextsParts
  <2>. QED BY <1>2, <2>2, <2>3
<1>7. TextsOf(v, Splice(d, i, j, m)) = (A \o M) \o C
  <2>1. a \o m \in Seq(1..Len(v))
    BY <1>4, ConcatProperties
  <2>2. TextsOf(v, (a \o m) \o c) = TextsOf(v, a \o m) \o TextsOf(v, c)
    BY <1>4, <2>1, TextsParts
  <2>3. TextsOf(v, a \o m) = TextsOf(v, a) \o TextsOf(v, m)
    BY <1>4, TextsParts
  <2>. QED BY <1>3, <1>4, <2>2, <2>3
<1>8. Concatenated(O) = Concatenated(M)
  BY DEF b
<1>. HIDE DEF A, C, M, O
<1>9. Concatenated((A \o O) \o C) = (Concatenated(A) \o Concatenated(O)) \o Concatenated(C)
  <2>1. A \o O \in Seq(Seq(Byte))
    BY <1>5, ConcatProperties
  <2>. QED BY <1>5, <2>1, ConcatenatedParts
<1>10. Concatenated((A \o M) \o C) = (Concatenated(A) \o Concatenated(M)) \o Concatenated(C)
  <2>1. A \o M \in Seq(Seq(Byte))
    BY <1>5, ConcatProperties
  <2>. QED BY <1>5, <2>1, ConcatenatedParts
<1>. QED BY <1>6, <1>7, <1>8, <1>9, <1>10

(* A span of one element, or of two.                                         *)
LEMMA SpanFew ==
  ASSUME NEW S, NEW s \in Seq(S), NEW i \in 1..Len(s)
  PROVE  /\ SubSeq(s, i, (i + 1) - 1) = <<s[i]>>
         /\ i + 1 =< Len(s) => SubSeq(s, i, (i + 2) - 1) = <<s[i], s[i + 1]>>
<1>0. Len(s) \in Nat /\ i \in Nat /\ \A k \in 1..Len(s) : s[k] \in S
  OBVIOUS
<1>1. SubSeq(s, i, (i + 1) - 1) = <<s[i]>>
  <2> DEFINE j == (i + 1) - 1
             t == SubSeq(s, i, j)
  <2>0. j \in Int /\ j - i + 1 = 1 /\ i =< j
    BY <1>0
  <2>1. \A k \in i..j : s[k] \in S
    BY <1>0
  <2>. HIDE DEF j
  <2>2. /\ t \in Seq(S) /\ Len(t) = IF i =< j THEN j - i + 1 ELSE 0
        /\ \A k \in 1..(j - i + 1) : t[k] = s[i + k - 1]
    BY <1>0, <2>0, <2>1, SubSeqProperties
  <2>. HIDE DEF t
  <2>3. t \in Seq(S) /\ Len(t) = 1 /\ t[1] = s[i + 1 - 1]
    BY <2>0, <2>2
  <2>4. i + 1 - 1 = i
    BY <1>0
  <2>5. t = <<s[i]>>
    BY <2>3, <2>4
  <2>. QED BY <2>5 DEF t, j
<1>2. ASSUME i + 1 =< Len(s)
      PROVE  SubSeq(s, i, (i + 2) - 1) = <<s[i], s[i + 1]>>
  <2> DEFINE j == i + 1
             t == SubSeq(s, i, j)
  <2>0. j \in Int /\ j - i + 1 = 2 /\ i =< j /\ (i + 2) - 1 = j
    BY <1>0
  <2>1. \A k \in i..j : s[k] \in S
    BY <1>0, <1>2
  <2>. HIDE DEF j
  <2>2. /\ t \in Seq(S) /\ Len(t) = IF i =< j THEN j - i + 1 ELSE 0
        /\ \A k \in 1..(j - i + 1) : t[k] = s[i + k - 1]
    BY <1>0, <2>0, <2>1, SubSeqProperties
  <2>. HIDE DEF t
  <2>3. t \in Seq(S) /\ Len(t) = 2 /\ t[1] = s[i + 1 - 1] /\ t[2] = s[i + 2 - 1]
    BY <2>0, <2>2
  <2>4. i + 1 - 1 = i /\ i + 2 - 1 = i + 1
    BY <1>0
  <2>5. t = <<s[i], s[i + 1]>>
    BY <2>3, <2>4
  <2>. QED BY <2>0, <2>5 DEF t
<1>. QED BY <1>1, <1>2

(* The text of one node, or of two.                                          *)
LEMMA TextsFew ==
  ASSUME NEW h, NEW a, NEW b
  PROVE  TextsOf(h, <<a>>) = <<h[a].text>> /\ TextsOf(h, <<a, b>>) = <<h[a].text, h[b].text>>
BY DEF TextsOf

(* One text, or two, written out.                                            *)
LEMMA ConcatenatedFew ==
  ASSUME NEW x \in Seq(Byte), NEW y \in Seq(Byte)
  PROVE  Concatenated(<<x>>) = x /\ Concatenated(<<x, y>>) = x \o y
<1>1. Concatenated(<<>>) = <<>> /\ <<>> \in Seq(Seq(Byte))
  BY DEF Concatenated, SE!FlattenSeq
<1>2. <<x>> = Append(<<>>, x) /\ <<x>> \in Seq(Seq(Byte)) /\ <<x, y>> = Append(<<x>>, y)
  OBVIOUS
<1>3. Concatenated(<<x>>) = <<>> \o x /\ <<>> \o x = x
  BY <1>1, <1>2, ConcatenatedAppend, ConcatEmptySeq
<1>4. Concatenated(<<x, y>>) = Concatenated(<<x>>) \o y
  BY <1>2, ConcatenatedAppend
<1>. QED BY <1>3, <1>4

(* What the document renders is the texts of its array, in order.            *)
LEMMA RenderedIs ==
  ASSUME IInv
  PROVE  Rendered = Concatenated(TextsOf(heap, dom)) /\ Rendered \in Seq(Byte)
<1>1. Rendered = Concatenated(TextsOf(heap, dom))
  BY DEF Rendered, TextsOf
<1>2. heap \in Seq(Nodes) /\ dom \in Seq(1..Len(heap))
  BY MembersHeld DEF Held
<1>. QED BY <1>1, <1>2, TextsTyped, ConcatenatedTyped

(* Joining two nodes writes the bytes the two wrote.                         *)
LEMMA MergeKeepsBytes ==
  ASSUME IInv, IInv', NEW i \in 1..Len(dom), Merge(i)
  PROVE  Rendered' = Rendered
<1> DEFINE a == heap[dom[i]]
           b == heap[dom[i + 1]]
           id == Len(heap) + 1
           new == Merged(a, b)
           x == a.text
           y == b.text
<1>1. i + 1 \in 1..Len(dom) /\ Adjacent(Location(a), Location(b)) /\ Len(dom) \in Nat
  BY MembersHeld DEF Merge, Mergeable
<1>2. a \in Nodes /\ b \in Nodes /\ RendersSource(a) /\ RendersSource(b)
  BY <1>1, MembersHeld DEF IInv, FaithfulRenders
<1>3. new \in Nodes /\ new.text = x \o y /\ x \in Seq(Byte) /\ y \in Seq(Byte)
  <2>1. Merged(a, b) \in Nodes /\ MergedText(a, b) = a.text \o b.text
    BY <1>1, <1>2, MergedTyped
  <2>. QED BY <1>2, <2>1 DEF Merged, Nodes
<1>4. heap' = Append(heap, new) /\ dom' = Splice(dom, i, i + 2, <<id>>)
  BY DEF Merge
<1>5. SubSeq(dom, i, (i + 2) - 1) = <<dom[i], dom[i + 1]>>
  <2>. QED BY <1>1, MembersHeld, SpanFew
<1>. HIDE DEF new
<1>6. /\ heap' \in Seq(Nodes) /\ Len(heap') = Len(heap) + 1
      /\ \A k \in 1..Len(heap) : heap'[k] = heap[k]
      /\ heap'[id] = new
  BY <1>3, <1>4, MembersHeld, AppendProperties
<1>7. TextsOf(heap, SubSeq(dom, i, (i + 2) - 1)) = <<x, y>>
  BY <1>5, TextsFew
<1>8. TextsOf(heap', <<id>>) = <<x \o y>>
  <2> DEFINE v == heap'
  <2>1. v[id].text = x \o y
    BY <1>3, <1>6
  <2>. HIDE DEF v, id, x, y
  <2>2. TextsOf(v, <<id>>) = <<v[id].text>>
    BY TextsFew
  <2>. QED BY <2>1, <2>2 DEF v
<1>. HIDE DEF x, y
<1>9. Concatenated(TextsOf(heap, SubSeq(dom, i, (i + 2) - 1))) = Concatenated(TextsOf(heap', <<id>>))
  <2>1. x \o y \in Seq(Byte)
    BY <1>3, ConcatProperties
  <2>2. Concatenated(<<x, y>>) = x \o y
    BY <1>3, ConcatenatedFew
  <2> DEFINE z == x \o y
  <2>3. z \in Seq(Byte)
    BY <2>1
  <2>. HIDE DEF z
  <2>4. Concatenated(<<z>>) = z
    BY <2>3, ConcatenatedFew
  <2>. QED BY <1>7, <1>8, <2>2, <2>4 DEF z
<1>10. /\ heap \in Seq(Nodes) /\ dom \in Seq(1..Len(heap)) /\ <<id>> \in Seq(1..Len(heap'))
       /\ Len(heap) =< Len(heap') /\ i \in 1..(Len(dom) + 1) /\ i + 2 \in i..(Len(dom) + 1)
  BY <1>1, <1>6, MembersHeld DEF Held
<1>11. Concatenated(TextsOf(heap', Splice(dom, i, i + 2, <<id>>))) = Concatenated(TextsOf(heap, dom))
  <2> DEFINE h == heap
             v == heap'
             d == dom
             m == <<id>>
             j == i + 2
  <2>1. /\ h \in Seq(Nodes) /\ v \in Seq(Nodes) /\ Len(h) =< Len(v)
        /\ \A n \in 1..Len(h) : v[n] = h[n]
        /\ d \in Seq(1..Len(h)) /\ m \in Seq(1..Len(v))
        /\ i \in 1..(Len(d) + 1) /\ j \in i..(Len(d) + 1)
        /\ Concatenated(TextsOf(h, SubSeq(d, i, j - 1))) = Concatenated(TextsOf(v, m))
    BY <1>6, <1>9, <1>10
  <2>. HIDE DEF h, v, d, m, j
  <2>2. Concatenated(TextsOf(v, Splice(d, i, j, m))) = Concatenated(TextsOf(h, d))
    BY <2>1, SpanKeepsBytes
  <2>. QED BY <2>2 DEF h, v, d, m, j
<1>. QED BY <1>4, <1>11 DEF Rendered, TextsOf

(* The halves of a node write the bytes the node wrote.                      *)
LEMMA SplitKeepsBytes ==
  ASSUME IInv, NEW i \in 1..Len(dom), NEW at \in 0..Len(heap[dom[i]].text), Split(i, at)
  PROVE  Rendered' = Rendered
<1> DEFINE t == heap[dom[i]]
           l == LeftHalf(t, at)
           r == RightHalf(t, at)
           p == Len(heap) + 1
           q == Len(heap) + 2
           ids == <<p, q>>
           pair == <<l, r>>
           x == l.text
           y == r.text
<1>0. Len(dom) \in Nat /\ Len(heap) \in Nat /\ heap \in Seq(Nodes) /\ dom \in Seq(1..Len(heap))
  BY MembersHeld DEF Held
<1>1. t \in Nodes /\ t.text \in Seq(Byte)
  BY MembersHeld DEF Nodes
<1>2. l \in Nodes /\ r \in Nodes /\ x \in Seq(Byte) /\ y \in Seq(Byte) /\ t.text = x \o y
  <2>1. l \in Nodes /\ r \in Nodes
    BY <1>1, HalvesTyped
  <2>2. l.text = SubSeq(t.text, 1, at) /\ r.text = SubSeq(t.text, at + 1, Len(t.text))
    BY DEF LeftHalf, RightHalf
  <2>3. x \in Seq(Byte) /\ y \in Seq(Byte)
    BY <2>1 DEF Nodes
  <2>4. SubSeq(t.text, 1, at) \o SubSeq(t.text, at + 1, Len(t.text)) = t.text
    <3> DEFINE s == t.text
    <3>. HIDE DEF s, t, l, r
    <3>1. s \in Seq(Byte) /\ Len(s) \in Nat /\ at \in 0..Len(s)
      BY <1>1 DEF s, t
    <3>2. 1 \in 1..(Len(s) + 1) /\ at \in (1 - 1)..Len(s) /\ Len(s) \in at..Len(s)
      BY <3>1
    <3>3. SubSeq(s, 1, at) \o SubSeq(s, at + 1, Len(s)) = SubSeq(s, 1, Len(s))
      BY <3>1, <3>2, ConcatAdjacentSubSeq
    <3>4. SubSeq(s, 1, Len(s)) = s
      BY <3>1, SubSeqFull
    <3>. QED BY <3>3, <3>4 DEF s
  <2>. QED BY <2>1, <2>2, <2>3, <2>4
<1>3. heap' = heap \o pair /\ dom' = Splice(dom, i, i + 1, ids)
  BY DEF Split
<1>. HIDE DEF l, r
<1>4. pair \in Seq(Nodes) /\ Len(pair) = 2 /\ pair[1] = l /\ pair[2] = r
  BY <1>2
<1>5. SubSeq(dom, i, (i + 1) - 1) = <<dom[i]>>
  <2>. QED BY <1>0, SpanFew
<1>. HIDE DEF pair
<1>6. /\ heap' \in Seq(Nodes) /\ Len(heap') = Len(heap) + 2
      /\ \A k \in 1..Len(heap) : heap'[k] = heap[k]
      /\ heap'[p] = l /\ heap'[q] = r
  <2>2. /\ heap \o pair \in Seq(Nodes)
        /\ Len(heap \o pair) = Len(heap) + Len(pair)
        /\ \A k \in 1..(Len(heap) + Len(pair)) :
             (heap \o pair)[k] = IF k =< Len(heap) THEN heap[k] ELSE pair[k - Len(heap)]
    BY <1>0, <1>4, ConcatProperties
  <2>5. Len(heap) + 1 - Len(heap) = 1 /\ Len(heap) + 2 - Len(heap) = 2
    BY <1>0
  <2>. QED BY <1>0, <1>3, <1>4, <2>2, <2>5
<1>7. TextsOf(heap, SubSeq(dom, i, (i + 1) - 1)) = <<t.text>>
  BY <1>5, TextsFew
<1>8. TextsOf(heap', ids) = <<x, y>>
  <2> DEFINE v == heap'
  <2>1. v[p].text = x /\ v[q].text = y
    BY <1>6
  <2>. HIDE DEF v, p, q, x, y
  <2>2. TextsOf(v, <<p, q>>) = <<x, y>>
    BY <2>1, TextsFew
  <2>. QED BY <2>2 DEF v
<1>. HIDE DEF x, y, t
<1>9. Concatenated(TextsOf(heap, SubSeq(dom, i, (i + 1) - 1))) = Concatenated(TextsOf(heap', ids))
  <2> DEFINE z == t.text
  <2>1. z \in Seq(Byte) /\ z = x \o y
    BY <1>1, <1>2
  <2>2. Concatenated(<<x, y>>) = x \o y
    BY <1>2, ConcatenatedFew
  <2>3. Concatenated(TextsOf(heap, SubSeq(dom, i, (i + 1) - 1))) = Concatenated(<<z>>)
    BY <1>7
  <2>. HIDE DEF z
  <2>4. Concatenated(<<z>>) = z
    BY <2>1, ConcatenatedFew
  <2>. QED BY <1>8, <2>1, <2>2, <2>3, <2>4
<1>10. /\ ids \in Seq(1..Len(heap'))
       /\ Len(heap) =< Len(heap') /\ i \in 1..(Len(dom) + 1) /\ i + 1 \in i..(Len(dom) + 1)
  BY <1>0, <1>6
<1>11. Concatenated(TextsOf(heap', Splice(dom, i, i + 1, ids))) = Concatenated(TextsOf(heap, dom))
  <2> DEFINE h == heap
             v == heap'
             d == dom
             m == ids
             j == i + 1
  <2>1. /\ h \in Seq(Nodes) /\ v \in Seq(Nodes) /\ Len(h) =< Len(v)
        /\ \A n \in 1..Len(h) : v[n] = h[n]
        /\ d \in Seq(1..Len(h)) /\ m \in Seq(1..Len(v))
        /\ i \in 1..(Len(d) + 1) /\ j \in i..(Len(d) + 1)
        /\ Concatenated(TextsOf(h, SubSeq(d, i, j - 1))) = Concatenated(TextsOf(v, m))
    BY <1>0, <1>6, <1>9, <1>10
  <2>. HIDE DEF h, v, d, m, j
  <2>2. Concatenated(TextsOf(v, Splice(d, i, j, m))) = Concatenated(TextsOf(h, d))
    BY <2>1, SpanKeepsBytes
  <2>. QED BY <2>2 DEF h, v, d, m, j
<1>. QED BY <1>3, <1>11 DEF Rendered, TextsOf

(* Split and Merge move boundaries and never a byte of what the document     *)
(* renders (mutate.go:107-204), for nodes of one parse: a merge that slices  *)
(* the source slices what its operands render.                               *)
THEOREM BytesKept == OneParse => (Spec => RestructuringKeepsBytes)
<1> DEFINE Restructuring ==
             \/ \E i \in 1..Len(dom) : Merge(i)
             \/ \E i \in 1..Len(dom) : \E at \in 0..Len(heap[dom[i]].text) : Split(i, at)
<1>1. ASSUME IInv, IInv', Restructuring
      PROVE  Rendered' = Rendered
  BY <1>1, MergeKeepsBytes, SplitKeepsBytes
<1>2. IInv /\ IInv' /\ [Next]_vars => [Restructuring => Rendered' = Rendered]_vars
  BY <1>1
<1>. QED BY <1>2, Invariance, PTL DEF Spec, RestructuringKeepsBytes

---------------------------------------------------------------------------
(* What Line answers.                                                        *)

\* Outside a window, and unless a text was written there, the line index is
\* that of the bytes the document renders.
LineInv ==
  (~mutating /\ ~poisoned /\ ~stray) =>
    lineStart = LineStarts(Rendered) /\ renderedLen = Len(Rendered)

(* Only the return of the outermost call makes an index answer again, and it *)
(* has just been rebuilt.                                                    *)
LEMMA NextKeepsLines ==
  ASSUME IInv, LineInv, [Next]_vars
  PROVE  LineInv'
<1>1. CASE UNCHANGED <<heap, dom, lineStart, renderedLen, mutating, poisoned, stray>>
  BY <1>1 DEF LineInv, Rendered
<1>2. CASE mutating' \/ poisoned' \/ stray'
  BY <1>2 DEF LineInv
<1>3. CASE OuterReturnNil
  <2>1. UNCHANGED <<heap, dom>> /\ lineStart' = LineStarts(Rendered) /\ renderedLen' = Len(Rendered)
    BY <1>3 DEF OuterReturnNil, Rebuild
  <2>2. Rendered' = Rendered
    BY <2>1 DEF Rendered
  <2>. QED BY <2>1, <2>2 DEF LineInv
<1>4. CASE WindowStep
  <2>1. \/ mutating' \/ poisoned' \/ OuterReturnNil
        \/ NestedReturn \/ MutateNested \/ RefusedRead \/ ForeignPanic \/ RecoveredInside \/ UnwindNested
    BY <1>4 DEF WindowStep, MutateOuter, OuterReturnError, UnwindOuter, CloseFailed
  <2>2. \/ mutating' \/ poisoned' \/ OuterReturnNil
        \/ UNCHANGED <<heap, dom, lineStart, renderedLen, mutating, poisoned, stray>>
    BY <2>1 DEF NestedReturn, MutateNested, RefusedRead, ForeignPanic, RecoveredInside,
                UnwindNested, array, indices, window
  <2>. QED BY <1>1, <1>2, <1>3, <2>2
<1>5. CASE EditStep
  <2>1. \/ \E n \in Held, s \in NewTexts : SetText(n, s)
        \/ mutating /\ UNCHANGED window
    BY <1>5 DEF EditStep, Merge, Split, Replace, Insert, Remove, Entering, Editable
  <2>2. mutating' \/ stray'
    <3>1. CASE \E n \in Held, s \in NewTexts : SetText(n, s)
      <4>1. stray' = (stray \/ ~mutating) /\ mutating' = mutating
        BY <3>1 DEF SetText, window
      <4>. QED BY <4>1
    <3>2. CASE mutating /\ UNCHANGED window
      BY <3>2 DEF window
    <3>. QED BY <2>1, <3>1, <3>2
  <2>. QED BY <1>2, <2>2
<1>6. CASE UNCHANGED vars
  BY <1>1, <1>6 DEF vars, array, indices, window
<1>. QED BY <1>4, <1>5, <1>6 DEF Next

(* As long as no text was written outside a window, Line answers for the     *)
(* bytes the document renders now (doc.go:147-166, mutate.go:61-101).        *)
THEOREM LinesTruthful == OneParse => (Spec => []LinesTellTheTruth)
<1>1. Init => LineInv
  BY DEF Init, LineInv
<1>2. IInv /\ LineInv /\ [Next]_vars => LineInv'
  BY NextKeepsLines
<1>3. IInv /\ LineInv => LinesTellTheTruth
  <2>. SUFFICES ASSUME IInv, LineInv, ~mutating, ~poisoned, ~stray
                PROVE  /\ \A offset \in 0..(Len(Rendered) - 1) :
                            Line(offset) = 1 + Cardinality({k \in 1..offset : Rendered[k] = Newline})
                       /\ Line(Len(Rendered)) = 0
    BY DEF LinesTellTheTruth, Refuses
  <2>1. /\ lineStart = LineStarts(Rendered) /\ renderedLen = Len(Rendered)
        /\ Len(Rendered) \in Nat
    BY RenderedIs DEF LineInv
  <2>2. Line(Len(Rendered)) = 0
    BY <2>1 DEF Line
  <2>3. ASSUME NEW offset \in 0..(Len(Rendered) - 1)
        PROVE  Line(offset) = 1 + Cardinality({k \in 1..offset : Rendered[k] = Newline})
    <3> DEFINE ends == {k \in 1..offset : Rendered[k] = Newline}
    <3>1. {start \in lineStart : start =< offset} = ends \cup {0}
      BY <2>1 DEF LineStarts
    <3>2. IsFiniteSet(1..offset) /\ ends \subseteq 1..offset
      BY FS_Interval
    <3>3. IsFiniteSet(ends)
      BY <3>2, FS_Subset
    <3>4. 0 \notin ends
      OBVIOUS
    <3>. HIDE DEF ends
    <3>5. Cardinality(ends \cup {0}) = Cardinality(ends) + 1 /\ Cardinality(ends) \in Nat
      BY <3>3, <3>4, FS_AddElement, FS_CardinalityType
    <3>6. Line(offset) = Cardinality(ends \cup {0})
      <4>1. ~(offset < 0 \/ offset >= renderedLen)
        BY <2>1
      <4>2. Line(offset) = Cardinality({start \in lineStart : start =< offset})
        BY <4>1 DEF Line
      <4>. QED BY <3>1, <4>2
    <3>. QED BY <3>5, <3>6 DEF ends
  <2>. QED BY <2>2, <2>3
<1>. QED BY <1>1, <1>2, <1>3, Invariance, PTL DEF Spec
============================================================================
