------------------------------- MODULE Doc --------------------------------
(* The document (sdom/doc.go, sdom/mutate.go) over leaf nodes (sdom/node.go):*)
(* a flat array of nodes, two derived indices, a structural generation, and  *)
(* the mutation window that keeps a half-edited document unobservable.       *)
(*                                                                           *)
(* A node is a pointer in the program: here its identity is its place in     *)
(* `heap`, which holds every node the caller holds, in the document or not.  *)
(* Errors an operation returns change nothing and are disabled actions.      *)
EXTENDS Loc, Splice, FiniteSets

CONSTANTS Byte,           \* the bytes texts are made of
          Newline,        \* the byte that ends a line
          DocSource,      \* the source the document was parsed from
          ParseOrigin,    \* the origin of that parse
          Layouts,        \* the arrays a parse may produce: [kind, at, len] spans
          Kinds,          \* the concrete node kinds
          NewTexts,       \* the texts a caller writes
          ForeignNodes,   \* nodes of another parse a caller may hold
          MaxEdits,       \* bound: edits of the document
          MaxDepth        \* bound: nesting of Mutate calls

Spans == [kind : Kinds, at : Nat, len : Nat]

Nodes == [kind : Kinds, text : Seq(Byte), loc : Locs]

\* A layout's spans run contiguously from the first byte to the last.  No code
\* checks it: New expects it of its caller (doc.go:17-19 and 47-48), so it is an
\* assumption here, and a parse keeps it (NodesTile of the parsers).
Tiles(layout) ==
  /\ \A i \in 1..Len(layout) :
       layout[i].at = IF i = 1 THEN 0 ELSE layout[i-1].at + layout[i-1].len
  /\ IF layout = <<>> THEN DocSource = <<>>
     ELSE SE!Last(layout).at + SE!Last(layout).len = Len(DocSource)

ASSUME DocAssumption ==
  /\ DocSource \in Seq(Byte)
  /\ ParseOrigin \in Origins
  /\ "Text" \in Kinds
  /\ Layouts \subseteq Seq(Spans)
  /\ \A layout \in Layouts : Tiles(layout)
  /\ \A layout \in Layouts : \A i \in 1..Len(layout) :
       layout[i].at + layout[i].len =< Len(DocSource)
  /\ NewTexts \subseteq Seq(Byte)
  /\ ForeignNodes \subseteq Nodes

VARIABLES heap,           \* every node made, by identity
          dom,            \* Doc.dom: the identities, in document order
          nodeIndex,      \* Doc.nodeIndex: identity to 0-based position
          lineStart,      \* Doc.lineStart
          renderedLen,    \* Doc.renderedLen
          generation,     \* Doc.generation
          mutating,       \* Doc.mutating
          dirty,          \* Doc.dirty
          poisoned,       \* Doc.poisoned
          depth,          \* Mutate calls of this document on the call stack
          raised,         \* the panic unwinding that stack, if any
          stray,          \* history: a text was written outside any window
          edits           \* edits so far, for the bound

array   == <<heap, dom, dirty>>
indices == <<nodeIndex, lineStart, renderedLen, generation>>
window  == <<mutating, poisoned, depth>>
vars    == <<array, indices, window, raised, stray, edits>>

---------------------------------------------------------------------------
(* Nodes.                                                                   *)

Held == 1..Len(heap)

Members == {dom[i] : i \in 1..Len(dom)}

Read(span) ==
  [ kind |-> span.kind,
    text |-> SubSeq(DocSource, span.at + 1, span.at + span.len),
    loc  |-> In(Source(span.at, span.len), ParseOrigin) ]

\* Location recomputes the length from the bytes.
Location(node) == [node.loc EXCEPT !.length = Len(node.text)]

Rendered == Concatenated([i \in 1..Len(dom) |-> heap[dom[i]].text])

---------------------------------------------------------------------------
(* The derived indices.                                                     *)

\* A node that occurs twice keeps its last position.
IndexMap(d) ==
  [n \in {d[i] : i \in 1..Len(d)} |->
     CHOOSE p \in 0..(Len(d) - 1) :
       /\ d[p + 1] = n
       /\ \A q \in (p + 2)..Len(d) : d[q] # n]

\* The offsets at which a line starts, the sorted slice of the code as a set.
LineStarts(bytes) == {0} \cup {i \in 1..Len(bytes) : bytes[i] = Newline}

\* Mutant: the line index is rebuilt only when membership changed.
RebuildIfDirty(d, bytes) ==
  /\ nodeIndex' = IndexMap(d)
  /\ lineStart' = IF dirty THEN LineStarts(bytes) ELSE lineStart
  /\ renderedLen' = IF dirty THEN Len(bytes) ELSE renderedLen
  /\ generation' = IF dirty THEN generation + 1 ELSE generation
  /\ dirty' = FALSE

\* rebuild: both indices over the array as it stands.
Rebuild(d, bytes) ==
  /\ nodeIndex' = IndexMap(d)
  /\ lineStart' = LineStarts(bytes)
  /\ renderedLen' = Len(bytes)
  /\ generation' = IF dirty THEN generation + 1 ELSE generation
  /\ dirty' = FALSE

---------------------------------------------------------------------------
(* Reads.  Every index-backed read refuses, by panicking, inside a window.  *)

\* Mutant: reads answer inside a window.
RefusesNothing == FALSE

Refuses == mutating

IndexOf(n) == IF n \in DOMAIN nodeIndex THEN nodeIndex[n] ELSE -1

Nil == 0      \* no node

NextNode(n) ==
  LET i == IndexOf(n)
  IN  IF i < 0 \/ i + 1 >= Len(dom) THEN Nil ELSE dom[i + 2]

PrevNode(n) ==
  LET i == IndexOf(n)
  IN  IF i =< 0 THEN Nil ELSE dom[i]

Line(offset) ==
  IF offset < 0 \/ offset >= renderedLen THEN 0
  ELSE Cardinality({start \in lineStart : start =< offset})

---------------------------------------------------------------------------
(* The window.                                                              *)

Calm == raised = "none"

\* Mutant: a poisoned document opens a window.
MutateOuterUnchecked ==
  /\ Calm /\ ~mutating
  /\ mutating' = TRUE
  /\ depth' = 1
  /\ UNCHANGED <<array, indices, poisoned, raised, stray, edits>>

MutateOuter ==
  /\ Calm /\ ~poisoned /\ ~mutating
  /\ mutating' = TRUE
  /\ depth' = 1
  /\ UNCHANGED <<array, indices, poisoned, raised, stray, edits>>

\* A nested call passes through: its f runs in the outer window.
MutateNested ==
  /\ Calm /\ ~poisoned /\ mutating /\ depth < MaxDepth
  /\ depth' = depth + 1
  /\ UNCHANGED <<array, indices, mutating, poisoned, raised, stray, edits>>

\* Mutants: the nested return closes the outer window, and is not told apart
\* from the outermost one.
NestedReturnCloses ==
  /\ Calm /\ depth > 1
  /\ mutating' = FALSE
  /\ depth' = depth - 1
  /\ UNCHANGED <<array, indices, poisoned, raised, stray, edits>>

NestedReturnUnguarded ==
  /\ Calm /\ mutating
  /\ depth' = depth - 1
  /\ UNCHANGED <<array, indices, mutating, poisoned, raised, stray, edits>>

\* A nested f returned, with an error or without: the call hands that to the
\* enclosing f, which handles it or goes on to return an error of its own.
NestedReturn ==
  /\ Calm /\ depth > 1
  /\ depth' = depth - 1
  /\ UNCHANGED <<array, indices, mutating, poisoned, raised, stray, edits>>

OuterReturnNil ==
  /\ Calm /\ depth = 1
  /\ mutating' = FALSE
  /\ depth' = 0
  /\ Rebuild(dom, Rendered)
  /\ stray' = FALSE
  /\ UNCHANGED <<heap, dom, poisoned, raised, edits>>

\* The failing exits of the outermost call: neither index is rebuilt.
CloseFailed ==
  /\ mutating' = FALSE
  /\ poisoned' = TRUE
  /\ depth' = 0
  /\ UNCHANGED <<array, indices, stray, edits>>

OuterReturnError ==
  /\ Calm /\ depth = 1
  /\ CloseFailed
  /\ UNCHANGED raised

\* Code run by f panics: a guarded read refuses, or the panic is its own.
RefusedRead ==
  /\ Calm /\ Refuses
  /\ raised' = "inMutation"
  /\ UNCHANGED <<array, indices, window, stray, edits>>

ForeignPanic ==
  /\ Calm /\ mutating
  /\ raised' = "foreign"
  /\ UNCHANGED <<array, indices, window, stray, edits>>

\* f recovers its own panic before it leaves f.
RecoveredInside ==
  /\ ~Calm
  /\ raised' = "none"
  /\ UNCHANGED <<array, indices, window, stray, edits>>

UnwindNested ==
  /\ ~Calm /\ depth > 1
  /\ depth' = depth - 1
  /\ UNCHANGED <<array, indices, mutating, poisoned, raised, stray, edits>>

\* The outermost call's deferred function: a refusal becomes an error, another
\* panic is raised again in the caller.
UnwindOuter ==
  /\ ~Calm /\ depth = 1
  /\ CloseFailed
  /\ raised' = "none"

---------------------------------------------------------------------------
(* Edits.                                                                   *)

Editable == ~poisoned /\ mutating

\* Every edit takes one of the MaxEdits.
Counted == edits < MaxEdits /\ edits' = edits + 1

\* Mutant: the rewritten node is not marked altered.
RewrittenUnmarked(t, s) == [t EXCEPT !.text = s]

\* An altered node keeps its offset.
Rewritten(t, s) == [t EXCEPT !.text = s, !.loc = Alter(@)]

\* SetText, on any node that embeds Text, in a window or out of one.
SetText(n, s) ==
  /\ Calm /\ Counted
  /\ heap' = [heap EXCEPT ![n] = Rewritten(heap[n], s)]
  /\ stray' = (stray \/ ~mutating)
  /\ UNCHANGED <<dom, dirty, indices, window, raised>>

\* Mutant: two nodes that touch in the array are joined, whatever lay between.
AdjacentUnchecked(la, lb) == TRUE

Adjacent(la, lb) ==
  (Faithful(la) /\ Faithful(lb)) => Offset(la) + la.length = Offset(lb)

\* Two faithful operands are one contiguous span of the source: it is sliced.
\* (A span past the source would panic; no node of this parse names one.)
MergedText(a, b) ==
  LET la == Location(a)
      lb == Location(b)
  IN  IF Faithful(la) /\ Faithful(lb)
      THEN SubSeq(DocSource, Offset(la) + 1, Offset(lb) + lb.length)
      ELSE a.text \o b.text

Mergeable(i) ==
  /\ i < Len(dom)
  /\ heap[dom[i]].kind = "Text" /\ heap[dom[i+1]].kind = "Text"
  /\ Adjacent(Location(heap[dom[i]]), Location(heap[dom[i+1]]))

Merged(a, b) ==
  [ kind |-> "Text",
    text |-> MergedText(a, b),
    loc  |-> MergeLocs(Location(a), Location(b)) ]

Merge(i) ==
  /\ Calm /\ Editable /\ Counted /\ Mergeable(i)
  /\ heap' = Append(heap, Merged(heap[dom[i]], heap[dom[i+1]]))
  /\ dom' = Splice(dom, i, i + 2, <<Len(heap) + 1>>)
  /\ dirty' = TRUE
  /\ UNCHANGED <<indices, window, raised, stray>>

LeftHalf(t, at) ==
  [ kind |-> "Text", text |-> SubSeq(t.text, 1, at),
    loc |-> SplitLeft(Location(t), at) ]

\* Mutant: the right half starts one byte late.
RightHalfLate(t, at) ==
  [ kind |-> "Text", text |-> SubSeq(t.text, at + 2, Len(t.text)),
    loc |-> SplitRight(Location(t), at) ]

RightHalf(t, at) ==
  [ kind |-> "Text", text |-> SubSeq(t.text, at + 1, Len(t.text)),
    loc |-> SplitRight(Location(t), at) ]

\* A zero-length half is allowed: at runs from 0 to the node's length.
Split(i, at) ==
  /\ Calm /\ Editable /\ Counted
  /\ heap[dom[i]].kind = "Text"
  /\ at =< Len(heap[dom[i]].text)
  /\ heap' = heap \o <<LeftHalf(heap[dom[i]], at), RightHalf(heap[dom[i]], at)>>
  /\ dom' = Splice(dom, i, i + 1, <<Len(heap) + 1, Len(heap) + 2>>)
  /\ dirty' = TRUE
  /\ UNCHANGED <<indices, window, raised, stray>>

\* What a caller may make to put into the array: new material, a typed node in
\* place of a leaf (same bytes, same location), or a node of another parse.
Synthesized ==
  [kind : Kinds, text : NewTexts, loc : {Synthetic(0)}]

Retyped(n) == {[heap[n] EXCEPT !.kind = k] : k \in Kinds}

\* The node to enter: one just made, or one the caller still holds from before.
\* Callers do not enter a node that is already in the array.
Entering(n, made) ==
  /\ Calm /\ Editable /\ Counted
  /\ \/ /\ n = Len(heap) + 1
        /\ \E node \in made : heap' = Append(heap, node)
     \/ /\ n \in Held \ Members
        /\ heap' = heap

Replace(i, n) ==
  /\ Entering(n, Synthesized \cup Retyped(dom[i]) \cup ForeignNodes)
  /\ dom' = [dom EXCEPT ![i] = n]
  /\ dirty' = TRUE
  /\ UNCHANGED <<indices, window, raised, stray>>

\* Before the i-th node, or at the end.
Insert(i, n) ==
  /\ Entering(n, Synthesized \cup ForeignNodes)
  /\ dom' = Splice(dom, i, i, <<n>>)
  /\ dirty' = TRUE
  /\ UNCHANGED <<indices, window, raised, stray>>

\* Mutant: the removal is not noted as a membership change.
RemoveUnnoted(i) ==
  /\ Calm /\ Editable /\ Counted
  /\ dom' = Splice(dom, i, i + 1, <<>>)
  /\ UNCHANGED <<heap, dirty, indices, window, raised, stray>>

Remove(i) ==
  /\ Calm /\ Editable /\ Counted
  /\ dom' = Splice(dom, i, i + 1, <<>>)
  /\ dirty' = TRUE
  /\ UNCHANGED <<heap, indices, window, raised, stray>>

---------------------------------------------------------------------------
\* New: oneParse passes, the nodes come from one parse.
Init ==
  /\ \E layout \in Layouts :
       /\ heap = [i \in 1..Len(layout) |-> Read(layout[i])]
       /\ dom = [i \in 1..Len(layout) |-> i]
  /\ nodeIndex = IndexMap(dom)
  /\ lineStart = LineStarts(Rendered)
  /\ renderedLen = Len(Rendered)
  /\ generation = 0
  /\ mutating = FALSE /\ dirty = FALSE /\ poisoned = FALSE
  /\ depth = 0
  /\ raised = "none"
  /\ stray = FALSE
  /\ edits = 0

WindowStep ==
  \/ MutateOuter
  \/ MutateNested
  \/ NestedReturn
  \/ OuterReturnNil
  \/ OuterReturnError
  \/ RefusedRead
  \/ ForeignPanic
  \/ RecoveredInside
  \/ UnwindNested
  \/ UnwindOuter

EditStep ==
  \/ \E n \in Held, s \in NewTexts : SetText(n, s)
  \/ \E i \in 1..Len(dom) : Merge(i)
  \/ \E i \in 1..Len(dom) : \E at \in 0..Len(heap[dom[i]].text) : Split(i, at)
  \/ \E i \in 1..Len(dom), n \in 1..(Len(heap) + 1) : Replace(i, n)
  \/ \E i \in 1..(Len(dom) + 1), n \in 1..(Len(heap) + 1) : Insert(i, n)
  \/ \E i \in 1..Len(dom) : Remove(i)

Next == WindowStep \/ EditStep

Spec == Init /\ [][Next]_vars

---------------------------------------------------------------------------
(* Properties.                                                              *)

\* The types of the variables, but for the line index, whose values
\* LinesTellTheTruth compares with the rendered bytes.
TypeOK ==
  /\ heap \in Seq(Nodes)
  /\ dom \in Seq(Held)
  /\ DOMAIN nodeIndex \subseteq Held
  /\ \A n \in DOMAIN nodeIndex : nodeIndex[n] \in Nat
  /\ generation \in Nat
  /\ mutating \in BOOLEAN /\ dirty \in BOOLEAN
  /\ poisoned \in BOOLEAN /\ stray \in BOOLEAN
  /\ depth \in Nat
  /\ edits \in Nat
  /\ raised \in {"none", "inMutation", "foreign"}

\* A node that claims to be faithful lies within the source and renders the
\* span at its offset.
RendersSource(n) ==
  LET l == Location(n)
  IN  Faithful(l) =>
        /\ Offset(l) + l.length =< Len(DocSource)
        /\ \A k \in 1..l.length : n.text[k] = DocSource[Offset(l) + k]

\* A faithful node renders exactly the source span at its offset, whatever was
\* split, merged, rewritten or entered before (Loc.Faithful).
FaithfulRenders == \A n \in Held : RendersSource(heap[n])

\* Split and Merge move boundaries and never a byte of the rendered document.
RestructuringKeepsBytes ==
  [][ \/ \E i \in 1..Len(dom) : Merge(i)
      \/ \E i \in 1..Len(dom) : \E at \in 0..Len(heap[dom[i]].text) : Split(i, at)
      => Rendered' = Rendered ]_vars

\* Whether Merge slices the source or joins two texts is not observable in the
\* bytes it makes, for any two nodes it may be asked to join.
MergePathUnobservable ==
  \A i \in 1..Len(dom) :
    Mergeable(i) =>
      MergedText(heap[dom[i]], heap[dom[i+1]]) = heap[dom[i]].text \o heap[dom[i+1]].text

\* Whatever IndexOf, Next and Prev answer, the array says the same: they refuse
\* while the indices and the array may differ.
ReadsTellTheTruth ==
  (~Refuses /\ ~poisoned) =>
    /\ \A n \in Held \ Members : IndexOf(n) = -1
    /\ \A p \in 1..Len(dom) : IndexOf(dom[p]) = p - 1
    /\ \A p \in 1..Len(dom) :
         /\ NextNode(dom[p]) = IF p = Len(dom) THEN Nil ELSE dom[p + 1]
         /\ PrevNode(dom[p]) = IF p = 1 THEN Nil ELSE dom[p - 1]

\* Line answers for the bytes the document renders now, unless a text was
\* written outside a window since the indices were last built.
LinesTellTheTruth ==
  (~Refuses /\ ~poisoned /\ ~stray) =>
    /\ \A offset \in 0..(Len(Rendered) - 1) :
         Line(offset) = 1 + Cardinality({k \in 1..offset : Rendered[k] = Newline})
    /\ Line(Len(Rendered)) = 0

\* The window stays open as long as any Mutate call is on the stack: a nested
\* call that returns or unwinds does not close it under the outer one.
WindowOutlivesNesting == mutating <=> depth > 0

\* A failed mutation is final: the document stays poisoned and neither its
\* array nor what its indices answer moves again.
PoisonIsForever ==
  [][poisoned => poisoned' /\ UNCHANGED <<dom, nodeIndex, generation>>]_vars

\* The document implements the versioned order its layers rely on.
VO == INSTANCE VersionedOrder WITH
        order <- nodeIndex, version <- generation,
        open <- mutating, dead <- poisoned

VersionsOrder == VO!Spec
============================================================================
