--------------------------- MODULE IndentContext ---------------------------
(* The indent context (sdom/indent.go): the layer that owns a document's     *)
(* frame links, derived from its Indent nodes and cached under a stamp.      *)
EXTENDS Doc, Frames

VARIABLES info,         \* IndentContext.info
          built,        \* IndentContext.built
          stamp,        \* IndentContext.stamp
          rewritten     \* history: an Indent was rewritten since the last build

ctxVars == <<info, built, stamp, rewritten>>

docVars == <<heap, dom, dirty, nodeIndex, lineStart, renderedLen, generation,
             mutating, poisoned, depth, raised, stray, edits>>

Array == [i \in 1..Len(dom) |-> [id |-> dom[i], kind |-> heap[dom[i]].kind, text |-> heap[dom[i]].text]]

\* Mutant: an index once built is fresh.
StaleUntilBuilt == ~built

Stale == ~built \/ generation # stamp

\* Parent and Children: refresh, which refuses in a window, then read the index.
ConsultFrames ==
  /\ ~Refuses
  /\ IF Stale
     THEN /\ info' = WalkFrames(Array).info
          /\ stamp' = generation
          /\ built' = TRUE
          /\ rewritten' = FALSE
     ELSE UNCHANGED ctxVars
  /\ UNCHANGED docVars

\* attach: bound to the document, with nothing built and no stamp.
FrameInit ==
  /\ Init
  /\ info = <<>>
  /\ built = FALSE /\ stamp = 0
  /\ rewritten = FALSE

\* The document is edited under the context, which is not told.
DocStep ==
  /\ Next
  /\ rewritten' =
       (rewritten \/ \E n \in Held : heap[n].kind = "Indent" /\ heap'[n].text # heap[n].text)
  /\ UNCHANGED <<info, built, stamp>>

FrameNext == DocStep \/ ConsultFrames

FrameSpec == FrameInit /\ [][FrameNext]_<<docVars, ctxVars>>

---------------------------------------------------------------------------
(* Properties.                                                              *)

\* What Parent and Children may be asked of: the links answer for the array as
\* it stands.
Answering == ~Refuses /\ ~poisoned /\ ~Stale /\ ~rewritten

\* The frame that holds the one at place i: the nearest before it with a
\* strictly smaller column, or the first of all (R185, R188).
Nearest(nodes, i) ==
  LET before  == {j \in FramePlaces(nodes) : j < i}
      smaller == {j \in before : Column(nodes[j].text) < Column(nodes[i].text)}
  IN  IF before = {} THEN NoFrame
      ELSE nodes[IF smaller = {} THEN FE!Min(before) ELSE FE!Max(smaller)].id

\* Parent answers the nearest enclosing column, whatever edits removed, entered
\* or reordered since the parse.
ParentIsNearest ==
  Answering =>
    \A nodes \in {Array} :
      /\ DOMAIN info = {nodes[i].id : i \in FramePlaces(nodes)}
      /\ \A i \in FramePlaces(nodes) : info[nodes[i].id].parent = Nearest(nodes, i)

\* Children lists the frames that answer a parent, each once and in document
\* order (R186).
ChildrenAreListed ==
  Answering =>
    \A f \in DOMAIN info :
      \A listed \in {info[f].children} :
        /\ SE!ToSet(listed) = {n \in DOMAIN info : info[n].parent = f}
        /\ \A i, j \in 1..Len(listed) : i < j => nodeIndex[listed[i]] < nodeIndex[listed[j]]
============================================================================
