------------------------------- MODULE Frames ------------------------------
(* Columns and the frames they imply (sdom/indent.go): what the parse of     *)
(* indentation and the derivation of its links have in common, and the       *)
(* derivation, a walk of the Indent nodes with a stack of open columns.      *)
EXTENDS Integers, Sequences

FE == INSTANCE FiniteSetsExt

CONSTANTS Tab,          \* IndentLang.Tab
          TabByte

ASSUME FramesAssumption == Tab \in Int

\* A tab advances to the next multiple of Tab.
NextColumn(col, blank) ==
  IF blank = TabByte /\ Tab > 0 THEN col + (Tab - (col % Tab)) ELSE col + 1

Column(ws) ==
  LET col[k \in 0..Len(ws)] == IF k = 0 THEN 0 ELSE NextColumn(col[k - 1], ws[k])
  IN  col[Len(ws)]

\* How many open columns a line at col leaves open: those at or past it close,
\* from the innermost, but never the first.
Kept(cols, col) ==
  IF cols = <<>> THEN 0 ELSE FE!Max({k \in 1..Len(cols) : k = 1 \/ cols[k] < col})

NoFrame == 0

NoLinks == [parent |-> NoFrame, children |-> <<>>]

Columns(stack) == [k \in 1..Len(stack) |-> stack[k].col]

\* What a frame at col leaves open of a stack of frames.
LeftOpen(stack, col) == SubSeq(stack, 1, Kept(Columns(stack), col))

\* Mutant: the parent is not told.
PlaceUnlisted(walk, frame) ==
  LET left == LeftOpen(walk.stack, frame.col)
  IN  [ info  |-> IF left = <<>> THEN walk.info
                  ELSE [walk.info EXCEPT ![frame.id].parent = left[Len(left)].id],
        stack |-> Append(left, frame) ]

\* The innermost frame left open is the parent.
Place(walk, frame) ==
  LET left == LeftOpen(walk.stack, frame.col)
  IN  [ info  |-> IF left = <<>> THEN walk.info
                  ELSE [walk.info EXCEPT
                          ![left[Len(left)].id].children = Append(@, frame.id),
                          ![frame.id].parent = left[Len(left)].id],
        stack |-> Append(left, frame) ]

\* One turn of the loop, over a node as [id, kind, text].
VisitNode(walk, node) ==
  IF node.kind # "Indent" THEN walk
  ELSE Place(walk, [id |-> node.id, col |-> Column(node.text)])

FramePlaces(nodes) == {i \in 1..Len(nodes) : nodes[i].kind = "Indent"}

\* The whole walk, from an empty index and an empty stack.
WalkFrames(nodes) ==
  LET walk[k \in 0..Len(nodes)] ==
        IF k = 0
        THEN [info |-> [id \in {nodes[i].id : i \in FramePlaces(nodes)} |-> NoLinks], stack |-> <<>>]
        ELSE VisitNode(walk[k - 1], nodes[k])
  IN  walk[Len(nodes)]
============================================================================
