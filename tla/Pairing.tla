------------------------------ MODULE Pairing -----------------------------
(* The one derivation of the bracket links (sdom/context.go, rebuild): a     *)
(* walk of the flat array with a stack of open groups, resolving each group  *)
(* from the text of its opener.  What it reads of the document is a SHAPE: a *)
(* sequence of [id, kind, text], the text of bracket markers only.           *)
EXTENDS BracketTable

SQE == INSTANCE SequencesExt

None == 0       \* no node

\* BracketInfo, but for the declaration, which the walk does not derive.
NoInfo == [opener |-> None, closer |-> None, enclosing |-> None, separators |-> <<>>]

Closes(open, closer) ==
  /\ GroupOf(open.text) # NoGroup
  /\ Ends(Brackets[GroupOf(open.text)], open.text, closer.text)

Rejects(open, closer) ==
  /\ GroupOf(open.text) # NoGroup
  /\ Overlong(Brackets[GroupOf(open.text)], open.text, closer.text)

CodeMode(open) ==
  /\ GroupOf(open.text) # NoGroup
  /\ ~Brackets[GroupOf(open.text)].restricted

\* The nearest opener below the top that closer closes, searching only through
\* groups in code mode, the top one included.
EnclosingCloses(stack, closer) ==
  LET found == {j \in 1..(Len(stack) - 1) :
                  /\ Closes(stack[j], closer)
                  /\ \A k \in (j + 1)..Len(stack) : CodeMode(stack[k])}
  IN  IF found = {} THEN 0 ELSE FSE!Max(found)

\* Mutant: only the opener learns of the pair.
PairOneWay(info, open, closer) == [info EXCEPT ![open.id].closer = closer.id]

Pair(info, open, closer) ==
  [info EXCEPT ![open.id].closer = closer.id, ![closer.id].opener = open.id]

\* Mutant: the opener does not learn of its separators.
EncloseUnlisted(info, n, open) ==
  IF n.kind = "Separator"
  THEN [info EXCEPT ![n.id].enclosing = open.id, ![n.id].opener = open.id]
  ELSE [info EXCEPT ![n.id].enclosing = open.id]

\* A separator learns its opener twice, and its opener learns it.
Enclose(info, n, open) ==
  IF n.kind = "Separator"
  THEN [info EXCEPT ![n.id].enclosing = open.id,
                    ![n.id].opener = open.id,
                    ![open.id].separators = Append(@, n.id)]
  ELSE [info EXCEPT ![n.id].enclosing = open.id]

\* Mutants: a paired opener stays open; the openers above an enclosing group
\* that ended stay open.
AtCloserStillOpen(info, stack, n) ==
  [ info  |-> IF stack # <<>> /\ Closes(SQE!Last(stack), n)
              THEN Pair(info, SQE!Last(stack), n) ELSE info,
    stack |-> stack ]

AtCloserSkipping(info, stack, n) ==
  LET ended == {j \in 1..Len(stack) : Closes(stack[j], n)}
  IN  IF ended = {} THEN [info |-> info, stack |-> stack]
      ELSE [ info  |-> Pair(info, stack[FSE!Max(ended)], n),
             stack |-> SQE!RemoveAt(stack, FSE!Max(ended)) ]

AtCloser(info, stack, n) ==
  LET open == SQE!Last(stack)
      j    == EnclosingCloses(stack, n)
  IN  IF stack = <<>> THEN [info |-> info, stack |-> stack]
      ELSE IF Closes(open, n)
           THEN [info |-> Pair(info, open, n), stack |-> SQE!Front(stack)]
      ELSE IF Rejects(open, n)
           THEN [info |-> info, stack |-> SQE!Front(stack)]
      ELSE IF j > 0
           THEN [info |-> Pair(info, stack[j], n), stack |-> SubSeq(stack, 1, j - 1)]
      ELSE [info |-> info, stack |-> stack]

AtOther(info, stack, n) ==
  [ info  |-> IF stack = <<>> THEN info ELSE Enclose(info, n, SQE!Last(stack)),
    stack |-> IF n.kind = "Opener" THEN Append(stack, n) ELSE stack ]

\* One turn of the loop.
Visit(walk, n) ==
  IF n.kind = "Closer" THEN AtCloser(walk.info, walk.stack, n)
  ELSE AtOther(walk.info, walk.stack, n)

\* The whole walk of a shape, from empty maps and an empty stack.
WalkOf(shape) ==
  LET walked[k \in 0..Len(shape)] ==
        IF k = 0
        THEN [info |-> [n \in {shape[i].id : i \in 1..Len(shape)} |-> NoInfo], stack |-> <<>>]
        ELSE Visit(walked[k - 1], shape[k])
  IN  walked

\* The links of a shape.
Derive(shape) == WalkOf(shape)[Len(shape)].info
============================================================================
