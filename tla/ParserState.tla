---------------------------- MODULE ParserState ----------------------------
(* One pass over one source (sdom/parser.go): the position, the live text    *)
(* run, and the nodes emitted so far.  Positions count bytes from 0.  A walk  *)
(* is a record, so that a parser's step composes these operations as the     *)
(* code calls them one after another.                                        *)
EXTENDS Integers, Sequences

CONSTANT Byte

VARIABLES source,   \* ParserState.src
          walk      \* [out, pos, run]: run is the live run's place in out, or 0

NewWalk == [out |-> <<>>, pos |-> 0, run |-> 0]

\* The bytes of the source in [from, to).
Slice(from, to) == SubSeq(source, from + 1, to)

Node(kind, from, to) == [kind |-> kind, at |-> from, text |-> Slice(from, to)]

\* n bytes are consumed as text: they extend the live run, or start one.
Advance(w, n) ==
  IF w.run = 0
  THEN [ out |-> Append(w.out, Node("Text", w.pos, w.pos + n)),
         pos |-> w.pos + n,
         run |-> Len(w.out) + 1 ]
  ELSE [ w EXCEPT !.out[w.run] = Node("Text", w.out[w.run].at, w.pos + n),
                  !.pos = w.pos + n ]

\* A marker of n bytes is appended and advanced past; it ends the live run.
Emit(w, kind, n) ==
  [ out |-> Append(w.out, Node(kind, w.pos, w.pos + n)),
    pos |-> w.pos + n,
    run |-> 0 ]

\* Mutants: one node too many is kept; the run before the dropped nodes is not
\* live again.
RewindShort(w, count, pos) ==
  [out |-> SubSeq(w.out, 1, count + 1), pos |-> pos, run |-> 0]

RewindDead(w, count, pos) ==
  [out |-> SubSeq(w.out, 1, count), pos |-> pos, run |-> 0]

\* Back to count nodes and to pos; a text that ends what is left is live again.
Rewind(w, count, pos) ==
  [ out |-> SubSeq(w.out, 1, count),
    pos |-> pos,
    run |-> IF count > 0 /\ w.out[count].kind = "Text" THEN count ELSE 0 ]
============================================================================
