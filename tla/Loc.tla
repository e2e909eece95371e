------------------------------- MODULE Loc --------------------------------
(* A node's location (sdom/loc.go): where the node was read from, kept apart *)
(* from whether it still renders the bytes there.  The offset is stored      *)
(* biased by one, so that 0 is the absence of provenance.                    *)
EXTENDS Integers

CONSTANTS Origins,      \* the tokens of the parses that exist
          NoOrigin      \* the nil origin: unknown, never different

ASSUME OriginAssumption == NoOrigin \notin Origins

Locs == [ origin  : Origins \cup {NoOrigin},
          offset  : Nat,
          length  : Nat,
          altered : BOOLEAN ]

Source(offset, length) ==
  [origin |-> NoOrigin, offset |-> offset + 1, length |-> length, altered |-> FALSE]

Synthetic(length) ==
  [origin |-> NoOrigin, offset |-> 0, length |-> length, altered |-> FALSE]

In(l, o) == [l EXCEPT !.origin = o]

Offset(l) == l.offset - 1

Faithful(l) == l.offset # 0 /\ ~l.altered

Alter(l) == [l EXCEPT !.altered = TRUE]

FirstKnown(o, p) == IF o = NoOrigin THEN p ELSE o

FirstOffset(m, n) == IF m = 0 THEN n ELSE m

\* The location half of Merge: the leftmost provenance of the merged span,
\* faithful only when both operands are.
MergeLocs(a, b) ==
  [ origin  |-> FirstKnown(a.origin, b.origin),
    offset  |-> FirstOffset(a.offset, b.offset),
    length  |-> a.length + b.length,
    altered |-> /\ FirstOffset(a.offset, b.offset) # 0
                /\ ~(Faithful(a) /\ Faithful(b)) ]

\* The location half of Split.  Neither half names an origin.
SplitLeft(l, at) ==
  [origin |-> NoOrigin, offset |-> l.offset, length |-> at, altered |-> l.altered]

SplitRight(l, at) ==
  [ origin  |-> NoOrigin,
    offset  |-> IF l.offset = 0 THEN 0 ELSE l.offset + at,
    length  |-> l.length - at,
    altered |-> l.altered ]
============================================================================
