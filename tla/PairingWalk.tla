---------------------------- MODULE PairingWalk ----------------------------
(* The derivation of the links (sdom/context.go, rebuild) one turn of its    *)
(* loop at a time, over an array nothing is known of: edits may leave any    *)
(* marker anywhere, so what the links promise cannot rest on a parse.        *)
EXTENDS Pairing

CONSTANTS Elements,     \* [kind, text] of the nodes an array may hold
          MaxNodes      \* bound: the length of the array

VARIABLES seen,         \* the nodes walked, in order: a node's id is its place
          info,         \* BracketContext.info
          stack         \* the openers not yet closed

walkVars == <<seen, info, stack>>

WalkInit == seen = <<>> /\ info = <<>> /\ stack = <<>>

\* One turn of the loop, at the next node of the array.
Turn(element) ==
  LET n    == [id |-> Len(seen) + 1, kind |-> element.kind, text |-> element.text]
      next == Visit([info |-> Append(info, NoInfo), stack |-> stack], n)
  IN  /\ Len(seen) < MaxNodes
      /\ seen' = Append(seen, n)
      /\ info' = next.info
      /\ stack' = next.stack

WalkNext == \E element \in Elements : Turn(element)

WalkSpec == WalkInit /\ [][WalkNext]_walkVars

---------------------------------------------------------------------------
(* Properties.                                                              *)

Walked == 1..Len(seen)

Paired(o, c) == info[o].closer = c

Pairs == {p \in Walked \X Walked : Paired(p[1], p[2])}

\* Opener and Closer answer each other, whichever is asked, and an opener
\* precedes its closer (R82, R83).
PairsAreMutual ==
  /\ \A o, c \in Walked : Paired(o, c) =>
       o < c /\ seen[o].kind = "Opener" /\ seen[c].kind = "Closer" /\ info[c].opener = o
  /\ \A c \in Walked : seen[c].kind = "Closer" /\ info[c].opener # None => Paired(info[c].opener, c)

\* Groups nest: two never cross, in whatever order markers stand.
PairsNest ==
  \A p, q \in Pairs : ~(p[1] < q[1] /\ q[1] < p[2] /\ p[2] < q[2])

\* Enclosing answers the innermost group: an opener before the node whose group
\* is not closed before it, at or inside every pair around the node (R84).
EnclosingIsInnermost ==
  \A n \in Walked : seen[n].kind # "Closer" =>
    /\ info[n].enclosing # None =>
         /\ info[n].enclosing < n
         /\ info[info[n].enclosing].closer \notin 1..n \ {None}
    /\ \A p \in Pairs : p[1] < n /\ n < p[2] => info[n].enclosing >= p[1]

\* Separators lists an opener's separators once each, in document order, and
\* each answers that opener, both ways it may be asked (R152).
SeparatorsAreMutual ==
  \A o \in Walked :
    LET s == info[o].separators
    IN  /\ \A k \in 1..(Len(s) - 1) : s[k] < s[k + 1]
        /\ {s[k] : k \in 1..Len(s)} =
             {n \in Walked : seen[n].kind = "Separator" /\ info[n].opener = o}
        /\ \A k \in 1..Len(s) : info[s[k]].enclosing = o
============================================================================
