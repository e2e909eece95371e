------------------------------ MODULE Stencil -----------------------------
(* A stencil (sdom/stencil.go): the children a builder lays out over one     *)
(* match of a pattern, and the compound they tile (sdom/node.go).  A LEAF is *)
(* a text and where it was read; a COMPOUND's location is derived from its   *)
(* children's whenever it is asked for.                                      *)
EXTENDS Loc, Splice, FiniteSets

CONSTANT Bytes          \* what a text is made of

\* Text.Location.
TextLocation(leaf) == [leaf.loc EXCEPT !.length = Len(leaf.text)]

\* Mutant: the walk over the children stops at the first that is altered.
SummedShort(acc, kid) ==
  IF acc.loc.altered THEN acc
  ELSE [ loc  |-> [acc.loc EXCEPT !.length = @ + kid.length, !.altered = ~Faithful(kid)],
         next |-> Offset(kid) + kid.length ]

\* Compound.Location, one child: lengths are summed to the end; what is
\* altered, or has no provenance, learns nothing more.
Summed(acc, kid) ==
  LET told == ~acc.loc.altered /\ acc.loc.offset # 0
      runs == Faithful(kid) /\ (acc.next < 0 \/ Offset(kid) = acc.next)
  IN  [ loc  |-> [acc.loc EXCEPT !.length = @ + kid.length,
                                 !.altered = @ \/ (told /\ ~runs)],
        next |-> IF told /\ runs THEN Offset(kid) + kid.length ELSE acc.next ]

CompoundLocation(loc, kids) ==
  LET sum[k \in 0..Len(kids)] ==
        IF k = 0 THEN [loc |-> [loc EXCEPT !.length = 0], next |-> Offset(loc)]
        ELSE Summed(sum[k - 1], kids[k])
  IN  sum[Len(kids)].loc

---------------------------------------------------------------------------
(* The builder.  A MATCH is a text, its part [from, to), and the pattern's   *)
(* groups in the order of their opening parentheses: where each took part,   *)
(* and the group it is INSIDE of in the pattern.                             *)

Absent == <<>>

\* The groups that hold a group in the pattern.
Above(match) ==
  LET above[g \in 0..Len(match.groups)] ==
        IF g = 0 THEN {}
        ELSE above[match.groups[g].inside] \cup ({match.groups[g].inside} \ {0})
  IN  above

\* What a pattern that repeats no group promises: a group lies in those that hold
\* it, and is absent with them; one that ends before it in the pattern ends
\* before it in the text.
Captured(match) ==
  /\ match.text \in Seq(Bytes)
  /\ match.to \in 0..Len(match.text) /\ match.from \in 0..match.to
  /\ match.groups \in Seq([at : {Absent} \cup (Nat \X Nat), inside : Nat, kind : STRING])
  /\ \A g \in 1..Len(match.groups) :
       /\ match.groups[g].inside < g
       /\ match.groups[g].at # Absent =>
            /\ match.from =< match.groups[g].at[1]
            /\ match.groups[g].at[1] =< match.groups[g].at[2]
            /\ match.groups[g].at[2] =< match.to
            /\ \A h \in 1..(g - 1) :
                 IF h \in Above(match)[g]
                 THEN /\ match.groups[h].at # Absent
                      /\ match.groups[h].at[1] =< match.groups[g].at[1]
                      /\ match.groups[g].at[2] =< match.groups[h].at[2]
                 ELSE match.groups[h].at # Absent =>
                        match.groups[h].at[2] =< match.groups[g].at[1]

\* An empty group where a group that holds it ends.
TrailsEmpty(match) ==
  \E g \in 1..Len(match.groups) :
    /\ match.groups[g].at # Absent /\ match.groups[g].at[1] = match.groups[g].at[2]
    /\ \E h \in Above(match)[g] : match.groups[h].at[2] = match.groups[g].at[2]

\* span.
SpanIn(base, from, to) ==
  In(IF Offset(base) < 0 THEN Synthetic(to - from) ELSE Source(Offset(base) + from, to - from),
     base.origin)

\* Group: no provenance for a group that took no part.
GroupText(match, g) ==
  IF match.groups[g].at = Absent THEN <<>>
  ELSE SubSeq(match.text, match.groups[g].at[1] + 1, match.groups[g].at[2])

GroupLoc(match, base, g) ==
  IF match.groups[g].at = Absent THEN Synthetic(0)
  ELSE SpanIn(base, match.groups[g].at[1], match.groups[g].at[2])

\* Mutant: a group that touches the one before it is taken for nested.
TakeTouching(match, taken, g) ==
  LET last == IF taken = <<>> THEN match.from ELSE match.groups[taken[Len(taken)]].at[2]
  IN  IF match.groups[g].at = Absent \/ match.groups[g].at[1] =< last THEN taken ELSE Append(taken, g)

Take(match, taken, g) ==
  LET last == IF taken = <<>> THEN match.from ELSE match.groups[taken[Len(taken)]].at[2]
  IN  IF match.groups[g].at = Absent \/ match.groups[g].at[1] < last THEN taken ELSE Append(taken, g)

\* bounds: what breaks the match into children.
Bounds(match, omitted) ==
  LET taken[g \in 0..Len(match.groups)] ==
        IF g = 0 THEN <<>>
        ELSE IF g \in omitted THEN taken[g - 1] ELSE Take(match, taken[g - 1], g)
  IN  taken[Len(match.groups)]

\* Mutant: an empty gap makes a node too.
GlueAlways(match, base, from, to) ==
  << [kind |-> "Glue", text |-> SubSeq(match.text, from + 1, to), loc |-> SpanIn(base, from, to),
      span |-> SpanIn(base, from, to)] >>

Glue(match, base, from, to) ==
  IF from >= to THEN <<>>
  ELSE << [kind |-> "Glue", text |-> SubSeq(match.text, from + 1, to),
           loc |-> SpanIn(base, from, to), span |-> SpanIn(base, from, to)] >>

\* Done: the glue is what the bound groups leave, the tail included.
Laid(match, base, slot, bounds) ==
  LET end(i) == IF i = 0 THEN match.from ELSE match.groups[bounds[i]].at[2]
  IN  Concatenated([i \in 1..Len(bounds) |->
                      Glue(match, base, end(i - 1), match.groups[bounds[i]].at[1])
                      \o <<slot[bounds[i]]>>])
      \o Glue(match, base, end(Len(bounds)), match.to)
============================================================================
