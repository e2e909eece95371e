------------------------------- MODULE Fields -----------------------------
(* A schema at work on one match: it fills or omits the groups it bound, in  *)
(* any order, takes the children, and later writes through the typed fields  *)
(* it kept (sdom/bound.go, sdom/list.go).                                    *)
EXTENDS Stencil, Lists

LOCAL INSTANCE SequencesExt

CONSTANTS Matches,      \* [text, from, to, groups], each group [at, inside, kind]
          Bases,        \* where the text may sit: in a document, or nowhere
          Texts,        \* what a tool writes into a text,
          ItemLists,    \* into a list,
          RefLists      \* and into a list of refs

ASSUME FieldsAssumption ==
  /\ Bases \subseteq Locs
  /\ \A m \in Matches : Captured(m)
  /\ {"x", " "} \subseteq Bytes
  /\ Texts \subseteq Seq(Bytes)
  /\ \A items \in ItemLists : Joined(items) \in Seq(Bytes)
  /\ \A ns \in RefLists : RequirementText(ns) \in Seq(Bytes)

VARIABLES match, base,
          slot,         \* StencilBuilder.slot: group -> node
          omitted,      \* StencilBuilder.omit
          phase,        \* "laying", then "built", or "refused" by a panic
          kids          \* what Done returned

fieldVars == <<match, base, slot, omitted, phase, kids>>

Groups == 1..Len(match.groups)

Nil == [kind |-> "Nil"]

Location(node) ==
  IF node.kind \in {"List", "Refs"} THEN CompoundLocation(node.span, <<TextLocation(node)>>)
  ELSE TextLocation(node)

\* The node a schema makes of a group: a Text, which a Bool views, or a list of
\* what its parser takes from the head of the group.
Node(kind, g) ==
  LET text == GroupText(match, g)
      loc  == GroupLoc(match, base, g)
      n    == IF kind \in {"List", "Refs"} THEN Listed(text, kind) ELSE 0
  IN  IF n > 0 THEN [kind |-> kind, text |-> SubSeq(text, 1, n), loc |-> SpanIn(loc, 0, n), span |-> SpanIn(loc, 0, n)]
      ELSE [kind |-> IF kind = "Bool" THEN kind ELSE "Text", text |-> text, loc |-> loc, span |-> loc]

FieldInit ==
  /\ match \in Matches
  /\ base \in Bases
  /\ slot = [g \in Groups |-> Nil]
  /\ omitted = {}
  /\ phase = "laying"
  /\ kids = <<>>

\* A schema may bind the wrong group's node.
Put(g, h) ==
  /\ phase = "laying"
  /\ slot' = [slot EXCEPT ![g] = Node(match.groups[g].kind, h)]
  /\ UNCHANGED <<match, base, omitted, phase, kids>>

Omit(g) ==
  /\ phase = "laying"
  /\ omitted' = omitted \cup {g}
  /\ UNCHANGED <<match, base, slot, phase, kids>>

GroupSpan(g) == SpanIn(base, match.groups[g].at[1], match.groups[g].at[2])

Fits(g) == slot[g] # Nil /\ Location(slot[g]) = GroupSpan(g)

Done ==
  /\ phase = "laying"
  /\ \E bounds \in {Bounds(match, omitted)} :
       IF \A i \in 1..Len(bounds) : Fits(bounds[i])
       THEN phase' = "built" /\ kids' = Laid(match, base, slot, bounds)
       ELSE phase' = "refused" /\ UNCHANGED kids
  /\ UNCHANGED <<match, base, slot, omitted>>

---------------------------------------------------------------------------
(* Writes through the fields.                                               *)

Rewritten(kid, bytes) == [kid EXCEPT !.text = bytes, !.loc = Alter(@)]

Write(k, bytes) ==
  /\ kids' = [kids EXCEPT ![k] = Rewritten(@, bytes)]
  /\ UNCHANGED <<match, base, slot, omitted, phase>>

SetText(k, bytes) == kids[k].kind = "Text" /\ Write(k, bytes)

\* Bool.Value.
Checked(literal) == Trim(literal) \in {<<"x">>, <<"X">>}

\* A value already held is not written again.
SetBool(k, v) ==
  /\ kids[k].kind = "Bool" /\ Checked(kids[k].text) # v
  /\ Write(k, IF v THEN <<"x">> ELSE <<" ">>)

Acceptable == {items \in ItemLists : Accepts(items)}

SetItems(k, items) == kids[k].kind = "List" /\ items \in Acceptable /\ Write(k, Joined(items))

SetRefs(k, ns) == kids[k].kind = "Refs" /\ Write(k, RequirementText(ns))

FieldNext ==
  \/ \E g \in Groups, h \in Groups : Put(g, h)
  \/ \E g \in Groups : Omit(g)
  \/ Done
  \/ \E k \in 1..Len(kids) :
       \/ \E bytes \in Texts : SetText(k, bytes)
       \/ \E v \in BOOLEAN : SetBool(k, v)
       \/ \E items \in ItemLists : SetItems(k, items)
       \/ \E ns \in RefLists : SetRefs(k, ns)

FieldSpec == FieldInit /\ [][FieldNext]_fieldVars

---------------------------------------------------------------------------
(* Properties.                                                              *)

\* The groups that hold g in the pattern, took part and were not omitted.
Holders(g) == {h \in Above(match)[g] \ omitted : match.groups[h].at # Absent}

\* What the schema owes a node for: a group that took part, that it did not omit,
\* and that no such group holds.
Owed == {g \in Groups : match.groups[g].at # Absent /\ g \notin omitted /\ Holders(g) = {}}

\* Done refuses for the schema's faults and for no other reason: a group left
\* unfilled, or a node that does not span its group (R99, R106, R109).
DoneRefusesFaultsOnly ==
  phase # "laying" => (phase = "refused" <=> \E g \in Owed : ~Fits(g))

Rendered == Concatenated([k \in 1..Len(kids) |-> kids[k].text])

Spans == [k \in 1..Len(kids) |-> Location(kids[k])]

\* Laid out, the children are the match again, byte for byte and span by span,
\* the fields are the groups owed, and no glue is empty or in two (R104, R117).
\* Without provenance a span tells its length alone, so the bytes are not told.
ChildrenTileTheMatch ==
  (phase = "built" /\ \A k \in 1..Len(kids) : ~kids[k].loc.altered) =>
    /\ base.offset # 0 => Rendered = SubSeq(match.text, match.from + 1, match.to)
    /\ CompoundLocation(SpanIn(base, match.from, match.to), Spans) = SpanIn(base, match.from, match.to)
    /\ Cardinality({k \in 1..Len(kids) : kids[k].kind # "Glue"}) = Cardinality(Owed)
    /\ \A k \in 1..Len(kids) : kids[k].kind = "Glue" =>
         /\ kids[k].text # <<>>
         /\ k < Len(kids) => kids[k + 1].kind # "Glue"

\* Whatever was written, the stencil tells its extent, keeps its offset, and is
\* faithful just when nothing in it was rewritten (R16, R28).
AlterationIsTold ==
  phase = "built" =>
    \A l \in {CompoundLocation(SpanIn(base, match.from, match.to), Spans)} :
      /\ l.length = Len(Rendered)
      /\ Offset(l) = Offset(SpanIn(base, match.from, match.to))
      /\ Faithful(l) <=> /\ base.offset # 0
                         /\ \A k \in 1..Len(kids) : ~kids[k].loc.altered

\* A write that is taken reads back as what was written, and what is written of
\* refs parses whole (R112, R113, R203, R205).
WritesReadBack ==
  [][\A k \in 1..Len(kids) :
       /\ \A v \in BOOLEAN : SetBool(k, v) => Checked(kids'[k].text) = v
       /\ \A items \in ItemLists : SetItems(k, items) => Items(kids'[k].text) = items
       /\ \A ns \in RefLists : SetRefs(k, ns) =>
            /\ Refs(kids'[k].text) = SetToSortSeq(ToSet(ns), <)
            /\ ns # <<>> => Listed(kids'[k].text, "Refs") = Len(kids'[k].text)]_fieldVars
============================================================================
