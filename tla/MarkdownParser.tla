--------------------------- MODULE MarkdownParser --------------------------
(* The markdown wrapper (sdom/schema/markdown.go): it delegates first, and   *)
(* where its delegate did nothing at a line head it emits the marker that    *)
(* stands there.  The indent parser's document is the one without markers.   *)
EXTENDS IndentParser

CONSTANT HeadingMax       \* headingRe's six

Headings == {Append([k \in 1..n |-> "#"], " ") : n \in 1..HeadingMax}

ListItems == {<<"-", " ">>}

Checkboxes == {<<"[", " ", "]">>, <<"[", "x", "]">>}

\* No line-head marker shares a first byte with an opener (R231).
ASSUME MarkdownAssumption ==
  /\ HeadingMax \in Nat
  /\ \A m \in Headings \cup ListItems \cup Checkboxes :
       \A b \in SQE!ToSet(Brackets) : \A o \in b.open : o[1] # m[1]

MarkersAt(kind, marks, pos) == {[kind |-> kind, mark |-> m] : m \in {k \in marks : Occurs(k, pos)}}

\* A text that ends in a newline, blanks after it aside.
EndsLine(text) ==
  \E k \in 1..Len(text) :
    text[k] = Newline /\ \A j \in (k + 1)..Len(text) : text[j] \in Blanks

\* Mutant: an indented line at an unchanged level is not seen.
LastEndsLineBare(last) ==
  \/ last.kind = "Indent"
  \/ last.kind = "Text" /\ SQE!Last(last.text) = Newline

\* lineHead.
LastEndsLine(last) ==
  \/ last.kind = "Indent"
  \/ last.kind = "Text" /\ EndsLine(last.text)

\* head: the marker at the position, if any.
Heads(last) ==
  IF last.kind = "ListItem" THEN MarkersAt("Checkbox", Checkboxes, walk.pos)
  ELSE IF LastEndsLine(last)
  THEN MarkersAt("Heading", Headings, walk.pos) \cup MarkersAt("ListItem", ListItems, walk.pos)
  ELSE {}

\* The delegate neither moved nor emitted.
Declined == Offered /\ walk.out # <<>> /\ ~Announces /\ Read = OneByte

Marking == Declined /\ Heads(SQE!Last(walk.out)) # {}

MarkHead ==
  /\ Declined
  /\ \E h \in Heads(SQE!Last(walk.out)) : walk' = Emit(walk, h.kind, Len(h.mark))
  /\ UNCHANGED <<source, stack, demoted, linked, levels>>

MarkdownNext == MarkHead \/ (~Marking /\ IndentNext)

MarkdownSpec == IndentInit /\ [][MarkdownNext]_indentVars /\ WF_indentVars(MarkdownNext)

---------------------------------------------------------------------------
(* Properties.                                                              *)

\* A line begins at p, blanks aside, by the bytes alone: none of the blanks
\* before p is in a group, and neither is the newline before them.
HeadsLine(info, p) ==
  \E start \in LineStarts :
    /\ start =< p /\ \A k \in (start + 1)..p : source[k] \in Blanks
    /\ \A i \in {NodeAt(start - 1)} : walk.out[i].kind = "Text" /\ info[i].enclosing = None

ExpectedAt(info, p) ==
  IF p = 0 \/ HeadsLine(info, p)
  THEN MarkersAt("Heading", Headings, p) \cup MarkersAt("ListItem", ListItems, p)
  ELSE IF p > 1 /\ Occurs(<<"-", " ">>, p - 2) /\ (p = 2 \/ HeadsLine(info, p - 2))
  THEN MarkersAt("Checkbox", Checkboxes, p)
  ELSE {}

\* Every line head of the finished array carries its marker, and nothing else
\* does: in no group, whatever was demoted before it, indented or not (R229,
\* R230, R232).  A newline that ends a group, as no group of markdown does,
\* begins no line, and neither do blanks at the start of the source.
LineHeadsAreMarked ==
  Finished =>
    \A info \in {Derived} :
      {<<walk.out[i].at, walk.out[i].kind, walk.out[i].text>> :
         i \in {k \in Places : walk.out[k].kind \in {"Heading", "ListItem", "Checkbox"}}}
      = UNION {{<<p, h.kind, h.mark>> : h \in ExpectedAt(info, p)} :
                 p \in {q \in 0..(Len(source) - 1) :
                          \A i \in {NodeAt(q)} : info[i].enclosing = None}}
============================================================================
