-------------------------- MODULE DeclarationPass -------------------------
(* What the declaration schemas share (sdom/schema/schema.go): the walks     *)
(* over comments and white space, the carving of typed nodes out of a text,  *)
(* and the shape of the loop each schema writes out for itself.  A pass      *)
(* works on the array the parse left, turn by turn, and asks the bracket     *)
(* context, which has derived its links anew after every turn.  A word of    *)
(* the source that matters is one byte here.                                 *)
EXTENDS IndentParser, Splice

CONSTANTS Comments,     \* the groups of the Kind "comment"
          Separators,   \* luaSeps, goSeps, pySeps, shellSeps
          Assign,
          Paren,        \* the opener that matters to Go and shell
          Languages,
          Written       \* language -> the sources written in it

ASSUME PassAssumption ==
  /\ Comments \subseteq Slots
  /\ DOMAIN Written = Languages
  /\ Sources = UNION {Written[l] : l \in Languages}

VARIABLES lang,         \* the language of the source
          array,        \* Doc.dom, as [id, kind, at, text]
          made,         \* how many nodes were made: a node's identity
          passing,      \* whether the pass has begun, goes on, or is over
          done,         \* the offsets it has dealt with
          found         \* its links: keyword -> names

passVars == <<array, made, passing, done, found>>

schemaVars == <<indentVars, lang, passVars>>

---------------------------------------------------------------------------
(* The array, and the walks over it.                                        *)

Shape ==
  [i \in 1..Len(array) |-> [id |-> array[i].id, kind |-> array[i].kind, text |-> array[i].text]]

\* The links the context answers from during one turn.
Links == Derive(Shape)

Index(id) == CHOOSE i \in 1..Len(array) : array[i].id = id

TopLevel(info, i) == info[array[i].id].enclosing = None

TopTexts(info) == {i \in 1..Len(array) : array[i].kind = "Text" /\ TopLevel(info, i)}

IsComment(i) == array[i].kind = "Opener" /\ GroupOf(array[i].text) \in Comments

IsBlank(bytes) == \A k \in 1..Len(bytes) : bytes[k] \in Blanks \cup {Newline}

\* Any leaf but a marker that holds white space only, an empty one too.
IsSpace(i) == array[i].kind \notin {"Opener", "Closer", "Separator"} /\ IsBlank(array[i].text)

\* The comments that end, as <<opener, closer>>.
Commented(info) ==
  { <<o, Index(info[array[o].id].closer)>> :
      o \in {i \in 1..Len(array) : IsComment(i) /\ info[array[i].id].closer # None} }

\* What both walks step over.
Passed(info) ==
  {k \in 1..Len(array) : IsSpace(k) \/ \E c \in Commented(info) : c[1] =< k /\ k =< c[2]}

\* skipForward: nothing follows a comment that does not end.
SkipForward(info, from) ==
  LET left == (from..Len(array)) \ Passed(info)
  IN  IF left = {} \/ IsComment(FSE!Min(left)) THEN None ELSE FSE!Min(left)

IsParen(i) == i # None /\ array[i].kind = "Opener" /\ array[i].text = <<Paren>>

Holds(i, seps) == \E k \in 1..Len(array[i].text) : array[i].text[k] \in seps

\* Mutant: the walk back skips, and then looks.
PrecededAfterSkipping(info, i, seps) ==
  LET left == (1..(i - 1)) \ Passed(info)
  IN  left = {} \/ SQE!Last(array[FSE!Max(left)].text) \in seps

\* precededBySeparator: in the white space stepped over, in the closer of a
\* comment, or at the end of what is met.
PrecededBySeparator(info, i, seps) ==
  LET left == (1..(i - 1)) \ Passed(info)
      met  == IF left = {} THEN 0 ELSE FSE!Max(left)
      seen == {k \in (met + 1)..(i - 1) :
                 \A c \in Commented(info) : c[1] =< k /\ k =< c[2] => k = c[2]}
  IN  \/ \E k \in seen : Holds(k, seps)
      \/ met = 0
      \/ SQE!Last(array[met].text) \in seps

---------------------------------------------------------------------------
(* What the patterns match in a text.                                       *)

NoSpan == <<>>

\* The least place at or after from that holds none of these bytes.
Past(text, from, bytes) ==
  CHOOSE p \in from..Len(text) :
    /\ \A k \in (from + 1)..p : text[k] \in bytes
    /\ p = Len(text) \/ text[p + 1] \notin bytes

\* Mutant: the name goes on to the end of its text.
WordToTheEnd(text, from) ==
  LET start == Past(text, from, Byte \ WordBytes)
  IN  IF start = Len(text) THEN NoSpan ELSE <<start, Len(text)>>

\* identRe: the first word at or after from, as <<from, to>>.
Word(text, from) ==
  LET start == Past(text, from, Byte \ WordBytes)
  IN  IF start = Len(text) THEN NoSpan ELSE <<start, Past(text, start, WordBytes)>>

ByteAt(text, p) == IF p < Len(text) THEN text[p + 1] ELSE Newline

\* A statement can begin at the head of a text and after a separator in it.
Starts(text) == {0} \cup {k \in 1..Len(text) : text[k] \in Separators}

\* The word that begins a statement there, blanks before it passed over.
FirstWord(text, start) ==
  LET at == Past(text, start, Blanks)
  IN  <<at, Past(text, at, WordBytes)>>

\* A keyword is one byte here, and the whole word.
Keyed(text, start, keywords) ==
  LET word == FirstWord(text, start)
  IN  word[2] = word[1] + 1 /\ text[word[2]] \in keywords

\* At the head of its text a match needs a separator before the text.
Begun(info, i, start) == start > 0 \/ PrecededBySeparator(info, i, Separators)

---------------------------------------------------------------------------
(* What a turn finds.  An ANNOUNCEMENT is a keyword's span in a node, and    *)
(* the spans of the names it declares, INTO a node; one that declares        *)
(* nothing has no such node, and is dismissed.  TAIL is shell's function,    *)
(* which is looked for before the patterns are.                              *)

Nowhere == [into |-> None, spans |-> <<>>]

Named(i, span) == IF span = NoSpan THEN Nowhere ELSE [into |-> i, spans |-> <<span>>]

\* Mutant: any leaf will do.
FirstInAnyLeaf(i) ==
  IF i = None \/ array[i].kind \in {"Opener", "Closer", "Separator"} THEN Nowhere
  ELSE Named(i, Word(array[i].text, 0))

\* The first word of a text a walk stopped at.
FirstIn(i) == IF i = None \/ array[i].kind # "Text" THEN Nowhere ELSE Named(i, Word(array[i].text, 0))

Announcement(i, kw, names, tail) ==
  [node |-> i, kw |-> kw, into |-> names.into, spans |-> names.spans, tail |-> tail]

Dismissed(a) == a.into = None

\* Mutant: what was dealt with is kept by place in its node.
OffsetInNode(a) == a.kw[1]

Offset(a) == array[a.node].at + a.kw[1]

\* The order in which a scan of the array meets them.
Before(a, b) ==
  \/ a.node < b.node
  \/ a.node = b.node /\ a.tail /\ ~b.tail
  \/ a.node = b.node /\ a.tail = b.tail /\ a.kw[1] =< b.kw[1]

---------------------------------------------------------------------------
(* Carving.                                                                 *)

\* The part of a node in [from, to).
Part(n, from, to, kind) ==
  [kind |-> kind, at |-> n.at + from, text |-> SubSeq(n.text, from + 1, to)]

Gap(n, from, to) == IF from < to THEN <<Part(n, from, to, "Text")>> ELSE <<>>

EndOf(spans) == IF spans = <<>> THEN 0 ELSE SQE!Last(spans)[2]

\* Mutant: what is right of the last span starts one byte late.
PiecesRightLate(n, spans, kind) ==
  SQE!FlattenSeq(
    [k \in 1..Len(spans) |->
       Gap(n, EndOf(SubSeq(spans, 1, k - 1)), spans[k][1])
       \o <<Part(n, spans[k][1], spans[k][2], kind)>>])
  \o Gap(n, EndOf(spans) + 1, Len(n.text))

\* A node carved at spans, in order: each span retyped, and what lies between
\* them, if anything.
Pieces(n, spans, kind) ==
  SQE!FlattenSeq(
    [k \in 1..Len(spans) |->
       Gap(n, EndOf(SubSeq(spans, 1, k - 1)), spans[k][1])
       \o <<Part(n, spans[k][1], spans[k][2], kind)>>])
  \o Gap(n, EndOf(spans), Len(n.text))

\* carve, once per span, each time what the last one left on the right: splits
\* and replacements, all of new nodes.  No span leaves the node as it is.
Carve(nodes, i, spans, kind, count) ==
  LET pieces == Pieces(nodes[i], spans, kind)
  IN  IF spans = <<>> THEN nodes
      ELSE Splice(nodes, i, i + 1,
                  [p \in 1..Len(pieces) |->
                     [ id |-> count + p, kind |-> pieces[p].kind, at |-> pieces[p].at,
                       text |-> pieces[p].text ]])

\* The numbers of a set in their order.
InOrder(numbers) ==
  [k \in 1..Cardinality(numbers) |->
     CHOOSE n \in numbers : Cardinality({m \in numbers : m < n}) = k - 1]

\* The nodes of a kind that carving made after count.
Fresh(nodes, kind, count) ==
  LET new == InOrder({i \in 1..Len(nodes) : nodes[i].id > count /\ nodes[i].kind = kind})
  IN  [k \in 1..Len(new) |-> nodes[new[k]].id]

---------------------------------------------------------------------------
(* The loop.                                                                *)

Begin ==
  /\ Finished /\ passing = "no"
  /\ array' = [i \in 1..Len(walk.out) |->
                 [ id |-> i, kind |-> walk.out[i].kind, at |-> walk.out[i].at,
                   text |-> walk.out[i].text ]]
  /\ made' = Len(walk.out)
  /\ passing' = "on"
  /\ UNCHANGED <<indentVars, lang, done, found>>

\* The window of one turn: the keyword is carved, then the names, in what is
\* right of the keyword when they share a text.
Declare(hit) ==
  LET keyed == Carve(array, hit.node, <<hit.kw>>, "DeclarationType", made)
      now   == made + Len(keyed) - Len(array) + 1
      into  == hit.into + Len(keyed) - Len(array)
      shift == IF hit.into = hit.node THEN hit.kw[2] ELSE 0
      named == Carve(keyed, into,
                     [k \in 1..Len(hit.spans) |-> <<hit.spans[k][1] - shift, hit.spans[k][2] - shift>>],
                     "DeclarationName", now)
      word  == Fresh(keyed, "DeclarationType", made)[1]
  IN  /\ array' = named
      /\ made' = now + Len(named) - Len(keyed) + 1
      /\ found' = [k \in DOMAIN found \cup {word} |->
                     IF k = word THEN Fresh(named, "DeclarationName", now) ELSE found[k]]

\* A turn over what is announced now: the first that declares something is
\* carved; what the scan met before it is dismissed for good.
TurnOf(announced) ==
  /\ passing = "on"
  /\ \E open \in {{a \in announced : Offset(a) \notin done}} :
       \E hit \in {a \in open : ~Dismissed(a)} :
         /\ \A a \in open : ~Dismissed(a) => Before(hit, a)
         /\ done' = done \cup {Offset(a) : a \in {b \in open : Before(b, hit)}}
         /\ Declare(hit)
  /\ UNCHANGED <<indentVars, lang, passing>>

\* Nothing is left: the links are recorded.
RecordOf(announced) ==
  /\ passing = "on"
  /\ \A a \in announced : Offset(a) \in done \/ Dismissed(a)
  /\ passing' = "over"
  /\ UNCHANGED <<indentVars, lang, array, made, done, found>>

PassInit ==
  /\ IndentInit
  /\ lang \in {l \in Languages : source \in Written[l]}
  /\ array = <<>> /\ made = 0
  /\ passing = "no"
  /\ done = {}
  /\ found = <<>>
============================================================================
