------------------------------ MODULE Schemas -----------------------------
(* A declaration pass over a document just parsed: Lua, Go, Python or Shell  *)
(* (sdom/schema), each with the parser of its language and what it finds.    *)
EXTENDS LuaSchema, GoSchema, ScriptSchemas

CONSTANT Programs       \* language -> programs [bytes, declares] whose writer
                        \* says what they declare, as {<<keyword, names>>}

ASSUME SchemasAssumption ==
  /\ Languages = {"Lua", "Go", "Python", "Shell"}
  /\ \A l \in Languages : \A p \in Programs[l] : p.bytes \in Written[l]

Announced(info) ==
  CASE lang = "Lua"    -> LuaAnnounced(info)
    [] lang = "Go"     -> GoAnnounced(info)
    [] lang = "Python" -> PythonAnnounced(info)
    [] lang = "Shell"  -> ShellAnnounced(info)

\* Python's lines may be announced by their indentation.
Parsing ==
  /\ \/ lang = "Python" /\ IndentNext
     \/ lang # "Python" /\ Next /\ UNCHANGED levels
  /\ UNCHANGED <<lang, passVars>>

Turn == \E info \in {Links} : \E announced \in {Announced(info)} : TurnOf(announced)

Record == \E info \in {Links} : \E announced \in {Announced(info)} : RecordOf(announced)

SchemaNext == Parsing \/ Begin \/ Turn \/ Record

SchemaSpec == PassInit /\ [][SchemaNext]_schemaVars

---------------------------------------------------------------------------
(* Properties of the carving.                                               *)

\* Through every carving the array renders the source, each node the bytes at
\* its offset (R124, R148).
CarvingKeepsBytes ==
  passing # "no" =>
    \A i \in 1..Len(array) :
      LET n == array[i]
      IN  /\ n.at = IF i = 1 THEN 0 ELSE array[i - 1].at + Len(array[i - 1].text)
          /\ n.text = Slice(n.at, n.at + Len(n.text))
          /\ i = Len(array) => n.at + Len(n.text) = Len(source)

Linked == UNION {SQE!ToSet(found[k]) : k \in DOMAIN found}

OfKind(kind) == {array[i].id : i \in {j \in 1..Len(array) : array[j].kind = kind}}

\* The links are whole: every keyword and every name of the array is in one, and
\* none names a node that a later turn replaced, or two the same.
LinksCoverTheArray ==
  passing # "no" =>
    /\ DOMAIN found = OfKind("DeclarationType")
    /\ Linked = OfKind("DeclarationName")
    /\ \A k, l \in DOMAIN found :
         k # l => SQE!ToSet(found[k]) \cap SQE!ToSet(found[l]) = {}

\* A name is one word, whole, and no white space with it (R148).
NamesAreWords ==
  \A id \in OfKind("DeclarationName") : \A n \in {array[Index(id)]} :
    LET end == n.at + Len(n.text)
    IN  /\ n.text # <<>> /\ \A k \in 1..Len(n.text) : n.text[k] \in WordBytes
        /\ end < Len(source) => source[end + 1] \notin WordBytes
        /\ n.at > 0 => source[n.at] \notin WordBytes

\* Nothing is left for a second pass: what the array announces when the pass is
\* over declares nothing (R127).
PassIsComplete ==
  passing = "over" => \A info \in {Links} : \A a \in Announced(info) : Dismissed(a)

NameSpan(id) == <<array[Index(id)].at, array[Index(id)].at + Len(array[Index(id)].text)>>

\* What the pass found, as places in the source.
FoundAt ==
  {<<array[Index(k)].at, {NameSpan(n) : n \in SQE!ToSet(found[k])}>> : k \in DOMAIN found}

\* A program declares what its writer says, line by line, whatever lines stand
\* around (R137, R138, R139, R151, R136, R189).
DeclaresWhatIsWritten ==
  passing = "over" =>
    \A p \in Programs[lang] : p.bytes = source => FoundAt = p.declares

---------------------------------------------------------------------------
(* What the Lua pass finds, told from the bytes of the source and the        *)
(* comments in it alone: no nodes, no turns.                                 *)

\* The comments, as [from, to, sep]: sep when a separator ends it.
CommentsIn(info) ==
  { [ from |-> walk.out[o].at,
      to   |-> IF info[o].closer = None THEN Len(source) ELSE NodeEnd(info[o].closer),
      sep  |-> info[o].closer # None /\ Separators \cap SQE!ToSet(walk.out[info[o].closer].text) # {} ] :
      o \in {i \in Places : walk.out[i].kind = "Opener" /\ GroupAt(i) \in Comments} }

IsCode(comments, p) == \A c \in comments : ~(c.from =< p /\ p < c.to)

\* Where the blanks and comments before p begin.
Back(comments, p) ==
  CHOOSE q \in 0..p :
    /\ \A k \in q..(p - 1) : source[k + 1] \in Blanks \/ ~IsCode(comments, k)
    /\ q > 0 => source[q] \notin Blanks /\ IsCode(comments, q - 1)

\* A statement begins at p: before p there is nothing, or a separator, or a
\* comment that a separator ends.
Begins(comments, p) ==
  \E q \in {Back(comments, p)} :
    \/ q = 0
    \/ source[q] \in Separators
    \/ \E c \in comments : q =< c.from /\ c.to =< p /\ c.sep

\* The first word at or after p, wherever it is.
WordAfter(comments, p) ==
  FSE!Min({Len(source)} \cup {k \in p..(Len(source) - 1) : source[k + 1] \in WordBytes /\ IsCode(comments, k)})

IsLocal(p) == source[p + 1] = Local /\ Past(source, p, WordBytes) = p + 1

IsAssigned(p) == ByteAt(source, Past(source, Past(source, p, WordBytes), Blanks)) = Assign

NameOf(comments, p) == IF IsLocal(p) THEN WordAfter(comments, p + 1) ELSE p

WordSpan(p) == <<p, Past(source, p, WordBytes)>>

Says(comments, p) ==
  /\ IsCode(comments, p) /\ source[p + 1] \in WordBytes
  /\ Begins(comments, p)
  /\ IF IsLocal(p) THEN WordAfter(comments, p + 1) < Len(source) ELSE IsAssigned(p)

\* What a statement before it took for its name announces nothing.
Declared(comments) ==
  LET declares[p \in 0..(Len(source) - 1)] ==
        Says(comments, p) /\ ~\E q \in 0..(p - 1) : declares[q] /\ NameOf(comments, q) = p
  IN  {<<p, {WordSpan(NameOf(comments, p))}>> : p \in {q \in 0..(Len(source) - 1) : declares[q]}}

\* A comment after blanks that end a text with more than white space in it.
Trails(comments, c) ==
  /\ c.from > 0 /\ source[c.from] \in Blanks
  /\ \E k \in 0..(c.from - 1) :
       /\ source[k + 1] \notin Blanks \cup {Newline}
       /\ \A j \in k..(c.from - 1) : IsCode(comments, j)

\* Comments are the only structure.
Plainly(info) ==
  \A i \in Places :
    /\ walk.out[i].kind = "Opener" => GroupAt(i) \in Comments
    /\ walk.out[i].kind = "Closer" => info[i].opener # None

\* The pass finds what the text declares, once each, whatever nodes comments cut
\* it into and earlier turns carved it into (R133, R134, R145, R147, R149).
FindsWhatTheTextDeclares ==
  passing = "over" /\ lang = "Lua" =>
    \A info \in {i \in {Derived} : Plainly(i)} : \A comments \in {CommentsIn(info)} :
      (\A c \in comments : ~Trails(comments, c)) => FoundAt = Declared(comments)

\* "Declarations are sought over top-level nodes" (requirements.md:398, R141).
DeclarationsAreTopLevel ==
  passing = "over" =>
    \A info \in {Derived} : \A k \in DOMAIN found :
      \A i \in Places :
        (walk.out[i].at =< array[Index(k)].at /\ array[Index(k)].at < NodeEnd(i)) =>
          info[i].enclosing = None
============================================================================
