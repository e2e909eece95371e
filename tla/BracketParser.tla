--------------------------- MODULE BracketParser ---------------------------
(* The table-driven parser (sdom/bracket_parser.go) walking one source.  Its *)
(* recursion - open calls parseBody, which calls open - is the stack; a step *)
(* is one turn of the innermost loop: the walk's own, parseCode's or         *)
(* parseRestricted's.                                                        *)
(*                                                                           *)
(* What a loop tries, in which order, is a sequence of READINGS of the bytes *)
(* at the position; the first that applies is the step.                      *)
EXTENDS ParserState, Pairing

CONSTANTS Lexis,        \* per group, the fields the parse alone reads
          Sources,      \* the sources that may be parsed
          WordBytes,    \* the bytes isWordChar accepts
          Blanks,       \* space and tab
          Newline

Lexes ==
  [ after   : SUBSET Byte,    \* AfterOpen, as the bytes it matches at
    before  : SUBSET Byte,    \* BeforeClose
    escape  : Seq(Byte),      \* Escape, <<>> when there is none
    bounded : BOOLEAN,        \* BlankLineBound
    unbound : BOOLEAN ]       \* LineHeadUnbound

\* What check demands, and that a group's text is a sequence of bytes.
ASSUME LexisAssumption ==
  /\ Sources \subseteq Seq(Byte)
  /\ Marks \subseteq Seq(Byte)
  /\ \A m \in Marks : Width[m] = Len(m)
  /\ DOMAIN Lexis = Slots
  /\ \A g \in Slots : Lexis[g] \in Lexes
  /\ \A g \in Slots : Lexis[g].bounded => Brackets[g].demotes
  /\ \A g \in Slots : Lexis[g].unbound => Lexis[g].bounded

VARIABLES stack,        \* the groups open around the position, innermost last
          demoted,      \* BracketContext.demoted
          linked        \* history: <<opener, node>> as the parse matched them

vars == <<source, walk, stack, demoted, linked>>

AtTop == stack = <<>>

Frame == SQE!Last(stack)

---------------------------------------------------------------------------
(* Matching a marker at a position.                                         *)

NoMark == <<>>

IsWord(pos) == source[pos + 1] \in WordBytes

\* boundaryOK: a word character at an edge of the marker has none beside it.
Bounded(pos, end) ==
  /\ ~(pos > 0 /\ IsWord(pos) /\ IsWord(pos - 1))
  /\ ~(end < Len(source) /\ IsWord(end - 1) /\ IsWord(end))

Occurs(mark, pos) ==
  pos + Len(mark) =< Len(source) /\ Slice(pos, pos + Len(mark)) = mark

\* matchAt.
Stands(mark, pos) ==
  mark # NoMark /\ Occurs(mark, pos) /\ Bounded(pos, pos + Len(mark))

Longest(marks) ==
  IF marks = {} THEN NoMark
  ELSE CHOOSE m \in marks : \A k \in marks : Len(k) =< Len(m)

\* matchAny, over literals of which the longer is listed before its prefix.
Literal(marks, pos) == Longest({m \in marks : Stands(m, pos)})

\* matchRegexp: the pattern takes what it can, then the boundary is asked.
Pattern(marks, pos) ==
  LET run == Longest({m \in marks : Occurs(m, pos)})
  IN  IF Stands(run, pos) THEN run ELSE NoMark

\* afterOK, beforeOK: the look-around holds at either end of the input.
AfterOK(g, end) == end >= Len(source) \/ source[end + 1] \in Lexis[g].after

BeforeOK(g, pos) == pos = 0 \/ source[pos] \in Lexis[g].before

\* matchGroupOpen.
OpenerOf(g, pos) ==
  LET m == IF Brackets[g].openRegex THEN Pattern(Brackets[g].open, pos)
           ELSE Literal(Brackets[g].open, pos)
  IN  IF m # NoMark /\ AfterOK(g, pos + Len(m)) THEN m ELSE NoMark

\* matchCloser: the closer of the instance that opened opened.
CloserOf(g, opened, pos) ==
  LET b    == Brackets[g]
      want == IF b.closeRegex THEN Pattern(b.close, pos)
              ELSE IF b.closeIsOpen THEN opened
              ELSE Longest(b.close)
      ends == IF b.closeRegex THEN want # NoMark /\ Agree(opened, want)
              ELSE /\ Stands(want, pos)
                   /\ (b.closeIsOpen /\ b.openRegex) => Pattern(b.open, pos) = opened
  IN  IF ends /\ BeforeOK(g, pos) THEN want ELSE NoMark

\* parentAllowed: enclosing is NoGroup at the top level.
ParentAllowed(g, enclosing) ==
  Brackets[g].anywhere \/ enclosing \in Brackets[g].parents

---------------------------------------------------------------------------
(* Readings.                                                                *)

Nothing == [act |-> "nothing", group |-> NoGroup, mark |-> NoMark]

Reading(act, g, mark) ==
  IF mark = NoMark THEN Nothing ELSE [act |-> act, group |-> g, mark |-> mark]

\* The first reading that applies; the readings of a loop are made once.
FirstRead(readings) ==
  LET some == {k \in 1..Len(readings) : readings[k] # Nothing}
  IN  IF some = {} THEN Nothing ELSE readings[FSE!Min(some)]

FirstOf(readings) == CHOOSE r \in {FirstRead(made) : made \in {readings}} : TRUE

Ending == [act |-> "end", group |-> NoGroup, mark |-> NoMark]

\* blankLineAt: a newline, then a line of blanks only.
BlankLineAt(pos) ==
  /\ pos < Len(source) /\ source[pos + 1] = Newline
  /\ \E end \in (pos + 1)..Len(source) :
       /\ \A k \in (pos + 2)..end : source[k] \in Blanks
       /\ end = Len(source) \/ source[end + 1] = Newline

\* The loop's condition: input is left, and the instance's bound is not here.
OutOfBody(f) ==
  IF walk.pos >= Len(source) \/ (f.bound /\ BlankLineAt(walk.pos)) THEN Ending ELSE Nothing

\* Mutant: AllowedParent is not asked.
OpeningAnywhere(pos, enclosing) ==
  FirstOf([g \in Slots |-> Reading("open", g, OpenerOf(g, pos))])

\* matchOpen: the first group of the table that may open here.
Opening(pos, enclosing) ==
  FirstOf([g \in Slots |->
             IF ParentAllowed(g, enclosing)
             THEN Reading("open", g, OpenerOf(g, pos)) ELSE Nothing])

\* matchInner: the first group AllowedInner names that opens here.
OpeningInner(g) ==
  FirstOf([k \in 1..Len(Brackets[g].inner) |->
             Reading("open", Brackets[g].inner[k],
                     OpenerOf(Brackets[g].inner[k], walk.pos))])

\* closeGroup.
Closing(f) == Reading("close", f.group, CloserOf(f.group, f.opened, walk.pos))

\* otherRun: a run of the pattern that is not the opener's text is content, or
\* a rejected closer.
OtherRun(f) ==
  LET b   == Brackets[f.group]
      run == Pattern(b.open, walk.pos)
  IN  IF ~b.closeIsOpen \/ ~b.openRegex \/ run = f.opened THEN Nothing
      ELSE IF b.rejectLonger /\ Len(run) > Len(f.opened)
           THEN Reading("reject", f.group, run)
           ELSE Reading("text", f.group, run)

Separating(f) == Reading("separate", f.group, Literal(Brackets[f.group].separators, walk.pos))

\* enclosingCloses: a group open below closes here; the search stops at a
\* restricted one, whose own closer can still end it.
EnclosingEnds ==
  IF \E j \in 1..(Len(stack) - 1) :
       /\ CloserOf(stack[j].group, stack[j].opened, walk.pos) # NoMark
       /\ \A k \in (j + 1)..(Len(stack) - 1) : ~Brackets[stack[k].group].restricted
  THEN Ending ELSE Nothing

\* matchAnyClose: the literal closer of any code-mode group.
Stray ==
  FirstOf([g \in Slots |->
             IF Brackets[g].restricted \/ Brackets[g].closeIsOpen \/ Brackets[g].closeRegex
             THEN Nothing
             ELSE Reading("stray", g, CloserOf(g, NoMark, walk.pos))])

\* The escape and the byte it escapes, if the input has one.
Escaping(f) ==
  LET e == Lexis[f.group].escape
  IN  IF e # <<>> /\ Occurs(e, walk.pos)
      THEN Reading("text", f.group,
                   IF walk.pos + Len(e) < Len(source)
                   THEN Slice(walk.pos, walk.pos + Len(e) + 1) ELSE e)
      ELSE Nothing

OneByte == Reading("text", NoGroup, Slice(walk.pos, walk.pos + 1))

\* Parse, offered a position by the walk; run takes what it declines.
TopReadings == << Opening(walk.pos, NoGroup), Stray, OneByte >>

CodeReadings(f) ==
  (IF Brackets[f.group].closeIsOpen THEN << Closing(f), OtherRun(f) >> ELSE <<>>)
  \o << Opening(walk.pos, f.group), Closing(f), Separating(f), EnclosingEnds, Stray, OneByte >>

RestrictedReadings(f) ==
  << Closing(f), Escaping(f), OpeningInner(f.group), OtherRun(f), OneByte >>

Finished == AtTop /\ walk.pos >= Len(source)

\* What the innermost loop makes of the position.
Read ==
  IF Finished THEN Nothing
  ELSE IF AtTop THEN FirstOf(TopReadings)
  ELSE IF OutOfBody(Frame) # Nothing THEN Ending
  ELSE IF Brackets[Frame.group].restricted THEN FirstOf(RestrictedReadings(Frame))
  ELSE FirstOf(CodeReadings(Frame))
---------------------------------------------------------------------------
(* Steps, each on what the loop read.                                       *)

\* Only spaces or tabs stand before the position on its line.
LineHead(pos) ==
  \A k \in 1..pos : (\A j \in k..pos : source[j] # Newline) => source[k] \in Blanks

\* bounded: decided once, at the opener.
BoundAt(g, pos) == Lexis[g].bounded /\ (Lexis[g].unbound => ~LineHead(pos))

\* The opener of the instance a frame stands for, as a place in the array.
OpenerIn(f) == f.count + 1

Link(f) == <<OpenerIn(f), Len(walk.out) + 1>>

\* open, up to the body.
OpenGroup(r) ==
  /\ r.act = "open"
  /\ walk' = Emit(walk, "Opener", Len(r.mark))
  /\ stack' = Append(stack,
       [ group    |-> r.group,
         opened   |-> r.mark,
         bound    |-> BoundAt(r.group, walk.pos),
         count    |-> Len(walk.out),
         pos      |-> walk.pos,
         recorded |-> Len(demoted) ])
  /\ UNCHANGED <<source, demoted, linked>>

\* The body ends by its closer, and open with it.
CloseGroup(r) ==
  /\ r.act = "close"
  /\ walk' = Emit(walk, "Closer", Len(r.mark))
  /\ stack' = SQE!Front(stack)
  /\ linked' = linked \cup {Link(Frame)}
  /\ UNCHANGED <<source, demoted>>

\* Mutant: the group goes on after the run it rejects.
RejectRunAndStay(r) ==
  /\ r.act = "reject"
  /\ walk' = Emit(walk, "Closer", Len(r.mark))
  /\ UNCHANGED <<source, stack, demoted, linked>>

\* The body ends by a rejected run, a closer that pairs with nothing.
RejectRun(r) ==
  /\ r.act = "reject"
  /\ walk' = Emit(walk, "Closer", Len(r.mark))
  /\ stack' = SQE!Front(stack)
  /\ UNCHANGED <<source, demoted, linked>>

Separate(r) ==
  /\ r.act = "separate"
  /\ walk' = Emit(walk, "Separator", Len(r.mark))
  /\ linked' = linked \cup {Link(Frame)}
  /\ UNCHANGED <<source, stack, demoted>>

StrayCloser(r) ==
  /\ r.act = "stray"
  /\ walk' = Emit(walk, "Closer", Len(r.mark))
  /\ UNCHANGED <<source, stack, demoted, linked>>

TakeText(r) ==
  /\ r.act = "text"
  /\ walk' = Advance(walk, Len(r.mark))
  /\ UNCHANGED <<source, stack, demoted, linked>>

\* Mutant: only the end of the input demotes.
LeaveOpenEarly(r) ==
  /\ r = Ending /\ (~Brackets[Frame.group].demotes \/ walk.pos < Len(source))
  /\ stack' = SQE!Front(stack)
  /\ UNCHANGED <<source, walk, demoted, linked>>

\* The body ran out, at the end of the input, at its bound or at the closer of
\* an enclosing group: the group stays unclosed.
LeaveOpen(r) ==
  /\ r = Ending /\ ~Brackets[Frame.group].demotes
  /\ stack' = SQE!Front(stack)
  /\ UNCHANGED <<source, walk, demoted, linked>>

\* The text of a demoted opener, back in the run before it.
Folded(f) == Advance(Rewind(walk, f.count, f.pos), Len(f.opened))

Demotion(f) ==
  [ marker |-> f.opened,
    run    |-> Folded(f).run,
    offset |-> f.pos - Folded(f).out[Folded(f).run].at ]

\* Mutants: the marker's bytes are not taken, and are read again; the records
\* made inside the group are kept.
DemoteUnread(r) ==
  /\ r = Ending /\ Brackets[Frame.group].demotes
  /\ walk' = Rewind(walk, Frame.count, Frame.pos)
  /\ stack' = SQE!Front(stack)
  /\ demoted' = SubSeq(demoted, 1, Frame.recorded)
  /\ linked' = {l \in linked : l[2] =< Frame.count}
  /\ UNCHANGED source

DemoteKeepingRecords(r) ==
  /\ r = Ending /\ Brackets[Frame.group].demotes
  /\ walk' = Folded(Frame)
  /\ stack' = SQE!Front(stack)
  /\ demoted' = Append(demoted, Demotion(Frame))
  /\ linked' = {l \in linked : l[2] =< Frame.count}
  /\ UNCHANGED source

\* The body ran out of a group that demotes: its opener was text, and what it
\* enclosed is read again outside it.
Demote(r) ==
  /\ r = Ending /\ Brackets[Frame.group].demotes
  /\ walk' = Folded(Frame)
  /\ stack' = SQE!Front(stack)
  /\ demoted' = Append(SubSeq(demoted, 1, Frame.recorded), Demotion(Frame))
  /\ linked' = {l \in linked : l[2] =< Frame.count}
  /\ UNCHANGED source

Init ==
  /\ source \in Sources
  /\ walk = NewWalk
  /\ stack = <<>>
  /\ demoted = <<>>
  /\ linked = {}

Next ==
  \E r \in {Read} :
    \/ OpenGroup(r)
    \/ CloseGroup(r)
    \/ RejectRun(r)
    \/ Separate(r)
    \/ StrayCloser(r)
    \/ TakeText(r)
    \/ LeaveOpen(r)
    \/ Demote(r)

\* One goroutine turns the loop: nothing can hold it back.
Spec == Init /\ [][Next]_vars /\ WF_vars(Next)

---------------------------------------------------------------------------
(* Properties.                                                              *)

Places == 1..Len(walk.out)

\* The nodes tile what was read, byte for byte, across every rewind: the document
\* round-trips (R2, R3, R350).  None is empty but an Indent (R179, R180).
NodesTile ==
  \A i \in Places :
    LET n == walk.out[i]
        end == IF i = Len(walk.out) THEN walk.pos ELSE walk.out[i + 1].at
    IN  /\ i = 1 => n.at = 0
        /\ n.at =< end
        /\ n.kind # "Indent" => n.at < end
        /\ n.text = Slice(n.at, end)

\* A text run is everything between two markers (R76): no text follows a text,
\* after a rewind to one either.
TextRunsAreMaximal ==
  \A i \in Places \ {1} : ~(walk.out[i - 1].kind = "Text" /\ walk.out[i].kind = "Text")

ParsedShape ==
  [i \in Places |-> [id |-> i, kind |-> walk.out[i].kind, text |-> walk.out[i].text]]

Derived == Derive(ParsedShape)

\* Outside every group, the links a walk of the array derives are the ones the
\* parse made (R87, R355, R357): it ends every group where the parse did.
DerivationAgrees ==
  AtTop =>
    LET info == Derived
    IN  {<<info[i].opener, i>> : i \in {k \in Places : info[k].opener # None}} = linked

GroupAt(i) == GroupOf(walk.out[i].text)

\* What the table lets stand at place i inside of a group, or of none.
MayStand(i, around) ==
  IF around # NoGroup /\ Brackets[around].restricted
  THEN /\ walk.out[i].kind = "Opener"
       /\ \E k \in 1..Len(Brackets[around].inner) : Brackets[around].inner[k] = GroupAt(i)
  ELSE walk.out[i].kind = "Opener" => ParentAllowed(GroupAt(i), around)

\* What the derived links say a marker is inside of is what the table lets it
\* be read in: a restricted group holds no marker but the openers of its
\* hatches (R64), and no group opens outside its allowed parents (R66).
TableIsObeyed ==
  AtTop =>
    \A info \in {Derived} :
      \A i \in {k \in Places : walk.out[k].kind \in {"Opener", "Separator"}} :
        \A outer \in {info[i].enclosing} :
          MayStand(i, IF outer = None THEN NoGroup ELSE GroupAt(outer))

\* Where a demoted opener stands in the source.
DemotedAt(d) == walk.out[d.run].at + d.offset

\* Every demotion is recorded once, in document order, and anchored: its run is
\* a text of the array that holds the marker's bytes at the offset (R349).
DemotionsAnchored ==
  /\ \A k \in 1..Len(demoted) :
       LET d == demoted[k]
       IN  /\ d.run \in Places /\ walk.out[d.run].kind = "Text"
           /\ SubSeq(walk.out[d.run].text, d.offset + 1, d.offset + Len(d.marker)) = d.marker
  /\ \A k \in 1..(Len(demoted) - 1) :
       DemotedAt(demoted[k]) + Len(demoted[k].marker) =< DemotedAt(demoted[k + 1])

\* The texts that close an instance of a group.
ClosingMarks(g) == IF Brackets[g].closeIsOpen THEN Brackets[g].open ELSE Brackets[g].close

\* m may stand where k does: it begins it, and a word does not go on after it.
MayStandIn(m, k) ==
  /\ Len(m) =< Len(k) /\ SubSeq(k, 1, Len(m)) = m
  /\ Len(m) < Len(k) => ~(k[Len(m)] \in WordBytes /\ k[Len(m) + 1] \in WordBytes)

Meet(m, k) == MayStandIn(m, k) \/ MayStandIn(k, m)

\* What a walk that knows only the markers' texts needs of a table, to end every
\* group where the parse did.  An opener's text names its group; groups of which
\* one is in code mode have the same closer only as a literal, with the same
\* look-behind; a run rejects in a group that a run closes, and one that a run of a
\* pattern closes is restricted; and where a group closes no group opens that
\* may not open everywhere, and no separator stands.
TableTells ==
  /\ \A g \in Slots : \A m \in Brackets[g].open : GroupOf(m) = g
  /\ \A g, h \in Slots :
       g # h /\ ~Brackets[g].restricted /\ ClosingMarks(g) \cap ClosingMarks(h) # {} =>
         /\ \A i \in {g, h} : ~Brackets[i].closeIsOpen /\ ~Brackets[i].closeRegex
         /\ Lexis[g].before = Lexis[h].before
  /\ \A g \in Slots :
       /\ Brackets[g].rejectLonger => Brackets[g].closeIsOpen
       /\ Brackets[g].closeIsOpen /\ Brackets[g].openRegex => Brackets[g].restricted
  /\ \A g, h \in Slots : \A k \in ClosingMarks(h) :
       /\ \A m \in Brackets[g].open : Meet(m, k) => Brackets[g].anywhere
       /\ ~Brackets[g].restricted => \A m \in Brackets[g].separators : ~Meet(m, k)

\* The text of an opener tells whether its group demotes: no group shares one
\* with a group that does.
DemotersTell ==
  \A g \in Slots : \A m \in Brackets[g].open : Brackets[GroupOf(m)].demotes => GroupOf(m) = g

\* An opener of a group that demotes is left unclosed only by a run its group
\* rejects (R346, R309).
DemotingGroupsEnd ==
  Finished =>
    \A i \in Places :
      (/\ walk.out[i].kind = "Opener"
       /\ Brackets[GroupAt(i)].demotes
       /\ \A l \in linked : l[1] # i) =>
         \E j \in Places : j > i /\ walk.out[j].kind = "Closer" /\ Rejects(walk.out[i], walk.out[j])

\* Every source is parsed to its end, however often a demotion reads it again
\* (R167, R346).
Terminates == <>Finished
============================================================================
