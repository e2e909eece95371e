---------------------------- MODULE IndentParser ---------------------------
(* The indent parser (sdom/indent.go): registered in the outermost loop, it  *)
(* turns line starts into Indent nodes and hands every other position to the *)
(* bracket parser, which takes the loop on an opener.                        *)
EXTENDS BracketParser, Frames

CONSTANTS Transparent,    \* the groups of the Kind that IndentLang.Transparent names
          Continuation    \* IndentLang.Continuation, <<>> when there is none

ASSUME IndentAssumption ==
  /\ Transparent \subseteq Slots
  /\ Continuation \in Seq(Byte)

VARIABLE levels           \* IndentParser.levels: the open columns

indentVars == <<vars, levels>>

---------------------------------------------------------------------------
(* The change of level.                                                     *)

LineStarts == {p \in 1..Len(source) : source[p] = Newline}

\* Where the blanks that begin at pos end.
Indented(pos) ==
  CHOOSE end \in pos..Len(source) :
    /\ \A k \in (pos + 1)..end : source[k] \in Blanks
    /\ end = Len(source) \/ source[end + 1] \notin Blanks

BlankFrom(end) == end = Len(source) \/ source[end + 1] = Newline

\* Mutant: any marker at the end of the line before counts, also in a comment.
ContinuedAnywhere ==
  /\ Continuation # <<>>
  /\ SQE!IsSuffix(Continuation \o <<Newline>>, Slice(0, walk.pos))

\* The line before ended with a marker that no group claimed: it is in the live
\* text run.
Continued ==
  /\ Continuation # <<>>
  /\ SQE!Last(walk.out).kind = "Text"
  /\ SQE!IsSuffix(Continuation \o <<Newline>>, SQE!Last(walk.out).text)

\* NodeType, asked at the first byte of the line's content.
TransparentAt(end) == Opening(end, NoGroup).group \in Transparent

ColumnAt(pos) == Column(Slice(pos, Indented(pos)))

\* change.
Changes(pos) ==
  /\ pos \in LineStarts
  /\ ~Continued
  /\ ~BlankFrom(Indented(pos))
  /\ ~TransparentAt(Indented(pos))
  /\ ColumnAt(pos) # SQE!Last(levels)

\* Mutants: no level is closed; one is closed at a time.
EnterDeeper(col) == IF col > SQE!Last(levels) THEN Append(levels, col) ELSE levels

EnterOne(col) ==
  IF SQE!Last(levels) >= col /\ Len(levels) > 1 THEN SQE!Front(levels) ELSE Append(levels, col)

\* enter: a column that matches no open level opens one.
Enter(col) ==
  LET left == SubSeq(levels, 1, Kept(levels, col))
  IN  IF col > SQE!Last(left) THEN Append(left, col) ELSE left

---------------------------------------------------------------------------
(* Steps.                                                                   *)

Offered == AtTop /\ ~Finished

\* The root, before anything else, takes no byte: the position comes again.
Root ==
  /\ Offered /\ walk.out = <<>>
  /\ walk' = Emit(walk, "Indent", 0)
  /\ levels' = <<0>>
  /\ UNCHANGED <<source, stack, demoted, linked>>

Announces == walk.out # <<>> /\ Changes(walk.pos)

Announce ==
  /\ Offered /\ Announces
  /\ walk' = Emit(walk, "Indent", Indented(walk.pos) - walk.pos)
  /\ levels' = Enter(ColumnAt(walk.pos))
  /\ UNCHANGED <<source, stack, demoted, linked>>

\* Everywhere else, and at every position inside a group.
Delegate ==
  /\ ~(Offered /\ (walk.out = <<>> \/ Announces))
  /\ Next
  /\ UNCHANGED levels

IndentInit == Init /\ levels = <<>>

IndentNext == Root \/ Announce \/ Delegate

\* One goroutine turns the loop: nothing can hold it back.
IndentSpec == IndentInit /\ [][IndentNext]_indentVars /\ WF_indentVars(IndentNext)

---------------------------------------------------------------------------
(* Properties.                                                              *)

Indents == {i \in Places : walk.out[i].kind = "Indent"}

NodeEnd(i) == walk.out[i].at + Len(walk.out[i].text)

\* The open columns the array implies: those of the derivation's stack.
DerivedLevels == Columns(WalkFrames(ParsedShape).stack)

\* What the parse holds open is what the array implies it holds open (R187),
\* but for the frame of a return to the first column, which the parse takes
\* for the root.
LevelsAreDerivable ==
  AtTop =>
    \A open \in {DerivedLevels} :
      levels = IF Len(open) > 1 /\ open[2] = 0 THEN Tail(open) ELSE open

\* Indents announce a change: no two that follow one another have one column
\* (R178), the root included; so one that takes no byte is not emitted again at
\* its position (R167, R180).
IndentsAnnounceChanges ==
  \A i, j \in Indents :
    (i < j /\ \A k \in (i + 1)..(j - 1) : k \notin Indents) =>
      Column(walk.out[i].text) # Column(walk.out[j].text)

\* The node that holds the byte after end.
NodeAt(end) == CHOOSE i \in Places : walk.out[i].at =< end /\ end < NodeEnd(i)

\* A line of the finished array whose indentation counts: it stands outside
\* every group (R174), holds something, does not begin with a transparent group
\* (R183) and does not continue the text of the line before (R184).
Counts(pos, info) ==
  LET end == Indented(pos)
  IN  /\ ~BlankFrom(end)
      /\ \E i \in {NodeAt(end)} :
           /\ info[i].enclosing = None
           /\ walk.out[i].kind \notin {"Closer", "Separator"}
           /\ walk.out[i].kind = "Opener" => GroupAt(i) \notin Transparent
      /\ pos > 0 =>
           \E i \in {NodeAt(pos - 1)} :
             /\ info[i].enclosing = None
             /\ walk.out[i].kind = "Text" =>
                  ~SQE!IsSuffix(Continuation \o <<Newline>>, Slice(walk.out[i].at, pos))

Lines(info) == {pos \in {0} \cup LineStarts : Counts(pos, info)}

\* The frame a line stands in: the last announced up to its start.
FrameAt(pos) ==
  CHOOSE i \in Indents :
    /\ walk.out[i].at =< pos
    /\ \A j \in Indents : walk.out[j].at =< pos => j =< i

InItsFrame(pos) == Column(walk.out[FrameAt(pos)].text) = ColumnAt(pos)

\* Every line that counts, after the first, stands in the frame of its column,
\* whatever was demoted, continued or commented around it.
LinesStandInFrames ==
  Finished =>
    \A info \in {Derived} : \A pos \in Lines(info) \ {0} : InItsFrame(pos)
============================================================================
