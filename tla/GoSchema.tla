------------------------------ MODULE GoSchema ----------------------------
(* What the Go pass (sdom/schema/golang.go) finds in an array: a function,   *)
(* whose receiver's group is jumped, and a variable, constant or type, alone *)
(* or in a group of many.                                                    *)
EXTENDS DeclarationPass

CONSTANTS Func,
          Vars,         \* var, type and const
          Comma

\* goSeps are in no name and no blank.
ASSUME GoAssumption == Separators \cap (WordBytes \cup Blanks \cup {Comma}) = {}

Beyond(info, closer) == IF closer = None THEN None ELSE SkipForward(info, Index(closer) + 1)

\* A group met on the way is jumped.
GoInto(info, next) ==
  IF next # None /\ array[next].kind = "Opener" THEN Beyond(info, info[array[next].id].closer) ELSE next

\* goNameAfter: in the same text, if white space alone comes before; else the
\* first word of the next text that counts.
GoNameAfter(info, i, after) ==
  LET here == Word(array[i].text, after)
  IN  IF here # NoSpan /\ IsBlank(SubSeq(array[i].text, after + 1, here[1])) THEN Named(i, here)
      ELSE FirstIn(GoInto(info, SkipForward(info, i + 1)))

\* goSameLine: after the name's node comes its parenthesis, and no newline
\* stands between name and parenthesis, in a comment either.
GoSameLine(info, name) ==
  \E o \in {SkipForward(info, name.into + 1)} :
    /\ IsParen(o)
    /\ Newline \notin SQE!ToSet(Slice(array[name.into].at + name.spans[1][2], array[o].at))

TextIn(o) == IF IsParen(o) /\ o < Len(array) /\ array[o + 1].kind = "Text" THEN o + 1 ELSE None

\* goGroupBody: the text that follows the parenthesis that follows a keyword.
GoGroupBody(info, i, after) ==
  IF IsBlank(SubSeq(array[i].text, after + 1, Len(array[i].text)))
  THEN TextIn(SkipForward(info, i + 1)) ELSE None

---------------------------------------------------------------------------
(* goListRe.                                                                *)

WordsIn(text, from, to) ==
  { w \in (from..to) \X (from..to) :
      /\ w[1] < w[2] /\ \A k \in (w[1] + 1)..w[2] : text[k] \in WordBytes
      /\ w[1] = from \/ text[w[1]] \notin WordBytes
      /\ w[2] = to \/ text[w[2] + 1] \notin WordBytes }

\* Names with a comma between any two that follow one another, and blanks.
IsNameList(text, from, to) ==
  /\ text[from + 1] \in WordBytes /\ text[to] \in WordBytes
  /\ \A k \in (from + 1)..to : text[k] \in WordBytes \cup Blanks \cup {Comma}
  /\ \A p \in (from + 1)..to, q \in (from + 1)..to :
       (/\ p + 1 < q /\ text[p] \in WordBytes /\ text[q] \in WordBytes
        /\ \A k \in (p + 1)..(q - 1) : text[k] \notin WordBytes) =>
          Cardinality({k \in (p + 1)..(q - 1) : text[k] = Comma}) = 1

\* A type or a value follows.
GoesOn(text, p) ==
  LET next == Past(text, p, Blanks)
  IN  next < Len(text) /\ text[next + 1] \in WordBytes \cup {Assign}

\* The longest list that something follows: what follows may be the rest of its
\* own last word.
ListFrom(text, start) ==
  LET from == Past(text, start, Blanks)
      ends == {to \in (from + 1)..Len(text) : IsNameList(text, from, to) /\ GoesOn(text, to)}
  IN  IF ends = {} THEN {} ELSE WordsIn(text, from, FSE!Max(ends))

\* goCarveGroup: the names of every list of a group, in order.
GoNames(text) ==
  LET names == UNION {ListFrom(text, s) : s \in Starts(text)}
      heads == InOrder({n[1] : n \in names})
  IN  [k \in 1..Len(heads) |-> CHOOSE n \in names : n[1] = heads[k]]

---------------------------------------------------------------------------

\* Mutant: a function need not reach its parenthesis on its line.
GoReachedAnyLine(info, name) == name

\* A function's name counts if its parenthesis is on its line.
GoReached(info, name) ==
  IF name # Nowhere /\ ~GoSameLine(info, name) THEN Nowhere ELSE name

GoEntries(body, alone) ==
  IF body = None THEN alone ELSE [into |-> body, spans |-> GoNames(array[body].text)]

\* What the keyword at kw declares.
GoDeclares(info, i, kw) ==
  IF array[i].text[kw[2]] = Func THEN GoReached(info, GoNameAfter(info, i, kw[2]))
  ELSE GoEntries(GoGroupBody(info, i, kw[2]), GoNameAfter(info, i, kw[2]))

\* goNext.
GoAnnounced(info) ==
  UNION { { Announcement(i, FirstWord(array[i].text, s),
                         IF Begun(info, i, s)
                         THEN GoDeclares(info, i, FirstWord(array[i].text, s)) ELSE Nowhere,
                         FALSE) :
              s \in {t \in Starts(array[i].text) : Keyed(array[i].text, t, {Func} \cup Vars)} } :
          i \in TopTexts(info) }
============================================================================
