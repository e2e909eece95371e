--------------------------- MODULE BracketTable ---------------------------
(* A language's bracket table (sdom/bracket.go) as both of its readers see   *)
(* it: the parser, which matches markers in a source, and the context, which *)
(* resolves the text of a marker node.  A marker's text is one member of     *)
(* Marks; a pattern is the set of the marks it matches in full.              *)
EXTENDS Integers, Sequences, FiniteSets

FSE == INSTANCE FiniteSetsExt

CONSTANTS Marks,        \* the texts a marker may have
          Width,        \* mark -> its length in bytes
          Capture,      \* mark -> the text of the groups its pattern names
          Brackets      \* the table: a sequence of groups, the first match wins

Slots == 1..Len(Brackets)

NoGroup == 0

Groups ==
  [ open         : SUBSET Marks,    \* Open, or what OpenRegex matches
    openRegex    : BOOLEAN,         \* the openers come from a pattern
    separators   : SUBSET Marks,
    close        : SUBSET Marks,    \* Close, or what CloseRegex matches
    closeIsOpen  : BOOLEAN,
    closeRegex   : BOOLEAN,         \* the closers come from a pattern
    rejectLonger : BOOLEAN,         \* RejectLongerCloses
    demotes      : BOOLEAN,         \* DemoteUnclosed
    restricted   : BOOLEAN,         \* AllowedInner is not nil
    inner        : Seq(Slots),      \* the groups AllowedInner names
    anywhere     : BOOLEAN,         \* AllowedParent is nil
    parents      : SUBSET Slots ]   \* the groups AllowedParent names

\* What check demands of a table, or of its reading here.
ASSUME TableAssumption ==
  /\ Width \in [Marks -> Nat \ {0}]
  /\ DOMAIN Capture = Marks
  /\ Brackets \in Seq(Groups)
  /\ \A i \in Slots : Brackets[i].closeIsOpen =>
       Brackets[i].close = {} /\ ~Brackets[i].closeRegex
  /\ \A i \in Slots : ~Brackets[i].closeRegex => \A m, n \in Brackets[i].close : m = n

\* groupFor: the first group with this literal opener; else, in groupOf, the
\* first whose pattern matches the whole text.
GroupOf(text) ==
  LET named   == {i \in Slots : ~Brackets[i].openRegex /\ text \in Brackets[i].open}
      matched == {i \in Slots : Brackets[i].openRegex /\ text \in Brackets[i].open}
  IN  IF named # {} THEN FSE!Min(named)
      ELSE IF matched # {} THEN FSE!Min(matched)
      ELSE NoGroup

\* agree: the groups the two patterns name hold the same text at both ends.
Agree(opened, closed) == Capture[opened] = Capture[closed]

\* Whether closed is, as a text, the closer of an instance of g.
Ends(g, opened, closed) ==
  IF g.closeIsOpen THEN closed = opened
  ELSE /\ closed \in g.close
       /\ g.closeRegex => Agree(opened, closed)

\* A run of g's pattern that is longer than the one that opened the instance.
Overlong(g, opened, run) ==
  /\ g.rejectLonger
  /\ g.openRegex /\ run \in g.open
  /\ Width[run] > Width[opened]
============================================================================
