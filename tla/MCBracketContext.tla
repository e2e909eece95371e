------------------------- MODULE MCBracketContext -------------------------
(* A document holding one group, "(" ")", either marker of which a schema    *)
(* may retype as a keyword or a name.                                        *)
EXTENDS BracketContext

MCByte == {"(", ")"}

MCSource == <<"(", ")">>

Span(kind, at, len) == [kind |-> kind, at |-> at, len |-> len]

MCLayouts == { <<Span("Opener", 0, 1), Span("Closer", 1, 1)>> }

MCMarks == {<<"(">>, <<")">>}

MCWidth == [m \in MCMarks |-> 1]

MCCapture == [m \in MCMarks |-> ""]

MCBrackets ==
  << [ open |-> {<<"(">>}, openRegex |-> FALSE, separators |-> {},
       close |-> {<<")">>}, closeIsOpen |-> FALSE, closeRegex |-> FALSE,
       rejectLonger |-> FALSE, demotes |-> FALSE, restricted |-> FALSE,
       inner |-> <<>>, anywhere |-> TRUE, parents |-> {} ] >>

MCNoTexts == {}

\* What a caller writes over a marker.
MCNewTexts == { <<"(">> }

MCNoForeign == {}
============================================================================
