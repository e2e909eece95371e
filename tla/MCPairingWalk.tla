--------------------------- MODULE MCPairingWalk ---------------------------
(* Two code brackets, a restricted one closed by a pattern, and runs that    *)
(* close on themselves and reject longer ones.                               *)
EXTENDS PairingWalk

MCMarks == {"(", ")", "[", "]", "<a", "<b", "a>", "b>", "*", "**", "x"}

MCWidth == [m \in MCMarks |-> IF m \in {"<a", "<b", "a>", "b>", "**"} THEN 2 ELSE 1]

MCCapture ==
  [m \in MCMarks |-> IF m \in {"<a", "a>"} THEN "a" ELSE IF m \in {"<b", "b>"} THEN "b" ELSE ""]

Code(open, close) ==
  [ open |-> {open}, openRegex |-> FALSE, separators |-> {},
    close |-> {close}, closeIsOpen |-> FALSE, closeRegex |-> FALSE,
    rejectLonger |-> FALSE, demotes |-> FALSE, restricted |-> FALSE,
    inner |-> <<>>, anywhere |-> TRUE, parents |-> {} ]

MCBrackets ==
  << Code("(", ")"),
     Code("[", "]"),
     [Code("<a", "a>") EXCEPT
        !.open = {"<a", "<b"}, !.openRegex = TRUE, !.close = {"a>", "b>"},
        !.closeRegex = TRUE, !.restricted = TRUE],
     [Code("*", "*") EXCEPT
        !.open = {"*", "**"}, !.openRegex = TRUE, !.close = {}, !.closeIsOpen = TRUE,
        !.rejectLonger = TRUE] >>

Of(kind, texts) == [kind : {kind}, text : texts]

MCElements ==
  Of("Text", {"x"}) \cup Of("Separator", {"x"})
  \cup Of("Opener", {"(", "[", "<a", "*", "x"})
  \cup Of("Closer", {")", "]", "a>", "b>", "*", "**"})
============================================================================
