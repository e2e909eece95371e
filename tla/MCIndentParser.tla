-------------------------- MODULE MCIndentParser --------------------------
(* Python and markdown in small, in one table: a comment, a bracket, a       *)
(* bracket that demotes, and a span that ends at a blank line.               *)
EXTENDS MarkdownParser

MCMarks == { <<"%">>, <<"nl">>, <<"(">>, <<")">>, <<"<">>, <<">">>, <<"*">> }

MCWidth == [m \in MCMarks |-> 1]

MCCapture == [m \in MCMarks |-> ""]

MCByte == {"nl", "(", ")", "<", ">", " ", "tab", "x", "\\", "%", "*", "#", "-", "[", "]"}

\* A code bracket.
Code(open, close) ==
  [ open |-> {open}, openRegex |-> FALSE, separators |-> {},
    close |-> {close}, closeIsOpen |-> FALSE, closeRegex |-> FALSE,
    rejectLonger |-> FALSE, demotes |-> FALSE, restricted |-> FALSE,
    inner |-> <<>>, anywhere |-> TRUE, parents |-> {} ]

MCBrackets ==
  << [Code(<<"%">>, <<"nl">>) EXCEPT !.restricted = TRUE],
     Code(<<"(">>, <<")">>),
     [Code(<<"<">>, <<">">>) EXCEPT !.demotes = TRUE],
     [Code(<<"*">>, <<"*">>) EXCEPT !.demotes = TRUE, !.restricted = TRUE] >>

Plain == [after |-> MCByte, before |-> MCByte, escape |-> <<>>, bounded |-> FALSE, unbound |-> FALSE]

MCLexis == << Plain, Plain, Plain, [Plain EXCEPT !.bounded = TRUE] >>

MCContinuation == <<"\\">>

UpTo(n, bytes) == UNION {[1..k -> bytes] : k \in 0..n}

After(first, rest) == {first \o r : r \in rest}

MCSources ==
  UpTo(5, {"x", " ", "nl", "%"})
  \cup After(<<"x", "nl">>, UpTo(6, {"x", " ", "nl"}))
  \cup After(<<"x", "nl">>, UpTo(5, {"x", " ", "nl", "tab"}))
  \cup After(<<"x", "nl">>, UpTo(5, {"x", " ", "nl", "\\"}))
  \cup After(<<"x", "%">>, UpTo(5, {"x", " ", "nl", "\\"}))
  \cup After(<<"(", "nl">>, UpTo(5, {"x", " ", "nl", ")"}))
  \cup After(<<"x", "<", "nl">>, UpTo(5, {"x", " ", "nl", ">"}))
  \cup UpTo(5, {"#", " ", "nl", "-"})
  \cup After(<<"x", "nl">>, UpTo(6, {"-", " ", "nl", "#"}))
  \cup After(<<"x", "nl", "-", " ">>, UpTo(4, {"[", "x", "]", " "}))
  \cup After(<<"-", " ">>, UpTo(6, {"*", "nl", "-", " "}))
  \cup After(<<"-", " ", "<", "nl">>, UpTo(5, {"nl", "-", " ", ">"}))

\* What the theorem on groups that demote asks of a table.
ASSUME MCTells == DemotersTell
============================================================================
