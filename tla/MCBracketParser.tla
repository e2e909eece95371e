------------------------- MODULE MCBracketParser -------------------------
(* One table in which every field of a group is live, and every source over  *)
(* a few alphabets, each the markers of some of its groups.                  *)
EXTENDS BracketParser

MCMarks ==
  { <<"q">>, <<"$">>, <<"}">>, <<"(">>, <<",">>, <<")">>, <<"<">>, <<">">>,
    <<"tick">>, <<"tick", "tick">>, <<"tick", "tick", "tick">>, <<"*">>, <<"*", "*">>, <<"*", "*", "*">>,
    <<"[", "[">>, <<"[", "=", "[">>, <<"]", "]">>, <<"]", "=", "]">>, <<"[">>, <<"]">>,
    <<"f">>, <<"d">>, <<"e">> }

MCWidth == [m \in MCMarks |-> Len(m)]

\* The level of a long bracket.
MCCapture == [m \in MCMarks |-> IF Len(m) = 3 /\ m[2] = "=" THEN "=" ELSE ""]

MCByte == UNION {{m[i] : i \in 1..Len(m)} : m \in MCMarks} \cup {"\\", " ", "nl", "x"}

\* A code bracket.
Code(open, separators, close) ==
  [ open |-> {open}, openRegex |-> FALSE, separators |-> separators,
    close |-> {close}, closeIsOpen |-> FALSE, closeRegex |-> FALSE,
    rejectLonger |-> FALSE, demotes |-> FALSE, restricted |-> FALSE,
    inner |-> <<>>, anywhere |-> TRUE, parents |-> {} ]

Runs(b) == { <<b>>, <<b, b>>, <<b, b, b>> }

\* A run of one byte that a run of the same length closes.
RunGroup(b, inner) ==
  [ Code(<<b>>, {}, <<b>>) EXCEPT
      !.open = Runs(b), !.openRegex = TRUE, !.close = {}, !.closeIsOpen = TRUE,
      !.demotes = TRUE, !.restricted = TRUE, !.inner = inner ]

MCBrackets ==
  << \* a string with an escape and a hatch, and the hatch
     [Code(<<"q">>, {}, <<"q">>) EXCEPT !.restricted = TRUE, !.inner = <<2>>],
     [Code(<<"$">>, {}, <<"}">>) EXCEPT !.anywhere = FALSE, !.parents = {1}],
     \* a code bracket with a separator, and one that demotes
     Code(<<"(">>, {<<",">>}, <<")">>),
     [Code(<<"<">>, {}, <<">">>) EXCEPT !.demotes = TRUE],
     \* markdown's code and emphasis
     [RunGroup("tick", <<>>) EXCEPT !.rejectLonger = TRUE],
     RunGroup("*", <<6, 5>>),
     \* Lua's long bracket before its bracket
     [Code(<<"[">>, {}, <<"]">>) EXCEPT
        !.open = {<<"[", "[">>, <<"[", "=", "[">>}, !.openRegex = TRUE,
        !.close = {<<"]", "]">>, <<"]", "=", "]">>}, !.closeRegex = TRUE,
        !.restricted = TRUE],
     Code(<<"[">>, {}, <<"]">>),
     \* words
     Code(<<"f">>, {<<"d">>}, <<"e">>) >>

Plain == [after |-> MCByte, before |-> MCByte, escape |-> <<>>, bounded |-> FALSE, unbound |-> FALSE]

Solid == MCByte \ {" ", "nl"}

MCLexis ==
  << [Plain EXCEPT !.escape = <<"\\">>], Plain, Plain, Plain,
     [Plain EXCEPT !.bounded = TRUE, !.unbound = TRUE],
     [Plain EXCEPT !.bounded = TRUE, !.after = Solid, !.before = Solid],
     Plain, Plain, Plain >>

UpTo(n, bytes) == UNION {[1..k -> bytes] : k \in 0..n}

MCSources ==
  UpTo(5, {"q", "$", "}", "(", ")"}) \cup UpTo(5, {"q", "\\", "$", "}"})
  \cup UpTo(5, {"(", ",", ")", "<", ">"}) \cup UpTo(5, {"tick", "*", " ", "nl"})
  \cup UpTo(6, {"tick", "*", "x"}) \cup UpTo(6, {"[", "=", "]"})
  \cup UpTo(5, {"f", "d", "e", "x", "("})

\* Sources in which groups that demote nest.
MCDemoting == UpTo(4, {"(", ")", "<", ">"}) \cup UpTo(5, {"tick", "*", "nl"})

\* What the theorem on groups that demote asks of a table.
ASSUME MCTells == DemotersTell

ASSUME MCTableTells == TableTells
============================================================================
