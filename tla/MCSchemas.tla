----------------------------- MODULE MCSchemas ----------------------------
(* Four languages in small, over one table: a block comment, a line comment, *)
(* parentheses, and Lua's `function`; a source holds its language's only.    *)
EXTENDS Schemas

MCMarks == { <<"//">>, <<"nl">>, <<"/*">>, <<"*/">>, <<"function">>, <<"end">>, <<"(">>, <<")">> }

MCWidth == [m \in MCMarks |-> 1]

MCCapture == [m \in MCMarks |-> ""]

MCWords == {"x", "local", "function", "end", "func", "var", "def"}

MCByte == MCWords \cup {"//", "nl", "/*", "*/", "=", " ", ",", ";", "(", ")"}

Code(open, close) ==
  [ open |-> {open}, openRegex |-> FALSE, separators |-> {},
    close |-> {close}, closeIsOpen |-> FALSE, closeRegex |-> FALSE,
    rejectLonger |-> FALSE, demotes |-> FALSE, restricted |-> FALSE,
    inner |-> <<>>, anywhere |-> TRUE, parents |-> {} ]

MCBrackets ==
  << [Code(<<"/*">>, <<"*/">>) EXCEPT !.restricted = TRUE],
     [Code(<<"//">>, <<"nl">>) EXCEPT !.restricted = TRUE],
     Code(<<"function">>, <<"end">>),
     Code(<<"(">>, <<")">>) >>

Plain == [after |-> MCByte, before |-> MCByte, escape |-> <<>>, bounded |-> FALSE, unbound |-> FALSE]

MCLexis == << Plain, Plain, Plain, Plain >>

MCContinuation == <<>>

MCLanguages == {"Lua", "Go", "Python", "Shell"}

UpTo(n, bytes) == UNION {[1..k -> bytes] : k \in 0..n}

After(first, rest) == {first \o r : r \in rest}

\* Lua: comments about every place of a declaration, also after a statement;
\* and functions.
LuaSources ==
  UpTo(5, {"local", "x", "=", " ", "nl", "/*", "*/"})
  \cup After(<<"x", "nl">>, UpTo(4, {"local", "x", "=", " ", "/*", "*/"}))
  \cup After(<<"local">>, UpTo(5, {"x", "=", " ", "nl", "//"}))
  \cup UpTo(5, {"function", "end", "x", "=", "nl", "local"})
  \cup After(<<"function", "nl">>, UpTo(4, {"x", "=", "nl", "end"}))

---------------------------------------------------------------------------
(* Programs by the line, each with what it declares: the keyword's place in  *)
(* the line, and its names'.                                                 *)

Line(bytes, declares) == [bytes |-> bytes, declares |-> declares]

Silent(bytes) == Line(bytes, {})

One(bytes, kw, from, to) == Line(bytes, {<<kw, {<<from, to>>}>>})

GoLines ==
  { One(<<"func", " ", "x", "(", ")", "nl">>, 0, 2, 3),
    One(<<"func", "(", "x", ")", "x", "x", "(", ")", "nl">>, 0, 4, 6),
    One(<<"func", "/*", "nl", "*/", "x", "/*", "*/", "(", ")", "nl">>, 0, 4, 5),
    Silent(<<"func", " ", "x", "/*", "nl", "*/", "(", ")", "nl">>),
    Silent(<<"func", " ", "x", "nl", "(", ")", "nl">>),
    One(<<"var", " ", "x", "=", "x", "nl">>, 0, 2, 3),
    One(<<"/*", "*/", "var", "//", "nl", "x", " ", "x", "nl">>, 2, 5, 6),
    One(<<"x", ";", "var", "nl", "x", "nl">>, 2, 4, 5),
    Line(<<"var", " ", "(", "nl", "x", "x", "=", "x", "nl", "x", ",", " ", "x", " ", "x", "nl", ")", "nl">>,
         {<<0, {<<4, 6>>, <<9, 10>>, <<12, 13>>}>>}),
    Line(<<"var", "(", "nl", ")", "nl">>, {<<0, {}>>}),
    Silent(<<"//", "var", " ", "x", "nl">>),
    Silent(<<"x", " ", "var", " ", "x", "nl">>),
    Silent(<<"x", "(", "nl", "var", " ", "x", ")", "nl">>) }

PythonLines ==
  { One(<<"def", " ", "x", "x", "(", ")", "nl">>, 0, 2, 4),
    One(<<" ", "def", " ", "x", "nl">>, 1, 3, 4),
    One(<<"x", ";", " ", "def", " ", "x", "nl">>, 3, 5, 6),
    Silent(<<"def", "nl", "x", "nl">>),
    Silent(<<" ", "x", " ", "def", " ", "x", "nl">>),
    Silent(<<" ", "//", "nl">>),
    Silent(<<"//", "def", " ", "x", "nl">>),
    Silent(<<" ", "x", "(", "nl", "def", " ", "x", ")", "nl">>) }

ShellLines ==
  { One(<<"x", "=", "x", "nl">>, 0, 0, 1),
    One(<<" ", "x", "x", "=", "nl">>, 1, 1, 3),
    Silent(<<"x", " ", "=", "x", "nl">>),
    One(<<"x", " ", "x", "x", "(", ")", "nl">>, 2, 2, 4),
    Line(<<"x", "=", ";", "x", "(", ")", "(", "x", "=", ")", "nl">>, {<<0, {<<0, 1>>}>>, <<3, {<<3, 4>>}>>}),
    Silent(<<"x", "(", "x", ")", "nl">>),
    Silent(<<"//", "x", "=", "nl">>),
    Silent(<<"(", "x", "=", "nl", ")", "nl">>) }

Shift(spans, n) == {<<s[1] + n, s[2] + n>> : s \in spans}

Join(a, b) ==
  [ bytes    |-> a.bytes \o b.bytes,
    declares |-> a.declares \cup {<<d[1] + Len(a.bytes), Shift(d[2], Len(a.bytes))>> : d \in b.declares} ]

\* Programs of one to n lines.
UpToLines(n, lines) ==
  LET of[k \in 1..n] == IF k = 1 THEN lines
                        ELSE of[k - 1] \cup {Join(p, l) : p \in of[k - 1], l \in lines}
  IN  of[n]

GoPrograms == UpToLines(2, GoLines)

PythonPrograms == UpToLines(3, PythonLines)

ShellPrograms == UpToLines(3, ShellLines)

MCPrograms ==
  [Lua |-> {}, Go |-> GoPrograms, Python |-> PythonPrograms, Shell |-> ShellPrograms]

Texts(programs) == {p.bytes : p \in programs}

MCWritten == [l \in MCLanguages |-> IF l = "Lua" THEN LuaSources ELSE Texts(MCPrograms[l])]

MCSources == UNION {MCWritten[l] : l \in MCLanguages}

NonePrograms == [l \in MCLanguages |-> {}]

\* The body of a Lua function.
LuaBodies == {<<"function", " ", "x", "nl">> \o r \o <<"nl", "end">> : r \in UpTo(3, {"x", "="})}

BodiesWritten == [l \in MCLanguages |-> IF l = "Lua" THEN LuaBodies ELSE {}]

\* A group with an entry of a name alone, an empty group, and a function.
GroupProgram ==
  Join(Join(Line(<<"var", "(", "nl", "x", "x", "=", "x", "nl", "x", "x", "nl", ")", "nl">>,
                 {<<0, {<<3, 5>>, <<8, 10>>}>>}),
            Line(<<"var", "(", ")", "nl">>, {<<0, {}>>})),
       One(<<"func", " ", "x", "(", ")", "nl">>, 0, 2, 3))

GroupPrograms == [NonePrograms EXCEPT !["Go"] = {GroupProgram}]

GroupsWritten == [l \in MCLanguages |-> Texts(GroupPrograms[l])]

GroupSources == GroupsWritten["Go"]
============================================================================
