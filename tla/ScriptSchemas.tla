---------------------------- MODULE ScriptSchemas -------------------------
(* What the Python and the shell pass (sdom/schema/python.go, shell.go) find *)
(* in an array.  Python's keyword and name share a text, and indentation     *)
(* decides nothing; shell has no keyword at all.                             *)
EXTENDS DeclarationPass

CONSTANT Defs           \* def and class

\* pyNameAfter.
PyNameAfter(i, after) ==
  LET text == array[i].text
      name == Word(text, after)
  IN  IF name # NoSpan /\ Past(text, after, Blanks) = name[1] THEN Named(i, name) ELSE Nowhere

\* pyNext.
PythonAnnounced(info) ==
  UNION { { Announcement(i, FirstWord(array[i].text, s),
                         IF Begun(info, i, s)
                         THEN PyNameAfter(i, FirstWord(array[i].text, s)[2]) ELSE Nowhere,
                         FALSE) :
              s \in {t \in Starts(array[i].text) : Keyed(array[i].text, t, Defs)} } :
          i \in TopTexts(info) }

---------------------------------------------------------------------------

\* shellTailRe: the word that ends a text.
TailOf(text) ==
  LET from == FSE!Min({k \in 0..Len(text) : \A j \in (k + 1)..Len(text) : text[j] \in WordBytes})
  IN  <<from, Len(text)>>

\* shellIsFunc: a parenthesis that nothing stands in follows at once.
IsFunc(info, i) ==
  /\ i + 2 =< Len(array)
  /\ IsParen(i + 1)
  /\ array[i + 2].kind = "Closer"
  /\ info[array[i + 2].id].opener = array[i + 1].id

\* No white space around the sign.
ShellAssigns(text, start) ==
  LET word == FirstWord(text, start)
  IN  word[1] < word[2] /\ ByteAt(text, word[2]) = Assign

\* Keyword-less: the keyword's node is empty, before the name.
ShellName(i, word, begun, tail) ==
  Announcement(i, <<word[1], word[1]>>, IF begun THEN Named(i, word) ELSE Nowhere, tail)

\* shellNext.
ShellAnnounced(info) ==
  { ShellName(i, TailOf(array[i].text), TRUE, TRUE) :
      i \in {j \in TopTexts(info) : TailOf(array[j].text)[1] < Len(array[j].text) /\ IsFunc(info, j)} }
  \cup
  UNION { { ShellName(i, FirstWord(array[i].text, s), Begun(info, i, s), FALSE) :
              s \in {t \in Starts(array[i].text) : ShellAssigns(array[i].text, t)} } :
          i \in TopTexts(info) }
============================================================================
