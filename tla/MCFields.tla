------------------------------ MODULE MCFields ----------------------------
(* Every way two or three groups can lie in a short match of a pattern that  *)
(* repeats none of them, and lines whose fields are boxes and lists.         *)
EXTENDS Fields

LOCAL INSTANCE SequencesExt

MCBases == {In(Source(4, 0), "o"), Synthetic(0)}

MCBytes ==
  {"a", "x", "X", " ", ",", "|", "R", "-", "[", "]", "nl",
   "0", "1", "2", "3", "4", "5", "6", "7", "8", "9"}

MCTexts == {<<"a", "x">>}

MCItems == {<<>>, <<"a">>, <<"x", "a">>, <<"a", ",", "x">>, <<"a", " ", "x">>, <<" ", "a">>, <<",">>}

MCItemLists == UNION {[1..n -> MCItems] : n \in 0..2} \cup {<<<<"a">>, <<"x">>, <<"a">>>>}

MCRefLists == {<<>>, <<7>>, <<8, 7>>, <<12, 9, 8, 9, 10, 11, 3>>, <<1, 2, 3, 5, 6, 7>>, <<0, 2, 4>>}

---------------------------------------------------------------------------
(* Bare groups, of every span.                                              *)

Pattern(inside, at) ==
  [g \in 1..Len(at) |-> [at |-> at[g], inside |-> inside[g], kind |-> "Text"]]

SpansIn(from, to) == {<<s, e>> \in (from..to) \X (from..to) : s =< e}

Bare(text, from, to, shapes) ==
  { m \in UNION { {[text |-> text, from |-> from, to |-> to, groups |-> Pattern(inside, at)] :
                      at \in [1..Len(inside) -> SpansIn(from, to) \cup {Absent}]} : inside \in shapes } :
      Captured(m) /\ ~TrailsEmpty(m) }

---------------------------------------------------------------------------
(* Lines.                                                                   *)

Group(kind, from, to) == [at |-> <<from, to>>, inside |-> 0, kind |-> kind]

Lines ==
  { [text |-> <<"[", " ", "]", "a", "nl">>, from |-> 0, to |-> 4, groups |-> <<Group("Bool", 1, 2), Group("Text", 3, 4)>>],
    [text |-> <<"[", "]">>, from |-> 0, to |-> 2, groups |-> <<Group("Bool", 1, 1), Group("Text", 2, 2)>>],
    [text |-> <<"a", "[", "X", " ", "]">>, from |-> 1, to |-> 5, groups |-> <<Group("Bool", 2, 4)>>],
    [text |-> <<"a", ",", "x", "|", " ", "R", "9", "-", "R", "1", "2", "|", "x">>, from |-> 0, to |-> 13,
     groups |-> <<Group("List", 0, 3), Group("Refs", 4, 11), Group("Bool", 12, 13)>>],
    [text |-> <<"a", " ", "x", "|", "R", "9", "-">>, from |-> 0, to |-> 7,
     groups |-> <<Group("List", 0, 3), Group("Refs", 4, 7)>>] }

MCMatches ==
  Bare(<<"x", ",", "a">>, 0, 3, {<<0, 0>>, <<0, 1>>})
  \cup Bare(<<"x", "a", "a">>, 1, 3, {<<0, 0, 0>>, <<0, 0, 2>>, <<0, 1, 0>>, <<0, 1, 1>>, <<0, 1, 2>>})
  \cup Lines

\* An empty group that ends where its holder does.
NestedMatches ==
  { [text |-> <<"x", "a">>, from |-> 0, to |-> 2,
     groups |-> Pattern(<<0, 1>>, <<<<0, e>>, <<e, e>>>>)] : e \in 0..2 }
============================================================================
