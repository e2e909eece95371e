-------------------------- MODULE MCIndentContext --------------------------
(* Four lines at columns 0, 1, 2 and 1, as an indent parse lays them out.    *)
EXTENDS IndentContext

MCByte == {"x", " "}

MCSource == <<"x", " ", "x", " ", " ", "x", " ", "x">>

Span(kind, at, len) == [kind |-> kind, at |-> at, len |-> len]

MCLayouts ==
  { << Span("Indent", 0, 0), Span("Text", 0, 1), Span("Indent", 1, 1), Span("Text", 2, 1),
       Span("Indent", 3, 2), Span("Text", 5, 1), Span("Indent", 6, 1), Span("Text", 7, 1) >> }

MCNewTexts == { <<>>, <<" ", " ">> }

MCNoForeign == {}
============================================================================
