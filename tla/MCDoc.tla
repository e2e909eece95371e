------------------------------ MODULE MCDoc -------------------------------
(* A document of three bytes, one of them a newline, parsed as two leaves *)
(* or as a leaf and a marker.                                                *)
EXTENDS Doc

MCByte == {"a", "nl", "b", "x"}

MCSource == <<"a", "nl", "b">>

Span(kind, at, len) == [kind |-> kind, at |-> at, len |-> len]

MCLayouts ==
  { <<Span("Text", 0, 2), Span("Text", 2, 1)>>,
    <<Span("Text", 0, 2), Span("Opener", 2, 1)>> }

MCNewTexts == { <<"x">> }

MCNoForeign == {}
============================================================================
