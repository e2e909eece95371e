----------------------------- MODULE LuaSchema ----------------------------
(* What the Lua pass (sdom/schema/lua.go) finds in an array: `local`, a      *)
(* `function` opener and a keyword-less assignment announce a declaration.   *)
EXTENDS DeclarationPass

CONSTANTS Local,        \* the keyword
          Function      \* the opener

IsFunction(i) == array[i].kind = "Opener" /\ array[i].text = <<Function>>

\* A `function` met on the way is entered.
LuaInto(info, next) ==
  IF next # None /\ IsFunction(next) THEN SkipForward(info, next + 1) ELSE next

\* luaNameAfter: in the same text; else in the next node that counts.
LuaNameAfter(info, i, after) ==
  LET here == IF array[i].kind = "Text" THEN Word(array[i].text, after) ELSE NoSpan
  IN  IF here # NoSpan THEN Named(i, here) ELSE FirstIn(LuaInto(info, SkipForward(info, i + 1)))

\* `x =`: blanks may stand before the sign.
LuaAssigns(text, start) ==
  LET word == FirstWord(text, start)
  IN  word[1] < word[2] /\ ByteAt(text, Past(text, word[2], Blanks)) = Assign

\* One statement start of a text.  An assignment's keyword takes no byte.
LuaStatement(info, i, start) ==
  LET word == FirstWord(array[i].text, start)
      kw   == IF Keyed(array[i].text, start, {Local}) THEN word ELSE <<word[1], word[1]>>
      name == IF kw = word THEN LuaNameAfter(info, i, word[2]) ELSE Named(i, word)
  IN  Announcement(i, kw, IF Begun(info, i, start) THEN name ELSE Nowhere, FALSE)

\* luaNext.
LuaAnnounced(info) ==
  { Announcement(i, <<0, Len(array[i].text)>>, LuaNameAfter(info, i, 0), FALSE) :
      i \in {j \in 1..Len(array) : IsFunction(j) /\ TopLevel(info, j)} }
  \cup
  UNION { { LuaStatement(info, i, s) :
              s \in {t \in Starts(array[i].text) :
                       \/ Keyed(array[i].text, t, {Local})
                       \/ LuaAssigns(array[i].text, t)} } :
          i \in TopTexts(info) }
============================================================================
