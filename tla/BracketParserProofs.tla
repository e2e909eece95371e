------------------------ MODULE BracketParserProofs ------------------------
(* That a parse loses nothing, proved for every table and every source: the  *)
(* nodes tile what was read through every demotion and its rewind, a text    *)
(* run is everything between two markers, and the links derived from the     *)
(* array are those the parse made.                                           *)
EXTENDS BracketParser, WellFoundedInduction, TLAPS

\* The kinds a marker has, in this parser and in those over it.
Markers == {"Opener", "Closer", "Separator", "Indent", "Heading", "ListItem", "Checkbox"}

ParsedKinds == {"Text"} \cup Markers

ParsedNodes == [kind : ParsedKinds, at : Nat, text : Seq(Byte)]

Walks == [ out : Seq(ParsedNodes),
           pos : Nat,
           run : Nat ]

EndAt(w, i) == IF i = Len(w.out) THEN w.pos ELSE w.out[i + 1].at

\* The nodes of a walk tile what it has read; only an Indent may be empty.
Tiled(w) ==
  /\ w.pos =< Len(source)
  /\ w.out = <<>> => w.pos = 0
  /\ \A i \in 1..Len(w.out) :
       /\ i = 1 => w.out[i].at = 0
       /\ w.out[i].at =< EndAt(w, i)
       /\ w.out[i].kind # "Indent" => w.out[i].at < EndAt(w, i)
       /\ w.out[i].text = Slice(w.out[i].at, EndAt(w, i))

\* They stand in document order.
Ordered(w) ==
  \A i \in 1..Len(w.out) :
    /\ EndAt(w, i) =< w.pos
    /\ \A j \in 1..Len(w.out) : i < j => EndAt(w, i) =< w.out[j].at

\* The live run is the last node, if that is a text.
RunIsLast(w) ==
  w.run = IF w.out # <<>> /\ w.out[Len(w.out)].kind = "Text" THEN Len(w.out) ELSE 0

Maximal(w) ==
  \A i \in 2..Len(w.out) : ~(w.out[i - 1].kind = "Text" /\ w.out[i].kind = "Text")

Sound(w) == w \in Walks /\ Tiled(w) /\ Ordered(w) /\ RunIsLast(w) /\ Maximal(w)

---------------------------------------------------------------------------
(* The operations of the walk.                                               *)
LEMMA Typed ==
  ASSUME NEW w, Sound(w)
  PROVE  /\ w.out \in Seq(ParsedNodes)
         /\ Len(w.out) \in Nat /\ w.pos \in Nat /\ w.run \in Nat
         /\ \A i \in 1..Len(w.out) :
              /\ w.out[i] \in ParsedNodes
              /\ w.out[i].at \in Nat /\ w.out[i].kind \in ParsedKinds
              /\ w.out[i].text \in Seq(Byte)
              /\ EndAt(w, i) \in Nat
<1>1. /\ w.out \in Seq(ParsedNodes)
      /\ w.pos \in Nat /\ w.run \in Nat
  BY DEF Sound, Walks
<1>2. Len(w.out) \in Nat /\ \A i \in 1..Len(w.out) : w.out[i] \in ParsedNodes
  BY <1>1
<1>3. \A x \in ParsedNodes : x.at \in Nat /\ x.kind \in ParsedKinds /\ x.text \in Seq(Byte)
  BY DEF ParsedNodes
<1>4. \A i \in 1..Len(w.out) : i = Len(w.out) \/ i + 1 \in 1..Len(w.out)
  BY <1>2
<1>5. \A i \in 1..Len(w.out) : EndAt(w, i) \in Nat
  BY <1>1, <1>2, <1>3, <1>4 DEF EndAt
<1>. QED BY <1>1, <1>2, <1>3, <1>5

LEMMA NodeTyped ==
  ASSUME source \in Seq(Byte), NEW kind \in ParsedKinds, NEW from \in Nat, NEW to \in Nat,
         from =< to, to =< Len(source)
  PROVE  /\ Node(kind, from, to) \in ParsedNodes
         /\ Node(kind, from, to).kind = kind /\ Node(kind, from, to).at = from
         /\ Node(kind, from, to).text = Slice(from, to)
<1>1. Slice(from, to) \in Seq(Byte)
  BY DEF Slice
<1>. QED BY <1>1 DEF Node, ParsedNodes

(* A node more, at the position: Emit's marker, and the text Advance begins. *)
Appended(w, kind, n) ==
  [ out |-> Append(w.out, Node(kind, w.pos, w.pos + n)),
    pos |-> w.pos + n,
    run |-> IF kind = "Text" THEN Len(w.out) + 1 ELSE 0 ]

LEMMA AppendSound ==
  ASSUME source \in Seq(Byte), NEW w, Sound(w),
         NEW kind \in ParsedKinds, NEW n \in Nat, n > 0 \/ kind = "Indent", w.pos + n =< Len(source),
         kind = "Text" => w.run = 0,
         NEW v, v = Appended(w, kind, n)
  PROVE  /\ Sound(v)
         /\ Len(v.out) = Len(w.out) + 1 /\ v.pos = w.pos + n
         /\ \A i \in 1..Len(w.out) : v.out[i] = w.out[i] /\ EndAt(v, i) = EndAt(w, i)
         /\ v.out[Len(w.out) + 1].kind = kind /\ v.out[Len(w.out) + 1].at = w.pos
<1> DEFINE x == Node(kind, w.pos, w.pos + n)
           L == Len(w.out)
<1>1. /\ L \in Nat /\ w.pos \in Nat /\ w.pos + n \in Nat /\ w.run \in Nat
      /\ w.pos =< w.pos + n /\ (n > 0 => w.pos < w.pos + n)
  BY Typed
<1>2. /\ x \in ParsedNodes
      /\ x.kind = kind /\ x.at = w.pos /\ x.text = Slice(w.pos, w.pos + n)
  BY <1>1, NodeTyped
<1>. HIDE DEF x
<1>3. /\ v.out = Append(w.out, x) /\ v.pos = w.pos + n
      /\ v.run = IF kind = "Text" THEN L + 1 ELSE 0
      /\ v = [out |-> v.out, pos |-> v.pos, run |-> v.run]
  BY DEF x, Appended
<1>4. /\ v.out \in Seq(ParsedNodes)
      /\ Len(v.out) = L + 1 /\ v.out[L + 1] = x
      /\ \A i \in 1..L : v.out[i] = w.out[i]
  BY <1>2, <1>3, Typed
<1>5. v \in Walks
  <2>1. v.run \in Nat /\ v.pos \in Nat
    BY <1>1, <1>3
  <2>2. v.out \in Seq(ParsedNodes)
    BY <1>4
  <2>3. v = [out |-> v.out, pos |-> v.pos, run |-> v.run]
    BY <1>3
  <2>. QED BY <2>1, <2>2, <2>3 DEF Walks
<1>6. v.out # <<>> /\ v.out[Len(v.out)].kind = kind
  BY <1>1, <1>2, <1>4
<1>7. RunIsLast(v)
  BY <1>3, <1>4, <1>6 DEF RunIsLast
<1>8. \A i \in 1..L : EndAt(v, i) = EndAt(w, i)
  <2>. SUFFICES ASSUME NEW i \in 1..L PROVE EndAt(v, i) = EndAt(w, i)
    OBVIOUS
  <2>1. i # L + 1
    BY <1>1
  <2>2. CASE i = L
    BY <1>2, <1>4, <2>1, <2>2 DEF EndAt
  <2>3. CASE i # L
    <3>1. i + 1 \in 1..L
      BY <1>1, <2>3
    <3>. QED BY <1>4, <2>1, <2>3, <3>1 DEF EndAt
  <2>. QED BY <2>2, <2>3
<1>9. EndAt(v, L + 1) = w.pos + n
  BY <1>3, <1>4 DEF EndAt
<1>10. L = 0 => w.pos = 0
  BY Typed DEF Sound, Tiled
<1>11. Tiled(v)
  <2>1. ASSUME NEW i \in 1..L
        PROVE  /\ i = 1 => v.out[i].at = 0
               /\ v.out[i].at =< EndAt(v, i)
               /\ v.out[i].kind # "Indent" => v.out[i].at < EndAt(v, i)
               /\ v.out[i].text = Slice(v.out[i].at, EndAt(v, i))
    BY <1>4, <1>8 DEF Sound, Tiled
  <2>2. /\ L + 1 = 1 => v.out[L + 1].at = 0
        /\ v.out[L + 1].at =< EndAt(v, L + 1)
        /\ v.out[L + 1].kind # "Indent" => v.out[L + 1].at < EndAt(v, L + 1)
        /\ v.out[L + 1].text = Slice(v.out[L + 1].at, EndAt(v, L + 1))
    BY <1>1, <1>2, <1>4, <1>9, <1>10
  <2>3. \A i \in 1..Len(v.out) : i \in 1..L \/ i = L + 1
    BY <1>1, <1>4
  <2>. QED BY <1>3, <1>6, <2>1, <2>2, <2>3 DEF Tiled
<1>12. Maximal(v)
  <2>1. ASSUME NEW i \in 2..Len(v.out), v.out[i - 1].kind = "Text", v.out[i].kind = "Text"
        PROVE  FALSE
    <3>1. CASE i \in 2..L
      <4>1. i - 1 \in 1..L /\ i \in 1..L
        BY <1>1, <3>1
      <4>. QED BY <1>4, <2>1, <3>1, <4>1 DEF Sound, Maximal
    <3>2. CASE i = L + 1
      <4>1. L \in 1..L /\ i - 1 = L /\ w.out # <<>> /\ L # 0
        BY <1>1, <1>4, <2>1, <3>2, Typed
      <4>2. w.run = L
        BY <1>4, <2>1, <4>1 DEF Sound, RunIsLast
      <4>3. kind = "Text"
        BY <1>2, <1>4, <2>1, <3>2
      <4>. QED BY <4>1, <4>2, <4>3
    <3>. QED BY <1>1, <1>4, <3>1, <3>2
  <2>. QED BY <2>1 DEF Maximal
<1>13. Ordered(v)
  <2>1. \A i \in 1..L : EndAt(v, i) =< w.pos /\ EndAt(v, i) \in Nat
    BY <1>8, Typed DEF Sound, Ordered
  <2>2. \A i \in 1..Len(v.out) : i \in 1..L \/ i = L + 1
    BY <1>1, <1>4
  <2>3. \A i \in 1..L, j \in 1..L : i < j => EndAt(v, i) =< v.out[j].at
    BY <1>4, <1>8 DEF Sound, Ordered
  <2>4. ASSUME NEW i \in 1..Len(v.out)
        PROVE  /\ EndAt(v, i) =< v.pos
               /\ \A j \in 1..Len(v.out) : i < j => EndAt(v, i) =< v.out[j].at
    <3>1. CASE i \in 1..L
      <4>1. EndAt(v, i) =< v.pos
        BY <1>1, <1>3, <2>1, <3>1
      <4>2. EndAt(v, i) =< v.out[L + 1].at
        BY <1>2, <1>4, <2>1, <3>1
      <4>. QED BY <2>2, <2>3, <3>1, <4>1, <4>2
    <3>2. CASE i = L + 1
      BY <1>1, <1>3, <1>4, <1>9, <3>2
    <3>. QED BY <2>2, <3>1, <3>2
  <2>. QED BY <2>4 DEF Ordered
<1>. QED BY <1>2, <1>3, <1>4, <1>5, <1>7, <1>8, <1>11, <1>12, <1>13 DEF Sound

LEMMA EmitSound ==
  ASSUME source \in Seq(Byte), NEW w, Sound(w), NEW kind \in Markers, NEW n \in Nat, n > 0 \/ kind = "Indent",
         w.pos + n =< Len(source), NEW v, v = Emit(w, kind, n)
  PROVE  /\ Sound(v)
         /\ Len(v.out) = Len(w.out) + 1 /\ v.pos = w.pos + n
         /\ \A i \in 1..Len(w.out) : v.out[i] = w.out[i] /\ EndAt(v, i) = EndAt(w, i)
         /\ v.out[Len(w.out) + 1].kind = kind /\ v.out[Len(w.out) + 1].at = w.pos
<1>1. kind # "Text" /\ kind \in ParsedKinds
  BY DEF Markers, ParsedKinds
<1>2. v = Appended(w, kind, n)
  BY <1>1 DEF Emit, Appended
<1>. QED BY <1>1, <1>2, AppendSound

(* Advance keeps every marker, and where every node begins.                  *)
LEMMA AdvanceSound ==
  ASSUME source \in Seq(Byte), NEW w, Sound(w), NEW n \in Nat, n > 0,
         w.pos + n =< Len(source), NEW v, v = Advance(w, n)
  PROVE  /\ Sound(v)
         /\ Len(v.out) >= Len(w.out) /\ v.pos = w.pos + n
         /\ \A i \in 1..Len(w.out) :
              v.out[i].kind = w.out[i].kind /\ v.out[i].at = w.out[i].at /\ EndAt(v, i) >= EndAt(w, i)
         /\ v.run = Len(v.out) /\ v.run # 0 /\ v.out[v.run].kind = "Text"
         /\ v.out[v.run].at =< w.pos
<1> DEFINE L == Len(w.out)
<1>1. /\ L \in Nat /\ w.pos \in Nat /\ w.pos + n \in Nat /\ w.run \in Nat
      /\ w.pos < w.pos + n
  BY Typed
<1>2. CASE w.run = 0
  <2>1. v = Appended(w, "Text", n) /\ "Text" \in ParsedKinds
    BY <1>2 DEF Advance, Appended, ParsedKinds
  <2>2. /\ Sound(v)
        /\ Len(v.out) = Len(w.out) + 1 /\ v.pos = w.pos + n
        /\ \A i \in 1..Len(w.out) : v.out[i] = w.out[i] /\ EndAt(v, i) = EndAt(w, i)
        /\ v.out[Len(w.out) + 1].kind = "Text" /\ v.out[Len(w.out) + 1].at = w.pos
    BY <1>2, <2>1, AppendSound
  <2>3. v.run = Len(w.out) + 1
    BY <2>1 DEF Appended
  <2>4. \A i \in 1..Len(w.out) : EndAt(v, i) >= EndAt(w, i)
    BY <2>2, Typed
  <2>5. v.out[v.run].kind = "Text" /\ v.out[v.run].at =< w.pos
    BY <1>1, <2>2, <2>3
  <2>6. Len(v.out) >= Len(w.out) /\ v.run # 0 /\ v.run = Len(v.out)
    BY <1>1, <2>2, <2>3
  <2>. QED BY <2>2, <2>4, <2>5, <2>6
<1>3. CASE w.run # 0
  <2> DEFINE x == Node("Text", w.out[L].at, w.pos + n)
  <2>1. w.run = L /\ w.out[L].kind = "Text" /\ L \in 1..L /\ w.out # <<>>
    BY <1>1, <1>3, Typed DEF Sound, RunIsLast
  <2>2. w.out[L].at \in Nat /\ w.out[L].at < w.pos /\ (L = 1 => w.out[L].at = 0)
    BY <2>1, Typed DEF Sound, Tiled, EndAt
  <2>3. /\ x \in ParsedNodes
        /\ x.kind = "Text" /\ x.at = w.out[L].at /\ x.text = Slice(w.out[L].at, w.pos + n)
    <3>1. w.out[L].at =< w.pos + n
      BY <1>1, <2>2
    <3>2. "Text" \in ParsedKinds
      BY DEF ParsedKinds
    <3>. QED BY <1>1, <2>2, <3>1, <3>2, NodeTyped
  <2>. HIDE DEF x
  <2>4. v = [w EXCEPT !.out = [w.out EXCEPT ![L] = x], !.pos = w.pos + n]
    BY <1>3, <2>1 DEF Advance, x
  <2>5. v.out = [w.out EXCEPT ![L] = x] /\ v.pos = w.pos + n /\ v.run = L
        /\ v = [out |-> v.out, pos |-> v.pos, run |-> v.run]
    BY <2>1, <2>4 DEF Sound, Walks
  <2>6. /\ v.out \in Seq(ParsedNodes)
        /\ Len(v.out) = L /\ v.out[L] = x
        /\ \A i \in 1..L : i # L => v.out[i] = w.out[i]
    BY <2>1, <2>3, <2>5, Typed
  <2>7. v \in Walks
    BY <1>1, <2>5, <2>6 DEF Walks
  <2>8. \A i \in 1..L : v.out[i].kind = w.out[i].kind /\ v.out[i].at = w.out[i].at
    BY <2>1, <2>3, <2>6
  <2>9. /\ EndAt(v, L) = w.pos + n /\ EndAt(w, L) = w.pos
        /\ \A i \in 1..L : i # L => EndAt(v, i) = EndAt(w, i)
    <3>1. \A i \in 1..L : i # L => i + 1 \in 1..L
      BY <1>1
    <3>. QED BY <2>5, <2>6, <2>8, <3>1 DEF EndAt
  <2>10. v.out # <<>>
    BY <2>1, <2>6
  <2>11. RunIsLast(v)
    BY <2>3, <2>5, <2>6, <2>10 DEF RunIsLast
  <2>12. Maximal(v)
    <3>1. \A i \in 2..L : i \in 1..L /\ i - 1 \in 1..L
      BY <1>1
    <3>. QED BY <2>6, <2>8, <3>1 DEF Sound, Maximal
  <2>13. Tiled(v)
    <3>1. ASSUME NEW i \in 1..L, i # L
          PROVE  /\ i = 1 => v.out[i].at = 0
                 /\ v.out[i].at =< EndAt(v, i)
                 /\ v.out[i].kind # "Indent" => v.out[i].at < EndAt(v, i)
                 /\ v.out[i].text = Slice(v.out[i].at, EndAt(v, i))
      BY <2>6, <2>9, <3>1 DEF Sound, Tiled
    <3>2. /\ L = 1 => v.out[L].at = 0
          /\ v.out[L].at =< EndAt(v, L)
          /\ v.out[L].kind # "Indent" => v.out[L].at < EndAt(v, L)
          /\ v.out[L].text = Slice(v.out[L].at, EndAt(v, L))
      BY <1>1, <2>2, <2>3, <2>6, <2>9
    <3>. QED BY <2>5, <2>6, <2>10, <3>1, <3>2 DEF Tiled
  <2>14. \A i \in 1..L : EndAt(v, i) >= EndAt(w, i)
    <3>1. \A i \in 1..L : EndAt(w, i) \in Nat
      BY Typed
    <3>. QED BY <1>1, <2>9, <3>1
  <2>15. v.run = Len(v.out) /\ v.run # 0 /\ v.out[v.run].kind = "Text" /\ v.out[v.run].at =< w.pos
    BY <1>1, <2>1, <2>2, <2>3, <2>5, <2>6
  <2>16. Ordered(v)
    <3>1. \A i \in 1..L : i # L => EndAt(v, i) =< w.pos /\ EndAt(v, i) \in Nat
      BY <2>9, Typed DEF Sound, Ordered
    <3>2. \A i \in 1..L : EndAt(v, i) =< v.pos
      BY <1>1, <2>5, <2>9, <3>1
    <3>3. \A i \in 1..L, j \in 1..L : i < j => i # L
      BY <1>1
    <3>4. \A i \in 1..L, j \in 1..L : i < j => EndAt(v, i) =< v.out[j].at
      BY <2>8, <2>9, <3>3 DEF Sound, Ordered
    <3>. QED BY <2>6, <3>2, <3>4 DEF Ordered
  <2>. QED BY <1>1, <2>5, <2>6, <2>7, <2>8, <2>11, <2>12, <2>13, <2>14, <2>15, <2>16 DEF Sound
<1>. QED BY <1>2, <1>3

(* Back to where a node begins.                                              *)
LEMMA RewindSound ==
  ASSUME source \in Seq(Byte), NEW w, Sound(w), NEW count \in Nat, count < Len(w.out),
         NEW v, v = Rewind(w, count, w.out[count + 1].at)
  PROVE  /\ Sound(v)
         /\ Len(v.out) = count /\ v.pos = w.out[count + 1].at
         /\ \A i \in 1..count : v.out[i] = w.out[i] /\ EndAt(v, i) = EndAt(w, i)
<1>1. Len(w.out) \in Nat /\ count + 1 \in 1..Len(w.out) /\ w.out[count + 1].at \in Nat
  <2>1. Len(w.out) \in Nat /\ count + 1 \in 1..Len(w.out)
    BY Typed
  <2>. QED BY <2>1, Typed
<1>2. /\ v.out = SubSeq(w.out, 1, count) /\ v.pos = w.out[count + 1].at
      /\ v.run = IF count > 0 /\ w.out[count].kind = "Text" THEN count ELSE 0
  BY DEF Rewind
<1>3. /\ v.out \in Seq(ParsedNodes)
      /\ Len(v.out) = count
      /\ \A i \in 1..count : v.out[i] = w.out[i]
  BY <1>1, <1>2, Typed
<1>4. v \in Walks
  BY <1>1, <1>2, <1>3 DEF Walks, Rewind
<1>5. \A i \in 1..count : i \in 1..Len(w.out) /\ i # Len(w.out) /\ (i # count => i + 1 \in 1..count)
  BY <1>1
<1>6. \A i \in 1..count : EndAt(v, i) = EndAt(w, i)
  BY <1>2, <1>3, <1>5 DEF EndAt
<1>7. count = 0 <=> v.out = <<>>
  BY <1>3
<1>8. count > 0 => count \in 1..count
  OBVIOUS
<1>9. RunIsLast(v)
  <2>1. CASE count = 0
    BY <1>2, <1>7, <2>1 DEF RunIsLast
  <2>2. CASE count > 0
    BY <1>2, <1>3, <1>7, <1>8, <2>2 DEF RunIsLast
  <2>. QED BY <2>1, <2>2
<1>10. Maximal(v)
  <2>1. \A i \in 2..count : i \in 1..count /\ i - 1 \in 1..count /\ i \in 2..Len(w.out)
    BY <1>1
  <2>. QED BY <1>3, <2>1 DEF Sound, Maximal
<1>11. Tiled(v)
  <2>1. w.out[count + 1].at =< EndAt(w, count + 1)
    BY <1>1 DEF Sound, Tiled
  <2>2. count = 0 => v.pos = 0
    BY <1>1, <1>2 DEF Sound, Tiled
  <2>3. v.pos =< Len(source)
    <3>1. EndAt(w, count + 1) =< w.pos /\ w.pos =< Len(source)
      BY <1>1 DEF Sound, Tiled, Ordered
    <3>2. Len(source) \in Nat /\ w.pos \in Nat /\ EndAt(w, count + 1) \in Nat
      <4>1. w.pos \in Nat /\ \A i \in 1..Len(w.out) : EndAt(w, i) \in Nat
        BY Typed
      <4>2. EndAt(w, count + 1) \in Nat
        BY <1>1, <4>1
      <4>3. Len(source) \in Nat
        OBVIOUS
      <4>. QED BY <4>1, <4>2, <4>3
    <3> DEFINE a == w.out[count + 1].at
               e == EndAt(w, count + 1)
               p == w.pos
    <3>3. /\ a \in Nat /\ e \in Nat /\ p \in Nat /\ v.pos = a
          /\ a =< e /\ e =< p /\ p =< Len(source)
      BY <1>1, <1>2, <2>1, <3>1, <3>2
    <3>. HIDE DEF a, e, p
    <3>. QED BY <3>2, <3>3
  <2>. QED BY <1>3, <1>5, <1>6, <1>7, <2>2, <2>3, SMTT(30) DEF Sound, Tiled
<1>12. Ordered(v)
  <2>1. \A i \in 1..count : EndAt(w, i) =< w.out[count + 1].at
    BY <1>1, <1>5 DEF Sound, Ordered
  <2>. QED BY <1>2, <1>3, <1>5, <1>6, <2>1 DEF Sound, Ordered
<1>. QED BY <1>2, <1>3, <1>4, <1>6, <1>9, <1>10, <1>11, <1>12 DEF Sound

---------------------------------------------------------------------------
(* What a loop reads.  A mark that is read stands in the source.             *)
ReadAt(m, pos) == m \in Seq(Byte) /\ m # NoMark /\ Occurs(m, pos)

Marked(r) ==
  /\ r = [act |-> r.act, group |-> r.group, mark |-> r.mark]
  /\ r.act \in {"open", "close", "reject", "separate", "stray", "text"}
  /\ ReadAt(r.mark, walk.pos)
  /\ r.act = "open" => r.group \in Slots

Good(r) == r = Nothing \/ Marked(r)

(* A set of sequences none of which is longer than len has a longest.        *)
LEMMA LongestIn ==
  ASSUME NEW len \in Nat, NEW S \in SUBSET Seq(Byte), S # {}, \A m \in S : Len(m) =< len
  PROVE  Longest(S) \in S
<1> DEFINE T == {len - Len(m) : m \in S}
<1>0. \A m \in S : Len(m) \in Nat /\ Len(m) =< len
  OBVIOUS
<1>1. T \subseteq Nat /\ T # {}
  <2>1. \A m \in S : len - Len(m) \in Nat
    BY <1>0
  <2>2. PICK m \in S : TRUE
    OBVIOUS
  <2>. QED BY <2>1, <2>2, Zenon
<1>2. \E t \in T : \A u \in T : ~(<<u, t>> \in OpToRel(<, Nat))
  BY <1>1, WFMin, NatLessThanWellFounded
<1>3. PICK t \in T : \A u \in T : ~(u < t)
  BY <1>1, <1>2 DEF OpToRel
<1>4. PICK m \in S : t = len - Len(m)
  BY <1>3
<1>5. \A k \in S : Len(k) =< Len(m)
  <2>. SUFFICES ASSUME NEW k \in S PROVE Len(k) =< Len(m)
    OBVIOUS
  <2>1. ~(len - Len(k) < t)
    BY <1>3
  <2>. QED BY <1>0, <1>4, <2>1
<1>. QED BY <1>4, <1>5 DEF Longest

LEMMA LiteralReads ==
  ASSUME LexisAssumption, source \in Seq(Byte), NEW pos \in Nat, NEW marks \in SUBSET Marks
  PROVE  Literal(marks, pos) = NoMark \/ ReadAt(Literal(marks, pos), pos)
<1> DEFINE S == {m \in marks : Stands(m, pos)}
<1>1. Literal(marks, pos) = Longest(S)
  BY DEF Literal
<1>2. S \in SUBSET Seq(Byte) /\ \A m \in S : m # NoMark /\ Occurs(m, pos)
  BY DEF LexisAssumption, Stands
<1>3. Len(source) \in Nat /\ \A m \in S : Len(m) =< Len(source)
  BY <1>2 DEF Occurs
<1>. HIDE DEF S
<1>4. CASE S = {}
  BY <1>1, <1>4 DEF Longest
<1>5. CASE S # {}
  <2>1. Longest(S) \in S
    BY <1>2, <1>3, <1>5, LongestIn
  <2>. QED BY <1>1, <1>2, <2>1 DEF ReadAt
<1>. QED BY <1>4, <1>5

LEMMA PatternReads ==
  ASSUME LexisAssumption, source \in Seq(Byte), NEW pos \in Nat, NEW marks \in SUBSET Marks
  PROVE  Pattern(marks, pos) = NoMark \/ ReadAt(Pattern(marks, pos), pos)
<1> DEFINE S == {m \in marks : Occurs(m, pos)}
           run == Longest(S)
<1>1. Pattern(marks, pos) = IF Stands(run, pos) THEN run ELSE NoMark
  BY DEF Pattern
<1>2. S \in SUBSET Seq(Byte) /\ \A m \in S : Occurs(m, pos)
  BY DEF LexisAssumption
<1>3. Len(source) \in Nat /\ \A m \in S : Len(m) =< Len(source)
  BY <1>2 DEF Occurs
<1>. HIDE DEF S
<1>4. CASE S = {}
  <2>1. run = NoMark
    BY <1>4 DEF Longest
  <2>. QED BY <1>1, <2>1
<1>5. CASE S # {}
  <2>1. run \in S
    BY <1>2, <1>3, <1>5, LongestIn
  <2>. QED BY <1>1, <1>2, <2>1 DEF ReadAt, Stands
<1>. QED BY <1>4, <1>5

LEMMA GroupTyped ==
  ASSUME TableAssumption, NEW g \in Slots
  PROVE  /\ Brackets[g] \in Groups /\ Len(Brackets) \in Nat
         /\ Brackets[g].open \in SUBSET Marks /\ Brackets[g].separators \in SUBSET Marks
         /\ Brackets[g].close \in SUBSET Marks /\ Brackets[g].inner \in Seq(Slots)
         /\ Brackets[g].closeIsOpen \in BOOLEAN /\ Brackets[g].closeRegex \in BOOLEAN
<1>1. Brackets[g] \in Groups /\ Len(Brackets) \in Nat
  BY DEF TableAssumption, Slots
<1>. QED BY <1>1 DEF Groups

LEMMA OpenerReads ==
  ASSUME LexisAssumption, TableAssumption, source \in Seq(Byte), NEW pos \in Nat, NEW g \in Slots
  PROVE  OpenerOf(g, pos) = NoMark \/ ReadAt(OpenerOf(g, pos), pos)
BY GroupTyped, PatternReads, LiteralReads DEF OpenerOf

LEMMA CloserReads ==
  ASSUME LexisAssumption, TableAssumption, source \in Seq(Byte), NEW pos \in Nat, NEW g \in Slots,
         NEW opened \in Seq(Byte)
  PROVE  CloserOf(g, opened, pos) = NoMark \/ ReadAt(CloserOf(g, opened, pos), pos)
<1> DEFINE b == Brackets[g]
<1>1. b.close \in SUBSET Marks
  BY GroupTyped
<1>2. CASE b.closeRegex
  BY <1>1, <1>2, PatternReads DEF CloserOf
<1>3. CASE ~b.closeRegex /\ b.closeIsOpen
  BY <1>3 DEF CloserOf, Stands, ReadAt
<1>4. CASE ~b.closeRegex /\ ~b.closeIsOpen
  <2>1. CloserOf(g, opened, pos) = NoMark
        \/ (CloserOf(g, opened, pos) = Longest(b.close) /\ Stands(Longest(b.close), pos))
    BY <1>4 DEF CloserOf
  <2>2. CASE b.close = {}
    BY <2>1, <2>2 DEF Longest, Stands
  <2>3. CASE b.close # {}
    <3>1. PICK m \in b.close : TRUE
      BY <2>3
    <3>2. \A k \in b.close : k = m
      BY <1>4, <3>1 DEF TableAssumption
    <3>3. m \in Seq(Byte) /\ Len(m) \in Nat
      BY <1>1, <3>1 DEF LexisAssumption
    <3>4. Longest(b.close) \in b.close
      <4>1. b.close \in SUBSET Seq(Byte)
        BY <1>1 DEF LexisAssumption
      <4>2. \A k \in b.close : Len(k) =< Len(m)
        BY <3>2, <3>3
      <4>. QED BY <2>3, <3>3, <4>1, <4>2, LongestIn
    <3>. QED BY <2>1, <3>2, <3>3, <3>4 DEF Stands, ReadAt
  <2>. QED BY <2>2, <2>3
<1>. QED BY <1>2, <1>3, <1>4

(* The first that applies is one of them.                                    *)
LEMMA MinIn ==
  ASSUME NEW S \in SUBSET Nat, S # {}
  PROVE  FSE!Min(S) \in S
<1>1. \E m \in S : \A n \in S : ~(<<n, m>> \in OpToRel(<, Nat))
  BY WFMin, NatLessThanWellFounded
<1>2. PICK m \in S : \A n \in S : ~(n < m)
  BY <1>1 DEF OpToRel
<1>3. \A n \in S : m =< n
  BY <1>2
<1>. QED BY <1>2, <1>3 DEF FSE!Min

LEMMA FirstOfIs ==
  ASSUME NEW s
  PROVE  \/ FirstOf(s) = Nothing
         \/ \E k \in 1..Len(s) : FirstOf(s) = s[k]
<1> DEFINE some == {k \in 1..Len(s) : s[k] # Nothing}
<1>1. FirstOf(s) = IF some = {} THEN Nothing ELSE s[FSE!Min(some)]
  <2>1. {FirstRead(made) : made \in {s}} = {FirstRead(s)}
    OBVIOUS
  <2>2. FirstOf(s) = FirstRead(s)
    BY <2>1 DEF FirstOf
  <2>. QED BY <2>2 DEF FirstRead
<1>2. some \in SUBSET Nat /\ some \subseteq 1..Len(s)
  OBVIOUS
<1>. HIDE DEF some
<1>3. CASE some # {}
  <2>1. FSE!Min(some) \in some
    BY <1>2, <1>3, MinIn
  <2>. QED BY <1>1, <1>2, <1>3, <2>1
<1>. QED BY <1>1, <1>3

LEMMA ReadingGood ==
  ASSUME NEW act \in {"open", "close", "reject", "separate", "stray", "text"}, NEW g, NEW m,
         m = NoMark \/ ReadAt(m, walk.pos),
         act = "open" => g \in Slots
  PROVE  Good(Reading(act, g, m))
BY DEF Good, Marked, Reading

LEMMA FirstGood ==
  ASSUME NEW s, \A k \in 1..Len(s) : Good(s[k])
  PROVE  Good(FirstOf(s))
BY FirstOfIs DEF Good

---------------------------------------------------------------------------
(* Every reading is good, and only a body ends.                              *)
FrameSet == [ group : Slots, opened : Seq(Byte), bound : BOOLEAN,
              count : Nat, pos : Nat, recorded : Nat ]

CanRead ==
  /\ LexisAssumption /\ TableAssumption
  /\ source \in Seq(Byte) /\ walk.pos \in Nat /\ walk.pos =< Len(source)

LEMMA OpeningGood ==
  ASSUME CanRead, NEW around
  PROVE  Good(Opening(walk.pos, around))
<1> DEFINE s == [g \in Slots |-> IF ParentAllowed(g, around)
                                 THEN Reading("open", g, OpenerOf(g, walk.pos)) ELSE Nothing]
<1>1. \A g \in Slots : Good(s[g])
  <2>1. \A g \in Slots : Good(Reading("open", g, OpenerOf(g, walk.pos)))
    BY OpenerReads, ReadingGood DEF CanRead
  <2>. QED BY <2>1 DEF Good
<1>2. Len(s) = Len(Brackets) /\ 1..Len(s) = Slots
  BY DEF CanRead, TableAssumption, Slots
<1>3. Good(FirstOf(s))
  <2>. HIDE DEF s
  <2>. QED BY <1>1, <1>2, FirstGood
<1>. QED BY <1>3 DEF Opening

LEMMA OpeningInnerGood ==
  ASSUME CanRead, NEW g \in Slots
  PROVE  Good(OpeningInner(g))
<1> DEFINE inner == Brackets[g].inner
           s == [k \in 1..Len(inner) |-> Reading("open", inner[k], OpenerOf(inner[k], walk.pos))]
<1>0. inner \in Seq(Slots)
  BY GroupTyped DEF CanRead
<1>1. \A k \in 1..Len(inner) : Good(s[k])
  <2>1. \A k \in 1..Len(inner) : inner[k] \in Slots
    BY <1>0
  <2>2. \A h \in Slots : Good(Reading("open", h, OpenerOf(h, walk.pos)))
    BY OpenerReads, ReadingGood DEF CanRead
  <2>. QED BY <2>1, <2>2
<1>2. 1..Len(s) = 1..Len(inner)
  BY <1>0
<1>3. Good(FirstOf(s))
  <2>. HIDE DEF s
  <2>. QED BY <1>1, <1>2, FirstGood
<1>. QED BY <1>3 DEF OpeningInner

LEMMA StrayGood ==
  ASSUME CanRead
  PROVE  Good(Stray)
<1> DEFINE s == [g \in Slots |->
                   IF Brackets[g].restricted \/ Brackets[g].closeIsOpen \/ Brackets[g].closeRegex
                   THEN Nothing
                   ELSE Reading("stray", g, CloserOf(g, NoMark, walk.pos))]
<1>1. \A g \in Slots : Good(s[g])
  <2>1. NoMark \in Seq(Byte)
    BY DEF NoMark
  <2>2. \A g \in Slots : Good(Reading("stray", g, CloserOf(g, NoMark, walk.pos)))
    BY <2>1, CloserReads, ReadingGood DEF CanRead
  <2>. QED BY <2>2 DEF Good
<1>2. 1..Len(s) = Slots
  BY DEF CanRead, TableAssumption, Slots
<1>3. Good(FirstOf(s))
  <2>. HIDE DEF s
  <2>. QED BY <1>1, <1>2, FirstGood
<1>. QED BY <1>3 DEF Stray

(* What stands in the source is read.                                        *)
LEMMA SliceReads ==
  ASSUME source \in Seq(Byte), NEW pos \in Nat, NEW n \in Nat, n > 0, pos + n =< Len(source)
  PROVE  ReadAt(Slice(pos, pos + n), pos)
<1> DEFINE m == Slice(pos, pos + n)
<1>1. m \in Seq(Byte) /\ Len(m) = n
  BY DEF Slice
<1>2. m # NoMark
  BY <1>1 DEF NoMark
<1>3. m = Slice(pos, pos + Len(m)) /\ pos + Len(m) =< Len(source)
  BY <1>1
<1>. HIDE DEF m
<1>4. ReadAt(m, pos)
  BY <1>1, <1>2, <1>3 DEF ReadAt, Occurs
<1>. QED BY <1>4 DEF m

LEMMA OneByteGood ==
  ASSUME CanRead, walk.pos < Len(source)
  PROVE  Good(OneByte)
<1>1. walk.pos + 1 =< Len(source)
  BY DEF CanRead
<1>2. ReadAt(Slice(walk.pos, walk.pos + 1), walk.pos)
  BY <1>1, SliceReads DEF CanRead
<1>. QED BY <1>2, ReadingGood DEF OneByte

LEMMA ClosingGood ==
  ASSUME CanRead, NEW f \in FrameSet
  PROVE  Good(Closing(f))
BY CloserReads, ReadingGood DEF CanRead, FrameSet, Closing

LEMMA SeparatingGood ==
  ASSUME CanRead, NEW f \in FrameSet
  PROVE  Good(Separating(f))
BY GroupTyped, LiteralReads, ReadingGood DEF CanRead, FrameSet, Separating

LEMMA OtherRunGood ==
  ASSUME CanRead, NEW f \in FrameSet
  PROVE  Good(OtherRun(f))
<1> DEFINE run == Pattern(Brackets[f.group].open, walk.pos)
<1>1. run = NoMark \/ ReadAt(run, walk.pos)
  BY GroupTyped, PatternReads DEF CanRead, FrameSet
<1>2. Good(Reading("reject", f.group, run)) /\ Good(Reading("text", f.group, run)) /\ Good(Nothing)
  BY <1>1, ReadingGood DEF Good
<1>. QED BY <1>2 DEF OtherRun

LEMMA EscapingGood ==
  ASSUME CanRead, NEW f \in FrameSet
  PROVE  Good(Escaping(f))
<1> DEFINE e == Lexis[f.group].escape
           m == IF walk.pos + Len(e) < Len(source)
                THEN Slice(walk.pos, walk.pos + Len(e) + 1) ELSE e
<1>1. e \in Seq(Byte)
  BY DEF CanRead, LexisAssumption, Lexes, FrameSet
<1>2. CASE e # <<>> /\ Occurs(e, walk.pos)
  <2>1. ReadAt(m, walk.pos)
    <3>1. CASE walk.pos + Len(e) < Len(source)
      <4> DEFINE p == walk.pos
                 l == Len(e)
                 n == l + 1
      <4>1. p \in Nat /\ l \in Nat /\ Len(source) \in Nat /\ p + l < Len(source)
        BY <1>1, <3>1 DEF CanRead
      <4>2. m = Slice(p, p + l + 1)
        BY <3>1
      <4>. HIDE DEF p, l
      <4>3. n \in Nat /\ n > 0 /\ p + n =< Len(source) /\ p + l + 1 = p + n
        BY <4>1
      <4>4. m = Slice(p, p + n)
        BY <4>2, <4>3
      <4>. HIDE DEF n, m
      <4>5. ReadAt(m, p)
        BY <4>1, <4>3, <4>4, SliceReads DEF CanRead
      <4>. QED BY <4>5 DEF p
    <3>2. CASE ~(walk.pos + Len(e) < Len(source))
      BY <1>1, <1>2, <3>2 DEF ReadAt, NoMark
    <3>. QED BY <3>1, <3>2
  <2>2. Good(Reading("text", f.group, m))
    BY <2>1, ReadingGood
  <2>. QED BY <1>2, <2>2 DEF Escaping
<1>3. CASE ~(e # <<>> /\ Occurs(e, walk.pos))
  BY <1>3 DEF Escaping, Good
<1>. QED BY <1>2, <1>3

LEMMA ReadIs ==
  ASSUME CanRead, stack \in Seq(FrameSet)
  PROVE  Good(Read) \/ (Read = Ending /\ stack # <<>>)
<1>0. CASE ~(walk.pos < Len(source))
  <2>1. walk.pos >= Len(source)
    BY <1>0 DEF CanRead
  <2>. QED BY <2>1 DEF Read, Finished, AtTop, OutOfBody, Good, Ending, Nothing
<1>1. CASE stack = <<>> /\ walk.pos < Len(source)
  <2> DEFINE s == TopReadings
  <2>1. s = << Opening(walk.pos, NoGroup), Stray, OneByte >>
    BY DEF TopReadings
  <2>2. Good(Opening(walk.pos, NoGroup)) /\ Good(Stray) /\ Good(OneByte)
    BY <1>1, OpeningGood, StrayGood, OneByteGood
  <2>. HIDE DEF s
  <2>3. \A k \in 1..Len(s) : Good(s[k])
    BY <2>1, <2>2
  <2>4. Good(FirstOf(s))
    BY <2>3, FirstGood
  <2>. QED BY <1>1, <2>4 DEF Read, AtTop, Good, s
<1>2. CASE stack # <<>> /\ walk.pos < Len(source)
  <2> DEFINE f == Frame
  <2>0. f \in FrameSet
    BY <1>2 DEF Frame, SQE!Last
  <2>. HIDE DEF f
  <2>1. /\ Good(Opening(walk.pos, f.group)) /\ Good(Stray) /\ Good(OneByte) /\ Good(Closing(f))
        /\ Good(Separating(f)) /\ Good(OtherRun(f)) /\ Good(Escaping(f)) /\ Good(OpeningInner(f.group))
    <3>1. f.group \in Slots
      BY <2>0 DEF FrameSet
    <3>. QED BY <1>2, <2>0, <3>1, OpeningGood, StrayGood, OneByteGood, ClosingGood, SeparatingGood,
                OtherRunGood, EscapingGood, OpeningInnerGood
  <2>2. EnclosingEnds = Ending \/ EnclosingEnds = Nothing
    BY DEF EnclosingEnds
  <2>3. Good(FirstOf(RestrictedReadings(f)))
    <3> DEFINE s == RestrictedReadings(f)
    <3>1. s = << Closing(f), Escaping(f), OpeningInner(f.group), OtherRun(f), OneByte >>
      BY DEF RestrictedReadings
    <3>. HIDE DEF s
    <3>2. \A k \in 1..Len(s) : Good(s[k])
      BY <2>1, <3>1
    <3>3. Good(FirstOf(s))
      BY <3>2, FirstGood
    <3>. QED BY <3>3 DEF s
  <2>4. Good(FirstOf(CodeReadings(f))) \/ FirstOf(CodeReadings(f)) = Ending
    <3> DEFINE s == CodeReadings(f)
               a == << Closing(f), OtherRun(f) >>
               b == << Opening(walk.pos, f.group), Closing(f), Separating(f), EnclosingEnds, Stray, OneByte >>
    <3>1. s = a \o b \/ s = <<>> \o b
      BY DEF CodeReadings
    <3>2. \A k \in 1..2 : Good(a[k])
      BY <2>1
    <3>3. \A k \in 1..6 : Good(b[k]) \/ b[k] = Ending
      BY <2>1, <2>2 DEF Good
    <3>4. Len(a) = 2 /\ Len(b) = 6
      OBVIOUS
    <3>5. \A k \in 1..Len(s) : Good(s[k]) \/ s[k] = Ending
      <4>. HIDE DEF Good
      <4>1. CASE s = a \o b
        <5>1. \A k \in 1..8 : s[k] = IF k =< 2 THEN a[k] ELSE b[k - 2]
          BY <4>1
        <5>2. Len(s) = 8
          BY <4>1
        <5>. HIDE DEF s, a, b
        <5>3. ASSUME NEW k \in 1..8 PROVE Good(s[k]) \/ s[k] = Ending
          <6>1. CASE k =< 2
            <7>1. k \in 1..2
              BY <6>1
            <7>. QED BY <3>2, <5>1, <6>1, <7>1
          <6>2. CASE ~(k =< 2)
            <7>1. k - 2 \in 1..6
              BY <6>2
            <7>. QED BY <3>3, <5>1, <6>2, <7>1
          <6>. QED BY <6>1, <6>2
        <5>. QED BY <5>2, <5>3
      <4>2. CASE s = <<>> \o b
        <5>1. s = b /\ Len(s) = 6
          BY <4>2
        <5>. HIDE DEF s, a, b
        <5>. QED BY <3>3, <5>1
      <4>. QED BY <3>1, <4>1, <4>2
    <3>. HIDE DEF s, a, b
    <3>6. Good(FirstOf(s)) \/ FirstOf(s) = Ending
      BY <3>5, FirstOfIs DEF Good
    <3>. QED BY <3>6 DEF s
  <2>5. OutOfBody(f) # Nothing => OutOfBody(f) = Ending
    BY DEF OutOfBody
  <2>6. Read = Nothing \/ Read = Ending \/ Read = FirstOf(RestrictedReadings(f))
        \/ Read = FirstOf(CodeReadings(f))
    BY <1>2 DEF Read, AtTop, f
  <2>. QED BY <1>2, <2>3, <2>4, <2>6 DEF Good
<1>. QED BY <1>0, <1>1, <1>2

---------------------------------------------------------------------------
(* The frames and the records of demotions, over a walk.                     *)
Records == [marker : Seq(Byte), run : Nat, offset : Nat]

\* A frame remembers where its opener is, and that it stands there.
FrameIn(w, f) ==
  /\ f.count + 1 \in 1..Len(w.out)
  /\ w.out[f.count + 1].kind = "Opener" /\ w.out[f.count + 1].at = f.pos
  /\ f.opened # NoMark /\ Occurs(f.opened, f.pos)

StackOK(w, st) ==
  /\ st \in Seq(FrameSet)
  /\ \A k \in 1..Len(st) : FrameIn(w, st[k])
  /\ \A j \in 1..Len(st), k \in 1..Len(st) : j < k => st[j].count < st[k].count

At(w, d) == w.out[d.run].at + d.offset

Anchored(w, d) ==
  /\ d.run \in 1..Len(w.out) /\ w.out[d.run].kind = "Text"
  /\ Occurs(d.marker, At(w, d))
  /\ At(w, d) + Len(d.marker) =< EndAt(w, d.run)

\* What was recorded when a group opened is in nodes before its opener.
RecordsKept(st, dm) ==
  /\ \A k \in 1..Len(st) :
       /\ st[k].recorded =< Len(dm)
       /\ \A i \in 1..st[k].recorded : dm[i].run =< st[k].count
  /\ \A j \in 1..Len(st), k \in 1..Len(st) : j < k => st[j].recorded =< st[k].recorded

RecordsOK(w, st, dm) ==
  /\ dm \in Seq(Records)
  /\ \A k \in 1..Len(dm) : Anchored(w, dm[k])
  /\ \A j \in 1..Len(dm), k \in 1..Len(dm) :
       j < k => At(w, dm[j]) + Len(dm[j].marker) =< At(w, dm[k])
  /\ RecordsKept(st, dm)

\* The first n nodes of w are in v, at least as long.
Keeps(w, v, n) ==
  /\ n =< Len(w.out) /\ n =< Len(v.out)
  /\ \A i \in 1..n : /\ v.out[i].kind = w.out[i].kind /\ v.out[i].at = w.out[i].at
                     /\ EndAt(v, i) >= EndAt(w, i)

LEMMA FrameTyped ==
  ASSUME NEW w, NEW st, StackOK(w, st), NEW k \in 1..Len(st)
  PROVE  /\ Len(st) \in Nat /\ st[k] \in FrameSet /\ FrameIn(w, st[k])
         /\ st[k].group \in Slots /\ st[k].opened \in Seq(Byte) /\ st[k].bound \in BOOLEAN
         /\ st[k].count \in Nat /\ st[k].pos \in Nat /\ st[k].recorded \in Nat
<1>1. Len(st) \in Nat /\ st[k] \in FrameSet /\ FrameIn(w, st[k])
  BY DEF StackOK
<1>. QED BY <1>1 DEF FrameSet

LEMMA RecordTyped ==
  ASSUME NEW w, NEW st, NEW dm, Sound(w), RecordsOK(w, st, dm), NEW k \in 1..Len(dm)
  PROVE  /\ Len(dm) \in Nat /\ dm[k] \in Records /\ Anchored(w, dm[k])
         /\ dm[k].marker \in Seq(Byte) /\ dm[k].run \in Nat /\ dm[k].offset \in Nat
         /\ Len(dm[k].marker) \in Nat /\ At(w, dm[k]) \in Nat /\ EndAt(w, dm[k].run) \in Nat
<1>1. Len(dm) \in Nat /\ dm[k] \in Records /\ Anchored(w, dm[k])
  BY DEF RecordsOK
<1>2. dm[k].marker \in Seq(Byte) /\ dm[k].run \in Nat /\ dm[k].offset \in Nat
  BY <1>1 DEF Records
<1>3. w.out[dm[k].run].at \in Nat /\ EndAt(w, dm[k].run) \in Nat
  BY <1>1, Typed DEF Anchored
<1>. QED BY <1>1, <1>2, <1>3, SMTT(30) DEF At

LEMMA FrameKept ==
  ASSUME NEW w, NEW v, NEW n \in Nat, Keeps(w, v, n), Sound(w), Sound(v),
         NEW f \in FrameSet, FrameIn(w, f), f.count + 1 =< n
  PROVE  FrameIn(v, f)
<1>1. f.count \in Nat /\ Len(v.out) \in Nat
  BY Typed DEF FrameSet
<1>2. f.count + 1 \in 1..n /\ f.count + 1 \in 1..Len(v.out)
  BY <1>1 DEF Keeps
<1>. QED BY <1>2 DEF Keeps, FrameIn

LEMMA AnchorKept ==
  ASSUME NEW w, NEW v, NEW n \in Nat, Keeps(w, v, n), Sound(w), Sound(v),
         NEW d \in Records, Anchored(w, d), d.run =< n
  PROVE  Anchored(v, d) /\ At(v, d) = At(w, d)
<1>1. d.run \in 1..Len(w.out) /\ d.run \in 1..n /\ d.run \in 1..Len(v.out)
  <2>1. d.run \in Nat /\ d.run >= 1 /\ d.run \in 1..Len(w.out)
    BY DEF Records, Anchored
  <2>2. n =< Len(v.out) /\ Len(v.out) \in Nat
    BY Typed DEF Keeps
  <2>. QED BY <2>1, <2>2
<1>2. At(v, d) = At(w, d)
  BY <1>1 DEF Keeps, At
<1>3. EndAt(v, d.run) >= EndAt(w, d.run) /\ EndAt(v, d.run) \in Nat /\ EndAt(w, d.run) \in Nat
  BY <1>1, Typed DEF Keeps
<1>4. w.out[d.run].at \in Nat /\ d.offset \in Nat /\ Len(d.marker) \in Nat
  BY <1>1, Typed DEF Records
<1>5. At(w, d) + Len(d.marker) \in Nat
  BY <1>4 DEF At
<1>6. At(v, d) + Len(d.marker) =< EndAt(v, d.run)
  <2> DEFINE x == At(w, d) + Len(d.marker)
  <2>1. x =< EndAt(w, d.run) /\ x \in Nat /\ At(v, d) + Len(d.marker) = x
    BY <1>2, <1>5 DEF Anchored
  <2>. HIDE DEF x
  <2>. QED BY <1>3, <2>1
<1>7. v.out[d.run].kind = "Text"
  BY <1>1 DEF Keeps, Anchored
<1>. QED BY <1>1, <1>2, <1>6, <1>7 DEF Anchored

(* Nodes are added, or the last one grows.                                   *)
LEMMA ExtendKept ==
  ASSUME NEW w, NEW v, NEW st, NEW dm, Sound(w), Sound(v), Keeps(w, v, Len(w.out)),
         StackOK(w, st), RecordsOK(w, st, dm)
  PROVE  StackOK(v, st) /\ RecordsOK(v, st, dm)
<1>1. Len(w.out) \in Nat
  BY Typed
<1>2. ASSUME NEW k \in 1..Len(st)
      PROVE  FrameIn(v, st[k])
  <2>1. st[k] \in FrameSet /\ FrameIn(w, st[k]) /\ st[k].count + 1 =< Len(w.out)
    BY <1>1, FrameTyped DEF FrameIn
  <2>. QED BY <1>1, <2>1, FrameKept
<1>3. ASSUME NEW k \in 1..Len(dm)
      PROVE  Anchored(v, dm[k]) /\ At(v, dm[k]) = At(w, dm[k])
  <2>1. dm[k] \in Records /\ Anchored(w, dm[k]) /\ dm[k].run =< Len(w.out)
    BY <1>1, RecordTyped DEF Anchored
  <2>. QED BY <1>1, <2>1, AnchorKept
<1>4. StackOK(v, st)
  BY <1>2 DEF StackOK
<1>. QED BY <1>3, <1>4 DEF RecordsOK

(* A frame is given up.                                                      *)
LEMMA PopKept ==
  ASSUME NEW w, NEW st, NEW dm, StackOK(w, st), RecordsOK(w, st, dm), NEW sv, sv = SQE!Front(st)
  PROVE  StackOK(w, sv) /\ RecordsOK(w, sv, dm)
<1>1. st \in Seq(FrameSet) /\ Len(st) \in Nat
  BY DEF StackOK
<1>2. sv \in Seq(FrameSet) /\ \A k \in 1..Len(sv) : k \in 1..Len(st) /\ sv[k] = st[k]
  BY <1>1 DEF SQE!Front
<1>3. StackOK(w, sv)
  BY <1>2 DEF StackOK
<1>4. RecordsKept(sv, dm)
  BY <1>2 DEF RecordsOK, RecordsKept
<1>. QED BY <1>3, <1>4 DEF RecordsOK

(* A group opens.                                                            *)
LEMMA PushKept ==
  ASSUME NEW w, NEW st, NEW dm, Sound(w), StackOK(w, st), RecordsOK(w, st, dm),
         NEW f \in FrameSet, FrameIn(w, f),
         \A k \in 1..Len(st) : st[k].count < f.count,
         f.recorded = Len(dm), \A k \in 1..Len(dm) : dm[k].run =< f.count,
         NEW sv, sv = Append(st, f)
  PROVE  StackOK(w, sv) /\ RecordsOK(w, sv, dm)
<1>1. st \in Seq(FrameSet) /\ Len(st) \in Nat /\ Len(dm) \in Nat
  BY DEF StackOK, RecordsOK
<1>2. /\ sv \in Seq(FrameSet) /\ Len(sv) = Len(st) + 1 /\ sv[Len(st) + 1] = f
      /\ \A k \in 1..Len(st) : sv[k] = st[k]
  BY <1>1
<1>3. \A k \in 1..Len(sv) : k \in 1..Len(st) \/ k = Len(st) + 1
  BY <1>1, <1>2
<1>4. \A j \in 1..Len(sv), k \in 1..Len(sv) : j < k => j \in 1..Len(st)
  BY <1>1, <1>2
<1>5. StackOK(w, sv)
  <2>1. \A k \in 1..Len(sv) : FrameIn(w, sv[k])
    BY <1>2, <1>3 DEF StackOK
  <2>2. ASSUME NEW j \in 1..Len(sv), NEW k \in 1..Len(sv), j < k
        PROVE  sv[j].count < sv[k].count
    <3>1. j \in 1..Len(st)
      BY <1>4, <2>2
    <3>2. CASE k \in 1..Len(st)
      BY <1>2, <2>2, <3>1, <3>2 DEF StackOK
    <3>3. CASE k = Len(st) + 1
      BY <1>2, <3>1, <3>3
    <3>. QED BY <1>3, <3>2, <3>3
  <2>. QED BY <1>2, <2>1, <2>2 DEF StackOK
<1>6. RecordsKept(sv, dm)
  <2>1. \A k \in 1..Len(st) : /\ st[k].recorded =< Len(dm)
                              /\ \A i \in 1..st[k].recorded : dm[i].run =< st[k].count
    BY DEF RecordsOK, RecordsKept
  <2>2. \A k \in 1..Len(sv) : /\ sv[k].recorded =< Len(dm)
                              /\ \A i \in 1..sv[k].recorded : dm[i].run =< sv[k].count
    BY <1>1, <1>2, <1>3, <2>1
  <2>3. ASSUME NEW j \in 1..Len(sv), NEW k \in 1..Len(sv), j < k
        PROVE  sv[j].recorded =< sv[k].recorded
    <3>1. j \in 1..Len(st)
      BY <1>4, <2>3
    <3>2. CASE k \in 1..Len(st)
      BY <1>2, <2>3, <3>1, <3>2 DEF RecordsOK, RecordsKept
    <3>3. CASE k = Len(st) + 1
      BY <1>2, <2>1, <3>1, <3>3
    <3>. QED BY <1>3, <3>2, <3>3
  <2>. QED BY <2>2, <2>3 DEF RecordsKept
<1>. QED BY <1>5, <1>6 DEF RecordsOK

(* What Demote folds back: the walk before the group's opener, and its text. *)
CutAt(w, u, c) ==
  /\ Sound(u) /\ Len(u.out) = c /\ u.pos = w.out[c + 1].at
  /\ \A i \in 1..c : u.out[i] = w.out[i] /\ EndAt(u, i) = EndAt(w, i)

LEMMA RewindCuts ==
  ASSUME source \in Seq(Byte), NEW w, Sound(w), NEW c \in Nat, c < Len(w.out)
  PROVE  CutAt(w, Rewind(w, c, w.out[c + 1].at), c)
<1> DEFINE u == Rewind(w, c, w.out[c + 1].at)
<1>1. u = Rewind(w, c, w.out[c + 1].at)
  OBVIOUS
<1>. HIDE DEF u
<1>2. CutAt(w, u, c)
  BY <1>1, RewindSound DEF CutAt
<1>. QED BY <1>2 DEF u

TextAt(v, p, n) ==
  /\ Sound(v) /\ v.pos = p + n
  /\ v.run = Len(v.out) /\ v.run # 0 /\ v.out[v.run].kind = "Text"
  /\ v.out[v.run].at =< p

Grown(w, v) ==
  /\ Len(v.out) >= Len(w.out)
  /\ \A i \in 1..Len(w.out) :
       v.out[i].kind = w.out[i].kind /\ v.out[i].at = w.out[i].at /\ EndAt(v, i) >= EndAt(w, i)

LEMMA AdvanceGrows ==
  ASSUME source \in Seq(Byte), NEW w, Sound(w), NEW n \in Nat, n > 0,
         w.pos + n =< Len(source)
  PROVE  TextAt(Advance(w, n), w.pos, n) /\ Grown(w, Advance(w, n))
<1> DEFINE v == Advance(w, n)
<1>1. v = Advance(w, n)
  OBVIOUS
<1>. HIDE DEF v
<1>2. TextAt(v, w.pos, n) /\ Grown(w, v)
  BY <1>1, AdvanceSound DEF TextAt, Grown
<1>. QED BY <1>2 DEF v

LEMMA FoldKeeps ==
  ASSUME NEW w, Sound(w), NEW c \in Nat, c < Len(w.out),
         NEW u, CutAt(w, u, c), NEW v, Sound(v), Grown(u, v)
  PROVE  Keeps(w, v, c)
<1>1. Len(w.out) \in Nat /\ Len(v.out) \in Nat /\ Len(u.out) = c
  BY Typed DEF CutAt
<1>2. \A i \in 1..c : /\ v.out[i].kind = w.out[i].kind /\ v.out[i].at = w.out[i].at
                      /\ EndAt(v, i) >= EndAt(w, i)
  BY <1>1 DEF CutAt, Grown
<1>3. c =< Len(w.out) /\ c =< Len(v.out)
  BY <1>1 DEF Grown
<1>. QED BY <1>2, <1>3 DEF Keeps

(* The record of it is anchored where the opener stood.                      *)
LEMMA RecordAnchored ==
  ASSUME NEW v, Sound(v), NEW p \in Nat, NEW n \in Nat, NEW m \in Seq(Byte), n = Len(m),
         Occurs(m, p), TextAt(v, p, n),
         NEW d, d.marker = m, d.run = v.run, d.offset = p - v.out[v.run].at,
         d = [marker |-> d.marker, run |-> d.run, offset |-> d.offset]
  PROVE  d \in Records /\ At(v, d) = p /\ Anchored(v, d)
<1> DEFINE a == v.out[v.run].at
           e == p + n
<1>0. /\ v.pos = p + n
      /\ v.run = Len(v.out) /\ v.run # 0 /\ v.out[v.run].kind = "Text" /\ v.out[v.run].at =< p
  BY DEF TextAt
<1>1. v.run \in 1..Len(v.out) /\ v.run \in Nat
  BY <1>0, Typed
<1>2. a \in Nat /\ a =< p
  BY <1>0, <1>1, Typed
<1>3. d.offset = p - a /\ EndAt(v, v.run) = e /\ e \in Nat /\ e = p + n
  BY <1>0 DEF EndAt
<1>. HIDE DEF a, e
<1>4. p - a \in Nat /\ a + (p - a) = p
  BY <1>2
<1>5. d \in Records
  BY <1>1, <1>3, <1>4 DEF Records
<1>6. At(v, d) = p
  BY <1>3, <1>4 DEF At, a
<1>7. At(v, d) + Len(d.marker) =< EndAt(v, d.run)
  <2>1. At(v, d) + Len(d.marker) = p + n /\ EndAt(v, d.run) = e
    BY <1>3, <1>6
  <2>. QED BY <1>3, <2>1
<1>8. Occurs(d.marker, At(v, d)) /\ d.run \in 1..Len(v.out) /\ v.out[d.run].kind = "Text"
  BY <1>0, <1>1, <1>6
<1>. QED BY <1>5, <1>6, <1>7, <1>8 DEF Anchored

Cut(t, s, q, x) ==
  /\ Len(t) = q + 1 /\ t[q + 1] = x
  /\ \A k \in 1..q : t[k] = s[k] /\ k \in 1..Len(s)

LEMMA CutAppend ==
  ASSUME NEW S, NEW s \in Seq(S), NEW q \in Nat, q =< Len(s), NEW x \in S,
         NEW t, t = Append(SubSeq(s, 1, q), x)
  PROVE  t \in Seq(S) /\ Cut(t, s, q, x)
<1> DEFINE b == SubSeq(s, 1, q)
<1>1. b \in Seq(S) /\ Len(b) = q /\ \A k \in 1..q : b[k] = s[k] /\ k \in 1..Len(s)
  OBVIOUS
<1>2. t = Append(b, x)
  OBVIOUS
<1>. HIDE DEF b
<1>. QED BY <1>1, <1>2 DEF Cut

Popped(t, s, n) ==
  /\ n \in 1..Len(s) /\ Len(t) = n - 1
  /\ \A k \in 1..(n - 1) : t[k] = s[k] /\ k \in 1..Len(s)

LEMMA FrontIs ==
  ASSUME NEW S, NEW s \in Seq(S), s # <<>>
  PROVE  /\ SQE!Last(s) = s[Len(s)] /\ SQE!Front(s) \in Seq(S)
         /\ Popped(SQE!Front(s), s, Len(s))
<1>1. Len(s) \in Nat /\ Len(s) # 0
  OBVIOUS
<1> DEFINE n == Len(s) - 1
<1>2. n \in Nat /\ n =< Len(s) /\ SQE!Front(s) = SubSeq(s, 1, n)
  BY <1>1 DEF SQE!Front
<1>3. SQE!Last(s) = s[Len(s)] /\ Len(s) \in 1..Len(s)
  BY <1>1 DEF SQE!Last
<1>. HIDE DEF n
<1>4. SubSeq(s, 1, n) \in Seq(S) /\ Len(SubSeq(s, 1, n)) = n
  BY <1>2
<1>5. \A k \in 1..n : SubSeq(s, 1, n)[k] = s[k] /\ k \in 1..Len(s)
  BY <1>1, <1>2
<1>6. Popped(SubSeq(s, 1, n), s, Len(s))
  BY <1>3, <1>4, <1>5 DEF n, Popped
<1>. QED BY <1>2, <1>3, <1>4, <1>6

(* A group is demoted: the nodes from its opener on, its frame and the       *)
(* records made since it opened are dropped, and its opener is text.         *)
LEMMA FramesCut ==
  ASSUME NEW w, NEW st, NEW v, NEW c \in Nat, NEW top \in 1..Len(st),
         Sound(w), Sound(v), StackOK(w, st), Keeps(w, v, c), c = st[top].count,
         NEW sv \in Seq(FrameSet), Popped(sv, st, top)
  PROVE  StackOK(v, sv)
<1>1. ASSUME NEW k \in 1..Len(sv)
      PROVE  FrameIn(v, sv[k])
  <2>1. k \in 1..Len(st) /\ k < top /\ sv[k] = st[k]
    BY DEF Popped
  <2>2. st[k].count < c
    BY <2>1 DEF StackOK
  <2>3. st[k] \in FrameSet /\ FrameIn(w, st[k]) /\ st[k].count \in Nat
    BY <2>1, FrameTyped
  <2>4. st[k].count + 1 =< c
    BY <2>2, <2>3
  <2>. QED BY <2>1, <2>3, <2>4, FrameKept
<1>2. ASSUME NEW j \in 1..Len(sv), NEW k \in 1..Len(sv), j < k
      PROVE  sv[j].count < sv[k].count
  <2>1. j \in 1..Len(st) /\ k \in 1..Len(st) /\ sv[j] = st[j] /\ sv[k] = st[k]
    BY DEF Popped
  <2>. QED BY <1>2, <2>1 DEF StackOK
<1>. QED BY <1>1, <1>2 DEF StackOK

LEMMA RecordsCut ==
  ASSUME NEW w, NEW st, NEW dm, NEW v, NEW c \in Nat, NEW p \in Nat, NEW q \in Nat,
         NEW top \in 1..Len(st),
         Sound(w), Sound(v), StackOK(w, st), RecordsOK(w, st, dm), Keeps(w, v, c),
         c + 1 \in 1..Len(w.out), w.out[c + 1].at = p,
         c = st[top].count, q = st[top].recorded,
         NEW d, Anchored(v, d), At(v, d) = p,
         NEW dv \in Seq(Records), Cut(dv, dm, q, d),
         NEW sv \in Seq(FrameSet), Popped(sv, st, top)
  PROVE  RecordsOK(v, sv, dv)
<1>p. Len(sv) = top - 1 /\ \A k \in 1..(top - 1) : sv[k] = st[k] /\ k \in 1..Len(st)
  BY DEF Popped
<1>c. /\ Len(dv) = q + 1 /\ dv[q + 1] = d
      /\ \A k \in 1..q : dv[k] = dm[k] /\ k \in 1..Len(dm)
  BY DEF Cut
<1>1. RecordsKept(st, dm) /\ \A i \in 1..q : dm[i].run =< c
  BY DEF RecordsOK, RecordsKept
<1>2. ASSUME NEW k \in 1..q
      PROVE  /\ Anchored(v, dv[k]) /\ At(v, dv[k]) = At(w, dm[k]) /\ dv[k] = dm[k]
             /\ At(w, dm[k]) + Len(dm[k].marker) =< p
  <2>1. k \in 1..Len(dm) /\ dv[k] = dm[k] /\ dm[k].run =< c
    BY <1>1, <1>c
  <2>2. /\ dm[k] \in Records /\ Anchored(w, dm[k]) /\ dm[k].run \in Nat
        /\ Len(dm[k].marker) \in Nat /\ At(w, dm[k]) \in Nat /\ EndAt(w, dm[k].run) \in Nat
    BY <2>1, RecordTyped
  <2>3. Anchored(v, dm[k]) /\ At(v, dm[k]) = At(w, dm[k])
    BY <2>1, <2>2, AnchorKept
  <2>4. dm[k].run \in 1..Len(w.out) /\ dm[k].run < c + 1
    <3> DEFINE y == dm[k].run
    <3>1. y \in 1..Len(w.out)
      BY <2>2 DEF Anchored
    <3>2. y \in Nat /\ y =< c
      BY <2>1, <2>2
    <3>. HIDE DEF y
    <3>3. y < c + 1
      BY <3>2
    <3>. QED BY <3>1, <3>3 DEF y
  <2>5. EndAt(w, dm[k].run) =< p
    BY <2>4 DEF Sound, Ordered
  <2>6. At(w, dm[k]) + Len(dm[k].marker) =< p
    <3> DEFINE x == At(w, dm[k]) + Len(dm[k].marker)
               e == EndAt(w, dm[k].run)
    <3>1. x \in Nat /\ e \in Nat
      <4> DEFINE g == At(w, dm[k])
                 l == Len(dm[k].marker)
      <4>1. g \in Nat /\ l \in Nat /\ e \in Nat
        BY <2>2
      <4>. HIDE DEF g, l, e
      <4>2. g + l \in Nat
        BY <4>1
      <4>. QED BY <4>1, <4>2 DEF g, l
    <3>2. x =< e
      BY <2>2 DEF Anchored
    <3>3. e =< p
      BY <2>5
    <3>. HIDE DEF x, e
    <3>4. x =< p
      BY <3>1, <3>2, <3>3
    <3>. QED BY <3>4 DEF x
  <2>. QED BY <2>1, <2>3, <2>6
<1>3. \A k \in 1..Len(dv) : k \in 1..q \/ k = q + 1
  BY <1>c
<1>4. \A k \in 1..Len(dv) : Anchored(v, dv[k])
  BY <1>2, <1>3, <1>c
<1>5. ASSUME NEW j \in 1..Len(dv), NEW k \in 1..Len(dv), j < k
      PROVE  At(v, dv[j]) + Len(dv[j].marker) =< At(v, dv[k])
  <2>1. j \in 1..q
    BY <1>5, <1>c
  <2>2. CASE k \in 1..q
    <3>1. At(w, dm[j]) + Len(dm[j].marker) =< At(w, dm[k])
      BY <1>5, <1>c, <2>1, <2>2 DEF RecordsOK
    <3>2. At(v, dv[j]) = At(w, dm[j]) /\ dv[j] = dm[j] /\ At(v, dv[k]) = At(w, dm[k])
      BY <1>2, <2>1, <2>2
    <3>. QED BY <3>1, <3>2
  <2>3. CASE k = q + 1
    <3>1. At(w, dm[j]) + Len(dm[j].marker) =< p /\ At(v, dv[j]) = At(w, dm[j]) /\ dv[j] = dm[j]
      BY <1>2, <2>1
    <3>2. At(v, dv[k]) = p
      BY <1>c, <2>3
    <3>. QED BY <3>1, <3>2
  <2>. QED BY <1>3, <2>2, <2>3
<1>6. RecordsKept(sv, dv)
  <2>1. ASSUME NEW k \in 1..Len(sv)
        PROVE  /\ sv[k].recorded =< Len(dv)
               /\ \A i \in 1..sv[k].recorded : dv[i].run =< sv[k].count
    <3> DEFINE x == st[k].recorded
    <3>1. k \in 1..Len(st) /\ k < top /\ sv[k] = st[k]
      BY <1>p
    <3>2. x =< q
      BY <1>1, <3>1 DEF RecordsKept
    <3>3. x \in Nat
      BY <3>1, FrameTyped
    <3>4. \A i \in 1..x : dm[i].run =< st[k].count
      BY <1>1, <3>1 DEF RecordsKept
    <3>. HIDE DEF x
    <3>5. x =< Len(dv) /\ \A i \in 1..x : i \in 1..q
      BY <1>c, <3>2, <3>3
    <3>6. \A i \in 1..x : dv[i] = dm[i]
      BY <1>c, <3>5
    <3>. QED BY <3>1, <3>4, <3>5, <3>6 DEF x
  <2>2. \A j \in 1..Len(sv), k \in 1..Len(sv) : j < k => sv[j].recorded =< sv[k].recorded
    BY <1>1, <1>p DEF RecordsKept
  <2>. QED BY <2>1, <2>2 DEF RecordsKept
<1>. QED BY <1>4, <1>5, <1>6 DEF RecordsOK

---------------------------------------------------------------------------
(* The invariant of a parse, and that every step keeps it.                   *)
ParseInv ==
  /\ source \in Seq(Byte)
  /\ Sound(walk)
  /\ StackOK(walk, stack)
  /\ RecordsOK(walk, stack, demoted)

LEMMA Primed ==
  ASSUME ParseInv, source' = source,
         Sound(walk'), StackOK(walk', stack'), RecordsOK(walk', stack', demoted')
  PROVE  ParseInv'
BY DEF ParseInv, Sound, Walks, Tiled, Ordered, RunIsLast, Maximal, EndAt, Slice,
       StackOK, FrameIn, Occurs, RecordsOK, Anchored, At, RecordsKept,
       Records, FrameSet, ParsedNodes, ParsedKinds, Markers, NoMark, Slots

LEMMA ReadWhere ==
  ASSUME ParseInv, NEW r, r = Read, r # Nothing
  PROVE  Marked(r) \/ (r = Ending /\ stack # <<>>)
<1>1. CanRead
  <2>1. walk.pos \in Nat /\ walk.pos =< Len(source)
    BY Typed DEF ParseInv, Sound, Tiled
  <2>. QED BY <2>1, LexisAssumption, TableAssumption DEF CanRead, ParseInv
<1>2. stack \in Seq(FrameSet)
  BY DEF ParseInv, StackOK
<1>. QED BY <1>1, <1>2, ReadIs DEF Good

\* A reading that emits or takes bytes has some, and the source has them.
LEMMA MarkedLen ==
  ASSUME ParseInv, NEW r, Marked(r)
  PROVE  /\ r.mark \in Seq(Byte) /\ r.mark # NoMark /\ Occurs(r.mark, walk.pos)
         /\ Len(r.mark) \in Nat /\ Len(r.mark) > 0
         /\ walk.pos + Len(r.mark) =< Len(source)
<1>1. r.mark \in Seq(Byte) /\ r.mark # NoMark /\ Occurs(r.mark, walk.pos)
  BY DEF Marked, ReadAt
<1>2. Len(r.mark) \in Nat /\ Len(r.mark) > 0
  BY <1>1 DEF NoMark
<1>. QED BY <1>1, <1>2 DEF Occurs

\* A node is emitted, and the stack and the records stand.
LEMMA NodeKept ==
  ASSUME ParseInv, NEW kind \in Markers, NEW n \in Nat, n > 0 \/ kind = "Indent",
         walk.pos + n =< Len(source), NEW v, v = Emit(walk, kind, n)
  PROVE  /\ Sound(v) /\ StackOK(v, stack) /\ RecordsOK(v, stack, demoted)
         /\ Len(walk.out) \in Nat /\ Len(v.out) = Len(walk.out) + 1
         /\ v.out[Len(walk.out) + 1].kind = kind /\ v.out[Len(walk.out) + 1].at = walk.pos
         /\ \A i \in 1..Len(walk.out) : v.out[i] = walk.out[i]
<1>1. /\ Sound(v) /\ Len(v.out) = Len(walk.out) + 1
      /\ \A i \in 1..Len(walk.out) : v.out[i] = walk.out[i] /\ EndAt(v, i) = EndAt(walk, i)
      /\ v.out[Len(walk.out) + 1].kind = kind /\ v.out[Len(walk.out) + 1].at = walk.pos
  BY EmitSound DEF ParseInv
<1>2. /\ Len(walk.out) \in Nat
      /\ \A i \in 1..Len(walk.out) : EndAt(walk, i) \in Nat
  BY Typed DEF ParseInv
<1>3. Keeps(walk, v, Len(walk.out))
  <2>1. Len(walk.out) =< Len(walk.out) /\ Len(walk.out) =< Len(v.out)
    BY <1>1, <1>2
  <2>2. ASSUME NEW i \in 1..Len(walk.out)
        PROVE  /\ v.out[i].kind = walk.out[i].kind /\ v.out[i].at = walk.out[i].at
               /\ EndAt(v, i) >= EndAt(walk, i)
    <3>1. v.out[i] = walk.out[i] /\ EndAt(v, i) = EndAt(walk, i) /\ EndAt(walk, i) \in Nat
      BY <1>1, <1>2
    <3>. QED BY <3>1
  <2>. QED BY <2>1, <2>2 DEF Keeps
<1>. QED BY <1>1, <1>2, <1>3, ExtendKept DEF ParseInv

LEMMA EmitKept ==
  ASSUME ParseInv, NEW r, Marked(r), NEW kind \in Markers, NEW v, v = Emit(walk, kind, Len(r.mark))
  PROVE  /\ Sound(v) /\ StackOK(v, stack) /\ RecordsOK(v, stack, demoted)
         /\ Len(walk.out) \in Nat /\ Len(v.out) = Len(walk.out) + 1
         /\ v.out[Len(walk.out) + 1].kind = kind /\ v.out[Len(walk.out) + 1].at = walk.pos
<1> DEFINE n == Len(r.mark)
<1>1. n \in Nat /\ n > 0 /\ walk.pos + n =< Len(source)
  BY MarkedLen
<1>2. v = Emit(walk, kind, n)
  OBVIOUS
<1>. HIDE DEF n
<1>. QED BY <1>1, <1>2, NodeKept

LEMMA OpenGroupInv ==
  ASSUME ParseInv, NEW r, Marked(r), OpenGroup(r)
  PROVE  ParseInv'
<1> DEFINE L == Len(walk.out)
           f == [ group    |-> r.group,
                  opened   |-> r.mark,
                  bound    |-> BoundAt(r.group, walk.pos),
                  count    |-> L,
                  pos      |-> walk.pos,
                  recorded |-> Len(demoted) ]
<1>1. /\ walk' = Emit(walk, "Opener", Len(r.mark)) /\ stack' = Append(stack, f)
      /\ source' = source /\ demoted' = demoted /\ r.act = "open"
  BY DEF OpenGroup
<1>2. /\ Sound(walk') /\ StackOK(walk', stack) /\ RecordsOK(walk', stack, demoted)
      /\ L \in Nat /\ Len((walk').out) = L + 1
      /\ (walk').out[L + 1].kind = "Opener" /\ (walk').out[L + 1].at = walk.pos
  BY <1>1, EmitKept DEF Markers
<1>3. r.group \in Slots /\ walk.pos \in Nat /\ Len(demoted) \in Nat
  BY <1>1, Typed DEF Marked, ParseInv, RecordsOK
<1>4. r.mark \in Seq(Byte) /\ r.mark # NoMark /\ Occurs(r.mark, walk.pos)
  BY MarkedLen
<1>5. BoundAt(r.group, walk.pos) \in BOOLEAN
  BY <1>3, LexisAssumption DEF BoundAt, Lexes
<1>6. f \in FrameSet
  BY <1>2, <1>3, <1>4, <1>5 DEF FrameSet
<1>7. FrameIn(walk', f) /\ f.count = L /\ f.recorded = Len(demoted)
  BY <1>2, <1>4 DEF FrameIn
<1>8. \A k \in 1..Len(stack) : stack[k].count < L
  <2>. SUFFICES ASSUME NEW k \in 1..Len(stack) PROVE stack[k].count < L
    OBVIOUS
  <2>1. stack[k].count \in Nat /\ stack[k].count + 1 \in 1..L
    BY FrameTyped DEF ParseInv, FrameIn
  <2>. QED BY <1>2, <2>1
<1>9. \A k \in 1..Len(demoted) : demoted[k].run =< L
  <2>. SUFFICES ASSUME NEW k \in 1..Len(demoted) PROVE demoted[k].run =< L
    OBVIOUS
  <2>1. demoted[k].run \in 1..L
    BY RecordTyped DEF ParseInv, Anchored
  <2>. QED BY <1>2, <2>1
<1>. HIDE DEF f
<1>10. StackOK(walk', stack') /\ RecordsOK(walk', stack', demoted')
  BY <1>1, <1>2, <1>6, <1>7, <1>8, <1>9, PushKept
<1>. QED BY <1>1, <1>2, <1>10, Primed

\* A closer, paired or rejected, ends the innermost group.
LEMMA EndGroupInv ==
  ASSUME ParseInv, NEW r, Marked(r), CloseGroup(r) \/ RejectRun(r)
  PROVE  ParseInv'
<1>1. /\ walk' = Emit(walk, "Closer", Len(r.mark)) /\ stack' = SQE!Front(stack)
      /\ source' = source /\ demoted' = demoted
  BY DEF CloseGroup, RejectRun
<1>2. Sound(walk') /\ StackOK(walk', stack) /\ RecordsOK(walk', stack, demoted)
  BY <1>1, EmitKept DEF Markers
<1>3. StackOK(walk', stack') /\ RecordsOK(walk', stack', demoted')
  BY <1>1, <1>2, PopKept
<1>. QED BY <1>1, <1>2, <1>3, Primed

LEMMA MarkInv ==
  ASSUME ParseInv, NEW r, Marked(r), Separate(r) \/ StrayCloser(r)
  PROVE  ParseInv'
<1>1. PICK kind \in Markers : walk' = Emit(walk, kind, Len(r.mark))
  BY DEF Separate, StrayCloser, Markers
<1>2. source' = source /\ stack' = stack /\ demoted' = demoted
  BY DEF Separate, StrayCloser
<1>3. Sound(walk') /\ StackOK(walk', stack) /\ RecordsOK(walk', stack, demoted)
  BY <1>1, EmitKept
<1>. QED BY <1>2, <1>3, Primed

LEMMA TakeTextInv ==
  ASSUME ParseInv, NEW r, Marked(r), TakeText(r)
  PROVE  ParseInv'
<1>1. /\ walk' = Advance(walk, Len(r.mark))
      /\ source' = source /\ stack' = stack /\ demoted' = demoted
  BY DEF TakeText
<1>2. /\ Sound(walk') /\ Len((walk').out) >= Len(walk.out)
      /\ \A i \in 1..Len(walk.out) :
           /\ (walk').out[i].kind = walk.out[i].kind /\ (walk').out[i].at = walk.out[i].at
           /\ EndAt(walk', i) >= EndAt(walk, i)
  BY <1>1, MarkedLen, AdvanceSound DEF ParseInv
<1>3. Len(walk.out) \in Nat /\ Len((walk').out) \in Nat
  BY <1>2, Typed DEF ParseInv
<1>4. Keeps(walk, walk', Len(walk.out))
  BY <1>2, <1>3 DEF Keeps
<1>5. StackOK(walk', stack) /\ RecordsOK(walk', stack, demoted)
  BY <1>2, <1>4, ExtendKept DEF ParseInv
<1>. QED BY <1>1, <1>2, <1>5, Primed

LEMMA LeaveOpenInv ==
  ASSUME ParseInv, NEW r, LeaveOpen(r)
  PROVE  ParseInv'
<1>1. /\ stack' = SQE!Front(stack)
      /\ source' = source /\ walk' = walk /\ demoted' = demoted
  BY DEF LeaveOpen
<1>2. StackOK(walk', stack') /\ RecordsOK(walk', stack', demoted')
  BY <1>1, PopKept DEF ParseInv
<1>3. Sound(walk')
  BY <1>1 DEF ParseInv
<1>. QED BY <1>1, <1>2, <1>3, Primed

LEMMA DemoteInv ==
  ASSUME ParseInv, NEW r, stack # <<>>, Demote(r)
  PROVE  ParseInv'
<1> DEFINE f == SQE!Last(stack)
           c == f.count
           p == f.pos
           n == Len(f.opened)
           q == f.recorded
           top == Len(stack)
           u == Rewind(walk, c, p)
           v == Advance(u, n)
           d == [marker |-> f.opened, run |-> v.run, offset |-> p - v.out[v.run].at]
           dv == Append(SubSeq(demoted, 1, q), d)
           sv == SQE!Front(stack)
<1>1. walk' = v /\ stack' = sv /\ source' = source /\ demoted' = dv
  BY DEF Demote, Demotion, Folded, Frame
<1>2. /\ source \in Seq(Byte) /\ Sound(walk) /\ StackOK(walk, stack)
      /\ RecordsOK(walk, stack, demoted)
      /\ stack \in Seq(FrameSet) /\ demoted \in Seq(Records)
  BY DEF ParseInv, StackOK, RecordsOK
<1>3. /\ top \in 1..Len(stack) /\ f = stack[top]
      /\ sv \in Seq(FrameSet) /\ Popped(sv, stack, top)
  <2>1. top \in 1..Len(stack)
    BY <1>2
  <2>. QED BY <1>2, <2>1, FrontIs
<1>. HIDE DEF f, top, sv
<1>4. /\ FrameIn(walk, f) /\ f.opened \in Seq(Byte)
      /\ c \in Nat /\ p \in Nat /\ q \in Nat /\ n \in Nat
  BY <1>2, <1>3, FrameTyped
<1>5. c = f.count /\ p = f.pos /\ n = Len(f.opened) /\ q = f.recorded
  OBVIOUS
<1>6. u = Rewind(walk, c, p) /\ v = Advance(u, n)
  OBVIOUS
<1>. HIDE DEF c, p, n, q, u, v
<1>7. /\ c + 1 \in 1..Len(walk.out) /\ walk.out[c + 1].at = p /\ c < Len(walk.out)
      /\ Occurs(f.opened, p) /\ f.opened # NoMark
      /\ n > 0 /\ p + n =< Len(source)
  <2>1. /\ c + 1 \in 1..Len(walk.out) /\ walk.out[c + 1].at = p
        /\ Occurs(f.opened, p) /\ f.opened # NoMark
    BY <1>4, <1>5 DEF FrameIn
  <2>2. Len(walk.out) \in Nat
    BY <1>2, Typed
  <2>3. n > 0 /\ p + n =< Len(source)
    BY <1>4, <1>5, <2>1 DEF Occurs, NoMark
  <2>. QED BY <1>4, <2>1, <2>2, <2>3
<1>8. TextAt(v, p, n) /\ Sound(v) /\ Keeps(walk, v, c)
  <2>1. CutAt(walk, u, c)
    BY <1>2, <1>4, <1>6, <1>7, RewindCuts
  <2>2. Sound(u) /\ u.pos = p
    BY <1>7, <2>1 DEF CutAt
  <2>3. TextAt(v, p, n) /\ Grown(u, v)
    BY <1>2, <1>4, <1>6, <1>7, <2>2, AdvanceGrows
  <2>4. Sound(v)
    BY <2>3 DEF TextAt
  <2>. QED BY <1>2, <1>4, <1>7, <2>1, <2>3, <2>4, FoldKeeps
<1>9. /\ d.marker = f.opened /\ d.run = v.run /\ d.offset = p - v.out[v.run].at
      /\ d = [marker |-> d.marker, run |-> d.run, offset |-> d.offset]
  OBVIOUS
<1>10. dv = Append(SubSeq(demoted, 1, q), d)
  OBVIOUS
<1>. HIDE DEF d, dv
<1>11. d \in Records /\ At(v, d) = p /\ Anchored(v, d)
  BY <1>4, <1>5, <1>7, <1>8, <1>9, RecordAnchored
<1>12. c = stack[top].count /\ q = stack[top].recorded
  BY <1>3, <1>5
<1>13. q =< Len(demoted)
  BY <1>2, <1>3, <1>12 DEF RecordsOK, RecordsKept
<1>14. dv \in Seq(Records) /\ Cut(dv, demoted, q, d)
  BY <1>2, <1>4, <1>10, <1>11, <1>13, CutAppend
<1>15. StackOK(v, sv)
  BY <1>2, <1>3, <1>4, <1>8, <1>12, FramesCut
<1>16. RecordsOK(v, sv, dv)
  BY <1>2, <1>3, <1>4, <1>7, <1>8, <1>11, <1>12, <1>14, RecordsCut
<1>17. Sound(walk') /\ StackOK(walk', stack') /\ RecordsOK(walk', stack', demoted')
  BY <1>1, <1>8, <1>15, <1>16
<1>. QED BY <1>1, <1>17, Primed

\* A parse begins with the invariant, and each of its steps keeps it.
LEMMA ParseBegins ==
  ASSUME Init
  PROVE  ParseInv
<1>1. source \in Seq(Byte) /\ Len(source) \in Nat
  BY LexisAssumption DEF Init
<1>2. walk.out = <<>> /\ walk.pos = 0 /\ walk.run = 0 /\ walk = NewWalk
  BY DEF Init, NewWalk
<1>3. Sound(walk)
  <2>1. walk \in Walks
    BY <1>2 DEF Walks, NewWalk
  <2>2. Tiled(walk) /\ Ordered(walk) /\ RunIsLast(walk) /\ Maximal(walk)
    BY <1>1, <1>2 DEF Tiled, Ordered, RunIsLast, Maximal
  <2>. QED BY <2>1, <2>2 DEF Sound
<1>4. StackOK(walk, stack)
  BY DEF Init, StackOK
<1>5. RecordsOK(walk, stack, demoted)
  BY DEF Init, RecordsOK, RecordsKept
<1>. QED BY <1>1, <1>3, <1>4, <1>5 DEF ParseInv

LEMMA ParseStep ==
  ASSUME ParseInv, Next
  PROVE  ParseInv'
<1>1. PICK r : r = Read /\ (\/ OpenGroup(r) \/ CloseGroup(r) \/ RejectRun(r) \/ Separate(r)
                            \/ StrayCloser(r) \/ TakeText(r) \/ LeaveOpen(r) \/ Demote(r))
  BY DEF Next
<1>2. r # Nothing
  BY <1>1 DEF OpenGroup, CloseGroup, RejectRun, Separate, StrayCloser, TakeText,
              LeaveOpen, Demote, Nothing, Ending
<1>3. CASE Marked(r)
  <2>1. r # Ending
    BY <1>3 DEF Marked, Ending
  <2>. QED BY <1>1, <1>3, <2>1, OpenGroupInv, EndGroupInv, MarkInv, TakeTextInv, LeaveOpenInv
           DEF Demote
<1>4. CASE r = Ending /\ stack # <<>>
  <2>1. r.act = "end"
    BY <1>4 DEF Ending
  <2>2. LeaveOpen(r) \/ Demote(r)
    BY <1>1, <2>1 DEF OpenGroup, CloseGroup, RejectRun, Separate, StrayCloser, TakeText
  <2>. QED BY <1>4, <2>2, LeaveOpenInv, DemoteInv
<1>. QED BY <1>1, <1>2, <1>3, <1>4, ReadWhere

LEMMA ParseStays ==
  ASSUME ParseInv, UNCHANGED vars
  PROVE  ParseInv'
<1>1. source' = source /\ walk' = walk /\ stack' = stack /\ demoted' = demoted
  BY DEF vars
<1>. QED BY <1>1, Primed DEF ParseInv

\* What the initial states and every step of a parse keep: the nodes tile the
\* source read so far in document order with maximal text runs, every open
\* group remembers where its opener stands, and every recorded demotion is
\* anchored in a text node, in document order.
THEOREM ParseInvariance == Spec => []ParseInv
<1>1. Init => ParseInv
  BY ParseBegins
<1>2. ParseInv /\ [Next]_vars => ParseInv'
  BY ParseStep, ParseStays
<1>. QED BY <1>1, <1>2, PTL DEF Spec

\* The nodes tile, as the invariant has it.
LEMMA NodesTiled ==
  ASSUME ParseInv
  PROVE  NodesTile
<1>. SUFFICES ASSUME NEW i \in 1..Len(walk.out)
     PROVE  /\ i = 1 => walk.out[i].at = 0
            /\ walk.out[i].at =< EndAt(walk, i)
            /\ walk.out[i].kind # "Indent" => walk.out[i].at < EndAt(walk, i)
            /\ walk.out[i].text = Slice(walk.out[i].at, EndAt(walk, i))
  BY DEF NodesTile, Places, EndAt
<1>1. /\ i = 1 => walk.out[i].at = 0
      /\ walk.out[i].at =< EndAt(walk, i)
      /\ walk.out[i].kind # "Indent" => walk.out[i].at < EndAt(walk, i)
      /\ walk.out[i].text = Slice(walk.out[i].at, EndAt(walk, i))
  BY DEF ParseInv, Sound, Tiled
<1>2. walk.out[i].at \in Nat /\ EndAt(walk, i) \in Nat
  BY Typed DEF ParseInv
<1>. QED BY <1>1, <1>2

\* The document round-trips, through every demotion and its rewind: the nodes
\* tile what was read byte for byte and none is empty (open, parseBody and
\* rewind of bracket_parser.go; Advance, emit of parser.go).
THEOREM Tiling == Spec => []NodesTile
<1>1. ParseInv => NodesTile
  BY NodesTiled
<1>. QED BY <1>1, ParseInvariance, PTL

\* So have the text runs their extent.
LEMMA RunsMaximal ==
  ASSUME ParseInv
  PROVE  TextRunsAreMaximal
<1>1. Len(walk.out) \in Nat
  BY Typed DEF ParseInv
<1>2. \A i \in Places \ {1} : i \in 2..Len(walk.out)
  BY <1>1 DEF Places
<1>. QED BY <1>2 DEF TextRunsAreMaximal, ParseInv, Sound, Maximal

\* A text run is everything between two markers: no text follows a text, though
\* a rewind leaves one live again (Advance and rewind of parser.go).
THEOREM MaximalRuns == Spec => []TextRunsAreMaximal
<1>1. ParseInv => TextRunsAreMaximal
  BY RunsMaximal
<1>. QED BY <1>1, ParseInvariance, PTL

\* A subsequence, counted from 0.
LEMMA SubSeqIs ==
  ASSUME NEW S, NEW s \in Seq(S), NEW c \in Nat, NEW n \in Nat, c + n =< Len(s)
  PROVE  /\ SubSeq(s, c + 1, c + n) \in Seq(S) /\ Len(SubSeq(s, c + 1, c + n)) = n
         /\ \A k \in 1..n : SubSeq(s, c + 1, c + n)[k] = s[c + k]
<1>1. \A i \in (c + 1)..(c + n) : s[i] \in S
  OBVIOUS
<1>2. SubSeq(s, c + 1, c + n) \in Seq(S)
  BY <1>1
<1>3. Len(SubSeq(s, c + 1, c + n)) = n
  OBVIOUS
<1>4. ASSUME NEW k \in 1..n
      PROVE  SubSeq(s, c + 1, c + n)[k] = s[c + k]
  OBVIOUS
<1>. QED BY <1>2, <1>3, <1>4

\* What a text says at an offset is what the source says there.
LEMMA SliceOfSlice ==
  ASSUME source \in Seq(Byte), NEW a \in Nat, NEW b \in Nat, NEW o \in Nat, NEW n \in Nat,
         a + o + n =< b, b =< Len(source)
  PROVE  SubSeq(Slice(a, b), o + 1, o + n) = Slice(a + o, a + o + n)
<1> DEFINE s == Slice(a, b)
           x == SubSeq(s, o + 1, o + n)
           c == a + o
           y == SubSeq(source, c + 1, c + n)
           w == b - a
<1>1. w \in Nat /\ a + w = b /\ a + w =< Len(source) /\ o + n =< w /\ c + n =< Len(source) /\ c \in Nat
  OBVIOUS
<1>2. s = SubSeq(source, a + 1, a + w) /\ Slice(a + o, a + o + n) = y
  BY <1>1 DEF Slice
<1>. HIDE DEF c, w, s
<1>3. s \in Seq(Byte) /\ Len(s) = w /\ \A k \in 1..w : s[k] = source[a + k]
  BY <1>1, <1>2, SubSeqIs
<1>4. x \in Seq(Byte) /\ Len(x) = n /\ \A k \in 1..n : x[k] = s[o + k]
  BY <1>1, <1>3, SubSeqIs
<1>5. y \in Seq(Byte) /\ Len(y) = n /\ \A k \in 1..n : y[k] = source[c + k]
  BY <1>1, SubSeqIs
<1>. HIDE DEF x, y
<1>6. ASSUME NEW k \in 1..n
      PROVE  x[k] = y[k]
  <2>1. o + k \in 1..w /\ a + (o + k) = c + k
    BY <1>1 DEF c
  <2>. QED BY <1>3, <1>4, <1>5, <2>1
<1>7. x = y
  <2>1. x = [k \in 1..n |-> x[k]] /\ y = [k \in 1..n |-> y[k]]
    BY <1>4, <1>5
  <2>. QED BY <1>6, <2>1
<1>. QED BY <1>2, <1>7 DEF s, x

\* Where a record points is the demoted marker's text.
LEMMA RecordsAnchored ==
  ASSUME ParseInv
  PROVE  DemotionsAnchored
<1>1. ASSUME NEW k \in 1..Len(demoted), NEW d, d = demoted[k]
      PROVE  /\ d.run \in Places /\ walk.out[d.run].kind = "Text"
             /\ SubSeq(walk.out[d.run].text, d.offset + 1, d.offset + Len(d.marker)) = d.marker
             /\ DemotedAt(d) = At(walk, d)
  <2> DEFINE a == walk.out[d.run].at
             b == EndAt(walk, d.run)
             n == Len(d.marker)
             o == d.offset
  <2>1. /\ Anchored(walk, d) /\ n \in Nat /\ o \in Nat /\ b \in Nat
    BY <1>1, RecordTyped DEF ParseInv
  <2>2. d.run \in 1..Len(walk.out) /\ walk.out[d.run].kind = "Text"
    BY <2>1 DEF Anchored
  <2>3. a \in Nat /\ walk.out[d.run].text = Slice(a, b)
    BY <2>2, Typed DEF ParseInv, Sound, Tiled
  <2>4. b =< Len(source)
    <3>1. b =< walk.pos /\ walk.pos =< Len(source) /\ walk.pos \in Nat
      BY <2>2, Typed DEF ParseInv, Sound, Ordered, Tiled
    <3>2. Len(source) \in Nat
      BY DEF ParseInv
    <3>. HIDE DEF b
    <3>. QED BY <2>1, <3>1, <3>2
  <2>5. At(walk, d) = a + o
    BY DEF At
  <2>6. a + o + n =< b /\ d.marker = Slice(a + o, a + o + n)
    BY <2>1, <2>5 DEF Anchored, Occurs
  <2>7. SubSeq(Slice(a, b), o + 1, o + n) = Slice(a + o, a + o + n)
    <3>1. source \in Seq(Byte)
      BY DEF ParseInv
    <3>. HIDE DEF a, b, o, n
    <3>2. a \in Nat /\ b \in Nat /\ o \in Nat /\ n \in Nat
      BY <2>1, <2>3
    <3>3. a + o + n =< b /\ b =< Len(source)
      BY <2>4, <2>6
    <3>. QED BY <3>1, <3>2, <3>3, SliceOfSlice, ZenonT(40)
  <2>. QED BY <2>2, <2>3, <2>5, <2>6, <2>7 DEF Places, DemotedAt
<1>2. ASSUME NEW k \in 1..(Len(demoted) - 1)
      PROVE  DemotedAt(demoted[k]) + Len(demoted[k].marker) =< DemotedAt(demoted[k + 1])
  <2>1. Len(demoted) \in Nat
    BY DEF ParseInv, RecordsOK
  <2>2. k \in 1..Len(demoted) /\ k + 1 \in 1..Len(demoted) /\ k < k + 1
    BY <2>1
  <2>3. At(walk, demoted[k]) + Len(demoted[k].marker) =< At(walk, demoted[k + 1])
    BY <2>2 DEF ParseInv, RecordsOK
  <2>. QED BY <1>1, <2>2, <2>3
<1>. QED BY <1>1, <1>2 DEF DemotionsAnchored

\* Every demotion is recorded once, in document order, and anchored at the bytes
\* it took, through the demotions around and after it (demote of
\* bracket_parser.go, which drops what was recorded inside a demoted group).
THEOREM Anchoring == Spec => []DemotionsAnchored
<1>1. ParseInv => DemotionsAnchored
  BY RecordsAnchored
<1>. QED BY <1>1, ParseInvariance, PTL
---------------------------------------------------------------------------
(* How a group that demotes ends.                                            *)

\* A run at the position that the group of a frame rejects as its closer.
Rejected(f, run) ==
  /\ Brackets[f.group].rejectLonger /\ Brackets[f.group].openRegex
  /\ run \in Brackets[f.group].open /\ Len(run) > Len(f.opened)

\* A reading opens a group by a text of its own, and rejects what it may.
Apt(r) ==
  /\ r.act = "open" => r.mark \in Brackets[r.group].open
  /\ r.act \in {"close", "reject"} => stack # <<>>
  /\ r.act = "reject" => Rejected(Frame, r.mark)

\* What a pattern or a literal reads is one of its marks.
LEMMA PatternIn ==
  ASSUME LexisAssumption, source \in Seq(Byte), NEW pos \in Nat, NEW marks \in SUBSET Marks
  PROVE  /\ Pattern(marks, pos) = NoMark \/ Pattern(marks, pos) \in marks
         /\ Literal(marks, pos) = NoMark \/ Literal(marks, pos) \in marks
<1>1. Len(source) \in Nat /\ marks \in SUBSET Seq(Byte)
  BY DEF LexisAssumption
<1>2. ASSUME NEW S \in SUBSET marks, \A m \in S : Occurs(m, pos)
      PROVE  Longest(S) = NoMark \/ Longest(S) \in S
  <2>1. CASE S = {}
    BY <2>1 DEF Longest
  <2>2. CASE S # {}
    <3>1. S \in SUBSET Seq(Byte)
      BY <1>1
    <3>2. \A m \in S : Len(m) \in Nat
      BY <3>1
    <3>3. \A m \in S : Len(m) =< Len(source)
      BY <1>1, <1>2, <3>2 DEF Occurs
    <3>. QED BY <1>1, <2>2, <3>1, <3>3, LongestIn
  <2>. QED BY <2>1, <2>2
<1>3. Pattern(marks, pos) = NoMark \/ Pattern(marks, pos) \in marks
  <2> DEFINE S == {m \in marks : Occurs(m, pos)}
  <2>1. Longest(S) = NoMark \/ Longest(S) \in S
    BY <1>2
  <2>. QED BY <2>1 DEF Pattern
<1>4. Literal(marks, pos) = NoMark \/ Literal(marks, pos) \in marks
  <2> DEFINE S == {m \in marks : Stands(m, pos)}
  <2>1. Longest(S) = NoMark \/ Longest(S) \in S
    BY <1>2 DEF Stands
  <2>. QED BY <2>1 DEF Literal
<1>. QED BY <1>3, <1>4

LEMMA OpenerApt ==
  ASSUME CanRead, NEW g \in Slots
  PROVE  Apt(Reading("open", g, OpenerOf(g, walk.pos)))
<1>1. OpenerOf(g, walk.pos) = NoMark \/ OpenerOf(g, walk.pos) \in Brackets[g].open
  BY GroupTyped, PatternIn DEF CanRead, OpenerOf
<1>2. ASSUME NEW m, m = NoMark \/ m \in Brackets[g].open
      PROVE  Apt(Reading("open", g, m))
  BY <1>2 DEF Apt, Reading, Nothing
<1>. QED BY <1>1, <1>2

\* The first of readings that are apt is.
LEMMA FirstApt ==
  ASSUME NEW s, \A k \in 1..Len(s) : Apt(s[k])
  PROVE  Apt(FirstOf(s))
<1>1. Apt(Nothing)
  BY DEF Apt, Nothing
<1>. QED BY <1>1, FirstOfIs

LEMMA OtherRunApt ==
  ASSUME CanRead, stack # <<>>, NEW f \in FrameSet, f = Frame
  PROVE  Apt(OtherRun(f))
<1> DEFINE b == Brackets[f.group]
           run == Pattern(b.open, walk.pos)
<1>1. f.group \in Slots
  BY DEF FrameSet
<1>2. run = NoMark \/ run \in b.open
  BY <1>1, GroupTyped, PatternIn DEF CanRead
<1>3. \/ OtherRun(f) = Nothing
      \/ /\ b.openRegex /\ b.rejectLonger /\ Len(run) > Len(f.opened)
         /\ OtherRun(f) = Reading("reject", f.group, run)
      \/ OtherRun(f) = Reading("text", f.group, run)
  BY DEF OtherRun
<1>. HIDE DEF run
<1>4. ASSUME OtherRun(f) = Reading("reject", f.group, run), run # NoMark,
             b.openRegex, b.rejectLonger, Len(run) > Len(f.opened)
      PROVE  Apt(OtherRun(f))
  <2>1. run \in b.open
    BY <1>2, <1>4
  <2>2. Rejected(f, run)
    BY <1>4, <2>1 DEF Rejected
  <2>3. OtherRun(f).act = "reject" /\ OtherRun(f).mark = run
    BY <1>4 DEF Reading
  <2>. QED BY <2>2, <2>3 DEF Apt
<1>. QED BY <1>3, <1>4 DEF Apt, Reading, Nothing

LEMMA OpeningApt ==
  ASSUME CanRead, NEW around
  PROVE  Apt(Opening(walk.pos, around))
<1> DEFINE s == [g \in Slots |-> IF ParentAllowed(g, around)
                                 THEN Reading("open", g, OpenerOf(g, walk.pos)) ELSE Nothing]
<1>1. \A g \in Slots : Apt(s[g])
  <2>1. \A g \in Slots : Apt(Reading("open", g, OpenerOf(g, walk.pos)))
    BY OpenerApt
  <2>2. Apt(Nothing)
    BY DEF Apt, Nothing
  <2>. QED BY <2>1, <2>2
<1>2. 1..Len(s) = Slots
  BY DEF CanRead, TableAssumption, Slots
<1>3. Apt(FirstOf(s))
  <2>. HIDE DEF s
  <2>. QED BY <1>1, <1>2, FirstApt
<1>. QED BY <1>3 DEF Opening

LEMMA OpeningInnerApt ==
  ASSUME CanRead, NEW g \in Slots
  PROVE  Apt(OpeningInner(g))
<1> DEFINE inner == Brackets[g].inner
           s == [k \in 1..Len(inner) |-> Reading("open", inner[k], OpenerOf(inner[k], walk.pos))]
<1>0. inner \in Seq(Slots)
  BY GroupTyped DEF CanRead
<1>1. \A k \in 1..Len(inner) : Apt(s[k])
  <2>1. \A k \in 1..Len(inner) : inner[k] \in Slots
    BY <1>0
  <2>. QED BY <2>1, OpenerApt
<1>2. 1..Len(s) = 1..Len(inner)
  BY <1>0
<1>3. Apt(FirstOf(s))
  <2>. HIDE DEF s
  <2>. QED BY <1>1, <1>2, FirstApt
<1>. QED BY <1>3 DEF OpeningInner

LEMMA StrayApt ==
  Apt(Stray)
<1> DEFINE s == [g \in Slots |->
                   IF Brackets[g].restricted \/ Brackets[g].closeIsOpen \/ Brackets[g].closeRegex
                   THEN Nothing
                   ELSE Reading("stray", g, CloserOf(g, NoMark, walk.pos))]
<1>1. \A g \in Slots : Apt(s[g])
  BY DEF Apt, Reading, Nothing
<1>2. 1..Len(s) = Slots
  BY TableAssumption DEF TableAssumption, Slots
<1>3. Apt(FirstOf(s))
  <2>. HIDE DEF s
  <2>. QED BY <1>1, <1>2, FirstApt
<1>. QED BY <1>3 DEF Stray

LEMMA ReadApt ==
  ASSUME CanRead, stack \in Seq(FrameSet)
  PROVE  Apt(Read)
<1>1. /\ Apt(Nothing) /\ Apt(Ending) /\ Apt(OneByte)
      /\ \A f : Apt(Escaping(f)) /\ Apt(Separating(f)) /\ (stack # <<>> => Apt(Closing(f)))
      /\ Apt(EnclosingEnds) /\ \A f : OutOfBody(f) # Nothing => OutOfBody(f) = Ending
  BY DEF Apt, Nothing, Ending, OneByte, Closing, Escaping, Separating, Reading, EnclosingEnds, OutOfBody
<1>2. Apt(Stray) /\ \A around : Apt(Opening(walk.pos, around))
  BY StrayApt, OpeningApt
<1>3. CASE AtTop
  <2> DEFINE s == TopReadings
  <2>1. s = << Opening(walk.pos, NoGroup), Stray, OneByte >>
    BY DEF TopReadings
  <2>. HIDE DEF s
  <2>2. \A k \in 1..Len(s) : Apt(s[k])
    BY <1>1, <1>2, <2>1
  <2>3. Apt(FirstOf(s))
    BY <2>2, FirstApt
  <2>. QED BY <1>1, <1>3, <2>3 DEF Read, s
<1>4. CASE ~AtTop
  <2>0. stack # <<>>
    BY <1>4 DEF AtTop
  <2> DEFINE f == Frame
  <2>1. f \in FrameSet /\ f = Frame
    BY <2>0 DEF Frame, SQE!Last
  <2>. HIDE DEF f
  <2>2. f.group \in Slots
    BY <2>1 DEF FrameSet
  <2>3. Apt(OtherRun(f)) /\ Apt(OpeningInner(f.group))
    BY <2>0, <2>1, <2>2, OtherRunApt, OpeningInnerApt
  <2>c. Apt(Closing(f))
    BY <1>1, <2>0
  <2>4. Apt(FirstOf(RestrictedReadings(f)))
    <3> DEFINE s == RestrictedReadings(f)
    <3>1. s = << Closing(f), Escaping(f), OpeningInner(f.group), OtherRun(f), OneByte >>
      BY DEF RestrictedReadings
    <3>. HIDE DEF s
    <3>2. \A k \in 1..Len(s) : Apt(s[k])
      BY <1>1, <2>c, <2>3, <3>1
    <3>3. Apt(FirstOf(s))
      BY <3>2, FirstApt
    <3>. QED BY <3>3 DEF s
  <2>5. Apt(FirstOf(CodeReadings(f)))
    <3> DEFINE s == CodeReadings(f)
               a == << Closing(f), OtherRun(f) >>
               b == << Opening(walk.pos, f.group), Closing(f), Separating(f), EnclosingEnds, Stray, OneByte >>
    <3>0. s = a \o b \/ s = <<>> \o b
      BY DEF CodeReadings
    <3>1. s = a \o b \/ s = b
      <4>1. <<>> \o b = b
        OBVIOUS
      <4>. QED BY <3>0, <4>1, Zenon
    <3>2. /\ Len(a) = 2 /\ \A k \in 1..Len(a) : Apt(a[k])
          /\ Len(b) = 6 /\ \A k \in 1..Len(b) : Apt(b[k])
      BY <1>1, <1>2, <2>c, <2>3
    <3>3. /\ Len(a \o b) = 8
          /\ \A k \in 1..8 : (a \o b)[k] = IF k =< 2 THEN a[k] ELSE b[k - 2]
      OBVIOUS
    <3>. HIDE DEF a, b, s
    <3>4. ASSUME NEW k \in 1..Len(a \o b)
          PROVE  Apt((a \o b)[k])
      <4>1. k \in 1..8
        BY <3>3
      <4>2. CASE k =< 2
        <5>1. k \in 1..Len(a)
          BY <3>2, <4>1, <4>2
        <5>. QED BY <3>2, <3>3, <4>1, <4>2, <5>1
      <4>3. CASE ~(k =< 2)
        <5>1. k - 2 \in 1..Len(b)
          BY <3>2, <4>1, <4>3
        <5>. QED BY <3>2, <3>3, <4>1, <4>3, <5>1
      <4>. QED BY <4>2, <4>3
    <3>5. Apt(FirstOf(a \o b)) /\ Apt(FirstOf(b))
      BY <3>2, <3>4, FirstApt
    <3>6. Apt(FirstOf(s))
      BY <3>1, <3>5
    <3>. QED BY <3>6 DEF s
  <2>6. Read = Nothing \/ Read = Ending \/ Read = FirstOf(RestrictedReadings(f))
        \/ Read = FirstOf(CodeReadings(f))
    BY <1>4, <2>1 DEF Read
  <2>. QED BY <1>1, <2>4, <2>5, <2>6
<1>. QED BY <1>3, <1>4

\* A frame's opener is the text of its node, and one of its group's.
OpenedBy(w, f) ==
  w.out[f.count + 1].text = f.opened /\ f.opened \in Brackets[f.group].open

\* The opener of a group that demotes, as its text tells it.
Demoter(w, i) == w.out[i].kind = "Opener" /\ Brackets[GroupOf(w.out[i].text)].demotes

IsOpen(st, i) == \E k \in 1..Len(st) : st[k].count + 1 = i

\* Among the first n nodes the group that the one at i opened has ended.
Ended(w, ln, i, n) ==
  \/ \E l \in ln : l[1] = i /\ l[2] =< n
  \/ \E j \in (i + 1)..n : w.out[j].kind = "Closer" /\ Rejects(w.out[i], w.out[j])

\* Among the first n nodes a group that demotes is open or has ended.
Settled(w, st, ln, n) ==
  \A i \in 1..n : Demoter(w, i) => IsOpen(st, i) \/ Ended(w, ln, i, n)

\* So it is of all nodes, and of those before a group that is open, as they
\* are what is left when it demotes.
EndsOK(w, st, ln) ==
  /\ \A l \in ln : l[2] \in Nat
  /\ \A k \in 1..Len(st) : OpenedBy(w, st[k])
  /\ Settled(w, st, ln, Len(w.out))
  /\ \A k \in 1..Len(st) : Settled(w, st, ln, st[k].count)

\* The first n nodes but for the texts among them.
Alike(w, v, n) ==
  /\ n \in Nat /\ n =< Len(w.out) /\ n =< Len(v.out)
  /\ \A i \in 1..n : /\ v.out[i].kind = w.out[i].kind
                     /\ w.out[i].kind # "Text" => v.out[i] = w.out[i]

\* What ended among nodes that stay has ended still, among as many or more.
LEMMA EndedStays ==
  ASSUME NEW w, NEW v, NEW ln, NEW lv, NEW c, NEW n \in Nat, NEW m \in Nat, NEW i \in 1..n,
         Alike(w, v, c), n =< c, n =< m,
         \A l \in ln : l[2] \in Nat, \A l \in ln : l[2] =< c => l \in lv,
         w.out[i].kind = "Opener", Ended(w, ln, i, n)
  PROVE  Ended(v, lv, i, m)
<1>0. c \in Nat /\ i \in 1..c /\ v.out[i] = w.out[i]
  <2>1. c \in Nat /\ i \in 1..c
    BY DEF Alike
  <2>. QED BY <2>1 DEF Alike
<1>1. CASE \E l \in ln : l[1] = i /\ l[2] =< n
  <2>1. PICK l \in ln : l[1] = i /\ l[2] =< n
    BY <1>1
  <2> DEFINE b == l[2]
  <2>2. b \in Nat /\ b =< n
    BY <2>1
  <2>. HIDE DEF b
  <2>3. b =< c /\ b =< m
    BY <1>0, <2>2
  <2>4. l \in lv /\ l[2] =< m
    BY <2>3 DEF b
  <2>. QED BY <2>1, <2>4 DEF Ended
<1>2. ASSUME NEW j \in (i + 1)..n, w.out[j].kind = "Closer", Rejects(w.out[i], w.out[j])
      PROVE  Ended(v, lv, i, m)
  <2>1. j \in 1..c /\ j \in (i + 1)..m
    BY <1>0
  <2>2. v.out[j] = w.out[j]
    BY <1>2, <2>1 DEF Alike
  <2>. QED BY <1>0, <1>2, <2>1, <2>2 DEF Ended
<1>. QED BY <1>1, <1>2 DEF Ended

\* The first c nodes stay, and of those after them a group that demotes is open.
LEMMA SettledKept ==
  ASSUME NEW w, NEW v, NEW st, NEW sv, NEW ln, NEW lv, NEW c, NEW n \in Nat, NEW m \in Nat,
         Alike(w, v, c), n =< c, n =< m,
         \A l \in ln : l[2] \in Nat, \A l \in ln : l[2] =< c => l \in lv,
         Settled(w, st, ln, n),
         \A i \in 1..n : IsOpen(st, i) /\ Demoter(w, i) => IsOpen(sv, i) \/ Ended(v, lv, i, m),
         \A i \in (n + 1)..m : Demoter(v, i) => IsOpen(sv, i)
  PROVE  Settled(v, sv, lv, m)
<1>. SUFFICES ASSUME NEW i \in 1..m, Demoter(v, i)
              PROVE  IsOpen(sv, i) \/ Ended(v, lv, i, m)
  BY DEF Settled
<1>1. CASE i =< n
  <2>1. i \in 1..n /\ i \in 1..c /\ c \in Nat
    BY <1>1 DEF Alike
  <2>2. v.out[i] = w.out[i] /\ w.out[i].kind = "Opener"
    <3>1. v.out[i].kind = "Opener"
      BY DEF Demoter
    <3>2. w.out[i].kind = v.out[i].kind
      BY <2>1 DEF Alike
    <3>. QED BY <2>1, <3>1, <3>2 DEF Alike
  <2>3. Demoter(w, i)
    BY <2>2 DEF Demoter
  <2>4. CASE IsOpen(st, i)
    BY <2>1, <2>3, <2>4
  <2>5. CASE Ended(w, ln, i, n)
    BY <2>1, <2>2, <2>5, EndedStays
  <2>. QED BY <2>1, <2>3, <2>4, <2>5 DEF Settled
<1>2. CASE i > n
  <2>1. i \in (n + 1)..m
    BY <1>2
  <2>. QED BY <2>1
<1>. QED BY <1>1, <1>2

\* The first k frames stay, with their openers.
Remains(st, sv, k, c) ==
  /\ k \in 1..Len(st) /\ \A j \in 1..k : j \in 1..Len(sv) /\ sv[j] = st[j]
  /\ st[k].count + 1 =< c

\* A frame more, over those there are.
FrameBegins(v, st, sv, k, c) ==
  /\ \A j \in 1..Len(st) : j \in 1..Len(sv) /\ sv[j] = st[j]
  /\ sv[k].count = c /\ OpenedBy(v, sv[k])

LEMMA EndsKept ==
  ASSUME NEW w, NEW v, NEW st, NEW sv, NEW ln, NEW lv, NEW c, Len(v.out) \in Nat,
         EndsOK(w, st, ln), StackOK(w, st), Alike(w, v, c), Settled(w, st, ln, c),
         \A l \in lv : l[2] \in Nat, \A l \in ln : l[2] =< c => l \in lv,
         \A i \in 1..c : IsOpen(st, i) /\ Demoter(w, i) =>
                           IsOpen(sv, i) \/ Ended(v, lv, i, Len(v.out)),
         \A i \in (c + 1)..Len(v.out) : Demoter(v, i) => IsOpen(sv, i),
         \A k \in 1..Len(sv) : Remains(st, sv, k, c) \/ FrameBegins(v, st, sv, k, c)
  PROVE  EndsOK(v, sv, lv)
<1>1. c \in Nat /\ c =< Len(v.out) /\ \A l \in ln : l[2] \in Nat
  BY DEF Alike, EndsOK
<1>2. Settled(v, sv, lv, Len(v.out))
  <2> DEFINE m == Len(v.out)
  <2>1. m \in Nat /\ c =< m /\ c =< c
    BY <1>1
  <2>2. /\ \A i \in 1..c : IsOpen(st, i) /\ Demoter(w, i) => IsOpen(sv, i) \/ Ended(v, lv, i, m)
        /\ \A i \in (c + 1)..m : Demoter(v, i) => IsOpen(sv, i)
    OBVIOUS
  <2>. HIDE DEF m
  <2>3. Settled(v, sv, lv, m)
    BY <1>1, <2>1, <2>2, SettledKept
  <2>. QED BY <2>3 DEF m
<1>3. ASSUME NEW k \in 1..Len(sv), Remains(st, sv, k, c)
      PROVE  OpenedBy(v, sv[k]) /\ Settled(v, sv, lv, sv[k].count)
  <2> DEFINE n == st[k].count
  <2>1. k \in 1..Len(st) /\ sv[k] = st[k] /\ n + 1 =< c
    BY <1>3 DEF Remains
  <2>2. /\ n \in Nat /\ w.out[n + 1].kind = "Opener" /\ OpenedBy(w, st[k])
        /\ Settled(w, st, ln, n)
    BY <2>1, FrameTyped DEF FrameIn, EndsOK
  <2>3. OpenedBy(v, sv[k])
    <3>1. v.out[n + 1] = w.out[n + 1]
      <4>1. n + 1 \in 1..c
        BY <1>1, <2>1, <2>2
      <4>. QED BY <2>2, <4>1 DEF Alike
    <3>. QED BY <2>1, <2>2, <3>1 DEF OpenedBy
  <2>4. ASSUME NEW i \in 1..n, IsOpen(st, i)
        PROVE  IsOpen(sv, i)
    <3>1. PICK j \in 1..Len(st) : st[j].count + 1 = i
      BY <2>4 DEF IsOpen
    <3>2. st[j].count \in Nat /\ st[j].count < n
      BY <2>2, <3>1, FrameTyped
    <3>3. ~(k < j) /\ k # j
      <4>1. k < j => n < st[j].count
        BY <2>1, <3>1 DEF StackOK
      <4>. QED BY <2>2, <3>2, <4>1
    <3>4. j \in 1..k
      BY <2>1, <3>1, <3>3
    <3>5. j \in 1..Len(sv) /\ sv[j] = st[j]
      BY <1>3, <3>4 DEF Remains
    <3>. QED BY <3>1, <3>5 DEF IsOpen
  <2>5. n =< c /\ n =< n /\ \A i \in (n + 1)..n : Demoter(v, i) => IsOpen(sv, i)
    BY <1>1, <2>1, <2>2
  <2>. HIDE DEF n
  <2>6. Settled(v, sv, lv, n)
    BY <1>1, <2>2, <2>4, <2>5, SettledKept
  <2>. QED BY <2>1, <2>3, <2>6 DEF n
<1>4. ASSUME NEW k \in 1..Len(sv), FrameBegins(v, st, sv, k, c)
      PROVE  OpenedBy(v, sv[k]) /\ Settled(v, sv, lv, sv[k].count)
  <2>1. \A i \in 1..c : IsOpen(st, i) => IsOpen(sv, i)
    BY <1>4 DEF FrameBegins, IsOpen
  <2>2. c =< c /\ \A i \in (c + 1)..c : Demoter(v, i) => IsOpen(sv, i)
    BY <1>1
  <2>3. Settled(v, sv, lv, c)
    BY <1>1, <2>1, <2>2, SettledKept
  <2>. QED BY <1>4, <2>3 DEF FrameBegins
<1>. QED BY <1>2, <1>3, <1>4 DEF EndsOK

---------------------------------------------------------------------------
\* The parse's invariant, with what it says of the groups that demote.
EndsInv == ParseInv /\ EndsOK(walk, stack, linked)

LEMMA EndsPrimed ==
  ASSUME ParseInv', EndsOK(walk', stack', linked')
  PROVE  EndsInv'
BY DEF EndsInv, EndsOK, OpenedBy, Settled, Demoter, IsOpen, Ended, Rejects, Overlong, GroupOf

\* A node emitted is the bytes it takes, and the others stay.
LEMMA EmitAlike ==
  ASSUME ParseInv, NEW kind \in Markers, NEW n \in Nat, n > 0 \/ kind = "Indent",
         walk.pos + n =< Len(source), NEW v, v = Emit(walk, kind, n)
  PROVE  /\ Len(walk.out) \in Nat /\ Len(v.out) = Len(walk.out) + 1
         /\ Alike(walk, v, Len(walk.out))
         /\ v.out[Len(walk.out) + 1].kind = kind
         /\ v.out[Len(walk.out) + 1].text = Slice(walk.pos, walk.pos + n)
<1>1. /\ Len(walk.out) \in Nat /\ Len(v.out) = Len(walk.out) + 1
      /\ v.out[Len(walk.out) + 1].kind = kind
      /\ \A i \in 1..Len(walk.out) : v.out[i] = walk.out[i]
  BY NodeKept
<1>2. Alike(walk, v, Len(walk.out))
  BY <1>1 DEF Alike
<1>3. walk.out \in Seq(ParsedNodes)
  BY Typed DEF ParseInv
<1>4. v.out = Append(walk.out, Node(kind, walk.pos, walk.pos + n))
  BY DEF Emit
<1>5. v.out[Len(walk.out) + 1] = Node(kind, walk.pos, walk.pos + n)
  BY <1>3, <1>4
<1>. QED BY <1>1, <1>2, <1>5 DEF Node

\* A node that is no opener is emitted, and the groups stay as they are.
LEMMA MarkEnds ==
  ASSUME EndsInv, NEW kind \in Markers \ {"Opener"}, NEW n \in Nat, n > 0 \/ kind = "Indent",
         walk.pos + n =< Len(source), NEW v, v = Emit(walk, kind, n),
         NEW lv, \A l \in lv : l[2] \in Nat, linked \subseteq lv
  PROVE  EndsOK(v, stack, lv)
<1> DEFINE L == Len(walk.out)
<1>1. L \in Nat /\ Len(v.out) = L + 1 /\ Alike(walk, v, L) /\ v.out[L + 1].kind = kind
  BY EmitAlike DEF EndsInv
<1>2. /\ EndsOK(walk, stack, linked) /\ StackOK(walk, stack) /\ Settled(walk, stack, linked, L)
  BY DEF EndsInv, ParseInv, EndsOK
<1>3. ASSUME NEW k \in 1..Len(stack)
      PROVE  Remains(stack, stack, k, L)
  <2>1. stack[k].count + 1 \in 1..L /\ Len(stack) \in Nat
    BY <1>2, FrameTyped DEF FrameIn
  <2>. QED BY <1>1, <2>1 DEF Remains
<1>4. ASSUME NEW i \in (L + 1)..Len(v.out)
      PROVE  ~Demoter(v, i)
  <2>1. i = L + 1
    BY <1>1
  <2>. QED BY <1>1, <2>1 DEF Demoter
<1>5. Len(v.out) \in Nat
  BY <1>1
<1>. HIDE DEF L
<1>. QED BY <1>1, <1>2, <1>3, <1>4, <1>5, EndsKept

LEMMA OpenEnds ==
  ASSUME EndsInv, NEW r, Marked(r), Apt(r), OpenGroup(r)
  PROVE  EndsOK(walk', stack', linked')
<1> DEFINE L == Len(walk.out)
           n == Len(r.mark)
           v == walk'
           sv == stack'
           f == [ group    |-> r.group,
                  opened   |-> r.mark,
                  bound    |-> BoundAt(r.group, walk.pos),
                  count    |-> L,
                  pos      |-> walk.pos,
                  recorded |-> Len(demoted) ]
<1>1. v = Emit(walk, "Opener", n) /\ sv = Append(stack, f) /\ linked' = linked /\ r.act = "open"
  BY DEF OpenGroup
<1>2. /\ n \in Nat /\ n > 0 /\ walk.pos + n =< Len(source)
      /\ Slice(walk.pos, walk.pos + n) = r.mark
  BY MarkedLen DEF EndsInv, Occurs
<1>3. /\ L \in Nat /\ Len(v.out) = L + 1 /\ Alike(walk, v, L)
      /\ v.out[L + 1].kind = "Opener" /\ v.out[L + 1].text = r.mark
  <2>1. "Opener" \in Markers
    BY DEF Markers
  <2>. HIDE DEF L, n, v
  <2>2. v.out[Len(walk.out) + 1].text = Slice(walk.pos, walk.pos + n)
    BY <1>1, <1>2, <2>1, EmitAlike DEF EndsInv
  <2>3. /\ Len(walk.out) \in Nat /\ Len(v.out) = Len(walk.out) + 1
        /\ Alike(walk, v, Len(walk.out)) /\ v.out[Len(walk.out) + 1].kind = "Opener"
    BY <1>1, <1>2, <2>1, EmitAlike DEF EndsInv
  <2>. QED BY <1>2, <2>2, <2>3 DEF L
<1>4. f.count = L /\ f.opened = r.mark /\ f.group = r.group
  OBVIOUS
<1>5. /\ EndsOK(walk, stack, linked) /\ StackOK(walk, stack) /\ Settled(walk, stack, linked, L)
      /\ stack \in Seq(FrameSet) /\ Len(stack) \in Nat
  BY DEF EndsInv, ParseInv, EndsOK, StackOK
<1>. HIDE DEF f, n, v, sv
<1>6. /\ Len(sv) = Len(stack) + 1 /\ sv[Len(stack) + 1] = f
      /\ \A k \in 1..Len(stack) : k \in 1..Len(sv) /\ sv[k] = stack[k]
  BY <1>1, <1>5
<1>7. OpenedBy(v, f)
  BY <1>1, <1>3, <1>4 DEF OpenedBy, Apt
<1>8. ASSUME NEW k \in 1..Len(sv)
      PROVE  Remains(stack, sv, k, L) \/ FrameBegins(v, stack, sv, k, L)
  <2>1. CASE k \in 1..Len(stack)
    <3>1. stack[k].count + 1 \in 1..L
      BY <1>5, <2>1, FrameTyped DEF FrameIn
    <3>. QED BY <1>3, <1>6, <2>1, <3>1 DEF Remains
  <2>2. CASE k = Len(stack) + 1
    BY <1>4, <1>6, <1>7, <2>2 DEF FrameBegins
  <2>. QED BY <1>5, <1>6, <2>1, <2>2
<1>9. \A i : IsOpen(stack, i) => IsOpen(sv, i)
  BY <1>6 DEF IsOpen
<1>10. IsOpen(sv, L + 1)
  BY <1>4, <1>5, <1>6 DEF IsOpen
<1>11. Len(v.out) \in Nat /\ \A i \in (L + 1)..Len(v.out) : i = L + 1
  BY <1>3
<1>12. \A l \in linked : l[2] \in Nat
  BY <1>5 DEF EndsOK
<1>. HIDE DEF L
<1>13. EndsOK(v, sv, linked)
  BY <1>3, <1>5, <1>8, <1>9, <1>10, <1>11, <1>12, EndsKept
<1>. QED BY <1>1, <1>13 DEF v, sv

\* Text is taken: no node changes that is not a text.
LEMMA AdvanceAlike ==
  ASSUME NEW u, Sound(u), NEW n, NEW v, v = Advance(u, n)
  PROVE  /\ Len(u.out) \in Nat /\ Len(v.out) \in Nat /\ Alike(u, v, Len(u.out))
         /\ \A i \in (Len(u.out) + 1)..Len(v.out) : v.out[i].kind = "Text"
<1>1. u.out \in Seq(ParsedNodes) /\ Len(u.out) \in Nat
  BY Typed
<1>2. CASE u.run = 0
  <2> DEFINE x == Node("Text", u.pos, u.pos + n)
  <2>1. v.out = Append(u.out, x) /\ x.kind = "Text"
    BY <1>2 DEF Advance, Node
  <2>. HIDE DEF x
  <2>2. /\ Len(v.out) = Len(u.out) + 1 /\ v.out[Len(u.out) + 1] = x
        /\ \A i \in 1..Len(u.out) : v.out[i] = u.out[i]
    BY <1>1, <2>1
  <2>3. \A i \in (Len(u.out) + 1)..Len(v.out) : i = Len(u.out) + 1
    BY <1>1, <2>2
  <2>4. Alike(u, v, Len(u.out))
    BY <1>1, <2>2 DEF Alike
  <2>. QED BY <1>1, <2>1, <2>2, <2>3, <2>4
<1>3. CASE u.run # 0
  <2> DEFINE x == Node("Text", u.out[u.run].at, u.pos + n)
  <2>1. u.out # <<>> /\ u.run = Len(u.out) /\ u.out[u.run].kind = "Text"
    BY <1>3 DEF Sound, RunIsLast
  <2>2. u.run \in 1..Len(u.out)
    BY <1>1, <2>1
  <2>3. v.out = [u.out EXCEPT ![u.run] = x] /\ x.kind = "Text"
    <3>1. v = [u EXCEPT !.out[u.run] = x, !.pos = u.pos + n]
      BY <1>3 DEF Advance
    <3>2. u \in Walks
      BY DEF Sound
    <3>. HIDE DEF x
    <3>3. v.out = [u.out EXCEPT ![u.run] = x]
      BY <3>1, <3>2 DEF Walks
    <3>. QED BY <3>3 DEF x, Node
  <2>. HIDE DEF x
  <2>4. /\ Len(v.out) = Len(u.out)
        /\ \A i \in 1..Len(u.out) : v.out[i] = IF i = u.run THEN x ELSE u.out[i]
    BY <1>1, <2>2, <2>3
  <2>5. Alike(u, v, Len(u.out))
    BY <1>1, <2>1, <2>3, <2>4 DEF Alike
  <2>. QED BY <1>1, <2>4, <2>5
<1>. QED BY <1>2, <1>3

\* The innermost frame goes.
LEMMA PopRemains ==
  ASSUME NEW w, NEW st, StackOK(w, st), st # <<>>, NEW sv, sv = SQE!Front(st),
         NEW c \in Nat, st[Len(st)].count =< c
  PROVE  /\ Len(st) \in 1..Len(st) /\ SQE!Last(st) = st[Len(st)]
         /\ \A k \in 1..Len(sv) : Remains(st, sv, k, c)
         /\ \A i : IsOpen(st, i) => IsOpen(sv, i) \/ i = st[Len(st)].count + 1
<1> DEFINE top == Len(st)
<1>1. st \in Seq(FrameSet)
  BY DEF StackOK
<1>2. SQE!Last(st) = st[top] /\ Popped(sv, st, top) /\ top \in 1..Len(st)
  <2>1. Popped(sv, st, top)
    BY <1>1, FrontIs
  <2>. QED BY <1>1, <2>1, FrontIs DEF Popped
<1>3. top \in Nat /\ Len(sv) = top - 1 /\ \A k \in 1..(top - 1) : sv[k] = st[k] /\ k \in 1..Len(st)
  BY <1>1, <1>2 DEF Popped
<1>4. ASSUME NEW k \in 1..Len(sv)
      PROVE  Remains(st, sv, k, c)
  <2>1. k \in 1..Len(st) /\ k < top
    BY <1>3
  <2>2. st[k].count < st[top].count
    BY <1>2, <2>1 DEF StackOK
  <2>3. st[k].count \in Nat /\ st[top].count \in Nat
    BY <1>2, <2>1, FrameTyped
  <2>4. st[k].count + 1 =< c
    BY <2>2, <2>3
  <2>5. \A j \in 1..k : j \in 1..Len(sv) /\ sv[j] = st[j]
    BY <1>3
  <2>. QED BY <2>1, <2>4, <2>5 DEF Remains
<1>5. ASSUME NEW i, IsOpen(st, i), i # st[top].count + 1
      PROVE  IsOpen(sv, i)
  <2>1. PICK k \in 1..Len(st) : st[k].count + 1 = i
    BY <1>5 DEF IsOpen
  <2>2. k # top
    BY <1>5, <2>1
  <2>3. k \in 1..Len(sv) /\ sv[k] = st[k]
    BY <1>3, <2>2
  <2>. QED BY <2>1, <2>3 DEF IsOpen
<1>. QED BY <1>2, <1>4, <1>5

\* What a text that opens a group that demotes says of its frame.
LEMMA DemoterIs ==
  ASSUME DemotersTell, NEW w, NEW f, f.group \in Slots, OpenedBy(w, f), Demoter(w, f.count + 1)
  PROVE  GroupOf(f.opened) = f.group /\ Brackets[f.group].demotes
<1>1. f.opened \in Brackets[f.group].open /\ Brackets[GroupOf(f.opened)].demotes
  BY DEF OpenedBy, Demoter
<1>2. GroupOf(f.opened) = f.group
  BY <1>1 DEF DemotersTell
<1>. QED BY <1>1, <1>2

\* A closer ends the innermost group: it is paired, or is a run that is rejected.
LEMMA EndGroupEnds ==
  ASSUME DemotersTell, EndsInv, NEW r, Marked(r), Apt(r), CloseGroup(r) \/ RejectRun(r)
  PROVE  EndsOK(walk', stack', linked')
<1> DEFINE L == Len(walk.out)
           n == Len(r.mark)
           v == walk'
           sv == stack'
           lv == linked'
           f == stack[Len(stack)]
<1>1. /\ v = Emit(walk, "Closer", n) /\ sv = SQE!Front(stack) /\ r.act \in {"close", "reject"}
      /\ r.act = "close" => lv = linked \cup {<<Frame.count + 1, L + 1>>}
      /\ r.act = "reject" => lv = linked
  BY DEF CloseGroup, RejectRun, Link, OpenerIn
<1>2. stack # <<>> /\ (r.act = "reject" => Rejected(Frame, r.mark))
  BY <1>1 DEF Apt
<1>3. /\ EndsOK(walk, stack, linked) /\ StackOK(walk, stack) /\ Settled(walk, stack, linked, L)
  BY DEF EndsInv, ParseInv, EndsOK
<1>4. /\ n \in Nat /\ n > 0 /\ walk.pos + n =< Len(source)
      /\ Slice(walk.pos, walk.pos + n) = r.mark
  BY MarkedLen DEF EndsInv, Occurs
<1>. HIDE DEF n, v, sv, lv
<1>5. /\ L \in Nat /\ Len(v.out) = L + 1 /\ Alike(walk, v, L)
      /\ v.out[L + 1].kind = "Closer" /\ v.out[L + 1].text = r.mark
  <2>1. "Closer" \in Markers
    BY DEF Markers
  <2>. HIDE DEF L
  <2>2. v.out[Len(walk.out) + 1].text = Slice(walk.pos, walk.pos + n)
    BY <1>1, <1>4, <2>1, EmitAlike DEF EndsInv
  <2>3. /\ Len(walk.out) \in Nat /\ Len(v.out) = Len(walk.out) + 1
        /\ Alike(walk, v, Len(walk.out)) /\ v.out[Len(walk.out) + 1].kind = "Closer"
    BY <1>1, <1>4, <2>1, EmitAlike DEF EndsInv
  <2>. QED BY <1>4, <2>2, <2>3 DEF L
<1>6. Len(stack) \in 1..Len(stack)
  <2>1. stack \in Seq(FrameSet)
    BY <1>3 DEF StackOK
  <2>. QED BY <1>2, <2>1
<1>7. f = Frame
  BY DEF Frame, SQE!Last
<1>8. /\ f.count \in Nat /\ f.count + 1 \in 1..L /\ f.group \in Slots /\ OpenedBy(walk, f)
      /\ walk.out[f.count + 1].kind = "Opener"
  BY <1>3, <1>6, FrameTyped DEF FrameIn, EndsOK
<1>9. /\ \A k \in 1..Len(sv) : Remains(stack, sv, k, L)
      /\ \A i : IsOpen(stack, i) => IsOpen(sv, i) \/ i = f.count + 1
  <2>1. f.count =< L
    BY <1>5, <1>8
  <2>. HIDE DEF L
  <2>. QED BY <1>1, <1>2, <1>3, <1>5, <2>1, PopRemains
<1>10. Demoter(walk, f.count + 1) => Ended(v, lv, f.count + 1, L + 1)
  <2> DEFINE i == f.count + 1
  <2>1. CASE r.act = "close"
    <3>1. <<i, L + 1>> \in lv
      BY <1>1, <1>7, <2>1
    <3>2. <<i, L + 1>>[1] = i /\ <<i, L + 1>>[2] =< L + 1
      BY <1>5
    <3>. QED BY <3>1, <3>2 DEF Ended
  <2>2. ASSUME r.act = "reject", Demoter(walk, i)
        PROVE  Ended(v, lv, i, L + 1)
    <3>1. GroupOf(f.opened) = f.group
      BY <1>8, <2>2, DemoterIs
    <3>2. v.out[i].text = f.opened /\ v.out[L + 1].text = r.mark
      <4>1. v.out[i] = walk.out[i]
        BY <1>5, <1>8 DEF Alike
      <4>. QED BY <1>5, <1>8, <4>1 DEF OpenedBy
    <3>3. f.group # NoGroup
      BY <1>8 DEF NoGroup, Slots
    <3>4. Width[r.mark] > Width[f.opened]
      <4>1. f.opened \in Marks /\ r.mark \in Marks
        BY <1>2, <1>7, <1>8, <2>2, GroupTyped, TableAssumption DEF OpenedBy, Rejected
      <4>2. Len(r.mark) > Len(f.opened)
        BY <1>2, <1>7, <2>2 DEF Rejected
      <4>. QED BY <4>1, <4>2, LexisAssumption DEF LexisAssumption
    <3>5. Rejects(v.out[i], v.out[L + 1])
      <4>. HIDE DEF i, L
      <4>1. Overlong(Brackets[f.group], f.opened, r.mark)
        BY <1>2, <1>7, <2>2, <3>4 DEF Rejected, Overlong
      <4>. QED BY <3>1, <3>2, <3>3, <4>1 DEF Rejects
    <3>6. L + 1 \in (i + 1)..(L + 1)
      BY <1>5, <1>8
    <3>. QED BY <1>5, <3>5, <3>6 DEF Ended
  <2>. QED BY <1>1, <2>1, <2>2
<1>11. \A l \in linked : l[2] \in Nat /\ l \in lv
  BY <1>1, <1>3 DEF EndsOK
<1>12. \A l \in lv : l[2] \in Nat
  BY <1>1, <1>5, <1>11
<1>13. \A i \in (L + 1)..Len(v.out) : ~Demoter(v, i)
  <2>1. \A i \in (L + 1)..Len(v.out) : i = L + 1
    BY <1>5
  <2>. QED BY <1>5, <2>1 DEF Demoter
<1>. HIDE DEF L, f
<1>14. \A i \in 1..L : IsOpen(stack, i) /\ Demoter(walk, i) =>
                       IsOpen(sv, i) \/ Ended(v, lv, i, Len(v.out))
  BY <1>5, <1>9, <1>10
<1>15. EndsOK(v, sv, lv)
  BY <1>3, <1>5, <1>9, <1>11, <1>12, <1>13, <1>14, EndsKept
<1>. QED BY <1>15 DEF v, sv, lv

LEMMA SeparatorEnds ==
  ASSUME EndsInv, NEW r, Marked(r), Separate(r) \/ StrayCloser(r)
  PROVE  EndsOK(walk', stack', linked')
<1> DEFINE n == Len(r.mark)
<1>1. PICK kind \in {"Separator", "Closer"} : walk' = Emit(walk, kind, n)
  BY DEF Separate, StrayCloser
<1>2. stack' = stack /\ (linked' = linked \/ linked' = linked \cup {<<Frame.count + 1, Len(walk.out) + 1>>})
  BY DEF Separate, StrayCloser, Link, OpenerIn
<1>3. n \in Nat /\ n > 0 /\ walk.pos + n =< Len(source)
  BY MarkedLen DEF EndsInv
<1>4. Len(walk.out) \in Nat /\ \A l \in linked : l[2] \in Nat
  BY Typed DEF EndsInv, ParseInv, EndsOK
<1>5. linked \subseteq linked' /\ \A l \in linked' : l[2] \in Nat
  BY <1>2, <1>4
<1>. HIDE DEF n
<1>6. kind \in Markers \ {"Opener"}
  BY DEF Markers
<1>. QED BY <1>1, <1>2, <1>3, <1>5, <1>6, MarkEnds

LEMMA TextEnds ==
  ASSUME EndsInv, NEW r, Marked(r), TakeText(r)
  PROVE  EndsOK(walk', stack', linked')
<1> DEFINE L == Len(walk.out)
           v == walk'
<1>1. v = Advance(walk, Len(r.mark)) /\ stack' = stack /\ linked' = linked
  BY DEF TakeText
<1>2. /\ Sound(walk) /\ EndsOK(walk, stack, linked) /\ StackOK(walk, stack)
      /\ Settled(walk, stack, linked, L) /\ \A l \in linked : l[2] \in Nat
  BY DEF EndsInv, ParseInv, EndsOK
<1>. HIDE DEF v
<1>3. /\ L \in Nat /\ Len(v.out) \in Nat /\ Alike(walk, v, L)
      /\ \A i \in (L + 1)..Len(v.out) : v.out[i].kind = "Text"
  BY <1>1, <1>2, AdvanceAlike
<1>4. \A i \in (L + 1)..Len(v.out) : ~Demoter(v, i)
  BY <1>3 DEF Demoter
<1>5. ASSUME NEW k \in 1..Len(stack)
      PROVE  Remains(stack, stack, k, L)
  <2>1. stack[k].count + 1 \in 1..L /\ Len(stack) \in Nat
    BY <1>2, FrameTyped DEF FrameIn
  <2>. QED BY <1>3, <2>1 DEF Remains
<1>. HIDE DEF L
<1>6. EndsOK(v, stack, linked)
  BY <1>2, <1>3, <1>4, <1>5, EndsKept
<1>. QED BY <1>1, <1>6 DEF v

\* A group that is left open does not demote.
LEMMA LeaveOpenEnds ==
  ASSUME DemotersTell, EndsInv, NEW r, stack # <<>>, LeaveOpen(r)
  PROVE  EndsOK(walk', stack', linked')
<1> DEFINE L == Len(walk.out)
           sv == stack'
           f == stack[Len(stack)]
<1>1. /\ walk' = walk /\ sv = SQE!Front(stack) /\ linked' = linked
      /\ ~Brackets[Frame.group].demotes
  BY DEF LeaveOpen
<1>2. /\ Sound(walk) /\ EndsOK(walk, stack, linked) /\ StackOK(walk, stack)
      /\ Settled(walk, stack, linked, L) /\ \A l \in linked : l[2] \in Nat
  BY DEF EndsInv, ParseInv, EndsOK
<1>. HIDE DEF sv
<1>3. L \in Nat /\ Alike(walk, walk, L)
  BY <1>2, Typed DEF Alike
<1>4. Len(stack) \in 1..Len(stack)
  <2>1. stack \in Seq(FrameSet)
    BY <1>2 DEF StackOK
  <2>. QED BY <2>1
<1>5. /\ f.count \in Nat /\ f.count + 1 \in 1..L /\ f.group \in Slots /\ OpenedBy(walk, f)
      /\ f = Frame
  BY <1>2, <1>4, FrameTyped DEF FrameIn, EndsOK, Frame, SQE!Last
<1>6. /\ \A k \in 1..Len(sv) : Remains(stack, sv, k, L)
      /\ \A i : IsOpen(stack, i) => IsOpen(sv, i) \/ i = f.count + 1
  <2>1. f.count =< L
    BY <1>3, <1>5
  <2>. HIDE DEF L
  <2>. QED BY <1>1, <1>2, <1>3, <2>1, PopRemains
<1>7. ~Demoter(walk, f.count + 1)
  BY <1>1, <1>5, DemoterIs
<1>8. \A i \in (L + 1)..Len(walk.out) : FALSE
  BY <1>3
<1>9. \A i \in 1..L : IsOpen(stack, i) /\ Demoter(walk, i) => IsOpen(sv, i)
  BY <1>6, <1>7
<1>. HIDE DEF f
<1>10. EndsOK(walk, sv, linked)
  <2>1. Len(walk.out) \in Nat
    BY <1>3
  <2>. HIDE DEF L
  <2>. QED BY <1>2, <1>3, <1>6, <1>8, <1>9, <2>1, EndsKept
<1>. QED BY <1>1, <1>10 DEF sv

\* A group that demotes leaves what was settled before it opened.
LEMMA DemoteEnds ==
  ASSUME EndsInv, NEW r, stack # <<>>, Demote(r)
  PROVE  EndsOK(walk', stack', linked')
<1> DEFINE f == stack[Len(stack)]
           c == f.count
           u == Rewind(walk, c, f.pos)
           v == walk'
           sv == stack'
           lv == linked'
<1>1. /\ v = Advance(u, Len(f.opened)) /\ sv = SQE!Front(stack)
      /\ lv = {l \in linked : l[2] =< c}
  BY DEF Demote, Folded, Frame, SQE!Last
<1>2. /\ Sound(walk) /\ EndsOK(walk, stack, linked) /\ StackOK(walk, stack)
      /\ source \in Seq(Byte) /\ \A l \in linked : l[2] \in Nat
  BY DEF EndsInv, ParseInv, EndsOK
<1>3. Len(stack) \in 1..Len(stack)
  <2>1. stack \in Seq(FrameSet)
    BY <1>2 DEF StackOK
  <2>. QED BY <2>1
<1>4. c \in Nat /\ c < Len(walk.out) /\ walk.out[c + 1].at = f.pos /\ Len(walk.out) \in Nat
  BY <1>2, <1>3, FrameTyped, Typed DEF FrameIn
<1>5. Settled(walk, stack, linked, c)
  BY <1>2, <1>3 DEF EndsOK
<1>6. CutAt(walk, u, c)
  BY <1>2, <1>4, RewindCuts
<1>. HIDE DEF v, sv, lv, u
<1>7. Sound(u) /\ Len(u.out) = c /\ \A i \in 1..c : u.out[i] = walk.out[i]
  BY <1>6 DEF CutAt
<1>8. /\ Len(v.out) \in Nat /\ Alike(u, v, c)
      /\ \A i \in (c + 1)..Len(v.out) : v.out[i].kind = "Text"
  BY <1>1, <1>7, AdvanceAlike
<1>9. Alike(walk, v, c)
  <2>1. ASSUME NEW i \in 1..c
        PROVE  /\ v.out[i].kind = walk.out[i].kind
               /\ walk.out[i].kind # "Text" => v.out[i] = walk.out[i]
    <3>1. u.out[i] = walk.out[i]
      BY <1>7
    <3>2. v.out[i].kind = u.out[i].kind /\ (u.out[i].kind # "Text" => v.out[i] = u.out[i])
      BY <1>8 DEF Alike
    <3>. QED BY <3>1, <3>2
  <2>2. c =< Len(v.out) /\ c =< Len(walk.out)
    BY <1>4, <1>8 DEF Alike
  <2>. QED BY <1>4, <2>1, <2>2 DEF Alike
<1>10. /\ \A k \in 1..Len(sv) : Remains(stack, sv, k, c)
       /\ \A i : IsOpen(stack, i) => IsOpen(sv, i) \/ i = c + 1
  <2>1. c =< c /\ stack[Len(stack)].count = c
    BY <1>4
  <2>. HIDE DEF c
  <2>. QED BY <1>1, <1>2, <1>4, <2>1, PopRemains
<1>11. \A i \in (c + 1)..Len(v.out) : ~Demoter(v, i)
  BY <1>8 DEF Demoter
<1>12. \A i \in 1..c : IsOpen(stack, i) => IsOpen(sv, i)
  BY <1>4, <1>10
<1>13. /\ \A l \in lv : l[2] \in Nat
       /\ \A l \in linked : l[2] =< c => l \in lv
  BY <1>1, <1>2
<1>. HIDE DEF c, f
<1>14. EndsOK(v, sv, lv)
  BY <1>2, <1>5, <1>8, <1>9, <1>10, <1>11, <1>12, <1>13, EndsKept
<1>. QED BY <1>14 DEF v, sv, lv

\* Every step of the bracket parser keeps it.
LEMMA EndsStep ==
  ASSUME DemotersTell, EndsInv, Next
  PROVE  EndsInv'
<1>1. PICK r : r = Read /\ (\/ OpenGroup(r) \/ CloseGroup(r) \/ RejectRun(r) \/ Separate(r)
                            \/ StrayCloser(r) \/ TakeText(r) \/ LeaveOpen(r) \/ Demote(r))
  BY DEF Next
<1>2. r # Nothing
  BY <1>1 DEF OpenGroup, CloseGroup, RejectRun, Separate, StrayCloser, TakeText,
              LeaveOpen, Demote, Nothing, Ending
<1>3. ParseInv /\ ParseInv'
  BY ParseStep DEF EndsInv
<1>4. Apt(r)
  <2>1. walk.pos \in Nat /\ walk.pos =< Len(source) /\ source \in Seq(Byte)
    BY <1>3, Typed DEF ParseInv, Sound, Tiled
  <2>2. CanRead /\ stack \in Seq(FrameSet)
    BY <1>3, <2>1, LexisAssumption, TableAssumption DEF CanRead, ParseInv, StackOK
  <2>. QED BY <1>1, <2>2, ReadApt
<1>5. CASE Marked(r)
  <2>1. r # Ending
    BY <1>5 DEF Marked, Ending
  <2>2. ~LeaveOpen(r) /\ ~Demote(r)
    BY <2>1 DEF LeaveOpen, Demote
  <2>3. EndsOK(walk', stack', linked')
    BY <1>1, <1>4, <1>5, <2>2, OpenEnds, EndGroupEnds, SeparatorEnds, TextEnds
  <2>. QED BY <1>3, <2>3, EndsPrimed
<1>6. CASE r = Ending /\ stack # <<>>
  <2>1. r.act = "end"
    BY <1>6 DEF Ending
  <2>2. LeaveOpen(r) \/ Demote(r)
    BY <1>1, <2>1 DEF OpenGroup, CloseGroup, RejectRun, Separate, StrayCloser, TakeText
  <2>3. EndsOK(walk', stack', linked')
    BY <1>6, <2>2, LeaveOpenEnds, DemoteEnds
  <2>. QED BY <1>3, <2>3, EndsPrimed
<1>. QED BY <1>1, <1>2, <1>3, <1>5, <1>6, ReadWhere

LEMMA EndsBegin ==
  ASSUME Init
  PROVE  EndsInv
<1>1. walk.out = <<>> /\ stack = <<>> /\ linked = {}
  BY DEF Init, NewWalk
<1>2. EndsOK(walk, stack, linked)
  BY <1>1 DEF EndsOK, Settled
<1>. QED BY <1>2, ParseBegins DEF EndsInv

LEMMA EndsStay ==
  ASSUME EndsInv, UNCHANGED vars
  PROVE  EndsInv'
<1>1. walk' = walk /\ stack' = stack /\ linked' = linked
  BY DEF vars
<1>2. EndsOK(walk', stack', linked')
  BY <1>1 DEF EndsInv
<1>. QED BY <1>2, ParseStays, EndsPrimed DEF EndsInv

\* In a parse that is finished nothing is open.
LEMMA DemotersEnded ==
  ASSUME EndsInv
  PROVE  DemotingGroupsEnd
<1>1. SUFFICES ASSUME Finished, NEW i \in Places, walk.out[i].kind = "Opener",
                      Brackets[GroupAt(i)].demotes, \A l \in linked : l[1] # i
               PROVE  \E j \in Places : /\ j > i /\ walk.out[j].kind = "Closer"
                                       /\ Rejects(walk.out[i], walk.out[j])
  BY DEF DemotingGroupsEnd
<1>2. Settled(walk, stack, linked, Len(walk.out)) /\ Len(walk.out) \in Nat
  BY Typed DEF EndsInv, EndsOK, ParseInv
<1>3. ~IsOpen(stack, i)
  BY <1>1 DEF Finished, AtTop, IsOpen
<1>4. Ended(walk, linked, i, Len(walk.out))
  BY <1>1, <1>2, <1>3 DEF Settled, Demoter, GroupAt, Places
<1>5. PICK j \in (i + 1)..Len(walk.out) : walk.out[j].kind = "Closer" /\ Rejects(walk.out[i], walk.out[j])
  BY <1>1, <1>4 DEF Ended
<1>6. j \in Places /\ j > i
  BY <1>2 DEF Places
<1>. QED BY <1>5, <1>6

\* In a table in which the text of an opener tells whether its group demotes,
\* such a group never stands unclosed in a finished parse, but for a run it
\* rejects (open of bracket_parser.go), however many demotions read it again.
THEOREM DemotersEnd == DemotersTell => (Spec => []DemotingGroupsEnd)
<1>. SUFFICES ASSUME DemotersTell PROVE Spec => []DemotingGroupsEnd
  OBVIOUS
<1>1. Init => EndsInv
  BY EndsBegin
<1>2. EndsInv /\ [Next]_vars => EndsInv'
  BY EndsStep, EndsStay
<1>3. EndsInv => DemotingGroupsEnd
  BY DemotersEnded
<1>. QED BY <1>1, <1>2, <1>3, PTL DEF Spec

---------------------------------------------------------------------------
(* The walk of a shape, turn by turn: what it holds open before a node says  *)
(* what the node is paired with, and what it stands in.                      *)

Unlinked(shape) ==
  [info |-> [n \in {shape[i].id : i \in 1..Len(shape)} |-> NoInfo], stack |-> <<>>]

LEMMA LeastIn ==
  ASSUME NEW S \in SUBSET Nat, S # {}
  PROVE  \E m \in S : \A n \in S : m =< n
<1>1. \E m \in S : \A n \in S : ~(<<n, m>> \in OpToRel(<, Nat))
  BY WFMin, NatLessThanWellFounded
<1>2. PICK m \in S : \A n \in S : ~(n < m)
  BY <1>1 DEF OpToRel
<1>3. \A n \in S : m =< n
  BY <1>2
<1>. QED BY <1>3

LEMMA WalkTurns ==
  ASSUME NEW shape, Len(shape) \in Nat
  PROVE  /\ WalkOf(shape)[0] = Unlinked(shape)
         /\ \A k \in 1..Len(shape) : WalkOf(shape)[k] = Visit(WalkOf(shape)[k - 1], shape[k])
<1> DEFINE Part(g, n) ==
             g = [k \in 0..n |-> IF k = 0 THEN Unlinked(shape) ELSE Visit(g[k - 1], shape[k])]
           Bad == {n \in 0..Len(shape) : ~\E g : Part(g, n)}
           w == WalkOf(shape)
<1>1. Bad = {}
  <2>. SUFFICES ASSUME Bad # {} PROVE FALSE
    OBVIOUS
  <2>1. PICK m \in Bad : \A n \in Bad : m =< n
    <3>. HIDE DEF Part
    <3>1. Bad \in SUBSET Nat
      OBVIOUS
    <3>. HIDE DEF Bad
    <3>. QED BY <3>1, LeastIn
  <2>2. CASE m = 0
    <3>1. Part([k \in 0..0 |-> Unlinked(shape)], 0)
      OBVIOUS
    <3>. QED BY <2>2, <3>1
  <2>3. CASE m # 0
    <3>1. m - 1 \in 0..Len(shape) /\ m - 1 \notin Bad /\ m \in Nat
      <4>. HIDE DEF Part
      <4>1. m - 1 \in 0..Len(shape)
        BY <2>3
      <4>2. m - 1 \notin Bad
        <5>. HIDE DEF Bad
        <5>1. m \in Int
          BY <4>1 DEF Bad
        <5>. QED BY <2>1, <5>1
      <4>. QED BY <4>1, <4>2
    <3>2. PICK g : Part(g, m - 1)
      <4>. HIDE DEF Part
      <4>. QED BY <3>1
    <3> DEFINE h == [k \in 0..m |-> IF k = 0 THEN Unlinked(shape) ELSE Visit(g[k - 1], shape[k])]
    <3>3. ASSUME NEW k \in 0..(m - 1)
          PROVE  h[k] = g[k]
      <4>1. k \in 0..m
        BY <3>1
      <4>2. h[k] = IF k = 0 THEN Unlinked(shape) ELSE Visit(g[k - 1], shape[k])
        BY <4>1
      <4>3. g[k] = IF k = 0 THEN Unlinked(shape) ELSE Visit(g[k - 1], shape[k])
        BY <3>2, Zenon
      <4>. QED BY <4>2, <4>3
    <3>4. Part(h, m)
      <4>1. \A k \in 0..m : k # 0 => k - 1 \in 0..(m - 1)
        BY <3>1
      <4>. QED BY <3>3, <4>1
    <3>. HIDE DEF Part, h
    <3>. QED BY <3>4
  <2>. QED BY <2>2, <2>3
<1>2. \E g : Part(g, Len(shape))
  <2>. HIDE DEF Part
  <2>. QED BY <1>1
<1>3. w = CHOOSE g : Part(g, Len(shape))
  BY DEF WalkOf, Unlinked
<1>4. Part(w, Len(shape))
  <2>. HIDE DEF Part, w
  <2>. QED BY <1>2, <1>3
<1>. HIDE DEF w
<1>5. ASSUME NEW k \in 0..Len(shape)
      PROVE  w[k] = IF k = 0 THEN Unlinked(shape) ELSE Visit(w[k - 1], shape[k])
  BY <1>4, Zenon
<1>6. 0 \in 0..Len(shape) /\ \A k \in 1..Len(shape) : k \in 0..Len(shape) /\ k # 0
  OBVIOUS
<1>7. w[0] = Unlinked(shape)
  BY <1>5, <1>6
<1>8. ASSUME NEW k \in 1..Len(shape)
      PROVE  w[k] = Visit(w[k - 1], shape[k])
  BY <1>5, <1>6
<1>. QED BY <1>7, <1>8 DEF w

\* What a node leaves open of what was open before it.
After(s, n) ==
  IF n.kind # "Closer" THEN (IF n.kind = "Opener" THEN Append(s, n) ELSE s)
  ELSE IF s = <<>> THEN s
  ELSE IF Closes(SQE!Last(s), n) \/ Rejects(SQE!Last(s), n) THEN SQE!Front(s)
  ELSE IF EnclosingCloses(s, n) > 0 THEN SubSeq(s, 1, EnclosingCloses(s, n) - 1)
  ELSE s

\* The opener it is paired with.
Answer(s, n) ==
  IF s = <<>> \/ n.kind \notin {"Closer", "Separator"} THEN None
  ELSE IF n.kind = "Separator" \/ Closes(SQE!Last(s), n) THEN SQE!Last(s).id
  ELSE IF Rejects(SQE!Last(s), n) \/ EnclosingCloses(s, n) = 0 THEN None
  ELSE s[EnclosingCloses(s, n)].id

\* The opener it stands in.
Around(s, n) == IF s = <<>> \/ n.kind = "Closer" THEN None ELSE SQE!Last(s).id

LEMMA MaxIn ==
  ASSUME NEW n \in Nat, NEW S \in SUBSET (1..n), S # {}
  PROVE  FSE!Max(S) \in S /\ \A x \in S : x =< FSE!Max(S)
<1> DEFINE T == {n - x : x \in S}
<1>1. T \in SUBSET Nat /\ T # {}
  <2>1. \A x \in S : n - x \in Nat
    OBVIOUS
  <2>2. T \in SUBSET Nat
    BY <2>1
  <2>. QED BY <2>2, Zenon
<1>2. \E t \in T : \A u \in T : ~(<<u, t>> \in OpToRel(<, Nat))
  <2>. HIDE DEF T
  <2>. QED BY <1>1, WFMin, NatLessThanWellFounded
<1>3. PICK t \in T : \A u \in T : ~(u < t)
  BY <1>1, <1>2 DEF OpToRel
<1>4. PICK m \in S : t = n - m
  BY <1>3
<1>5. ASSUME NEW x \in S
      PROVE  m >= x
  <2>1. ~(n - x < t) /\ x \in 1..n /\ m \in 1..n
    BY <1>3
  <2>. QED BY <1>4, <2>1
<1>6. \E max \in S : \A x \in S : max >= x
  BY <1>5
<1>7. FSE!Max(S) \in S /\ \A x \in S : FSE!Max(S) >= x
  BY <1>6 DEF FSE!Max
<1>8. \A x \in S, y \in S : x >= y => y =< x
  OBVIOUS
<1>. QED BY <1>7, <1>8

LEMMA EnclosingIs ==
  ASSUME NEW S, NEW s \in Seq(S), NEW n
  PROVE  LET j == EnclosingCloses(s, n)
         IN  \/ /\ j = 0
                /\ \A i \in 1..(Len(s) - 1) : ~(/\ Closes(s[i], n)
                                                /\ \A k \in (i + 1)..Len(s) : CodeMode(s[k]))
             \/ /\ j \in 1..(Len(s) - 1) /\ Closes(s[j], n)
                /\ \A k \in (j + 1)..Len(s) : CodeMode(s[k])
                /\ \A i \in (j + 1)..(Len(s) - 1) : ~(/\ Closes(s[i], n)
                                                      /\ \A k \in (i + 1)..Len(s) : CodeMode(s[k]))
<1> DEFINE Here(i) == Closes(s[i], n) /\ \A k \in (i + 1)..Len(s) : CodeMode(s[k])
           found == {i \in 1..(Len(s) - 1) : Here(i)}
           j == EnclosingCloses(s, n)
<1>1. j = IF found = {} THEN 0 ELSE FSE!Max(found)
  BY DEF EnclosingCloses
<1>2. found \in SUBSET (1..(Len(s) - 1)) /\ Len(s) \in Nat
  OBVIOUS
<1>. HIDE DEF j
<1>3. CASE found = {}
  <2>1. j = 0 /\ \A i \in 1..(Len(s) - 1) : ~Here(i)
    BY <1>1, <1>3
  <2>. QED BY <2>1 DEF j
<1>4. CASE found # {}
  <2>1. Len(s) - 1 \in Nat
    BY <1>2, <1>4
  <2>2. j \in found /\ \A i \in found : i =< j
    <3>. HIDE DEF found
    <3> DEFINE n1 == Len(s) - 1
    <3>1. n1 \in Nat /\ found \in SUBSET (1..n1)
      BY <1>2, <2>1
    <3>. HIDE DEF n1
    <3>. QED BY <1>1, <1>4, <3>1, MaxIn
  <2>3. j \in 1..(Len(s) - 1) /\ Here(j)
    BY <2>2
  <2>4. \A i \in (j + 1)..(Len(s) - 1) : ~Here(i)
    <3>1. ASSUME NEW i \in (j + 1)..(Len(s) - 1), Here(i)
          PROVE  FALSE
      <4>1. i \in 1..(Len(s) - 1)
        BY <2>3
      <4>2. i \in found
        BY <3>1, <4>1
      <4>3. i =< j
        BY <2>2, <4>2
      <4>. QED BY <2>3, <4>3
    <3>. QED BY <3>1
  <2>. HIDE DEF found
  <2>. QED BY <2>3, <2>4 DEF j
<1>. QED BY <1>3, <1>4

\* A turn leaves open what the node leaves.
LEMMA VisitLeaves ==
  ASSUME NEW w, NEW n
  PROVE  Visit(w, n).stack = After(w.stack, n)
BY DEF Visit, AtCloser, AtOther, After

\* What is open was.
LEMMA AfterIn ==
  ASSUME NEW S, NEW s \in Seq(S), NEW n \in S
  PROVE  After(s, n) \in Seq(S)
<1>1. CASE s = <<>> \/ n.kind # "Closer"
  BY <1>1 DEF After
<1>2. CASE s # <<>> /\ n.kind = "Closer"
  <2>1. SQE!Front(s) \in Seq(S)
    BY <1>2, FrontIs
  <2>2. EnclosingCloses(s, n) > 0 => SubSeq(s, 1, EnclosingCloses(s, n) - 1) \in Seq(S)
    <3> DEFINE j == EnclosingCloses(s, n)
    <3>1. j = 0 \/ j \in 1..(Len(s) - 1)
      BY EnclosingIs
    <3>. HIDE DEF j
    <3>2. j > 0 => SubSeq(s, 1, j - 1) \in Seq(S)
      BY <3>1
    <3>. QED BY <3>2 DEF j
  <2>. QED BY <1>2, <2>1, <2>2 DEF After
<1>. QED BY <1>1, <1>2

Infos == [opener : Nat, closer : Nat, enclosing : Nat, separators : Seq(Nat)]

\* Nodes but for the one at m keep their opener and what they stand in.
Rests(info, told, D, m) ==
  \A i \in D : i # m => told[i].opener = info[i].opener /\ told[i].enclosing = info[i].enclosing

\* Nodes but for the one at m keep their closer.
ClosersRest(info, told, D, m) == \A i \in D : i # m => told[i].closer = info[i].closer

LEMMA PairTells ==
  ASSUME NEW D \in SUBSET Nat, NEW info \in [D -> Infos], NEW open, NEW n,
         open.id \in D, n.id \in D, open.id # n.id
  PROVE  /\ Pair(info, open, n) \in [D -> Infos] /\ Rests(info, Pair(info, open, n), D, n.id)
         /\ Pair(info, open, n)[n.id].opener = open.id
         /\ Pair(info, open, n)[n.id].enclosing = info[n.id].enclosing
         /\ ClosersRest(info, Pair(info, open, n), D, open.id) /\ Pair(info, open, n)[open.id].closer = n.id
<1> DEFINE a == open.id
           b == n.id
           x == [info[a] EXCEPT !.closer = b]
           y == [info[b] EXCEPT !.opener = a]
           told == Pair(info, open, n)
<1>1. told = [[info EXCEPT ![a] = x] EXCEPT ![b] = y]
  BY DEF Pair
<1>2. a \in D /\ b \in D /\ a # b /\ a \in Nat /\ b \in Nat
  OBVIOUS
<1>3. info[a] \in Infos /\ info[b] \in Infos
  BY <1>2
<1>. HIDE DEF a, b, told
<1>4. x \in Infos /\ x.opener = info[a].opener /\ x.enclosing = info[a].enclosing /\ x.closer = b
  BY <1>2, <1>3 DEF Infos
<1>5. y \in Infos /\ y.opener = a /\ y.enclosing = info[b].enclosing /\ y.closer = info[b].closer
  BY <1>2, <1>3 DEF Infos
<1>. HIDE DEF x, y
<1>6. /\ told \in [D -> Infos] /\ told[b] = y /\ told[a] = x
      /\ \A i \in D : i # a /\ i # b => told[i] = info[i]
  BY <1>1, <1>2, <1>4, <1>5
<1>7. Rests(info, told, D, b)
  BY <1>4, <1>6 DEF Rests
<1>8. ClosersRest(info, told, D, a) /\ told[a].closer = b
  BY <1>2, <1>4, <1>5, <1>6 DEF ClosersRest
<1>. QED BY <1>5, <1>6, <1>7, <1>8 DEF a, b, told

LEMMA EncloseTells ==
  ASSUME NEW D \in SUBSET Nat, NEW info \in [D -> Infos], NEW open, NEW n,
         open.id \in D, n.id \in D, open.id # n.id
  PROVE  /\ Enclose(info, n, open) \in [D -> Infos] /\ Rests(info, Enclose(info, n, open), D, n.id)
         /\ Enclose(info, n, open)[n.id].enclosing = open.id
         /\ Enclose(info, n, open)[n.id].opener =
              IF n.kind = "Separator" THEN open.id ELSE info[n.id].opener
         /\ ClosersRest(info, Enclose(info, n, open), D, n.id)
         /\ Enclose(info, n, open)[n.id].closer = info[n.id].closer
<1> DEFINE a == open.id
           b == n.id
           x == [info[a] EXCEPT !.separators = Append(@, b)]
           y == [info[b] EXCEPT !.enclosing = a]
           z == [y EXCEPT !.opener = a]
           told == Enclose(info, n, open)
<1>1. /\ n.kind = "Separator" => told = [[[info EXCEPT ![b] = y] EXCEPT ![b] = z] EXCEPT ![a] = x]
      /\ n.kind # "Separator" => told = [info EXCEPT ![b] = y]
  <2>1. n.kind # "Separator" => told = [info EXCEPT ![b] = y]
    BY DEF Enclose
  <2>2. ASSUME n.kind = "Separator"
        PROVE  told = [[[info EXCEPT ![b] = y] EXCEPT ![b] = z] EXCEPT ![a] = x]
    <3>1. told = [info EXCEPT ![b].enclosing = a, ![b].opener = a, ![a].separators = Append(@, b)]
      BY <2>2 DEF Enclose
    <3> DEFINE i1 == [info EXCEPT ![b].enclosing = a]
               i2 == [i1 EXCEPT ![b].opener = a]
               i3 == [i2 EXCEPT ![a].separators = Append(@, b)]
    <3>2. told = i3
      BY <3>1
    <3>3. i1 = [info EXCEPT ![b] = y]
      OBVIOUS
    <3>4. i1[b] = y /\ i1[a] = info[a] /\ i1 \in [D -> {i1[k] : k \in D}]
      OBVIOUS
    <3>5. i2 = [i1 EXCEPT ![b] = z] /\ i2[a] = info[a]
      BY <3>4
    <3>6. i3 = [i2 EXCEPT ![a] = x]
      BY <3>5
    <3>. QED BY <3>2, <3>3, <3>5, <3>6
  <2>. QED BY <2>1, <2>2
<1>2. a \in D /\ b \in D /\ a # b /\ a \in Nat /\ b \in Nat
  OBVIOUS
<1>3. info[a] \in Infos /\ info[b] \in Infos
  BY <1>2
<1>. HIDE DEF a, b, told
<1>4. x \in Infos /\ x.opener = info[a].opener /\ x.enclosing = info[a].enclosing /\ x.closer = info[a].closer
  <2>1. info[a].separators \in Seq(Nat)
    BY <1>3 DEF Infos
  <2>2. Append(info[a].separators, b) \in Seq(Nat)
    BY <1>2, <2>1
  <2>. QED BY <1>3, <2>2 DEF Infos
<1>5. y \in Infos /\ y.opener = info[b].opener /\ y.enclosing = a /\ y.closer = info[b].closer
  BY <1>2, <1>3 DEF Infos
<1>6. z \in Infos /\ z.opener = a /\ z.enclosing = a /\ z.closer = info[b].closer
  <2>. HIDE DEF y
  <2>. QED BY <1>2, <1>5 DEF Infos
<1>. HIDE DEF x, y, z
<1>7. CASE n.kind = "Separator"
  <2>1. told = [[[info EXCEPT ![b] = y] EXCEPT ![b] = z] EXCEPT ![a] = x]
    BY <1>1, <1>7
  <2>2. /\ told \in [D -> Infos] /\ told[b] = z /\ told[a] = x
        /\ \A i \in D : i # a /\ i # b => told[i] = info[i]
    BY <1>2, <1>4, <1>5, <1>6, <2>1
  <2>3. Rests(info, told, D, b)
    BY <1>4, <2>2 DEF Rests
  <2>4. ClosersRest(info, told, D, b) /\ told[b].closer = info[b].closer
    BY <1>4, <1>6, <2>2 DEF ClosersRest
  <2>. QED BY <1>6, <1>7, <2>2, <2>3, <2>4 DEF a, b, told
<1>8. CASE n.kind # "Separator"
  <2>1. told = [info EXCEPT ![b] = y]
    BY <1>1, <1>8
  <2>2. /\ told \in [D -> Infos] /\ told[b] = y
        /\ \A i \in D : i # b => told[i] = info[i]
    BY <1>2, <1>5, <2>1
  <2>3. Rests(info, told, D, b)
    BY <2>2 DEF Rests
  <2>4. ClosersRest(info, told, D, b) /\ told[b].closer = info[b].closer
    BY <1>5, <2>2 DEF ClosersRest
  <2>. QED BY <1>5, <1>8, <2>2, <2>3, <2>4 DEF a, b, told
<1>. QED BY <1>7, <1>8

LEMMA VisitTells ==
  ASSUME NEW L \in Nat, NEW m \in 1..L, NEW t, t.info \in [1..L -> Infos],
         NEW S, t.stack \in Seq(S), \A x \in S : x.id \in 1..(m - 1),
         NEW n, n.id = m, t.info[m].opener = None, t.info[m].enclosing = None
  PROVE  /\ Visit(t, n).info \in [1..L -> Infos] /\ Rests(t.info, Visit(t, n).info, 1..L, m)
         /\ Visit(t, n).info[m].opener = Answer(t.stack, n)
         /\ Visit(t, n).info[m].enclosing = Around(t.stack, n)
<1> DEFINE s == t.stack
           info == t.info
           told == Visit(t, n).info
           j == EnclosingCloses(s, n)
<1>1. s \in Seq(S) /\ info \in [1..L -> Infos]
  OBVIOUS
<1>2. \A k \in 1..Len(s) : s[k].id \in 1..L /\ s[k].id # m
  BY <1>1
<1>3. Rests(info, info, 1..L, m)
  BY DEF Rests
<1>4. CASE s = <<>>
  <2>1. told = info
    BY <1>4 DEF Visit, AtCloser, AtOther
  <2>2. Answer(s, n) = None /\ Around(s, n) = None
    BY <1>4 DEF Answer, Around
  <2>. QED BY <1>3, <2>1, <2>2
<1>5. CASE s # <<>>
  <2> DEFINE x == SQE!Last(s)
  <2>1. x = s[Len(s)] /\ Len(s) \in 1..Len(s)
    BY <1>1, <1>5 DEF SQE!Last
  <2>2. x.id \in 1..L /\ x.id # m
    BY <1>2, <2>1
  <2>3. j = 0 \/ (j \in 1..Len(s) /\ j > 0)
    <3>1. j = 0 \/ j \in 1..(Len(s) - 1)
      <4>. HIDE DEF s
      <4>. QED BY <1>1, EnclosingIs
    <3>. HIDE DEF j, s
    <3>. QED BY <2>1, <3>1
  <2>4. j > 0 => s[j].id \in 1..L /\ s[j].id # m
    BY <1>2, <2>3
  <2>5. ASSUME NEW y, y.id \in 1..L, y.id # m, told = Pair(info, y, n)
        PROVE  /\ told \in [1..L -> Infos] /\ Rests(info, told, 1..L, m)
               /\ told[m].opener = y.id /\ told[m].enclosing = None
    <3>1. n.id \in 1..L /\ y.id # n.id
      BY <2>5
    <3>2. /\ Pair(info, y, n) \in [1..L -> Infos] /\ Rests(info, Pair(info, y, n), 1..L, n.id)
          /\ Pair(info, y, n)[n.id].opener = y.id
          /\ Pair(info, y, n)[n.id].enclosing = info[n.id].enclosing
      <4> DEFINE D == 1..L
      <4>1. D \in SUBSET Nat /\ info \in [D -> Infos] /\ y.id \in D /\ n.id \in D
        BY <1>1, <2>5, <3>1
      <4>. HIDE DEF info, D
      <4>2. /\ Pair(info, y, n) \in [D -> Infos] /\ Rests(info, Pair(info, y, n), D, n.id)
            /\ Pair(info, y, n)[n.id].opener = y.id
            /\ Pair(info, y, n)[n.id].enclosing = info[n.id].enclosing
        BY ONLY <3>1, <4>1, PairTells
      <4>. QED BY <4>2 DEF D
    <3>. QED BY <2>5, <3>2
  <2>. HIDE DEF x, j, s, info
  <2>6. CASE n.kind = "Closer"
    <3>1. /\ Closes(x, n) => told = Pair(info, x, n)
          /\ ~Closes(x, n) /\ Rejects(x, n) => told = info
          /\ ~Closes(x, n) /\ ~Rejects(x, n) /\ j > 0 => told = Pair(info, s[j], n)
          /\ ~Closes(x, n) /\ ~Rejects(x, n) /\ ~(j > 0) => told = info
      BY <1>5, <2>6 DEF Visit, AtCloser, x, j, s, info
    <3>2. Around(s, n) = None
      BY <2>6 DEF Around
    <3>3. Answer(s, n) = IF Closes(x, n) THEN x.id
                         ELSE IF Rejects(x, n) \/ j = 0 THEN None ELSE s[j].id
      BY <1>5, <2>6 DEF Answer, x, j
    <3>4. info[m].opener = None /\ info[m].enclosing = None
      BY DEF info
    <3>. HIDE DEF told
    <3>. QED BY <1>1, <1>3, <2>2, <2>3, <2>4, <2>5, <3>1, <3>2, <3>3, <3>4 DEF s, info, told
  <2>7. CASE n.kind # "Closer"
    <3>1. told = Enclose(info, n, x)
      BY <1>5, <2>7 DEF Visit, AtOther, x, s, info
    <3>2. Around(s, n) = x.id
      BY <1>5, <2>7 DEF Around, x
    <3>3. Answer(s, n) = IF n.kind = "Separator" THEN x.id ELSE None
      BY <1>5, <2>7 DEF Answer, x
    <3>4. info[m].opener = None
      BY DEF info
    <3>5. /\ Enclose(info, n, x) \in [1..L -> Infos] /\ Rests(info, Enclose(info, n, x), 1..L, n.id)
          /\ Enclose(info, n, x)[n.id].enclosing = x.id
          /\ Enclose(info, n, x)[n.id].opener =
               IF n.kind = "Separator" THEN x.id ELSE info[n.id].opener
      <4>1. n.id \in 1..L /\ x.id # n.id
        BY <2>2
      <4> DEFINE D == 1..L
      <4>2. D \in SUBSET Nat /\ info \in [D -> Infos] /\ x.id \in D /\ n.id \in D
        BY <1>1, <2>2, <4>1
      <4>. HIDE DEF D
      <4>3. /\ Enclose(info, n, x) \in [D -> Infos] /\ Rests(info, Enclose(info, n, x), D, n.id)
            /\ Enclose(info, n, x)[n.id].enclosing = x.id
            /\ Enclose(info, n, x)[n.id].opener =
                 IF n.kind = "Separator" THEN x.id ELSE info[n.id].opener
        BY <4>1, <4>2, EncloseTells
      <4>. QED BY <4>3 DEF D
    <3>. QED BY <3>1, <3>2, <3>3, <3>4, <3>5 DEF s, info
  <2>. QED BY <2>6, <2>7 DEF s, info
<1>. QED BY <1>4, <1>5

\* A shape that numbers its nodes, as ParsedShape does.
Numbered(shape) == Len(shape) \in Nat /\ \A i \in 1..Len(shape) : shape[i].id = i

\* What the walk of the first m nodes holds open and has told of them.
ToldBy(shape, m) ==
  /\ WalkOf(shape)[m].info \in [1..Len(shape) -> Infos]
  /\ WalkOf(shape)[m].stack \in Seq({shape[i] : i \in 1..m})
  /\ \A i \in 1..m :
       /\ WalkOf(shape)[m].info[i].opener = Answer(WalkOf(shape)[i - 1].stack, shape[i])
       /\ WalkOf(shape)[m].info[i].enclosing = Around(WalkOf(shape)[i - 1].stack, shape[i])
  /\ \A i \in (m + 1)..Len(shape) :
       WalkOf(shape)[m].info[i].opener = None /\ WalkOf(shape)[m].info[i].enclosing = None

LEMMA BeginsTold ==
  ASSUME NEW shape, Numbered(shape)
  PROVE  ToldBy(shape, 0)
<1> DEFINE L == Len(shape)
           ids == {shape[i].id : i \in 1..L}
<1>1. L \in Nat /\ ids = 1..L
  BY DEF Numbered
<1>2. WalkOf(shape)[0] = [info |-> [n \in ids |-> NoInfo], stack |-> <<>>]
  BY <1>1, WalkTurns DEF Unlinked
<1>3. /\ WalkOf(shape)[0].stack = <<>>
      /\ WalkOf(shape)[0].info = [n \in 1..L |-> NoInfo]
  <2>. HIDE DEF ids
  <2>. QED BY <1>1, <1>2
<1>4. NoInfo \in Infos /\ NoInfo.opener = None /\ NoInfo.enclosing = None
  BY DEF NoInfo, Infos, None
<1>5. /\ WalkOf(shape)[0].info \in [1..L -> Infos]
      /\ \A i \in (0 + 1)..L : /\ WalkOf(shape)[0].info[i].opener = None
                               /\ WalkOf(shape)[0].info[i].enclosing = None
  BY <1>3, <1>4
<1>6. WalkOf(shape)[0].stack \in Seq({shape[i] : i \in 1..0})
  BY <1>3
<1>7. \A i \in 1..0 : FALSE
  OBVIOUS
<1>. QED BY <1>5, <1>6, <1>7 DEF ToldBy

LEMMA TurnTold ==
  ASSUME NEW shape, Numbered(shape), NEW m \in 1..Len(shape), ToldBy(shape, m - 1)
  PROVE  ToldBy(shape, m)
<1> DEFINE L == Len(shape)
           w == WalkOf(shape)
           t == w[m - 1]
           v == w[m]
           n == shape[m]
           S == {shape[i] : i \in 1..(m - 1)}
           T == {shape[i] : i \in 1..m}
<1>1. L \in Nat /\ m \in 1..L /\ v = Visit(t, n) /\ n.id = m
  BY WalkTurns DEF Numbered
<1>2. t.info \in [1..L -> Infos] /\ t.stack \in Seq(S)
  BY DEF ToldBy
<1>3. /\ t.info[m].opener = None /\ t.info[m].enclosing = None
      /\ \A i \in (m + 1)..L : t.info[i].opener = None /\ t.info[i].enclosing = None
  <2>1. m \in (m - 1 + 1)..L /\ \A i \in (m + 1)..L : i \in (m - 1 + 1)..L
    BY <1>1
  <2>. QED BY <2>1 DEF ToldBy
<1>4. \A i \in 1..(m - 1) : /\ t.info[i].opener = Answer(w[i - 1].stack, shape[i])
                            /\ t.info[i].enclosing = Around(w[i - 1].stack, shape[i])
  BY DEF ToldBy
<1>5. \A x \in S : x.id \in 1..(m - 1)
  <2>1. ASSUME NEW i \in 1..(m - 1)
        PROVE  shape[i].id \in 1..(m - 1)
    BY <1>1 DEF Numbered
  <2>. QED BY <2>1
<1>6. S \subseteq T /\ n \in T
  BY <1>1
<1>. HIDE DEF S, T, w, n
<1>7. v.stack \in Seq(T)
  <2>1. t.stack \in Seq(T)
    BY <1>2, <1>6
  <2>2. v.stack = After(t.stack, n)
    BY <1>1, VisitLeaves
  <2>. QED BY <1>6, <2>1, <2>2, AfterIn
<1>. HIDE DEF t, v, L
<1>8. /\ v.info \in [1..L -> Infos] /\ Rests(t.info, v.info, 1..L, m)
      /\ v.info[m].opener = Answer(t.stack, n) /\ v.info[m].enclosing = Around(t.stack, n)
  <2>1. /\ Visit(t, n).info \in [1..L -> Infos] /\ Rests(t.info, Visit(t, n).info, 1..L, m)
        /\ Visit(t, n).info[m].opener = Answer(t.stack, n)
        /\ Visit(t, n).info[m].enclosing = Around(t.stack, n)
    <3>1. /\ L \in Nat /\ m \in 1..L /\ n.id = m /\ t.info \in [1..L -> Infos] /\ t.stack \in Seq(S)
          /\ \A x \in S : x.id \in 1..(m - 1)
          /\ t.info[m].opener = None /\ t.info[m].enclosing = None
      BY <1>1, <1>2, <1>3, <1>5
    <3>. QED BY ONLY <3>1, VisitTells
  <2>. QED BY <1>1, <2>1
<1>9. ASSUME NEW i \in 1..m
      PROVE  /\ v.info[i].opener = Answer(w[i - 1].stack, shape[i])
             /\ v.info[i].enclosing = Around(w[i - 1].stack, shape[i])
  <2>1. CASE i = m
    BY <1>8, <2>1 DEF t, n
  <2>2. CASE i # m
    <3>1. i \in 1..(m - 1) /\ i \in 1..L
      BY <1>1, <2>2
    <3>. QED BY <1>4, <1>8, <2>2, <3>1 DEF Rests
  <2>. QED BY <2>1, <2>2
<1>10. ASSUME NEW i \in (m + 1)..L
       PROVE  v.info[i].opener = None /\ v.info[i].enclosing = None
  <2>1. i \in 1..L /\ i # m
    BY <1>1
  <2>. QED BY <1>3, <1>8, <2>1 DEF Rests
<1>. QED BY <1>7, <1>8, <1>9, <1>10 DEF ToldBy, v, w, L, T

LEMMA WalkTold ==
  ASSUME NEW shape, Numbered(shape), NEW m \in 0..Len(shape)
  PROVE  ToldBy(shape, m)
<1> DEFINE Bad == {k \in 0..Len(shape) : ~ToldBy(shape, k)}
<1>. SUFFICES ASSUME Bad # {} PROVE FALSE
  OBVIOUS
<1>1. Bad \in SUBSET Nat /\ Len(shape) \in Nat
  BY DEF Numbered
<1>2. PICK k \in Bad : \A n \in Bad : k =< n
  <2>. HIDE DEF Bad
  <2>. QED BY <1>1, LeastIn
<1>3. k # 0
  BY BeginsTold
<1>4. k \in 1..Len(shape) /\ k - 1 \in 0..Len(shape)
  BY <1>1, <1>3
<1>5. k - 1 \notin Bad
  <2>1. k \in Nat
    BY <1>4
  <2>. HIDE DEF Bad
  <2>. QED BY <1>2, <2>1
<1>. QED BY <1>4, <1>5, TurnTold

---------------------------------------------------------------------------
(* The derivation over the nodes a parse has so far.                         *)
NodeIn(w, i) == [id |-> i, kind |-> w.out[i].kind, text |-> w.out[i].text]

NodesOf(w) == [i \in 1..Len(w.out) |-> NodeIn(w, i)]

\* The openers that it holds open after the first n of them.
HeldAfter(w, n) == WalkOf(NodesOf(w))[n].stack

LEMMA NodesAre ==
  ASSUME NEW w, Len(w.out) \in Nat
  PROVE  /\ Len(NodesOf(w)) = Len(w.out) /\ Numbered(NodesOf(w))
         /\ \A i \in 1..Len(w.out) : NodesOf(w)[i] = NodeIn(w, i)
BY DEF NodesOf, NodeIn, Numbered

\* What it derives is what the stack before each node says.
LEMMA DerivedIs ==
  ASSUME NEW w, Len(w.out) \in Nat, NEW i \in 1..Len(w.out)
  PROVE  /\ Derive(NodesOf(w))[i].opener = Answer(HeldAfter(w, i - 1), NodeIn(w, i))
         /\ Derive(NodesOf(w))[i].enclosing = Around(HeldAfter(w, i - 1), NodeIn(w, i))
<1> DEFINE s == NodesOf(w)
<1>1. Len(s) = Len(w.out) /\ Numbered(s) /\ s[i] = NodeIn(w, i)
  BY NodesAre
<1>2. Len(s) \in 0..Len(s) /\ i \in 1..Len(s)
  BY <1>1
<1>. HIDE DEF s
<1>3. ToldBy(s, Len(s))
  BY <1>1, <1>2, WalkTold
<1>. QED BY <1>1, <1>2, <1>3 DEF ToldBy, Derive, HeldAfter, s

LEMMA LeftTurns ==
  ASSUME NEW w, Len(w.out) \in Nat
  PROVE  /\ HeldAfter(w, 0) = <<>>
         /\ \A n \in 1..Len(w.out) : HeldAfter(w, n) = After(HeldAfter(w, n - 1), NodeIn(w, n))
         /\ \A n \in 0..Len(w.out) : HeldAfter(w, n) \in Seq({NodeIn(w, i) : i \in 1..n})
<1> DEFINE s == NodesOf(w)
<1>1. Len(s) = Len(w.out) /\ Numbered(s) /\ \A i \in 1..Len(w.out) : s[i] = NodeIn(w, i)
  BY NodesAre
<1>. HIDE DEF s
<1>2. WalkOf(s)[0].stack = <<>>
  <2>1. Len(s) \in Nat
    BY <1>1
  <2>2. WalkOf(s)[0] = Unlinked(s)
    BY <2>1, WalkTurns
  <2>. QED BY <2>2 DEF Unlinked
<1>3. ASSUME NEW n \in 1..Len(w.out)
      PROVE  WalkOf(s)[n].stack = After(WalkOf(s)[n - 1].stack, NodeIn(w, n))
  <2>1. WalkOf(s)[n] = Visit(WalkOf(s)[n - 1], s[n]) /\ s[n] = NodeIn(w, n)
    BY <1>1, WalkTurns
  <2>. QED BY <2>1, VisitLeaves
<1>4. ASSUME NEW n \in 0..Len(w.out)
      PROVE  WalkOf(s)[n].stack \in Seq({NodeIn(w, i) : i \in 1..n})
  <2>1. WalkOf(s)[n].stack \in Seq({s[i] : i \in 1..n})
    BY <1>1, WalkTold DEF ToldBy
  <2>2. \A i \in 1..n : s[i] = NodeIn(w, i)
    BY <1>1
  <2>3. {s[i] : i \in 1..n} = {NodeIn(w, i) : i \in 1..n}
    BY <2>2
  <2>. QED BY <2>1, <2>3
<1>. QED BY <1>2, <1>3, <1>4 DEF HeldAfter, s

\* A text of the array is nothing to it: what it holds open after nodes that
\* are alike is the same.
LEMMA LeftAlike ==
  ASSUME NEW w, NEW v, NEW c, Alike(w, v, c), Len(w.out) \in Nat, Len(v.out) \in Nat,
         NEW n \in 0..c
  PROVE  HeldAfter(v, n) = HeldAfter(w, n)
<1> DEFINE Bad == {k \in 0..c : HeldAfter(v, k) # HeldAfter(w, k)}
<1>. SUFFICES ASSUME Bad # {} PROVE FALSE
  OBVIOUS
<1>1. Bad \in SUBSET Nat /\ c \in Nat /\ c =< Len(w.out) /\ c =< Len(v.out)
  BY DEF Alike
<1>2. PICK k \in Bad : \A m \in Bad : k =< m
  <2>. HIDE DEF Bad
  <2>. QED BY <1>1, LeastIn
<1>3. k # 0
  BY LeftTurns
<1>4. k \in 1..c /\ k - 1 \in 0..c /\ k \in 1..Len(w.out) /\ k \in 1..Len(v.out)
  BY <1>1, <1>3
<1>5. k - 1 \notin Bad
  <2>1. k \in Nat
    BY <1>4
  <2>. HIDE DEF Bad
  <2>. QED BY <1>2, <2>1
<1>6. HeldAfter(v, k - 1) = HeldAfter(w, k - 1)
  BY <1>4, <1>5
<1>7. /\ HeldAfter(v, k) = After(HeldAfter(v, k - 1), NodeIn(v, k))
      /\ HeldAfter(w, k) = After(HeldAfter(w, k - 1), NodeIn(w, k))
  BY <1>4, LeftTurns
<1>8. /\ NodeIn(v, k).kind = NodeIn(w, k).kind
      /\ NodeIn(w, k).kind # "Text" => NodeIn(v, k) = NodeIn(w, k)
  BY <1>4 DEF Alike, NodeIn
<1>9. HeldAfter(v, k) = HeldAfter(w, k)
  <2>1. CASE NodeIn(w, k).kind = "Text"
    BY <1>6, <1>7, <1>8, <2>1 DEF After
  <2>2. CASE NodeIn(w, k).kind # "Text"
    BY <1>6, <1>7, <1>8, <2>2
  <2>. QED BY <2>1, <2>2
<1>. QED BY <1>9

---------------------------------------------------------------------------
(* What a loop reads where a group that is open closes.                      *)

\* The first that applies, and those before it do not.
LEMMA FirstIs ==
  ASSUME NEW s, Len(s) \in Nat
  PROVE  \/ FirstOf(s) = Nothing /\ \A k \in 1..Len(s) : s[k] = Nothing
         \/ \E k \in 1..Len(s) : /\ s[k] # Nothing /\ FirstOf(s) = s[k]
                                 /\ \A j \in 1..(k - 1) : s[j] = Nothing
<1> DEFINE some == {k \in 1..Len(s) : s[k] # Nothing}
<1>1. FirstOf(s) = IF some = {} THEN Nothing ELSE s[FSE!Min(some)]
  <2>1. {FirstRead(made) : made \in {s}} = {FirstRead(s)}
    OBVIOUS
  <2>2. FirstOf(s) = FirstRead(s)
    BY <2>1 DEF FirstOf
  <2>. QED BY <2>2 DEF FirstRead
<1>2. CASE some = {}
  BY <1>1, <1>2
<1>3. CASE some # {}
  <2>1. \E m \in some : \A n \in some : m =< n
    <3>1. some \in SUBSET Nat
      OBVIOUS
    <3>. HIDE DEF some
    <3>. QED BY <1>3, <3>1, LeastIn
  <2> DEFINE k == FSE!Min(some)
  <2>2. k \in some /\ \A n \in some : k =< n
    BY <2>1 DEF FSE!Min
  <2>3. FirstOf(s) = s[k]
    BY <1>1, <1>3
  <2>. HIDE DEF k
  <2>4. ASSUME NEW j \in 1..(k - 1)
        PROVE  s[j] = Nothing
    <3>1. j \in 1..Len(s) /\ ~(k =< j)
      BY <2>2
    <3>. QED BY <2>2, <3>1
  <2>. QED BY <2>2, <2>3, <2>4
<1>. QED BY <1>2, <1>3

Placed(pos) == LexisAssumption /\ TableAssumption /\ source \in Seq(Byte) /\ pos \in Nat

LEMMA LiteralStands ==
  ASSUME NEW pos, Placed(pos), NEW marks \in SUBSET Marks
  PROVE  /\ \/ Pattern(marks, pos) = NoMark
            \/ Pattern(marks, pos) \in marks /\ Stands(Pattern(marks, pos), pos)
         /\ \/ Literal(marks, pos) = NoMark
            \/ Literal(marks, pos) \in marks /\ Stands(Literal(marks, pos), pos)
<1>0. LexisAssumption /\ source \in Seq(Byte) /\ pos \in Nat
  BY DEF Placed
<1>1. \/ Pattern(marks, pos) = NoMark
      \/ Pattern(marks, pos) \in marks /\ Stands(Pattern(marks, pos), pos)
  BY <1>0, PatternIn DEF Pattern
<1>2. \/ Literal(marks, pos) = NoMark
      \/ Literal(marks, pos) \in marks /\ Stands(Literal(marks, pos), pos)
  <2> DEFINE S == {m \in marks : Stands(m, pos)}
  <2>1. Literal(marks, pos) = Longest(S)
    BY DEF Literal
  <2>2. S \in SUBSET Seq(Byte) /\ Len(source) \in Nat
    BY <1>0 DEF LexisAssumption
  <2>3. \A m \in S : Len(m) =< Len(source)
    <3>1. \A m \in S : Occurs(m, pos) /\ Len(m) \in Nat
      BY <2>2 DEF Stands
    <3>. QED BY <1>0, <2>2, <3>1 DEF Occurs
  <2>4. Longest(S) = NoMark \/ Longest(S) \in S
    <3>1. S = {} => Longest(S) = NoMark
      BY DEF Longest
    <3>. HIDE DEF S
    <3>. QED BY <2>2, <2>3, <3>1, LongestIn
  <2>. QED BY <2>1, <2>4
<1>. QED BY <1>1, <1>2

LEMMA OpenerStands ==
  ASSUME NEW pos, Placed(pos), NEW g \in Slots, OpenerOf(g, pos) # NoMark
  PROVE  OpenerOf(g, pos) \in Brackets[g].open /\ Stands(OpenerOf(g, pos), pos)
<1>1. Brackets[g].open \in SUBSET Marks
  BY GroupTyped DEF Placed
<1>. QED BY <1>1, LiteralStands DEF OpenerOf

LEMMA CloserStands ==
  ASSUME NEW pos, Placed(pos), NEW g \in Slots, NEW o, CloserOf(g, o, pos) # NoMark
  PROVE  /\ Stands(CloserOf(g, o, pos), pos) /\ BeforeOK(g, pos)
         /\ Ends(Brackets[g], o, CloserOf(g, o, pos))
<1> DEFINE b == Brackets[g]
           m == CloserOf(g, o, pos)
<1>0. TableAssumption /\ LexisAssumption /\ b.close \in SUBSET Marks
  BY GroupTyped DEF Placed
<1>1. CASE b.closeRegex
  <2>1. ~b.closeIsOpen
    BY <1>0, <1>1 DEF TableAssumption
  <2>2. m = Pattern(b.close, pos) /\ Agree(o, m) /\ BeforeOK(g, pos)
    BY <1>1 DEF CloserOf
  <2>3. m \in b.close /\ Stands(m, pos)
    BY <1>0, <2>2, LiteralStands
  <2>. QED BY <2>1, <2>2, <2>3 DEF Ends
<1>2. CASE ~b.closeRegex /\ b.closeIsOpen
  BY <1>2 DEF CloserOf, Ends
<1>3. CASE ~b.closeRegex /\ ~b.closeIsOpen
  <2>1. m = Longest(b.close) /\ Stands(m, pos) /\ BeforeOK(g, pos)
    BY <1>3 DEF CloserOf
  <2>2. b.close # {}
    BY <2>1 DEF Longest
  <2>3. PICK k \in b.close : TRUE
    BY <2>2
  <2>4. \A x \in b.close : x = k
    BY <1>0, <1>3 DEF TableAssumption
  <2>5. k \in Seq(Byte)
    BY <1>0 DEF LexisAssumption
  <2>6. \A x \in b.close : Len(x) =< Len(k)
    <3>1. Len(k) =< Len(k)
      BY <2>5
    <3>. QED BY <2>4, <3>1
  <2>7. Longest(b.close) \in b.close
    BY <2>2, <2>6 DEF Longest
  <2>. QED BY <1>3, <2>1, <2>7 DEF Ends
<1>. QED BY <1>1, <1>2, <1>3

\* Two marks that stand at a position: one may stand where the other does.
LEMMA StandMeet ==
  ASSUME NEW pos, Placed(pos), NEW m \in Seq(Byte), NEW k \in Seq(Byte),
         Stands(m, pos), Stands(k, pos)
  PROVE  Meet(m, k)
<1>0. source \in Seq(Byte) /\ pos \in Nat /\ Len(source) \in Nat
  BY DEF Placed
<1>1. ASSUME NEW x \in Seq(Byte), NEW y \in Seq(Byte), Stands(x, pos), Stands(y, pos), Len(x) =< Len(y)
      PROVE  MayStandIn(x, y)
  <2> DEFINE a == Len(x)
             b == Len(y)
  <2>1. /\ pos + a =< Len(source) /\ pos + b =< Len(source) /\ a \in Nat /\ b \in Nat /\ a =< b
        /\ x # <<>> /\ a > 0
    BY <1>1 DEF Stands, Occurs, NoMark
  <2>2. x = SubSeq(source, pos + 1, pos + a) /\ y = SubSeq(source, pos + 1, pos + b)
    BY <1>1 DEF Stands, Occurs, Slice
  <2>3. /\ \A i \in 1..a : x[i] = source[pos + i]
        /\ \A i \in 1..b : y[i] = source[pos + i]
    <3>1. ASSUME NEW n \in Nat, pos + n =< Len(source), NEW z, z = SubSeq(source, pos + 1, pos + n)
          PROVE  \A i \in 1..n : z[i] = source[pos + i]
      BY <1>0, <3>1
    <3>. HIDE DEF a, b
    <3>. QED BY <2>1, <2>2, <3>1
  <2>4. SubSeq(y, 1, a) = x
    <3>1. Len(SubSeq(y, 1, a)) = a /\ \A i \in 1..a : SubSeq(y, 1, a)[i] = y[i] /\ i \in 1..b
      BY <2>1
    <3>2. \A i \in 1..a : SubSeq(y, 1, a)[i] = x[i]
      BY <2>3, <3>1
    <3>3. SubSeq(y, 1, a) \in Seq(Byte)
      BY <2>1
    <3> DEFINE z == SubSeq(y, 1, a)
    <3>4. z \in Seq(Byte) /\ Len(z) = Len(x) /\ \A i \in 1..Len(x) : z[i] = x[i]
      BY <3>1, <3>2, <3>3
    <3>. HIDE DEF z
    <3>5. z = x
      BY <3>4
    <3>. QED BY <3>5 DEF z
  <2>5. ASSUME a < b
        PROVE  ~(y[a] \in WordBytes /\ y[a + 1] \in WordBytes)
    <3>1. y[a] = source[pos + a] /\ y[a + 1] = source[pos + (a + 1)]
      <4>1. a \in 1..b /\ a + 1 \in 1..b
        BY <2>1, <2>5
      <4>. QED BY <2>3, <4>1
    <3> DEFINE end == pos + a
    <3>2. Bounded(pos, end) /\ end < Len(source) /\ end - 1 + 1 = end /\ pos + (a + 1) = end + 1
      BY <1>0, <1>1, <2>1, <2>5 DEF Stands
    <3>3. y[a] = source[end - 1 + 1] /\ y[a + 1] = source[end + 1]
      BY <3>1, <3>2
    <3>. HIDE DEF end, a
    <3>. QED BY <3>2, <3>3 DEF Bounded, IsWord
  <2>. QED BY <2>1, <2>4, <2>5 DEF MayStandIn
<1>2. Len(m) =< Len(k) \/ Len(k) =< Len(m)
  <2>1. Len(m) \in Nat /\ Len(k) \in Nat
    OBVIOUS
  <2>. QED BY <2>1
<1>. QED BY <1>1, <1>2 DEF Meet

\* What closes, closes for every group that its text ends.
LEMMA ClosesToo ==
  ASSUME TableTells, NEW pos, Placed(pos), NEW g \in Slots, NEW h \in Slots, NEW o, NEW t,
         CloserOf(g, o, pos) # NoMark, Ends(Brackets[h], t, CloserOf(g, o, pos)),
         Brackets[g].closeIsOpen => o \in Brackets[g].open,
         Brackets[h].closeIsOpen => t \in Brackets[h].open,
         g = h \/ ~Brackets[g].restricted \/ ~Brackets[h].restricted
  PROVE  CloserOf(h, t, pos) # NoMark
<1> DEFINE m == CloserOf(g, o, pos)
<1>0. TableAssumption /\ LexisAssumption
  BY DEF Placed
<1>1. Stands(m, pos) /\ BeforeOK(g, pos) /\ Ends(Brackets[g], o, m) /\ m # NoMark
  BY CloserStands
<1>2. CASE g = h
  <2>1. CASE Brackets[g].closeRegex
    <3>1. ~Brackets[g].closeIsOpen
      BY <1>0, <2>1 DEF TableAssumption
    <3>2. m = Pattern(Brackets[g].close, pos)
      BY <2>1 DEF CloserOf
    <3>3. Agree(t, m)
      BY <1>2, <2>1, <3>1 DEF Ends
    <3>. QED BY <1>1, <1>2, <2>1, <3>2, <3>3 DEF CloserOf
  <2>2. CASE ~Brackets[g].closeRegex /\ Brackets[g].closeIsOpen
    <3>1. m = o /\ m = t
      BY <1>1, <1>2, <2>2 DEF Ends
    <3>. QED BY <1>1, <1>2, <3>1
  <2>3. CASE ~Brackets[g].closeRegex /\ ~Brackets[g].closeIsOpen
    <3>1. CloserOf(h, t, pos) = m
      BY <1>2, <2>3 DEF CloserOf
    <3>. QED BY <1>1, <3>1
  <2>. QED BY <2>1, <2>2, <2>3
<1>3. CASE g # h
  <2>1. m \in ClosingMarks(g) /\ m \in ClosingMarks(h)
    BY <1>1 DEF Ends, ClosingMarks
  <2>2. /\ ~Brackets[g].closeIsOpen /\ ~Brackets[g].closeRegex
        /\ ~Brackets[h].closeIsOpen /\ ~Brackets[h].closeRegex
        /\ Lexis[g].before = Lexis[h].before
    <3>1. CASE ~Brackets[g].restricted
      BY <1>3, <2>1, <3>1 DEF TableTells
    <3>2. CASE ~Brackets[h].restricted
      BY <1>3, <2>1, <3>2 DEF TableTells
    <3>. QED BY <1>3, <3>1, <3>2
  <2>3. BeforeOK(h, pos)
    BY <1>1, <2>2 DEF BeforeOK
  <2>4. Longest(Brackets[h].close) = m
    <3>1. m \in Brackets[h].close
      BY <2>1, <2>2 DEF ClosingMarks
    <3>2. \A x \in Brackets[h].close : x = m
      BY <1>0, <2>2, <3>1 DEF TableAssumption
    <3>3. m \in Seq(Byte)
      BY <1>0, <3>1, GroupTyped DEF LexisAssumption
    <3>4. Len(m) =< Len(m)
      BY <3>3
    <3>5. \E x \in Brackets[h].close : \A y \in Brackets[h].close : Len(y) =< Len(x)
      BY <3>1, <3>2, <3>4
    <3>6. Longest(Brackets[h].close) \in Brackets[h].close
      BY <3>1, <3>5 DEF Longest
    <3>. QED BY <3>2, <3>6
  <2>5. CloserOf(h, t, pos) = m
    <3>. HIDE DEF m
    <3>. QED BY <1>1, <2>2, <2>3, <2>4 DEF CloserOf
  <2>. QED BY <1>1, <2>5
<1>. QED BY <1>2, <1>3

LEMMA ReadingIs ==
  ASSUME NEW act, act # "nothing", NEW g, NEW m
  PROVE  /\ Reading(act, g, m) = Nothing <=> m = NoMark
         /\ m # NoMark => /\ Reading(act, g, m).act = act /\ Reading(act, g, m).group = g
                          /\ Reading(act, g, m).mark = m
BY DEF Reading, Nothing

\* An opener that is read: its group's, where the table lets the group open.
Opens(r, g) ==
  /\ r # Nothing /\ r.act = "open" /\ r.group = g /\ g \in Slots /\ r.mark \in Brackets[g].open

LEMMA OpensSo ==
  ASSUME CanRead, NEW g \in Slots
  PROVE  IF OpenerOf(g, walk.pos) = NoMark THEN Reading("open", g, OpenerOf(g, walk.pos)) = Nothing
         ELSE Opens(Reading("open", g, OpenerOf(g, walk.pos)), g)
<1>1. OpenerOf(g, walk.pos) # NoMark => OpenerOf(g, walk.pos) \in Brackets[g].open
  BY OpenerStands DEF CanRead, Placed
<1> DEFINE m == OpenerOf(g, walk.pos)
           r == Reading("open", g, m)
<1>. HIDE DEF m
<1>2. r = Nothing <=> m = NoMark
  BY ReadingIs
<1>3. m # NoMark => r.act = "open" /\ r.group = g /\ r.mark = m
  BY ReadingIs
<1>. HIDE DEF r
<1>4. m # NoMark => Opens(r, g)
  BY <1>1, <1>2, <1>3 DEF Opens, m
<1>. QED BY <1>2, <1>4 DEF r, m

LEMMA OpeningIs ==
  ASSUME CanRead, NEW around, NEW r, r = Opening(walk.pos, around)
  PROVE  \/ /\ r = Nothing
            /\ \A g \in Slots : ParentAllowed(g, around) => OpenerOf(g, walk.pos) = NoMark
         \/ \E g \in Slots : Opens(r, g) /\ ParentAllowed(g, around)
<1> DEFINE s == [g \in Slots |-> IF ParentAllowed(g, around)
                                 THEN Reading("open", g, OpenerOf(g, walk.pos)) ELSE Nothing]
<1>1. ASSUME NEW g \in Slots
      PROVE  \/ s[g] = Nothing /\ (ParentAllowed(g, around) => OpenerOf(g, walk.pos) = NoMark)
             \/ Opens(s[g], g) /\ ParentAllowed(g, around)
  <2>1. s[g] = IF ParentAllowed(g, around) THEN Reading("open", g, OpenerOf(g, walk.pos)) ELSE Nothing
    OBVIOUS
  <2>. HIDE DEF s
  <2>. QED BY <2>1, OpensSo
<1>2. Len(s) = Len(Brackets) /\ 1..Len(s) = Slots /\ Len(s) \in Nat
  BY DEF CanRead, TableAssumption, Slots
<1>3. r = FirstOf(s)
  BY DEF Opening
<1>. HIDE DEF s
<1>4. CASE r = Nothing /\ \A g \in Slots : s[g] = Nothing
  BY <1>1, <1>4 DEF Opens
<1>5. CASE \E g \in Slots : s[g] # Nothing /\ r = s[g]
  BY <1>1, <1>5
<1>. QED BY <1>2, <1>3, <1>4, <1>5, FirstIs

LEMMA InnerIs ==
  ASSUME CanRead, NEW h \in Slots, NEW r, r = OpeningInner(h)
  PROVE  \/ r = Nothing
         \/ \E k \in 1..Len(Brackets[h].inner) : Opens(r, Brackets[h].inner[k])
<1> DEFINE inner == Brackets[h].inner
           s == [k \in 1..Len(inner) |-> Reading("open", inner[k], OpenerOf(inner[k], walk.pos))]
<1>0. inner \in Seq(Slots)
  BY GroupTyped DEF CanRead
<1>1. ASSUME NEW k \in 1..Len(inner)
      PROVE  s[k] = Nothing \/ Opens(s[k], inner[k])
  <2>1. inner[k] \in Slots
    BY <1>0
  <2>. QED BY <2>1, OpensSo
<1>2. Len(s) = Len(inner) /\ Len(s) \in Nat
  BY <1>0
<1>3. r = FirstOf(s)
  BY DEF OpeningInner
<1>. HIDE DEF s
<1>. QED BY <1>1, <1>2, <1>3, FirstIs

LEMMA StrayIs ==
  ASSUME CanRead, NEW r, r = Stray
  PROVE  \/ r = Nothing
         \/ /\ r.act = "stray"
            /\ \E g \in Slots : /\ ~Brackets[g].restricted /\ ~Brackets[g].closeIsOpen
                                /\ CloserOf(g, NoMark, walk.pos) # NoMark
                                /\ r.mark = CloserOf(g, NoMark, walk.pos)
<1> DEFINE s == [g \in Slots |->
                   IF Brackets[g].restricted \/ Brackets[g].closeIsOpen \/ Brackets[g].closeRegex
                   THEN Nothing
                   ELSE Reading("stray", g, CloserOf(g, NoMark, walk.pos))]
<1>1. ASSUME NEW g \in Slots
      PROVE  \/ s[g] = Nothing
             \/ /\ s[g].act = "stray" /\ ~Brackets[g].restricted /\ ~Brackets[g].closeIsOpen
                /\ CloserOf(g, NoMark, walk.pos) # NoMark /\ s[g].mark = CloserOf(g, NoMark, walk.pos)
  <2>1. s[g] = IF Brackets[g].restricted \/ Brackets[g].closeIsOpen \/ Brackets[g].closeRegex
               THEN Nothing ELSE Reading("stray", g, CloserOf(g, NoMark, walk.pos))
    OBVIOUS
  <2>. HIDE DEF s
  <2>. QED BY <2>1, ReadingIs
<1>2. Len(s) = Len(Brackets) /\ 1..Len(s) = Slots /\ Len(s) \in Nat
  BY DEF CanRead, TableAssumption, Slots
<1>3. r = FirstOf(s)
  BY DEF Stray
<1>. HIDE DEF s
<1>. QED BY <1>1, <1>2, <1>3, FirstIs

LEMMA ClosingIs ==
  ASSUME NEW f, NEW r, r = Closing(f)
  PROVE  \/ r = Nothing /\ CloserOf(f.group, f.opened, walk.pos) = NoMark
         \/ /\ r # Nothing /\ r.act = "close" /\ r.mark = CloserOf(f.group, f.opened, walk.pos)
            /\ CloserOf(f.group, f.opened, walk.pos) # NoMark
BY ReadingIs DEF Closing

\* What the loop of a group in code mode takes.
LEMMA CodeIs ==
  ASSUME TableTells, NEW f, f.group \in Slots, ~Brackets[f.group].restricted,
         NEW r, r = FirstOf(CodeReadings(f))
  PROVE  \/ r = Closing(f) /\ r # Nothing
         \/ r = Opening(walk.pos, f.group) /\ r # Nothing
            /\ (Brackets[f.group].closeIsOpen => Closing(f) = Nothing)
         \/ /\ Opening(walk.pos, f.group) = Nothing /\ Closing(f) = Nothing
            /\ \/ r = Separating(f) /\ r # Nothing
               \/ Separating(f) = Nothing /\ EnclosingEnds # Nothing /\ r = EnclosingEnds
               \/ /\ Separating(f) = Nothing /\ EnclosingEnds = Nothing
                  /\ r \in {Stray, OneByte, Nothing}
<1> DEFINE s == CodeReadings(f)
           a == << Closing(f), OtherRun(f) >>
           b == << Opening(walk.pos, f.group), Closing(f), Separating(f), EnclosingEnds, Stray, OneByte >>
<1>0. r = FirstOf(s)
  OBVIOUS
<1>1. CASE ~Brackets[f.group].closeIsOpen
  <2>1. s = b
    <3>1. s = <<>> \o b
      BY <1>1 DEF CodeReadings
    <3>2. <<>> \o b = b
      OBVIOUS
    <3>. QED BY <3>1, <3>2, Zenon
  <2>2. /\ Len(s) = 6 /\ s[1] = Opening(walk.pos, f.group) /\ s[2] = Closing(f) /\ s[3] = Separating(f)
        /\ s[4] = EnclosingEnds /\ s[5] = Stray /\ s[6] = OneByte
    BY <2>1
  <2>. HIDE DEF s, a, b
  <2>3. \/ r = Nothing /\ \A k \in 1..6 : s[k] = Nothing
        \/ \E k \in 1..6 : s[k] # Nothing /\ r = s[k] /\ \A j \in 1..(k - 1) : s[j] = Nothing
    <3>1. Len(s) \in Nat /\ 1..Len(s) = 1..6
      BY <2>2
    <3>2. \/ FirstOf(s) = Nothing /\ \A k \in 1..Len(s) : s[k] = Nothing
          \/ \E k \in 1..Len(s) : /\ s[k] # Nothing /\ FirstOf(s) = s[k]
                                 /\ \A j \in 1..(k - 1) : s[j] = Nothing
      BY <3>1, FirstIs
    <3>. QED BY <1>0, <3>1, <3>2
  <2>4. CASE r = Nothing /\ \A k \in 1..6 : s[k] = Nothing
    BY <2>2, <2>4
  <2>5. ASSUME NEW k \in 1..6, s[k] # Nothing, r = s[k], \A j \in 1..(k - 1) : s[j] = Nothing
        PROVE  \/ k = 1 \/ (k = 2 /\ s[1] = Nothing) \/ (k = 3 /\ s[1] = Nothing /\ s[2] = Nothing)
               \/ (k = 4 /\ s[1] = Nothing /\ s[2] = Nothing /\ s[3] = Nothing)
               \/ (k \in {5, 6} /\ s[1] = Nothing /\ s[2] = Nothing /\ s[3] = Nothing /\ s[4] = Nothing)
    BY <2>5
  <2>6. CASE \E k \in 1..6 : s[k] # Nothing /\ r = s[k] /\ \A j \in 1..(k - 1) : s[j] = Nothing
    BY <1>1, <2>2, <2>5, <2>6
  <2>. QED BY <2>3, <2>4, <2>6
<1>2. CASE Brackets[f.group].closeIsOpen
  <2>0. OtherRun(f) = Nothing
    BY <1>2 DEF TableTells, OtherRun
  <2>1. s = a \o b
    BY <1>2 DEF CodeReadings
  <2>2. /\ Len(s) = 8 /\ s[1] = Closing(f) /\ s[2] = Nothing
        /\ s[3] = Opening(walk.pos, f.group) /\ s[4] = Closing(f) /\ s[5] = Separating(f)
        /\ s[6] = EnclosingEnds /\ s[7] = Stray /\ s[8] = OneByte
    <3>1. Len(a) = 2 /\ Len(b) = 6 /\ Len(a \o b) = 8
      OBVIOUS
    <3>2. \A k \in 1..8 : (a \o b)[k] = IF k =< 2 THEN a[k] ELSE b[k - 2]
      OBVIOUS
    <3>3. /\ (a \o b)[1] = a[1] /\ (a \o b)[2] = a[2] /\ (a \o b)[3] = b[1] /\ (a \o b)[4] = b[2]
          /\ (a \o b)[5] = b[3] /\ (a \o b)[6] = b[4] /\ (a \o b)[7] = b[5] /\ (a \o b)[8] = b[6]
      <4> DEFINE c == a \o b
      <4>1. \A k \in 1..8 : c[k] = IF k =< 2 THEN a[k] ELSE b[k - 2]
        BY <3>2
      <4>. HIDE DEF a, b, c
      <4>2. c[1] = a[1] /\ c[2] = a[2]
        BY <4>1
      <4>3. c[3] = b[3 - 2] /\ c[4] = b[4 - 2] /\ c[5] = b[5 - 2]
        BY <4>1
      <4>4. c[6] = b[6 - 2] /\ c[7] = b[7 - 2] /\ c[8] = b[8 - 2]
        BY <4>1
      <4>. QED BY <4>2, <4>3, <4>4 DEF c
    <3>. QED BY <2>0, <2>1, <3>1, <3>3
  <2>. HIDE DEF s, a, b
  <2>3. \/ r = Nothing /\ \A k \in 1..8 : s[k] = Nothing
        \/ \E k \in 1..8 : s[k] # Nothing /\ r = s[k] /\ \A j \in 1..(k - 1) : s[j] = Nothing
    <3>1. Len(s) \in Nat /\ 1..Len(s) = 1..8
      BY <2>2
    <3>2. \/ FirstOf(s) = Nothing /\ \A k \in 1..Len(s) : s[k] = Nothing
          \/ \E k \in 1..Len(s) : /\ s[k] # Nothing /\ FirstOf(s) = s[k]
                                 /\ \A j \in 1..(k - 1) : s[j] = Nothing
      BY <3>1, FirstIs
    <3>. QED BY <1>0, <3>1, <3>2
  <2>4. CASE r = Nothing /\ \A k \in 1..8 : s[k] = Nothing
    BY <2>2, <2>4
  <2>5. ASSUME NEW k \in 1..8, s[k] # Nothing, r = s[k], \A j \in 1..(k - 1) : s[j] = Nothing
        PROVE  \/ k = 1 \/ k = 2 \/ (k = 3 /\ s[1] = Nothing) \/ (k = 4 /\ s[1] = Nothing)
               \/ (k = 5 /\ s[1] = Nothing /\ s[3] = Nothing)
               \/ (k = 6 /\ s[1] = Nothing /\ s[3] = Nothing /\ s[5] = Nothing)
               \/ (k \in {7, 8} /\ s[1] = Nothing /\ s[3] = Nothing /\ s[5] = Nothing /\ s[6] = Nothing)
    BY <2>5
  <2>6. CASE \E k \in 1..8 : s[k] # Nothing /\ r = s[k] /\ \A j \in 1..(k - 1) : s[j] = Nothing
    BY <1>2, <2>2, <2>5, <2>6
  <2>. QED BY <2>3, <2>4, <2>6
<1>. QED BY <1>1, <1>2

\* And the loop of a restricted one.
LEMMA RestrictedIs ==
  ASSUME NEW f, NEW r, r = FirstOf(RestrictedReadings(f))
  PROVE  \/ r = Closing(f) /\ r # Nothing
         \/ Closing(f) = Nothing /\ r \in {Nothing, Escaping(f), OpeningInner(f.group), OtherRun(f), OneByte}
<1> DEFINE s == RestrictedReadings(f)
<1>1. /\ Len(s) = 5 /\ s[1] = Closing(f) /\ s[2] = Escaping(f) /\ s[3] = OpeningInner(f.group)
      /\ s[4] = OtherRun(f) /\ s[5] = OneByte
  BY DEF RestrictedReadings
<1>. HIDE DEF s
<1>2. \/ r = Nothing /\ \A k \in 1..5 : s[k] = Nothing
      \/ \E k \in 1..5 : s[k] # Nothing /\ r = s[k] /\ \A j \in 1..(k - 1) : s[j] = Nothing
  BY <1>1, FirstIs DEF s
<1>3. ASSUME NEW k \in 1..5, s[k] # Nothing, r = s[k], \A j \in 1..(k - 1) : s[j] = Nothing
      PROVE  k = 1 \/ (k \in {2, 3, 4, 5} /\ s[1] = Nothing)
  BY <1>3
<1>4. CASE r = Nothing /\ \A k \in 1..5 : s[k] = Nothing
  BY <1>1, <1>4
<1>5. CASE \E k \in 1..5 : s[k] # Nothing /\ r = s[k] /\ \A j \in 1..(k - 1) : s[j] = Nothing
  BY <1>1, <1>3, <1>5
<1>. QED BY <1>2, <1>4, <1>5

LEMMA TopIs ==
  ASSUME NEW r, r = FirstOf(TopReadings)
  PROVE  r \in {Nothing, Opening(walk.pos, NoGroup), Stray, OneByte}
<1> DEFINE s == TopReadings
<1>1. Len(s) = 3 /\ s[1] = Opening(walk.pos, NoGroup) /\ s[2] = Stray /\ s[3] = OneByte
  BY DEF TopReadings
<1>. HIDE DEF s
<1>. QED BY <1>1, FirstIs DEF s

\* Whether a group may open right inside of another.
OpensInside(g, around) ==
  IF Brackets[around].restricted
  THEN \E k \in 1..Len(Brackets[around].inner) : Brackets[around].inner[k] = g
  ELSE ParentAllowed(g, around)

FrameCloses(f) == CloserOf(f.group, f.opened, walk.pos) # NoMark

\* A group that the closer of an enclosing one cuts off.
CutOff(f) ==
  /\ ~Brackets[f.group].restricted /\ ~FrameCloses(f) /\ EnclosingEnds # Nothing
  /\ \A g \in Slots : ParentAllowed(g, f.group) => OpenerOf(g, walk.pos) = NoMark

\* What a reading tells of where it is made.
Tells(r) ==
  /\ r.act = "open" =>
       /\ Opens(r, r.group)
       /\ IF stack = <<>> THEN ParentAllowed(r.group, NoGroup) ELSE OpensInside(r.group, Frame.group)
  /\ r.act = "close" =>
       stack # <<>> /\ FrameCloses(Frame) /\ r.mark = CloserOf(Frame.group, Frame.opened, walk.pos)
  /\ r.act = "separate" => stack # <<>> /\ ~Brackets[Frame.group].restricted
  /\ r.act = "stray" =>
       /\ \E g \in Slots : /\ ~Brackets[g].restricted /\ ~Brackets[g].closeIsOpen
                           /\ CloserOf(g, NoMark, walk.pos) # NoMark
                           /\ r.mark = CloserOf(g, NoMark, walk.pos)
       /\ stack # <<>> => /\ ~Brackets[Frame.group].restricted /\ ~FrameCloses(Frame)
                          /\ EnclosingEnds = Nothing
  /\ r.act = "end" =>
       stack # <<>> /\ (walk.pos >= Len(source) \/ Frame.bound \/ CutOff(Frame))

LEMMA ActsAre ==
  ASSUME NEW f
  PROVE  /\ Nothing.act = "nothing" /\ Ending.act = "end" /\ Ending # Nothing
         /\ OneByte.act \in {"nothing", "text"} /\ Escaping(f).act \in {"nothing", "text"}
         /\ OtherRun(f).act \in {"nothing", "text", "reject"}
         /\ Separating(f).act \in {"nothing", "separate"}
         /\ EnclosingEnds \in {Nothing, Ending} /\ OutOfBody(f) \in {Nothing, Ending}
<1>1. Nothing.act = "nothing" /\ Ending.act = "end" /\ Ending # Nothing
  BY DEF Nothing, Ending
<1>2. \A act, g, m : Reading(act, g, m).act \in {"nothing", act}
  BY DEF Reading, Nothing
<1>3. OneByte.act \in {"nothing", "text"}
  BY <1>2 DEF OneByte
<1>4. Escaping(f).act \in {"nothing", "text"}
  BY <1>1, <1>2 DEF Escaping
<1>5. Separating(f).act \in {"nothing", "separate"}
  BY <1>2 DEF Separating
<1>6. OtherRun(f).act \in {"nothing", "text", "reject"}
  <2> DEFINE run == Pattern(Brackets[f.group].open, walk.pos)
  <2>1. OtherRun(f) \in {Nothing, Reading("reject", f.group, run), Reading("text", f.group, run)}
    BY DEF OtherRun
  <2>2. /\ Reading("reject", f.group, run).act \in {"nothing", "reject"}
        /\ Reading("text", f.group, run).act \in {"nothing", "text"}
    BY <1>2
  <2>. QED BY <1>1, <2>1, <2>2
<1>7. EnclosingEnds \in {Nothing, Ending} /\ OutOfBody(f) \in {Nothing, Ending}
  BY DEF EnclosingEnds, OutOfBody
<1>. QED BY <1>1, <1>3, <1>4, <1>5, <1>6, <1>7

LEMMA ReadTells ==
  ASSUME TableTells, CanRead, stack \in Seq(FrameSet), NEW r, r = Read, r # Nothing
  PROVE  Tells(r)
<1>1. CASE stack = <<>>
  <2>1. r = FirstOf(TopReadings)
    BY <1>1 DEF Read, AtTop
  <2>2. r \in {Opening(walk.pos, NoGroup), Stray, OneByte}
    BY <2>1, TopIs
  <2>3. CASE r = Opening(walk.pos, NoGroup)
    <3>1. PICK g \in Slots : Opens(r, g) /\ ParentAllowed(g, NoGroup)
      BY <2>3, OpeningIs
    <3>. QED BY <1>1, <3>1 DEF Opens, Tells
  <2>4. CASE r = Stray
    BY <1>1, <2>4, StrayIs DEF Tells
  <2>5. CASE r = OneByte
    <3>1. r.act \in {"nothing", "text"}
      BY <2>5, ActsAre
    <3>. QED BY <3>1 DEF Tells
  <2>. QED BY <2>2, <2>3, <2>4, <2>5
<1>2. CASE stack # <<>>
  <2> DEFINE f == Frame
  <2>0. f \in FrameSet /\ f.group \in Slots
    <3>1. f \in FrameSet
      BY <1>2 DEF Frame, SQE!Last
    <3>. HIDE DEF f
    <3>. QED BY <3>1 DEF FrameSet
  <2>1. CASE OutOfBody(f) # Nothing
    <3>1. r = Ending /\ r.act = "end"
      BY <1>2, <2>1 DEF Read, AtTop, Finished, Ending
    <3>2. walk.pos >= Len(source) \/ f.bound
      BY <2>1 DEF OutOfBody
    <3>. QED BY <1>2, <3>1, <3>2 DEF Tells
  <2>2. CASE OutOfBody(f) = Nothing /\ Brackets[f.group].restricted
    <3>1. r = FirstOf(RestrictedReadings(f))
      BY <1>2, <2>2 DEF Read, AtTop, Finished
    <3>2. \/ r = Closing(f)
          \/ r \in {Escaping(f), OpeningInner(f.group), OtherRun(f), OneByte}
      BY <3>1, RestrictedIs
    <3>. HIDE DEF f
    <3>3. CASE r = Closing(f)
      <4>1. /\ r.act = "close" /\ r.mark = CloserOf(f.group, f.opened, walk.pos)
            /\ CloserOf(f.group, f.opened, walk.pos) # NoMark
        BY <3>3, ClosingIs
      <4>. QED BY <1>2, <4>1 DEF Tells, FrameCloses, f
    <3>4. CASE r = OpeningInner(f.group)
      <4>1. PICK k \in 1..Len(Brackets[f.group].inner) : Opens(r, Brackets[f.group].inner[k])
        BY <2>0, <3>4, InnerIs
      <4>2. r.act = "open" /\ Opens(r, r.group) /\ r.group = Brackets[f.group].inner[k]
        BY <4>1 DEF Opens
      <4>3. OpensInside(r.group, f.group)
        BY <2>2, <4>2 DEF OpensInside
      <4>. QED BY <1>2, <4>2, <4>3 DEF Tells, f
    <3>5. CASE r \in {Escaping(f), OtherRun(f), OneByte}
      <4>1. r.act \in {"nothing", "text", "reject"}
        BY <3>5, ActsAre
      <4>. QED BY <4>1 DEF Tells
    <3>. QED BY <3>2, <3>3, <3>4, <3>5
  <2>3. CASE OutOfBody(f) = Nothing /\ ~Brackets[f.group].restricted
    <3>1. r = FirstOf(CodeReadings(f))
      BY <1>2, <2>3 DEF Read, AtTop, Finished
    <3>. HIDE DEF f
    <3>3. CASE r = Closing(f)
      <4>1. /\ r.act = "close" /\ r.mark = CloserOf(f.group, f.opened, walk.pos)
            /\ CloserOf(f.group, f.opened, walk.pos) # NoMark
        BY <3>3, ClosingIs
      <4>. QED BY <1>2, <4>1 DEF Tells, FrameCloses, f
    <3>4. CASE r = Opening(walk.pos, f.group)
      <4>1. PICK g \in Slots : Opens(r, g) /\ ParentAllowed(g, f.group)
        BY <3>4, OpeningIs
      <4>2. r.act = "open" /\ Opens(r, r.group) /\ OpensInside(r.group, f.group)
        BY <2>3, <4>1 DEF Opens, OpensInside
      <4>. QED BY <1>2, <4>2 DEF Tells, f
    <3>5. CASE Closing(f) = Nothing /\ Opening(walk.pos, f.group) = Nothing
      <4>1. /\ ~FrameCloses(f)
            /\ \A g \in Slots : ParentAllowed(g, f.group) => OpenerOf(g, walk.pos) = NoMark
        <5>1. ~FrameCloses(f)
          BY <3>5, ClosingIs DEF FrameCloses
        <5>2. ~\E g \in Slots : Opens(Nothing, g)
          BY DEF Opens
        <5>. QED BY <3>5, <5>1, <5>2, OpeningIs
      <4>2. CASE r = Separating(f)
        <5>1. r.act \in {"nothing", "separate"}
          BY <4>2, ActsAre
        <5>. QED BY <1>2, <2>3, <5>1 DEF Tells, f
      <4>3. CASE EnclosingEnds # Nothing /\ r = EnclosingEnds
        <5>1. r.act = "end" /\ CutOff(f)
          BY <2>3, <4>1, <4>3, ActsAre DEF CutOff
        <5>. QED BY <1>2, <5>1 DEF Tells, f
      <4>4. CASE EnclosingEnds = Nothing /\ r = Stray
        BY <1>2, <2>3, <4>1, <4>4, StrayIs DEF Tells, f
      <4>5. CASE r = OneByte
        <5>1. r.act \in {"nothing", "text"}
          BY <4>5, ActsAre
        <5>. QED BY <5>1 DEF Tells
      <4>. QED BY <2>0, <2>3, <3>1, <3>5, <4>2, <4>3, <4>4, <4>5, CodeIs
    <3>. QED BY <2>0, <2>3, <3>1, <3>3, <3>4, <3>5, CodeIs
  <2>4. OutOfBody(f) = Nothing \/ OutOfBody(f) # Nothing
    OBVIOUS
  <2>. QED BY <2>1, <2>2, <2>3, <2>4
<1>. QED BY <1>1, <1>2

\* The closer of a group that is open is at the position, and nothing that may
\* open anywhere.
Awaits(st, pos, j) ==
  /\ j \in 1..Len(st) /\ CloserOf(st[j].group, st[j].opened, pos) # NoMark
  /\ \A k \in (j + 1)..Len(st) : ~Brackets[st[k].group].restricted
  /\ \A g \in Slots : Brackets[g].anywhere => OpenerOf(g, pos) = NoMark

\* Nothing opens where a group closes, and nothing separates there.
LEMMA ClosesFirst ==
  ASSUME TableTells, NEW pos, Placed(pos), NEW h \in Slots, NEW o, CloserOf(h, o, pos) # NoMark,
         Brackets[h].closeIsOpen => o \in Brackets[h].open, NEW g \in Slots
  PROVE  /\ ~Brackets[g].anywhere => OpenerOf(g, pos) = NoMark
         /\ ~Brackets[g].restricted => Literal(Brackets[g].separators, pos) = NoMark
<1> DEFINE k == CloserOf(h, o, pos)
<1>0. /\ Brackets[h].close \in SUBSET Marks /\ Brackets[h].open \in SUBSET Marks
      /\ Brackets[g].open \in SUBSET Marks /\ Brackets[g].separators \in SUBSET Marks
      /\ Marks \subseteq Seq(Byte)
  BY GroupTyped DEF Placed, LexisAssumption
<1>1. Stands(k, pos) /\ Ends(Brackets[h], o, k)
  BY CloserStands
<1>2. k \in ClosingMarks(h) /\ k \in Seq(Byte)
  BY <1>0, <1>1 DEF Ends, ClosingMarks
<1>. HIDE DEF k
<1>3. ASSUME ~Brackets[g].anywhere, OpenerOf(g, pos) # NoMark
      PROVE  FALSE
  <2> DEFINE m == OpenerOf(g, pos)
  <2>1. m \in Brackets[g].open /\ Stands(m, pos)
    BY <1>3, OpenerStands
  <2>. HIDE DEF m
  <2>2. m \in Seq(Byte)
    BY <1>0, <2>1
  <2>3. Meet(m, k)
    BY <1>1, <1>2, <2>1, <2>2, StandMeet
  <2>. QED BY <1>2, <1>3, <2>1, <2>3 DEF TableTells
<1>4. ASSUME ~Brackets[g].restricted, Literal(Brackets[g].separators, pos) # NoMark
      PROVE  FALSE
  <2> DEFINE m == Literal(Brackets[g].separators, pos)
  <2>1. m \in Brackets[g].separators /\ Stands(m, pos)
    BY <1>0, <1>4, LiteralStands
  <2>. HIDE DEF m
  <2>2. m \in Seq(Byte)
    BY <1>0, <2>1
  <2>3. Meet(m, k)
    BY <1>1, <1>2, <2>1, <2>2, StandMeet
  <2>. QED BY <1>2, <1>4, <2>1, <2>3 DEF TableTells
<1>. QED BY <1>3, <1>4

LEMMA AwaitedReads ==
  ASSUME TableTells, CanRead, stack \in Seq(FrameSet), NEW r, r = Read, r # Nothing,
         NEW j, Awaits(stack, walk.pos, j), \A k \in 1..Len(stack) : stack[k].opened \in Brackets[stack[k].group].open
  PROVE  r.act \in {"close", "end"}
<1> DEFINE f == Frame
<1>1. stack # <<>> /\ Len(stack) \in 1..Len(stack)
  BY DEF Awaits
<1>2. f = stack[Len(stack)] /\ f \in FrameSet /\ f.group \in Slots
  <2>1. f = stack[Len(stack)]
    BY DEF Frame, SQE!Last
  <2>2. f \in FrameSet
    BY <1>1, <2>1
  <2>. HIDE DEF f
  <2>. QED BY <2>1, <2>2 DEF FrameSet
<1> DEFINE h == stack[j].group
           o == stack[j].opened
<1>3. /\ h \in Slots /\ o \in Brackets[h].open /\ CloserOf(h, o, walk.pos) # NoMark
  <2>1. j \in 1..Len(stack) /\ stack[j] \in FrameSet
    BY DEF Awaits
  <2>. QED BY <2>1 DEF Awaits, FrameSet
<1>. HIDE DEF h, o
<1>4. Placed(walk.pos)
  BY DEF Placed, CanRead
<1>5. \A g \in Slots : OpenerOf(g, walk.pos) = NoMark
  BY <1>3, <1>4, ClosesFirst DEF Awaits
<1>6. \A around : Opening(walk.pos, around) = Nothing
  <2>. SUFFICES ASSUME NEW around PROVE Opening(walk.pos, around) = Nothing
    OBVIOUS
  <2>1. ASSUME NEW x, NEW g \in Slots, Opens(x, g), x = Opening(walk.pos, around)
        PROVE  FALSE
    <3> DEFINE s == [i \in Slots |-> IF ParentAllowed(i, around)
                                     THEN Reading("open", i, OpenerOf(i, walk.pos)) ELSE Nothing]
    <3>1. \A i \in Slots : Reading("open", i, OpenerOf(i, walk.pos)) = Nothing
      BY <1>5, ReadingIs
    <3>2. \A i \in Slots : s[i] = Nothing
      BY <3>1
    <3>3. x = FirstOf(s)
      BY <2>1 DEF Opening
    <3>4. 1..Len(s) = Slots
      BY DEF CanRead, TableAssumption, Slots
    <3>. HIDE DEF s
    <3>5. x = Nothing
      BY <3>2, <3>3, <3>4, FirstOfIs
    <3>. QED BY <2>1, <3>5 DEF Opens
  <2>. QED BY <2>1, OpeningIs
<1>7. CASE OutOfBody(f) # Nothing
  BY <1>1, <1>7 DEF Read, AtTop, Finished, Ending
<1>8. CASE OutOfBody(f) = Nothing /\ Brackets[f.group].restricted
  <2>1. r = FirstOf(RestrictedReadings(f))
    BY <1>1, <1>8 DEF Read, AtTop, Finished
  <2>2. j = Len(stack)
    <3>1. ~(Len(stack) \in (j + 1)..Len(stack))
      BY <1>2, <1>8 DEF Awaits
    <3>. QED BY <1>1, <3>1 DEF Awaits
  <2>3. Closing(f) # Nothing
    <3>1. CloserOf(f.group, f.opened, walk.pos) # NoMark
      BY <1>2, <1>3, <2>2 DEF h, o
    <3>. HIDE DEF f
    <3>. QED BY <3>1, ClosingIs
  <2>. HIDE DEF f
  <2>4. r = Closing(f)
    BY <2>1, <2>3, RestrictedIs
  <2>. QED BY <2>3, <2>4, ClosingIs
<1>9. CASE OutOfBody(f) = Nothing /\ ~Brackets[f.group].restricted
  <2>1. r = FirstOf(CodeReadings(f))
    BY <1>1, <1>9 DEF Read, AtTop, Finished
  <2>2. CASE r = Closing(f)
    <3>. HIDE DEF f
    <3>. QED BY <2>2, ClosingIs
  <2>3. CASE r # Closing(f)
    <3>1. Closing(f) = Nothing
      <4>. HIDE DEF f
      <4>. QED BY <1>2, <1>6, <1>9, <2>1, <2>3, CodeIs
    <3>2. Separating(f) = Nothing
      <4>1. Literal(Brackets[f.group].separators, walk.pos) = NoMark
        <5>. HIDE DEF f
        <5>. QED BY <1>2, <1>3, <1>4, <1>9, ClosesFirst
      <4>. HIDE DEF f
      <4>. QED BY <4>1, ReadingIs DEF Separating
    <3>3. EnclosingEnds = Ending
      <4>1. j # Len(stack)
        <5>1. ASSUME j = Len(stack)
              PROVE  FALSE
          <6>1. CloserOf(f.group, f.opened, walk.pos) # NoMark
            BY <1>2, <1>3, <5>1 DEF h, o
          <6>. HIDE DEF f
          <6>. QED BY <3>1, <6>1, ClosingIs
        <5>. QED BY <5>1
      <4>2. j \in 1..(Len(stack) - 1) /\ \A k \in (j + 1)..(Len(stack) - 1) : k \in (j + 1)..Len(stack)
        BY <1>1, <4>1 DEF Awaits
      <4>. QED BY <1>3, <4>2 DEF EnclosingEnds, Awaits, h, o
    <3>4. Ending # Nothing /\ Ending.act = "end"
      BY DEF Ending, Nothing
    <3>5. r = EnclosingEnds
      <4>. HIDE DEF f
      <4>. QED BY <1>2, <1>6, <1>9, <2>1, <2>3, <3>1, <3>2, <3>3, <3>4, CodeIs
    <3>. QED BY <3>3, <3>4, <3>5
  <2>. QED BY <2>2, <2>3
<1>10. OutOfBody(f) = Nothing \/ OutOfBody(f) # Nothing
  OBVIOUS
<1>. QED BY <1>7, <1>8, <1>9, <1>10

---------------------------------------------------------------------------
(* The walk of the nodes so far holds open what the parse does, or more, for *)
(* as long as the closer it waits for is the next to be read.                *)

\* The first n of S are the openers of the first n frames.
HeldBy(S, w, st, n) == \A k \in 1..n : S[k] = NodeIn(w, st[k].count + 1)

\* A group that ends by the closer of an enclosing one, and that only.
Spare(n, pos) ==
  /\ GroupOf(n.text) \in Slots /\ n.text \in Brackets[GroupOf(n.text)].open
  /\ ~Brackets[GroupOf(n.text)].restricted
  /\ CloserOf(GroupOf(n.text), n.text, pos) = NoMark

\* What is held open beyond the frames has been left at the end of the input, or
\* where an enclosing group closes.
Current(w, st, S) ==
  /\ Len(st) =< Len(S) /\ HeldBy(S, w, st, Len(st))
  /\ Len(st) < Len(S) /\ w.pos < Len(source) =>
       /\ \E j \in 1..Len(st) : Awaits(st, w.pos, j)
       /\ \A k \in (Len(st) + 1)..Len(S) : Spare(S[k], w.pos)

\* Before a frame's opener no more is held open than the frames below.
Tracked(w, st, k) ==
  Len(HeldAfter(w, st[k].count)) = k - 1 /\ HeldBy(HeldAfter(w, st[k].count), w, st, k - 1)

AnswerAt(w, i) == Answer(HeldAfter(w, i - 1), NodeIn(w, i))

LinksIn(w, n) == {<<AnswerAt(w, i), i>> : i \in {k \in 1..n : AnswerAt(w, k) # None}}

\* The group a node stands in, as the stack before it says.
Inside(S) == IF S = <<>> THEN NoGroup ELSE GroupOf(SQE!Last(S).text)

Obeys(S, n) ==
  /\ n.kind = "Opener" =>
       IF Inside(S) = NoGroup THEN ParentAllowed(GroupOf(n.text), NoGroup)
       ELSE OpensInside(GroupOf(n.text), Inside(S))
  /\ n.kind = "Separator" => Inside(S) # NoGroup /\ ~Brackets[Inside(S)].restricted

AgreeOK(w, st, ln) ==
  /\ Current(w, st, HeldAfter(w, Len(w.out)))
  /\ \A k \in 1..Len(st) : Tracked(w, st, k) /\ (st[k].bound => Lexis[st[k].group].bounded)
  /\ ln = LinksIn(w, Len(w.out))
  /\ \A i \in 1..Len(w.out) : Obeys(HeldAfter(w, i - 1), NodeIn(w, i))

AgreeInv == EndsInv /\ AgreeOK(walk, stack, linked)

\* An array that is alike keeps it for what stays.
LEMMA NodeAlike ==
  ASSUME NEW w, NEW v, NEW c, Alike(w, v, c), NEW i \in 1..c
  PROVE  /\ NodeIn(v, i).kind = NodeIn(w, i).kind
         /\ NodeIn(w, i).kind # "Text" => NodeIn(v, i) = NodeIn(w, i)
BY DEF Alike, NodeIn

LEMMA OpenerAlike ==
  ASSUME NEW w, NEW v, NEW c, Alike(w, v, c), NEW st, StackOK(w, st), NEW k \in 1..Len(st),
         st[k].count + 1 =< c
  PROVE  NodeIn(v, st[k].count + 1) = NodeIn(w, st[k].count + 1)
<1>1. st[k].count \in Nat /\ w.out[st[k].count + 1].kind = "Opener"
  BY FrameTyped DEF FrameIn
<1>2. c \in Nat
  BY DEF Alike
<1>3. st[k].count + 1 \in 1..c
  BY <1>1, <1>2
<1>4. NodeIn(w, st[k].count + 1).kind = "Opener"
  BY <1>1 DEF NodeIn
<1> DEFINE i == st[k].count + 1
<1>. HIDE DEF i
<1>5. NodeIn(v, i) = NodeIn(w, i)
  BY <1>3, <1>4, NodeAlike DEF i
<1>. QED BY <1>5 DEF i

LEMMA HoldsKept ==
  ASSUME NEW w, NEW v, NEW c, Alike(w, v, c), NEW st, StackOK(w, st), NEW sv,
         NEW n \in Nat, n =< Len(st), \A k \in 1..n : sv[k] = st[k] /\ st[k].count + 1 =< c,
         NEW S, HeldBy(S, w, st, n)
  PROVE  HeldBy(S, v, sv, n)
<1>. SUFFICES ASSUME NEW k \in 1..n PROVE S[k] = NodeIn(v, sv[k].count + 1)
  BY DEF HeldBy
<1>1. k \in 1..Len(st) /\ st[k].count + 1 =< c /\ sv[k] = st[k]
  BY DEF StackOK
<1>2. NodeIn(v, st[k].count + 1) = NodeIn(w, st[k].count + 1)
  BY <1>1, OpenerAlike
<1>3. S[k] = NodeIn(w, st[k].count + 1)
  BY DEF HeldBy
<1>. QED BY <1>1, <1>2, <1>3

LEMMA TrackedKept ==
  ASSUME NEW w, NEW v, NEW c, Alike(w, v, c), Len(w.out) \in Nat, Len(v.out) \in Nat,
         NEW st, StackOK(w, st), NEW sv, NEW k, Remains(st, sv, k, c), Tracked(w, st, k)
  PROVE  Tracked(v, sv, k)
<1>1. k \in 1..Len(st) /\ sv[k] = st[k] /\ st[k].count + 1 =< c /\ c \in Nat
  BY DEF Remains, Alike
<1>2. st[k].count \in Nat /\ k - 1 \in Nat /\ k - 1 =< Len(st)
  <2>1. st[k].count \in Nat /\ Len(st) \in Nat
    BY <1>1, FrameTyped
  <2>. QED BY <1>1, <2>1
<1>3. HeldAfter(v, st[k].count) = HeldAfter(w, st[k].count)
  <2> DEFINE n == st[k].count
  <2>1. n \in 0..c
    BY <1>1, <1>2
  <2>. HIDE DEF n
  <2>2. HeldAfter(v, n) = HeldAfter(w, n)
    BY <2>1, LeftAlike
  <2>. QED BY <2>2 DEF n
<1>4. ASSUME NEW j \in 1..(k - 1)
      PROVE  sv[j] = st[j] /\ st[j].count + 1 =< c
  <2>1. j \in 1..Len(st) /\ j < k /\ j \in 1..k
    BY <1>1 DEF StackOK
  <2>2. st[j].count < st[k].count /\ st[j].count \in Nat
    BY <1>1, <2>1, FrameTyped DEF StackOK
  <2>. QED BY <1>1, <1>2, <2>1, <2>2 DEF Remains
<1>5. HeldBy(HeldAfter(w, st[k].count), w, st, k - 1) /\ Len(HeldAfter(w, st[k].count)) = k - 1
  BY DEF Tracked
<1> DEFINE n == k - 1
           S == HeldAfter(w, st[k].count)
<1>6. n \in Nat /\ n =< Len(st) /\ HeldBy(S, w, st, n) /\ \A j \in 1..n : sv[j] = st[j] /\ st[j].count + 1 =< c
  BY <1>2, <1>4, <1>5
<1>. HIDE DEF n, S
<1>7. HeldBy(S, v, sv, n)
  BY <1>6, HoldsKept
<1>. QED BY <1>1, <1>3, <1>5, <1>7 DEF Tracked, n, S

LEMMA AnswersAlike ==
  ASSUME NEW w, NEW v, NEW c, Alike(w, v, c), Len(w.out) \in Nat, Len(v.out) \in Nat,
         NEW i \in 1..c
  PROVE  /\ HeldAfter(v, i - 1) = HeldAfter(w, i - 1) /\ AnswerAt(v, i) = AnswerAt(w, i)
         /\ Obeys(HeldAfter(w, i - 1), NodeIn(w, i)) => Obeys(HeldAfter(v, i - 1), NodeIn(v, i))
<1>1. HeldAfter(v, i - 1) = HeldAfter(w, i - 1)
  <2>1. i - 1 \in 0..c
    BY DEF Alike
  <2>. QED BY <2>1, LeftAlike
<1>2. /\ NodeIn(v, i).kind = NodeIn(w, i).kind
      /\ NodeIn(w, i).kind # "Text" => NodeIn(v, i) = NodeIn(w, i)
  BY NodeAlike
<1>3. CASE NodeIn(w, i).kind = "Text"
  BY <1>1, <1>2, <1>3 DEF AnswerAt, Answer, Obeys
<1>4. CASE NodeIn(w, i).kind # "Text"
  BY <1>1, <1>2, <1>4 DEF AnswerAt
<1>. QED BY <1>1, <1>3, <1>4

LEMMA LinksAlike ==
  ASSUME NEW w, NEW v, NEW c, Alike(w, v, c), Len(w.out) \in Nat, Len(v.out) \in Nat
  PROVE  LinksIn(v, c) = LinksIn(w, c)
<1>1. \A i \in 1..c : AnswerAt(v, i) = AnswerAt(w, i)
  BY AnswersAlike
<1>. QED BY <1>1 DEF LinksIn

LEMMA LinksNext ==
  ASSUME NEW w, NEW c \in Nat
  PROVE  LinksIn(w, c + 1) = LinksIn(w, c) \cup
           (IF AnswerAt(w, c + 1) = None THEN {} ELSE {<<AnswerAt(w, c + 1), c + 1>>})
<1> DEFINE P(n) == {k \in 1..n : AnswerAt(w, k) # None}
<1>1. P(c + 1) = P(c) \cup (IF AnswerAt(w, c + 1) = None THEN {} ELSE {c + 1})
  <2>1. 1..(c + 1) = (1..c) \cup {c + 1}
    OBVIOUS
  <2>. QED BY <2>1, Zenon
<1>. HIDE DEF P
<1>2. \A n : LinksIn(w, n) = {<<AnswerAt(w, i), i>> : i \in P(n)}
  BY DEF LinksIn, P
<1>. QED BY <1>1, <1>2, Zenon

LEMMA LinksCut ==
  ASSUME NEW w, NEW n \in Nat, NEW c \in Nat, c =< n
  PROVE  {l \in LinksIn(w, n) : l[2] =< c} = LinksIn(w, c)
<1> DEFINE A(i) == AnswerAt(w, i)
           T == {l \in LinksIn(w, n) : l[2] =< c}
<1>1. \A m : LinksIn(w, m) = {<<A(i), i>> : i \in {k \in 1..m : A(k) # None}}
  BY DEF LinksIn
<1>. HIDE DEF A
<1>2. ASSUME NEW l \in T
      PROVE  l \in LinksIn(w, c)
  <2>1. PICK i \in 1..n : A(i) # None /\ l = <<A(i), i>>
    BY <1>1
  <2>2. i \in 1..c
    BY <1>2, <2>1
  <2>. QED BY <1>1, <2>1, <2>2
<1>3. ASSUME NEW l \in LinksIn(w, c)
      PROVE  l \in T
  <2>1. PICK i \in 1..c : A(i) # None /\ l = <<A(i), i>>
    BY <1>1
  <2>2. i \in 1..n /\ i =< c
    OBVIOUS
  <2>3. l \in LinksIn(w, n)
    BY <1>1, <2>1, <2>2
  <2>. QED BY <2>1, <2>2, <2>3
<1>. QED BY <1>2, <1>3

---------------------------------------------------------------------------
(* A step of the parse.                                                      *)

\* What is known before a step that reads r.
MidRead(r) ==
  /\ TableTells /\ AgreeInv /\ r = Read /\ Marked(r) /\ Tells(r) /\ Apt(r)

Unclosed == HeldAfter(walk, Len(walk.out))

\* A frame, its opener in the array, and what the text of it tells.
LEMMA FrameSays ==
  ASSUME TableTells, EndsInv, NEW k \in 1..Len(stack)
  PROVE  /\ stack[k] \in FrameSet /\ stack[k].group \in Slots /\ stack[k].group # NoGroup
         /\ stack[k].opened \in Brackets[stack[k].group].open
         /\ GroupOf(stack[k].opened) = stack[k].group
         /\ NodeIn(walk, stack[k].count + 1) =
              [id |-> stack[k].count + 1, kind |-> "Opener", text |-> stack[k].opened]
<1>1. StackOK(walk, stack) /\ OpenedBy(walk, stack[k])
  BY DEF EndsInv, ParseInv, EndsOK
<1>2. /\ stack[k] \in FrameSet /\ stack[k].group \in Slots
      /\ walk.out[stack[k].count + 1].kind = "Opener"
  BY <1>1, FrameTyped DEF FrameIn
<1>3. stack[k].opened \in Brackets[stack[k].group].open
  BY <1>1 DEF OpenedBy
<1>4. GroupOf(stack[k].opened) = stack[k].group
  BY <1>2, <1>3 DEF TableTells
<1>5. stack[k].group # NoGroup
  BY <1>2 DEF Slots, NoGroup
<1>. QED BY <1>1, <1>2, <1>3, <1>4, <1>5 DEF NodeIn, OpenedBy

\* So the derivation asks of its opener what the parse asks of the frame.
LEMMA OpenerSays ==
  ASSUME TableTells, EndsInv, NEW S, NEW n \in Nat, n =< Len(stack), HeldBy(S, walk, stack, n),
         NEW k \in 1..n, NEW x
  PROVE  /\ S[k].id = stack[k].count + 1 /\ S[k].text = stack[k].opened
         /\ GroupOf(S[k].text) = stack[k].group
         /\ Closes(S[k], x) <=> Ends(Brackets[stack[k].group], stack[k].opened, x.text)
         /\ Rejects(S[k], x) <=> Overlong(Brackets[stack[k].group], stack[k].opened, x.text)
         /\ CodeMode(S[k]) <=> ~Brackets[stack[k].group].restricted
<1>1. k \in 1..Len(stack)
  BY DEF EndsInv, ParseInv, StackOK
<1>2. /\ stack[k].group # NoGroup /\ GroupOf(stack[k].opened) = stack[k].group
      /\ NodeIn(walk, stack[k].count + 1) =
           [id |-> stack[k].count + 1, kind |-> "Opener", text |-> stack[k].opened]
  BY <1>1, FrameSays
<1>3. S[k] = [id |-> stack[k].count + 1, kind |-> "Opener", text |-> stack[k].opened]
  BY <1>2 DEF HeldBy
<1>. QED BY <1>2, <1>3 DEF Closes, Rejects, CodeMode

LEMMA LeftTyped ==
  ASSUME EndsInv
  PROVE  /\ Len(walk.out) \in Nat /\ Len(stack) \in Nat /\ stack \in Seq(FrameSet)
         /\ Unclosed \in Seq({NodeIn(walk, i) : i \in 1..Len(walk.out)})
         /\ Len(Unclosed) \in Nat
<1>1. Len(walk.out) \in Nat
  BY Typed DEF EndsInv, ParseInv
<1>2. stack \in Seq(FrameSet)
  BY DEF EndsInv, ParseInv, StackOK
<1>3. Unclosed \in Seq({NodeIn(walk, i) : i \in 1..Len(walk.out)})
  <2> DEFINE n == Len(walk.out)
  <2>1. n \in 0..n
    BY <1>1
  <2>2. HeldAfter(walk, n) \in Seq({NodeIn(walk, i) : i \in 1..n})
    BY <1>1, <2>1, LeftTurns
  <2>. QED BY <2>2 DEF Unclosed
<1>. QED BY <1>1, <1>2, <1>3

\* Unless a group closes, no more is held open than what the parse does.
LEMMA NoneSpare ==
  ASSUME NEW r, MidRead(r), r.act # "close"
  PROVE  Len(Unclosed) = Len(stack) /\ HeldBy(Unclosed, walk, stack, Len(stack))
<1>1. /\ TableTells /\ EndsInv /\ ParseInv /\ Current(walk, stack, Unclosed)
  BY DEF MidRead, AgreeInv, AgreeOK, EndsInv, Unclosed
<1>2. walk.pos < Len(source) /\ r.act # "end" /\ r # Nothing /\ r = Read
  <2>1. walk.pos + Len(r.mark) =< Len(source) /\ Len(r.mark) \in Nat /\ Len(r.mark) > 0
    BY <1>1, MarkedLen DEF MidRead
  <2>2. walk.pos \in Nat /\ Len(source) \in Nat
    BY <1>1, Typed DEF ParseInv
  <2>3. r.act # "end" /\ r # Nothing
    BY DEF MidRead, Marked, Nothing
  <2>. QED BY <2>1, <2>2, <2>3 DEF MidRead
<1>3. ASSUME NEW j, Awaits(stack, walk.pos, j)
      PROVE  FALSE
  <2>1. CanRead
    BY <1>1, Typed, LexisAssumption, TableAssumption DEF CanRead, ParseInv, Sound, Tiled
  <2>2. \A k \in 1..Len(stack) : stack[k].opened \in Brackets[stack[k].group].open
    BY <1>1, FrameSays
  <2>. QED BY <1>1, <1>2, <1>3, <2>1, <2>2, LeftTyped, AwaitedReads
<1>4. ~(Len(stack) < Len(Unclosed))
  BY <1>1, <1>2, <1>3 DEF Current
<1>. QED BY <1>1, <1>4, LeftTyped DEF Current

\* What ends a group for the parse does for the derivation, and what has not
\* ended it here has not.
LEMMA EndsToo ==
  ASSUME TableTells, ParseInv, NEW g \in Slots, NEW o, Brackets[g].closeIsOpen => o \in Brackets[g].open,
         CloserOf(g, o, walk.pos) # NoMark,
         NEW h \in Slots, NEW t, t \in Brackets[h].open, CloserOf(h, t, walk.pos) = NoMark,
         ~Brackets[g].restricted \/ ~Brackets[h].restricted
  PROVE  ~Ends(Brackets[h], t, CloserOf(g, o, walk.pos))
<1>1. Placed(walk.pos)
  BY Typed, LexisAssumption, TableAssumption DEF Placed, ParseInv
<1>. QED BY <1>1, ClosesToo

\* A closer ends the innermost frame for both, and those spared with it.
LEMMA CloserPops ==
  ASSUME NEW r, MidRead(r), r.act = "close", NEW x, x.kind = "Closer", x.text = r.mark
  PROVE  /\ stack # <<>> /\ Answer(Unclosed, x) = Frame.count + 1
         /\ After(Unclosed, x) = SubSeq(Unclosed, 1, Len(stack) - 1)
<1> DEFINE S == Unclosed
           q == Len(stack)
           g == Frame.group
           o == Frame.opened
<1>1. /\ TableTells /\ EndsInv /\ ParseInv /\ Current(walk, stack, S)
      /\ stack # <<>> /\ FrameCloses(Frame) /\ r.mark = CloserOf(g, o, walk.pos)
  BY DEF MidRead, AgreeInv, AgreeOK, EndsInv, Tells, Unclosed
<1>2. /\ q \in Nat /\ q \in 1..q /\ Len(S) \in Nat /\ q =< Len(S) /\ Frame = stack[q]
      /\ S \in Seq({NodeIn(walk, i) : i \in 1..Len(walk.out)}) /\ HeldBy(S, walk, stack, q)
  <2>1. q \in Nat /\ stack \in Seq(FrameSet) /\ Len(S) \in Nat
    BY <1>1, LeftTyped
  <2>2. q \in 1..q
    BY <1>1, <2>1
  <2>. QED BY <1>1, <2>1, <2>2, LeftTyped DEF Current, Frame, SQE!Last
<1>3. /\ g \in Slots /\ o \in Brackets[g].open
      /\ CloserOf(g, o, walk.pos) # NoMark /\ x.text = CloserOf(g, o, walk.pos)
  BY <1>1, <1>2, FrameSays DEF FrameCloses
<1>4. Closes(S[q], x) /\ S[q].id = Frame.count + 1
  <2>1. Placed(walk.pos)
    BY <1>1, Typed, LexisAssumption, TableAssumption DEF Placed, ParseInv
  <2>2. Ends(Brackets[g], o, x.text)
    BY <1>3, <2>1, CloserStands
  <2>3. q =< q
    BY <1>2
  <2>. HIDE DEF S, q
  <2>. QED BY <1>1, <1>2, <2>2, <2>3, OpenerSays DEF q
<1>. HIDE DEF S, q, g, o
<1>5. S # <<>> /\ Len(S) \in 1..Len(S)
  BY <1>2
<1>6. CASE Len(S) = q
  <2>1. SQE!Last(S) = S[q] /\ SQE!Front(S) = SubSeq(S, 1, q - 1)
    BY <1>6 DEF SQE!Last, SQE!Front
  <2>2. After(S, x) = SubSeq(S, 1, q - 1) /\ Answer(S, x) = S[q].id
    BY <1>4, <1>5, <2>1 DEF After, Answer
  <2>. QED BY <1>1, <1>4, <2>2 DEF S, q
<1>7. CASE q < Len(S)
  <2>1. walk.pos < Len(source)
    <3>1. walk.pos + Len(r.mark) =< Len(source) /\ Len(r.mark) \in Nat /\ Len(r.mark) > 0
      BY <1>1, MarkedLen DEF MidRead
    <3>2. walk.pos \in Nat /\ Len(source) \in Nat
      BY <1>1, Typed DEF ParseInv
    <3>. QED BY <3>1, <3>2
  <2>2. \A k \in (q + 1)..Len(S) : Spare(S[k], walk.pos)
    BY <1>1, <1>7, <2>1 DEF Current, q
  <2>3. ASSUME NEW k \in (q + 1)..Len(S)
        PROVE  ~Closes(S[k], x) /\ CodeMode(S[k]) /\ ~Rejects(S[k], x)
    <3> DEFINE t == S[k].text
               h == GroupOf(t)
    <3>1. h \in Slots /\ t \in Brackets[h].open /\ ~Brackets[h].restricted
          /\ CloserOf(h, t, walk.pos) = NoMark
      BY <2>2 DEF Spare
    <3>. HIDE DEF t, h
    <3>2. ~Ends(Brackets[h], t, x.text)
      BY <1>1, <1>3, <3>1, EndsToo
    <3>3. ~Overlong(Brackets[h], t, x.text)
      BY <1>1, <3>1 DEF TableTells, Overlong
    <3>4. h # NoGroup
      BY <3>1 DEF Slots, NoGroup
    <3>. QED BY <3>1, <3>2, <3>3, <3>4 DEF Closes, CodeMode, Rejects, t, h
  <2>4. SQE!Last(S) = S[Len(S)] /\ Len(S) \in (q + 1)..Len(S)
    BY <1>2, <1>7 DEF SQE!Last
  <2>5. EnclosingCloses(S, x) = q
    <3> DEFINE j == EnclosingCloses(S, x)
    <3>1. \/ /\ j = 0
             /\ \A i \in 1..(Len(S) - 1) : ~(/\ Closes(S[i], x)
                                             /\ \A k \in (i + 1)..Len(S) : CodeMode(S[k]))
          \/ /\ j \in 1..(Len(S) - 1) /\ Closes(S[j], x)
             /\ \A i \in (j + 1)..(Len(S) - 1) : ~(/\ Closes(S[i], x)
                                                   /\ \A k \in (i + 1)..Len(S) : CodeMode(S[k]))
      BY <1>2, EnclosingIs
    <3>. HIDE DEF j
    <3>2. q \in 1..(Len(S) - 1)
      BY <1>2, <1>7
    <3>3. j # 0
      BY <1>4, <2>3, <3>1, <3>2
    <3>4. j \in 1..(Len(S) - 1) /\ ~(j \in (q + 1)..Len(S))
      BY <2>3, <3>1, <3>3
    <3>5. ~(q \in (j + 1)..(Len(S) - 1))
      BY <1>4, <2>3, <3>1, <3>3
    <3>6. j = q
      BY <1>2, <3>2, <3>4, <3>5
    <3>. QED BY <3>6 DEF j
  <2>6. ~Closes(SQE!Last(S), x) /\ ~Rejects(SQE!Last(S), x)
    BY <2>3, <2>4
  <2>7. q > 0 /\ q # 0
    BY <1>2
  <2>8. After(S, x) = SubSeq(S, 1, q - 1) /\ Answer(S, x) = S[q].id
    BY <1>5, <2>5, <2>6, <2>7 DEF After, Answer
  <2>. QED BY <1>1, <1>4, <2>8 DEF S, q
<1>. QED BY <1>2, <1>6, <1>7

\* A rejected run ends the frame, and pairs with nothing.
LEMMA RejectPops ==
  ASSUME NEW r, MidRead(r), r.act = "reject", NEW x, x.kind = "Closer", x.text = r.mark
  PROVE  /\ stack # <<>> /\ Answer(Unclosed, x) = None
         /\ After(Unclosed, x) = SubSeq(Unclosed, 1, Len(stack) - 1)
<1> DEFINE S == Unclosed
           q == Len(stack)
<1>1. /\ TableTells /\ EndsInv /\ ParseInv /\ stack # <<>> /\ Rejected(Frame, r.mark)
  BY DEF MidRead, AgreeInv, EndsInv, Apt
<1>2. /\ q \in Nat /\ q \in 1..q /\ Len(S) = q /\ Frame = stack[q] /\ HeldBy(S, walk, stack, q)
  <2>1. q \in Nat /\ stack \in Seq(FrameSet)
    BY <1>1, LeftTyped
  <2>2. q \in 1..q
    BY <1>1, <2>1
  <2>3. r.act # "close"
    OBVIOUS
  <2>4. Len(S) = q /\ HeldBy(S, walk, stack, q)
    BY <2>3, NoneSpare
  <2>. QED BY <2>1, <2>2, <2>4 DEF Frame, SQE!Last
<1>3. Frame.group \in Slots /\ Frame.opened \in Brackets[Frame.group].open
  BY <1>1, <1>2, FrameSays
<1>4. /\ Brackets[Frame.group].closeIsOpen /\ r.mark # Frame.opened
      /\ Overlong(Brackets[Frame.group], Frame.opened, r.mark)
  <2>1. Frame.opened \in Marks /\ r.mark \in Marks
    BY <1>1, <1>3, GroupTyped, TableAssumption DEF Rejected
  <2>2. Frame.opened \in Seq(Byte) /\ r.mark \in Seq(Byte)
        /\ Width[r.mark] = Len(r.mark) /\ Width[Frame.opened] = Len(Frame.opened)
    BY <2>1, LexisAssumption DEF LexisAssumption
  <2>3. Len(r.mark) \in Nat /\ Len(Frame.opened) \in Nat /\ Len(r.mark) > Len(Frame.opened)
    BY <1>1, <2>2 DEF Rejected
  <2>4. Width[r.mark] > Width[Frame.opened] /\ r.mark # Frame.opened
    BY <2>2, <2>3
  <2>. QED BY <1>1, <1>3, <2>4 DEF Rejected, TableTells, Overlong
<1>5. ~Closes(S[q], x) /\ Rejects(S[q], x)
  <2>1. ~Ends(Brackets[Frame.group], Frame.opened, x.text)
    BY <1>4 DEF Ends
  <2>2. q =< q
    BY <1>2
  <2>. HIDE DEF S, q
  <2>. QED BY <1>1, <1>2, <1>4, <2>1, <2>2, OpenerSays DEF q
<1>6. S # <<>> /\ SQE!Last(S) = S[q] /\ SQE!Front(S) = SubSeq(S, 1, q - 1)
  BY <1>2 DEF SQE!Last, SQE!Front
<1>. HIDE DEF S, q
<1>7. After(S, x) = SubSeq(S, 1, q - 1) /\ Answer(S, x) = None
  BY <1>5, <1>6 DEF After, Answer
<1>. QED BY <1>1, <1>7 DEF S, q

\* A stray closer ends nothing.
LEMMA StrayStays ==
  ASSUME NEW r, MidRead(r), r.act = "stray", NEW x, x.kind = "Closer", x.text = r.mark
  PROVE  Answer(Unclosed, x) = None /\ After(Unclosed, x) = Unclosed
<1> DEFINE S == Unclosed
           q == Len(stack)
<1>1. /\ TableTells /\ EndsInv /\ ParseInv /\ Tells(r)
  BY DEF MidRead, AgreeInv, EndsInv
<1>2. /\ q \in Nat /\ stack \in Seq(FrameSet) /\ Len(S) = q /\ HeldBy(S, walk, stack, q)
      /\ S \in Seq({NodeIn(walk, i) : i \in 1..Len(walk.out)})
  <2>1. r.act # "close"
    OBVIOUS
  <2>. QED BY <1>1, <2>1, LeftTyped, NoneSpare
<1>3. CASE S = <<>>
  BY <1>3 DEF Answer, After
<1>4. CASE S # <<>>
  <2>1. q \in 1..q /\ stack # <<>> /\ Frame = stack[q] /\ q =< q
    BY <1>2, <1>4 DEF Frame, SQE!Last
  <2>2. PICK g \in Slots : /\ ~Brackets[g].restricted /\ ~Brackets[g].closeIsOpen
                           /\ CloserOf(g, NoMark, walk.pos) # NoMark
                           /\ x.text = CloserOf(g, NoMark, walk.pos)
    BY <1>1 DEF Tells
  <2>3. /\ ~Brackets[Frame.group].restricted /\ ~FrameCloses(Frame) /\ EnclosingEnds = Nothing
    BY <1>1, <2>1 DEF Tells
  <2>4. ASSUME NEW k \in 1..q, CloserOf(stack[k].group, stack[k].opened, walk.pos) = NoMark
        PROVE  ~Closes(S[k], x)
    <3>1. stack[k].group \in Slots /\ stack[k].opened \in Brackets[stack[k].group].open
      BY <1>1, FrameSays
    <3>2. ~Ends(Brackets[stack[k].group], stack[k].opened, x.text)
      BY <1>1, <2>2, <2>4, <3>1, EndsToo
    <3>. HIDE DEF S, q
    <3>. QED BY <1>1, <1>2, <2>1, <3>2, OpenerSays DEF q
  <2>5. ~Closes(S[q], x) /\ ~Rejects(S[q], x)
    <3>1. CloserOf(stack[q].group, stack[q].opened, walk.pos) = NoMark
      BY <2>1, <2>3 DEF FrameCloses
    <3>2. ~Closes(S[q], x)
      <4>. HIDE DEF S, q
      <4>. QED BY <2>1, <2>4, <3>1
    <3>3. ~Overlong(Brackets[stack[q].group], stack[q].opened, x.text)
      <4>1. stack[q].group \in Slots
        BY <1>1, <2>1, FrameSays
      <4>. QED BY <1>1, <2>1, <2>3, <4>1 DEF TableTells, Overlong
    <3>. HIDE DEF S, q
    <3>. QED BY <1>1, <1>2, <2>1, <3>2, <3>3, OpenerSays DEF q
  <2>6. EnclosingCloses(S, x) = 0
    <3> DEFINE j == EnclosingCloses(S, x)
    <3>1. \/ j = 0
          \/ /\ j \in 1..(q - 1) /\ Closes(S[j], x)
             /\ \A k \in (j + 1)..q : CodeMode(S[k])
      <4>. HIDE DEF S, q
      <4>. QED BY <1>2, EnclosingIs
    <3>. HIDE DEF j
    <3>2. ASSUME j \in 1..(q - 1), Closes(S[j], x), \A k \in (j + 1)..q : CodeMode(S[k])
          PROVE  FALSE
      <4>1. j \in 1..q /\ \A k \in (j + 1)..(q - 1) : k \in 1..q /\ k \in (j + 1)..q
        BY <2>1, <3>2
      <4>2. CloserOf(stack[j].group, stack[j].opened, walk.pos) # NoMark
        BY <2>4, <3>2, <4>1
      <4>3. ASSUME NEW k \in (j + 1)..(q - 1)
            PROVE  ~Brackets[stack[k].group].restricted
        <5>1. k \in 1..q /\ CodeMode(S[k])
          BY <3>2, <4>1
        <5>. HIDE DEF S, q
        <5>. QED BY <1>1, <1>2, <2>1, <5>1, OpenerSays DEF q
      <4>4. EnclosingEnds = Ending
        BY <3>2, <4>2, <4>3 DEF EnclosingEnds
      <4>. QED BY <2>3, <4>4 DEF Ending, Nothing
    <3>3. j = 0
      BY <3>1, <3>2
    <3>. QED BY <3>3 DEF j
  <2>7. SQE!Last(S) = S[q]
    BY <1>2 DEF SQE!Last
  <2>. HIDE DEF S, q
  <2>8. After(S, x) = S /\ Answer(S, x) = None
    BY <1>4, <2>5, <2>6, <2>7 DEF After, Answer
  <2>. QED BY <2>8 DEF S
<1>. QED BY <1>3, <1>4

\* What an emitted node is to the walk of the nodes.
Emitted(v, x) ==
  /\ Len(walk.out) \in Nat /\ Len(v.out) = Len(walk.out) + 1 /\ Alike(walk, v, Len(walk.out))
  /\ NodeIn(v, Len(walk.out) + 1) = x
  /\ HeldAfter(v, Len(walk.out)) = Unclosed /\ HeldAfter(v, Len(walk.out) + 1) = After(Unclosed, x)
  /\ AnswerAt(v, Len(walk.out) + 1) = Answer(Unclosed, x)
  /\ LinksIn(v, Len(walk.out)) = linked
  /\ \A i \in 1..Len(walk.out) : Obeys(HeldAfter(v, i - 1), NodeIn(v, i))

LEMMA EmittedIs ==
  ASSUME AgreeInv, NEW r, Marked(r), NEW kind \in Markers, NEW v, v = Emit(walk, kind, Len(r.mark)),
         NEW x, x = [id |-> Len(walk.out) + 1, kind |-> kind, text |-> r.mark]
  PROVE  Emitted(v, x)
<1> DEFINE L == Len(walk.out)
<1>1. EndsInv /\ ParseInv /\ AgreeOK(walk, stack, linked)
  BY DEF AgreeInv, EndsInv
<1>2. /\ Len(r.mark) \in Nat /\ Len(r.mark) > 0 /\ walk.pos + Len(r.mark) =< Len(source)
      /\ Slice(walk.pos, walk.pos + Len(r.mark)) = r.mark
  BY <1>1, MarkedLen DEF Occurs
<1>3. /\ L \in Nat /\ Len(v.out) = L + 1 /\ Alike(walk, v, L) /\ v.out[L + 1].kind = kind
      /\ v.out[L + 1].text = r.mark
  <2> DEFINE n == Len(r.mark)
  <2>1. n \in Nat /\ n > 0 /\ walk.pos + n =< Len(source) /\ v = Emit(walk, kind, n)
    BY <1>2
  <2>. HIDE DEF n, L
  <2>2. /\ Len(walk.out) \in Nat /\ Len(v.out) = Len(walk.out) + 1
        /\ Alike(walk, v, Len(walk.out)) /\ v.out[Len(walk.out) + 1].kind = kind
        /\ v.out[Len(walk.out) + 1].text = Slice(walk.pos, walk.pos + n)
    BY <1>1, <2>1, EmitAlike
  <2>. QED BY <1>2, <2>2 DEF n, L
<1>4. NodeIn(v, L + 1) = x
  BY <1>3 DEF NodeIn
<1>5. HeldAfter(v, L) = Unclosed /\ LinksIn(v, L) = linked
  <2>1. L \in 0..L /\ Len(walk.out) \in Nat /\ Len(v.out) \in Nat
    BY <1>3
  <2>2. HeldAfter(v, L) = HeldAfter(walk, L) /\ LinksIn(v, L) = LinksIn(walk, L)
    <3>. HIDE DEF L
    <3>. QED BY <1>3, <2>1, LeftAlike, LinksAlike
  <2>3. linked = LinksIn(walk, L)
    BY <1>1 DEF AgreeOK
  <2>. QED BY <2>2, <2>3 DEF Unclosed
<1>6. HeldAfter(v, L + 1) = After(Unclosed, x)
  <2> DEFINE n == L + 1
  <2>1. n \in 1..Len(v.out) /\ n - 1 = L /\ Len(v.out) \in Nat
    BY <1>3
  <2>2. HeldAfter(v, n) = After(HeldAfter(v, n - 1), NodeIn(v, n))
    <3>. HIDE DEF n
    <3>. QED BY <2>1, LeftTurns
  <2>. QED BY <1>4, <1>5, <2>1, <2>2
<1>7. AnswerAt(v, L + 1) = Answer(Unclosed, x)
  <2>1. (L + 1) - 1 = L
    BY <1>3
  <2>. QED BY <1>4, <1>5, <2>1 DEF AnswerAt
<1>8. ASSUME NEW i \in 1..L
      PROVE  Obeys(HeldAfter(v, i - 1), NodeIn(v, i))
  <2>1. Obeys(HeldAfter(walk, i - 1), NodeIn(walk, i))
    BY <1>1 DEF AgreeOK
  <2>2. Len(walk.out) \in Nat /\ Len(v.out) \in Nat
    BY <1>3
  <2>. HIDE DEF L
  <2>. QED BY <1>3, <2>1, <2>2, AnswersAlike
<1>. QED BY <1>3, <1>4, <1>5, <1>6, <1>7, <1>8 DEF Emitted

\* A node is emitted of which the walk of the nodes makes what the parse does.
LEMMA MarkAgrees ==
  ASSUME AgreeInv, NEW v, NEW x, Emitted(v, x), NEW sv, Len(sv) \in Nat,
         NEW T, T = After(Unclosed, x), Len(T) = Len(sv), HeldBy(T, v, sv, Len(sv)),
         \A k \in 1..Len(sv) :
           \/ Remains(stack, sv, k, Len(walk.out))
           \/ Tracked(v, sv, k) /\ (sv[k].bound => Lexis[sv[k].group].bounded),
         Obeys(Unclosed, x), NEW lv,
         lv = linked \cup (IF Answer(Unclosed, x) = None THEN {}
                           ELSE {<<Answer(Unclosed, x), Len(walk.out) + 1>>})
  PROVE  AgreeOK(v, sv, lv)
<1> DEFINE L == Len(walk.out)
<1>1. /\ L \in Nat /\ Len(v.out) = L + 1 /\ Len(v.out) \in Nat /\ Alike(walk, v, L)
      /\ NodeIn(v, L + 1) = x /\ HeldAfter(v, L) = Unclosed /\ HeldAfter(v, L + 1) = T
      /\ AnswerAt(v, L + 1) = Answer(Unclosed, x) /\ LinksIn(v, L) = linked
      /\ \A i \in 1..L : Obeys(HeldAfter(v, i - 1), NodeIn(v, i))
  BY DEF Emitted
<1>2. AgreeOK(walk, stack, linked) /\ StackOK(walk, stack)
  BY DEF AgreeInv, EndsInv, ParseInv
<1>3. Current(v, sv, HeldAfter(v, Len(v.out)))
  <2>1. HeldAfter(v, Len(v.out)) = T
    BY <1>1
  <2>2. Current(v, sv, T)
    BY DEF Current
  <2>. QED BY <2>1, <2>2
<1>4. ASSUME NEW k \in 1..Len(sv)
      PROVE  Tracked(v, sv, k) /\ (sv[k].bound => Lexis[sv[k].group].bounded)
  <2>1. ASSUME Remains(stack, sv, k, L)
        PROVE  Tracked(v, sv, k) /\ (sv[k].bound => Lexis[sv[k].group].bounded)
    <3>1. k \in 1..Len(stack) /\ sv[k] = stack[k]
      BY <2>1 DEF Remains
    <3>2. Tracked(walk, stack, k) /\ (stack[k].bound => Lexis[stack[k].group].bounded)
      BY <1>2, <3>1 DEF AgreeOK
    <3>3. Tracked(v, sv, k)
      <4>1. Len(walk.out) \in Nat
        BY <1>1
      <4>. HIDE DEF L
      <4>. QED BY <1>1, <1>2, <2>1, <3>2, <4>1, TrackedKept
    <3>. QED BY <3>1, <3>2, <3>3
  <2>. QED BY <2>1
<1>5. lv = LinksIn(v, Len(v.out))
  <2>1. LinksIn(v, L + 1) = LinksIn(v, L) \cup
          (IF AnswerAt(v, L + 1) = None THEN {} ELSE {<<AnswerAt(v, L + 1), L + 1>>})
    <3>. HIDE DEF L
    <3>. QED BY <1>1, LinksNext
  <2>. QED BY <1>1, <2>1
<1>6. ASSUME NEW i \in 1..Len(v.out)
      PROVE  Obeys(HeldAfter(v, i - 1), NodeIn(v, i))
  <2>1. CASE i \in 1..L
    BY <1>1, <2>1
  <2>2. CASE i = L + 1
    <3>1. i - 1 = L
      BY <1>1, <2>2
    <3>. QED BY <1>1, <2>2, <3>1
  <2>. QED BY <1>1, <2>1, <2>2
<1>. QED BY <1>3, <1>4, <1>5, <1>6 DEF AgreeOK

LEMMA StackRemains ==
  ASSUME EndsInv, NEW k \in 1..Len(stack)
  PROVE  Remains(stack, stack, k, Len(walk.out))
<1>1. StackOK(walk, stack) /\ Len(walk.out) \in Nat
  BY Typed DEF EndsInv, ParseInv
<1>2. stack[k].count + 1 \in 1..Len(walk.out) /\ stack[k].count \in Nat /\ Len(stack) \in Nat
  BY <1>1, FrameTyped DEF FrameIn
<1>. QED BY <1>1, <1>2 DEF Remains

\* What is held open of the frames is so in the array with one node more.
LEMMA HeldStays ==
  ASSUME EndsInv, NEW v, NEW x, Emitted(v, x), NEW S, HeldBy(S, walk, stack, Len(stack)),
         NEW n \in Nat, n =< Len(stack), NEW T, NEW sv, \A k \in 1..n : T[k] = S[k] /\ sv[k] = stack[k]
  PROVE  HeldBy(T, v, sv, n)
<1> DEFINE L == Len(walk.out)
<1>1. StackOK(walk, stack) /\ Alike(walk, v, L) /\ L \in Nat
  BY DEF EndsInv, ParseInv, Emitted
<1>2. ASSUME NEW k \in 1..n
      PROVE  k \in 1..Len(stack) /\ stack[k].count + 1 =< L
  <2>1. k \in 1..Len(stack)
    BY LeftTyped
  <2>. QED BY <2>1, StackRemains DEF Remains
<1>3. HeldBy(T, walk, stack, n)
  BY <1>2 DEF HeldBy
<1>. HIDE DEF L
<1>. QED BY <1>1, <1>2, <1>3, HoldsKept

\* A group opens.
LEMMA OpenAgrees ==
  ASSUME NEW r, MidRead(r), OpenGroup(r)
  PROVE  AgreeOK(walk', stack', linked')
<1> DEFINE L == Len(walk.out)
           q == Len(stack)
           v == walk'
           sv == stack'
           S == Unclosed
           x == [id |-> L + 1, kind |-> "Opener", text |-> r.mark]
           f == [ group    |-> r.group,
                  opened   |-> r.mark,
                  bound    |-> BoundAt(r.group, walk.pos),
                  count    |-> L,
                  pos      |-> walk.pos,
                  recorded |-> Len(demoted) ]
<1>1. v = Emit(walk, "Opener", Len(r.mark)) /\ sv = Append(stack, f) /\ linked' = linked /\ r.act = "open"
  BY DEF OpenGroup
<1>2. TableTells /\ AgreeInv /\ EndsInv /\ Marked(r) /\ Tells(r) /\ Apt(r)
  BY DEF MidRead, AgreeInv
<1>3. f.count = L /\ f.group = r.group /\ f.bound = BoundAt(r.group, walk.pos)
  OBVIOUS
<1>4. x.kind = "Opener" /\ x.text = r.mark /\ x.id = L + 1
  OBVIOUS
<1>5. Emitted(v, x)
  <2>1. "Opener" \in Markers
    BY DEF Markers
  <2>2. x = [id |-> Len(walk.out) + 1, kind |-> "Opener", text |-> r.mark]
    OBVIOUS
  <2>. HIDE DEF v, x, L
  <2>. QED BY <1>1, <1>2, <2>1, <2>2, EmittedIs
<1>6. /\ L \in Nat /\ q \in Nat /\ stack \in Seq(FrameSet) /\ Len(S) = q
      /\ HeldBy(S, walk, stack, q) /\ S \in Seq({NodeIn(walk, i) : i \in 1..L})
  <2>1. r.act # "close"
    BY <1>1
  <2>. QED BY <1>2, <2>1, LeftTyped, NoneSpare
<1>. HIDE DEF f, x, v, sv
<1>7. /\ Len(sv) = q + 1 /\ sv[q + 1] = f /\ \A k \in 1..q : sv[k] = stack[k] /\ k \in 1..Len(sv)
  BY <1>1, <1>6
<1>8. /\ After(S, x) = Append(S, x) /\ Answer(S, x) = None
  BY <1>4 DEF After, Answer
<1>9. /\ Len(Append(S, x)) = q + 1 /\ Append(S, x)[q + 1] = x
      /\ \A k \in 1..q : Append(S, x)[k] = S[k]
  BY <1>6
<1>10. \A n \in 0..q : n =< q => HeldBy(S, v, sv, n)
  <2>. SUFFICES ASSUME NEW n \in 0..q, n =< q PROVE HeldBy(S, v, sv, n)
    OBVIOUS
  <2>1. n \in Nat /\ \A k \in 1..n : S[k] = S[k] /\ sv[k] = stack[k]
    BY <1>6, <1>7
  <2>. HIDE DEF S
  <2>. QED BY <1>2, <1>5, <1>6, <2>1, HeldStays
<1>11. Tracked(v, sv, q + 1)
  <2>1. (q + 1) - 1 = q /\ q \in 0..q /\ q =< q
    BY <1>6
  <2>2. HeldAfter(v, L) = S
    BY <1>5 DEF Emitted
  <2>. QED BY <1>3, <1>6, <1>7, <1>10, <2>1, <2>2 DEF Tracked
<1>12. HeldBy(Append(S, x), v, sv, q + 1)
  <2>. SUFFICES ASSUME NEW k \in 1..(q + 1) PROVE Append(S, x)[k] = NodeIn(v, sv[k].count + 1)
    BY DEF HeldBy
  <2>1. CASE k \in 1..q
    <3>1. HeldBy(S, v, sv, q)
      BY <1>6, <1>10
    <3>. QED BY <1>9, <2>1, <3>1 DEF HeldBy
  <2>2. CASE k = q + 1
    BY <1>3, <1>5, <1>7, <1>9, <2>2 DEF Emitted
  <2>. QED BY <1>6, <2>1, <2>2
<1>13. Obeys(S, x)
  <2>1. r.mark \in Brackets[r.group].open /\ r.group \in Slots
    BY <1>1, <1>2 DEF Tells, Opens
  <2>2. GroupOf(x.text) = r.group
    BY <1>2, <1>4, <2>1 DEF TableTells
  <2>3. CASE stack = <<>>
    <3>1. S = <<>>
      BY <1>6, <2>3
    <3>2. ParentAllowed(r.group, NoGroup)
      BY <1>1, <1>2, <2>3 DEF Tells
    <3>. QED BY <1>4, <2>2, <3>1, <3>2 DEF Obeys, Inside
  <2>4. CASE stack # <<>>
    <3>1. q \in 1..q /\ q =< q /\ Frame = stack[q] /\ S # <<>> /\ SQE!Last(S) = S[q]
      BY <1>6, <2>4 DEF Frame, SQE!Last
    <3>2. GroupOf(S[q].text) = Frame.group
      <4>. HIDE DEF S, q
      <4>. QED BY <1>2, <1>6, <3>1, OpenerSays DEF q
    <3>3. Inside(S) = Frame.group
      BY <3>1, <3>2 DEF Inside
    <3>4. Frame.group # NoGroup
      BY <1>2, <3>1, FrameSays
    <3>5. OpensInside(r.group, Frame.group)
      BY <1>1, <1>2, <2>4 DEF Tells
    <3>. QED BY <1>4, <2>2, <3>3, <3>4, <3>5 DEF Obeys
  <2>. QED BY <2>3, <2>4
<1>14. \A k \in 1..Len(sv) : k \in 1..q \/ k = q + 1
  BY <1>6, <1>7
<1>15. f.bound => Lexis[f.group].bounded
  BY <1>3 DEF BoundAt
<1>16. \A k \in 1..q : Remains(stack, sv, k, L)
  <2>. SUFFICES ASSUME NEW k \in 1..q PROVE Remains(stack, sv, k, L)
    OBVIOUS
  <2>1. Remains(stack, stack, k, L)
    BY <1>2, StackRemains
  <2>2. \A j \in 1..k : j \in 1..q
    BY <1>6
  <2>. QED BY <1>7, <2>1, <2>2 DEF Remains
<1> DEFINE T == Append(S, x)
<1>17. /\ Len(sv) \in Nat /\ Len(T) = Len(sv) /\ HeldBy(T, v, sv, Len(sv)) /\ T = After(S, x)
       /\ linked = linked \cup (IF Answer(S, x) = None THEN {} ELSE {<<Answer(S, x), L + 1>>})
       /\ \A k \in 1..Len(sv) :
            \/ Remains(stack, sv, k, L)
            \/ Tracked(v, sv, k) /\ (sv[k].bound => Lexis[sv[k].group].bounded)
  BY <1>6, <1>7, <1>8, <1>9, <1>11, <1>12, <1>14, <1>15, <1>16
<1>. HIDE DEF T, S, L
<1>18. AgreeOK(v, sv, linked)
  BY <1>2, <1>5, <1>13, <1>17, MarkAgrees DEF L, S
<1>. QED BY <1>1, <1>18 DEF v, sv

\* A group ends, by its closer or by a run that is rejected.
LEMMA EndAgrees ==
  ASSUME NEW r, MidRead(r), CloseGroup(r) \/ RejectRun(r)
  PROVE  AgreeOK(walk', stack', linked')
<1> DEFINE L == Len(walk.out)
           q == Len(stack)
           v == walk'
           sv == stack'
           lv == linked'
           S == Unclosed
           x == [id |-> L + 1, kind |-> "Closer", text |-> r.mark]
<1>1. /\ v = Emit(walk, "Closer", Len(r.mark)) /\ sv = SQE!Front(stack) /\ r.act \in {"close", "reject"}
      /\ r.act = "close" => lv = linked \cup {<<Frame.count + 1, L + 1>>}
      /\ r.act = "reject" => lv = linked
  BY DEF CloseGroup, RejectRun, Link, OpenerIn
<1>2. TableTells /\ AgreeInv /\ EndsInv /\ Marked(r) /\ Tells(r) /\ Apt(r) /\ Current(walk, stack, Unclosed)
  BY DEF MidRead, AgreeInv, AgreeOK, Unclosed
<1>3. x.kind = "Closer" /\ x.text = r.mark
  OBVIOUS
<1>4. Emitted(v, x)
  <2>1. "Closer" \in Markers
    BY DEF Markers
  <2>2. x = [id |-> Len(walk.out) + 1, kind |-> "Closer", text |-> r.mark]
    OBVIOUS
  <2>. HIDE DEF v, x, L
  <2>. QED BY <1>1, <1>2, <2>1, <2>2, EmittedIs
<1>. HIDE DEF x, v, sv, lv
<1>5. /\ stack # <<>> /\ After(S, x) = SubSeq(S, 1, q - 1)
      /\ r.act = "close" => Answer(S, x) = Frame.count + 1
      /\ r.act = "reject" => Answer(S, x) = None
  BY <1>1, <1>3, CloserPops, RejectPops
<1>6. /\ L \in Nat /\ q \in Nat /\ q > 0 /\ stack \in Seq(FrameSet) /\ Len(S) \in Nat /\ q =< Len(S)
      /\ HeldBy(S, walk, stack, q) /\ S \in Seq({NodeIn(walk, i) : i \in 1..L})
  <2>1. q \in Nat /\ stack \in Seq(FrameSet) /\ Len(S) \in Nat /\ L \in Nat
        /\ S \in Seq({NodeIn(walk, i) : i \in 1..L})
    BY <1>2, LeftTyped
  <2>. QED BY <1>2, <1>5, <2>1 DEF Current
<1> DEFINE T == SubSeq(S, 1, q - 1)
<1>7. /\ Len(T) = q - 1 /\ \A k \in 1..(q - 1) : T[k] = S[k]
  <2> DEFINE Z == {NodeIn(walk, i) : i \in 1..L}
  <2>1. S \in Seq(Z) /\ q - 1 \in Nat /\ q - 1 =< Len(S)
    BY <1>6
  <2>. HIDE DEF Z, S, q
  <2>2. T = SubSeq(S, 1, q - 1)
    BY DEF q
  <2>. HIDE DEF T
  <2>. QED BY <2>1, <2>2
<1>8. /\ Len(sv) = q - 1 /\ \A k \in 1..(q - 1) : sv[k] = stack[k]
  <2>1. Popped(sv, stack, q)
    BY <1>1, <1>5, <1>6, FrontIs
  <2>. QED BY <1>6, <2>1 DEF Popped
<1>9. Frame = stack[q] /\ q \in 1..q /\ Frame.count \in Nat /\ Frame.count + 1 =< L
  <2>1. q \in 1..q /\ Frame = stack[q]
    BY <1>6 DEF Frame, SQE!Last
  <2>2. StackOK(walk, stack)
    BY <1>2 DEF EndsInv, ParseInv
  <2>3. stack[q].count \in Nat /\ FrameIn(walk, stack[q])
    BY <2>1, <2>2, FrameTyped
  <2>. QED BY <1>6, <2>1, <2>3 DEF FrameIn
<1>10. \A k \in 1..Len(sv) : Remains(stack, sv, k, L)
  <2>1. StackOK(walk, stack) /\ stack[Len(stack)].count =< L
    BY <1>2, <1>6, <1>9 DEF EndsInv, ParseInv
  <2>. HIDE DEF L
  <2>. QED BY <1>1, <1>5, <1>6, <2>1, PopRemains
<1>11. HeldBy(T, v, sv, q - 1)
  <2> DEFINE n == q - 1
  <2>1. n \in Nat /\ n =< Len(stack) /\ \A k \in 1..n : T[k] = S[k] /\ sv[k] = stack[k]
    BY <1>6, <1>7, <1>8
  <2>. HIDE DEF n, T, S
  <2>2. HeldBy(T, v, sv, n)
    BY <1>2, <1>4, <1>6, <2>1, HeldStays
  <2>. QED BY <2>2 DEF n
<1>12. Obeys(S, x)
  BY <1>3 DEF Obeys
<1>13. lv = linked \cup (IF Answer(S, x) = None THEN {} ELSE {<<Answer(S, x), L + 1>>})
  <2>1. CASE r.act = "close"
    <3>1. Frame.count + 1 # None
      BY <1>9 DEF None
    <3>. QED BY <1>1, <1>5, <2>1, <3>1
  <2>2. CASE r.act = "reject"
    BY <1>1, <1>5, <2>2
  <2>. QED BY <1>1, <2>1, <2>2
<1>14. Len(sv) \in Nat /\ Len(T) = Len(sv) /\ HeldBy(T, v, sv, Len(sv)) /\ T = After(S, x)
  BY <1>5, <1>6, <1>7, <1>8, <1>11
<1>. HIDE DEF T, S, L
<1>15. AgreeOK(v, sv, lv)
  BY <1>2, <1>4, <1>10, <1>12, <1>13, <1>14, MarkAgrees DEF L, S
<1>. QED BY <1>15 DEF v, sv, lv

\* A separator, or a stray closer: what is open stays open.
LEMMA StayAgrees ==
  ASSUME NEW r, MidRead(r), Separate(r) \/ StrayCloser(r)
  PROVE  AgreeOK(walk', stack', linked')
<1> DEFINE L == Len(walk.out)
           q == Len(stack)
           v == walk'
           lv == linked'
           S == Unclosed
           kind == IF r.act = "stray" THEN "Closer" ELSE "Separator"
           x == [id |-> L + 1, kind |-> kind, text |-> r.mark]
<1>1. /\ v = Emit(walk, kind, Len(r.mark)) /\ stack' = stack /\ r.act \in {"separate", "stray"}
      /\ r.act = "separate" => lv = linked \cup {<<Frame.count + 1, L + 1>>}
      /\ r.act = "stray" => lv = linked
  BY DEF Separate, StrayCloser, Link, OpenerIn
<1>2. TableTells /\ AgreeInv /\ EndsInv /\ Marked(r) /\ Tells(r) /\ Apt(r)
  BY DEF MidRead, AgreeInv
<1>3. x.kind = kind /\ x.text = r.mark
  OBVIOUS
<1>4. Emitted(v, x)
  <2>1. kind \in Markers
    BY DEF Markers
  <2>2. x = [id |-> Len(walk.out) + 1, kind |-> kind, text |-> r.mark]
    OBVIOUS
  <2>. HIDE DEF v, x, L, kind
  <2>. QED BY <1>1, <1>2, <2>1, <2>2, EmittedIs
<1>. HIDE DEF x, v, lv
<1>5. /\ L \in Nat /\ q \in Nat /\ stack \in Seq(FrameSet) /\ Len(S) = q
      /\ HeldBy(S, walk, stack, q) /\ S \in Seq({NodeIn(walk, i) : i \in 1..L})
  <2>1. r.act # "close"
    BY <1>1
  <2>. QED BY <1>2, <2>1, LeftTyped, NoneSpare
<1>6. /\ After(S, x) = S /\ Obeys(S, x)
      /\ lv = linked \cup (IF Answer(S, x) = None THEN {} ELSE {<<Answer(S, x), L + 1>>})
  <2>1. CASE r.act = "separate"
    <3>1. x.kind = "Separator" /\ stack # <<>> /\ ~Brackets[Frame.group].restricted
      BY <1>2, <1>3, <2>1 DEF Tells
    <3>2. q \in 1..q /\ q =< q /\ Frame = stack[q] /\ S # <<>> /\ SQE!Last(S) = S[q]
      BY <1>5, <3>1 DEF Frame, SQE!Last
    <3>3. S[q].id = Frame.count + 1 /\ GroupOf(S[q].text) = Frame.group
      <4>. HIDE DEF S, q
      <4>. QED BY <1>2, <1>5, <3>2, OpenerSays DEF q
    <3>4. Frame.group # NoGroup /\ Frame.count \in Nat
      <4>1. stack[q] \in FrameSet
        BY <1>2, <3>2, FrameSays
      <4>. QED BY <1>2, <3>2, <4>1, FrameSays DEF FrameSet
    <3>5. Inside(S) = Frame.group
      BY <3>2, <3>3 DEF Inside
    <3>6. After(S, x) = S /\ Answer(S, x) = Frame.count + 1
      BY <3>1, <3>2, <3>3 DEF After, Answer
    <3>7. Frame.count + 1 # None
      BY <3>4 DEF None
    <3>8. Obeys(S, x)
      BY <3>1, <3>4, <3>5 DEF Obeys
    <3>. QED BY <1>1, <2>1, <3>6, <3>7, <3>8
  <2>2. CASE r.act = "stray"
    <3>1. x.kind = "Closer" /\ lv = linked
      BY <1>1, <1>3, <2>2
    <3>2. After(S, x) = S /\ Answer(S, x) = None
      BY <1>3, <2>2, <3>1, StrayStays
    <3>. QED BY <3>1, <3>2 DEF Obeys
  <2>. QED BY <1>1, <2>1, <2>2
<1>7. HeldBy(S, v, stack, q)
  <2>1. q \in Nat /\ q =< Len(stack) /\ \A k \in 1..q : S[k] = S[k] /\ stack[k] = stack[k]
    BY <1>5
  <2>. HIDE DEF S, q
  <2>. QED BY <1>2, <1>4, <1>5, <2>1, HeldStays DEF q
<1>8. \A k \in 1..q : Remains(stack, stack, k, L)
  BY <1>2, StackRemains
<1>9. S = After(S, x) /\ Len(stack) \in Nat /\ Len(S) = Len(stack) /\ HeldBy(S, v, stack, Len(stack))
  BY <1>5, <1>6, <1>7
<1>. HIDE DEF S, L
<1>10. AgreeOK(v, stack, lv)
  BY <1>2, <1>4, <1>6, <1>8, <1>9, MarkAgrees DEF L, S
<1>. QED BY <1>1, <1>10 DEF v, lv

\* Texts leave it all as it is.
LEMMA TextsLeave ==
  ASSUME NEW v, NEW c \in Nat, Len(v.out) \in Nat, c =< Len(v.out),
         \A i \in (c + 1)..Len(v.out) : v.out[i].kind = "Text"
  PROVE  /\ \A n \in c..Len(v.out) : HeldAfter(v, n) = HeldAfter(v, c) /\ LinksIn(v, n) = LinksIn(v, c)
         /\ \A n \in (c + 1)..Len(v.out) : Obeys(HeldAfter(v, n - 1), NodeIn(v, n))
<1> DEFINE P(n) == HeldAfter(v, n) = HeldAfter(v, c) /\ LinksIn(v, n) = LinksIn(v, c)
           Bad == {n \in c..Len(v.out) : ~P(n)}
<1>1. ASSUME NEW n \in (c + 1)..Len(v.out), P(n - 1)
      PROVE  P(n)
  <2>1. n \in 1..Len(v.out) /\ n - 1 \in Nat /\ (n - 1) + 1 = n
    OBVIOUS
  <2>2. NodeIn(v, n).kind = "Text"
    BY DEF NodeIn
  <2>3. HeldAfter(v, n) = After(HeldAfter(v, n - 1), NodeIn(v, n))
    BY <2>1, LeftTurns
  <2>4. HeldAfter(v, n) = HeldAfter(v, n - 1)
    BY <2>2, <2>3 DEF After
  <2>5. AnswerAt(v, n) = None
    BY <2>2 DEF AnswerAt, Answer
  <2>6. LinksIn(v, n) = LinksIn(v, n - 1)
    <3> DEFINE m == n - 1
    <3>1. m \in Nat /\ m + 1 = n
      BY <2>1
    <3>. HIDE DEF m
    <3>2. LinksIn(v, m + 1) = LinksIn(v, m) \cup
            (IF AnswerAt(v, m + 1) = None THEN {} ELSE {<<AnswerAt(v, m + 1), m + 1>>})
      BY <3>1, LinksNext
    <3>3. LinksIn(v, n) = LinksIn(v, m)
      BY <2>5, <3>1, <3>2
    <3>. QED BY <3>3 DEF m
  <2>. QED BY <1>1, <2>4, <2>6
<1>2. Bad = {}
  <2>. SUFFICES ASSUME Bad # {} PROVE FALSE
    OBVIOUS
  <2>1. Bad \in SUBSET Nat
    OBVIOUS
  <2>2. PICK k \in Bad : \A m \in Bad : k =< m
    <3>. HIDE DEF Bad
    <3>. QED BY <2>1, LeastIn
  <2>3. k # c
    <3>1. P(c)
      OBVIOUS
    <3>. HIDE DEF P
    <3>. QED BY <2>2, <3>1
  <2>4. k \in (c + 1)..Len(v.out) /\ k - 1 \in c..Len(v.out)
    BY <2>3
  <2>5. k - 1 \notin Bad
    <3>1. k \in Nat
      BY <2>4
    <3>. HIDE DEF Bad
    <3>. QED BY <2>2, <3>1
  <2>. HIDE DEF P
  <2>6. P(k - 1)
    BY <2>4, <2>5
  <2>. QED BY <1>1, <2>2, <2>4, <2>6
<1>3. ASSUME NEW n \in (c + 1)..Len(v.out)
      PROVE  Obeys(HeldAfter(v, n - 1), NodeIn(v, n))
  BY DEF NodeIn, Obeys
<1>. HIDE DEF P
<1>4. \A n \in c..Len(v.out) : P(n)
  BY <1>2
<1>. QED BY <1>3, <1>4 DEF P

\* The array is cut back to one that is alike, with texts after it.
LEMMA FoldAgrees ==
  ASSUME AgreeInv, NEW v, NEW c \in Nat, Alike(walk, v, c), Len(v.out) \in Nat,
         \A i \in (c + 1)..Len(v.out) : v.out[i].kind = "Text",
         NEW sv, Len(sv) \in Nat, \A k \in 1..Len(sv) : Remains(stack, sv, k, c),
         Len(sv) =< Len(stack), Len(HeldAfter(walk, c)) = Len(sv),
         HeldBy(HeldAfter(walk, c), walk, stack, Len(sv)), NEW lv, lv = LinksIn(walk, c)
  PROVE  AgreeOK(v, sv, lv)
<1> DEFINE S == HeldAfter(walk, c)
           m == Len(v.out)
<1>1. /\ AgreeOK(walk, stack, linked) /\ StackOK(walk, stack) /\ Len(walk.out) \in Nat
      /\ c =< Len(walk.out) /\ c =< m
  BY Typed DEF AgreeInv, EndsInv, ParseInv, Alike
<1>2. HeldAfter(v, c) = S /\ LinksIn(v, c) = LinksIn(walk, c)
  <2>1. c \in 0..c
    OBVIOUS
  <2>. QED BY <1>1, <2>1, LeftAlike, LinksAlike
<1>3. HeldAfter(v, m) = S /\ LinksIn(v, m) = lv
  <2>1. m \in c..m
    BY <1>1
  <2>. QED BY <1>1, <1>2, <2>1, TextsLeave
<1>4. HeldBy(S, v, sv, Len(sv))
  <2> DEFINE n == Len(sv)
  <2>1. n \in Nat /\ n =< Len(stack) /\ HeldBy(S, walk, stack, n)
        /\ \A k \in 1..n : sv[k] = stack[k] /\ stack[k].count + 1 =< c
    <3>1. \A k \in 1..n : sv[k] = stack[k] /\ stack[k].count + 1 =< c
      <4>. SUFFICES ASSUME NEW k \in 1..n PROVE sv[k] = stack[k] /\ stack[k].count + 1 =< c
        OBVIOUS
      <4>1. Remains(stack, sv, k, c) /\ k \in 1..k
        OBVIOUS
      <4>. QED BY <4>1 DEF Remains
    <3>. QED BY <3>1
  <2>. HIDE DEF n, S
  <2>2. HeldBy(S, v, sv, n)
    BY <1>1, <2>1, HoldsKept
  <2>. QED BY <2>2 DEF n
<1>. HIDE DEF S
<1>5. Current(v, sv, HeldAfter(v, m))
  <2>1. Len(S) = Len(sv)
    BY DEF S
  <2>2. Current(v, sv, S)
    BY <1>4, <2>1 DEF Current
  <2>. QED BY <1>3, <2>2
<1>6. ASSUME NEW k \in 1..Len(sv)
      PROVE  Tracked(v, sv, k) /\ (sv[k].bound => Lexis[sv[k].group].bounded)
  <2>1. k \in 1..Len(stack) /\ sv[k] = stack[k] /\ Remains(stack, sv, k, c)
    BY DEF Remains
  <2>2. Tracked(walk, stack, k) /\ (stack[k].bound => Lexis[stack[k].group].bounded)
    BY <1>1, <2>1 DEF AgreeOK
  <2>3. Tracked(v, sv, k)
    BY <1>1, <2>1, <2>2, TrackedKept
  <2>. QED BY <2>1, <2>2, <2>3
<1>7. ASSUME NEW i \in 1..m
      PROVE  Obeys(HeldAfter(v, i - 1), NodeIn(v, i))
  <2>1. CASE i \in 1..c
    <3>1. Obeys(HeldAfter(walk, i - 1), NodeIn(walk, i))
      BY <1>1, <2>1 DEF AgreeOK
    <3>. QED BY <1>1, <2>1, <3>1, AnswersAlike
  <2>2. CASE i \in (c + 1)..m
    BY <1>1, <2>2, TextsLeave
  <2>. QED BY <1>1, <2>1, <2>2
<1>. QED BY <1>3, <1>5, <1>6, <1>7 DEF AgreeOK

LEMMA TextAgrees ==
  ASSUME NEW r, MidRead(r), TakeText(r)
  PROVE  AgreeOK(walk', stack', linked')
<1> DEFINE L == Len(walk.out)
           v == walk'
<1>1. v = Advance(walk, Len(r.mark)) /\ stack' = stack /\ linked' = linked /\ r.act = "text"
  BY DEF TakeText
<1>2. AgreeInv /\ EndsInv /\ Sound(walk) /\ AgreeOK(walk, stack, linked)
  BY DEF MidRead, AgreeInv, EndsInv, ParseInv
<1>3. /\ L \in Nat /\ Len(v.out) \in Nat /\ Alike(walk, v, L)
      /\ \A i \in (L + 1)..Len(v.out) : v.out[i].kind = "Text"
  <2>. HIDE DEF v
  <2>. QED BY <1>1, <1>2, AdvanceAlike
<1>4. Len(Unclosed) = Len(stack) /\ HeldBy(Unclosed, walk, stack, Len(stack)) /\ Len(stack) \in Nat
  <2>1. r.act # "close"
    BY <1>1
  <2>. QED BY <1>2, <2>1, NoneSpare, LeftTyped
<1>5. \A k \in 1..Len(stack) : Remains(stack, stack, k, L)
  BY <1>2, StackRemains
<1>6. Len(stack) =< Len(stack) /\ Len(HeldAfter(walk, L)) = Len(stack)
      /\ HeldBy(HeldAfter(walk, L), walk, stack, Len(stack)) /\ linked = LinksIn(walk, L)
  BY <1>2, <1>4 DEF AgreeOK, Unclosed
<1>. HIDE DEF v, L
<1>7. AgreeOK(v, stack, linked)
  BY <1>2, <1>3, <1>4, <1>5, <1>6, FoldAgrees
<1>. QED BY <1>1, <1>7 DEF v

LEMMA DemoteAgrees ==
  ASSUME AgreeInv, NEW r, stack # <<>>, Demote(r)
  PROVE  AgreeOK(walk', stack', linked')
<1> DEFINE f == stack[Len(stack)]
           c == f.count
           q == Len(stack)
           u == Rewind(walk, c, f.pos)
           v == walk'
           sv == stack'
           lv == linked'
<1>1. /\ v = Advance(u, Len(f.opened)) /\ sv = SQE!Front(stack)
      /\ lv = {l \in linked : l[2] =< c}
  BY DEF Demote, Folded, Frame, SQE!Last
<1>2. /\ Sound(walk) /\ AgreeOK(walk, stack, linked) /\ StackOK(walk, stack)
      /\ source \in Seq(Byte) /\ stack \in Seq(FrameSet)
  BY DEF AgreeInv, EndsInv, ParseInv, StackOK
<1>3. q \in Nat /\ q \in 1..q
  BY <1>2
<1>4. c \in Nat /\ c < Len(walk.out) /\ walk.out[c + 1].at = f.pos /\ Len(walk.out) \in Nat
  BY <1>2, <1>3, FrameTyped, Typed DEF FrameIn
<1>6. CutAt(walk, u, c)
  BY <1>2, <1>4, RewindCuts
<1>. HIDE DEF v, sv, lv, u
<1>7. Sound(u) /\ Len(u.out) = c /\ \A i \in 1..c : u.out[i] = walk.out[i]
  BY <1>6 DEF CutAt
<1>8. /\ Len(v.out) \in Nat /\ Alike(u, v, c)
      /\ \A i \in (c + 1)..Len(v.out) : v.out[i].kind = "Text"
  BY <1>1, <1>7, AdvanceAlike
<1>9. Alike(walk, v, c)
  <2>1. ASSUME NEW i \in 1..c
        PROVE  /\ v.out[i].kind = walk.out[i].kind
               /\ walk.out[i].kind # "Text" => v.out[i] = walk.out[i]
    <3>1. u.out[i] = walk.out[i]
      BY <1>7
    <3>2. v.out[i].kind = u.out[i].kind /\ (u.out[i].kind # "Text" => v.out[i] = u.out[i])
      BY <1>8 DEF Alike
    <3>. QED BY <3>1, <3>2
  <2>2. c =< Len(v.out) /\ c =< Len(walk.out)
    BY <1>4, <1>8 DEF Alike
  <2>. QED BY <1>4, <2>1, <2>2 DEF Alike
<1>10. \A k \in 1..Len(sv) : Remains(stack, sv, k, c)
  <2>1. c =< c /\ stack[Len(stack)].count = c
    BY <1>4
  <2>. HIDE DEF c
  <2>. QED BY <1>1, <1>2, <1>4, <2>1, PopRemains
<1>11. Len(sv) = q - 1 /\ q - 1 \in Nat /\ q - 1 =< q
  <2>1. Popped(sv, stack, q)
    BY <1>1, <1>2, FrontIs
  <2>. QED BY <1>3, <2>1 DEF Popped
<1>12. Tracked(walk, stack, q)
  BY <1>2, <1>3 DEF AgreeOK
<1>13. Len(HeldAfter(walk, c)) = Len(sv) /\ HeldBy(HeldAfter(walk, c), walk, stack, Len(sv))
  BY <1>11, <1>12 DEF Tracked
<1>14. lv = LinksIn(walk, c)
  <2> DEFINE n == Len(walk.out)
  <2>1. n \in Nat /\ c =< n /\ linked = LinksIn(walk, n)
    BY <1>2, <1>4 DEF AgreeOK
  <2>. HIDE DEF n, c
  <2>2. {l \in LinksIn(walk, n) : l[2] =< c} = LinksIn(walk, c)
    BY <1>4, <2>1, LinksCut
  <2>. QED BY <1>1, <2>1, <2>2
<1>15. Len(sv) \in Nat /\ Len(sv) =< Len(stack)
  BY <1>11
<1>. HIDE DEF c, f, q
<1>16. AgreeOK(v, sv, lv)
  BY <1>4, <1>8, <1>9, <1>10, <1>13, <1>14, <1>15, FoldAgrees
<1>. QED BY <1>16 DEF v, sv, lv

\* A group that is left open waits, with the others of its kind, for the closer
\* of the one that cut it off.
LEMMA LeaveAgrees ==
  ASSUME TableTells, AgreeInv, NEW r, Tells(r), LeaveOpen(r)
  PROVE  AgreeOK(walk', stack', linked')
<1> DEFINE L == Len(walk.out)
           q == Len(stack)
           sv == stack'
           S == Unclosed
<1>1. /\ walk' = walk /\ sv = SQE!Front(stack) /\ linked' = linked
      /\ ~Brackets[Frame.group].demotes /\ r.act = "end"
  BY DEF LeaveOpen, Ending
<1>2. /\ EndsInv /\ AgreeOK(walk, stack, linked) /\ StackOK(walk, stack) /\ L \in Nat
      /\ source \in Seq(Byte) /\ stack \in Seq(FrameSet) /\ Current(walk, stack, S)
      /\ walk.pos \in Nat /\ stack # <<>>
  BY <1>1, Typed DEF AgreeInv, AgreeOK, EndsInv, ParseInv, StackOK, Unclosed, Tells
<1>3. q \in Nat /\ q \in 1..q /\ Frame = stack[q] /\ q =< q
  BY <1>2 DEF Frame, SQE!Last
<1>. HIDE DEF sv
<1>4. Len(sv) = q - 1 /\ \A k \in 1..(q - 1) : sv[k] = stack[k]
  <2>1. Popped(sv, stack, q)
    BY <1>1, <1>2, FrontIs
  <2>. QED BY <1>3, <2>1 DEF Popped
<1>5. \A k \in 1..Len(sv) : Remains(stack, sv, k, L)
  <2>1. stack[Len(stack)].count =< L
    <3>1. stack[q].count \in Nat /\ FrameIn(walk, stack[q])
      BY <1>2, <1>3, FrameTyped
    <3>. QED BY <1>2, <3>1 DEF FrameIn
  <2>. HIDE DEF L
  <2>. QED BY <1>1, <1>2, <2>1, PopRemains
<1>6. Alike(walk, walk, L)
  BY <1>2 DEF Alike
<1>7. HeldBy(S, walk, stack, q) /\ q =< Len(S) /\ Len(S) \in Nat
  BY <1>2, LeftTyped DEF Current
<1>8. HeldBy(S, walk, sv, Len(sv))
  BY <1>3, <1>4, <1>7 DEF HeldBy
<1>9. ASSUME walk.pos < Len(source)
      PROVE  /\ \E j \in 1..Len(sv) : Awaits(sv, walk.pos, j)
             /\ \A k \in (Len(sv) + 1)..Len(S) : Spare(S[k], walk.pos)
  <2>1. Frame.group \in Slots /\ Frame.opened \in Brackets[Frame.group].open
        /\ S[q].text = Frame.opened /\ GroupOf(S[q].text) = Frame.group
    <3>. HIDE DEF S, q
    <3>1. stack[q].group \in Slots /\ stack[q].opened \in Brackets[stack[q].group].open
      BY <1>2, <1>3, FrameSays DEF q
    <3>2. S[q].text = stack[q].opened /\ GroupOf(S[q].text) = stack[q].group
      BY <1>2, <1>3, <1>7, OpenerSays DEF q
    <3>. QED BY <1>3, <3>1, <3>2
  <2>2. ~Frame.bound
    <3>1. Frame.bound => Lexis[Frame.group].bounded
      BY <1>2, <1>3 DEF AgreeOK
    <3>2. Lexis[Frame.group].bounded => Brackets[Frame.group].demotes
      BY <2>1, LexisAssumption
    <3>. QED BY <1>1, <3>1, <3>2
  <2>3. CutOff(Frame)
    <3>1. ~(walk.pos >= Len(source))
      <4>1. Len(source) \in Nat
        BY <1>2
      <4>. QED BY <1>2, <1>9, <4>1
    <3>. QED BY <1>1, <2>2, <3>1 DEF Tells
  <2>4. PICK j \in 1..(q - 1) :
          /\ CloserOf(stack[j].group, stack[j].opened, walk.pos) # NoMark
          /\ \A k \in (j + 1)..(q - 1) : ~Brackets[stack[k].group].restricted
    BY <2>3 DEF CutOff, EnclosingEnds
  <2>5. Awaits(sv, walk.pos, j)
    <3>1. j \in 1..Len(sv) /\ sv[j] = stack[j]
          /\ \A k \in (j + 1)..Len(sv) : k \in (j + 1)..(q - 1) /\ sv[k] = stack[k]
      BY <1>3, <1>4
    <3>2. \A g \in Slots : Brackets[g].anywhere => OpenerOf(g, walk.pos) = NoMark
      BY <2>3 DEF CutOff, ParentAllowed
    <3>. QED BY <2>4, <3>1, <3>2 DEF Awaits
  <2>6. Spare(S[q], walk.pos)
    BY <2>1, <2>3 DEF Spare, CutOff, FrameCloses
  <2>7. ASSUME NEW k \in (q + 1)..Len(S)
        PROVE  Spare(S[k], walk.pos)
    <3>1. q < Len(S)
      BY <1>3, <1>7
    <3>. QED BY <1>2, <1>9, <3>1 DEF Current
  <2>8. \A k \in (Len(sv) + 1)..Len(S) : k = q \/ k \in (q + 1)..Len(S)
    <3>1. Len(sv) + 1 = q
      BY <1>3, <1>4
    <3>. HIDE DEF S, q
    <3>. QED BY <1>3, <1>7, <3>1
  <2>9. j \in 1..Len(sv)
    BY <2>5 DEF Awaits
  <2>. QED BY <2>5, <2>6, <2>7, <2>8, <2>9
<1>10. Current(walk, sv, S)
  <2>1. Len(sv) =< Len(S)
    BY <1>3, <1>4, <1>7
  <2>. QED BY <1>8, <1>9, <2>1 DEF Current
<1>11. ASSUME NEW k \in 1..Len(sv)
       PROVE  Tracked(walk, sv, k) /\ (sv[k].bound => Lexis[sv[k].group].bounded)
  <2>1. k \in 1..Len(stack) /\ sv[k] = stack[k] /\ Remains(stack, sv, k, L)
    BY <1>5 DEF Remains
  <2>2. Tracked(walk, stack, k) /\ (stack[k].bound => Lexis[stack[k].group].bounded)
    BY <1>2, <2>1 DEF AgreeOK
  <2>3. Tracked(walk, sv, k)
    <3>1. Len(walk.out) \in Nat
      BY <1>2
    <3>. HIDE DEF L
    <3>. QED BY <1>2, <1>6, <2>1, <2>2, <3>1, TrackedKept
  <2>. QED BY <2>1, <2>2, <2>3
<1>12. AgreeOK(walk, sv, linked)
  BY <1>2, <1>10, <1>11 DEF AgreeOK, Unclosed
<1>. QED BY <1>1, <1>12 DEF sv

\* The matching of a marker depends on the source alone, and that stays.
LEMMA CloserSame ==
  ASSUME source' = source
  PROVE  /\ \A g, o, pos : CloserOf(g, o, pos)' = CloserOf(g, o, pos)
         /\ \A g, pos : OpenerOf(g, pos)' = OpenerOf(g, pos)
<1>1. \A m, pos : Occurs(m, pos)' <=> Occurs(m, pos)
  BY DEF Occurs, Slice
<1>2. \A m, pos : Stands(m, pos)' <=> Stands(m, pos)
  BY <1>1 DEF Stands, Bounded, IsWord
<1>3. \A marks, pos : Literal(marks, pos)' = Literal(marks, pos)
  <2>. SUFFICES ASSUME NEW marks, NEW pos PROVE Literal(marks, pos)' = Literal(marks, pos)
    OBVIOUS
  <2>1. {m \in marks : Stands(m, pos)}' = {m \in marks : Stands(m, pos)}
    BY <1>2
  <2>. QED BY <2>1 DEF Literal
<1>4. \A marks, pos : Pattern(marks, pos)' = Pattern(marks, pos)
  <2>. SUFFICES ASSUME NEW marks, NEW pos PROVE Pattern(marks, pos)' = Pattern(marks, pos)
    OBVIOUS
  <2>1. {m \in marks : Occurs(m, pos)}' = {m \in marks : Occurs(m, pos)}
    BY <1>1
  <2>. QED BY <1>2, <2>1 DEF Pattern
<1>5. \A g, pos : BeforeOK(g, pos)' = BeforeOK(g, pos) /\ AfterOK(g, pos)' = AfterOK(g, pos)
  BY DEF BeforeOK, AfterOK
<1>6. ASSUME NEW g, NEW o, NEW pos
      PROVE  CloserOf(g, o, pos)' = CloserOf(g, o, pos)
  BY <1>2, <1>4, <1>5 DEF CloserOf
<1>7. ASSUME NEW g, NEW pos
      PROVE  OpenerOf(g, pos)' = OpenerOf(g, pos)
  BY <1>3, <1>4, <1>5 DEF OpenerOf
<1>. QED BY <1>6, <1>7

LEMMA AgreePrimed ==
  ASSUME EndsInv', AgreeOK(walk', stack', linked'), source' = source
  PROVE  AgreeInv'
<1>1. /\ \A g, o, pos : CloserOf(g, o, pos)' = CloserOf(g, o, pos)
      /\ \A g, pos : OpenerOf(g, pos)' = OpenerOf(g, pos)
  BY CloserSame
<1>2. \A st, pos, j : Awaits(st, pos, j)' <=> Awaits(st, pos, j)
  BY <1>1 DEF Awaits
<1>3. \A n, pos : Spare(n, pos)' <=> Spare(n, pos)
  BY <1>1 DEF Spare
<1>4. \A w, st, S : Current(w, st, S)' <=> Current(w, st, S)
  BY <1>2, <1>3 DEF Current
<1>. QED BY <1>4 DEF AgreeInv, AgreeOK
\* Every step of the bracket parser keeps it.
LEMMA AgreeStep ==
  ASSUME TableTells, AgreeInv, Next
  PROVE  AgreeInv'
<1>1. PICK r : r = Read /\ (\/ OpenGroup(r) \/ CloseGroup(r) \/ RejectRun(r) \/ Separate(r)
                            \/ StrayCloser(r) \/ TakeText(r) \/ LeaveOpen(r) \/ Demote(r))
  BY DEF Next
<1>2. r # Nothing /\ source' = source
  BY <1>1 DEF OpenGroup, CloseGroup, RejectRun, Separate, StrayCloser, TakeText,
              LeaveOpen, Demote, Nothing, Ending
<1>3. EndsInv /\ ParseInv
  BY DEF AgreeInv, EndsInv
<1>4. EndsInv'
  <2>1. DemotersTell
    BY DEF TableTells, DemotersTell
  <2>. QED BY <1>3, <2>1, EndsStep
<1>5. Apt(r) /\ Tells(r)
  <2>1. walk.pos \in Nat /\ walk.pos =< Len(source) /\ source \in Seq(Byte)
    BY <1>3, Typed DEF ParseInv, Sound, Tiled
  <2>2. CanRead /\ stack \in Seq(FrameSet)
    BY <1>3, <2>1, LexisAssumption, TableAssumption DEF CanRead, ParseInv, StackOK
  <2>. QED BY <1>1, <1>2, <2>2, ReadApt, ReadTells
<1>6. CASE Marked(r)
  <2>1. MidRead(r)
    BY <1>1, <1>5, <1>6 DEF MidRead
  <2>2. ~LeaveOpen(r) /\ ~Demote(r)
    BY <1>6 DEF LeaveOpen, Demote, Marked, Ending
  <2>3. AgreeOK(walk', stack', linked')
    BY <1>1, <2>1, <2>2, OpenAgrees, EndAgrees, StayAgrees, TextAgrees
  <2>. QED BY <1>2, <1>4, <2>3, AgreePrimed
<1>7. CASE r = Ending /\ stack # <<>>
  <2>1. r.act = "end"
    BY <1>7 DEF Ending
  <2>2. LeaveOpen(r) \/ Demote(r)
    BY <1>1, <2>1 DEF OpenGroup, CloseGroup, RejectRun, Separate, StrayCloser, TakeText
  <2>3. AgreeOK(walk', stack', linked')
    BY <1>5, <1>7, <2>2, LeaveAgrees, DemoteAgrees
  <2>. QED BY <1>2, <1>4, <2>3, AgreePrimed
<1>. QED BY <1>1, <1>2, <1>3, <1>6, <1>7, ReadWhere

LEMMA AgreeBegins ==
  ASSUME Init
  PROVE  AgreeInv
<1>1. walk.out = <<>> /\ stack = <<>> /\ linked = {} /\ Len(walk.out) = 0
  BY DEF Init, NewWalk
<1>2. HeldAfter(walk, 0) = <<>> /\ LinksIn(walk, 0) = {}
  BY <1>1, LeftTurns DEF LinksIn
<1>3. Current(walk, stack, HeldAfter(walk, Len(walk.out)))
  BY <1>1, <1>2 DEF Current, HeldBy
<1>4. AgreeOK(walk, stack, linked)
  BY <1>1, <1>2, <1>3 DEF AgreeOK
<1>. QED BY <1>4, EndsBegin DEF AgreeInv

LEMMA AgreeStays ==
  ASSUME AgreeInv, UNCHANGED vars
  PROVE  AgreeInv'
<1>1. walk' = walk /\ stack' = stack /\ linked' = linked /\ source' = source
  BY DEF vars
<1>2. AgreeOK(walk', stack', linked')
  BY <1>1 DEF AgreeInv
<1>. QED BY <1>1, <1>2, EndsStay, AgreePrimed DEF AgreeInv

\* The links derived of the nodes are those the parse made.
LEMMA LinksAgree ==
  ASSUME AgreeInv
  PROVE  DerivationAgrees
<1>1. AgreeOK(walk, stack, linked) /\ Len(walk.out) \in Nat
  BY Typed DEF AgreeInv, EndsInv, ParseInv
<1>2. ParsedShape = NodesOf(walk)
  BY DEF ParsedShape, NodesOf, NodeIn, Places
<1>3. \A i \in 1..Len(walk.out) : Derive(NodesOf(walk))[i].opener = AnswerAt(walk, i)
  BY <1>1, DerivedIs DEF AnswerAt
<1> DEFINE info == Derive(NodesOf(walk))
<1>4. \A i \in Places : info[i].opener = AnswerAt(walk, i)
  BY <1>3 DEF Places
<1>. HIDE DEF info
<1>5. {<<info[i].opener, i>> : i \in {k \in Places : info[k].opener # None}} = LinksIn(walk, Len(walk.out))
  <2>1. {k \in Places : info[k].opener # None} = {k \in Places : AnswerAt(walk, k) # None}
    BY <1>4
  <2>. QED BY <1>4, <2>1 DEF LinksIn, Places
<1>6. linked = LinksIn(walk, Len(walk.out))
  BY <1>1 DEF AgreeOK
<1>. QED BY <1>2, <1>5, <1>6 DEF DerivationAgrees, Derived, info

\* What they say each node stands in is what let it be read there.
LEMMA TableKept ==
  ASSUME AgreeInv
  PROVE  TableIsObeyed
<1>1. AgreeOK(walk, stack, linked) /\ Len(walk.out) \in Nat
  BY Typed DEF AgreeInv, EndsInv, ParseInv
<1>2. ParsedShape = NodesOf(walk)
  BY DEF ParsedShape, NodesOf, NodeIn, Places
<1>. SUFFICES ASSUME NEW info, info = Derived, NEW i \in Places,
                     walk.out[i].kind \in {"Opener", "Separator"}, NEW outer, outer = info[i].enclosing
              PROVE  MayStand(i, IF outer = None THEN NoGroup ELSE GroupAt(outer))
  BY DEF TableIsObeyed
<1> DEFINE S == HeldAfter(walk, i - 1)
           n == NodeIn(walk, i)
<1>3. i \in 1..Len(walk.out) /\ i - 1 \in 0..Len(walk.out)
  BY <1>1 DEF Places
<1>4. outer = Around(S, n)
  BY <1>1, <1>2, <1>3, DerivedIs DEF Derived
<1>5. n.kind = walk.out[i].kind /\ n.kind # "Closer" /\ GroupOf(n.text) = GroupAt(i)
  BY DEF NodeIn, GroupAt
<1>6. Obeys(S, n)
  BY <1>1, <1>3 DEF AgreeOK
<1>7. S \in Seq({NodeIn(walk, k) : k \in 1..(i - 1)})
  BY <1>1, <1>3, LeftTurns
<1>. HIDE DEF S, n
<1>8. CASE S = <<>>
  <2>1. outer = None /\ Inside(S) = NoGroup
    BY <1>4, <1>8 DEF Around, Inside
  <2>. QED BY <1>5, <1>6, <2>1 DEF Obeys, MayStand
<1>9. CASE S # <<>>
  <2>1. PICK k \in 1..(i - 1) : SQE!Last(S) = NodeIn(walk, k)
    <3> DEFINE Z == {NodeIn(walk, k) : k \in 1..(i - 1)}
    <3>1. S \in Seq(Z)
      BY <1>7
    <3>. HIDE DEF Z
    <3>2. SQE!Last(S) \in Z
      BY <1>9, <3>1 DEF SQE!Last
    <3>. QED BY <3>2 DEF Z
  <2>2. k # None
    BY DEF None
  <2>3. outer = k /\ Inside(S) = GroupAt(k)
    BY <1>4, <1>5, <1>9, <2>1 DEF Around, Inside, NodeIn, GroupAt
  <2>. QED BY <1>5, <1>6, <2>2, <2>3 DEF Obeys, MayStand, OpensInside
<1>. QED BY <1>8, <1>9

\* In a table that tells, the links a walk of the finished array derives from its
\* texts alone (rebuild, context.go) are the pairs the parse made as it went, with
\* the position before it and its frames (bracket_parser.go), whatever was read
\* again after a demotion.
THEOREM ParseAgrees == TableTells => (Spec => []DerivationAgrees)
<1>. SUFFICES ASSUME TableTells PROVE Spec => []DerivationAgrees
  OBVIOUS
<1>1. Init => AgreeInv
  BY AgreeBegins
<1>2. AgreeInv /\ [Next]_vars => AgreeInv'
  BY AgreeStep, AgreeStays
<1>3. AgreeInv => DerivationAgrees
  BY LinksAgree
<1>. QED BY <1>1, <1>2, <1>3, PTL DEF Spec

\* So what a marker stands in by the derived links is what the table lets it be
\* read in: no marker but a hatch's opener in a restricted group, no group
\* outside its allowed parents (matchOpen, matchInner).
THEOREM TableObeyed == TableTells => (Spec => []TableIsObeyed)
<1>. SUFFICES ASSUME TableTells PROVE Spec => []TableIsObeyed
  OBVIOUS
<1>1. Init => AgreeInv
  BY AgreeBegins
<1>2. AgreeInv /\ [Next]_vars => AgreeInv'
  BY AgreeStep, AgreeStays
<1>3. AgreeInv => TableIsObeyed
  BY TableKept
<1>. QED BY <1>1, <1>2, <1>3, PTL DEF Spec
============================================================================
