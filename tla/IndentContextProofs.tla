------------------------ MODULE IndentContextProofs ------------------------
(* The indent context's theorems, for every tab width, document and bound:   *)
(* the links it answers are those of the array as it stands.                 *)
EXTENDS IndentContext, DocProofs

\* The stamp never runs ahead of the document.
FrameStamp ==
  /\ built \in BOOLEAN /\ rewritten \in BOOLEAN
  /\ stamp \in Nat /\ stamp =< generation

\* A current stamp stands for the array as it is, until an edit marks it dirty.
FramesCurrent ==
  (built /\ stamp = generation /\ ~dirty /\ ~rewritten) => LinkedUpTo(Array, Len(Array), info)

FInv == IInv /\ FrameStamp /\ FramesCurrent

(* The array is one the walk is right about: its nodes are told apart and    *)
(* its texts have columns.                                                   *)
LEMMA ArrayTold ==
  ASSUME IInv
  PROVE  /\ Told(Array) /\ Len(Array) = Len(dom) /\ Len(dom) \in Nat
         /\ \A i \in 1..Len(dom) :
              /\ dom[i] \in Held
              /\ Array[i].id = dom[i] /\ Array[i].kind = heap[dom[i]].kind
              /\ Array[i].text = heap[dom[i]].text
<1>1. /\ heap \in Seq(Nodes) /\ dom \in Seq(Held) /\ Distinct(dom)
      /\ Len(dom) \in Nat /\ Len(heap) \in Nat
  BY DEF IInv, TypeOK
<1>2. Len(Array) = Len(dom)
  BY <1>1 DEF Array
<1>3. \A i \in 1..Len(dom) :
        /\ dom[i] \in Held
        /\ Array[i].id = dom[i] /\ Array[i].kind = heap[dom[i]].kind
        /\ Array[i].text = heap[dom[i]].text
  BY <1>1 DEF Array
<1>4. \A i \in 1..Len(dom) : dom[i] # NoFrame
  BY <1>1, <1>3 DEF Held, NoFrame
<1>5. ASSUME NEW i \in 1..Len(dom)
      PROVE  Column(Array[i].text) \in Nat
  <2>1. heap[dom[i]].text \in Seq(Byte)
    <3>1. heap[dom[i]] \in Nodes
      BY <1>1, <1>3 DEF Held
    <3>. QED BY <3>1 DEF Nodes
  <2>2. Column(heap[dom[i]].text) \in Nat
    BY <2>1, ColumnTyped
  <2>. QED BY <1>3, <2>2
<1>6. Told(Array)
  <2>. HIDE DEF Array
  <2>. QED BY <1>1, <1>2, <1>3, <1>4, <1>5 DEF Told, Distinct
<1>. QED BY <1>1, <1>2, <1>3, <1>6

(* The document moves under the context, which is not told.                  *)
LEMMA FrameDocStep ==
  ASSUME OneParse, FInv, DocStep
  PROVE  FInv'
<1>1. IInv /\ Next /\ IInv' /\ UNCHANGED <<info, built, stamp>>
  BY NextKeeps DEF FInv, DocStep
<1>2. /\ rewritten' \in BOOLEAN
      /\ ~rewritten' =>
           ~rewritten /\ \A n \in Held : heap[n].kind = "Indent" => heap'[n].text = heap[n].text
  BY DEF DocStep, FInv, FrameStamp
<1>3. generation \in Nat /\ dirty \in BOOLEAN /\ dirty' \in BOOLEAN
  BY <1>1 DEF IInv, TypeOK
<1>4. generation' = generation \/ (dirty /\ generation' = generation + 1)
  BY <1>1, DocStepShape
<1>5. FrameStamp'
  BY <1>1, <1>2, <1>3, <1>4 DEF FInv, FrameStamp
<1>6. FramesCurrent'
  <2>. SUFFICES ASSUME built', stamp' = generation', ~dirty', ~rewritten'
                PROVE  LinkedUpTo(Array', Len(Array'), info')
    BY DEF FramesCurrent
  <2>1. generation' = generation
    BY <1>1, <1>3, <1>4 DEF FInv, FrameStamp
  <2>2. /\ dom' = dom /\ ~dirty /\ Held' = Held
        /\ \A n \in Held : heap'[n].kind = heap[n].kind
        /\ \A n \in Held : heap[n].kind = "Indent" => heap'[n].text = heap[n].text
    BY <1>1, <1>2, <2>1, DocStepShape
  <2>3. LinkedUpTo(Array, Len(Array), info)
    BY <1>1, <1>2, <2>1, <2>2 DEF FInv, FramesCurrent
  <2>4. Told(Array) /\ Len(Array) = Len(dom)
        /\ \A i \in 1..Len(dom) :
             /\ dom[i] \in Held
             /\ Array[i].id = dom[i] /\ Array[i].kind = heap[dom[i]].kind
             /\ Array[i].text = heap[dom[i]].text
    BY <1>1, ArrayTold
  <2>5. Len(Array') = Len(dom)
        /\ \A i \in 1..Len(dom) :
             /\ Array'[i].id = dom[i] /\ Array'[i].kind = heap'[dom[i]].kind
             /\ Array'[i].text = heap'[dom[i]].text
    BY <2>2, <2>4 DEF Array
  <2>. HIDE DEF Array
  <2>6. Reframed(Array, Array')
    BY <2>2, <2>4, <2>5 DEF Reframed, FramePlaces
  <2>7. LinkedUpTo(Array', Len(Array'), info)
    BY <2>3, <2>4, <2>6, SameLinks
  <2>. QED BY <1>1, <2>7
<1>. QED BY <1>1, <1>5, <1>6 DEF FInv

(* Consulting the links derives them from the array, or finds them current.  *)
LEMMA FrameConsult ==
  ASSUME OneParse, FInv, ConsultFrames
  PROVE  FInv'
<1>1. /\ UNCHANGED docVars /\ built \in BOOLEAN /\ rewritten \in BOOLEAN
      /\ generation \in Nat /\ stamp \in Nat /\ stamp =< generation
  BY DEF ConsultFrames, FInv, FrameStamp, IInv, TypeOK
<1>2. /\ UNCHANGED vars /\ Array' = Array /\ generation' = generation /\ dirty' = dirty
  BY <1>1 DEF docVars, vars, array, indices, window, Array
<1>3. IInv'
  BY <1>2, NextKeeps DEF FInv
<1>4. CASE Stale
  <2>1. info' = WalkFrames(Array).info /\ stamp' = generation /\ built' = TRUE /\ rewritten' = FALSE
    BY <1>4 DEF ConsultFrames
  <2>2. LinkedUpTo(Array, Len(Array), info')
    <3>1. Told(Array)
      BY ArrayTold DEF FInv
    <3>. HIDE DEF Array
    <3>. QED BY <2>1, <3>1, WalkLinks
  <2>. HIDE DEF Array
  <2>3. FramesCurrent'
    BY <1>2, <2>2 DEF FramesCurrent
  <2>4. FrameStamp'
    <3>1. built' \in BOOLEAN /\ rewritten' \in BOOLEAN
      BY <2>1, Zenon
    <3>2. stamp' \in Nat /\ stamp' =< generation'
      BY <1>1, <1>2, <2>1
    <3>. QED BY <3>1, <3>2 DEF FrameStamp
  <2>. QED BY <1>3, <2>3, <2>4 DEF FInv
<1>5. CASE ~Stale
  <2>1. UNCHANGED <<info, built, stamp, rewritten>>
    BY <1>5 DEF ConsultFrames, ctxVars
  <2>. HIDE DEF Array
  <2>2. FramesCurrent' /\ FrameStamp'
    BY <1>2, <2>1 DEF FInv, FramesCurrent, FrameStamp
  <2>. QED BY <1>3, <2>2 DEF FInv
<1>. QED BY <1>4, <1>5

(* The context's invariant holds of every run.                               *)
THEOREM FrameInvariance == OneParse => (FrameSpec => []FInv)
<1>. SUFFICES ASSUME OneParse PROVE FrameSpec => []FInv
  OBVIOUS
<1>1. ASSUME FrameInit
      PROVE  FInv
  <2>1. IInv /\ generation = 0
    BY <1>1, InitInvariant DEF FrameInit, Init
  <2>2. built = FALSE /\ stamp = 0 /\ rewritten = FALSE
    BY <1>1 DEF FrameInit
  <2>3. FrameStamp
    <3>1. built \in BOOLEAN /\ rewritten \in BOOLEAN
      BY <2>2, Zenon
    <3>2. stamp \in Nat /\ stamp =< generation
      BY <2>1, <2>2
    <3>. QED BY <3>1, <3>2 DEF FrameStamp
  <2>4. FramesCurrent
    BY <2>2 DEF FramesCurrent
  <2>. QED BY <2>1, <2>3, <2>4 DEF FInv
<1>2. ASSUME FInv, [FrameNext]_<<docVars, ctxVars>>
      PROVE  FInv'
  <2>1. CASE UNCHANGED <<docVars, ctxVars>>
    <3>1. UNCHANGED vars /\ Array' = Array /\ generation' = generation /\ dirty' = dirty
          /\ UNCHANGED <<info, built, stamp, rewritten>>
      BY <2>1 DEF docVars, vars, array, indices, window, Array, ctxVars
    <3>2. IInv'
      BY <1>2, <3>1, NextKeeps DEF FInv
    <3>. HIDE DEF Array
    <3>3. FramesCurrent' /\ FrameStamp'
      BY <1>2, <3>1 DEF FInv, FramesCurrent, FrameStamp
    <3>. QED BY <3>2, <3>3 DEF FInv
  <2>. QED BY <1>2, <2>1, FrameDocStep, FrameConsult DEF FrameNext
<1>3. FInv /\ [FrameNext]_<<docVars, ctxVars>> => FInv'
  BY <1>2
<1>. QED BY <1>1, <1>3, PTL DEF FrameSpec

---------------------------------------------------------------------------
(* Its answers.                                                              *)

(* While the context answers, what it answers are the links of the array.    *)
LEMMA AnswersAreLinks ==
  ASSUME FInv, Answering
  PROVE  LinkedUpTo(Array, Len(Array), info) /\ nodeIndex = IndexMap(dom)
<1>1. built /\ stamp = generation /\ ~rewritten /\ ~mutating /\ ~poisoned
  BY DEF Answering, Stale, Refuses
<1>2. ~dirty /\ nodeIndex = IndexMap(dom)
  BY <1>1 DEF FInv, IInv, IndexInv
<1>. HIDE DEF Array
<1>. QED BY <1>1, <1>2 DEF FInv, FramesCurrent

(* The frame that encloses another is the nearest of a smaller column.       *)
LEMMA EnclosingIsNearest ==
  ASSUME NEW nodes, Told(nodes), NEW i \in FramePlaces(nodes), NEW parent,
         ParentAt(nodes, i, parent)
  PROVE  parent = Nearest(nodes, i)
<1> DEFINE before == {j \in FramePlaces(nodes) : j < i}
           smaller == {j \in before : Column(nodes[j].text) < Column(nodes[i].text)}
<1>1. i \in Nat /\ before = UpTo(nodes, i - 1) /\ \A j \in before : j \in Nat
  BY DEF Told, FramePlaces, UpTo
<1>2. Nearest(nodes, i) = IF before = {} THEN NoFrame
                          ELSE nodes[IF smaller = {} THEN FE!Min(before) ELSE FE!Max(smaller)].id
  BY DEF Nearest
<1>3. CASE before = {}
  BY <1>1, <1>2, <1>3 DEF ParentAt
<1>4. CASE before # {}
  <2>1. PICK j : Encloses(nodes, j, i) /\ parent = nodes[j].id
    BY <1>1, <1>4 DEF ParentAt
  <2>2. CASE smaller # {}
    <3>1. j \in smaller /\ \A l \in smaller : l =< j
      BY <1>1, <2>1, <2>2 DEF Encloses, ColAt
    <3>2. FE!Max(smaller) = j
      <4>1. \A l \in smaller : l \in Nat
        BY <1>1
      <4>. HIDE DEF smaller
      <4>. QED BY <3>1, <4>1 DEF FE!Max
    <3>. QED BY <1>2, <1>4, <2>1, <2>2, <3>2
  <2>3. CASE smaller = {}
    <3>1. j \in before /\ \A l \in before : j =< l
      BY <1>1, <2>1, <2>3 DEF Encloses, ColAt
    <3>2. FE!Min(before) = j
      <4>. HIDE DEF before
      <4>. QED BY <1>1, <3>1 DEF FE!Min
    <3>. QED BY <1>2, <1>4, <2>1, <2>3, <3>2
  <2>. QED BY <2>2, <2>3
<1>. QED BY <1>3, <1>4

(* Parent answers the nearest enclosing column of the array as it stands,    *)
(* whatever edits removed, entered or reordered (indent.go:279-349).         *)
THEOREM ParentsNearest == OneParse => (FrameSpec => []ParentIsNearest)
<1>1. ASSUME FInv
      PROVE  ParentIsNearest
  <2>. SUFFICES ASSUME Answering
                PROVE  /\ DOMAIN info = Ids(Array)
                       /\ \A i \in FramePlaces(Array) :
                            info[Array[i].id].parent = Nearest(Array, i)
    BY DEF ParentIsNearest, Ids
  <2>1. LinkedUpTo(Array, Len(Array), info) /\ Told(Array)
    BY <1>1, AnswersAreLinks, ArrayTold DEF FInv
  <2>. HIDE DEF Array
  <2>2. DOMAIN info = Ids(Array)
    BY <2>1 DEF LinkedUpTo
  <2>3. ASSUME NEW i \in FramePlaces(Array)
        PROVE  info[Array[i].id].parent = Nearest(Array, i)
    <3>1. i \in UpTo(Array, Len(Array))
      BY <2>1 DEF Told, UpTo, FramePlaces
    <3>2. ParentAt(Array, i, info[Array[i].id].parent)
      BY <2>1, <3>1 DEF LinkedUpTo
    <3>. QED BY <2>1, <3>2, EnclosingIsNearest
  <2>. QED BY <2>2, <2>3
<1>. QED BY <1>1, FrameInvariance, PTL

(* Children lists the frames that answer a parent, each once and in the      *)
(* document's order (indent.go:279-349).                                     *)
THEOREM ChildrenListed == OneParse => (FrameSpec => []ChildrenAreListed)
<1>1. ASSUME FInv
      PROVE  ChildrenAreListed
  <2>. SUFFICES ASSUME Answering, NEW f \in DOMAIN info
                PROVE  LET listed == info[f].children
                       IN  /\ SE!ToSet(listed) = {n \in DOMAIN info : info[n].parent = f}
                           /\ \A a, b \in 1..Len(listed) :
                                a < b => nodeIndex[listed[a]] < nodeIndex[listed[b]]
    BY DEF ChildrenAreListed
  <2> DEFINE listed == info[f].children
  <2>1. LinkedUpTo(Array, Len(Array), info) /\ nodeIndex = IndexMap(dom)
    BY <1>1, AnswersAreLinks
  <2>2. /\ Told(Array) /\ Len(Array) = Len(dom) /\ Len(dom) \in Nat
        /\ \A i \in 1..Len(dom) : Array[i].id = dom[i]
    BY <1>1, ArrayTold DEF FInv
  <2>3. dom \in Seq(Held) /\ Distinct(dom)
    BY <1>1 DEF FInv, IInv, TypeOK
  <2>. HIDE DEF Array
  <2>4. /\ DOMAIN info = Ids(Array) /\ listed \in Seq(Ids(Array))
        /\ Lists(Array, info, f, listed)
    BY <2>1 DEF LinkedUpTo, FrameLinks
  <2>5. /\ \A a \in 1..Len(listed) : listed[a] \in Ids(Array) /\ info[listed[a]].parent = f
        /\ \A g \in Ids(Array) : info[g].parent = f => \E a \in 1..Len(listed) : listed[a] = g
        /\ \A a, b \in 1..Len(listed) : a < b =>
             \A i, j \in FramePlaces(Array) :
               (listed[a] = Array[i].id /\ listed[b] = Array[j].id) => i < j
    <3>. HIDE DEF listed
    <3>. QED BY <2>4 DEF Lists
  <2>. HIDE DEF listed
  <2>6. DOMAIN listed = 1..Len(listed)
    BY <2>4
  <2>7. SE!ToSet(listed) = {n \in DOMAIN info : info[n].parent = f}
    BY <2>4, <2>5, <2>6 DEF SE!ToSet
  <2>8. ASSUME NEW a \in 1..Len(listed), NEW b \in 1..Len(listed), a < b
        PROVE  nodeIndex[listed[a]] < nodeIndex[listed[b]]
    <3>1. PICK i \in FramePlaces(Array) : listed[a] = Array[i].id
      BY <2>5 DEF Ids
    <3>2. PICK j \in FramePlaces(Array) : listed[b] = Array[j].id
      BY <2>5 DEF Ids
    <3>3. i < j
      BY <2>5, <2>8, <3>1, <3>2
    <3>4. i \in 1..Len(dom) /\ j \in 1..Len(dom)
      BY <2>2 DEF FramePlaces
    <3>5. nodeIndex[dom[i]] = i - 1 /\ nodeIndex[dom[j]] = j - 1
      BY <2>1, <2>3, <3>4, IndexMapInverts
    <3>. QED BY <2>2, <3>1, <3>2, <3>3, <3>4, <3>5
  <2>. QED BY <2>7, <2>8 DEF listed
<1>. QED BY <1>1, FrameInvariance, PTL
============================================================================
