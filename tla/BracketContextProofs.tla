----------------------- MODULE BracketContextProofs -----------------------
(* The bracket context's theorems, for every table, document and bound.  The *)
(* derivation itself stays opaque: what is proved is when its answer may be  *)
(* kept.                                                                     *)
EXTENDS BracketContext, DocProofs


\* The stamps never run ahead of the document.
StampInv ==
  /\ built \in BOOLEAN /\ declSet \in BOOLEAN /\ rewritten \in BOOLEAN
  /\ stamp \in Nat /\ declStamp \in Nat
  /\ stamp =< generation /\ declStamp =< generation

\* A current stamp stands for the array as it is, until an edit marks it dirty.
LinkInv ==
  (built /\ stamp = generation /\ ~dirty /\ ~rewritten) => info = Derive(Shape)

\* While the declarations' stamp is current so is the links': no rebuild is
\* pending that would wipe them.
DeclInv ==
  (declSet /\ declStamp = generation) =>
    /\ declared = recorded
    /\ built /\ stamp = generation

\* The names recorded are still in the array, until an edit marks it dirty.
OwnInv ==
  (declSet /\ declStamp = generation /\ ~dirty) =>
    \A n \in DOMAIN recorded : recorded[n] \subseteq Members

CInv == IInv /\ StampInv /\ LinkInv /\ DeclInv /\ OwnInv

(* A step that leaves the document alone leaves what is read of it alone.    *)
LEMMA DocStill ==
  ASSUME UNCHANGED docVars
  PROVE  /\ UNCHANGED vars
         /\ Shape' = Shape
         /\ Members' = Members
         /\ generation' = generation /\ dirty' = dirty
BY DEF docVars, vars, array, indices, window, Shape, Seen, Members

(* A clean step that rewrites no marker leaves what the walk reads alone.    *)
LEMMA ShapeKept ==
  ASSUME IInv, dom' = dom, Held' = Held,
         \A n \in Held : heap'[n].kind = heap[n].kind,
         \A n \in Held : heap[n].kind \in Markers => heap'[n].text = heap[n].text
  PROVE  Shape' = Shape /\ Members' = Members
<1>1. \A i \in 1..Len(dom) : dom[i] \in Held
  BY MembersHeld
<1>2. \A i \in 1..Len(dom) : Seen(dom[i])' = Seen(dom[i])
  BY <1>1 DEF Seen
<1>3. Shape' = Shape
  BY <1>2, Zenon DEF Shape
<1>4. Members' = Members
  BY DEF Members
<1>. QED BY <1>3, <1>4

(* The context's invariant holds when it is attached.                        *)
LEMMA ContextInit == CtxInit => CInv
<1>. SUFFICES ASSUME CtxInit PROVE CInv
  OBVIOUS
<1>1. IInv /\ generation = 0
  BY InitInvariant DEF CtxInit, Init
<1>2. /\ built = FALSE /\ stamp = 0 /\ declSet = FALSE /\ declStamp = 0
      /\ rewritten = FALSE
  BY DEF CtxInit
<1>3. StampInv
  <2>1. built \in BOOLEAN /\ declSet \in BOOLEAN /\ rewritten \in BOOLEAN
    BY <1>2, Zenon
  <2>2. stamp \in Nat /\ declStamp \in Nat /\ stamp =< generation /\ declStamp =< generation
    BY <1>1, <1>2
  <2>. QED BY <1>1, <1>2, <2>1, <2>2 DEF StampInv
<1>4. LinkInv /\ DeclInv /\ OwnInv
  BY <1>2 DEF LinkInv, DeclInv, OwnInv
<1>. QED BY <1>1, <1>3, <1>4 DEF CInv

(* The document moves under the context, which is not told.                  *)
LEMMA DocStepKeeps ==
  ASSUME OneParse, CInv, DocStep
  PROVE  CInv'
<1>1. /\ IInv /\ Next /\ IInv'
      /\ UNCHANGED <<info, declared, built, stamp, declSet, declStamp, recorded>>
  BY NextKeeps DEF CInv, DocStep, links, decls
<1>2. /\ rewritten' \in BOOLEAN
      /\ ~rewritten' =>
           ~rewritten /\ \A n \in Held : heap[n].kind \in Markers => heap'[n].text = heap[n].text
  BY DEF DocStep, CInv, StampInv
<1>3. generation \in Nat /\ dirty \in BOOLEAN /\ dirty' \in BOOLEAN
  BY <1>1 DEF IInv, TypeOK
<1>4. generation' = generation \/ (dirty /\ generation' = generation + 1)
  BY <1>1, DocStepShape
<1>5. StampInv'
  BY <1>1, <1>2, <1>3, <1>4 DEF CInv, StampInv
<1>6. CASE generation' = generation
  <2>1. CASE dirty'
    <3>1. LinkInv' /\ OwnInv'
      BY <2>1 DEF LinkInv, OwnInv
    <3>2. DeclInv'
      BY <1>1, <1>6 DEF CInv, DeclInv
    <3>. QED BY <1>1, <1>5, <3>1, <3>2 DEF CInv
  <2>2. CASE ~dirty'
    <3>1. /\ dom' = dom /\ ~dirty /\ Held' = Held
          /\ \A n \in Held : heap'[n].kind = heap[n].kind
      BY <1>1, <1>6, <2>2, DocStepShape
    <3>2. Members' = Members
      BY <3>1 DEF Members
    <3>3. ~rewritten' => Shape' = Shape
      BY <1>1, <1>2, <3>1, ShapeKept
    <3>4. LinkInv'
      <4>. SUFFICES ASSUME built', stamp' = generation', ~dirty', ~rewritten'
                    PROVE  info' = Derive(Shape')
        BY DEF LinkInv
      <4>1. info = Derive(Shape)
        BY <1>1, <1>2, <1>6, <3>1 DEF CInv, LinkInv
      <4>. QED BY <1>1, <3>3, <4>1
    <3>5. DeclInv' /\ OwnInv'
      BY <1>1, <1>6, <3>1, <3>2 DEF CInv, DeclInv, OwnInv
    <3>. QED BY <1>1, <1>5, <3>4, <3>5 DEF CInv
  <2>. QED BY <2>1, <2>2
<1>7. CASE dirty /\ generation' = generation + 1
  <2>1. stamp' # generation' /\ declStamp' # generation'
    BY <1>1, <1>3, <1>7 DEF CInv, StampInv
  <2>. QED BY <1>1, <1>5, <2>1 DEF CInv, LinkInv, DeclInv, OwnInv
<1>. QED BY <1>4, <1>6, <1>7

(* A refresh leaves the links current: derived anew, or already so.          *)
LEMMA RefreshKeeps ==
  ASSUME CInv, Refresh, UNCHANGED docVars
  PROVE  /\ built' = TRUE /\ stamp' = generation /\ stamp' \in Nat
         /\ rewritten' \in BOOLEAN
         /\ LinkInv'
<1>1. generation' = generation /\ dirty' = dirty /\ Shape' = Shape
  BY DocStill
<1>2. generation \in Nat /\ built \in BOOLEAN /\ rewritten \in BOOLEAN
  BY DEF CInv, IInv, TypeOK, StampInv
<1>3. CASE Stale
  <2>1. info' = Derive(Shape) /\ stamp' = generation /\ built' = TRUE /\ rewritten' = FALSE
    BY <1>3 DEF Refresh
  <2>. HIDE DEF Shape
  <2>2. LinkInv'
    BY <1>1, <2>1 DEF LinkInv
  <2>. QED BY <1>2, <2>1, <2>2
<1>4. CASE ~Stale
  <2>1. UNCHANGED <<info, stamp, built, rewritten>> /\ built /\ stamp = generation
    BY <1>2, <1>4 DEF Refresh, Stale
  <2>. HIDE DEF Shape
  <2>2. LinkInv'
    BY <1>1, <2>1 DEF CInv, LinkInv
  <2>. QED BY <1>2, <2>1, <2>2
<1>. QED BY <1>3, <1>4

(* Consulting the links wipes declarations only where their stamp is stale.  *)
LEMMA ConsultKeeps ==
  ASSUME OneParse, CInv, Consult
  PROVE  CInv'
<1>1. /\ Refresh /\ UNCHANGED docVars
      /\ UNCHANGED <<declSet, declStamp, recorded>>
      /\ declared' = IF Stale THEN Empty ELSE declared
  BY DEF Consult, decls
<1>2. /\ built' = TRUE /\ stamp' = generation /\ stamp' \in Nat
      /\ rewritten' \in BOOLEAN /\ LinkInv'
  BY <1>1, RefreshKeeps
<1>3. generation' = generation /\ dirty' = dirty /\ Members' = Members /\ generation \in Nat
  BY <1>1, DocStill DEF CInv, IInv, TypeOK
<1>4. IInv'
  BY <1>1, DocStill, NextKeeps DEF CInv
<1>5. StampInv'
  BY <1>1, <1>2, <1>3 DEF CInv, StampInv
<1>6. DeclInv' /\ OwnInv'
  BY <1>1, <1>2, <1>3 DEF CInv, DeclInv, OwnInv, Stale
<1>. QED BY <1>2, <1>4, <1>5, <1>6 DEF CInv

(* Recording declarations refreshes first, so that no rebuild is pending.    *)
LEMMA SetDeclarationsKeeps ==
  ASSUME OneParse, CInv, NEW found \in Findings, SetDeclarations(found)
  PROVE  CInv'
<1>1. /\ Refresh /\ UNCHANGED docVars
      /\ declSet' = TRUE /\ declStamp' = generation
      /\ recorded' = found /\ declared' = found
  BY DEF SetDeclarations
<1>2. /\ built' = TRUE /\ stamp' = generation /\ stamp' \in Nat
      /\ rewritten' \in BOOLEAN /\ LinkInv'
  BY <1>1, RefreshKeeps
<1>3. generation' = generation /\ dirty' = dirty /\ Members' = Members /\ generation \in Nat
  BY <1>1, DocStill DEF CInv, IInv, TypeOK
<1>4. IInv'
  BY <1>1, DocStill, NextKeeps DEF CInv
<1>5. StampInv'
  BY <1>1, <1>2, <1>3 DEF CInv, StampInv
<1>6. \A n \in DOMAIN found : found[n] \subseteq Members
  BY DEF Findings, OfKind
<1>7. DeclInv' /\ OwnInv'
  BY <1>1, <1>2, <1>3, <1>6 DEF CInv, DeclInv, OwnInv
<1>. QED BY <1>2, <1>4, <1>5, <1>7 DEF CInv

(* The context's invariant holds of every run.                               *)
THEOREM ContextInvariance == OneParse => (CtxSpec => []CInv)
<1>. SUFFICES ASSUME OneParse PROVE CtxSpec => []CInv
  OBVIOUS
<1>1. CtxInit => CInv
  BY ContextInit
<1>2. ASSUME CInv, [CtxNext]_<<docVars, ctxVars>>
      PROVE  CInv'
  <2>1. CASE UNCHANGED <<docVars, ctxVars>>
    <3>1. /\ UNCHANGED docVars
          /\ UNCHANGED <<info, declared, built, stamp, declSet, declStamp, recorded, rewritten>>
      BY <2>1 DEF ctxVars, links, decls
    <3>2. generation' = generation /\ dirty' = dirty /\ Shape' = Shape /\ Members' = Members
      BY <3>1, DocStill
    <3>3. IInv'
      BY <1>2, <3>1, DocStill, NextKeeps DEF CInv
    <3>4. StampInv' /\ DeclInv' /\ OwnInv'
      BY <1>2, <3>1, <3>2 DEF CInv, StampInv, DeclInv, OwnInv
    <3>5. LinkInv'
      <4>. HIDE DEF Shape
      <4>. QED BY <1>2, <3>1, <3>2 DEF CInv, LinkInv
    <3>. QED BY <3>3, <3>4, <3>5 DEF CInv
  <2>. QED
    BY <1>2, <2>1, DocStepKeeps, ConsultKeeps, SetDeclarationsKeeps DEF CtxNext
<1>3. CInv /\ [CtxNext]_<<docVars, ctxVars>> => CInv'
  BY <1>2
<1>. QED BY <1>1, <1>3, PTL DEF CtxSpec

(* An accessor of the links answers what a walk of the present array would   *)
(* give, whatever was edited since the parse (context.go:294-364).           *)
THEOREM LinksFollow == OneParse => (CtxSpec => []LinksFollowStructure)
<1>1. CInv => LinksFollowStructure
  BY DEF CInv, LinkInv, LinksFollowStructure, Readable, Refuses, Stale, IInv, IndexInv
<1>. QED BY <1>1, ContextInvariance, PTL

(* DeclarationNames answers the last declarations recorded or refuses: no    *)
(* rebuild comes between (context.go:236-285).                               *)
THEOREM DeclarationsStand == OneParse => (CtxSpec => []DeclarationsSurvive)
<1>1. CInv => DeclarationsSurvive
  BY DEF CInv, DeclInv, DeclarationsSurvive, Answers, Names
<1>. QED BY <1>1, ContextInvariance, PTL

(* The names DeclarationNames answers are in the document (context.go:262).  *)
THEOREM DeclarationsOwn == OneParse => (CtxSpec => []DeclarationsAreOwn)
<1>1. CInv => DeclarationsAreOwn
  BY DEF CInv, DeclInv, OwnInv, DeclarationsAreOwn, Answers, Readable, Refuses, Names,
         IInv, IndexInv
<1>. QED BY <1>1, ContextInvariance, PTL
============================================================================
