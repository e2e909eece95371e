-------------------------- MODULE BracketContext --------------------------
(* The bracket context (sdom/context.go): the layer over a document that     *)
(* owns its bracket links, a cache stamped with the document's generation,   *)
(* and the declaration links a schema records there, the one part of it the  *)
(* context cannot derive again.                                              *)
EXTENDS Doc, Pairing

VARIABLES info,         \* BracketContext.info, but for the declarations
          declared,     \* BracketInfo.declaration: keyword -> names
          built,        \* BracketContext.built
          stamp,        \* BracketContext.stamp
          declSet,      \* BracketContext.declSet
          declStamp,    \* BracketContext.declStamp
          recorded,     \* history: what a schema recorded last
          rewritten     \* history: a marker was rewritten since the last build

links   == <<info, declared, built, stamp>>
decls   == <<declSet, declStamp, recorded>>
ctxVars == <<links, decls, rewritten>>

docVars == <<heap, dom, dirty, nodeIndex, lineStart, renderedLen, generation,
             mutating, poisoned, depth, raised, stray, edits>>

---------------------------------------------------------------------------
(* The cache.                                                               *)

Empty == [n \in {} |-> NoInfo]

Markers == {"Opener", "Closer"}

\* What the walk reads of a node: a text only where it asks for one.
Seen(n) ==
  [ id   |-> n,
    kind |-> heap[n].kind,
    text |-> IF heap[n].kind \in Markers THEN heap[n].text ELSE <<>> ]

Shape == [i \in 1..Len(dom) |-> Seen(dom[i])]

\* Mutant: the stamp alone decides.
StaleByStamp == generation # stamp

Stale == ~built \/ generation # stamp

\* rebuild derives the whole index anew.
Refresh ==
  IF Stale
  THEN /\ info' = Derive(Shape)
       /\ stamp' = generation
       /\ built' = TRUE
       /\ rewritten' = FALSE
  ELSE UNCHANGED <<info, stamp, built, rewritten>>

\* Any accessor of the pairing links: Opener, Closer, Enclosing, Separators,
\* InnerText, OuterText, Unclosed, Unpaired.  It reads the generation, so that
\* it refuses in a window.  The declarations are entries of the index that a
\* rebuild makes anew, and are lost to it.
Consult ==
  /\ ~Refuses
  /\ Refresh
  /\ declared' = IF Stale THEN Empty ELSE declared
  /\ UNCHANGED <<decls, docVars>>

---------------------------------------------------------------------------
(* The declarations.                                                        *)

OfKind(kind) == {n \in Members : heap[n].kind = kind}

\* What a schema's pass may have found: names of the document for some of its
\* keywords.
Findings ==
  UNION { [keywords -> (SUBSET OfKind("DeclarationName")) \ {{}}] :
          keywords \in SUBSET OfKind("DeclarationType") }

\* Mutant: the pending rebuild is not done before the write.
SetDeclarationsUnrefreshed(found) ==
  /\ ~Refuses
  /\ declared' = found
  /\ declSet' = TRUE
  /\ declStamp' = generation
  /\ recorded' = found
  /\ UNCHANGED <<info, built, stamp, rewritten, docVars>>

\* Refresh first, then replace: a keyword absent from found keeps nothing.
SetDeclarations(found) ==
  /\ ~Refuses
  /\ Refresh
  /\ declared' = found
  /\ declSet' = TRUE
  /\ declStamp' = generation
  /\ recorded' = found
  /\ UNCHANGED docVars

\* DeclarationNames answers, outside a window, only when nothing changed since
\* the schema's pass; else it reports ErrDeclarationsStale.
\* Mutant: once recorded, always answered.
AnswersAlways == declSet

Answers == declSet /\ generation = declStamp

Names(keyword) == IF keyword \in DOMAIN declared THEN declared[keyword] ELSE {}

---------------------------------------------------------------------------
\* attach: bound to the document, with nothing built.
CtxInit ==
  /\ Init
  /\ info = Empty
  /\ declared = Empty
  /\ built = FALSE /\ stamp = 0
  /\ declSet = FALSE /\ declStamp = 0
  /\ recorded = Empty
  /\ rewritten = FALSE

\* The document is edited under the context, which is not told.
DocStep ==
  /\ Next
  /\ rewritten' =
       (rewritten \/ \E n \in Held : heap[n].kind \in Markers /\ heap'[n].text # heap[n].text)
  /\ UNCHANGED <<links, decls>>

CtxNext ==
  \/ DocStep
  \/ Consult
  \/ \E found \in Findings : SetDeclarations(found)

CtxSpec == CtxInit /\ [][CtxNext]_<<docVars, ctxVars>>

---------------------------------------------------------------------------
(* Properties.                                                              *)

Readable == ~Refuses /\ ~poisoned

\* What the accessors answer from once they have refreshed is what a walk of
\* the array as it stands gives (R86, R87), unless a marker was rewritten.
LinksFollowStructure ==
  (Readable /\ ~rewritten /\ ~Stale) => info = Derive(Shape)

\* An answer of DeclarationNames is the last one recorded, whatever was
\* consulted in between: no rebuild wipes it while it may still be asked for.
DeclarationsSurvive ==
  (Answers /\ ~Refuses) => \A n \in Held : Names(n) = IF n \in DOMAIN recorded THEN recorded[n] ELSE {}

\* The names answered are the document's own nodes: none was removed or
\* replaced since the pass.
DeclarationsAreOwn ==
  (Answers /\ Readable) => \A n \in Held : Names(n) \subseteq Members
============================================================================
