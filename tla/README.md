# Verification of simple-dom

simple-dom (`src/sdom`) is a lossless, minimal DOM for source files, in Go. A document is the source's bytes
and a flat array of nodes that tiles them; it is edited in mutation windows, and everything
else - neighbours, lines, bracket links, declarations, frames - is derived from the array and must
be refused or derived again when the array has moved. This directory holds TLA+ modules of that
code, the TLC runs that check them on small instances, and theorems that TLAPS proves for every instance.

References to the code are `file:line` under `src/sdom`; R-numbers are those of `src/design/requirements.md`.

## The system

| part | state | operations | who calls it |
|---|---|---|---|
| Loc (`loc.go`, `origin.go`) | origin, biased offset, length, altered | Source, Synthetic, In, alter, mergeLocs, splitLoc | every node, Merge, Split |
| Text and the markers (`node.go`, `marker.go`, `declaration.go`) | text, Loc | SetText, Location, Render | parsers make them, callers write them |
| Compound (`node.go`) | kids, historical Loc | Location, Render | stencils, lists |
| Doc (`doc.go`) | `dom`, `nodeIndex`, `lineStart`, `renderedLen`, `generation`, `dirty` | IndexOf, Next, Prev, Line, LineCount, Generation, Render, rebuild | callers, contexts, schemas |
| mutation window (`mutate.go`) | `mutating`, `poisoned` | Mutate, Merge, Split, Replace, Insert, Remove | callers, schemas |
| BracketLang (`bracket.go`) | the table, its compiled patterns | check, agree, matchAt, boundaryOK, parentAllowed | the parser, the context |
| ParserState (`parser.go`) | `src`, `pos`, `out`, the live text run | run, Advance, Emit, Rewind, SetPos, At | the registered parser |
| BracketParser (`bracket_parser.go`) | `stack` and the Go call stack, `ctx.demoted` | Parse, parseCode, parseRestricted, open, otherRun | ParserState.run |
| BracketContext (`context.go`) | `info`, `built`, `stamp`, `declSet`, `declStamp`, `demoted` | accessors, SetDeclarations, DeclarationNames, refresh, rebuild | callers, schemas |
| IndentParser, IndentContext (`indent.go`) | `levels`; `info`, `built`, `stamp` | Parse, change, enter; Parent, Children, rebuild | ParserState.run; callers |
| StencilBuilder (`stencil.go`) | slots, omissions | Group, Put, Omit, Done | schemas that read compounds |
| Bool, List, RequirementList (`bound.go`, `list.go`) | a literal inside a compound | Value, Set, Items, SetItems | callers |
| schemas (`schema/*.go`) | hits already handled | one pass: find, carve in a window, SetDeclarations | callers |
| markdown wrapper (`schema/markdown.go`) | the delegate | Parse, head, lineHead; Heading, Checkbox | ParserState.run; callers |
| language tables (`lang.go`) | constants | | parsers |

How they meet: `Parse` turns one loop over one source and offers every position to one parser, which emits
nodes or declines (the markdown wrapper offers it to the indent parser, that to the bracket parser); the nodes make a Doc; the parser's contexts are attached to it. Callers edit the Doc, which
tells nobody. A context pulls: each accessor compares its stamp with the Doc's generation, a read that
*panics* inside a window, and derives everything anew when they differ. Schemas edit through windows, then
record declarations in the context, the one kind of link that nothing can derive again.

There is one goroutine and nothing is persisted. What is hard is therefore not scheduling but protocol:
nested windows, errors and panics half-way through a batch of edits, caches stamped at the wrong moment,
two codes that must agree without sharing logic (the parse and the derivation), a parser that backs up,
and passes that carve the array they search.

## Modules

| module | models | notes |
|---|---|---|
| `Loc` | `loc.go` | offsets biased by one, as stored |
| `Splice` | `slices.Replace/Insert/Delete` | the library, as `mutate.go` calls it |
| `Doc` | `doc.go`, `mutate.go`, `node.go`'s Text | the core |
| `VersionedOrder` | nothing: the abstract specification of a Doc | what a stamped cache relies on |
| `BracketTable` | `bracket.go`'s table, and what its readers ask of it | constants and assumptions |
| `Pairing` | `rebuild`, `closes`, `rejects`, `enclosingCloses` | the loop as a recursive function of the place |
| `PairingWalk` | the same, one turn a step | arrays of any markers in any order |
| `BracketContext` | the context over a Doc | EXTENDS `Doc` and `Pairing` |
| `ParserState` | `parser.go` | the walk as a record, so that a step composes its operations |
| `BracketParser` | `bracket_parser.go` over `ParserState`, `Pairing` | the recursion as a stack |
| `Frames` | `column`, the level stack, `IndentContext.rebuild` | a fold over the Indent nodes |
| `IndentContext` | the frame context over a Doc | EXTENDS `Doc` and `Frames` |
| `IndentParser` | `IndentParser` over `BracketParser` and `Frames` | one variable more, the open columns |
| `MarkdownParser` | `schema/markdown.go` | EXTENDS `IndentParser`: the wrapper is asked last |
| `DeclarationPass` | `schema/schema.go`, and the loop each schema writes out for itself | EXTENDS `IndentParser`: a pass works on the array of a parse |
| `LuaSchema`, `GoSchema`, `ScriptSchemas` | `schema/lua.go`, `golang.go`, `python.go` and `shell.go` | what a pass finds in an array |
| `Schemas` | the four passes over one document | the language of the source picks the parser and the schema |
| `Stencil` | `stencil.go`, Compound in `node.go` | pure: what `Done` lays out, what a compound's location is |
| `Lists` | `list.go` | pure: the two list parsers, `Items`, `RequirementText` |
| `Fields` | a builder at work, then writes through `bound.go` and `list.go` | EXTENDS `Stencil`, `Lists` |
| `DocProofs`, `BracketContextProofs`, `PairingWalkProofs`, `BracketParserProofs`, `IndentContextProofs`, `LayeredProofs`, `FieldsProofs` | theorems | one beside each proved module; `DocProofs` holds those about `Loc`, `LayeredProofs` those about `IndentParser`, `MarkdownParser` and `Schemas`, `FieldsProofs` those about `Stencil` and `Fields` |
| `OperatorProofs` | laws of the operators | what a splice, a concatenation, a column and a walk of frames give, at any length |
| `MCDoc`, `MCBracketContext`, `MCBracketParser`, `MCPairingWalk`, `MCIndentContext`, `MCIndentParser`, `MCSchemas`, `MCFields` | instances for TLC | sources, layouts, matches and tables as definitions |

### Doc

A node is a pointer; its identity is its place in `heap`, which holds every node the caller holds, in the
document or out of it, so that a node removed can be entered again or asked for. `dom` is the array of
identities. `Mutate` takes a function: its beginning, its nesting and its exits are separate actions, and what
the function does is any sequence of edits and refused reads between them. `depth` counts the calls on the Go
stack, which the code does not count: it saves `mutating`. `raised` is the panic unwinding that stack. A nested call
that fails hands its error to the function around it, which may handle it, so `NestedReturn` stands for both.
An operation that returns an error changes nothing: it is a disabled action.
`SetText` needs no window (`node.go:80-83`); `stray` remembers that one was made outside, after which `Line` is
documented to be stale until the next window closes.

That a document's nodes tile its source is no code of `doc.go`: `New` expects it of its caller (`doc.go:17-19`, `:47-48`), and `oneParse` compares origins only. So `Tiles` is an
assumption on the layouts, stated with no line of the code beside it; that a parse meets it is `NodesTile`, proved of the three parsers.

Abstractions: offsets and line starts are as in the code, the sorted slice of line starts is a set; one byte is one model value.
A caller does not enter a node that is in the array already (the code does not check; IndexOf would
answer its last place and find its first).

### BracketTable, Pairing, BracketContext

A marker's text is a member of `Marks`, and a pattern is the set of marks it matches in full; `Capture` is the text of the
groups a pattern names, which `agree` compares. `Derive` is `WalkOf`, which applies `Visit`, the loop's body, to one node of the array after the other. `BracketContext` adds the cache: `Consult`
is any accessor, `SetDeclarations` takes any findings a pass could have, and `DocStep` is any step of the document, of which
the context is not told.

### ParserState, BracketParser

The recursion of `open`, `parseBody`, `parseCode` and `parseRestricted` is the `stack`, whose frames hold the
locals of `open`. A step is one turn of the innermost loop. What the loop tries, in which order, is a sequence of *readings* of the bytes
at the position, and the first that applies decides the action. A pattern takes the longest of its marks that stand at the position and only then asks for the
boundary (`matchRegexp`); a group's literal openers are taken longest first, as every table lists them; look-around is the set of bytes it accepts, and holds at either end of the input.

### Frames, IndentContext, IndentParser

`IndentParser` extends `BracketParser`: its `Root` and `Announce` are the two branches of `Parse` that emit an Indent, and
`Delegate` is any step of the bracket parser, which inside a group has the Go stack to itself. `levels` is the parser's stack. The look at the
first byte of a line's content, which moves the position and moves it back, is a question about a position (`TransparentAt`).
`Frames` holds the rule that parse and derivation share in the code's words only (`indent.go:222` and `:330`): which
columns a line leaves open. `IndentContext` puts the derivation behind the stamped cache, over a document under edits.

### MarkdownParser

The wrapper delegates first, and acts only where the delegate neither moved nor emitted (`Declined`): `MarkHead` is that branch, and `~Marking /\ IndentNext` is
every other. What a line head is, the code reads off the node emitted last (`lineHead`), not off the source, and so does `Heads`. A
heading's level is bounded by `HeadingMax`, which is six in `headingRe` and two in the run.

### DeclarationPass, LuaSchema, GoSchema, ScriptSchemas, Schemas

The pass runs on the array a parse left (`Begin`). The four schemas write out one loop: find the first hit, in document order, that
has a name and is not in `done`; open a window, carve the keyword, carve the names, close it; start again. `TurnOf` is one turn, over the set of what is *announced*:
a keyword with the names it declares, or with none (`Dismissed`), which the loop passes over and, where the scan met it before the hit, never looks at
again. The carves of one turn are one action, because nothing
reads between them; the links of the next turn are derived from the carved array (`Links`), as the context derives them
after the bump of the generation. `RecordOf` is the turn that finds nothing. A schema's module says what its `next` finds, and nothing of the loop:

- Lua: `local`, a `function` opener, and an assignment without a keyword, whose keyword node is empty;
- Go: `func`, whose receiver is jumped and whose parenthesis must be on its line; `var`, `type` and `const`, alone or as a group of many (`GoNames` is what
  `goListRe` matches, its backing up included);
- Python: keyword and name in one text; shell: an assignment without blanks, or a word that ends its text before `()`.

A word of the source (`local`, `func`, a name's letter) is one byte, so that short sources hold whole statements; the regular expressions are written as
what they match. An empty match of the look-around (`x =` is announced by an empty keyword before `x`) is kept empty.

### Stencil, Lists, Fields

A *match* of a pattern is data: a text, and where each group took part, as the regular expression library answers it (the library is not modelled); the
group that holds a group in the pattern is data too, used by the properties and by `Captured` only, as the code does not have it. `Captured` is the assumption on a match: what the
library promises of the groups of a pattern that repeats none. `slot` and `omitted` are the
builder's maps. `Put` may plug the node of another group than its own, as a schema may do by mistake, and `Omit` may come before or after: `Done` is to tell. `phase` is "refused"
after its panic. `Done` walks the groups in the order of their parentheses (`Bounds`), lays glue between them (`Laid`), and compares each child's location with its span. Afterwards
the schema writes through the fields it kept: `SetText`, `SetBool`, `SetItems` (which parses its own render again, and refuses when it reads otherwise) and
`SetRefs` (which writes a canonical form). A compound's location is a fold over its children's (`CompoundLocation`), asked for anew each time.
`Bytes` is what a text is made of; `Lists` spells its bytes out, since what a literal reads as is what its properties are about.

## Runs

Every run is a `.cfg` of the module named `MC*`. The longest takes a little over two minutes on two cores.

| run | shows | bounds |
|---|---|---|
| `doc` | indices, locations, windows and poison, through every sequence of edits, nested windows, handled and returned errors and panics; refinement of `VersionedOrder` | two layouts of a 3-byte source with a newline; 3 edits; calls nested twice |
| `links` | cached links are those of the present array; declaration links are answered whole or refused | one group of two markers, either of which may be retyped; 3 edits, any reads and passes between |
| `parser` | tiling, maximal runs, agreement with the derivation, the table obeyed, demotions | nine groups, all sources to length 5 or 6 over seven alphabets |
| `parser_ends` | the parse ends | the sources, to length 4 or 5, in which demoting groups nest |
| `pairing` | pairs mutual and never crossing, innermost enclosing, separators | all arrays of 5 nodes over 13 markers and texts |
| `frames` | parents and children are those of the present array | four lines in three columns; 2 edits; an indentation rewritten to two other widths |
| `indent` | the levels of the parse are those its nodes imply; lines stand in their frames; every line head carries its marker | twelve alphabets: lines, comments, continuations, brackets and spans that demote, headings, list items and checkboxes; 4 to 6 bytes, most after a prefix |
| `schemas` | carving moves no byte, links are whole, a second pass would find nothing, what is found is what the text declares | Lua: every source of five alphabets, 5 bytes or 4 to 5 after a prefix; Go: two lines of thirteen, Python and shell: three of eight, in any order |
| `fields` | `Done` refuses for its faults only, children tile, alteration is told, writes read back | every span of two or three groups, nested or side by side, in a match of two or three bytes; five lines of boxes and lists; any order of Put, Omit and Done; with and without provenance |
| `lua_bodies`, `go_groups`, `stencil_nested` | where code and text differ: see below | a few sources, as the run they vary |

Why these bounds are enough for the questions asked of them:

- `doc`. Every hazard of a location needs at most three edits: rewrite or split or retype a node, move it, merge it. Three bytes
  with a newline in the middle let a split fall before it, after it and at either end of a node, and the second layout adds a marker,
  which Merge and Split refuse. Depth 2 is the first at which a call is neither the outermost nor the innermost.
- `links`, `frames`. A cache goes wrong between two reads: build, edit, read. A third edit restores an earlier array under a
  later generation. A group of two markers is the least array whose links change at all.
- `parser`. Each alphabet is the markers of the groups that meet: a string with its escape, hatch and a bracket; a bracket with
  separators and one that demotes; runs of two kinds with blanks and breaks; runs with a letter, one byte longer, for
  runs that reject longer ones; long brackets with levels; words. Five bytes hold two nested groups and a byte between any two of their
  markers.
- `pairing` asks nothing of a parse, since edits may leave any marker anywhere. Two groups cross on four markers;
  the fifth is what stands inside, or a separator.
- `indent`. Five bytes after a first line are three lines; a return to a column that matches no open level takes three. A list item, a span
  that is given back at a break, and a second item after it take six.
- `schemas`. Five bytes hold a `local`, a name, a comment between them and the separator that decides whether a second statement
  begins; a declaration carved out of the middle of a text and looked for again takes two statements. A line of Go, Python or shell is a whole
  declaration or something that looks like one; what one line can do to another needs the two of them, and for an indented line or a name at
  the end of a text, a third between.
- `fields`. Three groups are the least in which one is nested in a nested one, and in which one stands between two others; a match of two bytes
  leaves every gap empty or not. The lists written hold an item that is empty, that is blank at its edge, that carries the separator, and none at all; the
  refs cross from one digit to two, in order and not, with a run of two and a run of more.

`MaxEdits`, `MaxDepth`, `MaxNodes` and the sources and matches are the only bounds. The first three are guards of the model, not of the code; the proofs hold for any value of them.

Deadlock is not checked: a document at its bound of edits, a finished parse, a finished pass and a refused stencil stop, as they should.

### Fairness

`BracketParser`, `IndentParser` and `MarkdownParser` assume weak fairness of their next-state relation: `ParserState.run` is a loop on one goroutine, which
nothing else can hold back. `Terminates` is checked under it, over the bracket parser, where alone a parse reads anything twice; over the sources of `indent` the
check of liveness takes too long to be kept. There is no fairness on a Doc, a context, a pass or a builder: that a window closes is
up to the function the caller gave to `Mutate`, and nothing in the code promises it.

## What the properties are for

Each is stated, with the code it is about, above its definition. In short:

- Locations: `FaithfulRenders`, `MergePathUnobservable`, `RestructuringKeepsBytes`. Merge trusts a
  location to say which bytes of the source a node renders, so its claim must survive any history.
- Windows: `WindowOutlivesNesting`, `ReadsTellTheTruth`, `LinesTellTheTruth`, `PoisonIsForever`, `VersionsOrder`.
- Contexts: `LinksFollowStructure`, `DeclarationsSurvive`, `DeclarationsAreOwn`, `ParentIsNearest`, `ChildrenAreListed`. The last two compare the
  cached links with a definition that walks nothing.
- Two codes that must agree: `DerivationAgrees` and `TableIsObeyed` (parse and derivation), `LevelsAreDerivable` and `LinesStandInFrames` (parse and
  frames), `FindsWhatTheTextDeclares` (the Lua pass over nodes, and a reading of the bytes that knows of comments only), `DeclaresWhatIsWritten` (the Go, Python
  and shell passes, and what the writer of each line says it declares), `LineHeadsAreMarked` (the wrapper's look at the node emitted last, and the line heads of the
  source).
- Structure over any array: `PairsAreMutual`, `PairsNest`, `EnclosingIsInnermost`, `SeparatorsAreMutual`.
- A parser that backs up: `NodesTile`, `TextRunsAreMaximal`, `DemotionsAnchored`, `DemotingGroupsEnd`, `IndentsAnnounceChanges`, `Terminates`.
- A pass that carves what it searches: `CarvingKeepsBytes`, `LinksCoverTheArray`, `NamesAreWords`, `PassIsComplete` (nothing is left for a second pass, whatever offsets
  the first kept).
- Stencils and fields: `DoneRefusesFaultsOnly` (by the nesting of the pattern, which `bounds` does not have), `ChildrenTileTheMatch`, `AlterationIsTold` (a field
  written deep in a compound is told by every location above it), `WritesReadBack`.

## Proofs

All theorems are safety properties of the specifications above, for every source, layout, table, set of texts, depth and number of
edits that satisfy the named assumptions (`DocAssumption`: the layouts tile the source; `OriginAssumption`; `TableAssumption` and
`LexisAssumption`, which are what `check` demands of a table; `GoAssumption`, that a separator of statements is in no name and no blank and is no comma, as goSeps is not; `SchemasAssumption`,
that the languages are the four; `FieldsAssumption`: a match is `Captured`,
and what is written is a sequence of bytes, a joined list and the canonical text of refs among it), and are checked by TLAPS to the last leaf.

Four hypotheses are hypotheses, not assumptions on the constants:
- `OneParse`, that no node of another parse is entered (`ForeignNodes = {}`). Replace and Insert take any node (`mutate.go:198-207`), and without
  it `FaithfulRenders` is false; see the divergences.
- `DemotersTell`, that no group shares an opener's text with a group that demotes. It is asked by the two theorems on `DemotingGroupsEnd`, which looks a
  group up by its opener's text, as the derivation does (`context.go:456`); see the divergences. `check` does not demand it. TLC evaluates it on the tables of the parsers' runs.
- `TableTells`, that the texts of the markers tell what the parse knew of them. It is asked by `ParseAgrees` and `TableObeyed`, and implies `DemotersTell`.
  The derivation has only texts, so an opener's text must name its group; two groups whose closers meet, one of them in code mode, must
  close by a literal with the same look-behind, for else a closer ends the one and not the other; a run may be rejected only in a group that a
  run closes, and one that a run of a *pattern* closes must be restricted, for the
  parser compares what stands at the position and the derivation what was emitted; and where a group closes no group opens that may not
  open everywhere, and no separator stands, for else the parse would read those where the derivation ends a group. `check` demands none of it, the tables
  in `lang.go` satisfy all of it, and TLC evaluates it on the table of `parser` (`MCTableTells`).
- `NoneTrails`, that no match has an empty group where a group that holds it ends. It is asked by `RefusalsJust` and `ChildrenTile`: `bounds` takes such a group for one
  beside its holder and demands a node for it, which is what `stencil_nested` shows. The matches of `fields` are all those of a few patterns for which it holds.

**Doc.** `IInv` is `TypeOK`, `Distinct(dom)`, `FaithfulRenders`, `WindowInv` and `IndexInv`. No property of the document is inductive alone:
- `ReadsTellTheTruth` needs that a document that is neither open nor poisoned is not dirty and that its index is the index of the array at the last
  rebuild (`IndexInv`); and that the array holds no node twice, for else the index does not invert it.
- `Distinct(dom)` needs that what an edit enters is not in the array (`SpliceDistinct`).
- `FaithfulRenders` must hold of every node *held*, in the document or out of it, since a node removed may be entered again. Its steps rest on
  lemmas about locations: halves of a split (`HalvesTyped`) and the result of a merge (`MergedTyped`) render their spans.
- `WindowOutlivesNesting` needs that a panic on its way implies an open window, and poison a closed one (`WindowInv`).

From `Invariance` follow `TypeCorrect`, `Faithfulness`, `MergePath`, `ReadsTruthful`, `WindowNesting`, the action property `PoisonForever`
and the refinement `ImplementsVersionedOrder`: initial states map to initial states, each edit to a stutter, the entrance and exits of the outermost
window to Open, Settle, Publish and Fail.

**BracketContext.** `CInv` adds to `IInv` that stamps are never ahead of the generation (`StampInv`), that links with a fresh stamp are those derived from the
array unless the array is dirty or a marker was rewritten (`LinkInv`), that while the declarations' stamp is fresh the links' is too and nothing recorded is lost (`DeclInv`), and that
what a fresh answer names are members (`OwnInv`). `StampInv` is needed because a stamp ahead of the generation would become fresh by being
caught up with; `DeclInv` because a rebuild wipes declarations, and must not be pending while they may be asked for; the exceptions for a dirty array,
because the generation is bumped at the exit of the window and not at the edit. `LinksFollow`, `DeclarationsStand` and `DeclarationsOwn` follow,
for any table: they do not depend on what `Derive` computes.

**Loc, Splice.** `MergeLocsAssociative` (asserted by the comment at `loc.go:90-94`), `MergeLocsFaithful`, `SplitThenMerge`; `SpliceDistinct`.

**PairingWalk.** What the derivation of the links computes, for any table, any set of markers and arrays of any length. `WalkInv` is the typing of the
links and of the stack (`WalkTyped`), that the stack holds unpaired openers in document order (`StackInv`), that no open group begins inside one
already closed (`OpenOutside`), that what was walked since a group opened is enclosed at it or inside it (`OpenEncloses`), and the four properties.
`OpenOutside` is why a new pair cannot cross an old one: a closer pairs with a group on the stack, which begins before or after every closed group as a whole.
`OpenEncloses` is why what a pair closes around answers an opener at or inside that pair. A turn does one of three things, and there is a lemma on each:
a closer pairs (`Shuts`), a closer pairs with nothing (`Strays`), or another marker stands where it is (`Stands`). The
patterns stay opaque: none of it depends on *which* markers pair.

**BracketParser.** For every table and every source. `ParseInv` is `Sound(walk)`: the nodes tile what was read, in document order, the live
run is the last node exactly if that is a text, and no text follows a text; `StackOK`: every open group remembers the place and the position of an opener that
stands in the array and occurs in the source, outer ones before inner ones; and `RecordsOK`: each demotion recorded is anchored, in document order, and those
recorded before a group opened lie in nodes before its opener. The last is what a demotion needs: it cuts the array at the opener, drops
exactly the records made since (`SubSeq(demoted, 1, recorded)`), and the records it keeps must survive the cut and end at or before the marker that is
folded back. The frame's `pos` is where the array is cut, since the rewound walk tiles up to it only if the dropped opener begins there.
That every reading is of bytes the source holds at the position (`ReadIs`) is proved from the readings themselves, by `LongestIn` (a set of marks
that occur has a longest one). `Tiling`, `MaximalRuns` and `Anchoring` follow.

`DemotersEnd` needs more than that every demoting opener is open, linked or followed by a run it rejects. A demotion cuts the array at the opener it gives up, and the
links at the same place, so a run or a closer behind that opener would be cut away and leave a group before it with no end. So `EndsOK` says it of all nodes, and
again of the nodes before the opener of each open group (`Settled`), where the end must be among those nodes too (`Ended`): they are what is left when that group demotes.
`Apt` says of a reading what the loop did to make it: an opening mark is the group's own, and a rejected one is one the top group rejects.

`ParseAgrees` and `TableObeyed` are a simulation of the parse by the derivation, two codes that share no line. `AgreeInv` relates the stack the derivation holds
after the nodes emitted so far (`HeldAfter`) to the frames of the parse. They are not equal: when a closer cuts off groups inside the one it
closes, the parser leaves those before it has emitted the closer, and the derivation drops them only when it reads it. So `Current` says that the derivation holds the
parse's frames, and those left that way above them (`Spare`), as long as the next thing read must be that closer (`Awaits`). `Tracked` says the same of the
derivation before the opener of each open group: that is the walk a demotion falls back to, since it cuts the array there. `LinksIn` says that the links
the parse made are those the derivation answers, node by node, and `Obeys` that each opener and separator is one the table lets stand in the group the derivation has on top before it. `ReadTells` says, of each
thing the loop can read, what its mark tells a reader of texts, and is where `TableTells` is used; `AgreeStep` then takes one kind of reading after the other. At the end of the input the
derivation may hold more than the parse, the groups nothing closed, and there is nothing left for them to pair with.

**Induction over data.** The library's induction theorems take an operator as a parameter, which the provers cannot instantiate. Where a proof needs
one, it takes the least counterexample instead: the recursion is a function on `0..n` inside a `LET` (`Concatenated`, `Column`, `WalkFrames`, `WalkOf`), a set of bad
indices is defined, and a least one is refuted (`NatLeast`, `ConcatenatedIs`, `WalkIs`). So the concatenation of an array, the column of a blank prefix, the walk of the
frames and the derivation of the links are reasoned about at any length.

**Doc, continued.** `BytesKept` and `LinesTruthful` speak of the concatenation of all texts. Merge and Split splice an array whose entered part renders as the part
removed (`ConcatenatedParts`). `Line` searches the line starts recorded at the last rebuild: `LineInv` says that an index that is not stale holds
exactly the positions after the newlines of the rendered text, and that a document neither open, poisoned nor strayed renders what was rendered then.

**Frames, IndentContext.** `ParentsNearest` and `ChildrenListed` compare the links, computed by a walk with a stack, with definitions that walk nothing.
`Holds` is the invariant of the walk: the stack holds frames of the array in document order, the first frame at its bottom, and for every frame passed there is one
on the stack, at or after it, that is no deeper. Hence the innermost frame left open is the nearest before at a smaller column, or the first of
all (`FrameHolds`), and `Linked` says the same of the links. The cache is as in `BracketContext`: `FInv` says that a current stamp stands for links that are `Linked` to the
present array, unless it is dirty or an indentation was rewritten. No theorem here needs more of the table or the document than `Doc`'s.

**IndentParser, MarkdownParser.** Every step of the two layered parsers is a step of the bracket parser or emits one node that is not a text and may be
empty, so `ParseInv` holds of them too (`IndentInvariance`, `MarkdownInvariance`), and with it the theorems above (`LayeredTiling`, `LayeredRuns`, `LayeredAnchoring`, `LayeredEnds`). `LevelInv` adds what relates the parse's levels to the array: the
levels are those the walk of the array's Indents holds open (`Derivable`; where the walk holds the root and a line at the root's column, the parse holds the
line's alone); the last level is the last Indent's column; neighbouring Indents differ; and no Indent stands behind the opener of a group still open
(`IndentsOutside`). The last is what makes a demotion harmless: it cuts the array at an opener, and since no Indent is cut the derivation sees what it saw, while the parser's
levels, which are not rewound, stay those of the lines before. `StackFollows` lets the walk of a changed array be compared with the walk of the array before: they agree as long as the
Indents do.

**Schemas.** `CarvingKept` and `LinksCover`, for every source, every table and all four languages. `PassInv` is `ParseInv` and, once the pass has begun,
`Whole(array, made)`: the nodes lie one after another from the first byte of the source to the last, each holds the source's bytes at its place (`Runs`), and
no two have one identity, nor one not given out yet (`Issued`). That it begins is `NodesTile` at the end of the parse (`PassBegins`). That a turn keeps it has two
halves. What is *found* can be carved (`Sane`): the keyword's span lies in its node, the names' node comes no earlier and is a text, and the names'
spans are in order, apart, not empty, and right of the keyword if they share its node. There is a lemma on each language (`LuaIs`, `GoIs`, `PythonIs`, `ShellIs`). Go's
is the hard one: it jumps a group to its closer, which stands behind its opener since the derivation pairs forward (`VisitCloses`, `LinksLater`), and the lists of a group
never overlap, because no separator is a byte of a list (`GoAssumption`, which goSeps and the expression satisfy) and so a list ends before the next can begin (`GoNamesAre`). And what is *carved* renders the same bytes
(`PiecesAre`, over `ConcatenatedIs`), so the array with the pieces for the node is whole again (`EntryIs`); the names' node is looked for in the array as the
keyword's carving leaves it, and is the text that was found, or the rest of the keyword's (`DeclareIs`). `LinkInv` adds the links. A turn gives out identities that
no link holds; one keyword among the pieces has a new one (`WordMade`); the nodes it replaces are a text and the keyword's text or opener, so no declared node is ever
carved again (`CarvedIds`); and `Fresh` reads exactly the new names off the array (`FreshIs`).

**Stencil, Fields.** `RefusalsJust`, `ChildrenTile` and `AlterationTold`, for every pattern without repetition, any number of groups, every text, with and without provenance, and
any order of Put, Omit and Done. The first compares `bounds`, which goes by where groups end, with the pattern's nesting (`Owed`), of which the code knows nothing. The groups taken so far lie
one after another (`Lined`); a group is skipped just when it begins before the last one taken ends, and then the last one taken holds it, since of two groups that do not hold each other
the pattern puts one before the other; and a group held by one that was present and not omitted is held by one that was *taken*, since what holds a holder holds the group too
(`AboveAbove`, `HolderOwed`). So a turn takes exactly what is owed (`TakenTurn`), unless an empty group stands where its holder ends, which is why `NoneTrails` is asked.
`StencilInv` says what the other two need: a slot holds nothing, or a node made of *some* group of this match (`Made`), which may be the wrong one; and what Done returned is laid out
(`Lay`): there are places where the match is cut, each child is a `Piece` over the part between two of them, as many are fields as there are bounds, and no two glues are
neighbours. A piece not rewritten holds the bytes of its part. A field's node gets there by having the location of its group, which with provenance settles the bytes
and without it the length only. Children appended keep it (`LayAppend`, `LaidLay`), and so does a write, which alters its piece and leaves the cuts
(`LayWritten`). That the compound tells what its children hold follows turn by turn: while nothing is altered the offset expected next is the next cut (`SummedIs`, `SumGoesOn`), and after the
first altered child only lengths are added (`CompoundTold`). That a joined list or a canonical text is a sequence of bytes is assumed, and evaluated by TLC, since sorting and
decimals are recursions the library hides.

Only model-checked:
`LinesStandInFrames` and `LineHeadsAreMarked`, which read the source's lines; what the passes find (`NamesAreWords`, which Go's lists keep only on programs that
do not cut a name, see the divergences; `PassIsComplete`, `DeclaresWhatIsWritten`, `FindsWhatTheTextDeclares`); `WritesReadBack`, that what the lists write they
read, which rests on splitting and decimals, recursions over data; `Terminates`, since liveness is out of
the prover's reach.

## Where code and text differ

With a run that shows it:

- `lua_bodies`: the Lua pass retypes a `function` opener (`lua.go:92`), and the links the next turn asks (`lua.go:136`) are those of an array without it: the body
  reads as top level, and an assignment in it becomes a declaration. R141 says declarations are sought over top-level nodes.
- `go_groups`, twice. `goListRe` (`golang.go:22`) wants a type or a value after a list of names; after a name alone (`const ( A = iota; B )`) it backs up and takes the
  name's own last letter for it, so the name recorded is cut, and one of a letter is lost. And a group with nothing in it, `var ()`, has no body text (`golang.go:108`), so
  the pass goes on as if no group were there, jumps the parentheses as a receiver (`golang.go:262`) and takes the first word after them, which may be `func`, for the name.
- `stencil_nested`: `bounds` (`stencil.go:146`) knows a nested group by its beginning before the last one taken ends. One that is empty where its
  holder ends does not, so `Done` demands a node for a group no schema should fill. `stencils.md:83-84` and R109 say that nested groups are skipped.

Met while modelling, without a run:

- IndexOf, Next, Prev, Line and Generation of a poisoned document answer (`doc.go:118`, `mutate.go:23-34`), from before the failed
  window. `mutate.go:10` says every operation returns ErrPoisoned. (`ReadsTellTheTruth` excepts poisoned documents.)
- SetText on a marker (`node.go:84`) changes what pairs and not the generation; `doc.go:168-169` says that an index over structure
  survives a content edit. (`LinksFollowStructure` excepts rewritten markers.)
- `precededBySeparator` (`schema.go:147`) looks at the last byte of the first text that holds more than white space. If blanks end that text, a
  separator before them is not seen, so an indented comment before a statement hides it. `declaration-schemas.md:60` says that a comment may
  stand wherever a space may. (`FindsWhatTheTextDeclares` excepts sources where one does.)
- A faithful node of another parse enters by Replace or Insert, and Merge slices this document's source at its offset
  (`mutate.go:144`), whereas `mutate.go:141` calls the two paths unobservable.
- Split drops the origin (`loc.go:119`); `doc.go:59` says "Split inherits the origin", and relies on it to check the parse once.
- The first read of an attached context always rebuilds (`context.go:302`); `context.go:518-520` says the first read "rebuilds nothing".
- An indented first line announces no level: position 0 is not a line start (`indent.go:176`), against R178.
- A line that begins with a transparent group and goes on with content counts as transparent (`indent.go:161`), against R183.
- Two groups of a table that open with the same text are one group to the derivation (`context.go:456`), against R355.
- A group with RejectLongerCloses and without CloseIsOpen: the derivation ends it at a longer run (`context.go:438`), the parser does not look for one
  (`bracket_parser.go:335`), and `check` (`bracket.go:263`) does not refuse the table. (`TableTells` excepts it.)
- A schema pass run again after ErrDeclarationsStale drops the names it found before, since it no longer finds the keywords it retyped
  (`PassIsComplete` shows that it finds nothing); `declarations.md` calls the state recoverable.
- `Done` compares locations (`stencil.go:184`), and without provenance a location is a length: a node of another group of the same
  length is accepted. (`ChildrenTileTheMatch` claims the bytes only with provenance.)
- A group that repeats captures its last turn only, and one that so lies before the group taken last is dropped by `bounds` in silence, as nested.
- `RequirementList.Items` drops the errors of Atoi (`list.go:129`), so a literal no parser made, `R-5`, reads as 0 to 5; and its loop over a range whose end
  is the largest int does not end.
- `RequirementList.SetItems` of no refs writes an empty literal, which its own parser refuses to read as a list; `List.SetItems` refuses to write one.

## Not modelled

- Rendering to a writer, error texts, `Equals`, the printing of locations: no state.
- The compilation of patterns, and the compiled alternation: a pattern is the set of marks it matches. `check` is the assumption on
  a table, not an algorithm.
- The regular expression engine: a stencil's match is given, a schema's expressions are written as what they match.
- `Heading.Level` and `Checkbox.SetChecked`, which read and write one text, as a Bool does; `InnerText` and `OuterText`, which slice the array at the links; `NodeType`,
  which answers what Parse would do; LineCount, which is the size of the set `Line` counts in.
- The width of numbers: a position, a generation or a ref is a natural number. Only `RequirementList.Items` could reach a limit; see above.
- The language tables are data. The tables of the runs hold one group for each combination of fields that those tables use.

## Plan

Done: Loc, Splice, Doc, VersionedOrder and their proofs; BracketTable, Pairing, BracketContext and its proofs; PairingWalk and its proofs; ParserState, BracketParser and its proofs; Frames,
IndentContext, IndentParser, MarkdownParser and their proofs; DeclarationPass and the schemas of all four languages, and the proofs of their carving; Stencil, Lists, Fields and the proofs of the stencil.

Left, in the order it is worth taking:

1. The passes over an edited document and run again: offsets that collide in `done`, links that a second pass drops.
2. Proofs: what a pass finds, of which only that it can be carved is proved; the line invariants of the layered parsers; that what `Lists` writes reads back.
