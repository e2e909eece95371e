------------------------------- MODULE Lists ------------------------------
(* A comma-separated field (sdom/list.go): what its literal reads as, and    *)
(* what a write makes of it.  A number is its decimal digits.                *)
EXTENDS Integers, Sequences, FiniteSets

LOCAL INSTANCE SequencesExt

FSE == INSTANCE FiniteSetsExt

CONSTANT Spaces         \* the bytes that are white space

Holding(bytes, set) == {k \in 1..Len(bytes) : bytes[k] \in set}

\* strings.TrimSpace.
Trim(bytes) ==
  LET solid == (1..Len(bytes)) \ Holding(bytes, Spaces)
  IN  IF solid = {} THEN <<>> ELSE SubSeq(bytes, FSE!Min(solid), FSE!Max(solid))

\* strings.Split at the commas, each piece trimmed.
Fields(literal) ==
  LET cuts == SetToSortSeq({0, Len(literal) + 1} \cup Holding(literal, {","}), <)
  IN  [i \in 1..(Len(cuts) - 1) |-> Trim(SubSeq(literal, cuts[i] + 1, cuts[i + 1] - 1))]

Items(literal) == SelectSeq(Fields(literal), LAMBDA item : item # <<>>)

IsItem(bytes) == bytes # <<>> /\ Holding(bytes, Spaces) = {}

---------------------------------------------------------------------------
(* Requirement refs.                                                        *)

Digits == <<"0", "1", "2", "3", "4", "5", "6", "7", "8", "9">>

\* strconv.Itoa.
Decimal[n \in Nat] == IF n < 10 THEN <<Digits[n + 1]>> ELSE Decimal[n \div 10] \o Decimal[n % 10]

IsNumber(bytes) == bytes # <<>> /\ \A k \in 1..Len(bytes) : bytes[k] \in ToSet(Digits)

\* strconv.Atoi, whose error is dropped.
Number(bytes) ==
  IF IsNumber(bytes)
  THEN FoldLeft(LAMBDA n, digit : 10 * n + (CHOOSE d \in 0..9 : Digits[d + 1] = digit), 0, bytes)
  ELSE 0

Unprefixed(bytes) == IF bytes # <<>> /\ bytes[1] = "R" THEN SubSeq(bytes, 2, Len(bytes)) ELSE bytes

\* strings.Cut at the first hyphen.
Cut(item) ==
  LET at == FSE!Min({Len(item) + 1} \cup Holding(item, {"-"}))
  IN  [lo |-> SubSeq(item, 1, at - 1), hi |-> SubSeq(item, at + 1, Len(item))]

IsRef(item) ==
  LET cut == Cut(item)
  IN  /\ item # <<>> /\ item[1] = "R" /\ IsNumber(Unprefixed(cut.lo))
      /\ Holding(item, {"-"}) # {} => IsNumber(Unprefixed(cut.hi))

\* A range read backwards contributes its low ref.
Expanded(item) ==
  LET a == Number(Unprefixed(Cut(item).lo))
      b == IF Cut(item).hi = <<>> THEN a ELSE Number(Unprefixed(Cut(item).hi))
      from == IF b < a THEN b ELSE a
  IN  [k \in 1..(b - from + 1) |-> from + k - 1]

\* RequirementList.Items.
Refs(literal) ==
  LET items == Items(literal)
  IN  FlattenSeq([i \in 1..Len(items) |-> Expanded(items[i])])

---------------------------------------------------------------------------
(* The two parsers, which differ in what an item is: how many bytes of a     *)
(* text are a list, 0 for none.                                             *)

IsOf(kind, item) == IF kind = "Refs" THEN IsRef(item) ELSE IsItem(item)

Listed(text, kind) ==
  FSE!Max({0} \cup {n \in 1..Len(text) :
                     \A fields \in {Fields(SubSeq(text, 1, n))} :
                       \A i \in 1..Len(fields) : IsOf(kind, fields[i])})

Joined(items) ==
  FlattenSeq([i \in 1..Len(items) |-> IF i = 1 THEN items[i] ELSE <<",", " ">> \o items[i]])

\* Mutant: the literal must parse, whatever its items are.
AcceptsWhatParses(items) ==
  LET literal == Joined(items)
  IN  literal # <<>> /\ Listed(literal, "List") = Len(literal)

\* What SetItems does not refuse: its own render, parsed again, reads the same.
Accepts(items) ==
  LET literal == Joined(items)
  IN  literal # <<>> /\ Listed(literal, "List") = Len(literal) /\ Items(literal) = items

Runs(ns) ==
  {r \in ns \X ns : r[1] =< r[2] /\ r[1]..r[2] \subseteq ns /\ r[1] - 1 \notin ns /\ r[2] + 1 \notin ns}

Ref(n) == <<"R">> \o Decimal[n]

\* A run of three or more is a range.
Condensed(run) ==
  IF run[2] - run[1] >= 2 THEN <<Ref(run[1]) \o <<"-">> \o Decimal[run[2]]>>
  ELSE [k \in 1..(run[2] - run[1] + 1) |-> Ref(run[1] + k - 1)]

\* RequirementText: sorted, without duplicates, each run condensed.
RequirementText(ns) ==
  LET runs == SetToSortSeq(Runs(ToSet(ns)), LAMBDA p, q : p[1] < q[1])
  IN  Joined(FlattenSeq([i \in 1..Len(runs) |-> Condensed(runs[i])]))
============================================================================
