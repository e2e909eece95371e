------------------------- MODULE PairingWalkProofs ------------------------
(* What the derivation of the bracket links promises, proved for every       *)
(* table, every set of elements and arrays of any length.  The patterns stay *)
(* opaque: nothing here rests on which markers pair, only on the stack.      *)
EXTENDS PairingWalk, WellFoundedInduction, TLAPS

Walkers == [id : Nat, kind : {e.kind : e \in Elements}, text : {e.text : e \in Elements}]

Infos == [opener : Nat, closer : Nat, enclosing : Nat, separators : Seq(Nat)]

\* Links are within the array walked so far.
Within(link) ==
  /\ link.opener =< Len(seen) /\ link.closer =< Len(seen) /\ link.enclosing =< Len(seen)
  /\ \A k \in 1..Len(link.separators) : link.separators[k] \in Walked

WalkTyped ==
  /\ seen \in Seq(Walkers)
  /\ stack \in Seq(Walkers)
  /\ info \in Seq(Infos) /\ Len(info) = Len(seen)
  /\ \A i \in Walked : Within(info[i])

\* The stack holds openers not paired yet, in document order.
StackInv ==
  /\ \A k \in 1..Len(stack) :
       /\ stack[k].id \in Walked
       /\ seen[stack[k].id].kind = "Opener"
       /\ info[stack[k].id].closer = None
  /\ \A j, k \in 1..Len(stack) : j < k => stack[j].id < stack[k].id

\* No open group begins inside one that was closed.
OpenOutside ==
  \A p \in Pairs : \A k \in 1..Len(stack) : ~(p[1] < stack[k].id /\ stack[k].id < p[2])

\* What was walked since a group opened, and may be enclosed, is enclosed at or
\* inside it.
OpenEncloses ==
  \A k \in 1..Len(stack) : \A n \in Walked :
    seen[n].kind # "Closer" /\ stack[k].id < n => info[n].enclosing >= stack[k].id

WalkInv ==
  /\ WalkTyped /\ StackInv /\ OpenOutside /\ OpenEncloses
  /\ PairsAreMutual /\ PairsNest /\ EnclosingIsInnermost /\ SeparatorsAreMutual

---------------------------------------------------------------------------
(* The three things a turn may do, told of the links node by node.           *)

Next1 == Len(seen) + 1

Before1(i) == IF i = Next1 THEN NoInfo ELSE info[i]

Walks(kind) ==
  /\ seen' \in Seq(Walkers) /\ Len(seen') = Next1
  /\ \A i \in Walked : seen'[i] = seen[i]
  /\ seen'[Next1].kind = kind

Links(o, c, e, s) ==
  /\ info' \in Seq(Infos) /\ Len(info') = Next1
  /\ \A i \in 1..Next1 :
       /\ info'[i].opener = o[i]
       /\ info'[i].closer = c[i]
       /\ info'[i].enclosing = e[i]
       /\ info'[i].separators = s[i]

\* A closer pairs with the j-th open group, and those above it are over.
Shuts(j) ==
  /\ Walks("Closer")
  /\ j \in 1..Len(stack)
  /\ Links([i \in 1..Next1 |-> IF i = Next1 THEN stack[j].id ELSE Before1(i).opener],
           [i \in 1..Next1 |-> IF i = stack[j].id THEN Next1 ELSE Before1(i).closer],
           [i \in 1..Next1 |-> Before1(i).enclosing],
           [i \in 1..Next1 |-> Before1(i).separators])
  /\ stack' \in Seq(Walkers) /\ Len(stack') = j - 1
  /\ \A k \in 1..Len(stack') : stack'[k] = stack[k]

\* A closer pairs with nothing; a group may be given up.
Strays ==
  /\ Walks("Closer")
  /\ Links([i \in 1..Next1 |-> Before1(i).opener],
           [i \in 1..Next1 |-> Before1(i).closer],
           [i \in 1..Next1 |-> Before1(i).enclosing],
           [i \in 1..Next1 |-> Before1(i).separators])
  /\ stack' \in Seq(Walkers) /\ Len(stack') =< Len(stack)
  /\ \A k \in 1..Len(stack') : stack'[k] = stack[k]

Top == IF stack = <<>> THEN None ELSE stack[Len(stack)].id

\* Another node is enclosed by the innermost open group; an opener opens one.
Stands(kind) ==
  /\ Walks(kind) /\ kind # "Closer"
  /\ Links([i \in 1..Next1 |-> IF i = Next1 /\ kind = "Separator" THEN Top ELSE Before1(i).opener],
           [i \in 1..Next1 |-> Before1(i).closer],
           [i \in 1..Next1 |-> IF i = Next1 THEN Top ELSE Before1(i).enclosing],
           [i \in 1..Next1 |-> IF i = Top /\ kind = "Separator"
                               THEN Append(Before1(i).separators, Next1)
                               ELSE Before1(i).separators])
  /\ stack' \in Seq(Walkers)
  /\ Len(stack') = Len(stack) + (IF kind = "Opener" THEN 1 ELSE 0)
  /\ \A k \in 1..Len(stack) : stack'[k] = stack[k]
  /\ kind = "Opener" => stack'[Len(stack')].id = Next1

---------------------------------------------------------------------------
(* A set of places that is not empty has a last one.                         *)
LEMMA MaxInPlaces ==
  ASSUME NEW len \in Nat, NEW S \in SUBSET (1..len), S # {}
  PROVE  FSE!Max(S) \in S
<1> DEFINE T == {len - x : x \in S}
<1>0. \A x \in S : x \in Nat /\ x =< len
  OBVIOUS
<1>1. T \subseteq Nat /\ T # {}
  <2>1. \A x \in S : len - x \in Nat
    BY <1>0
  <2>2. PICK x \in S : TRUE
    OBVIOUS
  <2>. QED BY <2>1, <2>2, Zenon
<1>2. \E t \in T : \A u \in T : ~(<<u, t>> \in OpToRel(<, Nat))
  BY <1>1, WFMin, NatLessThanWellFounded
<1>3. PICK t \in T : \A u \in T : ~(u < t)
  BY <1>1, <1>2 DEF OpToRel
<1>4. PICK x \in S : t = len - x
  BY <1>3
<1>5. \A y \in S : x >= y
  <2>. SUFFICES ASSUME NEW y \in S PROVE x >= y
    OBVIOUS
  <2>1. ~(len - y < t)
    BY <1>3
  <2>. QED BY <2>1, <1>4
<1>. QED BY <1>4, <1>5 DEF FSE!Max

(* An enclosing group that a closer ends is an open one.                     *)
LEMMA EnclosingIsOpen ==
  ASSUME stack \in Seq(Walkers), NEW n
  PROVE  EnclosingCloses(stack, n) \in 0..Len(stack)
<1> DEFINE found == {j \in 1..(Len(stack) - 1) :
                       /\ Closes(stack[j], n)
                       /\ \A k \in (j + 1)..Len(stack) : CodeMode(stack[k])}
<1>1. EnclosingCloses(stack, n) = IF found = {} THEN 0 ELSE FSE!Max(found)
  BY DEF EnclosingCloses
<1>2. found \in SUBSET (1..Len(stack)) /\ Len(stack) \in Nat
  OBVIOUS
<1>. HIDE DEF found
<1>3. CASE found = {}
  BY <1>1, <1>2, <1>3
<1>4. CASE found # {}
  <2>1. FSE!Max(found) \in found
    BY <1>2, <1>4, MaxInPlaces
  <2>2. FSE!Max(found) \in 1..Len(stack)
    BY <2>1, <1>2, Zenon
  <2>. QED BY <1>1, <1>2, <1>4, <2>2
<1>. QED BY <1>3, <1>4

---------------------------------------------------------------------------
(* The links of the array with one node more, before the turn.               *)
LEMMA Extended ==
  ASSUME WalkTyped
  PROVE  /\ Append(info, NoInfo) \in Seq(Infos)
         /\ Len(Append(info, NoInfo)) = Next1
         /\ Next1 \in Nat /\ Next1 \notin Walked
         /\ \A i \in 1..Next1 : Append(info, NoInfo)[i] = Before1(i) /\ Before1(i) \in Infos
<1>1. NoInfo \in Infos
  BY DEF NoInfo, Infos, None
<1>2. info \in Seq(Infos) /\ Len(info) = Len(seen) /\ Len(seen) \in Nat
  BY DEF WalkTyped
<1>. HIDE DEF NoInfo
<1>. QED BY <1>1, <1>2 DEF Next1, Before1, Walked

LEMMA PairLinks ==
  ASSUME WalkTyped, NEW o \in Walked, NEW open, open.id = o, NEW n, n.id = Next1,
         info' = Pair(Append(info, NoInfo), open, n)
  PROVE  Links([i \in 1..Next1 |-> IF i = Next1 THEN o ELSE Before1(i).opener],
               [i \in 1..Next1 |-> IF i = o THEN Next1 ELSE Before1(i).closer],
               [i \in 1..Next1 |-> Before1(i).enclosing],
               [i \in 1..Next1 |-> Before1(i).separators])
<1> DEFINE A == Append(info, NoInfo)
           a == [Before1(o) EXCEPT !.closer = Next1]
           b == [Before1(Next1) EXCEPT !.opener = o]
<1>1. /\ A \in Seq(Infos) /\ Len(A) = Next1
      /\ Next1 \in Nat /\ o # Next1 /\ o \in 1..Next1 /\ Next1 \in 1..Next1
      /\ \A i \in 1..Next1 : A[i] = Before1(i) /\ Before1(i) \in Infos
  BY Extended DEF Walked, Next1
<1>2. a \in Infos /\ b \in Infos
  <2>1. Before1(o) \in Infos /\ Before1(Next1) \in Infos /\ o \in Nat /\ Next1 \in Nat
    BY <1>1
  <2>. QED BY <2>1 DEF Infos
<1>. HIDE DEF A
<1>3. info' = [[A EXCEPT ![o].closer = Next1] EXCEPT ![Next1].opener = o]
  BY DEF Pair, A
<1>4. info' = [[A EXCEPT ![o] = a] EXCEPT ![Next1] = b]
  BY <1>1, <1>3
<1>. HIDE DEF a, b
<1>5. /\ info' \in Seq(Infos) /\ Len(info') = Next1
      /\ \A i \in 1..Next1 : info'[i] = IF i = Next1 THEN b ELSE IF i = o THEN a ELSE Before1(i)
  BY <1>1, <1>2, <1>4
<1>6. /\ a.opener = Before1(o).opener /\ a.closer = Next1
      /\ a.enclosing = Before1(o).enclosing /\ a.separators = Before1(o).separators
      /\ b.opener = o /\ b.closer = Before1(Next1).closer
      /\ b.enclosing = Before1(Next1).enclosing /\ b.separators = Before1(Next1).separators
  BY <1>1 DEF a, b, Infos
<1>. QED BY <1>1, <1>5, <1>6 DEF Links

LEMMA EncloseLinks ==
  ASSUME WalkTyped, NEW t \in Walked, NEW open, open.id = t, NEW n, n.id = Next1,
         info' = Enclose(Append(info, NoInfo), n, open)
  PROVE  Links([i \in 1..Next1 |-> IF i = Next1 /\ n.kind = "Separator" THEN t ELSE Before1(i).opener],
               [i \in 1..Next1 |-> Before1(i).closer],
               [i \in 1..Next1 |-> IF i = Next1 THEN t ELSE Before1(i).enclosing],
               [i \in 1..Next1 |-> IF i = t /\ n.kind = "Separator"
                                   THEN Append(Before1(i).separators, Next1)
                                   ELSE Before1(i).separators])
<1> DEFINE A == Append(info, NoInfo)
           a == [Before1(Next1) EXCEPT !.enclosing = t]
           b == [a EXCEPT !.opener = t]
           c == [Before1(t) EXCEPT !.separators = Append(@, Next1)]
<1>1. /\ A \in Seq(Infos) /\ Len(A) = Next1
      /\ Next1 \in Nat /\ t \in Nat /\ t # Next1 /\ t \in 1..Next1 /\ Next1 \in 1..Next1
      /\ \A i \in 1..Next1 : A[i] = Before1(i) /\ Before1(i) \in Infos
  BY Extended DEF Walked, Next1
<1>2. Before1(t) \in Infos /\ Before1(Next1) \in Infos
  BY <1>1
<1>3. /\ a \in Infos /\ a.opener = Before1(Next1).opener /\ a.closer = Before1(Next1).closer
      /\ a.enclosing = t /\ a.separators = Before1(Next1).separators
  BY <1>1, <1>2 DEF Infos
<1>4. /\ b \in Infos /\ b.opener = t /\ b.closer = Before1(Next1).closer
      /\ b.enclosing = t /\ b.separators = Before1(Next1).separators
  BY <1>1, <1>3 DEF Infos
<1>5. /\ c \in Infos /\ c.opener = Before1(t).opener /\ c.closer = Before1(t).closer
      /\ c.enclosing = Before1(t).enclosing /\ c.separators = Append(Before1(t).separators, Next1)
  <2>1. Append(Before1(t).separators, Next1) \in Seq(Nat)
    BY <1>1, <1>2 DEF Infos
  <2>. QED BY <1>2, <2>1 DEF Infos
<1>. HIDE DEF A
<1>6. CASE n.kind = "Separator"
  <2>1. info' = [[[A EXCEPT ![Next1].enclosing = t] EXCEPT ![Next1].opener = t]
                   EXCEPT ![t].separators = Append(@, Next1)]
    BY <1>6 DEF Enclose, A
  <2>2. info' = [[[A EXCEPT ![Next1] = a] EXCEPT ![Next1] = b] EXCEPT ![t] = c]
    BY <1>1, <2>1
  <2>. HIDE DEF a, b, c
  <2>3. /\ info' \in Seq(Infos) /\ Len(info') = Next1
        /\ \A i \in 1..Next1 : info'[i] = IF i = t THEN c ELSE IF i = Next1 THEN b ELSE Before1(i)
    BY <1>1, <1>3, <1>4, <1>5, <2>2
  <2>. QED BY <1>1, <1>4, <1>5, <1>6, <2>3 DEF Links
<1>7. CASE n.kind # "Separator"
  <2>1. info' = [A EXCEPT ![Next1].enclosing = t]
    BY <1>7 DEF Enclose, A
  <2>2. info' = [A EXCEPT ![Next1] = a]
    BY <1>1, <2>1
  <2>. HIDE DEF a, b, c
  <2>3. /\ info' \in Seq(Infos) /\ Len(info') = Next1
        /\ \A i \in 1..Next1 : info'[i] = IF i = Next1 THEN a ELSE Before1(i)
    BY <1>1, <1>3, <2>2
  <2>. QED BY <1>1, <1>3, <1>7, <2>3 DEF Links
<1>. QED BY <1>6, <1>7

LEMMA SameLinks ==
  ASSUME WalkTyped, info' = Append(info, NoInfo)
  PROVE  Links([i \in 1..Next1 |-> Before1(i).opener],
               [i \in 1..Next1 |-> Before1(i).closer],
               [i \in 1..Next1 |-> Before1(i).enclosing],
               [i \in 1..Next1 |-> Before1(i).separators])
BY Extended DEF Links

(* A turn does one of the three things, whatever the patterns say.           *)
LEMMA TurnIs ==
  ASSUME WalkTyped, StackInv, NEW e \in Elements, Turn(e)
  PROVE  (\E j \in 1..Len(stack) : Shuts(j)) \/ Strays \/ Stands(e.kind)
<1> DEFINE n == [id |-> Next1, kind |-> e.kind, text |-> e.text]
           A == Append(info, NoInfo)
<1>1. /\ seen \in Seq(Walkers) /\ stack \in Seq(Walkers) /\ Len(seen) \in Nat /\ Len(stack) \in Nat
      /\ Next1 \in Nat
  BY DEF WalkTyped, Next1
<1>2. n \in Walkers /\ n.id = Next1 /\ n.kind = e.kind
  BY <1>1 DEF Walkers
<1>3. /\ seen' = Append(seen, n)
      /\ info' = Visit([info |-> A, stack |-> stack], n).info
      /\ stack' = Visit([info |-> A, stack |-> stack], n).stack
  BY DEF Turn, Next1
<1>. HIDE DEF n, A
<1>4. Walks(e.kind)
  BY <1>1, <1>2, <1>3 DEF Walks, Walked, Next1
<1>5. \A k \in 1..Len(stack) : stack[k].id \in Walked
  BY DEF StackInv
<1>6. CASE e.kind = "Closer"
  <2>0. /\ info' = AtCloser(A, stack, n).info
        /\ stack' = AtCloser(A, stack, n).stack
    BY <1>2, <1>3, <1>6 DEF Visit
  <2> DEFINE j == EnclosingCloses(stack, n)
  <2>1. j \in 0..Len(stack)
    BY <1>1, EnclosingIsOpen
  <2>. HIDE DEF j
  <2>2. \/ info' = A /\ stack' = stack
        \/ info' = A /\ stack # <<>> /\ stack' = SQE!Front(stack)
        \/ stack # <<>> /\ info' = Pair(A, SQE!Last(stack), n) /\ stack' = SQE!Front(stack)
        \/ j > 0 /\ info' = Pair(A, stack[j], n) /\ stack' = SubSeq(stack, 1, j - 1)
    BY <2>0, Zenon DEF AtCloser, j
  <2>3. CASE info' = A /\ stack' = stack
    BY <1>1, <1>4, <1>6, <2>3, SameLinks DEF Strays, A
  <2>4. CASE info' = A /\ stack # <<>> /\ stack' = SQE!Front(stack)
    BY <1>1, <1>4, <1>6, <2>4, SameLinks DEF Strays, A, SQE!Front
  <2>5. ASSUME NEW i \in 1..Len(stack), info' = Pair(A, stack[i], n), stack' = SubSeq(stack, 1, i - 1)
        PROVE  Shuts(i)
    <3>1. stack[i].id \in Walked
      BY <1>5
    <3>2. /\ stack' \in Seq(Walkers) /\ Len(stack') = i - 1
          /\ \A k \in 1..Len(stack') : stack'[k] = stack[k]
      BY <1>1, <2>5
    <3>. QED BY <1>2, <1>4, <1>6, <2>5, <3>1, <3>2, PairLinks DEF Shuts, A
  <2>6. stack # <<>> => Len(stack) \in 1..Len(stack)
    BY <1>1
  <2>. QED BY <1>1, <2>1, <2>2, <2>3, <2>4, <2>5, <2>6 DEF SQE!Last, SQE!Front
<1>7. CASE e.kind # "Closer"
  <2>1. /\ info' = IF stack = <<>> THEN A ELSE Enclose(A, n, SQE!Last(stack))
        /\ stack' = IF e.kind = "Opener" THEN Append(stack, n) ELSE stack
    BY <1>2, <1>3, <1>7 DEF Visit, AtOther
  <2>2. /\ stack' \in Seq(Walkers)
        /\ Len(stack') = Len(stack) + (IF e.kind = "Opener" THEN 1 ELSE 0)
        /\ \A k \in 1..Len(stack) : stack'[k] = stack[k]
        /\ e.kind = "Opener" => stack'[Len(stack')].id = Next1
    BY <1>1, <1>2, <2>1
  <2>3. Links([i \in 1..Next1 |-> IF i = Next1 /\ e.kind = "Separator" THEN Top ELSE Before1(i).opener],
              [i \in 1..Next1 |-> Before1(i).closer],
              [i \in 1..Next1 |-> IF i = Next1 THEN Top ELSE Before1(i).enclosing],
              [i \in 1..Next1 |-> IF i = Top /\ e.kind = "Separator"
                                  THEN Append(Before1(i).separators, Next1)
                                  ELSE Before1(i).separators])
    <3>1. CASE stack = <<>>
      <4>1. Top = 0 /\ \A i \in 1..Next1 : i # Top
        BY <3>1 DEF Top, None
      <4>2. Before1(Next1).opener = 0 /\ Before1(Next1).enclosing = 0
        BY DEF Before1, NoInfo, None
      <4>. QED BY <2>1, <3>1, <4>1, <4>2, SameLinks DEF A, Links
    <3>2. CASE stack # <<>>
      <4>1. Len(stack) \in 1..Len(stack)
        BY <1>1, <3>2
      <4>2. Top \in Walked /\ SQE!Last(stack).id = Top
        BY <1>5, <3>2, <4>1 DEF Top, SQE!Last
      <4>3. info' = Enclose(A, n, SQE!Last(stack))
        BY <2>1, <3>2
      <4>. QED BY <1>2, <4>2, <4>3, EncloseLinks DEF A
    <3>. QED BY <3>1, <3>2
  <2>. QED BY <1>4, <1>7, <2>2, <2>3 DEF Stands
<1>. QED BY <1>6, <1>7

---------------------------------------------------------------------------
(* What each leaves of the nodes walked before, and what the new node gets.  *)
Grown ==
  /\ Len(seen) \in Nat /\ Next1 = Len(seen) + 1 /\ Next1 \in Nat
  /\ Walked' = 1..Next1
  /\ \A i \in Walked' : i \in Walked \/ i = Next1
  /\ \A i \in Walked : i \in Walked' /\ i < Next1 /\ i # Next1 /\ i # None /\ i \in Nat
  /\ Next1 \in Walked' /\ Next1 # None
  /\ \A i \in Walked : seen'[i] = seen[i]
  /\ \A i \in Walked : info[i] \in Infos /\ Within(info[i])

LEMMA WalksGrows ==
  ASSUME WalkTyped, NEW kind, Walks(kind)
  PROVE  Grown
BY DEF WalkTyped, Walks, Grown, Walked, Next1, None

LEMMA ShutsFacts ==
  ASSUME WalkTyped, StackInv, NEW j \in 1..Len(stack), Shuts(j)
  PROVE  /\ Grown
         /\ stack[j].id \in Walked
         /\ \A i \in Walked :
              /\ info'[i].closer = IF i = stack[j].id THEN Next1 ELSE info[i].closer
              /\ info'[i].opener = info[i].opener
              /\ info'[i].enclosing = info[i].enclosing
              /\ info'[i].separators = info[i].separators
         /\ seen'[Next1].kind = "Closer"
         /\ info'[Next1].closer = None /\ info'[Next1].opener = stack[j].id
         /\ info'[Next1].enclosing = None /\ info'[Next1].separators = <<>>
<1>1. Grown /\ stack[j].id \in Walked
  BY WalksGrows DEF Shuts, StackInv
<1>2. \A i \in Walked : i \in 1..Next1 /\ i # Next1
  BY <1>1 DEF Grown
<1>3. Next1 \in 1..Next1
  BY <1>1 DEF Grown
<1>. QED BY <1>1, <1>2, <1>3 DEF Shuts, Links, Walks, Before1, NoInfo

LEMMA StraysFacts ==
  ASSUME WalkTyped, Strays
  PROVE  /\ Grown
         /\ \A i \in Walked :
              /\ info'[i].closer = info[i].closer
              /\ info'[i].opener = info[i].opener
              /\ info'[i].enclosing = info[i].enclosing
              /\ info'[i].separators = info[i].separators
         /\ seen'[Next1].kind = "Closer"
         /\ info'[Next1].closer = None /\ info'[Next1].opener = None
         /\ info'[Next1].enclosing = None /\ info'[Next1].separators = <<>>
<1>1. Grown
  BY WalksGrows DEF Strays
<1>2. \A i \in Walked : i \in 1..Next1 /\ i # Next1
  BY <1>1 DEF Grown
<1>3. Next1 \in 1..Next1
  BY <1>1 DEF Grown
<1>. QED BY <1>1, <1>2, <1>3 DEF Strays, Links, Walks, Before1, NoInfo

LEMMA StandsFacts ==
  ASSUME WalkTyped, StackInv, NEW kind, Stands(kind)
  PROVE  /\ Grown
         /\ Top = None \/ (stack # <<>> /\ Top \in Walked)
         /\ \A i \in Walked :
              /\ info'[i].closer = info[i].closer
              /\ info'[i].opener = info[i].opener
              /\ info'[i].enclosing = info[i].enclosing
              /\ info'[i].separators =
                   IF i = Top /\ kind = "Separator" THEN Append(info[i].separators, Next1)
                   ELSE info[i].separators
         /\ seen'[Next1].kind = kind /\ kind # "Closer"
         /\ info'[Next1].closer = None
         /\ info'[Next1].opener = IF kind = "Separator" THEN Top ELSE None
         /\ info'[Next1].enclosing = Top /\ info'[Next1].separators = <<>>
<1>1. Grown
  BY WalksGrows DEF Stands
<1>2. \A i \in Walked : i \in 1..Next1 /\ i # Next1
  BY <1>1 DEF Grown
<1>3. Next1 \in 1..Next1
  BY <1>1 DEF Grown
<1>4. Top = None \/ (stack # <<>> /\ Top \in Walked)
  <2>1. CASE stack # <<>>
    <3>1. Len(stack) \in 1..Len(stack)
      BY <2>1 DEF WalkTyped
    <3>. QED BY <2>1, <3>1 DEF Top, StackInv
  <2>. QED BY <2>1 DEF Top
<1>5. Top # Next1
  BY <1>1, <1>4 DEF Grown, None
<1>. QED BY <1>1, <1>2, <1>3, <1>4, <1>5 DEF Stands, Links, Walks, Before1, NoInfo

---------------------------------------------------------------------------
(* One lemma for each part of the invariant.                                 *)
LEMMA OldWithin ==
  ASSUME WalkTyped, Grown
  PROVE  \A i \in Walked :
           /\ info[i].opener \in Nat /\ info[i].closer \in Nat /\ info[i].enclosing \in Nat
           /\ info[i].opener < Next1 /\ info[i].closer < Next1 /\ info[i].enclosing < Next1
           /\ info[i].separators \in Seq(Nat)
           /\ \A k \in 1..Len(info[i].separators) :
                info[i].separators[k] \in Walked /\ info[i].separators[k] \in Walked'
BY DEF Grown, Infos, Within

(* The types follow, if the links of the array so far are within it.         *)
LEMMA TypedFrom ==
  ASSUME WalkTyped, Grown, NEW kind, Walks(kind),
         info' \in Seq(Infos), Len(info') = Next1, stack' \in Seq(Walkers),
         \A i \in Walked' :
           /\ info'[i].opener =< Next1 /\ info'[i].closer =< Next1 /\ info'[i].enclosing =< Next1
           /\ \A k \in 1..Len(info'[i].separators) : info'[i].separators[k] \in Walked'
  PROVE  WalkTyped'
BY DEF WalkTyped, Within, Walks

LEMMA TypedKept ==
  ASSUME WalkTyped, StackInv,
         (\E j \in 1..Len(stack) : Shuts(j)) \/ Strays \/ \E kind : Stands(kind)
  PROVE  WalkTyped'
<1>1. ASSUME NEW j \in 1..Len(stack), Shuts(j) PROVE WalkTyped'
  <2>1. Grown /\ stack[j].id \in Walked
    BY <1>1, ShutsFacts
  <2>2. ASSUME NEW i \in Walked
        PROVE  /\ info'[i].opener =< Next1 /\ info'[i].closer =< Next1 /\ info'[i].enclosing =< Next1
               /\ \A k \in 1..Len(info'[i].separators) : info'[i].separators[k] \in Walked'
    <3>1. /\ info'[i].opener = info[i].opener /\ info'[i].enclosing = info[i].enclosing
          /\ info'[i].closer = IF i = stack[j].id THEN Next1 ELSE info[i].closer
          /\ info'[i].separators = info[i].separators
      BY <1>1, <2>2, ShutsFacts
    <3>2. Next1 \in Nat
      BY <2>1 DEF Grown
    <3>. QED BY <2>1, <2>2, <3>1, <3>2, OldWithin
  <2>3. /\ info'[Next1].opener =< Next1 /\ info'[Next1].closer =< Next1
        /\ info'[Next1].enclosing =< Next1 /\ info'[Next1].separators = <<>>
    BY <1>1, <2>1, ShutsFacts DEF Grown, None
  <2>. QED BY <1>1, <2>1, <2>2, <2>3, TypedFrom DEF Shuts, Links, Grown
<1>2. ASSUME Strays PROVE WalkTyped'
  <2>1. Grown
    BY <1>2, StraysFacts
  <2>2. ASSUME NEW i \in Walked
        PROVE  /\ info'[i].opener =< Next1 /\ info'[i].closer =< Next1 /\ info'[i].enclosing =< Next1
               /\ \A k \in 1..Len(info'[i].separators) : info'[i].separators[k] \in Walked'
    <3>1. /\ info'[i].opener = info[i].opener /\ info'[i].enclosing = info[i].enclosing
          /\ info'[i].closer = info[i].closer /\ info'[i].separators = info[i].separators
      BY <1>2, <2>2, StraysFacts
    <3>2. Next1 \in Nat
      BY <2>1 DEF Grown
    <3>. QED BY <2>1, <2>2, <3>1, <3>2, OldWithin
  <2>3. /\ info'[Next1].opener =< Next1 /\ info'[Next1].closer =< Next1
        /\ info'[Next1].enclosing =< Next1 /\ info'[Next1].separators = <<>>
    BY <1>2, <2>1, StraysFacts DEF Grown, None
  <2>. QED BY <1>2, <2>1, <2>2, <2>3, TypedFrom DEF Strays, Links, Grown
<1>3. ASSUME NEW kind, Stands(kind) PROVE WalkTyped'
  <2>1. Grown /\ (Top = None \/ Top \in Walked)
    BY <1>3, StandsFacts
  <2>2. ASSUME NEW i \in Walked
        PROVE  /\ info'[i].opener =< Next1 /\ info'[i].closer =< Next1 /\ info'[i].enclosing =< Next1
               /\ \A k \in 1..Len(info'[i].separators) : info'[i].separators[k] \in Walked'
    <3>1. /\ info'[i].opener = info[i].opener /\ info'[i].closer = info[i].closer
          /\ info'[i].enclosing = info[i].enclosing
          /\ info'[i].separators = info[i].separators
             \/ info'[i].separators = Append(info[i].separators, Next1)
      BY <1>3, <2>2, StandsFacts
    <3>2. Next1 \in Walked' /\ Next1 \in Nat
      BY <2>1 DEF Grown
    <3>3. /\ info[i].separators \in Seq(Nat)
          /\ \A k \in 1..Len(info[i].separators) : info[i].separators[k] \in Walked'
      BY <2>1, <2>2, OldWithin
    <3>4. \A k \in 1..Len(info'[i].separators) : info'[i].separators[k] \in Walked'
      <4>1. CASE info'[i].separators = info[i].separators
        BY <3>3, <4>1
      <4>2. CASE info'[i].separators = Append(info[i].separators, Next1)
        <5> DEFINE t == info[i].separators
        <5>1. /\ t \in Seq(Nat) /\ Len(Append(t, Next1)) = Len(t) + 1
              /\ Append(t, Next1)[Len(t) + 1] = Next1
              /\ \A k \in 1..Len(t) : Append(t, Next1)[k] = t[k]
          BY <3>2, <3>3
        <5>. HIDE DEF t
        <5>2. info'[i].separators = Append(t, Next1)
          BY <4>2 DEF t
        <5>3. \A k \in 1..Len(t) : t[k] \in Walked'
          BY <3>3 DEF t
        <5>4. \A k \in 1..(Len(t) + 1) : k \in 1..Len(t) \/ k = Len(t) + 1
          BY <5>1
        <5>. QED BY <3>2, <5>1, <5>2, <5>3, <5>4, Zenon
      <4>. QED BY <3>1, <4>1, <4>2
    <3>. QED BY <2>1, <2>2, <3>1, <3>2, <3>4, OldWithin
  <2>3. /\ info'[Next1].opener =< Next1 /\ info'[Next1].closer =< Next1
        /\ info'[Next1].enclosing =< Next1 /\ info'[Next1].separators = <<>>
    BY <1>3, <2>1, StandsFacts DEF Grown, None
  <2>. QED BY <1>3, <2>1, <2>2, <2>3, TypedFrom DEF Stands, Links, Grown
<1>. QED BY <1>1, <1>2, <1>3

LEMMA StackKept ==
  ASSUME WalkTyped, StackInv,
         (\E j \in 1..Len(stack) : Shuts(j)) \/ Strays \/ \E kind : Stands(kind)
  PROVE  StackInv'
<1>0. Len(stack) \in Nat /\ \A k \in 1..Len(stack) : stack[k].id \in Nat
  <2>1. stack \in Seq(Walkers)
    BY DEF WalkTyped
  <2>2. \A w \in Walkers : w.id \in Nat
    BY DEF Walkers
  <2>. QED BY <2>1, <2>2
<1>1. ASSUME NEW j \in 1..Len(stack), Shuts(j) PROVE StackInv'
  <2>1. /\ Len(stack') = j - 1
        /\ \A k \in 1..Len(stack') : k \in 1..Len(stack) /\ k < j /\ stack'[k] = stack[k]
    BY <1>0, <1>1 DEF Shuts
  <2>2. ASSUME NEW k \in 1..Len(stack')
        PROVE  /\ stack'[k].id \in Walked'
               /\ seen'[stack'[k].id].kind = "Opener"
               /\ info'[stack'[k].id].closer = None
    <3>1. stack[k].id \in Walked /\ stack[k].id # stack[j].id
      BY <1>0, <2>1, <2>2 DEF StackInv
    <3>2. seen[stack[k].id].kind = "Opener" /\ info[stack[k].id].closer = None
      BY <2>1, <2>2 DEF StackInv
    <3>3. info'[stack[k].id].closer = None
      BY <1>1, <3>1, <3>2, ShutsFacts
    <3>4. stack[k].id \in Walked' /\ seen'[stack[k].id].kind = "Opener"
      BY <1>1, <3>1, <3>2, ShutsFacts DEF Grown
    <3>. QED BY <2>1, <2>2, <3>3, <3>4
  <2>3. \A i, k \in 1..Len(stack') : i < k => stack'[i].id < stack'[k].id
    BY <2>1 DEF StackInv
  <2>. QED BY <2>2, <2>3 DEF StackInv
<1>2. ASSUME Strays PROVE StackInv'
  <2>1. \A k \in 1..Len(stack') : k \in 1..Len(stack) /\ stack'[k] = stack[k]
    BY <1>0, <1>2 DEF Strays
  <2>2. ASSUME NEW k \in 1..Len(stack')
        PROVE  /\ stack'[k].id \in Walked'
               /\ seen'[stack'[k].id].kind = "Opener"
               /\ info'[stack'[k].id].closer = None
    BY <1>2, <2>1, <2>2, StraysFacts DEF StackInv, Grown
  <2>3. \A i, k \in 1..Len(stack') : i < k => stack'[i].id < stack'[k].id
    BY <2>1 DEF StackInv
  <2>. QED BY <2>2, <2>3 DEF StackInv
<1>3. ASSUME NEW kind, Stands(kind) PROVE StackInv'
  <2>1. /\ Len(stack') = Len(stack) + (IF kind = "Opener" THEN 1 ELSE 0)
        /\ \A k \in 1..Len(stack) : stack'[k] = stack[k]
        /\ kind = "Opener" => stack'[Len(stack')].id = Next1
    BY <1>3 DEF Stands
  <2>2. \A k \in 1..Len(stack') :
          \/ k \in 1..Len(stack) /\ stack'[k].id = stack[k].id
          \/ kind = "Opener" /\ k = Len(stack) + 1 /\ stack'[k].id = Next1
    BY <1>0, <2>1
  <2>3. \A k \in 1..Len(stack) : stack[k].id \in Walked /\ stack[k].id < Next1
    BY <1>3, StandsFacts DEF StackInv, Grown
  <2>4. ASSUME NEW k \in 1..Len(stack')
        PROVE  /\ stack'[k].id \in Walked'
               /\ seen'[stack'[k].id].kind = "Opener"
               /\ info'[stack'[k].id].closer = None
    <3>1. CASE k \in 1..Len(stack) /\ stack'[k].id = stack[k].id
      <4>1. /\ stack[k].id \in Walked /\ seen[stack[k].id].kind = "Opener"
            /\ info[stack[k].id].closer = None
        BY <3>1 DEF StackInv
      <4>2. info'[stack[k].id].closer = None
        BY <1>3, <4>1, StandsFacts
      <4>3. stack[k].id \in Walked' /\ seen'[stack[k].id].kind = "Opener"
        BY <1>3, <4>1, StandsFacts DEF Grown
      <4>. QED BY <3>1, <4>2, <4>3
    <3>2. CASE kind = "Opener" /\ stack'[k].id = Next1
      BY <1>3, <3>2, StandsFacts DEF Grown
    <3>. QED BY <2>2, <2>4, <3>1, <3>2
  <2>5. ASSUME NEW i \in 1..Len(stack'), NEW k \in 1..Len(stack'), i < k
        PROVE  stack'[i].id < stack'[k].id
    <3>1. i \in 1..Len(stack) /\ stack'[i].id = stack[i].id
      BY <1>0, <2>1, <2>5
    <3>. QED BY <2>2, <2>3, <2>5, <3>1 DEF StackInv
  <2>. QED BY <2>4, <2>5 DEF StackInv
<1>. QED BY <1>1, <1>2, <1>3

---------------------------------------------------------------------------
(* The pairs after a turn: those there were, and one more if a closer shut.  *)
Steps == (\E j \in 1..Len(stack) : Shuts(j)) \/ Strays \/ \E kind : Stands(kind)

LEMMA PairFacts ==
  ASSUME WalkTyped, Grown, NEW p \in Pairs
  PROVE  /\ p[1] \in Walked /\ p[2] \in Walked /\ info[p[1]].closer = p[2]
         /\ p[1] \in Nat /\ p[2] \in Nat /\ p[1] < Next1 /\ p[2] < Next1
<1>1. p[1] \in Walked /\ p[2] \in Walked /\ info[p[1]].closer = p[2]
  BY DEF Pairs, Paired
<1>. QED BY <1>1 DEF Grown

LEMMA PairsFrom ==
  ASSUME WalkTyped, Grown, NEW x,
         info'[Next1].closer = None,
         \A i \in Walked : info'[i].closer = IF i = x THEN Next1 ELSE info[i].closer
  PROVE  \A p \in Pairs' :
           p \in Pairs \/ (p[1] = x /\ p[2] = Next1 /\ x \in Walked)
<1>. SUFFICES ASSUME NEW p \in Pairs', ~(p[1] = x /\ p[2] = Next1 /\ x \in Walked)
              PROVE  p \in Pairs
  OBVIOUS
<1>1. /\ p \in Walked' \X Walked' /\ p[1] \in Walked' /\ p[2] \in Walked'
      /\ info'[p[1]].closer = p[2]
  BY DEF Pairs, Paired
<1>2. p[2] # None
  BY <1>1 DEF Grown, None
<1>3. p[1] \in Walked
  BY <1>1, <1>2 DEF Grown
<1>4. info[p[1]].closer = p[2]
  BY <1>1, <1>3
<1>5. p[2] \in Nat /\ p[2] < Next1 /\ Next1 \in Nat
  BY <1>3, <1>4, OldWithin DEF Grown
<1>6. p[2] \in Walked
  BY <1>1, <1>5 DEF Grown
<1>. QED BY <1>1, <1>3, <1>4, <1>6 DEF Pairs, Paired

LEMMA ShutsPairs ==
  ASSUME WalkTyped, StackInv, NEW j \in 1..Len(stack), Shuts(j)
  PROVE  \A p \in Pairs' : p \in Pairs \/ (p[1] = stack[j].id /\ p[2] = Next1)
<1>1. /\ Grown /\ info'[Next1].closer = None
      /\ \A i \in Walked : info'[i].closer = IF i = stack[j].id THEN Next1 ELSE info[i].closer
  BY ShutsFacts
<1>. QED BY <1>1, PairsFrom

LEMMA OtherPairs ==
  ASSUME WalkTyped, StackInv, Strays \/ \E kind : Stands(kind)
  PROVE  Pairs' \subseteq Pairs
<1>1. /\ Grown /\ info'[Next1].closer = None
      /\ \A i \in Walked : info'[i].closer = info[i].closer
  BY StraysFacts, StandsFacts
<1>2. \A i \in Walked : i # None
  BY <1>1 DEF Grown
<1>3. \A i \in Walked : info'[i].closer = IF i = None THEN Next1 ELSE info[i].closer
  BY <1>1, <1>2
<1>4. \A p \in Pairs' : p \in Pairs \/ (p[1] = None /\ p[2] = Next1 /\ None \in Walked)
  BY <1>1, <1>3, PairsFrom
<1>. QED BY <1>2, <1>4

(* The groups left open after a turn were open, but one that just opened.    *)
LEMMA OpenFrom ==
  ASSUME WalkTyped, StackInv, Steps
  PROVE  \A k \in 1..Len(stack') :
           \/ k \in 1..Len(stack) /\ stack'[k].id = stack[k].id
           \/ stack'[k].id = Next1
<1>0. Len(stack) \in Nat
  BY DEF WalkTyped
<1>1. CASE \E j \in 1..Len(stack) : Shuts(j)
  BY <1>0, <1>1 DEF Shuts
<1>2. CASE Strays
  BY <1>0, <1>2 DEF Strays
<1>3. ASSUME NEW kind, Stands(kind)
      PROVE  \A k \in 1..Len(stack') :
               \/ k \in 1..Len(stack) /\ stack'[k].id = stack[k].id
               \/ stack'[k].id = Next1
  BY <1>0, <1>3 DEF Stands
<1>. QED BY <1>1, <1>2, <1>3 DEF Steps

LEMMA OpenOutsideKept ==
  ASSUME WalkTyped, StackInv, OpenOutside, Steps
  PROVE  OpenOutside'
<1>. SUFFICES ASSUME NEW p \in Pairs', NEW k \in 1..Len(stack'),
                     p[1] < stack'[k].id, stack'[k].id < p[2]
              PROVE  FALSE
  BY DEF OpenOutside
<1>0. Grown /\ Next1 \in Nat
  BY ShutsFacts, StraysFacts, StandsFacts DEF Steps, Grown
<1>1. CASE p \in Pairs
  <2>1. p[2] < Next1 /\ p[2] \in Nat
    BY <1>0, <1>1, PairFacts
  <2>2. stack'[k].id # Next1
    BY <1>0, <2>1
  <2>3. k \in 1..Len(stack) /\ stack'[k].id = stack[k].id
    BY <2>2, OpenFrom
  <2>. QED BY <1>1, <2>3 DEF OpenOutside
<1>2. ASSUME NEW j \in 1..Len(stack), Shuts(j), p[1] = stack[j].id
      PROVE  FALSE
  <2>1. k \in 1..Len(stack) /\ k < j /\ stack'[k] = stack[k]
    BY <1>2 DEF Shuts, WalkTyped
  <2>2. stack[k].id < stack[j].id /\ stack[k].id \in Walked /\ stack[j].id \in Walked
    BY <2>1 DEF StackInv
  <2>3. stack[k].id \in Nat /\ stack[j].id \in Nat
    BY <1>0, <2>2 DEF Grown
  <2>. QED BY <1>2, <2>1, <2>2, <2>3
<1>. QED BY <1>1, <1>2, ShutsPairs, OtherPairs DEF Steps

LEMMA NestKept ==
  ASSUME WalkTyped, StackInv, OpenOutside, PairsNest, Steps
  PROVE  PairsNest'
<1>. SUFFICES ASSUME NEW p \in Pairs', NEW q \in Pairs',
                     p[1] < q[1], q[1] < p[2], p[2] < q[2]
              PROVE  FALSE
  BY DEF PairsNest
<1>0. Grown /\ Next1 \in Nat
  BY ShutsFacts, StraysFacts, StandsFacts DEF Steps, Grown
<1>1. CASE p \in Pairs /\ q \in Pairs
  BY <1>1 DEF PairsNest
<1>2. ASSUME NEW j \in 1..Len(stack), Shuts(j), p \in Pairs, q[1] = stack[j].id
      PROVE  FALSE
  BY <1>2 DEF OpenOutside
<1>3. ASSUME p[2] = Next1, q \in Pairs
      PROVE  FALSE
  BY <1>0, <1>3, PairFacts
<1>4. ASSUME p[1] = q[1]
      PROVE  FALSE
  <2>1. p[1] \in Nat
    BY <1>0 DEF Pairs, Grown
  <2>. QED BY <1>4, <2>1
<1>. QED BY <1>1, <1>2, <1>3, <1>4, ShutsPairs, OtherPairs DEF Steps

LEMMA MutualKept ==
  ASSUME WalkTyped, StackInv, PairsAreMutual, Steps
  PROVE  PairsAreMutual'
<1>0. Grown /\ Next1 \in Nat
  BY ShutsFacts, StraysFacts, StandsFacts DEF Steps, Grown
<1>1. \A i \in Walked : info'[i].opener = info[i].opener
  BY ShutsFacts, StraysFacts, StandsFacts DEF Steps
<1>2. ASSUME NEW o \in Walked', NEW c \in Walked', Paired(o, c)'
      PROVE  o < c /\ seen'[o].kind = "Opener" /\ seen'[c].kind = "Closer" /\ info'[c].opener = o
  <2>1. <<o, c>> \in Pairs'
    BY <1>2 DEF Pairs
  <2>2. CASE <<o, c>> \in Pairs
    <3>1. o \in Walked /\ c \in Walked /\ Paired(o, c)
      BY <2>2 DEF Pairs
    <3>2. o < c /\ seen[o].kind = "Opener" /\ seen[c].kind = "Closer" /\ info[c].opener = o
      BY <3>1 DEF PairsAreMutual
    <3>. QED BY <1>0, <1>1, <3>1, <3>2 DEF Grown
  <2>3. ASSUME NEW j \in 1..Len(stack), Shuts(j), o = stack[j].id, c = Next1
        PROVE  o < c /\ seen'[o].kind = "Opener" /\ seen'[c].kind = "Closer" /\ info'[c].opener = o
    <3>1. o \in Walked /\ seen[o].kind = "Opener"
      BY <2>3 DEF StackInv
    <3>2. o < Next1 /\ seen'[o] = seen[o]
      BY <1>0, <3>1 DEF Grown
    <3>3. seen'[Next1].kind = "Closer" /\ info'[Next1].opener = stack[j].id
      BY <2>3, ShutsFacts
    <3>. QED BY <2>3, <3>1, <3>2, <3>3
  <2>. QED BY <2>1, <2>2, <2>3, ShutsPairs, OtherPairs DEF Steps
<1>3. ASSUME NEW c \in Walked', seen'[c].kind = "Closer", info'[c].opener # None
      PROVE  info'[info'[c].opener].closer = c
  <2>1. CASE c \in Walked
    <3> DEFINE o == info[c].opener
    <3>1. info'[c].opener = o /\ seen[c].kind = "Closer" /\ o # None
      BY <1>0, <1>1, <1>3, <2>1 DEF Grown
    <3>2. info[o].closer = c
      BY <2>1, <3>1 DEF PairsAreMutual, Paired
    <3>3. o \in Walked
      <4>1. o \in Nat /\ o < Next1
        BY <1>0, <2>1, OldWithin
      <4>. QED BY <1>0, <3>1, <4>1 DEF Walked, None, Grown
    <3>4. c # None
      BY <1>0, <2>1 DEF Grown
    <3>5. \A j \in 1..Len(stack) : o # stack[j].id
      BY <3>2, <3>4 DEF StackInv
    <3>6. info'[o].closer = info[o].closer
      BY <3>3, <3>5, ShutsFacts, StraysFacts, StandsFacts DEF Steps
    <3>. QED BY <3>1, <3>2, <3>6
  <2>2. CASE c = Next1
    <3>1. ASSUME NEW j \in 1..Len(stack), Shuts(j)
          PROVE  info'[info'[c].opener].closer = c
      <4>1. stack[j].id \in Walked /\ info'[Next1].opener = stack[j].id
        BY <3>1, ShutsFacts
      <4>2. info'[stack[j].id].closer = Next1
        BY <3>1, <4>1, ShutsFacts
      <4>. QED BY <2>2, <4>1, <4>2
    <3>2. ~Strays /\ ~\E kind : Stands(kind)
      BY <1>3, <2>2, StraysFacts, StandsFacts
    <3>. QED BY <3>1, <3>2 DEF Steps
  <2>. QED BY <1>0, <2>1, <2>2 DEF Grown
<1>. QED BY <1>2, <1>3 DEF PairsAreMutual, Paired

LEMMA OpenEnclosesKept ==
  ASSUME WalkTyped, StackInv, OpenEncloses, Steps
  PROVE  OpenEncloses'
<1>. SUFFICES ASSUME NEW k \in 1..Len(stack'), NEW n \in Walked',
                     seen'[n].kind # "Closer", stack'[k].id < n
              PROVE  info'[n].enclosing >= stack'[k].id
  BY DEF OpenEncloses
<1>0. Grown /\ Next1 \in Nat
  BY ShutsFacts, StraysFacts, StandsFacts DEF Steps, Grown
<1>1. k \in 1..Len(stack) /\ stack'[k].id = stack[k].id
  <2>1. n \in Nat /\ n =< Next1
    BY <1>0 DEF Grown
  <2>2. stack'[k].id # Next1
    BY <1>0, <2>1
  <2>. QED BY <2>2, OpenFrom
<1>2. CASE n \in Walked
  <2>1. info'[n].enclosing = info[n].enclosing
    BY <1>2, ShutsFacts, StraysFacts, StandsFacts DEF Steps
  <2>2. seen[n].kind # "Closer"
    BY <1>0, <1>2 DEF Grown
  <2>3. info[n].enclosing >= stack[k].id
    BY <1>1, <1>2, <2>2 DEF OpenEncloses
  <2>. QED BY <1>1, <2>1, <2>3
<1>3. CASE n = Next1
  <2>1. PICK kind : Stands(kind)
    BY <1>3, ShutsFacts, StraysFacts DEF Steps
  <2>2. info'[n].enclosing = Top
    BY <1>3, <2>1, StandsFacts
  <2>3. Len(stack) \in 1..Len(stack) /\ stack # <<>> /\ Len(stack) \in Nat
    BY <1>1 DEF WalkTyped
  <2>4. Top = stack[Len(stack)].id
    BY <2>3 DEF Top
  <2>5. \A i \in 1..Len(stack) : stack[i].id \in Nat
    BY <1>0 DEF StackInv, Grown
  <2>6. k = Len(stack) \/ k < Len(stack)
    BY <1>1, <2>3
  <2>7. stack[k].id =< stack[Len(stack)].id
    BY <1>1, <2>3, <2>5, <2>6 DEF StackInv
  <2>. QED BY <1>1, <2>2, <2>3, <2>4, <2>5, <2>7
<1>. QED BY <1>0, <1>2, <1>3 DEF Grown

LEMMA InnermostKept ==
  ASSUME WalkTyped, StackInv, OpenEncloses, EnclosingIsInnermost, Steps
  PROVE  EnclosingIsInnermost'
<1>0. Grown /\ Next1 \in Nat
  BY ShutsFacts, StraysFacts, StandsFacts DEF Steps, Grown
<1>1. ASSUME NEW n \in Walked, seen'[n].kind # "Closer"
      PROVE  /\ info'[n].enclosing = info[n].enclosing /\ info[n].enclosing \in Nat
             /\ seen[n].kind # "Closer"
  BY <1>0, <1>1, ShutsFacts, StraysFacts, StandsFacts, OldWithin DEF Steps, Grown
<1>2. ASSUME seen'[Next1].kind # "Closer"
      PROVE  info'[Next1].enclosing = Top /\ \E kind : Stands(kind)
  BY <1>2, ShutsFacts, StraysFacts, StandsFacts DEF Steps
<1>3. ASSUME NEW n \in Walked', seen'[n].kind # "Closer", info'[n].enclosing # None
      PROVE  /\ info'[n].enclosing < n
             /\ info'[info'[n].enclosing].closer \notin 1..n \ {None}
  <2>1. CASE n \in Walked
    <3> DEFINE e == info[n].enclosing
    <3>1. info'[n].enclosing = e /\ e \in Nat /\ e # None /\ seen[n].kind # "Closer"
      BY <1>1, <1>3, <2>1
    <3>2. e < n /\ info[e].closer \notin 1..n \ {None}
      BY <2>1, <3>1 DEF EnclosingIsInnermost
    <3>3. n \in Nat /\ n < Next1 /\ n =< Len(seen) /\ Len(seen) \in Nat
      BY <1>0, <2>1 DEF Grown, Walked
    <3>4. e \in Walked
      BY <3>1, <3>2, <3>3 DEF Walked, None
    <3>5. info'[e].closer = info[e].closer \/ info'[e].closer = Next1
      BY <3>4, ShutsFacts, StraysFacts, StandsFacts DEF Steps
    <3>6. Next1 \notin 1..n
      BY <1>0, <3>3
    <3>. QED BY <3>1, <3>2, <3>5, <3>6
  <2>2. CASE n = Next1
    <3>1. PICK kind : Stands(kind)
      BY <1>2, <1>3, <2>2
    <3>2. info'[n].enclosing = Top /\ Top # None /\ stack # <<>> /\ Top \in Walked
      BY <1>3, <2>2, <3>1, StandsFacts
    <3>3. Len(stack) \in 1..Len(stack) /\ Top = stack[Len(stack)].id
      BY <3>2 DEF Top, WalkTyped
    <3>4. info[Top].closer = None
      BY <3>3 DEF StackInv
    <3>5. info'[Top].closer = None
      BY <3>1, <3>2, <3>4, StandsFacts
    <3>6. Top < Next1
      BY <1>0, <3>2 DEF Grown
    <3>. QED BY <2>2, <3>2, <3>5, <3>6
  <2>. QED BY <1>0, <2>1, <2>2 DEF Grown
<1>4. ASSUME NEW n \in Walked', seen'[n].kind # "Closer", NEW p \in Pairs', p[1] < n, n < p[2]
      PROVE  info'[n].enclosing >= p[1]
  <2>1. p[2] =< Next1 /\ p[2] \in Nat /\ n \in Nat
    BY <1>0 DEF Pairs, Grown
  <2>2. n \in Walked
    <3>1. n # Next1
      BY <1>0, <1>4, <2>1
    <3>. QED BY <1>0, <3>1 DEF Grown
  <2>3. info'[n].enclosing = info[n].enclosing /\ seen[n].kind # "Closer"
    BY <1>1, <1>4, <2>2
  <2>4. CASE p \in Pairs
    BY <1>4, <2>2, <2>3, <2>4 DEF EnclosingIsInnermost
  <2>5. ASSUME NEW j \in 1..Len(stack), p[1] = stack[j].id
        PROVE  info'[n].enclosing >= p[1]
    BY <1>4, <2>2, <2>3, <2>5 DEF OpenEncloses
  <2>. QED BY <2>4, <2>5, ShutsPairs, OtherPairs DEF Steps
<1>. QED BY <1>3, <1>4 DEF EnclosingIsInnermost

---------------------------------------------------------------------------
(* The separators.                                                           *)
SeparatorsOf(o) == {n \in Walked : seen[n].kind = "Separator" /\ info[n].opener = o}

ListsThem(o) ==
  /\ \A k \in 1..(Len(info[o].separators) - 1) :
       info[o].separators[k] < info[o].separators[k + 1]
  /\ {info[o].separators[k] : k \in 1..Len(info[o].separators)} = SeparatorsOf(o)
  /\ \A k \in 1..Len(info[o].separators) : info[info[o].separators[k]].enclosing = o

LEMMA ListedSame ==
  ASSUME WalkTyped, StackInv, Steps, NEW o \in Walked, ListsThem(o),
         info'[o].separators = info[o].separators,
         seen'[Next1].kind = "Separator" => info'[Next1].opener # o
  PROVE  ListsThem(o)'
<1> DEFINE s == info[o].separators
<1>0. Grown
  BY ShutsFacts, StraysFacts, StandsFacts DEF Steps
<1>1. \A i \in Walked :
        /\ info'[i].opener = info[i].opener /\ info'[i].enclosing = info[i].enclosing
        /\ seen'[i].kind = seen[i].kind
  BY <1>0, ShutsFacts, StraysFacts, StandsFacts DEF Steps, Grown
<1>2. SeparatorsOf(o)' = SeparatorsOf(o)
  <2>1. \A n \in Walked' : n \in Walked \/ n = Next1
    BY <1>0 DEF Grown
  <2>2. \A n \in Walked : n \in Walked'
    BY <1>0 DEF Grown
  <2>. QED BY <1>1, <2>1, <2>2 DEF SeparatorsOf
<1>3. \A k \in 1..Len(s) : s[k] \in Walked
  BY <1>0, OldWithin
<1>4. /\ \A k \in 1..(Len(s) - 1) : s[k] < s[k + 1]
      /\ {s[k] : k \in 1..Len(s)} = SeparatorsOf(o)
      /\ \A k \in 1..Len(s) : info[s[k]].enclosing = o
  BY DEF ListsThem
<1>5. info'[o].separators = s
  OBVIOUS
<1>. HIDE DEF s
<1>6. \A k \in 1..Len(s) : info'[s[k]].enclosing = o
  BY <1>1, <1>3, <1>4
<1>. QED BY <1>2, <1>4, <1>5, <1>6 DEF ListsThem

LEMMA SeparatorsKept ==
  ASSUME WalkTyped, StackInv, SeparatorsAreMutual, Steps
  PROVE  SeparatorsAreMutual'
<1>0. Grown /\ Next1 \in Nat
  BY ShutsFacts, StraysFacts, StandsFacts DEF Steps, Grown
<1>. SUFFICES ASSUME NEW o \in Walked'
              PROVE  ListsThem(o)'
  BY DEF SeparatorsAreMutual, ListsThem, SeparatorsOf
<1>1. CASE o = Next1
  <2>1. info'[o].separators = <<>>
    BY <1>1, ShutsFacts, StraysFacts, StandsFacts DEF Steps
  <2>2. ASSUME NEW n \in Walked', seen'[n].kind = "Separator", info'[n].opener = Next1
        PROVE  FALSE
    <3>1. CASE n \in Walked
      <4>1. info'[n].opener = info[n].opener
        BY <3>1, ShutsFacts, StraysFacts, StandsFacts DEF Steps
      <4>2. info[n].opener < Next1 /\ info[n].opener \in Nat
        BY <1>0, <3>1, OldWithin
      <4>. QED BY <1>0, <2>2, <4>1, <4>2
    <3>2. CASE n = Next1
      <4>1. PICK kind : Stands(kind)
        BY <2>2, <3>2, ShutsFacts, StraysFacts DEF Steps
      <4>2. info'[Next1].opener = Top \/ info'[Next1].opener = None
        BY <4>1, StandsFacts
      <4>3. Top = None \/ Top \in Walked
        BY <4>1, StandsFacts
      <4>. QED BY <1>0, <2>2, <3>2, <4>2, <4>3 DEF Grown
    <3>. QED BY <1>0, <3>1, <3>2 DEF Grown
  <2>3. SeparatorsOf(o)' = {}
    BY <1>1, <2>2 DEF SeparatorsOf
  <2>. QED BY <2>1, <2>3 DEF ListsThem
<1>2. CASE o \in Walked
  <2>0. ListsThem(o)
    BY <1>2 DEF SeparatorsAreMutual, ListsThem, SeparatorsOf
  <2>1. CASE (\E j \in 1..Len(stack) : Shuts(j)) \/ Strays
    <3>1. info'[o].separators = info[o].separators /\ seen'[Next1].kind = "Closer"
      BY <1>2, <2>1, ShutsFacts, StraysFacts
    <3>. QED BY <1>2, <2>0, <3>1, ListedSame
  <2>2. ASSUME NEW kind, Stands(kind), ~(o = Top /\ kind = "Separator")
        PROVE  ListsThem(o)'
    <3>1. info'[o].separators = info[o].separators
      BY <1>2, <2>2, StandsFacts
    <3>2. seen'[Next1].kind = "Separator" => info'[Next1].opener # o
      BY <2>2, StandsFacts
    <3>. QED BY <1>2, <2>0, <3>1, <3>2, ListedSame
  <2>3. ASSUME Stands("Separator"), o = Top
        PROVE  ListsThem(o)'
    <3> DEFINE t == info[o].separators
               s == Append(t, Next1)
    <3>1. info'[o].separators = s
      BY <1>2, <2>3, StandsFacts
    <3>2. \A i \in Walked :
            /\ info'[i].opener = info[i].opener /\ info'[i].enclosing = info[i].enclosing
            /\ seen'[i].kind = seen[i].kind
      BY <1>0, <2>3, StandsFacts DEF Grown
    <3>3. /\ seen'[Next1].kind = "Separator" /\ info'[Next1].opener = o
          /\ info'[Next1].enclosing = o
      BY <2>3, StandsFacts
    <3>4. t \in Seq(Nat) /\ \A k \in 1..Len(t) : t[k] \in Walked
      BY <1>0, <1>2, OldWithin
    <3>5. /\ \A k \in 1..(Len(t) - 1) : t[k] < t[k + 1]
          /\ {t[k] : k \in 1..Len(t)} = SeparatorsOf(o)
          /\ \A k \in 1..Len(t) : info[t[k]].enclosing = o
      BY <2>0 DEF ListsThem
    <3>. HIDE DEF t
    <3>6. /\ Len(t) \in Nat /\ s[Len(t) + 1] = Next1
          /\ \A k \in 1..Len(t) : s[k] = t[k]
          /\ Len(s) = Len(t) + 1
      BY <1>0, <3>4
    <3>. HIDE DEF s
    <3>7. \A k \in 1..Len(s) : k \in 1..Len(t) \/ k = Len(t) + 1
      BY <3>6
    <3>8. 1..Len(t) \subseteq 1..Len(s) /\ Len(t) + 1 \in 1..Len(s)
      BY <3>6
    <3>9. ASSUME NEW k \in 1..(Len(s) - 1)
          PROVE  s[k] < s[k + 1]
      <4>1. k \in 1..Len(t) /\ s[k] = t[k]
        BY <3>6, <3>9
      <4>2. CASE k \in 1..(Len(t) - 1)
        <5>1. k + 1 \in 1..Len(t)
          BY <3>6, <4>2
        <5>. QED BY <3>5, <3>6, <4>1, <4>2, <5>1
      <4>3. CASE k = Len(t)
        <5>1. t[k] < Next1
          BY <1>0, <3>4, <4>1 DEF Grown
        <5>. QED BY <3>6, <4>1, <4>3, <5>1
      <4>. QED BY <3>6, <4>1, <4>2, <4>3
    <3>10. {s[k] : k \in 1..Len(s)} = {t[k] : k \in 1..Len(t)} \cup {Next1}
      BY <3>6, <3>7, <3>8, Zenon
    <3>11. SeparatorsOf(o)' = SeparatorsOf(o) \cup {Next1}
      <4>1. \A n \in Walked' : n \in Walked \/ n = Next1
        BY <1>0 DEF Grown
      <4>2. Next1 \in Walked' /\ \A n \in Walked : n \in Walked'
        BY <1>0 DEF Grown
      <4>. QED BY <3>2, <3>3, <4>1, <4>2 DEF SeparatorsOf
    <3>12. ASSUME NEW k \in 1..Len(s)
           PROVE  info'[s[k]].enclosing = o
      <4>1. CASE k \in 1..Len(t)
        BY <3>2, <3>4, <3>5, <3>6, <4>1
      <4>2. CASE k = Len(t) + 1
        BY <3>3, <3>6, <4>2
      <4>. QED BY <3>7, <4>1, <4>2
    <3>13. {s[k] : k \in 1..Len(s)} = SeparatorsOf(o)'
      BY <3>5, <3>10, <3>11
    <3>. QED BY <3>1, <3>9, <3>12, <3>13 DEF ListsThem
  <2>. QED BY <2>1, <2>2, <2>3 DEF Steps
<1>. QED BY <1>0, <1>1, <1>2 DEF Grown

---------------------------------------------------------------------------
(* The invariant of the derivation, for every table, every set of markers    *)
(* and texts, and arrays of any length.                                      *)
THEOREM WalkInvariance == WalkSpec => []WalkInv
<1>1. WalkInit => WalkInv
  <2>. SUFFICES ASSUME WalkInit PROVE WalkInv
    OBVIOUS
  <2>1. seen = <<>> /\ info = <<>> /\ stack = <<>> /\ Walked = {}
    BY DEF WalkInit, Walked
  <2>2. WalkTyped /\ StackInv
    BY <2>1 DEF WalkTyped, StackInv
  <2>3. Pairs = {} /\ OpenOutside /\ OpenEncloses
    BY <2>1 DEF Pairs, OpenOutside, OpenEncloses
  <2>4. PairsAreMutual /\ PairsNest /\ EnclosingIsInnermost /\ SeparatorsAreMutual
    BY <2>1, <2>3 DEF PairsAreMutual, PairsNest, EnclosingIsInnermost, SeparatorsAreMutual
  <2>. QED BY <2>2, <2>3, <2>4 DEF WalkInv
<1>2. WalkInv /\ [WalkNext]_walkVars => WalkInv'
  <2>. SUFFICES ASSUME WalkInv, [WalkNext]_walkVars PROVE WalkInv'
    OBVIOUS
  <2>1. ASSUME NEW e \in Elements, Turn(e)
        PROVE  WalkInv'
    <3>1. Steps
      BY <2>1, TurnIs DEF Steps, WalkInv
    <3>2. WalkTyped'
      BY <3>1, TypedKept DEF Steps, WalkInv
    <3>3. StackInv'
      BY <3>1, StackKept DEF Steps, WalkInv
    <3>4. OpenOutside' /\ OpenEncloses'
      BY <3>1, OpenOutsideKept, OpenEnclosesKept DEF WalkInv
    <3>5. PairsAreMutual' /\ PairsNest'
      BY <3>1, MutualKept, NestKept DEF WalkInv
    <3>6. EnclosingIsInnermost' /\ SeparatorsAreMutual'
      BY <3>1, InnermostKept, SeparatorsKept DEF WalkInv
    <3>. QED BY <3>2, <3>3, <3>4, <3>5, <3>6 DEF WalkInv
  <2>2. CASE UNCHANGED walkVars
    <3>1. seen' = seen /\ info' = info /\ stack' = stack
      BY <2>2 DEF walkVars
    <3>2. WalkTyped' /\ StackInv' /\ OpenOutside' /\ OpenEncloses'
      BY <3>1 DEF WalkInv, WalkTyped, Within, StackInv, OpenOutside, OpenEncloses, Pairs, Paired, Walked
    <3>3. PairsAreMutual' /\ PairsNest' /\ EnclosingIsInnermost' /\ SeparatorsAreMutual'
      BY <3>1 DEF WalkInv, PairsAreMutual, PairsNest, EnclosingIsInnermost, SeparatorsAreMutual,
                  Pairs, Paired, Walked
    <3>. QED BY <3>2, <3>3 DEF WalkInv
  <2>. QED BY <2>1, <2>2 DEF WalkNext
<1>. QED BY <1>1, <1>2, PTL DEF WalkSpec

(* Opener and Closer answer each other, whatever edits left in the array.    *)
THEOREM PairsMutual == WalkSpec => []PairsAreMutual
<1>1. WalkInv => PairsAreMutual
  BY DEF WalkInv
<1>. QED BY <1>1, WalkInvariance, PTL

(* Two groups never cross, in whatever order the markers stand.              *)
THEOREM GroupsNest == WalkSpec => []PairsNest
<1>1. WalkInv => PairsNest
  BY DEF WalkInv
<1>. QED BY <1>1, WalkInvariance, PTL

(* Enclosing answers an opener before the node, and one at or inside every   *)
(* pair around it.                                                           *)
THEOREM EnclosingInnermost == WalkSpec => []EnclosingIsInnermost
<1>1. WalkInv => EnclosingIsInnermost
  BY DEF WalkInv
<1>. QED BY <1>1, WalkInvariance, PTL

(* Separators lists exactly the separators that answer the opener, in        *)
(* document order.                                                           *)
THEOREM SeparatorsMutual == WalkSpec => []SeparatorsAreMutual
<1>1. WalkInv => SeparatorsAreMutual
  BY DEF WalkInv
<1>. QED BY <1>1, WalkInvariance, PTL
============================================================================
