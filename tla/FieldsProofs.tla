---------------------------- MODULE FieldsProofs ----------------------------
(* A stencil's theorems, for every pattern, match and order of calls: what   *)
(* Done refuses, what the children it lays out tile, and what the compound   *)
(* tells of them after any writes.                                           *)
EXTENDS Fields, OperatorProofs, FiniteSetTheorems

---------------------------------------------------------------------------
(* The loops of the stencil, turn by turn.                                   *)

\* Compound.Location's turns over the children.
Sums(f, loc, nodes) ==
  f = [k \in 0..Len(nodes) |->
         IF k = 0 THEN [loc |-> [loc EXCEPT !.length = 0], next |-> Offset(loc)]
         ELSE Summed(f[k - 1], nodes[k])]

(* The location told is what they come to.                                   *)
LEMMA SumIs ==
  ASSUME NEW loc, NEW nodes, Len(nodes) \in Nat
  PROVE  \E f : Sums(f, loc, nodes) /\ CompoundLocation(loc, nodes) = f[Len(nodes)].loc
<1> DEFINE Part(g, m) == g = [k \in 0..m |-> IF k = 0 THEN [loc |-> [loc EXCEPT !.length = 0], next |-> Offset(loc)] ELSE Summed(g[k - 1], nodes[k])]
           Bad == {m \in 0..Len(nodes) : ~\E g : Part(g, m)}
<1>1. Bad = {}
  <2>. SUFFICES ASSUME Bad # {} PROVE FALSE
    OBVIOUS
  <2>1. PICK m \in Bad : \A j \in Bad : m =< j
    <3>. HIDE DEF Part
    <3>1. Bad \in SUBSET Nat
      OBVIOUS
    <3>. HIDE DEF Bad
    <3>. QED BY <3>1, NatLeast
  <2>2. CASE m = 0
    <3>1. Part([k \in 0..0 |-> [loc |-> [loc EXCEPT !.length = 0], next |-> Offset(loc)]], 0)
      OBVIOUS
    <3>. QED BY <2>2, <3>1
  <2>3. CASE m # 0
    <3>1. m - 1 \in 0..Len(nodes) /\ m - 1 \notin Bad /\ m \in Nat
      <4>. HIDE DEF Part
      <4>1. m - 1 \in 0..Len(nodes)
        BY <2>3
      <4>2. m - 1 \notin Bad
        <5>. HIDE DEF Bad
        <5>1. m \in Int
          BY <4>1 DEF Bad
        <5>. QED BY <2>1, <5>1
      <4>. QED BY <4>1, <4>2
    <3>2. PICK g : Part(g, m - 1)
      <4>. HIDE DEF Part
      <4>. QED BY <3>1
    <3> DEFINE h == [k \in 0..m |-> IF k = 0 THEN [loc |-> [loc EXCEPT !.length = 0], next |-> Offset(loc)] ELSE Summed(g[k - 1], nodes[k])]
    <3>3. ASSUME NEW k \in 0..(m - 1)
          PROVE  h[k] = g[k]
      <4>1. k \in 0..m
        BY <3>1
      <4>2. h[k] = IF k = 0 THEN [loc |-> [loc EXCEPT !.length = 0], next |-> Offset(loc)] ELSE Summed(g[k - 1], nodes[k])
        BY <4>1
      <4>3. g[k] = IF k = 0 THEN [loc |-> [loc EXCEPT !.length = 0], next |-> Offset(loc)] ELSE Summed(g[k - 1], nodes[k])
        BY <3>2, Zenon
      <4>. QED BY <4>2, <4>3
    <3>4. Part(h, m)
      <4>1. \A k \in 0..m : k # 0 => k - 1 \in 0..(m - 1)
        BY <3>1
      <4>2. \A k \in 0..m : k # 0 => h[k - 1] = g[k - 1]
        BY <3>3, <4>1
      <4>. QED BY <4>2, Zenon
    <3>. HIDE DEF Part, h
    <3>. QED BY <3>4
  <2>. QED BY <2>2, <2>3
<1>2. \E g : Part(g, Len(nodes))
  <2>. HIDE DEF Part
  <2>. QED BY <1>1
<1> DEFINE f == CHOOSE g : Part(g, Len(nodes))
<1>3. Part(f, Len(nodes))
  <2>. HIDE DEF Part
  <2>. QED BY <1>2
<1>4. CompoundLocation(loc, nodes) = f[Len(nodes)].loc
  BY DEF CompoundLocation
<1>. HIDE DEF f
<1>. QED BY <1>3, <1>4 DEF Sums

\* bounds' turns over the groups.
Takes(f, m, left) ==
  f = [k \in 0..Len(m.groups) |->
         IF k = 0 THEN <<>> ELSE IF k \in left THEN f[k - 1] ELSE Take(m, f[k - 1], k)]

(* What they take are the bounds.                                            *)
LEMMA BoundsIs ==
  ASSUME NEW m0, NEW left, Len(m0.groups) \in Nat
  PROVE  \E f : Takes(f, m0, left) /\ Bounds(m0, left) = f[Len(m0.groups)]
<1> DEFINE Part(g, m) == g = [k \in 0..m |-> IF k = 0 THEN <<>> ELSE IF k \in left THEN g[k - 1] ELSE Take(m0, g[k - 1], k)]
           Bad == {m \in 0..Len(m0.groups) : ~\E g : Part(g, m)}
<1>1. Bad = {}
  <2>. SUFFICES ASSUME Bad # {} PROVE FALSE
    OBVIOUS
  <2>1. PICK m \in Bad : \A j \in Bad : m =< j
    <3>. HIDE DEF Part
    <3>1. Bad \in SUBSET Nat
      OBVIOUS
    <3>. HIDE DEF Bad
    <3>. QED BY <3>1, NatLeast
  <2>2. CASE m = 0
    <3>1. Part([k \in 0..0 |-> <<>>], 0)
      OBVIOUS
    <3>. QED BY <2>2, <3>1
  <2>3. CASE m # 0
    <3>1. m - 1 \in 0..Len(m0.groups) /\ m - 1 \notin Bad /\ m \in Nat
      <4>. HIDE DEF Part
      <4>1. m - 1 \in 0..Len(m0.groups)
        BY <2>3
      <4>2. m - 1 \notin Bad
        <5>. HIDE DEF Bad
        <5>1. m \in Int
          BY <4>1 DEF Bad
        <5>. QED BY <2>1, <5>1
      <4>. QED BY <4>1, <4>2
    <3>2. PICK g : Part(g, m - 1)
      <4>. HIDE DEF Part
      <4>. QED BY <3>1
    <3> DEFINE h == [k \in 0..m |-> IF k = 0 THEN <<>> ELSE IF k \in left THEN g[k - 1] ELSE Take(m0, g[k - 1], k)]
    <3>3. ASSUME NEW k \in 0..(m - 1)
          PROVE  h[k] = g[k]
      <4>1. k \in 0..m
        BY <3>1
      <4>2. h[k] = IF k = 0 THEN <<>> ELSE IF k \in left THEN g[k - 1] ELSE Take(m0, g[k - 1], k)
        BY <4>1
      <4>3. g[k] = IF k = 0 THEN <<>> ELSE IF k \in left THEN g[k - 1] ELSE Take(m0, g[k - 1], k)
        BY <3>2, Zenon
      <4>. QED BY <4>2, <4>3
    <3>4. Part(h, m)
      <4>1. \A k \in 0..m : k # 0 => k - 1 \in 0..(m - 1)
        BY <3>1
      <4>2. \A k \in 0..m : k # 0 => h[k - 1] = g[k - 1]
        BY <3>3, <4>1
      <4>. QED BY <4>2, Zenon
    <3>. HIDE DEF Part, h
    <3>. QED BY <3>4
  <2>. QED BY <2>2, <2>3
<1>2. \E g : Part(g, Len(m0.groups))
  <2>. HIDE DEF Part
  <2>. QED BY <1>1
<1> DEFINE f == CHOOSE g : Part(g, Len(m0.groups))
<1>3. Part(f, Len(m0.groups))
  <2>. HIDE DEF Part
  <2>. QED BY <1>2
<1>4. Bounds(m0, left) = f[Len(m0.groups)]
  BY DEF Bounds
<1>. HIDE DEF f
<1>. QED BY <1>3, <1>4 DEF Takes

\* What holds each group, from what holds the group it is inside of.
Held(f, m) ==
  f = [k \in 0..Len(m.groups) |->
         IF k = 0 THEN {} ELSE f[m.groups[k].inside] \cup ({m.groups[k].inside} \ {0})]

\* A pattern's groups are each inside one before it, or none.
Inward(m) ==
  Len(m.groups) \in Nat /\ \A g \in 1..Len(m.groups) : m.groups[g].inside \in 0..(g - 1)

(* The groups above are told by one such function.                           *)
LEMMA AboveIs ==
  ASSUME NEW m0, Inward(m0)
  PROVE  Held(Above(m0), m0)
<1> DEFINE n == Len(m0.groups)
           in(k) == m0.groups[k].inside
           Part(g, m) == g = [k \in 0..m |-> IF k = 0 THEN {} ELSE g[in(k)] \cup ({in(k)} \ {0})]
           Bad == {m \in 0..n : ~\E g : Part(g, m)}
<1>0. n \in Nat /\ \A k \in 1..n : in(k) \in 0..(k - 1)
  BY DEF Inward
<1>. HIDE DEF n, in
<1>1. Bad = {}
  <2>. SUFFICES ASSUME Bad # {} PROVE FALSE
    OBVIOUS
  <2>1. PICK m \in Bad : \A j \in Bad : m =< j
    <3>. HIDE DEF Part
    <3>1. Bad \in SUBSET Nat
      OBVIOUS
    <3>. HIDE DEF Bad
    <3>. QED BY <3>1, NatLeast
  <2>2. CASE m = 0
    <3>1. Part([k \in 0..0 |-> {}], 0)
      OBVIOUS
    <3>. QED BY <2>2, <3>1
  <2>3. CASE m # 0
    <3>1. m - 1 \in 0..n /\ m - 1 \notin Bad /\ m \in Nat /\ m =< n
      <4>. HIDE DEF Part
      <4>1. m - 1 \in 0..n /\ m =< n
        BY <1>0, <2>3
      <4>2. m - 1 \notin Bad
        <5>. HIDE DEF Bad
        <5>1. m \in Int
          BY <4>1 DEF Bad
        <5>. QED BY <2>1, <5>1
      <4>. QED BY <1>0, <4>1, <4>2
    <3>2. PICK g : Part(g, m - 1)
      <4>. HIDE DEF Part
      <4>. QED BY <3>1
    <3> DEFINE h == [k \in 0..m |-> IF k = 0 THEN {} ELSE g[in(k)] \cup ({in(k)} \ {0})]
    <3>3. ASSUME NEW k \in 0..(m - 1)
          PROVE  h[k] = g[k]
      <4>1. k \in 0..m
        BY <3>1
      <4>2. h[k] = IF k = 0 THEN {} ELSE g[in(k)] \cup ({in(k)} \ {0})
        BY <4>1
      <4>3. g[k] = IF k = 0 THEN {} ELSE g[in(k)] \cup ({in(k)} \ {0})
        BY <3>2, Zenon
      <4>. QED BY <4>2, <4>3
    <3>4. Part(h, m)
      <4>1. \A k \in 0..m : k # 0 => in(k) \in 0..(m - 1)
        BY <1>0, <3>1
      <4>2. \A k \in 0..m : k # 0 => h[in(k)] = g[in(k)]
        BY <3>3, <4>1
      <4>. QED BY <4>2, Zenon
    <3>. HIDE DEF Part, h
    <3>. QED BY <3>4
  <2>. QED BY <2>2, <2>3
<1>2. \E g : Part(g, n)
  <2>. HIDE DEF Part
  <2>. QED BY <1>0, <1>1
<1> DEFINE f == CHOOSE g : Part(g, n)
<1>3. Part(f, n)
  <2>. HIDE DEF Part
  <2>. QED BY <1>2
<1>4. Above(m0) = f
  BY DEF Above, n, in
<1>. HIDE DEF f
<1>. QED BY <1>3, <1>4 DEF Held, n, in

---------------------------------------------------------------------------
(* The groups above a group.                                                 *)

LEMMA AboveTurn ==
  ASSUME NEW m0, Inward(m0), NEW g \in 0..Len(m0.groups)
  PROVE  /\ g = 0 => Above(m0)[g] = {}
         /\ g # 0 => /\ m0.groups[g].inside \in 0..(g - 1)
                     /\ Above(m0)[g] = Above(m0)[m0.groups[g].inside] \cup ({m0.groups[g].inside} \ {0})
<1> DEFINE f == Above(m0)
<1>1. Held(f, m0)
  BY AboveIs
<1>. HIDE DEF f
<1>2. f[g] = IF g = 0 THEN {} ELSE f[m0.groups[g].inside] \cup ({m0.groups[g].inside} \ {0})
  BY <1>1, Zenon DEF Held
<1>3. g # 0 => g \in 1..Len(m0.groups)
  BY DEF Inward
<1>. QED BY <1>2, <1>3 DEF f, Inward

(* They come before it.                                                      *)
LEMMA AboveBefore ==
  ASSUME NEW m0, Inward(m0), NEW g \in 0..Len(m0.groups)
  PROVE  Above(m0)[g] \subseteq 1..(g - 1)
<1> DEFINE A == Above(m0)
           n == Len(m0.groups)
           in(k) == m0.groups[k].inside
           Bad == {k \in 0..n : ~(A[k] \subseteq 1..(k - 1))}
<1>1. n \in Nat /\ \A k \in 0..n : /\ k = 0 => A[k] = {}
                                   /\ k # 0 => in(k) \in 0..(k - 1) /\ A[k] = A[in(k)] \cup ({in(k)} \ {0})
  BY AboveTurn DEF Inward
<1>. HIDE DEF A, n, in
<1>2. Bad = {}
  <2>. SUFFICES ASSUME Bad # {} PROVE FALSE
    OBVIOUS
  <2>1. PICK m \in Bad : \A j \in Bad : m =< j
    <3>1. Bad \in SUBSET Nat
      BY <1>1
    <3>. HIDE DEF Bad
    <3>. QED BY <3>1, NatLeast
  <2>2. m \in 0..n /\ ~(A[m] \subseteq 1..(m - 1))
    OBVIOUS
  <2>3. m # 0
    BY <1>1, <2>2
  <2>4. in(m) \in 0..(m - 1) /\ in(m) \in 0..n /\ ~(m =< in(m)) /\ A[m] = A[in(m)] \cup ({in(m)} \ {0})
    BY <1>1, <2>2, <2>3
  <2>5. A[in(m)] \subseteq 1..(in(m) - 1)
    BY <2>1, <2>4
  <2>6. ASSUME NEW x \in A[m]
        PROVE  x \in 1..(m - 1)
    BY <1>1, <2>2, <2>4, <2>5
  <2>. QED BY <2>2, <2>6
<1>. QED BY <1>2 DEF n, A

(* What is above a group above is above.                                     *)
LEMMA AboveAbove ==
  ASSUME NEW m0, Inward(m0), NEW g \in 0..Len(m0.groups), NEW b \in Above(m0)[g]
  PROVE  Above(m0)[b] \subseteq Above(m0)[g]
<1> DEFINE A == Above(m0)
           n == Len(m0.groups)
           in(k) == m0.groups[k].inside
           Bad == {k \in 0..n : \E c \in A[k] : ~(A[c] \subseteq A[k])}
<1>1. n \in Nat /\ \A k \in 0..n : /\ k = 0 => A[k] = {}
                                   /\ k # 0 => in(k) \in 0..(k - 1) /\ A[k] = A[in(k)] \cup ({in(k)} \ {0})
  BY AboveTurn DEF Inward
<1>0. g \in 0..n /\ b \in A[g]
  OBVIOUS
<1>. HIDE DEF A, n, in
<1>2. Bad = {}
  <2>. SUFFICES ASSUME Bad # {} PROVE FALSE
    OBVIOUS
  <2>1. PICK m \in Bad : \A j \in Bad : m =< j
    <3>1. Bad \in SUBSET Nat
      BY <1>1
    <3>. HIDE DEF Bad
    <3>. QED BY <3>1, NatLeast
  <2>2. m \in 0..n /\ \E c \in A[m] : ~(A[c] \subseteq A[m])
    OBVIOUS
  <2>3. PICK c \in A[m] : ~(A[c] \subseteq A[m])
    BY <2>2
  <2>4. m # 0
    BY <1>1, <2>2
  <2>5. in(m) \in 0..n /\ ~(m =< in(m)) /\ A[m] = A[in(m)] \cup ({in(m)} \ {0})
    BY <1>1, <2>2, <2>4
  <2>6. \A x \in A[in(m)] : A[x] \subseteq A[in(m)]
    BY <2>1, <2>5
  <2>7. c \in A[in(m)] \/ c = in(m)
    BY <2>3, <2>5
  <2>. QED BY <2>3, <2>5, <2>6, <2>7
<1>. QED BY <1>0, <1>2 DEF A

---------------------------------------------------------------------------
(* The bounds.                                                               *)

Present(m, g) == m.groups[g].at # Absent

From(m, g) == m.groups[g].at[1]

To(m, g) == m.groups[g].at[2]

(* What a pattern promises, as numbers.                                      *)
LEMMA CapturedIs ==
  ASSUME NEW m0, Captured(m0)
  PROVE  /\ Inward(m0)
         /\ m0.from \in Nat /\ m0.to \in Nat /\ m0.from =< m0.to
         /\ \A g \in 1..Len(m0.groups) : Present(m0, g) =>
              /\ From(m0, g) \in Nat /\ To(m0, g) \in Nat
              /\ m0.from =< From(m0, g) /\ From(m0, g) =< To(m0, g) /\ To(m0, g) =< m0.to
<1>1. Len(m0.groups) \in Nat /\ \A g \in 1..Len(m0.groups) :
        m0.groups[g] \in [at : {Absent} \cup (Nat \X Nat), inside : Nat, kind : STRING]
  <2> DEFINE R == [at : {Absent} \cup (Nat \X Nat), inside : Nat, kind : STRING]
             s == m0.groups
  <2>1. s \in Seq(R)
    BY DEF Captured
  <2>. HIDE DEF R, s
  <2>2. Len(s) \in Nat /\ \A g \in 1..Len(s) : s[g] \in R
    BY <2>1
  <2>. QED BY <2>2 DEF R, s
<1>2. Len(m0.text) \in Nat
  BY DEF Captured
<1>3. m0.from \in Nat /\ m0.to \in Nat /\ m0.from =< m0.to
  BY <1>2 DEF Captured
<1>4. ASSUME NEW g \in 1..Len(m0.groups)
      PROVE  /\ m0.groups[g].inside \in 0..(g - 1)
             /\ Present(m0, g) =>
                  /\ From(m0, g) \in Nat /\ To(m0, g) \in Nat
                  /\ m0.from =< From(m0, g) /\ From(m0, g) =< To(m0, g) /\ To(m0, g) =< m0.to
  <2>1. m0.groups[g].inside \in Nat /\ m0.groups[g].inside < g
    BY <1>1 DEF Captured
  <2>2. m0.groups[g].inside \in 0..(g - 1)
    <3> DEFINE i == m0.groups[g].inside
    <3>1. i \in Nat /\ i < g /\ g \in Int
      BY <2>1
    <3>. HIDE DEF i
    <3>2. i \in 0..(g - 1)
      BY <3>1
    <3>. QED BY <3>2 DEF i
  <2>3. Present(m0, g) => m0.groups[g].at \in Nat \X Nat
    BY <1>1 DEF Present
  <2>4. Present(m0, g) =>
          m0.from =< From(m0, g) /\ From(m0, g) =< To(m0, g) /\ To(m0, g) =< m0.to
    BY DEF Captured, Present, From, To
  <2>. QED BY <2>2, <2>3, <2>4 DEF From, To
<1>. QED BY <1>1, <1>3, <1>4 DEF Inward

\* Groups in their order, each after the one before it, up to the k-th.
Lined(m, left, s, k) ==
  /\ s \in Seq(1..k)
  /\ \A i \in 1..Len(s) : Present(m, s[i]) /\ s[i] \notin left
  /\ \A i, j \in 1..Len(s) : i < j => s[i] < s[j] /\ To(m, s[i]) =< From(m, s[j])

(* One more at the end.                                                      *)
LEMMA LinedMore ==
  ASSUME NEW m0, Captured(m0), NEW left, NEW k \in 1..Len(m0.groups), NEW s,
         Lined(m0, left, s, k - 1), Present(m0, k), k \notin left,
         s # <<>> => To(m0, s[Len(s)]) =< From(m0, k)
  PROVE  Lined(m0, left, Append(s, k), k)
<1> DEFINE t == Append(s, k)
           n == Len(s)
<1>1. s \in Seq(1..(k - 1)) /\ n \in Nat
  BY DEF Lined
<1>2. t \in Seq(1..k) /\ Len(t) = n + 1 /\ t[n + 1] = k /\ \A i \in 1..n : t[i] = s[i]
  <2>1. s \in Seq(1..k)
    <3>1. 1..(k - 1) \subseteq 1..k
      OBVIOUS
    <3>. QED BY <1>1, <3>1
  <2>2. k \in 1..k
    OBVIOUS
  <2>. QED BY <1>1, <2>1, <2>2
<1>3. \A i \in 1..n : s[i] \in 1..(k - 1) /\ Present(m0, s[i]) /\ s[i] \notin left
  BY <1>1 DEF Lined
<1>4. \A i \in 1..n, j \in 1..n : i < j => s[i] < s[j] /\ To(m0, s[i]) =< From(m0, s[j])
  BY DEF Lined
<1>5. n # 0 => To(m0, s[n]) =< From(m0, k)
  BY <1>1
<1>. HIDE DEF t, n
<1>6. \A i \in 1..(n + 1) : i \in 1..n \/ i = n + 1
  BY <1>1
<1>7. \A i \in 1..(n + 1) : Present(m0, t[i]) /\ t[i] \notin left
  BY <1>2, <1>3, <1>6
<1>8. ASSUME NEW i \in 1..(n + 1), NEW j \in 1..(n + 1), i < j
      PROVE  t[i] < t[j] /\ To(m0, t[i]) =< From(m0, t[j])
  <2>1. i \in 1..n
    BY <1>1, <1>8
  <2>2. CASE j \in 1..n
    BY <1>2, <1>4, <1>8, <2>1, <2>2
  <2>3. CASE j = n + 1
    <3>1. t[i] = s[i] /\ t[j] = k /\ s[i] \in 1..(k - 1) /\ n \in 1..n
      BY <1>1, <1>2, <1>3, <2>1, <2>3
    <3>2. s[i] < k
      BY <3>1
    <3>3. To(m0, s[i]) =< From(m0, k)
      <4>1. CASE i = n
        BY <1>1, <1>5, <2>1, <4>1
      <4>2. CASE i # n
        <5>1. To(m0, s[i]) =< From(m0, s[n])
          BY <1>1, <1>4, <2>1, <3>1, <4>2
        <5>2. \A g \in {s[i], s[n], k} : From(m0, g) \in Nat /\ To(m0, g) \in Nat /\ From(m0, g) =< To(m0, g)
          <6>1. \A g \in {s[i], s[n], k} : g \in 1..Len(m0.groups) /\ Present(m0, g)
            <7>1. Len(m0.groups) \in Nat /\ s[n] \in 1..(k - 1) /\ Present(m0, s[n]) /\ Present(m0, s[i])
              BY <1>3, <2>1, <3>1, CapturedIs DEF Inward
            <7>. QED BY <3>1, <7>1
          <6>. QED BY <6>1, CapturedIs
        <5>3. To(m0, s[n]) =< From(m0, k)
          BY <1>1, <1>5, <2>1
        <5> DEFINE a == To(m0, s[i])
                   b == From(m0, s[n])
                   c == To(m0, s[n])
                   d == From(m0, k)
        <5>4. a \in Nat /\ b \in Nat /\ c \in Nat /\ d \in Nat /\ a =< b /\ b =< c /\ c =< d
          BY <5>1, <5>2, <5>3
        <5>. HIDE DEF a, b, c, d
        <5>5. a =< d
          BY <5>4
        <5>. QED BY <5>5 DEF a, d
      <4>. QED BY <4>1, <4>2
    <3>. QED BY <3>1, <3>2, <3>3
  <2>. QED BY <1>6, <2>2, <2>3
<1>9. Len(t) = n + 1 /\ t \in Seq(1..k)
  BY <1>2
<1>. QED BY <1>7, <1>8, <1>9 DEF Lined, t

(* bounds takes groups of the match in its order, each after the last.       *)
LEMMA TakenLined ==
  ASSUME NEW m0, Captured(m0), NEW left, NEW f, Takes(f, m0, left),
         NEW k \in 0..Len(m0.groups)
  PROVE  Lined(m0, left, f[k], k)
<1> DEFINE n == Len(m0.groups)
           Bad == {j \in 0..n : ~Lined(m0, left, f[j], j)}
<1>1. n \in Nat
  BY CapturedIs DEF Inward
<1>2. ASSUME NEW j \in 0..n
      PROVE  f[j] = IF j = 0 THEN <<>> ELSE IF j \in left THEN f[j - 1] ELSE Take(m0, f[j - 1], j)
  BY Zenon DEF Takes
<1>3. Bad = {}
  <2>. SUFFICES ASSUME Bad # {} PROVE FALSE
    OBVIOUS
  <2>1. PICK m \in Bad : \A j \in Bad : m =< j
    <3>1. Bad \in SUBSET Nat
      BY <1>1
    <3>. HIDE DEF Bad
    <3>. QED BY <3>1, NatLeast
  <2>2. m \in 0..n /\ ~Lined(m0, left, f[m], m)
    OBVIOUS
  <2>3. m # 0
    <3>1. Lined(m0, left, <<>>, 0)
      BY DEF Lined
    <3>. QED BY <1>2, <2>2, <3>1
  <2>4. m \in 1..n /\ m - 1 \in 0..n /\ ~(m =< m - 1)
    BY <1>1, <2>2, <2>3
  <2>5. Lined(m0, left, f[m - 1], m - 1)
    BY <2>1, <2>4
  <2>6. Lined(m0, left, f[m - 1], m)
    <3>1. 1..(m - 1) \subseteq 1..m
      BY <2>4
    <3>. QED BY <2>5, <3>1 DEF Lined
  <2> DEFINE s == f[m - 1]
  <2>7. \/ f[m] = s
        \/ /\ f[m] = Append(s, m) /\ m \notin left /\ Present(m0, m)
           /\ ~(From(m0, m) < (IF s = <<>> THEN m0.from ELSE To(m0, s[Len(s)])))
    <3>1. f[m] = IF m \in left THEN s ELSE Take(m0, s, m)
      BY <1>2, <2>2, <2>3
    <3> DEFINE last == IF s = <<>> THEN m0.from ELSE To(m0, s[Len(s)])
    <3>2. Take(m0, s, m) = IF ~Present(m0, m) \/ From(m0, m) < last THEN s ELSE Append(s, m)
      BY DEF Take, Present, From, To
    <3>. HIDE DEF s, last
    <3>3. f[m] = s \/ (f[m] = Append(s, m) /\ m \notin left /\ Present(m0, m) /\ ~(From(m0, m) < last))
      <4>1. CASE m \in left \/ ~Present(m0, m) \/ From(m0, m) < last
        BY <3>1, <3>2, <4>1, Zenon
      <4>2. CASE ~(m \in left \/ ~Present(m0, m) \/ From(m0, m) < last)
        BY <3>1, <3>2, <4>2, Zenon
      <4>. QED BY <4>1, <4>2, Zenon
    <3>. QED BY <3>3 DEF s, last
  <2>8. f[m] = Append(s, m)
    BY <2>2, <2>6, <2>7
  <2>9. Present(m0, m) /\ m \notin left /\ (s # <<>> => ~(From(m0, m) < To(m0, s[Len(s)])))
    BY <2>2, <2>6, <2>7
  <2>. HIDE DEF s, Bad
  <2>10. s # <<>> => To(m0, s[Len(s)]) =< From(m0, m)
    <3>. SUFFICES ASSUME s # <<>> PROVE To(m0, s[Len(s)]) =< From(m0, m)
      OBVIOUS
    <3>1. s \in Seq(1..(m - 1)) /\ \A i \in 1..Len(s) : Present(m0, s[i])
      BY <2>5 DEF Lined, s
    <3>2. Len(s) \in 1..Len(s)
      BY <3>1
    <3>3. s[Len(s)] \in 1..(m - 1) /\ Present(m0, s[Len(s)])
      <4> DEFINE S == 1..(m - 1)
      <4>1. s \in Seq(S)
        BY <3>1
      <4>. HIDE DEF S
      <4>2. s[Len(s)] \in S
        BY <3>2, <4>1
      <4>. QED BY <3>1, <3>2, <4>2 DEF S
    <3>4. s[Len(s)] \in 1..n /\ m \in 1..n
      BY <1>1, <2>4, <3>3
    <3> DEFINE a == To(m0, s[Len(s)])
               b == From(m0, m)
    <3>5. a \in Nat /\ b \in Nat /\ ~(b < a)
      BY <2>9, <3>3, <3>4, CapturedIs DEF n
    <3>. HIDE DEF a, b
    <3>6. a =< b
      BY <3>5
    <3>. QED BY <3>6 DEF a, b
  <2>11. Lined(m0, left, Append(s, m), m)
    <3>1. Lined(m0, left, s, m - 1)
      BY <2>5 DEF s
    <3>. QED BY <2>4, <2>9, <2>10, <3>1, LinedMore DEF n
  <2>. QED BY <2>2, <2>8, <2>11
<1>. QED BY <1>3

(* How two groups lie, by the pattern.                                       *)
LEMMA NestedIs ==
  ASSUME NEW m0, Captured(m0), NEW g \in 1..Len(m0.groups), NEW h \in 1..(g - 1), Present(m0, g)
  PROVE  /\ h \in Above(m0)[g] => Present(m0, h) /\ To(m0, g) =< To(m0, h)
         /\ h \notin Above(m0)[g] /\ Present(m0, h) => To(m0, h) =< From(m0, g)
BY DEF Captured, Present, From, To

\* A node is owed for g: it took part and was kept, and no group above it was.
Owes(m, left, g) == Present(m, g) /\ g \notin left /\ Above(m)[g] \subseteq left

(* Above a present group all are present, so the code's words say the same.  *)
LEMMA OwesIs ==
  ASSUME NEW m0, Captured(m0), NEW left, NEW g \in 1..Len(m0.groups), Present(m0, g)
  PROVE  {h \in Above(m0)[g] \ left : Present(m0, h)} = {} <=> Above(m0)[g] \subseteq left
<1>1. Above(m0)[g] \subseteq 1..(g - 1)
  <2>1. g \in 0..Len(m0.groups)
    BY CapturedIs DEF Inward
  <2>. QED BY <2>1, CapturedIs, AboveBefore
<1>2. \A h \in Above(m0)[g] : Present(m0, h)
  BY <1>1, NestedIs
<1>. QED BY <1>2

(* Where no group above g is kept out, the outermost kept one is owed.       *)
LEMMA HolderOwed ==
  ASSUME NEW m0, Captured(m0), NEW left, NEW g \in 1..Len(m0.groups), Present(m0, g),
         ~(Above(m0)[g] \subseteq left)
  PROVE  \E h \in Above(m0)[g] : h \in 1..(g - 1) /\ Owes(m0, left, h)
<1>0. Inward(m0) /\ g \in 0..Len(m0.groups) /\ Len(m0.groups) \in Nat
  BY CapturedIs DEF Inward
<1>1. Above(m0)[g] \subseteq 1..(g - 1)
  BY <1>0, AboveBefore
<1> DEFINE S == Above(m0)[g] \ left
<1>2. PICK h \in S : \A j \in S : h =< j
  <2>1. S \in SUBSET Nat /\ S # {}
    BY <1>0, <1>1
  <2>. HIDE DEF S
  <2>. QED BY <2>1, NatLeast
<1>3. h \in Above(m0)[g] /\ h \notin left /\ h \in 1..(g - 1)
  BY <1>1
<1>4. Present(m0, h)
  BY <1>3, NestedIs
<1>5. h \in 0..Len(m0.groups)
  BY <1>0, <1>3
<1>6. Above(m0)[h] \subseteq 1..(h - 1) /\ Above(m0)[h] \subseteq Above(m0)[g]
  BY <1>0, <1>3, <1>5, AboveBefore, AboveAbove
<1>7. ASSUME NEW j \in Above(m0)[h], j \notin left
      PROVE  FALSE
  <2>1. j \in S /\ j \in 1..(h - 1)
    BY <1>6, <1>7
  <2>2. h =< j
    BY <1>2, <2>1
  <2>. QED BY <1>3, <2>1, <2>2
<1>. QED BY <1>3, <1>4, <1>7 DEF Owes

Taken(s) == {s[i] : i \in 1..Len(s)}

OwedTo(m, left, k) == {g \in 1..k : Owes(m, left, g)}

(* A turn takes a group just when it is owed.                                *)
LEMMA TakenTurn ==
  ASSUME NEW m0, Captured(m0), ~TrailsEmpty(m0), NEW left, NEW s, NEW g \in 1..Len(m0.groups),
         Lined(m0, left, s, g - 1), Taken(s) = OwedTo(m0, left, g - 1),
         Present(m0, g), g \notin left
  PROVE  Take(m0, s, g) = IF Owes(m0, left, g) THEN Append(s, g) ELSE s
<1> DEFINE n == Len(s)
           last == IF s = <<>> THEN m0.from ELSE To(m0, s[n])
<1>1. Take(m0, s, g) = IF From(m0, g) < last THEN s ELSE Append(s, g)
  BY DEF Take, Present, From, To
<1>2. s \in Seq(1..(g - 1)) /\ n \in Nat /\ g \in Nat /\ Len(m0.groups) \in Nat
  BY CapturedIs DEF Lined, Inward
<1>3. \A i \in 1..n : s[i] \in 1..(g - 1) /\ s[i] \in 1..Len(m0.groups) /\ Present(m0, s[i])
                      /\ Owes(m0, left, s[i])
  <2>1. \A i \in 1..n : s[i] \in 1..(g - 1)
    BY <1>2
  <2>2. \A i \in 1..n : s[i] \in 1..Len(m0.groups)
    BY <1>2, <2>1
  <2>3. \A i \in 1..n : Owes(m0, left, s[i])
    BY DEF Taken, OwedTo
  <2>. QED BY <2>1, <2>2, <2>3 DEF Owes
<1>4. /\ From(m0, g) \in Nat /\ To(m0, g) \in Nat /\ m0.from \in Nat
      /\ m0.from =< From(m0, g) /\ From(m0, g) =< To(m0, g)
  BY CapturedIs
<1>5. n # 0 => n \in 1..n /\ s # <<>>
  BY <1>2
<1>6. CASE Owes(m0, left, g)
  <2>1. last =< From(m0, g)
    <3>1. CASE n = 0
      <4>1. s = <<>>
        BY <1>2, <3>1
      <4>. QED BY <1>4, <4>1
    <3>2. CASE n # 0
      <4>1. s[n] \notin Above(m0)[g]
        BY <1>3, <1>5, <1>6, <3>2 DEF Owes
      <4>2. To(m0, s[n]) =< From(m0, g)
        BY <1>3, <1>5, <3>2, <4>1, NestedIs
      <4>. QED BY <1>5, <3>2, <4>2
    <3>. QED BY <3>1, <3>2
  <2>2. last \in Nat
    <3>1. n # 0 => To(m0, s[n]) \in Nat
      BY <1>3, <1>5, CapturedIs
    <3>2. n = 0 => s = <<>>
      BY <1>2
    <3>. QED BY <1>4, <3>1, <3>2
  <2>. HIDE DEF last
  <2>3. ~(From(m0, g) < last)
    BY <1>4, <2>1, <2>2
  <2>. QED BY <1>1, <1>6, <2>3
<1>7. CASE ~Owes(m0, left, g)
  <2>1. PICK h \in Above(m0)[g] : h \in 1..(g - 1) /\ Owes(m0, left, h)
    BY <1>7, HolderOwed DEF Owes
  <2>2. PICK i \in 1..n : s[i] = h
    BY <2>1 DEF Taken, OwedTo
  <2>3. To(m0, g) =< To(m0, h) /\ Present(m0, h)
    BY <2>1, NestedIs
  <2>4. ~(From(m0, g) = To(m0, g) /\ To(m0, h) = To(m0, g))
    <3>1. m0.groups[g].at # Absent
      BY DEF Present
    <3>. QED BY <2>1, <3>1 DEF TrailsEmpty, From, To
  <2>5. n \in 1..n /\ s # <<>>
    BY <1>2, <2>2
  <2>6. /\ From(m0, s[n]) \in Nat /\ To(m0, s[n]) \in Nat /\ From(m0, s[n]) =< To(m0, s[n])
        /\ To(m0, h) \in Nat
    BY <1>3, <2>2, <2>5, CapturedIs
  <2>7. i # n => To(m0, h) =< From(m0, s[n])
    <3>1. i # n => i < n
      BY <1>2, <2>2
    <3>. QED BY <2>2, <2>5, <3>1 DEF Lined
  <2>8. i = n => To(m0, h) = To(m0, s[n])
    BY <2>2
  <2> DEFINE a == From(m0, g)
             b == To(m0, g)
             c == To(m0, h)
             d == From(m0, s[n])
             e == To(m0, s[n])
  <2>9. /\ a \in Nat /\ b \in Nat /\ c \in Nat /\ d \in Nat /\ e \in Nat
        /\ a =< b /\ b =< c /\ ~(a = b /\ c = b) /\ d =< e /\ (c =< d \/ c = e)
    BY <1>4, <2>3, <2>4, <2>6, <2>7, <2>8
  <2>. HIDE DEF a, b, c, d, e
  <2>10. a < e
    BY <2>9
  <2>11. From(m0, g) < last
    BY <2>5, <2>10 DEF a, e
  <2>. QED BY <1>1, <1>7, <2>11
<1>. QED BY <1>6, <1>7

(* So what bounds takes are the groups owed, whatever was left out.          *)
LEMMA TakenOwed ==
  ASSUME NEW m0, Captured(m0), ~TrailsEmpty(m0), NEW left, NEW f, Takes(f, m0, left),
         NEW k \in 0..Len(m0.groups)
  PROVE  Taken(f[k]) = OwedTo(m0, left, k)
<1> DEFINE n == Len(m0.groups)
           Bad == {j \in 0..n : Taken(f[j]) # OwedTo(m0, left, j)}
<1>1. n \in Nat
  BY CapturedIs DEF Inward
<1>2. ASSUME NEW j \in 0..n
      PROVE  f[j] = IF j = 0 THEN <<>> ELSE IF j \in left THEN f[j - 1] ELSE Take(m0, f[j - 1], j)
  BY Zenon DEF Takes
<1>3. Bad = {}
  <2>. SUFFICES ASSUME Bad # {} PROVE FALSE
    OBVIOUS
  <2>1. PICK m \in Bad : \A j \in Bad : m =< j
    <3>1. Bad \in SUBSET Nat
      BY <1>1
    <3>. HIDE DEF Bad
    <3>. QED BY <3>1, NatLeast
  <2>2. m \in 0..n /\ Taken(f[m]) # OwedTo(m0, left, m)
    OBVIOUS
  <2>3. m # 0
    <3>1. Taken(<<>>) = {} /\ OwedTo(m0, left, 0) = {}
      BY DEF Taken, OwedTo
    <3>. QED BY <1>2, <2>2, <3>1
  <2>4. m \in 1..n /\ m - 1 \in 0..n /\ ~(m =< m - 1)
    BY <1>1, <2>2, <2>3
  <2> DEFINE s == f[m - 1]
  <2>5. Taken(s) = OwedTo(m0, left, m - 1)
    BY <2>1, <2>4
  <2>6. Lined(m0, left, s, m - 1)
    BY <2>4, TakenLined DEF n
  <2>7. f[m] = IF m \in left THEN s ELSE Take(m0, s, m)
    BY <1>2, <2>2, <2>3
  <2>. HIDE DEF s, Bad
  <2>8. f[m] = IF Owes(m0, left, m) THEN Append(s, m) ELSE s
    <3>1. CASE m \in left
      BY <2>7, <3>1 DEF Owes
    <3>2. CASE ~Present(m0, m) /\ m \notin left
      <4>1. Take(m0, s, m) = s
        BY <3>2 DEF Take, Present
      <4>. QED BY <2>7, <3>2, <4>1 DEF Owes
    <3>3. CASE Present(m0, m) /\ m \notin left
      <4>1. Take(m0, s, m) = IF Owes(m0, left, m) THEN Append(s, m) ELSE s
        BY <2>4, <2>5, <2>6, <3>3, TakenTurn DEF n
      <4>. QED BY <2>7, <3>3, <4>1
    <3>. QED BY <3>1, <3>2, <3>3
  <2>9. OwedTo(m0, left, m) = OwedTo(m0, left, m - 1) \cup {g \in {m} : Owes(m0, left, g)}
    <3>1. 1..m = 1..(m - 1) \cup {m}
      BY <2>4
    <3>. QED BY <3>1 DEF OwedTo
  <2>10. CASE Owes(m0, left, m)
    <3>1. Taken(Append(s, m)) = Taken(s) \cup {m}
      <4>1. s \in Seq(1..(m - 1))
        BY <2>6 DEF Lined
      <4> DEFINE t == Append(s, m)
                 l == Len(s)
      <4>2. l \in Nat /\ Len(t) = l + 1 /\ t[l + 1] = m /\ \A i \in 1..l : t[i] = s[i]
        BY <4>1
      <4>. HIDE DEF t
      <4>3. 1..(l + 1) = 1..l \cup {l + 1}
        BY <4>2
      <4>. HIDE DEF l
      <4>4. Taken(t) = {s[i] : i \in 1..l} \cup {m}
        BY <4>2, <4>3 DEF Taken
      <4>. QED BY <4>4 DEF Taken, t, l
    <3>. QED BY <2>2, <2>5, <2>8, <2>9, <2>10, <3>1
  <2>11. CASE ~Owes(m0, left, m)
    BY <2>2, <2>5, <2>8, <2>9, <2>11
  <2>. QED BY <2>10, <2>11
<1>. QED BY <1>3

---------------------------------------------------------------------------
(* What Done refuses.                                                        *)

(* The bounds, in the order of their groups.                                 *)
LEMMA BoundsLined ==
  ASSUME NEW m0, Captured(m0), NEW left
  PROVE  Lined(m0, left, Bounds(m0, left), Len(m0.groups))
<1>1. Len(m0.groups) \in Nat
  BY CapturedIs DEF Inward
<1>2. PICK f : Takes(f, m0, left) /\ Bounds(m0, left) = f[Len(m0.groups)]
  BY <1>1, BoundsIs
<1>3. Len(m0.groups) \in 0..Len(m0.groups)
  BY <1>1
<1>. QED BY <1>2, <1>3, TakenLined

(* They are the groups owed.                                                 *)
LEMMA BoundsOwed ==
  ASSUME NEW m0, Captured(m0), ~TrailsEmpty(m0), NEW left
  PROVE  Taken(Bounds(m0, left)) =
           {g \in 1..Len(m0.groups) :
              /\ Present(m0, g) /\ g \notin left
              /\ {h \in Above(m0)[g] \ left : Present(m0, h)} = {}}
<1>1. Len(m0.groups) \in Nat
  BY CapturedIs DEF Inward
<1>2. PICK f : Takes(f, m0, left) /\ Bounds(m0, left) = f[Len(m0.groups)]
  BY <1>1, BoundsIs
<1>3. Len(m0.groups) \in 0..Len(m0.groups)
  BY <1>1
<1>4. Taken(Bounds(m0, left)) = OwedTo(m0, left, Len(m0.groups))
  BY <1>2, <1>3, TakenOwed
<1>5. ASSUME NEW g \in 1..Len(m0.groups), Present(m0, g)
      PROVE  {h \in Above(m0)[g] \ left : Present(m0, h)} = {} <=> Above(m0)[g] \subseteq left
  BY <1>5, OwesIs
<1>. QED BY <1>4, <1>5 DEF OwedTo, Owes

\* The pattern's matches trail no empty group: without this Done may pass over
\* one that is owed, and ask for none.
NoneTrails == \A m \in Matches : ~TrailsEmpty(m)

LEMMA OwedIs ==
  ASSUME NoneTrails, match \in Matches
  PROVE  Taken(Bounds(match, omitted)) = Owed
<1>1. Captured(match) /\ ~TrailsEmpty(match)
  BY FieldsAssumption DEF NoneTrails
<1>2. Taken(Bounds(match, omitted)) =
           {g \in 1..Len(match.groups) :
              /\ Present(match, g) /\ g \notin omitted
              /\ {h \in Above(match)[g] \ omitted : Present(match, h)} = {}}
  BY <1>1, BoundsOwed
<1>. QED BY <1>2 DEF Owed, Holders, Groups, Present

RefusedWhenFaulty ==
  match \in Matches /\ DoneRefusesFaultsOnly

(* Done refuses when a group owed has no node that spans it, and only then,  *)
(* whatever was put and omitted and in whichever order (R99, R106, R109).    *)
THEOREM RefusalsJust ==
  ASSUME NoneTrails
  PROVE  FieldSpec => []DoneRefusesFaultsOnly
<1>1. FieldInit => RefusedWhenFaulty
  BY DEF FieldInit, RefusedWhenFaulty, DoneRefusesFaultsOnly
<1>2. RefusedWhenFaulty /\ [FieldNext]_fieldVars => RefusedWhenFaulty'
  <2>. SUFFICES ASSUME RefusedWhenFaulty, [FieldNext]_fieldVars
                PROVE  RefusedWhenFaulty'
    OBVIOUS
  <2>1. ASSUME phase = "laying", phase' = "laying", match' = match
        PROVE  RefusedWhenFaulty'
    BY <2>1 DEF RefusedWhenFaulty, DoneRefusesFaultsOnly
  <2>2. ASSUME UNCHANGED <<match, base, slot, omitted, phase>>
        PROVE  RefusedWhenFaulty'
    BY <2>2 DEF RefusedWhenFaulty, DoneRefusesFaultsOnly, Owed, Groups, Holders, Fits, GroupSpan
  <2>3. CASE \E g \in Groups, h \in Groups : Put(g, h)
    BY <2>1, <2>3 DEF Put
  <2>4. CASE \E g \in Groups : Omit(g)
    BY <2>1, <2>4 DEF Omit
  <2>5. CASE Done
    <3> DEFINE b == Bounds(match, omitted)
    <3>1. Taken(b) = Owed /\ match \in Matches
      BY OwedIs DEF RefusedWhenFaulty
    <3>2. /\ phase' = "refused" <=> ~\A i \in 1..Len(b) : Fits(b[i])
          /\ UNCHANGED <<match, base, slot, omitted>>
      BY <2>5 DEF Done
    <3>. HIDE DEF b
    <3>3. (\E g \in Owed : ~Fits(g)) <=> ~\A i \in 1..Len(b) : Fits(b[i])
      BY <3>1 DEF Taken
    <3>4. (\E g \in Owed : ~Fits(g))' <=> \E g \in Owed : ~Fits(g)
      BY <3>2 DEF Owed, Groups, Holders, Fits, GroupSpan
    <3>. QED BY <3>1, <3>2, <3>3, <3>4 DEF RefusedWhenFaulty, DoneRefusesFaultsOnly
  <2>6. ASSUME NEW k \in 1..Len(kids), NEW bytes, Write(k, bytes)
        PROVE  RefusedWhenFaulty'
    BY <2>2, <2>6 DEF Write
  <2>7. CASE \E k \in 1..Len(kids) :
               \/ \E bytes \in Texts : SetText(k, bytes)
               \/ \E v \in BOOLEAN : SetBool(k, v)
               \/ \E items \in ItemLists : SetItems(k, items)
               \/ \E ns \in RefLists : SetRefs(k, ns)
    BY <2>6, <2>7 DEF SetText, SetBool, SetItems, SetRefs
  <2>8. CASE UNCHANGED fieldVars
    BY <2>2, <2>8 DEF fieldVars
  <2>. QED BY <2>3, <2>4, <2>5, <2>7, <2>8 DEF FieldNext
<1>3. RefusedWhenFaulty => DoneRefusesFaultsOnly
  BY DEF RefusedWhenFaulty
<1>. QED BY <1>1, <1>2, <1>3, PTL DEF FieldSpec

---------------------------------------------------------------------------
(* The nodes a schema makes.                                                 *)

(* A span is in the base's text, or nowhere with it.                         *)
LEMMA SpanInIs ==
  ASSUME NEW b \in Locs, NEW from \in Nat, NEW to \in Nat, from =< to
  PROVE  /\ SpanIn(b, from, to) =
              [ origin  |-> b.origin,
                offset  |-> IF b.offset = 0 THEN 0 ELSE b.offset + from,
                length  |-> to - from,
                altered |-> FALSE ]
         /\ SpanIn(b, from, to) \in Locs
<1>1. b.offset \in Nat /\ b.origin \in Origins \cup {NoOrigin}
  BY DEF Locs
<1>2. CASE b.offset = 0
  <2>1. Offset(b) < 0
    BY <1>2 DEF Offset
  <2>2. SpanIn(b, from, to) = [origin |-> b.origin, offset |-> 0, length |-> to - from, altered |-> FALSE]
    <3>1. SpanIn(b, from, to) = In(Synthetic(to - from), b.origin)
      BY <2>1 DEF SpanIn
    <3>. QED BY <3>1 DEF In, Synthetic
  <2>3. to - from \in Nat
    OBVIOUS
  <2>. QED BY <1>1, <1>2, <2>2, <2>3 DEF Locs
<1>3. CASE b.offset # 0
  <2>1. ~(Offset(b) < 0) /\ Offset(b) + from + 1 = b.offset + from
    BY <1>1, <1>3 DEF Offset
  <2>2. SpanIn(b, from, to) = [origin |-> b.origin, offset |-> b.offset + from, length |-> to - from, altered |-> FALSE]
    <3>1. SpanIn(b, from, to) = In(Source(Offset(b) + from, to - from), b.origin)
      BY <2>1 DEF SpanIn
    <3>2. SpanIn(b, from, to).offset = Offset(b) + from + 1
      BY <3>1 DEF In, Source
    <3>. QED BY <2>1, <3>1 DEF In, Source
  <2>3. to - from \in Nat /\ b.offset + from \in Nat
    BY <1>1
  <2>. QED BY <1>1, <1>3, <2>2, <2>3 DEF Locs
<1>. QED BY <1>2, <1>3

(* The greatest of a set of naturals below a bound, nothing counting as 0.   *)
LEMMA GreatestOrZero ==
  ASSUME NEW n \in Nat, NEW S \in SUBSET (1..n)
  PROVE  FSE!Max({0} \cup S) \in 0..n
<1>1. \E m \in {0} \cup S : \A k \in {0} \cup S : m >= k
  <2>1. CASE S = {}
    BY <2>1
  <2>2. CASE S # {}
    <3>1. PICK m \in S : \A k \in S : k =< m
      BY <2>2, NatGreatest
    <3>2. m \in Nat /\ \A k \in S : k \in Nat
      OBVIOUS
    <3>. QED BY <3>1, <3>2
  <2>. QED BY <2>1, <2>2
<1>2. FSE!Max({0} \cup S) \in {0} \cup S
  BY <1>1 DEF FSE!Max
<1>3. {0} \cup S \subseteq 0..n
  OBVIOUS
<1>. HIDE DEF FSE!Max
<1>. QED BY <1>2, <1>3

(* A list is no longer than the text it heads.                               *)
LEMMA ListedTyped ==
  ASSUME NEW text \in Seq(Bytes), NEW kind
  PROVE  Listed(text, kind) \in 0..Len(text)
<1> DEFINE S == {n \in 1..Len(text) : \A fields \in {Fields(SubSeq(text, 1, n))} :
                                   \A i \in 1..Len(fields) : IsOf(kind, fields[i])}
<1>1. S \in SUBSET (1..Len(text)) /\ Len(text) \in Nat
  OBVIOUS
<1>. HIDE DEF S
<1>2. FSE!Max({0} \cup S) \in 0..Len(text)
  BY <1>1, GreatestOrZero
<1>. QED BY <1>2 DEF Listed, S

FieldKinds == {"List", "Refs", "Bool", "Text"}

Leaves == [kind : FieldKinds \cup {"Glue"}, text : Seq(Bytes), loc : Locs, span : Locs]

\* A node as a schema made it: it holds what its location says, and where that
\* is in the document the bytes there.
Made(m, b, node) ==
  /\ node \in Leaves /\ node.kind \in FieldKinds
  /\ node.span = node.loc
  /\ ~node.loc.altered /\ node.loc.length = Len(node.text)
  /\ \A from \in Nat : \A to \in from..m.to :
       b.offset # 0 /\ node.loc = SpanIn(b, from, to) => node.text = SubSeq(m.text, from + 1, to)

(* The head of a span begins where the span does.                            *)
LEMMA SpanInHead ==
  ASSUME NEW l \in Locs, NEW n \in Nat
  PROVE  SpanIn(l, 0, n) = [origin |-> l.origin, offset |-> l.offset, length |-> n, altered |-> FALSE]
<1>1. l.offset \in Nat
  BY DEF Locs
<1>2. CASE l.offset = 0
  <2>1. Offset(l) < 0
    BY <1>2 DEF Offset
  <2>2. SpanIn(l, 0, n) = In(Synthetic(n), l.origin)
    BY <2>1 DEF SpanIn
  <2>. QED BY <1>2, <2>2 DEF In, Synthetic
<1>3. CASE l.offset # 0
  <2>1. ~(Offset(l) < 0) /\ Offset(l) + 1 = l.offset
    BY <1>1, <1>3 DEF Offset
  <2>2. SpanIn(l, 0, n) = In(Source(Offset(l), n), l.origin)
    BY <1>1, <2>1 DEF SpanIn, Offset
  <2>. QED BY <2>1, <2>2 DEF In, Source
<1>. QED BY <1>2, <1>3

(* Two spans of one document are the same from the same place to the same.   *)
LEMMA SpanInOnce ==
  ASSUME NEW b \in Locs, b.offset # 0,
         NEW from \in Nat, NEW to \in Nat, from =< to, NEW f \in Nat, NEW t \in Nat, f =< t,
         SpanIn(b, from, to) = SpanIn(b, f, t)
  PROVE  f = from /\ t = to
<1> DEFINE p == SpanIn(b, from, to)
           q == SpanIn(b, f, t)
<1>1. p.offset = b.offset + from /\ p.length = to - from
  BY SpanInIs
<1>2. q.offset = b.offset + f /\ q.length = t - f
  BY SpanInIs
<1>3. p = q /\ b.offset \in Nat
  BY DEF Locs
<1>. HIDE DEF p, q
<1>. QED BY <1>1, <1>2, <1>3

(* A node of the bytes from a to e, read there.                              *)
LEMMA MadeOf ==
  ASSUME NEW m0, Captured(m0), NEW b \in Locs, NEW kind \in FieldKinds,
         NEW a \in Nat, NEW e \in Nat, a =< e, e =< Len(m0.text), NEW node,
         node = [kind |-> kind, text |-> SubSeq(m0.text, a + 1, e), loc |-> SpanIn(b, a, e), span |-> SpanIn(b, a, e)]
  PROVE  Made(m0, b, node)
<1>1. m0.text \in Seq(Bytes)
  BY DEF Captured
<1> DEFINE n == e - a
           t == SubSeq(m0.text, a + 1, e)
           l == SpanIn(b, a, e)
<1>2. n \in Nat /\ a + n = e
  OBVIOUS
<1>3. t \in Seq(Bytes) /\ Len(t) = n
  <2>. HIDE DEF n
  <2>1. SubSeq(m0.text, a + 1, a + n) \in Seq(Bytes) /\ Len(SubSeq(m0.text, a + 1, a + n)) = n
    BY <1>1, <1>2, SpanElements
  <2>. QED BY <1>2, <2>1
<1>4. l \in Locs /\ l.length = n /\ l.altered = FALSE
  BY SpanInIs
<1>5. ASSUME NEW from \in Nat, NEW to \in from..m0.to, b.offset # 0, l = SpanIn(b, from, to)
      PROVE  t = SubSeq(m0.text, from + 1, to)
  <2>1. m0.to \in Nat
    BY CapturedIs
  <2>2. to \in Nat /\ from =< to
    BY <2>1
  <2>. HIDE DEF n
  <2>3. from = a /\ to = e
    BY <1>5, <2>2, SpanInOnce
  <2>. QED BY <2>3
<1>6. node.kind = kind /\ node.text = t /\ node.loc = l /\ node.span = l
  OBVIOUS
<1>. HIDE DEF n, t, l
<1>7. node \in Leaves
  <2>1. node = [kind |-> kind, text |-> t, loc |-> l, span |-> l]
    BY DEF t, l
  <2>2. kind \in FieldKinds \cup {"Glue"}
    OBVIOUS
  <2>. QED BY ONLY <1>3, <1>4, <2>1, <2>2 DEF Leaves
<1>. QED BY <1>3, <1>4, <1>5, <1>6, <1>7 DEF Made

(* Whatever group it is made of, and as whatever kind.                       *)
LEMMA NodeMade ==
  ASSUME Captured(match), base \in Locs, NEW kind, NEW h \in Groups
  PROVE  Made(match, base, Node(kind, h))
<1> DEFINE text == GroupText(match, h)
           loc  == GroupLoc(match, base, h)
           n    == IF kind \in {"List", "Refs"} THEN Listed(text, kind) ELSE 0
           node == Node(kind, h)
           k0   == IF kind = "Bool" THEN kind ELSE "Text"
<1>0. match.text \in Seq(Bytes) /\ match.to \in Nat /\ match.to =< Len(match.text)
  BY DEF Captured
<1>1. k0 \in FieldKinds
  BY DEF FieldKinds
<1>2. node = IF n > 0 THEN [kind |-> kind, text |-> SubSeq(text, 1, n), loc |-> SpanIn(loc, 0, n), span |-> SpanIn(loc, 0, n)]
             ELSE [kind |-> k0, text |-> text, loc |-> loc, span |-> loc]
  BY DEF Node
<1>3. ASSUME text \in Seq(Bytes) PROVE  n \in 0..Len(text)
  <2>1. CASE kind \in {"List", "Refs"}
    <3>1. Listed(text, kind) \in 0..Len(text)
      <4>. HIDE DEF text
      <4>. QED BY <1>3, ListedTyped
    <3>. QED BY <2>1, <3>1
  <2>2. CASE kind \notin {"List", "Refs"}
    <3>. HIDE DEF text
    <3>1. Len(text) \in Nat
      BY <1>3
    <3>. QED BY <2>2, <3>1
  <2>. QED BY <2>1, <2>2
<1>4. CASE ~Present(match, h)
  <2>1. text = <<>> /\ loc = Synthetic(0)
    BY <1>4 DEF GroupText, GroupLoc, Present
  <2>2. n = 0
    <3>1. text \in Seq(Bytes) /\ Len(text) = 0
      BY <2>1
    <3>. HIDE DEF text, n
    <3>. QED BY <1>3, <3>1
  <2>3. node = [kind |-> k0, text |-> <<>>, loc |-> Synthetic(0), span |-> Synthetic(0)]
    <3>. HIDE DEF n, node, text, loc, k0
    <3>. QED BY <1>2, <2>1, <2>2
  <2>4. Synthetic(0) \in Locs /\ Synthetic(0).offset = 0 /\ Synthetic(0).length = 0 /\ Synthetic(0).altered = FALSE
    BY DEF Synthetic, Locs
  <2>5. ASSUME NEW from \in Nat, NEW to \in from..match.to, base.offset # 0, Synthetic(0) = SpanIn(base, from, to)
        PROVE  FALSE
    <3>1. to \in Nat /\ from =< to /\ base.offset \in Nat
      BY <1>0 DEF Locs
    <3>2. SpanIn(base, from, to).offset = base.offset + from
      BY <2>5, <3>1, SpanInIs
    <3>. QED BY <2>4, <2>5, <3>1, <3>2
  <2>6. <<>> \in Seq(Bytes) /\ Len(<<>>) = 0
    OBVIOUS
  <2>. HIDE DEF node, k0
  <2>7. node.kind = k0 /\ node.text = <<>> /\ node.loc = Synthetic(0) /\ node.span = Synthetic(0)
    BY ONLY <2>3
  <2>8. node \in Leaves
    BY <1>1, <2>3, <2>4, <2>6 DEF Leaves
  <2>. QED BY <1>1, <2>4, <2>5, <2>6, <2>7, <2>8 DEF Made, node
<1>5. CASE Present(match, h)
  <2> DEFINE a == From(match, h)
             e == To(match, h)
  <2>1. a \in Nat /\ e \in Nat /\ a =< e /\ e =< match.to
    BY <1>5, CapturedIs DEF Groups
  <2>2. text = SubSeq(match.text, a + 1, e) /\ loc = SpanIn(base, a, e)
    BY <1>5 DEF GroupText, GroupLoc, Present, From, To
  <2>3. e =< Len(match.text)
    BY <1>0, <2>1
  <2>4. CASE ~(n > 0)
    <3>1. node = [kind |-> k0, text |-> SubSeq(match.text, a + 1, e), loc |-> SpanIn(base, a, e), span |-> SpanIn(base, a, e)]
      <4>. HIDE DEF n, node, text, loc, k0, a, e
      <4>. QED BY <1>2, <2>2, <2>4
    <3>. HIDE DEF node, k0, a, e
    <3>2. k0 \in FieldKinds /\ a \in Nat /\ e \in Nat /\ a =< e /\ e =< Len(match.text)
      BY <1>1, <2>1, <2>3
    <3>3. Captured(match) /\ base \in Locs
      OBVIOUS
    <3>. QED BY ONLY <3>1, <3>2, <3>3, MadeOf DEF node
  <2>5. CASE n > 0
    <3> DEFINE len == e - a
    <3>1. len \in Nat /\ a + len = e
      BY <2>1
    <3>2. /\ text \in Seq(Bytes) /\ Len(text) = len
          /\ \A k \in 1..len : text[k] = match.text[a + k]
      <4>. HIDE DEF len, text
      <4>1. a + len =< Len(match.text) /\ text = SubSeq(match.text, a + 1, a + len)
        BY <2>2, <2>3, <3>1
      <4>2. /\ SubSeq(match.text, a + 1, a + len) \in Seq(Bytes)
            /\ Len(SubSeq(match.text, a + 1, a + len)) = len
            /\ \A k \in 1..len : SubSeq(match.text, a + 1, a + len)[k] = match.text[a + k]
        BY <1>0, <2>1, <3>1, <4>1, SpanElements
      <4>. QED BY <4>1, <4>2
    <3>3. n \in 1..len /\ kind \in FieldKinds
      <4>1. kind \in FieldKinds
        BY <2>5 DEF FieldKinds
      <4>2. n \in 0..len
        BY <1>3, <3>2
      <4>. HIDE DEF n
      <4>. QED BY <2>5, <4>1, <4>2
    <3>4. SubSeq(text, 1, n) = SubSeq(match.text, a + 1, a + n)
      <4>. HIDE DEF n, text, len, a, e
      <4>1. n \in Nat /\ 0 + n =< Len(text) /\ a + n =< Len(match.text)
        BY <2>1, <2>3, <3>1, <3>2, <3>3
      <4> DEFINE s == SubSeq(text, 0 + 1, 0 + n)
                 t == SubSeq(match.text, a + 1, a + n)
      <4>2. s \in Seq(Bytes) /\ Len(s) = n /\ \A k \in 1..n : s[k] = text[0 + k]
        BY <3>2, <4>1, SpanElements
      <4>3. t \in Seq(Bytes) /\ Len(t) = n /\ \A k \in 1..n : t[k] = match.text[a + k]
        BY <1>0, <2>1, <4>1, SpanElements
      <4>4. \A k \in 1..n : 0 + k = k /\ k \in 1..len
        BY <3>1, <3>3
      <4>5. s = SubSeq(text, 1, n)
        BY <4>1
      <4>. HIDE DEF s, t
      <4>6. s = t
        BY <3>2, <4>2, <4>3, <4>4
      <4>. QED BY <4>5, <4>6 DEF t
    <3>5. SpanIn(loc, 0, n) = SpanIn(base, a, a + n)
      <4>. HIDE DEF n, a, e, len
      <4>1. n \in Nat /\ a + n \in Nat /\ a =< a + n /\ a + n - a = n
        BY <2>1, <3>1, <3>3
      <4>2. loc \in Locs /\ loc.origin = base.origin /\ loc.offset = IF base.offset = 0 THEN 0 ELSE base.offset + a
        BY <2>1, <2>2, SpanInIs
      <4>. HIDE DEF loc
      <4>3. SpanIn(loc, 0, n) = [origin |-> loc.origin, offset |-> loc.offset, length |-> n, altered |-> FALSE]
        BY ONLY <4>1, <4>2, SpanInHead
      <4>4. SpanIn(base, a, a + n) = [origin |-> base.origin, offset |-> IF base.offset = 0 THEN 0 ELSE base.offset + a, length |-> n, altered |-> FALSE]
        <5>1. PICK z : z = a + n
          OBVIOUS
        <5>2. a \in Nat /\ z \in Nat /\ a =< z /\ base \in Locs /\ z - a = n
          BY <2>1, <4>1, <5>1
        <5>3. SpanIn(base, a, z) = [origin |-> base.origin, offset |-> IF base.offset = 0 THEN 0 ELSE base.offset + a, length |-> z - a, altered |-> FALSE]
          BY ONLY <5>2, SpanInIs
        <5>. QED BY ONLY <5>1, <5>2, <5>3
      <4>. QED BY ONLY <4>1, <4>2, <4>3, <4>4
    <3>6. node = [kind |-> kind, text |-> SubSeq(match.text, a + 1, a + n), loc |-> SpanIn(base, a, a + n), span |-> SpanIn(base, a, a + n)]
      <4>. HIDE DEF n, node, text, loc, k0, a, e
      <4>. QED BY <1>2, <2>5, <3>4, <3>5
    <3>. HIDE DEF n, node, text, loc, k0, a, e, len
    <3>7. a + n \in Nat /\ a =< a + n /\ a + n =< Len(match.text)
      BY <2>1, <2>3, <3>1, <3>3
    <3>8. kind \in FieldKinds /\ a \in Nat /\ Captured(match) /\ base \in Locs
      BY <2>1, <3>3
    <3>. QED BY ONLY <3>6, <3>7, <3>8, MadeOf DEF node
  <2>. QED BY <2>4, <2>5
<1>. QED BY <1>4, <1>5

---------------------------------------------------------------------------
(* What a child tells.                                                       *)

(* A compound of one child takes one turn.                                   *)
LEMMA CompoundOfOne ==
  ASSUME NEW loc, NEW kid
  PROVE  CompoundLocation(loc, <<kid>>) =
           Summed([loc |-> [loc EXCEPT !.length = 0], next |-> Offset(loc)], kid).loc
<1> DEFINE nodes == <<kid>>
           first == [loc |-> [loc EXCEPT !.length = 0], next |-> Offset(loc)]
<1>1. Len(nodes) = 1 /\ nodes[1] = kid
  OBVIOUS
<1>. HIDE DEF nodes, first
<1>2. PICK f : Sums(f, loc, nodes) /\ CompoundLocation(loc, nodes) = f[Len(nodes)].loc
  <2>1. Len(nodes) \in Nat
    BY <1>1
  <2>. QED BY ONLY <2>1, SumIs
<1>3. f = [k \in 0..1 |-> IF k = 0 THEN first ELSE Summed(f[k - 1], nodes[k])]
  BY <1>1, <1>2 DEF Sums, first
<1>4. f[0] = first
  <2>1. 0 \in 0..1
    OBVIOUS
  <2>. QED BY <1>3, <2>1
<1>5. f[1] = Summed(f[0], nodes[1])
  <2>1. 1 \in 0..1 /\ 1 # 0 /\ 1 - 1 = 0
    OBVIOUS
  <2>2. f[1] = IF 1 = 0 THEN first ELSE Summed(f[1 - 1], nodes[1])
    BY <1>3, <2>1
  <2>. QED BY <2>1, <2>2
<1>. QED BY <1>1, <1>2, <1>4, <1>5 DEF nodes, first

(* A child tells the place it was read at, the length of what it holds now,  *)
(* and whether it was rewritten; a list, whose place is its child's, only    *)
(* where there is a place to tell.                                           *)
LEMMA LocationIs ==
  ASSUME NEW s \in Locs, s.altered = FALSE, NEW x, x.span = s, x.loc \in {s, Alter(s)},
         x.text \in Seq(Bytes)
  PROVE  /\ Location(x).origin = s.origin /\ Location(x).offset = s.offset
         /\ Location(x).length = Len(x.text)
         /\ Location(x) \in Locs
         /\ Location(x).altered =
              IF x.kind \in {"List", "Refs"} THEN x.loc.altered /\ s.offset # 0 ELSE x.loc.altered
<1> DEFINE n == Len(x.text)
           leaf == TextLocation(x)
<1>1. n \in Nat /\ s.offset \in Nat /\ s.origin \in Origins \cup {NoOrigin}
  BY DEF Locs
<1>2. x.loc.altered \in BOOLEAN /\ x.loc \in Locs /\ x.loc.origin = s.origin /\ x.loc.offset = s.offset
  BY DEF Locs, Alter
<1>3. leaf = [origin |-> s.origin, offset |-> s.offset, length |-> n, altered |-> x.loc.altered]
  BY <1>2 DEF TextLocation, Locs
<1>4. leaf \in Locs
  BY <1>1, <1>2, <1>3 DEF Locs
<1>5. CASE x.kind \notin {"List", "Refs"}
  <2>1. Location(x) = leaf
    BY <1>5 DEF Location
  <2>. HIDE DEF leaf, n
  <2>. QED BY <1>3, <1>4, <1>5, <2>1 DEF n
<1>6. CASE x.kind \in {"List", "Refs"}
  <2> DEFINE acc == [loc |-> [s EXCEPT !.length = 0], next |-> Offset(s)]
             sum == Summed(acc, leaf)
             told == ~acc.loc.altered /\ acc.loc.offset # 0
             runs == Faithful(leaf) /\ (acc.next < 0 \/ Offset(leaf) = acc.next)
  <2>1. Location(x) = sum.loc
    <3>1. Location(x) = CompoundLocation(s, <<leaf>>)
      BY <1>6 DEF Location
    <3>. HIDE DEF leaf
    <3>. QED BY <3>1, CompoundOfOne
  <2>2. acc.loc = [origin |-> s.origin, offset |-> s.offset, length |-> 0, altered |-> FALSE] /\ acc.next = Offset(s)
    BY DEF Locs
  <2>. HIDE DEF leaf, n, acc
  <2>3. told <=> s.offset # 0
    BY <2>2
  <2>4. leaf.offset = s.offset /\ leaf.length = n /\ leaf.altered = x.loc.altered
    BY <1>3
  <2>5. runs <=> s.offset # 0 /\ ~x.loc.altered
    BY <2>2, <2>4 DEF Faithful, Offset
  <2>6. sum.loc = [acc.loc EXCEPT !.length = @ + leaf.length, !.altered = @ \/ (told /\ ~runs)]
    BY DEF Summed
  <2>. HIDE DEF told, runs, sum
  <2>7. acc.loc.length = 0 /\ acc.loc.altered = FALSE /\ 0 + n = n
    BY <1>1, <2>2
  <2>8. (told /\ ~runs) = (x.loc.altered /\ s.offset # 0) /\ (told /\ ~runs) \in BOOLEAN
    BY <1>2, <2>3, <2>5
  <2>9. PICK t \in BOOLEAN : t = (told /\ ~runs)
    BY <2>8
  <2>10. sum.loc = [acc.loc EXCEPT !.length = n, !.altered = t]
    <3>1. (FALSE \/ (told /\ ~runs)) = (told /\ ~runs)
      OBVIOUS
    <3>2. sum.loc = [acc.loc EXCEPT !.length = 0 + n, !.altered = (FALSE \/ (told /\ ~runs))]
      BY ONLY <2>4, <2>6, <2>7
    <3>3. sum.loc = [acc.loc EXCEPT !.length = n, !.altered = (told /\ ~runs)]
      BY ONLY <2>7, <3>1, <3>2
    <3>. QED BY ONLY <2>9, <3>3
  <2>11. n \in Nat /\ t \in BOOLEAN /\ acc.loc \in Locs /\ acc.loc.origin = s.origin /\ acc.loc.offset = s.offset
    BY <1>1, <2>2 DEF Locs
  <2>12. /\ sum.loc \in Locs /\ sum.loc.origin = s.origin /\ sum.loc.offset = s.offset
         /\ sum.loc.length = n /\ sum.loc.altered = t
    <3>1. /\ sum.loc \in Locs /\ sum.loc.origin = acc.loc.origin /\ sum.loc.offset = acc.loc.offset
          /\ sum.loc.length = n /\ sum.loc.altered = t
      <4>1. PICK l, q : l = acc.loc /\ q = sum.loc
        OBVIOUS
      <4>2. l \in Locs
        BY ONLY <2>11, <4>1
      <4>3. q = [l EXCEPT !.length = n, !.altered = t]
        BY ONLY <2>10, <4>1
      <4>4. n \in Nat /\ t \in BOOLEAN
        BY ONLY <2>11
      <4>5. q \in Locs /\ q.origin = l.origin /\ q.offset = l.offset /\ q.length = n /\ q.altered = t
        BY ONLY <4>2, <4>3, <4>4 DEF Locs
      <4>. QED BY ONLY <4>1, <4>5
    <3>. QED BY <2>11, <3>1
  <2>. QED BY <1>6, <2>1, <2>8, <2>9, <2>12 DEF n
<1>. QED BY <1>5, <1>6

---------------------------------------------------------------------------
(* The children laid out.                                                    *)

\* A child over the part of the match from one place to another: unless it was
\* rewritten, it holds the bytes there; glue holds some, and is not rewritten.
Piece(m, b, x, from, to) ==
  /\ x \in Leaves /\ to =< m.to
  /\ x.span = SpanIn(b, from, to)
  /\ x.loc \in {SpanIn(b, from, to), Alter(SpanIn(b, from, to))}
  /\ ~x.loc.altered => /\ Len(x.text) = to - from
                       /\ b.offset # 0 => x.text = SubSeq(m.text, from + 1, to)
  /\ x.kind = "Glue" => from < to /\ ~x.loc.altered

(* A node that spans a part of the match is a child over it.                 *)
LEMMA MadePiece ==
  ASSUME NEW m0, NEW b \in Locs, NEW node, Made(m0, b, node), m0.to \in Nat,
         NEW from \in Nat, NEW to \in Nat, from =< to, to =< m0.to,
         Location(node) = SpanIn(b, from, to)
  PROVE  Piece(m0, b, node, from, to)
<1> DEFINE s == SpanIn(b, from, to)
<1>1. /\ node.loc \in Locs /\ node.text \in Seq(Bytes) /\ node.span = node.loc
      /\ node.loc.altered = FALSE /\ node.loc.length = Len(node.text)
  BY DEF Made, Leaves, Locs
<1>2. s \in Locs /\ s.length = to - from /\ s.altered = FALSE
  BY SpanInIs
<1>3. /\ s.origin = node.loc.origin /\ s.offset = node.loc.offset /\ s.length = Len(node.text)
  <2>1. PICK l : l = node.loc
    OBVIOUS
  <2>2. l \in Locs /\ l.altered = FALSE /\ node.span = l /\ node.loc \in {l, Alter(l)} /\ node.text \in Seq(Bytes)
    BY <1>1, <2>1
  <2>3. Location(node).origin = l.origin /\ Location(node).offset = l.offset /\ Location(node).length = Len(node.text)
    BY ONLY <2>2, LocationIs
  <2>. QED BY <2>1, <2>3
<1>4. node.loc = s
  <2>. HIDE DEF s
  <2>. QED BY <1>1, <1>2, <1>3 DEF Locs
<1>5. b.offset # 0 => node.text = SubSeq(m0.text, from + 1, to)
  <2>1. to \in from..m0.to
    OBVIOUS
  <2>. QED BY <1>4, <2>1 DEF Made
<1>. HIDE DEF s
<1>6. node.kind # "Glue" /\ node \in Leaves
  BY DEF Made, FieldKinds
<1>7. node.span = s /\ node.loc \in {s, Alter(s)} /\ Len(node.text) = to - from
  BY <1>1, <1>2, <1>3, <1>4
<1>. QED BY <1>5, <1>6, <1>7 DEF Piece, s

(* What a bound group leaves between is one, when it is not empty.           *)
LEMMA GluePiece ==
  ASSUME NEW m0, Captured(m0), NEW b \in Locs,
         NEW from \in Nat, NEW to \in Nat, from < to, to =< m0.to
  PROVE  \E x : Glue(m0, b, from, to) = <<x>> /\ x.kind = "Glue" /\ Piece(m0, b, x, from, to)
<1> DEFINE s == SpanIn(b, from, to)
           t == SubSeq(m0.text, from + 1, to)
           x == [kind |-> "Glue", text |-> t, loc |-> s, span |-> s]
           n == to - from
<1>1. s \in Locs /\ s.altered = FALSE
  BY SpanInIs
<1>2. t \in Seq(Bytes) /\ Len(t) = n
  <2>1. n \in Nat /\ from + n = to /\ from + n =< Len(m0.text) /\ m0.text \in Seq(Bytes)
    <3>1. m0.text \in Seq(Bytes) /\ m0.to \in 0..Len(m0.text)
      BY DEF Captured
    <3>. QED BY <3>1
  <2>. HIDE DEF n
  <2>2. SubSeq(m0.text, from + 1, from + n) \in Seq(Bytes) /\ Len(SubSeq(m0.text, from + 1, from + n)) = n
    BY <2>1, SpanElements
  <2>. QED BY <2>1, <2>2
<1>3. Glue(m0, b, from, to) = <<x>>
  <2>1. ~(from >= to)
    OBVIOUS
  <2>. QED BY <2>1 DEF Glue
<1>. HIDE DEF s, t
<1>4. x \in Leaves
  BY <1>1, <1>2 DEF Leaves
<1>5. x.kind = "Glue" /\ x.loc = s /\ x.span = s /\ x.text = t
  OBVIOUS
<1>. HIDE DEF x
<1>6. Piece(m0, b, x, from, to)
  BY <1>1, <1>2, <1>4, <1>5 DEF Piece, s, t
<1>. QED BY <1>3, <1>5, <1>6

(* A child rewritten is still the child over its part.                       *)
LEMMA PieceWritten ==
  ASSUME NEW m0, NEW b \in Locs, NEW x, NEW from \in Nat, NEW to \in Nat, from =< to,
         Piece(m0, b, x, from, to), x.kind # "Glue", NEW bytes \in Seq(Bytes)
  PROVE  /\ Piece(m0, b, Rewritten(x, bytes), from, to)
         /\ Rewritten(x, bytes).kind = x.kind
<1> DEFINE s == SpanIn(b, from, to)
           y == Rewritten(x, bytes)
<1>1. s \in Locs /\ Alter(s) \in Locs /\ Alter(s).altered = TRUE /\ Alter(Alter(s)) = Alter(s)
  <2>1. s \in Locs
    BY SpanInIs
  <2>. HIDE DEF s
  <2>. QED BY <2>1 DEF Alter, Locs
<1>2. x \in Leaves /\ x.span = s /\ x.loc \in {s, Alter(s)}
  BY DEF Piece
<1>. HIDE DEF s
<1>3. Alter(x.loc) = Alter(s)
  BY <1>1, <1>2
<1>4. y = [x EXCEPT !.text = bytes, !.loc = Alter(s)]
  BY <1>3 DEF Rewritten
<1>5. y \in Leaves /\ y.kind = x.kind /\ y.text = bytes /\ y.loc = Alter(s) /\ y.span = x.span
  <2>1. PICK z : z = y
    OBVIOUS
  <2>2. z = [x EXCEPT !.text = bytes, !.loc = Alter(s)]
    BY <1>4, <2>1
  <2>3. z \in Leaves /\ z.kind = x.kind /\ z.text = bytes /\ z.loc = Alter(s) /\ z.span = x.span
    BY <1>1, <1>2, <2>2 DEF Leaves
  <2>. QED BY <2>1, <2>3
<1>. HIDE DEF y
<1>6. Piece(m0, b, y, from, to)
  BY <1>1, <1>2, <1>5 DEF Piece, s
<1>. QED BY <1>5, <1>6 DEF y

\* Where each child ends.
Cuts(m, b, ks, cut) ==
  /\ DOMAIN cut = 0..Len(ks)
  /\ \A k \in 0..Len(ks) : cut[k] \in Nat
  /\ cut[0] = m.from
  /\ \A k \in 1..Len(ks) : cut[k - 1] =< cut[k] /\ Piece(m, b, ks[k], cut[k - 1], cut[k])

FieldsOf(ks) == {k \in 1..Len(ks) : ks[k].kind # "Glue"}

\* Children laid out as far as a place, n of them fields, and no glue in two.
Lay(m, b, ks, to, n) ==
  /\ ks \in Seq(Leaves)
  /\ \E cut : Cuts(m, b, ks, cut) /\ cut[Len(ks)] = to
  /\ Cardinality(FieldsOf(ks)) = n
  /\ \A k \in 1..Len(ks) : k < Len(ks) => ks[k].kind # "Glue" \/ ks[k + 1].kind # "Glue"

EndsInGlue(ks) == ks # <<>> /\ ks[Len(ks)].kind = "Glue"

(* Nothing is laid out yet.                                                  *)
LEMMA LayNothing ==
  ASSUME NEW m0, Captured(m0), NEW b \in Locs
  PROVE  Lay(m0, b, <<>>, m0.from, 0) /\ ~EndsInGlue(<<>>)
<1> DEFINE cut == [k \in 0..0 |-> m0.from]
           none == <<>>
<1>1. Len(none) = 0 /\ none \in Seq(Leaves) /\ none = <<>>
  OBVIOUS
<1>. HIDE DEF none
<1>2. m0.from \in Nat
  BY CapturedIs
<1>3. DOMAIN cut = 0..0 /\ cut[0] = m0.from /\ \A k \in 0..0 : cut[k] \in Nat
  BY <1>2
<1>4. \A k \in 1..0 : FALSE
  OBVIOUS
<1>. HIDE DEF cut
<1>5. Cuts(m0, b, none, cut) /\ cut[Len(none)] = m0.from
  BY <1>1, <1>3, <1>4 DEF Cuts
<1>6. FieldsOf(none) = {}
  BY <1>1, <1>4 DEF FieldsOf
<1>7. Cardinality(FieldsOf(none)) = 0
  BY <1>6, FS_EmptySet
<1>8. Lay(m0, b, none, m0.from, 0)
  BY <1>1, <1>4, <1>5, <1>7 DEF Lay
<1>9. ~EndsInGlue(none)
  BY <1>1 DEF EndsInGlue
<1>. QED BY <1>8, <1>9 DEF none

(* One more child, over what follows.                                        *)
LEMMA LayAppend ==
  ASSUME NEW m0, NEW b, NEW ks, NEW e \in Nat, NEW n \in Nat, Lay(m0, b, ks, e, n),
         NEW a \in Nat, e =< a, NEW x, Piece(m0, b, x, e, a), x.kind # "Glue" \/ ~EndsInGlue(ks)
  PROVE  Lay(m0, b, Append(ks, x), a, IF x.kind = "Glue" THEN n ELSE n + 1)
<1> DEFINE l == Len(ks)
           t == Append(ks, x)
<1>1. ks \in Seq(Leaves) /\ x \in Leaves
  BY DEF Lay, Piece
<1>2. /\ l \in Nat /\ t \in Seq(Leaves) /\ Len(t) = l + 1 /\ t[l + 1] = x
      /\ \A k \in 1..l : t[k] = ks[k]
  BY <1>1
<1>3. PICK cut : Cuts(m0, b, ks, cut) /\ cut[l] = e
  BY DEF Lay
<1> DEFINE more == [k \in 0..(l + 1) |-> IF k = l + 1 THEN a ELSE cut[k]]
<1>4. l + 1 \in 0..(l + 1) /\ \A k \in 0..l : k \in 0..(l + 1) /\ k # l + 1
  BY <1>2
<1>5. more[l + 1] = a /\ \A k \in 0..l : more[k] = cut[k]
  BY <1>4
<1>6. DOMAIN more = 0..(l + 1)
  OBVIOUS
<1>. HIDE DEF more, t
<1>7. Cuts(m0, b, t, more)
  <2>1. \A k \in 0..l : cut[k] \in Nat
    BY <1>3 DEF Cuts
  <2>2. ASSUME NEW k \in 0..(l + 1)
        PROVE  more[k] \in Nat
    BY <1>2, <1>5, <2>1, <2>2
  <2>3. more[0] = m0.from
    <3>1. 0 \in 0..l
      BY <1>2
    <3>. QED BY <1>3, <1>5, <3>1 DEF Cuts
  <2>4. ASSUME NEW k \in 1..(l + 1)
        PROVE  more[k - 1] =< more[k] /\ Piece(m0, b, t[k], more[k - 1], more[k])
    <3>1. CASE k = l + 1
      <4>1. k - 1 = l /\ l \in 0..l
        BY <1>2, <3>1
      <4>2. more[k - 1] = e /\ more[k] = a /\ t[k] = x
        BY <1>2, <1>3, <1>5, <3>1, <4>1
      <4>. QED BY <4>2
    <3>2. CASE k # l + 1
      <4>1. k \in 1..l /\ k \in 0..l /\ k - 1 \in 0..l
        BY <1>2, <2>4, <3>2
      <4>2. more[k - 1] = cut[k - 1] /\ more[k] = cut[k] /\ t[k] = ks[k]
        BY <1>2, <1>5, <4>1
      <4>3. cut[k - 1] =< cut[k] /\ Piece(m0, b, ks[k], cut[k - 1], cut[k])
        BY <1>3, <4>1 DEF Cuts
      <4>. QED BY <4>2, <4>3
    <3>. QED BY <3>1, <3>2
  <2>. QED BY <1>2, <1>6, <2>2, <2>3, <2>4 DEF Cuts
<1>8. more[Len(t)] = a
  BY <1>2, <1>5
<1>9. Cardinality(FieldsOf(t)) = IF x.kind = "Glue" THEN n ELSE n + 1
  <2> DEFINE F == FieldsOf(ks)
  <2>1. Cardinality(F) = n /\ IsFiniteSet(F) /\ l + 1 \notin F
    <3>1. IsFiniteSet(1..l) /\ F \subseteq 1..l
      BY <1>2, FS_Interval DEF FieldsOf
    <3>2. IsFiniteSet(F)
      BY <3>1, FS_Subset
    <3>3. l + 1 \notin 1..l
      BY <1>2
    <3>. QED BY <3>1, <3>2, <3>3 DEF Lay
  <2>2. 1..(l + 1) = 1..l \cup {l + 1}
    BY <1>2
  <2>3. FieldsOf(t) = IF x.kind = "Glue" THEN F ELSE F \cup {l + 1}
    BY <1>2, <2>2 DEF FieldsOf
  <2>. HIDE DEF F
  <2>4. Cardinality(F \cup {l + 1}) = n + 1
    BY <2>1, FS_AddElement
  <2>. QED BY <2>1, <2>3, <2>4
<1>10. ASSUME NEW k \in 1..(l + 1), k < l + 1
       PROVE  t[k].kind # "Glue" \/ t[k + 1].kind # "Glue"
  <2>1. k \in 1..l
    BY <1>2, <1>10
  <2>2. CASE k = l
    <3>1. ks # <<>> /\ t[k] = ks[l] /\ t[k + 1] = x
      BY <1>2, <2>1, <2>2
    <3>. QED BY <3>1 DEF EndsInGlue
  <2>3. CASE k # l
    <3>1. k + 1 \in 1..l /\ k < l
      BY <1>2, <2>1, <2>3
    <3>2. t[k] = ks[k] /\ t[k + 1] = ks[k + 1]
      BY <1>2, <2>1, <3>1
    <3>. QED BY <2>1, <3>1, <3>2 DEF Lay
  <2>. QED BY <2>2, <2>3
<1>11. \A k \in 1..Len(t) : k < Len(t) => t[k].kind # "Glue" \/ t[k + 1].kind # "Glue"
  BY <1>2, <1>10
<1>12. \E c : Cuts(m0, b, t, c) /\ c[Len(t)] = a
  BY <1>7, <1>8
<1>13. t \in Seq(Leaves)
  BY <1>2
<1>. QED BY <1>9, <1>11, <1>12, <1>13 DEF Lay, t

(* A turn of the builder: the glue before a group, and its node.             *)
LEMMA LayTurn ==
  ASSUME NEW m0, Captured(m0), NEW b \in Locs, NEW ks, NEW e \in Nat, NEW n \in Nat,
         Lay(m0, b, ks, e, n), ~EndsInGlue(ks),
         NEW a \in Nat, e =< a, NEW t \in Nat, a =< t, t =< m0.to,
         NEW x, Piece(m0, b, x, a, t), x.kind # "Glue"
  PROVE  /\ Lay(m0, b, ks \o (Glue(m0, b, e, a) \o <<x>>), t, n + 1)
         /\ ~EndsInGlue(ks \o (Glue(m0, b, e, a) \o <<x>>))
<1>0. ks \in Seq(Leaves) /\ x \in Leaves /\ m0.to \in Nat
  BY CapturedIs DEF Lay, Piece
<1>1. ASSUME NEW h \in Seq(Leaves), Lay(m0, b, h, a, n)
      PROVE  Lay(m0, b, Append(h, x), t, n + 1) /\ ~EndsInGlue(Append(h, x))
  <2>1. Lay(m0, b, Append(h, x), t, n + 1)
    <3>1. Lay(m0, b, Append(h, x), t, IF x.kind = "Glue" THEN n ELSE n + 1)
      BY <1>1, LayAppend
    <3>. QED BY <3>1
  <2>2. Append(h, x)[Len(Append(h, x))] = x
    BY <1>0, <1>1
  <2>. QED BY <2>1, <2>2 DEF EndsInGlue
<1>2. CASE e = a
  <2>1. Glue(m0, b, e, a) = <<>>
    BY <1>2 DEF Glue
  <2>2. ks \o (<<>> \o <<x>>) = Append(ks, x)
    BY <1>0
  <2>. QED BY <1>0, <1>1, <1>2, <2>1, <2>2
<1>3. CASE e < a
  <2>1. a =< m0.to
    BY <1>0
  <2>2. PICK y : Glue(m0, b, e, a) = <<y>> /\ y.kind = "Glue" /\ Piece(m0, b, y, e, a)
    BY <1>3, <2>1, GluePiece
  <2>3. y \in Leaves
    BY <2>2 DEF Piece
  <2>4. ks \o (<<y>> \o <<x>>) = Append(Append(ks, y), x)
    BY <1>0, <2>3
  <2>5. Lay(m0, b, Append(ks, y), a, n)
    <3>1. Lay(m0, b, Append(ks, y), a, IF y.kind = "Glue" THEN n ELSE n + 1)
      BY <2>2, LayAppend
    <3>. QED BY <2>2, <3>1
  <2>6. Append(ks, y) \in Seq(Leaves)
    BY <1>0, <2>3
  <2>. QED BY <1>1, <2>2, <2>4, <2>5, <2>6
<1>. QED BY <1>2, <1>3

(* The tail.                                                                 *)
LEMMA LayTail ==
  ASSUME NEW m0, Captured(m0), NEW b \in Locs, NEW ks, NEW e \in Nat, NEW n \in Nat,
         Lay(m0, b, ks, e, n), ~EndsInGlue(ks), e =< m0.to
  PROVE  Lay(m0, b, ks \o Glue(m0, b, e, m0.to), m0.to, n)
<1>0. ks \in Seq(Leaves) /\ m0.to \in Nat
  BY CapturedIs DEF Lay
<1>1. CASE e = m0.to
  <2>1. Glue(m0, b, e, m0.to) = <<>>
    BY <1>1 DEF Glue
  <2>. QED BY <1>0, <1>1, <2>1
<1>2. CASE e < m0.to
  <2>1. PICK y : Glue(m0, b, e, m0.to) = <<y>> /\ y.kind = "Glue" /\ Piece(m0, b, y, e, m0.to)
    BY <1>0, <1>2, GluePiece
  <2>2. ks \o <<y>> = Append(ks, y)
    <3>1. y \in Leaves
      BY <2>1 DEF Piece
    <3>. QED BY <1>0, <3>1
  <2>3. Lay(m0, b, Append(ks, y), m0.to, IF y.kind = "Glue" THEN n ELSE n + 1)
    BY <1>0, <2>1, LayAppend
  <2>. QED BY <2>1, <2>2, <2>3
<1>. QED BY <1>0, <1>1, <1>2

(* So what Done lays out covers the match, with a field for each bound.      *)
LEMMA LaidLay ==
  ASSUME NEW m0, Captured(m0), NEW b \in Locs, NEW put, NEW left,
         \A i \in 1..Len(Bounds(m0, left)) :
           /\ Made(m0, b, put[Bounds(m0, left)[i]])
           /\ Location(put[Bounds(m0, left)[i]])
                = SpanIn(b, From(m0, Bounds(m0, left)[i]), To(m0, Bounds(m0, left)[i]))
  PROVE  Lay(m0, b, Laid(m0, b, put, Bounds(m0, left)), m0.to, Len(Bounds(m0, left)))
<1> DEFINE bs == Bounds(m0, left)
           n == Len(bs)
           end(i) == IF i = 0 THEN m0.from ELSE m0.groups[bs[i]].at[2]
           part(i) == Glue(m0, b, end(i - 1), m0.groups[bs[i]].at[1]) \o <<put[bs[i]]>>
           parts == [i \in 1..n |-> part(i)]
<1>0. m0.from \in Nat /\ m0.to \in Nat /\ m0.from =< m0.to
  BY CapturedIs
<1>1. /\ bs \in Seq(1..Len(m0.groups))
      /\ \A i \in 1..n : Present(m0, bs[i])
      /\ \A i, j \in 1..n : i < j => To(m0, bs[i]) =< From(m0, bs[j])
  BY BoundsLined DEF Lined
<1>2. n \in Nat /\ \A i \in 1..n : bs[i] \in 1..Len(m0.groups)
  BY <1>1
<1>3. ASSUME NEW i \in 1..n
      PROVE  /\ From(m0, bs[i]) \in Nat /\ To(m0, bs[i]) \in Nat /\ From(m0, bs[i]) =< To(m0, bs[i])
             /\ To(m0, bs[i]) =< m0.to /\ m0.from =< From(m0, bs[i])
  <2>1. bs[i] \in 1..Len(m0.groups) /\ Present(m0, bs[i])
    BY <1>1, <1>2
  <2>. HIDE DEF bs
  <2>. QED BY <2>1, CapturedIs
<1>4. ASSUME NEW i \in 1..n
      PROVE  end(i - 1) \in Nat /\ end(i - 1) =< From(m0, bs[i]) /\ end(i) = To(m0, bs[i])
  <2>1. i # 0
    BY <1>2
  <2>2. end(i) = To(m0, bs[i])
    BY <2>1 DEF To
  <2>3. CASE i = 1
    <3>1. end(i - 1) = m0.from
      BY <2>3
    <3>. QED BY <1>0, <1>3, <2>2, <3>1
  <2>4. CASE i # 1
    <3>1. i - 1 \in 1..n /\ i - 1 # 0 /\ i - 1 < i
      BY <1>2, <2>4
    <3>2. end(i - 1) = To(m0, bs[i - 1])
      BY <3>1 DEF To
    <3>. HIDE DEF end, bs, n
    <3>. QED BY <1>1, <1>3, <2>2, <3>1, <3>2
  <2>. QED BY <2>3, <2>4
<1>5. ASSUME NEW i \in 1..n
      PROVE  /\ Piece(m0, b, put[bs[i]], From(m0, bs[i]), To(m0, bs[i]))
             /\ put[bs[i]].kind # "Glue"
  <2> DEFINE x == put[bs[i]]
             a == From(m0, bs[i])
             t == To(m0, bs[i])
  <2>1. Made(m0, b, x) /\ Location(x) = SpanIn(b, a, t)
    OBVIOUS
  <2>2. a \in Nat /\ t \in Nat /\ a =< t /\ t =< m0.to
    BY <1>3
  <2>. HIDE DEF x, a, t, bs
  <2>3. Piece(m0, b, x, a, t)
    BY <1>0, <2>1, <2>2, MadePiece
  <2>4. x.kind # "Glue"
    BY <2>1 DEF Made, FieldKinds
  <2>. QED BY <2>3, <2>4 DEF x, a, t
<1>6. ASSUME NEW i \in 1..n, NEW ks, Lay(m0, b, ks, end(i - 1), i - 1), ~EndsInGlue(ks)
      PROVE  Lay(m0, b, ks \o part(i), end(i), i) /\ ~EndsInGlue(ks \o part(i))
  <2> DEFINE e == end(i - 1)
             x == put[bs[i]]
             a == From(m0, bs[i])
             t == To(m0, bs[i])
             p == Glue(m0, b, e, a) \o <<x>>
             k == i - 1
  <2>1. e \in Nat /\ e =< a /\ end(i) = t
    BY <1>4
  <2>2. a \in Nat /\ t \in Nat /\ a =< t /\ t =< m0.to
    BY <1>3
  <2>3. Piece(m0, b, x, a, t) /\ x.kind # "Glue"
    BY <1>5
  <2>4. part(i) = p
    BY DEF From
  <2>5. k \in Nat /\ k + 1 = i
    BY <1>2
  <2>6. Lay(m0, b, ks, e, k)
    BY <1>6
  <2>7. Lay(m0, b, ks \o p, t, k + 1) /\ ~EndsInGlue(ks \o p)
    <3>. HIDE DEF e, x, a, t, k, bs, part, end
    <3>. QED BY <1>6, <2>1, <2>2, <2>3, <2>5, <2>6, LayTurn
  <2>. HIDE DEF p, k, t, part, end
  <2>. QED BY <2>1, <2>4, <2>5, <2>7
<1>7. Lay(m0, b, Concatenated(parts), end(n), n) /\ ~EndsInGlue(Concatenated(parts))
  <2>0. /\ parts \in Seq({part(i) : i \in 1..n}) /\ Len(parts) = n
        /\ \A i \in 1..n : parts[i] = part(i)
    <3>. HIDE DEF part, bs
    <3>. QED BY <1>2
  <2>. HIDE DEF part, parts, bs, n, end
  <2>1. CASE n = 0
    <3>1. Concatenated(parts) = <<>>
      BY <2>0, <2>1, ConcatenatedEmpty
    <3>2. end(0) = m0.from
      BY DEF end
    <3>. QED BY <2>1, <3>1, <3>2, LayNothing
  <2>2. CASE n # 0
    <3>1. PICK g : Joins(g, parts) /\ Concatenated(parts) = g[n]
      <4>1. Len(parts) > 0
        BY <1>2, <2>0, <2>2
      <4>2. \E g : Joins(g, parts) /\ Concatenated(parts) = g[Len(parts)]
        BY ONLY <2>0, <4>1, ConcatenatedIs
      <4>. QED BY <2>0, <4>2
    <3>2. ASSUME NEW i \in 1..n
          PROVE  g[i] = IF i = 1 THEN part(i) ELSE g[i - 1] \o part(i)
      <4>1. g = [j \in 1..n |-> IF j = 1 THEN parts[j] ELSE g[j - 1] \o parts[j]]
        BY <2>0, <3>1 DEF Joins
      <4>. QED BY <2>0, <4>1
    <3> DEFINE Good(i) == Lay(m0, b, g[i], end(i), i) /\ ~EndsInGlue(g[i])
               Bad == {i \in 1..n : ~Good(i)}
    <3>3. Bad = {}
      <4>. SUFFICES ASSUME Bad # {} PROVE FALSE
        OBVIOUS
      <4>1. PICK i \in Bad : \A j \in Bad : i =< j
        <5>1. Bad \in SUBSET Nat
          BY <1>2
        <5>. HIDE DEF Bad
        <5>. QED BY <5>1, NatLeast
      <4>2. i \in 1..n /\ ~Good(i)
        OBVIOUS
      <4>3. CASE i = 1
        <5>1. Lay(m0, b, <<>>, end(0), 0) /\ ~EndsInGlue(<<>>)
          BY LayNothing DEF end
        <5>2. Lay(m0, b, <<>> \o part(1), end(1), 1) /\ ~EndsInGlue(<<>> \o part(1))
          <6>1. 1 - 1 = 0 /\ 1 \in 1..n
            BY <4>2, <4>3
          <6>. QED BY <1>6, <5>1, <6>1
        <5>3. <<>> \o part(1) = part(1)
          <6>1. 1 \in 1..n
            BY <4>2, <4>3
          <6>2. Glue(m0, b, end(0), From(m0, bs[1])) \in Seq(Leaves)
            <7> DEFINE e == end(1 - 1)
                       a == From(m0, bs[1])
            <7>1. e \in Nat /\ e =< a /\ a \in Nat /\ a =< m0.to
              BY <1>0, <1>3, <1>4, <6>1
            <7>2. 1 - 1 = 0
              OBVIOUS
            <7>. HIDE DEF e, a
            <7>3. CASE e = a
              <8>1. Glue(m0, b, e, a) = <<>>
                BY <7>1, <7>3 DEF Glue
              <8>2. Glue(m0, b, e, a) \in Seq(Leaves)
                BY <8>1
              <8>. QED BY <7>2, <8>2 DEF e, a
            <7>4. CASE e < a
              <8>1. PICK y : Glue(m0, b, e, a) = <<y>> /\ Piece(m0, b, y, e, a)
                BY <7>1, <7>4, GluePiece
              <8>2. Glue(m0, b, e, a) \in Seq(Leaves)
                BY <8>1 DEF Piece
              <8>. QED BY <7>2, <8>2 DEF e, a
            <7>. QED BY <7>1, <7>3, <7>4
          <6>3. put[bs[1]] \in Leaves
            BY <1>5, <6>1 DEF Piece
          <6>4. part(1) = Glue(m0, b, end(0), From(m0, bs[1])) \o <<put[bs[1]]>>
            BY DEF part, From
          <6>. QED BY <6>2, <6>3, <6>4
        <5>. QED BY <3>2, <4>2, <4>3, <5>2, <5>3
      <4>4. CASE i # 1
        <5>1. i - 1 \in 1..n /\ ~(i =< i - 1)
          BY <1>2, <4>2, <4>4
        <5>2. Good(i - 1)
          BY <4>1, <5>1
        <5>3. g[i] = g[i - 1] \o part(i)
          BY <3>2, <4>2, <4>4
        <5>. QED BY <1>6, <4>2, <5>2, <5>3
      <4>. QED BY <4>3, <4>4
    <3>4. n \in 1..n
      BY <1>2, <2>2
    <3>5. Good(n)
      BY <3>3, <3>4
    <3>. QED BY <3>1, <3>5
  <2>. QED BY <2>1, <2>2
<1>8. end(n) \in Nat /\ end(n) =< m0.to
  <2>1. CASE n = 0
    BY <1>0, <2>1
  <2>2. CASE n # 0
    <3>1. n \in 1..n
      BY <1>2, <2>2
    <3>2. end(n) = To(m0, bs[n])
      BY <1>4, <3>1
    <3>3. To(m0, bs[n]) \in Nat /\ To(m0, bs[n]) =< m0.to
      BY <1>3, <3>1
    <3>. HIDE DEF end, bs, n
    <3>. QED BY <3>2, <3>3
  <2>. QED BY <2>1, <2>2
<1>9. Laid(m0, b, put, bs) = Concatenated(parts) \o Glue(m0, b, end(n), m0.to)
  BY DEF Laid
<1>. HIDE DEF parts, end, n, part, bs
<1>10. Lay(m0, b, Concatenated(parts) \o Glue(m0, b, end(n), m0.to), m0.to, n)
  <2>1. PICK e, ks : e = end(n) /\ ks = Concatenated(parts)
    OBVIOUS
  <2>2. Lay(m0, b, ks, e, n) /\ ~EndsInGlue(ks) /\ e \in Nat /\ e =< m0.to /\ n \in Nat
    BY <1>2, <1>7, <1>8, <2>1
  <2>3. Lay(m0, b, ks \o Glue(m0, b, e, m0.to), m0.to, n)
    BY <2>2, LayTail
  <2>. QED BY <2>1, <2>3
<1>. QED BY <1>9, <1>10 DEF bs, n

---------------------------------------------------------------------------
(* What the compound tells.                                                  *)

(* What a child tells, of a place in a document and of what it holds.        *)
LEMMA PieceTold ==
  ASSUME NEW m0, NEW b \in Locs, NEW x, NEW from \in Nat, NEW to \in Nat, from =< to,
         Piece(m0, b, x, from, to)
  PROVE  /\ x.loc.altered \in BOOLEAN
         /\ Location(x).length = Len(x.text) /\ Len(x.text) \in Nat
         /\ Faithful(Location(x)) <=> b.offset # 0 /\ ~x.loc.altered
         /\ b.offset # 0 => Offset(Location(x)) = b.offset + from - 1
         /\ ~x.loc.altered => Len(x.text) = to - from
<1> DEFINE s == SpanIn(b, from, to)
<1>1. s \in Locs /\ s.altered = FALSE /\ s.offset = IF b.offset = 0 THEN 0 ELSE b.offset + from
  BY SpanInIs
<1>2. b.offset \in Nat
  BY DEF Locs
<1>3. x.span = s /\ x.loc \in {s, Alter(s)} /\ x.text \in Seq(Bytes)
  BY DEF Piece, Leaves
<1>4. x.loc.altered \in BOOLEAN
  <2>1. x.loc \in Locs
    BY DEF Piece, Leaves
  <2>. QED BY <2>1 DEF Locs
<1>. HIDE DEF s
<1>5. /\ Location(x).offset = s.offset /\ Location(x).length = Len(x.text)
      /\ Location(x).altered = IF x.kind \in {"List", "Refs"} THEN x.loc.altered /\ s.offset # 0 ELSE x.loc.altered
  BY ONLY <1>1, <1>3, LocationIs
<1>6. Len(x.text) \in Nat
  BY <1>3
<1>7. s.offset # 0 <=> b.offset # 0
  BY <1>1, <1>2
<1>8. Faithful(Location(x)) <=> b.offset # 0 /\ ~x.loc.altered
  BY <1>4, <1>5, <1>7 DEF Faithful
<1>9. b.offset # 0 => Offset(Location(x)) = b.offset + from - 1
  BY <1>1, <1>2, <1>5 DEF Offset
<1>10. ~x.loc.altered => Len(x.text) = to - from
  BY DEF Piece
<1>. QED BY <1>4, <1>5, <1>6, <1>8, <1>9, <1>10

\* A turn over a child: it adds its length, and where the child does not go on
\* from the one before it, the compound is altered.
TurnTells(sum, acc, kid, told, runs) ==
  /\ sum.loc \in Locs
  /\ sum.loc.origin = acc.loc.origin
  /\ sum.loc.offset = acc.loc.offset
  /\ sum.loc.length = acc.loc.length + kid.length
  /\ sum.loc.altered = (acc.loc.altered \/ (told /\ ~runs))
  /\ sum.next = IF told /\ runs THEN Offset(kid) + kid.length ELSE acc.next

(* So does each.                                                             *)
LEMMA SummedIs ==
  ASSUME NEW acc, acc.loc \in Locs, NEW kid, kid.length \in Nat, NEW told \in BOOLEAN,
         told = (~acc.loc.altered /\ acc.loc.offset # 0), NEW runs \in BOOLEAN,
         runs = (Faithful(kid) /\ (acc.next < 0 \/ Offset(kid) = acc.next))
  PROVE  TurnTells(Summed(acc, kid), acc, kid, told, runs)
<1> DEFINE sum == Summed(acc, kid)
<1>1. /\ sum.loc = [acc.loc EXCEPT !.length = @ + kid.length, !.altered = @ \/ (told /\ ~runs)]
      /\ sum.next = IF told /\ runs THEN Offset(kid) + kid.length ELSE acc.next
  BY DEF Summed
<1>. HIDE DEF sum
<1>2. PICK l, q, n, t : /\ l = acc.loc /\ q = sum.loc /\ n = acc.loc.length + kid.length
                        /\ t = (acc.loc.altered \/ (told /\ ~runs))
  OBVIOUS
<1>3. l \in Locs
  BY <1>2
<1>4. n \in Nat /\ t \in BOOLEAN
  BY <1>2 DEF Locs
<1>5. q = [l EXCEPT !.length = n, !.altered = t]
  BY ONLY <1>1, <1>2
<1>6. q \in Locs /\ q.origin = l.origin /\ q.offset = l.offset /\ q.length = n /\ q.altered = t
  BY ONLY <1>3, <1>4, <1>5 DEF Locs
<1>7. /\ sum.loc \in Locs /\ sum.loc.origin = acc.loc.origin /\ sum.loc.offset = acc.loc.offset
      /\ sum.loc.length = acc.loc.length + kid.length /\ sum.loc.altered = (acc.loc.altered \/ (told /\ ~runs))
  BY ONLY <1>2, <1>6
<1>. QED BY <1>1, <1>7 DEF sum, TurnTells

\* The turns so far: the place the compound begins at, and, while nothing was
\* rewritten, the place the next child must stand at.
SumSoFar(m, b, ks, cut, acc, k) ==
  /\ acc.loc \in Locs
  /\ acc.loc.origin = SpanIn(b, m.from, m.to).origin
  /\ acc.loc.offset = SpanIn(b, m.from, m.to).offset
  /\ acc.loc.altered <=> b.offset # 0 /\ \E j \in 1..k : ks[j].loc.altered
  /\ b.offset # 0 /\ ~acc.loc.altered => acc.next = b.offset + cut[k] - 1

(* Each turn keeps them.                                                     *)
LEMMA SumGoesOn ==
  ASSUME NEW m0, Captured(m0), NEW b \in Locs, NEW ks, NEW cut, Cuts(m0, b, ks, cut),
         Len(ks) \in Nat, NEW k \in 1..Len(ks), NEW acc, SumSoFar(m0, b, ks, cut, acc, k - 1)
  PROVE  /\ SumSoFar(m0, b, ks, cut, Summed(acc, Location(ks[k])), k)
         /\ Summed(acc, Location(ks[k])).loc.length = acc.loc.length + Len(ks[k].text)
<1> DEFINE x == ks[k]
           from == cut[k - 1]
           to == cut[k]
           kid == Location(x)
           sum == Summed(acc, kid)
           whole == SpanIn(b, m0.from, m0.to)
<1>1. k - 1 \in 0..Len(ks) /\ k \in 0..Len(ks)
  OBVIOUS
<1>2. from \in Nat /\ to \in Nat /\ from =< to /\ Piece(m0, b, x, from, to)
  BY <1>1 DEF Cuts
<1>3. b.offset \in Nat
  BY DEF Locs
<1>4. whole.offset # 0 <=> b.offset # 0
  <2>1. m0.from \in Nat /\ m0.to \in Nat /\ m0.from =< m0.to
    BY CapturedIs
  <2>2. whole.offset = IF b.offset = 0 THEN 0 ELSE b.offset + m0.from
    BY <2>1, SpanInIs
  <2>. HIDE DEF whole
  <2>. QED BY <1>3, <2>1, <2>2
<1>5. /\ acc.loc \in Locs /\ acc.loc.origin = whole.origin /\ acc.loc.offset = whole.offset
      /\ acc.loc.altered <=> b.offset # 0 /\ \E j \in 1..(k - 1) : ks[j].loc.altered
      /\ b.offset # 0 /\ ~acc.loc.altered => acc.next = b.offset + from - 1
  BY DEF SumSoFar
<1>. HIDE DEF x, from, to, kid, sum, whole
<1>6. /\ x.loc.altered \in BOOLEAN
      /\ kid.length = Len(x.text) /\ Len(x.text) \in Nat
      /\ Faithful(kid) <=> b.offset # 0 /\ ~x.loc.altered
      /\ b.offset # 0 => Offset(kid) = b.offset + from - 1
      /\ ~x.loc.altered => Len(x.text) = to - from
  <2>1. b \in Locs
    OBVIOUS
  <2>. QED BY ONLY <1>2, <2>1, PieceTold DEF kid
<1>7. PICK told \in BOOLEAN, runs \in BOOLEAN :
        /\ told = (~acc.loc.altered /\ acc.loc.offset # 0)
        /\ runs = (Faithful(kid) /\ (acc.next < 0 \/ Offset(kid) = acc.next))
  OBVIOUS
<1>8. /\ sum.loc \in Locs /\ sum.loc.origin = acc.loc.origin /\ sum.loc.offset = acc.loc.offset
      /\ sum.loc.length = acc.loc.length + kid.length
      /\ sum.loc.altered = (acc.loc.altered \/ (told /\ ~runs))
      /\ sum.next = IF told /\ runs THEN Offset(kid) + kid.length ELSE acc.next
  <2>1. acc.loc \in Locs /\ kid.length \in Nat /\ told \in BOOLEAN /\ runs \in BOOLEAN
    BY <1>5, <1>6
  <2>2. PICK sm : sm = Summed(acc, kid)
    OBVIOUS
  <2>3. TurnTells(sm, acc, kid, told, runs)
    BY ONLY <1>7, <2>1, <2>2, SummedIs
  <2>. QED BY ONLY <2>2, <2>3 DEF sum, TurnTells
<1>9. told <=> b.offset # 0 /\ ~acc.loc.altered
  BY <1>4, <1>5, <1>7
<1>10. told => (runs <=> ~x.loc.altered)
  BY <1>5, <1>6, <1>7, <1>9
<1>11. sum.loc.altered <=> b.offset # 0 /\ (x.loc.altered \/ \E j \in 1..(k - 1) : ks[j].loc.altered)
  <2>1. acc.loc.altered \in BOOLEAN
    BY <1>5 DEF Locs
  <2>2. sum.loc.altered <=> acc.loc.altered \/ (told /\ ~runs)
    BY <1>8
  <2>3. told /\ ~runs <=> b.offset # 0 /\ ~acc.loc.altered /\ x.loc.altered
    BY <1>6, <1>9, <1>10
  <2>. QED BY <1>5, <1>6, <2>1, <2>2, <2>3
<1>12. (\E j \in 1..k : ks[j].loc.altered) <=> x.loc.altered \/ \E j \in 1..(k - 1) : ks[j].loc.altered
  <2>1. 1..k = 1..(k - 1) \cup {k}
    OBVIOUS
  <2>. QED BY <2>1 DEF x
<1>13. ASSUME b.offset # 0, ~sum.loc.altered
       PROVE  sum.next = b.offset + to - 1
  <2>1. ~x.loc.altered /\ ~acc.loc.altered
    BY <1>5, <1>11, <1>13
  <2>2. told /\ runs
    BY <1>9, <1>10, <1>13, <2>1
  <2>3. sum.next = Offset(kid) + kid.length
    BY <1>8, <2>2
  <2>4. kid.length = to - from /\ Offset(kid) = b.offset + from - 1
    BY <1>6, <1>13, <2>1
  <2>5. PICK o : o = b.offset /\ o \in Nat
    BY <1>3
  <2>6. sum.next = (o + from - 1) + (to - from)
    BY ONLY <2>3, <2>4, <2>5
  <2>7. PICK p, q : p = from /\ q = to /\ p \in Nat /\ q \in Nat
    BY <1>2
  <2>8. \A i \in Nat, j \in Nat, h \in Nat : (i + j - 1) + (h - j) = i + h - 1
    OBVIOUS
  <2>. QED BY ONLY <2>5, <2>6, <2>7, <2>8
<1>14. SumSoFar(m0, b, ks, cut, sum, k)
  BY <1>5, <1>8, <1>11, <1>12, <1>13 DEF SumSoFar, whole, to
<1>15. sum.loc.length = acc.loc.length + Len(x.text)
  BY <1>6, <1>8
<1>. QED BY <1>14, <1>15 DEF sum, kid, x

\* What the children hold, one child after another.
Writes(g, ks) ==
  /\ \A k \in 0..Len(ks) : g[k] \in Seq(Bytes)
  /\ g[0] = <<>>
  /\ \A k \in 1..Len(ks) : g[k] = g[k - 1] \o ks[k].text

TextsOf(ks) == [k \in 1..Len(ks) |-> ks[k].text]

LEMMA WrittenIs ==
  ASSUME NEW ks \in Seq(Leaves)
  PROVE  \E g : Writes(g, ks) /\ Concatenated(TextsOf(ks)) = g[Len(ks)]
<1> DEFINE n == Len(ks)
           s == TextsOf(ks)
<1>1. n \in Nat /\ \A k \in 1..n : ks[k].text \in Seq(Bytes)
  <2>1. n \in Nat /\ \A k \in 1..n : ks[k] \in Leaves
    OBVIOUS
  <2>. QED BY <2>1 DEF Leaves
<1>2. s \in Seq(Seq(Bytes)) /\ Len(s) = n /\ \A k \in 1..n : s[k] = ks[k].text
  BY <1>1 DEF TextsOf
<1>. HIDE DEF s
<1>3. CASE n = 0
  <2> DEFINE g == [k \in 0..0 |-> <<>>]
  <2>1. Concatenated(s) = <<>>
    BY <1>2, <1>3, ConcatenatedEmpty
  <2>2. g[0] = <<>> /\ \A k \in 0..n : g[k] = <<>>
    BY <1>3
  <2>3. \A k \in 1..n : FALSE
    BY <1>3
  <2>4. <<>> \in Seq(Bytes)
    OBVIOUS
  <2>. HIDE DEF g, n
  <2>5. Writes(g, ks)
    BY <2>2, <2>3, <2>4 DEF Writes, n
  <2>. QED BY <1>3, <2>1, <2>2, <2>5 DEF n, s
<1>4. CASE n # 0
  <2>1. PICK f : Joins(f, s) /\ Concatenated(s) = f[n]
    <3>1. Len(s) > 0
      BY <1>1, <1>2, <1>4
    <3>2. \E f : Joins(f, s) /\ Concatenated(s) = f[Len(s)]
      BY ONLY <1>2, <3>1, ConcatenatedIs
    <3>. QED BY <1>2, <3>2
  <2>2. ASSUME NEW k \in 1..n
        PROVE  f[k] = IF k = 1 THEN s[k] ELSE f[k - 1] \o s[k]
    <3>1. f = [j \in 1..n |-> IF j = 1 THEN s[j] ELSE f[j - 1] \o s[j]]
      BY <1>2, <2>1 DEF Joins
    <3>. QED BY <3>1
  <2> DEFINE g == [k \in 0..n |-> IF k = 0 THEN <<>> ELSE f[k]]
  <2>3. 0 \in 0..n /\ \A k \in 1..n : k \in 0..n /\ k # 0 /\ k - 1 \in 0..n
    BY <1>1
  <2>4. g[0] = <<>> /\ \A k \in 1..n : g[k] = f[k]
    BY <2>3
  <2>. HIDE DEF g
  <2>5. ASSUME NEW k \in 1..n
        PROVE  g[k] = g[k - 1] \o ks[k].text
    <3>1. ks[k].text \in Seq(Bytes) /\ s[k] = ks[k].text
      BY <1>1, <1>2
    <3>2. CASE k = 1
      <4>1. g[k - 1] = <<>> /\ g[k] = s[k]
        BY <2>2, <2>4, <3>2
      <4>. QED BY <3>1, <4>1
    <3>3. CASE k # 1
      <4>1. k - 1 \in 1..n
        BY <1>1, <3>3
      <4>2. g[k] = f[k] /\ g[k - 1] = f[k - 1] /\ f[k] = f[k - 1] \o s[k]
        BY <2>2, <2>4, <3>3, <4>1
      <4>. QED BY <3>1, <4>2
    <3>. QED BY <3>2, <3>3
  <2> DEFINE Bad == {k \in 0..n : g[k] \notin Seq(Bytes)}
  <2>6. Bad = {}
    <3>. SUFFICES ASSUME Bad # {} PROVE FALSE
      OBVIOUS
    <3>1. PICK k \in Bad : \A j \in Bad : k =< j
      <4>1. Bad \in SUBSET Nat
        BY <1>1
      <4>. HIDE DEF Bad
      <4>. QED BY <4>1, NatLeast
    <3>2. k \in 0..n /\ g[k] \notin Seq(Bytes)
      OBVIOUS
    <3>3. k # 0
      <4>1. <<>> \in Seq(Bytes)
        OBVIOUS
      <4>. QED BY <2>4, <3>2, <4>1
    <3>4. k \in 1..n /\ k - 1 \in 0..n /\ ~(k =< k - 1)
      BY <1>1, <3>2, <3>3
    <3>5. g[k - 1] \in Seq(Bytes)
      BY <3>1, <3>4
    <3>6. g[k] = g[k - 1] \o ks[k].text /\ ks[k].text \in Seq(Bytes)
      BY <1>1, <2>5, <3>4
    <3>7. g[k] \in Seq(Bytes)
      BY ONLY <3>5, <3>6, ConcatProperties
    <3>. QED BY <3>2, <3>7
  <2>7. Writes(g, ks)
    BY <2>4, <2>5, <2>6 DEF Writes
  <2>8. Concatenated(s) = g[n]
    <3>1. n \in 1..n
      BY <1>1, <1>4
    <3>. QED BY <2>1, <2>4, <3>1
  <2>. QED BY <2>7, <2>8 DEF s
<1>. QED BY <1>3, <1>4

\* What a compound over the children tells.
Tells(l, m, b, ks) ==
  /\ l \in Locs
  /\ l.origin = SpanIn(b, m.from, m.to).origin
  /\ l.offset = SpanIn(b, m.from, m.to).offset
  /\ l.length = Len(Concatenated(TextsOf(ks)))
  /\ l.altered <=> b.offset # 0 /\ \E k \in 1..Len(ks) : ks[k].loc.altered

(* It begins where the match does, is as long as what its children hold, and *)
(* is altered when any of them is.                                           *)
LEMMA CompoundTold ==
  ASSUME NEW m0, Captured(m0), NEW b \in Locs, NEW ks, NEW n, Lay(m0, b, ks, m0.to, n)
  PROVE  Tells(CompoundLocation(SpanIn(b, m0.from, m0.to), [k \in 1..Len(ks) |-> Location(ks[k])]), m0, b, ks)
<1> DEFINE whole == SpanIn(b, m0.from, m0.to)
           spans == [k \in 1..Len(ks) |-> Location(ks[k])]
           l == CompoundLocation(whole, spans)
           len == Len(ks)
<1>1. ks \in Seq(Leaves) /\ len \in Nat
  BY DEF Lay
<1>2. Len(spans) = len /\ \A k \in 1..len : spans[k] = Location(ks[k])
  BY <1>1
<1>3. PICK cut : Cuts(m0, b, ks, cut)
  BY DEF Lay
<1>4. PICK g : Writes(g, ks) /\ Concatenated(TextsOf(ks)) = g[len]
  BY <1>1, WrittenIs
<1>. HIDE DEF spans, whole
<1>5. PICK f : Sums(f, whole, spans) /\ l = f[len].loc
  <2>1. Len(spans) \in Nat
    BY <1>1, <1>2
  <2>2. \E f : Sums(f, whole, spans) /\ CompoundLocation(whole, spans) = f[Len(spans)].loc
    BY ONLY <2>1, SumIs
  <2>. QED BY <1>2, <2>2
<1>6. ASSUME NEW k \in 0..len
      PROVE  f[k] = IF k = 0 THEN [loc |-> [whole EXCEPT !.length = 0], next |-> Offset(whole)]
                    ELSE Summed(f[k - 1], spans[k])
  <2>1. f = [j \in 0..len |-> IF j = 0 THEN [loc |-> [whole EXCEPT !.length = 0], next |-> Offset(whole)]
                              ELSE Summed(f[j - 1], spans[j])]
    BY <1>2, <1>5 DEF Sums
  <2>. HIDE DEF len
  <2>. QED BY <2>1
<1>. HIDE DEF l
<1> DEFINE Good(k) == SumSoFar(m0, b, ks, cut, f[k], k) /\ f[k].loc.length = Len(g[k])
           Bad == {k \in 0..len : ~Good(k)}
<1>7. Good(0)
  <2>1. 0 \in 0..len
    BY <1>1
  <2>2. f[0] = [loc |-> [whole EXCEPT !.length = 0], next |-> Offset(whole)]
    BY <1>6, <2>1
  <2>3. f[0].loc = [whole EXCEPT !.length = 0] /\ f[0].next = Offset(whole)
    BY <2>2
  <2>4. m0.from \in Nat /\ m0.to \in Nat /\ m0.from =< m0.to
    BY CapturedIs
  <2>5. whole \in Locs /\ whole.altered = FALSE /\ whole.offset = IF b.offset = 0 THEN 0 ELSE b.offset + m0.from
    BY <2>4, SpanInIs DEF whole
  <2>6. /\ f[0].loc \in Locs /\ f[0].loc.origin = whole.origin /\ f[0].loc.offset = whole.offset
        /\ f[0].loc.length = 0 /\ f[0].loc.altered = FALSE
    <3>1. PICK q : q = f[0].loc
      OBVIOUS
    <3>2. q = [whole EXCEPT !.length = 0]
      BY <2>3, <3>1
    <3>3. q \in Locs /\ q.origin = whole.origin /\ q.offset = whole.offset /\ q.length = 0 /\ q.altered = FALSE
      BY ONLY <2>5, <3>2 DEF Locs
    <3>. QED BY <3>1, <3>3
  <2>7. cut[0] = m0.from
    BY <1>3 DEF Cuts
  <2>8. b.offset # 0 => f[0].next = b.offset + cut[0] - 1
    <3>1. b.offset \in Nat
      BY DEF Locs
    <3>. QED BY <2>3, <2>4, <2>5, <2>7, <3>1 DEF Offset
  <2>9. ~\E j \in 1..0 : ks[j].loc.altered
    OBVIOUS
  <2>10. Len(g[0]) = 0
    BY <1>4 DEF Writes
  <2>. QED BY <2>6, <2>8, <2>9, <2>10 DEF SumSoFar, whole
<1>8. ASSUME NEW k \in 1..len, Good(k - 1)
      PROVE  Good(k)
  <2>1. k \in 0..len /\ k # 0 /\ k - 1 \in 0..len
    BY <1>1
  <2>2. f[k] = Summed(f[k - 1], Location(ks[k]))
    BY <1>2, <1>6, <1>8, <2>1
  <2>3. SumSoFar(m0, b, ks, cut, f[k], k) /\ f[k].loc.length = f[k - 1].loc.length + Len(ks[k].text)
    <3>1. PICK acc : acc = f[k - 1]
      OBVIOUS
    <3>2. Captured(m0) /\ b \in Locs /\ Cuts(m0, b, ks, cut) /\ Len(ks) \in Nat /\ k \in 1..Len(ks)
          /\ SumSoFar(m0, b, ks, cut, acc, k - 1)
      BY <1>1, <1>3, <1>8, <3>1
    <3>3. SumSoFar(m0, b, ks, cut, Summed(acc, Location(ks[k])), k)
      BY ONLY <3>2, SumGoesOn
    <3>4. Summed(acc, Location(ks[k])).loc.length = acc.loc.length + Len(ks[k].text)
      BY ONLY <3>2, SumGoesOn
    <3>. QED BY <2>2, <3>1, <3>3, <3>4
  <2>4. g[k] = g[k - 1] \o ks[k].text /\ g[k - 1] \in Seq(Bytes) /\ ks[k].text \in Seq(Bytes)
    <3>1. ks[k] \in Leaves
      BY <1>1
    <3>. QED BY <1>4, <2>1, <3>1 DEF Writes, Leaves
  <2>5. Len(g[k]) = Len(g[k - 1]) + Len(ks[k].text)
    BY ONLY <2>4, ConcatProperties
  <2>. QED BY <1>8, <2>3, <2>5
<1>9. Bad = {}
  <2>. SUFFICES ASSUME Bad # {} PROVE FALSE
    OBVIOUS
  <2>1. PICK k \in Bad : \A j \in Bad : k =< j
    <3>1. Bad \in SUBSET Nat
      BY <1>1
    <3>. HIDE DEF Bad
    <3>. QED BY <3>1, NatLeast
  <2>. HIDE DEF Good
  <2>2. k \in 0..len /\ ~Good(k)
    OBVIOUS
  <2>3. k # 0
    BY <1>7, <2>2
  <2>4. k \in 1..len /\ k - 1 \in 0..len /\ ~(k =< k - 1)
    BY <1>1, <2>2, <2>3
  <2>5. Good(k - 1)
    BY <2>1, <2>4
  <2>. QED BY <1>8, <2>2, <2>4, <2>5
<1>10. Good(len)
  <2>1. len \in 0..len
    BY <1>1
  <2>. HIDE DEF Good
  <2>. QED BY <1>9, <2>1
<1>11. Tells(l, m0, b, ks)
  BY <1>4, <1>5, <1>10 DEF SumSoFar, Tells
<1>. QED BY <1>11 DEF l, whole, spans

(* Two spans one after the other are the span of both.                       *)
LEMMA SpansMeet ==
  ASSUME NEW S, NEW s \in Seq(S), NEW a \in Nat, NEW e \in Nat, NEW c \in Nat,
         a =< e, e =< c, c =< Len(s)
  PROVE  SubSeq(s, a + 1, e) \o SubSeq(s, e + 1, c) = SubSeq(s, a + 1, c)
<1>1. PICK p \in Nat, q \in Nat : a + p = e /\ e + q = c
  <2>1. e - a \in Nat /\ a + (e - a) = e /\ c - e \in Nat /\ e + (c - e) = c
    OBVIOUS
  <2>. QED BY <2>1
<1> DEFINE u == SubSeq(s, a + 1, a + p)
           v == SubSeq(s, e + 1, e + q)
           w == SubSeq(s, a + 1, a + (p + q))
<1>2. u \in Seq(S) /\ Len(u) = p /\ \A k \in 1..p : u[k] = s[a + k]
  <2>1. a + p =< Len(s)
    BY <1>1
  <2>. QED BY <2>1, SpanElements
<1>3. v \in Seq(S) /\ Len(v) = q /\ \A k \in 1..q : v[k] = s[e + k]
  <2>1. e + q =< Len(s)
    BY <1>1
  <2>. QED BY <2>1, SpanElements
<1>4. w \in Seq(S) /\ Len(w) = p + q /\ \A k \in 1..(p + q) : w[k] = s[a + k]
  <2>1. p + q \in Nat /\ a + (p + q) =< Len(s)
    BY <1>1
  <2>2. PICK r \in Nat : r = p + q
    BY <2>1
  <2>3. a + r =< Len(s)
    BY <2>1, <2>2
  <2>4. /\ SubSeq(s, a + 1, a + r) \in Seq(S) /\ Len(SubSeq(s, a + 1, a + r)) = r
        /\ \A k \in 1..r : SubSeq(s, a + 1, a + r)[k] = s[a + k]
    BY <2>3, SpanElements
  <2>. QED BY <2>2, <2>4
<1>. HIDE DEF u, v, w
<1>5. u \in Seq(S) /\ v \in Seq(S) /\ Len(u) = p /\ Len(v) = q
  BY <1>2, <1>3
<1>6. u \o v \in Seq(S) /\ Len(u \o v) = p + q
  <2>1. u \o v \in Seq(S) /\ Len(u \o v) = Len(u) + Len(v)
    BY ONLY <1>5, ConcatProperties
  <2>. QED BY <1>5, <2>1
<1>7. ASSUME NEW k \in 1..(p + q)
      PROVE  (u \o v)[k] = w[k]
  <2>1. (u \o v)[k] = IF k =< p THEN u[k] ELSE v[k - p]
    <3>1. \A i \in 1..(Len(u) + Len(v)) : (u \o v)[i] = IF i =< Len(u) THEN u[i] ELSE v[i - Len(u)]
      BY ONLY <1>5, ConcatProperties
    <3>. QED BY <1>5, <3>1
  <2>2. CASE k =< p
    <3>1. k \in 1..p
      BY <1>1, <2>2
    <3>. QED BY <1>2, <1>4, <2>1, <2>2, <3>1
  <2>3. CASE ~(k =< p)
    <3>1. k - p \in 1..q /\ e + (k - p) = a + k
      BY <1>1, <2>3
    <3>. QED BY <1>3, <1>4, <2>1, <2>3, <3>1
  <2>. QED BY <2>2, <2>3
<1>8. u \o v = w
  <2>1. PICK t : t = u \o v
    OBVIOUS
  <2>2. t \in Seq(S) /\ Len(t) = Len(w) /\ \A k \in 1..Len(w) : t[k] = w[k]
    BY <1>4, <1>6, <1>7, <2>1
  <2>3. t = w
    BY ONLY <1>4, <2>2, SeqEqual
  <2>. QED BY <2>1, <2>3
<1>9. a + (p + q) = c
  BY <1>1
<1>. QED BY <1>1, <1>8, <1>9 DEF u, v, w

(* Children none of which was rewritten hold the match.                      *)
LEMMA WrittenSlice ==
  ASSUME NEW m0, Captured(m0), NEW b \in Locs, NEW ks, NEW n, Lay(m0, b, ks, m0.to, n),
         \A k \in 1..Len(ks) : ~ks[k].loc.altered
  PROVE  /\ Len(Concatenated(TextsOf(ks))) = m0.to - m0.from
         /\ b.offset # 0 => Concatenated(TextsOf(ks)) = SubSeq(m0.text, m0.from + 1, m0.to)
<1> DEFINE len == Len(ks)
           first == m0.from
<1>1. ks \in Seq(Leaves) /\ len \in Nat
  BY DEF Lay
<1>2. PICK cut : Cuts(m0, b, ks, cut) /\ cut[len] = m0.to
  BY DEF Lay
<1>3. PICK g : Writes(g, ks) /\ Concatenated(TextsOf(ks)) = g[len]
  BY <1>1, WrittenIs
<1>4. first \in Nat /\ m0.text \in Seq(Bytes) /\ m0.to \in Nat /\ m0.to =< Len(m0.text)
  BY DEF Captured
<1> DEFINE Good(k) == /\ first =< cut[k] /\ Len(g[k]) = cut[k] - first
                      /\ b.offset # 0 => g[k] = SubSeq(m0.text, first + 1, cut[k])
           Bad == {k \in 0..len : ~Good(k)}
<1>5. Good(0)
  <2>1. cut[0] = first /\ g[0] = <<>>
    BY <1>2, <1>3 DEF Cuts, Writes
  <2>2. SubSeq(m0.text, first + 1, first) = <<>>
    BY <1>4
  <2>. QED BY <1>4, <2>1, <2>2
<1>6. ASSUME NEW k \in 1..len, Good(k - 1)
      PROVE  Good(k)
  <2> DEFINE from == cut[k - 1]
             to == cut[k]
             x == ks[k]
  <2>1. k - 1 \in 0..len /\ k \in 0..len
    BY <1>1
  <2>2. from \in Nat /\ to \in Nat /\ from =< to /\ Piece(m0, b, x, from, to) /\ ~x.loc.altered
    BY <1>2, <2>1 DEF Cuts
  <2>. HIDE DEF x, from, to
  <2>3. /\ Len(x.text) = to - from /\ x.text \in Seq(Bytes) /\ to =< m0.to
        /\ b.offset # 0 => x.text = SubSeq(m0.text, from + 1, to)
    BY <2>2 DEF Piece, Leaves
  <2>4. g[k] = g[k - 1] \o x.text /\ g[k - 1] \in Seq(Bytes)
    BY <1>3, <2>1 DEF Writes, x
  <2>5. first =< from /\ Len(g[k - 1]) = from - first
        /\ (b.offset # 0 => g[k - 1] = SubSeq(m0.text, first + 1, from))
    BY <1>6 DEF from
  <2>6. Len(g[k]) = to - first
    <3>1. Len(g[k]) = Len(g[k - 1]) + Len(x.text)
      <4>1. PICK v, w : v = g[k - 1] /\ w = x.text /\ v \in Seq(Bytes) /\ w \in Seq(Bytes)
        BY <2>3, <2>4
      <4>2. Len(v \o w) = Len(v) + Len(w)
        BY ONLY <4>1, ConcatProperties
      <4>. QED BY ONLY <2>4, <4>1, <4>2
    <3>. QED BY <1>4, <2>2, <2>3, <2>5, <3>1
  <2>7. ASSUME b.offset # 0
        PROVE  g[k] = SubSeq(m0.text, first + 1, to)
    <3>1. to =< Len(m0.text)
      BY <1>4, <2>2, <2>3
    <3>2. SubSeq(m0.text, first + 1, from) \o SubSeq(m0.text, from + 1, to) = SubSeq(m0.text, first + 1, to)
      <4>. HIDE DEF first
      <4>. QED BY <1>4, <2>2, <2>5, <3>1, SpansMeet
    <3>. QED BY <2>3, <2>4, <2>5, <2>7, <3>2
  <2>8. first =< to
    BY <1>4, <2>2, <2>5
  <2>. QED BY <2>6, <2>7, <2>8 DEF to
<1>7. Bad = {}
  <2>. SUFFICES ASSUME Bad # {} PROVE FALSE
    OBVIOUS
  <2>1. PICK k \in Bad : \A j \in Bad : k =< j
    <3>1. Bad \in SUBSET Nat
      BY <1>1
    <3>. HIDE DEF Bad
    <3>. QED BY <3>1, NatLeast
  <2>. HIDE DEF Good
  <2>2. k \in 0..len /\ ~Good(k)
    OBVIOUS
  <2>3. k # 0
    BY <1>5, <2>2
  <2>4. k \in 1..len /\ k - 1 \in 0..len /\ ~(k =< k - 1)
    BY <1>1, <2>2, <2>3
  <2>5. Good(k - 1)
    BY <2>1, <2>4
  <2>. QED BY <1>6, <2>2, <2>4, <2>5
<1>8. Good(len)
  <2>1. len \in 0..len
    BY <1>1
  <2>. HIDE DEF Good
  <2>. QED BY <1>7, <2>1
<1>. QED BY <1>2, <1>3, <1>8

---------------------------------------------------------------------------
(* The invariant.                                                            *)

(* The bounds are as many as the groups they take.                           *)
LEMMA BoundsCounted ==
  ASSUME NEW m0, Captured(m0), NEW left
  PROVE  Cardinality(Taken(Bounds(m0, left))) = Len(Bounds(m0, left))
<1> DEFINE s == Bounds(m0, left)
           n == Len(s)
           head(k) == {s[i] : i \in 1..k}
           Bad == {k \in 0..n : ~(IsFiniteSet(head(k)) /\ Cardinality(head(k)) = k)}
<1>1. s \in Seq(1..Len(m0.groups)) /\ \A i, j \in 1..n : i < j => s[i] < s[j]
  BY BoundsLined DEF Lined
<1>. HIDE DEF s
<1>2. n \in Nat /\ \A i \in 1..n : s[i] \in Int
  BY <1>1
<1>3. Bad = {}
  <2>. SUFFICES ASSUME Bad # {} PROVE FALSE
    OBVIOUS
  <2>1. PICK k \in Bad : \A j \in Bad : k =< j
    <3>1. Bad \in SUBSET Nat
      BY <1>2
    <3>. HIDE DEF Bad
    <3>. QED BY <3>1, NatLeast
  <2>2. k \in 0..n /\ ~(IsFiniteSet(head(k)) /\ Cardinality(head(k)) = k)
    OBVIOUS
  <2>3. k # 0
    <3>1. head(0) = {}
      OBVIOUS
    <3>. QED BY <2>2, <3>1, FS_EmptySet
  <2>4. k \in 1..n /\ k - 1 \in 0..n /\ ~(k =< k - 1)
    BY <1>2, <2>2, <2>3
  <2>5. IsFiniteSet(head(k - 1)) /\ Cardinality(head(k - 1)) = k - 1
    BY <2>1, <2>4
  <2>6. head(k) = head(k - 1) \cup {s[k]}
    <3>1. 1..k = 1..(k - 1) \cup {k}
      BY <2>4
    <3>. QED BY <3>1
  <2>7. s[k] \notin head(k - 1)
    <3>. SUFFICES ASSUME NEW i \in 1..(k - 1), s[i] = s[k] PROVE FALSE
      OBVIOUS
    <3>1. i \in 1..n /\ i < k
      BY <1>2, <2>4
    <3>2. s[i] < s[k] /\ s[k] \in Int
      BY <1>1, <1>2, <2>4, <3>1
    <3>. QED BY <3>2
  <2>. HIDE DEF head, Bad
  <2>8. IsFiniteSet(head(k)) /\ Cardinality(head(k)) = (k - 1) + 1
    BY <2>5, <2>6, <2>7, FS_AddElement
  <2>. QED BY <2>2, <2>4, <2>8
<1>4. n \in 0..n
  BY <1>2
<1>5. Cardinality(head(n)) = n
  <2>. HIDE DEF head
  <2>. QED BY <1>3, <1>4
<1>. QED BY <1>5 DEF Taken, s

(* A field rewritten leaves the children laid out.                           *)
LEMMA LayWritten ==
  ASSUME NEW m0, NEW b \in Locs, NEW ks, NEW to, NEW n, Lay(m0, b, ks, to, n),
         NEW k \in 1..Len(ks), ks[k].kind # "Glue", NEW bytes \in Seq(Bytes)
  PROVE  Lay(m0, b, [ks EXCEPT ![k] = Rewritten(ks[k], bytes)], to, n)
<1> DEFINE len == Len(ks)
           y == Rewritten(ks[k], bytes)
           t == [ks EXCEPT ![k] = y]
<1>1. ks \in Seq(Leaves) /\ len \in Nat
  BY DEF Lay
<1>2. PICK cut : Cuts(m0, b, ks, cut) /\ cut[len] = to
  BY DEF Lay
<1>3. Piece(m0, b, y, cut[k - 1], cut[k]) /\ y.kind = ks[k].kind
  <2> DEFINE from == cut[k - 1]
             e == cut[k]
             x == ks[k]
  <2>1. k - 1 \in 0..len /\ k \in 0..len
    BY <1>1
  <2>2. from \in Nat /\ e \in Nat /\ from =< e /\ Piece(m0, b, x, from, e)
    BY <1>2, <2>1 DEF Cuts
  <2>. HIDE DEF from, e, x
  <2>3. x.kind # "Glue" /\ y = Rewritten(x, bytes)
    BY DEF x
  <2>4. b \in Locs /\ bytes \in Seq(Bytes)
    OBVIOUS
  <2>5. Piece(m0, b, Rewritten(x, bytes), from, e)
    BY ONLY <2>2, <2>3, <2>4, PieceWritten
  <2>6. Rewritten(x, bytes).kind = x.kind
    BY ONLY <2>2, <2>3, <2>4, PieceWritten
  <2>. QED BY <2>3, <2>5, <2>6 DEF from, e, x
<1>. HIDE DEF y
<1>4. y \in Leaves
  BY <1>3 DEF Piece
<1>5. t \in Seq(Leaves) /\ Len(t) = len /\ \A j \in 1..len : t[j] = IF j = k THEN y ELSE ks[j]
  BY <1>1, <1>4
<1>. HIDE DEF t
<1>6. \A j \in 1..len : t[j].kind = ks[j].kind
  BY <1>3, <1>5
<1>7. FieldsOf(t) = FieldsOf(ks)
  BY <1>5, <1>6 DEF FieldsOf
<1>8. Cuts(m0, b, t, cut)
  <2>1. \A j \in 1..len : Piece(m0, b, t[j], cut[j - 1], cut[j])
    BY <1>2, <1>3, <1>5 DEF Cuts
  <2>. QED BY <1>2, <1>5, <2>1 DEF Cuts
<1>9. \A j \in 1..len : j < len => t[j].kind # "Glue" \/ t[j + 1].kind # "Glue"
  <2>. SUFFICES ASSUME NEW j \in 1..len, j < len
                PROVE  t[j].kind # "Glue" \/ t[j + 1].kind # "Glue"
    OBVIOUS
  <2>1. j + 1 \in 1..len
    BY <1>1
  <2>. QED BY <1>6, <2>1 DEF Lay
<1>10. Cardinality(FieldsOf(t)) = n
  BY <1>7 DEF Lay
<1>11. Lay(m0, b, t, to, n)
  BY <1>2, <1>5, <1>8, <1>9, <1>10 DEF Lay
<1>. QED BY <1>11 DEF t, y

\* The inductive invariant: what is put was made of a group of this match, and
\* what Done laid are pieces that tile it, each written since or not.
StencilInv ==
  /\ match \in Matches /\ base \in Bases
  /\ DOMAIN slot = Groups
  /\ \A g \in Groups : slot[g] = Nil \/ Made(match, base, slot[g])
  /\ phase # "built" => kids = <<>>
  /\ phase = "built" => Lay(match, base, kids, match.to, Len(Bounds(match, omitted)))

(* What Done hands over.                                                     *)
LEMMA DoneLays ==
  ASSUME StencilInv, Done
  PROVE  StencilInv'
<1> DEFINE bs == Bounds(match, omitted)
<1>1. Captured(match) /\ base \in Locs
  BY FieldsAssumption DEF StencilInv
<1>2. phase = "laying" /\ kids = <<>> /\ UNCHANGED <<match, base, slot, omitted>>
  BY DEF Done, StencilInv
<1>3. IF \A i \in 1..Len(bs) : Fits(bs[i])
      THEN phase' = "built" /\ kids' = Laid(match, base, slot, bs)
      ELSE phase' = "refused" /\ UNCHANGED kids
  BY DEF Done
<1>4. CASE ~\A i \in 1..Len(bs) : Fits(bs[i])
  <2>1. phase' = "refused" /\ kids' = <<>>
    BY <1>2, <1>3, <1>4
  <2>. QED BY <1>2, <2>1 DEF StencilInv, Groups
<1>5. CASE \A i \in 1..Len(bs) : Fits(bs[i])
  <2>1. phase' = "built" /\ kids' = Laid(match, base, slot, bs)
    BY <1>3, <1>5
  <2>2. bs \in Seq(1..Len(match.groups))
    BY <1>1, BoundsLined DEF Lined
  <2>3. ASSUME NEW i \in 1..Len(bs)
        PROVE  Made(match, base, slot[bs[i]]) /\ Location(slot[bs[i]]) = SpanIn(base, From(match, bs[i]), To(match, bs[i]))
    <3>. HIDE DEF bs
    <3>1. bs[i] \in Groups
      BY <2>2 DEF Groups
    <3>2. slot[bs[i]] # Nil /\ Location(slot[bs[i]]) = GroupSpan(bs[i])
      BY <1>5 DEF Fits
    <3>. QED BY <3>1, <3>2 DEF StencilInv, GroupSpan, From, To
  <2>4. Lay(match, base, Laid(match, base, slot, bs), match.to, Len(bs))
    BY <1>1, <2>3, LaidLay
  <2>. QED BY <1>2, <2>1, <2>4 DEF StencilInv, Groups
<1>. QED BY <1>4, <1>5

(* The bytes a field is given are kept where it is read.                     *)
LEMMA WriteLays ==
  ASSUME StencilInv, NEW k \in 1..Len(kids), kids[k].kind # "Glue", NEW bytes \in Seq(Bytes),
         Write(k, bytes)
  PROVE  StencilInv'
<1>1. base \in Locs
  BY FieldsAssumption DEF StencilInv
<1>2. kids' = [kids EXCEPT ![k] = Rewritten(kids[k], bytes)] /\ UNCHANGED <<match, base, slot, omitted, phase>>
  BY DEF Write
<1>3. phase = "built"
  <2>1. 1..Len(<<>>) = {}
    OBVIOUS
  <2>. QED BY <2>1 DEF StencilInv
<1>4. Lay(match, base, kids, match.to, Len(Bounds(match, omitted)))
  BY <1>3 DEF StencilInv
<1>5. Lay(match, base, [kids EXCEPT ![k] = Rewritten(kids[k], bytes)], match.to, Len(Bounds(match, omitted)))
  BY <1>1, <1>4, LayWritten
<1>. QED BY <1>2, <1>3, <1>5 DEF StencilInv, Groups

(* The children stay the pieces Done laid over the match, through every later *)
(* write, whatever was put, omitted and written in whichever order.          *)
THEOREM StencilLaid == FieldSpec => []StencilInv
<1>1. FieldInit => StencilInv
  BY DEF FieldInit, StencilInv
<1>2. StencilInv /\ [FieldNext]_fieldVars => StencilInv'
  <2>. SUFFICES ASSUME StencilInv, [FieldNext]_fieldVars
                PROVE  StencilInv'
    OBVIOUS
  <2>1. ASSUME NEW g \in Groups, NEW h \in Groups, Put(g, h)
        PROVE  StencilInv'
    <3>1. Captured(match) /\ base \in Locs
      BY FieldsAssumption DEF StencilInv
    <3>2. Made(match, base, Node(match.groups[g].kind, h))
      BY <3>1, NodeMade
    <3>3. /\ phase = "laying" /\ slot' = [slot EXCEPT ![g] = Node(match.groups[g].kind, h)]
          /\ UNCHANGED <<match, base, omitted, phase, kids>>
      BY <2>1 DEF Put
    <3>4. DOMAIN slot' = Groups /\ \A j \in Groups : slot'[j] = IF j = g THEN Node(match.groups[g].kind, h) ELSE slot[j]
      BY <3>3 DEF StencilInv
    <3>5. \A j \in Groups : slot'[j] = Nil \/ Made(match, base, slot'[j])
      BY <3>2, <3>4 DEF StencilInv
    <3>. QED BY <3>3, <3>4, <3>5 DEF StencilInv, Groups
  <2>2. ASSUME NEW g \in Groups, Omit(g)
        PROVE  StencilInv'
    BY <2>2 DEF Omit, StencilInv, Groups
  <2>3. CASE Done
    BY <2>3, DoneLays
  <2>4. ASSUME NEW k \in 1..Len(kids), NEW bytes \in Texts, SetText(k, bytes)
        PROVE  StencilInv'
    <3>1. bytes \in Seq(Bytes) /\ kids[k].kind # "Glue" /\ Write(k, bytes)
      BY <2>4, FieldsAssumption DEF SetText
    <3>. QED BY <3>1, WriteLays
  <2>5. ASSUME NEW k \in 1..Len(kids), NEW v \in BOOLEAN, SetBool(k, v)
        PROVE  StencilInv'
    <3> DEFINE bytes == IF v THEN <<"x">> ELSE <<" ">>
    <3>1. bytes \in Seq(Bytes)
      <4>1. PICK c : c = IF v THEN "x" ELSE " "
        OBVIOUS
      <4>2. c \in Bytes
        BY <4>1, FieldsAssumption
      <4>3. bytes = <<c>>
        BY <4>1
      <4>4. <<c>> \in Seq(Bytes)
        BY <4>2
      <4>. QED BY ONLY <4>3, <4>4
    <3>2. kids[k].kind # "Glue" /\ Write(k, bytes)
      BY <2>5 DEF SetBool
    <3>. HIDE DEF bytes
    <3>. QED BY <3>1, <3>2, WriteLays
  <2>6. ASSUME NEW k \in 1..Len(kids), NEW items \in ItemLists, SetItems(k, items)
        PROVE  StencilInv'
    <3>1. Joined(items) \in Seq(Bytes) /\ kids[k].kind # "Glue" /\ Write(k, Joined(items))
      BY <2>6, FieldsAssumption DEF SetItems
    <3>. QED BY <3>1, WriteLays
  <2>7. ASSUME NEW k \in 1..Len(kids), NEW ns \in RefLists, SetRefs(k, ns)
        PROVE  StencilInv'
    <3>1. RequirementText(ns) \in Seq(Bytes) /\ kids[k].kind # "Glue" /\ Write(k, RequirementText(ns))
      BY <2>7, FieldsAssumption DEF SetRefs
    <3>. QED BY <3>1, WriteLays
  <2>8. CASE UNCHANGED fieldVars
    BY <2>8 DEF fieldVars, StencilInv, Groups
  <2>. QED BY <2>1, <2>2, <2>3, <2>4, <2>5, <2>6, <2>7, <2>8 DEF FieldNext
<1>. QED BY <1>1, <1>2, PTL DEF FieldSpec

---------------------------------------------------------------------------
(* What the compound tells, at any moment after Done.                        *)

LEMMA InvTells ==
  ASSUME StencilInv, phase = "built"
  PROVE  /\ base \in Locs /\ Captured(match)
         /\ \E n : Lay(match, base, kids, match.to, n)
         /\ Tells(CompoundLocation(SpanIn(base, match.from, match.to), Spans), match, base, kids)
         /\ Rendered = Concatenated(TextsOf(kids))
         /\ SpanIn(base, match.from, match.to) \in Locs
         /\ SpanIn(base, match.from, match.to).altered = FALSE
         /\ SpanIn(base, match.from, match.to).length = match.to - match.from
         /\ SpanIn(base, match.from, match.to).offset # 0 <=> base.offset # 0
<1>1. base \in Locs /\ Captured(match)
  BY FieldsAssumption DEF StencilInv
<1>2. Lay(match, base, kids, match.to, Len(Bounds(match, omitted)))
  BY DEF StencilInv
<1>3. Tells(CompoundLocation(SpanIn(base, match.from, match.to), [k \in 1..Len(kids) |-> Location(kids[k])]), match, base, kids)
  BY ONLY <1>1, <1>2, CompoundTold
<1>4. match.from \in Nat /\ match.to \in Nat /\ match.from =< match.to /\ base.offset \in Nat
  BY <1>1, CapturedIs DEF Locs
<1> DEFINE whole == SpanIn(base, match.from, match.to)
<1>5. /\ whole \in Locs /\ whole.altered = FALSE /\ whole.length = match.to - match.from
      /\ whole.offset = IF base.offset = 0 THEN 0 ELSE base.offset + match.from
  BY <1>1, <1>4, SpanInIs
<1>. HIDE DEF whole
<1>6. whole.offset # 0 <=> base.offset # 0
  BY <1>4, <1>5
<1>. QED BY <1>1, <1>2, <1>3, <1>5, <1>6 DEF Spans, Rendered, TextsOf, whole

(* After any writes the stencil is as long as what its children hold, begins *)
(* where the match did, and is faithful just when none was rewritten.        *)
THEOREM AlterationTold == FieldSpec => []AlterationIsTold
<1>1. StencilInv => AlterationIsTold
  <2>. SUFFICES ASSUME StencilInv, phase = "built"
                PROVE  \A l \in {CompoundLocation(SpanIn(base, match.from, match.to), Spans)} :
                         /\ l.length = Len(Rendered)
                         /\ Offset(l) = Offset(SpanIn(base, match.from, match.to))
                         /\ Faithful(l) <=> /\ base.offset # 0
                                            /\ \A k \in 1..Len(kids) : ~kids[k].loc.altered
    BY DEF AlterationIsTold
  <2> DEFINE whole == SpanIn(base, match.from, match.to)
             l == CompoundLocation(whole, Spans)
  <2>1. Tells(l, match, base, kids) /\ Rendered = Concatenated(TextsOf(kids)) /\ (whole.offset # 0 <=> base.offset # 0)
    BY InvTells
  <2>2. /\ l \in Locs /\ l.offset = whole.offset /\ l.length = Len(Rendered)
        /\ l.altered <=> base.offset # 0 /\ \E k \in 1..Len(kids) : kids[k].loc.altered
    BY <2>1 DEF Tells
  <2>. HIDE DEF l, whole
  <2>3. Offset(l) = Offset(whole)
    BY <2>2 DEF Offset
  <2>4. Faithful(l) <=> base.offset # 0 /\ \A k \in 1..Len(kids) : ~kids[k].loc.altered
    BY <2>1, <2>2 DEF Faithful
  <2>. QED BY <2>2, <2>3, <2>4 DEF l, whole
<1>. QED BY <1>1, StencilLaid, PTL

(* Until a field is rewritten the children hold the match byte for byte and  *)
(* span it, the fields are as many as the groups owed, and no glue is empty  *)
(* or in two (R104, R117).                                                   *)
THEOREM ChildrenTile ==
  ASSUME NoneTrails
  PROVE  FieldSpec => []ChildrenTileTheMatch
<1>1. StencilInv => ChildrenTileTheMatch
  <2>. SUFFICES ASSUME StencilInv, phase = "built", \A k \in 1..Len(kids) : ~kids[k].loc.altered
                PROVE  /\ base.offset # 0 => Rendered = SubSeq(match.text, match.from + 1, match.to)
                       /\ CompoundLocation(SpanIn(base, match.from, match.to), Spans) = SpanIn(base, match.from, match.to)
                       /\ Cardinality({k \in 1..Len(kids) : kids[k].kind # "Glue"}) = Cardinality(Owed)
                       /\ \A k \in 1..Len(kids) : kids[k].kind = "Glue" =>
                            /\ kids[k].text # <<>>
                            /\ k < Len(kids) => kids[k + 1].kind # "Glue"
    BY DEF ChildrenTileTheMatch
  <2> DEFINE whole == SpanIn(base, match.from, match.to)
             l == CompoundLocation(whole, Spans)
             bs == Bounds(match, omitted)
  <2>1. base \in Locs /\ Captured(match) /\ match \in Matches
    BY InvTells DEF StencilInv
  <2>2. Lay(match, base, kids, match.to, Len(bs))
    BY DEF StencilInv
  <2>3. /\ Tells(l, match, base, kids) /\ Rendered = Concatenated(TextsOf(kids))
        /\ whole \in Locs /\ whole.altered = FALSE /\ whole.length = match.to - match.from
    BY InvTells
  <2>4. /\ Len(Concatenated(TextsOf(kids))) = match.to - match.from
        /\ base.offset # 0 => Concatenated(TextsOf(kids)) = SubSeq(match.text, match.from + 1, match.to)
    BY <2>1, <2>2, WrittenSlice
  <2>5. /\ l \in Locs /\ l.origin = whole.origin /\ l.offset = whole.offset /\ l.length = Len(Rendered)
        /\ l.altered <=> base.offset # 0 /\ \E k \in 1..Len(kids) : kids[k].loc.altered
    BY <2>3 DEF Tells
  <2>. HIDE DEF l, whole, bs
  <2>6. l = whole
    <3>1. l.altered = FALSE
      BY <2>5 DEF Locs
    <3>. QED BY <2>3, <2>4, <2>5, <3>1 DEF Locs
  <2>7. Cardinality({k \in 1..Len(kids) : kids[k].kind # "Glue"}) = Cardinality(Owed)
    <3>1. Taken(bs) = Owed
      BY <2>1, OwedIs DEF bs
    <3>2. Cardinality(Taken(bs)) = Len(bs)
      BY <2>1, BoundsCounted DEF bs
    <3>3. Cardinality(FieldsOf(kids)) = Len(bs)
      BY <2>2 DEF Lay
    <3>. QED BY <3>1, <3>2, <3>3 DEF FieldsOf
  <2>8. ASSUME NEW k \in 1..Len(kids), kids[k].kind = "Glue"
        PROVE  /\ kids[k].text # <<>>
               /\ k < Len(kids) => kids[k + 1].kind # "Glue"
    <3>1. k < Len(kids) => kids[k + 1].kind # "Glue"
      BY <2>2, <2>8 DEF Lay
    <3>2. PICK cut : Cuts(match, base, kids, cut)
      BY <2>2 DEF Lay
    <3>3. k - 1 \in 0..Len(kids) /\ k \in 0..Len(kids)
      BY <2>2 DEF Lay
    <3>4. PICK from \in Nat, to \in Nat : Piece(match, base, kids[k], from, to)
      BY <3>2, <3>3 DEF Cuts
    <3>5. from < to /\ Len(kids[k].text) = to - from
      BY <2>8, <3>4 DEF Piece
    <3>6. Len(kids[k].text) # 0
      BY <3>5
    <3>. QED BY <3>1, <3>6
  <2>. QED BY <2>3, <2>4, <2>6, <2>7, <2>8 DEF l, whole
<1>. QED BY <1>1, StencilLaid, PTL
============================================================================
