-------------------------- MODULE OperatorProofs --------------------------
(* Laws of the operators the theorems keep citing, at any length: what       *)
(* splicing an array gives and writing one out, what a column and the        *)
(* derivation of frames compute.                                             *)
EXTENDS Splice, Frames, SequenceTheorems, WellFoundedInduction, TLAPS

---------------------------------------------------------------------------
(* Splices and concatenations.                                               *)

(* A span of a sequence, by its 0-based offset and its length.               *)
LEMMA SpanElements ==
  ASSUME NEW S, NEW s \in Seq(S), NEW at \in Nat, NEW len \in Nat,
         at + len =< Len(s)
  PROVE  /\ SubSeq(s, at + 1, at + len) \in Seq(S)
         /\ Len(SubSeq(s, at + 1, at + len)) = len
         /\ \A k \in 1..len : SubSeq(s, at + 1, at + len)[k] = s[at + k]
<1> DEFINE m == at + 1
           n == at + len
           t == SubSeq(s, m, n)
<1>1. m \in Int /\ n \in Int /\ n - m + 1 = len /\ (m =< n <=> len > 0)
  OBVIOUS
<1>2. \A k \in m..n : s[k] \in S
  OBVIOUS
<1>3. \A k \in 1..len : m + k - 1 = at + k
  OBVIOUS
<1>. HIDE DEF m, n
<1>4. /\ t \in Seq(S)
      /\ Len(t) = IF m =< n THEN n - m + 1 ELSE 0
      /\ \A k \in 1..(n - m + 1) : t[k] = s[m + k - 1]
  BY <1>1, <1>2, SubSeqProperties
<1>. HIDE DEF t
<1>5. t \in Seq(S) /\ Len(t) = len
  BY <1>1, <1>4
<1>6. \A k \in 1..len : t[k] = s[at + k]
  BY <1>1, <1>3, <1>4
<1>. QED BY <1>5, <1>6 DEF t, m, n

(* What a splice holds: the elements before, the new ones, those after.      *)
LEMMA SpliceElements ==
  ASSUME NEW S, NEW s \in Seq(S), NEW m \in Seq(S),
         NEW i \in 1..(Len(s) + 1), NEW j \in i..(Len(s) + 1)
  PROVE  /\ Splice(s, i, j, m) \in Seq(S)
         /\ Len(Splice(s, i, j, m)) = (i - 1) + Len(m) + (Len(s) - j + 1)
         /\ \A k \in 1..Len(Splice(s, i, j, m)) :
              Splice(s, i, j, m)[k] =
                IF k < i THEN s[k]
                ELSE IF k < i + Len(m) THEN m[k - i + 1]
                ELSE s[k - Len(m) - i + j]
<1> DEFINE front == SubSeq(s, 1, i - 1)
           back  == SubSeq(s, j, Len(s))
           start == front \o m
           t     == start \o back
<1>0. Len(m) \in Nat /\ Len(s) \in Nat /\ i \in Nat /\ j \in Nat
  OBVIOUS
<1>1. front \in Seq(S) /\ Len(front) = i - 1 /\ \A k \in 1..(i - 1) : front[k] = s[k]
  BY SubSeqProperties
<1>2. /\ back \in Seq(S)
      /\ Len(back) = Len(s) - j + 1
      /\ \A k \in 1..(Len(s) - j + 1) : back[k] = s[j + k - 1]
  BY SubSeqProperties
<1>3. /\ start \in Seq(S)
      /\ Len(start) = (i - 1) + Len(m)
      /\ \A k \in 1..Len(start) :
           start[k] = IF k < i THEN s[k] ELSE m[k - i + 1]
  <2>. HIDE DEF front
  <2>1. /\ start \in Seq(S)
        /\ Len(start) = Len(front) + Len(m)
        /\ \A k \in 1..(Len(front) + Len(m)) :
             start[k] = IF k =< Len(front) THEN front[k] ELSE m[k - Len(front)]
    BY <1>1, ConcatProperties
  <2>. HIDE DEF start
  <2>. QED BY <1>0, <1>1, <2>1
<1>4. /\ t \in Seq(S)
      /\ Len(t) = (i - 1) + Len(m) + (Len(s) - j + 1)
      /\ \A k \in 1..Len(t) :
           t[k] = IF k =< (i - 1) + Len(m) THEN start[k]
                  ELSE back[k - ((i - 1) + Len(m))]
  <2>. HIDE DEF front, start, back
  <2>0. start \in Seq(S) /\ back \in Seq(S)
    BY <1>2, <1>3
  <2>1. /\ t \in Seq(S)
        /\ Len(t) = Len(start) + Len(back)
        /\ \A k \in 1..(Len(start) + Len(back)) :
             t[k] = IF k =< Len(start) THEN start[k] ELSE back[k - Len(start)]
    BY <2>0, ConcatProperties
  <2>. HIDE DEF t
  <2>. QED BY <1>0, <1>2, <1>3, <2>1
<1>5. \A k \in 1..Len(t) :
        t[k] = IF k < i THEN s[k]
               ELSE IF k < i + Len(m) THEN m[k - i + 1]
               ELSE s[k - Len(m) - i + j]
  <2>. HIDE DEF front, start, back, t
  <2>. TAKE k \in 1..Len(t)
  <2>1. CASE k =< (i - 1) + Len(m)
    <3>1. t[k] = start[k]
      BY <1>4, <2>1
    <3>0. k \in 1..Len(start)
      BY <1>0, <1>3, <2>1
    <3>2. k < i + Len(m)
      BY <1>0, <1>4, <2>1
    <3>. QED BY <1>0, <1>3, <3>0, <3>1, <3>2
  <2>2. CASE k > (i - 1) + Len(m)
    <3> DEFINE q == k - ((i - 1) + Len(m))
    <3>1. q \in 1..(Len(s) - j + 1) /\ j + q - 1 = k - Len(m) - i + j
      BY <1>0, <1>4, <2>2, SMTT(20)
    <3>2. t[k] = back[q]
      BY <1>0, <1>4, <2>2
    <3>3. back[q] = s[j + q - 1]
      BY <1>2, <3>1
    <3>4. ~(k < i) /\ ~(k < i + Len(m))
      BY <1>0, <1>4, <2>2
    <3>. QED BY <3>1, <3>2, <3>3, <3>4
  <2>3. (i - 1) + Len(m) \in Int /\ k \in Int
    BY <1>0
  <2>. QED BY <2>1, <2>2, <2>3
<1>6. Splice(s, i, j, m) = t
  BY DEF Splice
<1>. QED
  <2>. HIDE DEF t
  <2>. QED BY <1>4, <1>5, <1>6

(* Splicing new elements, distinct and not in the array, into an array       *)
(* without duplicates makes one without duplicates.                          *)
LEMMA SpliceDistinct ==
  ASSUME NEW S, NEW s \in Seq(S), NEW m \in Seq(S), Distinct(s), Distinct(m),
         NEW i \in 1..(Len(s) + 1), NEW j \in i..(Len(s) + 1),
         \A p \in 1..Len(s) : \A q \in 1..Len(m) : s[p] # m[q]
  PROVE  Distinct(Splice(s, i, j, m))
<1> DEFINE t == Splice(s, i, j, m)
           At(k) == IF k < i THEN k ELSE k - Len(m) - i + j
<1>0. Len(m) \in Nat /\ Len(s) \in Nat /\ i \in Nat /\ j \in Nat
  OBVIOUS
<1>1. /\ Len(t) = (i - 1) + Len(m) + (Len(s) - j + 1)
      /\ \A k \in 1..Len(t) :
           t[k] = IF k < i THEN s[k]
                  ELSE IF k < i + Len(m) THEN m[k - i + 1]
                  ELSE s[k - Len(m) - i + j]
  BY SpliceElements
<1>. HIDE DEF t
<1>2. SUFFICES ASSUME NEW k \in 1..Len(t), NEW l \in 1..Len(t), t[k] = t[l]
               PROVE  k = l
  BY DEF Distinct, t
<1> DEFINE D == i..(i + Len(m) - 1)
<1>3. \A n \in 1..Len(t) :
        \/ n \in D /\ n - i + 1 \in 1..Len(m) /\ t[n] = m[n - i + 1]
        \/ n \notin D /\ At(n) \in 1..Len(s) /\ t[n] = s[At(n)]
  BY <1>0, <1>1, SMTT(20)
<1>4. At(k) = At(l) /\ k \notin D /\ l \notin D => k = l
  BY <1>0, <1>1
<1>. HIDE DEF At, D
<1>5. CASE k \in D /\ l \in D
  <2>1. k - i + 1 = l - i + 1
    BY <1>2, <1>3, <1>5 DEF Distinct
  <2>. QED BY <1>0, <1>1, <2>1
<1>6. CASE k \notin D /\ l \notin D
  <2>1. At(k) = At(l)
    BY <1>2, <1>3, <1>6 DEF Distinct
  <2>. QED BY <1>4, <1>6, <2>1
<1>7. CASE ~(k \in D <=> l \in D)
  BY <1>2, <1>3, <1>7
<1>. QED BY <1>5, <1>6, <1>7

---------------------------------------------------------------------------
(* A set of naturals has a least: by it a walk of an array is reasoned about *)
(* from its first turn that would go wrong.                                  *)
LEMMA NatLeast ==
  ASSUME NEW S \in SUBSET Nat, S # {}
  PROVE  \E m \in S : \A n \in S : m =< n
<1>1. \E m \in S : \A n \in S : ~(<<n, m>> \in OpToRel(<, Nat))
  BY WFMin, NatLessThanWellFounded
<1>2. PICK m \in S : \A n \in S : ~(n < m)
  BY <1>1 DEF OpToRel
<1>. QED BY <1>2

\* The turns of the loop that writes an array out.
Joins(f, s) == f = [i \in 1..Len(s) |-> IF i = 1 THEN s[i] ELSE f[i - 1] \o s[i]]

(* They are what the concatenation is.                                       *)
LEMMA ConcatenatedIs ==
  ASSUME NEW T, NEW s \in Seq(T), Len(s) > 0
  PROVE  \E f : Joins(f, s) /\ Concatenated(s) = f[Len(s)]
<1>0. Len(s) \in Nat
  OBVIOUS
<1> DEFINE Part(g, n) == g = [i \in 1..n |-> IF i = 1 THEN s[i] ELSE g[i - 1] \o s[i]]
           Bad == {n \in 0..Len(s) : ~\E g : Part(g, n)}
<1>1. Bad = {}
  <2>. SUFFICES ASSUME Bad # {} PROVE FALSE
    OBVIOUS
  <2>1. PICK m \in Bad : \A n \in Bad : m =< n
    <3>. HIDE DEF Part
    <3>1. Bad \in SUBSET Nat
      OBVIOUS
    <3>. HIDE DEF Bad
    <3>. QED BY <3>1, NatLeast
  <2>2. CASE m = 0
    <3>1. Part([i \in 1..0 |-> 0], 0)
      OBVIOUS
    <3>. QED BY <2>2, <3>1
  <2>3. CASE m # 0
    <3>1. m - 1 \in 0..Len(s) /\ m - 1 \notin Bad /\ m \in Nat
      <4>. HIDE DEF Part
      <4>1. m - 1 \in 0..Len(s)
        BY <2>3
      <4>2. m - 1 \notin Bad
        <5>. HIDE DEF Bad
        <5>1. m \in Int
          BY <4>1 DEF Bad
        <5>. QED BY <2>1, <5>1
      <4>. QED BY <4>1, <4>2
    <3>2. PICK g : Part(g, m - 1)
      <4>. HIDE DEF Part
      <4>. QED BY <3>1
    <3> DEFINE h == [i \in 1..m |-> IF i = 1 THEN s[i] ELSE g[i - 1] \o s[i]]
    <3>3. ASSUME NEW i \in 1..(m - 1)
          PROVE  h[i] = g[i]
      <4>1. i \in 1..m
        BY <3>1
      <4>2. h[i] = IF i = 1 THEN s[i] ELSE g[i - 1] \o s[i]
        BY <4>1
      <4>3. g[i] = IF i = 1 THEN s[i] ELSE g[i - 1] \o s[i]
        BY <3>2, Zenon
      <4>. QED BY <4>2, <4>3
    <3>4. Part(h, m)
      <4>1. \A i \in 1..m : i # 1 => i - 1 \in 1..(m - 1)
        BY <3>1
      <4>. QED BY <3>3, <4>1
    <3>. HIDE DEF Part, h
    <3>. QED BY <3>4
  <2>. QED BY <2>2, <2>3
<1>2. \E g : Part(g, Len(s))
  <2>. HIDE DEF Part
  <2>. QED BY <1>0, <1>1
<1> DEFINE f == CHOOSE g : Part(g, Len(s))
<1>3. Part(f, Len(s))
  <2>. HIDE DEF Part
  <2>. QED BY <1>2
<1>4. Concatenated(s) = f[Len(s)]
  BY <1>0 DEF Concatenated, SE!FlattenSeq
<1>. HIDE DEF f
<1>. QED BY <1>3, <1>4 DEF Joins

(* Nothing writes nothing.                                                   *)
LEMMA ConcatenatedEmpty ==
  ASSUME NEW T, NEW s \in Seq(T), Len(s) = 0
  PROVE  Concatenated(s) = <<>>
<1>1. s = <<>>
  OBVIOUS
<1>. QED BY <1>1 DEF Concatenated, SE!FlattenSeq

(* One more element is joined at the end.                                    *)
LEMMA ConcatenatedAppend ==
  ASSUME NEW T, NEW s \in Seq(Seq(T)), NEW x \in Seq(T)
  PROVE  Concatenated(Append(s, x)) = Concatenated(s) \o x
<1> DEFINE n == Len(s)
           t == Append(s, x)
<1>1. /\ n \in Nat /\ t \in Seq(Seq(T)) /\ Len(t) = n + 1 /\ t[n + 1] = x
      /\ \A i \in 1..n : t[i] = s[i]
  OBVIOUS
<1>. HIDE DEF t
<1>2. PICK g : Joins(g, t) /\ Concatenated(t) = g[n + 1]
  <2>1. Len(t) > 0
    BY <1>1
  <2>. QED BY <1>1, <2>1, ConcatenatedIs DEF Concatenated
<1>3. ASSUME NEW i \in 1..(n + 1)
      PROVE  g[i] = IF i = 1 THEN t[i] ELSE g[i - 1] \o t[i]
  <2>1. g = [k \in 1..(n + 1) |-> IF k = 1 THEN t[k] ELSE g[k - 1] \o t[k]]
    BY <1>1, <1>2 DEF Joins
  <2>. QED BY <2>1, Zenon
<1>4. CASE n = 0
  <2>1. Concatenated(s) = <<>>
    BY <1>4, ConcatenatedEmpty
  <2>2. Concatenated(t) = x
    BY <1>1, <1>2, <1>3, <1>4
  <2>3. <<>> \o x = x
    BY ConcatEmptySeq
  <2>. QED BY <2>1, <2>2, <2>3 DEF t
<1>5. CASE n > 0
  <2>1. PICK f : Joins(f, s) /\ Concatenated(s) = f[n]
    BY <1>5, ConcatenatedIs DEF Concatenated
  <2>2. ASSUME NEW i \in 1..n
        PROVE  f[i] = IF i = 1 THEN s[i] ELSE f[i - 1] \o s[i]
    <3>1. f = [k \in 1..n |-> IF k = 1 THEN s[k] ELSE f[k - 1] \o s[k]]
      BY <2>1 DEF Joins
    <3>. QED BY <3>1, Zenon
  <2> DEFINE Bad == {i \in 1..n : f[i] # g[i]}
  <2>3. Bad = {}
    <3>. SUFFICES ASSUME Bad # {} PROVE FALSE
      OBVIOUS
    <3>1. Bad \in SUBSET Nat
      BY <1>1
    <3>2. PICK m \in Bad : \A i \in Bad : m =< i
      <4>. HIDE DEF Bad
      <4>. QED BY <3>1, NatLeast
    <3>3. m \in 1..n /\ f[m] # g[m] /\ m \in 1..(n + 1)
      BY <1>1
    <3>4. m # 1
      BY <1>1, <1>3, <2>2, <3>3
    <3>5. m - 1 \in 1..n /\ ~(m =< m - 1)
      BY <1>1, <3>3, <3>4, SMTT(20)
    <3>6. f[m - 1] = g[m - 1]
      BY <3>2, <3>5
    <3>7. f[m] = f[m - 1] \o s[m] /\ g[m] = g[m - 1] \o t[m]
      BY <1>3, <2>2, <3>3, <3>4
    <3>8. t[m] = s[m]
      BY <1>1, <3>3
    <3>. QED BY <3>3, <3>6, <3>7, <3>8
  <2>4. n \in 1..n /\ n + 1 \in 1..(n + 1) /\ n + 1 # 1 /\ (n + 1) - 1 = n
    BY <1>1, <1>5
  <2>5. f[n] = g[n]
    BY <2>3, <2>4
  <2>6. g[n + 1] = g[n] \o x
    BY <1>1, <1>3, <2>4
  <2>. QED BY <1>2, <2>1, <2>5, <2>6 DEF t
<1>. QED BY <1>1, <1>4, <1>5

(* Sequences of elements of T write a sequence of elements of T.             *)
LEMMA ConcatenatedTyped ==
  ASSUME NEW T, NEW s \in Seq(Seq(T))
  PROVE  Concatenated(s) \in Seq(T)
<1> DEFINE n == Len(s)
<1>1. n \in Nat
  OBVIOUS
<1>2. CASE n = 0
  <2>1. Concatenated(s) = <<>>
    BY <1>2, ConcatenatedEmpty
  <2>. QED BY <2>1
<1>3. CASE n > 0
  <2>1. PICK f : Joins(f, s) /\ Concatenated(s) = f[n]
    BY <1>3, ConcatenatedIs DEF Concatenated
  <2>2. ASSUME NEW i \in 1..n
        PROVE  f[i] = IF i = 1 THEN s[i] ELSE f[i - 1] \o s[i]
    <3>1. f = [k \in 1..n |-> IF k = 1 THEN s[k] ELSE f[k - 1] \o s[k]]
      BY <2>1 DEF Joins
    <3>. QED BY <3>1, Zenon
  <2> DEFINE Bad == {i \in 1..n : f[i] \notin Seq(T)}
  <2>3. Bad = {}
    <3>. SUFFICES ASSUME Bad # {} PROVE FALSE
      OBVIOUS
    <3>1. Bad \in SUBSET Nat
      BY <1>1
    <3>2. PICK m \in Bad : \A i \in Bad : m =< i
      <4>. HIDE DEF Bad
      <4>. QED BY <3>1, NatLeast
    <3>3. m \in 1..n /\ f[m] \notin Seq(T) /\ s[m] \in Seq(T)
      BY <1>1
    <3>4. m # 1
      BY <1>1, <2>2, <3>3
    <3>5. m - 1 \in 1..n /\ ~(m =< m - 1)
      BY <1>1, <3>3, <3>4
    <3>6. f[m - 1] \in Seq(T)
      BY <3>2, <3>5
    <3>7. f[m] = f[m - 1] \o s[m]
      BY <2>2, <3>3, <3>4
    <3>. QED BY <3>3, <3>6, <3>7, ConcatProperties
  <2>. QED BY <1>1, <1>3, <2>1, <2>3
<1>. QED BY <1>1, <1>2, <1>3

(* Joining is associative.                                                   *)
LEMMA ConcatThree ==
  ASSUME NEW S, NEW a \in Seq(S), NEW b \in Seq(S), NEW c \in Seq(S)
  PROVE  (a \o b) \o c = a \o (b \o c)
OBVIOUS

(* What is joined of two arrays is what is joined of each.                   *)
LEMMA ConcatenatedParts ==
  ASSUME NEW T, NEW s \in Seq(Seq(T)), NEW t \in Seq(Seq(T))
  PROVE  Concatenated(s \o t) = Concatenated(s) \o Concatenated(t)
<1> DEFINE p(n) == SubSeq(t, 1, n)
           Bad == {n \in 0..Len(t) : Concatenated(s \o p(n)) # Concatenated(s) \o Concatenated(p(n))}
<1>1. Len(t) \in Nat /\ \A n \in 0..Len(t) : p(n) \in Seq(Seq(T)) /\ Len(p(n)) = n
  OBVIOUS
<1>2. Bad = {}
  <2>. SUFFICES ASSUME Bad # {} PROVE FALSE
    OBVIOUS
  <2>1. Bad \in SUBSET Nat
    BY <1>1
  <2>2. PICK m \in Bad : \A i \in Bad : m =< i
    <3>. HIDE DEF Bad
    <3>. QED BY <2>1, NatLeast
  <2>3. m \in 0..Len(t) /\ Concatenated(s \o p(m)) # Concatenated(s) \o Concatenated(p(m))
    OBVIOUS
  <2>4. CASE m = 0
    <3>1. p(m) = <<>>
      BY <2>4
    <3>3. Concatenated(p(m)) = <<>>
      BY <3>1 DEF Concatenated, SE!FlattenSeq
    <3>2. s \o <<>> = s /\ Concatenated(s) \o <<>> = Concatenated(s)
      BY ConcatEmptySeq, ConcatenatedTyped
    <3>. QED BY <2>3, <3>1, <3>2, <3>3
  <2>5. CASE m # 0
    <3>1. m - 1 \in 0..Len(t) /\ ~(m =< m - 1) /\ m \in 1..Len(t)
      BY <1>1, <2>3, <2>5
    <3> DEFINE a == p(m - 1)
               x == t[m]
    <3>2. Concatenated(s \o a) = Concatenated(s) \o Concatenated(a)
      BY <2>2, <3>1
    <3>3. a \in Seq(Seq(T)) /\ x \in Seq(T)
      BY <1>1, <3>1
    <3>4. p(m) = Append(a, x)
      <4>1. p(m) = a \o <<x>>
        BY <3>1, SubSeqRecursiveSecond, SMTT(20)
      <4>. HIDE DEF a, x
      <4>. QED BY <3>3, <4>1, AppendIsConcat
    <3>. HIDE DEF a, x, p, Bad
    <3>5. s \o p(m) = Append(s \o a, x)
      <4>1. <<x>> \in Seq(Seq(T)) /\ s \in Seq(Seq(T))
        BY <3>3
      <4>2. s \o (a \o <<x>>) = (s \o a) \o <<x>>
        BY <3>3, <4>1, ConcatThree
      <4>3. s \o a \in Seq(Seq(T))
        BY <3>3, ConcatProperties
      <4>. QED BY <3>3, <3>4, <4>2, <4>3, AppendIsConcat
    <3>6. Concatenated(s \o p(m)) = (Concatenated(s) \o Concatenated(a)) \o x
      <4>1. s \o a \in Seq(Seq(T))
        BY <3>3, ConcatProperties
      <4>. QED BY <3>2, <3>3, <3>5, <4>1, ConcatenatedAppend
    <3>7. Concatenated(p(m)) = Concatenated(a) \o x
      BY <3>3, <3>4, ConcatenatedAppend
    <3>8. (Concatenated(s) \o Concatenated(a)) \o x = Concatenated(s) \o (Concatenated(a) \o x)
      <4>1. Concatenated(s) \in Seq(T) /\ Concatenated(a) \in Seq(T) /\ x \in Seq(T)
        BY <3>3, ConcatenatedTyped
      <4>. QED BY <4>1, ConcatThree, SMTT(20)
    <3>. QED BY <2>3, <3>6, <3>7, <3>8
  <2>. QED BY <2>4, <2>5
<1>3. p(Len(t)) = t
  BY SubSeqFull
<1>4. Len(t) \in 0..Len(t)
  BY <1>1
<1>. QED BY <1>2, <1>3, <1>4
---------------------------------------------------------------------------
(* Columns.                                                                  *)

(* A blank moves the column on.                                              *)
LEMMA ColumnGrows ==
  ASSUME NEW col \in Nat, NEW blank
  PROVE  NextColumn(col, blank) \in Nat /\ NextColumn(col, blank) > col
<1>1. CASE blank = TabByte /\ Tab > 0
  <2>1. Tab \in Nat /\ Tab > 0
    BY <1>1, FramesAssumption
  <2>2. col % Tab \in 0..(Tab - 1)
    BY <2>1
  <2> DEFINE rest == col % Tab
  <2>3. NextColumn(col, blank) = col + (Tab - rest)
    BY <1>1 DEF NextColumn
  <2>4. rest \in Nat /\ rest < Tab
    BY <2>1, <2>2
  <2>. HIDE DEF rest
  <2>. QED BY <2>1, <2>3, <2>4
<1>2. CASE ~(blank = TabByte /\ Tab > 0)
  <2>1. NextColumn(col, blank) = col + 1
    BY <1>2 DEF NextColumn
  <2>. QED BY <2>1
<1>. QED BY <1>1, <1>2

\* The turns of column's loop.
Widens(c, ws) ==
  c = [k \in 0..Len(ws) |-> IF k = 0 THEN 0 ELSE NextColumn(c[k - 1], ws[k])]

(* They are what the column is.                                              *)
LEMMA ColumnIs ==
  ASSUME NEW T, NEW ws \in Seq(T)
  PROVE  \E c : Widens(c, ws) /\ Column(ws) = c[Len(ws)]
<1>0. Len(ws) \in Nat
  OBVIOUS
<1> DEFINE Part(g, n) == g = [k \in 0..n |-> IF k = 0 THEN 0 ELSE NextColumn(g[k - 1], ws[k])]
           Bad == {n \in 0..Len(ws) : ~\E g : Part(g, n)}
<1>1. Bad = {}
  <2>. SUFFICES ASSUME Bad # {} PROVE FALSE
    OBVIOUS
  <2>1. PICK m \in Bad : \A n \in Bad : m =< n
    <3>. HIDE DEF Part
    <3>1. Bad \in SUBSET Nat
      OBVIOUS
    <3>. HIDE DEF Bad
    <3>. QED BY <3>1, NatLeast
  <2>2. CASE m = 0
    <3>1. Part([k \in 0..0 |-> 0], 0)
      OBVIOUS
    <3>. QED BY <2>2, <3>1
  <2>3. CASE m # 0
    <3>1. m - 1 \in 0..Len(ws) /\ m - 1 \notin Bad /\ m \in Nat
      <4>. HIDE DEF Part
      <4>1. m - 1 \in 0..Len(ws)
        BY <2>3
      <4>2. m - 1 \notin Bad
        <5>. HIDE DEF Bad
        <5>1. m \in Int
          BY <4>1 DEF Bad
        <5>. QED BY <2>1, <5>1
      <4>. QED BY <4>1, <4>2
    <3>2. PICK g : Part(g, m - 1)
      <4>. HIDE DEF Part
      <4>. QED BY <3>1
    <3> DEFINE h == [k \in 0..m |-> IF k = 0 THEN 0 ELSE NextColumn(g[k - 1], ws[k])]
    <3>3. ASSUME NEW k \in 0..(m - 1)
          PROVE  h[k] = g[k]
      <4>1. k \in 0..m
        BY <3>1
      <4>2. h[k] = IF k = 0 THEN 0 ELSE NextColumn(g[k - 1], ws[k])
        BY <4>1
      <4>3. g[k] = IF k = 0 THEN 0 ELSE NextColumn(g[k - 1], ws[k])
        BY <3>2, Zenon
      <4>. QED BY <4>2, <4>3
    <3>4. Part(h, m)
      <4>1. \A k \in 0..m : k # 0 => k - 1 \in 0..(m - 1)
        BY <3>1
      <4>. QED BY <3>3, <4>1
    <3>. HIDE DEF Part, h
    <3>. QED BY <3>4
  <2>. QED BY <2>2, <2>3
<1>2. \E g : Part(g, Len(ws))
  <2>. HIDE DEF Part
  <2>. QED BY <1>0, <1>1
<1> DEFINE c == CHOOSE g : Part(g, Len(ws))
<1>3. Part(c, Len(ws))
  <2>. HIDE DEF Part
  <2>. QED BY <1>2
<1>4. Column(ws) = c[Len(ws)]
  BY DEF Column
<1>. HIDE DEF c
<1>. QED BY <1>3, <1>4 DEF Widens

(* The column of any blanks is a natural; of none, the first column.         *)
LEMMA ColumnTyped ==
  ASSUME NEW T, NEW ws \in Seq(T)
  PROVE  Column(ws) \in Nat /\ (Len(ws) = 0 => Column(ws) = 0)
<1> DEFINE n == Len(ws)
<1>1. n \in Nat
  OBVIOUS
<1>2. PICK c : Widens(c, ws) /\ Column(ws) = c[n]
  BY ColumnIs
<1>3. ASSUME NEW k \in 0..n
      PROVE  c[k] = IF k = 0 THEN 0 ELSE NextColumn(c[k - 1], ws[k])
  <2>1. c = [j \in 0..n |-> IF j = 0 THEN 0 ELSE NextColumn(c[j - 1], ws[j])]
    BY <1>2 DEF Widens
  <2>. QED BY <2>1, Zenon
<1> DEFINE Bad == {k \in 0..n : c[k] \notin Nat}
<1>4. Bad = {}
  <2>. SUFFICES ASSUME Bad # {} PROVE FALSE
    OBVIOUS
  <2>1. Bad \in SUBSET Nat
    BY <1>1
  <2>2. PICK m \in Bad : \A k \in Bad : m =< k
    <3>. HIDE DEF Bad
    <3>. QED BY <2>1, NatLeast
  <2>3. m \in 0..n /\ c[m] \notin Nat
    OBVIOUS
  <2>4. m # 0
    BY <1>3, <2>3
  <2>5. m - 1 \in 0..n /\ ~(m =< m - 1)
    BY <1>1, <2>3, <2>4
  <2>6. c[m - 1] \in Nat
    BY <2>2, <2>5
  <2>7. c[m] = NextColumn(c[m - 1], ws[m])
    BY <1>3, <2>3, <2>4
  <2>. QED BY <2>3, <2>6, <2>7, ColumnGrows
<1>5. n \in 0..n /\ 0 \in 0..n
  BY <1>1
<1>6. n = 0 => c[n] = 0
  BY <1>3, <1>5
<1>. QED BY <1>2, <1>4, <1>5, <1>6

---------------------------------------------------------------------------
(* What a line leaves open.                                                  *)

(* A set of naturals below a bound has a greatest.                           *)
LEMMA NatGreatest ==
  ASSUME NEW n \in Nat, NEW S \in SUBSET (1..n), S # {}
  PROVE  FE!Max(S) \in S /\ \A k \in S : k =< FE!Max(S)
<1> DEFINE D == {n - k : k \in S}
<1>1. D \in SUBSET Nat /\ D # {}
  <2>1. \A k \in S : n - k \in Nat
    OBVIOUS
  <2>2. \E k \in S : n - k \in D
    OBVIOUS
  <2>. QED BY <2>1, <2>2
<1>2. PICK d \in D : \A e \in D : d =< e
  <2>. HIDE DEF D
  <2>. QED BY <1>1, NatLeast
<1>3. PICK m \in S : d = n - m
  <2>1. d \in {n - k : k \in S}
    BY <1>2
  <2>. QED BY <2>1, Zenon
<1>4. \A k \in S : m >= k
  BY <1>2, <1>3
<1>. QED BY <1>4 DEF FE!Max

(* Of the open columns, those up to the last that is smaller are kept, and   *)
(* the first always.                                                         *)
LEMMA KeptIs ==
  ASSUME NEW cols \in Seq(Int), NEW col \in Int
  PROVE  /\ cols = <<>> => Kept(cols, col) = 0
         /\ cols # <<>> =>
              /\ Kept(cols, col) \in 1..Len(cols)
              /\ Kept(cols, col) = 1 \/ cols[Kept(cols, col)] < col
              /\ \A k \in 1..Len(cols) : k > Kept(cols, col) => cols[k] >= col
<1>1. CASE cols = <<>>
  BY <1>1 DEF Kept
<1>2. CASE cols # <<>>
  <2> DEFINE S == {k \in 1..Len(cols) : k = 1 \/ cols[k] < col}
  <2>1. Len(cols) \in Nat /\ 1 \in 1..Len(cols)
    BY <1>2
  <2>2. S \in SUBSET (1..Len(cols)) /\ S # {}
    BY <2>1
  <2>3. Kept(cols, col) = FE!Max(S)
    BY <1>2 DEF Kept
  <2>4. Kept(cols, col) \in S /\ \A k \in S : k =< Kept(cols, col)
    <3>. HIDE DEF S
    <3>. QED BY <2>1, <2>2, <2>3, NatGreatest
  <2>5. Kept(cols, col) \in 1..Len(cols)
        /\ (Kept(cols, col) = 1 \/ cols[Kept(cols, col)] < col)
    BY <2>4
  <2>6. ASSUME NEW k \in 1..Len(cols), k > Kept(cols, col)
        PROVE  cols[k] >= col
    <3>1. k \notin S
      BY <2>4, <2>5, <2>6
    <3>2. ~(cols[k] < col) /\ cols[k] \in Int
      BY <3>1
    <3>. QED BY <3>2
  <2>. QED BY <1>2, <2>5, <2>6
<1>. QED BY <1>1, <1>2

---------------------------------------------------------------------------
(* The walk.                                                                 *)

FreshWalk(nodes) ==
  [info |-> [id \in {nodes[i].id : i \in FramePlaces(nodes)} |-> NoLinks], stack |-> <<>>]

\* The turns of rebuild's loop.
Turns(w, nodes) ==
  w = [k \in 0..Len(nodes) |-> IF k = 0 THEN FreshWalk(nodes) ELSE VisitNode(w[k - 1], nodes[k])]

(* They are what the walk is.                                                *)
LEMMA WalkIs ==
  ASSUME NEW nodes, Len(nodes) \in Nat
  PROVE  \E w : Turns(w, nodes) /\ WalkFrames(nodes) = w[Len(nodes)]
<1> DEFINE Part(g, n) ==
             g = [k \in 0..n |-> IF k = 0 THEN FreshWalk(nodes) ELSE VisitNode(g[k - 1], nodes[k])]
           Bad == {n \in 0..Len(nodes) : ~\E g : Part(g, n)}
<1>1. Bad = {}
  <2>. SUFFICES ASSUME Bad # {} PROVE FALSE
    OBVIOUS
  <2>1. PICK m \in Bad : \A n \in Bad : m =< n
    <3>. HIDE DEF Part
    <3>1. Bad \in SUBSET Nat
      OBVIOUS
    <3>. HIDE DEF Bad
    <3>. QED BY <3>1, NatLeast
  <2>2. CASE m = 0
    <3>1. Part([k \in 0..0 |-> FreshWalk(nodes)], 0)
      OBVIOUS
    <3>. QED BY <2>2, <3>1
  <2>3. CASE m # 0
    <3>1. m - 1 \in 0..Len(nodes) /\ m - 1 \notin Bad /\ m \in Nat
      <4>. HIDE DEF Part
      <4>1. m - 1 \in 0..Len(nodes)
        BY <2>3
      <4>2. m - 1 \notin Bad
        <5>. HIDE DEF Bad
        <5>1. m \in Int
          BY <4>1 DEF Bad
        <5>. QED BY <2>1, <5>1
      <4>. QED BY <4>1, <4>2
    <3>2. PICK g : Part(g, m - 1)
      <4>. HIDE DEF Part
      <4>. QED BY <3>1
    <3> DEFINE h == [k \in 0..m |-> IF k = 0 THEN FreshWalk(nodes) ELSE VisitNode(g[k - 1], nodes[k])]
    <3>3. ASSUME NEW k \in 0..(m - 1)
          PROVE  h[k] = g[k]
      <4>1. k \in 0..m
        BY <3>1
      <4>2. h[k] = IF k = 0 THEN FreshWalk(nodes) ELSE VisitNode(g[k - 1], nodes[k])
        BY <4>1
      <4>3. g[k] = IF k = 0 THEN FreshWalk(nodes) ELSE VisitNode(g[k - 1], nodes[k])
        BY <3>2, Zenon
      <4>. QED BY <4>2, <4>3
    <3>4. Part(h, m)
      <4>1. \A k \in 0..m : k # 0 => k - 1 \in 0..(m - 1)
        BY <3>1
      <4>. QED BY <3>3, <4>1
    <3>. HIDE DEF Part, h
    <3>. QED BY <3>4
  <2>. QED BY <2>2, <2>3
<1>2. \E g : Part(g, Len(nodes))
  <2>. HIDE DEF Part
  <2>. QED BY <1>1
<1> DEFINE w == CHOOSE g : Part(g, Len(nodes))
<1>3. Part(w, Len(nodes))
  <2>. HIDE DEF Part
  <2>. QED BY <1>2
<1>4. WalkFrames(nodes) = w[Len(nodes)]
  BY DEF WalkFrames, FreshWalk
<1>. HIDE DEF w
<1>. QED BY <1>3, <1>4 DEF Turns

(* A turn of it.                                                             *)
LEMMA TurnIs ==
  ASSUME NEW nodes, Len(nodes) \in Nat, NEW w, Turns(w, nodes)
  PROVE  /\ w[0] = FreshWalk(nodes)
         /\ \A k \in 1..Len(nodes) : w[k] = VisitNode(w[k - 1], nodes[k])
<1>1. ASSUME NEW k \in 0..Len(nodes)
      PROVE  w[k] = IF k = 0 THEN FreshWalk(nodes) ELSE VisitNode(w[k - 1], nodes[k])
  <2>1. w = [j \in 0..Len(nodes) |-> IF j = 0 THEN FreshWalk(nodes) ELSE VisitNode(w[j - 1], nodes[j])]
    BY DEF Turns
  <2>. QED BY <2>1, Zenon
<1>2. 0 \in 0..Len(nodes) /\ \A k \in 1..Len(nodes) : k \in 0..Len(nodes) /\ k # 0
  OBVIOUS
<1>3. w[0] = FreshWalk(nodes)
  BY <1>1, <1>2
<1>4. ASSUME NEW k \in 1..Len(nodes)
      PROVE  w[k] = VisitNode(w[k - 1], nodes[k])
  BY <1>1, <1>2
<1>. QED BY <1>3, <1>4

\* Two arrays have the same frames up to a place.
SameFrames(nodes, other, n) ==
  \A i \in 1..n :
    /\ nodes[i].kind = "Indent" <=> other[i].kind = "Indent"
    /\ nodes[i].kind = "Indent" => nodes[i].id = other[i].id /\ nodes[i].text = other[i].text

(* The frames a walk holds open at a place follow from the frames up to it.  *)
LEMMA StackFollows ==
  ASSUME NEW nodes, Len(nodes) \in Nat, NEW other, Len(other) \in Nat,
         NEW n \in Nat, n =< Len(nodes), n =< Len(other), SameFrames(nodes, other, n),
         NEW w, Turns(w, nodes), NEW v, Turns(v, other)
  PROVE  w[n].stack = v[n].stack
<1>1. /\ w[0] = FreshWalk(nodes) /\ v[0] = FreshWalk(other)
      /\ \A k \in 1..n : w[k] = VisitNode(w[k - 1], nodes[k]) /\ v[k] = VisitNode(v[k - 1], other[k])
  <2>1. \A k \in 1..n : k \in 1..Len(nodes) /\ k \in 1..Len(other)
    OBVIOUS
  <2>. QED BY <2>1, TurnIs
<1> DEFINE Bad == {k \in 0..n : w[k].stack # v[k].stack}
<1>2. Bad = {}
  <2>. SUFFICES ASSUME Bad # {} PROVE FALSE
    OBVIOUS
  <2>1. Bad \in SUBSET Nat
    OBVIOUS
  <2>2. PICK m \in Bad : \A k \in Bad : m =< k
    <3>. HIDE DEF Bad
    <3>. QED BY <2>1, NatLeast
  <2>3. m \in 0..n /\ w[m].stack # v[m].stack
    OBVIOUS
  <2>4. m # 0
    BY <1>1, <2>3 DEF FreshWalk
  <2>5. m \in 1..n /\ m - 1 \in 0..n /\ ~(m =< m - 1)
    BY <2>3, <2>4
  <2>6. w[m - 1].stack = v[m - 1].stack
    BY <2>2, <2>5
  <2>7. w[m] = VisitNode(w[m - 1], nodes[m]) /\ v[m] = VisitNode(v[m - 1], other[m])
    BY <1>1, <2>5
  <2> DEFINE a == nodes[m]
             b == other[m]
  <2>8. /\ a.kind = "Indent" <=> b.kind = "Indent"
        /\ a.kind = "Indent" => a.id = b.id /\ a.text = b.text
    BY <2>5 DEF SameFrames
  <2>. HIDE DEF a, b
  <2>9. VisitNode(w[m - 1], a).stack = VisitNode(v[m - 1], b).stack
    BY <2>6, <2>8 DEF VisitNode, Place
  <2>. QED BY <2>3, <2>7, <2>9 DEF a, b
<1>3. n \in 0..n
  OBVIOUS
<1>. QED BY <1>2, <1>3

(* Nodes that are no frames add none.                                        *)
LEMMA StackStays ==
  ASSUME NEW nodes, Len(nodes) \in Nat, NEW w, Turns(w, nodes),
         NEW n \in 0..Len(nodes), \A i \in (n + 1)..Len(nodes) : nodes[i].kind # "Indent"
  PROVE  w[Len(nodes)] = w[n]
<1> DEFINE L == Len(nodes)
           Bad == {k \in n..L : w[k] # w[n]}
<1>1. \A k \in 1..L : w[k] = VisitNode(w[k - 1], nodes[k])
  BY TurnIs
<1>2. Bad = {}
  <2>. SUFFICES ASSUME Bad # {} PROVE FALSE
    OBVIOUS
  <2>1. Bad \in SUBSET Nat
    OBVIOUS
  <2>2. PICK m \in Bad : \A k \in Bad : m =< k
    <3>. HIDE DEF Bad
    <3>. QED BY <2>1, NatLeast
  <2>3. m \in n..L /\ w[m] # w[n]
    OBVIOUS
  <2>4. m \in (n + 1)..L /\ m \in 1..L /\ m - 1 \in n..L /\ ~(m =< m - 1)
    BY <2>3
  <2>5. w[m - 1] = w[n]
    BY <2>2, <2>4
  <2>6. w[m] = w[m - 1]
    BY <1>1, <2>4 DEF VisitNode
  <2>. QED BY <2>3, <2>5, <2>6
<1>3. L \in n..L
  OBVIOUS
<1>. QED BY <1>2, <1>3

(* What is open after the whole array follows from its frames: one more      *)
(* closes and opens, and nodes that are no frames change nothing.            *)
LEMMA OpenAfter ==
  ASSUME NEW nodes, Len(nodes) \in Nat, NEW other, Len(other) \in Nat,
         NEW n \in Nat, n =< Len(nodes), n =< Len(other), SameFrames(nodes, other, n),
         \A i \in (n + 1)..Len(nodes) : nodes[i].kind # "Indent"
  PROVE  /\ (\A i \in (n + 1)..Len(other) : other[i].kind # "Indent")
              => WalkFrames(other).stack = WalkFrames(nodes).stack
         /\ (Len(other) = n + 1 /\ other[n + 1].kind = "Indent")
              => \A col \in {Column(other[n + 1].text)} :
                   WalkFrames(other).stack =
                     Append(LeftOpen(WalkFrames(nodes).stack, col),
                            [id |-> other[n + 1].id, col |-> col])
<1>1. PICK w : Turns(w, nodes) /\ WalkFrames(nodes) = w[Len(nodes)]
  BY WalkIs
<1>2. PICK v : Turns(v, other) /\ WalkFrames(other) = v[Len(other)]
  BY WalkIs
<1>3. w[n].stack = v[n].stack /\ w[Len(nodes)] = w[n]
  BY <1>1, <1>2, StackFollows, StackStays
<1>4. ASSUME \A i \in (n + 1)..Len(other) : other[i].kind # "Indent"
      PROVE  WalkFrames(other).stack = WalkFrames(nodes).stack
  <2>1. v[Len(other)] = v[n]
    BY <1>2, <1>4, StackStays
  <2>. QED BY <1>1, <1>2, <1>3, <2>1
<1>5. ASSUME Len(other) = n + 1, other[n + 1].kind = "Indent",
             NEW col, col = Column(other[n + 1].text)
      PROVE  WalkFrames(other).stack =
               Append(LeftOpen(WalkFrames(nodes).stack, col),
                      [id |-> other[n + 1].id, col |-> col])
  <2>1. v[n + 1] = VisitNode(v[n], other[n + 1])
    <3>1. n + 1 \in 1..Len(other) /\ (n + 1) - 1 = n
      BY <1>5
    <3>. QED BY <1>2, <3>1, TurnIs
  <2> DEFINE s == v[n]
             x == other[n + 1]
  <2>2. VisitNode(s, x).stack = Append(LeftOpen(s.stack, col), [id |-> x.id, col |-> col])
    <3>1. x.kind = "Indent" /\ col = Column(x.text)
      BY <1>5
    <3>. HIDE DEF s, x
    <3>. QED BY <3>1 DEF VisitNode, Place
  <2>. QED BY <1>1, <1>2, <1>3, <1>5, <2>1, <2>2
<1>. QED BY <1>4, <1>5

---------------------------------------------------------------------------
(* Parents.                                                                  *)

\* Nodes told apart by their ids, with columns.
Told(nodes) ==
  /\ Len(nodes) \in Nat
  /\ \A i, j \in 1..Len(nodes) : nodes[i].id = nodes[j].id => i = j
  /\ \A i \in 1..Len(nodes) : nodes[i].id # NoFrame /\ Column(nodes[i].text) \in Nat

Ids(nodes) == {nodes[i].id : i \in FramePlaces(nodes)}

ColAt(nodes, i) == Column(nodes[i].text)

\* The frames up to a place.
UpTo(nodes, k) == {i \in FramePlaces(nodes) : i =< k}

FrameOf(nodes, i) == [id |-> nodes[i].id, col |-> ColAt(nodes, i)]

\* The stack holds the frames at some places, in their order: the first frame
\* at its bottom, and for every frame passed one at or after it that is no
\* deeper.
HoldsAt(nodes, k, stack, at) ==
  /\ at \in Seq(UpTo(nodes, k))
  /\ stack = [q \in 1..Len(at) |-> FrameOf(nodes, at[q])]
  /\ \A q, r \in 1..Len(at) : q < r => at[q] < at[r]
  /\ UpTo(nodes, k) # {} => at # <<>> /\ \A i \in UpTo(nodes, k) : at[1] =< i
  /\ \A i \in UpTo(nodes, k) :
       \E q \in 1..Len(at) : i =< at[q] /\ ColAt(nodes, at[q]) =< ColAt(nodes, i)

\* The frame at j is the nearest before the one at i with a smaller column, or
\* the first of all where there is none.
Encloses(nodes, j, i) ==
  /\ j \in UpTo(nodes, i - 1)
  /\ \/ /\ ColAt(nodes, j) < ColAt(nodes, i)
        /\ \A l \in UpTo(nodes, i - 1) : ColAt(nodes, l) < ColAt(nodes, i) => l =< j
     \/ /\ \A l \in UpTo(nodes, i - 1) : ~(ColAt(nodes, l) < ColAt(nodes, i))
        /\ \A l \in UpTo(nodes, i - 1) : j =< l

(* A frame more: what is left open ends with the frame that encloses it.     *)
LEMMA FrameHolds ==
  ASSUME NEW nodes, Told(nodes), NEW k \in FramePlaces(nodes),
         NEW stack, NEW at, HoldsAt(nodes, k - 1, stack, at),
         NEW left, left = LeftOpen(stack, ColAt(nodes, k))
  PROVE  /\ \E to : HoldsAt(nodes, k, Append(left, FrameOf(nodes, k)), to)
         /\ UpTo(nodes, k - 1) = {} => left = <<>>
         /\ UpTo(nodes, k - 1) # {} =>
              /\ left # <<>>
              /\ \E j : Encloses(nodes, j, k) /\ left[Len(left)].id = nodes[j].id
<1> DEFINE n == Len(at)
           S == UpTo(nodes, k - 1)
           col == ColAt(nodes, k)
           cols == Columns(stack)
           c == Kept(cols, col)
           C(i) == ColAt(nodes, i)
           F(i) == FrameOf(nodes, i)
<1>1. /\ k \in Nat /\ k \notin S /\ col \in Nat
      /\ \A i \in S : i \in Nat /\ i < k /\ C(i) \in Nat
      /\ UpTo(nodes, k) = S \cup {k}
  BY DEF Told, FramePlaces, UpTo, ColAt
<1>2. /\ at \in Seq(S) /\ n \in Nat
      /\ stack = [q \in 1..n |-> F(at[q])]
      /\ \A q, r \in 1..n : q < r => at[q] < at[r]
      /\ S # {} => at # <<>> /\ \A i \in S : at[1] =< i
      /\ \A i \in S : \E q \in 1..n : i =< at[q] /\ C(at[q]) =< C(i)
      /\ \A q \in 1..n : at[q] \in S
  BY DEF HoldsAt
<1>3. /\ cols \in Seq(Int) /\ Len(cols) = n /\ Len(stack) = n
      /\ \A q \in 1..n : cols[q] = C(at[q])
  <2>1. Len(stack) = n
    BY <1>2
  <2>2. cols = [q \in 1..n |-> stack[q].col]
    BY <2>1 DEF Columns
  <2>3. \A q \in 1..n : stack[q].col = C(at[q]) /\ C(at[q]) \in Int
    BY <1>1, <1>2 DEF FrameOf
  <2>. HIDE DEF cols, C
  <2>4. cols \in [1..n -> Int]
    BY <2>2, <2>3
  <2>5. cols \in Seq(Int) /\ Len(cols) = n
    <3>. HIDE DEF n
    <3>. QED BY <1>2, <2>4, SeqDef, LenProperties
  <2>. QED BY <2>1, <2>2, <2>3, <2>5
<1>. HIDE DEF cols
<1>7. /\ \A q \in 1..n : at[q] \in Nat /\ at[q] < k /\ at[q] \in S /\ C(at[q]) \in Nat
      /\ \A q, r \in 1..n : q < r => at[q] < at[r]
  BY <1>1, <1>2
<1>8. S # {} => at # <<>> /\ \A i \in S : at[1] =< i
  BY <1>2
<1>9. \A i \in S : i \in Nat /\ i < k /\ C(i) \in Nat
  BY <1>1
<1>4. left = SubSeq(stack, 1, c)
  BY DEF LeftOpen, cols
<1>5. CASE n = 0
  <2>1. S = {} /\ cols = <<>> /\ c = 0
    <3>1. S = {}
      BY <1>2, <1>5
    <3>2. cols = <<>>
      <4>. HIDE DEF n
      <4>. QED BY <1>3, <1>5, EmptySeq
    <3>3. col \in Int
      BY <1>1
    <3>. HIDE DEF col
    <3>. QED BY <1>3, <3>1, <3>2, <3>3, KeptIs
  <2>2. left = <<>>
    BY <1>4, <2>1
  <2>3. Append(left, F(k)) = <<F(k)>>
    BY <2>2
  <2>4. HoldsAt(nodes, k, <<F(k)>>, <<k>>)
    BY <1>1, <2>1 DEF HoldsAt
  <2>. QED BY <2>1, <2>2, <2>3, <2>4
<1>6. CASE n # 0
  <2>1. cols # <<>> /\ at # <<>> /\ S # {}
    BY <1>2, <1>3, <1>6
  <2>2. /\ c \in 1..n
        /\ c = 1 \/ C(at[c]) < col
        /\ \A q \in 1..n : q > c => C(at[q]) >= col
    <3>1. col \in Int
      BY <1>1
    <3>. HIDE DEF col
    <3>2. /\ c \in 1..Len(cols)
          /\ c = 1 \/ cols[c] < col
          /\ \A q \in 1..Len(cols) : q > c => cols[q] >= col
      BY <1>3, <2>1, <3>1, KeptIs
    <3>. HIDE DEF c, n, C
    <3>. QED BY <1>3, <3>2
  <2> DEFINE to == Append(SubSeq(at, 1, c), k)
  <2>. HIDE DEF c
  <2>3. /\ SubSeq(at, 1, c) \in Seq(S) /\ Len(SubSeq(at, 1, c)) = c
        /\ \A q \in 1..c : SubSeq(at, 1, c)[q] = at[q]
    BY <1>2, <2>2, SubSeqProperties
  <2>4. /\ to \in Seq(UpTo(nodes, k)) /\ Len(to) = c + 1 /\ to[c + 1] = k
        /\ \A q \in 1..c : to[q] = at[q]
    BY <1>1, <2>2, <2>3
  <2>5. left = [q \in 1..c |-> F(at[q])] /\ Len(left) = c /\ left[c] = F(at[c])
    <3> DEFINE R == {F(i) : i \in S}
    <3>1. \A q \in 1..n : stack[q] = F(at[q]) /\ F(at[q]) \in R
      BY <1>2
    <3>2. stack \in [1..n -> R]
      BY <1>2
    <3>. HIDE DEF F, R, n
    <3>3. stack \in Seq(R)
      BY <1>2, <3>2, SeqDef
    <3>10. n \in Nat /\ c \in 1..n
      BY <1>2, <2>2
    <3>11. \A q \in 1..c : q \in 1..n
      BY <3>10
    <3>4. 1 \in Int /\ c \in Int /\ \A q \in 1..c : q \in 1..n /\ stack[q] \in R
      BY <3>1, <3>10, <3>11
    <3>5. /\ left \in Seq(R) /\ Len(left) = (IF 1 =< c THEN c - 1 + 1 ELSE 0)
          /\ \A q \in 1..(c - 1 + 1) : left[q] = stack[1 + q - 1]
      BY <1>4, <3>3, <3>4, SubSeqProperties
    <3>6. Len(left) = c /\ \A q \in 1..c : left[q] = stack[q]
      BY <2>2, <3>4, <3>5
    <3>7. \A q \in 1..c : left[q] = F(at[q])
      BY <3>1, <3>4, <3>6
    <3>8. left = [q \in 1..c |-> F(at[q])]
      BY <3>5, <3>6, <3>7
    <3>. QED BY <2>2, <1>2, <3>6, <3>7, <3>8
  <2>6. Append(left, F(k)) = [q \in 1..Len(to) |-> F(to[q])]
    <3>. HIDE DEF F, to
    <3>1. Append(left, F(k)) = [q \in 1..(c + 1) |-> IF q = c + 1 THEN F(k) ELSE left[q]]
      BY <2>2, <2>5
    <3>. QED BY <2>2, <2>4, <2>5, <3>1
  <2>. HIDE DEF to
  <2>7. \A q, r \in 1..Len(to) : q < r => to[q] < to[r]
    <3>. SUFFICES ASSUME NEW q \in 1..Len(to), NEW r \in 1..Len(to), q < r
                  PROVE  to[q] < to[r]
      OBVIOUS
    <3>4. n \in Nat /\ c \in 1..n /\ Len(to) = c + 1
      BY <1>2, <2>2, <2>4
    <3>1. q \in 1..c /\ q \in 1..n /\ r \in 1..(c + 1)
      <4>. HIDE DEF n
      <4>. QED BY <3>4
    <3>2. CASE r = c + 1
      BY <1>7, <2>4, <3>1, <3>2
    <3>3. CASE r # c + 1
      <4>1. r \in 1..c /\ r \in 1..n
        BY <1>2, <2>2, <3>1, <3>3
      <4>. QED BY <1>7, <2>4, <3>1, <4>1
    <3>. QED BY <3>2, <3>3
  <2>8. \A i \in UpTo(nodes, k) : to[1] =< i
    <3>1. 1 \in 1..c /\ 1 \in 1..n
      BY <1>2, <2>2
    <3>2. to[1] = at[1] /\ at[1] \in Nat /\ at[1] < k
      BY <1>7, <2>4, <3>1
    <3>3. \A i \in S : at[1] =< i
      BY <1>8, <2>1
    <3>4. k \in Nat /\ UpTo(nodes, k) = S \cup {k}
      BY <1>1
    <3>. QED BY <3>2, <3>3, <3>4
  <2>9. ASSUME NEW i \in UpTo(nodes, k)
        PROVE  \E q \in 1..Len(to) : i =< to[q] /\ C(to[q]) =< C(i)
    <3>. HIDE DEF C
    <3>1. CASE i = k
      <4>1. c + 1 \in 1..Len(to) /\ i =< to[c + 1] /\ C(to[c + 1]) =< C(i)
        BY <1>1, <2>2, <2>4, <3>1 DEF C
      <4>. QED BY <4>1
    <3>2. CASE i # k
      <4>1. i \in S
        BY <1>1, <3>2
      <4>2. PICK q \in 1..n : i =< at[q] /\ C(at[q]) =< C(i)
        BY <1>2, <4>1
      <4>3. CASE q =< c
        <5>1. q \in 1..Len(to) /\ to[q] = at[q]
          BY <2>2, <2>4, <4>3
        <5>. QED BY <4>2, <5>1
      <4>4. CASE q > c
        <5>1. C(at[q]) >= col /\ C(at[q]) \in Nat /\ C(i) \in Nat /\ C(k) = col
          BY <1>1, <1>2, <2>2, <4>1, <4>4 DEF C
        <5>2. c + 1 \in 1..Len(to) /\ to[c + 1] = k
          BY <2>2, <2>4
        <5>3. i =< k /\ C(k) =< C(i)
          BY <1>1, <4>1, <4>2, <5>1
        <5>. QED BY <5>2, <5>3
      <4>. QED BY <2>2, <4>3, <4>4
    <3>. QED BY <3>1, <3>2
  <2>10. HoldsAt(nodes, k, Append(left, F(k)), to)
    <3>1. UpTo(nodes, k) # {} => to # <<>>
      BY <2>2, <2>4
    <3>. QED BY <2>4, <2>6, <2>7, <2>8, <2>9, <3>1 DEF HoldsAt
  <2>11. Encloses(nodes, at[c], k)
    <3>1. at[c] \in S
      BY <1>2, <2>2
    <3>2. CASE C(at[c]) < col
      <4>1. ASSUME NEW l \in S, C(l) < col
            PROVE  l =< at[c]
        <5>1. PICK q \in 1..n : l =< at[q] /\ C(at[q]) =< C(l)
          BY <1>2
        <5>2. q =< c
          <6>1. C(at[q]) \in Nat /\ C(l) \in Nat
            BY <1>1, <1>2
          <6>. HIDE DEF C
          <6>2. ~(C(at[q]) >= col)
            BY <1>1, <4>1, <5>1, <6>1
          <6>. QED BY <2>2, <6>2
        <5>3. at[q] =< at[c]
          <6>1. c \in 1..n /\ (q = c \/ q < c)
            BY <2>2, <5>2
          <6>2. at[c] \in Nat /\ at[q] \in Nat
            BY <1>7, <6>1
          <6>. QED BY <1>7, <6>1, <6>2
        <5>4. l \in Nat /\ at[q] \in Nat /\ at[c] \in Nat
          BY <1>7, <1>9, <2>2
        <5>. QED BY <5>1, <5>3, <5>4
      <4>. QED BY <3>1, <3>2, <4>1 DEF Encloses
    <3>3. CASE ~(C(at[c]) < col)
      <4>1. c = 1 /\ \A l \in S : at[c] =< l
        BY <1>2, <2>1, <2>2, <3>3
      <4>2. ASSUME NEW l \in S
            PROVE  ~(C(l) < col)
        <5>1. PICK q \in 1..n : l =< at[q] /\ C(at[q]) =< C(l)
          BY <1>2
        <5>2. C(at[q]) \in Nat /\ C(l) \in Nat /\ C(at[c]) \in Nat
          BY <1>1, <1>2, <3>1
        <5>3. q = c \/ q > c
          BY <2>2, <4>1
        <5>. HIDE DEF C
        <5>4. C(at[q]) >= col
          BY <1>1, <2>2, <3>3, <5>2, <5>3
        <5>. QED BY <1>1, <5>1, <5>2, <5>4
      <4>. QED BY <3>1, <4>1, <4>2 DEF Encloses
    <3>. QED BY <3>2, <3>3
  <2>12. left # <<>> /\ left[Len(left)].id = nodes[at[c]].id
    BY <2>2, <2>5, SMTT(30) DEF FrameOf
  <2>. QED BY <2>1, <2>10, <2>11, <2>12
<1>. QED BY <1>2, <1>5, <1>6

---------------------------------------------------------------------------
(* Links.                                                                    *)

FrameLinks(I) == [parent : I \cup {NoFrame}, children : Seq(I)]

\* A sequence lists the frames whose parent is f, in document order.
Lists(nodes, info, f, listed) ==
  /\ \A a \in 1..Len(listed) : listed[a] \in Ids(nodes) /\ info[listed[a]].parent = f
  /\ \A g \in Ids(nodes) : info[g].parent = f => \E a \in 1..Len(listed) : listed[a] = g
  /\ \A a, b \in 1..Len(listed) : a < b =>
       \A i, j \in FramePlaces(nodes) :
         (listed[a] = nodes[i].id /\ listed[b] = nodes[j].id) => i < j

\* The parent of the frame at i.
ParentAt(nodes, i, parent) ==
  IF UpTo(nodes, i - 1) = {} THEN parent = NoFrame
  ELSE \E j : Encloses(nodes, j, i) /\ parent = nodes[j].id

\* The links of the frames up to a place, and of those after it none.
LinkedUpTo(nodes, k, info) ==
  /\ info \in [Ids(nodes) -> FrameLinks(Ids(nodes))]
  /\ \A i \in FramePlaces(nodes) : i > k => info[nodes[i].id] = NoLinks
  /\ \A i \in UpTo(nodes, k) : ParentAt(nodes, i, info[nodes[i].id].parent)
  /\ \A f \in Ids(nodes) : Lists(nodes, info, f, info[f].children)

(* Telling a frame its parent, and the parent its child, changes nothing     *)
(* else.                                                                     *)
Retold(info, new, p, x) == new = [info EXCEPT ![p].children = Append(@, x), ![x].parent = p]

LEMMA LinksTold ==
  ASSUME NEW I, NEW info \in [I -> FrameLinks(I)], NEW p \in I, NEW x \in I, p # x,
         NEW new, Retold(info, new, p, x)
  PROVE  /\ new \in [I -> FrameLinks(I)]
         /\ new[x].parent = p /\ new[x].children = info[x].children
         /\ new[p].parent = info[p].parent /\ new[p].children = Append(info[p].children, x)
         /\ \A f \in I : f # x /\ f # p => new[f] = info[f]
<1> DEFINE a == [info[p] EXCEPT !.children = Append(info[p].children, x)]
           mid == [info EXCEPT ![p] = a]
           b == [mid[x] EXCEPT !.parent = p]
<1>1. new = [mid EXCEPT ![x] = b]
  BY DEF Retold
<1>2. /\ info[p] \in FrameLinks(I) /\ info[x] \in FrameLinks(I)
      /\ info[p].children \in Seq(I)
  BY DEF FrameLinks
<1>3. Append(info[p].children, x) \in Seq(I)
  BY <1>2
<1>4. a \in FrameLinks(I) /\ a.parent = info[p].parent /\ a.children = Append(info[p].children, x)
  BY <1>2, <1>3 DEF FrameLinks
<1>. HIDE DEF a
<1>5. mid \in [I -> FrameLinks(I)] /\ mid[p] = a /\ \A f \in I : f # p => mid[f] = info[f]
  BY <1>4
<1>. HIDE DEF mid
<1>6. b \in FrameLinks(I) /\ b.parent = p /\ b.children = info[x].children
  BY <1>2, <1>5 DEF FrameLinks
<1>. HIDE DEF b
<1>7. new \in [I -> FrameLinks(I)] /\ new[x] = b /\ \A f \in I : f # x => new[f] = mid[f]
  BY <1>1, <1>5, <1>6
<1>. QED BY <1>4, <1>5, <1>6, <1>7

(* A frame more is told its parent, and the parent its child.                *)
LEMMA FrameLinked ==
  ASSUME NEW nodes, Told(nodes), NEW k \in FramePlaces(nodes), NEW info, LinkedUpTo(nodes, k - 1, info),
         NEW j, Encloses(nodes, j, k),
         NEW p, p = nodes[j].id, NEW x, x = nodes[k].id,
         NEW new, Retold(info, new, p, x)
  PROVE  LinkedUpTo(nodes, k, new)
<1> DEFINE I == Ids(nodes)
           P == FramePlaces(nodes)
<1>1. /\ k \in Nat /\ \A i \in P : i \in Nat
      /\ UpTo(nodes, k) = UpTo(nodes, k - 1) \cup {k} /\ k \notin UpTo(nodes, k - 1)
      /\ UpTo(nodes, k - 1) \subseteq P
      /\ \A i \in P : i =< k - 1 <=> i \in UpTo(nodes, k - 1)
  BY DEF Told, FramePlaces, UpTo
<1>2. /\ \A i \in P : nodes[i].id \in I /\ nodes[i].id # NoFrame
      /\ \A i, l \in P : nodes[i].id = nodes[l].id => i = l
      /\ \A f \in I : \E i \in P : f = nodes[i].id
  BY DEF Told, FramePlaces, Ids
<1>3. j \in UpTo(nodes, k - 1) /\ j \in P
  BY <1>1 DEF Encloses
<1>4. p \in I /\ x \in I /\ p # x /\ p # NoFrame
  BY <1>1, <1>2, <1>3
<1>5. /\ info \in [I -> FrameLinks(I)]
      /\ \A i \in P : i > k - 1 => info[nodes[i].id] = NoLinks
      /\ \A i \in UpTo(nodes, k - 1) : ParentAt(nodes, i, info[nodes[i].id].parent)
      /\ \A f \in I : Lists(nodes, info, f, info[f].children)
  BY DEF LinkedUpTo
<1>6. /\ new \in [I -> FrameLinks(I)]
      /\ new[x].parent = p /\ new[x].children = info[x].children
      /\ new[p].parent = info[p].parent /\ new[p].children = Append(info[p].children, x)
      /\ \A f \in I : f # x /\ f # p => new[f] = info[f]
  <2>. HIDE DEF I, P
  <2>. QED BY <1>4, <1>5, LinksTold, SMTT(30)
<1>. HIDE DEF I, P
<1>7. info[x].parent = NoFrame
  <2>1. info[x] = NoLinks
    BY <1>1, <1>5 DEF P
  <2>. QED BY <2>1 DEF NoLinks
<1>8. \A f \in I : f # x => new[f].parent = info[f].parent
  BY <1>6
<1>9. \A f \in I : f # p => new[f].children = info[f].children
  BY <1>6
<1>10. ASSUME NEW i \in P, i > k
       PROVE  new[nodes[i].id] = NoLinks
  <2>1. nodes[i].id # x /\ nodes[i].id # p /\ nodes[i].id \in I /\ i > k - 1
    BY <1>1, <1>2, <1>3, <1>10 DEF P
  <2>. QED BY <1>5, <1>6, <2>1
<1>11. ASSUME NEW i \in UpTo(nodes, k)
       PROVE  ParentAt(nodes, i, new[nodes[i].id].parent)
  <2>1. CASE i = k
    BY <1>3, <1>6, <2>1 DEF ParentAt
  <2>2. CASE i # k
    <3>1. i \in UpTo(nodes, k - 1)
      BY <1>1, <2>2
    <3>2. nodes[i].id # x /\ nodes[i].id \in I
      BY <1>1, <1>2, <2>2, <3>1 DEF P
    <3>. QED BY <1>5, <1>8, <3>1, <3>2
  <2>. QED BY <2>1, <2>2
<1>12. ASSUME NEW f \in I
       PROVE  Lists(nodes, new, f, new[f].children)
  <2> DEFINE c == info[f].children
  <2>1. /\ \A a \in 1..Len(c) : c[a] \in I /\ info[c[a]].parent = f
        /\ \A g \in I : info[g].parent = f => \E a \in 1..Len(c) : c[a] = g
        /\ \A a, b \in 1..Len(c) : a < b =>
             \A i, l \in P : (c[a] = nodes[i].id /\ c[b] = nodes[l].id) => i < l
    <3>1. Lists(nodes, info, f, c)
      BY <1>5
    <3>. HIDE DEF c
    <3>. QED BY <3>1 DEF Lists, I, P
  <2>2. f # NoFrame
    BY <1>2
  <2>3. \A a \in 1..Len(c) : c[a] # x /\ new[c[a]].parent = f
    BY <1>7, <1>8, <2>1, <2>2
  <2>4. CASE f # p
    <3>1. new[f].children = c
      BY <1>9, <2>4
    <3>2. ASSUME NEW g \in I, new[g].parent = f
          PROVE  \E a \in 1..Len(c) : c[a] = g
      <4>1. g # x
        BY <1>6, <2>4, <3>2
      <4>. QED BY <1>8, <2>1, <3>2, <4>1
    <3>. HIDE DEF c
    <3>3. Lists(nodes, new, f, c)
      BY <2>1, <2>3, <3>2 DEF Lists, I, P
    <3>. QED BY <3>1, <3>3
  <2>5. CASE f = p
    <3> DEFINE d == Append(c, x)
    <3>0. c \in Seq(I)
      BY <1>5 DEF FrameLinks
    <3>1. new[f].children = d
      BY <1>6, <2>5
    <3>. HIDE DEF c
    <3>2. /\ Len(c) \in Nat /\ Len(d) = Len(c) + 1 /\ d[Len(c) + 1] = x
          /\ \A a \in 1..Len(c) : d[a] = c[a]
      BY <1>4, <3>0, AppendProperties
    <3>. HIDE DEF d
    <3>3. ASSUME NEW a \in 1..Len(d)
          PROVE  d[a] \in I /\ new[d[a]].parent = f
      <4>1. CASE a = Len(c) + 1
        BY <1>4, <1>6, <2>5, <3>2, <4>1
      <4>2. CASE a # Len(c) + 1
        <5>1. a \in 1..Len(c)
          BY <3>2, <4>2
        <5>. QED BY <2>1, <2>3, <3>2, <5>1
      <4>. QED BY <4>1, <4>2
    <3>4. ASSUME NEW g \in I, new[g].parent = f
          PROVE  \E a \in 1..Len(d) : d[a] = g
      <4>1. CASE g = x
        <5>1. Len(c) + 1 \in 1..Len(d)
          BY <3>2
        <5>. QED BY <3>2, <4>1, <5>1
      <4>2. CASE g # x
        <5>1. PICK a \in 1..Len(c) : c[a] = g
          BY <1>8, <2>1, <3>4, <4>2
        <5>2. a \in 1..Len(d)
          BY <3>2
        <5>. QED BY <3>2, <5>1, <5>2
      <4>. QED BY <4>1, <4>2
    <3>5. ASSUME NEW a \in 1..Len(d), NEW b \in 1..Len(d), a < b,
                 NEW i \in P, NEW l \in P, d[a] = nodes[i].id, d[b] = nodes[l].id
          PROVE  i < l
      <4>1. a \in 1..Len(c) /\ d[a] = c[a]
        BY <3>2, <3>5
      <4>2. CASE b = Len(c) + 1
        <5>1. l = k
          BY <1>2, <3>2, <3>5, <4>2 DEF P
        <5>2. info[nodes[i].id].parent = f
          BY <2>1, <3>5, <4>1
        <5>3. ~(i > k - 1)
          BY <1>5, <2>2, <5>2 DEF NoLinks
        <5>. QED BY <1>1, <5>1, <5>3
      <4>3. CASE b # Len(c) + 1
        <5>1. b \in 1..Len(c) /\ d[b] = c[b]
          BY <3>2, <4>3
        <5>2. c[a] = nodes[i].id /\ c[b] = nodes[l].id
          BY <3>5, <4>1, <5>1
        <5>3. \A q, r \in 1..Len(c) : q < r =>
                \A u, v \in P : (c[q] = nodes[u].id /\ c[r] = nodes[v].id) => u < v
          BY <2>1
        <5>. QED BY <3>5, <4>1, <5>1, <5>2, <5>3
      <4>. QED BY <4>2, <4>3
    <3>6. Lists(nodes, new, f, d)
      <4>1. \A a \in 1..Len(d) : d[a] \in I /\ new[d[a]].parent = f
        BY <3>3
      <4>2. \A g \in I : new[g].parent = f => \E a \in 1..Len(d) : d[a] = g
        BY <3>4
      <4>3. \A a, b \in 1..Len(d) : a < b =>
              \A i, l \in P : (d[a] = nodes[i].id /\ d[b] = nodes[l].id) => i < l
        BY <3>5
      <4>. QED BY <4>1, <4>2, <4>3 DEF Lists, I, P
    <3>. QED BY <3>1, <3>6
  <2>. QED BY <2>4, <2>5
<1>. QED BY <1>6, <1>10, <1>11, <1>12 DEF LinkedUpTo, I, P

(* The index the walk builds: the parent of every frame encloses it, and     *)
(* every frame lists the frames that answer it.                              *)
LEMMA WalkLinks ==
  ASSUME NEW nodes, Told(nodes)
  PROVE  LinkedUpTo(nodes, Len(nodes), WalkFrames(nodes).info)
<1> DEFINE L == Len(nodes)
<1>1. L \in Nat
  BY DEF Told
<1>2. PICK w : Turns(w, nodes) /\ WalkFrames(nodes) = w[L]
  BY <1>1, WalkIs
<1>3. w[0] = FreshWalk(nodes) /\ \A k \in 1..L : w[k] = VisitNode(w[k - 1], nodes[k])
  BY <1>1, <1>2, TurnIs
<1> DEFINE Fine(k) == /\ LinkedUpTo(nodes, k, w[k].info)
                      /\ \E at : HoldsAt(nodes, k, w[k].stack, at)
           Bad == {k \in 0..L : ~Fine(k)}
<1>4. Fine(0)
  <2>1. UpTo(nodes, 0) = {}
    BY <1>1 DEF UpTo, FramePlaces
  <2>2. HoldsAt(nodes, 0, <<>>, <<>>)
    BY <2>1 DEF HoldsAt
  <2>3. LinkedUpTo(nodes, 0, [id \in Ids(nodes) |-> NoLinks])
    <3> DEFINE info == [id \in Ids(nodes) |-> NoLinks]
    <3>1. info \in [Ids(nodes) -> FrameLinks(Ids(nodes))]
      BY DEF FrameLinks, NoLinks
    <3>2. \A f \in Ids(nodes) : info[f] = NoLinks
      OBVIOUS
    <3>3. NoFrame \notin Ids(nodes)
      BY DEF Told, Ids, FramePlaces
    <3>. HIDE DEF info
    <3>4. \A f \in Ids(nodes) : info[f].children = <<>> /\ info[f].parent = NoFrame
      BY <3>2 DEF NoLinks
    <3>5. ASSUME NEW f \in Ids(nodes)
          PROVE  Lists(nodes, info, f, info[f].children)
      <4>1. info[f].children = <<>> /\ \A g \in Ids(nodes) : info[g].parent # f
        BY <3>3, <3>4
      <4>2. Lists(nodes, info, f, <<>>)
        BY <4>1 DEF Lists
      <4>. QED BY <4>1, <4>2
    <3>6. \A i \in FramePlaces(nodes) : info[nodes[i].id] = NoLinks
      BY <3>2 DEF Ids
    <3>7. LinkedUpTo(nodes, 0, info)
      BY <2>1, <3>1, <3>5, <3>6 DEF LinkedUpTo
    <3>. QED BY <3>7 DEF info
  <2>. QED BY <1>3, <2>2, <2>3 DEF FreshWalk, Ids
<1>5. ASSUME NEW k \in 1..L, Fine(k - 1)
      PROVE  Fine(k)
  <2> DEFINE v == w[k - 1]
  <2>1. PICK at : HoldsAt(nodes, k - 1, v.stack, at)
    BY <1>5
  <2>2. LinkedUpTo(nodes, k - 1, v.info)
    BY <1>5
  <2>3. w[k] = VisitNode(v, nodes[k])
    BY <1>3
  <2>. HIDE DEF v
  <2>4. CASE nodes[k].kind # "Indent"
    <3>1. UpTo(nodes, k) = UpTo(nodes, k - 1)
      BY <1>1, <2>4 DEF UpTo, FramePlaces
    <3>2. w[k] = v
      BY <2>3, <2>4 DEF VisitNode
    <3>3. HoldsAt(nodes, k, v.stack, at)
      BY <2>1, <3>1 DEF HoldsAt
    <3>4. \A i \in FramePlaces(nodes) : i > k => i > k - 1
      BY <1>1 DEF FramePlaces
    <3>5. LinkedUpTo(nodes, k, v.info)
      BY <2>2, <3>1, <3>4 DEF LinkedUpTo
    <3>. QED BY <3>2, <3>3, <3>5
  <2>5. CASE nodes[k].kind = "Indent"
    <3> DEFINE left == LeftOpen(v.stack, ColAt(nodes, k))
               x == nodes[k].id
               told(t) == [v.info EXCEPT ![t].children = Append(@, x), ![x].parent = t]
    <3>1. k \in FramePlaces(nodes)
      BY <2>5 DEF FramePlaces
    <3>2. /\ \E to : HoldsAt(nodes, k, Append(left, FrameOf(nodes, k)), to)
          /\ UpTo(nodes, k - 1) = {} => left = <<>>
          /\ UpTo(nodes, k - 1) # {} =>
               /\ left # <<>>
               /\ \E j : Encloses(nodes, j, k) /\ left[Len(left)].id = nodes[j].id
      BY <2>1, <3>1, FrameHolds
    <3>3. w[k] = [ info  |-> IF left = <<>> THEN v.info
                             ELSE told(left[Len(left)].id),
                   stack |-> Append(left, FrameOf(nodes, k)) ]
      BY <2>3, <2>5 DEF VisitNode, Place, FrameOf, ColAt
    <3>. HIDE DEF left
    <3>4. CASE UpTo(nodes, k - 1) = {}
      <4>0. left = <<>>
        BY <3>2, <3>4
      <4>1. w[k].info = v.info /\ w[k].stack = Append(left, FrameOf(nodes, k))
        BY <3>3, <4>0
      <4>2. /\ \A i \in UpTo(nodes, k) : i = k
            /\ \A i \in FramePlaces(nodes) : i > k => i > k - 1
            /\ k > k - 1
        BY <1>1, <3>4 DEF UpTo, FramePlaces
      <4>3. v.info[x] = NoLinks
        BY <2>2, <3>1, <4>2 DEF LinkedUpTo
      <4>4. ParentAt(nodes, k, v.info[nodes[k].id].parent)
        BY <3>4, <4>3 DEF ParentAt, NoLinks
      <4>5. LinkedUpTo(nodes, k, v.info)
        BY <2>2, <4>2, <4>4 DEF LinkedUpTo
      <4>. QED BY <3>2, <4>1, <4>5
    <3>5. CASE UpTo(nodes, k - 1) # {}
      <4>1. PICK j : Encloses(nodes, j, k) /\ left[Len(left)].id = nodes[j].id
        BY <3>2, <3>5
      <4> DEFINE p == nodes[j].id
                 new == told(p)
      <4>0. left # <<>>
        BY <3>2, <3>5
      <4>2. w[k].info = new /\ w[k].stack = Append(left, FrameOf(nodes, k))
        <5>. HIDE DEF told
        <5>1. told(left[Len(left)].id) = told(p)
          BY <4>1
        <5>. QED BY <3>3, <4>0, <5>1
      <4>6. Retold(v.info, new, p, x)
        BY DEF Retold
      <4>. HIDE DEF x, p
      <4>3. x = nodes[k].id /\ p = nodes[j].id
        BY DEF x, p
      <4>. HIDE DEF new
      <4>4. LinkedUpTo(nodes, k, new)
        BY <2>2, <3>1, <4>1, <4>3, <4>6, FrameLinked
      <4>. QED BY <3>2, <4>2, <4>4
    <3>. QED BY <3>4, <3>5
  <2>. QED BY <2>4, <2>5
<1>. HIDE DEF Fine
<1>6. Bad = {}
  <2>. SUFFICES ASSUME Bad # {} PROVE FALSE
    OBVIOUS
  <2>1. Bad \in SUBSET Nat
    BY <1>1
  <2>2. PICK m \in Bad : \A k \in Bad : m =< k
    <3>. HIDE DEF Bad
    <3>. QED BY <2>1, NatLeast
  <2>3. m \in 0..L /\ ~Fine(m)
    OBVIOUS
  <2>4. m # 0
    BY <1>4, <2>3
  <2>5. m \in 1..L /\ m - 1 \in 0..L /\ ~(m =< m - 1)
    BY <1>1, <2>3, <2>4
  <2>6. Fine(m - 1)
    BY <2>2, <2>5
  <2>. QED BY <1>5, <2>3, <2>5, <2>6
<1>7. Fine(L)
  BY <1>1, <1>6
<1>. QED BY <1>2, <1>7 DEF Fine

\* The frames of one array stand in another at the same places.
Reframed(nodes, other) ==
  /\ Len(other) = Len(nodes)
  /\ \A i \in 1..Len(nodes) : other[i].id = nodes[i].id /\ other[i].kind = nodes[i].kind
  /\ \A i \in FramePlaces(nodes) : other[i].text = nodes[i].text

(* Links answer for every array with the same frames, whatever else it holds.*)
LEMMA SameLinks ==
  ASSUME NEW nodes, NEW other, Reframed(nodes, other), Told(nodes), NEW info,
         LinkedUpTo(nodes, Len(nodes), info)
  PROVE  LinkedUpTo(other, Len(other), info)
<1>1. /\ Len(other) = Len(nodes)
      /\ FramePlaces(other) = FramePlaces(nodes)
      /\ \A i \in FramePlaces(nodes) : i \in Nat /\ other[i].id = nodes[i].id
  BY DEF Reframed, FramePlaces, Told
<1>2. Ids(other) = Ids(nodes)
  BY <1>1 DEF Ids
<1>3. \A i \in FramePlaces(nodes) : ColAt(other, i) = ColAt(nodes, i)
  BY DEF Reframed, ColAt
<1>4. \A k : UpTo(other, k) = UpTo(nodes, k) /\ UpTo(nodes, k) \subseteq FramePlaces(nodes)
  BY <1>1 DEF UpTo
<1>5. ASSUME NEW i \in FramePlaces(nodes), NEW j, Encloses(nodes, j, i)
      PROVE  Encloses(other, j, i) /\ nodes[j].id = other[j].id
  BY <1>1, <1>3, <1>4, <1>5 DEF Encloses
<1>6. ASSUME NEW i \in UpTo(nodes, Len(nodes)), NEW p, ParentAt(nodes, i, p)
      PROVE  ParentAt(other, i, p)
  <2>1. i \in FramePlaces(nodes)
    BY <1>4
  <2>2. CASE UpTo(nodes, i - 1) = {}
    BY <1>4, <1>6, <2>2 DEF ParentAt
  <2>3. CASE UpTo(nodes, i - 1) # {}
    <3>1. PICK j : Encloses(nodes, j, i) /\ p = nodes[j].id
      BY <1>6, <2>3 DEF ParentAt
    <3>. QED BY <1>4, <1>5, <2>1, <2>3, <3>1 DEF ParentAt
  <2>. QED BY <2>2, <2>3
<1>7. ASSUME NEW f, NEW listed, Lists(nodes, info, f, listed)
      PROVE  Lists(other, info, f, listed)
  BY <1>1, <1>2, <1>7 DEF Lists
<1>8. /\ info \in [Ids(nodes) -> FrameLinks(Ids(nodes))]
      /\ \A i \in FramePlaces(nodes) : i > Len(nodes) => info[nodes[i].id] = NoLinks
      /\ \A i \in UpTo(nodes, Len(nodes)) : ParentAt(nodes, i, info[nodes[i].id].parent)
      /\ \A f \in Ids(nodes) : Lists(nodes, info, f, info[f].children)
  BY DEF LinkedUpTo
<1>9. \A i \in UpTo(nodes, Len(nodes)) : ParentAt(other, i, info[other[i].id].parent)
  BY <1>1, <1>4, <1>6, <1>8
<1>10. \A f \in Ids(nodes) : Lists(other, info, f, info[f].children)
  BY <1>7, <1>8
<1>. QED BY <1>1, <1>2, <1>4, <1>8, <1>9, <1>10 DEF LinkedUpTo
============================================================================
