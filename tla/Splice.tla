------------------------------ MODULE Splice ------------------------------
(* Splicing an array, the way slices.Replace, Insert and Delete do in        *)
(* sdom/mutate.go, and writing out one.                                      *)
EXTENDS Integers, Sequences

SE == INSTANCE SequencesExt

\* The elements of s from i up to j give way to those of m.
Splice(s, i, j, m) == SubSeq(s, 1, i - 1) \o m \o SubSeq(s, j, Len(s))

\* What the elements of an array write one after another.
Concatenated(texts) == SE!FlattenSeq(texts)

\* No element occurs twice.
Distinct(s) == \A i, j \in 1..Len(s) : s[i] = s[j] => i = j
============================================================================
