------------------------------- MODULE Selection -------------------------------
(***************************************************************************)
(* What a query makes of the rows of a table: some of them, and in the     *)
(* order of a key.  A list is a sequence.                                  *)
(***************************************************************************)
EXTENDS Integers, SequencesExt

IsList(s) == s \in Seq(ToSet(s))

\* The elements of s whose places are kept, in their order: a WHERE clause.
Select(s, kept) ==
    LET taken[n \in 0..Len(s)] ==
            IF n = 0 THEN <<>>
            ELSE IF n \in kept THEN Append(taken[n - 1], s[n]) ELSE taken[n - 1]
    IN  taken[Len(s)]

\* The elements of s by their keys, from 1 to n, those of one key in their
\* order: an ORDER BY clause, whose ties nothing is said of.
SortedBy(s, key, n) ==
    FlattenSeq([k \in 1..n |-> Select(s, {i \in DOMAIN s : key[i] = k})])
=============================================================================
