---------------------------- MODULE SequenceFilters ----------------------------
(***************************************************************************)
(* A loop that appends, element by element, as a recursive function: what  *)
(* SelectSeq and FlattenSeq compute, in a form that can be proved about.   *)
(***************************************************************************)
EXTENDS Naturals, Sequences

\* The members of S, in the order of the sequence.
Sifted(s, S) ==
  LET upTo[n \in 0..Len(s)] ==
        IF n = 0 THEN <<>>
        ELSE IF s[n] \in S THEN Append(upTo[n - 1], s[n]) ELSE upTo[n - 1]
  IN upTo[Len(s)]

\* The sequences of a sequence, one after another.
Flattened(ss) ==
  LET upTo[n \in 0..Len(ss)] == IF n = 0 THEN <<>> ELSE upTo[n - 1] \o ss[n]
  IN upTo[Len(ss)]
=============================================================================
