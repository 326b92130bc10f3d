------------------------------- MODULE Selection -------------------------------
(***************************************************************************)
(* The loops of the program that keep some members of a slice, in order.   *)
(***************************************************************************)
EXTENDS Integers, Sequences, SequencesExt

\* The members of a sequence at some positions, in order.
Where(seq, S) == FlattenSeq([i \in 1..Len(seq) |-> IF i \in S THEN <<seq[i]>> ELSE << >>])
=============================================================================
