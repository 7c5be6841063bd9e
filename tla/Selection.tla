------------------------------ MODULE Selection ------------------------------
(***************************************************************************)
(* What the loops of the code that filter and join sequences compute, as   *)
(* recursive functions: the provers know nothing of SelectSeq, and an      *)
(* operator with a parameter is none that a proof by induction can name.   *)
(***************************************************************************)
EXTENDS Integers, Sequences

(* The elements of a sequence at some of its positions.                    *)
PickedUpTo(seq, positions) ==
  LET upTo[n \in 0..Len(seq)] ==
        IF n = 0 THEN <<>>
        ELSE IF n \in positions THEN Append(upTo[n - 1], seq[n]) ELSE upTo[n - 1]
  IN upTo

Picked(seq, positions) == PickedUpTo(seq, positions)[Len(seq)]

(* The sequences of a sequence, one after the other.                       *)
ConcatenatedUpTo(seqs) ==
  LET upTo[k \in 0..Len(seqs)] == IF k = 0 THEN <<>> ELSE upTo[k - 1] \o seqs[k]
  IN upTo

Concatenated(seqs) == ConcatenatedUpTo(seqs)[Len(seqs)]
=============================================================================
