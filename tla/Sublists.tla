------------------------------ MODULE Sublists ------------------------------
(***************************************************************************)
(* Filtering a sequence, as a recursive function: unlike SelectSeq it can  *)
(* be reasoned about in the proofs.                                        *)
(***************************************************************************)
EXTENDS Naturals, Sequences

\* Those of the elements that are wanted, in their order.
Only(s, wanted) ==
  LET Upto[i \in 0 .. Len(s)] ==
        IF i = 0 THEN <<>>
        ELSE IF s[i] \in wanted THEN Append(Upto[i - 1], s[i])
        ELSE Upto[i - 1]
  IN Upto[Len(s)]
=============================================================================
