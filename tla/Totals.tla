-------------------------------- MODULE Totals --------------------------------
(***************************************************************************)
(* The total of a quantity over a sequence: the rows or the bytes of some  *)
(* tables, the bytes of some pieces.                                       *)
(***************************************************************************)
EXTENDS Integers, Sequences

\* The sum of f over the elements of s, counted from its front.
Total(f, s) ==
    LET upto[i \in 0 .. Len(s)] ==
            IF i = 0 THEN 0 ELSE upto[i - 1] + f[s[i]]
    IN  upto[Len(s)]
=============================================================================
