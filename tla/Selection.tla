------------------------------- MODULE Selection -------------------------------
(***************************************************************************)
(* The elements of a sequence at some of its positions.  It is what        *)
(* SelectSeq computes, written as a function that the proofs can unfold.   *)
(***************************************************************************)
EXTENDS Integers, Sequences

\* Of the first n elements of s those whose positions are in K, in their order.
Selected(s, K, n) ==
  LET among[k \in 0..n] ==
        IF k = 0 THEN <<>>
        ELSE IF k \in K THEN Append(among[k - 1], s[k]) ELSE among[k - 1]
  IN  among[n]
===============================================================================
