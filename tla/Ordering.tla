------------------------------- MODULE Ordering -------------------------------
(***************************************************************************)
(* Lists in an order the code gives them: by sorting, or by going through  *)
(* what they are made of in that order.                                    *)
(***************************************************************************)
EXTENDS Integers, Sequences, SequencesExt

Ascending(i, j) == i < j

\* The elements of S, each once, in the order Before.
InOrder(S, Before(_, _)) ==
  CHOOSE list \in SetToSeqs(S) :
    \A i, j \in DOMAIN list : i < j => Before(list[i], list[j])
=============================================================================
