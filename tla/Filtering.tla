----------------------------- MODULE Filtering -----------------------------
(***************************************************************************)
(* The loops of the analyses that keep some of what they read: of the      *)
(* elements of a sequence those in a set, in their order.                  *)
(***************************************************************************)
EXTENDS SequencesExt

Filter(seq, wanted) ==
    FoldLeft(LAMBDA kept, e : IF e \in wanted THEN Append(kept, e) ELSE kept, <<>>, seq)

=============================================================================
