------------------------------ MODULE ListFilters -------------------------------
(* What a filter leaves of a list: SelectSeq with a set for its test, by a function *)
(* on the places of the list, which lemmas can be proved of (Inductions).         *)
EXTENDS Integers, Sequences

OnlyUpto(list, S) ==
  LET only[k \in 0 .. Len(list)] ==
        IF k = 0 THEN << >>
        ELSE IF list[k] \in S THEN Append(only[k - 1], list[k]) ELSE only[k - 1]
  IN only

\* The members of the list that are in S, in their order.
Only(list, S) == OnlyUpto(list, S)[Len(list)]

=============================================================================
