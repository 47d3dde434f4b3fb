------------------------------- MODULE Lists --------------------------------
(* Loops over Go slices, as functions on sequences.                        *)
EXTENDS Integers, Sequences

(* The members of s that belong to S, in order: the filtering loops of     *)
(* keepCurrent and dropEmptyQueues.                                        *)
Filter(s, S) ==
  LET kept[i \in 0..Len(s)] ==
        IF i = 0 THEN <<>>
        ELSE IF s[i] \in S THEN Append(kept[i-1], s[i])
        ELSE kept[i-1]
  IN  kept[Len(s)]
=============================================================================
