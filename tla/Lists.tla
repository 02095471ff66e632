------------------------------- MODULE Lists --------------------------------
(* What the pages do with lists.                                           *)
EXTENDS Integers, Sequences

(* filter(): the elements of s that are in S, in their order.  (SelectSeq  *)
(* with a set in place of its test.)                                       *)
Filtered(s, S) ==
    LET kept[n \in 0 .. Len(s)] ==
            IF n = 0 THEN <<>>
            ELSE IF s[n] \in S THEN Append(kept[n - 1], s[n]) ELSE kept[n - 1]
    IN kept[Len(s)]
=============================================================================
