--------------------------- MODULE SequenceFilters ---------------------------
(***************************************************************************)
(* The elements of a sequence that are in a set. It is SelectSeq, written   *)
(* as a recursive function of the length of the part read so far, because   *)
(* the provers cannot look inside SelectSeq.                                *)
(***************************************************************************)
EXTENDS Naturals, Sequences

Kept(s, S) ==
    LET kept[n \in 0..Len(s)] ==
          IF n = 0 THEN <<>> ELSE IF s[n] \in S THEN Append(kept[n - 1], s[n]) ELSE kept[n - 1]
    IN kept[Len(s)]
=============================================================================
