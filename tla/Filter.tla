------------------------------- MODULE Filter -------------------------------
(***************************************************************************)
(* The loop by which the server picks elements out of a vector, as         *)
(* TaskManager::search_id and TimeSeriesMap::get do.  It is SelectSeq,     *)
(* with the places that pass the test for the test, written out so that    *)
(* proofs can unfold it; MCTaskManager compares the two.                   *)
(***************************************************************************)
EXTENDS Integers, Sequences

\* The elements of s at the places in P, each pushed back as the loop comes to it.
Keep(s, P) ==
    LET kept[i \in 0..Len(s)] ==
            IF i = 0 THEN <<>>
            ELSE IF i \in P THEN Append(kept[i - 1], s[i]) ELSE kept[i - 1]
    IN kept[Len(s)]
=============================================================================
