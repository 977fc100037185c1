----------------------------- MODULE MCListView -----------------------------
(* Instances of ListView for TLC. *)
EXTENDS ListView, TLC

CONSTANTS all, some

\* A filter that passes every row, and one that passes one row.
MatchesAny == all :> Ids @@ some :> {2}

\* The rows by their id, and the other way round.
Orders == "asc" :> SetToSortSeq(Ids, <) @@ "desc" :> SetToSortSeq(Ids, >)
=============================================================================
