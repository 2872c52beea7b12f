----------------------------- MODULE Pagination -----------------------------
(***************************************************************************)
(* The page query shared by GetLists, GetTasks, GetActiveTasks,            *)
(* SearchTasks and ListSessions: the newest documents past the cursor, one *)
(* more than the page holds, in the order of (created_at, _id).  A         *)
(* document is its _id, a cursor the _id of the last document of a page:   *)
(* the signed token carries its key, and a client cannot make one up.      *)
(***************************************************************************)
EXTENDS Integers, FiniteSets

CONSTANTS
    Ids,        \* the _ids, ordered as ObjectIDs are
    CreatedAt   \* the created_at minted together with each _id

\* An ObjectID is twelve bytes.
ASSUME IdsAssumption == Ids \subseteq Nat \ {0} /\ IsFiniteSet(Ids)
ASSUME CreatedAtAssumption == CreatedAt \in [Ids -> Nat]

NoCursor == 0

\* Sort by created_at, then _id: i comes after j, newest first.
Older(i, j) ==
    \/ CreatedAt[i] < CreatedAt[j]
    \/ CreatedAt[i] = CreatedAt[j] /\ i < j

\* Mutant of Past: $lte instead of $lt on the _id.
PastOrAt(S, cursor) ==
    {i \in S : cursor # NoCursor => Older(i, cursor) \/ i = cursor}

\* Mutant of Past: compares created_at only.
PastByTime(S, cursor) ==
    {i \in S : cursor # NoCursor => CreatedAt[i] < CreatedAt[cursor]}

\* The $or filter of a request that carries a cursor.
Past(S, cursor) == {i \in S : cursor # NoCursor => Older(i, cursor)}

\* Find(...).SetSort(...).SetLimit(n) over the matching documents S.
Newest(n, S) == {i \in S : Cardinality({j \in S : Older(i, j)}) < n}

\* Mutant of Fetched: not one more than the page holds.
FetchedExactly(S, cursor, limit) == Newest(limit, Past(S, cursor))

\* The handlers fetch limit+1 documents to learn whether there are more.
Fetched(S, cursor, limit) == Newest(limit + 1, Past(S, cursor))
HasMore(S, cursor, limit) == Cardinality(Fetched(S, cursor, limit)) > limit

\* items[:limit]
Page(S, cursor, limit) == Newest(limit, Fetched(S, cursor, limit))

\* next_cursor: the last item of the page when there are more.
Last(P) == CHOOSE i \in P : \A j \in P : i = j \/ Older(i, j)

=============================================================================
