-------------------------- MODULE PaginationProofs --------------------------
(* What a page returns, for every collection, cursor and page size. *)
EXTENDS Pagination, FiniteSetTheorems, TLAPS

\* Older is a strict total order on the documents: created_at decides, then _id.
LEMMA OlderOrder ==
    ASSUME NEW i \in Ids, NEW j \in Ids
    PROVE  /\ ~Older(i, i)
           /\ i = j \/ Older(i, j) \/ Older(j, i)
           /\ ~(Older(i, j) /\ Older(j, i))
           /\ \A k \in Ids : Older(i, j) /\ Older(j, k) => Older(i, k)
  BY IdsAssumption, CreatedAtAssumption DEF Older

\* Every set of documents is finite.
LEMMA FiniteIds ==
    ASSUME NEW S \in SUBSET Ids
    PROVE  IsFiniteSet(S) /\ Cardinality(S) \in Nat
  BY IdsAssumption, FS_Subset, FS_CardinalityType

\* Among documents there is one that none of the others follows: no infinite descent
\* through finite sets.
LEMMA Minimal ==
    ASSUME NEW S \in SUBSET Ids, S # {}, NEW f \in [S -> SUBSET Ids]
    PROVE  \E i \in S : \A j \in S : f[j] \subseteq f[i] => f[j] = f[i]
<1> DEFINE T == {f[i] : i \in S}
<1>1. T \subseteq FiniteSubsetsOf(Ids) /\ T # {}
  BY FiniteIds DEF FiniteSubsetsOf
<1>2. PICK A \in T : \A B \in T : ~(<<B, A>> \in StrictSubsetOrdering(Ids))
  BY <1>1, WFMin, FS_StrictSubsetOrderingWellFounded
<1>3. \A B \in T : B \subseteq A => B = A
  <2> SUFFICES ASSUME NEW B \in T, B \subseteq A, B # A  PROVE FALSE
    OBVIOUS
  <2>1. A \in SUBSET Ids /\ B \in SUBSET Ids
    OBVIOUS
  <2>2. <<B, A>> \in StrictSubsetOrdering(Ids)
    BY <2>1 DEF StrictSubsetOrdering
  <2> QED
    BY <2>2, <1>2
<1>4. PICK i \in S : A = f[i]
  OBVIOUS
<1> QED
  BY <1>3, <1>4

\* Of some documents one is the newest, and one the oldest.
LEMMA NewestExists ==
    ASSUME NEW S \in SUBSET Ids, S # {}
    PROVE  \E i \in S : \A j \in S : j = i \/ Older(j, i)
<1> DEFINE f == [i \in S |-> {j \in S : Older(i, j)}]
<1>0. f \in [S -> SUBSET Ids]
  OBVIOUS
<1> HIDE DEF f
<1>1. PICK i \in S : \A j \in S : f[j] \subseteq f[i] => f[j] = f[i]
  BY <1>0, Minimal
<1>2. ASSUME NEW j \in S, Older(i, j)  PROVE FALSE
  <2>1. f[j] \subseteq f[i]
    BY <1>2, OlderOrder DEF f
  <2>2. j \in f[i] /\ j \notin f[j]
    BY <1>2, OlderOrder DEF f
  <2> QED
    BY <2>1, <2>2, <1>1
<1> QED
  BY <1>2, OlderOrder

LEMMA OldestExists ==
    ASSUME NEW S \in SUBSET Ids, S # {}
    PROVE  \E i \in S : \A j \in S : i = j \/ Older(i, j)
<1> DEFINE f == [i \in S |-> {j \in S : Older(j, i)}]
<1>0. f \in [S -> SUBSET Ids]
  OBVIOUS
<1> HIDE DEF f
<1>1. PICK i \in S : \A j \in S : f[j] \subseteq f[i] => f[j] = f[i]
  BY <1>0, Minimal
<1>2. ASSUME NEW j \in S, Older(j, i)  PROVE FALSE
  <2>1. f[j] \subseteq f[i]
    BY <1>2, OlderOrder DEF f
  <2>2. j \in f[i] /\ j \notin f[j]
    BY <1>2, OlderOrder DEF f
  <2> QED
    BY <2>1, <2>2, <1>1
<1> QED
  BY <1>2, OlderOrder

\* The last document of a page is in the page and follows the others.
LEMMA LastOfPage ==
    ASSUME NEW P \in SUBSET Ids, P # {}
    PROVE  Last(P) \in P /\ \A j \in P : Last(P) = j \/ Older(Last(P), j)
  BY OldestExists DEF Last

-----------------------------------------------------------------------------
(* The first n of some documents *)

\* Who is not among the newest n follows all of them, and at least n are newer.
LEMMA Beyond ==
    ASSUME NEW S \in SUBSET Ids, NEW n \in Nat, NEW i \in S \ Newest(n, S)
    PROVE  /\ \A j \in Newest(n, S) : Older(i, j)
           /\ Cardinality({j \in S : Older(i, j)}) >= n
<1>1. Cardinality({j \in S : Older(i, j)}) >= n
  BY FiniteIds DEF Newest
<1>2. ASSUME NEW j \in Newest(n, S)  PROVE Older(i, j)
  <2>1. j \in S /\ Cardinality({k \in S : Older(j, k)}) < n
    BY DEF Newest
  <2>2. CASE Older(j, i)
    <3>1. {k \in S : Older(i, k)} \subseteq {k \in S : Older(j, k)}
      BY <2>1, <2>2, OlderOrder
    <3>2. Cardinality({k \in S : Older(i, k)}) <= Cardinality({k \in S : Older(j, k)})
      BY <3>1, FiniteIds, FS_Subset
    <3> QED
      BY <3>2, <2>1, <1>1, FiniteIds
  <2>3. i # j
    BY <1>2
  <2> QED
    BY <2>1, <2>2, <2>3, OlderOrder
<1> QED
  BY <1>1, <1>2

\* If any document is left out, the n are complete.
LEMMA EnoughFetched ==
    ASSUME NEW S \in SUBSET Ids, NEW n \in Nat, S # Newest(n, S)
    PROVE  Cardinality(Newest(n, S)) >= n
<1> DEFINE R == S \ Newest(n, S)
<1>1. R \in SUBSET Ids /\ R # {}
  BY DEF Newest
<1>2. PICK i \in R : \A j \in R : j = i \/ Older(j, i)
  BY <1>1, NewestExists
<1>3. {j \in S : Older(i, j)} \subseteq Newest(n, S)
  <2> SUFFICES ASSUME NEW j \in S, Older(i, j)  PROVE j \in Newest(n, S)
    OBVIOUS
  <2>1. j # i /\ ~Older(j, i)
    BY OlderOrder
  <2> QED
    BY <2>1, <1>2
<1>4. Cardinality({j \in S : Older(i, j)}) <= Cardinality(Newest(n, S))
  <2>1. Newest(n, S) \in SUBSET Ids
    BY DEF Newest
  <2> QED
    BY <2>1, <1>3, FiniteIds, FS_Subset
<1>5. Cardinality({j \in S : Older(i, j)}) >= n
  BY Beyond
<1>6. Cardinality({j \in S : Older(i, j)}) \in Nat /\ Cardinality(Newest(n, S)) \in Nat
  BY FiniteIds DEF Newest
<1> QED
  BY <1>4, <1>5, <1>6

-----------------------------------------------------------------------------
(* Pages *)

\* A page has only documents past the cursor; what is past the cursor and not on
\* the page follows all of it, and has_more is true then; a page with more after
\* it is not empty.
LEMMA PageSplits ==
    ASSUME NEW S \in SUBSET Ids, NEW cursor \in Ids \cup {NoCursor},
           NEW limit \in Nat \ {0}
    PROVE  /\ Page(S, cursor, limit) \subseteq Past(S, cursor)
           /\ HasMore(S, cursor, limit) => Page(S, cursor, limit) # {}
           /\ \A i \in Past(S, cursor) \ Page(S, cursor, limit) :
                 /\ HasMore(S, cursor, limit)
                 /\ \A j \in Page(S, cursor, limit) : Older(i, j)
<1> DEFINE T == Past(S, cursor)
           F == Fetched(S, cursor, limit)
           P == Page(S, cursor, limit)
<1>1. T \in SUBSET Ids /\ F = Newest(limit + 1, T) /\ P = Newest(limit, F)
  BY DEF Past, Fetched, Page
<1>2. F \in SUBSET T /\ P \in SUBSET F /\ F \in SUBSET Ids
  BY <1>1 DEF Newest
<1>3. limit \in Nat /\ limit + 1 \in Nat /\ limit > 0
  OBVIOUS
<1>4. Cardinality(F) \in Nat
  BY <1>2, FiniteIds
<1> HIDE DEF T, F, P
<1>5. ASSUME HasMore(S, cursor, limit)  PROVE P # {}
  <2>1. Cardinality(F) > limit
    BY <1>5 DEF HasMore, F
  <2>2. F # {}
    BY <2>1, <1>3, FS_EmptySet
  <2>3. PICK i \in F : \A j \in F : j = i \/ Older(j, i)
    BY <2>2, <1>2, NewestExists
  <2>4. {j \in F : Older(i, j)} = {}
    BY <2>3, <1>2, OlderOrder
  <2>5. i \in P
    BY <2>4, <1>1, <1>3, FS_EmptySet DEF Newest
  <2> QED
    BY <2>5
<1>6. ASSUME NEW i \in T \ P
      PROVE  Cardinality(F) > limit /\ \A j \in P : Older(i, j)
  <2>1. CASE i \in F
    <3>1. (\A j \in P : Older(i, j)) /\ Cardinality({j \in F : Older(i, j)}) >= limit
      BY <2>1, <1>1, <1>2, <1>3, Beyond
    <3>2. {j \in F : Older(i, j)} \subseteq F \ {i}
      BY <1>2, OlderOrder
    <3>3. Cardinality({j \in F : Older(i, j)}) <= Cardinality(F \ {i})
      BY <3>2, <1>2, FiniteIds, FS_Subset
    <3>4. Cardinality(F \ {i}) = Cardinality(F) - 1
      BY <2>1, <1>2, FiniteIds, FS_RemoveElement
    <3>5. Cardinality({j \in F : Older(i, j)}) \in Nat
      BY <1>2, FiniteIds
    <3> QED
      BY <3>1, <3>3, <3>4, <3>5, <1>3, <1>4
  <2>2. CASE i \notin F
    <3>1. \A j \in F : Older(i, j)
      BY <2>2, <1>1, <1>3, Beyond
    <3>2. Cardinality(F) >= limit + 1
      BY <2>2, <1>1, <1>3, EnoughFetched
    <3> QED
      BY <3>1, <3>2, <1>2, <1>3, <1>4
  <2> QED
    BY <2>1, <2>2
<1> QED
  BY <1>2, <1>5, <1>6 DEF HasMore, T, F, P

=============================================================================
