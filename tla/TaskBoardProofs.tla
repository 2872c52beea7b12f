-------------------------- MODULE TaskBoardProofs --------------------------
(***************************************************************************)
(* Proofs about TaskBoard: titles stay unique, traversals show nothing     *)
(* twice and miss nothing that stays, and together they implement the      *)
(* abstract traversal, for every set of documents, users, titles, creates, *)
(* traversals and page sizes.                                              *)
(***************************************************************************)
EXTENDS TaskBoard, PaginationProofs

-----------------------------------------------------------------------------
(* The inductive invariant *)

Traversal == [at : {"idle", "walking", "done", "failed"},
              query : Query \cup {None}, cursor : Ids \cup {NoCursor},
              seen : SUBSET Ids, page : SUBSET Ids, steady : SUBSET Ids]

\* What was shown is not past the cursor; what is steady was shown or is past it.
Tracks(x) ==
    IF x.cursor = NoCursor THEN x.seen = {} /\ x.page = {}
    ELSE /\ \A j \in x.seen \cup x.page : j = x.cursor \/ Older(x.cursor, j)
         /\ \A i \in x.steady : i \in x.seen \cup x.page \/ Older(i, x.cursor)

Good(x) ==
    /\ x.at = "walking" => Tracks(x)
    /\ \A i \in x.page, j \in x.seen : Older(i, j)
    /\ x.at = "done" => x.steady \subseteq x.seen \cup x.page

\* The ghost "steady" of a running traversal holds documents that match now.
SteadyMatches == \A w \in Walks : walk[w].at = "walking" => walk[w].steady \subseteq Matching(walk[w].query)

\* A create inserts under the _id it minted.
PendingMinted == \A c \in Creates : pending[c] # None => pending[c].id \in used

IInv ==
    /\ TypeOK
    /\ PendingMinted
    /\ UniqueTitles
    /\ SteadyMatches
    /\ \A w \in Walks : Good(walk[w])

\* The invariant holds what the runs check.
LEMMA IInvImplies ==
    ASSUME IInv
    PROVE  TypeOK /\ UniqueTitles /\ NewestFirst /\ Complete
  BY DEF IInv, Good, NewestFirst, Complete

-----------------------------------------------------------------------------
(* One page *)

\* What FetchPage answers keeps the traversal on track.
LEMMA FetchTracks ==
    ASSUME NEW x \in Traversal, Good(x), x.at = "walking",
           NEW S \in SUBSET Ids, x.steady \subseteq S, NEW limit \in Nat \ {0},
           NEW y, y = [at |-> IF HasMore(S, x.cursor, limit) THEN "walking" ELSE "done",
                       query |-> x.query,
                       cursor |-> IF HasMore(S, x.cursor, limit)
                                  THEN Last(Page(S, x.cursor, limit)) ELSE NoCursor,
                       seen |-> x.seen \cup x.page,
                       page |-> Page(S, x.cursor, limit),
                       steady |-> x.steady]
    PROVE  /\ y \in Traversal /\ Good(y)
           /\ \A i \in y.page, j \in x.seen \cup x.page : Older(i, j)
           /\ y.at = "walking" => y.page # {}
<1> DEFINE P == Page(S, x.cursor, limit)
           T == Past(S, x.cursor)
           shown == x.seen \cup x.page
           more == HasMore(S, x.cursor, limit)
<1>1. /\ x.cursor \in Ids \cup {NoCursor} /\ shown \in SUBSET Ids
      /\ x.steady \in SUBSET Ids /\ x.query \in Query \cup {None}
  BY DEF Traversal
<1>2. /\ P \subseteq T
      /\ more => P # {}
      /\ \A i \in T \ P : more /\ \A j \in P : Older(i, j)
  BY <1>1, PageSplits
<1>3. T \in SUBSET Ids /\ T = {i \in S : x.cursor # NoCursor => Older(i, x.cursor)}
  BY DEF Past
<1>4. P \in SUBSET Ids
  BY <1>2, <1>3
<1>5. more => Last(P) \in P /\ \A j \in P : Last(P) = j \/ Older(Last(P), j)
  BY <1>2, <1>4, LastOfPage
<1>6. Tracks(x)
  BY DEF Good
<1>7. \A i \in P, j \in shown : Older(i, j)
  <2> SUFFICES ASSUME NEW i \in P, NEW j \in shown  PROVE Older(i, j)
    OBVIOUS
  <2>1. x.cursor # NoCursor
    BY <1>6 DEF Tracks
  <2>2. x.cursor \in Ids /\ Older(i, x.cursor)
    BY <2>1, <1>1, <1>2, <1>3
  <2>3. j = x.cursor \/ Older(x.cursor, j)
    BY <2>1, <1>6 DEF Tracks
  <2> QED
    BY <2>2, <2>3, <1>1, <1>4, OlderOrder
<1>8. \A i \in x.steady : i \in shown \/ i \in T
  BY <1>3, <1>6 DEF Tracks
<1>9. y.at = (IF more THEN "walking" ELSE "done") /\ y.seen = shown /\ y.page = P
      /\ y.cursor = (IF more THEN Last(P) ELSE NoCursor) /\ y.steady = x.steady
  OBVIOUS
<1> HIDE DEF P, T, shown, more
<1>10. y \in Traversal
  <2>1. (IF more THEN Last(P) ELSE NoCursor) \in Ids \cup {NoCursor}
    BY <1>4, <1>5
  <2> QED
    BY <2>1, <1>1, <1>4 DEF Traversal, P, shown, more
<1>11. CASE more
  <2>1. y.cursor \in P /\ y.cursor \in Ids /\ y.cursor # NoCursor
    BY <1>11, <1>9, <1>5, <1>4, IdsAssumption DEF NoCursor
  <2>2. \A j \in y.seen \cup y.page : j = y.cursor \/ Older(y.cursor, j)
    BY <2>1, <1>11, <1>9, <1>5, <1>7
  <2>3. \A i \in y.steady : i \in y.seen \cup y.page \/ Older(i, y.cursor)
    BY <2>1, <1>9, <1>8, <1>2
  <2> QED
    BY <2>1, <2>2, <2>3, <1>7, <1>9, <1>10, <1>11 DEF Good, Tracks
<1>12. CASE ~more
  <2>1. y.steady \subseteq y.seen \cup y.page
    BY <1>12, <1>8, <1>9, <1>2
  <2> QED
    BY <2>1, <1>7, <1>9, <1>10, <1>12 DEF Good
<1>13. y.page = P
  BY DEF P
<1> QED
  BY <1>2, <1>7, <1>9, <1>11, <1>12, <1>13 DEF shown

-----------------------------------------------------------------------------
(* Steps *)

\* The initial state satisfies the invariant.
LEMMA InitInv == ASSUME Init PROVE IInv
<1> USE DEF Init
<1>1. TypeOK
  BY DEF TypeOK, Stored, NoWalk, NewWalk, NoCursor
<1>2. PendingMinted /\ UniqueTitles
  BY DEF PendingMinted, UniqueTitles, Stored
<1>3. SteadyMatches /\ \A w \in Walks : Good(walk[w])
  BY DEF SteadyMatches, Good, NoWalk, NewWalk
<1> QED
  BY <1>1, <1>2, <1>3 DEF IInv

\* Stored documents are documents.
LEMMA StoredDocs ==
    ASSUME TypeOK
    PROVE  /\ Stored \in SUBSET Ids
           /\ \A i \in Stored : docs[i] \in Doc
           /\ \A q : Matching(q) \in SUBSET Ids
  BY DEF TypeOK, Stored, Matching

\* A write of a minted document that collides with none keeps the documents typed
\* and their titles unique, and every traversal on track.
LEMMA WriteKeeps ==
    ASSUME IInv, NEW i \in Ids, NEW d \in Doc \cup {None}, Write(i, d),
           d # None => i \in used /\ ~Taken(i, d)
    PROVE  /\ docs' \in [Ids -> Doc \cup {None}]
           /\ Stored' \subseteq used
           /\ UniqueTitles'
           /\ walk' \in [Walks -> Traversal]
           /\ SteadyMatches'
           /\ \A w \in Walks : Good(walk'[w])
<1>1. /\ docs \in [Ids -> Doc \cup {None}] /\ walk \in [Walks -> Traversal]
      /\ Stored \subseteq used /\ Stored \in SUBSET Ids
  BY StoredDocs DEF IInv, TypeOK, Traversal
<1>2. docs' = [docs EXCEPT ![i] = d]
  BY DEF Write
<1>3. docs' \in [Ids -> Doc \cup {None}]
  BY <1>1, <1>2
<1>4. Stored' = IF d = None THEN Stored \ {i} ELSE Stored \cup {i}
  BY <1>1, <1>2 DEF Stored
<1>5. UniqueTitles'
  <2> SUFFICES ASSUME NEW j \in Stored', NEW k \in Stored', Key(docs'[j]) = Key(docs'[k]), j # k,
                      Titled(docs'[j])
               PROVE  FALSE
    BY DEF UniqueTitles, Key, Titled
  <2>0. Titled(docs'[k])
    BY DEF Key, Titled
  <2>1. CASE j # i /\ k # i
    <3>1. j \in Stored /\ k \in Stored /\ docs'[j] = docs[j] /\ docs'[k] = docs[k]
      BY <2>1, <1>1, <1>2, <1>4
    <3> QED
      BY <3>1 DEF IInv, UniqueTitles
  <2>2. CASE j = i
    <3>1. d # None /\ k \in Stored \ {i} /\ docs'[k] = docs[k] /\ docs'[j] = d
      BY <2>2, <1>1, <1>2, <1>4
    <3> QED
      BY <2>0, <3>1 DEF Taken
  <2>3. CASE k = i
    <3>1. d # None /\ j \in Stored \ {i} /\ docs'[j] = docs[j] /\ docs'[k] = d
      BY <2>3, <1>1, <1>2, <1>4
    <3> QED
      BY <2>0, <3>1 DEF Taken
  <2> QED
    BY <2>1, <2>2, <2>3
<1>6. ASSUME NEW w \in Walks
      PROVE  /\ walk'[w] \in Traversal /\ Good(walk'[w])
             /\ walk'[w].at = "walking" => (walk[w].steady \subseteq Matching(walk[w].query))'
  <2>1. walk[w] \in Traversal /\ Good(walk[w])
    BY <1>1 DEF IInv
  <2>2. CASE walk[w].at # "walking"
    BY <2>1, <2>2 DEF Write
  <2>3. CASE walk[w].at = "walking"
    <3>1. walk'[w] = [walk[w] EXCEPT !.steady = StillSteady(w, i, d)]
      BY <2>3 DEF Write
    <3>2. StillSteady(w, i, d) \subseteq walk[w].steady /\ walk[w].steady \in SUBSET Ids
      BY <2>1 DEF StillSteady, Traversal
    <3>3. walk'[w] \in Traversal
      BY <2>1, <3>1, <3>2 DEF Traversal
    <3>4. Good(walk'[w])
      BY <2>1, <2>3, <3>1, <3>2 DEF Good, Tracks, Traversal
    <3>5. (walk[w].steady \subseteq Matching(walk[w].query))'
      <4>0. walk'[w].steady = StillSteady(w, i, d) /\ walk'[w].query = walk[w].query
        BY <2>1, <3>1 DEF Traversal
      <4> SUFFICES ASSUME NEW j \in StillSteady(w, i, d)
                   PROVE  j \in Stored' /\ Matches(docs'[j], walk[w].query)
        BY <4>0 DEF Matching, Matches
      <4>1. j \in Stored /\ Matches(docs[j], walk[w].query)
        BY <2>3, <3>2 DEF IInv, SteadyMatches, Matching
      <4>2. j # i \/ (d # None /\ Matches(d, walk[w].query))
        BY DEF StillSteady
      <4> QED
        BY <4>1, <4>2, <1>1, <1>2, <1>4
    <3> QED
      BY <3>3, <3>4, <3>5
  <2> QED
    BY <2>2, <2>3
<1>7. walk' \in [Walks -> Traversal]
  BY <1>6 DEF Write
<1>8. SteadyMatches'
  BY <1>6 DEF SteadyMatches
<1>9. Stored' \subseteq used
  BY <1>1, <1>4
<1> QED
  BY <1>3, <1>5, <1>6, <1>7, <1>8, <1>9

\* A change by one of the handlers of existing documents.
LEMMA ChangeKeeps ==
    ASSUME IInv, NEW i \in Stored, NEW d \in Doc \cup {None}, Write(i, d),
           d # None => ~Taken(i, d), UNCHANGED <<now, used, pending>>
    PROVE  IInv'
<1>1. i \in Ids /\ i \in used
  BY StoredDocs DEF IInv, TypeOK
<1>2. /\ docs' \in [Ids -> Doc \cup {None}] /\ Stored' \subseteq used /\ UniqueTitles'
      /\ walk' \in [Walks -> Traversal] /\ SteadyMatches' /\ \A w \in Walks : Good(walk'[w])
  BY <1>1, WriteKeeps
<1>3. TypeOK'
  BY <1>2 DEF IInv, TypeOK, Traversal
<1>4. PendingMinted'
  BY DEF IInv, PendingMinted
<1> QED
  BY <1>2, <1>3, <1>4 DEF IInv

\* What UpdateTask may write is a task document again.
LEMMA UpdatedDocs ==
    ASSUME NEW d \in Doc, NEW e \in Updated(d)
    PROVE  e \in Doc
  BY RefsAssumption DEF Doc, Updated

\* A traversal that starts has seen nothing, and what matches now is steady.
LEMMA StartKeeps ==
    ASSUME IInv, NEW w \in Walks, NEW q \in Requests, StartWalk(w, q)
    PROVE  IInv'
<1> DEFINE x == NewWalk("walking", q, Matching(q))
<1>1. q \in Query
  BY RefsAssumption DEF Requests, GetLists, GetTasks, GetActiveTasks, SearchTasks, ListSessions, Query
<1>2. walk' = [walk EXCEPT ![w] = x] /\ UNCHANGED <<now, docs, used, pending>>
  BY DEF StartWalk
<1>3. x = [at |-> "walking", query |-> q, cursor |-> NoCursor, seen |-> {}, page |-> {},
           steady |-> Matching(q)]
  BY DEF NewWalk
<1> HIDE DEF x
<1>4. Matching(q) \in SUBSET Ids
  BY StoredDocs DEF IInv
<1>5. x \in Traversal /\ Good(x)
  BY <1>1, <1>3, <1>4 DEF Traversal, Good, Tracks
<1>6. walk \in [Walks -> Traversal]
  BY DEF IInv, TypeOK, Traversal
<1>7. TypeOK'
  BY <1>2, <1>5, <1>6 DEF IInv, TypeOK, Traversal, Stored
<1>8. \A v \in Walks : Good(walk'[v])
  BY <1>2, <1>5, <1>6 DEF IInv
<1>9. SteadyMatches'
  <2> SUFFICES ASSUME NEW v \in Walks, walk'[v].at = "walking"
               PROVE  walk'[v].steady \subseteq Matching(walk'[v].query)
    BY <1>2 DEF SteadyMatches, Matching, Stored
  <2>1. CASE v = w
    BY <2>1, <1>2, <1>3, <1>6
  <2>2. CASE v # w
    BY <2>2, <1>2, <1>6 DEF IInv, SteadyMatches
  <2> QED
    BY <2>1, <2>2
<1> QED
  BY <1>2, <1>7, <1>8, <1>9 DEF IInv, PendingMinted, UniqueTitles, Stored

\* A page keeps its traversal on track.
LEMMA FetchKeeps ==
    ASSUME IInv, NEW w \in Walks, NEW limit \in Limits, FetchPage(w, limit)
    PROVE  IInv'
<1> DEFINE x == walk[w]
           S == Matching(x.query)
           more == HasMore(S, x.cursor, limit)
           y == [at |-> IF more THEN "walking" ELSE "done", query |-> x.query,
                 cursor |-> IF more THEN Last(Page(S, x.cursor, limit)) ELSE NoCursor,
                 seen |-> x.seen \cup x.page, page |-> Page(S, x.cursor, limit),
                 steady |-> x.steady]
           failed == NoWalk("failed")
<1>1. walk \in [Walks -> Traversal] /\ x \in Traversal /\ Good(x)
  BY DEF IInv, TypeOK, Traversal
<1>2. x.at = "walking" /\ UNCHANGED <<now, docs, used, pending>>
  BY DEF FetchPage
<1>3. S \in SUBSET Ids /\ x.steady \subseteq S /\ limit \in Nat \ {0}
  BY <1>2, StoredDocs, LimitsAssumption DEF IInv, SteadyMatches
<1>4. y \in Traversal /\ Good(y)
  BY <1>1, <1>2, <1>3, FetchTracks
<1>5. failed \in Traversal /\ Good(failed)
  BY DEF NoWalk, NewWalk, NoCursor, Traversal, Good
<1>6. walk' = [walk EXCEPT ![w] = y] \/ walk' = [walk EXCEPT ![w] = failed]
  BY DEF FetchPage
<1>7. walk' \in [Walks -> Traversal] /\ \A v \in Walks : Good(walk'[v])
  BY <1>1, <1>4, <1>5, <1>6 DEF IInv
<1>8. TypeOK'
  BY <1>2, <1>7 DEF IInv, TypeOK, Traversal, Stored
<1>9. SteadyMatches'
  <2> SUFFICES ASSUME NEW v \in Walks, walk'[v].at = "walking"
               PROVE  walk'[v].steady \subseteq Matching(walk'[v].query)
    BY <1>2 DEF SteadyMatches, Matching, Stored
  <2>1. CASE v = w
    <3>1. walk'[v] = y
      BY <2>1, <1>1, <1>6 DEF NoWalk, NewWalk
    <3> QED
      BY <3>1, <1>3
  <2>2. CASE v # w
    BY <2>2, <1>1, <1>6 DEF IInv, SteadyMatches
  <2> QED
    BY <2>1, <2>2
<1> QED
  BY <1>2, <1>7, <1>8, <1>9 DEF IInv, PendingMinted, UniqueTitles, Stored

\* A create that starts mints an _id; nothing is written yet.
LEMMA CreateKeeps ==
    ASSUME IInv, NEW c \in Creates, NEW i \in Ids, NEW d \in Doc, Mint(i),
           NEW step \in {"count", "insert"}, Prepare(c, step, i, d),
           UNCHANGED <<now, docs, walk>>
    PROVE  IInv'
<1> DEFINE x == [at |-> step, id |-> i, doc |-> d]
<1>1. used' = used \cup {i} /\ pending' = [pending EXCEPT ![c] = x]
  BY DEF Mint, Prepare
<1>2. x \in Create /\ x.id = i
  BY DEF Create
<1> HIDE DEF x
<1>3. TypeOK'
  BY <1>1, <1>2 DEF IInv, TypeOK, Stored
<1>4. PendingMinted'
  BY <1>1, <1>2 DEF IInv, PendingMinted, TypeOK
<1> QED
  BY <1>3, <1>4 DEF IInv, UniqueTitles, Stored, SteadyMatches, Matching

\* A count writes nothing: the create goes on with what it carries, or ends.
LEMMA CountKeeps ==
    ASSUME IInv, NEW c \in Creates, CountTask(c)
    PROVE  IInv'
<1> DEFINE x == [pending[c] EXCEPT !.at = "insert"]
<1>1. pending[c] \in Create /\ pending[c].id \in used
  BY DEF CountTask, Doing, IInv, TypeOK, PendingMinted
<1>2. x \in Create /\ x.id \in used
  BY <1>1 DEF Create
<1>3. pending' = [pending EXCEPT ![c] = x] \/ pending' = [pending EXCEPT ![c] = None]
  BY DEF CountTask
<1>4. UNCHANGED <<now, docs, used, walk>>
  BY DEF CountTask
<1> HIDE DEF x
<1>5. TypeOK'
  BY <1>2, <1>3, <1>4 DEF IInv, TypeOK, Stored
<1>6. PendingMinted'
  BY <1>2, <1>3, <1>4 DEF IInv, PendingMinted, TypeOK
<1> QED
  BY <1>4, <1>5, <1>6 DEF IInv, UniqueTitles, Stored, SteadyMatches, Matching

\* An insert writes the minted document or nothing.
LEMMA InsertKeeps ==
    ASSUME IInv, NEW c \in Creates, Insert(c)
    PROVE  IInv'
<1> DEFINE i == pending[c].id
           d == pending[c].doc
<1>1. i \in Ids /\ d \in Doc /\ i \in used /\ d # None
  BY NoneIsNoDoc DEF Insert, Doing, IInv, TypeOK, PendingMinted, Create
<1>2. pending' = [pending EXCEPT ![c] = None] /\ UNCHANGED <<now, used>>
  BY DEF Insert
<1>3. PendingMinted'
  BY <1>2 DEF IInv, PendingMinted, TypeOK
<1>4. CASE ~Taken(i, d) /\ Write(i, d)
  <2>1. /\ docs' \in [Ids -> Doc \cup {None}] /\ Stored' \subseteq used /\ UniqueTitles'
        /\ walk' \in [Walks -> Traversal] /\ SteadyMatches' /\ \A w \in Walks : Good(walk'[w])
    BY <1>1, <1>4, WriteKeeps
  <2>2. TypeOK'
    BY <1>2, <2>1 DEF IInv, TypeOK, Traversal
  <2> QED
    BY <2>1, <2>2, <1>3 DEF IInv
<1>5. CASE UNCHANGED <<docs, walk>>
  <2>1. TypeOK'
    BY <1>2, <1>5 DEF IInv, TypeOK, Stored
  <2> QED
    BY <2>1, <1>3, <1>5 DEF IInv, UniqueTitles, Stored, SteadyMatches, Matching
<1> QED
  BY <1>4, <1>5 DEF Insert

\* Every step keeps the invariant.
LEMMA NextInv ==
    ASSUME IInv, [Next]_vars
    PROVE  IInv'
<1>1. ASSUME NEW c \in Creates, NEW i \in Ids, NEW u \in Users, NEW t \in Titles,
             StartCreateList(c, i, u, t)
      PROVE  IInv'
  <2>1. List(u, t) \in Doc
    BY DEF List, Made, Doc
  <2> QED
    BY <2>1, <1>1, CreateKeeps DEF StartCreateList
<1>2. ASSUME NEW c \in Creates, NEW i \in Ids, NEW u \in Users, NEW t \in Titles,
             NEW l \in ListRefs, StartCreateTask(c, i, u, t, l)
      PROVE  IInv'
  <2>1. Task(u, t, l) \in Doc
    BY RefsAssumption DEF Task, Made, Doc
  <2> QED
    BY <2>1, <1>2, CreateKeeps DEF StartCreateTask
<1>11. ASSUME NEW c \in Creates, NEW i \in Ids, NEW u \in Users, StartSession(c, i, u)
       PROVE  IInv'
  <2>1. Session(u) \in Doc
    BY DEF Session, Made, Doc
  <2> QED
    BY <2>1, <1>11, CreateKeeps DEF StartSession
<1>3. ASSUME NEW c \in Creates, Insert(c)  PROVE IInv'
  BY <1>3, InsertKeeps
<1>12. ASSUME NEW c \in Creates, CountTask(c)  PROVE IInv'
  BY <1>12, CountKeeps
<1>4. ASSUME NEW u \in Users, NEW i \in Ids, NEW t \in Titles, UpdateList(u, i, t)  PROVE IInv'
  <2> DEFINE d == [docs[i] EXCEPT !.title = t]
  <2>1. i \in Stored /\ d \in Doc
    BY <1>4, StoredDocs DEF IInv, UpdateList, Owned, Doc
  <2> QED
    BY <2>1, <1>4, ChangeKeeps DEF UpdateList
<1>5. ASSUME NEW u \in Users, NEW i \in Ids, UpdateTask(u, i)  PROVE IInv'
  <2>1. i \in Stored /\ docs[i] \in Doc
    BY <1>5, StoredDocs DEF IInv, UpdateTask, Owned
  <2>2. PICK d \in Updated(docs[i]) : ~Taken(i, d) /\ Write(i, d)
    BY <1>5 DEF UpdateTask
  <2>3. d \in Doc
    BY <2>1, UpdatedDocs
  <2> QED
    BY <2>1, <2>2, <2>3, <1>5, ChangeKeeps DEF UpdateTask
<1>6. ASSUME NEW u \in Users, NEW i \in Ids,
             DeleteList(u, i) \/ DeleteTask(u, i) \/ EndSession(u, i)
      PROVE  IInv'
  <2>1. i \in Stored /\ Write(i, None) /\ UNCHANGED <<now, used, pending>>
    BY <1>6 DEF DeleteList, DeleteTask, EndSession, Owned
  <2> QED
    BY <2>1, ChangeKeeps
<1>7. ASSUME NEW w \in Walks, NEW q \in Requests, StartWalk(w, q)  PROVE IInv'
  BY <1>7, StartKeeps
<1>8. ASSUME NEW w \in Walks, NEW limit \in Limits, FetchPage(w, limit)  PROVE IInv'
  BY <1>8, FetchKeeps
<1>9. CASE Tick
  BY <1>9 DEF Tick, IInv, TypeOK, PendingMinted, UniqueTitles, Stored, SteadyMatches, Matching
<1>10. CASE UNCHANGED vars
  BY <1>10 DEF vars, IInv, TypeOK, PendingMinted, UniqueTitles, Stored, SteadyMatches, Matching
<1> QED
  BY <1>1, <1>2, <1>3, <1>4, <1>5, <1>6, <1>7, <1>8, <1>9, <1>10, <1>11, <1>12 DEF Next

\* The invariant holds in every reachable state.
LEMMA Invariant == Spec => []IInv
<1>1. Init => IInv
  BY InitInv
<1>2. IInv /\ [Next]_vars => IInv'
  BY NextInv
<1> QED
  BY <1>1, <1>2, PTL DEF Spec

-----------------------------------------------------------------------------
(* The abstract traversal *)

\* What a traversal has shown.
Shown(x) == x.seen \cup x.page

\* At first no traversal has begun.
LEMMA InitMaps == ASSUME Init PROVE Abstract!Init
  BY DEF Init, NoWalk, NewWalk, Abstract!Init

\* A step that leaves the traversals alone, or takes what changed from what is
\* steady, is a change of the collection.
LEMMA ChangeMaps ==
    ASSUME \A w \in Walks : /\ walk'[w].at = walk[w].at /\ Shown(walk'[w]) = Shown(walk[w])
                            /\ walk'[w].steady \subseteq walk[w].steady
    PROVE  Abstract!Change
  BY DEF Abstract!Change, Shown

\* Writes are such steps.
LEMMA WriteMaps ==
    ASSUME IInv, NEW i, NEW d, Write(i, d)
    PROVE  Abstract!Change
<1>1. ASSUME NEW w \in Walks
      PROVE  /\ walk'[w].at = walk[w].at /\ Shown(walk'[w]) = Shown(walk[w])
             /\ walk'[w].steady \subseteq walk[w].steady
  <2>1. walk[w] \in Traversal
    BY DEF IInv, TypeOK, Traversal
  <2>2. walk'[w] = walk[w] \/ walk'[w] = [walk[w] EXCEPT !.steady = StillSteady(w, i, d)]
    BY DEF Write
  <2>3. StillSteady(w, i, d) \subseteq walk[w].steady
    BY DEF StillSteady
  <2> QED
    BY <2>1, <2>2, <2>3 DEF Traversal, Shown
<1> QED
  BY <1>1, ChangeMaps

\* One traversal steps.
LEMMA MovesMaps ==
    ASSUME IInv, NEW w \in Walks, NEW y \in Traversal, walk' = [walk EXCEPT ![w] = y]
    PROVE  Abstract!Moves(w, y.at) /\ walk'[w] = y
<1>1. walk \in [Walks -> Traversal]
  BY DEF IInv, TypeOK, Traversal
<1>2. walk'[w] = y /\ \A v \in Walks \ {w} : walk'[v] = walk[v]
  BY <1>1
<1>3. [v \in Walks |-> walk'[v].at] = [[v \in Walks |-> walk[v].at] EXCEPT ![w] = y.at]
  BY <1>1, <1>2
<1> QED
  BY <1>2, <1>3 DEF Abstract!Moves, Shown

\* StartWalk begins a traversal.
LEMMA StartMaps ==
    ASSUME IInv, NEW w \in Walks, NEW q \in Requests, StartWalk(w, q)
    PROVE  Abstract!Begin(w)
<1> DEFINE x == NewWalk("walking", q, Matching(q))
<1>1. x = [at |-> "walking", query |-> q, cursor |-> NoCursor, seen |-> {}, page |-> {},
           steady |-> Matching(q)]
  BY DEF NewWalk
<1>2. q \in Query /\ Matching(q) \in SUBSET Ids
  BY RefsAssumption, StoredDocs
  DEF IInv, Requests, GetLists, GetTasks, GetActiveTasks, SearchTasks, ListSessions, Query
<1>3. walk' = [walk EXCEPT ![w] = x] /\ walk[w].at # "walking"
  BY DEF StartWalk
<1> HIDE DEF x
<1>4. x \in Traversal /\ x.at = "walking" /\ Shown(x) = {}
  BY <1>1, <1>2 DEF Traversal, Shown
<1>5. Abstract!Moves(w, "walking") /\ walk'[w] = x
  BY <1>3, <1>4, MovesMaps
<1> QED
  BY <1>3, <1>4, <1>5 DEF Abstract!Begin, Shown

\* A page that continues a traversal or finishes it.
LEMMA PageMaps ==
    ASSUME IInv, NEW w \in Walks, NEW y \in Traversal, Good(y), walk[w].at = "walking",
           walk' = [walk EXCEPT ![w] = y],
           y.at \in {"walking", "done"},
           y.at = "walking" => y.page # {},
           Shown(y) = Shown(walk[w]) \cup y.page,
           y.steady = walk[w].steady,
           \A i \in y.page, j \in Shown(walk[w]) : Older(i, j)
    PROVE  Abstract!Continue(w) \/ Abstract!Finish(w)
<1>1. Abstract!Moves(w, y.at) /\ walk'[w] = y
  BY MovesMaps
<1>2. y.page \in SUBSET Ids /\ Shown(walk[w]) \in SUBSET Ids
  BY DEF IInv, TypeOK, Traversal, Shown
<1>3. \A i \in y.page : i \notin Shown(walk[w])
  BY <1>2, OlderOrder
<1>4. Abstract!Page(w)
  BY <1>1 DEF Abstract!Page, Abstract!Before, Shown, Older
<1>5. CASE y.at = "walking"
  <2>1. Shown(walk'[w]) # Shown(walk[w])
    BY <1>1, <1>3, <1>5
  <2>2. Abstract!Moves(w, "walking")
    BY <1>1, <1>5
  <2> QED
    BY <2>1, <2>2, <1>4 DEF Abstract!Continue, Shown
<1>6. CASE y.at = "done"
  <2>1. walk[w].steady \subseteq Shown(walk'[w])
    BY <1>1, <1>6 DEF Good, Shown
  <2>2. Abstract!Moves(w, "done")
    BY <1>1, <1>6
  <2> QED
    BY <2>1, <2>2, <1>4 DEF Abstract!Finish, Shown
<1> QED
  BY <1>5, <1>6

\* FetchPage continues a traversal, finishes it or fails.
LEMMA FetchMaps ==
    ASSUME IInv, NEW w \in Walks, NEW limit \in Limits, FetchPage(w, limit)
    PROVE  Abstract!Continue(w) \/ Abstract!Finish(w) \/ Abstract!Fail(w)
<1> DEFINE x == walk[w]
           S == Matching(x.query)
           more == HasMore(S, x.cursor, limit)
           y == [at |-> IF more THEN "walking" ELSE "done", query |-> x.query,
                 cursor |-> IF more THEN Last(Page(S, x.cursor, limit)) ELSE NoCursor,
                 seen |-> x.seen \cup x.page, page |-> Page(S, x.cursor, limit),
                 steady |-> x.steady]
           failed == NoWalk("failed")
<1>1. x \in Traversal /\ Good(x) /\ x.at = "walking"
  BY DEF IInv, TypeOK, Traversal, FetchPage
<1>2. S \in SUBSET Ids /\ x.steady \subseteq S /\ limit \in Nat \ {0}
  BY <1>1, StoredDocs, LimitsAssumption DEF IInv, SteadyMatches
<1>3. /\ y \in Traversal /\ Good(y)
      /\ \A i \in y.page, j \in Shown(x) : Older(i, j)
      /\ y.at = "walking" => y.page # {}
  BY <1>1, <1>2, FetchTracks DEF Shown
<1>4. walk' = [walk EXCEPT ![w] = y] \/ walk' = [walk EXCEPT ![w] = failed]
  BY DEF FetchPage
<1>5. /\ Shown(y) = Shown(x) \cup y.page /\ y.steady = x.steady
      /\ y.at \in {"walking", "done"}
  BY DEF Shown
<1>6. failed \in Traversal /\ failed.at = "failed"
  BY DEF NoWalk, NewWalk, NoCursor, Traversal
<1> HIDE DEF y, failed
<1>7. CASE walk' = [walk EXCEPT ![w] = failed]
  <2>1. Abstract!Moves(w, "failed")
    BY <1>6, <1>7, MovesMaps
  <2> QED
    BY <2>1, <1>1 DEF Abstract!Fail
<1>8. CASE walk' = [walk EXCEPT ![w] = y]
  BY <1>1, <1>3, <1>5, <1>8, PageMaps
<1> QED
  BY <1>4, <1>7, <1>8

\* Every step is a step of the abstract traversals.
LEMMA StepMaps ==
    ASSUME IInv, [Next]_vars
    PROVE  Abstract!Next
<1>1. CASE UNCHANGED walk
  <2>1. Abstract!Change
    BY <1>1, ChangeMaps
  <2> QED
    BY <2>1 DEF Abstract!Next
<1>2. CASE \E i, d : Write(i, d)
  <2>1. Abstract!Change
    BY <1>2, WriteMaps
  <2> QED
    BY <2>1 DEF Abstract!Next
<1>3. ASSUME NEW w \in Walks, NEW q \in Requests, StartWalk(w, q)
      PROVE  Abstract!Next
  BY <1>3, StartMaps DEF Abstract!Next
<1>4. ASSUME NEW w \in Walks, NEW limit \in Limits, FetchPage(w, limit)
      PROVE  Abstract!Next
  BY <1>4, FetchMaps DEF Abstract!Next
<1>5. ASSUME NEW u \in Users, NEW i \in Ids,
             \/ \E t \in Titles : UpdateList(u, i, t)
             \/ UpdateTask(u, i) \/ DeleteList(u, i) \/ DeleteTask(u, i) \/ EndSession(u, i)
      PROVE  \E j, d : Write(j, d)
  BY <1>5 DEF UpdateList, UpdateTask, DeleteList, DeleteTask, EndSession
<1>6. ASSUME NEW c \in Creates, Insert(c)
      PROVE  UNCHANGED walk \/ \E i, d : Write(i, d)
  BY <1>6 DEF Insert
<1>9. ASSUME NEW c \in Creates, CountTask(c)
      PROVE  UNCHANGED walk
  BY <1>9 DEF CountTask
<1>7. ASSUME NEW c \in Creates, NEW i \in Ids, NEW u \in Users,
             \/ \E t \in Titles : \/ StartCreateList(c, i, u, t)
                                 \/ \E l \in ListRefs : StartCreateTask(c, i, u, t, l)
             \/ StartSession(c, i, u)
      PROVE  UNCHANGED walk
  BY <1>7 DEF StartCreateList, StartCreateTask, StartSession
<1>8. Tick \/ UNCHANGED vars => UNCHANGED walk
  BY DEF Tick, vars
<1> QED
  BY <1>1, <1>2, <1>3, <1>4, <1>5, <1>6, <1>7, <1>8, <1>9 DEF Next

-----------------------------------------------------------------------------
(* Theorems *)

\* The state has its shape: every document in a collection was minted by a create
\* handler, which carries a document of its kind until the insert, and a
\* traversal has a cursor that some document was given or none.
THEOREM TypeCorrect == Spec => []TypeOK
  BY Invariant, IInvImplies, PTL

\* Overlapping creates and changes never leave two documents with one key of the
\* unique index, because the index decides last: one title for the lists of a
\* user and for the tasks of a list.  A list_id that UpdateTask wrote as a string is
\* another key than the ObjectID it names, so a task moved by it may have the title
\* of a task that was created in its new list.
THEOREM TitlesUnique == Spec => []UniqueTitles
  BY Invariant, IInvImplies, PTL

\* However documents are created, changed and deleted between two pages, a page
\* continues strictly after what was shown.
THEOREM NothingTwice == Spec => []NewestFirst
  BY Invariant, IInvImplies, PTL

\* A traversal that ends has shown every document that matched throughout.
THEOREM NothingMissed == Spec => []Complete
  BY Invariant, IInvImplies, PTL

\* The listing handlers and the writers of the collections implement the
\* abstract traversal.
THEOREM Refinement == Spec => ImplementsTraversal
<1>1. Init => Abstract!Init
  BY InitMaps
<1>2. IInv /\ [Next]_vars => [Abstract!Next]_(Abstract!vars)
  BY StepMaps
<1> QED
  BY <1>1, <1>2, Invariant, PTL DEF Spec, ImplementsTraversal, Abstract!Spec

=============================================================================
