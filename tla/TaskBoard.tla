----------------------------- MODULE TaskBoard -----------------------------
(***************************************************************************)
(* The lists, tasks and sessions of the users, changed by their handlers   *)
(* while clients page through them.  All are documents of one function,    *)
(* told apart by "kind"; a step is one MongoDB command.  Of a session only *)
(* its coming and going counts here: the rest is in Sessions.              *)
(***************************************************************************)
EXTENDS Pagination

CONSTANTS
    Users, Titles,
    Limits,         \* the page sizes clients ask for
    Creates,        \* slots of overlapping create requests
    Walks,          \* slots of overlapping traversals
    None,
    MongoFaults,    \* may an insert fail?
    ListRefs,       \* bound: the list ids that clients put into tasks and queries
    Values,         \* bound: what clients write into the fields of a task besides title and list
    Listings,       \* bound: the listing handlers that clients call
    MaxTime         \* bound: the clock stops here

ASSUME LimitsAssumption == Limits \subseteq Nat \ {0}
ASSUME RefsAssumption == ListRefs \subseteq Ids
ASSUME ValuesAssumption ==
    /\ Values \subseteq [done : {"no", "yes", "other"}, decodes : BOOLEAN]
    /\ \A v \in Values : v.done = "other" => ~v.decodes
ASSUME FaultAssumption == MongoFaults \in BOOLEAN
ASSUME NoneAssumption == None \notin Titles

VARIABLES
    now,        \* the clock, as coarse as created_at
    docs,       \* the documents in the two collections, None = no document
    used,       \* the _ids that were minted
    pending,    \* what the create handlers will insert, None = no request
    walk        \* the traversals of the clients

vars == <<now, docs, used, pending, walk>>

-----------------------------------------------------------------------------
(* Documents *)

\* A list has no list and no state; a session has no title either.  list_id is an
\* ObjectID when CreateTask wrote it and a string after UpdateTask: the two never
\* compare equal in MongoDB.  UpdateTask may also store what models.Task cannot
\* decode, in any field; a "completed" that is no boolean ("other") is such a value.
Doc == [kind : {"list", "task", "session"}, user : Users, title : Titles \cup {None},
        list : Ids \cup {0}, as : {"none", "oid", "string"}, done : {"no", "yes", "other"},
        decodes : BOOLEAN]

\* What a create handler carries from its mint to its insert.
Create == [at : {"count", "insert"}, id : Ids, doc : Doc]

ASSUME NoneIsNoDoc == None \notin Doc /\ None \notin Create

Made(kind, u, t, l, as) == [kind |-> kind, user |-> u, title |-> t, list |-> l, as |-> as,
                            done |-> "no", decodes |-> TRUE]
List(u, t) == Made("list", u, t, 0, "none")
Task(u, t, l) == Made("task", u, t, l, "oid")
Session(u) == Made("session", u, None, 0, "none")

Stored == {i \in Ids : docs[i] # None}
Owned(kind, u) == {i \in Stored : docs[i].kind = kind /\ docs[i].user = u}

\* The unique indexes: lists by (user_id, title), tasks by (user_id, list_id,
\* title).  The token_sha of a session is new with every insert.
Titled(d) == d.kind # "session"
Key(d) == <<d.kind, d.user, d.list, d.as, d.title>>
Taken(i, d) == Titled(d) /\ \E j \in Stored \ {i} : Key(docs[j]) = Key(d)

-----------------------------------------------------------------------------
(* Queries *)

Query == [kind : {"list", "task", "session"}, user : Users, list : Ids \cup {0},
          done : {"any", "no", "yes"}, text : Titles \cup {None}]

Matches(d, q) ==
    /\ d.kind = q.kind /\ d.user = q.user
    /\ q.list # 0 => d.list = q.list /\ d.as = "oid"
    /\ q.done # "any" => d.done = q.done
    /\ q.text # None => d.title = q.text

Matching(q) == {i \in Stored : Matches(docs[i], q)}

GetLists == [kind : {"list"}, user : Users, list : {0}, done : {"any"}, text : {None}]
GetTasks == [kind : {"task"}, user : Users, list : ListRefs \cup {0},
             done : {"any", "no", "yes"}, text : {None}]
GetActiveTasks == [kind : {"task"}, user : Users, list : ListRefs \cup {0},
                   done : {"no"}, text : {None}]
SearchTasks == [kind : {"task"}, user : Users, list : {0}, done : {"any"}, text : Titles]
\* Expired sessions that the TTL monitor has not met yet included.
ListSessions == [kind : {"session"}, user : Users, list : {0}, done : {"any"}, text : {None}]

Requests ==
    {q \in GetLists : "lists" \in Listings} \cup {q \in GetTasks : "tasks" \in Listings}
        \cup {q \in GetActiveTasks : "active" \in Listings}
        \cup {q \in SearchTasks : "search" \in Listings}
        \cup {q \in ListSessions : "sessions" \in Listings}

-----------------------------------------------------------------------------
\* at: where the traversal stands; seen, page: what was shown before the last
\* page and on it; steady: the documents that matched at every moment since the walk began.
NewWalk(at, q, S) ==
    [at |-> at, query |-> q, cursor |-> NoCursor, seen |-> {}, page |-> {}, steady |-> S]
NoWalk(at) == NewWalk(at, None, {})

Init ==
    /\ now = 1
    /\ docs = [i \in Ids |-> None]
    /\ used = {}
    /\ pending = [c \in Creates |-> None]
    /\ walk = [w \in Walks |-> NoWalk("idle")]

\* Every change of the documents is a change under the eyes of the traversals.
StillSteady(w, i, d) ==
    {j \in walk[w].steady : j # i \/ (d # None /\ Matches(d, walk[w].query))}
Write(i, d) ==
    /\ docs' = [docs EXCEPT ![i] = d]
    /\ walk' = [w \in Walks |-> IF walk[w].at = "walking"
                                THEN [walk[w] EXCEPT !.steady = StillSteady(w, i, d)]
                                ELSE walk[w]]

-----------------------------------------------------------------------------
(* Creating *)

\* primitive.NewObjectID() and time.Now(), before any command.
Mint(i) == i \in Ids \ used /\ CreatedAt[i] = now /\ used' = used \cup {i}

\* The handler has its document; "step" is its next command.
Prepare(c, step, i, d) ==
    /\ pending[c] = None
    /\ pending' = [pending EXCEPT ![c] = [at |-> step, id |-> i, doc |-> d]]
Doing(c, step) == pending[c] # None /\ pending[c].at = step

StartCreateList(c, i, u, t) ==
    /\ Mint(i)
    /\ Prepare(c, "insert", i, List(u, t))
    /\ UNCHANGED <<now, docs, walk>>

StartCreateTask(c, i, u, t, l) ==
    /\ Mint(i)
    /\ Prepare(c, "count", i, Task(u, t, l))
    /\ UNCHANGED <<now, docs, walk>>

\* CountDocuments finds no task with this title; otherwise 409, and 500 on an error.
CountTask(c) ==
    /\ Doing(c, "count")
    /\ LET taken == Taken(pending[c].id, pending[c].doc)
       IN  \/ ~taken /\ pending' = [pending EXCEPT ![c].at = "insert"]
           \/ (taken \/ MongoFaults) /\ pending' = [pending EXCEPT ![c] = None]
    /\ UNCHANGED <<now, docs, used, walk>>

\* Login and RotateRefreshToken make the document just before they insert it.
StartSession(c, i, u) ==
    /\ "sessions" \in Listings
    /\ Mint(i)
    /\ Prepare(c, "insert", i, Session(u))
    /\ UNCHANGED <<now, docs, walk>>

\* Mutant of Insert: relies on the count alone.
InsertUnindexed(c) ==
    /\ Doing(c, "insert")
    /\ Write(pending[c].id, pending[c].doc)
    /\ pending' = [pending EXCEPT ![c] = None]
    /\ UNCHANGED <<now, used>>

\* Mutant of Insert: the driver makes up an _id of its own.
InsertOwnId(c) ==
    /\ Doing(c, "insert")
    /\ \E i \in Ids \ used : Write(i, pending[c].doc)
    /\ pending' = [pending EXCEPT ![c] = None]
    /\ UNCHANGED <<now, used>>

\* InsertOne: the unique index has the last word, and 500 is the answer.
Insert(c) ==
    /\ Doing(c, "insert")
    /\ LET i == pending[c].id
           d == pending[c].doc
       IN  \/ ~Taken(i, d) /\ Write(i, d)
           \/ (Taken(i, d) \/ MongoFaults) /\ UNCHANGED <<docs, walk>>
    /\ pending' = [pending EXCEPT ![c] = None]
    /\ UNCHANGED <<now, used>>

-----------------------------------------------------------------------------
(* Changing *)

\* UpdateOne with {_id, user_id}: one field, or several at once.
UpdateList(u, i, t) ==
    /\ i \in Owned("list", u)
    /\ LET d == [docs[i] EXCEPT !.title = t]
       IN  ~Taken(i, d) /\ Write(i, d)
    /\ UNCHANGED <<now, used, pending>>

\* The values come from the body as they are: a new list_id is a string.
Updated(d) ==
    {e \in [kind : {d.kind}, user : {d.user}, title : Titles, list : {d.list} \cup ListRefs,
            as : {d.as, "string"}, done : {"no", "yes", "other"}, decodes : BOOLEAN] :
        /\ \/ e.as = d.as /\ e.list = d.list
           \/ e.as = "string" /\ e.list \in ListRefs
        /\ \/ e.done = d.done /\ e.decodes = d.decodes
           \/ [done |-> e.done, decodes |-> e.decodes] \in Values}

UpdateTask(u, i) ==
    /\ i \in Owned("task", u)
    /\ \E d \in Updated(docs[i]) : ~Taken(i, d) /\ Write(i, d)
    /\ UNCHANGED <<now, used, pending>>

\* The tasks of a deleted list stay.
DeleteList(u, i) ==
    /\ i \in Owned("list", u)
    /\ Write(i, None)
    /\ UNCHANGED <<now, used, pending>>

DeleteTask(u, i) ==
    /\ i \in Owned("task", u)
    /\ Write(i, None)
    /\ UNCHANGED <<now, used, pending>>

\* Logouts, rotations and the TTL monitor; a DeleteMany is one such step for
\* each session.
EndSession(u, i) ==
    /\ i \in Owned("session", u)
    /\ Write(i, None)
    /\ UNCHANGED <<now, used, pending>>

-----------------------------------------------------------------------------
(* Paging through *)

StartWalk(w, q) ==
    /\ walk[w].at # "walking"
    /\ walk' = [walk EXCEPT ![w] = NewWalk("walking", q, Matching(q))]
    /\ UNCHANGED <<now, docs, used, pending>>

Unreadable(S) == \E i \in S : ~docs[i].decodes

\* One GET: cursor.All fails on a document it cannot decode, and the answer
\* is 500; without a next_cursor the traversal is over.
FetchPage(w, limit) ==
    LET x == walk[w]
        S == Matching(x.query)
        page == Page(S, x.cursor, limit)
        more == HasMore(S, x.cursor, limit)
    IN  /\ x.at = "walking"
        /\ \/ /\ Unreadable(Fetched(S, x.cursor, limit))
              /\ walk' = [walk EXCEPT ![w] = NoWalk("failed")]
           \/ /\ ~Unreadable(Fetched(S, x.cursor, limit))
              /\ walk' = [walk EXCEPT ![w] =
                     [at |-> IF more THEN "walking" ELSE "done", query |-> x.query,
                      cursor |-> IF more THEN Last(page) ELSE NoCursor,
                      seen |-> x.seen \cup x.page, page |-> page, steady |-> x.steady]]
        /\ UNCHANGED <<now, docs, used, pending>>

Tick ==
    /\ now < MaxTime
    /\ now' = now + 1
    /\ UNCHANGED <<docs, used, pending, walk>>

Next ==
    \/ \E c \in Creates, i \in Ids, u \in Users, t \in Titles :
           StartCreateList(c, i, u, t) \/ \E l \in ListRefs : StartCreateTask(c, i, u, t, l)
    \/ \E c \in Creates, i \in Ids, u \in Users : StartSession(c, i, u)
    \/ \E c \in Creates : CountTask(c) \/ Insert(c)
    \/ \E u \in Users, i \in Ids :
           \/ \E t \in Titles : UpdateList(u, i, t)
           \/ UpdateTask(u, i) \/ DeleteList(u, i) \/ DeleteTask(u, i) \/ EndSession(u, i)
    \/ \E w \in Walks : \E q \in Requests : StartWalk(w, q)
    \/ \E w \in Walks, limit \in Limits : FetchPage(w, limit)
    \/ Tick

Spec == Init /\ [][Next]_vars

-----------------------------------------------------------------------------
(* Properties *)

\* The state has the shape the code gives it; every document was minted.
TypeOK ==
    /\ now \in Nat
    /\ docs \in [Ids -> Doc \cup {None}]
    /\ used \subseteq Ids /\ Stored \subseteq used
    /\ pending \in [Creates -> Create \cup {None}]
    /\ walk \in [Walks -> [at : {"idle", "walking", "done", "failed"},
                           query : Query \cup {None}, cursor : Ids \cup {NoCursor},
                           seen : SUBSET Ids, page : SUBSET Ids, steady : SUBSET Ids]]

\* Two creates that both counted no such title, or a create and a change, never
\* end in two documents with one title in one list (as the index compares).
UniqueTitles ==
    \A i, j \in Stored : Titled(docs[i]) /\ Key(docs[i]) = Key(docs[j]) => i = j

\* Whatever is created, changed and deleted between two requests of a traversal,
\* a page continues strictly after everything that was shown before it: no item
\* is shown twice and none out of order.
NewestFirst ==
    \A w \in Walks : \A i \in walk[w].page, j \in walk[w].seen : Older(i, j)

\* A traversal that came to its end has shown everything that matched its query
\* all the time, whatever pages the client asked for.
Complete ==
    \A w \in Walks : walk[w].at = "done" => walk[w].steady \subseteq walk[w].seen \cup walk[w].page

-----------------------------------------------------------------------------
(* What a traversal is *)

Abstract == INSTANCE Traversal WITH
    status <- [w \in Walks |-> walk[w].at],
    shown <- [w \in Walks |-> walk[w].seen \cup walk[w].page],
    steady <- [w \in Walks |-> walk[w].steady]

\* The cursors, the page queries and the writers of the collections implement
\* the abstract traversal.
ImplementsTraversal == Abstract!Spec

=============================================================================
