----------------------------- MODULE Traversal -----------------------------
(***************************************************************************)
(* What a client may expect of following next_cursor through a collection  *)
(* that others change: pages of items it has not seen, each page older     *)
(* than all before it, and at the end everything that was there throughout. *)
(* No cursors, limits, queries or documents.                               *)
(***************************************************************************)
EXTENDS Integers

CONSTANTS
    Walks,      \* the traversals
    Ids,        \* the items, by their _id
    CreatedAt   \* their creation times

VARIABLES
    status,     \* "idle", "walking", "done" or "failed"
    shown,      \* the items a traversal has shown
    steady      \* the items that were there all the time since it began

vars == <<status, shown, steady>>

Before(i, j) == CreatedAt[i] < CreatedAt[j] \/ (CreatedAt[i] = CreatedAt[j] /\ i < j)

Init ==
    /\ status = [w \in Walks |-> "idle"]
    /\ shown = [w \in Walks |-> {}]
    /\ steady = [w \in Walks |-> {}]

\* Only w moves.
Moves(w, s) ==
    /\ status' = [status EXCEPT ![w] = s]
    /\ \A v \in Walks \ {w} : shown'[v] = shown[v] /\ steady'[v] = steady[v]

Begin(w) ==
    /\ status[w] # "walking"
    /\ Moves(w, "walking")
    /\ shown'[w] = {}

\* A page: items older than all that were shown.
Page(w) ==
    /\ shown[w] \subseteq shown'[w]
    /\ \A i \in shown'[w] \ shown[w], j \in shown[w] : Before(i, j)
    /\ steady'[w] = steady[w]

\* There is more, and the traversal has come closer to it.
Continue(w) ==
    /\ status[w] = "walking"
    /\ Moves(w, "walking")
    /\ Page(w)
    /\ shown'[w] # shown[w]

\* The last page.
Finish(w) ==
    /\ status[w] = "walking"
    /\ Moves(w, "done")
    /\ Page(w)
    /\ steady[w] \subseteq shown'[w]

Fail(w) ==
    /\ status[w] = "walking"
    /\ Moves(w, "failed")

\* Somebody changes the collection: nothing becomes steady by that.
Change ==
    /\ UNCHANGED <<status, shown>>
    /\ \A w \in Walks : steady'[w] \subseteq steady[w]

Next ==
    \/ Change
    \/ \E w \in Walks : Begin(w) \/ Continue(w) \/ Finish(w) \/ Fail(w)

Spec == Init /\ [][Next]_vars

=============================================================================
