-------------------------- MODULE SessionRegister --------------------------
(***************************************************************************)
(* What the session subsystem promises, without collections, caches,       *)
(* tokens, clocks or handlers.  A session is opened once and closed once.  *)
(* A request is served on behalf of a session only if the session is open  *)
(* at the instant of the grant, and an acknowledged end is a real one.     *)
(***************************************************************************)
EXTENDS TLAPS

CONSTANTS Sids, Reqs, None

VARIABLES
    status,     \* "unborn", "open" or "closed", for every session id
    serving,    \* the session a request is being served for, or None
    acked       \* the sessions whose end was acknowledged to a client

vars == <<status, serving, acked>>

RegisterTypeOK ==
    /\ status \in [Sids -> {"unborn", "open", "closed"}]
    /\ serving \in [Reqs -> Sids \cup {None}]
    /\ acked \subseteq Sids

Init ==
    /\ status = [s \in Sids |-> "unborn"]
    /\ serving = [r \in Reqs |-> None]
    /\ acked = {}

\* A session only moves forward.
Forward(s) ==
    \/ status'[s] = status[s]
    \/ status[s] = "unborn" /\ status'[s] = "open"
    \/ status[s] = "open" /\ status'[s] = "closed"

\* A request is let through for a session that is open.
Grant(r, s) ==
    /\ status[s] = "open"
    /\ serving[r] = None
    /\ serving' = [serving EXCEPT ![r] = s]
    /\ UNCHANGED <<status, acked>>

\* Sessions are opened and closed, requests finish, and closed sessions are
\* reported as such.
Advance ==
    /\ status' \in [Sids -> {"unborn", "open", "closed"}]
    /\ \A s \in Sids : Forward(s)
    /\ serving' \in [Reqs -> Sids \cup {None}]
    /\ \A r \in Reqs : serving'[r] \in {serving[r], None}
    /\ acked \subseteq acked' /\ acked' \subseteq Sids
    /\ \A s \in acked' \ acked : status'[s] = "closed"

Next ==
    \/ \E r \in Reqs, s \in Sids : Grant(r, s)
    \/ Advance

Spec == Init /\ [][Next]_vars

-----------------------------------------------------------------------------
\* An acknowledged end is final.
AckedAreClosed == \A s \in acked : status[s] = "closed"

\* The register keeps its promise: what it acknowledged stays closed.
THEOREM AckedForever == Spec => []AckedAreClosed
  <1> DEFINE Inv == RegisterTypeOK /\ AckedAreClosed
  <1>1. Init => Inv
    BY DEF Init, RegisterTypeOK, AckedAreClosed
  <1>2. Inv /\ [Next]_vars => Inv'
    <2> SUFFICES ASSUME Inv, [Next]_vars PROVE Inv'
      OBVIOUS
    <2>1. CASE UNCHANGED vars
      BY <2>1 DEF vars, RegisterTypeOK, AckedAreClosed
    <2>2. ASSUME NEW r \in Reqs, NEW s \in Sids, Grant(r, s) PROVE Inv'
      BY <2>2 DEF Grant, RegisterTypeOK, AckedAreClosed
    <2>3. CASE Advance
      BY <2>3 DEF Advance, Forward, RegisterTypeOK, AckedAreClosed
    <2> QED BY <2>1, <2>2, <2>3 DEF Next
  <1>3. Inv => AckedAreClosed
    OBVIOUS
  <1> QED BY <1>1, <1>2, <1>3, PTL DEF Spec
=============================================================================
