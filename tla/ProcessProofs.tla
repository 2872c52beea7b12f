--------------------------- MODULE ProcessProofs ---------------------------
(***************************************************************************)
(* Proofs about Process: what a shutdown leaves behind and how long it     *)
(* takes, and what a clean log says about the database, for every number   *)
(* of requests, indexes and ticks.                                         *)
(***************************************************************************)
EXTENDS Process, TLAPS

USE NumIndexesAssumption, TimeoutAssumption

-----------------------------------------------------------------------------
(* The inductive invariant *)

\* The clock counts during a shutdown only, and not past a deadline.
ClockInv ==
    /\ phase \notin Stopping => waited = 0 /\ elapsed = 0
    /\ phase = "shutdown" => waited <= ShutdownTimeout /\ elapsed = waited
    /\ phase = "disconnect" =>
           waited <= DisconnectTimeout /\ elapsed <= ShutdownTimeout + waited

\* Requests are there only between Launch and the exit, and after Shutdown only
\* if it was late.
RequestInv ==
    /\ ~Drained => phase \in {"notify", "wait"} \cup Stopping
    /\ client = "closed" => phase = "disconnect"
    /\ phase = "disconnect" /\ ~late => Drained

\* What this start has tried is there or was logged, and it has tried all of it
\* before it serves.
IndexInv ==
    /\ \A i \in 1..tried : i \in indexed \cup logged
    /\ phase \in {"listen", "notify", "wait"} \cup Stopping => tried = NumIndexes
    /\ indexed \cap duplicates = {}
    /\ DuplicatesWereLogged

IInv == TypeOK /\ ClockInv /\ RequestInv /\ IndexInv

\* The invariant holds what the run checks.
LEMMA IInvImplies ==
    ASSUME IInv
    PROVE  TypeOK /\ DrainedBeforeDisconnect /\ BoundedShutdown /\ DuplicatesWereLogged
<1>1. TypeOK /\ DuplicatesWereLogged
  BY DEF IInv, IndexInv
<1>2. DrainedBeforeDisconnect
  BY DEF IInv, RequestInv, DrainedBeforeDisconnect
<1>3. BoundedShutdown
  BY DEF IInv, ClockInv, TypeOK, BoundedShutdown, Stopping, Starting
<1> QED
  BY <1>1, <1>2, <1>3

\* Nothing is running at first.
LEMMA InitHolds == Init => IInv
<1> SUFFICES ASSUME Init
             PROVE  IInv
  OBVIOUS
<1>1. req \in [Reqs -> {"idle", "handler", "command"}]
  BY DEF Init
<1>2. 0 \in 0..NumIndexes /\ 1..0 = {}
  OBVIOUS
<1>3. TypeOK
  BY <1>1, <1>2 DEF Init, TypeOK
<1>4. ClockInv /\ RequestInv
  BY DEF Init, ClockInv, RequestInv, Drained, Stopping
<1>5. IndexInv
  BY <1>2 DEF Init, IndexInv, DuplicatesWereLogged, Stopping
<1> QED
  BY <1>3, <1>4, <1>5 DEF IInv

\* A process that dies leaves the database as it is and nothing else.
LEMMA DieKeeps ==
    ASSUME IInv, Die
    PROVE  IInv'
<1>1. TypeOK'
  <2>1. req' \in [Reqs -> {"idle", "handler", "command"}]
    BY DEF Die
  <2>2. 0 \in 0..NumIndexes
    OBVIOUS
  <2> QED
    BY <2>1, <2>2 DEF IInv, TypeOK, Die, database
<1>2. ClockInv' /\ RequestInv'
  BY DEF Die, ClockInv, RequestInv, Drained, Stopping
<1>3. IndexInv'
  BY DEF IInv, Die, IndexInv, DuplicatesWereLogged, database, Stopping
<1> QED
  BY <1>1, <1>2, <1>3 DEF IInv

-----------------------------------------------------------------------------
(* Steps *)

\* Steps of main before it serves.
LEMMA StartupKeeps ==
    ASSUME IInv,
           Start \/ ConnectMongo \/ Wire \/ IndexesEnsured \/ Launch \/ Notify \/ ListenAndServe
    PROVE  IInv'
<1>1. CASE Start
  BY <1>1 DEF Start, IInv, TypeOK, ClockInv, RequestInv, IndexInv, DuplicatesWereLogged,
             Drained, Starting, Stopping, clock, database
<1>2. CASE ConnectMongo
  <2>1. CASE Die
    BY <2>1, DieKeeps
  <2>2. CASE ~Die
    BY <1>2, <2>2 DEF ConnectMongo, IInv, TypeOK, ClockInv, RequestInv, IndexInv,
             DuplicatesWereLogged, Drained, Starting, Stopping, clock, database
  <2> QED
    BY <2>1, <2>2
<1>3. CASE Wire
  BY <1>3 DEF Wire, IInv, TypeOK, ClockInv, RequestInv, IndexInv, DuplicatesWereLogged,
             Drained, Starting, Stopping, clock, database
<1>4. CASE IndexesEnsured
  BY <1>4 DEF IndexesEnsured, IInv, TypeOK, ClockInv, RequestInv, IndexInv,
             DuplicatesWereLogged, Drained, Starting, Stopping, clock, database
<1>5. CASE Launch
  BY <1>5 DEF Launch, IInv, TypeOK, ClockInv, RequestInv, IndexInv, DuplicatesWereLogged,
             Drained, Starting, Stopping, clock, database
<1>6. CASE Notify
  BY <1>6 DEF Notify, IInv, TypeOK, ClockInv, RequestInv, IndexInv, DuplicatesWereLogged,
             Drained, Starting, Stopping, clock, database
<1>7. CASE ListenAndServe
  <2>1. CASE Die
    BY <2>1, DieKeeps
  <2>2. CASE ~Die
    BY <1>7, <2>2 DEF ListenAndServe, IInv, TypeOK, ClockInv, RequestInv, IndexInv,
             DuplicatesWereLogged, Drained, Starting, Stopping, clock, database
  <2> QED
    BY <2>1, <2>2
<1> QED
  BY <1>1, <1>2, <1>3, <1>4, <1>5, <1>6, <1>7

\* Trying an index: what is not there afterwards has been logged.
LEMMA EnsureIndexKeeps ==
    ASSUME IInv, EnsureIndex
    PROVE  IInv'
<1>1. tried \in Nat /\ tried' = tried + 1 /\ tried' \in 0..NumIndexes
  BY DEF IInv, TypeOK, EnsureIndex
<1>2. tried' \in Indexes /\ duplicates' = duplicates /\ phase' = phase /\ phase = "index"
  BY <1>1 DEF EnsureIndex, Indexes
<1>3. /\ indexed \subseteq indexed' /\ indexed' \subseteq indexed \cup ({tried'} \ duplicates)
      /\ logged \subseteq logged' /\ logged' \subseteq logged \cup {tried'}
      /\ tried' \in indexed' \cup logged'
  BY <1>1 DEF EnsureIndex
<1>4. TypeOK'
  BY <1>1, <1>2, <1>3 DEF IInv, TypeOK, EnsureIndex, clock
<1>5. ClockInv' /\ RequestInv'
  BY <1>2 DEF IInv, ClockInv, RequestInv, EnsureIndex, clock, Drained, Stopping
<1>6. IndexInv'
  <2>1. \A i \in 1..tried' : i \in 1..tried \/ i = tried'
    BY <1>1
  <2>2. \A i \in 1..tried' : i \in indexed' \cup logged'
    BY <2>1, <1>3 DEF IInv, IndexInv
  <2> QED
    BY <2>2, <1>2, <1>3 DEF IInv, IndexInv, DuplicatesWereLogged, Stopping
<1> QED
  BY <1>4, <1>5, <1>6 DEF IInv

\* Requests: an equal key goes in only where no index is, and that was logged.
LEMMA RequestKeeps ==
    ASSUME IInv, NEW r \in Reqs,
           Arrive(r) \/ Command(r) \/ CommandReturns(r) \/ Answer(r)
    PROVE  IInv'
<1>1. /\ UNCHANGED <<phase, tried, server, client, late, waited, elapsed, indexed, logged>>
      /\ req' \in [Reqs -> {"idle", "handler", "command"}]
      /\ ~Drained \/ server = "listening"
  BY DEF IInv, TypeOK, Arrive, Command, CommandReturns, Answer, clock, database, Drained
<1>2. Drained /\ ~Drained' => server = "listening"
  BY DEF Arrive, Command, CommandReturns, Answer, Drained
<1>3. phase \in {"notify", "wait"} \cup Stopping
  BY <1>1 DEF IInv, TypeOK, RequestInv
<1>4. \A i \in duplicates' \ duplicates : i \in Indexes \ indexed
  BY DEF Arrive, Command, CommandReturns, Answer, database
<1>5. \A i \in duplicates' : i \in Indexes /\ i \notin indexed /\ i \in logged
  <2> SUFFICES ASSUME NEW i \in duplicates'
               PROVE  i \in Indexes /\ i \notin indexed /\ i \in logged
    OBVIOUS
  <2>1. CASE i \in duplicates
    BY <2>1 DEF IInv, TypeOK, IndexInv, DuplicatesWereLogged
  <2>2. CASE i \notin duplicates
    <3>1. i \in Indexes \ indexed
      BY <2>2, <1>4
    <3>2. tried = NumIndexes
      BY <1>3 DEF IInv, IndexInv
    <3> QED
      BY <3>1, <3>2 DEF IInv, IndexInv, Indexes
  <2> QED
    BY <2>1, <2>2
<1>6. TypeOK'
  BY <1>1, <1>5 DEF IInv, TypeOK
<1>7. ClockInv'
  BY <1>1 DEF IInv, ClockInv
<1>8. RequestInv'
  <2>1. phase = "disconnect" => server # "listening"
    BY DEF IInv, TypeOK
  <2> QED
    BY <2>1, <1>1, <1>2, <1>3 DEF IInv, RequestInv
<1>9. IndexInv'
  BY <1>1, <1>5 DEF IInv, IndexInv, DuplicatesWereLogged
<1> QED
  BY <1>6, <1>7, <1>8, <1>9 DEF IInv

\* The shutdown, and the time it takes.
LEMMA ShutdownKeeps ==
    ASSUME IInv, Interrupt \/ ShutdownReturns \/ DisconnectReturns \/ Crash \/ Tick
    PROVE  IInv'
<1>1. CASE Die
  BY <1>1, DieKeeps
<1>2. CASE Interrupt /\ ~Die
  BY <1>2 DEF Interrupt, IInv, TypeOK, ClockInv, RequestInv, IndexInv, DuplicatesWereLogged,
             Drained, Starting, Stopping, database
<1>3. CASE ShutdownReturns
  <2>1. /\ phase = "shutdown" /\ phase' = "disconnect" /\ client' = "closed"
        /\ waited' = 0 /\ late' = ~Drained
        /\ UNCHANGED <<tried, server, req, elapsed, indexed, duplicates, logged>>
    BY <1>3 DEF ShutdownReturns, database
  <2>2. TypeOK'
    BY <2>1 DEF IInv, TypeOK, Starting, Stopping
  <2>3. ClockInv'
    BY <2>1 DEF IInv, TypeOK, ClockInv, Stopping
  <2>4. RequestInv' /\ IndexInv'
    BY <2>1 DEF IInv, RequestInv, IndexInv, DuplicatesWereLogged, Drained, Stopping
  <2> QED
    BY <2>2, <2>3, <2>4 DEF IInv
<1>4. CASE Tick
  <2>1. /\ phase \in Stopping /\ waited < Deadline
        /\ waited' = waited + 1 /\ elapsed' = elapsed + 1
        /\ UNCHANGED <<phase, tried, server, client, req, late, indexed, duplicates, logged>>
    BY <1>4 DEF Tick, database
  <2>2. TypeOK'
    BY <2>1 DEF IInv, TypeOK
  <2>3. ClockInv'
    BY <2>1 DEF IInv, TypeOK, ClockInv, Stopping, Deadline
  <2>4. RequestInv' /\ IndexInv'
    BY <2>1 DEF IInv, RequestInv, IndexInv, DuplicatesWereLogged, Drained
  <2> QED
    BY <2>2, <2>3, <2>4 DEF IInv
<1> QED
  BY <1>1, <1>2, <1>3, <1>4 DEF DisconnectReturns, Crash

\* Every step preserves the invariant.
LEMMA NextHolds == IInv /\ [Next]_vars => IInv'
<1> SUFFICES ASSUME IInv, [Next]_vars
             PROVE  IInv'
  OBVIOUS
<1>1. CASE UNCHANGED vars
  BY <1>1 DEF vars, clock, database, IInv, TypeOK, ClockInv, RequestInv, IndexInv,
             DuplicatesWereLogged, Drained
<1>2. CASE EnsureIndex
  BY <1>2, EnsureIndexKeeps
<1>3. CASE \E r \in Reqs : Arrive(r) \/ Command(r) \/ CommandReturns(r) \/ Answer(r)
  BY <1>3, RequestKeeps
<1>4. CASE Start \/ ConnectMongo \/ Wire \/ IndexesEnsured \/ Launch \/ Notify \/ ListenAndServe
  BY <1>4, StartupKeeps
<1>5. CASE Interrupt \/ ShutdownReturns \/ DisconnectReturns \/ Crash \/ Tick
  BY <1>5, ShutdownKeeps
<1> QED
  BY <1>1, <1>2, <1>3, <1>4, <1>5 DEF Next, Main

-----------------------------------------------------------------------------
(* Theorems *)

\* The invariant holds in every state of every process and its restarts.
LEMMA Invariance == Spec => []IInv
  BY InitHolds, NextHolds, PTL DEF Spec

\* The state of the process always has the shape the code gives it.
THEOREM TypeCorrect == Spec => []TypeOK
  BY Invariance, IInvImplies, PTL

\* A shutdown that was not late has answered every request before MongoDB is
\* disconnected.
THEOREM ShutdownDrains == Spec => []DrainedBeforeDisconnect
  BY Invariance, IInvImplies, PTL

\* A shutdown takes no longer than its two timeouts, whatever the requests do.
THEOREM ShutdownInTime == Spec => []BoundedShutdown
  BY Invariance, IInvImplies, PTL

\* Equal keys are in the database only if a failed index was logged.
THEOREM CleanLogMeansUnique == Spec => []DuplicatesWereLogged
  BY Invariance, IInvImplies, PTL

=============================================================================
