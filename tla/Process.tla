------------------------------ MODULE Process ------------------------------
(***************************************************************************)
(* The life of the server process: main connects, ensures the indexes,     *)
(* serves, and shuts down on a signal; the database outlives it.  A        *)
(* request is what shutdown sees of a handler: busy, and at times inside a *)
(* MongoDB command.                                                        *)
(***************************************************************************)
EXTENDS Integers

CONSTANTS
    Reqs,               \* request slots: how many requests overlap
    NumIndexes,         \* the unique indexes (emails, list titles, task titles),
                        \* numbered in the order EnsureIndexes asks for them
    ShutdownTimeout,    \* of srv.Shutdown, in clock ticks
    DisconnectTimeout   \* of client.Disconnect, in clock ticks

Indexes == 1..NumIndexes

ASSUME NumIndexesAssumption == NumIndexes \in Nat
ASSUME TimeoutAssumption == ShutdownTimeout \in Nat /\ DisconnectTimeout \in Nat

VARIABLES
    phase,      \* where main is, "off" = no process
    tried,      \* how many indexes this start has tried to ensure
    server,     \* the listener: "closed", "opening" or "listening"
    client,     \* the MongoDB client: "none", "open" or "closed"
    req,        \* the requests: "idle", in a "handler" or in a "command"
    late,       \* did Shutdown give up waiting for requests?
    waited,     \* ticks since the present wait of the shutdown began
    elapsed,    \* ticks since the signal
    indexed,    \* the unique indexes the database has
    duplicates, \* the indexes whose collection holds two equal keys
    logged      \* the indexes for which "Failed to ensure index" was ever logged

clock == <<waited, elapsed>>
database == <<indexed, duplicates>>
vars == <<phase, tried, server, client, req, late, clock, database, logged>>

Starting == {"connect", "wire", "index", "listen", "notify"}
Stopping == {"shutdown", "disconnect"}
Drained == \A r \in Reqs : req[r] = "idle"

Init ==
    /\ phase = "off" /\ tried = 0
    /\ server = "closed" /\ client = "none"
    /\ req = [r \in Reqs |-> "idle"]
    /\ late = FALSE /\ waited = 0 /\ elapsed = 0
    /\ indexed = {} /\ duplicates = {} /\ logged = {}

\* The process is gone, and every request with it.
Die ==
    /\ phase' = "off" /\ tried' = 0
    /\ server' = "closed" /\ client' = "none"
    /\ req' = [r \in Reqs |-> "idle"]
    /\ late' = FALSE /\ waited' = 0 /\ elapsed' = 0
    /\ UNCHANGED <<database, logged>>

-----------------------------------------------------------------------------
(* Startup *)

\* config.Validate finds every setting: each has a default.
Start ==
    /\ phase = "off"
    /\ phase' = "connect"
    /\ UNCHANGED <<tried, server, client, req, late, clock, database, logged>>

\* Connect and Ping; log.Fatal on an error.
ConnectMongo ==
    /\ phase = "connect"
    /\ \/ /\ phase' = "wire" /\ client' = "open"
          /\ UNCHANGED <<tried, server, req, late, clock, database, logged>>
       \/ Die

\* NewRedisClient and every Init and Set function: they cannot fail.
Wire ==
    /\ phase = "wire"
    /\ phase' = "index"
    /\ UNCHANGED <<tried, server, client, req, late, clock, database, logged>>

\* Mutant of EnsureIndex: the error is overwritten before it is logged.
EnsureIndexUnlogged ==
    /\ phase = "index" /\ tried < NumIndexes
    /\ tried' = tried + 1
    /\ indexed' \in {indexed, indexed \cup ({tried + 1} \ duplicates)}
    /\ UNCHANGED <<phase, server, client, req, late, clock, duplicates, logged>>

\* CreateOne or CreateMany: fails on equal keys, on an error of MongoDB (the
\* index may be there all the same), and once the ten seconds of EnsureIndexes
\* are over.  A failure is only logged.
EnsureIndex ==
    LET i == tried + 1
    IN  /\ phase = "index" /\ tried < NumIndexes
        /\ tried' = i
        /\ \/ i \notin duplicates /\ indexed' = indexed \cup {i} /\ UNCHANGED logged
           \/ /\ indexed' \in {indexed, indexed \cup ({i} \ duplicates)}
              /\ logged' = logged \cup {i}
        /\ UNCHANGED <<phase, server, client, req, late, clock, duplicates>>

IndexesEnsured ==
    /\ phase = "index" /\ tried = NumIndexes
    /\ phase' = "listen"
    /\ UNCHANGED <<tried, server, client, req, late, clock, database, logged>>

\* go srv.ListenAndServe()
Launch ==
    /\ phase = "listen"
    /\ phase' = "notify" /\ server' = "opening"
    /\ UNCHANGED <<tried, client, req, late, clock, database, logged>>

\* In a goroutine of its own; log.Fatalf when the port cannot be had or the
\* listener breaks.
ListenAndServe ==
    \/ /\ server = "opening"
       /\ server' = "listening"
       /\ UNCHANGED <<phase, tried, client, req, late, clock, database, logged>>
    \/ server # "closed" /\ Die

\* signal.Notify; requests may have been served for a while.
Notify ==
    /\ phase = "notify"
    /\ phase' = "wait"
    /\ UNCHANGED <<tried, server, client, req, late, clock, database, logged>>

-----------------------------------------------------------------------------
(* Requests *)

Arrive(r) ==
    /\ server = "listening" /\ req[r] = "idle"
    /\ req' = [req EXCEPT ![r] = "handler"]
    /\ UNCHANGED <<phase, tried, server, client, late, clock, database, logged>>

\* Once the client is disconnected a command fails without being sent.
Command(r) ==
    /\ req[r] = "handler" /\ client = "open"
    /\ req' = [req EXCEPT ![r] = "command"]
    /\ UNCHANGED <<phase, tried, server, client, late, clock, database, logged>>

\* The handlers leave it to the index to refuse an equal key; a delete may
\* remove one of two equal keys.
CommandReturns(r) ==
    /\ req[r] = "command"
    /\ req' = [req EXCEPT ![r] = "handler"]
    /\ \/ UNCHANGED duplicates
       \/ \E i \in Indexes \ indexed : duplicates' = duplicates \cup {i}
       \/ \E i \in Indexes : duplicates' = duplicates \ {i}
    /\ UNCHANGED <<phase, tried, server, client, late, clock, indexed, logged>>

Answer(r) ==
    /\ req[r] = "handler"
    /\ req' = [req EXCEPT ![r] = "idle"]
    /\ UNCHANGED <<phase, tried, server, client, late, clock, database, logged>>

-----------------------------------------------------------------------------
(* Shutdown *)

\* Mutant of Interrupt: the listener is left open.
InterruptKeepListening ==
    /\ phase = "wait"
    /\ phase' = "shutdown"
    /\ waited' = 0 /\ elapsed' = 0
    /\ UNCHANGED <<tried, server, client, req, late, database, logged>>

\* SIGINT or SIGTERM: it kills a process that has not called Notify yet; a
\* second one, during a shutdown, stays in the channel.
Interrupt ==
    \/ phase \in Starting /\ Die
    \/ /\ phase = "wait"
       /\ phase' = "shutdown" /\ server' = "closed"
       /\ waited' = 0 /\ elapsed' = 0
       /\ UNCHANGED <<tried, client, req, late, database, logged>>

\* Mutant of Deadline: the disconnect has none.
NoDisconnectDeadline ==
    IF phase = "disconnect" THEN waited + 1 ELSE ShutdownTimeout

\* What the context of the present wait allows.
Deadline ==
    IF phase = "disconnect" THEN DisconnectTimeout ELSE ShutdownTimeout

\* Mutant of ShutdownReturns: srv.Close, which waits for nobody.
CloseReturns ==
    /\ phase = "shutdown"
    /\ late' = FALSE
    /\ phase' = "disconnect" /\ client' = "closed" /\ waited' = 0
    /\ UNCHANGED <<tried, server, req, elapsed, database, logged>>

\* Mutant of ShutdownReturns: no deadline.
ShutdownWaits ==
    /\ phase = "shutdown"
    /\ Drained /\ late' = FALSE
    /\ phase' = "disconnect" /\ client' = "closed" /\ waited' = 0
    /\ UNCHANGED <<tried, server, req, elapsed, database, logged>>

\* Shutdown returns when the requests have been answered, or at its deadline
\* with an error that is only logged; DisconnectMongo is next either way.
ShutdownReturns ==
    /\ phase = "shutdown"
    /\ Drained \/ waited = Deadline
    /\ late' = ~Drained
    /\ phase' = "disconnect" /\ client' = "closed" /\ waited' = 0
    /\ UNCHANGED <<tried, server, req, elapsed, database, logged>>

\* Disconnect waits for the commands that are under way, up to its deadline;
\* then main returns.
DisconnectReturns ==
    /\ phase = "disconnect"
    /\ (\A r \in Reqs : req[r] # "command") \/ waited = Deadline
    /\ Die

\* A context fires at its deadline: the clock does not run past it.
Tick ==
    /\ phase \in Stopping /\ waited < Deadline
    /\ waited' = waited + 1 /\ elapsed' = elapsed + 1
    /\ UNCHANGED <<phase, tried, server, client, req, late, database, logged>>

\* Killed, out of memory, power cut.
Crash == phase # "off" /\ Die

Main ==
    \/ ConnectMongo \/ Wire \/ EnsureIndex \/ IndexesEnsured \/ Launch \/ Notify
    \/ ShutdownReturns \/ DisconnectReturns

Next ==
    \/ Start \/ Main \/ ListenAndServe
    \/ \E r \in Reqs : Arrive(r) \/ Command(r) \/ CommandReturns(r) \/ Answer(r)
    \/ Interrupt \/ Crash \/ Tick

Spec == Init /\ [][Next]_vars

\* Every call of main has a deadline, and deadlines come.  Nothing is assumed
\* of the requests: the session lookup of AuthMiddleware has none.
FairSpec == Spec /\ WF_vars(Main) /\ WF_vars(Tick)

-----------------------------------------------------------------------------
(* Properties *)

\* The state has the shape the code gives it; nothing is accepted outside of
\* the time in which main serves.
TypeOK ==
    /\ phase \in {"off", "wait"} \cup Starting \cup Stopping
    /\ tried \in 0..NumIndexes
    /\ server \in {"closed", "opening", "listening"}
    /\ server # "closed" => phase \in {"notify", "wait"}
    /\ client \in {"none", "open", "closed"}
    /\ req \in [Reqs -> {"idle", "handler", "command"}]
    /\ late \in BOOLEAN
    /\ waited \in Nat /\ elapsed \in Nat
    /\ indexed \subseteq Indexes /\ duplicates \subseteq Indexes /\ logged \subseteq Indexes

\* Unless Shutdown ran into its deadline, no request is left when MongoDB is
\* disconnected: "Server exited cleanly" cut nobody off.
DrainedBeforeDisconnect == client = "closed" /\ ~late => Drained

\* From the signal to the exit it takes no longer than both timeouts, with
\* requests that never finish.
BoundedShutdown == elapsed <= ShutdownTimeout + DisconnectTimeout

\* Where a collection holds equal keys some start has logged that it could not
\* ensure the index: as long as the log is clean, emails and titles are unique,
\* across all restarts.
DuplicatesWereLogged == duplicates \subseteq logged

\* A signal that main waits for ends the process, whatever the requests do.
SignalEndsProcess == phase = "shutdown" ~> phase = "off"

=============================================================================
