---------------------------- MODULE RateLimiter ----------------------------
(***************************************************************************)
(* One of the three rate limiters (login, refresh, Google login): Allow is *)
(* called with the client's IP by requests that overlap.  Without Redis    *)
(* the buckets live in the process under a mutex; the clock is read before *)
(* the mutex is taken, so a late caller decides with an old time.  With    *)
(* Redis one MULTI/EXEC of INCR and EXPIRE decides, and an error allows.   *)
(***************************************************************************)
EXTENDS Integers, Sequences

CONSTANTS
    Clients,        \* IP addresses
    Reqs,           \* request slots: how many calls overlap
    None,           \* no client
    Limit,          \* attempts allowed
    Window,         \* length of the window, in clock ticks
    Stall,          \* longest wait between reading the clock and the mutex
    Backends,       \* what NewRateLimiters may choose at a process start
    RedisFaults,    \* may a Redis transaction fail?
    Restarts,       \* may the process restart or its limiters be Reset?
    MaxTime,        \* bound: the clock stops here
    MaxCount        \* bound: no call starts while a live Redis counter is this high

ASSUME LimitAssumption == Limit \in Nat \ {0} /\ Window \in Nat \ {0} /\ Stall \in Nat
ASSUME NoneAssumption == None \notin Clients
ASSUME BackendAssumption == Backends \subseteq {"memory", "redis"} /\ Backends # {}
ASSUME BoundAssumption == {MaxTime, MaxCount} \subseteq Nat /\ {RedisFaults, Restarts} \subseteq BOOLEAN

VARIABLES
    now,        \* the clock
    backend,    \* which RateLimiter this process has
    buckets,    \* MemoryRateLimiter.buckets; expires = 0: no bucket
    counter,    \* the Redis counters with their expiry
    call,       \* the calls of Allow in progress, and the last answers
    granted,    \* when the limiter counted a call and allowed it, per client
    attempted   \* when Redis last counted a call, per client; 0 = never

vars == <<now, backend, buckets, counter, call, granted, attempted>>

-----------------------------------------------------------------------------
NoBucket == [count |-> 0, expires |-> 0]
NoCall == [client |-> None, stamp |-> 0, answer |-> "none"]

Init ==
    /\ now = 1
    /\ backend \in Backends
    /\ buckets = [c \in Clients |-> NoBucket]
    /\ counter = [c \in Clients |-> NoBucket]
    /\ call = [r \in Reqs |-> NoCall]
    /\ granted = [c \in Clients |-> <<>>]
    /\ attempted = [c \in Clients |-> 0]

Pending(r) == call[r].answer = "pending"
Answer(r, answer) == call' = [call EXCEPT ![r].answer = answer]
Grant(r) ==
    /\ granted' = [granted EXCEPT ![call[r].client] = Append(@, now)]
    /\ Answer(r, "allowed")

\* A handler calls Allow; the memory limiter reads the clock here.
StartAllow(r, c) ==
    /\ ~Pending(r)
    /\ counter[c].expires > now => counter[c].count < MaxCount
    /\ call' = [call EXCEPT ![r] = [client |-> c, stamp |-> now, answer |-> "pending"]]
    /\ UNCHANGED <<now, backend, buckets, counter, granted, attempted>>

\* now.After(b.expiresAt), with the time read before the mutex.
Expired(r) == call[r].stamp > buckets[call[r].client].expires
FreshBucket(r) == [count |-> 1, expires |-> call[r].stamp + Window]

\* Mutant of MemoryAllow: the limit is compared after the increment.
MemoryAllowOneMore(r) ==
    LET c == call[r].client
    IN  /\ Pending(r) /\ backend = "memory"
        /\ \/ Expired(r) /\ buckets' = [buckets EXCEPT ![c] = FreshBucket(r)] /\ Grant(r)
           \/ /\ ~Expired(r) /\ buckets[c].count <= Limit
              /\ buckets' = [buckets EXCEPT ![c].count = @ + 1] /\ Grant(r)
           \/ ~Expired(r) /\ buckets[c].count > Limit /\ UNCHANGED <<buckets, granted>> /\ Answer(r, "denied")
        /\ UNCHANGED <<now, backend, counter, attempted>>

\* MemoryRateLimiter.Allow, the part under the mutex.
MemoryAllow(r) ==
    LET c == call[r].client
    IN  /\ Pending(r) /\ backend = "memory"
        /\ \/ Expired(r) /\ buckets' = [buckets EXCEPT ![c] = FreshBucket(r)] /\ Grant(r)
           \/ /\ ~Expired(r) /\ buckets[c].count < Limit
              /\ buckets' = [buckets EXCEPT ![c].count = @ + 1] /\ Grant(r)
           \/ ~Expired(r) /\ buckets[c].count >= Limit /\ UNCHANGED <<buckets, granted>> /\ Answer(r, "denied")
        /\ UNCHANGED <<now, backend, counter, attempted>>

\* Mutant of Counted: EXPIRE only when INCR made the key.
CountedKeepExpiry(c) ==
    IF counter[c].expires > now THEN [counter[c] EXCEPT !.count = @ + 1]
    ELSE [count |-> 1, expires |-> now + Window]

\* INCR and EXPIRE in one transaction: every attempt renews the expiry.
Counted(c) ==
    [count |-> IF counter[c].expires > now THEN counter[c].count + 1 ELSE 1,
     expires |-> now + Window]

Count(c) ==
    /\ counter' = [counter EXCEPT ![c] = Counted(c)]
    /\ attempted' = [attempted EXCEPT ![c] = now]

\* Mutant of RedisAllow: a rejected attempt is compared with the old count.
RedisAllowStale(r) ==
    LET c == call[r].client
    IN  /\ Pending(r) /\ backend = "redis"
        /\ Count(c)
        /\ \/ counter[c].count < Limit /\ Grant(r)
           \/ counter[c].count >= Limit /\ UNCHANGED granted /\ Answer(r, "denied")
        /\ UNCHANGED <<now, backend, buckets>>

\* RedisRateLimiter.Allow when Redis answers.
RedisAllow(r) ==
    LET c == call[r].client
    IN  /\ Pending(r) /\ backend = "redis"
        /\ Count(c)
        /\ \/ Counted(c).count <= Limit /\ Grant(r)
           \/ Counted(c).count > Limit /\ UNCHANGED granted /\ Answer(r, "denied")
        /\ UNCHANGED <<now, backend, buckets>>

\* The transaction fails, or is executed and its reply lost: fail open.
RedisFail(r) ==
    /\ RedisFaults
    /\ Pending(r) /\ backend = "redis"
    /\ Answer(r, "allowed")
    /\ Count(call[r].client) \/ UNCHANGED <<counter, attempted>>
    /\ UNCHANGED <<now, backend, buckets, granted>>

\* Time passes, but no call waits for the mutex longer than Stall.
Tick ==
    /\ now < MaxTime
    /\ backend = "memory" => \A r \in Reqs : Pending(r) => now < call[r].stamp + Stall
    /\ now' = now + 1
    /\ UNCHANGED <<backend, buckets, counter, call, granted, attempted>>

\* Reset: a new map; the Redis limiter ignores it.  "granted" is counted anew.
Reset ==
    /\ Restarts /\ backend = "memory"
    /\ buckets' = [c \in Clients |-> NoBucket]
    /\ granted' = [c \in Clients |-> <<>>]
    /\ UNCHANGED <<now, backend, counter, call, attempted>>

\* A new process chooses again; the counters in Redis are still there.
Restart ==
    /\ Restarts
    /\ backend' \in Backends
    /\ buckets' = [c \in Clients |-> NoBucket]
    /\ call' = [r \in Reqs |-> NoCall]
    /\ granted' = IF backend = "redis" /\ backend' = "redis" THEN granted
                  ELSE [c \in Clients |-> <<>>]
    /\ UNCHANGED <<now, counter, attempted>>

Next ==
    \/ \E r \in Reqs, c \in Clients : StartAllow(r, c)
    \/ \E r \in Reqs : MemoryAllow(r) \/ RedisAllow(r) \/ RedisFail(r)
    \/ Tick
    \/ Reset
    \/ Restart

Spec == Init /\ [][Next]_vars

-----------------------------------------------------------------------------
(* Properties *)

\* The state has the shape the code gives it.
TypeOK ==
    /\ now \in Nat
    /\ backend \in Backends
    /\ buckets \in [Clients -> [count : 0..Limit, expires : Nat]]
    /\ counter \in [Clients -> [count : Nat, expires : Nat]]
    /\ call \in [Reqs -> [client : Clients \cup {None}, stamp : Nat,
                          answer : {"none", "pending", "allowed", "denied"}]]
    /\ granted \in [Clients -> Seq(Nat)]
    /\ attempted \in [Clients -> Nat]

\* What the fixed windows of the memory limiter guarantee over any window: one
\* call opens a bucket, the rest of its limit comes at its end and the next bucket
\* follows at once, so 2*Limit calls that were allowed span more than a window
\* (less the stall), however calls overlap.  The Redis limiter, whose expiry
\* slides with the attempts, never allows more than Limit within a window.
BurstBound ==
    \A c \in Clients :
        LET g == granted[c]
        IN  IF backend = "memory"
            THEN \A i, j \in 1..Len(g) : j - i >= 2 * Limit - 1 => g[j] - g[i] > Window - Stall
            ELSE \A i, j \in 1..Len(g) : j - i >= Limit => g[j] - g[i] >= Window

Denied(r) == Pending(r) /\ call'[r].answer = "denied"
JustUsed(g, since) == Len(g) >= Limit /\ g[Len(g) - Limit + 1] >= since

\* Nobody is turned away without a cause: the memory limiter has allowed Limit
\* calls of this client within the window (and the stall); Redis has counted an
\* earlier attempt, allowed or not, less than a window ago.  A client that stays
\* quiet for a window is therefore let in.
DeniedForCause ==
    [][\A r \in Reqs : Denied(r) =>
          LET c == call[r].client
          IN  IF backend = "memory" THEN JustUsed(granted[c], now - Window - Stall)
              ELSE attempted[c] # 0 /\ now - attempted[c] < Window]_vars

=============================================================================
