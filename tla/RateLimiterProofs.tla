------------------------- MODULE RateLimiterProofs -------------------------
(***************************************************************************)
(* Proofs about RateLimiter: how much a window lets through, and that      *)
(* nobody is turned away without a cause, for every limit, window, stall   *)
(* and number of overlapping calls.                                        *)
(***************************************************************************)
EXTENDS RateLimiter, TLAPS

-----------------------------------------------------------------------------
(* The inductive invariant *)

\* No call has waited longer than Stall; the clock started at 1.
CallInv ==
    /\ now >= 1
    /\ \A r \in Reqs : Pending(r) =>
           /\ call[r].client \in Clients
           /\ call[r].stamp >= 1 /\ call[r].stamp <= now
           /\ backend = "memory" => now <= call[r].stamp + Stall

\* Grants are recorded in the order of the clock.
GrantInv(c) ==
    LET g == granted[c]
    IN  /\ \A i \in 1..Len(g) : g[i] <= now
        /\ \A i, j \in 1..Len(g) : i <= j => g[i] <= g[j]

\* The last "count" grants are those of the bucket that is open; before them, all
\* but at most Limit - 1 came more than a window before it was opened.
MemoryInv(c) ==
    LET g == granted[c]
        b == buckets[c]
        opened == b.expires - Window
    IN  /\ b.expires = 0 => b.count = 0 /\ Len(g) = 0
        /\ b.expires # 0 =>
             /\ b.count >= 1 /\ b.count <= Len(g)
             /\ g[Len(g) - b.count + 1] <= opened + Stall
             /\ \A i \in 1..Len(g) : i > Len(g) - b.count => g[i] >= opened
             /\ \A i \in 1..Len(g) :
                  i <= Len(g) - b.count - Limit + 1 => g[i] < opened - Window + Stall

\* Every grant renewed the expiry; those that the counter has forgotten are a window old.
RedisInv(c) ==
    LET g == granted[c]
        k == counter[c]
    IN  /\ \A i \in 1..Len(g) : g[i] + Window <= k.expires
        /\ \A i \in 1..Len(g) : i <= Len(g) - k.count => g[i] + Window <= now

\* The expiry is that of the last attempt.
AttemptInv(c) ==
    IF attempted[c] = 0 THEN counter[c].expires = 0
    ELSE counter[c].expires = attempted[c] + Window

BurstInv(c) ==
    LET g == granted[c]
    IN  IF backend = "memory"
        THEN \A i, j \in 1..Len(g) : j - i >= 2 * Limit - 1 => g[j] - g[i] > Window - Stall
        ELSE \A i, j \in 1..Len(g) : j - i >= Limit => g[j] - g[i] >= Window

ClientInv(c) ==
    /\ GrantInv(c)
    /\ backend = "memory" => MemoryInv(c)
    /\ backend = "redis" => RedisInv(c)
    /\ AttemptInv(c)
    /\ BurstInv(c)

IInv ==
    /\ TypeOK
    /\ CallInv
    /\ \A c \in Clients : ClientInv(c)

-----------------------------------------------------------------------------
(* The initial state and a new record *)

\* What holds of a client whose record begins anew: no grants, no bucket.
LEMMA EmptyRecord ==
    ASSUME NEW c \in Clients, AttemptInv(c)', granted'[c] = <<>>,
           backend' = "memory" => buckets'[c] = NoBucket
    PROVE  ClientInv(c)'
<1>1. Len(granted'[c]) = 0 /\ 1..Len(granted'[c]) = {}
  OBVIOUS
<1>2. GrantInv(c)' /\ BurstInv(c)' /\ RedisInv(c)'
  BY <1>1 DEF GrantInv, BurstInv, RedisInv
<1>3. backend' = "memory" => MemoryInv(c)'
  BY <1>1 DEF MemoryInv, NoBucket
<1> QED
  BY <1>2, <1>3 DEF ClientInv

\* The initial state satisfies the invariant.
LEMMA InitInv == ASSUME Init PROVE IInv
<1>1. TypeOK
  BY LimitAssumption DEF Init, TypeOK, NoBucket, NoCall
<1>2. CallInv
  BY DEF Init, CallInv, Pending, NoCall
<1>3. ASSUME NEW c \in Clients  PROVE ClientInv(c)
  <2>1. AttemptInv(c) /\ Len(granted[c]) = 0 /\ 1..Len(granted[c]) = {} /\ buckets[c] = NoBucket
    BY DEF Init, AttemptInv, NoBucket
  <2>2. GrantInv(c) /\ BurstInv(c) /\ RedisInv(c) /\ MemoryInv(c)
    BY <2>1 DEF GrantInv, BurstInv, RedisInv, MemoryInv, NoBucket
  <2> QED
    BY <2>1, <2>2 DEF ClientInv
<1> QED
  BY <1>1, <1>2, <1>3 DEF IInv

-----------------------------------------------------------------------------
(* Steps that leave the record of a client alone *)

\* Later, the record says the same.
LEMMA Later ==
    ASSUME NEW c \in Clients, TypeOK, ClientInv(c), now' \in Nat, now' >= now,
           backend' = backend, granted'[c] = granted[c], buckets'[c] = buckets[c],
           counter'[c] = counter[c], attempted'[c] = attempted[c]
    PROVE  ClientInv(c)'
<1>1. granted[c] \in Seq(Nat) /\ now \in Nat
  BY DEF TypeOK
<1>2. Len(granted[c]) \in Nat /\ \A i \in 1..Len(granted[c]) : granted[c][i] \in Nat
  BY <1>1
<1>3. GrantInv(c)'
  BY <1>1, <1>2 DEF ClientInv, GrantInv
<1>4. backend' = "memory" => MemoryInv(c)'
  BY DEF ClientInv, MemoryInv
<1>5. backend' = "redis" => RedisInv(c)'
  <2> SUFFICES ASSUME backend = "redis", NEW i \in 1..Len(granted[c])
               PROVE  /\ granted[c][i] + Window <= counter[c].expires
                      /\ i <= Len(granted[c]) - counter[c].count => granted[c][i] + Window <= now'
    BY DEF RedisInv
  <2>1. /\ granted[c][i] + Window <= counter[c].expires
        /\ i <= Len(granted[c]) - counter[c].count => granted[c][i] + Window <= now
    BY DEF ClientInv, RedisInv
  <2> QED
    BY <2>1, <1>1, <1>2, LimitAssumption
<1>6. AttemptInv(c)' /\ BurstInv(c)'
  BY DEF ClientInv, AttemptInv, BurstInv
<1> QED
  BY <1>3, <1>4, <1>5, <1>6 DEF ClientInv

-----------------------------------------------------------------------------
(* Granting *)

\* A grant is recorded at the end.
LEMMA Appended ==
    ASSUME NEW c \in Clients, TypeOK, GrantInv(c), granted'[c] = Append(granted[c], now), now' = now
    PROVE  /\ Len(granted[c]) \in Nat /\ Len(granted'[c]) = Len(granted[c]) + 1
           /\ \A i \in 1..Len(granted[c]) :
                 granted[c][i] \in Nat /\ granted'[c][i] = granted[c][i]
           /\ granted'[c][Len(granted[c]) + 1] = now
           /\ GrantInv(c)'
<1>1. granted[c] \in Seq(Nat) /\ now \in Nat
  BY DEF TypeOK
<1>2. /\ Len(granted[c]) \in Nat /\ Len(granted'[c]) = Len(granted[c]) + 1
      /\ \A i \in 1..Len(granted[c]) :
            granted[c][i] \in Nat /\ granted'[c][i] = granted[c][i]
      /\ granted'[c][Len(granted[c]) + 1] = now
  BY <1>1
<1>3. GrantInv(c)'
  <2> DEFINE g == granted[c]
             h == granted'[c]
             n == Len(granted[c])
  <2>0. /\ n \in Nat /\ now \in Nat
        /\ \A i \in 1..n : g[i] \in Nat /\ g[i] <= now /\ h[i] = g[i]
        /\ \A i, j \in 1..n : i <= j => g[i] <= g[j]
        /\ h[n + 1] = now
    BY <1>1, <1>2 DEF GrantInv
  <2> HIDE DEF g, h, n
  <2>1. (\A i \in 1..(n + 1) : h[i] <= now) /\ (\A i, j \in 1..(n + 1) : i <= j => h[i] <= h[j])
    <3> SUFFICES ASSUME NEW i \in 1..(n + 1), NEW j \in 1..(n + 1)
                 PROVE  h[i] <= now /\ (i <= j => h[i] <= h[j])
      OBVIOUS
    <3>1. i \in 1..n \/ i = n + 1
      BY <2>0
    <3>2. j \in 1..n \/ j = n + 1
      BY <2>0
    <3> QED
      BY <3>1, <3>2, <2>0
  <2> QED
    BY <2>1, <1>2 DEF GrantInv, g, h, n
<1> QED
  BY <1>2, <1>3

\* What a grant of the memory limiter keeps: the bucket is new, or has room.
LEMMA MemoryGrant ==
    ASSUME NEW c \in Clients, NEW r \in Reqs, TypeOK, CallInv, ClientInv(c),
           backend = "memory", UNCHANGED <<now, backend, counter, attempted>>,
           Pending(r), call[r].client = c, granted' = [granted EXCEPT ![c] = Append(@, now)],
           \/ Expired(r) /\ buckets' = [buckets EXCEPT ![c] = FreshBucket(r)]
           \/ /\ ~Expired(r) /\ buckets[c].count < Limit
              /\ buckets' = [buckets EXCEPT ![c].count = @ + 1]
    PROVE  ClientInv(c)'
<1> DEFINE g == granted[c]
           h == granted'[c]
           n == Len(granted[c])
           count == buckets[c].count
           expires == buckets[c].expires
           stamp == call[r].stamp
<1>1. /\ granted \in [Clients -> Seq(Nat)] /\ now \in Nat /\ stamp \in Nat
      /\ buckets \in [Clients -> [count : 0..Limit, expires : Nat]]
      /\ count \in 0..Limit /\ expires \in Nat
  BY DEF TypeOK
<1>0. /\ now \in Nat /\ stamp \in Nat /\ count \in Nat /\ count <= Limit /\ expires \in Nat
  BY <1>1, LimitAssumption
<1>2. h = Append(g, now)
  BY <1>1
<1>3. /\ n \in Nat /\ Len(h) = n + 1 /\ h[n + 1] = now
      /\ \A i \in 1..n : g[i] \in Nat /\ h[i] = g[i]
  BY <1>2, Appended DEF ClientInv
<1>4. /\ \A i \in 1..n : g[i] <= now
      /\ \A i, j \in 1..n : i <= j => g[i] <= g[j]
  BY DEF ClientInv, GrantInv
<1>5. \/ expires # 0 /\ count >= 1 /\ count <= n
      \/ expires = 0 /\ count = 0 /\ n = 0
  BY DEF ClientInv, MemoryInv
<1>5a. ASSUME expires # 0
       PROVE  /\ g[n - count + 1] <= expires - Window + Stall
              /\ \A i \in 1..n : i > n - count => g[i] >= expires - Window
              /\ \A i \in 1..n :
                    i <= n - count - Limit + 1 => g[i] < expires - Window - Window + Stall
  BY <1>5a DEF ClientInv, MemoryInv
<1>6. \A i, j \in 1..n : j - i >= 2 * Limit - 1 => g[j] - g[i] > Window - Stall
  BY DEF ClientInv, BurstInv
<1>7. stamp >= 1 /\ stamp <= now /\ now <= stamp + Stall
  BY DEF CallInv
<1>8. Limit \in Nat \ {0} /\ Window \in Nat \ {0} /\ Stall \in Nat
  BY LimitAssumption
<1> DEFINE count2 == buckets'[c].count
           expires2 == buckets'[c].expires
<1>9. \/ stamp > expires /\ count2 = 1 /\ expires2 = stamp + Window
      \/ stamp <= expires /\ count < Limit /\ count2 = count + 1 /\ expires2 = expires
  BY <1>1 DEF Expired, FreshBucket
<1> HIDE DEF g, h, n, count, expires, stamp, count2, expires2
<1>10. /\ expires2 # 0 /\ count2 >= 1 /\ count2 <= n + 1
       /\ h[n + 1 - count2 + 1] <= expires2 - Window + Stall
       /\ \A i \in 1..(n + 1) : i > n + 1 - count2 => h[i] >= expires2 - Window
       /\ \A i \in 1..(n + 1) :
            i <= n + 1 - count2 - Limit + 1 => h[i] < expires2 - Window - Window + Stall
       /\ \A i \in 1..n : n + 1 - i >= 2 * Limit - 1 => now - h[i] > Window - Stall
  <2>1. CASE stamp > expires /\ count2 = 1 /\ expires2 = stamp + Window
    <3>1. /\ expires2 # 0 /\ count2 >= 1 /\ count2 <= n + 1
          /\ h[n + 1 - count2 + 1] <= expires2 - Window + Stall
      BY <2>1, <1>1, <1>3, <1>7, <1>8
    <3>2. \A i \in 1..(n + 1) : i > n + 1 - count2 => h[i] >= expires2 - Window
      BY <2>1, <1>1, <1>3, <1>7, <1>8
    <3>3. ASSUME NEW i \in 1..n, i <= n - Limit + 1  PROVE h[i] <= expires - Window + Stall
      <4> DEFINE m == n - count + 1
      <4>1. expires # 0 /\ m \in 1..n /\ i <= m
        BY <3>3, <1>0, <1>3, <1>5, <1>8
      <4>2. g[m] <= expires - Window + Stall /\ g[i] <= g[m]
        BY <4>1, <1>4, <1>5a
      <4>3. g[m] \in Nat /\ g[i] \in Nat /\ h[i] = g[i]
        BY <4>1, <1>3
      <4> HIDE DEF m
      <4> QED
        BY <4>2, <4>3, <1>0, <1>8
    <3>4. ASSUME NEW i \in 1..(n + 1), i <= n + 1 - count2 - Limit + 1
          PROVE  h[i] < expires2 - Window - Window + Stall
      <4>1. i \in 1..n /\ i <= n - Limit + 1
        BY <3>4, <2>1, <1>3, <1>8
      <4>2. h[i] <= expires - Window + Stall /\ h[i] \in Nat
        BY <4>1, <3>3, <1>3
      <4> QED
        BY <4>2, <2>1, <1>0, <1>8
    <3>5. ASSUME NEW i \in 1..n, n + 1 - i >= 2 * Limit - 1  PROVE now - h[i] > Window - Stall
      <4>1. i <= n - Limit + 1
        BY <3>5, <1>3, <1>8
      <4>2. h[i] <= expires - Window + Stall /\ h[i] \in Nat
        BY <4>1, <3>3, <1>3
      <4> QED
        BY <4>2, <2>1, <1>0, <1>7, <1>8
    <3> QED
      BY <3>1, <3>2, <3>4, <3>5
  <2>2. CASE stamp <= expires /\ count < Limit /\ count2 = count + 1 /\ expires2 = expires
    <3> DEFINE m == n - count + 1
    <3>1. expires # 0 /\ count \in Nat /\ count >= 1 /\ count <= n /\ count + 1 <= Limit
      BY <2>2, <1>0, <1>5, <1>7, <1>8
    <3>2. m \in 1..n /\ n + 1 - count2 + 1 = m /\ n + 1 - count2 = n - count /\ m > n - count
      BY <3>1, <2>2, <1>3
    <3>3. /\ h[m] = g[m] /\ g[m] \in Nat /\ g[m] <= now
          /\ g[m] <= expires - Window + Stall /\ g[m] >= expires - Window
      BY <3>1, <3>2, <1>3, <1>4, <1>5a
    <3> HIDE DEF m
    <3>4. now >= expires - Window
      BY <3>3, <1>0, <1>8
    <3>5. /\ expires2 # 0 /\ count2 >= 1 /\ count2 <= n + 1
          /\ h[n + 1 - count2 + 1] <= expires2 - Window + Stall
      BY <3>1, <3>2, <3>3, <2>2, <1>3
    <3>6. ASSUME NEW i \in 1..(n + 1), i > n + 1 - count2  PROVE h[i] >= expires2 - Window
      <4>1. CASE i = n + 1
        BY <4>1, <3>4, <2>2, <1>3
      <4>2. CASE i \in 1..n
        <5>1. i > n - count
          BY <3>2, <3>6
        <5> QED
          BY <5>1, <4>2, <3>1, <2>2, <1>3, <1>5a
      <4> QED
        BY <4>1, <4>2, <1>3
    <3>7. ASSUME NEW i \in 1..n, i <= n - count - Limit + 1
          PROVE  h[i] \in Nat /\ h[i] < expires - Window - Window + Stall
      BY <3>7, <3>1, <1>3, <1>5a
    <3>8. ASSUME NEW i \in 1..(n + 1), i <= n + 1 - count2 - Limit + 1
          PROVE  h[i] < expires2 - Window - Window + Stall
      <4>1. i <= n - count - Limit + 1
        BY <3>8, <3>1, <2>2, <1>3, <1>8
      <4>2. i \in 1..n
        BY <4>1, <3>1, <1>3, <1>8
      <4> QED
        BY <4>1, <4>2, <3>7, <2>2
    <3>9. ASSUME NEW i \in 1..n, n + 1 - i >= 2 * Limit - 1  PROVE now - h[i] > Window - Stall
      <4>1. i <= n - count - Limit + 1
        BY <3>9, <3>1, <1>3, <1>8
      <4>2. h[i] \in Nat /\ h[i] < expires - Window - Window + Stall
        BY <4>1, <3>7
      <4> QED
        BY <4>2, <3>4, <1>0, <1>8
    <3> QED
      BY <3>5, <3>6, <3>8, <3>9
  <2> QED
    BY <2>1, <2>2, <1>9
<1>11. MemoryInv(c)'
  <2>0. /\ Len(h) = n + 1 /\ n \in Nat /\ count2 \in Nat /\ expires2 \in Nat
        /\ Limit \in Nat /\ Window \in Nat /\ Stall \in Nat
    BY <1>0, <1>3, <1>8, <1>9
  <2>1. expires2 # 0 /\ count2 >= 1 /\ count2 <= Len(h)
    BY <2>0, <1>10
  <2>2. h[Len(h) - count2 + 1] <= expires2 - Window + Stall
    BY <2>0, <1>10
  <2>3. \A i \in 1..Len(h) : i > Len(h) - count2 => h[i] >= expires2 - Window
    BY <2>0, <1>10
  <2>4. \A i \in 1..Len(h) :
          i <= Len(h) - count2 - Limit + 1 => h[i] < expires2 - Window - Window + Stall
    BY <2>0, <1>10
  <2> QED
    BY <2>1, <2>2, <2>3, <2>4 DEF MemoryInv, h, count2, expires2
<1>12. \A i, j \in 1..(n + 1) : j - i >= 2 * Limit - 1 => h[j] - h[i] > Window - Stall
  <2> SUFFICES ASSUME NEW i \in 1..(n + 1), NEW j \in 1..(n + 1), j - i >= 2 * Limit - 1
               PROVE  h[j] - h[i] > Window - Stall
    OBVIOUS
  <2>1. i \in 1..n /\ (j \in 1..n \/ j = n + 1)
    BY <1>3, <1>8
  <2> QED
    BY <2>1, <1>3, <1>6, <1>10
<1>13. BurstInv(c)'
  BY <1>3, <1>12 DEF BurstInv, h
<1>14. AttemptInv(c)'
  BY DEF ClientInv, AttemptInv
<1>15. GrantInv(c)'
  BY <1>2, Appended DEF ClientInv, h, g
<1> QED
  BY <1>11, <1>13, <1>14, <1>15 DEF ClientInv

\* What a counted attempt keeps: it may be granted when the count is within the limit.
LEMMA RedisAttempt ==
    ASSUME NEW c \in Clients, TypeOK, now >= 1, ClientInv(c), backend = "redis", Count(c),
           UNCHANGED <<now, backend, buckets>>,
           \/ UNCHANGED granted
           \/ Counted(c).count <= Limit /\ granted' = [granted EXCEPT ![c] = Append(@, now)]
    PROVE  ClientInv(c)'
<1> DEFINE g == granted[c]
           h == granted'[c]
           n == Len(granted[c])
           count == counter[c].count
           expires == counter[c].expires
           count2 == counter'[c].count
           expires2 == counter'[c].expires
<1>1. /\ granted \in [Clients -> Seq(Nat)] /\ attempted \in [Clients -> Nat]
      /\ counter \in [Clients -> [count : Nat, expires : Nat]]
      /\ now \in Nat /\ count \in Nat /\ expires \in Nat /\ n \in Nat
  BY DEF TypeOK
<1>2. Limit \in Nat \ {0} /\ Window \in Nat \ {0}
  BY LimitAssumption
<1>3. counter'[c] = Counted(c) /\ attempted'[c] = now
  BY <1>1 DEF Count
<1>4. /\ expires2 = now + Window /\ count2 \in Nat /\ count2 >= 1
      /\ expires > now => count2 = count + 1
      /\ expires <= now => count2 = 1
  BY <1>1, <1>3 DEF Counted
<1>5. AttemptInv(c)'
  BY <1>1, <1>3, <1>4 DEF AttemptInv
<1>6. /\ \A i \in 1..n : g[i] \in Nat /\ g[i] <= now /\ g[i] + Window <= expires
      /\ \A i \in 1..n : i <= n - count => g[i] + Window <= now
      /\ \A i, j \in 1..n : j - i >= Limit => g[j] - g[i] >= Window
  BY <1>1 DEF ClientInv, GrantInv, RedisInv, BurstInv
<1> HIDE DEF g, n, count, expires, count2, expires2
<1>7. ASSUME NEW i \in 1..n
      PROVE  /\ g[i] \in Nat /\ g[i] + Window <= expires2
             /\ i <= n + 1 - count2 => g[i] + Window <= now
  <2>1. g[i] \in Nat /\ g[i] <= now /\ g[i] + Window <= expires
    BY <1>6
  <2>2. i <= n - count => g[i] + Window <= now
    BY <1>6
  <2> QED
    BY <2>1, <2>2, <1>1, <1>2, <1>4
<1>8. CASE UNCHANGED granted
  <2>1. RedisInv(c)'
    <3> SUFFICES ASSUME NEW i \in 1..n
                 PROVE  g[i] + Window <= expires2 /\ (i <= n - count2 => g[i] + Window <= now)
      BY <1>8 DEF RedisInv, g, n, count2, expires2
    <3> QED
      BY <1>1, <1>4, <1>7
  <2>2. GrantInv(c)' /\ BurstInv(c)'
    BY <1>8 DEF ClientInv, GrantInv, BurstInv
  <2> QED
    BY <2>1, <2>2, <1>5 DEF ClientInv
<1>9. CASE Counted(c).count <= Limit /\ granted' = [granted EXCEPT ![c] = Append(@, now)]
  <2>1. h = Append(g, now) /\ count2 <= Limit
    BY <1>1, <1>3, <1>9 DEF g, count2
  <2>2. /\ Len(h) = n + 1 /\ h[n + 1] = now
        /\ \A i \in 1..n : h[i] = g[i]
        /\ GrantInv(c)'
    BY <2>1, Appended DEF ClientInv, g, n
  <2> HIDE DEF h
  <2>3. RedisInv(c)'
    <3> SUFFICES ASSUME NEW i \in 1..Len(h)
                 PROVE  /\ h[i] + Window <= expires2
                        /\ i <= Len(h) - count2 => h[i] + Window <= now
      BY DEF RedisInv, h, count2, expires2
    <3>1. CASE i = n + 1
      BY <3>1, <2>2, <1>1, <1>2, <1>4
    <3>2. CASE i \in 1..n
      <4>1. h[i] = g[i]
        BY <3>2, <2>2
      <4>2. g[i] + Window <= expires2 /\ (i <= n + 1 - count2 => g[i] + Window <= now)
        BY <3>2, <1>7
      <4>3. Len(h) = n + 1
        BY <2>2
      <4> QED
        BY <4>1, <4>2, <4>3, <1>1, <1>2, <1>4
    <3> QED
      BY <3>1, <3>2, <2>2, <1>1
  <2>4. BurstInv(c)'
    <3> SUFFICES ASSUME NEW i \in 1..Len(h), NEW j \in 1..Len(h), j - i >= Limit
                 PROVE  h[j] - h[i] >= Window
      BY DEF BurstInv, h
    <3>1. i \in 1..n /\ (j \in 1..n \/ j = n + 1)
      BY <2>2, <1>1, <1>2
    <3>2. CASE j \in 1..n
      BY <3>1, <3>2, <2>2, <1>6
    <3>3. CASE j = n + 1
      <4>1. i <= n + 1 - count2
        BY <3>1, <3>3, <2>1, <1>1, <1>2, <1>4
      <4>2. h[i] \in Nat /\ h[i] + Window <= now
        BY <4>1, <3>1, <2>2, <1>7
      <4> QED
        BY <4>2, <3>3, <2>2, <1>1, <1>2
    <3> QED
      BY <3>1, <3>2, <3>3
  <2> QED
    BY <2>2, <2>3, <2>4, <1>5 DEF ClientInv
<1> QED
  BY <1>8, <1>9

-----------------------------------------------------------------------------
(* Steps *)

\* A grant keeps the records typed, and so does a counted attempt.
LEMMA Typing ==
    ASSUME TypeOK, NEW c \in Clients
    PROVE  /\ granted' = [granted EXCEPT ![c] = Append(@, now)] => granted' \in [Clients -> Seq(Nat)]
           /\ Count(c) => /\ counter' \in [Clients -> [count : Nat, expires : Nat]]
                          /\ attempted' \in [Clients -> Nat]
<1>1. now \in Nat /\ granted \in [Clients -> Seq(Nat)] /\ attempted \in [Clients -> Nat]
      /\ counter \in [Clients -> [count : Nat, expires : Nat]]
  BY DEF TypeOK
<1>2. Append(granted[c], now) \in Seq(Nat)
  BY <1>1
<1>3. Counted(c) \in [count : Nat, expires : Nat]
  BY <1>1, LimitAssumption DEF Counted
<1> QED
  BY <1>1, <1>2, <1>3 DEF Count

\* An answer changes one call and nothing but its answer.
Answered(r) ==
    /\ call' \in [Reqs -> [client : Clients \cup {None}, stamp : Nat,
                          answer : {"none", "pending", "allowed", "denied"}]]
    /\ \A q \in Reqs : Pending(q)' =>
          Pending(q) /\ call'[q].client = call[q].client /\ call'[q].stamp = call[q].stamp

LEMMA AnswerTyped ==
    ASSUME TypeOK, NEW r \in Reqs, NEW a \in {"allowed", "denied"}, Answer(r, a)
    PROVE  Answered(r)
<1>1. call \in [Reqs -> [client : Clients \cup {None}, stamp : Nat,
                        answer : {"none", "pending", "allowed", "denied"}]]
  BY DEF TypeOK
<1>2. call' = [call EXCEPT ![r].answer = a]
  BY DEF Answer
<1> QED
  BY <1>1, <1>2 DEF Answered, Pending

\* The call of a client, the answer to it, and the record of what was granted.
LEMMA MemoryStep ==
    ASSUME TypeOK, CallInv, NEW r \in Reqs, MemoryAllow(r)
    PROVE  /\ Pending(r) /\ call[r].client \in Clients /\ backend = "memory"
           /\ UNCHANGED <<now, backend, counter, attempted>>
           /\ Answered(r)
           /\ \/ UNCHANGED <<buckets, granted>>
              \/ /\ granted' = [granted EXCEPT ![call[r].client] = Append(@, now)]
                 /\ \/ /\ Expired(r)
                       /\ buckets' = [buckets EXCEPT ![call[r].client] = FreshBucket(r)]
                    \/ /\ ~Expired(r) /\ buckets[call[r].client].count < Limit
                       /\ buckets' = [buckets EXCEPT ![call[r].client].count = @ + 1]
  BY AnswerTyped DEF CallInv, MemoryAllow, Grant

LEMMA RedisStep ==
    ASSUME TypeOK, CallInv, NEW r \in Reqs, RedisAllow(r) \/ RedisFail(r)
    PROVE  /\ Pending(r) /\ call[r].client \in Clients /\ backend = "redis"
           /\ UNCHANGED <<now, backend, buckets>>
           /\ Answered(r)
           /\ \/ UNCHANGED <<counter, attempted, granted>>
              \/ /\ Count(call[r].client)
                 /\ \/ UNCHANGED granted
                    \/ /\ Counted(call[r].client).count <= Limit
                       /\ granted' = [granted EXCEPT ![call[r].client] = Append(@, now)]
  BY AnswerTyped DEF CallInv, RedisAllow, RedisFail, Grant

\* Every step keeps the state typed.
LEMMA TypeStep ==
    ASSUME TypeOK, CallInv, [Next]_vars
    PROVE  TypeOK'
<1>1. ASSUME NEW r \in Reqs, NEW c \in Clients, StartAllow(r, c)  PROVE TypeOK'
  BY <1>1 DEF StartAllow, TypeOK
<1>2. ASSUME NEW r \in Reqs, MemoryAllow(r)  PROVE TypeOK'
  <2> DEFINE c == call[r].client
  <2>1. c \in Clients /\ UNCHANGED <<now, backend, counter, attempted>>
    BY <1>2, MemoryStep
  <2>2. granted' \in [Clients -> Seq(Nat)]
    BY <1>2, <2>1, MemoryStep, Typing DEF TypeOK
  <2>3. buckets \in [Clients -> [count : 0..Limit, expires : Nat]]
    BY DEF TypeOK
  <2>4. FreshBucket(r) \in [count : 0..Limit, expires : Nat]
    BY LimitAssumption DEF FreshBucket, TypeOK
  <2>5. buckets[c].count < Limit => buckets[c].count + 1 \in 0..Limit
    BY <2>1, <2>3, LimitAssumption
  <2>6. \/ buckets' = buckets
        \/ buckets' = [buckets EXCEPT ![c] = FreshBucket(r)]
        \/ buckets[c].count < Limit /\ buckets' = [buckets EXCEPT ![c].count = @ + 1]
    BY <1>2, MemoryStep
  <2>7. buckets' \in [Clients -> [count : 0..Limit, expires : Nat]]
    BY <2>1, <2>3, <2>4, <2>5, <2>6
  <2>8. Answered(r)
    BY <1>2, MemoryStep
  <2> QED
    BY <2>1, <2>2, <2>7, <2>8 DEF TypeOK, Answered
<1>3. ASSUME NEW r \in Reqs, RedisAllow(r) \/ RedisFail(r)  PROVE TypeOK'
  <2> DEFINE c == call[r].client
  <2>1. c \in Clients /\ UNCHANGED <<now, backend, buckets>>
    BY <1>3, RedisStep
  <2>2. granted' \in [Clients -> Seq(Nat)]
    BY <1>3, <2>1, RedisStep, Typing DEF TypeOK
  <2>3. /\ counter' \in [Clients -> [count : Nat, expires : Nat]]
        /\ attempted' \in [Clients -> Nat]
    BY <1>3, <2>1, RedisStep, Typing DEF TypeOK
  <2>4. Answered(r)
    BY <1>3, RedisStep
  <2> QED
    BY <2>1, <2>2, <2>3, <2>4 DEF TypeOK, Answered
<1>4. CASE Tick
  BY <1>4 DEF Tick, TypeOK
<1>5. CASE Reset
  BY <1>5, LimitAssumption DEF Reset, NoBucket, TypeOK
<1>6. CASE Restart
  BY <1>6, LimitAssumption DEF Restart, NoBucket, NoCall, TypeOK
<1>7. CASE UNCHANGED vars
  BY <1>7 DEF vars, TypeOK
<1> QED
  BY <1>1, <1>2, <1>3, <1>4, <1>5, <1>6, <1>7 DEF Next

\* No step makes a call wait too long.
LEMMA CallStep ==
    ASSUME TypeOK, CallInv, [Next]_vars
    PROVE  CallInv'
<1> USE DEF CallInv, Pending
<1>1. ASSUME NEW r \in Reqs, NEW c \in Clients, StartAllow(r, c)  PROVE CallInv'
  BY <1>1, LimitAssumption DEF StartAllow, TypeOK
<1>2. ASSUME NEW r \in Reqs, MemoryAllow(r)  PROVE CallInv'
  <2>1. Answered(r) /\ UNCHANGED <<now, backend>>
    BY <1>2, MemoryStep
  <2> QED
    BY <2>1 DEF Answered
<1>3. ASSUME NEW r \in Reqs, RedisAllow(r) \/ RedisFail(r)  PROVE CallInv'
  <2>1. Answered(r) /\ UNCHANGED <<now, backend>>
    BY <1>3, RedisStep
  <2> QED
    BY <2>1 DEF Answered
<1>4. CASE Tick
  BY <1>4, LimitAssumption DEF Tick, TypeOK
<1>5. CASE Reset
  BY <1>5 DEF Reset
<1>6. CASE Restart
  BY <1>6 DEF Restart, NoCall
<1>7. CASE UNCHANGED vars
  BY <1>7 DEF vars
<1> QED
  BY <1>1, <1>2, <1>3, <1>4, <1>5, <1>6, <1>7 DEF Next

\* Calls of one client leave the records of the others alone.
LEMMA ClientStep ==
    ASSUME IInv, [Next]_vars, NEW c \in Clients
    PROVE  ClientInv(c)'
<1>1. TypeOK /\ CallInv /\ ClientInv(c) /\ now \in Nat
  BY DEF IInv, TypeOK
<1>2. ASSUME NEW r \in Reqs, NEW d \in Clients, StartAllow(r, d)  PROVE ClientInv(c)'
  BY <1>1, <1>2, Later DEF StartAllow
<1>3. ASSUME NEW r \in Reqs, MemoryAllow(r)  PROVE ClientInv(c)'
  <2> DEFINE d == call[r].client
  <2>1. /\ Pending(r) /\ d \in Clients /\ backend = "memory"
        /\ UNCHANGED <<now, backend, counter, attempted>>
        /\ \/ UNCHANGED <<buckets, granted>>
           \/ /\ granted' = [granted EXCEPT ![d] = Append(@, now)]
              /\ \/ Expired(r) /\ buckets' = [buckets EXCEPT ![d] = FreshBucket(r)]
                 \/ /\ ~Expired(r) /\ buckets[d].count < Limit
                    /\ buckets' = [buckets EXCEPT ![d].count = @ + 1]
    BY <1>1, <1>3, MemoryStep
  <2>2. CASE UNCHANGED <<buckets, granted>>
    BY <2>1, <2>2, <1>1, Later
  <2>3. CASE ~UNCHANGED <<buckets, granted>> /\ d = c
    BY <2>1, <2>3, <1>1, MemoryGrant
  <2>4. CASE d # c
    <3>1. granted'[c] = granted[c] /\ buckets'[c] = buckets[c]
      BY <2>1, <2>4, <1>1 DEF TypeOK
    <3> QED
      BY <3>1, <2>1, <1>1, Later
  <2> QED
    BY <2>2, <2>3, <2>4
<1>4. ASSUME NEW r \in Reqs, RedisAllow(r) \/ RedisFail(r)  PROVE ClientInv(c)'
  <2> DEFINE d == call[r].client
  <2>1. /\ d \in Clients /\ backend = "redis" /\ UNCHANGED <<now, backend, buckets>>
        /\ \/ UNCHANGED <<counter, attempted, granted>>
           \/ /\ Count(d)
              /\ \/ UNCHANGED granted
                 \/ /\ Counted(d).count <= Limit
                    /\ granted' = [granted EXCEPT ![d] = Append(@, now)]
    BY <1>1, <1>4, RedisStep
  <2>2. CASE UNCHANGED <<counter, attempted, granted>>
    BY <2>1, <2>2, <1>1, Later
  <2>3. CASE ~UNCHANGED <<counter, attempted, granted>> /\ d = c
    BY <2>1, <2>3, <1>1, RedisAttempt DEF CallInv
  <2>4. CASE d # c
    <3>1. granted'[c] = granted[c] /\ counter'[c] = counter[c] /\ attempted'[c] = attempted[c]
      BY <2>1, <2>4, <1>1 DEF TypeOK, Count
    <3> QED
      BY <3>1, <2>1, <1>1, Later
  <2> QED
    BY <2>2, <2>3, <2>4
<1>5. CASE Tick
  BY <1>5, <1>1, Later DEF Tick
<1>6. CASE UNCHANGED vars
  BY <1>6, <1>1, Later DEF vars
<1>8. CASE Reset
  <2>1. granted'[c] = <<>> /\ buckets'[c] = NoBucket /\ AttemptInv(c)'
    BY <1>1, <1>8 DEF Reset, ClientInv, AttemptInv
  <2> QED
    BY <2>1, EmptyRecord
<1>9. CASE Restart
  <2>1. AttemptInv(c)' /\ buckets'[c] = NoBucket /\ backend' \in {"memory", "redis"}
    BY <1>1, <1>9, BackendAssumption DEF Restart, ClientInv, AttemptInv
  <2>2. CASE backend = "redis" /\ backend' = "redis"
    BY <2>1, <2>2, <1>1, <1>9 DEF Restart, ClientInv, GrantInv, RedisInv, BurstInv
  <2>3. CASE ~(backend = "redis" /\ backend' = "redis")
    <3>1. granted'[c] = <<>>
      BY <2>3, <1>9 DEF Restart
    <3> QED
      BY <3>1, <2>1, EmptyRecord
  <2> QED
    BY <2>2, <2>3
<1> QED
  BY <1>2, <1>3, <1>4, <1>5, <1>6, <1>8, <1>9 DEF Next

\* The invariant holds in every reachable state.
LEMMA Invariant == Spec => []IInv
<1>1. Init => IInv
  BY InitInv
<1>2. IInv /\ [Next]_vars => IInv'
  BY TypeStep, CallStep, ClientStep DEF IInv
<1> QED
  BY <1>1, <1>2, PTL DEF Spec

-----------------------------------------------------------------------------
(* Theorems *)

\* The state has its shape: a bucket never counts beyond the limit.
THEOREM TypeCorrect == Spec => []TypeOK
<1>1. IInv => TypeOK
  BY DEF IInv
<1> QED
  BY <1>1, Invariant, PTL

\* A window, wherever it lies, lets through fewer than 2*Limit calls with the
\* memory limiter (but for the stall), and no more than Limit with Redis.
THEOREM BurstsBounded == Spec => []BurstBound
<1>1. IInv => BurstBound
  BY DEF IInv, ClientInv, BurstInv, BurstBound
<1> QED
  BY <1>1, Invariant, PTL

\* A denial is the answer of the limiter to a call that has room neither in its
\* bucket nor in its counter.
LEMMA DenialStep ==
    ASSUME TypeOK, NEW r \in Reqs, Next, Denied(r)
    PROVE  \/ backend = "memory" /\ ~Expired(r) /\ buckets[call[r].client].count >= Limit
           \/ backend = "redis" /\ Counted(call[r].client).count > Limit
<1>1. call \in [Reqs -> [client : Clients \cup {None}, stamp : Nat,
                        answer : {"none", "pending", "allowed", "denied"}]]
      /\ call[r].answer = "pending" /\ call'[r].answer = "denied"
  BY DEF TypeOK, Denied, Pending
<1>2. ASSUME NEW q \in Reqs, NEW c \in Clients, StartAllow(q, c)  PROVE FALSE
  BY <1>1, <1>2 DEF StartAllow, Pending
<1>3. ASSUME NEW q \in Reqs, MemoryAllow(q)
      PROVE  backend = "memory" /\ ~Expired(r) /\ buckets[call[r].client].count >= Limit
  <2>1. q = r
    BY <1>1, <1>3 DEF MemoryAllow, Grant, Answer
  <2>2. ~Grant(r)
    BY <1>1 DEF Grant, Answer
  <2> QED
    BY <1>3, <2>1, <2>2 DEF MemoryAllow
<1>4. ASSUME NEW q \in Reqs, RedisAllow(q)
      PROVE  backend = "redis" /\ Counted(call[r].client).count > Limit
  <2>1. q = r
    BY <1>1, <1>4 DEF RedisAllow, Grant, Answer
  <2>2. ~Grant(r)
    BY <1>1 DEF Grant, Answer
  <2> QED
    BY <1>4, <2>1, <2>2 DEF RedisAllow
<1>5. ASSUME NEW q \in Reqs, RedisFail(q)  PROVE FALSE
  BY <1>1, <1>5 DEF RedisFail, Answer
<1>6. CASE Tick \/ Reset
  BY <1>1, <1>6 DEF Tick, Reset
<1>7. CASE Restart
  BY <1>1, <1>7 DEF Restart, NoCall
<1> QED
  BY <1>2, <1>3, <1>4, <1>5, <1>6, <1>7 DEF Next

\* A denial has its cause in recent grants (memory) or a recent attempt (Redis).
THEOREM DenialsCaused == Spec => DeniedForCause
<1> DEFINE Cause(r) ==
      Denied(r) => LET c == call[r].client
                   IN  IF backend = "memory" THEN JustUsed(granted[c], now - Window - Stall)
                       ELSE attempted[c] # 0 /\ now - attempted[c] < Window
<1>1. ASSUME IInv, [Next]_vars  PROVE [\A r \in Reqs : Cause(r)]_vars
  <2> SUFFICES ASSUME NEW r \in Reqs, Next, Denied(r)  PROVE Cause(r)
    BY <1>1
  <2> DEFINE c == call[r].client
             g == granted[c]
             n == Len(g)
  <2>1. /\ c \in Clients /\ ClientInv(c) /\ call[r].stamp \in Nat
        /\ backend = "memory" => now <= call[r].stamp + Stall
    BY <1>1 DEF IInv, CallInv, Denied, TypeOK
  <2>2. /\ now \in Nat /\ n \in Nat /\ \A i \in 1..n : g[i] \in Nat
        /\ buckets[c].count \in 0..Limit /\ buckets[c].expires \in Nat
        /\ counter[c].count \in Nat /\ counter[c].expires \in Nat /\ attempted[c] \in Nat
    BY <1>1, <2>1 DEF IInv, TypeOK
  <2>3. CASE backend = "memory" /\ ~Expired(r) /\ buckets[c].count >= Limit
    <3>1. buckets[c].count = Limit /\ call[r].stamp <= buckets[c].expires
      BY <2>2, <2>3, <2>1, LimitAssumption DEF Expired
    <3>2. MemoryInv(c)
      BY <2>1, <2>3 DEF ClientInv
    <3>3. Limit <= n /\ n - Limit + 1 \in 1..n /\ n - Limit + 1 > n - Limit
      <4>1. buckets[c].expires # 0
        BY <3>1, <3>2, LimitAssumption DEF MemoryInv
      <4>2. Limit <= n
        BY <4>1, <3>1, <3>2 DEF MemoryInv
      <4> QED
        BY <4>2, <2>2, LimitAssumption
    <3>4. g[n - Limit + 1] >= buckets[c].expires - Window
      BY <3>1, <3>2, <3>3, LimitAssumption DEF MemoryInv
    <3>5. g[n - Limit + 1] >= now - Window - Stall
      <4>1. g[n - Limit + 1] \in Nat
        BY <3>3, <2>2
      <4>2. buckets[c].expires + Stall >= now
        BY <3>1, <2>1, <2>2, <2>3, LimitAssumption
      <4> HIDE DEF c, g, n
      <4> QED
        BY <4>1, <4>2, <3>4, <2>2, LimitAssumption
    <3> QED
      BY <3>3, <3>5, <2>3 DEF JustUsed
  <2>4. CASE backend = "redis" /\ Counted(c).count > Limit
    <3>1. counter[c].expires > now
      BY <2>4, LimitAssumption DEF Counted
    <3>2. AttemptInv(c)
      BY <2>1 DEF ClientInv
    <3> QED
      BY <3>1, <3>2, <2>2, <2>4, LimitAssumption DEF AttemptInv
  <2> QED
    BY <1>1, <2>3, <2>4, DenialStep DEF IInv
<1> QED
  BY <1>1, Invariant, PTL DEF Spec, DeniedForCause

=============================================================================
