# A verification project for the Wunderlist backend

TLA+ modules, TLC configurations and TLAPS proofs about `wunderlist-backend`, a
Go/Gin HTTP server that keeps users, login sessions, lists and tasks in MongoDB
and its revocation records and rate limits in Redis. Every definition is read off the
Go source; `PROJECT.json` maps each to its lines. Paths below are relative to the
repository.

    tlc -workers 2 -config MCSessions_faults.cfg MCSessions     # one run
    tlapm SessionsProofs.tla                                    # one proof module

## 1. Inventory

| component | state | operations | interacts with |
|---|---|---|---|
| **Sessions and tokens** `internal/auth/{auth,refresh,session_service,jwt,jwt_blacklist,user_revoke}.go`, `handlers/{auth,sessions,sessions_current,admin_auth,debug}.go` | `sessions` collection (unique `token_sha`, TTL index on `expires_at`), Redis keys `jwt:blacklist:<jti>` and `jwt:user_revoked_at:<user>`, JWTs in the clients' hands | login, refresh (validate, rotate, hijack revocation), logout, logout current, logout all, revoke one, admin forced logout, reset test account | every protected handler through the middleware; password reset writes `revoked_at` |
| **Authentication middleware** `middleware/{auth,role}.go` | none (three reads per request) | signature and dates, revoked-at check, blacklist check, session lookup, role | Redis (fails open), MongoDB (fails closed) |
| **Rate limiters** `internal/auth/ratelimiter*.go` | in-memory buckets under a mutex, or Redis counters with an expiry | `Allow`, `Reset` | first step of login, refresh and Google login, keyed by IP |
| **Accounts and password reset** `handlers/{auth,google,password_reset,reset_password}.go`, `internal/auth/{password_reset,google_user}.go` | `users` (unique `email`), `password_reset_tokens` (TTL) | signup, login lookup, Google find-or-create with sub upgrade, forgot password, reset password, reset of the test account | logs in through Sessions, revokes through `revoked_at` |
| **Lists and tasks** `handlers/{lists,tasks}.go` | `lists` (unique user+title), `tasks` (unique user+list+title) | create, list, update, delete, search | identity from the middleware |
| **Cursor pagination** `internal/models/cursor.go`, the five listing handlers (lists, three for tasks, sessions) | none: the cursor is in the client's hands, signed and bound to the user | encode, decode, page query | runs while documents are inserted, changed and deleted |
| **Startup, configuration, shutdown** `cmd/api/main.go`, `config`, `db` | process-wide singletons, the listener, the unique indexes of the database | connect, choose Redis or fallbacks, ensure the indexes, serve, shut down on a signal | all of the above; its indexes are what `UniqueTitles` and `UniqueEmails` rest on |

What is hard here: every request is a goroutine and every handler is a sequence of
independent MongoDB and Redis commands with no transaction around them; any command
may fail, or be applied and then report an error; Redis may be absent and every use
of it fails open; records expire on three clocks (JWT dates in whole seconds, Redis
TTLs, MongoDB's TTL monitor that runs late); errors of some deletes are dropped on
purpose. `PROJECT.json` lists each hazard at its line.

What makes each component correct:

- Sessions: an acknowledged end of a session is final and ends its service; a refresh
  token is used once; ending all sessions leaves none behind; only their owner (or an
  admin, by name) ends them; a revocation outlives what it revokes.
- Middleware: nothing is served for an ended session even when Redis is silent; every
  request is answered.
- Rate limiters: at most `limit` attempts in a window; an attempt is possible again
  after the window; a failing Redis blocks nobody.
- Accounts: one account per email; a reset token changes one password once; a Google
  identity is bound to an account once.
- Lists and tasks: titles are unique per list, whatever creates and changes overlap.
- Pagination: a traversal returns everything that stays in the collection exactly
  once, and nothing twice, whatever is inserted and deleted meanwhile.
- Process: a shutdown in time cuts no request off and every shutdown ends in time; equal
  keys get into the database only after a start has logged that an index is missing.

## 2. Plan

Ordered by how much depends on it. Each component gets a module, an MC module, and
where the theorem is worth it a proof module.

| | module | composes | abstract specification | theorems |
|---|---|---|---|---|
| done | `Sessions` (middleware included) | - | `SessionRegister` | typing, ended sessions stay dead, never served again, a blacklist entry outlives its token, only owners end sessions, a bound on exchanges, revocation records only undone by late writes and precise to the second, single use, no heirs and lasting revocations when requests do not overlap, refinement |
| done | `RateLimiter` | - | - | typing, bursts bounded, denials caused |
| done | `Pagination`, `TaskBoard` over it | `TaskBoard` extends `Pagination` | `Traversal` | page lemmas; typing, titles unique, nothing shown twice, nothing missed, refinement |
| done | `Accounts` (reset tokens, signup, Google, debug route) | its reset ends in `Sessions!StartReset`, its logins in `Sessions!StartLogin` | `Directory` | typing, emails unique, a reset is final, a spent token is refused, Google identity bound and kept, a bound on the uses of a token, single use when requests do not overlap, refinement |
| done | `Process` (startup, indexes, shutdown) | its index failures are what the unique indexes of `TaskBoard` and `Accounts` assume away | - | typing, requests drained, shutdown bounded, a clean log means unique keys |
| next | `Accounts` and `Sessions` in one module: the login that was admitted before a reset, and the session it opens after it | both | - | - |

## 3. Modules

`Sessions.tla` is the detailed model. A request is a record: its operation, the step
it will do next, the session it presents, the user it acts for, and what the handler
keeps in local variables between its commands (the new session id, the `revoked_at`
stamp). Every action does one MongoDB or Redis command with the branch that follows
it, since that is where other requests get in between:

| code | actions |
|---|---|
| `AuthMiddleware`, `RequireRole` | `StartBearer`, `CheckUserRevoked`, `CheckBlacklisted`, `CheckSession` |
| `auth.Login` | `StartLogin`, `InsertSession`, `SignAccess` |
| `RefreshToken`, `ValidateRefreshTokenStrict`, `RotateRefreshToken` | `StartRefresh`, `FindRefresh`, `RevokeHijacked`, `RotateDelete`, `InsertSession`, `SignAccess` |
| `Logout` | `LogoutDelete`, `LogoutBlacklist` |
| `LogoutCurrentSession` | `LogoutCurrentDelete`, `LogoutCurrentBlacklist` |
| `LogoutAll` | `SetUserRevoked`, `LogoutAllBlacklist`, `DeleteAllSessions` |
| `AdminForceLogoutUser` | `SetUserRevoked`, `DeleteAllSessions` |
| `RevokeSession` | `RevokeDelete` |
| `ResetPassword`, after the new password is stored | `StartReset`, `SetUserRevoked` |
| handlers that leave sessions alone | `ServeRead` |
| MongoDB's TTL monitor, `ResetTestAccount`, a crash and restart | `PurgeExpired`, `DebugReset`, `Crash` |

State: `doc` holds every session document ever inserted (its fields never change),
`stored` the ids now in the collection, `issued` the signing time of each access
token, `blacklist`, `revokedAt` and `revokedUntil` the Redis records with their
expiry. Two history variables record what was promised: `ended`, the sessions whose
end a handler that checks its error acknowledged; `retired`, those of the handlers
that drop it.

Abstractions. A refresh token and its session are in bijection (unique `token_sha`),
so a token is named by its session. Tokens are unforgeable: clients present tokens
they were given. A clock read and the command it parametrises happen in one step,
except the stamp of `SetUserRevokedNow`, which is read when the handler begins because
the write order of stamps matters. Names, agents and titles are model values; an
empty User-Agent is kept because it disables the binding. A failed delete may have
been applied (a lost reply); a failed Redis write has not. The role is that of the
user: nothing in the program changes one.

`SessionRegister.tla` is the promise without collections, caches, tokens or clocks:
sessions go from unborn to open to closed, a request is granted only an open
session, and only closed sessions are acknowledged. `ImplementsRegister` states that
`Sessions` implements it under the mapping at the end of `Sessions.tla`: open means
stored and unexpired, and a request is being served while it is past the middleware
(or past the validation of its refresh token).

`RateLimiter.tla` is one of the three limiters, with both implementations of
`Allow` and the choice between them at a process start. A call to the memory limiter
is two steps because the code reads the clock before it takes the mutex
(`ratelimiter_memory.go`): `StartAllow` reads, `MemoryAllow` is what runs under the
mutex. `Stall` bounds the time between the two. The Redis transaction (INCR and
EXPIRE under MULTI/EXEC) is one step, `RedisAllow`; a failure is `RedisFail`, which
allows whether or not the transaction was executed. `Reset` is called by tests only
and is modelled because it is part of the interface; `Restart` loses the buckets and
keeps the Redis counters. `granted` and `attempted` record when calls were allowed
and counted. Keys are per client and independent, so one client is enough.

`Pagination.tla` is the page query the five listing handlers share, as operators: the
`$or` filter of a cursor (`Past`), sort and limit (`Newest`), the extra document that
tells whether there are more (`Fetched`, `HasMore`), and the next cursor (`Last`). A
cursor is signed and bound to its user, so it stands for the document it was made of.

`TaskBoard.tla` puts those queries over collections that change. Lists, tasks and
sessions are documents of one function, told apart by `kind`; `created_at` and `_id`
are minted before the first command (`Mint`), so documents become visible out of order.

| code | actions |
|---|---|
| `CreateList` | `StartCreateList`, `Insert` |
| `CreateTask` | `StartCreateTask`, `CountTask`, `Insert` |
| `UpdateList`, `UpdateTask`, `DeleteList`, `DeleteTask` | the actions of these names |
| the insert of a login or a rotation | `StartSession`, `Insert` |
| logouts, rotations, the TTL monitor (a `DeleteMany` is one step for each session) | `EndSession` |
| a client that follows `next_cursor` through `GetLists`, `GetTasks`, `GetActiveTasks`, `SearchTasks`, `ListSessions` | `StartWalk`, `FetchPage` |

`UpdateTask` stores the values of the body as they come: `list_id` becomes a string,
which compares equal to no ObjectID, and a value the model type cannot hold, in any field
(`decodes` is FALSE), makes every page with this task fail: also one that filters by
`completed`, unless it is `completed` itself that holds no boolean (`done` is "other"),
which no such filter matches. Its closing `FindOne` changes nothing and is
not a step. A page is one atomic `Find`: batches of one cursor fit one reply at 101
documents. `steady` is the ghost of a traversal: what has matched its query at every
moment since it began. Of a session only its coming and going counts here; expired
sessions that the TTL monitor has not met yet are listed like others. A list created
during a count is not modelled as a task's parent, since `CreateTask` takes any list id.

`Traversal.tla` is what a client may expect of following `next_cursor`: a traversal
begins (`Begin`), shows pages of items older than all it has shown (`Continue`), and ends
with everything that was there throughout shown (`Finish`) or with an error (`Fail`),
while others change the collection (`Change`). It has no cursors, limits, queries or
documents. `ImplementsTraversal` states that `TaskBoard` implements it: `shown` is what
was shown before the last page and on it, `steady` the ghost above.

`Accounts.tla` has one action per MongoDB command of each handler:

| code | actions |
|---|---|
| `Signup` | `StartSignup`, `CountEmail`, `InsertUser` |
| `Login` up to the password check | `StartLogin`, `FindByEmail`, `OpenSession` |
| `GoogleLogin`, `FindOrCreateGoogleUser` | `StartGoogle`, `FindGoogleUser`, `InsertUser`, `UpgradeSub`, `ReloadUser`, `OpenSession` |
| `ForgotPassword`, `CreatePasswordResetToken` | `StartForgot`, `FindForgotten`, `CreateToken` |
| `ResetPassword`, `ConsumePasswordResetToken` | `StartReset`, `FindToken`, `MarkUsed`, `SetPassword` |
| `ResetTestAccount` | `StartDebug`, `RemoveTestUser`, `RecreateTestUser` |
| MongoDB's TTL monitor | `PurgeToken` |

Hashing is by identity. Lower-casing is modelled where the handlers do it; a login carries
its password trimmed from the start, since it is used in no other form. A password is chosen once, so that it tells which write it came from. `Old`
accounts date from before `google_sub`. `spent`, `changes`, `chosen` and `dead` are
ghosts; `dead` holds passwords that a reset answered OK has replaced. The admitted
login continues in `Sessions!StartLogin`; the revocation inside a reset is
`Sessions!StartReset`. A deleted account keeps its last values with `stored` FALSE, so
that requests which read it before go on with their copy. The test account is inserted
without `auth_provider` (provider `None`). The deletion of all sessions by the debug
route is `Sessions!DebugReset`.

`Directory.tla` is what a client may count on of the accounts, without requests, queries
or tokens: a free address gets a new account (`Open`), an account is given up (`Close`)
and never comes back, an account from before identities gets one (`Bind`), and a reset
replaces a password by one that no answered reset has replaced (`Reset`).
`ImplementsDirectory` states that `Accounts` implements it: the holder of an address is
the account in the collection with it, what was never minted is spare, and `retired` is
the ghost `dead`. That an address has one holder at all is `UniqueEmails`, on which the
mapping rests.

`Process.tla` is `main` from its first line to its exit, over a database that outlives it:

| code | actions |
|---|---|
| `config.Validate`, `ConnectMongo`, `NewRedisClient` and the `Init` and `Set` calls | `Start`, `ConnectMongo`, `Wire` |
| `EnsureIndexes` | `EnsureIndex` (one per unique index), `IndexesEnsured` |
| `go srv.ListenAndServe()`, `signal.Notify` | `Launch`, `ListenAndServe`, `Notify` |
| SIGINT and SIGTERM, `srv.Shutdown`, `DisconnectMongo` | `Interrupt`, `ShutdownReturns`, `DisconnectReturns`, `Tick` for their deadlines |
| a request, as far as shutdown and indexes see it | `Arrive`, `Command`, `CommandReturns`, `Answer` |
| kill, out of memory, power cut | `Crash` |

`log.Fatal` is `Die`: the process is gone and every request with it. A request is in its
handler or inside a MongoDB command, and may stay there for ever. `duplicates` are the
indexes whose collection holds two equal keys: without the index any command may bring
them about, because the handlers leave the last word to the index. The non-unique and
TTL indexes change no answer and are left out.

The `MC*` modules have the instances, one `.cfg` per run. Operators named as mutants
of a definition are the plausible bugs each property is shown to catch.

## 4. Runs

Runs of `Sessions`, unless said otherwise: one user, two overlapping requests, one
fingerprint, access TTL 1, refresh TTL 2. Two requests are enough for every race of the
code, all of which are between two handlers. Two ids are a login and its successor (or
two logins), three allow a second successor. The runs with faults stop the clock: what
depends on the clock is in `sequential`, whose clock passes the expiry of tokens, and in
the theorems. Deadlock is not checked because the bounded clock and ids stop every run.

| run | bounds and faults | shows |
|---|---|---|
| `faults` | 2 ids, clock stopped; every operation but the forced logout; MongoDB and Redis errors, crashes, debug route | `TypeOK`, `EndedStayDead`, `EndedNeverServed`, `ImplementsRegister`: an acknowledged end is final and ends the service whatever fails |
| `reliable` | 2 ids, clock stopped, two fingerprints; logins, refreshes, logout current, logout all; Redis errors, no crash; under fairness | `RetiredStayDead`, `EndedNeverServed`: the handlers that ignore their errors keep the promise while MongoDB works. `EveryRequestAnswered`, `LogoutAllTakesEffect`: requests are answered, and a logout from all devices takes effect with Redis silent or not (the forced logout, which ends with the same delete, is not among the operations of this run) |
| `sequential` | one request at a time, two users, one an admin, 3 ids, clock 1..3 with two ticks a second, TTLs 2; logins, refreshes, logout all, revoke, forced logout; Redis may be absent | `SingleUse`, `BlacklistOutlivesToken`, `EndedLeaveNoHeir`, `RevokedTokenStaysRevoked`, `RevocationDecides`, `OnlyOwnerEndsSessions` |
| `v_single_use` | 3 ids, clock 1..2; two refreshes overlap | violates `SingleUse` |
| `v_logout_all` | 3 ids, clock 1..2; a refresh overlaps a logout from all devices | violates `EndedLeaveNoHeir` |
| `v_reset` | 3 ids, clock 1..2; password reset | violates `ResetEndsSessions` |
| `v_revoked_at` | two revocations overlap with a read, 3 requests, 3 ids, clock 1..3 | violates `RevokedTokenStaysRevoked` |

The other components:

| run | bounds and faults | shows |
|---|---|---|
| `limiter` | limit 2, window 2 ticks, stall 1, clock 1..8, one client, 2 overlapping calls, Redis errors, Reset, restarts between both backends | `BurstBound`, `DeniedForCause`: how much a window lets through, and that nobody is turned away without a cause |
| `board` | one user, 3 documents (two minted in one tick), 2 titles, one list id, 2 overlapping creates, one traversal of any of the five listings with pages of 1 or 2, failing inserts | `UniqueTitles`, `NewestFirst`, `Complete`, `ImplementsTraversal`: a traversal shows nothing twice and misses nothing that stays, and the handlers implement the abstract traversal |
| `accounts` | 3 accounts of which one old, 2 spellings of one address (one is that of the test account), 3 passwords, 2 overlapping requests of every kind, one reset token, every command failing but two | `UniqueEmails`, `DeadPasswordsStayDead`, `SpentTokenRefused`, `GoogleIdentity`, `IdentityKept`, `ImplementsDirectory`: accounts, their passwords and their identities change only as the directory allows |
| `process` | 2 requests that may never finish, 2 unique indexes, shutdown timeout 2 ticks, disconnect timeout 1, any number of crashes and restarts; under fairness | `DrainedBeforeDisconnect`, `BoundedShutdown`, `DuplicatesWereLogged`, `SignalEndsProcess` |
| `v_reset_token` | two resets with one token overlap, no faults | violates `TokenSingleUse` |

`limiter`: eight ticks hold three windows and the boundary between any two; the burst
at a boundary needs 2*limit = 4 grants. `board`: three documents are a page, its
successor and the extra document that decides `has_more`; the updates write values that
can and cannot be decoded, the latter into a task that counts as not completed; every
filter and every unique index names `user_id`, so a second user adds nothing; two equal
`created_at` make the tie-break on `_id` count. `accounts`: every race of these handlers is between
two requests; three accounts are two that compete for an address and one that exists.
The update that marks a token is kept from failing because the code drops its error:
with it failing a spent token works again, which is the hazard at
`password_reset.go:78`. The insert of the test account does not fail either: a failure
leaves what is there between the two commands of the debug route anyway. Of the three
passwords one is empty, one that of the test account: each of the others is chosen once,
so two signups do not overlap in this run; `EmailsUnique` is proved for any number.
`process`: two indexes are one that is there and one that is not; a tick is five
seconds, so its timeouts are those of `main.go:176` and `mongo.go`.

Fairness: `Sessions!FairSpec` assumes weak fairness of each request's next step. Handlers
run MongoDB commands under a 5 s context and Redis commands with 2 s timeouts, so every
step returns, with an answer or an error. The one exception is the session lookup of the
middleware, which has only the context of the connection (`middleware/auth.go:83`): it
ends at the latest when its client hangs up. Nothing is assumed about which requests
arrive, about the clock or about which outcome a step has. `Process!FairSpec` assumes
weak fairness of `main` and of the clock, and nothing of the requests.

## 5. What the code does and does not promise

The safety core holds under every modelled fault: `SessionExists` is consulted last
and fails closed, so the fail-open Redis checks only ever add rejections, and every
strict handler answers OK only after its delete. What does not hold:

1. Refresh tokens are not single use under overlap: the deleted count and error of
   `refresh.go:87` are ignored (`v_single_use`).
2. "Logged out from all devices" can leave a successor session: a refresh validated
   before and inserted after (`v_logout_all`).
3. A password reset deletes no session; refresh tokens keep working (`v_reset`).
4. Overlapping revocations write their stamps out of order, so a token that the record
   rejected can pass the check again until its session is deleted (`v_revoked_at`).
5. A password reset token is not single use under overlap: the token is found and
   then marked by `_id` alone (`v_reset_token`).

Limits of the promises, visible in the models:

- Memory limiter: close to twice the limit passes around the end of a bucket, and a
  caller that waits for the mutex decides with an old time; buckets are never purged.
  Redis limiter: the expiry is renewed by every attempt, rejected ones included, so a
  client that keeps retrying is never let in, unlike with the memory limiter.
- A task moved by `UpdateTask` has a string `list_id`: the list filter does not find it
  and the unique index does not compare it with the tasks created there (against the
  comment at `tasks.go:68`): `UniqueTitles` is about titles as the index compares them.
  Any failing update is answered 404. One value
  that cannot be decoded makes every page with the task fail with 500.
- `DeleteList` leaves its tasks; a create that loses the race for a title answers 500,
  not 409.
- Google logins lower-case the address, signups do not: one mailbox can have two
  accounts. A reset gives a Google account a password, after which its Google logins
  fail. Two overlapping first Google logins of an old account bind it twice (one made with an
  identity is never rebound: `IdentityKept`). Signup
  does not trim the password, login does. The validation tags of the reset request
  are never evaluated. A login that has read the account before a reset can be
  admitted after it with the old password.
- The debug route makes an account without `auth_provider`, for which a Google login
  skips the check of the identity. A handler that read an account before it was deleted
  goes on with its copy: the login opens a session for it (`google_user.go:59`). A reset
  of a deleted account is answered "password reset successful" (`reset_password.go:42`).
- A unique index that cannot be created is only logged (`indexes.go:201`): the server
  runs on, and no later start can create the index over equal keys. A signal before
  `signal.Notify` ends the process without a shutdown (`main.go:171`). `srv.Shutdown`
  waits ten seconds, a request may take longer (`main.go:179`); the process ends in
  time all the same.

Other disagreements seen while modelling that no run is spent on: `iat` has whole seconds and
`revoked_at` milliseconds, so a login in the second of a revocation gets a rejected
token (`jwt.go:48`, against `auth_revoked_at_test.go:119`; `RevocationDecides` says that it
costs no more than this second); `DELETE /sessions/current`
answers 204 when its delete failed (`sessions_current.go:47`, against its `@Failure
500`); `GET /sessions` lists expired sessions until the TTL monitor runs
(`sessions.go:41`); the debug route is registered in production (`main.go:90`);
`JWT_ACCESS_TTL_MIN` and `JWT_REFRESH_TTL_HOURS` are read as seconds, so a refresh
session lives 168 s, not the "7 days" of `config.go:30`.

## 6. Proofs

For every value of the constants that satisfies the named assumptions of
`Sessions.tla` (fresh model values, positive TTLs; `KeepAssumption` is the code's 30
days exceeding any access token):

- `SessionsProofs!TypeCorrect`. The inductive `TypeInv` adds to `TypeOK` that tokens
  belong to documents and that a request at a step holds the locals this step uses
  (`Fits`): without it a step could insert a document without a user.
- `SessionsProofs!EndedForever`, `RetiredForever`. `IInv` adds `Knows`: what a request
  that has executed its delete knows until it answers, for instance that a logout at
  its blacklist step has its session out of the collection. It is inductive because a
  document is stored only at its birth (`Monotone`), so another request cannot bring
  a deleted one back.
- `SessionsProofs!NeverServedAgain`, an action property from `IInv` and the guards of
  `CheckSession` and `FindRefresh`.
- `SessionsProofs!BlacklistOutlives`. `TokenInv`: a token was signed in the past, on an
  id that no other request waits to sign, and a request of a bearer presents a token
  that was signed; so an entry, made of a later clock, expires no earlier.
- `SessionsProofs!OwnersEnd`, from `TokenInv` (a logout runs for the user of its
  session) and `~DebugCalls`: the debug route ends the sessions of everybody.
- `SessionsProofs!ExchangedOnce`, `NoHeirLeft`, assuming that MongoDB answers and that
  requests do not overlap (`Sequential`); `v_single_use` and `v_logout_all` show that
  the second assumption is needed. `HeirInv`: a session with a successor has left the
  collection, its successor is its only one and belongs to the same user, and whatever
  a request rotates or logs out has no successor yet.
- `SessionsProofs!ExchangesBounded` is what remains of single use when requests do
  overlap and MongoDB answers: no more exchanges of one refresh token than requests at
  a time. `ExchangeInv`: a session still in the collection has no successor, and the
  successors of a session and the requests between its validation and their insert are
  together no more than there are requests. Requests join only while the session is
  stored, that is while it has no successor; an insert takes one request out and adds
  one successor.
- `SessionsProofs!OnlyLateWritesUndo`, with every fault and overlap: the record that
  rejects a token is undone only by a `LateWrite`, a revocation that read the clock before the one on
  record and is written after it, which is what `v_revoked_at` shows. `RevokeInv`: a
  stamp and a record were read of a clock that has passed, and the key lives for 30 days
  from its stamp, which no token outlives; the whole seconds of `iat` cost nothing here,
  since a rejected token has a fixed `iat`. `RevocationLasts` follows when requests do
  not overlap, since the stamp about to be written is the latest then. Both are about the
  record in Redis, which a middleware without an answer does not read.
- `SessionsProofs!RevocationPrecise`, from `RevokeInv`, `TokenInv` and the arithmetic of
  whole seconds (`NumericDateBounds`), with every fault and overlap: what the middleware
  decides when it reads the record. A token is turned away only if it was signed before
  the second of the revocation was over, and none signed by then is let past, also when
  the key has expired, since it expires after the tokens it blocks.
- `SessionsRegisterProofs!Refinement`: the initial states map to initial states and
  each step is a grant, a move or a stutter of the register (`InitMaps`, `StepMaps`,
  with `StatusMoves` and `ServingMoves`). `SessionRegister!AckedForever` is the
  register's own invariant.

`RateLimiterProofs` (from `LimitAssumption`): `TypeCorrect`, `BurstsBounded`,
`DenialsCaused`. The bound on bursts is about the gap between two grants of a history,
which no state variable says; `IInv` relates the history to the open bucket
(`MemoryInv`: the last `count` grants were made for it, and all but `Limit - 1` of the
earlier ones lie more than `Window - Stall` before it opened) and to the Redis counter
(`RedisInv`, `AttemptInv`). `CallInv` bounds how old the time of a waiting call is,
`GrantInv` orders the history up to that stall.

`PaginationProofs` has the lemmas about pages, for every finite collection: the order
by creation time and id is strict and total; a nonempty finite set has a newest
document (by well-founded induction over strict subsets); a fetch is the newest
`limit + 1`; what was not fetched lies beyond the last document shown (`PageSplits`).
`TaskBoardProofs` uses them for `TypeCorrect`, `TitlesUnique`, `NothingTwice` and
`NothingMissed`. The part of its `IInv` about a traversal, `Good`: whatever was shown is
at or newer than the cursor, and whatever matched the query throughout has been shown
or lies past the cursor. It is inductive because ids and creation times never change
and because a document that is steady matched at the previous page too. `Refinement`
follows from the same invariant: writes map to `Change` (`WriteMaps`), a first request
to `Begin` (`StartMaps`), a page to `Continue`, `Finish` or `Fail` (`FetchMaps`), where
`PageMaps` gets the order of old and new items from `Good`.

`AccountsProofs` (from the text, `None` and test account assumptions): `TypeCorrect`, `EmailsUnique`,
`ResetIsFinal`, `TokenSpent`, `GoogleBound`, `IdentityForGood`. Its `IInv` adds three parts. `PasswordInv`: a
password on its way is not stored, not replaced, not carried by another request and not
the one the debug route writes, so a reset cannot bring a replaced one back; deleted
accounts count, since a copy of them may be in a handler's hands.
`SpentInv`: a request about to store a password has marked its token, unless that
update may be lost, which is the assumption of `TokenSpent`. `GoogleInv`: an account made by a Google login has an
identity from its first document on, so only old accounts reach the upgrade, and a
login between its reload and its session holds an account of its own identity.

`TokenUsesBounded` is what the two commands of `ConsumePasswordResetToken` do promise
when the update is executed: a token changes no more passwords than requests overlap.
`ChangeInv`: an unmarked token has changed none, and the passwords a token has changed
and the resets between its lookup and their update are together no more than there are
requests. `SingleUseAlone` is `TokenSingleUse` for requests that do not overlap, and
`v_reset_token` shows that this is needed. `IdentityFixedAlone` extends
`IdentityForGood` to the old accounts under the same assumption: a login that is about
to bind an account finds it still unbound (`UnboundYet`).

`AccountsProofs!Refinement`: an insert that the unique index lets through maps to `Open`
(`OpenMaps`), the delete of the debug route to `Close` (`CloseMaps`), the upgrade to `Bind`
(`BindMaps`), the end of a reset to `Reset` (`ResetMaps`), all else to a stutter. The
guards of the directory come from the invariant: the one holder from `UniqueEmails`, the
password that nobody retired from `PasswordInv`, the old account from `GoogleInv`.

`ProcessProofs` (from `NumIndexesAssumption`, `TimeoutAssumption`): `TypeCorrect`,
`ShutdownDrains`, `ShutdownInTime`, `CleanLogMeansUnique`. `ClockInv` bounds the present
wait by its deadline and the time since the signal by what the waits before it allowed;
`RequestInv` says when requests can be there at all; `IndexInv` that what this start has
tried is in the database or in the log, and that it serves only after it has tried all.

Only model-checked: the liveness properties `EveryRequestAnswered`,
`LogoutAllTakesEffect` and `SignalEndsProcess` (fairness and ENABLED are outside the
prover). `SingleUse`, `EndedLeaveNoHeir`, `RevokedTokenStaysRevoked` and
`TokenSingleUse` are proved under the assumption that requests do not overlap, without
which the violation runs refute them; `ResetEndsSessions` is false of a single request.

## 7. Not modelled

bcrypt and SHA (tokens are opaque and unforgeable), Google's verification of ID tokens
(external: its verdict is an input of a login), e-mail, request logging and security
headers (they keep no state), generated Swagger code and scripts. Settings are constants
of the modules; the wrong unit of two of them is named in section 5. Of lists and tasks
the description, priority and due date are left out, but for values in them that cannot
be decoded.
