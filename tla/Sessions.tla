------------------------------ MODULE Sessions ------------------------------
(***************************************************************************)
(* Login sessions of the backend: the MongoDB collection of refresh        *)
(* sessions, the access JWTs bound to them (jti = session id), the two     *)
(* Redis revocation records, and the requests that read and write them.    *)
(*                                                                         *)
(* Every HTTP request is a goroutine.  Its state is one record, and each   *)
(* step of it performs exactly one MongoDB or Redis operation, because     *)
(* that is where the scheduler and the other requests get in between.      *)
(* The content of a session document never changes after the insert, so    *)
(* "doc" keeps every document ever inserted and "stored" says which of     *)
(* them are in the collection now.  The refresh token of a session and the *)
(* session are in bijection (unique token_sha), so a refresh token is      *)
(* named by its session id.                                                *)
(***************************************************************************)
EXTENDS Integers, FiniteSets

CONSTANTS
    Users,          \* user ids
    Admins,         \* the users whose role claim is "admin"
    Agents,         \* client fingerprints, records [ua, ip]
    Sids,           \* ObjectIDs the inserts draw from
    Reqs,           \* request slots: how many requests overlap
    None,           \* "no session", "no user", "no agent"
    NoDoc,          \* no session document was ever inserted under this id
    AccessTTL,      \* accessTTL, in clock ticks
    RefreshTTL,     \* refreshTTL, in clock ticks
    Keep,           \* lifetime of a revoked_at record, in clock ticks
    Second,         \* clock ticks per second: JWT dates are whole seconds
    MaxTime,        \* bound: the clock stops here
    Ops,            \* bound: the operations the clients of a run use
    Redis,          \* what NewRedisClient may return at a process start
    RedisFaults,    \* may a Redis command fail?
    MongoFaults,    \* may a MongoDB command fail?
    Crashes,        \* may the process crash and restart?
    DebugCalls      \* bound: does anybody call the debug route?

ASSUME SidsAssumption == None \notin Sids /\ None \notin Users /\ None \notin Agents
ASSUME DocAssumption ==
    NoDoc \notin [user : Users, agent : Agents, from : Sids \cup {None}, expires : Nat]
ASSUME AdminsAssumption == Admins \subseteq Users
ASSUME TTLAssumption ==
    /\ AccessTTL \in Nat \ {0} /\ RefreshTTL \in Nat \ {0}
    /\ Second \in Nat \ {0} /\ Keep \in Nat /\ MaxTime \in Nat
ASSUME KeepAssumption == Keep >= AccessTTL + Second
ASSUME RedisAssumption == Redis \subseteq {"connected", "absent"} /\ Redis # {}
ASSUME FaultAssumption ==
    {RedisFaults, MongoFaults, Crashes, DebugCalls} \subseteq BOOLEAN

VARIABLES
    now,            \* the wall clock
    doc,            \* every session document ever inserted
    stored,         \* ids of the documents now in the collection
    issued,         \* when the access token of a session was signed
    redis,          \* the Redis client of this process, "absent" = nil
    blacklist,      \* jwt:blacklist:<jti>: when the entry expires, 0 = none
    revokedAt,      \* jwt:user_revoked_at:<user>: the stamp, 0 = none
    revokedUntil,   \* when that record expires
    req,            \* the requests in flight
    ended,          \* sessions whose end a strict handler acknowledged
    retired         \* sessions whose end a best-effort handler acknowledged

mongo == <<doc, stored>>
redisVars == <<redis, blacklist, revokedAt, revokedUntil>>
acks == <<ended, retired>>
vars == <<now, doc, stored, issued, redis, blacklist, revokedAt, revokedUntil,
          req, ended, retired>>

-----------------------------------------------------------------------------
(* Session documents and tokens *)

Unsigned == -1

Born == {s \in Sids : doc[s] # NoDoc}
SessionsOf(u) == {s \in Born : doc[s].user = u}

\* The filters {token_sha | _id, expires_at > now} of FindOne and CountDocuments.
Live == {s \in stored : doc[s].expires > now}

\* jwt.NewNumericDate keeps whole seconds.
NumericDate(t) == t - (t % Second)
IssuedAt(s) == NumericDate(issued[s])
ExpiresAt(s) == NumericDate(issued[s] + AccessTTL)

HasToken(s) == issued[s] # Unsigned
ValidToken(s) == HasToken(s) /\ ExpiresAt(s) > now

\* Mutant of UserRevoked: a record revokes the tokens issued after it too.
UserRevokedForGood(s) == revokedUntil[doc[s].user] > now

\* GetUserRevokedAt finds a record, and the token was not issued after it.
UserRevoked(s) ==
    LET u == doc[s].user
    IN  revokedUntil[u] > now /\ IssuedAt(s) <= revokedAt[u]

Blacklisted(s) == blacklist[s] > now

\* A refresh session is bound to the User-Agent and to the IP it was made with.
Hijacked(s, agent) ==
    LET bound == doc[s].agent
    IN  \/ bound.ua # "" /\ bound.ua # agent.ua
        \/ bound.ip # "" /\ bound.ip # agent.ip

-----------------------------------------------------------------------------
(* Requests *)

BearerOps == {"read", "logout", "logoutCurrent", "logoutAll", "revoke", "forceLogout"}
AllOps == BearerOps \cup {"login", "refresh", "reset"}

\* The operation a request performs next.
MiddlewareSteps == {"userRevoked", "blacklisted", "sessionExists"}
GrantedSteps == {"read", "deleteOne", "revokeJWT", "setRevoked", "deleteAll",
                 "revokeHijacked", "rotate", "insert", "sign"}
Steps == {"idle", "find"} \cup MiddlewareSteps \cup GrantedSteps

Idle == [op |-> "none", at |-> "idle", user |-> None, agent |-> None,
         sid |-> None, new |-> None, stamp |-> 0, scope |-> {}]

\* sid: the session presented; new: the session being created; scope: the
\* sessions whose end the request will have promised when it answers OK.
Request == [op : AllOps \cup {"none"}, at : Steps, user : Users \cup {None},
            agent : Agents \cup {None}, sid : Sids \cup {None},
            new : Sids \cup {None}, stamp : Nat, scope : SUBSET Sids]

At(r, op, step) == req[r].op \in op /\ req[r].at = step
Goto(r, step) == req' = [req EXCEPT ![r].at = step]
Reply(r) == req' = [req EXCEPT ![r] = Idle]
Start(r, op, call) ==
    /\ op \in Ops
    /\ req[r] = Idle
    /\ req' = [req EXCEPT ![r] = call]

\* One DeleteOne or DeleteMany: done, or an error that may hide a done delete.
Deletes(S) == stored' = stored \ S
DeleteFails(S) == MongoFaults /\ stored' \in {stored, stored \ S}

\* A Redis command gives no answer with a nil client or on an error.
RedisAnswers == redis = "connected"
RedisSilent == redis = "absent" \/ RedisFaults

-----------------------------------------------------------------------------
Init ==
    /\ now = 1
    /\ doc = [s \in Sids |-> NoDoc]
    /\ stored = {}
    /\ issued = [s \in Sids |-> Unsigned]
    /\ redis \in Redis
    /\ blacklist = [s \in Sids |-> 0]
    /\ revokedAt = [u \in Users |-> 0]
    /\ revokedUntil = [u \in Users |-> 0]
    /\ req = [r \in Reqs |-> Idle]
    /\ ended = {}
    /\ retired = {}

\* Bound: a request that will insert a session starts only while an id is left for it.
Room == Cardinality({r \in Reqs : req[r].op \in {"login", "refresh"} /\ req[r].new = None})
            < Cardinality(Sids \ Born)

-----------------------------------------------------------------------------
(* A request arrives *)

\* The credentials of u were accepted (password or Google): auth.Login is next.
StartLogin(r, u, a) ==
    /\ Room
    /\ Start(r, "login", [Idle EXCEPT !.op = "login", !.at = "insert", !.user = u, !.agent = a])
    /\ UNCHANGED <<now, mongo, issued, redisVars, acks>>

\* A client presents the refresh token it was given with session s.
StartRefresh(r, s, a) ==
    /\ Room
    /\ HasToken(s)
    /\ Start(r, "refresh", [Idle EXCEPT !.op = "refresh", !.at = "find", !.sid = s, !.agent = a])
    /\ UNCHANGED <<now, mongo, issued, redisVars, acks>>

\* A client presents the access token of session s, and its signature and dates pass.
StartBearer(r, op, s, u, targets) ==
    /\ ValidToken(s)
    /\ Start(r, op, [Idle EXCEPT !.op = op, !.at = "userRevoked", !.sid = s,
                                 !.user = u, !.scope = targets])
    /\ UNCHANGED <<now, mongo, issued, redisVars, acks>>

\* ResetPassword has consumed the reset token and stored the new password of u.
StartReset(r, u) ==
    /\ Start(r, "reset", [Idle EXCEPT !.op = "reset", !.at = "setRevoked", !.user = u,
                                      !.stamp = now, !.scope = SessionsOf(u)])
    /\ UNCHANGED <<now, mongo, issued, redisVars, acks>>

Arrive(r) ==
    \/ \E u \in Users, a \in Agents : StartLogin(r, u, a)
    \/ \E s \in Sids, a \in Agents : StartRefresh(r, s, a)
    \/ \E s \in Born, op \in BearerOps \ {"revoke", "forceLogout"} :
           StartBearer(r, op, s, doc[s].user, {})
    \/ \E s, t \in Born : StartBearer(r, "revoke", s, doc[s].user, {t})
    \/ \E s \in Born, u \in Users : StartBearer(r, "forceLogout", s, u, {})
    \/ \E u \in Users : StartReset(r, u)

-----------------------------------------------------------------------------
(* AuthMiddleware and RequireRole *)

CheckUserRevoked(r) ==
    /\ At(r, BearerOps, "userRevoked")
    /\ \/ RedisAnswers /\ UserRevoked(req[r].sid) /\ Reply(r)
       \/ RedisAnswers /\ ~UserRevoked(req[r].sid) /\ Goto(r, "blacklisted")
       \/ RedisSilent /\ Goto(r, "blacklisted")
    /\ UNCHANGED <<now, mongo, issued, redisVars, acks>>

CheckBlacklisted(r) ==
    /\ At(r, BearerOps, "blacklisted")
    /\ \/ RedisAnswers /\ Blacklisted(req[r].sid) /\ Reply(r)
       \/ RedisAnswers /\ ~Blacklisted(req[r].sid) /\ Goto(r, "sessionExists")
       \/ RedisSilent /\ Goto(r, "sessionExists")
    /\ UNCHANGED <<now, mongo, issued, redisVars, acks>>

Allowed(r) == req[r].op = "forceLogout" => doc[req[r].sid].user \in Admins

FirstStep(op) ==
    CASE op = "read" -> "read"
      [] op \in {"logout", "logoutCurrent", "revoke"} -> "deleteOne"
      [] op \in {"logoutAll", "forceLogout"} -> "setRevoked"

Promise(r) ==
    CASE req[r].op \in {"logout", "logoutCurrent"} -> {req[r].sid}
      [] req[r].op \in {"logoutAll", "forceLogout"} -> SessionsOf(req[r].user)
      [] OTHER -> req[r].scope

\* SetUserRevokedNow reads the clock when the handler begins.
Stamp(r) == IF req[r].op \in {"logoutAll", "forceLogout"} THEN now ELSE 0

\* Mutant of CheckSession: a MongoDB error counts as "the session exists".
CheckSessionFailOpen(r) ==
    /\ At(r, BearerOps, "sessionExists")
    /\ req[r].sid \in Live \/ MongoFaults
    /\ req' = [req EXCEPT ![r].at = FirstStep(req[r].op),
                          ![r].scope = Promise(r), ![r].stamp = Stamp(r)]
    /\ UNCHANGED <<now, mongo, issued, redisVars, acks>>

CheckSession(r) ==
    /\ At(r, BearerOps, "sessionExists")
    /\ \/ /\ req[r].sid \in Live /\ Allowed(r)
          /\ req' = [req EXCEPT ![r].at = FirstStep(req[r].op),
                                ![r].scope = Promise(r), ![r].stamp = Stamp(r)]
       \/ (req[r].sid \notin Live \/ ~Allowed(r) \/ MongoFaults) /\ Reply(r)
    /\ UNCHANGED <<now, mongo, issued, redisVars, acks>>

-----------------------------------------------------------------------------
(* Protected handlers *)

\* Any handler that leaves the sessions alone.
ServeRead(r) ==
    /\ At(r, {"read"}, "read")
    /\ Reply(r)
    /\ UNCHANGED <<now, mongo, issued, redisVars, acks>>

\* Mutant of LogoutDelete: drops the error, as LogoutCurrentSession does.
LogoutDeleteUnchecked(r) ==
    /\ At(r, {"logout"}, "deleteOne")
    /\ Deletes({req[r].sid}) \/ DeleteFails({req[r].sid})
    /\ Goto(r, "revokeJWT")
    /\ UNCHANGED <<now, doc, issued, redisVars, acks>>

\* Logout: DeleteSessionByID, 500 on an error.
LogoutDelete(r) ==
    /\ At(r, {"logout"}, "deleteOne")
    /\ \/ Deletes({req[r].sid}) /\ Goto(r, "revokeJWT")
       \/ DeleteFails({req[r].sid}) /\ Reply(r)
    /\ UNCHANGED <<now, doc, issued, redisVars, acks>>

\* LogoutCurrentSession: the result and the error of DeleteOne are dropped.
LogoutCurrentDelete(r) ==
    /\ At(r, {"logoutCurrent"}, "deleteOne")
    /\ Deletes({req[r].sid}) \/ DeleteFails({req[r].sid})
    /\ Goto(r, "revokeJWT")
    /\ UNCHANGED <<now, doc, issued, redisVars, acks>>

\* Mutant of RevokeDelete: DeleteSessionByIDOnly, without the caller's user_id.
RevokeDeleteByIDOnly(r) ==
    /\ At(r, {"revoke"}, "deleteOne")
    /\ LET found == req[r].scope \cap stored
       IN  \/ found # {} /\ Deletes(found) /\ ended' = ended \cup req[r].scope
           \/ found = {} /\ UNCHANGED <<stored, ended>>
    /\ Reply(r)
    /\ UNCHANGED <<now, doc, issued, redisVars, retired>>

\* RevokeSession: the filter names the caller too; 404 when nothing was deleted.
RevokeDelete(r) ==
    /\ At(r, {"revoke"}, "deleteOne")
    /\ LET found == {s \in req[r].scope \cap stored : doc[s].user = req[r].user}
       IN  \/ found # {} /\ Deletes(found) /\ ended' = ended \cup req[r].scope
           \/ found = {} /\ UNCHANGED <<stored, ended>>
           \/ DeleteFails(found) /\ UNCHANGED ended
    /\ Reply(r)
    /\ UNCHANGED <<now, doc, issued, redisVars, retired>>

\* Mutant of Blacklist: the entry lives one tick less than a token.
BlacklistTooShort(r) ==
    \/ RedisAnswers /\ blacklist' = [blacklist EXCEPT ![req[r].sid] = now + AccessTTL - 1]
    \/ RedisSilent /\ UNCHANGED blacklist

\* RevokeJWT drops every error; its TTL is a full access token lifetime.
Blacklist(r) ==
    \/ RedisAnswers /\ blacklist' = [blacklist EXCEPT ![req[r].sid] = now + AccessTTL]
    \/ RedisSilent /\ UNCHANGED blacklist

LogoutBlacklist(r) ==
    /\ At(r, {"logout"}, "revokeJWT")
    /\ Blacklist(r)
    /\ ended' = ended \cup req[r].scope
    /\ Reply(r)
    /\ UNCHANGED <<now, mongo, issued, redis, revokedAt, revokedUntil, retired>>

LogoutCurrentBlacklist(r) ==
    /\ At(r, {"logoutCurrent"}, "revokeJWT")
    /\ Blacklist(r)
    /\ retired' = retired \cup req[r].scope
    /\ Reply(r)
    /\ UNCHANGED <<now, mongo, issued, redis, revokedAt, revokedUntil, ended>>

LogoutAllBlacklist(r) ==
    /\ At(r, {"logoutAll"}, "revokeJWT")
    /\ Blacklist(r)
    /\ Goto(r, "deleteAll")
    /\ UNCHANGED <<now, mongo, issued, redis, revokedAt, revokedUntil, acks>>

\* SetUserRevokedNow; LogoutAll, AdminForceLogoutUser and ResetPassword drop its error.
NextAfterRevoke(r) ==
    CASE req[r].op = "logoutAll" -> Goto(r, "revokeJWT")
      [] req[r].op = "forceLogout" -> Goto(r, "deleteAll")
      [] req[r].op = "reset" -> Reply(r)

\* Mutant of SetUserRevoked: the handler gives up when Redis fails.
SetUserRevokedOrReply(r) ==
    /\ At(r, {"logoutAll", "forceLogout", "reset"}, "setRevoked")
    /\ \/ /\ RedisAnswers
          /\ revokedAt' = [revokedAt EXCEPT ![req[r].user] = req[r].stamp]
          /\ revokedUntil' = [revokedUntil EXCEPT ![req[r].user] = now + Keep]
          /\ NextAfterRevoke(r)
       \/ RedisSilent /\ Reply(r) /\ UNCHANGED <<revokedAt, revokedUntil>>
    /\ UNCHANGED <<now, mongo, issued, redis, blacklist, acks>>

\* Mutant of SetUserRevoked: the record is kept for one tick only.
SetUserRevokedShortKeep(r) ==
    /\ At(r, {"logoutAll", "forceLogout", "reset"}, "setRevoked")
    /\ revokedAt' = [revokedAt EXCEPT ![req[r].user] = req[r].stamp]
    /\ revokedUntil' = [revokedUntil EXCEPT ![req[r].user] = now + 1]
    /\ NextAfterRevoke(r)
    /\ UNCHANGED <<now, mongo, issued, redis, blacklist, acks>>

SetUserRevoked(r) ==
    /\ At(r, {"logoutAll", "forceLogout", "reset"}, "setRevoked")
    /\ \/ /\ RedisAnswers
          /\ revokedAt' = [revokedAt EXCEPT ![req[r].user] = req[r].stamp]
          /\ revokedUntil' = [revokedUntil EXCEPT ![req[r].user] = now + Keep]
       \/ RedisSilent /\ UNCHANGED <<revokedAt, revokedUntil>>
    /\ NextAfterRevoke(r)
    /\ UNCHANGED <<now, mongo, issued, redis, blacklist, acks>>

\* Mutant of DeleteAllSessions: deletes the caller's own session only.
DeleteAllSessionsOwnOnly(r) ==
    /\ At(r, {"logoutAll", "forceLogout"}, "deleteAll")
    /\ Deletes({req[r].sid})
    /\ ended' = ended \cup req[r].scope
    /\ Reply(r)
    /\ UNCHANGED <<now, doc, issued, redisVars, retired>>

\* DeleteAllSessions, 500 on an error.
DeleteAllSessions(r) ==
    /\ At(r, {"logoutAll", "forceLogout"}, "deleteAll")
    /\ LET mine == SessionsOf(req[r].user)
       IN  \/ Deletes(mine) /\ ended' = ended \cup req[r].scope
           \/ DeleteFails(mine) /\ UNCHANGED ended
    /\ Reply(r)
    /\ UNCHANGED <<now, doc, issued, redisVars, retired>>

-----------------------------------------------------------------------------
(* Refresh and login *)

\* Mutant of FindRefresh: finds sessions that were deleted.
FindRefreshDeleted(r) ==
    /\ At(r, {"refresh"}, "find")
    /\ LET s == req[r].sid
       IN  \/ /\ s \in Born /\ ~Hijacked(s, req[r].agent)
              /\ req' = [req EXCEPT ![r].at = "rotate", ![r].scope = {s}]
           \/ Hijacked(s, req[r].agent) /\ Reply(r)
    /\ UNCHANGED <<now, mongo, issued, redisVars, acks>>

\* ValidateRefreshTokenStrict: FindOne, then the fingerprint of the session.
FindRefresh(r) ==
    /\ At(r, {"refresh"}, "find")
    /\ LET s == req[r].sid
       IN  \/ /\ s \in Live /\ ~Hijacked(s, req[r].agent)
              /\ req' = [req EXCEPT ![r].at = "rotate", ![r].scope = {s}]
           \/ /\ s \in Live /\ Hijacked(s, req[r].agent)
              /\ req' = [req EXCEPT ![r].at = "revokeHijacked",
                                    ![r].scope = SessionsOf(doc[s].user)]
           \/ (s \notin Live \/ MongoFaults) /\ Reply(r)
    /\ UNCHANGED <<now, mongo, issued, redisVars, acks>>

\* revokeUserSessions: the error of DeleteMany is dropped; the answer is 401.
RevokeHijacked(r) ==
    /\ At(r, {"refresh"}, "revokeHijacked")
    /\ LET mine == SessionsOf(doc[req[r].sid].user) IN Deletes(mine) \/ DeleteFails(mine)
    /\ retired' = retired \cup req[r].scope
    /\ Reply(r)
    /\ UNCHANGED <<now, doc, issued, redisVars, ended>>

\* Mutant of RotateDelete: the old session is left in the collection.
RotateKeepOld(r) ==
    /\ At(r, {"refresh"}, "rotate")
    /\ req' = [req EXCEPT ![r].at = "insert", ![r].user = doc[req[r].sid].user,
                          ![r].agent = doc[req[r].sid].agent]
    /\ UNCHANGED <<now, mongo, issued, redisVars, acks>>

\* Mutant of RotateDelete: the new session gets no user id.
RotateWithoutUser(r) ==
    /\ At(r, {"refresh"}, "rotate")
    /\ Deletes({req[r].sid})
    /\ req' = [req EXCEPT ![r].at = "insert", ![r].agent = doc[req[r].sid].agent]
    /\ UNCHANGED <<now, doc, issued, redisVars, acks>>

\* Mutant of RotateDelete: tries again until it has deleted the session.
RotateUntilDeleted(r) ==
    /\ At(r, {"refresh"}, "rotate")
    /\ req[r].sid \in stored
    /\ Deletes({req[r].sid})
    /\ req' = [req EXCEPT ![r].at = "insert", ![r].user = doc[req[r].sid].user,
                          ![r].agent = doc[req[r].sid].agent]
    /\ UNCHANGED <<now, doc, issued, redisVars, acks>>

\* RotateRefreshToken: delete the old session, whatever comes of it.
RotateDelete(r) ==
    /\ At(r, {"refresh"}, "rotate")
    /\ Deletes({req[r].sid}) \/ DeleteFails({req[r].sid})
    /\ req' = [req EXCEPT ![r].at = "insert", ![r].user = doc[req[r].sid].user,
                          ![r].agent = doc[req[r].sid].agent]
    /\ UNCHANGED <<now, doc, issued, redisVars, acks>>

\* InsertOne of auth.Login and of RotateRefreshToken, with a fresh ObjectID.
InsertSession(r) ==
    /\ At(r, {"login", "refresh"}, "insert")
    /\ \E n \in Sids \ Born :
           LET d == [user |-> req[r].user, agent |-> req[r].agent, from |-> req[r].sid,
                     expires |-> now + RefreshTTL]
               inserted == doc' = [doc EXCEPT ![n] = d] /\ stored' = stored \cup {n}
           IN  \/ inserted /\ req' = [req EXCEPT ![r].at = "sign", ![r].new = n]
               \/ MongoFaults /\ inserted /\ Reply(r)
               \/ MongoFaults /\ UNCHANGED mongo /\ Reply(r)
    /\ UNCHANGED <<now, issued, redisVars, acks>>

\* GenerateAccessTokenForSession, and the answer with both tokens.
SignAccess(r) ==
    /\ At(r, {"login", "refresh"}, "sign")
    /\ issued' = [issued EXCEPT ![req[r].new] = now]
    /\ retired' = retired \cup req[r].scope
    /\ Reply(r)
    /\ UNCHANGED <<now, mongo, redisVars, ended>>

-----------------------------------------------------------------------------
(* The environment *)

Tick ==
    /\ now < MaxTime
    /\ now' = now + 1
    /\ UNCHANGED <<mongo, issued, redisVars, req, acks>>

\* MongoDB's TTL monitor on expires_at runs some time after the expiry.
PurgeExpired(s) ==
    /\ s \in stored /\ doc[s].expires <= now
    /\ stored' = stored \ {s}
    /\ UNCHANGED <<now, doc, issued, redisVars, req, acks>>

\* The process dies and is started again; requests and Redis client are new.
Crash ==
    /\ Crashes
    /\ req' = [r \in Reqs |-> Idle]
    /\ redis' \in Redis
    /\ UNCHANGED <<now, mongo, issued, blacklist, revokedAt, revokedUntil, acks>>

\* ResetTestAccount deletes the sessions of everybody, in every environment.
DebugReset ==
    /\ DebugCalls
    /\ stored' = {}
    /\ UNCHANGED <<now, doc, issued, redisVars, req, acks>>

Step(r) ==
    \/ CheckUserRevoked(r) \/ CheckBlacklisted(r) \/ CheckSession(r)
    \/ ServeRead(r)
    \/ LogoutDelete(r) \/ LogoutCurrentDelete(r) \/ RevokeDelete(r)
    \/ LogoutBlacklist(r) \/ LogoutCurrentBlacklist(r) \/ LogoutAllBlacklist(r)
    \/ SetUserRevoked(r) \/ DeleteAllSessions(r)
    \/ FindRefresh(r) \/ RevokeHijacked(r)
    \/ RotateDelete(r) \/ InsertSession(r) \/ SignAccess(r)

Next ==
    \/ \E r \in Reqs : Arrive(r)
    \/ \E r \in Reqs : Step(r)
    \/ Tick
    \/ \E s \in Sids : PurgeExpired(s)
    \/ Crash
    \/ DebugReset

Spec == Init /\ [][Next]_vars

\* Every MongoDB command of a handler has a 5 s context and every Redis command
\* a 2 s timeout; the session lookup of the middleware ends at the latest when
\* its client hangs up.  So a request is never stuck in a step for ever.
FairSpec == Spec /\ \A r \in Reqs : WF_vars(Step(r))

-----------------------------------------------------------------------------
(* Properties *)

\* The state has the shape the code gives it.
TypeOK ==
    /\ now \in Nat
    /\ doc \in [Sids -> [user : Users, agent : Agents, from : Sids \cup {None},
                         expires : Nat] \cup {NoDoc}]
    /\ stored \subseteq Born
    /\ issued \in [Sids -> Nat \cup {Unsigned}]
    /\ redis \in {"connected", "absent"}
    /\ blacklist \in [Sids -> Nat]
    /\ revokedAt \in [Users -> Nat]
    /\ revokedUntil \in [Users -> Nat]
    /\ req \in [Reqs -> Request]
    /\ ended \subseteq Born
    /\ retired \subseteq Born

\* Logout, RevokeSession, LogoutAll and AdminForceLogoutUser answer OK only
\* when every session they were asked to end is gone, and none of those comes
\* back, whatever fails in MongoDB or Redis and whenever the process crashes.
EndedStayDead == ended \cap stored = {}

\* The handlers that drop the error of their delete (rotation, hijack
\* revocation, LogoutCurrentSession) keep the same promise as long as MongoDB
\* executes the deletes: a rotated refresh token, a session logged out with
\* DELETE /sessions/current or caught in a hijack is dead for good.
RetiredStayDead == MongoFaults \/ retired \cap stored = {}

\* A request is let through by AuthMiddleware or by ValidateRefreshTokenStrict.
Granted(r) == req[r].at \in {"sessionExists", "find"} /\ req'[r].at \in GrantedSteps

\* No request is served on behalf of a session whose end was acknowledged
\* before: not by its access token, although every Redis check fails open, and
\* not by its refresh token (reuse rejection).
EndedNeverServed ==
    [][\A r \in Reqs : Granted(r) =>
           /\ req[r].sid \notin ended
           /\ MongoFaults \/ req[r].sid \notin retired]_vars

\* RevokeJWT computes the TTL of a blacklist entry from the clock of the logout,
\* not from the token: the entry still outlives the token it blocks.
BlacklistOutlivesToken ==
    \A s \in Sids : blacklist[s] > 0 /\ HasToken(s) => blacklist[s] >= ExpiresAt(s)

\* A record in Redis that rejects a token does so until the token expires: no
\* later write of revoked_at and no expiry of the key undoes it.  (This speaks of
\* the record; a middleware that gets no answer from Redis does not read it.)
RevokedTokenStaysRevoked ==
    [][\A s \in Sids : HasToken(s) /\ UserRevoked(s) => UserRevoked(s)' \/ ~ValidToken(s)']_vars

\* The precision of the user-wide check, iat in seconds against revoked_at in
\* milliseconds.  A token is turned away only if it was signed before the second
\* of the last revocation of its user was over, so a login after that second
\* works; and while Redis answers none is let past that was signed by the time
\* of that revocation, even when its record has expired.
RevocationDecides ==
    [][\A r \in Reqs : CheckUserRevoked(r) =>
           LET s == req[r].sid
               revoked == revokedAt[doc[s].user]
           IN  /\ req'[r] = Idle => issued[s] < revoked + Second
               /\ req'[r] # Idle /\ ~RedisSilent /\ ValidToken(s) =>
                      revoked = 0 \/ issued[s] > revoked]_vars

\* A refresh token is exchanged for new tokens at most once.
SingleUse ==
    \A m, n \in Sids :
        /\ HasToken(m) /\ HasToken(n)
        /\ doc[m].from = doc[n].from /\ doc[m].from # None
        => m = n

\* Logging out everywhere ends the login, not only the session ids that were
\* in the collection: no live session was rotated out of an ended one.
EndedLeaveNoHeir == \A s \in Live : doc[s].from \notin ended

\* A session leaves the collection only by its expiry, a rotation, a logout or
\* a hijack revocation of its own user, or a forced logout of that user.
ActsFor(r) == IF req[r].at = "revokeHijacked" \/ req[r].at = "rotate"
              THEN doc[req[r].sid].user ELSE req[r].user
OwnerEnds(s) ==
    \/ doc[s].expires <= now
    \/ \E r \in Reqs : req'[r] # req[r] /\ ActsFor(r) = doc[s].user
OnlyOwnerEndsSessions == [][\A s \in stored \ stored' : OwnerEnds(s)]_vars

\* A password reset that was answered OK leaves no session of the user behind.
ResetEndsSessions ==
    [][\A r \in Reqs : At(r, {"reset"}, "setRevoked") /\ req'[r] = Idle
           => req[r].scope \cap Live' = {}]_vars

\* Every request that has started is answered.
EveryRequestAnswered == \A r \in Reqs : req[r] # Idle ~> req[r] = Idle

\* Once LogoutAll or AdminForceLogoutUser has been admitted, the sessions the
\* user had then are ended, with or without Redis.
LogoutAllTakesEffect ==
    \A r \in Reqs, s \in Sids :
        At(r, {"logoutAll", "forceLogout"}, "setRevoked") /\ s \in req[r].scope
            ~> s \in ended

-----------------------------------------------------------------------------
(* What all of this amounts to *)

Status(s) == IF s \notin Born THEN "unborn" ELSE IF s \in Live THEN "open" ELSE "closed"
Serving(r) == IF req[r].at \in GrantedSteps THEN req[r].sid ELSE None

Register == INSTANCE SessionRegister WITH
    status <- [s \in Sids |-> Status(s)],
    serving <- [r \in Reqs |-> Serving(r)],
    acked <- ended

\* The handlers, the middleware and the two stores implement the register.
ImplementsRegister == Register!Spec

=============================================================================
