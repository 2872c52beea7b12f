--------------------------- MODULE SessionsProofs ---------------------------
(***************************************************************************)
(* Theorems about Sessions for any users, agents, requests, session ids    *)
(* and time constants, with every fault the module models.                 *)
(*                                                                         *)
(* IInv below says, for each step a request can be in, what the request    *)
(* already knows or has already done: which session it was admitted for,   *)
(* that the delete it will acknowledge has happened, that the id it is     *)
(* about to sign for is its own.  TokenInv relates tokens, blacklist       *)
(* entries and the clock, RevokeInv the user-wide revocations and the      *)
(* clock.  HeirInv is what holds in addition while only one request runs   *)
(* at a time, ExchangeInv what is left of it while several do: the         *)
(* successors of a session and the requests that still may make one are    *)
(* together no more than there are requests.                               *)
(***************************************************************************)
EXTENDS Sessions, FiniteSetTheorems, TLAPS

\* A request past the arrival carries what its next steps read.
Fits(q) ==
    /\ q.scope \subseteq Born
    /\ q.op \in BearerOps \cup {"refresh"} => q.sid \in Born
    /\ q.op \in BearerOps \cup {"reset"} => q.user \in Users
    /\ q.at = "insert" => q.user \in Users /\ q.agent \in Agents
    /\ q.at = "sign" => q.new \in Born

TokensOfBorn == \A s \in Sids : HasToken(s) => s \in Born

TypeInv == TypeOK /\ TokensOfBorn /\ \A r \in Reqs : Fits(req[r])

-----------------------------------------------------------------------------
(* Type correctness *)

LEMMA NumericDateType ==
    ASSUME NEW t \in Nat
    PROVE  NumericDate(t) \in Nat /\ NumericDate(t) <= t
  BY TTLAssumption DEF NumericDate

LEMMA TypeInvInit == Init => TypeInv
  BY TTLAssumption, RedisAssumption, SidsAssumption
  DEF Init, TypeInv, TypeOK, TokensOfBorn, Fits, Born, HasToken, Unsigned, Idle,
      Request, Steps, BearerOps, AllOps

\* One request changes, and no session document is lost.
LEMMA OneRequest ==
    ASSUME TypeInv, NEW r \in Reqs, NEW q \in Request,
           req' = [req EXCEPT ![r] = q], Born \subseteq Born', Fits(q)'
    PROVE  req' \in [Reqs -> Request] /\ \A p \in Reqs : Fits(req[p])'
  <1>1. req' \in [Reqs -> Request]
    BY DEF TypeInv, TypeOK
  <1>2. ASSUME NEW p \in Reqs PROVE Fits(req[p])'
    <2>1. CASE p = r
      BY <2>1 DEF TypeInv, TypeOK
    <2>2. CASE p # r
      <3>1. req'[p] = req[p] /\ Fits(req[p])
        BY <2>2 DEF TypeInv, TypeOK
      <3> QED BY <3>1 DEF Fits
    <2> QED BY <2>1, <2>2
  <1> QED BY <1>1, <1>2

LEMMA IdleRequest == Idle \in Request /\ Fits(Idle)
  BY DEF Idle, Request, Steps, AllOps, BearerOps, Fits

LEMMA GotoRequest ==
    ASSUME TypeInv, NEW r \in Reqs, NEW step \in Steps, Goto(r, step)
    PROVE  \E q \in Request : /\ q = [req[r] EXCEPT !.at = step]
                              /\ req' = [req EXCEPT ![r] = q]
  <1>1. [req[r] EXCEPT !.at = step] \in Request
    BY DEF TypeInv, TypeOK, Request
  <1> QED BY <1>1 DEF Goto, TypeInv, TypeOK

\* What every step but an insert, a signature and those of the environment does.
Quiet ==
    /\ UNCHANGED <<now, doc, issued, redis>>
    /\ stored' \subseteq stored
    /\ blacklist' \in [Sids -> Nat]
    /\ revokedAt' \in [Users -> Nat] /\ revokedUntil' \in [Users -> Nat]
    /\ ended' \subseteq Born /\ retired' \subseteq Born

LEMMA OnlyRequest ==
    ASSUME TypeInv, NEW r \in Reqs, NEW q \in Request,
           req' = [req EXCEPT ![r] = q], Fits(q), Quiet
    PROVE  TypeInv'
  <1>1. Born' = Born /\ Fits(q)'
    BY DEF Born, Fits, Quiet
  <1>2. req' \in [Reqs -> Request] /\ \A p \in Reqs : Fits(req[p])'
    BY <1>1, OneRequest
  <1>3. TokensOfBorn'
    BY <1>1 DEF TypeInv, TokensOfBorn, HasToken, Quiet
  <1>4. stored' \subseteq Born' /\ ended' \subseteq Born' /\ retired' \subseteq Born'
    BY <1>1 DEF TypeInv, TypeOK, Quiet
  <1> QED BY <1>1, <1>2, <1>3, <1>4 DEF TypeInv, TypeOK, Quiet

LEMMA AllUnchanged ==
    ASSUME TypeInv, UNCHANGED <<now, mongo, issued, redisVars, acks>>
    PROVE  Quiet
  BY DEF TypeInv, TypeOK, Quiet, mongo, redisVars, acks

LEMMA QuietReply ==
    ASSUME TypeInv, NEW r \in Reqs, Reply(r), Quiet
    PROVE  TypeInv'
  BY IdleRequest, OnlyRequest DEF Reply

LEMMA QuietGoto ==
    ASSUME TypeInv, NEW r \in Reqs, NEW step \in Steps \ {"insert", "sign"},
           Goto(r, step), Quiet
    PROVE  TypeInv'
  <1>1. PICK q \in Request : /\ q = [req[r] EXCEPT !.at = step]
                             /\ req' = [req EXCEPT ![r] = q]
    BY GotoRequest
  <1>2. Fits(req[r]) /\ req[r] \in Request
    BY DEF TypeInv, TypeOK
  <1>3. Fits(q)
    BY <1>1, <1>2 DEF Fits, Request
  <1> QED BY <1>1, <1>3, OnlyRequest

LEMMA TypeInvArrive ==
    ASSUME TypeInv, NEW r \in Reqs, Arrive(r)
    PROVE  TypeInv'
  <1> USE SidsAssumption DEF TypeInv, TypeOK, TokensOfBorn, Fits, Born, HasToken, Unsigned,
          Idle, Request, Steps, MiddlewareSteps, GrantedSteps, BearerOps, AllOps,
          Start, mongo, redisVars, acks
  <1>1. ASSUME NEW u \in Users, NEW a \in Agents, StartLogin(r, u, a) PROVE TypeInv'
    BY <1>1 DEF StartLogin
  <1>2. ASSUME NEW s \in Sids, NEW a \in Agents, StartRefresh(r, s, a) PROVE TypeInv'
    BY <1>2 DEF StartRefresh
  <1>3. ASSUME NEW s \in Born, NEW op \in BearerOps, NEW u \in Users,
               NEW targets \in SUBSET Born, StartBearer(r, op, s, u, targets)
        PROVE  TypeInv'
    BY <1>3 DEF StartBearer
  <1>4. ASSUME NEW u \in Users, StartReset(r, u) PROVE TypeInv'
    BY <1>4 DEF StartReset, SessionsOf
  <1>5. \A s \in Born : doc[s].user \in Users
    OBVIOUS
  <1> HIDE DEF TypeInv, TypeOK, TokensOfBorn, Fits, Start, BearerOps
  <1>6. BearerOps \ {"revoke", "forceLogout"} \subseteq BearerOps
        /\ "revoke" \in BearerOps /\ "forceLogout" \in BearerOps
    BY DEF BearerOps
  <1>7. {} \in SUBSET Born /\ \A s \in Born : {s} \in SUBSET Born
    OBVIOUS
  <1> QED BY <1>1, <1>2, <1>3, <1>4, <1>5, <1>6, <1>7 DEF Arrive

LEMMA TypeInvMiddleware ==
    ASSUME TypeInv, NEW r \in Reqs,
           CheckUserRevoked(r) \/ CheckBlacklisted(r) \/ CheckSession(r) \/ ServeRead(r)
    PROVE  TypeInv'
  <1>1. Quiet
    BY AllUnchanged DEF CheckUserRevoked, CheckBlacklisted, CheckSession, ServeRead
  <1>2. CASE Reply(r)
    BY <1>1, <1>2, QuietReply
  <1>3. ASSUME NEW step \in {"blacklisted", "sessionExists"}, Goto(r, step) PROVE TypeInv'
    BY <1>1, <1>3, QuietGoto DEF Steps, MiddlewareSteps
  <1>4. CASE /\ At(r, BearerOps, "sessionExists")
             /\ req' = [req EXCEPT ![r].at = FirstStep(req[r].op),
                                   ![r].scope = Promise(r), ![r].stamp = Stamp(r)]
    <2> DEFINE q == [req[r] EXCEPT !.at = FirstStep(req[r].op),
                                   !.scope = Promise(r), !.stamp = Stamp(r)]
    <2>1. Fits(req[r]) /\ req[r] \in Request /\ req' = [req EXCEPT ![r] = q]
      BY <1>4 DEF TypeInv, TypeOK
    <2>2. FirstStep(req[r].op) \in {"read", "deleteOne", "setRevoked"}
      BY <1>4 DEF FirstStep, At, BearerOps
    <2>3. Promise(r) \subseteq Born
      BY <1>4, <2>1 DEF Promise, At, BearerOps, SessionsOf, Fits
    <2>4. Stamp(r) \in Nat
      BY DEF Stamp, TypeInv, TypeOK
    <2>5. q \in Request
      BY <2>1, <2>2, <2>3, <2>4 DEF Request, Steps, GrantedSteps, Born
    <2>6. Fits(q)
      BY <2>1, <2>2, <2>3 DEF Fits, Request
    <2> QED BY <1>1, <2>1, <2>5, <2>6, OnlyRequest
  <1> QED BY <1>2, <1>3, <1>4
          DEF CheckUserRevoked, CheckBlacklisted, CheckSession, ServeRead

LEMMA BlacklistType ==
    ASSUME TypeInv, NEW r \in Reqs, Blacklist(r)
    PROVE  blacklist' \in [Sids -> Nat]
  BY TTLAssumption DEF Blacklist, TypeInv, TypeOK

LEMMA TypeInvHandlers ==
    ASSUME TypeInv, NEW r \in Reqs,
           \/ LogoutDelete(r) \/ LogoutCurrentDelete(r) \/ RevokeDelete(r)
           \/ LogoutBlacklist(r) \/ LogoutCurrentBlacklist(r) \/ LogoutAllBlacklist(r)
           \/ SetUserRevoked(r) \/ DeleteAllSessions(r)
    PROVE  TypeInv'
  <1> DEFINE S == {"revokeJWT", "deleteAll"}
  <1>1. S \subseteq Steps \ {"insert", "sign"}
    BY DEF Steps, GrantedSteps
  <1>2. req[r].scope \subseteq Born
    BY DEF TypeInv, Fits
  <1>3. CASE LogoutDelete(r)
    <2>1. Quiet
      BY <1>3 DEF LogoutDelete, Deletes, DeleteFails, Quiet, TypeInv, TypeOK, redisVars, acks
    <2> QED BY <1>1, <1>3, <2>1, QuietReply, QuietGoto DEF LogoutDelete
  <1>4. CASE LogoutCurrentDelete(r)
    <2>1. Quiet
      BY <1>4 DEF LogoutCurrentDelete, Deletes, DeleteFails, Quiet, TypeInv, TypeOK,
                  redisVars, acks
    <2> QED BY <1>1, <1>4, <2>1, QuietGoto DEF LogoutCurrentDelete
  <1>5. CASE RevokeDelete(r)
    <2>1. Quiet
      BY <1>2, <1>5 DEF RevokeDelete, Deletes, DeleteFails, Quiet, TypeInv, TypeOK, redisVars
    <2> QED BY <1>5, <2>1, QuietReply DEF RevokeDelete
  <1>6. CASE LogoutBlacklist(r)
    <2>1. Quiet
      BY <1>2, <1>6, BlacklistType DEF LogoutBlacklist, Quiet, TypeInv, TypeOK, mongo
    <2> QED BY <1>6, <2>1, QuietReply DEF LogoutBlacklist
  <1>7. CASE LogoutCurrentBlacklist(r)
    <2>1. Quiet
      BY <1>2, <1>7, BlacklistType DEF LogoutCurrentBlacklist, Quiet, TypeInv, TypeOK, mongo
    <2> QED BY <1>7, <2>1, QuietReply DEF LogoutCurrentBlacklist
  <1>8. CASE LogoutAllBlacklist(r)
    <2>1. Quiet
      BY <1>8, BlacklistType DEF LogoutAllBlacklist, Quiet, TypeInv, TypeOK, mongo, acks
    <2> QED BY <1>1, <1>8, <2>1, QuietGoto DEF LogoutAllBlacklist
  <1>9. CASE SetUserRevoked(r)
    <2>1. req[r] \in Request
      BY DEF TypeInv, TypeOK
    <2>2. req[r].stamp \in Nat /\ now + Keep \in Nat
      BY <2>1, TTLAssumption DEF Request, TypeInv, TypeOK
    <2>3. Quiet
      BY <1>9, <2>2 DEF SetUserRevoked, Quiet, TypeInv, TypeOK, mongo, acks
    <2>4. Goto(r, "revokeJWT") \/ Goto(r, "deleteAll") \/ Reply(r)
      BY <1>9 DEF SetUserRevoked, NextAfterRevoke, At
    <2> QED BY <1>1, <2>3, <2>4, QuietGoto, QuietReply
  <1>10. CASE DeleteAllSessions(r)
    <2>1. Quiet
      BY <1>2, <1>10 DEF DeleteAllSessions, Deletes, DeleteFails, Quiet, TypeInv, TypeOK,
                         redisVars
    <2> QED BY <1>10, <2>1, QuietReply DEF DeleteAllSessions
  <1> QED BY <1>3, <1>4, <1>5, <1>6, <1>7, <1>8, <1>9, <1>10

LEMMA TypeInvRefresh ==
    ASSUME TypeInv, NEW r \in Reqs,
           FindRefresh(r) \/ RevokeHijacked(r) \/ RotateDelete(r)
    PROVE  TypeInv'
  <1>1. Fits(req[r]) /\ req[r] \in Request
    BY DEF TypeInv, TypeOK
  <1>2. CASE FindRefresh(r)
    <2>1. Quiet
      BY <1>2, AllUnchanged DEF FindRefresh
    <2>2. CASE Reply(r)
      BY <2>1, <2>2, QuietReply
    <2>3. ASSUME NEW step \in {"rotate", "revokeHijacked"}, NEW S \in SUBSET Born,
                 req' = [req EXCEPT ![r].at = step, ![r].scope = S]
          PROVE  TypeInv'
      <3> DEFINE q == [req[r] EXCEPT !.at = step, !.scope = S]
      <3>1. req' = [req EXCEPT ![r] = q]
        BY <2>3 DEF TypeInv, TypeOK
      <3>2. step \in Steps /\ S \in SUBSET Sids
        BY DEF Steps, GrantedSteps, Born
      <3>3. q \in Request
        BY <1>1, <3>2 DEF Request
      <3>4. /\ q.at = step /\ q.scope = S
            /\ q.op = req[r].op /\ q.sid = req[r].sid /\ q.user = req[r].user
        BY <1>1 DEF Request
      <3> HIDE DEF q
      <3>5. Fits(q)
        BY <1>1, <3>4 DEF Fits
      <3> QED BY <2>1, <3>1, <3>3, <3>5, OnlyRequest
    <2>4. req[r].sid \in Born /\ SessionsOf(doc[req[r].sid].user) \subseteq Born
      BY <1>1, <1>2 DEF FindRefresh, At, Fits, SessionsOf
    <2> QED BY <1>2, <2>2, <2>3, <2>4 DEF FindRefresh
  <1>3. CASE RevokeHijacked(r)
    <2>1. Quiet
      BY <1>1, <1>3 DEF RevokeHijacked, Deletes, DeleteFails, Quiet, TypeInv, TypeOK,
                        redisVars, Fits
    <2> QED BY <1>3, <2>1, QuietReply DEF RevokeHijacked
  <1>4. CASE RotateDelete(r)
    <2>1. Quiet
      BY <1>4 DEF RotateDelete, Deletes, DeleteFails, Quiet, TypeInv, TypeOK, redisVars, acks
    <2> DEFINE s == req[r].sid
               q == [req[r] EXCEPT !.at = "insert", !.user = doc[s].user, !.agent = doc[s].agent]
    <2>2. s \in Born
      BY <1>1, <1>4 DEF RotateDelete, At, Fits
    <2>3. doc[s].user \in Users /\ doc[s].agent \in Agents
      BY <2>2 DEF Born, TypeInv, TypeOK
    <2>4. req' = [req EXCEPT ![r] = q]
      BY <1>4 DEF RotateDelete, TypeInv, TypeOK
    <2>5. q \in Request
      BY <1>1, <2>3 DEF Request, Steps, GrantedSteps
    <2>6. /\ q.at = "insert" /\ q.user \in Users /\ q.agent \in Agents
          /\ q.op = req[r].op /\ q.sid = s /\ q.scope = req[r].scope
      BY <1>1, <2>3 DEF Request
    <2> HIDE DEF q
    <2>7. Fits(q)
      BY <1>1, <2>2, <2>6 DEF Fits
    <2> QED BY <2>1, <2>4, <2>5, <2>7, OnlyRequest
  <1> QED BY <1>2, <1>3, <1>4

\* A document is inserted under a fresh id.
LEMMA InsertGrows ==
    ASSUME TypeInv, NEW n \in Sids \ Born,
           NEW d \in [user : Users, agent : Agents, from : Sids \cup {None}, expires : Nat],
           doc' = [doc EXCEPT ![n] = d]
    PROVE  /\ Born' = Born \cup {n}
           /\ doc' \in [Sids -> [user : Users, agent : Agents, from : Sids \cup {None},
                                 expires : Nat] \cup {NoDoc}]
           /\ \A s \in Born : doc'[s] = doc[s]
           /\ doc'[n] = d
  BY DocAssumption DEF TypeInv, TypeOK, Born

Doc == [user : Users, agent : Agents, from : Sids \cup {None}, expires : Nat]

\* The two outcomes of an insert: a fresh document (and the request goes on to
\* sign, or ends in an error whose effect was applied), or nothing.
LEMMA InsertOutcome ==
    ASSUME TypeInv, NEW r \in Reqs, InsertSession(r)
    PROVE  /\ UNCHANGED <<now, issued, redisVars, acks>>
           /\ \/ UNCHANGED mongo /\ Reply(r)
              \/ \E n \in Sids \ Born, d \in Doc, q \in Request :
                     /\ doc' = [doc EXCEPT ![n] = d] /\ stored' = stored \cup {n}
                     /\ d.from = req[r].sid /\ d.expires = now + RefreshTTL
                     /\ req' = [req EXCEPT ![r] = q]
                     /\ q = Idle \/ q = [req[r] EXCEPT !.at = "sign", !.new = n]
  <1>1. Fits(req[r]) /\ req[r] \in Request
    BY DEF TypeInv, TypeOK
  <1> DEFINE d == [user |-> req[r].user, agent |-> req[r].agent, from |-> req[r].sid,
                   expires |-> now + RefreshTTL]
  <1>2. PICK n \in Sids \ Born :
           \/ /\ doc' = [doc EXCEPT ![n] = d] /\ stored' = stored \cup {n}
              /\ Reply(r) \/ req' = [req EXCEPT ![r].at = "sign", ![r].new = n]
           \/ UNCHANGED mongo /\ Reply(r)
    BY DEF InsertSession
  <1>3. UNCHANGED <<now, issued, redisVars, acks>>
    BY DEF InsertSession
  <1>4. d \in Doc
    BY <1>1, TTLAssumption DEF InsertSession, At, Fits, Request, TypeInv, TypeOK, Doc
  <1> DEFINE q == [req[r] EXCEPT !.at = "sign", !.new = n]
  <1>5. q \in Request
    BY <1>1 DEF Request, Steps, GrantedSteps
  <1>6. ASSUME req' = [req EXCEPT ![r].at = "sign", ![r].new = n]
        PROVE  req' = [req EXCEPT ![r] = q]
    BY <1>6 DEF TypeInv, TypeOK
  <1>7. ASSUME Reply(r) PROVE req' = [req EXCEPT ![r] = Idle] /\ Idle \in Request
    BY <1>7, IdleRequest DEF Reply
  <1>8. d.from = req[r].sid /\ d.expires = now + RefreshTTL
    OBVIOUS
  <1> HIDE DEF d, q
  <1>9. CASE UNCHANGED mongo /\ Reply(r)
    BY <1>3, <1>9
  <1>10. CASE doc' = [doc EXCEPT ![n] = d] /\ stored' = stored \cup {n} /\ Reply(r)
    BY <1>3, <1>4, <1>7, <1>8, <1>10
  <1>11. CASE /\ doc' = [doc EXCEPT ![n] = d] /\ stored' = stored \cup {n}
              /\ req' = [req EXCEPT ![r].at = "sign", ![r].new = n]
    <2>1. q = [req[r] EXCEPT !.at = "sign", !.new = n]
      BY DEF q
    <2> QED BY <1>3, <1>4, <1>5, <1>6, <1>8, <1>11, <2>1
  <1> QED BY <1>2, <1>9, <1>10, <1>11

LEMMA TypeInvInsert ==
    ASSUME TypeInv, NEW r \in Reqs, InsertSession(r)
    PROVE  TypeInv'
  <1>1. Fits(req[r]) /\ req[r] \in Request /\ UNCHANGED <<now, issued, redisVars, acks>>
    BY InsertOutcome DEF TypeInv, TypeOK
  <1>2. ASSUME NEW n \in Sids \ Born, NEW d \in Doc, NEW q \in Request,
               doc' = [doc EXCEPT ![n] = d], stored' = stored \cup {n},
               req' = [req EXCEPT ![r] = q],
               q = Idle \/ q = [req[r] EXCEPT !.at = "sign", !.new = n]
        PROVE  TypeInv'
    <2>1. Born' = Born \cup {n} /\ doc' \in [Sids -> Doc \cup {NoDoc}]
      BY <1>2, InsertGrows DEF Doc
    <2>2. Fits(q)'
      <3>1. CASE q = Idle
        BY <3>1, IdleRequest, <2>1 DEF Fits
      <3>2. CASE q = [req[r] EXCEPT !.at = "sign", !.new = n]
        BY <1>1, <2>1, <3>2 DEF Fits, Request
      <3> QED BY <1>2, <3>1, <3>2
    <2>3. req' \in [Reqs -> Request] /\ \A p \in Reqs : Fits(req[p])'
      BY <1>2, <2>1, <2>2, OneRequest
    <2>4. TokensOfBorn'
      BY <1>1, <2>1 DEF TypeInv, TokensOfBorn, HasToken
    <2> QED BY <1>1, <1>2, <2>1, <2>3, <2>4 DEF TypeInv, TypeOK, redisVars, acks, Doc
  <1>3. CASE UNCHANGED mongo /\ Reply(r)
    BY <1>1, <1>3, AllUnchanged, QuietReply
  <1>4. CASE ~(UNCHANGED mongo /\ Reply(r))
    <2>1. PICK n \in Sids \ Born, d \in Doc, q \in Request :
              /\ doc' = [doc EXCEPT ![n] = d] /\ stored' = stored \cup {n}
              /\ d.from = req[r].sid /\ d.expires = now + RefreshTTL
              /\ req' = [req EXCEPT ![r] = q]
              /\ q = Idle \/ q = [req[r] EXCEPT !.at = "sign", !.new = n]
      BY <1>4, InsertOutcome
    <2> QED BY <1>2, <2>1
  <1> QED BY <1>3, <1>4

LEMMA TypeInvSign ==
    ASSUME TypeInv, NEW r \in Reqs, SignAccess(r)
    PROVE  TypeInv'
  <1>1. req[r].new \in Born /\ req[r].scope \subseteq Born
    BY DEF SignAccess, At, TypeInv, Fits
  <1>2. Born' = Born /\ Fits(Idle)'
    BY IdleRequest DEF SignAccess, Born, Fits, mongo
  <1>3. req' \in [Reqs -> Request] /\ \A p \in Reqs : Fits(req[p])'
    BY <1>2, IdleRequest, OneRequest DEF SignAccess, Reply
  <1>4. issued' \in [Sids -> Nat \cup {Unsigned}]
    BY <1>1 DEF SignAccess, TypeInv, TypeOK
  <1>5. TokensOfBorn'
    BY <1>1, <1>2 DEF SignAccess, TypeInv, TypeOK, TokensOfBorn, HasToken
  <1> QED BY <1>1, <1>2, <1>3, <1>4, <1>5
          DEF SignAccess, TypeInv, TypeOK, mongo, redisVars

Environ == Tick \/ (\E s \in Sids : PurgeExpired(s)) \/ Crash \/ DebugReset

LEMMA TypeInvEnviron ==
    ASSUME TypeInv, Environ
    PROVE  TypeInv'
  <1>1. Born' = Born /\ TokensOfBorn'
    BY DEF Environ, Tick, PurgeExpired, Crash, DebugReset, TypeInv, TokensOfBorn, HasToken,
           Born, mongo
  <1>2. req' \in [Reqs -> Request] /\ \A r \in Reqs : Fits(req[r])'
    <2>1. CASE Crash
      BY <1>1, <2>1, IdleRequest DEF Crash, Fits
    <2>2. CASE UNCHANGED req
      BY <1>1, <2>2 DEF TypeInv, TypeOK, Fits
    <2> QED BY <2>1, <2>2 DEF Environ, Tick, PurgeExpired, DebugReset
  <1>3. stored' \subseteq stored /\ UNCHANGED <<doc, issued, blacklist, revokedAt, revokedUntil, acks>>
    BY DEF Environ, Tick, PurgeExpired, Crash, DebugReset, mongo, redisVars
  <1>4. now' \in Nat
    BY DEF Environ, Tick, PurgeExpired, Crash, DebugReset, TypeInv, TypeOK
  <1>5. redis' = redis \/ redis' \in Redis
    BY DEF Environ, Tick, PurgeExpired, Crash, DebugReset, redisVars
  <1> QED BY <1>1, <1>2, <1>3, <1>4, <1>5, RedisAssumption DEF TypeInv, TypeOK, acks

LEMMA TypeInvNext == TypeInv /\ [Next]_vars => TypeInv'
  <1> SUFFICES ASSUME TypeInv, [Next]_vars PROVE TypeInv'
    OBVIOUS
  <1>1. CASE UNCHANGED vars
    BY <1>1 DEF vars, TypeInv, TypeOK, TokensOfBorn, HasToken, Fits, Born
  <1>2. ASSUME NEW r \in Reqs, Arrive(r) \/ Step(r) PROVE TypeInv'
    BY <1>2, TypeInvArrive, TypeInvMiddleware, TypeInvHandlers, TypeInvRefresh,
       TypeInvInsert, TypeInvSign DEF Step
  <1> QED BY <1>1, <1>2, TypeInvEnviron DEF Next, Environ

\* The state keeps the shape the code gives it (Sessions!TypeOK).
THEOREM TypeCorrect == Spec => []TypeOK
  <1>1. TypeInv => TypeOK
    BY DEF TypeInv
  <1> QED BY <1>1, TypeInvInit, TypeInvNext, PTL DEF Spec

-----------------------------------------------------------------------------
(* Ended and retired sessions stay dead *)

\* What a request knows at the step it is in about the sessions it will report.
Knows(q) ==
    /\ q.op \in {"logout", "logoutCurrent"} /\ q.at \in {"deleteOne", "revokeJWT"}
           => q.scope = {q.sid}
    /\ q.op = "logout" /\ q.at = "revokeJWT" => q.sid \notin stored
    /\ q.op = "logoutCurrent" /\ q.at = "revokeJWT" => MongoFaults \/ q.sid \notin stored
    /\ q.op = "revoke" => \A a, b \in q.scope : a = b
    /\ q.op \in {"logoutAll", "forceLogout"} /\ q.at \in {"setRevoked", "revokeJWT", "deleteAll"}
           => q.scope \subseteq SessionsOf(q.user)
    /\ q.op = "refresh" /\ q.at = "rotate" => q.scope = {q.sid}
    /\ q.op = "refresh" /\ q.at = "revokeHijacked" => q.scope \subseteq SessionsOf(doc[q.sid].user)
    /\ q.at \in {"insert", "sign"} => MongoFaults \/ q.scope \cap stored = {}

IInv ==
    /\ TypeInv
    /\ EndedStayDead
    /\ RetiredStayDead
    /\ \A r \in Reqs : Knows(req[r])

\* No step forgets a document, changes one, or stores an old one again.
Monotone ==
    /\ Born \subseteq Born'
    /\ \A s \in Born : doc'[s] = doc[s]
    /\ stored' \cap Born \subseteq stored

LEMMA OthersKnow ==
    ASSUME IInv, NEW r \in Reqs, Monotone,
           \A p \in Reqs \ {r} : req'[p] = req[p], Knows(req[r])'
    PROVE  \A p \in Reqs : Knows(req[p])'
  <1> SUFFICES ASSUME NEW p \in Reqs, p # r PROVE Knows(req[p])'
    OBVIOUS
  <1>1. req'[p] = req[p] /\ Knows(req[p]) /\ Fits(req[p]) /\ req[p] \in Request
    BY DEF IInv, TypeInv, TypeOK
  <1>2. \A u : SessionsOf(u) \subseteq SessionsOf(u)'
    BY DEF Monotone, SessionsOf, Born
  <1>3. req[p].op \in BearerOps \cup {"refresh"} => doc'[req[p].sid] = doc[req[p].sid]
    BY <1>1 DEF Fits, Monotone
  <1> QED BY <1>1, <1>2, <1>3 DEF Knows, Fits, Monotone, BearerOps

LEMMA IdleKnows == Knows(Idle)
  BY DEF Knows, Idle

LEMMA OnlyOne ==
    ASSUME TypeInv, NEW r \in Reqs
    PROVE  /\ \A q : req' = [req EXCEPT ![r] = q] =>
                  req'[r] = q /\ \A p \in Reqs \ {r} : req'[p] = req[p]
           /\ Reply(r) => req'[r] = Idle /\ \A p \in Reqs \ {r} : req'[p] = req[p]
           /\ \A step : Goto(r, step) => /\ req'[r] = [req[r] EXCEPT !.at = step]
                                         /\ \A p \in Reqs \ {r} : req'[p] = req[p]
  BY DEF TypeInv, TypeOK, Reply, Goto

\* A step of one request that changes no session.
LEMMA IInvOnlyRequest ==
    ASSUME IInv, TypeInv', NEW r \in Reqs, UNCHANGED <<mongo, acks>>,
           \A p \in Reqs \ {r} : req'[p] = req[p], Knows(req'[r])
    PROVE  IInv'
  <1>1. Monotone /\ Knows(req[r])'
    BY DEF Monotone, Born, mongo, Knows, SessionsOf
  <1>2. \A p \in Reqs : Knows(req[p])'
    BY <1>1, OthersKnow
  <1> QED BY <1>2 DEF IInv, EndedStayDead, RetiredStayDead, mongo, acks

LEMMA IInvArrive ==
    ASSUME IInv, TypeInv', NEW r \in Reqs, Arrive(r)
    PROVE  IInv'
  <1>1. UNCHANGED <<mongo, acks>>
    BY DEF Arrive, StartLogin, StartRefresh, StartBearer, StartReset
  <1> DEFINE Early(q) == \/ q.at = "find" /\ q.op = "refresh"
                         \/ /\ q.at = "userRevoked"
                            /\ q.op = "revoke" => \A a, b \in q.scope : a = b
                         \/ q.at = "insert" /\ q.op = "login" /\ q.scope = {}
                         \/ q.at = "setRevoked" /\ q.op = "reset"
  <1>2. ASSUME NEW op, NEW call, Start(r, op, call), Early(call)
        PROVE  Early(req'[r]) /\ \A p \in Reqs \ {r} : req'[p] = req[p]
    BY <1>2, OnlyOne DEF IInv, Start
  <1>5. ASSUME NEW u, NEW a, StartLogin(r, u, a)
        PROVE  \E op, call : Start(r, op, call) /\ Early(call)
    <2> DEFINE call == [Idle EXCEPT !.op = "login", !.at = "insert", !.user = u, !.agent = a]
    <2>1. Early(call)
      BY DEF Idle
    <2> QED BY <1>5, <2>1 DEF StartLogin
  <1>6. ASSUME NEW s, NEW a, StartRefresh(r, s, a)
        PROVE  \E op, call : Start(r, op, call) /\ Early(call)
    <2> DEFINE call == [Idle EXCEPT !.op = "refresh", !.at = "find", !.sid = s, !.agent = a]
    <2>1. Early(call)
      BY DEF Idle
    <2> QED BY <1>6, <2>1 DEF StartRefresh
  <1>7. ASSUME NEW o, NEW s, NEW u, NEW targets, StartBearer(r, o, s, u, targets),
               o = "revoke" => \A a, b \in targets : a = b
        PROVE  \E op, call : Start(r, op, call) /\ Early(call)
    <2> DEFINE call == [Idle EXCEPT !.op = o, !.at = "userRevoked", !.sid = s,
                                    !.user = u, !.scope = targets]
    <2>1. Early(call)
      BY <1>7 DEF Idle
    <2> QED BY <1>7, <2>1 DEF StartBearer
  <1>8. ASSUME NEW u, StartReset(r, u)
        PROVE  \E op, call : Start(r, op, call) /\ Early(call)
    <2> DEFINE call == [Idle EXCEPT !.op = "reset", !.at = "setRevoked", !.user = u,
                                    !.stamp = now, !.scope = SessionsOf(u)]
    <2>1. Early(call)
      BY DEF Idle
    <2> QED BY <1>8, <2>1 DEF StartReset
  <1>9. \A t : \A a, b \in {t} : a = b
    OBVIOUS
  <1> HIDE DEF Early
  <1>4. Early(req'[r]) /\ \A p \in Reqs \ {r} : req'[p] = req[p]
    BY <1>2, <1>5, <1>6, <1>7, <1>8, <1>9 DEF Arrive
  <1>3. Knows(req'[r])
    BY <1>4 DEF Knows, Early
  <1> QED BY <1>1, <1>3, <1>4, IInvOnlyRequest

LEMMA IInvMiddleware ==
    ASSUME IInv, TypeInv', NEW r \in Reqs,
           CheckUserRevoked(r) \/ CheckBlacklisted(r) \/ CheckSession(r) \/ ServeRead(r)
    PROVE  IInv'
  <1>1. UNCHANGED <<mongo, acks>>
    BY DEF CheckUserRevoked, CheckBlacklisted, CheckSession, ServeRead
  <1>2. CASE Reply(r)
    BY <1>1, <1>2, IdleKnows, OnlyOne, IInvOnlyRequest DEF IInv
  <1>3. ASSUME NEW step \in {"blacklisted", "sessionExists"}, Goto(r, step) PROVE IInv'
    <2>1. /\ req'[r] = [req[r] EXCEPT !.at = step] /\ req[r] \in Request /\ Knows(req[r])
          /\ \A p \in Reqs \ {r} : req'[p] = req[p]
      BY <1>3, OnlyOne DEF IInv, TypeInv, TypeOK
    <2>2. Knows(req'[r])
      BY <2>1 DEF Knows, Request
    <2> QED BY <1>1, <2>1, <2>2, IInvOnlyRequest
  <1>4. CASE /\ At(r, BearerOps, "sessionExists")
             /\ req' = [req EXCEPT ![r].at = FirstStep(req[r].op),
                                   ![r].scope = Promise(r), ![r].stamp = Stamp(r)]
    <2>1. /\ req'[r].at = FirstStep(req[r].op) /\ req'[r].scope = Promise(r)
          /\ req'[r].op = req[r].op /\ req'[r].user = req[r].user /\ req'[r].sid = req[r].sid
          /\ Knows(req[r])
          /\ \A p \in Reqs \ {r} : req'[p] = req[p]
      BY <1>4 DEF IInv, TypeInv, TypeOK, Request
    <2>2. FirstStep(req[r].op) \in {"read", "deleteOne", "setRevoked"}
      BY <1>4 DEF FirstStep, At, BearerOps
    <2>3. Knows(req'[r])
      BY <2>1, <2>2 DEF Knows, Promise
    <2> QED BY <1>1, <2>1, <2>3, IInvOnlyRequest
  <1> QED BY <1>2, <1>3, <1>4
          DEF CheckUserRevoked, CheckBlacklisted, CheckSession, ServeRead

\* Sessions are deleted, and what the request reports is among them.
LEMMA IInvDelete ==
    ASSUME IInv, TypeInv', NEW r \in Reqs, doc' = doc, stored' \subseteq stored,
           \A p \in Reqs \ {r} : req'[p] = req[p], Knows(req[r])',
           ended' \cap stored' \subseteq ended,
           MongoFaults \/ retired' \cap stored' \subseteq retired
    PROVE  IInv'
  <1>1. Monotone
    BY DEF Monotone, Born
  <1>2. \A p \in Reqs : Knows(req[p])'
    BY <1>1, OthersKnow
  <1> QED BY <1>2 DEF IInv, EndedStayDead, RetiredStayDead

LEMMA IInvHandlers ==
    ASSUME IInv, TypeInv', NEW r \in Reqs,
           \/ LogoutDelete(r) \/ LogoutCurrentDelete(r) \/ RevokeDelete(r)
           \/ LogoutBlacklist(r) \/ LogoutCurrentBlacklist(r) \/ LogoutAllBlacklist(r)
           \/ SetUserRevoked(r) \/ DeleteAllSessions(r)
    PROVE  IInv'
  <1>1. TypeInv /\ Knows(req[r]) /\ req[r] \in Request /\ EndedStayDead /\ RetiredStayDead
    BY DEF IInv, TypeInv, TypeOK
  <1>2. ASSUME Reply(r)
        PROVE  Knows(req[r])' /\ \A p \in Reqs \ {r} : req'[p] = req[p]
    BY <1>1, <1>2, OnlyOne DEF Knows, Idle
  <1>3. ASSUME NEW step, Goto(r, step)
        PROVE  /\ req'[r].at = step /\ req'[r].op = req[r].op /\ req'[r].user = req[r].user
               /\ req'[r].sid = req[r].sid /\ req'[r].scope = req[r].scope
               /\ \A p \in Reqs \ {r} : req'[p] = req[p]
    <2>1. req'[r] = [req[r] EXCEPT !.at = step] /\ \A p \in Reqs \ {r} : req'[p] = req[p]
      BY <1>1, <1>3, OnlyOne
    <2> QED BY <1>1, <2>1 DEF Request
  <1>4. CASE LogoutDelete(r)
    <2>1. doc' = doc /\ stored' \subseteq stored /\ ended' = ended /\ retired' = retired
      BY <1>4 DEF LogoutDelete, Deletes, DeleteFails, acks
    <2>2. CASE Reply(r)
      BY <1>2, <2>1, <2>2, IInvDelete
    <2>3. CASE Deletes({req[r].sid}) /\ Goto(r, "revokeJWT")
      <3>1. Knows(req[r])'
        BY <1>1, <1>3, <1>4, <2>3 DEF LogoutDelete, At, Deletes, Knows
      <3> QED BY <1>3, <2>1, <2>3, <3>1, IInvDelete
    <2> QED BY <1>4, <2>2, <2>3 DEF LogoutDelete
  <1>5. CASE LogoutCurrentDelete(r)
    <2>1. /\ doc' = doc /\ stored' \subseteq stored /\ ended' = ended /\ retired' = retired
          /\ MongoFaults \/ req[r].sid \notin stored'
          /\ Goto(r, "revokeJWT")
      BY <1>5 DEF LogoutCurrentDelete, Deletes, DeleteFails, acks
    <2>2. Knows(req[r])'
      BY <1>1, <1>3, <1>5, <2>1 DEF LogoutCurrentDelete, At, Knows
    <2> QED BY <1>3, <2>1, <2>2, IInvDelete
  <1>6. CASE RevokeDelete(r)
    <2>1. doc' = doc /\ stored' \subseteq stored /\ retired' = retired /\ Reply(r)
      BY <1>6 DEF RevokeDelete, Deletes, DeleteFails
    <2>2. ended' \cap stored' \subseteq ended
      BY <1>1, <1>6 DEF At, Knows, RevokeDelete, Deletes, DeleteFails
    <2> QED BY <1>2, <2>1, <2>2, IInvDelete
  <1>7. CASE LogoutBlacklist(r)
    <2>1. /\ doc' = doc /\ stored' = stored /\ retired' = retired /\ Reply(r)
          /\ ended' = ended \cup req[r].scope /\ req[r].scope = {req[r].sid}
          /\ req[r].sid \notin stored
      BY <1>1, <1>7 DEF LogoutBlacklist, mongo, At, Knows
    <2> QED BY <1>2, <2>1, IInvDelete
  <1>8. CASE LogoutCurrentBlacklist(r)
    <2>1. /\ doc' = doc /\ stored' = stored /\ ended' = ended /\ Reply(r)
          /\ retired' = retired \cup req[r].scope /\ req[r].scope = {req[r].sid}
          /\ MongoFaults \/ req[r].sid \notin stored
      BY <1>1, <1>8 DEF LogoutCurrentBlacklist, mongo, At, Knows
    <2> QED BY <1>2, <2>1, IInvDelete
  <1>9. CASE LogoutAllBlacklist(r)
    <2>1. doc' = doc /\ stored' = stored /\ ended' = ended /\ retired' = retired
      BY <1>9 DEF LogoutAllBlacklist, mongo, acks
    <2>2. Knows(req[r])'
      BY <1>1, <1>3, <1>9, <2>1 DEF LogoutAllBlacklist, At, Knows, SessionsOf, Born
    <2> QED BY <1>3, <1>9, <2>1, <2>2, IInvDelete DEF LogoutAllBlacklist
  <1>10. CASE SetUserRevoked(r)
    <2>1. doc' = doc /\ stored' = stored /\ ended' = ended /\ retired' = retired
      BY <1>10 DEF SetUserRevoked, mongo, acks
    <2>2. CASE Reply(r)
      BY <1>2, <2>1, <2>2, IInvDelete
    <2>3. ASSUME NEW step \in {"revokeJWT", "deleteAll"}, Goto(r, step),
                 req[r].op \in {"logoutAll", "forceLogout"}
          PROVE  IInv'
      <3>1. Knows(req[r])'
        BY <1>1, <1>3, <1>10, <2>1, <2>3 DEF SetUserRevoked, At, Knows, SessionsOf, Born
      <3> QED BY <1>3, <2>1, <2>3, <3>1, IInvDelete
    <2> QED BY <1>10, <2>2, <2>3 DEF SetUserRevoked, NextAfterRevoke, At
  <1>11. CASE DeleteAllSessions(r)
    <2>1. doc' = doc /\ stored' \subseteq stored /\ retired' = retired /\ Reply(r)
      BY <1>11 DEF DeleteAllSessions, Deletes, DeleteFails
    <2>2. req[r].scope \subseteq SessionsOf(req[r].user)
      BY <1>1, <1>11 DEF DeleteAllSessions, At, Knows
    <2>3. ended' \cap stored' \subseteq ended
      BY <1>11, <2>2 DEF DeleteAllSessions, Deletes, DeleteFails
    <2> QED BY <1>2, <2>1, <2>3, IInvDelete
  <1> QED BY <1>4, <1>5, <1>6, <1>7, <1>8, <1>9, <1>10, <1>11

LEMMA IInvRefresh ==
    ASSUME IInv, TypeInv', NEW r \in Reqs,
           FindRefresh(r) \/ RevokeHijacked(r) \/ RotateDelete(r)
    PROVE  IInv'
  <1>1. /\ TypeInv /\ Knows(req[r]) /\ req[r] \in Request /\ Fits(req[r])
        /\ EndedStayDead /\ RetiredStayDead
    BY DEF IInv, TypeInv, TypeOK
  <1>2. ASSUME Reply(r)
        PROVE  Knows(req[r])' /\ \A p \in Reqs \ {r} : req'[p] = req[p]
    BY <1>1, <1>2, OnlyOne DEF Knows, Idle
  <1>3. CASE FindRefresh(r)
    <2>1. UNCHANGED <<mongo, acks>> /\ req[r].op = "refresh"
      BY <1>3 DEF FindRefresh, At
    <2>2. CASE Reply(r)
      BY <2>1, <2>2, <1>1, IdleKnows, OnlyOne, IInvOnlyRequest
    <2>3. ASSUME NEW step, NEW S, req' = [req EXCEPT ![r].at = step, ![r].scope = S],
                 \/ step = "rotate" /\ S = {req[r].sid}
                 \/ step = "revokeHijacked" /\ S = SessionsOf(doc[req[r].sid].user)
          PROVE  IInv'
      <3>1. /\ req'[r] = [req[r] EXCEPT !.at = step, !.scope = S]
            /\ \A p \in Reqs \ {r} : req'[p] = req[p]
        BY <2>3 DEF IInv, TypeInv, TypeOK
      <3>2. /\ req'[r].at = step /\ req'[r].scope = S
            /\ req'[r].op = "refresh" /\ req'[r].sid = req[r].sid
        BY <1>1, <2>1, <3>1 DEF Request
      <3>3. Knows(req'[r])
        BY <2>3, <3>2 DEF Knows
      <3> QED BY <2>1, <3>1, <3>3, IInvOnlyRequest
    <2> QED BY <1>3, <2>2, <2>3 DEF FindRefresh
  <1>4. CASE RevokeHijacked(r)
    <2>1. doc' = doc /\ stored' \subseteq stored /\ ended' = ended /\ Reply(r)
      BY <1>4 DEF RevokeHijacked, Deletes, DeleteFails
    <2>2. MongoFaults \/ retired' \cap stored' \subseteq retired
      BY <1>1, <1>4 DEF RevokeHijacked, Deletes, DeleteFails, At, Knows
    <2> QED BY <1>2, <2>1, <2>2, IInvDelete
  <1>5. CASE RotateDelete(r)
    <2>1. doc' = doc /\ stored' \subseteq stored /\ ended' = ended /\ retired' = retired
      BY <1>5 DEF RotateDelete, Deletes, DeleteFails, acks
    <2>2. MongoFaults \/ req[r].scope \cap stored' = {}
      BY <1>1, <1>5 DEF RotateDelete, Deletes, DeleteFails, At, Knows
    <2>3. /\ req'[r] = [req[r] EXCEPT !.at = "insert", !.user = doc[req[r].sid].user,
                                      !.agent = doc[req[r].sid].agent]
          /\ \A p \in Reqs \ {r} : req'[p] = req[p]
      BY <1>1, <1>5 DEF RotateDelete, TypeInv, TypeOK
    <2>6. req[r].op = "refresh"
      BY <1>5 DEF RotateDelete, At
    <2>4. req'[r].at = "insert" /\ req'[r].op = "refresh" /\ req'[r].scope = req[r].scope
      <3>1. ASSUME NEW u, NEW a,
                   req'[r] = [req[r] EXCEPT !.at = "insert", !.user = u, !.agent = a]
            PROVE  /\ req'[r].at = "insert" /\ req'[r].op = req[r].op
                   /\ req'[r].scope = req[r].scope
        BY <1>1, <3>1 DEF Request
      <3> QED BY <2>3, <2>6, <3>1
    <2>5. Knows(req[r])'
      BY <2>2, <2>4 DEF Knows
    <2> QED BY <2>1, <2>3, <2>5, IInvDelete
  <1> QED BY <1>3, <1>4, <1>5

LEMMA IInvInsert ==
    ASSUME IInv, TypeInv', NEW r \in Reqs, InsertSession(r)
    PROVE  IInv'
  <1>1. /\ TypeInv /\ Knows(req[r]) /\ req[r] \in Request /\ Fits(req[r])
        /\ EndedStayDead /\ RetiredStayDead /\ UNCHANGED acks
    BY InsertOutcome DEF IInv, TypeInv, TypeOK
  <1>2. CASE UNCHANGED mongo /\ Reply(r)
    BY <1>1, <1>2, IdleKnows, OnlyOne, IInvOnlyRequest
  <1>3. CASE ~(UNCHANGED mongo /\ Reply(r))
    <2>1. PICK n \in Sids \ Born, d \in Doc, q \in Request :
              /\ doc' = [doc EXCEPT ![n] = d] /\ stored' = stored \cup {n}
              /\ d.from = req[r].sid /\ d.expires = now + RefreshTTL
              /\ req' = [req EXCEPT ![r] = q]
              /\ q = Idle \/ q = [req[r] EXCEPT !.at = "sign", !.new = n]
      BY <1>1, <1>3, InsertOutcome
    <2>2. Born' = Born \cup {n} /\ \A s \in Born : doc'[s] = doc[s]
      BY <1>1, <2>1, InsertGrows DEF Doc
    <2>3. Monotone
      BY <2>1, <2>2 DEF Monotone
    <2>4. req[r].at = "insert" /\ req[r].op \in {"login", "refresh"}
      BY DEF InsertSession, At
    <2>5. MongoFaults \/ req[r].scope \cap stored' = {}
      BY <1>1, <2>1, <2>4 DEF Knows, Fits
    <2>6. Knows(q)'
      <3>1. CASE q = Idle
        BY <3>1 DEF Knows, Idle
      <3>2. CASE q = [req[r] EXCEPT !.at = "sign", !.new = n]
        <4>1. q.at = "sign" /\ q.op \in {"login", "refresh"} /\ q.scope = req[r].scope
          BY <1>1, <2>4, <3>2 DEF Request
        <4> QED BY <2>5, <4>1 DEF Knows
      <3> QED BY <2>1, <3>1, <3>2
    <2>7. req'[r] = q /\ \A p \in Reqs \ {r} : req'[p] = req[p]
      BY <1>1, <2>1, OnlyOne
    <2>8. \A p \in Reqs : Knows(req[p])'
      BY <2>3, <2>6, <2>7, OthersKnow
    <2>9. ended \subseteq Born /\ retired \subseteq Born
      BY <1>1 DEF TypeInv, TypeOK
    <2> QED BY <1>1, <2>1, <2>8, <2>9 DEF IInv, EndedStayDead, RetiredStayDead, acks
  <1> QED BY <1>2, <1>3

LEMMA IInvSign ==
    ASSUME IInv, TypeInv', NEW r \in Reqs, SignAccess(r)
    PROVE  IInv'
  <1>1. TypeInv /\ Knows(req[r]) /\ RetiredStayDead
    BY DEF IInv
  <1>2. Knows(req[r])' /\ \A p \in Reqs \ {r} : req'[p] = req[p]
    BY <1>1, OnlyOne DEF SignAccess, Knows, Idle
  <1>3. MongoFaults \/ retired' \cap stored' \subseteq retired
    BY <1>1 DEF SignAccess, At, Knows, mongo
  <1> QED BY <1>2, <1>3, IInvDelete DEF SignAccess, mongo

LEMMA IInvEnviron ==
    ASSUME IInv, TypeInv', Environ
    PROVE  IInv'
  <1>1. doc' = doc /\ stored' \subseteq stored /\ ended' = ended /\ retired' = retired
    BY DEF Environ, Tick, PurgeExpired, Crash, DebugReset, mongo, acks
  <1>2. \A r \in Reqs : Knows(req[r])'
    <2>1. CASE Crash
      BY <2>1 DEF Crash, Knows, Idle
    <2>2. CASE UNCHANGED req
      BY <1>1, <2>2 DEF IInv, Knows, SessionsOf, Born
    <2> QED BY <2>1, <2>2 DEF Environ, Tick, PurgeExpired, DebugReset
  <1> QED BY <1>1, <1>2 DEF IInv, EndedStayDead, RetiredStayDead

LEMMA IInvInit == Init => IInv
  <1> SUFFICES ASSUME Init PROVE IInv
    OBVIOUS
  <1>1. TypeInv /\ EndedStayDead /\ RetiredStayDead
    BY TypeInvInit DEF Init, EndedStayDead, RetiredStayDead
  <1>2. \A r \in Reqs : Knows(req[r])
    BY IdleKnows DEF Init
  <1> QED BY <1>1, <1>2 DEF IInv

LEMMA IInvNext == IInv /\ [Next]_vars => IInv'
  <1> SUFFICES ASSUME IInv, [Next]_vars PROVE IInv'
    OBVIOUS
  <1>1. TypeInv'
    BY TypeInvNext DEF IInv
  <1>2. CASE UNCHANGED vars
    BY <1>1, <1>2 DEF vars, IInv, EndedStayDead, RetiredStayDead, Knows, SessionsOf, Born
  <1>3. ASSUME NEW r \in Reqs, Arrive(r) \/ Step(r) PROVE IInv'
    BY <1>1, <1>3, IInvArrive, IInvMiddleware, IInvHandlers, IInvRefresh,
       IInvInsert, IInvSign DEF Step
  <1> QED BY <1>1, <1>2, <1>3, IInvEnviron DEF Next, Environ

LEMMA Invariance == Spec => []IInv
  BY IInvInit, IInvNext, PTL DEF Spec

\* Logout, RevokeSession, LogoutAll and AdminForceLogoutUser never answer OK for
\* a session that is, or will ever again be, in the collection - under MongoDB
\* errors, lost replies, Redis failures, crashes and any overlap of requests.
THEOREM EndedForever == Spec => []EndedStayDead
  <1>1. IInv => EndedStayDead
    BY DEF IInv
  <1> QED BY <1>1, Invariance, PTL

\* Rotation, hijack revocation and LogoutCurrentSession keep the same promise
\* while MongoDB executes the deletes, whatever else fails.
THEOREM RetiredForever == Spec => []RetiredStayDead
  <1>1. IInv => RetiredStayDead
    BY DEF IInv
  <1> QED BY <1>1, Invariance, PTL

\* A step of one request leaves the others alone.
LEMMA OneMoves ==
    ASSUME TypeInv, NEW p \in Reqs, Arrive(p) \/ Step(p)
    PROVE  \A r \in Reqs \ {p} : req'[r] = req[r]
  <1>1. CASE Arrive(p)
    BY <1>1 DEF Arrive, StartLogin, StartRefresh, StartBearer, StartReset, Start,
                TypeInv, TypeOK
  <1>2. CASE CheckUserRevoked(p) \/ CheckBlacklisted(p) \/ CheckSession(p) \/ ServeRead(p)
    BY <1>2 DEF CheckUserRevoked, CheckBlacklisted, CheckSession, ServeRead, Reply, Goto,
                TypeInv, TypeOK
  <1>3. CASE LogoutDelete(p) \/ LogoutCurrentDelete(p) \/ RevokeDelete(p) \/ LogoutBlacklist(p)
             \/ LogoutCurrentBlacklist(p) \/ LogoutAllBlacklist(p) \/ DeleteAllSessions(p)
    BY <1>3 DEF LogoutDelete, LogoutCurrentDelete, RevokeDelete, LogoutBlacklist,
                LogoutCurrentBlacklist, LogoutAllBlacklist, DeleteAllSessions, Reply, Goto,
                TypeInv, TypeOK
  <1>4. CASE SetUserRevoked(p)
    <2>1. Goto(p, "revokeJWT") \/ Goto(p, "deleteAll") \/ Reply(p)
      BY <1>4 DEF SetUserRevoked, NextAfterRevoke, At
    <2> QED BY <2>1, OnlyOne
  <1>5. CASE FindRefresh(p) \/ RevokeHijacked(p) \/ RotateDelete(p) \/ SignAccess(p)
    BY <1>5 DEF FindRefresh, RevokeHijacked, RotateDelete, SignAccess, Reply, TypeInv, TypeOK
  <1>6. CASE InsertSession(p)
    BY <1>6 DEF InsertSession, Reply, TypeInv, TypeOK
  <1> QED BY <1>1, <1>2, <1>3, <1>4, <1>5, <1>6 DEF Step

\* AuthMiddleware and ValidateRefreshTokenStrict grant nothing to a session
\* whose end was acknowledged, although every Redis check fails open.
THEOREM NeverServedAgain == Spec => EndedNeverServed
  <1> DEFINE A == \A r \in Reqs : Granted(r) =>
                      /\ req[r].sid \notin ended
                      /\ MongoFaults \/ req[r].sid \notin retired
  <1>1. IInv /\ [Next]_vars => [A]_vars
    <2> SUFFICES ASSUME IInv, [Next]_vars, NEW r \in Reqs, Granted(r)
                 PROVE  /\ req[r].sid \notin ended
                        /\ MongoFaults \/ req[r].sid \notin retired
      OBVIOUS
    <2>1. TypeInv /\ EndedStayDead /\ RetiredStayDead
      BY DEF IInv
    <2>2. req'[r] # req[r] /\ req'[r] # Idle
      BY <2>1 DEF Granted, GrantedSteps, Idle
    <2>3. req[r].sid \in Live
      <3>1. PICK p \in Reqs : Arrive(p) \/ Step(p)
        BY <2>1, <2>2 DEF Next, Tick, PurgeExpired, Crash, DebugReset, vars, TypeInv, TypeOK
      <3>2. p = r
        BY <2>1, <2>2, <3>1, OneMoves
      <3>3. CASE FindRefresh(r)
        BY <2>1, <2>2, <3>3, OnlyOne DEF FindRefresh
      <3>4. CASE CheckSession(r)
        BY <2>1, <2>2, <3>4, OnlyOne DEF CheckSession
      <3>5. req[r].at \in {"sessionExists", "find"}
        BY DEF Granted
      <3>6. ~Arrive(r)
        <4>1. Arrive(r) => req[r] = Idle
          BY DEF Arrive, StartLogin, StartRefresh, StartBearer, StartReset, Start
        <4>2. Idle.at = "idle"
          BY DEF Idle
        <4> QED BY <3>5, <4>1, <4>2
      <3> QED BY <3>1, <3>2, <3>3, <3>4, <3>5, <3>6
              DEF Step, At, CheckUserRevoked, CheckBlacklisted, ServeRead, LogoutDelete,
                  LogoutCurrentDelete, RevokeDelete, LogoutBlacklist, LogoutCurrentBlacklist,
                  LogoutAllBlacklist, SetUserRevoked, DeleteAllSessions, RevokeHijacked,
                  RotateDelete, InsertSession, SignAccess
    <2> QED BY <2>1, <2>3 DEF Live, EndedStayDead, RetiredStayDead
  <1> QED BY <1>1, Invariance, PTL DEF Spec, EndedNeverServed

-----------------------------------------------------------------------------
(* Tokens: a blacklist entry outlives its token, a session is ended by its owner *)

\* The access token a request presents was signed, and names its user.
Bears(q) ==
    /\ q.op \in BearerOps => HasToken(q.sid)
    /\ q.op \in {"logout", "logoutCurrent"} => doc[q.sid].user = q.user

\* Tokens were signed in the past and on ids of their own, bearers present
\* tokens that were signed, and an entry was computed from a later clock.
TokenInv ==
    /\ \A s \in Sids : HasToken(s) => issued[s] <= now
    /\ \A s \in Sids : blacklist[s] > 0 => HasToken(s) /\ blacklist[s] >= issued[s] + AccessTTL
    /\ \A r \in Reqs : Bears(req[r])
    /\ \A r \in Reqs : req[r].at = "sign" => ~HasToken(req[r].new)
    /\ \A p, r \in Reqs : req[p].at = "sign" /\ req[r].at = "sign"
                              /\ req[p].new = req[r].new => p = r

\* A step that signs nothing and takes no id for signing.
Calm(r) ==
    /\ UNCHANGED <<doc, issued, now>>
    /\ \A p \in Reqs \ {r} : req'[p] = req[p]
    /\ req'[r].at # "sign"
    /\ Bears(req'[r])
    /\ \/ blacklist' = blacklist
       \/ req[r].op \in BearerOps /\ blacklist' = [blacklist EXCEPT ![req[r].sid] = now + AccessTTL]

LEMMA TokenInvCalm ==
    ASSUME TypeInv, TokenInv, NEW r \in Reqs, Calm(r)
    PROVE  TokenInv'
  <1>1. \A s \in Sids : blacklist'[s] > 0 => HasToken(s) /\ blacklist'[s] >= issued[s] + AccessTTL
    <2>1. CASE blacklist' = blacklist
      BY <2>1 DEF TokenInv
    <2>2. CASE /\ req[r].op \in BearerOps
               /\ blacklist' = [blacklist EXCEPT ![req[r].sid] = now + AccessTTL]
      <3>1. /\ HasToken(req[r].sid) /\ req[r].sid \in Sids
            /\ issued[req[r].sid] \in Nat /\ issued[req[r].sid] <= now
        BY <2>2 DEF TokenInv, Bears, TypeInv, TypeOK, Fits, Born, HasToken
      <3> QED BY <2>2, <3>1, TTLAssumption DEF TokenInv, TypeInv, TypeOK
    <2> QED BY <2>1, <2>2 DEF Calm
  <1>2. \A p \in Reqs : req'[p].at = "sign" => p # r /\ req'[p] = req[p]
    BY DEF Calm
  <1>3. \A p \in Reqs : Bears(req[p])'
    <2>1. \A p \in Reqs : Bears(req'[p])
      BY DEF Calm, TokenInv
    <2> QED BY <2>1 DEF Bears, Calm, HasToken
  <1>4. \A s : HasToken(s)' <=> HasToken(s)
    BY DEF Calm, HasToken
  <1> QED BY <1>1, <1>2, <1>3, <1>4 DEF TokenInv, Calm

\* Leaving for Idle or going on to another step, as most steps do.
LEMMA CalmMove ==
    ASSUME TypeInv, TokenInv, NEW r \in Reqs, NEW step, step # "sign",
           Reply(r) \/ Goto(r, step)
    PROVE  /\ \A p \in Reqs \ {r} : req'[p] = req[p]
           /\ req'[r].at # "sign"
           /\ Bears(req'[r])
  <1>1. CASE Reply(r)
    BY <1>1, OnlyOne DEF Idle, BearerOps, Bears
  <1>2. CASE Goto(r, step)
    <2>1. req'[r] = [req[r] EXCEPT !.at = step] /\ req[r] \in Request
          /\ \A p \in Reqs \ {r} : req'[p] = req[p]
      BY <1>2, OnlyOne DEF TypeInv, TypeOK
    <2>2. Bears(req[r])
      BY DEF TokenInv
    <2> QED BY <2>1, <2>2 DEF Request, Bears
  <1> QED BY <1>1, <1>2

LEMMA CalmArrive ==
    ASSUME TypeInv, NEW r \in Reqs, Arrive(r)
    PROVE  Calm(r)
  <1>1. UNCHANGED <<doc, now, issued, blacklist>>
    BY DEF Arrive, StartLogin, StartRefresh, StartBearer, StartReset, mongo, redisVars
  <1> DEFINE Signed == \E op, call : Start(r, op, call) /\ call.at # "sign" /\ Bears(call)
  <1>2. Signed
    <2>1. ASSUME NEW u, NEW a, StartLogin(r, u, a) PROVE Signed
      <3> DEFINE call == [Idle EXCEPT !.op = "login", !.at = "insert", !.user = u, !.agent = a]
      <3>1. call.at # "sign" /\ Bears(call)
        BY DEF Idle, BearerOps, Bears
      <3> QED BY <2>1, <3>1 DEF StartLogin
    <2>2. ASSUME NEW s, NEW a, StartRefresh(r, s, a) PROVE Signed
      <3> DEFINE call == [Idle EXCEPT !.op = "refresh", !.at = "find", !.sid = s, !.agent = a]
      <3>1. call.at # "sign" /\ Bears(call)
        BY DEF Idle, BearerOps, Bears
      <3> QED BY <2>2, <3>1 DEF StartRefresh
    <2>3. ASSUME NEW o, NEW s, NEW u, NEW targets, StartBearer(r, o, s, u, targets),
                 o \in {"logout", "logoutCurrent"} => u = doc[s].user
          PROVE  Signed
      <3> DEFINE call == [Idle EXCEPT !.op = o, !.at = "userRevoked", !.sid = s,
                                      !.user = u, !.scope = targets]
      <3>1. call.at # "sign" /\ call.op = o /\ call.sid = s /\ call.user = u
        BY DEF Idle
      <3>2. HasToken(s) /\ Start(r, o, call)
        BY <2>3 DEF StartBearer, ValidToken
      <3> HIDE DEF call
      <3> QED BY <2>3, <3>1, <3>2 DEF Bears
    <2>4. ASSUME NEW u, StartReset(r, u) PROVE Signed
      <3> DEFINE call == [Idle EXCEPT !.op = "reset", !.at = "setRevoked", !.user = u,
                                      !.stamp = now, !.scope = SessionsOf(u)]
      <3>1. call.at # "sign" /\ Bears(call)
        BY DEF Idle, BearerOps, Bears
      <3> QED BY <2>4, <3>1 DEF StartReset
    <2> QED BY <2>1, <2>2, <2>3, <2>4 DEF Arrive
  <1> QED BY <1>1, <1>2, OnlyOne DEF Start, Calm

LEMMA CalmStep ==
    ASSUME TypeInv, TokenInv, NEW r \in Reqs, Step(r), ~InsertSession(r), ~SignAccess(r)
    PROVE  Calm(r)
  <1>1. CASE \/ CheckUserRevoked(r) \/ CheckBlacklisted(r) \/ ServeRead(r)
             \/ LogoutDelete(r) \/ LogoutCurrentDelete(r) \/ RevokeDelete(r)
             \/ DeleteAllSessions(r) \/ RevokeHijacked(r)
    <2>1. UNCHANGED <<doc, now, issued, blacklist>>
      BY <1>1 DEF CheckUserRevoked, CheckBlacklisted, ServeRead, LogoutDelete,
                  LogoutCurrentDelete, RevokeDelete, DeleteAllSessions, RevokeHijacked, mongo, redisVars
    <2>2. \E step \in {"blacklisted", "sessionExists", "revokeJWT"} : Reply(r) \/ Goto(r, step)
      BY <1>1 DEF CheckUserRevoked, CheckBlacklisted, ServeRead, LogoutDelete,
                  LogoutCurrentDelete, RevokeDelete, DeleteAllSessions, RevokeHijacked
    <2> QED BY <2>1, <2>2, CalmMove DEF Calm
  <1>2. CASE LogoutBlacklist(r) \/ LogoutCurrentBlacklist(r) \/ LogoutAllBlacklist(r)
    <2>1. /\ UNCHANGED <<doc, now, issued>> /\ Blacklist(r) /\ req[r].op \in BearerOps
          /\ Reply(r) \/ Goto(r, "deleteAll")
      BY <1>2 DEF LogoutBlacklist, LogoutCurrentBlacklist, LogoutAllBlacklist, At, BearerOps, mongo
    <2> QED BY <2>1, CalmMove DEF Calm, Blacklist
  <1>3. CASE SetUserRevoked(r)
    <2>1. UNCHANGED <<doc, now, issued, blacklist>>
      BY <1>3 DEF SetUserRevoked, mongo
    <2>2. \E step \in {"revokeJWT", "deleteAll"} : Reply(r) \/ Goto(r, step)
      BY <1>3 DEF SetUserRevoked, NextAfterRevoke, At
    <2> QED BY <2>1, <2>2, CalmMove DEF Calm
  <1>4. ASSUME NEW q, req' = [req EXCEPT ![r] = q], UNCHANGED <<doc, now, issued, blacklist>>,
               q.at # "sign", q.op = req[r].op, q.sid = req[r].sid,
               q.user = req[r].user \/ q.op = "refresh"
        PROVE  Calm(r)
    <2>1. req'[r] = q /\ \A p \in Reqs \ {r} : req'[p] = req[p]
      BY <1>4, OnlyOne
    <2>2. Bears(req[r])
      BY DEF TokenInv
    <2> QED BY <1>4, <2>1, <2>2 DEF Calm, Bears
  <1>5. req[r] \in Request
    BY DEF TypeInv, TypeOK
  <1>6. CASE CheckSession(r)
    <2>1. UNCHANGED <<doc, now, issued, blacklist>> /\ req[r].op \in BearerOps
      BY <1>6 DEF CheckSession, mongo, redisVars, At
    <2>2. CASE Reply(r)
      BY <2>1, <2>2, CalmMove DEF Calm
    <2>3. CASE ~Reply(r)
      <3> DEFINE q == [req[r] EXCEPT !.at = FirstStep(req[r].op),
                                     !.scope = Promise(r), !.stamp = Stamp(r)]
      <3>1. FirstStep(req[r].op) # "sign"
        BY <2>1 DEF FirstStep, BearerOps
      <3>2. q.at # "sign" /\ q.op = req[r].op /\ q.sid = req[r].sid /\ q.user = req[r].user
        BY <1>5, <3>1 DEF Request
      <3>3. req' = [req EXCEPT ![r] = q]
        BY <1>6, <2>3 DEF CheckSession, TypeInv, TypeOK
      <3> HIDE DEF q
      <3> QED BY <1>4, <2>1, <3>2, <3>3
    <2> QED BY <2>2, <2>3
  <1>7. CASE FindRefresh(r)
    <2>1. UNCHANGED <<doc, now, issued, blacklist>>
      BY <1>7 DEF FindRefresh, mongo, redisVars
    <2>2. CASE Reply(r)
      BY <2>1, <2>2, CalmMove DEF Calm
    <2>3. ASSUME NEW step \in {"rotate", "revokeHijacked"}, NEW S,
                 req' = [req EXCEPT ![r].at = step, ![r].scope = S]
          PROVE  Calm(r)
      <3> DEFINE q == [req[r] EXCEPT !.at = step, !.scope = S]
      <3>1. q.at # "sign" /\ q.op = req[r].op /\ q.sid = req[r].sid /\ q.user = req[r].user
        BY <1>5 DEF Request
      <3>2. req' = [req EXCEPT ![r] = q]
        BY <2>3 DEF TypeInv, TypeOK
      <3> HIDE DEF q
      <3> QED BY <1>4, <2>1, <3>1, <3>2
    <2> QED BY <1>7, <2>2, <2>3 DEF FindRefresh
  <1>8. CASE RotateDelete(r)
    <2> DEFINE u == doc[req[r].sid].user
               a == doc[req[r].sid].agent
               q == [req[r] EXCEPT !.at = "insert", !.user = u, !.agent = a]
    <2>1. UNCHANGED <<doc, now, issued, blacklist>>
      BY <1>8 DEF RotateDelete, mongo, redisVars
    <2>2. q.at # "sign" /\ q.op = req[r].op /\ q.op = "refresh" /\ q.sid = req[r].sid
      <3>1. req[r].op = "refresh"
        BY <1>8 DEF RotateDelete, At
      <3> HIDE DEF u, a
      <3> QED BY <1>5, <3>1 DEF Request
    <2>3. req' = [req EXCEPT ![r] = q]
      BY <1>8 DEF RotateDelete, TypeInv, TypeOK
    <2> HIDE DEF q
    <2> QED BY <1>4, <2>1, <2>2, <2>3
  <1> QED BY <1>1, <1>2, <1>3, <1>6, <1>7, <1>8 DEF Step

\* The id for signing is fresh: no token has it, no other request waits to sign it.
LEMMA TokenInvInsert ==
    ASSUME TypeInv, TokenInv, NEW r \in Reqs, InsertSession(r)
    PROVE  TokenInv'
  <1>1. UNCHANGED <<now, issued, blacklist>> /\ req[r] \in Request
        /\ req[r].op \in {"login", "refresh"}
    BY InsertOutcome DEF redisVars, TypeInv, TypeOK, InsertSession, At
  <1>2. CASE UNCHANGED mongo /\ Reply(r)
    BY <1>1, <1>2, CalmMove, TokenInvCalm DEF Calm, mongo
  <1>3. CASE ~(UNCHANGED mongo /\ Reply(r))
    <2>1. PICK n \in Sids \ Born, d \in Doc, q \in Request :
              /\ doc' = [doc EXCEPT ![n] = d] /\ stored' = stored \cup {n}
              /\ d.from = req[r].sid /\ d.expires = now + RefreshTTL
              /\ req' = [req EXCEPT ![r] = q]
              /\ q = Idle \/ q = [req[r] EXCEPT !.at = "sign", !.new = n]
      BY <1>1, <1>3, InsertOutcome
    <2>2. \A s \in Born : doc'[s] = doc[s]
      BY <2>1, InsertGrows DEF Doc
    <2>3. /\ q.at = "sign" => q.new = n
          /\ q.op \in {"none", "login", "refresh"}
      <3>1. CASE q = Idle
        BY <3>1 DEF Idle
      <3>2. CASE q = [req[r] EXCEPT !.at = "sign", !.new = n]
        <4>1. q.new = n /\ q.op = req[r].op
          BY <1>1, <3>2 DEF Request
        <4> QED BY <1>1, <4>1
      <3> QED BY <2>1, <3>1, <3>2
    <2>4. req'[r] = q /\ \A p \in Reqs \ {r} : req'[p] = req[p]
      BY <2>1, OnlyOne
    <2>5. ~HasToken(n) /\ \A p \in Reqs : req[p].at = "sign" => req[p].new # n
      BY DEF TypeInv, TokensOfBorn, Fits
    <2>6. Bears(q)'
      BY <2>3 DEF Bears, BearerOps
    <2>7. \A s : HasToken(s)' <=> HasToken(s)
      BY <1>1 DEF HasToken
    <2>8. ASSUME NEW p \in Reqs, p # r PROVE Bears(req[p])'
      <3>1. req'[p] = req[p] /\ Bears(req[p]) /\ Fits(req[p])
        BY <2>4, <2>8 DEF TokenInv, TypeInv
      <3>2. req[p].op \in {"logout", "logoutCurrent"} => doc'[req[p].sid] = doc[req[p].sid]
        BY <2>2, <3>1 DEF Fits, BearerOps
      <3> QED BY <2>7, <3>1, <3>2 DEF Bears
    <2>11. \A p \in Reqs : Bears(req[p])'
      BY <2>4, <2>6, <2>8 DEF Bears
    <2>9. \A p \in Reqs : req'[p].at = "sign" => ~HasToken(req[p].new)'
      BY <2>3, <2>4, <2>5, <2>7 DEF TokenInv
    <2>10. \A p, o \in Reqs : req'[p].at = "sign" /\ req'[o].at = "sign"
                                 /\ req'[p].new = req'[o].new => p = o
      BY <2>3, <2>4, <2>5 DEF TokenInv
    <2> QED BY <1>1, <2>7, <2>9, <2>10, <2>11 DEF TokenInv
  <1> QED BY <1>2, <1>3

LEMMA TokenInvSign ==
    ASSUME TypeInv, TokenInv, NEW r \in Reqs, SignAccess(r)
    PROVE  TokenInv'
  <1> DEFINE n == req[r].new
  <1>1. /\ n \in Sids /\ ~HasToken(n) /\ req[r].at = "sign"
        /\ issued' = [issued EXCEPT ![n] = now] /\ UNCHANGED <<now, blacklist, doc>> /\ Reply(r)
    BY DEF SignAccess, At, TypeInv, Fits, Born, TokenInv, mongo, redisVars
  <1>2. req'[r] = Idle /\ \A p \in Reqs \ {r} : req'[p] = req[p]
    BY <1>1, OnlyOne
  <1>3. Idle.op \notin BearerOps /\ Idle.at # "sign"
    BY DEF Idle, BearerOps
  <1>4. issued'[n] = now /\ now \in Nat /\ \A s \in Sids \ {n} : issued'[s] = issued[s]
    BY <1>1 DEF TypeInv, TypeOK
  <1>5. \A s \in Sids : HasToken(s) => HasToken(s)'
    BY <1>1, <1>4 DEF HasToken
  <1>6. \A p \in Reqs : req'[p].at = "sign" => p # r /\ req'[p] = req[p] /\ req[p].new # n
    BY <1>1, <1>2, <1>3 DEF TokenInv
  <1>7. \A s \in Sids : HasToken(s)' => issued'[s] <= now'
    BY <1>1, <1>4 DEF TokenInv, HasToken
  <1>8. \A s \in Sids : blacklist'[s] > 0 =>
            HasToken(s)' /\ blacklist'[s] >= issued'[s] + AccessTTL
    BY <1>1, <1>4, <1>5 DEF TokenInv
  <1>9. \A p \in Reqs : Bears(req[p])'
    <2> SUFFICES ASSUME NEW p \in Reqs PROVE Bears(req[p])'
      OBVIOUS
    <2>1. CASE p = r
      BY <1>2, <2>1 DEF Bears, Idle, BearerOps
    <2>2. CASE p # r
      <3>1. req'[p] = req[p] /\ Bears(req[p]) /\ (req[p].op \in BearerOps => req[p].sid \in Sids)
        BY <1>2, <2>2 DEF TokenInv, TypeInv, Fits, Born
      <3> QED BY <1>1, <1>5, <3>1 DEF Bears, HasToken
    <2> QED BY <2>1, <2>2
  <1>10. \A p \in Reqs : req'[p].at = "sign" => ~HasToken(req[p].new)'
    <2> SUFFICES ASSUME NEW p \in Reqs, req'[p].at = "sign"
                 PROVE  ~HasToken(req[p].new)'
      OBVIOUS
    <2>1. req'[p] = req[p] /\ req[p].new # n /\ ~HasToken(req[p].new) /\ req[p].new \in Sids
      BY <1>6 DEF TokenInv, TypeInv, Fits, Born
    <2> QED BY <1>4, <2>1 DEF HasToken
  <1>11. \A p, o \in Reqs : req'[p].at = "sign" /\ req'[o].at = "sign"
                               /\ req'[p].new = req'[o].new => p = o
    BY <1>6 DEF TokenInv
  <1> QED BY <1>7, <1>8, <1>9, <1>10, <1>11 DEF TokenInv

LEMMA TokenInvEnviron ==
    ASSUME TypeInv, TokenInv, Environ
    PROVE  TokenInv'
  <1>1. UNCHANGED <<doc, issued, blacklist>> /\ now <= now'
    BY DEF Environ, Tick, PurgeExpired, Crash, DebugReset, mongo, redisVars, TypeInv, TypeOK
  <1>2. now \in Nat /\ now' \in Nat /\ issued \in [Sids -> Nat \cup {Unsigned}]
    BY DEF Environ, Tick, PurgeExpired, Crash, DebugReset, TypeInv, TypeOK
  <1>3. UNCHANGED req \/ req' = [r \in Reqs |-> Idle]
    BY DEF Environ, Tick, PurgeExpired, Crash, DebugReset
  <1>4. Idle.op \notin BearerOps /\ Idle.at # "sign"
    BY DEF Idle, BearerOps
  <1>5. \A s \in Sids : HasToken(s)' => issued'[s] <= now'
    BY <1>1, <1>2 DEF TokenInv, HasToken
  <1>6. \A r \in Reqs : Bears(req[r])'
    <2>1. CASE UNCHANGED req
      BY <1>1, <2>1 DEF TokenInv, Bears, HasToken
    <2>2. CASE req' = [r \in Reqs |-> Idle]
      BY <2>2 DEF Bears, Idle, BearerOps
    <2> QED BY <1>3, <2>1, <2>2
  <1> QED BY <1>1, <1>3, <1>4, <1>5, <1>6 DEF TokenInv, HasToken

LEMMA TokenInvariance == Spec => [](TypeInv /\ TokenInv)
  <1>1. Init => TokenInv
    BY DEF Init, TokenInv, Bears, HasToken, Unsigned, Idle, BearerOps
  <1>2. TypeInv /\ TokenInv /\ [Next]_vars => TokenInv'
    <2> SUFFICES ASSUME TypeInv, TokenInv, [Next]_vars PROVE TokenInv'
      OBVIOUS
    <2>1. CASE UNCHANGED vars
      BY <2>1 DEF vars, TokenInv, Bears, HasToken
    <2>2. ASSUME NEW r \in Reqs, Arrive(r) \/ Step(r) PROVE TokenInv'
      BY <2>2, CalmArrive, CalmStep, TokenInvCalm, TokenInvInsert, TokenInvSign
    <2> QED BY <2>1, <2>2, TokenInvEnviron DEF Next, Environ
  <1> QED BY <1>1, <1>2, TypeInvInit, TypeInvNext, PTL DEF Spec

\* RevokeJWT takes its TTL from the clock of the logout and not from the token,
\* and any number of logouts may overlap: an entry never expires before the token.
THEOREM BlacklistOutlives == Spec => []BlacklistOutlivesToken
  <1>1. TypeInv /\ TokenInv => BlacklistOutlivesToken
    <2> SUFFICES ASSUME TypeInv, TokenInv, NEW s \in Sids, blacklist[s] > 0, HasToken(s)
                 PROVE  blacklist[s] >= ExpiresAt(s)
      BY DEF BlacklistOutlivesToken
    <2>1. issued[s] + AccessTTL \in Nat /\ blacklist[s] \in Nat
      BY TTLAssumption DEF TypeInv, TypeOK, HasToken
    <2>2. ExpiresAt(s) \in Nat /\ ExpiresAt(s) <= issued[s] + AccessTTL
      BY <2>1, NumericDateType DEF ExpiresAt
    <2> QED BY <2>1, <2>2 DEF TokenInv
  <1> QED BY <1>1, TokenInvariance, PTL

\* A step that ends a session is its expiry, or a step of a request that acts
\* for the user of this session.
LEMMA OwnerStep ==
    ASSUME TypeInv, TokenInv, ~DebugCalls, Next, NEW s \in stored \ stored'
    PROVE  OwnerEnds(s)
  <1>1. CASE \E t \in Sids : PurgeExpired(t)
    BY <1>1 DEF PurgeExpired, OwnerEnds
  <1>2. stored' # stored /\ ~Tick /\ ~Crash /\ ~DebugReset /\ \A r \in Reqs : ~Arrive(r)
    BY DEF Tick, Crash, DebugReset, Arrive, StartLogin, StartRefresh, StartBearer,
           StartReset, mongo
  <1>3. ASSUME NEW r \in Reqs, Step(r) PROVE OwnerEnds(s)
    <2>1. /\ req[r] \in Request /\ Fits(req[r])
          /\ req[r].op \in {"logout", "logoutCurrent"} => doc[req[r].sid].user = req[r].user
      BY DEF TypeInv, TypeOK, TokenInv, Bears
    <2>2. SUFFICES req'[r] # req[r] /\ ActsFor(r) = doc[s].user
      BY DEF OwnerEnds
    <2>3. Idle.at = "idle"
      BY DEF Idle
    <2>4. CASE LogoutDelete(r) \/ LogoutCurrentDelete(r)
      <3>1. /\ s = req[r].sid /\ req[r].at = "deleteOne"
            /\ req[r].op \in {"logout", "logoutCurrent"}
            /\ Reply(r) \/ Goto(r, "revokeJWT")
        BY <2>4 DEF LogoutDelete, LogoutCurrentDelete, At, Deletes, DeleteFails
      <3>2. req'[r].at # "deleteOne"
        <4>1. CASE Reply(r)
          BY <2>3, <4>1, OnlyOne
        <4>2. CASE Goto(r, "revokeJWT")
          <5>1. req'[r] = [req[r] EXCEPT !.at = "revokeJWT"]
            BY <4>2, OnlyOne
          <5> QED BY <2>1, <5>1 DEF Request
        <4> QED BY <3>1, <4>1, <4>2
      <3> QED BY <2>1, <3>1, <3>2 DEF ActsFor
    <2>5. CASE RevokeDelete(r) \/ DeleteAllSessions(r)
      <3>1. /\ doc[s].user = req[r].user /\ req[r].at \in {"deleteOne", "deleteAll"}
            /\ Reply(r)
        BY <2>5 DEF RevokeDelete, DeleteAllSessions, At, Deletes, DeleteFails, SessionsOf
      <3> QED BY <2>3, <3>1, OnlyOne DEF ActsFor
    <2>6. CASE RevokeHijacked(r)
      <3>1. /\ doc[s].user = doc[req[r].sid].user /\ req[r].at = "revokeHijacked" /\ Reply(r)
        BY <2>6 DEF RevokeHijacked, At, Deletes, DeleteFails, SessionsOf
      <3> QED BY <2>3, <3>1, OnlyOne DEF ActsFor
    <2>7. CASE RotateDelete(r)
      <3>1. s = req[r].sid /\ req[r].at = "rotate"
        BY <2>7 DEF RotateDelete, At, Deletes, DeleteFails
      <3> DEFINE u == doc[req[r].sid].user
                 a == doc[req[r].sid].agent
                 q == [req[r] EXCEPT !.at = "insert", !.user = u, !.agent = a]
      <3>2. req'[r] = q
        BY <2>7 DEF RotateDelete, TypeInv, TypeOK
      <3>3. q.at = "insert"
        <4> HIDE DEF u, a
        <4> QED BY <2>1 DEF Request
      <3> HIDE DEF q
      <3> QED BY <3>1, <3>2, <3>3 DEF ActsFor
    <2>8. CASE InsertSession(r)
      BY <2>8, InsertOutcome DEF mongo
    <2>9. ASSUME stored' = stored PROVE FALSE
      BY <2>9
    <2> QED BY <1>3, <2>4, <2>5, <2>6, <2>7, <2>8, <2>9
            DEF Step, CheckUserRevoked, CheckBlacklisted, CheckSession, ServeRead,
                LogoutBlacklist, LogoutCurrentBlacklist, LogoutAllBlacklist,
                SetUserRevoked, FindRefresh, SignAccess, mongo
  <1> QED BY <1>1, <1>2, <1>3 DEF Next

\* Without the debug route a session leaves the collection only by its expiry
\* or on behalf of its own user, with every fault and any overlap of requests.
THEOREM OwnersEnd ==
    ASSUME ~DebugCalls
    PROVE  Spec => OnlyOwnerEndsSessions
  <1>1. TypeInv /\ TokenInv /\ [Next]_vars => [\A s \in stored \ stored' : OwnerEnds(s)]_vars
    BY OwnerStep
  <1> QED BY <1>1, TokenInvariance, PTL DEF Spec, OnlyOwnerEndsSessions

-----------------------------------------------------------------------------
(* User-wide revocation: the record outlives the tokens it rejects *)

Revokers == {"logoutAll", "forceLogout", "reset"}
AtRevoke(q) == q.op \in Revokers /\ q.at = "setRevoked"

\* No stamp is from the future, and a record was written at its stamp or later.
RevokeInv ==
    /\ \A u \in Users : revokedAt[u] <= now
    /\ \A u \in Users : revokedUntil[u] > 0 \/ revokedAt[u] > 0
                           => revokedUntil[u] >= revokedAt[u] + Keep
    /\ \A r \in Reqs : AtRevoke(req[r]) => req[r].stamp <= now

LEMMA NumericDateBounds ==
    ASSUME NEW t \in Nat
    PROVE  NumericDate(t) \in Nat /\ NumericDate(t) <= t /\ t < NumericDate(t) + Second
  BY TTLAssumption DEF NumericDate

\* A request comes to this step with the time of this moment.
Stamped(r) == AtRevoke(req[r])' => req'[r].stamp = now

LEMMA GotoNotRevoke ==
    ASSUME TypeInv, NEW r \in Reqs, NEW step, step # "setRevoked",
           Reply(r) \/ Goto(r, step)
    PROVE  ~AtRevoke(req[r])'
  <1>1. CASE Reply(r)
    BY <1>1, OnlyOne DEF AtRevoke, Idle
  <1>2. CASE Goto(r, step)
    <2>1. req[r] \in Request /\ req'[r] = [req[r] EXCEPT !.at = step]
      BY <1>2, OnlyOne DEF TypeInv, TypeOK
    <2> QED BY <2>1 DEF AtRevoke, Request
  <1> QED BY <1>1, <1>2

LEMMA ArriveStamped ==
    ASSUME TypeInv, NEW r \in Reqs, Arrive(r)
    PROVE  Stamped(r)
  <1> DEFINE Early(q) == q.at = "setRevoked" => q.stamp = now
             Starts == \E op, call : Start(r, op, call) /\ Early(call)
  <1>1. ASSUME NEW u, NEW a, StartLogin(r, u, a) PROVE Starts
    <2> DEFINE call == [Idle EXCEPT !.op = "login", !.at = "insert", !.user = u, !.agent = a]
    <2>1. Early(call)
      BY DEF Idle
    <2> QED BY <1>1, <2>1 DEF StartLogin
  <1>2. ASSUME NEW s, NEW a, StartRefresh(r, s, a) PROVE Starts
    <2> DEFINE call == [Idle EXCEPT !.op = "refresh", !.at = "find", !.sid = s, !.agent = a]
    <2>1. Early(call)
      BY DEF Idle
    <2> QED BY <1>2, <2>1 DEF StartRefresh
  <1>3. ASSUME NEW o, NEW s, NEW u, NEW targets, StartBearer(r, o, s, u, targets)
        PROVE  Starts
    <2> DEFINE call == [Idle EXCEPT !.op = o, !.at = "userRevoked", !.sid = s,
                                    !.user = u, !.scope = targets]
    <2>1. Early(call)
      BY DEF Idle
    <2> QED BY <1>3, <2>1 DEF StartBearer
  <1>4. ASSUME NEW u, StartReset(r, u) PROVE Starts
    <2> DEFINE call == [Idle EXCEPT !.op = "reset", !.at = "setRevoked", !.user = u,
                                    !.stamp = now, !.scope = SessionsOf(u)]
    <2>1. Early(call)
      BY DEF Idle
    <2> QED BY <1>4, <2>1 DEF StartReset
  <1> HIDE DEF Early
  <1>5. Starts
    BY <1>1, <1>2, <1>3, <1>4 DEF Arrive
  <1>6. Early(req'[r])
    BY <1>5, OnlyOne DEF Start
  <1> QED BY <1>6 DEF Stamped, AtRevoke, Early

LEMMA StepStamped ==
    ASSUME TypeInv, NEW r \in Reqs, Step(r)
    PROVE  Stamped(r)
  <1>1. req[r] \in Request
    BY DEF TypeInv, TypeOK
  <1>2. ASSUME NEW step \in {"blacklisted", "sessionExists", "revokeJWT", "deleteAll"},
               Reply(r) \/ Goto(r, step)
        PROVE  Stamped(r)
    BY <1>2, GotoNotRevoke DEF Stamped
  <1>3. CASE \/ CheckUserRevoked(r) \/ CheckBlacklisted(r) \/ ServeRead(r)
             \/ LogoutDelete(r) \/ LogoutCurrentDelete(r) \/ RevokeDelete(r)
             \/ LogoutBlacklist(r) \/ LogoutCurrentBlacklist(r) \/ LogoutAllBlacklist(r)
             \/ DeleteAllSessions(r) \/ RevokeHijacked(r) \/ SignAccess(r)
    BY <1>2, <1>3 DEF CheckUserRevoked, CheckBlacklisted, ServeRead, LogoutDelete,
           LogoutCurrentDelete, RevokeDelete, LogoutBlacklist, LogoutCurrentBlacklist,
           LogoutAllBlacklist, DeleteAllSessions, RevokeHijacked, SignAccess
  <1>4. CASE SetUserRevoked(r)
    BY <1>2, <1>4 DEF SetUserRevoked, NextAfterRevoke, At
  <1>5. CASE CheckSession(r)
    <2>1. CASE Reply(r)
      BY <1>2, <2>1
    <2>2. CASE ~Reply(r)
      <3> DEFINE q == [req[r] EXCEPT !.at = FirstStep(req[r].op),
                                     !.scope = Promise(r), !.stamp = Stamp(r)]
      <3>1. req'[r] = q /\ req[r].op \in BearerOps
        BY <1>5, <2>2 DEF CheckSession, At, TypeInv, TypeOK
      <3>2. q.op = req[r].op /\ q.stamp = Stamp(r)
        BY <1>1 DEF Request
      <3> HIDE DEF q
      <3> QED BY <3>1, <3>2 DEF Stamped, AtRevoke, Stamp, Revokers, BearerOps
    <2> QED BY <2>1, <2>2
  <1>6. CASE FindRefresh(r) \/ RotateDelete(r) \/ InsertSession(r)
    <2>1. req[r].op \in {"login", "refresh"}
      BY <1>6 DEF FindRefresh, RotateDelete, InsertSession, At
    <2>2. ASSUME NEW q, req' = [req EXCEPT ![r] = q], q.op = req[r].op PROVE Stamped(r)
      BY <2>1, <2>2, OnlyOne DEF Stamped, AtRevoke, Revokers
    <2>3. CASE Reply(r)
      BY <1>2, <2>3
    <2>4. CASE FindRefresh(r)
      <3>1. ASSUME NEW step, NEW S, req' = [req EXCEPT ![r].at = step, ![r].scope = S]
            PROVE  Stamped(r)
        <4>1. /\ req' = [req EXCEPT ![r] = [req[r] EXCEPT !.at = step, !.scope = S]]
              /\ [req[r] EXCEPT !.at = step, !.scope = S].op = req[r].op
          BY <1>1, <3>1 DEF TypeInv, TypeOK, Request
        <4> QED BY <2>2, <4>1
      <3> QED BY <2>3, <2>4, <3>1 DEF FindRefresh
    <2>5. CASE RotateDelete(r)
      <3> DEFINE u == doc[req[r].sid].user
                 a == doc[req[r].sid].agent
                 q == [req[r] EXCEPT !.at = "insert", !.user = u, !.agent = a]
      <3>1. req' = [req EXCEPT ![r] = q]
        BY <2>5 DEF RotateDelete, TypeInv, TypeOK
      <3>2. q.op = req[r].op
        <4> HIDE DEF u, a
        <4> QED BY <1>1 DEF Request
      <3> HIDE DEF q
      <3> QED BY <2>2, <3>1, <3>2
    <2>6. CASE InsertSession(r)
      <3>1. \/ Reply(r)
            \/ \E n \in Sids \ Born : req' = [req EXCEPT ![r].at = "sign", ![r].new = n]
        BY <2>6 DEF InsertSession
      <3>2. ASSUME NEW n, req' = [req EXCEPT ![r].at = "sign", ![r].new = n]
            PROVE  Stamped(r)
        <4>1. /\ req' = [req EXCEPT ![r] = [req[r] EXCEPT !.at = "sign", !.new = n]]
              /\ [req[r] EXCEPT !.at = "sign", !.new = n].op = req[r].op
          BY <1>1, <3>2 DEF TypeInv, TypeOK, Request
        <4> QED BY <2>2, <4>1
      <3> QED BY <2>3, <3>1, <3>2
    <2> QED BY <1>6, <2>4, <2>5, <2>6
  <1> QED BY <1>3, <1>4, <1>5, <1>6 DEF Step

\* The records: only SetUserRevoked writes one.
RevokeFrame == UNCHANGED <<revokedAt, revokedUntil>>

LEMMA RevokeWrites ==
    ASSUME NEW r \in Reqs, Arrive(r) \/ Step(r)
    PROVE  /\ UNCHANGED now
           /\ \/ RevokeFrame
              \/ /\ SetUserRevoked(r)
                 /\ revokedAt' = [revokedAt EXCEPT ![req[r].user] = req[r].stamp]
                 /\ revokedUntil' = [revokedUntil EXCEPT ![req[r].user] = now + Keep]
  <1>1. CASE SetUserRevoked(r)
    BY <1>1 DEF SetUserRevoked, RevokeFrame
  <1>2. CASE ~SetUserRevoked(r)
    BY <1>2 DEF RevokeFrame, Arrive, StartLogin, StartRefresh, StartBearer, StartReset, Step,
         CheckUserRevoked, CheckBlacklisted, CheckSession, ServeRead, LogoutDelete,
         LogoutCurrentDelete, RevokeDelete, LogoutBlacklist, LogoutCurrentBlacklist,
         LogoutAllBlacklist, DeleteAllSessions, FindRefresh, RevokeHijacked, RotateDelete,
         InsertSession, SignAccess, redisVars
  <1> QED BY <1>1, <1>2


LEMMA RevokeInvNext ==
    ASSUME TypeInv, RevokeInv, [Next]_vars
    PROVE  RevokeInv'
  <1>1. /\ now \in Nat /\ Keep \in Nat /\ revokedAt \in [Users -> Nat]
        /\ revokedUntil \in [Users -> Nat]
    BY TTLAssumption DEF TypeInv, TypeOK
  <1>2. \A p \in Reqs : AtRevoke(req[p]) => req[p].stamp \in Nat /\ req[p].user \in Users
    BY DEF TypeInv, TypeOK, Fits, AtRevoke, Revokers, BearerOps, Request
  <1>3. CASE UNCHANGED vars
    BY <1>3 DEF vars, RevokeInv, AtRevoke
  <1>4. CASE Environ
    <2>1. RevokeFrame /\ now' \in Nat /\ now' >= now
      BY <1>1, <1>4 DEF Environ, Tick, PurgeExpired, Crash, DebugReset, redisVars, RevokeFrame
    <2>2. \A p \in Reqs : AtRevoke(req[p])' => AtRevoke(req[p]) /\ req'[p] = req[p]
      <3>1. CASE UNCHANGED req
        BY <3>1 DEF AtRevoke
      <3>2. CASE req' = [p \in Reqs |-> Idle]
        BY <3>2 DEF AtRevoke, Idle
      <3> QED BY <1>4, <3>1, <3>2 DEF Environ, Tick, PurgeExpired, Crash, DebugReset
    <2> QED BY <1>1, <1>2, <2>1, <2>2 DEF RevokeInv, RevokeFrame
  <1>5. ASSUME NEW r \in Reqs, Arrive(r) \/ Step(r) PROVE RevokeInv'
    <2>1. Stamped(r) /\ now' = now /\ \A p \in Reqs \ {r} : req'[p] = req[p]
      BY <1>5, ArriveStamped, StepStamped, RevokeWrites, OneMoves
    <2>2. \A p \in Reqs : AtRevoke(req[p])' => req'[p].stamp <= now
      <3> SUFFICES ASSUME NEW p \in Reqs, AtRevoke(req[p])' PROVE req'[p].stamp <= now
        OBVIOUS
      <3>1. CASE p = r
        BY <1>1, <2>1, <3>1 DEF Stamped
      <3>2. CASE p # r
        BY <2>1, <3>2 DEF RevokeInv, AtRevoke
      <3> QED BY <3>1, <3>2
    <2>3. CASE RevokeFrame
      BY <2>1, <2>2, <2>3 DEF RevokeInv, RevokeFrame
    <2>4. CASE /\ SetUserRevoked(r)
               /\ revokedAt' = [revokedAt EXCEPT ![req[r].user] = req[r].stamp]
               /\ revokedUntil' = [revokedUntil EXCEPT ![req[r].user] = now + Keep]
      <3>1. AtRevoke(req[r])
        BY <2>4 DEF SetUserRevoked, At, AtRevoke, Revokers
      <3>2. req[r].stamp \in Nat /\ req[r].stamp <= now
        BY <1>2, <3>1 DEF RevokeInv
      <3> QED BY <1>1, <2>1, <2>2, <2>4, <3>2 DEF RevokeInv
    <2> QED BY <1>5, <2>3, <2>4, RevokeWrites
  <1> QED BY <1>3, <1>4, <1>5 DEF Next, Environ

LEMMA RevokeInvariance == Spec => [](TypeInv /\ TokenInv /\ RevokeInv)
  <1>1. Init => RevokeInv
    BY DEF Init, RevokeInv, AtRevoke, Idle
  <1>2. TypeInv /\ TokenInv /\ RevokeInv /\ [Next]_vars => RevokeInv'
    BY RevokeInvNext
  <1> QED BY <1>1, <1>2, TokenInvariance, PTL DEF Spec

\* A revocation of u that began before the one on record is written over it.
LateWrite(u) ==
    \E r \in Reqs :
        /\ AtRevoke(req[r]) /\ req[r].user = u /\ req'[r] # req[r]
        /\ req[r].stamp < revokedAt[u] /\ revokedAt'[u] = req[r].stamp

StillRevoked(s) ==
    HasToken(s) /\ UserRevoked(s) =>
        UserRevoked(s)' \/ ~ValidToken(s)' \/ LateWrite(doc[s].user)

LEMMA RevokedStep ==
    ASSUME TypeInv, TokenInv, RevokeInv, [Next]_vars, NEW s \in Sids
    PROVE  StillRevoked(s)
  <1> SUFFICES ASSUME HasToken(s), UserRevoked(s), ValidToken(s)', ~LateWrite(doc[s].user)
               PROVE  UserRevoked(s)'
    BY DEF StillRevoked
  <1> DEFINE u == doc[s].user
  <1>1. /\ s \in Born /\ u \in Users /\ issued[s] \in Nat /\ now \in Nat
        /\ revokedAt[u] \in Nat /\ revokedUntil[u] \in Nat
    BY DEF TypeInv, TokensOfBorn, TypeOK, Born, HasToken
  <1>2. /\ revokedUntil[u] > now /\ IssuedAt(s) <= revokedAt[u]
        /\ revokedUntil[u] >= revokedAt[u] + Keep
    BY <1>1 DEF UserRevoked, RevokeInv
  <1>3. /\ AccessTTL \in Nat /\ Second \in Nat /\ Keep \in Nat /\ Keep >= AccessTTL + Second
    BY TTLAssumption, KeepAssumption
  <1>4. /\ IssuedAt(s) \in Nat /\ issued[s] < IssuedAt(s) + Second
        /\ ExpiresAt(s) \in Nat /\ ExpiresAt(s) <= issued[s] + AccessTTL
    BY <1>1, <1>3, NumericDateBounds DEF IssuedAt, ExpiresAt
  <1>5. ASSUME doc'[s] = doc[s], issued'[s] = issued[s], RevokeFrame, now' <= now + 1, now' \in Nat
        PROVE  UserRevoked(s)'
    <2>1. ExpiresAt(s)' = ExpiresAt(s) /\ IssuedAt(s)' = IssuedAt(s)
      BY <1>5 DEF ExpiresAt, IssuedAt
    <2>2. revokedUntil[u] > now'
      BY <1>1, <1>2, <1>3, <1>4, <1>5, <2>1 DEF ValidToken
    <2> QED BY <1>2, <1>5, <2>1, <2>2 DEF UserRevoked, RevokeFrame
  <1>6. CASE UNCHANGED vars
    BY <1>1, <1>5, <1>6 DEF vars, RevokeFrame
  <1>7. CASE Environ
    BY <1>1, <1>5, <1>7 DEF Environ, Tick, PurgeExpired, Crash, DebugReset, mongo, redisVars, RevokeFrame
  <1>8. ASSUME NEW r \in Reqs, Arrive(r) \/ Step(r) PROVE UserRevoked(s)'
    <2>1. now' = now
      BY <1>8, RevokeWrites
    <2>2. doc'[s] = doc[s] /\ issued'[s] = issued[s]
      <3>1. CASE InsertSession(r)
        <4>1. issued' = issued
          BY <3>1, InsertOutcome
        <4>2. doc' = doc \/ \E n \in Sids \ Born, d \in Doc : doc' = [doc EXCEPT ![n] = d]
          BY <3>1, InsertOutcome DEF mongo
        <4> QED BY <1>1, <4>1, <4>2 DEF TypeInv, TypeOK
      <3>2. CASE SignAccess(r)
        <4>1. req[r].new # s
          BY <3>2 DEF SignAccess, At, TokenInv
        <4> QED BY <3>2, <4>1 DEF SignAccess, mongo, TypeInv, TypeOK
      <3>3. CASE ~InsertSession(r) /\ ~SignAccess(r)
        BY <1>8, <3>3, CalmArrive, CalmStep DEF Calm
      <3> QED BY <3>1, <3>2, <3>3
    <2>3. CASE RevokeFrame
      BY <1>1, <1>5, <2>1, <2>2, <2>3
    <2>4. CASE /\ SetUserRevoked(r)
               /\ revokedAt' = [revokedAt EXCEPT ![req[r].user] = req[r].stamp]
               /\ revokedUntil' = [revokedUntil EXCEPT ![req[r].user] = now + Keep]
      <3>1. AtRevoke(req[r]) /\ req[r] \in Request
        BY <2>4 DEF SetUserRevoked, At, AtRevoke, Revokers, TypeInv, TypeOK
      <3>2. CASE req[r].user # u
        BY <1>2, <2>1, <2>2, <2>4, <3>2 DEF UserRevoked, IssuedAt
      <3>3. CASE req[r].user = u
        <4>1. revokedAt'[u] = req[r].stamp /\ revokedUntil'[u] = now + Keep
          BY <1>1, <2>4, <3>3 DEF TypeInv, TypeOK
        <4>2. req'[r] # req[r]
          BY <2>4, <3>1, GotoNotRevoke DEF SetUserRevoked, NextAfterRevoke, At, AtRevoke
        <4>3. req[r].stamp \in Nat /\ req[r].stamp >= revokedAt[u]
          BY <1>1, <3>1, <3>3, <4>1, <4>2 DEF LateWrite, Request
        <4>4. now + Keep > now
          BY <1>1, <1>3, TTLAssumption
        <4> QED BY <1>1, <1>2, <1>4, <2>1, <2>2, <4>1, <4>3, <4>4 DEF UserRevoked, IssuedAt
      <3> QED BY <3>2, <3>3
    <2> QED BY <1>8, <2>3, <2>4, RevokeWrites
  <1> QED BY <1>6, <1>7, <1>8 DEF Next, Environ

\* A record that rejects a token rejects it until it expires, whatever fails,
\* crashes or overlaps, unless a revocation of the same user that read the clock
\* earlier is written over it: SetUserRevokedNow compares with nothing, and the
\* TTL of the key is long enough for every token.  This is about the record in
\* Redis: a middleware that gets no answer lets the token past all the same.
THEOREM OnlyLateWritesUndo == Spec => [][\A s \in Sids : StillRevoked(s)]_vars
  <1>1. TypeInv /\ TokenInv /\ RevokeInv /\ [Next]_vars => [\A s \in Sids : StillRevoked(s)]_vars
    BY RevokedStep
  <1> QED BY <1>1, RevokeInvariance, PTL DEF Spec

\* What the middleware decides from the record, with every fault and overlap:
\* the token that is turned away was signed before the second of the revocation
\* was over, and, while Redis answers, the token that is let past was signed after
\* the revocation on record.  That the key expires no earlier than any token it
\* must block is RevokeInv and KeepAssumption.
THEOREM RevocationPrecise == Spec => RevocationDecides
  <1> DEFINE Decides(r) ==
        CheckUserRevoked(r) =>
           LET s == req[r].sid
               revoked == revokedAt[doc[s].user]
           IN  /\ req'[r] = Idle => issued[s] < revoked + Second
               /\ req'[r] # Idle /\ ~RedisSilent /\ ValidToken(s) =>
                      revoked = 0 \/ issued[s] > revoked
  <1>1. ASSUME TypeInv, TokenInv, RevokeInv, NEW r \in Reqs, CheckUserRevoked(r)
        PROVE  Decides(r)
    <2> DEFINE s == req[r].sid
               u == doc[s].user
    <2>1. /\ s \in Born /\ HasToken(s) /\ u \in Users /\ issued[s] \in Nat /\ now \in Nat
          /\ revokedAt[u] \in Nat /\ revokedUntil[u] \in Nat
      BY <1>1 DEF CheckUserRevoked, At, TokenInv, Bears, TypeInv, TokensOfBorn, TypeOK, Born,
                  HasToken, Fits
    <2>2. /\ AccessTTL \in Nat /\ Second \in Nat /\ Keep \in Nat /\ Keep >= AccessTTL + Second
      BY TTLAssumption, KeepAssumption
    <2>3. /\ IssuedAt(s) \in Nat /\ IssuedAt(s) <= issued[s] /\ issued[s] < IssuedAt(s) + Second
          /\ ExpiresAt(s) \in Nat /\ ExpiresAt(s) <= issued[s] + AccessTTL
      BY <2>1, <2>2, NumericDateBounds DEF IssuedAt, ExpiresAt
    <2>4. req'[r] = Idle => UserRevoked(s)
      BY <1>1 DEF CheckUserRevoked, Goto, Idle, TypeInv, TypeOK, Request
    <2>5. req'[r] # Idle /\ ~RedisSilent => ~UserRevoked(s)
      BY <1>1 DEF CheckUserRevoked, Reply, TypeInv, TypeOK
    <2>6. req'[r] = Idle => issued[s] < revokedAt[u] + Second
      BY <2>1, <2>2, <2>3, <2>4 DEF UserRevoked
    <2>7. ASSUME ~UserRevoked(s), ValidToken(s), revokedAt[u] # 0
          PROVE  issued[s] > revokedAt[u]
      <3>1. CASE IssuedAt(s) > revokedAt[u]
        BY <2>1, <2>3, <3>1
      <3>2. CASE revokedUntil[u] <= now
        <4>1. revokedUntil[u] >= revokedAt[u] + Keep
          BY <1>1, <2>1, <2>7 DEF RevokeInv
        <4>2. ExpiresAt(s) > now
          BY <2>7 DEF ValidToken
        <4> HIDE DEF s, u
        <4> QED BY <2>1, <2>2, <2>3, <3>2, <4>1, <4>2
      <3> QED BY <2>1, <2>3, <2>7, <3>1, <3>2 DEF UserRevoked
    <2> QED BY <2>5, <2>6, <2>7
  <1>2. TypeInv /\ TokenInv /\ RevokeInv /\ [Next]_vars => [\A r \in Reqs : Decides(r)]_vars
    BY <1>1
  <1> QED BY <1>2, RevokeInvariance, PTL DEF Spec, RevocationDecides

\* While requests do not overlap, the stamp about to be written is the latest.
OneAtATime == \A p, r \in Reqs : p = r
LatestStamp == \A r \in Reqs, u \in Users : AtRevoke(req[r]) => req[r].stamp >= revokedAt[u]

LEMMA LatestStampNext ==
    ASSUME OneAtATime, TypeInv, RevokeInv, LatestStamp, [Next]_vars
    PROVE  LatestStamp'
  <1>1. CASE UNCHANGED vars
    BY <1>1 DEF vars, LatestStamp, AtRevoke
  <1>2. CASE Environ
    <2>1. revokedAt' = revokedAt
      BY <1>2 DEF Environ, Tick, PurgeExpired, Crash, DebugReset, redisVars
    <2>2. CASE UNCHANGED req
      BY <2>1, <2>2 DEF LatestStamp, AtRevoke
    <2>3. CASE req' = [r \in Reqs |-> Idle]
      BY <2>3 DEF LatestStamp, AtRevoke, Idle
    <2> QED BY <1>2, <2>2, <2>3 DEF Environ, Tick, PurgeExpired, Crash, DebugReset
  <1>3. ASSUME NEW r \in Reqs, Arrive(r) \/ Step(r) PROVE LatestStamp'
    <2>1. \A p \in Reqs : p = r
      BY DEF OneAtATime
    <2>2. Stamped(r)
      BY <1>3, ArriveStamped, StepStamped
    <2>3. CASE RevokeFrame
      BY <2>1, <2>2, <2>3 DEF LatestStamp, Stamped, RevokeFrame, RevokeInv
    <2>4. CASE SetUserRevoked(r)
      <3>1. ~AtRevoke(req[r])'
        BY <2>4, GotoNotRevoke DEF SetUserRevoked, NextAfterRevoke, At
      <3> QED BY <2>1, <3>1 DEF LatestStamp
    <2> QED BY <1>3, <2>3, <2>4, RevokeWrites
  <1> QED BY <1>1, <1>2, <1>3 DEF Next, Environ

\* As long as requests do not overlap, no write of revoked_at and no expiry of
\* the Redis key undoes the record that rejects a token, also under faults and
\* crashes.  What the middleware makes of the record is RevocationPrecise.
THEOREM RevocationLasts ==
    ASSUME OneAtATime
    PROVE  Spec => RevokedTokenStaysRevoked
  <1> DEFINE Lasts(s) == HasToken(s) /\ UserRevoked(s) => UserRevoked(s)' \/ ~ValidToken(s)'
  <1>1. Init => LatestStamp
    BY DEF Init, LatestStamp, AtRevoke, Idle
  <1>2. TypeInv /\ RevokeInv /\ LatestStamp /\ [Next]_vars => LatestStamp'
    BY LatestStampNext
  <1>3. TypeInv /\ TokenInv /\ RevokeInv /\ LatestStamp /\ [Next]_vars
            => [\A s \in Sids : Lasts(s)]_vars
    <2> SUFFICES ASSUME TypeInv, TokenInv, RevokeInv, LatestStamp, [Next]_vars, NEW s \in Sids,
                        HasToken(s), UserRevoked(s), ValidToken(s)'
                 PROVE  UserRevoked(s)'
      OBVIOUS
    <2>1. ~LateWrite(doc[s].user)
      <3>1. doc[s].user \in Users /\ revokedAt[doc[s].user] \in Nat
        BY DEF TypeInv, TokensOfBorn, TypeOK, Born
      <3>2. \A r \in Reqs : req[r].stamp \in Nat
        BY DEF TypeInv, TypeOK, Request
      <3> QED BY <3>1, <3>2 DEF LateWrite, LatestStamp
    <2> QED BY <2>1, RevokedStep DEF StillRevoked
  <1> QED BY <1>1, <1>2, <1>3, RevokeInvariance, PTL DEF Spec, RevokedTokenStaysRevoked

-----------------------------------------------------------------------------
(* Requests that do not overlap *)

Sequential == ~MongoFaults /\ OneAtATime

Heirs(s) == {m \in Born : doc[m].from = s}

\* What a request may rely on as long as no other gets in between: the session
\* it rotates has no heir and was not ended, the session it logs out has no heir.
Alone(q) ==
    /\ q.op = "login" => q.sid = None
    /\ q.op = "refresh" /\ q.at \in {"rotate", "insert"} => Heirs(q.sid) = {} /\ q.sid \notin ended
    /\ q.op = "refresh" /\ q.at = "insert" => q.sid \notin stored /\ q.user = doc[q.sid].user
    /\ q.op = "logout" /\ q.at \in {"deleteOne", "revokeJWT"} => Heirs(q.sid) = {}

HeirInv ==
    /\ \A m \in Born : doc[m].from # None =>
           /\ doc[m].from \in Born \ stored
           /\ doc[m].user = doc[doc[m].from].user
    /\ \A m, n \in Born : doc[m].from = doc[n].from /\ doc[m].from # None => m = n
    /\ \A s \in stored : doc[s].from \notin ended
    /\ \A r \in Reqs : Alone(req[r])

\* Every step but an insert.
LEMMA HeirFrame ==
    ASSUME HeirInv, doc' = doc, stored' \subseteq stored,
           \A s \in stored' : doc[s].from \in ended' => doc[s].from \in ended,
           \A r \in Reqs : Alone(req[r])'
    PROVE  HeirInv'
  BY DEF HeirInv, Born

LEMMA NoHeirs ==
    ASSUME IInv, HeirInv, NEW s \in stored
    PROVE  s \in Sids /\ Heirs(s) = {} /\ s \notin ended
  BY SidsAssumption DEF IInv, TypeInv, TypeOK, HeirInv, Heirs, Born, EndedStayDead

\* A request goes on, past the middleware or its validation, or starts.
LEMMA HeirMoves ==
    ASSUME Sequential, IInv, HeirInv, NEW r \in Reqs,
           doc' = doc, stored' \subseteq stored, ended' = ended, Alone(req[r])'
    PROVE  HeirInv'
  <1>1. \A p \in Reqs : p = r
    BY DEF Sequential, OneAtATime
  <1>2. \A p \in Reqs : Alone(req[p])'
    BY <1>1 DEF Alone
  <1> QED BY <1>2, HeirFrame

LEMMA IdleAlone == Alone(Idle) /\ Alone(Idle)'
  BY DEF Alone, Idle

LEMMA HeirReply ==
    ASSUME Sequential, IInv, HeirInv, NEW r \in Reqs, Reply(r),
           doc' = doc, stored' \subseteq stored,
           \A s \in stored' : doc[s].from \in ended' => doc[s].from \in ended
    PROVE  HeirInv'
  <1>1. \A p \in Reqs : req'[p] = Idle
    BY OnlyOne DEF Sequential, OneAtATime, IInv
  <1>2. \A p \in Reqs : Alone(req[p])'
    BY <1>1 DEF Alone, Idle
  <1> QED BY <1>2, HeirFrame

LEMMA HeirGoto ==
    ASSUME Sequential, IInv, HeirInv, NEW r \in Reqs, NEW step, Goto(r, step),
           doc' = doc, stored' \subseteq stored, ended' = ended,
           req[r].op \in BearerOps,
           req[r].op = "logout" /\ step \in {"deleteOne", "revokeJWT"} => Heirs(req[r].sid) = {}
    PROVE  HeirInv'
  <1>1. req[r] \in Request /\ req'[r] = [req[r] EXCEPT !.at = step]
    BY OnlyOne DEF IInv, TypeInv, TypeOK
  <1>2. req'[r].op = req[r].op /\ req'[r].at = step /\ req'[r].sid = req[r].sid
    BY <1>1 DEF Request
  <1>3. Alone(req[r])'
    BY <1>2 DEF Alone, BearerOps, Heirs, Born
  <1> QED BY <1>3, HeirMoves

LEMMA HeirArrive ==
    ASSUME Sequential, IInv, HeirInv, NEW r \in Reqs, Arrive(r)
    PROVE  HeirInv'
  <1>1. UNCHANGED <<mongo, acks>>
    BY DEF Arrive, StartLogin, StartRefresh, StartBearer, StartReset
  <1> DEFINE Early(q) == \/ q.op = "login" /\ q.sid = None
                         \/ q.op = "refresh" /\ q.at = "find"
                         \/ q.op \in BearerOps /\ q.at = "userRevoked"
                         \/ q.op = "reset"
             Starts == \E op, call : Start(r, op, call) /\ Early(call)
  <1>2. ASSUME NEW u, NEW a, StartLogin(r, u, a) PROVE Starts
    <2> DEFINE call == [Idle EXCEPT !.op = "login", !.at = "insert", !.user = u, !.agent = a]
    <2>1. Early(call)
      BY DEF Idle
    <2> QED BY <1>2, <2>1 DEF StartLogin
  <1>3. ASSUME NEW s, NEW a, StartRefresh(r, s, a) PROVE Starts
    <2> DEFINE call == [Idle EXCEPT !.op = "refresh", !.at = "find", !.sid = s, !.agent = a]
    <2>1. Early(call)
      BY DEF Idle
    <2> QED BY <1>3, <2>1 DEF StartRefresh
  <1>4. ASSUME NEW o \in BearerOps, NEW s, NEW u, NEW targets, StartBearer(r, o, s, u, targets)
        PROVE  Starts
    <2> DEFINE call == [Idle EXCEPT !.op = o, !.at = "userRevoked", !.sid = s,
                                    !.user = u, !.scope = targets]
    <2>1. Early(call)
      BY DEF Idle
    <2> QED BY <1>4, <2>1 DEF StartBearer
  <1>5. ASSUME NEW u, StartReset(r, u) PROVE Starts
    <2> DEFINE call == [Idle EXCEPT !.op = "reset", !.at = "setRevoked", !.user = u,
                                    !.stamp = now, !.scope = SessionsOf(u)]
    <2>1. Early(call)
      BY DEF Idle
    <2> QED BY <1>5, <2>1 DEF StartReset
  <1> HIDE DEF Early
  <1>6. Starts
    BY <1>2, <1>3, <1>4, <1>5 DEF Arrive, BearerOps
  <1>7. Early(req'[r])
    BY <1>6, OnlyOne DEF Start, IInv
  <1>8. Alone(req[r])'
    BY <1>7 DEF Early, Alone, BearerOps
  <1> QED BY <1>1, <1>8, HeirMoves DEF mongo, acks

LEMMA HeirMiddleware ==
    ASSUME Sequential, IInv, HeirInv, NEW r \in Reqs,
           CheckUserRevoked(r) \/ CheckBlacklisted(r) \/ CheckSession(r) \/ ServeRead(r)
    PROVE  HeirInv'
  <1>1. UNCHANGED <<mongo, acks>> /\ req[r] \in Request
    BY DEF CheckUserRevoked, CheckBlacklisted, CheckSession, ServeRead, IInv, TypeInv, TypeOK
  <1>2. CASE Reply(r)
    BY <1>1, <1>2, HeirReply DEF mongo, acks
  <1>3. ASSUME NEW step \in {"blacklisted", "sessionExists"}, Goto(r, step),
               req[r].op \in BearerOps
        PROVE  HeirInv'
    BY <1>1, <1>3, HeirGoto DEF mongo, acks
  <1>4. CASE /\ CheckSession(r) /\ ~Reply(r)
    <2>1. req[r].op \in BearerOps /\ req[r].sid \in stored
      BY <1>4 DEF CheckSession, At, Live
    <2>2. req'[r].op = req[r].op /\ req'[r].sid = req[r].sid
      BY <1>1, <1>4 DEF CheckSession, IInv, TypeInv, TypeOK, Request
    <2>3. Heirs(req[r].sid) = {}
      BY <2>1, NoHeirs
    <2>4. Alone(req[r])'
      BY <1>1, <2>1, <2>2, <2>3 DEF Alone, BearerOps, Heirs, Born, mongo
    <2> QED BY <1>1, <2>4, HeirMoves DEF mongo, acks
  <1> QED BY <1>2, <1>3, <1>4
          DEF CheckUserRevoked, CheckBlacklisted, CheckSession, ServeRead, At

\* What an end takes with it: the session has no heir, or its heirs end too.
LEMMA HeirHandlers ==
    ASSUME Sequential, IInv, HeirInv, NEW r \in Reqs,
           \/ LogoutDelete(r) \/ LogoutCurrentDelete(r) \/ RevokeDelete(r)
           \/ LogoutBlacklist(r) \/ LogoutCurrentBlacklist(r) \/ LogoutAllBlacklist(r)
           \/ SetUserRevoked(r) \/ DeleteAllSessions(r)
    PROVE  HeirInv'
  <1>1. ~MongoFaults /\ Alone(req[r]) /\ Knows(req[r])
    BY DEF Sequential, OneAtATime, HeirInv, IInv
  <1>2. CASE LogoutDelete(r) \/ LogoutCurrentDelete(r)
    <2>1. /\ doc' = doc /\ stored' \subseteq stored /\ ended' = ended
          /\ req[r].op \in BearerOps /\ Goto(r, "revokeJWT")
          /\ req[r].op = "logout" => Heirs(req[r].sid) = {}
      BY <1>1, <1>2 DEF LogoutDelete, LogoutCurrentDelete, Deletes, DeleteFails, At,
                        BearerOps, acks, Alone
    <2> QED BY <2>1, HeirGoto
  <1>3. CASE RevokeDelete(r)
    <2>1. doc' = doc /\ stored' \subseteq stored /\ Reply(r) /\ req[r].op = "revoke"
      BY <1>3 DEF RevokeDelete, Deletes, DeleteFails, At
    <2>2. ASSUME NEW s \in stored, doc[s].from \in ended', doc[s].from \notin ended PROVE FALSE
      <3>1. PICK t \in req[r].scope : t \in stored
        BY <1>1, <1>3, <2>2 DEF RevokeDelete
      <3>2. doc[s].from = t
        BY <1>1, <1>3, <2>1, <2>2, <3>1 DEF RevokeDelete, Knows
      <3> QED BY <3>1, <3>2, NoHeirs DEF Heirs, IInv, TypeInv, TypeOK
    <2> QED BY <2>1, <2>2, HeirReply
  <1>4. CASE LogoutBlacklist(r)
    <2>1. /\ doc' = doc /\ stored' = stored /\ Reply(r) /\ Heirs(req[r].sid) = {}
          /\ ended' = ended \cup {req[r].sid}
      BY <1>1, <1>4 DEF LogoutBlacklist, mongo, At, Alone, Knows
    <2>2. \A s \in stored : doc[s].from # req[r].sid
      BY <2>1 DEF Heirs, IInv, TypeInv, TypeOK
    <2> QED BY <2>1, <2>2, HeirReply
  <1>5. CASE LogoutCurrentBlacklist(r)
    BY <1>5, HeirReply DEF LogoutCurrentBlacklist, mongo
  <1>6. CASE LogoutAllBlacklist(r)
    <2>1. /\ doc' = doc /\ stored' = stored /\ ended' = ended
          /\ req[r].op \in BearerOps /\ req[r].op # "logout" /\ Goto(r, "deleteAll")
      BY <1>6 DEF LogoutAllBlacklist, mongo, acks, At, BearerOps
    <2> QED BY <2>1, HeirGoto
  <1>7. CASE SetUserRevoked(r)
    <2>1. doc' = doc /\ stored' = stored /\ ended' = ended /\ req[r].op # "logout"
      BY <1>7 DEF SetUserRevoked, mongo, acks, At
    <2>2. Reply(r) \/ \E step : Goto(r, step) /\ req[r].op \in BearerOps
      BY <1>7 DEF SetUserRevoked, NextAfterRevoke, At, BearerOps
    <2> QED BY <2>1, <2>2, HeirGoto, HeirReply
  <1>8. CASE DeleteAllSessions(r)
    <2>1. /\ doc' = doc /\ Reply(r) /\ stored' = stored \ SessionsOf(req[r].user)
          /\ ended' = ended \cup req[r].scope /\ req[r].scope \subseteq SessionsOf(req[r].user)
      BY <1>1, <1>8 DEF DeleteAllSessions, Deletes, DeleteFails, At, Knows
    <2>2. ASSUME NEW s \in stored', doc[s].from \in SessionsOf(req[r].user) PROVE FALSE
      <3>1. s \in Born /\ s \notin SessionsOf(req[r].user)
        BY <2>1 DEF IInv, TypeInv, TypeOK
      <3>2. doc[s].from # None /\ doc[doc[s].from].user = req[r].user
        BY <2>2, SidsAssumption DEF SessionsOf, Born
      <3>3. doc[s].user = req[r].user
        BY <3>1, <3>2 DEF HeirInv
      <3> QED BY <3>1, <3>3 DEF SessionsOf
    <2> QED BY <2>1, <2>2, HeirReply
  <1> QED BY <1>2, <1>3, <1>4, <1>5, <1>6, <1>7, <1>8

LEMMA HeirRefresh ==
    ASSUME Sequential, IInv, HeirInv, NEW r \in Reqs,
           FindRefresh(r) \/ RevokeHijacked(r) \/ RotateDelete(r) \/ SignAccess(r)
    PROVE  HeirInv'
  <1>1. ~MongoFaults /\ Alone(req[r]) /\ req[r] \in Request
    BY DEF Sequential, OneAtATime, HeirInv, IInv, TypeInv, TypeOK
  <1>2. CASE RevokeHijacked(r) \/ SignAccess(r)
    BY <1>2, HeirReply DEF RevokeHijacked, SignAccess, Deletes, DeleteFails, mongo
  <1>3. CASE FindRefresh(r)
    <2>1. UNCHANGED <<mongo, acks>> /\ req[r].op = "refresh"
      BY <1>3 DEF FindRefresh, At
    <2>2. CASE Reply(r)
      BY <2>1, <2>2, HeirReply DEF mongo, acks
    <2>3. ASSUME NEW step \in {"rotate", "revokeHijacked"}, NEW S, req[r].sid \in stored,
                 req' = [req EXCEPT ![r].at = step, ![r].scope = S]
          PROVE  HeirInv'
      <3>1. req'[r].op = "refresh" /\ req'[r].at = step /\ req'[r].sid = req[r].sid
        BY <1>1, <2>1, <2>3 DEF IInv, TypeInv, TypeOK, Request
      <3>2. Heirs(req[r].sid) = {} /\ req[r].sid \notin ended
        BY <2>3, NoHeirs
      <3>3. step # "insert"
        OBVIOUS
      <3>4. Alone(req[r])'
        BY <2>1, <3>1, <3>2, <3>3 DEF Alone, Heirs, Born, mongo, acks
      <3> QED BY <2>1, <3>4, HeirMoves DEF mongo, acks
    <2> QED BY <1>3, <2>2, <2>3 DEF FindRefresh, Live
  <1>4. CASE RotateDelete(r)
    <2> DEFINE s == req[r].sid
               u == doc[s].user
               a == doc[s].agent
               q == [req[r] EXCEPT !.at = "insert", !.user = u, !.agent = a]
    <2>1. /\ doc' = doc /\ ended' = ended /\ stored' = stored \ {s}
          /\ req[r].op = "refresh" /\ Heirs(s) = {} /\ s \notin ended
      BY <1>1, <1>4 DEF RotateDelete, Deletes, DeleteFails, At, Alone, acks
    <2>2. q.op = "refresh" /\ q.at = "insert" /\ q.sid = s /\ q.user = u
      <3> HIDE DEF u, a
      <3> QED BY <1>1, <2>1 DEF Request
    <2>3. req'[r] = q
      BY <1>4 DEF RotateDelete, IInv, TypeInv, TypeOK
    <2> HIDE DEF q
    <2>4. Alone(req[r])'
      BY <2>1, <2>2, <2>3 DEF Alone, Heirs, Born
    <2> QED BY <2>1, <2>4, HeirMoves
  <1> QED BY <1>2, <1>3, <1>4

\* The new document is the only heir of a session that has left the collection.
LEMMA HeirInsert ==
    ASSUME Sequential, IInv, HeirInv, NEW r \in Reqs, InsertSession(r)
    PROVE  HeirInv'
  <1>1. /\ TypeInv /\ UNCHANGED acks /\ Alone(req[r]) /\ Fits(req[r]) /\ req[r] \in Request
        /\ req[r].at = "insert" /\ req[r].op \in {"login", "refresh"}
    BY InsertOutcome DEF IInv, TypeInv, TypeOK, HeirInv, InsertSession, At
  <1>2. CASE UNCHANGED mongo /\ Reply(r)
    BY <1>1, <1>2, HeirReply DEF mongo, acks
  <1>3. CASE ~(UNCHANGED mongo /\ Reply(r))
    <2> DEFINE f == req[r].sid
    <2>1. PICK n \in Sids \ Born :
              /\ doc' = [doc EXCEPT ![n] = [user |-> req[r].user, agent |-> req[r].agent,
                                            from |-> f, expires |-> now + RefreshTTL]]
              /\ stored' = stored \cup {n}
              /\ req' = [req EXCEPT ![r].at = "sign", ![r].new = n]
      BY <1>3 DEF InsertSession, Sequential, OneAtATime
    <2>2. /\ Born' = Born \cup {n}
          /\ \A m \in Born : doc'[m] = doc[m]
          /\ doc'[n].from = f /\ doc'[n].user = req[r].user
      <3>1. [user |-> req[r].user, agent |-> req[r].agent,
             from |-> f, expires |-> now + RefreshTTL] \in Doc
        BY <1>1, TTLAssumption DEF Fits, Request, TypeInv, TypeOK, Doc
      <3> QED BY <1>1, <2>1, <3>1, InsertGrows DEF Doc
    <2>3. f # None => /\ f \in Born \ stored /\ f \notin ended
                      /\ req[r].user = doc[f].user
                      /\ \A m \in Born : doc[m].from # f
      BY <1>1 DEF Alone, Fits, Heirs
    <2> HIDE DEF f
    <2>4. \A p \in Reqs : req'[p].at = "sign" /\ req'[p].op \in {"login", "refresh"}
                              /\ req'[p].sid = req[r].sid
      <3>1. req'[r] = [req[r] EXCEPT !.at = "sign", !.new = n]
        BY <1>1, <2>1 DEF TypeInv, TypeOK
      <3>2. req'[r].at = "sign" /\ req'[r].op = req[r].op /\ req'[r].sid = req[r].sid
        BY <1>1, <3>1 DEF Request
      <3> QED BY <1>1, <3>2 DEF Sequential, OneAtATime
    <2>5. \A p \in Reqs : Alone(req[p])'
      <3>1. \A p \in Reqs : req'[p].op = "login" => req'[p].sid = None
        <4>1. ASSUME NEW p \in Reqs, req'[p].op = "login" PROVE req'[p].sid = None
          <5>1. req'[r].op = req[r].op
            BY <1>1, <2>1 DEF TypeInv, TypeOK, Request
          <5>2. p = r
            BY DEF Sequential, OneAtATime
          <5> QED BY <1>1, <2>4, <4>1, <5>1, <5>2 DEF Alone
        <4> QED BY <4>1
      <3> QED BY <2>4, <3>1 DEF Alone
    <2>6. \A m \in Born' : doc'[m].from # None =>
              /\ doc'[m].from \in Born' \ stored'
              /\ doc'[m].user = doc'[doc'[m].from].user
      BY <2>1, <2>2, <2>3 DEF HeirInv
    <2>7. \A m, o \in Born' : doc'[m].from = doc'[o].from /\ doc'[m].from # None => m = o
      BY <2>2, <2>3 DEF HeirInv
    <2>8. \A s \in stored' : doc'[s].from \notin ended'
      <3>1. None \notin ended /\ ended' = ended /\ stored \subseteq Born
        BY <1>1, SidsAssumption DEF TypeInv, TypeOK, Born, acks
      <3> QED BY <2>1, <2>2, <2>3, <3>1 DEF HeirInv
    <2> QED BY <2>5, <2>6, <2>7, <2>8 DEF HeirInv
  <1> QED BY <1>2, <1>3

LEMMA HeirEnviron ==
    ASSUME HeirInv, Environ
    PROVE  HeirInv'
  <1>1. doc' = doc /\ stored' \subseteq stored /\ ended' = ended
    BY DEF Environ, Tick, PurgeExpired, Crash, DebugReset, mongo, acks
  <1>2. UNCHANGED req \/ req' = [r \in Reqs |-> Idle]
    BY DEF Environ, Tick, PurgeExpired, Crash, DebugReset
  <1>3. \A r \in Reqs : Alone(req[r])'
    <2>1. CASE UNCHANGED req
      BY <1>1, <2>1 DEF HeirInv, Alone, Heirs, Born
    <2>2. CASE req' = [r \in Reqs |-> Idle]
      BY <2>2 DEF Alone, Idle
    <2> QED BY <1>2, <2>1, <2>2
  <1> QED BY <1>1, <1>3, HeirFrame

LEMMA HeirInvariance ==
    ASSUME Sequential
    PROVE  Spec => [](TypeInv /\ HeirInv)
  <1>1. Init => HeirInv
    BY IdleAlone DEF Init, HeirInv, Born
  <1>2. IInv /\ HeirInv /\ [Next]_vars => HeirInv'
    <2> SUFFICES ASSUME IInv, HeirInv, [Next]_vars PROVE HeirInv'
      OBVIOUS
    <2>1. CASE UNCHANGED vars
      BY <2>1 DEF vars, HeirInv, Alone, Heirs, Born
    <2>2. ASSUME NEW r \in Reqs, Arrive(r) \/ Step(r) PROVE HeirInv'
      BY <2>2, HeirArrive, HeirMiddleware, HeirHandlers, HeirRefresh, HeirInsert DEF Step
    <2> QED BY <2>1, <2>2, HeirEnviron DEF Next, Environ
  <1>3. IInv => TypeInv
    BY DEF IInv
  <1> QED BY <1>1, <1>2, <1>3, Invariance, PTL DEF Spec

\* As long as requests do not overlap and MongoDB answers, a refresh token is
\* exchanged once: across crashes, with or without Redis.
THEOREM ExchangedOnce ==
    ASSUME Sequential
    PROVE  Spec => []SingleUse
  <1>1. TypeInv /\ HeirInv => SingleUse
    BY DEF SingleUse, HeirInv, TypeInv, TokensOfBorn
  <1> QED BY <1>1, HeirInvariance, PTL

\* Under the same assumption an acknowledged end leaves no live successor.
THEOREM NoHeirLeft ==
    ASSUME Sequential
    PROVE  Spec => []EndedLeaveNoHeir
  <1>1. TypeInv /\ HeirInv => EndedLeaveNoHeir
    BY DEF EndedLeaveNoHeir, HeirInv, Live
  <1> QED BY <1>1, HeirInvariance, PTL

-----------------------------------------------------------------------------
(* Requests that overlap: how often a refresh token can be exchanged *)

\* The requests that were admitted with the refresh token of s and may still
\* insert a successor of it.
Rotating(q) == q.op = "refresh" /\ q.at \in {"rotate", "insert"}
Exchanging(s) == {r \in Reqs : Rotating(req[r]) /\ req[r].sid = s}

\* A session is deleted before its first successor is inserted, so from then on
\* nobody joins those who may insert another.
ExchangeInv ==
    /\ \A m \in Born : doc[m].from \in Born \cup {None}
    /\ \A s \in stored : Heirs(s) = {}
    /\ \A r \in Reqs : /\ req[r].op = "login" => req[r].sid = None
                       /\ Rotating(req[r]) /\ req[r].at = "insert" => req[r].sid \notin stored
    /\ \A s \in Sids : /\ IsFiniteSet(Heirs(s))
                       /\ Cardinality(Heirs(s)) + Cardinality(Exchanging(s)) <= Cardinality(Reqs)

LEMMA FiniteReqs ==
    ASSUME IsFiniteSet(Reqs), NEW S \in SUBSET Reqs
    PROVE  /\ IsFiniteSet(S) /\ Cardinality(S) \in Nat /\ Cardinality(Reqs) \in Nat
           /\ Cardinality(S) <= Cardinality(Reqs)
           /\ \A T \in SUBSET S : Cardinality(T) <= Cardinality(S)
  <1>1. IsFiniteSet(S) /\ Cardinality(S) <= Cardinality(Reqs)
    BY FS_Subset
  <1>2. ASSUME NEW T \in SUBSET S PROVE Cardinality(T) <= Cardinality(S)
    BY <1>1, FS_Subset
  <1> QED BY <1>1, <1>2, FS_CardinalityType

\* What a request carries while it waits for its insert.
Waits(q) ==
    /\ q.op = "login" => q.sid = None
    /\ Rotating(q) /\ q.at = "insert" => q.sid \notin stored

\* Every step but an insert: nobody joins, except for a session still stored.
LEMMA ExchangeFrame ==
    ASSUME IsFiniteSet(Reqs), TypeInv, ExchangeInv, doc' = doc, stored' \subseteq stored,
           \A r \in Reqs : Waits(req[r])',
           \A r \in Reqs : Rotating(req[r])' =>
               \/ Rotating(req[r]) /\ req'[r].sid = req[r].sid
               \/ req'[r].sid \in stored
    PROVE  ExchangeInv'
  <1>1. Born' = Born /\ \A s : Heirs(s)' = Heirs(s)
    BY DEF Born, Heirs
  <1>2. \A m \in Born' : doc'[m].from \in Born' \cup {None}
    BY <1>1 DEF ExchangeInv
  <1>3. \A s \in stored' : Heirs(s)' = {}
    BY <1>1 DEF ExchangeInv
  <1>4. ASSUME NEW s \in Sids
        PROVE  Cardinality(Heirs(s))' + Cardinality(Exchanging(s))' <= Cardinality(Reqs)
    <2>1. /\ Cardinality(Heirs(s)) + Cardinality(Exchanging(s)) <= Cardinality(Reqs)
          /\ Cardinality(Heirs(s)) \in Nat
      BY FS_CardinalityType DEF ExchangeInv
    <2>2. /\ Exchanging(s) \in SUBSET Reqs /\ Exchanging(s)' \in SUBSET Reqs
          /\ Cardinality(Exchanging(s)) \in Nat /\ Cardinality(Exchanging(s)') \in Nat
          /\ Cardinality(Reqs) \in Nat
      <3>1. Exchanging(s) \in SUBSET Reqs /\ Exchanging(s)' \in SUBSET Reqs
        BY DEF Exchanging
      <3> QED BY <3>1, FiniteReqs
    <2>3. CASE s \in stored
      <3>1. Cardinality(Heirs(s)) = 0
        BY <2>3, FS_EmptySet DEF ExchangeInv
      <3>2. Cardinality(Exchanging(s)') <= Cardinality(Reqs)
        BY <2>2, FiniteReqs
      <3> QED BY <1>1, <2>2, <3>1, <3>2
    <2>4. CASE s \notin stored
      <3>1. Exchanging(s)' \subseteq Exchanging(s)
        BY <2>4 DEF Exchanging
      <3>2. Cardinality(Exchanging(s)') <= Cardinality(Exchanging(s))
        BY <2>2, <3>1, FiniteReqs
      <3> QED BY <1>1, <2>1, <2>2, <3>2
    <2> QED BY <2>3, <2>4
  <1>5. \A s \in Sids : IsFiniteSet(Heirs(s))'
    BY <1>1 DEF ExchangeInv
  <1> QED BY <1>2, <1>3, <1>4, <1>5 DEF ExchangeInv, Waits

\* One request moves.
LEMMA ExchangeMove ==
    ASSUME IsFiniteSet(Reqs), TypeInv, ExchangeInv, NEW r \in Reqs,
           doc' = doc, stored' \subseteq stored,
           \A p \in Reqs \ {r} : req'[p] = req[p],
           Waits(req[r])',
           Rotating(req[r])' => \/ Rotating(req[r]) /\ req'[r].sid = req[r].sid
                                \/ req'[r].sid \in stored
    PROVE  ExchangeInv'
  <1>1. ASSUME NEW p \in Reqs, p # r
        PROVE  Waits(req[p])' /\ (Rotating(req[p])' => Rotating(req[p])) /\ req'[p] = req[p]
    BY <1>1 DEF ExchangeInv, Waits, Rotating
  <1>2. \A p \in Reqs : Waits(req[p])'
    BY <1>1
  <1>3. \A p \in Reqs : Rotating(req[p])' =>
            \/ Rotating(req[p]) /\ req'[p].sid = req[p].sid
            \/ req'[p].sid \in stored
    BY <1>1
  <1> QED BY <1>2, <1>3, ExchangeFrame

\* A request that neither rotates before nor after.
LEMMA ExchangeAside ==
    ASSUME IsFiniteSet(Reqs), TypeInv, ExchangeInv, NEW r \in Reqs, NEW step,
           doc' = doc, stored' \subseteq stored, step \notin {"rotate", "insert"},
           Reply(r) \/ Goto(r, step)
    PROVE  ExchangeInv'
  <1>1. CASE Reply(r)
    <2>1. Waits(req[r])' /\ ~Rotating(req[r])'
      BY <1>1, OnlyOne DEF Waits, Rotating, Idle
    <2> QED BY <1>1, <2>1, OnlyOne, ExchangeMove
  <1>2. CASE Goto(r, step)
    <2>1. req[r] \in Request /\ req'[r] = [req[r] EXCEPT !.at = step]
      BY <1>2, OnlyOne DEF TypeInv, TypeOK
    <2>2. req'[r].op = req[r].op /\ req'[r].sid = req[r].sid /\ req'[r].at = step
      BY <2>1 DEF Request
    <2>3. Waits(req[r])' /\ ~Rotating(req[r])'
      BY <2>2 DEF Waits, Rotating, ExchangeInv
    <2> QED BY <1>2, <2>3, OnlyOne, ExchangeMove
  <1> QED BY <1>1, <1>2

LEMMA ExchangeArrive ==
    ASSUME IsFiniteSet(Reqs), TypeInv, ExchangeInv, NEW r \in Reqs, Arrive(r)
    PROVE  ExchangeInv'
  <1>1. doc' = doc /\ stored' = stored
    BY DEF Arrive, StartLogin, StartRefresh, StartBearer, StartReset, mongo
  <1> DEFINE Early(q) == (q.op = "login" => q.sid = None) /\ (q.op = "refresh" => q.at = "find")
             Starts == \E op, call : Start(r, op, call) /\ Early(call)
  <1>2. ASSUME NEW u, NEW a, StartLogin(r, u, a) PROVE Starts
    <2> DEFINE call == [Idle EXCEPT !.op = "login", !.at = "insert", !.user = u, !.agent = a]
    <2>1. Early(call)
      BY DEF Idle
    <2> QED BY <1>2, <2>1 DEF StartLogin
  <1>3. ASSUME NEW s, NEW a, StartRefresh(r, s, a) PROVE Starts
    <2> DEFINE call == [Idle EXCEPT !.op = "refresh", !.at = "find", !.sid = s, !.agent = a]
    <2>1. Early(call)
      BY DEF Idle
    <2> QED BY <1>3, <2>1 DEF StartRefresh
  <1>4. ASSUME NEW o \in BearerOps, NEW s, NEW u, NEW targets, StartBearer(r, o, s, u, targets)
        PROVE  Starts
    <2> DEFINE call == [Idle EXCEPT !.op = o, !.at = "userRevoked", !.sid = s,
                                    !.user = u, !.scope = targets]
    <2>1. call.op = o
      BY DEF Idle
    <2>2. Early(call)
      BY <2>1 DEF BearerOps
    <2> QED BY <1>4, <2>2 DEF StartBearer
  <1>5. ASSUME NEW u, StartReset(r, u) PROVE Starts
    <2> DEFINE call == [Idle EXCEPT !.op = "reset", !.at = "setRevoked", !.user = u,
                                    !.stamp = now, !.scope = SessionsOf(u)]
    <2>1. Early(call)
      BY DEF Idle
    <2> QED BY <1>5, <2>1 DEF StartReset
  <1> HIDE DEF Early
  <1>6. Starts
    BY <1>2, <1>3, <1>4, <1>5 DEF Arrive, BearerOps
  <1>7. Early(req'[r])
    BY <1>6, OnlyOne DEF Start
  <1>8. Waits(req[r])' /\ ~Rotating(req[r])'
    BY <1>7 DEF Early, Waits, Rotating
  <1>9. \A p \in Reqs \ {r} : req'[p] = req[p]
    BY OneMoves
  <1> QED BY <1>1, <1>8, <1>9, ExchangeMove

\* Every step that neither admits a refresh nor takes part in the rotation.
LEMMA ExchangeHandlers ==
    ASSUME IsFiniteSet(Reqs), TypeInv, ExchangeInv, NEW r \in Reqs, Step(r),
           ~FindRefresh(r), ~RotateDelete(r), ~InsertSession(r)
    PROVE  ExchangeInv'
  <1>1. CASE \/ CheckUserRevoked(r) \/ CheckBlacklisted(r) \/ ServeRead(r)
             \/ LogoutDelete(r) \/ LogoutCurrentDelete(r) \/ RevokeDelete(r)
             \/ LogoutBlacklist(r) \/ LogoutCurrentBlacklist(r) \/ LogoutAllBlacklist(r)
             \/ DeleteAllSessions(r) \/ RevokeHijacked(r) \/ SignAccess(r)
    <2>1. doc' = doc /\ stored' \subseteq stored
      BY <1>1 DEF CheckUserRevoked, CheckBlacklisted, ServeRead, LogoutDelete,
           LogoutCurrentDelete, RevokeDelete, LogoutBlacklist, LogoutCurrentBlacklist,
           LogoutAllBlacklist, DeleteAllSessions, RevokeHijacked, SignAccess, Deletes,
           DeleteFails, mongo
    <2>2. \E step \in {"blacklisted", "sessionExists", "revokeJWT", "deleteAll"} :
              Reply(r) \/ Goto(r, step)
      BY <1>1 DEF CheckUserRevoked, CheckBlacklisted, ServeRead, LogoutDelete,
           LogoutCurrentDelete, RevokeDelete, LogoutBlacklist, LogoutCurrentBlacklist,
           LogoutAllBlacklist, DeleteAllSessions, RevokeHijacked, SignAccess
    <2> QED BY <2>1, <2>2, ExchangeAside
  <1>2. CASE SetUserRevoked(r)
    <2>1. doc' = doc /\ stored' = stored
      BY <1>2 DEF SetUserRevoked, mongo
    <2>2. \E step \in {"revokeJWT", "deleteAll"} : Reply(r) \/ Goto(r, step)
      BY <1>2 DEF SetUserRevoked, NextAfterRevoke, At
    <2> QED BY <2>1, <2>2, ExchangeAside
  <1>3. CASE CheckSession(r)
    <2>1. doc' = doc /\ stored' = stored /\ req[r].op \in BearerOps
      BY <1>3 DEF CheckSession, At, mongo
    <2>2. CASE Reply(r)
      BY <2>1, <2>2, ExchangeAside
    <2>3. CASE ~Reply(r)
      <3> DEFINE q == [req[r] EXCEPT !.at = FirstStep(req[r].op),
                                     !.scope = Promise(r), !.stamp = Stamp(r)]
      <3>1. req'[r] = q
        BY <1>3, <2>3 DEF CheckSession, TypeInv, TypeOK
      <3>2. q.op = req[r].op
        BY DEF TypeInv, TypeOK, Request
      <3> HIDE DEF q
      <3>3. Waits(req[r])' /\ ~Rotating(req[r])'
        BY <2>1, <3>1, <3>2 DEF Waits, Rotating, BearerOps
      <3> QED BY <2>1, <3>3, OneMoves, ExchangeMove
    <2> QED BY <2>2, <2>3
  <1> QED BY <1>1, <1>2, <1>3 DEF Step

LEMMA ExchangeAdmit ==
    ASSUME ~MongoFaults, IsFiniteSet(Reqs), TypeInv, ExchangeInv, NEW r \in Reqs,
           FindRefresh(r) \/ RotateDelete(r)
    PROVE  ExchangeInv'
  <1>1. req[r] \in Request /\ \A p \in Reqs \ {r} : req'[p] = req[p]
    BY OneMoves DEF TypeInv, TypeOK, Step
  <1>2. CASE FindRefresh(r)
    <2>1. doc' = doc /\ stored' = stored /\ req[r].op = "refresh"
      BY <1>2 DEF FindRefresh, At, mongo
    <2>2. CASE Reply(r)
      BY <2>1, <2>2, ExchangeAside
    <2>3. ASSUME NEW step \in {"rotate", "revokeHijacked"}, NEW S, req[r].sid \in stored,
                 req' = [req EXCEPT ![r].at = step, ![r].scope = S]
          PROVE  ExchangeInv'
      <3>1. req'[r].op = "refresh" /\ req'[r].at = step /\ req'[r].sid = req[r].sid
        BY <1>1, <2>1, <2>3 DEF TypeInv, TypeOK, Request
      <3>2. Waits(req[r])'
        BY <3>1 DEF Waits, Rotating
      <3> QED BY <1>1, <2>1, <2>3, <3>1, <3>2, ExchangeMove
    <2> QED BY <1>2, <2>2, <2>3 DEF FindRefresh, Live
  <1>3. CASE RotateDelete(r)
    <2> DEFINE u == doc[req[r].sid].user
               a == doc[req[r].sid].agent
               q == [req[r] EXCEPT !.at = "insert", !.user = u, !.agent = a]
    <2>1. /\ doc' = doc /\ stored' = stored \ {req[r].sid}
          /\ req[r].op = "refresh" /\ req[r].at = "rotate"
      BY <1>3 DEF RotateDelete, Deletes, DeleteFails, At
    <2>2. q.op = "refresh" /\ q.at = "insert" /\ q.sid = req[r].sid
      <3> HIDE DEF u, a
      <3> QED BY <1>1, <2>1 DEF Request
    <2>3. req'[r] = q
      BY <1>3 DEF RotateDelete, TypeInv, TypeOK
    <2> HIDE DEF q
    <2>4. Waits(req[r])' /\ Rotating(req[r]) /\ req'[r].sid = req[r].sid
      BY <2>1, <2>2, <2>3 DEF Waits, Rotating
    <2> QED BY <1>1, <2>1, <2>4, ExchangeMove
  <1> QED BY <1>2, <1>3

\* The one who inserts a successor gives up its place among those who may.
LEMMA ExchangeInsert ==
    ASSUME ~MongoFaults, IsFiniteSet(Reqs), TypeInv, ExchangeInv, NEW r \in Reqs,
           InsertSession(r)
    PROVE  ExchangeInv'
  <1> DEFINE f == req[r].sid
  <1>1. /\ Fits(req[r]) /\ req[r] \in Request /\ req[r].at = "insert"
        /\ req[r].op \in {"login", "refresh"}
        /\ \A p \in Reqs \ {r} : req'[p] = req[p]
    BY OneMoves DEF TypeInv, TypeOK, InsertSession, At, Step
  <1>2. PICK n \in Sids \ Born :
            /\ doc' = [doc EXCEPT ![n] = [user |-> req[r].user, agent |-> req[r].agent,
                                          from |-> f, expires |-> now + RefreshTTL]]
            /\ stored' = stored \cup {n}
            /\ req' = [req EXCEPT ![r].at = "sign", ![r].new = n]
    BY DEF InsertSession
  <1>3. /\ Born' = Born \cup {n} /\ n \notin Born
        /\ \A m \in Born : doc'[m] = doc[m]
        /\ doc'[n].from = f
    <2>1. [user |-> req[r].user, agent |-> req[r].agent,
           from |-> f, expires |-> now + RefreshTTL] \in Doc
      BY <1>1, TTLAssumption DEF Fits, Request, TypeInv, TypeOK, Doc
    <2> QED BY <1>2, <2>1, InsertGrows DEF Doc
  <1>4. f = None \/ (f \in Born /\ f \notin stored /\ r \in Exchanging(f))
    BY <1>1 DEF ExchangeInv, Fits, Rotating, Exchanging
  <1>5. req'[r].at = "sign" /\ req'[r].op = req[r].op /\ req'[r].sid = f
    BY <1>1, <1>2 DEF TypeInv, TypeOK, Request
  <1> HIDE DEF f
  <1>6. ~Rotating(req[r])' /\ (req'[r].op = "login" => req'[r].sid = None)
    BY <1>5 DEF Rotating, ExchangeInv, f
  <1>7. \A s \in Sids : Heirs(s)' = IF s = f THEN Heirs(s) \cup {n} ELSE Heirs(s)
    BY <1>3 DEF Heirs
  <1>8. \A s \in Sids : Exchanging(s)' = Exchanging(s) \ {r}
    BY <1>1, <1>6 DEF Exchanging, Rotating
  <1>9. stored \subseteq Born /\ Born \subseteq Sids /\ None \notin Sids
    BY SidsAssumption DEF TypeInv, TypeOK, Born
  <1>10. \A m \in Born' : doc'[m].from \in Born' \cup {None}
    BY <1>3, <1>4 DEF ExchangeInv
  <1>11. \A s \in stored' : Heirs(s)' = {}
    <2> SUFFICES ASSUME NEW s \in stored' PROVE Heirs(s)' = {}
      OBVIOUS
    <2>1. s \in Sids /\ s # f
      BY <1>2, <1>3, <1>4, <1>9
    <2>2. Heirs(s) = {}
      <3>1. CASE s \in stored
        BY <3>1 DEF ExchangeInv
      <3>2. CASE s = n
        BY <1>3, <1>9, <3>2 DEF Heirs, ExchangeInv
      <3> QED BY <1>2, <3>1, <3>2
    <2> QED BY <1>7, <2>1, <2>2
  <1>12. \A p \in Reqs : Waits(req[p])'
    <2> SUFFICES ASSUME NEW p \in Reqs PROVE Waits(req[p])'
      OBVIOUS
    <2>1. CASE p = r
      BY <1>6, <2>1 DEF Waits
    <2>2. CASE p # r
      <3>1. req'[p] = req[p] /\ Fits(req[p])
        BY <1>1, <2>2 DEF TypeInv
      <3>2. Rotating(req[p]) => req[p].sid \in Born
        BY <3>1 DEF Fits, Rotating
      <3> QED BY <1>2, <3>1, <3>2 DEF Waits, ExchangeInv, Rotating
    <2> QED BY <2>1, <2>2
  <1>13. ASSUME NEW s \in Sids
         PROVE  /\ IsFiniteSet(Heirs(s)')
                /\ Cardinality(Heirs(s)') + Cardinality(Exchanging(s)') <= Cardinality(Reqs)
    <2>1. /\ IsFiniteSet(Heirs(s)) /\ Cardinality(Heirs(s)) \in Nat
          /\ Cardinality(Heirs(s)) + Cardinality(Exchanging(s)) <= Cardinality(Reqs)
      BY FS_CardinalityType DEF ExchangeInv
    <2>2. /\ Exchanging(s) \in SUBSET Reqs /\ IsFiniteSet(Exchanging(s))
          /\ Cardinality(Exchanging(s)) \in Nat /\ Cardinality(Reqs) \in Nat
      <3>1. Exchanging(s) \in SUBSET Reqs
        BY DEF Exchanging
      <3> QED BY <3>1, FiniteReqs
    <2>3. Cardinality(Exchanging(s) \ {r}) =
              IF r \in Exchanging(s) THEN Cardinality(Exchanging(s)) - 1
              ELSE Cardinality(Exchanging(s))
      BY <2>2, FS_RemoveElement
    <2>4. IsFiniteSet(Heirs(s) \cup {n}) /\ Cardinality(Heirs(s) \cup {n}) \in Nat
          /\ Cardinality(Heirs(s) \cup {n}) <= Cardinality(Heirs(s)) + 1
      <3>1. /\ IsFiniteSet(Heirs(s) \cup {n})
            /\ \/ Cardinality(Heirs(s) \cup {n}) = Cardinality(Heirs(s))
               \/ Cardinality(Heirs(s) \cup {n}) = Cardinality(Heirs(s)) + 1
        BY <2>1, FS_AddElement
      <3> QED BY <2>1, <3>1
    <2>5. CASE s = f
      <3>1. r \in Exchanging(s)
        BY <1>4, <1>9, <2>5
      <3> QED BY <1>7, <1>8, <2>1, <2>2, <2>3, <2>4, <2>5, <3>1
    <2>6. CASE s # f
      <3>1. Heirs(s)' = Heirs(s) /\ Exchanging(s)' = Exchanging(s) \ {r}
        BY <1>7, <1>8, <2>6
      <3>2. /\ Cardinality(Exchanging(s) \ {r}) <= Cardinality(Exchanging(s))
            /\ Cardinality(Exchanging(s) \ {r}) \in Nat
        BY <2>2, FiniteReqs
      <3> QED BY <2>1, <2>2, <3>1, <3>2
    <2> QED BY <2>5, <2>6
  <1> QED BY <1>10, <1>11, <1>12, <1>13 DEF ExchangeInv, Waits

LEMMA ExchangeInvariance ==
    ASSUME ~MongoFaults, IsFiniteSet(Reqs)
    PROVE  Spec => []ExchangeInv
  <1>1. Init => ExchangeInv
    <2> SUFFICES ASSUME Init PROVE ExchangeInv
      OBVIOUS
    <2>1. Born = {} /\ stored = {} /\ \A r \in Reqs : req[r] = Idle
      BY DEF Init, Born
    <2>2. \A s \in Sids : Heirs(s) = {} /\ Exchanging(s) = {}
      BY <2>1 DEF Heirs, Exchanging, Rotating, Idle
    <2>3. Cardinality({}) = 0 /\ IsFiniteSet({}) /\ Cardinality(Reqs) \in Nat
      BY FS_EmptySet, FS_CardinalityType
    <2> QED BY <2>1, <2>2, <2>3 DEF ExchangeInv, Rotating, Idle
  <1>2. TypeInv /\ ExchangeInv /\ [Next]_vars => ExchangeInv'
    <2> SUFFICES ASSUME TypeInv, ExchangeInv, [Next]_vars PROVE ExchangeInv'
      OBVIOUS
    <2>1. CASE UNCHANGED vars
      BY <2>1 DEF vars, ExchangeInv, Heirs, Exchanging, Rotating, Born
    <2>2. ASSUME NEW r \in Reqs, Arrive(r) \/ Step(r) PROVE ExchangeInv'
      BY <2>2, ExchangeArrive, ExchangeHandlers, ExchangeAdmit, ExchangeInsert
    <2>3. CASE Environ
      <3>1. doc' = doc /\ stored' \subseteq stored
        BY <2>3 DEF Environ, Tick, PurgeExpired, Crash, DebugReset, mongo
      <3>2. CASE UNCHANGED req
        BY <3>1, <3>2, ExchangeFrame DEF ExchangeInv, Waits, Rotating
      <3>3. CASE req' = [r \in Reqs |-> Idle]
        <4>1. \A r \in Reqs : Waits(req[r])' /\ ~Rotating(req[r])'
          BY <3>3 DEF Waits, Rotating, Idle
        <4> QED BY <3>1, <4>1, ExchangeFrame
      <3> QED BY <2>3, <3>2, <3>3 DEF Environ, Tick, PurgeExpired, Crash, DebugReset
    <2> QED BY <2>1, <2>2, <2>3 DEF Next, Environ
  <1>3. IInv => TypeInv
    BY DEF IInv
  <1> QED BY <1>1, <1>2, <1>3, Invariance, PTL DEF Spec

\* Find and delete are two commands, so a refresh token can be exchanged more
\* than once; but while MongoDB executes the deletes, never more often than
\* requests overlap: across crashes, hijack checks, logouts and the TTL monitor.
THEOREM ExchangesBounded ==
    ASSUME ~MongoFaults, IsFiniteSet(Reqs)
    PROVE  Spec => [](\A s \in Sids : Cardinality(Heirs(s)) <= Cardinality(Reqs))
  <1>1. ExchangeInv => \A s \in Sids : Cardinality(Heirs(s)) <= Cardinality(Reqs)
    <2> SUFFICES ASSUME ExchangeInv, NEW s \in Sids
                 PROVE  Cardinality(Heirs(s)) <= Cardinality(Reqs)
      OBVIOUS
    <2>1. /\ Cardinality(Heirs(s)) + Cardinality(Exchanging(s)) <= Cardinality(Reqs)
          /\ Cardinality(Heirs(s)) \in Nat
      BY FS_CardinalityType DEF ExchangeInv
    <2>2. Exchanging(s) \in SUBSET Reqs
      BY DEF Exchanging
    <2> QED BY <2>1, <2>2, FiniteReqs
  <1> QED BY <1>1, ExchangeInvariance, PTL

=============================================================================
