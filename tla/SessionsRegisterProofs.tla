----------------------- MODULE SessionsRegisterProofs -----------------------
(***************************************************************************)
(* Sessions implements SessionRegister: every step of a request, of the    *)
(* clock or of a fault is a step of the register or leaves it as it is.    *)
(***************************************************************************)
EXTENDS SessionsProofs

\* What any step does to the collection: documents are only added, an added one
\* is live, a deleted one never returns, and the clock never goes back.
Collection ==
    /\ Monotone
    /\ now' \in Nat /\ now' >= now
    /\ \A s \in Born' \ Born : s \in Live'

LEMMA CollectionStep == IInv /\ [Next]_vars => Collection
  <1> SUFFICES ASSUME IInv, [Next]_vars PROVE Collection
    OBVIOUS
  <1>1. TypeInv /\ now \in Nat
    BY DEF IInv, TypeInv, TypeOK
  <1>2. ASSUME doc' = doc, stored' \subseteq stored, now' = now \/ now' = now + 1
        PROVE  Collection
    BY <1>1, <1>2 DEF Collection, Monotone, Born
  <1>3. ASSUME NEW r \in Reqs, InsertSession(r) PROVE Collection
    <2>1. now' = now
      BY <1>1, <1>3, InsertOutcome
    <2>2. CASE UNCHANGED mongo /\ Reply(r)
      BY <1>2, <2>1, <2>2 DEF mongo
    <2>3. CASE ~(UNCHANGED mongo /\ Reply(r))
      <3>1. PICK n \in Sids \ Born, d \in Doc, q \in Request :
                /\ doc' = [doc EXCEPT ![n] = d] /\ stored' = stored \cup {n}
                /\ d.from = req[r].sid /\ d.expires = now + RefreshTTL
                /\ req' = [req EXCEPT ![r] = q]
                /\ q = Idle \/ q = [req[r] EXCEPT !.at = "sign", !.new = n]
        BY <1>1, <1>3, <2>3, InsertOutcome
      <3>2. /\ Born' = Born \cup {n} /\ doc'[n] = d
            /\ \A s \in Born : doc'[s] = doc[s]
        BY <1>1, <3>1, InsertGrows DEF Doc
      <3>3. n \in Live'
        BY <1>1, <2>1, <3>1, <3>2, TTLAssumption DEF Live
      <3> QED BY <1>1, <2>1, <3>1, <3>2, <3>3 DEF Collection, Monotone
    <2> QED BY <2>2, <2>3
  <1>4. ASSUME NEW r \in Reqs, Arrive(r) PROVE Collection
    BY <1>2, <1>4 DEF Arrive, StartLogin, StartRefresh, StartBearer, StartReset, mongo
  <1>5. ASSUME NEW r \in Reqs, Step(r), ~InsertSession(r) PROVE Collection
    <2>1. doc' = doc /\ now' = now
      BY <1>5 DEF Step, CheckUserRevoked, CheckBlacklisted, CheckSession, ServeRead,
                  LogoutDelete, LogoutCurrentDelete, RevokeDelete, LogoutBlacklist,
                  LogoutCurrentBlacklist, LogoutAllBlacklist, SetUserRevoked,
                  DeleteAllSessions, FindRefresh, RevokeHijacked, RotateDelete, SignAccess,
                  mongo
    <2>2. stored' \subseteq stored
      BY <1>5 DEF Step, CheckUserRevoked, CheckBlacklisted, CheckSession, ServeRead,
                  LogoutDelete, LogoutCurrentDelete, RevokeDelete, LogoutBlacklist,
                  LogoutCurrentBlacklist, LogoutAllBlacklist, SetUserRevoked,
                  DeleteAllSessions, FindRefresh, RevokeHijacked, RotateDelete, SignAccess,
                  mongo, Deletes, DeleteFails
    <2> QED BY <1>2, <2>1, <2>2
  <1>6. CASE Environ
    BY <1>2, <1>6 DEF Environ, Tick, PurgeExpired, Crash, DebugReset, mongo
  <1>7. CASE UNCHANGED vars
    BY <1>2, <1>7 DEF vars
  <1> QED BY <1>3, <1>4, <1>5, <1>6, <1>7 DEF Next, Environ

-----------------------------------------------------------------------------
\* A session is unborn, open or closed, and only moves forward.
LEMMA StatusMoves ==
    ASSUME IInv, TypeInv', Collection, NEW s \in Sids
    PROVE  /\ Status(s)' \in {"unborn", "open", "closed"}
           /\ \/ Status(s)' = Status(s)
              \/ Status(s) = "unborn" /\ Status(s)' = "open"
              \/ Status(s) = "open" /\ Status(s)' = "closed"
  <1>1. stored \subseteq Born /\ stored' \subseteq Born' /\ TypeInv
    BY DEF IInv, TypeInv, TypeOK
  <1>2. CASE s \notin Born
    BY <1>1, <1>2 DEF Collection, Status, Live
  <1>3. CASE s \in Born
    <2>1. s \in Born' /\ doc'[s] = doc[s] /\ (s \in stored' => s \in stored)
      BY <1>3 DEF Collection, Monotone
    <2>2. doc[s].expires \in Nat /\ now \in Nat /\ now' \in Nat /\ now' >= now
      BY <1>1, <1>3 DEF Collection, TypeInv, TypeOK, Born
    <2>3. s \in Live' => s \in Live
      BY <2>1, <2>2 DEF Live
    <2> QED BY <1>3, <2>1, <2>3 DEF Status
  <1> QED BY <1>2, <1>3

LEMMA EndedGrows ==
    ASSUME [Next]_vars
    PROVE  ended \subseteq ended'
  BY DEF Next, Arrive, Step, StartLogin, StartRefresh, StartBearer, StartReset,
         CheckUserRevoked, CheckBlacklisted, CheckSession, ServeRead, LogoutDelete,
         LogoutCurrentDelete, RevokeDelete, LogoutBlacklist, LogoutCurrentBlacklist,
         LogoutAllBlacklist, SetUserRevoked, DeleteAllSessions, FindRefresh,
         RevokeHijacked, RotateDelete, InsertSession, SignAccess, Tick, PurgeExpired,
         Crash, DebugReset, vars, acks

\* A request that moves to an unprivileged step is served for nobody.
LEMMA NotServed ==
    ASSUME NEW r \in Reqs, req'[r] = Idle \/ req'[r].at \notin GrantedSteps
    PROVE  Serving(r)' = None
  BY DEF Serving, Idle, GrantedSteps

\* A request that stays privileged is served for the same session.
LEMMA StillServed ==
    ASSUME NEW r \in Reqs, req[r].at \in GrantedSteps, req'[r].sid = req[r].sid
    PROVE  Serving(r)' \in {Serving(r), None}
  BY DEF Serving

\* A step of a request keeps its session, drops it, or is one of the two
\* checks that let a request through; those change nothing else.
LEMMA ServingMoves ==
    ASSUME TypeInv, NEW r \in Reqs, Arrive(r) \/ Step(r)
    PROVE  \/ Serving(r)' \in {Serving(r), None}
           \/ /\ req[r].sid \in Live
              /\ Serving(r) = None /\ Serving(r)' = req[r].sid
              /\ UNCHANGED <<now, mongo, acks>>
  <1> DEFINE Same == Serving(r)' \in {Serving(r), None}
  <1>0. req[r] \in Request
    BY DEF TypeInv, TypeOK
  <1>1. CASE Arrive(r)
    <2>1. \/ req'[r].at \in {"find", "userRevoked"}
          \/ req'[r].at \in {"insert", "setRevoked"} /\ req'[r].sid = None
      <3>1. ASSUME NEW u, NEW a, StartLogin(r, u, a)
            PROVE  req'[r].at = "insert" /\ req'[r].sid = None
        BY <3>1 DEF StartLogin, Start, Idle, TypeInv, TypeOK
      <3>2. ASSUME NEW s, NEW a, StartRefresh(r, s, a) PROVE req'[r].at = "find"
        BY <3>2 DEF StartRefresh, Start, Idle, TypeInv, TypeOK
      <3>3. ASSUME NEW op, NEW s, NEW u, NEW targets, StartBearer(r, op, s, u, targets)
            PROVE  req'[r].at = "userRevoked"
        BY <3>3 DEF StartBearer, Start, Idle, TypeInv, TypeOK
      <3>4. ASSUME NEW u, StartReset(r, u)
            PROVE  req'[r].at = "setRevoked" /\ req'[r].sid = None
        BY <3>4 DEF StartReset, Start, Idle, TypeInv, TypeOK
      <3> QED BY <1>1, <3>1, <3>2, <3>3, <3>4 DEF Arrive
    <2> QED BY <2>1 DEF Serving, GrantedSteps
  <1>2. CASE CheckUserRevoked(r) \/ CheckBlacklisted(r)
    <2>1. Reply(r) \/ Goto(r, "blacklisted") \/ Goto(r, "sessionExists")
      BY <1>2 DEF CheckUserRevoked, CheckBlacklisted
    <2>2. ASSUME NEW step \in {"blacklisted", "sessionExists"}, Goto(r, step)
          PROVE  req'[r].at \notin GrantedSteps
      <3>1. req'[r] = [req[r] EXCEPT !.at = step]
        BY <2>2, OnlyOne
      <3>2. req'[r].at = step
        BY <1>0, <3>1 DEF Request
      <3> QED BY <3>2 DEF GrantedSteps
    <2> QED BY <2>1, <2>2, OnlyOne, NotServed
  <1>3. ASSUME Reply(r) PROVE Same
    BY <1>3, OnlyOne, NotServed
  <1>4. ASSUME NEW step, Goto(r, step), req[r].at \in GrantedSteps PROVE Same
    <2>1. req'[r].sid = req[r].sid
      BY <1>0, <1>4, OnlyOne DEF Request
    <2> QED BY <1>4, <2>1, StillServed
  <1>5. CASE CheckSession(r)
    <2>1. CASE Reply(r)
      BY <1>3, <2>1
    <2>2. CASE ~Reply(r)
      <3>1. /\ At(r, BearerOps, "sessionExists") /\ req[r].sid \in Live
            /\ UNCHANGED <<now, mongo, acks>>
            /\ req' = [req EXCEPT ![r].at = FirstStep(req[r].op),
                                  ![r].scope = Promise(r), ![r].stamp = Stamp(r)]
        BY <1>5, <2>2 DEF CheckSession
      <3>2. FirstStep(req[r].op) \in GrantedSteps
        BY <3>1 DEF At, FirstStep, BearerOps, GrantedSteps
      <3>3. ASSUME NEW step, NEW scope, NEW stamp,
                   req' = [req EXCEPT ![r].at = step, ![r].scope = scope, ![r].stamp = stamp]
            PROVE  req'[r].at = step /\ req'[r].sid = req[r].sid
        BY <1>0, <3>3 DEF TypeInv, TypeOK, Request
      <3>4. req'[r].at = FirstStep(req[r].op) /\ req'[r].sid = req[r].sid
        BY <3>1, <3>3
      <3> QED BY <3>1, <3>2, <3>4 DEF Serving, At, GrantedSteps
    <2> QED BY <2>1, <2>2
  <1>6. CASE FindRefresh(r)
    <2>1. CASE Reply(r)
      BY <1>3, <2>1
    <2>2. CASE ~Reply(r)
      <3>1. /\ req[r].at = "find" /\ req[r].sid \in Live /\ UNCHANGED <<now, mongo, acks>>
            /\ \E step \in {"rotate", "revokeHijacked"} : \E scope :
                   req' = [req EXCEPT ![r].at = step, ![r].scope = scope]
        BY <1>6, <2>2 DEF FindRefresh, At
      <3>2. req'[r].at \in {"rotate", "revokeHijacked"} /\ req'[r].sid = req[r].sid
        BY <1>0, <3>1 DEF TypeInv, TypeOK, Request
      <3> QED BY <3>1, <3>2 DEF Serving, GrantedSteps
    <2> QED BY <2>1, <2>2
  <1>7. CASE RotateDelete(r)
    <2>1. ASSUME NEW u, NEW a,
                 req' = [req EXCEPT ![r].at = "insert", ![r].user = u, ![r].agent = a]
          PROVE  req'[r].sid = req[r].sid
      BY <1>0, <2>1 DEF TypeInv, TypeOK, Request
    <2>2. req'[r].sid = req[r].sid
      BY <1>7, <2>1 DEF RotateDelete
    <2> QED BY <1>7, <2>2, StillServed DEF RotateDelete, At, GrantedSteps
  <1>8. CASE InsertSession(r)
    <2>1. CASE Reply(r)
      BY <1>3, <2>1
    <2>2. CASE ~Reply(r)
      <3>1. PICK n : req' = [req EXCEPT ![r].at = "sign", ![r].new = n]
        BY <1>8, <2>2 DEF InsertSession
      <3>2. req'[r].sid = req[r].sid
        BY <1>0, <3>1 DEF TypeInv, TypeOK, Request
      <3> QED BY <1>8, <3>2, StillServed DEF InsertSession, At, GrantedSteps
    <2> QED BY <2>1, <2>2
  <1>9. CASE \/ ServeRead(r) \/ LogoutDelete(r) \/ LogoutCurrentDelete(r) \/ RevokeDelete(r)
             \/ LogoutBlacklist(r) \/ LogoutCurrentBlacklist(r) \/ LogoutAllBlacklist(r)
             \/ SetUserRevoked(r) \/ DeleteAllSessions(r) \/ RevokeHijacked(r) \/ SignAccess(r)
    <2>1. req[r].at \in GrantedSteps
      BY <1>9 DEF ServeRead, LogoutDelete, LogoutCurrentDelete, RevokeDelete, LogoutBlacklist,
                  LogoutCurrentBlacklist, LogoutAllBlacklist, SetUserRevoked,
                  DeleteAllSessions, RevokeHijacked, SignAccess, At, GrantedSteps
    <2>2. Reply(r) \/ Goto(r, "revokeJWT") \/ Goto(r, "deleteAll")
      BY <1>9 DEF ServeRead, LogoutDelete, LogoutCurrentDelete, RevokeDelete, LogoutBlacklist,
                  LogoutCurrentBlacklist, LogoutAllBlacklist, SetUserRevoked, NextAfterRevoke,
                  DeleteAllSessions, RevokeHijacked, SignAccess, At
    <2> QED BY <1>3, <1>4, <2>1, <2>2
  <1> QED BY <1>1, <1>2, <1>5, <1>6, <1>7, <1>8, <1>9 DEF Step

-----------------------------------------------------------------------------
LEMMA InitMaps == Init => Register!Init
  <1> SUFFICES ASSUME Init PROVE Register!Init
    OBVIOUS
  <1>1. \A s \in Sids : Status(s) = "unborn"
    BY DEF Init, Status, Born
  <1>2. \A r \in Reqs : Serving(r) = None
    BY DEF Init, Serving, Idle, GrantedSteps
  <1> QED BY <1>1, <1>2 DEF Init, Register!Init

\* Every step is a grant of the register, a move of it, or invisible to it.
LEMMA StepMaps == IInv /\ IInv' /\ [Next]_vars => [Register!Next]_Register!vars
  <1> SUFFICES ASSUME IInv, IInv', [Next]_vars PROVE [Register!Next]_Register!vars
    OBVIOUS
  <1>1. TypeInv /\ TypeInv' /\ Collection /\ EndedStayDead'
    BY CollectionStep DEF IInv
  <1>2. \A s \in Sids : /\ Status(s)' \in {"unborn", "open", "closed"}
                       /\ \/ Status(s)' = Status(s)
                          \/ Status(s) = "unborn" /\ Status(s)' = "open"
                          \/ Status(s) = "open" /\ Status(s)' = "closed"
    BY <1>1, StatusMoves
  <1>3. \A r \in Reqs : Serving(r)' \in Sids \cup {None}
    BY <1>1 DEF Serving, TypeInv, TypeOK, Request
  <1>4. ended \subseteq ended' /\ ended' \subseteq Sids
    BY <1>1, EndedGrows DEF TypeInv, TypeOK, Born
  <1>5. \A s \in ended' \ ended : Status(s)' = "closed"
    BY <1>1 DEF EndedStayDead, TypeInv, TypeOK, Status, Live
  <1>6. ASSUME \A r \in Reqs : Serving(r)' \in {Serving(r), None} PROVE Register!Next
    BY <1>2, <1>3, <1>4, <1>5, <1>6 DEF Register!Next, Register!Advance, Register!Forward
  <1>7. ASSUME NEW r \in Reqs, Arrive(r) \/ Step(r) PROVE Register!Next
    <2>1. \A p \in Reqs \ {r} : Serving(p)' = Serving(p)
      BY <1>1, <1>7, OneMoves DEF Serving
    <2>2. CASE Serving(r)' \in {Serving(r), None}
      BY <1>6, <2>1, <2>2
    <2>3. CASE /\ req[r].sid \in Live
               /\ Serving(r) = None /\ Serving(r)' = req[r].sid
               /\ UNCHANGED <<now, mongo, acks>>
      <3>1. req[r].sid \in Sids /\ Status(req[r].sid) = "open"
        BY <1>1, <2>3 DEF Status, Live, Born, TypeInv, TypeOK
      <3>2. \A s \in Sids : Status(s)' = Status(s)
        BY <2>3 DEF Status, Live, Born, mongo
      <3>3. Register!Grant(r, req[r].sid)
        BY <2>1, <2>3, <3>1, <3>2 DEF Register!Grant, acks
      <3> QED BY <3>1, <3>3 DEF Register!Next
    <2> QED BY <1>1, <1>7, <2>2, <2>3, ServingMoves
  <1>8. CASE UNCHANGED req
    BY <1>6, <1>8 DEF Serving
  <1>9. CASE Crash
    <2>1. \A r \in Reqs : Serving(r)' = None
      BY <1>9, NotServed DEF Crash
    <2> QED BY <1>6, <2>1
  <1> QED BY <1>7, <1>8, <1>9 DEF Next, vars, Tick, PurgeExpired, DebugReset

\* Whatever the number of users, sessions and requests, and whatever fails, the
\* handlers behave like a register that opens and closes each session once,
\* serves a request only for an open session and acknowledges real ends only.
THEOREM Refinement == Spec => ImplementsRegister
  <1>1. Spec => []IInv
    BY Invariance
  <1> QED BY <1>1, InitMaps, StepMaps, PTL DEF Spec, ImplementsRegister, Register!Spec

=============================================================================
