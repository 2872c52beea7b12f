--------------------------- MODULE AccountsProofs ---------------------------
(***************************************************************************)
(* Proofs about Accounts, for every number of accounts, tokens and         *)
(* requests: one account per address, a reset is final, a spent token is   *)
(* refused, a Google login is for the identity bound to the account, which *)
(* keeps it; how often a reset token can be used; and the refinement of    *)
(* Directory.                                                              *)
(*                                                                         *)
(* IInv says what a request in flight knows.  ChangeInv adds, while the    *)
(* update that marks a token is executed, that the uses of a token and the *)
(* resets that still may use it are together no more than there are        *)
(* requests.                                                               *)
(***************************************************************************)
EXTENDS Accounts, FiniteSetTheorems, TLAPS

-----------------------------------------------------------------------------
(* What a step does to the request that makes it *)

\* The step of r changes where r is and what it has found, not what was asked.
Moved(r) ==
    /\ req' \in [Reqs -> Request]
    /\ \A s \in Reqs \ {r} : req'[s] = req[s]
    /\ req'[r].op = req[r].op /\ req'[r].email = req[r].email
    /\ req'[r].password = req[r].password /\ req'[r].sub = req[r].sub
    /\ req'[r].token = req[r].token /\ req'[r].old = req[r].old

Replied(r) ==
    /\ req' \in [Reqs -> Request]
    /\ \A s \in Reqs \ {r} : req'[s] = req[s]
    /\ req'[r] = Idle

\* A request with another position and another finding is a request.
LEMMA RequestFields ==
    ASSUME NEW q \in Request, NEW at \in Steps, NEW a \in Accounts \cup {None},
           NEW p \in Passwords \cup {None}
    PROVE  /\ [q EXCEPT !.at = at] \in Request
           /\ [q EXCEPT !.at = at, !.account = a] \in Request
           /\ [q EXCEPT !.at = at, !.account = a, !.seen = p] \in Request
<1>1. [q EXCEPT !.at = at] \in Request
  BY DEF Request
<1>2. [q EXCEPT !.at = at, !.account = a] \in Request
  BY DEF Request
<1>3. [q EXCEPT !.at = at, !.account = a, !.seen = p] \in Request
  BY DEF Request
<1> QED
  BY <1>1, <1>2, <1>3

LEMMA IdleRequest == Idle \in Request /\ Idle.op = "none" /\ Idle.at = "idle" /\ Idle.old = None
  BY DEF Idle, Request, Steps

LEMMA GotoMoves ==
    ASSUME req \in [Reqs -> Request], NEW r \in Reqs, NEW at \in Steps, Goto(r, at)
    PROVE  Moved(r) /\ req'[r].at = at /\ req'[r].account = req[r].account
<1>1. req' = [req EXCEPT ![r] = [req[r] EXCEPT !.at = at]]
  BY DEF Goto
<1>2. req[r] \in Request /\ [req[r] EXCEPT !.at = at] \in Request
  BY RequestFields
<1>3. req' \in [Reqs -> Request] /\ \A s \in Reqs \ {r} : req'[s] = req[s]
  BY <1>1, <1>2
<1>4. req'[r] = [req[r] EXCEPT !.at = at]
  BY <1>1
<1> QED
  BY <1>2, <1>3, <1>4 DEF Moved, Request

LEMMA FindMoves ==
    ASSUME req \in [Reqs -> Request], NEW r \in Reqs, NEW at \in Steps, NEW a \in Accounts,
           req' = [req EXCEPT ![r].at = at, ![r].account = a]
    PROVE  Moved(r) /\ req'[r].at = at /\ req'[r].account = a
<1>1. req' = [req EXCEPT ![r] = [req[r] EXCEPT !.at = at, !.account = a]]
  OBVIOUS
<1>2. req[r] \in Request /\ [req[r] EXCEPT !.at = at, !.account = a] \in Request
  BY RequestFields
<1>3. req' \in [Reqs -> Request] /\ \A s \in Reqs \ {r} : req'[s] = req[s]
  BY <1>1, <1>2
<1>4. req'[r] = [req[r] EXCEPT !.at = at, !.account = a]
  BY <1>1
<1> QED
  BY <1>2, <1>3, <1>4 DEF Moved, Request

LEMMA FoundMoves ==
    ASSUME req \in [Reqs -> Request], NEW r \in Reqs, NEW at \in Steps, NEW a \in Accounts,
           user[a] \in User, Found(r, a, at)
    PROVE  Moved(r) /\ req'[r].at = at /\ req'[r].account = a
<1> DEFINE p == user[a].password
<1>0. p \in Passwords \cup {None}
  BY DEF User
<1>1. req' = [req EXCEPT ![r] = [req[r] EXCEPT !.at = at, !.account = a, !.seen = p]]
  BY DEF Found
<1> HIDE DEF p
<1>2. req[r] \in Request /\ [req[r] EXCEPT !.at = at, !.account = a, !.seen = p] \in Request
  BY <1>0, RequestFields
<1>3. req' \in [Reqs -> Request] /\ \A s \in Reqs \ {r} : req'[s] = req[s]
  BY <1>1, <1>2
<1>4. req'[r] = [req[r] EXCEPT !.at = at, !.account = a, !.seen = p]
  BY <1>1
<1> QED
  BY <1>2, <1>3, <1>4 DEF Moved, Request

LEMMA ReplyMoves ==
    ASSUME req \in [Reqs -> Request], NEW r \in Reqs, Reply(r)
    PROVE  Replied(r)
  BY IdleRequest DEF Reply, Replied

-----------------------------------------------------------------------------
(* The inductive invariant *)

\* What a request needs at the step it is at.
Fits(r) ==
    LET q == req[r]
    IN  /\ q.op \in {"signup", "login", "google", "forgot"} => q.email \in Emails
        /\ q.op \in {"signup", "reset"} => q.password \in Passwords
        /\ q.op = "google" => q.sub \in Subs
        /\ q.op = "reset" => q.token \in Tokens /\ token[q.token] # None
        /\ q.at \in {"upgrade", "reload", "session", "token"} => q.account \in Minted

\* Tokens are those of accounts.
TokensFit == \A t \in Tokens : token[t] # None => token[t].user \in Minted

TypeInv == TypeOK /\ (\A r \in Reqs : Fits(r)) /\ TokensFit

\* A password on its way is known to nobody else: not stored, not replaced, not
\* carried by another request.
Carries(r) == req[r].op \in {"signup", "reset"}
Unique(r) ==
    LET p == req[r].password
    IN  /\ p \in chosen /\ p # TestPassword
        /\ \A a \in Minted : user[a].password # p
        /\ \A a \in Accounts : p \notin dead[a]
        /\ \A s \in Reqs : req[s].old # p
        /\ \A s \in Reqs \ {r} : Carries(s) => req[s].password # p

PasswordInv ==
    /\ \A r \in Reqs : Carries(r) => Unique(r)
    /\ \A a \in Minted : user[a].password \in chosen \cup {None}
    /\ \A a \in Accounts : dead[a] \subseteq chosen \cup {None}
    /\ \A a \in Accounts \ Minted : dead[a] = {}
    /\ \A r \in Reqs : req[r].old \in chosen \cup {None}
    /\ TestPassword \in chosen
    /\ DeadPasswordsStayDead

\* A token is marked before a password is stored with it, if that is executed.
Marked(t) == token[t] # None /\ ("markUsed" \notin Faulty => token[t].used)
SpentInv ==
    /\ \A t \in spent : Marked(t)
    /\ \A r \in Reqs : At(r, {"reset"}, "setPassword") => Marked(req[r].token)

\* Accounts made by a Google login are bound to an identity from the start; a request
\* at its session step has an account bound to its own.
GoogleFits(r) ==
    LET a == req[r].account
    IN  req[r].op = "google" =>
          /\ req[r].at = "upgrade" => a \in Old /\ user[a].provider = "google"
          /\ req[r].at \in {"reload", "session"} => Bound(a, req[r].sub)

GoogleInv ==
    /\ \A a \in Minted \ Old : user[a].provider = "google" => user[a].sub # None
    /\ \A r \in Reqs : GoogleFits(r)

IInv == TypeInv /\ UniqueEmails /\ PasswordInv /\ SpentInv /\ GoogleInv

\* The initial state satisfies the invariant.
LEMMA InitInv == ASSUME Init PROVE IInv
<1>1. /\ req = [r \in Reqs |-> Idle] /\ token = [t \in Tokens |-> None] /\ spent = {}
      /\ chosen = {TestPassword} /\ dead = [a \in Accounts |-> {}] /\ changes = [t \in Tokens |-> 0]
      /\ user \in [Accounts -> {None} \cup {OldUser(Lower[e]) : e \in Emails}] /\ now = 1
  BY DEF Init
<1>2. \A e \in Emails : /\ OldUser(Lower[e]) \in User /\ OldUser(Lower[e]).password = None
  BY TextAssumption DEF OldUser, User
<1>3. user \in [Accounts -> User \cup {None}] /\ \A a \in Minted : user[a].password = None
  BY <1>1, <1>2 DEF Minted
<1>4. TypeOK
  BY <1>1, <1>3, IdleRequest, TestAssumption DEF TypeOK
<1>5. \A r \in Reqs : req[r] = Idle /\ Fits(r) /\ ~Carries(r) /\ GoogleFits(r)
  BY <1>1, IdleRequest DEF Fits, Carries, GoogleFits, Bound
<1>6. TokensFit /\ SpentInv
  BY <1>1, <1>5, IdleRequest DEF TokensFit, SpentInv, At
<1>7. PasswordInv
  <2>1. \A a \in Accounts : dead[a] = {}
    BY <1>1
  <2>2. \A r \in Reqs : req[r].old = None
    BY <1>5, IdleRequest
  <2> QED
    BY <2>1, <2>2, <1>1, <1>3, <1>5 DEF PasswordInv, DeadPasswordsStayDead, Existing, Minted
<1>8. UniqueEmails /\ \A a \in Minted \ Old : FALSE
  BY DEF Init, UniqueEmails, Existing, Minted
<1> QED
  BY <1>4, <1>5, <1>6, <1>7, <1>8 DEF IInv, TypeInv, GoogleInv

-----------------------------------------------------------------------------
(* Steps that change nothing but a request *)

\* Nothing is known of the passwords on their way when requests only end.
LEMMA PasswordFrame ==
    ASSUME IInv, UNCHANGED <<user, chosen, dead>>,
           \A s \in Reqs : /\ Carries(s)' => Carries(s) /\ req'[s].password = req[s].password
                          /\ req'[s].old \in {req[s].old, None}
    PROVE  PasswordInv'
<1>1. None \notin chosen
  BY NoneAssumption DEF IInv, TypeInv, TypeOK
<1>2. ASSUME NEW s \in Reqs, Carries(s)'  PROVE Unique(s)'
  <2>1. Carries(s) /\ Unique(s) /\ req'[s].password = req[s].password
    BY <1>2 DEF IInv, PasswordInv
  <2>2. Minted' = Minted
    BY DEF Minted
  <2> QED
    BY <2>1, <2>2, <1>1 DEF Unique
<1> QED
  BY <1>2 DEF IInv, PasswordInv, DeadPasswordsStayDead, Minted, Existing

\* A request that moves on or arrives, and brings no password along.
LEMMA QuietStep ==
    ASSUME IInv, UNCHANGED <<now, user, token, ghosts>>, NEW r \in Reqs,
           req' \in [Reqs -> Request], \A s \in Reqs \ {r} : req'[s] = req[s],
           Fits(r)', GoogleFits(r)',
           Carries(r)' => Carries(r) /\ req'[r].password = req[r].password,
           req'[r].old \in {req[r].old, None},
           req'[r].at # "setPassword"
    PROVE  IInv'
<1>1. UNCHANGED <<now, user, token, spent, changes, chosen, dead>>
  BY DEF ghosts
<1>2. ASSUME NEW s \in Reqs  PROVE Fits(s)' /\ GoogleFits(s)'
  <2>1. CASE s = r
    BY <2>1
  <2>2. CASE s # r
    BY <2>2, <1>1 DEF IInv, TypeInv, GoogleInv, Fits, GoogleFits, Bound, Minted
  <2> QED
    BY <2>1, <2>2
<1>3. TypeOK'
  <2>1. \A s \in Reqs : req'[s].at \in {"reload", "session"} => req'[s].account \in Minted'
    BY <1>2 DEF Fits
  <2> QED
    BY <2>1, <1>1 DEF IInv, TypeInv, TypeOK
<1>4. TokensFit' /\ UniqueEmails' /\ DeadPasswordsStayDead'
  BY <1>1 DEF IInv, TypeInv, TokensFit, UniqueEmails, PasswordInv, DeadPasswordsStayDead, Minted, WithEmail, Existing
<1>5. \A s \in Reqs : /\ Carries(s)' => Carries(s) /\ req'[s].password = req[s].password
                     /\ req'[s].old \in {req[s].old, None}
  BY DEF Carries
<1>8. PasswordInv'
  BY <1>1, <1>5, PasswordFrame
<1>9. SpentInv'
  BY <1>1 DEF IInv, SpentInv, Marked, At
<1>10. GoogleInv'
  BY <1>1, <1>2 DEF IInv, GoogleInv, Minted
<1> QED
  BY <1>2, <1>3, <1>4, <1>8, <1>9, <1>10 DEF IInv, TypeInv

\* The answer to a request.
LEMMA QuietReply ==
    ASSUME IInv, UNCHANGED <<now, user, token, ghosts>>, NEW r \in Reqs, Reply(r)
    PROVE  IInv'
<1>1. Replied(r)
  BY ReplyMoves DEF IInv, TypeInv, TypeOK
<1> QED
  BY <1>1, IdleRequest, QuietStep DEF Replied, Fits, GoogleFits, Bound, Carries

\* A request at its next step, for what it asked.
LEMMA QuietMove ==
    ASSUME IInv, UNCHANGED <<now, user, token, ghosts>>, NEW r \in Reqs, Moved(r), GoogleFits(r)',
           req'[r].at \in {"upgrade", "reload", "session", "token"} => req'[r].account \in Minted,
           req'[r].at # "setPassword"
    PROVE  IInv'
<1>1. Fits(r)'
  BY DEF IInv, TypeInv, Fits, Moved, Minted
<1>2. Carries(r)' => Carries(r)
  BY DEF Carries, Moved
<1> QED
  BY <1>1, <1>2, QuietStep DEF Moved

-----------------------------------------------------------------------------
(* Steps, one lemma per group *)

\* Requests that arrive without a password of their own choice.
LEMMA ArriveSteps ==
    ASSUME IInv, NEW r \in Reqs, NEW e \in Emails,
           \/ \E p \in Passwords : StartLogin(r, e, p)
           \/ \E s \in Subs : StartGoogle(r, e, s)
           \/ StartForgot(r, e)
    PROVE  IInv'
<1> DEFINE Asks(q) == /\ q \in Request /\ q.at = "find" /\ q.old = None /\ q.email \in Emails
                      /\ q.op \in {"login", "google", "forgot"}
                      /\ q.op = "google" => q.sub \in Subs
           Arrives(q) == req' = [req EXCEPT ![r] = q] /\ UNCHANGED <<now, user, token, ghosts>>
<1>1. ASSUME NEW p \in Passwords, StartLogin(r, e, p)  PROVE \E q : Asks(q) /\ Arrives(q)
  <2> DEFINE q == [Idle EXCEPT !.op = "login", !.at = "find", !.email = e,
                               !.password = Trim[p]]
  <2>1. Asks(q)
    BY TextAssumption DEF Idle, Request, Steps
  <2>2. Arrives(q)
    BY <1>1 DEF StartLogin, Start
  <2> QED
    BY <2>1, <2>2
<1>2. ASSUME NEW s \in Subs, StartGoogle(r, e, s)  PROVE \E q : Asks(q) /\ Arrives(q)
  <2> DEFINE q == [Idle EXCEPT !.op = "google", !.at = "find", !.email = Lower[e],
                               !.sub = s, !.password = Blank]
  <2>1. Asks(q)
    BY TextAssumption DEF Idle, Request, Steps
  <2>2. Arrives(q)
    BY <1>2 DEF StartGoogle, Start
  <2> QED
    BY <2>1, <2>2
<1>3. ASSUME StartForgot(r, e)  PROVE \E q : Asks(q) /\ Arrives(q)
  <2> DEFINE q == [Idle EXCEPT !.op = "forgot", !.at = "find", !.email = e]
  <2>1. Asks(q)
    BY DEF Idle, Request, Steps
  <2>2. Arrives(q)
    BY <1>3 DEF StartForgot, Start
  <2> QED
    BY <2>1, <2>2
<1>4. PICK q : Asks(q) /\ Arrives(q)
  BY <1>1, <1>2, <1>3
<1>5. /\ req' \in [Reqs -> Request] /\ req'[r] = q
      /\ \A t \in Reqs \ {r} : req'[t] = req[t]
  BY <1>4 DEF IInv, TypeInv, TypeOK
<1>6. Fits(r)' /\ GoogleFits(r)' /\ ~Carries(r)'
  BY <1>4, <1>5 DEF Fits, GoogleFits, Bound, Carries
<1> QED
  BY <1>4, <1>5, <1>6, QuietStep

\* The debug route is called.
LEMMA StartDebugStep ==
    ASSUME IInv, NEW r \in Reqs, StartDebug(r)
    PROVE  IInv'
<1> DEFINE q == [Idle EXCEPT !.op = "debug", !.at = "delete"]
<1>1. q \in Request /\ q.op = "debug" /\ q.at = "delete" /\ q.old = None
  BY DEF Idle, Request, Steps
<1>2. req' = [req EXCEPT ![r] = q] /\ UNCHANGED <<now, user, token, ghosts>>
  BY DEF StartDebug, Start
<1> HIDE DEF q
<1>3. /\ req' \in [Reqs -> Request] /\ req'[r] = q
      /\ \A t \in Reqs \ {r} : req'[t] = req[t]
  BY <1>1, <1>2 DEF IInv, TypeInv, TypeOK
<1> QED
  BY <1>1, <1>2, <1>3, QuietStep DEF Fits, GoogleFits, Carries

\* Signup: the count.
LEMMA CountStep ==
    ASSUME IInv, NEW r \in Reqs, CountEmail(r)
    PROVE  IInv'
<1>1. UNCHANGED <<now, user, token, ghosts>> /\ (Reply(r) \/ Goto(r, "insert"))
      /\ req[r].op = "signup" /\ req \in [Reqs -> Request]
  BY DEF CountEmail, At, IInv, TypeInv, TypeOK
<1>2. CASE Reply(r)
  BY <1>1, <1>2, QuietReply
<1>3. CASE Goto(r, "insert")
  <2>1. Moved(r) /\ req'[r].at = "insert"
    BY <1>1, <1>3, GotoMoves DEF Steps
  <2> QED
    BY <2>1, <1>1, QuietMove DEF Moved, GoogleFits, Bound
<1> QED
  BY <1>1, <1>2, <1>3

\* What an account found by its address is.
LEMMA Accounted ==
    ASSUME IInv, NEW a \in Minted
    PROVE  /\ a \in Accounts /\ user[a] \in User
           /\ a \notin Old /\ user[a].provider = "google" => user[a].sub # None
  BY DEF IInv, TypeInv, TypeOK, GoogleInv, Minted

\* Login, forgot password: the query.
LEMMA FindSteps ==
    ASSUME IInv, NEW r \in Reqs, FindByEmail(r) \/ FindForgotten(r)
    PROVE  IInv'
<1>1. /\ UNCHANGED <<now, user, token, ghosts>> /\ req \in [Reqs -> Request]
      /\ req[r].op \in {"login", "forgot"}
  BY DEF FindByEmail, FindForgotten, At, IInv, TypeInv, TypeOK
<1>2. CASE Reply(r)
  BY <1>1, <1>2, QuietReply
<1>3. ASSUME NEW a \in Minted, Moved(r), req'[r].account = a,
             req'[r].at \in {"session", "token"}
      PROVE  IInv'
  BY <1>1, <1>3, QuietMove DEF Moved, GoogleFits, Bound
<1>4. ASSUME NEW a \in Minted, Found(r, a, "session")  PROVE IInv'
  BY <1>1, <1>3, <1>4, Accounted, FoundMoves DEF Steps
<1>5. ASSUME NEW a \in Minted, req' = [req EXCEPT ![r].at = "token", ![r].account = a]
      PROVE  IInv'
  BY <1>1, <1>3, <1>5, Accounted, FindMoves DEF Steps
<1> QED
  BY <1>2, <1>4, <1>5 DEF FindByEmail, FindForgotten, WithEmail, Existing, Minted

\* Google login: the query.
LEMMA FindGoogleStep ==
    ASSUME IInv, NEW r \in Reqs, FindGoogleUser(r)
    PROVE  IInv'
<1>1. /\ UNCHANGED <<now, user, token, ghosts>> /\ req \in [Reqs -> Request]
      /\ req[r].op = "google"
  BY DEF FindGoogleUser, At, IInv, TypeInv, TypeOK
<1>2. CASE Reply(r)
  BY <1>1, <1>2, QuietReply
<1>3. CASE Goto(r, "insert")
  <2>1. Moved(r) /\ req'[r].at = "insert"
    BY <1>1, <1>3, GotoMoves DEF Steps
  <2> QED
    BY <2>1, <1>1, QuietMove DEF Moved, GoogleFits, Bound
<1>4. ASSUME NEW a \in Minted, user[a].provider = "google", user[a].sub = None,
             Found(r, a, "upgrade")
      PROVE  IInv'
  <2>1. Moved(r) /\ req'[r].at = "upgrade" /\ req'[r].account = a /\ a \in Old
    BY <1>1, <1>4, Accounted, FoundMoves DEF Steps
  <2>2. GoogleFits(r)'
    BY <2>1, <1>1, <1>4 DEF GoogleFits, Bound
  <2> QED
    BY <2>1, <2>2, <1>1, QuietMove
<1>5. ASSUME NEW a \in Minted, ~Refused(user[a], req[r].sub), ~Unbound(user[a]),
             Found(r, a, "session")
      PROVE  IInv'
  <2>1. Moved(r) /\ req'[r].at = "session" /\ req'[r].account = a
    BY <1>1, <1>5, Accounted, FoundMoves DEF Steps
  <2>2. GoogleFits(r)'
    BY <2>1, <1>1, <1>5, Accounted DEF GoogleFits, Bound, Moved, Refused, Unbound, User
  <2> QED
    BY <2>1, <2>2, <1>1, QuietMove
<1>6. \A a \in WithEmail(req[r].email) : a \in Minted
  BY DEF WithEmail, Existing
<1>7. CASE \E a \in WithEmail(req[r].email) : Unbound(user[a]) /\ Found(r, a, "upgrade")
  BY <1>4, <1>6, <1>7 DEF Unbound
<1>8. CASE \E a \in WithEmail(req[r].email) :
             /\ ~Refused(user[a], req[r].sub) /\ ~Unbound(user[a])
             /\ Found(r, a, "session")
  BY <1>5, <1>6, <1>8
<1> QED
  BY <1>2, <1>3, <1>7, <1>8 DEF FindGoogleUser

\* Google login: the account is read again.
LEMMA ReloadStep ==
    ASSUME IInv, NEW r \in Reqs, ReloadUser(r)
    PROVE  IInv'
<1> DEFINE a == req[r].account
<1>1. /\ UNCHANGED <<now, user, token, ghosts>> /\ req \in [Reqs -> Request]
      /\ req[r].op = "google" /\ req[r].at = "reload"
      /\ Found(r, a, "session") \/ Goto(r, "session")
  BY DEF ReloadUser, At, IInv, TypeInv, TypeOK
<1>2. a \in Minted /\ a \in Accounts /\ user[a] \in User /\ GoogleFits(r)
  BY <1>1, Accounted DEF IInv, TypeInv, Fits, GoogleInv
<1>3. Moved(r) /\ req'[r].at = "session" /\ req'[r].account = a
  BY <1>1, <1>2, FoundMoves, GotoMoves DEF Steps
<1>4. GoogleFits(r)'
  BY <1>1, <1>2, <1>3 DEF GoogleFits, Bound, Moved
<1> QED
  BY <1>1, <1>2, <1>3, <1>4, QuietMove

\* Password reset: the token is looked up.
LEMMA FindTokenStep ==
    ASSUME IInv, NEW r \in Reqs, FindToken(r)
    PROVE  IInv'
<1>1. UNCHANGED <<now, user, token, ghosts>> /\ (Reply(r) \/ Goto(r, "markUsed"))
      /\ req[r].op = "reset" /\ req \in [Reqs -> Request]
  BY DEF FindToken, At, IInv, TypeInv, TypeOK
<1>2. CASE Reply(r)
  BY <1>1, <1>2, QuietReply
<1>3. CASE Goto(r, "markUsed")
  <2>1. Moved(r) /\ req'[r].at = "markUsed"
    BY <1>1, <1>3, GotoMoves DEF Steps
  <2> QED
    BY <2>1, <1>1, QuietMove DEF Moved, GoogleFits, Bound
<1> QED
  BY <1>1, <1>2, <1>3

-----------------------------------------------------------------------------
(* Steps that bring a password *)

\* A request that carries a password chosen for it.
LEMMA ChooseStep ==
    ASSUME IInv, NEW r \in Reqs, NEW q \in Request, req[r] = Idle, req' = [req EXCEPT ![r] = q],
           q.op \in {"signup", "reset"}, q.at \in {"count", "consume"},
           q.password \in Passwords, Choose(q.password),
           q.old \in {None} \cup {user[a].password : a \in Minted},
           UNCHANGED <<now, user, token, spent, changes, dead>>, Fits(r)'
    PROVE  IInv'
<1> DEFINE p == q.password
<1>1. /\ req \in [Reqs -> Request] /\ req' \in [Reqs -> Request] /\ req'[r] = q
      /\ \A s \in Reqs \ {r} : req'[s] = req[s]
  BY DEF IInv, TypeInv, TypeOK
<1>2. p \notin chosen /\ chosen' = chosen \cup {p} /\ p # None /\ None \notin chosen
      /\ chosen \subseteq Passwords
  BY NoneAssumption DEF Choose, IInv, TypeInv, TypeOK
<1>3. Minted' = Minted
  BY DEF Minted
<1>4. ASSUME NEW s \in Reqs  PROVE Fits(s)' /\ GoogleFits(s)'
  <2>1. CASE s = r
    BY <2>1, <1>1 DEF GoogleFits, Bound
  <2>2. CASE s # r
    BY <2>2, <1>1, <1>3 DEF IInv, TypeInv, GoogleInv, Fits, GoogleFits, Bound
  <2> QED
    BY <2>1, <2>2
<1>5. TypeInv'
  <2>1. \A s \in Reqs : req'[s].at \in {"reload", "session"} => req'[s].account \in Minted'
    BY <1>4 DEF Fits
  <2>2. TypeOK'
    BY <2>1, <1>1, <1>2 DEF IInv, TypeInv, TypeOK
  <2>3. TokensFit'
    BY <1>3 DEF IInv, TypeInv, TokensFit
  <2> QED
    BY <2>2, <2>3, <1>4 DEF TypeInv
<1>6. /\ \A a \in Minted : user[a].password \in chosen \cup {None}
      /\ \A a \in Accounts : dead[a] \subseteq chosen \cup {None}
      /\ \A s \in Reqs : req[s].old \in chosen \cup {None}
      /\ \A s \in Reqs : Carries(s) => Unique(s)
      /\ TestPassword \in chosen
  BY DEF IInv, PasswordInv
<1>7. \A s \in Reqs : req'[s].old \in chosen \cup {None}
  BY <1>1, <1>6
<1>8. ASSUME NEW s \in Reqs, Carries(s)'  PROVE Unique(s)'
  <2>1. CASE s = r
    <3>1. \A t \in Reqs \ {r} : Carries(t)' => req'[t].password \in chosen
      BY <1>1, <1>6 DEF Carries, Unique
    <3> QED
      BY <2>1, <3>1, <1>1, <1>2, <1>3, <1>6, <1>7 DEF Unique
  <2>2. CASE s # r
    <3>1. Carries(s) /\ Unique(s) /\ req'[s] = req[s]
      BY <2>2, <1>1, <1>6, <1>8 DEF Carries
    <3>2. \A t \in Reqs : req'[t].old # req[s].password
      BY <3>1, <1>1, <1>2 DEF Unique
    <3>3. \A t \in Reqs \ {s} : Carries(t)' => req'[t].password # req[s].password
      BY <3>1, <1>1, <1>2 DEF Unique, Carries
    <3> QED
      BY <3>1, <3>2, <3>3, <1>2, <1>3 DEF Unique
  <2> QED
    BY <2>1, <2>2
<1>9. PasswordInv'
  BY <1>2, <1>3, <1>6, <1>7, <1>8 DEF IInv, PasswordInv, DeadPasswordsStayDead, Existing, Minted
<1>10. SpentInv'
  BY <1>1 DEF IInv, SpentInv, Marked, At
<1>11. GoogleInv' /\ UniqueEmails'
  BY <1>3, <1>4 DEF IInv, GoogleInv, UniqueEmails, Existing, Minted
<1> QED
  BY <1>5, <1>9, <1>10, <1>11 DEF IInv

LEMMA StartSignupStep ==
    ASSUME IInv, NEW r \in Reqs, NEW e \in Emails, NEW p \in Passwords, StartSignup(r, e, p)
    PROVE  IInv'
<1> DEFINE q == [Idle EXCEPT !.op = "signup", !.at = "count", !.email = e, !.password = p]
<1>1. /\ q \in Request /\ q.op = "signup" /\ q.at = "count" /\ q.email = e
      /\ q.password = p /\ q.old = None
  BY DEF Idle, Request, Steps
<1>2. /\ req[r] = Idle /\ req' = [req EXCEPT ![r] = q] /\ Choose(p)
      /\ UNCHANGED <<now, user, token, spent, changes, dead>>
  BY DEF StartSignup, Start
<1> HIDE DEF q
<1>3. Fits(r)'
  BY <1>1, <1>2 DEF Fits, IInv, TypeInv, TypeOK
<1> QED
  BY <1>1, <1>2, <1>3, ChooseStep

LEMMA StartResetStep ==
    ASSUME IInv, NEW r \in Reqs, NEW t \in Tokens, NEW p \in Passwords, StartReset(r, t, p)
    PROVE  IInv'
<1> DEFINE old == user[token[t].user].password
           q == [Idle EXCEPT !.op = "reset", !.at = "consume", !.token = t, !.password = p,
                             !.old = old]
<1>1. token[t] # None /\ token[t].user \in Minted
  BY DEF StartReset, IInv, TypeInv, TokensFit
<1>2. old \in Passwords \cup {None}
  BY <1>1, Accounted DEF User
<1>3. old \in {user[a].password : a \in Minted}
  BY <1>1
<1>4. /\ req[r] = Idle /\ req' = [req EXCEPT ![r] = q] /\ Choose(p)
      /\ UNCHANGED <<now, user, token, spent, changes, dead>>
  BY DEF StartReset, Start
<1> HIDE DEF old
<1>5. /\ q \in Request /\ q.op = "reset" /\ q.at = "consume" /\ q.token = t
      /\ q.password = p /\ q.old = old
  BY <1>2 DEF Idle, Request, Steps
<1> HIDE DEF q
<1>6. Fits(r)'
  BY <1>1, <1>4, <1>5 DEF Fits, IInv, TypeInv, TypeOK
<1> QED
  BY <1>3, <1>4, <1>5, <1>6, ChooseStep

-----------------------------------------------------------------------------
(* Steps that change accounts *)

\* A new document in the users collection.
LEMMA InsertStep ==
    ASSUME IInv, NEW r \in Reqs, NEW a \in Accounts \ (Minted \cup Old), NEW u \in User,
           u.stored, WithEmail(u.email) = {}, user' = [user EXCEPT ![a] = u],
           \/ u.password \in {None, TestPassword}
           \/ req[r].op = "signup" /\ u.password = req[r].password,
           u.provider = "google" => u.sub # None,
           \/ /\ req[r].op = "google" /\ Moved(r) /\ req'[r].at = "session" /\ req'[r].account = a
              /\ u.provider = "google" /\ u.sub = req[r].sub
           \/ Replied(r),
           UNCHANGED <<now, token, ghosts>>
    PROVE  IInv'
<1>0. UNCHANGED <<now, token, spent, changes, chosen, dead>>
  BY DEF ghosts
<1>1. /\ req \in [Reqs -> Request] /\ user \in [Accounts -> User \cup {None}]
      /\ Fits(r) /\ a \in Accounts /\ u # None
  BY NoneIsNoDocument DEF IInv, TypeInv, TypeOK
<1>3. /\ user' \in [Accounts -> User \cup {None}] /\ user'[a] = u
      /\ Minted' = Minted \cup {a} /\ a \notin Minted /\ a \notin Old
      /\ \A b \in Minted : user'[b] = user[b]
  BY <1>1 DEF Minted
<1>5. /\ req' \in [Reqs -> Request] /\ \A s \in Reqs \ {r} : req'[s] = req[s]
      /\ \A s \in Reqs : /\ Carries(s)' => Carries(s) /\ s # r /\ req'[s] = req[s]
                         /\ req'[s].old \in {req[s].old, None}
  BY IdleRequest DEF Moved, Replied, Carries
<1>6. ASSUME NEW s \in Reqs  PROVE Fits(s)' /\ GoogleFits(s)'
  <2>1. CASE s = r
    BY <2>1, <1>0, <1>1, <1>3, IdleRequest DEF Fits, GoogleFits, Bound, Moved, Replied
  <2>2. CASE s # r
    <3>1. Fits(s) /\ GoogleFits(s) /\ req'[s] = req[s]
      BY <2>2, <1>5 DEF IInv, TypeInv, GoogleInv
    <3> QED
      BY <3>1, <1>0, <1>3 DEF Fits, GoogleFits, Bound
  <2> QED
    BY <2>1, <2>2
<1>7. TypeInv'
  <2>1. \A s \in Reqs : req'[s].at \in {"reload", "session"} => req'[s].account \in Minted'
    BY <1>6 DEF Fits
  <2>2. TypeOK'
    BY <2>1, <1>0, <1>3, <1>5 DEF IInv, TypeInv, TypeOK
  <2>3. TokensFit'
    BY <1>0, <1>3 DEF IInv, TypeInv, TokensFit
  <2> QED
    BY <2>2, <2>3, <1>6 DEF TypeInv
<1>8. UniqueEmails'
  <2>1. Existing' = Existing \cup {a} /\ a \notin Existing /\ Existing \subseteq Minted
    BY <1>3 DEF Existing
  <2>2. \A b \in Existing : user[b].email # u.email
    BY DEF WithEmail
  <2> QED
    BY <2>1, <2>2, <1>3 DEF IInv, UniqueEmails
<1>9. /\ u.password \in chosen \cup {None} /\ dead[a] = {} /\ None \notin chosen
      /\ \A s \in Reqs : Carries(s) /\ s # r => u.password # req[s].password
  BY <1>1, <1>3, NoneAssumption DEF IInv, TypeInv, TypeOK, PasswordInv, Carries, Unique
<1>10. ASSUME NEW s \in Reqs, Carries(s)'  PROVE Unique(s)'
  <2>1. Carries(s) /\ s # r /\ req'[s] = req[s] /\ Unique(s)
    BY <1>5, <1>10 DEF IInv, PasswordInv
  <2>2. u.password # req[s].password
    BY <2>1, <1>9
  <2>3. \A b \in Minted' : user'[b].password # req[s].password
    BY <2>1, <2>2, <1>3 DEF Unique
  <2>4. \A t \in Reqs : req'[t].old # req[s].password
    BY <2>1, <1>5, <1>9 DEF Unique
  <2> QED
    BY <2>1, <2>3, <2>4, <1>0, <1>5 DEF Unique
<1>11. PasswordInv'
  <2>1. \A b \in Minted' : user'[b].password \in chosen \cup {None}
    BY <1>3, <1>9 DEF IInv, PasswordInv
  <2>2. \A b \in Existing' : user'[b].password \notin dead[b]
    BY <1>3, <1>9 DEF IInv, PasswordInv, DeadPasswordsStayDead, Existing
  <2> QED
    BY <2>1, <2>2, <1>0, <1>3, <1>5, <1>10 DEF IInv, PasswordInv, DeadPasswordsStayDead
<1>12. SpentInv'
  BY <1>0, <1>5, IdleRequest DEF IInv, SpentInv, Marked, At, Moved, Replied
<1>13. GoogleInv'
  BY <1>1, <1>3, <1>6 DEF IInv, GoogleInv
<1> QED
  BY <1>7, <1>8, <1>11, <1>12, <1>13 DEF IInv

LEMMA InsertUserStep ==
    ASSUME IInv, NEW r \in Reqs, InsertUser(r)
    PROVE  IInv'
<1>1. CASE Reply(r) /\ UNCHANGED user
  BY <1>1, QuietReply DEF InsertUser
<1>2. ASSUME NEW a \in Accounts \ (Minted \cup Old), WithEmail(req[r].email) = {}, Inserted(r, a)
      PROVE  IInv'
  <2> DEFINE u == NewUser(r)
  <2>1. /\ req \in [Reqs -> Request] /\ Fits(r) /\ req[r].op \in {"signup", "google"}
        /\ UNCHANGED <<now, token, ghosts>> /\ user' = [user EXCEPT ![a] = u]
    BY <1>2 DEF InsertUser, Inserted, At, IInv, TypeInv, TypeOK
  <2>2. /\ u \in User /\ u.stored /\ u.email = req[r].email
        /\ u.password = (IF req[r].op = "signup" THEN req[r].password ELSE None)
        /\ req[r].op = "google" => u.provider = "google" /\ u.sub = req[r].sub /\ u.sub # None
        /\ req[r].op = "signup" => u.provider = "password"
    BY <2>1, NoneAssumption DEF NewUser, Fits, User, Request
  <2> HIDE DEF u
  <2>3. \/ req[r].op = "google" /\ Moved(r) /\ req'[r].at = "session" /\ req'[r].account = a
        \/ Replied(r)
    BY <1>2, <2>1, FindMoves, ReplyMoves DEF Inserted, Steps
  <2> QED
    BY <1>2, <2>1, <2>2, <2>3, InsertStep
<1> QED
  BY <1>1, <1>2 DEF InsertUser

\* The debug route makes its account.
LEMMA RecreateStep ==
    ASSUME IInv, NEW r \in Reqs, RecreateTestUser(r)
    PROVE  IInv'
<1>1. UNCHANGED <<now, token, ghosts>> /\ Reply(r) /\ Replied(r)
  BY ReplyMoves DEF RecreateTestUser, IInv, TypeInv, TypeOK
<1>2. CASE UNCHANGED user
  BY <1>1, <1>2, QuietReply
<1>3. ASSUME NEW a \in Accounts \ (Minted \cup Old), WithEmail(TestEmail) = {},
             user' = [user EXCEPT ![a] = TestUser]
      PROVE  IInv'
  <2>1. /\ TestUser \in User /\ TestUser.stored /\ TestUser.email = TestEmail
        /\ TestUser.password = TestPassword /\ TestUser.provider # "google"
    BY TestAssumption, NoneAssumption DEF TestUser, User
  <2> QED
    BY <1>1, <1>3, <2>1, InsertStep
<1> QED
  BY <1>2, <1>3 DEF RecreateTestUser

\* A document keeps its address and its provider, may be deleted, and never comes
\* back.
LEMMA UserFrame ==
    ASSUME IInv, NEW x \in Minted, NEW u \in User,
           user' = [user EXCEPT ![x] = u], u.email = user[x].email,
           u.provider = user[x].provider, u.stored => user[x].stored,
           u.sub = user[x].sub \/ x \in Old
    PROVE  /\ user' \in [Accounts -> User \cup {None}] /\ Minted' = Minted
           /\ Existing' \subseteq Existing /\ UniqueEmails'
           /\ user'[x] = u /\ \A b \in Minted \ {x} : user'[b] = user[b]
           /\ \A b \in Minted : /\ user'[b].provider = user[b].provider
                                /\ user'[b].sub = user[b].sub \/ b \in Old
<1>1. /\ user \in [Accounts -> User \cup {None}] /\ u # None /\ x \in Accounts
      /\ Minted \subseteq Accounts
  BY NoneIsNoDocument DEF IInv, TypeInv, TypeOK, Minted
<1>2. user'[x] = u /\ \A b \in Accounts \ {x} : user'[b] = user[b]
  BY <1>1
<1>3. user' \in [Accounts -> User \cup {None}] /\ Minted' = Minted
  BY <1>1, <1>2 DEF Minted
<1>4. Existing' \subseteq Existing /\ \A b \in Existing : user'[b].email = user[b].email
  BY <1>1, <1>2, <1>3 DEF Existing
<1> QED
  BY <1>1, <1>2, <1>3, <1>4 DEF IInv, UniqueEmails

\* A request changes the identity of an account, or deletes it, and moves on.
LEMMA UserStep ==
    ASSUME IInv, NEW r \in Reqs, NEW x \in Minted, NEW u \in User,
           user' = [user EXCEPT ![x] = u], u.email = user[x].email,
           u.provider = user[x].provider, u.password = user[x].password,
           u.stored => user[x].stored,
           u.sub = user[x].sub \/ x \in Old,
           UNCHANGED <<now, token, ghosts>>, Moved(r), req'[r].account = req[r].account,
           \/ req[r].op = "google" /\ req[r].at = "upgrade" /\ req'[r].at = "reload"
           \/ req[r].op = "debug" /\ req'[r].at = "recreate"
    PROVE  IInv'
<1>1. /\ user' \in [Accounts -> User \cup {None}] /\ Minted' = Minted
      /\ Existing' \subseteq Existing /\ UniqueEmails'
      /\ user'[x] = u /\ \A b \in Minted \ {x} : user'[b] = user[b]
      /\ \A b \in Minted : /\ user'[b].provider = user[b].provider
                           /\ user'[b].sub = user[b].sub \/ b \in Old
  BY UserFrame
<1>0. \A b \in Minted : user'[b].password = user[b].password
  BY <1>1
<1>2. UNCHANGED <<now, token, spent, changes, chosen, dead>>
  BY DEF ghosts
<1>3. /\ req' \in [Reqs -> Request]
      /\ \A s \in Reqs : /\ req'[s].op = req[s].op /\ req'[s].email = req[s].email
                         /\ req'[s].password = req[s].password /\ req'[s].sub = req[s].sub
                         /\ req'[s].token = req[s].token /\ req'[s].old = req[s].old
                         /\ req'[s].account = req[s].account
                         /\ s # r => req'[s] = req[s]
  BY DEF Moved
<1>4. ASSUME NEW s \in Reqs  PROVE Fits(s)' /\ GoogleFits(s)'
  <2>1. Fits(s) /\ GoogleFits(s)
    BY DEF IInv, TypeInv, GoogleInv
  <2>2. CASE s = r
    BY <2>1, <2>2, <1>1, <1>2, <1>3, NoneAssumption DEF Fits, GoogleFits, Bound, Moved
  <2>3. CASE s # r
    BY <2>1, <2>3, <1>1, <1>2, <1>3 DEF Fits, GoogleFits, Bound
  <2> QED
    BY <2>2, <2>3
<1>5. TypeInv'
  <2>1. \A s \in Reqs : req'[s].at \in {"reload", "session"} => req'[s].account \in Minted'
    BY <1>4 DEF Fits
  <2>2. TypeOK' /\ TokensFit'
    BY <2>1, <1>1, <1>2, <1>3 DEF IInv, TypeInv, TypeOK, TokensFit
  <2> QED
    BY <2>2, <1>4 DEF TypeInv
<1>6. GoogleInv'
  BY <1>1, <1>4 DEF IInv, GoogleInv
<1>7. PasswordInv'
  <2>1. \A s \in Reqs : Carries(s)' <=> Carries(s)
    BY <1>3 DEF Carries
  <2>2. Existing \subseteq Minted
    BY DEF Existing
  <2>3. DeadPasswordsStayDead'
    BY <2>2, <1>0, <1>1, <1>2 DEF IInv, PasswordInv, DeadPasswordsStayDead
  <2> QED
    BY <2>1, <2>3, <1>0, <1>1, <1>2, <1>3 DEF IInv, PasswordInv, Unique
<1>8. SpentInv'
  BY <1>2, <1>3 DEF IInv, SpentInv, Marked, At
<1> QED
  BY <1>1, <1>5, <1>6, <1>7, <1>8 DEF IInv

\* An account of old gets its identity, unless it is gone.
LEMMA UpgradeStep ==
    ASSUME IInv, NEW r \in Reqs, UpgradeSub(r)
    PROVE  IInv'
<1> DEFINE a == req[r].account
<1>1. /\ req \in [Reqs -> Request] /\ user \in [Accounts -> User \cup {None}]
      /\ req[r].op = "google" /\ req[r].at = "upgrade" /\ Fits(r) /\ GoogleFits(r)
      /\ UNCHANGED <<now, token, ghosts>> /\ Goto(r, "reload")
  BY DEF UpgradeSub, At, IInv, TypeInv, TypeOK, GoogleInv
<1>2. /\ a \in Minted /\ a \in Accounts /\ user[a] \in User /\ a \in Old
      /\ user[a].provider = "google" /\ req[r].sub \in Subs
  BY <1>1, Accounted DEF Fits, GoogleFits
<1>3. Moved(r) /\ req'[r].at = "reload" /\ req'[r].account = a
  BY <1>1, GotoMoves DEF Steps
<1>4. CASE UNCHANGED user
  <2>1. GoogleFits(r)'
    BY <1>2, <1>3, <1>4 DEF GoogleFits, Bound
  <2> QED
    BY <2>1, <1>1, <1>2, <1>3, <1>4, QuietMove
<1>5. CASE user' = [user EXCEPT ![a].sub = req[r].sub]
  <2> DEFINE u == [user[a] EXCEPT !.sub = req[r].sub]
  <2>1. /\ u \in User /\ u.email = user[a].email /\ u.provider = user[a].provider
        /\ u.password = user[a].password /\ u.stored = user[a].stored
    BY <1>2 DEF User
  <2>2. user' = [user EXCEPT ![a] = u]
    BY <1>5
  <2> HIDE DEF u
  <2> QED
    BY <2>1, <2>2, <1>1, <1>2, <1>3, UserStep
<1> QED
  BY <1>4, <1>5 DEF UpgradeSub

\* The debug route deletes the account with its address, if there is one.
LEMMA RemoveStep ==
    ASSUME IInv, NEW r \in Reqs, RemoveTestUser(r)
    PROVE  IInv'
<1>1. /\ req \in [Reqs -> Request] /\ req[r].op = "debug"
      /\ UNCHANGED <<now, token, ghosts>> /\ Goto(r, "recreate")
  BY DEF RemoveTestUser, At, IInv, TypeInv, TypeOK
<1>2. Moved(r) /\ req'[r].at = "recreate" /\ req'[r].account = req[r].account
  BY <1>1, GotoMoves DEF Steps
<1>3. CASE UNCHANGED user
  BY <1>1, <1>2, <1>3, QuietMove DEF GoogleFits, Moved
<1>4. ASSUME NEW a \in Minted, user' = [user EXCEPT ![a].stored = FALSE]
      PROVE  IInv'
  <2> DEFINE u == [user[a] EXCEPT !.stored = FALSE]
  <2>1. /\ u \in User /\ u.email = user[a].email /\ u.provider = user[a].provider
        /\ u.password = user[a].password /\ u.sub = user[a].sub /\ u.stored = FALSE
    BY Accounted DEF User
  <2>2. user' = [user EXCEPT ![a] = u]
    BY <1>4
  <2> HIDE DEF u
  <2> QED
    BY <2>1, <2>2, <1>1, <1>2, UserStep
<1>5. WithEmail(TestEmail) \subseteq Minted
  BY DEF WithEmail, Existing
<1> QED
  BY <1>3, <1>4, <1>5 DEF RemoveTestUser

-----------------------------------------------------------------------------
(* Steps that change tokens and passwords *)

\* A token made, marked or purged, by a request that ends or moves on.
LEMMA TokenStep ==
    ASSUME IInv, UNCHANGED <<user, ghosts>>, NEW t \in Tokens, NEW k \in Token,
           token' = [token EXCEPT ![t] = k], k.user \in Minted,
           token[t] # None => k.user = token[t].user /\ (token[t].used => k.used),
           now' \in Nat, req' \in [Reqs -> Request],
           \A s \in Reqs : /\ Fits(s) /\ GoogleFits(s) => Fits(s)' /\ GoogleFits(s)'
                           /\ Carries(s)' => Carries(s) /\ req'[s].password = req[s].password
                           /\ req'[s].old \in {req[s].old, None}
                           /\ At(s, {"reset"}, "setPassword")' => Marked(req[s].token)'
    PROVE  IInv'
<1>1. UNCHANGED <<user, spent, changes, chosen, dead>> /\ Minted' = Minted
  BY DEF ghosts, Minted
<1>2. /\ token \in [Tokens -> Token \cup {None}] /\ token' \in [Tokens -> Token \cup {None}]
      /\ token'[t] = k /\ k # None /\ \A j \in Tokens \ {t} : token'[j] = token[j]
  BY NoneIsNoDocument DEF IInv, TypeInv, TypeOK
<1>3. \A s \in Reqs : Fits(s)' /\ GoogleFits(s)'
  BY DEF IInv, TypeInv, GoogleInv
<1>4. TypeInv'
  <2>1. \A s \in Reqs : req'[s].at \in {"reload", "session"} => req'[s].account \in Minted'
    BY <1>3 DEF Fits
  <2>2. TypeOK'
    BY <2>1, <1>1, <1>2 DEF IInv, TypeInv, TypeOK
  <2>3. TokensFit'
    BY <1>1, <1>2 DEF IInv, TypeInv, TokensFit
  <2> QED
    BY <2>2, <2>3, <1>3 DEF TypeInv
<1>5. UniqueEmails' /\ GoogleInv'
  BY <1>1, <1>3 DEF IInv, UniqueEmails, GoogleInv, Existing, Minted
<1>6. PasswordInv'
  BY <1>1, PasswordFrame
<1>7. SpentInv'
  <2>1. ASSUME NEW j \in spent  PROVE Marked(j)'
    <3>1. j \in Tokens /\ Marked(j)
      BY DEF IInv, TypeInv, TypeOK, SpentInv
    <3> QED
      BY <3>1, <1>2 DEF Marked
  <2> QED
    BY <2>1, <1>1 DEF SpentInv
<1> QED
  BY <1>4, <1>5, <1>6, <1>7 DEF IInv

\* Forgot password: the token.
LEMMA CreateStep ==
    ASSUME IInv, NEW r \in Reqs, CreateToken(r)
    PROVE  IInv'
<1>1. /\ req \in [Reqs -> Request] /\ now \in Nat /\ UNCHANGED <<now, user, ghosts>>
      /\ Reply(r) /\ Replied(r) /\ req[r].at = "token" /\ Fits(r)
  BY ReplyMoves DEF CreateToken, At, IInv, TypeInv, TypeOK
<1>2. CASE UNCHANGED token
  BY <1>1, <1>2, QuietReply
<1>3. ASSUME NEW t \in Tokens, token[t] = None,
             token' = [token EXCEPT ![t] = [user |-> req[r].account, used |-> FALSE,
                                            expires |-> now + TokenTTL, stored |-> TRUE]]
      PROVE  IInv'
  <2> DEFINE k == [user |-> req[r].account, used |-> FALSE,
                   expires |-> now + TokenTTL, stored |-> TRUE]
  <2>1. k \in Token /\ k.user \in Minted
    BY <1>1, TimeAssumption DEF Token, Fits, Minted
  <2>2. token' = [token EXCEPT ![t] = k]
    BY <1>3
  <2> HIDE DEF k
  <2>3. token \in [Tokens -> Token \cup {None}] /\ k # None /\ Minted' = Minted
    BY <1>1, <2>1, NoneIsNoDocument DEF IInv, TypeInv, TypeOK, Minted
  <2>4. \A j \in Tokens : token[j] # None => token'[j] # None
    BY <2>2, <2>3
  <2>5. ASSUME NEW s \in Reqs
        PROVE  /\ Fits(s) /\ GoogleFits(s) => Fits(s)' /\ GoogleFits(s)'
               /\ Carries(s)' => Carries(s) /\ req'[s].password = req[s].password
               /\ req'[s].old \in {req[s].old, None}
               /\ At(s, {"reset"}, "setPassword")' => Marked(req[s].token)'
    <3>1. CASE s = r
      BY <3>1, <1>1, IdleRequest DEF Replied, Fits, GoogleFits, Bound, Carries, At
    <3>2. CASE s # r
      <4>1. req'[s] = req[s]
        BY <3>2, <1>1 DEF Replied
      <4>2. Marked(req[s].token) /\ req[s].token \in Tokens => Marked(req[s].token)'
        BY <4>1, <1>3, <2>2, <2>3 DEF Marked
      <4>3. At(s, {"reset"}, "setPassword") => Marked(req[s].token) /\ req[s].token \in Tokens
        BY DEF IInv, SpentInv, TypeInv, Fits, At
      <4> QED
        BY <4>1, <4>2, <4>3, <2>3, <2>4, <1>1 DEF Fits, GoogleFits, Bound, Carries, At
    <3> QED
      BY <3>1, <3>2
  <2>6. now' \in Nat /\ req' \in [Reqs -> Request]
    BY <1>1 DEF Replied
  <2> QED
    BY <2>1, <2>2, <2>5, <2>6, <1>1, <1>3, TokenStep
<1> QED
  BY <1>2, <1>3 DEF CreateToken

\* Password reset: the token is marked, unless the update is lost.
LEMMA MarkStep ==
    ASSUME IInv, NEW r \in Reqs, MarkUsed(r)
    PROVE  IInv'
<1> DEFINE t == req[r].token
           k == [token[t] EXCEPT !.used = TRUE]
<1>1. /\ req \in [Reqs -> Request] /\ now \in Nat /\ UNCHANGED <<now, user, ghosts>>
      /\ req[r].op = "reset" /\ Fits(r) /\ GoogleFits(r) /\ Goto(r, "setPassword")
  BY DEF MarkUsed, At, IInv, TypeInv, TypeOK, GoogleInv
<1>2. Moved(r) /\ req'[r].at = "setPassword"
  BY <1>1, GotoMoves DEF Steps
<1>3. /\ t \in Tokens /\ token[t] # None /\ token[t] \in Token /\ token[t].user \in Minted
      /\ token \in [Tokens -> Token \cup {None}]
  BY <1>1 DEF Fits, IInv, TypeInv, TypeOK, TokensFit
<1>4. k \in Token /\ k # None /\ k.used = TRUE /\ k.user = token[t].user
  BY <1>3, NoneIsNoDocument DEF Token
<1>5. PICK j \in {token[t], k} : /\ token' = [token EXCEPT ![t] = j]
                                 /\ "markUsed" \notin Faulty => j.used
  <2>1. CASE token' = [token EXCEPT ![t].used = TRUE]
    BY <2>1, <1>4
  <2>2. CASE "markUsed" \in Faulty /\ UNCHANGED token
    BY <2>2, <1>3
  <2> QED
    BY <2>1, <2>2 DEF MarkUsed
<1> HIDE DEF k
<1>6. /\ j \in Token /\ j # None /\ j.user = token[t].user
      /\ token[t].used => j.used
  BY <1>3, <1>4, <1>5, NoneIsNoDocument
<1> HIDE DEF t
<1>7. Minted' = Minted /\ \A i \in Tokens : token[i] # None => token'[i] # None
  BY <1>1, <1>3, <1>5, <1>6 DEF Minted
<1>8. \A i \in Tokens : Marked(i) => Marked(i)'
  BY <1>3, <1>5, <1>6 DEF Marked
<1>9. Marked(req[r].token)'
  <2>1. req'[r].token = t
    BY <1>2 DEF Moved, t
  <2> QED
    BY <2>1, <1>3, <1>5, <1>6 DEF Marked
<1>10. ASSUME NEW s \in Reqs
      PROVE  /\ Fits(s) /\ GoogleFits(s) => Fits(s)' /\ GoogleFits(s)'
             /\ Carries(s)' => Carries(s) /\ req'[s].password = req[s].password
             /\ req'[s].old \in {req[s].old, None}
             /\ At(s, {"reset"}, "setPassword")' => Marked(req[s].token)'
  <2>1. CASE s = r
    BY <2>1, <1>1, <1>2, <1>7, <1>9 DEF Moved, Fits, GoogleFits, Bound, Carries
  <2>2. CASE s # r
    <3>1. req'[s] = req[s]
      BY <2>2, <1>2 DEF Moved
    <3>2. At(s, {"reset"}, "setPassword") => Marked(req[s].token) /\ req[s].token \in Tokens
      BY DEF IInv, SpentInv, TypeInv, Fits, At
    <3> QED
      BY <3>1, <3>2, <1>1, <1>7, <1>8 DEF Fits, GoogleFits, Bound, Carries, At
  <2> QED
    BY <2>1, <2>2
<1>11. now' \in Nat /\ req' \in [Reqs -> Request]
  BY <1>1, <1>2 DEF Moved
<1> QED
  BY <1>1, <1>3, <1>5, <1>6, <1>10, <1>11, TokenStep

\* MongoDB purges a token.
LEMMA PurgeStep ==
    ASSUME IInv, NEW t \in Tokens, PurgeToken(t)
    PROVE  IInv'
<1> DEFINE k == [token[t] EXCEPT !.stored = FALSE]
<1>1. /\ UNCHANGED <<now, user, req, ghosts>> /\ token[t] # None
      /\ token' = [token EXCEPT ![t] = k]
      /\ token \in [Tokens -> Token \cup {None}] /\ now \in Nat /\ req \in [Reqs -> Request]
  BY DEF PurgeToken, IInv, TypeInv, TypeOK
<1>2. k \in Token /\ k # None /\ k.user = token[t].user /\ k.used = token[t].used
      /\ token[t].user \in Minted
  BY <1>1, NoneIsNoDocument DEF Token, IInv, TypeInv, TokensFit
<1> HIDE DEF k
<1>3. /\ Minted' = Minted /\ \A i \in Tokens : token[i] # None => token'[i] # None
      /\ \A i \in Tokens : Marked(i) => Marked(i)'
  BY <1>1, <1>2 DEF Minted, Marked
<1>4. ASSUME NEW s \in Reqs
      PROVE  /\ Fits(s) /\ GoogleFits(s) => Fits(s)' /\ GoogleFits(s)'
             /\ Carries(s)' => Carries(s) /\ req'[s].password = req[s].password
             /\ req'[s].old \in {req[s].old, None}
             /\ At(s, {"reset"}, "setPassword")' => Marked(req[s].token)'
  <2>1. At(s, {"reset"}, "setPassword") => Marked(req[s].token) /\ req[s].token \in Tokens
    BY DEF IInv, SpentInv, TypeInv, Fits, At
  <2> QED
    BY <2>1, <1>1, <1>3 DEF Fits, GoogleFits, Bound, Carries, At
<1> QED
  BY <1>1, <1>2, <1>4, TokenStep

\* Password reset: a password is stored, and the answer is OK or it is not.
LEMMA StoreStep ==
    ASSUME IInv, NEW r \in Reqs, At(r, {"reset"}, "setPassword"), Change(r), Reply(r),
           Promise(r) \/ UNCHANGED <<spent, dead>>, UNCHANGED <<now, token, chosen>>
    PROVE  IInv'
<1> DEFINE t == req[r].token
           x == token[t].user
           p == req[r].password
           u == IF x \in Existing THEN [user[x] EXCEPT !.password = p] ELSE user[x]
<1>1. /\ Fits(r) /\ Marked(t) /\ Carries(r) /\ Unique(r) /\ req[r].op = "reset"
      /\ req \in [Reqs -> Request]
  BY DEF At, Carries, IInv, TypeInv, TypeOK, SpentInv, PasswordInv
<1>2. /\ t \in Tokens /\ token[t] # None /\ x \in Minted /\ x \in Accounts
      /\ p \in Passwords /\ user[x] \in User /\ req[r].old \in Passwords \cup {None}
  BY <1>1, Accounted DEF Fits, IInv, TypeInv, TokensFit, Minted, Request
<1>3. /\ user' = [user EXCEPT ![x] = u] /\ Replied(r)
      /\ changes' = changes \/ changes' = [changes EXCEPT ![t] = @ + 1]
  <2>1. CASE x \in Existing
    BY <2>1, <1>1, ReplyMoves DEF Change
  <2>2. CASE x \notin Existing
    BY <2>2, <1>1, <1>2, ReplyMoves DEF Change, IInv, TypeInv, TypeOK
  <2> QED
    BY <2>1, <2>2
<1>4. /\ u \in User /\ u.email = user[x].email
      /\ u.provider = user[x].provider /\ u.sub = user[x].sub /\ u.stored = user[x].stored
      /\ u.stored => u.password = p
      /\ u.password \in {p, user[x].password}
  <2>1. CASE x \in Existing
    BY <2>1, <1>2 DEF User
  <2>2. CASE x \notin Existing
    BY <2>2, <1>2 DEF User, Existing
  <2> QED
    BY <2>1, <2>2
<1> HIDE DEF u
<1>5. /\ user' \in [Accounts -> User \cup {None}] /\ Minted' = Minted
      /\ user'[x] = u /\ \A b \in Minted \ {x} : user'[b] = user[b]
      /\ \A b \in Minted : user'[b].provider = user[b].provider
      /\ Existing' \subseteq Existing /\ UniqueEmails'
  BY <1>2, <1>3, <1>4, UserFrame
<1>subs. \A b \in Minted : user'[b].sub = user[b].sub
  BY <1>4, <1>5
<1>6. /\ spent' \in {spent, spent \cup {t}} /\ dead' \in [Accounts -> SUBSET (Passwords \cup {None})]
      /\ dead'[x] \subseteq dead[x] \cup {req[r].old}
      /\ \A b \in Accounts \ {x} : dead'[b] = dead[b]
  BY <1>2 DEF Promise, IInv, TypeInv, TypeOK
<1>7. changes' \in [Tokens -> Nat]
  BY <1>2, <1>3 DEF IInv, TypeInv, TypeOK
<1>others. \A s \in Reqs : Carries(s) /\ s # r => user[x].password # req[s].password
  BY <1>2 DEF IInv, PasswordInv, Unique
<1>known. user[x].password \in chosen \cup {None}
  BY <1>2 DEF IInv, PasswordInv
<1> HIDE DEF t, x
<1>8. /\ req' \in [Reqs -> Request] /\ \A s \in Reqs \ {r} : req'[s] = req[s]
      /\ \A s \in Reqs : /\ Carries(s)' => Carries(s) /\ s # r /\ req'[s] = req[s]
                         /\ req'[s].old \in {req[s].old, None}
                         /\ At(s, {"reset"}, "setPassword")' => req'[s] = req[s]
  BY <1>3, IdleRequest DEF Replied, Carries, At
<1>9. ASSUME NEW s \in Reqs  PROVE Fits(s)' /\ GoogleFits(s)'
  <2>1. CASE s = r
    BY <2>1, <1>3, IdleRequest DEF Fits, GoogleFits, Bound, Replied
  <2>2. CASE s # r
    <3>1. Fits(s) /\ GoogleFits(s) /\ req'[s] = req[s]
      BY <2>2, <1>8 DEF IInv, TypeInv, GoogleInv
    <3> QED
      BY <3>1, <1>5, <1>subs DEF Fits, GoogleFits, Bound
  <2> QED
    BY <2>1, <2>2
<1>10. TypeInv'
  <2>1. \A s \in Reqs : req'[s].at \in {"reload", "session"} => req'[s].account \in Minted'
    BY <1>9 DEF Fits
  <2>2. TypeOK' /\ TokensFit'
    BY <2>1, <1>2, <1>5, <1>6, <1>7, <1>8 DEF IInv, TypeInv, TypeOK, TokensFit
  <2> QED
    BY <2>2, <1>9 DEF TypeInv
<1>11. UniqueEmails' /\ GoogleInv'
  BY <1>5, <1>subs, <1>9 DEF IInv, GoogleInv
<1>12. SpentInv'
  BY <1>1, <1>6, <1>8 DEF IInv, SpentInv, Marked, At
<1>13. /\ p \in chosen /\ None \notin chosen /\ req[r].old \in chosen \cup {None}
       /\ p \notin dead[x] /\ p # req[r].old
  BY <1>1, <1>2, NoneAssumption DEF Unique, IInv, TypeInv, TypeOK, PasswordInv
<1>14. ASSUME NEW s \in Reqs, Carries(s)'  PROVE Unique(s)'
  <2>1. Carries(s) /\ s # r /\ req'[s] = req[s] /\ Unique(s)
    BY <1>8, <1>14 DEF IInv, PasswordInv
  <2>2. p # req[s].password
    BY <2>1, <1>1 DEF Unique
  <2>3. \A b \in Minted' : user'[b].password # req[s].password
    BY <2>1, <2>2, <1>4, <1>5, <1>others DEF Unique
  <2>4. \A b \in Accounts : req[s].password \notin dead'[b]
    BY <2>1, <1>6 DEF Unique
  <2>5. \A i \in Reqs : req'[i].old # req[s].password
    BY <2>1, <1>8, <1>13 DEF Unique
  <2>6. \A i \in Reqs \ {s} : Carries(i)' => req'[i].password # req[s].password
    BY <2>1, <1>8 DEF Unique
  <2> QED
    BY <2>1, <2>3, <2>4, <2>5, <2>6 DEF Unique
<1>15. PasswordInv'
  <2>1. \A b \in Minted' : user'[b].password \in chosen \cup {None}
    BY <1>4, <1>5, <1>13, <1>known DEF IInv, PasswordInv
  <2>2. \A b \in Existing' : user'[b].password \notin dead'[b]
    <3>1. ASSUME NEW b \in Existing'  PROVE user'[b].password \notin dead'[b]
      <4>1. b \in Existing /\ b \in Minted /\ b \in Accounts /\ user'[b].stored
        BY <3>1, <1>5 DEF Existing, Minted
      <4>2. CASE b = x
        BY <4>1, <4>2, <1>4, <1>5, <1>6, <1>13
      <4>3. CASE b # x
        BY <4>1, <4>3, <1>5, <1>6 DEF IInv, PasswordInv, DeadPasswordsStayDead
      <4> QED
        BY <4>2, <4>3
    <3> QED
      BY <3>1
  <2>3. \A b \in Accounts : dead'[b] \subseteq chosen \cup {None}
    BY <1>6, <1>13 DEF IInv, PasswordInv
  <2>4. \A b \in Accounts \ Minted : dead'[b] = {}
    BY <1>2, <1>6 DEF IInv, PasswordInv
  <2>5. (\A s \in Reqs : req'[s].old \in chosen \cup {None}) /\ TestPassword \in chosen
    BY <1>8 DEF IInv, PasswordInv
  <2> QED
    BY <2>1, <2>2, <2>3, <2>4, <2>5, <1>5, <1>14 DEF PasswordInv, DeadPasswordsStayDead
<1> QED
  BY <1>10, <1>11, <1>12, <1>15 DEF IInv

LEMMA SetStep ==
    ASSUME IInv, NEW r \in Reqs, SetPassword(r)
    PROVE  IInv'
<1>1. CASE Change(r)
  BY <1>1, StoreStep DEF SetPassword
<1>2. CASE UNCHANGED <<user, changes>> /\ UNCHANGED <<spent, dead>>
  BY <1>2, QuietReply DEF SetPassword, ghosts
<1> QED
  BY <1>1, <1>2 DEF SetPassword

\* A login that succeeds or fails.
LEMMA OpenStep ==
    ASSUME IInv, NEW r \in Reqs, OpenSession(r)
    PROVE  IInv'
  BY QuietReply DEF OpenSession

\* Time passes; nothing happens.
LEMMA ClockStep ==
    ASSUME IInv, now' \in Nat, UNCHANGED <<user, token, req, ghosts>>
    PROVE  IInv'
<1>1. UNCHANGED <<user, token, req, spent, changes, chosen, dead>> /\ Minted' = Minted
  BY DEF ghosts, Minted
<1>2. TypeInv'
  BY <1>1 DEF IInv, TypeInv, TypeOK, Fits, TokensFit
<1>3. UniqueEmails' /\ GoogleInv'
  BY <1>1 DEF IInv, UniqueEmails, GoogleInv, GoogleFits, Bound, Existing, Minted
<1>4. PasswordInv'
  BY <1>1, PasswordFrame DEF Carries
<1>5. SpentInv'
  BY <1>1 DEF IInv, SpentInv, Marked, At
<1> QED
  BY <1>2, <1>3, <1>4, <1>5 DEF IInv

-----------------------------------------------------------------------------
(* The invariant, and what follows from it *)

\* Every step preserves the invariant.
LEMMA NextInv == ASSUME IInv, [Next]_vars PROVE IInv'
<1>1. now \in Nat
  BY DEF IInv, TypeInv, TypeOK
<1>2. CASE UNCHANGED vars
  BY <1>1, <1>2, ClockStep DEF vars, ghosts
<1>3. CASE Tick
  BY <1>1, <1>3, ClockStep DEF Tick
<1>4. CASE \E t \in Tokens : PurgeToken(t)
  BY <1>4, PurgeStep
<1>5. ASSUME NEW r \in Reqs,
             \/ CountEmail(r) \/ InsertUser(r)
             \/ FindByEmail(r) \/ FindGoogleUser(r) \/ UpgradeSub(r) \/ ReloadUser(r)
             \/ OpenSession(r)
             \/ FindForgotten(r) \/ CreateToken(r)
             \/ FindToken(r) \/ MarkUsed(r) \/ SetPassword(r)
             \/ RemoveTestUser(r) \/ RecreateTestUser(r)
      PROVE  IInv'
  BY <1>5, CountStep, InsertUserStep, FindSteps, FindGoogleStep, UpgradeStep, ReloadStep,
     OpenStep, CreateStep, FindTokenStep, MarkStep, SetStep, RemoveStep, RecreateStep
<1>6. ASSUME NEW r \in Reqs, NEW t \in Tokens, NEW p \in Passwords, StartReset(r, t, p)
      PROVE  IInv'
  BY <1>6, StartResetStep
<1>7. ASSUME NEW r \in Reqs, NEW e \in Emails, NEW p \in Passwords,
             StartSignup(r, e, p)
      PROVE  IInv'
  BY <1>7, StartSignupStep
<1>8. ASSUME NEW r \in Reqs, NEW e \in Emails,
             \/ \E p \in Passwords : StartLogin(r, e, p)
             \/ \E s \in Subs : StartGoogle(r, e, s)
             \/ StartForgot(r, e)
      PROVE  IInv'
  BY <1>8, ArriveSteps
<1>9. ASSUME NEW r \in Reqs, StartDebug(r)  PROVE IInv'
  BY <1>9, StartDebugStep
<1> QED
  BY <1>2, <1>3, <1>4, <1>5, <1>6, <1>7, <1>8, <1>9 DEF Next

LEMMA Invariant == Spec => []IInv
  BY InitInv, NextInv, PTL DEF Spec

\* The state has the shape the code gives it: what a handler dereferences after a
\* query it found an account with is there.
THEOREM TypeCorrect == Spec => []TypeOK
<1>1. IInv => TypeOK
  BY DEF IInv, TypeInv
<1> QED
  BY <1>1, Invariant, PTL

\* Signup and FindOrCreateGoogleUser make one account of an address, however many
\* of them found it free and whatever query failed.
THEOREM EmailsUnique == Spec => []UniqueEmails
<1>1. IInv => UniqueEmails
  BY DEF IInv
<1> QED
  BY <1>1, Invariant, PTL

\* ResetPassword: the password an answered reset replaced is never that of the
\* account again, whatever other resets of it overlap or fail.
THEOREM ResetIsFinal == Spec => []DeadPasswordsStayDead
<1>1. IInv => DeadPasswordsStayDead
  BY DEF IInv, PasswordInv
<1> QED
  BY <1>1, Invariant, PTL

\* What a step of a request makes of the other requests.
LEMMA OthersStay ==
    ASSUME req \in [Reqs -> Request], NEW s \in Reqs, NEW r \in Reqs \ {s},
           \/ CountEmail(s) \/ InsertUser(s)
           \/ FindByEmail(s) \/ FindGoogleUser(s) \/ UpgradeSub(s) \/ ReloadUser(s)
           \/ OpenSession(s)
           \/ FindForgotten(s) \/ CreateToken(s)
           \/ FindToken(s) \/ MarkUsed(s) \/ SetPassword(s)
           \/ RemoveTestUser(s) \/ RecreateTestUser(s)
           \/ \E q : Start(s, q)
    PROVE  req'[r] = req[r]
<1>1. ASSUME \/ Reply(s) \/ (\E at \in Steps : Goto(s, at)) \/ (\E q : Start(s, q))
             \/ \E a \in Accounts, at \in Steps : Found(s, a, at)
             \/ \E a \in Accounts, at \in Steps :
                    req' = [req EXCEPT ![s].at = at, ![s].account = a]
      PROVE  req'[r] = req[r]
  BY <1>1 DEF Reply, Goto, Start, Found
<1>2. req[s].at \in {"reload", "session"} => req[s].account \in Accounts \cup {None}
  BY DEF Request
<1>3. CASE CountEmail(s) \/ FindToken(s) \/ MarkUsed(s) \/ SetPassword(s) \/ OpenSession(s)
           \/ CreateToken(s) \/ UpgradeSub(s) \/ RemoveTestUser(s) \/ RecreateTestUser(s)
  BY <1>1, <1>3 DEF CountEmail, FindToken, MarkUsed, SetPassword, OpenSession, CreateToken,
                    UpgradeSub, RemoveTestUser, RecreateTestUser, Steps
<1>4. CASE InsertUser(s)
  BY <1>1, <1>4 DEF InsertUser, Inserted, Steps
<1>5. CASE FindByEmail(s) \/ FindForgotten(s)
  BY <1>1, <1>5 DEF FindByEmail, FindForgotten, WithEmail, Minted, Steps, Existing
<1>6. CASE FindGoogleUser(s)
  BY <1>1, <1>6 DEF FindGoogleUser, WithEmail, Existing, Minted, Steps
<1>7. CASE ReloadUser(s)
  BY <1>1, <1>7 DEF ReloadUser, Found, Steps
<1> QED
  BY <1>1, <1>3, <1>4, <1>5, <1>6, <1>7

\* Only the query of the token takes a reset on to the update that marks it.
LEMMA ConsumeStep ==
    ASSUME IInv, [Next]_vars, NEW r \in Reqs, At(r, {"reset"}, "consume"),
           req'[r].at = "markUsed"
    PROVE  FindToken(r)
<1>1. req \in [Reqs -> Request] /\ req[r].at = "consume" /\ req[r].op = "reset"
  BY DEF IInv, TypeInv, TypeOK, At
<1>2. req'[r] # req[r]
  BY <1>1
<1>3. \A q : ~Start(r, q)
  BY <1>1, IdleRequest DEF Start
<1>4. /\ ~CountEmail(r) /\ ~InsertUser(r) /\ ~FindByEmail(r) /\ ~FindGoogleUser(r)
      /\ ~UpgradeSub(r) /\ ~ReloadUser(r) /\ ~OpenSession(r) /\ ~FindForgotten(r)
      /\ ~CreateToken(r) /\ ~MarkUsed(r) /\ ~SetPassword(r)
      /\ ~RemoveTestUser(r) /\ ~RecreateTestUser(r)
  BY <1>1 DEF At, CountEmail, InsertUser, FindByEmail, FindGoogleUser, UpgradeSub, ReloadUser,
              OpenSession, FindForgotten, CreateToken, MarkUsed, SetPassword,
              RemoveTestUser, RecreateTestUser
<1>5. ~UNCHANGED req
  BY <1>2
<1>6. /\ \A t \in Tokens : ~PurgeToken(t)
      /\ ~Tick /\ ~UNCHANGED vars
  BY <1>5 DEF PurgeToken, Tick, vars
<1>7. ASSUME NEW s \in Reqs
      PROVE  /\ \A e, p : ~StartSignup(s, e, p) /\ ~StartLogin(s, e, p)
             /\ \A e, u : ~StartGoogle(s, e, u) /\ ~StartForgot(s, e)
             /\ (\A t, p : ~StartReset(s, t, p)) /\ ~StartDebug(s)
  BY <1>1, <1>2, <1>3, OthersStay
     DEF StartSignup, StartLogin, StartGoogle, StartForgot, StartReset, StartDebug
<1>8. PICK s \in Reqs : \/ CountEmail(s) \/ InsertUser(s)
                        \/ FindByEmail(s) \/ FindGoogleUser(s) \/ UpgradeSub(s) \/ ReloadUser(s)
                        \/ OpenSession(s)
                        \/ FindForgotten(s) \/ CreateToken(s)
                        \/ FindToken(s) \/ MarkUsed(s) \/ SetPassword(s)
                        \/ RemoveTestUser(s) \/ RecreateTestUser(s)
  BY <1>6, <1>7 DEF Next
<1>9. s = r
  BY <1>1, <1>2, <1>8, OthersStay
<1> QED
  BY <1>4, <1>8, <1>9

\* ConsumePasswordResetToken refuses a token with which a reset was answered OK, as
\* long as the update that marks it, whose result it drops, is executed: two resets
\* may still both have found the token, and that is all they can do.
THEOREM TokenSpent == ("markUsed" \notin Faulty) => (Spec => SpentTokenRefused)
<1> SUFFICES ASSUME "markUsed" \notin Faulty PROVE Spec => SpentTokenRefused
  OBVIOUS
<1>1. ASSUME IInv, [Next]_vars
      PROVE  [\A r \in Reqs : At(r, {"reset"}, "consume") /\ req'[r].at = "markUsed"
                  => req[r].token \notin spent]_vars
  <2>1. ASSUME NEW r \in Reqs, At(r, {"reset"}, "consume"), req'[r].at = "markUsed",
               req[r].token \in spent
        PROVE  FALSE
    <3>1. FindToken(r) /\ req \in [Reqs -> Request]
      BY <1>1, <2>1, ConsumeStep DEF IInv, TypeInv, TypeOK
    <3>2. Consumable(req[r].token)
      BY <2>1, <3>1, IdleRequest DEF FindToken, Reply
    <3>3. Marked(req[r].token)
      BY <1>1, <2>1 DEF IInv, SpentInv
    <3> QED
      BY <3>2, <3>3 DEF Consumable, Marked
  <2> QED
    BY <2>1
<1> QED
  BY <1>1, Invariant, PTL DEF Spec, SpentTokenRefused

\* A Google login opens no session of a password account, nor of a Google account
\* bound to another identity: FindOrCreateGoogleUser's unlocked find, update, reload
\* and insert never end there, whatever signups and debug resets do in between.
THEOREM GoogleBound == Spec => GoogleIdentity
<1>1. ASSUME IInv
      PROVE  [\A r \in Reqs : Admitted(r, "google") => Bound(req[r].account, req[r].sub)]_vars
  BY <1>1 DEF Admitted, At, IInv, GoogleInv, GoogleFits
<1> QED
  BY <1>1, Invariant, PTL DEF Spec, GoogleIdentity

-----------------------------------------------------------------------------
(* What a step makes of the accounts' identities and of its own request *)

\* The steps of a request that is not a reset.
PlainStep(r) ==
    \/ CountEmail(r) \/ InsertUser(r)
    \/ FindByEmail(r) \/ FindGoogleUser(r) \/ UpgradeSub(r) \/ ReloadUser(r)
    \/ OpenSession(r)
    \/ FindForgotten(r) \/ CreateToken(r)
    \/ RemoveTestUser(r) \/ RecreateTestUser(r)

Arrive(r) ==
    \/ \E e, p : StartSignup(r, e, p) \/ StartLogin(r, e, p)
    \/ \E e, s : StartGoogle(r, e, s)
    \/ \E e : StartForgot(r, e)
    \/ \E t, p : StartReset(r, t, p)
    \/ StartDebug(r)

\* The steps of the system, by who makes them.
LEMMA StepCases ==
    ASSUME [Next]_vars
    PROVE  \/ \E r \in Reqs : Arrive(r) \/ PlainStep(r) \/ FindToken(r) \/ MarkUsed(r)
                                  \/ SetPassword(r)
           \/ \E t \in Tokens : PurgeToken(t)
           \/ UNCHANGED <<user, token, req, changes, dead>>
  BY DEF Next, vars, ghosts, Tick, Arrive, PlainStep

\* A request that arrives is at its first step, and its arrival changes nothing
\* that is stored.
LEMMA Arrived ==
    ASSUME req \in [Reqs -> Request], NEW r \in Reqs, Arrive(r)
    PROVE  /\ UNCHANGED <<user, token, changes>>
           /\ req'[r].at \in {"count", "find", "consume", "delete"}
           /\ \A s \in Reqs \ {r} : req'[s] = req[s]
<1> DEFINE First(q) == /\ q.at \in {"count", "find", "consume", "delete"}
                       /\ req' = [req EXCEPT ![r] = q]
           Done == /\ req'[r].at \in {"count", "find", "consume", "delete"}
                   /\ \A s \in Reqs \ {r} : req'[s] = req[s]
<1>1. ASSUME NEW e, NEW p, StartSignup(r, e, p)  PROVE Done
  <2> DEFINE q == [Idle EXCEPT !.op = "signup", !.at = "count", !.email = e, !.password = p]
  <2>1. First(q)
    BY <1>1 DEF StartSignup, Start, Idle
  <2> HIDE DEF q
  <2> QED
    BY <2>1
<1>2. ASSUME NEW e, NEW p, StartLogin(r, e, p)  PROVE Done
  <2> DEFINE q == [Idle EXCEPT !.op = "login", !.at = "find", !.email = e,
                               !.password = Trim[p]]
  <2>1. First(q)
    BY <1>2 DEF StartLogin, Start, Idle
  <2> HIDE DEF q
  <2> QED
    BY <2>1
<1>3. ASSUME NEW e, NEW s, StartGoogle(r, e, s)  PROVE Done
  <2> DEFINE q == [Idle EXCEPT !.op = "google", !.at = "find", !.email = Lower[e],
                               !.sub = s, !.password = Blank]
  <2>1. First(q)
    BY <1>3 DEF StartGoogle, Start, Idle
  <2> HIDE DEF q
  <2> QED
    BY <2>1
<1>4. ASSUME NEW e, StartForgot(r, e)  PROVE Done
  <2> DEFINE q == [Idle EXCEPT !.op = "forgot", !.at = "find", !.email = e]
  <2>1. First(q)
    BY <1>4 DEF StartForgot, Start, Idle
  <2> HIDE DEF q
  <2> QED
    BY <2>1
<1>5. ASSUME NEW t, NEW p, StartReset(r, t, p)  PROVE Done
  <2> DEFINE q == [Idle EXCEPT !.op = "reset", !.at = "consume", !.token = t, !.password = p,
                               !.old = user[token[t].user].password]
  <2>1. First(q)
    BY <1>5 DEF StartReset, Start, Idle
  <2> HIDE DEF q
  <2> QED
    BY <2>1
<1>6. ASSUME StartDebug(r)  PROVE Done
  <2> DEFINE q == [Idle EXCEPT !.op = "debug", !.at = "delete"]
  <2>1. First(q)
    BY <1>6 DEF StartDebug, Start, Idle
  <2> HIDE DEF q
  <2> QED
    BY <2>1
<1>7. Done
  BY <1>1, <1>2, <1>3, <1>4, <1>5, <1>6 DEF Arrive
<1>8. UNCHANGED <<user, token, changes>>
  BY DEF Arrive, StartSignup, StartLogin, StartGoogle, StartForgot, StartReset, StartDebug, ghosts
<1> QED
  BY <1>7, <1>8

\* A request that is not a reset becomes none by what it does, and writes no token
\* but the one it makes.
LEMMA Plain ==
    ASSUME IInv, NEW r \in Reqs, PlainStep(r)
    PROVE  /\ \A s \in Reqs \ {r} : req'[s] = req[s]
           /\ req[r].op # "reset" /\ req'[r].op # "reset"
           /\ req'[r].at = "upgrade" => FindGoogleUser(r)
           /\ changes' = changes
           /\ \A t \in Tokens : token'[t] # token[t] => token[t] = None
<1>1. req \in [Reqs -> Request] /\ user \in [Accounts -> User \cup {None}]
      /\ token \in [Tokens -> Token \cup {None}]
  BY DEF IInv, TypeInv, TypeOK
<1>2. \A s \in Reqs \ {r} : req'[s] = req[s]
  BY <1>1, OthersStay DEF PlainStep
<1>3. req[r].op # "reset" /\ changes' = changes
  BY DEF PlainStep, At, ghosts, CountEmail, InsertUser, FindByEmail, FindGoogleUser, UpgradeSub,
         ReloadUser, OpenSession, FindForgotten, CreateToken, RemoveTestUser, RecreateTestUser
<1>4. \A t \in Tokens : token'[t] # token[t] => token[t] = None
  <2>1. CASE CreateToken(r)
    BY <2>1, <1>1 DEF CreateToken
  <2>2. CASE ~CreateToken(r)
    BY <2>2 DEF PlainStep, CountEmail, InsertUser, FindByEmail, FindGoogleUser, UpgradeSub,
                ReloadUser, OpenSession, FindForgotten, RemoveTestUser, RecreateTestUser
  <2> QED
    BY <2>1, <2>2
<1>5. Reply(r) => req'[r].op = "none" /\ req'[r].at = "idle"
  BY ReplyMoves, <1>1, IdleRequest DEF Replied
<1>6. ASSUME NEW at \in Steps, Goto(r, at)  PROVE req'[r].op = req[r].op /\ req'[r].at = at
  BY <1>1, <1>6, GotoMoves DEF Moved
<1>7. ASSUME NEW at \in Steps, NEW a \in Minted, Found(r, a, at)
      PROVE  req'[r].op = req[r].op /\ req'[r].at = at
  BY <1>1, <1>7, Accounted, FoundMoves DEF Moved
<1>8. ASSUME NEW at \in Steps, NEW a \in Accounts,
             req' = [req EXCEPT ![r].at = at, ![r].account = a]
      PROVE  req'[r].op = req[r].op /\ req'[r].at = at
  BY <1>1, <1>8, FindMoves DEF Moved
<1> DEFINE Ends == /\ req'[r].op # "reset"
                   /\ req'[r].at = "upgrade" => FindGoogleUser(r)
<1>9. ASSUME \/ CountEmail(r) \/ OpenSession(r) \/ CreateToken(r) \/ UpgradeSub(r)
             \/ RemoveTestUser(r) \/ RecreateTestUser(r)
      PROVE  Ends
  <2>1. Reply(r) \/ \E at \in {"insert", "reload", "recreate"} : Goto(r, at)
    BY <1>9 DEF CountEmail, OpenSession, CreateToken, UpgradeSub, RemoveTestUser, RecreateTestUser
  <2> QED
    BY <2>1, <1>3, <1>5, <1>6 DEF Steps
<1>10. ASSUME InsertUser(r)  PROVE Ends
  <2>1. Reply(r) \/ \E a \in Accounts : req' = [req EXCEPT ![r].at = "session", ![r].account = a]
    BY <1>10 DEF InsertUser, Inserted
  <2> QED
    BY <2>1, <1>3, <1>5, <1>8 DEF Steps
<1>11. ASSUME FindByEmail(r) \/ FindForgotten(r)  PROVE Ends
  <2>1. \/ Reply(r) \/ \E a \in Minted : Found(r, a, "session")
        \/ \E a \in Accounts : req' = [req EXCEPT ![r].at = "token", ![r].account = a]
    BY <1>11 DEF FindByEmail, FindForgotten, WithEmail, Existing, Minted
  <2> QED
    BY <2>1, <1>3, <1>5, <1>7, <1>8 DEF Steps
<1>12. ASSUME FindGoogleUser(r)  PROVE Ends
  <2>1. \/ Reply(r) \/ Goto(r, "insert")
        \/ \E a \in Minted, at \in {"upgrade", "session"} : Found(r, a, at)
    BY <1>12 DEF FindGoogleUser, WithEmail, Existing
  <2> QED
    BY <2>1, <1>12, <1>3, <1>5, <1>6, <1>7 DEF Steps
<1>13. ASSUME ReloadUser(r)  PROVE Ends
  <2>1. Goto(r, "session") \/ \E a \in Minted : Found(r, a, "session")
    BY <1>13 DEF ReloadUser, Existing
  <2> QED
    BY <2>1, <1>3, <1>6, <1>7 DEF Steps
<1>14. Ends
  BY <1>9, <1>10, <1>11, <1>12, <1>13 DEF PlainStep
<1> QED
  BY <1>2, <1>3, <1>4, <1>14

\* Only the update of a Google login rewrites the identity of an account.
LEMMA SubWrites ==
    ASSUME IInv, [Next]_vars, NEW a \in Minted
    PROVE  \/ user'[a].sub = user[a].sub
           \/ \E r \in Reqs : UpgradeSub(r) /\ req[r].account = a
<1>1. user \in [Accounts -> User \cup {None}] /\ user[a] \in User /\ a \in Accounts
      /\ req \in [Reqs -> Request]
  BY Accounted DEF IInv, TypeInv, TypeOK
<1>2. ASSUME NEW b, NEW u, user' = [user EXCEPT ![b] = u], b = a => u.sub = user[a].sub
      PROVE  user'[a].sub = user[a].sub
  BY <1>1, <1>2
<1>3. ASSUME NEW r \in Reqs, PlainStep(r), ~UpgradeSub(r)  PROVE user'[a].sub = user[a].sub
  <2>1. CASE InsertUser(r)
    BY <2>1, <1>1 DEF InsertUser, Inserted
  <2>2. CASE RecreateTestUser(r)
    BY <2>2, <1>1 DEF RecreateTestUser
  <2>3. CASE RemoveTestUser(r)
    <3>1. \/ user' = user
          \/ \E b \in Accounts : user' = [user EXCEPT ![b] = [user[b] EXCEPT !.stored = FALSE]]
      BY <2>3 DEF RemoveTestUser, WithEmail, Existing, Minted
    <3>2. ASSUME NEW b \in Accounts,
                 user' = [user EXCEPT ![b] = [user[b] EXCEPT !.stored = FALSE]]
          PROVE  user'[a].sub = user[a].sub
      <4>1. b = a => [user[b] EXCEPT !.stored = FALSE].sub = user[a].sub
        BY <1>1 DEF User
      <4> QED
        BY <3>2, <4>1, <1>2
    <3> QED
      BY <3>1, <3>2
  <2>4. CASE \/ CountEmail(r) \/ FindByEmail(r) \/ FindGoogleUser(r) \/ ReloadUser(r)
             \/ OpenSession(r) \/ FindForgotten(r) \/ CreateToken(r)
    BY <2>4 DEF CountEmail, FindByEmail, FindGoogleUser, ReloadUser, OpenSession, FindForgotten,
                CreateToken
  <2> QED
    BY <1>3, <2>1, <2>2, <2>3, <2>4 DEF PlainStep
<1>4. ASSUME NEW r \in Reqs, PlainStep(r), UpgradeSub(r)
      PROVE  user'[a].sub = user[a].sub \/ req[r].account = a
  BY <1>1, <1>4 DEF UpgradeSub
<1>5. ASSUME NEW r \in Reqs, SetPassword(r)  PROVE user'[a].sub = user[a].sub
  <2> DEFINE b == token[req[r].token].user
             p == req[r].password
  <2>1. p \in Passwords
    BY <1>5 DEF SetPassword, At, IInv, TypeInv, Fits
  <2>2. user' = user \/ user' = [user EXCEPT ![b] = [user[b] EXCEPT !.password = p]]
    BY <1>5 DEF SetPassword, Change
  <2> HIDE DEF b, p
  <2>3. b = a => [user[b] EXCEPT !.password = p].sub = user[a].sub
    BY <1>1, <2>1 DEF User
  <2> QED
    BY <2>2, <2>3, <1>2
<1>6. ASSUME NEW r \in Reqs, Arrive(r)  PROVE user' = user
  BY <1>1, <1>6, Arrived
<1>7. ASSUME NEW r \in Reqs, FindToken(r) \/ MarkUsed(r)  PROVE user' = user
  BY <1>7 DEF FindToken, MarkUsed
<1>8. ASSUME NEW t \in Tokens, PurgeToken(t)  PROVE user' = user
  BY <1>8 DEF PurgeToken
<1> QED
  BY <1>3, <1>4, <1>5, <1>6, <1>7, <1>8, StepCases DEF PlainStep

\* FindOrCreateGoogleUser's update of google_sub, by _id alone and decided on a copy
\* read earlier, never reaches an account that was made with an identity.
THEOREM IdentityForGood == Spec => IdentityKept
<1>1. ASSUME IInv, [Next]_vars
      PROVE  [\A a \in Minted \ Old : user'[a].sub = user[a].sub]_vars
  <2>1. ASSUME NEW r \in Reqs, UpgradeSub(r)  PROVE req[r].account \in Old
    BY <1>1, <2>1 DEF UpgradeSub, At, IInv, GoogleInv, GoogleFits
  <2> QED
    BY <1>1, <2>1, SubWrites
<1> QED
  BY <1>1, Invariant, PTL DEF Spec, IdentityKept

-----------------------------------------------------------------------------
(* How many passwords a reset token may change *)

\* A reset that has found its token, and has not stored its password yet.
Uses(q) == q.op = "reset" /\ q.at \in {"markUsed", "setPassword"}
Using(t) == {r \in Reqs : Uses(req[r]) /\ req[r].token = t}

\* The inductive invariant: every use of a token is by a request that had found it
\* before the token was first marked, so no more than there are requests.
Fresh(t) == token[t] = None \/ ~token[t].used
ChangeInv ==
    \A t \in Tokens :
        /\ Fresh(t) => changes[t] = 0
        /\ changes[t] + Cardinality(Using(t)) <= Cardinality(Reqs)

LEMMA FiniteReqs ==
    ASSUME IsFiniteSet(Reqs), NEW S \in SUBSET Reqs
    PROVE  /\ IsFiniteSet(S) /\ Cardinality(S) \in Nat /\ Cardinality(Reqs) \in Nat
           /\ Cardinality(S) <= Cardinality(Reqs)
           /\ \A T \in SUBSET S : Cardinality(T) <= Cardinality(S)
<1>1. IsFiniteSet(S) /\ Cardinality(S) <= Cardinality(Reqs)
  BY FS_Subset
<1>2. ASSUME NEW T \in SUBSET S  PROVE Cardinality(T) <= Cardinality(S)
  BY <1>1, FS_Subset
<1> QED
  BY <1>1, <1>2, FS_CardinalityType

LEMMA InitChange ==
    ASSUME Init, IsFiniteSet(Reqs)
    PROVE  ChangeInv
<1>1. ASSUME NEW t \in Tokens  PROVE changes[t] = 0 /\ Using(t) = {}
  BY IdleRequest DEF Init, Using, Uses
<1>2. Cardinality({}) = 0 /\ Cardinality(Reqs) \in Nat
  BY FS_EmptySet, FS_CardinalityType
<1> QED
  BY <1>1, <1>2 DEF ChangeInv

\* Steps that change no password with a token: nobody else has found one.
LEMMA ChangeFrame ==
    ASSUME IInv, ChangeInv, IsFiniteSet(Reqs), changes' = changes,
           \A t \in Tokens : Fresh(t)' => Fresh(t),
           \A r \in Reqs : Uses(req'[r]) =>
               \/ Uses(req[r]) /\ req'[r].token = req[r].token
               \/ req'[r].token \in Tokens /\ Fresh(req'[r].token)
    PROVE  ChangeInv'
<1>1. ASSUME NEW t \in Tokens
      PROVE  changes'[t] + Cardinality(Using(t)') <= Cardinality(Reqs)
  <2>1. Using(t) \in SUBSET Reqs /\ Using(t)' \in SUBSET Reqs
    BY DEF Using
  <2>2. /\ Cardinality(Using(t)) \in Nat /\ Cardinality(Using(t)') \in Nat
        /\ Cardinality(Reqs) \in Nat /\ Cardinality(Using(t)') <= Cardinality(Reqs)
        /\ changes[t] \in Nat
    BY <2>1, FiniteReqs DEF IInv, TypeInv, TypeOK
  <2>3. CASE Fresh(t)
    BY <2>2, <2>3 DEF ChangeInv
  <2>4. CASE ~Fresh(t)
    <3>1. Using(t)' \subseteq Using(t)
      BY <2>4 DEF Using
    <3>2. Cardinality(Using(t)') <= Cardinality(Using(t))
      BY <2>1, <3>1, FiniteReqs
    <3> QED
      BY <2>2, <3>2 DEF ChangeInv
  <2> QED
    BY <2>3, <2>4
<1> QED
  BY <1>1 DEF ChangeInv

\* A reset goes on to its next step.
LEMMA ChangeReset ==
    ASSUME IInv, ChangeInv, IsFiniteSet(Reqs), "markUsed" \notin Faulty, NEW r \in Reqs,
           FindToken(r) \/ MarkUsed(r)
    PROVE  ChangeInv'
<1> DEFINE t == req[r].token
<1>1. /\ req \in [Reqs -> Request] /\ token \in [Tokens -> Token \cup {None}]
      /\ changes' = changes /\ t \in Tokens /\ token[t] # None
      /\ req[r].op = "reset" /\ req[r].at \in {"consume", "markUsed"}
  BY DEF FindToken, MarkUsed, At, ghosts, IInv, TypeInv, TypeOK, Fits
<1>2. \A s \in Reqs \ {r} : req'[s] = req[s]
  BY <1>1, OthersStay
<1>3. CASE FindToken(r)
  <2>1. UNCHANGED token /\ (Reply(r) \/ (Consumable(t) /\ Goto(r, "markUsed")))
    BY <1>3 DEF FindToken
  <2>2. CASE Reply(r)
    BY <1>1, <1>2, <2>1, <2>2, ReplyMoves, IdleRequest, ChangeFrame DEF Replied, Uses, Fresh
  <2>3. CASE Consumable(t) /\ Goto(r, "markUsed")
    <3>1. req'[r].token = t /\ Fresh(t)
      BY <1>1, <2>3, GotoMoves DEF Moved, Steps, Consumable, Fresh
    <3> QED
      BY <1>1, <1>2, <2>1, <3>1, ChangeFrame DEF Fresh
  <2> QED
    BY <2>1, <2>2, <2>3
<1>4. CASE MarkUsed(r)
  <2>1. /\ req[r].at = "markUsed" /\ Goto(r, "setPassword")
        /\ token' = [token EXCEPT ![t] = [token[t] EXCEPT !.used = TRUE]]
    BY <1>4 DEF MarkUsed, At
  <2>2. req'[r].token = t /\ Uses(req[r])
    BY <1>1, <2>1, GotoMoves DEF Moved, Steps, Uses
  <2>3. ASSUME NEW x \in Tokens, Fresh(x)'  PROVE Fresh(x)
    <3>1. [token[t] EXCEPT !.used = TRUE] # None /\ [token[t] EXCEPT !.used = TRUE].used
      BY <1>1, NoneIsNoDocument DEF Token
    <3> QED
      BY <1>1, <2>1, <2>3, <3>1 DEF Fresh
  <2> QED
    BY <1>1, <1>2, <2>2, <2>3, ChangeFrame
<1> QED
  BY <1>3, <1>4

\* A reset that ends has used its token, and uses it no longer.
LEMMA ChangeSet ==
    ASSUME IInv, ChangeInv, IsFiniteSet(Reqs), "markUsed" \notin Faulty, NEW r \in Reqs,
           SetPassword(r)
    PROVE  ChangeInv'
<1> DEFINE t == req[r].token
<1>1. /\ req \in [Reqs -> Request] /\ changes \in [Tokens -> Nat]
      /\ token' = token /\ t \in Tokens /\ Uses(req[r]) /\ ~Fresh(t)
  BY DEF SetPassword, At, IInv, TypeInv, TypeOK, Fits, SpentInv, Marked, Fresh, Uses
<1>2. (\A s \in Reqs \ {r} : req'[s] = req[s]) /\ ~Uses(req'[r])
  BY <1>1, ReplyMoves, IdleRequest DEF SetPassword, Replied, Uses
<1>3. changes' = changes \/ changes' = [changes EXCEPT ![t] = @ + 1]
  BY DEF SetPassword, Change
<1>4. ASSUME NEW x \in Tokens, Fresh(x)'  PROVE Fresh(x) /\ changes'[x] = 0
  <2>1. Fresh(x)
    BY <1>1, <1>4 DEF Fresh
  <2> HIDE DEF t
  <2> QED
    BY <1>1, <1>3, <2>1 DEF ChangeInv
<1>5. ASSUME NEW x \in Tokens
      PROVE  changes'[x] + Cardinality(Using(x)') <= Cardinality(Reqs)
  <2>1. Using(x) \in SUBSET Reqs /\ Using(x)' \in SUBSET Reqs
    BY DEF Using
  <2>2. /\ Cardinality(Using(x)) \in Nat /\ Cardinality(Using(x)') \in Nat
        /\ Cardinality(Reqs) \in Nat /\ IsFiniteSet(Using(x)) /\ changes[x] \in Nat
        /\ changes[x] + Cardinality(Using(x)) <= Cardinality(Reqs)
    BY <1>1, <2>1, FiniteReqs DEF ChangeInv
  <2>3. CASE x = t
    <3>1. Using(x)' = Using(x) \ {r} /\ r \in Using(x)
      BY <1>1, <1>2, <2>3 DEF Using
    <3>2. Cardinality(Using(x)') = Cardinality(Using(x)) - 1
      BY <2>2, <3>1, FS_RemoveElement
    <3>3. changes'[x] \in {changes[x], changes[x] + 1}
      BY <1>1, <1>3, <2>3
    <3> QED
      BY <2>2, <3>2, <3>3
  <2>4. CASE x # t
    <3>1. Using(x)' = Using(x)
      BY <1>1, <1>2, <2>4 DEF Using
    <3>2. changes'[x] = changes[x]
      BY <1>3, <2>4, <1>1
    <3> QED
      BY <2>2, <3>1, <3>2
  <2> QED
    BY <2>3, <2>4
<1> QED
  BY <1>4, <1>5 DEF ChangeInv

LEMMA NextChange ==
    ASSUME IInv, ChangeInv, IsFiniteSet(Reqs), "markUsed" \notin Faulty, [Next]_vars
    PROVE  ChangeInv'
<1>1. req \in [Reqs -> Request] /\ token \in [Tokens -> Token \cup {None}]
  BY DEF IInv, TypeInv, TypeOK
<1>2. ASSUME NEW r \in Reqs, Arrive(r)  PROVE ChangeInv'
  <2>1. /\ UNCHANGED <<token, changes>> /\ \A s \in Reqs \ {r} : req'[s] = req[s]
        /\ ~Uses(req'[r])
    BY <1>1, <1>2, Arrived DEF Uses
  <2> QED
    BY <2>1, ChangeFrame DEF Fresh
<1>3. ASSUME NEW r \in Reqs, PlainStep(r)  PROVE ChangeInv'
  <2>1. /\ \A s \in Reqs \ {r} : req'[s] = req[s]
        /\ ~Uses(req'[r]) /\ changes' = changes
        /\ \A t \in Tokens : Fresh(t)' => Fresh(t)
    BY <1>3, Plain DEF Uses, Fresh
  <2> QED
    BY <2>1, ChangeFrame
<1>4. ASSUME NEW t \in Tokens, PurgeToken(t)  PROVE ChangeInv'
  <2>1. /\ UNCHANGED <<req, changes>> /\ token[t] \in Token
        /\ token' = [token EXCEPT ![t] = [token[t] EXCEPT !.stored = FALSE]]
    BY <1>1, <1>4 DEF PurgeToken, ghosts
  <2>2. [token[t] EXCEPT !.stored = FALSE].used = token[t].used
    BY <2>1 DEF Token
  <2>3. [token[t] EXCEPT !.stored = FALSE] # None
    BY <2>1, NoneIsNoDocument DEF Token
  <2>4. \A x \in Tokens : Fresh(x)' => Fresh(x)
    BY <1>1, <2>1, <2>2, <2>3 DEF Fresh
  <2> QED
    BY <2>1, <2>4, ChangeFrame
<1>5. CASE UNCHANGED <<user, token, req, changes, dead>>
  BY <1>5, ChangeFrame DEF Fresh
<1> QED
  BY <1>2, <1>3, <1>4, <1>5, ChangeReset, ChangeSet, StepCases

LEMMA ChangeInvariance ==
    ASSUME "markUsed" \notin Faulty, IsFiniteSet(Reqs)
    PROVE  Spec => []ChangeInv
  BY InitChange, NextChange, Invariant, PTL DEF Spec

\* ConsumePasswordResetToken's find and update are two commands: with a token that is
\* marked when the update is executed, requests that overlap change at most one
\* password each, however often the token is presented and for however long.
THEOREM TokenUsesBounded ==
    ASSUME "markUsed" \notin Faulty, IsFiniteSet(Reqs)
    PROVE  Spec => [](\A t \in Tokens : changes[t] <= Cardinality(Reqs))
<1>1. ASSUME IInv, ChangeInv  PROVE \A t \in Tokens : changes[t] <= Cardinality(Reqs)
  <2>1. ASSUME NEW t \in Tokens  PROVE changes[t] <= Cardinality(Reqs)
    <3>1. /\ Using(t) \in SUBSET Reqs /\ changes[t] \in Nat
          /\ changes[t] + Cardinality(Using(t)) <= Cardinality(Reqs)
      BY <1>1 DEF Using, ChangeInv, IInv, TypeInv, TypeOK
    <3>2. Cardinality(Using(t)) \in Nat /\ Cardinality(Reqs) \in Nat
      BY <3>1, FiniteReqs
    <3> QED
      BY <3>1, <3>2
  <2> QED
    BY <2>1
<1> QED
  BY <1>1, Invariant, ChangeInvariance, PTL

-----------------------------------------------------------------------------
(* Requests that do not overlap *)

OneAtATime == \A p, r \in Reqs : p = r

\* A reset token is single-use, as its collection's documentation wants it, when no
\* two requests overlap and the update that marks it is executed: the interleaving of
\* two resets is the only way to use one twice.
THEOREM SingleUseAlone ==
    ASSUME "markUsed" \notin Faulty, OneAtATime
    PROVE  Spec => []TokenSingleUse
<1>1. IsFiniteSet(Reqs) /\ Cardinality(Reqs) \in Nat /\ Cardinality(Reqs) <= 1
  <2>1. CASE Reqs = {}
    BY <2>1, FS_EmptySet
  <2>2. CASE Reqs # {}
    <3>1. PICK r \in Reqs : TRUE
      BY <2>2
    <3>2. Reqs = {r}
      BY <3>1 DEF OneAtATime
    <3>3. IsFiniteSet({r}) /\ Cardinality({r}) = 1
      BY FS_Singleton
    <3> QED
      BY <3>2, <3>3
  <2> QED
    BY <2>1, <2>2
<1>2. ASSUME IInv, \A t \in Tokens : changes[t] <= Cardinality(Reqs)  PROVE TokenSingleUse
  BY <1>1, <1>2 DEF TokenSingleUse, IInv, TypeInv, TypeOK
<1>3. Spec => [](\A t \in Tokens : changes[t] <= Cardinality(Reqs))
  BY <1>1, TokenUsesBounded
<1> QED
  BY <1>2, <1>3, Invariant, PTL

\* A Google login about to bind its identity finds the account still without one.
UnboundYet ==
    \A r \in Reqs : At(r, {"google"}, "upgrade") => user[req[r].account].sub = None

\* The identity an account is bound to, from its making or by a later login, is its
\* identity for good when no two requests overlap: FindOrCreateGoogleUser's check and
\* its update by _id are only apart by what another request does in between.
THEOREM IdentityFixedAlone ==
    ASSUME OneAtATime
    PROVE  Spec => [][\A a \in Minted : user[a].sub # None => user'[a].sub = user[a].sub]_vars
<1>1. Init => UnboundYet
  BY IdleRequest DEF Init, UnboundYet, At
<1>2. ASSUME IInv, UnboundYet, [Next]_vars  PROVE UnboundYet'
  <2>1. ASSUME NEW r \in Reqs, At(r, {"google"}, "upgrade")'
        PROVE  user'[req'[r].account].sub = None
    <3>1. /\ req \in [Reqs -> Request] /\ \A s \in Reqs : s = r
          /\ req'[r].op = "google" /\ req'[r].at = "upgrade"
      BY <1>2, <2>1 DEF At, OneAtATime, IInv, TypeInv, TypeOK
    <3>2. CASE Arrive(r)
      BY <3>1, <3>2, Arrived
    <3>3. CASE PlainStep(r)
      <4>1. FindGoogleUser(r) /\ UNCHANGED user
        BY <1>2, <3>1, <3>3, Plain DEF FindGoogleUser
      <4>2. PICK a \in Minted : Unbound(user[a]) /\ Found(r, a, "upgrade")
        <5>1. \/ Reply(r) \/ Goto(r, "insert")
              \/ \E a \in Minted : Found(r, a, "session")
              \/ \E a \in Minted : Unbound(user[a]) /\ Found(r, a, "upgrade")
          BY <4>1 DEF FindGoogleUser, WithEmail, Existing
        <5>2. ~Reply(r) /\ ~Goto(r, "insert")
          BY <3>1, ReplyMoves, IdleRequest, GotoMoves DEF Replied, Steps
        <5>3. \A a \in Minted : ~Found(r, a, "session")
          BY <1>2, <3>1, Accounted, FoundMoves DEF Steps
        <5> QED
          BY <5>1, <5>2, <5>3
      <4>3. req'[r].account = a
        BY <1>2, <3>1, <4>2, Accounted, FoundMoves DEF Steps
      <4> QED
        BY <4>1, <4>2, <4>3 DEF Unbound
    <3>4. CASE FindToken(r) \/ MarkUsed(r)
      <4>1. req[r].op = "reset" /\ (Reply(r) \/ \E at \in {"markUsed", "setPassword"} : Goto(r, at))
        BY <3>4 DEF FindToken, MarkUsed, At
      <4> QED
        BY <3>1, <4>1, ReplyMoves, IdleRequest, GotoMoves DEF Replied, Steps
    <3>5. CASE SetPassword(r)
      BY <3>1, <3>5, ReplyMoves, IdleRequest DEF SetPassword, Replied
    <3>6. CASE UNCHANGED <<user, req>>
      BY <1>2, <2>1, <3>6 DEF UnboundYet, At
    <3>7. ASSUME NEW t \in Tokens, PurgeToken(t)  PROVE UNCHANGED <<user, req>>
      BY <3>7 DEF PurgeToken
    <3> QED
      BY <1>2, <3>1, <3>2, <3>3, <3>4, <3>5, <3>6, <3>7, StepCases
  <2> QED
    BY <2>1 DEF UnboundYet
<1>3. ASSUME IInv, UnboundYet, [Next]_vars
      PROVE  [\A a \in Minted : user[a].sub # None => user'[a].sub = user[a].sub]_vars
  <2>1. ASSUME NEW a \in Minted, user[a].sub # None, user'[a].sub # user[a].sub  PROVE FALSE
    <3>1. PICK r \in Reqs : UpgradeSub(r) /\ req[r].account = a
      BY <1>3, <2>1, SubWrites
    <3>2. At(r, {"google"}, "upgrade")
      BY <3>1 DEF UpgradeSub
    <3> QED
      BY <1>3, <2>1, <3>1, <3>2 DEF UnboundYet
  <2> QED
    BY <2>1
<1> QED
  BY <1>1, <1>2, <1>3, Invariant, PTL DEF Spec

-----------------------------------------------------------------------------
(* The refinement of Directory *)

\* The holder of an address is its one account.
LEMMA HolderOf ==
    ASSUME UniqueEmails, NEW e \in Emails
    PROVE  /\ WithEmail(e) = {} => Holder(e) = None
           /\ \A a \in WithEmail(e) : WithEmail(e) = {a} /\ Holder(e) = a
           /\ \A a \in Accounts : Holder(e) = a <=> a \in WithEmail(e)
<1>1. WithEmail(e) = {} => Holder(e) = None
  BY DEF Holder
<1>2. ASSUME NEW a \in WithEmail(e)  PROVE WithEmail(e) = {a} /\ Holder(e) = a
  <2>1. WithEmail(e) = {a}
    BY <1>2 DEF WithEmail, UniqueEmails
  <2>2. (CHOOSE x \in {a} : TRUE) = a
    OBVIOUS
  <2> QED
    BY <2>1, <2>2 DEF Holder
<1> QED
  BY <1>1, <1>2, NoneAssumption

\* An address keeps its holder while it keeps its accounts.
LEMMA HolderSame ==
    ASSUME NEW e, WithEmail(e)' = WithEmail(e)
    PROVE  Holder(e)' = Holder(e)
  BY DEF Holder

\* Steps that keep the addresses of the accounts there are.
LEMMA HoldersKept ==
    ASSUME IInv, NEW a \in Minted, NEW u \in User, user' = [user EXCEPT ![a] = u],
           u.email = user[a].email, u.stored = user[a].stored
    PROVE  /\ Minted' = Minted /\ \A e \in Emails : Holder(e)' = Holder(e)
           /\ user'[a] = u /\ \A b \in Minted \ {a} : user'[b] = user[b]
<1>1. user \in [Accounts -> User \cup {None}] /\ a \in Accounts
  BY Accounted DEF IInv, TypeInv, TypeOK
<1>2. u # None /\ user[a] # None
  BY NoneIsNoDocument DEF Minted
<1>3. user'[a] = u /\ \A b \in Accounts \ {a} : user'[b] = user[b]
  BY <1>1
<1>4. Minted' = Minted
  BY <1>2, <1>3 DEF Minted
<1>5. \A e \in Emails : WithEmail(e)' = WithEmail(e)
  BY <1>3, <1>4 DEF WithEmail, Existing
<1> QED
  BY <1>3, <1>4, <1>5, HolderSame DEF Minted

\* The initial states are initial states of the directory.
LEMMA InitMaps ==
    ASSUME Init
    PROVE  Abstract!Init
<1>1. IInv /\ UniqueEmails
  BY InitInv DEF IInv
<1>2. /\ Minted \subseteq Old /\ dead = [a \in Accounts |-> {}]
      /\ user \in [Accounts -> {None} \cup {OldUser(Lower[e]) : e \in Emails}]
  BY DEF Init
<1>3. ASSUME NEW a \in Minted
      PROVE  /\ user[a].email \in Emails /\ user[a].password = None /\ user[a].sub = None
             /\ a \in Existing
  BY <1>2, TextAssumption DEF Minted, Existing, OldUser
<1>4. ASSUME NEW e \in Emails  PROVE Holder(e) \in Old \cup {None}
  BY <1>1, <1>2, HolderOf DEF WithEmail, Existing
<1>5. ASSUME NEW d \in Emails, NEW e \in Emails, Holder(d) = Holder(e)
      PROVE  d = e \/ Holder(d) = None
  <2>1. CASE WithEmail(d) = {}
    BY <2>1, <1>1, HolderOf
  <2>2. ASSUME NEW a \in WithEmail(d)  PROVE d = e
    <3>1. a \in Accounts /\ Holder(e) = a
      BY <2>2, <1>1, <1>5, HolderOf DEF WithEmail, Existing, Minted
    <3>2. a \in WithEmail(e)
      BY <3>1, <1>1, HolderOf
    <3> QED
      BY <2>2, <3>2 DEF WithEmail
  <2> QED
    BY <2>1, <2>2
<1>6. ASSUME NEW a \in Accounts
      PROVE  a \in Accounts \ Minted <=> ~\E e \in Emails : Holder(e) = a
  <2>1. CASE a \in Minted
    BY <2>1, <1>1, <1>3, <1>6, HolderOf DEF WithEmail
  <2>2. CASE a \notin Minted
    BY <2>2, <1>1, <1>6, HolderOf DEF WithEmail, Existing
  <2> QED
    BY <2>1, <2>2
<1> DEFINE h == [e \in Emails |-> Holder(e)]
<1>7. /\ h \in [Emails -> Old \cup {None}]
      /\ \A d, e \in Emails : h[d] = h[e] => d = e \/ h[d] = None
      /\ \A a \in Accounts : a \in Accounts \ Minted <=> ~\E e \in Emails : h[e] = a
  BY <1>4, <1>5, <1>6
<1>8. /\ [a \in Accounts |-> IF a \in Minted THEN user[a].password ELSE None]
             = [a \in Accounts |-> None]
      /\ [a \in Accounts |-> IF a \in Minted THEN user[a].sub ELSE None]
             = [a \in Accounts |-> None]
  BY <1>3
<1> QED
  BY <1>2, <1>7, <1>8 DEF Abstract!Init, Abstract!Holds

\* A step that touches neither an account nor what resets promised.
LEMMA ReadMaps ==
    ASSUME UNCHANGED <<user, dead>>
    PROVE  UNCHANGED Abstract!vars
<1>1. Minted' = Minted /\ \A e : Holder(e)' = Holder(e)
  BY DEF Minted, Holder, WithEmail, Existing
<1> QED
  BY <1>1 DEF Abstract!vars

\* The insert of an account, where the unique index found the address free.
LEMMA OpenMaps ==
    ASSUME IInv, NEW a \in Accounts \ (Minted \cup Old), NEW u \in User,
           user' = [user EXCEPT ![a] = u], u.stored, WithEmail(u.email) = {}, dead' = dead
    PROVE  Abstract!Open(a)
<1>1. /\ user'[a] = u /\ \A b \in Accounts \ {a} : user'[b] = user[b]
      /\ u # None /\ u.email \in Emails
      /\ u.password \in Passwords \cup {None} /\ u.sub \in Subs \cup {None}
  BY NoneIsNoDocument DEF IInv, TypeInv, TypeOK, User
<1>2. Minted' = Minted \cup {a}
  BY <1>1 DEF Minted
<1>3. WithEmail(u.email)' = {a}
  BY <1>1, <1>2 DEF WithEmail, Existing, Minted
<1>4. \A e \in Emails \ {u.email} : WithEmail(e)' = WithEmail(e)
  BY <1>1, <1>2 DEF WithEmail, Existing, Minted
<1>5. Holder(u.email)' = a /\ Holder(u.email) = None
  <2>1. (CHOOSE x \in {a} : TRUE) = a
    OBVIOUS
  <2> QED
    BY <1>3, <2>1 DEF Holder
<1>6. \A e \in Emails \ {u.email} : Holder(e)' = Holder(e)
  BY <1>4, HolderSame
<1> DEFINE h == [e \in Emails |-> Holder(e)]
           p == [b \in Accounts |-> IF b \in Minted THEN user[b].password ELSE None]
           s == [b \in Accounts |-> IF b \in Minted THEN user[b].sub ELSE None]
<1>7. h[u.email] = None /\ h' = [h EXCEPT ![u.email] = a]
  BY <1>1, <1>5, <1>6
<1>8. p' = [p EXCEPT ![a] = u.password]
  <2>1. \A b \in Accounts : (IF b \in Minted' THEN user'[b].password ELSE None)
            = IF b = a THEN u.password ELSE IF b \in Minted THEN user[b].password ELSE None
    BY <1>1, <1>2
  <2> QED
    BY <2>1
<1>9. s' = [s EXCEPT ![a] = u.sub]
  <2>1. \A b \in Accounts : (IF b \in Minted' THEN user'[b].sub ELSE None)
            = IF b = a THEN u.sub ELSE IF b \in Minted THEN user[b].sub ELSE None
    BY <1>1, <1>2
  <2> QED
    BY <2>1
<1>10. (Accounts \ Minted)' = (Accounts \ Minted) \ {a}
  BY <1>2
<1> HIDE DEF h, p, s
<1> QED
  BY <1>1, <1>7, <1>8, <1>9, <1>10 DEF Abstract!Open, h, p, s

\* The delete of the debug route.
LEMMA CloseMaps ==
    ASSUME IInv, NEW e \in Emails, NEW a \in WithEmail(e),
           user' = [user EXCEPT ![a].stored = FALSE], dead' = dead
    PROVE  Abstract!Close(e)
<1> DEFINE u == [user[a] EXCEPT !.stored = FALSE]
<1>1. /\ user \in [Accounts -> User \cup {None}] /\ a \in Minted /\ a \in Accounts
      /\ user[a] \in User /\ user[a].email = e
  BY Accounted DEF IInv, TypeInv, TypeOK, WithEmail, Existing
<1>2. /\ u \in User /\ ~u.stored /\ u.password = user[a].password /\ u.sub = user[a].sub
      /\ user' = [user EXCEPT ![a] = u]
  BY <1>1 DEF User
<1> HIDE DEF u
<1>3. user'[a] = u /\ \A b \in Accounts \ {a} : user'[b] = user[b]
  BY <1>1, <1>2
<1>4. Minted' = Minted
  BY <1>1, <1>2, <1>3, NoneIsNoDocument DEF Minted
<1>5. WithEmail(e) = {a} /\ Holder(e) = a /\ a # None
  BY <1>1, HolderOf, NoneAssumption DEF IInv
<1>6. WithEmail(e)' = {}
  BY <1>2, <1>3, <1>4, <1>5 DEF WithEmail, Existing, Minted
<1>7. \A d \in Emails \ {e} : WithEmail(d)' = WithEmail(d)
  BY <1>1, <1>2, <1>3, <1>4 DEF WithEmail, Existing, Minted
<1>8. Holder(e)' = None /\ \A d \in Emails \ {e} : Holder(d)' = Holder(d)
  <2>1. Holder(e)' = None
    BY <1>6 DEF Holder
  <2> QED
    BY <2>1, <1>7, HolderSame
<1> DEFINE h == [d \in Emails |-> Holder(d)]
<1>9. h[e] # None /\ h' = [h EXCEPT ![e] = None]
  <2>1. \A d \in Emails : Holder(d)' = IF d = e THEN None ELSE Holder(d)
    BY <1>8
  <2> QED
    BY <1>5, <2>1
<1>10. \A b \in Minted : user'[b].password = user[b].password /\ user'[b].sub = user[b].sub
  BY <1>2, <1>3 DEF Minted
<1> HIDE DEF h
<1> QED
  BY <1>4, <1>9, <1>10 DEF Abstract!Close, h

\* The update that binds an old account to the identity of a login.
LEMMA BindMaps ==
    ASSUME IInv, NEW r \in Reqs, UpgradeSub(r)
    PROVE  [Abstract!Next]_(Abstract!vars)
<1>0. PICK a : a = req[r].account
  OBVIOUS
<1> DEFINE i == req[r].sub
           u == [user[a] EXCEPT !.sub = i]
<1>1. CASE UNCHANGED user
  <2>1. UNCHANGED <<user, dead>>
    BY <1>1 DEF UpgradeSub, ghosts
  <2> QED
    BY <2>1, ReadMaps
<1>2. CASE a \in Existing /\ user' = [user EXCEPT ![a] = u]
  <2>1. /\ a \in Minted /\ a \in Accounts /\ user[a] \in User /\ a \in Old /\ i \in Subs
        /\ dead' = dead /\ user[a].email \in Emails
    BY <1>0, <1>2, Accounted DEF UpgradeSub, At, ghosts, Existing, IInv, TypeInv, Fits,
                                 GoogleInv, GoogleFits, User
  <2>2. /\ u \in User /\ u.email = user[a].email /\ u.stored = user[a].stored
        /\ u.password = user[a].password /\ u.sub = i
    BY <2>1 DEF User
  <2> HIDE DEF u
  <2>3. /\ Minted' = Minted /\ \A e \in Emails : Holder(e)' = Holder(e)
        /\ user'[a] = u /\ \A b \in Minted \ {a} : user'[b] = user[b]
    BY <1>2, <2>1, <2>2, HoldersKept
  <2>4. Holder(user[a].email) = a
    BY <1>2, <2>1, HolderOf DEF IInv, WithEmail
  <2> HIDE DEF i
  <2> DEFINE p == [b \in Accounts |-> IF b \in Minted THEN user[b].password ELSE None]
             s == [b \in Accounts |-> IF b \in Minted THEN user[b].sub ELSE None]
             h == [e \in Emails |-> Holder(e)]
  <2>5. p' = p /\ s' = [s EXCEPT ![a] = i]
    BY <2>1, <2>2, <2>3
  <2>6. h' = h /\ (\E e \in Emails : h[e] = a) /\ (Accounts \ Minted)' = Accounts \ Minted
    BY <2>1, <2>3, <2>4
  <2> HIDE DEF p, s, h
  <2>7. Abstract!Bind(a)
    BY <2>1, <2>5, <2>6 DEF Abstract!Bind, Abstract!Holds, p, s, h
  <2>8. Abstract!Next
    BY <2>1, <2>7 DEF Abstract!Next
  <2> QED
    BY <2>8
<1> QED
  BY <1>0, <1>1, <1>2 DEF UpgradeSub

\* The password of a reset and what its answer promises.
LEMMA ResetMaps ==
    ASSUME IInv, NEW r \in Reqs, SetPassword(r)
    PROVE  [Abstract!Next]_(Abstract!vars)
<1>0. PICK a : a = token[req[r].token].user
  OBVIOUS
<1> DEFINE n == req[r].password
           old == req[r].old
           u == [user[a] EXCEPT !.password = n]
<1>1. /\ n \in Passwords /\ old \in Passwords \cup {None}
      /\ a \in Minted /\ a \in Accounts /\ user[a] \in User /\ user[a].email \in Emails
  BY <1>0, Accounted DEF SetPassword, At, IInv, TypeInv, TypeOK, Fits, TokensFit, User, Request
<1>2. n \notin dead[a] \cup {old} /\ dead \in [Accounts -> SUBSET (Passwords \cup {None})]
  BY <1>1 DEF SetPassword, At, IInv, TypeInv, TypeOK, PasswordInv, Unique, Carries
<1>3. \/ a \in Existing /\ user' = [user EXCEPT ![a] = u]
      \/ a \notin Existing /\ user' = user
      \/ UNCHANGED <<user, dead>>
  BY <1>0 DEF SetPassword, Change
<1>4. dead' = dead \/ dead' = [dead EXCEPT ![a] = @ \cup {old}]
  BY <1>0 DEF SetPassword, Promise
<1>5. n \notin dead'[a]
  BY <1>1, <1>2, <1>4
<1>held. a \in Existing <=> \E e \in Emails : Holder(e) = a
  <2>1. a \in Existing => Holder(user[a].email) = a
    BY <1>1, HolderOf DEF IInv, WithEmail
  <2>2. \A e \in Emails : Holder(e) = a => a \in Existing
    BY <1>1, HolderOf DEF IInv, WithEmail
  <2> QED
    BY <1>1, <2>1, <2>2
<1>user. /\ u \in User /\ u.email = user[a].email /\ u.stored = user[a].stored
         /\ u.password = n /\ u.sub = user[a].sub
  BY <1>1 DEF User
<1> HIDE DEF u, n, old
<1> DEFINE p == [b \in Accounts |-> IF b \in Minted THEN user[b].password ELSE None]
           s == [b \in Accounts |-> IF b \in Minted THEN user[b].sub ELSE None]
           h == [e \in Emails |-> Holder(e)]
<1>6. a \in Existing <=> \E e \in Emails : h[e] = a
  BY <1>held
<1>7. CASE a \in Existing /\ user' = [user EXCEPT ![a] = u]
  <2>1. /\ Minted' = Minted /\ \A e \in Emails : Holder(e)' = Holder(e)
        /\ user'[a] = u /\ \A b \in Minted \ {a} : user'[b] = user[b]
    BY <1>1, <1>7, <1>user, HoldersKept
  <2>2. p' = [p EXCEPT ![a] = n] /\ s' = s
    BY <1>1, <1>user, <2>1
  <2>3. h' = h /\ (Accounts \ Minted)' = Accounts \ Minted /\ a \notin Accounts \ Minted
    BY <1>1, <2>1
  <2> HIDE DEF p, s, h
  <2>4. Abstract!Reset(a)
    BY <1>1, <1>4, <1>5, <1>6, <1>7, <2>2, <2>3
       DEF Abstract!Reset, Abstract!Retires, Abstract!Holds, p, s, h
  <2>5. Abstract!Next
    BY <1>1, <2>4 DEF Abstract!Next
  <2> QED
    BY <2>5
<1>8. CASE a \notin Existing /\ user' = user
  <2>1. CASE dead' = dead
    BY <1>8, <2>1, ReadMaps
  <2>2. CASE dead' = [dead EXCEPT ![a] = @ \cup {old}]
    <3>1. Minted' = Minted /\ \A e : Holder(e)' = Holder(e)
      BY <1>8 DEF Minted, Holder, WithEmail, Existing
    <3>2. p' = p /\ s' = s /\ h' = h /\ (Accounts \ Minted)' = Accounts \ Minted
          /\ a \notin Accounts \ Minted
      BY <1>1, <1>8, <3>1
    <3> HIDE DEF p, s, h
    <3>3. Abstract!Reset(a)
      BY <1>1, <1>6, <1>8, <2>2, <3>2
         DEF Abstract!Reset, Abstract!Retires, Abstract!Holds, p, s, h
    <3>4. Abstract!Next
      BY <1>1, <3>3 DEF Abstract!Next
    <3> QED
      BY <3>4
  <2> QED
    BY <1>4, <2>1, <2>2
<1>9. CASE UNCHANGED <<user, dead>>
  BY <1>9, ReadMaps
<1> QED
  BY <1>3, <1>7, <1>8, <1>9

\* Signups, logins, requests for a token, the debug route.
LEMMA PlainMaps ==
    ASSUME IInv, NEW r \in Reqs, PlainStep(r)
    PROVE  [Abstract!Next]_(Abstract!vars)
<1>1. dead' = dead
  BY DEF PlainStep, ghosts, CountEmail, InsertUser, FindByEmail, FindGoogleUser, UpgradeSub,
         ReloadUser, OpenSession, FindForgotten, CreateToken, RemoveTestUser, RecreateTestUser
<1>2. CASE UNCHANGED user
  BY <1>1, <1>2, ReadMaps
<1>3. ASSUME NEW a \in Accounts, Abstract!Open(a)  PROVE Abstract!Next
  BY <1>3 DEF Abstract!Next
<1>4. ASSUME NEW e \in Emails, Abstract!Close(e)  PROVE Abstract!Next
  BY <1>4 DEF Abstract!Next
<1>5. CASE InsertUser(r)
  <2>1. ASSUME NEW a \in Accounts \ (Minted \cup Old), Inserted(r, a),
               WithEmail(req[r].email) = {}
        PROVE  Abstract!Next
    <3> DEFINE u == NewUser(r)
    <3>0. req \in [Reqs -> Request] /\ Fits(r) /\ req[r].op \in {"signup", "google"}
      BY <1>5 DEF InsertUser, At, IInv, TypeInv, TypeOK
    <3>1. /\ u \in User /\ u.stored /\ u.email = req[r].email
      BY <3>0 DEF NewUser, User, Fits, Request
    <3>2. user' = [user EXCEPT ![a] = u]
      BY <2>1 DEF Inserted
    <3> HIDE DEF u
    <3> QED
      BY <1>1, <1>3, <2>1, <3>1, <3>2, OpenMaps
  <2> QED
    BY <1>2, <1>5, <2>1 DEF InsertUser
<1>6. CASE RecreateTestUser(r)
  <2>1. TestUser \in User /\ TestUser.stored /\ TestUser.email = TestEmail
    BY TestAssumption DEF TestUser, User
  <2>2. ASSUME NEW a \in Accounts \ (Minted \cup Old), WithEmail(TestEmail) = {},
               user' = [user EXCEPT ![a] = TestUser]
        PROVE  Abstract!Next
    BY <1>1, <1>3, <2>1, <2>2, OpenMaps
  <2> QED
    BY <1>2, <1>6, <2>2 DEF RecreateTestUser
<1>7. CASE RemoveTestUser(r)
  <2>1. ASSUME NEW a \in WithEmail(TestEmail), user' = [user EXCEPT ![a].stored = FALSE]
        PROVE  Abstract!Next
    BY <1>1, <1>4, <2>1, CloseMaps, TestAssumption
  <2> QED
    BY <1>2, <1>7, <2>1 DEF RemoveTestUser
<1>8. CASE UpgradeSub(r)
  BY <1>8, BindMaps
<1>9. CASE \/ CountEmail(r) \/ FindByEmail(r) \/ FindGoogleUser(r) \/ ReloadUser(r)
           \/ OpenSession(r) \/ FindForgotten(r) \/ CreateToken(r)
  BY <1>2, <1>9 DEF CountEmail, FindByEmail, FindGoogleUser, ReloadUser, OpenSession,
                    FindForgotten, CreateToken
<1> QED
  BY <1>5, <1>6, <1>7, <1>8, <1>9 DEF PlainStep

LEMMA StepMaps ==
    ASSUME IInv, [Next]_vars
    PROVE  [Abstract!Next]_(Abstract!vars)
<1>1. ASSUME NEW r \in Reqs, Arrive(r)  PROVE UNCHANGED <<user, dead>>
  BY <1>1 DEF Arrive, StartSignup, StartLogin, StartGoogle, StartForgot, StartReset, StartDebug,
              ghosts
<1>2. ASSUME NEW r \in Reqs, FindToken(r) \/ MarkUsed(r)  PROVE UNCHANGED <<user, dead>>
  BY <1>2 DEF FindToken, MarkUsed, ghosts
<1>3. ASSUME NEW t \in Tokens, PurgeToken(t)  PROVE UNCHANGED <<user, dead>>
  BY <1>3 DEF PurgeToken, ghosts
<1>4. CASE UNCHANGED <<user, token, req, changes, dead>>
  BY <1>4, ReadMaps
<1> QED
  BY <1>1, <1>2, <1>3, <1>4, ReadMaps, PlainMaps, ResetMaps, StepCases

\* The handlers of signup, login, Google login, reset and the debug route implement
\* the directory: each of their commands opens, closes, binds or resets an account as
\* it allows, or changes nothing a client may count on.
THEOREM Refinement == Spec => ImplementsDirectory
  BY Invariant, InitMaps, StepMaps, PTL DEF Spec, ImplementsDirectory, Abstract!Spec

=============================================================================
