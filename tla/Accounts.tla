------------------------------ MODULE Accounts ------------------------------
(***************************************************************************)
(* Accounts: signup, the credential check of a login, Google login with    *)
(* its find-or-create, the password reset with its single-use token, and   *)
(* the debug route that replaces the test account.                         *)
(* A request performs one MongoDB command per step.  What a granted login  *)
(* does afterwards, and the revocation that ends a reset, are in Sessions. *)
(***************************************************************************)
EXTENDS Integers

CONSTANTS
    Accounts,       \* user ids
    Emails,         \* spellings of addresses
    Lower,          \* strings.ToLower on them
    Passwords,      \* what people type as a password
    Blank,          \* the empty password
    Trim,           \* strings.TrimSpace on them
    Subs,           \* Google identities
    TestEmail, TestPassword,    \* of the account the debug route makes
    Tokens,         \* password reset tokens
    Reqs,           \* request slots: how many requests overlap
    None,           \* no account, no password, no identity, ...
    Old,            \* the ids of accounts made before google_sub existed
    TokenTTL,       \* resetTokenTTL, in clock ticks
    Faulty,         \* the steps whose MongoDB command may fail
    Ops,            \* bound: the operations of a run
    MaxTime         \* bound: the clock stops here

ASSUME TextAssumption ==
    /\ Lower \in [Emails -> Emails]
    /\ Blank \in Passwords /\ Trim \in [Passwords -> Passwords] /\ Trim[Blank] = Blank
ASSUME NoneAssumption ==
    None \notin Accounts \cup Passwords \cup Subs \cup Tokens \cup Emails
                     \cup {"password", "google"}
ASSUME TestAssumption == TestEmail \in Emails /\ TestPassword \in Passwords \ {Blank}
ASSUME OldAssumption == Old \subseteq Accounts
ASSUME TimeAssumption == TokenTTL \in Nat \ {0} /\ MaxTime \in Nat

VARIABLES
    now,        \* the clock
    user,       \* the users collection, None = never made
    token,      \* the password_reset_tokens collection, None = never made
    req,        \* the requests in flight
    spent,      \* tokens whose reset was answered OK
    changes,    \* how many passwords a token has changed
    chosen,     \* the passwords chosen so far
    dead        \* passwords replaced by a reset that was answered OK

ghosts == <<spent, changes, chosen, dead>>
vars == <<now, user, token, req, spent, changes, chosen, dead>>

-----------------------------------------------------------------------------
User == [email : Emails, password : Passwords \cup {None}, provider : {"password", "google", None},
         sub : Subs \cup {None}, stored : BOOLEAN]
Token == [user : Accounts, expires : Nat, used : BOOLEAN, stored : BOOLEAN]
ASSUME NoneIsNoDocument == None \notin User \cup Token

Steps == {"idle", "count", "find", "insert", "upgrade", "reload", "session",
          "token", "consume", "markUsed", "setPassword", "delete", "recreate"}

\* seen: the password in the copy of the account the handler read; old: the
\* password the account had when a reset was asked for.
Request == [op : {"none", "signup", "login", "google", "forgot", "reset", "debug"}, at : Steps,
            email : Emails \cup {None}, password : Passwords \cup {None},
            sub : Subs \cup {None}, account : Accounts \cup {None},
            token : Tokens \cup {None}, seen : Passwords \cup {None},
            old : Passwords \cup {None}]
Idle == [op |-> "none", at |-> "idle", email |-> None, password |-> None, sub |-> None,
         account |-> None, token |-> None, seen |-> None, old |-> None]

Minted == {a \in Accounts : user[a] # None}
Existing == {a \in Minted : user[a].stored}
WithEmail(e) == {a \in Existing : user[a].email = e}

At(r, ops, step) == req[r].op \in ops /\ req[r].at = step
Goto(r, step) == req' = [req EXCEPT ![r].at = step]
Reply(r) == req' = [req EXCEPT ![r] = Idle]
Start(r, call) == req[r] = Idle /\ call.op \in Ops /\ req' = [req EXCEPT ![r] = call]

\* There may be an account from before google_sub: Google, and no identity bound to it.
OldUser(e) == [email |-> e, password |-> None, provider |-> "google", sub |-> None,
               stored |-> TRUE]

Init ==
    /\ now = 1
    /\ user \in [Accounts -> {None} \cup {OldUser(Lower[e]) : e \in Emails}]
    /\ Minted \subseteq Old
    /\ \A a, b \in Existing : user[a].email = user[b].email => a = b
    /\ token = [t \in Tokens |-> None]
    /\ req = [r \in Reqs |-> Idle]
    /\ spent = {}
    /\ changes = [t \in Tokens |-> 0]
    /\ chosen = {TestPassword}
    /\ dead = [a \in Accounts |-> {}]

-----------------------------------------------------------------------------
(* Requests arrive *)

\* Bound: a password is chosen once, so that it tells which write took effect.
Choose(p) == p \notin chosen /\ chosen' = chosen \cup {p}

\* The validator wants eight characters: not the empty password.
StartSignup(r, e, p) ==
    /\ p # Blank /\ Choose(p)
    /\ Start(r, [Idle EXCEPT !.op = "signup", !.at = "count", !.email = e, !.password = p])
    /\ UNCHANGED <<now, user, token, spent, changes, dead>>

\* The password is only used trimmed.
StartLogin(r, e, p) ==
    /\ p # Blank
    /\ Start(r, [Idle EXCEPT !.op = "login", !.at = "find", !.email = e, !.password = Trim[p]])
    /\ UNCHANGED <<now, user, token, ghosts>>

\* The verified email of a Google ID token, lowered; the password is "".
StartGoogle(r, e, s) ==
    /\ Start(r, [Idle EXCEPT !.op = "google", !.at = "find", !.email = Lower[e],
                             !.sub = s, !.password = Blank])
    /\ UNCHANGED <<now, user, token, ghosts>>

StartForgot(r, e) ==
    /\ Start(r, [Idle EXCEPT !.op = "forgot", !.at = "find", !.email = e])
    /\ UNCHANGED <<now, user, token, ghosts>>

\* The tags of resetPasswordReq are never validated: any new password will do.
StartReset(r, t, p) ==
    /\ token[t] # None
    /\ Choose(p)
    /\ Start(r, [Idle EXCEPT !.op = "reset", !.at = "consume", !.token = t, !.password = p,
                             !.old = user[token[t].user].password])
    /\ UNCHANGED <<now, user, token, spent, changes, dead>>

StartDebug(r) ==
    /\ Start(r, [Idle EXCEPT !.op = "debug", !.at = "delete"])
    /\ UNCHANGED <<now, user, token, ghosts>>

-----------------------------------------------------------------------------
(* Signup *)

\* The error of the count is dropped, and the count is 0 then.
CountEmail(r) ==
    /\ At(r, {"signup"}, "count")
    /\ \/ WithEmail(req[r].email) # {} /\ Reply(r)
       \/ (WithEmail(req[r].email) = {} \/ "count" \in Faulty) /\ Goto(r, "insert")
    /\ UNCHANGED <<now, user, token, ghosts>>

NewUser(r) ==
    [email |-> req[r].email, sub |-> req[r].sub, stored |-> TRUE,
     password |-> IF req[r].op = "signup" THEN req[r].password ELSE None,
     provider |-> IF req[r].op = "signup" THEN "password" ELSE "google"]

Inserted(r, a) ==
    /\ user' = [user EXCEPT ![a] = NewUser(r)]
    /\ \/ req[r].op = "google" /\ req' = [req EXCEPT ![r].at = "session", ![r].account = a]
       \/ req[r].op = "signup" /\ Reply(r)

\* Mutant of InsertUser: without the unique index on email.
InsertUserUnindexed(r) ==
    /\ At(r, {"signup", "google"}, "insert")
    /\ \E a \in Accounts \ (Minted \cup Old) : Inserted(r, a)
    /\ UNCHANGED <<now, token, ghosts>>

\* Mutant of InsertUser: the error is dropped, the new account is used anyway.
InsertUserUnchecked(r) ==
    /\ At(r, {"signup", "google"}, "insert")
    /\ \E a \in Accounts \ (Minted \cup Old) :
           \/ WithEmail(req[r].email) = {} /\ Inserted(r, a)
           \/ /\ WithEmail(req[r].email) # {}
              /\ req' = [req EXCEPT ![r].at = "session", ![r].account = a]
              /\ UNCHANGED user
    /\ UNCHANGED <<now, token, ghosts>>

\* InsertOne of Signup and of FindOrCreateGoogleUser; email is unique.
InsertUser(r) ==
    /\ At(r, {"signup", "google"}, "insert")
    /\ \/ /\ WithEmail(req[r].email) = {}
          /\ \E a \in Accounts \ (Minted \cup Old) : Inserted(r, a)
       \/ /\ WithEmail(req[r].email) # {} \/ "insert" \in Faulty
          /\ Reply(r)
          /\ UNCHANGED user
    /\ UNCHANGED <<now, token, ghosts>>

-----------------------------------------------------------------------------
(* Logging in *)

\* What a handler keeps of the account it has found.
Found(r, a, next) == req' = [req EXCEPT ![r].at = next, ![r].account = a,
                                        ![r].seen = user[a].password]

\* Login; an account without a password is asked to use Google.
FindByEmail(r) ==
    /\ At(r, {"login"}, "find")
    /\ LET found == {a \in WithEmail(req[r].email) : user[a].password # None}
       IN  \/ \E a \in found : Found(r, a, "session")
           \/ (found = {} \/ "find" \in Faulty) /\ Reply(r)
    /\ UNCHANGED <<now, user, token, ghosts>>

\* Mutant of Refused: the identity is not compared.
RefusedAnySub(u, s) == u.provider = "password"

\* No takeover of a password account, no other identity of a Google account;
\* an account without a provider is for everybody who has the address.
Refused(u, s) ==
    u.provider = "password" \/ (u.provider = "google" /\ u.sub \notin {None, s})

\* Mutant of Unbound: any Google account takes the identity of the login.
UnboundAnyGoogle(u) == u.provider = "google"

Unbound(u) == u.provider = "google" /\ u.sub = None

\* A failing FindOne is taken for "no such account".
FindGoogleUser(r) ==
    /\ At(r, {"google"}, "find")
    /\ LET found == WithEmail(req[r].email)
           refused == {a \in found : Refused(user[a], req[r].sub)}
           unbound == {a \in found : Unbound(user[a])}
       IN  \/ refused # {} /\ Reply(r)
           \/ \E a \in unbound : Found(r, a, "upgrade")
           \/ \E a \in found \ (refused \cup unbound) : Found(r, a, "session")
           \/ (found = {} \/ "find" \in Faulty) /\ Goto(r, "insert")
    /\ UNCHANGED <<now, user, token, ghosts>>

\* The update is by _id alone, and its error is dropped.
UpgradeSub(r) ==
    /\ At(r, {"google"}, "upgrade")
    /\ \/ /\ req[r].account \in Existing
          /\ user' = [user EXCEPT ![req[r].account].sub = req[r].sub]
       \/ (req[r].account \notin Existing \/ "upgrade" \in Faulty) /\ UNCHANGED user
    /\ Goto(r, "reload")
    /\ UNCHANGED <<now, token, ghosts>>

\* The copy stays as it was when there is nothing to read.
ReloadUser(r) ==
    /\ At(r, {"google"}, "reload")
    /\ \/ req[r].account \in Existing /\ Found(r, req[r].account, "session")
       \/ (req[r].account \notin Existing \/ "reload" \in Faulty) /\ Goto(r, "session")
    /\ UNCHANGED <<now, user, token, ghosts>>

\* auth.Login compares with the copy read before: a Google login, whose
\* password is empty, fails once the account has a password.
Admits(r) == req[r].password = IF req[r].seen = None THEN Blank ELSE req[r].seen

OpenSession(r) ==
    /\ At(r, {"login", "google"}, "session")
    /\ Reply(r)
    /\ UNCHANGED <<now, user, token, ghosts>>

-----------------------------------------------------------------------------
(* Password reset *)

\* ForgotPassword: Google accounts get a token too.
FindForgotten(r) ==
    /\ At(r, {"forgot"}, "find")
    /\ \/ \E a \in WithEmail(req[r].email) :
              req' = [req EXCEPT ![r].at = "token", ![r].account = a]
       \/ (WithEmail(req[r].email) = {} \/ "find" \in Faulty) /\ Reply(r)
    /\ UNCHANGED <<now, user, token, ghosts>>

\* CreatePasswordResetToken.  Bound: nothing is asked for when all are made.
CreateToken(r) ==
    /\ At(r, {"forgot"}, "token")
    /\ \/ \E t \in Tokens :
              /\ token[t] = None
              /\ token' = [token EXCEPT ![t] = [user |-> req[r].account, used |-> FALSE,
                                                expires |-> now + TokenTTL, stored |-> TRUE]]
       \/ "token" \in Faulty /\ UNCHANGED token
       \/ (\A t \in Tokens : token[t] # None) /\ UNCHANGED token
    /\ Reply(r)
    /\ UNCHANGED <<now, user, ghosts>>

Consumable(t) == token[t].stored /\ ~token[t].used /\ token[t].expires > now

\* ConsumePasswordResetToken: a Find, and the update by _id that follows.
FindToken(r) ==
    /\ At(r, {"reset"}, "consume")
    /\ \/ Consumable(req[r].token) /\ Goto(r, "markUsed")
       \/ (~Consumable(req[r].token) \/ "consume" \in Faulty) /\ Reply(r)
    /\ UNCHANGED <<now, user, token, ghosts>>

\* Mutant of MarkUsed: the token is left as it was.
MarkNothing(r) ==
    /\ At(r, {"reset"}, "markUsed")
    /\ Goto(r, "setPassword")
    /\ UNCHANGED <<now, user, token, ghosts>>

\* The result and the error of the update are dropped.
MarkUsed(r) ==
    /\ At(r, {"reset"}, "markUsed")
    /\ \/ token' = [token EXCEPT ![req[r].token].used = TRUE]
       \/ "markUsed" \in Faulty /\ UNCHANGED token
    /\ Goto(r, "setPassword")
    /\ UNCHANGED <<now, user, ghosts>>

\* UpdateByID, which is no error without an account, and what a client that
\* reads "password reset successful" may count on; the revocation in between is
\* Sessions!StartReset.
Change(r) ==
    LET t == req[r].token
        a == token[t].user
    IN  \/ /\ a \in Existing
           /\ user' = [user EXCEPT ![a].password = req[r].password]
           /\ changes' = [changes EXCEPT ![t] = @ + 1]
        \/ a \notin Existing /\ UNCHANGED <<user, changes>>
Promise(r) ==
    LET t == req[r].token
    IN  /\ spent' = spent \cup {t}
        /\ dead' = [dead EXCEPT ![token[t].user] = @ \cup {req[r].old}]

\* Mutant of SetPassword: the error of the update is dropped.
SetPasswordUnchecked(r) ==
    /\ At(r, {"reset"}, "setPassword")
    /\ \/ Change(r)
       \/ "setPassword" \in Faulty /\ UNCHANGED <<user, changes>>
    /\ Promise(r)
    /\ Reply(r)
    /\ UNCHANGED <<now, token, chosen>>

\* 500 when the update fails, or may have failed; the token is used up.
SetPassword(r) ==
    /\ At(r, {"reset"}, "setPassword")
    /\ \/ Change(r) /\ Promise(r)
       \/ /\ "setPassword" \in Faulty
          /\ Change(r) \/ UNCHANGED <<user, changes>>
          /\ UNCHANGED <<spent, dead>>
    /\ Reply(r)
    /\ UNCHANGED <<now, token, chosen>>

\* MongoDB's TTL monitor on expires_at.
PurgeToken(t) ==
    /\ token[t] # None /\ token[t].stored /\ token[t].expires <= now
    /\ token' = [token EXCEPT ![t].stored = FALSE]
    /\ UNCHANGED <<now, user, req, ghosts>>

-----------------------------------------------------------------------------
(* The debug route *)

\* Whoever the account belongs to; the error is dropped.
RemoveTestUser(r) ==
    /\ At(r, {"debug"}, "delete")
    /\ LET found == WithEmail(TestEmail)
       IN  \/ \E a \in found : user' = [user EXCEPT ![a].stored = FALSE]
           \/ (found = {} \/ "delete" \in Faulty) /\ UNCHANGED user
    /\ Goto(r, "recreate")
    /\ UNCHANGED <<now, token, ghosts>>

\* Neither a password nor a Google account: auth_provider is left out.
TestUser == [email |-> TestEmail, password |-> TestPassword, provider |-> None, sub |-> None,
             stored |-> TRUE]

\* Mutant of RecreateTestUser: the account comes back under the id it had.
RecreateUnderOldId(r) ==
    /\ At(r, {"debug"}, "recreate")
    /\ \/ /\ WithEmail(TestEmail) = {}
          /\ \E a \in Minted : user' = [user EXCEPT ![a] = TestUser]
       \/ (WithEmail(TestEmail) # {} \/ Minted = {}) /\ UNCHANGED user
    /\ Reply(r)
    /\ UNCHANGED <<now, token, ghosts>>

\* The sessions deleted in between are in Sessions!DebugReset.
RecreateTestUser(r) ==
    /\ At(r, {"debug"}, "recreate")
    /\ \/ /\ WithEmail(TestEmail) = {}
          /\ \E a \in Accounts \ (Minted \cup Old) : user' = [user EXCEPT ![a] = TestUser]
       \/ (WithEmail(TestEmail) # {} \/ "recreate" \in Faulty) /\ UNCHANGED user
    /\ Reply(r)
    /\ UNCHANGED <<now, token, ghosts>>

Tick ==
    /\ now < MaxTime
    /\ now' = now + 1
    /\ UNCHANGED <<user, token, req, ghosts>>

Next ==
    \/ \E r \in Reqs, e \in Emails :
           \/ \E p \in Passwords : StartSignup(r, e, p) \/ StartLogin(r, e, p)
           \/ \E s \in Subs : StartGoogle(r, e, s)
           \/ StartForgot(r, e)
    \/ \E r \in Reqs, t \in Tokens, p \in Passwords : StartReset(r, t, p)
    \/ \E r \in Reqs :
           \/ CountEmail(r) \/ InsertUser(r)
           \/ FindByEmail(r) \/ FindGoogleUser(r) \/ UpgradeSub(r) \/ ReloadUser(r)
           \/ OpenSession(r)
           \/ FindForgotten(r) \/ CreateToken(r)
           \/ FindToken(r) \/ MarkUsed(r) \/ SetPassword(r)
           \/ StartDebug(r) \/ RemoveTestUser(r) \/ RecreateTestUser(r)
    \/ \E t \in Tokens : PurgeToken(t)
    \/ Tick

Spec == Init /\ [][Next]_vars

-----------------------------------------------------------------------------
(* Properties *)

\* The state has the shape the code gives it.
TypeOK ==
    /\ now \in Nat
    /\ user \in [Accounts -> User \cup {None}]
    /\ token \in [Tokens -> Token \cup {None}]
    /\ req \in [Reqs -> Request]
    /\ \A r \in Reqs : req[r].at \in {"reload", "session"} => req[r].account \in Minted
    /\ spent \subseteq Tokens
    /\ changes \in [Tokens -> Nat]
    /\ chosen \subseteq Passwords
    /\ dead \in [Accounts -> SUBSET (Passwords \cup {None})]

\* Signups and Google logins that all found the address free, because they
\* overlap or because their query failed, make one account of it.
UniqueEmails == \A a, b \in Existing : user[a].email = user[b].email => a = b

\* Once a reset was answered OK, the password it replaced is not that of the
\* account again, whatever fails or overlaps.
DeadPasswordsStayDead == \A a \in Existing : user[a].password \notin dead[a]

\* A reset token is refused once a reset with it was answered OK, as long as
\* MongoDB executes the update that marks it.
SpentTokenRefused ==
    [][\A r \in Reqs : At(r, {"reset"}, "consume") /\ req'[r].at = "markUsed"
           => req[r].token \notin spent]_vars

\* A reset token changes a password at most once.
TokenSingleUse == \A t \in Tokens : changes[t] <= 1

\* A Google login never opens a session of a password account, and of a Google
\* account only for the identity it was made with, however logins, signups and
\* debug resets with its address overlap.  (Accounts from before google_sub have
\* no identity yet: two overlapping first logins bind them twice; the test
\* account has no provider.)
Bound(a, s) ==
    /\ user[a].provider # "password"
    /\ a \in Old \/ user[a].provider = None \/ user[a].sub = s
Admitted(r, op) == At(r, {op}, "session") /\ Admits(r) /\ req'[r] = Idle
GoogleIdentity ==
    [][\A r \in Reqs : Admitted(r, "google") => Bound(req[r].account, req[r].sub)]_vars

\* The identity an account is made with is its identity for good, although the
\* update that binds one is by _id alone and decided on an earlier copy of the
\* account.  (Accounts from before google_sub get theirs at the first login.)
IdentityKept == [][\A a \in Minted \ Old : user'[a].sub = user[a].sub]_vars

-----------------------------------------------------------------------------
(* What a client may count on *)

Holder(e) == IF WithEmail(e) = {} THEN None ELSE CHOOSE a \in WithEmail(e) : TRUE

Abstract == INSTANCE Directory WITH
    holder <- [e \in Emails |-> Holder(e)],
    spare <- Accounts \ Minted,
    secret <- [a \in Accounts |-> IF a \in Minted THEN user[a].password ELSE None],
    identity <- [a \in Accounts |-> IF a \in Minted THEN user[a].sub ELSE None],
    retired <- dead

\* The handlers, each a few MongoDB commands without a lock or a transaction,
\* implement the directory of accounts, whatever overlaps and whatever fails.
ImplementsDirectory == Abstract!Spec

=============================================================================
