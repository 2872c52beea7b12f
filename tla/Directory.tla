----------------------------- MODULE Directory -----------------------------
(***************************************************************************)
(* What a client may count on of the accounts, without queries, tokens,    *)
(* requests or clocks: an address has one account at a time and passes to  *)
(* another only after it was given up, an account given up never comes     *)
(* back, an account keeps the identity it was opened with, and only a      *)
(* reset changes a password, never to one that an answered reset replaced. *)
(***************************************************************************)
EXTENDS Integers

CONSTANTS Accounts, Emails, Passwords, Subs, None,
    Old         \* the accounts that may have been opened without an identity

VARIABLES
    holder,     \* the account of an address, None = the address is free
    spare,      \* the accounts that were never opened
    secret,     \* the password of an account, None = it has none
    identity,   \* the Google identity of an account, None = it has none
    retired     \* the passwords of an account that answered resets replaced

vars == <<holder, spare, secret, identity, retired>>

Holds(a) == \E e \in Emails : holder[e] = a

Init ==
    /\ holder \in [Emails -> Old \cup {None}]
    /\ \A d, e \in Emails : holder[d] = holder[e] => d = e \/ holder[d] = None
    /\ spare = {a \in Accounts : ~Holds(a)}
    /\ secret = [a \in Accounts |-> None]
    /\ identity = [a \in Accounts |-> None]
    /\ retired = [a \in Accounts |-> {}]

\* An address that is free gets a new account, with or without a password and an
\* identity.
Open(a) ==
    /\ a \in spare \ Old
    /\ spare' = spare \ {a}
    /\ \E e \in Emails : holder[e] = None /\ holder' = [holder EXCEPT ![e] = a]
    /\ \E p \in Passwords \cup {None} : secret' = [secret EXCEPT ![a] = p]
    /\ \E s \in Subs \cup {None} : identity' = [identity EXCEPT ![a] = s]
    /\ UNCHANGED retired

Close(e) ==
    /\ holder[e] # None
    /\ holder' = [holder EXCEPT ![e] = None]
    /\ UNCHANGED <<spare, secret, identity, retired>>

\* An account from before identities gets one.
Bind(a) ==
    /\ a \in Old
    /\ Holds(a)
    /\ \E s \in Subs : identity' = [identity EXCEPT ![a] = s]
    /\ UNCHANGED <<holder, spare, secret, retired>>

\* An answered reset replaces what was the password when it was asked for.
Retires(a) ==
    \E old \in Passwords \cup {None} : retired' = [retired EXCEPT ![a] = @ \cup {old}]

\* A reset.  It may take effect although its client was told that it failed, and
\* be answered OK although the account was given up.
Reset(a) ==
    /\ a \notin spare
    /\ \/ /\ Holds(a)
          /\ \E p \in Passwords : secret' = [secret EXCEPT ![a] = p] /\ p \notin retired'[a]
          /\ Retires(a) \/ UNCHANGED retired
       \/ ~Holds(a) /\ UNCHANGED secret /\ Retires(a)
    /\ UNCHANGED <<holder, spare, identity>>

\* Signups that find the address taken, logins, requests for a token.
Read == UNCHANGED vars

Next ==
    \/ Read
    \/ \E a \in Accounts : Open(a) \/ Bind(a) \/ Reset(a)
    \/ \E e \in Emails : Close(e)

Spec == Init /\ [][Next]_vars

=============================================================================
