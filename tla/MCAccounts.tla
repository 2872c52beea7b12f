----------------------------- MODULE MCAccounts -----------------------------
(* Instances of Accounts for TLC. *)
EXTENDS Accounts, TLC

\* Two spellings of one address, and a password with a space at its end.
LowerCase == [e \in Emails |-> "ann"]
TrimSpace == [p \in Passwords |-> IF p = "password123 " THEN "password123"
                                  ELSE IF p = "secret " THEN "secret" ELSE p]

\* Every command but the update that marks a token, and the insert of the test
\* account, whose failure leaves what is there between its two commands anyway.
AllButMarking == {"count", "find", "insert", "upgrade", "reload", "token", "consume",
                  "setPassword", "delete"}
AllOps == {"signup", "login", "google", "forgot", "reset", "debug"}
ResetOps == {"signup", "forgot", "reset"}

Symmetry == Permutations(Reqs) \cup Permutations(Subs)
                \cup Permutations(Accounts \ Old)
=============================================================================
