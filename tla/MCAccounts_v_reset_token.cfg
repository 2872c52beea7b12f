SPECIFICATION Spec
CONSTANTS
    a1 = a1
    a2 = a2
    s1 = s1
    k1 = k1
    r1 = r1
    r2 = r2
    None = None
    Accounts = {a1, a2}
    Emails = {"ann", "Ann"}
    Lower <- LowerCase
    Passwords = {"", "secret", "secret ", "password123"}
    TestEmail = "ann"
    TestPassword = "password123"
    Blank = ""
    Trim <- TrimSpace
    Subs = {s1}
    Tokens = {k1}
    Reqs = {r1, r2}
    Old = {a1}
    TokenTTL = 1
    Faulty = {}
    Ops <- ResetOps
    MaxTime = 2
INVARIANT TokenSingleUse
CHECK_DEADLOCK FALSE
