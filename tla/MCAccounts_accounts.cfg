SPECIFICATION Spec
CONSTANTS
    a1 = a1
    a2 = a2
    a3 = a3
    s1 = s1
    s2 = s2
    k1 = k1
    r1 = r1
    r2 = r2
    None = None
    Accounts = {a1, a2, a3}
    Emails = {"ann", "Ann"}
    Lower <- LowerCase
    Passwords = {"", "password123", "password123 "}
    TestEmail = "ann"
    TestPassword = "password123"
    Blank = ""
    Trim <- TrimSpace
    Subs = {s1, s2}
    Tokens = {k1}
    Reqs = {r1, r2}
    Old = {a1}
    TokenTTL = 1
    Faulty <- AllButMarking
    Ops <- AllOps
    MaxTime = 2
SYMMETRY Symmetry
INVARIANT TypeOK
INVARIANT UniqueEmails
INVARIANT DeadPasswordsStayDead
PROPERTY SpentTokenRefused
PROPERTY GoogleIdentity
PROPERTY IdentityKept
PROPERTY ImplementsDirectory
CHECK_DEADLOCK FALSE
