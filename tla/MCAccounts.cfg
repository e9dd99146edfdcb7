SPECIFICATION Spec
CONSTANTS
    r1 = r1
    r2 = r2
    r3 = r3
    n1 = n1
    n2 = n2
    e1 = e1
    e2 = e2
    p1 = p1
    p2 = p2
    t0 = t0
    t1 = t1
    Requests <- MCRequests
    Users <- MCUsers
    Emails <- MCEmails
    Passwords <- MCPasswords
    Tenants <- MCTenants
    Default = t0
    Unknown = Unknown
    Malformed = Malformed
    NoTenant = NoTenant
    Blank = Blank
    NoUser = NoUser
    NoToken = NoToken
    Unreadable = Unreadable
    MaxFaults = 1
SYMMETRY Symmetry
INVARIANTS
    RegistrationAnswers
    ServedAsRegistered
CHECK_DEADLOCK FALSE
