SPECIFICATION Spec
CONSTANTS
    NoRow = NoRow  NoUser = NoUser  Empty = Empty  Never = Never
    Clients = {c1}
    Users = {u1}
    ValidNames = {u1}
    Passwords = {p1, p2, weak}
    Policies = {{p1, p2}}
    MaxAttempts = 2
    LockoutDuration = 2
    FailedBound = 4
    SqlOutcomes = {TRUE}
INVARIANTS KnownUserIsFound
