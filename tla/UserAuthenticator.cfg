SPECIFICATION FairSpec
CONSTANTS
    NoRow = NoRow  NoUser = NoUser  Empty = Empty  Never = Never
    Clients = {c1, c2}
    Users = {u1, u2}
    ValidNames = {u1}
    Passwords = {p1, p2, weak}
    Policies = {{p1, p2}, {p1, p2, weak}}
    MaxAttempts = 2
    LockoutDuration = 2
    FailedBound = 4
    SqlOutcomes = {TRUE, FALSE}
INVARIANTS TypeOK CacheCoherent BruteForceBound LoginMatchesDatabase
PROPERTIES RegisterNeverOverwrites LockExpires
