\* Two requests at a time, a lock after two wrong passwords, which a third and
\* a fourth may follow, up to four wrong codes, two secrets and one reset link.
CONSTANTS
    Clients = {c1, c2}
    MaxFailed = 2
    LockTicks = 1
    MaxTime = 3
    MaxWrongs = 4
    MaxSecrets = 2
    MaxResets = 1
SYMMETRY ClientSymmetry
SPECIFICATION Spec
INVARIANTS
    CountsWrongPasswords
    ConfirmedIsInForce
    ResetOnce
PROPERTIES
    LockHolds
CHECK_DEADLOCK FALSE
