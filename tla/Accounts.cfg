\* The two seeds and one user, two ways to log in, two threads, five requests; the
\* lock trips at the second failure, so that a third may come behind it.
CONSTANTS
    User = {root, admin, u}
    Via = {v1, v2}
    Root = root
    Seeded = admin
    NoUser = nouser
    NoVia = novia
    Thread = {h1, h2}
    MaxAttempts = 2
    MaxEvents = 5

SPECIFICATION Spec
SYMMETRY Interchangeable
CHECK_DEADLOCK FALSE

INVARIANTS
    TypeOK
    OldSessionsEnd
    BreakGlass
    LockBites
