\* Two request threads and the sweeper on one device, with an administrator.
CONSTANTS
    Device = {d1}
    User = {u1, u2, root}
    Admin = {root}
    Removable = {}
    Nobody = nobody
    Thread = {t1, t2}
    Asked = {0, 9}
    MaxMinutes = 1
    Grace = 0
    Horizon = 3
    Multi = {FALSE}

SPECIFICATION Spec
SYMMETRY ThreadSymmetry
CHECK_DEADLOCK FALSE

INVARIANTS
    TypeOK
    LeaseWithinCap
    OrphanHasReaper
PROPERTIES
    EndAuthorised
    ExclusiveLease
