\* Fair threads on two devices: one request thread, the sweeper, a deletable
\* account, both values of allow_multi.
CONSTANTS
    Device = {d1, d2}
    User = {u1, u2}
    Admin = {u2}
    Removable = {u1}
    Nobody = nobody
    Thread = {t1}
    Asked = {1}
    MaxMinutes = 1
    Grace = 0
    Horizon = 2
    Multi = {FALSE, TRUE}

SPECIFICATION FairSpec
CHECK_DEADLOCK FALSE

PROPERTIES
    ExpiredIsReaped
    OrphanIsTornDown
