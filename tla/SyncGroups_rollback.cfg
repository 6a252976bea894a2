\* Two users, one of them removable, three devices, two threads: two groups,
\* three requests.
CONSTANTS
    Device = {d1, d2, d3}
    User = {u1, u2}
    Admin = {u2}
    Removable = {u1}
    Nobody = nobody
    None = none
    Thread = {t1, t2}
    Wanted = {{d1, d2}, {d3}}
    MaxGroups = 2
    MaxCalls = 3

SPECIFICATION GroupsSpec
CHECK_DEADLOCK FALSE

PROPERTIES
    RollbackIsOwn
