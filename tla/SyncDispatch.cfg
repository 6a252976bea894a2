\* A master with one slave and two worker threads: four events.
CONSTANTS
    Slave = {s1}
    Master = m
    Job = {j1, j2}
    NoJob = nojob
    MaxEvents = 4

SPECIFICATION FairSpec
CHECK_DEADLOCK FALSE

INVARIANTS
    TypeOK
    WorkersExclude
PROPERTIES
    TapsComeBack
