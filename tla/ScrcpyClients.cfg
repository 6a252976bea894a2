\* Two threads share three calls on one device, with fair threads.
CONSTANTS
    Thread = {t1, t2}
    MaxCalls = 3
    Config = {lo, hi}
    Default = lo
    None = none

SPECIFICATION FairSpec
CHECK_DEADLOCK FALSE

INVARIANTS
    TypeOK
    NoOrphanServer
    StreamingClientIsCurrent
    ConfigHonoured
PROPERTY CallsReturn
