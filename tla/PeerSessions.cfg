\* Two threads share three calls, one of which may replace the client.
CONSTANTS
    Thread = {t1, t2}
    MaxCalls = 3
    MaxSessions = 2
    MaxClients = 2
    None = none

SPECIFICATION Spec
SYMMETRY ThreadSymmetry
CHECK_DEADLOCK FALSE

INVARIANTS
    TypeOK
    OneSource
    NoLeakedPeer
    OneWayToHang
