\* Two peers, two requests that switch, three controllers, four events.
CONSTANTS
    Peer = {p1, p2}
    Thread = {t1, t2}
    NoPeer = nopeer
    Wanted = {1000000}
    MaxControllers = 3
    MaxJobs = 2
    MaxEvents = 4

SPECIFICATION Spec
SYMMETRY Symmetry
CHECK_DEADLOCK FALSE

INVARIANTS
    TypeOK
    PeersFollow
PROPERTIES
    OneWayToForget
