\* A tab, two devices, two sessions made, two threads: five events.
CONSTANTS
    Device = {d1, d2}
    NoDevice = nodevice
    Handler = {h1, h2}
    Free = free
    MaxSessions = 2
    MaxEvents = 5

SPECIFICATION FairSpec
CHECK_DEADLOCK FALSE

INVARIANTS
    TypeOK
    LiveIsServed
PROPERTIES
    OneWayToLose
    HandlersReturn
