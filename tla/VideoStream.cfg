\* Two clients, five packets, one of them with a bogus header, a queue of two, a clock
\* that may step back, and one frame that the parser makes up.
CONSTANTS
    Micros = {100, 130}
    Cap = 2
    MaxPackets = 5
    MaxWire = 2
    MaxBogus = 1
    MaxJunk = 1

SPECIFICATION StreamSpec
VIEW Alike
CHECK_DEADLOCK FALSE

INVARIANTS
    StreamTypeOK
PROPERTIES
    Playable
    TimesRise
