\* Two files, dropped in two tabs, of two chunks; two keys; one of the
\* tabs may lose its connection once.
CONSTANTS
    Uploads = {u1, u2}
    Keys = {"a", "b"}
    Installed = "a"
    Chunks = 2
    MaxDrops = 1

SPECIFICATION FairSpec
CHECK_DEADLOCK FALSE

INVARIANTS
    TypeOK
    DoneIsWhole
    LossIsTold
PROPERTIES
    UploadSettles
