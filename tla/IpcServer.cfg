SPECIFICATION FairSpec

CONSTANTS
    Caller = {r1, r2, u1}
    Root = {r1, r2}
    MaxConnections = 1
    MAX_FRAME_BYTES = 3
    Lengths = {2, 3, 4}
    Versions = {1, 2}
    PROTOCOL_VERSION = 2

INVARIANTS
    NoFrameIsDropped

PROPERTIES
    CallIsAtMostOnce
    EveryCallReturns
