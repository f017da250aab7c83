SPECIFICATION Spec
CONSTANTS
    Modes = {"pkcs12", "pkcs11", "pkcs11_openssl"}
    MaxCandidates = 3
    MaxPinAttempts = 2
    MaxObjects = 2
    MaxEntries = 2
    Token = {"red", "blue"}
    NumSlots = 2
    SlotWait = 1
    MaxMoves = 2
    TokenTries = 3
INVARIANTS
    
    RefusedForCause
    DevicesReleased
    LoginNeverLocksToken
    
