SPECIFICATION Spec
CONSTANTS
    s1 = s1
    s2 = s2
    u1 = u1
    u2 = u2
    x1 = x1
    l1 = l1
    c1 = c1
    t1 = t1
    t2 = t2
    SessionId = {s1, s2}
    Uid = {u1, u2}
    UnknownUid = UnknownUid
    Serial = {}
    NoSerial = NoSerial
    LogindId = {l1}
    NoLogind = NoLogind
    NoSession = NoSession
    NoId = NoId
    Client = {c1}
    Nobody = Nobody
    TimerId = {t1}
    NoToken = NoToken
    NoTimer = NoTimer
    Idle = Idle
    OnUsbRemoved = "Lock"
    Requests <- RegistryRequests
    Disturbances = {"restart", "persist_failure", "timeout", "listener_loss"}
    MaxPending = 1
    MaxActions = 1
INVARIANTS
    IndexConsistent
    DiskMatchesRegistry
CHECK_DEADLOCK FALSE
