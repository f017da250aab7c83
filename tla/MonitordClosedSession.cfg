SPECIFICATION Spec
CONSTANTS
    s1 = s1
    s2 = s2
    u1 = u1
    u2 = u2
    x1 = x1
    l1 = l1
    c1 = c1
    t1 = t1
    t2 = t2
    SessionId = {s1}
    Uid = {u1}
    UnknownUid = UnknownUid
    Serial = {x1}
    NoSerial = NoSerial
    LogindId = {}
    NoLogind = NoLogind
    NoSession = NoSession
    NoId = NoId
    Client = {c1}
    Nobody = Nobody
    TimerId = {t1, t2}
    NoToken = NoToken
    NoTimer = NoTimer
    Idle = Idle
    OnUsbRemoved = "Shutdown"
    Requests <- DeviceRequests
    Disturbances = {}
    MaxPending = 2
    MaxActions = 1
PROPERTIES
    ClosedSessionIsNotActedOn
CHECK_DEADLOCK FALSE
