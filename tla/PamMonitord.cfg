SPECIFICATION PamSpec
CONSTANTS
    s1 = s1
    s2 = s2
    u1 = u1
    x1 = x1
    l1 = l1
    l2 = l2
    t1 = t1
    SessionId = {s1, s2}
    Uid = {u1}
    UnknownUid = UnknownUid
    Serial = {x1}
    NoSerial = NoSerial
    LogindId = {l1, l2}
    NoLogind = NoLogind
    NoSession = NoSession
    NoId = NoId
    Client = {s1, s2}
    Nobody = Nobody
    TimerId = {t1}
    NoToken = NoToken
    NoTimer = NoTimer
    Idle = Idle
    OnUsbRemoved = "Logout"
    Requests = {}
    Disturbances = {"restart", "timeout"}
    MaxPending = 1
    MaxActions = 1
    FailMode = "strict"
    MaxTroubles = 2
    UidOf <- OneUser
SYMMETRY MCPamSymmetry
INVARIANTS
    AcknowledgedCloseIsFinal
    TargetFollowsLogin
    DeadSessionsAreDropped
