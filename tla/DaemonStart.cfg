SPECIFICATION DaemonSpec

CONSTANTS
    MaxPersists = 2
    Torn = Torn
    AstraMac = TRUE
    Unset = Unset
    Situations <- MCSituations
    Pids = {1, 2}
    None = None

INVARIANTS
    RestartFindsLastPersist
    AcceptedConfigIsUsable
    ReadyIsEarned
    CheckedStacksWork
    StartFailsForCause
