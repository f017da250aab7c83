SPECIFICATION Spec
CONSTANTS
    h1 = h1
    Unknown = Unknown
    Empty = Empty
    Id = {h1, Unknown}
    FileKinds <- MCFileKinds
    Values <- MCValues
    Configs <- MCConfigs
    MaxChanges = 1
    MaxCalls = 2
INVARIANTS
    EnrolledHostIsAdmitted
    
    BackupIsPristine
PROPERTIES
    ResolutionReturns
