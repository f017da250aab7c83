SPECIFICATION MacSpec
CONSTANTS
    NotHex = NotHex
    Levels = {0, 2, 300}
    MaxCalls = 2
    MaxChanges = 1
    Extensions <- MCExtensions
    Issued <- MCIssued
    RawPolicies <- MCRawPolicies
    Initial <- MCInitial
INVARIANTS
    AppliedLabelIsBounded
    RequiredMeansBound
    RuntimeRequiredFailsClosed
    IssuedBoundIsUsed
