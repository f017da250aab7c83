SPECIFICATION HookFairSpec
CONSTANTS
    NumHooks = 2
    Stages = {"pre_auth", "post_auth_success"}
    Settings = {"unset", "ignore"}
    Envs <- MCEnvs
    Logins <- MCLogins
    MAX_LINE_BYTES = 2
    MAX_CAPTURED_BYTES = 3
    MaxOutput = 4
INVARIANTS
    OutcomeIsTruthful
    AcceptedHookIsRunnable
    ForwardedLinesAreWhole
PROPERTIES
    SignalsOnlyOwnGroup
    HookReturns
