SPECIFICATION MCSpec
CONSTANTS
    a = a
    b = b
    c = c
    Authority = {a, b, c}
    Unset = Unset
    Invalid = Invalid
    DefaultTargets <- MCDefault
    Variable = {"username", "client_id"}
    Value = {"old", "new", "partial", "shell"}
    CredentialFile = {"old", "new", "partial", "missing"}
    contents <- MCContents
    MaxTargets = 2
    MaxNextHops = 2
    MaxMids = 2
    History <- MCPathsHistory
    InitialEnv <- MCInitialEnv
    NoConfig = NoConfig
    NoUser = NoUser
    ProxyConfig <- MCProxyConfig
INVARIANTS ExactlyLoopFree LevelsOK ConfigAccepted
PROPERTIES GivesUpRightly FirstHealthyTaken FlagFollows
CHECK_DEADLOCK FALSE
