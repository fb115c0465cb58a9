SPECIFICATION Spec
CONSTANTS
    None = None
    MaxLabels = 2
    MaxNameLabels = 3
    Config <- Configs
    Message <- Messages
INVARIANTS BlockedByLabels OverriddenBeforeBlocked
CHECK_DEADLOCK FALSE
