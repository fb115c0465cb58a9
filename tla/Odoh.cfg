SPECIFICATION FairSpec
CONSTANTS
    Target = {t1, t2}
    Query = {q1}
    Watch = watch
    Swap <- MCSwap
    NextHop = {relay1, relay2}
    TokenApi = {api}
    Literal = {}
    MaxKey = 2
    Rotating = {t1}
    MaxFailures = 1
INVARIANTS RequestsAreAwaited OwnKey
PROPERTIES OutdatedKeyLeaves UpdateEnds SwapHappens KeyFollows
