SPECIFICATION FairSpec
CONSTANTS
    e1 = e1
    e2 = e2
    p1 = p1
    p2 = p2
    Endpoint = {e1, e2}
    Path = {p1, p2}
    hop <- MCHop
    Client = {c1}
    Rules <- MCRules
    MaxFailures = 1
    NoAddr = NoAddr
    MaxAddr = 1
    Moving = {e1}
INVARIANT TypeOK
PROPERTIES OldOnlyByCache Recovers FailuresEnd ImplementsResolution
