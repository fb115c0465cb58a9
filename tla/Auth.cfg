SPECIFICATION FairSpec
CONSTANTS
    Margin = 12
    WatchDelay = 6
    ReloginWait = 1
    MaxAttempts = 5
    RequestTime = 2
    QueryWait = 1
    Life = {5, 13, 20}
INVARIANTS LifeLeft CarriesLiveToken GivesUpLate
PROPERTIES RenewedOrDown
