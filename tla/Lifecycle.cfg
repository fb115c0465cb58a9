SPECIFICATION FairSpec
CONSTANTS
    Service <- MCService
    MaxVersion = 2
INVARIANTS NoFalseExit OnlyLateSurvive
PROPERTIES GenerationEnds NewestIsServed
CHECK_DEADLOCK FALSE
