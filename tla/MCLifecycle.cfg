\* Every way to start, fail to start and end; two signals, so that one can be lost.
SPECIFICATION FairSpec
CONSTANTS
    CmdLines <- MCCmdLines
    Number <- MCNumber
    MaxTerms = 2
    UloopForgets = TRUE
INVARIANTS
    LifecycleTypeOK
    NoUseAfterFree
    GivenBack
    AtMostOneTurn
    LevelAsAsked
PROPERTIES
    FirstAnswerDecides
    TermEnds
CHECK_DEADLOCK FALSE
