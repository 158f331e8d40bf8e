\* Each answer handed over in up to three pieces, lost at any point, on both kinds of target.
SPECIFICATION Spec
CONSTANTS
    Answers <- MCAnswers
    MaxCallbacks = 3
    Plans <- MCPlans
    CharSigned = {TRUE, FALSE}
    Entry <- MCEntry
    Started <- MCStarted
    Clock <- MCClock
INVARIANTS
    AnswersTypeOK
    FramesDecoded
    StatsAligned
    FiguresOfLatest
    UptimeShown
    MemShown
CHECK_DEADLOCK FALSE
