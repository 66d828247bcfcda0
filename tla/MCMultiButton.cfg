CONSTANTS
    DEBOUNCE_TICKS = 3
    SHORT_TICKS = 60
    LONG_TICKS = 200
    TickMod = 256
    MaxEdges = 18
SPECIFICATION FairSpec
INVARIANTS TypeOK ReportsFollow
PROPERTIES BounceRejected ClickCount ClicksApart ComesToRest
