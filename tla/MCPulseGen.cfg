CONSTANTS
    Widths = {0, 18, 24, 36}
    SECOND = 162
    RELOAD = 81
    Grains = {1, 2}
    MaxSteady = 2
SPECIFICATION FairSpec
INVARIANTS TypeOK CaptureTrue Recovers
PROPERTIES PulsesRecur
