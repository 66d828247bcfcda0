CONSTANTS
    Widths = {22, 38}
    SECOND = 186
    RELOAD = 93
    Grains = {1, 62}
    MaxSteady = 1
SPECIFICATION FairSpec
PROPERTIES PulsesRecur
