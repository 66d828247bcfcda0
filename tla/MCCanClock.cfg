CONSTANTS
    Buses = {0, 1}
    Times <- MCTimes
    MS = 4
    TOP = 6
    WORD = 7
    MaxHeld = 3
    MaxSeconds = 5
SPECIFICATION Spec
INVARIANT FastBySecondPerBus
