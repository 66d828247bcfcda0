CONSTANTS
    SAMPLES = 4
    RMS_WINDOWN_SIZE = 4
SPECIFICATION Spec
INVARIANTS TypeOK SamplesInOrder WindowFresh ZerosLeave
