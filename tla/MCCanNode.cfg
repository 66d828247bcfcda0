CONSTANTS
    BOX_SZ = 2
    CAN_MB_NUM = 5
    MaxPermits = 3
SPECIFICATION FairSpec
INVARIANTS BacklogIsEarly ReplayNeedsOverrun BatchHasNoGap
PROPERTIES SettlesWhenSilent
