CONSTANTS
    TERMIANL_NUM = 3
    MB_SIZE = 1
    Cmds = {c1}
    NoCmd = NoCmd
    Status = {normal}
    NoAnswer = NoAnswer
    NoByte = NoByte
    DiagStatus = {normal}
    MaxLate = 1
SPECIFICATION FairSpec
INVARIANTS LateByOne
PROPERTIES CommandCompletes PollsRecur
