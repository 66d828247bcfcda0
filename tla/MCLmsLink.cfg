CONSTANTS
    TERMIANL_NUM = 3
    MB_SIZE = 1
    Cmds = {c1, c2}
    NoCmd = NoCmd
    Status = {normal, fault}
    NoAnswer = NoAnswer
    NoByte = NoByte
    DiagStatus = {}
    MaxLate = 0
SPECIFICATION Spec
INVARIANTS FrameIntegrity BusDiscipline PollExact
PROPERTIES ImplementsCommand
