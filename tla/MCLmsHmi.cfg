CONSTANTS
    TERMIANL_NUM = 2
    MB_SIZE = 1
    Cmds = {}
    NoCmd = NoCmd
    Status = {lit}
    NoAnswer = NoAnswer
    NoByte = NoByte
    DiagStatus = {lit}
    MaxLate = 0
    Blank = Blank
    Drawn = {lit, NoAnswer}
    MaxClicks = 1
SPECIFICATION HmiFairSpec
INVARIANTS HmiTypeOK MarksAnnounced OverlayCleared
PROPERTIES DisplayConverges
