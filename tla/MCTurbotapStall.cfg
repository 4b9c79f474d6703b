CONSTANTS
    Names = {n1}
    SwIfs = {s1}
    MaxSlots = 1
    NFds = 4
    Bufs = {1, 2, 3, 4}
    MAX_RECV = 2
    Mtus = {1}
    Extra = 2
    FrameSize = 2
    MaxWait = 2
    MaxGoing = 0
    MaxLeaks = 0
    None = None
SPECIFICATION LiveSpec
PROPERTY WaitingRead
