CONSTANTS
    Names = {n1, n2}
    SwIfs = {s1, s2}
    MaxSlots = 2
    NFds = 8
    Bufs = {1, 2, 3, 4}
    MAX_RECV = 2
    Mtus = {1, 2}
    Extra = 1
    FrameSize = 2
    MaxWait = 2
    MaxGoing = 0
    MaxLeaks = 1
    None = None
SPECIFICATION Spec
INVARIANTS SlotsSound DescriptorsOwned BuffersExact
PROPERTY PacketsOwn
SYMMETRY MCSym
