CONSTANTS
    NHw = 2
    Fds = {f1, f2}
    Ifxs = {x1, x2}
    None = None
    MaxCalls = 5
    MaxFaults = 1
    MaxSent = 2
    MaxListed = 2
SPECIFICATION LiveSpec
INVARIANTS OneTapEach TapHasInterface
PROPERTIES RxThroughOwn PacketsRead
CHECK_DEADLOCK FALSE
