CONSTANTS
    VFds = {v}
    LFds = {l}
    Iovs <- MCIovs
    MaxIn = 1
    MaxOut = 1
    MaxNow = 2
    NoTime = NoTime
    NoFd = NoFd
SPECIFICATION LiveSpec
INVARIANTS ResultExact SteadyReported BytesAccounted
PROPERTY SelectReturns
