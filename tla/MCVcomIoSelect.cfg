CONSTANTS
    VFds = {v}
    LFds = {l}
    Iovs <- MCIovs
    MaxIn = 1
    MaxOut = 1
    MaxNow = 2
    NoTime = NoTime
    NoFd = NoFd
SPECIFICATION Spec
INVARIANT OnlyChangedReturned
