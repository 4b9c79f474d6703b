CONSTANTS
    x1 = x1
    x2 = x2
    x3 = x3
    IfIdx = {x1, x2, x3}
    Byte <- MCByte
    SwIfs = {s1}
    Addrs = {a1}
    Hosts = {h4, h6}
    Hosts6 = {h6}
    MaxMsgs = 3
    LLAddrs = {l1}
    Routes <- MCRoutes
    Depth = 7
    Pool = {1, 2}
    None = None
SPECIFICATION Spec
INVARIANT MirrorApplied
