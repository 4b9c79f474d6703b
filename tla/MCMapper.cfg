CONSTANTS
    NsIdx = {i1, i2}
    Names = {n1, n2}
    x1 = x1
    x2 = x2
    IfIdx = {x1, x2}
    SwIfs = {s1}
    Tables = {t1, t2}
    r1 = r1
    r2 = r2
    r3 = r3
    Routes = {r1, r2, r3}
    Oif <- MCOif
    Multicast = {r3}
    None = None
SPECIFICATION Spec
INVARIANT RoutesMapped
PROPERTY NewPathsDue
