CONSTANTS
    Keys = {k1, k2}
    MaxFlows = 1
    Wheel = 4
    Default = 2
    MaxExpire = 1
    Lifetimes = {0, 3, 5}
    None = None
    Burst = 2
    MaxNow = 9
SPECIFICATION Spec
INVARIANTS TypeOK InAllOrNone OnTime
PROPERTIES NeverEarly EmptyLineOnlyWhenFull
SYMMETRY MCSym
CHECK_DEADLOCK FALSE
