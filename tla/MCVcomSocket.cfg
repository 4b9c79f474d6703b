CONSTANTS
    Fds = {f1, f2, f3}
    Sids = {s1, s2, s3}
    Items = {i1, i2}
    NoSid = NoSid
    NoItem = NoItem
    NoIdx = NoIdx
    NoFd = NoFd
    MaxPend = 1
    MaxStray = 1
SPECIFICATION Spec
INVARIANTS DescriptorOwnsSession IndicesAgree RegisteredHasItem MarkedHasMember
    NothingLeftBehind
SYMMETRY MCSym
