CONSTANTS
    Slots = {s1,s2}
    Fds = {f0, f1}
    Files = {i0, i1}
    Fd0 = f0
    File0 = i0
    NoFd = NoFd
    Names = {n1,n2}
    o1 = o1
    o2 = o2
    NoObj = NoObj
    Objs = {o1}
    ClassOf <- MCClassOf
    NoteHdrs <- MCNoteHdrs
    SeqMod = 1
    QueueCap = 1
    MaxChanges = 0
    MaxFaults = 1
    NsIdx = {e1}
    MaxHandles = 1
    Found <- MCFound
SPECIFICATION NetnsSpec
SYMMETRY MCSym
INVARIANTS SocketOwned NoSocketLeak
PROPERTIES StrayCloseIsStranded OnlyOwn
CHECK_DEADLOCK FALSE
