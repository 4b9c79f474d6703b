CONSTANTS
    Slots = {s1}
    Fds = {f0, f1}
    Files = {i0, i1}
    Fd0 = f0
    File0 = i0
    NoFd = NoFd
    Names = {n1}
    o1 = o1
    o2 = o2
    NoObj = NoObj
    Objs = {o1}
    ClassOf <- MCClassOf
    NoteHdrs <- MCNoteHdrs
    SeqMod = 2
    QueueCap = 2
    MaxChanges = 1
    MaxFaults = 2
    NsIdx = {e1}
    MaxHandles = 1
    Found <- MCFound
SPECIFICATION NetnsLiveSpec
PROPERTIES Synchronises CloseCompletes MirrorCatchesUp
CHECK_DEADLOCK FALSE
