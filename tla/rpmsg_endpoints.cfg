CONSTANTS
    u1 = u1
    u2 = u2
    a1 = a1
    a2 = a2
    e1 = e1
    e2 = e2
    e3 = e3
    Users = {u1, u2}
    Epts = {e1, e2, e3}
    Addrs = {a1}
    AddrAny = AddrAny
    Wanted <- MCWanted
    NsAddr = NsAddr
    Rx = Rx
    Bus = Bus
    None = None
    NumBufs = 2
    MaxMessages = 3
    MaxOpens = 1
    MaxProbes = 2
SPECIFICATION Spec
INVARIANTS RefsCount CallbackOnlyOpen BuffersKept
PROPERTIES CallsFinish MessagesTaken
CHECK_DEADLOCK FALSE
