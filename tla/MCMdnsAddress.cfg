\* A promoted device that changes its address.
CONSTANTS
    s1 = s1  i1 = i1  h1 = h1  h2 = h2  a1 = a1  a2 = a2
    Service = {s1}
    Instance = {i1}
    Host = {h1, h2}
    Addr = {a1, a2}
    TTL = {5}
    Suffix = {"home"}
    V6 = {}
    Message <- Renumbered
    Setting <- OneSetting
    Bound <- NoBinding
    LabelOf <- Labels
    MaxNow = 6
    MaxMessages = 2
    MaxSaves = 1
SPECIFICATION Spec
INVARIANTS AnswerFollowsDevice
CHECK_DEADLOCK FALSE
