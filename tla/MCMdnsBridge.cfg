\* One instance that comes, moves and goes, under changing settings.
CONSTANTS
    s1 = s1  i1 = i1  h1 = h1  h2 = h2  a1 = a1  a2 = a2
    Service = {s1}
    Instance = {i1}
    Host = {h1, h2}
    Addr = {a1}
    TTL = {2, 5}
    Suffix = {"home", "lab"}
    V6 = {}
    Message <- AnyMessage
    Setting <- AllSettings
    Bound <- OneBinding
    LabelOf <- Labels
    MaxNow = 6
    MaxMessages = 3
    MaxSaves = 1
SPECIFICATION Spec
INVARIANTS TypeOK KnownIsListed AskedBeforeDropped AnswersWereHeard ServedAsConfigured OneListenerAsConfigured
CHECK_DEADLOCK FALSE
