CONSTANTS
    Within <- MCWithin
    V6 <- MCV6
    NetOf <- MCNetOf
    RecordPool <- MCRecordPool
    HostPool <- MCHostPool
    SettingsPool <- MCSettingsPool
    AddrsPool <- MCAddrsPool
    BridgePool <- MCBridgePool
    FirstSettings <- MCFirstSettings
    Clients = {"t1", "g1", "x"}
    QTypes = {"A", "AAAA", "TXT", "SVCB"}
    MaxEdits = 3
    MaxRecords = 3
    MaxFaults = 1
SPECIFICATION Spec
INVARIANT TypeOK DiskStaysValid AnswersAsConfigured NothingLeaks  
CHECK_DEADLOCK FALSE
