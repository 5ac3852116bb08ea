\* A settings change, a failing operation or a crash, a restart.
CONSTANTS
    e1 = e1  e2 = e2  e3 = e3
    Entry = {e1, e3}
    Stamp <- MCStamp
    BufferSize = 1
    BatchSize = 2
    Tuning <- MCTuning
    MaxOpens = 2
    MaxNow = 1  MaxFaults = 1  MaxSaves = 1  MaxBoots = 2
SPECIFICATION FairSpec
INVARIANTS TypeOK RowsBounded TuningReachesTicker
PROPERTIES Implements LifecycleEnds
CHECK_DEADLOCK FALSE
