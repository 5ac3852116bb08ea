\* One process: it starts with the query log on, answers queries, ends.
CONSTANTS
    e1 = e1  e2 = e2  e3 = e3
    Entry = {e1, e2}
    Stamp <- MCStamp
    BufferSize = 2
    BatchSize = 2
    Tuning <- MCTuning
    MaxOpens = 1
    MaxNow = 0  MaxFaults = 0  MaxSaves = 0  MaxBoots = 1
SPECIFICATION Spec
INVARIANT GracefulLosesNothing
CHECK_DEADLOCK FALSE
