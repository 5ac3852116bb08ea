\* Two clients, two listeners, a reload, a clock that laps the buckets.
CONSTANTS
    q1 = q1  q2 = q2  b1 = b1  b2 = b2  n1 = n1
    Query = {q1, q2}
    Client = {1, 2}
    Name = {n1}
    Block = {b1, b2}
    Capacity = {1, 2}
    Outcome <- MCOutcome
    BucketWidth = 2  BucketCount = 2
    Threshold = 1
    PageSize = 1
    MaxLatency = 1
    MaxNow = 4
    MaxReloads = 1
SPECIFICATION Spec
INVARIANTS TypeOK RingHoldsNewest SnapshotIsNewest OneRing TiersAgree ActivityAddsUp
SYMMETRY QuerySymmetry
CHECK_DEADLOCK FALSE
