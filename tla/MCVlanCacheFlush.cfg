\* A flush against fetches in flight: an answer that is an alias of another name,
\* upstream data changing underneath, fresh, near-expiry, stale and expired hits,
\* background refreshes racing misses for the same key.
CONSTANTS
    c1 = c1  c2 = c2  c3 = c3  lan = lan  iot = iot
    n1 = n1  n2 = n2  q1 = q1  q2 = q2
    Client = {c1}
    Bucket = {lan}
    BucketOf <- MCBucketOf
    Name = {n1, n2}
    Question = {q1}
    QName <- MCQName
    Prefix <- WholeSpace
    Chains <- Aliased
    Shards <- ShardPerKey
    ShardSize = 1
    MaxScoped = 1
    Worker = {w1}
    Refresher = {r1}
    Flusher = {f1}
    Kinds = {"success"}
    UpstreamTTL = {1}
    MinTTL = 1  MaxTTL = 2  MaxNTTL = 1
    FailTTL = 0  MaxFailTTL = 1
    StaleTTL = 1
    Prefetch = TRUE
    PrefetchDen = 1
    MaxClock = 1  MaxWorld = 1  MaxEpoch = 1
SPECIFICATION FairSpec
INVARIANTS TypeOK FlushedStaysGone
PROPERTY EveryFlushEnds
