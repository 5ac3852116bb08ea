\* Who receives which answer, and that everyone does: three addresses in two VLAN
\* buckets, answers with and without a scope, more networks than the scoped tier
\* holds, one shard with room for one entry.  Two queries wait for each other's
\* call, share its answer or fetch again under their own address.  Failures are
\* the ones vlancache makes up itself; a denial is filed as a success is, and an
\* uncacheable answer dropped as a truncated one is.
CONSTANTS
    c1 = c1  c2 = c2  c3 = c3  lan = lan  iot = iot
    n1 = n1  n2 = n2  q1 = q1  q2 = q2
    Client = {c1, c2, c3}
    Bucket = {lan, iot}
    BucketOf <- MCBucketOf
    Name = {n1}
    Question = {q1}
    QName <- MCQName
    Prefix <- HostsAndSpan
    Chains <- NoChain
    Shards <- OneShard
    ShardSize = 1
    MaxScoped = 2
    Worker = {w1, w2}
    Refresher = {}
    Flusher = {}
    Kinds = {"success", "truncated"}
    UpstreamTTL = {1}
    MinTTL = 1  MaxTTL = 2  MaxNTTL = 1
    FailTTL = 1  MaxFailTTL = 1
    StaleTTL = 0
    Prefetch = FALSE
    PrefetchDen = 2
    MaxClock = 0  MaxWorld = 0  MaxEpoch = 0
SPECIFICATION FairSpec
INVARIANTS AnswerAppropriate ScopedBounded FlightsAreLed
PROPERTY EveryQueryEnds
