CONSTANTS
    Service = {"p1", "p2", "p3", "p4"}
    Ip = {"a1", "a2", "a3"}
    IpOf <- MCIpOf
    Source = {"s1", "s2", "s3"}
    NewBuckets = {1, 2, 3}
    NewBucketOf <- MCNewBucketOf
    TriedBuckets = {1, 2}
    TriedBucketOf <- MCTriedBucketOf
    NEW_BUCKET_SIZE = 1
    TRIED_BUCKET_SIZE = 1
    NEW_BUCKETS_PER_ADDRESS = 2
    GETADDR_MAX_PCT = 70
    GETADDR_MAX = 2
    MaxId = 3
SPECIFICATION AddrSpec
INVARIANTS CheckPasses LoadsBack
