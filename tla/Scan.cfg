SPECIFICATION FairSpec
CONSTANTS
    e1 = e1
    e2 = e2
    e3 = e3
    Elements = {e1, e2, e3}
    Buckets = 3
    Bucket <- ThreeBuckets
    Faults = {"error", "invalid", "lost"}
INVARIANTS TypeOK Complete
PROPERTY ScanEnds
CHECK_DEADLOCK FALSE
