SPECIFICATION FairSpec
CONSTANTS
    Buckets = {b1}
    Keys = {k1}
    Bodies = {x}
    Ids = {i1, i2}
    Reqs = {r1}
    Null = Null
    None = None
    Algorithms = {"none"}
    Untils = {2}
    Ops = {"create", "versioning", "put", "delete", "hold", "retention"}
    Faults = {}
    DistinctSeconds = TRUE
    MaxNow = 2
PROPERTIES DeletesRespectLocks LatestRestored
