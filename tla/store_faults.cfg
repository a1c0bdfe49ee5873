SPECIFICATION Spec
CONSTANTS
    Buckets = {b1}
    Keys = {k1}
    Bodies = {x, y}
    Ids = {i1, i2, i3}
    Reqs = {r1, r2}
    Null = Null
    None = None
    Algorithms = {"SSE-C"}
    Untils = {}
    Ops = {"create", "drop", "versioning", "put", "get", "delete"}
    Faults = {"abandon", "crash", "body"}
    DistinctSeconds = TRUE
    MaxNow = 0
INVARIANTS TypeOK RowsReadable VersionIdsUnique LatestIsNewest EtagMatchesBody 
SYMMETRY Symmetry
