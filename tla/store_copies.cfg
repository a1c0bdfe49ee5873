SPECIFICATION Spec
CONSTANTS
    Buckets = {b1}
    Keys = {k1}
    Bodies = {x}
    Ids = {i1, i2, i3}
    Reqs = {r1, r2}
    Null = Null
    None = None
    Algorithms = {"AES256", "SSE-C"}
    Untils = {}
    Ops = {"create", "drop", "versioning", "put", "copy", "delete"}
    Faults = {}
    DistinctSeconds = TRUE
    MaxNow = 0
INVARIANTS RowsReadable HeadlessIsAttended
PROPERTIES ImplementsVersionStore
SYMMETRY Symmetry
