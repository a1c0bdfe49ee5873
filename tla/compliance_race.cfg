SPECIFICATION Spec
CONSTANTS
    Buckets = {b1}
    Keys = {k1}
    Bodies = {x}
    Ids = {i1}
    Reqs = {r1, r2}
    Null = Null
    None = None
    Algorithms = {"none"}
    Untils = {2}
    Ops = {"create", "put", "retention"}
    Faults = {}
    DistinctSeconds = TRUE
    MaxNow = 2
PROPERTIES ComplianceIsFinal
SYMMETRY Symmetry
