SPECIFICATION FairSpec
CONSTANTS
    Uploads = {u1, u2}
    Ids = {i1}
    PartNumbers = {1}
    Bodies = {x}
    Large = {}
    Reqs = {r1}
    None = None
    Algorithms = {"none", "SSE-C"}
    Ops = {"versioning", "drop"}
    Faults = {"body"}
    Resend = FALSE
    MaxCrashes = 1
INVARIANTS TypeOK
PROPERTIES StaleUploadsGo
