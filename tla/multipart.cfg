SPECIFICATION Spec
CONSTANTS
    Uploads = {u1}
    Ids = {i1, i2}
    PartNumbers = {1, 2}
    Bodies = {x, y}
    Large = {x}
    Reqs = {r1, r2}
    None = None
    Algorithms = {"none"}
    Ops = {"versioning", "drop"}
    Faults = {"abandon"}
    Resend = FALSE
    MaxCrashes = 0
SYMMETRY Symmetry
INVARIANTS PartsOnDisk AssembledAsValidated
