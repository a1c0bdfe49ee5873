SPECIFICATION Spec
CONSTANTS
    None = None
    Buckets = {b1}
    Keys = {k1, k2}
    Tenants = {n1}
    Rules = {r1}
    Tasks = {t1}
    MaxGen = 1
    MaxUploads = 1
    Workloads <- MCUploads
PROPERTIES CompletesInPlace
