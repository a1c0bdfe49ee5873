SPECIFICATION Spec
CONSTANTS
    None = None
    Buckets = {b1}
    Keys = {k1, k2}
    Tenants = {n1}
    Rules = {r1}
    Tasks = {t1, t2}
    MaxGen = 2
    MaxUploads = 2
    Workloads <- MCWorkloads
SYMMETRY Symmetry
INVARIANTS TypeOK ConfigDiesWithBucket EventsMatchEffects
PROPERTIES TenantsInUseStay EffectsWereAuthorized
