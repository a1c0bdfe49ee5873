SPECIFICATION FairSpec
CONSTANTS
    None = None
    Empty = Empty
    Users = {u1}
    Groups = {}
    PolicyNames = {p1}
    Documents <- MCDocuments
    BucketDocs = {}
    Buckets = {}
    KeyIds = {k1}
    TempIds = {}
    Loads <- MCLoads
    Tasks = {t1, t2}
    Ips = {i1}
    MaxAttempts = 3
    Window = 1
    Lockout = 2
    Providers = {o1}
    Secrets = {s1}
    FlowIds = {f1}
    FlowTtl = 1
    SessionTtl = 1
INVARIANTS TypeOK GuessBudget FlowUsedOnce ProvisionsOnlyNewUsers
PROPERTIES SettingsAreKept LockoutEnds
