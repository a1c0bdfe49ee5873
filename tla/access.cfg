SPECIFICATION Spec
CONSTANTS
    None = None
    b1 = b1
    Users = {u1}
    Groups = {g1}
    PolicyNames = {p1}
    Documents <- MCDocuments
    BucketDocs <- MCBucketDocs
    Buckets <- MCBuckets
    KeyIds = {k1, k2, k3}
    TempIds = {a1}
    Tasks = {t1, t2}
    Workloads <- MCWorkloads
    Callers = {u1}
    Judged = {t1}
    MaxKeys = 1
    Requests <- MCRequests
INVARIANTS TypeOK NoDanglingRows KeysBounded GrantsAreJustified NoAccessOnceRevoked
SYMMETRY Symmetry
