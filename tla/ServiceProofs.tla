---------------------------- MODULE ServiceProofs ---------------------------
(* Theorems about Service: settings die with their bucket, tenants in use    *)
(* stay, what is told is what happened, and nothing happens that was not     *)
(* authorized, for any number of requests of both APIs in flight.            *)
EXTENDS Service, FiniteSetTheorems, TLAPS

-----------------------------------------------------------------------------
(* The inductive invariant.  First the tables.                               *)
DbFields == {"tenants", "buckets", "config", "objects", "uploads", "gen", "issued"}
Tables == {"cors", "lifecycle", "notification", "tags"}
Slugs == Tenants \cup {None}
BucketRows == [tenant: Slugs, versioning: {"Unversioned", "Enabled", "Suspended"}, gen: Nat \ {0}]
UploadRows == [place: Buckets \X Keys, from: SUBSET (Buckets \X Keys)]

DbOK(d) ==
    /\ DOMAIN d = DbFields
    /\ d.tenants \subseteq Tenants
    /\ d.gen \in Nat
    /\ DOMAIN d.buckets \subseteq Buckets /\ d.buckets \in [DOMAIN d.buckets -> BucketRows]
    /\ \A b \in DOMAIN d.buckets : d.buckets[b].gen <= d.gen
    /\ DOMAIN d.objects \subseteq Buckets \X Keys /\ d.objects \in [DOMAIN d.objects -> RowType]
    /\ \A x \in DOMAIN d.objects : x[1] \in DOMAIN d.buckets
    /\ d.issued \in Nat
    /\ DOMAIN d.uploads \subseteq 1 .. d.issued /\ d.uploads \in [DOMAIN d.uploads -> UploadRows]
    /\ \A u \in DOMAIN d.uploads : d.uploads[u].place[1] \in DOMAIN d.buckets

(* Each row of settings is of a bucket that is there, and of that bucket.    *)
ConfigOK(d) ==
    \A x \in DOMAIN d.config :
        /\ x \in Tables \X Buckets
        /\ x[2] \in DOMAIN d.buckets /\ d.config[x].gen = d.buckets[x[2]].gen
        /\ x[1] = "notification" => d.config[x].value \in Seq(Rules) /\ IsInjective(d.config[x].value)

(* Then the requests: what one came with, ...                                *)
TaskFields == {"pc", "call", "op", "bucket", "key", "source", "upload", "keys", "tenant", "asks", "grants", "value",
               "since", "did", "at", "told", "named", "warned"}
KeyedOps == ObjectOps \cup PartOps \cup CopyOps \cup {"delete_object"}
Retags == {"PutObjectTagging", "DeleteObjectTagging"}

Arguments(k) ==
    /\ k.bucket \in Buckets /\ k.tenant \in Slugs
    /\ k.op \in KeyedOps \/ k.pc = "delete" => k.key \in Keys
    /\ k.op \in CopyOps => k.source \in Buckets \X Keys
    /\ k.op \in {"create_tenant", "delete_tenant"} => k.tenant \in Tenants
    /\ k.op \in Batches => k.keys \subseteq Keys

(* ... where it can be, ...                                                  *)
Where(k) ==
    /\ k.pc = "audit" => k.op \in {"CreateBucket", "DeleteBucket", "DeleteObject"}
    /\ k.pc = "emit" => k.op \in {"PutObject", "CopyObject", "DeleteObject", "CompleteMultipartUpload"}
    /\ k.pc = "delete" => k.op \in Batches
    /\ k.pc = "copy" => k.op \in Retags
    /\ k.pc = "part" => k.op = "UploadPartCopy"
    /\ k.pc \in {"versioning", "versioning_for_lock", "locking"} => k.op = "create_bucket"
    /\ k.pc = "scoped" => k.op \in {"delete_bucket", "delete_object", "delete_objects"}
    /\ k.pc = "usage" => k.op = "get_storage_usage"
    /\ k.pc = "push" => k.op = "create_bucket_notification"
    /\ k.pc = "retain" => k.op = "delete_bucket_notification"
    /\ k.pc = "save" => k.op \in {"create_bucket_notification", "delete_bucket_notification"}
    /\ k.pc = "refused" => k.op \in AdminOps

(* ... what it has read, ...                                                 *)
Knows(k) ==
    /\ k.op = "CopyObject" /\ k.pc = "handle" /\ k.call = 2 => k.value \in RowType
    /\ k.pc = "copy" => k.value \in RowType
    /\ k.op = "PutObjectRetention" /\ k.pc = "handle" /\ k.call = 3 => k.value \in {"GOVERNANCE", "COMPLIANCE"}
    /\ k.op = "create_bucket_notification" /\ k.pc \in {"check", "handle"} => k.value = None
    /\ k.pc \in {"push", "retain"} => k.call = 1 /\ (k.value = None \/ k.value \in Seq(Rules))
    /\ k.pc = "save" => k.value \in Seq(Rules) /\ (k.call = 2 => IsInjective(k.value))

(* ... what it was granted: all that was asked for, before it is served, ... *)
Wanted(k) ==
    IF k.op \in AdminOps THEN {AuthorizationTarget(k.op, k.bucket, k.key)}
    ELSE IF k.op \in ObjectOps THEN {Ask(k.op, k.bucket, k.key)}
    ELSE IF k.op \in BucketOps THEN {Ask(k.op, k.bucket, None)}
    ELSE IF k.op \in PartOps THEN {Ask("PutObject", k.bucket, k.key)}
    ELSE IF k.op \in CopyOps THEN {Ask("PutObject", k.bucket, k.key), Ask("GetObject", k.source[1], k.source[2])}
    ELSE {Ask(k.op, None, None)}

Waiting == {"idle", "check", "done", "refused"}
KeyAsk(k) == Ask("DeleteObject", k.bucket, k.key)

Cleared(k) ==
    /\ k.pc = "check" =>
        \/ k.asks = <<k.asks[1]>> /\ Wanted(k) \subseteq k.grants \cup {k.asks[1]}
        \/ k.asks = <<k.asks[1], k.asks[2]>> /\ Wanted(k) \subseteq k.grants \cup {k.asks[1], k.asks[2]}
    /\ k.pc \notin Waiting => Wanted(k) \subseteq k.grants
    /\ k.op = "DeleteObjects" =>
        /\ k.key # None => k.key \in Keys
        /\ k.pc = "check" /\ k.key # None => k.asks = <<KeyAsk(k)>> /\ Wanted(k) \subseteq k.grants
        /\ k.pc = "delete" => KeyAsk(k) \in k.grants

(* ... what was done for it and told of it, ...                              *)
Audited == {<<a>> : a \in Audits}

Reported(k) ==
    /\ k.pc # "done" /\ ~(k.pc = "emit" /\ k.op = "DeleteObject") => k.told = <<>>
    /\ k.pc = "emit" /\ k.op = "DeleteObject" => k.told \in Audited
    /\ k.pc \in {"check", "refused"} /\ k.op # "DeleteObjects" => k.did = <<>>
    /\ k.op \in S3Ops \ {"DeleteObjects"} /\ k.pc \notin {"audit", "emit", "done"} => k.did = <<>>
    /\ k.pc = "audit" /\ k.op = "CreateBucket" => k.did = <<"create_bucket">>
    /\ k.pc = "audit" /\ k.op = "DeleteBucket" => k.did = <<"delete_bucket">>
    /\ k.pc \in {"audit", "emit"} /\ k.op = "DeleteObject" => k.did \in {<<"delete">>, <<"marker">>}
    /\ k.pc = "emit" /\ k.op = "PutObject" => k.did = <<"put">>
    /\ k.pc = "emit" /\ k.op = "CopyObject" => k.did = <<"copy">>
    /\ k.pc = "emit" /\ k.op = "CompleteMultipartUpload" => k.did = <<"complete">>
    /\ k.pc = "done" /\ k.op \in AdminOps => k.told \in {<<>>} \cup Audited
    /\ k.pc = "done" /\ k.op \in S3Ops => k.told \in Due(k)
    /\ k.warned # {} /\ k.op # "DeleteObjects" => k.pc = "done" /\ k.did = <<>>

(* ... and of which bucket and key, when it is at pc.                        *)
Names(k, pc) ==
    /\ pc \in {"audit", "emit"} /\ k.op # "CompleteMultipartUpload" => k.at = <<k.bucket, k.key>>
    /\ k.told # <<>> /\ k.op \in S3Ops \ {"CompleteMultipartUpload"} => k.named = k.at

TaskOK(k) ==
    /\ DOMAIN k = TaskFields
    /\ k.pc = "idle" => k = Idle
    /\ k.pc # "idle" => k.op \in S3Ops \cup AdminOps
    /\ k.pc \notin {"idle", "done"} => Arguments(k)
    /\ Where(k) /\ Knows(k) /\ Cleared(k) /\ Reported(k) /\ Names(k, k.pc)

TasksOK ==
    /\ DOMAIN task = Tasks
    /\ \A t \in Tasks : TaskOK(task[t])

(* A tenant that is about to go has no bucket but those created since.       *)
TenantsOK ==
    \A t \in Tasks :
        /\ task[t].since \in Nat /\ task[t].since <= db.gen
        /\ task[t].op = "delete_tenant" /\ task[t].pc = "handle" /\ task[t].call = 2 =>
            \A b \in DOMAIN db.buckets :
                db.buckets[b].tenant = task[t].tenant => db.buckets[b].gen > task[t].since

Inv == DbOK(db) /\ ConfigOK(db) /\ TasksOK /\ TenantsOK /\ ops \subseteq S3Ops \cup AdminOps

-----------------------------------------------------------------------------
(* What a step of request k does to the tables, and by which permission.     *)
BucketCreated(k) ==
    \E tenant \in Slugs :
        /\ k.bucket \in Buckets \ DOMAIN db.buckets
        /\ db' = [db EXCEPT
                    !.buckets = Bind(@, k.bucket, [tenant |-> tenant, versioning |-> "Unversioned", gen |-> db.gen + 1]),
                    !.gen = @ + 1]
        /\ Granted(k, {"CreateBucket"}, k.bucket, None) \/ Granted(k, {"CreateBucket"}, None, None)

BucketGone(k) == db' = BucketDeleted(k.bucket) /\ Granted(k, {"DeleteBucket"}, k.bucket, None)

VersioningGrant(k) ==
    \/ Granted(k, {"PutBucketVersioning"}, k.bucket, None)
    \/ k.op = "create_bucket" /\ Granted(k, {"CreateBucket"}, None, None)

VersioningSet(k) ==
    \E v \in {"Enabled", "Suspended"} :
        /\ k.bucket \in DOMAIN db.buckets /\ db' = [db EXCEPT !.buckets[k.bucket].versioning = v]
        /\ VersioningGrant(k)

TenantsChanged(k) ==
    \E S \in SUBSET Tenants :
        /\ db' = [db EXCEPT !.tenants = S] /\ (k.op = "delete_tenant" => k.pc = "handle" /\ k.call = 2)
        /\ Granted(k, {}, None, None)

ConfigPut(k) ==
    \E table \in Tables : \E v :
        /\ k.bucket \in DOMAIN db.buckets
        /\ table = "notification" => v \in Seq(Rules) /\ IsInjective(v)
        /\ db' = [db EXCEPT !.config = Bind(@, <<table, k.bucket>>, [value |-> v, gen |-> db.buckets[k.bucket].gen])]
        /\ Granted(k, ConfigGrants[table], k.bucket, None)

ConfigGone(k) ==
    \E table \in Tables :
        /\ db' = [db EXCEPT !.config = Without(@, {<<table, k.bucket>>})]
        /\ Granted(k, ConfigGrants[table], k.bucket, None)

ObjectWritten(k) ==
    LET x == <<k.bucket, k.key>>
    IN  \E row \in RowType :
            /\ k.bucket \in DOMAIN db.buckets /\ k.key \in Keys
            /\ db' = [db EXCEPT !.objects = Bind(@, x, row)]
            /\ \/ row = Marker /\ DeleteGrant(k, x)
               \/ \E from \in SUBSET (Buckets \X Keys), tags \in BOOLEAN : row = Row(from, tags) /\ WriteGrant(k, x, from)

ObjectGone(k) ==
    /\ db' = [db EXCEPT !.objects = Without(@, {<<k.bucket, k.key>>})]
    /\ DeleteGrant(k, <<k.bucket, k.key>>)

ObjectLocked(k) ==
    LET x == <<k.bucket, k.key>>
    IN  /\ x \in DOMAIN db.objects
        /\ \/ \E mode \in {"GOVERNANCE", "COMPLIANCE"} :
                /\ db' = [db EXCEPT !.objects[x] = [@ EXCEPT !.mode = mode]]
                /\ Granted(k, {"PutObjectRetention"}, k.bucket, k.key)
           \/ \E hold \in BOOLEAN :
                /\ db' = [db EXCEPT !.objects[x] = [@ EXCEPT !.hold = hold]]
                /\ Granted(k, {"PutObjectLegalHold"}, k.bucket, k.key)

UploadCreated(k) ==
    LET x == <<k.bucket, k.key>>
    IN  /\ k.bucket \in DOMAIN db.buckets /\ k.key \in Keys
        /\ db' = [db EXCEPT !.uploads = Bind(@, db.issued + 1, [place |-> x, from |-> {}]), !.issued = @ + 1]
        /\ UploadGrant(k, {"PutObject"})

PartAdded(k) ==
    \E from \in Buckets \X Keys :
        /\ k.upload \in DOMAIN db.uploads
        /\ db' = [db EXCEPT !.uploads[k.upload].from = @ \cup {from}]
        /\ UploadGrant(k, {"PutObject"})
        /\ from # <<k.bucket, k.key>> => Granted(k, {"GetObject"}, from[1], from[2])

UploadGone(k) ==
    db' = [db EXCEPT !.uploads = Without(@, {k.upload})] /\ UploadGrant(k, {"AbortMultipartUpload"})

UploadDone(k) ==
    LET u == k.upload
    IN  /\ u \in DOMAIN db.uploads /\ k.op = "CompleteMultipartUpload"
        /\ db' = [db EXCEPT !.objects = Bind(@, db.uploads[u].place, Row(db.uploads[u].from, FALSE)),
                            !.uploads = Without(@, {u})]
        /\ UploadGrant(k, {"PutObject"})

Effect(k) ==
    \/ Reads \/ BucketCreated(k) \/ BucketGone(k) \/ VersioningSet(k) \/ TenantsChanged(k)
    \/ ConfigPut(k) \/ ConfigGone(k) \/ ObjectWritten(k) \/ ObjectGone(k) \/ ObjectLocked(k)
    \/ UploadCreated(k) \/ PartAdded(k) \/ UploadGone(k) \/ UploadDone(k)

(* What it does to the request: in particular, delete_tenant comes to its    *)
(* second closure only by its first.                                         *)
Counts(k, n) ==
    /\ n.since \in {k.since, 0, db.gen}
    /\ n.op = "delete_tenant" /\ n.pc = "handle" /\ n.call = 2 =>
        n.since = db.gen /\ \A b \in DOMAIN db.buckets : db.buckets[b].tenant # n.tenant

Becomes(t) ==
    /\ task' = [task EXCEPT ![t] = task'[t]]
    /\ TaskOK(task'[t])
    /\ Counts(task[t], task'[t])

-----------------------------------------------------------------------------
(* Permissions.                                                              *)
LEMMA GrantedBy ==
    ASSUME NEW k, NEW A, NEW a \in A, NEW b, NEW key, Ask(a, b, key) \in k.grants
    PROVE  Granted(k, A, b, key)
BY DEF Granted

LEMMA GrantedByAll ==
    ASSUME NEW k, NEW A, NEW b, NEW key, Ask("All", b, None) \in k.grants
    PROVE  Granted(k, A, b, key)
BY DEF Granted

LEMMA GrantedMore ==
    ASSUME NEW k, NEW A, NEW B, A \subseteq B, NEW b, NEW key, Granted(k, A, b, key)
    PROVE  Granted(k, B, b, key)
BY DEF Granted

LEMMA OpsDiffer == S3Ops \cap AdminOps = {} /\ "DeleteObjects" \in S3Ops
BY DEF S3Ops, ObjectOps, BucketOps, CopyOps, PartOps, AdminOps

-----------------------------------------------------------------------------
(* Moves of a request.                                                       *)
LEMMA ReturnFields ==
    ASSUME NEW k, DOMAIN k = TaskFields, NEW pc
    PROVE  LET n == Return(k, pc)
           IN  /\ DOMAIN n = TaskFields /\ n.pc = pc /\ n.call = 1 /\ n.op = k.op
               /\ n.did = k.did /\ n.at = k.at /\ n.told = k.told /\ n.named = k.named /\ n.warned = k.warned
               /\ pc = "done" => n.since = 0 /\ n.key = None
               /\ pc # "done" =>
                    /\ n.bucket = k.bucket /\ n.key = k.key /\ n.source = k.source /\ n.keys = k.keys
                    /\ n.tenant = k.tenant /\ n.asks = k.asks /\ n.grants = k.grants /\ n.value = k.value
                    /\ n.since = k.since /\ n.upload = k.upload
<1>1. CASE pc = "done"
    <2>1. Return(k, pc) = [Idle EXCEPT !.pc = "done", !.op = k.op, !.did = k.did, !.at = k.at,
                                       !.told = k.told, !.named = k.named, !.warned = k.warned]
        BY <1>1 DEF Return
    <2> QED
        BY <1>1, <2>1 DEF Idle, TaskFields
<1>2. CASE pc # "done"
    <2>1. Return(k, pc) = [k EXCEPT !.pc = pc, !.call = 1]
        BY <1>2 DEF Return
    <2> QED
        BY <1>2, <2>1 DEF TaskFields
<1> QED
    BY <1>1, <1>2

(* What a request has to have told when it is answered.                      *)
LEMMA DueOf ==
    ASSUME NEW n, n.op \in S3Ops
    PROVE  /\ n.did = <<>> \/ n.op \notin {"CreateBucket", "DeleteBucket", "PutObject", "CopyObject",
                                           "CompleteMultipartUpload", "DeleteObject"} => Due(n) = {<<>>}
           /\ n.op \in {"CreateBucket", "DeleteBucket"} /\ n.did # <<>> => Due(n) = {<<a>> : a \in Audits}
           /\ n.op = "PutObject" /\ n.did = <<"put">> => Due(n) = {<<"ObjectCreated:Put">>}
           /\ n.op = "CopyObject" /\ n.did = <<"copy">> => Due(n) = {<<"ObjectCreated:Copy">>}
           /\ n.op = "CompleteMultipartUpload" /\ n.did = <<"complete">> =>
                Due(n) = {<<"ObjectCreated:CompleteMultipartUpload">>}
           /\ n.op = "DeleteObject" /\ n.did = <<"delete">> => Due(n) = {<<a, "ObjectRemoved:Delete">> : a \in Audits}
           /\ n.op = "DeleteObject" /\ n.did = <<"marker">> =>
                Due(n) = {<<a, "ObjectRemoved:DeleteMarkerCreated">> : a \in Audits}
<1>1. n.op \notin AdminOps
    BY OpsDiffer
<1>2. /\ <<"put">> # <<>> /\ <<"copy">> # <<>> /\ <<"complete">> # <<>> /\ <<"delete">> # <<>> /\ <<"marker">> # <<>>
      /\ <<"delete">> # <<"marker">>
    OBVIOUS
<1> QED
    BY <1>1, <1>2 DEF Due

(* A request that has told nothing names nothing.                            *)
LEMMA Unnamed ==
    ASSUME NEW k, NEW pc, pc \notin {"audit", "emit"}, k.told = <<>>
    PROVE  Names(k, pc)
BY DEF Names

(* An answer that tells what is due.                                         *)
LEMMA AnswerOK ==
    ASSUME NEW k, DOMAIN k = TaskFields, k.op \in S3Ops \cup AdminOps,
           k.op \in AdminOps => k.told \in {<<>>} \cup Audited,
           k.op \in S3Ops => k.told \in Due(Return(k, "done")), Names(k, "done"),
           k.warned # {} /\ k.op # "DeleteObjects" => k.did = <<>>
    PROVE  TaskOK(Return(k, "done"))
<1> DEFINE n == Return(k, "done")
<1>1. /\ DOMAIN n = TaskFields /\ n.pc = "done" /\ n.op = k.op /\ n.did = k.did /\ n.told = k.told
      /\ n.warned = k.warned /\ n.key = None /\ n.at = k.at /\ n.named = k.named
    BY ReturnFields
<1>2. n.op \in S3Ops => n.told \in Due(n)
    BY <1>1
<1> HIDE DEF n
<1>3. Where(n) /\ Knows(n) /\ Cleared(n) /\ Reported(n)
    BY <1>1, <1>2 DEF Where, Knows, Cleared, Reported, Waiting
<1>4. Names(n, n.pc)
    BY <1>1 DEF Names
<1> QED
    BY <1>1, <1>3, <1>4 DEF TaskOK, n

(* The history of a request that is being served, before it tells anything.  *)
LEMMA Quiet ==
    ASSUME NEW k, TaskOK(k), k.pc \notin {"idle", "done", "audit", "emit"}
    PROVE  /\ DOMAIN k = TaskFields /\ k.op \in S3Ops \cup AdminOps /\ k.told = <<>>
           /\ k.op # "DeleteObjects" => k.warned = {}
           /\ k.op \in S3Ops /\ k.op # "DeleteObjects" => k.did = <<>>
BY DEF TaskOK, Reported

(* The store has nothing to add, and the request is answered.                *)
LEMMA EndOK ==
    ASSUME NEW k, TaskOK(k), k.pc \notin {"idle", "done", "audit", "emit"},
           NEW e, DOMAIN e = TaskFields, e.op = k.op, e.did = k.did, e.told = k.told,
           e.warned = k.warned \/ e.did = <<>> \/ e.op = "DeleteObjects"
    PROVE  TaskOK(Return(e, "done"))
<1>1. /\ DOMAIN k = TaskFields /\ k.op \in S3Ops \cup AdminOps /\ k.told = <<>>
      /\ k.op # "DeleteObjects" => k.warned = {}
      /\ k.op \in S3Ops /\ k.op # "DeleteObjects" => k.did = <<>>
    BY Quiet
<1>2. Return(e, "done").op = k.op /\ Return(e, "done").did = k.did
    BY ReturnFields
<1>3. k.op \in S3Ops => e.told \in Due(Return(e, "done"))
    BY <1>1, <1>2, DueOf
<1>4. Names(e, "done")
    BY <1>1, Unnamed
<1> QED
    BY <1>1, <1>3, <1>4, AnswerOK

(* One request changes.                                                      *)
LEMMA BecomeAt ==
    ASSUME TasksOK, NEW t \in Tasks, NEW n, task' = [task EXCEPT ![t] = n]
    PROVE  task'[t] = n /\ task' = [task EXCEPT ![t] = task'[t]] /\ TaskOK(task[t])
BY DEF TasksOK

LEMMA Ends ==
    ASSUME TasksOK, NEW t \in Tasks, task[t].pc \notin {"idle", "done", "audit", "emit"},
           NEW e, DOMAIN e = TaskFields, e.op = task[t].op, e.did = task[t].did, e.told = task[t].told,
           e.warned = task[t].warned \/ e.did = <<>> \/ e.op = "DeleteObjects",
           Become(t, Return(e, "done"))
    PROVE  Becomes(t)
<1> DEFINE n == Return(e, "done")
<1>1. task'[t] = n /\ task' = [task EXCEPT ![t] = task'[t]] /\ TaskOK(task[t])
    BY BecomeAt DEF Become
<1>2. TaskOK(n)
    BY <1>1, EndOK
<1>3. n.since = 0 /\ n.pc = "done"
    BY ReturnFields
<1> HIDE DEF n
<1> QED
    BY <1>1, <1>2, <1>3 DEF Becomes, Counts

LEMMA Fields ==
    ASSUME TasksOK, NEW t \in Tasks
    PROVE  DOMAIN task[t] = TaskFields
BY DEF TasksOK, TaskOK

LEMMA ContinueEnds ==
    ASSUME TasksOK, NEW t \in Tasks, task[t].pc \notin {"idle", "done", "audit", "emit"}, Continue(t, "done")
    PROVE  Becomes(t)
BY Ends, Fields DEF Continue

LEMMA ReadingEnds ==
    ASSUME TasksOK, NEW t \in Tasks, task[t].pc \notin {"idle", "done", "audit", "emit"}, NEW v,
           Become(t, Return([task[t] EXCEPT !.value = v], "done"))
    PROVE  Becomes(t)
<1> DEFINE e == [task[t] EXCEPT !.value = v]
<1>1. DOMAIN e = TaskFields /\ e.op = task[t].op /\ e.did = task[t].did /\ e.told = task[t].told /\ e.warned = task[t].warned
    BY Fields DEF TaskFields
<1> HIDE DEF e
<1>2. Become(t, Return(e, "done"))
    BY DEF e
<1> QED
    BY <1>1, <1>2, Ends

(* A request goes on with what it came with and was granted.                 *)
SameRequest(k, n) ==
    /\ DOMAIN n = TaskFields /\ n.op = k.op /\ n.bucket = k.bucket /\ n.key = k.key /\ n.source = k.source
    /\ n.tenant = k.tenant /\ n.grants = k.grants /\ n.warned = k.warned
    /\ k.op \in Batches => n.keys = k.keys

LEMMA MoveOn ==
    ASSUME NEW k, TaskOK(k), k.pc \notin Waiting, NEW n, SameRequest(k, n), n.pc \notin Waiting,
           n.pc = "delete" => k.pc = "delete", Where(n), Knows(n), Reported(n), Names(n, n.pc)
    PROVE  TaskOK(n)
<1>1. Wanted(n) = Wanted(k) /\ KeyAsk(n) = KeyAsk(k)
    BY DEF SameRequest, Wanted, KeyAsk
<1>2. Arguments(n)
    BY DEF TaskOK, SameRequest, Arguments, Waiting
<1>3. Cleared(n)
    BY <1>1 DEF TaskOK, SameRequest, Cleared, Waiting
<1> QED
    BY <1>2, <1>3 DEF TaskOK, SameRequest, Waiting

LEMMA GoesOn ==
    ASSUME TasksOK, NEW t \in Tasks, task[t].pc \notin Waiting, NEW n, task' = [task EXCEPT ![t] = n],
           SameRequest(task[t], n), n.pc \notin Waiting, n.pc = "delete" => task[t].pc = "delete",
           Where(n), Knows(n), Reported(n), Names(n, n.pc), Counts(task[t], n)
    PROVE  Becomes(t)
BY BecomeAt, MoveOn DEF Becomes

(* It stays where it is, in the next closure of the store function.          *)
LEMMA Stays ==
    ASSUME TasksOK, NEW t \in Tasks, task[t].pc \notin Waiting \cup {"audit", "emit"}, task[t].op # "delete_tenant",
           NEW n, task' = [task EXCEPT ![t] = n], SameRequest(task[t], n), n.pc = task[t].pc,
           n.did = task[t].did, n.told = task[t].told, n.since = task[t].since, Knows(n)
    PROVE  Becomes(t)
<1>1. TaskOK(task[t])
    BY DEF TasksOK
<1>2. Where(n)
    BY <1>1 DEF TaskOK, Where, SameRequest
<1>3. Reported(n)
    BY <1>1 DEF TaskOK, Reported, SameRequest, Waiting
<1>4. Counts(task[t], n)
    BY DEF Counts, SameRequest
<1>5. Names(n, n.pc)
    BY <1>1, Unnamed DEF TaskOK, Reported, Waiting
<1> QED
    BY <1>2, <1>3, <1>4, <1>5, GoesOn

LEMMA ToClosure ==
    ASSUME TasksOK, NEW t \in Tasks, task[t].pc \notin Waiting \cup {"audit", "emit"}, task[t].op # "delete_tenant",
           NEW c \in {2, 3}, NEW v, task' = [task EXCEPT ![t].call = c, ![t].value = v],
           Knows([task[t] EXCEPT !.call = c, !.value = v])
    PROVE  Becomes(t)
<1> DEFINE n == [task[t] EXCEPT !.call = c, !.value = v]
<1>1. /\ SameRequest(task[t], n) /\ n.pc = task[t].pc /\ n.did = task[t].did /\ n.told = task[t].told
      /\ n.since = task[t].since
    BY Fields DEF TaskFields, SameRequest
<1>2. task' = [task EXCEPT ![t] = n]
    BY DEF TasksOK
<1>3. Knows(n)
    OBVIOUS
<1> HIDE DEF n
<1> QED
    BY <1>1, <1>2, <1>3, Stays

(* Operations whose second closure needs nothing from the first.             *)
LEMMA NextStays ==
    ASSUME TasksOK, NEW t \in Tasks, task[t].pc \notin Waiting \cup {"audit", "emit", "save", "push", "retain"}, NextClosure(t), Closure(t, 1),
           task[t].op \notin {"delete_tenant", "CopyObject"}
    PROVE  Becomes(t)
<1> DEFINE n == [task[t] EXCEPT !.call = @ + 1]
<1>1. /\ SameRequest(task[t], n) /\ n.pc = task[t].pc /\ n.did = task[t].did /\ n.told = task[t].told
      /\ n.since = task[t].since /\ n.value = task[t].value /\ n.call = 2
    BY Fields DEF TaskFields, SameRequest, Closure
<1>2. task' = [task EXCEPT ![t] = n]
    BY DEF TasksOK, NextClosure
<1> HIDE DEF n
<1>3. Knows(n)
    BY <1>1 DEF TasksOK, TaskOK, Knows, SameRequest
<1> QED
    BY <1>1, <1>2, <1>3, Stays

LEMMA BucketExistsStep ==
    ASSUME TasksOK, NEW t \in Tasks, task[t].pc \notin Waiting \cup {"audit", "emit", "save", "push", "retain"},
           task[t].op \notin {"delete_tenant", "CopyObject"}, BucketExists(t, "done")
    PROVE  Becomes(t) /\ Reads
BY NextStays, ContinueEnds DEF BucketExists, Waiting

LEMMA GetConfigStep ==
    ASSUME TasksOK, NEW t \in Tasks, task[t].pc \notin Waiting \cup {"audit", "emit", "save", "push", "retain"},
           task[t].op \notin {"delete_tenant", "CopyObject"}, NEW table, GetConfig(t, table, "done", "done")
    PROVE  Becomes(t) /\ Reads
<1>1. CASE BucketExists(t, "done")
    BY <1>1, BucketExistsStep
<1>2. ASSUME NEW v, Become(t, Return([task[t] EXCEPT !.value = v], "done")) PROVE Becomes(t)
    BY <1>2, ReadingEnds DEF Waiting
<1> QED
    BY <1>1, <1>2 DEF GetConfig

LEMMA HeadBucketStep ==
    ASSUME TasksOK, NEW t \in Tasks, task[t].pc \notin {"idle", "done", "audit", "emit"}, StoreHeadBucket(t, "done")
    PROVE  Becomes(t) /\ Reads
<1>1. ASSUME NEW v, Become(t, Return([task[t] EXCEPT !.value = v], "done")) PROVE Becomes(t)
    BY <1>1, ReadingEnds
<1> QED
    BY <1>1, ContinueEnds DEF StoreHeadBucket

LEMMA HeadObjectStep ==
    ASSUME TasksOK, NEW t \in Tasks, task[t].pc \notin {"idle", "done", "audit", "emit"}, NEW x, StoreHeadObject(t, x, "done")
    PROVE  Becomes(t) /\ Reads
<1>1. ASSUME NEW v, Become(t, Return([task[t] EXCEPT !.value = v], "done")) PROVE Becomes(t)
    BY <1>1, ReadingEnds
<1> QED
    BY <1>1, ContinueEnds DEF StoreHeadObject

LEMMA ListBucketsStep ==
    ASSUME TasksOK, NEW t \in Tasks, task[t].pc \notin {"idle", "done", "audit", "emit"}, NEW tenants,
           StoreListBuckets(t, tenants, "done")
    PROVE  Becomes(t) /\ Reads
<1>1. PICK v : Become(t, Return([task[t] EXCEPT !.keys = v], "done"))
    BY DEF StoreListBuckets
<1> DEFINE e == [task[t] EXCEPT !.keys = v]
<1>2. DOMAIN e = TaskFields /\ e.op = task[t].op /\ e.did = task[t].did /\ e.told = task[t].told /\ e.warned = task[t].warned
    BY Fields DEF TaskFields
<1> HIDE DEF e
<1>3. Become(t, Return(e, "done"))
    BY <1>1 DEF e
<1> QED
    BY <1>2, <1>3, Ends DEF StoreListBuckets

(* The handlers that only look.                                              *)
Looks(t) ==
    \/ ListBuckets(t) \/ HeadBucket(t) \/ GetBucketLocation(t) \/ GetBucketVersioning(t) \/ GetBucketTagging(t)
    \/ GetBucketCors(t) \/ GetBucketLifecycleConfiguration(t) \/ GetObjectLockConfiguration(t)
    \/ PutObjectLockConfiguration(t) \/ GetBucketNotificationConfiguration(t) \/ PutBucketNotificationConfiguration(t)
    \/ GetObject(t) \/ HeadObject(t) \/ GetObjectTagging(t) \/ GetObjectRetention(t) \/ GetObjectLegalHold(t)
    \/ AdminListBuckets(t) \/ AdminGetBucket(t) \/ AdminGetBucketVersioning(t) \/ AdminListTenants(t)
    \/ AdminGetBucketNotifications(t)

LEMMA LooksStep ==
    ASSUME TasksOK, NEW t \in Tasks, Looks(t)
    PROVE  Becomes(t) /\ Effect(task[t])
<1>1. task[t].pc \notin Waiting \cup {"audit", "emit", "save", "push", "retain"} /\ task[t].pc \notin {"idle", "done", "audit", "emit"}
    BY DEF Looks, ListBuckets, HeadBucket, GetBucketLocation, GetBucketVersioning, GetBucketTagging, GetBucketCors,
           GetBucketLifecycleConfiguration, GetObjectLockConfiguration, PutObjectLockConfiguration,
           GetBucketNotificationConfiguration, PutBucketNotificationConfiguration, GetObject, HeadObject,
           GetObjectTagging, GetObjectRetention, GetObjectLegalHold, AdminListBuckets, AdminGetBucket,
           AdminGetBucketVersioning, AdminListTenants, AdminGetBucketNotifications, Serving, At, Waiting
<1>2. task[t].op \notin {"delete_tenant", "CopyObject"}
    BY DEF Looks, ListBuckets, HeadBucket, GetBucketLocation, GetBucketVersioning, GetBucketTagging, GetBucketCors,
           GetBucketLifecycleConfiguration, GetObjectLockConfiguration, PutObjectLockConfiguration,
           GetBucketNotificationConfiguration, PutBucketNotificationConfiguration, GetObject, HeadObject,
           GetObjectTagging, GetObjectRetention, GetObjectLegalHold, AdminListBuckets, AdminGetBucket,
           AdminGetBucketVersioning, AdminListTenants, AdminGetBucketNotifications, Serving, At
<1>3. CASE ListBuckets(t) \/ AdminListBuckets(t)
    BY <1>1, <1>3, ListBucketsStep DEF ListBuckets, AdminListBuckets, Effect
<1>4. CASE HeadBucket(t) \/ GetBucketLocation(t) \/ PutBucketNotificationConfiguration(t) \/ AdminGetBucket(t)
    BY <1>1, <1>4, HeadBucketStep
       DEF HeadBucket, GetBucketLocation, PutBucketNotificationConfiguration, AdminGetBucket, Effect
<1>5. CASE GetBucketVersioning(t) \/ AdminGetBucketVersioning(t) \/ AdminListTenants(t)
    BY <1>1, <1>5, ContinueEnds DEF GetBucketVersioning, AdminGetBucketVersioning, AdminListTenants,
           StoreGetBucketVersioning, StoreListTenants, Effect
<1>6. CASE GetBucketTagging(t) \/ GetBucketCors(t) \/ GetBucketLifecycleConfiguration(t)
           \/ GetBucketNotificationConfiguration(t) \/ AdminGetBucketNotifications(t)
    BY <1>1, <1>2, <1>6, GetConfigStep
       DEF GetBucketTagging, GetBucketCors, GetBucketLifecycleConfiguration, GetBucketNotificationConfiguration,
           AdminGetBucketNotifications, StoreGetBucketTagging, StoreGetBucketCors, StoreGetBucketLifecycle,
           StoreGetBucketNotification, Effect
<1>7. CASE GetObjectLockConfiguration(t) \/ PutObjectLockConfiguration(t) \/ GetObjectRetention(t) \/ GetObjectLegalHold(t)
    BY <1>1, <1>2, <1>7, BucketExistsStep, ContinueEnds
       DEF GetObjectLockConfiguration, PutObjectLockConfiguration, GetObjectRetention, GetObjectLegalHold,
           StoreGetObjectLockConfiguration, StorePutObjectLockConfiguration, StoreGetObjectRetention,
           StoreGetObjectLegalHold, Effect
<1>8. CASE GetObject(t) \/ HeadObject(t) \/ GetObjectTagging(t)
    BY <1>1, <1>8, HeadObjectStep DEF GetObject, HeadObject, GetObjectTagging, Effect
<1> QED
    BY <1>3, <1>4, <1>5, <1>6, <1>7, <1>8 DEF Looks

-----------------------------------------------------------------------------
(* A store function returns, and the request goes on elsewhere.              *)
LEMMA GoesTo ==
    ASSUME TasksOK, NEW t \in Tasks, task[t].pc \notin Waiting, NEW e, SameRequest(task[t], e), e.since = task[t].since,
           NEW pc, pc \notin Waiting, pc = "delete" => task[t].pc = "delete", Become(t, Return(e, pc)), Names(e, pc),
           \A n : /\ n.pc = pc /\ n.call = 1 /\ n.op = task[t].op /\ n.value = e.value /\ n.did = e.did
                  /\ n.told = e.told /\ n.warned = task[t].warned
                  => Where(n) /\ Knows(n) /\ Reported(n)
    PROVE  Becomes(t)
<1> DEFINE n == Return(e, pc)
<1>1. /\ DOMAIN n = TaskFields /\ n.pc = pc /\ n.call = 1 /\ n.op = e.op
      /\ n.did = e.did /\ n.told = e.told /\ n.warned = e.warned
      /\ n.bucket = e.bucket /\ n.key = e.key /\ n.source = e.source /\ n.keys = e.keys
      /\ n.tenant = e.tenant /\ n.grants = e.grants /\ n.value = e.value /\ n.since = e.since
      /\ n.at = e.at /\ n.named = e.named
    BY ReturnFields DEF SameRequest, Waiting
<1>2. task' = [task EXCEPT ![t] = n]
    BY DEF Become
<1> HIDE DEF n
<1>3. SameRequest(task[t], n) /\ Counts(task[t], n)
    BY <1>1 DEF SameRequest, Counts
<1>4. Where(n) /\ Knows(n) /\ Reported(n)
    BY <1>1 DEF SameRequest
<1>5. Names(n, n.pc)
    BY <1>1 DEF Names
<1> QED
    BY <1>1, <1>2, <1>3, <1>4, <1>5, GoesOn

LEMMA AppendedOne == ASSUME NEW x PROVE Append(<<>>, x) = <<x>>
OBVIOUS

(* The store did something, and the request goes on, or is answered.         *)
LEMMA DidFields ==
    ASSUME TasksOK, NEW t \in Tasks, NEW what, NEW x
    PROVE  LET e == [task[t] EXCEPT !.did = Append(@, what), !.at = x]
           IN  /\ SameRequest(task[t], e) /\ e.since = task[t].since /\ e.told = task[t].told
               /\ e.value = task[t].value /\ e.did = Append(task[t].did, what) /\ e.at = x
BY Fields DEF SameRequest, TaskFields

LEMMA DidGoesTo ==
    ASSUME TasksOK, NEW t \in Tasks, task[t].pc \notin Waiting, NEW what, NEW x,
           NEW pc, pc \notin Waiting, pc = "delete" => task[t].pc = "delete", DidAt(t, what, x, pc), task[t].told = <<>>,
           pc \in {"audit", "emit"} /\ task[t].op # "CompleteMultipartUpload" => x = Place(t),
           \A n : /\ n.pc = pc /\ n.call = 1 /\ n.op = task[t].op /\ n.value = task[t].value
                  /\ n.did = Append(task[t].did, what) /\ n.told = task[t].told /\ n.warned = task[t].warned
                  => Where(n) /\ Knows(n) /\ Reported(n)
    PROVE  Becomes(t)
<1> DEFINE e == [task[t] EXCEPT !.did = Append(@, what), !.at = x]
<1>1. /\ SameRequest(task[t], e) /\ e.since = task[t].since /\ e.told = task[t].told
      /\ e.value = task[t].value /\ e.did = Append(task[t].did, what) /\ e.at = x
    BY Fields, SMT DEF SameRequest, TaskFields
<1>2. Become(t, Return(e, pc))
    BY DEF DidAt
<1> HIDE DEF e
<1>3. Names(e, pc)
    BY <1>1 DEF Names, SameRequest, Place
<1> QED
    BY <1>1, <1>2, <1>3, GoesTo

LEMMA DidEnds ==
    ASSUME TasksOK, NEW t \in Tasks, task[t].pc \notin {"idle", "done", "audit", "emit"}, NEW what, Did(t, what, "done"),
           task[t].op \notin {"CreateBucket", "DeleteBucket", "PutObject", "CopyObject",
                              "CompleteMultipartUpload", "DeleteObject"}
    PROVE  Becomes(t)
<1> DEFINE e == [task[t] EXCEPT !.did = Append(@, what), !.at = Place(t)]
           n == Return(e, "done")
<1>1. DOMAIN e = TaskFields /\ e.op = task[t].op /\ e.told = task[t].told /\ e.warned = task[t].warned
    BY DidFields DEF SameRequest
<1>2. /\ task[t].op \in S3Ops \cup AdminOps /\ task[t].told = <<>>
      /\ task[t].op # "DeleteObjects" => task[t].warned = {}
    BY Quiet DEF TasksOK
<1>3. task'[t] = n /\ task' = [task EXCEPT ![t] = task'[t]]
    BY BecomeAt DEF Become, Did, DidAt
<1> HIDE DEF e
<1>4. n.since = 0 /\ n.pc = "done" /\ n.op = task[t].op
    BY <1>1, ReturnFields
<1>5. n.op \in S3Ops => Due(n) = {<<>>}
    BY <1>4, DueOf
<1>6. TaskOK(n)
    <2>1. Names(e, "done")
        BY <1>1, <1>2, Unnamed
    <2> QED
        BY <1>1, <1>2, <1>4, <1>5, <2>1, AnswerOK
<1> HIDE DEF n
<1> QED
    BY <1>3, <1>4, <1>6 DEF Becomes, Counts

(* The request goes on without a word.                                       *)
LEMMA ContinueGoesTo ==
    ASSUME TasksOK, NEW t \in Tasks, task[t].pc \notin Waiting, NEW pc, pc \notin Waiting,
           pc = "delete" => task[t].pc = "delete", Continue(t, pc), pc \notin {"audit", "emit"}, task[t].told = <<>>,
           \A n : /\ n.pc = pc /\ n.call = 1 /\ n.op = task[t].op /\ n.value = task[t].value
                  /\ n.did = task[t].did /\ n.told = task[t].told /\ n.warned = task[t].warned
                  => Where(n) /\ Knows(n) /\ Reported(n)
    PROVE  Becomes(t)
<1>1. SameRequest(task[t], task[t])
    BY Fields DEF SameRequest
<1>2. Names(task[t], pc)
    BY Unnamed
<1> QED
    BY <1>1, <1>2, GoesTo DEF Continue

-----------------------------------------------------------------------------
(* The tables of settings.                                                   *)
LEMMA PutConfigStep ==
    ASSUME TasksOK, NEW t \in Tasks, task[t].pc \in {"handle", "save"},
           task[t].op \notin {"delete_tenant", "CopyObject"},
           NEW table \in Tables, NEW value, NEW valid, PutConfig(t, table, value, valid),
           Granted(task[t], ConfigGrants[table], task[t].bucket, None),
           valid => Knows([task[t] EXCEPT !.call = 2, !.value = value]),
           table = "notification" /\ task[t].call = 2 => task[t].value \in Seq(Rules) /\ IsInjective(task[t].value)
    PROVE  Becomes(t) /\ Effect(task[t])
<1> DEFINE k == task[t]
<1>1. ASSUME Closure(t, 1) PROVE Becomes(t) /\ Reads
    <2>1. ASSUME valid, task' = [task EXCEPT ![t].call = 2, ![t].value = value] PROVE Becomes(t)
        BY <2>1, ToClosure DEF Waiting
    <2>2. ASSUME Continue(t, "done") PROVE Becomes(t)
        BY <2>2, ContinueEnds
    <2> QED
        BY <1>1, <2>1, <2>2 DEF PutConfig, Closure
<1>2. ASSUME Closure(t, 2) PROVE Becomes(t) /\ (Reads \/ ConfigPut(k))
    <2>1. Becomes(t)
        BY <1>2, ContinueEnds DEF PutConfig, Closure
    <2>2. CASE k.bucket \notin DOMAIN db.buckets
        BY <1>2, <2>1, <2>2 DEF PutConfig, Closure, Reads
    <2>3. CASE k.bucket \in DOMAIN db.buckets
        <3>1. db' = [db EXCEPT !.config = Bind(@, <<table, k.bucket>>, [value |-> k.value, gen |-> db.buckets[k.bucket].gen])]
            BY <1>2, <2>3 DEF PutConfig, Closure
        <3>2. table = "notification" => k.value \in Seq(Rules) /\ IsInjective(k.value)
            BY <1>2 DEF Closure
        <3> QED
            BY <2>1, <2>3, <3>1, <3>2 DEF ConfigPut
    <2> QED
        BY <2>2, <2>3
<1> QED
    BY <1>1, <1>2 DEF PutConfig, Effect

LEMMA DeleteConfigStep ==
    ASSUME TasksOK, NEW t \in Tasks, task[t].pc = "handle", task[t].op \notin {"delete_tenant", "CopyObject"},
           NEW table \in Tables, DeleteConfig(t, table),
           Granted(task[t], ConfigGrants[table], task[t].bucket, None)
    PROVE  Becomes(t) /\ Effect(task[t])
<1>1. CASE BucketExists(t, "done")
    BY <1>1, BucketExistsStep DEF Effect, Waiting
<1>2. CASE /\ db' = [db EXCEPT !.config = Without(@, {<<table, task[t].bucket>>})]
           /\ Continue(t, "done")
    BY <1>2, ContinueEnds DEF Effect, ConfigGone
<1> QED
    BY <1>1, <1>2 DEF DeleteConfig

-----------------------------------------------------------------------------
(* Buckets.                                                                  *)
LEMMA CreateBucketStep ==
    ASSUME TasksOK, NEW t \in Tasks, NEW tenant \in Slugs, NEW next, StoreCreateBucket(t, tenant, next),
           \/ Serving(t, "CreateBucket") /\ next = "audit"
           \/ Serving(t, "create_bucket") /\ next \in {"done", "versioning", "versioning_for_lock"},
           Granted(task[t], {"CreateBucket"}, task[t].bucket, None) \/ Granted(task[t], {"CreateBucket"}, None, None)
    PROVE  Becomes(t) /\ Effect(task[t])
<1> DEFINE k == task[t]
<1>0. TaskOK(k) /\ k.pc = "handle" /\ k.op \in {"CreateBucket", "create_bucket"} /\ k.bucket \in Buckets
    BY DEF TasksOK, TaskOK, Arguments, Serving, At
<1>1. CASE k.bucket \in DOMAIN db.buckets
    BY <1>0, <1>1, ContinueEnds DEF StoreCreateBucket, Effect
<1>2. CASE k.bucket \notin DOMAIN db.buckets
    <2>1. BucketCreated(k)
        BY <1>0, <1>2 DEF StoreCreateBucket, BucketCreated
    <2>2. Did(t, "create_bucket", next)
        BY <1>2 DEF StoreCreateBucket
    <2>3. ASSUME next = "done" PROVE Becomes(t)
        <3>1. k.op = "create_bucket"
            BY <2>3 DEF Serving
        <3> QED
            BY <1>0, <2>2, <2>3, <3>1, DidEnds
    <2>4. ASSUME next # "done" PROVE Becomes(t)
        <3>1. k.told = <<>> /\ k.warned = {} /\ (k.op \in S3Ops => k.did = <<>>) /\ k.op \in S3Ops \cup AdminOps
            BY <1>0, Quiet
        <3>2. k.did = <<>> => Append(k.did, "create_bucket") = <<"create_bucket">>
            BY AppendedOne
        <3>3. "CreateBucket" \in S3Ops /\ "create_bucket" \notin S3Ops
            BY DEF S3Ops, ObjectOps, BucketOps, CopyOps, PartOps
        <3>4. ASSUME NEW n, n.pc = next, n.call = 1, n.op = k.op, n.value = k.value,
                     n.did = Append(k.did, "create_bucket"), n.told = k.told, n.warned = k.warned
              PROVE  Where(n) /\ Knows(n) /\ Reported(n)
            BY <1>0, <2>4, <3>1, <3>2, <3>3, <3>4 DEF Where, Knows, Reported, Serving
        <3>5. next \notin Waiting /\ next # "delete" /\ k.pc \notin Waiting
            BY <1>0, <2>4 DEF Waiting
        <3>6. DidAt(t, "create_bucket", Place(t), next)
            BY <2>2 DEF Did
        <3> QED
            BY <3>1, <3>4, <3>5, <3>6, DidGoesTo
    <2> QED
        BY <2>1, <2>3, <2>4 DEF Effect
<1> QED
    BY <1>1, <1>2

(* What a request that is being served was granted.                          *)
LEMMA Permitted ==
    ASSUME NEW k, TaskOK(k), k.pc \notin Waiting
    PROVE  /\ k.op \in ObjectOps => Ask(k.op, k.bucket, k.key) \in k.grants
           /\ k.op \in BucketOps => Ask(k.op, k.bucket, None) \in k.grants
           /\ k.op \in PartOps => Ask("PutObject", k.bucket, k.key) \in k.grants
           /\ k.op \in CopyOps => /\ Ask("PutObject", k.bucket, k.key) \in k.grants
                                  /\ Ask("GetObject", k.source[1], k.source[2]) \in k.grants
           /\ k.op \in AdminOps => AuthorizationTarget(k.op, k.bucket, k.key) \in k.grants
<1>1. Wanted(k) \subseteq k.grants
    BY DEF TaskOK, Cleared
<1> QED
    BY <1>1 DEF Wanted, ObjectOps, BucketOps, CopyOps, PartOps, AdminOps

LEMMA AdminPermitted ==
    ASSUME NEW k, TaskOK(k), k.pc \notin Waiting
    PROVE  /\ k.op = "create_bucket" => Ask("CreateBucket", None, None) \in k.grants
           /\ k.op = "delete_bucket" => Ask("DeleteBucket", k.bucket, None) \in k.grants
           /\ k.op = "delete_objects" => Ask("DeleteObject", k.bucket, None) \in k.grants
           /\ k.op = "delete_object" => Ask("DeleteObject", k.bucket, k.key) \in k.grants
           /\ k.op = "set_bucket_versioning" => Ask("PutBucketVersioning", k.bucket, None) \in k.grants
           /\ k.op \in {"create_tenant", "delete_tenant"} => Ask("All", None, None) \in k.grants
           /\ k.op \in {"create_bucket_notification", "delete_bucket_notification"} => Ask("All", k.bucket, None) \in k.grants
<1>1. k.op \in AdminOps => AuthorizationTarget(k.op, k.bucket, k.key) \in k.grants
    BY Permitted
<1> QED
    BY <1>1 DEF AuthorizationTarget, AdminOps

(* The S3 handlers that tell of what the store did, at the point where they  *)
(* know of it.                                                               *)
LEMMA DidAndTells ==
    ASSUME TasksOK, NEW t \in Tasks, task[t].pc \notin Waiting \cup {"audit", "emit"}, NEW what, NEW x, NEW pc, DidAt(t, what, x, pc),
           task[t].op # "CompleteMultipartUpload" => x = Place(t),
           \/ task[t].op = "CreateBucket" /\ what = "create_bucket" /\ pc = "audit"
           \/ task[t].op = "DeleteBucket" /\ what = "delete_bucket" /\ pc = "audit"
           \/ task[t].op = "DeleteObject" /\ what \in {"delete", "marker"} /\ pc = "audit"
           \/ task[t].op = "PutObject" /\ what = "put" /\ pc = "emit"
           \/ task[t].op = "CopyObject" /\ what = "copy" /\ pc = "emit"
           \/ task[t].op = "CompleteMultipartUpload" /\ what = "complete" /\ pc = "emit"
    PROVE  Becomes(t)
<1> DEFINE k == task[t]
<1>1. k.op \in S3Ops /\ k.op # "DeleteObjects"
    BY DEF S3Ops, ObjectOps, BucketOps, CopyOps, PartOps
<1>2. k.told = <<>> /\ k.warned = {} /\ k.did = <<>>
    BY <1>1, Quiet DEF TasksOK, Waiting
<1>3. Append(k.did, what) = <<what>>
    BY <1>2, AppendedOne
<1>4. ASSUME NEW n, n.pc = pc, n.call = 1, n.op = k.op, n.value = k.value,
             n.did = Append(k.did, what), n.told = k.told, n.warned = k.warned
      PROVE  Where(n) /\ Knows(n) /\ Reported(n)
    BY <1>1, <1>2, <1>3, <1>4 DEF Where, Knows, Reported
<1> QED
    BY <1>2, <1>4, DidGoesTo DEF Waiting

LEMMA DeleteBucketStep ==
    ASSUME TasksOK, NEW t \in Tasks, NEW ok, StoreDeleteBucket(t, ok),
           \/ Serving(t, "DeleteBucket") /\ ok = "audit"
           \/ Scoped(t, "delete_bucket") /\ ok = "done"
    PROVE  Becomes(t) /\ Effect(task[t])
<1> DEFINE k == task[t]
<1>1. TaskOK(k) /\ k.pc \in {"handle", "scoped"} /\ k.op \in {"DeleteBucket", "delete_bucket"}
    BY DEF TasksOK, Serving, Scoped, At
<1>2. ASSUME Closure(t, 1) PROVE Becomes(t) /\ Reads
    <2>1. ASSUME NextClosure(t) PROVE Becomes(t)
        BY <1>1, <1>2, <2>1, NextStays DEF Waiting
    <2>2. ASSUME Continue(t, "done") PROVE Becomes(t)
        BY <1>1, <2>2, ContinueEnds
    <2> QED
        BY <1>2, <2>1, <2>2 DEF StoreDeleteBucket, Closure
<1>3. ASSUME Closure(t, 2) PROVE Becomes(t) /\ BucketGone(k)
    <2>1. Did(t, "delete_bucket", ok) /\ db' = BucketDeleted(k.bucket)
        BY <1>3 DEF StoreDeleteBucket, Closure
    <2>2. ASSUME Serving(t, "DeleteBucket"), ok = "audit" PROVE Becomes(t)
        BY <1>1, <2>1, <2>2, DidAndTells DEF Serving, Waiting, Did
    <2>3. ASSUME Scoped(t, "delete_bucket"), ok = "done" PROVE Becomes(t)
        BY <1>1, <2>1, <2>3, DidEnds DEF Scoped
    <2>4. Ask("DeleteBucket", k.bucket, None) \in k.grants
        BY <1>1, Permitted, AdminPermitted DEF Waiting, BucketOps
    <2>5. Granted(k, {"DeleteBucket"}, k.bucket, None)
        BY <2>4, GrantedBy
    <2> QED
        BY <2>1, <2>2, <2>3, <2>5 DEF BucketGone
<1> QED
    BY <1>2, <1>3 DEF StoreDeleteBucket, Effect

LEMMA SetVersioningEffect ==
    ASSUME NEW t, NEW enabled, NEW next, StoreSetBucketVersioning(t, enabled, next), VersioningGrant(task[t])
    PROVE  Effect(task[t])
<1>1. CASE task[t].bucket \notin DOMAIN db.buckets
    BY <1>1 DEF StoreSetBucketVersioning, Effect, Reads
<1>2. CASE task[t].bucket \in DOMAIN db.buckets
    <2> DEFINE v == IF enabled THEN "Enabled" ELSE "Suspended"
    <2>1. db' = [db EXCEPT !.buckets[task[t].bucket].versioning = v] /\ v \in {"Enabled", "Suspended"}
        BY <1>2 DEF StoreSetBucketVersioning
    <2> QED
        BY <1>2, <2>1 DEF VersioningSet, Effect
<1> QED
    BY <1>1, <1>2

(* The handlers of buckets.                                                  *)
BucketStep(t) ==
    \/ Serving(t, "CreateBucket") /\ StoreCreateBucket(t, None, "audit")
    \/ Serving(t, "DeleteBucket") /\ StoreDeleteBucket(t, "audit")
    \/ PutBucketVersioning(t) \/ AdminSetBucketVersioning(t) \/ AdminCreateBucket(t)
    \/ Scoped(t, "delete_bucket") /\ StoreDeleteBucket(t, "done")

LEMMA BucketStepOK ==
    ASSUME TasksOK, NEW t \in Tasks, BucketStep(t)
    PROVE  Becomes(t) /\ Effect(task[t])
<1> DEFINE k == task[t]
<1>1. TaskOK(k)
    BY DEF TasksOK
<1>2. CASE Serving(t, "CreateBucket") /\ StoreCreateBucket(t, None, "audit")
    <2>1. Ask("CreateBucket", k.bucket, None) \in k.grants
        BY <1>1, <1>2, Permitted DEF Serving, At, Waiting, BucketOps
    <2>2. Granted(k, {"CreateBucket"}, k.bucket, None)
        BY <2>1, GrantedBy
    <2> QED
        BY <1>2, <2>2, CreateBucketStep DEF Slugs
<1>3. CASE Serving(t, "create_bucket") /\ \E next \in {"done", "versioning", "versioning_for_lock"} :
                                            StoreCreateBucket(t, k.tenant, next)
    <2>1. Ask("CreateBucket", None, None) \in k.grants
        BY <1>1, <1>3, AdminPermitted DEF Serving, At, Waiting
    <2>2. Granted(k, {"CreateBucket"}, None, None)
        BY <2>1, GrantedBy
    <2>3. k.tenant \in Slugs
        BY <1>1, <1>3 DEF TaskOK, Arguments, Serving, At
    <2> QED
        BY <1>3, <2>2, <2>3, CreateBucketStep
<1>4. CASE \/ Serving(t, "DeleteBucket") /\ StoreDeleteBucket(t, "audit")
           \/ Scoped(t, "delete_bucket") /\ StoreDeleteBucket(t, "done")
    BY <1>4, DeleteBucketStep
<1>5. CASE PutBucketVersioning(t) \/ AdminSetBucketVersioning(t)
    <2>1. k.pc = "handle" /\ Continue(t, "done") /\ k.op \in {"PutBucketVersioning", "set_bucket_versioning"}
        BY <1>5 DEF PutBucketVersioning, AdminSetBucketVersioning, StoreSetBucketVersioning, Serving, At
    <2>0. VersioningGrant(k)
        <3>1. Ask("PutBucketVersioning", k.bucket, None) \in k.grants
            BY <1>1, <2>1, Permitted, AdminPermitted DEF Waiting, BucketOps
        <3> QED
            BY <3>1, GrantedBy DEF VersioningGrant
    <2>2. Effect(k)
        BY <1>5, <2>0, SetVersioningEffect DEF PutBucketVersioning, AdminSetBucketVersioning, Effect
    <2> QED
        BY <2>1, <2>2, ContinueEnds
<1>0. k.pc \in {"versioning", "versioning_for_lock"} => VersioningGrant(k)
    <2>1. k.pc \in {"versioning", "versioning_for_lock"} =>
            k.op = "create_bucket" /\ Ask("CreateBucket", None, None) \in k.grants
        BY <1>1, AdminPermitted DEF TaskOK, Where, Waiting
    <2> QED
        BY <2>1, GrantedBy DEF VersioningGrant
<1>6. CASE At(t, "versioning") /\ StoreSetBucketVersioning(t, TRUE, "done")
    <2>1. k.pc = "versioning" /\ Continue(t, "done")
        BY <1>6 DEF StoreSetBucketVersioning, At
    <2> QED
        BY <1>0, <1>6, <2>1, SetVersioningEffect, ContinueEnds
<1>7. CASE At(t, "versioning_for_lock") /\ StoreSetBucketVersioning(t, TRUE, "locking")
    <2>1. k.pc = "versioning_for_lock" /\ Continue(t, "locking") /\ k.op = "create_bucket"
        BY <1>1, <1>7 DEF StoreSetBucketVersioning, At, TaskOK, Where
    <2>2. k.told = <<>> /\ k.warned = {} /\ k.op \notin S3Ops
        BY <1>1, <2>1, Quiet DEF S3Ops, ObjectOps, BucketOps, CopyOps, PartOps
    <2>3. ASSUME NEW n, n.pc = "locking", n.call = 1, n.op = k.op, n.value = k.value,
                 n.did = k.did, n.told = k.told, n.warned = k.warned
          PROVE  Where(n) /\ Knows(n) /\ Reported(n)
        BY <2>1, <2>2, <2>3 DEF Where, Knows, Reported
    <2>4. Becomes(t)
        BY <2>1, <2>2, <2>3, ContinueGoesTo DEF Waiting
    <2> QED
        BY <1>0, <1>7, <2>1, <2>4, SetVersioningEffect
<1>8. CASE At(t, "locking") /\ StorePutObjectLockConfiguration(t)
    <2>1. k.pc = "locking" /\ k.op = "create_bucket"
        BY <1>1, <1>8 DEF At, TaskOK, Where
    <2> QED
        BY <1>8, <2>1, BucketExistsStep, ContinueEnds DEF StorePutObjectLockConfiguration, Effect, Waiting
<1> QED
    BY <1>2, <1>3, <1>4, <1>5, <1>6, <1>7, <1>8 DEF BucketStep, AdminCreateBucket

-----------------------------------------------------------------------------
(* Tenants.                                                                  *)
LEMMA CreateTenantStep ==
    ASSUME TasksOK, DbOK(db), NEW t \in Tasks, AdminCreateTenant(t)
    PROVE  Becomes(t) /\ Effect(task[t])
<1> DEFINE k == task[t]
<1>1. TaskOK(k) /\ k.pc = "handle" /\ k.op = "create_tenant" /\ k.tenant \in Tenants
    BY DEF TasksOK, AdminCreateTenant, Serving, At, TaskOK, Arguments
<1>2. ASSUME NextClosure(t), Closure(t, 1) PROVE Becomes(t)
    BY <1>1, <1>2, NextStays DEF Waiting
<1>3. ASSUME Continue(t, "done") PROVE Becomes(t)
    BY <1>1, <1>3, ContinueEnds
<1>4. ASSUME db' = [db EXCEPT !.tenants = @ \cup {k.tenant}] PROVE TenantsChanged(k)
    <2>1. db.tenants \cup {k.tenant} \in SUBSET Tenants
        BY <1>1 DEF DbOK
    <2>2. Ask("All", None, None) \in k.grants
        BY <1>1, AdminPermitted DEF Waiting
    <2>3. Granted(k, {}, None, None)
        BY <2>2, GrantedByAll
    <2> QED
        BY <1>1, <1>4, <2>1, <2>3 DEF TenantsChanged
<1> QED
    BY <1>2, <1>3, <1>4 DEF AdminCreateTenant, StoreCreateTenant, StoreGetTenant, Effect

LEMMA DeleteTenantStep ==
    ASSUME TasksOK, DbOK(db), NEW t \in Tasks, AdminDeleteTenant(t)
    PROVE  Becomes(t) /\ Effect(task[t])
<1> DEFINE k == task[t]
<1>1. TaskOK(k) /\ k.pc = "handle" /\ k.op = "delete_tenant" /\ StoreDeleteTenant(t)
    BY DEF TasksOK, AdminDeleteTenant, Serving, At
<1>2. ASSUME Continue(t, "done") PROVE Becomes(t)
    BY <1>1, <1>2, ContinueEnds
<1>3. ASSUME ~TenantInUse(k.tenant), task' = [task EXCEPT ![t].call = 2, ![t].since = db.gen] PROVE Becomes(t)
    <2> DEFINE n == [k EXCEPT !.call = 2, !.since = db.gen]
    <2>1. /\ SameRequest(k, n) /\ n.pc = k.pc /\ n.did = k.did /\ n.told = k.told
          /\ n.since = db.gen /\ n.call = 2
        BY Fields DEF TaskFields, SameRequest
    <2>2. task' = [task EXCEPT ![t] = n]
        BY <1>3 DEF TasksOK
    <2> HIDE DEF n
    <2>3. n.op = "delete_tenant" /\ n.pc = "handle" /\ n.tenant = k.tenant
        BY <1>1, <2>1 DEF SameRequest
    <2>4. Where(n) /\ Knows(n)
        BY <2>3 DEF Where, Knows
    <2>5. Reported(n)
        BY <1>1, <2>1 DEF TaskOK, Reported, SameRequest
    <2>6. Counts(k, n)
        BY <1>3, <2>1, <2>3 DEF Counts, TenantInUse
    <2>7. Names(n, n.pc)
        BY <1>1, <2>1, <2>3, Unnamed DEF TaskOK, Reported
    <2> QED
        BY <1>1, <2>1, <2>2, <2>3, <2>4, <2>5, <2>6, <2>7, GoesOn DEF Waiting
<1>4. ASSUME Closure(t, 1) PROVE Becomes(t) /\ Reads
    BY <1>1, <1>2, <1>3, <1>4 DEF StoreDeleteTenant, Closure
<1>5. ASSUME Closure(t, 2) PROVE Becomes(t) /\ TenantsChanged(k)
    <2>1. db' = [db EXCEPT !.tenants = @ \ {k.tenant}] /\ Continue(t, "done")
        BY <1>1, <1>5 DEF StoreDeleteTenant, Closure
    <2>2. db.tenants \ {k.tenant} \in SUBSET Tenants
        BY DEF DbOK
    <2>3. Ask("All", None, None) \in k.grants
        BY <1>1, AdminPermitted DEF Waiting
    <2>4. Granted(k, {}, None, None)
        BY <2>3, GrantedByAll
    <2> QED
        BY <1>1, <1>2, <1>5, <2>1, <2>2, <2>4 DEF TenantsChanged, Closure
<1> QED
    BY <1>1, <1>4, <1>5 DEF StoreDeleteTenant, Effect

-----------------------------------------------------------------------------
(* The handlers of settings.                                                 *)
SettingsStep(t) ==
    \/ PutBucketTagging(t) \/ DeleteBucketTagging(t) \/ PutBucketCors(t) \/ DeleteBucketCors(t)
    \/ PutBucketLifecycleConfiguration(t) \/ DeleteBucketLifecycle(t)

LEMMA SettingsStepOK ==
    ASSUME TasksOK, NEW t \in Tasks, SettingsStep(t)
    PROVE  Becomes(t) /\ Effect(task[t])
<1> DEFINE k == task[t]
<1>1. TaskOK(k) /\ k.pc = "handle" /\ DOMAIN k = TaskFields
    BY DEF TasksOK, TaskOK, SettingsStep, PutBucketTagging, DeleteBucketTagging, PutBucketCors, DeleteBucketCors,
           PutBucketLifecycleConfiguration, DeleteBucketLifecycle, Serving, At
<1>2. /\ Granted(k, ConfigGrants.tags, k.bucket, None) \/ k.op \notin {"PutBucketTagging", "DeleteBucketTagging"}
      /\ Granted(k, ConfigGrants.cors, k.bucket, None) \/ k.op \notin {"PutBucketCors", "DeleteBucketCors"}
      /\ \/ Granted(k, ConfigGrants.lifecycle, k.bucket, None)
         \/ k.op \notin {"PutBucketLifecycleConfiguration", "DeleteBucketLifecycle"}
    <2>1. k.op \in {"PutBucketTagging", "DeleteBucketTagging", "PutBucketCors", "DeleteBucketCors",
                    "PutBucketLifecycleConfiguration", "DeleteBucketLifecycle"} => Ask(k.op, k.bucket, None) \in k.grants
        BY <1>1, Permitted DEF Waiting, BucketOps
    <2> QED
        BY <2>1, GrantedBy DEF ConfigGrants
<1>3. ASSUME NEW v, k.op \notin {"CopyObject", "PutObjectRetention", "create_bucket_notification"}
      PROVE  Knows([k EXCEPT !.call = 2, !.value = v])
    <2> DEFINE n == [k EXCEPT !.call = 2, !.value = v]
    <2>1. n.pc = "handle" /\ n.op = k.op /\ n.value = v
        BY <1>1 DEF TaskFields
    <2> HIDE DEF n
    <2>2. Knows(n)
        BY <1>3, <2>1 DEF Knows
    <2> QED
        BY <2>2 DEF n
<1>4. CASE PutBucketTagging(t)
    <2>1. k.op = "PutBucketTagging" /\ \E valid \in BOOLEAN : PutConfig(t, "tags", "tags", valid)
        BY <1>4 DEF PutBucketTagging, Serving, StorePutBucketTagging
    <2> QED
        BY <1>1, <1>2, <1>3, <2>1, PutConfigStep DEF Tables
<1>5. CASE PutBucketCors(t)
    <2>1. k.op = "PutBucketCors" /\ \E valid \in BOOLEAN : PutConfig(t, "cors", "cors", valid)
        BY <1>5 DEF PutBucketCors, Serving, StorePutBucketCors
    <2> QED
        BY <1>1, <1>2, <1>3, <2>1, PutConfigStep DEF Tables
<1>6. CASE PutBucketLifecycleConfiguration(t)
    <2>1. k.op = "PutBucketLifecycleConfiguration" /\ \E valid \in BOOLEAN : PutConfig(t, "lifecycle", "rules", valid)
        BY <1>6 DEF PutBucketLifecycleConfiguration, Serving, StorePutBucketLifecycle
    <2> QED
        BY <1>1, <1>2, <1>3, <2>1, PutConfigStep DEF Tables
<1>7. CASE DeleteBucketTagging(t)
    BY <1>1, <1>2, <1>7, DeleteConfigStep DEF DeleteBucketTagging, Serving, StoreDeleteBucketTagging, Tables
<1>8. CASE DeleteBucketCors(t)
    BY <1>1, <1>2, <1>8, DeleteConfigStep DEF DeleteBucketCors, Serving, StoreDeleteBucketCors, Tables
<1>9. CASE DeleteBucketLifecycle(t)
    BY <1>1, <1>2, <1>9, DeleteConfigStep DEF DeleteBucketLifecycle, Serving, StoreDeleteBucketLifecycle, Tables
<1> QED
    BY <1>4, <1>5, <1>6, <1>7, <1>8, <1>9 DEF SettingsStep

-----------------------------------------------------------------------------
(* Objects.                                                                  *)
LEMMA RowFields ==
    ASSUME NEW from \in SUBSET (Buckets \X Keys), NEW tags \in BOOLEAN
    PROVE  /\ Row(from, tags) \in RowType /\ Row(from, tags).from = from /\ Row(from, tags).mode = None
           /\ ~Row(from, tags).hold /\ ~Row(from, tags).marker
BY DEF Row, RowType

LEMMA MarkerIsRow == Marker \in RowType
BY DEF Marker, Row, RowType

LEMMA PutObjectStep ==
    ASSUME TasksOK, NEW t \in Tasks, Serving(t, "PutObject"), StorePutObject(t, "emit")
    PROVE  Becomes(t) /\ Effect(task[t])
<1> DEFINE k == task[t]
           row == Row({Place(t)}, FALSE)
<1>1. TaskOK(k) /\ k.pc = "handle" /\ k.op = "PutObject" /\ k.bucket \in Buckets /\ k.key \in Keys
    BY DEF TasksOK, Serving, At, TaskOK, Arguments, KeyedOps, ObjectOps
<1>2. CASE Continue(t, "done") /\ Reads
    BY <1>1, <1>2, ContinueEnds DEF Effect
<1>3. CASE /\ k.bucket \in DOMAIN db.buckets
           /\ db' = [db EXCEPT !.objects = Bind(@, Place(t), row)]
           /\ Did(t, "put", "emit")
    <2>1. Becomes(t)
        BY <1>1, <1>3, DidAndTells DEF Waiting, Did
    <2>0. {Place(t)} \in SUBSET (Buckets \X Keys)
        BY <1>1 DEF Place
    <2>2. row \in RowType
        BY <2>0, RowFields
    <2>3. Ask("PutObject", k.bucket, k.key) \in k.grants
        BY <1>1, Permitted DEF Waiting, ObjectOps
    <2>4. WriteGrant(k, Place(t), {Place(t)})
        BY <1>1, <2>3, GrantedBy DEF WriteGrant, Place
    <2>6. \E from \in SUBSET (Buckets \X Keys), tags \in BOOLEAN : row = Row(from, tags) /\ WriteGrant(k, Place(t), from)
        BY <2>0, <2>4
    <2> HIDE DEF row
    <2>5. ObjectWritten(k)
        BY <1>1, <1>3, <2>2, <2>6 DEF ObjectWritten, Place
    <2> QED
        BY <2>1, <2>5 DEF Effect
<1> QED
    BY <1>2, <1>3 DEF StorePutObject

LEMMA DeleteObjectStep ==
    ASSUME TasksOK, NEW t \in Tasks, NEW ok, NEW failed, task[t].key \in Keys, DeleteGrant(task[t], Place(t)),
           Continue(t, failed) => Becomes(t), \A what \in {"delete", "marker"} : Did(t, what, ok) => Becomes(t),
           StoreDeleteObject(t, ok, failed) \/ StoreDeleteObjectVersion(t, ok, failed)
    PROVE  Becomes(t) /\ Effect(task[t])
<1> DEFINE k == task[t]
<1>1. Becomes(t)
    BY DEF StoreDeleteObject, StoreDeleteObjectVersion
<1>2. Marker \in RowType
    BY MarkerIsRow
<1>3. ASSUME db' = [db EXCEPT !.objects = Without(@, {Place(t)})] PROVE ObjectGone(k)
    BY <1>3 DEF ObjectGone, Place
<1>4. ASSUME k.bucket \in DOMAIN db.buckets, db' = [db EXCEPT !.objects = Bind(@, Place(t), Marker)] PROVE ObjectWritten(k)
    BY <1>2, <1>4 DEF ObjectWritten, Place
<1>5. ASSUME StoreDeleteObject(t, ok, failed) PROVE Reads \/ ObjectGone(k) \/ ObjectWritten(k)
    <2>1. \/ Reads
          \/ k.bucket \in DOMAIN db.buckets /\ db' = [db EXCEPT !.objects = Bind(@, Place(t), Marker)]
          \/ db' = [db EXCEPT !.objects = Without(@, {Place(t)})]
        BY <1>5 DEF StoreDeleteObject
    <2> QED
        BY <1>3, <1>4, <2>1
<1>6. ASSUME StoreDeleteObjectVersion(t, ok, failed) PROVE Reads \/ ObjectGone(k)
    BY <1>3, <1>6 DEF StoreDeleteObjectVersion, Reads
<1> QED
    BY <1>1, <1>5, <1>6 DEF Effect

(* The deletes, one by one and in batches.                                   *)
DeleteStep(t) ==
    \/ Serving(t, "DeleteObject") /\ StoreDeleteObject(t, "audit", "done")
    \/ Serving(t, "DeleteObject") /\ StoreDeleteObjectVersion(t, "audit", "done")
    \/ At(t, "delete") /\ task[t].op = "DeleteObjects" /\ StoreDeleteObject(t, "handle", "handle")
    \/ At(t, "delete") /\ task[t].op = "DeleteObjects" /\ StoreDeleteObjectVersion(t, "handle", "handle")
    \/ Scoped(t, "delete_object") /\ StoreDeleteObject(t, "done", "done")
    \/ At(t, "delete") /\ task[t].op = "delete_objects" /\ StoreDeleteObject(t, "scoped", "scoped")

LEMMA DeleteStepOK ==
    ASSUME TasksOK, NEW t \in Tasks, DeleteStep(t)
    PROVE  Becomes(t) /\ Effect(task[t])
<1> DEFINE k == task[t]
<1>1. /\ TaskOK(k) /\ k.pc \in {"handle", "delete", "scoped"}
      /\ k.op \in {"DeleteObject", "delete_object"} \/ (k.pc = "delete" /\ k.op \in {"DeleteObjects", "delete_objects"})
    BY DEF TasksOK, DeleteStep, Serving, Scoped, At
<1>2. k.key \in Keys
    BY <1>1 DEF TaskOK, Arguments, KeyedOps, ObjectOps
<1>3. DeleteGrant(k, Place(t))
    <2>1. CASE k.op \in {"DeleteObject", "delete_object"}
        <3>1. Ask("DeleteObject", k.bucket, k.key) \in k.grants
            BY <1>1, <2>1, Permitted, AdminPermitted DEF Waiting, ObjectOps
        <3> QED
            BY <3>1, GrantedBy DEF DeleteGrant, Place
    <2>2. CASE k.op = "DeleteObjects"
        <3>1. Ask("DeleteObject", k.bucket, k.key) \in k.grants
            BY <1>1, <2>2 DEF TaskOK, Cleared, KeyAsk
        <3> QED
            BY <3>1, GrantedBy DEF DeleteGrant, Place
    <2>3. CASE k.op = "delete_objects"
        <3>1. Ask("DeleteObject", k.bucket, None) \in k.grants
            BY <1>1, <2>3, AdminPermitted DEF Waiting
        <3> QED
            BY <2>3, <3>1, GrantedBy DEF DeleteGrant, Place
    <2> QED
        BY <1>1, <2>1, <2>2, <2>3
<1>4. CASE \/ Serving(t, "DeleteObject") /\ StoreDeleteObject(t, "audit", "done")
           \/ Serving(t, "DeleteObject") /\ StoreDeleteObjectVersion(t, "audit", "done")
    <2>1. k.op = "DeleteObject"
        BY <1>4 DEF Serving
    <2>2. ASSUME NEW what \in {"delete", "marker"}, Did(t, what, "audit") PROVE Becomes(t)
        BY <1>1, <2>1, <2>2, DidAndTells DEF Waiting, Did
    <2>3. Continue(t, "done") => Becomes(t)
        BY <1>1, ContinueEnds
    <2> QED
        BY <1>2, <1>3, <1>4, <2>2, <2>3, DeleteObjectStep
<1>5. CASE Scoped(t, "delete_object") /\ StoreDeleteObject(t, "done", "done")
    <2>1. k.op = "delete_object"
        BY <1>5 DEF Scoped
    <2>2. ASSUME NEW what \in {"delete", "marker"}, Did(t, what, "done") PROVE Becomes(t)
        BY <1>1, <2>1, <2>2, DidEnds
    <2>3. Continue(t, "done") => Becomes(t)
        BY <1>1, ContinueEnds
    <2> QED
        BY <1>2, <1>3, <1>5, <2>2, <2>3, DeleteObjectStep
<1>6. ASSUME k.pc = "delete", NEW pc, <<pc, k.op>> \in {<<"handle", "DeleteObjects">>, <<"scoped", "delete_objects">>},
             StoreDeleteObject(t, pc, pc) \/ StoreDeleteObjectVersion(t, pc, pc)
      PROVE  Becomes(t) /\ Effect(k)
    <2>1. k.told = <<>> /\ (k.op = "delete_objects" => k.warned = {} /\ k.op \notin S3Ops)
        BY <1>1, <1>6, Quiet DEF S3Ops, ObjectOps, BucketOps, CopyOps, PartOps
    <2>2. ASSUME NEW n, n.pc = pc, n.call = 1, n.op = k.op, n.value = k.value, n.told = k.told, n.warned = k.warned
          PROVE  Where(n) /\ Knows(n) /\ Reported(n)
        BY <1>6, <2>1, <2>2 DEF Where, Knows, Reported
    <2>3. pc \notin Waiting /\ pc # "delete" /\ k.pc \notin Waiting
        BY <1>6 DEF Waiting
    <2>4. Continue(t, pc) => Becomes(t)
        BY <1>6, <2>1, <2>2, <2>3, ContinueGoesTo
    <2>5. ASSUME NEW what \in {"delete", "marker"}, Did(t, what, pc) PROVE Becomes(t)
        <3>1. DidAt(t, what, Place(t), pc)
            BY <2>5 DEF Did
        <3> QED
            BY <2>1, <2>2, <2>3, <3>1, DidGoesTo
    <2> QED
        BY <1>2, <1>3, <1>6, <2>4, <2>5, DeleteObjectStep
<1>7. CASE At(t, "delete") /\ task[t].op = "DeleteObjects" /\ StoreDeleteObject(t, "handle", "handle")
    BY <1>6, <1>7 DEF At
<1>8. CASE At(t, "delete") /\ task[t].op = "DeleteObjects" /\ StoreDeleteObjectVersion(t, "handle", "handle")
    BY <1>6, <1>8 DEF At
<1>9. CASE At(t, "delete") /\ task[t].op = "delete_objects" /\ StoreDeleteObject(t, "scoped", "scoped")
    BY <1>6, <1>9 DEF At
<1> QED
    BY <1>4, <1>5, <1>7, <1>8, <1>9 DEF DeleteStep

(* The next key of a batch: the S3 API checks it first.                      *)
LEMMA NextKeyStep ==
    ASSUME TasksOK, NEW t \in Tasks, Serving(t, "DeleteObjects"), NEW key \in task[t].keys,
           Become(t, [task[t] EXCEPT !.key = key, !.keys = @ \ {key}, !.pc = "check",
                                     !.asks = <<Ask("DeleteObject", task[t].bucket, key)>>])
    PROVE  Becomes(t)
<1> DEFINE k == task[t]
           n == [k EXCEPT !.key = key, !.keys = @ \ {key}, !.pc = "check", !.asks = <<Ask("DeleteObject", k.bucket, key)>>]
<1>1. TaskOK(k) /\ k.pc = "handle" /\ k.op = "DeleteObjects"
    BY DEF TasksOK, Serving, At
<1>2. task'[t] = n /\ task' = [task EXCEPT ![t] = task'[t]]
    BY BecomeAt DEF Become
<1>3. /\ DOMAIN n = TaskFields /\ n.pc = "check" /\ n.op = "DeleteObjects" /\ n.bucket = k.bucket /\ n.key = key
      /\ n.keys = k.keys \ {key} /\ n.asks = <<Ask("DeleteObject", k.bucket, key)>>
      /\ n.grants = k.grants /\ n.told = k.told /\ n.since = k.since /\ n.tenant = k.tenant
    BY <1>1, Fields DEF TaskFields
<1> HIDE DEF n
<1>4. key \in Keys /\ n.keys \subseteq Keys /\ k.told = <<>>
    BY <1>1, <1>3, Quiet DEF TaskOK, Arguments, Batches
<1>5. Arguments(n)
    BY <1>1, <1>3, <1>4 DEF TaskOK, Arguments, KeyedOps, ObjectOps, PartOps, CopyOps
<1>6. Wanted(n) = Wanted(k)
    BY <1>1, <1>3 DEF Wanted, AdminOps, ObjectOps, BucketOps
<1>7. Wanted(n) \subseteq n.grants /\ n.asks = <<KeyAsk(n)>>
    BY <1>1, <1>3, <1>6 DEF TaskOK, Cleared, Waiting, KeyAsk
<1>8. n.asks[1] = KeyAsk(n)
    BY <1>7
<1>9. Cleared(n)
    BY <1>3, <1>4, <1>7, <1>8 DEF Cleared, Waiting
<1>10. Where(n) /\ Knows(n) /\ Reported(n) /\ n.op \in S3Ops
    BY <1>3, <1>4, OpsDiffer DEF Where, Knows, Reported
<1>12. Names(n, n.pc)
    BY <1>3, <1>4, Unnamed
<1>11. TaskOK(n) /\ Counts(k, n)
    BY <1>3, <1>5, <1>9, <1>10, <1>12 DEF TaskOK, Counts
<1> QED
    BY <1>2, <1>11 DEF Becomes

LEMMA NextAdminKeyStep ==
    ASSUME TasksOK, NEW t \in Tasks, Scoped(t, "delete_objects"), NEW key \in task[t].keys,
           Become(t, [task[t] EXCEPT !.key = key, !.keys = @ \ {key}, !.pc = "delete"])
    PROVE  Becomes(t)
<1> DEFINE k == task[t]
           n == [k EXCEPT !.key = key, !.keys = @ \ {key}, !.pc = "delete"]
<1>1. TaskOK(k) /\ k.pc = "scoped" /\ k.op = "delete_objects"
    BY DEF TasksOK, Scoped, At
<1>2. task'[t] = n /\ task' = [task EXCEPT ![t] = task'[t]]
    BY BecomeAt DEF Become
<1>3. /\ DOMAIN n = TaskFields /\ n.pc = "delete" /\ n.op = "delete_objects" /\ n.bucket = k.bucket /\ n.key = key
      /\ n.keys = k.keys \ {key} /\ n.did = k.did /\ n.warned = k.warned
      /\ n.grants = k.grants /\ n.told = k.told /\ n.since = k.since /\ n.tenant = k.tenant
    BY <1>1, Fields DEF TaskFields
<1> HIDE DEF n
<1>4. key \in Keys /\ n.keys \subseteq Keys /\ k.told = <<>> /\ k.warned = {}
    BY <1>1, <1>3, Quiet DEF TaskOK, Arguments, Batches
<1>5. Arguments(n)
    BY <1>1, <1>3, <1>4 DEF TaskOK, Arguments, KeyedOps, ObjectOps, PartOps, CopyOps
<1>6. Wanted(k) = {Ask("DeleteObject", k.bucket, None)} /\ Wanted(n) = {Ask("DeleteObject", k.bucket, None)}
    BY <1>1, <1>3 DEF Wanted, AdminOps, AuthorizationTarget
<1>7. Wanted(n) \subseteq n.grants
    BY <1>1, <1>3, <1>6 DEF TaskOK, Cleared, Waiting
<1>8. Cleared(n)
    BY <1>3, <1>7 DEF Cleared, Waiting
<1>9. n.op \in AdminOps /\ n.op \notin S3Ops
    BY <1>3 DEF AdminOps, S3Ops, ObjectOps, BucketOps, CopyOps, PartOps
<1>10. Where(n) /\ Knows(n) /\ Reported(n)
    BY <1>3, <1>4, <1>9 DEF Where, Knows, Reported, Batches
<1>12. Names(n, n.pc)
    BY <1>3, <1>4, Unnamed
<1>11. TaskOK(n) /\ Counts(k, n)
    BY <1>3, <1>5, <1>8, <1>9, <1>10, <1>12 DEF TaskOK, Counts
<1> QED
    BY <1>2, <1>11 DEF Becomes

-----------------------------------------------------------------------------
(* Copies.                                                                   *)
LEMMA ReadSource ==
    ASSUME DbOK(db), NEW x, Readable(x)
    PROVE  db.objects[x] \in RowType
BY DEF DbOK, Readable

LEMMA CopyWritten ==
    ASSUME TasksOK, NEW t \in Tasks, NEW from \in SUBSET (Buckets \X Keys), NEW tags \in BOOLEAN,
           task[t].key \in Keys, task[t].bucket \in DOMAIN db.buckets, WriteGrant(task[t], Place(t), from),
           db' = [db EXCEPT !.objects = Bind(@, Place(t), Row(from, tags))]
    PROVE  Effect(task[t])
<1> DEFINE row == Row(from, tags)
<1>1. row \in RowType
    BY RowFields
<1>4. \E f \in SUBSET (Buckets \X Keys), g \in BOOLEAN : row = Row(f, g) /\ WriteGrant(task[t], Place(t), f)
    OBVIOUS
<1> HIDE DEF row
<1>2. db' = [db EXCEPT !.objects = Bind(@, <<task[t].bucket, task[t].key>>, row)]
    BY DEF row, Place
<1>3. ObjectWritten(task[t])
    BY <1>1, <1>2, <1>4 DEF ObjectWritten, Place
<1> QED
    BY <1>3 DEF Effect

LEMMA CopyObjectStep ==
    ASSUME TasksOK, DbOK(db), NEW t \in Tasks, Serving(t, "CopyObject"), NEW keep \in BOOLEAN,
           StoreCopyObject(t, task[t].source, {task[t].source}, keep /\ task[t].value.tags, "emit")
    PROVE  Becomes(t) /\ Effect(task[t])
<1> DEFINE k == task[t]
<1>1. /\ TaskOK(k) /\ k.pc = "handle" /\ k.op = "CopyObject" /\ k.key \in Keys /\ k.source \in Buckets \X Keys
      /\ DOMAIN k = TaskFields
    BY DEF TasksOK, Serving, At, TaskOK, Arguments, KeyedOps, CopyOps
<1>2. ASSUME Continue(t, "done") PROVE Becomes(t)
    BY <1>1, <1>2, ContinueEnds
<1>3. ASSUME Closure(t, 1) PROVE Becomes(t) /\ Reads
    <2>1. ASSUME Readable(k.source), task' = [task EXCEPT ![t].call = 2, ![t].value = db.objects[k.source]]
          PROVE  Becomes(t)
        <3> DEFINE v == db.objects[k.source]
                   n == [k EXCEPT !.call = 2, !.value = v]
        <3>1. v \in RowType
            BY <2>1, ReadSource
        <3> HIDE DEF v
        <3>2. n.pc = "handle" /\ n.op = "CopyObject" /\ n.call = 2 /\ n.value = v
            BY <1>1 DEF TaskFields
        <3> HIDE DEF n
        <3>3. Knows(n)
            BY <3>1, <3>2 DEF Knows
        <3>4. Knows([k EXCEPT !.call = 2, !.value = v])
            BY <3>3 DEF n
        <3>5. task' = [task EXCEPT ![t].call = 2, ![t].value = v]
            BY <2>1 DEF v
        <3> QED
            BY <1>1, <3>4, <3>5, ToClosure DEF Waiting
    <2> QED
        BY <1>2, <1>3, <2>1 DEF StoreCopyObject, Closure
<1>4. ASSUME Closure(t, 2) PROVE Becomes(t) /\ Effect(k)
    <2>1. CASE k.bucket \notin DOMAIN db.buckets
        BY <1>2, <1>4, <2>1 DEF StoreCopyObject, Closure, Effect
    <2>2. CASE k.bucket \in DOMAIN db.buckets
        <3> DEFINE tags == keep /\ k.value.tags
        <3>1. db' = [db EXCEPT !.objects = Bind(@, Place(t), Row({k.source}, tags))] /\ Did(t, "copy", "emit")
            BY <1>4, <2>2 DEF StoreCopyObject, Closure
        <3>2. Becomes(t)
            BY <1>1, <3>1, DidAndTells DEF Waiting, Did
        <3>3. k.value \in RowType
            BY <1>1, <1>4 DEF TaskOK, Knows, Closure
        <3>4. tags \in BOOLEAN
            BY <3>3 DEF RowType
        <3>5. /\ Ask("PutObject", k.bucket, k.key) \in k.grants
              /\ Ask("GetObject", k.source[1], k.source[2]) \in k.grants
            BY <1>1, Permitted DEF Waiting, CopyOps
        <3>6. WriteGrant(k, Place(t), {k.source})
            BY <3>5, GrantedBy DEF WriteGrant, Place
        <3>7. {k.source} \in SUBSET (Buckets \X Keys)
            BY <1>1
        <3> HIDE DEF tags
        <3>8. Effect(k)
            BY <1>1, <2>2, <3>1, <3>4, <3>6, <3>7, CopyWritten
        <3> QED
            BY <3>2, <3>8
    <2> QED
        BY <2>1, <2>2
<1> QED
    BY <1>3, <1>4 DEF StoreCopyObject, Effect

(* A request that looked up an object goes on with its row.                  *)
LEMMA LookupGoesTo ==
    ASSUME TasksOK, NEW t \in Tasks, task[t].pc = "handle", NEW pc, NEW v, pc = "copy" => v \in RowType,
           \/ pc = "copy" /\ task[t].op \in Retags
           \/ pc = "part" /\ task[t].op = "UploadPartCopy",
           Become(t, Return([task[t] EXCEPT !.value = v], pc))
    PROVE  Becomes(t)
<1> DEFINE k == task[t]
           e == [k EXCEPT !.value = v]
<1>1. SameRequest(k, e) /\ e.since = k.since /\ e.value = v /\ e.did = k.did /\ e.told = k.told
    BY Fields DEF SameRequest, TaskFields
<1>2. Become(t, Return(e, pc))
    OBVIOUS
<1> HIDE DEF e
<1>3. k.op \in S3Ops /\ k.op # "DeleteObjects"
    BY DEF Retags, S3Ops, ObjectOps, CopyOps
<1>4. k.told = <<>> /\ k.warned = {} /\ k.did = <<>>
    BY <1>3, Quiet DEF TasksOK
<1>5. ASSUME NEW n, n.pc = pc, n.call = 1, n.op = k.op, n.value = e.value, n.did = e.did, n.told = e.told, n.warned = k.warned
      PROVE  Where(n) /\ Knows(n) /\ Reported(n)
    BY <1>1, <1>3, <1>4, <1>5, OpsDiffer DEF Where, Knows, Reported
<1>6. pc \notin Waiting /\ pc # "delete" /\ k.pc \notin Waiting
    BY DEF Waiting
<1>7. Names(e, pc)
    BY <1>1, <1>4, Unnamed
<1> QED
    BY <1>1, <1>2, <1>5, <1>6, <1>7, GoesTo

LEMMA RetagStep ==
    ASSUME TasksOK, DbOK(db), NEW t \in Tasks, NEW op \in Retags, NEW tags \in BOOLEAN, Retag(t, op, tags)
    PROVE  Becomes(t) /\ Effect(task[t])
<1> DEFINE k == task[t]
<1>1. TaskOK(k) /\ k.op = op /\ k.pc \in {"handle", "copy"} /\ DOMAIN k = TaskFields /\ k.key \in Keys /\ k.op \in ObjectOps
    BY DEF TasksOK, TaskOK, Retag, Serving, At, Retags, ObjectOps, KeyedOps, Arguments
<1>2. ASSUME Continue(t, "done") PROVE Becomes(t)
    BY <1>1, <1>2, ContinueEnds
<1>3. CASE k.pc = "handle" /\ StoreHeadObject(t, Place(t), "copy")
    <2>1. ASSUME Readable(Place(t)), Become(t, Return([k EXCEPT !.value = db.objects[Place(t)]], "copy"))
          PROVE  Becomes(t)
        <3> DEFINE v == db.objects[Place(t)]
        <3>1. v \in RowType
            BY <2>1, ReadSource
        <3>2. Become(t, Return([k EXCEPT !.value = v], "copy"))
            BY <2>1
        <3> HIDE DEF v
        <3> QED
            BY <1>1, <1>3, <3>1, <3>2, LookupGoesTo
    <2> QED
        BY <1>2, <1>3, <2>1 DEF StoreHeadObject, Effect
<1>4. CASE k.pc = "copy" /\ StoreCopyObject(t, Place(t), k.value.from, tags, "done")
    <2>1. ASSUME Closure(t, 1) PROVE Becomes(t) /\ Reads
        <3>1. ASSUME Readable(Place(t)), task' = [task EXCEPT ![t].call = 2, ![t].value = db.objects[Place(t)]]
              PROVE  Becomes(t)
            <4> DEFINE v == db.objects[Place(t)]
                       n == [k EXCEPT !.call = 2, !.value = v]
            <4>1. v \in RowType
                BY <3>1, ReadSource
            <4> HIDE DEF v
            <4>2. n.pc = "copy" /\ n.op = op /\ n.value = v
                BY <1>1, <1>4 DEF TaskFields
            <4> HIDE DEF n
            <4>3. Knows(n)
                BY <4>1, <4>2 DEF Knows, Retags
            <4>4. Knows([k EXCEPT !.call = 2, !.value = v])
                BY <4>3 DEF n
            <4>5. task' = [task EXCEPT ![t].call = 2, ![t].value = v]
                BY <3>1 DEF v
            <4>6. k.pc \notin Waiting \cup {"audit", "emit"} /\ k.op # "delete_tenant"
                BY <1>1, <1>4 DEF Waiting, Retags
            <4> QED
                BY <4>4, <4>5, <4>6, ToClosure
        <3> QED
            BY <1>2, <1>4, <2>1, <3>1 DEF StoreCopyObject, Closure
    <2>2. ASSUME Closure(t, 2) PROVE Becomes(t) /\ Effect(k)
        <3>1. CASE k.bucket \notin DOMAIN db.buckets
            BY <1>2, <1>4, <2>2, <3>1 DEF StoreCopyObject, Closure, Effect
        <3>2. CASE k.bucket \in DOMAIN db.buckets
            <4>1. db' = [db EXCEPT !.objects = Bind(@, Place(t), Row(k.value.from, tags))] /\ Did(t, "copy", "done")
                BY <1>4, <2>2, <3>2 DEF StoreCopyObject, Closure
            <4>2. k.op \notin {"CreateBucket", "DeleteBucket", "PutObject", "CopyObject", "CompleteMultipartUpload", "DeleteObject"}
                BY <1>1 DEF Retags
            <4>3. Becomes(t)
                BY <1>4, <4>1, <4>2, DidEnds
            <4>4. k.value.from \in SUBSET (Buckets \X Keys)
                BY <1>1, <1>4 DEF TaskOK, Knows, RowType
            <4>5. Ask(k.op, k.bucket, k.key) \in k.grants
                BY <1>1, <1>4, Permitted DEF Waiting
            <4>6. WriteGrant(k, Place(t), k.value.from)
                BY <1>1, <4>5, GrantedBy DEF WriteGrant, Place, Retags
            <4>7. Effect(k)
                BY <1>1, <3>2, <4>1, <4>4, <4>6, CopyWritten
            <4> QED
                BY <4>3, <4>7
        <3> QED
            BY <3>1, <3>2
    <2> QED
        BY <1>4, <2>1, <2>2 DEF StoreCopyObject, Effect
<1> QED
    BY <1>3, <1>4 DEF Retag, Serving, At

-----------------------------------------------------------------------------
(* Locks.                                                                    *)
LEMMA RetentionStep ==
    ASSUME TasksOK, NEW t \in Tasks, PutObjectRetention(t)
    PROVE  Becomes(t) /\ Effect(task[t])
<1> DEFINE k == task[t]
<1>1. TaskOK(k) /\ k.op = "PutObjectRetention" /\ k.pc = "handle" /\ DOMAIN k = TaskFields
    BY DEF TasksOK, TaskOK, PutObjectRetention, Serving, At
<1>2. CASE Continue(t, "done") /\ Reads
    BY <1>1, <1>2, ContinueEnds DEF Effect
<1>3. ASSUME NEW mode \in {"GOVERNANCE", "COMPLIANCE"}, NEW bypass \in BOOLEAN, StorePutObjectRetention(t, mode, bypass)
      PROVE  Becomes(t) /\ Effect(k)
    <2>1. CASE BucketExists(t, "done")
        BY <1>1, <2>1, BucketExistsStep DEF Effect, Waiting
    <2>2. CASE Closure(t, 2) /\ ~BucketExists(t, "done")
        <3>1. ASSUME task' = [task EXCEPT ![t].call = 3, ![t].value = mode] PROVE Becomes(t)
            <4> DEFINE n == [k EXCEPT !.call = 3, !.value = mode]
            <4>1. n.pc = "handle" /\ n.op = "PutObjectRetention" /\ n.value = mode
                BY <1>1 DEF TaskFields
            <4> HIDE DEF n
            <4>2. Knows(n)
                BY <1>3, <4>1 DEF Knows
            <4>3. Knows([k EXCEPT !.call = 3, !.value = mode])
                BY <4>2 DEF n
            <4> QED
                BY <1>1, <3>1, <4>3, ToClosure DEF Waiting
        <3>2. ASSUME Continue(t, "done") PROVE Becomes(t)
            BY <1>1, <3>2, ContinueEnds
        <3>3. Reads /\ (Continue(t, "done") \/ task' = [task EXCEPT ![t].call = 3, ![t].value = mode])
            BY <1>3, <2>2 DEF StorePutObjectRetention, Closure
        <3> QED
            BY <3>1, <3>2, <3>3 DEF Effect
    <2>3. CASE Closure(t, 3) /\ ~BucketExists(t, "done")
        <3>1. Continue(t, "done") /\ db' = Updated(Place(t), LAMBDA row : [row EXCEPT !.mode = k.value])
            BY <1>3, <2>3 DEF StorePutObjectRetention, Closure
        <3>2. Becomes(t)
            BY <1>1, <3>1, ContinueEnds
        <3>3. CASE Place(t) \notin DOMAIN db.objects
            BY <3>1, <3>2, <3>3 DEF Updated, Effect, Reads
        <3>4. CASE Place(t) \in DOMAIN db.objects
            <4>1. db' = [db EXCEPT !.objects[Place(t)] = [@ EXCEPT !.mode = k.value]]
                BY <3>1, <3>4 DEF Updated
            <4>2. k.value \in {"GOVERNANCE", "COMPLIANCE"}
                BY <1>1, <2>3 DEF TaskOK, Knows, Closure
            <4>3. Ask("PutObjectRetention", k.bucket, k.key) \in k.grants
                BY <1>1, Permitted DEF Waiting, ObjectOps
            <4>4. ObjectLocked(k)
                BY <3>4, <4>1, <4>2, <4>3, GrantedBy DEF ObjectLocked, Place
            <4> QED
                BY <3>2, <4>4 DEF Effect
        <3> QED
            BY <3>3, <3>4
    <2> QED
        BY <1>3, <2>1, <2>2, <2>3 DEF StorePutObjectRetention
<1> QED
    BY <1>2, <1>3 DEF PutObjectRetention

LEMMA LegalHoldStep ==
    ASSUME TasksOK, NEW t \in Tasks, PutObjectLegalHold(t)
    PROVE  Becomes(t) /\ Effect(task[t])
<1> DEFINE k == task[t]
<1>1. TaskOK(k) /\ k.op = "PutObjectLegalHold" /\ k.pc = "handle"
    BY DEF TasksOK, PutObjectLegalHold, Serving, At
<1>2. PICK hold \in BOOLEAN : StorePutObjectLegalHold(t, hold)
    BY DEF PutObjectLegalHold
<1>3. CASE BucketExists(t, "done")
    BY <1>1, <1>3, BucketExistsStep DEF Effect, Waiting
<1>4. CASE ~BucketExists(t, "done")
    <2>1. Continue(t, "done") /\ db' = Updated(Place(t), LAMBDA row : [row EXCEPT !.hold = hold])
        BY <1>2, <1>4 DEF StorePutObjectLegalHold
    <2>2. Becomes(t)
        BY <1>1, <2>1, ContinueEnds
    <2>3. CASE Place(t) \notin DOMAIN db.objects
        BY <2>1, <2>2, <2>3 DEF Updated, Effect, Reads
    <2>4. CASE Place(t) \in DOMAIN db.objects
        <3>1. db' = [db EXCEPT !.objects[Place(t)] = [@ EXCEPT !.hold = hold]]
            BY <2>1, <2>4 DEF Updated
        <3>2. Ask("PutObjectLegalHold", k.bucket, k.key) \in k.grants
            BY <1>1, Permitted DEF Waiting, ObjectOps
        <3>3. ObjectLocked(k)
            BY <2>4, <3>1, <3>2, GrantedBy DEF ObjectLocked, Place
        <3> QED
            BY <2>2, <3>3 DEF Effect
    <2> QED
        BY <2>3, <2>4
<1> QED
    BY <1>3, <1>4

-----------------------------------------------------------------------------
(* Uploads.                                                                  *)
UploadStep(t) ==
    \/ CreateMultipartUpload(t) \/ UploadPart(t) \/ UploadPartCopy(t) \/ AbortMultipartUpload(t)
    \/ Serving(t, "CompleteMultipartUpload") /\ StoreCompleteMultipartUpload(t, "emit")

LEMMA UploadPartEffect ==
    ASSUME NEW t, NEW from \in Buckets \X Keys, StoreUploadPart(t, from), UploadGrant(task[t], {"PutObject"}),
           from # Place(t) => Granted(task[t], {"GetObject"}, from[1], from[2])
    PROVE  Effect(task[t])
<1>1. CASE task[t].upload \notin DOMAIN db.uploads
    BY <1>1 DEF StoreUploadPart, Effect, Reads
<1>2. CASE task[t].upload \in DOMAIN db.uploads
    <2>1. db' = [db EXCEPT !.uploads[task[t].upload].from = @ \cup {from}]
        BY <1>2 DEF StoreUploadPart
    <2>2. PartAdded(task[t])
        BY <1>2, <2>1 DEF PartAdded, Place
    <2> QED
        BY <2>2 DEF Effect
<1> QED
    BY <1>1, <1>2

LEMMA UploadStepOK ==
    ASSUME TasksOK, NEW t \in Tasks, UploadStep(t)
    PROVE  Becomes(t) /\ Effect(task[t])
<1> DEFINE k == task[t]
<1>1. /\ TaskOK(k) /\ k.pc \in {"handle", "part"}
      /\ k.op \in {"CreateMultipartUpload", "UploadPart", "UploadPartCopy", "AbortMultipartUpload", "CompleteMultipartUpload"}
    BY DEF TasksOK, TaskOK, Where, UploadStep, CreateMultipartUpload, UploadPart, UploadPartCopy, AbortMultipartUpload,
           Serving, At
<1>2. k.bucket \in Buckets /\ k.key \in Keys /\ (k.op = "UploadPartCopy" => k.source \in Buckets \X Keys)
    BY <1>1 DEF TaskOK, Arguments, KeyedOps, ObjectOps, PartOps, CopyOps
<1>3. /\ k.op # "AbortMultipartUpload" => UploadGrant(k, {"PutObject"})
      /\ k.op = "AbortMultipartUpload" => UploadGrant(k, {"AbortMultipartUpload"})
      /\ k.op = "UploadPartCopy" => Granted(k, {"GetObject"}, k.source[1], k.source[2])
    <2>1. /\ k.op # "AbortMultipartUpload" => Ask("PutObject", k.bucket, k.key) \in k.grants
          /\ k.op = "AbortMultipartUpload" => Ask("AbortMultipartUpload", k.bucket, k.key) \in k.grants
          /\ k.op = "UploadPartCopy" => Ask("GetObject", k.source[1], k.source[2]) \in k.grants
        BY <1>1, Permitted DEF Waiting, PartOps, CopyOps, ObjectOps
    <2> QED
        BY <2>1, GrantedBy DEF UploadGrant
<1>4. ASSUME Continue(t, "done") PROVE Becomes(t)
    BY <1>1, <1>4, ContinueEnds
<1>5. CASE CreateMultipartUpload(t)
    <2>1. k.op = "CreateMultipartUpload" /\ Continue(t, "done")
        BY <1>5 DEF CreateMultipartUpload, StoreCreateMultipartUpload, Serving
    <2>2. CASE k.bucket \notin DOMAIN db.buckets
        BY <1>4, <1>5, <2>1, <2>2 DEF CreateMultipartUpload, StoreCreateMultipartUpload, Effect, Reads
    <2>3. CASE k.bucket \in DOMAIN db.buckets
        <3>1. db' = [db EXCEPT !.uploads = Bind(@, db.issued + 1, [place |-> Place(t), from |-> {}]), !.issued = @ + 1]
            BY <1>5, <2>3 DEF CreateMultipartUpload, StoreCreateMultipartUpload
        <3>2. UploadCreated(k)
            BY <1>2, <1>3, <2>1, <2>3, <3>1 DEF UploadCreated, Place
        <3> QED
            BY <1>4, <2>1, <3>2 DEF Effect
    <2> QED
        BY <2>2, <2>3
<1>6. CASE UploadPart(t)
    <2>1. Place(t) \in Buckets \X Keys
        BY <1>2 DEF Place
    <2>2. UploadGrant(k, {"PutObject"}) /\ StoreUploadPart(t, Place(t)) /\ Continue(t, "done")
        BY <1>3, <1>6 DEF UploadPart, Serving, StoreUploadPart
    <2> QED
        BY <1>4, <2>1, <2>2, UploadPartEffect
<1>7. CASE UploadPartCopy(t)
    <2>1. k.op = "UploadPartCopy"
        BY <1>1, <1>7 DEF UploadPartCopy, Serving, At, TaskOK, Where
    <2>2. CASE k.pc = "handle" /\ StoreHeadObject(t, k.source, "part")
        <3>1. ASSUME NEW v, Become(t, Return([k EXCEPT !.value = v], "part")) PROVE Becomes(t)
            BY <2>1, <2>2, <3>1, LookupGoesTo
        <3> QED
            BY <1>4, <2>2, <3>1 DEF StoreHeadObject, Effect
    <2>3. CASE k.pc = "part" /\ StoreUploadPart(t, k.source)
        BY <1>2, <1>3, <1>4, <2>1, <2>3, UploadPartEffect DEF StoreUploadPart
    <2> QED
        BY <1>7, <2>2, <2>3 DEF UploadPartCopy, Serving, At
<1>8. CASE AbortMultipartUpload(t)
    BY <1>3, <1>4, <1>8 DEF AbortMultipartUpload, StoreAbortMultipartUpload, Effect, UploadGone, Serving
<1>9. CASE Serving(t, "CompleteMultipartUpload") /\ StoreCompleteMultipartUpload(t, "emit")
    <2>1. k.op = "CompleteMultipartUpload" /\ k.pc = "handle"
        BY <1>9 DEF Serving, At
    <2>2. ASSUME NEW x, DidAt(t, "complete", x, "emit") PROVE Becomes(t)
        BY <2>1, <2>2, DidAndTells DEF Waiting
    <2>3. Becomes(t)
        BY <1>4, <1>9, <2>2 DEF StoreCompleteMultipartUpload
    <2>4. Reads \/ UploadDone(k)
        BY <1>3, <1>9, <2>1 DEF StoreCompleteMultipartUpload, UploadDone
    <2> QED
        BY <2>3, <2>4 DEF Effect
<1> QED
    BY <1>5, <1>6, <1>7, <1>8, <1>9 DEF UploadStep

-----------------------------------------------------------------------------
(* The audit log and the dispatcher are told.                                *)
LEMMA AppendedTwo == ASSUME NEW x, NEW y PROVE Append(<<x>>, y) = <<x, y>>
<1> DEFINE a == Append(<<x>>, y)
<1>1. <<x>> \in Seq({x, y}) /\ Len(<<x>>) = 1 /\ <<x>>[1] = x
    OBVIOUS
<1>2. a \in Seq({x, y}) /\ Len(a) = 2 /\ a[1] = x /\ a[2] = y
    BY <1>1
<1> HIDE DEF a
<1>3. DOMAIN a = 1 .. 2 /\ DOMAIN <<x, y>> = 1 .. 2 /\ a = [i \in 1 .. 2 |-> a[i]]
    BY <1>2
<1>4. \A i \in 1 .. 2 : a[i] = <<x, y>>[i]
    BY <1>2
<1>5. a = <<x, y>>
    BY <1>3, <1>4
<1> QED
    BY <1>5 DEF a

LEMMA ToldFields ==
    ASSUME TasksOK, NEW t \in Tasks, NEW what
    PROVE  LET e == [task[t] EXCEPT !.told = Append(@, what), !.named = Place(t)]
           IN  /\ SameRequest(task[t], e) /\ e.since = task[t].since /\ e.value = task[t].value
               /\ e.told = Append(task[t].told, what) /\ e.did = task[t].did
               /\ e.at = task[t].at /\ e.named = Place(t)
BY Fields DEF SameRequest, TaskFields

LEMMA TellEnds ==
    ASSUME TasksOK, NEW t \in Tasks, task[t].pc # "idle", NEW what, Tell(t, what, "done"),
           task[t].op \in S3Ops => \A n : n.op = task[t].op /\ n.did = task[t].did => Append(task[t].told, what) \in Due(n),
           task[t].op \in AdminOps => Append(task[t].told, what) \in Audited,
           task[t].op \in S3Ops \ {"CompleteMultipartUpload"} => task[t].at = Place(t),
           task[t].warned # {} /\ task[t].op # "DeleteObjects" => task[t].did = <<>>
    PROVE  Becomes(t) /\ Effect(task[t])
<1> DEFINE k == task[t]
           e == [k EXCEPT !.told = Append(@, what), !.named = Place(t)]
           n == Return(e, "done")
<1>1. /\ DOMAIN e = TaskFields /\ e.op = k.op /\ e.did = k.did /\ e.warned = k.warned
      /\ e.told = Append(k.told, what) /\ e.at = k.at /\ e.named = Place(t)
    BY ToldFields DEF SameRequest
<1>2. task'[t] = n /\ task' = [task EXCEPT ![t] = task'[t]] /\ TaskOK(k) /\ Reads
    BY BecomeAt DEF Become, Tell
<1> HIDE DEF e
<1>3. n.since = 0 /\ n.pc = "done" /\ n.op = k.op /\ n.did = k.did
    BY <1>1, ReturnFields
<1>4. k.op \in S3Ops \cup AdminOps
    BY <1>2 DEF TaskOK
<1>5. k.op \in S3Ops => e.told \in Due(n)
    BY <1>1, <1>3
<1>7. Names(e, "done")
    BY <1>1 DEF Names
<1>6. TaskOK(n)
    BY <1>1, <1>4, <1>5, <1>7, AnswerOK
<1> HIDE DEF n
<1> QED
    BY <1>2, <1>3, <1>6 DEF Becomes, Counts, Effect

TellStep(t) ==
    \/ At(t, "audit") /\ task[t].op \in {"CreateBucket", "DeleteBucket"} /\ LogAudit(t, "done")
    \/ At(t, "audit") /\ task[t].op = "DeleteObject" /\ LogAudit(t, "emit")
    \/ At(t, "emit") /\ task[t].op = "PutObject" /\ EmitEvent(t, "ObjectCreated:Put")
    \/ At(t, "emit") /\ task[t].op = "CopyObject" /\ EmitEvent(t, "ObjectCreated:Copy")
    \/ /\ At(t, "emit") /\ task[t].op = "CompleteMultipartUpload"
       /\ EmitEvent(t, "ObjectCreated:CompleteMultipartUpload")
    \/ /\ At(t, "emit") /\ task[t].op = "DeleteObject"
       /\ EmitEvent(t, IF Last(task[t].did) = "marker"
                       THEN "ObjectRemoved:DeleteMarkerCreated" ELSE "ObjectRemoved:Delete")

LEMMA TellStepOK ==
    ASSUME TasksOK, NEW t \in Tasks, TellStep(t)
    PROVE  Becomes(t) /\ Effect(task[t])
<1> DEFINE k == task[t]
<1>1. /\ TaskOK(k) /\ k.pc \in {"audit", "emit"}
      /\ k.op \in {"CreateBucket", "DeleteBucket", "DeleteObject", "PutObject", "CopyObject", "CompleteMultipartUpload"}
    BY DEF TasksOK, TellStep, At
<1>2. k.op \in S3Ops /\ k.op # "DeleteObjects" /\ k.op \notin AdminOps
    BY <1>1 DEF S3Ops, ObjectOps, BucketOps, CopyOps, PartOps, AdminOps
<1>3. k.warned = {} /\ (k.told = <<>> \/ (k.pc = "emit" /\ k.op = "DeleteObject" /\ k.told \in Audited))
    BY <1>1, <1>2 DEF TaskOK, Reported
<1>0. k.op # "CompleteMultipartUpload" => k.at = Place(t)
    BY <1>1 DEF TaskOK, Names, Place
<1>4. ASSUME NEW what, Tell(t, what, "done"), NEW due, Append(k.told, what) \in due,
             \A n : n.op = k.op /\ n.did = k.did => Due(n) = due
      PROVE  Becomes(t) /\ Effect(k)
    BY <1>0, <1>1, <1>2, <1>3, <1>4, TellEnds
<1>5. CASE At(t, "audit") /\ k.op \in {"CreateBucket", "DeleteBucket"} /\ LogAudit(t, "done")
    <2>1. k.did \in {<<"create_bucket">>, <<"delete_bucket">>}
        BY <1>1, <1>5 DEF TaskOK, Reported, At
    <2>2. k.did # <<>>
        BY <2>1
    <2>3. PICK a \in Audits : Tell(t, a, "done")
        BY <1>5 DEF LogAudit
    <2>5. Append(k.told, a) \in Audited
        BY <1>3, <1>5, AppendedOne DEF At, Audited
    <2>4. ASSUME NEW n, n.op = k.op, n.did = k.did PROVE Due(n) = Audited
        BY <1>2, <1>5, <2>2, <2>4, DueOf DEF Audited
    <2> QED
        BY <1>4, <2>3, <2>4, <2>5
<1>6. CASE At(t, "audit") /\ k.op = "DeleteObject" /\ LogAudit(t, "emit")
    <2>0. PICK a \in Audits : Tell(t, a, "emit")
        BY <1>6 DEF LogAudit
    <2> DEFINE e == [k EXCEPT !.told = Append(@, a), !.named = Place(t)]
    <2>1. /\ SameRequest(k, e) /\ e.since = k.since /\ e.value = k.value /\ e.told = Append(k.told, a) /\ e.did = k.did
          /\ e.at = k.at /\ e.named = Place(t)
        BY ToldFields
    <2>2. Become(t, Return(e, "emit")) /\ Reads
        BY <2>0 DEF Tell
    <2> HIDE DEF e
    <2>3. Append(k.told, a) \in Audited
        BY <1>3, <1>6, AppendedOne DEF At, Audited
    <2>8. Names(e, "emit")
        BY <1>0, <1>6, <2>1 DEF Names, SameRequest, Place
    <2>4. k.did \in {<<"delete">>, <<"marker">>}
        BY <1>1, <1>6 DEF TaskOK, Reported, At
    <2>5. ASSUME NEW n, n.pc = "emit", n.call = 1, n.op = k.op, n.value = e.value, n.did = e.did, n.told = e.told,
                 n.warned = k.warned
          PROVE  Where(n) /\ Knows(n) /\ Reported(n)
        BY <1>2, <1>3, <1>6, <2>1, <2>3, <2>4, <2>5 DEF Where, Knows, Reported
    <2>6. "emit" \notin Waiting /\ "emit" # "delete" /\ k.pc \notin Waiting
        BY <1>1 DEF Waiting
    <2>7. Becomes(t)
        BY <2>1, <2>2, <2>5, <2>6, <2>8, GoesTo
    <2> QED
        BY <2>2, <2>7 DEF Effect
<1>7. CASE At(t, "emit") /\ k.op = "PutObject" /\ EmitEvent(t, "ObjectCreated:Put")
    <2>1. k.did = <<"put">> /\ Append(k.told, "ObjectCreated:Put") = <<"ObjectCreated:Put">>
        BY <1>1, <1>3, <1>7, AppendedOne DEF TaskOK, Reported, At
    <2>2. ASSUME NEW n, n.op = k.op, n.did = k.did PROVE Due(n) = {<<"ObjectCreated:Put">>}
        BY <1>2, <1>7, <2>1, <2>2, DueOf
    <2> QED
        BY <1>4, <1>7, <2>1, <2>2 DEF EmitEvent
<1>8. CASE At(t, "emit") /\ k.op = "CopyObject" /\ EmitEvent(t, "ObjectCreated:Copy")
    <2>1. k.did = <<"copy">> /\ Append(k.told, "ObjectCreated:Copy") = <<"ObjectCreated:Copy">>
        BY <1>1, <1>3, <1>8, AppendedOne DEF TaskOK, Reported, At
    <2>2. ASSUME NEW n, n.op = k.op, n.did = k.did PROVE Due(n) = {<<"ObjectCreated:Copy">>}
        BY <1>2, <1>8, <2>1, <2>2, DueOf
    <2> QED
        BY <1>4, <1>8, <2>1, <2>2 DEF EmitEvent
<1>9. CASE At(t, "emit") /\ k.op = "CompleteMultipartUpload" /\ EmitEvent(t, "ObjectCreated:CompleteMultipartUpload")
    <2>1. /\ k.did = <<"complete">>
          /\ Append(k.told, "ObjectCreated:CompleteMultipartUpload") = <<"ObjectCreated:CompleteMultipartUpload">>
        BY <1>1, <1>3, <1>9, AppendedOne DEF TaskOK, Reported, At
    <2>2. ASSUME NEW n, n.op = k.op, n.did = k.did PROVE Due(n) = {<<"ObjectCreated:CompleteMultipartUpload">>}
        BY <1>2, <1>9, <2>1, <2>2, DueOf
    <2> QED
        BY <1>4, <1>9, <2>1, <2>2 DEF EmitEvent
<1>10. CASE /\ At(t, "emit") /\ k.op = "DeleteObject"
            /\ EmitEvent(t, IF Last(k.did) = "marker" THEN "ObjectRemoved:DeleteMarkerCreated" ELSE "ObjectRemoved:Delete")
    <2> DEFINE event == IF Last(k.did) = "marker" THEN "ObjectRemoved:DeleteMarkerCreated" ELSE "ObjectRemoved:Delete"
           due == {<<a, event>> : a \in Audits}
    <2>1. k.did \in {<<"delete">>, <<"marker">>} /\ k.told \in Audited
        BY <1>1, <1>10 DEF TaskOK, Reported, At
    <2>2. Append(k.told, event) \in due
        <3>1. PICK a \in Audits : k.told = <<a>>
            BY <2>1 DEF Audited
        <3> HIDE DEF event
        <3>2. Append(k.told, event) = <<a, event>>
            BY <3>1, AppendedTwo
        <3> QED
            BY <3>2
    <2>3. Last(<<"delete">>) = "delete" /\ Last(<<"marker">>) = "marker"
        BY DEF Last
    <2>4. ASSUME NEW n, n.op = k.op, n.did = k.did PROVE Due(n) = due
        BY <1>2, <1>10, <2>1, <2>3, <2>4, DueOf
    <2>5. Tell(t, event, "done")
        BY <1>10 DEF EmitEvent
    <2> HIDE DEF event, due
    <2> QED
        BY <1>4, <2>2, <2>4, <2>5
<1> QED
    BY <1>5, <1>6, <1>7, <1>8, <1>9, <1>10 DEF TellStep

LEMMA AuditMiddlewareStep ==
    ASSUME TasksOK, NEW t \in Tasks, AuditMiddleware(t)
    PROVE  Becomes(t) /\ Effect(task[t])
<1> DEFINE k == task[t]
<1>1. TaskOK(k) /\ k.pc = "done" /\ k.op \in AdminOps /\ k.told = <<>>
    BY DEF TasksOK, AuditMiddleware, Unlogged, At
<1>2. k.warned # {} /\ k.op # "DeleteObjects" => k.did = <<>>
    BY <1>1 DEF TaskOK, Reported
<1>3. PICK a \in Audits : Tell(t, a, "done")
    BY DEF AuditMiddleware, LogAudit
<1>4. Append(k.told, a) \in Audited
    BY <1>1, AppendedOne DEF Audited
<1>5. k.op \notin S3Ops
    BY <1>1, OpsDiffer
<1> QED
    BY <1>1, <1>2, <1>3, <1>4, <1>5, TellEnds

LEMMA AlertStep ==
    ASSUME TasksOK, NEW t \in Tasks, MaybeAlertAudit(t)
    PROVE  Becomes(t) /\ Effect(task[t])
<1> DEFINE k == task[t]
<1>1. TaskOK(k) /\ k.pc = "refused" /\ k.op \in AdminOps /\ k.op # "DeleteObjects"
    BY OpsDiffer DEF TasksOK, MaybeAlertAudit, At, TaskOK, Where
<1>2. CASE Continue(t, "done") /\ Reads
    BY <1>1, <1>2, ContinueEnds DEF Effect
<1>3. CASE Warn(t, "alert", "done")
    <2> DEFINE e == [k EXCEPT !.warned = @ \cup {"alert"}]
    <2>1. DOMAIN e = TaskFields /\ e.op = k.op /\ e.did = k.did /\ e.told = k.told
        BY Fields DEF TaskFields
    <2>2. Become(t, Return(e, "done")) /\ Reads
        BY <1>3 DEF Warn
    <2> HIDE DEF e
    <2>3. k.did = <<>>
        BY <1>1 DEF TaskOK, Reported
    <2>4. Becomes(t)
        BY <1>1, <2>1, <2>2, <2>3, Ends
    <2> QED
        BY <2>2, <2>4 DEF Effect
<1> QED
    BY <1>2, <1>3 DEF MaybeAlertAudit

-----------------------------------------------------------------------------
(* The admin API: the tenant filter, usage and notification rules.           *)
LEMMA EnsureStep ==
    ASSUME TasksOK, NEW t \in Tasks, EnsureBucketBelongsToTenant(t), task[t].pc = "handle",
           task[t].op \in {"delete_bucket", "delete_object", "delete_objects"}
    PROVE  Becomes(t) /\ Effect(task[t])
<1> DEFINE k == task[t]
<1>1. TaskOK(k) /\ k.op \notin S3Ops /\ k.op # "DeleteObjects"
    BY DEF TasksOK, S3Ops, ObjectOps, BucketOps, CopyOps, PartOps
<1>2. k.told = <<>> /\ k.warned = {}
    BY <1>1, Quiet
<1>3. ASSUME NEW n, n.pc = "scoped", n.call = 1, n.op = k.op, n.value = k.value, n.did = k.did, n.told = k.told,
             n.warned = k.warned
      PROVE  Where(n) /\ Knows(n) /\ Reported(n)
    BY <1>1, <1>2, <1>3 DEF Where, Knows, Reported
<1>4. ASSUME Continue(t, "scoped") PROVE Becomes(t)
    BY <1>2, <1>3, <1>4, ContinueGoesTo DEF Waiting
<1>5. ASSUME Continue(t, "done") PROVE Becomes(t)
    BY <1>5, ContinueEnds
<1> QED
    BY <1>4, <1>5 DEF EnsureBucketBelongsToTenant, Effect

LEMMA UsageStep ==
    ASSUME TasksOK, NEW t \in Tasks, AdminGetStorageUsage(t)
    PROVE  Becomes(t) /\ Effect(task[t])
<1> DEFINE k == task[t]
<1>1. TaskOK(k) /\ k.pc \in {"handle", "usage"} /\ k.op = "get_storage_usage"
    BY DEF TasksOK, TaskOK, Where, AdminGetStorageUsage, Serving, At
<1>2. k.told = <<>> /\ k.warned = {} /\ k.op \notin S3Ops /\ k.op \notin Batches
    BY <1>1, Quiet DEF S3Ops, ObjectOps, BucketOps, CopyOps, PartOps, Batches
<1>3. CASE StoreListBuckets(t, VisibleTenants(k.tenant), "usage")
    <2>1. PICK v : Become(t, Return([k EXCEPT !.keys = v], "usage"))
        BY <1>3 DEF StoreListBuckets
    <2> DEFINE e == [k EXCEPT !.keys = v]
    <2>2. SameRequest(k, e) /\ e.since = k.since /\ e.value = k.value /\ e.did = k.did /\ e.told = k.told
        BY <1>2, Fields DEF TaskFields, SameRequest
    <2>3. Become(t, Return(e, "usage"))
        BY <2>1
    <2> HIDE DEF e
    <2>4. ASSUME NEW n, n.pc = "usage", n.call = 1, n.op = k.op, n.value = e.value, n.did = e.did, n.told = e.told,
                 n.warned = k.warned
          PROVE  Where(n) /\ Knows(n) /\ Reported(n)
        BY <1>1, <1>2, <2>2, <2>4 DEF Where, Knows, Reported
    <2>5. "usage" \notin Waiting /\ k.pc \notin Waiting
        BY <1>1 DEF Waiting
    <2>7. Names(e, "usage")
        BY <1>2, <2>2, Unnamed
    <2>6. Becomes(t)
        BY <2>2, <2>3, <2>4, <2>5, <2>7, GoesTo
    <2> QED
        BY <1>3, <2>6 DEF StoreListBuckets, Effect
<1>4. ASSUME NEW b, StoreGetBucketUsage(t, b) PROVE Becomes(t) /\ Effect(k)
    <2> DEFINE n == [k EXCEPT !.keys = @ \ {b}]
    <2>1. task' = [task EXCEPT ![t] = n]
        BY <1>4 DEF StoreGetBucketUsage, TasksOK
    <2>2. /\ SameRequest(k, n) /\ n.pc = k.pc /\ n.did = k.did /\ n.told = k.told /\ n.since = k.since
          /\ n.op = k.op /\ n.call = k.call /\ n.value = k.value
        BY <1>2, Fields DEF TaskFields, SameRequest
    <2> HIDE DEF n
    <2>3. Knows(n)
        BY <1>1, <2>2 DEF Knows
    <2>4. Becomes(t)
        BY <1>1, <2>1, <2>2, <2>3, Stays DEF Waiting
    <2> QED
        BY <1>4, <2>4 DEF StoreGetBucketUsage, Effect
<1>5. CASE Continue(t, "done") /\ Reads
    BY <1>1, <1>5, ContinueEnds DEF Effect
<1> QED
    BY <1>3, <1>4, <1>5 DEF AdminGetStorageUsage

(* As many ids as rules: no id twice.                                        *)
LEMMA DistinctIds ==
    ASSUME NEW rules \in Seq(Rules), Cardinality(ToSet(rules)) = Len(rules)
    PROVE  IsInjective(rules)
<1> DEFINE S == 1 .. Len(rules)
           T == ToSet(rules)
<1>1. DOMAIN rules = S /\ Len(rules) \in Nat
    OBVIOUS
<1>2. rules \in Surjection(S, T)
    <2>1. T = {rules[i] : i \in S}
        BY <1>1 DEF ToSet
    <2>2. rules \in [S -> Rules]
        BY <1>1
    <2>3. rules \in [S -> T]
        BY <2>1, <2>2
    <2> QED
        BY <2>1, <2>3 DEF Surjection
<1>3. IsFiniteSet(S) /\ Cardinality(S) = Len(rules)
    <2>1. ASSUME NEW n \in Nat PROVE IsFiniteSet(1 .. n) /\ Cardinality(1 .. n) = n
        <3>1. 1 \in Int /\ n \in Int
            OBVIOUS
        <3>2. IsFiniteSet(1 .. n) /\ Cardinality(1 .. n) = (IF 1 > n THEN 0 ELSE n - 1 + 1)
            BY <3>1, FS_Interval, Zenon
        <3> QED
            BY <3>2
    <2> QED
        BY <1>1, <2>1
<1>4. rules \in Injection(S, T)
    BY <1>2, <1>3, FS_Surjection
<1> QED
    BY <1>4 DEF Injection

LEMMA SaveRulesStep ==
    ASSUME TasksOK, NEW t \in Tasks, NEW op, SaveRules(t, op)
    PROVE  Becomes(t) /\ Effect(task[t])
<1> DEFINE k == task[t]
           rules == k.value
           n == [k EXCEPT !.call = 2, !.value = rules]
<1>1. /\ TaskOK(k) /\ k.pc = "save" /\ DOMAIN k = TaskFields
      /\ k.op \in {"create_bucket_notification", "delete_bucket_notification"}
    BY DEF TasksOK, TaskOK, Where, SaveRules, At
<1>2. PutConfig(t, "notification", rules, Cardinality(ToSet(rules)) = Len(rules))
    BY DEF SaveRules, StorePutBucketNotification
<1>3. rules \in Seq(Rules) /\ (k.call = 2 => IsInjective(rules))
    BY <1>1 DEF TaskOK, Knows
<1>4. Cardinality(ToSet(rules)) = Len(rules) => IsInjective(rules)
    BY <1>3, DistinctIds
<1>5. Ask("All", k.bucket, None) \in k.grants
    BY <1>1, AdminPermitted DEF Waiting
<1>6. Granted(k, ConfigGrants["notification"], k.bucket, None)
    BY <1>5, GrantedByAll
<1>7. ASSUME Cardinality(ToSet(rules)) = Len(rules) PROVE Knows(n)
    <2>1. n.pc = "save" /\ n.op = k.op /\ n.value = rules
        BY <1>1 DEF TaskFields
    <2> HIDE DEF n
    <2> QED
        BY <1>1, <1>3, <1>4, <1>7, <2>1 DEF Knows
<1> HIDE DEF rules
<1>8. "notification" \in Tables /\ k.value = rules
    BY DEF Tables, rules
<1> QED
    BY <1>1, <1>2, <1>3, <1>6, <1>7, <1>8, PutConfigStep

LEMMA AddedRule ==
    ASSUME NEW rules \in Seq(Rules), NEW id \in Rules
    PROVE  Append(rules, id) \in Seq(Rules)
OBVIOUS

LEMMA RemovedRule ==
    ASSUME NEW rules \in Seq(Rules), NEW i \in DOMAIN rules
    PROVE  RemoveAt(rules, i) \in Seq(Rules)
<1>1. i \in 1 .. Len(rules) /\ Len(rules) \in Nat
    OBVIOUS
<1>2. SubSeq(rules, 1, i - 1) \in Seq(Rules) /\ SubSeq(rules, i + 1, Len(rules)) \in Seq(Rules)
    BY <1>1
<1> QED
    BY <1>2 DEF RemoveAt

(* The changed rules are about to be saved.                                  *)
LEMMA ToSave ==
    ASSUME TasksOK, NEW t \in Tasks, task[t].pc \in {"push", "retain"}, NEW v \in Seq(Rules),
           Become(t, [task[t] EXCEPT !.value = v, !.pc = "save"])
    PROVE  Becomes(t)
<1> DEFINE k == task[t]
           n == [k EXCEPT !.value = v, !.pc = "save"]
<1>1. /\ TaskOK(k) /\ k.op \in {"create_bucket_notification", "delete_bucket_notification"}
      /\ k.call = 1 /\ DOMAIN k = TaskFields
    BY DEF TasksOK, TaskOK, Where, Knows
<1>2. k.told = <<>> /\ k.warned = {} /\ k.op \notin S3Ops
    BY <1>1, Quiet DEF S3Ops, ObjectOps, BucketOps, CopyOps, PartOps
<1>3. task' = [task EXCEPT ![t] = n]
    BY DEF Become
<1>4. /\ SameRequest(k, n) /\ n.pc = "save" /\ n.did = k.did /\ n.told = k.told /\ n.since = k.since
      /\ n.value = v /\ n.call = 1
    BY <1>1 DEF TaskFields, SameRequest
<1> HIDE DEF n
<1>5. n.op = k.op /\ n.warned = {}
    BY <1>2, <1>4 DEF SameRequest
<1>6. Where(n) /\ Knows(n) /\ Reported(n)
    BY <1>1, <1>2, <1>4, <1>5 DEF Where, Knows, Reported
<1>7. Counts(k, n)
    BY <1>4 DEF Counts
<1>8. Names(n, n.pc)
    BY <1>2, <1>4, Unnamed
<1> QED
    BY <1>3, <1>4, <1>6, <1>7, <1>8, GoesOn DEF Waiting

LEMMA RulesRead ==
    ASSUME TasksOK, NEW t \in Tasks, task[t].pc = "handle", NEW pc, NEW v, v = None \/ v \in Seq(Rules),
           \/ pc = "push" /\ task[t].op = "create_bucket_notification"
           \/ pc = "retain" /\ task[t].op = "delete_bucket_notification",
           Become(t, Return([task[t] EXCEPT !.value = v], pc))
    PROVE  Becomes(t)
<1> DEFINE k == task[t]
           e == [k EXCEPT !.value = v]
<1>1. SameRequest(k, e) /\ e.since = k.since /\ e.value = v /\ e.did = k.did /\ e.told = k.told
    BY Fields DEF SameRequest, TaskFields
<1>2. Become(t, Return(e, pc))
    OBVIOUS
<1> HIDE DEF e
<1>3. k.told = <<>> /\ k.warned = {} /\ k.op \notin S3Ops
    BY Quiet DEF TasksOK, S3Ops, ObjectOps, BucketOps, CopyOps, PartOps
<1>4. ASSUME NEW n, n.pc = pc, n.call = 1, n.op = k.op, n.value = e.value, n.did = e.did, n.told = e.told, n.warned = k.warned
      PROVE  Where(n) /\ Knows(n) /\ Reported(n)
    BY <1>1, <1>3, <1>4 DEF Where, Knows, Reported
<1>5. pc \notin Waiting /\ pc # "delete" /\ k.pc \notin Waiting
    BY DEF Waiting
<1>6. Names(e, pc)
    BY <1>1, <1>3, Unnamed
<1> QED
    BY <1>1, <1>2, <1>4, <1>5, <1>6, GoesTo

LEMMA GetRulesStep ==
    ASSUME TasksOK, ConfigOK(db), NEW t \in Tasks, task[t].pc = "handle", NEW pc, NEW failed,
           \/ pc = "push" /\ failed = "push" /\ task[t].op = "create_bucket_notification"
           \/ pc = "retain" /\ failed = "done" /\ task[t].op = "delete_bucket_notification",
           StoreGetBucketNotification(t, pc, failed)
    PROVE  Becomes(t) /\ Effect(task[t])
<1> DEFINE k == task[t]
           x == <<"notification", k.bucket>>
           v == IF x \in DOMAIN db.config THEN db.config[x].value ELSE None
<1>1. CASE Closure(t, 1) /\ NextClosure(t) /\ Reads
    BY <1>1, NextStays DEF Waiting, Effect
<1>2. CASE Continue(t, failed) /\ Reads
    <2>1. CASE failed = "done"
        BY <1>2, <2>1, ContinueEnds DEF Effect
    <2>2. CASE failed = "push"
        <3>1. k.value = None /\ k.op = "create_bucket_notification"
            BY <2>2 DEF TasksOK, TaskOK, Knows
        <3>2. k.told = <<>> /\ k.warned = {} /\ k.op \notin S3Ops
            BY <3>1, Quiet DEF TasksOK, S3Ops, ObjectOps, BucketOps, CopyOps, PartOps
        <3>3. ASSUME NEW n, n.pc = "push", n.call = 1, n.op = k.op, n.value = k.value, n.did = k.did, n.told = k.told,
                     n.warned = k.warned
              PROVE  Where(n) /\ Knows(n) /\ Reported(n)
            BY <3>1, <3>2, <3>3 DEF Where, Knows, Reported
        <3>4. Becomes(t)
            BY <1>2, <2>2, <3>2, <3>3, ContinueGoesTo DEF Waiting
        <3> QED
            BY <1>2, <3>4 DEF Effect
    <2> QED
        BY <2>1, <2>2
<1>3. CASE Become(t, Return([k EXCEPT !.value = v], pc)) /\ Reads
    <2>1. v = None \/ v \in Seq(Rules)
        BY DEF ConfigOK
    <2> HIDE DEF v
    <2>2. Becomes(t)
        BY <1>3, <2>1, RulesRead
    <2> QED
        BY <1>3, <2>2 DEF Effect
<1> QED
    BY <1>1, <1>2, <1>3 DEF StoreGetBucketNotification, GetConfig, BucketExists

LEMMA NotificationStep ==
    ASSUME TasksOK, ConfigOK(db), NEW t \in Tasks, AdminCreateBucketNotification(t) \/ AdminDeleteBucketNotification(t)
    PROVE  Becomes(t) /\ Effect(task[t])
<1> DEFINE k == task[t]
           rules == IF k.value = None THEN <<>> ELSE k.value
<1>1. TaskOK(k)
    BY DEF TasksOK
<1>2. k.pc \in {"push", "retain"} => rules \in Seq(Rules)
    BY <1>1 DEF TaskOK, Knows
<1>3. CASE Serving(t, "create_bucket_notification") /\ StoreGetBucketNotification(t, "push", "push")
    BY <1>3, GetRulesStep DEF Serving, At
<1>4. CASE Serving(t, "delete_bucket_notification") /\ StoreGetBucketNotification(t, "retain", "done")
    BY <1>4, GetRulesStep DEF Serving, At
<1>5. CASE /\ At(t, "push")
           /\ \E id \in Rules : Become(t, [k EXCEPT !.value = Append(rules, id), !.pc = "save"])
           /\ Reads
    <2>1. PICK id \in Rules : Become(t, [k EXCEPT !.value = Append(rules, id), !.pc = "save"])
        BY <1>5
    <2>2. Append(rules, id) \in Seq(Rules) /\ k.pc = "push"
        BY <1>2, <1>5, AddedRule DEF At
    <2> HIDE DEF rules
    <2>3. Becomes(t)
        BY <2>1, <2>2, ToSave
    <2> QED
        BY <1>5, <2>3 DEF Effect
<1>6. CASE /\ At(t, "retain")
           /\ \E i \in DOMAIN rules : Become(t, [k EXCEPT !.value = RemoveAt(rules, i), !.pc = "save"])
           /\ Reads
    <2>1. PICK i \in DOMAIN rules : Become(t, [k EXCEPT !.value = RemoveAt(rules, i), !.pc = "save"])
        BY <1>6
    <2>2. RemoveAt(rules, i) \in Seq(Rules) /\ k.pc = "retain"
        BY <1>2, <1>6, RemovedRule DEF At
    <2> HIDE DEF rules
    <2>3. Becomes(t)
        BY <2>1, <2>2, ToSave
    <2> QED
        BY <1>6, <2>3 DEF Effect
<1>7. CASE At(t, "retain") /\ Continue(t, "done") /\ Reads
    BY <1>7, ContinueEnds DEF At, Effect
<1>8. CASE SaveRules(t, "create_bucket_notification") \/ SaveRules(t, "delete_bucket_notification")
    BY <1>8, SaveRulesStep
<1> QED
    BY <1>3, <1>4, <1>5, <1>6, <1>7, <1>8 DEF AdminCreateBucketNotification, AdminDeleteBucketNotification

-----------------------------------------------------------------------------
(* Requests arrive and are checked.                                          *)
LEMMA FromCheck ==
    ASSUME TasksOK, NEW t \in Tasks, task[t].pc = "check", NEW n, task' = [task EXCEPT ![t] = n],
           n.pc \in {"check", "handle", "delete", "refused"}, DOMAIN n = TaskFields,
           n.op = task[t].op, n.bucket = task[t].bucket, n.key = task[t].key, n.source = task[t].source,
           n.keys = task[t].keys, n.tenant = task[t].tenant, n.value = task[t].value,
           n.did = task[t].did, n.told = task[t].told, n.since = task[t].since,
           n.warned = task[t].warned \/ n.op = "DeleteObjects",
           n.pc # "check" => n.call = 1, n.pc = "delete" => InBatch(t), n.pc = "refused" => n.op \in AdminOps,
           Cleared(n)
    PROVE  Becomes(t)
<1> DEFINE k == task[t]
<1>1. TaskOK(k) /\ task'[t] = n /\ task' = [task EXCEPT ![t] = task'[t]]
    BY BecomeAt
<1>2. n.told = <<>> /\ (n.op # "DeleteObjects" => n.did = <<>> /\ n.warned = {}) /\ n.op \in S3Ops \cup AdminOps
    BY <1>1 DEF TaskOK, Reported
<1>3. Arguments(n)
    BY <1>1 DEF TaskOK, Arguments, Cleared, InBatch
<1>4. Where(n) /\ Knows(n)
    BY <1>1 DEF TaskOK, Where, Knows, InBatch, Batches
<1>5. Reported(n)
    BY <1>2 DEF Reported
<1>7. Names(n, n.pc)
    BY <1>2, Unnamed
<1>6. TaskOK(n) /\ Counts(k, n)
    BY <1>2, <1>3, <1>4, <1>5, <1>7 DEF TaskOK, Counts
<1> QED
    BY <1>1, <1>6 DEF Becomes

LEMMA OneOrTwo ==
    ASSUME NEW s, NEW a, NEW b
    PROVE  /\ s = <<a>> => Len(s) = 1 /\ Head(s) = a /\ ~(Len(s) > 1)
           /\ s = <<a, b>> => Len(s) = 2 /\ Head(s) = a /\ Tail(s) = <<b>> /\ Len(s) > 1
<1>1. Len(<<a>>) = 1 /\ Head(<<a>>) = a
    OBVIOUS
<1>2. Len(<<a, b>>) = 2 /\ Head(<<a, b>>) = a /\ Tail(<<a, b>>) = <<b>>
    OBVIOUS
<1>3. 2 > 1 /\ ~(1 > 1)
    OBVIOUS
<1> QED
    BY <1>1, <1>2, <1>3, Zenon

LEMMA GrantedStep ==
    ASSUME TasksOK, NEW t \in Tasks, At(t, "check"),
           LET k == task[t]
               granted == [k EXCEPT !.grants = @ \cup {Head(k.asks)}, !.asks = Tail(@)]
           IN  Become(t, IF Len(k.asks) > 1 THEN granted
                         ELSE Return(granted, IF InBatch(t) THEN "delete" ELSE "handle"))
    PROVE  Becomes(t)
<1> DEFINE k == task[t]
           g == [k EXCEPT !.grants = @ \cup {Head(k.asks)}, !.asks = Tail(@)]
           n == Return(g, IF InBatch(t) THEN "delete" ELSE "handle")
<1>1. TaskOK(k) /\ k.pc = "check" /\ DOMAIN k = TaskFields
    BY DEF TasksOK, TaskOK, At
<1>2. /\ DOMAIN g = TaskFields /\ g.pc = "check" /\ g.op = k.op /\ g.bucket = k.bucket /\ g.key = k.key
      /\ g.source = k.source /\ g.keys = k.keys /\ g.tenant = k.tenant /\ g.value = k.value /\ g.did = k.did
      /\ g.told = k.told /\ g.since = k.since /\ g.warned = k.warned
      /\ g.grants = k.grants \cup {Head(k.asks)} /\ g.asks = Tail(k.asks)
    BY <1>1 DEF TaskFields
<1>3. Become(t, IF Len(k.asks) > 1 THEN g ELSE n)
    OBVIOUS
<1> HIDE DEF g
<1>4. /\ DOMAIN n = TaskFields /\ n.pc = (IF InBatch(t) THEN "delete" ELSE "handle") /\ n.call = 1 /\ n.op = k.op
      /\ n.bucket = k.bucket /\ n.key = k.key /\ n.source = k.source /\ n.keys = k.keys /\ n.tenant = k.tenant
      /\ n.value = k.value /\ n.did = k.did /\ n.told = k.told /\ n.since = k.since /\ n.warned = k.warned
      /\ n.grants = k.grants \cup {Head(k.asks)}
    BY <1>2, ReturnFields
<1> HIDE DEF n
<1>5. Wanted(g) = Wanted(k) /\ KeyAsk(g) = KeyAsk(k) /\ Wanted(n) = Wanted(k) /\ KeyAsk(n) = KeyAsk(k)
    BY <1>2, <1>4 DEF Wanted, KeyAsk
<1>6. CASE k.asks = <<k.asks[1]>> /\ Wanted(k) \subseteq k.grants \cup {k.asks[1]}
    <2>1. Head(k.asks) = k.asks[1] /\ ~(Len(k.asks) > 1)
        BY <1>6, OneOrTwo, Zenon
    <2>2. task' = [task EXCEPT ![t] = n]
        BY <1>3, <2>1, Zenon DEF Become
    <2>3. k.op = "DeleteObjects" /\ k.key # None => KeyAsk(k) = k.asks[1]
        BY <1>1, <1>6 DEF TaskOK, Cleared
    <2>4. Wanted(n) \subseteq n.grants /\ (k.op = "DeleteObjects" /\ k.key # None => KeyAsk(n) \in n.grants)
        BY <1>4, <1>5, <1>6, <2>1, <2>3
    <2>5. k.op = "DeleteObjects" /\ k.key # None => k.key \in Keys
        BY <1>1 DEF TaskOK, Cleared
    <2>6. Cleared(n)
        BY <1>4, <2>4, <2>5 DEF Cleared, Waiting, InBatch
    <2> QED
        BY <1>1, <1>4, <2>2, <2>6, FromCheck
<1>7. CASE k.asks = <<k.asks[1], k.asks[2]>> /\ Wanted(k) \subseteq k.grants \cup {k.asks[1], k.asks[2]}
    <2>1. Len(k.asks) > 1 /\ Head(k.asks) = k.asks[1] /\ Tail(k.asks) = <<k.asks[2]>>
        BY <1>7, OneOrTwo, Zenon
    <2>2. task' = [task EXCEPT ![t] = g]
        BY <1>3, <2>1, Zenon DEF Become
    <2>3. k.op = "DeleteObjects" => k.key = None
        <3>1. k.op = "DeleteObjects" /\ k.key # None => k.asks = <<KeyAsk(k)>>
            BY <1>1 DEF TaskOK, Cleared
        <3>2. k.op = "DeleteObjects" /\ k.key # None => ~(Len(k.asks) > 1)
            BY <3>1, OneOrTwo, Zenon
        <3> QED
            BY <2>1, <3>2
    <2>4. g.asks = <<g.asks[1]>> /\ g.asks[1] = k.asks[2]
        BY <1>2, <2>1
    <2>5. Wanted(g) \subseteq g.grants \cup {g.asks[1]}
        BY <1>2, <1>5, <1>7, <2>1, <2>4
    <2>6. Cleared(g)
        BY <1>2, <2>3, <2>4, <2>5 DEF Cleared, Waiting
    <2> QED
        BY <1>1, <1>2, <2>2, <2>6, FromCheck
<1> QED
    BY <1>1, <1>6, <1>7 DEF TaskOK, Cleared

LEMMA RefusedStep ==
    ASSUME TasksOK, NEW t \in Tasks, At(t, "check"), NEW e, NEW pc,
           pc = (IF InBatch(t) THEN "handle" ELSE IF task[t].op \in S3Ops THEN "done" ELSE "refused"),
           DOMAIN e = TaskFields, e.op = task[t].op, e.bucket = task[t].bucket, e.key = task[t].key,
           e.source = task[t].source, e.keys = task[t].keys, e.tenant = task[t].tenant, e.value = task[t].value,
           e.grants = task[t].grants, e.did = task[t].did, e.told = task[t].told, e.since = task[t].since,
           e.warned = task[t].warned \/ task[t].op \in S3Ops,
           Become(t, Return(e, pc))
    PROVE  Becomes(t)
<1> DEFINE k == task[t]
           n == Return(e, pc)
<1>1. TaskOK(k) /\ k.pc = "check" /\ k.op \in S3Ops \cup AdminOps
    BY DEF TasksOK, TaskOK, At
<1>2. k.op # "DeleteObjects" => k.did = <<>>
    BY <1>1 DEF TaskOK, Reported
<1>3. ASSUME pc = "done" PROVE Becomes(t)
    BY <1>1, <1>2, <1>3, Ends
<1>4. ASSUME pc # "done" PROVE Becomes(t)
    <2>1. /\ DOMAIN n = TaskFields /\ n.pc = pc /\ n.call = 1 /\ n.op = k.op /\ n.bucket = k.bucket /\ n.key = k.key
          /\ n.source = k.source /\ n.keys = k.keys /\ n.tenant = k.tenant /\ n.value = k.value /\ n.did = k.did
          /\ n.told = k.told /\ n.since = k.since /\ n.warned = e.warned /\ n.grants = k.grants
        BY <1>4, ReturnFields
    <2>2. task' = [task EXCEPT ![t] = n]
        BY DEF Become
    <2> HIDE DEF n
    <2>3. pc = "handle" => k.op = "DeleteObjects" /\ k.key # None /\ k.key \in Keys /\ Wanted(k) \subseteq k.grants
        BY <1>1 DEF TaskOK, Cleared, InBatch
    <2>4. pc = "refused" => k.op \in AdminOps /\ k.op # "DeleteObjects"
        BY <1>1, OpsDiffer DEF InBatch
    <2>5. Wanted(n) = Wanted(k)
        BY <2>1 DEF Wanted
    <2>6. Cleared(n)
        BY <1>4, <2>1, <2>3, <2>4, <2>5 DEF Cleared, Waiting
    <2>7. n.warned = k.warned \/ n.op = "DeleteObjects"
        BY <1>4, <2>1, <2>3, <2>4, OpsDiffer
    <2>8. n.pc \in {"handle", "refused"}
        BY <1>4, <2>1
    <2> QED
        BY <1>1, <2>1, <2>2, <2>4, <2>6, <2>7, <2>8, FromCheck
<1> QED
    BY <1>3, <1>4

LEMMA CheckStep ==
    ASSUME TasksOK, NEW t \in Tasks, CheckAuthorization(t)
    PROVE  Becomes(t) /\ Effect(task[t])
<1> DEFINE k == task[t]
           granted == [k EXCEPT !.grants = @ \cup {Head(k.asks)}, !.asks = Tail(@)]
           refused == IF InBatch(t) THEN "handle" ELSE IF k.op \in S3Ops THEN "done" ELSE "refused"
<1>1. At(t, "check") /\ DOMAIN k = TaskFields
    BY Fields DEF CheckAuthorization
<1>2. CASE /\ Become(t, IF Len(k.asks) > 1 THEN granted
                        ELSE Return(granted, IF InBatch(t) THEN "delete" ELSE "handle"))
           /\ Reads
    BY <1>1, <1>2, GrantedStep DEF Effect
<1>3. CASE Continue(t, refused) /\ Reads
    <2>1. Become(t, Return(k, refused))
        BY <1>3 DEF Continue
    <2> HIDE DEF refused
    <2>2. Becomes(t)
        BY <1>1, <2>1, RefusedStep DEF refused
    <2> QED
        BY <1>3, <2>2 DEF Effect
<1>4. CASE k.op \in S3Ops /\ Warn(t, "denied", refused)
    <2> DEFINE e == [k EXCEPT !.warned = @ \cup {"denied"}]
    <2>1. Become(t, Return(e, refused)) /\ Reads
        BY <1>4 DEF Warn
    <2>2. /\ DOMAIN e = TaskFields /\ e.op = k.op /\ e.bucket = k.bucket /\ e.key = k.key /\ e.source = k.source
          /\ e.keys = k.keys /\ e.tenant = k.tenant /\ e.value = k.value /\ e.grants = k.grants
          /\ e.did = k.did /\ e.told = k.told /\ e.since = k.since
        BY <1>1 DEF TaskFields
    <2> HIDE DEF e, refused
    <2>3. refused = (IF InBatch(t) THEN "handle" ELSE IF k.op \in S3Ops THEN "done" ELSE "refused")
        BY DEF refused
    <2>4. Becomes(t)
        BY <1>1, <1>4, <2>1, <2>2, <2>3, RefusedStep
    <2> QED
        BY <2>1, <2>4 DEF Effect
<1> QED
    BY <1>2, <1>3, <1>4 DEF CheckAuthorization

LEMMA ArriveStep ==
    ASSUME TasksOK, NEW t \in Tasks, ops \subseteq S3Ops \cup AdminOps, Arrive(t)
    PROVE  Becomes(t) /\ Effect(task[t])
<1> DEFINE New(op, b, k, source, upload, tenant) ==
                [Idle EXCEPT !.pc = "check", !.op = op, !.bucket = b, !.key = k, !.source = source,
                             !.upload = upload, !.tenant = tenant, !.keys = IF op \in Batches THEN Keys ELSE {},
                             !.asks = IF op \in AdminOps THEN <<AuthorizationTarget(op, b, k)>>
                                      ELSE S3Asks(op, b, k, source)]
<1>1. PICK op \in ops, b \in Buckets : \E k \in IF op \in ObjectOps \cup PartOps \cup CopyOps \cup {"delete_object"} THEN Keys ELSE {None},
           source \in IF op \in CopyOps THEN Buckets \X Keys ELSE {None},
           upload \in IF op \in UploadOps THEN 0 .. db.issued ELSE {0},
           tenant \in IF op \in {"create_tenant", "delete_tenant"} THEN Tenants
                      ELSE IF op \in TenantOps THEN Tenants \cup {None} ELSE {None} :
                /\ op \in Creators => MayCreate
                /\ op = "CreateMultipartUpload" => MayUpload
                /\ Become(t, New(op, b, k, source, upload, tenant))
    BY Zenon DEF Arrive
<1>2. PICK k \in IF op \in ObjectOps \cup PartOps \cup CopyOps \cup {"delete_object"} THEN Keys ELSE {None},
           source \in IF op \in CopyOps THEN Buckets \X Keys ELSE {None},
           upload \in IF op \in UploadOps THEN 0 .. db.issued ELSE {0},
           tenant \in IF op \in {"create_tenant", "delete_tenant"} THEN Tenants
                      ELSE IF op \in TenantOps THEN Tenants \cup {None} ELSE {None} :
                /\ op \in Creators => MayCreate
                /\ op = "CreateMultipartUpload" => MayUpload
                /\ Become(t, New(op, b, k, source, upload, tenant))
    BY <1>1, Zenon
<1> DEFINE keys == IF op \in Batches THEN Keys ELSE {}
           asks == IF op \in AdminOps THEN <<AuthorizationTarget(op, b, k)>> ELSE S3Asks(op, b, k, source)
           n == [Idle EXCEPT !.pc = "check", !.op = op, !.bucket = b, !.key = k, !.source = source,
                             !.upload = upload, !.tenant = tenant, !.keys = keys, !.asks = asks]
<1>3. task'[t] = n /\ task' = [task EXCEPT ![t] = task'[t]] /\ TaskOK(task[t]) /\ Reads
    <2>1. Become(t, n)
        BY <1>2
    <2> HIDE DEF n
    <2> QED
        BY <2>1, BecomeAt DEF Become, Arrive
<1>4. k \in Keys \cup {None} /\ (op \in KeyedOps => k \in Keys) /\ (op \notin KeyedOps => k = None)
    BY <1>2 DEF KeyedOps
<1>5. tenant \in Slugs /\ (op \in {"create_tenant", "delete_tenant"} => tenant \in Tenants)
    BY <1>2 DEF Slugs
<1>6. op \in CopyOps => source \in Buckets \X Keys
    BY <1>2
<1>7. op \in S3Ops \cup AdminOps
    BY <1>1
<1>8. keys \subseteq Keys
    OBVIOUS
<1>9. \/ \E a : asks = <<a>> /\ Wanted(n) \subseteq {a}
      \/ \E a, c : asks = <<a, c>> /\ Wanted(n) \subseteq {a, c}
    <2>0. n.op = op /\ n.bucket = b /\ n.key = k /\ n.source = source
        BY DEF Idle
    <2> HIDE DEF n
    <2>1. CASE op \in AdminOps
        BY <2>0, <2>1 DEF Wanted
    <2>2. CASE op \notin AdminOps /\ op \in ObjectOps
        <3>1. asks = <<Ask(op, b, k)>>
            BY <2>2 DEF S3Asks, ObjectOps, BucketOps, CopyOps, PartOps
        <3> QED
            BY <2>0, <2>2, <3>1 DEF Wanted
    <2>3. CASE op \notin AdminOps /\ op \in BucketOps
        <3>1. asks = <<Ask(op, b, None)>>
            BY <2>3 DEF S3Asks, ObjectOps, BucketOps, CopyOps, PartOps
        <3>2. op \notin ObjectOps
            BY <2>3 DEF ObjectOps, BucketOps
        <3> QED
            BY <2>0, <2>3, <3>1, <3>2 DEF Wanted
    <2>4. CASE op \notin AdminOps /\ op \in PartOps
        <3>1. asks = <<Ask("PutObject", b, k)>>
            BY <2>4 DEF S3Asks, ObjectOps, BucketOps, CopyOps, PartOps
        <3>2. op \notin ObjectOps \cup BucketOps
            BY <2>4 DEF ObjectOps, BucketOps, PartOps
        <3> QED
            BY <2>0, <2>4, <3>1, <3>2 DEF Wanted
    <2>5. CASE op \notin AdminOps /\ op \in CopyOps
        <3>1. asks = <<Ask("PutObject", b, k), Ask("GetObject", source[1], source[2])>>
            BY <2>5 DEF S3Asks, ObjectOps, BucketOps, CopyOps, PartOps
        <3>2. op \notin ObjectOps \cup BucketOps \cup PartOps
            BY <2>5 DEF ObjectOps, BucketOps, PartOps, CopyOps
        <3>3. Wanted(n) = {Ask("PutObject", b, k), Ask("GetObject", source[1], source[2])}
            BY <2>0, <2>5, <3>2 DEF Wanted
        <3> QED
            BY <3>1, <3>3
    <2>6. CASE op \notin AdminOps /\ op = "ListBuckets"
        <3>1. asks = <<Ask(op, None, None)>>
            BY <2>6 DEF S3Asks, ObjectOps, BucketOps, CopyOps, PartOps
        <3>2. op \notin ObjectOps \cup BucketOps \cup PartOps \cup CopyOps
            BY <2>6 DEF ObjectOps, BucketOps, PartOps, CopyOps
        <3> QED
            BY <2>0, <2>6, <3>1, <3>2 DEF Wanted
    <2> QED
        BY <1>7, <2>1, <2>2, <2>3, <2>4, <2>5, <2>6 DEF S3Ops
<1> HIDE DEF keys, asks
<1>10. /\ DOMAIN n = TaskFields /\ n.pc = "check" /\ n.call = 1 /\ n.op = op /\ n.bucket = b /\ n.key = k
       /\ n.source = source /\ n.keys = keys /\ n.tenant = tenant /\ n.asks = asks /\ n.value = None
       /\ n.since = 0 /\ n.did = <<>> /\ n.told = <<>> /\ n.warned = {}
    BY DEF Idle, TaskFields
<1> HIDE DEF n
<1>11. Arguments(n)
    BY <1>1, <1>4, <1>5, <1>6, <1>8, <1>10 DEF Arguments
<1>12. n.op = "DeleteObjects" => n.key = None
    BY <1>4, <1>10 DEF KeyedOps, ObjectOps, PartOps, CopyOps
<1>13. \/ n.asks = <<n.asks[1]>> /\ Wanted(n) \subseteq n.grants \cup {n.asks[1]}
       \/ n.asks = <<n.asks[1], n.asks[2]>> /\ Wanted(n) \subseteq n.grants \cup {n.asks[1], n.asks[2]}
    <2>1. ASSUME NEW a, asks = <<a>>, Wanted(n) \subseteq {a}
          PROVE  n.asks = <<n.asks[1]>> /\ Wanted(n) \subseteq n.grants \cup {n.asks[1]}
        <3>1. n.asks[1] = a
            BY <1>10, <2>1
        <3> QED
            BY <1>10, <2>1, <3>1
    <2>2. ASSUME NEW a, NEW c, asks = <<a, c>>, Wanted(n) \subseteq {a, c}
          PROVE  n.asks = <<n.asks[1], n.asks[2]>> /\ Wanted(n) \subseteq n.grants \cup {n.asks[1], n.asks[2]}
        <3>1. n.asks[1] = a /\ n.asks[2] = c
            BY <1>10, <2>2
        <3> QED
            BY <1>10, <2>2, <3>1
    <2> QED
        BY <1>9, <2>1, <2>2
<1>14. Cleared(n)
    BY <1>10, <1>12, <1>13 DEF Cleared, Waiting
<1>15. Where(n) /\ Knows(n) /\ Reported(n)
    BY <1>10 DEF Where, Knows, Reported
<1>17. Names(n, n.pc)
    BY <1>10, Unnamed
<1>16. TaskOK(n) /\ Counts(task[t], n)
    BY <1>7, <1>10, <1>11, <1>14, <1>15, <1>17 DEF TaskOK, Counts
<1> QED
    BY <1>3, <1>16 DEF Becomes, Effect

LEMMA IdleOK == TaskOK(Idle) /\ Idle.since = 0 /\ Idle.op = None
<1> DEFINE n == Idle
<1>1. /\ DOMAIN n = TaskFields /\ n.pc = "idle" /\ n.call = 1 /\ n.op = None /\ n.key = None
      /\ n.since = 0 /\ n.did = <<>> /\ n.told = <<>> /\ n.warned = {}
    BY DEF Idle, TaskFields
<1>2. n = Idle
    OBVIOUS
<1> HIDE DEF n
<1>3. Where(n) /\ Knows(n) /\ Cleared(n) /\ Reported(n)
    BY <1>1 DEF Where, Knows, Cleared, Reported, Waiting
<1>4. Names(n, n.pc)
    BY <1>1, Unnamed
<1> QED
    BY <1>1, <1>2, <1>3, <1>4 DEF TaskOK

LEMMA RespondStep ==
    ASSUME TasksOK, NEW t \in Tasks, Respond(t)
    PROVE  Becomes(t) /\ Effect(task[t])
<1>1. task'[t] = Idle /\ task' = [task EXCEPT ![t] = task'[t]] /\ Reads
    BY BecomeAt DEF Respond, Become
<1>2. Counts(task[t], Idle)
    BY DEF Counts, Idle
<1> QED
    BY <1>1, <1>2, IdleOK DEF Becomes, Effect

-----------------------------------------------------------------------------
(* Effects keep the tables as they should be.                                *)
(* Buckets keep their tenant and incarnation; a new one has the next.        *)
Kept(d, e) ==
    /\ e.gen \in Nat /\ d.gen <= e.gen
    /\ \A b \in DOMAIN e.buckets :
        \/ b \in DOMAIN d.buckets /\ e.buckets[b].tenant = d.buckets[b].tenant /\ e.buckets[b].gen = d.buckets[b].gen
        \/ e.buckets[b].gen = d.gen + 1

(* A table that does not change needs no permission.                         *)
LEMMA SameTables ==
    ASSUME NEW k
    PROVE  /\ db'.buckets = db.buckets /\ db'.tenants = db.tenants => BucketsAuthorized(k)
           /\ db'.objects = db.objects => ObjectsAuthorized(k)
           /\ db'.uploads = db.uploads => UploadsAuthorized(k)
           /\ db'.config = db.config => SettingsAuthorized(k)
BY DEF BucketsAuthorized, ObjectsAuthorized, UploadsAuthorized, SettingsAuthorized

LEMMA BucketCreatedOK ==
    ASSUME DbOK(db), ConfigOK(db), NEW k, BucketCreated(k)
    PROVE  DbOK(db') /\ ConfigOK(db') /\ Kept(db, db') /\ Authorized(k)
<1>1. PICK tenant \in Slugs :
        /\ k.bucket \in Buckets \ DOMAIN db.buckets
        /\ db' = [db EXCEPT
                    !.buckets = Bind(@, k.bucket, [tenant |-> tenant, versioning |-> "Unversioned", gen |-> db.gen + 1]),
                    !.gen = @ + 1]
    BY DEF BucketCreated
<1> DEFINE row == [tenant |-> tenant, versioning |-> "Unversioned", gen |-> db.gen + 1]
           f == Bind(db.buckets, k.bucket, row)
<1>2. db.gen \in Nat /\ db.gen + 1 \in Nat \ {0}
    BY DEF DbOK
<1>3. row \in BucketRows /\ row.gen = db.gen + 1
    BY <1>2 DEF BucketRows
<1> HIDE DEF row
<1>4. /\ DOMAIN f = DOMAIN db.buckets \cup {k.bucket} /\ f[k.bucket] = row
      /\ \A y \in DOMAIN db.buckets : f[y] = db.buckets[y]
    BY <1>1 DEF Bind
<1>5. f \in [DOMAIN f -> BucketRows]
    BY <1>3 DEF DbOK, Bind
<1>6. /\ DOMAIN db' = DbFields /\ db'.buckets = f /\ db'.gen = db.gen + 1 /\ db'.tenants = db.tenants
      /\ db'.config = db.config /\ db'.objects = db.objects /\ db'.uploads = db.uploads /\ db'.issued = db.issued
    BY <1>1 DEF DbOK, DbFields, row
<1> HIDE DEF f
<1>7. \A b \in DOMAIN f : f[b].gen <= db.gen + 1
    <2>1. \A b \in DOMAIN db.buckets : db.buckets[b].gen \in Nat /\ db.buckets[b].gen <= db.gen
        BY DEF DbOK, BucketRows
    <2> QED
        BY <1>2, <1>3, <1>4, <2>1
<1>8. DbOK(db')
    BY <1>1, <1>2, <1>4, <1>5, <1>6, <1>7 DEF DbOK
<1>9. ConfigOK(db')
    BY <1>4, <1>6 DEF ConfigOK
<1>10. Kept(db, db')
    BY <1>2, <1>3, <1>4, <1>6 DEF Kept
<1>11. Authorized(k)
    <2>1. Granted(k, {"CreateBucket"}, k.bucket, None) \/ Granted(k, {"CreateBucket"}, None, None)
        BY DEF BucketCreated
    <2>2. BucketsAuthorized(k)
        BY <1>4, <1>6, <2>1 DEF BucketsAuthorized
    <2> QED
        BY <1>6, <2>2, SameTables DEF Authorized
<1> QED
    BY <1>8, <1>9, <1>10, <1>11

LEMMA BucketGoneOK ==
    ASSUME DbOK(db), ConfigOK(db), NEW k, BucketGone(k)
    PROVE  DbOK(db') /\ ConfigOK(db') /\ Kept(db, db') /\ Authorized(k)
<1> DEFINE b == k.bucket
           f == Without(db.buckets, {b})
           o == Without(db.objects, RowsOf(b))
           u == Without(db.uploads, UploadsTo(b))
           c == Without(db.config, {x \in DOMAIN db.config : x[2] = b})
<1>1. db' = [db EXCEPT !.buckets = f, !.objects = o, !.uploads = u, !.config = c]
    BY DEF BucketGone, BucketDeleted
<1>2. DOMAIN f = DOMAIN db.buckets \ {b} /\ (\A y \in DOMAIN f : f[y] = db.buckets[y]) /\ f \in [DOMAIN f -> BucketRows]
    BY DEF DbOK, Without, Restrict
<1>3. /\ DOMAIN o = {x \in DOMAIN db.objects : x[1] # b} /\ o \in [DOMAIN o -> RowType]
      /\ \A x \in DOMAIN o : o[x] = db.objects[x]
    BY DEF DbOK, RowsOf, Without, Restrict
<1>4. /\ DOMAIN u = {x \in DOMAIN db.uploads : db.uploads[x].place[1] # b} /\ u \in [DOMAIN u -> UploadRows]
      /\ \A x \in DOMAIN u : u[x] = db.uploads[x]
    BY DEF DbOK, UploadsTo, Without, Restrict
<1>5. /\ DOMAIN c = {x \in DOMAIN db.config : x[2] # b} /\ \A x \in DOMAIN c : c[x] = db.config[x]
    BY DEF Without, Restrict
<1> HIDE DEF f, o, u, c
<1>6. /\ DOMAIN db' = DbFields /\ db'.buckets = f /\ db'.gen = db.gen /\ db'.tenants = db.tenants
      /\ db'.config = c /\ db'.objects = o /\ db'.uploads = u /\ db'.issued = db.issued
    BY <1>1 DEF DbOK, DbFields
<1>7. DbOK(db')
    BY <1>2, <1>3, <1>4, <1>6 DEF DbOK
<1>8. ConfigOK(db')
    BY <1>2, <1>5, <1>6 DEF ConfigOK
<1>9. Kept(db, db')
    BY <1>2, <1>6 DEF Kept, DbOK
<1>10. ObjectsAuthorized(k)
    <2>1. ASSUME NEW x \in DOMAIN db.objects \cup DOMAIN o, x[1] \in DOMAIN f
          PROVE  ValueAt(o, x) = ValueAt(db.objects, x)
        <3>1. x[1] # b
            BY <1>2, <2>1
        <3> QED
            BY <1>3, <3>1 DEF ValueAt
    <2> QED
        BY <1>6, <2>1 DEF ObjectsAuthorized
<1>11. UploadsAuthorized(k)
    BY <1>2, <1>4, <1>6 DEF UploadsAuthorized
<1>12. SettingsAuthorized(k)
    <2>1. ASSUME NEW x \in DOMAIN db.config \cup DOMAIN c, x[2] \in DOMAIN f
          PROVE  ValueAt(c, x) = ValueAt(db.config, x)
        <3>1. x[2] # b
            BY <1>2, <2>1
        <3> QED
            BY <1>5, <3>1 DEF ValueAt
    <2> QED
        BY <1>6, <2>1 DEF SettingsAuthorized
<1>13. BucketsAuthorized(k)
    <2>1. Granted(k, {"DeleteBucket"}, b, None)
        BY DEF BucketGone
    <2> QED
        BY <1>2, <1>6, <2>1 DEF BucketsAuthorized
<1>14. Authorized(k)
    BY <1>10, <1>11, <1>12, <1>13 DEF Authorized
<1> QED
    BY <1>7, <1>8, <1>9, <1>14

(* The tables that a step leaves alone.                                      *)
LEMMA KeptAll ==
    ASSUME DbOK(db), db'.buckets = db.buckets, db'.gen = db.gen
    PROVE  Kept(db, db')
BY DEF Kept, DbOK

LEMMA VersioningSetOK ==
    ASSUME DbOK(db), ConfigOK(db), NEW k, VersioningSet(k)
    PROVE  DbOK(db') /\ ConfigOK(db') /\ Kept(db, db') /\ Authorized(k)
<1>1. PICK v \in {"Enabled", "Suspended"} :
        /\ k.bucket \in DOMAIN db.buckets /\ db' = [db EXCEPT !.buckets[k.bucket].versioning = v]
        /\ VersioningGrant(k)
    BY DEF VersioningSet
<1> DEFINE row == [db.buckets[k.bucket] EXCEPT !.versioning = v]
           f == [db.buckets EXCEPT ![k.bucket] = row]
<1>2. row \in BucketRows /\ row.gen = db.buckets[k.bucket].gen /\ row.tenant = db.buckets[k.bucket].tenant
    <2>1. db.buckets[k.bucket] \in BucketRows
        BY <1>1 DEF DbOK
    <2> QED
        BY <2>1 DEF BucketRows
<1>3. db' = [db EXCEPT !.buckets = f]
    BY <1>1 DEF DbOK, DbFields
<1> HIDE DEF row
<1>4. /\ DOMAIN f = DOMAIN db.buckets /\ f \in [DOMAIN f -> BucketRows]
      /\ \A b \in DOMAIN f : f[b].gen = db.buckets[b].gen /\ f[b].tenant = db.buckets[b].tenant
      /\ \A b \in DOMAIN f : b # k.bucket => f[b] = db.buckets[b]
    BY <1>1, <1>2 DEF DbOK
<1> HIDE DEF f
<1>5. /\ DOMAIN db' = DbFields /\ db'.buckets = f /\ db'.gen = db.gen /\ db'.tenants = db.tenants
      /\ db'.config = db.config /\ db'.objects = db.objects /\ db'.uploads = db.uploads /\ db'.issued = db.issued
    BY <1>3 DEF DbOK, DbFields
<1>6. DbOK(db')
    BY <1>4, <1>5 DEF DbOK
<1>7. ConfigOK(db')
    BY <1>4, <1>5 DEF ConfigOK
<1>8. Kept(db, db')
    BY <1>4, <1>5 DEF Kept, DbOK
<1>9. BucketsAuthorized(k)
    BY <1>1, <1>4, <1>5 DEF BucketsAuthorized, VersioningGrant
<1>10. Authorized(k)
    BY <1>5, <1>9, SameTables DEF Authorized
<1> QED
    BY <1>6, <1>7, <1>8, <1>10

LEMMA TenantsChangedOK ==
    ASSUME DbOK(db), ConfigOK(db), NEW k, TenantsChanged(k)
    PROVE  DbOK(db') /\ ConfigOK(db') /\ Kept(db, db') /\ Authorized(k)
<1>1. PICK S \in SUBSET Tenants : db' = [db EXCEPT !.tenants = S] /\ Granted(k, {}, None, None)
    BY DEF TenantsChanged
<1>2. /\ DOMAIN db' = DbFields /\ db'.buckets = db.buckets /\ db'.gen = db.gen /\ db'.tenants = S
      /\ db'.config = db.config /\ db'.objects = db.objects /\ db'.uploads = db.uploads /\ db'.issued = db.issued
    BY <1>1 DEF DbOK, DbFields
<1>4. BucketsAuthorized(k)
    BY <1>1, <1>2 DEF BucketsAuthorized
<1>3. Authorized(k)
    BY <1>2, <1>4, SameTables DEF Authorized
<1> QED
    BY <1>1, <1>2, <1>3, KeptAll DEF DbOK, ConfigOK

LEMMA ConfigPutOK ==
    ASSUME DbOK(db), ConfigOK(db), NEW k, ConfigPut(k)
    PROVE  DbOK(db') /\ ConfigOK(db') /\ Kept(db, db') /\ Authorized(k)
<1>1. PICK table \in Tables : \E v :
        /\ k.bucket \in DOMAIN db.buckets
        /\ table = "notification" => v \in Seq(Rules) /\ IsInjective(v)
        /\ db' = [db EXCEPT !.config = Bind(@, <<table, k.bucket>>, [value |-> v, gen |-> db.buckets[k.bucket].gen])]
        /\ Granted(k, ConfigGrants[table], k.bucket, None)
    BY DEF ConfigPut
<1>2. PICK v :
        /\ k.bucket \in DOMAIN db.buckets
        /\ table = "notification" => v \in Seq(Rules) /\ IsInjective(v)
        /\ db' = [db EXCEPT !.config = Bind(@, <<table, k.bucket>>, [value |-> v, gen |-> db.buckets[k.bucket].gen])]
        /\ Granted(k, ConfigGrants[table], k.bucket, None)
    BY <1>1
<1> DEFINE row == [value |-> v, gen |-> db.buckets[k.bucket].gen]
           x == <<table, k.bucket>>
           c == Bind(db.config, x, row)
<1>3. row.value = v /\ row.gen = db.buckets[k.bucket].gen
    OBVIOUS
<1>4. x \in Tables \X Buckets /\ x[1] = table /\ x[2] = k.bucket
    BY <1>2 DEF DbOK
<1>5. db' = [db EXCEPT !.config = c]
    BY <1>2
<1> HIDE DEF row, x
<1>6. DOMAIN c = DOMAIN db.config \cup {x} /\ c[x] = row /\ \A y \in DOMAIN db.config : y # x => c[y] = db.config[y]
    BY DEF Bind
<1> HIDE DEF c
<1>7. /\ DOMAIN db' = DbFields /\ db'.buckets = db.buckets /\ db'.gen = db.gen /\ db'.tenants = db.tenants
      /\ db'.config = c /\ db'.objects = db.objects /\ db'.uploads = db.uploads /\ db'.issued = db.issued
    BY <1>5 DEF DbOK, DbFields
<1>8. ConfigOK(db')
    BY <1>2, <1>3, <1>4, <1>6, <1>7 DEF ConfigOK
<1>9. ASSUME NEW y \in DOMAIN db.config \cup DOMAIN c, ValueAt(db.config, y) # ValueAt(c, y)
      PROVE  Granted(k, ConfigGrants[y[1]], y[2], None)
    <2>1. y = x
        BY <1>6, <1>9 DEF ValueAt
    <2> QED
        BY <1>2, <1>4, <2>1
<1>10. Authorized(k)
    BY <1>7, <1>9, SameTables DEF Authorized, SettingsAuthorized
<1> QED
    BY <1>7, <1>8, <1>10, KeptAll DEF DbOK

LEMMA ConfigGoneOK ==
    ASSUME DbOK(db), ConfigOK(db), NEW k, ConfigGone(k)
    PROVE  DbOK(db') /\ ConfigOK(db') /\ Kept(db, db') /\ Authorized(k)
<1>1. PICK table \in Tables :
        /\ db' = [db EXCEPT !.config = Without(@, {<<table, k.bucket>>})]
        /\ Granted(k, ConfigGrants[table], k.bucket, None)
    BY DEF ConfigGone
<1> DEFINE c == Without(db.config, {<<table, k.bucket>>})
<1>2. DOMAIN c = DOMAIN db.config \ {<<table, k.bucket>>} /\ \A y \in DOMAIN c : c[y] = db.config[y]
    BY DEF Without, Restrict
<1>3. db' = [db EXCEPT !.config = c]
    BY <1>1
<1> HIDE DEF c
<1>4. /\ DOMAIN db' = DbFields /\ db'.buckets = db.buckets /\ db'.gen = db.gen /\ db'.tenants = db.tenants
      /\ db'.config = c /\ db'.objects = db.objects /\ db'.uploads = db.uploads /\ db'.issued = db.issued
    BY <1>3 DEF DbOK, DbFields
<1>5. ConfigOK(db')
    BY <1>2, <1>4 DEF ConfigOK
<1>6. ASSUME NEW y \in DOMAIN db.config \cup DOMAIN c, ValueAt(db.config, y) # ValueAt(c, y)
      PROVE  Granted(k, ConfigGrants[y[1]], y[2], None)
    <2>1. y = <<table, k.bucket>>
        BY <1>2, <1>6 DEF ValueAt
    <2> QED
        BY <1>1, <2>1
<1>7. Authorized(k)
    BY <1>4, <1>6, SameTables DEF Authorized, SettingsAuthorized
<1> QED
    BY <1>4, <1>5, <1>7, KeptAll DEF DbOK

(* One row of the objects changes.                                           *)
LEMMA ObjectsChanged ==
    ASSUME DbOK(db), ConfigOK(db), NEW k, NEW o, NEW x, db' = [db EXCEPT !.objects = o],
           DOMAIN o \subseteq Buckets \X Keys, o \in [DOMAIN o -> RowType],
           \A y \in DOMAIN o : y[1] \in DOMAIN db.buckets,
           \A y \in DOMAIN db.objects \cup DOMAIN o : y # x => ValueAt(o, y) = ValueAt(db.objects, y),
           ObjectGrant(k, x, ValueAt(db.objects, x), ValueAt(o, x))
    PROVE  DbOK(db') /\ ConfigOK(db') /\ Kept(db, db') /\ Authorized(k)
<1>1. /\ DOMAIN db' = DbFields /\ db'.buckets = db.buckets /\ db'.gen = db.gen /\ db'.tenants = db.tenants
      /\ db'.config = db.config /\ db'.objects = o /\ db'.uploads = db.uploads /\ db'.issued = db.issued
    BY DEF DbOK, DbFields
<1>2. DbOK(db')
    BY <1>1 DEF DbOK
<1>3. ConfigOK(db')
    BY <1>1 DEF ConfigOK
<1>4. ObjectsAuthorized(k)
    BY <1>1 DEF ObjectsAuthorized
<1>5. Authorized(k)
    BY <1>1, <1>4, SameTables DEF Authorized
<1> QED
    BY <1>1, <1>2, <1>3, <1>5, KeptAll

LEMMA ObjectWrittenOK ==
    ASSUME DbOK(db), ConfigOK(db), NEW k, ObjectWritten(k)
    PROVE  DbOK(db') /\ ConfigOK(db') /\ Kept(db, db') /\ Authorized(k)
<1> DEFINE x == <<k.bucket, k.key>>
<1>1. PICK row \in RowType :
        /\ k.bucket \in DOMAIN db.buckets /\ k.key \in Keys
        /\ db' = [db EXCEPT !.objects = Bind(@, x, row)]
        /\ \/ row = Marker /\ DeleteGrant(k, x)
           \/ \E from \in SUBSET (Buckets \X Keys), tags \in BOOLEAN : row = Row(from, tags) /\ WriteGrant(k, x, from)
    BY DEF ObjectWritten
<1> DEFINE o == Bind(db.objects, x, row)
           was == ValueAt(db.objects, x)
<1>2. x \in Buckets \X Keys /\ x[1] = k.bucket /\ x[2] = k.key
    BY <1>1 DEF DbOK
<1>3. db' = [db EXCEPT !.objects = o]
    BY <1>1
<1> HIDE DEF x
<1>4. /\ DOMAIN o = DOMAIN db.objects \cup {x} /\ o[x] = row /\ o \in [DOMAIN o -> RowType]
      /\ \A y \in DOMAIN db.objects : y # x => o[y] = db.objects[y]
    BY DEF Bind, DbOK
<1> HIDE DEF o, was
<1>5. \A y \in DOMAIN db.objects \cup DOMAIN o : y # x => ValueAt(o, y) = ValueAt(db.objects, y)
    BY <1>4 DEF ValueAt
<1>6. ValueAt(o, x) = row
    BY <1>4 DEF ValueAt
<1>7. ObjectGrant(k, x, was, row)
    BY <1>1 DEF ObjectGrant
<1>8. DOMAIN o \subseteq Buckets \X Keys /\ \A y \in DOMAIN o : y[1] \in DOMAIN db.buckets
    BY <1>1, <1>2, <1>4 DEF DbOK
<1> QED
    BY <1>3, <1>4, <1>5, <1>6, <1>7, <1>8, ObjectsChanged DEF was

LEMMA ObjectGoneOK ==
    ASSUME DbOK(db), ConfigOK(db), NEW k, ObjectGone(k)
    PROVE  DbOK(db') /\ ConfigOK(db') /\ Kept(db, db') /\ Authorized(k)
<1> DEFINE x == <<k.bucket, k.key>>
           o == Without(db.objects, {x})
           was == ValueAt(db.objects, x)
<1>2. db' = [db EXCEPT !.objects = o] /\ DeleteGrant(k, x)
    BY DEF ObjectGone
<1> HIDE DEF x
<1>3. /\ DOMAIN o = DOMAIN db.objects \ {x} /\ o \in [DOMAIN o -> RowType]
      /\ \A y \in DOMAIN o : o[y] = db.objects[y]
    BY DEF Without, Restrict, DbOK
<1> HIDE DEF o, was
<1>4. \A y \in DOMAIN db.objects \cup DOMAIN o : y # x => ValueAt(o, y) = ValueAt(db.objects, y)
    BY <1>3 DEF ValueAt
<1>5. ValueAt(o, x) = None
    BY <1>3 DEF ValueAt
<1>7. ObjectGrant(k, x, was, None)
    BY <1>2 DEF ObjectGrant
<1>8. DOMAIN o \subseteq Buckets \X Keys /\ \A y \in DOMAIN o : y[1] \in DOMAIN db.buckets
    BY <1>3 DEF DbOK
<1> QED
    BY <1>2, <1>3, <1>4, <1>5, <1>7, <1>8, ObjectsChanged DEF was

LEMMA ObjectLockedOK ==
    ASSUME DbOK(db), ConfigOK(db), NEW k, ObjectLocked(k)
    PROVE  DbOK(db') /\ ConfigOK(db') /\ Kept(db, db') /\ Authorized(k)
<1> DEFINE x == <<k.bucket, k.key>>
           was == db.objects[x]
<1>1. x \in DOMAIN db.objects /\ x[1] = k.bucket /\ x[2] = k.key /\ was \in RowType
    BY DEF ObjectLocked, DbOK
<1>2. \E row \in RowType : db' = [db EXCEPT !.objects = [@ EXCEPT ![x] = row]] /\ ObjectGrant(k, x, was, row)
    <2>1. ASSUME NEW mode \in {"GOVERNANCE", "COMPLIANCE"}, db' = [db EXCEPT !.objects[x] = [@ EXCEPT !.mode = mode]],
                 Granted(k, {"PutObjectRetention"}, k.bucket, k.key)
          PROVE  \E row \in RowType : db' = [db EXCEPT !.objects = [@ EXCEPT ![x] = row]] /\ ObjectGrant(k, x, was, row)
        <3> DEFINE row == [was EXCEPT !.mode = mode]
        <3>1. row \in RowType
            BY <1>1, <2>1 DEF RowType
        <3>2. db' = [db EXCEPT !.objects = [@ EXCEPT ![x] = row]]
            BY <2>1
        <3>3. ObjectGrant(k, x, was, row)
            BY <1>1, <2>1 DEF ObjectGrant
        <3> HIDE DEF row
        <3> QED
            BY <3>1, <3>2, <3>3
    <2>2. ASSUME NEW hold \in BOOLEAN, db' = [db EXCEPT !.objects[x] = [@ EXCEPT !.hold = hold]],
                 Granted(k, {"PutObjectLegalHold"}, k.bucket, k.key)
          PROVE  \E row \in RowType : db' = [db EXCEPT !.objects = [@ EXCEPT ![x] = row]] /\ ObjectGrant(k, x, was, row)
        <3> DEFINE row == [was EXCEPT !.hold = hold]
        <3>1. row \in RowType
            BY <1>1, <2>2 DEF RowType
        <3>2. db' = [db EXCEPT !.objects = [@ EXCEPT ![x] = row]]
            BY <2>2
        <3>3. ObjectGrant(k, x, was, row)
            BY <1>1, <2>2 DEF ObjectGrant
        <3> HIDE DEF row
        <3> QED
            BY <3>1, <3>2, <3>3
    <2> QED
        BY <2>1, <2>2 DEF ObjectLocked
<1>3. PICK row \in RowType : db' = [db EXCEPT !.objects = [@ EXCEPT ![x] = row]] /\ ObjectGrant(k, x, was, row)
    BY <1>2
<1> DEFINE o == [db.objects EXCEPT ![x] = row]
<1>4. db' = [db EXCEPT !.objects = o]
    BY <1>3
<1> HIDE DEF x
<1>5. /\ DOMAIN o = DOMAIN db.objects /\ o[x] = row /\ o \in [DOMAIN o -> RowType]
      /\ \A y \in DOMAIN db.objects : y # x => o[y] = db.objects[y]
    BY <1>1 DEF DbOK
<1> HIDE DEF o
<1>6. \A y \in DOMAIN db.objects \cup DOMAIN o : y # x => ValueAt(o, y) = ValueAt(db.objects, y)
    BY <1>5 DEF ValueAt
<1>7. ValueAt(o, x) = row /\ ValueAt(db.objects, x) = was
    BY <1>1, <1>5 DEF ValueAt
<1>8. DOMAIN o \subseteq Buckets \X Keys /\ \A y \in DOMAIN o : y[1] \in DOMAIN db.buckets
    BY <1>5 DEF DbOK
<1> HIDE DEF was
<1>9. ObjectGrant(k, x, ValueAt(db.objects, x), ValueAt(o, x))
    BY <1>3, <1>7, Zenon
<1> QED
    BY <1>4, <1>5, <1>6, <1>8, <1>9, ObjectsChanged

(* An upload is created under an id that no other has had.                   *)
LEMMA UploadCreatedOK ==
    ASSUME DbOK(db), ConfigOK(db), NEW k, UploadCreated(k)
    PROVE  DbOK(db') /\ ConfigOK(db') /\ Kept(db, db') /\ Authorized(k)
<1> DEFINE x == <<k.bucket, k.key>>
           row == [place |-> x, from |-> {}]
           id == db.issued + 1
           u == Bind(db.uploads, id, row)
<1>1. /\ k.bucket \in DOMAIN db.buckets /\ k.key \in Keys /\ UploadGrant(k, {"PutObject"})
      /\ db' = [db EXCEPT !.uploads = u, !.issued = @ + 1]
    BY DEF UploadCreated
<1>2. x \in Buckets \X Keys /\ x[1] = k.bucket
    BY <1>1 DEF DbOK
<1>3. row \in UploadRows /\ row.place[1] \in DOMAIN db.buckets
    BY <1>1, <1>2 DEF UploadRows
<1>4. db.issued \in Nat /\ id \in Nat /\ id \notin DOMAIN db.uploads
    BY DEF DbOK
<1>5. /\ DOMAIN db' = DbFields /\ db'.buckets = db.buckets /\ db'.gen = db.gen /\ db'.tenants = db.tenants
      /\ db'.config = db.config /\ db'.objects = db.objects /\ db'.uploads = u /\ db'.issued = id
    <2> HIDE DEF u
    <2> QED
        BY <1>1 DEF DbOK, DbFields
<1> HIDE DEF row
<1>6. /\ DOMAIN u = DOMAIN db.uploads \cup {id} /\ u[id] = row
      /\ \A y \in DOMAIN db.uploads : u[y] = db.uploads[y]
    BY <1>4 DEF Bind
<1>7. u \in [DOMAIN u -> UploadRows]
    BY <1>3 DEF Bind, DbOK
<1> HIDE DEF u
<1>8. DOMAIN u \subseteq 1 .. id
    BY <1>4, <1>6 DEF DbOK
<1>9. \A y \in DOMAIN u : u[y].place[1] \in DOMAIN db.buckets
    BY <1>3, <1>6 DEF DbOK
<1> HIDE DEF id
<1>10. DbOK(db')
    BY <1>4, <1>5, <1>7, <1>8, <1>9 DEF DbOK
<1>11. ConfigOK(db')
    BY <1>5 DEF ConfigOK
<1>12. UploadsAuthorized(k)
    BY <1>1, <1>5, <1>6 DEF UploadsAuthorized, row
<1>13. Authorized(k)
    BY <1>5, <1>12, SameTables DEF Authorized
<1> QED
    BY <1>5, <1>10, <1>11, <1>13, KeptAll

(* The upload that the request names changes, or goes.                       *)
LEMMA UploadsChanged ==
    ASSUME DbOK(db), ConfigOK(db), NEW k, NEW u, db' = [db EXCEPT !.uploads = u],
           DOMAIN u \subseteq DOMAIN db.uploads, u \in [DOMAIN u -> UploadRows],
           \A y \in DOMAIN u : u[y].place = db.uploads[y].place, UploadsAuthorized(k)
    PROVE  DbOK(db') /\ ConfigOK(db') /\ Kept(db, db') /\ Authorized(k)
<1>1. /\ DOMAIN db' = DbFields /\ db'.buckets = db.buckets /\ db'.gen = db.gen /\ db'.tenants = db.tenants
      /\ db'.config = db.config /\ db'.objects = db.objects /\ db'.uploads = u /\ db'.issued = db.issued
    BY DEF DbOK, DbFields
<1>2. DbOK(db')
    BY <1>1 DEF DbOK
<1>3. ConfigOK(db')
    BY <1>1 DEF ConfigOK
<1>4. Authorized(k)
    BY <1>1, SameTables DEF Authorized
<1> QED
    BY <1>1, <1>2, <1>3, <1>4, KeptAll

LEMMA PartAddedOK ==
    ASSUME DbOK(db), ConfigOK(db), NEW k, PartAdded(k)
    PROVE  DbOK(db') /\ ConfigOK(db') /\ Kept(db, db') /\ Authorized(k)
<1>1. PICK from \in Buckets \X Keys :
        /\ k.upload \in DOMAIN db.uploads
        /\ db' = [db EXCEPT !.uploads[k.upload].from = @ \cup {from}]
        /\ UploadGrant(k, {"PutObject"})
        /\ from # <<k.bucket, k.key>> => Granted(k, {"GetObject"}, from[1], from[2])
    BY DEF PartAdded
<1> DEFINE id == k.upload
           row == [db.uploads[id] EXCEPT !.from = @ \cup {from}]
           u == [db.uploads EXCEPT ![id] = row]
<1>2. row \in UploadRows /\ row.place = db.uploads[id].place
    <2>1. db.uploads[id] \in UploadRows
        BY <1>1 DEF DbOK
    <2> QED
        BY <2>1 DEF UploadRows
<1>3. db' = [db EXCEPT !.uploads = u]
    BY <1>1
<1>4. row = [db.uploads[id] EXCEPT !.from = @ \cup {from}]
    OBVIOUS
<1> HIDE DEF row
<1>5. /\ DOMAIN u = DOMAIN db.uploads /\ u[id] = row
      /\ \A y \in DOMAIN db.uploads : y # id => u[y] = db.uploads[y]
    BY <1>1
<1>6. u \in [DOMAIN u -> UploadRows]
    BY <1>2 DEF DbOK
<1> HIDE DEF u
<1>7. db'.uploads = u
    BY <1>3 DEF DbOK, DbFields
<1>8. UploadsAuthorized(k)
    BY <1>1, <1>4, <1>5, <1>7 DEF UploadsAuthorized
<1> QED
    BY <1>2, <1>3, <1>5, <1>6, <1>8, UploadsChanged

LEMMA UploadGoneOK ==
    ASSUME DbOK(db), ConfigOK(db), NEW k, UploadGone(k)
    PROVE  DbOK(db') /\ ConfigOK(db') /\ Kept(db, db') /\ Authorized(k)
<1> DEFINE u == Without(db.uploads, {k.upload})
<1>1. db' = [db EXCEPT !.uploads = u] /\ UploadGrant(k, {"AbortMultipartUpload"})
    BY DEF UploadGone
<1>2. /\ DOMAIN u = DOMAIN db.uploads \ {k.upload} /\ u \in [DOMAIN u -> UploadRows]
      /\ \A y \in DOMAIN u : u[y] = db.uploads[y]
    BY DEF Without, Restrict, DbOK
<1> HIDE DEF u
<1>3. db'.uploads = u
    BY <1>1 DEF DbOK, DbFields
<1>4. UploadGrant(k, {"PutObject", "AbortMultipartUpload"})
    BY <1>1, GrantedMore DEF UploadGrant
<1>5. UploadsAuthorized(k)
    BY <1>2, <1>3, <1>4 DEF UploadsAuthorized
<1> QED
    BY <1>1, <1>2, <1>5, UploadsChanged

LEMMA UploadDoneOK ==
    ASSUME DbOK(db), ConfigOK(db), NEW k, UploadDone(k)
    PROVE  DbOK(db') /\ ConfigOK(db') /\ Kept(db, db') /\ Authorized(k)
<1> DEFINE id == k.upload
           x == db.uploads[id].place
           row == Row(db.uploads[id].from, FALSE)
           o == Bind(db.objects, x, row)
           u == Without(db.uploads, {id})
           was == ValueAt(db.objects, x)
<1>1. id \in DOMAIN db.uploads /\ k.op = "CompleteMultipartUpload" /\ UploadGrant(k, {"PutObject"})
    BY DEF UploadDone
<1>2. db' = [db EXCEPT !.objects = o, !.uploads = u]
    BY DEF UploadDone
<1>3. /\ x \in Buckets \X Keys /\ x[1] \in DOMAIN db.buckets /\ row \in RowType
      /\ db.uploads[id].from \in SUBSET (Buckets \X Keys)
    <2>1. db.uploads[id] \in UploadRows /\ db.uploads[id].place[1] \in DOMAIN db.buckets
        BY <1>1 DEF DbOK
    <2>2. db.uploads[id].place \in Buckets \X Keys /\ db.uploads[id].from \in SUBSET (Buckets \X Keys)
        BY <2>1 DEF UploadRows
    <2> QED
        BY <2>1, <2>2, RowFields
<1>4. ObjectGrant(k, x, was, row)
    BY <1>1 DEF ObjectGrant
<1> HIDE DEF x, row
<1>5. /\ DOMAIN o = DOMAIN db.objects \cup {x} /\ o[x] = row /\ o \in [DOMAIN o -> RowType]
      /\ \A y \in DOMAIN db.objects : y # x => o[y] = db.objects[y]
    BY <1>3 DEF Bind, DbOK
<1>6. /\ DOMAIN u = DOMAIN db.uploads \ {id} /\ u \in [DOMAIN u -> UploadRows]
      /\ \A y \in DOMAIN u : u[y] = db.uploads[y]
    BY DEF Without, Restrict, DbOK
<1> HIDE DEF o, u, was
<1>7. /\ DOMAIN db' = DbFields /\ db'.buckets = db.buckets /\ db'.gen = db.gen /\ db'.tenants = db.tenants
      /\ db'.config = db.config /\ db'.objects = o /\ db'.uploads = u /\ db'.issued = db.issued
    BY <1>2 DEF DbOK, DbFields
<1>8. DOMAIN o \subseteq Buckets \X Keys /\ \A y \in DOMAIN o : y[1] \in DOMAIN db.buckets
    BY <1>3, <1>5 DEF DbOK
<1>9. DOMAIN u \subseteq 1 .. db.issued /\ \A y \in DOMAIN u : u[y].place[1] \in DOMAIN db.buckets
    BY <1>6 DEF DbOK
<1>10. DbOK(db')
    BY <1>5, <1>6, <1>7, <1>8, <1>9 DEF DbOK
<1>11. ConfigOK(db')
    BY <1>7 DEF ConfigOK
<1>12. ObjectsAuthorized(k)
    <2>1. ASSUME NEW y \in DOMAIN db.objects \cup DOMAIN o, ValueAt(db.objects, y) # ValueAt(o, y)
          PROVE  ObjectGrant(k, y, ValueAt(db.objects, y), ValueAt(o, y))
        <3>1. y = x
            BY <1>5, <2>1 DEF ValueAt
        <3>2. ValueAt(o, x) = row
            BY <1>5 DEF ValueAt
        <3> QED
            BY <1>4, <3>1, <3>2 DEF was
    <2> QED
        BY <1>7, <2>1 DEF ObjectsAuthorized
<1>13. UploadsAuthorized(k)
    <2>1. UploadGrant(k, {"PutObject", "AbortMultipartUpload"})
        BY <1>1, GrantedMore DEF UploadGrant
    <2> QED
        BY <1>6, <1>7, <2>1 DEF UploadsAuthorized
<1>14. Authorized(k)
    BY <1>7, <1>12, <1>13, SameTables DEF Authorized
<1> QED
    BY <1>7, <1>10, <1>11, <1>14, KeptAll

(* Whatever a step does to the tables, they stay what they should be, and it *)
(* was authorized.                                                           *)
LEMMA EffectOK ==
    ASSUME DbOK(db), ConfigOK(db), NEW k, Effect(k)
    PROVE  DbOK(db') /\ ConfigOK(db') /\ Kept(db, db') /\ (db' # db => Authorized(k))
<1>1. CASE Reads
    <2>1. db' = db
        BY <1>1 DEF Reads
    <2>2. DbOK(db') /\ ConfigOK(db')
        BY <2>1, Zenon
    <2> QED
        BY <2>1, <2>2, KeptAll
<1> QED
    BY <1>1, BucketCreatedOK, BucketGoneOK, VersioningSetOK, TenantsChangedOK, ConfigPutOK, ConfigGoneOK,
       ObjectWrittenOK, ObjectGoneOK, ObjectLockedOK, UploadCreatedOK, PartAddedOK, UploadGoneOK, UploadDoneOK DEF Effect

-----------------------------------------------------------------------------
(* The handlers, one by one.                                                 *)
LEMMA S3HandlerStep ==
    ASSUME TasksOK, DbOK(db), ConfigOK(db), NEW t \in Tasks, S3Handler(t)
    PROVE  Becomes(t) /\ Effect(task[t])
<1>1. CASE CreateBucket(t) \/ DeleteBucket(t)
    BY <1>1, BucketStepOK, TellStepOK DEF CreateBucket, DeleteBucket, BucketStep, TellStep
<1>2. CASE PutBucketVersioning(t)
    BY <1>2, BucketStepOK DEF BucketStep
<1>3. CASE SettingsStep(t)
    BY <1>3, SettingsStepOK
<1>4. CASE Looks(t)
    BY <1>4, LooksStep
<1>5. CASE PutObject(t)
    BY <1>5, PutObjectStep, TellStepOK DEF PutObject, TellStep
<1>6. CASE DeleteObject(t)
    BY <1>6, DeleteStepOK, TellStepOK DEF DeleteObject, DeleteStep, TellStep
<1>7. CASE DeleteObjects(t)
    <2>1. CASE DeleteStep(t)
        BY <2>1, DeleteStepOK
    <2>2. CASE /\ Serving(t, "DeleteObjects")
               /\ \E k \in task[t].keys :
                    Become(t, [task[t] EXCEPT !.key = k, !.keys = @ \ {k}, !.pc = "check",
                                              !.asks = <<Ask("DeleteObject", task[t].bucket, k)>>])
               /\ Reads
        BY <2>2, NextKeyStep DEF Effect
    <2>3. CASE Serving(t, "DeleteObjects") /\ Continue(t, "done") /\ Reads
        BY <2>3, ContinueEnds DEF Effect, Serving, At
    <2> QED
        BY <1>7, <2>1, <2>2, <2>3 DEF DeleteObjects, DeleteStep
<1>8. CASE CopyObject(t)
    BY <1>8, CopyObjectStep, TellStepOK DEF CopyObject, TellStep
<1>9. CASE PutObjectTagging(t) \/ DeleteObjectTagging(t)
    BY <1>9, RetagStep DEF PutObjectTagging, DeleteObjectTagging, Retags
<1>10. CASE PutObjectRetention(t) \/ PutObjectLegalHold(t)
    BY <1>10, RetentionStep, LegalHoldStep
<1>11. CASE UploadStep(t)
    BY <1>11, UploadStepOK
<1>12. CASE CompleteMultipartUpload(t)
    BY <1>12, UploadStepOK, TellStepOK DEF CompleteMultipartUpload, UploadStep, TellStep
<1> QED
    BY <1>1, <1>2, <1>3, <1>4, <1>5, <1>6, <1>7, <1>8, <1>9, <1>10, <1>11, <1>12
       DEF S3Handler, SettingsStep, Looks, UploadStep

LEMMA AdminHandlerStep ==
    ASSUME TasksOK, DbOK(db), ConfigOK(db), NEW t \in Tasks, AdminHandler(t)
    PROVE  Becomes(t) /\ Effect(task[t])
<1>1. CASE Looks(t)
    BY <1>1, LooksStep
<1>2. CASE AdminCreateBucket(t) \/ AdminSetBucketVersioning(t)
    BY <1>2, BucketStepOK DEF BucketStep
<1>3. CASE AdminDeleteBucket(t)
    BY <1>3, BucketStepOK, EnsureStep DEF AdminDeleteBucket, BucketStep, Serving, At
<1>4. CASE AdminGetStorageUsage(t)
    BY <1>4, UsageStep
<1>5. CASE AdminCreateTenant(t) \/ AdminDeleteTenant(t)
    BY <1>5, CreateTenantStep, DeleteTenantStep
<1>6. CASE AdminDeleteObject(t)
    BY <1>6, DeleteStepOK, EnsureStep DEF AdminDeleteObject, DeleteStep, Serving, At
<1>7. CASE AdminDeleteObjects(t)
    <2>1. CASE Serving(t, "delete_objects") /\ EnsureBucketBelongsToTenant(t)
        BY <2>1, EnsureStep DEF Serving, At
    <2>2. CASE /\ Scoped(t, "delete_objects")
               /\ \E k \in task[t].keys : Become(t, [task[t] EXCEPT !.key = k, !.keys = @ \ {k}, !.pc = "delete"])
               /\ Reads
        BY <2>2, NextAdminKeyStep DEF Effect
    <2>3. CASE DeleteStep(t)
        BY <2>3, DeleteStepOK
    <2>4. CASE Scoped(t, "delete_objects") /\ Continue(t, "done") /\ Reads
        BY <2>4, ContinueEnds DEF Effect, Scoped, At
    <2> QED
        BY <1>7, <2>1, <2>2, <2>3, <2>4 DEF AdminDeleteObjects, DeleteStep
<1>8. CASE AdminCreateBucketNotification(t) \/ AdminDeleteBucketNotification(t)
    BY <1>8, NotificationStep
<1>9. CASE MaybeAlertAudit(t) \/ AuditMiddleware(t)
    BY <1>9, AlertStep, AuditMiddlewareStep
<1> QED
    BY <1>1, <1>2, <1>3, <1>4, <1>5, <1>6, <1>7, <1>8, <1>9 DEF AdminHandler, Looks

(* A step is one request's, or the process stops.                            *)
LEMMA NextStep ==
    ASSUME Inv, Next
    PROVE  (\E t \in Tasks : Becomes(t) /\ Effect(task[t])) \/ Crash
<1>1. ASSUME NEW t \in Tasks, Arrive(t) \/ CheckAuthorization(t) \/ S3Handler(t) \/ AdminHandler(t) \/ Respond(t)
      PROVE  Becomes(t) /\ Effect(task[t])
    BY <1>1, ArriveStep, CheckStep, S3HandlerStep, AdminHandlerStep, RespondStep DEF Inv
<1> QED
    BY <1>1 DEF Next

-----------------------------------------------------------------------------
(* The invariant.                                                            *)
LEMMA InitInv == Init => Inv
<1> SUFFICES ASSUME Init PROVE Inv
    OBVIOUS
<1>1. db = EmptyDb /\ task = [t \in Tasks |-> Idle] /\ ops \subseteq S3Ops \cup AdminOps
    BY WorkloadsAssumption DEF Init
<1>2. /\ DOMAIN db = DbFields /\ db.tenants = {} /\ db.buckets = <<>> /\ db.config = <<>> /\ db.objects = <<>>
      /\ db.uploads = <<>> /\ db.gen = 0 /\ db.issued = 0
    BY <1>1 DEF EmptyDb, DbFields
<1>3. DOMAIN <<>> = {} /\ \A T : <<>> \in [{} -> T]
    OBVIOUS
<1>4. DbOK(db) /\ ConfigOK(db)
    BY <1>2, <1>3 DEF DbOK, ConfigOK
<1>5. TasksOK
    BY <1>1, IdleOK DEF TasksOK
<1>6. TenantsOK
    <2>1. \A t \in Tasks : task[t].since = 0
        BY <1>1, IdleOK
    <2> QED
        BY <1>2, <1>3, <2>1 DEF TenantsOK
<1> QED
    BY <1>1, <1>4, <1>5, <1>6 DEF Inv

LEMMA TenantsStay ==
    ASSUME Inv, NEW t \in Tasks, Becomes(t), Kept(db, db')
    PROVE  TenantsOK'
<1> SUFFICES ASSUME NEW s \in Tasks
             PROVE  /\ task'[s].since \in Nat /\ task'[s].since <= db'.gen
                    /\ task'[s].op = "delete_tenant" /\ task'[s].pc = "handle" /\ task'[s].call = 2 =>
                        \A b \in DOMAIN db'.buckets :
                            db'.buckets[b].tenant = task'[s].tenant => db'.buckets[b].gen > task'[s].since
    BY DEF TenantsOK
<1>1. db.gen \in Nat /\ db'.gen \in Nat /\ db.gen <= db'.gen
    BY DEF Inv, DbOK, Kept
<1>2. /\ task[s].since \in Nat /\ task[s].since <= db.gen /\ task[t].since \in Nat /\ task[t].since <= db.gen
      /\ task[s].op = "delete_tenant" /\ task[s].pc = "handle" /\ task[s].call = 2 =>
            \A b \in DOMAIN db.buckets : db.buckets[b].tenant = task[s].tenant => db.buckets[b].gen > task[s].since
    BY DEF Inv, TenantsOK
<1>3. CASE s # t
    <2>1. task'[s] = task[s]
        BY <1>3 DEF Becomes, Inv, TasksOK
    <2> QED
        BY <1>1, <1>2, <2>1 DEF Kept
<1>4. CASE s = t
    <2> DEFINE n == task'[t]
    <2>1. /\ n.since \in {task[t].since, 0, db.gen}
          /\ n.op = "delete_tenant" /\ n.pc = "handle" /\ n.call = 2 =>
                n.since = db.gen /\ \A b \in DOMAIN db.buckets : db.buckets[b].tenant # n.tenant
        BY DEF Becomes, Counts
    <2> HIDE DEF n
    <2>2. n.since \in Nat /\ n.since <= db'.gen
        BY <1>1, <1>2, <2>1
    <2>3. ASSUME n.op = "delete_tenant", n.pc = "handle", n.call = 2, NEW b \in DOMAIN db'.buckets,
                 db'.buckets[b].tenant = n.tenant
          PROVE  db'.buckets[b].gen > n.since
        BY <1>1, <2>1, <2>3 DEF Kept
    <2> QED
        BY <1>4, <2>2, <2>3 DEF n
<1> QED
    BY <1>3, <1>4

LEMMA NextInv == Inv /\ [Next]_vars => Inv'
<1> SUFFICES ASSUME Inv, [Next]_vars PROVE Inv'
    OBVIOUS
<1>1. CASE UNCHANGED vars
    BY <1>1, Zenon DEF vars, Inv, TasksOK, TenantsOK
<1>2. CASE Next
    <2>1. ops' = ops
        BY <1>2 DEF Next
    <2>2. ASSUME NEW t \in Tasks, Becomes(t), Effect(task[t]) PROVE Inv'
        <3>1. DbOK(db') /\ ConfigOK(db') /\ Kept(db, db')
            BY <2>2, EffectOK DEF Inv
        <3>2. TasksOK'
            BY <2>2 DEF Becomes, Inv, TasksOK
        <3>3. TenantsOK'
            BY <2>2, <3>1, TenantsStay
        <3> QED
            BY <2>1, <3>1, <3>2, <3>3 DEF Inv
    <2>3. CASE Crash
        <3>1. db' = db /\ task' = [t \in Tasks |-> Idle]
            BY <2>3 DEF Crash, Reads
        <3>2. DbOK(db') /\ ConfigOK(db')
            BY <3>1, Zenon DEF Inv
        <3>3. TasksOK'
            BY <3>1, IdleOK DEF TasksOK
        <3>4. TenantsOK'
            <4>1. \A t \in Tasks : task'[t].since = 0 /\ task'[t].pc = "idle"
                BY <3>1, IdleOK DEF Idle
            <4>2. db'.gen \in Nat
                BY <3>2 DEF DbOK
            <4> QED
                BY <4>1, <4>2 DEF TenantsOK
        <3> QED
            BY <2>1, <3>2, <3>3, <3>4 DEF Inv
    <2> QED
        BY <1>2, <2>2, <2>3, NextStep
<1> QED
    BY <1>1, <1>2

(* Requests of both APIs, interleaved closure by closure and cut short by    *)
(* crashes, keep the tables and themselves in good order.                    *)
THEOREM Invariance == Spec => []Inv
BY InitInv, NextInv, PTL DEF Spec

(* The tables have their types, and no object, upload or rule list is there  *)
(* without its bucket or with an id twice.                                   *)
THEOREM TypeCorrect == Spec => []TypeOK
<1>1. Inv => TypeOK
    <2> SUFFICES ASSUME Inv PROVE TypeOK
        OBVIOUS
    <2>1. \A b \in DOMAIN db.buckets :
            /\ b \in Buckets /\ db.buckets[b].gen \in 1 .. db.gen
            /\ db.buckets[b].versioning \in {"Unversioned", "Enabled", "Suspended"}
        BY DEF Inv, DbOK, BucketRows
    <2>2. \A x \in DOMAIN db.objects : x[1] \in DOMAIN db.buckets /\ db.objects[x] \in RowType
        BY DEF Inv, DbOK
    <2> QED
        BY <2>1, <2>2 DEF Inv, DbOK, ConfigOK, TypeOK
<1> QED
    BY <1>1, Invariance, PTL

(* However the two closures of a put, the deletion of the bucket and its     *)
(* re-creation interleave, every setting was inserted since its bucket was   *)
(* created, and none outlives it.                                            *)
THEOREM SettingsDieWithBucket == Spec => []ConfigDiesWithBucket
<1>1. Inv => ConfigDiesWithBucket
    BY DEF Inv, ConfigOK, ConfigDiesWithBucket
<1> QED
    BY <1>1, Invariance, PTL

(* What a request has told of itself is what is due.                         *)
Events == {"audit", "audit_lost", "ObjectCreated:Put", "ObjectCreated:Copy", "ObjectCreated:CompleteMultipartUpload",
           "ObjectRemoved:Delete", "ObjectRemoved:DeleteMarkerCreated"}

LEMMA DueIsKnown ==
    ASSUME NEW k
    PROVE  Due(k) \subseteq Seq(Events) /\ Due(k) # {}
<1>1. {<<>>} \subseteq Seq(Events) /\ {<<>>} # {}
    OBVIOUS
<1>2. \A e \in Events : {<<e>>} \subseteq Seq(Events) /\ {<<e>>} # {}
    OBVIOUS
<1>3. Audits \subseteq Events /\ Audits # {}
    BY DEF Audits, Events
<1>4. {<<a>> : a \in Audits} \subseteq Seq(Events) /\ {<<a>> : a \in Audits} # {}
    BY <1>2, <1>3
<1>5. ASSUME NEW e \in Events PROVE {<<a, e>> : a \in Audits} \subseteq Seq(Events) /\ {<<a, e>> : a \in Audits} # {}
    <2>1. \A a \in Events : <<a, e>> \in Seq(Events)
        OBVIOUS
    <2> QED
        BY <1>3, <2>1
<1>6. /\ "ObjectCreated:Put" \in Events /\ "ObjectCreated:Copy" \in Events
      /\ "ObjectCreated:CompleteMultipartUpload" \in Events /\ "ObjectRemoved:Delete" \in Events
      /\ "ObjectRemoved:DeleteMarkerCreated" \in Events
    BY DEF Events
<1>7. \/ Due(k) = {<<>>} \/ Due(k) = {<<a>> : a \in Audits}
      \/ Due(k) = {<<"ObjectCreated:Put">>} \/ Due(k) = {<<"ObjectCreated:Copy">>}
      \/ Due(k) = {<<"ObjectCreated:CompleteMultipartUpload">>}
      \/ Due(k) = {<<a, "ObjectRemoved:Delete">> : a \in Audits}
      \/ Due(k) = {<<a, "ObjectRemoved:DeleteMarkerCreated">> : a \in Audits}
    BY DEF Due
<1> QED
    BY <1>1, <1>2, <1>4, <1>5, <1>6, <1>7, Zenon

LEMMA PrefixFacts ==
    ASSUME NEW E, NEW s \in Seq(E)
    PROVE  IsPrefix(<<>>, s) /\ IsPrefix(s, s)
<1>1. Len(<<>>) = 0 /\ Len(s) \in Nat
    OBVIOUS
<1>2. SubSeq(<<>>, 1, 0) = SubSeq(s, 1, 0)
    OBVIOUS
<1> QED
    BY <1>1, <1>2 DEF IsPrefix

LEMMA AuditFirst ==
    ASSUME NEW a, NEW e
    PROVE  IsPrefix(<<a>>, <<a, e>>)
<1> DEFINE r == <<a>>
           s == <<a, e>>
<1>1. r \in Seq({a, e}) /\ s \in Seq({a, e}) /\ Len(r) = 1 /\ Len(s) = 2 /\ r[1] = a /\ s[1] = a
    OBVIOUS
<1> HIDE DEF r, s
<1>2. SubSeq(r, 1, 1) = SubSeq(s, 1, 1)
    BY <1>1
<1>3. IsPrefix(r, s)
    BY <1>1, <1>2 DEF IsPrefix
<1> QED
    BY <1>3 DEF r, s

LEMMA ToldMatches ==
    ASSUME Inv, NEW t \in Tasks
    PROVE  LET k == task[t]
           IN  /\ \E due \in Due(k) : IsPrefix(k.told, due)
               /\ At(t, "done") /\ ~Unlogged(t) => k.told \in Due(k)
               /\ k.told # <<>> /\ k.op \in S3Ops \ {"CompleteMultipartUpload"} => k.named = k.at
               /\ k.warned # {} /\ k.op # "DeleteObjects" => k.did = <<>>
<1> DEFINE k == task[t]
<1>1. TaskOK(k) /\ Reported(k) /\ Names(k, k.pc)
    BY DEF Inv, TasksOK, TaskOK
<1>2. /\ k.told # <<>> /\ k.op \in S3Ops \ {"CompleteMultipartUpload"} => k.named = k.at
      /\ k.warned # {} /\ k.op # "DeleteObjects" => k.did = <<>>
    BY <1>1 DEF Reported, Names
<1>3. ASSUME k.told = <<>> PROVE \E due \in Due(k) : IsPrefix(k.told, due)
    BY <1>3, DueIsKnown, PrefixFacts
<1>4. ASSUME k.told \in Due(k) PROVE \E due \in Due(k) : IsPrefix(k.told, due)
    BY <1>4, DueIsKnown, PrefixFacts
<1>5. CASE k.pc # "done"
    <2>1. ASSUME k.told # <<>> PROVE \E due \in Due(k) : IsPrefix(k.told, due)
        <3>1. k.pc = "emit" /\ k.op = "DeleteObject" /\ k.told \in Audited /\ k.did \in {<<"delete">>, <<"marker">>}
            BY <1>1, <1>5, <2>1 DEF Reported
        <3>2. k.op \in S3Ops
            BY <3>1 DEF S3Ops, ObjectOps
        <3>3. PICK a \in Audits : k.told = <<a>>
            BY <3>1 DEF Audited
        <3>4. PICK e : Due(k) = {<<c, e>> : c \in Audits}
            BY <3>1, <3>2, DueOf
        <3>5. <<a, e>> \in Due(k)
            BY <3>4
        <3>6. IsPrefix(k.told, <<a, e>>)
            BY <3>3, AuditFirst
        <3> QED
            BY <3>5, <3>6
    <2> QED
        BY <1>2, <1>3, <1>5, <2>1 DEF At
<1>6. CASE k.pc = "done" /\ k.op \in S3Ops
    BY <1>1, <1>2, <1>4, <1>6 DEF Reported
<1>7. CASE k.pc = "done" /\ k.op \in AdminOps
    <2>0. k.op \notin {"CreateBucket", "DeleteBucket", "PutObject", "CopyObject", "CompleteMultipartUpload",
                       "DeleteObject"}
        BY <1>7 DEF AdminOps
    <2>1. Due(k) = Audited
        BY <1>7, <2>0 DEF Due, Audited
    <2>2. k.told \in {<<>>} \cup Audited
        BY <1>1, <1>7 DEF Reported
    <2>3. ~Unlogged(t) => k.told \in Due(k)
        BY <1>7, <2>1, <2>2 DEF Unlogged, At
    <2> QED
        BY <1>2, <1>3, <1>4, <2>1, <2>2, <2>3
<1> QED
    BY <1>1, <1>5, <1>6, <1>7 DEF TaskOK

(* The audit log and the subscribers of a bucket hear of a change once the   *)
(* store has made it and before the client does, under the bucket and key    *)
(* that changed (of a completed upload, of the right kind only); a request   *)
(* that was refused has done nothing.                                        *)
THEOREM EventsAreTruthful == Spec => []EventsMatchEffects
<1>1. Inv => EventsMatchEffects
    BY ToldMatches DEF EventsMatchEffects
<1> QED
    BY <1>1, Invariance, PTL

(* The request that changes is the one that acts.                            *)
LEMMA ActorOf ==
    ASSUME Inv, Next, NEW t \in Tasks, db' # db, task'[t] # task[t]
    PROVE  Effect(task[t])
<1>1. ~Crash
    BY DEF Crash, Reads
<1>2. PICK s \in Tasks : Becomes(s) /\ Effect(task[s])
    BY <1>1, NextStep
<1>3. s = t
    BY <1>2 DEF Becomes, Inv, TasksOK
<1> QED
    BY <1>2, <1>3

LEMMA TenantsByTenants ==
    ASSUME DbOK(db), NEW k, Effect(k), db'.tenants # db.tenants
    PROVE  TenantsChanged(k)
<1>1. DOMAIN db = DbFields
    BY DEF DbOK
<1>2. \/ Reads \/ BucketCreated(k) \/ BucketGone(k) \/ VersioningSet(k) \/ ConfigPut(k) \/ ConfigGone(k)
      \/ ObjectWritten(k) \/ ObjectGone(k) \/ ObjectLocked(k)
      \/ UploadCreated(k) \/ PartAdded(k) \/ UploadGone(k) \/ UploadDone(k)
      => db'.tenants = db.tenants
    BY <1>1 DEF Reads, BucketCreated, BucketGone, BucketDeleted, VersioningSet, ConfigPut, ConfigGone, ObjectWritten,
           ObjectGone, ObjectLocked, UploadCreated, PartAdded, UploadGone, UploadDone, DbFields
<1> QED
    BY <1>2 DEF Effect

(* delete_tenant, although it counts the tenant's buckets in one closure and *)
(* deletes the tenant in the next, takes the tenant from no bucket that was  *)
(* there when it counted.                                                    *)
THEOREM TenantsInUseAreKept == Spec => TenantsInUseStay
<1>1. Inv /\ [Next]_vars =>
        [\A t \in Tasks : task[t].op = "delete_tenant" /\ db'.tenants # db.tenants /\ task'[t] # task[t] =>
            \A b \in DOMAIN db.buckets :
                db.buckets[b].tenant = task[t].tenant => db.buckets[b].gen > task[t].since]_vars
    <2> SUFFICES ASSUME Inv, Next, NEW t \in Tasks, task[t].op = "delete_tenant", db'.tenants # db.tenants,
                        task'[t] # task[t], NEW b \in DOMAIN db.buckets, db.buckets[b].tenant = task[t].tenant
                 PROVE  db.buckets[b].gen > task[t].since
        OBVIOUS
    <2>1. Effect(task[t])
        BY ActorOf
    <2>2. TenantsChanged(task[t])
        BY <2>1, TenantsByTenants DEF Inv
    <2>3. task[t].pc = "handle" /\ task[t].call = 2
        BY <2>2 DEF TenantsChanged
    <2> QED
        BY <2>3 DEF Inv, TenantsOK
<1> QED
    BY <1>1, Invariance, PTL DEF Spec, TenantsInUseStay

(* Whatever changes in the tables was granted to the request that changes it *)
(* for just that change, each key of a batch and the source of each copy     *)
(* included; what becomes of an upload, by the permission for the bucket and *)
(* key that the request names beside its id.                                 *)
THEOREM EffectsAreAuthorized == Spec => EffectsWereAuthorized
<1>1. Inv /\ [Next]_vars =>
        [\A t \in Tasks : db' # db /\ task'[t] # task[t] => Authorized(task[t])]_vars
    <2> SUFFICES ASSUME Inv, Next, NEW t \in Tasks, db' # db, task'[t] # task[t]
                 PROVE  Authorized(task[t])
        OBVIOUS
    <2>1. Effect(task[t])
        BY ActorOf
    <2> QED
        BY <2>1, EffectOK DEF Inv
<1> QED
    BY <1>1, Invariance, PTL DEF Spec, EffectsWereAuthorized
=============================================================================
