------------------------------ MODULE Service -------------------------------
(* The S3 API and the admin API on one store: requests of both arrive, are   *)
(* authorized, call the store closure by closure, and are answered; the      *)
(* process may stop at any time, and its database stays.                     *)
EXTENDS BucketAdmin

CONSTANT Workloads  \* sets of operations: those of one behaviour (a bound)

ASSUME WorkloadsAssumption == \A operations \in Workloads : operations \subseteq S3Ops \cup AdminOps

VARIABLE ops        \* the operations requested in this behaviour

vars == <<ops, db, task>>

Creators == {"CreateBucket", "create_bucket"}

(* Bound on the buckets ever created.                                        *)
MayCreate == db.gen + Cardinality({t \in Tasks : task[t].op \in Creators}) < MaxGen

(* Bound on the uploads ever created.                                        *)
MayUpload ==
    db.issued + Cardinality({t \in Tasks : task[t].op = "CreateMultipartUpload"}) < MaxUploads

Batches == {"DeleteObjects", "delete_objects"}
TenantOps == {"create_bucket", "create_tenant", "delete_tenant", "list_buckets", "get_storage_usage",
              "delete_bucket", "delete_object", "delete_objects"}

(* A request arrives, over S3 or at the admin API.  Batches name all keys;   *)
(* an upload is named by any id ever given out or by another, whatever the   *)
(* bucket and the key beside it.                                             *)
Arrive(t) ==
    /\ At(t, "idle")
    /\ \E op \in ops, b \in Buckets :
        \E k \in IF op \in ObjectOps \cup PartOps \cup CopyOps \cup {"delete_object"} THEN Keys ELSE {None},
           source \in IF op \in CopyOps THEN Buckets \X Keys ELSE {None},
           upload \in IF op \in UploadOps THEN 0 .. db.issued ELSE {0},
           tenant \in IF op \in {"create_tenant", "delete_tenant"} THEN Tenants
                      ELSE IF op \in TenantOps THEN Tenants \cup {None} ELSE {None} :
            /\ op \in Creators => MayCreate
            /\ op = "CreateMultipartUpload" => MayUpload
            /\ Become(t, [Idle EXCEPT !.pc = "check", !.op = op, !.bucket = b, !.key = k, !.source = source,
                                      !.upload = upload, !.tenant = tenant, !.keys = IF op \in Batches THEN Keys ELSE {},
                                      !.asks = IF op \in AdminOps THEN <<AuthorizationTarget(op, b, k)>>
                                               ELSE S3Asks(op, b, k, source)])
    /\ Reads

Respond(t) == At(t, "done") /\ ~Unlogged(t) /\ Become(t, Idle) /\ Reads

Crash == task' = [t \in Tasks |-> Idle] /\ Reads

Init ==
    /\ ops \in Workloads
    /\ db = EmptyDb
    /\ task = [t \in Tasks |-> Idle]

Next ==
    /\ \/ \E t \in Tasks : Arrive(t) \/ CheckAuthorization(t) \/ S3Handler(t) \/ AdminHandler(t) \/ Respond(t)
       \/ Crash
    /\ UNCHANGED ops

Spec == Init /\ [][Next]_vars

-----------------------------------------------------------------------------
RowType == [from: SUBSET (Buckets \X Keys), tags: BOOLEAN, mode: {None, "GOVERNANCE", "COMPLIANCE"},
            hold: BOOLEAN, marker: BOOLEAN]

TypeOK ==
    /\ db.tenants \subseteq Tenants
    /\ \A b \in DOMAIN db.buckets :
        /\ b \in Buckets /\ db.buckets[b].gen \in 1 .. db.gen
        /\ db.buckets[b].versioning \in {"Unversioned", "Enabled", "Suspended"}
    /\ \A x \in DOMAIN db.objects : x[1] \in DOMAIN db.buckets /\ db.objects[x] \in RowType
    /\ \A u \in DOMAIN db.uploads : u \in 1 .. db.issued /\ db.uploads[u].place[1] \in DOMAIN db.buckets
    /\ \A x \in DOMAIN db.config : x[1] = "notification" => IsInjective(db.config[x].value)

(* A bucket has only settings that were put since it was created: nothing of *)
(* an earlier bucket of its name is left, and no setting is without a bucket,*)
(* although the put functions check that the bucket exists in one closure    *)
(* and insert in the next (the cascades and foreign keys of init_schema).    *)
(* It does not say that the put had found this bucket and not an earlier one.*)
ConfigDiesWithBucket ==
    \A x \in DOMAIN db.config :
        x[2] \in DOMAIN db.buckets /\ db.config[x].gen = db.buckets[x[2]].gen

(* What a request must have told of what the store did for it, an audit      *)
(* entry that was lost included.  The admin API tells of every request, once *)
(* it is over; neither retagging nor the batch deletes of the S3 API tell    *)
(* anything.                                                                 *)
Due(k) ==
    CASE k.op \in AdminOps -> IF k.pc = "done" THEN {<<a>> : a \in Audits} ELSE {<<>>}
      [] k.op \in {"CreateBucket", "DeleteBucket"} /\ k.did # <<>> -> {<<a>> : a \in Audits}
      [] k.op = "PutObject" /\ k.did = <<"put">> -> {<<"ObjectCreated:Put">>}
      [] k.op = "CopyObject" /\ k.did = <<"copy">> -> {<<"ObjectCreated:Copy">>}
      [] k.op = "CompleteMultipartUpload" /\ k.did = <<"complete">> -> {<<"ObjectCreated:CompleteMultipartUpload">>}
      [] k.op = "DeleteObject" /\ k.did = <<"delete">> -> {<<a, "ObjectRemoved:Delete">> : a \in Audits}
      [] k.op = "DeleteObject" /\ k.did = <<"marker">> -> {<<a, "ObjectRemoved:DeleteMarkerCreated">> : a \in Audits}
      [] OTHER -> {<<>>}

(* The audit log and the subscribers of a bucket are told of a change only   *)
(* once the store has made it, of the change that it was, of the bucket and  *)
(* key where it was, and before the client is; of a request that failed they *)
(* hear nothing but that it was denied, and a single request that was        *)
(* denied, or alerted of, has done nothing.  The event of a completed upload *)
(* is of the right kind, and names the request's key (see CompletesInPlace). *)
EventsMatchEffects ==
    \A t \in Tasks :
        LET k == task[t]
        IN  /\ \E due \in Due(k) : IsPrefix(k.told, due)
            /\ At(t, "done") /\ ~Unlogged(t) => k.told \in Due(k)
            /\ k.told # <<>> /\ k.op \in S3Ops \ {"CompleteMultipartUpload"} => k.named = k.at
            /\ k.warned # {} /\ k.op # "DeleteObjects" => k.did = <<>>

(* A tenant is deleted only if each of its buckets was created after         *)
(* delete_tenant had counted them.                                           *)
TenantsInUseStay ==
    [][\A t \in Tasks : task[t].op = "delete_tenant" /\ db'.tenants # db.tenants /\ task'[t] # task[t] =>
        \A b \in DOMAIN db.buckets :
            db.buckets[b].tenant = task[t].tenant => db.buckets[b].gen > task[t].since]_vars

-----------------------------------------------------------------------------
(* Whether request k was granted one of the actions on a bucket, or a key.   *)
Granted(k, actions, b, key) ==
    k.grants \cap ({Ask("All", b, None)} \cup {Ask(a, b, key) : a \in actions}) # {}

(* To write an object takes PutObject, for a copy GetObject on its source    *)
(* too, or, with the bytes that were read there, a permission on its tags.   *)
WriteGrant(k, x, from) ==
    \/ /\ Granted(k, {"PutObject"}, x[1], x[2])
       /\ k.op = "CopyObject" => \A y \in from : Granted(k, {"GetObject"}, y[1], y[2])
    \/ Granted(k, {"PutObjectTagging", "DeleteObjectTagging"}, x[1], x[2]) /\ from = k.value.from

(* The admin API's batch is checked for the bucket as a whole.               *)
DeleteGrant(k, x) ==
    \/ Granted(k, {"DeleteObject"}, x[1], x[2])
    \/ k.op = "delete_objects" /\ Granted(k, {"DeleteObject"}, x[1], None)

(* A request about an upload is checked for the place it names itself.       *)
UploadGrant(k, actions) == Granted(k, actions, k.bucket, k.key)

(* Row was of x becomes row is, None where there is none: the object goes or *)
(* gets a delete marker; it is written anew, and without locks; one lock is  *)
(* set, or a legal hold cleared; or the upload that the request names is put *)
(* there.                                                                    *)
ObjectGrant(k, x, was, is) ==
    \/ (is = None \/ is = Marker) /\ DeleteGrant(k, x)
    \/ \E from \in SUBSET (Buckets \X Keys), tags \in BOOLEAN : is = Row(from, tags) /\ WriteGrant(k, x, from)
    \/ /\ x \in DOMAIN db.objects /\ Granted(k, {"PutObjectRetention"}, x[1], x[2])
       /\ \E mode \in {"GOVERNANCE", "COMPLIANCE"} : is = [was EXCEPT !.mode = mode]
    \/ /\ x \in DOMAIN db.objects /\ Granted(k, {"PutObjectLegalHold"}, x[1], x[2])
       /\ \E hold \in BOOLEAN : is = [was EXCEPT !.hold = hold]
    \/ /\ k.upload \in DOMAIN db.uploads /\ x = db.uploads[k.upload].place
       /\ is = Row(db.uploads[k.upload].from, FALSE)
       /\ k.op = "CompleteMultipartUpload" /\ UploadGrant(k, {"PutObject"})

ConfigGrants ==
    [cors |-> {"PutBucketCors", "DeleteBucketCors"}, tags |-> {"PutBucketTagging", "DeleteBucketTagging"},
     lifecycle |-> {"PutBucketLifecycleConfiguration", "DeleteBucketLifecycle"}, notification |-> {}]

ValueAt(f, x) == IF x \in DOMAIN f THEN f[x] ELSE None

(* What a change of the tables takes.  Rows that go with their bucket need   *)
(* no more than it does.                                                     *)
BucketsAuthorized(k) ==
    /\ \A b \in DOMAIN db.buckets \ DOMAIN db'.buckets : Granted(k, {"DeleteBucket"}, b, None)
    /\ \A b \in DOMAIN db'.buckets \ DOMAIN db.buckets :
        Granted(k, {"CreateBucket"}, b, None) \/ Granted(k, {"CreateBucket"}, None, None)
    /\ \A b \in DOMAIN db'.buckets \cap DOMAIN db.buckets :
        db'.buckets[b] # db.buckets[b] =>
            \/ Granted(k, {"PutBucketVersioning"}, b, None)
            \/ k.op = "create_bucket" /\ k.bucket = b /\ Granted(k, {"CreateBucket"}, None, None)
    /\ db'.tenants # db.tenants => Granted(k, {}, None, None)

ObjectsAuthorized(k) ==
    \A x \in DOMAIN db.objects \cup DOMAIN db'.objects :
        x[1] \in DOMAIN db'.buckets /\ ValueAt(db.objects, x) # ValueAt(db'.objects, x) =>
            ObjectGrant(k, x, ValueAt(db.objects, x), ValueAt(db'.objects, x))

UploadsAuthorized(k) ==
    /\ \A u \in DOMAIN db'.uploads \ DOMAIN db.uploads :
        db'.uploads[u] = [place |-> <<k.bucket, k.key>>, from |-> {}] /\ UploadGrant(k, {"PutObject"})
    /\ \A u \in DOMAIN db.uploads \ DOMAIN db'.uploads :
        db.uploads[u].place[1] \in DOMAIN db'.buckets =>
            u = k.upload /\ UploadGrant(k, {"PutObject", "AbortMultipartUpload"})
    /\ \A u \in DOMAIN db.uploads \cap DOMAIN db'.uploads :
        db'.uploads[u] # db.uploads[u] =>
            /\ u = k.upload /\ UploadGrant(k, {"PutObject"})
            /\ \E y \in Buckets \X Keys :
                /\ db'.uploads[u] = [db.uploads[u] EXCEPT !.from = @ \cup {y}]
                /\ y # <<k.bucket, k.key>> => Granted(k, {"GetObject"}, y[1], y[2])

SettingsAuthorized(k) ==
    \A x \in DOMAIN db.config \cup DOMAIN db'.config :
        x[2] \in DOMAIN db'.buckets /\ ValueAt(db.config, x) # ValueAt(db'.config, x) =>
            Granted(k, ConfigGrants[x[1]], x[2], None)

Authorized(k) ==
    BucketsAuthorized(k) /\ ObjectsAuthorized(k) /\ UploadsAuthorized(k) /\ SettingsAuthorized(k)

(* Nothing changes without the permission for just that change, checked      *)
(* earlier in the same request: every key a batch deletes, the source of     *)
(* every copy and every copied part, every lock, bucket, tenant and table of *)
(* settings.  (The admin API's batch is checked for the bucket as a whole.)  *)
(* The exception is what becomes of an upload once it exists: for its parts, *)
(* its completion and its removal the request has the permission for the     *)
(* bucket and key that it names, which need not be the upload's.             *)
EffectsWereAuthorized ==
    [][\A t \in Tasks : db' # db /\ task'[t] # task[t] => Authorized(task[t])]_vars

(* What complete_multipart_upload writes, it was authorized to write:        *)
(* "completing multipart upload requires PutObject" (service.rs).            *)
CompletesInPlace ==
    [][\A t \in Tasks : task[t].op = "CompleteMultipartUpload" /\ db' # db /\ task'[t] # task[t] =>
        \A x \in DOMAIN db'.objects :
            ValueAt(db.objects, x) # db'.objects[x] => Granted(task[t], {"PutObject"}, x[1], x[2])]_vars
=============================================================================
