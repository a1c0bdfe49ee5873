---------------------------- MODULE BucketTables ----------------------------
(* The bucket side of LocalFsStore, crates/strix-storage/src/localfs.rs:     *)
(* buckets, tenants and the tables of bucket settings, as the handlers of    *)
(* modules S3Handlers and BucketAdmin call them.  A task is one request; a   *)
(* closure on the connection is a step, so that requests interleave between  *)
(* the closures of one store function.  Of the objects there is what the     *)
(* handlers need, the latest row of a key, and each store call on it is one  *)
(* step, or two where it reads one object and writes another: the closures,  *)
(* the older versions and the files are in modules LocalFsStore and          *)
(* Multipart.                                                                *)
EXTENDS Integers, Sequences, FiniteSets, Functions, SequencesExt

CONSTANTS
    None,           \* Rust's Option::None
    Buckets,        \* bucket names
    Keys,           \* object keys
    Tenants,        \* tenant slugs
    Rules,          \* ids of notification rules
    Tasks,          \* requests in flight
    MaxGen,         \* bound: buckets ever created
    MaxUploads      \* bound: multipart uploads ever created

ASSUME BucketTablesAssumption ==
    MaxGen \in Nat /\ MaxUploads \in Nat /\ IsFiniteSet(Tasks) /\ None \notin Buckets \cup Keys \cup Tenants

VARIABLES
    db,             \* the tables
    task            \* task -> its request

(* A bucket's gen tells its incarnations apart; the code has none.           *)
EmptyDb ==
    [tenants |-> {},        \* tenants
     buckets |-> <<>>,      \* buckets: name -> [tenant, versioning, gen]
     config |-> <<>>,       \* bucket_cors, bucket_lifecycle, bucket_notification and
                            \* bucket_tags: <<table, bucket>> -> [value, gen]
     objects |-> <<>>,      \* objects: <<bucket, key>> -> the latest row
     uploads |-> <<>>,      \* multipart_uploads and parts: upload_id -> [place, from]
     gen |-> 0,             \* buckets created so far
     issued |-> 0]          \* upload ids given out so far

(* History: did and at, what the store did for the request and, last, to     *)
(* which bucket and key; told and named, what the audit log and the          *)
(* notification dispatcher were told of it and which bucket and key they     *)
(* were given; warned, what was told of its being refused.                   *)
Idle == [pc |-> "idle", call |-> 1, op |-> None, bucket |-> None, key |-> None, source |-> None,
         upload |-> 0, keys |-> {}, tenant |-> None, asks |-> <<>>, grants |-> {}, value |-> None,
         since |-> 0, did |-> <<>>, at |-> None, told |-> <<>>, named |-> None, warned |-> {}]

At(t, pc) == task[t].pc = pc

(* call counts the closures of the store function the task is in.            *)
Closure(t, n) == task[t].call = n

Become(t, k) == task' = [task EXCEPT ![t] = k]

(* A store function returns, and the handler goes on at pc; what it has no   *)
(* more use for when it answers is forgotten.                                *)
Return(k, pc) ==
    IF pc = "done" THEN [Idle EXCEPT !.pc = "done", !.op = k.op, !.did = k.did, !.at = k.at,
                                     !.told = k.told, !.named = k.named, !.warned = k.warned]
    ELSE [k EXCEPT !.pc = pc, !.call = 1]

Continue(t, pc) == Become(t, Return(task[t], pc))

NextClosure(t) == task' = [task EXCEPT ![t].call = @ + 1]

(* The bucket and key of the request.                                        *)
Place(t) == <<task[t].bucket, task[t].key>>

(* The store does something to x for the request, and returns.               *)
DidAt(t, what, x, pc) == Become(t, Return([task[t] EXCEPT !.did = Append(@, what), !.at = x], pc))

Did(t, what, pc) == DidAt(t, what, Place(t), pc)

Reads == UNCHANGED db

Bind(f, x, v) == [y \in DOMAIN f \cup {x} |-> IF y = x THEN v ELSE f[y]]
Without(f, S) == Restrict(f, DOMAIN f \ S)

-----------------------------------------------------------------------------
(* Buckets.  ok is where the handler goes on after success, "done" where it  *)
(* answers.                                                                  *)
StoreCreateBucket(t, tenant, ok) ==
    LET b == task[t].bucket
    IN  IF b \in DOMAIN db.buckets THEN Continue(t, "done") /\ Reads
        ELSE /\ db' = [db EXCEPT
                    !.buckets = Bind(@, b, [tenant |-> tenant, versioning |-> "Unversioned", gen |-> db.gen + 1]),
                    !.gen = @ + 1]
             /\ Did(t, "create_bucket", ok)

RowsOf(b) == {x \in DOMAIN db.objects : x[1] = b}
UploadsTo(b) == {u \in DOMAIN db.uploads : db.uploads[u].place[1] = b}

\* Mutant: the settings do not cascade.
Uprooted(b) ==
    [db EXCEPT !.buckets = Without(@, {b}), !.objects = Without(@, RowsOf(b)),
               !.uploads = Without(@, UploadsTo(b))]

(* DELETE FROM buckets, and ON DELETE CASCADE.                               *)
BucketDeleted(b) ==
    [db EXCEPT !.buckets = Without(@, {b}), !.objects = Without(@, RowsOf(b)),
               !.uploads = Without(@, UploadsTo(b)),
               !.config = Without(@, {x \in DOMAIN @ : x[2] = b})]

(* delete_bucket: the bucket is there and empty, then its row goes.          *)
StoreDeleteBucket(t, ok) ==
    LET b == task[t].bucket
    IN  \/ /\ Closure(t, 1)
           /\ IF b \notin DOMAIN db.buckets \/ RowsOf(b) # {} THEN Continue(t, "done") ELSE NextClosure(t)
           /\ Reads
        \/ /\ Closure(t, 2)
           /\ db' = BucketDeleted(b)
           /\ Did(t, "delete_bucket", ok)

(* bucket_exists, the first closure of most functions below.                 *)
BucketExists(t, failed) ==
    /\ Closure(t, 1)
    /\ IF task[t].bucket \in DOMAIN db.buckets THEN NextClosure(t) ELSE Continue(t, failed)
    /\ Reads

(* head_bucket: of the row, the tenant is used.                              *)
StoreHeadBucket(t, ok) ==
    LET b == task[t].bucket
    IN  /\ IF b \notin DOMAIN db.buckets THEN Continue(t, "done")
           ELSE Become(t, Return([task[t] EXCEPT !.value = db.buckets[b].tenant], ok))
        /\ Reads

(* list_buckets: the caller goes on with those of some tenants.              *)
StoreListBuckets(t, tenants, next) ==
    /\ Become(t, Return([task[t] EXCEPT !.keys = {b \in DOMAIN db.buckets : db.buckets[b].tenant \in tenants}], next))
    /\ Reads

(* get_bucket_usage reads the sizes of a bucket's rows; a bucket that is     *)
(* gone has none.                                                            *)
StoreGetBucketUsage(t, b) == task' = [task EXCEPT ![t].keys = @ \ {b}] /\ Reads

(* set_bucket_versioning is one UPDATE; an unknown bucket is an error.       *)
StoreSetBucketVersioning(t, enabled, next) ==
    LET b == task[t].bucket
    IN  /\ db' = IF b \notin DOMAIN db.buckets THEN db
                 ELSE [db EXCEPT !.buckets[b].versioning = IF enabled THEN "Enabled" ELSE "Suspended"]
        /\ Continue(t, next)

StoreGetBucketVersioning(t) == Continue(t, "done") /\ Reads

-----------------------------------------------------------------------------
(* Tenants.  A bucket names its tenant without a foreign key.                *)
StoreListTenants(t) == Continue(t, "done") /\ Reads

(* create_tenant ends with get_tenant; the tenant may be gone again.         *)
StoreGetTenant(t) == Continue(t, "done") /\ Reads

StoreCreateTenant(t) ==
    \/ /\ Closure(t, 1)
       /\ db' = [db EXCEPT !.tenants = @ \cup {task[t].tenant}]
       /\ IF task[t].tenant \in db.tenants THEN Continue(t, "done") ELSE NextClosure(t)
    \/ Closure(t, 2) /\ StoreGetTenant(t)

TenantInUse(slug) == \E b \in DOMAIN db.buckets : db.buckets[b].tenant = slug

\* Mutant: the tenant's buckets are not counted.
StoreDeleteTenantUncounted(t) ==
    \/ /\ Closure(t, 1)
       /\ task' = [task EXCEPT ![t].call = 2, ![t].since = db.gen]
       /\ Reads
    \/ /\ Closure(t, 2)
       /\ db' = [db EXCEPT !.tenants = @ \ {task[t].tenant}]
       /\ Continue(t, "done")

(* delete_tenant counts its buckets, then deletes the row.  since is history:*)
(* the buckets created by the time of the count.                             *)
StoreDeleteTenant(t) ==
    \/ /\ Closure(t, 1)
       /\ IF TenantInUse(task[t].tenant) THEN Continue(t, "done")
          ELSE task' = [task EXCEPT ![t].call = 2, ![t].since = db.gen]
       /\ Reads
    \/ /\ Closure(t, 2)
       /\ db' = [db EXCEPT !.tenants = @ \ {task[t].tenant}]
       /\ Continue(t, "done")

-----------------------------------------------------------------------------
(* The tables of bucket settings: bucket_exists, then one statement.  The    *)
(* foreign key refuses a row for a bucket that went away between the two; a  *)
(* bucket created again by then takes the row.  gen is that of the bucket    *)
(* the row goes into, and so not always of the one that was found.           *)
GetConfig(t, table, next, failed) ==
    \/ BucketExists(t, failed)
    \/ /\ Closure(t, 2)
       /\ LET x == <<table, task[t].bucket>>
              v == IF x \in DOMAIN db.config THEN db.config[x].value ELSE None
          IN  Become(t, Return([task[t] EXCEPT !.value = v], next))
       /\ Reads

PutConfig(t, table, value, valid) ==
    LET b == task[t].bucket
    IN  \/ /\ Closure(t, 1)
           /\ IF b \in DOMAIN db.buckets /\ valid
              THEN task' = [task EXCEPT ![t].call = 2, ![t].value = value]
              ELSE Continue(t, "done")
           /\ Reads
        \/ /\ Closure(t, 2)
           /\ db' = IF b \notin DOMAIN db.buckets THEN db
                    ELSE [db EXCEPT !.config = Bind(@, <<table, b>>, [value |-> task[t].value,
                                                                      gen |-> db.buckets[b].gen])]
           /\ Continue(t, "done")

DeleteConfig(t, table) ==
    \/ BucketExists(t, "done")
    \/ /\ Closure(t, 2)
       /\ db' = [db EXCEPT !.config = Without(@, {<<table, task[t].bucket>>})]
       /\ Continue(t, "done")

(* A rule list is valid for the store if no id is in it twice, a CORS rule   *)
(* if it has origins and methods, tags if they are within their limits: of   *)
(* the last two, and of a lifecycle's ids, valid is all that is kept.        *)
StoreGetBucketCors(t) == GetConfig(t, "cors", "done", "done")
StorePutBucketCors(t) == \E valid \in BOOLEAN : PutConfig(t, "cors", "cors", valid)
StoreDeleteBucketCors(t) == DeleteConfig(t, "cors")

StoreGetBucketLifecycle(t) == GetConfig(t, "lifecycle", "done", "done")
StorePutBucketLifecycle(t) == \E valid \in BOOLEAN : PutConfig(t, "lifecycle", "rules", valid)
StoreDeleteBucketLifecycle(t) == DeleteConfig(t, "lifecycle")

StoreGetBucketTagging(t) == GetConfig(t, "tags", "done", "done")
StorePutBucketTagging(t) == \E valid \in BOOLEAN : PutConfig(t, "tags", "tags", valid)
StoreDeleteBucketTagging(t) == DeleteConfig(t, "tags")

StoreGetBucketNotification(t, next, failed) == GetConfig(t, "notification", next, failed)

\* Mutant: a second rule with the same id is accepted.
StorePutBucketNotificationUnchecked(t) == PutConfig(t, "notification", task[t].value, TRUE)

StorePutBucketNotification(t) ==
    LET rules == task[t].value
    IN  PutConfig(t, "notification", rules, Cardinality(ToSet(rules)) = Len(rules))

(* object_lock_enabled is 0 in every row, since no statement sets it, and    *)
(* every caller wants the lock enabled: the third closure, which would       *)
(* insert a configuration, is never reached, and there is none to get.       *)
StoreGetObjectLockConfiguration(t) ==
    \/ BucketExists(t, "done")
    \/ Closure(t, 2) /\ Continue(t, "done") /\ Reads

StorePutObjectLockConfiguration(t) ==
    \/ BucketExists(t, "done")
    \/ Closure(t, 2) /\ Continue(t, "done") /\ Reads

-----------------------------------------------------------------------------
(* Objects: the latest row of a key.  from are the places its bytes were     *)
(* sent to or copied from.                                                   *)
Row(from, tags) == [from |-> from, tags |-> tags, mode |-> None, hold |-> FALSE, marker |-> FALSE]

Marker == [Row({}, FALSE) EXCEPT !.marker = TRUE]

Readable(x) == x \in DOMAIN db.objects /\ ~db.objects[x].marker

(* head_object, and the row that get_object reads.                           *)
StoreHeadObject(t, x, ok) ==
    /\ IF ~Readable(x) THEN Continue(t, "done")
       ELSE Become(t, Return([task[t] EXCEPT !.value = db.objects[x]], ok))
    /\ Reads

(* put_object: the store may fail in other ways than for want of a bucket.   *)
StorePutObject(t, ok) ==
    \/ Continue(t, "done") /\ Reads
    \/ /\ task[t].bucket \in DOMAIN db.buckets
       /\ db' = [db EXCEPT !.objects = Bind(@, Place(t), Row({Place(t)}, FALSE))]
       /\ Did(t, "put", ok)

(* copy_object reads the source, then writes the destination; from and tags  *)
(* may be those of the row that was read.                                    *)
StoreCopyObject(t, source, from, tags, ok) ==
    \/ /\ Closure(t, 1)
       /\ IF ~Readable(source) THEN Continue(t, "done")
          ELSE task' = [task EXCEPT ![t].call = 2, ![t].value = db.objects[source]]
       /\ Reads
    \/ /\ Closure(t, 2)
       /\ IF task[t].bucket \notin DOMAIN db.buckets THEN Continue(t, "done") /\ Reads
          ELSE /\ db' = [db EXCEPT !.objects = Bind(@, Place(t), Row(from, tags))]
               /\ Did(t, "copy", ok)

(* delete_object_version without a version: a lock is respected, a versioned *)
(* bucket gets a delete marker, another loses the rows of the key, if there  *)
(* are any.  A retention may be over, a legal hold is not.                   *)
StoreDeleteObject(t, ok, failed) ==
    LET b == task[t].bucket
        x == Place(t)
        row == IF x \in DOMAIN db.objects THEN db.objects[x] ELSE Row({}, FALSE)
    IN  \/ /\ b \notin DOMAIN db.buckets \/ row.hold \/ row.mode # None
           /\ Continue(t, failed) /\ Reads
        \/ /\ b \in DOMAIN db.buckets /\ ~row.hold
           /\ LET versioned == db.buckets[b].versioning # "Unversioned"
              IN  /\ db' = [db EXCEPT !.objects = IF versioned THEN Bind(@, x, Marker)
                                                  ELSE Without(@, {x})]
                  /\ Did(t, IF versioned THEN "marker" ELSE "delete", ok)

(* delete_object_version with a version: if it is the latest, the key is     *)
(* without a row; another, or an unknown one, is not in this model.          *)
StoreDeleteObjectVersion(t, ok, failed) ==
    LET x == Place(t)
        locked == x \in DOMAIN db.objects /\ (db.objects[x].hold \/ db.objects[x].mode # None)
    IN  \/ /\ task[t].bucket \notin DOMAIN db.buckets \/ locked
           /\ Continue(t, failed) /\ Reads
        \/ /\ task[t].bucket \in DOMAIN db.buckets
           /\ \E latest \in BOOLEAN :
                /\ latest => ~(x \in DOMAIN db.objects /\ db.objects[x].hold)
                /\ db' = IF latest THEN [db EXCEPT !.objects = Without(@, {x})] ELSE db
           /\ Did(t, "delete", ok)

(* get_object_retention and get_object_legal_hold                            *)
StoreGetObjectRetention(t) ==
    \/ BucketExists(t, "done")
    \/ Closure(t, 2) /\ Continue(t, "done") /\ Reads

StoreGetObjectLegalHold(t) ==
    \/ BucketExists(t, "done")
    \/ Closure(t, 2) /\ Continue(t, "done") /\ Reads

(* UPDATE ... WHERE is_latest = 1                                            *)
Updated(x, F(_)) == IF x \in DOMAIN db.objects THEN [db EXCEPT !.objects[x] = F(@)] ELSE db

(* put_object_retention: the current mode is checked, then replaced.         *)
StorePutObjectRetention(t, mode, bypass) ==
    LET x == Place(t)
        current == IF x \in DOMAIN db.objects THEN db.objects[x].mode ELSE None
    IN  \/ BucketExists(t, "done")
        \/ /\ Closure(t, 2)
           /\ IF current = "COMPLIANCE" \/ (current = "GOVERNANCE" /\ ~bypass)
              THEN Continue(t, "done")
              ELSE task' = [task EXCEPT ![t].call = 3, ![t].value = mode]
           /\ Reads
        \/ /\ Closure(t, 3)
           /\ db' = Updated(x, LAMBDA row : [row EXCEPT !.mode = task[t].value])
           /\ Continue(t, "done")

StorePutObjectLegalHold(t, hold) ==
    \/ BucketExists(t, "done")
    \/ /\ Closure(t, 2)
       /\ db' = Updated(Place(t), LAMBDA row : [row EXCEPT !.hold = hold])
       /\ Continue(t, "done")

-----------------------------------------------------------------------------
(* Multipart uploads.  The row of an upload has the bucket and key it was    *)
(* created for; the other functions find it by its id alone.                 *)
StoreCreateMultipartUpload(t) ==
    /\ db' = IF task[t].bucket \notin DOMAIN db.buckets THEN db
             ELSE [db EXCEPT !.uploads = Bind(@, db.issued + 1, [place |-> Place(t), from |-> {}]),
                             !.issued = @ + 1]
    /\ Continue(t, "done")

StoreUploadPart(t, from) ==
    LET u == task[t].upload
    IN  /\ db' = IF u \in DOMAIN db.uploads THEN [db EXCEPT !.uploads[u].from = @ \cup {from}] ELSE db
        /\ Continue(t, "done")

(* The object is inserted under the bucket and key of the upload's row.      *)
StoreCompleteMultipartUpload(t, ok) ==
    LET u == task[t].upload
    IN  \/ Continue(t, "done") /\ Reads
        \/ /\ u \in DOMAIN db.uploads /\ db.uploads[u].from # {}
           /\ db' = [db EXCEPT !.objects = Bind(@, db.uploads[u].place, Row(db.uploads[u].from, FALSE)),
                               !.uploads = Without(@, {u})]
           /\ DidAt(t, "complete", db.uploads[u].place, ok)

StoreAbortMultipartUpload(t) ==
    /\ db' = [db EXCEPT !.uploads = Without(@, {task[t].upload})]
    /\ Continue(t, "done")
=============================================================================
