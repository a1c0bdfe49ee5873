----------------------------- MODULE S3Handlers -----------------------------
(* The S3 requests of crates/strix-s3/src/service.rs other than listings     *)
(* (module Listing).  A handler asks check_authorization, calls the store    *)
(* and, for some operations, writes to the audit log and sends an event to   *)
(* the dispatcher (module Dispatcher).  How a permission is decided is in    *)
(* module S3Access; here check_authorization may decide either way.          *)
EXTENDS BucketTables

Serving(t, op) == At(t, "handle") /\ task[t].op = op

Ask(action, bucket, key) == [action |-> action, bucket |-> bucket, key |-> key]

ObjectOps == {"GetObjectTagging", "PutObjectTagging", "DeleteObjectTagging", "GetObject", "PutObject",
    "DeleteObject", "HeadObject", "AbortMultipartUpload", "GetObjectRetention", "PutObjectRetention",
    "GetObjectLegalHold", "PutObjectLegalHold"}

BucketOps == {"CreateBucket", "DeleteBucket", "HeadBucket", "GetBucketLocation", "GetBucketVersioning",
    "PutBucketVersioning", "GetBucketTagging", "PutBucketTagging", "DeleteBucketTagging",
    "GetBucketCors", "PutBucketCors", "DeleteBucketCors", "DeleteObjects",
    "GetBucketLifecycleConfiguration", "PutBucketLifecycleConfiguration", "DeleteBucketLifecycle",
    "GetObjectLockConfiguration", "PutObjectLockConfiguration",
    "GetBucketNotificationConfiguration", "PutBucketNotificationConfiguration"}

CopyOps == {"CopyObject", "UploadPartCopy"}
PartOps == {"CreateMultipartUpload", "UploadPart", "CompleteMultipartUpload"}
UploadOps == {"UploadPart", "UploadPartCopy", "CompleteMultipartUpload", "AbortMultipartUpload"}
S3Ops == ObjectOps \cup BucketOps \cup CopyOps \cup PartOps \cup {"ListBuckets"}

(* What a handler asks check_authorization before it calls the store.        *)
S3Asks(op, b, k, source) ==
    CASE op \in ObjectOps -> <<Ask(op, b, k)>>
      [] op \in BucketOps -> <<Ask(op, b, None)>>
      [] op \in PartOps -> <<Ask("PutObject", b, k)>>
      [] op \in CopyOps -> <<Ask("PutObject", b, k), Ask("GetObject", source[1], source[2])>>
      [] op = "ListBuckets" -> <<Ask(op, None, None)>>

(* Within DeleteObjects a denied key is an error in the answer.              *)
InBatch(t) == task[t].op = "DeleteObjects" /\ task[t].key # None

(* What goes out of a request names the request's bucket and key.            *)
Tell(t, what, next) ==
    /\ Become(t, Return([task[t] EXCEPT !.told = Append(@, what), !.named = Place(t)], next))
    /\ Reads

(* log_audit: an entry that the store does not take is lost, and the handler *)
(* goes on.                                                                  *)
Audits == {"audit", "audit_lost"}

LogAudit(t, next) == \E outcome \in Audits : Tell(t, outcome, next)
EmitEvent(t, event) == Tell(t, event, "done")

(* A refusal goes to the audit log, or is mailed.                            *)
Warn(t, what, next) ==
    /\ Become(t, Return([task[t] EXCEPT !.warned = @ \cup {what}], next))
    /\ Reads

(* The permission is granted; it is refused, by a bucket policy or for an    *)
(* error, or by the admin API's middleware; or nothing grants it, which the  *)
(* S3 service alone puts in the audit log.                                   *)
CheckAuthorization(t) ==
    LET k == task[t]
        granted == [k EXCEPT !.grants = @ \cup {Head(k.asks)}, !.asks = Tail(@)]
        refused == IF InBatch(t) THEN "handle" ELSE IF k.op \in S3Ops THEN "done" ELSE "refused"
    IN  /\ At(t, "check")
        /\ \/ /\ Become(t, IF Len(k.asks) > 1 THEN granted
                           ELSE Return(granted, IF InBatch(t) THEN "delete" ELSE "handle"))
              /\ Reads
           \/ Continue(t, refused) /\ Reads
           \/ k.op \in S3Ops /\ Warn(t, "denied", refused)

-----------------------------------------------------------------------------
(* Buckets.                                                                  *)
CreateBucket(t) ==
    \/ Serving(t, "CreateBucket") /\ StoreCreateBucket(t, None, "audit")
    \/ At(t, "audit") /\ task[t].op = "CreateBucket" /\ LogAudit(t, "done")

DeleteBucket(t) ==
    \/ Serving(t, "DeleteBucket") /\ StoreDeleteBucket(t, "audit")
    \/ At(t, "audit") /\ task[t].op = "DeleteBucket" /\ LogAudit(t, "done")

ListBuckets(t) == Serving(t, "ListBuckets") /\ StoreListBuckets(t, Tenants \cup {None}, "done")

HeadBucket(t) == Serving(t, "HeadBucket") /\ StoreHeadBucket(t, "done")

GetBucketLocation(t) == Serving(t, "GetBucketLocation") /\ StoreHeadBucket(t, "done")

GetBucketVersioning(t) == Serving(t, "GetBucketVersioning") /\ StoreGetBucketVersioning(t)

(* A status other than the two is refused.                                   *)
PutBucketVersioning(t) ==
    /\ Serving(t, "PutBucketVersioning")
    /\ \/ \E enabled \in BOOLEAN : StoreSetBucketVersioning(t, enabled, "done")
       \/ Continue(t, "done") /\ Reads

(* Bucket settings: the answer of a get that finds nothing is an error.      *)
GetBucketTagging(t) == Serving(t, "GetBucketTagging") /\ StoreGetBucketTagging(t)
PutBucketTagging(t) == Serving(t, "PutBucketTagging") /\ StorePutBucketTagging(t)
DeleteBucketTagging(t) == Serving(t, "DeleteBucketTagging") /\ StoreDeleteBucketTagging(t)

GetBucketCors(t) == Serving(t, "GetBucketCors") /\ StoreGetBucketCors(t)
PutBucketCors(t) == Serving(t, "PutBucketCors") /\ StorePutBucketCors(t)
DeleteBucketCors(t) == Serving(t, "DeleteBucketCors") /\ StoreDeleteBucketCors(t)

GetBucketLifecycleConfiguration(t) ==
    Serving(t, "GetBucketLifecycleConfiguration") /\ StoreGetBucketLifecycle(t)
PutBucketLifecycleConfiguration(t) ==
    Serving(t, "PutBucketLifecycleConfiguration") /\ StorePutBucketLifecycle(t)
DeleteBucketLifecycle(t) == Serving(t, "DeleteBucketLifecycle") /\ StoreDeleteBucketLifecycle(t)

GetObjectLockConfiguration(t) ==
    Serving(t, "GetObjectLockConfiguration") /\ StoreGetObjectLockConfiguration(t)
PutObjectLockConfiguration(t) ==
    Serving(t, "PutObjectLockConfiguration") /\ StorePutObjectLockConfiguration(t)

(* The S3 notification settings are read but not shown, and not stored.      *)
GetBucketNotificationConfiguration(t) ==
    /\ Serving(t, "GetBucketNotificationConfiguration")
    /\ StoreGetBucketNotification(t, "done", "done")
PutBucketNotificationConfiguration(t) ==
    Serving(t, "PutBucketNotificationConfiguration") /\ StoreHeadBucket(t, "done")

-----------------------------------------------------------------------------
(* Objects.                                                                  *)
GetObject(t) == Serving(t, "GetObject") /\ StoreHeadObject(t, Place(t), "done")

HeadObject(t) == Serving(t, "HeadObject") /\ StoreHeadObject(t, Place(t), "done")

\* Mutant: the event is sent before the store has answered.
PutObjectEmittingFirst(t) ==
    \/ Serving(t, "PutObject") /\ Tell(t, "ObjectCreated:Put", "store")
    \/ At(t, "store") /\ StorePutObject(t, "done")

PutObject(t) ==
    \/ Serving(t, "PutObject") /\ StorePutObject(t, "emit")
    \/ At(t, "emit") /\ task[t].op = "PutObject" /\ EmitEvent(t, "ObjectCreated:Put")

DeleteObject(t) ==
    \/ Serving(t, "DeleteObject") /\ StoreDeleteObject(t, "audit", "done")
    \/ Serving(t, "DeleteObject") /\ StoreDeleteObjectVersion(t, "audit", "done")
    \/ At(t, "audit") /\ task[t].op = "DeleteObject" /\ LogAudit(t, "emit")
    \/ /\ At(t, "emit") /\ task[t].op = "DeleteObject"
       /\ EmitEvent(t, IF Last(task[t].did) = "marker"
                       THEN "ObjectRemoved:DeleteMarkerCreated" ELSE "ObjectRemoved:Delete")

\* Mutant: the permission for the bucket is enough.
DeleteObjectsUnchecked(t) ==
    \/ /\ Serving(t, "DeleteObjects")
       /\ \E k \in task[t].keys :
            Become(t, [task[t] EXCEPT !.key = k, !.keys = @ \ {k}, !.pc = "delete"])
       /\ Reads
    \/ /\ Serving(t, "DeleteObjects") /\ task[t].keys = {}
       /\ Continue(t, "done") /\ Reads
    \/ At(t, "delete") /\ task[t].op = "DeleteObjects" /\ StoreDeleteObject(t, "handle", "handle")

(* One key after the other is checked and deleted; no audit, no event.       *)
DeleteObjects(t) ==
    \/ /\ Serving(t, "DeleteObjects")
       /\ \E k \in task[t].keys :
            Become(t, [task[t] EXCEPT !.key = k, !.keys = @ \ {k}, !.pc = "check",
                                      !.asks = <<Ask("DeleteObject", task[t].bucket, k)>>])
       /\ Reads
    \/ /\ Serving(t, "DeleteObjects") /\ task[t].keys = {}
       /\ Continue(t, "done") /\ Reads
    \/ At(t, "delete") /\ task[t].op = "DeleteObjects" /\ StoreDeleteObject(t, "handle", "handle")
    \/ At(t, "delete") /\ task[t].op = "DeleteObjects" /\ StoreDeleteObjectVersion(t, "handle", "handle")

(* The metadata directive is COPY or REPLACE; the latter drops the tags.     *)
CopyObject(t) ==
    \/ /\ Serving(t, "CopyObject")
       /\ \E keep \in BOOLEAN :
            StoreCopyObject(t, task[t].source, {task[t].source}, keep /\ task[t].value.tags, "emit")
    \/ At(t, "emit") /\ task[t].op = "CopyObject" /\ EmitEvent(t, "ObjectCreated:Copy")

(* Object tags are metadata: the object is looked up and then copied onto    *)
(* itself, without its locks, with what the lookup gave and the new tags.    *)
Retag(t, op, tags) ==
    \/ Serving(t, op) /\ StoreHeadObject(t, Place(t), "copy")
    \/ At(t, "copy") /\ task[t].op = op /\ StoreCopyObject(t, Place(t), task[t].value.from, tags, "done")

GetObjectTagging(t) == Serving(t, "GetObjectTagging") /\ StoreHeadObject(t, Place(t), "done")
PutObjectTagging(t) == Retag(t, "PutObjectTagging", TRUE)
DeleteObjectTagging(t) == Retag(t, "DeleteObjectTagging", FALSE)

GetObjectRetention(t) == Serving(t, "GetObjectRetention") /\ StoreGetObjectRetention(t)

(* Without a retention in the request nothing happens.                       *)
PutObjectRetention(t) ==
    /\ Serving(t, "PutObjectRetention")
    /\ \/ /\ Closure(t, 1)
          /\ Continue(t, "done") /\ Reads
       \/ \E mode \in {"GOVERNANCE", "COMPLIANCE"}, bypass \in BOOLEAN : StorePutObjectRetention(t, mode, bypass)

GetObjectLegalHold(t) == Serving(t, "GetObjectLegalHold") /\ StoreGetObjectLegalHold(t)

PutObjectLegalHold(t) ==
    /\ Serving(t, "PutObjectLegalHold")
    /\ \E hold \in BOOLEAN : StorePutObjectLegalHold(t, hold)

-----------------------------------------------------------------------------
(* Multipart uploads: the request is authorized for its own bucket and key,  *)
(* and names the upload besides.                                             *)
CreateMultipartUpload(t) == Serving(t, "CreateMultipartUpload") /\ StoreCreateMultipartUpload(t)

UploadPart(t) == Serving(t, "UploadPart") /\ StoreUploadPart(t, Place(t))

(* The source is read, then sent as a part.                                  *)
UploadPartCopy(t) ==
    \/ Serving(t, "UploadPartCopy") /\ StoreHeadObject(t, task[t].source, "part")
    \/ At(t, "part") /\ StoreUploadPart(t, task[t].source)

CompleteMultipartUpload(t) ==
    \/ Serving(t, "CompleteMultipartUpload") /\ StoreCompleteMultipartUpload(t, "emit")
    \/ /\ At(t, "emit") /\ task[t].op = "CompleteMultipartUpload"
       /\ EmitEvent(t, "ObjectCreated:CompleteMultipartUpload")

AbortMultipartUpload(t) == Serving(t, "AbortMultipartUpload") /\ StoreAbortMultipartUpload(t)

-----------------------------------------------------------------------------
S3Handler(t) ==
    \/ CreateBucket(t) \/ DeleteBucket(t) \/ ListBuckets(t) \/ HeadBucket(t) \/ GetBucketLocation(t)
    \/ GetBucketVersioning(t) \/ PutBucketVersioning(t)
    \/ GetBucketTagging(t) \/ PutBucketTagging(t) \/ DeleteBucketTagging(t)
    \/ GetBucketCors(t) \/ PutBucketCors(t) \/ DeleteBucketCors(t)
    \/ GetBucketLifecycleConfiguration(t) \/ PutBucketLifecycleConfiguration(t) \/ DeleteBucketLifecycle(t)
    \/ GetObjectLockConfiguration(t) \/ PutObjectLockConfiguration(t)
    \/ GetBucketNotificationConfiguration(t) \/ PutBucketNotificationConfiguration(t)
    \/ GetObject(t) \/ HeadObject(t) \/ PutObject(t) \/ DeleteObject(t) \/ DeleteObjects(t) \/ CopyObject(t)
    \/ GetObjectTagging(t) \/ PutObjectTagging(t) \/ DeleteObjectTagging(t)
    \/ GetObjectRetention(t) \/ PutObjectRetention(t) \/ GetObjectLegalHold(t) \/ PutObjectLegalHold(t)
    \/ CreateMultipartUpload(t) \/ UploadPart(t) \/ UploadPartCopy(t)
    \/ CompleteMultipartUpload(t) \/ AbortMultipartUpload(t)
=============================================================================
