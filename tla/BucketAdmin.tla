---------------------------- MODULE BucketAdmin -----------------------------
(* The bucket half of the admin API, crates/strix-admin/src/handlers.rs:     *)
(* buckets, tenants, objects and notification rules.  authorize_middleware   *)
(* asks once, before the handler (module AdminApi has the identity half).    *)
EXTENDS S3Handlers

AdminOps == {"list_buckets", "create_bucket", "delete_bucket", "get_bucket", "get_bucket_versioning",
    "set_bucket_versioning", "get_storage_usage", "list_tenants", "create_tenant", "delete_tenant",
    "delete_object", "delete_objects", "get_bucket_notifications", "create_bucket_notification",
    "delete_bucket_notification"}

(* authorization_target                                                      *)
AuthorizationTarget(op, b, k) ==
    CASE op \in {"list_buckets", "get_storage_usage", "list_tenants"} -> Ask("ListAllMyBuckets", None, None)
      [] op = "create_bucket" -> Ask("CreateBucket", None, None)
      [] op \in {"create_tenant", "delete_tenant"} -> Ask("All", None, None)
      [] op = "get_bucket" -> Ask("HeadBucket", b, None)
      [] op = "delete_bucket" -> Ask("DeleteBucket", b, None)
      [] op = "get_bucket_versioning" -> Ask("GetBucketVersioning", b, None)
      [] op = "set_bucket_versioning" -> Ask("PutBucketVersioning", b, None)
      [] op = "delete_objects" -> Ask("DeleteObject", b, None)
      [] op = "delete_object" -> Ask("DeleteObject", b, k)
      [] OTHER -> Ask("All", b, None)

(* bucket_visible_for_tenant                                                 *)
VisibleForTenant(tenant, filter) == filter \in {None, tenant}
VisibleTenants(filter) == {tenant \in Tenants \cup {None} : VisibleForTenant(tenant, filter)}

(* ensure_bucket_belongs_to_tenant: no question without a filter, else the   *)
(* bucket's row decides.                                                     *)
EnsureBucketBelongsToTenant(t) ==
    LET k == task[t]
        visible == /\ k.bucket \in DOMAIN db.buckets
                   /\ VisibleForTenant(db.buckets[k.bucket].tenant, k.tenant)
    IN  /\ Continue(t, IF k.tenant = None \/ visible THEN "scoped" ELSE "done")
        /\ Reads

Scoped(t, op) == At(t, "scoped") /\ task[t].op = op

-----------------------------------------------------------------------------
AdminListBuckets(t) ==
    /\ Serving(t, "list_buckets")
    /\ StoreListBuckets(t, VisibleTenants(task[t].tenant), "done")

(* Versioning and locking are set after the bucket is there; their failure   *)
(* does not undo it, and is not reported.                                    *)
AdminCreateBucket(t) ==
    \/ /\ Serving(t, "create_bucket")
       /\ \E next \in {"done", "versioning", "versioning_for_lock"} : StoreCreateBucket(t, task[t].tenant, next)
    \/ At(t, "versioning") /\ StoreSetBucketVersioning(t, TRUE, "done")
    \/ At(t, "versioning_for_lock") /\ StoreSetBucketVersioning(t, TRUE, "locking")
    \/ At(t, "locking") /\ StorePutObjectLockConfiguration(t)

AdminDeleteBucket(t) ==
    \/ Serving(t, "delete_bucket") /\ EnsureBucketBelongsToTenant(t)
    \/ Scoped(t, "delete_bucket") /\ StoreDeleteBucket(t, "done")

(* The filter is applied to the row that is shown.                           *)
AdminGetBucket(t) == Serving(t, "get_bucket") /\ StoreHeadBucket(t, "done")

AdminGetBucketVersioning(t) == Serving(t, "get_bucket_versioning") /\ StoreGetBucketVersioning(t)

AdminSetBucketVersioning(t) ==
    /\ Serving(t, "set_bucket_versioning")
    /\ \E enabled \in BOOLEAN : StoreSetBucketVersioning(t, enabled, "done")

(* The visible buckets are listed, then asked about one by one.              *)
AdminGetStorageUsage(t) ==
    \/ /\ Serving(t, "get_storage_usage")
       /\ StoreListBuckets(t, VisibleTenants(task[t].tenant), "usage")
    \/ At(t, "usage") /\ \E b \in task[t].keys : StoreGetBucketUsage(t, b)
    \/ At(t, "usage") /\ task[t].keys = {} /\ Continue(t, "done") /\ Reads

AdminListTenants(t) == Serving(t, "list_tenants") /\ StoreListTenants(t)
AdminCreateTenant(t) == Serving(t, "create_tenant") /\ StoreCreateTenant(t)
AdminDeleteTenant(t) == Serving(t, "delete_tenant") /\ StoreDeleteTenant(t)

-----------------------------------------------------------------------------
AdminDeleteObject(t) ==
    \/ Serving(t, "delete_object") /\ EnsureBucketBelongsToTenant(t)
    \/ Scoped(t, "delete_object") /\ StoreDeleteObject(t, "done", "done")

(* One key after the other; the failures are collected.                      *)
AdminDeleteObjects(t) ==
    \/ Serving(t, "delete_objects") /\ EnsureBucketBelongsToTenant(t)
    \/ /\ Scoped(t, "delete_objects")
       /\ \E k \in task[t].keys :
            Become(t, [task[t] EXCEPT !.key = k, !.keys = @ \ {k}, !.pc = "delete"])
       /\ Reads
    \/ At(t, "delete") /\ task[t].op = "delete_objects" /\ StoreDeleteObject(t, "scoped", "scoped")
    \/ Scoped(t, "delete_objects") /\ task[t].keys = {} /\ Continue(t, "done") /\ Reads

(* The rules of a bucket are read, changed and saved.  A bucket that cannot  *)
(* be read counts as one without rules when a rule is added.  The ids of a   *)
(* stored list differ, so that one rule at most goes with an id.             *)
AdminGetBucketNotifications(t) ==
    Serving(t, "get_bucket_notifications") /\ StoreGetBucketNotification(t, "done", "done")

SaveRules(t, op) == At(t, "save") /\ task[t].op = op /\ StorePutBucketNotification(t)

AdminCreateBucketNotification(t) ==
    \/ Serving(t, "create_bucket_notification") /\ StoreGetBucketNotification(t, "push", "push")
    \/ /\ At(t, "push")
       /\ \E id \in Rules :
            LET rules == IF task[t].value = None THEN <<>> ELSE task[t].value
            IN  Become(t, [task[t] EXCEPT !.value = Append(rules, id), !.pc = "save"])
       /\ Reads
    \/ SaveRules(t, "create_bucket_notification")

AdminDeleteBucketNotification(t) ==
    \/ Serving(t, "delete_bucket_notification") /\ StoreGetBucketNotification(t, "retain", "done")
    \/ /\ At(t, "retain")
       /\ LET rules == IF task[t].value = None THEN <<>> ELSE task[t].value
          IN  \/ \E i \in DOMAIN rules : Become(t, [task[t] EXCEPT !.value = RemoveAt(rules, i), !.pc = "save"])
              \/ Continue(t, "done")
       /\ Reads
    \/ SaveRules(t, "delete_bucket_notification")

-----------------------------------------------------------------------------
(* The outermost layer of the admin routes: whatever became of the request,  *)
(* the audit log has an entry of it before the client has the answer, and    *)
(* before that, if one is wanted of a request that was refused, a mail is    *)
(* sent.  (Of these requests no other is security-relevant.)                 *)
Unlogged(t) == At(t, "done") /\ task[t].op \in AdminOps /\ task[t].told = <<>>

MaybeAlertAudit(t) == At(t, "refused") /\ (Warn(t, "alert", "done") \/ (Continue(t, "done") /\ Reads))
AuditMiddleware(t) == Unlogged(t) /\ LogAudit(t, "done")

AdminHandler(t) ==
    \/ AdminListBuckets(t) \/ AdminCreateBucket(t) \/ AdminDeleteBucket(t) \/ AdminGetBucket(t)
    \/ AdminGetBucketVersioning(t) \/ AdminSetBucketVersioning(t) \/ AdminGetStorageUsage(t)
    \/ AdminListTenants(t) \/ AdminCreateTenant(t) \/ AdminDeleteTenant(t)
    \/ AdminDeleteObject(t) \/ AdminDeleteObjects(t)
    \/ AdminGetBucketNotifications(t) \/ AdminCreateBucketNotification(t) \/ AdminDeleteBucketNotification(t)
    \/ MaybeAlertAudit(t) \/ AuditMiddleware(t)
=============================================================================
