----------------------------- MODULE MCService ------------------------------
(* Small instances of Service for TLC.                                       *)
EXTENDS Service, TLC

(* Requests are alike, and so are keys.                                      *)
Symmetry == Permutations(Tasks) \cup Permutations(Keys)

Lifetime == {"CreateBucket", "DeleteBucket"}

(* Each table of settings with the life and death of its bucket, ...         *)
Cors == Lifetime \cup {"GetBucketCors", "PutBucketCors", "DeleteBucketCors"}
Tags == Lifetime \cup {"GetBucketTagging", "PutBucketTagging", "DeleteBucketTagging", "HeadBucket",
                       "GetBucketLocation"}
Lifecycle == Lifetime \cup {"GetBucketLifecycleConfiguration", "PutBucketLifecycleConfiguration",
                            "DeleteBucketLifecycle", "ListBuckets"}
Notification == Lifetime \cup {"GetBucketNotificationConfiguration", "PutBucketNotificationConfiguration",
    "get_bucket_notifications", "create_bucket_notification", "delete_bucket_notification"}
Locking == {"create_bucket", "DeleteBucket", "PutBucketVersioning", "GetBucketVersioning",
            "GetObjectLockConfiguration", "PutObjectLockConfiguration", "set_bucket_versioning",
            "get_bucket_versioning"}

(* ... tenants, ...                                                          *)
TenantLife == {"create_bucket", "delete_bucket", "create_tenant", "delete_tenant", "list_tenants",
               "list_buckets", "get_bucket", "get_storage_usage"}

(* ... and objects.                                                          *)
Writes == {"CreateBucket", "PutObject", "CopyObject", "DeleteObject", "DeleteObjects", "PutBucketVersioning"}
Tagging == {"CreateBucket", "DeleteBucket", "PutObject", "DeleteObject", "GetObjectTagging", "PutObjectTagging",
            "DeleteObjectTagging", "HeadObject", "GetObject"}
Holds == {"CreateBucket", "PutObject", "DeleteObject", "GetObjectRetention", "PutObjectRetention",
          "GetObjectLegalHold", "PutObjectLegalHold"}
Parts == {"CreateBucket", "CreateMultipartUpload", "UploadPart", "CompleteMultipartUpload",
          "AbortMultipartUpload"}
PartCopies == {"CreateBucket", "PutObject", "CreateMultipartUpload", "UploadPartCopy",
               "AbortMultipartUpload"}
AdminDeletes == {"create_bucket", "PutObject", "delete_object", "delete_objects", "delete_bucket"}

MCWorkloads == {Cors, Tags, Lifecycle, Notification, Locking, TenantLife, Writes, Tagging, Holds, Parts,
                PartCopies, AdminDeletes}

(* Uploads alone.                                                            *)
MCUploads == {Parts}
=============================================================================
