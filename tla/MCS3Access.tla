----------------------------- MODULE MCS3Access -----------------------------
(* Small instances of S3Access for TLC: documents with exact and wildcard    *)
(* patterns, and the requests they are about.                                *)
EXTENDS S3Access, TLC

CONSTANTS b1

AllowDoc == <<[effect |-> "Allow", actions |-> {<<"s3:", "*">>}, resources |-> {<<"arn:aws:s3:::", "*">>}]>>

(* The allowed object, with a denial of one action in front of it.           *)
DenyDoc == <<[effect |-> "Deny", actions |-> {<<"s3:", "Put", "?">>},
              resources |-> {<<"arn:aws:s3:::", b1, "*">>}],
             [effect |-> "Allow", actions |-> {<<"s3:", "Get", "*">>}, resources |-> {<<"*">>}]>>

PublicDoc == <<[effect |-> "Allow", principal |-> {<<"*">>}, actions |-> {<<"s3:", "Put", "Object">>},
                resources |-> {<<"arn:aws:s3:::", b1, "/", "*">>}, condition |-> {}]>>

(* A bucket that nobody may write to.                                        *)
ReadOnlyDoc == <<[effect |-> "Deny", principal |-> {<<"*">>}, actions |-> {<<"s3:", "Put", "*">>},
                  resources |-> {<<"arn:aws:s3:::", b1, "/", "*">>}, condition |-> {}]>>

MCDocuments == {AllowDoc, DenyDoc}
MCBucketDocs == {PublicDoc}
ReadOnlyDocs == {ReadOnlyDoc}
MCBuckets == {b1}
MCRequests == {[action |-> "PutObject", resource |-> Resource(b1, "k")]}
Symmetry == Permutations(KeyIds)

(* What changes whom a policy is about, what changes who can sign, and the   *)
(* policies that are only copied.                                            *)
PolicyOps == {"s3", "simulate_policy", "create_user", "delete_user", "attach_user_policy", "detach_user_policy",
    "create_group", "delete_group", "add_user_to_group", "remove_user_from_group",
    "attach_group_policy", "detach_group_policy", "set_bucket_policy", "delete_bucket_policy"}
IdentityOps == {"s3", "create_user", "delete_user", "update_user_status", "create_access_key",
    "delete_access_key", "update_access_key", "attach_user_policy", "create_group",
    "add_user_to_group", "assume_role"}
ManagedOps == {"s3", "create_user", "delete_user", "get_user", "attach_user_policy", "create_group", "get_group",
    "create_managed_policy", "delete_managed_policy", "get_managed_policy", "get_bucket_policy",
    "generate_presign_url"}
MCWorkloads == {PolicyOps, IdentityOps, ManagedOps}
DenyWorkloads == {{"s3", "create_user", "create_access_key", "attach_user_policy", "set_bucket_policy"}}
=============================================================================
