------------------------------ MODULE IamStore ------------------------------
(* The IAM database, crates/strix-iam/src/store.rs: the tables and, as pure  *)
(* operators on them, the functions that are one closure on the connection.  *)
(* Each returns the new tables and a result; an error leaves the tables as   *)
(* they were.  Functions with an await between two closures are actions of   *)
(* modules AdminApi and Console.                                             *)
EXTENDS Policy, Functions

CONSTANTS
    Users,          \* user names (never "root")
    Groups,         \* group names
    PolicyNames,    \* policy names
    Documents,      \* the statements a policy may have
    BucketDocs,     \* the statements a bucket policy may have
    Buckets,        \* bucket names
    KeyIds,         \* access key ids the generator may return
    TempIds         \* ids of temporary credentials (the ones that start ASIA)

Root == "root"      \* both the name "root" and the configured root access key

ASSUME NamesAssumption == (Users \cup KeyIds \cup TempIds) \cap {Root, None} = {}

(* The tables of init_iam_schema, all empty: a column per field, the primary *)
(* key as the domain.  A row of iam_user_policies is <<user, name, document>>*)
(* with (user, name) unique, and so is a row of iam_group_policies.          *)
EmptyDb ==
    [users |-> <<>>,           \* iam_users: name -> [status, password]
     keys |-> <<>>,            \* iam_access_keys: id -> [user, status]
     groups |-> {},            \* iam_groups
     members |-> {},           \* iam_group_members: <<group, user>>
     userPolicies |-> {},      \* iam_user_policies
     groupPolicies |-> {},     \* iam_group_policies
     bucketPolicies |-> <<>>,  \* bucket_policies: bucket -> document
     temps |-> <<>>,           \* iam_temporary_credentials: id -> [user, expired]
     managed |-> <<>>]         \* iam_policies: name -> document

Ok(db) == [db |-> db, res |-> "Ok"]
Err(db, error) == [db |-> db, res |-> error]

(* f with x bound to v, and without the elements of S.                       *)
Bind(f, x, v) == [y \in DOMAIN f \cup {x} |-> IF y = x THEN v ELSE f[y]]
Without(f, S) == Restrict(f, DOMAIN f \ S)

-----------------------------------------------------------------------------
(* Users.                                                                    *)
CreateUser(db, u) ==
    IF u = Root \/ u \in DOMAIN db.users THEN Err(db, "UserExists")
    ELSE Ok([db EXCEPT !.users = Bind(@, u, [status |-> "active", password |-> None])])

\* Mutant: memberships do not cascade.
DeleteUserKeepingMemberships(db, u) ==
    IF u \notin DOMAIN db.users THEN Err(db, "UserNotFound")
    ELSE Ok([db EXCEPT
                !.users = Without(@, {u}),
                !.keys = Without(@, {k \in DOMAIN @ : @[k].user = u}),
                !.userPolicies = {p \in @ : p[1] # u},
                !.temps = Without(@, {k \in DOMAIN @ : @[k].user = u})])

(* ON DELETE CASCADE takes the user's keys, attachments, memberships and     *)
(* temporary credentials along.                                              *)
DeleteUser(db, u) ==
    IF u = Root THEN Err(db, "CannotDeleteRoot")
    ELSE IF u \notin DOMAIN db.users THEN Err(db, "UserNotFound")
    ELSE Ok([db EXCEPT
                !.users = Without(@, {u}),
                !.keys = Without(@, {k \in DOMAIN @ : @[k].user = u}),
                !.members = {m \in @ : m[2] # u},
                !.userPolicies = {p \in @ : p[1] # u},
                !.temps = Without(@, {k \in DOMAIN @ : @[k].user = u})])

\* Mutant: get_user finds active users only.
ActiveUserExists(db, u) == u = Root \/ (u \in DOMAIN db.users /\ db.users[u].status = "active")

(* get_user: the root user is made up, the others are rows.                  *)
UserExists(db, u) == u = Root \/ u \in DOMAIN db.users

UserStatus(db, u) == IF u = Root THEN "active" ELSE db.users[u].status

UpdateUserStatus(db, u, status) ==
    IF u = Root THEN Err(db, "CannotDeleteRoot")
    ELSE IF u \notin DOMAIN db.users THEN Err(db, "UserNotFound")
    ELSE Ok([db EXCEPT !.users[u].status = status])

-----------------------------------------------------------------------------
(* Access keys.                                                              *)
ListAccessKeys(db, u) ==
    IF u = Root THEN {Root} ELSE {k \in DOMAIN db.keys : db.keys[k].user = u}

(* The INSERT at the end of create_access_key: the foreign key must hold.    *)
InsertAccessKey(db, k, u) ==
    IF u \notin DOMAIN db.users THEN Err(db, "Database")
    ELSE Ok([db EXCEPT !.keys = Bind(@, k, [user |-> u, status |-> "active"])])

DeleteAccessKey(db, k) ==
    IF k = Root THEN Err(db, "CannotModifyRootKeys")
    ELSE IF k \notin DOMAIN db.keys THEN Err(db, "AccessKeyNotFound")
    ELSE Ok([db EXCEPT !.keys = Without(@, {k})])

UpdateAccessKeyStatus(db, k, status) ==
    IF k = Root THEN Err(db, "CannotModifyRootKeys")
    ELSE IF k \notin DOMAIN db.keys THEN Err(db, "AccessKeyNotFound")
    ELSE Ok([db EXCEPT !.keys[k].status = status])

\* Mutant: the status of the key is not looked at.
GetCredentialsAnyStatus(db, k) ==
    IF k = Root THEN Root
    ELSE IF k \in DOMAIN db.keys /\ db.users[db.keys[k].user].status = "active"
    THEN db.keys[k].user ELSE None

(* get_credentials: the user behind a key, both of them active.              *)
GetCredentials(db, k) ==
    IF k = Root THEN Root
    ELSE IF /\ k \in DOMAIN db.keys
            /\ db.keys[k].status = "active"
            /\ db.users[db.keys[k].user].status = "active"
    THEN db.keys[k].user ELSE None

-----------------------------------------------------------------------------
(* Attached policies and groups.                                             *)
Replace(rows, owner, name, doc) ==
    {r \in rows : <<r[1], r[2]>> # <<owner, name>>} \cup {<<owner, name, doc>>}

InsertUserPolicy(db, u, name, doc) ==
    IF u \notin DOMAIN db.users THEN Err(db, "Database")
    ELSE Ok([db EXCEPT !.userPolicies = Replace(@, u, name, doc)])

DetachUserPolicy(db, u, name) ==
    IF ~ \E r \in db.userPolicies : r[1] = u /\ r[2] = name THEN Err(db, "PolicyNotFound")
    ELSE Ok([db EXCEPT !.userPolicies = {r \in @ : ~(r[1] = u /\ r[2] = name)}])

ListUserPolicies(db, u) ==
    IF u = Root THEN {AdminPolicy} ELSE {r[3] : r \in {p \in db.userPolicies : p[1] = u}}

CreateGroup(db, g) ==
    IF g \in db.groups THEN Err(db, "GroupExists")
    ELSE Ok([db EXCEPT !.groups = @ \cup {g}])

DeleteGroup(db, g) ==
    IF g \notin db.groups THEN Err(db, "GroupNotFound")
    ELSE Ok([db EXCEPT !.groups = @ \ {g},
                       !.members = {m \in @ : m[1] # g},
                       !.groupPolicies = {p \in @ : p[1] # g}])

(* The INSERT OR IGNORE of add_user_to_group: both foreign keys must hold.   *)
InsertMember(db, g, u) ==
    IF g \notin db.groups \/ u \notin DOMAIN db.users THEN Err(db, "Database")
    ELSE Ok([db EXCEPT !.members = @ \cup {<<g, u>>}])

RemoveUserFromGroup(db, g, u) == Ok([db EXCEPT !.members = @ \ {<<g, u>>}])

InsertGroupPolicy(db, g, name, doc) ==
    IF g \notin db.groups THEN Err(db, "Database")
    ELSE Ok([db EXCEPT !.groupPolicies = Replace(@, g, name, doc)])

DetachGroupPolicy(db, g, name) ==
    IF ~ \E r \in db.groupPolicies : r[1] = g /\ r[2] = name THEN Err(db, "PolicyNotFound")
    ELSE Ok([db EXCEPT !.groupPolicies = {r \in @ : ~(r[1] = g /\ r[2] = name)}])

ListGroupPolicies(db, g) == {r[3] : r \in {p \in db.groupPolicies : p[1] = g}}

ListUserGroups(db, u) == {g \in db.groups : <<g, u>> \in db.members}

(* Managed policies: templates an attachment copies.                         *)
CreatePolicy(db, name, doc) == Ok([db EXCEPT !.managed = Bind(@, name, doc)])

DeletePolicy(db, name) ==
    IF name \notin DOMAIN db.managed THEN Err(db, "PolicyNotFound")
    ELSE Ok([db EXCEPT !.managed = Without(@, {name})])

GetPolicy(db, name) == IF name \in DOMAIN db.managed THEN db.managed[name] ELSE None

-----------------------------------------------------------------------------
(* Bucket policies: no foreign key, the buckets are in another database.     *)
SetBucketPolicy(db, b, doc) == Ok([db EXCEPT !.bucketPolicies = Bind(@, b, doc)])

GetBucketPolicy(db, b) ==
    IF b \in DOMAIN db.bucketPolicies THEN db.bucketPolicies[b] ELSE None

DeleteBucketPolicy(db, b) ==
    IF b \notin DOMAIN db.bucketPolicies THEN Err(db, "PolicyNotFound")
    ELSE Ok([db EXCEPT !.bucketPolicies = Without(@, {b})])

IsAuthorizedByBucketPolicy(db, b, principal, action, resource) ==
    LET policy == GetBucketPolicy(db, b)
    IN  IF policy = None THEN None
        ELSE EvaluateBucketPolicy(policy, principal, action, resource, DefaultContext)

-----------------------------------------------------------------------------
(* Temporary credentials.  Of the expiration time only what it is compared   *)
(* for is kept: whether it has passed.                                       *)

\* Mutant: foreign keys are not enforced.
InsertTempUnchecked(db, k, u) == Ok([db EXCEPT !.temps = Bind(@, k, [user |-> u, expired |-> FALSE])])

InsertTemp(db, k, u) ==
    IF u \notin DOMAIN db.users THEN Err(db, "Database")
    ELSE Ok([db EXCEPT !.temps = Bind(@, k, [user |-> u, expired |-> FALSE])])

(* get_temp_credentials: unexpired, whatever the status of the user.         *)
GetTempCredentials(db, k) ==
    IF k \in DOMAIN db.temps /\ ~db.temps[k].expired THEN db.temps[k].user ELSE None

(* validate_session_token of the store: the token was handed out with k.     *)
TokenValid(db, k, token) ==
    k \in DOMAIN db.temps /\ token = k /\ ~db.temps[k].expired
=============================================================================
