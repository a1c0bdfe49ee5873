------------------------------ MODULE AdminApi ------------------------------
(* The identity half of the admin API: the authorization middleware and the  *)
(* handlers of crates/strix-admin/src (auth.rs, handlers.rs), with the       *)
(* functions of crates/strix-iam/src/store.rs that they await.  A task is    *)
(* one request in flight; every closure on the database is a step, so that   *)
(* requests interleave between any two of them.                              *)
(*                                                                           *)
(* An input of a request is chosen where it is first used.  HTTP statuses,   *)
(* bodies and the audit entry are left out.                                  *)
EXTENDS IamStore

CONSTANTS
    Tasks,          \* requests in flight
    Workloads,      \* sets of operations: those of one behaviour (a bound)
    Callers,        \* the users that hold a session token
    Judged,         \* the tasks whose requests are not root's (a bound: two
                    \* evaluations only read, so they do not meet)
    Requests,       \* the (action, resource) pairs asked about
    MaxKeys         \* access keys per user (2 in the code)

ASSUME KindsAssumption == None \notin {"s3", "admin", "simulate"}
ASSUME TasksAssumption == IsFiniteSet(Tasks) /\ MaxKeys \in Nat \ {0}

VARIABLES
    ops,            \* the operations requested in this behaviour
    db,             \* the IAM tables
    task,           \* task -> its request
    past            \* task -> what was so since the request began (history)

vars == <<ops, db, task, past>>

Idle == [pc |-> "idle", kind |-> None, who |-> None, action |-> None, resource |-> None,
         policies |-> {}, groups |-> {}, again |-> {}, user |-> None, group |-> None]

At(t, pc) == task[t].pc = pc

Goto(t, pc) == task' = [task EXCEPT ![t].pc = pc]

Finish(t) == task' = [task EXCEPT ![t] = Idle]

(* A generated id is random: it is in no row, and no request came with it.   *)
FreshIds(ids, rows) == ids \ (DOMAIN rows \cup {task[x].user : x \in Tasks})

(* One closure, then the response.                                           *)
Reply(t, result) == db' = result.db /\ Finish(t)

-----------------------------------------------------------------------------
(* auth_middleware and authorize_middleware.  A token names its subject and  *)
(* is checked by its signature alone, so Callers may hold users who are      *)
(* gone.  Root is not authorized any further: its requests start in the      *)
(* handler.                                                                  *)

(* authorization_target for the routes of this module: everything outside    *)
(* /buckets needs Action::All on all resources, /buckets/{b}/policy needs it *)
(* on the bucket.                                                            *)
AuthorizationTargets == {Resource(None, None)} \cup {Resource(b, None) : b \in Buckets}

AuthorizeMiddleware(t) ==
    /\ At(t, "idle") /\ t \in Judged
    /\ \E who \in Callers, r \in AuthorizationTargets :
        task' = [task EXCEPT ![t] = [Idle EXCEPT !.pc = "user_policies", !.kind = "admin", !.who = who,
                                                 !.action = "All", !.resource = r]]
    /\ UNCHANGED db

\* Mutant: the first policy that allows decides.
AllowedByAny(policies, action, resource) ==
    \E p \in policies : Evaluate(p, action, resource) = "Allow"

(* The loop over all_policies at the end of is_authorized.                   *)
Allowed(policies, action, resource) ==
    /\ \A p \in policies : Evaluate(p, action, resource) # "Deny"
    /\ \E p \in policies : Evaluate(p, action, resource) = "Allow"

(* The last read of is_authorized is followed, without an await, by the      *)
(* decision and by what the caller does with it.                             *)
Decided(k) ==
    LET ok == Allowed(k.policies, k.action, k.resource)
    IN  [k EXCEPT !.pc = IF k.groups # {} THEN "group_policies"
                         ELSE IF k.kind = "admin" THEN IF ok THEN "handle" ELSE "idle"
                         ELSE IF ok THEN "granted" ELSE "bucket_policy"]

Settle(k) == IF k.pc = "idle" THEN Idle ELSE k

(* is_authorized: the user's policies, the user's groups, the policies of    *)
(* each group, each in a closure of its own.                                 *)
IsAuthorized(t) ==
    /\ \/ /\ At(t, "user_policies")
          /\ task' = [task EXCEPT ![t].pc = "user_groups",
                                  ![t].policies = ListUserPolicies(db, task[t].who)]
       \/ /\ At(t, "user_groups")
          /\ task' = [task EXCEPT ![t] =
                        Settle(Decided([@ EXCEPT !.groups = ListUserGroups(db, task[t].who)]))]
       \/ /\ At(t, "group_policies")
          /\ \E g \in task[t].groups :
                task' = [task EXCEPT ![t] =
                            Settle(Decided([task[t] EXCEPT !.groups = @ \ {g},
                                                           !.policies = @ \cup ListGroupPolicies(db, g)]))]
    /\ UNCHANGED db

-----------------------------------------------------------------------------
(* Handlers: users and access keys.                                          *)
Handling(t, op) ==
    /\ op \in ops
    /\ At(t, "handle") \/ (At(t, "idle") /\ t \notin Judged)

(* The initial key's three closures follow the user's; their failure is      *)
(* ignored.                                                                  *)
HandleCreateUser(t) ==
    /\ Handling(t, "create_user")
    /\ \E u \in Users \cup {Root} :
        LET r == CreateUser(db, u)
        IN  /\ db' = r.db
            /\ IF r.res = "Ok"
               THEN task' = [task EXCEPT ![t].pc = "key_user", ![t].user = u]
               ELSE Finish(t)

HandleDeleteUser(t) ==
    /\ Handling(t, "delete_user")
    /\ \E u \in Users \cup {Root} : Reply(t, DeleteUser(db, u))

HandleUpdateUserStatus(t) ==
    /\ Handling(t, "update_user_status")
    /\ \E u \in Users \cup {Root}, s \in {"active", "inactive"} :
        Reply(t, UpdateUserStatus(db, u, s))

HandleCreateAccessKey(t) ==
    /\ Handling(t, "create_access_key")
    /\ \E u \in Users \cup {Root} :
        IF u = Root THEN Finish(t)
        ELSE task' = [task EXCEPT ![t].pc = "key_user", ![t].user = u]
    /\ UNCHANGED db

\* Mutant: keys are not counted.
CreateAccessKeyUncounted(t) ==
    \/ /\ At(t, "key_user")
       /\ IF UserExists(db, task[t].user) THEN Goto(t, "key_insert") ELSE Finish(t)
       /\ UNCHANGED db
    \/ /\ At(t, "key_insert")
       /\ \E k \in KeyIds \ DOMAIN db.keys : Reply(t, InsertAccessKey(db, k, task[t].user))

(* create_access_key of the store: get_user, list_access_keys, INSERT.       *)
CreateAccessKey(t) ==
    LET u == task[t].user
    IN  \/ /\ At(t, "key_user")
           /\ IF UserExists(db, u) THEN Goto(t, "key_count") ELSE Finish(t)
           /\ UNCHANGED db
        \/ /\ At(t, "key_count")
           /\ IF Cardinality(ListAccessKeys(db, u)) >= MaxKeys THEN Finish(t) ELSE Goto(t, "key_insert")
           /\ UNCHANGED db
        \/ /\ At(t, "key_insert")
           /\ \E k \in FreshIds(KeyIds, db.keys) : Reply(t, InsertAccessKey(db, k, u))

HandleDeleteAccessKey(t) ==
    /\ Handling(t, "delete_access_key")
    /\ \E k \in KeyIds \cup {Root} : Reply(t, DeleteAccessKey(db, k))

HandleUpdateAccessKey(t) ==
    /\ Handling(t, "update_access_key")
    /\ \E k \in KeyIds \cup {Root}, s \in {"active", "inactive"} :
        Reply(t, UpdateAccessKeyStatus(db, k, s))

-----------------------------------------------------------------------------
(* Handlers: policies and groups.                                            *)
HandleAttachUserPolicy(t) ==
    /\ Handling(t, "attach_user_policy")
    /\ \E u \in Users \cup {Root} :
        IF u = Root THEN Finish(t)
        ELSE task' = [task EXCEPT ![t].pc = "attach_user", ![t].user = u]
    /\ UNCHANGED db

(* attach_user_policy of the store: get_user, INSERT OR REPLACE.             *)
AttachUserPolicy(t) ==
    \/ /\ At(t, "attach_user")
       /\ IF UserExists(db, task[t].user) THEN Goto(t, "attach_user_insert") ELSE Finish(t)
       /\ UNCHANGED db
    \/ /\ At(t, "attach_user_insert")
       /\ \E name \in PolicyNames, doc \in Documents :
            Reply(t, InsertUserPolicy(db, task[t].user, name, doc))

HandleDetachUserPolicy(t) ==
    /\ Handling(t, "detach_user_policy")
    /\ \E u \in Users, name \in PolicyNames : Reply(t, DetachUserPolicy(db, u, name))

HandleCreateGroup(t) ==
    /\ Handling(t, "create_group")
    /\ \E g \in Groups : Reply(t, CreateGroup(db, g))

HandleDeleteGroup(t) ==
    /\ Handling(t, "delete_group")
    /\ \E g \in Groups : Reply(t, DeleteGroup(db, g))

HandleAddUserToGroup(t) ==
    /\ Handling(t, "add_user_to_group")
    /\ \E g \in Groups, u \in Users \cup {Root} :
        task' = [task EXCEPT ![t].pc = "member_group", ![t].group = g, ![t].user = u]
    /\ UNCHANGED db

(* add_user_to_group of the store: get_group, get_user, INSERT OR IGNORE.    *)
AddUserToGroup(t) ==
    LET k == task[t]
    IN  \/ /\ At(t, "member_group")
           /\ IF k.group \in db.groups THEN Goto(t, "member_user") ELSE Finish(t)
           /\ UNCHANGED db
        \/ /\ At(t, "member_user")
           /\ IF UserExists(db, k.user) THEN Goto(t, "member_insert") ELSE Finish(t)
           /\ UNCHANGED db
        \/ /\ At(t, "member_insert")
           /\ Reply(t, InsertMember(db, k.group, k.user))

HandleRemoveUserFromGroup(t) ==
    /\ Handling(t, "remove_user_from_group")
    /\ \E g \in Groups, u \in Users : Reply(t, RemoveUserFromGroup(db, g, u))

HandleAttachGroupPolicy(t) ==
    /\ Handling(t, "attach_group_policy")
    /\ \E g \in Groups : task' = [task EXCEPT ![t].pc = "attach_group", ![t].group = g]
    /\ UNCHANGED db

(* attach_group_policy of the store: get_group, INSERT OR REPLACE.           *)
AttachGroupPolicy(t) ==
    \/ /\ At(t, "attach_group")
       /\ IF task[t].group \in db.groups THEN Goto(t, "attach_group_insert") ELSE Finish(t)
       /\ UNCHANGED db
    \/ /\ At(t, "attach_group_insert")
       /\ \E name \in PolicyNames, doc \in Documents :
            Reply(t, InsertGroupPolicy(db, task[t].group, name, doc))

HandleDetachGroupPolicy(t) ==
    /\ Handling(t, "detach_group_policy")
    /\ \E g \in Groups, name \in PolicyNames : Reply(t, DetachGroupPolicy(db, g, name))

HandleSetBucketPolicy(t) ==
    /\ Handling(t, "set_bucket_policy")
    /\ \E b \in Buckets, doc \in BucketDocs : Reply(t, SetBucketPolicy(db, b, doc))

HandleDeleteBucketPolicy(t) ==
    /\ Handling(t, "delete_bucket_policy")
    /\ \E b \in Buckets : Reply(t, DeleteBucketPolicy(db, b))

(* The managed policies, of which an attachment holds a copy.                *)
HandleCreateManagedPolicy(t) ==
    /\ Handling(t, "create_managed_policy")
    /\ \E name \in PolicyNames, doc \in Documents : Reply(t, CreatePolicy(db, name, doc))

HandleDeleteManagedPolicy(t) ==
    /\ Handling(t, "delete_managed_policy")
    /\ \E name \in PolicyNames : Reply(t, DeletePolicy(db, name))

(* get_user: the user, and the user's policies in another closure.           *)
HandleGetUser(t) ==
    /\ \/ /\ Handling(t, "get_user")
          /\ \E u \in Users \cup {Root} :
                IF UserExists(db, u) THEN task' = [task EXCEPT ![t].pc = "show_policies", ![t].user = u]
                ELSE Finish(t)
       \/ At(t, "show_policies") /\ Finish(t)
    /\ UNCHANGED db

(* get_group, get_managed_policy and get_bucket_policy read one row.         *)
HandleGetRow(t, op) == Handling(t, op) /\ Finish(t) /\ UNCHANGED db
HandleGetGroup(t) == HandleGetRow(t, "get_group")
HandleGetManagedPolicy(t) == HandleGetRow(t, "get_managed_policy")
HandleGetBucketPolicy(t) == HandleGetRow(t, "get_bucket_policy")

(* generate_presign_url signs for root, whoever asks: who has the URL comes  *)
(* with root's credential (S3Arrive in module S3Access).                     *)
HandleGeneratePresignUrl(t) == HandleGetRow(t, "generate_presign_url")

-----------------------------------------------------------------------------
(* Handlers: temporary credentials and the policy simulator.                 *)

(* Bound: temporary ids are never used up.                                   *)
TempsLeft ==
    Cardinality(TempIds \ DOMAIN db.temps)
        > Cardinality({t \in Tasks : task[t].pc \in {"assume_user", "assume_insert"}})

HandleAssumeRole(t) ==
    /\ Handling(t, "assume_role")
    /\ TempsLeft
    /\ \E u \in Users \cup {Root} :
        task' = [task EXCEPT ![t].pc = "assume_user", ![t].user = u]
    /\ UNCHANGED db

(* assume_role of the store: an existing, active user, then the INSERT (the  *)
(* root user is not a row, so its foreign key fails).                        *)
AssumeRole(t) ==
    LET u == task[t].user
    IN  \/ /\ At(t, "assume_user")
           /\ IF UserExists(db, u) /\ UserStatus(db, u) = "active"
              THEN Goto(t, "assume_insert") ELSE Finish(t)
           /\ UNCHANGED db
        \/ /\ At(t, "assume_insert")
           /\ \E k \in FreshIds(TempIds, db.temps) : Reply(t, InsertTemp(db, k, u))

(* simulate_policy is is_authorized_detailed for a user and a request of its *)
(* choice: a pass for the denials (the user's, then each group's) and a pass *)
(* for the permissions, which reads the groups' policies again.  who is the  *)
(* user asked about, policies what the first closure returned.  (The caller  *)
(* of the simulator is root here.)                                           *)
HandleSimulatePolicy(t) ==
    /\ "simulate_policy" \in ops /\ At(t, "idle") /\ t \in Judged
    /\ \E u \in Users, s \in Requests :
        task' = [task EXCEPT ![t] = [Idle EXCEPT !.pc = "sim_user", !.kind = "simulate", !.who = u,
                                                 !.action = s.action, !.resource = s.resource]]
    /\ UNCHANGED db

Some(policies, k, effect) == \E p \in policies : Evaluate(p, k.action, k.resource) = effect

(* groups are those the running pass has still to read, again those of the   *)
(* second pass.                                                              *)
IsAuthorizedDetailed(t) ==
    LET k == task[t]
        allowPass(j) == IF Some(j.policies, j, "Allow") THEN [j EXCEPT !.pc = "granted"]
                        ELSE IF j.again = {} THEN Idle
                        ELSE [j EXCEPT !.pc = "sim_allow", !.groups = j.again]
    IN  /\ \/ /\ At(t, "sim_user")
              /\ LET policies == ListUserPolicies(db, k.who)
                 IN  task' = [task EXCEPT ![t] =
                        IF Some(policies, k, "Deny") THEN Idle
                        ELSE [k EXCEPT !.pc = "sim_groups", !.policies = policies]]
           \/ /\ At(t, "sim_groups")
              /\ LET groups == ListUserGroups(db, k.who)
                     j == [k EXCEPT !.pc = "sim_deny", !.groups = groups, !.again = groups]
                 IN  task' = [task EXCEPT ![t] = IF groups = {} THEN allowPass(j) ELSE j]
           \/ /\ At(t, "sim_deny")
              /\ \E g \in k.groups :
                    LET j == [k EXCEPT !.groups = @ \ {g}]
                    IN  task' = [task EXCEPT ![t] =
                            IF Some(ListGroupPolicies(db, g), k, "Deny") THEN Idle
                            ELSE IF j.groups = {} THEN allowPass(j) ELSE j]
           \/ /\ At(t, "sim_allow")
              /\ \E g \in k.groups :
                    task' = [task EXCEPT ![t] =
                        IF Some(ListGroupPolicies(db, g), k, "Allow") THEN [k EXCEPT !.pc = "granted"]
                        ELSE IF k.groups = {g} THEN Idle ELSE [k EXCEPT !.groups = @ \ {g}]]
        /\ UNCHANGED db

-----------------------------------------------------------------------------
AdminStep(t) ==
    \/ AuthorizeMiddleware(t)
    \/ IsAuthorized(t)
    \/ HandleCreateUser(t) \/ HandleDeleteUser(t) \/ HandleUpdateUserStatus(t)
    \/ HandleCreateAccessKey(t) \/ CreateAccessKey(t)
    \/ HandleDeleteAccessKey(t) \/ HandleUpdateAccessKey(t)
    \/ HandleAttachUserPolicy(t) \/ AttachUserPolicy(t) \/ HandleDetachUserPolicy(t)
    \/ HandleCreateGroup(t) \/ HandleDeleteGroup(t)
    \/ HandleAddUserToGroup(t) \/ AddUserToGroup(t) \/ HandleRemoveUserFromGroup(t)
    \/ HandleAttachGroupPolicy(t) \/ AttachGroupPolicy(t) \/ HandleDetachGroupPolicy(t)
    \/ HandleSetBucketPolicy(t) \/ HandleDeleteBucketPolicy(t)
    \/ HandleCreateManagedPolicy(t) \/ HandleDeleteManagedPolicy(t)
    \/ HandleGetUser(t) \/ HandleGetGroup(t) \/ HandleGetManagedPolicy(t) \/ HandleGetBucketPolicy(t)
    \/ HandleGeneratePresignUrl(t)
    \/ HandleAssumeRole(t) \/ AssumeRole(t)
    \/ HandleSimulatePolicy(t) \/ IsAuthorizedDetailed(t)
=============================================================================
