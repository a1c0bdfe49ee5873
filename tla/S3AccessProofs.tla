--------------------------- MODULE S3AccessProofs ---------------------------
(* Theorems about S3Access: the IAM tables stay typed and linked, and what   *)
(* is decided from them while they change under the requests in flight.      *)
EXTENDS S3Access, IamStoreProofs

-----------------------------------------------------------------------------
(* The handlers and the functions of the store they await.                   *)
TaskFields == {"pc", "kind", "who", "action", "resource", "policies", "groups", "again", "user", "group"}

StorePcs == {"key_user", "key_count", "key_insert", "attach_user", "attach_user_insert",
             "member_group", "member_user", "member_insert", "attach_group", "attach_group_insert",
             "show_policies", "assume_user", "assume_insert"}

TasksOK == /\ DOMAIN task = Tasks
           /\ \A t \in Tasks : DOMAIN task[t] = TaskFields

StoreStep(t) ==
    \/ HandleCreateUser(t) \/ HandleDeleteUser(t) \/ HandleUpdateUserStatus(t)
    \/ HandleCreateAccessKey(t) \/ CreateAccessKey(t)
    \/ HandleDeleteAccessKey(t) \/ HandleUpdateAccessKey(t)
    \/ HandleAttachUserPolicy(t) \/ AttachUserPolicy(t) \/ HandleDetachUserPolicy(t)
    \/ HandleCreateGroup(t) \/ HandleDeleteGroup(t)
    \/ HandleAddUserToGroup(t) \/ AddUserToGroup(t) \/ HandleRemoveUserFromGroup(t)
    \/ HandleAttachGroupPolicy(t) \/ AttachGroupPolicy(t) \/ HandleDetachGroupPolicy(t)
    \/ HandleSetBucketPolicy(t) \/ HandleDeleteBucketPolicy(t)
    \/ HandleCreateManagedPolicy(t) \/ HandleDeleteManagedPolicy(t)
    \/ HandleGetUser(t) \/ HandleGetGroup(t) \/ HandleGetManagedPolicy(t) \/ HandleGetBucketPolicy(t)
    \/ HandleGeneratePresignUrl(t)
    \/ HandleAssumeRole(t) \/ AssumeRole(t)

(* The step answers the request, or goes on to another closure of the store. *)
Answers(t) == task' = [task EXCEPT ![t] = Idle]

Awaits(t) ==
    /\ task[t].pc \in {"idle", "handle"} \cup StorePcs
    /\ task' = [task EXCEPT ![t] = task'[t]]
    /\ DOMAIN task'[t] = TaskFields
    /\ task'[t].kind = task[t].kind
    /\ task'[t].pc \in StorePcs
    /\ task'[t].pc = "key_insert" =>
        /\ task'[t].user = task[t].user
        /\ Cardinality(ListAccessKeys(db, task[t].user)) < MaxKeys
        /\ db' = db

(* The only steps that add a key or a temporary credential.                  *)
AddsKey(t) ==
    /\ task[t].pc = "key_insert" /\ Answers(t)
    /\ db'.temps = db.temps
    /\ \E k : /\ \A x \in DOMAIN db'.keys \ {k} : x \in DOMAIN db.keys /\ db'.keys[x].user = db.keys[x].user
              /\ k \notin DOMAIN db.keys
              /\ k \in DOMAIN db'.keys => db'.keys[k].user = task[t].user

AddsTemp(t) ==
    /\ db'.keys = db.keys
    /\ \E k : /\ \A x \in Tasks : task[x].user # k
              /\ \A x \in DOMAIN db'.temps \ {k} :
                    x \in DOMAIN db.temps /\ db'.temps[x].user = db.temps[x].user

StoreMove(t) ==
    /\ Good(db')
    /\ Answers(t) \/ Awaits(t)
    /\ Calm(db, db') \/ AddsKey(t) \/ AddsTemp(t)

LEMMA AnsweredMove ==
    ASSUME NEW t, Answers(t), Good(db'), Calm(db, db')
    PROVE  StoreMove(t)
BY DEF StoreMove

LEMMA AwaitingMove ==
    ASSUME Good(db), NEW t, Awaits(t), UNCHANGED db
    PROVE  StoreMove(t)
<1>1. Good(db') /\ Calm(db, db')
    BY NothingIsCalm, Zenon
<1> QED
    BY <1>1 DEF StoreMove

(* The task that goes on to another closure.                                 *)
LEMMA GotoAwaits ==
    ASSUME TasksOK, NEW t \in Tasks, NEW pc \in StorePcs \ {"key_insert"},
           task[t].pc \in StorePcs, Goto(t, pc)
    PROVE  Awaits(t)
BY DEF TasksOK, Goto, Awaits, TaskFields, StorePcs

(* The handlers that are one closure.                                        *)
LEMMA OneClosureMoves ==
    ASSUME Good(db), NEW t \in Tasks,
           \/ HandleDeleteUser(t) \/ HandleUpdateUserStatus(t) \/ HandleDeleteAccessKey(t)
           \/ HandleUpdateAccessKey(t) \/ HandleDetachUserPolicy(t) \/ HandleCreateGroup(t)
           \/ HandleDeleteGroup(t) \/ HandleRemoveUserFromGroup(t) \/ HandleDetachGroupPolicy(t)
           \/ HandleSetBucketPolicy(t) \/ HandleDeleteBucketPolicy(t) \/ HandleCreateManagedPolicy(t)
           \/ HandleDeleteManagedPolicy(t)
    PROVE  StoreMove(t)
<1>1. CASE HandleDeleteUser(t)
    <2>1. PICK u \in Users \cup {Root} : Reply(t, DeleteUser(db, u))
        BY <1>1 DEF HandleDeleteUser
    <2>2. Good(db') /\ Calm(db, db')
        BY <2>1, DeleteUserIsGood DEF Reply
    <2> QED
        BY <2>1, <2>2, AnsweredMove DEF Reply, Finish, Answers
<1>2. CASE HandleUpdateUserStatus(t)
    <2>1. PICK u \in Users \cup {Root}, s \in {"active", "inactive"} : Reply(t, UpdateUserStatus(db, u, s))
        BY <1>2 DEF HandleUpdateUserStatus
    <2>2. Good(db') /\ Calm(db, db')
        BY <2>1, UpdateUserStatusIsGood DEF Reply, Statuses
    <2> QED
        BY <2>1, <2>2, AnsweredMove DEF Reply, Finish, Answers
<1>3. CASE HandleDeleteAccessKey(t)
    <2>1. PICK k \in KeyIds \cup {Root} : Reply(t, DeleteAccessKey(db, k))
        BY <1>3 DEF HandleDeleteAccessKey
    <2>2. Good(db') /\ Calm(db, db')
        BY <2>1, DeleteAccessKeyIsGood DEF Reply
    <2> QED
        BY <2>1, <2>2, AnsweredMove DEF Reply, Finish, Answers
<1>4. CASE HandleUpdateAccessKey(t)
    <2>1. PICK k \in KeyIds \cup {Root}, s \in {"active", "inactive"} : Reply(t, UpdateAccessKeyStatus(db, k, s))
        BY <1>4 DEF HandleUpdateAccessKey
    <2>2. Good(db') /\ Calm(db, db')
        BY <2>1, UpdateAccessKeyStatusIsGood DEF Reply, Statuses
    <2> QED
        BY <2>1, <2>2, AnsweredMove DEF Reply, Finish, Answers
<1>5. CASE HandleDetachUserPolicy(t)
    <2>1. PICK u \in Users, name \in PolicyNames : Reply(t, DetachUserPolicy(db, u, name))
        BY <1>5 DEF HandleDetachUserPolicy
    <2>2. Good(db') /\ Calm(db, db')
        BY <2>1, DetachUserPolicyIsGood DEF Reply
    <2> QED
        BY <2>1, <2>2, AnsweredMove DEF Reply, Finish, Answers
<1>6. CASE HandleCreateGroup(t)
    <2>1. PICK g \in Groups : Reply(t, CreateGroup(db, g))
        BY <1>6 DEF HandleCreateGroup
    <2>2. Good(db') /\ Calm(db, db')
        BY <2>1, CreateGroupIsGood DEF Reply
    <2> QED
        BY <2>1, <2>2, AnsweredMove DEF Reply, Finish, Answers
<1>7. CASE HandleDeleteGroup(t)
    <2>1. PICK g \in Groups : Reply(t, DeleteGroup(db, g))
        BY <1>7 DEF HandleDeleteGroup
    <2>2. Good(db') /\ Calm(db, db')
        BY <2>1, DeleteGroupIsGood DEF Reply
    <2> QED
        BY <2>1, <2>2, AnsweredMove DEF Reply, Finish, Answers
<1>8. CASE HandleRemoveUserFromGroup(t)
    <2>1. PICK g \in Groups, u \in Users : Reply(t, RemoveUserFromGroup(db, g, u))
        BY <1>8 DEF HandleRemoveUserFromGroup
    <2>2. Good(db') /\ Calm(db, db')
        BY <2>1, RemoveUserFromGroupIsGood DEF Reply
    <2> QED
        BY <2>1, <2>2, AnsweredMove DEF Reply, Finish, Answers
<1>9. CASE HandleDetachGroupPolicy(t)
    <2>1. PICK g \in Groups, name \in PolicyNames : Reply(t, DetachGroupPolicy(db, g, name))
        BY <1>9 DEF HandleDetachGroupPolicy
    <2>2. Good(db') /\ Calm(db, db')
        BY <2>1, DetachGroupPolicyIsGood DEF Reply
    <2> QED
        BY <2>1, <2>2, AnsweredMove DEF Reply, Finish, Answers
<1>10. CASE HandleSetBucketPolicy(t)
    <2>1. PICK b \in Buckets, doc \in BucketDocs : Reply(t, SetBucketPolicy(db, b, doc))
        BY <1>10 DEF HandleSetBucketPolicy
    <2>2. Good(db') /\ Calm(db, db')
        BY <2>1, SetBucketPolicyIsGood DEF Reply
    <2> QED
        BY <2>1, <2>2, AnsweredMove DEF Reply, Finish, Answers
<1>11. CASE HandleDeleteBucketPolicy(t)
    <2>1. PICK b \in Buckets : Reply(t, DeleteBucketPolicy(db, b))
        BY <1>11 DEF HandleDeleteBucketPolicy
    <2>2. Good(db') /\ Calm(db, db')
        BY <2>1, DeleteBucketPolicyIsGood DEF Reply
    <2> QED
        BY <2>1, <2>2, AnsweredMove DEF Reply, Finish, Answers
<1>12. CASE HandleCreateManagedPolicy(t)
    <2>1. PICK name \in PolicyNames, doc \in Documents : Reply(t, CreatePolicy(db, name, doc))
        BY <1>12 DEF HandleCreateManagedPolicy
    <2>2. Good(db') /\ Calm(db, db')
        BY <2>1, CreatePolicyIsGood DEF Reply
    <2> QED
        BY <2>1, <2>2, AnsweredMove DEF Reply, Finish, Answers
<1>13. CASE HandleDeleteManagedPolicy(t)
    <2>1. PICK name \in PolicyNames : Reply(t, DeletePolicy(db, name))
        BY <1>13 DEF HandleDeleteManagedPolicy
    <2>2. Good(db') /\ Calm(db, db')
        BY <2>1, DeletePolicyIsGood DEF Reply
    <2> QED
        BY <2>1, <2>2, AnsweredMove DEF Reply, Finish, Answers
<1> QED
    BY <1>1, <1>2, <1>3, <1>4, <1>5, <1>6, <1>7, <1>8, <1>9, <1>10, <1>11, <1>12, <1>13

(* The handlers that go on into a function of the store.                     *)
LEMMA HandlersMove ==
    ASSUME Good(db), TasksOK, NEW t \in Tasks,
           \/ HandleCreateUser(t) \/ HandleCreateAccessKey(t) \/ HandleAttachUserPolicy(t)
           \/ HandleAddUserToGroup(t) \/ HandleAttachGroupPolicy(t) \/ HandleAssumeRole(t)
    PROVE  StoreMove(t)
<1>0. (Good(db') /\ Calm(db, db')) \/ db' # db
    BY NothingIsCalm, Zenon
<1>1. CASE HandleCreateUser(t)
    <2>1. PICK u \in Users \cup {Root} :
            LET r == CreateUser(db, u)
            IN  /\ db' = r.db
                /\ IF r.res = "Ok" THEN task' = [task EXCEPT ![t].pc = "key_user", ![t].user = u]
                   ELSE Finish(t)
        BY <1>1 DEF HandleCreateUser
    <2>2. Good(db') /\ Calm(db, db')
        BY <2>1, CreateUserIsGood
    <2>3. Answers(t) \/ Awaits(t)
        <3>1. task[t].pc \in {"idle", "handle"} /\ "key_user" \in StorePcs \ {"key_insert"}
            BY <1>1 DEF HandleCreateUser, Handling, At, StorePcs
        <3>2. CASE task' = [task EXCEPT ![t].pc = "key_user", ![t].user = u]
            BY <3>1, <3>2 DEF TasksOK, Awaits, TaskFields, StorePcs
        <3>3. CASE Finish(t)
            BY <3>3 DEF Finish, Answers
        <3> QED
            BY <2>1, <3>2, <3>3
    <2> QED
        BY <2>2, <2>3 DEF StoreMove
<1>2. CASE HandleCreateAccessKey(t)
    <2>1. PICK u \in Users \cup {Root} :
            IF u = Root THEN Finish(t) ELSE task' = [task EXCEPT ![t].pc = "key_user", ![t].user = u]
        BY <1>2 DEF HandleCreateAccessKey
    <2>2. task[t].pc \in {"idle", "handle"} /\ "key_user" \in StorePcs \ {"key_insert"} /\ UNCHANGED db
        BY <1>2 DEF HandleCreateAccessKey, Handling, At, StorePcs
    <2>3. CASE u = Root
        BY <1>0, <2>1, <2>2, <2>3, AnsweredMove DEF Finish, Answers
    <2>4. CASE u # Root
        <3>1. Awaits(t)
            BY <2>1, <2>2, <2>4 DEF TasksOK, Awaits, TaskFields, StorePcs
        <3> QED
            BY <2>2, <3>1, AwaitingMove
    <2> QED
        BY <2>3, <2>4
<1>3. CASE HandleAttachUserPolicy(t)
    <2>1. PICK u \in Users \cup {Root} :
            IF u = Root THEN Finish(t) ELSE task' = [task EXCEPT ![t].pc = "attach_user", ![t].user = u]
        BY <1>3 DEF HandleAttachUserPolicy
    <2>2. task[t].pc \in {"idle", "handle"} /\ "attach_user" \in StorePcs \ {"key_insert"} /\ UNCHANGED db
        BY <1>3 DEF HandleAttachUserPolicy, Handling, At, StorePcs
    <2>3. CASE u = Root
        BY <1>0, <2>1, <2>2, <2>3, AnsweredMove DEF Finish, Answers
    <2>4. CASE u # Root
        <3>1. Awaits(t)
            BY <2>1, <2>2, <2>4 DEF TasksOK, Awaits, TaskFields, StorePcs
        <3> QED
            BY <2>2, <3>1, AwaitingMove
    <2> QED
        BY <2>3, <2>4
<1>4. CASE HandleAddUserToGroup(t)
    <2>1. PICK g \in Groups, u \in Users \cup {Root} :
            task' = [task EXCEPT ![t].pc = "member_group", ![t].group = g, ![t].user = u]
        BY <1>4 DEF HandleAddUserToGroup
    <2>2. task[t].pc \in {"idle", "handle"} /\ UNCHANGED db
        BY <1>4 DEF HandleAddUserToGroup, Handling, At
    <2>3. Awaits(t)
        BY <2>1, <2>2 DEF TasksOK, Awaits, TaskFields, StorePcs
    <2> QED
        BY <2>2, <2>3, AwaitingMove
<1>5. CASE HandleAttachGroupPolicy(t)
    <2>1. PICK g \in Groups : task' = [task EXCEPT ![t].pc = "attach_group", ![t].group = g]
        BY <1>5 DEF HandleAttachGroupPolicy
    <2>2. task[t].pc \in {"idle", "handle"} /\ UNCHANGED db
        BY <1>5 DEF HandleAttachGroupPolicy, Handling, At
    <2>3. Awaits(t)
        BY <2>1, <2>2 DEF TasksOK, Awaits, TaskFields, StorePcs
    <2> QED
        BY <2>2, <2>3, AwaitingMove
<1>6. CASE HandleAssumeRole(t)
    <2>1. PICK u \in Users \cup {Root} : task' = [task EXCEPT ![t].pc = "assume_user", ![t].user = u]
        BY <1>6 DEF HandleAssumeRole
    <2>2. task[t].pc \in {"idle", "handle"} /\ "assume_user" \in StorePcs \ {"key_insert"} /\ UNCHANGED db
        BY <1>6 DEF HandleAssumeRole, Handling, At, StorePcs
    <2>3. Awaits(t)
        BY <2>1, <2>2 DEF TasksOK, Awaits, TaskFields, StorePcs
    <2> QED
        BY <2>2, <2>3, AwaitingMove
<1> QED
    BY <1>1, <1>2, <1>3, <1>4, <1>5, <1>6

(* A check of a function of the store: the next closure, or the answer.      *)
LEMMA CheckMoves ==
    ASSUME Good(db), TasksOK, NEW t \in Tasks, task[t].pc \in StorePcs, UNCHANGED db,
           NEW pc \in StorePcs \ {"key_insert"}, Goto(t, pc) \/ Finish(t)
    PROVE  StoreMove(t)
<1>1. CASE Goto(t, pc)
    BY <1>1, GotoAwaits, AwaitingMove
<1>2. CASE Finish(t)
    <2>1. Good(db') /\ Calm(db, db')
        BY NothingIsCalm, Zenon
    <2> QED
        BY <1>2, <2>1, AnsweredMove DEF Finish, Answers
<1> QED
    BY <1>1, <1>2

(* The functions of the store: their checks and the INSERT at the end.       *)
LEMMA CreateAccessKeyMoves ==
    ASSUME Good(db), TasksOK, NEW t \in Tasks, CreateAccessKey(t)
    PROVE  StoreMove(t)
<1> DEFINE u == task[t].user
<1>1. CASE /\ At(t, "key_user")
           /\ IF UserExists(db, u) THEN Goto(t, "key_count") ELSE Finish(t)
           /\ UNCHANGED db
    <2>1. task[t].pc \in StorePcs /\ "key_count" \in StorePcs \ {"key_insert"}
        BY <1>1 DEF At, StorePcs
    <2> QED
        BY <1>1, <2>1, CheckMoves
<1>2. CASE /\ At(t, "key_count")
           /\ IF Cardinality(ListAccessKeys(db, u)) >= MaxKeys THEN Finish(t) ELSE Goto(t, "key_insert")
           /\ UNCHANGED db
    <2>1. task[t].pc \in StorePcs /\ "key_count" \in StorePcs \ {"key_insert"}
        BY <1>2 DEF At, StorePcs
    <2>2. CASE Cardinality(ListAccessKeys(db, u)) >= MaxKeys
        BY <1>2, <2>1, <2>2, CheckMoves
    <2>3. CASE ~(Cardinality(ListAccessKeys(db, u)) >= MaxKeys)
        <3>1. Cardinality(ListAccessKeys(db, u)) \in Nat
            BY KeysAreFinite
        <3>2. Awaits(t)
            BY <1>2, <2>1, <2>3, <3>1, TasksAssumption DEF TasksOK, Goto, Awaits, TaskFields, StorePcs
        <3> QED
            BY <1>2, <3>2, AwaitingMove
    <2> QED
        BY <2>2, <2>3
<1>3. CASE /\ At(t, "key_insert")
           /\ \E k \in FreshIds(KeyIds, db.keys) : Reply(t, InsertAccessKey(db, k, u))
    <2>1. PICK k \in FreshIds(KeyIds, db.keys) : Reply(t, InsertAccessKey(db, k, u))
        BY <1>3
    <2>2. db' = InsertAccessKey(db, k, u).db /\ Answers(t)
        BY <2>1 DEF Reply, Finish, Answers
    <2>3. /\ Good(db')
          /\ db'.temps = db.temps
          /\ \A x \in DOMAIN db'.keys \ {k} : x \in DOMAIN db.keys /\ db'.keys[x].user = db.keys[x].user
          /\ k \in DOMAIN db'.keys \ DOMAIN db.keys => db'.keys[k].user = u
        BY <2>2, InsertAccessKeyIsGood
    <2>4. AddsKey(t)
        BY <1>3, <2>2, <2>3 DEF AddsKey, At, FreshIds
    <2> QED
        BY <2>2, <2>3, <2>4 DEF StoreMove
<1> QED
    BY <1>1, <1>2, <1>3 DEF CreateAccessKey

LEMMA AttachUserPolicyMoves ==
    ASSUME Good(db), TasksOK, NEW t \in Tasks, AttachUserPolicy(t)
    PROVE  StoreMove(t)
<1>1. CASE /\ At(t, "attach_user")
           /\ IF UserExists(db, task[t].user) THEN Goto(t, "attach_user_insert") ELSE Finish(t)
           /\ UNCHANGED db
    <2>1. task[t].pc \in StorePcs /\ "attach_user_insert" \in StorePcs \ {"key_insert"}
        BY <1>1 DEF At, StorePcs
    <2> QED
        BY <1>1, <2>1, CheckMoves
<1>2. CASE \E name \in PolicyNames, doc \in Documents :
                Reply(t, InsertUserPolicy(db, task[t].user, name, doc))
    <2>1. PICK name \in PolicyNames, doc \in Documents :
                Reply(t, InsertUserPolicy(db, task[t].user, name, doc))
        BY <1>2
    <2>2. Good(db') /\ Calm(db, db')
        BY <2>1, InsertUserPolicyIsGood DEF Reply
    <2> QED
        BY <2>1, <2>2, AnsweredMove DEF Reply, Finish, Answers
<1> QED
    BY <1>1, <1>2 DEF AttachUserPolicy

LEMMA AddUserToGroupMoves ==
    ASSUME Good(db), TasksOK, NEW t \in Tasks, AddUserToGroup(t)
    PROVE  StoreMove(t)
<1> DEFINE k == task[t]
<1>1. CASE /\ At(t, "member_group")
           /\ IF k.group \in db.groups THEN Goto(t, "member_user") ELSE Finish(t)
           /\ UNCHANGED db
    <2>1. task[t].pc \in StorePcs /\ "member_user" \in StorePcs \ {"key_insert"}
        BY <1>1 DEF At, StorePcs
    <2> QED
        BY <1>1, <2>1, CheckMoves
<1>2. CASE /\ At(t, "member_user")
           /\ IF UserExists(db, k.user) THEN Goto(t, "member_insert") ELSE Finish(t)
           /\ UNCHANGED db
    <2>1. task[t].pc \in StorePcs /\ "member_insert" \in StorePcs \ {"key_insert"}
        BY <1>2 DEF At, StorePcs
    <2> QED
        BY <1>2, <2>1, CheckMoves
<1>3. CASE Reply(t, InsertMember(db, k.group, k.user))
    <2>1. Good(db') /\ Calm(db, db')
        BY <1>3, InsertMemberIsGood DEF Reply
    <2> QED
        BY <1>3, <2>1, AnsweredMove DEF Reply, Finish, Answers
<1> QED
    BY <1>1, <1>2, <1>3 DEF AddUserToGroup

LEMMA AttachGroupPolicyMoves ==
    ASSUME Good(db), TasksOK, NEW t \in Tasks, AttachGroupPolicy(t)
    PROVE  StoreMove(t)
<1>1. CASE /\ At(t, "attach_group")
           /\ IF task[t].group \in db.groups THEN Goto(t, "attach_group_insert") ELSE Finish(t)
           /\ UNCHANGED db
    <2>1. task[t].pc \in StorePcs /\ "attach_group_insert" \in StorePcs \ {"key_insert"}
        BY <1>1 DEF At, StorePcs
    <2> QED
        BY <1>1, <2>1, CheckMoves
<1>2. CASE \E name \in PolicyNames, doc \in Documents :
                Reply(t, InsertGroupPolicy(db, task[t].group, name, doc))
    <2>1. PICK name \in PolicyNames, doc \in Documents :
                Reply(t, InsertGroupPolicy(db, task[t].group, name, doc))
        BY <1>2
    <2>2. Good(db') /\ Calm(db, db')
        BY <2>1, InsertGroupPolicyIsGood DEF Reply
    <2> QED
        BY <2>1, <2>2, AnsweredMove DEF Reply, Finish, Answers
<1> QED
    BY <1>1, <1>2 DEF AttachGroupPolicy

LEMMA AssumeRoleMoves ==
    ASSUME Good(db), TasksOK, NEW t \in Tasks, AssumeRole(t)
    PROVE  StoreMove(t)
<1> DEFINE u == task[t].user
<1>1. CASE /\ At(t, "assume_user")
           /\ IF UserExists(db, u) /\ UserStatus(db, u) = "active"
              THEN Goto(t, "assume_insert") ELSE Finish(t)
           /\ UNCHANGED db
    <2>1. task[t].pc \in StorePcs /\ "assume_insert" \in StorePcs \ {"key_insert"}
        BY <1>1 DEF At, StorePcs
    <2> QED
        BY <1>1, <2>1, CheckMoves
<1>2. CASE \E k \in FreshIds(TempIds, db.temps) : Reply(t, InsertTemp(db, k, u))
    <2>1. PICK k \in FreshIds(TempIds, db.temps) : Reply(t, InsertTemp(db, k, u))
        BY <1>2
    <2>2. db' = InsertTemp(db, k, u).db /\ Answers(t)
        BY <2>1 DEF Reply, Finish, Answers
    <2>3. /\ Good(db')
          /\ db'.keys = db.keys
          /\ \A x \in DOMAIN db'.temps \ {k} : x \in DOMAIN db.temps /\ db'.temps[x].user = db.temps[x].user
        BY <2>2, InsertTempIsGood
    <2>4. \A x \in Tasks : task[x].user # k
        BY <2>1 DEF FreshIds
    <2>5. AddsTemp(t)
        BY <2>3, <2>4 DEF AddsTemp
    <2> QED
        BY <2>2, <2>3, <2>5 DEF StoreMove
<1> QED
    BY <1>1, <1>2 DEF AssumeRole

LEMMA ReadsMove ==
    ASSUME Good(db), TasksOK, NEW t \in Tasks,
           \/ HandleGetUser(t) \/ HandleGetGroup(t) \/ HandleGetManagedPolicy(t)
           \/ HandleGetBucketPolicy(t) \/ HandleGeneratePresignUrl(t)
    PROVE  StoreMove(t)
<1>1. UNCHANGED db
    BY DEF HandleGetUser, HandleGetGroup, HandleGetManagedPolicy, HandleGetBucketPolicy,
           HandleGeneratePresignUrl, HandleGetRow
<1>2. Good(db') /\ Calm(db, db')
    BY <1>1, NothingIsCalm, Zenon
<1>3. CASE Finish(t)
    BY <1>2, <1>3, AnsweredMove DEF Finish, Answers
<1>4. CASE /\ Handling(t, "get_user")
           /\ \E u \in Users \cup {Root} : task' = [task EXCEPT ![t].pc = "show_policies", ![t].user = u]
    <2>1. task[t].pc \in {"idle", "handle"} /\ "show_policies" \in StorePcs \ {"key_insert"}
        BY <1>4 DEF Handling, At, StorePcs
    <2> QED
        <3>1. PICK u \in Users \cup {Root} : task' = [task EXCEPT ![t].pc = "show_policies", ![t].user = u]
            BY <1>4
        <3>2. Awaits(t)
            BY <2>1, <3>1 DEF TasksOK, Awaits, TaskFields, StorePcs
        <3> QED
            BY <1>1, <3>2, AwaitingMove
<1> QED
    BY <1>3, <1>4 DEF HandleGetUser, HandleGetGroup, HandleGetManagedPolicy, HandleGetBucketPolicy,
                      HandleGeneratePresignUrl, HandleGetRow

LEMMA StoreStepMoves ==
    ASSUME Good(db), TasksOK, NEW t \in Tasks, StoreStep(t)
    PROVE  StoreMove(t)
BY OneClosureMoves, HandlersMove, CreateAccessKeyMoves, AttachUserPolicyMoves, AddUserToGroupMoves,
   AttachGroupPolicyMoves, AssumeRoleMoves, ReadsMove DEF StoreStep

-----------------------------------------------------------------------------
(* The steps of the authorization, which only read the tables.               *)
JudgeStep(t) ==
    \/ AuthorizeMiddleware(t) \/ IsAuthorized(t)
    \/ HandleSimulatePolicy(t) \/ IsAuthorizedDetailed(t)
    \/ S3Step(t)

LEMMA Steps ==
    ASSUME NEW t
    PROVE  AdminStep(t) \/ S3Step(t) <=> StoreStep(t) \/ JudgeStep(t)
BY DEF AdminStep, StoreStep, JudgeStep

JudgeMove(t) ==
    /\ UNCHANGED db
    /\ task' = [task EXCEPT ![t] = task'[t]]
    /\ DOMAIN task'[t] = TaskFields
    /\ task'[t].pc # "key_insert"

LEMMA IdleFields == DOMAIN Idle = TaskFields /\ Idle.pc = "idle" /\ Idle.kind = None
BY DEF Idle, TaskFields

LEMMA S3StepMoves ==
    ASSUME TasksOK, NEW t \in Tasks, S3Step(t)
    PROVE  JudgeMove(t)
<1>0. DOMAIN task = Tasks /\ DOMAIN task[t] = TaskFields
    BY DEF TasksOK
<1>1. CASE S3Arrive(t)
    BY <1>0, <1>1, IdleFields DEF S3Arrive, JudgeMove, TaskFields
<1>2. CASE GetSecretKey(t)
    BY <1>0, <1>2, IdleFields DEF GetSecretKey, Finish, Goto, JudgeMove, TaskFields
<1>3. CASE ValidateSessionToken(t)
    BY <1>0, <1>3, IdleFields DEF ValidateSessionToken, Finish, Goto, JudgeMove, TaskFields
<1>4. CASE GetUsername(t)
    <2> DEFINE cred == task[t].user
               u == CASE cred = None -> "anonymous"
                      [] cred \in TempIds -> GetTempCredentials(db, cred)
                      [] OTHER -> GetCredentials(db, cred)
    <2>1. /\ UNCHANGED db
          /\ task' = [task EXCEPT ![t] =
                        IF u = None THEN Idle
                        ELSE [@ EXCEPT !.who = u, !.pc = IF u = Root THEN "granted" ELSE "user_policies"]]
        BY <1>4 DEF GetUsername
    <2> HIDE DEF u
    <2> QED
        BY <1>0, <2>1, IdleFields DEF JudgeMove, TaskFields
<1>5. CASE CheckBucketPolicy(t)
    BY <1>0, <1>5, IdleFields DEF CheckBucketPolicy, Finish, Goto, JudgeMove, TaskFields
<1>6. CASE Served(t)
    BY <1>0, <1>6, IdleFields DEF Served, Finish, JudgeMove, TaskFields
<1> QED
    BY <1>1, <1>2, <1>3, <1>4, <1>5, <1>6 DEF S3Step

(* What is_authorized leaves in the task: the same request, with what was    *)
(* read, and after the last read its verdict.                                *)
SameRequest(a, k) ==
    /\ DOMAIN a = TaskFields
    /\ a.kind = k.kind /\ a.who = k.who /\ a.action = k.action /\ a.resource = k.resource
    /\ a.user = k.user /\ a.group = k.group

Verdict(a) ==
    LET ok == Allowed(a.policies, a.action, a.resource)
    IN  IF a.groups # {} THEN "group_policies"
        ELSE IF a.kind = "admin" THEN IF ok THEN "handle" ELSE "idle"
        ELSE IF ok THEN "granted" ELSE "bucket_policy"

LEMMA DecidedFacts ==
    ASSUME NEW j, DOMAIN j = TaskFields
    PROVE  /\ SameRequest(Decided(j), j)
           /\ Decided(j).policies = j.policies /\ Decided(j).groups = j.groups /\ Decided(j).again = j.again
           /\ Decided(j).pc = Verdict(Decided(j))
<1> DEFINE ok == Allowed(j.policies, j.action, j.resource)
<1>1. Decided(j) = [j EXCEPT !.pc = IF j.groups # {} THEN "group_policies"
                                   ELSE IF j.kind = "admin" THEN IF ok THEN "handle" ELSE "idle"
                                   ELSE IF ok THEN "granted" ELSE "bucket_policy"]
    BY DEF Decided
<1> HIDE DEF ok
<1>2. /\ SameRequest(Decided(j), j)
      /\ Decided(j).policies = j.policies /\ Decided(j).groups = j.groups /\ Decided(j).again = j.again
    BY <1>1 DEF SameRequest, TaskFields
<1>3. ok = Allowed(Decided(j).policies, Decided(j).action, Decided(j).resource)
    BY <1>2 DEF ok, SameRequest
<1>4. Decided(j).pc = IF j.groups # {} THEN "group_policies"
                      ELSE IF j.kind = "admin" THEN IF ok THEN "handle" ELSE "idle"
                      ELSE IF ok THEN "granted" ELSE "bucket_policy"
    BY <1>1 DEF TaskFields
<1> QED
    BY <1>2, <1>3, <1>4 DEF Verdict, SameRequest

Result(t, a) == task' = [task EXCEPT ![t] = IF a.pc = "idle" THEN Idle ELSE a]

ReadsOwn(t, a) ==
    /\ task[t].pc = "user_policies" /\ a.pc = "user_groups"
    /\ a.policies = ListUserPolicies(db, task[t].who)
    /\ a.groups = task[t].groups /\ a.again = task[t].again

ReadsGroups(t, a) ==
    /\ task[t].pc = "user_groups" /\ a.pc = Verdict(a)
    /\ a.policies = task[t].policies
    /\ a.groups = ListUserGroups(db, task[t].who) /\ a.again = task[t].again

ReadsGroup(t, a, g) ==
    /\ task[t].pc = "group_policies" /\ a.pc = Verdict(a)
    /\ a.policies = task[t].policies \cup ListGroupPolicies(db, g)
    /\ a.groups = task[t].groups \ {g} /\ a.again = task[t].again

LEMMA IsAuthorizedResult ==
    ASSUME TasksOK, NEW t \in Tasks, IsAuthorized(t)
    PROVE  \E a : /\ Result(t, a) /\ SameRequest(a, task[t])
                  /\ \/ ReadsOwn(t, a)
                     \/ ReadsGroups(t, a)
                     \/ \E g \in task[t].groups : ReadsGroup(t, a, g)
<1> DEFINE k == task[t]
<1>0. DOMAIN task = Tasks /\ DOMAIN k = TaskFields
    BY DEF TasksOK
<1>1. CASE /\ At(t, "user_policies")
           /\ task' = [task EXCEPT ![t].pc = "user_groups", ![t].policies = ListUserPolicies(db, task[t].who)]
    <2> DEFINE a == [k EXCEPT !.pc = "user_groups", !.policies = ListUserPolicies(db, task[t].who)]
    <2>1. SameRequest(a, k) /\ a.pc = "user_groups" /\ ReadsOwn(t, a)
        BY <1>0, <1>1 DEF SameRequest, ReadsOwn, At, TaskFields
    <2>2. task' = [task EXCEPT ![t] = a]
        BY <1>0, <1>1
    <2> HIDE DEF a
    <2>3. Result(t, a)
        BY <2>1, <2>2 DEF Result
    <2> QED
        BY <2>1, <2>3
<1>2. CASE /\ At(t, "user_groups")
           /\ task' = [task EXCEPT ![t] =
                        Settle(Decided([@ EXCEPT !.groups = ListUserGroups(db, task[t].who)]))]
    <2> DEFINE j == [k EXCEPT !.groups = ListUserGroups(db, task[t].who)]
               a == Decided(j)
    <2>1. SameRequest(j, k) /\ j.policies = k.policies /\ j.groups = ListUserGroups(db, k.who) /\ j.again = k.again
        BY <1>0 DEF SameRequest, TaskFields
    <2>2. task' = [task EXCEPT ![t] = Settle(a)]
        BY <1>0, <1>2
    <2> HIDE DEF j
    <2>3. /\ SameRequest(a, j) /\ a.policies = j.policies /\ a.groups = j.groups /\ a.again = j.again
          /\ a.pc = Verdict(a)
        BY <2>1, DecidedFacts DEF SameRequest
    <2> HIDE DEF a
    <2>4. Result(t, a) /\ SameRequest(a, k) /\ ReadsGroups(t, a)
        BY <1>2, <2>1, <2>2, <2>3 DEF Result, Settle, SameRequest, ReadsGroups, At
    <2> QED
        BY <2>4
<1>3. CASE /\ At(t, "group_policies")
           /\ \E g \in task[t].groups :
                task' = [task EXCEPT ![t] =
                            Settle(Decided([task[t] EXCEPT !.groups = @ \ {g},
                                            !.policies = @ \cup ListGroupPolicies(db, g)]))]
    <2>0. PICK g \in task[t].groups :
                task' = [task EXCEPT ![t] =
                            Settle(Decided([task[t] EXCEPT !.groups = @ \ {g},
                                            !.policies = @ \cup ListGroupPolicies(db, g)]))]
        BY <1>3
    <2> DEFINE j == [k EXCEPT !.groups = @ \ {g}, !.policies = @ \cup ListGroupPolicies(db, g)]
               a == Decided(j)
    <2>1. /\ SameRequest(j, k) /\ j.policies = k.policies \cup ListGroupPolicies(db, g)
          /\ j.groups = k.groups \ {g} /\ j.again = k.again
        BY <1>0 DEF SameRequest, TaskFields
    <2>2. task' = [task EXCEPT ![t] = Settle(a)]
        BY <1>0, <2>0
    <2> HIDE DEF j
    <2>3. /\ SameRequest(a, j) /\ a.policies = j.policies /\ a.groups = j.groups /\ a.again = j.again
          /\ a.pc = Verdict(a)
        BY <2>1, DecidedFacts DEF SameRequest
    <2> HIDE DEF a
    <2>4. Result(t, a) /\ SameRequest(a, k) /\ ReadsGroup(t, a, g)
        BY <1>3, <2>1, <2>2, <2>3 DEF Result, Settle, SameRequest, ReadsGroup, At
    <2> QED
        BY <2>4
<1> QED
    BY <1>1, <1>2, <1>3 DEF IsAuthorized

(* The same for the simulator.                                               *)
SimReadsOwn(t, a) ==
    /\ task[t].pc = "sim_user" /\ a.pc = "sim_groups"
    /\ a.policies = ListUserPolicies(db, task[t].who)
    /\ ~Some(a.policies, task[t], "Deny")
    /\ a.groups = task[t].groups /\ a.again = task[t].again

SimReadsGroups(t, a) ==
    /\ task[t].pc = "sim_groups"
    /\ a.policies = task[t].policies
    /\ a.again = ListUserGroups(db, task[t].who) /\ a.groups = a.again
    /\ \/ a.groups # {} /\ a.pc = "sim_deny"
       \/ a.groups = {} /\ a.pc = "granted" /\ Some(task[t].policies, task[t], "Allow")

SimDenies(t, a, g) ==
    /\ task[t].pc = "sim_deny"
    /\ a.policies = task[t].policies /\ a.again = task[t].again
    /\ ~Some(ListGroupPolicies(db, g), task[t], "Deny")
    /\ \/ task[t].groups \ {g} # {} /\ a.pc = "sim_deny" /\ a.groups = task[t].groups \ {g}
       \/ task[t].groups \ {g} = {} /\ a.pc = "granted" /\ Some(task[t].policies, task[t], "Allow")
       \/ task[t].groups \ {g} = {} /\ a.pc = "sim_allow" /\ a.groups = task[t].again

SimAllows(t, a, g) ==
    /\ task[t].pc = "sim_allow"
    /\ a.policies = task[t].policies /\ a.again = task[t].again
    /\ \/ a.pc = "granted" /\ Some(ListGroupPolicies(db, g), task[t], "Allow")
       \/ a.pc = "sim_allow" /\ a.groups = task[t].groups \ {g}

SimResult(t, a) ==
    /\ task' = [task EXCEPT ![t] = a]
    /\ SameRequest(a, task[t])
    /\ \/ SimReadsOwn(t, a)
       \/ SimReadsGroups(t, a)
       \/ \E g \in task[t].groups : SimDenies(t, a, g) \/ SimAllows(t, a, g)

AllowPass(j) ==
    IF Some(j.policies, j, "Allow") THEN [j EXCEPT !.pc = "granted"]
    ELSE IF j.again = {} THEN Idle
    ELSE [j EXCEPT !.pc = "sim_allow", !.groups = j.again]

LEMMA AllowPassFacts ==
    ASSUME NEW j, DOMAIN j = TaskFields, AllowPass(j) # Idle
    PROVE  /\ SameRequest(AllowPass(j), j)
           /\ AllowPass(j).policies = j.policies /\ AllowPass(j).again = j.again
           /\ \/ AllowPass(j).pc = "granted" /\ AllowPass(j).groups = j.groups /\ Some(j.policies, j, "Allow")
              \/ AllowPass(j).pc = "sim_allow" /\ AllowPass(j).groups = j.again /\ j.again # {}
BY DEF AllowPass, SameRequest, TaskFields

LEMMA SomeOfSame ==
    ASSUME NEW j, NEW k, SameRequest(j, k), NEW S, NEW e
    PROVE  Some(S, j, e) <=> Some(S, k, e)
BY DEF Some, SameRequest

LEMMA IsAuthorizedDetailedResult ==
    ASSUME TasksOK, NEW t \in Tasks, IsAuthorizedDetailed(t)
    PROVE  Answers(t) \/ \E a : SimResult(t, a)
<1> DEFINE k == task[t]
<1>0. DOMAIN task = Tasks /\ DOMAIN k = TaskFields
    BY DEF TasksOK
<1>1. CASE /\ At(t, "sim_user")
           /\ LET policies == ListUserPolicies(db, k.who)
              IN  task' = [task EXCEPT ![t] =
                    IF Some(policies, k, "Deny") THEN Idle
                    ELSE [k EXCEPT !.pc = "sim_groups", !.policies = policies]]
    <2> DEFINE policies == ListUserPolicies(db, k.who)
               a == [k EXCEPT !.pc = "sim_groups", !.policies = policies]
    <2>1. task' = [task EXCEPT ![t] = IF Some(policies, k, "Deny") THEN Idle ELSE a]
        BY <1>1
    <2>2. /\ SameRequest(a, k) /\ a.pc = "sim_groups" /\ a.policies = policies
          /\ a.groups = k.groups /\ a.again = k.again
        BY <1>0 DEF SameRequest, TaskFields
    <2> HIDE DEF a
    <2>3. CASE Some(policies, k, "Deny")
        BY <2>1, <2>3 DEF Answers
    <2>4. CASE ~Some(policies, k, "Deny")
        <3>1. SimReadsOwn(t, a)
            BY <1>1, <2>2, <2>4 DEF SimReadsOwn, At
        <3> QED
            BY <2>1, <2>2, <2>4, <3>1 DEF SimResult
    <2> QED
        BY <2>3, <2>4
<1>2. CASE /\ At(t, "sim_groups")
           /\ LET groups == ListUserGroups(db, k.who)
                  j == [k EXCEPT !.pc = "sim_deny", !.groups = groups, !.again = groups]
              IN  task' = [task EXCEPT ![t] = IF groups = {} THEN AllowPass(j) ELSE j]
    <2> DEFINE groups == ListUserGroups(db, k.who)
               j == [k EXCEPT !.pc = "sim_deny", !.groups = groups, !.again = groups]
               b == AllowPass(j)
    <2>1. task' = [task EXCEPT ![t] = IF groups = {} THEN b ELSE j]
        BY <1>2
    <2>2. /\ SameRequest(j, k) /\ j.pc = "sim_deny" /\ j.policies = k.policies
          /\ j.groups = groups /\ j.again = groups
        BY <1>0 DEF SameRequest, TaskFields
    <2> HIDE DEF j, groups
    <2>3. CASE groups # {}
        <3>1. SimReadsGroups(t, j)
            BY <1>2, <2>2, <2>3 DEF SimReadsGroups, At, groups
        <3> QED
            BY <2>1, <2>2, <2>3, <3>1 DEF SimResult
    <2>4. CASE groups = {} /\ b = Idle
        BY <2>1, <2>4 DEF Answers
    <2>5. CASE groups = {} /\ b # Idle
        <3>1. /\ SameRequest(b, j) /\ b.policies = j.policies /\ b.again = j.again /\ b.groups = {}
              /\ b.pc = "granted" /\ Some(j.policies, j, "Allow")
            BY <2>2, <2>5, AllowPassFacts DEF SameRequest
        <3> HIDE DEF b
        <3>2. Some(k.policies, k, "Allow")
            BY <2>2, <3>1, SomeOfSame
        <3>3. SimReadsGroups(t, b) /\ SameRequest(b, k)
            BY <1>2, <2>2, <2>5, <3>1, <3>2 DEF SimReadsGroups, SameRequest, At, groups
        <3> QED
            BY <2>1, <2>5, <3>3 DEF SimResult
    <2> QED
        BY <2>3, <2>4, <2>5
<1>3. CASE /\ At(t, "sim_deny")
           /\ \E g \in k.groups :
                LET j == [k EXCEPT !.groups = @ \ {g}]
                IN  task' = [task EXCEPT ![t] =
                        IF Some(ListGroupPolicies(db, g), k, "Deny") THEN Idle
                        ELSE IF j.groups = {} THEN AllowPass(j) ELSE j]
    <2>0. PICK g \in k.groups :
                LET j == [k EXCEPT !.groups = @ \ {g}]
                IN  task' = [task EXCEPT ![t] =
                        IF Some(ListGroupPolicies(db, g), k, "Deny") THEN Idle
                        ELSE IF j.groups = {} THEN AllowPass(j) ELSE j]
        BY <1>3
    <2> DEFINE j == [k EXCEPT !.groups = @ \ {g}]
               b == AllowPass(j)
    <2>1. task' = [task EXCEPT ![t] =
                        IF Some(ListGroupPolicies(db, g), k, "Deny") THEN Idle
                        ELSE IF j.groups = {} THEN b ELSE j]
        BY <2>0
    <2>2. /\ SameRequest(j, k) /\ j.pc = "sim_deny" /\ j.policies = k.policies
          /\ j.groups = k.groups \ {g} /\ j.again = k.again
        BY <1>0, <1>3 DEF SameRequest, TaskFields, At
    <2> HIDE DEF j
    <2>3. CASE Some(ListGroupPolicies(db, g), k, "Deny")
        BY <2>1, <2>3 DEF Answers
    <2>4. CASE ~Some(ListGroupPolicies(db, g), k, "Deny") /\ j.groups # {}
        <3>1. SimDenies(t, j, g)
            BY <1>3, <2>2, <2>4 DEF SimDenies, At
        <3> QED
            BY <2>1, <2>2, <2>4, <3>1 DEF SimResult
    <2>5. CASE ~Some(ListGroupPolicies(db, g), k, "Deny") /\ j.groups = {} /\ b = Idle
        BY <2>1, <2>5 DEF Answers
    <2>6. CASE ~Some(ListGroupPolicies(db, g), k, "Deny") /\ j.groups = {} /\ b # Idle
        <3>1. /\ SameRequest(b, j) /\ b.policies = j.policies /\ b.again = j.again
              /\ \/ b.pc = "granted" /\ Some(j.policies, j, "Allow")
                 \/ b.pc = "sim_allow" /\ b.groups = j.again
            BY <2>2, <2>6, AllowPassFacts DEF SameRequest
        <3> HIDE DEF b
        <3>2. Some(j.policies, j, "Allow") => Some(k.policies, k, "Allow")
            BY <2>2, SomeOfSame
        <3>3. SimDenies(t, b, g) /\ SameRequest(b, k)
            BY <1>3, <2>2, <2>6, <3>1, <3>2 DEF SimDenies, SameRequest, At
        <3> QED
            BY <2>1, <2>6, <3>3 DEF SimResult
    <2> QED
        BY <2>3, <2>4, <2>5, <2>6
<1>4. CASE /\ At(t, "sim_allow")
           /\ \E g \in k.groups :
                task' = [task EXCEPT ![t] =
                    IF Some(ListGroupPolicies(db, g), k, "Allow") THEN [k EXCEPT !.pc = "granted"]
                    ELSE IF k.groups = {g} THEN Idle ELSE [k EXCEPT !.groups = @ \ {g}]]
    <2>0. PICK g \in k.groups :
                task' = [task EXCEPT ![t] =
                    IF Some(ListGroupPolicies(db, g), k, "Allow") THEN [k EXCEPT !.pc = "granted"]
                    ELSE IF k.groups = {g} THEN Idle ELSE [k EXCEPT !.groups = @ \ {g}]]
        BY <1>4
    <2> DEFINE a == [k EXCEPT !.pc = "granted"]
               b == [k EXCEPT !.groups = @ \ {g}]
    <2>1. task' = [task EXCEPT ![t] = IF Some(ListGroupPolicies(db, g), k, "Allow") THEN a
                                      ELSE IF k.groups = {g} THEN Idle ELSE b]
        BY <2>0
    <2>2. SameRequest(a, k) /\ a.pc = "granted" /\ a.policies = k.policies /\ a.again = k.again
        BY <1>0 DEF SameRequest, TaskFields
    <2>3. /\ SameRequest(b, k) /\ b.pc = "sim_allow" /\ b.groups = k.groups \ {g}
          /\ b.policies = k.policies /\ b.again = k.again
        BY <1>0, <1>4 DEF SameRequest, TaskFields, At
    <2> HIDE DEF a, b
    <2>4. CASE Some(ListGroupPolicies(db, g), k, "Allow")
        <3>1. SimAllows(t, a, g)
            BY <1>4, <2>2, <2>4 DEF SimAllows, At
        <3> QED
            BY <2>1, <2>2, <2>4, <3>1 DEF SimResult
    <2>5. CASE ~Some(ListGroupPolicies(db, g), k, "Allow") /\ k.groups = {g}
        BY <2>1, <2>5 DEF Answers
    <2>6. CASE ~Some(ListGroupPolicies(db, g), k, "Allow") /\ k.groups # {g}
        <3>1. SimAllows(t, b, g)
            BY <1>4, <2>3 DEF SimAllows, At
        <3> QED
            BY <2>1, <2>3, <2>6, <3>1 DEF SimResult
    <2> QED
        BY <2>4, <2>5, <2>6
<1> QED
    BY <1>1, <1>2, <1>3, <1>4 DEF IsAuthorizedDetailed, AllowPass

LEMMA JudgeStepMoves ==
    ASSUME TasksOK, NEW t \in Tasks, JudgeStep(t)
    PROVE  JudgeMove(t)
<1>0. DOMAIN task = Tasks /\ DOMAIN task[t] = TaskFields
    BY DEF TasksOK
<1>1. CASE AuthorizeMiddleware(t)
    BY <1>0, <1>1, IdleFields DEF AuthorizeMiddleware, JudgeMove, TaskFields
<1>2. CASE IsAuthorized(t)
    <2>1. PICK a : Result(t, a) /\ SameRequest(a, task[t]) /\ a.pc # "key_insert"
        BY <1>2, IsAuthorizedResult DEF ReadsOwn, ReadsGroups, ReadsGroup, Verdict
    <2>2. UNCHANGED db
        BY <1>2 DEF IsAuthorized
    <2> QED
        BY <1>0, <2>1, <2>2, IdleFields DEF Result, SameRequest, JudgeMove
<1>3. CASE HandleSimulatePolicy(t)
    BY <1>0, <1>3, IdleFields DEF HandleSimulatePolicy, JudgeMove, TaskFields
<1>4. CASE IsAuthorizedDetailed(t)
    <2>1. UNCHANGED db
        BY <1>4 DEF IsAuthorizedDetailed
    <2>2. CASE Answers(t)
        BY <1>0, <2>1, <2>2, IdleFields DEF Answers, JudgeMove
    <2>3. CASE \E a : SimResult(t, a)
        <3>1. PICK a : SimResult(t, a)
            BY <2>3
        <3>2. task' = [task EXCEPT ![t] = a] /\ DOMAIN a = TaskFields /\ a.pc # "key_insert"
            BY <3>1 DEF SimResult, SameRequest, SimReadsOwn, SimReadsGroups, SimDenies, SimAllows
        <3> QED
            BY <1>0, <2>1, <3>2 DEF JudgeMove
    <2> QED
        BY <1>4, <2>2, <2>3, IsAuthorizedDetailedResult
<1>5. CASE S3Step(t)
    BY <1>5, S3StepMoves
<1> QED
    BY <1>1, <1>2, <1>3, <1>4, <1>5 DEF JudgeStep

-----------------------------------------------------------------------------
(* The tables and the tasks stay well formed.                                *)
PastFields == {"denials", "permits", "groups", "dead", "barred"}

PastOK == /\ DOMAIN past = Tasks
          /\ \A t \in Tasks : DOMAIN past[t] = PastFields

WellFormed == Good(db) /\ TasksOK /\ PastOK

LEMMA NoPastFields == DOMAIN NoPast = PastFields
BY DEF NoPast, PastFields

LEMMA InitWellFormed == Init => WellFormed
BY EmptyIsGood, IdleFields, NoPastFields DEF Init, WellFormed, TasksOK, PastOK

LEMMA RememberIsOK ==
    ASSUME PastOK, Remember
    PROVE  PastOK'
<1>1. DOMAIN past' = Tasks
    BY DEF Remember
<1>2. ASSUME NEW t \in Tasks PROVE DOMAIN past'[t] = PastFields
    <2>1. past'[t] = Recall(t)
        BY DEF Remember
    <2> QED
        BY <2>1, NoPastFields DEF Recall, PastOK, PastFields
<1> QED
    BY <1>1, <1>2 DEF PastOK

LEMMA TaskMoved ==
    ASSUME TasksOK, NEW t \in Tasks, task' = [task EXCEPT ![t] = task'[t]], DOMAIN task'[t] = TaskFields
    PROVE  TasksOK' /\ \A x \in Tasks \ {t} : task'[x] = task[x]
BY DEF TasksOK

LEMMA StoreMoveTasks ==
    ASSUME TasksOK, NEW t \in Tasks, StoreMove(t)
    PROVE  TasksOK' /\ \A x \in Tasks \ {t} : task'[x] = task[x]
<1>1. task' = [task EXCEPT ![t] = task'[t]] /\ DOMAIN task'[t] = TaskFields
    BY IdleFields DEF StoreMove, Answers, Awaits, TasksOK
<1> QED
    BY <1>1, TaskMoved

LEMMA NextWellFormed ==
    ASSUME WellFormed, [Next]_vars
    PROVE  WellFormed'
<1>0. Good(db) /\ TasksOK /\ PastOK
    BY DEF WellFormed
<1>1. CASE UNCHANGED vars
    BY <1>0, <1>1 DEF WellFormed, TasksOK, PastOK, vars
<1>2. CASE Next
    <2>0. PastOK'
        BY <1>0, <1>2, RememberIsOK DEF Next
    <2>1. ASSUME NEW k \in TempIds, Expire(k) PROVE WellFormed'
        <3>1. Good(db')
            BY <1>0, <2>1, ExpireIsGood DEF Expire
        <3>2. TasksOK'
            BY <1>0, <2>1 DEF Expire, TasksOK
        <3> QED
            BY <2>0, <3>1, <3>2 DEF WellFormed
    <2>2. ASSUME NEW t \in Tasks, StoreStep(t) PROVE WellFormed'
        <3>1. StoreMove(t)
            BY <1>0, <2>2, StoreStepMoves
        <3> QED
            BY <1>0, <2>0, <3>1, StoreMoveTasks DEF WellFormed, StoreMove
    <2>3. ASSUME NEW t \in Tasks, JudgeStep(t) PROVE WellFormed'
        <3>1. JudgeMove(t)
            BY <1>0, <2>3, JudgeStepMoves
        <3>2. TasksOK'
            BY <1>0, <3>1, TaskMoved DEF JudgeMove
        <3> QED
            BY <1>0, <2>0, <3>1, <3>2 DEF WellFormed, JudgeMove
    <2> QED
        BY <1>2, <2>1, <2>2, <2>3, Steps DEF Next
<1> QED
    BY <1>1, <1>2

(* The tables and the requests are well formed and linked in every reachable *)
(* state.                                                                    *)
THEOREM WellFormedAlways == Spec => []WellFormed
<1>1. Init => WellFormed
    BY InitWellFormed
<1>2. WellFormed /\ [Next]_vars => WellFormed'
    BY NextWellFormed
<1> QED
    BY <1>1, <1>2, PTL DEF Spec

(* Every reachable state of the tables is well typed, whatever the users,    *)
(* groups, documents and ids and however many requests are in flight.        *)
THEOREM TypeCorrect == Spec => []TypeOK
<1>1. WellFormed => TypeOK
    BY DEF WellFormed, Good, Typed, TasksOK, PastOK, TypeOK, Statuses
<1> QED
    BY <1>1, WellFormedAlways, PTL

(* No key, membership, attachment or temporary credential outlives its user  *)
(* or its group, nor is one added to a user or a group that was deleted      *)
(* after the handler's check: the foreign keys of init_iam_schema make up    *)
(* for checks and INSERTs in different closures.                             *)
THEOREM RowsAreLinked == Spec => []NoDanglingRows
<1>1. WellFormed => NoDanglingRows
    BY DEF WellFormed, Good, Linked, NoDanglingRows
<1> QED
    BY <1>1, WellFormedAlways, PTL

-----------------------------------------------------------------------------
(* The limit on access keys.  The requests that have counted and not yet     *)
(* inserted belong to the budget: they and the keys together stay within it. *)
Inserters(u) == {t \in Tasks : task[t].pc = "key_insert" /\ task[t].user = u}

KeysInv ==
    \A u \in Users :
        Cardinality(ListAccessKeys(db, u)) + Cardinality(Inserters(u)) <= MaxKeys + Cardinality(Tasks) - 1

LEMMA InsertersAreFinite ==
    ASSUME NEW u
    PROVE  /\ IsFiniteSet(Inserters(u)) /\ Cardinality(Inserters(u)) \in Nat
           /\ Cardinality(Inserters(u)) <= Cardinality(Tasks)
           /\ Cardinality(Tasks) \in Nat
<1>1. Inserters(u) \in SUBSET Tasks
    BY DEF Inserters
<1> QED
    BY <1>1, TasksAssumption, FS_Subset, FS_CardinalityType

LEMMA SmallerSet ==
    ASSUME NEW S, NEW T, IsFiniteSet(S), T \subseteq S
    PROVE  IsFiniteSet(T) /\ Cardinality(T) \in Nat /\ Cardinality(S) \in Nat /\ Cardinality(T) <= Cardinality(S)
BY FS_Subset, FS_CardinalityType

(* Neither the keys of a user nor those about to get one become more.        *)
LEMMA KeysShrink ==
    ASSUME WellFormed, KeysInv, NEW u \in Users,
           \A k \in DOMAIN db'.keys : k \in DOMAIN db.keys /\ db'.keys[k].user = db.keys[k].user,
           Inserters(u)' \subseteq Inserters(u)
    PROVE  Cardinality(ListAccessKeys(db, u)') + Cardinality(Inserters(u)')
                <= MaxKeys + Cardinality(Tasks) - 1
<1> DEFINE K == ListAccessKeys(db, u)
           L == ListAccessKeys(db, u)'
           I == Inserters(u)
           J == Inserters(u)'
<1>1. L \subseteq K
    BY DEF ListAccessKeys
<1>2. IsFiniteSet(K) /\ IsFiniteSet(I)
    BY KeysAreFinite, InsertersAreFinite DEF WellFormed
<1>3. Cardinality(K) + Cardinality(I) <= MaxKeys + Cardinality(Tasks) - 1
    BY DEF KeysInv
<1>4. J \subseteq I
    OBVIOUS
<1> HIDE DEF K, L, I, J
<1>5. /\ Cardinality(L) \in Nat /\ Cardinality(K) \in Nat /\ Cardinality(L) <= Cardinality(K)
      /\ Cardinality(J) \in Nat /\ Cardinality(I) \in Nat /\ Cardinality(J) <= Cardinality(I)
    BY <1>1, <1>2, <1>4, SmallerSet
<1>6. Cardinality(Tasks) \in Nat /\ MaxKeys \in Nat
    BY TasksAssumption, FS_CardinalityType
<1>7. Cardinality(L) + Cardinality(J) <= MaxKeys + Cardinality(Tasks) - 1
    BY <1>3, <1>5, <1>6
<1> QED
    BY <1>7 DEF L, J

(* The tasks about to insert, after one task moved.                          *)
LEMMA InsertersMove ==
    ASSUME TasksOK, NEW t \in Tasks, \A x \in Tasks \ {t} : task'[x] = task[x], NEW u,
           ~(task'[t].pc = "key_insert" /\ task'[t].user = u)
    PROVE  Inserters(u)' = Inserters(u) \ {t}
BY DEF Inserters

(* A request that counted fewer than MaxKeys keys goes on to insert one.     *)
LEMMA CountedKey ==
    ASSUME WellFormed, KeysInv, NEW t \in Tasks, Awaits(t), task'[t].pc = "key_insert",
           \A x \in Tasks \ {t} : task'[x] = task[x], NEW u \in Users
    PROVE  Cardinality(ListAccessKeys(db, u)') + Cardinality(Inserters(u)')
                <= MaxKeys + Cardinality(Tasks) - 1
<1>0. /\ task'[t].user = task[t].user
      /\ Cardinality(ListAccessKeys(db, task[t].user)) < MaxKeys
      /\ db' = db
    BY DEF Awaits
<1>1. CASE u = task[t].user
    <2> DEFINE K == ListAccessKeys(db, u)
               J == Inserters(u)'
    <2>1. ListAccessKeys(db, u)' = K
        BY <1>0
    <2>2. Cardinality(K) \in Nat /\ Cardinality(K) < MaxKeys
        BY <1>0, <1>1, KeysAreFinite DEF WellFormed
    <2>3. J \in SUBSET Tasks
        BY DEF Inserters
    <2> HIDE DEF J, K
    <2>4. Cardinality(J) \in Nat /\ Cardinality(Tasks) \in Nat /\ Cardinality(J) <= Cardinality(Tasks)
        BY <2>3, TasksAssumption, SmallerSet
    <2>5. Cardinality(K) + Cardinality(J) <= MaxKeys + Cardinality(Tasks) - 1
        BY <2>2, <2>4, TasksAssumption
    <2> QED
        BY <2>1, <2>5 DEF J
<1>2. CASE u # task[t].user
    <2>1. Inserters(u)' \subseteq Inserters(u)
        BY <1>0, <1>2, InsertersMove DEF WellFormed
    <2> QED
        BY <1>0, <2>1, KeysShrink
<1> QED
    BY <1>1, <1>2

(* The INSERT: one key more, one task fewer about to insert.                 *)
LEMMA InsertedKey ==
    ASSUME WellFormed, KeysInv, NEW t \in Tasks, AddsKey(t), NEW u \in Users
    PROVE  Cardinality(ListAccessKeys(db, u)') + Cardinality(Inserters(u)')
                <= MaxKeys + Cardinality(Tasks) - 1
<1>0. /\ \A x \in Tasks \ {t} : task'[x] = task[x]
      /\ task'[t].pc # "key_insert"
    BY IdleFields DEF AddsKey, Answers, WellFormed, TasksOK
<1>1. PICK k : /\ \A x \in DOMAIN db'.keys \ {k} : x \in DOMAIN db.keys /\ db'.keys[x].user = db.keys[x].user
               /\ k \notin DOMAIN db.keys
               /\ k \in DOMAIN db'.keys => db'.keys[k].user = task[t].user
    BY DEF AddsKey
<1>2. Inserters(u)' = Inserters(u) \ {t}
    BY <1>0, InsertersMove DEF WellFormed
<1> DEFINE K == ListAccessKeys(db, u)
           L == ListAccessKeys(db, u)'
           I == Inserters(u)
<1>3. IsFiniteSet(K) /\ Cardinality(K) \in Nat /\ IsFiniteSet(I) /\ Cardinality(I) \in Nat
    BY KeysAreFinite, InsertersAreFinite DEF WellFormed
<1>4. Cardinality(K) + Cardinality(I) <= MaxKeys + Cardinality(Tasks) - 1
    BY DEF KeysInv
<1>5. Cardinality(Tasks) \in Nat /\ MaxKeys \in Nat
    BY TasksAssumption, FS_CardinalityType
<1>6. u # Root
    BY NamesAssumption
<1>7. CASE u = task[t].user
    <2>1. L \subseteq K \cup {k}
        BY <1>1, <1>6 DEF ListAccessKeys
    <2>2. t \in I
        BY <1>7 DEF AddsKey, Inserters
    <2> HIDE DEF K, L, I
    <2>3. IsFiniteSet(K \cup {k}) /\ Cardinality(K \cup {k}) <= Cardinality(K) + 1
        <3>1. CASE k \in K
            <4>1. K \cup {k} = K
                BY <3>1
            <4> QED
                BY <1>3, <4>1
        <3>2. CASE k \notin K
            <4>1. IsFiniteSet(K \cup {k}) /\ Cardinality(K \cup {k}) = Cardinality(K) + 1
                BY <1>3, <3>2, FS_AddElement
            <4> QED
                BY <1>3, <4>1
        <3> QED
            BY <3>1, <3>2
    <2>4. Cardinality(L) \in Nat /\ Cardinality(L) <= Cardinality(K) + 1
        BY <1>3, <2>1, <2>3, SmallerSet
    <2>5. Cardinality(I \ {t}) = Cardinality(I) - 1
        BY <1>3, <2>2, FS_RemoveElement
    <2>6. Cardinality(L) + Cardinality(I \ {t}) <= MaxKeys + Cardinality(Tasks) - 1
        BY <1>3, <1>4, <1>5, <2>4, <2>5
    <2> QED
        BY <1>2, <2>6 DEF L, I
<1>8. CASE u # task[t].user
    <2>1. L \subseteq K
        BY <1>1, <1>6, <1>8 DEF ListAccessKeys
    <2>2. I \ {t} \subseteq I
        OBVIOUS
    <2> HIDE DEF K, L, I
    <2>3. /\ Cardinality(L) \in Nat /\ Cardinality(L) <= Cardinality(K)
          /\ Cardinality(I \ {t}) \in Nat /\ Cardinality(I \ {t}) <= Cardinality(I)
        BY <1>3, <2>1, <2>2, SmallerSet
    <2>4. Cardinality(L) + Cardinality(I \ {t}) <= MaxKeys + Cardinality(Tasks) - 1
        BY <1>3, <1>4, <1>5, <2>3
    <2> QED
        BY <1>2, <2>4 DEF L, I
<1> QED
    BY <1>7, <1>8

LEMMA InitKeys == Init => KeysInv
<1> SUFFICES ASSUME Init, NEW u \in Users
             PROVE  Cardinality(ListAccessKeys(db, u)) + Cardinality(Inserters(u)) <= MaxKeys + Cardinality(Tasks) - 1
    BY DEF KeysInv
<1>1. u # Root
    BY NamesAssumption
<1>2. ListAccessKeys(db, u) = {}
    BY <1>1 DEF Init, EmptyDb, ListAccessKeys
<1>3. Cardinality(ListAccessKeys(db, u)) = 0
    BY <1>2, FS_EmptySet
<1> QED
    BY <1>3, InsertersAreFinite, TasksAssumption

LEMMA NextKeys ==
    ASSUME WellFormed, KeysInv, [Next]_vars
    PROVE  KeysInv'
<1> SUFFICES ASSUME NEW u \in Users
             PROVE  Cardinality(ListAccessKeys(db, u)') + Cardinality(Inserters(u)')
                        <= MaxKeys + Cardinality(Tasks) - 1
    BY DEF KeysInv
<1>0. Good(db) /\ TasksOK
    BY DEF WellFormed
<1>1. CASE UNCHANGED vars
    <2>1. Inserters(u)' \subseteq Inserters(u)
        BY <1>1 DEF vars, Inserters
    <2> QED
        BY <1>1, <2>1, KeysShrink DEF vars
<1>2. CASE Next
    <2>1. ASSUME NEW k \in TempIds, Expire(k)
          PROVE  Cardinality(ListAccessKeys(db, u)') + Cardinality(Inserters(u)')
                    <= MaxKeys + Cardinality(Tasks) - 1
        <3>1. Inserters(u)' \subseteq Inserters(u)
            BY <2>1 DEF Expire, Inserters
        <3>2. Calm(db, db')
            BY <1>0, <2>1, ExpireIsGood DEF Expire
        <3> QED
            BY <3>1, <3>2, KeysShrink DEF Calm
    <2>2. ASSUME NEW t \in Tasks, StoreStep(t)
          PROVE  Cardinality(ListAccessKeys(db, u)') + Cardinality(Inserters(u)')
                    <= MaxKeys + Cardinality(Tasks) - 1
        <3>1. StoreMove(t) /\ \A x \in Tasks \ {t} : task'[x] = task[x]
            BY <1>0, <2>2, StoreStepMoves, StoreMoveTasks
        <3>2. CASE AddsKey(t)
            BY <3>2, InsertedKey
        <3>3. CASE Awaits(t) /\ task'[t].pc = "key_insert"
            BY <3>1, <3>3, CountedKey
        <3>4. CASE ~AddsKey(t) /\ ~(Awaits(t) /\ task'[t].pc = "key_insert")
            <4>1. task'[t].pc # "key_insert"
                BY <1>0, <3>1, <3>4, IdleFields DEF StoreMove, Answers, TasksOK
            <4>2. Inserters(u)' \subseteq Inserters(u)
                BY <1>0, <3>1, <4>1, InsertersMove
            <4>3. \A k \in DOMAIN db'.keys : k \in DOMAIN db.keys /\ db'.keys[k].user = db.keys[k].user
                BY <3>1, <3>4 DEF StoreMove, Calm, AddsTemp
            <4> QED
                BY <4>2, <4>3, KeysShrink
        <3> QED
            BY <3>2, <3>3, <3>4
    <2>3. ASSUME NEW t \in Tasks, JudgeStep(t)
          PROVE  Cardinality(ListAccessKeys(db, u)') + Cardinality(Inserters(u)')
                    <= MaxKeys + Cardinality(Tasks) - 1
        <3>1. JudgeMove(t)
            BY <1>0, <2>3, JudgeStepMoves
        <3>2. \A x \in Tasks \ {t} : task'[x] = task[x]
            BY <1>0, <3>1, TaskMoved DEF JudgeMove
        <3>3. Inserters(u)' \subseteq Inserters(u)
            BY <1>0, <3>1, <3>2, InsertersMove DEF JudgeMove
        <3> QED
            BY <3>1, <3>3, KeysShrink DEF JudgeMove
    <2> QED
        BY <1>2, <2>1, <2>2, <2>3, Steps DEF Next
<1> QED
    BY <1>1, <1>2

(* create_access_key counts and inserts in two closures; still no user ever  *)
(* has more keys than the limit plus one for every other request in flight.  *)
THEOREM KeysStayBounded == Spec => []KeysBounded
<1>1. Init => WellFormed /\ KeysInv
    BY InitWellFormed, InitKeys
<1>2. WellFormed /\ KeysInv /\ [Next]_vars => (WellFormed /\ KeysInv)'
    BY NextWellFormed, NextKeys
<1>3. WellFormed /\ KeysInv => KeysBounded
    <2> SUFFICES ASSUME WellFormed, KeysInv, NEW u \in DOMAIN db.users
                 PROVE  Cardinality(ListAccessKeys(db, u)) <= MaxKeys + Cardinality(Tasks) - 1
        BY DEF KeysBounded
    <2>1. u \in Users
        BY DEF WellFormed, Good, Typed
    <2>2. Cardinality(ListAccessKeys(db, u)) + Cardinality(Inserters(u)) <= MaxKeys + Cardinality(Tasks) - 1
        BY <2>1 DEF KeysInv
    <2>3. Cardinality(ListAccessKeys(db, u)) \in Nat
        BY KeysAreFinite DEF WellFormed
    <2> QED
        BY <2>2, <2>3, InsertersAreFinite, TasksAssumption
<1> QED
    BY <1>1, <1>2, <1>3, PTL DEF Spec

-----------------------------------------------------------------------------
(* Nobody is served once revoked.  The secret is looked up for an active key *)
(* of an active user; a request with a temporary credential learns then whom *)
(* the credential belongs to, and the credential never changes hands.        *)
S3Pcs == Arriving \cup {"user_policies", "user_groups", "group_policies", "granted",
                        "bucket_policy", "granted_by_bucket"}

Alive(t) ==
    /\ task[t].pc # "secret" => <<"key", task[t].user>> \notin past[t].dead
    /\ /\ task[t].pc \in {"session_token", "username"}
       /\ task[t].user \in TempIds
       /\ task[t].user \in DOMAIN db.temps
       => <<"user", db.temps[task[t].user].user>> \notin past[t].dead
    /\ task[t].pc \notin Arriving => <<"user", task[t].who>> \notin past[t].dead

RevokedInv == \A t \in Tasks : task[t].kind = "s3" => task[t].pc \in S3Pcs /\ Alive(t)

LEMMA UserUnusable ==
    ASSUME NEW k, NEW u, <<"user", u>> \in Unusable(k)
    PROVE  u \in Users /\ (u \notin DOMAIN db.users \/ db.users[u].status # "active")
BY DEF Unusable

LEMMA KeyUnusable ==
    ASSUME NEW k, NEW c, <<"key", c>> \in Unusable(k)
    PROVE  /\ k.user \in TempIds /\ c \in DOMAIN db.temps => db.temps[c].expired
           /\ k.user \notin TempIds => c \notin {None, Root} /\ (c \in DOMAIN db.keys => db.keys[c].status # "active")
BY DEF Unusable

(* What was unusable from the arrival on can only become less.               *)
LEMMA DeadShrinks ==
    ASSUME PastOK, Remember, NEW t \in Tasks, task'[t].kind = "s3"
    PROVE  /\ past'[t].dead \subseteq Unusable(task'[t])
           /\ task[t].pc # "idle" => past'[t].dead \subseteq past[t].dead
<1>1. past'[t] = Recall(t)
    BY DEF Remember
<1>2. DOMAIN past[t] = PastFields
    BY DEF PastOK
<1> DEFINE dead == IF task[t].pc = "idle" THEN Unusable(task'[t]) ELSE past[t].dead \cap Unusable(task'[t])
<1>3. past'[t].dead = dead \/ past'[t].dead = {}
    BY <1>1, <1>2 DEF Recall, NoPast, PastFields
<1> QED
    BY <1>3

(* A request that another one, or the clock, overtakes.                      *)
LEMMA AliveStays ==
    ASSUME PastOK, Remember, RevokedInv, NEW t \in Tasks, task'[t] = task[t], task[t].kind = "s3",
           \A k \in DOMAIN db'.temps :
                k = task[t].user => k \in DOMAIN db.temps /\ db'.temps[k].user = db.temps[k].user
    PROVE  task'[t].pc \in S3Pcs /\ Alive(t)'
<1>1. task[t].pc \in S3Pcs /\ Alive(t)
    BY DEF RevokedInv
<1>2. past'[t].dead \subseteq past[t].dead
    BY <1>1, DeadShrinks DEF S3Pcs, Arriving
<1> QED
    BY <1>1, <1>2 DEF Alive

(* A step of the request that changes nothing of who asks.                   *)
LEMMA AliveGoesOn ==
    ASSUME PastOK, Remember, RevokedInv, NEW t \in Tasks, task[t].kind = "s3", task'[t].kind = "s3",
           task'[t].user = task[t].user, task'[t].who = task[t].who,
           task[t].pc \notin Arriving, task'[t].pc \in S3Pcs \ Arriving
    PROVE  task'[t].pc \in S3Pcs /\ Alive(t)'
<1>1. task[t].pc \in S3Pcs /\ Alive(t)
    BY DEF RevokedInv
<1>2. past'[t].dead \subseteq past[t].dead
    BY <1>1, DeadShrinks DEF S3Pcs, Arriving
<1> QED
    BY <1>1, <1>2 DEF Alive, Arriving

LEMMA ArriveAlive ==
    ASSUME WellFormed, Remember, NEW t \in Tasks, S3Arrive(t)
    PROVE  task'[t].pc \in S3Pcs /\ Alive(t)'
<1>0. PastOK /\ TasksOK
    BY DEF WellFormed
<1>1. PICK cred \in Credentials, r \in Requests :
            task' = [task EXCEPT ![t] =
                        [Idle EXCEPT !.pc = IF cred \in {Root, None} THEN "username" ELSE "secret",
                                     !.kind = "s3", !.user = cred,
                                     !.action = r.action, !.resource = r.resource]]
    BY DEF S3Arrive
<1>2. /\ task'[t].kind = "s3" /\ task'[t].user = cred
      /\ task'[t].pc = IF cred \in {Root, None} THEN "username" ELSE "secret"
    BY <1>0, <1>1, IdleFields DEF TasksOK, TaskFields
<1>3. past'[t].dead \subseteq Unusable(task'[t])
    BY <1>0, <1>2, DeadShrinks
<1>4. cred \in {Root, None} => <<"key", cred>> \notin past'[t].dead /\ cred \notin TempIds
    BY <1>2, <1>3, KeyUnusable, NamesAssumption
<1> QED
    BY <1>2, <1>4 DEF Alive, S3Pcs, Arriving

LEMMA SecretAlive ==
    ASSUME WellFormed, Remember, RevokedInv, NEW t \in Tasks, GetSecretKey(t), task'[t].kind = "s3"
    PROVE  task'[t].pc \in S3Pcs /\ Alive(t)'
<1>0. PastOK /\ TasksOK /\ Typed(db) /\ Linked(db)
    BY DEF WellFormed, Good
<1> DEFINE cred == task[t].user
           u == IF cred \in TempIds THEN GetTempCredentials(db, cred) ELSE GetCredentials(db, cred)
<1>1. /\ db' = db /\ u # None /\ UserStatus(db, u) = "active"
      /\ task' = [task EXCEPT ![t].pc = IF cred \in TempIds THEN "session_token" ELSE "username"]
    BY <1>0, IdleFields, KindsAssumption DEF GetSecretKey, Finish, Goto, TasksOK
<1>2. /\ task'[t].user = cred
      /\ task'[t].pc = IF cred \in TempIds THEN "session_token" ELSE "username"
    BY <1>0, <1>1 DEF TasksOK, TaskFields
<1>3. past'[t].dead \subseteq Unusable(task'[t])
    BY <1>0, DeadShrinks
<1>4. CASE cred \in TempIds
    <2>1. cred \in DOMAIN db.temps /\ ~db.temps[cred].expired /\ u = db.temps[cred].user
        BY <1>1, <1>4 DEF GetTempCredentials
    <2>2. u \in DOMAIN db.users /\ u # Root
        BY <1>0, <2>1 DEF Linked, Typed
    <2>3. db.users[u].status = "active"
        BY <1>1, <2>2 DEF UserStatus
    <2> HIDE DEF u
    <2>4. <<"key", cred>> \notin Unusable(task'[t])
        BY <1>2, <1>4, <2>1, KeyUnusable
    <2>5. <<"user", u>> \notin Unusable(task'[t])
        BY <2>2, <2>3, UserUnusable
    <2> QED
        BY <1>1, <1>2, <1>3, <1>4, <2>1, <2>4, <2>5 DEF Alive, S3Pcs, Arriving
<1>5. CASE cred \notin TempIds
    <2>1. cred = Root \/ (cred \in DOMAIN db.keys /\ db.keys[cred].status = "active")
        BY <1>1, <1>5 DEF GetCredentials
    <2> HIDE DEF u
    <2>2. <<"key", cred>> \notin Unusable(task'[t])
        BY <1>2, <1>5, <2>1, KeyUnusable
    <2> QED
        BY <1>2, <1>3, <1>5, <2>2 DEF Alive, S3Pcs, Arriving
<1> QED
    BY <1>4, <1>5

LEMMA TokenAlive ==
    ASSUME WellFormed, Remember, RevokedInv, NEW t \in Tasks, ValidateSessionToken(t), task'[t].kind = "s3"
    PROVE  task'[t].pc \in S3Pcs /\ Alive(t)'
<1>0. PastOK /\ TasksOK
    BY DEF WellFormed
<1>1. db' = db /\ task' = [task EXCEPT ![t].pc = "username"] /\ task[t].pc = "session_token"
    BY <1>0, IdleFields, KindsAssumption DEF ValidateSessionToken, Finish, Goto, TasksOK, At
<1>2. task'[t].user = task[t].user /\ task'[t].pc = "username" /\ task[t].kind = "s3"
    BY <1>0, <1>1 DEF TasksOK, TaskFields
<1>3. past'[t].dead \subseteq past[t].dead
    BY <1>0, <1>1, DeadShrinks
<1>4. Alive(t)
    BY <1>2 DEF RevokedInv
<1> QED
    BY <1>1, <1>2, <1>3, <1>4 DEF Alive, S3Pcs, Arriving

LEMMA UsernameAlive ==
    ASSUME "anonymous" \notin Users,
           WellFormed, Remember, RevokedInv, NEW t \in Tasks, GetUsername(t), task'[t].kind = "s3"
    PROVE  task'[t].pc \in S3Pcs /\ Alive(t)'
<1>0. PastOK /\ TasksOK /\ Typed(db) /\ Linked(db)
    BY DEF WellFormed, Good
<1> DEFINE cred == task[t].user
           u == CASE cred = None -> "anonymous"
                  [] cred \in TempIds -> GetTempCredentials(db, cred)
                  [] OTHER -> GetCredentials(db, cred)
<1>1. /\ db' = db /\ u # None /\ task[t].pc = "username"
      /\ task' = [task EXCEPT ![t] = [@ EXCEPT !.who = u, !.pc = IF u = Root THEN "granted" ELSE "user_policies"]]
    BY <1>0, IdleFields, KindsAssumption DEF GetUsername, TasksOK, At
<1>2. /\ cred = None => u = "anonymous"
      /\ cred \in TempIds => u = GetTempCredentials(db, cred)
      /\ cred # None /\ cred \notin TempIds => u = GetCredentials(db, cred)
    BY NamesAssumption
<1> HIDE DEF u
<1>3. /\ task'[t].user = cred /\ task'[t].who = u /\ task[t].kind = "s3"
      /\ task'[t].pc \in {"granted", "user_policies"}
    BY <1>0, <1>1 DEF TasksOK, TaskFields
<1>4. past'[t].dead \subseteq Unusable(task'[t]) /\ past'[t].dead \subseteq past[t].dead
    BY <1>0, <1>1, DeadShrinks
<1>5. Alive(t)
    BY <1>3 DEF RevokedInv
<1>6. <<"key", cred>> \notin past'[t].dead
    BY <1>1, <1>4, <1>5 DEF Alive
<1>7. <<"user", u>> \notin past'[t].dead
    <2>1. CASE cred = None
        BY <1>2, <1>4, <2>1, UserUnusable
    <2>2. CASE cred \in TempIds
        <3>1. cred \in DOMAIN db.temps /\ u = db.temps[cred].user
            BY <1>1, <1>2, <2>2 DEF GetTempCredentials
        <3> QED
            BY <1>1, <1>4, <1>5, <2>2, <3>1 DEF Alive
    <2>3. CASE cred # None /\ cred \notin TempIds
        <3>1. u = Root \/ (u \in DOMAIN db.users /\ db.users[u].status = "active")
            BY <1>0, <1>1, <1>2, <2>3 DEF GetCredentials, Linked
        <3> QED
            BY <1>4, <3>1, UserUnusable, NamesAssumption
    <2> QED
        BY <2>1, <2>2, <2>3
<1> QED
    BY <1>3, <1>6, <1>7 DEF Alive, S3Pcs, Arriving

LEMMA S3StepAlive ==
    ASSUME "anonymous" \notin Users,
           WellFormed, Remember, RevokedInv, NEW t \in Tasks, S3Step(t), task'[t].kind = "s3"
    PROVE  task'[t].pc \in S3Pcs /\ Alive(t)'
<1>0. PastOK /\ TasksOK
    BY DEF WellFormed
<1>1. CASE CheckBucketPolicy(t)
    <2>1. task[t].pc = "bucket_policy" /\ task' = [task EXCEPT ![t].pc = "granted_by_bucket"]
        BY <1>0, <1>1, IdleFields, KindsAssumption DEF CheckBucketPolicy, Finish, Goto, TasksOK, At
    <2>2. /\ task'[t].user = task[t].user /\ task'[t].who = task[t].who /\ task[t].kind = "s3"
          /\ task'[t].pc = "granted_by_bucket"
        BY <1>0, <2>1 DEF TasksOK, TaskFields
    <2> QED
        BY <1>0, <2>1, <2>2, AliveGoesOn DEF S3Pcs, Arriving
<1>2. CASE Served(t)
    BY <1>0, <1>2, IdleFields, KindsAssumption DEF Served, Finish, TasksOK
<1> QED
    BY <1>1, <1>2, ArriveAlive, SecretAlive, TokenAlive, UsernameAlive DEF S3Step

LEMMA JudgeStepAlive ==
    ASSUME "anonymous" \notin Users,
           WellFormed, Remember, RevokedInv, NEW t \in Tasks, JudgeStep(t), task'[t].kind = "s3"
    PROVE  task'[t].pc \in S3Pcs /\ Alive(t)'
<1>0. PastOK /\ TasksOK /\ DOMAIN task = Tasks
    BY DEF WellFormed, TasksOK
<1>1. CASE AuthorizeMiddleware(t)
    BY <1>0, <1>1, IdleFields DEF AuthorizeMiddleware, TaskFields
<1>2. CASE HandleSimulatePolicy(t)
    BY <1>0, <1>2, IdleFields DEF HandleSimulatePolicy, TaskFields
<1>3. CASE IsAuthorized(t)
    <2>1. PICK a : /\ Result(t, a) /\ SameRequest(a, task[t])
                   /\ task[t].pc \in {"user_policies", "user_groups", "group_policies"}
                   /\ a.pc = "user_groups" \/ a.pc = Verdict(a)
        BY <1>0, <1>3, IsAuthorizedResult DEF ReadsOwn, ReadsGroups, ReadsGroup
    <2>2. task'[t] = a
        BY <1>0, <2>1, IdleFields, KindsAssumption DEF Result
    <2>3. /\ task'[t].user = task[t].user /\ task'[t].who = task[t].who /\ task[t].kind = "s3"
        BY <2>1, <2>2 DEF SameRequest
    <2>4. task'[t].pc \in {"user_groups", "group_policies", "granted", "bucket_policy"}
        BY <2>1, <2>2 DEF Verdict
    <2> QED
        BY <1>0, <2>1, <2>3, <2>4, AliveGoesOn DEF S3Pcs, Arriving
<1>4. CASE IsAuthorizedDetailed(t)
    <2>1. task[t].pc \notin S3Pcs
        BY <1>4 DEF IsAuthorizedDetailed, At, S3Pcs, Arriving
    <2>2. task[t].kind # "s3"
        BY <2>1 DEF RevokedInv
    <2>3. task'[t].kind \in {task[t].kind, None}
        BY <1>0, <1>4, IsAuthorizedDetailedResult, IdleFields DEF Answers, SimResult, SameRequest
    <2> QED
        BY <2>2, <2>3, KindsAssumption
<1> QED
    BY <1>1, <1>2, <1>3, <1>4, S3StepAlive DEF JudgeStep

LEMMA NextRevoked ==
    ASSUME "anonymous" \notin Users, WellFormed, RevokedInv, [Next]_vars
    PROVE  RevokedInv'
<1> SUFFICES ASSUME NEW x \in Tasks, task'[x].kind = "s3"
             PROVE  task'[x].pc \in S3Pcs /\ Alive(x)'
    BY DEF RevokedInv
<1>0. Good(db) /\ TasksOK /\ PastOK
    BY DEF WellFormed
<1>1. CASE UNCHANGED vars
    BY <1>1 DEF vars, RevokedInv, Alive
<1>2. CASE Next
    <2>0. Remember
        BY <1>2 DEF Next
    <2>1. ASSUME NEW k \in TempIds, Expire(k) PROVE task'[x].pc \in S3Pcs /\ Alive(x)'
        <3>1. task'[x] = task[x] /\ Calm(db, db')
            BY <1>0, <2>1, ExpireIsGood DEF Expire
        <3> QED
            BY <1>0, <2>0, <3>1, AliveStays DEF Calm
    <2>2. ASSUME NEW t \in Tasks, StoreStep(t) PROVE task'[x].pc \in S3Pcs /\ Alive(x)'
        <3>1. StoreMove(t) /\ \A y \in Tasks \ {t} : task'[y] = task[y]
            BY <1>0, <2>2, StoreStepMoves, StoreMoveTasks
        <3>2. x # t
            <4> SUFFICES ASSUME x = t PROVE FALSE
                OBVIOUS
            <4>1. CASE Answers(t)
                BY <1>0, <4>1, IdleFields, KindsAssumption DEF Answers, TasksOK
            <4>2. CASE Awaits(t)
                BY <4>2 DEF Awaits, RevokedInv, S3Pcs, Arriving, StorePcs
            <4> QED
                BY <3>1, <4>1, <4>2 DEF StoreMove
        <3>3. \A k \in DOMAIN db'.temps :
                k = task[x].user => k \in DOMAIN db.temps /\ db'.temps[k].user = db.temps[k].user
            BY <3>1 DEF StoreMove, Calm, AddsKey, AddsTemp
        <3> QED
            BY <1>0, <2>0, <3>1, <3>2, <3>3, AliveStays
    <2>3. ASSUME NEW t \in Tasks, JudgeStep(t) PROVE task'[x].pc \in S3Pcs /\ Alive(x)'
        <3>1. JudgeMove(t)
            BY <1>0, <2>3, JudgeStepMoves
        <3>2. \A y \in Tasks \ {t} : task'[y] = task[y]
            BY <1>0, <3>1, TaskMoved DEF JudgeMove
        <3>3. CASE x # t
            BY <1>0, <2>0, <3>1, <3>2, <3>3, AliveStays DEF JudgeMove
        <3>4. CASE x = t
            BY <2>0, <2>3, <3>4, JudgeStepAlive
        <3> QED
            BY <3>3, <3>4
    <2> QED
        BY <1>2, <2>1, <2>2, <2>3, Steps DEF Next
<1> QED
    BY <1>1, <1>2

(* No request is served over S3 with a key that was inactive, deleted or     *)
(* expired, or for a user who was inactive or gone, from its arrival on,     *)
(* however the handlers that revoke and the lookups of get_secret_key,       *)
(* validate_session_token and get_username interleave.  (The name anonymous  *)
(* requests go by must not be a user's.)                                     *)
THEOREM RevocationHolds == "anonymous" \notin Users => (Spec => []NoAccessOnceRevoked)
<1> SUFFICES ASSUME "anonymous" \notin Users PROVE Spec => []NoAccessOnceRevoked
    OBVIOUS
<1>1. Init => WellFormed /\ RevokedInv
    <2>1. Init => RevokedInv
        BY KindsAssumption, IdleFields DEF Init, RevokedInv
    <2> QED
        BY <2>1, InitWellFormed
<1>2. WellFormed /\ RevokedInv /\ [Next]_vars => (WellFormed /\ RevokedInv)'
    BY NextWellFormed, NextRevoked
<1>3. RevokedInv => NoAccessOnceRevoked
    BY DEF RevokedInv, Alive, Arriving, NoAccessOnceRevoked
<1> QED
    BY <1>1, <1>2, <1>3, PTL DEF Spec

-----------------------------------------------------------------------------
(* Grants are justified.  What has been read so far accounts for every       *)
(* permission found in it and for every denial that still stands, but for    *)
(* the denials of groups that have still to be read.                         *)
Arrived(t) ==
    /\ task[t].action \in Actions
    /\ task[t].policies = {} /\ task[t].groups = {} /\ task[t].again = {}

Reading(t) ==
    LET k == task[t]
        p == past[t]
    IN  /\ k.action \in Actions
        /\ k.policies \subseteq Documents
        /\ k.groups \subseteq p.groups /\ k.again \subseteq p.groups
        /\ \A doc \in k.policies : Says(doc, "Allow", k) => Permitted(t)
        /\ \A r \in p.denials : r[2][3] \in Documents /\ Says(r[2][3], "Deny", k)

Accounted(t) ==
    LET k == task[t]
    IN  \A r \in past[t].denials :
            /\ k.pc = "user_groups" => r[1] = "group" \/ r[2][3] \in k.policies
            /\ k.pc = "group_policies" => (r[1] = "group" /\ r[2][1] \in k.groups) \/ r[2][3] \in k.policies
            /\ k.pc = "sim_groups" => r[1] = "group"
            /\ k.pc = "sim_deny" => r[1] = "group" /\ r[2][1] \in k.groups
            /\ k.pc # "sim_allow"

Justified(t) ==
    /\ task[t].pc \in Arriving \cup {"user_policies", "sim_user"} => Arrived(t)
    /\ task[t].pc \in Evaluating /\ task[t].who # Root => Reading(t) /\ Accounted(t)
    /\ task[t].pc \in {"granted", "handle"} /\ task[t].who # Root => Permitted(t) /\ past[t].denials = {}

JudgeInv == \A t \in Tasks : Justified(t)

LEMMA DenialFacts ==
    ASSUME Good(db), NEW k, NEW r \in Denials(k)
    PROVE  /\ r[1] \in {"user", "group"}
           /\ r[2][3] \in Documents /\ Says(r[2][3], "Deny", k)
           /\ r[1] = "user" => r[2] \in db.userPolicies /\ r[2][1] = k.who
           /\ r[1] = "group" => r[2] \in db.groupPolicies /\ r[2][1] \in ListUserGroups(db, k.who)
<1>1. CASE \E x \in db.userPolicies : r = <<"user", x>> /\ x[1] = k.who /\ Says(x[3], "Deny", k)
    <2>1. PICK x \in db.userPolicies : r = <<"user", x>> /\ x[1] = k.who /\ Says(x[3], "Deny", k)
        BY <1>1
    <2>2. x[3] \in Documents
        BY DEF Good, Typed
    <2>3. r[1] = "user" /\ r[2] = x
        BY <2>1
    <2> QED
        BY <2>1, <2>2, <2>3
<1>2. CASE \E x \in db.groupPolicies : r = <<"group", x>> /\ <<x[1], k.who>> \in db.members /\ Says(x[3], "Deny", k)
    <2>1. PICK x \in db.groupPolicies :
            r = <<"group", x>> /\ <<x[1], k.who>> \in db.members /\ Says(x[3], "Deny", k)
        BY <1>2
    <2>2. x[3] \in Documents /\ x[1] \in ListUserGroups(db, k.who)
        BY <2>1 DEF Good, Typed, Linked, ListUserGroups
    <2>3. r[1] = "group" /\ r[2] = x
        BY <2>1
    <2> QED
        BY <2>1, <2>2, <2>3
<1>3. \/ \E x \in db.userPolicies : r = <<"user", x>> /\ x[1] = k.who /\ Says(x[3], "Deny", k)
      \/ \E x \in db.groupPolicies : r = <<"group", x>> /\ <<x[1], k.who>> \in db.members /\ Says(x[3], "Deny", k)
    BY DEF Denials
<1> QED
    BY <1>1, <1>2, <1>3

LEMMA PermitFacts ==
    ASSUME NEW k, NEW doc, Says(doc, "Allow", k)
    PROVE  /\ \A x \in db.userPolicies : x[1] = k.who /\ x[3] = doc => <<"user", x>> \in Permits(k)
           /\ \A x \in db.groupPolicies : x[3] = doc => <<"group", x>> \in Permits(k)
BY DEF Permits

(* Says is CoversWith of the request in the task, and depends on no more.    *)
LEMMA SaysOfSame ==
    ASSUME NEW a, NEW k, SameRequest(a, k), NEW doc, NEW e
    PROVE  Says(doc, e, a) <=> Says(doc, e, k)
BY DEF Says, SameRequest

LEMMA SaysIsEvaluate ==
    ASSUME NEW k, k.action \in Actions, NEW doc \in Documents
    PROVE  /\ Evaluate(doc, k.action, k.resource) = "Deny" <=> Says(doc, "Deny", k)
           /\ Evaluate(doc, k.action, k.resource) = "Allow" => Says(doc, "Allow", k)
<1>1. \A i \in DOMAIN doc : WellFormedStatement(doc[i])
    BY RequestsAssumption
<1>2. \A e : CoversWith(doc, e, k.action, k.resource) <=> Says(doc, e, k)
    BY DEF CoversWith, Says
<1> QED
    BY <1>1, <1>2, EvaluateIsRight

-----------------------------------------------------------------------------
(* The history while a request is judged.                                    *)
LEMMA PastAtStart ==
    ASSUME Remember, NEW t \in Tasks, task'[t].pc \in {"user_policies", "sim_user"}
    PROVE  /\ past'[t].denials = Denials(task'[t])
           /\ past'[t].permits = Permits(task'[t])
           /\ past'[t].groups = ListUserGroups(db, task'[t].who)
BY DEF Remember, Recall, Arriving

LEMMA PastGoesOn ==
    ASSUME Remember, NEW t \in Tasks, task[t].pc \in Evaluating,
           task'[t].pc \in (Evaluating \ {"user_policies", "sim_user"}) \cup Admitted
    PROVE  /\ past'[t].denials = past[t].denials \cap Denials(task[t])
           /\ past'[t].permits = past[t].permits \cup Permits(task[t])
           /\ past'[t].groups = past[t].groups \cup ListUserGroups(db, task[t].who)
BY DEF Remember, Recall, Arriving, Evaluating, Admitted

LEMMA PastStays ==
    ASSUME PastOK, Remember, NEW t \in Tasks, task[t].pc \in Admitted, task'[t].pc \in Admitted
    PROVE  /\ past'[t].denials = past[t].denials
           /\ past'[t].permits = past[t].permits
           /\ past'[t].groups = past[t].groups
BY DEF PastOK, PastFields, Remember, Recall, Arriving, Evaluating, Admitted

LEMMA PermittedStays ==
    ASSUME NEW t \in Tasks, Permitted(t),
           past[t].permits \subseteq past'[t].permits, past[t].groups \subseteq past'[t].groups
    PROVE  Permitted(t)'
BY DEF Permitted

(* A request begins to be judged.                                            *)
LEMMA StartJustified ==
    ASSUME WellFormed, Remember, NEW t \in Tasks, task'[t].pc \in {"user_policies", "sim_user"}, Arrived(t)'
    PROVE  Justified(t)'
<1> DEFINE k == task'[t]
<1>1. past'[t].denials = Denials(k)
    BY PastAtStart
<1>2. /\ k.action \in Actions /\ k.policies = {} /\ k.groups = {} /\ k.again = {}
      /\ k.pc \in {"user_policies", "sim_user"}
    BY DEF Arrived
<1>3. \A r \in past'[t].denials : r[2][3] \in Documents /\ Says(r[2][3], "Deny", k)
    BY <1>1, DenialFacts DEF WellFormed
<1> HIDE DEF k
<1>4. Reading(t)'
    BY <1>2, <1>3 DEF Reading, k
<1>5. Accounted(t)'
    BY <1>2 DEF Accounted, k
<1> QED
    BY <1>4, <1>5 DEF Justified

(* A request that another one, or the clock, overtakes.                      *)
LEMMA JustifiedStays ==
    ASSUME WellFormed, Remember, NEW t \in Tasks, Justified(t), task'[t] = task[t]
    PROVE  Justified(t)'
<1>1. CASE task[t].pc \in {"user_policies", "sim_user"}
    BY <1>1, StartJustified DEF Justified, Arrived
<1>2. CASE task[t].pc \in Evaluating \ {"user_policies", "sim_user"}
    <2>1. /\ past'[t].denials \subseteq past[t].denials
          /\ past[t].permits \subseteq past'[t].permits
          /\ past[t].groups \subseteq past'[t].groups
        BY <1>2, PastGoesOn
    <2>2. Permitted(t) => Permitted(t)'
        BY <2>1, PermittedStays
    <2>3. ASSUME task[t].who # Root PROVE Reading(t)' /\ Accounted(t)'
        <3>1. Reading(t) /\ Accounted(t)
            BY <1>2, <2>3 DEF Justified
        <3>2. Reading(t)'
            BY <2>1, <2>2, <3>1 DEF Reading
        <3>3. Accounted(t)'
            BY <2>1, <3>1 DEF Accounted
        <3> QED
            BY <3>2, <3>3
    <2> QED
        BY <1>2, <2>3 DEF Justified, Evaluating, Arriving
<1>3. CASE task[t].pc \in {"granted", "handle"}
    <2>1. /\ past'[t].denials = past[t].denials
          /\ past'[t].permits = past[t].permits
          /\ past'[t].groups = past[t].groups
        BY <1>3, PastStays DEF WellFormed, Admitted
    <2>2. Permitted(t) => Permitted(t)'
        BY <2>1, PermittedStays
    <2> QED
        BY <1>3, <2>1, <2>2 DEF Justified, Evaluating, Arriving
<1>4. CASE task[t].pc \notin Evaluating \cup {"granted", "handle"}
    BY <1>4 DEF Justified, Arrived, Evaluating
<1> QED
    BY <1>1, <1>2, <1>3, <1>4

(* What a step of an evaluation may rely on, and has to show.                *)
LEMMA ReadOn ==
    ASSUME WellFormed, Remember, NEW t \in Tasks, Reading(t), task[t].pc \in Evaluating,
           task'[t].pc \in (Evaluating \ {"user_policies", "sim_user"}) \cup Admitted,
           SameRequest(task'[t], task[t]),
           NEW docs, task'[t].policies \subseteq task[t].policies \cup docs,
           docs \subseteq Documents,
           \A doc \in docs : Says(doc, "Allow", task[t]) => Permitted(t)',
           task'[t].groups \subseteq past'[t].groups, task'[t].again \subseteq past'[t].groups
    PROVE  Reading(t)'
<1> DEFINE k == task[t]
           a == task'[t]
<1>1. /\ past'[t].denials \subseteq past[t].denials
      /\ past[t].permits \subseteq past'[t].permits
      /\ past[t].groups \subseteq past'[t].groups
    BY PastGoesOn
<1>2. Permitted(t) => Permitted(t)'
    BY <1>1, PermittedStays
<1>3. \A doc, e : Says(doc, e, a) <=> Says(doc, e, k)
    BY SaysOfSame
<1>4. a.action \in Actions /\ a.policies \subseteq Documents
    BY DEF Reading, SameRequest
<1>5. \A doc \in a.policies : Says(doc, "Allow", k) => Permitted(t)'
    BY <1>2 DEF Reading
<1>6. \A r \in past'[t].denials : r[2][3] \in Documents /\ Says(r[2][3], "Deny", k)
    BY <1>1 DEF Reading
<1> HIDE DEF a, k
<1>7. \A doc \in a.policies : Says(doc, "Allow", a) => Permitted(t)'
    BY <1>3, <1>5
<1>8. \A r \in past'[t].denials : r[2][3] \in Documents /\ Says(r[2][3], "Deny", a)
    BY <1>3, <1>6
<1> QED
    BY <1>4, <1>7, <1>8 DEF Reading, a

LEMMA ReadNoMore ==
    ASSUME WellFormed, Remember, NEW t \in Tasks, Reading(t), task[t].pc \in Evaluating,
           task'[t].pc \in (Evaluating \ {"user_policies", "sim_user"}) \cup Admitted,
           SameRequest(task'[t], task[t]),
           task'[t].policies = task[t].policies,
           task'[t].groups \subseteq past'[t].groups, task'[t].again \subseteq past'[t].groups
    PROVE  Reading(t)'
<1> DEFINE docs == {}
<1>1. /\ task'[t].policies \subseteq task[t].policies \cup docs
      /\ docs \subseteq Documents
      /\ \A doc \in docs : Says(doc, "Allow", task[t]) => Permitted(t)'
    OBVIOUS
<1> HIDE DEF docs
<1> QED
    BY <1>1, ReadOn

(* Whom the policies read allow and no denial stops is let in rightly.       *)
LEMMA ConclusionJustified ==
    ASSUME NEW t \in Tasks, Reading(t)', task'[t].pc = Verdict(task'[t]), task'[t].pc # "idle",
           \A r \in past'[t].denials :
                (r[1] = "group" /\ r[2][1] \in task'[t].groups) \/ r[2][3] \in task'[t].policies
    PROVE  Justified(t)'
<1> DEFINE k == task'[t]
           P == past'[t].denials
<1>0. /\ k.action \in Actions /\ k.policies \subseteq Documents
      /\ \A doc \in k.policies : Says(doc, "Allow", k) => Permitted(t)'
      /\ \A r \in P : Says(r[2][3], "Deny", k)
    BY DEF Reading
<1>1. CASE k.groups # {}
    <2>1. k.pc = "group_policies"
        BY <1>1 DEF Verdict
    <2>2. Accounted(t)'
        BY <2>1 DEF Accounted
    <2> QED
        BY <2>1, <2>2 DEF Justified, Arriving
<1>2. CASE k.groups = {} /\ Allowed(k.policies, k.action, k.resource)
    <2>1. k.pc \in {"handle", "granted"}
        BY <1>2 DEF Verdict
    <2>2. PICK doc \in k.policies : Evaluate(doc, k.action, k.resource) = "Allow"
        BY <1>2 DEF Allowed
    <2>3. Permitted(t)'
        BY <1>0, <2>2, SaysIsEvaluate
    <2>4. ASSUME NEW r \in P PROVE FALSE
        <3>1. r[2][3] \in k.policies /\ Says(r[2][3], "Deny", k)
            BY <1>0, <1>2, <2>4
        <3>2. Evaluate(r[2][3], k.action, k.resource) = "Deny"
            BY <1>0, <3>1, SaysIsEvaluate
        <3> QED
            BY <1>2, <3>1, <3>2 DEF Allowed
    <2> QED
        BY <2>1, <2>3, <2>4 DEF Justified, Arriving, Evaluating
<1>3. CASE k.groups = {} /\ ~Allowed(k.policies, k.action, k.resource)
    <2>1. k.pc = "bucket_policy"
        BY <1>3 DEF Verdict
    <2> QED
        BY <2>1 DEF Justified, Arriving, Evaluating
<1> QED
    BY <1>1, <1>2, <1>3

(* The user's own policies, read at once, permit and deny what they say.     *)
LEMMA OwnPolicies ==
    ASSUME WellFormed, NEW t \in Tasks, task[t].who # Root,
           Permits(task[t]) \subseteq past'[t].permits, past'[t].denials \subseteq Denials(task[t])
    PROVE  /\ ListUserPolicies(db, task[t].who) \subseteq Documents
           /\ \A doc \in ListUserPolicies(db, task[t].who) : Says(doc, "Allow", task[t]) => Permitted(t)'
           /\ \A r \in past'[t].denials : r[1] = "group" \/ r[2][3] \in ListUserPolicies(db, task[t].who)
<1> DEFINE k == task[t]
           docs == ListUserPolicies(db, k.who)
<1>0. docs = {r[3] : r \in {p \in db.userPolicies : p[1] = k.who}}
    BY DEF ListUserPolicies
<1>1. docs \subseteq Documents
    BY <1>0 DEF WellFormed, Good, Typed
<1>2. ASSUME NEW doc \in docs, Says(doc, "Allow", k) PROVE Permitted(t)'
    <2>1. PICK x \in db.userPolicies : x[1] = k.who /\ x[3] = doc
        BY <1>0
    <2>2. <<"user", x>> \in past'[t].permits
        BY <1>2, <2>1, PermitFacts
    <2>3. <<"user", x>>[1] = "user"
        OBVIOUS
    <2> QED
        BY <2>2, <2>3 DEF Permitted
<1>3. ASSUME NEW r \in past'[t].denials, r[1] # "group" PROVE r[2][3] \in docs
    BY <1>0, <1>3, DenialFacts DEF WellFormed
<1> QED
    BY <1>1, <1>2, <1>3

(* So do a group's, for a group the user was seen in.                        *)
LEMMA GroupPolicies ==
    ASSUME WellFormed, NEW t \in Tasks, NEW g \in past'[t].groups,
           Permits(task[t]) \subseteq past'[t].permits, past'[t].denials \subseteq Denials(task[t])
    PROVE  /\ ListGroupPolicies(db, g) \subseteq Documents
           /\ \A doc \in ListGroupPolicies(db, g) : Says(doc, "Allow", task[t]) => Permitted(t)'
           /\ \A r \in past'[t].denials :
                r[1] = "group" /\ r[2][1] = g => r[2][3] \in ListGroupPolicies(db, g)
<1> DEFINE k == task[t]
           docs == ListGroupPolicies(db, g)
<1>0. docs = {r[3] : r \in {p \in db.groupPolicies : p[1] = g}}
    BY DEF ListGroupPolicies
<1>1. docs \subseteq Documents
    BY <1>0 DEF WellFormed, Good, Typed
<1>2. ASSUME NEW doc \in docs, Says(doc, "Allow", k) PROVE Permitted(t)'
    <2>1. PICK x \in db.groupPolicies : x[1] = g /\ x[3] = doc
        BY <1>0
    <2>2. <<"group", x>> \in past'[t].permits
        BY <1>2, <2>1, PermitFacts
    <2>3. <<"group", x>>[2][1] = g
        BY <2>1
    <2> QED
        BY <2>2, <2>3 DEF Permitted
<1>3. ASSUME NEW r \in past'[t].denials, r[1] = "group", r[2][1] = g PROVE r[2][3] \in docs
    BY <1>0, <1>3, DenialFacts DEF WellFormed
<1> QED
    BY <1>1, <1>2, <1>3

(* The denials of groups the user is in are those of the groups just read.   *)
LEMMA GroupDenials ==
    ASSUME WellFormed, NEW t \in Tasks, past'[t].denials \subseteq Denials(task[t])
    PROVE  \A r \in past'[t].denials :
                /\ r[1] \in {"user", "group"}
                /\ r[1] = "group" => r[2][1] \in ListUserGroups(db, task[t].who)
BY DenialFacts DEF WellFormed

LEMMA IsAuthorizedJustified ==
    ASSUME WellFormed, Remember, NEW t \in Tasks, Justified(t), IsAuthorized(t)
    PROVE  Justified(t)'
<1>0. TasksOK /\ DOMAIN task = Tasks
    BY DEF WellFormed, TasksOK
<1>1. PICK a : /\ Result(t, a) /\ SameRequest(a, task[t])
               /\ \/ ReadsOwn(t, a)
                  \/ ReadsGroups(t, a)
                  \/ \E g \in task[t].groups : ReadsGroup(t, a, g)
    BY <1>0, IsAuthorizedResult
<1>2. CASE a.pc \in {"idle", "bucket_policy"}
    <2>1. task'[t].pc \in {"idle", "bucket_policy"}
        BY <1>0, <1>1, <1>2, IdleFields DEF Result
    <2> QED
        BY <2>1 DEF Justified, Arriving, Evaluating
<1>3. CASE a.pc \notin {"idle", "bucket_policy"}
    <2>1. task'[t] = a
        BY <1>0, <1>1, <1>3 DEF Result
    <2>2. /\ a.pc \in {"user_groups", "group_policies", "granted", "handle"}
          /\ task[t].pc \in {"user_policies", "user_groups", "group_policies"}
        BY <1>1, <1>3 DEF ReadsOwn, ReadsGroups, ReadsGroup, Verdict
    <2>3. CASE a.who = Root
        BY <2>1, <2>2, <2>3 DEF Justified, Arriving
    <2>4. CASE a.who # Root
        <3>0. task[t].who # Root
            BY <1>1, <2>4 DEF SameRequest
        <3>1. Reading(t) /\ Accounted(t)
            BY <2>2, <3>0 DEF Justified, Evaluating
        <3>2. /\ past'[t].denials = past[t].denials \cap Denials(task[t])
              /\ past'[t].permits = past[t].permits \cup Permits(task[t])
              /\ past'[t].groups = past[t].groups \cup ListUserGroups(db, task[t].who)
            BY <2>1, <2>2, PastGoesOn DEF Evaluating, Admitted
        <3>3. task[t].groups \subseteq past'[t].groups /\ task[t].again \subseteq past'[t].groups
            BY <3>1, <3>2 DEF Reading
        <3>4. CASE ReadsOwn(t, a)
            <4> DEFINE docs == ListUserPolicies(db, task[t].who)
            <4>1. /\ docs \subseteq Documents
                  /\ \A doc \in docs : Says(doc, "Allow", task[t]) => Permitted(t)'
                  /\ \A r \in past'[t].denials : r[1] = "group" \/ r[2][3] \in docs
                BY <3>0, <3>2, OwnPolicies
            <4>2. /\ task'[t].policies = docs /\ task'[t].pc = "user_groups"
                  /\ task'[t].groups = task[t].groups /\ task'[t].again = task[t].again
                BY <2>1, <3>4 DEF ReadsOwn
            <4> HIDE DEF docs
            <4>3. Reading(t)'
                BY <1>1, <2>1, <2>2, <3>1, <3>3, <4>1, <4>2, ReadOn DEF Evaluating
            <4>4. Accounted(t)'
                BY <4>1, <4>2 DEF Accounted
            <4> QED
                BY <4>2, <4>3, <4>4 DEF Justified, Arriving
        <3>5. CASE ReadsGroups(t, a)
            <4>1. /\ task'[t].policies = task[t].policies /\ task'[t].pc = Verdict(task'[t])
                  /\ task'[t].groups = ListUserGroups(db, task[t].who) /\ task'[t].again = task[t].again
                  /\ task[t].pc = "user_groups"
                BY <2>1, <3>5 DEF ReadsGroups
            <4>2. Reading(t)'
                BY <1>1, <2>1, <2>2, <3>1, <3>2, <3>3, <4>1, ReadNoMore DEF Evaluating, Admitted
            <4>3. \A r \in past'[t].denials :
                    (r[1] = "group" /\ r[2][1] \in task'[t].groups) \/ r[2][3] \in task'[t].policies
                BY <3>1, <3>2, <4>1, GroupDenials DEF Accounted
            <4> QED
                BY <1>3, <2>1, <4>1, <4>2, <4>3, ConclusionJustified
        <3>6. ASSUME NEW g \in task[t].groups, ReadsGroup(t, a, g) PROVE Justified(t)'
            <4> DEFINE docs == ListGroupPolicies(db, g)
            <4>1. /\ docs \subseteq Documents
                  /\ \A doc \in docs : Says(doc, "Allow", task[t]) => Permitted(t)'
                  /\ \A r \in past'[t].denials : r[1] = "group" /\ r[2][1] = g => r[2][3] \in docs
                BY <3>2, <3>3, GroupPolicies
            <4>2. /\ task'[t].policies = task[t].policies \cup docs /\ task'[t].pc = Verdict(task'[t])
                  /\ task'[t].groups = task[t].groups \ {g} /\ task'[t].again = task[t].again
                  /\ task[t].pc = "group_policies"
                BY <2>1, <3>6 DEF ReadsGroup
            <4> HIDE DEF docs
            <4>3. Reading(t)'
                BY <1>1, <2>1, <2>2, <3>1, <3>3, <4>1, <4>2, ReadOn DEF Evaluating, Admitted
            <4>4. \A r \in past'[t].denials :
                    (r[1] = "group" /\ r[2][1] \in task'[t].groups) \/ r[2][3] \in task'[t].policies
                BY <3>1, <3>2, <4>1, <4>2 DEF Accounted
            <4> QED
                BY <1>3, <2>1, <4>2, <4>3, <4>4, ConclusionJustified
        <3> QED
            BY <1>1, <3>4, <3>5, <3>6
    <2> QED
        BY <2>3, <2>4
<1> QED
    BY <1>2, <1>3

(* The same for the two passes of the simulator.                             *)
LEMMA GrantJustified ==
    ASSUME NEW t \in Tasks, Reading(t), NEW docs, docs \subseteq Documents,
           \A doc \in docs : Says(doc, "Allow", task[t]) => Permitted(t)',
           Some(docs, task[t], "Allow"), past'[t].denials = {}, task'[t].pc = "granted"
    PROVE  Justified(t)'
<1>1. PICK doc \in docs : Evaluate(doc, task[t].action, task[t].resource) = "Allow"
    BY DEF Some
<1>2. task[t].action \in Actions
    BY DEF Reading
<1>3. Permitted(t)'
    BY <1>1, <1>2, SaysIsEvaluate
<1> QED
    BY <1>3 DEF Justified, Arriving, Evaluating

LEMMA NoDenialIn ==
    ASSUME NEW t \in Tasks, Reading(t), NEW docs, docs \subseteq Documents,
           ~Some(docs, task[t], "Deny"), NEW r \in past[t].denials
    PROVE  r[2][3] \notin docs
<1>1. task[t].action \in Actions /\ Says(r[2][3], "Deny", task[t])
    BY DEF Reading
<1> QED
    BY <1>1, SaysIsEvaluate DEF Some

LEMMA SimulatorJustified ==
    ASSUME WellFormed, Remember, NEW t \in Tasks, Justified(t), NEW a, SimResult(t, a)
    PROVE  Justified(t)'
<1> DEFINE k == task[t]
<1>0. DOMAIN task = Tasks
    BY DEF WellFormed, TasksOK
<1>1. task'[t] = a /\ SameRequest(a, k)
    BY <1>0 DEF SimResult
<1>2. /\ k.pc \in {"sim_user", "sim_groups", "sim_deny", "sim_allow"}
      /\ a.pc \in {"sim_groups", "sim_deny", "sim_allow", "granted"}
    BY DEF SimResult, SimReadsOwn, SimReadsGroups, SimDenies, SimAllows
<1>3. CASE a.who = Root
    BY <1>1, <1>2, <1>3 DEF Justified, Arriving
<1>4. CASE a.who # Root
    <2>0. k.who # Root
        BY <1>1, <1>4 DEF SameRequest
    <2>1. Reading(t) /\ Accounted(t)
        BY <1>2, <2>0 DEF Justified, Evaluating
    <2>2. /\ past'[t].denials = past[t].denials \cap Denials(k)
          /\ past'[t].permits = past[t].permits \cup Permits(k)
          /\ past'[t].groups = past[t].groups \cup ListUserGroups(db, k.who)
        BY <1>1, <1>2, PastGoesOn DEF Evaluating, Admitted
    <2>3. /\ k.groups \subseteq past'[t].groups /\ k.again \subseteq past'[t].groups
          /\ k.policies \subseteq Documents
        BY <2>1, <2>2 DEF Reading
    <2>4. \A doc \in k.policies : Says(doc, "Allow", k) => Permitted(t)'
        <3>1. Permitted(t) => Permitted(t)'
            BY <2>2, PermittedStays
        <3> QED
            BY <2>1, <3>1 DEF Reading
    <2>5. ASSUME a.pc \in {"sim_deny", "sim_allow"}, a.policies = k.policies,
                 a.groups \subseteq past'[t].groups, a.again \subseteq past'[t].groups, Accounted(t)'
          PROVE  Justified(t)'
        <3>1. Reading(t)'
            BY <1>1, <1>2, <2>1, <2>5, ReadNoMore DEF Evaluating
        <3> QED
            BY <1>1, <2>5, <3>1 DEF Justified, Arriving
    <2>6. CASE SimReadsOwn(t, a)
        <3> DEFINE docs == ListUserPolicies(db, k.who)
        <3>1. /\ docs \subseteq Documents
              /\ \A doc \in docs : Says(doc, "Allow", k) => Permitted(t)'
              /\ \A r \in past'[t].denials : r[1] = "group" \/ r[2][3] \in docs
            BY <2>0, <2>2, OwnPolicies
        <3>2. /\ task'[t].policies = docs /\ task'[t].pc = "sim_groups" /\ ~Some(docs, k, "Deny")
              /\ task'[t].groups = k.groups /\ task'[t].again = k.again
            BY <1>1, <2>6 DEF SimReadsOwn
        <3> HIDE DEF docs
        <3>3. Reading(t)'
            BY <1>1, <1>2, <2>1, <2>3, <3>1, <3>2, ReadOn DEF Evaluating
        <3>4. \A r \in past'[t].denials : r[1] = "group"
            BY <2>1, <2>2, <3>1, <3>2, NoDenialIn
        <3>5. Accounted(t)'
            BY <3>2, <3>4 DEF Accounted
        <3> QED
            BY <3>2, <3>3, <3>5 DEF Justified, Arriving
    <2>7. CASE SimReadsGroups(t, a)
        <3>1. /\ k.pc = "sim_groups" /\ a.policies = k.policies
              /\ a.groups = ListUserGroups(db, k.who) /\ a.again = a.groups
            BY <2>7 DEF SimReadsGroups
        <3>2. \A r \in past'[t].denials : r[1] = "group" /\ r[2][1] \in a.groups
            BY <2>1, <2>2, <3>1, GroupDenials DEF Accounted
        <3>3. CASE a.groups # {} /\ a.pc = "sim_deny"
            <4>1. Accounted(t)'
                BY <1>1, <3>2, <3>3 DEF Accounted
            <4> QED
                BY <2>2, <2>5, <3>1, <3>3, <4>1
        <3>4. CASE a.groups = {} /\ a.pc = "granted" /\ Some(k.policies, k, "Allow")
            <4>1. past'[t].denials = {}
                BY <3>2, <3>4
            <4> QED
                BY <1>1, <2>1, <2>3, <2>4, <3>4, <4>1, GrantJustified
        <3> QED
            BY <2>7, <3>3, <3>4 DEF SimReadsGroups
    <2>8. ASSUME NEW g \in k.groups, SimDenies(t, a, g) PROVE Justified(t)'
        <3> DEFINE docs == ListGroupPolicies(db, g)
        <3>0. /\ k.pc = "sim_deny" /\ a.policies = k.policies /\ a.again = k.again /\ ~Some(docs, k, "Deny")
            BY <2>8 DEF SimDenies
        <3>1. /\ docs \subseteq Documents
              /\ \A r \in past'[t].denials : r[1] = "group" /\ r[2][1] = g => r[2][3] \in docs
            BY <2>2, <2>3, GroupPolicies
        <3> HIDE DEF docs
        <3>2. \A r \in past'[t].denials : r[1] = "group" /\ r[2][1] \in k.groups \ {g}
            <4> SUFFICES ASSUME NEW r \in past'[t].denials
                         PROVE  r[1] = "group" /\ r[2][1] \in k.groups \ {g}
                OBVIOUS
            <4>1. r[1] = "group" /\ r[2][1] \in k.groups
                BY <2>1, <2>2, <3>0 DEF Accounted
            <4>2. r[2][3] \notin docs
                BY <2>1, <2>2, <3>0, <3>1, NoDenialIn
            <4> QED
                BY <3>1, <4>1, <4>2
        <3>3. CASE a.pc = "sim_deny" /\ a.groups = k.groups \ {g}
            <4>1. Accounted(t)'
                BY <1>1, <3>2, <3>3 DEF Accounted
            <4> QED
                BY <2>3, <2>5, <3>0, <3>3, <4>1
        <3>4. CASE k.groups \ {g} = {} /\ a.pc = "granted" /\ Some(k.policies, k, "Allow")
            <4>1. past'[t].denials = {}
                BY <3>2, <3>4
            <4> QED
                BY <1>1, <2>1, <2>3, <2>4, <3>4, <4>1, GrantJustified
        <3>5. CASE k.groups \ {g} = {} /\ a.pc = "sim_allow" /\ a.groups = k.again
            <4>1. past'[t].denials = {}
                BY <3>2, <3>5
            <4>2. Accounted(t)'
                BY <4>1 DEF Accounted
            <4> QED
                BY <2>3, <2>5, <3>0, <3>5, <4>2
        <3> QED
            BY <2>8, <3>3, <3>4, <3>5 DEF SimDenies
    <2>9. ASSUME NEW g \in k.groups, SimAllows(t, a, g) PROVE Justified(t)'
        <3> DEFINE docs == ListGroupPolicies(db, g)
        <3>0. /\ k.pc = "sim_allow" /\ a.policies = k.policies /\ a.again = k.again
            BY <2>9 DEF SimAllows
        <3>1. /\ docs \subseteq Documents
              /\ \A doc \in docs : Says(doc, "Allow", k) => Permitted(t)'
            BY <2>2, <2>3, GroupPolicies
        <3>2. past'[t].denials = {}
            BY <2>1, <2>2, <3>0 DEF Accounted
        <3>3. CASE a.pc = "granted" /\ Some(docs, k, "Allow")
            <4> HIDE DEF docs
            <4> QED
                BY <1>1, <2>1, <3>1, <3>2, <3>3, GrantJustified
        <3>4. CASE a.pc = "sim_allow" /\ a.groups = k.groups \ {g}
            <4>1. Accounted(t)'
                BY <3>2 DEF Accounted
            <4> QED
                BY <2>3, <2>5, <3>0, <3>4, <4>1
        <3> QED
            BY <2>9, <3>3, <3>4 DEF SimAllows
    <2> QED
        BY <2>6, <2>7, <2>8, <2>9 DEF SimResult
<1> QED
    BY <1>3, <1>4

LEMMA S3StepJustified ==
    ASSUME WellFormed, Remember, NEW t \in Tasks, Justified(t), S3Step(t)
    PROVE  Justified(t)'
<1>0. DOMAIN task = Tasks /\ DOMAIN task[t] = TaskFields
    BY DEF WellFormed, TasksOK
<1>1. CASE S3Arrive(t)
    <2>1. PICK cred \in Credentials, r \in Requests :
            task' = [task EXCEPT ![t] =
                        [Idle EXCEPT !.pc = IF cred \in {Root, None} THEN "username" ELSE "secret",
                                     !.kind = "s3", !.user = cred,
                                     !.action = r.action, !.resource = r.resource]]
        BY <1>1 DEF S3Arrive
    <2>2. /\ task'[t].pc \in {"username", "secret"} /\ task'[t].action = r.action
          /\ task'[t].policies = {} /\ task'[t].groups = {} /\ task'[t].again = {}
        BY <1>0, <2>1 DEF Idle
    <2> QED
        BY <2>2, RequestsAssumption DEF Justified, Arrived, Evaluating
<1>2. CASE GetSecretKey(t) \/ ValidateSessionToken(t)
    <2>1. /\ task[t].pc \in Arriving
          /\ task'[t] = Idle \/ \E pc \in {"session_token", "username"} : task'[t] = [task[t] EXCEPT !.pc = pc]
        BY <1>0, <1>2 DEF GetSecretKey, ValidateSessionToken, Finish, Goto, At, Arriving
    <2>2. CASE task'[t] = Idle
        BY <2>2, IdleFields DEF Justified, Arriving, Evaluating
    <2>3. ASSUME NEW pc \in {"session_token", "username"}, task'[t] = [task[t] EXCEPT !.pc = pc]
          PROVE  Justified(t)'
        <3>1. /\ task'[t].pc = pc /\ task'[t].action = task[t].action /\ task'[t].policies = task[t].policies
              /\ task'[t].groups = task[t].groups /\ task'[t].again = task[t].again
            BY <1>0, <2>3 DEF TaskFields
        <3> QED
            BY <2>1, <3>1 DEF Justified, Arrived, Arriving, Evaluating
    <2> QED
        BY <2>1, <2>2, <2>3
<1>3. CASE GetUsername(t)
    <2> DEFINE cred == task[t].user
               u == CASE cred = None -> "anonymous"
                      [] cred \in TempIds -> GetTempCredentials(db, cred)
                      [] OTHER -> GetCredentials(db, cred)
    <2>1. /\ task[t].pc = "username"
          /\ task' = [task EXCEPT ![t] =
                        IF u = None THEN Idle
                        ELSE [@ EXCEPT !.who = u, !.pc = IF u = Root THEN "granted" ELSE "user_policies"]]
        BY <1>3 DEF GetUsername, At
    <2> HIDE DEF u
    <2>2. CASE u = None
        BY <1>0, <2>1, <2>2, IdleFields DEF Justified, Arriving, Evaluating
    <2>3. CASE u # None /\ u = Root
        <3>1. task'[t].pc = "granted" /\ task'[t].who = Root
            BY <1>0, <2>1, <2>3 DEF TaskFields
        <3> QED
            BY <3>1 DEF Justified, Arriving, Evaluating
    <2>4. CASE u # None /\ u # Root
        <3>1. /\ task'[t].pc = "user_policies" /\ task'[t].action = task[t].action
              /\ task'[t].policies = task[t].policies
              /\ task'[t].groups = task[t].groups /\ task'[t].again = task[t].again
            BY <1>0, <2>1, <2>4 DEF TaskFields
        <3>2. Arrived(t)'
            BY <2>1, <3>1 DEF Justified, Arrived, Arriving
        <3> QED
            BY <3>1, <3>2, StartJustified
    <2> QED
        BY <2>2, <2>3, <2>4
<1>4. CASE CheckBucketPolicy(t) \/ Served(t)
    <2>1. task'[t] = Idle \/ task'[t] = [task[t] EXCEPT !.pc = "granted_by_bucket"]
        BY <1>0, <1>4 DEF CheckBucketPolicy, Served, Finish, Goto
    <2>2. task'[t].pc \in {"idle", "granted_by_bucket"}
        BY <1>0, <2>1, IdleFields DEF TaskFields
    <2> QED
        BY <2>2 DEF Justified, Arriving, Evaluating
<1> QED
    BY <1>1, <1>2, <1>3, <1>4 DEF S3Step

LEMMA JudgeStepJustified ==
    ASSUME WellFormed, Remember, NEW t \in Tasks, Justified(t), JudgeStep(t)
    PROVE  Justified(t)'
<1>0. DOMAIN task = Tasks /\ TasksOK
    BY DEF WellFormed, TasksOK
<1>1. CASE AuthorizeMiddleware(t)
    <2>1. /\ task'[t].pc = "user_policies" /\ task'[t].action = "All"
          /\ task'[t].policies = {} /\ task'[t].groups = {} /\ task'[t].again = {}
        BY <1>0, <1>1 DEF AuthorizeMiddleware, Idle
    <2>2. "All" \in Actions
        BY DEF Actions, ActionStr
    <2> QED
        BY <2>1, <2>2, StartJustified DEF Arrived
<1>2. CASE HandleSimulatePolicy(t)
    <2>1. PICK u \in Users, s \in Requests :
            task' = [task EXCEPT ![t] = [Idle EXCEPT !.pc = "sim_user", !.kind = "simulate", !.who = u,
                                                     !.action = s.action, !.resource = s.resource]]
        BY <1>2 DEF HandleSimulatePolicy
    <2>2. /\ task'[t].pc = "sim_user" /\ task'[t].action = s.action
          /\ task'[t].policies = {} /\ task'[t].groups = {} /\ task'[t].again = {}
        BY <1>0, <2>1 DEF Idle
    <2> QED
        BY <2>2, RequestsAssumption, StartJustified DEF Arrived
<1>3. CASE IsAuthorizedDetailed(t)
    <2>1. CASE Answers(t)
        BY <1>0, <2>1, IdleFields DEF Answers, Justified, Arriving, Evaluating
    <2> QED
        BY <1>0, <1>3, <2>1, IsAuthorizedDetailedResult, SimulatorJustified
<1> QED
    BY <1>1, <1>2, <1>3, IsAuthorizedJustified, S3StepJustified DEF JudgeStep

LEMMA NextJustified ==
    ASSUME WellFormed, JudgeInv, [Next]_vars
    PROVE  JudgeInv'
<1> SUFFICES ASSUME NEW x \in Tasks PROVE Justified(x)'
    BY DEF JudgeInv
<1>0. Good(db) /\ TasksOK /\ PastOK /\ Justified(x)
    BY DEF WellFormed, JudgeInv
<1>1. CASE UNCHANGED vars
    BY <1>0, <1>1 DEF vars, Justified, Arrived, Reading, Accounted, Permitted
<1>2. CASE Next
    <2>0. Remember
        BY <1>2 DEF Next
    <2>1. ASSUME NEW k \in TempIds, Expire(k) PROVE Justified(x)'
        BY <1>0, <2>0, <2>1, JustifiedStays DEF Expire
    <2>2. ASSUME NEW t \in Tasks, StoreStep(t) PROVE Justified(x)'
        <3>1. StoreMove(t) /\ \A y \in Tasks \ {t} : task'[y] = task[y]
            BY <1>0, <2>2, StoreStepMoves, StoreMoveTasks
        <3>2. task'[t].pc \in {"idle"} \cup StorePcs
            BY <1>0, <3>1, IdleFields DEF StoreMove, Answers, Awaits, TasksOK
        <3>3. CASE x = t
            BY <3>2, <3>3 DEF Justified, Arriving, Evaluating, StorePcs
        <3>4. CASE x # t
            BY <1>0, <2>0, <3>1, <3>4, JustifiedStays
        <3> QED
            BY <3>3, <3>4
    <2>3. ASSUME NEW t \in Tasks, JudgeStep(t) PROVE Justified(x)'
        <3>1. JudgeMove(t)
            BY <1>0, <2>3, JudgeStepMoves
        <3>2. \A y \in Tasks \ {t} : task'[y] = task[y]
            BY <1>0, <3>1, TaskMoved DEF JudgeMove
        <3>3. CASE x # t
            BY <1>0, <2>0, <3>2, <3>3, JustifiedStays
        <3>4. CASE x = t
            BY <1>0, <2>0, <2>3, <3>4, JudgeStepJustified
        <3> QED
            BY <3>3, <3>4
    <2> QED
        BY <1>2, <2>1, <2>2, <2>3, Steps DEF Next
<1> QED
    BY <1>1, <1>2

(* Whoever is_authorized or the simulator lets in was allowed by a policy of *)
(* his or of a group of his at some time of the evaluation, and no denial    *)
(* stood against him the whole time: although the evaluation reads policies, *)
(* groups and memberships in separate closures, no interleaving with the     *)
(* handlers that change them makes it miss a denial that was always there.   *)
THEOREM GrantsJustified == Spec => []GrantsAreJustified
<1>1. Init => WellFormed /\ JudgeInv
    <2>1. Init => JudgeInv
        BY IdleFields DEF Init, JudgeInv, Justified, Arriving, Evaluating
    <2> QED
        BY <2>1, InitWellFormed
<1>2. WellFormed /\ JudgeInv /\ [Next]_vars => (WellFormed /\ JudgeInv)'
    BY NextWellFormed, NextJustified
<1>3. JudgeInv => GrantsAreJustified
    BY DEF JudgeInv, Justified, GrantsAreJustified
<1> QED
    BY <1>1, <1>2, <1>3, PTL DEF Spec
=============================================================================
