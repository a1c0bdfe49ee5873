------------------------------ MODULE S3Access ------------------------------
(* Who may do what over S3: the credential lookup of crates/strix-s3/src/    *)
(* iam_auth.rs and check_authorization of service.rs, composed with the      *)
(* admin API that changes the tables they read.  s3s asks get_secret_key for *)
(* the secret, verifies the signature and calls the handler, which calls     *)
(* check_authorization.                                                      *)
EXTENDS AdminApi

(* A credential is Root, a key id, a temporary id or None (anonymous).       *)
Credentials == {Root, None} \cup KeyIds \cup TempIds

ASSUME RequestsAssumption ==
    /\ \A r \in Requests : r.action \in Actions
    /\ \A doc \in Documents : \A i \in DOMAIN doc : WellFormedStatement(doc[i])

-----------------------------------------------------------------------------
(* get_secret_key and get_temp_secret_key: an unknown, expired or inactive   *)
(* key has no secret, and the request ends.  Anonymous requests and root do  *)
(* not read the tables.  The last_used column, which nothing reads back into *)
(* a decision, is left out.                                                  *)
S3Arrive(t) ==
    /\ At(t, "idle") /\ t \in Judged /\ "s3" \in ops
    /\ \E cred \in Credentials, r \in Requests :
        /\ task' = [task EXCEPT ![t] =
                        [Idle EXCEPT !.pc = IF cred \in {Root, None} THEN "username" ELSE "secret",
                                     !.kind = "s3", !.user = cred,
                                     !.action = r.action, !.resource = r.resource]]
    /\ UNCHANGED db

(* The key's status is a condition of get_credentials' query already, so     *)
(* that the handler's own test of it, on the row of the same query, never    *)
(* refuses a key that the query gave.                                        *)
GetSecretKey(t) ==
    LET cred == task[t].user
        u == IF cred \in TempIds THEN GetTempCredentials(db, cred) ELSE GetCredentials(db, cred)
    IN  /\ At(t, "secret")
        /\ IF u = None \/ UserStatus(db, u) # "active" THEN Finish(t)
           ELSE Goto(t, IF cred \in TempIds THEN "session_token" ELSE "username")
        /\ UNCHANGED db

(* validate_session_token of service.rs: the header carries some token.      *)
ValidateSessionToken(t) ==
    /\ At(t, "session_token")
    /\ \E token \in TempIds \cup {None} :
        IF TokenValid(db, task[t].user, token) THEN Goto(t, "username") ELSE Finish(t)
    /\ UNCHANGED db

(* get_username, and the early return of check_authorization for root.       *)
GetUsername(t) ==
    LET cred == task[t].user
        u == CASE cred = None -> "anonymous"
               [] cred \in TempIds -> GetTempCredentials(db, cred)
               [] OTHER -> GetCredentials(db, cred)
    IN  /\ At(t, "username")
        /\ task' = [task EXCEPT ![t] =
                        IF u = None THEN Idle
                        ELSE [@ EXCEPT !.who = u, !.pc = IF u = Root THEN "granted" ELSE "user_policies"]]
        /\ UNCHANGED db

PrincipalOf(k) == IF k.who = "anonymous" THEN Anonymous ELSE User(k.who)

(* The rest of check_authorization: the bucket policy is asked only when the *)
(* user's policies did not allow the request.                                *)
CheckBucketPolicy(t) ==
    LET k == task[t]
    IN  /\ At(t, "bucket_policy")
        /\ IF /\ k.resource.bucket # None
              /\ IsAuthorizedByBucketPolicy(db, k.resource.bucket, PrincipalOf(k), k.action, k.resource) = "Allow"
           THEN Goto(t, "granted_by_bucket") ELSE Finish(t)
        /\ UNCHANGED db

(* The handler that was let in answers.                                      *)
Served(t) ==
    /\ task[t].pc \in {"granted", "granted_by_bucket"}
    /\ Finish(t)
    /\ UNCHANGED db

S3Step(t) ==
    \/ S3Arrive(t) \/ GetSecretKey(t) \/ ValidateSessionToken(t) \/ GetUsername(t)
    \/ CheckBucketPolicy(t) \/ Served(t)

(* Time passes the expiration of a temporary credential.                     *)
Expire(k) ==
    /\ k \in DOMAIN db.temps /\ ~db.temps[k].expired
    /\ db' = [db EXCEPT !.temps[k].expired = TRUE]
    /\ UNCHANGED task

-----------------------------------------------------------------------------
(* What was so while a request was in flight, as history.  From arrival on:  *)
(* whether its credential, and which users, were at no time usable.  While   *)
(* the policies are evaluated: the denials that stood the whole time, the    *)
(* permissions and memberships that were there at some time, and whether the *)
(* bucket's policy denied the request the whole time.                        *)

(* What a document says of a request, by the meaning of patterns.            *)
Says(doc, effect, k) ==
    \E i \in DOMAIN doc : doc[i].effect = effect /\ Covers(doc[i], k.action, k.resource)

Denials(k) ==
    {<<"user", r>> : r \in {x \in db.userPolicies : x[1] = k.who /\ Says(x[3], "Deny", k)}}
    \cup {<<"group", r>> : r \in {x \in db.groupPolicies : <<x[1], k.who>> \in db.members /\ Says(x[3], "Deny", k)}}

Permits(k) ==
    {<<"user", r>> : r \in {x \in db.userPolicies : x[1] = k.who /\ Says(x[3], "Allow", k)}}
    \cup {<<"group", r>> : r \in {x \in db.groupPolicies : Says(x[3], "Allow", k)}}

Barred(k) ==
    /\ k.resource.bucket # None
    /\ IsAuthorizedByBucketPolicy(db, k.resource.bucket, PrincipalOf(k), k.action, k.resource) = "Deny"

Unusable(k) ==
    LET keys == IF k.user \in TempIds THEN {x \in DOMAIN db.temps : ~db.temps[x].expired}
                ELSE {x \in DOMAIN db.keys : db.keys[x].status = "active"} \cup {None, Root}
    IN  {<<"user", u>> : u \in {x \in Users : x \notin DOMAIN db.users \/ db.users[x].status # "active"}}
        \cup {<<"key", c>> : c \in {k.user} \ keys}

NoPast == [denials |-> {}, permits |-> {}, groups |-> {}, dead |-> {}, barred |-> FALSE]

Evaluating == {"user_policies", "user_groups", "group_policies", "sim_user", "sim_groups", "sim_deny", "sim_allow"}
Arriving == {"secret", "session_token", "username"}
Admitted == {"granted", "granted_by_bucket", "handle"}

Recall(t) ==
    LET k == task[t]
        k2 == task'[t]
        p == past[t]
        dead == IF k2.kind # "s3" THEN {} ELSE IF k.pc = "idle" THEN Unusable(k2) ELSE p.dead \cap Unusable(k2)
    IN  IF k2.pc \in Arriving THEN [NoPast EXCEPT !.dead = dead]
        ELSE IF k2.pc \in {"user_policies", "sim_user"}
        THEN [denials |-> Denials(k2), permits |-> Permits(k2), groups |-> ListUserGroups(db, k2.who), dead |-> dead,
              barred |-> Barred(k2)]
        ELSE IF k.pc \in Evaluating /\ k2.pc \in Evaluating \cup Admitted \cup {"bucket_policy"}
        THEN [denials |-> p.denials \cap Denials(k), permits |-> p.permits \cup Permits(k),
              groups |-> p.groups \cup ListUserGroups(db, k.who), dead |-> dead, barred |-> p.barred /\ Barred(k)]
        ELSE IF k2.pc \in Admitted \cup {"bucket_policy"} THEN [p EXCEPT !.dead = dead]
        ELSE NoPast

Remember == past' = [t \in Tasks |-> Recall(t)]

Init ==
    /\ ops \in Workloads
    /\ db = EmptyDb
    /\ task = [t \in Tasks |-> Idle]
    /\ past = [t \in Tasks |-> NoPast]

Next ==
    /\ \/ \E k \in TempIds : Expire(k)
       \/ \E t \in Tasks : AdminStep(t) \/ S3Step(t)
    /\ Remember
    /\ UNCHANGED ops

Spec == Init /\ [][Next]_vars

-----------------------------------------------------------------------------
TypeOK ==
    /\ db.userPolicies \subseteq Users \X PolicyNames \X Documents
    /\ db.groupPolicies \subseteq Groups \X PolicyNames \X Documents
    /\ db.groups \subseteq Groups
    /\ db.managed \in [DOMAIN db.managed -> Documents]
    /\ db.keys \in [DOMAIN db.keys -> [user: Users, status: {"active", "inactive"}]]
    /\ db.temps \in [DOMAIN db.temps -> [user: Users, expired: BOOLEAN]]
    /\ DOMAIN task = Tasks /\ DOMAIN past = Tasks

(* No key, membership, attachment or temporary credential outlives the user  *)
(* or the group it belongs to, and none is added to one deleted between the  *)
(* check and the INSERT: the cascades and foreign keys of init_iam_schema.   *)
NoDanglingRows ==
    /\ \A k \in DOMAIN db.keys : db.keys[k].user \in DOMAIN db.users
    /\ \A k \in DOMAIN db.temps : db.temps[k].user \in DOMAIN db.users
    /\ \A m \in db.members : m[1] \in db.groups /\ m[2] \in DOMAIN db.users
    /\ \A r \in db.userPolicies : r[1] \in DOMAIN db.users
    /\ \A r \in db.groupPolicies : r[1] \in db.groups

(* create_access_key counts and inserts in two closures, so concurrent       *)
(* requests may pass its limit of two, each of them by one key at most.      *)
KeysBounded ==
    \A u \in DOMAIN db.users :
        Cardinality(ListAccessKeys(db, u)) <= MaxKeys + Cardinality(Tasks) - 1

Permitted(t) ==
    \E r \in past[t].permits : r[1] = "user" \/ r[2][1] \in past[t].groups

(* A user whom is_authorized (or the simulator) lets in was, at some time    *)
(* during the evaluation, allowed by a policy of his or of a group of his,   *)
(* and no denial stood against him the whole time, however the policies, the *)
(* groups and the memberships moved between its closures.                    *)
GrantsAreJustified ==
    \A t \in Tasks :
        task[t].pc \in {"granted", "handle"} /\ task[t].who # Root => Permitted(t) /\ past[t].denials = {}

(* Nobody is served over S3 whose user was inactive or gone, or whose key    *)
(* was inactive, deleted or expired, from the request's arrival on.          *)
NoAccessOnceRevoked ==
    \A t \in Tasks :
        /\ task[t].kind = "s3"
        /\ task[t].pc \in {"granted", "granted_by_bucket"}
        => {<<"key", task[t].user>>, <<"user", task[t].who>>} \cap past[t].dead = {}

(* "If any policy explicitly denies the action, access is denied"            *)
(* (docs/guides/iam-policies.md): nobody but root, who is not asked for      *)
(* policies, is served over S3 against a denial by a policy of his, of a     *)
(* group of his or of the bucket that stood the whole time.                  *)
DenyTakesPrecedence ==
    \A t \in Tasks :
        task[t].kind = "s3" /\ task[t].pc \in {"granted", "granted_by_bucket"} =>
            past[t].denials = {} /\ ~past[t].barred
=============================================================================
