---------------------------- MODULE LocalFsStore ----------------------------
(***************************************************************************)
(* The object data path of strix-storage (localfs.rs): an SQLite table of  *)
(* object rows, a directory of blob files named after the row's id, and    *)
(* concurrent request tasks.                                               *)
(*                                                                         *)
(* Every closure handed to db.call runs alone on the one connection        *)
(* thread, so each is one action; a task may be suspended at every await   *)
(* between two closures, and each such point is a value of the task's pc.  *)
(* The statements inside a closure commit one by one (there is no          *)
(* transaction), which only a crash of the process can reveal.             *)
(*                                                                         *)
(* Data: a body is a model value and its MD5 etag is that same value (MD5  *)
(* taken as injective); a ULID is a fresh model value; time is counted in  *)
(* the seconds of SQLite's datetime('now').                                *)
(***************************************************************************)
EXTENDS Naturals, FiniteSets

CONSTANTS
    Buckets, Keys, Bodies, Ids, Reqs,  \* names, contents, ULIDs, request tasks
    Null,             \* the version id "null" of an unversioned write
    None,             \* an absent optional value
    Algorithms,       \* encryption_algorithm values requests may ask for
    Untils,           \* retain_until_date values requests may ask for
    Ops,              \* operations the clients of this instance issue
    Faults,           \* faults of this instance: "abandon", "crash", "body"
    DistinctSeconds,  \* TRUE: no two INSERTs share a second of the clock
    MaxNow            \* bound on the clock's own ticks

ASSUME SentinelsDiffer ==
    /\ Null \notin Ids
    /\ None \notin Ids \cup Buckets \cup Keys \cup Bodies \cup {Null}
ASSUME BoundsAreSane ==
    /\ Algorithms \subseteq {"none", "AES256", "SSE-C"}
    /\ Untils \subseteq Nat /\ MaxNow \in Nat
    /\ DistinctSeconds \in BOOLEAN

VARIABLES
    buckets,   \* bucket name -> versioning_status, or "absent"
    objects,   \* the objects table: row id -> row
    blobs,     \* objects/ab/cd/<id>.blob: id -> stored bytes
    tmp,       \* tmp/<id>-upload.tmp and tmp/<id>.tmp
    used,      \* ULIDs handed out so far
    req,       \* task -> its program counter and local variables
    now        \* the clock, in seconds

vars == <<buckets, objects, blobs, tmp, used, req, now>>

Statuses == {"absent", "Unversioned", "Enabled", "Suspended"}
Modes    == {"none", "GOVERNANCE", "COMPLIANCE"}
Vids     == Ids \cup {Null}

Row == [bucket : Buckets, key : Keys, vid : Vids, latest : BOOLEAN,
        marker : BOOLEAN, etag : Bodies \cup {None},
        alg : {"none", "AES256", "SSE-C"},
        created : Nat, hold : BOOLEAN, mode : Modes, until : Nat]

Pcs == {"idle", "putOpen", "putStream", "putPlace", "putSealed", "putRename",
        "commit", "copySrc", "copyDst", "copyBlob", "getBlob", "got", "delLock",
        "delSelect", "delRows", "delUnlink", "delPromote",
        "delMarker", "dropBucket", "retain"}

Task == [pc : Pcs, bucket : Buckets \cup {None}, key : Keys \cup {None},
         vid : Vids \cup {None}, etag : Bodies \cup {None},
         body : Bodies \cup {None}, alg : {"none", "AES256", "SSE-C"},
         versioned : BOOLEAN, id : Ids \cup {None}, ids : SUBSET Ids,
         src : Ids \cup {None}, sbucket : Buckets \cup {None},
         skey : Keys \cup {None}, mode : Modes, until : Nat]

(***************************************************************************)
(* derive_object_key: the AES key of an SSE-S3 blob depends on the bucket, *)
(* the key and the version id; an SSE-C blob is sealed with the customer's *)
(* key, a plain one with none.  Opening a blob needs the key it was        *)
(* sealed with (AES-GCM authenticates).                                    *)
(***************************************************************************)
SealingKey(alg, b, k, v) ==
    CASE alg = "AES256" -> <<b, k, v>>
      [] alg = "SSE-C"  -> <<"customer">>
      [] OTHER          -> <<>>

Blob == [body : Bodies,
         seal : {SealingKey(a, b, k, v) : a \in {"none", "AES256", "SSE-C"},
                                          b \in Buckets, k \in Keys, v \in Vids}]

Idle == [pc |-> "idle", bucket |-> None, key |-> None, vid |-> None,
         etag |-> None, body |-> None, alg |-> "none", versioned |-> FALSE,
         id |-> None, ids |-> {}, src |-> None, sbucket |-> None,
         skey |-> None, mode |-> "none", until |-> 0]

TypeOK ==
    /\ buckets \in [Buckets -> Statuses]
    /\ DOMAIN objects \subseteq Ids
    /\ objects \in [DOMAIN objects -> Row]
    /\ DOMAIN blobs \subseteq Ids
    /\ blobs \in [DOMAIN blobs -> Blob]
    /\ tmp \subseteq Ids \X {"upload", "sealed"}
    /\ used \subseteq Ids
    /\ req \in [Reqs -> Task]
    /\ now \in Nat

Init ==
    /\ buckets = [b \in Buckets |-> "absent"]
    /\ objects = [i \in {} |-> None]
    /\ blobs = [i \in {} |-> None]
    /\ tmp = {}
    /\ used = {}
    /\ req = [r \in Reqs |-> Idle]
    /\ now = 0

-----------------------------------------------------------------------------
(* Queries and statements on the objects table.                            *)

RowsOf(b, k) == {i \in DOMAIN objects : objects[i].bucket = b /\ objects[i].key = k}

\* WHERE ... AND version_id = ?3, or AND is_latest = 1 when no version is given
Target(b, k, v) ==
    {i \in RowsOf(b, k) : IF v = None THEN objects[i].latest ELSE objects[i].vid = v}

Without(f, S) == [i \in DOMAIN f \ S |-> f[i]]

With(f, i, x) == [j \in DOMAIN f \cup {i} |-> IF j = i THEN x ELSE f[j]]

Demoted(S) ==
    [i \in DOMAIN objects |->
        IF i \in S THEN [objects[i] EXCEPT !.latest = FALSE] ELSE objects[i]]

\* object_delete_locked: a legal hold, or a retention date still to come
Locked(row) == row.hold \/ (row.mode # "none" /\ now < row.until)

Exists(b) == buckets[b] # "absent"

\* datetime('now') of an INSERT
AfterInsert == now' = IF DistinctSeconds THEN now + 1 ELSE now

Free(r) == req[r].pc \in {"idle", "got"}

\* Bound: calls that will need a ULID start only while one is left for each.
NeedsId(t) == t.pc \in {"copySrc", "copyDst"} \/ (t.vid = None /\ t.pc \in {"delLock", "delMarker"})

IdLeft == Cardinality({r \in Reqs : NeedsId(req[r])}) < Cardinality(Ids \ used)

Goto(r, pc) == req' = [req EXCEPT ![r].pc = pc]

Finish(r) == req' = [req EXCEPT ![r] = Idle]

-----------------------------------------------------------------------------
(* Buckets.                                                                *)

CreateBucket(r, b) ==
    /\ "create" \in Ops
    /\ Free(r)
    /\ ~Exists(b)
    /\ buckets' = [buckets EXCEPT ![b] = "Unversioned"]
    /\ UNCHANGED <<objects, blobs, tmp, used, req, now>>

SetBucketVersioning(r, b, status) ==
    /\ "versioning" \in Ops
    /\ Free(r)
    /\ Exists(b)
    /\ buckets' = [buckets EXCEPT ![b] = status]
    /\ UNCHANGED <<objects, blobs, tmp, used, req, now>>

\* delete_bucket looks for rows in one closure and deletes in the next.
DeleteBucketCheck(r, b) ==
    /\ "drop" \in Ops
    /\ Free(r)
    /\ Exists(b)
    /\ \A i \in DOMAIN objects : objects[i].bucket # b
    /\ req' = [req EXCEPT ![r] = [Idle EXCEPT !.pc = "dropBucket", !.bucket = b]]
    /\ UNCHANGED <<buckets, objects, blobs, tmp, used, now>>

\* DELETE FROM buckets cascades to the rows written since the check.
DeleteBucketCommit(r) ==
    /\ req[r].pc = "dropBucket"
    /\ LET b == req[r].bucket IN
        /\ buckets' = [buckets EXCEPT ![b] = "absent"]
        /\ objects' = Without(objects, {i \in DOMAIN objects : objects[i].bucket = b})
    /\ Finish(r)
    /\ UNCHANGED <<blobs, tmp, used, now>>

-----------------------------------------------------------------------------
(* put_object.                                                             *)

\* Mutant: an overwrite reuses the id of the object it replaces.
PutStartInPlace(r, b, k, body, alg) ==
    /\ "put" \in Ops
    /\ Free(r) /\ IdLeft
    /\ Exists(b)
    /\ \E i \in IF Target(b, k, None) = {} THEN Ids \ used ELSE Target(b, k, None) :
        /\ used' = used \cup {i}
        /\ req' = [req EXCEPT ![r] =
                     [Idle EXCEPT !.pc = "putOpen", !.bucket = b, !.key = k,
                                  !.body = body, !.etag = body, !.alg = alg,
                                  !.versioned = (buckets[b] = "Enabled"), !.id = i]]
    /\ UNCHANGED <<buckets, objects, blobs, tmp, now>>

\* Read the versioning status, allocate the ULID.
PutStart(r, b, k, body, alg) ==
    /\ "put" \in Ops
    /\ Free(r) /\ IdLeft
    /\ Exists(b)
    /\ \E i \in Ids \ used :
        /\ used' = used \cup {i}
        /\ req' = [req EXCEPT ![r] =
                     [Idle EXCEPT !.pc = "putOpen", !.bucket = b, !.key = k,
                                  !.body = body, !.etag = body, !.alg = alg,
                                  !.versioned = (buckets[b] = "Enabled"), !.id = i]]
    /\ UNCHANGED <<buckets, objects, blobs, tmp, now>>

PutOpenTmp(r) ==
    /\ req[r].pc = "putOpen"
    /\ tmp' = tmp \cup {<<req[r].id, "upload">>}
    /\ Goto(r, "putStream")
    /\ UNCHANGED <<buckets, objects, blobs, used, now>>

PutStreamBody(r) ==
    /\ req[r].pc = "putStream"
    /\ Goto(r, "putPlace")
    /\ UNCHANGED <<buckets, objects, blobs, tmp, used, now>>

\* A chunk arrives as an error: the ? returns and the temporary file stays.
PutBodyError(r) ==
    /\ "body" \in Faults
    /\ req[r].pc = "putStream"
    /\ Finish(r)
    /\ UNCHANGED <<buckets, objects, blobs, tmp, used, now>>

\* Mutant: version_id is left NULL outside versioned buckets.
NewVidOrNone(t) == IF t.versioned THEN t.id ELSE None

NewVid(t) == IF t.versioned THEN t.id ELSE Null

\* An encrypted body is written to a second temporary file, ...
PutSeal(r) ==
    /\ req[r].pc = "putPlace"
    /\ req[r].alg # "none"
    /\ tmp' = tmp \cup {<<req[r].id, "sealed">>}
    /\ Goto(r, "putSealed")
    /\ UNCHANGED <<buckets, objects, blobs, used, now>>

\* ... unless it is to be sealed with a customer's key and none was sent: the
\* call returns and the plaintext stays.
PutWithoutKey(r) ==
    /\ req[r].pc = "putPlace"
    /\ req[r].alg = "SSE-C"
    /\ Finish(r)
    /\ UNCHANGED <<buckets, objects, blobs, tmp, used, now>>

\* Mutant: the plaintext temporary file is not removed.
PutKeepPlain(r) ==
    /\ req[r].pc = "putSealed"
    /\ Goto(r, "putRename")
    /\ UNCHANGED <<buckets, objects, blobs, tmp, used, now>>

\* Then the first one is removed.
PutDropPlain(r) ==
    /\ req[r].pc = "putSealed"
    /\ tmp' = tmp \ {<<req[r].id, "upload">>}
    /\ Goto(r, "putRename")
    /\ UNCHANGED <<buckets, objects, blobs, used, now>>

\* fs::rename of the remaining temporary file to the blob's path.
PutRename(r) ==
    /\ \/ req[r].pc = "putPlace" /\ req[r].alg = "none"
       \/ req[r].pc = "putRename"
    /\ LET t == req[r] IN
        /\ tmp' = tmp \ {<<t.id, IF t.alg = "none" THEN "upload" ELSE "sealed">>}
        /\ blobs' = With(blobs, t.id,
                         [body |-> t.body,
                          seal |-> SealingKey(t.alg, t.bucket, t.key, NewVid(t))])
    /\ Goto(r, "commit")
    /\ UNCHANGED <<buckets, objects, used, now>>

NewRow(t) ==
    [bucket |-> t.bucket, key |-> t.key, vid |-> NewVid(t), latest |-> TRUE,
     marker |-> FALSE, etag |-> t.etag, alg |-> t.alg, created |-> now,
     hold |-> FALSE, mode |-> "none", until |-> 0]

\* Mutant: an unversioned overwrite demotes the old row instead of deleting it.
SupersededDemoted(t) == Demoted(RowsOf(t.bucket, t.key))

\* First statement of the closing closure of put_object and copy_object:
\* demote the other versions, or delete them all, by the status read earlier.
Superseded(t) ==
    IF t.versioned THEN Demoted(RowsOf(t.bucket, t.key))
                   ELSE Without(objects, RowsOf(t.bucket, t.key))

\* The INSERT fails on its foreign key when the bucket is gone.
Commit(r) ==
    /\ req[r].pc = "commit"
    /\ LET t == req[r] IN
        IF Exists(t.bucket)
        THEN objects' = With(Superseded(t), t.id, NewRow(t)) /\ AfterInsert
        ELSE objects' = Superseded(t) /\ UNCHANGED now
    /\ Finish(r)
    /\ UNCHANGED <<buckets, blobs, tmp, used>>

-----------------------------------------------------------------------------
(* get_object: row first, blob later.                                      *)

GetRow(r, b, k, v) ==
    /\ "get" \in Ops
    /\ Free(r)
    /\ \E i \in Target(b, k, v) :
        /\ ~objects[i].marker
        /\ req' = [req EXCEPT ![r] =
                     [Idle EXCEPT !.pc = "getBlob", !.bucket = b, !.key = k,
                                  !.vid = objects[i].vid, !.id = i,
                                  !.etag = objects[i].etag, !.alg = objects[i].alg]]
    /\ UNCHANGED <<buckets, objects, blobs, tmp, used, now>>

Opens(t, b, k, v, i) == blobs[i].seal = SealingKey(t.alg, b, k, v)

\* Mutant: the blob is looked up again by key, after the etag was read.
GetBlobByKey(r) ==
    /\ req[r].pc = "getBlob"
    /\ LET t == req[r]
           S == {i \in Target(t.bucket, t.key, None) :
                    i \in DOMAIN blobs /\ Opens(t, t.bucket, t.key, objects[i].vid, i)} IN
        \/ \E i \in S : req' = [req EXCEPT ![r].pc = "got", ![r].body = blobs[i].body]
        \/ S = {} /\ Finish(r)
    /\ UNCHANGED <<buckets, objects, blobs, tmp, used, now>>

\* ObjectNotFound when the blob has been removed, an error when it does not
\* decrypt; otherwise the body goes out under the etag read with the row.
GetBlob(r) ==
    /\ req[r].pc = "getBlob"
    /\ LET t == req[r] IN
        IF t.id \in DOMAIN blobs /\ Opens(t, t.bucket, t.key, t.vid, t.id)
        THEN req' = [req EXCEPT ![r].pc = "got", ![r].body = blobs[t.id].body]
        ELSE Finish(r)
    /\ UNCHANGED <<buckets, objects, blobs, tmp, used, now>>

-----------------------------------------------------------------------------
(* copy_object: head, source row, destination status, blob, commit.        *)

CopyHead(r, sb, sk, b, k) ==
    /\ "copy" \in Ops
    /\ Free(r) /\ IdLeft
    /\ \E i \in Target(sb, sk, None) :
        /\ ~objects[i].marker
        /\ req' = [req EXCEPT ![r] =
                     [Idle EXCEPT !.pc = "copySrc", !.bucket = b, !.key = k,
                                  !.sbucket = sb, !.skey = sk,
                                  !.vid = objects[i].vid, !.etag = objects[i].etag]]
    /\ UNCHANGED <<buckets, objects, blobs, tmp, used, now>>

\* A second query fetches the id and the algorithm of the latest row.
CopySource(r) ==
    /\ req[r].pc = "copySrc"
    /\ LET t == req[r]
           S == Target(t.sbucket, t.skey, None) IN
        \/ \E i \in S : req' = [req EXCEPT ![r].pc = "copyDst", ![r].src = i,
                                           ![r].alg = objects[i].alg]
        \/ S = {} /\ Finish(r)
    /\ UNCHANGED <<buckets, objects, blobs, tmp, used, now>>

CopyDestination(r) ==
    /\ req[r].pc = "copyDst"
    /\ \/ /\ Exists(req[r].bucket)
          /\ \E i \in Ids \ used :
              /\ used' = used \cup {i}
              /\ req' = [req EXCEPT ![r].pc = "copyBlob", ![r].id = i,
                           ![r].versioned = (buckets[req[r].bucket] = "Enabled")]
       \/ ~Exists(req[r].bucket) /\ Finish(r) /\ UNCHANGED used
    /\ UNCHANGED <<buckets, objects, blobs, tmp, now>>

\* Mutant: every blob is copied as it is.
CopyBlobVerbatim(r) ==
    /\ req[r].pc = "copyBlob"
    /\ LET t == req[r] IN
        IF t.src \in DOMAIN blobs
        THEN blobs' = With(blobs, t.id, blobs[t.src]) /\ Goto(r, "commit")
        ELSE Finish(r) /\ UNCHANGED blobs
    /\ UNCHANGED <<buckets, objects, tmp, used, now>>

\* An SSE-S3 blob is opened with the version id of the head query and sealed
\* again for the destination; any other blob is copied as it is.
CopyBlob(r) ==
    /\ req[r].pc = "copyBlob"
    /\ LET t == req[r] IN
        IF /\ t.src \in DOMAIN blobs
           /\ t.alg = "AES256" => Opens(t, t.sbucket, t.skey, t.vid, t.src)
        THEN /\ blobs' = With(blobs, t.id,
                   [body |-> blobs[t.src].body,
                    seal |-> IF t.alg = "AES256"
                             THEN SealingKey(t.alg, t.bucket, t.key, NewVid(t))
                             ELSE blobs[t.src].seal])
             /\ Goto(r, "commit")
        ELSE Finish(r) /\ UNCHANGED blobs
    /\ UNCHANGED <<buckets, objects, tmp, used, now>>

-----------------------------------------------------------------------------
(* delete_object_version; delete_object is the call without a version.     *)

DeleteStart(r, b, k, v) ==
    /\ "delete" \in Ops
    /\ Free(r) /\ (v = None => IdLeft)
    /\ Exists(b)
    /\ req' = [req EXCEPT ![r] =
                 [Idle EXCEPT !.pc = "delLock", !.bucket = b, !.key = k, !.vid = v,
                              !.versioned = (buckets[b] \in {"Enabled", "Suspended"})]]
    /\ UNCHANGED <<buckets, objects, blobs, tmp, used, now>>

AfterLockCheck(t) ==
    IF t.vid = None /\ t.versioned THEN "delMarker" ELSE "delSelect"

\* Mutant: the lock check looks at the latest row whatever version is deleted.
DeleteLockCheckLatest(r) ==
    /\ req[r].pc = "delLock"
    /\ LET t == req[r]
           S == Target(t.bucket, t.key, None) IN
        \/ (S = {} \/ \E i \in S : ~Locked(objects[i])) /\ Goto(r, AfterLockCheck(t))
        \/ (\E i \in S : Locked(objects[i])) /\ Finish(r)
    /\ UNCHANGED <<buckets, objects, blobs, tmp, used, now>>

\* object_delete_locked reads one row: the version named, or a latest one.
DeleteLockCheck(r) ==
    /\ req[r].pc = "delLock"
    /\ LET t == req[r]
           S == Target(t.bucket, t.key, t.vid) IN
        \/ (S = {} \/ \E i \in S : ~Locked(objects[i])) /\ Goto(r, AfterLockCheck(t))
        \/ (\E i \in S : Locked(objects[i])) /\ Finish(r)
    /\ UNCHANGED <<buckets, objects, blobs, tmp, used, now>>

\* The rows a hard delete removes: the version named, or every version.
Victims(t) ==
    IF t.vid = None THEN RowsOf(t.bucket, t.key) ELSE Target(t.bucket, t.key, t.vid)

\* Mutant: the blobs are unlinked before the rows are deleted.
DeleteSelectUnlink(r) ==
    /\ req[r].pc = "delSelect"
    /\ req' = [req EXCEPT ![r].pc = "delRows", ![r].ids = Victims(req[r])]
    /\ blobs' = Without(blobs, Victims(req[r]))
    /\ UNCHANGED <<buckets, objects, tmp, used, now>>

DeleteSelect(r) ==
    /\ req[r].pc = "delSelect"
    /\ req' = [req EXCEPT ![r].pc = "delRows", ![r].ids = Victims(req[r])]
    /\ UNCHANGED <<buckets, objects, blobs, tmp, used, now>>

DeleteRows(r) ==
    /\ req[r].pc = "delRows"
    /\ objects' = Without(objects, Victims(req[r]))
    /\ Goto(r, "delUnlink")
    /\ UNCHANGED <<buckets, blobs, tmp, used, now>>

\* remove_file, one selected id after the other; a missing file is ignored.
DeleteUnlink(r) ==
    /\ req[r].pc = "delUnlink"
    /\ \/ \E i \in req[r].ids :
            /\ blobs' = Without(blobs, {i})
            /\ req' = [req EXCEPT ![r].ids = @ \ {i}]
       \/ /\ req[r].ids = {}
          /\ IF req[r].vid = None THEN Finish(r) ELSE Goto(r, "delPromote")
          /\ UNCHANGED blobs
    /\ UNCHANGED <<buckets, objects, tmp, used, now>>

\* Mutant: ORDER BY created_at without DESC.
Oldest(S) == {i \in S : \A j \in S : objects[i].created <= objects[j].created}

\* ORDER BY created_at DESC LIMIT 1: among rows of the same second SQLite
\* returns any.
Newest(S) == {i \in S : \A j \in S : objects[j].created <= objects[i].created}

\* Mutant: no version is promoted.
DeleteNoPromote(r) ==
    /\ req[r].pc = "delPromote"
    /\ Finish(r)
    /\ UNCHANGED <<buckets, objects, blobs, tmp, used, now>>

DeletePromote(r) ==
    /\ req[r].pc = "delPromote"
    /\ LET S == RowsOf(req[r].bucket, req[r].key) IN
        \/ \E i \in Newest(S) :
             objects' = With(objects, i, [objects[i] EXCEPT !.latest = TRUE])
        \/ S = {} /\ UNCHANGED objects
    /\ Finish(r)
    /\ UNCHANGED <<buckets, blobs, tmp, used, now>>

\* Mutant: the marker is inserted without is_latest.
MarkerNotLatest(t, i) ==
    [bucket |-> t.bucket, key |-> t.key, vid |-> i, latest |-> FALSE,
     marker |-> TRUE, etag |-> None, alg |-> "none", created |-> now,
     hold |-> FALSE, mode |-> "none", until |-> 0]

Marker(t, i) ==
    [bucket |-> t.bucket, key |-> t.key, vid |-> i, latest |-> TRUE,
     marker |-> TRUE, etag |-> None, alg |-> "none", created |-> now,
     hold |-> FALSE, mode |-> "none", until |-> 0]

DeleteMarker(r) ==
    /\ req[r].pc = "delMarker"
    /\ LET t == req[r]
           Rest == Demoted(Target(t.bucket, t.key, None)) IN
        \E i \in Ids \ used :
          /\ used' = used \cup {i}
          /\ IF Exists(t.bucket)
             THEN objects' = With(Rest, i, Marker(t, i)) /\ AfterInsert
             ELSE objects' = Rest /\ UNCHANGED now
    /\ Finish(r)
    /\ UNCHANGED <<buckets, blobs, tmp>>

-----------------------------------------------------------------------------
(* Object lock.                                                            *)

PutLegalHold(r, b, k, v, on) ==
    /\ "hold" \in Ops
    /\ Free(r)
    /\ Exists(b)
    /\ objects' = [i \in DOMAIN objects |->
                     IF i \in Target(b, k, v) THEN [objects[i] EXCEPT !.hold = on]
                                              ELSE objects[i]]
    /\ UNCHANGED <<buckets, blobs, tmp, used, req, now>>

\* put_object_retention reads the current mode in one closure...
MayModify(row, bypass) ==
    /\ row.mode # "COMPLIANCE"
    /\ row.mode = "GOVERNANCE" => bypass

RetentionCheck(r, b, k, v, mode, until, bypass) ==
    /\ "retention" \in Ops
    /\ Free(r)
    /\ Exists(b)
    /\ LET S == Target(b, k, v) IN S = {} \/ \E i \in S : MayModify(objects[i], bypass)
    /\ req' = [req EXCEPT ![r] =
                 [Idle EXCEPT !.pc = "retain", !.bucket = b, !.key = k, !.vid = v,
                              !.mode = mode, !.until = until]]
    /\ UNCHANGED <<buckets, objects, blobs, tmp, used, now>>

\* ... and writes the new one in the next.
RetentionUpdate(r) ==
    /\ req[r].pc = "retain"
    /\ LET t == req[r] IN
        objects' = [i \in DOMAIN objects |->
                      IF i \in Target(t.bucket, t.key, t.vid)
                      THEN [objects[i] EXCEPT !.mode = t.mode, !.until = t.until]
                      ELSE objects[i]]
    /\ Finish(r)
    /\ UNCHANGED <<buckets, blobs, tmp, used, now>>

-----------------------------------------------------------------------------
(* Time and faults.                                                        *)

Tick ==
    /\ now < MaxNow
    /\ now' = now + 1
    /\ UNCHANGED <<buckets, objects, blobs, tmp, used, req>>

\* The connection closes and the server drops the handler's future.
Abandon(r) ==
    /\ "abandon" \in Faults
    /\ ~Free(r)
    /\ Finish(r)
    /\ UNCHANGED <<buckets, objects, blobs, tmp, used, now>>

\* The process dies: tasks are lost, tables and files stay.
Crash ==
    /\ "crash" \in Faults
    /\ \E r \in Reqs : ~Free(r)
    /\ req' = [r \in Reqs |-> Idle]
    /\ UNCHANGED <<buckets, objects, blobs, tmp, used, now>>

\* The process dies inside a closing closure, after its first statement.
CrashInClosure(r) ==
    /\ "crash" \in Faults
    /\ LET t == req[r] IN
        \/ t.pc = "commit" /\ objects' = Superseded(t)
        \/ t.pc = "delMarker" /\ objects' = Demoted(Target(t.bucket, t.key, None))
    /\ req' = [q \in Reqs |-> Idle]
    /\ UNCHANGED <<buckets, blobs, tmp, used, now>>

-----------------------------------------------------------------------------
\* The next step of a task that is under way.
Continue(r) ==
    \/ DeleteBucketCommit(r)
    \/ PutOpenTmp(r) \/ PutStreamBody(r) \/ PutSeal(r) \/ PutDropPlain(r)
    \/ PutRename(r) \/ Commit(r)
    \/ GetBlob(r)
    \/ CopySource(r) \/ CopyDestination(r) \/ CopyBlob(r)
    \/ DeleteLockCheck(r) \/ DeleteSelect(r) \/ DeleteRows(r) \/ DeleteUnlink(r)
    \/ DeletePromote(r) \/ DeleteMarker(r)
    \/ RetentionUpdate(r)

\* A client's call.
Begin(r) ==
    \E b \in Buckets :
        \/ DeleteBucketCheck(r, b)
        \/ \E k \in Keys :
            \/ \E body \in Bodies, alg \in Algorithms : PutStart(r, b, k, body, alg)
            \/ \E sb \in Buckets, sk \in Keys : CopyHead(r, sb, sk, b, k)
            \/ \E v \in Vids \cup {None} :
                \/ GetRow(r, b, k, v)
                \/ DeleteStart(r, b, k, v)
                \/ \E mode \in Modes \ {"none"}, until \in Untils, bypass \in BOOLEAN :
                     RetentionCheck(r, b, k, v, mode, until, bypass)

\* A call that is a single closure.
AtomicCall(r) ==
    \E b \in Buckets :
        \/ CreateBucket(r, b)
        \/ \E status \in {"Enabled", "Suspended"} : SetBucketVersioning(r, b, status)
        \/ \E k \in Keys, v \in Vids \cup {None}, on \in BOOLEAN :
             PutLegalHold(r, b, k, v, on)

Next ==
    \/ \E r \in Reqs : Begin(r) \/ Continue(r) \/ AtomicCall(r)
    \/ \E r \in Reqs : PutBodyError(r) \/ PutWithoutKey(r) \/ Abandon(r) \/ CrashInClosure(r)
    \/ Crash
    \/ Tick

Spec == Init /\ [][Next]_vars

\* A task that is neither dropped nor killed is scheduled until it returns.
FairSpec == Spec /\ \A r \in Reqs : WF_vars(Continue(r))

-----------------------------------------------------------------------------
(* Safety.                                                                 *)

\* Every row a reader can find names a blob that is on disk and opens with
\* the key derived from that row.  Blobs are placed before their row and
\* unlinked after it, by tasks that may stop anywhere (put_object,
\* copy_object, delete_object_version).
RowsReadable ==
    \A i \in DOMAIN objects :
        LET row == objects[i] IN
        ~row.marker => /\ i \in DOMAIN blobs
                       /\ blobs[i].seal = SealingKey(row.alg, row.bucket, row.key, row.vid)

\* (bucket, key, version_id) names at most one row, the version "null"
\* included, although the table declares no such constraint and writers act
\* on a versioning status they read earlier.
VersionIdsUnique ==
    \A i, j \in DOMAIN objects :
        /\ objects[i].bucket = objects[j].bucket
        /\ objects[i].key = objects[j].key
        /\ objects[i].vid = objects[j].vid
        => i = j

\* At most one row of a key is marked latest, and no row of the key was
\* created after it: what get, head, list and copy take as the object.
LatestIsNewest ==
    \A i, j \in DOMAIN objects :
        /\ objects[i].bucket = objects[j].bucket
        /\ objects[i].key = objects[j].key
        /\ objects[i].latest
        /\ i # j
        => objects[j].created < objects[i].created

\* A row's etag is the MD5 of its blob, and get_object sends the body that
\* belongs to the etag in its header.
EtagMatchesBody ==
    /\ \A i \in DOMAIN objects :
          ~objects[i].marker => i \in DOMAIN blobs /\ blobs[i].body = objects[i].etag
    /\ \A r \in Reqs : req[r].pc = "got" => req[r].body = req[r].etag

\* A temporary file never has the id of a blob or of a row: whatever put_object
\* leaves behind when it is dropped, refused or killed is of an object that was
\* never stored, and of a stored object no plaintext lies beside the sealed blob.
TmpNeverStored ==
    \A f \in tmp : f[1] \notin DOMAIN blobs \cup DOMAIN objects

\* A key that has versions and no latest one: get, head and list miss it.
Headless(b, k) == RowsOf(b, k) # {} /\ Target(b, k, None) = {}

\* A key is left without a latest version only while the delete that took it
\* is on its way to the promotion, whoever writes, copies or deletes meanwhile:
\* a promotion that finds rows leaves one of them latest, and no other closure
\* demotes a row without inserting the next (for tasks that are not dropped).
HeadlessIsAttended ==
    \A b \in Buckets, k \in Keys : Headless(b, k) =>
        \E r \in Reqs : /\ req[r].pc \in {"delUnlink", "delPromote"}
                        /\ req[r].bucket = b /\ req[r].key = k /\ req[r].vid # None

\* A version under legal hold or running retention is not removed.
LockedVersionsSurvive ==
    [][\A i \in DOMAIN objects : Locked(objects[i]) => i \in DOMAIN objects']_vars

\* A delete removes no version that is locked, as far as calls do not overlap:
\* object_delete_locked is asked about one row, the deletes name rows anew.
DeletesRespectLocks ==
    [][\A i \in DOMAIN objects \ DOMAIN objects' :
          (\E r \in Reqs : req[r].pc = "delRows" /\ req'[r].pc = "delUnlink")
             => ~Locked(objects[i])]_vars

\* COMPLIANCE retention, once set, is never changed (put_object_retention:
\* "Cannot modify compliance retention").
ComplianceIsFinal ==
    [][\A i \in DOMAIN objects \cap DOMAIN objects' :
          objects[i].mode = "COMPLIANCE" =>
             /\ objects'[i].mode = "COMPLIANCE"
             /\ objects'[i].until = objects[i].until]_vars

\* A key that has an object still has one when a put or copy onto it is the
\* only thing that happened to it, whether or not the process died.
OverwriteIsAtomic ==
    [][\A r \in Reqs : req[r].pc = "commit" /\ req'[r] = Idle =>
          LET b == req[r].bucket
              k == req[r].key
          IN  RowsOf(b, k) # {} =>
                \E i \in DOMAIN objects' : objects'[i].bucket = b /\ objects'[i].key = k
      ]_vars

-----------------------------------------------------------------------------
(* Liveness.                                                               *)

\* A key whose latest version was hard deleted gets a new latest version, or
\* loses its last one: remaining versions do not stay invisible.
LatestRestored ==
    \A b \in Buckets, k \in Keys : Headless(b, k) ~> ~Headless(b, k)

-----------------------------------------------------------------------------
(* What the store promises: see VersionStore.                              *)

Published == [i \in {j \in DOMAIN objects : ~objects[j].marker} |-> blobs[i].body]

Unpublished ==
    (Ids \ used) \cup
    {req[r].id : r \in {q \in Reqs : req[q].pc \in
        {"putOpen", "putStream", "putPlace", "putSealed", "putRename", "copyBlob", "commit"}}}

Abstract == INSTANCE VersionStore WITH published <- Published, free <- Unpublished

\* The table and the blob directory together implement VersionStore.
ImplementsVersionStore == Abstract!Spec
=============================================================================
