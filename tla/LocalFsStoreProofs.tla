------------------------- MODULE LocalFsStoreProofs -------------------------
(***************************************************************************)
(* Theorems about LocalFsStore for every value of its constants: types,    *)
(* readable rows, version ids, the latest version, the refinement of       *)
(* VersionStore, etags, temporary files and object locks.                  *)
(***************************************************************************)
EXTENDS LocalFsStore, TLAPS

-----------------------------------------------------------------------------
(* Helpers on partial functions.                                           *)

\* Adding one entry keeps a partial function into S.
LEMMA WithType ==
    ASSUME NEW S, NEW f, f \in [DOMAIN f -> S], NEW i, NEW x \in S
    PROVE  /\ DOMAIN With(f, i, x) = DOMAIN f \cup {i}
           /\ With(f, i, x) \in [DOMAIN f \cup {i} -> S]
    BY DEF With

\* Removing entries keeps a partial function into S.
LEMMA WithoutType ==
    ASSUME NEW S, NEW f, f \in [DOMAIN f -> S], NEW D
    PROVE  /\ DOMAIN Without(f, D) = DOMAIN f \ D
           /\ Without(f, D) \in [DOMAIN f \ D -> S]
    BY DEF Without

\* Demotion, the only bulk update of rows, keeps the table's type and ids.
LEMMA DemotedType ==
    ASSUME NEW D, objects \in [DOMAIN objects -> Row]
    PROVE  /\ DOMAIN Demoted(D) = DOMAIN objects
           /\ Demoted(D) \in [DOMAIN objects -> Row]
    BY ZenonT(90) DEF Demoted, Row

\* What a commit leaves of the table is rows of the table's type.
LEMMA SupersededType ==
    ASSUME NEW t, objects \in [DOMAIN objects -> Row]
    PROVE  /\ DOMAIN Superseded(t) \subseteq DOMAIN objects
           /\ Superseded(t) \in [DOMAIN Superseded(t) -> Row]
<1> DEFINE S == RowsOf(t.bucket, t.key)
<1>1. DOMAIN Demoted(S) = DOMAIN objects /\ Demoted(S) \in [DOMAIN objects -> Row]
    BY DemotedType
<1>2. /\ DOMAIN Without(objects, S) = DOMAIN objects \ S
      /\ Without(objects, S) \in [DOMAIN objects \ S -> Row]
    BY WithoutType
<1>3. Superseded(t) = Demoted(S) \/ Superseded(t) = Without(objects, S)
    BY Zenon DEF Superseded
<1> HIDE DEF S
<1> QED
    BY <1>1, <1>2, <1>3

\* WithType for a function whose domain lies in D.
LEMMA WithPartial ==
    ASSUME NEW D, NEW S, NEW f, DOMAIN f \subseteq D, f \in [DOMAIN f -> S],
           NEW i \in D, NEW x \in S
    PROVE  DOMAIN With(f, i, x) \subseteq D /\ With(f, i, x) \in [DOMAIN With(f, i, x) -> S]
<1>1. /\ DOMAIN With(f, i, x) = DOMAIN f \cup {i}
      /\ With(f, i, x) \in [DOMAIN f \cup {i} -> S]
    BY WithType
<1> QED
    BY <1>1

\* WithoutType for a function whose domain lies in D.
LEMMA WithoutPartial ==
    ASSUME NEW D, NEW S, NEW f, DOMAIN f \subseteq D, f \in [DOMAIN f -> S], NEW R
    PROVE  DOMAIN Without(f, R) \subseteq D /\ Without(f, R) \in [DOMAIN Without(f, R) -> S]
<1>1. DOMAIN Without(f, R) = DOMAIN f \ R /\ Without(f, R) \in [DOMAIN f \ R -> S]
    BY WithoutType
<1> QED
    BY <1>1

\* A body sealed with a derived key is a blob.
LEMMA SealType ==
    ASSUME NEW a \in {"none", "AES256", "SSE-C"}, NEW b \in Buckets, NEW k \in Keys,
           NEW v \in Vids, NEW body \in Bodies
    PROVE  [body |-> body, seal |-> SealingKey(a, b, k, v)] \in Blob
    BY DEF Blob

\* A task at rest is a task.
LEMMA IdleType == Idle \in Task
    BY DEF Idle, Task, Pcs, Modes

-----------------------------------------------------------------------------
(* Facts about tasks that type correctness of the table rests on: a task   *)
(* that is about to write has all its arguments.                           *)

Writing(t) == t.pc \in {"putOpen", "putStream", "putPlace", "putSealed",
                        "putRename", "copyBlob", "commit"}

Armed(t) ==
    /\ t.pc \notin {"idle", "got"} => t.bucket \in Buckets
    /\ t.pc \notin {"idle", "got", "dropBucket"} => t.key \in Keys
    /\ Writing(t) => t.id \in Ids
    /\ t.pc \in {"putOpen", "putStream", "putPlace", "putSealed", "putRename"}
          => t.body \in Bodies
    /\ t.pc \in {"copySrc", "copyDst", "copyBlob"} =>
          t.sbucket \in Buckets /\ t.skey \in Keys
    /\ t.pc \in {"copyDst", "copyBlob"} => t.src \in Ids
    /\ t.pc = "getBlob" => t.id \in Ids

TypeInv == TypeOK /\ \A r \in Reqs : Armed(req[r])

\* The empty store is well typed and no task carries arguments.
LEMMA InitType == Init => TypeInv
    BY IdleType, SentinelsDiffer
    DEF Init, TypeInv, TypeOK, Armed, Writing, Idle, Statuses

\* A task that returns leaves the tasks well typed.
LEMMA FinishType ==
    ASSUME TypeInv, NEW r \in Reqs, Finish(r)
    PROVE  req' \in [Reqs -> Task] /\ \A q \in Reqs : Armed(req'[q])
    BY IdleType DEF Finish, TypeInv, TypeOK, Armed, Writing, Idle

\* A task that is given a well-formed record keeps the task table well formed.
LEMMA SetTask ==
    ASSUME TypeInv, NEW r \in Reqs, NEW t \in Task, Armed(t),
           req' = [req EXCEPT ![r] = t]
    PROVE  req' \in [Reqs -> Task] /\ \A q \in Reqs : Armed(req'[q])
    BY DEF TypeInv, TypeOK

\* A step that touches only tasks and ids keeps the type invariant.
LEMMA TypeInvParts ==
    ASSUME TypeInv,
           req' \in [Reqs -> Task], \A q \in Reqs : Armed(req'[q]),
           UNCHANGED <<buckets, objects, blobs, tmp, now>>,
           used' \subseteq Ids
    PROVE  TypeInv'
    BY DEF TypeInv, TypeOK, Armed, Writing

\* Every call starts with well-typed arguments.
LEMMA BeginType ==
    ASSUME TypeInv, NEW r \in Reqs, Begin(r)
    PROVE  TypeInv'
<1>0. used \subseteq Ids
    BY DEF TypeInv, TypeOK
<1>1. ASSUME NEW b \in Buckets, DeleteBucketCheck(r, b) PROVE TypeInv'
  <2> DEFINE t == [Idle EXCEPT !.pc = "dropBucket", !.bucket = b]
  <2>1. t \in Task
    BY DEF Idle, Task, Pcs, Modes
  <2>2. Armed(t)
    BY DEF Armed, Writing, Idle
  <2>3. req' = [req EXCEPT ![r] = t] /\ UNCHANGED <<buckets, objects, blobs, tmp, used, now>>
    BY <1>1 DEF DeleteBucketCheck
  <2> HIDE DEF t
  <2> QED
    BY <1>0, <2>1, <2>2, <2>3, SetTask, TypeInvParts
<1>2. ASSUME NEW b \in Buckets, NEW k \in Keys, NEW body \in Bodies,
             NEW alg \in Algorithms, PutStart(r, b, k, body, alg)
      PROVE  TypeInv'
  <2>1. PICK i \in Ids \ used :
          /\ used' = used \cup {i}
          /\ req' = [req EXCEPT ![r] =
                     [Idle EXCEPT !.pc = "putOpen", !.bucket = b, !.key = k,
                                  !.body = body, !.etag = body, !.alg = alg,
                                  !.versioned = (buckets[b] = "Enabled"), !.id = i]]
    BY <1>2 DEF PutStart
  <2> DEFINE t == [Idle EXCEPT !.pc = "putOpen", !.bucket = b, !.key = k,
                               !.body = body, !.etag = body, !.alg = alg,
                               !.versioned = (buckets[b] = "Enabled"), !.id = i]
  <2>2. t \in Task
    BY BoundsAreSane DEF Idle, Task, Pcs, Modes
  <2>3. Armed(t)
    BY DEF Armed, Writing, Idle
  <2>4. UNCHANGED <<buckets, objects, blobs, tmp, now>>
    BY <1>2 DEF PutStart
  <2>5. req' = [req EXCEPT ![r] = t]
    BY <2>1
  <2> HIDE DEF t
  <2> QED
    BY <1>0, <2>1, <2>2, <2>3, <2>4, <2>5, SetTask, TypeInvParts
<1>3. ASSUME NEW b \in Buckets, NEW k \in Keys, NEW sb \in Buckets, NEW sk \in Keys,
             CopyHead(r, sb, sk, b, k)
      PROVE  TypeInv'
  <2>1. PICK i \in DOMAIN objects :
          req' = [req EXCEPT ![r] =
                     [Idle EXCEPT !.pc = "copySrc", !.bucket = b, !.key = k,
                                  !.sbucket = sb, !.skey = sk,
                                  !.vid = objects[i].vid, !.etag = objects[i].etag]]
    BY <1>3 DEF CopyHead, Target, RowsOf
  <2> DEFINE t == [Idle EXCEPT !.pc = "copySrc", !.bucket = b, !.key = k,
                               !.sbucket = sb, !.skey = sk,
                               !.vid = objects[i].vid, !.etag = objects[i].etag]
  <2>2. objects[i].vid \in Vids /\ objects[i].etag \in Bodies \cup {None}
    BY DEF TypeInv, TypeOK, Row
  <2>3. t \in Task
    BY <2>2 DEF Idle, Task, Pcs, Modes
  <2>4. Armed(t)
    BY DEF Armed, Writing, Idle
  <2>5. UNCHANGED <<buckets, objects, blobs, tmp, used, now>>
    BY <1>3 DEF CopyHead
  <2>6. req' = [req EXCEPT ![r] = t]
    BY <2>1
  <2> HIDE DEF t
  <2> QED
    BY <1>0, <2>3, <2>4, <2>5, <2>6, SetTask, TypeInvParts
<1>4. ASSUME NEW b \in Buckets, NEW k \in Keys, NEW v \in Vids \cup {None},
             GetRow(r, b, k, v)
      PROVE  TypeInv'
  <2>1. PICK i \in DOMAIN objects :
          req' = [req EXCEPT ![r] =
                     [Idle EXCEPT !.pc = "getBlob", !.bucket = b, !.key = k,
                                  !.vid = objects[i].vid, !.id = i,
                                  !.etag = objects[i].etag, !.alg = objects[i].alg]]
    BY <1>4 DEF GetRow, Target, RowsOf
  <2> DEFINE t == [Idle EXCEPT !.pc = "getBlob", !.bucket = b, !.key = k,
                               !.vid = objects[i].vid, !.id = i,
                               !.etag = objects[i].etag, !.alg = objects[i].alg]
  <2>2. /\ objects[i].vid \in Vids /\ objects[i].etag \in Bodies \cup {None}
        /\ objects[i].alg \in {"none", "AES256", "SSE-C"} /\ i \in Ids
    BY DEF TypeInv, TypeOK, Row
  <2>3. t \in Task
    BY <2>2 DEF Idle, Task, Pcs, Modes
  <2>4. Armed(t)
    BY <2>2 DEF Armed, Writing, Idle
  <2>5. UNCHANGED <<buckets, objects, blobs, tmp, used, now>>
    BY <1>4 DEF GetRow
  <2>6. req' = [req EXCEPT ![r] = t]
    BY <2>1
  <2> HIDE DEF t
  <2> QED
    BY <1>0, <2>3, <2>4, <2>5, <2>6, SetTask, TypeInvParts
<1>5. ASSUME NEW b \in Buckets, NEW k \in Keys, NEW v \in Vids \cup {None},
             DeleteStart(r, b, k, v)
      PROVE  TypeInv'
  <2> DEFINE w == buckets[b] \in {"Enabled", "Suspended"}
             t == [Idle EXCEPT !.pc = "delLock", !.bucket = b, !.key = k, !.vid = v,
                               !.versioned = w]
  <2>0. w \in BOOLEAN
    OBVIOUS
  <2>1. t \in Task
    <3> HIDE DEF w
    <3> QED BY <2>0 DEF Idle, Task, Pcs, Modes
  <2>2. Armed(t)
    BY DEF Armed, Writing, Idle
  <2>3. /\ req' = [req EXCEPT ![r] = t]
        /\ UNCHANGED <<buckets, objects, blobs, tmp, used, now>>
    BY <1>5 DEF DeleteStart
  <2> HIDE DEF t
  <2> QED
    BY <1>0, <2>1, <2>2, <2>3, SetTask, TypeInvParts
<1>6. ASSUME NEW b \in Buckets, NEW k \in Keys, NEW v \in Vids \cup {None},
             NEW mode \in Modes \ {"none"}, NEW until \in Untils, NEW bypass \in BOOLEAN,
             RetentionCheck(r, b, k, v, mode, until, bypass)
      PROVE  TypeInv'
  <2> DEFINE t == [Idle EXCEPT !.pc = "retain", !.bucket = b, !.key = k, !.vid = v,
                               !.mode = mode, !.until = until]
  <2>1. t \in Task
    BY BoundsAreSane DEF Idle, Task, Pcs, Modes
  <2>2. Armed(t)
    BY DEF Armed, Writing, Idle
  <2>3. /\ req' = [req EXCEPT ![r] = t]
        /\ UNCHANGED <<buckets, objects, blobs, tmp, used, now>>
    BY <1>6 DEF RetentionCheck
  <2> HIDE DEF t
  <2> QED
    BY <1>0, <2>1, <2>2, <2>3, SetTask, TypeInvParts
<1> QED
    BY <1>1, <1>2, <1>3, <1>4, <1>5, <1>6 DEF Begin

\* A step that only moves a task's program counter keeps its type.
LEMMA GotoType ==
    ASSUME TypeInv, NEW r \in Reqs, NEW pc \in Pcs, Goto(r, pc),
           Armed([req[r] EXCEPT !.pc = pc])
    PROVE  req' \in [Reqs -> Task] /\ \A q \in Reqs : Armed(req'[q])
<1> DEFINE t == [req[r] EXCEPT !.pc = pc]
<1>1. t \in Task
    BY DEF TypeInv, TypeOK, Task
<1>2. req' = [req EXCEPT ![r] = t]
    BY DEF Goto
<1>3. Armed(t)
    OBVIOUS
<1> HIDE DEF t
<1> QED
    BY <1>1, <1>2, <1>3, SetTask

\* What remains of TypeInv once the tasks are accounted for.
LEMMA TypeInvIntro ==
    ASSUME req' \in [Reqs -> Task], \A q \in Reqs : Armed(req'[q]),
           buckets' \in [Buckets -> Statuses],
           DOMAIN objects' \subseteq Ids, objects' \in [DOMAIN objects' -> Row],
           DOMAIN blobs' \subseteq Ids, blobs' \in [DOMAIN blobs' -> Blob],
           tmp' \subseteq Ids \X {"upload", "sealed"},
           used' \subseteq Ids, now' \in Nat
    PROVE  TypeInv'
    BY DEF TypeInv, TypeOK, Armed, Writing

\* The file steps of put_object keep the types.
LEMMA PutType ==
    ASSUME TypeInv, NEW r \in Reqs,
           \/ PutOpenTmp(r) \/ PutStreamBody(r) \/ PutSeal(r) \/ PutDropPlain(r)
           \/ PutRename(r)
    PROVE  TypeInv'
<1> DEFINE t == req[r]
<1>0. t \in Task /\ Armed(t)
    BY DEF TypeInv, TypeOK
<1>1. CASE PutOpenTmp(r)
  <2>1. Goto(r, "putStream") /\ Armed([t EXCEPT !.pc = "putStream"])
    BY <1>0, <1>1 DEF PutOpenTmp, Armed, Writing, Task
  <2>2. req' \in [Reqs -> Task] /\ \A q \in Reqs : Armed(req'[q])
    BY <2>1, GotoType DEF Pcs
  <2>3. tmp' \subseteq Ids \X {"upload", "sealed"}
    BY <1>0, <1>1 DEF PutOpenTmp, Armed, Writing, TypeInv, TypeOK
  <2> QED
    BY <1>1, <2>2, <2>3, TypeInvIntro DEF PutOpenTmp, TypeInv, TypeOK
<1>2. CASE PutStreamBody(r)
  <2>1. Goto(r, "putPlace") /\ Armed([t EXCEPT !.pc = "putPlace"])
    BY <1>0, <1>2 DEF PutStreamBody, Armed, Writing, Task
  <2>2. req' \in [Reqs -> Task] /\ \A q \in Reqs : Armed(req'[q])
    BY <2>1, GotoType DEF Pcs
  <2> QED
    BY <1>2, <2>2, TypeInvIntro DEF PutStreamBody, TypeInv, TypeOK
<1>3. CASE PutSeal(r)
  <2>1. Goto(r, "putSealed") /\ Armed([t EXCEPT !.pc = "putSealed"])
    BY <1>0, <1>3 DEF PutSeal, Armed, Writing, Task
  <2>2. req' \in [Reqs -> Task] /\ \A q \in Reqs : Armed(req'[q])
    BY <2>1, GotoType DEF Pcs
  <2>3. tmp' \subseteq Ids \X {"upload", "sealed"}
    BY <1>0, <1>3 DEF PutSeal, Armed, Writing, TypeInv, TypeOK
  <2> QED
    BY <1>3, <2>2, <2>3, TypeInvIntro DEF PutSeal, TypeInv, TypeOK
<1>4. CASE PutDropPlain(r)
  <2>1. Goto(r, "putRename") /\ Armed([t EXCEPT !.pc = "putRename"])
    BY <1>0, <1>4 DEF PutDropPlain, Armed, Writing, Task
  <2>2. req' \in [Reqs -> Task] /\ \A q \in Reqs : Armed(req'[q])
    BY <2>1, GotoType DEF Pcs
  <2>3. tmp' \subseteq Ids \X {"upload", "sealed"}
    BY <1>4 DEF PutDropPlain, TypeInv, TypeOK
  <2> QED
    BY <1>4, <2>2, <2>3, TypeInvIntro DEF PutDropPlain, TypeInv, TypeOK
<1>5. CASE PutRename(r)
  <2>0. /\ t.pc \in {"putPlace", "putRename"}
        /\ t.id \in Ids /\ t.body \in Bodies /\ t.bucket \in Buckets /\ t.key \in Keys
        /\ t.alg \in {"none", "AES256", "SSE-C"} /\ NewVid(t) \in Vids
    BY <1>0, <1>5 DEF PutRename, Armed, Writing, Task, NewVid, Vids
  <2>1. Goto(r, "commit") /\ Armed([t EXCEPT !.pc = "commit"])
    BY <1>0, <1>5, <2>0 DEF PutRename, Armed, Writing, Task
  <2>2. req' \in [Reqs -> Task] /\ \A q \in Reqs : Armed(req'[q])
    BY <2>1, GotoType DEF Pcs
  <2> DEFINE x == [body |-> t.body, seal |-> SealingKey(t.alg, t.bucket, t.key, NewVid(t))]
  <2>3. x \in Blob
    BY <2>0, SealType
  <2>4. blobs' = With(blobs, t.id, x)
    BY <1>5 DEF PutRename
  <2>5. blobs \in [DOMAIN blobs -> Blob] /\ DOMAIN blobs \subseteq Ids
    BY DEF TypeInv, TypeOK
  <2>6. DOMAIN blobs' \subseteq Ids /\ blobs' \in [DOMAIN blobs' -> Blob]
    <3>1. t.id \in Ids
      BY <2>0
    <3> HIDE DEF x, t
    <3>2. /\ DOMAIN With(blobs, t.id, x) \subseteq Ids
          /\ With(blobs, t.id, x) \in [DOMAIN With(blobs, t.id, x) -> Blob]
      BY <2>3, <2>5, <3>1, WithPartial
    <3> QED BY <2>4, <3>2, Zenon
  <2>7. tmp' \subseteq Ids \X {"upload", "sealed"}
    BY <1>5 DEF PutRename, TypeInv, TypeOK
  <2> QED
    BY <1>5, <2>2, <2>6, <2>7, TypeInvIntro DEF PutRename, TypeInv, TypeOK
<1> QED
    BY <1>1, <1>2, <1>3, <1>4, <1>5

\* The row a commit inserts is a row.
LEMMA RowTypes ==
    ASSUME NEW t \in Task, t.bucket \in Buckets, t.key \in Keys, t.id \in Ids,
           now \in Nat
    PROVE  NewRow(t) \in Row
    BY DEF NewRow, Row, Task, NewVid, Vids, Modes

\* A delete marker is a row.
LEMMA MarkerType ==
    ASSUME NEW t, t.bucket \in Buckets, t.key \in Keys, NEW i \in Ids, now \in Nat
    PROVE  Marker(t, i) \in Row
    BY DEF Marker, Row, Vids, Modes

\* The closing closure of put_object and copy_object keeps the types.
LEMMA CommitType ==
    ASSUME TypeInv, NEW r \in Reqs, Commit(r)
    PROVE  TypeInv'
<1> DEFINE t == req[r]
<1>1. /\ t \in Task /\ t.bucket \in Buckets /\ t.key \in Keys /\ t.id \in Ids
      /\ now \in Nat /\ objects \in [DOMAIN objects -> Row] /\ DOMAIN objects \subseteq Ids
    BY DEF TypeInv, TypeOK, Commit, Armed, Writing
<1>2. req' \in [Reqs -> Task] /\ \A q \in Reqs : Armed(req'[q])
    BY FinishType DEF Commit
<1>3. DOMAIN Superseded(t) \subseteq Ids /\ Superseded(t) \in [DOMAIN Superseded(t) -> Row]
    BY <1>1, SupersededType
<1>4. NewRow(t) \in Row
    BY <1>1, RowTypes
<1>5. /\ DOMAIN With(Superseded(t), t.id, NewRow(t)) \subseteq Ids
      /\ With(Superseded(t), t.id, NewRow(t)) \in
           [DOMAIN With(Superseded(t), t.id, NewRow(t)) -> Row]
    <2> HIDE DEF t
    <2> QED BY <1>1, <1>3, <1>4, WithPartial
<1>6. \/ objects' = With(Superseded(t), t.id, NewRow(t)) /\ AfterInsert
      \/ objects' = Superseded(t) /\ UNCHANGED now
    BY Zenon DEF Commit
<1>7. now' \in Nat
    BY <1>1, <1>6 DEF AfterInsert
<1>8. DOMAIN objects' \subseteq Ids /\ objects' \in [DOMAIN objects' -> Row]
    <2> HIDE DEF t
    <2> QED BY <1>3, <1>5, <1>6, Zenon
<1> QED
    BY <1>2, <1>7, <1>8, TypeInvIntro DEF Commit, TypeInv, TypeOK

\* Bucket creation, versioning and deletion keep the types.
LEMMA BucketType ==
    ASSUME TypeInv, NEW r \in Reqs, NEW b \in Buckets,
           \/ CreateBucket(r, b) \/ DeleteBucketCommit(r)
           \/ \E status \in {"Enabled", "Suspended"} : SetBucketVersioning(r, b, status)
    PROVE  TypeInv'
<1>1. CASE CreateBucket(r, b)
    BY <1>1 DEF CreateBucket, TypeInv, TypeOK, Statuses, Armed, Writing
<1>2. ASSUME NEW status \in {"Enabled", "Suspended"}, SetBucketVersioning(r, b, status)
      PROVE  TypeInv'
    BY <1>2 DEF SetBucketVersioning, TypeInv, TypeOK, Statuses, Armed, Writing
<1>3. CASE DeleteBucketCommit(r)
  <2> DEFINE S == {i \in DOMAIN objects : objects[i].bucket = req[r].bucket}
  <2>1. req' \in [Reqs -> Task] /\ \A q \in Reqs : Armed(req'[q])
    BY <1>3, FinishType DEF DeleteBucketCommit
  <2>2. objects' = Without(objects, S)
    BY <1>3 DEF DeleteBucketCommit
  <2>3. objects \in [DOMAIN objects -> Row] /\ DOMAIN objects \subseteq Ids
    BY DEF TypeInv, TypeOK
  <2>4. DOMAIN objects' \subseteq Ids /\ objects' \in [DOMAIN objects' -> Row]
    <3> HIDE DEF S
    <3>1. /\ DOMAIN Without(objects, S) \subseteq Ids
          /\ Without(objects, S) \in [DOMAIN Without(objects, S) -> Row]
      BY <2>3, WithoutPartial
    <3> QED BY <2>2, <3>1, Zenon
  <2>5. buckets' \in [Buckets -> Statuses]
    BY <1>3 DEF DeleteBucketCommit, TypeInv, TypeOK, Statuses
  <2> QED
    BY <1>3, <2>1, <2>4, <2>5, TypeInvIntro DEF DeleteBucketCommit, TypeInv, TypeOK
<1> QED
    BY <1>1, <1>2, <1>3

\* Reading a blob keeps the types.
LEMMA GetBlobType ==
    ASSUME TypeInv, NEW r \in Reqs, GetBlob(r)
    PROVE  TypeInv'
<1> DEFINE t == req[r]
<1>1. t \in Task /\ UNCHANGED <<buckets, objects, blobs, tmp, used, now>>
    BY DEF TypeInv, TypeOK, GetBlob
<1>2. CASE Finish(r)
    BY <1>1, <1>2, FinishType, TypeInvIntro DEF TypeInv, TypeOK
<1>3. CASE /\ t.id \in DOMAIN blobs
           /\ req' = [req EXCEPT ![r].pc = "got", ![r].body = blobs[t.id].body]
  <2> DEFINE u == [t EXCEPT !.pc = "got", !.body = blobs[t.id].body]
  <2>1. blobs[t.id].body \in Bodies
    BY <1>3 DEF TypeInv, TypeOK, Blob
  <2>2. u \in Task
    BY <1>1, <2>1, ZenonT(90) DEF Task, Pcs
  <2>3. Armed(u)
    BY <1>1 DEF Armed, Writing, Task
  <2>4. req' = [req EXCEPT ![r] = u]
    BY <1>3
  <2> HIDE DEF u
  <2>5. req' \in [Reqs -> Task] /\ \A q \in Reqs : Armed(req'[q])
    BY <2>2, <2>3, <2>4, SetTask
  <2> QED
    BY <1>1, <2>5, TypeInvIntro DEF TypeInv, TypeOK
<1> QED
    BY <1>2, <1>3 DEF GetBlob

\* The steps of copy_object keep the types.
LEMMA CopyType ==
    ASSUME TypeInv, NEW r \in Reqs, CopySource(r) \/ CopyDestination(r) \/ CopyBlob(r)
    PROVE  TypeInv'
<1> DEFINE t == req[r]
<1>0. t \in Task /\ Armed(t)
    BY DEF TypeInv, TypeOK
<1>1. CASE CopySource(r)
  <2>1. UNCHANGED <<buckets, objects, blobs, tmp, used, now>>
    BY <1>1 DEF CopySource
  <2>2. CASE Finish(r)
    BY <2>1, <2>2, FinishType, TypeInvIntro DEF TypeInv, TypeOK
  <2>3. ASSUME NEW i \in DOMAIN objects,
               req' = [req EXCEPT ![r].pc = "copyDst", ![r].src = i, ![r].alg = objects[i].alg]
        PROVE  TypeInv'
    <3> DEFINE u == [t EXCEPT !.pc = "copyDst", !.src = i, !.alg = objects[i].alg]
    <3>1. objects[i].alg \in {"none", "AES256", "SSE-C"} /\ i \in Ids
      BY DEF TypeInv, TypeOK, Row
    <3>2. u \in Task
      BY <1>0, <3>1, ZenonT(90) DEF Task, Pcs
    <3>3. Armed(u)
      BY <1>0, <1>1, <3>1 DEF CopySource, Armed, Writing, Task
    <3>4. req' = [req EXCEPT ![r] = u]
      BY <2>3
    <3> HIDE DEF u
    <3>5. req' \in [Reqs -> Task] /\ \A q \in Reqs : Armed(req'[q])
      BY <3>2, <3>3, <3>4, SetTask
    <3> QED
      BY <2>1, <3>5, TypeInvIntro DEF TypeInv, TypeOK
  <2> QED
    BY <1>1, <2>2, <2>3 DEF CopySource, Target, RowsOf
<1>2. CASE CopyDestination(r)
  <2>1. UNCHANGED <<buckets, objects, blobs, tmp, now>>
    BY <1>2 DEF CopyDestination
  <2>2. CASE Finish(r) /\ UNCHANGED used
    BY <2>1, <2>2, FinishType, TypeInvIntro DEF TypeInv, TypeOK
  <2>3. ASSUME NEW i \in Ids \ used, used' = used \cup {i},
               req' = [req EXCEPT ![r].pc = "copyBlob", ![r].id = i,
                                  ![r].versioned = (buckets[req[r].bucket] = "Enabled")]
        PROVE  TypeInv'
    <3> DEFINE w == buckets[t.bucket] = "Enabled"
               u == [t EXCEPT !.pc = "copyBlob", !.id = i, !.versioned = w]
    <3>1. w \in BOOLEAN
      OBVIOUS
    <3>2. u \in Task
      <4> HIDE DEF w, t
      <4> QED BY <1>0, <3>1, ZenonT(90) DEF Task, Pcs
    <3>3. Armed(u)
      BY <1>0, <1>2 DEF CopyDestination, Armed, Writing, Task
    <3>4. req' = [req EXCEPT ![r] = u]
      BY <2>3
    <3> HIDE DEF u
    <3>5. req' \in [Reqs -> Task] /\ \A q \in Reqs : Armed(req'[q])
      BY <3>2, <3>3, <3>4, SetTask
    <3> QED
      BY <2>1, <2>3, <3>5, TypeInvIntro DEF TypeInv, TypeOK
  <2> QED
    BY <1>2, <2>2, <2>3 DEF CopyDestination
<1>3. CASE CopyBlob(r)
  <2>1. UNCHANGED <<buckets, objects, tmp, used, now>>
    BY <1>3 DEF CopyBlob
  <2>2. CASE Finish(r) /\ UNCHANGED blobs
    BY <2>1, <2>2, FinishType, TypeInvIntro DEF TypeInv, TypeOK
  <2> DEFINE x == [body |-> blobs[t.src].body,
                   seal |-> IF t.alg = "AES256"
                            THEN SealingKey(t.alg, t.bucket, t.key, NewVid(t))
                            ELSE blobs[t.src].seal]
  <2>3. CASE t.src \in DOMAIN blobs /\ blobs' = With(blobs, t.id, x) /\ Goto(r, "commit")
    <3>0. /\ t.pc = "copyBlob" /\ t.id \in Ids /\ t.bucket \in Buckets /\ t.key \in Keys
          /\ t.alg \in {"none", "AES256", "SSE-C"} /\ NewVid(t) \in Vids
      BY <1>0, <1>3 DEF CopyBlob, Armed, Writing, Task, NewVid, Vids
    <3>1. Armed([t EXCEPT !.pc = "commit"])
      BY <1>0, <3>0 DEF Armed, Writing, Task
    <3>2. req' \in [Reqs -> Task] /\ \A q \in Reqs : Armed(req'[q])
      BY <2>3, <3>1, GotoType DEF Pcs
    <3>3. blobs \in [DOMAIN blobs -> Blob] /\ DOMAIN blobs \subseteq Ids
      BY DEF TypeInv, TypeOK
    <3>4. x \in Blob
      <4>1. blobs[t.src] \in Blob
        BY <2>3, <3>3
      <4>2. CASE t.alg = "AES256"
        <5>1. blobs[t.src].body \in Bodies
          BY <4>1 DEF Blob
        <5>2. x = [body |-> blobs[t.src].body,
                   seal |-> SealingKey(t.alg, t.bucket, t.key, NewVid(t))]
          BY <4>2
        <5> QED BY <3>0, <5>1, <5>2, SealType
      <4>3. CASE t.alg # "AES256"
        BY <4>1, <4>3 DEF Blob
      <4> QED BY <4>2, <4>3
    <3>5. t.id \in Ids
      BY <3>0
    <3> HIDE DEF x, t
    <3>6. /\ DOMAIN With(blobs, t.id, x) \subseteq Ids
          /\ With(blobs, t.id, x) \in [DOMAIN With(blobs, t.id, x) -> Blob]
      BY <3>3, <3>4, <3>5, WithPartial
    <3>7. DOMAIN blobs' \subseteq Ids /\ blobs' \in [DOMAIN blobs' -> Blob]
      BY <2>3, <3>6, Zenon
    <3> QED
      BY <2>1, <3>2, <3>7, TypeInvIntro DEF TypeInv, TypeOK
  <2> QED
    BY <1>3, <2>2, <2>3 DEF CopyBlob
<1> QED
    BY <1>1, <1>2, <1>3

\* Legal hold and retention keep the types.
LEMMA LockType ==
    ASSUME TypeInv, NEW r \in Reqs
    PROVE  /\ RetentionUpdate(r) => TypeInv'
           /\ \A b \in Buckets, k \in Keys, v \in Vids \cup {None}, on \in BOOLEAN :
                PutLegalHold(r, b, k, v, on) => TypeInv'
<1> DEFINE t == req[r]
<1>0. /\ objects \in [DOMAIN objects -> Row] /\ DOMAIN objects \subseteq Ids
      /\ t.mode \in Modes /\ t.until \in Nat
    BY DEF TypeInv, TypeOK, Task
<1>1. ASSUME RetentionUpdate(r) PROVE TypeInv'
  <2> DEFINE S == Target(t.bucket, t.key, t.vid)
  <2>1. objects' = [i \in DOMAIN objects |->
                      IF i \in S
                      THEN [objects[i] EXCEPT !.mode = t.mode, !.until = t.until]
                      ELSE objects[i]]
    BY <1>1 DEF RetentionUpdate
  <2>2. req' \in [Reqs -> Task] /\ \A q \in Reqs : Armed(req'[q])
    BY <1>1, FinishType DEF RetentionUpdate
  <2>3. DOMAIN objects' = DOMAIN objects /\ objects' \in [DOMAIN objects' -> Row]
    <3>1. ASSUME NEW i \in DOMAIN objects
          PROVE  [objects[i] EXCEPT !.mode = t.mode, !.until = t.until] \in Row
      BY <1>0 DEF Row
    <3> HIDE DEF S, t
    <3> QED BY <1>0, <2>1, <3>1
  <2> QED
    BY <1>0, <1>1, <2>2, <2>3, TypeInvIntro DEF RetentionUpdate, TypeInv, TypeOK
<1>2. ASSUME NEW b \in Buckets, NEW k \in Keys, NEW v \in Vids \cup {None},
             NEW on \in BOOLEAN, PutLegalHold(r, b, k, v, on)
      PROVE  TypeInv'
  <2> DEFINE S == Target(b, k, v)
  <2>1. objects' = [i \in DOMAIN objects |->
                      IF i \in S THEN [objects[i] EXCEPT !.hold = on] ELSE objects[i]]
    BY <1>2 DEF PutLegalHold
  <2> HIDE DEF S
  <2>2. DOMAIN objects' = DOMAIN objects /\ objects' \in [DOMAIN objects' -> Row]
    BY <1>0, <2>1 DEF Row
  <2>3. req' \in [Reqs -> Task] /\ \A q \in Reqs : Armed(req'[q])
    BY <1>2 DEF PutLegalHold, TypeInv, TypeOK
  <2> QED
    BY <1>0, <1>2, <2>2, <2>3, TypeInvIntro DEF PutLegalHold, TypeInv, TypeOK
<1> QED
    BY <1>1, <1>2

\* The checking and selecting steps of a delete keep the types.
LEMMA DeleteCheckType ==
    ASSUME TypeInv, NEW r \in Reqs, DeleteLockCheck(r) \/ DeleteSelect(r) \/ DeleteUnlink(r)
    PROVE  TypeInv'
<1> DEFINE t == req[r]
<1>0. t \in Task /\ Armed(t)
    BY DEF TypeInv, TypeOK
<1>1. CASE DeleteLockCheck(r)
  <2>1. UNCHANGED <<buckets, objects, blobs, tmp, used, now>> /\ t.pc = "delLock"
    BY <1>1 DEF DeleteLockCheck
  <2>2. CASE Finish(r)
    BY <2>1, <2>2, FinishType, TypeInvIntro DEF TypeInv, TypeOK
  <2>3. CASE Goto(r, AfterLockCheck(t))
    <3>1. AfterLockCheck(t) \in {"delMarker", "delSelect"}
      BY DEF AfterLockCheck
    <3>2. ASSUME NEW pc \in {"delMarker", "delSelect"} PROVE Armed([t EXCEPT !.pc = pc])
      BY <1>0, <2>1 DEF Armed, Writing, Task
    <3>3. req' \in [Reqs -> Task] /\ \A q \in Reqs : Armed(req'[q])
      BY <2>3, <3>1, <3>2, GotoType DEF Pcs
    <3> QED BY <2>1, <3>3, TypeInvIntro DEF TypeInv, TypeOK
  <2> QED
    BY <1>1, <2>2, <2>3 DEF DeleteLockCheck
<1>2. CASE DeleteSelect(r)
  <2> DEFINE u == [t EXCEPT !.pc = "delRows", !.ids = Victims(t)]
  <2>1. Victims(t) \subseteq Ids
    BY DEF Victims, Target, RowsOf, TypeInv, TypeOK
  <2>2. u \in Task
    BY <1>0, <2>1, ZenonT(90) DEF Task, Pcs
  <2>3. Armed(u)
    BY <1>0, <1>2 DEF DeleteSelect, Armed, Writing, Task
  <2>4. req' = [req EXCEPT ![r] = u] /\ UNCHANGED <<buckets, objects, blobs, tmp, used, now>>
    BY <1>2 DEF DeleteSelect
  <2> HIDE DEF u
  <2>5. req' \in [Reqs -> Task] /\ \A q \in Reqs : Armed(req'[q])
    BY <2>2, <2>3, <2>4, SetTask
  <2> QED
    BY <2>4, <2>5, TypeInvIntro DEF TypeInv, TypeOK
<1>3. CASE DeleteUnlink(r)
  <2>1. UNCHANGED <<buckets, objects, tmp, used, now>> /\ t.pc = "delUnlink"
    BY <1>3 DEF DeleteUnlink
  <2>2. CASE Finish(r) /\ UNCHANGED blobs
    BY <2>1, <2>2, FinishType, TypeInvIntro DEF TypeInv, TypeOK
  <2>3. CASE Goto(r, "delPromote") /\ UNCHANGED blobs
    <3>1. Armed([t EXCEPT !.pc = "delPromote"])
      BY <1>0, <2>1 DEF Armed, Writing, Task
    <3>2. req' \in [Reqs -> Task] /\ \A q \in Reqs : Armed(req'[q])
      BY <2>3, <3>1, GotoType DEF Pcs
    <3> QED BY <2>1, <2>3, <3>2, TypeInvIntro DEF TypeInv, TypeOK
  <2>4. ASSUME NEW i \in t.ids, blobs' = Without(blobs, {i}),
               req' = [req EXCEPT ![r].ids = @ \ {i}]
        PROVE  TypeInv'
    <3> DEFINE u == [t EXCEPT !.ids = @ \ {i}]
    <3>1. u \in Task
      BY <1>0 DEF Task
    <3>2. Armed(u)
      BY <1>0, <2>1 DEF Armed, Writing, Task
    <3>3. req' = [req EXCEPT ![r] = u]
      BY <2>4
    <3> HIDE DEF u
    <3>4. req' \in [Reqs -> Task] /\ \A q \in Reqs : Armed(req'[q])
      BY <3>1, <3>2, <3>3, SetTask
    <3>5. blobs \in [DOMAIN blobs -> Blob] /\ DOMAIN blobs \subseteq Ids
      BY DEF TypeInv, TypeOK
    <3>6. DOMAIN blobs' \subseteq Ids /\ blobs' \in [DOMAIN blobs' -> Blob]
      BY <2>4, <3>5, WithoutPartial
    <3> QED
      BY <2>1, <3>4, <3>6, TypeInvIntro DEF TypeInv, TypeOK
  <2> QED
    BY <1>3, <2>2, <2>3, <2>4 DEF DeleteUnlink
<1> QED
    BY <1>1, <1>2, <1>3

\* The steps of a delete that change tables or files keep the types.
LEMMA DeleteWriteType ==
    ASSUME TypeInv, NEW r \in Reqs, DeleteRows(r) \/ DeletePromote(r) \/ DeleteMarker(r)
    PROVE  TypeInv'
<1> DEFINE t == req[r]
<1>0. /\ t \in Task /\ Armed(t) /\ now \in Nat /\ used \subseteq Ids
      /\ objects \in [DOMAIN objects -> Row] /\ DOMAIN objects \subseteq Ids
    BY DEF TypeInv, TypeOK
<1>1. CASE DeleteRows(r)
  <2>1. Goto(r, "delUnlink") /\ Armed([t EXCEPT !.pc = "delUnlink"])
    BY <1>0, <1>1 DEF DeleteRows, Armed, Writing, Task
  <2>2. req' \in [Reqs -> Task] /\ \A q \in Reqs : Armed(req'[q])
    BY <2>1, GotoType DEF Pcs
  <2>3. DOMAIN objects' \subseteq Ids /\ objects' \in [DOMAIN objects' -> Row]
    <3>1. objects' = Without(objects, Victims(t))
      BY <1>1 DEF DeleteRows
    <3> HIDE DEF t
    <3> QED BY <1>0, <3>1, WithoutPartial
  <2> QED
    BY <1>1, <2>2, <2>3, TypeInvIntro DEF DeleteRows, TypeInv, TypeOK
<1>2. CASE DeletePromote(r)
  <2>1. req' \in [Reqs -> Task] /\ \A q \in Reqs : Armed(req'[q])
    BY <1>2, FinishType DEF DeletePromote
  <2>2. ASSUME NEW i \in DOMAIN objects,
               objects' = With(objects, i, [objects[i] EXCEPT !.latest = TRUE])
        PROVE  DOMAIN objects' \subseteq Ids /\ objects' \in [DOMAIN objects' -> Row]
    <3> DEFINE x == [objects[i] EXCEPT !.latest = TRUE]
    <3>1. x \in Row /\ i \in Ids
      BY <1>0 DEF Row
    <3> HIDE DEF x
    <3>2. objects' = With(objects, i, x)
      BY <2>2 DEF x
    <3> QED BY <1>0, <3>1, <3>2, WithPartial
  <2>3. DOMAIN objects' \subseteq Ids /\ objects' \in [DOMAIN objects' -> Row]
    BY <1>0, <1>2, <2>2 DEF DeletePromote, Newest, RowsOf
  <2> QED
    BY <1>2, <2>1, <2>3, TypeInvIntro DEF DeletePromote, TypeInv, TypeOK
<1>3. CASE DeleteMarker(r)
  <2> DEFINE Rest == Demoted(Target(t.bucket, t.key, None))
  <2>1. PICK i \in Ids \ used :
           /\ used' = used \cup {i}
           /\ \/ objects' = With(Rest, i, Marker(t, i)) /\ AfterInsert
              \/ objects' = Rest /\ UNCHANGED now
    BY <1>3 DEF DeleteMarker
  <2>2. req' \in [Reqs -> Task] /\ \A q \in Reqs : Armed(req'[q])
    BY <1>3, FinishType DEF DeleteMarker
  <2>3. DOMAIN Rest \subseteq Ids /\ Rest \in [DOMAIN Rest -> Row]
    BY <1>0, DemotedType
  <2>4. Marker(t, i) \in Row
    BY <1>0, <1>3, MarkerType DEF DeleteMarker, Armed
  <2>5. now' \in Nat
    BY <1>0, <2>1 DEF AfterInsert
  <2> HIDE DEF Rest, t
  <2>6. /\ DOMAIN With(Rest, i, Marker(t, i)) \subseteq Ids
        /\ With(Rest, i, Marker(t, i)) \in [DOMAIN With(Rest, i, Marker(t, i)) -> Row]
    BY <2>3, <2>4, WithPartial
  <2>7. DOMAIN objects' \subseteq Ids /\ objects' \in [DOMAIN objects' -> Row]
    BY <2>1, <2>3, <2>6, Zenon
  <2>8. used' \subseteq Ids
    BY <1>0, <2>1
  <2> QED
    BY <1>3, <2>2, <2>5, <2>7, <2>8, TypeInvIntro DEF DeleteMarker, TypeInv, TypeOK
<1> QED
    BY <1>1, <1>2, <1>3

\* Dropped handlers, broken bodies and crashes keep the types.
LEMMA FaultType ==
    ASSUME TypeInv,
           \/ \E r \in Reqs : PutBodyError(r) \/ PutWithoutKey(r) \/ Abandon(r) \/ CrashInClosure(r)
           \/ Crash \/ Tick
    PROVE  TypeInv'
<1>0. Armed(Idle)
    BY DEF Armed, Writing, Idle
<1>1. CASE Tick
    BY <1>1 DEF Tick, TypeInv, TypeOK, Armed, Writing
<1>2. ASSUME NEW r \in Reqs, PutBodyError(r) \/ PutWithoutKey(r) \/ Abandon(r) PROVE TypeInv'
  <2>1. req' \in [Reqs -> Task] /\ \A q \in Reqs : Armed(req'[q])
    BY <1>2, FinishType DEF PutBodyError, PutWithoutKey, Abandon
  <2> QED
    BY <1>2, <2>1, TypeInvIntro DEF PutBodyError, PutWithoutKey, Abandon, TypeInv, TypeOK
<1>3. CASE Crash
  <2>1. req' \in [Reqs -> Task] /\ \A q \in Reqs : Armed(req'[q])
    BY <1>0, <1>3, IdleType DEF Crash
  <2> QED
    BY <1>3, <2>1, TypeInvIntro DEF Crash, TypeInv, TypeOK
<1>4. ASSUME NEW r \in Reqs, CrashInClosure(r) PROVE TypeInv'
  <2> DEFINE t == req[r]
  <2>1. req' \in [Reqs -> Task] /\ \A q \in Reqs : Armed(req'[q])
    BY <1>0, <1>4, IdleType DEF CrashInClosure
  <2>2. objects' = Superseded(t) \/ objects' = Demoted(Target(t.bucket, t.key, None))
    BY <1>4 DEF CrashInClosure
  <2>3. objects \in [DOMAIN objects -> Row] /\ DOMAIN objects \subseteq Ids
    BY DEF TypeInv, TypeOK
  <2>4. DOMAIN Superseded(t) \subseteq Ids /\ Superseded(t) \in [DOMAIN Superseded(t) -> Row]
    BY <2>3, SupersededType
  <2>5. DOMAIN objects' \subseteq Ids /\ objects' \in [DOMAIN objects' -> Row]
    BY <2>2, <2>3, <2>4, DemotedType
  <2> QED
    BY <1>4, <2>1, <2>5, TypeInvIntro DEF CrashInClosure, TypeInv, TypeOK
<1> QED
    BY <1>1, <1>2, <1>3, <1>4

\* Every step keeps the type invariant.
LEMMA StepType ==
    ASSUME TypeInv, [Next]_vars
    PROVE  TypeInv'
<1>1. ASSUME NEW r \in Reqs, Continue(r) PROVE TypeInv'
  <2>1. CASE DeleteBucketCommit(r)
    <3>1. req[r].bucket \in Buckets
      BY <2>1 DEF DeleteBucketCommit, TypeInv, Armed
    <3> QED BY <2>1, <3>1, BucketType
  <2> QED
    BY <1>1, <2>1, PutType, CommitType, GetBlobType, CopyType, DeleteCheckType,
       DeleteWriteType, LockType
    DEF Continue
<1>2. ASSUME NEW r \in Reqs, AtomicCall(r) PROVE TypeInv'
    BY <1>2, BucketType, LockType DEF AtomicCall
<1>3. CASE UNCHANGED vars
    BY <1>3 DEF vars, TypeInv, TypeOK, Armed, Writing
<1> QED
    BY <1>1, <1>2, <1>3, BeginType, FaultType DEF Next

\* Every state the data path reaches is well typed, whatever the numbers of
\* buckets, keys, ids and tasks, and whatever faults occur.
THEOREM TypeCorrect == Spec => []TypeOK
<1>1. Init => TypeInv
    BY InitType
<1>2. TypeInv /\ [Next]_vars => TypeInv'
    BY StepType
<1>3. TypeInv => TypeOK
    BY DEF TypeInv
<1> QED
    BY <1>1, <1>2, <1>3, PTL DEF Spec

-----------------------------------------------------------------------------
(* The inductive invariant of the data path.  RowsReadable alone is not    *)
(* inductive: a commit needs the blob to be in place, an unlink needs the  *)
(* row to be gone for good, a verbatim copy needs to know how its source   *)
(* is sealed, and all of it needs ids never to be shared or reused.        *)

Deleting(t) == t.pc \in {"delRows", "delUnlink"}
Copying(t)  == t.pc \in {"copyDst", "copyBlob"}

\* Every id found anywhere has been handed out.
IdsHandedOut ==
    /\ DOMAIN objects \subseteq used
    /\ DOMAIN blobs \subseteq used
    /\ \A r \in Reqs :
        /\ Writing(req[r]) => req[r].id \in used
        /\ Deleting(req[r]) => req[r].ids \subseteq used
        /\ Copying(req[r]) => req[r].src \in used

\* The id of a write under way belongs to no row, no other write, no delete
\* and no copy's source.
PendingIdsApart ==
    \A r \in Reqs : Writing(req[r]) =>
        /\ req[r].id \notin DOMAIN objects
        /\ \A q \in Reqs :
            /\ q # r /\ Writing(req[q]) => req[q].id # req[r].id
            /\ Deleting(req[q]) => req[r].id \notin req[q].ids
            /\ Copying(req[q]) => req[r].id # req[q].src

\* The blob of a write about to commit is in place and sealed for its row.
CommitsArePlaced ==
    \A r \in Reqs : req[r].pc = "commit" =>
        /\ req[r].id \in DOMAIN blobs
        /\ blobs[req[r].id].seal =
             SealingKey(req[r].alg, req[r].bucket, req[r].key, NewVid(req[r]))

\* The row is one that the DELETE of this task removes.
Doomed(t, row) ==
    /\ row.bucket = t.bucket /\ row.key = t.key
    /\ t.vid # None => row.vid = t.vid

\* The blobs a delete is going to unlink belong to no row that stays.
UnlinksAreSafe ==
    \A r \in Reqs :
        /\ req[r].pc = "delRows" =>
             \A i \in req[r].ids \cap DOMAIN objects : Doomed(req[r], objects[i])
        /\ req[r].pc = "delUnlink" => req[r].ids \cap DOMAIN objects = {}

\* Delete markers have no blob.
MarkersAreBare == \A i \in DOMAIN objects : objects[i].marker => i \notin DOMAIN blobs

\* A blob that will be copied as it is carries the seal its row declared.
CopiesKnowTheSeal ==
    \A r \in Reqs :
        Copying(req[r]) /\ req[r].src \in DOMAIN blobs /\ req[r].alg # "AES256" =>
            blobs[req[r].src].seal = SealingKey(req[r].alg, None, None, None)

SafeInv ==
    /\ TypeInv
    /\ IdsHandedOut /\ PendingIdsApart /\ CommitsArePlaced /\ UnlinksAreSafe
    /\ MarkersAreBare /\ CopiesKnowTheSeal /\ RowsReadable

\* A task that holds no id that matters.
Plain(t) == ~Writing(t) /\ ~Deleting(t) /\ ~Copying(t)

SameRow(x, y) ==
    /\ x.bucket = y.bucket /\ x.key = y.key /\ x.vid = y.vid
    /\ x.marker = y.marker /\ x.alg = y.alg /\ x.created = y.created /\ x.etag = y.etag

\* Rows may go, and what stays keeps its identity.
Kept(f) == DOMAIN f \subseteq DOMAIN objects /\ \A i \in DOMAIN f : SameRow(f[i], objects[i])

\* A task at rest is neither writing, deleting nor copying.
LEMMA IdlePlain == Plain(Idle)
    BY DEF Plain, Writing, Deleting, Copying, Idle

\* Demotion keeps every row but for is_latest.
LEMMA DemotedKept ==
    ASSUME NEW D, objects \in [DOMAIN objects -> Row]
    PROVE  Kept(Demoted(D))
    BY DEF Demoted, Kept, SameRow, Row

\* Deleting rows keeps the others as they are.
LEMMA WithoutKept ==
    ASSUME NEW D PROVE Kept(Without(objects, D))
    BY DEF Without, Kept, SameRow

\* What a commit does to the other rows only demotes or deletes them.
LEMMA SupersededKept ==
    ASSUME NEW t, objects \in [DOMAIN objects -> Row]
    PROVE  Kept(Superseded(t))
<1> DEFINE S == RowsOf(t.bucket, t.key)
<1>1. Superseded(t) = Demoted(S) \/ Superseded(t) = Without(objects, S)
    BY Zenon DEF Superseded
<1>2. Kept(Demoted(S)) /\ Kept(Without(objects, S))
    BY DemotedKept, WithoutKept
<1> HIDE DEF S
<1> QED
    BY <1>1, <1>2, Zenon

\* The empty store satisfies the safety invariant.
LEMMA InitSafe == Init => SafeInv
<1> SUFFICES ASSUME Init PROVE SafeInv
    OBVIOUS
<1>1. TypeInv
    BY InitType
<1>2. \A r \in Reqs : Plain(req[r]) /\ req[r].pc = "idle"
    BY IdlePlain DEF Init, Idle
<1>3. DOMAIN objects = {} /\ DOMAIN blobs = {}
    BY DEF Init
<1> QED
    BY <1>1, <1>2, <1>3
    DEF SafeInv, IdsHandedOut, PendingIdsApart, CommitsArePlaced, UnlinksAreSafe,
        MarkersAreBare, CopiesKnowTheSeal, RowsReadable, Plain

\* Steps that only take rows away, end tasks or move tasks that hold no id.
LEMMA QuietStep ==
    ASSUME SafeInv, TypeInv', Kept(objects'), blobs' = blobs, used \subseteq used',
           \A q \in Reqs : req'[q] = req[q] \/ Plain(req'[q])
    PROVE  SafeInv'
<1>1. IdsHandedOut'
    BY DEF SafeInv, IdsHandedOut, Kept, Plain, Writing, Deleting, Copying
<1>2. PendingIdsApart'
    BY DEF SafeInv, PendingIdsApart, Kept, Plain, Writing, Deleting, Copying
<1>3. CommitsArePlaced'
    BY DEF SafeInv, CommitsArePlaced, Plain, Writing, NewVid
<1>4. UnlinksAreSafe'
    BY DEF SafeInv, UnlinksAreSafe, Kept, SameRow, Plain, Deleting, Doomed
<1>5. MarkersAreBare'
    BY DEF SafeInv, MarkersAreBare, Kept, SameRow
<1>6. CopiesKnowTheSeal'
    BY DEF SafeInv, CopiesKnowTheSeal, Plain, Copying
<1>7. RowsReadable'
    BY DEF SafeInv, RowsReadable, Kept, SameRow
<1> QED
    BY <1>1, <1>2, <1>3, <1>4, <1>5, <1>6, <1>7 DEF SafeInv

\* A write that goes on before its blob is placed.
LEMMA AdvanceStep ==
    ASSUME SafeInv, TypeInv', NEW r \in Reqs, NEW pc, Writing(req[r]),
           pc \in {"putStream", "putPlace", "putSealed", "putRename"},
           req' = [req EXCEPT ![r].pc = pc],
           UNCHANGED <<objects, blobs, used>>
    PROVE  SafeInv'
<1>0. /\ req'[r].pc = pc /\ req'[r].id = req[r].id
      /\ \A q \in Reqs : q # r => req'[q] = req[q]
    BY DEF SafeInv, TypeInv, TypeOK, Task
<1>1. IdsHandedOut'
    BY <1>0 DEF SafeInv, IdsHandedOut, Writing, Deleting, Copying
<1>2. PendingIdsApart'
    BY <1>0 DEF SafeInv, PendingIdsApart, Writing, Deleting, Copying
<1>3. CommitsArePlaced'
    BY <1>0 DEF SafeInv, CommitsArePlaced, NewVid
<1>4. UnlinksAreSafe'
    BY <1>0 DEF SafeInv, UnlinksAreSafe, Doomed
<1>5. MarkersAreBare' /\ RowsReadable'
    BY DEF SafeInv, MarkersAreBare, RowsReadable
<1>6. CopiesKnowTheSeal'
    BY <1>0 DEF SafeInv, CopiesKnowTheSeal, Copying
<1> QED
    BY <1>1, <1>2, <1>3, <1>4, <1>5, <1>6 DEF SafeInv

\* A write receives its id.
LEMMA FreshIdStep ==
    ASSUME SafeInv, TypeInv', NEW r \in Reqs, NEW i \in Ids \ used, NEW t,
           used' = used \cup {i}, req' = [req EXCEPT ![r] = t], t.id = i,
           \/ t.pc = "putOpen"
           \/ /\ t.pc = "copyBlob" /\ req[r].pc = "copyDst"
              /\ t.src = req[r].src /\ t.alg = req[r].alg,
           UNCHANGED <<objects, blobs>>
    PROVE  SafeInv'
<1>0. req'[r] = t /\ \A q \in Reqs : q # r => req'[q] = req[q]
    BY DEF SafeInv, TypeInv, TypeOK
<1>1. IdsHandedOut'
    BY <1>0 DEF SafeInv, IdsHandedOut, Writing, Deleting, Copying
<1>2. PendingIdsApart'
  <2>1. ASSUME NEW q \in Reqs, Writing(req'[q]) PROVE req'[q].id \notin DOMAIN objects
    BY <1>0, <2>1 DEF SafeInv, PendingIdsApart, IdsHandedOut
  <2>2. ASSUME NEW q \in Reqs, NEW p \in Reqs, Writing(req'[q]), p # q, Writing(req'[p])
        PROVE  req'[p].id # req'[q].id
    BY <1>0, <2>2 DEF SafeInv, PendingIdsApart, IdsHandedOut
  <2>3. ASSUME NEW q \in Reqs, NEW p \in Reqs, Writing(req'[q]), Deleting(req'[p])
        PROVE  req'[q].id \notin req'[p].ids
    BY <1>0, <2>3 DEF SafeInv, PendingIdsApart, IdsHandedOut, Deleting
  <2>4. ASSUME NEW q \in Reqs, NEW p \in Reqs, Writing(req'[q]), Copying(req'[p])
        PROVE  req'[q].id # req'[p].src
    BY <1>0, <2>4 DEF SafeInv, PendingIdsApart, IdsHandedOut, Copying
  <2> QED
    BY <2>1, <2>2, <2>3, <2>4 DEF PendingIdsApart, Writing, Deleting, Copying
<1>3. CommitsArePlaced'
    BY <1>0 DEF SafeInv, CommitsArePlaced, NewVid
<1>4. UnlinksAreSafe'
    BY <1>0 DEF SafeInv, UnlinksAreSafe, Doomed
<1>5. MarkersAreBare' /\ RowsReadable'
    BY DEF SafeInv, MarkersAreBare, RowsReadable
<1>6. CopiesKnowTheSeal'
    BY <1>0 DEF SafeInv, CopiesKnowTheSeal, Copying
<1> QED
    BY <1>1, <1>2, <1>3, <1>4, <1>5, <1>6 DEF SafeInv

\* Only SSE-S3 seals depend on where the object is.
LEMMA SealIgnoresPlace ==
    ASSUME NEW a, a # "AES256", NEW b, NEW k, NEW v, NEW b2, NEW k2, NEW v2
    PROVE  SealingKey(a, b, k, v) = SealingKey(a, b2, k2, v2)
    BY DEF SealingKey

\* The second query of copy_object keeps the safety invariant.
LEMMA CopySourceSafe ==
    ASSUME SafeInv, TypeInv', NEW r \in Reqs, NEW i \in DOMAIN objects,
           req[r].pc = "copySrc", NEW t, req' = [req EXCEPT ![r] = t],
           t.pc = "copyDst", t.src = i, t.alg = objects[i].alg,
           UNCHANGED <<objects, blobs, used>>
    PROVE  SafeInv'
<1>0. req'[r] = t /\ \A q \in Reqs : q # r => req'[q] = req[q]
    BY DEF SafeInv, TypeInv, TypeOK
<1>1. IdsHandedOut'
    BY <1>0 DEF SafeInv, IdsHandedOut, Writing, Deleting, Copying
<1>2. PendingIdsApart'
    BY <1>0 DEF SafeInv, PendingIdsApart, Writing, Deleting, Copying
<1>3. CommitsArePlaced'
    BY <1>0 DEF SafeInv, CommitsArePlaced, NewVid
<1>4. UnlinksAreSafe'
    BY <1>0 DEF SafeInv, UnlinksAreSafe, Doomed
<1>5. MarkersAreBare' /\ RowsReadable'
    BY DEF SafeInv, MarkersAreBare, RowsReadable
<1>6. CopiesKnowTheSeal'
  <2>1. ASSUME i \in DOMAIN blobs, objects[i].alg # "AES256"
        PROVE  blobs[i].seal = SealingKey(objects[i].alg, None, None, None)
    <3>1. ~objects[i].marker
      BY <2>1 DEF SafeInv, MarkersAreBare
    <3>2. blobs[i].seal = SealingKey(objects[i].alg, objects[i].bucket, objects[i].key,
                                     objects[i].vid)
      BY <3>1 DEF SafeInv, RowsReadable
    <3> QED
      BY <2>1, <3>2, SealIgnoresPlace
  <2> QED
    BY <1>0, <2>1 DEF SafeInv, CopiesKnowTheSeal, Copying
<1> QED
    BY <1>1, <1>2, <1>3, <1>4, <1>5, <1>6 DEF SafeInv

\* The blob of a write is put in its place, sealed for the row to come.
LEMMA PlaceStep ==
    ASSUME SafeInv, TypeInv', NEW r \in Reqs, NEW x,
           Writing(req[r]), req[r].pc # "commit",
           x.seal = SealingKey(req[r].alg, req[r].bucket, req[r].key, NewVid(req[r])),
           blobs' = With(blobs, req[r].id, x),
           req' = [req EXCEPT ![r].pc = "commit"],
           UNCHANGED <<objects, used>>
    PROVE  SafeInv'
<1> DEFINE id == req[r].id
<1>0. /\ req'[r].pc = "commit" /\ req'[r].id = id
      /\ req'[r].alg = req[r].alg /\ req'[r].bucket = req[r].bucket
      /\ req'[r].key = req[r].key /\ req'[r].versioned = req[r].versioned
      /\ \A q \in Reqs : q # r => req'[q] = req[q]
    BY DEF SafeInv, TypeInv, TypeOK, Task
<1>b. /\ DOMAIN blobs' = DOMAIN blobs \cup {id} /\ blobs'[id] = x
      /\ \A j \in DOMAIN blobs : j # id => blobs'[j] = blobs[j]
    BY DEF With
<1>u. id \in used /\ id \notin DOMAIN objects
    BY DEF SafeInv, IdsHandedOut, PendingIdsApart
<1>1. IdsHandedOut'
    BY <1>0, <1>b, <1>u DEF SafeInv, IdsHandedOut, Writing, Deleting, Copying
<1>2. PendingIdsApart'
    BY <1>0 DEF SafeInv, PendingIdsApart, Writing, Deleting, Copying
<1>3. CommitsArePlaced'
  <2>1. req'[r].id \in DOMAIN blobs'
    BY <1>0, <1>b
  <2>2. NewVid(req'[r]) = NewVid(req[r])
    BY <1>0 DEF NewVid
  <2>3. blobs'[req'[r].id].seal =
           SealingKey(req'[r].alg, req'[r].bucket, req'[r].key, NewVid(req'[r]))
    BY <1>0, <1>b, <2>2
  <2>4. ASSUME NEW q \in Reqs, q # r, req[q].pc = "commit"
        PROVE  /\ req[q].id \in DOMAIN blobs'
               /\ blobs'[req[q].id].seal =
                    SealingKey(req[q].alg, req[q].bucket, req[q].key, NewVid(req[q]))
    <3>1. req[q].id # id
      BY <2>4 DEF SafeInv, PendingIdsApart, Writing
    <3> QED BY <1>b, <2>4, <3>1 DEF SafeInv, CommitsArePlaced
  <2> QED
    BY <1>0, <2>1, <2>3, <2>4 DEF CommitsArePlaced, NewVid
<1>4. UnlinksAreSafe'
    BY <1>0 DEF SafeInv, UnlinksAreSafe, Doomed
<1>5. MarkersAreBare'
    BY <1>b, <1>u DEF SafeInv, MarkersAreBare
<1>6. RowsReadable'
    BY <1>b, <1>u DEF SafeInv, RowsReadable
<1>7. CopiesKnowTheSeal'
  <2>1. ASSUME NEW q \in Reqs, Copying(req'[q]), req'[q].src \in DOMAIN blobs',
               req'[q].alg # "AES256"
        PROVE  blobs'[req'[q].src].seal = SealingKey(req'[q].alg, None, None, None)
    <3>1. q # r /\ req'[q] = req[q]
      BY <1>0, <2>1 DEF Copying
    <3>2. req[q].src # id
      BY <2>1, <3>1 DEF SafeInv, PendingIdsApart
    <3> QED BY <1>b, <2>1, <3>1, <3>2 DEF SafeInv, CopiesKnowTheSeal
  <2> QED
    BY <2>1 DEF CopiesKnowTheSeal, Copying
<1> QED
    BY <1>1, <1>2, <1>3, <1>4, <1>5, <1>6, <1>7 DEF SafeInv

\* The row of a write, or of a delete marker, enters the table.
LEMMA InsertStep ==
    ASSUME SafeInv, TypeInv', NEW r \in Reqs, NEW f, Kept(f), NEW i, NEW row,
           objects' = With(f, i, row), blobs' = blobs, used \subseteq used',
           req' = [req EXCEPT ![r] = Idle],
           \/ /\ req[r].pc = "commit" /\ i = req[r].id /\ row = NewRow(req[r])
           \/ /\ i \in Ids \ used /\ i \in used' /\ row.marker
    PROVE  SafeInv'
<1>0. Plain(req'[r]) /\ \A q \in Reqs : q # r => req'[q] = req[q]
    BY IdlePlain DEF SafeInv, TypeInv, TypeOK
<1>o. /\ DOMAIN objects' = DOMAIN f \cup {i} /\ objects'[i] = row
      /\ \A j \in DOMAIN f : j # i => objects'[j] = f[j]
      /\ DOMAIN f \subseteq DOMAIN objects
    BY DEF With, Kept
<1>i. i \notin DOMAIN objects /\ i \in used'
    BY DEF SafeInv, PendingIdsApart, IdsHandedOut, Writing
<1>k. \A j \in DOMAIN f : j # i /\ SameRow(objects'[j], objects[j])
    BY <1>o, <1>i DEF Kept
<1>1. IdsHandedOut'
    BY <1>0, <1>o, <1>i DEF SafeInv, IdsHandedOut, Plain, Writing, Deleting, Copying
<1>p. ASSUME NEW q \in Reqs, q # r
      PROVE  /\ Writing(req[q]) => req[q].id # i
             /\ Deleting(req[q]) => i \notin req[q].ids
    BY <1>p DEF SafeInv, PendingIdsApart, IdsHandedOut, Writing
<1>2. PendingIdsApart'
    BY <1>0, <1>o, <1>p DEF SafeInv, PendingIdsApart, Plain, Writing, Deleting, Copying
<1>3. CommitsArePlaced'
    BY <1>0 DEF SafeInv, CommitsArePlaced, Plain, Writing, NewVid
<1>4. UnlinksAreSafe'
    BY <1>0, <1>o, <1>p, <1>k DEF SafeInv, UnlinksAreSafe, SameRow, Plain, Deleting, Doomed
<1>r. \/ row.marker /\ i \notin DOMAIN blobs
      \/ /\ ~row.marker /\ i \in DOMAIN blobs
         /\ blobs[i].seal = SealingKey(row.alg, row.bucket, row.key, row.vid)
  <2>1. CASE req[r].pc = "commit" /\ i = req[r].id /\ row = NewRow(req[r])
    BY <2>1 DEF SafeInv, CommitsArePlaced, NewRow
  <2>2. CASE i \in Ids \ used /\ row.marker
    BY <2>2 DEF SafeInv, IdsHandedOut
  <2> QED BY <2>1, <2>2
<1>5. MarkersAreBare'
    BY <1>o, <1>k, <1>r DEF SafeInv, MarkersAreBare, SameRow
<1>6. RowsReadable'
  <2>1. ASSUME NEW j \in DOMAIN objects', ~objects'[j].marker
        PROVE  /\ j \in DOMAIN blobs
               /\ blobs[j].seal = SealingKey(objects'[j].alg, objects'[j].bucket,
                                             objects'[j].key, objects'[j].vid)
    <3>1. CASE j = i
      BY <1>o, <1>r, <2>1, <3>1
    <3>2. CASE j \in DOMAIN f
      BY <1>o, <1>k, <2>1, <3>2 DEF SafeInv, RowsReadable, SameRow
    <3> QED BY <1>o, <3>1, <3>2
  <2> QED
    BY <2>1 DEF RowsReadable
<1>7. CopiesKnowTheSeal'
    BY <1>0 DEF SafeInv, CopiesKnowTheSeal, Plain, Copying
<1> QED
    BY <1>1, <1>2, <1>3, <1>4, <1>5, <1>6, <1>7 DEF SafeInv

\* The rows a delete takes are those it names.
LEMMA VictimsAreDoomed ==
    ASSUME NEW t
    PROVE  Victims(t) = {i \in DOMAIN objects : Doomed(t, objects[i])}
    BY DEF Victims, Target, RowsOf, Doomed

\* The three steps of a hard delete that handle the ids it will unlink.
LEMMA HardDeleteSafe ==
    ASSUME SafeInv, TypeInv', NEW r \in Reqs,
           \/ DeleteSelect(r) \/ DeleteRows(r)
           \/ \E i \in req[r].ids : /\ req[r].pc = "delUnlink"
                                    /\ blobs' = Without(blobs, {i})
                                    /\ req' = [req EXCEPT ![r].ids = @ \ {i}]
                                    /\ UNCHANGED <<objects, used>>
    PROVE  SafeInv'
<1>1. CASE DeleteSelect(r)
  <2>0. /\ req'[r].pc = "delRows" /\ req'[r].ids = Victims(req[r])
        /\ req'[r].bucket = req[r].bucket /\ req'[r].key = req[r].key
        /\ req'[r].vid = req[r].vid
        /\ \A q \in Reqs : q # r => req'[q] = req[q]
        /\ UNCHANGED <<objects, blobs, used>>
    BY <1>1 DEF DeleteSelect, SafeInv, TypeInv, TypeOK, Task
  <2>v. /\ Victims(req[r]) \subseteq DOMAIN objects
        /\ \A i \in Victims(req[r]) : Doomed(req[r], objects[i])
    BY VictimsAreDoomed
  <2>1. IdsHandedOut'
    BY <2>0, <2>v DEF SafeInv, IdsHandedOut, Writing, Deleting, Copying
  <2>2. PendingIdsApart'
    BY <2>0, <2>v DEF SafeInv, PendingIdsApart, Writing, Deleting, Copying
  <2>3. CommitsArePlaced'
    BY <2>0 DEF SafeInv, CommitsArePlaced, NewVid
  <2>4. UnlinksAreSafe'
    BY <2>0, <2>v DEF SafeInv, UnlinksAreSafe, Doomed
  <2>5. MarkersAreBare' /\ RowsReadable'
    BY <2>0 DEF SafeInv, MarkersAreBare, RowsReadable
  <2>6. CopiesKnowTheSeal'
    BY <2>0 DEF SafeInv, CopiesKnowTheSeal, Copying
  <2> QED
    BY <2>1, <2>2, <2>3, <2>4, <2>5, <2>6 DEF SafeInv
<1>2. CASE DeleteRows(r)
  <2>0. /\ req[r].pc = "delRows" /\ req'[r].pc = "delUnlink" /\ req'[r].ids = req[r].ids
        /\ \A q \in Reqs : q # r => req'[q] = req[q]
        /\ UNCHANGED <<blobs, used>>
    BY <1>2 DEF DeleteRows, Goto, SafeInv, TypeInv, TypeOK, Task
  <2>o. /\ DOMAIN objects' = {i \in DOMAIN objects : ~Doomed(req[r], objects[i])}
        /\ \A i \in DOMAIN objects' : objects'[i] = objects[i]
    BY <1>2, VictimsAreDoomed DEF DeleteRows, Without
  <2>1. IdsHandedOut'
    BY <2>0, <2>o DEF SafeInv, IdsHandedOut, Writing, Deleting, Copying
  <2>2. PendingIdsApart'
    BY <2>0, <2>o DEF SafeInv, PendingIdsApart, Writing, Deleting, Copying
  <2>3. CommitsArePlaced'
    BY <2>0 DEF SafeInv, CommitsArePlaced, NewVid
  <2>4. UnlinksAreSafe'
    <3>1. req'[r].ids \cap DOMAIN objects' = {}
      BY <2>0, <2>o DEF SafeInv, UnlinksAreSafe
    <3> QED
      BY <2>0, <2>o, <3>1 DEF SafeInv, UnlinksAreSafe, Doomed
  <2>5. MarkersAreBare' /\ RowsReadable'
    BY <2>0, <2>o DEF SafeInv, MarkersAreBare, RowsReadable
  <2>6. CopiesKnowTheSeal'
    BY <2>0 DEF SafeInv, CopiesKnowTheSeal, Copying
  <2> QED
    BY <2>1, <2>2, <2>3, <2>4, <2>5, <2>6 DEF SafeInv
<1>3. ASSUME NEW i \in req[r].ids, req[r].pc = "delUnlink", blobs' = Without(blobs, {i}),
             req' = [req EXCEPT ![r].ids = @ \ {i}], UNCHANGED <<objects, used>>
      PROVE  SafeInv'
  <2>0. /\ req'[r].pc = "delUnlink" /\ req'[r].ids = req[r].ids \ {i}
        /\ \A q \in Reqs : q # r => req'[q] = req[q]
    BY <1>3 DEF SafeInv, TypeInv, TypeOK, Task
  <2>b. /\ DOMAIN blobs' = DOMAIN blobs \ {i}
        /\ \A j \in DOMAIN blobs' : blobs'[j] = blobs[j]
    BY <1>3 DEF Without
  <2>i. /\ i \notin DOMAIN objects
        /\ \A q \in Reqs : Writing(req[q]) => req[q].id # i
    BY <1>3 DEF SafeInv, UnlinksAreSafe, PendingIdsApart, Deleting
  <2>1. IdsHandedOut'
    BY <1>3, <2>0, <2>b DEF SafeInv, IdsHandedOut, Writing, Deleting, Copying
  <2>2. PendingIdsApart'
    BY <1>3, <2>0 DEF SafeInv, PendingIdsApart, Writing, Deleting, Copying
  <2>3. CommitsArePlaced'
    BY <2>0, <2>b, <2>i DEF SafeInv, CommitsArePlaced, NewVid, Writing
  <2>4. UnlinksAreSafe'
    BY <1>3, <2>0 DEF SafeInv, UnlinksAreSafe, Doomed
  <2>5. MarkersAreBare' /\ RowsReadable'
    BY <1>3, <2>b, <2>i DEF SafeInv, MarkersAreBare, RowsReadable
  <2>6. CopiesKnowTheSeal'
    BY <2>0, <2>b DEF SafeInv, CopiesKnowTheSeal, Copying
  <2> QED
    BY <2>1, <2>2, <2>3, <2>4, <2>5, <2>6 DEF SafeInv
<1> QED
    BY <1>1, <1>2, <1>3

\* A task that returns is neither writing, deleting nor copying.
LEMMA FinishPlain ==
    ASSUME TypeInv, NEW r \in Reqs, Finish(r)
    PROVE  \A q \in Reqs : req'[q] = req[q] \/ Plain(req'[q])
    BY IdlePlain DEF Finish, TypeInv, TypeOK

\* So is a task that a delete moves on to one of its other steps.
LEMMA GotoPlain ==
    ASSUME TypeInv, NEW r \in Reqs, NEW pc, Goto(r, pc),
           pc \in {"delMarker", "delSelect", "delPromote"}
    PROVE  \A q \in Reqs : req'[q] = req[q] \/ Plain(req'[q])
    BY DEF Goto, TypeInv, TypeOK, Task, Plain, Writing, Deleting, Copying

\* A table left alone is kept.
LEMMA SameKept == UNCHANGED objects => Kept(objects')
    BY DEF Kept, SameRow

\* Starting a call keeps the safety invariant.
LEMMA BeginSafe ==
    ASSUME SafeInv, TypeInv', NEW r \in Reqs, Begin(r)
    PROVE  SafeInv'
<1>0. TypeInv /\ req \in [Reqs -> Task]
    BY DEF SafeInv, TypeInv, TypeOK
<1>q. ASSUME NEW t, Plain(t), req' = [req EXCEPT ![r] = t], UNCHANGED <<objects, blobs, used>>
      PROVE  SafeInv'
  <2>1. \A q \in Reqs : req'[q] = req[q] \/ Plain(req'[q])
    BY <1>0, <1>q
  <2> QED BY <1>q, <2>1, SameKept, QuietStep
<1>1. ASSUME NEW b \in Buckets, DeleteBucketCheck(r, b) PROVE SafeInv'
  <2> DEFINE t == [Idle EXCEPT !.pc = "dropBucket", !.bucket = b]
  <2>1. Plain(t)
    BY DEF Plain, Writing, Deleting, Copying, Idle
  <2>2. req' = [req EXCEPT ![r] = t] /\ UNCHANGED <<objects, blobs, used>>
    BY <1>1 DEF DeleteBucketCheck
  <2> HIDE DEF t
  <2> QED BY <1>q, <2>1, <2>2
<1>2. ASSUME NEW b \in Buckets, NEW k \in Keys, NEW body \in Bodies,
             NEW alg \in Algorithms, PutStart(r, b, k, body, alg)
      PROVE  SafeInv'
  <2>1. PICK i \in Ids \ used :
          /\ used' = used \cup {i}
          /\ req' = [req EXCEPT ![r] =
                     [Idle EXCEPT !.pc = "putOpen", !.bucket = b, !.key = k,
                                  !.body = body, !.etag = body, !.alg = alg,
                                  !.versioned = (buckets[b] = "Enabled"), !.id = i]]
    BY <1>2 DEF PutStart
  <2> DEFINE t == [Idle EXCEPT !.pc = "putOpen", !.bucket = b, !.key = k,
                               !.body = body, !.etag = body, !.alg = alg,
                               !.versioned = (buckets[b] = "Enabled"), !.id = i]
  <2>2. t.id = i /\ t.pc = "putOpen"
    BY DEF Idle
  <2>3. req' = [req EXCEPT ![r] = t] /\ UNCHANGED <<objects, blobs>>
    BY <1>2, <2>1 DEF PutStart
  <2> HIDE DEF t
  <2> QED BY <2>1, <2>2, <2>3, FreshIdStep
<1>3. ASSUME NEW b \in Buckets, NEW k \in Keys, NEW sb \in Buckets, NEW sk \in Keys,
             CopyHead(r, sb, sk, b, k)
      PROVE  SafeInv'
  <2>1. PICK i \in DOMAIN objects :
          req' = [req EXCEPT ![r] =
                     [Idle EXCEPT !.pc = "copySrc", !.bucket = b, !.key = k,
                                  !.sbucket = sb, !.skey = sk,
                                  !.vid = objects[i].vid, !.etag = objects[i].etag]]
    BY <1>3 DEF CopyHead, Target, RowsOf
  <2> DEFINE t == [Idle EXCEPT !.pc = "copySrc", !.bucket = b, !.key = k,
                               !.sbucket = sb, !.skey = sk,
                               !.vid = objects[i].vid, !.etag = objects[i].etag]
  <2>2. Plain(t)
    BY DEF Plain, Writing, Deleting, Copying, Idle
  <2>3. req' = [req EXCEPT ![r] = t] /\ UNCHANGED <<objects, blobs, used>>
    BY <1>3, <2>1 DEF CopyHead
  <2> HIDE DEF t
  <2> QED BY <1>q, <2>2, <2>3
<1>4. ASSUME NEW b \in Buckets, NEW k \in Keys, NEW v \in Vids \cup {None},
             GetRow(r, b, k, v)
      PROVE  SafeInv'
  <2>1. PICK i \in DOMAIN objects :
          req' = [req EXCEPT ![r] =
                     [Idle EXCEPT !.pc = "getBlob", !.bucket = b, !.key = k,
                                  !.vid = objects[i].vid, !.id = i,
                                  !.etag = objects[i].etag, !.alg = objects[i].alg]]
    BY <1>4 DEF GetRow, Target, RowsOf
  <2> DEFINE t == [Idle EXCEPT !.pc = "getBlob", !.bucket = b, !.key = k,
                               !.vid = objects[i].vid, !.id = i,
                               !.etag = objects[i].etag, !.alg = objects[i].alg]
  <2>2. Plain(t)
    BY DEF Plain, Writing, Deleting, Copying, Idle
  <2>3. req' = [req EXCEPT ![r] = t] /\ UNCHANGED <<objects, blobs, used>>
    BY <1>4, <2>1 DEF GetRow
  <2> HIDE DEF t
  <2> QED BY <1>q, <2>2, <2>3
<1>5. ASSUME NEW b \in Buckets, NEW k \in Keys, NEW v \in Vids \cup {None},
             DeleteStart(r, b, k, v)
      PROVE  SafeInv'
  <2> DEFINE t == [Idle EXCEPT !.pc = "delLock", !.bucket = b, !.key = k, !.vid = v,
                      !.versioned = (buckets[b] \in {"Enabled", "Suspended"})]
  <2>1. Plain(t)
    BY DEF Plain, Writing, Deleting, Copying, Idle
  <2>2. req' = [req EXCEPT ![r] = t] /\ UNCHANGED <<objects, blobs, used>>
    BY <1>5 DEF DeleteStart
  <2> HIDE DEF t
  <2> QED BY <1>q, <2>1, <2>2
<1>6. ASSUME NEW b \in Buckets, NEW k \in Keys, NEW v \in Vids \cup {None},
             NEW mode \in Modes \ {"none"}, NEW until \in Untils, NEW bypass \in BOOLEAN,
             RetentionCheck(r, b, k, v, mode, until, bypass)
      PROVE  SafeInv'
  <2> DEFINE t == [Idle EXCEPT !.pc = "retain", !.bucket = b, !.key = k, !.vid = v,
                               !.mode = mode, !.until = until]
  <2>1. Plain(t)
    BY DEF Plain, Writing, Deleting, Copying, Idle
  <2>2. req' = [req EXCEPT ![r] = t] /\ UNCHANGED <<objects, blobs, used>>
    BY <1>6 DEF RetentionCheck
  <2> HIDE DEF t
  <2> QED BY <1>q, <2>1, <2>2
<1> QED
    BY <1>1, <1>2, <1>3, <1>4, <1>5, <1>6 DEF Begin

\* Every step of put_object keeps the safety invariant.
LEMMA WriteSafe ==
    ASSUME SafeInv, TypeInv', NEW r \in Reqs,
           \/ PutOpenTmp(r) \/ PutStreamBody(r) \/ PutSeal(r) \/ PutDropPlain(r)
           \/ PutRename(r) \/ Commit(r)
    PROVE  SafeInv'
<1>0. TypeInv
    BY DEF SafeInv
<1>1. CASE PutOpenTmp(r) \/ PutStreamBody(r) \/ PutSeal(r) \/ PutDropPlain(r)
    BY <1>1, AdvanceStep
    DEF PutOpenTmp, PutStreamBody, PutSeal, PutDropPlain, Goto, Writing
<1>2. CASE PutRename(r)
  <2> DEFINE x == [body |-> req[r].body,
                   seal |-> SealingKey(req[r].alg, req[r].bucket, req[r].key, NewVid(req[r]))]
  <2>1. /\ blobs' = With(blobs, req[r].id, x) /\ req' = [req EXCEPT ![r].pc = "commit"]
        /\ UNCHANGED <<objects, used>> /\ req[r].pc \in {"putPlace", "putRename"}
    BY <1>2 DEF PutRename, Goto
  <2>2. x.seal = SealingKey(req[r].alg, req[r].bucket, req[r].key, NewVid(req[r]))
    OBVIOUS
  <2>3. Writing(req[r]) /\ req[r].pc # "commit"
    BY <2>1 DEF Writing
  <2> HIDE DEF x
  <2> QED BY <2>1, <2>2, <2>3, PlaceStep
<1>3. CASE Commit(r)
  <2>1. objects \in [DOMAIN objects -> Row]
    BY <1>0 DEF TypeInv, TypeOK
  <2>2. Kept(Superseded(req[r]))
    BY <2>1, SupersededKept
  <2>3. blobs' = blobs /\ used' = used /\ Finish(r) /\ req[r].pc = "commit"
    BY <1>3 DEF Commit
  <2>4. \/ objects' = With(Superseded(req[r]), req[r].id, NewRow(req[r]))
        \/ objects' = Superseded(req[r])
    BY <1>3, Zenon DEF Commit
  <2>5. CASE objects' = Superseded(req[r])
    <3>1. Kept(objects')
      BY <2>2, <2>5, Zenon
    <3> QED BY <1>0, <2>3, <3>1, FinishPlain, QuietStep
  <2>6. CASE objects' = With(Superseded(req[r]), req[r].id, NewRow(req[r]))
    <3>1. req' = [req EXCEPT ![r] = Idle]
      BY <2>3 DEF Finish
    <3>2. used \subseteq used'
      BY <2>3
    <3> QED BY <2>2, <2>3, <2>6, <3>1, <3>2, InsertStep
  <2> QED
    BY <2>4, <2>5, <2>6
<1> QED
    BY <1>1, <1>2, <1>3

\* Every step of copy_object keeps the safety invariant.
LEMMA CopySafe ==
    ASSUME SafeInv, TypeInv', NEW r \in Reqs, CopySource(r) \/ CopyDestination(r) \/ CopyBlob(r)
    PROVE  SafeInv'
<1> DEFINE t == req[r]
<1>0. TypeInv /\ t \in Task
    BY DEF SafeInv, TypeInv, TypeOK
<1>f. ASSUME Finish(r), UNCHANGED <<objects, blobs, used>> PROVE SafeInv'
    BY <1>0, <1>f, FinishPlain, SameKept, QuietStep
<1>1. CASE CopySource(r)
  <2>1. ASSUME NEW i \in DOMAIN objects,
               req' = [req EXCEPT ![r].pc = "copyDst", ![r].src = i, ![r].alg = objects[i].alg]
        PROVE  SafeInv'
    <3> DEFINE u == [t EXCEPT !.pc = "copyDst", !.src = i, !.alg = objects[i].alg]
    <3>1. u.pc = "copyDst" /\ u.src = i /\ u.alg = objects[i].alg
      BY <1>0 DEF Task
    <3>2. req' = [req EXCEPT ![r] = u]
      BY <2>1
    <3>3. req[r].pc = "copySrc" /\ UNCHANGED <<objects, blobs, used>>
      BY <1>1 DEF CopySource
    <3> HIDE DEF u
    <3> QED BY <3>1, <3>2, <3>3, CopySourceSafe
  <2> QED
    BY <1>1, <1>f, <2>1 DEF CopySource, Target, RowsOf
<1>2. CASE CopyDestination(r)
  <2>1. ASSUME NEW i \in Ids \ used, used' = used \cup {i},
               req' = [req EXCEPT ![r].pc = "copyBlob", ![r].id = i,
                                  ![r].versioned = (buckets[req[r].bucket] = "Enabled")]
        PROVE  SafeInv'
    <3> DEFINE u == [t EXCEPT !.pc = "copyBlob", !.id = i,
                              !.versioned = (buckets[t.bucket] = "Enabled")]
    <3>1. u.pc = "copyBlob" /\ u.id = i /\ u.src = t.src /\ u.alg = t.alg
      BY <1>0 DEF Task
    <3>2. req' = [req EXCEPT ![r] = u]
      BY <2>1
    <3>3. req[r].pc = "copyDst" /\ UNCHANGED <<objects, blobs>>
      BY <1>2 DEF CopyDestination
    <3> HIDE DEF u
    <3> QED BY <2>1, <3>1, <3>2, <3>3, FreshIdStep
  <2> QED
    BY <1>2, <1>f, <2>1 DEF CopyDestination
<1>3. CASE CopyBlob(r)
  <2> DEFINE x == [body |-> blobs[t.src].body,
                   seal |-> IF t.alg = "AES256"
                            THEN SealingKey(t.alg, t.bucket, t.key, NewVid(t))
                            ELSE blobs[t.src].seal]
  <2>0. t.pc = "copyBlob" /\ UNCHANGED <<objects, used>>
    BY <1>3 DEF CopyBlob
  <2>1. CASE t.src \in DOMAIN blobs /\ blobs' = With(blobs, t.id, x) /\ Goto(r, "commit")
    <3>1. x.seal = SealingKey(t.alg, t.bucket, t.key, NewVid(t))
      <4>1. CASE t.alg = "AES256"
        BY <4>1
      <4>2. CASE t.alg # "AES256"
        <5>1. blobs[t.src].seal = SealingKey(t.alg, None, None, None)
          BY <2>0, <2>1, <4>2 DEF SafeInv, CopiesKnowTheSeal, Copying
        <5>2. SealingKey(t.alg, None, None, None) = SealingKey(t.alg, t.bucket, t.key, NewVid(t))
          BY <4>2, SealIgnoresPlace
        <5> QED BY <4>2, <5>1, <5>2
      <4> QED BY <4>1, <4>2
    <3>2. Writing(t) /\ t.pc # "commit"
      BY <2>0 DEF Writing
    <3>3. req' = [req EXCEPT ![r].pc = "commit"]
      BY <2>1 DEF Goto
    <3> HIDE DEF x
    <3> QED BY <2>0, <2>1, <3>1, <3>2, <3>3, PlaceStep
  <2> QED
    BY <1>3, <1>f, <2>0, <2>1 DEF CopyBlob
<1> QED
    BY <1>1, <1>2, <1>3

\* Every step of a delete keeps the safety invariant.
LEMMA DeleteSafe ==
    ASSUME SafeInv, TypeInv', NEW r \in Reqs,
           \/ DeleteLockCheck(r) \/ DeleteSelect(r) \/ DeleteRows(r) \/ DeleteUnlink(r)
           \/ DeletePromote(r) \/ DeleteMarker(r)
    PROVE  SafeInv'
<1>0. TypeInv /\ objects \in [DOMAIN objects -> Row]
    BY DEF SafeInv, TypeInv, TypeOK
<1>1. CASE DeleteLockCheck(r)
  <2>1. UNCHANGED <<objects, blobs, used>>
    BY <1>1 DEF DeleteLockCheck
  <2>2. AfterLockCheck(req[r]) \in {"delMarker", "delSelect"}
    BY DEF AfterLockCheck
  <2>3. \A q \in Reqs : req'[q] = req[q] \/ Plain(req'[q])
    BY <1>0, <1>1, <2>2, FinishPlain, GotoPlain DEF DeleteLockCheck
  <2> QED BY <2>1, <2>3, SameKept, QuietStep
<1>2. CASE DeleteUnlink(r)
  <2>1. CASE (Finish(r) \/ Goto(r, "delPromote")) /\ UNCHANGED <<objects, blobs, used>>
    <3>1. \A q \in Reqs : req'[q] = req[q] \/ Plain(req'[q])
      BY <1>0, <2>1, FinishPlain, GotoPlain
    <3> QED BY <2>1, <3>1, SameKept, QuietStep
  <2> QED
    BY <1>2, <2>1, HardDeleteSafe DEF DeleteUnlink
<1>3. CASE DeletePromote(r)
  <2>1. blobs' = blobs /\ used' = used /\ Finish(r)
    BY <1>3 DEF DeletePromote
  <2>2. ASSUME NEW i \in DOMAIN objects,
               objects' = With(objects, i, [objects[i] EXCEPT !.latest = TRUE])
        PROVE  Kept(objects')
    BY <1>0, <2>2 DEF With, Kept, SameRow, Row
  <2>3. Kept(objects')
    BY <1>3, <2>2, SameKept DEF DeletePromote, Newest, RowsOf
  <2> QED
    BY <1>0, <2>1, <2>3, FinishPlain, QuietStep
<1>4. CASE DeleteMarker(r)
  <2> DEFINE t == req[r]
             Rest == Demoted(Target(t.bucket, t.key, None))
  <2>1. PICK i \in Ids \ used :
           /\ used' = used \cup {i}
           /\ objects' = With(Rest, i, Marker(t, i)) \/ objects' = Rest
    BY <1>4 DEF DeleteMarker
  <2>2. blobs' = blobs /\ Finish(r)
    BY <1>4 DEF DeleteMarker
  <2>3. Kept(Rest)
    BY <1>0, DemotedKept
  <2>4. Marker(t, i).marker
    BY DEF Marker
  <2>5. req' = [req EXCEPT ![r] = Idle]
    BY <2>2 DEF Finish
  <2>6. used \subseteq used' /\ i \in used'
    BY <2>1
  <2> HIDE DEF Rest, t
  <2>7. CASE objects' = Rest
    <3>1. Kept(objects')
      BY <2>3, <2>7, Zenon
    <3> QED BY <1>0, <2>2, <2>6, <3>1, FinishPlain, QuietStep
  <2>8. CASE objects' = With(Rest, i, Marker(t, i))
    BY <2>2, <2>3, <2>4, <2>5, <2>6, <2>8, InsertStep
  <2> QED
    BY <2>1, <2>7, <2>8
<1> QED
    BY <1>1, <1>2, <1>3, <1>4, HardDeleteSafe

\* Bucket, read and lock steps keep the safety invariant.
LEMMA OtherSafe ==
    ASSUME SafeInv, TypeInv', NEW r \in Reqs,
           DeleteBucketCommit(r) \/ GetBlob(r) \/ RetentionUpdate(r) \/ AtomicCall(r)
    PROVE  SafeInv'
<1>0. /\ TypeInv /\ objects \in [DOMAIN objects -> Row]
      /\ req \in [Reqs -> Task]
    BY DEF SafeInv, TypeInv, TypeOK
<1>1. CASE DeleteBucketCommit(r)
  <2>1. Kept(objects') /\ blobs' = blobs /\ used' = used /\ Finish(r)
    BY <1>1, WithoutKept DEF DeleteBucketCommit
  <2> QED BY <1>0, <2>1, FinishPlain, QuietStep
<1>2. CASE GetBlob(r)
  <2>1. UNCHANGED <<objects, blobs, used>>
    BY <1>2 DEF GetBlob
  <2>2. CASE req' = [req EXCEPT ![r].pc = "got", ![r].body = blobs[req[r].id].body]
    <3>1. \A q \in Reqs : req'[q] = req[q] \/ Plain(req'[q])
      BY <1>0, <2>2 DEF Task, Plain, Writing, Deleting, Copying
    <3> QED BY <2>1, <3>1, SameKept, QuietStep
  <2>3. CASE Finish(r)
    BY <1>0, <2>1, <2>3, FinishPlain, SameKept, QuietStep
  <2> QED BY <1>2, <2>2, <2>3 DEF GetBlob
<1>3. CASE RetentionUpdate(r)
  <2>1. Kept(objects')
    BY <1>0, <1>3, ZenonT(90) DEF RetentionUpdate, Kept, SameRow, Row
  <2> QED
    BY <1>0, <1>3, <2>1, FinishPlain, QuietStep DEF RetentionUpdate
<1>4. CASE AtomicCall(r)
  <2>1. blobs' = blobs /\ used' = used /\ req' = req
    BY <1>4 DEF AtomicCall, CreateBucket, SetBucketVersioning, PutLegalHold
  <2>2. ASSUME NEW b, NEW k, NEW v, NEW on, PutLegalHold(r, b, k, v, on)
        PROVE  Kept(objects')
    BY <1>0, <2>2 DEF PutLegalHold, Kept, SameRow, Row
  <2>3. Kept(objects')
    BY <1>4, <2>2, SameKept DEF AtomicCall, CreateBucket, SetBucketVersioning
  <2> QED BY <2>1, <2>3, QuietStep
<1> QED
    BY <1>1, <1>2, <1>3, <1>4

\* Dropped handlers, broken bodies and crashes keep the safety invariant.
LEMMA FaultSafe ==
    ASSUME SafeInv, TypeInv',
           \/ \E r \in Reqs : PutBodyError(r) \/ PutWithoutKey(r) \/ Abandon(r) \/ CrashInClosure(r)
           \/ Crash \/ Tick
    PROVE  SafeInv'
<1>0. TypeInv /\ objects \in [DOMAIN objects -> Row]
    BY DEF SafeInv, TypeInv, TypeOK
<1>1. ASSUME NEW r \in Reqs, PutBodyError(r) \/ PutWithoutKey(r) \/ Abandon(r) PROVE SafeInv'
    BY <1>0, <1>1, FinishPlain, SameKept, QuietStep DEF PutBodyError, PutWithoutKey, Abandon
<1>2. ASSUME NEW r \in Reqs, CrashInClosure(r) PROVE SafeInv'
  <2>1. Kept(objects')
    BY <1>0, <1>2, SupersededKept, DemotedKept DEF CrashInClosure
  <2> QED BY <1>2, <2>1, IdlePlain, QuietStep DEF CrashInClosure
<1>3. CASE Crash
    BY <1>3, IdlePlain, SameKept, QuietStep DEF Crash
<1>4. CASE Tick
    BY <1>4, SameKept, QuietStep DEF Tick
<1> QED
    BY <1>1, <1>2, <1>3, <1>4

\* Every step keeps the safety invariant.
LEMMA StepSafe ==
    ASSUME SafeInv, [Next]_vars
    PROVE  SafeInv'
<1>0. TypeInv'
    BY StepType DEF SafeInv
<1>1. ASSUME NEW r \in Reqs, Continue(r) PROVE SafeInv'
    BY <1>0, <1>1, WriteSafe, CopySafe, DeleteSafe, OtherSafe DEF Continue
<1>2. CASE UNCHANGED vars
  <2>1. UNCHANGED <<objects, blobs, used, req>>
    BY <1>2 DEF vars
  <2> QED BY <1>0, <2>1, SameKept, QuietStep
<1> QED
    BY <1>0, <1>1, <1>2, BeginSafe, OtherSafe, FaultSafe DEF Next

\* The safety invariant holds in every reachable state.
LEMMA SafeInvHolds == Spec => []SafeInv
<1>1. Init => SafeInv
    BY InitSafe
<1>2. SafeInv /\ [Next]_vars => SafeInv'
    BY StepSafe
<1> QED
    BY <1>1, <1>2, PTL DEF Spec

\* Whatever tasks overlap, are dropped or die, a row that can be found has
\* its blob on disk, sealed with the key that the row derives.
THEOREM Readable == Spec => []RowsReadable
<1>1. SafeInv => RowsReadable
    BY DEF SafeInv
<1> QED
    BY <1>1, SafeInvHolds, PTL

-----------------------------------------------------------------------------
(* What a step can do to the table, in four cases.                         *)

\* Rows go or stay as they are, and none becomes the latest.
Settled(f) == Kept(f) /\ \A i \in DOMAIN f : f[i].latest => objects[i].latest

Promotes(b, k) ==
    \E i \in Newest(RowsOf(b, k)) :
        objects' = With(objects, i, [objects[i] EXCEPT !.latest = TRUE])

Commits(r) ==
    /\ req[r].pc = "commit"
    /\ objects' = With(Superseded(req[r]), req[r].id, NewRow(req[r]))
    /\ AfterInsert
    /\ Finish(r)
    /\ UNCHANGED <<blobs, used>>

Marks(r, i) ==
    /\ i \in Ids \ used
    /\ objects' = With(Demoted(Target(req[r].bucket, req[r].key, None)), i, Marker(req[r], i))
    /\ AfterInsert

\* Demotion makes no row latest.
LEMMA DemotedSettled ==
    ASSUME NEW D, objects \in [DOMAIN objects -> Row]
    PROVE  Settled(Demoted(D))
<1>1. Kept(Demoted(D))
    BY DemotedKept
<1>2. \A i \in DOMAIN Demoted(D) : Demoted(D)[i].latest => objects[i].latest
    BY DEF Demoted, Row
<1> QED
    BY <1>1, <1>2 DEF Settled

\* Deletion makes no row latest.
LEMMA WithoutSettled ==
    ASSUME NEW D PROVE Settled(Without(objects, D))
<1>1. Kept(Without(objects, D))
    BY WithoutKept
<1> QED
    BY <1>1 DEF Settled, Without

\* What a commit does to the other rows makes none of them latest.
LEMMA SupersededSettled ==
    ASSUME NEW t, objects \in [DOMAIN objects -> Row]
    PROVE  Settled(Superseded(t))
<1> DEFINE S == RowsOf(t.bucket, t.key)
<1>1. Superseded(t) = Demoted(S) \/ Superseded(t) = Without(objects, S)
    BY Zenon DEF Superseded
<1>2. Settled(Demoted(S)) /\ Settled(Without(objects, S))
    BY DemotedSettled, WithoutSettled
<1> HIDE DEF S
<1> QED
    BY <1>1, <1>2, Zenon

\* A table left alone makes no row latest.
LEMMA SameSettled == UNCHANGED objects => Settled(objects')
    BY DEF Settled, Kept, SameRow

TableMoves ==
    \/ Settled(objects') /\ now' \in Nat /\ now <= now'
    \/ now' = now /\ \E b \in Buckets, k \in Keys : Promotes(b, k)
    \/ \E r \in Reqs : Commits(r)
    \/ \E r \in Reqs, i \in Ids : req[r].pc = "delMarker" /\ Marks(r, i)

\* Every step moves the table in one of the four ways of TableMoves.
LEMMA TableStep ==
    ASSUME TypeInv, [Next]_vars
    PROVE  TableMoves
<1>0. objects \in [DOMAIN objects -> Row] /\ now \in Nat
    BY DEF TypeInv, TypeOK
<1>s. Settled(objects') /\ UNCHANGED now => TableMoves
    BY <1>0 DEF TableMoves
<1>u. UNCHANGED <<objects, now>> => TableMoves
    BY <1>s, SameSettled
<1>1. ASSUME NEW r \in Reqs, Begin(r) PROVE TableMoves
  <2>1. ASSUME NEW b, DeleteBucketCheck(r, b) PROVE UNCHANGED <<objects, now>>
    BY <2>1 DEF DeleteBucketCheck
  <2>2. ASSUME NEW b, NEW k, NEW body, NEW alg, PutStart(r, b, k, body, alg)
        PROVE  UNCHANGED <<objects, now>>
    BY <2>2 DEF PutStart
  <2>3. ASSUME NEW sb, NEW sk, NEW b, NEW k, CopyHead(r, sb, sk, b, k)
        PROVE  UNCHANGED <<objects, now>>
    BY <2>3 DEF CopyHead
  <2>4. ASSUME NEW b, NEW k, NEW v, GetRow(r, b, k, v) PROVE UNCHANGED <<objects, now>>
    BY <2>4 DEF GetRow
  <2>5. ASSUME NEW b, NEW k, NEW v, DeleteStart(r, b, k, v) PROVE UNCHANGED <<objects, now>>
    BY <2>5 DEF DeleteStart
  <2>6. ASSUME NEW b, NEW k, NEW v, NEW m, NEW d, NEW p, RetentionCheck(r, b, k, v, m, d, p)
        PROVE  UNCHANGED <<objects, now>>
    BY <2>6 DEF RetentionCheck
  <2> QED BY <1>1, <1>u, <2>1, <2>2, <2>3, <2>4, <2>5, <2>6 DEF Begin
<1>2. ASSUME NEW r \in Reqs, AtomicCall(r) PROVE TableMoves
  <2>1. ASSUME NEW b, NEW k, NEW v, NEW on, PutLegalHold(r, b, k, v, on)
        PROVE  Settled(objects') /\ UNCHANGED now
    BY <1>0, <2>1 DEF PutLegalHold, Settled, Kept, SameRow, Row
  <2> QED
    BY <1>2, <1>s, <1>u, <2>1 DEF AtomicCall, CreateBucket, SetBucketVersioning
<1>3. ASSUME NEW r \in Reqs,
             \/ PutOpenTmp(r) \/ PutStreamBody(r) \/ PutSeal(r) \/ PutDropPlain(r)
             \/ PutRename(r) \/ GetBlob(r) \/ CopySource(r) \/ CopyDestination(r)
             \/ CopyBlob(r) \/ DeleteLockCheck(r) \/ DeleteSelect(r) \/ DeleteUnlink(r)
      PROVE  TableMoves
    BY <1>3, <1>u
    DEF PutOpenTmp, PutStreamBody, PutSeal, PutDropPlain, PutRename, GetBlob, CopySource,
        CopyDestination, CopyBlob, DeleteLockCheck, DeleteSelect, DeleteUnlink
<1>4. ASSUME NEW r \in Reqs, DeleteBucketCommit(r) \/ DeleteRows(r) PROVE TableMoves
  <2>1. Settled(objects') /\ UNCHANGED now
    BY <1>4, WithoutSettled DEF DeleteBucketCommit, DeleteRows
  <2> QED BY <1>s, <2>1
<1>5. ASSUME NEW r \in Reqs, RetentionUpdate(r) PROVE TableMoves
  <2>1. Kept(objects') /\ UNCHANGED now
    BY <1>0, <1>5, ZenonT(90) DEF RetentionUpdate, Kept, SameRow, Row
  <2>2. \A i \in DOMAIN objects' : objects'[i].latest = objects[i].latest
    BY <1>0, <1>5, ZenonT(90) DEF RetentionUpdate, Row
  <2> QED BY <1>s, <2>1, <2>2 DEF Settled
<1>6. ASSUME NEW r \in Reqs, Commit(r) PROVE TableMoves
  <2>1. Commits(r) \/ (objects' = Superseded(req[r]) /\ UNCHANGED now)
    BY <1>6, Zenon DEF Commit, Commits
  <2>2. Settled(Superseded(req[r]))
    BY <1>0, SupersededSettled
  <2>3. objects' = Superseded(req[r]) => Settled(objects')
    BY <2>2, Zenon
  <2> QED BY <1>s, <2>1, <2>3 DEF TableMoves
<1>7. ASSUME NEW r \in Reqs, DeletePromote(r) PROVE TableMoves
  <2>1. req[r].bucket \in Buckets /\ req[r].key \in Keys
    BY <1>7 DEF DeletePromote, TypeInv, Armed
  <2>2. UNCHANGED now /\ (Promotes(req[r].bucket, req[r].key) \/ UNCHANGED objects)
    BY <1>7 DEF DeletePromote, Promotes
  <2> QED BY <1>u, <2>1, <2>2 DEF TableMoves
<1>8. ASSUME NEW r \in Reqs, DeleteMarker(r) PROVE TableMoves
  <2> DEFINE Rest == Demoted(Target(req[r].bucket, req[r].key, None))
  <2>1. PICK i \in Ids \ used :
           Marks(r, i) \/ (objects' = Rest /\ UNCHANGED now)
    BY <1>8 DEF DeleteMarker, Marks
  <2>2. Settled(Rest)
    BY <1>0, DemotedSettled
  <2>3. req[r].pc = "delMarker"
    BY <1>8 DEF DeleteMarker
  <2> HIDE DEF Rest
  <2>4. objects' = Rest => Settled(objects')
    BY <2>2, Zenon
  <2> QED BY <1>s, <2>1, <2>3, <2>4 DEF TableMoves
<1>9. ASSUME NEW r \in Reqs, PutBodyError(r) \/ PutWithoutKey(r) \/ Abandon(r) PROVE TableMoves
    BY <1>9, <1>u DEF PutBodyError, PutWithoutKey, Abandon
<1>10. ASSUME NEW r \in Reqs, CrashInClosure(r) PROVE TableMoves
  <2>1. Settled(objects') /\ UNCHANGED now
    BY <1>0, <1>10, SupersededSettled, DemotedSettled DEF CrashInClosure
  <2> QED BY <1>s, <2>1
<1>11. CASE Crash
    BY <1>11, <1>u DEF Crash
<1>12. CASE Tick
    BY <1>0, <1>12, SameSettled DEF Tick, TableMoves
<1>13. CASE UNCHANGED vars
    BY <1>13, <1>u DEF vars
<1>14. ASSUME NEW r \in Reqs, Continue(r) PROVE TableMoves
    BY <1>3, <1>4, <1>5, <1>6, <1>7, <1>8, <1>14 DEF Continue
<1> QED
    BY <1>1, <1>2, <1>9, <1>10, <1>11, <1>12, <1>13, <1>14 DEF Next

-----------------------------------------------------------------------------
(* Version ids.                                                            *)

\* A row's version id is its own id, or "null".
OwnVersionIds == \A i \in DOMAIN objects : objects[i].vid \in {i, Null}

VidInv == SafeInv /\ OwnVersionIds /\ VersionIdsUnique

\* Moves that insert no row keep version ids unique.
LEMMA SettledVids ==
    ASSUME OwnVersionIds, VersionIdsUnique, NEW f, Kept(f)
    PROVE  /\ \A i \in DOMAIN f : f[i].vid \in {i, Null}
           /\ \A i, j \in DOMAIN f :
                f[i].bucket = f[j].bucket /\ f[i].key = f[j].key /\ f[i].vid = f[j].vid
                  => i = j
    BY DEF OwnVersionIds, VersionIdsUnique, Kept, SameRow

\* A row whose version id is new for its key may be inserted.
LEMMA InsertVid ==
    ASSUME OwnVersionIds, VersionIdsUnique, NEW f, Kept(f), NEW i, NEW row,
           objects' = With(f, i, row), row.vid \in {i, Null},
           \A j \in DOMAIN f : f[j].bucket = row.bucket /\ f[j].key = row.key
                                  => f[j].vid # row.vid
    PROVE  OwnVersionIds' /\ VersionIdsUnique'
<1>1. /\ DOMAIN objects' = DOMAIN f \cup {i} /\ objects'[i] = row
      /\ \A j \in DOMAIN f : j # i => objects'[j] = f[j]
    BY DEF With
<1>2. OwnVersionIds'
    BY <1>1, SettledVids DEF OwnVersionIds
<1>3. VersionIdsUnique'
    BY <1>1, SettledVids DEF VersionIdsUnique
<1> QED
    BY <1>2, <1>3

\* Every step keeps the invariant behind unique version ids.
LEMMA VidStep ==
    ASSUME VidInv, [Next]_vars
    PROVE  VidInv'
<1>0. /\ SafeInv' /\ TypeInv /\ TableMoves /\ OwnVersionIds /\ VersionIdsUnique
      /\ objects \in [DOMAIN objects -> Row]
    BY StepSafe, TableStep DEF VidInv, SafeInv, TypeInv, TypeOK
<1>1. CASE Settled(objects')
  <2>1. Kept(objects')
    BY <1>1 DEF Settled
  <2> QED BY <1>0, <2>1, SettledVids DEF VidInv, OwnVersionIds, VersionIdsUnique
<1>2. ASSUME NEW b, NEW k, Promotes(b, k) PROVE VidInv'
  <2>1. Kept(objects')
    BY <1>0, <1>2 DEF Promotes, Newest, RowsOf, With, Kept, SameRow, Row
  <2> QED BY <1>0, <2>1, SettledVids DEF VidInv, OwnVersionIds, VersionIdsUnique
<1>3. ASSUME NEW r \in Reqs, Commits(r) PROVE VidInv'
  <2> DEFINE t == req[r]
             f == Superseded(t)
             row == NewRow(t)
  <2>1. Kept(f) /\ objects' = With(f, t.id, row)
    BY <1>0, <1>3, SupersededKept DEF Commits
  <2>2. /\ row.vid = NewVid(t) /\ row.bucket = t.bucket /\ row.key = t.key
        /\ NewVid(t) \in {t.id, Null}
    BY DEF NewRow, NewVid
  <2>3. t.id \notin DOMAIN objects /\ t.id # Null
    BY <1>3, SentinelsDiffer
    DEF VidInv, SafeInv, PendingIdsApart, Commits, Writing, TypeInv, Armed
  <2>4. ASSUME NEW j \in DOMAIN f, f[j].bucket = t.bucket, f[j].key = t.key
        PROVE  f[j].vid # row.vid
    <3>1. j \in DOMAIN objects /\ f[j].vid = objects[j].vid
      BY <2>1 DEF Kept, SameRow
    <3>2. CASE t.versioned
      BY <1>0, <2>2, <2>3, <3>1, <3>2 DEF NewVid, OwnVersionIds
    <3>3. CASE ~t.versioned
      BY <2>1, <2>4, <3>1, <3>3 DEF Superseded, Without, RowsOf, Kept, SameRow
    <3> QED BY <3>2, <3>3
  <2> HIDE DEF t, f, row
  <2>5. OwnVersionIds' /\ VersionIdsUnique'
    BY <1>0, <2>1, <2>2, <2>4, InsertVid
  <2> QED BY <1>0, <2>5 DEF VidInv
<1>4. ASSUME NEW r \in Reqs, NEW i \in Ids, Marks(r, i) PROVE VidInv'
  <2> DEFINE t == req[r]
             f == Demoted(Target(t.bucket, t.key, None))
             row == Marker(t, i)
  <2>1. Kept(f) /\ objects' = With(f, i, row)
    BY <1>0, <1>4, DemotedKept DEF Marks
  <2>2. row.vid = i /\ i # Null /\ i \notin DOMAIN objects
    BY <1>4, SentinelsDiffer DEF Marker, Marks, VidInv, SafeInv, IdsHandedOut
  <2>3. \A j \in DOMAIN f : f[j].vid # row.vid
    BY <1>0, <2>1, <2>2 DEF Kept, SameRow, OwnVersionIds
  <2> HIDE DEF t, f, row
  <2>4. OwnVersionIds' /\ VersionIdsUnique'
    BY <1>0, <2>1, <2>2, <2>3, InsertVid
  <2> QED BY <1>0, <2>4 DEF VidInv
<1> QED
    BY <1>0, <1>1, <1>2, <1>3, <1>4 DEF TableMoves

\* Version ids are unique in every reachable state.
LEMMA VidInvHolds == Spec => []VidInv
<1>1. Init => VidInv
    BY InitSafe DEF Init, VidInv, OwnVersionIds, VersionIdsUnique
<1>2. VidInv /\ [Next]_vars => VidInv'
    BY VidStep
<1> QED
    BY <1>1, <1>2, PTL DEF Spec

\* (bucket, key, version_id) identifies a row although the schema declares no
\* such constraint and writers use a versioning status that may be stale.
THEOREM VersionIdsIdentify == Spec => []VersionIdsUnique
<1>1. VidInv => VersionIdsUnique
    BY DEF VidInv
<1> QED
    BY <1>1, VidInvHolds, PTL

-----------------------------------------------------------------------------
(* The latest version, when no two INSERTs fall into the same second.      *)

CreatedBefore == \A i \in DOMAIN objects : objects[i].created < now

CreatedApart ==
    \A i, j \in DOMAIN objects : i # j => objects[i].created # objects[j].created

LatestInv == TypeInv /\ CreatedBefore /\ CreatedApart /\ LatestIsNewest

\* Inserting the latest row after the others of its key were demoted.
LEMMA InsertLatest ==
    ASSUME CreatedBefore, CreatedApart, LatestIsNewest, TypeInv,
           NEW f, Settled(f), NEW i, NEW row, objects' = With(f, i, row),
           row.created = now, now' = now + 1,
           \A j \in DOMAIN f : f[j].bucket = row.bucket /\ f[j].key = row.key => ~f[j].latest
    PROVE  CreatedBefore' /\ CreatedApart' /\ LatestIsNewest'
<1>1. /\ DOMAIN objects' = DOMAIN f \cup {i} /\ objects'[i] = row
      /\ \A j \in DOMAIN f : j # i => objects'[j] = f[j]
    BY DEF With
<1>2. \A j \in DOMAIN f : /\ j \in DOMAIN objects
                          /\ f[j].bucket = objects[j].bucket /\ f[j].key = objects[j].key
                          /\ f[j].created = objects[j].created
                          /\ f[j].latest => objects[j].latest
    BY DEF Settled, Kept, SameRow
<1>3. now \in Nat /\ \A j \in DOMAIN objects : objects[j].created \in Nat
    BY DEF TypeInv, TypeOK, Row
<1>4. CreatedBefore'
    BY <1>1, <1>2, <1>3 DEF CreatedBefore
<1>5. CreatedApart'
    BY <1>1, <1>2, <1>3 DEF CreatedApart, CreatedBefore
<1>6. LatestIsNewest'
    BY <1>1, <1>2, <1>3 DEF LatestIsNewest, CreatedBefore
<1> QED
    BY <1>4, <1>5, <1>6

\* Every move of the table keeps the latest row unique and newest.
LEMMA LatestStep ==
    ASSUME DistinctSeconds, LatestInv, [Next]_vars
    PROVE  LatestInv'
<1>0. /\ TypeInv' /\ TypeInv /\ TableMoves
      /\ CreatedBefore /\ CreatedApart /\ LatestIsNewest
      /\ objects \in [DOMAIN objects -> Row] /\ now \in Nat
    BY StepType, TableStep DEF LatestInv, TypeInv, TypeOK
<1>c. \A i \in DOMAIN objects : objects[i].created \in Nat
    BY <1>0 DEF Row
<1>1. CASE Settled(objects') /\ now' \in Nat /\ now <= now'
  <2>1. \A j \in DOMAIN objects' :
            /\ j \in DOMAIN objects /\ objects'[j].created = objects[j].created
            /\ objects'[j].bucket = objects[j].bucket /\ objects'[j].key = objects[j].key
            /\ objects'[j].latest => objects[j].latest
    BY <1>1 DEF Settled, Kept, SameRow
  <2>2. CreatedBefore' /\ CreatedApart'
    BY <1>0, <1>1, <1>c, <2>1 DEF CreatedBefore, CreatedApart
  <2>3. LatestIsNewest'
    BY <1>0, <2>1 DEF LatestIsNewest
  <2> QED BY <1>0, <2>2, <2>3 DEF LatestInv
<1>2. ASSUME NEW b, NEW k, Promotes(b, k), now' = now PROVE LatestInv'
  <2>1. PICK i \in Newest(RowsOf(b, k)) :
           objects' = With(objects, i, [objects[i] EXCEPT !.latest = TRUE])
    BY <1>2 DEF Promotes
  <2>2. /\ i \in DOMAIN objects /\ objects[i].bucket = b /\ objects[i].key = k
        /\ \A j \in DOMAIN objects : objects[j].bucket = b /\ objects[j].key = k
                                        => objects[j].created <= objects[i].created
    BY DEF Newest, RowsOf
  <2>3. /\ DOMAIN objects' = DOMAIN objects
        /\ \A j \in DOMAIN objects :
              /\ objects'[j].created = objects[j].created
              /\ objects'[j].bucket = objects[j].bucket /\ objects'[j].key = objects[j].key
              /\ j # i => objects'[j].latest = objects[j].latest
    BY <1>0, <2>1, <2>2 DEF With, Row
  <2>4. CreatedBefore' /\ CreatedApart'
    BY <1>0, <1>2, <2>3 DEF CreatedBefore, CreatedApart
  <2>5. LatestIsNewest'
    <3>1. ASSUME NEW p \in DOMAIN objects, NEW q \in DOMAIN objects, p # q,
                 objects[p].bucket = objects[q].bucket, objects[p].key = objects[q].key,
                 objects'[p].latest
          PROVE  objects[q].created < objects[p].created
      <4>1. CASE p = i
        BY <1>0, <1>c, <2>2, <3>1, <4>1 DEF CreatedApart
      <4>2. CASE p # i
        BY <1>0, <2>3, <3>1, <4>2 DEF LatestIsNewest
      <4> QED BY <4>1, <4>2
    <3> QED BY <2>3, <3>1 DEF LatestIsNewest
  <2> QED BY <1>0, <2>4, <2>5 DEF LatestInv
<1>3. ASSUME NEW r \in Reqs, Commits(r) PROVE LatestInv'
  <2> DEFINE t == req[r]
             f == Superseded(t)
             row == NewRow(t)
  <2>1. Settled(f) /\ objects' = With(f, t.id, row) /\ now' = now + 1
    BY <1>0, <1>3, SupersededSettled DEF Commits, AfterInsert
  <2>2. row.created = now /\ row.bucket = t.bucket /\ row.key = t.key
    BY DEF NewRow
  <2>3. ASSUME NEW j \in DOMAIN f, f[j].bucket = t.bucket, f[j].key = t.key
        PROVE  ~f[j].latest
    <3>1. j \in RowsOf(t.bucket, t.key)
      BY <2>1, <2>3 DEF Settled, Kept, SameRow, RowsOf
    <3>2. t.versioned
      BY <2>3, <3>1 DEF Superseded, Without
    <3> QED BY <1>0, <3>1, <3>2 DEF Superseded, Demoted, RowsOf, Row
  <2> HIDE DEF t, f, row
  <2>4. CreatedBefore' /\ CreatedApart' /\ LatestIsNewest'
    BY <1>0, <2>1, <2>2, <2>3, InsertLatest
  <2> QED BY <1>0, <2>4 DEF LatestInv
<1>4. ASSUME NEW r \in Reqs, NEW i \in Ids, Marks(r, i) PROVE LatestInv'
  <2> DEFINE t == req[r]
             f == Demoted(Target(t.bucket, t.key, None))
             row == Marker(t, i)
  <2>1. Settled(f) /\ objects' = With(f, i, row) /\ now' = now + 1
    BY <1>0, <1>4, DemotedSettled DEF Marks, AfterInsert
  <2>2. row.created = now /\ row.bucket = t.bucket /\ row.key = t.key
    BY DEF Marker
  <2>3. ASSUME NEW j \in DOMAIN f, f[j].bucket = t.bucket, f[j].key = t.key
        PROVE  ~f[j].latest
    BY <1>0, <2>3 DEF Demoted, Target, RowsOf, Row
  <2> HIDE DEF t, f, row
  <2>4. CreatedBefore' /\ CreatedApart' /\ LatestIsNewest'
    BY <1>0, <2>1, <2>2, <2>3, InsertLatest
  <2> QED BY <1>0, <2>4 DEF LatestInv
<1> QED
    BY <1>0, <1>1, <1>2, <1>3, <1>4 DEF TableMoves

\* As long as no two rows are created in the same second, a key has at most
\* one latest row and it is the newest, through races, crashes and deletes.
THEOREM LatestIsUnique == DistinctSeconds => (Spec => []LatestIsNewest)
<1> SUFFICES ASSUME DistinctSeconds PROVE Spec => []LatestIsNewest
    OBVIOUS
<1>1. Init => LatestInv
    BY InitType DEF Init, LatestInv, CreatedBefore, CreatedApart, LatestIsNewest
<1>2. LatestInv /\ [Next]_vars => LatestInv'
    BY LatestStep
<1>3. LatestInv => LatestIsNewest
    BY DEF LatestInv
<1> QED
    BY <1>1, <1>2, <1>3, PTL DEF Spec

-----------------------------------------------------------------------------
(* LocalFsStore implements VersionStore by the mapping of LocalFsStore     *)
(* (Published, Unpublished).                                               *)

\* Blobs that a row names are neither rewritten nor unlinked.
LEMMA BlobStep ==
    ASSUME SafeInv, [Next]_vars
    PROVE  \A i \in DOMAIN objects : i \in DOMAIN blobs =>
              i \in DOMAIN blobs' /\ blobs'[i] = blobs[i]
<1> DEFINE Same == \A i \in DOMAIN objects : i \in DOMAIN blobs =>
                      i \in DOMAIN blobs' /\ blobs'[i] = blobs[i]
<1>u. UNCHANGED blobs => Same
    OBVIOUS
<1>w. ASSUME NEW r \in Reqs, NEW x, Writing(req[r]), blobs' = With(blobs, req[r].id, x)
      PROVE  Same
    BY <1>w DEF SafeInv, PendingIdsApart, With
<1>1. ASSUME NEW r \in Reqs, PutRename(r) PROVE Same
  <2>1. Writing(req[r]) /\ \E x : blobs' = With(blobs, req[r].id, x)
    BY <1>1 DEF PutRename, Writing
  <2> HIDE DEF Same
  <2> QED BY <1>w, <2>1
<1>2. ASSUME NEW r \in Reqs, CopyBlob(r) PROVE Same
  <2>1. \/ UNCHANGED blobs
        \/ Writing(req[r]) /\ \E x : blobs' = With(blobs, req[r].id, x)
    BY <1>2 DEF CopyBlob, Writing
  <2> HIDE DEF Same
  <2> QED BY <1>u, <1>w, <2>1
<1>3. ASSUME NEW r \in Reqs, DeleteUnlink(r) PROVE Same
  <2>1. \/ UNCHANGED blobs
        \/ \E i \in req[r].ids : blobs' = Without(blobs, {i})
    BY <1>3 DEF DeleteUnlink
  <2>2. req[r].ids \cap DOMAIN objects = {}
    BY <1>3 DEF DeleteUnlink, SafeInv, UnlinksAreSafe
  <2> QED BY <2>1, <2>2 DEF Without
<1> HIDE DEF Same
<1>4. ASSUME NEW r \in Reqs, Continue(r) PROVE Same
  <2>1. CASE \/ DeleteBucketCommit(r) \/ PutOpenTmp(r) \/ PutStreamBody(r) \/ PutSeal(r)
             \/ PutDropPlain(r) \/ Commit(r) \/ GetBlob(r) \/ CopySource(r)
             \/ CopyDestination(r)
    BY <1>u, <2>1
    DEF DeleteBucketCommit, PutOpenTmp, PutStreamBody, PutSeal, PutDropPlain, Commit,
        GetBlob, CopySource, CopyDestination
  <2>2. CASE \/ DeleteLockCheck(r) \/ DeleteSelect(r) \/ DeleteRows(r)
             \/ DeletePromote(r) \/ DeleteMarker(r) \/ RetentionUpdate(r)
    BY <1>u, <2>2
    DEF DeleteLockCheck, DeleteSelect, DeleteRows, DeletePromote, DeleteMarker,
        RetentionUpdate
  <2> QED BY <1>1, <1>2, <1>3, <1>4, <2>1, <2>2 DEF Continue
<1>5. ASSUME NEW r \in Reqs, AtomicCall(r) PROVE Same
    BY <1>5, <1>u DEF AtomicCall, CreateBucket, SetBucketVersioning, PutLegalHold
<1>6. ASSUME NEW r \in Reqs, Begin(r) PROVE Same
  <2>1. ASSUME NEW b, DeleteBucketCheck(r, b) PROVE UNCHANGED blobs
    BY <2>1 DEF DeleteBucketCheck
  <2>2. ASSUME NEW b, NEW k, NEW body, NEW alg, PutStart(r, b, k, body, alg)
        PROVE  UNCHANGED blobs
    BY <2>2 DEF PutStart
  <2>3. ASSUME NEW sb, NEW sk, NEW b, NEW k, CopyHead(r, sb, sk, b, k)
        PROVE  UNCHANGED blobs
    BY <2>3 DEF CopyHead
  <2>4. ASSUME NEW b, NEW k, NEW v, GetRow(r, b, k, v) PROVE UNCHANGED blobs
    BY <2>4 DEF GetRow
  <2>5. ASSUME NEW b, NEW k, NEW v, DeleteStart(r, b, k, v) PROVE UNCHANGED blobs
    BY <2>5 DEF DeleteStart
  <2>6. ASSUME NEW b, NEW k, NEW v, NEW m, NEW d, NEW p, RetentionCheck(r, b, k, v, m, d, p)
        PROVE  UNCHANGED blobs
    BY <2>6 DEF RetentionCheck
  <2> QED BY <1>6, <1>u, <2>1, <2>2, <2>3, <2>4, <2>5, <2>6 DEF Begin
<1>7. ASSUME NEW r \in Reqs, PutBodyError(r) \/ PutWithoutKey(r) \/ Abandon(r) \/ CrashInClosure(r) PROVE Same
    BY <1>7, <1>u DEF PutBodyError, PutWithoutKey, Abandon, CrashInClosure
<1>8. ASSUME Crash \/ Tick \/ UNCHANGED vars PROVE Same
    BY <1>8, <1>u DEF Crash, Tick, vars
<1>9. Same
    BY <1>4, <1>5, <1>6, <1>7, <1>8 DEF Next
<1> QED
    BY <1>9 DEF Same

\* A write keeps its id, and a new write takes one never handed out.
KeepsId(q) ==
    Writing(req'[q]) => \/ Writing(req[q]) /\ req'[q].id = req[q].id
                        \/ req'[q].id \in Ids \ used

IdsMove == used \subseteq used' /\ \A q \in Reqs : KeepsId(q)

\* Every step hands out fresh ids, passes them on or gives them up.
LEMMA IdStep ==
    ASSUME TypeInv, [Next]_vars
    PROVE  IdsMove
<1>0. req \in [Reqs -> Task]
    BY DEF TypeInv, TypeOK
<1>t. ASSUME NEW r \in Reqs, NEW t, req' = [req EXCEPT ![r] = t], used \subseteq used',
             Writing(t) => \/ Writing(req[r]) /\ t.id = req[r].id
                           \/ t.id \in Ids \ used
      PROVE  IdsMove
    BY <1>0, <1>t DEF IdsMove, KeepsId, Writing
<1>i. ~Writing(Idle)
    BY DEF Writing, Idle
<1>f. ASSUME NEW r \in Reqs, Finish(r), used \subseteq used' PROVE IdsMove
  <2>1. req' = [req EXCEPT ![r] = Idle]
    BY <1>f DEF Finish
  <2> QED BY <1>f, <1>i, <1>t, <2>1
<1>g. ASSUME NEW r \in Reqs, NEW pc, Goto(r, pc), used' = used,
             pc \in {"putStream", "putPlace", "putSealed", "putRename", "commit"}
                => Writing(req[r]),
             pc \notin {"putOpen", "copyBlob"}
      PROVE  IdsMove
  <2> DEFINE t == [req[r] EXCEPT !.pc = pc]
  <2>1. req' = [req EXCEPT ![r] = t]
    BY <1>g DEF Goto
  <2>2. Writing(t) => Writing(req[r]) /\ t.id = req[r].id
    BY <1>0, <1>g DEF Writing, Task
  <2> HIDE DEF t
  <2> QED BY <1>g, <1>t, <2>1, <2>2
<1>1. ASSUME NEW r \in Reqs, Begin(r) PROVE IdsMove
  <2>n. ASSUME NEW t, ~Writing(t), req' = [req EXCEPT ![r] = t], used' = used PROVE IdsMove
    BY <1>t, <2>n
  <2>1. ASSUME NEW b, DeleteBucketCheck(r, b) PROVE IdsMove
    <3> DEFINE t == [Idle EXCEPT !.pc = "dropBucket", !.bucket = b]
    <3>1. ~Writing(t)
      BY DEF Writing, Idle
    <3>2. req' = [req EXCEPT ![r] = t] /\ used' = used
      BY <2>1 DEF DeleteBucketCheck
    <3> HIDE DEF t
    <3> QED BY <2>n, <3>1, <3>2
  <2>2. ASSUME NEW b, NEW k, NEW body, NEW alg, PutStart(r, b, k, body, alg) PROVE IdsMove
    <3>1. PICK i \in Ids \ used :
            /\ used' = used \cup {i}
            /\ req' = [req EXCEPT ![r] =
                     [Idle EXCEPT !.pc = "putOpen", !.bucket = b, !.key = k,
                                  !.body = body, !.etag = body, !.alg = alg,
                                  !.versioned = (buckets[b] = "Enabled"), !.id = i]]
      BY <2>2 DEF PutStart
    <3> DEFINE t == [Idle EXCEPT !.pc = "putOpen", !.bucket = b, !.key = k,
                                 !.body = body, !.etag = body, !.alg = alg,
                                 !.versioned = (buckets[b] = "Enabled"), !.id = i]
    <3>2. t.id \in Ids \ used
      BY DEF Idle
    <3>3. req' = [req EXCEPT ![r] = t] /\ used \subseteq used'
      BY <3>1
    <3> HIDE DEF t
    <3> QED BY <1>t, <3>2, <3>3
  <2>3. ASSUME NEW sb, NEW sk, NEW b, NEW k, CopyHead(r, sb, sk, b, k) PROVE IdsMove
    <3>1. PICK i \in DOMAIN objects :
            req' = [req EXCEPT ![r] =
                       [Idle EXCEPT !.pc = "copySrc", !.bucket = b, !.key = k,
                                    !.sbucket = sb, !.skey = sk,
                                    !.vid = objects[i].vid, !.etag = objects[i].etag]]
      BY <2>3 DEF CopyHead, Target, RowsOf
    <3> DEFINE t == [Idle EXCEPT !.pc = "copySrc", !.bucket = b, !.key = k,
                                 !.sbucket = sb, !.skey = sk,
                                 !.vid = objects[i].vid, !.etag = objects[i].etag]
    <3>2. ~Writing(t)
      BY DEF Writing, Idle
    <3>3. req' = [req EXCEPT ![r] = t] /\ used' = used
      BY <2>3, <3>1 DEF CopyHead
    <3> HIDE DEF t
    <3> QED BY <2>n, <3>2, <3>3
  <2>4. ASSUME NEW b, NEW k, NEW v, GetRow(r, b, k, v) PROVE IdsMove
    <3>1. PICK i \in DOMAIN objects :
            req' = [req EXCEPT ![r] =
                       [Idle EXCEPT !.pc = "getBlob", !.bucket = b, !.key = k,
                                    !.vid = objects[i].vid, !.id = i,
                                    !.etag = objects[i].etag, !.alg = objects[i].alg]]
      BY <2>4 DEF GetRow, Target, RowsOf
    <3> DEFINE t == [Idle EXCEPT !.pc = "getBlob", !.bucket = b, !.key = k,
                                 !.vid = objects[i].vid, !.id = i,
                                 !.etag = objects[i].etag, !.alg = objects[i].alg]
    <3>2. ~Writing(t)
      BY DEF Writing, Idle
    <3>3. req' = [req EXCEPT ![r] = t] /\ used' = used
      BY <2>4, <3>1 DEF GetRow
    <3> HIDE DEF t
    <3> QED BY <2>n, <3>2, <3>3
  <2>5. ASSUME NEW b, NEW k, NEW v, DeleteStart(r, b, k, v) PROVE IdsMove
    <3> DEFINE t == [Idle EXCEPT !.pc = "delLock", !.bucket = b, !.key = k, !.vid = v,
                        !.versioned = (buckets[b] \in {"Enabled", "Suspended"})]
    <3>1. ~Writing(t)
      BY DEF Writing, Idle
    <3>2. req' = [req EXCEPT ![r] = t] /\ used' = used
      BY <2>5 DEF DeleteStart
    <3> HIDE DEF t
    <3> QED BY <2>n, <3>1, <3>2
  <2>6. ASSUME NEW b, NEW k, NEW v, NEW m, NEW d, NEW p, RetentionCheck(r, b, k, v, m, d, p)
        PROVE  IdsMove
    <3> DEFINE t == [Idle EXCEPT !.pc = "retain", !.bucket = b, !.key = k, !.vid = v,
                                 !.mode = m, !.until = d]
    <3>1. ~Writing(t)
      BY DEF Writing, Idle
    <3>2. req' = [req EXCEPT ![r] = t] /\ used' = used
      BY <2>6 DEF RetentionCheck
    <3> HIDE DEF t
    <3> QED BY <2>n, <3>1, <3>2
  <2> QED BY <1>1, <2>1, <2>2, <2>3, <2>4, <2>5, <2>6 DEF Begin
<1>2. ASSUME NEW r \in Reqs,
             \/ PutOpenTmp(r) \/ PutStreamBody(r) \/ PutSeal(r) \/ PutDropPlain(r)
             \/ PutRename(r) \/ DeleteRows(r)
      PROVE  IdsMove
    BY <1>2, <1>g
    DEF PutOpenTmp, PutStreamBody, PutSeal, PutDropPlain, PutRename, DeleteRows, Writing
<1>3. ASSUME NEW r \in Reqs,
             \/ Commit(r) \/ DeleteBucketCommit(r) \/ DeletePromote(r) \/ DeleteMarker(r)
             \/ RetentionUpdate(r) \/ PutBodyError(r) \/ PutWithoutKey(r) \/ Abandon(r)
      PROVE  IdsMove
  <2>1. Finish(r) /\ used \subseteq used'
    BY <1>3 DEF Commit, DeleteBucketCommit, DeletePromote, DeleteMarker, RetentionUpdate,
                PutBodyError, PutWithoutKey, Abandon
  <2> QED BY <1>f, <2>1
<1>4. ASSUME NEW r \in Reqs, GetBlob(r) PROVE IdsMove
  <2> DEFINE t == [req[r] EXCEPT !.pc = "got", !.body = blobs[req[r].id].body]
  <2>1. Finish(r) \/ req' = [req EXCEPT ![r] = t]
    BY <1>4 DEF GetBlob
  <2>2. used \subseteq used'
    BY <1>4 DEF GetBlob
  <2>3. ~Writing(t)
    BY <1>0 DEF Task, Writing
  <2> HIDE DEF t
  <2> QED BY <1>f, <1>t, <2>1, <2>2, <2>3
<1>5. ASSUME NEW r \in Reqs, CopySource(r) PROVE IdsMove
  <2>1. used \subseteq used'
    BY <1>5 DEF CopySource
  <2>2. ASSUME NEW i, req' = [req EXCEPT ![r].pc = "copyDst", ![r].src = i,
                                         ![r].alg = objects[i].alg]
        PROVE  IdsMove
    <3> DEFINE t == [req[r] EXCEPT !.pc = "copyDst", !.src = i, !.alg = objects[i].alg]
    <3>1. ~Writing(t)
      BY <1>0 DEF Task, Writing
    <3>2. req' = [req EXCEPT ![r] = t]
      BY <2>2
    <3> HIDE DEF t
    <3> QED BY <1>t, <2>1, <3>1, <3>2
  <2> QED BY <1>5, <1>f, <2>1, <2>2 DEF CopySource
<1>6. ASSUME NEW r \in Reqs, CopyDestination(r) PROVE IdsMove
  <2>1. used \subseteq used'
    BY <1>6 DEF CopyDestination
  <2>2. ASSUME NEW i \in Ids \ used,
               req' = [req EXCEPT ![r].pc = "copyBlob", ![r].id = i,
                                  ![r].versioned = (buckets[req[r].bucket] = "Enabled")]
        PROVE  IdsMove
    <3> DEFINE t == [req[r] EXCEPT !.pc = "copyBlob", !.id = i,
                                   !.versioned = (buckets[req[r].bucket] = "Enabled")]
    <3>1. t.id = i
      BY <1>0 DEF Task
    <3>2. req' = [req EXCEPT ![r] = t]
      BY <2>2
    <3> HIDE DEF t
    <3> QED BY <1>t, <2>1, <3>1, <3>2
  <2> QED BY <1>6, <1>f, <2>1, <2>2 DEF CopyDestination
<1>7. ASSUME NEW r \in Reqs, CopyBlob(r) PROVE IdsMove
  <2>1. used' = used /\ req[r].pc = "copyBlob" /\ (Goto(r, "commit") \/ Finish(r))
    BY <1>7 DEF CopyBlob
  <2> QED BY <1>f, <1>g, <2>1 DEF Writing
<1>8. ASSUME NEW r \in Reqs, DeleteLockCheck(r) PROVE IdsMove
  <2>1. used' = used /\ (Goto(r, AfterLockCheck(req[r])) \/ Finish(r))
    BY <1>8 DEF DeleteLockCheck
  <2>2. AfterLockCheck(req[r]) \in {"delMarker", "delSelect"}
    BY DEF AfterLockCheck
  <2> QED BY <1>f, <1>g, <2>1, <2>2
<1>9. ASSUME NEW r \in Reqs, DeleteSelect(r) PROVE IdsMove
  <2> DEFINE t == [req[r] EXCEPT !.pc = "delRows", !.ids = Victims(req[r])]
  <2>1. req' = [req EXCEPT ![r] = t] /\ used \subseteq used'
    BY <1>9 DEF DeleteSelect
  <2>2. ~Writing(t)
    BY <1>0 DEF Task, Writing
  <2> HIDE DEF t
  <2> QED BY <1>t, <2>1, <2>2
<1>10. ASSUME NEW r \in Reqs, DeleteUnlink(r) PROVE IdsMove
  <2>1. used' = used
    BY <1>10 DEF DeleteUnlink
  <2>2. ASSUME NEW i, req' = [req EXCEPT ![r].ids = @ \ {i}] PROVE IdsMove
    <3> DEFINE t == [req[r] EXCEPT !.ids = @ \ {i}]
    <3>1. Writing(t) => Writing(req[r]) /\ t.id = req[r].id
      BY <1>0 DEF Task, Writing
    <3>2. req' = [req EXCEPT ![r] = t]
      BY <2>2
    <3> HIDE DEF t
    <3> QED BY <1>t, <2>1, <3>1, <3>2
  <2> QED BY <1>10, <1>f, <1>g, <2>1, <2>2 DEF DeleteUnlink
<1>11. ASSUME NEW r \in Reqs, AtomicCall(r) PROVE IdsMove
  <2>1. used' = used /\ req' = req
    BY <1>11 DEF AtomicCall, CreateBucket, SetBucketVersioning, PutLegalHold
  <2> QED BY <2>1 DEF IdsMove, KeepsId
<1>12. ASSUME Crash \/ \E r \in Reqs : CrashInClosure(r) PROVE IdsMove
  <2>1. used' = used /\ req' = [r \in Reqs |-> Idle]
    BY <1>12 DEF Crash, CrashInClosure
  <2> QED BY <1>i, <2>1 DEF IdsMove, KeepsId
<1>13. ASSUME Tick \/ UNCHANGED vars PROVE IdsMove
    BY <1>13 DEF Tick, vars, IdsMove, KeepsId
<1>14. ASSUME NEW r \in Reqs, Continue(r) PROVE IdsMove
    BY <1>2, <1>3, <1>4, <1>5, <1>6, <1>7, <1>8, <1>9, <1>10, <1>14 DEF Continue
<1> QED
    BY <1>1, <1>3, <1>11, <1>12, <1>13, <1>14 DEF Next

-----------------------------------------------------------------------------
\* An id is unpublished while it is unused or its write is pending.
LEMMA UnpublishedIs ==
    \A x : x \in Unpublished <=> \/ x \in Ids \ used
                                 \/ \E r \in Reqs : Writing(req[r]) /\ x = req[r].id
    BY DEF Unpublished, Writing

\* The same fact about the next state.
LEMMA UnpublishedIsPrimed ==
    \A x : x \in Unpublished' <=> \/ x \in Ids \ used'
                                  \/ \E r \in Reqs : Writing(req'[r]) /\ x = req'[r].id
    BY DEF Unpublished, Writing

\* No step returns an id to the unpublished ones.
LEMMA FreeShrinks ==
    ASSUME IdsMove PROVE Unpublished' \subseteq Unpublished
    BY UnpublishedIs, UnpublishedIsPrimed DEF IdsMove, KeepsId

\* Rows go and no body changes: versions are retired.
LEMMA RetireStep ==
    ASSUME SafeInv, IdsMove, NEW f, Kept(f),
           \A j \in DOMAIN objects' :
              ~objects'[j].marker => j \in DOMAIN f /\ f[j].marker = objects'[j].marker,
           \A j \in DOMAIN f : j \in DOMAIN objects' /\ objects'[j].marker = f[j].marker,
           \A i \in DOMAIN objects : i \in DOMAIN blobs =>
              i \in DOMAIN blobs' /\ blobs'[i] = blobs[i]
    PROVE  Abstract!Retire
<1> DEFINE live  == {j \in DOMAIN objects : ~objects[j].marker}
           live2 == {j \in DOMAIN objects' : ~objects'[j].marker}
<1>1. live2 \subseteq live
    BY DEF Kept, SameRow
<1>2. \A j \in live2 : blobs'[j] = blobs[j]
    BY <1>1 DEF SafeInv, RowsReadable
<1>3. Published = [j \in live |-> blobs[j].body] /\ Published' = [j \in live2 |-> blobs'[j].body]
    BY DEF Published
<1> HIDE DEF live, live2
<1>4. DOMAIN Published = live
    BY <1>3
<1>5. live \ (live \ live2) = live2
    BY <1>1
<1>6. Published' = [j \in live \ (live \ live2) |-> Published[j]]
    BY <1>1, <1>2, <1>3, <1>5
<1>7. live \ live2 \in SUBSET DOMAIN Published
    BY <1>4
<1>8. Unpublished' \subseteq Unpublished
    BY FreeShrinks
<1> QED
    BY <1>4, <1>6, <1>7, <1>8 DEF Abstract!Retire

\* A commit publishes the body of the blob that was placed for it.
LEMMA PublishStep ==
    ASSUME SafeInv, NEW r \in Reqs, Commits(r)
    PROVE  Abstract!Publish
<1> DEFINE t == req[r]
           f == Superseded(t)
           live  == {j \in DOMAIN objects : ~objects[j].marker}
           rest == {j \in DOMAIN f : ~f[j].marker}
           body == blobs[t.id].body
<1>1. /\ t.pc = "commit" /\ objects' = With(f, t.id, NewRow(t)) /\ blobs' = blobs
      /\ used' = used /\ req' = [req EXCEPT ![r] = Idle] /\ Kept(f)
      /\ req \in [Reqs -> Task]
    BY SupersededKept DEF Commits, Finish, SafeInv, TypeInv, TypeOK
<1>2. /\ t.id \in used /\ t.id \notin DOMAIN objects /\ t.id \in DOMAIN blobs
      /\ Writing(t) /\ body \in Bodies
    BY <1>1 DEF SafeInv, IdsHandedOut, PendingIdsApart, CommitsArePlaced, Writing,
                TypeInv, TypeOK, Blob
<1>3. ~NewRow(t).marker
    BY DEF NewRow
<1>4. /\ DOMAIN objects' = DOMAIN f \cup {t.id} /\ objects'[t.id] = NewRow(t)
      /\ \A j \in DOMAIN f : j # t.id => objects'[j] = f[j]
    BY <1>1 DEF With
<1>5. {j \in DOMAIN objects' : ~objects'[j].marker} = rest \cup {t.id}
  <2> HIDE DEF t, f
  <2> QED BY <1>1, <1>2, <1>3, <1>4 DEF Kept
<1>6. rest \subseteq live
    BY <1>1 DEF Kept, SameRow
<1>7. /\ Published = [j \in live |-> blobs[j].body]
      /\ Published' = [j \in rest \cup {t.id} |-> blobs[j].body]
    BY <1>1, <1>5 DEF Published
<1>8. Unpublished' = Unpublished \ {t.id}
  <2>1. req'[r] = Idle /\ ~Writing(req'[r]) /\ \A q \in Reqs : q # r => req'[q] = req[q]
    BY <1>1 DEF Writing, Idle
  <2>2. \A q \in Reqs : q # r /\ Writing(req[q]) => req[q].id # t.id
    BY <1>2 DEF SafeInv, PendingIdsApart
  <2> HIDE DEF t
  <2>3. \A x : x \in Unpublished' <=> x \in Unpublished /\ x # t.id
    <3>1. t = req[r]
      BY DEF t
    <3> QED
      BY <1>1, <1>2, <2>1, <2>2, <3>1, UnpublishedIs, UnpublishedIsPrimed
  <2> QED BY <2>3
<1>9. t.id \in Unpublished
    BY <1>2, UnpublishedIs
<1> HIDE DEF t, f, live, rest, body
<1>10. DOMAIN Published = live
    BY <1>7
<1>11. (live \ (live \ rest)) \cup {t.id} = rest \cup {t.id}
    BY <1>6
<1>12. Published' = [j \in (DOMAIN Published \ (live \ rest)) \cup {t.id} |->
                        IF j = t.id THEN body ELSE Published[j]]
  <2>1. \A j \in rest : Published[j] = blobs[j].body
    BY <1>6, <1>7
  <2>2. body = blobs[t.id].body
    BY DEF body
  <2> QED BY <1>7, <1>10, <1>11, <2>1, <2>2
<1>13. live \ rest \in SUBSET DOMAIN Published
    BY <1>10
<1> QED
    BY <1>2, <1>8, <1>9, <1>12, <1>13 DEF Abstract!Publish

\* Every step of the store is a step of VersionStore or a stutter.
LEMMA RefinementStep ==
    ASSUME SafeInv, [Next]_vars
    PROVE  Abstract!Next
<1>0. /\ IdsMove /\ TableMoves /\ objects \in [DOMAIN objects -> Row]
      /\ \A i \in DOMAIN objects : i \in DOMAIN blobs =>
            i \in DOMAIN blobs' /\ blobs'[i] = blobs[i]
    BY IdStep, TableStep, BlobStep DEF SafeInv, TypeInv, TypeOK
<1>1. ASSUME Kept(objects') PROVE Abstract!Retire
    BY <1>0, <1>1, RetireStep
<1>2. ASSUME NEW b, NEW k, Promotes(b, k) PROVE Kept(objects')
    BY <1>0, <1>2 DEF Promotes, Newest, RowsOf, With, Kept, SameRow, Row
<1>3. ASSUME NEW r \in Reqs, NEW i \in Ids, Marks(r, i) PROVE Abstract!Retire
  <2> DEFINE f == Demoted(Target(req[r].bucket, req[r].key, None))
  <2>1. Kept(f) /\ objects' = With(f, i, Marker(req[r], i)) /\ i \notin DOMAIN objects
    BY <1>0, <1>3, DemotedKept DEF Marks, SafeInv, IdsHandedOut
  <2>2. Marker(req[r], i).marker
    BY DEF Marker
  <2>3. DOMAIN f \subseteq DOMAIN objects
    BY <2>1 DEF Kept
  <2> HIDE DEF f
  <2>4. /\ DOMAIN objects' = DOMAIN f \cup {i} /\ objects'[i].marker
        /\ \A j \in DOMAIN f : objects'[j] = f[j]
    BY <2>1, <2>2, <2>3 DEF With
  <2> QED BY <1>0, <2>1, <2>4, RetireStep
<1> QED
    BY <1>0, <1>1, <1>2, <1>3, PublishStep DEF TableMoves, Settled, Abstract!Next

\* The table and the blob directory behave, under every interleaving and
\* fault, like a store that publishes each id once with a fixed body.
THEOREM Refinement == Spec => ImplementsVersionStore
<1>1. Init => Abstract!Init
  <2> SUFFICES ASSUME Init PROVE Abstract!Init
    OBVIOUS
  <2>1. DOMAIN Published = {}
    BY DEF Init, Published
  <2>2. \A r \in Reqs : ~Writing(req[r])
    BY DEF Init, Writing, Idle
  <2>3. Unpublished = Ids
    BY <2>2, UnpublishedIs DEF Init
  <2> QED BY <2>1, <2>3 DEF Abstract!Init
<1>2. SafeInv /\ [Next]_vars => [Abstract!Next]_<<Published, Unpublished>>
    BY RefinementStep
<1> QED
    BY <1>1, <1>2, SafeInvHolds, PTL DEF Spec, ImplementsVersionStore, Abstract!Spec

-----------------------------------------------------------------------------
(* Etags.  A put carries its body's etag from the start; copy_object reads *)
(* the etag and the source in two queries, so it is left out here.  What   *)
(* get_object has read stays true because the blob of an id is written     *)
(* once, before the row that leads a reader to it.                         *)

Putting(t) == t.pc \in {"putOpen", "putStream", "putPlace", "putSealed", "putRename"}

\* What a task knows of a body agrees with the etag it has read.
Honest(t) ==
    /\ Putting(t) => t.body = t.etag
    /\ t.pc = "commit" => blobs[t.id].body = t.etag
    /\ t.pc = "getBlob" => t.id \in used /\ (t.id \in DOMAIN blobs => blobs[t.id].body = t.etag)
    /\ t.pc = "got" => t.body = t.etag
    /\ t.pc \notin {"copySrc", "copyDst", "copyBlob"}

\* No write under way will place a blob that a reader is about to open.
ReadersApart ==
    \A r, q \in Reqs : req[r].pc = "getBlob" /\ Writing(req[q]) => req[q].id # req[r].id

RowsHonest ==
    \A i \in DOMAIN objects : ~objects[i].marker => blobs[i].body = objects[i].etag

EtagInv == SafeInv /\ ReadersApart /\ RowsHonest /\ \A r \in Reqs : Honest(req[r])

\* What a step can do to a task, as far as bodies and etags go.
EtagMove(q) ==
    \/ req'[q] = req[q]
    \/ ~Writing(req'[q]) /\ req'[q].pc \notin {"getBlob", "got", "copySrc", "copyDst"}
    \/ Putting(req'[q]) /\ req'[q].body = req'[q].etag
    \/ /\ Putting(req[q]) /\ req'[q].pc = "commit"
       /\ req'[q].id = req[q].id /\ req'[q].etag = req[q].etag
       /\ \E x : x.body = req[q].body /\ blobs' = With(blobs, req[q].id, x)
    \/ /\ req'[q].pc = "getBlob" /\ req'[q].id \in DOMAIN objects
       /\ ~objects[req'[q].id].marker /\ req'[q].etag = objects[req'[q].id].etag
       /\ UNCHANGED blobs
    \/ /\ req[q].pc = "getBlob" /\ req'[q].pc = "got" /\ req[q].id \in DOMAIN blobs
       /\ req'[q].body = blobs[req[q].id].body /\ req'[q].etag = req[q].etag

\* Blobs go, or one is placed for a put.
BlobMove ==
    \/ \A i \in DOMAIN blobs' : i \in DOMAIN blobs /\ blobs'[i] = blobs[i]
    \/ \E r \in Reqs : /\ Putting(req[r]) /\ req'[r] # req[r]
                       /\ \E x : blobs' = With(blobs, req[r].id, x)

\* Tasks and blobs that move this way stay honest.
LEMMA HonestStep ==
    ASSUME EtagInv, SafeInv', IdsMove, BlobMove, NEW q \in Reqs, EtagMove(q)
    PROVE  Honest(req[q])'
<1> DEFINE t == req'[q]
<1>0. Honest(req[q]) /\ used \subseteq used'
    BY DEF EtagInv, IdsMove
<1>1. CASE t = req[q]
  <2>1. ASSUME t.pc \in {"commit", "getBlob"}, t.id \in DOMAIN blobs'
        PROVE  t.id \in DOMAIN blobs /\ blobs'[t.id] = blobs[t.id]
    <3>1. CASE \A i \in DOMAIN blobs' : i \in DOMAIN blobs /\ blobs'[i] = blobs[i]
      BY <2>1, <3>1
    <3>2. ASSUME NEW r \in Reqs, Putting(req[r]), req'[r] # req[r],
                 NEW x, blobs' = With(blobs, req[r].id, x)
          PROVE  t.id \in DOMAIN blobs /\ blobs'[t.id] = blobs[t.id]
      <4>1. r # q /\ Writing(req[r])
        BY <1>1, <3>2 DEF Putting, Writing
      <4>2. t.id # req[r].id
        BY <1>1, <2>1, <4>1 DEF EtagInv, SafeInv, PendingIdsApart, ReadersApart, Writing
      <4> QED BY <2>1, <3>2, <4>2 DEF With
    <3> QED BY <3>1, <3>2 DEF BlobMove
  <2>2. t.pc = "commit" => t.id \in DOMAIN blobs'
    BY DEF SafeInv, CommitsArePlaced
  <2> HIDE DEF t
  <2> QED BY <1>0, <1>1, <2>1, <2>2 DEF Honest, Putting, t
<1>2. CASE ~Writing(t) /\ t.pc \notin {"getBlob", "got", "copySrc", "copyDst"}
    BY <1>2 DEF Honest, Writing, Putting
<1>3. CASE Putting(t) /\ t.body = t.etag
    BY <1>3 DEF Honest, Putting
<1>4. ASSUME Putting(req[q]), t.pc = "commit", t.id = req[q].id, t.etag = req[q].etag,
             NEW x, x.body = req[q].body, blobs' = With(blobs, req[q].id, x)
      PROVE  Honest(req[q])'
  <2>1. blobs'[t.id].body = t.etag
    BY <1>0, <1>4 DEF Honest, With
  <2> QED BY <1>4, <2>1 DEF Honest, Putting
<1>5. CASE /\ t.pc = "getBlob" /\ t.id \in DOMAIN objects
           /\ ~objects[t.id].marker /\ t.etag = objects[t.id].etag
           /\ UNCHANGED blobs
    BY <1>0, <1>5 DEF Honest, Putting, EtagInv, RowsHonest, SafeInv, IdsHandedOut
<1>6. CASE /\ req[q].pc = "getBlob" /\ t.pc = "got" /\ req[q].id \in DOMAIN blobs
           /\ t.body = blobs[req[q].id].body /\ t.etag = req[q].etag
    BY <1>0, <1>6 DEF Honest, Putting
<1> QED
    BY <1>1, <1>2, <1>3, <1>4, <1>5, <1>6 DEF EtagMove

\* The rows stay honest, and readers stay apart from writers.
LEMMA EtagKept ==
    ASSUME EtagInv, SafeInv', IdsMove, BlobMove, TableMoves, \A q \in Reqs : EtagMove(q),
           \A i \in DOMAIN objects : i \in DOMAIN blobs =>
              i \in DOMAIN blobs' /\ blobs'[i] = blobs[i]
    PROVE  EtagInv'
<1>1. \A q \in Reqs : Honest(req[q])'
    BY HonestStep
<1>2. ReadersApart'
  <2> SUFFICES ASSUME NEW r \in Reqs, NEW q \in Reqs, req'[r].pc = "getBlob", Writing(req'[q])
               PROVE  req'[q].id # req'[r].id
    BY DEF ReadersApart, Writing
  <2>1. \/ Writing(req[q]) /\ req'[q].id = req[q].id
        \/ req'[q].id \notin used
    BY DEF IdsMove, KeepsId
  <2>2. \/ req'[r] = req[r]
        \/ req'[r].id \in DOMAIN objects
    BY DEF EtagMove, Writing, Putting
  <2>3. DOMAIN objects \subseteq used /\ (req[r].pc = "getBlob" => req[r].id \in used)
    BY DEF EtagInv, Honest, SafeInv, IdsHandedOut
  <2>4. Writing(req[q]) => req[q].id \notin DOMAIN objects
    BY DEF EtagInv, SafeInv, PendingIdsApart
  <2> QED BY <2>1, <2>2, <2>3, <2>4 DEF EtagInv, ReadersApart
<1>3. RowsHonest'
  <2>0. /\ objects \in [DOMAIN objects -> Row]
        /\ \A i \in DOMAIN objects : ~objects[i].marker =>
              blobs'[i] = blobs[i] /\ blobs[i].body = objects[i].etag
    BY DEF EtagInv, RowsHonest, SafeInv, RowsReadable, TypeInv, TypeOK
  <2>1. ASSUME NEW f, Kept(f), NEW i \in DOMAIN f, ~f[i].marker
        PROVE  blobs'[i].body = f[i].etag
    BY <2>0, <2>1 DEF Kept, SameRow
  <2>2. CASE Kept(objects')
    BY <2>1, <2>2 DEF RowsHonest
  <2>3. ASSUME NEW b, NEW k, Promotes(b, k) PROVE Kept(objects')
    BY <2>0, <2>3 DEF Promotes, Newest, RowsOf, With, Kept, SameRow, Row
  <2>4. ASSUME NEW r \in Reqs, Commits(r) PROVE RowsHonest'
    <3> DEFINE f == Superseded(req[r])
    <3>1. /\ Kept(f) /\ objects' = With(f, req[r].id, NewRow(req[r])) /\ blobs' = blobs
          /\ req[r].pc = "commit"
      BY <2>0, <2>4, SupersededKept DEF Commits
    <3>2. blobs[req[r].id].body = NewRow(req[r]).etag
      BY <3>1 DEF EtagInv, Honest, NewRow
    <3> HIDE DEF f
    <3>3. \A i \in DOMAIN objects' : i = req[r].id \/ (i \in DOMAIN f /\ objects'[i] = f[i])
      BY <3>1 DEF With
    <3>4. objects'[req[r].id] = NewRow(req[r])
      BY <3>1 DEF With
    <3> QED BY <2>1, <3>1, <3>2, <3>3, <3>4 DEF RowsHonest
  <2>5. ASSUME NEW r \in Reqs, NEW j \in Ids, Marks(r, j) PROVE RowsHonest'
    <3> DEFINE f == Demoted(Target(req[r].bucket, req[r].key, None))
    <3>1. Kept(f) /\ objects' = With(f, j, Marker(req[r], j))
      BY <2>0, <2>5, DemotedKept DEF Marks
    <3>2. Marker(req[r], j).marker
      BY DEF Marker
    <3> HIDE DEF f
    <3>3. \A i \in DOMAIN objects' :
             objects'[i] = Marker(req[r], j) \/ (i \in DOMAIN f /\ objects'[i] = f[i])
      BY <3>1 DEF With
    <3> QED BY <2>1, <3>1, <3>2, <3>3 DEF RowsHonest
  <2> QED BY <2>2, <2>3, <2>4, <2>5 DEF TableMoves, Settled
<1> QED
    BY <1>1, <1>2, <1>3 DEF EtagInv

\* Without copies every step moves tasks and blobs this way.
LEMMA EtagMoves ==
    ASSUME "copy" \notin Ops, EtagInv, [Next]_vars
    PROVE  BlobMove /\ \A q \in Reqs : EtagMove(q)
<1> DEFINE Goal == BlobMove /\ \A q \in Reqs : EtagMove(q)
<1>0. req \in [Reqs -> Task] /\ \A r \in Reqs : Honest(req[r])
    BY DEF EtagInv, SafeInv, TypeInv, TypeOK
<1>b. UNCHANGED blobs => BlobMove
    BY DEF BlobMove
<1>r. ASSUME NEW r \in Reqs, NEW t, req' = [req EXCEPT ![r] = t]
      PROVE  req'[r] = t /\ \A q \in Reqs : q # r => EtagMove(q)
    BY <1>0, <1>r DEF EtagMove
<1>s. ASSUME NEW r \in Reqs, NEW t, req' = [req EXCEPT ![r] = t], UNCHANGED blobs,
             ~Writing(t), t.pc \notin {"getBlob", "got", "copySrc", "copyDst"}
      PROVE  Goal
    BY <1>b, <1>r, <1>s DEF EtagMove
<1>i. ~Writing(Idle) /\ Idle.pc = "idle"
    BY DEF Writing, Idle
<1>f. ASSUME NEW r \in Reqs, Finish(r), UNCHANGED blobs PROVE Goal
    BY <1>f, <1>i, <1>s DEF Finish
<1>g. ASSUME NEW r \in Reqs, NEW pc, Goto(r, pc), UNCHANGED blobs,
             pc \in {"putStream", "putPlace", "putSealed", "putRename"} => Putting(req[r]),
             pc \notin {"putOpen", "commit", "copySrc", "copyDst", "copyBlob", "getBlob", "got"}
      PROVE  Goal
  <2> DEFINE t == [req[r] EXCEPT !.pc = pc]
  <2>1. req' = [req EXCEPT ![r] = t] /\ t.pc = pc /\ t.body = req[r].body /\ t.etag = req[r].etag
    BY <1>0, <1>g DEF Goto, Task
  <2> HIDE DEF t
  <2>2. CASE pc \in {"putStream", "putPlace", "putSealed", "putRename"}
    BY <1>0, <1>b, <1>g, <1>r, <2>1, <2>2 DEF EtagMove, Honest, Putting
  <2>3. CASE pc \notin {"putStream", "putPlace", "putSealed", "putRename"}
    BY <1>g, <1>s, <2>1, <2>3 DEF Writing
  <2> QED BY <2>2, <2>3
<1>1. ASSUME NEW r \in Reqs, Begin(r) PROVE Goal
  <2>1. ASSUME NEW b, DeleteBucketCheck(r, b) PROVE Goal
    <3> DEFINE t == [Idle EXCEPT !.pc = "dropBucket", !.bucket = b]
    <3>1. req' = [req EXCEPT ![r] = t] /\ UNCHANGED blobs /\ t.pc = "dropBucket"
      BY <2>1 DEF DeleteBucketCheck, Idle
    <3> HIDE DEF t
    <3> QED BY <1>s, <3>1 DEF Writing
  <2>2. ASSUME NEW b, NEW k, NEW body, NEW alg, PutStart(r, b, k, body, alg) PROVE Goal
    <3>1. PICK i \in Ids \ used :
            req' = [req EXCEPT ![r] =
                     [Idle EXCEPT !.pc = "putOpen", !.bucket = b, !.key = k,
                                  !.body = body, !.etag = body, !.alg = alg,
                                  !.versioned = (buckets[b] = "Enabled"), !.id = i]]
      BY <2>2 DEF PutStart
    <3> DEFINE t == [Idle EXCEPT !.pc = "putOpen", !.bucket = b, !.key = k,
                                 !.body = body, !.etag = body, !.alg = alg,
                                 !.versioned = (buckets[b] = "Enabled"), !.id = i]
    <3>2. t.pc = "putOpen" /\ t.body = t.etag
      BY DEF Idle
    <3>3. UNCHANGED blobs /\ req' = [req EXCEPT ![r] = t]
      BY <2>2, <3>1 DEF PutStart
    <3> HIDE DEF t
    <3> QED BY <1>b, <1>r, <3>2, <3>3 DEF EtagMove, Putting
  <2>3. ASSUME NEW b, NEW k, NEW v, GetRow(r, b, k, v) PROVE Goal
    <3>1. PICK i \in Target(b, k, v) :
            /\ ~objects[i].marker
            /\ req' = [req EXCEPT ![r] =
                         [Idle EXCEPT !.pc = "getBlob", !.bucket = b, !.key = k,
                                      !.vid = objects[i].vid, !.id = i,
                                      !.etag = objects[i].etag, !.alg = objects[i].alg]]
      BY <2>3 DEF GetRow
    <3> DEFINE t == [Idle EXCEPT !.pc = "getBlob", !.bucket = b, !.key = k,
                                 !.vid = objects[i].vid, !.id = i,
                                 !.etag = objects[i].etag, !.alg = objects[i].alg]
    <3>2. t.pc = "getBlob" /\ t.id = i /\ t.etag = objects[i].etag
      BY DEF Idle
    <3>3. UNCHANGED blobs /\ req' = [req EXCEPT ![r] = t] /\ i \in DOMAIN objects
      BY <2>3, <3>1 DEF GetRow, Target, RowsOf
    <3> HIDE DEF t
    <3> QED BY <1>b, <1>r, <3>1, <3>2, <3>3 DEF EtagMove
  <2>4. ASSUME NEW b, NEW k, NEW v, DeleteStart(r, b, k, v) PROVE Goal
    <3> DEFINE t == [Idle EXCEPT !.pc = "delLock", !.bucket = b, !.key = k, !.vid = v,
                                 !.versioned = (buckets[b] \in {"Enabled", "Suspended"})]
    <3>1. req' = [req EXCEPT ![r] = t] /\ UNCHANGED blobs
      BY <2>4 DEF DeleteStart
    <3>2. t.pc = "delLock"
      BY DEF Idle
    <3> HIDE DEF t
    <3> QED BY <1>s, <3>1, <3>2 DEF Writing
  <2>5. ASSUME NEW b, NEW k, NEW v, NEW m, NEW d, NEW p, RetentionCheck(r, b, k, v, m, d, p)
        PROVE  Goal
    <3> DEFINE t == [Idle EXCEPT !.pc = "retain", !.bucket = b, !.key = k, !.vid = v,
                                 !.mode = m, !.until = d]
    <3>1. req' = [req EXCEPT ![r] = t] /\ UNCHANGED blobs
      BY <2>5 DEF RetentionCheck
    <3>2. t.pc = "retain"
      BY DEF Idle
    <3> HIDE DEF t
    <3> QED BY <1>s, <3>1, <3>2 DEF Writing
  <2>6. ASSUME NEW sb, NEW sk, NEW b, NEW k, CopyHead(r, sb, sk, b, k) PROVE Goal
    BY <2>6 DEF CopyHead
  <2> HIDE DEF Goal
  <2> QED BY <1>1, <2>1, <2>2, <2>3, <2>4, <2>5, <2>6 DEF Begin
<1>2. ASSUME UNCHANGED <<req, blobs>> PROVE Goal
    BY <1>2, <1>b DEF EtagMove
<1>3. ASSUME NEW r \in Reqs, PutRename(r) PROVE Goal
  <2> DEFINE t == [req[r] EXCEPT !.pc = "commit"]
             x == [body |-> req[r].body,
                   seal |-> SealingKey(req[r].alg, req[r].bucket, req[r].key, NewVid(req[r]))]
  <2>1. req' = [req EXCEPT ![r] = t] /\ blobs' = With(blobs, req[r].id, x) /\ Putting(req[r])
    BY <1>3 DEF PutRename, Goto, Putting
  <2>2. t.pc = "commit" /\ t.id = req[r].id /\ t.etag = req[r].etag /\ x.body = req[r].body
    BY <1>0 DEF Task
  <2> HIDE DEF t, x
  <2>3. req'[r] = t /\ \A q \in Reqs : q # r => EtagMove(q)
    BY <1>r, <2>1
  <2>4. EtagMove(r)
    BY <2>1, <2>2, <2>3 DEF EtagMove
  <2>5. BlobMove
    BY <2>1, <2>2, <2>3 DEF BlobMove, Putting
  <2> QED BY <2>3, <2>4, <2>5
<1>4. ASSUME NEW r \in Reqs, GetBlob(r) PROVE Goal
  <2>1. UNCHANGED blobs /\ req[r].pc = "getBlob"
    BY <1>4 DEF GetBlob
  <2>2. CASE Finish(r)
    BY <1>f, <2>1, <2>2
  <2>3. CASE /\ req[r].id \in DOMAIN blobs
             /\ req' = [req EXCEPT ![r].pc = "got", ![r].body = blobs[req[r].id].body]
    <3> DEFINE t == [req[r] EXCEPT !.pc = "got", !.body = blobs[req[r].id].body]
    <3>1. req' = [req EXCEPT ![r] = t]
      BY <1>0, <2>3
    <3>2. t.pc = "got" /\ t.body = blobs[req[r].id].body /\ t.etag = req[r].etag
      BY <1>0 DEF Task
    <3> HIDE DEF t
    <3>3. req'[r] = t /\ \A q \in Reqs : q # r => EtagMove(q)
      BY <1>r, <3>1
    <3>4. EtagMove(r)
      BY <2>1, <2>3, <3>2, <3>3 DEF EtagMove
    <3> QED BY <1>b, <2>1, <3>3, <3>4
  <2> HIDE DEF Goal
  <2> QED BY <1>4, <2>2, <2>3 DEF GetBlob
<1>5. ASSUME NEW r \in Reqs, DeleteUnlink(r) PROVE Goal
  <2>1. ASSUME NEW i \in req[r].ids, blobs' = Without(blobs, {i}),
               req' = [req EXCEPT ![r].ids = @ \ {i}]
        PROVE  Goal
    <3> DEFINE t == [req[r] EXCEPT !.ids = @ \ {i}]
    <3>1. req' = [req EXCEPT ![r] = t] /\ t.pc = "delUnlink"
      BY <1>0, <1>5, <2>1 DEF DeleteUnlink, Task
    <3> HIDE DEF t
    <3>2. BlobMove
      BY <2>1 DEF BlobMove, Without
    <3> QED BY <1>r, <3>1, <3>2 DEF EtagMove, Writing
  <2> HIDE DEF Goal
  <2> QED BY <1>5, <1>f, <1>g, <2>1 DEF DeleteUnlink
<1>6. ASSUME NEW r \in Reqs, DeleteSelect(r) PROVE Goal
  <2> DEFINE t == [req[r] EXCEPT !.pc = "delRows", !.ids = Victims(req[r])]
  <2>1. req' = [req EXCEPT ![r] = t] /\ t.pc = "delRows" /\ UNCHANGED blobs
    BY <1>0, <1>6 DEF DeleteSelect, Task
  <2> HIDE DEF t
  <2> QED BY <1>s, <2>1 DEF Writing
<1>7. ASSUME NEW r \in Reqs, CopySource(r) \/ CopyDestination(r) \/ CopyBlob(r) PROVE Goal
    BY <1>0, <1>7 DEF CopySource, CopyDestination, CopyBlob, Honest
<1> HIDE DEF Goal
<1>8. ASSUME NEW r \in Reqs, Continue(r) PROVE Goal
  <2>1. CASE PutOpenTmp(r) \/ PutStreamBody(r) \/ PutSeal(r) \/ PutDropPlain(r)
    BY <1>g, <2>1 DEF PutOpenTmp, PutStreamBody, PutSeal, PutDropPlain, Putting
  <2>2. CASE \/ DeleteBucketCommit(r) \/ Commit(r) \/ DeletePromote(r) \/ DeleteMarker(r)
             \/ RetentionUpdate(r)
    BY <1>f, <2>2 DEF DeleteBucketCommit, Commit, DeletePromote, DeleteMarker, RetentionUpdate
  <2>3. CASE DeleteLockCheck(r)
    <3>1. AfterLockCheck(req[r]) \in {"delMarker", "delSelect"}
      BY DEF AfterLockCheck
    <3> QED BY <1>f, <1>g, <2>3, <3>1 DEF DeleteLockCheck
  <2>4. CASE DeleteRows(r)
    BY <1>g, <2>4 DEF DeleteRows
  <2> QED BY <1>3, <1>4, <1>5, <1>6, <1>7, <1>8, <2>1, <2>2, <2>3, <2>4 DEF Continue
<1>9. ASSUME NEW r \in Reqs, AtomicCall(r) PROVE Goal
    BY <1>2, <1>9 DEF AtomicCall, CreateBucket, SetBucketVersioning, PutLegalHold
<1>10. ASSUME NEW r \in Reqs, PutBodyError(r) \/ PutWithoutKey(r) \/ Abandon(r) PROVE Goal
    BY <1>10, <1>f DEF PutBodyError, PutWithoutKey, Abandon
<1>11. ASSUME NEW r \in Reqs, CrashInClosure(r) \/ Crash PROVE Goal
  <2>1. UNCHANGED blobs /\ \A q \in Reqs : req'[q] = Idle
    BY <1>11 DEF CrashInClosure, Crash
  <2> QED BY <1>b, <1>i, <2>1 DEF EtagMove, Goal
<1>12. ASSUME Tick \/ UNCHANGED vars PROVE Goal
    BY <1>12, <1>2 DEF Tick, vars
<1>13. Goal
    BY <1>1, <1>8, <1>9, <1>10, <1>11, <1>12 DEF Next, Crash
<1> QED
    BY <1>13 DEF Goal

\* Without copies, a row's etag is the MD5 of its blob, and get_object sends
\* the body whose etag it announced although it reads the row in one closure
\* and opens the blob later.
THEOREM EtagsMatch == "copy" \notin Ops => (Spec => []EtagMatchesBody)
<1> SUFFICES ASSUME "copy" \notin Ops PROVE Spec => []EtagMatchesBody
    OBVIOUS
<1>1. Init => EtagInv
  <2> SUFFICES ASSUME Init PROVE EtagInv
    OBVIOUS
  <2>1. \A r \in Reqs : req[r].pc = "idle"
    BY DEF Init, Idle
  <2> QED BY <2>1, InitSafe DEF Init, EtagInv, ReadersApart, RowsHonest, Honest, Putting
<1>2. EtagInv /\ [Next]_vars => EtagInv'
  <2> SUFFICES ASSUME EtagInv, [Next]_vars PROVE EtagInv'
    OBVIOUS
  <2>1. SafeInv /\ TypeInv
    BY DEF EtagInv, SafeInv
  <2> QED BY <2>1, EtagMoves, StepSafe, IdStep, TableStep, BlobStep, EtagKept
<1>3. EtagInv => EtagMatchesBody
    BY DEF EtagInv, RowsHonest, Honest, SafeInv, RowsReadable, EtagMatchesBody
<1> QED
    BY <1>1, <1>2, <1>3, PTL DEF Spec

-----------------------------------------------------------------------------
(* Temporary files, whatever fails.  TmpNeverStored alone is not inductive: *)
(* a put must know, when it places its blob, that it has no other file.    *)

\* The files a put may have at each point.
Owns(pc, kind) ==
    \/ kind = "upload" /\ pc \in {"putStream", "putPlace", "putSealed"}
    \/ kind = "sealed" /\ pc \in {"putSealed", "putRename"}

\* File f is of no blob, no row and no write that has none of its kind.
Litter(f) ==
    /\ f[1] \in used
    /\ f[1] \notin DOMAIN blobs \cup DOMAIN objects
    /\ \A r \in Reqs : Writing(req[r]) /\ req[r].id = f[1] => Owns(req[r].pc, f[2])

SealsAreAsked ==
    \A r \in Reqs : req[r].pc \in {"putSealed", "putRename"} => req[r].alg # "none"

\* A put has not placed its blob before it commits.
PutsAreUnplaced == \A r \in Reqs : Putting(req[r]) => req[r].id \notin DOMAIN blobs

TmpInv == SafeInv /\ SealsAreAsked /\ PutsAreUnplaced /\ \A f \in tmp : Litter(f)

\* Rows that appear are a committing write's or a new marker's, ...
RowsMove ==
    \A i \in DOMAIN objects' :
        i \in DOMAIN objects \/ i \notin used \/ \E r \in Reqs : req[r].pc = "commit" /\ req[r].id = i

\* ... and blobs, while the files are left alone, a copy's.
CopiesMove ==
    \A i \in DOMAIN blobs' :
        i \in DOMAIN blobs \/ \E r \in Reqs : req[r].pc = "copyBlob" /\ req[r].id = i

\* A task in such a step: it is not writing, its id is new, or it has the
\* files it had.
Keeps(q) ==
    \/ req'[q] = req[q]
    \/ ~Writing(req'[q])
    \/ /\ req'[q].pc \notin {"putSealed", "putRename"}
       /\ \/ req'[q].id \notin used
          \/ /\ Writing(req[q]) /\ req'[q].id = req[q].id
             /\ Putting(req'[q]) => Putting(req[q])
             /\ \A kind : Owns(req[q].pc, kind) => Owns(req'[q].pc, kind)

\* No step brings a row of a put that has a file.
LEMMA RowsStep ==
    ASSUME TypeInv, [Next]_vars
    PROVE  RowsMove
<1>0. objects \in [DOMAIN objects -> Row]
    BY DEF TypeInv, TypeOK
<1>1. CASE Settled(objects')
    BY <1>1 DEF Settled, Kept, RowsMove
<1>2. ASSUME NEW b, NEW k, Promotes(b, k) PROVE RowsMove
    BY <1>2 DEF Promotes, Newest, RowsOf, With, RowsMove
<1>3. ASSUME NEW r \in Reqs, Commits(r) PROVE RowsMove
  <2>1. DOMAIN Superseded(req[r]) \subseteq DOMAIN objects
    BY <1>0, SupersededKept DEF Kept
  <2>2. DOMAIN objects' = DOMAIN Superseded(req[r]) \cup {req[r].id} /\ req[r].pc = "commit"
    BY <1>3 DEF Commits, With
  <2> QED BY <2>1, <2>2 DEF RowsMove
<1>4. ASSUME NEW r, NEW i, Marks(r, i) PROVE RowsMove
    BY <1>4 DEF Marks, With, Demoted, RowsMove
<1> QED
    BY <1>1, <1>2, <1>3, <1>4, TableStep DEF TableMoves

\* A step of this kind leaves every file as it was: of no blob and no row.
LEMMA TmpQuiet ==
    ASSUME TmpInv, SafeInv', UNCHANGED tmp, used \subseteq used',
           RowsMove, CopiesMove,
           \A q \in Reqs : Keeps(q)
    PROVE  TmpInv'
<1>1. ASSUME NEW f \in tmp PROVE Litter(f)'
  <2>1. Litter(f)
    BY DEF TmpInv
  <2>2. ASSUME NEW r \in Reqs, req[r].pc \in {"copyBlob", "commit"} PROVE req[r].id # f[1]
    BY <2>1, <2>2 DEF Litter, Writing, Owns
  <2>3. f[1] \notin DOMAIN blobs' \cup DOMAIN objects'
    BY <2>1, <2>2 DEF Litter, RowsMove, CopiesMove
  <2>4. ASSUME NEW q \in Reqs, Writing(req'[q]), req'[q].id = f[1] PROVE Owns(req'[q].pc, f[2])
    <3>1. CASE req'[q] = req[q]
      BY <2>1, <2>4, <3>1 DEF Litter
    <3>2. CASE req'[q].id \notin used
      BY <2>1, <2>4, <3>2 DEF Litter
    <3>3. CASE /\ Writing(req[q]) /\ req'[q].id = req[q].id
               /\ \A kind : Owns(req[q].pc, kind) => Owns(req'[q].pc, kind)
      BY <2>1, <2>4, <3>3 DEF Litter
    <3> QED BY <2>4, <3>1, <3>2, <3>3 DEF Keeps
  <2>5. f[1] \in used'
    BY <2>1 DEF Litter
  <2> QED BY <2>3, <2>4, <2>5 DEF Litter, Writing, Owns
<1>2. ASSUME NEW q \in Reqs, req'[q].pc \in {"putSealed", "putRename"} PROVE req'[q].alg # "none"
    BY <1>2 DEF TmpInv, SealsAreAsked, Keeps, Writing
<1>3. ASSUME NEW q \in Reqs, Putting(req'[q]) PROVE req'[q].id \notin DOMAIN blobs'
  <2>0. Writing(req'[q])
    BY <1>3 DEF Putting, Writing
  <2>1. ASSUME NEW r \in Reqs, req[r].pc = "copyBlob" PROVE Writing(req[r]) /\ req[r].id \in used
    BY <2>1 DEF Writing, TmpInv, SafeInv, IdsHandedOut
  <2>2. CASE req'[q].id \notin used
    BY <2>1, <2>2 DEF CopiesMove, TmpInv, SafeInv, IdsHandedOut
  <2>3. CASE Writing(req[q]) /\ req'[q].id = req[q].id /\ Putting(req[q])
    <3>1. ASSUME NEW r \in Reqs, req[r].pc = "copyBlob" PROVE req[r].id # req[q].id
      <4>1. r # q
        BY <2>3, <3>1 DEF Putting
      <4> QED BY <2>1, <2>3, <3>1, <4>1 DEF TmpInv, SafeInv, PendingIdsApart
    <3> QED BY <2>3, <3>1 DEF CopiesMove, TmpInv, PutsAreUnplaced
  <2> QED BY <1>3, <2>0, <2>2, <2>3 DEF Keeps
<1> QED
    BY <1>1, <1>2, <1>3 DEF TmpInv, SealsAreAsked, PutsAreUnplaced, Putting

\* A put goes on with the files that belong to where it gets; if it places its
\* blob, it has none.
LEMMA TmpPut ==
    ASSUME TmpInv, SafeInv', NEW r \in Reqs, Putting(req[r]), NEW pc, Goto(r, pc),
           UNCHANGED <<objects, used>>,
           pc \in {"putSealed", "putRename"} => req[r].alg # "none",
           DOMAIN blobs' = DOMAIN blobs \/ (DOMAIN blobs' = DOMAIN blobs \cup {req[r].id} /\ pc = "commit"),
           \A f \in tmp' : \/ f[1] = req[r].id /\ Owns(pc, f[2])
                           \/ f \in tmp /\ f[1] # req[r].id
    PROVE  TmpInv'
<1>0. Writing(req[r]) /\ req[r].id \in used /\ req[r].id \notin DOMAIN blobs \cup DOMAIN objects
    BY DEF Putting, Writing, TmpInv, PutsAreUnplaced, SafeInv, IdsHandedOut, PendingIdsApart
<1>1. /\ req'[r].pc = pc /\ req'[r].id = req[r].id /\ req'[r].alg = req[r].alg
      /\ \A q \in Reqs : q # r => req'[q] = req[q]
    BY DEF TmpInv, SafeInv, TypeInv, TypeOK, Goto, Task
<1>2. ASSUME NEW f \in tmp' PROVE Litter(f)'
  <2>1. f[1] \in used'
    BY <1>0, <1>2 DEF TmpInv, Litter
  <2>2. f[1] \notin DOMAIN blobs' \cup DOMAIN objects'
    BY <1>0, <1>2 DEF TmpInv, Litter, Owns
  <2>3. ASSUME NEW q \in Reqs, Writing(req'[q]), req'[q].id = f[1] PROVE Owns(req'[q].pc, f[2])
    <3>1. CASE q = r
      BY <1>1, <1>2, <2>3, <3>1
    <3>2. CASE q # r
      <4>1. req'[q] = req[q]
        BY <1>1, <3>2
      <4>2. f[1] # req[r].id
        BY <1>0, <2>3, <3>2, <4>1 DEF TmpInv, SafeInv, PendingIdsApart
      <4> QED BY <1>2, <2>3, <4>1, <4>2 DEF TmpInv, Litter
    <3> QED BY <3>1, <3>2
  <2> QED BY <2>1, <2>2, <2>3 DEF Litter, Writing, Owns
<1>3. SealsAreAsked'
    BY <1>1 DEF TmpInv, SealsAreAsked
<1>4. ASSUME NEW q \in Reqs, Putting(req'[q]) PROVE req'[q].id \notin DOMAIN blobs'
  <2>1. CASE q = r
    BY <1>0, <1>1, <1>4, <2>1 DEF Putting
  <2>2. CASE q # r
    <3>1. Putting(req[q]) /\ req'[q] = req[q] /\ Writing(req[q])
      BY <1>1, <1>4, <2>2 DEF Putting, Writing
    <3>2. req[q].id # req[r].id
      BY <1>0, <2>2, <3>1 DEF TmpInv, SafeInv, PendingIdsApart
    <3> QED BY <3>1, <3>2 DEF TmpInv, PutsAreUnplaced
  <2> QED BY <2>1, <2>2
<1> QED
    BY <1>2, <1>3, <1>4 DEF TmpInv, PutsAreUnplaced, Putting

\* Every step, a fault included, keeps the files apart from blobs and rows.
LEMMA TmpStep ==
    ASSUME TmpInv, [Next]_vars
    PROVE  TmpInv'
<1>0. /\ TypeInv /\ SafeInv' /\ RowsMove /\ IdsMove /\ req \in [Reqs -> Task]
      /\ tmp \subseteq Ids \X {"upload", "sealed"}
  <2>1. SafeInv /\ TypeInv
    BY DEF TmpInv, SafeInv
  <2> QED BY <2>1, StepSafe, RowsStep, IdStep DEF TypeInv, TypeOK
<1>u. used \subseteq used' /\ \A q \in Reqs : KeepsId(q)
    BY <1>0 DEF IdsMove
<1>b. ASSUME UNCHANGED blobs PROVE CopiesMove
    BY <1>b DEF CopiesMove
<1>q. ASSUME UNCHANGED <<blobs, tmp, req>> PROVE TmpInv'
    BY <1>0, <1>b, <1>q, <1>u, TmpQuiet DEF Keeps
<1>n. ASSUME UNCHANGED <<blobs, tmp>>, \A q \in Reqs : req'[q] = Idle PROVE TmpInv'
    BY <1>0, <1>b, <1>n, <1>u, TmpQuiet DEF Keeps, Writing, Idle
<1>t. ASSUME NEW r \in Reqs, NEW t, req' = [req EXCEPT ![r] = t], UNCHANGED tmp, CopiesMove,
             ~Writing(t) \/ (t.pc = "putOpen" /\ t.id \notin used)
                         \/ (t.pc = "copyBlob" /\ t.id \notin used)
      PROVE  TmpInv'
  <2>1. ASSUME NEW q \in Reqs PROVE Keeps(q)
    BY <1>0, <1>t DEF Keeps, Writing
  <2> QED BY <1>0, <1>t, <1>u, <2>1, TmpQuiet
<1>f. ASSUME NEW r \in Reqs, Finish(r), UNCHANGED tmp, CopiesMove PROVE TmpInv'
    BY <1>f, <1>t DEF Finish, Writing, Idle
<1>g. ASSUME NEW r \in Reqs, NEW pc, Goto(r, pc), UNCHANGED tmp, CopiesMove,
             pc \in {"delMarker", "delSelect", "delUnlink", "delPromote"}
      PROVE  TmpInv'
  <2> DEFINE t == [req[r] EXCEPT !.pc = pc]
  <2>1. req' = [req EXCEPT ![r] = t] /\ ~Writing(t)
    BY <1>0, <1>g DEF Goto, Task, Writing
  <2> HIDE DEF t
  <2> QED BY <1>g, <1>t, <2>1
<1>1. ASSUME NEW r \in Reqs, Begin(r) PROVE TmpInv'
  <2>1. ASSUME NEW b, DeleteBucketCheck(r, b)
        PROVE  TmpInv'
    <3> DEFINE t == [Idle EXCEPT !.pc = "dropBucket", !.bucket = b]
    <3>1. req' = [req EXCEPT ![r] = t] /\ UNCHANGED tmp /\ CopiesMove
      BY <2>1, <1>b DEF DeleteBucketCheck
    <3>2. ~Writing(t)
      BY DEF Idle, Writing
    <3> HIDE DEF t
    <3> QED BY <1>t, <3>1, <3>2
  <2>4. ASSUME NEW b, NEW k, NEW v, DeleteStart(r, b, k, v)
        PROVE  TmpInv'
    <3> DEFINE t == [Idle EXCEPT !.pc = "delLock", !.bucket = b, !.key = k, !.vid = v,
                                 !.versioned = (buckets[b] \in {"Enabled", "Suspended"})]
    <3>1. req' = [req EXCEPT ![r] = t] /\ UNCHANGED tmp /\ CopiesMove
      BY <2>4, <1>b DEF DeleteStart
    <3>2. ~Writing(t)
      BY DEF Idle, Writing
    <3> HIDE DEF t
    <3> QED BY <1>t, <3>1, <3>2
  <2>5. ASSUME NEW b, NEW k, NEW v, NEW m, NEW d, NEW p, RetentionCheck(r, b, k, v, m, d, p)
        PROVE  TmpInv'
    <3> DEFINE t == [Idle EXCEPT !.pc = "retain", !.bucket = b, !.key = k, !.vid = v,
                                 !.mode = m, !.until = d]
    <3>1. req' = [req EXCEPT ![r] = t] /\ UNCHANGED tmp /\ CopiesMove
      BY <2>5, <1>b DEF RetentionCheck
    <3>2. ~Writing(t)
      BY DEF Idle, Writing
    <3> HIDE DEF t
    <3> QED BY <1>t, <3>1, <3>2
  <2>2. ASSUME NEW b, NEW k, NEW body, NEW alg, PutStart(r, b, k, body, alg)
        PROVE  TmpInv'
    <3> DEFINE t(i) == [Idle EXCEPT !.pc = "putOpen", !.bucket = b, !.key = k,
                                    !.body = body, !.etag = body, !.alg = alg,
                                    !.versioned = (buckets[b] = "Enabled"), !.id = i]
    <3>1. UNCHANGED tmp /\ CopiesMove /\ \E i \in Ids \ used : req' = [req EXCEPT ![r] = t(i)]
      BY <1>b, <2>2 DEF PutStart
    <3>2. PICK i \in Ids \ used : req' = [req EXCEPT ![r] = t(i)]
      BY <3>1
    <3>3. t(i).pc = "putOpen" /\ t(i).id \notin used
      BY <3>2 DEF Idle
    <3> HIDE DEF t
    <3> QED BY <1>t, <3>1, <3>2, <3>3
  <2>3. ASSUME NEW b, NEW k, NEW v, GetRow(r, b, k, v)
        PROVE  TmpInv'
    <3> DEFINE t(i) == [Idle EXCEPT !.pc = "getBlob", !.bucket = b, !.key = k,
                                    !.vid = objects[i].vid, !.id = i,
                                    !.etag = objects[i].etag, !.alg = objects[i].alg]
    <3>1. UNCHANGED tmp /\ CopiesMove /\ \E i \in DOMAIN objects : req' = [req EXCEPT ![r] = t(i)]
      BY <1>b, <2>3 DEF GetRow, Target, RowsOf
    <3>2. \A i : ~Writing(t(i))
      BY DEF Idle, Writing
    <3> HIDE DEF t
    <3> QED BY <1>t, <3>1, <3>2
  <2>6. ASSUME NEW sb, NEW sk, NEW b, NEW k, CopyHead(r, sb, sk, b, k)
        PROVE  TmpInv'
    <3> DEFINE t(i) == [Idle EXCEPT !.pc = "copySrc", !.bucket = b, !.key = k,
                                    !.sbucket = sb, !.skey = sk,
                                    !.vid = objects[i].vid, !.etag = objects[i].etag]
    <3>1. UNCHANGED tmp /\ CopiesMove /\ \E i \in DOMAIN objects : req' = [req EXCEPT ![r] = t(i)]
      BY <1>b, <2>6 DEF CopyHead, Target, RowsOf
    <3>2. \A i : ~Writing(t(i))
      BY DEF Idle, Writing
    <3> HIDE DEF t
    <3> QED BY <1>t, <3>1, <3>2
  <2> QED BY <1>1, <2>1, <2>2, <2>3, <2>4, <2>5, <2>6 DEF Begin
<1>p. ASSUME NEW r \in Reqs, Putting(req[r])
      PROVE  \A f \in tmp : f[1] = req[r].id => Owns(req[r].pc, f[2])
    BY <1>p DEF TmpInv, Litter, Putting, Writing
<1>k. \A f \in tmp : f[2] \in {"upload", "sealed"} /\ f = <<f[1], f[2]>>
    BY <1>0
<1>2. ASSUME NEW r \in Reqs, PutOpenTmp(r) PROVE TmpInv'
  <2>1. req[r].pc = "putOpen" /\ Goto(r, "putStream") /\ UNCHANGED <<objects, blobs, used>>
        /\ tmp' = tmp \cup {<<req[r].id, "upload">>}
    BY <1>2 DEF PutOpenTmp
  <2>2. Putting(req[r])
    BY <2>1 DEF Putting
  <2>3. \A f \in tmp' : \/ f[1] = req[r].id /\ Owns("putStream", f[2])
                        \/ f \in tmp /\ f[1] # req[r].id
    BY <1>p, <2>1, <2>2 DEF Owns
  <2> QED BY <1>0, <2>1, <2>2, <2>3, TmpPut
<1>3. ASSUME NEW r \in Reqs, PutStreamBody(r) PROVE TmpInv'
  <2>1. req[r].pc = "putStream" /\ Goto(r, "putPlace") /\ UNCHANGED <<objects, blobs, used, tmp>>
    BY <1>3 DEF PutStreamBody
  <2>2. Putting(req[r])
    BY <2>1 DEF Putting
  <2>3. \A f \in tmp' : \/ f[1] = req[r].id /\ Owns("putPlace", f[2])
                        \/ f \in tmp /\ f[1] # req[r].id
    BY <1>p, <2>1, <2>2 DEF Owns
  <2> QED BY <1>0, <2>1, <2>2, <2>3, TmpPut
<1>4. ASSUME NEW r \in Reqs, PutSeal(r) PROVE TmpInv'
  <2>1. /\ req[r].pc = "putPlace" /\ req[r].alg # "none" /\ Goto(r, "putSealed")
        /\ UNCHANGED <<objects, blobs, used>> /\ tmp' = tmp \cup {<<req[r].id, "sealed">>}
    BY <1>4 DEF PutSeal
  <2>2. Putting(req[r])
    BY <2>1 DEF Putting
  <2>3. \A f \in tmp' : \/ f[1] = req[r].id /\ Owns("putSealed", f[2])
                        \/ f \in tmp /\ f[1] # req[r].id
    BY <1>p, <2>1, <2>2 DEF Owns
  <2> QED BY <1>0, <2>1, <2>2, <2>3, TmpPut
<1>5. ASSUME NEW r \in Reqs, PutDropPlain(r) PROVE TmpInv'
  <2>1. /\ req[r].pc = "putSealed" /\ Goto(r, "putRename")
        /\ UNCHANGED <<objects, blobs, used>> /\ tmp' = tmp \ {<<req[r].id, "upload">>}
    BY <1>5 DEF PutDropPlain
  <2>2. Putting(req[r]) /\ req[r].alg # "none"
    BY <2>1 DEF Putting, TmpInv, SealsAreAsked
  <2>3. \A f \in tmp' : \/ f[1] = req[r].id /\ Owns("putRename", f[2])
                        \/ f \in tmp /\ f[1] # req[r].id
    BY <1>k, <1>p, <2>1, <2>2 DEF Owns
  <2> QED BY <1>0, <2>1, <2>2, <2>3, TmpPut
<1>6. ASSUME NEW r \in Reqs, PutRename(r) PROVE TmpInv'
  <2>1. /\ \/ req[r].pc = "putPlace" /\ req[r].alg = "none"
           \/ req[r].pc = "putRename"
        /\ Goto(r, "commit") /\ UNCHANGED <<objects, used>>
        /\ tmp' = tmp \ {<<req[r].id, IF req[r].alg = "none" THEN "upload" ELSE "sealed">>}
        /\ DOMAIN blobs' = DOMAIN blobs \cup {req[r].id}
    BY <1>6 DEF PutRename, With
  <2>2. Putting(req[r]) /\ (req[r].pc = "putRename" => req[r].alg # "none")
    BY <2>1 DEF Putting, TmpInv, SealsAreAsked
  <2>3. \A f \in tmp' : f \in tmp /\ f[1] # req[r].id
    BY <1>k, <1>p, <2>1, <2>2 DEF Owns
  <2> QED BY <1>0, <2>1, <2>2, <2>3, TmpPut
<1>7. ASSUME NEW r \in Reqs, Continue(r) PROVE TmpInv'
  <2>1. CASE \/ DeleteBucketCommit(r) \/ Commit(r) \/ DeletePromote(r) \/ DeleteMarker(r)
             \/ RetentionUpdate(r)
    BY <1>b, <1>f, <2>1 DEF DeleteBucketCommit, Commit, DeletePromote, DeleteMarker, RetentionUpdate
  <2>2. CASE GetBlob(r)
    <3> DEFINE t == [req[r] EXCEPT !.pc = "got", !.body = blobs[req[r].id].body]
    <3>1. ~Writing(t)
      BY <1>0 DEF Task, Writing
    <3>2. UNCHANGED tmp /\ CopiesMove /\ (Finish(r) \/ req' = [req EXCEPT ![r] = t])
      BY <1>0, <1>b, <2>2 DEF GetBlob
    <3> HIDE DEF t
    <3> QED BY <1>f, <1>t, <3>1, <3>2
  <2>3. CASE CopySource(r)
    <3> DEFINE t(i) == [req[r] EXCEPT !.pc = "copyDst", !.src = i, !.alg = objects[i].alg]
    <3>1. /\ UNCHANGED tmp /\ CopiesMove
          /\ Finish(r) \/ \E i : req' = [req EXCEPT ![r] = t(i)]
      BY <1>0, <1>b, <2>3 DEF CopySource
    <3>2. ASSUME NEW i PROVE ~Writing(t(i))
      BY <1>0 DEF Task, Writing
    <3> HIDE DEF t
    <3> QED BY <1>f, <1>t, <3>1, <3>2
  <2>4. CASE CopyDestination(r)
    <3> DEFINE t(i) == [req[r] EXCEPT !.pc = "copyBlob", !.id = i,
                                      !.versioned = (buckets[req[r].bucket] = "Enabled")]
    <3>1. /\ UNCHANGED tmp /\ CopiesMove
          /\ Finish(r) \/ \E i \in Ids \ used : req' = [req EXCEPT ![r] = t(i)]
      BY <1>0, <1>b, <2>4 DEF CopyDestination
    <3>2. ASSUME NEW i PROVE t(i).pc = "copyBlob" /\ t(i).id = i
      BY <1>0 DEF Task
    <3> HIDE DEF t
    <3>3. ASSUME NEW i \in Ids \ used, req' = [req EXCEPT ![r] = t(i)] PROVE TmpInv'
      <4>1. t(i).pc = "copyBlob" /\ t(i).id \notin used
        BY <3>2
      <4> QED BY <1>t, <3>1, <3>3, <4>1
    <3> QED BY <1>f, <3>1, <3>3
  <2>5. CASE CopyBlob(r)
    <3>1. UNCHANGED tmp /\ req[r].pc = "copyBlob" /\ (Goto(r, "commit") \/ Finish(r))
      BY <2>5 DEF CopyBlob
    <3>2. CopiesMove
      BY <2>5 DEF CopyBlob, CopiesMove, With
    <3>3. CASE Goto(r, "commit")
      <4>1. /\ req'[r].pc = "commit" /\ req'[r].id = req[r].id
            /\ \A q \in Reqs : q # r => req'[q] = req[q]
        BY <1>0, <3>3 DEF Goto, Task
      <4>2. ASSUME NEW q \in Reqs PROVE Keeps(q)
        BY <3>1, <4>1 DEF Keeps, Writing, Putting, Owns
      <4> QED BY <1>0, <1>u, <3>1, <3>2, <4>2, TmpQuiet
    <3> QED BY <1>f, <3>1, <3>2, <3>3
  <2>6. CASE DeleteLockCheck(r)
    <3>1. AfterLockCheck(req[r]) \in {"delMarker", "delSelect"}
      BY DEF AfterLockCheck
    <3> QED BY <1>b, <1>f, <1>g, <2>6, <3>1 DEF DeleteLockCheck
  <2>7. CASE DeleteRows(r)
    BY <1>b, <1>g, <2>7 DEF DeleteRows
  <2>8. CASE DeleteSelect(r)
    <3> DEFINE t == [req[r] EXCEPT !.pc = "delRows", !.ids = Victims(req[r])]
    <3>1. req' = [req EXCEPT ![r] = t] /\ UNCHANGED tmp /\ CopiesMove
      BY <1>0, <1>b, <2>8 DEF DeleteSelect
    <3>2. ~Writing(t)
      BY <1>0 DEF Task, Writing
    <3> HIDE DEF t
    <3> QED BY <1>t, <3>1, <3>2
  <2>9. CASE DeleteUnlink(r)
    <3>1. UNCHANGED tmp /\ req[r].pc = "delUnlink"
      BY <2>9 DEF DeleteUnlink
    <3>2. CopiesMove
      BY <2>9 DEF DeleteUnlink, CopiesMove, Without
    <3>3. ASSUME NEW i \in req[r].ids, req' = [req EXCEPT ![r].ids = @ \ {i}] PROVE TmpInv'
      <4> DEFINE t == [req[r] EXCEPT !.ids = @ \ {i}]
      <4>1. req' = [req EXCEPT ![r] = t] /\ ~Writing(t)
        BY <1>0, <3>1, <3>3 DEF Task, Writing
      <4> HIDE DEF t
      <4> QED BY <1>t, <3>1, <3>2, <4>1
    <3> QED BY <1>f, <1>g, <2>9, <3>1, <3>2, <3>3 DEF DeleteUnlink
  <2> QED
    BY <1>2, <1>3, <1>4, <1>5, <1>6, <1>7, <2>1, <2>2, <2>3, <2>4, <2>5, <2>6, <2>7, <2>8, <2>9
    DEF Continue
<1>8. ASSUME NEW r \in Reqs, AtomicCall(r) PROVE TmpInv'
    BY <1>8, <1>q DEF AtomicCall, CreateBucket, SetBucketVersioning, PutLegalHold
<1>9. ASSUME NEW r \in Reqs, PutBodyError(r) \/ PutWithoutKey(r) \/ Abandon(r) PROVE TmpInv'
    BY <1>9, <1>b, <1>f DEF PutBodyError, PutWithoutKey, Abandon
<1>10. ASSUME Crash \/ \E r \in Reqs : CrashInClosure(r) PROVE TmpInv'
    BY <1>10, <1>n DEF Crash, CrashInClosure
<1>11. ASSUME Tick \/ UNCHANGED vars PROVE TmpInv'
    BY <1>11, <1>q DEF Tick, vars
<1> QED
    BY <1>1, <1>7, <1>8, <1>9, <1>10, <1>11 DEF Next

\* Whatever put_object leaves in tmp/ - dropped by its client, refused half way
\* or killed with the process - is never of an object that is stored: no sealed
\* blob and no row ever has a temporary file of its own beside it.
THEOREM TmpIsNeverStored == Spec => []TmpNeverStored
<1>1. Init => TmpInv
  <2> SUFFICES ASSUME Init PROVE TmpInv
    OBVIOUS
  <2>1. tmp = {} /\ \A r \in Reqs : req[r].pc = "idle"
    BY DEF Init, Idle
  <2> QED BY <2>1, InitSafe DEF TmpInv, SealsAreAsked, PutsAreUnplaced, Putting
<1>2. TmpInv /\ [Next]_vars => TmpInv'
    BY TmpStep
<1>3. TmpInv => TmpNeverStored
    BY DEF TmpInv, Litter, TmpNeverStored
<1> QED
    BY <1>1, <1>2, <1>3, PTL DEF Spec

-----------------------------------------------------------------------------
(* Latest versions: a key that has versions is without a latest one only   *)
(* while a delete is between its DELETE and its promotion.                 *)

Undropped == "abandon" \notin Faults /\ "crash" \notin Faults

\* The rows f of a key, none of which is the latest.
Beheaded(f, b, k) ==
    /\ \E i \in DOMAIN f : f[i].bucket = b /\ f[i].key = k
    /\ \A i \in DOMAIN f : f[i].bucket = b /\ f[i].key = k => ~f[i].latest

\* The task will promote a version of the key.
Attends(t, b, k) ==
    t.pc \in {"delUnlink", "delPromote"} /\ t.bucket = b /\ t.key = k /\ t.vid # None

InBuckets == \A i \in DOMAIN objects : Exists(objects[i].bucket)

HeadInv == SafeInv /\ InBuckets /\ HeadlessIsAttended

\* Every row of f was in the table, with the same key and the same mark.
SameHeads(f) ==
    \A i \in DOMAIN f : /\ i \in DOMAIN objects
                        /\ f[i].bucket = objects[i].bucket
                        /\ f[i].key = objects[i].key
                        /\ f[i].latest = objects[i].latest

\* A step that inserts, deletes, demotes and promotes no row.
HeadsStay ==
    /\ SameHeads(objects') /\ DOMAIN objects' = DOMAIN objects
    /\ \A b \in Buckets : Exists(b) => Exists(b)'

\* A table left alone keeps its latest versions.
LEMMA SameHeadsStay == UNCHANGED <<buckets, objects>> => HeadsStay
    BY DEF HeadsStay, SameHeads, Exists

\* A call's first closure and a call of one closure change no latest version.
LEMMA CallsKeepHeads ==
    ASSUME TypeInv, NEW r \in Reqs, Begin(r) \/ AtomicCall(r)
    PROVE  HeadsStay
<1>0. objects \in [DOMAIN objects -> Row] /\ buckets \in [Buckets -> Statuses]
    BY DEF TypeInv, TypeOK
<1>1. ASSUME NEW b, DeleteBucketCheck(r, b) PROVE UNCHANGED <<buckets, objects>>
    BY <1>1 DEF DeleteBucketCheck
<1>2. ASSUME NEW b, NEW k, NEW body, NEW alg, PutStart(r, b, k, body, alg)
      PROVE  UNCHANGED <<buckets, objects>>
    BY <1>2 DEF PutStart
<1>3. ASSUME NEW sb, NEW sk, NEW b, NEW k, CopyHead(r, sb, sk, b, k)
      PROVE  UNCHANGED <<buckets, objects>>
    BY <1>3 DEF CopyHead
<1>4. ASSUME NEW b, NEW k, NEW v, GetRow(r, b, k, v) \/ DeleteStart(r, b, k, v)
      PROVE  UNCHANGED <<buckets, objects>>
    BY <1>4 DEF GetRow, DeleteStart
<1>5. ASSUME NEW b, NEW k, NEW v, NEW m, NEW d, NEW p, RetentionCheck(r, b, k, v, m, d, p)
      PROVE  UNCHANGED <<buckets, objects>>
    BY <1>5 DEF RetentionCheck
<1>6. ASSUME NEW b \in Buckets, CreateBucket(r, b) PROVE HeadsStay
    BY <1>0, <1>6 DEF CreateBucket, HeadsStay, SameHeads, Exists
<1>7. ASSUME NEW b \in Buckets, NEW s \in {"Enabled", "Suspended"}, SetBucketVersioning(r, b, s)
      PROVE  HeadsStay
    BY <1>0, <1>7 DEF SetBucketVersioning, HeadsStay, SameHeads, Exists
<1>8. ASSUME NEW b, NEW k, NEW v, NEW on, PutLegalHold(r, b, k, v, on) PROVE HeadsStay
  <2>1. DOMAIN objects' = DOMAIN objects /\ UNCHANGED buckets
    BY <1>8 DEF PutLegalHold
  <2>2. SameHeads(objects')
    BY <1>0, <1>8, <2>1 DEF PutLegalHold, SameHeads, Row
  <2> QED BY <2>1, <2>2 DEF HeadsStay, Exists
<1>9. CASE Begin(r)
    BY <1>1, <1>2, <1>3, <1>4, <1>5, <1>9, SameHeadsStay DEF Begin
<1>10. CASE AtomicCall(r)
    BY <1>6, <1>7, <1>8, <1>10 DEF AtomicCall
<1> QED
    BY <1>9, <1>10

Rewrites(r) ==
    DeleteBucketCommit(r) \/ DeleteRows(r) \/ DeletePromote(r) \/ Commit(r) \/ DeleteMarker(r)

\* Only five closures insert, delete, demote or promote rows, as long as the
\* process does not die.
LEMMA HeadMoves ==
    ASSUME TypeInv, [Next]_vars, Undropped
    PROVE  HeadsStay \/ \E r \in Reqs : Rewrites(r)
<1>0. objects \in [DOMAIN objects -> Row]
    BY DEF TypeInv, TypeOK
<1>1. ASSUME NEW r \in Reqs,
             \/ PutOpenTmp(r) \/ PutStreamBody(r) \/ PutSeal(r) \/ PutDropPlain(r)
             \/ PutRename(r) \/ GetBlob(r) \/ CopySource(r) \/ CopyDestination(r)
             \/ CopyBlob(r) \/ DeleteLockCheck(r) \/ DeleteSelect(r) \/ DeleteUnlink(r)
      PROVE  HeadsStay
  <2>1. UNCHANGED <<buckets, objects>>
    BY <1>1
    DEF PutOpenTmp, PutStreamBody, PutSeal, PutDropPlain, PutRename, GetBlob, CopySource,
        CopyDestination, CopyBlob, DeleteLockCheck, DeleteSelect, DeleteUnlink
  <2> QED BY <2>1, SameHeadsStay
<1>2. ASSUME NEW r \in Reqs, RetentionUpdate(r) PROVE HeadsStay
  <2>1. DOMAIN objects' = DOMAIN objects /\ UNCHANGED buckets
    BY <1>2 DEF RetentionUpdate
  <2>2. SameHeads(objects')
    BY <1>0, <1>2, <2>1, ZenonT(90) DEF RetentionUpdate, SameHeads, Row
  <2> QED BY <2>1, <2>2 DEF HeadsStay, Exists
<1>3. ASSUME NEW r \in Reqs, Continue(r) PROVE HeadsStay \/ Rewrites(r)
    BY <1>1, <1>2, <1>3 DEF Continue, Rewrites
<1>4. ASSUME NEW r \in Reqs, PutBodyError(r) \/ PutWithoutKey(r) PROVE HeadsStay
    BY <1>4, SameHeadsStay DEF PutBodyError, PutWithoutKey
<1>5. ASSUME NEW r \in Reqs, Abandon(r) \/ CrashInClosure(r) \/ Crash PROVE FALSE
    BY <1>5 DEF Abandon, CrashInClosure, Crash, Undropped
<1>6. ~Crash
    BY DEF Crash, Undropped
<1>7. CASE Tick \/ UNCHANGED vars
    BY <1>7, SameHeadsStay DEF Tick, vars
<1> QED
    BY <1>3, <1>4, <1>5, <1>6, <1>7, CallsKeepHeads DEF Next

\* Rows are in buckets that exist: inserts fail on the foreign key, and a
\* deleted bucket takes its rows along.
LEMMA InBucketsStep ==
    ASSUME SafeInv, InBuckets, [Next]_vars, Undropped
    PROVE  InBuckets'
<1>0. TypeInv /\ objects \in [DOMAIN objects -> Row] /\ buckets \in [Buckets -> Statuses]
    BY DEF SafeInv, TypeInv, TypeOK
<1>1. ASSUME HeadsStay PROVE InBuckets'
    BY <1>0, <1>1 DEF HeadsStay, SameHeads, InBuckets, Row
<1>k. ASSUME NEW f, Kept(f) PROVE \A i \in DOMAIN f : Exists(f[i].bucket)
    BY <1>k DEF Kept, SameRow, InBuckets
<1>w. ASSUME NEW f, Kept(f), NEW j, NEW row, Exists(row.bucket), objects' = With(f, j, row),
             UNCHANGED buckets
      PROVE  InBuckets'
    BY <1>k, <1>w DEF With, InBuckets, Exists
<1>s. ASSUME Kept(objects'), UNCHANGED buckets PROVE InBuckets'
    BY <1>k, <1>s DEF InBuckets, Exists
<1>2. ASSUME NEW r \in Reqs, DeleteBucketCommit(r) PROVE InBuckets'
    BY <1>0, <1>2 DEF DeleteBucketCommit, InBuckets, Without, Exists
<1>3. ASSUME NEW r \in Reqs, DeleteRows(r) PROVE InBuckets'
    BY <1>3, <1>s, WithoutKept DEF DeleteRows
<1>4. ASSUME NEW r \in Reqs, DeletePromote(r) PROVE InBuckets'
  <2>1. UNCHANGED buckets /\ (Promotes(req[r].bucket, req[r].key) \/ UNCHANGED objects)
    BY <1>4 DEF DeletePromote, Promotes
  <2>2. ASSUME Promotes(req[r].bucket, req[r].key) PROVE InBuckets'
    <3>1. PICK i \in DOMAIN objects :
             objects' = With(objects, i, [objects[i] EXCEPT !.latest = TRUE])
      BY <2>2 DEF Promotes, Newest, RowsOf
    <3>2. [objects[i] EXCEPT !.latest = TRUE].bucket = objects[i].bucket
      BY <1>0, <3>1 DEF Row
    <3>3. Kept(objects)
      BY DEF Kept, SameRow
    <3> QED BY <1>w, <2>1, <3>1, <3>2, <3>3 DEF InBuckets
  <2> QED BY <1>s, <2>1, <2>2, SameKept
<1>5. ASSUME NEW r \in Reqs, Commit(r) PROVE InBuckets'
  <2>1. /\ UNCHANGED buckets
        /\ \/ Exists(req[r].bucket) /\ objects' = With(Superseded(req[r]), req[r].id, NewRow(req[r]))
           \/ objects' = Superseded(req[r])
    BY <1>5, Zenon DEF Commit
  <2>2. NewRow(req[r]).bucket = req[r].bucket
    BY DEF NewRow
  <2>3. Kept(Superseded(req[r]))
    BY <1>0, SupersededKept
  <2> QED BY <1>s, <1>w, <2>1, <2>2, <2>3
<1>6. ASSUME NEW r \in Reqs, DeleteMarker(r) PROVE InBuckets'
  <2> DEFINE D == Demoted(Target(req[r].bucket, req[r].key, None))
  <2>1. PICK i : /\ UNCHANGED buckets
                 /\ \/ Exists(req[r].bucket) /\ objects' = With(D, i, Marker(req[r], i))
                    \/ objects' = D
    BY <1>6 DEF DeleteMarker
  <2>2. Marker(req[r], i).bucket = req[r].bucket
    BY DEF Marker
  <2>3. Kept(D)
    BY <1>0, DemotedKept
  <2> HIDE DEF D
  <2> QED BY <1>s, <1>w, <2>1, <2>2, <2>3
<1> QED
    BY <1>0, <1>1, <1>2, <1>3, <1>4, <1>5, <1>6, HeadMoves DEF Rewrites

\* Rows taken away, or other keys' rows, do not behead a key.
LEMMA OthersKeepHead ==
    ASSUME NEW f, NEW b, NEW k, Beheaded(f, b, k),
           \A i \in DOMAIN f : f[i].bucket = b /\ f[i].key = k =>
               i \in DOMAIN objects /\ objects[i].bucket = b /\ objects[i].key = k,
           \A i \in DOMAIN objects : objects[i].bucket = b /\ objects[i].key = k =>
               i \in DOMAIN f /\ f[i] = objects[i]
    PROVE  Beheaded(objects, b, k)
    BY DEF Beheaded

\* A promotion leaves its key with a latest version, or without any.
LEMMA PromotedHasHead ==
    ASSUME TypeInv, NEW r \in Reqs, DeletePromote(r)
    PROVE  ~Beheaded(objects', req[r].bucket, req[r].key)
<1> DEFINE S == RowsOf(req[r].bucket, req[r].key)
<1>0. objects \in [DOMAIN objects -> Row]
    BY DEF TypeInv, TypeOK
<1>1. ASSUME NEW i \in Newest(S),
             objects' = With(objects, i, [objects[i] EXCEPT !.latest = TRUE])
      PROVE  ~Beheaded(objects', req[r].bucket, req[r].key)
  <2>1. i \in DOMAIN objects /\ objects[i].bucket = req[r].bucket /\ objects[i].key = req[r].key
    BY DEF Newest, RowsOf
  <2>2. i \in DOMAIN objects' /\ objects'[i] = [objects[i] EXCEPT !.latest = TRUE]
    BY <1>1 DEF With
  <2>3. /\ objects'[i].latest
        /\ objects'[i].bucket = req[r].bucket /\ objects'[i].key = req[r].key
    BY <1>0, <2>1, <2>2 DEF Row
  <2> QED BY <2>2, <2>3 DEF Beheaded
<1>2. ASSUME S = {}, UNCHANGED objects PROVE ~Beheaded(objects', req[r].bucket, req[r].key)
    BY <1>2 DEF Beheaded, RowsOf
<1> QED
    BY <1>1, <1>2 DEF DeletePromote

\* The rows f are what the first statement of a write leaves.
Cleared(f, t) == f = Superseded(t) \/ f = Demoted(Target(t.bucket, t.key, None))

\* A write leaves the rows of other keys alone.
LEMMA WritesSpareOthers ==
    ASSUME TypeInv, NEW t, NEW b, NEW k, b # t.bucket \/ k # t.key,
           NEW f, Cleared(f, t)
    PROVE  \A i \in DOMAIN objects : objects[i].bucket = b /\ objects[i].key = k =>
               i \in DOMAIN f /\ f[i] = objects[i]
<1> SUFFICES ASSUME NEW i \in DOMAIN objects, objects[i].bucket = b, objects[i].key = k
             PROVE  i \in DOMAIN f /\ f[i] = objects[i]
    OBVIOUS
<1> DEFINE S == RowsOf(t.bucket, t.key)
           L == Target(t.bucket, t.key, None)
<1>1. i \notin S /\ i \notin L
    BY DEF RowsOf, Target
<1>2. f = Demoted(S) \/ f = Without(objects, S) \/ f = Demoted(L)
    BY Zenon DEF Cleared, Superseded
<1> HIDE DEF S, L
<1> QED
    BY <1>1, <1>2 DEF Demoted, Without

\* The row is the latest of the key the task writes.
Heads(row, t) == row.bucket = t.bucket /\ row.key = t.key /\ row.latest

\* A row that is inserted as the latest beheads no key.
LEMMA InsertKeepsHeads ==
    ASSUME TypeInv, NEW t, NEW f, Kept(f),
           Cleared(f, t),
           NEW j, j \notin DOMAIN objects,
           NEW row, Heads(row, t),
           NEW b, NEW k, Beheaded(With(f, j, row), b, k)
    PROVE  Beheaded(objects, b, k)
<1> DEFINE g == With(f, j, row)
<1>1. j \in DOMAIN g /\ g[j] = row /\ DOMAIN g = DOMAIN f \cup {j}
    BY DEF With
<1>2. \A i \in DOMAIN f : i # j => g[i] = f[i]
    BY DEF With
<1>h. Beheaded(g, b, k)
    OBVIOUS
<1> HIDE DEF g
<1>3. b # t.bucket \/ k # t.key
    BY <1>1, <1>h DEF Beheaded, Heads
<1>4. \A i \in DOMAIN objects : objects[i].bucket = b /\ objects[i].key = k =>
          i \in DOMAIN f /\ f[i] = objects[i]
    BY <1>3, WritesSpareOthers
<1>5. \A i \in DOMAIN objects : objects[i].bucket = b /\ objects[i].key = k =>
          i \in DOMAIN g /\ g[i] = objects[i]
    BY <1>1, <1>2, <1>4
<1>6. \A i \in DOMAIN g : g[i].bucket = b /\ g[i].key = k =>
          i \in DOMAIN objects /\ objects[i].bucket = b /\ objects[i].key = k
    BY <1>1, <1>2, <1>3 DEF Kept, SameRow, Heads
<1> QED
    BY <1>h, <1>5, <1>6, OthersKeepHead

\* A write into a bucket that is gone finds no row there to demote.
LEMMA FailedInsertKeepsHeads ==
    ASSUME TypeInv, InBuckets, NEW t, ~Exists(t.bucket), NEW f, Kept(f),
           Cleared(f, t),
           NEW b, NEW k, Beheaded(f, b, k)
    PROVE  Beheaded(objects, b, k)
<1>1. \A i \in DOMAIN objects : objects[i].bucket # t.bucket
    BY DEF InBuckets
<1>2. \A i \in DOMAIN f : i \in DOMAIN objects /\ f[i].bucket = objects[i].bucket
                                               /\ f[i].key = objects[i].key
    BY DEF Kept, SameRow
<1>3. b # t.bucket \/ k # t.key
    BY <1>1, <1>2 DEF Beheaded
<1>4. \A i \in DOMAIN objects : objects[i].bucket = b /\ objects[i].key = k =>
          i \in DOMAIN f /\ f[i] = objects[i]
    BY <1>3, WritesSpareOthers
<1> QED
    BY <1>2, <1>4, OthersKeepHead

\* A key loses its latest version only to a delete that will promote another.
LEMMA HeadStep ==
    ASSUME SafeInv, InBuckets, [Next]_vars, Undropped,
           NEW b, NEW k, Beheaded(objects', b, k)
    PROVE  Beheaded(objects, b, k) \/ \E r \in Reqs : Attends(req'[r], b, k)
<1>0. TypeInv /\ objects \in [DOMAIN objects -> Row] /\ req \in [Reqs -> Task]
    BY DEF SafeInv, TypeInv, TypeOK
<1>1. ASSUME HeadsStay PROVE Beheaded(objects, b, k)
    BY <1>1 DEF HeadsStay, SameHeads, Beheaded
<1>2. ASSUME NEW r \in Reqs, DeleteBucketCommit(r) PROVE Beheaded(objects, b, k)
    BY <1>2 DEF DeleteBucketCommit, Without, Beheaded
<1>3. ASSUME NEW r \in Reqs, DeleteRows(r)
      PROVE  Beheaded(objects, b, k) \/ Attends(req'[r], b, k)
  <2> DEFINE t == req[r]
  <2>1. objects' = Without(objects, Victims(t)) /\ Goto(r, "delUnlink")
    BY <1>3 DEF DeleteRows
  <2>2. /\ req'[r].pc = "delUnlink" /\ req'[r].bucket = t.bucket
        /\ req'[r].key = t.key /\ req'[r].vid = t.vid
    BY <1>0, <2>1 DEF Goto, Task
  <2>3. \A i \in Victims(t) : objects[i].bucket = t.bucket /\ objects[i].key = t.key
    BY DEF Victims, Target, RowsOf
  <2>4. CASE b # t.bucket \/ k # t.key
    BY <2>1, <2>3, <2>4 DEF Without, Beheaded
  <2>5. CASE b = t.bucket /\ k = t.key /\ t.vid = None
    BY <2>1, <2>5 DEF Without, Beheaded, Victims, RowsOf
  <2>6. CASE b = t.bucket /\ k = t.key /\ t.vid # None
    BY <2>2, <2>6 DEF Attends
  <2> QED BY <2>4, <2>5, <2>6
<1>4. ASSUME NEW r \in Reqs, DeletePromote(r) PROVE Beheaded(objects, b, k)
  <2>1. b # req[r].bucket \/ k # req[r].key
    BY <1>0, <1>4, PromotedHasHead
  <2>2. Promotes(req[r].bucket, req[r].key) \/ UNCHANGED objects
    BY <1>4 DEF DeletePromote, Promotes
  <2>3. ASSUME Promotes(req[r].bucket, req[r].key) PROVE Beheaded(objects, b, k)
    <3>1. PICK i \in DOMAIN objects :
             /\ objects[i].bucket = req[r].bucket /\ objects[i].key = req[r].key
             /\ objects' = With(objects, i, [objects[i] EXCEPT !.latest = TRUE])
      BY <2>3 DEF Promotes, Newest, RowsOf
    <3>2. /\ DOMAIN objects' = DOMAIN objects
          /\ objects'[i] = [objects[i] EXCEPT !.latest = TRUE]
          /\ \A j \in DOMAIN objects : j # i => objects'[j] = objects[j]
      BY <3>1 DEF With
    <3>3. objects'[i].bucket = req[r].bucket /\ objects'[i].key = req[r].key
      BY <1>0, <3>1, <3>2 DEF Row
    <3>4. \A j \in DOMAIN objects : objects[j].bucket = b /\ objects[j].key = k =>
            j # i /\ j \in DOMAIN objects' /\ objects'[j] = objects[j]
      BY <2>1, <3>1, <3>2
    <3>5. \A j \in DOMAIN objects' : objects'[j].bucket = b /\ objects'[j].key = k =>
            j # i /\ j \in DOMAIN objects /\ objects[j].bucket = b /\ objects[j].key = k
      BY <2>1, <3>2, <3>3
    <3> QED BY <3>4, <3>5, OthersKeepHead
  <2> QED BY <2>2, <2>3
<1>5. ASSUME NEW r \in Reqs, Commit(r) PROVE Beheaded(objects, b, k)
  <2> DEFINE t == req[r]
  <2>1. /\ t.pc = "commit"
        /\ \/ objects' = With(Superseded(t), t.id, NewRow(t))
           \/ ~Exists(t.bucket) /\ objects' = Superseded(t)
    BY <1>5, Zenon DEF Commit
  <2>2. Heads(NewRow(t), t)
    BY DEF NewRow, Heads
  <2>3. Kept(Superseded(t)) /\ Cleared(Superseded(t), t)
    BY <1>0, SupersededKept DEF Cleared
  <2>4. t.id \notin DOMAIN objects
    BY <2>1 DEF SafeInv, PendingIdsApart, Writing
  <2> HIDE DEF t
  <2> QED BY <1>0, <2>1, <2>2, <2>3, <2>4, InsertKeepsHeads, FailedInsertKeepsHeads
<1>6. ASSUME NEW r \in Reqs, DeleteMarker(r) PROVE Beheaded(objects, b, k)
  <2> DEFINE t == req[r]
             D == Demoted(Target(t.bucket, t.key, None))
  <2>1. PICK i \in Ids \ used : \/ objects' = With(D, i, Marker(t, i))
                                \/ ~Exists(t.bucket) /\ objects' = D
    BY <1>6 DEF DeleteMarker
  <2>2. Heads(Marker(t, i), t)
    BY DEF Marker, Heads
  <2>3. Kept(D) /\ Cleared(D, t)
    BY <1>0, DemotedKept DEF Cleared
  <2>4. i \notin DOMAIN objects
    BY <2>1 DEF SafeInv, IdsHandedOut
  <2> HIDE DEF t, D
  <2> QED BY <1>0, <2>1, <2>2, <2>3, <2>4, InsertKeepsHeads, FailedInsertKeepsHeads
<1> QED
    BY <1>0, <1>1, <1>2, <1>3, <1>4, <1>5, <1>6, HeadMoves DEF Rewrites

\* A task that is to promote a version goes on until it does.
LEMMA AttendanceStep ==
    ASSUME TypeInv, [Next]_vars, Undropped, NEW q \in Reqs, NEW b, NEW k,
           Attends(req[q], b, k)
    PROVE  Attends(req'[q], b, k) \/ DeletePromote(q)
<1>0. req \in [Reqs -> Task]
    BY DEF TypeInv, TypeOK
<1>q. req[q].pc \in {"delUnlink", "delPromote"} /\ ~Free(q)
    BY DEF Attends, Free
<1>s. ASSUME req'[q] = req[q] PROVE Attends(req'[q], b, k)
    BY <1>s
<1>o. ASSUME NEW r \in Reqs, r # q, NEW t, req' = [req EXCEPT ![r] = t] PROVE req'[q] = req[q]
    BY <1>0, <1>o
<1>f. ASSUME NEW r \in Reqs, r # q, Finish(r) PROVE req'[q] = req[q]
    BY <1>f, <1>o DEF Finish
<1>g. ASSUME NEW r \in Reqs, r # q, NEW pc, Goto(r, pc) PROVE req'[q] = req[q]
    BY <1>0, <1>g DEF Goto
<1>1. ASSUME NEW r \in Reqs, Begin(r) PROVE req'[q] = req[q]
  <2>1. ASSUME NEW x, DeleteBucketCheck(r, x) PROVE req'[q] = req[q]
    BY <1>o, <1>q, <2>1 DEF DeleteBucketCheck
  <2>2. ASSUME NEW x, NEW y, NEW body, NEW alg, PutStart(r, x, y, body, alg)
        PROVE  req'[q] = req[q]
    BY <1>o, <1>q, <2>2 DEF PutStart
  <2>3. ASSUME NEW sb, NEW sk, NEW x, NEW y, CopyHead(r, sb, sk, x, y) PROVE req'[q] = req[q]
    BY <1>o, <1>q, <2>3 DEF CopyHead
  <2>4. ASSUME NEW x, NEW y, NEW v, GetRow(r, x, y, v) PROVE req'[q] = req[q]
    BY <1>o, <1>q, <2>4 DEF GetRow
  <2>5. ASSUME NEW x, NEW y, NEW v, DeleteStart(r, x, y, v) PROVE req'[q] = req[q]
    BY <1>o, <1>q, <2>5 DEF DeleteStart
  <2>6. ASSUME NEW x, NEW y, NEW v, NEW m, NEW d, NEW p, RetentionCheck(r, x, y, v, m, d, p)
        PROVE  req'[q] = req[q]
    BY <1>o, <1>q, <2>6 DEF RetentionCheck
  <2> QED BY <1>1, <2>1, <2>2, <2>3, <2>4, <2>5, <2>6 DEF Begin
<1>2. ASSUME NEW r \in Reqs, AtomicCall(r) PROVE req'[q] = req[q]
    BY <1>2 DEF AtomicCall, CreateBucket, SetBucketVersioning, PutLegalHold
<1>3. ASSUME NEW r \in Reqs, r # q, Continue(r) PROVE req'[q] = req[q]
  <2>1. CASE \/ DeleteBucketCommit(r) \/ Commit(r) \/ DeletePromote(r) \/ DeleteMarker(r)
             \/ RetentionUpdate(r)
    BY <1>3, <1>f, <2>1
    DEF DeleteBucketCommit, Commit, DeletePromote, DeleteMarker, RetentionUpdate
  <2>2. CASE \/ PutOpenTmp(r) \/ PutStreamBody(r) \/ PutSeal(r) \/ PutDropPlain(r)
             \/ PutRename(r) \/ DeleteRows(r) \/ DeleteLockCheck(r)
    BY <1>3, <1>f, <1>g, <2>2
    DEF PutOpenTmp, PutStreamBody, PutSeal, PutDropPlain, PutRename, DeleteRows, DeleteLockCheck
  <2>3. CASE GetBlob(r) \/ CopySource(r) \/ DeleteSelect(r)
    BY <1>0, <1>3, <1>f, <2>3 DEF GetBlob, CopySource, DeleteSelect
  <2>4. CASE CopyDestination(r)
    BY <1>0, <1>3, <1>f, <2>4 DEF CopyDestination
  <2>5. CASE CopyBlob(r)
    BY <1>3, <1>f, <1>g, <2>5 DEF CopyBlob
  <2>6. CASE DeleteUnlink(r)
    BY <1>0, <1>3, <1>f, <1>g, <2>6 DEF DeleteUnlink
  <2> QED BY <1>3, <2>1, <2>2, <2>3, <2>4, <2>5, <2>6 DEF Continue
<1>4. ASSUME Continue(q) PROVE Attends(req'[q], b, k) \/ DeletePromote(q)
  <2>1. DeleteUnlink(q) \/ DeletePromote(q)
    BY <1>4, <1>q
    DEF Continue, DeleteBucketCommit, PutOpenTmp, PutStreamBody, PutSeal, PutDropPlain,
        PutRename, Commit, GetBlob, CopySource, CopyDestination, CopyBlob, DeleteLockCheck,
        DeleteSelect, DeleteRows, DeleteMarker, RetentionUpdate
  <2>2. ASSUME DeleteUnlink(q) PROVE Attends(req'[q], b, k)
    <3>1. req[q].vid # None /\ req[q].bucket = b /\ req[q].key = k
      BY DEF Attends
    <3>2. CASE \E i \in req[q].ids : req' = [req EXCEPT ![q].ids = @ \ {i}]
      BY <1>0, <1>q, <3>1, <3>2 DEF Attends, Task
    <3>3. CASE Goto(q, "delPromote")
      BY <1>0, <3>1, <3>3 DEF Goto, Attends, Task
    <3> QED BY <2>2, <3>1, <3>2, <3>3 DEF DeleteUnlink
  <2> QED BY <2>1, <2>2
<1>5. ASSUME NEW r \in Reqs, PutBodyError(r) \/ PutWithoutKey(r) PROVE req'[q] = req[q]
    BY <1>5, <1>f, <1>q DEF PutBodyError, PutWithoutKey
<1>6. ASSUME NEW r \in Reqs, Abandon(r) \/ CrashInClosure(r) PROVE FALSE
    BY <1>6 DEF Abandon, CrashInClosure, Undropped
<1>7. ~Crash
    BY DEF Crash, Undropped
<1>8. CASE Tick \/ UNCHANGED vars
    BY <1>8 DEF Tick, vars
<1> QED
    BY <1>1, <1>2, <1>3, <1>4, <1>5, <1>6, <1>7, <1>8, <1>s DEF Next

\* Headless, in terms of the rows alone.
LEMMA HeadlessIs ==
    ASSUME NEW b, NEW k
    PROVE  (Headless(b, k) <=> Beheaded(objects, b, k)) /\ (Headless(b, k)' <=> Beheaded(objects', b, k))
    BY DEF Headless, Beheaded, RowsOf, Target

\* As long as no task is dropped or killed, a key that has versions and no
\* latest one is the key of a delete that has removed the latest version and
\* is about to promote another: at every other moment get, head and list find
\* each key that has versions, whatever runs at the same time.
THEOREM HeadlessAreAttended == Undropped => (Spec => []HeadlessIsAttended)
<1> SUFFICES ASSUME Undropped PROVE Spec => []HeadlessIsAttended
    OBVIOUS
<1>1. Init => InBuckets /\ HeadlessIsAttended
    BY DEF Init, InBuckets, HeadlessIsAttended, Headless, RowsOf
<1>2. HeadInv /\ [Next]_vars => (InBuckets /\ HeadlessIsAttended)'
  <2> SUFFICES ASSUME HeadInv, [Next]_vars PROVE (InBuckets /\ HeadlessIsAttended)'
    OBVIOUS
  <2>0. SafeInv /\ InBuckets /\ HeadlessIsAttended /\ TypeInv
    BY DEF HeadInv, SafeInv
  <2>1. InBuckets'
    BY <2>0, InBucketsStep
  <2>2. ASSUME NEW b \in Buckets, NEW k \in Keys, Headless(b, k)'
        PROVE  \E r \in Reqs : Attends(req'[r], b, k)
    <3>1. Beheaded(objects', b, k)
      BY <2>2, HeadlessIs
    <3>2. CASE Beheaded(objects, b, k)
      <4>1. Headless(b, k)
        BY <3>2, HeadlessIs
      <4>2. PICK q \in Reqs : Attends(req[q], b, k)
        BY <2>0, <4>1 DEF HeadlessIsAttended, Attends
      <4>3. ~DeletePromote(q)
        BY <2>0, <3>1, <4>2, PromotedHasHead DEF Attends
      <4> QED BY <2>0, <4>2, <4>3, AttendanceStep
    <3> QED BY <2>0, <3>1, <3>2, HeadStep
  <2>3. HeadlessIsAttended'
    BY <2>2 DEF HeadlessIsAttended, Attends
  <2> QED BY <2>1, <2>3
<1> QED
    BY <1>1, <1>2, SafeInvHolds, PTL DEF Spec, HeadInv

-----------------------------------------------------------------------------
(* Object locks, when calls do not overlap: a delete looks at a lock in    *)
(* one closure and acts on it in a later one.                              *)

OneAtATime == \A r, q \in Reqs : r = q

\* Rows f are in buckets that exist, and those of a bucket that was never
\* versioned are all latest.
FlatRows(f, bs) ==
    \A i \in DOMAIN f : /\ bs[f[i].bucket] # "absent"
                        /\ bs[f[i].bucket] = "Unversioned" => f[i].latest

HardDeleting(t) == t.pc \in {"delSelect", "delRows"}

\* What a task has read of its bucket still holds.
StatusIsFresh(t) ==
    /\ Writing(t) => (t.versioned <=> buckets[t.bucket] = "Enabled")
    /\ t.pc \in {"delLock", "delMarker"} \/ HardDeleting(t) =>
          /\ Exists(t.bucket)
          /\ t.versioned <=> buckets[t.bucket] \in {"Enabled", "Suspended"}
    /\ t.pc = "delMarker" => t.versioned
    /\ HardDeleting(t) /\ t.vid = None => ~t.versioned

\* What a task has been told about locks still holds.
LocksAreFresh(t) == HardDeleting(t) => \A i \in Victims(t) : ~Locked(objects[i])

Fresh(t) == StatusIsFresh(t) /\ LocksAreFresh(t)

LockInv == VidInv /\ LatestInv /\ FlatRows(objects, buckets) /\ \A r \in Reqs : Fresh(req[r])

\* A call names at most one row: the latest, or the one with the version id.
LEMMA TargetIsOne ==
    ASSUME VersionIdsUnique, LatestIsNewest, TypeInv, NEW b, NEW k, NEW v
    PROVE  \A i, j \in Target(b, k, v) : i = j
<1>1. \A i \in DOMAIN objects : objects[i].created \in Nat
    BY DEF TypeInv, TypeOK, Row
<1>2. CASE v = None
    BY <1>1, <1>2 DEF Target, RowsOf, LatestIsNewest
<1>3. CASE v # None
    BY <1>3 DEF Target, RowsOf, VersionIdsUnique
<1> QED
    BY <1>2, <1>3

\* Demoting rows of a versioned bucket leaves the others flat.
LEMMA DemotedFlat ==
    ASSUME TypeInv, FlatRows(objects, buckets), NEW b, NEW D,
           \A i \in D : objects[i].bucket = b, buckets[b] # "Unversioned"
    PROVE  FlatRows(Demoted(D), buckets)
<1>1. objects \in [DOMAIN objects -> Row]
    BY DEF TypeInv, TypeOK
<1>2. DOMAIN Demoted(D) = DOMAIN objects
    BY DEF Demoted
<1>3. ASSUME NEW i \in DOMAIN objects
      PROVE  Demoted(D)[i].bucket = objects[i].bucket /\ (i \notin D => Demoted(D)[i] = objects[i])
    BY <1>1 DEF Demoted, Row
<1> QED
    BY <1>2, <1>3 DEF FlatRows

\* Taking rows away leaves the others flat.
LEMMA WithoutFlat ==
    ASSUME FlatRows(objects, buckets), NEW D
    PROVE  FlatRows(Without(objects, D), buckets)
    BY DEF FlatRows, Without

\* A row that is the latest may be added.
LEMMA WithFlat ==
    ASSUME NEW f, FlatRows(f, buckets), NEW i, NEW row, row.latest, Exists(row.bucket)
    PROVE  FlatRows(With(f, i, row), buckets)
    BY DEF FlatRows, With, Exists

\* The first statement of a commit, by the status read when the write began.
LEMMA SupersededFlat ==
    ASSUME TypeInv, FlatRows(objects, buckets), NEW t,
           t.versioned <=> buckets[t.bucket] = "Enabled"
    PROVE  FlatRows(Superseded(t), buckets)
<1> DEFINE D == RowsOf(t.bucket, t.key)
<1>1. \A i \in D : objects[i].bucket = t.bucket
    BY DEF RowsOf
<1>2. CASE t.versioned
  <2>1. Superseded(t) = Demoted(D)
    BY <1>2, Zenon DEF Superseded
  <2>2. FlatRows(Demoted(D), buckets)
    BY <1>1, <1>2, DemotedFlat
  <2> QED BY <2>1, <2>2, Zenon
<1>3. CASE ~t.versioned
  <2>1. Superseded(t) = Without(objects, D)
    BY <1>3, Zenon DEF Superseded
  <2>2. FlatRows(Without(objects, D), buckets)
    BY WithoutFlat
  <2> QED BY <2>1, <2>2, Zenon
<1> QED
    BY <1>2, <1>3

\* The rows stay flat when a closure that only reads its bucket writes them.
LEMMA FlatStep ==
    ASSUME LockInv, NEW r \in Reqs,
           \/ DeleteRows(r) \/ DeletePromote(r) \/ DeleteMarker(r) \/ RetentionUpdate(r)
           \/ Commit(r) \/ CrashInClosure(r)
    PROVE  FlatRows(objects', buckets')
<1> DEFINE t == req[r]
           F == Superseded(t)
           D == Demoted(Target(t.bucket, t.key, None))
<1>0. /\ TypeInv /\ FlatRows(objects, buckets) /\ StatusIsFresh(t) /\ objects \in [DOMAIN objects -> Row]
    BY DEF LockInv, Fresh, LatestInv, TypeInv, TypeOK
<1>b. buckets' = buckets
    BY DEF DeleteRows, DeletePromote, DeleteMarker, RetentionUpdate, Commit, CrashInClosure
<1>F. t.pc = "commit" => FlatRows(F, buckets)
    BY <1>0, SupersededFlat DEF StatusIsFresh, Writing
<1>D. t.pc = "delMarker" => FlatRows(D, buckets)
  <2>1. \A i \in Target(t.bucket, t.key, None) : objects[i].bucket = t.bucket
    BY DEF Target, RowsOf
  <2>2. t.pc = "delMarker" => buckets[t.bucket] # "Unversioned"
    BY <1>0 DEF StatusIsFresh
  <2> QED BY <1>0, <2>1, <2>2, DemotedFlat
<1>1. CASE DeleteRows(r)
    BY <1>0, <1>1, <1>b, WithoutFlat DEF DeleteRows
<1>2. CASE DeletePromote(r)
  <2>1. ASSUME NEW i \in Newest(RowsOf(t.bucket, t.key)),
               objects' = With(objects, i, [objects[i] EXCEPT !.latest = TRUE])
        PROVE  FlatRows(objects', buckets')
    <3> DEFINE row == [objects[i] EXCEPT !.latest = TRUE]
    <3>1. i \in DOMAIN objects
      BY DEF Newest, RowsOf
    <3>2. row.latest /\ row.bucket = objects[i].bucket
      BY <1>0, <3>1 DEF Row
    <3>3. Exists(row.bucket)
      BY <1>0, <3>1, <3>2 DEF FlatRows, Exists
    <3> HIDE DEF row
    <3> QED BY <1>0, <1>b, <2>1, <3>2, <3>3, WithFlat DEF row
  <2>2. CASE UNCHANGED objects
    BY <1>0, <1>b, <2>2
  <2> QED BY <1>2, <2>1, <2>2 DEF DeletePromote
<1>3. CASE DeleteMarker(r)
  <2>1. PICK i : \/ Exists(t.bucket) /\ objects' = With(D, i, Marker(t, i))
                 \/ objects' = D
    BY <1>3 DEF DeleteMarker
  <2>2. Marker(t, i).latest /\ Marker(t, i).bucket = t.bucket /\ t.pc = "delMarker"
    BY <1>3 DEF Marker, DeleteMarker
  <2> HIDE DEF D, t
  <2> QED BY <1>D, <1>b, <2>1, <2>2, WithFlat
<1>4. CASE RetentionUpdate(r)
  <2>1. DOMAIN objects' = DOMAIN objects
    BY <1>4 DEF RetentionUpdate
  <2>2. \A i \in DOMAIN objects :
          objects'[i].bucket = objects[i].bucket /\ objects'[i].latest = objects[i].latest
    BY <1>0, <1>4, ZenonT(90) DEF RetentionUpdate, Row
  <2> QED BY <1>0, <1>b, <2>1, <2>2 DEF FlatRows
<1>5. CASE Commit(r)
  <2>1. /\ t.pc = "commit"
        /\ \/ Exists(t.bucket) /\ objects' = With(F, t.id, NewRow(t))
           \/ objects' = F
    BY <1>5, Zenon DEF Commit
  <2>2. NewRow(t).latest /\ NewRow(t).bucket = t.bucket
    BY DEF NewRow
  <2> HIDE DEF F, t
  <2> QED BY <1>F, <1>b, <2>1, <2>2, WithFlat
<1>6. CASE CrashInClosure(r)
    BY <1>6, <1>F, <1>D, <1>b DEF CrashInClosure
<1> QED
    BY <1>1, <1>2, <1>3, <1>4, <1>5, <1>6

\* A task that has asked nothing yet, or no longer needs the answer, is fresh.
LEMMA LooseFresh ==
    ASSUME NEW r, req'[r].pc \in {"idle", "got", "getBlob", "copySrc", "copyDst", "dropBucket",
                                  "delUnlink", "delPromote", "retain"}
    PROVE  Fresh(req[r])'
    BY DEF Fresh, StatusIsFresh, LocksAreFresh, Writing, HardDeleting

\* A task whose record is fresh for the tables as they stay.
LEMMA SameFresh ==
    ASSUME UNCHANGED <<buckets, objects, now>>, NEW r, NEW t, req'[r] = t, Fresh(t)
    PROVE  Fresh(req[r])'
<1>1. StatusIsFresh(req[r])'
    BY DEF Fresh, StatusIsFresh, Writing, HardDeleting, Exists
<1>2. Victims(t)' = Victims(t)
    BY DEF Target, Victims, RowsOf
<1>3. \A i : Locked(objects[i])' <=> Locked(objects[i])
    BY DEF Locked
<1>4. LocksAreFresh(req[r])'
    BY <1>2, <1>3 DEF Fresh, LocksAreFresh, HardDeleting
<1> QED
    BY <1>1, <1>4 DEF Fresh

\* A write that goes on keeps what it has read of its bucket.
LEMMA AdvanceFresh ==
    ASSUME TypeInv, UNCHANGED <<buckets, objects, now>>, NEW r \in Reqs, Fresh(req[r]),
           Writing(req[r]), NEW pc, Goto(r, pc),
           pc \in {"putStream", "putPlace", "putSealed", "putRename", "commit"}
    PROVE  Fresh(req[r])'
<1> DEFINE t == [req[r] EXCEPT !.pc = pc]
<1>1. /\ req'[r] = t /\ t.pc = pc /\ t.versioned = req[r].versioned /\ t.bucket = req[r].bucket
    BY DEF TypeInv, TypeOK, Task, Goto
<1> HIDE DEF t
<1>2. Fresh(t)
    BY <1>1 DEF Fresh, StatusIsFresh, LocksAreFresh, Writing, HardDeleting
<1> QED
    BY <1>1, <1>2, SameFresh

\* What a call reads when it begins is fresh.
LEMMA BeginFresh ==
    ASSUME LockInv, NEW r \in Reqs, Begin(r)
    PROVE  UNCHANGED <<buckets, objects, now>> /\ Fresh(req[r])'
<1> DEFINE Goal == UNCHANGED <<buckets, objects, now>> /\ Fresh(req[r])'
<1>0. /\ req \in [Reqs -> Task] /\ TypeInv /\ VersionIdsUnique /\ LatestIsNewest
    BY DEF LockInv, VidInv, LatestInv, TypeInv, TypeOK
<1>1. ASSUME NEW b, DeleteBucketCheck(r, b) PROVE Goal
  <2>1. req'[r].pc = "dropBucket" /\ UNCHANGED <<buckets, objects, now>>
    BY <1>0, <1>1 DEF DeleteBucketCheck, Idle
  <2> QED BY <2>1, LooseFresh
<1>2. ASSUME NEW b, NEW k, NEW body, NEW alg, PutStart(r, b, k, body, alg) PROVE Goal
  <2> DEFINE t(i) == [Idle EXCEPT !.pc = "putOpen", !.bucket = b, !.key = k,
                                  !.body = body, !.etag = body, !.alg = alg,
                                  !.versioned = (buckets[b] = "Enabled"), !.id = i]
  <2>1. UNCHANGED <<buckets, objects, now>> /\ \E i : req'[r] = t(i)
    BY <1>0, <1>2 DEF PutStart
  <2>2. ASSUME NEW i
        PROVE  t(i).pc = "putOpen" /\ t(i).bucket = b /\ t(i).versioned = (buckets[b] = "Enabled")
    BY DEF Idle
  <2> HIDE DEF t
  <2>3. ASSUME NEW i PROVE Fresh(t(i))
    BY <2>2 DEF Fresh, StatusIsFresh, LocksAreFresh, HardDeleting
  <2> QED BY <2>1, <2>3, SameFresh
<1>3. ASSUME NEW sb, NEW sk, NEW b, NEW k, CopyHead(r, sb, sk, b, k) PROVE Goal
  <2> DEFINE t(i) == [Idle EXCEPT !.pc = "copySrc", !.bucket = b, !.key = k,
                                  !.sbucket = sb, !.skey = sk,
                                  !.vid = objects[i].vid, !.etag = objects[i].etag]
  <2>1. UNCHANGED <<buckets, objects, now>> /\ \E i : req'[r] = t(i)
    BY <1>0, <1>3 DEF CopyHead
  <2>2. \A i : t(i).pc = "copySrc"
    BY DEF Idle
  <2> HIDE DEF t
  <2> QED BY <2>1, <2>2, LooseFresh
<1>4. ASSUME NEW b, NEW k, NEW v, GetRow(r, b, k, v) PROVE Goal
  <2> DEFINE t(i) == [Idle EXCEPT !.pc = "getBlob", !.bucket = b, !.key = k,
                                  !.vid = objects[i].vid, !.id = i,
                                  !.etag = objects[i].etag, !.alg = objects[i].alg]
  <2>1. UNCHANGED <<buckets, objects, now>> /\ \E i : req'[r] = t(i)
    BY <1>0, <1>4 DEF GetRow
  <2>2. \A i : t(i).pc = "getBlob"
    BY DEF Idle
  <2> HIDE DEF t
  <2> QED BY <2>1, <2>2, LooseFresh
<1>5. ASSUME NEW b, NEW k, NEW v, DeleteStart(r, b, k, v) PROVE Goal
  <2> DEFINE t == [Idle EXCEPT !.pc = "delLock", !.bucket = b, !.key = k, !.vid = v,
                               !.versioned = (buckets[b] \in {"Enabled", "Suspended"})]
  <2>1. UNCHANGED <<buckets, objects, now>> /\ req'[r] = t /\ Exists(b)
    BY <1>0, <1>5 DEF DeleteStart
  <2>2. /\ t.pc = "delLock" /\ t.bucket = b
        /\ t.versioned = (buckets[b] \in {"Enabled", "Suspended"})
    BY DEF Idle
  <2> HIDE DEF t
  <2>3. Fresh(t)
    BY <2>1, <2>2 DEF Fresh, StatusIsFresh, LocksAreFresh, HardDeleting, Writing
  <2> QED BY <2>1, <2>3, SameFresh
<1>6. ASSUME NEW b, NEW k, NEW v, NEW m, NEW d, NEW p, RetentionCheck(r, b, k, v, m, d, p)
      PROVE  Goal
  <2> DEFINE t == [Idle EXCEPT !.pc = "retain", !.bucket = b, !.key = k, !.vid = v,
                               !.mode = m, !.until = d]
  <2>1. UNCHANGED <<buckets, objects, now>> /\ req'[r] = t
    BY <1>0, <1>6 DEF RetentionCheck
  <2>2. t.pc = "retain"
    BY DEF Idle
  <2> HIDE DEF t
  <2> QED BY <2>1, <2>2, LooseFresh
<1> HIDE DEF Goal
<1>7. Goal
    BY <1>1, <1>2, <1>3, <1>4, <1>5, <1>6 DEF Begin
<1> QED
    BY <1>7 DEF Goal

\* The check of a delete covers all the rows that its DELETE will name.
LEMMA LockCheckFresh ==
    ASSUME LockInv, NEW r \in Reqs, DeleteLockCheck(r)
    PROVE  Fresh(req[r])'
<1> DEFINE t == [req[r] EXCEPT !.pc = AfterLockCheck(req[r])]
           S == Target(req[r].bucket, req[r].key, req[r].vid)
<1>0. /\ req \in [Reqs -> Task] /\ TypeInv /\ VersionIdsUnique /\ LatestIsNewest
      /\ Fresh(req[r]) /\ FlatRows(objects, buckets)
    BY DEF LockInv, VidInv, LatestInv, TypeInv, TypeOK
<1>1. CASE Finish(r)
  <2>1. req'[r].pc = "idle"
    BY <1>0, <1>1 DEF Finish, Idle
  <2> QED BY <2>1, LooseFresh
<1>2. CASE /\ S = {} \/ \E i \in S : ~Locked(objects[i])
           /\ Goto(r, AfterLockCheck(req[r]))
  <2>1. /\ req'[r] = t /\ t.pc = AfterLockCheck(req[r]) /\ t.versioned = req[r].versioned
        /\ t.bucket = req[r].bucket /\ t.key = req[r].key /\ t.vid = req[r].vid
    BY <1>0, <1>2 DEF Goto, Task
  <2>2. UNCHANGED <<buckets, objects, now>> /\ req[r].pc = "delLock"
    BY DEF DeleteLockCheck
  <2>3. /\ t.pc \in {"delMarker", "delSelect"}
        /\ t.pc = "delMarker" <=> t.vid = None /\ t.versioned
    BY <2>1 DEF AfterLockCheck
  <2>4. \A i \in S : ~Locked(objects[i])
    BY <1>0, <1>2, TargetIsOne
  <2>5. t.pc = "delSelect" => Victims(t) \subseteq S
    <3>1. ASSUME t.pc = "delSelect", t.vid = None, NEW i \in RowsOf(t.bucket, t.key)
          PROVE  i \in Target(t.bucket, t.key, None)
      <4>1. buckets[t.bucket] = "Unversioned"
        BY <1>0, <2>1, <2>2, <2>3, <3>1
        DEF Fresh, StatusIsFresh, TypeInv, TypeOK, Statuses, Exists, Armed
      <4> QED BY <1>0, <3>1, <4>1 DEF FlatRows, Target, RowsOf
    <3> QED BY <2>1, <3>1 DEF Victims
  <2> HIDE DEF t, S
  <2>6. StatusIsFresh(t)
    BY <1>0, <2>1, <2>2, <2>3 DEF Fresh, StatusIsFresh, Writing, HardDeleting
  <2>7. LocksAreFresh(t)
    BY <2>3, <2>4, <2>5 DEF LocksAreFresh, HardDeleting
  <2> QED BY <2>1, <2>2, <2>6, <2>7, SameFresh DEF Fresh
<1> QED
    BY <1>1, <1>2 DEF DeleteLockCheck

\* Every step of one call after the other keeps the lock invariant.
LEMMA LockStep ==
    ASSUME OneAtATime, DistinctSeconds, LockInv, [Next]_vars
    PROVE  LockInv'
<1> DEFINE Goal == FlatRows(objects', buckets') /\ \A q \in Reqs : Fresh(req[q])'
<1>0. /\ TypeInv /\ req \in [Reqs -> Task] /\ FlatRows(objects, buckets)
      /\ objects \in [DOMAIN objects -> Row] /\ buckets \in [Buckets -> Statuses] /\ now \in Nat
      /\ \A q \in Reqs : Fresh(req[q])
    BY DEF LockInv, LatestInv, TypeInv, TypeOK
<1>o. ASSUME NEW r \in Reqs, NEW q \in Reqs PROVE q = r
    BY DEF OneAtATime
<1>u. ASSUME UNCHANGED <<buckets, objects, now>>, NEW r \in Reqs, Fresh(req[r])' PROVE Goal
    BY <1>0, <1>o, <1>u
<1>f. ASSUME NEW r \in Reqs, Finish(r), FlatRows(objects', buckets') PROVE Goal
  <2>1. req'[r].pc = "idle"
    BY <1>0, <1>f DEF Finish, Idle
  <2>2. Fresh(req[r])'
    BY <2>1, LooseFresh
  <2> QED BY <1>f, <1>o, <2>2
<1>fu. ASSUME NEW r \in Reqs, Finish(r), UNCHANGED <<buckets, objects>> PROVE Goal
    BY <1>0, <1>f, <1>fu
<1>1. ASSUME NEW r \in Reqs, Begin(r) PROVE Goal
    BY <1>1, <1>u, BeginFresh
<1>2. ASSUME NEW r \in Reqs, NEW b \in Buckets, CreateBucket(r, b) PROVE Goal
  <2>1. /\ Free(r) /\ buckets[b] = "absent" /\ UNCHANGED <<objects, req>>
        /\ buckets' = [buckets EXCEPT ![b] = "Unversioned"]
    BY <1>2 DEF CreateBucket, Exists
  <2>2. \A i \in DOMAIN objects : objects[i].bucket \in Buckets \ {b}
    BY <1>0, <2>1 DEF FlatRows, Row
  <2>3. FlatRows(objects', buckets')
    BY <1>0, <2>1, <2>2 DEF FlatRows
  <2>4. req'[r].pc \in {"idle", "got"}
    BY <2>1 DEF Free
  <2>5. Fresh(req[r])'
    BY <2>4, LooseFresh
  <2> QED BY <1>o, <2>3, <2>5
<1>3. ASSUME NEW r \in Reqs, NEW b \in Buckets, NEW status \in {"Enabled", "Suspended"},
             SetBucketVersioning(r, b, status)
      PROVE  Goal
  <2>1. /\ Free(r) /\ UNCHANGED <<objects, req>> /\ buckets' = [buckets EXCEPT ![b] = status]
    BY <1>3 DEF SetBucketVersioning
  <2>2. \A i \in DOMAIN objects : objects[i].bucket \in Buckets
    BY <1>0 DEF Row
  <2>3. FlatRows(objects', buckets')
    BY <1>0, <2>1, <2>2 DEF FlatRows
  <2>4. req'[r].pc \in {"idle", "got"}
    BY <2>1 DEF Free
  <2>5. Fresh(req[r])'
    BY <2>4, LooseFresh
  <2> QED BY <1>o, <2>3, <2>5
<1>4. ASSUME NEW r \in Reqs, NEW b, NEW k, NEW v, NEW on, PutLegalHold(r, b, k, v, on) PROVE Goal
  <2>1. /\ Free(r) /\ UNCHANGED <<buckets, req>>
        /\ DOMAIN objects' = DOMAIN objects
    BY <1>4 DEF PutLegalHold
  <2>2. \A i \in DOMAIN objects :
           objects'[i].bucket = objects[i].bucket /\ objects'[i].latest = objects[i].latest
    BY <1>0, <1>4, ZenonT(90) DEF PutLegalHold, Row
  <2>3. FlatRows(objects', buckets')
    BY <1>0, <2>1, <2>2 DEF FlatRows
  <2>4. req'[r].pc \in {"idle", "got"}
    BY <2>1 DEF Free
  <2>5. Fresh(req[r])'
    BY <2>4, LooseFresh
  <2> QED BY <1>o, <2>3, <2>5
<1>5. ASSUME NEW r \in Reqs, DeleteBucketCommit(r) PROVE Goal
  <2> DEFINE b == req[r].bucket
             D == {i \in DOMAIN objects : objects[i].bucket = b}
  <2>1. buckets' = [buckets EXCEPT ![b] = "absent"] /\ objects' = Without(objects, D) /\ Finish(r)
    BY <1>5 DEF DeleteBucketCommit
  <2>2. \A i \in DOMAIN objects' : i \in DOMAIN objects /\ objects'[i] = objects[i] /\ objects[i].bucket # b
    BY <2>1 DEF Without
  <2>3. \A i \in DOMAIN objects : objects[i].bucket \in Buckets
    BY <1>0 DEF Row
  <2>4. FlatRows(objects', buckets')
    BY <1>0, <2>1, <2>2, <2>3 DEF FlatRows
  <2> QED BY <1>f, <2>1, <2>4
<1>6. ASSUME NEW r \in Reqs,
             \/ PutOpenTmp(r) \/ PutStreamBody(r) \/ PutSeal(r) \/ PutDropPlain(r) \/ PutRename(r)
      PROVE  Goal
  <2>1. /\ UNCHANGED <<buckets, objects, now>> /\ Writing(req[r])
        /\ \E pc \in {"putStream", "putPlace", "putSealed", "putRename", "commit"} : Goto(r, pc)
    BY <1>6 DEF PutOpenTmp, PutStreamBody, PutSeal, PutDropPlain, PutRename, Writing
  <2>2. Fresh(req[r])'
    BY <1>0, <2>1, AdvanceFresh
  <2> QED BY <1>u, <2>1, <2>2
<1>7. ASSUME NEW r \in Reqs, CopyBlob(r) PROVE Goal
  <2>1. UNCHANGED <<buckets, objects, now>> /\ Writing(req[r]) /\ (Goto(r, "commit") \/ Finish(r))
    BY <1>7 DEF CopyBlob, Writing
  <2>2. Goto(r, "commit") => Fresh(req[r])'
    BY <1>0, <2>1, AdvanceFresh
  <2> QED BY <1>fu, <1>u, <2>1, <2>2
<1>8. ASSUME NEW r \in Reqs,
             \/ Commit(r) \/ DeletePromote(r) \/ DeleteMarker(r) \/ RetentionUpdate(r)
      PROVE  Goal
  <2>1. FlatRows(objects', buckets')
    BY <1>8, FlatStep
  <2>2. Finish(r)
    BY <1>8 DEF Commit, DeletePromote, DeleteMarker, RetentionUpdate
  <2> QED BY <1>f, <2>1, <2>2
<1>9. ASSUME NEW r \in Reqs, GetBlob(r) PROVE Goal
  <2>1. UNCHANGED <<buckets, objects, now>> /\ (Finish(r) \/ req'[r].pc = "got")
    BY <1>0, <1>9 DEF GetBlob, Task
  <2> QED BY <1>fu, <1>u, <2>1, LooseFresh
<1>10. ASSUME NEW r \in Reqs, CopySource(r) PROVE Goal
  <2>1. UNCHANGED <<buckets, objects, now>> /\ (Finish(r) \/ req'[r].pc = "copyDst")
    BY <1>0, <1>10 DEF CopySource, Task
  <2> QED BY <1>fu, <1>u, <2>1, LooseFresh
<1>11. ASSUME NEW r \in Reqs, CopyDestination(r) PROVE Goal
  <2> DEFINE t(i) == [req[r] EXCEPT !.pc = "copyBlob", !.id = i,
                                    !.versioned = (buckets[req[r].bucket] = "Enabled")]
  <2>1. UNCHANGED <<buckets, objects, now>> /\ (Finish(r) \/ \E i : req'[r] = t(i))
    BY <1>0, <1>11 DEF CopyDestination
  <2>2. ASSUME NEW i
        PROVE  /\ t(i).pc = "copyBlob" /\ t(i).bucket = req[r].bucket
               /\ t(i).versioned = (buckets[req[r].bucket] = "Enabled")
    BY <1>0 DEF Task
  <2> HIDE DEF t
  <2>3. ASSUME NEW i PROVE Fresh(t(i))
    BY <2>2 DEF Fresh, StatusIsFresh, LocksAreFresh, HardDeleting
  <2>4. ASSUME NEW i, req'[r] = t(i) PROVE Goal
    <3>1. Fresh(req[r])'
      BY <2>1, <2>3, <2>4, SameFresh
    <3> QED BY <1>u, <2>1, <3>1
  <2> QED BY <1>fu, <2>1, <2>4
<1>12. ASSUME NEW r \in Reqs, DeleteLockCheck(r) PROVE Goal
  <2>1. UNCHANGED <<buckets, objects, now>>
    BY <1>12 DEF DeleteLockCheck
  <2> QED BY <1>12, <1>u, <2>1, LockCheckFresh
<1>13. ASSUME NEW r \in Reqs, DeleteSelect(r) PROVE Goal
  <2> DEFINE t == [req[r] EXCEPT !.pc = "delRows", !.ids = Victims(req[r])]
  <2>1. UNCHANGED <<buckets, objects, now>> /\ req'[r] = t /\ req[r].pc = "delSelect"
    BY <1>0, <1>13 DEF DeleteSelect
  <2>2. /\ t.pc = "delRows" /\ t.versioned = req[r].versioned /\ t.vid = req[r].vid
        /\ t.bucket = req[r].bucket /\ t.key = req[r].key
    BY <1>0 DEF Task
  <2> HIDE DEF t
  <2>3. Victims(t) = Victims(req[r])
    BY <2>2 DEF Victims
  <2>4. Fresh(t)
    BY <1>0, <2>1, <2>2, <2>3 DEF Fresh, StatusIsFresh, LocksAreFresh, HardDeleting, Writing
  <2>5. Fresh(req[r])'
    BY <2>1, <2>4, SameFresh
  <2> QED BY <1>u, <2>1, <2>5
<1>14. ASSUME NEW r \in Reqs, DeleteRows(r) PROVE Goal
  <2>1. FlatRows(objects', buckets')
    BY <1>14, FlatStep
  <2>2. req'[r].pc = "delUnlink"
    BY <1>0, <1>14 DEF DeleteRows, Goto, Task
  <2> QED BY <1>o, <2>1, <2>2, LooseFresh
<1>15. ASSUME NEW r \in Reqs, DeleteUnlink(r) PROVE Goal
  <2>1. UNCHANGED <<buckets, objects, now>>
    BY <1>15 DEF DeleteUnlink
  <2>2. Finish(r) \/ req'[r].pc \in {"delUnlink", "delPromote"}
    BY <1>0, <1>15 DEF DeleteUnlink, Goto, Task
  <2> QED BY <1>fu, <1>u, <2>1, <2>2, LooseFresh
<1>16. ASSUME NEW r \in Reqs, PutBodyError(r) \/ PutWithoutKey(r) \/ Abandon(r) PROVE Goal
    BY <1>16, <1>fu DEF PutBodyError, PutWithoutKey, Abandon
<1>17. ASSUME NEW r \in Reqs, CrashInClosure(r) PROVE Goal
  <2>1. FlatRows(objects', buckets')
    BY <1>17, FlatStep
  <2>2. req'[r].pc = "idle"
    BY <1>17 DEF CrashInClosure, Idle
  <2> QED BY <1>o, <2>1, <2>2, LooseFresh
<1>18. ASSUME Crash PROVE Goal
  <2>1. PICK r \in Reqs : TRUE
    BY <1>18 DEF Crash
  <2>2. req'[r].pc = "idle" /\ UNCHANGED <<buckets, objects, now>>
    BY <1>18 DEF Crash, Idle
  <2> QED BY <1>u, <2>1, <2>2, LooseFresh
<1>19. ASSUME Tick PROVE Goal
  <2>1. now' = now + 1 /\ UNCHANGED <<buckets, objects, req>>
    BY <1>19 DEF Tick
  <2>2. ASSUME NEW i \in DOMAIN objects, ~Locked(objects[i]) PROVE ~Locked(objects[i])'
    BY <1>0, <2>1, <2>2 DEF Locked, Row
  <2>3. ASSUME NEW q \in Reqs PROVE Fresh(req[q])'
    <3>1. StatusIsFresh(req[q])'
      BY <1>0, <2>1, <2>3 DEF Fresh, StatusIsFresh, Writing, HardDeleting, Exists
    <3>2. /\ Victims(req[q])' = Victims(req[q]) /\ Victims(req[q]) \subseteq DOMAIN objects
          /\ Target(req[q].bucket, req[q].key, req[q].vid)' = Target(req[q].bucket, req[q].key, req[q].vid)
      BY <2>1 DEF Victims, Target, RowsOf
    <3>3. LocksAreFresh(req[q])'
      BY <1>0, <2>1, <2>2, <2>3, <3>2 DEF Fresh, LocksAreFresh, HardDeleting
    <3> QED BY <3>1, <3>3 DEF Fresh
  <2> QED BY <1>0, <2>1, <2>3
<1>20. ASSUME UNCHANGED vars PROVE Goal
  <2>1. UNCHANGED <<buckets, objects, now, req>>
    BY <1>20 DEF vars
  <2>2. ASSUME NEW q \in Reqs PROVE Fresh(req[q])'
    BY <1>0, <2>1, <2>2, SameFresh
  <2> QED BY <1>0, <2>1, <2>2
<1> HIDE DEF Goal
<1>21. ASSUME NEW r \in Reqs, AtomicCall(r) PROVE Goal
    BY <1>2, <1>3, <1>4, <1>21 DEF AtomicCall
<1>22. ASSUME NEW r \in Reqs, Continue(r) PROVE Goal
    BY <1>5, <1>6, <1>7, <1>8, <1>9, <1>10, <1>11, <1>12, <1>13, <1>14, <1>15, <1>22 DEF Continue
<1>23. Goal
    BY <1>1, <1>16, <1>17, <1>18, <1>19, <1>20, <1>21, <1>22 DEF Next
<1>24. VidInv' /\ LatestInv'
    BY VidStep, LatestStep DEF LockInv
<1> QED
    BY <1>23, <1>24 DEF LockInv, Goal

\* The lock invariant holds in every reachable state.
LEMMA LockInvHolds == DistinctSeconds /\ OneAtATime => (Spec => []LockInv)
<1> SUFFICES ASSUME DistinctSeconds, OneAtATime PROVE Spec => []LockInv
    OBVIOUS
<1>1. Init => LockInv
  <2> SUFFICES ASSUME Init PROVE LockInv
    OBVIOUS
  <2>1. VidInv
    BY InitSafe DEF Init, VidInv, OwnVersionIds, VersionIdsUnique
  <2>2. LatestInv
    BY InitType DEF Init, LatestInv, CreatedBefore, CreatedApart, LatestIsNewest
  <2>3. \A r \in Reqs : req[r].pc = "idle"
    BY DEF Init, Idle
  <2>4. \A r \in Reqs : Fresh(req[r])
    BY <2>3 DEF Fresh, StatusIsFresh, LocksAreFresh, Writing, HardDeleting
  <2>5. FlatRows(objects, buckets)
    BY DEF Init, FlatRows
  <2> QED BY <2>1, <2>2, <2>4, <2>5 DEF LockInv
<1>2. LockInv /\ [Next]_vars => LockInv'
    BY LockStep
<1> QED
    BY <1>1, <1>2, PTL DEF Spec

\* As long as calls do not overlap, a delete removes no locked version: the
\* row object_delete_locked looked at is the only one its DELETE names, also
\* when the call names no version and the DELETE takes every row of the key.
THEOREM DeletesAreChecked == DistinctSeconds /\ OneAtATime => (Spec => DeletesRespectLocks)
<1> SUFFICES ASSUME DistinctSeconds, OneAtATime PROVE Spec => DeletesRespectLocks
    OBVIOUS
<1>1. LockInv /\ [Next]_vars =>
        [\A i \in DOMAIN objects \ DOMAIN objects' :
            (\E r \in Reqs : req[r].pc = "delRows" /\ req'[r].pc = "delUnlink")
               => ~Locked(objects[i])]_vars
  <2> SUFFICES ASSUME LockInv, [Next]_vars, NEW i \in DOMAIN objects \ DOMAIN objects',
                      NEW r \in Reqs, req[r].pc = "delRows", req'[r].pc = "delUnlink"
               PROVE  ~Locked(objects[i])
    OBVIOUS
  <2>0. req \in [Reqs -> Task]
    BY DEF LockInv, LatestInv, TypeInv, TypeOK
  <2>1. \A q \in Reqs : req[q].pc = "delRows" /\ ~Free(q)
    BY DEF OneAtATime, Free
  <2>2. ASSUME NEW q \in Reqs, Begin(q) PROVE FALSE
    <3>1. ASSUME NEW b, DeleteBucketCheck(q, b) PROVE Free(q)
      BY <3>1 DEF DeleteBucketCheck
    <3>2. ASSUME NEW b, NEW k, NEW body, NEW alg, PutStart(q, b, k, body, alg) PROVE Free(q)
      BY <3>2 DEF PutStart
    <3>3. ASSUME NEW sb, NEW sk, NEW b, NEW k, CopyHead(q, sb, sk, b, k) PROVE Free(q)
      BY <3>3 DEF CopyHead
    <3>4. ASSUME NEW b, NEW k, NEW v, GetRow(q, b, k, v) PROVE Free(q)
      BY <3>4 DEF GetRow
    <3>5. ASSUME NEW b, NEW k, NEW v, DeleteStart(q, b, k, v) PROVE Free(q)
      BY <3>5 DEF DeleteStart
    <3>6. ASSUME NEW b, NEW k, NEW v, NEW m, NEW d, NEW p, RetentionCheck(q, b, k, v, m, d, p)
          PROVE  Free(q)
      BY <3>6 DEF RetentionCheck
    <3> QED BY <2>1, <2>2, <3>1, <3>2, <3>3, <3>4, <3>5, <3>6 DEF Begin
  <2>3. ASSUME NEW q \in Reqs, Continue(q) PROVE DeleteRows(q)
    BY <2>1, <2>3
    DEF Continue, DeleteBucketCommit, PutOpenTmp, PutStreamBody, PutSeal, PutDropPlain,
        PutRename, Commit, GetBlob, CopySource, CopyDestination, CopyBlob, DeleteLockCheck,
        DeleteSelect, DeleteUnlink, DeletePromote, DeleteMarker, RetentionUpdate
  <2>4. ASSUME NEW q \in Reqs, AtomicCall(q) PROVE FALSE
    BY <2>1, <2>4 DEF AtomicCall, CreateBucket, SetBucketVersioning, PutLegalHold
  <2>5. ASSUME \/ \E q \in Reqs : PutBodyError(q) \/ PutWithoutKey(q) \/ Abandon(q)
               \/ Crash \/ Tick \/ UNCHANGED vars
        PROVE  FALSE
    BY <2>5 DEF PutBodyError, PutWithoutKey, Abandon, Crash, Tick, vars
  <2>6. ASSUME NEW q \in Reqs, CrashInClosure(q) PROVE FALSE
    BY <2>1, <2>6 DEF CrashInClosure
  <2>7. PICK q \in Reqs : DeleteRows(q)
    BY <2>2, <2>3, <2>4, <2>5, <2>6 DEF Next
  <2>8. i \in Victims(req[q])
    BY <2>7 DEF DeleteRows, Without
  <2> QED BY <2>1, <2>8 DEF LockInv, Fresh, LocksAreFresh, HardDeleting
<1> QED
    BY <1>1, LockInvHolds, PTL DEF Spec, DeletesRespectLocks
=============================================================================
