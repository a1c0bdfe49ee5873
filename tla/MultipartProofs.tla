--------------------------- MODULE MultipartProofs ---------------------------
(***************************************************************************)
(* Theorems about Multipart for every value of its constants.              *)
(*                                                                         *)
(* Type correctness holds however the clients behave.  The two safety      *)
(* theorems are about clients that do not send a part again once it has a  *)
(* row (~Resend): the code truncates the file a complete may be reading.   *)
(***************************************************************************)
EXTENDS Multipart, TLAPS

Busy(t) == t.pc \notin {"idle", "dropBucket"}

Sending(t) == t.pc \in {"partOpen", "partWrite", "partRow"}

Holding(t) == t.pc \in {"read", "blob", "commit"}

\* A task at work has the arguments its steps use.
Armed(t, ulids) ==
    /\ t.pc \notin {"idle", "dropBucket"} => t.upload \in Uploads \cap ulids
    /\ Sending(t) => t.part \in PartNumbers /\ t.body \in Bodies
    /\ Holding(t) => t.id \in Ids \cap ulids

TablesOK ==
    /\ DOMAIN uploads \subseteq Uploads \cap used
    /\ uploads \in [DOMAIN uploads -> {"none", "AES256", "SSE-C"}]
    /\ DOMAIN parts \subseteq Slots /\ parts \in [DOMAIN parts -> Bodies]
    /\ DOMAIN objects \subseteq Ids
    /\ objects \in [DOMAIN objects -> [etag : Lists(Bodies), latest : BOOLEAN]]

DiskOK ==
    /\ dirs \subseteq Uploads
    /\ DOMAIN files \subseteq Slots /\ files \in [DOMAIN files -> SUBSET Bodies]
    /\ DOMAIN blobs \subseteq Ids /\ blobs \in [DOMAIN blobs -> Lists(SUBSET Bodies)]

TasksOK == req \in [Reqs -> Task] /\ \A r \in Reqs : Armed(req[r], used)

CleanerOK ==
    /\ cleaner \in [pc : {"sleep", "next", "rows"}, found : SUBSET Uploads,
                    upload : Uploads \cup {None}]
    /\ cleaner.pc = "rows" => cleaner.upload \in Uploads
    /\ cleaner.found \subseteq aged

CountersOK ==
    /\ bucket \in {"absent", "other", "Enabled"}
    /\ used \subseteq Uploads \cup Ids /\ aged \subseteq Uploads /\ crashes \in Nat

TypeInv == TablesOK /\ DiskOK /\ TasksOK /\ CleanerOK /\ CountersOK

-----------------------------------------------------------------------------
(* The inductive invariant behind the safety theorems.                     *)

Slot(t) == <<t.upload, t.part>>

\* An upload id that is not in the table is given to one create at most, and
\* no other task knows it; a removed upload never comes back.
UploadsInv ==
    /\ \A r, q \in Reqs :
        req[r].pc = "createRow" =>
            /\ req[r].upload \notin DOMAIN uploads
            /\ Busy(req[q]) /\ req[q].upload = req[r].upload => q = r
    /\ \A r \in Reqs : req[r].pc = "removeDir" => req[r].upload \notin DOMAIN uploads
    /\ \A s \in DOMAIN parts : s[1] \in DOMAIN uploads

\* A part is on its way in one task only and has no row yet.
SendersInv ==
    \A r \in Reqs : Sending(req[r]) =>
        /\ Slot(req[r]) \notin DOMAIN parts
        /\ \A q \in Reqs : Sending(req[q]) /\ Slot(req[q]) = Slot(req[r]) => q = r

\* What the file of a part on its way holds; its name is gone only when the
\* upload is, or when the cleaner may take it.
Sent(t) ==
    t.pc \in {"partWrite", "partRow"} =>
        IF t.linked
        THEN /\ Slot(t) \in DOMAIN files
             /\ files[Slot(t)] = IF t.pc = "partWrite" THEN {} ELSE {t.body}
        ELSE /\ Slot(t) \notin DOMAIN files
             /\ t.upload \notin DOMAIN uploads \/ t.upload \in aged

SentInv == \A r \in Reqs : Sent(req[r])

\* The file of a part on record holds its body, and is there unless stale.
RowsInv ==
    \A s \in DOMAIN parts :
        /\ s \in DOMAIN files => files[s] = {parts[s]}
        /\ s[1] \notin aged => s \in DOMAIN files

\* A part on the list of a complete that has validated it: nobody writes it,
\* and nobody may start to.
Settled(r, n) ==
    LET s == <<req[r].upload, n>> IN
    /\ s \in DOMAIN files => files[s] = {req[r].claim[n]}
    /\ \A q \in Reqs : Sending(req[q]) => Slot(req[q]) # s
    /\ s \in DOMAIN parts \/ req[r].upload \notin DOMAIN uploads

SettledInv ==
    \A r \in Reqs : req[r].pc = "read" => \A n \in DOMAIN req[r].claim : Settled(r, n)

\* What a complete has read so far is what it validated.
Reader(t) ==
    /\ t.pc \in {"status", "validate"} => t.got = Nothing
    /\ Holding(t) =>
        /\ \A m, n \in DOMAIN t.claim : n < m => t.claim[n] \in Large
        /\ \A n \in DOMAIN t.got : n \in DOMAIN t.claim /\ t.got[n] = {t.claim[n]}
    /\ t.pc \in {"blob", "commit"} => DOMAIN t.got = DOMAIN t.claim

ReadersInv == \A r \in Reqs : Reader(req[r])

\* The id of an object to be belongs to one complete, which wrote its blob
\* before it commits.
IdsInv ==
    /\ DOMAIN objects \subseteq used
    /\ \A r \in Reqs : Holding(req[r]) =>
        /\ req[r].id \notin DOMAIN objects
        /\ \A q \in Reqs : Holding(req[q]) /\ req[q].id = req[r].id => q = r
        /\ req[r].pc = "commit" => req[r].id \in DOMAIN blobs /\ blobs[req[r].id] = req[r].got

SafeInv ==
    /\ TypeInv
    /\ UploadsInv /\ SendersInv /\ SentInv /\ RowsInv /\ SettledInv /\ ReadersInv /\ IdsInv
    /\ AssembledAsValidated

-----------------------------------------------------------------------------
(* Lemmas about the operators.                                             *)

\* A list is a function from some part numbers.
LEMMA ListsDef ==
    ASSUME NEW S, NEW f
    PROVE  f \in Lists(S) <=> DOMAIN f \subseteq PartNumbers /\ f \in [DOMAIN f -> S]
<1>1. ASSUME f \in Lists(S)
      PROVE  DOMAIN f \subseteq PartNumbers /\ f \in [DOMAIN f -> S]
  <2>1. PICK D \in SUBSET PartNumbers : f \in [D -> S]
    BY <1>1 DEF Lists
  <2> QED
    BY <2>1
<1>2. ASSUME DOMAIN f \subseteq PartNumbers, f \in [DOMAIN f -> S]
      PROVE  f \in Lists(S)
    BY <1>2 DEF Lists
<1> QED
    BY <1>1, <1>2

\* The empty function has any range.
LEMMA NothingType ==
    ASSUME NEW S
    PROVE  DOMAIN Nothing = {} /\ Nothing \in [DOMAIN Nothing -> S] /\ Nothing \in Lists(S)
<1>1. DOMAIN Nothing = {} /\ Nothing \in [DOMAIN Nothing -> S]
    BY DEF Nothing
<1> QED
    BY <1>1, ListsDef

\* A task at rest is a task and needs nothing.
LEMMA IdleType == Idle \in Task /\ \A U : Armed(Idle, U)
<1>1. Nothing \in Lists(Bodies) /\ Nothing \in Lists(SUBSET Bodies)
    BY NothingType
<1>2. Idle \in Task
    BY <1>1 DEF Idle, Task, Pcs
<1> QED
    BY <1>2 DEF Armed, Sending, Holding, Idle

-----------------------------------------------------------------------------
(* Type correctness.                                                       *)

\* Nothing is stored at first.
LEMMA InitType == Init => TypeInv
<1> SUFFICES ASSUME Init PROVE TypeInv
    OBVIOUS
<1>1. \A S : DOMAIN Nothing = {} /\ Nothing \in [DOMAIN Nothing -> S]
    BY NothingType
<1>2. TablesOK /\ DiskOK
    BY <1>1 DEF Init, TablesOK, DiskOK
<1>3. TasksOK
    BY IdleType DEF Init, TasksOK
<1>4. CleanerOK /\ CountersOK
    BY DEF Init, CleanerOK, CountersOK, Resting
<1> QED
    BY <1>2, <1>3, <1>4 DEF TypeInv

\* The parts of TypeInv that a step leaves alone.
LEMMA SameTypes ==
    ASSUME TypeInv
    PROVE  /\ used \subseteq used' /\ UNCHANGED tables => TablesOK'
           /\ UNCHANGED disk => DiskOK'
           /\ used \subseteq used' /\ UNCHANGED req => TasksOK'
           /\ aged \subseteq aged' /\ UNCHANGED cleaner => CleanerOK'
           /\ UNCHANGED <<bucket, used, aged, crashes>> => CountersOK'
<1>1. used \subseteq used' /\ UNCHANGED tables => TablesOK'
    BY DEF TypeInv, TablesOK, tables
<1>2. UNCHANGED disk => DiskOK'
    BY DEF TypeInv, DiskOK, disk
<1>3. used \subseteq used' /\ UNCHANGED req => TasksOK'
    BY DEF TypeInv, TasksOK, Armed
<1>4. aged \subseteq aged' /\ UNCHANGED cleaner => CleanerOK'
    BY DEF TypeInv, CleanerOK
<1>5. UNCHANGED <<bucket, used, aged, crashes>> => CountersOK'
    BY DEF TypeInv, CountersOK
<1> QED
    BY <1>1, <1>2, <1>3, <1>4, <1>5

\* The table of tasks after one of them is given a well-formed record.
LEMMA SetTask ==
    ASSUME TypeInv, NEW r \in Reqs, NEW t \in Task, used \subseteq used', Armed(t, used'),
           req' = [req EXCEPT ![r] = t]
    PROVE  TasksOK'
<1>1. \A q \in Reqs : Armed(req[q], used')
    BY DEF TypeInv, TasksOK, Armed
<1>2. req \in [Reqs -> Task]
    BY DEF TypeInv, TasksOK
<1> QED
    BY <1>1, <1>2 DEF TasksOK

\* A task that returns.
LEMMA FinishType ==
    ASSUME TypeInv, NEW r \in Reqs, used \subseteq used', Finish(r)
    PROVE  TasksOK'
    BY IdleType, SetTask DEF Finish

\* A task that only moves its program counter.
LEMMA GotoType ==
    ASSUME TypeInv, NEW r \in Reqs, NEW pc \in Pcs, Goto(r, pc), used \subseteq used',
           Armed([req[r] EXCEPT !.pc = pc], used')
    PROVE  TasksOK'
<1> DEFINE t == [req[r] EXCEPT !.pc = pc]
<1>0. req[r] \in Task
    BY DEF TypeInv, TasksOK
<1>1. t \in Task
    BY <1>0, Zenon DEF Task
<1>2. req' = [req EXCEPT ![r] = t]
    BY DEF Goto
<1>3. Armed(t, used')
    OBVIOUS
<1> HIDE DEF t
<1> QED
    BY <1>1, <1>2, <1>3, SetTask

\* Tasks whose file was unlinked are tasks.
LEMMA UnlinkedType ==
    ASSUME TypeInv, NEW u
    PROVE  Unlinked(u) \in [Reqs -> Task] /\ \A q \in Reqs : Armed(Unlinked(u)[q], used)
<1> SUFFICES ASSUME NEW q \in Reqs
             PROVE  Unlinked(u)[q] \in Task /\ Armed(Unlinked(u)[q], used)
    BY DEF Unlinked
<1>1. req[q] \in Task /\ Armed(req[q], used)
    BY DEF TypeInv, TasksOK
<1>2. [req[q] EXCEPT !.linked = FALSE] \in Task
    BY <1>1 DEF Task
<1>3. Armed([req[q] EXCEPT !.linked = FALSE], used)
    BY <1>1 DEF Armed, Sending, Holding, Task
<1>4. Unlinked(u)[q] \in {req[q], [req[q] EXCEPT !.linked = FALSE]}
    BY DEF Unlinked
<1> QED
    BY <1>1, <1>2, <1>3, <1>4

\* A step that starts a call changes its task and hands out ids at most.
LEMMA StartType ==
    ASSUME TypeInv, NEW r \in Reqs, NEW t \in Task, Armed(t, used'),
           req' = [req EXCEPT ![r] = t], used \subseteq used', used' \subseteq Uploads \cup Ids,
           UNCHANGED <<bucket, tables, files, blobs, aged, cleaner, crashes>>,
           dirs' \subseteq Uploads
    PROVE  TypeInv'
<1>1. TasksOK'
    BY SetTask
<1>2. TablesOK' /\ CleanerOK'
    BY SameTypes
<1>3. DiskOK' /\ CountersOK'
    BY DEF TypeInv, DiskOK, CountersOK
<1> QED
    BY <1>1, <1>2, <1>3 DEF TypeInv

\* Every call starts with well-typed arguments.
LEMMA BeginType ==
    ASSUME TypeInv, NEW r \in Reqs, Begin(r)
    PROVE  TypeInv'
<1>0. /\ used \subseteq Uploads \cup Ids /\ dirs \subseteq Uploads
      /\ Nothing \in Lists(Bodies) /\ Nothing \in Lists(SUBSET Bodies)
    BY NothingType DEF TypeInv, CountersOK, DiskOK
<1>1. CASE DeleteBucketCheck(r)
  <2>1. req[r] \in Task /\ req[r].pc = "idle"
    BY <1>1 DEF TypeInv, TasksOK, DeleteBucketCheck
  <2>2. Armed([req[r] EXCEPT !.pc = "dropBucket"], used')
    BY <2>1 DEF Armed, Sending, Holding, Task
  <2>3. TasksOK'
    BY <1>1, <2>2, GotoType DEF DeleteBucketCheck, Pcs
  <2> QED
    BY <1>1, <2>3, SameTypes DEF DeleteBucketCheck, TypeInv
<1>2. ASSUME NEW alg \in Algorithms, CreateStart(r, alg) PROVE TypeInv'
  <2>1. PICK u \in Uploads \ used :
          /\ used' = used \cup {u} /\ dirs' = dirs \cup {u}
          /\ req' = [req EXCEPT ![r] = [Idle EXCEPT !.pc = "createRow",
                                                    !.upload = u, !.alg = alg]]
    BY <1>2 DEF CreateStart
  <2> DEFINE t == [Idle EXCEPT !.pc = "createRow", !.upload = u, !.alg = alg]
  <2>a. alg \in {"none", "AES256", "SSE-C"}
    BY MultipartConstants
  <2>2. t \in Task
    BY <1>0, <2>a DEF Idle, Task, Pcs
  <2>3. Armed(t, used')
    BY <2>1 DEF Armed, Sending, Holding, Idle
  <2>4. req' = [req EXCEPT ![r] = t]
    BY <2>1
  <2> HIDE DEF t
  <2> QED
    BY <1>0, <1>2, <2>1, <2>2, <2>3, <2>4, StartType DEF CreateStart
<1>3. ASSUME NEW u \in Uploads, NEW n \in PartNumbers, NEW body \in Bodies,
             PartStart(r, u, n, body)
      PROVE  TypeInv'
  <2> DEFINE t == [Idle EXCEPT !.pc = "partOpen", !.upload = u, !.part = n, !.body = body]
  <2>1. t \in Task
    BY <1>0 DEF Idle, Task, Pcs
  <2>2. u \in used
    BY <1>3 DEF PartStart, TypeInv, TablesOK
  <2>3. req' = [req EXCEPT ![r] = t] /\ UNCHANGED <<bucket, tables, disk, used, aged, cleaner, crashes>>
    BY <1>3 DEF PartStart
  <2>4. Armed(t, used')
    BY <2>2, <2>3 DEF Armed, Sending, Holding, Idle
  <2> HIDE DEF t
  <2> QED
    BY <1>0, <2>1, <2>3, <2>4, StartType DEF disk
<1>4. ASSUME NEW u \in Uploads, NEW claim \in Lists(Bodies), CompleteStart(r, u, claim)
      PROVE  TypeInv'
  <2> DEFINE a == uploads[u]
             t == [Idle EXCEPT !.pc = "status", !.upload = u, !.claim = claim, !.alg = a]
  <2>1. u \in used /\ a \in {"none", "AES256", "SSE-C"}
    BY <1>4 DEF CompleteStart, TypeInv, TablesOK
  <2>2. /\ req' = [req EXCEPT ![r] = t]
        /\ UNCHANGED <<bucket, tables, disk, used, aged, cleaner, crashes>>
    BY <1>4 DEF CompleteStart
  <2> HIDE DEF a
  <2>3. t \in Task
    BY <1>0, <2>1 DEF Idle, Task, Pcs
  <2>4. Armed(t, used')
    BY <2>1, <2>2 DEF Armed, Sending, Holding, Idle
  <2> HIDE DEF t
  <2> QED
    BY <1>0, <2>2, <2>3, <2>4, StartType DEF disk
<1>5. ASSUME NEW u \in Uploads, AbortStart(r, u) PROVE TypeInv'
  <2> DEFINE t == [Idle EXCEPT !.pc = "abortRows", !.upload = u]
  <2>1. t \in Task
    BY <1>0 DEF Idle, Task, Pcs
  <2>2. u \in used
    BY <1>5 DEF AbortStart, TypeInv, TablesOK
  <2>3. req' = [req EXCEPT ![r] = t] /\ UNCHANGED <<bucket, tables, disk, used, aged, cleaner, crashes>>
    BY <1>5 DEF AbortStart
  <2>4. Armed(t, used')
    BY <2>2, <2>3 DEF Armed, Sending, Holding, Idle
  <2> HIDE DEF t
  <2> QED
    BY <1>0, <2>1, <2>3, <2>4, StartType DEF disk
<1> QED
    BY <1>1, <1>2, <1>3, <1>4, <1>5 DEF Begin

\* Deleting an upload's rows keeps the tables' types.
LEMMA DeleteUploadType ==
    ASSUME TypeInv, NEW u, DeleteUpload(u), UNCHANGED used, DOMAIN objects' \subseteq Ids,
           objects' \in [DOMAIN objects' -> [etag : Lists(Bodies), latest : BOOLEAN]]
    PROVE  TablesOK'
<1>1. DOMAIN parts' \subseteq Slots /\ parts' \in [DOMAIN parts' -> Bodies]
    BY DEF TypeInv, TablesOK, DeleteUpload, Without
<1>2. /\ DOMAIN uploads' \subseteq Uploads \cap used
      /\ uploads' \in [DOMAIN uploads' -> {"none", "AES256", "SSE-C"}]
    BY DEF TypeInv, TablesOK, DeleteUpload, Without
<1> QED
    BY <1>1, <1>2 DEF TablesOK

\* Removing an upload's directory keeps the files' types.
LEMMA RemoveDirType ==
    ASSUME TypeInv, NEW u, RemoveDir(u), UNCHANGED blobs
    PROVE  DiskOK'
<1>1. DOMAIN files' \subseteq Slots /\ files' \in [DOMAIN files' -> SUBSET Bodies]
    BY DEF TypeInv, DiskOK, RemoveDir, Without
<1> QED
    BY <1>1 DEF TypeInv, DiskOK, RemoveDir

\* The table a commit leaves behind.
LEMMA AssembledType ==
    ASSUME TypeInv, NEW t \in Task, t.id \in Ids
    PROVE  /\ DOMAIN Superseded(t) \subseteq Ids /\ DOMAIN Superseded(t) \subseteq DOMAIN objects
           /\ Superseded(t) \in [DOMAIN Superseded(t) -> [etag : Lists(Bodies), latest : BOOLEAN]]
           /\ \A i \in DOMAIN Superseded(t) : Superseded(t)[i].etag = objects[i].etag
           /\ DOMAIN Assembled(t) = DOMAIN Superseded(t) \cup {t.id}
           /\ DOMAIN Assembled(t) \subseteq Ids
           /\ Assembled(t) \in [DOMAIN Assembled(t) -> [etag : Lists(Bodies), latest : BOOLEAN]]
           /\ Assembled(t)[t.id].etag = t.claim
           /\ \A i \in DOMAIN Superseded(t) : i # t.id => Assembled(t)[i] = Superseded(t)[i]
<1> DEFINE Rows == [etag : Lists(Bodies), latest : BOOLEAN]
           old  == [i \in DOMAIN objects |-> [objects[i] EXCEPT !.latest = FALSE]]
           new  == [etag |-> t.claim, latest |-> TRUE]
<1>0. DOMAIN objects \subseteq Ids /\ objects \in [DOMAIN objects -> Rows]
    BY DEF TypeInv, TablesOK
<1>1. /\ DOMAIN old = DOMAIN objects
      /\ \A i \in DOMAIN objects : old[i] \in Rows /\ old[i].etag = objects[i].etag
    BY <1>0
<1>2. old \in [DOMAIN old -> Rows]
    BY <1>1
<1>3. DOMAIN Nothing = {} /\ Nothing \in [DOMAIN Nothing -> Rows]
    BY NothingType
<1>4. new \in Rows /\ new.etag = t.claim
    BY DEF Task
<1>5. Superseded(t) = old \/ Superseded(t) = Nothing
    BY Zenon DEF Superseded
<1>6. Assembled(t) = With(Superseded(t), t.id, new)
    BY DEF Assembled
<1> HIDE DEF old, new, Rows
<1>7. /\ DOMAIN Superseded(t) \subseteq Ids /\ DOMAIN Superseded(t) \subseteq DOMAIN objects
      /\ Superseded(t) \in [DOMAIN Superseded(t) -> Rows]
      /\ \A i \in DOMAIN Superseded(t) : Superseded(t)[i].etag = objects[i].etag
    BY <1>0, <1>1, <1>2, <1>3, <1>5
<1>8. /\ DOMAIN Assembled(t) = DOMAIN Superseded(t) \cup {t.id}
      /\ DOMAIN Assembled(t) \subseteq Ids
      /\ Assembled(t) \in [DOMAIN Assembled(t) -> Rows]
      /\ Assembled(t)[t.id] = new
      /\ \A i \in DOMAIN Superseded(t) : i # t.id => Assembled(t)[i] = Superseded(t)[i]
    BY <1>4, <1>6, <1>7 DEF With
<1> QED
    BY <1>4, <1>7, <1>8 DEF Rows

\* The steps of create, of upload_part, of abort and of the bucket keep the types.
LEMMA PartType ==
    ASSUME TypeInv, NEW r \in Reqs,
           \/ DeleteBucketCommit(r) \/ CreateRow(r) \/ PartOpen(r) \/ PartWrite(r)
           \/ PartRow(r) \/ AbortRows(r) \/ RemoveUploadDir(r)
    PROVE  TypeInv'
<1> DEFINE t == req[r]
<1>0. t \in Task /\ Armed(t, used)
    BY DEF TypeInv, TasksOK
<1>1. CASE DeleteBucketCommit(r)
  <2>1. \A S : DOMAIN Nothing = {} /\ Nothing \in [DOMAIN Nothing -> S]
    BY NothingType
  <2>2. TablesOK'
    BY <1>1, <2>1 DEF DeleteBucketCommit, TablesOK
  <2>3. TasksOK'
    BY <1>1, FinishType DEF DeleteBucketCommit
  <2>4. CountersOK'
    BY <1>1 DEF DeleteBucketCommit, TypeInv, CountersOK
  <2> QED
    BY <1>1, <2>2, <2>3, <2>4, SameTypes DEF DeleteBucketCommit, TypeInv
<1>2. CASE CreateRow(r)
  <2>1. t.upload \in Uploads \cap used /\ t.alg \in {"none", "AES256", "SSE-C"}
    BY <1>0, <1>2 DEF CreateRow, Armed, Task
  <2>2. /\ DOMAIN uploads' \subseteq Uploads \cap used
        /\ uploads' \in [DOMAIN uploads' -> {"none", "AES256", "SSE-C"}]
    <3>1. uploads' = uploads \/ uploads' = With(uploads, t.upload, t.alg)
      BY <1>2 DEF CreateRow
    <3>2. /\ DOMAIN uploads \subseteq Uploads \cap used
          /\ uploads \in [DOMAIN uploads -> {"none", "AES256", "SSE-C"}]
      BY DEF TypeInv, TablesOK
    <3> HIDE DEF t
    <3> QED
      BY <2>1, <3>1, <3>2 DEF With
  <2>3. TablesOK'
    BY <1>2, <2>2 DEF CreateRow, TypeInv, TablesOK
  <2>4. TasksOK'
    BY <1>2, FinishType DEF CreateRow
  <2> QED
    BY <1>2, <2>3, <2>4, SameTypes DEF CreateRow, TypeInv
<1>3. CASE PartOpen(r)
  <2>1. t.upload \in Uploads \cap used /\ t.part \in PartNumbers /\ t.body \in Bodies
    BY <1>0, <1>3 DEF PartOpen, Armed, Sending
  <2>2. Slot(t) \in Slots /\ files' = With(files, Slot(t), {}) /\ dirs' = dirs \cup {t.upload}
    BY <1>3, <2>1 DEF PartOpen, Slots, Slot
  <2>3. DOMAIN files' \subseteq Slots /\ files' \in [DOMAIN files' -> SUBSET Bodies]
    BY <2>2 DEF TypeInv, DiskOK, With
  <2>4. DiskOK'
    BY <1>3, <2>1, <2>2, <2>3 DEF PartOpen, TypeInv, DiskOK
  <2> DEFINE x == [t EXCEPT !.pc = "partWrite", !.linked = TRUE]
  <2>5. x \in Task
    BY <1>0, Zenon DEF Task, Pcs
  <2>6. Armed(x, used')
    BY <1>0, <1>3, <2>1, <2>5 DEF Armed, Sending, Holding, Task, PartOpen
  <2>7. req' = [req EXCEPT ![r] = x]
    BY <1>3 DEF PartOpen
  <2> HIDE DEF x
  <2>8. TasksOK'
    BY <1>3, <2>5, <2>6, <2>7, SetTask DEF PartOpen
  <2> QED
    BY <1>3, <2>4, <2>8, SameTypes DEF PartOpen, TypeInv
<1>4. CASE PartWrite(r)
  <2>1. t.upload \in Uploads \cap used /\ t.part \in PartNumbers /\ t.body \in Bodies
    BY <1>0, <1>4 DEF PartWrite, Armed, Sending
  <2>2. DOMAIN files' \subseteq Slots /\ files' \in [DOMAIN files' -> SUBSET Bodies]
    BY <1>4, <2>1 DEF PartWrite, TypeInv, DiskOK
  <2>3. DiskOK'
    BY <1>4, <2>2 DEF PartWrite, TypeInv, DiskOK
  <2>4. Armed([t EXCEPT !.pc = "partRow"], used')
    BY <1>0, <1>4, <2>1 DEF Armed, Sending, Holding, Task, PartWrite
  <2>5. TasksOK'
    BY <1>4, <2>4, GotoType DEF PartWrite, Pcs
  <2> QED
    BY <1>4, <2>3, <2>5, SameTypes DEF PartWrite, TypeInv
<1>5. CASE PartRow(r)
  <2>1. t.upload \in Uploads \cap used /\ t.part \in PartNumbers /\ t.body \in Bodies
    BY <1>0, <1>5 DEF PartRow, Armed, Sending
  <2>2. Slot(t) \in Slots
    BY <2>1 DEF Slots, Slot
  <2>3. parts' = With(parts, Slot(t), t.body) \/ parts' = Without(parts, {Slot(t)})
    BY <1>5 DEF PartRow, Slot
  <2>4. DOMAIN parts' \subseteq Slots /\ parts' \in [DOMAIN parts' -> Bodies]
    <3>1. DOMAIN parts \subseteq Slots /\ parts \in [DOMAIN parts -> Bodies]
      BY DEF TypeInv, TablesOK
    <3> HIDE DEF t
    <3> QED
      BY <2>1, <2>2, <2>3, <3>1 DEF With, Without
  <2>5. TablesOK'
    BY <1>5, <2>4 DEF PartRow, TypeInv, TablesOK
  <2>6. TasksOK'
    BY <1>5, FinishType DEF PartRow
  <2> QED
    BY <1>5, <2>5, <2>6, SameTypes DEF PartRow, TypeInv
<1>6. CASE AbortRows(r)
  <2>1. Armed([t EXCEPT !.pc = "removeDir"], used')
    BY <1>0, <1>6 DEF Armed, Sending, Holding, Task, AbortRows
  <2>2. TasksOK'
    BY <1>6, <2>1, GotoType DEF AbortRows, Pcs
  <2>3. TablesOK'
    BY <1>6, DeleteUploadType DEF AbortRows, TypeInv, TablesOK
  <2> QED
    BY <1>6, <2>2, <2>3, SameTypes DEF AbortRows, TypeInv
<1>7. CASE RemoveUploadDir(r)
  <2>1. DiskOK'
    BY <1>7, RemoveDirType DEF RemoveUploadDir
  <2>2. TasksOK'
    BY <1>7, UnlinkedType, IdleType DEF RemoveUploadDir, TasksOK
  <2> QED
    BY <1>7, <2>1, <2>2, SameTypes DEF RemoveUploadDir, TypeInv
<1> QED
    BY <1>1, <1>2, <1>3, <1>4, <1>5, <1>6, <1>7

\* The steps of complete keep the types.
LEMMA CompleteType ==
    ASSUME TypeInv, NEW r \in Reqs,
           \/ CompleteStatus(r) \/ CompleteValidate(r) \/ CompleteRead(r)
           \/ CompleteBlob(r) \/ CompleteCommit(r)
    PROVE  TypeInv'
<1> DEFINE t == req[r]
<1>0. t \in Task /\ Armed(t, used) /\ used \subseteq Uploads \cup Ids
    BY DEF TypeInv, TasksOK, CountersOK
<1>1. CASE CompleteStatus(r)
  <2>1. TasksOK'
    <3>1. CASE Finish(r)
      BY <1>1, <3>1, FinishType DEF CompleteStatus
    <3>2. CASE ~Finish(r)
      <4> DEFINE w == (bucket = "Enabled")
                 x == [t EXCEPT !.pc = "validate", !.versioned = w]
      <4>0. w \in BOOLEAN
        OBVIOUS
      <4>1. req' = [req EXCEPT ![r] = x]
        BY <1>1, <3>2 DEF CompleteStatus
      <4> HIDE DEF w
      <4>2. x \in Task
        BY <1>0, <4>0, Zenon DEF Task, Pcs
      <4>3. Armed(x, used')
        BY <1>0, <1>1, <4>2 DEF Armed, Sending, Holding, Task, CompleteStatus
      <4> HIDE DEF x
      <4> QED
        BY <1>1, <4>1, <4>2, <4>3, SetTask DEF CompleteStatus
    <3> QED
      BY <3>1, <3>2
  <2> QED
    BY <1>1, <2>1, SameTypes DEF CompleteStatus, TypeInv
<1>2. CASE CompleteValidate(r)
  <2>1. TasksOK' /\ used \subseteq used' /\ used' \subseteq Uploads \cup Ids
    <3>1. CASE Finish(r) /\ UNCHANGED used
      BY <1>0, <3>1, FinishType
    <3>2. CASE ~(Finish(r) /\ UNCHANGED used)
      <4>1. PICK i \in Ids \ used :
              used' = used \cup {i} /\ req' = [req EXCEPT ![r].pc = "read", ![r].id = i]
        BY <1>2, <3>2 DEF CompleteValidate
      <4> DEFINE x == [t EXCEPT !.pc = "read", !.id = i]
      <4>2. x \in Task
        BY <1>0, Zenon DEF Task, Pcs
      <4>3. Armed(x, used')
        BY <1>0, <1>2, <4>1, <4>2 DEF Armed, Sending, Holding, Task, CompleteValidate
      <4>4. req' = [req EXCEPT ![r] = x]
        BY <4>1
      <4> HIDE DEF x
      <4> QED
        BY <1>0, <4>1, <4>2, <4>3, <4>4, SetTask
    <3> QED
      BY <3>1, <3>2
  <2>2. CountersOK'
    BY <1>2, <2>1 DEF CompleteValidate, TypeInv, CountersOK
  <2> QED
    BY <1>2, <2>1, <2>2, SameTypes DEF CompleteValidate, TypeInv
<1>3. CASE CompleteRead(r)
  <2>1. TasksOK'
    <3>1. CASE Finish(r)
      BY <1>3, <3>1, FinishType DEF CompleteRead
    <3>2. CASE Goto(r, "blob")
      <4>1. Armed([t EXCEPT !.pc = "blob"], used')
        BY <1>0, <1>3 DEF Armed, Sending, Holding, Task, CompleteRead
      <4> QED
        BY <1>3, <3>2, <4>1, GotoType DEF CompleteRead, Pcs
    <3>3. CASE \E n \in DOMAIN t.claim :
                 /\ <<t.upload, n>> \in DOMAIN files
                 /\ req' = [req EXCEPT ![r].got = With(@, n, files[<<t.upload, n>>])]
      <4>1. PICK n \in DOMAIN t.claim :
                 /\ <<t.upload, n>> \in DOMAIN files
                 /\ req' = [req EXCEPT ![r].got = With(t.got, n, files[<<t.upload, n>>])]
        BY <1>0, <3>3 DEF TypeInv, TasksOK
      <4> DEFINE g == With(t.got, n, files[<<t.upload, n>>])
                 x == [t EXCEPT !.got = g]
      <4>2. g \in Lists(SUBSET Bodies)
        <5>1. n \in PartNumbers /\ files[<<t.upload, n>>] \in SUBSET Bodies
          <6>1. t.claim \in Lists(Bodies)
            BY <1>0 DEF Task
          <6>2. DOMAIN t.claim \subseteq PartNumbers
            BY <6>1, ListsDef
          <6> QED
            BY <4>1, <6>2 DEF TypeInv, DiskOK
        <5>2. t.got \in Lists(SUBSET Bodies)
          BY <1>0 DEF Task
        <5>3. DOMAIN t.got \subseteq PartNumbers /\ t.got \in [DOMAIN t.got -> SUBSET Bodies]
          BY <5>2, ListsDef
        <5>4. DOMAIN g \subseteq PartNumbers /\ g \in [DOMAIN g -> SUBSET Bodies]
          BY <5>1, <5>3 DEF With
        <5> QED
          BY <5>4, ListsDef
      <4>3. req' = [req EXCEPT ![r] = x]
        BY <4>1
      <4> HIDE DEF g
      <4>4. x \in Task
        BY <1>0, <4>2, Zenon DEF Task
      <4>5. Armed(x, used')
        BY <1>0, <1>3, <4>4 DEF Armed, Sending, Holding, Task, CompleteRead
      <4> HIDE DEF x
      <4> QED
        BY <1>3, <4>3, <4>4, <4>5, SetTask DEF CompleteRead
    <3> QED
      BY <1>3, <3>1, <3>2, <3>3 DEF CompleteRead
  <2> QED
    BY <1>3, <2>1, SameTypes DEF CompleteRead, TypeInv
<1>4. CASE CompleteBlob(r)
  <2>1. t.id \in Ids /\ t.got \in Lists(SUBSET Bodies)
    BY <1>0, <1>4 DEF CompleteBlob, Armed, Holding, Task
  <2>2. blobs' = blobs \/ blobs' = With(blobs, t.id, t.got)
    BY <1>4 DEF CompleteBlob
  <2>3. DOMAIN blobs' \subseteq Ids /\ blobs' \in [DOMAIN blobs' -> Lists(SUBSET Bodies)]
    BY <2>1, <2>2 DEF TypeInv, DiskOK, With
  <2>4. DiskOK'
    BY <1>4, <2>3 DEF CompleteBlob, TypeInv, DiskOK
  <2>5. TasksOK'
    <3>1. Armed([t EXCEPT !.pc = "commit"], used')
      BY <1>0, <1>4 DEF Armed, Sending, Holding, Task, CompleteBlob
    <3>2. UNCHANGED used /\ (Goto(r, "commit") \/ Finish(r))
      BY <1>4 DEF CompleteBlob
    <3> QED
      BY <3>1, <3>2, GotoType, FinishType DEF Pcs
  <2> QED
    BY <1>4, <2>4, <2>5, SameTypes DEF CompleteBlob, TypeInv
<1>5. CASE CompleteCommit(r)
  <2>1. t.id \in Ids
    BY <1>0, <1>5 DEF CompleteCommit, Armed, Holding
  <2>2. /\ DOMAIN Superseded(t) \subseteq Ids
        /\ Superseded(t) \in [DOMAIN Superseded(t) -> [etag : Lists(Bodies), latest : BOOLEAN]]
        /\ DOMAIN Assembled(t) \subseteq Ids
        /\ Assembled(t) \in [DOMAIN Assembled(t) -> [etag : Lists(Bodies), latest : BOOLEAN]]
    BY <1>0, <2>1, AssembledType
  <2>3. CASE /\ objects' = Assembled(t) /\ DeleteUpload(t.upload) /\ Goto(r, "removeDir")
    <3>1. TablesOK'
      BY <1>5, <2>2, <2>3, DeleteUploadType DEF CompleteCommit
    <3>2. Armed([t EXCEPT !.pc = "removeDir"], used')
      BY <1>0, <1>5 DEF Armed, Sending, Holding, Task, CompleteCommit
    <3>3. TasksOK'
      BY <1>5, <2>3, <3>2, GotoType DEF CompleteCommit, Pcs
    <3> QED
      BY <1>5, <3>1, <3>3, SameTypes DEF CompleteCommit, TypeInv
  <2>4. CASE objects' = Superseded(t) /\ Finish(r) /\ UNCHANGED <<uploads, parts>>
    <3>1. TablesOK'
      BY <1>5, <2>2, <2>4 DEF CompleteCommit, TypeInv, TablesOK
    <3>2. TasksOK'
      BY <1>5, <2>4, FinishType DEF CompleteCommit
    <3> QED
      BY <1>5, <3>1, <3>2, SameTypes DEF CompleteCommit, TypeInv
  <2> QED
    BY <1>5, <2>3, <2>4 DEF CompleteCommit
<1> QED
    BY <1>1, <1>2, <1>3, <1>4, <1>5

\* The cleaner keeps the types.
LEMMA CleanerType ==
    ASSUME TypeInv, Cleaner
    PROVE  TypeInv'
<1>1. CASE CleanerFind
  <2>1. CleanerOK'
    BY <1>1 DEF CleanerFind, TypeInv, TablesOK, CountersOK, CleanerOK, Resting
  <2> QED
    BY <1>1, <2>1, SameTypes DEF CleanerFind, TypeInv
<1>2. CASE CleanerRemoveDir
  <2>1. CASE \E u \in cleaner.found :
               /\ RemoveDir(u) /\ req' = Unlinked(u)
               /\ cleaner' = [pc |-> "rows", found |-> cleaner.found \ {u}, upload |-> u]
    <3>1. PICK u \in cleaner.found :
               /\ RemoveDir(u) /\ req' = Unlinked(u)
               /\ cleaner' = [pc |-> "rows", found |-> cleaner.found \ {u}, upload |-> u]
      BY <2>1
    <3>2. DiskOK'
      BY <1>2, <3>1, RemoveDirType DEF CleanerRemoveDir
    <3>3. TasksOK'
      BY <1>2, <3>1, UnlinkedType DEF CleanerRemoveDir, TasksOK
    <3>4. CleanerOK'
      BY <1>2, <3>1 DEF CleanerRemoveDir, TypeInv, CleanerOK
    <3> QED
      BY <1>2, <3>2, <3>3, <3>4, SameTypes DEF CleanerRemoveDir, TypeInv
  <2>2. CASE cleaner' = Resting /\ UNCHANGED <<dirs, files, req>>
    <3>1. CleanerOK'
      BY <1>2, <2>2 DEF CleanerRemoveDir, CleanerOK, Resting
    <3>2. UNCHANGED disk
      BY <1>2, <2>2 DEF CleanerRemoveDir, disk
    <3> QED
      BY <1>2, <2>2, <3>1, <3>2, SameTypes DEF CleanerRemoveDir, TypeInv
  <2> QED
    BY <1>2, <2>1, <2>2 DEF CleanerRemoveDir
<1>3. CASE CleanerRows
  <2>1. TablesOK'
    BY <1>3, DeleteUploadType DEF CleanerRows, TypeInv, TablesOK
  <2>2. CleanerOK'
    BY <1>3 DEF CleanerRows, TypeInv, CleanerOK
  <2> QED
    BY <1>3, <2>1, <2>2, SameTypes DEF CleanerRows, TypeInv
<1> QED
    BY <1>1, <1>2, <1>3 DEF Cleaner

\* What a crash may leave of the closure at work is well typed.
LEMMA CrashType ==
    ASSUME TypeInv, Crash
    PROVE  TypeInv'
<1> DEFINE Rows == [etag : Lists(Bodies), latest : BOOLEAN]
<1>1. TasksOK'
    BY IdleType DEF Crash, TasksOK
<1>2. CleanerOK' /\ CountersOK'
    BY DEF Crash, TypeInv, CleanerOK, CountersOK, Resting
<1>3. DiskOK'
    BY SameTypes DEF Crash
<1>4. \A R : /\ DOMAIN Without(parts, R) \subseteq Slots
             /\ Without(parts, R) \in [DOMAIN Without(parts, R) -> Bodies]
    BY DEF TypeInv, TablesOK, Without
<1>5. /\ parts' = parts \/ \E R : parts' = Without(parts, R)
      /\ UNCHANGED uploads
    BY DEF Crash, LastStatements, tables
<1>6. DOMAIN objects' \subseteq Ids /\ objects' \in [DOMAIN objects' -> Rows]
  <2>1. CASE UNCHANGED objects
    BY <2>1 DEF TypeInv, TablesOK
  <2>2. ASSUME NEW r \in Reqs, req[r].pc = "commit",
               objects' \in {Superseded(req[r]), Assembled(req[r])}
        PROVE  DOMAIN objects' \subseteq Ids /\ objects' \in [DOMAIN objects' -> Rows]
    <3>1. req[r] \in Task /\ req[r].id \in Ids
      BY <2>2 DEF TypeInv, TasksOK, Armed, Holding
    <3> QED
      BY <2>2, <3>1, AssembledType
  <2> QED
    BY <2>1, <2>2 DEF Crash, LastStatements, tables
<1>7. TablesOK'
    BY <1>4, <1>5, <1>6 DEF Crash, TypeInv, TablesOK
<1> QED
    BY <1>1, <1>2, <1>3, <1>7 DEF TypeInv

\* Every step keeps the types.
LEMMA StepType == TypeInv /\ [Next]_vars => TypeInv'
<1> SUFFICES ASSUME TypeInv, [Next]_vars PROVE TypeInv'
    OBVIOUS
<1>1. CASE CreateBucket \/ \E status \in {"Enabled", "other"} : SetBucketVersioning(status)
  <2>1. CountersOK'
    BY <1>1 DEF CreateBucket, SetBucketVersioning, TypeInv, CountersOK
  <2> QED
    BY <1>1, <2>1, SameTypes DEF CreateBucket, SetBucketVersioning, TypeInv
<1>2. CASE \E r \in Reqs : Begin(r)
    BY <1>2, BeginType
<1>3. CASE \E r \in Reqs : Continue(r)
    BY <1>3, PartType, CompleteType DEF Continue
<1>4. CASE \E r \in Reqs : PartBodyError(r) \/ Abandon(r)
  <2>1. TasksOK'
    BY <1>4, FinishType DEF PartBodyError, Abandon
  <2> QED
    BY <1>4, <2>1, SameTypes DEF PartBodyError, Abandon, TypeInv
<1>5. CASE \E u \in Uploads : Age(u)
  <2>1. CountersOK'
    BY <1>5 DEF Age, TypeInv, CountersOK
  <2> QED
    BY <1>5, <2>1, SameTypes DEF Age, TypeInv
<1>6. CASE Cleaner
    BY <1>6, CleanerType
<1>7. CASE Crash
    BY <1>7, CrashType
<1>8. CASE UNCHANGED vars
    BY <1>8, SameTypes DEF vars, tables, disk, TypeInv
<1> QED
    BY <1>1, <1>2, <1>3, <1>4, <1>5, <1>6, <1>7, <1>8 DEF Next

\* The tables, the part directories, the blobs and the tasks are well typed
\* in every reachable state: in particular every validated list and every
\* blob is made of part numbers and bodies that exist.
THEOREM TypeCorrect == Spec => []TypeOK
<1>1. TypeInv => TypeOK
    BY DEF TypeInv, TypeOK, TablesOK, DiskOK, TasksOK, CleanerOK, CountersOK
<1> QED
    BY <1>1, InitType, StepType, PTL DEF Spec

-----------------------------------------------------------------------------
(* The steps that keep SafeInv, by what they change.                       *)

\* Nothing is stored at first.
LEMMA InitSafe == Init => SafeInv
<1> SUFFICES ASSUME Init PROVE SafeInv
    OBVIOUS
<1>1. DOMAIN Nothing = {}
    BY NothingType
<1>2. \A r \in Reqs : req[r].pc = "idle"
    BY DEF Init, Idle
<1>3. UploadsInv /\ SendersInv /\ SentInv /\ RowsInv
    BY <1>1, <1>2 DEF Init, UploadsInv, SendersInv, SentInv, Sent, RowsInv, Sending
<1>4. SettledInv /\ ReadersInv /\ IdsInv /\ AssembledAsValidated
    BY <1>1, <1>2 DEF Init, SettledInv, ReadersInv, Reader, IdsInv, Holding, AssembledAsValidated
<1> QED
    BY <1>3, <1>4, InitType DEF SafeInv

\* A task that waits for nothing the invariant is about, or is about to
\* remove the directory of an upload that is gone.
Calm(t, D) == ~Busy(t) \/ (t.pc = "removeDir" /\ t.upload \notin D)

\* Rows go, and with them tasks come to rest; files and blobs stay.
LEMMA RowsGo ==
    ASSUME SafeInv, TypeInv', IdsInv', AssembledAsValidated',
           UNCHANGED <<files, blobs>>, aged \subseteq aged',
           \A q \in Reqs : \/ req'[q] = req[q]
                          \/ /\ Calm(req'[q], DOMAIN uploads')
                             /\ Busy(req'[q]) => Busy(req[q]) /\ req'[q].upload = req[q].upload,
           DOMAIN uploads' \subseteq DOMAIN uploads,
           \A s \in DOMAIN parts' : s \in DOMAIN parts /\ parts'[s] = parts[s],
           \A s \in DOMAIN parts' : s[1] \in DOMAIN uploads',
           \A s \in DOMAIN parts, q \in Reqs :
               s \in DOMAIN parts' \/ s[1] \notin DOMAIN uploads' \/ ~Busy(req'[q])
    PROVE  SafeInv'
<1>1. UploadsInv'
    BY DEF SafeInv, UploadsInv, Calm, Busy
<1>2. SendersInv'
    BY DEF SafeInv, SendersInv, Calm, Busy, Sending
<1>3. SentInv'
    BY DEF SafeInv, SentInv, Sent, Calm, Busy, Sending, Slot
<1>4. RowsInv'
    BY DEF SafeInv, RowsInv
<1>5. SettledInv'
  <2> SUFFICES ASSUME NEW r \in Reqs, req'[r].pc = "read", NEW n \in DOMAIN req'[r].claim
               PROVE  Settled(r, n)'
    BY DEF SettledInv
  <2>1. req'[r] = req[r] /\ Busy(req'[r])
    BY DEF Calm, Busy
  <2>2. Settled(r, n)
    BY <2>1 DEF SafeInv, SettledInv
  <2>3. \A q \in Reqs : Sending(req'[q]) => req'[q] = req[q]
    BY DEF Calm, Busy, Sending
  <2>4. <<req[r].upload, n>>[1] = req[r].upload
    OBVIOUS
  <2> QED
    BY <2>1, <2>2, <2>3, <2>4 DEF Settled, Slot
<1>6. ReadersInv'
    BY DEF SafeInv, ReadersInv, Reader, Holding, Calm, Busy
<1> QED
    BY <1>1, <1>2, <1>3, <1>4, <1>5, <1>6 DEF SafeInv

\* A task record x may take the place of task r while tables and files stay
\* as they are.
Fits(r, x) ==
    /\ Busy(x) => \A q \in Reqs \ {r} : req[q].pc = "createRow" => req[q].upload # x.upload
    /\ x.pc = "createRow" =>
        /\ x.upload \notin DOMAIN uploads
        /\ \A q \in Reqs \ {r} : Busy(req[q]) => req[q].upload # x.upload
    /\ x.pc # "removeDir"
    /\ Sending(x) =>
        /\ x.pc = "partOpen" /\ Slot(x) \notin DOMAIN parts
        /\ x.upload \in DOMAIN uploads
        /\ \A q \in Reqs \ {r} : Sending(req[q]) => Slot(req[q]) # Slot(x)
    /\ Reader(x)
    /\ x.pc = "read" => \A n \in DOMAIN x.claim :
        LET s == <<x.upload, n>> IN
        /\ s \in DOMAIN files => files[s] = {x.claim[n]}
        /\ \A q \in Reqs \ {r} : Sending(req[q]) => Slot(req[q]) # s
        /\ s \in DOMAIN parts \/ x.upload \notin DOMAIN uploads
    /\ Holding(x) =>
        /\ x.pc # "commit" /\ x.id \notin DOMAIN objects
        /\ \A q \in Reqs \ {r} : Holding(req[q]) => req[q].id # x.id

\* Such a step keeps the invariant.
LEMMA TaskMoves ==
    ASSUME SafeInv, TypeInv', NEW r \in Reqs, NEW x, Fits(r, x), req' = [req EXCEPT ![r] = x],
           UNCHANGED <<tables, files, blobs, aged>>, used \subseteq used'
    PROVE  SafeInv'
<1>0. /\ req'[r] = x /\ \A q \in Reqs \ {r} : req'[q] = req[q]
      /\ UNCHANGED <<uploads, parts, objects>>
    BY DEF SafeInv, TypeInv, TasksOK, tables
<1>1. UploadsInv'
    BY <1>0 DEF SafeInv, UploadsInv, Fits, Busy
<1>2. SendersInv'
    BY <1>0 DEF SafeInv, SendersInv, Fits
<1>3. SentInv'
  <2>1. \A q \in Reqs \ {r} : Sent(req[q])'
    BY <1>0 DEF SafeInv, SentInv, Sent, Slot
  <2>2. Sent(req[r])'
    BY <1>0 DEF Fits, Sending, Sent
  <2> QED
    BY <2>1, <2>2 DEF SentInv
<1>4. RowsInv'
    BY <1>0 DEF SafeInv, RowsInv
<1>5. SettledInv'
  <2> SUFFICES ASSUME NEW q \in Reqs, req'[q].pc = "read", NEW n \in DOMAIN req'[q].claim
               PROVE  Settled(q, n)'
    BY DEF SettledInv
  <2> DEFINE s == <<req'[q].upload, n>>
  <2>1. CASE q = r
    <3>1. \A p \in Reqs : Sending(req'[p]) => Slot(req'[p]) # s
      BY <1>0, <2>1 DEF Fits, Sending
    <3> QED
      BY <1>0, <2>1, <3>1 DEF Fits, Settled
  <2>2. CASE q # r
    <3>1. req'[q] = req[q] /\ Settled(q, n)
      BY <1>0, <2>2 DEF SafeInv, SettledInv
    <3>2. Sending(x) => Slot(x) # s
      BY <3>1 DEF Fits, Settled, Slot
    <3>3. \A p \in Reqs : Sending(req'[p]) => Slot(req'[p]) # s
      BY <1>0, <3>1, <3>2 DEF Settled
    <3> QED
      BY <1>0, <3>1, <3>3 DEF Settled
  <2> QED
    BY <2>1, <2>2
<1>6. ReadersInv'
    BY <1>0 DEF SafeInv, ReadersInv, Fits
<1>7. IdsInv'
    BY <1>0 DEF SafeInv, IdsInv, Fits
<1>8. AssembledAsValidated'
    BY <1>0 DEF SafeInv, AssembledAsValidated
<1> QED
    BY <1>1, <1>2, <1>3, <1>4, <1>5, <1>6, <1>7, <1>8 DEF SafeInv

\* A step that changes no row, file, blob or task keeps the invariant, and so
\* does a task that comes to rest.
LEMMA TasksRest ==
    ASSUME SafeInv, TypeInv', UNCHANGED <<tables, files, blobs>>,
           aged \subseteq aged', used \subseteq used',
           \A q \in Reqs : req'[q] = req[q] \/ ~Busy(req'[q])
    PROVE  SafeInv'
<1>0. UNCHANGED <<uploads, parts, objects>>
    BY DEF tables
<1>1. IdsInv'
    BY <1>0 DEF SafeInv, IdsInv, Holding, Busy
<1>2. AssembledAsValidated'
    BY <1>0 DEF SafeInv, AssembledAsValidated
<1>3. \A s \in DOMAIN parts : s[1] \in DOMAIN uploads
    BY DEF SafeInv, UploadsInv
<1> QED
    BY <1>0, <1>1, <1>2, <1>3, RowsGo DEF Calm

\* A task that returns is at rest, the others go on.
LEMMA FinishRests ==
    ASSUME TypeInv, NEW r \in Reqs, Finish(r)
    PROVE  \A q \in Reqs : req'[q] = req[q] \/ ~Busy(req'[q])
    BY DEF Finish, TypeInv, TasksOK, Idle, Busy

\* No task that is being created has an upload that has a row.
LEMMA RowIsNotNew ==
    ASSUME SafeInv, NEW u \in DOMAIN uploads
    PROVE  \A q \in Reqs : req[q].pc = "createRow" => req[q].upload # u
    BY DEF SafeInv, UploadsInv

\* The calls start.
LEMMA BeginSafe ==
    ASSUME ~Resend, SafeInv, TypeInv', NEW r \in Reqs, Begin(r)
    PROVE  SafeInv'
<1>1. CASE DeleteBucketCheck(r)
  <2>1. UNCHANGED <<tables, files, blobs, aged, used>>
    BY <1>1 DEF DeleteBucketCheck, disk
  <2>2. \A q \in Reqs : req'[q] = req[q] \/ ~Busy(req'[q])
    BY <1>1 DEF DeleteBucketCheck, Goto, SafeInv, TypeInv, TasksOK, Task, Busy
  <2> QED
    BY <2>1, <2>2, TasksRest
<1>2. ASSUME NEW alg \in Algorithms, CreateStart(r, alg) PROVE SafeInv'
  <2>1. PICK u \in Uploads \ used :
          /\ used' = used \cup {u}
          /\ req' = [req EXCEPT ![r] = [Idle EXCEPT !.pc = "createRow",
                                                    !.upload = u, !.alg = alg]]
    BY <1>2 DEF CreateStart
  <2> DEFINE x == [Idle EXCEPT !.pc = "createRow", !.upload = u, !.alg = alg]
  <2>2. x.pc = "createRow" /\ x.upload = u
    BY DEF Idle
  <2>3. u \notin DOMAIN uploads /\ \A q \in Reqs : Busy(req[q]) => req[q].upload # u
    BY DEF SafeInv, TypeInv, TablesOK, TasksOK, Armed, Busy
  <2>4. req' = [req EXCEPT ![r] = x]
    BY <2>1
  <2> HIDE DEF x
  <2>5. Fits(r, x)
    BY <2>2, <2>3 DEF Fits, Busy, Sending, Holding, Reader
  <2> QED
    BY <1>2, <2>1, <2>4, <2>5, TaskMoves DEF CreateStart
<1>3. ASSUME NEW u \in Uploads, NEW n \in PartNumbers, NEW body \in Bodies,
             PartStart(r, u, n, body)
      PROVE  SafeInv'
  <2> DEFINE x == [Idle EXCEPT !.pc = "partOpen", !.upload = u, !.part = n, !.body = body]
  <2>1. x.pc = "partOpen" /\ x.upload = u /\ Slot(x) = <<u, n>>
    BY DEF Idle, Slot
  <2>2. /\ req' = [req EXCEPT ![r] = x] /\ u \in DOMAIN uploads /\ MaySend(u, n)
        /\ UNCHANGED <<bucket, tables, disk, used, aged, cleaner, crashes>>
    BY <1>3 DEF PartStart
  <2> HIDE DEF x
  <2>3. <<u, n>> \notin DOMAIN parts /\ \A q \in Reqs : Slot(req[q]) # <<u, n>>
    BY <2>2 DEF MaySend, Slot
  <2>4. Fits(r, x)
    BY <2>1, <2>2, <2>3, RowIsNotNew DEF Fits, Busy, Sending, Holding, Reader
  <2> QED
    BY <2>2, <2>4, TaskMoves DEF disk
<1>4. ASSUME NEW u \in Uploads, NEW claim \in Lists(Bodies), CompleteStart(r, u, claim)
      PROVE  SafeInv'
  <2> DEFINE x == [Idle EXCEPT !.pc = "status", !.upload = u, !.claim = claim, !.alg = uploads[u]]
  <2>1. x.pc = "status" /\ x.upload = u /\ x.got = Nothing
    BY DEF Idle
  <2>2. /\ req' = [req EXCEPT ![r] = x] /\ u \in DOMAIN uploads
        /\ UNCHANGED <<bucket, tables, disk, used, aged, cleaner, crashes>>
    BY <1>4 DEF CompleteStart
  <2> HIDE DEF x
  <2>3. Fits(r, x)
    BY <2>1, <2>2, RowIsNotNew DEF Fits, Busy, Sending, Holding, Reader
  <2> QED
    BY <2>2, <2>3, TaskMoves DEF disk
<1>5. ASSUME NEW u \in Uploads, AbortStart(r, u) PROVE SafeInv'
  <2> DEFINE x == [Idle EXCEPT !.pc = "abortRows", !.upload = u]
  <2>1. x.pc = "abortRows" /\ x.upload = u
    BY DEF Idle
  <2>2. /\ req' = [req EXCEPT ![r] = x] /\ u \in DOMAIN uploads
        /\ UNCHANGED <<bucket, tables, disk, used, aged, cleaner, crashes>>
    BY <1>5 DEF AbortStart
  <2> HIDE DEF x
  <2>3. Fits(r, x)
    BY <2>1, <2>2, RowIsNotNew DEF Fits, Busy, Sending, Holding, Reader
  <2> QED
    BY <2>2, <2>3, TaskMoves DEF disk
<1> QED
    BY <1>1, <1>2, <1>3, <1>4, <1>5 DEF Begin

\* Up to the blob, complete only changes its own task.
LEMMA CompleteSafe ==
    ASSUME SafeInv, TypeInv', NEW r \in Reqs,
           CompleteStatus(r) \/ CompleteValidate(r) \/ CompleteRead(r)
    PROVE  SafeInv'
<1> DEFINE t == req[r]
<1>0. /\ t \in Task /\ Armed(t, used) /\ Reader(t)
      /\ UNCHANGED <<tables, files, blobs, aged>> /\ used \subseteq used'
      /\ Busy(t) => \A q \in Reqs \ {r} : req[q].pc = "createRow" => req[q].upload # t.upload
    BY DEF SafeInv, TypeInv, TasksOK, ReadersInv, UploadsInv, CompleteStatus, CompleteValidate,
           CompleteRead, disk
<1>1. CASE Finish(r)
    BY <1>0, <1>1, FinishRests, TasksRest DEF SafeInv
<1>2. CASE CompleteStatus(r) /\ ~Finish(r)
  <2> DEFINE x == [t EXCEPT !.pc = "validate", !.versioned = (bucket = "Enabled")]
  <2>1. req' = [req EXCEPT ![r] = x] /\ t.pc = "status"
    BY <1>2 DEF CompleteStatus
  <2>2. x.pc = "validate" /\ x.upload = t.upload /\ x.got = Nothing
    BY <1>0, <2>1 DEF Task, Reader
  <2> HIDE DEF x
  <2>3. Fits(r, x)
    BY <1>0, <2>1, <2>2 DEF Fits, Busy, Sending, Holding, Reader
  <2> QED
    BY <1>0, <2>1, <2>3, TaskMoves
<1>3. CASE CompleteValidate(r) /\ ~Finish(r)
  <2>1. PICK i \in Ids \ used :
          used' = used \cup {i} /\ req' = [req EXCEPT ![r].pc = "read", ![r].id = i]
    BY <1>3 DEF CompleteValidate
  <2> DEFINE x == [t EXCEPT !.pc = "read", !.id = i]
  <2>2. Valid(t) /\ t.pc = "validate" /\ t.got = Nothing
    BY <1>0, <1>3 DEF CompleteValidate, Reader
  <2>3. /\ x.pc = "read" /\ x.upload = t.upload /\ x.got = Nothing /\ x.claim = t.claim
        /\ x.id = i
    BY <1>0, <2>2 DEF Task
  <2>4. req' = [req EXCEPT ![r] = x]
    BY <2>1
  <2> HIDE DEF x
  <2>5. DOMAIN Nothing = {}
    BY NothingType
  <2>6. Reader(x)
    <3>1. \A m, n \in DOMAIN x.claim : n < m => x.claim[n] \in Large
      BY <2>2, <2>3 DEF Valid
    <3> QED
      BY <2>3, <2>5, <3>1 DEF Reader
  <2>7. ASSUME NEW n \in DOMAIN x.claim
        PROVE  LET s == <<x.upload, n>> IN
               /\ s \in DOMAIN files => files[s] = {x.claim[n]}
               /\ \A q \in Reqs \ {r} : Sending(req[q]) => Slot(req[q]) # s
               /\ s \in DOMAIN parts
    BY <2>2, <2>3, <2>7 DEF Valid, SafeInv, RowsInv, SendersInv
  <2>8. i \notin DOMAIN objects /\ \A q \in Reqs : Holding(req[q]) => req[q].id # i
    BY DEF SafeInv, IdsInv, TypeInv, TasksOK, Armed
  <2>9. Fits(r, x)
    BY <1>0, <2>2, <2>3, <2>6, <2>7, <2>8 DEF Fits, Busy, Sending, Holding
  <2> QED
    BY <1>0, <2>4, <2>9, TaskMoves
<1>4. CASE CompleteRead(r) /\ ~Finish(r)
  <2> DEFINE Left == DOMAIN t.claim \ DOMAIN t.got
  <2>0. t.pc = "read"
    BY <1>4 DEF CompleteRead
  <2>1. ASSUME NEW n \in DOMAIN t.claim
        PROVE  LET s == <<t.upload, n>> IN
               /\ s \in DOMAIN files => files[s] = {t.claim[n]}
               /\ \A q \in Reqs \ {r} : Sending(req[q]) => Slot(req[q]) # s
               /\ s \in DOMAIN parts \/ t.upload \notin DOMAIN uploads
    BY <2>0 DEF SafeInv, SettledInv, Settled
  <2>2. t.id \notin DOMAIN objects /\ \A q \in Reqs \ {r} : Holding(req[q]) => req[q].id # t.id
    BY <2>0 DEF SafeInv, IdsInv, Holding
  <2>3. CASE Left = {} /\ Goto(r, "blob")
    <3> DEFINE x == [t EXCEPT !.pc = "blob"]
    <3>1. req' = [req EXCEPT ![r] = x]
      BY <2>3 DEF Goto
    <3>2. x.pc = "blob" /\ x.upload = t.upload /\ x.got = t.got /\ x.claim = t.claim /\ x.id = t.id
      BY <1>0 DEF Task
    <3> HIDE DEF x
    <3>3. Reader(x)
      BY <1>0, <2>0, <2>3, <3>2 DEF Reader, Holding
    <3>4. Fits(r, x)
      BY <1>0, <2>0, <2>2, <3>2, <3>3 DEF Fits, Busy, Sending, Holding
    <3> QED
      BY <1>0, <3>1, <3>4, TaskMoves
  <2>4. CASE \E n \in Left :
               /\ <<t.upload, n>> \in DOMAIN files
               /\ req' = [req EXCEPT ![r].got = With(@, n, files[<<t.upload, n>>])]
    <3>1. PICK n \in Left :
               /\ <<t.upload, n>> \in DOMAIN files
               /\ req' = [req EXCEPT ![r].got = With(t.got, n, files[<<t.upload, n>>])]
      BY <2>4 DEF SafeInv, TypeInv, TasksOK
    <3> DEFINE g == With(t.got, n, files[<<t.upload, n>>])
               x == [t EXCEPT !.got = g]
    <3>2. files[<<t.upload, n>>] = {t.claim[n]}
      BY <2>1, <3>1
    <3>3. \A m \in DOMAIN g : m \in DOMAIN t.claim /\ g[m] = {t.claim[m]}
      BY <1>0, <2>0, <3>2 DEF With, Reader, Holding
    <3>4. req' = [req EXCEPT ![r] = x]
      BY <3>1
    <3> HIDE DEF g
    <3>5. x.pc = "read" /\ x.upload = t.upload /\ x.got = g /\ x.claim = t.claim /\ x.id = t.id
      BY <1>0, <2>0 DEF Task
    <3> HIDE DEF x
    <3>6. Reader(x)
      BY <1>0, <2>0, <3>3, <3>5 DEF Reader, Holding
    <3>7. Fits(r, x)
      BY <1>0, <2>0, <2>1, <2>2, <3>5, <3>6 DEF Fits, Busy, Sending, Holding
    <3> QED
      BY <1>0, <3>4, <3>7, TaskMoves
  <2> QED
    BY <1>4, <2>3, <2>4 DEF CompleteRead
<1> QED
    BY <1>1, <1>2, <1>3, <1>4

\* The row of a new upload: no other task knows the upload.
LEMMA CreateRowSafe ==
    ASSUME SafeInv, TypeInv', NEW r \in Reqs, CreateRow(r)
    PROVE  SafeInv'
<1> DEFINE u == req[r].upload
<1>0. /\ req[r].pc = "createRow" /\ req' = [req EXCEPT ![r] = Idle]
      /\ uploads' \in {uploads, With(uploads, u, req[r].alg)}
      /\ UNCHANGED <<parts, objects, files, blobs, used, aged>>
    BY DEF CreateRow, Finish, disk
<1>1. /\ req'[r] = Idle /\ Idle.pc = "idle" /\ \A q \in Reqs \ {r} : req'[q] = req[q]
      /\ DOMAIN uploads \subseteq DOMAIN uploads' /\ DOMAIN uploads' \subseteq DOMAIN uploads \cup {u}
    BY <1>0 DEF SafeInv, TypeInv, TasksOK, Idle, With
<1>2. \A q \in Reqs \ {r} : Busy(req[q]) => req[q].upload # u
    BY <1>0 DEF SafeInv, UploadsInv
<1>3. \A q \in Reqs : Busy(req'[q]) => q # r /\ req'[q] = req[q] /\ req[q].upload # u
    BY <1>1, <1>2 DEF Busy
<1>4. UploadsInv'
    BY <1>0, <1>1, <1>3 DEF SafeInv, UploadsInv, Busy
<1>5. SendersInv'
    BY <1>0, <1>3 DEF SafeInv, SendersInv, Sending, Busy
<1>6. SentInv'
    BY <1>0, <1>1, <1>3 DEF SafeInv, SentInv, Sent, Slot, Busy
<1>7. RowsInv' /\ AssembledAsValidated'
    BY <1>0 DEF SafeInv, RowsInv, AssembledAsValidated
<1>8. SettledInv'
  <2> SUFFICES ASSUME NEW q \in Reqs, req'[q].pc = "read", NEW n \in DOMAIN req'[q].claim
               PROVE  Settled(q, n)'
    BY DEF SettledInv
  <2>1. req'[q] = req[q] /\ req[q].upload # u /\ Settled(q, n)
    BY <1>3 DEF Busy, SafeInv, SettledInv
  <2>2. \A p \in Reqs : Sending(req'[p]) => req'[p] = req[p]
    BY <1>3 DEF Busy, Sending
  <2> QED
    BY <1>0, <1>1, <2>1, <2>2 DEF Settled
<1>9. ReadersInv' /\ IdsInv'
    BY <1>0, <1>1 DEF SafeInv, ReadersInv, Reader, IdsInv, Holding
<1> QED
    BY <1>4, <1>5, <1>6, <1>7, <1>8, <1>9 DEF SafeInv

\* What every step of upload_part knows of its slot.
LEMMA SenderFacts ==
    ASSUME SafeInv, NEW r \in Reqs, Sending(req[r])
    PROVE  /\ Slot(req[r]) \notin DOMAIN parts
           /\ \A q \in Reqs \ {r} : Sending(req[q]) => Slot(req[q]) # Slot(req[r])
           /\ \A q \in Reqs : req[q].pc = "read" =>
                  \A n \in DOMAIN req[q].claim : <<req[q].upload, n>> # Slot(req[r])
    BY DEF SafeInv, SendersInv, SettledInv, Settled

\* A sender that writes its own file disturbs nobody.
LEMMA FileStep ==
    ASSUME SafeInv, TypeInv', NEW r \in Reqs, Sending(req[r]), NEW x,
           req' = [req EXCEPT ![r] = x], UNCHANGED <<tables, blobs, used, aged>>,
           x.pc \in {"partWrite", "partRow"}, x.upload = req[r].upload, x.part = req[r].part,
           DOMAIN files' \ {Slot(req[r])} = DOMAIN files \ {Slot(req[r])},
           \A s \in DOMAIN files : s # Slot(req[r]) => files'[s] = files[s],
           Sent(req[r])'
    PROVE  SafeInv'
<1> DEFINE s == Slot(req[r])
<1>0. /\ req'[r] = x /\ \A q \in Reqs \ {r} : req'[q] = req[q]
      /\ UNCHANGED <<uploads, parts, objects>> /\ Slot(x) = s
    BY DEF SafeInv, TypeInv, TasksOK, tables, Slot
<1>1. /\ s \notin DOMAIN parts
      /\ \A q \in Reqs \ {r} : Sending(req[q]) => Slot(req[q]) # s
      /\ \A q \in Reqs : req[q].pc = "read" =>
             \A n \in DOMAIN req[q].claim : <<req[q].upload, n>> # s
    BY SenderFacts
<1> HIDE DEF s
<1>2. UploadsInv'
    BY <1>0 DEF SafeInv, UploadsInv, Busy, Sending
<1>3. SendersInv'
    BY <1>0, <1>1 DEF SafeInv, SendersInv
<1>4. SentInv'
  <2> SUFFICES ASSUME NEW q \in Reqs \ {r} PROVE Sent(req[q])'
    BY DEF SentInv
  <2>1. Sent(req[q]) /\ req'[q] = req[q]
    BY <1>0 DEF SafeInv, SentInv
  <2>2. Sending(req[q]) => Slot(req[q]) # s
    BY <1>1
  <2> QED
    BY <1>0, <2>1, <2>2 DEF s, Sent, Sending, Slot
<1>5. RowsInv'
    BY <1>0, <1>1 DEF s, SafeInv, RowsInv
<1>6. SettledInv'
  <2> SUFFICES ASSUME NEW q \in Reqs, req'[q].pc = "read", NEW n \in DOMAIN req'[q].claim
               PROVE  Settled(q, n)'
    BY DEF SettledInv
  <2>1. req'[q] = req[q] /\ Settled(q, n) /\ <<req[q].upload, n>> # s
    BY <1>0, <1>1 DEF SafeInv, SettledInv
  <2>2. \A p \in Reqs : Sending(req'[p]) => Slot(req'[p]) # <<req[q].upload, n>>
    BY <1>0, <2>1 DEF Settled
  <2> QED
    BY <1>0, <2>1, <2>2 DEF s, Settled
<1>7. ReadersInv' /\ IdsInv' /\ AssembledAsValidated'
    BY <1>0 DEF SafeInv, ReadersInv, Reader, IdsInv, Holding, AssembledAsValidated
<1> QED
    BY <1>2, <1>3, <1>4, <1>5, <1>6, <1>7 DEF SafeInv

\* upload_part opens and writes its file.
LEMMA WriteSafe ==
    ASSUME SafeInv, TypeInv', NEW r \in Reqs, PartOpen(r) \/ PartWrite(r)
    PROVE  SafeInv'
<1> DEFINE t == req[r]
<1>0. t \in Task /\ Sent(t)
    BY DEF SafeInv, TypeInv, TasksOK, SentInv
<1>1. CASE PartOpen(r)
  <2> DEFINE x == [t EXCEPT !.pc = "partWrite", !.linked = TRUE]
  <2>1. /\ t.pc = "partOpen" /\ files' = With(files, Slot(t), {}) /\ req' = [req EXCEPT ![r] = x]
        /\ UNCHANGED <<tables, blobs, used, aged>>
    BY <1>1 DEF PartOpen, Slot
  <2>2. x.pc = "partWrite" /\ x.upload = t.upload /\ x.part = t.part /\ x.linked = TRUE
    BY <1>0 DEF Task
  <2>3. Slot(x) \in DOMAIN files' /\ files'[Slot(x)] = {} /\ req'[r] = x
    BY <2>1, <2>2 DEF With, Slot, SafeInv, TypeInv, TasksOK
  <2> HIDE DEF x
  <2>4. Sent(req[r])'
    BY <2>2, <2>3 DEF Sent, Slot
  <2>5. /\ DOMAIN files' \ {Slot(t)} = DOMAIN files \ {Slot(t)}
        /\ \A s \in DOMAIN files : s # Slot(t) => files'[s] = files[s]
    BY <2>1 DEF With
  <2> QED
    BY <2>1, <2>2, <2>4, <2>5, FileStep DEF Sending
<1>2. CASE PartWrite(r)
  <2> DEFINE x == [t EXCEPT !.pc = "partRow"]
  <2>1. /\ t.pc = "partWrite" /\ req' = [req EXCEPT ![r] = x]
        /\ files' = IF t.linked THEN [files EXCEPT ![Slot(t)] = files[Slot(t)] \cup {t.body}]
                                ELSE files
        /\ UNCHANGED <<tables, uploads, blobs, used, aged>>
    BY <1>2 DEF PartWrite, Slot, Goto, tables
  <2>2. /\ x.pc = "partRow" /\ x.upload = t.upload /\ x.part = t.part /\ x.linked = t.linked
        /\ x.body = t.body
    BY <1>0 DEF Task
  <2>3. req'[r] = x
    BY <2>1 DEF SafeInv, TypeInv, TasksOK
  <2> HIDE DEF x
  <2>4. Sent(req[r])'
    BY <1>0, <2>1, <2>2, <2>3 DEF Sent, Slot
  <2>5. /\ DOMAIN files' \ {Slot(t)} = DOMAIN files \ {Slot(t)}
        /\ \A s \in DOMAIN files : s # Slot(t) => files'[s] = files[s]
    BY <2>1
  <2> QED
    BY <2>1, <2>2, <2>4, <2>5, FileStep DEF Sending
<1> QED
    BY <1>1, <1>2

\* The row of a part: its file is complete, and nobody else writes it.
LEMMA PartRowSafe ==
    ASSUME SafeInv, TypeInv', NEW r \in Reqs, PartRow(r)
    PROVE  SafeInv'
<1> DEFINE s == Slot(req[r])
<1>0. /\ req[r].pc = "partRow" /\ req' = [req EXCEPT ![r] = Idle]
      /\ parts' = IF req[r].upload \in DOMAIN uploads THEN With(parts, s, req[r].body)
                                                      ELSE Without(parts, {s})
      /\ UNCHANGED <<uploads, objects, files, blobs, used, aged>>
    BY DEF PartRow, Finish, disk, Slot
<1>1. /\ req'[r] = Idle /\ Idle.pc = "idle" /\ \A q \in Reqs \ {r} : req'[q] = req[q]
    BY <1>0 DEF SafeInv, TypeInv, TasksOK, Idle
<1>2. /\ s \notin DOMAIN parts /\ s[1] = req[r].upload
      /\ \A q \in Reqs \ {r} : Sending(req[q]) => Slot(req[q]) # s
    BY <1>0, SenderFacts DEF Sending, Slot
<1>3. /\ s \in DOMAIN files => files[s] = {req[r].body}
      /\ req[r].upload \in DOMAIN uploads /\ req[r].upload \notin aged => s \in DOMAIN files
    BY <1>0 DEF SafeInv, SentInv, Sent
<1>4. CASE req[r].upload \notin DOMAIN uploads
  <2>1. DOMAIN parts' = DOMAIN parts /\ \A j \in DOMAIN parts : parts'[j] = parts[j]
    BY <1>0, <1>2, <1>4 DEF Without
  <2>2. IdsInv' /\ AssembledAsValidated'
    BY <1>0, <1>1 DEF SafeInv, IdsInv, Holding, AssembledAsValidated
  <2>3. \A q \in Reqs : req'[q] = req[q] \/ ~Busy(req'[q])
    BY <1>1 DEF Busy
  <2>4. \A j \in DOMAIN parts' : j[1] \in DOMAIN uploads'
    BY <1>0, <2>1 DEF SafeInv, UploadsInv
  <2> QED
    BY <1>0, <2>1, <2>2, <2>3, <2>4, RowsGo DEF Calm
<1>5. CASE req[r].upload \in DOMAIN uploads
  <2>1. /\ DOMAIN parts' = DOMAIN parts \cup {s} /\ parts'[s] = req[r].body
        /\ \A j \in DOMAIN parts : j # s => parts'[j] = parts[j]
    BY <1>0, <1>5 DEF With
  <2> HIDE DEF s
  <2>2. UploadsInv'
    BY <1>0, <1>1, <1>2, <1>5, <2>1 DEF SafeInv, UploadsInv, Busy
  <2>3. SendersInv'
    <3>1. \A q \in Reqs : Sending(req'[q]) => q # r /\ req'[q] = req[q]
      BY <1>1 DEF Sending
    <3> QED
      BY <1>2, <2>1, <3>1 DEF SafeInv, SendersInv
  <2>4. SentInv'
    BY <1>0, <1>1 DEF SafeInv, SentInv, Sent, Slot
  <2>5. RowsInv'
    BY <1>0, <1>2, <1>3, <1>5, <2>1 DEF SafeInv, RowsInv
  <2>6. SettledInv'
    <3> SUFFICES ASSUME NEW q \in Reqs, req'[q].pc = "read", NEW n \in DOMAIN req'[q].claim
                 PROVE  Settled(q, n)'
      BY DEF SettledInv
    <3>1. req'[q] = req[q] /\ Settled(q, n)
      BY <1>1 DEF SafeInv, SettledInv
    <3>2. \A p \in Reqs : Sending(req'[p]) => req'[p] = req[p]
      BY <1>1 DEF Sending
    <3> QED
      BY <1>0, <2>1, <3>1, <3>2 DEF Settled
  <2>7. ReadersInv' /\ IdsInv' /\ AssembledAsValidated'
    BY <1>0, <1>1 DEF SafeInv, ReadersInv, Reader, IdsInv, Holding, AssembledAsValidated
  <2> QED
    BY <2>2, <2>3, <2>4, <2>5, <2>6, <2>7 DEF SafeInv
<1> QED
    BY <1>4, <1>5

\* The blob of an object to be: its id belongs to this complete alone.
LEMMA BlobSafe ==
    ASSUME SafeInv, TypeInv', NEW r \in Reqs, CompleteBlob(r)
    PROVE  SafeInv'
<1> DEFINE t == req[r]
           x == [t EXCEPT !.pc = "commit"]
<1>0. /\ t \in Task /\ t.pc = "blob" /\ Reader(t)
      /\ UNCHANGED <<uploads, parts, objects, files, used, aged>>
    BY DEF SafeInv, TypeInv, TasksOK, ReadersInv, CompleteBlob, tables
<1>1. CASE Finish(r) /\ UNCHANGED blobs
    BY <1>0, <1>1, FinishRests, TasksRest DEF SafeInv, tables
<1>2. CASE blobs' = With(blobs, t.id, t.got) /\ Goto(r, "commit")
  <2>1. req' = [req EXCEPT ![r] = x]
    BY <1>2 DEF Goto
  <2>2. x.pc = "commit" /\ x.upload = t.upload /\ x.got = t.got /\ x.claim = t.claim /\ x.id = t.id
    BY <1>0 DEF Task
  <2> HIDE DEF x
  <2>3. req'[r] = x /\ \A q \in Reqs \ {r} : req'[q] = req[q]
    BY <2>1 DEF SafeInv, TypeInv, TasksOK
  <2>4. /\ t.id \notin DOMAIN objects
        /\ \A q \in Reqs \ {r} : Holding(req[q]) => req[q].id # t.id
    BY <1>0 DEF SafeInv, IdsInv, Holding
  <2>5. /\ DOMAIN blobs' = DOMAIN blobs \cup {t.id} /\ blobs'[t.id] = t.got
        /\ \A i \in DOMAIN blobs : i # t.id => blobs'[i] = blobs[i]
    BY <1>2 DEF With
  <2>6. UploadsInv' /\ SendersInv'
    BY <1>0, <2>2, <2>3 DEF SafeInv, UploadsInv, SendersInv, Busy, Sending
  <2>7. SentInv'
    BY <1>0, <2>2, <2>3 DEF SafeInv, SentInv, Sent, Slot
  <2>8. RowsInv'
    BY <1>0 DEF SafeInv, RowsInv
  <2>9. SettledInv'
    <3> SUFFICES ASSUME NEW q \in Reqs, req'[q].pc = "read", NEW n \in DOMAIN req'[q].claim
                 PROVE  Settled(q, n)'
      BY DEF SettledInv
    <3>1. req'[q] = req[q] /\ Settled(q, n)
      BY <2>2, <2>3 DEF SafeInv, SettledInv
    <3>2. \A p \in Reqs : Sending(req'[p]) => req'[p] = req[p]
      BY <2>2, <2>3 DEF Sending
    <3> QED
      BY <1>0, <3>1, <3>2 DEF Settled
  <2>10. ReadersInv'
    <3>1. Reader(x)
      BY <1>0, <2>2 DEF Reader, Holding
    <3> QED
      BY <2>3, <3>1 DEF SafeInv, ReadersInv
  <2>11. IdsInv'
    BY <1>0, <2>2, <2>3, <2>4, <2>5 DEF SafeInv, IdsInv, Holding
  <2>12. AssembledAsValidated'
    BY <1>0, <2>4, <2>5 DEF SafeInv, AssembledAsValidated
  <2> QED
    BY <2>6, <2>7, <2>8, <2>9, <2>10, <2>11, <2>12 DEF SafeInv
<1> QED
    BY <1>1, <1>2 DEF CompleteBlob

\* A row that commits describes the blob its complete has written.
LEMMA CommitAssembles ==
    ASSUME SafeInv, NEW r \in Reqs, req[r].pc = "commit", UNCHANGED blobs,
           objects' \in {Superseded(req[r]), Assembled(req[r])}
    PROVE  /\ AssembledAsValidated'
           /\ DOMAIN objects' \subseteq DOMAIN objects \cup {req[r].id}
<1> DEFINE t == req[r]
<1>0. /\ t \in Task /\ t.id \in Ids /\ t.id \in used /\ t.id \notin DOMAIN objects
      /\ t.id \in DOMAIN blobs /\ blobs[t.id] = t.got
      /\ Reader(t) /\ Holding(t)
    BY DEF SafeInv, TypeInv, TasksOK, Armed, Holding, IdsInv, ReadersInv
<1>1. /\ DOMAIN Superseded(t) \subseteq DOMAIN objects
      /\ \A i \in DOMAIN Superseded(t) : Superseded(t)[i].etag = objects[i].etag
      /\ DOMAIN Assembled(t) = DOMAIN Superseded(t) \cup {t.id}
      /\ Assembled(t)[t.id].etag = t.claim
      /\ \A i \in DOMAIN Superseded(t) : i # t.id => Assembled(t)[i] = Superseded(t)[i]
    BY <1>0, AssembledType DEF SafeInv
<1>2. t.got = [n \in DOMAIN t.claim |-> {t.claim[n]}]
  <2>1. t.got \in Lists(SUBSET Bodies)
    BY <1>0 DEF Task
  <2>2. t.got \in [DOMAIN t.got -> SUBSET Bodies]
    BY <2>1, ListsDef
  <2>3. DOMAIN t.got = DOMAIN t.claim /\ \A n \in DOMAIN t.got : t.got[n] = {t.claim[n]}
    BY <1>0 DEF Reader
  <2> QED
    BY <2>2, <2>3
<1>3. \A m, n \in DOMAIN t.claim : n < m => t.claim[n] \in Large
    BY <1>0 DEF Reader
<1> HIDE DEF t
<1>4. ASSUME NEW i \in DOMAIN objects'
      PROVE  \/ i \in DOMAIN objects /\ objects'[i].etag = objects[i].etag
             \/ i = t.id /\ objects'[i].etag = t.claim
  <2>1. CASE objects' = Superseded(t)
    BY <1>1, <2>1
  <2>2. CASE objects' = Assembled(t)
    BY <1>1, <2>2
  <2> QED
    BY <2>1, <2>2 DEF t
<1>5. DOMAIN objects' \subseteq DOMAIN objects \cup {t.id}
    BY <1>4
<1>6. AssembledAsValidated'
  <2> SUFFICES ASSUME NEW i \in DOMAIN objects'
               PROVE  /\ i \in DOMAIN blobs
                      /\ blobs[i] = [n \in DOMAIN objects'[i].etag |-> {objects'[i].etag[n]}]
                      /\ \A m, n \in DOMAIN objects'[i].etag : n < m => objects'[i].etag[n] \in Large
    BY DEF AssembledAsValidated
  <2>1. CASE i \in DOMAIN objects /\ objects'[i].etag = objects[i].etag
    BY <2>1 DEF SafeInv, AssembledAsValidated
  <2>2. CASE i = t.id /\ objects'[i].etag = t.claim
    BY <1>0, <1>2, <1>3, <2>2
  <2> QED
    BY <1>4, <2>1, <2>2
<1> QED
    BY <1>5, <1>6 DEF t

\* What DeleteUpload leaves.
LEMMA DeleteUploadFacts ==
    ASSUME SafeInv, NEW u, DeleteUpload(u)
    PROVE  /\ DOMAIN uploads' = DOMAIN uploads \ {u}
           /\ \A s \in DOMAIN parts' : /\ s \in DOMAIN parts /\ parts'[s] = parts[s]
                                       /\ s[1] \in DOMAIN uploads'
           /\ \A s \in DOMAIN parts : s \in DOMAIN parts' \/ s[1] \notin DOMAIN uploads'
<1>1. /\ DOMAIN uploads' = DOMAIN uploads \ {u} /\ DOMAIN parts' = DOMAIN parts \ SlotsOf(u)
      /\ \A s \in DOMAIN parts' : parts'[s] = parts[s]
    BY DEF DeleteUpload, Without
<1>2. \A s \in DOMAIN parts : s[1] \in DOMAIN uploads /\ (s \in SlotsOf(u) <=> s[1] = u)
    BY DEF SafeInv, UploadsInv, TypeInv, TablesOK, Slots, SlotsOf
<1> QED
    BY <1>1, <1>2

\* The steps that take rows away.
LEMMA DeleteSafe ==
    ASSUME SafeInv, TypeInv', NEW r \in Reqs,
           DeleteBucketCommit(r) \/ AbortRows(r) \/ CompleteCommit(r)
    PROVE  SafeInv'
<1> DEFINE t == req[r]
<1>0. /\ t \in Task /\ req \in [Reqs -> Task] /\ UNCHANGED <<files, blobs, used, aged>>
    BY DEF SafeInv, TypeInv, TasksOK, DeleteBucketCommit, AbortRows, CompleteCommit, disk
<1>1. CASE DeleteBucketCommit(r)
  <2>1. /\ DOMAIN uploads' = {} /\ DOMAIN parts' = {} /\ DOMAIN objects' = {} /\ Finish(r)
    BY <1>1, NothingType DEF DeleteBucketCommit
  <2>2. \A q \in Reqs : req'[q] = req[q] \/ ~Busy(req'[q])
    BY <2>1, FinishRests DEF SafeInv
  <2>3. IdsInv' /\ AssembledAsValidated'
    BY <1>0, <2>1, <2>2 DEF SafeInv, IdsInv, AssembledAsValidated, Busy, Holding
  <2> QED
    BY <1>0, <2>1, <2>2, <2>3, RowsGo DEF Calm
<1>2. ASSUME Goto(r, "removeDir"), DeleteUpload(t.upload), Busy(t), IdsInv',
             AssembledAsValidated'
      PROVE  SafeInv'
  <2>1. /\ req'[r].pc = "removeDir" /\ req'[r].upload = t.upload
        /\ \A q \in Reqs \ {r} : req'[q] = req[q]
    BY <1>0, <1>2 DEF Goto, Task
  <2>2. /\ DOMAIN uploads' = DOMAIN uploads \ {t.upload}
        /\ \A s \in DOMAIN parts' : /\ s \in DOMAIN parts /\ parts'[s] = parts[s]
                                    /\ s[1] \in DOMAIN uploads'
        /\ \A s \in DOMAIN parts : s \in DOMAIN parts' \/ s[1] \notin DOMAIN uploads'
    BY <1>2, DeleteUploadFacts
  <2>3. \A q \in Reqs : \/ req'[q] = req[q]
                       \/ /\ Calm(req'[q], DOMAIN uploads')
                          /\ Busy(req'[q]) => Busy(req[q]) /\ req'[q].upload = req[q].upload
    BY <1>2, <2>1, <2>2 DEF Calm
  <2> QED
    BY <1>0, <1>2, <2>2, <2>3, RowsGo
<1>3. CASE AbortRows(r)
  <2>1. /\ Goto(r, "removeDir") /\ DeleteUpload(t.upload) /\ t.pc = "abortRows"
        /\ UNCHANGED objects
    BY <1>3 DEF AbortRows
  <2>2. \A q \in Reqs : Holding(req'[q]) => req'[q] = req[q]
    BY <1>0, <2>1 DEF Goto, Holding, Task
  <2>3. IdsInv' /\ AssembledAsValidated'
    BY <1>0, <2>1, <2>2 DEF SafeInv, IdsInv, AssembledAsValidated, Holding
  <2> QED
    BY <1>2, <2>1, <2>3 DEF Busy
<1>4. CASE CompleteCommit(r)
  <2>0. t.pc = "commit" /\ objects' \in {Superseded(t), Assembled(t)}
    BY <1>4 DEF CompleteCommit
  <2>1. AssembledAsValidated' /\ DOMAIN objects' \subseteq DOMAIN objects \cup {t.id}
    BY <1>0, <2>0, CommitAssembles
  <2>2. \A q \in Reqs : Holding(req'[q]) => q # r /\ req'[q] = req[q]
    BY <1>0, <1>4 DEF CompleteCommit, Goto, Finish, Idle, Holding, Task
  <2>3. IdsInv'
    <3>1. t.id \in used /\ \A q \in Reqs \ {r} : Holding(req[q]) => req[q].id # t.id
      BY <2>0 DEF SafeInv, IdsInv, Holding, TypeInv, TasksOK, Armed
    <3> QED
      BY <1>0, <2>1, <2>2, <3>1 DEF SafeInv, IdsInv
  <2>4. CASE Goto(r, "removeDir") /\ DeleteUpload(t.upload)
    BY <1>2, <2>0, <2>1, <2>3, <2>4 DEF Busy
  <2>5. CASE Finish(r) /\ UNCHANGED <<uploads, parts>>
    <3>1. \A q \in Reqs : req'[q] = req[q] \/ ~Busy(req'[q])
      BY <2>5, FinishRests DEF SafeInv
    <3>2. \A s \in DOMAIN parts : s[1] \in DOMAIN uploads
      BY DEF SafeInv, UploadsInv
    <3> QED
      BY <1>0, <2>1, <2>3, <2>5, <3>1, <3>2, RowsGo DEF Calm
  <2> QED
    BY <1>4, <2>4, <2>5 DEF CompleteCommit
<1> QED
    BY <1>1, <1>3, <1>4

\* A directory goes: that of an upload without rows, or of a stale one.
LEMMA DirGoes ==
    ASSUME SafeInv, TypeInv', NEW u \in Uploads, RemoveDir(u),
           u \notin DOMAIN uploads \/ u \in aged,
           UNCHANGED <<tables, blobs, used, aged>>,
           \A q \in Reqs : req'[q] = Unlinked(u)[q] \/ ~Busy(req'[q])
    PROVE  SafeInv'
<1>0. /\ UNCHANGED <<uploads, parts, objects>>
      /\ DOMAIN files' = DOMAIN files \ SlotsOf(u)
      /\ \A s \in DOMAIN files' : files'[s] = files[s]
    BY DEF tables, RemoveDir, Without
<1>1. \A s \in Slots : s \in SlotsOf(u) <=> s[1] = u
    BY DEF Slots, SlotsOf
<1>2. ASSUME NEW q \in Reqs, Busy(req'[q])
      PROVE  /\ req'[q].pc = req[q].pc /\ req'[q].upload = req[q].upload
             /\ req'[q].part = req[q].part /\ req'[q].body = req[q].body
             /\ req'[q].claim = req[q].claim /\ req'[q].got = req[q].got
             /\ req'[q].id = req[q].id /\ Busy(req[q])
             /\ req'[q].linked = IF req[q].upload = u THEN FALSE ELSE req[q].linked
  <2>1. req[q] \in Task
    BY DEF SafeInv, TypeInv, TasksOK
  <2>2. req'[q] = IF req[q].upload = u THEN [req[q] EXCEPT !.linked = FALSE] ELSE req[q]
    BY <1>2 DEF Unlinked
  <2> QED
    BY <1>2, <2>1, <2>2 DEF Task, Busy
<1>3. UploadsInv'
  <2>1. \A q \in Reqs : Busy(req'[q]) =>
            Busy(req[q]) /\ req'[q].pc = req[q].pc /\ req'[q].upload = req[q].upload
    BY <1>2
  <2>2. \A q \in Reqs : req'[q].pc \in {"createRow", "removeDir"} => Busy(req'[q])
    BY DEF Busy
  <2> QED
    BY <1>0, <2>1, <2>2 DEF SafeInv, UploadsInv
<1>4. SendersInv'
  <2>1. \A q \in Reqs : Sending(req'[q]) => Sending(req[q]) /\ Slot(req'[q]) = Slot(req[q])
    BY <1>2 DEF Busy, Sending, Slot
  <2> QED
    BY <1>0, <2>1 DEF SafeInv, SendersInv
<1>5. SentInv'
  <2> SUFFICES ASSUME NEW q \in Reqs, req'[q].pc \in {"partWrite", "partRow"}
               PROVE  Sent(req[q])'
    BY DEF SentInv, Sent
  <2>1. /\ req'[q].pc = req[q].pc /\ req'[q].upload = req[q].upload
        /\ req'[q].part = req[q].part /\ req'[q].body = req[q].body
        /\ req'[q].linked = IF req[q].upload = u THEN FALSE ELSE req[q].linked
    BY <1>2 DEF Busy
  <2>2. Sent(req[q]) /\ Slot(req[q]) \in Slots /\ Slot(req[q])[1] = req[q].upload
    BY <2>1 DEF SafeInv, SentInv, TypeInv, TasksOK, Armed, Sending, Slot, Slots
  <2>3. Slot(req[q]) \in SlotsOf(u) <=> req[q].upload = u
    BY <1>1, <2>2
  <2>4. CASE req[q].upload = u
    BY <1>0, <2>1, <2>3, <2>4 DEF Sent, Slot
  <2>5. CASE req[q].upload # u
    BY <1>0, <2>1, <2>2, <2>3, <2>5 DEF Sent, Slot
  <2> QED
    BY <2>4, <2>5
<1>6. RowsInv'
  <2>1. \A s \in DOMAIN parts : s \in Slots /\ s[1] \in DOMAIN uploads
    BY DEF SafeInv, UploadsInv, TypeInv, TablesOK
  <2> QED
    BY <1>0, <1>1, <2>1 DEF SafeInv, RowsInv
<1>7. SettledInv'
  <2> SUFFICES ASSUME NEW q \in Reqs, req'[q].pc = "read", NEW n \in DOMAIN req'[q].claim
               PROVE  Settled(q, n)'
    BY DEF SettledInv
  <2>1. req[q].pc = "read" /\ req'[q].upload = req[q].upload /\ req'[q].claim = req[q].claim
    BY <1>2 DEF Busy
  <2>2. Settled(q, n)
    BY <2>1 DEF SafeInv, SettledInv
  <2>3. \A p \in Reqs : Sending(req'[p]) => Sending(req[p]) /\ Slot(req'[p]) = Slot(req[p])
    BY <1>2 DEF Busy, Sending, Slot
  <2> QED
    BY <1>0, <2>1, <2>2, <2>3 DEF Settled
<1>8. ReadersInv'
    BY <1>2 DEF SafeInv, ReadersInv, Reader, Holding, Busy
<1>9. IdsInv'
  <2>1. \A q \in Reqs : Holding(req'[q]) =>
            /\ Holding(req[q]) /\ req'[q].pc = req[q].pc
            /\ req'[q].id = req[q].id /\ req'[q].got = req[q].got
    BY <1>2 DEF Holding, Busy
  <2> QED
    BY <1>0, <2>1 DEF SafeInv, IdsInv
<1>10. AssembledAsValidated'
    BY <1>0 DEF SafeInv, AssembledAsValidated
<1> QED
    BY <1>3, <1>4, <1>5, <1>6, <1>7, <1>8, <1>9, <1>10 DEF SafeInv

\* The cleaner takes only stale uploads.
LEMMA CleanerSafe ==
    ASSUME SafeInv, TypeInv', Cleaner
    PROVE  SafeInv'
<1>1. CASE CleanerFind
    BY <1>1, TasksRest DEF CleanerFind, disk
<1>2. CASE CleanerRemoveDir
  <2>1. ASSUME NEW u \in cleaner.found, RemoveDir(u), req' = Unlinked(u) PROVE SafeInv'
    <3>1. u \in Uploads /\ u \in aged
      BY <2>1 DEF SafeInv, TypeInv, CleanerOK, CountersOK
    <3> QED
      BY <1>2, <2>1, <3>1, DirGoes DEF CleanerRemoveDir
  <2>2. CASE UNCHANGED <<dirs, files, req>>
    BY <1>2, <2>2, TasksRest DEF CleanerRemoveDir
  <2> QED
    BY <1>2, <2>1, <2>2 DEF CleanerRemoveDir
<1>3. CASE CleanerRows
  <2>1. /\ DOMAIN uploads' = DOMAIN uploads \ {cleaner.upload}
        /\ \A s \in DOMAIN parts' : /\ s \in DOMAIN parts /\ parts'[s] = parts[s]
                                    /\ s[1] \in DOMAIN uploads'
        /\ \A s \in DOMAIN parts : s \in DOMAIN parts' \/ s[1] \notin DOMAIN uploads'
    BY <1>3, DeleteUploadFacts DEF CleanerRows
  <2>2. UNCHANGED <<objects, files, blobs, used, aged, req>>
    BY <1>3 DEF CleanerRows, disk
  <2>3. IdsInv' /\ AssembledAsValidated'
    BY <2>2 DEF SafeInv, IdsInv, AssembledAsValidated
  <2> QED
    BY <2>1, <2>2, <2>3, RowsGo
<1> QED
    BY <1>1, <1>2, <1>3 DEF Cleaner

\* A crash leaves no task, and of the closure at work a prefix.
LEMMA CrashSafe ==
    ASSUME SafeInv, TypeInv', Crash
    PROVE  SafeInv'
<1>0. /\ \A q \in Reqs : ~Busy(req'[q])
      /\ UNCHANGED <<files, blobs, used, aged>> /\ LastStatements
    BY DEF Crash, Idle, Busy, disk
<1>1. UNCHANGED uploads /\ (parts' = parts \/ \E R : parts' = Without(parts, R))
    BY <1>0 DEF LastStatements, tables
<1>2. \A s \in DOMAIN parts' : /\ s \in DOMAIN parts /\ parts'[s] = parts[s]
                              /\ s[1] \in DOMAIN uploads'
    BY <1>1 DEF Without, SafeInv, UploadsInv
<1>3. AssembledAsValidated' /\ DOMAIN objects' \subseteq used
  <2>1. CASE UNCHANGED objects
    BY <1>0, <2>1 DEF SafeInv, AssembledAsValidated, IdsInv
  <2>2. ASSUME NEW r \in Reqs, req[r].pc = "commit",
               objects' \in {Superseded(req[r]), Assembled(req[r])}
        PROVE  AssembledAsValidated' /\ DOMAIN objects' \subseteq used
    <3>1. AssembledAsValidated' /\ DOMAIN objects' \subseteq DOMAIN objects \cup {req[r].id}
      BY <1>0, <2>2, CommitAssembles
    <3>2. req[r].id \in used /\ DOMAIN objects \subseteq used
      BY <2>2 DEF SafeInv, TypeInv, TasksOK, Armed, Holding, IdsInv
    <3> QED
      BY <3>1, <3>2
  <2> QED
    BY <1>0, <2>1, <2>2 DEF LastStatements, tables
<1>4. IdsInv'
    BY <1>0, <1>3 DEF IdsInv, Busy, Holding
<1> QED
    BY <1>0, <1>1, <1>2, <1>3, <1>4, RowsGo DEF Calm

-----------------------------------------------------------------------------
(* The theorems.                                                           *)

\* Every step keeps the inductive invariant when no part is sent again.
LEMMA StepSafe == ~Resend => (SafeInv /\ [Next]_vars => SafeInv')
<1> SUFFICES ASSUME ~Resend, SafeInv, [Next]_vars PROVE SafeInv'
    OBVIOUS
<1>0. TypeInv'
    BY StepType DEF SafeInv
<1>1. CASE CreateBucket \/ \E status \in {"Enabled", "other"} : SetBucketVersioning(status)
    BY <1>0, <1>1, TasksRest DEF CreateBucket, SetBucketVersioning, disk
<1>2. CASE \E r \in Reqs : Begin(r)
    BY <1>0, <1>2, BeginSafe
<1>3. CASE \E r \in Reqs : Continue(r)
  <2>1. PICK r \in Reqs : Continue(r)
    BY <1>3
  <2>2. CASE DeleteBucketCommit(r) \/ AbortRows(r) \/ CompleteCommit(r)
    BY <1>0, <2>2, DeleteSafe
  <2>3. CASE CreateRow(r) \/ PartOpen(r) \/ PartWrite(r) \/ PartRow(r)
    BY <1>0, <2>3, CreateRowSafe, WriteSafe, PartRowSafe
  <2>4. CASE CompleteStatus(r) \/ CompleteValidate(r) \/ CompleteRead(r) \/ CompleteBlob(r)
    BY <1>0, <2>4, CompleteSafe, BlobSafe
  <2>5. CASE RemoveUploadDir(r)
    <3> DEFINE u == req[r].upload
    <3>1. u \in Uploads /\ u \notin DOMAIN uploads
      BY <2>5 DEF RemoveUploadDir, SafeInv, UploadsInv, TypeInv, TasksOK, Armed
    <3>2. /\ RemoveDir(u) /\ UNCHANGED <<tables, blobs, used, aged>>
          /\ req' = [Unlinked(u) EXCEPT ![r] = Idle]
      BY <2>5 DEF RemoveUploadDir
    <3>3. \A q \in Reqs : req'[q] = Unlinked(u)[q] \/ ~Busy(req'[q])
      BY <3>2 DEF Unlinked, Idle, Busy
    <3> HIDE DEF u
    <3> QED
      BY <1>0, <3>1, <3>2, <3>3, DirGoes
  <2> QED
    BY <2>1, <2>2, <2>3, <2>4, <2>5 DEF Continue
<1>4. CASE \E r \in Reqs : PartBodyError(r) \/ Abandon(r)
  <2>1. PICK r \in Reqs : PartBodyError(r) \/ Abandon(r)
    BY <1>4
  <2>2. Finish(r) /\ UNCHANGED <<tables, files, blobs, used, aged>>
    BY <2>1 DEF PartBodyError, Abandon, disk
  <2> QED
    BY <1>0, <2>2, FinishRests, TasksRest DEF SafeInv
<1>5. CASE \E u \in Uploads : Age(u)
    BY <1>0, <1>5, TasksRest DEF Age, disk
<1>6. CASE Cleaner
    BY <1>0, <1>6, CleanerSafe
<1>7. CASE Crash
    BY <1>0, <1>7, CrashSafe
<1>8. CASE UNCHANGED vars
    BY <1>0, <1>8, TasksRest DEF vars, tables
<1> QED
    BY <1>1, <1>2, <1>3, <1>4, <1>5, <1>6, <1>7, <1>8 DEF Next

\* While no part is sent again, a part on record is on disk with the body of
\* its etag until the cleaner may take its upload: whatever else the tasks of
\* create, upload_part, complete and abort, a crash, a lost connection or the
\* bucket's deletion do in between.
THEOREM RecordedPartsStay == ~Resend => (Spec => []PartsOnDisk)
<1> SUFFICES ASSUME ~Resend PROVE Spec => []PartsOnDisk
    OBVIOUS
<1>1. SafeInv /\ [Next]_vars => SafeInv'
    BY StepSafe
<1>2. SafeInv => PartsOnDisk
    BY DEF SafeInv, RowsInv, PartsOnDisk
<1> QED
    BY <1>1, <1>2, InitSafe, PTL DEF Spec

\* While no part is sent again, the blob of an object that complete assembled
\* consists of exactly the parts whose etags it validated, and all but the
\* last have the minimum size, although complete reads the files long after
\* the validation.
THEOREM ObjectsAreAsValidated == ~Resend => (Spec => []AssembledAsValidated)
<1> SUFFICES ASSUME ~Resend PROVE Spec => []AssembledAsValidated
    OBVIOUS
<1>1. SafeInv /\ [Next]_vars => SafeInv'
    BY StepSafe
<1>2. SafeInv => AssembledAsValidated
    BY DEF SafeInv
<1> QED
    BY <1>1, <1>2, InitSafe, PTL DEF Spec
=============================================================================
