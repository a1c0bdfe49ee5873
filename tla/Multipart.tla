------------------------------ MODULE Multipart ------------------------------
(***************************************************************************)
(* Multipart uploads of strix-storage: the multipart_uploads and parts     *)
(* tables, the directory multipart/<upload id>/ of part files, the calls   *)
(* create, upload_part, complete and abort, and the hourly cleaner of      *)
(* cleanup.rs, all for one key of one bucket.                              *)
(*                                                                         *)
(* As in LocalFsStore a db.call closure is one action and every await      *)
(* between two of them is a program counter.  A part's etag is its body    *)
(* (MD5 taken as injective) and its size only matters against the 5 MB     *)
(* minimum.  What a part file holds is the set of bodies written to it     *)
(* since it was truncated: {} while it is still incomplete, {b} when it    *)
(* holds b, more when two writers shared it.                               *)
(***************************************************************************)
EXTENDS Naturals, FiniteSets

CONSTANTS
    Uploads, Ids,   \* ULIDs of uploads and of finished objects
    PartNumbers, Bodies, Reqs,
    None,           \* an absent optional value
    Large,          \* the bodies of at least MIN_PART_SIZE bytes
    Algorithms,     \* encryption algorithms create may ask for
    Ops,            \* operations the clients of this instance issue
    Faults,         \* faults of this instance: "abandon", "body"
    Resend,         \* TRUE: a part may be sent again once it has a row
    MaxCrashes      \* bound on the number of crashes

ASSUME MultipartConstants ==
    /\ PartNumbers \subseteq 1..10000
    /\ Large \subseteq Bodies
    /\ Algorithms \subseteq {"none", "AES256", "SSE-C"}
    /\ Resend \in BOOLEAN /\ MaxCrashes \in Nat
    /\ None \notin Uploads \cup Ids \cup PartNumbers \cup Bodies

VARIABLES
    bucket,    \* "absent", or versioning_status: "Enabled" or "other"
    uploads,   \* multipart_uploads: upload id -> encryption_algorithm
    parts,     \* parts: <<upload id, part number>> -> etag
    dirs,      \* multipart/<upload id>/
    files,     \* multipart/<upload id>/<part number> -> what was written
    objects,   \* objects: id -> etag and whether it is the latest version
    blobs,     \* the blob of each object: part number -> what was read
    used,      \* ULIDs handed out so far
    aged,      \* uploads initiated before the cleaner's cutoff
    req,       \* task -> its program counter and local variables
    cleaner,   \* the cleanup task: pc, uploads found, upload at hand
    crashes

tables == <<uploads, parts, objects>>
disk   == <<dirs, files, blobs>>
vars   == <<bucket, uploads, parts, dirs, files, objects, blobs, used, aged, req,
            cleaner, crashes>>

Slots == Uploads \X PartNumbers

\* The list given to complete: part numbers strictly increasing, so it is a
\* function from the numbers listed to the etags claimed for them.
Lists(S) == UNION {[D -> S] : D \in SUBSET PartNumbers}

Pcs == {"idle", "createRow", "partOpen", "partWrite", "partRow", "status",
        "validate", "read", "blob", "commit", "removeDir", "abortRows", "dropBucket"}

Task == [pc : Pcs, upload : Uploads \cup {None}, part : PartNumbers \cup {None},
         body : Bodies \cup {None}, alg : {"none", "AES256", "SSE-C"},
         linked : BOOLEAN, claim : Lists(Bodies), got : Lists(SUBSET Bodies),
         versioned : BOOLEAN, id : Ids \cup {None}]

Nothing == [n \in {} |-> None]

Idle == [pc |-> "idle", upload |-> None, part |-> None, body |-> None,
         alg |-> "none", linked |-> FALSE, claim |-> Nothing, got |-> Nothing,
         versioned |-> FALSE, id |-> None]

Resting == [pc |-> "sleep", found |-> {}, upload |-> None]

TypeOK ==
    /\ bucket \in {"absent", "other", "Enabled"}
    /\ DOMAIN uploads \subseteq Uploads
    /\ uploads \in [DOMAIN uploads -> {"none", "AES256", "SSE-C"}]
    /\ DOMAIN parts \subseteq Slots
    /\ parts \in [DOMAIN parts -> Bodies]
    /\ dirs \subseteq Uploads
    /\ DOMAIN files \subseteq Slots
    /\ files \in [DOMAIN files -> SUBSET Bodies]
    /\ DOMAIN objects \subseteq Ids
    /\ objects \in [DOMAIN objects -> [etag : Lists(Bodies), latest : BOOLEAN]]
    /\ DOMAIN blobs \subseteq Ids
    /\ blobs \in [DOMAIN blobs -> Lists(SUBSET Bodies)]
    /\ used \subseteq Uploads \cup Ids
    /\ aged \subseteq Uploads
    /\ req \in [Reqs -> Task]
    /\ cleaner \in [pc : {"sleep", "next", "rows"}, found : SUBSET Uploads,
                    upload : Uploads \cup {None}]
    /\ crashes \in Nat

Init ==
    /\ bucket = "absent"
    /\ uploads = Nothing /\ parts = Nothing /\ objects = Nothing
    /\ dirs = {} /\ files = Nothing /\ blobs = Nothing
    /\ used = {} /\ aged = {}
    /\ req = [r \in Reqs |-> Idle]
    /\ cleaner = Resting
    /\ crashes = 0

-----------------------------------------------------------------------------
Without(f, S) == [i \in DOMAIN f \ S |-> f[i]]

With(f, i, x) == [j \in DOMAIN f \cup {i} |-> IF j = i THEN x ELSE f[j]]

SlotsOf(u) == {u} \X PartNumbers

Goto(r, pc) == req' = [req EXCEPT ![r].pc = pc]

Finish(r) == req' = [req EXCEPT ![r] = Idle]

\* DELETE FROM parts, DELETE FROM multipart_uploads
DeleteUpload(u) ==
    /\ parts' = Without(parts, SlotsOf(u))
    /\ uploads' = Without(uploads, {u})

\* fs::remove_dir_all: files still open for writing stay open, unlinked.
RemoveDir(u) ==
    /\ dirs' = dirs \ {u}
    /\ files' = Without(files, SlotsOf(u))

Unlinked(u) ==
    [q \in Reqs |-> IF req[q].upload = u THEN [req[q] EXCEPT !.linked = FALSE]
                                         ELSE req[q]]

-----------------------------------------------------------------------------
(* The bucket.                                                             *)

CreateBucket ==
    /\ bucket = "absent"
    /\ bucket' = "other"
    /\ UNCHANGED <<tables, disk, used, aged, req, cleaner, crashes>>

SetBucketVersioning(status) ==
    /\ "versioning" \in Ops
    /\ bucket # "absent"
    /\ bucket' = status
    /\ UNCHANGED <<tables, disk, used, aged, req, cleaner, crashes>>

\* Only objects keep a bucket from being deleted, and they are looked for in
\* a closure of their own.
DeleteBucketCheck(r) ==
    /\ "drop" \in Ops
    /\ req[r].pc = "idle"
    /\ bucket # "absent"
    /\ DOMAIN objects = {}
    /\ Goto(r, "dropBucket")
    /\ UNCHANGED <<bucket, tables, disk, used, aged, cleaner, crashes>>

\* ON DELETE CASCADE takes the rows of objects, uploads and parts along;
\* blobs and part directories stay.
DeleteBucketCommit(r) ==
    /\ req[r].pc = "dropBucket"
    /\ bucket' = "absent"
    /\ objects' = Nothing /\ uploads' = Nothing /\ parts' = Nothing
    /\ Finish(r)
    /\ UNCHANGED <<disk, used, aged, cleaner, crashes>>

-----------------------------------------------------------------------------
(* create_multipart_upload: directory, then row.                           *)

CreateStart(r, alg) ==
    /\ req[r].pc = "idle"
    /\ bucket # "absent"
    /\ \E u \in Uploads \ used :
        /\ used' = used \cup {u}
        /\ dirs' = dirs \cup {u}
        /\ req' = [req EXCEPT ![r] = [Idle EXCEPT !.pc = "createRow",
                                                  !.upload = u, !.alg = alg]]
    /\ UNCHANGED <<bucket, tables, files, blobs, aged, cleaner, crashes>>

\* The INSERT fails on its foreign key when the bucket is gone.
CreateRow(r) ==
    /\ req[r].pc = "createRow"
    /\ uploads' = IF bucket = "absent" THEN uploads
                  ELSE With(uploads, req[r].upload, req[r].alg)
    /\ Finish(r)
    /\ UNCHANGED <<bucket, parts, objects, disk, used, aged, cleaner, crashes>>

-----------------------------------------------------------------------------
(* upload_part, and upload_part_copy, which streams an object into it.     *)

\* Clients that never re-send a part leave alone the ones on record or on
\* their way.
MaySend(u, n) ==
    \/ Resend
    \/ /\ <<u, n>> \notin DOMAIN parts
       /\ \A q \in Reqs : req[q].upload = u => req[q].part # n

PartStart(r, u, n, body) ==
    /\ req[r].pc = "idle"
    /\ u \in DOMAIN uploads
    /\ MaySend(u, n)
    /\ req' = [req EXCEPT ![r] = [Idle EXCEPT !.pc = "partOpen", !.upload = u,
                                              !.part = n, !.body = body]]
    /\ UNCHANGED <<bucket, tables, disk, used, aged, cleaner, crashes>>

\* Mutant: the file is opened without truncate(true).
PartOpenAppend(r) ==
    /\ req[r].pc = "partOpen"
    /\ LET s == <<req[r].upload, req[r].part>> IN
        /\ dirs' = dirs \cup {req[r].upload}
        /\ files' = With(files, s, IF s \in DOMAIN files THEN files[s] ELSE {})
    /\ req' = [req EXCEPT ![r].pc = "partWrite", ![r].linked = TRUE]
    /\ UNCHANGED <<bucket, tables, blobs, used, aged, cleaner, crashes>>

\* create_dir_all and open with create and truncate.
PartOpen(r) ==
    /\ req[r].pc = "partOpen"
    /\ dirs' = dirs \cup {req[r].upload}
    /\ files' = With(files, <<req[r].upload, req[r].part>>, {})
    /\ req' = [req EXCEPT ![r].pc = "partWrite", ![r].linked = TRUE]
    /\ UNCHANGED <<bucket, tables, blobs, used, aged, cleaner, crashes>>

\* The body is written to the file that was opened, linked or not.
PartWrite(r) ==
    /\ req[r].pc = "partWrite"
    /\ files' = IF req[r].linked
                THEN [files EXCEPT ![<<req[r].upload, req[r].part>>] = @ \cup {req[r].body}]
                ELSE files
    /\ Goto(r, "partRow")
    /\ UNCHANGED <<bucket, tables, dirs, blobs, used, aged, cleaner, crashes>>

\* A chunk arrives as an error: the file stays as it is, the row too.
PartBodyError(r) ==
    /\ "body" \in Faults
    /\ req[r].pc = "partWrite"
    /\ Finish(r)
    /\ UNCHANGED <<bucket, tables, disk, used, aged, cleaner, crashes>>

\* Mutant: the row is written before the digest is known.
PartRowNoEtag(r) ==
    /\ req[r].pc = "partRow"
    /\ LET s == <<req[r].upload, req[r].part>> IN
        parts' = IF s[1] \in DOMAIN uploads THEN With(parts, s, None)
                                            ELSE Without(parts, {s})
    /\ Finish(r)
    /\ UNCHANGED <<bucket, uploads, objects, disk, used, aged, cleaner, crashes>>

\* DELETE and INSERT; the INSERT fails when the upload's row is gone.
PartRow(r) ==
    /\ req[r].pc = "partRow"
    /\ LET s == <<req[r].upload, req[r].part>> IN
        parts' = IF s[1] \in DOMAIN uploads THEN With(parts, s, req[r].body)
                                            ELSE Without(parts, {s})
    /\ Finish(r)
    /\ UNCHANGED <<bucket, uploads, objects, disk, used, aged, cleaner, crashes>>

-----------------------------------------------------------------------------
(* complete_multipart_upload.                                              *)

\* Bound: a complete starts only while an object id is left for it.
IdLeft == Cardinality({r \in Reqs : req[r].pc \in {"status", "validate"}})
             < Cardinality(Ids \ used)

\* The list is in order and the upload has a row, whose metadata is read.
CompleteStart(r, u, claim) ==
    /\ req[r].pc = "idle" /\ IdLeft
    /\ u \in DOMAIN uploads
    /\ req' = [req EXCEPT ![r] = [Idle EXCEPT !.pc = "status", !.upload = u,
                                              !.claim = claim, !.alg = uploads[u]]]
    /\ UNCHANGED <<bucket, tables, disk, used, aged, cleaner, crashes>>

CompleteStatus(r) ==
    /\ req[r].pc = "status"
    /\ \/ /\ bucket # "absent"
          /\ req' = [req EXCEPT ![r].pc = "validate", ![r].versioned = (bucket = "Enabled")]
       \/ bucket = "absent" /\ Finish(r)
    /\ UNCHANGED <<bucket, tables, disk, used, aged, cleaner, crashes>>

\* Mutant: the size of the last part is checked and not that of the others.
ValidLastLarge(t) ==
    \A n \in DOMAIN t.claim :
        /\ <<t.upload, n>> \in DOMAIN parts
        /\ parts[<<t.upload, n>>] = t.claim[n]
        /\ (\A m \in DOMAIN t.claim : m <= n) => t.claim[n] \in Large

\* Every part listed has a row with the etag claimed, and all but the last
\* have the minimum size.
Valid(t) ==
    \A n \in DOMAIN t.claim :
        /\ <<t.upload, n>> \in DOMAIN parts
        /\ parts[<<t.upload, n>>] = t.claim[n]
        /\ (\E m \in DOMAIN t.claim : m > n) => t.claim[n] \in Large

CompleteValidate(r) ==
    /\ req[r].pc = "validate"
    /\ \/ /\ Valid(req[r])
          /\ \E i \in Ids \ used :
              /\ used' = used \cup {i}
              /\ req' = [req EXCEPT ![r].pc = "read", ![r].id = i]
       \/ ~Valid(req[r]) /\ Finish(r) /\ UNCHANGED used
    /\ UNCHANGED <<bucket, tables, disk, aged, cleaner, crashes>>

\* fs::read, one part after the other; NoSuchPart when the file is gone.
CompleteRead(r) ==
    /\ req[r].pc = "read"
    /\ LET t    == req[r]
           Left == DOMAIN t.claim \ DOMAIN t.got IN
        \/ \E n \in Left :
            /\ \A m \in Left : n <= m
            /\ IF <<t.upload, n>> \in DOMAIN files
               THEN req' = [req EXCEPT ![r].got = With(@, n, files[<<t.upload, n>>])]
               ELSE Finish(r)
        \/ Left = {} /\ Goto(r, "blob")
    /\ UNCHANGED <<bucket, tables, disk, used, aged, cleaner, crashes>>

\* The parts are sealed and written; no call carries the customer's key, so
\* an SSE-C upload ends here with MissingSecurityHeader.
CompleteBlob(r) ==
    /\ req[r].pc = "blob"
    /\ \/ /\ req[r].alg # "SSE-C"
          /\ blobs' = With(blobs, req[r].id, req[r].got)
          /\ Goto(r, "commit")
       \/ req[r].alg = "SSE-C" /\ Finish(r) /\ UNCHANGED blobs
    /\ UNCHANGED <<bucket, tables, dirs, files, used, aged, cleaner, crashes>>

Superseded(t) ==
    IF t.versioned THEN [i \in DOMAIN objects |-> [objects[i] EXCEPT !.latest = FALSE]]
                   ELSE Nothing

Assembled(t) == With(Superseded(t), t.id, [etag |-> t.claim, latest |-> TRUE])

\* Supersede, INSERT (which fails when the bucket is gone), DELETE the parts
\* and the upload.
CompleteCommit(r) ==
    /\ req[r].pc = "commit"
    /\ LET t == req[r] IN
        \/ /\ bucket # "absent"
           /\ objects' = Assembled(t)
           /\ DeleteUpload(t.upload)
           /\ Goto(r, "removeDir")
        \/ /\ bucket = "absent"
           /\ objects' = Superseded(t)
           /\ Finish(r)
           /\ UNCHANGED <<uploads, parts>>
    /\ UNCHANGED <<bucket, disk, used, aged, cleaner, crashes>>

\* The last step of complete and of abort; an error is ignored.
RemoveUploadDir(r) ==
    /\ req[r].pc = "removeDir"
    /\ RemoveDir(req[r].upload)
    /\ req' = [Unlinked(req[r].upload) EXCEPT ![r] = Idle]
    /\ UNCHANGED <<bucket, tables, blobs, used, aged, cleaner, crashes>>

-----------------------------------------------------------------------------
(* abort_multipart_upload: rows, then directory.                           *)

AbortStart(r, u) ==
    /\ req[r].pc = "idle"
    /\ u \in DOMAIN uploads
    /\ req' = [req EXCEPT ![r] = [Idle EXCEPT !.pc = "abortRows", !.upload = u]]
    /\ UNCHANGED <<bucket, tables, disk, used, aged, cleaner, crashes>>

AbortRows(r) ==
    /\ req[r].pc = "abortRows"
    /\ DeleteUpload(req[r].upload)
    /\ Goto(r, "removeDir")
    /\ UNCHANGED <<bucket, objects, disk, used, aged, cleaner, crashes>>

-----------------------------------------------------------------------------
(* The cleaner: find the stale uploads, then for each of them remove the   *)
(* directory and, in a second step, the rows.                              *)

Age(u) ==
    /\ u \in DOMAIN uploads \ aged
    /\ aged' = aged \cup {u}
    /\ UNCHANGED <<bucket, tables, disk, used, req, cleaner, crashes>>

CleanerFind ==
    /\ cleaner.pc = "sleep"
    /\ DOMAIN uploads \cap aged # {}
    /\ cleaner' = [Resting EXCEPT !.pc = "next", !.found = DOMAIN uploads \cap aged]
    /\ UNCHANGED <<bucket, tables, disk, used, aged, req, crashes>>

CleanerRemoveDir ==
    /\ cleaner.pc = "next"
    /\ \/ \E u \in cleaner.found :
            /\ RemoveDir(u)
            /\ req' = Unlinked(u)
            /\ cleaner' = [pc |-> "rows", found |-> cleaner.found \ {u}, upload |-> u]
       \/ /\ cleaner.found = {}
          /\ cleaner' = Resting
          /\ UNCHANGED <<dirs, files, req>>
    /\ UNCHANGED <<bucket, tables, blobs, used, aged, crashes>>

\* Mutant: the parts are deleted and the upload is not.
CleanerKeepUpload ==
    /\ cleaner.pc = "rows"
    /\ parts' = Without(parts, SlotsOf(cleaner.upload))
    /\ cleaner' = [cleaner EXCEPT !.pc = "next", !.upload = None]
    /\ UNCHANGED <<bucket, uploads, objects, disk, used, aged, req, crashes>>

CleanerRows ==
    /\ cleaner.pc = "rows"
    /\ DeleteUpload(cleaner.upload)
    /\ cleaner' = [cleaner EXCEPT !.pc = "next", !.upload = None]
    /\ UNCHANGED <<bucket, objects, disk, used, aged, req, crashes>>

-----------------------------------------------------------------------------
(* Faults.                                                                 *)

\* The connection closes and the server drops the handler's future.
Abandon(r) ==
    /\ "abandon" \in Faults
    /\ req[r].pc # "idle"
    /\ Finish(r)
    /\ UNCHANGED <<bucket, tables, disk, used, aged, cleaner, crashes>>

\* What the process may have executed of the closure it dies in.
LastStatements ==
    \/ UNCHANGED tables
    \/ \E r \in Reqs :
        LET t == req[r] IN
        \/ /\ t.pc = "partRow"
           /\ parts' = Without(parts, {<<t.upload, t.part>>})
           /\ UNCHANGED <<uploads, objects>>
        \/ /\ t.pc = "abortRows"
           /\ parts' = Without(parts, SlotsOf(t.upload))
           /\ UNCHANGED <<uploads, objects>>
        \/ /\ t.pc = "commit"
           /\ objects' = Superseded(t)
           /\ UNCHANGED <<uploads, parts>>
        \/ /\ t.pc = "commit" /\ bucket # "absent"
           /\ objects' = Assembled(t)
           /\ parts' \in {parts, Without(parts, SlotsOf(t.upload))}
           /\ UNCHANGED uploads
    \/ /\ cleaner.pc = "rows"
       /\ parts' = Without(parts, SlotsOf(cleaner.upload))
       /\ UNCHANGED <<uploads, objects>>

\* Tasks and the cleaner's list are lost, tables and files stay; the next
\* start runs the cleaner anew.
Crash ==
    /\ crashes < MaxCrashes
    /\ crashes' = crashes + 1
    /\ LastStatements
    /\ req' = [r \in Reqs |-> Idle]
    /\ cleaner' = Resting
    /\ UNCHANGED <<bucket, disk, used, aged>>

-----------------------------------------------------------------------------
Continue(r) ==
    \/ DeleteBucketCommit(r)
    \/ CreateRow(r)
    \/ PartOpen(r) \/ PartWrite(r) \/ PartRow(r)
    \/ CompleteStatus(r) \/ CompleteValidate(r) \/ CompleteRead(r)
    \/ CompleteBlob(r) \/ CompleteCommit(r)
    \/ AbortRows(r) \/ RemoveUploadDir(r)

Begin(r) ==
    \/ DeleteBucketCheck(r)
    \/ \E alg \in Algorithms : CreateStart(r, alg)
    \/ \E u \in Uploads, n \in PartNumbers, body \in Bodies : PartStart(r, u, n, body)
    \/ \E u \in Uploads, claim \in Lists(Bodies) : CompleteStart(r, u, claim)
    \/ \E u \in Uploads : AbortStart(r, u)

Cleaner == CleanerFind \/ CleanerRemoveDir \/ CleanerRows

Next ==
    \/ CreateBucket
    \/ \E status \in {"Enabled", "other"} : SetBucketVersioning(status)
    \/ \E r \in Reqs : Begin(r) \/ Continue(r) \/ PartBodyError(r) \/ Abandon(r)
    \/ \E u \in Uploads : Age(u)
    \/ Cleaner
    \/ Crash

Spec == Init /\ [][Next]_vars

\* interval.tick() fires every hour and the cleanup task runs until it waits
\* for the next tick.
FairSpec == Spec /\ WF_vars(Cleaner)

-----------------------------------------------------------------------------
(* Properties.                                                             *)

\* A part on record can be completed: its file holds the body of its etag,
\* whatever is aborted, completed or killed meanwhile, until the cleaner
\* takes the upload (upload_part writes file then row, abort and complete
\* delete rows then files).
PartsOnDisk ==
    \A s \in DOMAIN parts :
        s[1] \notin aged => s \in DOMAIN files /\ files[s] = {parts[s]}

\* An object assembled by complete consists of the parts whose etags were
\* validated, read one file at a time long after the validation, and all of
\* them but the last have the minimum size.
AssembledAsValidated ==
    \A i \in DOMAIN objects :
        LET etag == objects[i].etag IN
        /\ i \in DOMAIN blobs
        /\ blobs[i] = [n \in DOMAIN etag |-> {etag[n]}]
        /\ \A m, n \in DOMAIN etag : n < m => etag[n] \in Large

\* An upload that passes the cleaner's cutoff leaves the table, although the
\* process may die between any two of the cleaner's steps.
StaleUploadsGo ==
    \A u \in Uploads :
        u \in DOMAIN uploads \cap aged ~> u \notin DOMAIN uploads
=============================================================================
