# A TLA+ development of strix

strix is an S3-compatible object server in Rust. This directory holds TLA+ modules that model
the parts of it where the difficulty lies in interleavings, failures and ordering, the TLC
configurations that check them on small instances, and proofs, checked by TLAPS, of nearly all
their safety properties for instances of every size. `PROJECT.json` lists the runs, the lines
of the source behind every definition, the mutants that show each property can fail, the
hazards and the findings.

Paths below are relative to the repository; `localfs.rs` is
`crates/strix-storage/src/localfs.rs`.

## 1. The system

| Part | State it keeps | Operations | Modules |
|---|---|---|---|
| Object store data path (`localfs.rs`) | SQLite tables `buckets`, `objects`; blob files named after the row's ULID; temporary files | create/delete bucket, versioning, put, get, head, copy, delete (with and without version), legal hold, retention | `LocalFsStore`, `VersionStore` |
| Multipart uploads (`localfs.rs`), cleaner (`cleanup.rs`) | tables `multipart_uploads`, `parts`; `multipart/<upload>/<part>` files | create, upload_part, complete, abort; hourly removal of stale uploads | `Multipart` |
| Notification dispatcher (`dispatcher.rs`) | a bounded channel in memory, table `notification_delivery` | emit, background delivery with retries, delivery log, alerts | `Dispatcher` |
| Bucket configuration, tenants (`localfs.rs`) | CORS, lifecycle, notification and tagging rows, `tenants`, `buckets.tenant_slug` | get, put, delete | `BucketTables` |
| S3 service (`service.rs`) | none | one handler per S3 call: authorize, call the store, audit, emit an event | `S3Handlers`, `Service`, `Listing` |
| S3 credential lookup (`iam_auth.rs`), authorization | none | secret for a key, status checks, session token, policies | `S3Access` |
| IAM store (`strix-iam/src/store.rs`) | users, access keys, groups, policies, attachments, temporary credentials, rate limits, providers, SMTP settings | create/update/delete of each, with cascades | `IamStore` |
| Policy evaluation (`policy.rs`) | none | identity and bucket policies, principals, conditions, wildcards | `Policy` |
| Admin API (`strix-admin`) | none | one handler per call behind the authorization and audit middlewares | `AdminApi` (identities), `BucketAdmin` (buckets), `Listing` |
| Console login, single sign-on, settings | signed tokens, single-use flows, `rate_limits` | login, callback, provisioning, root-only settings, seeding at start | `Console` |
| Listing (`localfs.rs`, handlers, `strix-cli`) | none | pages with prefix, delimiter, markers or offsets; the commands rm, rb, ls | `Listing` |
| Migrations, cryptography, presigning arithmetic, e-mail, metrics, web console | - | - | not modelled, section 6 |

Handlers are asynchronous: each `db.call` closure runs alone on the one SQLite connection
thread, but a handler is suspended at every `await`, other handlers run in between, and hyper
drops a handler's future when its connection closes. No handler uses a transaction, so the
statements inside a closure are committed one by one. These three facts, and process crashes,
are what the modules are about; the list of places where they bite is `hazards` in
`PROJECT.json`.

What makes each part correct, in one line each:

- data path: a row that can be found has its bytes, under the key it was sealed with; version
  ids identify versions; one version is the latest and it is the newest; locks hold;
- multipart: what is assembled is what was validated; acknowledged parts stay until the
  upload ends; stale uploads go away;
- dispatcher: the log says what the endpoints saw, one record per rule, nothing is stuck;
- buckets and tenants: settings go with their bucket; a tenant in use stays;
- handlers: nothing happens that was not authorized in the same request, and what is told to
  subscribers and to the audit log is what happened;
- identities: no grant outlives its user, key or group, nobody revoked is let in, and whoever
  is let in was allowed;
- login: guesses are bounded and lockouts end; a flow gives one session; settings are root's;
- listing: what is there during a walk is listed, and no walk is sent back.

## 2. Modules

| Module | Contents |
|---|---|
| `LocalFsStore` | the data path: tables, files, request tasks, faults; its properties and its refinement mapping |
| `VersionStore` | abstract specification: an id is published at most once, with a body that never changes |
| `LocalFsStoreProofs` | theorems about `LocalFsStore`, that it implements `VersionStore` among them |
| `Multipart`, `MultipartProofs` | multipart uploads and the cleaner; theorems |
| `Dispatcher`, `DispatcherProofs` | the notification dispatcher; theorems |
| `Policy` | policy evaluation as operators, with a reference meaning of patterns (`Denotes`, `Covers`) |
| `IamStore`, `IamStoreProofs` | the IAM tables, and its one-closure functions as operators on them; theorems about these and about `Policy` |
| `AdminApi` | extends `IamStore`: the identity half of the admin API, closure by closure |
| `S3Access`, `S3AccessProofs` | extends `AdminApi`: S3 credentials and authorization; the properties of both; theorems |
| `Console`, `ConsoleProofs` | extends `IamStore`: login, rate limit, single sign-on, settings, restart; theorems |
| `BucketTables` | the bucket side of the store, closure by closure |
| `S3Handlers` | extends `BucketTables`: the S3 handlers that are not listings |
| `BucketAdmin` | extends `S3Handlers`: the bucket half of the admin API |
| `Service`, `ServiceProofs` | composes the two APIs on one store; the properties; theorems |
| `Listing`, `ListingProofs` | the listings and the clients that page through them; theorems |
| `MC...` | instances for TLC |

### LocalFsStore

`buckets`, `objects`, `blobs` and `tmp` are the tables and directories, `req` holds the program
counter and the local variables of each request task, `used` the ULIDs handed out, `now` the
clock in the whole seconds of `datetime('now')`. One action per closure or file operation:
`put_object` is `PutStart` (versioning status, ULID), `PutOpenTmp`, `PutStreamBody`,
`PutSeal`/`PutDropPlain` when encrypted (or `PutWithoutKey`, the refusal of an SSE-C body
without its key, which leaves the plaintext file), `PutRename`, `Commit`; `copy_object` is
`CopyHead`, `CopySource`, `CopyDestination`, `CopyBlob`, `Commit`; a delete is `DeleteStart`,
`DeleteLockCheck`, then `DeleteMarker` in a versioned bucket, otherwise `DeleteSelect`,
`DeleteRows`, `DeleteUnlink` and, for a named version, `DeletePromote`; `get_object` is
`GetRow`, `GetBlob`; bucket deletion and `put_object_retention` are a check and a commit.
`Abandon` drops a handler at any await, `PutBodyError` breaks a body, `Crash` and
`CrashInClosure` kill the process, the latter between two statements of a closure.

Abstractions: a body is a model value and is its own MD5; ULIDs are fresh; AES-GCM opens a
blob only with the key it was sealed with, and the SSE-S3 key depends on bucket, key and
version id (`derive_object_key`); metadata, conditional and range requests are left out; I/O
errors are covered by `Abandon`, which stops a handler at the same places.

### Multipart

One key of one bucket. `uploads` and `parts` are the tables, `dirs` and `files` the part
files; a file's contents are the set of bodies written since it was truncated, so a broken or
shared write is visible. A writer whose directory was removed goes on writing to an unlinked
file (`linked`). `complete` reads metadata, status, validates, reads the part files one after
the other, writes the blob, commits, removes the directory; the cleaner finds aged uploads
and removes directory, then rows. `Crash` may leave any prefix of the statements of the
closure that was running (`LastStatements`). The list given to `complete` is strictly
increasing, so it is a function from part numbers to claimed etags; lists out of order are
refused before anything is read. `create_dir_all` and `open` are one step; a removal between
the two makes the call fail like `Abandon`. Encryption matters here only because an SSE-C
upload can never be completed.

### Dispatcher

`channel` is the bounded mpsc channel, `task` the single background task, `received` what
the endpoints got, `log` the table `notification_delivery`, `alerted` the calls of the
alerter. A post is answered with success, with another status, or not at all before
`delivery_timeout`, in which case it may have arrived. Rules are read once per event. A
rule's prefix and suffix filters are the set of keys that pass them.

### Policy, IamStore, AdminApi, S3Access

A string is a sequence of tokens, cut where a pattern may cut it, so that `MatchesWildcard` is
the code's dynamic program and not a comparison of names; `Denotes` and `Covers` say what a
pattern means without it, and `GrantsAreJustified` holds the two against each other. `db` is
the IAM database. A function of `store.rs` that is one closure is an operator from tables to
tables and a result; one that awaits (`create_access_key`, `attach_user_policy`,
`add_user_to_group`, `attach_group_policy`, `assume_role`, `is_authorized`) is an action per
closure, with its locals in `task`. `S3Access` adds `get_secret_key`, `validate_session_token`,
`get_username` and the bucket policy step of `check_authorization`. `past` is history: the
denials that stood since an evaluation began, the permissions and memberships that were there
at some time during it, whether the bucket's policy denied the request all that time, and who
was unusable since the request arrived. Root's requests skip authorization, as in the
middleware.

### Console

A `login` is the check of the rate limit, the credentials, and then either the record of the
failure or the clearing of the attempts with the token: three awaits. Times are ages and
remainders moved by `Tick`, so that time itself has no bound; `guesses` is history, the wrong
guesses of the last window by their age. `auth_callback` removes the
flow, then reads the provider, exchanges the code, looks the user up, creates it, reads the
default policy and attaches it, with `AdminChange` and the settings handlers in between.
`Restart` loses requests and flows, and the sessions unless the signing secret is configured;
`SeedSmtpConfig` and `SeedOidcProvider` follow.

### BucketTables, S3Handlers, BucketAdmin, Service

A store function takes the task, and where the handler goes on after success; `call` counts its
closures. Of an object there is the latest row with the places its bytes came from, its tags,
its lock and whether it is a delete marker; the closures, versions and files of the object
calls are in `LocalFsStore` and `Multipart`. `gen` tells the incarnations of a bucket apart; a
setting has that of the bucket its row was stored in, which need not be the one its put had
found. Uploads are rows under an id, with the bucket and key they were created for; a request
about an upload names a bucket, a key and an id, and the store looks at the id alone. `asks`
are the permissions a handler wants before it calls the store; a permission is granted or
refused at will here (how it is decided is `S3Access`) and granted ones are kept in `grants`.
`did` and `at`, `told` and `named`, and `warned` are history: what the store did for the
request and where, what the audit log and the dispatcher were told of it and of which bucket
and key, and the refusals that were logged or mailed. An audit entry may be lost
(`audit_lost`), since `log_audit` goes on when the store does not take it. `Crash` stops all
requests; the database stays.

### Listing

The pages of the store are operators from the table to an answer; a walk sends the marker of
each answer with the next request while rows come and go. Keys are sequences of characters
with SQLite's order and the LIKE patterns of the code. `always` is what was there since the
walk began, `calm` that nothing was deleted since. The removal of a version and the promotion
of the next are one step here (they are two in `LocalFsStore`): a key that is unlisted in
between is not among what was there all the while. `rm --recursive` deletes what it walks
over, `rb --force` lists from the start each time, `ls` stops after one page. Rows change as
in `LocalFsStore` when no two commits share a second.

## 3. What TLC checks

All passing runs end within five minutes with two workers.

| Run | Instance | Shows |
|---|---|---|
| `store_faults` | 2 tasks, 3 ids, 2 bodies, SSE-C, all faults; put, get, delete, versioning, bucket create/drop | `TypeOK`; `RowsReadable`; `VersionIdsUnique`; `LatestIsNewest`; `EtagMatchesBody`; `TmpNeverStored` |
| `store_copies` | 2 tasks, 3 ids, SSE-S3 and SSE-C; put, copy, delete, versioning, drop; no faults | `RowsReadable` when a copy's source changes under it; `HeadlessIsAttended`; `ImplementsVersionStore` |
| `store_locks` | 1 task, clock passing a retention date, fairness | `DeletesRespectLocks`; `LatestRestored`: a key never stays without a latest version |
| `compliance_race` | 2 tasks, one object | expected to violate `ComplianceIsFinal`: COMPLIANCE retention is replaced |
| `multipart` | 1 upload, 2 parts, 2 bodies (one below 5 MB), 2 tasks, 2 objects, dropped handlers | `PartsOnDisk`, `AssembledAsValidated` |
| `multipart_cleaner` | 2 uploads, 1 task, a crash inside any closure, fairness of the cleaner | `TypeOK`, `StaleUploadsGo` |
| `dispatcher` | 2 events, channel of 1, 2 retries, 3 rule lists, failing log, a crash, fairness | `TypeOK`, `OneRecordPerRule`, `LogIsTruthful`, `AcceptedIsHandled`, `FailuresAlerted` |
| `access` | 2 requests, 1 user, group and policy name, 3 keys with a limit of 1, a temporary credential, documents that allow and deny; three workloads | `TypeOK`; `NoDanglingRows`; `KeysBounded`; `GrantsAreJustified`; `NoAccessOnceRevoked` |
| `console` | 2 requests, 1 address, 3 attempts, a window of 1 and a lockout of 2, 1 provider, 1 flow; three workloads, fairness of the clock | `TypeOK`; `GuessBudget`; `FlowUsedOnce`; `ProvisionsOnlyNewUsers`; `SettingsAreKept`; `LockoutEnds` |
| `service` | 2 requests, 1 bucket created twice, 2 keys, 2 uploads, 1 tenant, 1 rule; twelve workloads | `TypeOK`; `ConfigDiesWithBucket`; `EventsMatchEffects`; `TenantsInUseStay`; `EffectsWereAuthorized` |
| `upload_place` | 1 request at a time, 2 keys, 1 upload | expected to violate `CompletesInPlace`: the upload of one key is completed by a request granted for the other |
| `listing` | 5 keys, 2 of them in folders, 4 versions or parts or names, pages of 1, with and without a start key; nine kinds of walk | `TypeOK`; `WalksAreExact`; `FoldersComplete`; `PagesAdvance` |

Two runs record where the code does not do what a comment or a document of the repository
says. `compliance_race`: `put_object_retention` reads the mode in one closure and updates in the
next, and of two calls that both read no retention the second replaces the COMPLIANCE retention
of the first ("Cannot modify compliance retention", `localfs.rs:3182`). `upload_place`: an upload
is found by its id alone and is completed under the bucket and key stored with it, while the
request was authorized for the ones it names ("completing multipart upload requires PutObject",
`service.rs:2041`). Section 4 has the others.

Why the bounds are enough. Two tasks suffice for every race of a check with a later use; a
third id gives a replaced, a replacing and a deleted version at once, which is what promotion
and unlinking can confuse. One bucket and one key: the code never relates two keys, except in
`copy_object`, whose source and destination may then coincide, the harder case. Two parts
give a part that is last and one that is not. In `access` one request is judged and the other
is root's, since evaluations only read and cannot disturb each other; one user suffices as no
function relates two of them, and a group and a user give a policy two ways to arrive. In
`console` two attempts below the limit and two requests let the limit be reached, passed and
reached again after the lockout. In `service` a second incarnation of a bucket is what a stale
existence check can meet, two keys tell a batch and a copy's source from its target, and with
two uploads of two keys a request may name the wrong one. In
`listing` pages of one entry put every entry at the boundary of a page, and folders lie
between, before and after plain keys. Every assumption that a passing run makes of its
environment is a constant: `DistinctSeconds` (no two INSERTs in one second), `Resend = FALSE`
(no part is sent again once it is on record), one client at a time in `store_locks`;
`Workloads`, `Loads` and `Kinds` are the sets of operations that meet in one behaviour.
`copy` is left out of `store_faults` because `EtagMatchesBody` fails with it. Ids, tasks and
bodies are symmetric where no liveness property is checked; in `access` the key ids are, in
`service` tasks and keys.

Fairness. `store_locks`: a task that is neither dropped nor killed goes on until it returns
(tokio schedules a woken task; closures and file operations end). `multipart_cleaner`: the
ticker fires every hour, and one pass runs to its end; crashes are bounded by `MaxCrashes`,
since a process that dies in every pass cleans nothing. `dispatcher`: the spawned task is
scheduled, and every post ends by an answer or by the client's timeout. `console`: time does
not stop; nothing is assumed of logins. Nothing is assumed of clients or endpoints anywhere.

What the properties leave out is what the code does not give, and is named here:
`KeysBounded` allows one key more per concurrent request, `GuessBudget` one guess more per
concurrent login and a second window beside the first; `TenantsInUseStay` allows a bucket
created between the count and the delete to be left with the slug of a deleted tenant;
`ConfigDiesWithBucket` allows a put that found one bucket to store its setting in the next one
of the name; `EffectsWereAuthorized` and `EventsMatchEffects` allow a request about an upload to
be granted, and to announce, another place than the upload's; `TmpNeverStored` allows the files
of uploads that came to nothing to stay; `DeletesRespectLocks` is for one client at a time, and
`LatestRestored` and `HeadlessIsAttended` are for calls that are not dropped; `WalksAreExact`
holds for versions and names only while nothing is deleted; neither it nor `PagesAdvance` is
about `start_after`, which is preferred to the token that is sent along with it, so that the
same page comes again, and `PagesAdvance` not about `rb`, which lists from the start each time.

## 4. Known deviations of the code

Each can be seen by changing a configuration as said and checking the named definition.

| What happens | How to see it |
|---|---|
| Versions of one second: hard deleting one promotes any of the others (`ORDER BY created_at`, `localfs.rs:2572`), and two rows end up latest; `db.rs:82` says "1 if this is the latest version" | `store_faults.cfg` with `Bodies = {x}`, `Reqs = {r1}`, `Ops = {"create", "versioning", "put", "delete"}`, `Faults = {}`, `DistinctSeconds = FALSE`: `LatestIsNewest` |
| A put into an unversioned bucket removes a version under legal hold (`localfs.rs:1261`); the README advertises WORM | the same file with `Bodies = {x}`, `Reqs = {r1}`, `Ops = {"create", "put", "hold"}`, `Faults = {}`, no symmetry: property `LockedVersionsSurvive` |
| The source is overwritten between the two queries of `copy_object` (`localfs.rs:1623`): old etag, new body | the same file with `Ops = {"create", "put", "copy"}`, `Faults = {}`: `EtagMatchesBody` |
| A crash between the DELETE and the INSERT of an overwrite loses the object | the same file with `Bodies = {x}`, `Reqs = {r1}`, `Ops = {"create", "versioning", "put"}`, `Faults = {"crash"}`, no symmetry: property `OverwriteIsAtomic` |
| A part on record is sent again and breaks off after the truncation (`localfs.rs:1885`): `complete` accepts the old etag and assembles the truncated file | `multipart.cfg` with `Reqs = {r1}`, `Ops = {"versioning"}`, `Faults = {"body"}`, `Resend = TRUE`, no symmetry: `AssembledAsValidated` |
| A bucket policy that denies does not count when a policy of the user's allows: `check_authorization` returns before it reads it (`service.rs:262`); `docs/guides/iam-policies.md:381` says "If any policy explicitly denies the action, access is denied" | `access.cfg` with `BucketDocs <- ReadOnlyDocs`, `Workloads <- DenyWorkloads`: the invariant `DenyTakesPrecedence` |
| A user whom a policy denies is served by a bucket policy that allows: `is_authorized` returns the same for a denial and for silence, and `check_authorization` goes on to the bucket policy (`service.rs:262`) | `access.cfg` with the invariant `DenyTakesPrecedence` |
| The prefix of a list call becomes a LIKE pattern whose wildcards are not escaped (`localfs.rs:1435`), so that a listing by `a_` gives `ab` too and `rm --recursive` deletes it; `docs/reference/s3-api.md:129` says "Filter by prefix" | `listing.cfg` with `Keys <- UnderscoreKeys`, `Prefix <- UnderscorePrefix`, `Kinds <- RemoveOnly`, `MaxRows = 2`: the invariant `OnlyThePrefix` |

Others, that follow from reading the modelled lines and contradict no document we know of:
rules added to a bucket's notifications concurrently, and tags set concurrently, lose one of
the two; parts can be added to, and an abort can remove, an upload of another key, as with
`upload_place`; a setting may be stored in a bucket created after its put had looked; an SSE-C
put without a key leaves its plaintext file; locking asked for when a bucket is created stores
nothing; a bucket policy survives its bucket; the blob of an overwritten object is never
unlinked; the callback of single sign-on does not look at the user's status; a tenant filter is
checked before the call it guards; a denial by a bucket policy is not audited while a default
denial is; the S3 rate limiter never limits, as nothing records a failure; presigned URLs of
the admin API are signed as root; a list of versions drops delete markers at the end of a full
page, and ends early when the row of its marker is gone; a client that sends `start_after` with
each token is given one page for ever; uploads past the first page cannot be listed; `ls` shows
one page; `rb --force` does not end while an object cannot be deleted; a provider that was
deleted comes back from the environment at the next start if it was the last.

## 5. What is proved

For any sets of names, ids and tasks, any operations and, unless said otherwise, any faults.
Each module's theorems come from one inductive invariant, which TLC checked on the module's
run before it was proved; what a property needed beyond itself is named below.

`LocalFsStoreProofs`:

- `TypeCorrect`: `Spec => []TypeOK`. The invariant `TypeInv` adds to `TypeOK` that a task at a
  given program counter carries the arguments that step uses (`Armed`).
- `Readable`: `Spec => []RowsReadable`. Not inductive by itself: nothing in it says that the
  blob a task is about to commit is in place, that the ids a delete is about to unlink no
  longer have rows, or that two writers do not share an id. `SafeInv` adds exactly this:
  ids of rows, blobs and writers were handed out; writers' ids are apart from each
  other's and from the table; a task about to commit has placed its blob under the row's
  key; ids selected by a delete after its DELETE have no rows; delete markers are bare; a
  copy knows how its source is sealed.
- `VersionIdsIdentify`: `Spec => []VersionIdsUnique`, from `SafeInv` and the fact that a row's
  version id is its own ULID or `null`, with `TableMoves`: every step leaves the rows'
  identities alone, promotes a newest row, commits, or adds a marker.
- `LatestIsUnique`: `DistinctSeconds => (Spec => []LatestIsNewest)`. The assumption is
  needed, as the first deviation of section 4 shows.
- `Refinement`: `Spec => ImplementsVersionStore`, with published versions mapped to the rows
  that are not markers together with their blobs.
- `EtagsMatch`: `"copy" \notin Ops => (Spec => []EtagMatchesBody)`; with copies it is false
  (section 4). `EtagInv` adds that a put knows its body's etag, and that no write under way
  will place the blob a reader is about to open (`ReadersApart`).
- `TmpIsNeverStored`: `Spec => []TmpNeverStored`, for all faults. A put that is dropped or refused
  leaves its files, but at every point where it can be stopped they are still of an id without a
  blob: the invariant adds which files a put at a given step may still have, and that the id of
  a file is of no other task.
- `HeadlessAreAttended`: `HeadlessIsAttended`, if no task is dropped or killed (`Undropped`; a delete
  that stops between its DELETE and its promotion leaves the key without a latest version).
  What `LatestRestored` checks under fairness for one task rests on this for any number: a key
  without a latest version has a delete that will promote one. The invariant adds that rows are
  in buckets that exist (`InBuckets`), since a write that fails on the foreign key demotes first.
- `DeletesAreChecked`: `DeletesRespectLocks`, for `DistinctSeconds` and one call at a time
  (`OneAtATime`; overlapping calls can act on a lock that has changed since it was read).
  `LockInv` adds that what a call has read of its bucket's status and of locks still holds when
  it acts, and that the rows of a bucket that was never versioned are all latest (`FlatRows`),
  so that the one row which `object_delete_locked` looks at is all that a delete without a
  version removes.

`MultipartProofs`: `TypeCorrect` for all clients; `RecordedPartsStay` (`PartsOnDisk`) and
`ObjectsAreAsValidated` (`AssembledAsValidated`) under `~Resend`, since a part that is sent again
truncates the file a complete may be reading (section 4). `SafeInv` says who may still touch
an upload's files: an id that is not in the table is known to one create only and a removed
upload never comes back; a part that is being sent has no row; what is on record is settled on
disk; what a complete has read so far is what it validated; ids of objects are not shared.

`DispatcherProofs`: `TypeCorrect`, `RecordsAreUnique`, `LogTellsTheTruth`. An event lies in one
place, before the channel, in it, or in the task; nothing was posted or logged for it before
the task took it, nor for the rules of its snapshot that the task still holds.

`IamStoreProofs`: `MatcherIsExact`: the dynamic program of `matches_wildcard` answers, for every
pattern and value, whether the value can be cut as the pattern says (`Denotes`). The table's
existence and its meaning are proved by induction on the sum of its indices, by way of a set of
numbers that has 0 and every successor (`SetInduction`, from the least element principle).
`EvaluateIsRight`: a document denies what one of its denials covers and allows what a permission
and no denial covers, whatever the order of its statements. And, as lemmas, that every
function of the store keeps the tables typed and linked, whatever it is called with.

`S3AccessProofs`: `TypeCorrect` and `RowsAreLinked` (`NoDanglingRows`) from those lemmas;
`KeysStayBounded`: the keys a user has, and one for each request that has counted and not yet
inserted, are at most the limit plus the other requests; `RevocationHolds`
(`NoAccessOnceRevoked`), provided nobody is called `anonymous`, the name under which
`get_username` lets unsigned requests on; `GrantsJustified`: what an evaluation has gathered was
there at some time since it began, and a denial that stood all the time is among what it has
gathered or has still to read. The last proof showed that a new key id must differ from those of
requests in flight too (`FreshIds`), as ids drawn at random do.

`ConsoleProofs`: `TypeCorrect`, `FlowsAreUsedOnce`, `OnlyNewUsersAreProvisioned`,
`SettingsAreRoots` (`SettingsAreKept`). The sessions made of a flow, the callbacks that hold it
and the flow itself, if still stored, are at most one together; a callback that provisions has
seen the user absent; a session of root is not older than its time since root's last login.
`GuessesAreBounded` (`GuessBudget`), which is a count over several windows: a row of the limiter
that is not full has counted all the guesses younger than itself but those of logins that are
still to record theirs, so that the older ones are what an earlier row let through, and during a
lockout, which is longer than a window (an assumption on the constants, as in the code's
defaults), only the logins that were past the check when it began can add to them.

`ServiceProofs`: `TypeCorrect`, `SettingsDieWithBucket` (`ConfigDiesWithBucket`),
`EventsAreTruthful` (`EventsMatchEffects`), `TenantsInUseAreKept` (`TenantsInUseStay`),
`EffectsAreAuthorized` (`EffectsWereAuthorized`). Each step of each of the handlers is shown to
have one of thirteen effects on the tables, with the permission that covers it; each kind of
effect then keeps the tables' part of the invariant, and the tasks' part ties a task's place
to what it has asked, done and told. `ConfigDiesWithBucket` rests on the cascades and on the
foreign key of the second closure, which refuses a row for a bucket that is gone. For uploads
the invariant says that ids are given out once and that a row's bucket is there; what was
granted is tied to the request's place, and what is announced to the place of the effect,
except for a completed upload, where the two places may differ.

`ListingProofs`: `TypeCorrect`; `WalksExact` and `FoldersListed`, which are `WalksAreExact` and
`FoldersComplete` for a prefix without `%` (`PlainPrefix`; for `a%` the pattern is `a\%%`, in
which the backslash stands for itself, and keys that do begin with `a%` are not listed); and
`PagesGoOn` (`PagesAdvance`) for any prefix and any changes, deletions of a version marker's
own row included, since the rows of a page, and so its marker, are after the marker asked for.
An ORDER BY is a rank, the number of rows before a row, so the proofs begin with cardinalities:
of a finite set in a strict total order every row has a rank of its own, and the list is a
bijection (`Ranks`, `RankedLists`); that the order of keys by character codes is total needs
the least place where two keys differ. A page is then what lies between two markers (`Onward`),
shown for each of the listings; that a key with the prefix matches the LIKE pattern rests on
`MatcherIsExact`. The invariant adds to the properties what is behind the marker: nothing but
what was seen (`Progress`) and all that was there since the walk began (`SeenAll`,
`FoldersSeen`). Steps of others do not bring anything behind the marker: ranks among keys never
change, and an offset is safe while its table only grows (`PassedBack`). `HistoryOK` has what
versions need: while nothing is deleted, the marker's row is still there and there are no
delete markers.

The assumptions on constants (`SentinelsDiffer`, `BoundsAreSane`, and one in each of the other
modules with bounds) say only that sentinels differ from values, that names are not of two
kinds at once, that sets that are counted are finite, that bounds are numbers, that no two
characters share a place in the collation and that the lockout outlasts the window; TLC
evaluates them in every run.

Only model-checked: liveness and everything under fairness (`LatestRestored`, `StaleUploadsGo`,
`AcceptedIsHandled`, `FailuresAlerted`, `LockoutEnds`), which is out of the provers' reach. Every
safety property of a passing run is a theorem.

## 6. What is not modelled, and the plan

Not modelled: cryptography, JWT and HTTP (libraries); the SigV4 arithmetic of presigned URLs;
conditional and range requests, which choose bytes and change no state; schema migrations,
which run once and alone, and whose one hazard (a crash between a batch and its record) is
plain from the two statements; formatting and delivery of mail; metrics; the commands of the
client that send one request; the web console. Lifecycle rules are stored and never applied,
so there is no engine to model.

Next: conditional requests of `get_object` and the migrations, if they come to carry state of
their own; and `WalksAreExact` with `%` in the prefix, once the queries name their escape
character.
