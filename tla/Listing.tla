------------------------------ MODULE Listing -------------------------------
(* Paging through a listing while the bucket changes: list_objects,          *)
(* list_object_versions, list_parts and list_multipart_uploads of            *)
(* crates/strix-storage/src/localfs.rs, behind the handlers of               *)
(* crates/strix-s3/src/service.rs and crates/strix-admin/src/handlers.rs     *)
(* that hand the client the marker of the next page; and the clients of      *)
(* crates/strix-cli/src/commands that page: rm --recursive, rb --force, ls.  *)
(*                                                                           *)
(* A key is a sequence of characters; the characters are strings, with "*"   *)
(* and "?" not among them (they are the wildcards of module Policy, to which *)
(* the patterns of SQLite's LIKE are translated).                            *)
EXTENDS Policy

CONSTANTS
    Keys,           \* object keys
    Code,           \* character -> its place in the BINARY collation
    Fold,           \* character -> its lower case
    Prefix,         \* the prefix the client asks for
    Delimiter,      \* the delimiter, or None
    MaxKeys,        \* max_keys, max_parts, max_uploads
    StartAfters,    \* what the client may give as start_after, None included
    PartNumbers,    \* the parts of an upload; also the rows of other tables
    Kinds,          \* what the clients of a run do
    MaxRows         \* bound: versions ever written

ASSUME ListingAssumption ==
    /\ MaxKeys \in Nat \ {0} /\ MaxRows \in Nat
    /\ \A c, d \in DOMAIN Code : Code[c] \in Nat /\ (Code[c] = Code[d] => c = d)
    /\ IsFiniteSet(Keys) /\ Keys \subseteq Seq(DOMAIN Code) /\ Prefix \in Seq(DOMAIN Code)
    /\ IsFiniteSet(PartNumbers) /\ PartNumbers \subseteq Nat \ {0}
    /\ Kinds \subseteq {"objects", "versions", "parts", "uploads", "rm", "rb", "names", "audit", "deliveries"}
    /\ None \notin Keys /\ None \notin Nat
    /\ None \notin [key: Keys, vid: 1 .. MaxRows, marker: BOOLEAN, latest: BOOLEAN]

VARIABLES
    versioned,      \* whether the bucket is
    rows,           \* objects: [key, vid, marker, latest]; vid also orders by time
    clock,          \* rows written so far
    parts,          \* the part numbers of the upload being listed
    uploads,        \* the keys with an upload in progress
    ids,            \* the rows of a table the admin API lists, by their order
    walk,           \* the client that pages
    always,         \* history: what was there since the walk began
    calm            \* history: no delete since the walk began, no delete marker

vars == <<versioned, rows, clock, parts, uploads, ids, walk, always, calm>>

-----------------------------------------------------------------------------
(* What the client asks for: the commands that remove have no delimiter, and *)
(* rb has no prefix either.                                                  *)
Removes == walk.kind \in {"rm", "rb"}
AskedPrefix == IF walk.kind = "rb" THEN <<>> ELSE Prefix

(* The order of TEXT columns; that of the keys as numbers, for TLC.          *)
Before(k, l) ==
    \/ \E i \in 1 .. Len(k) :
        /\ i <= Len(l) /\ Code[k[i]] < Code[l[i]]
        /\ \A j \in 1 .. i - 1 : k[j] = l[j]
    \/ Len(k) < Len(l) /\ \A j \in 1 .. Len(k) : k[j] = l[j]

Rank == [k \in Keys |-> Cardinality({l \in Keys : Before(l, k)})]
Less(k, l) == Rank[k] < Rank[l]

(* ORDER BY a strict total order.                                            *)
OrderBy(S, First(_, _)) ==
    [i \in 1 .. Cardinality(S) |-> CHOOSE x \in S : Cardinality({y \in S : First(y, x)}) = i - 1]
ByKey(S) == OrderBy(S, Less)
Ascending(S) == OrderBy(S, LAMBDA m, n : m < n)
Descending(S) == OrderBy(S, LAMBDA m, n : m > n)

(* format!("{}%", prefix.replace('%', "\\%")): without an ESCAPE clause the  *)
(* backslash is an ordinary character and "%" and "_" are still wildcards.   *)
LikePattern(prefix) ==
    LET pattern[n \in 0 .. Len(prefix)] ==
            IF n = 0 THEN <<>>
            ELSE pattern[n - 1] \o (CASE prefix[n] = "%" -> <<"\\", "*">>
                                      [] prefix[n] = "_" -> <<"?">>
                                      [] OTHER -> <<Fold[prefix[n]]>>)
    IN  pattern[Len(prefix)] \o <<"*">>

(* The keys with key LIKE pattern, which ignores the case of letters.        *)
Like(prefix) == {key \in Keys : MatchesWildcard(LikePattern(prefix), [i \in DOMAIN key |-> Fold[key[i]]])}

LikePrefix == Like(Prefix)
LikeNone == Like(<<>>)
Matching == IF walk.kind = "rb" THEN LikeNone ELSE LikePrefix

(* The common prefix a key is rolled up into, or None.                       *)
RolledUp ==
    [key \in Keys |->
        LET first == Len(Prefix) + 1
            found == {i \in first .. Len(key) : key[i] = Delimiter}
        IN  IF found = {} THEN None
            ELSE Prefix \o SubSeq(key, first, CHOOSE i \in found : \A j \in found : i <= j)]

CommonPrefix(key) == IF Removes THEN None ELSE RolledUp[key]

(* ORDER BY key, last_modified DESC; of the latest rows a key has but one.   *)
VersionsFirst(r, s) == Less(r.key, s.key) \/ (r.key = s.key /\ r.vid > s.vid)

(* The loop over the rows of a query: they are rolled up or returned until   *)
(* one too many is, which ends the loop.                                     *)
InOrder(S) == OrderBy(S, VersionsFirst)
Plain(queried) == InOrder({r \in queried : CommonPrefix(r.key) = None})
Folders(queried, plain) ==
    {CommonPrefix(r.key) :
        r \in {x \in queried : Len(plain) > MaxKeys => Less(x.key, plain[MaxKeys + 1].key)}} \ {None}
Take(s, n) == SubSeq(s, 1, IF Len(s) > n THEN n ELSE Len(s))

Response(items, prefixes, truncated, marker) ==
    [items |-> items, prefixes |-> prefixes, truncated |-> truncated, marker |-> marker]

-----------------------------------------------------------------------------
(* The four listings of the store; a marker is None or where the next page   *)
(* starts.                                                                   *)
Objects == {r \in rows : r.latest /\ ~r.marker}
ObjectsAfter(startAfter) ==
    {r \in Objects : r.key \in Matching /\ (startAfter # None => Less(startAfter, r.key))}

ObjectsPage(queried, plain) ==
    Response(Take(plain, MaxKeys), Folders(queried, plain), Len(plain) > MaxKeys,
             IF Len(plain) > MaxKeys THEN plain[MaxKeys].key ELSE None)

\* Mutant: the next page starts at the key the last one ended with.
ListObjectsFrom(startAfter) ==
    LET queried == {r \in Objects : r.key \in Matching /\ (startAfter # None => ~Less(r.key, startAfter))}
    IN  ObjectsPage(queried, Plain(queried))

\* Mutant: the dropped key is taken for the last one.
ListObjectsSkipping(startAfter) ==
    LET plain == Plain(ObjectsAfter(startAfter))
    IN  Response(Take(plain, MaxKeys), Folders(ObjectsAfter(startAfter), plain), Len(plain) > MaxKeys,
                 IF Len(plain) > MaxKeys THEN plain[MaxKeys + 1].key ELSE None)

\* Mutant: the query is limited to one row more than the page.
ListObjectsLimited(startAfter) ==
    LET queried == {r \in ObjectsAfter(startAfter) :
                        Cardinality({s \in ObjectsAfter(startAfter) : Less(s.key, r.key)}) <= MaxKeys}
    IN  ObjectsPage(queried, Plain(queried))

(* list_objects: the latest rows that are no delete markers.                 *)
ListObjects(startAfter) == ObjectsPage(ObjectsAfter(startAfter), Plain(ObjectsAfter(startAfter)))

(* The rows after the marker's; none, if that row is gone.                   *)
VersionsAfter(marker) ==
    {r \in rows :
        /\ r.key \in Matching
        /\ marker # None => VersionsFirst(marker, r) /\ \E x \in rows : x.vid = marker.vid}

(* The next marker is the later of the last rows of the two lists.           *)
CutVersions(versions, markers, prefixes) ==
    LET lasts == {Last(s) : s \in {versions, markers} \ {<<>>}}
    IN  Response(versions \o markers, prefixes, TRUE,
                 IF lasts = {} THEN None ELSE CHOOSE r \in lasts : \A s \in lasts : s.vid <= r.vid)

(* One row too many costs the last delete marker, if there is any.           *)
VersionsPage(versions, markers, prefixes) ==
    IF Len(versions) + Len(markers) <= MaxKeys THEN Response(versions \o markers, prefixes, FALSE, None)
    ELSE IF markers = <<>> THEN CutVersions(Front(versions), <<>>, prefixes)
    ELSE CutVersions(versions, Front(markers), prefixes)

(* list_object_versions                                                      *)
ListObjectVersions(marker) ==
    LET plain == Plain(VersionsAfter(marker))
        taken == ToSet(Take(plain, MaxKeys + 1))
    IN  VersionsPage(InOrder({r \in taken : ~r.marker}), InOrder({r \in taken : r.marker}),
                     Folders(VersionsAfter(marker), plain))

(* list_parts: no prefix, no delimiter; marker 0 is before the first.        *)
ListParts(marker) ==
    LET sorted == Ascending({n \in parts : marker # None => n > marker})
    IN  Response(Take(sorted, MaxKeys), {}, Len(sorted) > MaxKeys,
                 IF Len(sorted) > MaxKeys THEN sorted[MaxKeys] ELSE None)

(* list_multipart_uploads: the first uploads, and never a marker.            *)
ListMultipartUploads ==
    LET sorted == ByKey({k \in uploads : k \in Matching})
    IN  Response(Take(sorted, MaxKeys), {}, Len(sorted) > MaxKeys, None)

-----------------------------------------------------------------------------
(* The listings of the admin API by offset, and the two logs.                *)
Skip(sorted, offset) ==
    SubSeq(sorted, offset + 1, IF Len(sorted) > offset + MaxKeys THEN offset + MaxKeys ELSE Len(sorted))

(* PaginatedResponse: the table is read in whole and cut; the next offset is *)
(* the client's to add up.                                                   *)
Paginated(offset) ==
    LET more == offset + MaxKeys < Cardinality(ids)
    IN  Response(Skip(Ascending(ids), offset), {}, more,
                 IF more THEN offset + MaxKeys ELSE None)

(* ORDER BY timestamp DESC LIMIT ? OFFSET ?  The "total" of the answer is    *)
(* the length of the page: a client that wants all of a log goes on while    *)
(* pages are full.                                                           *)
QueryLog(offset) ==
    LET full == offset + MaxKeys <= Cardinality(ids)
    IN  Response(Skip(Descending(ids), offset), {}, full,
                 IF full THEN offset + MaxKeys ELSE None)

-----------------------------------------------------------------------------
(* The requests, out of the start the client gave and the token of the page  *)
(* before: which of them, or which offset, reaches the store.                *)
Given(marker, default) == IF marker # None THEN marker ELSE default

S3ListObjects(start, token) == ListObjects(Given(token, start))

(* start_after is sent along with every continuation token and is preferred. *)
S3ListObjectsV2(start, token) == ListObjects(Given(start, token))

AdminListObjects(token) == ListObjects(token)

S3ListObjectVersions(token) == ListObjectVersions(token)
S3ListParts(token) == ListParts(token)

(* Markers are passed on and ignored.                                        *)
S3ListMultipartUploads(token) == ListMultipartUploads

AdminListUsers(token) == Paginated(Given(token, 0))
AdminListAccessKeys(token) == Paginated(Given(token, 0))
AdminListUserPolicies(token) == Paginated(Given(token, 0))
AdminListGroups(token) == Paginated(Given(token, 0))
AdminListGroupPolicies(token) == Paginated(Given(token, 0))
AdminListUserGroups(token) == Paginated(Given(token, 0))
AdminListManagedPolicies(token) == Paginated(Given(token, 0))
AdminQueryAuditLog(token) == QueryLog(Given(token, 0))
AdminQueryNotificationDeliveries(token) == QueryLog(Given(token, 0))

-----------------------------------------------------------------------------
(* The client.  A walk asks for page after page while the answers are        *)
(* truncated; seen is what it was given, again what it was given repeatedly. *)
OfObjects == walk.kind \in {"objects", "rm", "rb"}
ByOffset == walk.kind \in {"names", "audit", "deliveries"}

Listable == (Keys \X (0 .. MaxRows)) \cup ({<<>>} \X PartNumbers)

(* What an item of a page is called: its key, if it has one, and a number.   *)
Name(item) ==
    CASE OfObjects -> <<item.key, 0>>
      [] walk.kind = "versions" -> <<item.key, item.vid>>
      [] walk.kind = "uploads" -> <<item, 0>>
      [] OTHER -> <<<<>>, item>>

(* What there is to list now.                                                *)
Present ==
    {Name(item) : item \in CASE OfObjects -> Objects
                             [] walk.kind = "versions" -> rows
                             [] walk.kind = "parts" -> parts
                             [] walk.kind = "uploads" -> uploads
                             [] ByOffset -> ids}

Fresh == [walk EXCEPT !.pc = "idle", !.token = None, !.seen = {}, !.again = {}, !.prefixes = {}]

StartWalk ==
    /\ walk.pc = "idle"
    /\ \E start \in StartAfters : walk' = [Fresh EXCEPT !.pc = "page", !.start = start]
    /\ always' = Present
    /\ calm' = \A r \in rows : ~r.marker
    /\ UNCHANGED <<versioned, rows, clock, parts, uploads, ids>>

(* The answers to the requests of this walk.                                 *)
Answers ==
    LET s == walk.start
        t == walk.token
    IN  CASE walk.kind = "objects" -> {S3ListObjects(s, t), S3ListObjectsV2(s, t), AdminListObjects(t)}
          [] Removes -> {S3ListObjectsV2(None, t)}
          [] walk.kind = "versions" -> {S3ListObjectVersions(t)}
          [] walk.kind = "parts" -> {S3ListParts(t)}
          [] walk.kind = "uploads" -> {S3ListMultipartUploads(t)}
          [] walk.kind = "names" ->
                {AdminListUsers(t), AdminListAccessKeys(t), AdminListUserPolicies(t), AdminListGroups(t),
                 AdminListGroupPolicies(t), AdminListUserGroups(t), AdminListManagedPolicies(t)}
          [] walk.kind = "audit" -> {AdminQueryAuditLog(t)}
          [] walk.kind = "deliveries" -> {AdminQueryNotificationDeliveries(t)}

(* The table with one entry more, if there is room (a bound).                *)
Logged == ids \cup {n \in PartNumbers : n = Cardinality(ids) + 1}

Received(answer) ==
    LET names == {Name(answer.items[i]) : i \in DOMAIN answer.items}
    IN  [walk EXCEPT !.token = answer.marker, !.prefixes = @ \cup answer.prefixes,
                     !.seen = @ \cup names, !.again = @ \cup (walk.seen \cap names)]

(* The audit log has an entry of every request for one of its pages, unless  *)
(* writing it failed.                                                        *)
NextPage ==
    /\ walk.pc = "page" /\ ~Removes
    /\ \E answer \in Answers :
        walk' = [Received(answer) EXCEPT !.pc = IF ~answer.truncated THEN "done"
                                                ELSE IF answer.marker = None THEN "cut" ELSE "page"]
    /\ ids' \in IF walk.kind = "audit" THEN {ids, Logged} ELSE {ids}
    /\ UNCHANGED <<versioned, rows, clock, parts, uploads, always, calm>>

(* ls prints the first page, and nothing tells that there are more.          *)
Ls ==
    /\ walk.pc = "page" /\ walk.kind = "objects" /\ walk.token # None
    /\ walk' = Fresh
    /\ always' = {} /\ calm' = TRUE
    /\ UNCHANGED <<versioned, rows, clock, parts, uploads, ids>>

(* rm and rb send a page of keys to DeleteObjects, and end at an empty one;  *)
(* rm then goes on after the last key, rb starts all over.                   *)
RemovePage ==
    /\ walk.pc = "page" /\ Removes
    /\ \E answer \in Answers :
        walk' = [Received(answer) EXCEPT
                    !.pc = IF answer.items = <<>> THEN "done" ELSE "delete",
                    !.token = IF walk.kind = "rb" THEN None ELSE @,
                    !.batch = {answer.items[i].key : i \in DOMAIN answer.items}]
    /\ UNCHANGED <<versioned, rows, clock, parts, uploads, ids, always, calm>>

BatchSent ==
    /\ walk.pc = "delete" /\ walk.batch = {}
    /\ walk' = [walk EXCEPT !.pc = IF walk.kind = "rm" /\ walk.token = None THEN "done" ELSE "page"]
    /\ UNCHANGED <<versioned, rows, clock, parts, uploads, ids, always, calm>>

(* The client is done with the answer.                                       *)
EndWalk ==
    /\ walk.pc \in {"done", "cut"}
    /\ walk' = Fresh
    /\ always' = {} /\ calm' = TRUE
    /\ UNCHANGED <<versioned, rows, clock, parts, uploads, ids>>

-----------------------------------------------------------------------------
(* What changes a bucket and its uploads meanwhile, as modules LocalFsStore  *)
(* and Multipart have it: a row is written after those of its key have       *)
(* ceased to be the latest or, in an unversioned bucket, have been removed.  *)
\* Mutant: the rows of the key stay the latest.
WrittenAlone(key, marker) ==
    rows \cup {[key |-> key, vid |-> clock + 1, marker |-> marker, latest |-> TRUE]}

Written(key, marker) ==
    {[r EXCEPT !.latest = @ /\ r.key # key] : r \in {x \in rows : versioned \/ x.key # key}}
    \cup {[key |-> key, vid |-> clock + 1, marker |-> marker, latest |-> TRUE]}

(* The history of a walk, when there is one.                                 *)
KeepWatch(quiet) ==
    /\ UNCHANGED walk
    /\ always' = IF walk.pc = "idle" THEN {} ELSE always \cap Present'
    /\ calm' = (calm /\ quiet)

WriteVersion ==
    /\ clock < MaxRows /\ (OfObjects \/ walk.kind = "versions")
    /\ \E k \in Keys, marker \in BOOLEAN :
        (marker => versioned) /\ rows' = Written(k, marker) /\ KeepWatch(~marker)
    /\ clock' = clock + 1
    /\ UNCHANGED <<versioned, parts, uploads, ids>>

(* A version is removed and the newest one left becomes the latest: two      *)
(* closures of delete_object (module LocalFsStore has them apart), one step  *)
(* here, since a key unlisted in between is not of those that were there all *)
(* the while, which is what the properties below are about.                  *)
DeleteVersion ==
    /\ \E r \in rows :
        LET left == rows \ {r}
            newest == {x \in left : x.key = r.key /\ \A y \in left : y.key = r.key => y.vid <= x.vid}
        IN  rows' = {[x EXCEPT !.latest = x \in newest \/ x.latest] : x \in left}
    /\ KeepWatch(FALSE)
    /\ UNCHANGED <<versioned, clock, parts, uploads, ids>>

(* One key of the batch that rm or rb sent; a key that is locked or refused  *)
(* is an error in an answer they do not look into.                           *)
DeleteOfBatch ==
    /\ walk.pc = "delete"
    /\ \E k \in walk.batch :
        /\ rows' \in {rows, {r \in rows : r.key # k}}
        /\ walk' = [walk EXCEPT !.batch = @ \ {k}]
    /\ always' = always \cap Present'
    /\ UNCHANGED <<versioned, clock, parts, uploads, ids, calm>>

UploadPart ==
    /\ walk.kind = "parts"
    /\ \E n \in PartNumbers \ parts : parts' = parts \cup {n}
    /\ KeepWatch(TRUE)
    /\ UNCHANGED <<versioned, rows, clock, uploads, ids>>

BeginOrEndUpload ==
    /\ walk.kind = "uploads"
    /\ \E k \in Keys : uploads' \in {uploads \cup {k}, uploads \ {k}}
    /\ KeepWatch(TRUE)
    /\ UNCHANGED <<versioned, rows, clock, parts, ids>>

CreateOrDeleteName ==
    /\ walk.kind = "names"
    /\ \E n \in PartNumbers :
        \/ n \notin ids /\ ids' = ids \cup {n} /\ KeepWatch(TRUE)
        \/ n \in ids /\ ids' = ids \ {n} /\ KeepWatch(FALSE)
    /\ UNCHANGED <<versioned, rows, clock, parts, uploads>>

(* log_audit_event and log_notification_delivery                             *)
AppendToLog ==
    /\ walk.kind \in {"audit", "deliveries"}
    /\ ids' = Logged /\ ids' # ids
    /\ KeepWatch(TRUE)
    /\ UNCHANGED <<versioned, rows, clock, parts, uploads>>

(* rm and rb are followed in an unversioned bucket, whose rows their deletes *)
(* remove; the listings in a versioned one.                                  *)
Init ==
    /\ rows = {} /\ clock = 0 /\ parts = {} /\ uploads = {} /\ ids = {}
    /\ \E kind \in Kinds :
        walk = [kind |-> kind, pc |-> "idle", start |-> None, token |-> None, batch |-> {},
                seen |-> {}, again |-> {}, prefixes |-> {}]
    /\ versioned = ~Removes
    /\ always = {} /\ calm = TRUE

Next ==
    \/ StartWalk \/ NextPage \/ Ls \/ RemovePage \/ BatchSent \/ EndWalk
    \/ WriteVersion \/ DeleteVersion \/ DeleteOfBatch \/ UploadPart \/ BeginOrEndUpload
    \/ CreateOrDeleteName \/ AppendToLog

Spec == Init /\ [][Next]_vars

-----------------------------------------------------------------------------
TypeOK ==
    /\ clock \in 0 .. MaxRows /\ parts \subseteq PartNumbers /\ uploads \subseteq Keys
    /\ ids \subseteq PartNumbers
    /\ rows \subseteq [key: Keys, vid: 1 .. clock, marker: BOOLEAN, latest: BOOLEAN]
    /\ \A k \in Keys : Cardinality({r \in rows : r.key = k /\ r.latest}) <= 1
    /\ walk.again \subseteq walk.seen /\ walk.seen \subseteq Listable

(* A key that begins with the prefix.                                        *)
HasPrefix(k) == IsPrefix(AskedPrefix, k)

(* What an answer should name: parts have no key, uploads are not rolled up. *)
Wanted(x) ==
    \/ walk.kind = "parts" \/ ByOffset
    \/ HasPrefix(x[1]) /\ (walk.kind = "uploads" \/ CommonPrefix(x[1]) = None)

(* What was there during the whole walk is listed, once, whatever is put and *)
(* deleted between its pages; so too what rm is asked to remove, which       *)
(* deletes what it walks over.  Of the versions this holds only while        *)
(* nothing is deleted, since a marker whose row is gone ends the listing and *)
(* delete markers are dropped from full pages.  (start_after, sent with a    *)
(* token, hides the token.)  By offset a row is passed over when one before  *)
(* it is deleted, and listed again when one is added; a log only grows, so   *)
(* that all of it is listed, if not once.                                    *)
WalksAreExact ==
    walk.pc = "done" /\ walk.start = None /\ (walk.kind \in {"versions", "names"} => calm) =>
        \A x \in always : Wanted(x) => x \in walk.seen /\ (x \in walk.again => ByOffset)

(* Every folder that held a key during the whole walk is listed, if the      *)
(* client did not ask for what is after some key.                            *)
FoldersComplete ==
    walk.pc = "done" /\ walk.kind = "objects" /\ walk.start = None =>
        \A x \in always : HasPrefix(x[1]) /\ CommonPrefix(x[1]) # None => CommonPrefix(x[1]) \in walk.prefixes

(* Whether the client asks for what follows the marker of the last answer:   *)
(* rb never does, it lists from the start until there is nothing, and        *)
(* ListObjectsV2 does not if the client also sends its start_after.          *)
GoesByMarker == walk.kind # "rb" /\ walk.start = None

(* A client that goes by the markers is never sent back: the marker of a     *)
(* page is after that of the page before it, although the rows are written   *)
(* and deleted in between, and for versions even if the marker's own row is  *)
(* gone.  (rb and start_after are outside: both may be given the same page   *)
(* again and again, rb when a key is refused, start_after always.)           *)
PagesAdvance ==
    [][walk.pc = "page" /\ GoesByMarker /\ walk.token # None /\ walk'.token # None =>
        CASE OfObjects -> Less(walk.token, walk'.token)
          [] walk.kind = "versions" -> VersionsFirst(walk.token, walk'.token)
          [] OTHER -> walk.token < walk'.token]_walk

(* "prefix - Filter by prefix" (docs/reference/s3-api.md): what is listed    *)
(* begins with the prefix.                                                   *)
OnlyThePrefix == OfObjects => \A k \in Keys : <<k, 0>> \in walk.seen => HasPrefix(k)
=============================================================================
