---------------------------- MODULE ListingProofs ---------------------------
(* Theorems about module Listing: the types, that a walk is given what was   *)
(* there all the while, that folders are complete, and that pages advance.   *)
(*                                                                           *)
(* The argument.  A sorted list is a bijection of places and elements        *)
(* (Ranks, Lists), so that a page cut off it holds just what is between two  *)
(* markers: Onward, which is shown for each of the listings.  The walk's     *)
(* invariant says what is behind its marker: nothing but what it has seen    *)
(* (Progress), and all that was there since it began (SeenAll, FoldersSeen). *)
(* A page moves the marker on; steps of others keep the order of rows, so    *)
(* that none comes to be behind the marker which was not there before.  For  *)
(* the offsets of the admin API, where a row's place is the number of rows   *)
(* before it, this is so as long as the table only grows.                    *)
EXTENDS Listing, IamStoreProofs, SequenceTheorems

-----------------------------------------------------------------------------
(* The inductive invariant.                                                  *)

RowRecords == [key: Keys, vid: 1 .. MaxRows, marker: BOOLEAN, latest: BOOLEAN]
FolderNames == {RolledUp[k] : k \in Keys}

(* Versions are numbered in the order of their writing, and the latest       *)
(* version of a key is its newest.                                           *)
RowsOK ==
    /\ clock \in 0 .. MaxRows
    /\ rows \subseteq RowRecords
    /\ \A r \in rows : r.vid <= clock
    /\ \A r, s \in rows : r.vid = s.vid => r = s
    /\ \A r, s \in rows : r.latest /\ r.key = s.key => s.vid <= r.vid

(* A log is numbered from 1 on.                                              *)
TablesOK ==
    /\ parts \subseteq PartNumbers /\ uploads \subseteq Keys /\ ids \subseteq PartNumbers
    /\ walk.kind \in {"audit", "deliveries"} => ids = 1 .. Cardinality(ids)

(* What a marker is: a key, a row, a part number or an offset.               *)
TokenOK(token) ==
    token # None =>
        /\ OfObjects => token \in Keys
        /\ walk.kind = "versions" => token \in RowRecords
        /\ walk.kind = "parts" \/ ByOffset => token \in Nat
        /\ walk.kind # "uploads"

(* The names a walk may come across.                                         *)
Nameable ==
    IF walk.kind = "parts" \/ ByOffset THEN {<<>>} \X PartNumbers ELSE Keys \X (0 .. MaxRows)

WalkOK ==
    /\ walk \in [kind: Kinds, pc: {"idle", "page", "delete", "done", "cut"},
                 start: StartAfters \cup {None}, token: Keys \cup RowRecords \cup Nat \cup {None},
                 batch: SUBSET Keys, seen: SUBSET Listable, again: SUBSET Listable,
                 prefixes: SUBSET FolderNames]
    /\ TokenOK(walk.token) /\ (walk.kind = "rb" => walk.token = None)
    /\ walk.again \subseteq walk.seen /\ walk.seen \subseteq Nameable
    /\ walk.pc = "delete" => Removes
    /\ versioned = ~Removes

HistoryOK ==
    /\ always \subseteq Present
    /\ calm \in BOOLEAN
    /\ walk.kind = "versions" /\ calm /\ walk.pc # "idle" =>
        /\ \A r \in rows : ~r.marker
        /\ walk.token # None => \E r \in rows : r.vid = walk.token.vid

(* What the pages up to a marker have passed by.                             *)
Passed(token, x) ==
    CASE OfObjects -> ~Less(token, x[1])
      [] walk.kind = "versions" -> Less(x[1], token.key) \/ (x[1] = token.key /\ x[2] >= token.vid)
      [] walk.kind = "names" -> Cardinality({m \in ids : m < x[2]}) < token
      [] walk.kind \in {"audit", "deliveries"} -> Cardinality({m \in ids : m > x[2]}) < token
      [] OTHER -> x[2] <= token

Steady == walk.start = None /\ (walk.kind \in {"versions", "names"} => calm)

(* Between pages the walk has seen what it passed by.                        *)
Progress ==
    Steady =>
        /\ walk.pc = "page" /\ walk.token = None /\ walk.kind # "rb" => walk.seen = {}
        /\ walk.pc \in {"page", "delete"} /\ walk.token # None /\ ~ByOffset =>
            \A x \in walk.seen : Passed(walk.token, x)
        /\ ~ByOffset /\ walk.kind # "rb" => walk.again = {}
        /\ walk.pc = "done" /\ walk.kind = "rb" => always = {}

(* A prefix that LIKE takes for what it is, "_" and letter case apart.       *)
PlainPrefix == \A i \in DOMAIN Prefix : Prefix[i] # "%"

(* Whether the walk is past the name x.                                      *)
Done(x) ==
    \/ walk.pc = "done"
    \/ walk.pc = "delete" /\ walk.token = None
    \/ walk.pc \in {"page", "delete"} /\ walk.token # None /\ Passed(walk.token, x)

SeenAll ==
    Steady /\ PlainPrefix /\ walk.kind # "rb" =>
        \A x \in always : Wanted(x) /\ Done(x) => x \in walk.seen

Rolled(x) == HasPrefix(x[1]) /\ CommonPrefix(x[1]) # None

FoldersSeen ==
    walk.start = None /\ PlainPrefix /\ walk.kind = "objects" =>
        \A x \in always : Rolled(x) /\ Done(x) => CommonPrefix(x[1]) \in walk.prefixes

ListingInv == RowsOK /\ TablesOK /\ WalkOK /\ HistoryOK /\ Progress /\ SeenAll /\ FoldersSeen

-----------------------------------------------------------------------------
(* Ranks: by how many elements of a finite set are before it, each element   *)
(* of a strict total order has a place of its own.                           *)

(* R orders S strictly and totally.                                          *)
Orders(R, S) ==
    /\ \A x \in S : <<x, x>> \notin R
    /\ \A x, y, z \in S : <<x, y>> \in R /\ <<y, z>> \in R => <<x, z>> \in R
    /\ \A x, y \in S : x # y => <<x, y>> \in R \/ <<y, x>> \in R

Below(S, R, x) == {y \in S : <<y, x>> \in R}

LEMMA BelowIsFinite ==
    ASSUME NEW S, IsFiniteSet(S), NEW R, NEW x
    PROVE  Cardinality(Below(S, R, x)) \in Nat
<1>1. Below(S, R, x) \in SUBSET S
    BY DEF Below
<1>2. IsFiniteSet(Below(S, R, x))
    BY <1>1, FS_Subset
<1> QED
    BY <1>2, FS_CardinalityType

LEMMA BelowGrows ==
    ASSUME NEW S, IsFiniteSet(S), NEW R, Orders(R, S), NEW x \in S, NEW y \in S, <<x, y>> \in R
    PROVE  Cardinality(Below(S, R, x)) < Cardinality(Below(S, R, y))
<1>1. Below(S, R, x) \subseteq Below(S, R, y)
    BY DEF Below, Orders
<1>2. x \in Below(S, R, y) /\ x \notin Below(S, R, x)
    BY DEF Below, Orders
<1>3. IsFiniteSet(Below(S, R, y))
    <2>1. Below(S, R, y) \in SUBSET S
        BY DEF Below
    <2> QED
        BY <2>1, FS_Subset
<1>4. Cardinality(Below(S, R, x)) <= Cardinality(Below(S, R, y))
      /\ Cardinality(Below(S, R, x)) # Cardinality(Below(S, R, y))
    BY <1>1, <1>2, <1>3, FS_Subset
<1> QED
    BY <1>4, BelowIsFinite

LEMMA Ranks ==
    ASSUME NEW S, IsFiniteSet(S), NEW R, Orders(R, S)
    PROVE  /\ \A x, y \in S : <<x, y>> \in R <=> Cardinality(Below(S, R, x)) < Cardinality(Below(S, R, y))
           /\ \A x, y \in S : Cardinality(Below(S, R, x)) = Cardinality(Below(S, R, y)) => x = y
           /\ \A x \in S : Cardinality(Below(S, R, x)) \in 0 .. Cardinality(S) - 1
           /\ \A i \in 1 .. Cardinality(S) : \E x \in S : Cardinality(Below(S, R, x)) = i - 1
<1> DEFINE rk(x) == Cardinality(Below(S, R, x))
           f == [x \in S |-> rk(x) + 1]
           n == Cardinality(S)
<1>0. n \in Nat
    BY FS_CardinalityType
<1>1. \A x \in S : rk(x) \in Nat
    BY BelowIsFinite
<1>2. \A x, y \in S : <<x, y>> \in R => rk(x) < rk(y)
    BY BelowGrows
<1>3. \A x \in S : rk(x) < n
    <2> TAKE x \in S
    <2>1. Below(S, R, x) \in SUBSET S /\ x \notin Below(S, R, x)
        BY DEF Below, Orders
    <2>2. rk(x) <= n /\ (n = rk(x) => S = Below(S, R, x))
        BY <2>1, FS_Subset
    <2>3. rk(x) # n
        BY <2>1, <2>2
    <2> QED
        BY <2>2, <2>3, <1>0, <1>1
<1> HIDE DEF rk, n
<1>4. \A x, y \in S : rk(x) < rk(y) => <<x, y>> \in R
    <2> SUFFICES ASSUME NEW x \in S, NEW y \in S, rk(x) < rk(y) PROVE <<x, y>> \in R
        OBVIOUS
    <2>1. rk(x) \in Nat /\ rk(y) \in Nat
        BY <1>1
    <2>2. ~(rk(y) < rk(x)) /\ x # y
        BY <2>1
    <2> QED
        BY <2>2, <1>2 DEF Orders
<1>5. \A x, y \in S : rk(x) = rk(y) => x = y
    <2> SUFFICES ASSUME NEW x \in S, NEW y \in S, rk(x) = rk(y), x # y PROVE FALSE
        OBVIOUS
    <2>1. rk(x) \in Nat /\ rk(y) \in Nat
        BY <1>1
    <2>2. ~(rk(y) < rk(x)) /\ ~(rk(x) < rk(y))
        BY <2>1
    <2> QED
        BY <2>2, <1>2 DEF Orders
<1>6. f \in Injection(S, 1 .. n)
    <2>1. f \in [S -> 1 .. n]
        BY <1>0, <1>1, <1>3
    <2>2. \A x, y \in S : f[x] = f[y] => x = y
        BY <1>1, <1>5
    <2> QED
        BY <2>1, <2>2 DEF Injection, IsInjective
<1>7. IsFiniteSet(1 .. n) /\ Cardinality(1 .. n) = n
    BY <1>0, FS_Interval
<1>8. f \in Surjection(S, 1 .. n)
    BY <1>6, <1>7, FS_Injection DEF n
<1>9. \A i \in 1 .. n : \E x \in S : rk(x) = i - 1
    <2> TAKE i \in 1 .. n
    <2>1. PICK x \in S : f[x] = i
        BY <1>8 DEF Surjection
    <2> QED
        BY <2>1, <1>0, <1>1
<1> QED
    BY <1>0, <1>1, <1>2, <1>3, <1>4, <1>5, <1>9 DEF rk, n

-----------------------------------------------------------------------------
(* The order of the keys.                                                    *)

(* A nonempty set of numbers has a least one.                                *)
LEMMA LeastNumber ==
    ASSUME NEW S \in SUBSET Nat, S # {}
    PROVE  \E x \in S : \A y \in S : x <= y
<1>1. IsWellFoundedOn(OpToRel(<, Nat), Nat)
    BY NatLessThanWellFounded
<1>2. PICK x \in S : \A y \in S : ~ (<<y, x>> \in OpToRel(<, Nat))
    BY <1>1, WFMin
<1>3. \A y \in S : ~(y < x)
    BY <1>2 DEF OpToRel
<1>4. x \in Nat /\ \A y \in S : y \in Nat
    OBVIOUS
<1> QED
    BY <1>3, <1>4

LEMMA KeysAreStrings ==
    ASSUME NEW k \in Keys
    PROVE  Len(k) \in Nat /\ DOMAIN k = 1 .. Len(k) /\ \A i \in 1 .. Len(k) : Code[k[i]] \in Nat
<1>1. k \in Seq(DOMAIN Code)
    BY ListingAssumption
<1>2. \A i \in 1 .. Len(k) : k[i] \in DOMAIN Code
    BY <1>1
<1> QED
    BY <1>1, <1>2, ListingAssumption

LEMMA BeforeIsIrreflexive ==
    ASSUME NEW k \in Keys
    PROVE  ~Before(k, k)
BY KeysAreStrings DEF Before

LEMMA BeforeIsTransitive ==
    ASSUME NEW k \in Keys, NEW l \in Keys, NEW m \in Keys, Before(k, l), Before(l, m)
    PROVE  Before(k, m)
<1> DEFINE At(a, b, i) ==
        /\ i \in 1 .. Len(a) /\ i <= Len(b) /\ Code[a[i]] < Code[b[i]]
        /\ \A j \in 1 .. i - 1 : a[j] = b[j]
      Shorter(a, b) == Len(a) < Len(b) /\ \A j \in 1 .. Len(a) : a[j] = b[j]
<1>1. \A a, b : Before(a, b) <=> (\E i : At(a, b, i)) \/ Shorter(a, b)
    BY DEF Before
<1>2. \A a \in Keys : Len(a) \in Nat /\ \A i \in 1 .. Len(a) : Code[a[i]] \in Nat
    BY KeysAreStrings
<1>3. CASE Shorter(k, l) /\ Shorter(l, m)
    <2>1. Shorter(k, m)
        BY <1>2, <1>3
    <2> QED
        BY <2>1, <1>1
<1>4. ASSUME NEW i, At(k, l, i), Shorter(l, m)
      PROVE  Before(k, m)
    <2>1. At(k, m, i)
        BY <1>2, <1>4
    <2> QED
        BY <2>1, <1>1
<1>5. ASSUME NEW i, Shorter(k, l), At(l, m, i)
      PROVE  Before(k, m)
    <2>1. CASE i <= Len(k)
        <3>1. At(k, m, i)
            BY <1>2, <1>5, <2>1
        <3> QED
            BY <3>1, <1>1
    <2>2. CASE ~(i <= Len(k))
        <3>1. Shorter(k, m)
            BY <1>2, <1>5, <2>2
        <3> QED
            BY <3>1, <1>1
    <2> QED
        BY <2>1, <2>2
<1>6. ASSUME NEW i, NEW j, At(k, l, i), At(l, m, j)
      PROVE  Before(k, m)
    <2>1. CASE i <= j
        <3>1. At(k, m, i)
            BY <1>2, <1>6, <2>1
        <3> QED
            BY <3>1, <1>1
    <2>2. CASE ~(i <= j)
        <3>1. At(k, m, j)
            BY <1>2, <1>6, <2>2
        <3> QED
            BY <3>1, <1>1
    <2> QED
        BY <2>1, <2>2
<1> HIDE DEF At, Shorter
<1> QED
    BY <1>1, <1>3, <1>4, <1>5, <1>6

LEMMA BeforeIsTotal ==
    ASSUME NEW k \in Keys, NEW l \in Keys, k # l
    PROVE  Before(k, l) \/ Before(l, k)
<1> DEFINE D == {i \in 1 .. Len(k) : i <= Len(l) /\ k[i] # l[i]}
<1>0. /\ Len(k) \in Nat /\ Len(l) \in Nat
      /\ \A i \in 1 .. Len(k) : Code[k[i]] \in Nat
      /\ \A i \in 1 .. Len(l) : Code[l[i]] \in Nat
    BY KeysAreStrings
<1>1. k \in Seq(DOMAIN Code) /\ l \in Seq(DOMAIN Code)
    BY ListingAssumption
<1>2. CASE D = {}
    <2>1. \A i \in 1 .. Len(k) : i <= Len(l) => k[i] = l[i]
        BY <1>2
    <2>2. Len(k) # Len(l)
        <3> SUFFICES ASSUME Len(k) = Len(l) PROVE FALSE
            OBVIOUS
        <3> QED
            BY <2>1, <1>0, <1>1, SeqEqual
    <2>3. CASE Len(k) < Len(l)
        BY <2>1, <2>3, <1>0 DEF Before
    <2>4. CASE Len(l) < Len(k)
        BY <2>1, <2>4, <1>0 DEF Before
    <2> QED
        BY <2>2, <2>3, <2>4, <1>0
<1>3. CASE D # {}
    <2>1. D \in SUBSET Nat
        BY <1>0
    <2>2. PICK i \in D : \A j \in D : i <= j
        BY <2>1, <1>3, LeastNumber
    <2>3. i \in 1 .. Len(k) /\ i <= Len(l) /\ i \in 1 .. Len(l) /\ k[i] # l[i]
        BY <1>0
    <2>4. \A j \in 1 .. i - 1 : k[j] = l[j]
        BY <2>2, <2>3, <1>0
    <2>5. Code[k[i]] # Code[l[i]]
        <3>1. k[i] \in DOMAIN Code /\ l[i] \in DOMAIN Code
            BY <1>1, <2>3
        <3> QED
            BY <3>1, <2>3, ListingAssumption
    <2>6. Code[k[i]] < Code[l[i]] \/ Code[l[i]] < Code[k[i]]
        BY <2>3, <2>5, <1>0
    <2> QED
        BY <2>3, <2>4, <2>6 DEF Before
<1> QED
    BY <1>2, <1>3

(* Less is a strict total order on the keys.                                 *)
LEMMA LessOrdersKeys ==
    /\ \A k \in Keys : Rank[k] \in Nat
    /\ \A k, l \in Keys : Rank[k] = Rank[l] => k = l
<1> DEFINE R == {p \in Keys \X Keys : Before(p[1], p[2])}
<1>1. \A k, l \in Keys : <<k, l>> \in R <=> Before(k, l)
    OBVIOUS
<1>2. \A k \in Keys : Rank[k] = Cardinality(Below(Keys, R, k))
    <2> TAKE k \in Keys
    <2>1. {l \in Keys : Before(l, k)} = Below(Keys, R, k)
        BY <1>1 DEF Below
    <2> QED
        BY <2>1 DEF Rank
<1> HIDE DEF R
<1>3. Orders(R, Keys)
    BY <1>1, BeforeIsIrreflexive, BeforeIsTransitive, BeforeIsTotal DEF Orders
<1>4. IsFiniteSet(Keys)
    BY ListingAssumption
<1>5. \A k, l \in Keys : Cardinality(Below(Keys, R, k)) = Cardinality(Below(Keys, R, l)) => k = l
    BY <1>3, <1>4, Ranks
<1>6. \A k \in Keys : Cardinality(Below(Keys, R, k)) \in Nat
    BY <1>4, BelowIsFinite
<1> QED
    BY <1>2, <1>5, <1>6

-----------------------------------------------------------------------------
(* ORDER BY: the sequence has every element of the set, in order.            *)

(* s lists the elements of S in the order R.                                 *)
Lists(s, S, R) ==
    /\ s \in Seq(S) /\ Len(s) = Cardinality(S) /\ Len(s) \in Nat /\ DOMAIN s = 1 .. Len(s)
    /\ \A i \in 1 .. Len(s) : s[i] \in S
    /\ \A x \in S : \E i \in 1 .. Len(s) : s[i] = x
    /\ \A i, j \in 1 .. Len(s) : <<s[i], s[j]>> \in R <=> i < j

LEMMA RankedLists ==
    ASSUME NEW S, IsFiniteSet(S), NEW R, Orders(R, S),
           NEW s, s = [i \in 1 .. Cardinality(S) |-> s[i]],
           \A i \in 1 .. Cardinality(S) : s[i] \in S /\ Cardinality(Below(S, R, s[i])) = i - 1
    PROVE  Lists(s, S, R)
<1> DEFINE n == Cardinality(S)
<1>0. n \in Nat
    BY FS_CardinalityType
<1>1. s \in [1 .. n -> S]
    OBVIOUS
<1>2. s \in Seq(S) /\ Len(s) = n /\ DOMAIN s = 1 .. n
    BY <1>0, <1>1
<1>3. \A x \in S : \E i \in 1 .. n : s[i] = x
    <2> TAKE x \in S
    <2> DEFINE i == Cardinality(Below(S, R, x)) + 1
    <2>1. Cardinality(Below(S, R, x)) \in 0 .. n - 1
        BY Ranks
    <2>2. i \in 1 .. n /\ i - 1 = Cardinality(Below(S, R, x))
        BY <2>1, <1>0
    <2> HIDE DEF i, n
    <2>3. Cardinality(Below(S, R, s[i])) = Cardinality(Below(S, R, x)) /\ s[i] \in S
        BY <2>2 DEF n
    <2>4. s[i] = x
        BY <2>3, Ranks
    <2> QED
        BY <2>2, <2>4
<1>4. \A i, j \in 1 .. n : <<s[i], s[j]>> \in R <=> i < j
    <2> SUFFICES ASSUME NEW i \in 1 .. n, NEW j \in 1 .. n PROVE <<s[i], s[j]>> \in R <=> i < j
        OBVIOUS
    <2>1. /\ s[i] \in S /\ s[j] \in S
          /\ Cardinality(Below(S, R, s[i])) = i - 1 /\ Cardinality(Below(S, R, s[j])) = j - 1
        OBVIOUS
    <2>2. <<s[i], s[j]>> \in R <=> i - 1 < j - 1
        BY <2>1, Ranks
    <2> QED
        BY <2>2, <1>0
<1> QED
    BY <1>0, <1>1, <1>2, <1>3, <1>4 DEF Lists

(* The order of list_object_versions, on rows that differ in their numbers.  *)
VersionOrder(S) == {p \in S \X S : VersionsFirst(p[1], p[2])}

LEMMA VersionOrderOrders ==
    ASSUME NEW S \in SUBSET RowRecords, \A r, s \in S : r.vid = s.vid => r = s
    PROVE  Orders(VersionOrder(S), S)
<1>0. \A r, s \in S : <<r, s>> \in VersionOrder(S) <=> VersionsFirst(r, s)
    BY DEF VersionOrder
<1>1. \A r \in S : r.key \in Keys /\ r.vid \in Nat
    BY ListingAssumption DEF RowRecords
<1>2. \A k \in Keys : Rank[k] \in Nat
    BY LessOrdersKeys
<1>3. \A k, l \in Keys : Less(k, l) \/ Less(l, k) \/ k = l
    BY LessOrdersKeys DEF Less
<1>4. \A r \in S : ~VersionsFirst(r, r)
    BY <1>1, <1>2 DEF VersionsFirst, Less
<1>5. \A r, s, t \in S : VersionsFirst(r, s) /\ VersionsFirst(s, t) => VersionsFirst(r, t)
    BY <1>1, <1>2 DEF VersionsFirst, Less
<1>6. \A r, s \in S : r # s => VersionsFirst(r, s) \/ VersionsFirst(s, r)
    <2> SUFFICES ASSUME NEW r \in S, NEW s \in S, r # s, r.key = s.key
                 PROVE  r.vid > s.vid \/ s.vid > r.vid
        BY <1>1, <1>3 DEF VersionsFirst
    <2> QED
        BY <1>1
<1> QED
    BY <1>0, <1>4, <1>5, <1>6 DEF Orders

LEMMA InOrderLists ==
    ASSUME NEW S \in SUBSET RowRecords, IsFiniteSet(S), \A r, s \in S : r.vid = s.vid => r = s
    PROVE  Lists(InOrder(S), S, VersionOrder(S))
<1> DEFINE R == VersionOrder(S)
           s == InOrder(S)
<1>1. Orders(R, S)
    BY VersionOrderOrders
<1>2. \A x \in S : {y \in S : VersionsFirst(y, x)} = Below(S, R, x)
    BY DEF VersionOrder, Below
<1>3. s = [i \in 1 .. Cardinality(S) |->
             CHOOSE x \in S : Cardinality({y \in S : VersionsFirst(y, x)}) = i - 1]
    BY DEF InOrder, OrderBy
<1>4. ASSUME NEW i \in 1 .. Cardinality(S)
      PROVE  s[i] \in S /\ Cardinality(Below(S, R, s[i])) = i - 1
    <2>1. \E x \in S : Cardinality(Below(S, R, x)) = i - 1
        BY <1>1, Ranks
    <2>2. \E x \in S : Cardinality({y \in S : VersionsFirst(y, x)}) = i - 1
        BY <2>1, <1>2
    <2>3. s[i] = CHOOSE x \in S : Cardinality({y \in S : VersionsFirst(y, x)}) = i - 1
        BY <1>3, Zenon
    <2>4. s[i] \in S /\ Cardinality({y \in S : VersionsFirst(y, s[i])}) = i - 1
        BY <2>2, <2>3, Zenon
    <2> QED
        BY <2>4, <1>2
<1>5. s = [i \in 1 .. Cardinality(S) |-> s[i]]
    BY <1>3
<1> HIDE DEF R, s
<1>6. Lists(s, S, R)
    BY <1>1, <1>4, <1>5, RankedLists
<1> QED
    BY <1>6 DEF R, s

(* Keys in their order.                                                      *)
KeyOrder(S) == {p \in S \X S : Less(p[1], p[2])}

LEMMA KeysInOrder ==
    ASSUME NEW S \in SUBSET Keys, IsFiniteSet(S)
    PROVE  Lists(ByKey(S), S, KeyOrder(S))
<1> DEFINE R == KeyOrder(S)
           s == ByKey(S)
<1>1. Orders(R, S)
    <2>1. \A k, l \in S : <<k, l>> \in R <=> Rank[k] < Rank[l]
        BY DEF KeyOrder, Less
    <2> QED
        BY <2>1, LessOrdersKeys DEF Orders
<1>2. \A x \in S : {y \in S : Less(y, x)} = Below(S, R, x)
    BY DEF KeyOrder, Below
<1>3. s = [i \in 1 .. Cardinality(S) |-> CHOOSE x \in S : Cardinality({y \in S : Less(y, x)}) = i - 1]
    BY DEF ByKey, OrderBy
<1>4. ASSUME NEW i \in 1 .. Cardinality(S)
      PROVE  s[i] \in S /\ Cardinality(Below(S, R, s[i])) = i - 1
    <2>1. \E x \in S : Cardinality(Below(S, R, x)) = i - 1
        BY <1>1, Ranks
    <2>2. \E x \in S : Cardinality({y \in S : Less(y, x)}) = i - 1
        BY <2>1, <1>2
    <2>3. s[i] = CHOOSE x \in S : Cardinality({y \in S : Less(y, x)}) = i - 1
        BY <1>3, Zenon
    <2>4. s[i] \in S /\ Cardinality({y \in S : Less(y, s[i])}) = i - 1
        BY <2>2, <2>3, Zenon
    <2> QED
        BY <2>4, <1>2
<1>5. s = [i \in 1 .. Cardinality(S) |-> s[i]]
    BY <1>3
<1> HIDE DEF R, s
<1>6. Lists(s, S, R)
    BY <1>1, <1>4, <1>5, RankedLists
<1> QED
    BY <1>6 DEF R, s

(* Numbers in their order, and the other way round.                          *)
Rising(S) == {p \in S \X S : p[1] < p[2]}
Falling(S) == {p \in S \X S : p[1] > p[2]}

LEMMA RisingOrders ==
    ASSUME NEW S \in SUBSET Nat
    PROVE  Orders(Rising(S), S)
BY DEF Rising, Orders

LEMMA NumbersRising ==
    ASSUME NEW S, IsFiniteSet(S), Orders(Rising(S), S)
    PROVE  /\ Lists(Ascending(S), S, Rising(S))
           /\ \A i \in 1 .. Cardinality(S) :
                Cardinality({m \in S : m < Ascending(S)[i]}) = i - 1
<1> DEFINE R == Rising(S)
           s == Ascending(S)
<1>1. Orders(R, S)
    OBVIOUS
<1>2. \A x \in S : {y \in S : y < x} = Below(S, R, x)
    BY DEF Rising, Below
<1>3. s = [i \in 1 .. Cardinality(S) |-> CHOOSE x \in S : Cardinality({y \in S : y < x}) = i - 1]
    BY DEF Ascending, OrderBy
<1>4. ASSUME NEW i \in 1 .. Cardinality(S)
      PROVE  s[i] \in S /\ Cardinality({y \in S : y < s[i]}) = i - 1 /\ Cardinality(Below(S, R, s[i])) = i - 1
    <2>1. \E x \in S : Cardinality(Below(S, R, x)) = i - 1
        BY <1>1, Ranks
    <2>2. \E x \in S : Cardinality({y \in S : y < x}) = i - 1
        BY <2>1, <1>2
    <2>3. s[i] = CHOOSE x \in S : Cardinality({y \in S : y < x}) = i - 1
        BY <1>3, Zenon
    <2>4. s[i] \in S /\ Cardinality({y \in S : y < s[i]}) = i - 1
        BY <2>2, <2>3, Zenon
    <2> QED
        BY <2>4, <1>2
<1>5. s = [i \in 1 .. Cardinality(S) |-> s[i]]
    BY <1>3
<1> HIDE DEF R, s
<1>6. Lists(s, S, R)
    BY <1>1, <1>4, <1>5, RankedLists
<1> QED
    BY <1>4, <1>6 DEF R, s

LEMMA FallingOrders ==
    ASSUME NEW S \in SUBSET Nat
    PROVE  Orders(Falling(S), S)
BY DEF Falling, Orders

LEMMA NumbersFalling ==
    ASSUME NEW S, IsFiniteSet(S), Orders(Falling(S), S)
    PROVE  /\ Lists(Descending(S), S, Falling(S))
           /\ \A i \in 1 .. Cardinality(S) :
                Cardinality({m \in S : m > Descending(S)[i]}) = i - 1
<1> DEFINE R == Falling(S)
           s == Descending(S)
<1>1. Orders(R, S)
    OBVIOUS
<1>2. \A x \in S : {y \in S : y > x} = Below(S, R, x)
    BY DEF Falling, Below
<1>3. s = [i \in 1 .. Cardinality(S) |-> CHOOSE x \in S : Cardinality({y \in S : y > x}) = i - 1]
    BY DEF Descending, OrderBy
<1>4. ASSUME NEW i \in 1 .. Cardinality(S)
      PROVE  s[i] \in S /\ Cardinality({y \in S : y > s[i]}) = i - 1 /\ Cardinality(Below(S, R, s[i])) = i - 1
    <2>1. \E x \in S : Cardinality(Below(S, R, x)) = i - 1
        BY <1>1, Ranks
    <2>2. \E x \in S : Cardinality({y \in S : y > x}) = i - 1
        BY <2>1, <1>2
    <2>3. s[i] = CHOOSE x \in S : Cardinality({y \in S : y > x}) = i - 1
        BY <1>3, Zenon
    <2>4. s[i] \in S /\ Cardinality({y \in S : y > s[i]}) = i - 1
        BY <2>2, <2>3, Zenon
    <2> QED
        BY <2>4, <1>2
<1>5. s = [i \in 1 .. Cardinality(S) |-> s[i]]
    BY <1>3
<1> HIDE DEF R, s
<1>6. Lists(s, S, R)
    BY <1>1, <1>4, <1>5, RankedLists
<1> QED
    BY <1>4, <1>6 DEF R, s

-----------------------------------------------------------------------------
(* Cutting a page off a sorted list.                                         *)

LEMMA TakeFirst ==
    ASSUME NEW S, NEW s \in Seq(S), NEW n \in Nat
    PROVE  /\ Take(s, n) \in Seq(S) /\ DOMAIN Take(s, n) = 1 .. Len(Take(s, n))
           /\ Len(Take(s, n)) = IF Len(s) > n THEN n ELSE Len(s)
           /\ \A i \in 1 .. Len(Take(s, n)) : Take(s, n)[i] = s[i]
<1> DEFINE m == IF Len(s) > n THEN n ELSE Len(s)
<1>1. m \in Nat /\ m <= Len(s) /\ Take(s, n) = SubSeq(s, 1, m)
    BY DEF Take
<1> HIDE DEF m
<1>2. /\ SubSeq(s, 1, m) \in Seq(S) /\ Len(SubSeq(s, 1, m)) = m
      /\ \A i \in 1 .. m : SubSeq(s, 1, m)[i] = s[i]
    BY <1>1
<1> QED
    BY <1>1, <1>2 DEF m

(* A page holds what is not after its last element, or everything.           *)
LEMMA PageOfList ==
    ASSUME NEW S, NEW R, NEW s, Lists(s, S, R), NEW n \in Nat \ {0}
    PROVE  /\ \A i \in DOMAIN Take(s, n) : Take(s, n)[i] \in S
           /\ Len(s) <= n => \A x \in S : \E i \in DOMAIN Take(s, n) : Take(s, n)[i] = x
           /\ Len(s) > n =>
                /\ s[n] \in S
                /\ \A i \in DOMAIN Take(s, n) : <<s[n], Take(s, n)[i]>> \notin R
                /\ \A x \in S : <<s[n], x>> \notin R => \E i \in DOMAIN Take(s, n) : Take(s, n)[i] = x
<1> DEFINE t == Take(s, n)
<1>1. s \in Seq(S) /\ Len(s) \in Nat
    BY DEF Lists
<1>2. /\ DOMAIN t = 1 .. Len(t) /\ Len(t) = IF Len(s) > n THEN n ELSE Len(s)
      /\ \A i \in 1 .. Len(t) : t[i] = s[i]
    BY <1>1, TakeFirst
<1> HIDE DEF t
<1>3. \A i \in 1 .. Len(t) : i \in 1 .. Len(s) /\ t[i] = s[i]
    BY <1>1, <1>2
<1>4. /\ \A i \in 1 .. Len(s) : s[i] \in S
      /\ \A x \in S : \E i \in 1 .. Len(s) : s[i] = x
      /\ \A i, j \in 1 .. Len(s) : <<s[i], s[j]>> \in R <=> i < j
    BY DEF Lists
<1>5. \A i \in DOMAIN t : t[i] \in S
    BY <1>2, <1>3, <1>4
<1>6. ASSUME Len(s) <= n
      PROVE  \A x \in S : \E i \in DOMAIN t : t[i] = x
    <2>1. Len(t) = Len(s)
        BY <1>1, <1>2, <1>6
    <2> QED
        BY <2>1, <1>2, <1>4
<1>7. ASSUME Len(s) > n
      PROVE  /\ s[n] \in S
             /\ \A i \in DOMAIN t : <<s[n], t[i]>> \notin R
             /\ \A x \in S : <<s[n], x>> \notin R => \E i \in DOMAIN t : t[i] = x
    <2>1. n \in 1 .. Len(s) /\ DOMAIN t = 1 .. n /\ Len(t) = n
        BY <1>1, <1>2, <1>7
    <2>2. s[n] \in S
        BY <2>1, <1>4
    <2>3. \A i \in DOMAIN t : <<s[n], t[i]>> \notin R
        <3> TAKE i \in DOMAIN t
        <3>1. i \in 1 .. Len(s) /\ t[i] = s[i] /\ ~(n < i)
            BY <2>1, <1>3
        <3> QED
            BY <3>1, <2>1, <1>4
    <2>4. ASSUME NEW x \in S, <<s[n], x>> \notin R
          PROVE  \E i \in DOMAIN t : t[i] = x
        <3>1. PICK i \in 1 .. Len(s) : s[i] = x
            BY <1>4
        <3>2. ~(n < i)
            BY <3>1, <2>1, <2>4, <1>4
        <3>3. i \in 1 .. Len(t)
            BY <3>2, <2>1
        <3> QED
            BY <3>1, <3>3, <1>2
    <2> QED
        BY <2>2, <2>3, <2>4
<1> QED
    BY <1>5, <1>6, <1>7 DEF t

LEMMA WholeOnPage ==
    ASSUME NEW S, NEW R, NEW s, Lists(s, S, R), NEW n \in Nat \ {0}, Len(s) <= n
    PROVE  \A x \in S : \E i \in DOMAIN Take(s, n) : Take(s, n)[i] = x
BY PageOfList

LEMMA RowsAreFinite ==
    ASSUME RowsOK
    PROVE  IsFiniteSet(rows)
<1> DEFINE f == [r \in rows |-> r.vid]
<1>1. f \in Injection(rows, 1 .. MaxRows)
    BY DEF RowsOK, RowRecords, Injection, IsInjective
<1>2. IsFiniteSet(1 .. MaxRows)
    BY ListingAssumption, FS_Interval
<1> QED
    BY <1>1, <1>2, FS_Injection

LEMMA RowsInOrder ==
    ASSUME RowsOK, NEW S \in SUBSET rows
    PROVE  Lists(InOrder(S), S, VersionOrder(S))
<1>1. IsFiniteSet(S)
    BY RowsAreFinite, FS_Subset
<1>2. S \in SUBSET RowRecords /\ \A r, s \in S : r.vid = s.vid => r = s
    BY DEF RowsOK
<1> QED
    BY <1>1, <1>2, InOrderLists

LEMMA LessFacts ==
    /\ \A k, l \in Keys : ~(Less(k, l) /\ Less(l, k)) /\ (Less(k, l) \/ Less(l, k) \/ k = l)
    /\ \A k \in Keys : ~Less(k, k)
    /\ \A k, l, m \in Keys : Less(k, l) /\ ~Less(m, l) => Less(k, m)
    /\ \A k, l, m \in Keys : Less(k, l) /\ Less(l, m) => Less(k, m)
    /\ \A k, l, m \in Keys : ~Less(l, k) /\ Less(l, m) => Less(k, m)
BY LessOrdersKeys DEF Less

-----------------------------------------------------------------------------
(* What is right about a page.                                               *)

(* It names what is there.                                                   *)
ItemsOK(answer) ==
    /\ \A i \in DOMAIN answer.items : Name(answer.items[i]) \in Present
    /\ TokenOK(answer.marker) /\ answer.prefixes \subseteq FolderNames
    /\ walk.kind = "versions" /\ answer.marker # None => answer.marker \in rows

(* One marker is after another.                                              *)
After(token, marker) ==
    CASE OfObjects -> Less(token, marker)
      [] walk.kind = "versions" -> VersionsFirst(token, marker)
      [] OTHER -> token < marker

(* What is neither before the page nor after it.                             *)
OnPage(answer, x) ==
    /\ walk.token # None => ~Passed(walk.token, x)
    /\ answer.marker # None => Passed(answer.marker, x)

(* A page goes on where the one before it ended, names what is on it and,    *)
(* unless it is cut off without a marker, everything wanted that is.         *)
Onward(answer) ==
    /\ answer.truncated = FALSE => answer.marker = None
    /\ \A i \in DOMAIN answer.items : OnPage(answer, Name(answer.items[i]))
    /\ PlainPrefix /\ (answer.truncated => answer.marker # None) =>
        \A x \in Present : Wanted(x) /\ OnPage(answer, x) => \E i \in DOMAIN answer.items : x = Name(answer.items[i])
    /\ walk.token # None /\ answer.marker # None =>
        After(walk.token, answer.marker) /\ \A x \in Nameable : Passed(walk.token, x) => Passed(answer.marker, x)

(* It has the folders of what is on it.                                      *)
FoldersOK(answer) ==
    PlainPrefix => \A x \in Present : Rolled(x) /\ OnPage(answer, x) => CommonPrefix(x[1]) \in answer.prefixes

(* What is there and what it is called, for each kind of walk.               *)
LEMMA PresentObjects ==
    ASSUME OfObjects
    PROVE  Present = {Name(r) : r \in Objects} /\ \A r : Name(r) = <<r.key, 0>>
<1>1. \A r : Name(r) = <<r.key, 0>>
    BY DEF Name, OfObjects
<1>2. (CASE OfObjects -> Objects
         [] walk.kind = "versions" -> rows
         [] walk.kind = "parts" -> parts
         [] walk.kind = "uploads" -> uploads
         [] ByOffset -> ids) = Objects
    BY DEF OfObjects, ByOffset
<1> QED
    BY <1>1, <1>2, Zenon DEF Present

LEMMA PresentVersions ==
    ASSUME walk.kind = "versions"
    PROVE  Present = {Name(r) : r \in rows} /\ \A r : Name(r) = <<r.key, r.vid>>
<1>1. \A r : Name(r) = <<r.key, r.vid>>
    BY DEF Name, OfObjects
<1>2. (CASE OfObjects -> Objects
         [] walk.kind = "versions" -> rows
         [] walk.kind = "parts" -> parts
         [] walk.kind = "uploads" -> uploads
         [] ByOffset -> ids) = rows
    BY DEF OfObjects, ByOffset
<1> QED
    BY <1>1, <1>2, Zenon DEF Present

LEMMA PresentParts ==
    ASSUME walk.kind = "parts"
    PROVE  Present = {Name(n) : n \in parts} /\ \A n : Name(n) = << <<>>, n>>
<1>1. \A n : Name(n) = << <<>>, n>>
    BY DEF Name, OfObjects
<1>2. (CASE OfObjects -> Objects
         [] walk.kind = "versions" -> rows
         [] walk.kind = "parts" -> parts
         [] walk.kind = "uploads" -> uploads
         [] ByOffset -> ids) = parts
    BY DEF OfObjects, ByOffset
<1> QED
    BY <1>1, <1>2, Zenon DEF Present

LEMMA PresentUploads ==
    ASSUME walk.kind = "uploads"
    PROVE  Present = {Name(k) : k \in uploads} /\ \A k : Name(k) = <<k, 0>>
<1>1. \A k : Name(k) = <<k, 0>>
    BY DEF Name, OfObjects
<1>2. (CASE OfObjects -> Objects
         [] walk.kind = "versions" -> rows
         [] walk.kind = "parts" -> parts
         [] walk.kind = "uploads" -> uploads
         [] ByOffset -> ids) = uploads
    BY DEF OfObjects, ByOffset
<1> QED
    BY <1>1, <1>2, Zenon DEF Present

LEMMA PresentIds ==
    ASSUME ByOffset
    PROVE  Present = {Name(n) : n \in ids} /\ \A n : Name(n) = << <<>>, n>>
<1>1. \A n : Name(n) = << <<>>, n>>
    BY DEF Name, OfObjects, ByOffset
<1>2. (CASE OfObjects -> Objects
         [] walk.kind = "versions" -> rows
         [] walk.kind = "parts" -> parts
         [] walk.kind = "uploads" -> uploads
         [] ByOffset -> ids) = ids
    BY DEF OfObjects, ByOffset
<1> QED
    BY <1>1, <1>2, Zenon DEF Present

PrefixedMatch == \A k \in Keys : HasPrefix(k) => k \in Matching

LEMMA FoldersAreNamed ==
    ASSUME NEW queried, \A r \in queried : r.key \in Keys, NEW plain
    PROVE  Folders(queried, plain) \subseteq FolderNames
<1> SUFFICES ASSUME NEW x \in Folders(queried, plain) PROVE x \in FolderNames
    OBVIOUS
<1>1. PICK r \in queried : x = CommonPrefix(r.key) /\ x # None
    BY DEF Folders
<1> QED
    BY <1>1 DEF CommonPrefix, FolderNames

(* list_objects: a page of plain, and the marker after it.                   *)
LEMMA ObjectsListed ==
    ASSUME RowsOK, NEW a,
           NEW P, P = {r \in ObjectsAfter(a) : CommonPrefix(r.key) = None},
           NEW plain, plain = Plain(ObjectsAfter(a))
    PROVE  /\ Lists(plain, P, VersionOrder(P)) /\ P \subseteq Objects
           /\ \A r, s \in P : <<r, s>> \in VersionOrder(P) <=> Less(r.key, s.key)
<1>1. P \in SUBSET rows /\ P \subseteq Objects
    BY DEF ObjectsAfter, Objects
<1>2. plain = InOrder(P)
    BY DEF Plain
<1>3. Lists(plain, P, VersionOrder(P))
    BY <1>1, <1>2, RowsInOrder
<1>4. ASSUME NEW r \in P, NEW s \in P
      PROVE  <<r, s>> \in VersionOrder(P) <=> Less(r.key, s.key)
    <2>1. r \in rows /\ s \in rows /\ r.latest /\ s.latest /\ r.vid \in Nat /\ s.vid \in Nat
        BY <1>1 DEF Objects, RowsOK, RowRecords
    <2>2. r.key = s.key => ~(r.vid > s.vid)
        BY <2>1 DEF RowsOK
    <2> QED
        BY <2>2 DEF VersionOrder, VersionsFirst
<1> QED
    BY <1>1, <1>3, <1>4

LEMMA ObjectsItemsOK ==
    ASSUME RowsOK, OfObjects, NEW a
    PROVE  ItemsOK(ListObjects(a))
<1> DEFINE P == {r \in ObjectsAfter(a) : CommonPrefix(r.key) = None}
           plain == Plain(ObjectsAfter(a))
           answer == ListObjects(a)
           Q == ObjectsAfter(a)
<1>0. /\ answer.items = Take(plain, MaxKeys) /\ answer.prefixes = Folders(Q, plain)
      /\ answer.marker = IF Len(plain) > MaxKeys THEN plain[MaxKeys].key ELSE None
    BY DEF ListObjects, ObjectsPage, Response
<1>1. Lists(plain, P, VersionOrder(P)) /\ P \subseteq Objects
    BY ObjectsListed
<1>2. Q \subseteq rows /\ \A r \in Q : r.key \in Keys
    BY DEF ObjectsAfter, Objects, RowsOK, RowRecords
<1>3. P \subseteq Q
    OBVIOUS
<1>7. answer.prefixes \subseteq FolderNames
    BY <1>0, <1>2, FoldersAreNamed
<1> HIDE DEF P, plain, answer, Q
<1>4. MaxKeys \in Nat \ {0}
    BY ListingAssumption
<1>5. \A i \in DOMAIN answer.items : answer.items[i] \in P
    BY <1>0, <1>1, <1>4, PageOfList
<1>6. \A r \in Objects : Name(r) \in Present
    BY PresentObjects
<1>8. TokenOK(answer.marker)
    <2>1. Len(plain) > MaxKeys => plain[MaxKeys] \in P
        BY <1>1, <1>4, PageOfList
    <2>2. answer.marker # None => answer.marker \in Keys
        BY <2>1, <1>0, <1>2, <1>3
    <2> QED
        BY <2>2 DEF TokenOK, OfObjects, ByOffset
<1>9. \A i \in DOMAIN answer.items : Name(answer.items[i]) \in Present
    BY <1>1, <1>5, <1>6
<1> QED
    BY <1>7, <1>8, <1>9 DEF ItemsOK, answer, OfObjects

LEMMA PassedObjects ==
    ASSUME OfObjects
    PROVE  \A t, x : Passed(t, x) <=> ~Less(t, x[1])
BY DEF Passed, OfObjects

LEMMA WantedKeys ==
    ASSUME OfObjects \/ walk.kind = "versions"
    PROVE  \A x : Wanted(x) <=> HasPrefix(x[1]) /\ CommonPrefix(x[1]) = None
BY DEF Wanted, OfObjects, ByOffset

LEMMA ObjectsOnward ==
    ASSUME RowsOK, OfObjects, TokenOK(walk.token), PlainPrefix => PrefixedMatch
    PROVE  Onward(ListObjects(walk.token)) /\ FoldersOK(ListObjects(walk.token))
<1> DEFINE t == walk.token
           P == {r \in ObjectsAfter(t) : CommonPrefix(r.key) = None}
           plain == Plain(ObjectsAfter(t))
           answer == ListObjects(t)
           Q == ObjectsAfter(t)
           last == plain[MaxKeys]
<1>0. /\ answer.items = Take(plain, MaxKeys) /\ answer.prefixes = Folders(Q, plain)
      /\ answer.truncated = (Len(plain) > MaxKeys)
      /\ answer.marker = IF Len(plain) > MaxKeys THEN last.key ELSE None
    BY DEF ListObjects, ObjectsPage, Response
<1>1. Lists(plain, P, VersionOrder(P)) /\ P \subseteq Objects
    BY ObjectsListed
<1>2. \A r, s \in P : <<r, s>> \in VersionOrder(P) <=> Less(r.key, s.key)
    BY ObjectsListed
<1>3. Q = {r \in Objects : r.key \in Matching /\ (t # None => Less(t, r.key))}
    BY DEF ObjectsAfter
<1>4. P = {r \in Q : CommonPrefix(r.key) = None}
    OBVIOUS
<1>5. \A r \in Objects : r.key \in Keys
    BY DEF Objects, RowsOK, RowRecords
<1>6. t # None => t \in Keys
    BY DEF TokenOK
<1> HIDE DEF t, P, plain, answer, Q, last
<1>7. MaxKeys \in Nat \ {0} /\ None \notin Keys
    BY ListingAssumption
<1>8. /\ \A i \in DOMAIN answer.items : answer.items[i] \in P
      /\ Len(plain) <= MaxKeys => \A r \in P : \E i \in DOMAIN answer.items : answer.items[i] = r
      /\ Len(plain) > MaxKeys =>
            /\ last \in P
            /\ \A i \in DOMAIN answer.items : <<last, answer.items[i]>> \notin VersionOrder(P)
            /\ \A r \in P : <<last, r>> \notin VersionOrder(P) =>
                \E i \in DOMAIN answer.items : answer.items[i] = r
    BY <1>0, <1>1, <1>7, PageOfList DEF last
<1>9. answer.marker # None => /\ Len(plain) > MaxKeys /\ last \in P /\ answer.marker = last.key
                              /\ answer.marker \in Keys
    BY <1>0, <1>1, <1>5, <1>8
<1>10. Len(plain) \in Nat
    BY <1>1 DEF Lists
<1>11. answer.marker = None => Len(plain) <= MaxKeys
    <2> SUFFICES ASSUME ~(Len(plain) <= MaxKeys) PROVE answer.marker # None
        OBVIOUS
    <2>1. Len(plain) > MaxKeys
        BY <1>7, <1>10
    <2>2. last.key \in Keys /\ answer.marker = last.key
        BY <2>1, <1>0, <1>1, <1>5, <1>8
    <2> QED
        BY <2>2, <1>7
<1>12. \A x : OnPage(answer, x) <=>
            (t # None => Less(t, x[1])) /\ (answer.marker # None => ~Less(answer.marker, x[1]))
    BY PassedObjects, Zenon DEF OnPage, t
<1>13. Present = {Name(r) : r \in Objects} /\ \A r : Name(r) = <<r.key, 0>> /\ Name(r)[1] = r.key
    BY PresentObjects
<1>14. answer.truncated = FALSE => answer.marker = None
    BY <1>0
<1>15. ASSUME NEW i \in DOMAIN answer.items
       PROVE  OnPage(answer, Name(answer.items[i]))
    <2> DEFINE r == answer.items[i]
    <2>1. r \in P /\ r \in Q /\ Name(r)[1] = r.key
        BY <1>4, <1>8, <1>13
    <2>2. t # None => Less(t, r.key)
        BY <2>1, <1>3
    <2>3. answer.marker # None => ~Less(answer.marker, r.key)
        BY <2>1, <1>2, <1>8, <1>9
    <2> QED
        BY <2>1, <2>2, <2>3, <1>12, Zenon
<1>16. ASSUME PlainPrefix, NEW x \in Present, Wanted(x), OnPage(answer, x)
       PROVE  \E i \in DOMAIN answer.items : x = Name(answer.items[i])
    <2>1. PICK r \in Objects : x = Name(r) /\ x[1] = r.key
        BY <1>13
    <2>2. r \in P
        <3>1. r.key \in Keys /\ HasPrefix(r.key) /\ CommonPrefix(r.key) = None
            BY <2>1, <1>5, <1>16, WantedKeys
        <3>2. r.key \in Matching
            BY <3>1, <1>16 DEF PrefixedMatch
        <3>3. t # None => Less(t, r.key)
            BY <2>1, <1>12, <1>16, Zenon
        <3> QED
            BY <3>1, <3>2, <3>3, <1>3, <1>4
    <2>3. answer.marker # None => <<last, r>> \notin VersionOrder(P)
        <3>1. answer.marker # None => ~Less(answer.marker, r.key)
            BY <2>1, <1>12, <1>16, Zenon
        <3> QED
            BY <3>1, <2>2, <1>2, <1>9
    <2>4. \E i \in DOMAIN answer.items : answer.items[i] = r
        BY <2>2, <2>3, <1>8, <1>9, <1>11
    <2> QED
        BY <2>1, <2>4
<1>17. ASSUME t # None, answer.marker # None
       PROVE  After(t, answer.marker) /\ \A x \in Nameable : Passed(t, x) => Passed(answer.marker, x)
    <2>1. last \in Q /\ answer.marker = last.key
        BY <1>4, <1>9, <1>17
    <2>2. Less(t, answer.marker) /\ t \in Keys /\ answer.marker \in Keys
        BY <2>1, <1>3, <1>6, <1>9, <1>17
    <2>3. \A k \in Keys : ~Less(t, k) => ~Less(answer.marker, k)
        BY <2>2, LessFacts
    <2>4. \A x \in Nameable : x[1] \in Keys
        BY DEF Nameable, OfObjects, ByOffset
    <2>5. \A x \in Nameable : Passed(t, x) => Passed(answer.marker, x)
        BY <2>3, <2>4, PassedObjects, Zenon
    <2>6. After(t, answer.marker)
        BY <2>2, Zenon DEF After, OfObjects
    <2> QED
        BY <2>5, <2>6
<1>18. ASSUME PlainPrefix, NEW x \in Present, Rolled(x), OnPage(answer, x)
       PROVE  CommonPrefix(x[1]) \in answer.prefixes
    <2>1. PICK r \in Objects : x = Name(r) /\ x[1] = r.key
        BY <1>13
    <2>2. r.key \in Keys /\ HasPrefix(r.key) /\ CommonPrefix(r.key) # None
        BY <2>1, <1>5, <1>18 DEF Rolled
    <2>3. r \in Q
        <3>1. r.key \in Matching
            BY <2>2, <1>18 DEF PrefixedMatch
        <3>2. t # None => Less(t, r.key)
            BY <2>1, <1>12, <1>18, Zenon
        <3> QED
            BY <3>1, <3>2, <1>3
    <2>4. Len(plain) > MaxKeys => Less(r.key, plain[MaxKeys + 1].key)
        <3> SUFFICES ASSUME Len(plain) > MaxKeys PROVE Less(r.key, plain[MaxKeys + 1].key)
            OBVIOUS
        <3> DEFINE n == MaxKeys + 1
        <3>1. MaxKeys \in 1 .. Len(plain) /\ n \in 1 .. Len(plain) /\ MaxKeys < n
            BY <1>7, <1>10
        <3> HIDE DEF n
        <3>2. plain[n] \in P /\ last \in P /\ <<last, plain[n]>> \in VersionOrder(P)
            BY <3>1, <1>1 DEF Lists, last
        <3>3. Less(last.key, plain[n].key) /\ last.key \in Keys /\ plain[n].key \in Keys
            BY <3>2, <1>1, <1>2, <1>5
        <3>4. answer.marker # None /\ answer.marker = last.key
            BY <1>0, <1>7, <3>3
        <3>5. ~Less(last.key, r.key)
            BY <2>1, <3>4, <1>12, <1>18, Zenon
        <3> QED
            BY <3>3, <3>5, <2>2, LessFacts DEF n
    <2> QED
        BY <2>1, <2>2, <2>3, <2>4, <1>0 DEF Folders
<1>19. Onward(answer)
    BY <1>14, <1>15, <1>16, <1>17, Zenon DEF Onward, t
<1>20. FoldersOK(answer)
    BY <1>18, Zenon DEF FoldersOK
<1> QED
    BY <1>19, <1>20 DEF t, answer

(* list_object_versions                                                      *)
LEMMA VersionsFirstFacts ==
    /\ \A r, s, t \in RowRecords : VersionsFirst(r, s) /\ VersionsFirst(s, t) => VersionsFirst(r, t)
    /\ \A r, s \in RowRecords : VersionsFirst(r, s) \/ VersionsFirst(s, r) \/ (r.key = s.key /\ r.vid = s.vid)
    /\ \A r \in RowRecords : r.key \in Keys /\ r.vid \in Nat /\ r # None
<1>1. \A r \in RowRecords : r.key \in Keys /\ r.vid \in Nat /\ r # None
    BY ListingAssumption DEF RowRecords
<1>2. ASSUME NEW r \in RowRecords, NEW s \in RowRecords, NEW t \in RowRecords,
             VersionsFirst(r, s), VersionsFirst(s, t)
      PROVE  VersionsFirst(r, t)
    <2>1. r.key \in Keys /\ s.key \in Keys /\ t.key \in Keys /\ r.vid \in Nat /\ s.vid \in Nat /\ t.vid \in Nat
        BY <1>1
    <2> QED
        BY <2>1, <1>2, LessFacts DEF VersionsFirst
<1>3. ASSUME NEW r \in RowRecords, NEW s \in RowRecords
      PROVE  VersionsFirst(r, s) \/ VersionsFirst(s, r) \/ (r.key = s.key /\ r.vid = s.vid)
    <2>1. r.key \in Keys /\ s.key \in Keys /\ r.vid \in Nat /\ s.vid \in Nat
        BY <1>1
    <2> QED
        BY <2>1, LessFacts DEF VersionsFirst
<1> QED
    BY <1>1, <1>2, <1>3

LEMMA PassedVersions ==
    ASSUME walk.kind = "versions", NEW t \in RowRecords
    PROVE  /\ \A r \in RowRecords : Passed(t, Name(r)) <=> ~VersionsFirst(t, r)
           /\ \A l \in RowRecords : VersionsFirst(t, l) => \A x \in Nameable : Passed(t, x) => Passed(l, x)
<1>1. \A l, x : Passed(l, x) <=> Less(x[1], l.key) \/ (x[1] = l.key /\ x[2] >= l.vid)
    BY DEF Passed, OfObjects
<1>2. \A r \in RowRecords : r.key \in Keys /\ r.vid \in Nat
    BY VersionsFirstFacts
<1>3. ASSUME NEW r \in RowRecords
      PROVE  Passed(t, Name(r)) <=> ~VersionsFirst(t, r)
    <2>1. Name(r)[1] = r.key /\ Name(r)[2] = r.vid
        BY PresentVersions
    <2>2. Passed(t, Name(r)) <=> Less(r.key, t.key) \/ (r.key = t.key /\ r.vid >= t.vid)
        BY <1>1, <2>1, Zenon
    <2> QED
        BY <2>2, <1>2, LessFacts DEF VersionsFirst
<1>4. ASSUME NEW l \in RowRecords, VersionsFirst(t, l), NEW x \in Nameable, Passed(t, x)
      PROVE  Passed(l, x)
    <2>1. x[1] \in Keys /\ x[2] \in Nat
        BY ListingAssumption DEF Nameable, ByOffset
    <2>2. Less(x[1], t.key) \/ (x[1] = t.key /\ x[2] >= t.vid)
        BY <1>1, <1>4, Zenon
    <2>3. Less(x[1], l.key) \/ (x[1] = l.key /\ x[2] >= l.vid)
        BY <2>1, <2>2, <1>2, <1>4, LessFacts DEF VersionsFirst
    <2> QED
        BY <2>3, <1>1, Zenon
<1> QED
    BY <1>3, <1>4

(* The rows a page of versions is made of.                                   *)
LEMMA VersionsTaken ==
    ASSUME RowsOK, NEW t,
           NEW P, P = {r \in VersionsAfter(t) : CommonPrefix(r.key) = None},
           NEW plain, plain = Plain(VersionsAfter(t)),
           NEW taken, taken = ToSet(Take(plain, MaxKeys + 1))
    PROVE  /\ P \subseteq rows /\ taken \subseteq P
           /\ Cardinality(taken) <= MaxKeys => taken = P
           /\ \A r \in taken, s \in P \ taken : VersionsFirst(r, s)
<1> DEFINE n == MaxKeys + 1
           R == VersionOrder(P)
           f == [i \in 1 .. n |-> plain[i]]
<1>1. P \in SUBSET rows
    BY DEF VersionsAfter
<1>2. plain = InOrder(P)
    BY DEF Plain
<1>3. Lists(plain, P, R)
    BY <1>1, <1>2, RowsInOrder
<1>4. n \in Nat \ {0} /\ MaxKeys \in Nat /\ n = MaxKeys + 1
    BY ListingAssumption
<1>5. \A r, s \in P : <<r, s>> \in R <=> VersionsFirst(r, s)
    BY DEF VersionOrder
<1>6. taken = {Take(plain, n)[i] : i \in DOMAIN Take(plain, n)}
    BY DEF ToSet
<1>7. Len(plain) \in Nat /\ \A i \in 1 .. Len(plain) : plain[i] \in P
    BY <1>3 DEF Lists
<1> HIDE DEF n, R
<1>8. taken \subseteq P
    BY <1>3, <1>4, <1>6, PageOfList
<1>9. CASE Len(plain) <= n
    <2>0. \A x \in P : \E i \in DOMAIN Take(plain, n) : Take(plain, n)[i] = x
        BY <1>3, <1>4, <1>9, WholeOnPage
    <2>1. taken = P
        BY <2>0, <1>6, <1>8
    <2> QED
        BY <2>1, <1>1
<1>10. CASE Len(plain) > n
    <2>1. /\ plain[n] \in P
          /\ \A r \in taken : <<plain[n], r>> \notin R
          /\ \A x \in P : <<plain[n], x>> \notin R => x \in taken
        BY <1>3, <1>4, <1>6, <1>10, PageOfList
    <2>2. \A r \in taken, s \in P \ taken : VersionsFirst(r, s)
        <3> SUFFICES ASSUME NEW r \in taken, NEW s \in P \ taken PROVE VersionsFirst(r, s)
            OBVIOUS
        <3> DEFINE l == plain[n]
        <3>1. r \in rows /\ s \in rows /\ l \in rows /\ r \in P /\ s \in P /\ l \in P
            BY <1>1, <1>8, <2>1
        <3>2. r \in RowRecords /\ s \in RowRecords /\ l \in RowRecords
            BY <3>1 DEF RowsOK
        <3>3. VersionsFirst(l, s) /\ ~VersionsFirst(l, r)
            BY <3>1, <2>1, <1>5
        <3> HIDE DEF l
        <3>4. VersionsFirst(r, l) \/ r = l
            <4>1. r.vid = l.vid => r = l
                BY <3>1 DEF RowsOK
            <4> QED
                BY <4>1, <3>2, <3>3, VersionsFirstFacts
        <3> QED
            BY <3>2, <3>3, <3>4, VersionsFirstFacts
    <2>3. ~(Cardinality(taken) <= MaxKeys)
        <3>1. f \in [1 .. n -> taken]
            <4>1. \A i \in 1 .. n : i \in DOMAIN Take(plain, n) /\ Take(plain, n)[i] = plain[i]
                <5>1. plain \in Seq(P)
                    BY <1>3 DEF Lists
                <5> QED
                    BY <5>1, <1>4, <1>7, <1>10, TakeFirst
            <4> QED
                BY <4>1, <1>6
        <3>2. \A i, j \in 1 .. n : f[i] = f[j] => i = j
            <4> SUFFICES ASSUME NEW i \in 1 .. n, NEW j \in 1 .. n, plain[i] = plain[j] PROVE i = j
                OBVIOUS
            <4>1. i \in 1 .. Len(plain) /\ j \in 1 .. Len(plain)
                BY <1>4, <1>7, <1>10
            <4>2. /\ <<plain[i], plain[j]>> \in R <=> i < j
                  /\ <<plain[j], plain[i]>> \in R <=> j < i
                  /\ <<plain[i], plain[i]>> \in R <=> i < i
                BY <4>1, <1>3 DEF Lists
            <4> QED
                BY <4>1, <4>2
        <3>3. f \in Injection(1 .. n, taken)
            BY <3>1, <3>2 DEF Injection, IsInjective
        <3>4. IsFiniteSet(taken)
            <4>1. taken \in SUBSET rows
                BY <1>1, <1>8
            <4> QED
                BY <4>1, RowsAreFinite, FS_Subset
        <3>5. Cardinality(1 .. n) = n
            BY <1>4, FS_Interval
        <3>6. n <= Cardinality(taken) /\ Cardinality(taken) \in Nat
            BY <3>3, <3>4, <3>5, FS_Injection, FS_CardinalityType
        <3> QED
            BY <3>6, <1>4
    <2> QED
        BY <1>1, <1>8, <2>2, <2>3
<1> QED
    BY <1>4, <1>7, <1>9, <1>10

LEMMA EmptyInOrder == InOrder({}) = <<>>
<1>1. Cardinality({}) = 0
    BY FS_EmptySet
<1> QED
    BY <1>1 DEF InOrder, OrderBy

(* What CutVersions answers.                                                 *)
CutAt(answer, v, m, p, S) ==
    /\ answer.items = v \o m /\ answer.prefixes = p /\ answer.truncated = TRUE
    /\ answer.marker # None => answer.marker \in S

LEMMA CutVersionsFacts ==
    ASSUME RowsOK, NEW S \in SUBSET rows, NEW v \in Seq(S), NEW m \in Seq(S), NEW p
    PROVE  CutAt(CutVersions(v, m, p), v, m, p, S)
<1> DEFINE answer == CutVersions(v, m, p)
           lasts == {Last(s) : s \in {v, m} \ {<<>>}}
           best == CHOOSE r \in lasts : \A s \in lasts : s.vid <= r.vid
<1>1. /\ answer.items = v \o m /\ answer.prefixes = p /\ answer.truncated = TRUE
      /\ answer.marker = IF lasts = {} THEN None ELSE best
    BY DEF CutVersions, Response
<1>2. \A s \in {v, m} \ {<<>>} : Last(s) = s[Len(s)] /\ s[Len(s)] \in S
    BY DEF Last
<1>3. \A x \in lasts : x \in S /\ x.vid \in Nat
    BY <1>2, VersionsFirstFacts DEF RowsOK
<1>4. lasts # {} => \E r \in lasts : \A s \in lasts : s.vid <= r.vid
    <2>1. \A x \in lasts : (v # <<>> /\ x = Last(v)) \/ (m # <<>> /\ x = Last(m))
        OBVIOUS
    <2>2. (v # <<>> => Last(v) \in lasts) /\ (m # <<>> => Last(m) \in lasts)
        OBVIOUS
    <2> HIDE DEF lasts
    <2>3. CASE v = <<>> \/ m = <<>>
        BY <2>1, <2>2, <2>3, <1>3
    <2>4. CASE v # <<>> /\ m # <<>>
        <3>1. Last(v).vid \in Nat /\ Last(m).vid \in Nat /\ Last(v) \in lasts /\ Last(m) \in lasts
            BY <2>2, <2>4, <1>3
        <3>2. CASE Last(v).vid <= Last(m).vid
            BY <3>1, <3>2, <2>1
        <3>3. CASE Last(m).vid <= Last(v).vid
            BY <3>1, <3>3, <2>1
        <3> QED
            BY <3>1, <3>2, <3>3
    <2> QED
        BY <2>3, <2>4
<1>5. lasts # {} => best \in lasts
    BY <1>4, Zenon
<1> HIDE DEF lasts, best, answer
<1>6. answer.marker # None => answer.marker \in S
    BY <1>1, <1>3, <1>5
<1> QED
    BY <1>1, <1>6 DEF CutAt, answer

(* Whatever is gone or marked deleted, a page is of rows after its marker,   *)
(* and so is the next one's marker.                                          *)
LEMMA VersionsAnswer ==
    ASSUME RowsOK, NEW t, NEW answer, answer = ListObjectVersions(t)
    PROVE  /\ answer.items \in Seq(VersionsAfter(t)) /\ answer.prefixes \subseteq FolderNames
           /\ answer.marker # None => answer.marker \in VersionsAfter(t)
<1> DEFINE P == {r \in VersionsAfter(t) : CommonPrefix(r.key) = None}
           plain == Plain(VersionsAfter(t))
           taken == ToSet(Take(plain, MaxKeys + 1))
           folders == Folders(VersionsAfter(t), plain)
           V == {r \in taken : ~r.marker}
           M == {r \in taken : r.marker}
           v == InOrder(V)
           m == InOrder(M)
           S == VersionsAfter(t)
<1>1. answer = VersionsPage(v, m, folders)
    BY DEF ListObjectVersions
<1>2. taken \subseteq P /\ P \subseteq S /\ P \subseteq rows /\ S \subseteq rows
    <2>1. /\ P = {r \in VersionsAfter(t) : CommonPrefix(r.key) = None}
          /\ plain = Plain(VersionsAfter(t)) /\ taken = ToSet(Take(plain, MaxKeys + 1))
        OBVIOUS
    <2>2. P \subseteq S /\ S \subseteq rows
        BY DEF VersionsAfter
    <2> HIDE DEF P, plain, taken, S
    <2> QED
        BY <2>1, <2>2, VersionsTaken
<1>3. V \in SUBSET rows /\ M \in SUBSET rows /\ V \subseteq S /\ M \subseteq S
    BY <1>2
<1>4. \A r \in VersionsAfter(t) : r.key \in Keys
    BY DEF VersionsAfter, RowsOK, RowRecords
<1>5. folders \subseteq FolderNames
    BY <1>4, FoldersAreNamed
<1> HIDE DEF V, M, taken, P, plain, folders, S
<1>6. Lists(v, V, VersionOrder(V)) /\ Lists(m, M, VersionOrder(M))
    BY <1>3, RowsInOrder
<1>7. v \in Seq(V) /\ m \in Seq(M)
    BY <1>6 DEF Lists
<1> HIDE DEF v, m
<1>8. v \in Seq(S) /\ m \in Seq(S)
    BY <1>3, <1>7
<1>9. /\ answer.items \in Seq(S) /\ answer.prefixes = folders
      /\ answer.marker # None => answer.marker \in S
    <2>0. MaxKeys \in Nat \ {0}
        BY ListingAssumption
    <2>1. CASE Len(v) + Len(m) <= MaxKeys
        <3>1. answer = Response(v \o m, folders, FALSE, None)
            BY <1>1, <2>1 DEF VersionsPage
        <3> QED
            BY <3>1, <1>8 DEF Response
    <2>2. CASE ~(Len(v) + Len(m) <= MaxKeys) /\ m = <<>>
        <3>1. answer = CutVersions(Front(v), <<>>, folders)
            BY <1>1, <2>2 DEF VersionsPage
        <3>2. Front(v) \in Seq(S) /\ <<>> \in Seq(S)
            BY <1>8, <2>0, <2>2 DEF Front
        <3> DEFINE w == Front(v)
        <3> HIDE DEF w
        <3>3. /\ answer.items = w \o <<>> /\ answer.prefixes = folders
              /\ answer.marker # None => answer.marker \in S
            <4>1. answer = CutVersions(w, <<>>, folders) /\ w \in Seq(S) /\ <<>> \in Seq(S)
                BY <3>1, <3>2 DEF w
            <4>2. CutAt(answer, w, <<>>, folders, S)
                BY <4>1, <1>2, CutVersionsFacts
            <4> QED
                BY <4>2 DEF CutAt
        <3> QED
            BY <3>2, <3>3 DEF w
    <2>3. CASE ~(Len(v) + Len(m) <= MaxKeys) /\ m # <<>>
        <3>1. answer = CutVersions(v, Front(m), folders)
            BY <1>1, <2>3 DEF VersionsPage
        <3>2. Front(m) \in Seq(S)
            BY <1>8, <2>3 DEF Front
        <3> DEFINE w == Front(m)
        <3> HIDE DEF w
        <3>3. /\ answer.items = v \o w /\ answer.prefixes = folders
              /\ answer.marker # None => answer.marker \in S
            <4>1. answer = CutVersions(v, w, folders) /\ w \in Seq(S) /\ v \in Seq(S)
                BY <3>1, <3>2, <1>8 DEF w
            <4>2. CutAt(answer, v, w, folders, S)
                BY <4>1, <1>2, CutVersionsFacts
            <4> QED
                BY <4>2 DEF CutAt
        <3> QED
            BY <3>2, <3>3, <1>8 DEF w
    <2> QED
        BY <2>1, <2>2, <2>3
<1> QED
    BY <1>5, <1>9 DEF S

LEMMA VersionsItemsOK ==
    ASSUME RowsOK, walk.kind = "versions", NEW t
    PROVE  ItemsOK(ListObjectVersions(t))
<1> DEFINE answer == ListObjectVersions(t)
<1>1. VersionsAfter(t) \subseteq rows
    BY DEF VersionsAfter
<1>2. answer = ListObjectVersions(t)
    OBVIOUS
<1> HIDE DEF answer
<1>3. /\ answer.items \in Seq(rows) /\ answer.prefixes \subseteq FolderNames
      /\ answer.marker # None => answer.marker \in rows
    BY <1>1, <1>2, VersionsAnswer
<1>4. \A i \in DOMAIN answer.items : answer.items[i] \in rows
    BY <1>3
<1>5. \A r \in rows : Name(r) \in Present
    BY PresentVersions
<1>6. TokenOK(answer.marker)
    BY <1>3 DEF TokenOK, OfObjects, ByOffset, RowsOK
<1>7. \A i \in DOMAIN answer.items : Name(answer.items[i]) \in Present
    BY <1>4, <1>5
<1> QED
    BY <1>3, <1>6, <1>7 DEF ItemsOK, answer

LEMMA CutVersionsLast ==
    ASSUME RowsOK, NEW v \in Seq(rows), v # <<>>, NEW p, NEW answer, answer = CutVersions(v, <<>>, p)
    PROVE  answer.marker = v[Len(v)]
<1> DEFINE lasts == {Last(s) : s \in {v, <<>>} \ {<<>>}}
           best == CHOOSE r \in lasts : \A s \in lasts : s.vid <= r.vid
<1>1. answer.marker = IF lasts = {} THEN None ELSE best
    BY DEF CutVersions, Response
<1>2. lasts = {Last(v)}
    OBVIOUS
<1>3. Last(v).vid \in Nat
    <2>1. Last(v) \in rows
        BY DEF Last
    <2> QED
        BY <2>1, VersionsFirstFacts DEF RowsOK
<1> HIDE DEF lasts
<1>4. \E r \in lasts : \A s \in lasts : s.vid <= r.vid
    BY <1>2, <1>3
<1>5. best \in lasts
    BY <1>4, Zenon
<1> HIDE DEF best
<1> QED
    BY <1>1, <1>2, <1>5 DEF Last

(* Without delete markers, a page of versions is the first of what is taken. *)
CalmPage(answer, v, taken) ==
    /\ Lists(v, taken, VersionOrder(taken))
    /\ Len(v) <= MaxKeys => answer.items = v /\ answer.truncated = FALSE /\ answer.marker = None
    /\ ~(Len(v) <= MaxKeys) =>
        /\ Len(v) - 1 \in Nat \ {0} /\ Len(v) > Len(v) - 1
        /\ answer.items = Take(v, Len(v) - 1) /\ answer.truncated = TRUE /\ answer.marker = v[Len(v) - 1]

LEMMA CalmVersions ==
    ASSUME RowsOK, \A r \in rows : ~r.marker, NEW t,
           NEW taken, taken = ToSet(Take(Plain(VersionsAfter(t)), MaxKeys + 1)), taken \subseteq rows,
           NEW v, v = InOrder(taken), NEW answer, answer = ListObjectVersions(t)
    PROVE  CalmPage(answer, v, taken)
<1> DEFINE folders == Folders(VersionsAfter(t), Plain(VersionsAfter(t)))
<1>1. {r \in taken : ~r.marker} = taken /\ {r \in taken : r.marker} = {}
    OBVIOUS
<1>2. answer = VersionsPage(InOrder({r \in taken : ~r.marker}), InOrder({r \in taken : r.marker}), folders)
    BY DEF ListObjectVersions
<1> HIDE DEF folders
<1>3. answer = VersionsPage(v, <<>>, folders)
    BY <1>1, <1>2, EmptyInOrder
<1>4. Lists(v, taken, VersionOrder(taken))
    BY RowsInOrder
<1>5. v \in Seq(taken) /\ Len(v) \in Nat /\ MaxKeys \in Nat \ {0}
    BY <1>4, ListingAssumption DEF Lists
<1>6. ASSUME Len(v) <= MaxKeys
      PROVE  answer.items = v /\ answer.truncated = FALSE /\ answer.marker = None
    <2>1. Len(v) + Len(<<>>) <= MaxKeys
        BY <1>5, <1>6
    <2>2. answer = Response(v \o <<>>, folders, FALSE, None)
        BY <1>3, <2>1 DEF VersionsPage
    <2>3. v \o <<>> = v
        BY <1>5
    <2> QED
        BY <2>2, <2>3 DEF Response
<1>7. ASSUME ~(Len(v) <= MaxKeys)
      PROVE  /\ Len(v) - 1 \in Nat \ {0} /\ Len(v) > Len(v) - 1
             /\ answer.items = Take(v, Len(v) - 1) /\ answer.truncated = TRUE /\ answer.marker = v[Len(v) - 1]
    <2> DEFINE n == Len(v) - 1
               w == Take(v, n)
    <2>1. n \in Nat \ {0} /\ Len(v) > n /\ n <= Len(v)
        <3>1. Len(v) \in Nat /\ MaxKeys \in Nat /\ MaxKeys >= 1 /\ Len(v) > MaxKeys
            BY <1>5, <1>7
        <3>2. \A m, k \in Nat : k >= 1 /\ m > k => m - 1 \in Nat \ {0} /\ m > m - 1 /\ m - 1 <= m
            OBVIOUS
        <3> QED
            BY <3>1, <3>2, Zenon
    <2>2. ~(Len(v) + Len(<<>>) <= MaxKeys)
        BY <1>5, <1>7
    <2>3. answer = CutVersions(Front(v), <<>>, folders)
        BY <1>3, <2>2 DEF VersionsPage
    <2>4. Front(v) = w
        BY <2>1 DEF Front, Take
    <2>5. w \in Seq(taken) /\ Len(w) = n /\ \A i \in 1 .. n : w[i] = v[i]
        <3> HIDE DEF n
        <3> QED
            BY <1>5, <2>1, TakeFirst
    <2> HIDE DEF n, w
    <2>6. w \in Seq(rows) /\ <<>> \in Seq(rows)
        BY <2>5
    <2>7. CutAt(answer, w, <<>>, folders, rows)
        BY <2>3, <2>4, <2>6, CutVersionsFacts
    <2>8. answer.items = w /\ answer.truncated = TRUE
        BY <2>7, <2>6 DEF CutAt
    <2>9. w # <<>>
        BY <2>1, <2>5
    <2>10. answer.marker = w[Len(w)]
        BY <2>3, <2>4, <2>6, <2>9, CutVersionsLast
    <2>11. answer.marker = v[n] /\ n \in Nat \ {0} /\ Len(v) > n /\ answer.items = Take(v, n)
        BY <2>1, <2>5, <2>8, <2>10 DEF w
    <2> QED
        BY <2>8, <2>11 DEF n
<1> QED
    BY <1>4, <1>6, <1>7 DEF CalmPage

LEMMA VersionsOnward ==
    ASSUME RowsOK, walk.kind = "versions", TokenOK(walk.token), PlainPrefix => PrefixedMatch,
           \A r \in rows : ~r.marker, walk.token # None => \E r \in rows : r.vid = walk.token.vid
    PROVE  Onward(ListObjectVersions(walk.token))
<1> DEFINE t == walk.token
           Q == VersionsAfter(t)
           P == {r \in Q : CommonPrefix(r.key) = None}
           plain == Plain(Q)
           taken == ToSet(Take(plain, MaxKeys + 1))
           v == InOrder(taken)
           answer == ListObjectVersions(t)
           last == answer.marker
           R == VersionOrder(taken)
<1>1. Q = {r \in rows : r.key \in Matching /\ (t # None => VersionsFirst(t, r))}
    BY DEF VersionsAfter
<1>2. P = {r \in Q : CommonPrefix(r.key) = None}
    OBVIOUS
<1>3. /\ P \subseteq rows /\ taken \subseteq P
      /\ Cardinality(taken) <= MaxKeys => taken = P
      /\ \A r \in taken, s \in P \ taken : VersionsFirst(r, s)
    <2>1. plain = Plain(VersionsAfter(t)) /\ taken = ToSet(Take(plain, MaxKeys + 1))
        OBVIOUS
    <2> HIDE DEF P, plain, taken
    <2>2. P = {r \in VersionsAfter(t) : CommonPrefix(r.key) = None}
        BY <1>2
    <2> QED
        BY <2>1, <2>2, VersionsTaken
<1>4. taken = ToSet(Take(Plain(VersionsAfter(t)), MaxKeys + 1)) /\ v = InOrder(taken) /\ answer = ListObjectVersions(t)
    OBVIOUS
<1>5. \A r, s \in taken : <<r, s>> \in R <=> VersionsFirst(r, s)
    BY DEF VersionOrder
<1> HIDE DEF t, Q, P, plain, taken, v, answer
<1>6. /\ Lists(v, taken, R)
      /\ Len(v) <= MaxKeys => answer.items = v /\ answer.truncated = FALSE /\ answer.marker = None
      /\ ~(Len(v) <= MaxKeys) =>
                /\ Len(v) - 1 \in Nat \ {0} /\ Len(v) > Len(v) - 1
                /\ answer.items = Take(v, Len(v) - 1) /\ answer.truncated = TRUE /\ answer.marker = v[Len(v) - 1]
    <2>1. taken \subseteq rows
        BY <1>3
    <2>2. CalmPage(answer, v, taken)
        BY <2>1, <1>4, CalmVersions
    <2> QED
        BY <2>2 DEF CalmPage, R
<1> HIDE DEF R
<1>7. \A r \in rows : r \in RowRecords /\ r # None
    BY VersionsFirstFacts DEF RowsOK
<1>8. /\ \A i \in DOMAIN answer.items : answer.items[i] \in taken
      /\ last = None => taken = P /\ \A r \in P : \E i \in DOMAIN answer.items : answer.items[i] = r
      /\ last # None =>
            /\ last \in taken
            /\ \A i \in DOMAIN answer.items : ~VersionsFirst(last, answer.items[i])
            /\ \A r \in P : ~VersionsFirst(last, r) => \E i \in DOMAIN answer.items : answer.items[i] = r
      /\ answer.truncated = FALSE => last = None
    <2>1. CASE Len(v) <= MaxKeys
        <3>1. taken = P
            BY <2>1, <1>3, <1>6 DEF Lists
        <3>2. \A i \in DOMAIN v : v[i] \in taken
            BY <1>6 DEF Lists
        <3>3. \A r \in taken : \E i \in DOMAIN v : v[i] = r
            BY <1>6 DEF Lists
        <3> QED
            BY <3>1, <3>2, <3>3, <2>1, <1>6
    <2>2. CASE ~(Len(v) <= MaxKeys)
        <3> DEFINE n == Len(v) - 1
        <3>1. n \in Nat \ {0} /\ Len(v) > n /\ answer.items = Take(v, n) /\ last = v[n] /\ answer.truncated = TRUE
            BY <2>2, <1>6
        <3> HIDE DEF n, last
        <3>2. /\ \A i \in DOMAIN answer.items : answer.items[i] \in taken
              /\ last \in taken
              /\ \A i \in DOMAIN answer.items : <<last, answer.items[i]>> \notin R
              /\ \A r \in taken : <<last, r>> \notin R => \E i \in DOMAIN answer.items : answer.items[i] = r
            BY <3>1, <1>6, PageOfList
        <3>3. last # None
            BY <3>2, <1>3, <1>7
        <3>4. \A i \in DOMAIN answer.items : ~VersionsFirst(last, answer.items[i])
            BY <3>2, <1>5
        <3>5. \A r \in P : ~VersionsFirst(last, r) => \E i \in DOMAIN answer.items : answer.items[i] = r
            <4> SUFFICES ASSUME NEW r \in P, ~VersionsFirst(last, r)
                         PROVE  \E i \in DOMAIN answer.items : answer.items[i] = r
                OBVIOUS
            <4>1. r \in taken
                BY <3>2, <1>3
            <4> QED
                BY <4>1, <3>2, <1>5
        <3> QED
            BY <3>1, <3>2, <3>3, <3>4, <3>5
    <2> QED
        BY <2>1, <2>2
<1> HIDE DEF last
<1>9. /\ last # None => last \in RowRecords /\ last \in P
      /\ t # None => t \in RowRecords
    BY <1>3, <1>7, <1>8 DEF TokenOK, t
<1>10. \A r \in rows : OnPage(answer, Name(r)) <=>
            (t # None => VersionsFirst(t, r)) /\ (last # None => ~VersionsFirst(last, r))
    <2> TAKE r \in rows
    <2>1. r \in RowRecords
        BY <1>7
    <2>2. t # None => (Passed(t, Name(r)) <=> ~VersionsFirst(t, r))
        BY <2>1, <1>9, PassedVersions
    <2>3. last # None => (Passed(last, Name(r)) <=> ~VersionsFirst(last, r))
        BY <2>1, <1>9, PassedVersions
    <2> QED
        BY <2>2, <2>3, Zenon DEF OnPage, t, last
<1>11. Present = {Name(r) : r \in rows} /\ \A r : Name(r)[1] = r.key
    BY PresentVersions
<1>12. ASSUME NEW i \in DOMAIN answer.items
       PROVE  OnPage(answer, Name(answer.items[i]))
    <2>1. answer.items[i] \in P /\ answer.items[i] \in rows /\ answer.items[i] \in Q
        BY <1>2, <1>3, <1>8
    <2>2. t # None => VersionsFirst(t, answer.items[i])
        BY <2>1, <1>1
    <2> QED
        BY <2>1, <2>2, <1>8, <1>10
<1>13. ASSUME PlainPrefix, NEW x \in Present, Wanted(x), OnPage(answer, x)
       PROVE  \E i \in DOMAIN answer.items : x = Name(answer.items[i])
    <2>1. PICK r \in rows : x = Name(r) /\ x[1] = r.key
        BY <1>11
    <2>2. r \in P
        <3>1. r.key \in Keys /\ HasPrefix(r.key) /\ CommonPrefix(r.key) = None
            BY <2>1, <1>7, <1>13, WantedKeys, VersionsFirstFacts
        <3>2. r.key \in Matching
            BY <3>1, <1>13 DEF PrefixedMatch
        <3> QED
            BY <3>1, <3>2, <2>1, <1>1, <1>2, <1>10, <1>13
    <2>3. last # None => ~VersionsFirst(last, r)
        BY <2>1, <1>10, <1>13
    <2>4. \E i \in DOMAIN answer.items : answer.items[i] = r
        BY <2>2, <2>3, <1>8
    <2> QED
        BY <2>1, <2>4
<1>14. ASSUME t # None, last # None
       PROVE  After(t, last) /\ \A x \in Nameable : Passed(t, x) => Passed(last, x)
    <2>1. last \in Q /\ VersionsFirst(t, last)
        BY <1>1, <1>2, <1>9, <1>14
    <2>2. \A x \in Nameable : Passed(t, x) => Passed(last, x)
        BY <2>1, <1>9, <1>14, PassedVersions
    <2>3. After(t, last)
        BY <2>1, Zenon DEF After, OfObjects
    <2> QED
        BY <2>2, <2>3
<1>15. answer.truncated = FALSE => answer.marker = None
    BY <1>8 DEF last
<1>16. Onward(answer)
    BY <1>12, <1>13, <1>14, <1>15, Zenon DEF Onward, t, last
<1> QED
    BY <1>16 DEF t, answer

(* list_parts                                                                *)
LEMMA PartsPage ==
    ASSUME TablesOK, walk.kind = "parts", TokenOK(walk.token)
    PROVE  ItemsOK(ListParts(walk.token)) /\ Onward(ListParts(walk.token))
<1> DEFINE t == walk.token
           P == {n \in parts : t # None => n > t}
           s == Ascending(P)
           answer == ListParts(t)
           last == s[MaxKeys]
           R == Rising(P)
<1>0. /\ answer.items = Take(s, MaxKeys) /\ answer.prefixes = {} /\ answer.truncated = (Len(s) > MaxKeys)
      /\ answer.marker = IF Len(s) > MaxKeys THEN last ELSE None
    BY DEF ListParts, Response
<1>1. parts \subseteq Nat \ {0} /\ None \notin Nat /\ MaxKeys \in Nat \ {0} /\ P \subseteq parts
    BY ListingAssumption DEF TablesOK
<1>2. P \in SUBSET Nat
    BY <1>1
<1>3. IsFiniteSet(P)
    <2>1. P \in SUBSET PartNumbers
        BY DEF TablesOK
    <2> QED
        BY <2>1, ListingAssumption, FS_Subset
<1>4. Orders(R, P)
    BY <1>2, RisingOrders
<1>5. \A m, n \in P : <<m, n>> \in R <=> m < n
    BY DEF Rising
<1>6. P = {n \in parts : t # None => n > t}
    OBVIOUS
<1> HIDE DEF P, answer, t
<1>7. Lists(s, P, R)
    BY <1>3, <1>4, NumbersRising
<1> HIDE DEF s, R
<1>8. /\ \A i \in DOMAIN answer.items : answer.items[i] \in P
      /\ Len(s) <= MaxKeys => \A n \in P : \E i \in DOMAIN answer.items : answer.items[i] = n
      /\ Len(s) > MaxKeys =>
            /\ last \in P
            /\ \A i \in DOMAIN answer.items : <<last, answer.items[i]>> \notin R
            /\ \A n \in P : <<last, n>> \notin R => \E i \in DOMAIN answer.items : answer.items[i] = n
    BY <1>0, <1>1, <1>7, PageOfList DEF last
<1> HIDE DEF last
<1>9. Len(s) \in Nat
    BY <1>7 DEF Lists
<1>10. /\ answer.marker # None => Len(s) > MaxKeys /\ answer.marker = last /\ last \in P
       /\ answer.marker = None => Len(s) <= MaxKeys
    <2>1. CASE Len(s) > MaxKeys
        <3>1. last \in P /\ answer.marker = last
            BY <2>1, <1>0, <1>8
        <3>2. last # None
            BY <3>1, <1>1, <1>2
        <3> QED
            BY <2>1, <3>1, <3>2
    <2>2. CASE ~(Len(s) > MaxKeys)
        <3>1. Len(s) <= MaxKeys
            BY <2>2, <1>1, <1>9
        <3>2. answer.marker = None
            BY <2>2, <1>0
        <3> QED
            BY <3>1, <3>2
    <2> QED
        BY <2>1, <2>2
<1>11. t # None => t \in Nat
    BY DEF TokenOK, t
<1>12. \A l, x : Passed(l, x) <=> x[2] <= l
    BY DEF Passed, OfObjects
<1>13. Present = {Name(n) : n \in parts} /\ \A n : Name(n) = << <<>>, n>> /\ Name(n)[2] = n
    BY PresentParts
<1>14. \A n : OnPage(answer, Name(n)) <=> (t # None => ~(n <= t)) /\ (answer.marker # None => n <= answer.marker)
    BY <1>12, <1>13, Zenon DEF OnPage, t
<1>15. ItemsOK(answer)
    <2>1. \A i \in DOMAIN answer.items : Name(answer.items[i]) \in Present
        BY <1>1, <1>8, <1>13
    <2>2. TokenOK(answer.marker)
        BY <1>2, <1>10 DEF TokenOK, OfObjects, ByOffset
    <2> QED
        BY <2>1, <2>2, <1>0 DEF ItemsOK
<1>16. ASSUME NEW i \in DOMAIN answer.items
       PROVE  OnPage(answer, Name(answer.items[i]))
    <2> DEFINE n == answer.items[i]
    <2>1. n \in P /\ n \in Nat
        BY <1>2, <1>8
    <2>2. t # None => ~(n <= t)
        BY <2>1, <1>6, <1>11
    <2>3. answer.marker # None => n <= answer.marker
        <3> SUFFICES ASSUME answer.marker # None PROVE n <= last
            BY <1>10
        <3>1. last \in P /\ last \in Nat /\ <<last, n>> \notin R
            BY <1>2, <1>8, <1>10
        <3> HIDE DEF n
        <3>2. ~(last < n)
            BY <3>1, <2>1, <1>5
        <3> QED
            BY <3>1, <3>2, <2>1
    <2> QED
        BY <2>2, <2>3, <1>14
<1>17. ASSUME NEW x \in Present, OnPage(answer, x)
       PROVE  \E i \in DOMAIN answer.items : x = Name(answer.items[i])
    <2>1. PICK n \in parts : x = Name(n)
        BY <1>13
    <2>2. n \in P /\ n \in Nat
        BY <2>1, <1>1, <1>6, <1>11, <1>14, <1>17
    <2>3. answer.marker # None => <<last, n>> \notin R
        <3> SUFFICES ASSUME answer.marker # None PROVE <<last, n>> \notin R
            OBVIOUS
        <3>1. last \in P /\ last \in Nat /\ answer.marker = last
            BY <1>2, <1>10
        <3>2. n <= last
            BY <3>1, <2>1, <1>14, <1>17
        <3>3. ~(last < n)
            BY <3>1, <3>2, <2>2
        <3> QED
            BY <3>1, <3>3, <2>2, <1>5
    <2>4. \E i \in DOMAIN answer.items : answer.items[i] = n
        BY <2>2, <2>3, <1>8, <1>10
    <2> QED
        BY <2>1, <2>4
<1>18. ASSUME t # None, answer.marker # None
       PROVE  After(t, answer.marker) /\ \A x \in Nameable : Passed(t, x) => Passed(answer.marker, x)
    <2>1. t < answer.marker /\ answer.marker \in Nat /\ t \in Nat
        BY <1>2, <1>6, <1>10, <1>11, <1>18
    <2>2. After(t, answer.marker)
        BY <2>1 DEF After, OfObjects
    <2>3. \A x \in Nameable : x[2] \in Nat
        BY ListingAssumption DEF Nameable
    <2>4. \A x \in Nameable : x[2] <= t => x[2] <= answer.marker
        BY <2>1, <2>3
    <2> QED
        BY <2>2, <2>4, <1>12, Zenon
<1>19. answer.truncated = FALSE => answer.marker = None
    BY <1>0
<1>20. Onward(answer)
    BY <1>16, <1>17, <1>18, <1>19, Zenon DEF Onward, t
<1> QED
    BY <1>15, <1>20 DEF t, answer

(* list_multipart_uploads                                                    *)
LEMMA UploadsPage ==
    ASSUME TablesOK, walk.kind = "uploads", walk.token = None, PlainPrefix => PrefixedMatch
    PROVE  ItemsOK(ListMultipartUploads) /\ Onward(ListMultipartUploads)
<1> DEFINE P == {k \in uploads : k \in Matching}
           s == ByKey(P)
           answer == ListMultipartUploads
<1>0. /\ answer.items = Take(s, MaxKeys) /\ answer.prefixes = {} /\ answer.truncated = (Len(s) > MaxKeys)
      /\ answer.marker = None
    BY DEF ListMultipartUploads, Response
<1>1. P \in SUBSET Keys /\ P \subseteq uploads /\ MaxKeys \in Nat \ {0}
    BY ListingAssumption DEF TablesOK
<1>2. IsFiniteSet(P)
    BY <1>1, ListingAssumption, FS_Subset
<1>3. P = {k \in uploads : k \in Matching}
    OBVIOUS
<1> HIDE DEF P, answer
<1>4. Lists(s, P, KeyOrder(P))
    BY <1>1, <1>2, KeysInOrder
<1> HIDE DEF s
<1>5. /\ \A i \in DOMAIN answer.items : answer.items[i] \in P
      /\ Len(s) <= MaxKeys => \A k \in P : \E i \in DOMAIN answer.items : answer.items[i] = k
    BY <1>0, <1>1, <1>4, PageOfList
<1>6. Present = {Name(k) : k \in uploads} /\ \A k : Name(k) = <<k, 0>> /\ Name(k)[1] = k
    BY PresentUploads
<1>7. ItemsOK(answer)
    <2>1. \A i \in DOMAIN answer.items : Name(answer.items[i]) \in Present
        BY <1>1, <1>5, <1>6
    <2> QED
        BY <2>1, <1>0 DEF ItemsOK, TokenOK
<1>8. \A x : OnPage(answer, x)
    BY <1>0 DEF OnPage
<1>9. ASSUME PlainPrefix, answer.truncated => answer.marker # None, NEW x \in Present, Wanted(x)
      PROVE  \E i \in DOMAIN answer.items : x = Name(answer.items[i])
    <2>1. PICK k \in uploads : x = Name(k) /\ x[1] = k
        BY <1>6
    <2>2. HasPrefix(k) /\ k \in Keys
        BY <2>1, <1>9 DEF Wanted, ByOffset, TablesOK
    <2>3. k \in P
        BY <2>1, <2>2, <1>3, <1>9 DEF PrefixedMatch
    <2>4. Len(s) <= MaxKeys
        <3>1. Len(s) \in Nat /\ ~(Len(s) > MaxKeys)
            BY <1>0, <1>4, <1>9 DEF Lists
        <3> QED
            BY <3>1, <1>1
    <2>5. \E i \in DOMAIN answer.items : answer.items[i] = k
        BY <2>3, <2>4, <1>5
    <2> QED
        BY <2>1, <2>5
<1>10. Onward(answer)
    BY <1>0, <1>8, <1>9, Zenon DEF Onward
<1> QED
    BY <1>7, <1>10 DEF answer

(* The listings by offset.                                                   *)
SkippedTo(t, s, o) ==
    /\ \A i \in DOMAIN t : \E j \in 1 .. Len(s) : o < j /\ j <= o + MaxKeys /\ t[i] = s[j]
    /\ \A j \in 1 .. Len(s) : o < j /\ j <= o + MaxKeys => \E i \in DOMAIN t : t[i] = s[j]

LEMMA SkipFacts ==
    ASSUME NEW S, NEW s \in Seq(S), NEW o \in Nat
    PROVE  SkippedTo(Skip(s, o), s, o)
<1> DEFINE hi == IF Len(s) > o + MaxKeys THEN o + MaxKeys ELSE Len(s)
           t == SubSeq(s, o + 1, hi)
<1>1. MaxKeys \in Nat /\ Len(s) \in Nat
    BY ListingAssumption
<1>2. hi \in Nat /\ hi <= Len(s) /\ hi <= o + MaxKeys /\ (hi = Len(s) \/ hi = o + MaxKeys) /\ Skip(s, o) = t
    BY <1>1 DEF Skip
<1> HIDE DEF hi
<1>3. t = [i \in 1 .. (1 + hi - (o + 1)) |-> s[i + (o + 1) - 1]]
    BY <1>1, <1>2
<1>4. DOMAIN t = 1 .. (hi - o) /\ \A i \in 1 .. (hi - o) : t[i] = s[o + i]
    BY <1>2, <1>3
<1> HIDE DEF t
<1>5. ASSUME NEW i \in DOMAIN t
      PROVE  \E j \in 1 .. Len(s) : o < j /\ j <= o + MaxKeys /\ t[i] = s[j]
    <2>1. i \in 1 .. (hi - o) /\ t[i] = s[o + i]
        BY <1>4
    <2>2. o + i \in 1 .. Len(s) /\ o < o + i /\ o + i <= o + MaxKeys
        BY <2>1, <1>1, <1>2
    <2> QED
        BY <2>1, <2>2
<1>6. ASSUME NEW j \in 1 .. Len(s), o < j, j <= o + MaxKeys
      PROVE  \E i \in DOMAIN t : t[i] = s[j]
    <2>1. j - o \in 1 .. (hi - o) /\ o + (j - o) = j
        BY <1>1, <1>2, <1>6
    <2>2. t[j - o] = s[o + (j - o)]
        BY <1>4, <2>1
    <2> QED
        BY <2>1, <2>2, <1>4
<1> QED
    BY <1>2, <1>5, <1>6 DEF SkippedTo

LEMMA OffsetPage ==
    ASSUME TablesOK, ByOffset, TokenOK(walk.token),
           NEW o, o = Given(walk.token, 0),
           NEW s \in Seq(ids), Len(s) = Cardinality(ids), \A n \in ids : \E i \in 1 .. Len(s) : s[i] = n,
           NEW rk \in [PartNumbers -> Nat], \A i \in 1 .. Len(s) : rk[s[i]] = i - 1,
           \A n \in PartNumbers : \A t : Passed(t, << <<>>, n>>) <=> rk[n] < t,
           NEW answer, answer.items = Skip(s, o), answer.prefixes = {},
           answer.marker = o + MaxKeys \/ (answer.marker = None /\ Len(s) <= o + MaxKeys),
           answer.truncated = FALSE => answer.marker = None
    PROVE  ItemsOK(answer) /\ Onward(answer)
<1> DEFINE m == answer.marker
           t == walk.token
<1>0. MaxKeys \in Nat \ {0} /\ None \notin Nat /\ PartNumbers \subseteq Nat \ {0} /\ ids \subseteq PartNumbers
    BY ListingAssumption DEF TablesOK
<1>1. o \in Nat /\ (t # None => o = t) /\ (t = None => o = 0)
    BY DEF TokenOK, Given
<1>2. m # None => m = o + MaxKeys /\ m \in Nat
    BY <1>0, <1>1
<1>3. m = None => Len(s) <= o + MaxKeys
    BY <1>0, <1>1
<1>4. Present = {Name(n) : n \in ids} /\ \A n : Name(n) = << <<>>, n>>
    BY PresentIds
<1>5. \A i \in 1 .. Len(s) : s[i] \in ids /\ rk[s[i]] = i - 1
    OBVIOUS
<1>6. Len(s) \in Nat
    OBVIOUS
<1>7. /\ \A i \in DOMAIN answer.items :
            \E j \in 1 .. Len(s) : o < j /\ j <= o + MaxKeys /\ answer.items[i] = s[j]
      /\ \A j \in 1 .. Len(s) :
            o < j /\ j <= o + MaxKeys => \E i \in DOMAIN answer.items : answer.items[i] = s[j]
    <2>1. SkippedTo(answer.items, s, o)
        BY <1>1, SkipFacts
    <2> QED
        BY <2>1 DEF SkippedTo
<1>8. \A n \in PartNumbers : OnPage(answer, Name(n)) <=> (t # None => ~(rk[n] < t)) /\ (m # None => rk[n] < m)
    BY <1>4, Zenon DEF OnPage
<1> HIDE DEF m, t
<1>9. \A n \in PartNumbers : OnPage(answer, Name(n)) <=> o <= rk[n] /\ (m # None => rk[n] < o + MaxKeys)
    <2> TAKE n \in PartNumbers
    <2>1. rk[n] \in Nat
        OBVIOUS
    <2>2. (t # None => ~(rk[n] < t)) <=> o <= rk[n]
        BY <2>1, <1>1
    <2> QED
        BY <2>2, <1>2, <1>8
<1>10. ItemsOK(answer)
    <2>1. \A i \in DOMAIN answer.items : Name(answer.items[i]) \in Present
        BY <1>4, <1>5, <1>7
    <2>2. TokenOK(m)
        BY <1>2 DEF TokenOK, OfObjects, ByOffset
    <2> QED
        BY <2>1, <2>2 DEF ItemsOK, m, ByOffset
<1>11. ASSUME NEW i \in DOMAIN answer.items
       PROVE  OnPage(answer, Name(answer.items[i]))
    <2>1. PICK j \in 1 .. Len(s) : o < j /\ j <= o + MaxKeys /\ answer.items[i] = s[j]
        BY <1>7
    <2>2. s[j] \in PartNumbers /\ rk[s[j]] = j - 1
        BY <1>0, <1>5
    <2>3. o <= j - 1 /\ j - 1 < o + MaxKeys
        BY <2>1, <1>0, <1>1
    <2> QED
        BY <2>1, <2>2, <2>3, <1>9
<1>12. ASSUME NEW x \in Present, OnPage(answer, x)
       PROVE  \E i \in DOMAIN answer.items : x = Name(answer.items[i])
    <2>1. PICK n \in ids : x = Name(n)
        BY <1>4
    <2>2. PICK j \in 1 .. Len(s) : s[j] = n
        OBVIOUS
    <2>3. rk[n] = j - 1 /\ n \in PartNumbers
        BY <2>2, <1>0, <1>5
    <2>4. o <= j - 1 /\ (m # None => j - 1 < o + MaxKeys)
        BY <2>1, <2>3, <1>9, <1>12
    <2>5. o < j /\ j <= o + MaxKeys
        <3>1. j \in Nat /\ j <= Len(s) /\ o + MaxKeys \in Nat
            BY <1>0, <1>1, <1>6
        <3>2. CASE m = None
            BY <3>1, <3>2, <2>4, <1>1, <1>3, <1>6
        <3>3. CASE m # None
            BY <3>1, <3>3, <2>4, <1>1
        <3> QED
            BY <3>2, <3>3
    <2> QED
        BY <2>1, <2>2, <2>5, <1>7
<1>13. ASSUME t # None, m # None
       PROVE  After(t, m) /\ \A x \in Nameable : Passed(t, x) => Passed(m, x)
    <2>1. t \in Nat /\ m \in Nat /\ t < m
        BY <1>0, <1>1, <1>2, <1>13
    <2>2. After(t, m)
        BY <2>1 DEF After, OfObjects, ByOffset
    <2>3. \A n \in PartNumbers : rk[n] < t => rk[n] < m
        BY <2>1
    <2>4. \A x \in Nameable : \E n \in PartNumbers : x = << <<>>, n>>
        BY DEF Nameable
    <2>5. \A x \in Nameable : Passed(t, x) => Passed(m, x)
        BY <2>3, <2>4, Zenon
    <2> QED
        BY <2>2, <2>5
<1>14. Onward(answer)
    BY <1>11, <1>12, <1>13, Zenon DEF Onward, t, m
<1> QED
    BY <1>10, <1>14

(* What is before a number in a table, or after it.                          *)
LEMMA IdsCounted ==
    ASSUME TablesOK
    PROVE  /\ IsFiniteSet(ids) /\ ids \in SUBSET Nat
           /\ \A n : Cardinality({m \in ids : m < n}) \in Nat /\ Cardinality({m \in ids : m > n}) \in Nat
<1>1. IsFiniteSet(ids)
    <2>1. ids \in SUBSET PartNumbers
        BY DEF TablesOK
    <2> QED
        BY <2>1, ListingAssumption, FS_Subset
<1>2. ids \in SUBSET Nat
    BY ListingAssumption DEF TablesOK
<1>3. ASSUME NEW n
      PROVE  Cardinality({m \in ids : m < n}) \in Nat /\ Cardinality({m \in ids : m > n}) \in Nat
    <2> DEFINE A == {m \in ids : m < n}
               B == {m \in ids : m > n}
    <2>1. A \in SUBSET ids /\ B \in SUBSET ids
        OBVIOUS
    <2> HIDE DEF A, B
    <2>2. Cardinality(A) \in Nat /\ Cardinality(B) \in Nat
        BY <2>1, <1>1, FS_Subset, FS_CardinalityType
    <2> QED
        BY <2>2 DEF A, B
<1> QED
    BY <1>1, <1>2, <1>3

LEMMA NamesPage ==
    ASSUME TablesOK, walk.kind = "names", TokenOK(walk.token)
    PROVE  ItemsOK(Paginated(Given(walk.token, 0))) /\ Onward(Paginated(Given(walk.token, 0)))
<1> DEFINE o == Given(walk.token, 0)
           s == Ascending(ids)
           rk == [n \in PartNumbers |-> Cardinality({m \in ids : m < n})]
           answer == Paginated(o)
<1>1. IsFiniteSet(ids) /\ Orders(Rising(ids), ids)
    BY IdsCounted, RisingOrders
<1>2. Lists(s, ids, Rising(ids)) /\ \A i \in 1 .. Cardinality(ids) : Cardinality({m \in ids : m < s[i]}) = i - 1
    BY <1>1, NumbersRising
<1>3. rk \in [PartNumbers -> Nat] /\ \A n \in PartNumbers : rk[n] = Cardinality({m \in ids : m < n})
    BY IdsCounted
<1>4. \A n \in PartNumbers : \A t : Passed(t, << <<>>, n>>) <=> rk[n] < t
    <2>1. \A t, x : Passed(t, x) <=> Cardinality({m \in ids : m < x[2]}) < t
        BY DEF Passed, OfObjects
    <2>2. \A n : << <<>>, n>>[2] = n
        OBVIOUS
    <2> HIDE DEF rk
    <2> QED
        BY <2>1, <2>2, <1>3, Zenon
<1>5. /\ answer.items = Skip(s, o) /\ answer.prefixes = {} /\ answer.truncated = (o + MaxKeys < Cardinality(ids))
      /\ answer.marker = IF o + MaxKeys < Cardinality(ids) THEN o + MaxKeys ELSE None
    BY DEF Paginated, Response
<1> HIDE DEF s, rk, answer
<1>6. s \in Seq(ids) /\ Len(s) = Cardinality(ids) /\ Len(s) \in Nat /\ \A n \in ids : \E i \in 1 .. Len(s) : s[i] = n
    BY <1>2 DEF Lists
<1>7. \A i \in 1 .. Len(s) : rk[s[i]] = i - 1
    <2> TAKE i \in 1 .. Len(s)
    <2>1. s[i] \in PartNumbers /\ i \in 1 .. Cardinality(ids)
        BY <1>6 DEF TablesOK
    <2>2. rk[s[i]] = Cardinality({m \in ids : m < s[i]})
        BY <2>1, <1>3, Zenon
    <2> QED
        BY <2>1, <2>2, <1>2
<1>8. o \in Nat /\ MaxKeys \in Nat
    BY ListingAssumption, IdsCounted DEF TokenOK, ByOffset, Given
<1>9. ByOffset /\ o = Given(walk.token, 0) /\ o + MaxKeys \in Nat
    BY <1>8 DEF ByOffset
<1> HIDE DEF o
<1>10. /\ answer.marker = o + MaxKeys \/ (answer.marker = None /\ Len(s) <= o + MaxKeys)
       /\ answer.truncated = FALSE => answer.marker = None
    <2>1. CASE o + MaxKeys < Len(s)
        <3>1. answer.marker = o + MaxKeys /\ answer.truncated = TRUE
            BY <2>1, <1>5, <1>6
        <3> QED
            BY <3>1
    <2>2. CASE ~(o + MaxKeys < Len(s))
        <3>1. Len(s) <= o + MaxKeys
            BY <2>2, <1>6, <1>9
        <3>2. answer.marker = None
            BY <2>2, <1>5, <1>6
        <3> QED
            BY <3>1, <3>2
    <2> QED
        BY <2>1, <2>2
<1>11. ItemsOK(answer) /\ Onward(answer)
    BY <1>3, <1>4, <1>5, <1>6, <1>7, <1>9, <1>10, OffsetPage
<1> QED
    BY <1>11 DEF answer, o

LEMMA LogPage ==
    ASSUME TablesOK, walk.kind \in {"audit", "deliveries"}, TokenOK(walk.token)
    PROVE  ItemsOK(QueryLog(Given(walk.token, 0))) /\ Onward(QueryLog(Given(walk.token, 0)))
<1> DEFINE o == Given(walk.token, 0)
           s == Descending(ids)
           rk == [n \in PartNumbers |-> Cardinality({m \in ids : m > n})]
           answer == QueryLog(o)
<1>1. IsFiniteSet(ids) /\ Orders(Falling(ids), ids)
    BY IdsCounted, FallingOrders
<1>2. Lists(s, ids, Falling(ids)) /\ \A i \in 1 .. Cardinality(ids) : Cardinality({m \in ids : m > s[i]}) = i - 1
    BY <1>1, NumbersFalling
<1>3. rk \in [PartNumbers -> Nat] /\ \A n \in PartNumbers : rk[n] = Cardinality({m \in ids : m > n})
    BY IdsCounted
<1>4. \A n \in PartNumbers : \A t : Passed(t, << <<>>, n>>) <=> rk[n] < t
    <2>1. \A t, x : Passed(t, x) <=> Cardinality({m \in ids : m > x[2]}) < t
        BY DEF Passed, OfObjects
    <2>2. \A n : << <<>>, n>>[2] = n
        OBVIOUS
    <2> HIDE DEF rk
    <2> QED
        BY <2>1, <2>2, <1>3, Zenon
<1>5. /\ answer.items = Skip(s, o) /\ answer.prefixes = {} /\ answer.truncated = (o + MaxKeys <= Cardinality(ids))
      /\ answer.marker = IF o + MaxKeys <= Cardinality(ids) THEN o + MaxKeys ELSE None
    BY DEF QueryLog, Response
<1> HIDE DEF s, rk, answer
<1>6. s \in Seq(ids) /\ Len(s) = Cardinality(ids) /\ Len(s) \in Nat /\ \A n \in ids : \E i \in 1 .. Len(s) : s[i] = n
    BY <1>2 DEF Lists
<1>7. \A i \in 1 .. Len(s) : rk[s[i]] = i - 1
    <2> TAKE i \in 1 .. Len(s)
    <2>1. s[i] \in PartNumbers /\ i \in 1 .. Cardinality(ids)
        BY <1>6 DEF TablesOK
    <2>2. rk[s[i]] = Cardinality({m \in ids : m > s[i]})
        BY <2>1, <1>3, Zenon
    <2> QED
        BY <2>1, <2>2, <1>2
<1>8. o \in Nat /\ MaxKeys \in Nat
    BY ListingAssumption, IdsCounted DEF TokenOK, ByOffset, Given
<1>9. ByOffset /\ o = Given(walk.token, 0) /\ o + MaxKeys \in Nat
    BY <1>8 DEF ByOffset
<1> HIDE DEF o
<1>10. /\ answer.marker = o + MaxKeys \/ (answer.marker = None /\ Len(s) <= o + MaxKeys)
       /\ answer.truncated = FALSE => answer.marker = None
    <2>1. CASE o + MaxKeys <= Len(s)
        <3>1. answer.marker = o + MaxKeys /\ answer.truncated = TRUE
            BY <2>1, <1>5, <1>6
        <3> QED
            BY <3>1
    <2>2. CASE ~(o + MaxKeys <= Len(s))
        <3>1. Len(s) <= o + MaxKeys
            BY <2>2, <1>6, <1>9
        <3>2. answer.marker = None
            BY <2>2, <1>5, <1>6
        <3> QED
            BY <3>1, <3>2
    <2> QED
        BY <2>1, <2>2
<1>11. ItemsOK(answer) /\ Onward(answer)
    BY <1>3, <1>4, <1>5, <1>6, <1>7, <1>9, <1>10, OffsetPage
<1> QED
    BY <1>11 DEF answer, o

-----------------------------------------------------------------------------
(* LIKE finds the keys with the prefix, if there is no "%" in it.            *)

PatternStep(prefix, f, n) ==
    IF n = 0 THEN <<>>
    ELSE f[n - 1] \o (CASE prefix[n] = "%" -> <<"\\", "*">>
                        [] prefix[n] = "_" -> <<"?">>
                        [] OTHER -> <<Fold[prefix[n]]>>)

IsPattern(prefix, f) == f = [n \in 0 .. Len(prefix) |-> PatternStep(prefix, f, n)]

ThePattern(prefix) == CHOOSE f : IsPattern(prefix, f)

LEMMA LikePatternReads ==
    ASSUME NEW prefix
    PROVE  LikePattern(prefix) = ThePattern(prefix)[Len(prefix)] \o <<"*">>
BY DEF LikePattern, ThePattern, IsPattern, PatternStep

(* The token that stands for a character.                                    *)
Token(c) == IF c = "_" THEN "?" ELSE Fold[c]
Tokens(prefix, n) == [i \in 1 .. n |-> Token(prefix[i])]

LEMMA TokensGrow ==
    ASSUME NEW prefix, NEW n \in Nat \ {0}
    PROVE  Tokens(prefix, n) = Tokens(prefix, n - 1) \o <<Token(prefix[n])>>
<1> DEFINE T == {Token(prefix[i]) : i \in 1 .. n}
           a == Tokens(prefix, n)
           b == Tokens(prefix, n - 1)
           c == <<Token(prefix[n])>>
<1>0. n - 1 \in Nat
    OBVIOUS
<1>1. a \in Seq(T) /\ Len(a) = n /\ \A i \in 1 .. n : a[i] = Token(prefix[i])
    BY DEF Tokens
<1>2. b \in Seq(T) /\ Len(b) = n - 1 /\ \A i \in 1 .. n - 1 : b[i] = Token(prefix[i])
    BY <1>0 DEF Tokens
<1>3. c \in Seq(T) /\ Len(c) = 1 /\ c[1] = Token(prefix[n])
    OBVIOUS
<1> HIDE DEF T, a, b, c
<1>4. b \o c \in Seq(T) /\ Len(b \o c) = n /\ \A i \in 1 .. n : (b \o c)[i] = IF i <= n - 1 THEN b[i] ELSE c[i - (n - 1)]
    <2>1. /\ b \o c \in Seq(T) /\ Len(b \o c) = Len(b) + Len(c)
          /\ \A i \in 1 .. Len(b) + Len(c) : (b \o c)[i] = IF i <= Len(b) THEN b[i] ELSE c[i - Len(b)]
        BY <1>2, <1>3, ConcatProperties
    <2>2. Len(b) + Len(c) = n
        BY <1>0, <1>2, <1>3
    <2> QED
        BY <2>1, <2>2, <1>2
<1>5. \A i \in 1 .. n : (b \o c)[i] = a[i]
    <2> TAKE i \in 1 .. n
    <2>1. CASE i <= n - 1
        BY <2>1, <1>1, <1>2, <1>4
    <2>2. CASE ~(i <= n - 1)
        <3>1. i = n /\ i - (n - 1) = 1
            BY <2>2
        <3> QED
            BY <3>1, <2>2, <1>1, <1>3, <1>4
    <2> QED
        BY <2>1, <2>2
<1> QED
    BY <1>1, <1>4, <1>5, SeqEqual DEF a, b, c

LEMMA PatternTokens ==
    ASSUME NEW prefix, Len(prefix) \in Nat, \A i \in 1 .. Len(prefix) : prefix[i] # "%"
    PROVE  LikePattern(prefix) = Tokens(prefix, Len(prefix)) \o <<"*">>
<1> DEFINE L == Len(prefix)
           w == [n \in 0 .. L |-> Tokens(prefix, n)]
           p == ThePattern(prefix)
<1>1. \A f : \A n \in 1 .. L : PatternStep(prefix, f, n) = f[n - 1] \o <<Token(prefix[n])>>
    <2> SUFFICES ASSUME NEW f, NEW n \in 1 .. L
                 PROVE  PatternStep(prefix, f, n) = f[n - 1] \o <<Token(prefix[n])>>
        OBVIOUS
    <2>1. prefix[n] # "%" /\ n # 0
        OBVIOUS
    <2>2. (CASE prefix[n] = "%" -> <<"\\", "*">>
             [] prefix[n] = "_" -> <<"?">>
             [] OTHER -> <<Fold[prefix[n]]>>) = <<Token(prefix[n])>>
        BY <2>1 DEF Token
    <2> QED
        BY <2>1, <2>2 DEF PatternStep
<1>2. \A f : PatternStep(prefix, f, 0) = <<>>
    BY DEF PatternStep
<1>3. Tokens(prefix, 0) = <<>>
    BY DEF Tokens
<1>4. IsPattern(prefix, w)
    <2>1. \A n \in 0 .. L : w[n] = PatternStep(prefix, w, n)
        <3> TAKE n \in 0 .. L
        <3>1. CASE n = 0
            BY <3>1, <1>2, <1>3
        <3>2. CASE n # 0
            <4>1. n \in 1 .. L /\ n - 1 \in 0 .. L /\ n \in Nat \ {0}
                BY <3>2
            <4>2. w[n] = Tokens(prefix, n) /\ w[n - 1] = Tokens(prefix, n - 1)
                BY <4>1
            <4>3. Tokens(prefix, n) = Tokens(prefix, n - 1) \o <<Token(prefix[n])>>
                BY <4>1, TokensGrow
            <4>4. PatternStep(prefix, w, n) = w[n - 1] \o <<Token(prefix[n])>>
                BY <4>1, <1>1
            <4> HIDE DEF w
            <4> QED
                BY <4>2, <4>3, <4>4
        <3> QED
            BY <3>1, <3>2
    <2>2. w = [n \in 0 .. L |-> w[n]]
        OBVIOUS
    <2> HIDE DEF w
    <2> QED
        BY <2>1, <2>2 DEF IsPattern
<1>5. IsPattern(prefix, p)
    BY <1>4, Zenon DEF ThePattern
<1> HIDE DEF w, p
<1>6. \A n \in 0 .. L : p[n] = PatternStep(prefix, p, n)
    BY <1>5 DEF IsPattern
<1> DEFINE S == {n \in Nat : n <= L => p[n] = Tokens(prefix, n)}
<1>7. 0 \in S
    BY <1>2, <1>3, <1>6
<1>8. \A n \in Nat : n \in S => n + 1 \in S
    <2> SUFFICES ASSUME NEW n \in Nat, n <= L => p[n] = Tokens(prefix, n), n + 1 <= L
                 PROVE  p[n + 1] = Tokens(prefix, n + 1)
        OBVIOUS
    <2> DEFINE m == n + 1
    <2>1. m \in 1 .. L /\ m \in 0 .. L /\ m - 1 = n /\ n <= L /\ m \in Nat \ {0}
        OBVIOUS
    <2> HIDE DEF m
    <2>2. p[m] = p[m - 1] \o <<Token(prefix[m])>>
        BY <2>1, <1>1, <1>6
    <2>3. Tokens(prefix, m) = Tokens(prefix, m - 1) \o <<Token(prefix[m])>>
        BY <2>1, TokensGrow
    <2>4. p[m] = Tokens(prefix, m)
        BY <2>1, <2>2, <2>3
    <2> QED
        BY <2>4 DEF m
<1> HIDE DEF S
<1>9. \A n \in Nat : n \in S
    BY <1>7, <1>8, SetInduction
<1>10. p[L] = Tokens(prefix, L)
    BY <1>9 DEF S
<1> QED
    BY <1>10, LikePatternReads DEF p

LEMMA PrefixedIsLike ==
    ASSUME NEW prefix \in Seq(DOMAIN Code), \A i \in 1 .. Len(prefix) : prefix[i] # "%",
           NEW key \in Keys, IsPrefix(prefix, key)
    PROVE  key \in Like(prefix)
<1> DEFINE L == Len(prefix)
           p == LikePattern(prefix)
           v == [i \in DOMAIN key |-> Fold[key[i]]]
           cut == [i \in 0 .. L + 1 |-> IF i <= L THEN i ELSE Len(key)]
<1>1. L \in Nat /\ Len(key) \in Nat /\ DOMAIN key = 1 .. Len(key)
    BY KeysAreStrings
<1>2. v \in Seq({Fold[key[i]] : i \in DOMAIN key}) /\ Len(v) = Len(key) /\ \A i \in 1 .. Len(key) : v[i] = Fold[key[i]]
    BY <1>1
<1>3. p = Tokens(prefix, L) \o <<"*">>
    BY <1>1, PatternTokens
<1>4. Len(p) = L + 1 /\ p[L + 1] = "*" /\ \A i \in 1 .. L : p[i] = Token(prefix[i])
    <2> DEFINE T == {Token(prefix[i]) : i \in 1 .. L} \cup {"*"}
               a == Tokens(prefix, L)
               b == <<"*">>
    <2>1. a \in Seq(T) /\ Len(a) = L /\ \A i \in 1 .. L : a[i] = Token(prefix[i])
        BY <1>1 DEF Tokens
    <2>2. b \in Seq(T) /\ Len(b) = 1 /\ b[1] = "*"
        OBVIOUS
    <2> HIDE DEF T, a, b
    <2>3. Len(a \o b) = L + 1 /\ \A i \in 1 .. L + 1 : (a \o b)[i] = IF i <= L THEN a[i] ELSE b[i - L]
        <3>1. /\ Len(a \o b) = Len(a) + Len(b)
              /\ \A i \in 1 .. Len(a) + Len(b) : (a \o b)[i] = IF i <= Len(a) THEN a[i] ELSE b[i - Len(a)]
            BY <2>1, <2>2, ConcatProperties
        <3>2. Len(a) + Len(b) = L + 1 /\ Len(a) = L
            BY <1>1, <2>1, <2>2
        <3> QED
            BY <3>1, <3>2
    <2>4. L + 1 \in 1 .. L + 1 /\ ~(L + 1 <= L) /\ (L + 1) - L = 1
        BY <1>1
    <2>5. (a \o b)[L + 1] = "*"
        BY <2>2, <2>3, <2>4
    <2>6. \A i \in 1 .. L : (a \o b)[i] = Token(prefix[i])
        BY <1>1, <2>1, <2>3
    <2> QED
        BY <1>3, <2>3, <2>5, <2>6 DEF a, b
<1>5. L <= Len(key) /\ \A i \in 1 .. L : prefix[i] = key[i]
    <2>1. L <= Len(key) /\ SubSeq(prefix, 1, L) = SubSeq(key, 1, L)
        BY DEF IsPrefix
    <2>2. key \in Seq(DOMAIN Code)
        BY ListingAssumption
    <2>3. \A i \in 1 .. L : SubSeq(prefix, 1, L)[i] = prefix[i] /\ SubSeq(key, 1, L)[i] = key[i]
        BY <1>1, <2>1, <2>2
    <2> QED
        BY <2>1, <2>3
<1>6. cut \in [0 .. L + 1 -> 0 .. Len(key)] /\ cut[0] = 0 /\ cut[L + 1] = Len(key)
      /\ \A i \in 1 .. L : cut[i] = i /\ cut[i - 1] = i - 1
    <2>1. \A i \in 0 .. L + 1 : (IF i <= L THEN i ELSE Len(key)) \in 0 .. Len(key)
        BY <1>1, <1>5
    <2>2. \A i \in 0 .. L + 1 : cut[i] = IF i <= L THEN i ELSE Len(key)
        OBVIOUS
    <2>3. cut \in [0 .. L + 1 -> 0 .. Len(key)]
        BY <2>1
    <2> HIDE DEF cut
    <2>4. 0 \in 0 .. L + 1 /\ 0 <= L /\ L + 1 \in 0 .. L + 1 /\ ~(L + 1 <= L)
        BY <1>1
    <2>5. \A i \in 1 .. L : i \in 0 .. L + 1 /\ i <= L /\ i - 1 \in 0 .. L + 1 /\ i - 1 <= L
        BY <1>1
    <2> QED
        BY <2>2, <2>3, <2>4, <2>5
<1>7. cut[L] = L
    BY <1>1
<1> HIDE DEF p, v, cut
<1>8. \A i \in 1 .. L + 1 :
        /\ cut[i - 1] <= cut[i]
        /\ p[i] # "*" => cut[i] = cut[i - 1] + 1 /\ p[i] \in {"?", v[cut[i]]}
    <2> TAKE i \in 1 .. L + 1
    <2>1. CASE i = L + 1
        <3>1. cut[i - 1] = L /\ cut[i] = Len(key) /\ p[i] = "*"
            BY <2>1, <1>1, <1>4, <1>6, <1>7
        <3> QED
            BY <3>1, <1>5
    <2>2. CASE i # L + 1
        <3>1. i \in 1 .. L /\ i \in 1 .. Len(key)
            BY <2>2, <1>1, <1>5
        <3>2. cut[i] = i /\ cut[i - 1] = i - 1 /\ cut[i - 1] <= cut[i] /\ cut[i] = cut[i - 1] + 1
            BY <3>1, <1>1, <1>6
        <3>3. p[i] = Token(prefix[i]) /\ v[i] = Fold[key[i]] /\ prefix[i] = key[i]
            BY <3>1, <1>2, <1>4, <1>5
        <3>4. p[i] \in {"?", v[cut[i]]}
            BY <3>2, <3>3 DEF Token
        <3> QED
            BY <3>2, <3>4
    <2> QED
        BY <2>1, <2>2
<1>9. Denotes(p, v)
    BY <1>2, <1>4, <1>6, <1>8 DEF Denotes
<1>10. MatchesWildcard(p, v)
    BY <1>1, <1>2, <1>4, <1>9, MatcherIsExact
<1> QED
    BY <1>10 DEF Like, p, v

LEMMA PlainMatches ==
    PlainPrefix => PrefixedMatch
<1> SUFFICES ASSUME PlainPrefix, NEW k \in Keys, HasPrefix(k)
             PROVE  k \in Matching
    BY DEF PrefixedMatch
<1>1. CASE walk.kind = "rb"
    <2>1. <<>> \in Seq(DOMAIN Code) /\ \A i \in 1 .. Len(<<>>) : <<>>[i] # "%"
        OBVIOUS
    <2>2. IsPrefix(<<>>, k)
        BY <1>1 DEF HasPrefix, AskedPrefix
    <2>3. k \in Like(<<>>)
        BY <2>1, <2>2, PrefixedIsLike
    <2> QED
        BY <2>3, <1>1 DEF Matching, LikeNone
<1>2. CASE walk.kind # "rb"
    <2>1. Prefix \in Seq(DOMAIN Code)
        BY ListingAssumption
    <2>2. \A i \in 1 .. Len(Prefix) : Prefix[i] # "%"
        BY <2>1 DEF PlainPrefix
    <2>3. IsPrefix(Prefix, k)
        BY <1>2 DEF HasPrefix, AskedPrefix
    <2>4. k \in Like(Prefix)
        BY <2>1, <2>2, <2>3, PrefixedIsLike
    <2> QED
        BY <2>4, <1>2 DEF Matching, LikePrefix
<1> QED
    BY <1>1, <1>2

(* rb asks for everything: an empty page means an empty bucket.              *)
LEMMA EmptyForRb ==
    ASSUME RowsOK, walk.kind = "rb", NEW answer, answer = ListObjects(None), answer.items = <<>>
    PROVE  Present = {}
<1> DEFINE P == {r \in ObjectsAfter(None) : CommonPrefix(r.key) = None}
           plain == Plain(ObjectsAfter(None))
           last == plain[MaxKeys]
<1>1. answer.items = Take(plain, MaxKeys)
    BY DEF ListObjects, ObjectsPage, Response
<1>2. P = Objects
    <2>1. \A r \in Objects : r.key \in Matching
        <3>1. <<>> \in Seq(DOMAIN Code) /\ \A i \in 1 .. Len(<<>>) : <<>>[i] # "%"
            OBVIOUS
        <3>2. \A k \in Keys : IsPrefix(<<>>, k)
            <4> TAKE k \in Keys
            <4>1. k \in Seq(DOMAIN Code)
                BY ListingAssumption
            <4> QED
                BY <4>1 DEF IsPrefix
        <3>3. \A k \in Keys : k \in Like(<<>>)
            BY <3>1, <3>2, PrefixedIsLike
        <3>4. \A r \in Objects : r.key \in Keys
            BY DEF Objects, RowsOK, RowRecords
        <3> QED
            BY <3>3, <3>4 DEF Matching, LikeNone
    <2>2. \A r \in Objects : CommonPrefix(r.key) = None
        BY DEF CommonPrefix, Removes
    <2> QED
        BY <2>1, <2>2 DEF ObjectsAfter
<1>3. Lists(plain, P, VersionOrder(P)) /\ \A r, s \in P : <<r, s>> \in VersionOrder(P) <=> Less(r.key, s.key)
    BY ObjectsListed
<1>4. \A r \in Objects : r.key \in Keys
    BY DEF Objects, RowsOK, RowRecords
<1> HIDE DEF P, plain
<1>5. MaxKeys \in Nat \ {0} /\ DOMAIN answer.items = {}
    BY ListingAssumption
<1>6. Len(plain) \in Nat
    BY <1>3 DEF Lists
<1>7. P = {}
    <2>1. CASE Len(plain) <= MaxKeys
        BY <2>1, <1>1, <1>3, <1>5, PageOfList
    <2>2. CASE Len(plain) > MaxKeys
        <3>1. last \in P /\ (<<last, last>> \notin VersionOrder(P) => \E i \in DOMAIN answer.items : answer.items[i] = last)
            BY <2>2, <1>1, <1>3, <1>5, PageOfList
        <3>2. <<last, last>> \notin VersionOrder(P)
            BY <3>1, <1>2, <1>3, <1>4, LessFacts
        <3> QED
            BY <3>1, <3>2, <1>5
    <2> QED
        BY <2>1, <2>2, <1>5, <1>6
<1> QED
    BY <1>2, <1>7, PresentObjects DEF OfObjects

LEMMA KindsOfWalks ==
    ASSUME WalkOK
    PROVE  \/ OfObjects \/ walk.kind \in {"versions", "parts", "uploads", "names", "audit", "deliveries"}
BY ListingAssumption DEF WalkOK, OfObjects

(* Whatever page a client gets, it is right.                                 *)
LEMMA AnswersItemsOK ==
    ASSUME RowsOK, TablesOK, WalkOK, NEW answer \in Answers
    PROVE  ItemsOK(answer)
<1>0. TokenOK(walk.token)
    BY DEF WalkOK
<1>1. CASE OfObjects
    <2>1. \E a : answer = ListObjects(a)
        BY <1>1 DEF Answers, OfObjects, Removes, S3ListObjects, S3ListObjectsV2, AdminListObjects
    <2> QED
        BY <2>1, <1>1, ObjectsItemsOK
<1>2. CASE walk.kind = "versions"
    <2>1. answer = ListObjectVersions(walk.token)
        BY <1>2 DEF Answers, Removes, S3ListObjectVersions
    <2> QED
        BY <2>1, <1>2, VersionsItemsOK
<1>3. CASE walk.kind = "parts"
    <2>1. answer = ListParts(walk.token)
        BY <1>3 DEF Answers, Removes, S3ListParts
    <2> QED
        BY <2>1, <1>0, <1>3, PartsPage
<1>4. CASE walk.kind = "uploads"
    <2>1. answer = ListMultipartUploads
        BY <1>4 DEF Answers, Removes, S3ListMultipartUploads
    <2>2. walk.token = None
        BY <1>0, <1>4 DEF TokenOK
    <2> QED
        BY <2>1, <2>2, <1>4, UploadsPage, PlainMatches
<1>5. CASE walk.kind = "names"
    <2>1. answer = Paginated(Given(walk.token, 0))
        BY <1>5 DEF Answers, Removes, AdminListUsers, AdminListAccessKeys, AdminListUserPolicies,
            AdminListGroups, AdminListGroupPolicies, AdminListUserGroups, AdminListManagedPolicies
    <2> QED
        BY <2>1, <1>0, <1>5, NamesPage
<1>6. CASE walk.kind \in {"audit", "deliveries"}
    <2>1. answer = QueryLog(Given(walk.token, 0))
        BY <1>6 DEF Answers, Removes, AdminQueryAuditLog, AdminQueryNotificationDeliveries
    <2> QED
        BY <2>1, <1>0, <1>6, LogPage
<1> QED
    BY <1>1, <1>2, <1>3, <1>4, <1>5, <1>6, KindsOfWalks

(* And, unless start_after hides the marker or a delete has interfered, it   *)
(* goes on after the page before.                                            *)
LEMMA AnswersOnward ==
    ASSUME RowsOK, TablesOK, WalkOK, HistoryOK, walk.pc = "page", walk.start = None,
           walk.kind = "versions" => calm, NEW answer \in Answers
    PROVE  /\ Onward(answer)
           /\ walk.kind = "objects" => FoldersOK(answer)
           /\ walk.kind = "rb" /\ answer.items = <<>> => Present = {}
<1>0. TokenOK(walk.token)
    BY DEF WalkOK
<1>1. CASE OfObjects
    <2>1. answer = ListObjects(walk.token)
        BY <1>1 DEF Answers, OfObjects, Removes, S3ListObjects, S3ListObjectsV2, AdminListObjects, Given
    <2>2. Onward(answer) /\ FoldersOK(answer)
        BY <2>1, <1>0, <1>1, ObjectsOnward, PlainMatches
    <2>3. walk.kind = "rb" /\ answer.items = <<>> => Present = {}
        <3>1. walk.kind = "rb" => walk.token = None
            BY DEF WalkOK
        <3> QED
            BY <3>1, <2>1, EmptyForRb
    <2> QED
        BY <2>2, <2>3
<1>2. CASE walk.kind = "versions"
    <2>1. answer = ListObjectVersions(walk.token)
        BY <1>2 DEF Answers, Removes, S3ListObjectVersions
    <2>2. (\A r \in rows : ~r.marker) /\ (walk.token # None => \E r \in rows : r.vid = walk.token.vid)
        BY <1>2 DEF HistoryOK
    <2>3. Onward(answer)
        BY <2>1, <2>2, <1>0, <1>2, VersionsOnward, PlainMatches
    <2> QED
        BY <2>3, <1>2
<1>3. CASE walk.kind = "parts"
    <2>1. answer = ListParts(walk.token)
        BY <1>3 DEF Answers, Removes, S3ListParts
    <2> QED
        BY <2>1, <1>0, <1>3, PartsPage
<1>4. CASE walk.kind = "uploads"
    <2>1. answer = ListMultipartUploads
        BY <1>4 DEF Answers, Removes, S3ListMultipartUploads
    <2>2. walk.token = None
        BY <1>0, <1>4 DEF TokenOK
    <2> QED
        BY <2>1, <2>2, <1>4, UploadsPage, PlainMatches
<1>5. CASE walk.kind = "names"
    <2>1. answer = Paginated(Given(walk.token, 0))
        BY <1>5 DEF Answers, Removes, AdminListUsers, AdminListAccessKeys, AdminListUserPolicies,
            AdminListGroups, AdminListGroupPolicies, AdminListUserGroups, AdminListManagedPolicies
    <2> QED
        BY <2>1, <1>0, <1>5, NamesPage
<1>6. CASE walk.kind \in {"audit", "deliveries"}
    <2>1. answer = QueryLog(Given(walk.token, 0))
        BY <1>6 DEF Answers, Removes, AdminQueryAuditLog, AdminQueryNotificationDeliveries
    <2> QED
        BY <2>1, <1>0, <1>6, LogPage
<1> QED
    BY <1>1, <1>2, <1>3, <1>4, <1>5, <1>6, KindsOfWalks

(* What there is has a name of its kind.                                     *)
LEMMA PresentIsNameable ==
    ASSUME RowsOK, TablesOK, WalkOK
    PROVE  Present \subseteq Nameable /\ Nameable \subseteq Listable
<1>0. Nameable \subseteq Listable
    BY DEF Nameable, Listable
<1>1. CASE OfObjects
    BY <1>0, <1>1, PresentObjects, ListingAssumption DEF Nameable, Objects, RowsOK, RowRecords, OfObjects, ByOffset
<1>2. CASE walk.kind = "versions"
    <2>1. \A r \in rows : r.key \in Keys /\ r.vid \in 0 .. MaxRows
        BY DEF RowsOK, RowRecords
    <2> QED
        BY <1>0, <1>2, <2>1, PresentVersions DEF Nameable, ByOffset
<1>3. CASE walk.kind = "parts"
    BY <1>0, <1>3, PresentParts DEF Nameable, TablesOK
<1>4. CASE walk.kind = "uploads"
    BY <1>0, <1>4, PresentUploads, ListingAssumption DEF Nameable, ByOffset, TablesOK
<1>5. CASE ByOffset
    BY <1>0, <1>5, PresentIds DEF Nameable, TablesOK
<1> QED
    BY <1>1, <1>2, <1>3, <1>4, <1>5, KindsOfWalks DEF ByOffset

-----------------------------------------------------------------------------
(* Rows and tables.                                                          *)

LEMMA WrittenRows ==
    ASSUME RowsOK, clock < MaxRows, NEW k \in Keys, NEW marker \in BOOLEAN,
           NEW new, new = [key |-> k, vid |-> clock + 1, marker |-> marker, latest |-> TRUE]
    PROVE  /\ \A q \in Written(k, marker) :
                \/ q = new
                \/ \E r \in rows : /\ q \in RowRecords /\ q.key = r.key /\ q.vid = r.vid /\ q.marker = r.marker
                                   /\ q.latest <=> r.latest /\ r.key # k
                                   /\ q = [r EXCEPT !.latest = @ /\ r.key # k]
           /\ versioned => \A r \in rows : \E q \in Written(k, marker) : q.vid = r.vid
           /\ new \in RowRecords
<1> DEFINE old == {x \in rows : versioned \/ x.key # k}
           N(r) == [r EXCEPT !.latest = @ /\ r.key # k]
<1>0. Written(k, marker) = {N(r) : r \in old} \cup {new}
    BY DEF Written
<1>1. \A r \in rows : N(r) \in RowRecords /\ N(r).key = r.key /\ N(r).vid = r.vid /\ N(r).marker = r.marker
                      /\ (N(r).latest <=> r.latest /\ r.key # k)
    <2> TAKE r \in rows
    <2>1. r \in RowRecords
        BY DEF RowsOK
    <2>2. r.latest \in BOOLEAN
        BY <2>1 DEF RowRecords
    <2>3. N(r) = [key |-> r.key, vid |-> r.vid, marker |-> r.marker, latest |-> r.latest /\ r.key # k]
        BY <2>1 DEF RowRecords
    <2> QED
        BY <2>1, <2>2, <2>3 DEF RowRecords
<1>2. new \in RowRecords
    BY ListingAssumption DEF RowRecords, RowsOK
<1> HIDE DEF N
<1>3. \A q \in Written(k, marker) : q = new \/ \E r \in rows : q = N(r)
    BY <1>0
<1>4. versioned => \A r \in rows : \E q \in Written(k, marker) : q.vid = r.vid
    <2> SUFFICES ASSUME versioned, NEW r \in rows PROVE \E q \in Written(k, marker) : q.vid = r.vid
        OBVIOUS
    <2>1. N(r) \in Written(k, marker)
        BY <1>0
    <2> QED
        BY <2>1, <1>1
<1>5. ASSUME NEW q \in Written(k, marker), q # new
      PROVE  \E r \in rows : /\ q \in RowRecords /\ q.key = r.key /\ q.vid = r.vid /\ q.marker = r.marker
                             /\ q.latest <=> r.latest /\ r.key # k
                             /\ q = [r EXCEPT !.latest = @ /\ r.key # k]
    <2>1. PICK r \in rows : q = N(r)
        BY <1>3, <1>5
    <2>2. /\ q \in RowRecords /\ q.key = r.key /\ q.vid = r.vid /\ q.marker = r.marker
          /\ q.latest <=> r.latest /\ r.key # k
        BY <2>1, <1>1
    <2>3. q = [r EXCEPT !.latest = @ /\ r.key # k]
        BY <2>1 DEF N
    <2> QED
        BY <2>2, <2>3
<1> QED
    BY <1>2, <1>4, <1>5, Zenon

LEMMA WriteVersionRows ==
    ASSUME RowsOK, clock < MaxRows, clock' = clock + 1, NEW k \in Keys, NEW marker \in BOOLEAN,
           rows' = Written(k, marker)
    PROVE  RowsOK'
<1> DEFINE new == [key |-> k, vid |-> clock + 1, marker |-> marker, latest |-> TRUE]
           Old(q, r) == /\ q \in RowRecords /\ q.key = r.key /\ q.vid = r.vid
                        /\ q.latest <=> r.latest /\ r.key # k
                        /\ q = [r EXCEPT !.latest = @ /\ r.key # k]
<1>0. new.key = k /\ new.vid = clock + 1 /\ new.latest
    OBVIOUS
<1>1. new \in RowRecords /\ \A q \in rows' : q = new \/ \E r \in rows : Old(q, r)
    <2>1. new = [key |-> k, vid |-> clock + 1, marker |-> marker, latest |-> TRUE]
        OBVIOUS
    <2> HIDE DEF new
    <2> QED
        BY <2>1, WrittenRows
<1>2. clock \in Nat /\ MaxRows \in Nat /\ clock + 1 <= MaxRows
    BY ListingAssumption DEF RowsOK
<1>3. \A r \in rows : r.vid \in Nat /\ r.vid <= clock /\ r.vid < clock + 1
    BY <1>2, VersionsFirstFacts DEF RowsOK
<1> HIDE DEF new
<1>4. \A q \in rows' : q \in RowRecords /\ q.vid <= clock + 1
    BY <1>0, <1>1, <1>2, <1>3
<1>5. ASSUME NEW p \in rows', NEW q \in rows', p.vid = q.vid PROVE p = q
    <2>1. CASE p = new /\ q = new
        BY <2>1
    <2>2. CASE p = new /\ q # new
        <3>1. PICK r \in rows : Old(q, r)
            BY <2>2, <1>1
        <3> QED
            BY <3>1, <2>2, <1>0, <1>2, <1>3, <1>5
    <2>3. CASE p # new /\ q = new
        <3>1. PICK r \in rows : Old(p, r)
            BY <2>3, <1>1
        <3> QED
            BY <3>1, <2>3, <1>0, <1>2, <1>3, <1>5
    <2>4. CASE p # new /\ q # new
        <3>1. PICK r \in rows : Old(p, r)
            BY <2>4, <1>1
        <3>2. PICK s \in rows : Old(q, s)
            BY <2>4, <1>1
        <3>3. r = s
            BY <3>1, <3>2, <1>5 DEF RowsOK
        <3> QED
            BY <3>1, <3>2, <3>3
    <2> QED
        BY <2>1, <2>2, <2>3, <2>4
<1>6. ASSUME NEW p \in rows', NEW q \in rows', p.latest, p.key = q.key PROVE q.vid <= p.vid
    <2>1. CASE p = new
        BY <2>1, <1>0, <1>4
    <2>2. CASE p # new
        <3>1. PICK r \in rows : Old(p, r)
            BY <2>2, <1>1
        <3>2. r.latest /\ r.key # k /\ q # new
            BY <3>1, <1>0, <1>6
        <3>3. PICK s \in rows : Old(q, s)
            BY <3>2, <1>1
        <3>4. s.vid <= r.vid
            BY <3>1, <3>2, <3>3, <1>6 DEF RowsOK
        <3> QED
            BY <3>1, <3>3, <3>4
    <2> QED
        BY <2>1, <2>2
<1> QED
    BY <1>2, <1>4, <1>5, <1>6 DEF RowsOK, RowRecords

LEMMA DeleteVersionRows ==
    ASSUME RowsOK, DeleteVersion
    PROVE  RowsOK'
<1>1. PICK r \in rows :
        LET left == rows \ {r}
            newest == {x \in left : x.key = r.key /\ \A y \in left : y.key = r.key => y.vid <= x.vid}
        IN  rows' = {[x EXCEPT !.latest = x \in newest \/ x.latest] : x \in left}
    BY DEF DeleteVersion
<1> DEFINE left == rows \ {r}
           newest == {x \in left : x.key = r.key /\ \A y \in left : y.key = r.key => y.vid <= x.vid}
           N(x) == [x EXCEPT !.latest = x \in newest \/ x.latest]
<1>2. rows' = {N(x) : x \in left}
    BY <1>1
<1>3. \A x \in rows : N(x) \in RowRecords /\ N(x).key = x.key /\ N(x).vid = x.vid
                      /\ (N(x).latest <=> x \in newest \/ x.latest)
    <2> TAKE x \in rows
    <2>1. x \in RowRecords
        BY DEF RowsOK
    <2>2. x.latest \in BOOLEAN
        BY <2>1 DEF RowRecords
    <2> HIDE DEF newest
    <2>3. N(x) = [key |-> x.key, vid |-> x.vid, marker |-> x.marker, latest |-> x \in newest \/ x.latest]
        BY <2>1 DEF RowRecords
    <2> QED
        BY <2>1, <2>2, <2>3 DEF RowRecords
<1>4. \A x, y \in left : (x \in newest \/ x.latest) /\ x.key = y.key => y.vid <= x.vid
    BY DEF RowsOK
<1>5. left \subseteq rows /\ clock' = clock
    BY DEF DeleteVersion
<1> HIDE DEF N, newest, left
<1>6. \A q \in rows' : \E x \in left : q = N(x)
    BY <1>2
<1>7. \A q \in rows' : q \in RowRecords /\ q.vid <= clock
    BY <1>3, <1>5, <1>6 DEF RowsOK
<1>8. \A p, q \in rows' : p.vid = q.vid => p = q
    BY <1>3, <1>5, <1>6 DEF RowsOK
<1>9. \A p, q \in rows' : p.latest /\ p.key = q.key => q.vid <= p.vid
    BY <1>3, <1>4, <1>5, <1>6
<1> QED
    BY <1>5, <1>7, <1>8, <1>9 DEF RowsOK, RowRecords

LEMMA RowsStay ==
    ASSUME RowsOK, [Next]_vars
    PROVE  RowsOK'
<1>0. ASSUME UNCHANGED <<rows, clock>> PROVE RowsOK'
    BY <1>0 DEF RowsOK, RowRecords
<1>1. CASE WriteVersion
    <2>1. PICK k \in Keys, marker \in BOOLEAN : rows' = Written(k, marker)
        BY <1>1 DEF WriteVersion
    <2> QED
        BY <2>1, <1>1, WriteVersionRows DEF WriteVersion
<1>2. CASE DeleteVersion
    BY <1>2, DeleteVersionRows
<1>3. CASE DeleteOfBatch
    <2>1. rows' \subseteq rows /\ clock' = clock
        BY <1>3 DEF DeleteOfBatch
    <2> QED
        BY <2>1 DEF RowsOK, RowRecords
<1>4. CASE StartWalk
    BY <1>0, <1>4 DEF StartWalk
<1>5. CASE NextPage
    BY <1>0, <1>5 DEF NextPage
<1>6. CASE Ls
    BY <1>0, <1>6 DEF Ls
<1>7. CASE RemovePage
    BY <1>0, <1>7 DEF RemovePage
<1>8. CASE BatchSent
    BY <1>0, <1>8 DEF BatchSent
<1>9. CASE EndWalk
    BY <1>0, <1>9 DEF EndWalk
<1>10. CASE UploadPart
    BY <1>0, <1>10 DEF UploadPart
<1>11. CASE BeginOrEndUpload
    BY <1>0, <1>11 DEF BeginOrEndUpload
<1>12. CASE CreateOrDeleteName
    BY <1>0, <1>12 DEF CreateOrDeleteName
<1>13. CASE AppendToLog
    BY <1>0, <1>13 DEF AppendToLog
<1>14. CASE UNCHANGED vars
    BY <1>0, <1>14 DEF vars
<1> QED
    BY <1>1, <1>2, <1>3, <1>4, <1>5, <1>6, <1>7, <1>8, <1>9, <1>10, <1>11, <1>12, <1>13, <1>14 DEF Next

(* A walk keeps its kind.                                                    *)
LEMMA KindStays ==
    ASSUME WalkOK, [Next]_vars
    PROVE  walk'.kind = walk.kind
<1>0. \A a : Received(a).kind = walk.kind
    BY DEF Received, WalkOK
<1>1. Fresh.kind = walk.kind
    BY DEF Fresh, WalkOK
<1>2. CASE StartWalk
    BY <1>2 DEF StartWalk, Fresh, WalkOK
<1>3. CASE NextPage
    BY <1>3 DEF NextPage, Received, WalkOK
<1>4. CASE Ls
    BY <1>1, <1>4 DEF Ls
<1>5. CASE RemovePage
    BY <1>5 DEF RemovePage, Received, WalkOK
<1>6. CASE BatchSent
    BY <1>6 DEF BatchSent, WalkOK
<1>7. CASE EndWalk
    BY <1>1, <1>7 DEF EndWalk
<1>8. CASE WriteVersion
    BY <1>8 DEF WriteVersion, KeepWatch
<1>9. CASE DeleteVersion
    BY <1>9 DEF DeleteVersion, KeepWatch
<1>10. CASE DeleteOfBatch
    BY <1>10 DEF DeleteOfBatch, WalkOK
<1>11. CASE UploadPart
    BY <1>11 DEF UploadPart, KeepWatch
<1>12. CASE BeginOrEndUpload
    BY <1>12 DEF BeginOrEndUpload, KeepWatch
<1>13. CASE CreateOrDeleteName
    BY <1>13 DEF CreateOrDeleteName, KeepWatch
<1>14. CASE AppendToLog
    BY <1>14 DEF AppendToLog, KeepWatch
<1>15. CASE UNCHANGED vars
    BY <1>15 DEF vars
<1> QED
    BY <1>2, <1>3, <1>4, <1>5, <1>6, <1>7, <1>8, <1>9, <1>10, <1>11, <1>12, <1>13, <1>14, <1>15 DEF Next

(* What depends on the kind only.                                            *)
LEMMA SameKind ==
    ASSUME walk'.kind = walk.kind
    PROVE  /\ OfObjects' = OfObjects /\ ByOffset' = ByOffset /\ Removes' = Removes
           /\ \A t : TokenOK(t)' <=> TokenOK(t)
           /\ Nameable' = Nameable
           /\ \A x : Name(x)' = Name(x)
           /\ \A x : Wanted(x)' <=> Wanted(x)
           /\ \A x : Rolled(x)' <=> Rolled(x)
           /\ \A x : CommonPrefix(x)' = CommonPrefix(x)
<1>1. OfObjects' = OfObjects /\ ByOffset' = ByOffset /\ Removes' = Removes
    BY DEF OfObjects, ByOffset, Removes
<1>2. \A t : TokenOK(t)' <=> TokenOK(t)
    BY <1>1 DEF TokenOK, RowRecords
<1>3. Nameable' = Nameable
    BY <1>1 DEF Nameable
<1>4. \A x : Name(x)' = Name(x)
    BY DEF Name, OfObjects
<1>5. AskedPrefix' = AskedPrefix
    BY DEF AskedPrefix
<1>6. \A x : CommonPrefix(x)' = CommonPrefix(x)
    BY <1>1 DEF CommonPrefix
<1>7. \A x : HasPrefix(x)' <=> HasPrefix(x)
    BY <1>5 DEF HasPrefix
<1>8. \A x : Rolled(x)' <=> Rolled(x)
    BY <1>6, <1>7 DEF Rolled
<1>9. \A x : Wanted(x)' <=> Wanted(x)
    BY <1>1, <1>6, <1>7 DEF Wanted
<1> QED
    BY <1>1, <1>2, <1>3, <1>4, <1>6, <1>8, <1>9

(* The tables of the admin API.                                              *)
LEMMA LoggedFacts ==
    ASSUME TablesOK
    PROVE  /\ ids \subseteq Logged /\ Logged \subseteq PartNumbers
           /\ walk.kind \in {"audit", "deliveries"} => Logged = 1 .. Cardinality(Logged)
<1>1. ids \subseteq Logged /\ Logged \subseteq PartNumbers
    BY DEF Logged, TablesOK
<1>2. ASSUME walk.kind \in {"audit", "deliveries"} PROVE Logged = 1 .. Cardinality(Logged)
    <2> DEFINE c == Cardinality(ids)
    <2>1. c \in Nat
        BY IdsCounted, FS_CardinalityType
    <2>2. ids = 1 .. c
        BY <1>2 DEF TablesOK
    <2>3. Logged = IF c + 1 \in PartNumbers THEN ids \cup {c + 1} ELSE ids
        BY DEF Logged
    <2> HIDE DEF c
    <2>4. CASE c + 1 \in PartNumbers
        <3>1. Logged = 1 .. c + 1
            BY <2>1, <2>2, <2>3, <2>4
        <3>2. Cardinality(1 .. c + 1) = c + 1
            BY <2>1, FS_Interval
        <3> QED
            BY <3>1, <3>2
    <2>5. CASE c + 1 \notin PartNumbers
        BY <2>1, <2>2, <2>3, <2>5 DEF c
    <2> QED
        BY <2>4, <2>5
<1> QED
    BY <1>1, <1>2

LEMMA TablesStay ==
    ASSUME TablesOK, WalkOK, [Next]_vars
    PROVE  TablesOK'
<1>0. walk'.kind = walk.kind
    BY KindStays
<1>1. ASSUME UNCHANGED <<parts, uploads, ids>> PROVE TablesOK'
    BY <1>0, <1>1 DEF TablesOK
<1>2. CASE StartWalk
    BY <1>1, <1>2 DEF StartWalk
<1>3. CASE NextPage
    <2>1. ids' = ids \/ ids' = Logged
        BY <1>3 DEF NextPage
    <2>2. UNCHANGED <<parts, uploads>>
        BY <1>3 DEF NextPage
    <2> QED
        BY <2>1, <2>2, <1>0, <1>1, LoggedFacts DEF TablesOK
<1>4. CASE Ls
    BY <1>1, <1>4 DEF Ls
<1>5. CASE RemovePage
    BY <1>1, <1>5 DEF RemovePage
<1>6. CASE BatchSent
    BY <1>1, <1>6 DEF BatchSent
<1>7. CASE EndWalk
    BY <1>1, <1>7 DEF EndWalk
<1>8. CASE WriteVersion
    BY <1>1, <1>8 DEF WriteVersion
<1>9. CASE DeleteVersion
    BY <1>1, <1>9 DEF DeleteVersion
<1>10. CASE DeleteOfBatch
    BY <1>1, <1>10 DEF DeleteOfBatch
<1>11. CASE UploadPart
    BY <1>0, <1>11 DEF UploadPart, TablesOK
<1>12. CASE BeginOrEndUpload
    BY <1>0, <1>12 DEF BeginOrEndUpload, TablesOK
<1>13. CASE CreateOrDeleteName
    BY <1>0, <1>13 DEF CreateOrDeleteName, TablesOK
<1>14. CASE AppendToLog
    BY <1>0, <1>14, LoggedFacts DEF AppendToLog, TablesOK
<1>15. CASE UNCHANGED vars
    BY <1>1, <1>15 DEF vars
<1> QED
    BY <1>2, <1>3, <1>4, <1>5, <1>6, <1>7, <1>8, <1>9, <1>10, <1>11, <1>12, <1>13, <1>14, <1>15 DEF Next

-----------------------------------------------------------------------------
(* The walk.                                                                 *)

NamesOf(answer) == {Name(answer.items[i]) : i \in DOMAIN answer.items}

(* The walk as it is after a page.                                           *)
Turned(answer, pc, token, batch) ==
    /\ walk' = [kind |-> walk.kind, pc |-> pc, start |-> walk.start, token |-> token, batch |-> batch,
                seen |-> walk.seen \cup NamesOf(answer),
                again |-> walk.again \cup (walk.seen \cap NamesOf(answer)),
                prefixes |-> walk.prefixes \cup answer.prefixes]

LEMMA WalkRecord ==
    ASSUME WalkOK
    PROVE  walk = [kind |-> walk.kind, pc |-> walk.pc, start |-> walk.start, token |-> walk.token,
                   batch |-> walk.batch, seen |-> walk.seen, again |-> walk.again, prefixes |-> walk.prefixes]
BY DEF WalkOK

LEMMA ReceivedIs ==
    ASSUME WalkOK, NEW answer
    PROVE  Received(answer) =
            [kind |-> walk.kind, pc |-> walk.pc, start |-> walk.start, token |-> answer.marker, batch |-> walk.batch,
             seen |-> walk.seen \cup NamesOf(answer),
             again |-> walk.again \cup (walk.seen \cap NamesOf(answer)),
             prefixes |-> walk.prefixes \cup answer.prefixes]
<1> DEFINE s == walk.seen \cup NamesOf(answer)
           a == walk.again \cup (walk.seen \cap NamesOf(answer))
           p == walk.prefixes \cup answer.prefixes
           t == answer.marker
<1>1. Received(answer) = [walk EXCEPT !.token = t, !.prefixes = p, !.seen = s, !.again = a]
    BY DEF Received, NamesOf
<1> HIDE DEF s, a, p, t
<1>2. [walk EXCEPT !.token = t, !.prefixes = p, !.seen = s, !.again = a] =
        [kind |-> walk.kind, pc |-> walk.pc, start |-> walk.start, token |-> t, batch |-> walk.batch,
         seen |-> s, again |-> a, prefixes |-> p]
    <2>1. \E k, c, st, tk, b, sn, ag, px :
            walk = [kind |-> k, pc |-> c, start |-> st, token |-> tk, batch |-> b, seen |-> sn, again |-> ag, prefixes |-> px]
        BY WalkRecord, Zenon
    <2>2. PICK k, c, st, tk, b, sn, ag, px :
            walk = [kind |-> k, pc |-> c, start |-> st, token |-> tk, batch |-> b, seen |-> sn, again |-> ag, prefixes |-> px]
        BY <2>1, Zenon
    <2> DEFINE w == [kind |-> k, pc |-> c, start |-> st, token |-> tk, batch |-> b, seen |-> sn, again |-> ag, prefixes |-> px]
    <2>3. [w EXCEPT !.token = t, !.prefixes = p, !.seen = s, !.again = a] =
            [kind |-> w.kind, pc |-> w.pc, start |-> w.start, token |-> t, batch |-> w.batch,
             seen |-> s, again |-> a, prefixes |-> p]
        <3> DEFINE v1 == [kind |-> k, pc |-> c, start |-> st, token |-> t, batch |-> b, seen |-> sn, again |-> ag, prefixes |-> px]
                   v2 == [kind |-> k, pc |-> c, start |-> st, token |-> t, batch |-> b, seen |-> sn, again |-> ag, prefixes |-> p]
                   v3 == [kind |-> k, pc |-> c, start |-> st, token |-> t, batch |-> b, seen |-> s, again |-> ag, prefixes |-> p]
                   v4 == [kind |-> k, pc |-> c, start |-> st, token |-> t, batch |-> b, seen |-> s, again |-> a, prefixes |-> p]
        <3>1. [w EXCEPT !.token = t] = v1
            OBVIOUS
        <3>2. [v1 EXCEPT !.prefixes = p] = v2
            OBVIOUS
        <3>3. [v2 EXCEPT !.seen = s] = v3
            OBVIOUS
        <3>4. [v3 EXCEPT !.again = a] = v4
            OBVIOUS
        <3>5. w.kind = k /\ w.pc = c /\ w.start = st /\ w.batch = b
            OBVIOUS
        <3> HIDE DEF v1, v2, v3, w
        <3>6. [w EXCEPT !.token = t, !.prefixes = p, !.seen = s, !.again = a] =
                [[[[w EXCEPT !.token = t] EXCEPT !.prefixes = p] EXCEPT !.seen = s] EXCEPT !.again = a]
            OBVIOUS
        <3>7. [w EXCEPT !.token = t, !.prefixes = p, !.seen = s, !.again = a] = v4
            BY <3>1, <3>2, <3>3, <3>4, <3>6, Zenon
        <3> QED
            BY <3>5, <3>7, Zenon
    <2>4. walk = w
        BY <2>2
    <2> HIDE DEF w
    <2> QED
        BY <2>3, <2>4, Zenon
<1> QED
    BY <1>1, <1>2 DEF s, a, p, t

LEMMA NextPageTurns ==
    ASSUME WalkOK, NextPage
    PROVE  \E answer \in Answers : \E pc \in {"done", "cut", "page"} :
            /\ Turned(answer, pc, answer.marker, walk.batch)
            /\ pc = "done" <=> ~answer.truncated
            /\ pc = "page" => answer.truncated /\ answer.marker # None
<1>1. PICK answer \in Answers :
        walk' = [Received(answer) EXCEPT !.pc = IF ~answer.truncated THEN "done"
                                                ELSE IF answer.marker = None THEN "cut" ELSE "page"]
    BY DEF NextPage
<1> DEFINE pc == IF ~answer.truncated THEN "done" ELSE IF answer.marker = None THEN "cut" ELSE "page"
<1>2. pc \in {"done", "cut", "page"} /\ (pc = "done" <=> ~answer.truncated)
      /\ (pc = "page" => answer.truncated /\ answer.marker # None)
    OBVIOUS
<1>3. walk' = [Received(answer) EXCEPT !.pc = pc]
    BY <1>1
<1> HIDE DEF pc
<1>4. Turned(answer, pc, answer.marker, walk.batch)
    <2> DEFINE s == walk.seen \cup NamesOf(answer)
               a == walk.again \cup (walk.seen \cap NamesOf(answer))
               p == walk.prefixes \cup answer.prefixes
               t == answer.marker
               w == [kind |-> walk.kind, pc |-> walk.pc, start |-> walk.start, token |-> t, batch |-> walk.batch,
                     seen |-> s, again |-> a, prefixes |-> p]
    <2>1. Received(answer) = w
        BY ReceivedIs
    <2> HIDE DEF s, a, p, t
    <2>2. walk' = [w EXCEPT !.pc = pc]
        BY <2>1, <1>3
    <2>3. walk' = [kind |-> walk.kind, pc |-> pc, start |-> walk.start, token |-> t, batch |-> walk.batch,
                   seen |-> s, again |-> a, prefixes |-> p]
        BY <2>2
    <2> QED
        BY <2>3 DEF Turned, s, a, p, t
<1> QED
    BY <1>2, <1>4

LEMMA RemovePageTurns ==
    ASSUME WalkOK, RemovePage
    PROVE  \E answer \in Answers : \E pc \in {"done", "delete"} :
            /\ Turned(answer, pc, IF walk.kind = "rb" THEN None ELSE answer.marker,
                      {answer.items[i].key : i \in DOMAIN answer.items})
            /\ pc = "done" <=> answer.items = <<>>
<1>1. PICK answer \in Answers :
        walk' = [Received(answer) EXCEPT
                    !.pc = IF answer.items = <<>> THEN "done" ELSE "delete",
                    !.token = IF walk.kind = "rb" THEN None ELSE @,
                    !.batch = {answer.items[i].key : i \in DOMAIN answer.items}]
    BY DEF RemovePage
<1> DEFINE pc == IF answer.items = <<>> THEN "done" ELSE "delete"
           batch == {answer.items[i].key : i \in DOMAIN answer.items}
<1>2. pc \in {"done", "delete"} /\ (pc = "done" <=> answer.items = <<>>)
    OBVIOUS
<1>3. walk' = [Received(answer) EXCEPT !.pc = pc, !.token = IF walk.kind = "rb" THEN None ELSE @, !.batch = batch]
    BY <1>1
<1> HIDE DEF pc, batch
<1>4. Turned(answer, pc, IF walk.kind = "rb" THEN None ELSE answer.marker, batch)
    <2> DEFINE s == walk.seen \cup NamesOf(answer)
               a == walk.again \cup (walk.seen \cap NamesOf(answer))
               p == walk.prefixes \cup answer.prefixes
               t == answer.marker
               u == IF walk.kind = "rb" THEN None ELSE t
               w == [kind |-> walk.kind, pc |-> walk.pc, start |-> walk.start, token |-> t, batch |-> walk.batch,
                     seen |-> s, again |-> a, prefixes |-> p]
    <2>1. Received(answer) = w
        BY ReceivedIs
    <2> HIDE DEF s, a, p, t
    <2>2. walk' = [w EXCEPT !.pc = pc, !.token = u, !.batch = batch]
        BY <2>1, <1>3
    <2> HIDE DEF u
    <2>3. walk' = [kind |-> walk.kind, pc |-> pc, start |-> walk.start, token |-> u, batch |-> batch,
                   seen |-> s, again |-> a, prefixes |-> p]
        BY <2>2
    <2> QED
        BY <2>3 DEF Turned, s, a, p, t, u
<1> QED
    BY <1>2, <1>4 DEF batch

(* A walk by its fields.                                                     *)
Walk(k, c, st, t, b, s, a, p) ==
    [kind |-> k, pc |-> c, start |-> st, token |-> t, batch |-> b, seen |-> s, again |-> a, prefixes |-> p]

LEMMA WalkFields ==
    ASSUME NEW k, NEW c, NEW st, NEW t, NEW b, NEW s, NEW a, NEW p, NEW w, w = Walk(k, c, st, t, b, s, a, p)
    PROVE  /\ w.kind = k /\ w.pc = c /\ w.start = st /\ w.token = t
           /\ w.batch = b /\ w.seen = s /\ w.again = a /\ w.prefixes = p
BY DEF Walk

LEMMA TheWalk ==
    ASSUME WalkOK
    PROVE  walk = Walk(walk.kind, walk.pc, walk.start, walk.token, walk.batch, walk.seen, walk.again, walk.prefixes)
BY WalkRecord DEF Walk

LEMMA FreshIs ==
    ASSUME WalkOK
    PROVE  Fresh = Walk(walk.kind, "idle", walk.start, None, walk.batch, {}, {}, {})
<1> DEFINE w1 == [walk EXCEPT !.pc = "idle"]
           w2 == [w1 EXCEPT !.token = None]
           w3 == [w2 EXCEPT !.seen = {}]
           w4 == [w3 EXCEPT !.again = {}]
           w5 == [w4 EXCEPT !.prefixes = {}]
<1>1. Fresh = w5
    BY DEF Fresh
<1>2. w1 = Walk(walk.kind, "idle", walk.start, walk.token, walk.batch, walk.seen, walk.again, walk.prefixes)
    <2>1. [Walk(walk.kind, walk.pc, walk.start, walk.token, walk.batch, walk.seen, walk.again, walk.prefixes) EXCEPT !.pc = "idle"] =
            Walk(walk.kind, "idle", walk.start, walk.token, walk.batch, walk.seen, walk.again, walk.prefixes)
        BY DEF Walk
    <2> QED
        BY <2>1, TheWalk, Zenon
<1> HIDE DEF w1
<1>3. w2 = Walk(walk.kind, "idle", walk.start, None, walk.batch, walk.seen, walk.again, walk.prefixes)
    <2>1. [Walk(walk.kind, "idle", walk.start, walk.token, walk.batch, walk.seen, walk.again, walk.prefixes) EXCEPT !.token = None] =
            Walk(walk.kind, "idle", walk.start, None, walk.batch, walk.seen, walk.again, walk.prefixes)
        BY DEF Walk
    <2> QED
        BY <2>1, <1>2, Zenon
<1> HIDE DEF w2
<1>4. w3 = Walk(walk.kind, "idle", walk.start, None, walk.batch, {}, walk.again, walk.prefixes)
    <2>1. [Walk(walk.kind, "idle", walk.start, None, walk.batch, walk.seen, walk.again, walk.prefixes) EXCEPT !.seen = {}] =
            Walk(walk.kind, "idle", walk.start, None, walk.batch, {}, walk.again, walk.prefixes)
        BY DEF Walk
    <2> QED
        BY <2>1, <1>3, Zenon
<1> HIDE DEF w3
<1>5. w4 = Walk(walk.kind, "idle", walk.start, None, walk.batch, {}, {}, walk.prefixes)
    <2>1. [Walk(walk.kind, "idle", walk.start, None, walk.batch, {}, walk.again, walk.prefixes) EXCEPT !.again = {}] =
            Walk(walk.kind, "idle", walk.start, None, walk.batch, {}, {}, walk.prefixes)
        BY DEF Walk
    <2> QED
        BY <2>1, <1>4, Zenon
<1> HIDE DEF w4
<1>6. w5 = Walk(walk.kind, "idle", walk.start, None, walk.batch, {}, {}, {})
    <2>1. [Walk(walk.kind, "idle", walk.start, None, walk.batch, {}, {}, walk.prefixes) EXCEPT !.prefixes = {}] =
            Walk(walk.kind, "idle", walk.start, None, walk.batch, {}, {}, {})
        BY DEF Walk
    <2> QED
        BY <2>1, <1>5, Zenon
<1> QED
    BY <1>1, <1>6, Zenon

LEMMA StartWalkIs ==
    ASSUME WalkOK, StartWalk
    PROVE  \E start \in StartAfters : walk' = Walk(walk.kind, "page", start, None, walk.batch, {}, {}, {})
<1>1. PICK start \in StartAfters : walk' = [Fresh EXCEPT !.pc = "page", !.start = start]
    BY DEF StartWalk
<1> DEFINE w1 == [Fresh EXCEPT !.pc = "page"]
           w2 == [w1 EXCEPT !.start = start]
<1>2. walk' = w2
    BY <1>1
<1>3. w1 = Walk(walk.kind, "page", walk.start, None, walk.batch, {}, {}, {})
    <2>1. [Walk(walk.kind, "idle", walk.start, None, walk.batch, {}, {}, {}) EXCEPT !.pc = "page"] =
            Walk(walk.kind, "page", walk.start, None, walk.batch, {}, {}, {})
        BY DEF Walk
    <2> QED
        BY <2>1, FreshIs, Zenon
<1> HIDE DEF w1
<1>4. w2 = Walk(walk.kind, "page", start, None, walk.batch, {}, {}, {})
    <2>1. [Walk(walk.kind, "page", walk.start, None, walk.batch, {}, {}, {}) EXCEPT !.start = start] =
            Walk(walk.kind, "page", start, None, walk.batch, {}, {}, {})
        BY DEF Walk
    <2> QED
        BY <2>1, <1>3, Zenon
<1> HIDE DEF w2
<1> QED
    BY <1>2, <1>4

LEMMA BatchSentIs ==
    ASSUME WalkOK, BatchSent
    PROVE  walk' = Walk(walk.kind, IF walk.kind = "rm" /\ walk.token = None THEN "done" ELSE "page",
                        walk.start, walk.token, walk.batch, walk.seen, walk.again, walk.prefixes)
<1> DEFINE c == IF walk.kind = "rm" /\ walk.token = None THEN "done" ELSE "page"
<1>1. walk' = [walk EXCEPT !.pc = c]
    BY DEF BatchSent
<1> HIDE DEF c
<1>2. [Walk(walk.kind, walk.pc, walk.start, walk.token, walk.batch, walk.seen, walk.again, walk.prefixes) EXCEPT !.pc = c] =
        Walk(walk.kind, c, walk.start, walk.token, walk.batch, walk.seen, walk.again, walk.prefixes)
    BY DEF Walk
<1>3. walk' = Walk(walk.kind, c, walk.start, walk.token, walk.batch, walk.seen, walk.again, walk.prefixes)
    BY <1>1, <1>2, TheWalk, Zenon
<1> QED
    BY <1>3 DEF c

LEMMA DeleteOfBatchIs ==
    ASSUME WalkOK, DeleteOfBatch
    PROVE  \E k \in walk.batch :
            walk' = Walk(walk.kind, walk.pc, walk.start, walk.token, walk.batch \ {k}, walk.seen, walk.again, walk.prefixes)
<1>1. PICK k \in walk.batch : walk' = [walk EXCEPT !.batch = walk.batch \ {k}]
    BY DEF DeleteOfBatch
<1>2. walk' = Walk(walk.kind, walk.pc, walk.start, walk.token, walk.batch \ {k}, walk.seen, walk.again, walk.prefixes)
    <2> DEFINE b == walk.batch \ {k}
    <2> HIDE DEF b
    <2>1. [Walk(walk.kind, walk.pc, walk.start, walk.token, walk.batch, walk.seen, walk.again, walk.prefixes) EXCEPT !.batch = b] =
            Walk(walk.kind, walk.pc, walk.start, walk.token, b, walk.seen, walk.again, walk.prefixes)
        BY DEF Walk
    <2>2. walk' = [walk EXCEPT !.batch = b]
        BY <1>1 DEF b
    <2>3. walk' = Walk(walk.kind, walk.pc, walk.start, walk.token, b, walk.seen, walk.again, walk.prefixes)
        BY <2>1, <2>2, TheWalk, Zenon
    <2> QED
        BY <2>3 DEF b
<1> QED
    BY <1>2

LEMMA TurnedIs ==
    ASSUME NEW answer, NEW pc, NEW token, NEW batch, Turned(answer, pc, token, batch)
    PROVE  walk' = Walk(walk.kind, pc, walk.start, token, batch, walk.seen \cup NamesOf(answer),
                        walk.again \cup (walk.seen \cap NamesOf(answer)), walk.prefixes \cup answer.prefixes)
BY Zenon DEF Turned, Walk

LEMMA TokenTypes ==
    ASSUME WalkOK, NEW token, TokenOK(token)
    PROVE  token \in Keys \cup RowRecords \cup Nat \cup {None}
BY KindsOfWalks DEF TokenOK, ByOffset

LEMMA WalkStaysOK ==
    ASSUME WalkOK, versioned' = versioned, NEW c \in {"idle", "page", "delete", "done", "cut"},
           NEW st \in StartAfters \cup {None}, NEW t, TokenOK(t), walk.kind = "rb" => t = None,
           NEW b \in SUBSET Keys, NEW s \in SUBSET Listable, s \subseteq Nameable, NEW a \in SUBSET s,
           NEW p \in SUBSET FolderNames, c = "delete" => Removes,
           walk' = Walk(walk.kind, c, st, t, b, s, a, p)
    PROVE  WalkOK'
<1> DEFINE T == Keys \cup RowRecords \cup Nat \cup {None}
           F == FolderNames
           L == Listable
           S == StartAfters \cup {None}
<1>1. t \in T
    BY TokenTypes
<1>2. walk.kind \in Kinds /\ versioned = ~Removes
    BY DEF WalkOK
<1>3. walk'.kind = walk.kind
    BY WalkFields, SMTT(20)
<1>4. walk'.pc = c /\ walk'.token = t /\ walk'.seen = s /\ walk'.again = a
    BY WalkFields, SMTT(20)
<1>5. walk' \in [kind: Kinds, pc: {"idle", "page", "delete", "done", "cut"}, start: S, token: T, batch: SUBSET Keys,
                 seen: SUBSET L, again: SUBSET L, prefixes: SUBSET F]
    <2>1. a \in SUBSET L /\ s \in SUBSET L /\ p \in SUBSET F /\ st \in S
        OBVIOUS
    <2> HIDE DEF T, F, L, S
    <2> QED
        BY <2>1, <1>1, <1>2 DEF Walk
<1>6. FolderNames' = FolderNames /\ Listable' = Listable /\ RowRecords' = RowRecords
    BY DEF FolderNames, Listable, RowRecords, RolledUp
<1>7. Removes' = Removes /\ Nameable' = Nameable
    BY <1>3, SameKind
<1>8. TokenOK(walk'.token)
    BY <1>4
<1>9. TokenOK(walk.token)'
    BY <1>3, <1>8 DEF TokenOK, OfObjects, ByOffset, RowRecords
<1>10. /\ walk'.kind = "rb" => walk'.token = None
       /\ walk'.again \subseteq walk'.seen /\ walk'.seen \subseteq Nameable'
       /\ walk'.pc = "delete" => Removes'
       /\ versioned' = ~Removes'
    BY <1>2, <1>3, <1>4, <1>7
<1> QED
    BY <1>5, <1>6, <1>9, <1>10 DEF WalkOK

LEMMA NamesAreNameable ==
    ASSUME RowsOK, TablesOK, WalkOK, NEW answer \in Answers
    PROVE  /\ NamesOf(answer) \subseteq Present /\ NamesOf(answer) \subseteq Nameable
           /\ walk.seen \cup NamesOf(answer) \in SUBSET Listable /\ walk.seen \cup NamesOf(answer) \subseteq Nameable
           /\ walk.again \cup (walk.seen \cap NamesOf(answer)) \in SUBSET (walk.seen \cup NamesOf(answer))
           /\ TokenOK(answer.marker)
           /\ walk.prefixes \cup answer.prefixes \in SUBSET FolderNames
<1>1. ItemsOK(answer)
    BY AnswersItemsOK
<1>2. NamesOf(answer) \subseteq Present
    BY <1>1 DEF ItemsOK, NamesOf
<1>3. Present \subseteq Nameable /\ Nameable \subseteq Listable
    BY PresentIsNameable
<1>4. walk.seen \subseteq Nameable /\ walk.again \subseteq walk.seen /\ walk.prefixes \in SUBSET FolderNames
    BY DEF WalkOK
<1>5. TokenOK(answer.marker) /\ answer.prefixes \subseteq FolderNames
    BY <1>1 DEF ItemsOK
<1> QED
    BY <1>2, <1>3, <1>4, <1>5

LEMMA BatchIsOfKeys ==
    ASSUME RowsOK, TablesOK, WalkOK, Removes, NEW answer \in Answers
    PROVE  {answer.items[i].key : i \in DOMAIN answer.items} \in SUBSET Keys
<1>1. OfObjects
    BY DEF Removes, OfObjects
<1>2. Present = {Name(r) : r \in Objects} /\ \A r : Name(r) = <<r.key, 0>>
    BY <1>1, PresentObjects
<1>3. ASSUME NEW i \in DOMAIN answer.items PROVE answer.items[i].key \in Keys
    <2>1. Name(answer.items[i]) \in Present
        BY AnswersItemsOK DEF ItemsOK
    <2>2. PICK r \in Objects : Name(answer.items[i]) = Name(r)
        BY <2>1, <1>2
    <2>3. answer.items[i].key = r.key
        BY <2>2, <1>2
    <2>4. r \in RowRecords
        BY DEF Objects, RowsOK
    <2> QED
        BY <2>3, <2>4 DEF RowRecords
<1> QED
    BY <1>3

LEMMA WalkStays ==
    ASSUME RowsOK, TablesOK, WalkOK, [Next]_vars
    PROVE  WalkOK'
<1>0. /\ walk.pc \in {"idle", "page", "delete", "done", "cut"} /\ walk.start \in StartAfters \cup {None}
      /\ walk.batch \in SUBSET Keys /\ walk.seen \in SUBSET Listable /\ walk.seen \subseteq Nameable
      /\ walk.again \in SUBSET walk.seen /\ walk.prefixes \in SUBSET FolderNames
      /\ TokenOK(walk.token) /\ (walk.kind = "rb" => walk.token = None) /\ (walk.pc = "delete" => Removes)
    BY DEF WalkOK
<1>00. TokenOK(None)
    BY DEF TokenOK
<1>1. ASSUME UNCHANGED <<walk, versioned>> PROVE WalkOK'
    <2>1. walk' = Walk(walk.kind, walk.pc, walk.start, walk.token, walk.batch, walk.seen, walk.again, walk.prefixes)
        BY <1>1, TheWalk
    <2> QED
        BY <2>1, <1>0, <1>1, WalkStaysOK
<1>2. CASE StartWalk
    <2>1. PICK start \in StartAfters : walk' = Walk(walk.kind, "page", start, None, walk.batch, {}, {}, {})
        BY <1>2, StartWalkIs
    <2>2. versioned' = versioned
        BY <1>2 DEF StartWalk
    <2>3. {} \in SUBSET Listable /\ {} \in SUBSET FolderNames /\ {} \subseteq Nameable /\ {} \in SUBSET {}
        OBVIOUS
    <2> QED
        BY <2>1, <2>2, <2>3, <1>0, <1>00, WalkStaysOK
<1>3. CASE NextPage
    <2>1. PICK answer \in Answers : \E pc \in {"done", "cut", "page"} : Turned(answer, pc, answer.marker, walk.batch)
        BY <1>3, NextPageTurns
    <2>2. PICK pc \in {"done", "cut", "page"} : Turned(answer, pc, answer.marker, walk.batch)
        BY <2>1
    <2> DEFINE s == walk.seen \cup NamesOf(answer)
               a == walk.again \cup (walk.seen \cap NamesOf(answer))
               p == walk.prefixes \cup answer.prefixes
               t == answer.marker
    <2>3. walk' = Walk(walk.kind, pc, walk.start, t, walk.batch, s, a, p)
        BY <2>2, TurnedIs
    <2>4. s \in SUBSET Listable /\ s \subseteq Nameable /\ a \in SUBSET s /\ p \in SUBSET FolderNames /\ TokenOK(t)
        BY NamesAreNameable
    <2>5. versioned' = versioned /\ walk.kind # "rb"
        BY <1>3 DEF NextPage, Removes
    <2> HIDE DEF s, a, p, t
    <2> QED
        BY <2>3, <2>4, <2>5, <1>0, WalkStaysOK
<1>4. CASE Ls \/ EndWalk
    <2>1. walk' = Walk(walk.kind, "idle", walk.start, None, walk.batch, {}, {}, {})
        BY <1>4, FreshIs DEF Ls, EndWalk
    <2>2. versioned' = versioned
        BY <1>4 DEF Ls, EndWalk
    <2>3. {} \in SUBSET Listable /\ {} \in SUBSET FolderNames /\ {} \subseteq Nameable /\ {} \in SUBSET {}
        OBVIOUS
    <2> QED
        BY <2>1, <2>2, <2>3, <1>0, <1>00, WalkStaysOK
<1>5. CASE RemovePage
    <2>0. Removes
        BY <1>5 DEF RemovePage
    <2>1. PICK answer \in Answers : \E pc \in {"done", "delete"} :
            Turned(answer, pc, IF walk.kind = "rb" THEN None ELSE answer.marker,
                   {answer.items[i].key : i \in DOMAIN answer.items})
        BY <1>5, RemovePageTurns
    <2>2. PICK pc \in {"done", "delete"} :
            Turned(answer, pc, IF walk.kind = "rb" THEN None ELSE answer.marker,
                   {answer.items[i].key : i \in DOMAIN answer.items})
        BY <2>1
    <2> DEFINE s == walk.seen \cup NamesOf(answer)
               a == walk.again \cup (walk.seen \cap NamesOf(answer))
               p == walk.prefixes \cup answer.prefixes
               t == IF walk.kind = "rb" THEN None ELSE answer.marker
               b == {answer.items[i].key : i \in DOMAIN answer.items}
    <2>3. walk' = Walk(walk.kind, pc, walk.start, t, b, s, a, p)
        BY <2>2, TurnedIs
    <2>4. s \in SUBSET Listable /\ s \subseteq Nameable /\ a \in SUBSET s /\ p \in SUBSET FolderNames /\ TokenOK(t)
        BY NamesAreNameable, <1>00
    <2>5. versioned' = versioned /\ (walk.kind = "rb" => t = None)
        BY <1>5 DEF RemovePage
    <2>6. b \in SUBSET Keys
        BY <2>0, BatchIsOfKeys
    <2> HIDE DEF s, a, p, t, b
    <2> QED
        BY <2>0, <2>3, <2>4, <2>5, <2>6, <1>0, WalkStaysOK
<1>6. CASE BatchSent
    <2> DEFINE c == IF walk.kind = "rm" /\ walk.token = None THEN "done" ELSE "page"
    <2>1. walk' = Walk(walk.kind, c, walk.start, walk.token, walk.batch, walk.seen, walk.again, walk.prefixes)
        BY <1>6, BatchSentIs
    <2>2. versioned' = versioned
        BY <1>6 DEF BatchSent
    <2>3. c \in {"idle", "page", "delete", "done", "cut"} /\ c # "delete"
        OBVIOUS
    <2> HIDE DEF c
    <2> QED
        BY <2>1, <2>2, <2>3, <1>0, WalkStaysOK
<1>7. CASE DeleteOfBatch
    <2>1. PICK k \in walk.batch :
            walk' = Walk(walk.kind, walk.pc, walk.start, walk.token, walk.batch \ {k}, walk.seen, walk.again, walk.prefixes)
        BY <1>7, DeleteOfBatchIs
    <2>2. versioned' = versioned /\ walk.batch \ {k} \in SUBSET Keys
        BY <1>7, <1>0 DEF DeleteOfBatch
    <2> QED
        BY <2>1, <2>2, <1>0, WalkStaysOK
<1>8. CASE WriteVersion
    BY <1>1, <1>8 DEF WriteVersion, KeepWatch
<1>9. CASE DeleteVersion
    BY <1>1, <1>9 DEF DeleteVersion, KeepWatch
<1>10. CASE UploadPart
    BY <1>1, <1>10 DEF UploadPart, KeepWatch
<1>11. CASE BeginOrEndUpload
    BY <1>1, <1>11 DEF BeginOrEndUpload, KeepWatch
<1>12. CASE CreateOrDeleteName
    BY <1>1, <1>12 DEF CreateOrDeleteName, KeepWatch
<1>13. CASE AppendToLog
    BY <1>1, <1>13 DEF AppendToLog, KeepWatch
<1>14. CASE UNCHANGED vars
    BY <1>1, <1>14 DEF vars
<1> QED
    BY <1>2, <1>3, <1>4, <1>5, <1>6, <1>7, <1>8, <1>9, <1>10, <1>11, <1>12, <1>13, <1>14 DEF Next

(* The history.                                                              *)
LEMMA PresentGrows ==
    ASSUME WalkOK, walk'.kind = walk.kind, UNCHANGED <<rows, parts, uploads>>, ids \subseteq ids'
    PROVE  Present \subseteq Present'
<1> DEFINE listed == CASE OfObjects -> Objects
                       [] walk.kind = "versions" -> rows
                       [] walk.kind = "parts" -> parts
                       [] walk.kind = "uploads" -> uploads
                       [] ByOffset -> ids
<1>0. \/ OfObjects \/ walk.kind \in {"versions", "parts", "uploads", "names", "audit", "deliveries"}
    BY KindsOfWalks
<1>1. OfObjects' = OfObjects /\ ByOffset' = ByOffset /\ \A x : Name(x)' = Name(x)
    BY SameKind
<1>2. Objects' = Objects
    BY DEF Objects
<1>3. listed \subseteq listed'
    BY <1>0, <1>1, <1>2 DEF OfObjects, ByOffset
<1>4. Present = {Name(x) : x \in listed}
    BY DEF Present
<1>5. Present' = {Name(x)' : x \in listed'}
    BY DEF Present
<1> HIDE DEF listed
<1> QED
    BY <1>1, <1>3, <1>4, <1>5

LEMMA HistoryStays ==
    ASSUME RowsOK, TablesOK, WalkOK, HistoryOK, [Next]_vars
    PROVE  HistoryOK'
<1>0. walk'.kind = walk.kind /\ calm \in BOOLEAN /\ always \subseteq Present
    BY KindStays DEF HistoryOK
<1> DEFINE Untroubled ==
                walk.kind = "versions" /\ calm /\ walk.pc # "idle" =>
                    /\ \A r \in rows : ~r.marker
                    /\ walk.token # None => \E r \in rows : r.vid = walk.token.vid
<1>1. Untroubled
    BY DEF HistoryOK
<1>2. SUFFICES always' \subseteq Present' /\ calm' \in BOOLEAN /\ Untroubled'
    BY DEF HistoryOK
<1> HIDE DEF Untroubled
<1>3. ASSUME UNCHANGED <<rows, parts, uploads, ids>> PROVE Present \subseteq Present'
    BY <1>0, <1>3, PresentGrows
<1>4. CASE StartWalk
    <2>1. PICK start : walk' = Walk(walk.kind, "page", start, None, walk.batch, {}, {}, {})
        BY <1>4, StartWalkIs
    <2>2. walk'.token = None
        BY <2>1, WalkFields
    <2>3. always' = Present /\ calm' = (\A r \in rows : ~r.marker) /\ UNCHANGED <<rows, parts, uploads, ids>>
        BY <1>4 DEF StartWalk
    <2>4. Untroubled'
        BY <2>2, <2>3 DEF Untroubled
    <2> QED
        BY <2>3, <2>4, <1>3
<1>5. CASE NextPage
    <2>1. PICK answer \in Answers : \E pc \in {"done", "cut", "page"} : Turned(answer, pc, answer.marker, walk.batch)
        BY <1>5, NextPageTurns
    <2>2. walk'.token = answer.marker
        BY <2>1 DEF Turned
    <2>3. walk.pc = "page" /\ UNCHANGED <<rows, parts, uploads, always, calm>>
        BY <1>5 DEF NextPage
    <2>4. ids \subseteq ids'
        BY <1>5 DEF NextPage, Logged
    <2>5. walk.kind = "versions" /\ answer.marker # None => answer.marker \in rows
        BY AnswersItemsOK DEF ItemsOK
    <2>6. Untroubled'
        BY <2>2, <2>3, <2>5, <1>0, <1>1 DEF Untroubled
    <2> QED
        BY <2>3, <2>4, <2>6, <1>0, PresentGrows
<1>6. CASE Ls \/ EndWalk
    <2>1. walk' = Walk(walk.kind, "idle", walk.start, None, walk.batch, {}, {}, {})
        BY <1>6, FreshIs DEF Ls, EndWalk
    <2>2. walk'.pc = "idle"
        BY <2>1, WalkFields
    <2>3. always' = {} /\ calm' = TRUE
        BY <1>6 DEF Ls, EndWalk
    <2> QED
        BY <2>2, <2>3 DEF Untroubled
<1>7. CASE RemovePage
    <2>1. walk.kind # "versions" /\ UNCHANGED <<rows, parts, uploads, ids, always, calm>>
        BY <1>7 DEF RemovePage, Removes
    <2> QED
        BY <2>1, <1>0, <1>3 DEF Untroubled
<1>8. CASE BatchSent
    <2>1. walk.kind # "versions" /\ UNCHANGED <<rows, parts, uploads, ids, always, calm>>
        BY <1>8 DEF BatchSent, WalkOK, Removes
    <2> QED
        BY <2>1, <1>0, <1>3 DEF Untroubled
<1>9. CASE DeleteOfBatch
    <2>1. walk.kind # "versions" /\ always' = always \cap Present' /\ calm' = calm
        BY <1>9 DEF DeleteOfBatch, WalkOK, Removes
    <2> QED
        BY <2>1, <1>0 DEF Untroubled
<1>10. ASSUME NEW quiet \in BOOLEAN, KeepWatch(quiet) PROVE always' \subseteq Present' /\ calm' \in BOOLEAN
    BY <1>0, <1>10 DEF KeepWatch
<1>11. CASE WriteVersion
    <2>1. PICK k \in Keys, marker \in BOOLEAN : rows' = Written(k, marker) /\ KeepWatch(~marker)
        BY <1>11 DEF WriteVersion
    <2>2. Untroubled'
        <3> SUFFICES ASSUME walk.kind = "versions", calm', walk.pc # "idle"
            PROVE  /\ \A r \in rows' : ~r.marker
                   /\ walk.token # None => \E r \in rows' : r.vid = walk.token.vid
            BY <2>1 DEF Untroubled, KeepWatch
        <3> DEFINE new == [key |-> k, vid |-> clock + 1, marker |-> marker, latest |-> TRUE]
        <3>1. calm /\ ~marker /\ versioned /\ clock < MaxRows
            BY <2>1, <1>11 DEF KeepWatch, WriteVersion, WalkOK, Removes
        <3>2. /\ \A r \in rows : ~r.marker
              /\ walk.token # None => \E r \in rows : r.vid = walk.token.vid
            BY <3>1, <1>1 DEF Untroubled
        <3>3. new.marker = marker /\ new = [key |-> k, vid |-> clock + 1, marker |-> marker, latest |-> TRUE]
            OBVIOUS
        <3> HIDE DEF new
        <3>4. /\ \A q \in Written(k, marker) : q = new \/ \E r \in rows : q.marker = r.marker
              /\ \A r \in rows : \E q \in Written(k, marker) : q.vid = r.vid
            <4>1. /\ \A q \in Written(k, marker) :
                        \/ q = new
                        \/ \E r \in rows : /\ q \in RowRecords /\ q.key = r.key /\ q.vid = r.vid /\ q.marker = r.marker
                                           /\ q.latest <=> r.latest /\ r.key # k
                                           /\ q = [r EXCEPT !.latest = @ /\ r.key # k]
                  /\ versioned => \A r \in rows : \E q \in Written(k, marker) : q.vid = r.vid
                BY <3>1, <3>3, WrittenRows, SMTT(30)
            <4>2. \A q \in Written(k, marker) : q = new \/ \E r \in rows : q.marker = r.marker
                BY <4>1, Zenon
            <4>3. \A r \in rows : \E q \in Written(k, marker) : q.vid = r.vid
                BY <3>1, <4>1, Zenon
            <4> QED
                BY <4>2, <4>3
        <3> QED
            BY <2>1, <3>1, <3>2, <3>3, <3>4
    <2> QED
        BY <2>1, <2>2, <1>10
<1>12. CASE DeleteVersion
    <2>1. KeepWatch(FALSE)
        BY <1>12 DEF DeleteVersion
    <2>2. Untroubled'
        BY <2>1 DEF KeepWatch, Untroubled
    <2> QED
        BY <2>1, <2>2, <1>10
<1>13. CASE UploadPart \/ BeginOrEndUpload \/ AppendToLog
    <2>1. KeepWatch(TRUE) /\ walk.kind # "versions"
        BY <1>13 DEF UploadPart, BeginOrEndUpload, AppendToLog
    <2>2. Untroubled'
        BY <2>1, <1>0 DEF Untroubled
    <2> QED
        BY <2>1, <2>2, <1>10
<1>14. CASE CreateOrDeleteName
    <2>1. (KeepWatch(TRUE) \/ KeepWatch(FALSE)) /\ walk.kind # "versions"
        BY <1>14 DEF CreateOrDeleteName
    <2>2. Untroubled'
        BY <2>1, <1>0 DEF Untroubled
    <2> QED
        BY <2>1, <2>2, <1>10
<1>15. CASE UNCHANGED vars
    BY <1>0, <1>1, <1>3, <1>15 DEF vars, Untroubled
<1> QED
    BY <1>4, <1>5, <1>6, <1>7, <1>8, <1>9, <1>11, <1>12, <1>13, <1>14, <1>15 DEF Next

-----------------------------------------------------------------------------
(* What the walk has seen.  The parts of the invariant as relations between  *)
(* the values of the variables, before a step and after it.                  *)

OffsetKinds == {"names", "audit", "deliveries"}

PassedBy(kind, table, token, x) ==
    CASE kind \in {"objects", "rm", "rb"} -> ~Less(token, x[1])
      [] kind = "versions" -> Less(x[1], token.key) \/ (x[1] = token.key /\ x[2] >= token.vid)
      [] kind = "names" -> Cardinality({m \in table : m < x[2]}) < token
      [] kind \in {"audit", "deliveries"} -> Cardinality({m \in table : m > x[2]}) < token
      [] OTHER -> x[2] <= token

SteadyBy(kind, start, quiet) == start = None /\ (kind \in {"versions", "names"} => quiet)

DoneBy(kind, table, pc, token, x) ==
    \/ pc = "done"
    \/ pc = "delete" /\ token = None
    \/ pc \in {"page", "delete"} /\ token # None /\ PassedBy(kind, table, token, x)

ProgressBy(kind, table, pc, token, seen, again, since) ==
    /\ pc = "page" /\ token = None /\ kind # "rb" => seen = {}
    /\ pc \in {"page", "delete"} /\ token # None /\ kind \notin OffsetKinds =>
        \A x \in seen : PassedBy(kind, table, token, x)
    /\ kind \notin OffsetKinds /\ kind # "rb" => again = {}
    /\ pc = "done" /\ kind = "rb" => since = {}

LEMMA PassedNow ==
    ASSUME NEW t, NEW x
    PROVE  Passed(t, x) <=> PassedBy(walk.kind, ids, t, x)
BY Zenon DEF Passed, PassedBy, OfObjects

LEMMA PassedNext ==
    ASSUME walk'.kind = walk.kind, NEW x
    PROVE  Passed(walk.token, x)' <=> PassedBy(walk.kind, ids', walk'.token, x)
BY Zenon DEF Passed, PassedBy, OfObjects

LEMMA DoneNow ==
    ASSUME NEW x
    PROVE  Done(x) <=> DoneBy(walk.kind, ids, walk.pc, walk.token, x)
BY PassedNow, Zenon DEF Done, DoneBy

LEMMA DoneNext ==
    ASSUME walk'.kind = walk.kind, NEW x
    PROVE  Done(x)' <=> DoneBy(walk.kind, ids', walk'.pc, walk'.token, x)
BY PassedNext, Zenon DEF Done, DoneBy

LEMMA ProgressNow ==
    ASSUME Progress, SteadyBy(walk.kind, walk.start, calm)
    PROVE  ProgressBy(walk.kind, ids, walk.pc, walk.token, walk.seen, walk.again, always)
<1>1. Steady
    BY DEF Steady, SteadyBy
<1>2. ByOffset <=> walk.kind \in OffsetKinds
    BY DEF ByOffset, OffsetKinds
<1> QED
    BY <1>1, <1>2, PassedNow, Zenon DEF Progress, ProgressBy

LEMMA ProgressNext ==
    ASSUME walk'.kind = walk.kind,
           SteadyBy(walk.kind, walk'.start, calm') =>
            ProgressBy(walk.kind, ids', walk'.pc, walk'.token, walk'.seen, walk'.again, always')
    PROVE  Progress'
<1>1. Steady' <=> SteadyBy(walk.kind, walk'.start, calm')
    BY DEF Steady, SteadyBy
<1>2. ByOffset' <=> walk.kind \in OffsetKinds
    BY DEF ByOffset, OffsetKinds
<1> QED
    BY <1>1, <1>2, PassedNext, Zenon DEF Progress, ProgressBy

LEMMA SeenNow ==
    ASSUME SeenAll, FoldersSeen, NEW x \in always, PlainPrefix, walk.start = None,
           DoneBy(walk.kind, ids, walk.pc, walk.token, x)
    PROVE  /\ SteadyBy(walk.kind, walk.start, calm) /\ walk.kind # "rb" /\ Wanted(x) => x \in walk.seen
           /\ walk.kind = "objects" /\ Rolled(x) => CommonPrefix(x[1]) \in walk.prefixes
<1>1. SteadyBy(walk.kind, walk.start, calm) => Steady
    BY DEF Steady, SteadyBy
<1>2. Done(x)
    BY DoneNow
<1> QED
    BY <1>1, <1>2, Zenon DEF SeenAll, FoldersSeen

LEMMA SeenNext ==
    ASSUME walk'.kind = walk.kind,
           ASSUME NEW x \in always', PlainPrefix, walk'.start = None, DoneBy(walk.kind, ids', walk'.pc, walk'.token, x)
           PROVE  /\ SteadyBy(walk.kind, walk'.start, calm') /\ walk.kind # "rb" /\ Wanted(x) => x \in walk'.seen
                  /\ walk.kind = "objects" /\ Rolled(x) => CommonPrefix(x[1]) \in walk'.prefixes
    PROVE  SeenAll' /\ FoldersSeen'
<1>1. Steady' <=> SteadyBy(walk.kind, walk'.start, calm')
    BY DEF Steady, SteadyBy
<1>2. PlainPrefix' = PlainPrefix
    BY DEF PlainPrefix
<1>3. /\ \A x : Wanted(x)' <=> Wanted(x)
      /\ \A x : Rolled(x)' <=> Rolled(x)
      /\ \A x : CommonPrefix(x)' = CommonPrefix(x)
    BY SameKind
<1>4. \A x : Done(x)' <=> DoneBy(walk.kind, ids', walk'.pc, walk'.token, x)
    BY DoneNext
<1>5. SeenAll'
    BY <1>1, <1>2, <1>3, <1>4, Zenon DEF SeenAll, Steady
<1>6. FoldersSeen'
    BY <1>1, <1>2, <1>3, <1>4, Zenon DEF FoldersSeen
<1> QED
    BY <1>5, <1>6

(* What is passed by when a table has grown was passed by before.            *)
LEMMA PassedBack ==
    ASSUME NEW kind, NEW S, NEW T, NEW token, NEW x,
           kind \in OffsetKinds => S \subseteq T /\ IsFiniteSet(T) /\ token \in Nat,
           PassedBy(kind, T, token, x)
    PROVE  PassedBy(kind, S, token, x)
<1>1. CASE kind \in OffsetKinds
    <2> DEFINE Sl == {m \in S : m < x[2]}
               Tl == {m \in T : m < x[2]}
               Sg == {m \in S : m > x[2]}
               Tg == {m \in T : m > x[2]}
    <2>1. Tl \in SUBSET T /\ Tg \in SUBSET T /\ Sl \in SUBSET Tl /\ Sg \in SUBSET Tg /\ IsFiniteSet(T) /\ token \in Nat
        BY <1>1
    <2>a. kind = "names" => (Cardinality(Tl) < token) /\ (PassedBy(kind, S, token, x) <=> Cardinality(Sl) < token)
        BY DEF PassedBy
    <2>b. kind \in {"audit", "deliveries"} =>
            (Cardinality(Tg) < token) /\ (PassedBy(kind, S, token, x) <=> Cardinality(Sg) < token)
        BY DEF PassedBy
    <2> HIDE DEF Sl, Tl, Sg, Tg
    <2>2. IsFiniteSet(Tl) /\ IsFiniteSet(Tg)
        BY <2>1, FS_Subset
    <2>3. IsFiniteSet(Sl) /\ IsFiniteSet(Sg) /\ Cardinality(Sl) <= Cardinality(Tl) /\ Cardinality(Sg) <= Cardinality(Tg)
        BY <2>1, <2>2, FS_Subset
    <2>4. Cardinality(Sl) \in Nat /\ Cardinality(Tl) \in Nat /\ Cardinality(Sg) \in Nat /\ Cardinality(Tg) \in Nat
        BY <2>2, <2>3, FS_CardinalityType
    <2> QED
        BY <1>1, <2>1, <2>3, <2>4, <2>a, <2>b DEF OffsetKinds
<1>2. CASE kind \notin OffsetKinds
    BY <1>2, Zenon DEF PassedBy, OffsetKinds
<1> QED
    BY <1>1, <1>2

LEMMA DoneBack ==
    ASSUME NEW kind, NEW S, NEW T, NEW pc, NEW token, NEW x,
           kind \in OffsetKinds => S \subseteq T /\ IsFiniteSet(T) /\ (token # None => token \in Nat),
           DoneBy(kind, T, pc, token, x)
    PROVE  DoneBy(kind, S, pc, token, x)
<1>1. token # None /\ PassedBy(kind, T, token, x) => PassedBy(kind, S, token, x)
    BY PassedBack
<1> QED
    BY <1>1, Zenon DEF DoneBy

(* A step of others: the walk stays, and of what was always there some may   *)
(* go.                                                                       *)
LEMMA Quiet ==
    ASSUME WalkOK, TablesOK, TablesOK', Progress, SeenAll, FoldersSeen,
           walk'.kind = walk.kind /\ walk'.pc = walk.pc /\ walk'.start = walk.start /\ walk'.token = walk.token,
           walk'.seen = walk.seen /\ walk'.again = walk.again /\ walk'.prefixes = walk.prefixes,
           always' \subseteq always, calm' => calm,
           SteadyBy(walk.kind, walk.start, calm') /\ walk.kind \in OffsetKinds => ids \subseteq ids'
    PROVE  Progress' /\ SeenAll' /\ FoldersSeen'
<1>0. SteadyBy(walk.kind, walk.start, calm') => SteadyBy(walk.kind, walk.start, calm)
    BY Zenon DEF SteadyBy
<1>1. IsFiniteSet(ids')
    <2>1. ids' \in SUBSET PartNumbers /\ IsFiniteSet(PartNumbers)
        BY ListingAssumption DEF TablesOK
    <2> QED
        BY <2>1, FS_Subset
<1>2. walk.kind \in OffsetKinds /\ walk.token # None => walk.token \in Nat
    BY DEF WalkOK, TokenOK, ByOffset, OffsetKinds
<1>3. SteadyBy(walk.kind, walk'.start, calm') =>
        ProgressBy(walk.kind, ids', walk'.pc, walk'.token, walk'.seen, walk'.again, always')
    <2> SUFFICES ASSUME SteadyBy(walk.kind, walk.start, calm')
        PROVE  ProgressBy(walk.kind, ids', walk.pc, walk.token, walk.seen, walk.again, always')
        BY Zenon
    <2>1. ProgressBy(walk.kind, ids, walk.pc, walk.token, walk.seen, walk.again, always)
        BY <1>0, ProgressNow
    <2>2. \A x : walk.kind \notin OffsetKinds => (PassedBy(walk.kind, ids, walk.token, x) <=> PassedBy(walk.kind, ids', walk.token, x))
        BY Zenon DEF PassedBy, OffsetKinds
    <2>3. always = {} => always' = {}
        OBVIOUS
    <2> QED
        BY <2>1, <2>2, <2>3, Zenon DEF ProgressBy
<1>4. Progress'
    BY <1>3, ProgressNext
<1>5. ASSUME NEW x \in always', PlainPrefix, walk'.start = None, DoneBy(walk.kind, ids', walk'.pc, walk'.token, x)
      PROVE  /\ SteadyBy(walk.kind, walk'.start, calm') /\ walk.kind # "rb" /\ Wanted(x) => x \in walk'.seen
             /\ walk.kind = "objects" /\ Rolled(x) => CommonPrefix(x[1]) \in walk'.prefixes
    <2>1. x \in always /\ walk.start = None /\ DoneBy(walk.kind, ids', walk.pc, walk.token, x)
        BY <1>5
    <2>2. SteadyBy(walk.kind, walk.start, calm') \/ walk.kind \notin OffsetKinds => DoneBy(walk.kind, ids, walk.pc, walk.token, x)
        BY <1>1, <1>2, <2>1, DoneBack
    <2>3. walk.kind = "objects" => walk.kind \notin OffsetKinds
        BY DEF OffsetKinds
    <2>4. DoneBy(walk.kind, ids, walk.pc, walk.token, x) =>
            /\ SteadyBy(walk.kind, walk.start, calm) /\ walk.kind # "rb" /\ Wanted(x) => x \in walk.seen
            /\ walk.kind = "objects" /\ Rolled(x) => CommonPrefix(x[1]) \in walk.prefixes
        BY <2>1, <1>5, SeenNow
    <2> QED
        BY <1>0, <2>2, <2>3, <2>4, Zenon
<1>6. SeenAll' /\ FoldersSeen'
    BY <1>5, SeenNext
<1> QED
    BY <1>4, <1>6

(* A page of what rm removes is empty only at the end.                       *)
LEMMA RemovedPages ==
    ASSUME RowsOK, Removes, NEW answer \in Answers, answer.truncated
    PROVE  answer.marker # None /\ answer.items # <<>>
<1>0. OfObjects
    BY DEF OfObjects, Removes
<1>1. PICK a : answer = ListObjects(a)
    BY <1>0 DEF Answers, OfObjects, Removes, S3ListObjectsV2
<1> DEFINE P == {r \in ObjectsAfter(a) : CommonPrefix(r.key) = None}
           plain == Plain(ObjectsAfter(a))
<1>2. /\ answer.items = Take(plain, MaxKeys) /\ answer.truncated = (Len(plain) > MaxKeys)
      /\ answer.marker = IF Len(plain) > MaxKeys THEN plain[MaxKeys].key ELSE None
    BY <1>1 DEF ListObjects, ObjectsPage, Response
<1>3. Lists(plain, P, VersionOrder(P)) /\ P \subseteq Objects
    BY ObjectsListed
<1>4. \A r \in P : r.key \in Keys
    BY <1>3 DEF Objects, RowsOK, RowRecords
<1> HIDE DEF P, plain
<1>5. MaxKeys \in Nat \ {0} /\ None \notin Keys
    BY ListingAssumption
<1>6. Len(plain) > MaxKeys
    BY <1>2
<1>7. plain[MaxKeys] \in P
    BY <1>3, <1>5, <1>6, PageOfList
<1>8. plain \in Seq(P) /\ Len(plain) \in Nat
    BY <1>3 DEF Lists
<1>9. Len(Take(plain, MaxKeys)) = MaxKeys
    BY <1>5, <1>6, <1>8, TakeFirst
<1>10. answer.items # <<>>
    BY <1>2, <1>5, <1>9
<1> QED
    BY <1>2, <1>4, <1>5, <1>6, <1>7, <1>10

(* What was always there and is behind the page has been seen.               *)
LEMMA PageSees ==
    ASSUME RowsOK, TablesOK, WalkOK, HistoryOK, SeenAll, FoldersSeen, PlainPrefix, walk.pc = "page", walk.start = None,
           NEW answer \in Answers, answer.truncated => answer.marker # None,
           NEW x \in always, answer.marker # None => Passed(answer.marker, x)
    PROVE  /\ SteadyBy(walk.kind, walk.start, calm) /\ walk.kind # "rb" /\ Wanted(x) => x \in walk.seen \cup NamesOf(answer)
           /\ walk.kind = "objects" /\ Rolled(x) => CommonPrefix(x[1]) \in walk.prefixes \cup answer.prefixes
<1>0. x \in Present
    BY DEF HistoryOK
<1>1. CASE walk.token # None /\ Passed(walk.token, x)
    <2>1. DoneBy(walk.kind, ids, walk.pc, walk.token, x)
        BY <1>1, PassedNow DEF DoneBy
    <2> QED
        BY <2>1, SeenNow
<1>2. CASE OnPage(answer, x)
    <2>1. ASSUME SteadyBy(walk.kind, walk.start, calm), Wanted(x) PROVE x \in NamesOf(answer)
        <3>1. walk.kind = "versions" => calm
            BY <2>1 DEF SteadyBy
        <3>2. Onward(answer)
            BY <3>1, AnswersOnward
        <3>3. \E i \in DOMAIN answer.items : x = Name(answer.items[i])
            BY <3>2, <1>0, <1>2, <2>1, Zenon DEF Onward
        <3> QED
            BY <3>3 DEF NamesOf
    <2>2. ASSUME walk.kind = "objects", Rolled(x) PROVE CommonPrefix(x[1]) \in answer.prefixes
        <3>1. FoldersOK(answer)
            BY <2>2, AnswersOnward
        <3> QED
            BY <3>1, <1>0, <1>2, <2>2, Zenon DEF FoldersOK
    <2> QED
        BY <2>1, <2>2
<1> QED
    BY <1>1, <1>2, Zenon DEF OnPage

(* A page repeats nothing, and the walk has passed by what it has seen.      *)
LEMMA PageMoves ==
    ASSUME RowsOK, TablesOK, WalkOK, HistoryOK, Progress, walk.pc = "page", SteadyBy(walk.kind, walk.start, calm),
           walk.kind \notin OffsetKinds, walk.kind # "rb", NEW answer \in Answers
    PROVE  /\ walk.again \cup (walk.seen \cap NamesOf(answer)) = {}
           /\ answer.marker # None => \A x \in walk.seen \cup NamesOf(answer) : PassedBy(walk.kind, ids, answer.marker, x)
<1>1. ProgressBy(walk.kind, ids, walk.pc, walk.token, walk.seen, walk.again, always)
    BY ProgressNow
<1>2. Onward(answer)
    BY AnswersOnward DEF SteadyBy
<1>3. \A x \in NamesOf(answer) : OnPage(answer, x)
    BY <1>2 DEF Onward, NamesOf
<1>4. walk.again = {} /\ (walk.token = None => walk.seen = {})
    BY <1>1, Zenon DEF ProgressBy
<1>5. walk.token # None => \A x \in walk.seen : Passed(walk.token, x)
    BY <1>1, PassedNow, Zenon DEF ProgressBy
<1>6. walk.seen \cap NamesOf(answer) = {}
    BY <1>3, <1>4, <1>5, Zenon DEF OnPage
<1>7. ASSUME answer.marker # None, NEW x \in walk.seen \cup NamesOf(answer) PROVE Passed(answer.marker, x)
    <2>1. CASE x \in NamesOf(answer)
        BY <2>1, <1>3, <1>7, Zenon DEF OnPage
    <2>2. CASE x \in walk.seen
        <3>1. walk.token # None /\ Passed(walk.token, x)
            BY <2>2, <1>4, <1>5
        <3>2. x \in Nameable
            BY <2>2 DEF WalkOK
        <3> QED
            BY <3>1, <3>2, <1>2, <1>7, Zenon DEF Onward
    <2> QED
        BY <2>1, <2>2
<1> QED
    BY <1>4, <1>6, <1>7, PassedNow, Zenon

LEMMA NextPageSees ==
    ASSUME RowsOK, TablesOK, TablesOK', WalkOK, HistoryOK, Progress, SeenAll, FoldersSeen, NextPage
    PROVE  Progress' /\ SeenAll' /\ FoldersSeen'
<1>1. PICK answer \in Answers : \E pc \in {"done", "cut", "page"} :
            /\ Turned(answer, pc, answer.marker, walk.batch)
            /\ pc = "done" <=> ~answer.truncated
            /\ pc = "page" => answer.truncated /\ answer.marker # None
    BY NextPageTurns
<1>2. PICK pc \in {"done", "cut", "page"} :
            /\ Turned(answer, pc, answer.marker, walk.batch)
            /\ pc = "done" <=> ~answer.truncated
            /\ pc = "page" => answer.truncated /\ answer.marker # None
    BY <1>1
<1> DEFINE s == walk.seen \cup NamesOf(answer)
           a == walk.again \cup (walk.seen \cap NamesOf(answer))
           p == walk.prefixes \cup answer.prefixes
           t == answer.marker
<1>3. walk' = Walk(walk.kind, pc, walk.start, t, walk.batch, s, a, p)
    BY <1>2, TurnedIs
<1>4. /\ walk'.kind = walk.kind /\ walk'.pc = pc /\ walk'.start = walk.start /\ walk'.token = t
      /\ walk'.seen = s /\ walk'.again = a /\ walk'.prefixes = p
    <2> HIDE DEF s, a, p, t
    <2> QED
        BY <1>3, WalkFields
<1>5. /\ walk.pc = "page" /\ walk.kind # "rb" /\ always' = always /\ calm' = calm
      /\ ids \subseteq ids'
    BY DEF NextPage, Removes, Logged
<1>6. IsFiniteSet(ids')
    <2>1. ids' \in SUBSET PartNumbers /\ IsFiniteSet(PartNumbers)
        BY ListingAssumption DEF TablesOK
    <2> QED
        BY <2>1, FS_Subset
<1>7. walk.kind \in OffsetKinds /\ t # None => t \in Nat
    BY NamesAreNameable DEF TokenOK, ByOffset, OffsetKinds
<1>8. ASSUME SteadyBy(walk.kind, walk.start, calm)
      PROVE  ProgressBy(walk.kind, ids', pc, t, s, a, always)
    <2>1. pc = "page" => t # None
        BY <1>2
    <2>2. walk.kind \notin OffsetKinds => a = {} /\ (t # None => \A x \in s : PassedBy(walk.kind, ids, t, x))
        BY <1>5, <1>8, PageMoves
    <2>3. \A x : walk.kind \notin OffsetKinds => (PassedBy(walk.kind, ids, t, x) <=> PassedBy(walk.kind, ids', t, x))
        BY Zenon DEF PassedBy, OffsetKinds
    <2> HIDE DEF s, a, p, t
    <2> QED
        BY <1>5, <2>1, <2>2, <2>3, Zenon DEF ProgressBy
<1>9. Progress'
    BY <1>4, <1>5, <1>8, ProgressNext
<1>10. ASSUME NEW x \in always, PlainPrefix, walk.start = None, DoneBy(walk.kind, ids', pc, t, x)
       PROVE  /\ SteadyBy(walk.kind, walk.start, calm) /\ walk.kind # "rb" /\ Wanted(x) => x \in s
              /\ walk.kind = "objects" /\ Rolled(x) => CommonPrefix(x[1]) \in p
    <2>1. DoneBy(walk.kind, ids, pc, t, x)
        BY <1>5, <1>6, <1>7, <1>10, DoneBack
    <2>2. answer.truncated => answer.marker # None
        BY <1>2, <2>1 DEF DoneBy
    <2>3. ASSUME walk.kind = "versions" => calm PROVE answer.marker # None => Passed(answer.marker, x)
        <3>1. answer.truncated = FALSE => answer.marker = None
            BY <1>5, <1>10, <2>3, AnswersOnward DEF Onward
        <3>2. pc = "done" => answer.marker = None \/ Passed(answer.marker, x)
            BY <1>2, <3>1
        <3> QED
            BY <1>2, <2>1, <3>2, PassedNow DEF DoneBy
    <2>4. CASE walk.kind = "versions" => calm
        <3>1. answer.marker # None => Passed(answer.marker, x)
            BY <2>3, <2>4
        <3> QED
            BY <1>5, <1>10, <2>2, <3>1, PageSees
    <2>5. CASE ~(walk.kind = "versions" => calm)
        BY <2>5 DEF SteadyBy
    <2> QED
        BY <2>4, <2>5
<1>11. SeenAll' /\ FoldersSeen'
    <2> HIDE DEF s, a, p, t
    <2> QED
        BY <1>4, <1>5, <1>10, SeenNext
<1> QED
    BY <1>9, <1>11

LEMMA RemovePageSees ==
    ASSUME RowsOK, TablesOK, WalkOK, HistoryOK, Progress, SeenAll, FoldersSeen, RemovePage
    PROVE  Progress' /\ SeenAll' /\ FoldersSeen'
<1>1. PICK answer \in Answers : \E pc \in {"done", "delete"} :
            /\ Turned(answer, pc, IF walk.kind = "rb" THEN None ELSE answer.marker,
                      {answer.items[i].key : i \in DOMAIN answer.items})
            /\ pc = "done" <=> answer.items = <<>>
    BY RemovePageTurns
<1>2. PICK pc \in {"done", "delete"} :
            /\ Turned(answer, pc, IF walk.kind = "rb" THEN None ELSE answer.marker,
                      {answer.items[i].key : i \in DOMAIN answer.items})
            /\ pc = "done" <=> answer.items = <<>>
    BY <1>1
<1> DEFINE s == walk.seen \cup NamesOf(answer)
           a == walk.again \cup (walk.seen \cap NamesOf(answer))
           p == walk.prefixes \cup answer.prefixes
           t == IF walk.kind = "rb" THEN None ELSE answer.marker
           batch == {answer.items[i].key : i \in DOMAIN answer.items}
<1>3. walk' = Walk(walk.kind, pc, walk.start, t, batch, s, a, p)
    BY <1>2, TurnedIs
<1>4. /\ walk'.kind = walk.kind /\ walk'.pc = pc /\ walk'.start = walk.start /\ walk'.token = t
      /\ walk'.seen = s /\ walk'.again = a /\ walk'.prefixes = p
    <2> HIDE DEF s, a, p, t, batch
    <2> QED
        BY <1>3, WalkFields
<1>5. /\ walk.pc = "page" /\ Removes /\ always' = always /\ calm' = calm /\ ids' = ids
      /\ walk.kind \in {"rm", "rb"} /\ walk.kind \notin OffsetKinds
    BY DEF RemovePage, Removes, OffsetKinds
<1>6. answer.truncated => answer.marker # None /\ answer.items # <<>>
    BY <1>5, RemovedPages
<1>7. ASSUME SteadyBy(walk.kind, walk.start, calm)
      PROVE  ProgressBy(walk.kind, ids, pc, t, s, a, always)
    <2>1. pc # "page"
        BY <1>2
    <2>2. walk.kind # "rb" => a = {} /\ (t # None => \A x \in s : PassedBy(walk.kind, ids, t, x))
        BY <1>5, <1>7, PageMoves
    <2>3. walk.kind = "rb" => t = None
        OBVIOUS
    <2>4. pc = "done" /\ walk.kind = "rb" => always = {}
        <3>1. pc = "done" /\ walk.kind = "rb" => Present = {}
            BY <1>2, <1>5, <1>7, AnswersOnward DEF SteadyBy
        <3> QED
            BY <3>1 DEF HistoryOK
    <2> HIDE DEF s, a, p, t
    <2> QED
        BY <2>1, <2>2, <2>3, <2>4, Zenon DEF ProgressBy
<1>8. Progress'
    BY <1>4, <1>5, <1>7, ProgressNext
<1>9. ASSUME NEW x \in always, PlainPrefix, walk.start = None, DoneBy(walk.kind, ids, pc, t, x)
      PROVE  /\ SteadyBy(walk.kind, walk.start, calm) /\ walk.kind # "rb" /\ Wanted(x) => x \in s
             /\ walk.kind = "objects" /\ Rolled(x) => CommonPrefix(x[1]) \in p
    <2>0. walk.kind = "versions" => calm
        BY <1>5
    <2>1. CASE walk.kind = "rb"
        BY <2>1
    <2>2. CASE walk.kind # "rb"
        <3>1. answer.truncated = FALSE => answer.marker = None
            BY <1>5, <1>9, <2>0, AnswersOnward DEF Onward
        <3>2. answer.truncated \in BOOLEAN
            <4>1. PICK o : answer = ListObjects(o)
                BY <1>5 DEF Answers, OfObjects, Removes, S3ListObjectsV2
            <4>2. answer.truncated = (Len(Plain(ObjectsAfter(o))) > MaxKeys)
                BY <4>1 DEF ListObjects, ObjectsPage, Response
            <4> QED
                BY <4>2
        <3>3. pc = "done" => answer.marker = None
            BY <1>2, <1>6, <3>1, <3>2
        <3>4. answer.marker # None => Passed(answer.marker, x)
            BY <1>2, <1>9, <2>2, <3>3, PassedNow DEF DoneBy
        <3> QED
            BY <1>5, <1>6, <1>9, <3>4, PageSees
    <2> QED
        BY <2>1, <2>2
<1>10. SeenAll' /\ FoldersSeen'
    <2> HIDE DEF s, a, p, t
    <2> QED
        BY <1>4, <1>5, <1>9, SeenNext
<1> QED
    BY <1>8, <1>10

LEMMA BatchSentSees ==
    ASSUME WalkOK, Progress, SeenAll, FoldersSeen, BatchSent
    PROVE  Progress' /\ SeenAll' /\ FoldersSeen'
<1> DEFINE c == IF walk.kind = "rm" /\ walk.token = None THEN "done" ELSE "page"
<1>1. walk' = Walk(walk.kind, c, walk.start, walk.token, walk.batch, walk.seen, walk.again, walk.prefixes)
    BY BatchSentIs
<1>2. /\ walk'.kind = walk.kind /\ walk'.pc = c /\ walk'.start = walk.start /\ walk'.token = walk.token
      /\ walk'.seen = walk.seen /\ walk'.again = walk.again /\ walk'.prefixes = walk.prefixes
    <2> HIDE DEF c
    <2> QED
        BY <1>1, WalkFields
<1>3. /\ walk.pc = "delete" /\ walk.kind \in {"rm", "rb"} /\ (walk.kind = "rb" => walk.token = None)
      /\ always' = always /\ calm' = calm /\ ids' = ids
    BY DEF BatchSent, WalkOK, Removes
<1>4. ASSUME SteadyBy(walk.kind, walk.start, calm)
      PROVE  ProgressBy(walk.kind, ids, c, walk.token, walk.seen, walk.again, always)
    <2>1. ProgressBy(walk.kind, ids, walk.pc, walk.token, walk.seen, walk.again, always)
        BY <1>4, ProgressNow
    <2> QED
        BY <1>3, <2>1 DEF ProgressBy
<1>5. Progress'
    BY <1>2, <1>3, <1>4, ProgressNext
<1>6. ASSUME NEW x \in always, PlainPrefix, walk.start = None, DoneBy(walk.kind, ids, c, walk.token, x)
      PROVE  /\ SteadyBy(walk.kind, walk.start, calm) /\ walk.kind # "rb" /\ Wanted(x) => x \in walk.seen
             /\ walk.kind = "objects" /\ Rolled(x) => CommonPrefix(x[1]) \in walk.prefixes
    <2>1. DoneBy(walk.kind, ids, walk.pc, walk.token, x)
        BY <1>3, <1>6 DEF DoneBy
    <2> QED
        BY <1>6, <2>1, SeenNow
<1>7. SeenAll' /\ FoldersSeen'
    <2> HIDE DEF c
    <2> QED
        BY <1>2, <1>3, <1>6, SeenNext
<1> QED
    BY <1>5, <1>7

(* A walk that begins or is over has nothing behind it.                      *)
LEMMA FreshSees ==
    ASSUME walk'.kind = walk.kind, walk'.token = None, walk'.seen = {}, walk'.again = {}, walk'.pc \in {"idle", "page"}
    PROVE  Progress' /\ SeenAll' /\ FoldersSeen'
<1>1. ProgressBy(walk.kind, ids', walk'.pc, walk'.token, walk'.seen, walk'.again, always')
    BY DEF ProgressBy
<1>2. \A x : ~DoneBy(walk.kind, ids', walk'.pc, walk'.token, x)
    BY DEF DoneBy
<1> QED
    BY <1>1, <1>2, ProgressNext, SeenNext

LEMMA WalkSees ==
    ASSUME RowsOK, TablesOK, TablesOK', WalkOK, HistoryOK, Progress, SeenAll, FoldersSeen, [Next]_vars
    PROVE  Progress' /\ SeenAll' /\ FoldersSeen'
<1>0. calm \in BOOLEAN
    BY DEF HistoryOK
<1>1. ASSUME NEW quiet \in BOOLEAN, KeepWatch(quiet),
             SteadyBy(walk.kind, walk.start, calm') /\ walk.kind \in OffsetKinds => ids \subseteq ids'
      PROVE  Progress' /\ SeenAll' /\ FoldersSeen'
    <2>1. /\ walk' = walk /\ always' \subseteq always
          /\ calm' => calm
        BY <1>0, <1>1 DEF KeepWatch
    <2> QED
        BY <2>1, <1>1, Quiet
<1>2. CASE StartWalk
    <2>1. PICK start : walk' = Walk(walk.kind, "page", start, None, walk.batch, {}, {}, {})
        BY <1>2, StartWalkIs
    <2>2. walk'.kind = walk.kind /\ walk'.token = None /\ walk'.seen = {} /\ walk'.again = {} /\ walk'.pc = "page"
        BY <2>1, WalkFields
    <2> QED
        BY <2>2, FreshSees
<1>3. CASE NextPage
    BY <1>3, NextPageSees
<1>4. CASE Ls \/ EndWalk
    <2>1. walk' = Walk(walk.kind, "idle", walk.start, None, walk.batch, {}, {}, {})
        BY <1>4, FreshIs DEF Ls, EndWalk
    <2>2. walk'.kind = walk.kind /\ walk'.token = None /\ walk'.seen = {} /\ walk'.again = {} /\ walk'.pc = "idle"
        BY <2>1, WalkFields
    <2> QED
        BY <2>2, FreshSees
<1>5. CASE RemovePage
    BY <1>5, RemovePageSees
<1>6. CASE BatchSent
    BY <1>6, BatchSentSees
<1>7. CASE DeleteOfBatch
    <2>1. PICK k \in walk.batch :
            walk' = Walk(walk.kind, walk.pc, walk.start, walk.token, walk.batch \ {k}, walk.seen, walk.again, walk.prefixes)
        BY <1>7, DeleteOfBatchIs
    <2>2. /\ walk'.kind = walk.kind /\ walk'.pc = walk.pc /\ walk'.start = walk.start /\ walk'.token = walk.token
          /\ walk'.seen = walk.seen /\ walk'.again = walk.again /\ walk'.prefixes = walk.prefixes
        BY <2>1, WalkFields
    <2>3. always' \subseteq always /\ calm' = calm /\ ids' = ids
        BY <1>7 DEF DeleteOfBatch
    <2> QED
        BY <2>2, <2>3, Quiet
<1>8. CASE WriteVersion
    <2>1. PICK marker \in BOOLEAN : KeepWatch(~marker)
        BY <1>8 DEF WriteVersion
    <2>2. (~marker) \in BOOLEAN /\ ids' = ids
        BY <1>8 DEF WriteVersion
    <2> QED
        BY <2>1, <2>2, <1>1
<1>9. CASE DeleteVersion \/ UploadPart \/ BeginOrEndUpload
    <2>1. (KeepWatch(FALSE) \/ KeepWatch(TRUE)) /\ ids' = ids
        BY <1>9 DEF DeleteVersion, UploadPart, BeginOrEndUpload
    <2> QED
        BY <2>1, <1>1
<1>10. CASE CreateOrDeleteName
    <2>1. \/ KeepWatch(TRUE) /\ ids \subseteq ids'
          \/ KeepWatch(FALSE)
        BY <1>10 DEF CreateOrDeleteName
    <2>2. walk.kind = "names"
        BY <1>10 DEF CreateOrDeleteName
    <2>3. KeepWatch(FALSE) => ~SteadyBy(walk.kind, walk.start, calm')
        BY <2>2 DEF KeepWatch, SteadyBy
    <2> QED
        BY <2>1, <2>3, <1>1
<1>11. CASE AppendToLog
    <2>1. KeepWatch(TRUE) /\ ids \subseteq ids'
        BY <1>11 DEF AppendToLog, Logged
    <2> QED
        BY <2>1, <1>1
<1>12. CASE UNCHANGED vars
    <2>1. walk' = walk /\ always' \subseteq always /\ calm' = calm /\ ids' = ids
        BY <1>12 DEF vars
    <2> QED
        BY <2>1, Quiet
<1> QED
    BY <1>2, <1>3, <1>4, <1>5, <1>6, <1>7, <1>8, <1>9, <1>10, <1>11, <1>12 DEF Next

LEMMA ListingStarts == Init => ListingInv
<1> SUFFICES ASSUME Init PROVE ListingInv
    OBVIOUS
<1>1. PICK kind \in Kinds : walk = Walk(kind, "idle", None, None, {}, {}, {}, {})
    BY DEF Init, Walk
<1>2. /\ walk.kind \in Kinds /\ walk.pc = "idle" /\ walk.start = None /\ walk.token = None
      /\ walk.batch = {} /\ walk.seen = {} /\ walk.again = {} /\ walk.prefixes = {}
    BY <1>1, WalkFields
<1>3. RowsOK
    BY ListingAssumption DEF Init, RowsOK
<1>4. TablesOK
    <2>1. Cardinality({}) = 0
        BY FS_EmptySet
    <2>2. ids = {} /\ parts = {} /\ uploads = {}
        BY DEF Init
    <2>3. 1 .. 0 = {}
        OBVIOUS
    <2> QED
        BY <2>1, <2>2, <2>3 DEF TablesOK
<1>5. WalkOK
    <2> DEFINE T == Keys \cup RowRecords \cup Nat \cup {None}
               F == FolderNames
               L == Listable
               S == StartAfters \cup {None}
    <2>1. walk \in [kind: Kinds, pc: {"idle", "page", "delete", "done", "cut"}, start: S, token: T, batch: SUBSET Keys,
                    seen: SUBSET L, again: SUBSET L, prefixes: SUBSET F]
        <3>1. None \in T /\ None \in S
            OBVIOUS
        <3> HIDE DEF T, F, L, S
        <3> QED
            BY <3>1, <1>1 DEF Walk
    <2>2. TokenOK(walk.token)
        BY <1>2 DEF TokenOK
    <2>3. versioned = ~Removes
        BY DEF Init
    <2> QED
        BY <1>2, <2>1, <2>2, <2>3 DEF WalkOK
<1>6. HistoryOK
    BY <1>2 DEF Init, HistoryOK
<1>7. Progress
    BY <1>2 DEF Progress
<1>8. SeenAll /\ FoldersSeen
    BY <1>2 DEF Init, SeenAll, FoldersSeen
<1> QED
    BY <1>3, <1>4, <1>5, <1>6, <1>7, <1>8 DEF ListingInv

LEMMA ListingSteps == ListingInv /\ [Next]_vars => ListingInv'
<1> SUFFICES ASSUME ListingInv, [Next]_vars PROVE ListingInv'
    OBVIOUS
<1>1. RowsOK /\ TablesOK /\ WalkOK /\ HistoryOK /\ Progress /\ SeenAll /\ FoldersSeen
    BY DEF ListingInv
<1>2. RowsOK'
    BY <1>1, RowsStay
<1>3. TablesOK'
    BY <1>1, TablesStay
<1>4. WalkOK'
    BY <1>1, WalkStays
<1>5. HistoryOK'
    BY <1>1, HistoryStays
<1>6. Progress' /\ SeenAll' /\ FoldersSeen'
    BY <1>1, <1>3, WalkSees
<1> QED
    BY <1>2, <1>3, <1>4, <1>5, <1>6 DEF ListingInv

-----------------------------------------------------------------------------
(* The invariant: rows are numbered in the order of their writing, what the  *)
(* walk was given and what its marker has passed by agree, and what was      *)
(* there since the walk began and is behind the marker has been listed.      *)
THEOREM ListingInvariant == Spec => []ListingInv
BY ListingStarts, ListingSteps, PTL DEF Spec

(* Whatever is put, deleted and listed, a key has at most one latest row     *)
(* (put_object, delete_object, localfs.rs), rows are numbered by what was    *)
(* written, and a walk is given nothing but names its table may hold.        *)
THEOREM TypeCorrect == Spec => []TypeOK
<1>1. ListingInv => TypeOK
    <2> SUFFICES ASSUME ListingInv PROVE TypeOK
        OBVIOUS
    <2>1. RowsOK /\ TablesOK /\ WalkOK
        BY DEF ListingInv
    <2>2. rows \subseteq [key: Keys, vid: 1 .. clock, marker: BOOLEAN, latest: BOOLEAN]
        <3> SUFFICES ASSUME NEW r \in rows PROVE r \in [key: Keys, vid: 1 .. clock, marker: BOOLEAN, latest: BOOLEAN]
            OBVIOUS
        <3>1. r \in [key: Keys, vid: 1 .. MaxRows, marker: BOOLEAN, latest: BOOLEAN]
            BY <2>1 DEF RowsOK, RowRecords
        <3>2. MaxRows \in Nat /\ clock \in Nat /\ r.vid \in 1 .. MaxRows /\ r.vid <= clock
            BY <2>1, <3>1, ListingAssumption DEF RowsOK
        <3>3. r.vid \in 1 .. clock
            BY <3>2
        <3> QED
            BY <3>1, <3>3
    <2>3. ASSUME NEW k \in Keys PROVE Cardinality({r \in rows : r.key = k /\ r.latest}) <= 1
        <3> DEFINE S == {r \in rows : r.key = k /\ r.latest}
        <3>1. \A r, s \in S : r = s
            <4> SUFFICES ASSUME NEW r \in S, NEW s \in S PROVE r = s
                OBVIOUS
            <4>1. r \in RowRecords /\ s \in RowRecords
                BY <2>1 DEF RowsOK
            <4>2. r.vid \in Nat /\ s.vid \in Nat
                BY <4>1 DEF RowRecords
            <4>3. r.vid <= s.vid /\ s.vid <= r.vid
                BY <2>1 DEF RowsOK
            <4>4. r.vid = s.vid
                BY <4>2, <4>3
            <4> QED
                BY <4>4, <2>1 DEF RowsOK
        <3> HIDE DEF S
        <3>2. CASE S = {}
            BY <3>2, FS_EmptySet DEF S
        <3>3. CASE S # {}
            <4>1. PICK r \in S : TRUE
                BY <3>3
            <4>2. S = {r}
                BY <3>1, <4>1
            <4>3. Cardinality(S) = 1
                BY <4>2, FS_Singleton
            <4> QED
                BY <4>3 DEF S
        <3> QED
            BY <3>2, <3>3
    <2>4. clock \in 0 .. MaxRows /\ parts \subseteq PartNumbers /\ uploads \subseteq Keys /\ ids \subseteq PartNumbers
        BY <2>1 DEF RowsOK, TablesOK
    <2>5. walk.again \subseteq walk.seen /\ walk.seen \subseteq Listable
        BY <2>1 DEF WalkOK
    <2> QED
        BY <2>2, <2>3, <2>4, <2>5 DEF TypeOK
<1> QED
    BY <1>1, ListingInvariant, PTL

(* A client that pages to the end of a listing is given, once, all that was  *)
(* there during the whole walk (list_objects, list_object_versions,          *)
(* list_parts, and the offsets of the admin API), for every bucket, page     *)
(* size and interleaving of puts and deletes with the pages; if the prefix   *)
(* has no "%", whose escape the queries use without an ESCAPE clause, so     *)
(* that keys which do begin with such a prefix are not listed.               *)
THEOREM WalksExact == Spec => [](PlainPrefix => WalksAreExact)
<1>1. ListingInv => (PlainPrefix => WalksAreExact)
    <2> SUFFICES ASSUME ListingInv, PlainPrefix, walk.pc = "done", walk.start = None,
                        walk.kind \in {"versions", "names"} => calm, NEW x \in always, Wanted(x)
                 PROVE  x \in walk.seen /\ (x \in walk.again => ByOffset)
        BY DEF WalksAreExact
    <2>1. Steady /\ Progress /\ SeenAll /\ Done(x)
        BY DEF Steady, ListingInv, Done
    <2>2. walk.kind # "rb"
        BY <2>1 DEF Progress
    <2>3. x \in walk.seen
        BY <2>1, <2>2 DEF SeenAll
    <2>4. ByOffset \/ walk.again = {}
        BY <2>1, <2>2 DEF Progress
    <2> QED
        BY <2>3, <2>4
<1> QED
    BY <1>1, ListingInvariant, PTL

(* A walk with a delimiter names every folder that held a key all the while, *)
(* though the keys rolled up into it are no part of any page and its marker  *)
(* is the last key that was returned (list_objects' loop, localfs.rs).       *)
THEOREM FoldersListed == Spec => [](PlainPrefix => FoldersComplete)
<1>1. ListingInv => (PlainPrefix => FoldersComplete)
    BY DEF ListingInv, FoldersSeen, FoldersComplete, Rolled, Done
<1> QED
    BY <1>1, ListingInvariant, PTL

(* A client that goes on from the marker it was given (a continuation token, *)
(* next_key_marker, next_part_number_marker, an offset) is given one that is *)
(* past it, in the order of the table listed, whatever is written and        *)
(* deleted in between, the marker's own row included, and whatever the       *)
(* prefix.  It is not about rb, which goes on from no marker, nor about      *)
(* start_after, by which ListObjectsV2 starts every page at the same key.    *)
THEOREM PagesGoOn == Spec => PagesAdvance
<1> DEFINE Advance ==
        walk.pc = "page" /\ GoesByMarker /\ walk.token # None /\ walk'.token # None =>
            CASE OfObjects -> Less(walk.token, walk'.token)
              [] walk.kind = "versions" -> VersionsFirst(walk.token, walk'.token)
              [] OTHER -> walk.token < walk'.token
<1>1. ListingInv /\ [Next]_vars => [Advance]_walk
    <2> SUFFICES ASSUME ListingInv, Next, walk.pc = "page", GoesByMarker, walk.token # None, walk'.token # None,
                        walk' # walk
                 PROVE  CASE OfObjects -> Less(walk.token, walk'.token)
                          [] walk.kind = "versions" -> VersionsFirst(walk.token, walk'.token)
                          [] OTHER -> walk.token < walk'.token
        BY DEF vars
    <2>1. RowsOK /\ TablesOK /\ WalkOK /\ HistoryOK /\ walk.start = None
        BY DEF ListingInv, GoesByMarker
    <2>2. NextPage \/ RemovePage \/ Ls
        BY DEF Next, StartWalk, BatchSent, EndWalk, WriteVersion, DeleteVersion, DeleteOfBatch, UploadPart,
            BeginOrEndUpload, CreateOrDeleteName, AppendToLog, KeepWatch
    <2>3. ~Ls
        <3>1. Ls => walk' = Walk(walk.kind, "idle", walk.start, None, walk.batch, {}, {}, {})
            BY <2>1, FreshIs DEF Ls
        <3> QED
            BY <3>1, WalkFields
    <2>4. \E answer \in Answers : walk'.token = answer.marker
        <3>1. CASE NextPage
            BY <2>1, <3>1, NextPageTurns DEF Turned
        <3>2. CASE RemovePage
            <4>1. \E answer \in Answers : walk'.token = IF walk.kind = "rb" THEN None ELSE answer.marker
                BY <2>1, <3>2, RemovePageTurns DEF Turned
            <4> QED
                BY <4>1
        <3> QED
            BY <2>2, <2>3, <3>1, <3>2
    <2>5. PICK answer \in Answers : walk'.token = answer.marker
        BY <2>4
    <2>6. CASE walk.kind = "versions" => calm
        <3>1. After(walk.token, answer.marker)
            BY <2>1, <2>5, <2>6, AnswersOnward DEF Onward
        <3> QED
            BY <2>5, <3>1 DEF After
    <2>7. CASE walk.kind = "versions"
        <3>1. answer = ListObjectVersions(walk.token)
            BY <2>7 DEF Answers, Removes, S3ListObjectVersions
        <3>2. answer.marker \in VersionsAfter(walk.token)
            BY <2>1, <2>5, <3>1, VersionsAnswer
        <3>3. VersionsFirst(walk.token, walk'.token)
            BY <2>5, <3>2 DEF VersionsAfter
        <3> QED
            BY <2>7, <3>3 DEF OfObjects
    <2> QED
        BY <2>6, <2>7
<1>2. PagesAdvance <=> [][Advance]_walk
    BY DEF PagesAdvance
<1> HIDE DEF Advance
<1> QED
    BY <1>1, <1>2, ListingInvariant, PTL DEF Spec
=============================================================================
