--------------------------- MODULE IamStoreProofs ---------------------------
(* Theorems about policy evaluation and lemmas about the IAM tables.         *)
(*                                                                           *)
(* The dynamic programming of matches_wildcard computes what wildcard        *)
(* patterns mean, and so Evaluate decides by the statements that cover a     *)
(* request, denials first.  The table is filled in the order of i + j, so    *)
(* both the existence of the table and its meaning are proved by induction   *)
(* on that sum; the induction principle is the least element principle of    *)
(* WellFoundedInduction, stated for a set of numbers.                        *)
(*                                                                           *)
(* Every function of the store keeps the tables typed and linked, whatever   *)
(* it is called with: modules S3AccessProofs and ConsoleProofs use that.     *)
EXTENDS IamStore, FiniteSetTheorems, WellFoundedInduction, TLAPS

(* A set of numbers that has 0 and every successor has them all.             *)
LEMMA SetInduction ==
    ASSUME NEW S, 0 \in S, \A n \in Nat : n \in S => n + 1 \in S
    PROVE  \A n \in Nat : n \in S
<1> DEFINE T == Nat \ S
<1> SUFFICES ASSUME T # {} PROVE FALSE
    OBVIOUS
<1>1. IsWellFoundedOn(OpToRel(<, Nat), Nat)
    BY NatLessThanWellFounded
<1>2. PICK x \in T : \A y \in T : ~ (<<y, x>> \in OpToRel(<, Nat))
    <2>1. T \subseteq Nat
        OBVIOUS
    <2> HIDE DEF T
    <2> QED
        BY <2>1, <1>1, WFMin
<1>3. \A y \in Nat : y < x => y \in S
    BY <1>2 DEF OpToRel
<1>4. CASE x = 0
    BY <1>4
<1>5. CASE x # 0
    <2>1. x - 1 \in Nat /\ x - 1 < x /\ (x - 1) + 1 = x
        BY <1>5
    <2> QED
        BY <2>1, <1>3
<1> QED
    BY <1>4, <1>5

-----------------------------------------------------------------------------
(* The table.                                                                *)

(* What matches_wildcard writes into cell c of the table f.                  *)
Cell(pattern, value, f, c) ==
    LET i == c[1]
        j == c[2]
    IN  \/ i = 0 /\ j = 0
        \/ /\ i > 0
           /\ pattern[i] = "*"
           /\ f[<<i - 1, j>>] \/ (j > 0 /\ f[<<i, j - 1>>])
        \/ /\ i > 0 /\ j > 0
           /\ pattern[i] # "*"
           /\ pattern[i] \in {"?", value[j]}
           /\ f[<<i - 1, j - 1>>]

IsTable(pattern, value, f) ==
    f = [c \in Cells(pattern, value) |-> Cell(pattern, value, f, c)]

Table(pattern, value) == CHOOSE f : IsTable(pattern, value, f)

(* A cell depends on cells of a smaller sum only.                            *)
LEMMA CellDepends ==
    ASSUME NEW p, NEW v, Len(p) \in Nat, Len(v) \in Nat,
           NEW f, NEW g, NEW c \in Cells(p, v),
           \A b \in Cells(p, v) : b[1] + b[2] < c[1] + c[2] => f[b] = g[b]
    PROVE  Cell(p, v, f, c) = Cell(p, v, g, c)
<1> DEFINE i == c[1]
           j == c[2]
<1>1. i \in 0 .. Len(p) /\ j \in 0 .. Len(v) /\ c = <<i, j>>
    BY DEF Cells
<1> HIDE DEF i, j
<1>2. i > 0 => f[<<i - 1, j>>] = g[<<i - 1, j>>]
    <2> SUFFICES ASSUME i > 0 PROVE f[<<i - 1, j>>] = g[<<i - 1, j>>]
        OBVIOUS
    <2>1. <<i - 1, j>> \in Cells(p, v)
        BY <1>1 DEF Cells
    <2>2. <<i - 1, j>>[1] + <<i - 1, j>>[2] < c[1] + c[2]
        BY <1>1
    <2> QED
        BY <2>1, <2>2
<1>3. j > 0 => f[<<i, j - 1>>] = g[<<i, j - 1>>]
    <2> SUFFICES ASSUME j > 0 PROVE f[<<i, j - 1>>] = g[<<i, j - 1>>]
        OBVIOUS
    <2>1. <<i, j - 1>> \in Cells(p, v)
        BY <1>1 DEF Cells
    <2>2. <<i, j - 1>>[1] + <<i, j - 1>>[2] < c[1] + c[2]
        BY <1>1
    <2> QED
        BY <2>1, <2>2
<1>4. i > 0 /\ j > 0 => f[<<i - 1, j - 1>>] = g[<<i - 1, j - 1>>]
    <2> SUFFICES ASSUME i > 0, j > 0 PROVE f[<<i - 1, j - 1>>] = g[<<i - 1, j - 1>>]
        OBVIOUS
    <2>1. <<i - 1, j - 1>> \in Cells(p, v)
        BY <1>1 DEF Cells
    <2>2. <<i - 1, j - 1>>[1] + <<i - 1, j - 1>>[2] < c[1] + c[2]
        BY <1>1
    <2> QED
        BY <2>1, <2>2
<1> QED
    BY <1>1, <1>2, <1>3, <1>4 DEF Cell

(* There is a table: it can be filled up to any sum of the indices.          *)
LEMMA TableExists ==
    ASSUME NEW p, NEW v, Len(p) \in Nat, Len(v) \in Nat
    PROVE  \E f : IsTable(p, v, f)
<1> DEFINE Filled(f, n) == \A c \in Cells(p, v) : c[1] + c[2] < n => f[c] = Cell(p, v, f, c)
           Fillable == {n \in Nat : \E f \in [Cells(p, v) -> BOOLEAN] : Filled(f, n)}
<1>1. 0 \in Fillable
    <2> DEFINE f == [c \in Cells(p, v) |-> FALSE]
    <2>1. f \in [Cells(p, v) -> BOOLEAN]
        OBVIOUS
    <2>2. Filled(f, 0)
        BY DEF Cells
    <2> HIDE DEF f
    <2> QED
        BY <2>1, <2>2
<1>2. ASSUME NEW n \in Nat, n \in Fillable PROVE n + 1 \in Fillable
    <2>1. PICK f \in [Cells(p, v) -> BOOLEAN] : Filled(f, n)
        BY <1>2
    <2> DEFINE g == [c \in Cells(p, v) |-> IF c[1] + c[2] < n THEN f[c] ELSE Cell(p, v, f, c)]
    <2>2. g \in [Cells(p, v) -> BOOLEAN]
        BY DEF Cell
    <2>3. \A c \in Cells(p, v) : g[c] = IF c[1] + c[2] < n THEN f[c] ELSE Cell(p, v, f, c)
        OBVIOUS
    <2> HIDE DEF g
    <2>4. ASSUME NEW c \in Cells(p, v), c[1] + c[2] < n + 1 PROVE g[c] = Cell(p, v, g, c)
        <3>0. c[1] \in Nat /\ c[2] \in Nat
            BY DEF Cells
        <3>1. \A b \in Cells(p, v) : b[1] + b[2] < c[1] + c[2] => f[b] = g[b]
            <4> SUFFICES ASSUME NEW b \in Cells(p, v), b[1] + b[2] < c[1] + c[2] PROVE f[b] = g[b]
                OBVIOUS
            <4>1. b[1] \in Nat /\ b[2] \in Nat
                BY DEF Cells
            <4> QED
                BY <4>1, <3>0, <2>3, <2>4
        <3>2. Cell(p, v, f, c) = Cell(p, v, g, c)
            BY <3>1, CellDepends
        <3>3. g[c] = Cell(p, v, f, c)
            BY <2>1, <2>3
        <3> QED
            BY <3>2, <3>3
    <2> QED
        BY <2>2, <2>4
<1>3. Len(p) + Len(v) + 1 \in Fillable
    <2> HIDE DEF Fillable
    <2>1. \A n \in Nat : n \in Fillable
        BY <1>1, <1>2, SetInduction
    <2> QED
        BY <2>1
<1>4. PICK f \in [Cells(p, v) -> BOOLEAN] : Filled(f, Len(p) + Len(v) + 1)
    BY <1>3
<1>5. \A c \in Cells(p, v) : c[1] + c[2] < Len(p) + Len(v) + 1
    BY DEF Cells
<1>6. \A c \in Cells(p, v) : f[c] = Cell(p, v, f, c)
    BY <1>4, <1>5
<1> QED
    BY <1>6 DEF IsTable

(* matches_wildcard returns the last cell of a table.                        *)
LEMMA MatcherReadsTable ==
    ASSUME NEW p, NEW v, Len(p) \in Nat, Len(v) \in Nat
    PROVE  /\ MatchesWildcard(p, v) = Table(p, v)[<<Len(p), Len(v)>>]
           /\ IsTable(p, v, Table(p, v))
<1>1. MatchesWildcard(p, v) = Table(p, v)[<<Len(p), Len(v)>>]
    BY DEF MatchesWildcard, Table, IsTable, Cell
<1>2. IsTable(p, v, Table(p, v))
    BY TableExists, Zenon DEF Table
<1> QED
    BY <1>1, <1>2

-----------------------------------------------------------------------------
(* What the cells mean.                                                      *)

(* The first i tokens of the pattern end at place j of the value for some    *)
(* cut of the value.                                                         *)
EndsAt(pattern, value, cut, i, j) ==
    /\ cut \in [0 .. Len(pattern) -> 0 .. Len(value)]
    /\ cut[0] = 0
    /\ cut[i] = j
    /\ \A k \in 1 .. i :
        /\ cut[k - 1] <= cut[k]
        /\ pattern[k] # "*" =>
            cut[k] = cut[k - 1] + 1 /\ pattern[k] \in {"?", value[cut[k]]}

PrefixDenotes(pattern, value, i, j) == \E cut : EndsAt(pattern, value, cut, i, j)

LEMMA WholeDenotes ==
    ASSUME NEW p, NEW v
    PROVE  Denotes(p, v) <=> PrefixDenotes(p, v, Len(p), Len(v))
BY DEF Denotes, PrefixDenotes, EndsAt

LEMMA NoTokens ==
    ASSUME NEW p, NEW v, Len(p) \in Nat, Len(v) \in Nat, NEW j \in 0 .. Len(v)
    PROVE  PrefixDenotes(p, v, 0, j) <=> j = 0
<1>1. ASSUME j = 0 PROVE PrefixDenotes(p, v, 0, j)
    <2> DEFINE cut == [i \in 0 .. Len(p) |-> 0]
    <2>1. EndsAt(p, v, cut, 0, j)
        BY <1>1 DEF EndsAt
    <2> QED
        BY <2>1 DEF PrefixDenotes
<1> QED
    BY <1>1 DEF PrefixDenotes, EndsAt

(* A cut that ends i - 1 tokens at some place, moved to end i tokens at j.   *)
LEMMA MovedCut ==
    ASSUME NEW p, NEW v, Len(p) \in Nat, Len(v) \in Nat,
           NEW i \in 1 .. Len(p), NEW j \in 0 .. Len(v), NEW j0 \in 0 .. Len(v),
           NEW cut, EndsAt(p, v, cut, i - 1, j0), j0 <= j,
           p[i] # "*" => j = j0 + 1 /\ p[i] \in {"?", v[j]}
    PROVE  PrefixDenotes(p, v, i, j)
<1> DEFINE new == [cut EXCEPT ![i] = j]
<1>0. cut \in [0 .. Len(p) -> 0 .. Len(v)]
    BY DEF EndsAt
<1>1. new \in [0 .. Len(p) -> 0 .. Len(v)] /\ new[i] = j /\ \A k \in 0 .. i - 1 : new[k] = cut[k]
    BY <1>0
<1> HIDE DEF new
<1>2. new[0] = 0
    BY <1>1 DEF EndsAt
<1>3. ASSUME NEW k \in 1 .. i
      PROVE  /\ new[k - 1] <= new[k]
             /\ p[k] # "*" => new[k] = new[k - 1] + 1 /\ p[k] \in {"?", v[new[k]]}
    <2>1. CASE k = i
        BY <2>1, <1>1 DEF EndsAt
    <2>2. CASE k # i
        <3>1. k \in 1 .. i - 1 /\ k \in 0 .. i - 1 /\ k - 1 \in 0 .. i - 1
            BY <2>2
        <3>2. new[k] = cut[k] /\ new[k - 1] = cut[k - 1]
            BY <3>1, <1>1
        <3> QED
            BY <3>1, <3>2 DEF EndsAt
    <2> QED
        BY <2>1, <2>2
<1>4. EndsAt(p, v, new, i, j)
    BY <1>1, <1>2, <1>3 DEF EndsAt
<1> QED
    BY <1>4 DEF PrefixDenotes

(* A cut of i tokens is a cut of i - 1 tokens.                               *)
LEMMA ShorterCut ==
    ASSUME NEW p, NEW v, Len(p) \in Nat, Len(v) \in Nat,
           NEW i \in 1 .. Len(p), NEW j, NEW cut, EndsAt(p, v, cut, i, j)
    PROVE  EndsAt(p, v, cut, i - 1, cut[i - 1])
<1>1. \A k \in 1 .. i - 1 : k \in 1 .. i
    OBVIOUS
<1> QED
    BY <1>1 DEF EndsAt

(* The last token is a star: it takes nothing, or one token more.            *)
LEMMA StarLast ==
    ASSUME NEW p, NEW v, Len(p) \in Nat, Len(v) \in Nat,
           NEW i \in 1 .. Len(p), NEW j \in 0 .. Len(v), p[i] = "*"
    PROVE  PrefixDenotes(p, v, i, j)
            <=> PrefixDenotes(p, v, i - 1, j) \/ (j > 0 /\ PrefixDenotes(p, v, i, j - 1))
<1>1. ASSUME PrefixDenotes(p, v, i, j)
      PROVE  PrefixDenotes(p, v, i - 1, j) \/ (j > 0 /\ PrefixDenotes(p, v, i, j - 1))
    <2>1. PICK cut : EndsAt(p, v, cut, i, j)
        BY <1>1 DEF PrefixDenotes
    <2> DEFINE j0 == cut[i - 1]
    <2>2. j0 \in 0 .. Len(v) /\ j0 <= j
        <3>1. i \in 1 .. i /\ i - 1 \in 0 .. Len(p)
            OBVIOUS
        <3> QED
            BY <2>1, <3>1 DEF EndsAt
    <2>3. EndsAt(p, v, cut, i - 1, j0)
        BY <2>1, ShorterCut
    <2>4. CASE j0 = j
        BY <2>3, <2>4 DEF PrefixDenotes
    <2>5. CASE j0 # j
        <3> HIDE DEF j0
        <3>1. j > 0 /\ j - 1 \in 0 .. Len(v) /\ j0 <= j - 1
            BY <2>2, <2>5
        <3>2. PrefixDenotes(p, v, i, j - 1)
            BY <3>1, <2>2, <2>3, MovedCut
        <3> QED
            BY <3>1, <3>2
    <2> QED
        BY <2>4, <2>5
<1>2. ASSUME PrefixDenotes(p, v, i - 1, j) PROVE PrefixDenotes(p, v, i, j)
    <2>1. PICK cut : EndsAt(p, v, cut, i - 1, j)
        BY <1>2 DEF PrefixDenotes
    <2> QED
        BY <2>1, MovedCut
<1>3. ASSUME j > 0, PrefixDenotes(p, v, i, j - 1) PROVE PrefixDenotes(p, v, i, j)
    <2>1. PICK cut : EndsAt(p, v, cut, i, j - 1)
        BY <1>3 DEF PrefixDenotes
    <2> DEFINE j0 == cut[i - 1]
    <2>2. j0 \in 0 .. Len(v) /\ j0 <= j
        BY <2>1, <1>3 DEF EndsAt
    <2>3. EndsAt(p, v, cut, i - 1, j0)
        BY <2>1, ShorterCut
    <2> HIDE DEF j0
    <2> QED
        BY <2>2, <2>3, MovedCut
<1> QED
    BY <1>1, <1>2, <1>3

(* The last token is none: it takes exactly one token of the value.          *)
LEMMA TokenLast ==
    ASSUME NEW p, NEW v, Len(p) \in Nat, Len(v) \in Nat,
           NEW i \in 1 .. Len(p), NEW j \in 0 .. Len(v), p[i] # "*"
    PROVE  PrefixDenotes(p, v, i, j)
            <=> j > 0 /\ p[i] \in {"?", v[j]} /\ PrefixDenotes(p, v, i - 1, j - 1)
<1>1. ASSUME PrefixDenotes(p, v, i, j)
      PROVE  j > 0 /\ p[i] \in {"?", v[j]} /\ PrefixDenotes(p, v, i - 1, j - 1)
    <2>1. PICK cut : EndsAt(p, v, cut, i, j)
        BY <1>1 DEF PrefixDenotes
    <2>2. cut[i - 1] \in 0 .. Len(v) /\ cut[i] = j
        BY <2>1 DEF EndsAt
    <2>3. j = cut[i - 1] + 1 /\ p[i] \in {"?", v[j]}
        BY <2>1, <2>2 DEF EndsAt
    <2>4. EndsAt(p, v, cut, i - 1, j - 1)
        <3>1. j - 1 = cut[i - 1]
            BY <2>2, <2>3
        <3> QED
            BY <2>1, <3>1, ShorterCut
    <2> QED
        BY <2>2, <2>3, <2>4 DEF PrefixDenotes
<1>2. ASSUME j > 0, p[i] \in {"?", v[j]}, PrefixDenotes(p, v, i - 1, j - 1)
      PROVE  PrefixDenotes(p, v, i, j)
    <2>1. PICK cut : EndsAt(p, v, cut, i - 1, j - 1)
        BY <1>2 DEF PrefixDenotes
    <2>2. j - 1 \in 0 .. Len(v) /\ j - 1 <= j /\ j = (j - 1) + 1
        BY <1>2
    <2> QED
        BY <1>2, <2>1, <2>2, MovedCut
<1> QED
    BY <1>1, <1>2

(* A table holds in cell (i, j) whether the first i tokens of the pattern    *)
(* denote the first j of the value.                                          *)
LEMMA TableDenotes ==
    ASSUME NEW p, NEW v, Len(p) \in Nat, Len(v) \in Nat, NEW f, IsTable(p, v, f)
    PROVE  \A i \in 0 .. Len(p), j \in 0 .. Len(v) : f[<<i, j>>] <=> PrefixDenotes(p, v, i, j)
<1> DEFINE Right(i, j) == f[<<i, j>>] <=> PrefixDenotes(p, v, i, j)
           RightUpTo == {n \in Nat : \A i \in 0 .. Len(p), j \in 0 .. Len(v) : i + j < n => Right(i, j)}
<1>1. \A i \in 0 .. Len(p), j \in 0 .. Len(v) : f[<<i, j>>] = Cell(p, v, f, <<i, j>>)
    <2> TAKE i \in 0 .. Len(p), j \in 0 .. Len(v)
    <2>1. <<i, j>> \in Cells(p, v)
        BY DEF Cells
    <2> QED
        BY <2>1 DEF IsTable
<1>2. 0 \in RightUpTo
    OBVIOUS
<1>3. ASSUME NEW n \in Nat, n \in RightUpTo PROVE n + 1 \in RightUpTo
    <2> SUFFICES ASSUME NEW i \in 0 .. Len(p), NEW j \in 0 .. Len(v), i + j < n + 1
                 PROVE  Right(i, j)
        OBVIOUS
    <2>0. \A a \in 0 .. Len(p), b \in 0 .. Len(v) : a + b < n => Right(a, b)
        BY <1>3
    <2>1. CASE i = 0
        <3>1. f[<<i, j>>] <=> j = 0
            <4>1. Cell(p, v, f, <<i, j>>) <=> j = 0
                BY <2>1 DEF Cell
            <4> QED
                BY <1>1, <4>1
        <3> QED
            BY <2>1, <3>1, NoTokens
    <2>2. CASE i > 0 /\ p[i] = "*"
        <3>1. i \in 1 .. Len(p) /\ i - 1 \in 0 .. Len(p) /\ (i - 1) + j < n
            BY <2>2
        <3>2. Right(i - 1, j)
            BY <3>1, <2>0
        <3>3. j > 0 => Right(i, j - 1)
            <4>1. j > 0 => j - 1 \in 0 .. Len(v) /\ i + (j - 1) < n
                OBVIOUS
            <4> QED
                BY <4>1, <2>0
        <3>4. f[<<i, j>>] <=> f[<<i - 1, j>>] \/ (j > 0 /\ f[<<i, j - 1>>])
            <4>1. Cell(p, v, f, <<i, j>>) <=> f[<<i - 1, j>>] \/ (j > 0 /\ f[<<i, j - 1>>])
                BY <2>2 DEF Cell
            <4> QED
                BY <1>1, <4>1
        <3>5. PrefixDenotes(p, v, i, j)
                <=> PrefixDenotes(p, v, i - 1, j) \/ (j > 0 /\ PrefixDenotes(p, v, i, j - 1))
            BY <3>1, <2>2, StarLast
        <3> QED
            BY <3>2, <3>3, <3>4, <3>5
    <2>3. CASE i > 0 /\ p[i] # "*"
        <3>1. i \in 1 .. Len(p) /\ i - 1 \in 0 .. Len(p)
            BY <2>3
        <3>2. j > 0 => Right(i - 1, j - 1)
            <4>1. j > 0 => j - 1 \in 0 .. Len(v) /\ (i - 1) + (j - 1) < n
                OBVIOUS
            <4> QED
                BY <3>1, <4>1, <2>0
        <3>3. f[<<i, j>>] <=> j > 0 /\ p[i] \in {"?", v[j]} /\ f[<<i - 1, j - 1>>]
            <4>1. Cell(p, v, f, <<i, j>>) <=> j > 0 /\ p[i] \in {"?", v[j]} /\ f[<<i - 1, j - 1>>]
                BY <2>3 DEF Cell
            <4> QED
                BY <1>1, <4>1
        <3>4. PrefixDenotes(p, v, i, j)
                <=> j > 0 /\ p[i] \in {"?", v[j]} /\ PrefixDenotes(p, v, i - 1, j - 1)
            BY <3>1, <2>3, TokenLast
        <3> QED
            BY <3>2, <3>3, <3>4
    <2> QED
        BY <2>1, <2>2, <2>3
<1>4. Len(p) + Len(v) + 1 \in RightUpTo
    <2> HIDE DEF RightUpTo
    <2>1. \A n \in Nat : n \in RightUpTo
        BY <1>2, <1>3, SetInduction
    <2> QED
        BY <2>1
<1> SUFFICES ASSUME NEW i \in 0 .. Len(p), NEW j \in 0 .. Len(v) PROVE Right(i, j)
    OBVIOUS
<1>5. i + j < Len(p) + Len(v) + 1
    OBVIOUS
<1> QED
    BY <1>4, <1>5

(* The dynamic programming of matches_wildcard is right: for every pattern   *)
(* and every value it answers whether the value can be cut into pieces that  *)
(* the tokens of the pattern stand for.                                      *)
THEOREM MatcherIsExact ==
    ASSUME NEW p, NEW v, Len(p) \in Nat, Len(v) \in Nat
    PROVE  MatchesWildcard(p, v) <=> Denotes(p, v)
<1>1. Table(p, v)[<<Len(p), Len(v)>>] <=> PrefixDenotes(p, v, Len(p), Len(v))
    <2>1. Len(p) \in 0 .. Len(p) /\ Len(v) \in 0 .. Len(v)
        OBVIOUS
    <2> QED
        BY <2>1, MatcherReadsTable, TableDenotes
<1> QED
    BY <1>1, MatcherReadsTable, WholeDenotes
-----------------------------------------------------------------------------
(* Statements and documents.                                                 *)

LEMMA StarDenotesAll ==
    ASSUME NEW v, Len(v) \in Nat
    PROVE  Denotes(<<"*">>, v)
<1> DEFINE cut == [i \in 0 .. 1 |-> IF i = 0 THEN 0 ELSE Len(v)]
<1>0. Len(<<"*">>) = 1
    OBVIOUS
<1>1. cut \in [0 .. 1 -> 0 .. Len(v)] /\ cut[0] = 0 /\ cut[1] = Len(v)
    OBVIOUS
<1> HIDE DEF cut
<1>2. \A i \in 1 .. 1 : cut[i - 1] <= cut[i] /\ <<"*">>[i] = "*"
    BY <1>1
<1> QED
    BY <1>0, <1>1, <1>2 DEF Denotes

LEMMA ActionStrings ==
    ASSUME NEW a \in Actions
    PROVE  Len(ActionStr[a]) \in Nat \ {0} /\ ActionStr[a][1] = "s3:"
BY DEF Actions, ActionStr

LEMMA AllDenotesActions ==
    ASSUME NEW a \in Actions
    PROVE  Denotes(<<"s3:", "*">>, ActionStr[a])
<1> DEFINE v == ActionStr[a]
           p == <<"s3:", "*">>
           cut == [i \in 0 .. 2 |-> IF i = 2 THEN Len(v) ELSE i]
<1>0. Len(v) \in Nat \ {0} /\ v[1] = "s3:"
    BY ActionStrings
<1> HIDE DEF v
<1>1. Len(p) = 2 /\ p[1] = "s3:" /\ p[2] = "*"
    OBVIOUS
<1>2. cut \in [0 .. 2 -> 0 .. Len(v)] /\ cut[0] = 0 /\ cut[1] = 1 /\ cut[2] = Len(v)
    BY <1>0
<1> HIDE DEF cut, p
<1>3. \A i \in 1 .. 2 : /\ cut[i - 1] <= cut[i]
                         /\ p[i] # "*" => cut[i] = cut[i - 1] + 1 /\ p[i] \in {"?", v[cut[i]]}
    BY <1>0, <1>1, <1>2
<1>4. Denotes(p, v)
    BY <1>0, <1>1, <1>2, <1>3 DEF Denotes
<1> QED
    BY <1>4 DEF p, v

LEMMA ResourceStrings ==
    ASSUME NEW r
    PROVE  Len(ResourceStr(r)) \in Nat
<1>1. CASE r.bucket = None
    BY <1>1 DEF ResourceStr
<1>2. CASE r.bucket # None /\ r.key = None
    BY <1>2 DEF ResourceStr
<1>3. CASE r.bucket # None /\ r.key # None
    BY <1>3 DEF ResourceStr
<1> QED
    BY <1>1, <1>2, <1>3

(* The shortcuts and the matcher agree with the meaning of the patterns.     *)
LEMMA MatchingIsCovering ==
    ASSUME NEW stmt, WellFormedStatement(stmt), NEW a \in Actions, NEW r
    PROVE  StatementMatches(stmt, a, r) <=> Covers(stmt, a, r)
<1> DEFINE v == ActionStr[a]
           w == ResourceStr(r)
<1>0. Len(v) \in Nat /\ Len(w) \in Nat
    BY ActionStrings, ResourceStrings
<1>1. \A p \in stmt.actions : (p \in {<<"*">>, <<"s3:", "*">>} \/ MatchesWildcard(p, v)) <=> Denotes(p, v)
    <2> TAKE p \in stmt.actions
    <2>1. MatchesWildcard(p, v) <=> Denotes(p, v)
        BY <1>0, MatcherIsExact DEF WellFormedStatement
    <2>2. p \in {<<"*">>, <<"s3:", "*">>} => Denotes(p, v)
        BY <1>0, StarDenotesAll, AllDenotesActions
    <2> QED
        BY <2>1, <2>2
<1>2. \A p \in stmt.resources : (p = <<"*">> \/ MatchesWildcard(p, w)) <=> Denotes(p, w)
    <2> TAKE p \in stmt.resources
    <2>1. MatchesWildcard(p, w) <=> Denotes(p, w)
        BY <1>0, MatcherIsExact DEF WellFormedStatement
    <2>2. p = <<"*">> => Denotes(p, w)
        BY <1>0, StarDenotesAll
    <2> QED
        BY <2>1, <2>2
<1> HIDE DEF v, w
<1> QED
    BY <1>1, <1>2 DEF StatementMatches, MatchesAction, MatchesResource, Covers, v, w

(* A document covers a request with an effect.                               *)
CoversWith(doc, effect, a, r) ==
    \E i \in DOMAIN doc : doc[i].effect = effect /\ Covers(doc[i], a, r)

(* Evaluate decides by what the statements mean: a document denies exactly   *)
(* the requests one of its denials covers, and allows exactly those that a   *)
(* permission covers and no denial, whatever the order of the statements.    *)
THEOREM EvaluateIsRight ==
    ASSUME NEW doc, \A i \in DOMAIN doc : WellFormedStatement(doc[i]),
           NEW a \in Actions, NEW r
    PROVE  /\ Evaluate(doc, a, r) = "Deny" <=> CoversWith(doc, "Deny", a, r)
           /\ Evaluate(doc, a, r) = "Allow"
                <=> CoversWith(doc, "Allow", a, r) /\ ~CoversWith(doc, "Deny", a, r)
<1> DEFINE M == {stmt \in ToSet(doc) : StatementMatches(stmt, a, r)}
<1>1. \A stmt \in M : stmt.effect \in {"Allow", "Deny"}
    BY DEF ToSet, WellFormedStatement
<1>2. \A e : CoversWith(doc, e, a, r) <=> \E stmt \in M : stmt.effect = e
    BY MatchingIsCovering DEF CoversWith, ToSet
<1>3. Evaluate(doc, a, r) = Decide(M)
    BY DEF Evaluate
<1> HIDE DEF M
<1>4. None # "Deny" /\ None # "Allow"
    BY NoneAssumption
<1> QED
    BY <1>1, <1>2, <1>3, <1>4 DEF Decide

-----------------------------------------------------------------------------
(* The tables.                                                               *)
DbFields == {"users", "keys", "groups", "members", "userPolicies", "groupPolicies",
             "bucketPolicies", "temps", "managed"}

Statuses == {"active", "inactive"}

Typed(d) ==
    /\ DOMAIN d = DbFields
    /\ DOMAIN d.users \subseteq Users \ {Root}
    /\ d.users \in [DOMAIN d.users -> [status: Statuses, password: {None}]]
    /\ d.keys \in [DOMAIN d.keys -> [user: Users, status: Statuses]]
    /\ IsFiniteSet(DOMAIN d.keys)
    /\ d.temps \in [DOMAIN d.temps -> [user: Users, expired: BOOLEAN]]
    /\ d.groups \subseteq Groups
    /\ d.members \subseteq Groups \X Users
    /\ d.userPolicies \subseteq Users \X PolicyNames \X Documents
    /\ d.groupPolicies \subseteq Groups \X PolicyNames \X Documents
    /\ d.managed \in [DOMAIN d.managed -> Documents]

(* NoDanglingRows, of any tables.                                            *)
Linked(d) ==
    /\ \A k \in DOMAIN d.keys : d.keys[k].user \in DOMAIN d.users
    /\ \A k \in DOMAIN d.temps : d.temps[k].user \in DOMAIN d.users
    /\ \A m \in d.members : m[1] \in d.groups /\ m[2] \in DOMAIN d.users
    /\ \A r \in d.userPolicies : r[1] \in DOMAIN d.users
    /\ \A r \in d.groupPolicies : r[1] \in d.groups

Good(d) == Typed(d) /\ Linked(d)

(* No key and no temporary credential is new in e or changes hands.          *)
Calm(d, e) ==
    /\ \A k \in DOMAIN e.keys : k \in DOMAIN d.keys /\ e.keys[k].user = d.keys[k].user
    /\ \A k \in DOMAIN e.temps : k \in DOMAIN d.temps /\ e.temps[k].user = d.temps[k].user

LEMMA NothingIsCalm == \A d : Calm(d, d)
BY DEF Calm

LEMMA EmptyIsGood == Good(EmptyDb)
<1>1. DOMAIN EmptyDb = DbFields
    BY DEF EmptyDb, DbFields
<1>2. /\ EmptyDb.users = <<>> /\ EmptyDb.keys = <<>> /\ EmptyDb.temps = <<>> /\ EmptyDb.managed = <<>>
      /\ EmptyDb.groups = {} /\ EmptyDb.members = {}
      /\ EmptyDb.userPolicies = {} /\ EmptyDb.groupPolicies = {}
    BY DEF EmptyDb
<1>3. DOMAIN <<>> = {} /\ \A S : <<>> \in [{} -> S]
    OBVIOUS
<1>4. IsFiniteSet({})
    BY FS_EmptySet
<1> QED
    BY <1>1, <1>2, <1>3, <1>4 DEF Good, Typed, Linked

LEMMA KeysAreFinite ==
    ASSUME NEW d, Good(d), NEW u
    PROVE  IsFiniteSet(ListAccessKeys(d, u)) /\ Cardinality(ListAccessKeys(d, u)) \in Nat
<1>1. IsFiniteSet({Root})
    BY FS_Singleton
<1>2. IsFiniteSet({k \in DOMAIN d.keys : d.keys[k].user = u})
    <2>1. {k \in DOMAIN d.keys : d.keys[k].user = u} \in SUBSET DOMAIN d.keys
        OBVIOUS
    <2> QED
        BY <2>1, FS_Subset DEF Good, Typed
<1>3. IsFiniteSet(ListAccessKeys(d, u))
    BY <1>1, <1>2 DEF ListAccessKeys
<1> QED
    BY <1>3, FS_CardinalityType

LEMMA CreateUserIsGood ==
    ASSUME NEW d, Good(d), NEW u \in Users \cup {Root}
    PROVE  Good(CreateUser(d, u).db) /\ Calm(d, CreateUser(d, u).db)
<1>1. CASE u = Root \/ u \in DOMAIN d.users
    BY <1>1, NothingIsCalm DEF CreateUser, Err
<1>2. CASE ~(u = Root \/ u \in DOMAIN d.users)
    <2> DEFINE e == CreateUser(d, u).db
               f == Bind(d.users, u, [status |-> "active", password |-> None])
    <2>1. /\ DOMAIN e = DOMAIN d /\ e.users = f /\ e.keys = d.keys /\ e.temps = d.temps
          /\ e.groups = d.groups /\ e.members = d.members /\ e.userPolicies = d.userPolicies
          /\ e.groupPolicies = d.groupPolicies /\ e.managed = d.managed
        BY <1>2 DEF CreateUser, Ok, Good, Typed, DbFields
    <2>2. DOMAIN f = DOMAIN d.users \cup {u} /\ f \in [DOMAIN f -> [status: Statuses, password: {None}]]
        BY DEF Bind, Good, Typed, Statuses
    <2> HIDE DEF e, f
    <2>3. Typed(e)
        BY <1>2, <2>1, <2>2 DEF Good, Typed
    <2>4. Linked(e)
        BY <2>1, <2>2 DEF Good, Linked
    <2>5. Calm(d, e)
        BY <2>1 DEF Calm
    <2> QED
        BY <2>3, <2>4, <2>5 DEF Good, e
<1> QED
    BY <1>1, <1>2

LEMMA DeleteUserIsGood ==
    ASSUME NEW d, Good(d), NEW u
    PROVE  Good(DeleteUser(d, u).db) /\ Calm(d, DeleteUser(d, u).db)
<1>1. CASE u = Root \/ u \notin DOMAIN d.users
    BY <1>1, NothingIsCalm DEF DeleteUser, Err
<1>2. CASE ~(u = Root \/ u \notin DOMAIN d.users)
    <2> DEFINE e == DeleteUser(d, u).db
               users == Without(d.users, {u})
               keys == Without(d.keys, {k \in DOMAIN d.keys : d.keys[k].user = u})
               temps == Without(d.temps, {k \in DOMAIN d.temps : d.temps[k].user = u})
    <2>1. /\ DOMAIN e = DOMAIN d
          /\ e.users = users
          /\ e.keys = keys
          /\ e.members = {m \in d.members : m[2] # u}
          /\ e.userPolicies = {p \in d.userPolicies : p[1] # u}
          /\ e.temps = temps
          /\ e.groups = d.groups /\ e.groupPolicies = d.groupPolicies /\ e.managed = d.managed
        BY <1>2 DEF DeleteUser, Ok, Good, Typed, DbFields
    <2>2. /\ DOMAIN users = DOMAIN d.users \ {u}
          /\ users \in [DOMAIN users -> [status: Statuses, password: {None}]]
        BY DEF Without, Restrict, Good, Typed
    <2>3. /\ DOMAIN keys = {k \in DOMAIN d.keys : d.keys[k].user # u}
          /\ keys \in [DOMAIN keys -> [user: Users, status: Statuses]]
          /\ \A k \in DOMAIN keys : keys[k] = d.keys[k]
        BY DEF Without, Restrict, Good, Typed
    <2>4. /\ DOMAIN temps = {k \in DOMAIN d.temps : d.temps[k].user # u}
          /\ temps \in [DOMAIN temps -> [user: Users, expired: BOOLEAN]]
          /\ \A k \in DOMAIN temps : temps[k] = d.temps[k]
        BY DEF Without, Restrict, Good, Typed
    <2>5. IsFiniteSet(DOMAIN keys)
        <3>1. DOMAIN keys \in SUBSET DOMAIN d.keys
            BY <2>3
        <3> QED
            BY <3>1, FS_Subset DEF Good, Typed
    <2> HIDE DEF e, users, keys, temps
    <2>6. Typed(e)
        BY <2>1, <2>2, <2>3, <2>4, <2>5 DEF Good, Typed
    <2>7. Linked(e)
        BY <2>1, <2>2, <2>3, <2>4 DEF Good, Linked
    <2>8. Calm(d, e)
        BY <2>1, <2>3, <2>4 DEF Calm
    <2> QED
        BY <2>6, <2>7, <2>8 DEF Good, e
<1> QED
    BY <1>1, <1>2
LEMMA UpdateUserStatusIsGood ==
    ASSUME NEW d, Good(d), NEW u, NEW s \in Statuses
    PROVE  Good(UpdateUserStatus(d, u, s).db) /\ Calm(d, UpdateUserStatus(d, u, s).db)
<1>1. CASE u = Root \/ u \notin DOMAIN d.users
    BY <1>1, NothingIsCalm DEF UpdateUserStatus, Err
<1>2. CASE ~(u = Root \/ u \notin DOMAIN d.users)
    <2> DEFINE e == UpdateUserStatus(d, u, s).db
               users == [d.users EXCEPT ![u].status = s]
    <2>1. /\ DOMAIN e = DOMAIN d /\ e.users = users /\ e.keys = d.keys /\ e.temps = d.temps
          /\ e.groups = d.groups /\ e.members = d.members /\ e.userPolicies = d.userPolicies
          /\ e.groupPolicies = d.groupPolicies /\ e.managed = d.managed
        BY <1>2 DEF UpdateUserStatus, Ok, Good, Typed, DbFields
    <2>2. DOMAIN users = DOMAIN d.users /\ users \in [DOMAIN users -> [status: Statuses, password: {None}]]
        BY DEF Good, Typed
    <2> HIDE DEF e, users
    <2>3. Good(e) /\ Calm(d, e)
        BY <2>1, <2>2 DEF Good, Typed, Linked, Calm
    <2> QED
        BY <2>3 DEF e
<1> QED
    BY <1>1, <1>2

(* The tables but keys: what a change of the keys must leave.                *)
LEMMA KeysMayChange ==
    ASSUME NEW d, Good(d), NEW e,
           DOMAIN e = DOMAIN d, e.users = d.users, e.temps = d.temps,
           e.groups = d.groups, e.members = d.members, e.userPolicies = d.userPolicies,
           e.groupPolicies = d.groupPolicies, e.managed = d.managed,
           e.keys \in [DOMAIN e.keys -> [user: Users, status: Statuses]],
           IsFiniteSet(DOMAIN e.keys),
           \A k \in DOMAIN e.keys : e.keys[k].user \in DOMAIN e.users
    PROVE  Good(e)
BY DEF Good, Typed, Linked

LEMMA InsertAccessKeyIsGood ==
    ASSUME NEW d, Good(d), NEW k, NEW u
    PROVE  LET e == InsertAccessKey(d, k, u).db
           IN  /\ Good(e)
               /\ e.temps = d.temps
               /\ \A x \in DOMAIN e.keys \ {k} : x \in DOMAIN d.keys /\ e.keys[x].user = d.keys[x].user
               /\ k \in DOMAIN e.keys \ DOMAIN d.keys => e.keys[k].user = u
<1>1. CASE u \notin DOMAIN d.users
    BY <1>1 DEF InsertAccessKey, Err
<1>2. CASE u \in DOMAIN d.users
    <2> DEFINE e == InsertAccessKey(d, k, u).db
               keys == Bind(d.keys, k, [user |-> u, status |-> "active"])
    <2>1. /\ DOMAIN e = DOMAIN d /\ e.users = d.users /\ e.keys = keys /\ e.temps = d.temps
          /\ e.groups = d.groups /\ e.members = d.members /\ e.userPolicies = d.userPolicies
          /\ e.groupPolicies = d.groupPolicies /\ e.managed = d.managed
        BY <1>2 DEF InsertAccessKey, Ok, Good, Typed, DbFields
    <2>2. /\ DOMAIN keys = DOMAIN d.keys \cup {k}
          /\ keys \in [DOMAIN keys -> [user: Users, status: Statuses]]
        BY <1>2 DEF Bind, Good, Typed, Statuses
    <2>3. \A x \in DOMAIN keys : keys[x].user \in DOMAIN d.users
        BY <1>2 DEF Bind, Good, Linked
    <2>4. IsFiniteSet(DOMAIN keys)
        BY <2>2, FS_AddElement DEF Good, Typed
    <2>5. (\A x \in DOMAIN keys \ {k} : x \in DOMAIN d.keys /\ keys[x] = d.keys[x]) /\ keys[k].user = u
        BY DEF Bind
    <2> HIDE DEF e, keys
    <2>6. Good(e)
        BY <2>1, <2>2, <2>3, <2>4, KeysMayChange
    <2> QED
        BY <2>1, <2>5, <2>6 DEF e
<1> QED
    BY <1>1, <1>2

LEMMA DeleteAccessKeyIsGood ==
    ASSUME NEW d, Good(d), NEW k
    PROVE  Good(DeleteAccessKey(d, k).db) /\ Calm(d, DeleteAccessKey(d, k).db)
<1>1. CASE k = Root \/ k \notin DOMAIN d.keys
    BY <1>1, NothingIsCalm DEF DeleteAccessKey, Err
<1>2. CASE ~(k = Root \/ k \notin DOMAIN d.keys)
    <2> DEFINE e == DeleteAccessKey(d, k).db
               keys == Without(d.keys, {k})
    <2>1. /\ DOMAIN e = DOMAIN d /\ e.users = d.users /\ e.keys = keys /\ e.temps = d.temps
          /\ e.groups = d.groups /\ e.members = d.members /\ e.userPolicies = d.userPolicies
          /\ e.groupPolicies = d.groupPolicies /\ e.managed = d.managed
        BY <1>2 DEF DeleteAccessKey, Ok, Good, Typed, DbFields
    <2>2. /\ DOMAIN keys = DOMAIN d.keys \ {k}
          /\ keys \in [DOMAIN keys -> [user: Users, status: Statuses]]
        BY DEF Without, Restrict, Good, Typed
    <2>3. \A x \in DOMAIN keys : keys[x].user \in DOMAIN d.users
        BY DEF Without, Restrict, Good, Linked
    <2>4. IsFiniteSet(DOMAIN keys)
        BY <2>2, FS_RemoveElement DEF Good, Typed
    <2>5. \A x \in DOMAIN keys : keys[x] = d.keys[x]
        BY DEF Without, Restrict
    <2> HIDE DEF e, keys
    <2>6. Good(e)
        BY <2>1, <2>2, <2>3, <2>4, KeysMayChange
    <2>7. Calm(d, e)
        BY <2>1, <2>2, <2>5 DEF Calm
    <2> QED
        BY <2>6, <2>7 DEF e
<1> QED
    BY <1>1, <1>2

LEMMA UpdateAccessKeyStatusIsGood ==
    ASSUME NEW d, Good(d), NEW k, NEW s \in Statuses
    PROVE  Good(UpdateAccessKeyStatus(d, k, s).db) /\ Calm(d, UpdateAccessKeyStatus(d, k, s).db)
<1>1. CASE k = Root \/ k \notin DOMAIN d.keys
    BY <1>1, NothingIsCalm DEF UpdateAccessKeyStatus, Err
<1>2. CASE ~(k = Root \/ k \notin DOMAIN d.keys)
    <2> DEFINE e == UpdateAccessKeyStatus(d, k, s).db
               keys == [d.keys EXCEPT ![k].status = s]
    <2>1. /\ DOMAIN e = DOMAIN d /\ e.users = d.users /\ e.keys = keys /\ e.temps = d.temps
          /\ e.groups = d.groups /\ e.members = d.members /\ e.userPolicies = d.userPolicies
          /\ e.groupPolicies = d.groupPolicies /\ e.managed = d.managed
        BY <1>2 DEF UpdateAccessKeyStatus, Ok, Good, Typed, DbFields
    <2>2. /\ DOMAIN keys = DOMAIN d.keys
          /\ keys \in [DOMAIN keys -> [user: Users, status: Statuses]]
        BY DEF Good, Typed
    <2>3. \A x \in DOMAIN keys : keys[x].user = d.keys[x].user /\ keys[x].user \in DOMAIN d.users
        <3>1. \A x \in DOMAIN d.keys : d.keys[x] \in [user: Users, status: Statuses]
            BY DEF Good, Typed
        <3>2. \A x \in DOMAIN keys : keys[x].user = d.keys[x].user
            BY <1>2, <2>2, <3>1
        <3> QED
            BY <2>2, <3>2 DEF Good, Linked
    <2> HIDE DEF e, keys
    <2>4. IsFiniteSet(DOMAIN keys)
        BY <2>2 DEF Good, Typed
    <2>5. Good(e)
        BY <2>1, <2>2, <2>3, <2>4, KeysMayChange
    <2>6. Calm(d, e)
        BY <2>1, <2>2, <2>3 DEF Calm
    <2> QED
        BY <2>5, <2>6 DEF e
<1> QED
    BY <1>1, <1>2
(* The tables of policies and groups.                                        *)
LEMMA PoliciesMayChange ==
    ASSUME NEW d, Good(d), NEW e,
           DOMAIN e = DOMAIN d, e.users = d.users, e.keys = d.keys, e.temps = d.temps, e.managed = d.managed,
           e.groups \subseteq Groups,
           e.members \subseteq Groups \X Users,
           e.userPolicies \subseteq Users \X PolicyNames \X Documents,
           e.groupPolicies \subseteq Groups \X PolicyNames \X Documents,
           \A m \in e.members : m[1] \in e.groups /\ m[2] \in DOMAIN e.users,
           \A r \in e.userPolicies : r[1] \in DOMAIN e.users,
           \A r \in e.groupPolicies : r[1] \in e.groups
    PROVE  Good(e) /\ Calm(d, e)
BY DEF Good, Typed, Linked, Calm

LEMMA PolicyRows ==
    ASSUME NEW d, Good(d)
    PROVE  /\ d.groups \subseteq Groups /\ d.members \subseteq Groups \X Users
           /\ d.userPolicies \subseteq Users \X PolicyNames \X Documents
           /\ d.groupPolicies \subseteq Groups \X PolicyNames \X Documents
           /\ DOMAIN d.users \subseteq Users
           /\ \A m \in d.members : m[1] \in d.groups /\ m[2] \in DOMAIN d.users
           /\ \A r \in d.userPolicies : r[1] \in DOMAIN d.users
           /\ \A r \in d.groupPolicies : r[1] \in d.groups
BY DEF Good, Typed, Linked

LEMMA InsertUserPolicyIsGood ==
    ASSUME NEW d, Good(d), NEW u, NEW name \in PolicyNames, NEW doc \in Documents
    PROVE  Good(InsertUserPolicy(d, u, name, doc).db) /\ Calm(d, InsertUserPolicy(d, u, name, doc).db)
<1>1. CASE u \notin DOMAIN d.users
    BY <1>1, NothingIsCalm DEF InsertUserPolicy, Err
<1>2. CASE ~(u \notin DOMAIN d.users)
    <2> DEFINE e == InsertUserPolicy(d, u, name, doc).db
    <2>1. /\ DOMAIN e = DOMAIN d /\ e.users = d.users /\ e.keys = d.keys /\ e.temps = d.temps
          /\ e.managed = d.managed /\ e.groups = d.groups /\ e.members = d.members /\ e.groupPolicies = d.groupPolicies
          /\ e.userPolicies = Replace(d.userPolicies, u, name, doc)
        BY <1>2 DEF InsertUserPolicy, Ok, Good, Typed, DbFields
    <2> HIDE DEF e
    <2>2. Good(e) /\ Calm(d, e)
        BY <1>2, <2>1, PolicyRows, PoliciesMayChange DEF Replace
    <2> QED
        BY <2>2 DEF e
<1> QED
    BY <1>1, <1>2

LEMMA DetachUserPolicyIsGood ==
    ASSUME NEW d, Good(d), NEW u, NEW name
    PROVE  Good(DetachUserPolicy(d, u, name).db) /\ Calm(d, DetachUserPolicy(d, u, name).db)
<1>1. CASE ~ \E r \in d.userPolicies : r[1] = u /\ r[2] = name
    BY <1>1, NothingIsCalm DEF DetachUserPolicy, Err
<1>2. CASE \E r \in d.userPolicies : r[1] = u /\ r[2] = name
    <2> DEFINE e == DetachUserPolicy(d, u, name).db
    <2>1. /\ DOMAIN e = DOMAIN d /\ e.users = d.users /\ e.keys = d.keys /\ e.temps = d.temps
          /\ e.managed = d.managed /\ e.groups = d.groups /\ e.members = d.members /\ e.groupPolicies = d.groupPolicies
          /\ e.userPolicies = {r \in d.userPolicies : ~(r[1] = u /\ r[2] = name)}
        BY <1>2 DEF DetachUserPolicy, Ok, Good, Typed, DbFields
    <2> HIDE DEF e
    <2>2. Good(e) /\ Calm(d, e)
        BY <1>2, <2>1, PolicyRows, PoliciesMayChange
    <2> QED
        BY <2>2 DEF e
<1> QED
    BY <1>1, <1>2

LEMMA CreateGroupIsGood ==
    ASSUME NEW d, Good(d), NEW g \in Groups
    PROVE  Good(CreateGroup(d, g).db) /\ Calm(d, CreateGroup(d, g).db)
<1>1. CASE g \in d.groups
    BY <1>1, NothingIsCalm DEF CreateGroup, Err
<1>2. CASE ~(g \in d.groups)
    <2> DEFINE e == CreateGroup(d, g).db
    <2>1. /\ DOMAIN e = DOMAIN d /\ e.users = d.users /\ e.keys = d.keys /\ e.temps = d.temps
          /\ e.managed = d.managed /\ e.members = d.members /\ e.userPolicies = d.userPolicies /\ e.groupPolicies = d.groupPolicies
          /\ e.groups = d.groups \cup {g}
        BY <1>2 DEF CreateGroup, Ok, Good, Typed, DbFields
    <2> HIDE DEF e
    <2>2. Good(e) /\ Calm(d, e)
        BY <1>2, <2>1, PolicyRows, PoliciesMayChange
    <2> QED
        BY <2>2 DEF e
<1> QED
    BY <1>1, <1>2

LEMMA InsertMemberIsGood ==
    ASSUME NEW d, Good(d), NEW g, NEW u
    PROVE  Good(InsertMember(d, g, u).db) /\ Calm(d, InsertMember(d, g, u).db)
<1>1. CASE g \notin d.groups \/ u \notin DOMAIN d.users
    BY <1>1, NothingIsCalm DEF InsertMember, Err
<1>2. CASE ~(g \notin d.groups \/ u \notin DOMAIN d.users)
    <2> DEFINE e == InsertMember(d, g, u).db
    <2>1. /\ DOMAIN e = DOMAIN d /\ e.users = d.users /\ e.keys = d.keys /\ e.temps = d.temps
          /\ e.managed = d.managed /\ e.groups = d.groups /\ e.userPolicies = d.userPolicies /\ e.groupPolicies = d.groupPolicies
          /\ e.members = d.members \cup {<<g, u>>}
        BY <1>2 DEF InsertMember, Ok, Good, Typed, DbFields
    <2> HIDE DEF e
    <2>2. Good(e) /\ Calm(d, e)
        BY <1>2, <2>1, PolicyRows, PoliciesMayChange
    <2> QED
        BY <2>2 DEF e
<1> QED
    BY <1>1, <1>2

LEMMA RemoveUserFromGroupIsGood ==
    ASSUME NEW d, Good(d), NEW g, NEW u
    PROVE  Good(RemoveUserFromGroup(d, g, u).db) /\ Calm(d, RemoveUserFromGroup(d, g, u).db)
<1> DEFINE e == RemoveUserFromGroup(d, g, u).db
<1>1. /\ DOMAIN e = DOMAIN d /\ e.users = d.users /\ e.keys = d.keys /\ e.temps = d.temps
      /\ e.managed = d.managed /\ e.groups = d.groups /\ e.userPolicies = d.userPolicies /\ e.groupPolicies = d.groupPolicies
      /\ e.members = d.members \ {<<g, u>>}
    BY DEF RemoveUserFromGroup, Ok, Good, Typed, DbFields
<1> HIDE DEF e
<1>2. Good(e) /\ Calm(d, e)
    BY <1>1, PolicyRows, PoliciesMayChange
<1> QED
    BY <1>2 DEF e

LEMMA InsertGroupPolicyIsGood ==
    ASSUME NEW d, Good(d), NEW g, NEW name \in PolicyNames, NEW doc \in Documents
    PROVE  Good(InsertGroupPolicy(d, g, name, doc).db) /\ Calm(d, InsertGroupPolicy(d, g, name, doc).db)
<1>1. CASE g \notin d.groups
    BY <1>1, NothingIsCalm DEF InsertGroupPolicy, Err
<1>2. CASE ~(g \notin d.groups)
    <2> DEFINE e == InsertGroupPolicy(d, g, name, doc).db
    <2>1. /\ DOMAIN e = DOMAIN d /\ e.users = d.users /\ e.keys = d.keys /\ e.temps = d.temps
          /\ e.managed = d.managed /\ e.groups = d.groups /\ e.members = d.members /\ e.userPolicies = d.userPolicies
          /\ e.groupPolicies = Replace(d.groupPolicies, g, name, doc)
        BY <1>2 DEF InsertGroupPolicy, Ok, Good, Typed, DbFields
    <2> HIDE DEF e
    <2>2. Good(e) /\ Calm(d, e)
        BY <1>2, <2>1, PolicyRows, PoliciesMayChange DEF Replace
    <2> QED
        BY <2>2 DEF e
<1> QED
    BY <1>1, <1>2

LEMMA DetachGroupPolicyIsGood ==
    ASSUME NEW d, Good(d), NEW g, NEW name
    PROVE  Good(DetachGroupPolicy(d, g, name).db) /\ Calm(d, DetachGroupPolicy(d, g, name).db)
<1>1. CASE ~ \E r \in d.groupPolicies : r[1] = g /\ r[2] = name
    BY <1>1, NothingIsCalm DEF DetachGroupPolicy, Err
<1>2. CASE \E r \in d.groupPolicies : r[1] = g /\ r[2] = name
    <2> DEFINE e == DetachGroupPolicy(d, g, name).db
    <2>1. /\ DOMAIN e = DOMAIN d /\ e.users = d.users /\ e.keys = d.keys /\ e.temps = d.temps
          /\ e.managed = d.managed /\ e.groups = d.groups /\ e.members = d.members /\ e.userPolicies = d.userPolicies
          /\ e.groupPolicies = {r \in d.groupPolicies : ~(r[1] = g /\ r[2] = name)}
        BY <1>2 DEF DetachGroupPolicy, Ok, Good, Typed, DbFields
    <2> HIDE DEF e
    <2>2. Good(e) /\ Calm(d, e)
        BY <1>2, <2>1, PolicyRows, PoliciesMayChange
    <2> QED
        BY <2>2 DEF e
<1> QED
    BY <1>1, <1>2

LEMMA DeleteGroupIsGood ==
    ASSUME NEW d, Good(d), NEW g
    PROVE  Good(DeleteGroup(d, g).db) /\ Calm(d, DeleteGroup(d, g).db)
<1>1. CASE g \notin d.groups
    BY <1>1, NothingIsCalm DEF DeleteGroup, Err
<1>2. CASE ~(g \notin d.groups)
    <2> DEFINE e == DeleteGroup(d, g).db
    <2>1. /\ DOMAIN e = DOMAIN d /\ e.users = d.users /\ e.keys = d.keys /\ e.temps = d.temps
          /\ e.managed = d.managed /\ e.userPolicies = d.userPolicies
          /\ e.groups = d.groups \ {g}
          /\ e.members = {m \in d.members : m[1] # g}
          /\ e.groupPolicies = {p \in d.groupPolicies : p[1] # g}
        BY <1>2 DEF DeleteGroup, Ok, Good, Typed, DbFields
    <2> HIDE DEF e
    <2>2. Good(e) /\ Calm(d, e)
        BY <1>2, <2>1, PolicyRows, PoliciesMayChange
    <2> QED
        BY <2>2 DEF e
<1> QED
    BY <1>1, <1>2

(* Managed policies, bucket policies and temporary credentials.              *)
LEMMA ManagedMayChange ==
    ASSUME NEW d, Good(d), NEW e,
           DOMAIN e = DOMAIN d, e.users = d.users, e.keys = d.keys, e.temps = d.temps,
           e.groups = d.groups, e.members = d.members, e.userPolicies = d.userPolicies,
           e.groupPolicies = d.groupPolicies,
           e.managed \in [DOMAIN e.managed -> Documents]
    PROVE  Good(e) /\ Calm(d, e)
BY DEF Good, Typed, Linked, Calm

LEMMA CreatePolicyIsGood ==
    ASSUME NEW d, Good(d), NEW name, NEW doc \in Documents
    PROVE  Good(CreatePolicy(d, name, doc).db) /\ Calm(d, CreatePolicy(d, name, doc).db)
<1> DEFINE e == CreatePolicy(d, name, doc).db
           managed == Bind(d.managed, name, doc)
<1>1. /\ DOMAIN e = DOMAIN d /\ e.users = d.users /\ e.keys = d.keys /\ e.temps = d.temps
      /\ e.groups = d.groups /\ e.members = d.members /\ e.userPolicies = d.userPolicies
      /\ e.groupPolicies = d.groupPolicies /\ e.managed = managed
    BY DEF CreatePolicy, Ok, Good, Typed, DbFields
<1>2. managed \in [DOMAIN managed -> Documents]
    BY DEF Bind, Good, Typed
<1> HIDE DEF e, managed
<1>3. Good(e) /\ Calm(d, e)
    BY <1>1, <1>2, ManagedMayChange
<1> QED
    BY <1>3 DEF e

LEMMA DeletePolicyIsGood ==
    ASSUME NEW d, Good(d), NEW name
    PROVE  Good(DeletePolicy(d, name).db) /\ Calm(d, DeletePolicy(d, name).db)
<1>1. CASE name \notin DOMAIN d.managed
    BY <1>1, NothingIsCalm DEF DeletePolicy, Err
<1>2. CASE ~(name \notin DOMAIN d.managed)
    <2> DEFINE e == DeletePolicy(d, name).db
               managed == Without(d.managed, {name})
    <2>1. /\ DOMAIN e = DOMAIN d /\ e.users = d.users /\ e.keys = d.keys /\ e.temps = d.temps
          /\ e.groups = d.groups /\ e.members = d.members /\ e.userPolicies = d.userPolicies
          /\ e.groupPolicies = d.groupPolicies /\ e.managed = managed
        BY <1>2 DEF DeletePolicy, Ok, Good, Typed, DbFields
    <2>2. managed \in [DOMAIN managed -> Documents]
        BY DEF Without, Restrict, Good, Typed
    <2> HIDE DEF e, managed
    <2>3. Good(e) /\ Calm(d, e)
        BY <2>1, <2>2, ManagedMayChange
    <2> QED
        BY <2>3 DEF e
<1> QED
    BY <1>1, <1>2

LEMMA SetBucketPolicyIsGood ==
    ASSUME NEW d, Good(d), NEW b, NEW doc
    PROVE  Good(SetBucketPolicy(d, b, doc).db) /\ Calm(d, SetBucketPolicy(d, b, doc).db)
<1> DEFINE e == SetBucketPolicy(d, b, doc).db
<1>1. /\ DOMAIN e = DOMAIN d /\ e.users = d.users /\ e.keys = d.keys /\ e.temps = d.temps
      /\ e.groups = d.groups /\ e.members = d.members /\ e.userPolicies = d.userPolicies
      /\ e.groupPolicies = d.groupPolicies /\ e.managed = d.managed
    BY DEF SetBucketPolicy, Ok, Good, Typed, DbFields
<1> HIDE DEF e
<1>2. Good(e) /\ Calm(d, e)
    BY <1>1, ManagedMayChange DEF Good, Typed
<1> QED
    BY <1>2 DEF e

LEMMA DeleteBucketPolicyIsGood ==
    ASSUME NEW d, Good(d), NEW b
    PROVE  Good(DeleteBucketPolicy(d, b).db) /\ Calm(d, DeleteBucketPolicy(d, b).db)
<1>1. CASE b \notin DOMAIN d.bucketPolicies
    BY <1>1, NothingIsCalm DEF DeleteBucketPolicy, Err
<1>2. CASE ~(b \notin DOMAIN d.bucketPolicies)
    <2> DEFINE e == DeleteBucketPolicy(d, b).db
    <2>1. /\ DOMAIN e = DOMAIN d /\ e.users = d.users /\ e.keys = d.keys /\ e.temps = d.temps
          /\ e.groups = d.groups /\ e.members = d.members /\ e.userPolicies = d.userPolicies
          /\ e.groupPolicies = d.groupPolicies /\ e.managed = d.managed
        BY <1>2 DEF DeleteBucketPolicy, Ok, Good, Typed, DbFields
    <2> HIDE DEF e
    <2>2. Good(e) /\ Calm(d, e)
        BY <2>1, ManagedMayChange DEF Good, Typed
    <2> QED
        BY <2>2 DEF e
<1> QED
    BY <1>1, <1>2

LEMMA TempsMayChange ==
    ASSUME NEW d, Good(d), NEW e,
           DOMAIN e = DOMAIN d, e.users = d.users, e.keys = d.keys,
           e.groups = d.groups, e.members = d.members, e.userPolicies = d.userPolicies,
           e.groupPolicies = d.groupPolicies, e.managed = d.managed,
           e.temps \in [DOMAIN e.temps -> [user: Users, expired: BOOLEAN]],
           \A k \in DOMAIN e.temps : e.temps[k].user \in DOMAIN e.users
    PROVE  Good(e)
BY DEF Good, Typed, Linked

LEMMA InsertTempIsGood ==
    ASSUME NEW d, Good(d), NEW k, NEW u
    PROVE  /\ Good(InsertTemp(d, k, u).db)
           /\ InsertTemp(d, k, u).db.keys = d.keys
           /\ \A x \in DOMAIN InsertTemp(d, k, u).db.temps \ {k} :
                /\ x \in DOMAIN d.temps
                /\ InsertTemp(d, k, u).db.temps[x].user = d.temps[x].user
<1>1. CASE u \notin DOMAIN d.users
    BY <1>1 DEF InsertTemp, Err
<1>2. CASE ~(u \notin DOMAIN d.users)
    <2> DEFINE e == InsertTemp(d, k, u).db
               temps == Bind(d.temps, k, [user |-> u, expired |-> FALSE])
    <2>1. /\ DOMAIN e = DOMAIN d /\ e.users = d.users /\ e.keys = d.keys /\ e.temps = temps
          /\ e.groups = d.groups /\ e.members = d.members /\ e.userPolicies = d.userPolicies
          /\ e.groupPolicies = d.groupPolicies /\ e.managed = d.managed
        BY <1>2 DEF InsertTemp, Ok, Good, Typed, DbFields
    <2>2. temps \in [DOMAIN temps -> [user: Users, expired: BOOLEAN]]
        BY <1>2 DEF Bind, Good, Typed
    <2>3. \A x \in DOMAIN temps : temps[x].user \in DOMAIN d.users
        BY <1>2 DEF Bind, Good, Linked
    <2>4. \A x \in DOMAIN temps \ {k} : x \in DOMAIN d.temps /\ temps[x] = d.temps[x]
        BY DEF Bind
    <2> HIDE DEF e, temps
    <2>5. Good(e)
        BY <2>1, <2>2, <2>3, TempsMayChange
    <2> QED
        BY <2>1, <2>4, <2>5 DEF e
<1> QED
    BY <1>1, <1>2

LEMMA ExpireIsGood ==
    ASSUME NEW d, Good(d), NEW k \in DOMAIN d.temps
    PROVE  LET e == [d EXCEPT !.temps[k].expired = TRUE]
           IN  Good(e) /\ Calm(d, e)
<1> DEFINE e == [d EXCEPT !.temps[k].expired = TRUE]
           temps == [d.temps EXCEPT ![k].expired = TRUE]
<1>1. /\ DOMAIN e = DOMAIN d /\ e.users = d.users /\ e.keys = d.keys /\ e.temps = temps
      /\ e.groups = d.groups /\ e.members = d.members /\ e.userPolicies = d.userPolicies
      /\ e.groupPolicies = d.groupPolicies /\ e.managed = d.managed
    BY DEF Good, Typed, DbFields
<1>2. DOMAIN temps = DOMAIN d.temps /\ temps \in [DOMAIN temps -> [user: Users, expired: BOOLEAN]]
    BY DEF Good, Typed
<1>3. \A x \in DOMAIN temps : temps[x].user = d.temps[x].user
    <2>1. \A x \in DOMAIN d.temps : d.temps[x] \in [user: Users, expired: BOOLEAN]
        BY DEF Good, Typed
    <2> QED
        BY <1>2, <2>1
<1>4. \A x \in DOMAIN temps : temps[x].user \in DOMAIN d.users
    BY <1>2, <1>3 DEF Good, Linked
<1> HIDE DEF e, temps
<1>5. Good(e)
    BY <1>1, <1>2, <1>4, TempsMayChange
<1>6. Calm(d, e)
    BY <1>1, <1>2, <1>3 DEF Calm
<1> QED
    BY <1>5, <1>6 DEF e
=============================================================================
