----------------------------- MODULE MultiIndex -----------------------------
(***************************************************************************)
(* multi_index, as one action of a contract uses one instance of it: the   *)
(* rows and the secondary index are the platform's, kept in two places;    *)
(* the instance caches every row it has loaded, with the handle of its     *)
(* secondary key once it knows it, and the next primary key.               *)
(*                                                                         *)
(* A row is its secondary key.  A handle of the platform is the primary    *)
(* key of what it stands for.  erase goes on to read the cached row it has *)
(* just freed: free only changes the mark of the block (Heap), so it reads *)
(* what was there.                                                         *)
(***************************************************************************)
EXTENDS OrderedTable

CONSTANT Limit \* no_available_primary_key (2^64 - 2)
Unset == Limit + 1

\* what the constants have to be: a primary key is a uint64_t
LimitAssumption == Limit \in Nat /\ Keys \subseteq 0 .. Unset

VARIABLES
    index, \* the secondary index: primary key -> secondary key
    items, \* the cache: primary key -> [obj, known], known if the handle in the index is
    next   \* _next_primary_key

vars == <<rows, at, index, items, next>>

Item(obj, known) == [obj |-> obj, known |-> known]

-----------------------------------------------------------------------------
(* load_object_by_primary_iterator: what was loaded before is not read     *)
(* again.  An iterator of the secondary index also keeps the handle.       *)
Loaded(cache, p) == IF p \in DOMAIN cache THEN cache ELSE Put(cache, p, Item(rows[p], FALSE))
Known(cache, p) == Put(cache, p, Item(cache[p].obj, TRUE))
Visited(cache, by, p) ==
    CASE p = End -> cache
      [] p # End /\ by = "primary" -> Loaded(cache, p)
      [] p # End /\ by = "secondary" -> Known(Loaded(cache, p), p)
InOrder(by) == IF by = "primary" THEN rows ELSE index

Bound(by, p) ==
    /\ MoveTo(by, p)
    /\ items' = Visited(items, by, p)
    /\ UNCHANGED <<rows, index, next>>

SeekLower(by, key) == Bound(by, LowerBound(by, InOrder(by), key))
SeekUpper(by, key) == Bound(by, UpperBound(by, InOrder(by), key))

(* find: a cached row is not looked up; by the secondary key, the row at   *)
(* the lower bound if it has that key.                                     *)
FindPrimary(pk) ==
    /\ MoveTo("primary", IF pk \in DOMAIN items \cup DOMAIN rows THEN pk ELSE End)
    /\ items' = IF pk \in DOMAIN items \cup DOMAIN rows THEN Loaded(items, pk) ELSE items
    /\ UNCHANGED <<rows, index, next>>

FindSecondary(key) ==
    LET p == LowerBound("secondary", index, key)
    IN  /\ items' = Visited(items, "secondary", p)
        /\ MoveTo("secondary", IF p # End /\ items'[p].obj = key THEN p ELSE End)
        /\ UNCHANGED <<rows, index, next>>

(* operator++ and operator--, of both kinds of iterators.                  *)
Here(cache) == IF at.by = "secondary" /\ at.pk # End THEN Known(cache, at.pk) ELSE cache
Step(p) ==
    /\ MoveTo(at.by, p)
    /\ items' = Visited(Here(items), at.by, p)
    /\ UNCHANGED <<rows, index, next>>
Increment == at.pk # End /\ Step(Successor(at.by, InOrder(at.by), at.pk))
Decrement ==
    LET p == Predecessor(at.by, InOrder(at.by), at.pk)
    IN  p # End /\ Step(p)

(* iterator_to of the secondary index.                                     *)
IteratorTo ==
    /\ at.pk # End
    /\ MoveTo("secondary", at.pk)
    /\ items' = Known(items, at.pk)
    /\ UNCHANGED <<rows, index, next>>

-----------------------------------------------------------------------------
SameNext(pk) == next                           \* fault: a key that is taken is handed out
NextAfter(pk) == IF pk < next THEN next ELSE IF pk >= Limit THEN Limit ELSE pk + 1

(* emplace: the platform refuses a primary key that is there.              *)
New(pk, sec) ==
    /\ pk \notin DOMAIN rows
    /\ rows' = Put(rows, pk, sec)
    /\ index' = Put(index, pk, sec)
    /\ items' = Put(items, pk, Item(sec, TRUE))
    /\ next' = NextAfter(pk)
Emplace(pk, sec) == New(pk, sec) /\ MoveTo("primary", pk)

(* modify: the secondary index is written if the cached key changes.       *)
ByHandle(cache, pk, sec) == cache[pk].known /\ sec # cache[pk].obj \* fault: an unknown handle is not looked up
Reindexes(cache, pk, sec) == sec # cache[pk].obj
WriteRow(cache, pk, sec) ==
    /\ rows' = Put(rows, pk, sec)
    /\ index' = IF Reindexes(cache, pk, sec) THEN Put(index, pk, sec) ELSE index
    /\ items' = Put(cache, pk, Item(sec, cache[pk].known \/ sec # cache[pk].obj))
    /\ next' = NextAfter(pk)
Modify(sec) == at.pk # End /\ WriteRow(items, at.pk, sec) /\ UNCHANGED at

(* erase: the iterator goes on to p, then the row leaves the cache, the    *)
(* table and, whether its handle was known or has to be looked up, the     *)
(* index.                                                                  *)
StillCached(cache, pk) == cache                \* fault: the row stays in the cache
Uncached(cache, pk) == Erase(cache, {pk})
EraseRow(cache, by, pk, p) ==
    /\ items' = Uncached(Visited(cache, by, p), pk)
    /\ rows' = Erase(rows, {pk})
    /\ index' = Erase(index, {pk})
    /\ UNCHANGED next
EraseAt ==
    LET p == Successor(at.by, InOrder(at.by), at.pk)
    IN  at.pk # End /\ EraseRow(Here(items), at.by, at.pk, p) /\ MoveTo(at.by, p)

-----------------------------------------------------------------------------
(* What singleton and table_upsert make of these: each finds the row by    *)
(* its key first, with an iterator of its own.                             *)
Present(pk) == pk \in DOMAIN items \cup DOMAIN rows
Get(pk, default) == IF Present(pk) THEN Loaded(items, pk)[pk].obj ELSE default
Upsert(pk, sec) ==
    /\ IF Present(pk) THEN WriteRow(Loaded(items, pk), pk, sec) ELSE New(pk, sec)
    /\ UNCHANGED at
GetOrCreate(pk, sec) == ~ Present(pk) /\ New(pk, sec) /\ UNCHANGED at
RemoveKey(pk) ==
    /\ Present(pk) /\ at.pk # pk
    /\ EraseRow(Loaded(items, pk), "primary", pk, Successor("primary", rows, pk))
    /\ UNCHANGED at

(* available_primary_key: one past the last row the first time, and kept;  *)
(* begin and the last row are loaded on the way.                           *)
LastKey == Predecessor("primary", rows, End)
AvailableKey ==
    /\ IF next # Unset THEN UNCHANGED <<items, next>>
       ELSE IF rows = EmptyTable THEN next' = 0 /\ UNCHANGED items
       ELSE /\ next' = IF LastKey >= Limit THEN Limit ELSE LastKey + 1
            /\ items' = Visited(Visited(items, "primary", Least("primary", rows, DOMAIN rows)), "primary", LastKey)
    /\ next' < Limit
    /\ UNCHANGED <<rows, at, index>>

MIInit == Init /\ index = rows /\ items = EmptyTable /\ next = Unset
MINext ==
    \/ \E by \in Orders, key \in Keys \cup SecKeys : SeekLower(by, key) \/ SeekUpper(by, key)
    \/ \E pk \in Keys : FindPrimary(pk)
    \/ \E key \in SecKeys : FindSecondary(key)
    \/ Increment \/ Decrement \/ IteratorTo \/ EraseAt \/ AvailableKey
    \/ \E pk \in Keys, sec \in SecKeys : Emplace(pk, sec) \/ Upsert(pk, sec) \/ GetOrCreate(pk, sec)
    \/ \E pk \in Keys : RemoveKey(pk)
    \/ \E sec \in SecKeys : Modify(sec)
MISpec == MIInit /\ [][MINext]_vars

-----------------------------------------------------------------------------
(* The cache holds rows that are there, as they are there; the index holds *)
(* their keys; the iterator stands on a cached row; the next key is above  *)
(* all rows, unless there is none; and a read finds what is stored.        *)
CacheCoherent == \A pk \in DOMAIN items : pk \in DOMAIN rows /\ items[pk].obj = rows[pk]
IndexCoherent == index = rows
IteratorAlive == at.pk # End => at.pk \in DOMAIN items
NextKeyFree == next < Limit => \A pk \in DOMAIN rows : pk < next
ReadsStored == \A pk \in Keys : Get(pk, End) = IF pk \in DOMAIN rows THEN rows[pk] ELSE End
TablesCoherent == CacheCoherent /\ IndexCoherent /\ IteratorAlive /\ NextKeyFree /\ ReadsStored

(* The contract cannot tell the table from an OrderedTable.                *)
TableSpec == Spec
=============================================================================
