---------------------------- MODULE LibraryProofs ----------------------------
(***************************************************************************)
(* Theorems about what the contracts are built on.  Whatever the keys and  *)
(* however a contract uses its instance of MultiIndex, the cache and the   *)
(* second copy of the keys never show: the contract sees the table of      *)
(* OrderedTable, and the next key it is offered is free.  Accounts match   *)
(* what was transferred, what an optional makes and destroys keeps up with *)
(* its flag but for reads, and a memo is read once.  Cards are drawn       *)
(* fairly, hands rank as the rules say, and the bets the games name have   *)
(* not the odds against the house.                                         *)
(***************************************************************************)
EXTENDS Library, TableLemmas, SequenceTheorems, TLAPS

(* The cached rows are rows of the table, as they are there, and with them *)
(* the one the iterator stands on; the index has the keys of the rows.     *)
Coherent ==
    /\ IsTable(rows, Keys, SecKeys)
    /\ CacheCoherent /\ IndexCoherent
    /\ at.by \in Orders /\ (at.pk # End => at.pk \in DOMAIN items)

(* What every step of the instance has to be shown to do.                  *)
StepOK == [Next]_<<rows, at>> /\ Coherent'

-----------------------------------------------------------------------------
(* The first of some rows is one of them, or there is none.                *)
LEMMA LeastIn == ASSUME NEW by, NEW t, NEW S PROVE Least(by, t, S) \in S \cup {End}
  BY Zenon DEF Least
LEMMA GreatestIn == ASSUME NEW by, NEW t, NEW S PROVE Greatest(by, t, S) \in S \cup {End}
  BY Zenon DEF Greatest

(* Every search in the order of the rows gives a row or End.               *)
LEMMA SearchIn ==
    ASSUME NEW by \in Orders, NEW key, NEW p
    PROVE  /\ LowerBound(by, rows, key) \in DOMAIN rows \cup {End}
           /\ UpperBound(by, rows, key) \in DOMAIN rows \cup {End}
           /\ Successor(by, rows, p) \in {q \in DOMAIN rows : Before(by, rows, p, q)} \cup {End}
           /\ Predecessor(by, rows, p) \in DOMAIN rows \cup {End}
<1>1. LowerBound(by, rows, key) \in {q \in DOMAIN rows : KeyOf(by, rows, q) >= key} \cup {End}
  BY LeastIn, Zenon DEF LowerBound
<1>2. UpperBound(by, rows, key) \in {q \in DOMAIN rows : KeyOf(by, rows, q) > key} \cup {End}
  BY LeastIn, Zenon DEF UpperBound
<1>3. Successor(by, rows, p) \in {q \in DOMAIN rows : Before(by, rows, p, q)} \cup {End}
  BY LeastIn, Zenon DEF Successor
<1>4. Predecessor(by, rows, p) \in DOMAIN rows \cup {End}
  <2>1. CASE p = End
    BY GreatestIn, <2>1, Zenon DEF Predecessor
  <2>2. CASE p # End
    <3>1. Predecessor(by, rows, p) \in {q \in DOMAIN rows : Before(by, rows, q, p)} \cup {End}
      BY GreatestIn, <2>2, Zenon DEF Predecessor
    <3> QED BY <3>1
  <2> QED BY <2>1, <2>2
<1> QED BY <1>1, <1>2, <1>3, <1>4

(* The keys of the rows are numbers.                                       *)
LEMMA KeysAreNumbers ==
    ASSUME TableAssumption, Coherent
    PROVE  DOMAIN rows \subseteq Nat /\ \A pk \in DOMAIN rows : rows[pk] \in Int
<1>1. DOMAIN rows \subseteq Keys /\ \A pk \in DOMAIN rows : rows[pk] \in SecKeys
  BY DEF Coherent, IsTable
<1>2. Keys \subseteq Nat
  BY DEF TableAssumption
<1>3. SecKeys \subseteq Int
  BY DEF TableAssumption
<1>4. DOMAIN rows \subseteq Nat
  BY <1>1, <1>2
<1>5. \A pk \in DOMAIN rows : rows[pk] \in Int
  BY <1>1, <1>3, Zenon
<1> QED BY <1>4, <1>5

(* A row comes neither before nor after itself.                            *)
LEMMA SuccessorElsewhere ==
    ASSUME TableAssumption, Coherent, NEW by \in Orders, NEW p \in DOMAIN rows
    PROVE  Successor(by, rows, p) # p \/ p = End
<1>1. ~ Before(by, rows, p, p)
  <2>1. p \in Int /\ rows[p] \in Int
    BY KeysAreNumbers
  <2>2. CASE by = "primary"
    BY <2>1, <2>2 DEF Before
  <2>3. CASE by = "secondary"
    BY <2>1, <2>3 DEF Before
  <2> QED BY <2>2, <2>3 DEF Orders
<1> QED BY <1>1, SearchIn

(* The row with a primary key is found at the lower bound of that key.     *)
LEMMA FoundPrimary ==
    ASSUME TableAssumption, Coherent, NEW pk \in Keys
    PROVE  Found("primary", rows, pk) = IF pk \in DOMAIN rows THEN pk ELSE End
<1> DEFINE S == {q \in DOMAIN rows : KeyOf("primary", rows, q) >= pk}
           low == LowerBound("primary", rows, pk)
<1>1. S = {q \in DOMAIN rows : q >= pk} /\ S \subseteq Int /\ pk \in Int
  BY KeysAreNumbers DEF KeyOf, TableAssumption
<1>2. CASE pk \in DOMAIN rows
  <2>1. pk \in S /\ \A q \in S \ {pk} : Before("primary", rows, pk, q)
    BY <1>1, <1>2 DEF Before
  <2>2. low \in S /\ \A q \in S \ {low} : Before("primary", rows, low, q)
    <3> HIDE DEF S
    <3>1. low = CHOOSE p \in S : \A q \in S \ {p} : Before("primary", rows, p, q)
      BY <2>1, Zenon DEF LowerBound, Least, S
    <3> QED BY <2>1, <3>1, Zenon
  <2>3. low = pk
    BY <1>1, <2>1, <2>2 DEF Before
  <2>4. pk # End
    BY <1>2, KeysAreNumbers DEF End
  <2> QED BY <1>2, <2>3, <2>4 DEF Found, KeyOf
<1>3. CASE pk \notin DOMAIN rows
  BY <1>3, SearchIn DEF Found, KeyOf, Orders
<1> QED BY <1>2, <1>3

-----------------------------------------------------------------------------
(* Loading a row, or learning its handle, keeps the cache coherent.        *)
Caches(cache) ==
    \A pk \in DOMAIN cache : pk \in DOMAIN rows /\ cache[pk].obj = rows[pk]

LEMMA KnownCaches ==
    ASSUME NEW cache, Caches(cache), NEW p \in DOMAIN cache
    PROVE  Caches(Known(cache, p)) /\ DOMAIN Known(cache, p) = DOMAIN cache
  BY DEF Caches, Known, Item, Put

LEMMA LoadedCaches ==
    ASSUME NEW cache, Caches(cache), NEW p \in DOMAIN rows
    PROVE  Caches(Loaded(cache, p)) /\ DOMAIN Loaded(cache, p) = DOMAIN cache \cup {p}
  BY DEF Caches, Loaded, Item, Put

LEMMA VisitedCaches ==
    ASSUME NEW cache, Caches(cache), NEW by \in Orders, NEW p \in DOMAIN rows \cup {End}
    PROVE  /\ Caches(Visited(cache, by, p))
           /\ DOMAIN Visited(cache, by, p) = DOMAIN cache \cup ({p} \ {End})
<1>1. CASE p = End
  BY <1>1 DEF Visited
<1>2. CASE p # End /\ by = "primary"
  <2>1. Visited(cache, by, p) = Loaded(cache, p)
    BY <1>2 DEF Visited
  <2> QED BY <1>2, <2>1, LoadedCaches
<1>3. CASE p # End /\ by = "secondary"
  <2>1. Visited(cache, by, p) = Known(Loaded(cache, p), p)
    BY <1>3 DEF Visited
  <2>2. Caches(Loaded(cache, p)) /\ DOMAIN Loaded(cache, p) = DOMAIN cache \cup {p}
    BY <1>3, LoadedCaches
  <2> QED BY <1>3, <2>1, <2>2, KnownCaches
<1> QED BY <1>1, <1>2, <1>3 DEF Orders

LEMMA HereCaches ==
    ASSUME Coherent
    PROVE  Caches(Here(items)) /\ DOMAIN Here(items) = DOMAIN items
<1>1. Caches(items)
  BY DEF Coherent, CacheCoherent, Caches
<1>2. CASE at.by = "secondary" /\ at.pk # End
  BY <1>1, <1>2, KnownCaches DEF Here, Coherent
<1>3. CASE ~ (at.by = "secondary" /\ at.pk # End)
  BY <1>1, <1>3 DEF Here
<1> QED BY <1>2, <1>3

(* An action that moves the iterator to a row it loads, and writes none.   *)
LEMMA MoveOK ==
    ASSUME Coherent, NEW by \in Orders, NEW p, MoveTo(by, p),
           UNCHANGED <<rows, index>>, Caches(items'), p # End => p \in DOMAIN items'
    PROVE  Coherent'
  BY DEF Coherent, CacheCoherent, IndexCoherent, Caches, MoveTo

LEMMA OneOrder == ASSUME Coherent, NEW by PROVE InOrder(by) = rows
  BY DEF Coherent, IndexCoherent, InOrder

LEMMA ItemsCache == ASSUME Coherent PROVE Caches(items)
  BY DEF Coherent, CacheCoherent, Caches

-----------------------------------------------------------------------------
LEMMA BoundOK ==
    ASSUME Coherent, NEW by \in Orders, NEW key \in Keys \cup SecKeys,
           SeekLower(by, key) \/ SeekUpper(by, key)
    PROVE  StepOK
<1>1. PICK p : /\ p = LowerBound(by, rows, key) \/ p = UpperBound(by, rows, key)
               /\ Bound(by, p)
  BY OneOrder, Zenon DEF SeekLower, SeekUpper
<1>2. p \in DOMAIN rows \cup {End}
  BY <1>1, SearchIn
<1>3. Caches(items') /\ DOMAIN items' = DOMAIN items \cup ({p} \ {End})
  BY <1>1, <1>2, ItemsCache, VisitedCaches DEF Bound
<1>4. Coherent'
  BY <1>1, <1>3, MoveOK DEF Bound
<1>5. Seek
  BY <1>1, Zenon DEF Seek, Bound
<1> QED BY <1>4, <1>5 DEF StepOK, Next

LEMMA FindPrimaryOK == ASSUME TableAssumption, Coherent, NEW pk \in Keys, FindPrimary(pk) PROVE StepOK
<1> DEFINE p == IF pk \in DOMAIN rows THEN pk ELSE End
<1>1. DOMAIN items \cup DOMAIN rows = DOMAIN rows
  BY ItemsCache DEF Caches
<1>2. MoveTo("primary", p) /\ UNCHANGED <<rows, index>>
  BY <1>1 DEF FindPrimary
<1>3. items' = IF pk \in DOMAIN rows THEN Loaded(items, pk) ELSE items
  BY <1>1 DEF FindPrimary
<1>4. Caches(items') /\ (p # End => p \in DOMAIN items')
  BY <1>3, ItemsCache, LoadedCaches
<1> HIDE DEF p
<1>5. Coherent'
  BY <1>2, <1>4, MoveOK DEF Orders
<1>6. p = Found("primary", rows, pk)
  BY FoundPrimary DEF p
<1>7. Seek
  BY <1>2, <1>6, Zenon DEF Seek, Orders
<1> QED BY <1>5, <1>7 DEF StepOK, Next

LEMMA FindSecondaryOK == ASSUME Coherent, NEW key \in SecKeys, FindSecondary(key) PROVE StepOK
<1> DEFINE low == LowerBound("secondary", rows, key)
           p == IF low # End /\ items'[low].obj = key THEN low ELSE End
<1>1. low = LowerBound("secondary", index, key)
  BY DEF Coherent, IndexCoherent
<1>2. /\ MoveTo("secondary", p) /\ items' = Visited(items, "secondary", low)
      /\ UNCHANGED <<rows, index>>
  BY <1>1 DEF FindSecondary
<1>3. low \in DOMAIN rows \cup {End}
  BY SearchIn DEF Orders
<1>4. Caches(items') /\ DOMAIN items' = DOMAIN items \cup ({low} \ {End})
  BY <1>2, <1>3, ItemsCache, VisitedCaches DEF Orders
<1>5. p = Found("secondary", rows, key)
  <2>1. low # End => items'[low].obj = rows[low]
    BY <1>3, <1>4 DEF Caches
  <2> QED BY <2>1 DEF Found, KeyOf
<1>6. p # End => p \in DOMAIN items'
  BY <1>4
<1> HIDE DEF low, p
<1>7. Coherent'
  BY <1>2, <1>4, <1>6, MoveOK DEF Orders
<1>8. Seek
  BY <1>2, <1>5, Zenon DEF Seek, Orders
<1> QED BY <1>7, <1>8 DEF StepOK, Next

(* operator++ and operator-- move to the same row in either copy.          *)
LEMMA StepsOK == ASSUME Coherent, Increment \/ Decrement PROVE StepOK
<1>1. PICK p : /\ Step(p)
               /\ \/ at.pk # End /\ p = Successor(at.by, rows, at.pk)
                  \/ p # End /\ p = Predecessor(at.by, rows, at.pk)
  BY OneOrder, Zenon DEF Increment, Decrement
<1>2. at.by \in Orders
  BY DEF Coherent
<1>3. p \in DOMAIN rows \cup {End}
  BY <1>1, <1>2, SearchIn
<1>4. Caches(items') /\ DOMAIN items' = DOMAIN items \cup ({p} \ {End})
  <2>1. items' = Visited(Here(items), at.by, p)
    BY <1>1 DEF Step
  <2>2. Caches(Here(items)) /\ DOMAIN Here(items) = DOMAIN items
    BY HereCaches
  <2>3. /\ Caches(Visited(Here(items), at.by, p))
        /\ DOMAIN Visited(Here(items), at.by, p) = DOMAIN Here(items) \cup ({p} \ {End})
    BY <1>2, <1>3, <2>2, VisitedCaches, Zenon
  <2> QED BY <2>1, <2>2, <2>3
<1>5. Coherent'
  BY <1>1, <1>2, <1>4, MoveOK DEF Step
<1>6. Advance \/ Retreat
  BY <1>1, Zenon DEF Advance, Retreat, Step
<1> QED BY <1>5, <1>6 DEF StepOK, Next

LEMMA IteratorToOK == ASSUME Coherent, IteratorTo PROVE StepOK
<1>1. Caches(items') /\ at.pk \in DOMAIN items'
  BY ItemsCache, KnownCaches DEF IteratorTo, Coherent
<1>2. Coherent'
  BY <1>1, MoveOK DEF IteratorTo, Orders
<1>3. ChangeOrder
  BY DEF ChangeOrder, IteratorTo
<1> QED BY <1>2, <1>3 DEF StepOK, Next

LEMMA AvailableKeyOK == ASSUME Coherent, AvailableKey PROVE StepOK
<1>1. UNCHANGED <<rows, at, index>>
  BY DEF AvailableKey
<1>2. Caches(items') /\ DOMAIN items \subseteq DOMAIN items'
  <2>1. CASE items' = items
    BY <2>1, ItemsCache
  <2>2. CASE items' # items
    <3> DEFINE low == Least("primary", rows, DOMAIN rows)
    <3>1. items' = Visited(Visited(items, "primary", low), "primary", LastKey)
      BY <2>2 DEF AvailableKey
    <3>2. low \in DOMAIN rows \cup {End} /\ LastKey \in DOMAIN rows \cup {End}
      BY LeastIn, SearchIn DEF LastKey, Orders
    <3> HIDE DEF low
    <3> DEFINE first == Visited(items, "primary", low)
               last == Visited(first, "primary", LastKey)
    <3>3. "primary" \in Orders
      BY DEF Orders
    <3>4. Caches(first) /\ DOMAIN first = DOMAIN items \cup ({low} \ {End})
      BY <3>2, <3>3, ItemsCache, VisitedCaches, Zenon
    <3> HIDE DEF first
    <3>5. Caches(last) /\ DOMAIN last = DOMAIN first \cup ({LastKey} \ {End})
      <4>1. Caches(first) /\ LastKey \in DOMAIN rows \cup {End}
        BY <3>2, <3>4
      <4> QED BY <3>3, <4>1, VisitedCaches, Zenon
    <3>6. items' = last
      BY <3>1 DEF first
    <3> QED BY <3>4, <3>5, <3>6
  <2> QED BY <2>1, <2>2
<1>3. Coherent'
  BY <1>1, <1>2 DEF Coherent, CacheCoherent, IndexCoherent, Caches
<1> QED BY <1>1, <1>3 DEF StepOK

-----------------------------------------------------------------------------
(* Writing a row writes the copy of its key too, if it changes.            *)
LEMMA NewOK ==
    ASSUME Coherent, NEW pk \in Keys, NEW sec \in SecKeys, New(pk, sec), at'.by \in Orders,
           at'.pk # End => at'.pk \in DOMAIN items \cup {pk}
    PROVE  Coherent'
<1>1. /\ DOMAIN rows' = DOMAIN rows \cup {pk} /\ rows'[pk] = sec
      /\ \A x \in DOMAIN rows : rows'[x] = rows[x]
  <2>1. rows' = Put(rows, pk, sec) /\ pk \notin DOMAIN rows
    BY DEF New
  <2> QED BY <2>1 DEF Put
<1>2. /\ DOMAIN items' = DOMAIN items \cup {pk} /\ items'[pk].obj = sec
      /\ \A x \in DOMAIN items \ {pk} : items'[x] = items[x]
  <2>1. items' = Put(items, pk, Item(sec, TRUE))
    BY DEF New
  <2> QED BY <2>1 DEF Put, Item
<1>3. index' = rows'
  BY DEF New, Coherent, IndexCoherent
<1>4. pk \notin DOMAIN rows
  BY DEF New
<1>5. IsTable(rows', Keys, SecKeys)
  BY PutIsTable DEF New, Coherent
<1>6. CacheCoherent'
  BY <1>1, <1>2, <1>4 DEF Coherent, CacheCoherent
<1> QED BY <1>2, <1>3, <1>5, <1>6 DEF Coherent, IndexCoherent

LEMMA WriteRowOK ==
    ASSUME Coherent, NEW cache, Caches(cache), DOMAIN items \subseteq DOMAIN cache,
           NEW pk \in DOMAIN cache, NEW sec \in SecKeys, WriteRow(cache, pk, sec), UNCHANGED at
    PROVE  Coherent'
<1>1. /\ DOMAIN rows' = DOMAIN rows \cup {pk} /\ rows'[pk] = sec
      /\ \A x \in DOMAIN rows \ {pk} : rows'[x] = rows[x]
  <2>1. rows' = Put(rows, pk, sec)
    BY DEF WriteRow
  <2> QED BY <2>1 DEF Put
<1>2. /\ DOMAIN items' = DOMAIN cache \cup {pk} /\ items'[pk].obj = sec
      /\ \A x \in DOMAIN cache \ {pk} : items'[x] = cache[x]
  <2>1. PICK known : items' = Put(cache, pk, Item(sec, known))
    BY DEF WriteRow
  <2> QED BY <2>1 DEF Put, Item
<1>3. pk \in DOMAIN rows /\ cache[pk].obj = rows[pk]
  BY DEF Caches
<1>4. index' = rows'
  <2>1. CASE sec # cache[pk].obj
    BY <2>1 DEF WriteRow, Reindexes, Coherent, IndexCoherent
  <2>2. CASE sec = cache[pk].obj
    <3>1. index' = index /\ rows' = Put(rows, pk, rows[pk])
      BY <1>3, <2>2 DEF WriteRow, Reindexes
    <3>2. index = rows
      BY DEF Coherent, IndexCoherent
    <3>3. rows = [x \in DOMAIN rows |-> rows[x]]
      BY DEF Coherent, IsTable
    <3> QED BY <1>3, <3>1, <3>2, <3>3 DEF Put
  <2> QED BY <2>1, <2>2
<1>5. IsTable(rows', Keys, SecKeys)
  <2>1. pk \in Keys
    BY <1>3 DEF Coherent, IsTable
  <2> QED BY <2>1, PutIsTable DEF WriteRow, Coherent
<1>6. CacheCoherent'
  BY <1>1, <1>2 DEF Caches, CacheCoherent
<1> QED BY <1>2, <1>4, <1>5, <1>6 DEF Coherent, IndexCoherent

(* Erasing a row erases it from the cache and the index as well.           *)
LEMMA EraseRowOK ==
    ASSUME Coherent, NEW cache, Caches(cache), DOMAIN items \subseteq DOMAIN cache,
           NEW by \in Orders, NEW pk \in DOMAIN rows, NEW p \in DOMAIN rows \cup {End},
           EraseRow(cache, by, pk, p),
           at'.by \in Orders, at'.pk # End => at'.pk \in (DOMAIN items \cup {p}) \ {pk}
    PROVE  Coherent'
<1>1. /\ DOMAIN rows' = DOMAIN rows \ {pk}
      /\ \A x \in DOMAIN rows \ {pk} : rows'[x] = rows[x]
  BY EraseLookup DEF EraseRow
<1>2. index' = rows'
  BY DEF EraseRow, Coherent, IndexCoherent
<1> DEFINE seen == Visited(cache, by, p)
<1>3. Caches(seen) /\ DOMAIN seen = DOMAIN cache \cup ({p} \ {End})
  BY VisitedCaches, Zenon
<1>4. items' = Erase(seen, {pk})
  BY DEF EraseRow, Uncached
<1> HIDE DEF seen
<1>5. /\ DOMAIN items' = DOMAIN seen \ {pk}
      /\ \A x \in DOMAIN seen \ {pk} : items'[x] = seen[x]
  BY <1>4, EraseLookup
<1>6. IsTable(rows', Keys, SecKeys)
  BY EraseIsTable DEF EraseRow, Coherent
<1>7. CacheCoherent'
  BY <1>1, <1>3, <1>5 DEF Caches, CacheCoherent
<1>8. at'.pk # End => at'.pk \in DOMAIN items'
  BY <1>3, <1>5
<1> QED BY <1>2, <1>6, <1>7, <1>8 DEF Coherent, IndexCoherent

-----------------------------------------------------------------------------
LEMMA EmplaceOK ==
    ASSUME Coherent, NEW pk \in Keys, NEW sec \in SecKeys, Emplace(pk, sec)
    PROVE  StepOK
<1>1. New(pk, sec) /\ at' = [by |-> "primary", pk |-> pk]
  BY DEF Emplace, MoveTo
<1>2. at'.by \in Orders /\ at'.pk = pk
  BY <1>1 DEF Orders
<1>3. Coherent'
  BY <1>1, <1>2, NewOK
<1>4. Insert
  BY DEF Insert, Emplace, New
<1> QED BY <1>3, <1>4 DEF StepOK, Next

(* A row that is missing is created beside the iterator.                   *)
LEMMA CreateOK ==
    ASSUME Coherent, NEW pk \in Keys, NEW sec \in SecKeys, New(pk, sec), UNCHANGED at
    PROVE  StepOK
<1>1. Coherent'
  BY NewOK DEF Coherent
<1>2. Store
  BY DEF Store, New
<1> QED BY <1>1, <1>2 DEF StepOK, Next

LEMMA ModifyOK == ASSUME Coherent, NEW sec \in SecKeys, Modify(sec) PROVE StepOK
<1>1. at.pk \in DOMAIN items
  BY DEF Modify, Coherent
<1>2. Coherent'
  BY <1>1, ItemsCache, WriteRowOK DEF Modify
<1>3. Write
  BY DEF Write, Modify, WriteRow
<1> QED BY <1>2, <1>3 DEF StepOK, Next

LEMMA PresentIsRow ==
    ASSUME Coherent, NEW pk
    PROVE  Present(pk) <=> pk \in DOMAIN rows
  BY ItemsCache DEF Present, Caches

LEMMA UpsertOK ==
    ASSUME Coherent, NEW pk \in Keys, NEW sec \in SecKeys, Upsert(pk, sec)
    PROVE  StepOK
<1>1. CASE ~ Present(pk)
  BY <1>1, CreateOK DEF Upsert
<1>2. CASE Present(pk)
  <2>1. pk \in DOMAIN rows
    BY <1>2, PresentIsRow
  <2> DEFINE cache == Loaded(items, pk)
  <2>2. Caches(cache) /\ DOMAIN cache = DOMAIN items \cup {pk}
    BY <2>1, ItemsCache, LoadedCaches, Zenon
  <2>3. WriteRow(cache, pk, sec) /\ UNCHANGED at
    BY <1>2 DEF Upsert
  <2> HIDE DEF cache
  <2>4. Coherent'
    BY <2>2, <2>3, WriteRowOK
  <2>5. Store
    BY <2>3 DEF Store, WriteRow
  <2> QED BY <2>4, <2>5 DEF StepOK, Next
<1> QED BY <1>1, <1>2

(* erase moves the iterator on before the row it stands on goes.           *)
LEMMA EraseAtOK == ASSUME TableAssumption, Coherent, EraseAt PROVE StepOK
<1> DEFINE p == Successor(at.by, rows, at.pk)
<1>1. EraseRow(Here(items), at.by, at.pk, p) /\ MoveTo(at.by, p) /\ at.pk # End
  BY OneOrder DEF EraseAt
<1>2. at.by \in Orders /\ at.pk \in DOMAIN items /\ at.pk \in DOMAIN rows
  BY <1>1, ItemsCache DEF Coherent, Caches
<1>3. p \in DOMAIN rows \cup {End} /\ p # at.pk
  BY <1>1, <1>2, SearchIn, SuccessorElsewhere
<1> HIDE DEF p
<1>4. at'.by = at.by /\ at'.pk = p
  BY <1>1 DEF MoveTo
<1>5. Coherent'
  <2> DEFINE cache == Here(items)
  <2>1. Caches(cache) /\ DOMAIN items \subseteq DOMAIN cache
    BY HereCaches
  <2>2. EraseRow(cache, at.by, at.pk, p)
    BY <1>1
  <2> HIDE DEF cache
  <2> QED BY <1>2, <1>3, <1>4, <2>1, <2>2, EraseRowOK
<1>6. EraseHere
  BY <1>1 DEF EraseHere, EraseRow, p
<1> QED BY <1>5, <1>6 DEF StepOK, Next

LEMMA RemoveKeyOK == ASSUME Coherent, NEW pk \in Keys, RemoveKey(pk) PROVE StepOK
<1> DEFINE p == Successor("primary", rows, pk)
           cache == Loaded(items, pk)
<1>1. EraseRow(cache, "primary", pk, p) /\ at.pk # pk /\ UNCHANGED at
  BY DEF RemoveKey
<1>2. pk \in DOMAIN rows
  BY PresentIsRow DEF RemoveKey
<1>3. Caches(cache) /\ DOMAIN items \subseteq DOMAIN cache
  BY <1>2, ItemsCache, LoadedCaches
<1>4. "primary" \in Orders /\ p \in DOMAIN rows \cup {End}
  BY SearchIn DEF Orders
<1> HIDE DEF p, cache
<1>5. Coherent'
  <2>1. at'.by \in Orders /\ (at'.pk # End => at'.pk \in (DOMAIN items \cup {p}) \ {pk})
    BY <1>1 DEF Coherent
  <2> QED BY <1>1, <1>2, <1>3, <1>4, <2>1, EraseRowOK
<1>6. Discard
  BY <1>1, <1>2 DEF Discard, EraseRow
<1> QED BY <1>5, <1>6 DEF StepOK, Next

-----------------------------------------------------------------------------
LEMMA NextOK == ASSUME TableAssumption, Coherent, [MINext]_vars PROVE StepOK
<1>1. CASE \E by \in Orders, key \in Keys \cup SecKeys : SeekLower(by, key) \/ SeekUpper(by, key)
  BY <1>1, BoundOK
<1>2. CASE \E pk \in Keys : FindPrimary(pk)
  BY <1>2, FindPrimaryOK
<1>3. CASE \E key \in SecKeys : FindSecondary(key)
  BY <1>3, FindSecondaryOK
<1>4. CASE Increment \/ Decrement \/ IteratorTo \/ EraseAt \/ AvailableKey
  BY <1>4, StepsOK, IteratorToOK, EraseAtOK, AvailableKeyOK
<1>5. CASE \E pk \in Keys, sec \in SecKeys : Emplace(pk, sec) \/ Upsert(pk, sec) \/ GetOrCreate(pk, sec)
  BY <1>5, EmplaceOK, UpsertOK, CreateOK DEF GetOrCreate
<1>6. CASE \E pk \in Keys : RemoveKey(pk)
  BY <1>6, RemoveKeyOK
<1>7. CASE \E sec \in SecKeys : Modify(sec)
  BY <1>7, ModifyOK
<1>8. CASE UNCHANGED vars
  BY <1>8 DEF vars, StepOK, Coherent, CacheCoherent, IndexCoherent
<1> QED BY <1>1, <1>2, <1>3, <1>4, <1>5, <1>6, <1>7, <1>8 DEF MINext

LEMMA InitOK == MIInit => Init /\ Coherent
<1> SUFFICES ASSUME MIInit PROVE Init /\ Coherent
  OBVIOUS
<1>1. IsTable(rows, Keys, SecKeys)
  BY DEF MIInit, Init, IsTable
<1>2. at = [by |-> "primary", pk |-> End] /\ DOMAIN items = {} /\ index = rows
  BY DEF MIInit, Init, EmptyTable
<1> QED BY <1>1, <1>2 DEF MIInit, Coherent, CacheCoherent, IndexCoherent, Orders

(* multi_index implements OrderedTable: reading a row from the cache,      *)
(* writing only the index entries whose key changed, and looking up only   *)
(* the handles it does not know, it never shows a contract anything but    *)
(* the table.                                                              *)
THEOREM MultiIndexImplementsTable == ASSUME TableAssumption PROVE MISpec => TableSpec
<1>1. Coherent /\ [MINext]_vars => [Next]_<<rows, at>> /\ Coherent'
  BY NextOK DEF StepOK
<1> QED BY <1>1, InitOK, PTL DEF MISpec, TableSpec, Spec

-----------------------------------------------------------------------------
(* The next key the instance hands out.                                    *)
Numbered == next \in 0 .. Unset /\ NextKeyFree

(* Moving about and erasing leave the next key, and add no row below it.   *)
LEMMA SameNumbered ==
    ASSUME Numbered, UNCHANGED next, DOMAIN rows' \subseteq DOMAIN rows
    PROVE  Numbered'
  BY DEF Numbered, NextKeyFree

(* A row that is written moves the next key past its own.                  *)
LEMMA WrittenNumbered ==
    ASSUME TableAssumption, LimitAssumption, Coherent, Numbered,
           NEW pk \in Keys, next' = NextAfter(pk), DOMAIN rows' = DOMAIN rows \cup {pk}
    PROVE  Numbered'
<1>1. pk \in Nat /\ next \in Nat /\ Limit \in Nat /\ Unset = Limit + 1 /\ next <= Unset
  BY DEF LimitAssumption, TableAssumption, Numbered, Unset
<1>2. next' \in 0 .. Unset
  BY <1>1 DEF NextAfter
<1>3. ASSUME next' < Limit, NEW q \in DOMAIN rows' PROVE q < next'
  <2>1. q \in Nat
    BY <1>1, KeysAreNumbers
  <2>2. next < Limit /\ pk < next'
    BY <1>1, <1>3 DEF NextAfter
  <2>3. next <= next'
    BY <1>1, <1>3 DEF NextAfter
  <2>4. CASE q \in DOMAIN rows
    <3>1. q < next
      BY <2>2, <2>4 DEF Numbered, NextKeyFree
    <3> QED BY <1>1, <1>2, <2>1, <2>3, <3>1 DEF Unset
  <2>5. CASE q = pk
    BY <2>2, <2>5
  <2> QED BY <2>4, <2>5
<1> QED BY <1>2, <1>3 DEF Numbered, NextKeyFree

(* A table of numbered rows has a last one, and all the others are before  *)
(* it.                                                                     *)
LEMMA LastIsLast ==
    ASSUME TableAssumption, LimitAssumption, Coherent, DOMAIN rows # {}
    PROVE  LastKey \in DOMAIN rows /\ \A q \in DOMAIN rows : q <= LastKey
<1>1. DOMAIN rows \subseteq Nat
  BY KeysAreNumbers
<1>2. IsFiniteSet(DOMAIN rows)
  <2>1. DOMAIN rows \subseteq 0 .. Unset
    BY DEF Coherent, IsTable, LimitAssumption
  <2>2. IsFiniteSet(0 .. Unset)
    BY FS_Interval DEF LimitAssumption, Unset
  <2> QED BY <2>1, <2>2, FS_Subset
<1> DEFINE self == [q \in DOMAIN rows |-> q]
<1>3. PICK last \in DOMAIN rows : \A q \in DOMAIN rows : self[q] <= self[last]
  <2>1. \A q \in DOMAIN rows : self[q] \in Int
    BY <1>1
  <2> HIDE DEF self
  <2> QED BY <1>2, <2>1, HasLargest
<1>4. \A q \in DOMAIN rows \ {last} : Before("primary", rows, q, last)
  BY <1>1, <1>3 DEF Before
<1>5. LastKey = CHOOSE p \in DOMAIN rows : \A q \in DOMAIN rows \ {p} : Before("primary", rows, q, p)
  BY <1>4, Zenon DEF LastKey, Predecessor, Greatest
<1>6. LastKey \in DOMAIN rows /\ \A q \in DOMAIN rows \ {LastKey} : Before("primary", rows, q, LastKey)
  BY <1>4, <1>5, Zenon
<1> QED BY <1>1, <1>6 DEF Before

LEMMA AvailableNumbered ==
    ASSUME TableAssumption, LimitAssumption, Coherent, Numbered, AvailableKey
    PROVE  Numbered'
<1>1. rows' = rows /\ next' < Limit
  BY DEF AvailableKey
<1>2. CASE next # Unset
  BY <1>1, <1>2, SameNumbered DEF AvailableKey
<1>3. CASE next = Unset /\ rows = EmptyTable
  BY <1>1, <1>3 DEF AvailableKey, Numbered, NextKeyFree, EmptyTable, LimitAssumption, Unset
<1>4. CASE next = Unset /\ rows # EmptyTable
  <2>1. DOMAIN rows # {}
    <3>1. rows = [q \in DOMAIN rows |-> rows[q]]
      BY DEF Coherent, IsTable
    <3> QED BY <1>4, <3>1 DEF EmptyTable
  <2>2. LastKey \in Nat /\ \A q \in DOMAIN rows : q \in Nat /\ q <= LastKey
    BY <2>1, LastIsLast, KeysAreNumbers
  <2>3. next' = IF LastKey >= Limit THEN Limit ELSE LastKey + 1
    BY <1>4 DEF AvailableKey
  <2>4. Limit \in Nat
    BY DEF LimitAssumption
  <2>5. next' = LastKey + 1 /\ next' \in 0 .. Unset
    BY <1>1, <2>2, <2>3, <2>4 DEF Unset
  <2>6. \A q \in DOMAIN rows : q < next'
    BY <2>2, <2>5
  <2> QED BY <1>1, <2>5, <2>6 DEF Numbered, NextKeyFree
<1> QED BY <1>2, <1>3, <1>4

LEMMA NumberedOK ==
    ASSUME TableAssumption, LimitAssumption, Coherent, Numbered, [MINext]_vars
    PROVE  Numbered'
<1>1. ASSUME NEW pk \in Keys, NEW sec \in SecKeys, New(pk, sec) PROVE Numbered'
  BY <1>1, WrittenNumbered DEF New, Put
<1>2. ASSUME NEW pk \in Keys, NEW sec \in SecKeys, NEW cache, WriteRow(cache, pk, sec) PROVE Numbered'
  BY <1>2, WrittenNumbered DEF WriteRow, Put
<1>3. ASSUME NEW cache, NEW by, NEW pk, NEW p, EraseRow(cache, by, pk, p) PROVE Numbered'
  <2>1. rows' = Erase(rows, {pk}) /\ UNCHANGED next
    BY <1>3 DEF EraseRow
  <2>2. DOMAIN rows' = DOMAIN rows \ {pk}
    BY <2>1, EraseLookup
  <2> QED BY <2>1, <2>2, SameNumbered
<1>4. CASE rows' = rows /\ next' = next
  BY <1>4, SameNumbered
<1>5. CASE \E by \in Orders, key \in Keys \cup SecKeys : SeekLower(by, key) \/ SeekUpper(by, key)
  BY <1>4, <1>5, Zenon DEF SeekLower, SeekUpper, Bound
<1>6. CASE \/ \E pk \in Keys : FindPrimary(pk)
           \/ \E key \in SecKeys : FindSecondary(key)
  BY <1>4, <1>6 DEF FindPrimary, FindSecondary
<1>7. CASE Increment \/ Decrement \/ IteratorTo
  BY <1>4, <1>7 DEF Increment, Decrement, IteratorTo, Step
<1>8. CASE EraseAt
  BY <1>3, <1>8, Zenon DEF EraseAt
<1>9. CASE AvailableKey
  BY <1>9, AvailableNumbered
<1>10. ASSUME NEW pk \in Keys, NEW sec \in SecKeys, Emplace(pk, sec) \/ Upsert(pk, sec) \/ GetOrCreate(pk, sec)
       PROVE  Numbered'
  BY <1>1, <1>2, <1>10, Zenon DEF Emplace, Upsert, GetOrCreate
<1>11. CASE \E pk \in Keys : RemoveKey(pk)
  BY <1>3, <1>11, Zenon DEF RemoveKey
<1>12. ASSUME NEW sec \in SecKeys, Modify(sec) PROVE Numbered'
  <2>1. at.pk \in Keys /\ WriteRow(items, at.pk, sec)
    BY <1>12 DEF Modify, Coherent, CacheCoherent, IsTable
  <2> QED BY <1>2, <2>1
<1>13. CASE UNCHANGED vars
  BY <1>4, <1>13 DEF vars
<1> QED BY <1>5, <1>6, <1>7, <1>8, <1>9, <1>10, <1>11, <1>12, <1>13, Zenon DEF MINext

(* A read through the cache finds what is stored.                          *)
LEMMA ReadsAreStored == ASSUME Coherent PROVE ReadsStored
<1> SUFFICES ASSUME NEW pk \in Keys
             PROVE  Get(pk, End) = IF pk \in DOMAIN rows THEN rows[pk] ELSE End
  BY DEF ReadsStored
<1>1. CASE pk \in DOMAIN rows
  <2>1. Caches(Loaded(items, pk)) /\ pk \in DOMAIN Loaded(items, pk)
    BY <1>1, ItemsCache, LoadedCaches
  <2> QED BY <1>1, <2>1, PresentIsRow DEF Get, Caches
<1>2. CASE pk \notin DOMAIN rows
  BY <1>2, PresentIsRow DEF Get
<1> QED BY <1>1, <1>2

(* Whatever is written or erased through whichever iterator: what is in    *)
(* the cache is in the table, as it is there, the index has the keys of    *)
(* the table, the iterator stands on a loaded row, available_primary_key   *)
(* never hands out a key that is taken, and a read finds what is stored.   *)
THEOREM TablesStayCoherent ==
    ASSUME TableAssumption, LimitAssumption
    PROVE  MISpec => []TablesCoherent
<1>1. MIInit => Coherent /\ Numbered
  <2>1. MIInit => Numbered
    BY DEF MIInit, Numbered, NextKeyFree, LimitAssumption, Unset
  <2> QED BY <2>1, InitOK
<1>2. Coherent /\ Numbered /\ [MINext]_vars => (Coherent /\ Numbered)'
  BY NextOK, NumberedOK DEF StepOK
<1>3. Coherent /\ Numbered => TablesCoherent
  BY ReadsAreStored DEF TablesCoherent, Coherent, Numbered, IteratorAlive
<1> QED BY <1>1, <1>2, <1>3, PTL DEF MISpec

-----------------------------------------------------------------------------
(* The tokens' own sum is the sum of the lemmas.                           *)
LEMMA MoneySum == ASSUME NEW f PROVE Money!SumFunction(f) = SumFunction(f)
<1>1. Money!SumFunctionOnSet(f, DOMAIN f) = SumFunctionOnSet(f, DOMAIN f)
  BY DEF Money!SumFunctionOnSet, Money!FoldFunctionOnSet, Money!MapThenFoldSet,
         SumFunctionOnSet, FoldFunctionOnSet, MapThenFoldSet
<1> QED BY <1>1 DEF Money!SumFunction, SumFunction

(* An amount wraps around by so many times what an int64 holds.            *)
LEMMA WrapSame ==
    ASSUME Half \in Nat \ {0}, NEW m \in Int, NEW n \in Int, NEW k \in Int, n = m + (4 * Half) * k
    PROVE  Money!Wrap(n) = Money!Wrap(m)
<1> DEFINE N == 4 * Half
           a == m + 2 * Half
           b == n + 2 * Half
<1>1. N \in Nat \ {0} /\ a \in Int /\ b \in Int /\ b = a + N * k
  OBVIOUS
<1>2. /\ a % N \in 0 .. N - 1 /\ a \div N \in Int /\ a = N * (a \div N) + (a % N)
      /\ b % N \in 0 .. N - 1 /\ b \div N \in Int /\ b = N * (b \div N) + (b % N)
  <2> HIDE DEF N, a, b
  <2> QED BY <1>1, Division
<1> HIDE DEF N, a, b
<1> DEFINE q == (a \div N) + k
<1>3. q \in Int /\ N * q = N * (a \div N) + N * k
  BY <1>1, <1>2
<1> HIDE DEF q
<1>4. N * q + (a % N) = N * (b \div N) + (b % N)
  <2>1. N * k \in Int /\ N * (a \div N) \in Int /\ N * (b \div N) \in Int
    BY <1>1, <1>2
  <2> QED BY <1>1, <1>2, <1>3, <2>1
<1>5. a % N = b % N
  BY <1>1, <1>2, <1>3, <1>4, ModUnique
<1> QED BY <1>5 DEF Money!Wrap, N, a, b

LEMMA WrapIn ==
    ASSUME Half \in Nat \ {0}, NEW n \in Int
    PROVE  /\ Money!Wrap(n) \in -2 * Half .. 2 * Half - 1
           /\ \E k \in Int : Money!Wrap(n) = n + (4 * Half) * k
           /\ n \in -2 * Half .. 2 * Half - 1 => Money!Wrap(n) = n
<1> DEFINE N == 4 * Half
           a == n + 2 * Half
<1>1. N \in Nat \ {0} /\ a \in Int
  OBVIOUS
<1>2. a % N \in 0 .. N - 1 /\ a \div N \in Int /\ a = N * (a \div N) + (a % N)
  <2> HIDE DEF N, a
  <2> QED BY <1>1, Division
<1>3. 0 <= a /\ a < N => a % N = a
  <2> HIDE DEF N, a
  <2> QED BY <1>1, ModSmall
<1>4. Money!Wrap(n) = (a % N) - 2 * Half
  BY DEF Money!Wrap
<1> DEFINE d == a \div N
           m == a % N
<1> HIDE DEF d, m
<1>5. Money!Wrap(n) \in -2 * Half .. 2 * Half - 1
  <2>1. m \in 0 .. 4 * Half - 1 /\ Money!Wrap(n) = m - 2 * Half
    BY <1>2, <1>4 DEF m
  <2> QED BY <2>1
<1>6. Money!Wrap(n) = n + (4 * Half) * (-d) /\ -d \in Int
  <2>1. d \in Int /\ m \in Int /\ n + 2 * Half = N * d + m /\ Money!Wrap(n) = m - 2 * Half
    BY <1>2, <1>4 DEF d, m
  <2>2. N * (-d) = -(N * d) /\ N * d \in Int
    BY <1>1, <2>1
  <2> QED BY <2>1, <2>2
<1>7. n \in -2 * Half .. 2 * Half - 1 => Money!Wrap(n) = n
  BY <1>3, <1>4
<1> QED BY <1>5, <1>6, <1>7

(* Balances: one int64 for each of finitely many holders.                  *)
IsBalances(acc) ==
    /\ IsFiniteSet(DOMAIN acc)
    /\ \A o \in DOMAIN acc : acc[o] \in Int /\ -2 * Half <= acc[o] /\ acc[o] < 2 * Half
NobodyOwes(acc) == \A o \in DOMAIN acc : acc[o] >= 0

(* A balance is written: the balances stay balances, and what they add up  *)
(* to changes by the difference.                                           *)
LEMMA BalancePut ==
    ASSUME NEW acc, IsBalances(acc), NEW o, NEW n \in Int, -2 * Half <= n, n < 2 * Half
    PROVE  /\ IsBalances(Put(acc, o, n))
           /\ SumFunction(acc) \in Int /\ SumFunction(Put(acc, o, n)) \in Int
           /\ SumFunction(Put(acc, o, n)) = SumFunction(acc) - (IF o \in DOMAIN acc THEN acc[o] ELSE 0) + n
<1>1. IsBalances(Put(acc, o, n))
  <2>1. IsFiniteSet(DOMAIN Put(acc, o, n))
    BY FiniteTables DEF IsBalances
  <2>2. \A x \in DOMAIN Put(acc, o, n) :
            Put(acc, o, n)[x] = (IF x = o THEN n ELSE acc[x]) /\ (x # o => x \in DOMAIN acc)
    BY DEF Put
  <2> QED BY <2>1, <2>2 DEF IsBalances
<1>2. IsFiniteSet(DOMAIN acc) /\ \A x \in DOMAIN acc : acc[x] \in Int
  BY DEF IsBalances
<1>3. SumFunction(Put(acc, o, n)) = SumFunction(acc) - (IF o \in DOMAIN acc THEN acc[o] ELSE 0) + n
  BY <1>2, SumPut
<1>4. SumFunction(acc) \in Int
  BY <1>2, SumOfTable
<1>5. SumFunction(Put(acc, o, n)) \in Int
  <2>1. IsFiniteSet(DOMAIN Put(acc, o, n)) /\ \A x \in DOMAIN Put(acc, o, n) : Put(acc, o, n)[x] \in Int
    BY <1>1 DEF IsBalances
  <2> QED BY <2>1, SumOfTable
<1> QED BY <1>1, <1>3, <1>4, <1>5

(* Without debts, all the balances are at least each of them.              *)
LEMMA SumCovers ==
    ASSUME NEW acc, IsBalances(acc), NobodyOwes(acc), NEW o \in DOMAIN acc
    PROVE  acc[o] <= SumFunction(acc)
<1>1. IsFiniteSet(DOMAIN acc) /\ \A x \in DOMAIN acc : acc[x] \in Nat
  BY DEF IsBalances, NobodyOwes
<1>2. SumFunctionOnSet(acc, DOMAIN acc \ {o}) = SumFunction(acc) - acc[o]
  BY <1>1, SumWithout DEF SumFunction
<1>3. SumFunctionOnSet(acc, DOMAIN acc \ {o}) \in Nat
  <2>1. IsFiniteSet(DOMAIN acc \ {o})
    BY <1>1, FS_Subset
  <2> QED BY <1>1, <2>1, SumOfNaturals
<1>4. SumFunction(acc) \in Int
  BY <1>1, SumOfTable
<1> QED BY <1>1, <1>2, <1>3, <1>4

LEMMA AddOK ==
    ASSUME Half \in Nat \ {0}, NEW acc, IsBalances(acc), NEW o, NEW value \in Int, 0 <= value, value < Half
    PROVE  LET new == Money!AddBalance(acc, o, value)
           IN  /\ IsBalances(new) /\ SumFunction(new) \in Int /\ SumFunction(acc) \in Int
               /\ Money!Wrap(SumFunction(new)) = Money!Wrap(SumFunction(acc) + value)
               /\ NobodyOwes(acc) /\ SumFunction(acc) + value < 2 * Half =>
                     NobodyOwes(new) /\ SumFunction(new) = SumFunction(acc) + value
<1> DEFINE old == IF o \in DOMAIN acc THEN acc[o] ELSE 0
           n == IF o \in DOMAIN acc THEN Money!Wrap(acc[o] + value) ELSE value
           new == Put(acc, o, n)
<1>1. Money!AddBalance(acc, o, value) = new
  BY DEF Money!AddBalance, Money!Put, Put
<1>2. old \in Int /\ old + value \in Int
  BY DEF IsBalances
<1>3. PICK k \in Int : n = old + value + (4 * Half) * k
  <2>1. CASE o \in DOMAIN acc
    BY <1>2, <2>1, WrapIn
  <2>2. CASE o \notin DOMAIN acc
    <3>1. n = old + value + (4 * Half) * 0
      BY <2>2
    <3> QED BY <3>1
  <2> QED BY <2>1, <2>2
<1>4. n \in Int /\ -2 * Half <= n /\ n < 2 * Half
  <2>1. CASE o \in DOMAIN acc
    <3>1. n \in -2 * Half .. 2 * Half - 1
      BY <1>2, <2>1, WrapIn
    <3> QED BY <3>1
  <2>2. CASE o \notin DOMAIN acc
    BY <2>2
  <2> QED BY <2>1, <2>2
<1>5. /\ IsBalances(new) /\ SumFunction(acc) \in Int /\ SumFunction(new) \in Int
      /\ SumFunction(new) = SumFunction(acc) - old + n
  <2> HIDE DEF n
  <2> QED BY <1>4, BalancePut
<1>6. Money!Wrap(SumFunction(new)) = Money!Wrap(SumFunction(acc) + value)
  <2>1. SumFunction(new) = SumFunction(acc) + value + (4 * Half) * k
    <3> HIDE DEF n, old, new
    <3>1. (4 * Half) * k \in Int
      OBVIOUS
    <3> QED BY <1>2, <1>3, <1>4, <1>5, <3>1
  <2>2. SumFunction(acc) + value \in Int
    BY <1>5
  <2> HIDE DEF new
  <2> QED BY <1>5, <2>1, <2>2, WrapSame
<1>7. ASSUME NobodyOwes(acc), SumFunction(acc) + value < 2 * Half
      PROVE  NobodyOwes(new) /\ SumFunction(new) = SumFunction(acc) + value
  <2>1. 0 <= old /\ old + value < 2 * Half
    <3>1. CASE o \in DOMAIN acc
      BY <1>2, <1>5, <1>7, <3>1, SumCovers DEF NobodyOwes
    <3>2. CASE o \notin DOMAIN acc
      BY <3>2
    <3> QED BY <3>1, <3>2
  <2>2. n = old + value
    <3>1. old + value \in -2 * Half .. 2 * Half - 1
      BY <1>2, <2>1
    <3> QED BY <1>2, <3>1, WrapIn
  <2>3. NobodyOwes(new)
    <3>1. n >= 0
      BY <1>2, <2>1, <2>2
    <3> HIDE DEF n
    <3> QED BY <1>7, <3>1 DEF NobodyOwes, Put
  <2> HIDE DEF n, new, old
  <2> QED BY <1>2, <1>5, <2>2, <2>3
<1> QED BY <1>1, <1>5, <1>6, <1>7

(* A transfer, to whomever, leaves the sum as it was.                      *)
LEMMA SentOK ==
    ASSUME Half \in Nat \ {0}, NEW acc, IsBalances(acc), NEW from, NEW to, NEW quantity \in Int,
           Money!CanSend(acc, from, quantity)
    PROVE  LET new == Money!Sent(acc, from, to, quantity)
           IN  /\ IsBalances(new) /\ SumFunction(new) \in Int
               /\ Money!Wrap(SumFunction(new)) = Money!Wrap(SumFunction(acc))
               /\ NobodyOwes(acc) /\ SumFunction(acc) < 2 * Half =>
                     NobodyOwes(new) /\ SumFunction(new) = SumFunction(acc)
<1> DEFINE less == Put(acc, from, acc[from] - quantity)
           new == Money!AddBalance(less, to, quantity)
<1>1. from \in DOMAIN acc /\ quantity > 0 /\ quantity < Half /\ acc[from] >= quantity
  BY DEF Money!CanSend, Money!Valid
<1>2. Money!SubBalance(acc, from, quantity) = less
  BY <1>1 DEF Money!SubBalance, Put
<1>3. acc[from] \in Int /\ -2 * Half <= acc[from] - quantity /\ acc[from] - quantity < 2 * Half /\ acc[from] - quantity \in Int
  BY <1>1 DEF IsBalances
<1>4. /\ IsBalances(less) /\ SumFunction(acc) \in Int /\ SumFunction(less) \in Int
      /\ SumFunction(less) = SumFunction(acc) - quantity
  <2>1. /\ IsBalances(less) /\ SumFunction(acc) \in Int /\ SumFunction(less) \in Int
        /\ SumFunction(less) = SumFunction(acc) - (IF from \in DOMAIN acc THEN acc[from] ELSE 0) + (acc[from] - quantity)
    BY <1>3, BalancePut
  <2> QED BY <1>1, <1>3, <2>1
<1>5. NobodyOwes(acc) => NobodyOwes(less)
  BY <1>1, <1>3 DEF NobodyOwes, Put
<1> HIDE DEF less
<1>6. /\ IsBalances(new) /\ SumFunction(new) \in Int
      /\ Money!Wrap(SumFunction(new)) = Money!Wrap(SumFunction(less) + quantity)
      /\ NobodyOwes(less) /\ SumFunction(less) + quantity < 2 * Half =>
            NobodyOwes(new) /\ SumFunction(new) = SumFunction(less) + quantity
  BY <1>1, <1>4, AddOK
<1>7. SumFunction(less) + quantity = SumFunction(acc)
  BY <1>4
<1>8. Money!Sent(acc, from, to, quantity) = new
  BY <1>2 DEF Money!Sent
<1> QED BY <1>5, <1>6, <1>7, <1>8

(* The token's state: the statistics, the balances, and what they add up   *)
(* to, also while nothing wraps around.                                    *)
Supply == IF stat = <<>> THEN 0 ELSE stat[1].supply
FewIssued == issues * (Half - 1) < 2 * Half
Held ==
    /\ \/ stat = <<>>
       \/ \E supply, max, issuer : stat = <<[supply |-> supply, max_supply |-> max, issuer |-> issuer]>>
    /\ IsBalances(account) /\ issues \in Nat
    /\ Money!Wrap(SumFunction(account)) = Supply
    /\ FewIssued => NobodyOwes(account) /\ SumFunction(account) <= issues * (Half - 1)

LEMMA HeldInit == ASSUME Half \in Nat \ {0}, Money!Init PROVE Held
<1>1. stat = <<>> /\ DOMAIN account = {} /\ issues = 0
  BY DEF Money!Init, Money!EmptyTable
<1>2. SumFunction(account) = 0
  BY <1>1, SumOfEmpty
<1>3. Money!Wrap(0) = 0
  <2>1. 0 \in -2 * Half .. 2 * Half - 1 /\ 0 \in Int
    OBVIOUS
  <2> QED BY <2>1, WrapIn
<1>4. IsFiniteSet(DOMAIN account)
  BY <1>1, FS_EmptySet
<1>5. issues * (Half - 1) = 0
  BY <1>1
<1> QED BY <1>1, <1>2, <1>3, <1>4, <1>5 DEF Held, IsBalances, NobodyOwes, Supply

LEMMA IssueHeld ==
    ASSUME Half \in Nat \ {0}, Held, NEW to, NEW quantity \in Int, Money!Issue(to, quantity)
    PROVE  Held'
<1>1. PICK supply, max, issuer : stat = <<[supply |-> supply, max_supply |-> max, issuer |-> issuer]>>
  BY DEF Held, Money!Issue
<1>2. /\ stat' = <<[supply |-> Money!Wrap(supply + quantity), max_supply |-> max, issuer |-> issuer]>>
      /\ stat[1].issuer = issuer /\ stat[1].supply = supply /\ stat # <<>>
  BY <1>1 DEF Money!Issue
<1>3. 0 < quantity /\ quantity < Half /\ issues' = issues + 1 /\ issues \in Nat /\ IsBalances(account)
  BY DEF Held, Money!Issue, Money!Valid
<1>4. Money!Wrap(SumFunction(account)) = supply
  BY <1>2 DEF Held, Supply
<1> DEFINE issued == Money!AddBalance(account, issuer, quantity)
           total == SumFunction(account)
<1>5. /\ IsBalances(issued) /\ SumFunction(issued) \in Int /\ total \in Int
      /\ Money!Wrap(SumFunction(issued)) = Money!Wrap(total + quantity)
      /\ NobodyOwes(account) /\ total + quantity < 2 * Half =>
            NobodyOwes(issued) /\ SumFunction(issued) = total + quantity
  BY <1>3, AddOK
<1>6. /\ IsBalances(account') /\ SumFunction(account') \in Int
      /\ Money!Wrap(SumFunction(account')) = Money!Wrap(SumFunction(issued))
      /\ NobodyOwes(issued) /\ SumFunction(issued) < 2 * Half =>
            NobodyOwes(account') /\ SumFunction(account') = SumFunction(issued)
  <2>1. CASE to = issuer
    BY <1>2, <1>5, <2>1 DEF Money!Issue
  <2>2. CASE to # issuer
    <3>1. Money!CanSend(issued, issuer, quantity) /\ account' = Money!Sent(issued, issuer, to, quantity)
      BY <1>2, <2>2 DEF Money!Issue
    <3> HIDE DEF issued
    <3> QED BY <1>5, <3>1, SentOK
  <2> QED BY <2>1, <2>2
<1> HIDE DEF issued
<1>7. Money!Wrap(total + quantity) = Money!Wrap(supply + quantity)
  <2>1. PICK k \in Int : supply = total + (4 * Half) * k
    BY <1>4, <1>5, WrapIn
  <2>2. supply + quantity = total + quantity + (4 * Half) * k
    <3>1. (4 * Half) * k \in Int
      OBVIOUS
    <3> QED BY <1>5, <2>1, <3>1
  <2>3. total + quantity \in Int /\ supply + quantity \in Int
    <3>1. (4 * Half) * k \in Int
      OBVIOUS
    <3> QED BY <1>5, <2>1, <3>1
  <2> QED BY <2>2, <2>3, WrapSame
<1>8. Money!Wrap(SumFunction(account')) = Supply'
  BY <1>2, <1>5, <1>6, <1>7 DEF Supply
<1>9. ASSUME FewIssued' PROVE NobodyOwes(account') /\ SumFunction(account') <= issues' * (Half - 1)
  <2> DEFINE most == issues * (Half - 1)
  <2>1. most \in Nat /\ issues' * (Half - 1) = most + (Half - 1)
    BY <1>3
  <2>2. most + (Half - 1) < 2 * Half
    BY <1>9, <2>1 DEF FewIssued
  <2> HIDE DEF most
  <2>3. NobodyOwes(account) /\ total <= most
    BY <2>1, <2>2 DEF Held, FewIssued, most
  <2>4. total + quantity <= most + (Half - 1)
    BY <1>3, <1>5, <2>1, <2>3
  <2>5. total + quantity < 2 * Half
    BY <1>5, <2>1, <2>2, <2>4
  <2>6. NobodyOwes(issued) /\ SumFunction(issued) = total + quantity
    BY <1>5, <2>3, <2>5
  <2>7. NobodyOwes(account') /\ SumFunction(account') = total + quantity
    BY <1>6, <2>5, <2>6
  <2>8. issues' * (Half - 1) = most + (Half - 1)
    BY <2>1
  <2>9. NobodyOwes(account')
    BY <2>7
  <2> DEFINE sum == SumFunction(account')
             bound == issues' * (Half - 1)
  <2>10. sum <= bound
    <3>1. sum = total + quantity /\ bound = most + (Half - 1)
      BY <2>7, <2>8
    <3> HIDE DEF sum, bound, total
    <3> QED BY <2>4, <3>1
  <2> QED BY <2>9, <2>10
<1>10. \E s, m, i : stat' = <<[supply |-> s, max_supply |-> m, issuer |-> i]>>
  BY <1>2, Zenon
<1>11. IsBalances(account)' /\ (issues \in Nat)'
  BY <1>3, <1>6 DEF IsBalances
<1>12. (FewIssued => NobodyOwes(account) /\ SumFunction(account) <= issues * (Half - 1))'
  BY <1>9
<1>13. (Money!Wrap(SumFunction(account)) = Supply)'
  BY <1>8
<1> QED BY <1>10, <1>11, <1>12, <1>13, Zenon DEF Held

LEMMA TransferHeld ==
    ASSUME Half \in Nat \ {0}, Held, NEW from, NEW to, NEW quantity \in Int, Money!Transfer(from, to, quantity)
    PROVE  Held'
<1>1. /\ Money!CanSend(account, from, quantity) /\ account' = Money!Sent(account, from, to, quantity)
      /\ stat' = stat /\ issues' = issues
  BY DEF Money!Transfer
<1>2. IsBalances(account) /\ issues \in Nat
  BY DEF Held
<1>3. /\ IsBalances(account') /\ SumFunction(account') \in Int
      /\ Money!Wrap(SumFunction(account')) = Money!Wrap(SumFunction(account))
      /\ NobodyOwes(account) /\ SumFunction(account) < 2 * Half =>
            NobodyOwes(account') /\ SumFunction(account') = SumFunction(account)
  BY <1>1, <1>2, SentOK
<1>4. FewIssued => NobodyOwes(account) /\ SumFunction(account) <= issues * (Half - 1) /\ SumFunction(account) < 2 * Half
  <2>1. SumFunction(account) \in Int
    BY <1>2, SumOfTable DEF IsBalances
  <2>2. issues * (Half - 1) \in Int
    BY <1>2
  <2> QED BY <2>1, <2>2 DEF Held, FewIssued
<1> QED BY <1>1, <1>3, <1>4 DEF Held, Supply, FewIssued

LEMMA HeldNext == ASSUME Money!CurrencyAssumption, Held, [Money!Next]_currency PROVE Held'
<1>1. Half \in Nat \ {0} /\ Quantities \subseteq Int
  BY DEF Money!CurrencyAssumption
<1>2. ASSUME NEW issuer, NEW max, Money!Create(issuer, max) PROVE Held'
  <2>1. stat' = <<[supply |-> 0, max_supply |-> max, issuer |-> issuer]>> /\ account' = account /\ issues' = issues
        /\ stat = <<>>
    BY <1>2 DEF Money!Create
  <2> QED BY <2>1 DEF Held, Supply, FewIssued
<1>3. CASE UNCHANGED currency
  BY <1>3 DEF Held, Supply, FewIssued, currency
<1> QED BY <1>1, <1>2, <1>3, IssueHeld, TransferHeld DEF Money!Next

-----------------------------------------------------------------------------
(* The game's books: what it received, paid and took for stakes.           *)
Funded == funds \in Int /\ sent \in Int /\ credited \in Int /\ staked \in Int /\ funds + sent = credited + staked

LEMMA FundedNext == ASSUME Notices!DispatchAssumption, Funded, [Notices!Next]_notices PROVE Funded'
<1>1. ASSUME NEW t \in Notices!Transfers, Notices!TokenTransfer(t) PROVE Funded'
  <2>1. t.amount \in Nat
    BY DEF Notices!DispatchAssumption, Notices!Transfers
  <2>2. /\ funds' = funds + (IF t.to = Self THEN t.amount ELSE 0) - (IF t.from = Self THEN t.amount ELSE 0)
        /\ sent' = IF t.from = Self THEN sent + t.amount ELSE sent
        /\ staked' = IF t.from = Stake /\ t.to = Self THEN staked + t.amount ELSE staked
        /\ t.from # t.to
    BY <1>1 DEF Notices!TokenTransfer
  <2>3. CASE Self \in {t.from, t.to}
    <3>1. credited' = IF ~Notices!Ignored(t) THEN credited + t.amount ELSE credited
      BY <1>1, <2>3 DEF Notices!TokenTransfer, Notices!Handle, Notices!Routed
    <3> QED BY <2>1, <2>2, <2>3, <3>1 DEF Funded, Notices!Ignored
  <2>4. CASE Self \notin {t.from, t.to}
    <3>1. credited' = credited
      BY <1>1, <2>4 DEF Notices!TokenTransfer
    <3> QED BY <2>1, <2>2, <2>4, <3>1 DEF Funded
  <2> QED BY <2>3, <2>4
<1>2. ASSUME NEW t, NEW code \in {Self, System, Impostor}, Notices!OtherTransfer(code, t) PROVE Funded'
  <2>1. ~Notices!Routed(code, "transfer")
    BY <1>2 DEF Notices!DispatchAssumption, Notices!Routed
  <2>2. UNCHANGED notices
    BY <1>2, <2>1 DEF Notices!OtherTransfer, Notices!Handle, notices
  <2> QED BY <2>2 DEF notices, Funded
<1>3. CASE UNCHANGED notices
  BY <1>3 DEF notices, Funded
<1> QED BY <1>1, <1>2, <1>3 DEF Notices!Next

(* The faucet's table and what the users have got.                         *)
Given == DOMAIN got = Users /\ GivenOnce

LEMMA GivenNext ==
    ASSUME FaucetAssumption, Given, [\E user \in Users : GetCoins(user)]_faucet
    PROVE  Given'
<1>1. ASSUME NEW user \in Users, GetCoins(user) PROVE Given'
  <2>1. /\ user \notin DOMAIN limit
        /\ limit' = Put(limit, user, user) /\ got' = [got EXCEPT ![user] = @ + Gift]
    BY <1>1 DEF GetCoins
  <2>2. DOMAIN limit' = DOMAIN limit \cup {user}
    BY <2>1 DEF Put
  <2>3. got[user] = 0 /\ Gift \in Nat
    BY <2>1 DEF Given, GivenOnce, FaucetAssumption
  <2>4. DOMAIN got' = Users /\ \A u \in Users : got'[u] = IF u = user THEN Gift ELSE got[u]
    BY <2>1, <2>3 DEF Given
  <2> QED BY <2>2, <2>4 DEF Given, GivenOnce
<1>2. CASE UNCHANGED faucet
  BY <1>2 DEF faucet, Given, GivenOnce
<1> QED BY <1>1, <1>2

(* Whichever way a token is moved, issued or sent to oneself, its balances *)
(* add up to the supply, modulo an int64, and nobody owes anything before  *)
(* the supply can have wrapped; what a game takes for stakes is what its   *)
(* players transferred; the faucet gives to everyone once and the same.    *)
THEOREM AccountsAlwaysMatch ==
    ASSUME Money!CurrencyAssumption, Notices!DispatchAssumption, FaucetAssumption
    PROVE  LibrarySpec => []AccountsMatch
<1> DEFINE Inv == Held /\ Funded /\ Given
<1>1. LibraryInit => Inv
  <2>1. ASSUME LibraryInit PROVE Held
    BY <2>1, HeldInit DEF LibraryInit, Money!CurrencyAssumption
  <2>2. ASSUME LibraryInit PROVE Funded
    BY <2>2 DEF LibraryInit, Notices!Init, Funded
  <2>3. ASSUME LibraryInit PROVE Given
    BY <2>3 DEF LibraryInit, FaucetInit, Given, GivenOnce, EmptyTable
  <2> QED BY <2>1, <2>2, <2>3
<1>2. Inv /\ [LibraryNext]_library => Inv'
  <2> SUFFICES ASSUME Inv, [LibraryNext]_library PROVE Inv'
    OBVIOUS
  <2>1. [Money!Next]_currency /\ [Notices!Next]_notices /\ [\E user \in Users : GetCoins(user)]_faucet
    BY DEF LibraryNext, library
  <2> QED BY <2>1, HeldNext, FundedNext, GivenNext
<1>3. Inv => AccountsMatch
  <2>1. Held => Money!SupplyHeld
    BY MoneySum DEF Held, IsBalances, Supply, FewIssued, NobodyOwes, Money!SupplyHeld
  <2> QED BY <2>1 DEF AccountsMatch, Funded, Given, Notices!StakesFunded
<1> QED BY <1>1, <1>2, <1>3, PTL DEF LibrarySpec

-----------------------------------------------------------------------------
(* Optionals in scope, and the flag of a place.                            *)
Content == [valid : BOOLEAN, value : Values \cup {Moved}]
TypedBox(b) == DOMAIN b \subseteq Optionals /\ \A o \in DOMAIN b : b[o] \in Content
FlagIn(b, o) == IF o \in DOMAIN b /\ b[o].valid THEN 1 ELSE 0
FlagOf(c) == IF c.valid THEN 1 ELSE 0

Lives ==
    /\ TypedBox(box) /\ objects \in [Optionals -> Int] /\ filled \in [Optionals -> Nat]
    /\ Boxes!LifetimesMatch

(* What is in scope has this content at o, and is as it was elsewhere.     *)
Written(b, new, o, c) ==
    /\ DOMAIN new = DOMAIN b \cup {o}
    /\ \A x \in DOMAIN new : new[x] = IF x = o THEN c ELSE b[x]

(* One optional written, in scope or brought into it.                      *)
LEMMA BoxWritten ==
    ASSUME NEW b, TypedBox(b), NEW o \in Optionals, NEW c \in Content, NEW new, Written(b, new, o, c)
    PROVE  /\ TypedBox(new) /\ FlagIn(new, o) = FlagOf(c)
           /\ \A x \in Optionals \ {o} : FlagIn(new, x) = FlagIn(b, x)
<1>1. TypedBox(new)
  BY DEF TypedBox, Written
<1>2. FlagIn(new, o) = FlagOf(c)
  BY DEF FlagIn, FlagOf, Written
<1>3. \A x \in Optionals \ {o} : FlagIn(new, x) = FlagIn(b, x)
  BY DEF FlagIn, Written
<1> QED BY <1>1, <1>2, <1>3

LEMMA ContentsTyped ==
    /\ Boxes!None \in Content /\ FlagOf(Boxes!None) = 0
    /\ \A v \in Values \cup {Moved} : Boxes!Holding(v) \in Content /\ FlagOf(Boxes!Holding(v)) = 1
  BY DEF Boxes!None, Boxes!Holding, Content, FlagOf

LEMMA NoneWritten ==
    ASSUME NEW b, TypedBox(b), NEW o \in Optionals, NEW new, Written(b, new, o, Boxes!None)
    PROVE  /\ TypedBox(new) /\ FlagIn(new, o) = 0
           /\ \A x \in Optionals \ {o} : FlagIn(new, x) = FlagIn(b, x)
<1> PICK c : c = Boxes!None
  OBVIOUS
<1>1. c \in Content /\ FlagOf(c) = 0
  BY ContentsTyped
<1>2. Written(b, new, o, c)
  OBVIOUS
<1>3. /\ TypedBox(new) /\ FlagIn(new, o) = FlagOf(c)
      /\ \A x \in Optionals \ {o} : FlagIn(new, x) = FlagIn(b, x)
  BY <1>1, <1>2, BoxWritten
<1> QED BY <1>1, <1>3

LEMMA ValueHeld ==
    ASSUME NEW b, TypedBox(b), NEW o \in Optionals, NEW v \in Values \cup {Moved}, NEW new,
           Written(b, new, o, Boxes!Holding(v))
    PROVE  /\ TypedBox(new) /\ FlagIn(new, o) = 1
           /\ \A x \in Optionals \ {o} : FlagIn(new, x) = FlagIn(b, x)
<1> PICK c : c = Boxes!Holding(v)
  OBVIOUS
<1>1. c \in Content /\ FlagOf(c) = 1
  BY ContentsTyped
<1>2. Written(b, new, o, c)
  OBVIOUS
<1>3. /\ TypedBox(new) /\ FlagIn(new, o) = FlagOf(c)
      /\ \A x \in Optionals \ {o} : FlagIn(new, x) = FlagIn(b, x)
  BY <1>1, <1>2, BoxWritten
<1> QED BY <1>1, <1>3

LEMMA FlagsAre ==
    ASSUME NEW o
    PROVE  /\ Boxes!Flag(o) = FlagIn(box, o) /\ FlagIn(box, o) \in {0, 1}
           /\ Boxes!Flag(o)' = FlagIn(box', o)
  BY DEF Boxes!Flag, Boxes!Valid, Boxes!In, FlagIn

LEMMA CopyTyped ==
    ASSUME Lives, NEW p \in DOMAIN box
    PROVE  /\ Boxes!CopyOf(p) \in Content /\ FlagOf(Boxes!CopyOf(p)) = FlagIn(box, p)
           /\ box[p].value \in Values \cup {Moved} /\ p \in Optionals /\ box[p] \in Content
<1>1. box[p] \in Content /\ p \in Optionals /\ Boxes!Valid(p) = box[p].valid
  BY DEF Lives, TypedBox, Boxes!Valid, Boxes!In, Content
<1>2. box[p].value \in Values \cup {Moved} /\ box[p].valid \in BOOLEAN
  BY <1>1 DEF Content
<1>3. CASE box[p].valid
  BY <1>1, <1>2, <1>3, ContentsTyped DEF Boxes!CopyOf, FlagIn
<1>4. CASE ~box[p].valid
  BY <1>1, <1>2, <1>4, ContentsTyped DEF Boxes!CopyOf, FlagIn
<1> QED BY <1>1, <1>2, <1>3, <1>4

(* A step changes in one place what is made and read by as much as the     *)
(* flag.                                                                   *)
OneChange(o, made, read) ==
    /\ TypedBox(box') /\ objects' = [objects EXCEPT ![o] = @ + made] /\ filled' = [filled EXCEPT ![o] = @ + read]
    /\ FlagIn(box', o) = FlagIn(box, o) + made + read
    /\ \A x \in Optionals \ {o} : FlagIn(box', x) = FlagIn(box, x)

LEMMA OneWritten ==
    ASSUME Lives, NEW o \in Optionals, NEW made \in Int, NEW read \in Nat, OneChange(o, made, read)
    PROVE  Lives'
<1>1. objects' \in [Optionals -> Int] /\ filled' \in [Optionals -> Nat] /\ TypedBox(box')
  BY DEF Lives, OneChange
<1>2. ASSUME NEW x \in Optionals PROVE objects'[x] + filled'[x] = FlagIn(box', x)
  <2>1. objects[x] \in Int /\ filled[x] \in Nat /\ objects[x] + filled[x] = FlagIn(box, x)
    BY FlagsAre DEF Lives, Boxes!LifetimesMatch
  <2>2. CASE x = o
    <3>1. /\ objects'[o] = objects[o] + made /\ filled'[o] = filled[o] + read
          /\ FlagIn(box', o) = FlagIn(box, o) + made + read
      BY DEF Lives, OneChange
    <3> DEFINE a == objects[o]
               f == filled[o]
               g == FlagIn(box, o)
    <3>2. a \in Int /\ f \in Nat /\ a + f = g
      BY <2>1, <2>2
    <3>3. objects'[o] = a + made /\ filled'[o] = f + read /\ FlagIn(box', o) = g + made + read
      BY <3>1
    <3> HIDE DEF a, f, g
    <3> QED BY <2>2, <3>2, <3>3
  <2>3. CASE x # o
    <3>1. objects'[x] = objects[x] /\ filled'[x] = filled[x] /\ FlagIn(box', x) = FlagIn(box, x)
      BY <2>3 DEF Lives, OneChange
    <3> QED BY <2>1, <2>3, <3>1
  <2> QED BY <2>2, <2>3
<1>3. Boxes!LifetimesMatch'
  BY <1>2, FlagsAre DEF Boxes!LifetimesMatch
<1> QED BY <1>1, <1>3 DEF Lives

(* Nothing read.                                                           *)
LEMMA OneMade ==
    ASSUME Lives, NEW o \in Optionals, NEW made \in Int, TypedBox(box'),
           objects' = [objects EXCEPT ![o] = @ + made], filled' = filled,
           FlagIn(box', o) = FlagIn(box, o) + made,
           \A x \in Optionals \ {o} : FlagIn(box', x) = FlagIn(box, x)
    PROVE  Lives'
<1>1. filled = [filled EXCEPT ![o] = @ + 0]
  BY DEF Lives
<1>2. FlagIn(box, o) + made = FlagIn(box, o) + made + 0
  BY FlagsAre
<1>3. OneChange(o, made, 0)
  BY <1>1, <1>2 DEF OneChange
<1> QED BY <1>3, OneWritten

LEMMA ResetLives == ASSUME Lives, NEW o, Boxes!ResetIt(o) PROVE Lives'
<1> PICK made \in Int : made = -FlagIn(box, o)
  BY FlagsAre
<1>1. /\ o \in DOMAIN box /\ box' = [box EXCEPT ![o] = Boxes!None] /\ filled' = filled
      /\ objects' = [objects EXCEPT ![o] = @ + made] /\ o \in Optionals /\ TypedBox(box)
  BY FlagsAre DEF Boxes!ResetIt, Boxes!In, Boxes!Count, Lives, TypedBox
<1>2. Written(box, box', o, Boxes!None) /\ TypedBox(box) /\ o \in Optionals
  BY <1>1 DEF Written
<1>3. TypedBox(box') /\ FlagIn(box', o) = 0 /\ \A x \in Optionals \ {o} : FlagIn(box', x) = FlagIn(box, x)
  BY <1>2, NoneWritten
<1>4. FlagIn(box', o) = FlagIn(box, o) + made
  BY <1>3, FlagsAre
<1> QED BY <1>1, <1>3, <1>4, OneMade

LEMMA AssignValueLives ==
    ASSUME Lives, NEW o, NEW v \in Values \cup {Moved}, Boxes!AssignValue(o, v)
    PROVE  Lives'
<1> PICK made \in Int : made = 1 - FlagIn(box, o)
  BY FlagsAre
<1>1. /\ o \in DOMAIN box /\ box' = [box EXCEPT ![o] = Boxes!Holding(v)] /\ filled' = filled
      /\ objects' = [objects EXCEPT ![o] = @ + made] /\ o \in Optionals /\ TypedBox(box)
  BY FlagsAre DEF Boxes!AssignValue, Boxes!MadeAnew, Boxes!In, Boxes!Count, Lives, TypedBox
<1>2. Written(box, box', o, Boxes!Holding(v)) /\ TypedBox(box) /\ o \in Optionals
  BY <1>1 DEF Written
<1>3. TypedBox(box') /\ FlagIn(box', o) = 1 /\ \A x \in Optionals \ {o} : FlagIn(box', x) = FlagIn(box, x)
  BY <1>2, ValueHeld
<1>4. FlagIn(box', o) = FlagIn(box, o) + made
  BY <1>3, FlagsAre
<1> QED BY <1>1, <1>3, <1>4, OneMade

(* The value of an optional assigned by that of the objects: nothing is    *)
(* made or destroyed.                                                      *)
LEMMA ValueWritten ==
    ASSUME NEW b, TypedBox(b), NEW o \in DOMAIN b, NEW v \in Values \cup {Moved}
    PROVE  /\ TypedBox([b EXCEPT ![o].value = v])
           /\ \A x \in Optionals : FlagIn([b EXCEPT ![o].value = v], x) = FlagIn(b, x)
<1> DEFINE c == [b[o] EXCEPT !.value = v]
<1>1. b[o] \in Content /\ o \in Optionals
  BY DEF TypedBox
<1>2. c \in Content /\ c.valid = b[o].valid
  BY <1>1 DEF Content
<1>3. [b EXCEPT ![o].value = v] = [b EXCEPT ![o] = c]
  BY Zenon
<1>4. FlagOf(c) = FlagIn(b, o)
  BY <1>1, <1>2 DEF FlagOf, FlagIn
<1> HIDE DEF c
<1> PICK new : new = [b EXCEPT ![o].value = v]
  OBVIOUS
<1>5. Written(b, new, o, c)
  BY <1>1, <1>3 DEF Written
<1>6. TypedBox(b) /\ o \in Optionals /\ c \in Content
  BY <1>1, <1>2
<1>7. TypedBox(new) /\ FlagIn(new, o) = FlagOf(c) /\ \A x \in Optionals \ {o} : FlagIn(new, x) = FlagIn(b, x)
  BY ONLY <1>5, <1>6, BoxWritten
<1> QED BY <1>4, <1>7

LEMMA AssignLives ==
    ASSUME Lives, NEW o, NEW p, Boxes!AssignCopy(o, p) \/ Boxes!AssignMove(o, p)
    PROVE  Lives'
<1> DEFINE v == box[p].value
           assigned == [box EXCEPT ![o].value = v]
<1>1. ASSUME Boxes!Valid(o), Boxes!Valid(p), o # p
      PROVE  /\ o \in DOMAIN box /\ p \in DOMAIN box /\ o \in Optionals /\ p \in Optionals
             /\ TypedBox(assigned) /\ DOMAIN assigned = DOMAIN box
             /\ \A x \in Optionals : FlagIn(assigned, x) = FlagIn(box, x)
             /\ FlagIn(box, o) = 1 /\ FlagIn(box, p) = 1
  <2>1. o \in DOMAIN box /\ p \in DOMAIN box /\ TypedBox(box)
    BY <1>1 DEF Boxes!Valid, Boxes!In, Lives
  <2>2. FlagIn(box, o) = 1 /\ FlagIn(box, p) = 1
    BY <1>1 DEF Boxes!Valid, Boxes!In, FlagIn
  <2> QED BY <2>1, <2>2, CopyTyped, ValueWritten DEF TypedBox
<1>2. ASSUME ~Boxes!Valid(p), Boxes!ResetIt(o) PROVE Lives'
  BY <1>2, ResetLives
<1>3. CASE Boxes!AssignCopy(o, p)
  <2>1. ASSUME Boxes!Valid(o), Boxes!Valid(p), o # p, box' = assigned, UNCHANGED <<objects, filled>> PROVE Lives'
    <3> HIDE DEF assigned
    <3>1. TypedBox(box') /\ \A x \in Optionals : FlagIn(box', x) = FlagIn(box, x)
      BY <1>1, <2>1
    <3>2. Boxes!LifetimesMatch'
      BY <2>1, <3>1, FlagsAre DEF Lives, Boxes!LifetimesMatch
    <3> QED BY <2>1, <3>1, <3>2 DEF Lives
  <2>2. ASSUME Boxes!Valid(p), Boxes!AssignValue(o, v) PROVE Lives'
    <3>1. v \in Values \cup {Moved}
      BY <2>2, CopyTyped DEF Boxes!Valid, Boxes!In
    <3> HIDE DEF v
    <3> QED BY <2>2, <3>1, AssignValueLives
  <2> QED BY <1>2, <1>3, <2>1, <2>2 DEF Boxes!AssignCopy
<1>4. CASE Boxes!AssignMove(o, p)
  <2>1. ASSUME Boxes!Valid(o), Boxes!Valid(p), o # p,
               box' = [box EXCEPT ![o].value = v, ![p] = Boxes!None],
               objects' = Boxes!Count(p, -1), filled' = filled
        PROVE  Lives'
    <3>1. box' = [assigned EXCEPT ![p] = Boxes!None]
      BY <2>1
    <3> HIDE DEF assigned
    <3>2. Written(assigned, box', p, Boxes!None) /\ TypedBox(assigned) /\ p \in Optionals
      BY <1>1, <2>1, <3>1 DEF Written
    <3>3. TypedBox(box') /\ FlagIn(box', p) = 0 /\ \A x \in Optionals \ {p} : FlagIn(box', x) = FlagIn(assigned, x)
      BY <3>2, NoneWritten
    <3>4. FlagIn(box', p) = 0 /\ FlagIn(box, p) = 1
      BY <1>1, <2>1, <3>3
    <3>5. \A x \in Optionals \ {p} : FlagIn(box', x) = FlagIn(box, x)
      BY <1>1, <2>1, <3>3
    <3> PICK made \in Int : made = -1
      OBVIOUS
    <3>6. objects' = [objects EXCEPT ![p] = @ + made] /\ p \in Optionals
      BY <1>1, <2>1 DEF Boxes!Count
    <3>7. FlagIn(box', p) = FlagIn(box, p) + made
      BY <3>4
    <3> QED BY <2>1, <3>3, <3>5, <3>6, <3>7, OneMade
  <2>2. ASSUME Boxes!In(o), ~Boxes!Valid(o), Boxes!Valid(p), o # p,
               box' = [box EXCEPT ![o] = Boxes!Holding(v), ![p].value = Moved],
               objects' = Boxes!Count(o, Boxes!MadeAnew(o)), filled' = filled
        PROVE  Lives'
    <3> DEFINE made == [box EXCEPT ![o] = Boxes!Holding(v)]
    <3>1. o \in DOMAIN box /\ p \in DOMAIN box /\ TypedBox(box) /\ o \in Optionals
      BY <2>2 DEF Boxes!Valid, Boxes!In, Lives, TypedBox
    <3>2. v \in Values \cup {Moved}
      BY <3>1, CopyTyped
    <3>3. box' = [made EXCEPT ![p].value = Moved] /\ DOMAIN made = DOMAIN box
      BY <2>2
    <3>4. TypedBox(made) /\ FlagIn(made, o) = 1 /\ \A x \in Optionals \ {o} : FlagIn(made, x) = FlagIn(box, x)
      <4> HIDE DEF v
      <4>1. Written(box, made, o, Boxes!Holding(v))
        BY <3>1 DEF Written
      <4> HIDE DEF made
      <4> QED BY <3>1, <3>2, <4>1, ValueHeld
    <3> HIDE DEF made
    <3>5. TypedBox(box') /\ \A x \in Optionals : FlagIn(box', x) = FlagIn(made, x)
      <4>1. p \in DOMAIN made /\ Moved \in Values \cup {Moved}
        BY <3>1, <3>3
      <4>2. TypedBox([made EXCEPT ![p].value = Moved])
            /\ \A x \in Optionals : FlagIn([made EXCEPT ![p].value = Moved], x) = FlagIn(made, x)
        BY <3>4, <4>1, ValueWritten
      <4> QED BY <3>3, <4>2
    <3> PICK n \in Int : n = 1
      OBVIOUS
    <3>6. FlagIn(box, o) = 0 /\ objects' = [objects EXCEPT ![o] = @ + n]
      <4>1. Boxes!Flag(o) = 0
        BY <2>2 DEF Boxes!Flag
      <4> QED BY <2>2, <4>1, FlagsAre DEF Boxes!Count, Boxes!MadeAnew
    <3>7. FlagIn(box', o) = FlagIn(box, o) + n /\ \A x \in Optionals \ {o} : FlagIn(box', x) = FlagIn(box, x)
      BY <3>1, <3>4, <3>5, <3>6
    <3> QED BY <2>2, <3>1, <3>5, <3>6, <3>7, OneMade
  <2> QED BY <1>2, <1>4, <2>1, <2>2 DEF Boxes!AssignMove
<1> QED BY <1>3, <1>4

LEMMA ConstructLives ==
    ASSUME Lives, NEW o \in Optionals, NEW c \in Content, ~Boxes!In(o), box' = Boxes!With(o, c),
           objects' = Boxes!Count(o, FlagOf(c)), filled' = filled
    PROVE  Lives'
<1> PICK made \in Int : made = FlagOf(c)
  BY DEF FlagOf
<1>1. Written(box, box', o, c)
  BY DEF Boxes!With, Written
<1>2. TypedBox(box') /\ FlagIn(box', o) = FlagOf(c) /\ \A x \in Optionals \ {o} : FlagIn(box', x) = FlagIn(box, x)
  BY <1>1, BoxWritten DEF Lives
<1>3. FlagIn(box, o) = 0
  BY DEF FlagIn, Boxes!In
<1>4. objects' = [objects EXCEPT ![o] = @ + made] /\ FlagIn(box', o) = FlagIn(box, o) + made
  BY <1>2, <1>3 DEF Boxes!Count
<1> QED BY <1>2, <1>4, OneMade

(* Two places change: the one that is made, and the one it is moved from.  *)
LEMMA ConstructMoveLives ==
    ASSUME Lives, NEW o \in Optionals, NEW p, Boxes!ConstructMove(o, p)
    PROVE  Lives'
<1> DEFINE made == Boxes!With(o, Boxes!CopyOf(p))
           g == FlagIn(box, p)
<1>1. /\ ~Boxes!In(o) /\ p \in DOMAIN box /\ o # p /\ filled' = filled /\ TypedBox(box)
      /\ box' = [made EXCEPT ![p] = Boxes!None] /\ p \in Optionals
      /\ objects' = [[objects EXCEPT ![o] = @ + g] EXCEPT ![p] = @ - g]
  BY FlagsAre DEF Boxes!ConstructMove, Boxes!In, Boxes!Count, Lives, TypedBox
<1>2. TypedBox(made) /\ FlagIn(made, o) = g /\ DOMAIN made = DOMAIN box \cup {o}
      /\ \A x \in Optionals \ {o} : FlagIn(made, x) = FlagIn(box, x)
  <2>1. Written(box, made, o, Boxes!CopyOf(p)) /\ DOMAIN made = DOMAIN box \cup {o}
    BY DEF Boxes!With, Written
  <2> HIDE DEF made
  <2> QED BY <1>1, <2>1, CopyTyped, BoxWritten
<1> HIDE DEF made
<1>3. TypedBox(box') /\ FlagIn(box', p) = 0 /\ FlagIn(box', o) = g
      /\ \A x \in Optionals \ {o, p} : FlagIn(box', x) = FlagIn(box, x)
  <2>1. Written(made, box', p, Boxes!None) /\ TypedBox(made) /\ p \in Optionals
    BY <1>1, <1>2 DEF Written
  <2>2. TypedBox(box') /\ FlagIn(box', p) = 0 /\ \A x \in Optionals \ {p} : FlagIn(box', x) = FlagIn(made, x)
    BY <2>1, NoneWritten
  <2> QED BY <1>1, <1>2, <2>2
<1>4. g \in {0, 1} /\ FlagIn(box, o) = 0
  BY <1>1, FlagsAre DEF FlagIn, Boxes!In
<1> HIDE DEF g
<1>5. objects' \in [Optionals -> Int] /\ filled' \in [Optionals -> Nat]
  BY <1>1, <1>4 DEF Lives
<1>6. \A x \in Optionals : objects'[x] = IF x = p THEN objects[p] - g ELSE IF x = o THEN objects[o] + g ELSE objects[x]
  BY <1>1 DEF Lives
<1>7. \A x \in Optionals : objects[x] \in Int /\ filled[x] \in Nat /\ objects[x] + filled[x] = FlagIn(box, x)
  BY FlagsAre DEF Lives, Boxes!LifetimesMatch
<1>8. FlagIn(box, p) = g
  BY DEF g
<1>9. \A x \in Optionals : objects'[x] + filled'[x] = FlagIn(box', x)
  <2> TAKE x \in Optionals
  <2> DEFINE a == objects[x]
             f == filled[x]
  <2>1. a \in Int /\ f \in Nat /\ a + f = FlagIn(box, x) /\ filled'[x] = f
    BY <1>1, <1>7
  <2>2. objects'[x] = IF x = p THEN a - g ELSE IF x = o THEN a + g ELSE a
    BY <1>6
  <2> HIDE DEF a, f
  <2>3. CASE x = p
    <3>1. objects'[x] = a - g /\ a + f = g /\ FlagIn(box', x) = 0
      BY <1>3, <1>8, <2>1, <2>2, <2>3
    <3> QED BY <1>4, <2>1, <3>1
  <2>4. CASE x = o
    <3>1. objects'[x] = a + g /\ a + f = 0 /\ FlagIn(box', x) = g
      BY <1>1, <1>3, <1>4, <2>1, <2>2, <2>4
    <3> QED BY <1>4, <2>1, <3>1
  <2>5. CASE x # p /\ x # o
    <3>1. objects'[x] = a /\ FlagIn(box', x) = FlagIn(box, x)
      BY <1>3, <2>2, <2>5
    <3> QED BY <2>1, <3>1
  <2> QED BY <2>3, <2>4, <2>5
<1>10. Boxes!LifetimesMatch'
  BY <1>9, FlagsAre DEF Boxes!LifetimesMatch
<1> QED BY <1>3, <1>5, <1>10 DEF Lives

LEMMA LivesNext == ASSUME Lives, [Boxes!Next]_optional PROVE Lives'
<1>1. ASSUME NEW o \in Optionals, Boxes!Construct(o) PROVE Lives'
  <2>1. objects' = Boxes!Count(o, 0)
    <3>1. objects = [objects EXCEPT ![o] = @ + 0]
      BY DEF Lives
    <3> QED BY <1>1, <3>1 DEF Boxes!Construct, Boxes!Count
  <2> QED BY <1>1, <2>1, ContentsTyped, ConstructLives DEF Boxes!Construct
<1>2. ASSUME NEW o \in Optionals, NEW v \in Values, Boxes!ConstructValue(o, v) PROVE Lives'
  BY <1>2, ContentsTyped, ConstructLives DEF Boxes!ConstructValue
<1>3. ASSUME NEW o \in Optionals, NEW p, Boxes!ConstructCopy(o, p) PROVE Lives'
  BY <1>3, CopyTyped, FlagsAre, ConstructLives DEF Boxes!ConstructCopy, Boxes!In
<1>4. ASSUME NEW o \in Optionals, Boxes!Destroy(o) PROVE Lives'
  <2> PICK made \in Int : made = -FlagIn(box, o)
    BY FlagsAre
  <2>1. /\ box' = [x \in DOMAIN box \ {o} |-> box[x]] /\ filled' = filled
        /\ objects' = [objects EXCEPT ![o] = @ + made]
    BY <1>4, FlagsAre DEF Boxes!Destroy, Boxes!Count
  <2>2. TypedBox(box') /\ FlagIn(box', o) = 0 /\ \A x \in Optionals \ {o} : FlagIn(box', x) = FlagIn(box, x)
    BY <2>1 DEF TypedBox, FlagIn, Lives
  <2>3. FlagIn(box', o) = FlagIn(box, o) + made
    BY <2>2, FlagsAre
  <2> QED BY <2>1, <2>2, <2>3, OneMade
<1>5. ASSUME NEW o \in Optionals, NEW v \in Values, Boxes!Read(o, v) PROVE Lives'
  <2> PICK read \in Nat : read = 1 - FlagIn(box, o)
    BY FlagsAre
  <2>1. /\ o \in DOMAIN box /\ box' = [box EXCEPT ![o] = Boxes!Holding(v)] /\ objects' = objects
        /\ filled' = [filled EXCEPT ![o] = @ + 1 - FlagIn(box, o)] /\ TypedBox(box)
    BY <1>5, FlagsAre DEF Boxes!Read, Boxes!In, Lives
  <2>2. TypedBox(box') /\ FlagIn(box', o) = 1 /\ \A x \in Optionals \ {o} : FlagIn(box', x) = FlagIn(box, x)
    <3>1. Written(box, box', o, Boxes!Holding(v))
      BY <2>1 DEF Written
    <3>2. TypedBox(box) /\ o \in Optionals /\ v \in Values \cup {Moved}
      BY <2>1
    <3> QED BY <3>1, <3>2, ValueHeld
  <2>3. objects' = [objects EXCEPT ![o] = @ + 0] /\ filled' = [filled EXCEPT ![o] = @ + read]
    <3>1. objects = [objects EXCEPT ![o] = @ + 0]
      BY DEF Lives
    <3>2. filled[o] + 1 - FlagIn(box, o) = filled[o] + read
      BY FlagsAre DEF Lives
    <3> QED BY <2>1, <3>1, <3>2
  <2>4. FlagIn(box', o) = FlagIn(box, o) + 0 + read
    BY <2>2, FlagsAre
  <2>5. OneChange(o, 0, read)
    BY <2>2, <2>3, <2>4 DEF OneChange
  <2> QED BY <2>5, OneWritten
<1>6. CASE UNCHANGED optional
  BY <1>6 DEF optional, Lives, TypedBox, Boxes!LifetimesMatch, Boxes!Flag, Boxes!Valid, Boxes!In
<1> QED BY <1>1, <1>2, <1>3, <1>4, <1>5, <1>6, ConstructMoveLives, ResetLives, AssignValueLives, AssignLives
        DEF Boxes!Next

(* Through any constructors, copies, moves, assignments and resets of any  *)
(* number of optionals, the objects made and destroyed in a place keep up  *)
(* with its flag; the reads into an empty one, and only they, set the flag *)
(* without an object (optional.hpp:437).                                   *)
THEOREM OptionalsLive == LibrarySpec => []Boxes!LifetimesMatch
<1>1. LibraryInit => Lives
  <2>1. Boxes!Init => Lives
    BY DEF Boxes!Init, Lives, TypedBox, Boxes!LifetimesMatch, Boxes!Flag, Boxes!Valid, Boxes!In
  <2> QED BY <2>1 DEF LibraryInit
<1>2. Lives /\ [LibraryNext]_library => Lives'
  <2>1. [LibraryNext]_library => [Boxes!Next]_optional
    BY DEF LibraryNext, library
  <2> QED BY <2>1, LivesNext
<1>3. Lives => Boxes!LifetimesMatch
  BY DEF Lives
<1> QED BY <1>1, <1>2, <1>3, PTL DEF LibrarySpec

-----------------------------------------------------------------------------
(* What a reader does to a memo that ends with a separator: it stands at   *)
(* the next pair, and the slip has those before.  In any other memo it     *)
(* never comes to the end: it stands at odd fields of an even number of    *)
(* them, or there is no empty one at the end.                              *)
Ended == memo[Len(memo)] = Reader!Empty
PairAt(i) == [bet_type |-> memo[2 * i + 1].num % ByteSize, amount |-> memo[2 * i + 2].num]
ReadSoFar ==
    \E k \in Nat : cursor = 2 * k + 3 /\ 2 * k + 3 <= Len(memo) /\ slip = [i \in 1 .. k |-> PairAt(i)]
OddField == \E k \in Nat : cursor = 2 * k + 1
EvenMemo == \E n \in Nat : Len(memo) = 2 * n
OddMemo == \E n \in Nat : Len(memo) = 2 * n + 1

Reading ==
    /\ memo \in Seq(Fields) /\ Len(memo) \in Nat \ {0} /\ memo # <<Reader!Empty>>
    /\ state \in {"head", "bets", "done", "aborted"}
    /\ state = "head" => cursor = 1 /\ slip = <<>>
    /\ state \in {"bets", "done"} =>
          /\ cursor \in 1 .. Len(memo)
          /\ EvenMemo => OddField
          /\ OddMemo /\ Ended => ReadSoFar
    /\ state = "done" => cursor = Len(memo) /\ Ended
    /\ Reader!RefererUsable

LEMMA EvenOrOdd == ASSUME NEW n \in Nat PROVE (\E k \in Nat : n = 2 * k) \/ (\E k \in Nat : n = 2 * k + 1)
<1>1. n = 2 * (n \div 2) + (n % 2) /\ n \div 2 \in Nat /\ n % 2 \in {0, 1}
  OBVIOUS
<1> DEFINE h == n \div 2
<1>2. h \in Nat /\ (n = 2 * h \/ n = 2 * h + 1)
  BY <1>1
<1> HIDE DEF h
<1> QED BY <1>2

LEMMA ReadingInit == ASSUME Reader!Init PROVE Reading
<1>1. PICK n \in 1 .. MaxFields : memo \in [1 .. n -> Fields]
  BY DEF Reader!Init, Reader!Memos
<1>2. memo \in Seq(Fields) /\ Len(memo) = n
  BY <1>1
<1> QED BY <1>1, <1>2 DEF Reader!Init, Reader!Memos, Reading, Reader!RefererUsable

LEMMA HeadRead == ASSUME Reader!MemoAssumption, Reading, Reader!ReadHead PROVE Reading'
<1>1. /\ memo' = memo /\ slip' = slip /\ state' \in {"bets", "aborted"} /\ slip = <<>> /\ cursor = 1
      /\ cursor' = Reader!NextPos(Reader!NextPos(1))
      /\ memo \in Seq(Fields) /\ Len(memo) \in Nat \ {0} /\ memo # <<Reader!Empty>>
  BY DEF Reader!ReadHead, Reading
<1>2. cursor' = (IF Len(memo) >= 3 THEN 3 ELSE 1)
  BY <1>1 DEF Reader!NextPos
<1>3. OddField'
  <2>1. 3 = 2 * 1 + 1 /\ 1 = 2 * 0 + 1
    OBVIOUS
  <2> QED BY <1>2, <2>1 DEF OddField
<1>4. ASSUME OddMemo, Ended PROVE ReadSoFar'
  <2>1. Len(memo) >= 3
    <3>1. Len(memo) # 1
      <4>1. Len(memo) = 1 => memo = <<memo[1]>>
        BY <1>1
      <4> QED BY <1>1, <1>4, <4>1 DEF Ended
    <3>2. Len(memo) # 2
      BY <1>4 DEF OddMemo
    <3>3. Len(memo) \in Nat \ {0}
      BY <1>1
    <3> DEFINE n == Len(memo)
    <3> HIDE DEF n
    <3>4. n \in Nat \ {0} /\ n # 1 /\ n # 2 => n >= 3
      OBVIOUS
    <3> QED BY <3>1, <3>2, <3>3, <3>4 DEF n
  <2>2. cursor' = 2 * 0 + 3 /\ 2 * 0 + 3 <= Len(memo') /\ slip' = [i \in 1 .. 0 |-> PairAt(i)']
    BY <1>1, <1>2, <2>1
  <2> QED BY <2>2 DEF ReadSoFar, PairAt
<1>5. Reader!RefererUsable'
  <2>1. CASE referer' = referer
    BY <2>1 DEF Reading, Reader!RefererUsable
  <2>2. ASSUME NEW field, referer' = Reader!GetReferer(field) PROVE Reader!RefererUsable'
    BY <2>2 DEF Reader!GetReferer, Reader!RefererUsable, Reader!MemoAssumption
  <2> QED BY <2>1, <2>2 DEF Reader!ReadHead
<1> QED BY <1>1, <1>2, <1>3, <1>4, <1>5 DEF Reading, OddMemo, EvenMemo, Ended

LEMMA BetRead == ASSUME Reading, Reader!ReadBet PROVE Reading'
<1> DEFINE bet == [bet_type |-> memo[cursor].num % ByteSize, amount |-> memo[Reader!NextPos(cursor)].num]
<1>1. /\ memo' = memo /\ state = "bets" /\ referer' = referer
      /\ cursor' = Reader!NextPos(Reader!NextPos(cursor)) /\ cursor \in 1 .. Len(memo)
      /\ (slip' = Append(slip, bet) /\ state' = "bets") \/ state' = "aborted"
      /\ ~(cursor = Len(memo) /\ Ended)
      /\ memo \in Seq(Fields) /\ Len(memo) \in Nat \ {0} /\ memo # <<Reader!Empty>>
  BY DEF Reader!ReadBet, Reader!HasNext, Reader!NextParam, Reading, Ended
<1>2. /\ cursor' \in 1 .. Len(memo)
      /\ cursor' = IF cursor + 2 <= Len(memo) THEN cursor + 2
                   ELSE IF cursor + 1 = Len(memo) THEN 1 ELSE Reader!NextPos(1)
  BY <1>1 DEF Reader!NextPos
<1>3. ASSUME EvenMemo, OddField PROVE OddField'
  <2>1. PICK n \in Nat, k \in Nat : Len(memo) = 2 * n /\ cursor = 2 * k + 1
    BY <1>3 DEF EvenMemo, OddField
  <2>2. cursor + 2 = 2 * (k + 1) + 1 /\ k + 1 \in Nat /\ 1 = 2 * 0 + 1 /\ cursor # Len(memo)
    BY <2>1
  <2>3. cursor' = cursor + 2 \/ cursor' = 1
    BY <1>1, <1>2, <2>2
  <2> QED BY <2>2, <2>3 DEF OddField
<1>4. ASSUME OddMemo, Ended, ReadSoFar, state' = "bets" PROVE ReadSoFar'
  <2>1. PICK k \in Nat : cursor = 2 * k + 3 /\ 2 * k + 3 <= Len(memo) /\ slip = [i \in 1 .. k |-> PairAt(i)]
    BY <1>4 DEF ReadSoFar
  <2>2. PICK n \in Nat : Len(memo) = 2 * n + 1
    BY <1>4 DEF OddMemo
  <2>3. cursor + 2 <= Len(memo)
    BY <1>1, <1>4, <2>1, <2>2
  <2>4. cursor' = 2 * (k + 1) + 3 /\ 2 * (k + 1) + 3 <= Len(memo') /\ Reader!NextPos(cursor) = cursor + 1
    BY <1>1, <1>2, <2>1, <2>3 DEF Reader!NextPos
  <2>5. bet = PairAt(k + 1)
    <3>1. cursor = 2 * (k + 1) + 1 /\ Reader!NextPos(cursor) = 2 * (k + 1) + 2
      BY <2>1, <2>4
    <3> QED BY <3>1 DEF PairAt
  <2>6. slip' = [i \in 1 .. k + 1 |-> PairAt(i)]
    <3> HIDE DEF bet
    <3> DEFINE s == [i \in 1 .. k |-> PairAt(i)]
    <3>1. slip' = Append(s, PairAt(k + 1)) /\ Len(s) = k
      BY <1>1, <1>4, <2>1, <2>5
    <3>2. Append(s, PairAt(k + 1)) = [i \in 1 .. k + 1 |-> PairAt(i)]
      BY <3>1
    <3> QED BY <3>1, <3>2
  <2>7. \A i : PairAt(i)' = PairAt(i)
    BY <1>1 DEF PairAt
  <2> QED BY <2>4, <2>6, <2>7 DEF ReadSoFar
<1>5. Reader!RefererUsable'
  BY <1>1 DEF Reader!RefererUsable, Reading
<1> QED BY <1>1, <1>2, <1>3, <1>4, <1>5 DEF Reading, OddMemo, EvenMemo, Ended

LEMMA ReadingNext == ASSUME Reader!MemoAssumption, Reading, [Reader!Next]_reader PROVE Reading'
<1>1. CASE Reader!Finish
  <2>1. UNCHANGED <<memo, cursor, referer, slip>> /\ state = "bets"
    BY <1>1 DEF Reader!Finish
  <2>2. state' = "done" => cursor = Len(memo) /\ Ended
    BY <1>1 DEF Reader!Finish, Reader!HasNext, Ended
  <2>3. state' \in {"done", "aborted"}
    BY <1>1 DEF Reader!Finish
  <2> QED BY <2>1, <2>2, <2>3 DEF Reading, OddMemo, EvenMemo, Ended, OddField, ReadSoFar, PairAt, Reader!RefererUsable
<1>2. CASE UNCHANGED reader
  BY <1>2 DEF reader, Reading, OddMemo, EvenMemo, Ended, OddField, ReadSoFar, PairAt, Reader!RefererUsable
<1> QED BY <1>1, <1>2, HeadRead, BetRead DEF Reader!Next

LEMMA ReadOnce == ASSUME Reading PROVE Reader!MemoReadOnce
<1> SUFFICES ASSUME state = "done" PROVE slip = Reader!Pairs /\ Reader!Rest(cursor) = <<Reader!Empty>>
  BY DEF Reader!MemoReadOnce
<1>1. cursor = Len(memo) /\ Ended /\ memo \in Seq(Fields) /\ Len(memo) \in Nat \ {0}
  BY DEF Reading
<1>2. ~EvenMemo
  <2>1. EvenMemo => OddField
    BY DEF Reading
  <2> QED BY <1>1, <2>1 DEF EvenMemo, OddField
<1>3. OddMemo
  BY <1>1, <1>2, EvenOrOdd DEF OddMemo, EvenMemo
<1>4. PICK k \in Nat : Len(memo) = 2 * k + 3 /\ slip = [i \in 1 .. k |-> PairAt(i)]
  BY <1>1, <1>3 DEF Reading, ReadSoFar
<1>5. (Len(memo) - 3) \div 2 = k
  BY <1>4
<1>6. slip = Reader!Pairs
  BY <1>4, <1>5 DEF Reader!Pairs, PairAt
<1>7. Reader!Rest(cursor) = <<Reader!Empty>>
  <2> DEFINE n == Len(memo)
  <2>1. Reader!Rest(cursor) = [i \in 1 .. 1 |-> memo[i + n - 1]]
    BY <1>1 DEF Reader!Rest
  <2>2. \A i \in 1 .. 1 : memo[i + n - 1] = Reader!Empty
    BY <1>1 DEF Ended
  <2>3. [i \in 1 .. 1 |-> memo[i + n - 1]] = [i \in 1 .. 1 |-> Reader!Empty]
    <3> HIDE DEF n
    <3> QED BY <2>2, Zenon
  <2>4. [i \in 1 .. 1 |-> Reader!Empty] = <<Reader!Empty>>
    <3> DEFINE e == Reader!Empty
    <3> HIDE DEF e
    <3>1. [i \in 1 .. 1 |-> e] = <<e>>
      OBVIOUS
    <3> QED BY <3>1 DEF e
  <2> QED BY <2>1, <2>3, <2>4
<1> QED BY <1>6, <1>7

(* However many fields a memo has, with or without a separator at its end: *)
(* one that is accepted was read once, though the reader starts over at    *)
(* the end, and nobody is his own referer.                                 *)
THEOREM MemosReadOnce ==
    ASSUME Reader!MemoAssumption
    PROVE  LibrarySpec => []MemoRead
<1> DEFINE Inv == part = "memo" => Reading
<1>1. LibraryInit => Inv
  BY ReadingInit DEF LibraryInit
<1>2. Inv /\ [LibraryNext]_library => Inv'
  <2> SUFFICES ASSUME Inv, [LibraryNext]_library PROVE Inv'
    OBVIOUS
  <2>1. [Reader!Next]_reader /\ part' = part
    BY DEF LibraryNext, library
  <2> QED BY <2>1, ReadingNext
<1>3. Inv => MemoRead
  BY ReadOnce DEF MemoRead, Reading
<1> QED BY <1>1, <1>2, <1>3, PTL DEF LibrarySpec

-----------------------------------------------------------------------------
(* The least and the greatest of finitely many numbers are among them.     *)
LEMMA MinIn ==
    ASSUME NEW S, IsFiniteSet(S), S # {}, \A x \in S : x \in Int
    PROVE  Min(S) \in S /\ \A y \in S : Min(S) <= y
<1> DEFINE f == [x \in S |-> -x]
<1>1. \A x \in S : f[x] \in Int
  OBVIOUS
<1>2. PICK x \in S : \A y \in S : f[y] <= f[x]
  <2> HIDE DEF f
  <2> QED BY <1>1, HasLargest
<1>3. \A y \in S : x <= y
  BY <1>2
<1> QED BY <1>3, Zenon DEF Min

LEMMA MaxIn ==
    ASSUME NEW S, IsFiniteSet(S), S # {}, \A x \in S : x \in Int
    PROVE  Max(S) \in S /\ \A y \in S : Max(S) >= y
<1> DEFINE f == [x \in S |-> x]
<1>1. \A x \in S : f[x] \in Int
  OBVIOUS
<1>2. PICK x \in S : \A y \in S : f[y] <= f[x]
  <2> HIDE DEF f
  <2> QED BY <1>1, HasLargest
<1>3. \A y \in S : x >= y
  BY <1>2
<1> QED BY <1>3, Zenon DEF Max

LEMMA MaxUpTo == ASSUME NEW k \in Nat \ {0} PROVE Max(1 .. k) = k
<1>1. IsFiniteSet(1 .. k)
  BY FS_Interval
<1>2. Max(1 .. k) \in 1 .. k /\ Max(1 .. k) >= k
  <2>1. 1 .. k # {} /\ (\A x \in 1 .. k : x \in Int) /\ k \in 1 .. k
    OBVIOUS
  <2> QED BY <1>1, <2>1, MaxIn
<1> QED BY <1>2

-----------------------------------------------------------------------------
(* A fold from the left, as a function of the indices folded over: what    *)
(* step does at an index with what it has come to.                         *)
IsFoldOn(g, step, base, S) ==
    g = [s \in SUBSET S |-> IF s = {} THEN base ELSE step[Max(s)][g[s \ {Max(s)}]]]

LEMMA FoldsAgree ==
    ASSUME NEW step, NEW base, NEW A, IsFiniteSet(A), (\A x \in A : x \in Int), NEW B, NEW g, NEW h,
           IsFoldOn(g, step, base, A), IsFoldOn(h, step, base, B)
    PROVE  \A T \in SUBSET A : T \subseteq B => g[T] = h[T]
<1> DEFINE Good == {T \in SUBSET A : T \subseteq B => g[T] = h[T]}
<1>1. ASSUME NEW T \in SUBSET A, \A U \in SUBSET T : U # T => U \in Good
      PROVE  T \in Good
  <2>1. CASE T = {} BY <2>1 DEF IsFoldOn
  <2>2. CASE T # {} /\ T \subseteq B
    <3>1. Max(T) \in T
      <4>1. IsFiniteSet(T) BY FS_Subset
      <4> QED BY <2>2, <4>1, MaxIn
    <3>2. T \ {Max(T)} \in Good BY <3>1, <1>1
    <3>3. g[T] = step[Max(T)][g[T \ {Max(T)}]] BY <2>2 DEF IsFoldOn
    <3>4. h[T] = step[Max(T)][h[T \ {Max(T)}]] BY <2>2 DEF IsFoldOn
    <3>5. g[T \ {Max(T)}] = h[T \ {Max(T)}] BY <2>2, <3>2
    <3> QED BY <3>3, <3>4, <3>5
  <2> QED BY <2>1, <2>2
<1>2. \A T \in SUBSET A : T \in Good
  <2> HIDE DEF Good
  <2> QED BY <1>1, SubsetInduction
<1> QED BY <1>2

LEMMA FoldExists ==
    ASSUME NEW step, NEW base, NEW S, IsFiniteSet(S), (\A x \in S : x \in Int)
    PROVE  \E g : IsFoldOn(g, step, base, S)
<1> DEFINE Good == {T \in SUBSET S : \E g : IsFoldOn(g, step, base, T)}
<1>0. ASSUME NEW T \in SUBSET S, T # {} PROVE Max(T) \in T
  <2>1. IsFiniteSet(T) BY FS_Subset
  <2> QED BY <1>0, <2>1, MaxIn
<1>1. ASSUME NEW T \in SUBSET S, \A U \in SUBSET T : U # T => U \in Good
      PROVE  T \in Good
  <2> DEFINE FoldOf(U) == CHOOSE g : IsFoldOn(g, step, base, U)
             low == [U \in (SUBSET T) \ {T} |-> FoldOf(U)[U]]
             g == [U \in SUBSET T |-> IF U = {} THEN base ELSE step[Max(U)][low[U \ {Max(U)}]]]
  <2>1. \A U \in (SUBSET T) \ {T} : IsFoldOn(FoldOf(U), step, base, U)
    BY <1>1
  <2>2. ASSUME NEW U \in (SUBSET T) \ {T} PROVE low[U] = g[U]
    <3>0. FoldOf(U)[U] = IF U = {} THEN base ELSE step[Max(U)][FoldOf(U)[U \ {Max(U)}]]
      <4>1. IsFoldOn(FoldOf(U), step, base, U) /\ U \in SUBSET U BY <2>1, <2>2
      <4> HIDE DEF FoldOf
      <4> QED BY <4>1 DEF IsFoldOn
    <3>1. CASE U = {} BY <3>0, <3>1, <2>2
    <3>2. CASE U # {}
      <4> DEFINE V == U \ {Max(U)}
      <4>1. Max(U) \in U BY <3>2, <1>0
      <4>2. V \in (SUBSET T) \ {T} /\ V \in SUBSET U BY <4>1
      <4>3. FoldOf(U)[U] = step[Max(U)][FoldOf(U)[V]] BY <3>0, <3>2
      <4>4. V \in SUBSET V /\ \A x \in V : x \in Int BY <4>2
      <4>5. IsFoldOn(FoldOf(V), step, base, V) /\ IsFoldOn(FoldOf(U), step, base, U) BY <2>1, <4>2
      <4>6. FoldOf(V)[V] = FoldOf(U)[V]
        <5>1. IsFiniteSet(V)
          BY <4>2, FS_Subset
        <5> DEFINE gV == FoldOf(V)
                   gU == FoldOf(U)
        <5>2. IsFoldOn(gV, step, base, V) /\ IsFoldOn(gU, step, base, U)
          BY <4>5
        <5>3. (\A x \in V : x \in Int) /\ V \subseteq U /\ V \in SUBSET V
          BY <4>2, <4>4
        <5> HIDE DEF V, FoldOf, gV, gU
        <5>4. \A W \in SUBSET V : W \subseteq U => gV[W] = gU[W]
          BY <5>1, <5>2, <5>3, FoldsAgree
        <5> QED BY <5>3, <5>4 DEF gV, gU
      <4>7. low[V] = FoldOf(V)[V] BY <4>2
      <4>8. g[U] = step[Max(U)][low[V]] BY <3>2
      <4>9. low[U] = FoldOf(U)[U] BY <2>2
      <4> HIDE DEF V, low, g, FoldOf
      <4> QED BY <4>3, <4>6, <4>7, <4>8, <4>9
    <3> QED BY <3>1, <3>2
  <2>3. ASSUME NEW U \in SUBSET T, U # {} PROVE low[U \ {Max(U)}] = g[U \ {Max(U)}]
    <3>1. Max(U) \in U BY <2>3, <1>0
    <3>2. U \ {Max(U)} \in (SUBSET T) \ {T} BY <3>1
    <3> HIDE DEF g, low
    <3> QED BY <2>2, <3>2
  <2>4. IsFoldOn(g, step, base, T)
    <3> HIDE DEF low
    <3>1. \A U \in SUBSET T : U # {} => low[U \ {Max(U)}] = g[U \ {Max(U)}] BY <2>3
    <3> QED BY <3>1 DEF IsFoldOn
  <2> QED BY <2>4
<1>2. S \in Good
  <2> HIDE DEF Good
  <2> QED BY <1>1, SubsetInduction
<1> QED BY <1>2

(* What the step keeps, the fold keeps.                                    *)
LEMMA FoldKeeps ==
    ASSUME NEW step, NEW base, NEW S, IsFiniteSet(S), (\A x \in S : x \in Int), NEW g, IsFoldOn(g, step, base, S),
           NEW Kept, base \in Kept, \A i \in S, a \in Kept : step[i][a] \in Kept
    PROVE  \A T \in SUBSET S : g[T] \in Kept
<1> DEFINE Good == {T \in SUBSET S : g[T] \in Kept}
<1>1. ASSUME NEW T \in SUBSET S, \A U \in SUBSET T : U # T => U \in Good
      PROVE  T \in Good
  <2>1. CASE T = {} BY <2>1 DEF IsFoldOn
  <2>2. CASE T # {}
    <3>1. Max(T) \in T
      <4>1. IsFiniteSet(T) BY FS_Subset
      <4> QED BY <2>2, <4>1, MaxIn
    <3>2. T \ {Max(T)} \in Good BY <3>1, <1>1
    <3>3. g[T] = step[Max(T)][g[T \ {Max(T)}]] BY <2>2 DEF IsFoldOn
    <3> QED BY <3>1, <3>2, <3>3
  <2> QED BY <2>1, <2>2
<1>2. \A T \in SUBSET S : T \in Good
  <2> HIDE DEF Good
  <2> QED BY <1>1, SubsetInduction
<1> QED BY <1>2

(* Counting up: what passes from each number to the next.                  *)
LEMMA CountingUp ==
    ASSUME NEW n \in Nat, NEW Good, 0 \in Good, \A k \in 1 .. n : k - 1 \in Good => k \in Good
    PROVE  \A k \in 0 .. n : k \in Good
<1> DEFINE Bad == {k \in 1 .. n : k \notin Good}
<1>1. Bad = {}
  <2> SUFFICES ASSUME Bad # {} PROVE FALSE
    OBVIOUS
  <2>1. IsFiniteSet(Bad)
    <3>1. IsFiniteSet(1 .. n) /\ Bad \in SUBSET (1 .. n)
      BY FS_Interval
    <3> HIDE DEF Bad
    <3> QED BY <3>1, FS_Subset
  <2>2. Min(Bad) \in Bad /\ \A y \in Bad : Min(Bad) <= y
    <3>1. \A x \in Bad : x \in Int
      OBVIOUS
    <3> HIDE DEF Bad
    <3> QED BY <2>1, <3>1, MinIn
  <2> DEFINE m == Min(Bad)
  <2> HIDE DEF m
  <2>3. m \in 1 .. n /\ m \notin Good /\ \A y \in Bad : m <= y
    BY <2>2 DEF m
  <2>4. m - 1 \in Good
    BY <2>3
  <2> QED BY <2>3, <2>4
<1> QED BY <1>1

-----------------------------------------------------------------------------
(* What a sort of n numbers gives: the same numbers, and never a smaller   *)
(* one later.                                                              *)
IsSortOf(t, s, n) ==
    /\ \A k \in 1 .. n : t[k] \in ToSet(s) /\ t[k] \in Int
    /\ \A j, k \in 1 .. n : j <= k => t[j] <= t[k]
    /\ \A v \in ToSet(s) : \E k \in 1 .. n : t[k] = v

LEMMA AscendingSorts ==
    ASSUME NEW n \in Nat, NEW s, DOMAIN s = 1 .. n, \A i \in 1 .. n : s[i] \in Int
    PROVE  DOMAIN Ascending(s) = 1 .. n /\ IsSortOf(Ascending(s), s, n)
<1> DEFINE Vals == ToSet(s)
           upTo(v) == {i \in 1 .. n : s[i] <= v}
           c(v) == Cardinality(upTo(v))
           Above(k) == {v \in Vals : c(v) >= k}
           t == Ascending(s)
<1>0. IsFiniteSet(1 .. n) /\ Cardinality(1 .. n) = n
  BY FS_Interval
<1>1. Vals = {s[i] : i \in 1 .. n} /\ Vals \subseteq Int
  BY DEF ToSet
<1>2. IsFiniteSet(Vals)
  <2> DEFINE f == [i \in 1 .. n |-> s[i]]
  <2>1. f \in Surjection(1 .. n, Vals)
    BY <1>1 DEF Surjection
  <2> HIDE DEF f, Vals
  <2> QED BY <1>0, <2>1, FS_Surjection
<1>3. \A v : IsFiniteSet(upTo(v)) /\ c(v) \in Nat /\ c(v) <= n
  <2>1. \A v : upTo(v) \in SUBSET (1 .. n)
    OBVIOUS
  <2>2. \A v : IsFiniteSet(upTo(v)) /\ c(v) <= n
    <3> HIDE DEF upTo
    <3> QED BY <1>0, <2>1, FS_Subset
  <2> QED BY <2>2, FS_CardinalityType
<1>4. DOMAIN t = 1 .. n /\ \A k \in 1 .. n : t[k] = Min(Above(k))
  BY DEF Ascending
<1>5. ASSUME NEW v \in Int, NEW w \in Int, v <= w PROVE c(v) <= c(w)
  <2>1. upTo(v) \in SUBSET upTo(w)
    BY <1>5
  <2> HIDE DEF upTo
  <2> QED BY <1>3, <2>1, FS_Subset
<1>6. ASSUME NEW v \in Int, NEW w \in Vals, v < w PROVE c(v) < c(w)
  <2>1. PICK i \in 1 .. n : s[i] = w
    BY <1>1
  <2>2. upTo(v) \in SUBSET upTo(w) /\ i \in upTo(w) /\ i \notin upTo(v)
    BY <1>1, <1>6, <2>1
  <2>3. c(v) <= c(w) /\ c(v) # c(w)
    <3> DEFINE A == upTo(v)
               B == upTo(w)
    <3>1. IsFiniteSet(B) /\ A \in SUBSET B /\ A # B
      BY <1>3, <2>2
    <3>0. c(v) = Cardinality(A) /\ c(w) = Cardinality(B)
      OBVIOUS
    <3> HIDE DEF A, B, c
    <3>2. Cardinality(A) <= Cardinality(B) /\ Cardinality(B) # Cardinality(A)
      BY <3>1, FS_Subset
    <3> QED BY <3>0, <3>2
  <2>4. c(v) \in Nat /\ c(w) \in Nat
    BY <1>3
  <2> HIDE DEF c
  <2> QED BY <2>3, <2>4
<1>7. ASSUME NEW k \in 1 .. n PROVE Above(k) # {} /\ IsFiniteSet(Above(k)) /\ Above(k) \subseteq Int
  <2>1. Vals # {}
    BY <1>1
  <2>2. Max(Vals) \in Vals /\ \A y \in Vals : Max(Vals) >= y
    <3> HIDE DEF Vals
    <3> QED BY <1>1, <1>2, <2>1, MaxIn
  <2>3. upTo(Max(Vals)) = 1 .. n
    BY <1>1, <2>2
  <2>4. c(Max(Vals)) = n
    BY <1>0, <2>3
  <2>5. Max(Vals) \in Above(k)
    <3>1. c(Max(Vals)) >= k
      <4> HIDE DEF c
      <4> QED BY <2>4
    <3> QED BY <2>2, <3>1
  <2>6. IsFiniteSet(Above(k))
    <3>1. Above(k) \in SUBSET Vals
      OBVIOUS
    <3> HIDE DEF Above, Vals
    <3> QED BY <1>2, <3>1, FS_Subset
  <2> QED BY <1>1, <2>5, <2>6
<1>8. ASSUME NEW k \in 1 .. n PROVE t[k] \in Above(k) /\ \A y \in Above(k) : t[k] <= y
  <2>1. Above(k) # {} /\ IsFiniteSet(Above(k)) /\ \A x \in Above(k) : x \in Int
    BY <1>7
  <2> HIDE DEF Above, t
  <2> QED BY <1>4, <2>1, MinIn
<1> HIDE DEF t
<1>9. \A k \in 1 .. n : t[k] \in Vals /\ t[k] \in Int
  BY <1>1, <1>8
<1>10. ASSUME NEW j \in 1 .. n, NEW k \in 1 .. n, j <= k PROVE t[j] <= t[k]
  <2>1. t[k] \in Vals /\ c(t[k]) >= k
    BY <1>8
  <2>2. c(t[k]) >= j
    <3>1. c(t[k]) \in Nat BY <1>3
    <3> HIDE DEF c
    <3> QED BY <1>10, <2>1, <3>1
  <2> QED BY <1>8, <2>1, <2>2
<1>11. ASSUME NEW v \in Vals PROVE \E k \in 1 .. n : t[k] = v
  <2>1. PICK i \in 1 .. n : s[i] = v
    BY <1>1
  <2>2. i \in upTo(v) /\ v \in Int
    BY <1>1, <2>1
  <2>3. c(v) \in 1 .. n
    <3>1. c(v) # 0
      <4>1. upTo(v) # {}
        BY <2>2
      <4> HIDE DEF upTo
      <4> QED BY <1>3, <4>1, FS_EmptySet
    <3>2. c(v) \in Nat /\ c(v) <= n
      BY <1>3
    <3> HIDE DEF c
    <3> QED BY <3>1, <3>2
  <2>4. t[c(v)] \in Vals /\ c(t[c(v)]) >= c(v) /\ t[c(v)] <= v /\ t[c(v)] \in Int
    <3>1. c(v) >= c(v)
      <4> HIDE DEF c
      <4> QED BY <2>3
    <3> QED BY <1>8, <1>9, <2>3, <3>1
  <2>5. ~(t[c(v)] < v)
    <3>1. c(v) \in Nat /\ c(t[c(v)]) \in Nat
      BY <1>3
    <3>2. t[c(v)] < v => c(t[c(v)]) < c(v)
      BY <1>6, <2>4
    <3> HIDE DEF c
    <3> QED BY <2>4, <3>1, <3>2
  <2> QED BY <2>2, <2>3, <2>4, <2>5
<1> QED BY <1>4, <1>9, <1>10, <1>11 DEF IsSortOf, t

-----------------------------------------------------------------------------
(* The bumping as a fold over the cards already dealt, and term by term.   *)
Bumped(card, other) == IF card >= other THEN card + 1 ELSE card
IsBumpsOn(g, drawn, s, S) ==
    g = [T \in SUBSET S |-> IF T = {} THEN drawn ELSE Bumped(g[T \ {Max(T)}], s[Max(T)])]
IsBumps(x, drawn, s, n) ==
    /\ x \in [0 .. n -> Int] /\ x[0] = drawn
    /\ \A k \in 1 .. n : x[k] = Bumped(x[k - 1], s[k])

LEMMA DrawIsChosen ==
    ASSUME NEW drawn, NEW cards
    PROVE  DrawRandomCard(drawn, cards) =
              (CHOOSE g : IsBumpsOn(g, drawn, Sorted(cards), DOMAIN Sorted(cards)))[DOMAIN Sorted(cards)]
  BY DEF DrawRandomCard, FoldLeft, MapThenFoldSet, IsBumpsOn, Bumped

LEMMA BumpsExist ==
    ASSUME NEW drawn \in Int, NEW n \in Nat, NEW s, \A k \in 1 .. n : s[k] \in Int
    PROVE  \E g : IsBumpsOn(g, drawn, s, 1 .. n)
<1> DEFINE S == 1 .. n
           step == [i \in S |-> [a \in Int |-> Bumped(a, s[i])]]
<1>1. IsFiniteSet(S) /\ \A x \in S : x \in Int
  BY FS_Interval
<1>2. \A i \in S, a \in Int : step[i][a] = Bumped(a, s[i]) /\ step[i][a] \in Int
  BY DEF Bumped
<1>3. PICK g : IsFoldOn(g, step, drawn, S)
  <2> HIDE DEF S, step
  <2> QED BY <1>1, FoldExists
<1>4. \A T \in SUBSET S : g[T] \in Int
  <2> HIDE DEF S, step
  <2> QED BY <1>1, <1>2, <1>3, FoldKeeps
<1>5. ASSUME NEW T \in SUBSET S, T # {}
      PROVE  step[Max(T)][g[T \ {Max(T)}]] = Bumped(g[T \ {Max(T)}], s[Max(T)])
  <2>1. Max(T) \in T
    <3>1. IsFiniteSet(T) /\ \A x \in T : x \in Int
      <4> HIDE DEF S
      <4> QED BY <1>1, FS_Subset
    <3> QED BY <1>5, <3>1, MaxIn
  <2>2. g[T \ {Max(T)}] \in Int /\ Max(T) \in S
    BY <1>4, <2>1
  <2> HIDE DEF step
  <2> QED BY <1>2, <2>2
<1>6. IsBumpsOn(g, drawn, s, S)
  <2> HIDE DEF step, S
  <2> QED BY <1>3, <1>5 DEF IsFoldOn, IsBumpsOn
<1> QED BY <1>6

LEMMA BumpsUnfold ==
    ASSUME NEW drawn \in Int, NEW n \in Nat, NEW s, \A k \in 1 .. n : s[k] \in Int,
           NEW g, IsBumpsOn(g, drawn, s, 1 .. n)
    PROVE  \E x : IsBumps(x, drawn, s, n) /\ x[n] = g[1 .. n]
<1> DEFINE x == [k \in 0 .. n |-> g[1 .. k]]
<1>1. g[1 .. 0] = drawn
  <2>1. 1 .. 0 = {} /\ {} \in SUBSET (1 .. n)
    OBVIOUS
  <2> QED BY <2>1 DEF IsBumpsOn
<1>2. ASSUME NEW k \in 1 .. n PROVE g[1 .. k] = Bumped(g[1 .. k - 1], s[k])
  <2>1. (1 .. k) \in SUBSET (1 .. n) /\ 1 .. k # {}
    <3>1. \A i \in 1 .. k : i \in 1 .. n
      OBVIOUS
    <3>2. k \in 1 .. k
      OBVIOUS
    <3> QED BY <3>1, <3>2
  <2>2. Max(1 .. k) = k
    BY MaxUpTo
  <2>3. (1 .. k) \ {k} = 1 .. k - 1
    OBVIOUS
  <2> QED BY <2>1, <2>2, <2>3 DEF IsBumpsOn
<1>3. x[0] = drawn /\ (\A k \in 1 .. n : x[k] = Bumped(x[k - 1], s[k])) /\ x[n] = g[1 .. n] /\ DOMAIN x = 0 .. n
  BY <1>1, <1>2
<1> DEFINE Good == {k \in 0 .. n : x[k] \in Int}
<1>4. \A k \in 0 .. n : k \in Good
  <2> HIDE DEF x
  <2>1. 0 \in Good
    BY <1>3
  <2>2. \A k \in 1 .. n : k - 1 \in Good => k \in Good
    BY <1>3 DEF Bumped
  <2> HIDE DEF Good
  <2> QED BY <2>1, <2>2, CountingUp
<1>5. x \in [0 .. n -> Int]
  BY <1>4
<1> HIDE DEF x
<1> QED BY <1>3, <1>5 DEF IsBumps

(* What is drawn, card by card; the deal is a sequence of numbers.         *)
LEMMA DrawUnfolds ==
    ASSUME NEW drawn \in Int, NEW cards \in Seq(Int)
    PROVE  \E x : IsBumps(x, drawn, Sorted(cards), Len(cards)) /\ DrawRandomCard(drawn, cards) = x[Len(cards)]
<1> DEFINE n == Len(cards)
           s == Sorted(cards)
<1>1. n \in Nat /\ DOMAIN cards = 1 .. n /\ \A i \in 1 .. n : cards[i] \in Int
  OBVIOUS
<1>2. DOMAIN s = 1 .. n /\ \A k \in 1 .. n : s[k] \in Int
  <2> HIDE DEF n
  <2> QED BY <1>1, AscendingSorts DEF Sorted, IsSortOf
<1> HIDE DEF n, s
<1>3. \E g : IsBumpsOn(g, drawn, s, 1 .. n)
  BY <1>1, <1>2, BumpsExist
<1>4. PICK g : IsBumpsOn(g, drawn, s, 1 .. n) /\ DrawRandomCard(drawn, cards) = g[1 .. n]
  <2> DEFINE g == CHOOSE g : IsBumpsOn(g, drawn, s, 1 .. n)
  <2>1. IsBumpsOn(g, drawn, s, 1 .. n)
    BY <1>3
  <2>2. DrawRandomCard(drawn, cards) = g[1 .. n]
    BY <1>2, DrawIsChosen DEF s
  <2> QED BY <2>1, <2>2
<1>5. PICK x : IsBumps(x, drawn, s, n) /\ x[n] = g[1 .. n]
  BY <1>1, <1>2, <1>4, BumpsUnfold
<1> QED BY <1>4, <1>5 DEF n, s

(* The card drawn is none of those dealt, and is bumped at most once for   *)
(* each of them: where the cards are in order, a card never comes back to  *)
(* one it passed.                                                          *)
LEMMA DrawIsNew ==
    ASSUME NEW drawn \in Int, NEW cards \in Seq(Int)
    PROVE  /\ DrawRandomCard(drawn, cards) \in drawn .. drawn + Len(cards)
           /\ DrawRandomCard(drawn, cards) \notin ToSet(cards)
<1> DEFINE n == Len(cards)
           s == Sorted(cards)
<1>1. n \in Nat /\ DOMAIN cards = 1 .. n /\ \A i \in 1 .. n : cards[i] \in Int
  OBVIOUS
<1>2. IsSortOf(s, cards, n)
  <2> HIDE DEF n
  <2> QED BY <1>1, AscendingSorts DEF Sorted
<1> HIDE DEF n, s
<1>3. PICK x : IsBumps(x, drawn, s, n) /\ DrawRandomCard(drawn, cards) = x[n]
  BY DrawUnfolds DEF n, s
<1> DEFINE Good == {k \in 0 .. n : x[k] \in drawn .. drawn + k /\ \A j \in 1 .. k : x[k] # s[j]}
<1>4. 0 \in Good
  BY <1>1, <1>3 DEF IsBumps
<1>5. ASSUME NEW k \in 1 .. n, k - 1 \in Good PROVE k \in Good
  <2>1. x[k - 1] \in Int /\ x[k] = Bumped(x[k - 1], s[k]) /\ s[k] \in Int
    BY <1>1, <1>2, <1>3 DEF IsBumps, IsSortOf
  <2>2. x[k - 1] \in drawn .. drawn + (k - 1) /\ \A j \in 1 .. k - 1 : x[k - 1] # s[j]
    BY <1>5
  <2>3. \A j \in 1 .. k : s[j] <= s[k] /\ s[j] \in Int
    BY <1>1, <1>2 DEF IsSortOf
  <2>4. CASE x[k - 1] >= s[k]
    <3>1. x[k] = x[k - 1] + 1
      BY <2>1, <2>4 DEF Bumped
    <3> QED BY <2>1, <2>2, <2>3, <2>4, <3>1
  <2>5. CASE ~(x[k - 1] >= s[k])
    <3>1. x[k] = x[k - 1] /\ x[k] # s[k]
      BY <2>1, <2>5 DEF Bumped
    <3> QED BY <2>1, <2>2, <3>1
  <2> QED BY <2>4, <2>5
<1>6. n \in Good
  <2>1. \A k \in 0 .. n : k \in Good
    <3> HIDE DEF Good
    <3> QED BY <1>1, <1>4, <1>5, CountingUp
  <2> QED BY <1>1, <2>1
<1>7. x[n] \in drawn .. drawn + n /\ \A j \in 1 .. n : x[n] # s[j]
  BY <1>6
<1>8. x[n] \notin ToSet(cards)
  BY <1>2, <1>7 DEF IsSortOf
<1> QED BY <1>3, <1>7, <1>8 DEF n

(* Different numbers draw different cards.                                 *)
LEMMA DrawsDiffer ==
    ASSUME NEW d \in Int, NEW e \in Int, d < e, NEW cards \in Seq(Int)
    PROVE  DrawRandomCard(d, cards) # DrawRandomCard(e, cards)
<1> DEFINE n == Len(cards)
           s == Sorted(cards)
<1>1. n \in Nat /\ DOMAIN cards = 1 .. n /\ \A i \in 1 .. n : cards[i] \in Int
  OBVIOUS
<1>2. IsSortOf(s, cards, n)
  <2> HIDE DEF n
  <2> QED BY <1>1, AscendingSorts DEF Sorted
<1> HIDE DEF n, s
<1>3. PICK x : IsBumps(x, d, s, n) /\ DrawRandomCard(d, cards) = x[n]
  BY DrawUnfolds DEF n, s
<1>4. PICK y : IsBumps(y, e, s, n) /\ DrawRandomCard(e, cards) = y[n]
  BY DrawUnfolds DEF n, s
<1> DEFINE Good == {k \in 0 .. n : x[k] < y[k]}
<1>5. 0 \in Good
  BY <1>1, <1>3, <1>4 DEF IsBumps
<1>6. ASSUME NEW k \in 1 .. n, k - 1 \in Good PROVE k \in Good
  <2>1. x[k - 1] \in Int /\ y[k - 1] \in Int /\ s[k] \in Int /\ x[k - 1] < y[k - 1]
    BY <1>1, <1>2, <1>3, <1>4, <1>6 DEF IsBumps, IsSortOf
  <2>2. x[k] = Bumped(x[k - 1], s[k]) /\ y[k] = Bumped(y[k - 1], s[k])
    BY <1>3, <1>4 DEF IsBumps
  <2> QED BY <2>1, <2>2 DEF Bumped
<1>7. n \in Good
  <2>1. \A k \in 0 .. n : k \in Good
    <3> HIDE DEF Good
    <3> QED BY <1>1, <1>5, <1>6, CountingUp
  <2> QED BY <1>1, <2>1
<1>8. x[n] \in Int /\ y[n] \in Int
  BY <1>1, <1>3, <1>4 DEF IsBumps
<1> QED BY <1>3, <1>4, <1>7, <1>8

(* What is dealt from a deck: different cards of it.                       *)
DealtFrom(cards, number) ==
    /\ cards \in Seq(Int) /\ ToSet(cards) \subseteq 0 .. number - 1
    /\ \A i, j \in DOMAIN cards : cards[i] = cards[j] => i = j

LEMMA LeftCounted ==
    ASSUME NEW number \in Nat, NEW cards, DealtFrom(cards, number)
    PROVE  /\ IsFiniteSet(Left(cards, number)) /\ Len(cards) <= number
           /\ Cardinality(Left(cards, number)) = number - Len(cards)
<1> DEFINE n == Len(cards)
           all == 0 .. number - 1
           set == ToSet(cards)
<1>1. n \in Nat /\ cards \in [1 .. n -> set] /\ DOMAIN cards = 1 .. n
  BY DEF DealtFrom, ToSet
<1>2. cards \in Injection(1 .. n, set) /\ cards \in Surjection(1 .. n, set)
  BY <1>1 DEF DealtFrom, ToSet, Injection, IsInjective, Surjection
<1>3. IsFiniteSet(1 .. n) /\ Cardinality(1 .. n) = n /\ IsFiniteSet(all) /\ Cardinality(all) = number
  <2>1. IsFiniteSet(1 .. n) /\ Cardinality(1 .. n) = n
    <3> HIDE DEF n
    <3> QED BY <1>1, FS_Interval
  <2>2. IsFiniteSet(all) /\ Cardinality(all) = IF 0 > number - 1 THEN 0 ELSE number - 1 - 0 + 1
    BY FS_Interval
  <2> QED BY <2>1, <2>2
<1>4. set \in SUBSET all
  BY DEF DealtFrom
<1> HIDE DEF n, all, set
<1>5. Cardinality(set) = n /\ IsFiniteSet(set)
  BY <1>2, <1>3, FS_Surjection
<1>6. Cardinality(set) <= Cardinality(all) /\ all \cap set = set
  BY <1>3, <1>4, FS_Subset
<1>7. IsFiniteSet(all \ set) /\ Cardinality(all \ set) = Cardinality(all) - Cardinality(all \cap set)
  BY <1>3, FS_Difference
<1>8. Left(cards, number) = all \ set
  BY DEF Left, all, set
<1> QED BY <1>1, <1>3, <1>5, <1>6, <1>7, <1>8 DEF n

LEMMA DealtFair ==
    ASSUME NEW number \in Nat, NEW cards, DealtFrom(cards, number)
    PROVE  /\ DrawsAreFair(cards, number)
           /\ \A drawn \in 0 .. number - Len(cards) - 1 : DrawRandomCard(drawn, cards) \in Left(cards, number)
<1> DEFINE n == Len(cards)
           numbers == 0 .. number - n - 1
           left == Left(cards, number)
           f == [drawn \in numbers |-> DrawRandomCard(drawn, cards)]
<1>1. n \in Nat /\ cards \in Seq(Int)
  BY DEF DealtFrom
<1>2. IsFiniteSet(left) /\ n <= number /\ Cardinality(left) = number - n
  BY LeftCounted
<1>3. Cardinality(numbers) = number - n
  BY <1>1, <1>2, FS_Interval
<1>4. ASSUME NEW drawn \in numbers PROVE DrawRandomCard(drawn, cards) \in left
  <2>1. DrawRandomCard(drawn, cards) \in drawn .. drawn + n /\ DrawRandomCard(drawn, cards) \notin ToSet(cards)
    BY <1>1, <1>4, DrawIsNew
  <2> DEFINE card == DrawRandomCard(drawn, cards)
  <2> HIDE DEF card
  <2>2. card \in 0 .. number - 1
    BY <1>1, <2>1 DEF card
  <2> QED BY <2>1, <2>2 DEF Left, card
<1>5. f \in Injection(numbers, left)
  <2>1. f \in [numbers -> left]
    BY <1>4
  <2>2. ASSUME NEW a \in numbers, NEW b \in numbers, f[a] = f[b] PROVE a = b
    <3>1. a \in Int /\ b \in Int /\ DrawRandomCard(a, cards) = DrawRandomCard(b, cards)
      BY <2>2
    <3>2. ~(a < b) /\ ~(b < a)
      BY <1>1, <3>1, DrawsDiffer
    <3> QED BY <3>1, <3>2
  <2>3. DOMAIN f = numbers
    OBVIOUS
  <2> HIDE DEF f, numbers, left
  <2> QED BY <2>1, <2>2, <2>3 DEF Injection, IsInjective
<1>6. f \in Surjection(numbers, left)
  <2> HIDE DEF f, numbers, left
  <2> QED BY <1>2, <1>3, <1>5, FS_Injection
<1>7. {DrawRandomCard(drawn, cards) : drawn \in numbers} = left
  <2>1. \A c \in left : \E drawn \in numbers : DrawRandomCard(drawn, cards) = c
    BY <1>6 DEF Surjection
  <2> HIDE DEF numbers, left
  <2> QED BY <1>4, <2>1
<1>8. Cardinality(numbers) = Cardinality(left)
  BY <1>2, <1>3
<1> QED BY <1>4, <1>7, <1>8, Zenon DEF DrawsAreFair

(* Whatever the deck and however much of it is dealt, each card that is    *)
(* left is drawn by exactly one number, and no card twice.                 *)
THEOREM DrawsAlwaysFair ==
    ASSUME LibraryAssumption
    PROVE  LibrarySpec => []DrawsFair
<1> DEFINE Inv == part = "draw" => DealtFrom(dealt, DeckSize)
<1>0. DeckSize \in Nat
  BY DEF LibraryAssumption
<1>1. LibraryInit => Inv
  BY DEF LibraryInit, DealsInit, DealtFrom, ToSet
<1>2. Inv /\ [LibraryNext]_library => Inv'
  <2> SUFFICES ASSUME Inv, [LibraryNext]_library, part' = "draw" PROVE DealtFrom(dealt', DeckSize)
    OBVIOUS
  <2>1. part = "draw"
    BY DEF LibraryNext, library
  <2>2. dealt' = dealt \/ \E drawn \in 0 .. DeckSize - 1 : Draw(drawn)
    BY <2>1 DEF LibraryNext, library, table, DealsNext, Hold, Give, Bet
  <2>3. ASSUME NEW drawn \in 0 .. DeckSize - 1, Draw(drawn) PROVE DealtFrom(dealt', DeckSize)
    <3> DEFINE card == DrawRandomCard(drawn, dealt)
    <3>1. drawn < DeckSize - Len(dealt) /\ dealt' = Append(dealt, card) /\ DealtFrom(dealt, DeckSize)
      BY <2>1, <2>3 DEF Draw, AddCard
    <3>2. dealt \in Seq(Int) /\ Len(dealt) \in Nat
      BY <3>1 DEF DealtFrom
    <3>3. drawn \in 0 .. DeckSize - Len(dealt) - 1
      BY <1>0, <3>1, <3>2
    <3>4. card \in Left(dealt, DeckSize)
      BY <1>0, <3>1, <3>3, DealtFair
    <3> HIDE DEF card
    <3>5. card \in 0 .. DeckSize - 1 /\ \A i \in DOMAIN dealt : dealt[i] # card /\ dealt[i] \in 0 .. DeckSize - 1
      BY <3>1, <3>4 DEF Left, ToSet, DealtFrom
    <3>6. /\ DOMAIN dealt' = 1 .. Len(dealt) + 1 /\ dealt' \in Seq(Int)
          /\ dealt'[Len(dealt) + 1] = card /\ \A i \in 1 .. Len(dealt) : dealt'[i] = dealt[i]
      BY <1>0, <3>1, <3>2, <3>5
    <3>7. \A i \in DOMAIN dealt' : i = Len(dealt) + 1 \/ i \in DOMAIN dealt
      BY <3>2, <3>6
    <3> QED BY <3>1, <3>2, <3>5, <3>6, <3>7 DEF DealtFrom, ToSet
  <2> QED BY <2>1, <2>2, <2>3
<1>3. Inv => DrawsFair
  BY <1>0, DealtFair DEF DrawsFair
<1> QED BY <1>1, <1>2, <1>3, PTL DEF LibrarySpec

-----------------------------------------------------------------------------
(* What can be numbered from 0 below n without a number twice is at most n. *)
LEMMA CountedBy ==
    ASSUME NEW S, NEW n \in Nat, NEW f, \A x \in S : f[x] \in 0 .. n - 1,
           \A x, y \in S : f[x] = f[y] => x = y
    PROVE  IsFiniteSet(S) /\ Cardinality(S) \in Nat /\ Cardinality(S) <= n
<1> DEFINE T == 0 .. n - 1
           g == [x \in S |-> f[x]]
<1>1. IsFiniteSet(T) /\ Cardinality(T) = n
  <2>1. IsFiniteSet(T) /\ Cardinality(T) = IF 0 > n - 1 THEN 0 ELSE n - 1 - 0 + 1
    BY FS_Interval
  <2> QED BY <2>1
<1>2. g \in Injection(S, T)
  <2>1. g \in [S -> T] /\ DOMAIN g = S /\ \A x, y \in S : g[x] = g[y] => x = y
    OBVIOUS
  <2> HIDE DEF g, T
  <2> QED BY <2>1 DEF Injection, IsInjective
<1>3. IsFiniteSet(S) /\ Cardinality(S) <= Cardinality(T)
  <2> HIDE DEF g, T
  <2> QED BY <1>1, <1>2, FS_Injection
<1>4. Cardinality(S) \in Nat
  BY <1>3, FS_CardinalityType
<1> HIDE DEF T
<1> QED BY <1>1, <1>3, <1>4

-----------------------------------------------------------------------------
(* The pockets a bet of roulette wins on.                                  *)
LEMMA RouletteCounted ==
    ASSUME NEW b \in 1 .. 49
    PROVE  /\ IsFiniteSet(Wheel!RouletteWins(b))
           /\ Cardinality(Wheel!RouletteWins(b)) \in Nat
           /\ Cardinality(Wheel!RouletteWins(b)) <=
                 IF b \in 38 .. 41 \cup 48 .. 49 THEN 18 ELSE IF b \in 42 .. 47 THEN 12 ELSE 1
<1> DEFINE W == Wheel!RouletteWins(b)
           Most(k) == IsFiniteSet(W) /\ Cardinality(W) \in Nat /\ Cardinality(W) <= k
<1>1. ASSUME b \in {38, 39} PROVE Most(18)
  <2> DEFINE f == [n \in W |-> (n - 1) \div 2]
  <2>1. (\A n \in W : f[n] \in 0 .. 18 - 1) /\ \A n, m \in W : f[n] = f[m] => n = m
    BY <1>1 DEF Wheel!RouletteWins, Wheel!Even
  <2> HIDE DEF W, f
  <2> QED BY <2>1, CountedBy
<1>2. ASSUME b \in {40, 41} PROVE Most(18)
  <2> DEFINE f == [n \in W |-> IF b = 40 THEN n - 19 ELSE n - 1]
  <2>1. (\A n \in W : f[n] \in 0 .. 18 - 1) /\ \A n, m \in W : f[n] = f[m] => n = m
    BY <1>2 DEF Wheel!RouletteWins
  <2> HIDE DEF W, f
  <2> QED BY <2>1, CountedBy
<1>3. ASSUME b \in {48, 49} PROVE Most(18)
  <2> DEFINE f == [n \in W |-> (n - 1) \div 2]
  <2>1. \A n \in W : n \in 1 .. 36
    BY <1>3 DEF Wheel!RouletteWins, Wheel!IsRed
  <2>2. ASSUME NEW k \in 1 .. 18 PROVE (2 * k - 1 \in Wheel!IsRed) # (2 * k \in Wheel!IsRed)
    BY DEF Wheel!IsRed
  <2>3. ASSUME NEW n \in W, NEW m \in W, f[n] = f[m] PROVE n = m
    <3>1. n \in 1 .. 36 /\ m \in 1 .. 36 /\ (n - 1) \div 2 = (m - 1) \div 2
      BY <2>1, <2>3
    <3> DEFINE k == (n - 1) \div 2 + 1
    <3>2. k \in 1 .. 18 /\ n \in {2 * k - 1, 2 * k} /\ m \in {2 * k - 1, 2 * k}
      BY <3>1
    <3> HIDE DEF k
    <3>3. (2 * k - 1 \in Wheel!IsRed) # (2 * k \in Wheel!IsRed)
      BY <2>2, <3>2
    <3>4. (n \in Wheel!IsRed) = (m \in Wheel!IsRed)
      BY <1>3 DEF Wheel!RouletteWins
    <3> QED BY <3>2, <3>3, <3>4
  <2>4. \A n \in W : f[n] \in 0 .. 18 - 1
    BY <2>1
  <2> HIDE DEF W, f
  <2> QED BY <2>3, <2>4, CountedBy
<1>4. ASSUME b \in {42, 43, 44} PROVE Most(12)
  <2> DEFINE f == [n \in W |-> n - 1 - 12 * (b - 42)]
  <2>1. (\A n \in W : f[n] \in 0 .. 12 - 1) /\ \A n, m \in W : f[n] = f[m] => n = m
    BY <1>4 DEF Wheel!RouletteWins
  <2> HIDE DEF W, f
  <2> QED BY <2>1, CountedBy
<1>5. ASSUME b \in {45, 46, 47} PROVE Most(12)
  <2> DEFINE f == [n \in W |-> (n - 1) \div 3]
  <2>1. (\A n \in W : f[n] \in 0 .. 12 - 1) /\ \A n, m \in W : f[n] = f[m] => n = m
    BY <1>5 DEF Wheel!RouletteWins
  <2> HIDE DEF W, f
  <2> QED BY <2>1, CountedBy
<1>6. ASSUME b \notin 38 .. 49 PROVE Most(1)
  <2> DEFINE f == [n \in W |-> 0]
  <2>1. (\A n \in W : f[n] \in 0 .. 1 - 1) /\ \A n, m \in W : f[n] = f[m] => n = m
    BY <1>6 DEF Wheel!RouletteWins
  <2> HIDE DEF W, f
  <2> QED BY <2>1, CountedBy
<1> HIDE DEF W
<1> QED BY <1>1, <1>2, <1>3, <1>4, <1>5, <1>6 DEF W

LEMMA WheelCounts == ASSUME NEW S PROVE Wheel!Cardinality(S) = Cardinality(S)
  BY DEF Wheel!Cardinality, Cardinality

LEMMA RouletteEdge == ASSUME NEW b \in 1 .. 49 PROVE Wheel!RouletteReturn(b) <= 37
<1> DEFINE W == Wheel!RouletteWins(b)
           S == {n \in Wheel!Pockets : Wheel!RouletteRate(n, b) > 0}
<1>1. S \in SUBSET W
  BY DEF Wheel!RouletteRate
<1>2. /\ IsFiniteSet(W) /\ Cardinality(W) \in Nat
      /\ Cardinality(W) <= IF b \in 38 .. 41 \cup 48 .. 49 THEN 18 ELSE IF b \in 42 .. 47 THEN 12 ELSE 1
  BY RouletteCounted
<1>3. IsFiniteSet(S) /\ Cardinality(S) <= Cardinality(W)
  <2> HIDE DEF W, S
  <2> QED BY <1>1, <1>2, FS_Subset
<1>4. Cardinality(S) \in Nat
  BY <1>3, FS_CardinalityType
<1> DEFINE c == Cardinality(S)
           p == Wheel!RoulettePays(b)
<1>5. Wheel!RouletteReturn(b) = p * c
  BY WheelCounts, Zenon DEF Wheel!RouletteReturn
<1>6. p = IF b \in 38 .. 41 \cup 48 .. 49 THEN 2 ELSE IF b \in 42 .. 47 THEN 3 ELSE 36
  BY DEF Wheel!RoulettePays
<1>7. c \in Nat /\ c <= IF b \in 38 .. 41 \cup 48 .. 49 THEN 18 ELSE IF b \in 42 .. 47 THEN 12 ELSE 1
  <2> HIDE DEF S, W
  <2> QED BY <1>2, <1>3, <1>4
<1> HIDE DEF c, p
<1> QED BY <1>5, <1>6, <1>7

-----------------------------------------------------------------------------
(* The dice of a throw, from 0, are its digits to base six.                *)
Low(n) == n % 6
Mid(n) == (n \div 6) % 6
High(n) == (n \div 36) % 6

LEMMA Digits ==
    ASSUME NEW n \in 0 .. 215
    PROVE  /\ Low(n) \in 0 .. 5 /\ Mid(n) \in 0 .. 5 /\ High(n) \in 0 .. 5
           /\ n = Low(n) + 6 * Mid(n) + 36 * High(n)
           /\ Wheel!Dices(n) = <<Low(n) + 1, Mid(n) + 1, High(n) + 1>>
  BY DEF Low, Mid, High, Wheel!Dices

Spots(n) == Low(n) + Mid(n) + High(n)

LEMMA SpotsCounted ==
    ASSUME NEW n \in 0 .. 215
    PROVE  Wheel!Sum3(Wheel!Dices(n)) = Spots(n) + 3 /\ Spots(n) \in 0 .. 15
<1>1. Wheel!Dices(n) = <<Low(n) + 1, Mid(n) + 1, High(n) + 1>> /\ Low(n) \in 0 .. 5 /\ Mid(n) \in 0 .. 5 /\ High(n) \in 0 .. 5
  BY Digits
<1> DEFINE x == Low(n)
           y == Mid(n)
           z == High(n)
<1> HIDE DEF x, y, z
<1>2. Wheel!Sum3(<<x + 1, y + 1, z + 1>>) = x + y + z + 3
  <2>1. x \in Int /\ y \in Int /\ z \in Int
    BY <1>1 DEF x, y, z
  <2> QED BY <2>1 DEF Wheel!Sum3
<1> QED BY <1>1, <1>2 DEF x, y, z, Spots

(* Throws of a sum are numbered by two of their dice: by the sum of the    *)
(* two, and within it.                                                     *)
RankBase == [w \in 0 .. 7 |-> IF w = 7 THEN 26 ELSE (w * (w + 1)) \div 2]
RankOf(w, y) == RankBase[w] + (IF w = 6 THEN y - 1 ELSE IF w = 7 THEN y - 2 ELSE y)
MostThrows == [t \in 0 .. 7 |-> IF t = 7 THEN 30 ELSE IF t = 6 THEN 26 ELSE ((t + 1) * (t + 2)) \div 2]

LEMMA Ranked ==
    ASSUME NEW w \in 0 .. 7, NEW y \in 0 .. 5, w - y \in 0 .. 5
    PROVE  /\ RankOf(w, y) \in RankBase[w] .. MostThrows[w] - 1
           /\ \A v \in 0 .. 7, u \in 0 .. 5 : v - u \in 0 .. 5 /\ RankOf(v, u) = RankOf(w, y) => v = w /\ u = y
           /\ \A t \in w .. 7 : MostThrows[w] <= MostThrows[t]
<1>1. /\ RankBase[0] = 0 /\ RankBase[1] = 1 /\ RankBase[2] = 3 /\ RankBase[3] = 6
      /\ RankBase[4] = 10 /\ RankBase[5] = 15 /\ RankBase[6] = 21 /\ RankBase[7] = 26
  BY DEF RankBase
<1>2. /\ MostThrows[0] = 1 /\ MostThrows[1] = 3 /\ MostThrows[2] = 6 /\ MostThrows[3] = 10
      /\ MostThrows[4] = 15 /\ MostThrows[5] = 21 /\ MostThrows[6] = 26 /\ MostThrows[7] = 30
  BY DEF MostThrows
<1>3. \A v \in 0 .. 7, u \in 0 .. 5 : v - u \in 0 .. 5 => RankOf(v, u) \in RankBase[v] .. MostThrows[v] - 1
  BY <1>1, <1>2 DEF RankOf
<1>4. \A v \in 0 .. 6 : MostThrows[v] = RankBase[v + 1]
  BY <1>1, <1>2
<1>5. \A v \in 0 .. 7 : RankBase[v] \in Int /\ MostThrows[v] \in Int
  BY <1>1, <1>2
<1>6. \A v \in 0 .. 7, t \in 0 .. 7 : v < t => MostThrows[v] <= RankBase[t] /\ MostThrows[v] <= MostThrows[t]
  BY <1>1, <1>2
<1>7. ASSUME NEW v \in 0 .. 7, NEW u \in 0 .. 5, v - u \in 0 .. 5, RankOf(v, u) = RankOf(w, y) PROVE v = w /\ u = y
  <2>1. RankOf(v, u) \in RankBase[v] .. MostThrows[v] - 1 /\ RankOf(w, y) \in RankBase[w] .. MostThrows[w] - 1
    BY <1>3, <1>7
  <2>2. v = w
    <3>1. ~(v < w)
      BY <1>5, <1>6, <1>7, <2>1
    <3>2. ~(w < v)
      BY <1>5, <1>6, <1>7, <2>1
    <3> QED BY <3>1, <3>2
  <2>3. u = y
    BY <1>5, <1>7, <2>2 DEF RankOf
  <2> QED BY <2>2, <2>3
<1>8. \A t \in w .. 7 : MostThrows[w] <= MostThrows[t]
  BY <1>5, <1>6
<1> QED BY <1>3, <1>7, <1>8

LEMMA SumsFew ==
    ASSUME NEW t \in 0 .. 7, NEW S, S \subseteq 0 .. 215, \A n \in S : Spots(n) = t
    PROVE  IsFiniteSet(S) /\ Cardinality(S) \in Nat /\ Cardinality(S) <= MostThrows[t]
<1> DEFINE f == [n \in S |-> RankOf(Mid(n) + High(n), Mid(n))]
<1>1. ASSUME NEW n \in S
      PROVE  /\ Low(n) \in 0 .. 5 /\ Mid(n) \in 0 .. 5 /\ High(n) \in 0 .. 5
             /\ n = Low(n) + 6 * Mid(n) + 36 * High(n) /\ Low(n) + Mid(n) + High(n) = t
  BY Digits DEF Spots
<1>2. MostThrows[t] \in Nat
  BY DEF MostThrows
<1>3. ASSUME NEW n \in S PROVE Mid(n) + High(n) \in 0 .. t /\ (Mid(n) + High(n)) - Mid(n) \in 0 .. 5
  BY <1>1
<1>4. ASSUME NEW n \in S PROVE f[n] \in 0 .. MostThrows[t] - 1
  <2> DEFINE w == Mid(n) + High(n)
             y == Mid(n)
  <2>1. w \in 0 .. t /\ w \in 0 .. 7 /\ y \in 0 .. 5 /\ w - y \in 0 .. 5
    BY <1>1, <1>3
  <2> HIDE DEF w, y
  <2>2. RankOf(w, y) \in RankBase[w] .. MostThrows[w] - 1 /\ MostThrows[w] <= MostThrows[t]
    <3>1. t \in w .. 7
      BY <2>1
    <3>2. /\ RankOf(w, y) \in RankBase[w] .. MostThrows[w] - 1
          /\ \A s \in w .. 7 : MostThrows[w] <= MostThrows[s]
      BY <2>1, Ranked
    <3> QED BY <3>1, <3>2
  <2>3. RankBase[w] \in Nat /\ MostThrows[w] \in Nat
    BY <2>1 DEF RankBase, MostThrows
  <2>4. RankOf(w, y) \in 0 .. MostThrows[t] - 1
    BY <1>2, <2>2, <2>3
  <2> QED BY <2>4 DEF w, y
<1>5. ASSUME NEW n \in S, NEW m \in S, f[n] = f[m] PROVE n = m
  <2>1. RankOf(Mid(n) + High(n), Mid(n)) = RankOf(Mid(m) + High(m), Mid(m))
    BY <1>5
  <2>2. Mid(n) + High(n) = Mid(m) + High(m) /\ Mid(n) = Mid(m)
    <3> DEFINE v == Mid(n) + High(n)
               u == Mid(n)
               w == Mid(m) + High(m)
               y == Mid(m)
    <3>1. v \in 0 .. 7 /\ u \in 0 .. 5 /\ v - u \in 0 .. 5 /\ w \in 0 .. 7 /\ y \in 0 .. 5 /\ w - y \in 0 .. 5
      BY <1>1, <1>3
    <3>2. RankOf(v, u) = RankOf(w, y)
      BY <2>1
    <3> HIDE DEF v, u, w, y
    <3>3. v = w /\ u = y
      BY <3>1, <3>2, Ranked
    <3> QED BY <3>3 DEF v, u, w, y
  <2> QED BY <1>1, <2>2
<1> HIDE DEF f
<1> QED BY <1>2, <1>4, <1>5, CountedBy

(* The other side of every die: sums above ten mirror those below.         *)
Mirror(n) == 215 - n
LEMMA Mirrored ==
    ASSUME NEW n \in 0 .. 215
    PROVE  Mirror(n) \in 0 .. 215 /\ Spots(Mirror(n)) = 15 - Spots(n)
  BY DEF Mirror, Spots, Low, Mid, High

LEMMA SumsCounted ==
    ASSUME NEW t \in 0 .. 15, NEW S, S \subseteq 0 .. 215, \A n \in S : Spots(n) = t
    PROVE  /\ IsFiniteSet(S) /\ Cardinality(S) \in Nat
           /\ Cardinality(S) <= MostThrows[IF t <= 7 THEN t ELSE 15 - t]
<1> DEFINE most == MostThrows[IF t <= 7 THEN t ELSE 15 - t]
<1>1. ASSUME t <= 7 PROVE IsFiniteSet(S) /\ Cardinality(S) \in Nat /\ Cardinality(S) <= most
  <2>1. t \in 0 .. 7 /\ most = MostThrows[t]
    BY <1>1
  <2>2. IsFiniteSet(S) /\ Cardinality(S) \in Nat /\ Cardinality(S) <= MostThrows[t]
    BY <2>1, SumsFew
  <2> HIDE DEF most
  <2> QED BY <2>1, <2>2
<1>2. CASE t > 7
  <2> DEFINE M == {Mirror(n) : n \in S}
             f == [n \in S |-> Mirror(n)]
  <2>1. M \subseteq 0 .. 215 /\ \A m \in M : Spots(m) = 15 - t
    BY Mirrored
  <2>2. 15 - t \in 0 .. 7
    BY <1>2
  <2>3. IsFiniteSet(M) /\ Cardinality(M) \in Nat /\ Cardinality(M) <= MostThrows[15 - t]
    <3> HIDE DEF M
    <3> QED BY <2>1, <2>2, SumsFew
  <2>4. f \in Injection(S, M)
    <3>1. \A n, m \in S : Mirror(n) = Mirror(m) => n = m
      BY DEF Mirror
    <3>2. f \in [S -> M] /\ DOMAIN f = S
      OBVIOUS
    <3>3. \A n, m \in S : f[n] = f[m] => n = m
      BY <3>1
    <3> HIDE DEF f, M
    <3> QED BY <3>2, <3>3 DEF Injection, IsInjective
  <2>5. IsFiniteSet(S) /\ Cardinality(S) <= Cardinality(M)
    <3> HIDE DEF f, M
    <3> QED BY <2>3, <2>4, FS_Injection
  <2>6. Cardinality(S) \in Nat
    BY <2>5, FS_CardinalityType
  <2>7. MostThrows[15 - t] \in Nat
    BY <2>2 DEF MostThrows
  <2> HIDE DEF M
  <2> QED BY <1>2, <2>3, <2>5, <2>6, <2>7
<1> QED BY <1>1, <1>2

-----------------------------------------------------------------------------
(* Half the throws are large, and half have an odd sum.                    *)
LEMMA HalfLarge ==
    ASSUME NEW S, S \subseteq 0 .. 215, (\A n \in S : Spots(n) > 7) \/ (\A n \in S : Spots(n) <= 7)
    PROVE  IsFiniteSet(S) /\ Cardinality(S) \in Nat /\ Cardinality(S) <= 108
<1> DEFINE f == [n \in S |-> IF n <= 107 THEN n ELSE Mirror(n)]
<1>1. \A n \in S : f[n] \in 0 .. 108 - 1
  BY DEF Mirror
<1>2. ASSUME NEW n \in S, NEW m \in S, f[n] = f[m] PROVE n = m
  <2>1. n = m \/ n = Mirror(m)
    BY <1>2 DEF Mirror
  <2>2. n # Mirror(m)
    <3>1. Spots(Mirror(m)) = 15 - Spots(m) /\ Spots(m) \in 0 .. 15
      BY Mirrored, SpotsCounted
    <3> QED BY <3>1
  <2> QED BY <2>1, <2>2
<1> HIDE DEF f
<1> QED BY <1>1, <1>2, CountedBy

LEMMA HalfOdd ==
    ASSUME NEW S, S \subseteq 0 .. 215, NEW p \in 0 .. 1, \A n \in S : Spots(n) % 2 = p
    PROVE  IsFiniteSet(S) /\ Cardinality(S) \in Nat /\ Cardinality(S) <= 108
<1> DEFINE f == [n \in S |-> n \div 2]
<1>1. \A n \in S : f[n] \in 0 .. 108 - 1
  OBVIOUS
<1>2. ASSUME NEW n \in S, NEW m \in S, f[n] = f[m] PROVE n = m
  <2>1. ASSUME NEW k \in 0 .. 215, k + 1 \in 0 .. 215, k % 2 = 0 PROVE Spots(k + 1) = Spots(k) + 1
    <3>1. (k + 1) % 6 = (k % 6) + 1 /\ (k + 1) \div 6 = k \div 6
      BY <2>1
    <3>2. (k + 1) \div 36 = k \div 36
      BY <2>1
    <3>3. Low(k + 1) = Low(k) + 1 /\ Mid(k + 1) = Mid(k) /\ High(k + 1) = High(k)
      BY <3>1, <3>2 DEF Low, Mid, High
    <3>4. Low(k) \in Int /\ Mid(k) \in Int /\ High(k) \in Int
      BY DEF Low, Mid, High
    <3> QED BY <3>3, <3>4 DEF Spots
  <2>2. n \div 2 = m \div 2
    BY <1>2
  <2>3. n = m \/ (n = m + 1 /\ m % 2 = 0) \/ (m = n + 1 /\ n % 2 = 0)
    BY <2>2
  <2>4. n # m + 1 \/ m % 2 # 0
    <3>1. Spots(m) \in Int /\ Spots(m) % 2 = p /\ Spots(n) % 2 = p
      BY SpotsCounted
    <3> QED BY <2>1, <3>1
  <2>5. m # n + 1 \/ n % 2 # 0
    <3>1. Spots(n) \in Int /\ Spots(m) % 2 = p /\ Spots(n) % 2 = p
      BY SpotsCounted
    <3> QED BY <2>1, <3>1
  <2> QED BY <2>3, <2>4, <2>5
<1> HIDE DEF f
<1> QED BY <1>1, <1>2, CountedBy

(* Two of the dice are the same in at most half the throws, all three in   *)
(* six, and three in a row in twenty-four.                                 *)
LEMMA PairsCounted ==
    ASSUME NEW S, S \subseteq 0 .. 215,
           \A n \in S : Low(n) = Mid(n) \/ Mid(n) = High(n) \/ Low(n) = High(n)
    PROVE  IsFiniteSet(S) /\ Cardinality(S) \in Nat /\ Cardinality(S) <= 108
<1> DEFINE A == {n \in S : Low(n) = Mid(n)}
           B == {n \in S : Mid(n) = High(n)}
           C == {n \in S : Low(n) = High(n)}
           Few(T) == IsFiniteSet(T) /\ Cardinality(T) \in Nat /\ Cardinality(T) <= 36
<1>0. ASSUME NEW n \in S
      PROVE  /\ Low(n) \in 0 .. 5 /\ Mid(n) \in 0 .. 5 /\ High(n) \in 0 .. 5
             /\ n = Low(n) + 6 * Mid(n) + 36 * High(n)
  BY Digits
<1>1. Few(A)
  <2> DEFINE f == [n \in A |-> Mid(n) + 6 * High(n)]
  <2>1. (\A n \in A : f[n] \in 0 .. 36 - 1) /\ \A n, m \in A : f[n] = f[m] => n = m
    BY <1>0
  <2> HIDE DEF A, f
  <2> QED BY <2>1, CountedBy
<1>2. Few(B)
  <2> DEFINE f == [n \in B |-> Low(n) + 6 * Mid(n)]
  <2>1. (\A n \in B : f[n] \in 0 .. 36 - 1) /\ \A n, m \in B : f[n] = f[m] => n = m
    BY <1>0
  <2> HIDE DEF B, f
  <2> QED BY <2>1, CountedBy
<1>3. Few(C)
  <2> DEFINE f == [n \in C |-> Low(n) + 6 * Mid(n)]
  <2>1. (\A n \in C : f[n] \in 0 .. 36 - 1) /\ \A n, m \in C : f[n] = f[m] => n = m
    BY <1>0
  <2> HIDE DEF C, f
  <2> QED BY <2>1, CountedBy
<1>4. S = (A \cup B) \cup C
  OBVIOUS
<1> HIDE DEF A, B, C
<1>5. IsFiniteSet(A \cup B) /\ Cardinality(A \cup B) <= 72 /\ Cardinality(A \cup B) \in Nat
  <2>1. IsFiniteSet(A \cup B) /\ Cardinality(A \cup B) = Cardinality(A) + Cardinality(B) - Cardinality(A \cap B)
    BY <1>1, <1>2, FS_Union
  <2>2. Cardinality(A \cap B) \in Nat /\ Cardinality(A \cup B) \in Nat
    BY <1>1, <2>1, FS_Intersection, FS_CardinalityType
  <2> QED BY <1>1, <1>2, <2>1, <2>2
<1>6. /\ IsFiniteSet((A \cup B) \cup C)
      /\ Cardinality((A \cup B) \cup C) = Cardinality(A \cup B) + Cardinality(C) - Cardinality((A \cup B) \cap C)
  BY <1>3, <1>5, FS_Union
<1>7. Cardinality((A \cup B) \cap C) \in Nat /\ Cardinality((A \cup B) \cup C) \in Nat
  BY <1>5, <1>6, FS_Intersection, FS_CardinalityType
<1> QED BY <1>3, <1>4, <1>5, <1>6, <1>7

LEMMA ThreesCounted ==
    ASSUME NEW S, S \subseteq 0 .. 215, \A n \in S : Low(n) = Mid(n) /\ Mid(n) = High(n)
    PROVE  IsFiniteSet(S) /\ Cardinality(S) \in Nat /\ Cardinality(S) <= 6
<1> DEFINE f == [n \in S |-> Low(n)]
<1>0. ASSUME NEW n \in S PROVE Low(n) \in 0 .. 5 /\ n = Low(n) + 6 * Mid(n) + 36 * High(n)
  BY Digits
<1>1. (\A n \in S : f[n] \in 0 .. 6 - 1) /\ \A n, m \in S : f[n] = f[m] => n = m
  BY <1>0
<1> HIDE DEF f
<1> QED BY <1>1, CountedBy

InARow(x, y, z, v) == {x, y, z} = {v, v + 1, v + 2}
LEMMA StraightsCounted ==
    ASSUME NEW S, S \subseteq 0 .. 215, NEW low,
           \A n \in S : low[n] \in 0 .. 3 /\ InARow(Low(n), Mid(n), High(n), low[n])
    PROVE  IsFiniteSet(S) /\ Cardinality(S) \in Nat /\ Cardinality(S) <= 24
<1> DEFINE order(n) == 3 * (Low(n) - low[n]) + (Mid(n) - low[n])
           f == [n \in S |-> 6 * low[n] + (IF order(n) > 4 THEN order(n) - 2 ELSE order(n) - 1)]
<1>0. ASSUME NEW n \in S
      PROVE  /\ Low(n) \in 0 .. 5 /\ Mid(n) \in 0 .. 5 /\ High(n) \in 0 .. 5 /\ low[n] \in 0 .. 3
             /\ n = Low(n) + 6 * Mid(n) + 36 * High(n)
             /\ Low(n) - low[n] \in 0 .. 2 /\ Mid(n) - low[n] \in 0 .. 2 /\ Low(n) # Mid(n)
             /\ High(n) = 3 * low[n] + 3 - Low(n) - Mid(n)
  <2>1. Low(n) \in 0 .. 5 /\ Mid(n) \in 0 .. 5 /\ High(n) \in 0 .. 5 /\ n = Low(n) + 6 * Mid(n) + 36 * High(n)
    BY Digits
  <2> DEFINE x == Low(n)
             y == Mid(n)
             z == High(n)
             v == low[n]
  <2>2. v \in 0 .. 3 /\ {x, y, z} = {v, v + 1, v + 2}
    BY DEF InARow
  <2>3. x \in 0 .. 5 /\ y \in 0 .. 5 /\ z \in 0 .. 5
    BY <2>1
  <2> HIDE DEF x, y, z, v
  <2>4. x - v \in 0 .. 2 /\ y - v \in 0 .. 2 /\ x # y /\ z = 3 * v + 3 - x - y
    <3>1. \A w : w \in {x, y, z} <=> w \in {v, v + 1, v + 2}
      BY <2>2, Zenon
    <3>2. (x = v \/ x = v + 1 \/ x = v + 2) /\ (y = v \/ y = v + 1 \/ y = v + 2) /\ (z = v \/ z = v + 1 \/ z = v + 2)
      BY <3>1
    <3>3. (v = x \/ v = y \/ v = z) /\ (v + 1 = x \/ v + 1 = y \/ v + 1 = z) /\ (v + 2 = x \/ v + 2 = y \/ v + 2 = z)
      BY <3>1
    <3> QED BY <2>2, <2>3, <3>2, <3>3
  <2> QED BY <2>1, <2>2, <2>4 DEF x, y, z, v
<1>1. ASSUME NEW n \in S PROVE f[n] \in 6 * low[n] .. 6 * low[n] + 5 /\ f[n] \in 0 .. 24 - 1
  BY <1>0
<1>2. ASSUME NEW n \in S, NEW m \in S, f[n] = f[m] PROVE n = m
  <2>1. low[n] = low[m]
    BY <1>0, <1>1, <1>2
  <2>2. order(n) = order(m)
    BY <1>0, <1>2, <2>1
  <2>3. Low(n) = Low(m) /\ Mid(n) = Mid(m)
    BY <1>0, <2>1, <2>2
  <2> QED BY <1>0, <2>1, <2>3
<1> HIDE DEF f
<1> QED BY <1>1, <1>2, CountedBy

-----------------------------------------------------------------------------
(* The dice in order are the dice.                                         *)
LEMMA WheelAscends == ASSUME NEW s PROVE Wheel!Ascending(s) = Ascending(s)
<1>1. \A S : Wheel!Cardinality(S) = Cardinality(S)
  BY WheelCounts
<1>2. \A S : Wheel!Min(S) = Min(S)
  BY DEF Wheel!Min, Min
<1>3. Wheel!ToSet(s) = ToSet(s)
  BY DEF Wheel!ToSet, ToSet
<1> QED BY <1>1, <1>2, <1>3, Zenon DEF Wheel!Ascending, Ascending

LEMMA ThrowSorted ==
    ASSUME NEW n \in 0 .. 215
    PROVE  \E x, y, z \in Int :
              /\ x <= y /\ y <= z
              /\ {Low(n) + 1, Mid(n) + 1, High(n) + 1} = {x, y, z}
              /\ LET s == Wheel!Ordered(Wheel!Dices(n)) IN s[1] = x /\ s[2] = y /\ s[3] = z
<1> DEFINE d == <<Low(n) + 1, Mid(n) + 1, High(n) + 1>>
           s == Ascending(d)
<1>1. Low(n) \in 0 .. 5 /\ Mid(n) \in 0 .. 5 /\ High(n) \in 0 .. 5 /\ Wheel!Dices(n) = d
  BY Digits
<1>2. DOMAIN d = 1 .. 3 /\ \A i \in 1 .. 3 : d[i] \in Int
  BY <1>1
<1>3. ToSet(d) = {Low(n) + 1, Mid(n) + 1, High(n) + 1}
  BY DEF ToSet
<1>4. IsSortOf(s, d, 3)
  <2> HIDE DEF d
  <2> QED BY <1>2, AscendingSorts
<1>5. Wheel!Ordered(Wheel!Dices(n)) = s
  <2> HIDE DEF d
  <2> QED BY <1>1, WheelAscends DEF Wheel!Ordered
<1> HIDE DEF s, d
<1>6. \A k \in 1 .. 3 : s[k] \in ToSet(d) /\ s[k] \in Int
  BY <1>4 DEF IsSortOf
<1>7. s[1] <= s[2] /\ s[2] <= s[3]
  BY <1>4 DEF IsSortOf
<1>8. ToSet(d) = {s[1], s[2], s[3]}
  <2>1. \A v \in ToSet(d) : \E k \in 1 .. 3 : s[k] = v
    BY <1>4 DEF IsSortOf
  <2>2. \A v \in ToSet(d) : v = s[1] \/ v = s[2] \/ v = s[3]
    BY <2>1
  <2>3. s[1] \in ToSet(d) /\ s[2] \in ToSet(d) /\ s[3] \in ToSet(d)
    BY <1>6
  <2> QED BY <2>2, <2>3
<1>9. s[1] \in Int /\ s[2] \in Int /\ s[3] \in Int
  BY <1>6
<1> QED BY <1>3, <1>5, <1>7, <1>8, <1>9

(* What the bets on the dice in order win on.                              *)
LEMMA ThrowShapes ==
    ASSUME NEW n \in 0 .. 215
    PROVE  LET s == Wheel!Ordered(Wheel!Dices(n))
           IN  /\ Wheel!HasPair(s) => Low(n) = Mid(n) \/ Mid(n) = High(n) \/ Low(n) = High(n)
               /\ Wheel!IsThree(s) => Low(n) = Mid(n) /\ Mid(n) = High(n)
               /\ Wheel!IsStraight(s) => s[1] - 1 \in 0 .. 3 /\ InARow(Low(n), Mid(n), High(n), s[1] - 1)
<1> DEFINE s == Wheel!Ordered(Wheel!Dices(n))
           a == Low(n) + 1
           b == Mid(n) + 1
           c == High(n) + 1
<1>1. PICK x, y, z \in Int : /\ x <= y /\ y <= z /\ {a, b, c} = {x, y, z}
                            /\ s[1] = x /\ s[2] = y /\ s[3] = z
  BY ThrowSorted
<1>2. a \in 1 .. 6 /\ b \in 1 .. 6 /\ c \in 1 .. 6 /\ Low(n) = a - 1 /\ Mid(n) = b - 1 /\ High(n) = c - 1
  <2>1. Low(n) \in 0 .. 5 /\ Mid(n) \in 0 .. 5 /\ High(n) \in 0 .. 5
    BY Digits
  <2> QED BY <2>1
<1> HIDE DEF s, a, b, c
<1>3. (a = x \/ a = y \/ a = z) /\ (b = x \/ b = y \/ b = z) /\ (c = x \/ c = y \/ c = z)
  <2>1. a \in {x, y, z} /\ b \in {x, y, z} /\ c \in {x, y, z}
    BY <1>1
  <2> QED BY <2>1
<1>4. (x = a \/ x = b \/ x = c) /\ (y = a \/ y = b \/ y = c) /\ (z = a \/ z = b \/ z = c)
  <2>1. x \in {a, b, c} /\ y \in {a, b, c} /\ z \in {a, b, c}
    BY <1>1
  <2> QED BY <2>1
<1>5. Wheel!HasPair(s) => Low(n) = Mid(n) \/ Mid(n) = High(n) \/ Low(n) = High(n)
  <2>1. Wheel!HasPair(s) => x = y \/ y = z
    BY <1>1 DEF Wheel!HasPair, Wheel!IsPair
  <2>2. x = y \/ y = z => a = b \/ b = c \/ a = c
    BY <1>3
  <2> QED BY <1>2, <2>1, <2>2
<1>6. Wheel!IsThree(s) => Low(n) = Mid(n) /\ Mid(n) = High(n)
  <2>1. Wheel!IsThree(s) => x = y /\ y = z
    BY <1>1 DEF Wheel!IsThree
  <2>2. x = y /\ y = z => a = b /\ b = c
    BY <1>3
  <2> QED BY <1>2, <2>1, <2>2
<1>7. ASSUME Wheel!IsStraight(s)
      PROVE  s[1] - 1 \in 0 .. 3 /\ InARow(Low(n), Mid(n), High(n), s[1] - 1)
  <2>1. y = x + 1 /\ z = x + 2
    BY <1>1, <1>7 DEF Wheel!IsStraight
  <2>2. x \in 1 .. 4
    BY <1>2, <1>4, <2>1
  <2>3. {a - 1, b - 1, c - 1} = {x - 1, x - 1 + 1, x - 1 + 2}
    <3>1. a - 1 \in {x - 1, x - 1 + 1, x - 1 + 2} /\ b - 1 \in {x - 1, x - 1 + 1, x - 1 + 2} /\ c - 1 \in {x - 1, x - 1 + 1, x - 1 + 2}
      BY <1>2, <1>3, <2>1, <2>2
    <3>2. x - 1 \in {a - 1, b - 1, c - 1} /\ x - 1 + 1 \in {a - 1, b - 1, c - 1} /\ x - 1 + 2 \in {a - 1, b - 1, c - 1}
      <4>1. x - 1 \in {a - 1, b - 1, c - 1} BY <1>4
      <4>2. y - 1 \in {a - 1, b - 1, c - 1} /\ y - 1 = x - 1 + 1 BY <1>1, <1>4, <2>1
      <4>3. z - 1 \in {a - 1, b - 1, c - 1} /\ z - 1 = x - 1 + 2 BY <1>1, <1>4, <2>1
      <4> QED BY <4>1, <4>2, <4>3
    <3> QED BY <3>1, <3>2
  <2>4. x - 1 \in 0 .. 3
    BY <2>2
  <2> QED BY <1>1, <1>2, <2>3, <2>4 DEF InARow
<1> QED BY <1>5, <1>6, <1>7 DEF s

-----------------------------------------------------------------------------
(* On every bet the throws that win pay back at most what is staked on all *)
(* of them.                                                                *)
LEMMA Quick3Edge == ASSUME NEW b \in 3 .. 25 PROVE Wheel!Quick3Return(b) <= 21600
<1> DEFINE S == {n \in Wheel!Throws : Wheel!Quick3Rate(n, b) > 0}
           c == Cardinality(S)
           p == Wheel!Quick3Pays(b)
           Most(k) == c \in Nat /\ c <= k
<1>1. Wheel!Quick3Return(b) = p * c
  BY WheelCounts, Zenon DEF Wheel!Quick3Return
<1>2. \A n \in S : n \in 0 .. 215 /\ Wheel!Quick3Wins(Wheel!Dices(n), b)
  BY DEF Wheel!Throws, Wheel!Quick3Rate
<1>3. S \subseteq 0 .. 215
  BY <1>2
<1>0. ASSUME NEW n \in S
      PROVE  n \in 0 .. 215 /\ Wheel!Sum3(Wheel!Dices(n)) = Spots(n) + 3 /\ Spots(n) \in 0 .. 15
  BY <1>3, SpotsCounted
<1>4. ASSUME b \in 3 .. 18
      PROVE  /\ Most(MostThrows[IF b - 3 <= 7 THEN b - 3 ELSE 15 - (b - 3)])
             /\ p = Wheel!SumPayRates[b]
  <2>1. p = Wheel!SumPayRates[b]
    BY <1>4 DEF Wheel!Quick3Pays
  <2>2. \A n \in S : Spots(n) = b - 3
    <3>1. \A n \in S : Wheel!Sum3(Wheel!Dices(n)) = b
      BY <1>2, <1>4 DEF Wheel!Quick3Wins
    <3> HIDE DEF S
    <3> QED BY <1>0, <1>4, <3>1
  <2>3. b - 3 \in 0 .. 15
    BY <1>4
  <2> DEFINE t == b - 3
  <2>4. t \in 0 .. 15 /\ \A n \in S : Spots(n) = t
    BY <2>2, <2>3
  <2> HIDE DEF S, t
  <2>5. Cardinality(S) \in Nat /\ Cardinality(S) <= MostThrows[IF t <= 7 THEN t ELSE 15 - t]
    BY <1>3, <2>4, SumsCounted
  <2> HIDE DEF p
  <2> QED BY <2>1, <2>5 DEF t
<1>5. ASSUME b \in {19, 20} PROVE Most(108) /\ p = 196
  <2>1. p = 196
    BY <1>5 DEF Wheel!Quick3Pays
  <2>2. (\A n \in S : Spots(n) > 7) \/ (\A n \in S : Spots(n) <= 7)
    <3>1. CASE b = 19
      <4>1. \A n \in S : Wheel!Sum3(Wheel!Dices(n)) > 10
        BY <1>2, <3>1 DEF Wheel!Quick3Wins
      <4> HIDE DEF S
      <4> QED BY <1>0, <4>1
    <3>2. CASE b = 20
      <4>1. \A n \in S : Wheel!Sum3(Wheel!Dices(n)) <= 10
        BY <1>2, <3>2 DEF Wheel!Quick3Wins
      <4> HIDE DEF S
      <4> QED BY <1>0, <4>1
    <3> QED BY <1>5, <3>1, <3>2
  <2> HIDE DEF S, p
  <2> QED BY <1>3, <2>1, <2>2, HalfLarge
<1>6. ASSUME b \in {21, 22} PROVE Most(108) /\ p = 196
  <2>1. p = 196
    BY <1>6 DEF Wheel!Quick3Pays
  <2>2. \E odd \in 0 .. 1 : \A n \in S : Spots(n) % 2 = odd
    <3>1. CASE b = 21
      <4>1. \A n \in S : Wheel!Sum3(Wheel!Dices(n)) % 2 = 1
        BY <1>2, <3>1 DEF Wheel!Quick3Wins
      <4> HIDE DEF S
      <4>2. \A n \in S : Spots(n) % 2 = 0
        BY <1>0, <4>1
      <4> QED BY <4>2
    <3>2. CASE b = 22
      <4>1. \A n \in S : Wheel!Sum3(Wheel!Dices(n)) % 2 = 0
        BY <1>2, <3>2 DEF Wheel!Quick3Wins
      <4> HIDE DEF S
      <4>2. \A n \in S : Spots(n) % 2 = 1
        BY <1>0, <4>1
      <4> QED BY <4>2
    <3> QED BY <1>6, <3>1, <3>2
  <2> HIDE DEF S, p
  <2> QED BY <1>3, <2>1, <2>2, HalfOdd
<1>7. ASSUME b = 23 PROVE Most(108) /\ p = 196
  <2>1. p = 196
    BY <1>7 DEF Wheel!Quick3Pays
  <2>2. \A n \in S : Wheel!HasPair(Wheel!Ordered(Wheel!Dices(n)))
    BY <1>2, <1>7 DEF Wheel!Quick3Wins
  <2> HIDE DEF S, p
  <2>3. \A n \in S : Low(n) = Mid(n) \/ Mid(n) = High(n) \/ Low(n) = High(n)
    BY <1>3, <2>2, ThrowShapes
  <2> QED BY <1>3, <2>1, <2>3, PairsCounted
<1>8. ASSUME b = 24 PROVE Most(24) /\ p = 792
  <2>1. p = 792
    BY <1>8 DEF Wheel!Quick3Pays
  <2>2. \A n \in S : Wheel!IsStraight(Wheel!Ordered(Wheel!Dices(n)))
    BY <1>2, <1>8 DEF Wheel!Quick3Wins
  <2> DEFINE low == [n \in S |-> Wheel!Ordered(Wheel!Dices(n))[1] - 1]
  <2>3. ASSUME NEW n \in S PROVE low[n] \in 0 .. 3 /\ InARow(Low(n), Mid(n), High(n), low[n])
    <3>1. n \in 0 .. 215
      BY <1>3
    <3>2. low[n] = Wheel!Ordered(Wheel!Dices(n))[1] - 1
      OBVIOUS
    <3> HIDE DEF S, low
    <3> QED BY <2>2, <3>1, <3>2, ThrowShapes
  <2> HIDE DEF S, p, low
  <2> QED BY <1>3, <2>1, <2>3, StraightsCounted
<1>9. ASSUME b = 25 PROVE Most(6) /\ p = 3168
  <2>1. p = 3168
    BY <1>9 DEF Wheel!Quick3Pays
  <2>2. \A n \in S : Wheel!IsThree(Wheel!Ordered(Wheel!Dices(n)))
    BY <1>2, <1>9 DEF Wheel!Quick3Wins
  <2> HIDE DEF S, p
  <2>3. \A n \in S : Low(n) = Mid(n) /\ Mid(n) = High(n)
    BY <1>3, <2>2, ThrowShapes
  <2> QED BY <1>3, <2>1, <2>3, ThreesCounted
<1> HIDE DEF c, p
<1>10. ASSUME NEW b2 \in 3 .. 18
       PROVE  LET most == MostThrows[IF b2 - 3 <= 7 THEN b2 - 3 ELSE 15 - (b2 - 3)]
              IN  most \in Nat /\ Wheel!SumPayRates[b2] \in Nat /\ Wheel!SumPayRates[b2] * most <= 21600
  <2>1. /\ MostThrows[0] = 1 /\ MostThrows[1] = 3 /\ MostThrows[2] = 6 /\ MostThrows[3] = 10
        /\ MostThrows[4] = 15 /\ MostThrows[5] = 21 /\ MostThrows[6] = 26 /\ MostThrows[7] = 30
    BY DEF MostThrows
  <2>2. CASE b2 <= 10
    <3>1. \/ b2 = 3 \/ b2 = 4 \/ b2 = 5 \/ b2 = 6 \/ b2 = 7 \/ b2 = 8 \/ b2 = 9 \/ b2 = 10
      BY <2>2
    <3> QED BY <2>1, <3>1 DEF Wheel!SumPayRates
  <2>3. CASE b2 > 10
    <3>1. \/ b2 = 11 \/ b2 = 12 \/ b2 = 13 \/ b2 = 14 \/ b2 = 15 \/ b2 = 16 \/ b2 = 17 \/ b2 = 18
      BY <2>3
    <3> QED BY <2>1, <3>1 DEF Wheel!SumPayRates
  <2> QED BY <2>2, <2>3
<1>11. CASE b \in 3 .. 18
  <2> DEFINE most == MostThrows[IF b - 3 <= 7 THEN b - 3 ELSE 15 - (b - 3)]
  <2>1. c \in Nat /\ c <= most /\ p = Wheel!SumPayRates[b]
    BY <1>4, <1>11
  <2>2. most \in Nat /\ p \in Nat /\ p * most <= 21600
    BY <1>10, <1>11, <2>1
  <2> HIDE DEF most
  <2>3. p * c <= p * most
    BY <2>1, <2>2
  <2>4. p * c \in Nat /\ p * most \in Nat
    BY <2>1, <2>2
  <2> QED BY <1>1, <2>2, <2>3, <2>4
<1>12. CASE b \in 19 .. 25
  <2>1. b \in {19, 20} \/ b \in {21, 22} \/ b = 23 \/ b = 24 \/ b = 25
    BY <1>12
  <2>2. c \in Nat /\ p \in Nat /\ \/ c <= 108 /\ p = 196
                                  \/ c <= 24 /\ p = 792
                                  \/ c <= 6 /\ p = 3168
    BY <1>5, <1>6, <1>7, <1>8, <1>9, <2>1
  <2> QED BY <1>1, <2>2
<1> QED BY <1>11, <1>12

-----------------------------------------------------------------------------
(* A fold over 1 to n is what its steps come to, one after the other.      *)
LEMMA FoldUnfolds ==
    ASSUME NEW n \in Nat, NEW step, NEW base, NEW Kept, base \in Kept, \A i \in 1 .. n, a \in Kept : step[i][a] \in Kept,
           NEW g, IsFoldOn(g, step, base, 1 .. n)
    PROVE  \E x \in [0 .. n -> Kept] :
              x[0] = base /\ (\A k \in 1 .. n : x[k] = step[k][x[k - 1]]) /\ x[n] = g[1 .. n]
<1> DEFINE x == [k \in 0 .. n |-> g[1 .. k]]
<1>1. g[1 .. 0] = base
  <2>1. 1 .. 0 = {} /\ {} \in SUBSET (1 .. n)
    OBVIOUS
  <2> QED BY <2>1 DEF IsFoldOn
<1>2. ASSUME NEW k \in 1 .. n PROVE g[1 .. k] = step[k][g[1 .. k - 1]]
  <2>1. (1 .. k) \in SUBSET (1 .. n) /\ 1 .. k # {}
    <3>1. \A i \in 1 .. k : i \in 1 .. n
      OBVIOUS
    <3>2. k \in 1 .. k
      OBVIOUS
    <3> QED BY <3>1, <3>2
  <2>2. Max(1 .. k) = k
    BY MaxUpTo
  <2>3. (1 .. k) \ {k} = 1 .. k - 1
    OBVIOUS
  <2> QED BY <2>1, <2>2, <2>3 DEF IsFoldOn
<1>3. x[0] = base /\ (\A k \in 1 .. n : x[k] = step[k][x[k - 1]]) /\ x[n] = g[1 .. n] /\ DOMAIN x = 0 .. n
  BY <1>1, <1>2
<1> DEFINE Good == {k \in 0 .. n : x[k] \in Kept}
<1>4. \A k \in 0 .. n : k \in Good
  <2> HIDE DEF x
  <2>1. 0 \in Good
    BY <1>3
  <2>2. \A k \in 1 .. n : k - 1 \in Good => k \in Good
    BY <1>3
  <2> HIDE DEF Good
  <2> QED BY <2>1, <2>2, CountingUp
<1>5. x \in [0 .. n -> Kept]
  BY <1>4
<1> HIDE DEF x
<1> QED BY <1>3, <1>5

(* The sum of the terms from 1 to n, as the sums of the hands are folded.  *)
IsTermSum(g, term, S) ==
    g = [T \in SUBSET S |-> IF T = {} THEN 0 ELSE g[T \ {Max(T)}] + term[Max(T)]]
IsSumUp(x, term, n) ==
    x \in [0 .. n -> Int] /\ x[0] = 0 /\ \A k \in 1 .. n : x[k] = x[k - 1] + term[k]

LEMMA TermSumExists ==
    ASSUME NEW n \in Nat, NEW term, \A k \in 1 .. n : term[k] \in Int
    PROVE  \E g : IsTermSum(g, term, 1 .. n)
<1> DEFINE S == 1 .. n
           step == [i \in S |-> [a \in Int |-> a + term[i]]]
<1>1. IsFiniteSet(S) /\ \A x \in S : x \in Int
  BY FS_Interval
<1>2. \A i \in S, a \in Int : step[i][a] = a + term[i] /\ step[i][a] \in Int
  OBVIOUS
<1>3. PICK g : IsFoldOn(g, step, 0, S)
  <2> HIDE DEF S, step
  <2> QED BY <1>1, FoldExists
<1>4. \A T \in SUBSET S : g[T] \in Int
  <2> DEFINE Kept == Int
             zero == 0
  <2>1. IsFoldOn(g, step, zero, S) /\ zero \in Kept /\ \A i \in S, a \in Kept : step[i][a] \in Kept
    BY <1>2, <1>3
  <2>2. \A T \in SUBSET S : g[T] \in Kept
    <3> HIDE DEF S, step, Kept, zero
    <3> QED BY <1>1, <2>1, FoldKeeps
  <2> QED BY <2>2
<1>5. ASSUME NEW T \in SUBSET S, T # {}
      PROVE  step[Max(T)][g[T \ {Max(T)}]] = g[T \ {Max(T)}] + term[Max(T)]
  <2>1. Max(T) \in T
    <3>1. IsFiniteSet(T) /\ \A x \in T : x \in Int
      <4> HIDE DEF S
      <4> QED BY <1>1, FS_Subset
    <3> QED BY <1>5, <3>1, MaxIn
  <2>2. g[T \ {Max(T)}] \in Int /\ Max(T) \in S
    BY <1>4, <2>1
  <2> HIDE DEF step
  <2> QED BY <1>2, <2>2
<1>6. IsTermSum(g, term, S)
  <2> HIDE DEF step, S
  <2> QED BY <1>3, <1>5 DEF IsFoldOn, IsTermSum
<1> QED BY <1>6

LEMMA TermSumUnfolds ==
    ASSUME NEW n \in Nat, NEW term, (\A k \in 1 .. n : term[k] \in Int), NEW g, IsTermSum(g, term, 1 .. n)
    PROVE  \E x : IsSumUp(x, term, n) /\ x[n] = g[1 .. n]
<1> DEFINE x == [k \in 0 .. n |-> g[1 .. k]]
<1>1. g[1 .. 0] = 0
  <2>1. 1 .. 0 = {} /\ {} \in SUBSET (1 .. n)
    OBVIOUS
  <2> QED BY <2>1 DEF IsTermSum
<1>2. ASSUME NEW k \in 1 .. n PROVE g[1 .. k] = g[1 .. k - 1] + term[k]
  <2>1. (1 .. k) \in SUBSET (1 .. n) /\ 1 .. k # {}
    <3>1. \A i \in 1 .. k : i \in 1 .. n
      OBVIOUS
    <3>2. k \in 1 .. k
      OBVIOUS
    <3> QED BY <3>1, <3>2
  <2>2. Max(1 .. k) = k
    BY MaxUpTo
  <2>3. (1 .. k) \ {k} = 1 .. k - 1
    OBVIOUS
  <2> QED BY <2>1, <2>2, <2>3 DEF IsTermSum
<1>3. x[0] = 0 /\ (\A k \in 1 .. n : x[k] = x[k - 1] + term[k]) /\ x[n] = g[1 .. n] /\ DOMAIN x = 0 .. n
  BY <1>1, <1>2
<1> DEFINE Good == {k \in 0 .. n : x[k] \in Int}
<1>4. \A k \in 0 .. n : k \in Good
  <2> HIDE DEF x
  <2>1. 0 \in Good
    BY <1>3
  <2>2. \A k \in 1 .. n : k - 1 \in Good => k \in Good
    BY <1>3
  <2> HIDE DEF Good
  <2> QED BY <2>1, <2>2, CountingUp
<1>5. x \in [0 .. n -> Int]
  BY <1>4
<1> HIDE DEF x
<1> QED BY <1>3, <1>5 DEF IsSumUp

(* The sum of a hand of five.                                              *)
LEMMA FiveTerms ==
    ASSUME NEW x, NEW term, IsSumUp(x, term, 5), \A k \in 1 .. 5 : term[k] \in Int
    PROVE  x[5] = term[1] + term[2] + term[3] + term[4] + term[5]
<1>1. ASSUME NEW k \in 1 .. 5 PROVE x[k] = x[k - 1] + term[k]
  BY DEF IsSumUp
<1>2. x[0] = 0
  BY DEF IsSumUp
<1>3. /\ x[1] = 0 + term[1] /\ x[2] = x[1] + term[2] /\ x[3] = x[2] + term[3]
      /\ x[4] = x[3] + term[4] /\ x[5] = x[4] + term[5]
  BY <1>1, <1>2
<1>4. term[1] \in Int /\ term[2] \in Int /\ term[3] \in Int /\ term[4] \in Int /\ term[5] \in Int
  OBVIOUS
<1>5. ASSUME NEW a \in Int, NEW b \in Int, NEW c \in Int, NEW d \in Int, NEW e \in Int,
             x[1] = 0 + a, x[2] = x[1] + b, x[3] = x[2] + c, x[4] = x[3] + d, x[5] = x[4] + e
      PROVE  x[5] = a + b + c + d + e
  BY <1>5
<1> QED BY <1>3, <1>4, <1>5

-----------------------------------------------------------------------------
(* The sums of bullfight and of baccarat, as the games fold them.          *)
LEMMA MaxOfSome == ASSUME NEW n \in Nat, NEW T \in SUBSET (1 .. n), T # {} PROVE Max(T) \in T /\ Max(T) \in 1 .. n
<1>1. IsFiniteSet(1 .. n) /\ \A x \in T : x \in Int
  BY FS_Interval
<1>2. IsFiniteSet(T)
  BY <1>1, FS_Subset
<1>3. Max(T) \in T
  BY <1>1, <1>2, MaxIn
<1> QED BY <1>3

LEMMA SameMax == ASSUME NEW S PROVE Bull!Max(S) = Max(S) /\ Bac!Max(S) = Max(S)
  BY DEF Bull!Max, Bac!Max, Max

IsTotalOn(g, values, S) ==
    g = [T \in SUBSET S |-> IF T = {} THEN 0 ELSE g[T \ {Bull!Max(T)}] + values[Bull!Max(T)]]
IsCappedOn(g, values, S) ==
    g = [T \in SUBSET S |-> IF T = {} THEN 0 ELSE g[T \ {Bull!Max(T)}] + Bull!Capped(values[Bull!Max(T)])]
IsPointsOn(g, cards, S) ==
    g = [T \in SUBSET S |-> IF T = {} THEN 0 ELSE g[T \ {Bac!Max(T)}] + Bac!CardPoint(cards[Bac!Max(T)])]

LEMMA TotalIsChosen ==
    ASSUME NEW values
    PROVE  Bull!Total(values) = (CHOOSE g : IsTotalOn(g, values, DOMAIN values))[DOMAIN values]
  BY DEF Bull!Total, Bull!FoldLeft, Bull!MapThenFoldSet, IsTotalOn
LEMMA CappedIsChosen ==
    ASSUME NEW values
    PROVE  Bull!CappedTotal(values) = (CHOOSE g : IsCappedOn(g, values, DOMAIN values))[DOMAIN values] % 10
  BY DEF Bull!CappedTotal, Bull!FoldLeft, Bull!MapThenFoldSet, IsCappedOn
LEMMA PointsAreChosen ==
    ASSUME NEW cards
    PROVE  Bac!CardsPoint(cards) = (CHOOSE g : IsPointsOn(g, cards, DOMAIN cards))[DOMAIN cards] % 10
  BY DEF Bac!CardsPoint, Bac!FoldLeft, Bac!MapThenFoldSet, IsPointsOn

LEMMA TotalSums ==
    ASSUME NEW n \in Nat, NEW values, DOMAIN values = 1 .. n, \A i \in 1 .. n : values[i] \in Int
    PROVE  \E x : IsSumUp(x, values, n) /\ Bull!Total(values) = x[n]
<1> DEFINE S == 1 .. n
           G == CHOOSE g : IsTotalOn(g, values, S)
<1>1. \A g : IsTotalOn(g, values, S) <=> IsTermSum(g, values, S)
  BY SameMax DEF IsTotalOn, IsTermSum
<1>2. \E g : IsTermSum(g, values, S)
  BY TermSumExists
<1>3. \E g : IsTotalOn(g, values, S)
  BY <1>1, <1>2
<1>4. IsTotalOn(G, values, S) /\ Bull!Total(values) = G[S]
  BY <1>3, TotalIsChosen
<1> HIDE DEF G
<1>5. IsTermSum(G, values, 1 .. n)
  BY <1>1, <1>4
<1>6. PICK x : IsSumUp(x, values, n) /\ x[n] = G[1 .. n]
  BY <1>5, TermSumUnfolds
<1> QED BY <1>4, <1>6

LEMMA CappedSums ==
    ASSUME NEW n \in Nat, NEW values, DOMAIN values = 1 .. n, \A i \in 1 .. n : values[i] \in Int
    PROVE  \E x : /\ IsSumUp(x, [i \in 1 .. n |-> Bull!Capped(values[i])], n)
                  /\ Bull!CappedTotal(values) = x[n] % 10
<1> DEFINE S == 1 .. n
           term == [i \in 1 .. n |-> Bull!Capped(values[i])]
           G == CHOOSE g : IsCappedOn(g, values, S)
<1>0. \A i \in 1 .. n : term[i] \in Int
  BY DEF Bull!Capped
<1>1. ASSUME NEW g PROVE IsCappedOn(g, values, S) <=> IsTermSum(g, term, S)
  <2>1. \A T \in SUBSET S : T # {} => Bull!Capped(values[Max(T)]) = term[Max(T)]
    BY MaxOfSome
  <2> HIDE DEF term
  <2> QED BY <2>1, SameMax DEF IsCappedOn, IsTermSum
<1> HIDE DEF term
<1>2. \E g : IsTermSum(g, term, S)
  BY <1>0, TermSumExists
<1>3. \E g : IsCappedOn(g, values, S)
  BY <1>1, <1>2
<1>4. IsCappedOn(G, values, S) /\ Bull!CappedTotal(values) = G[S] % 10
  BY <1>3, CappedIsChosen
<1> HIDE DEF G
<1>5. IsTermSum(G, term, 1 .. n)
  BY <1>1, <1>4
<1>6. PICK x : IsSumUp(x, term, n) /\ x[n] = G[1 .. n]
  BY <1>0, <1>5, TermSumUnfolds
<1> QED BY <1>4, <1>6 DEF term

LEMMA PointsSum ==
    ASSUME NEW cards, cards \in Seq(Nat)
    PROVE  Bac!CardsPoint(cards) \in 0 .. 9
<1> DEFINE n == Len(cards)
           S == 1 .. n
           term == [i \in 1 .. n |-> Bac!CardPoint(cards[i])]
           G == CHOOSE g : IsPointsOn(g, cards, S)
<1>0. n \in Nat /\ DOMAIN cards = 1 .. n /\ \A i \in 1 .. n : term[i] \in Int
  <2>1. n \in Nat /\ DOMAIN cards = 1 .. n /\ \A i \in 1 .. n : cards[i] \in Nat
    OBVIOUS
  <2>2. ASSUME NEW c \in Nat PROVE Bac!CardPoint(c) \in Int
    BY DEF Bac!CardPoint, Bac!Value, Bac!CardsPerSuit
  <2> HIDE DEF n
  <2> QED BY <2>1, <2>2
<1> HIDE DEF n
<1>1. ASSUME NEW g PROVE IsPointsOn(g, cards, S) <=> IsTermSum(g, term, S)
  <2>1. \A T \in SUBSET S : T # {} => Bac!CardPoint(cards[Max(T)]) = term[Max(T)]
    BY <1>0, MaxOfSome
  <2> HIDE DEF term
  <2> QED BY <2>1, SameMax DEF IsPointsOn, IsTermSum
<1> HIDE DEF term
<1>2. \E g : IsTermSum(g, term, S)
  BY <1>0, TermSumExists
<1>3. \E g : IsPointsOn(g, cards, S)
  BY <1>1, <1>2
<1>4. IsPointsOn(G, cards, S) /\ Bac!CardsPoint(cards) = G[S] % 10
  BY <1>0, <1>3, PointsAreChosen
<1> HIDE DEF G
<1>5. IsTermSum(G, term, 1 .. n)
  BY <1>1, <1>4
<1>6. PICK x : IsSumUp(x, term, n) /\ x[n] = G[1 .. n]
  BY <1>0, <1>5, TermSumUnfolds
<1>7. G[S] \in Int
  BY <1>0, <1>6 DEF IsSumUp
<1> QED BY <1>4, <1>7

-----------------------------------------------------------------------------
(* A hand of bullfight: five values in order.                              *)
IsHand(v) ==
    /\ DOMAIN v = 1 .. 5 /\ \A i \in 1 .. 5 : v[i] \in 1 .. 13
    /\ v[1] <= v[2] /\ v[2] <= v[3] /\ v[3] <= v[4] /\ v[4] <= v[5]

(* The ten ways to take three of the five, each with the two that are left. *)
LEMMA TripleWays ==
    ASSUME NEW t \in Bull!Triples
    PROVE  /\ t = <<t[1], t[2], t[3]>> /\ t[1] \in 1 .. 5 /\ t[2] \in 1 .. 5 /\ t[3] \in 1 .. 5
           /\ \E i, j \in 1 .. 5 :
                 /\ i # j /\ (1 .. 5) \ ToSet(t) = {i, j}
                 /\ \A f : f[1] \in Int /\ f[2] \in Int /\ f[3] \in Int /\ f[4] \in Int /\ f[5] \in Int =>
                       f[1] + f[2] + f[3] + f[4] + f[5] = f[t[1]] + f[t[2]] + f[t[3]] + (f[i] + f[j])
<1>1. /\ t = <<t[1], t[2], t[3]>> /\ t[1] \in 1 .. 3 /\ t[2] \in 2 .. 4 /\ t[3] \in 3 .. 5
      /\ t[1] < t[2] /\ t[2] < t[3]
  BY DEF Bull!Triples
<1>2. ToSet(t) = {t[1], t[2], t[3]}
  <2> DEFINE a == t[1]
             b == t[2]
             c == t[3]
  <2>1. t = <<a, b, c>>
    BY <1>1
  <2> HIDE DEF a, b, c
  <2>2. ToSet(<<a, b, c>>) = {a, b, c}
    BY DEF ToSet
  <2>3. ToSet(t) = {a, b, c}
    BY <2>1, <2>2
  <2> QED BY <2>3 DEF a, b, c
<1> DEFINE a == t[1]
           b == t[2]
           c == t[3]
           Way(i, j) ==
                 /\ i # j /\ (1 .. 5) \ {a, b, c} = {i, j}
                 /\ \A f : f[1] \in Int /\ f[2] \in Int /\ f[3] \in Int /\ f[4] \in Int /\ f[5] \in Int =>
                       f[1] + f[2] + f[3] + f[4] + f[5] = f[a] + f[b] + f[c] + (f[i] + f[j])
<1>3. /\ a \in 1 .. 3 /\ b \in 2 .. 4 /\ c \in 3 .. 5 /\ a < b /\ b < c
  BY <1>1
<1> HIDE DEF a, b, c
<1>4. \E i, j \in 1 .. 5 : Way(i, j)
  <2>1. CASE a = 1 /\ b = 2 /\ c = 3
    <3>1. Way(4, 5) BY <2>1
    <3> QED BY <3>1
  <2>2. CASE a = 1 /\ b = 2 /\ c = 4
    <3>1. Way(3, 5) BY <2>2
    <3> QED BY <3>1
  <2>3. CASE a = 1 /\ b = 2 /\ c = 5
    <3>1. Way(3, 4) BY <2>3
    <3> QED BY <3>1
  <2>4. CASE a = 1 /\ b = 3 /\ c = 4
    <3>1. Way(2, 5) BY <2>4
    <3> QED BY <3>1
  <2>5. CASE a = 1 /\ b = 3 /\ c = 5
    <3>1. Way(2, 4) BY <2>5
    <3> QED BY <3>1
  <2>6. CASE a = 1 /\ b = 4 /\ c = 5
    <3>1. Way(2, 3) BY <2>6
    <3> QED BY <3>1
  <2>7. CASE a = 2 /\ b = 3 /\ c = 4
    <3>1. Way(1, 5) BY <2>7
    <3> QED BY <3>1
  <2>8. CASE a = 2 /\ b = 3 /\ c = 5
    <3>1. Way(1, 4) BY <2>8
    <3> QED BY <3>1
  <2>9. CASE a = 2 /\ b = 4 /\ c = 5
    <3>1. Way(1, 3) BY <2>9
    <3> QED BY <3>1
  <2>10. CASE a = 3 /\ b = 4 /\ c = 5
    <3>1. Way(1, 2) BY <2>10
    <3> QED BY <3>1
  <2> QED
    <3>1. (a = 1 /\ b = 2) \/ (a = 1 /\ b = 3) \/ (a = 1 /\ b = 4) \/ (a = 2 /\ b = 3) \/ (a = 2 /\ b = 4) \/ (a = 3 /\ b = 4)
      BY <1>3
    <3>2. c = 3 \/ c = 4 \/ c = 5
      BY <1>3
    <3> HIDE DEF Way
    <3>3. CASE a = 1 /\ b = 2
      BY <3>2, <3>3, <2>1, <2>2, <2>3
    <3>4. CASE a = 1 /\ b = 3
      <4>1. c = 4 \/ c = 5
        BY <1>3, <3>2, <3>4
      <4> QED BY <4>1, <3>4, <2>4, <2>5
    <3>5. CASE a = 2 /\ b = 3
      <4>1. c = 4 \/ c = 5
        BY <1>3, <3>2, <3>5
      <4> QED BY <4>1, <3>5, <2>7, <2>8
    <3>6. CASE b = 4
      <4>1. c = 5
        BY <1>3, <3>2, <3>6
      <4> QED BY <4>1, <3>1, <3>6, <2>6, <2>9, <2>10
    <3> QED BY <3>1, <3>3, <3>4, <3>5, <3>6
<1>5. t = <<a, b, c>> /\ a \in 1 .. 5 /\ b \in 1 .. 5 /\ c \in 1 .. 5
  BY <1>1, <1>3 DEF a, b, c
<1>6. ToSet(t) = {a, b, c}
  BY <1>2 DEF a, b, c
<1> QED BY <1>4, <1>5, <1>6 DEF a, b, c

-----------------------------------------------------------------------------
(* Where three cards make tens, the search finds three that do.            *)
LEMMA FirstMakesTens ==
    ASSUME NEW values, \E t \in Bull!Triples : Bull!MakesTens(values, t)
    PROVE  Bull!First(values) \in Bull!Triples /\ Bull!MakesTens(values, Bull!First(values))
<1> DEFINE Tens == {t \in Bull!Triples : Bull!MakesTens(values, t)}
           rank == [t \in Tens |-> 0 - Bull!TripleRank(t)]
<1>1. IsFiniteSet(Tens)
  <2> DEFINE f == [t \in Tens |-> Bull!TripleRank(t)]
             Some == 0 .. 250
  <2>1. ASSUME NEW t \in Tens PROVE f[t] \in Some
    BY TripleWays DEF Bull!TripleRank
  <2>2. ASSUME NEW t \in Tens, NEW u \in Tens, f[t] = f[u] PROVE t = u
    <3>1. t = <<t[1], t[2], t[3]>> /\ t[1] \in 1 .. 5 /\ t[2] \in 1 .. 5 /\ t[3] \in 1 .. 5
      BY TripleWays
    <3>2. u = <<u[1], u[2], u[3]>> /\ u[1] \in 1 .. 5 /\ u[2] \in 1 .. 5 /\ u[3] \in 1 .. 5
      BY TripleWays
    <3>3. t[1] * 36 + t[2] * 6 + t[3] = u[1] * 36 + u[2] * 6 + u[3]
      BY <2>2 DEF Bull!TripleRank
    <3>4. t[1] = u[1] /\ t[2] = u[2] /\ t[3] = u[3]
      BY <3>1, <3>2, <3>3
    <3> QED BY <3>1, <3>2, <3>4
  <2>3. f \in Injection(Tens, Some)
    <3>1. f \in [Tens -> Some] /\ DOMAIN f = Tens
      BY <2>1
    <3> HIDE DEF f, Some, Tens
    <3> QED BY <2>2, <3>1 DEF Injection, IsInjective
  <2>4. IsFiniteSet(Some)
    <3> DEFINE top == 250
    <3>1. top \in Int /\ Some = 0 .. top
      OBVIOUS
    <3> HIDE DEF top, Some
    <3> QED BY <3>1, FS_Interval
  <2> HIDE DEF f, Some, Tens
  <2> QED BY <2>3, <2>4, FS_Injection
<1>2. Tens # {} /\ \A t \in Tens : rank[t] \in Int
  <2>1. ASSUME NEW t \in Tens PROVE rank[t] \in Int
    BY TripleWays DEF Bull!TripleRank
  <2>2. Tens # {}
    OBVIOUS
  <2> QED BY <2>1, <2>2
<1>3. PICK t \in Tens : \A u \in Tens : rank[u] <= rank[t]
  <2> HIDE DEF Tens, rank
  <2> QED BY <1>1, <1>2, HasLargest
<1>4. ASSUME NEW u \in Tens PROVE Bull!TripleRank(t) <= Bull!TripleRank(u)
  <2>1. /\ t[1] \in 1 .. 5 /\ t[2] \in 1 .. 5 /\ t[3] \in 1 .. 5 /\ u[1] \in 1 .. 5 /\ u[2] \in 1 .. 5 /\ u[3] \in 1 .. 5
    BY TripleWays
  <2>2. Bull!TripleRank(t) \in Int /\ Bull!TripleRank(u) \in Int
    BY <2>1 DEF Bull!TripleRank
  <2> QED BY <1>3, <2>2
<1>5. \E s \in Bull!Triples : /\ Bull!MakesTens(values, s)
                             /\ \A u \in Bull!Triples : Bull!MakesTens(values, u) => Bull!TripleRank(s) <= Bull!TripleRank(u)
  BY <1>4
<1> QED BY <1>5, Zenon DEF Bull!First

-----------------------------------------------------------------------------
(* What is left beside three cards is the sum of the other two.            *)
IsRestOn(g, values, S) ==
    g = [T \in SUBSET S |-> IF T = {} THEN 0
                            ELSE Bull!Capped(values[CHOOSE x \in T : TRUE]) + g[T \ {CHOOSE x \in T : TRUE}]]

RestOn(values, S) == (CHOOSE g : IsRestOn(g, values, S))[S]

LEMMA RestIsChosen ==
    ASSUME NEW values
    PROVE  LET left == (1 .. 5) \ Bull!ToSet(Bull!First(values))
           IN  Bull!Rest(values) = RestOn(values, left) % 10
  BY DEF RestOn, Bull!Rest, Bull!MapThenSumSet, Bull!MapThenFoldSet, IsRestOn

LEMMA RestOfTwo ==
    ASSUME NEW values, NEW i, NEW j, i # j, NEW m, NEW n, m = Bull!Capped(values[i]), n = Bull!Capped(values[j]),
           m \in Int, n \in Int
    PROVE  RestOn(values, {i, j}) = m + n
<1> DEFINE S == {i, j}
           term(x) == Bull!Capped(values[x])
           c(T) == CHOOSE x \in T : TRUE
           e == [T \in SUBSET S |-> IF T = {} THEN 0 ELSE IF T = {i} THEN m ELSE IF T = {j} THEN n ELSE m + n]
           G == CHOOSE g : IsRestOn(g, values, S)
<1>1. \A T : T # {} => c(T) \in T
  OBVIOUS
<1>2. \A T \in SUBSET S : T = {} \/ T = {i} \/ T = {j} \/ T = S
  OBVIOUS
<1>3. ASSUME NEW T \in SUBSET S, T # {} PROVE term(c(T)) + e[T \ {c(T)}] = e[T]
  <2> DEFINE x == c(T)
  <2>1. x \in T
    BY <1>1, <1>3
  <2> HIDE DEF c, x
  <2>2. CASE T = {i}
    <3>1. x = i /\ T \ {x} = {} /\ {} \in SUBSET S
      BY <2>1, <2>2
    <3>2. e[T \ {x}] = 0 /\ e[T] = m
      BY <2>2, <3>1
    <3> HIDE DEF e
    <3> QED BY <3>1, <3>2 DEF x
  <2>3. CASE T = {j}
    <3>1. x = j /\ T \ {x} = {} /\ {} \in SUBSET S
      BY <2>1, <2>3
    <3>2. e[T \ {x}] = 0 /\ e[T] = n
      BY <2>3, <3>1
    <3> HIDE DEF e
    <3> QED BY <3>1, <3>2 DEF x
  <2>4. CASE T = S
    <3>1. e[T] = m + n
      BY <2>4
    <3>2. CASE x = i
      <4>1. T \ {x} = {j} /\ {j} \in SUBSET S
        BY <2>4, <3>2
      <4>2. e[T \ {x}] = n
        BY <4>1
      <4> HIDE DEF e
      <4> QED BY <3>1, <3>2, <4>2 DEF x
    <3>3. CASE x = j
      <4>1. T \ {x} = {i} /\ {i} \in SUBSET S
        BY <2>4, <3>3
      <4>2. e[T \ {x}] = m
        BY <4>1
      <4> HIDE DEF e
      <4> QED BY <3>1, <3>3, <4>2 DEF x
    <3> QED BY <2>1, <2>4, <3>2, <3>3
  <2> QED BY <1>2, <1>3, <2>2, <2>3, <2>4
<1>4. IsRestOn(e, values, S)
  <2>1. e = [T \in SUBSET S |-> IF T = {} THEN 0 ELSE term(c(T)) + e[T \ {c(T)}]]
    <3>1. DOMAIN e = SUBSET S /\ e = [T \in SUBSET S |-> e[T]] /\ e[{}] = 0
      OBVIOUS
    <3> HIDE DEF e, term, c
    <3> QED BY <1>3, <3>1
  <2> HIDE DEF e
  <2> QED BY <2>1 DEF IsRestOn
<1>5. IsRestOn(G, values, S)
  <2> HIDE DEF e
  <2> QED BY <1>4
<1> HIDE DEF G, e
<1>6. \A T \in SUBSET S : G[T] = IF T = {} THEN 0 ELSE term(c(T)) + G[T \ {c(T)}]
  BY <1>5 DEF IsRestOn
<1>7. G[{}] = 0 /\ G[{i}] = m /\ G[{j}] = n
  <2>1. G[{}] = 0
    BY <1>6
  <2>2. G[{i}] = m
    <3>1. {i} \in SUBSET S /\ c({i}) = i /\ {i} \ {i} = {}
      OBVIOUS
    <3> HIDE DEF c
    <3> QED BY <1>6, <2>1, <3>1
  <2>3. G[{j}] = n
    <3>1. {j} \in SUBSET S /\ c({j}) = j /\ {j} \ {j} = {} /\ {j} # {}
      OBVIOUS
    <3>2. G[{j}] = term(c({j})) + G[{j} \ {c({j})}]
      <4> HIDE DEF c, term
      <4> QED BY <1>6, <3>1
    <3>3. term(j) = n
      OBVIOUS
    <3>4. {j} \ {c({j})} = {} /\ term(c({j})) = n
      BY <3>1, <3>3
    <3> HIDE DEF c, term
    <3>5. G[{j}] = n + 0
      BY <2>1, <3>2, <3>4
    <3> QED BY <3>5
  <2> QED BY <2>1, <2>2, <2>3
<1>8. G[S] = m + n
  <2>1. S \in SUBSET S /\ c(S) \in S /\ S # {}
    OBVIOUS
  <2>2. G[S] = term(c(S)) + G[S \ {c(S)}]
    BY <1>6, <2>1
  <2> HIDE DEF c
  <2>3. CASE c(S) = i
    <3>1. S \ {c(S)} = {j}
      BY <2>3
    <3> QED BY <1>7, <2>2, <2>3, <3>1
  <2>4. CASE c(S) = j
    <3>1. S \ {c(S)} = {i}
      BY <2>4
    <3>2. term(j) = n
      OBVIOUS
    <3>3. G[S] = n + m
      <4> HIDE DEF term
      <4> QED BY <1>7, <2>2, <2>4, <3>1, <3>2
    <3> QED BY <3>3
  <2> QED BY <2>1, <2>3, <2>4
<1> QED BY <1>8 DEF G, RestOn

-----------------------------------------------------------------------------
(* The longest run of a hand, value by value.                              *)
RunStep(run, v) == IF v = run.last THEN [last |-> v, count |-> run.count + 1] ELSE Bull!NewRun(run, v)
NoRun == [last |-> 14, count |-> 1]
IsRunOn(g, values, S) ==
    g = [T \in SUBSET S |-> IF T = {} THEN NoRun ELSE RunStep(g[T \ {Bull!Max(T)}], values[Bull!Max(T)])]

LEMMA RunIsChosen ==
    ASSUME NEW values
    PROVE  Bull!Run(values) = (CHOOSE g : IsRunOn(g, values, DOMAIN values))[DOMAIN values]
  BY DEF Bull!Run, Bull!FoldLeft, Bull!MapThenFoldSet, IsRunOn, RunStep, NoRun

LEMMA RunExists ==
    ASSUME NEW values, NEW n \in Nat, \A i \in 1 .. n : values[i] \in Int
    PROVE  \E g : IsRunOn(g, values, 1 .. n)
<1> DEFINE S == 1 .. n
           Runs == [last : Int, count : Int]
           step == [i \in S |-> [run \in Runs |-> RunStep(run, values[i])]]
<1>1. IsFiniteSet(S) /\ \A x \in S : x \in Int
  BY FS_Interval
<1>2. NoRun \in Runs /\ \A i \in S, run \in Runs : step[i][run] = RunStep(run, values[i]) /\ step[i][run] \in Runs
  BY DEF NoRun, RunStep, Bull!NewRun
<1>3. PICK g : IsFoldOn(g, step, NoRun, S)
  <2> HIDE DEF S, step
  <2> QED BY <1>1, FoldExists
<1>4. \A T \in SUBSET S : g[T] \in Runs
  <2> HIDE DEF S, step, Runs
  <2> QED BY <1>1, <1>2, <1>3, FoldKeeps
<1>5. ASSUME NEW T \in SUBSET S, T # {}
      PROVE  step[Max(T)][g[T \ {Max(T)}]] = RunStep(g[T \ {Max(T)}], values[Max(T)])
  <2>1. Max(T) \in S /\ Max(T) \in T
    BY <1>5, MaxOfSome
  <2>2. g[T \ {Max(T)}] \in Runs
    BY <1>4
  <2> HIDE DEF step, Runs
  <2> QED BY <1>2, <2>1, <2>2
<1>6. IsRunOn(g, values, S)
  <2> HIDE DEF step, S
  <2> QED BY <1>3, <1>5, SameMax DEF IsFoldOn, IsRunOn
<1> QED BY <1>6

(* In a hand in order the run comes to four where four are the same.       *)
LEMMA RunOfFour ==
    ASSUME NEW v, IsHand(v)
    PROVE  Bull!Run(v).count >= 4 <=> (v[1] = v[4] \/ v[2] = v[5])
<1> DEFINE G == CHOOSE g : IsRunOn(g, v, 1 .. 5)
<1>1. DOMAIN v = 1 .. 5 /\ \A i \in 1 .. 5 : v[i] \in Int
  BY DEF IsHand
<1>2. IsRunOn(G, v, 1 .. 5) /\ Bull!Run(v) = G[1 .. 5]
  BY <1>1, RunExists, RunIsChosen
<1> HIDE DEF G
<1>3. G[1 .. 0] = NoRun
  <2>1. 1 .. 0 = {} /\ {} \in SUBSET (1 .. 5)
    OBVIOUS
  <2> QED BY <1>2, <2>1 DEF IsRunOn
<1>4. ASSUME NEW k \in 1 .. 5 PROVE G[1 .. k] = RunStep(G[1 .. k - 1], v[k])
  <2>1. (1 .. k) \in SUBSET (1 .. 5) /\ 1 .. k # {}
    <3>1. \A i \in 1 .. k : i \in 1 .. 5
      OBVIOUS
    <3>2. k \in 1 .. k
      OBVIOUS
    <3> QED BY <3>1, <3>2
  <2>2. Max(1 .. k) = k
    BY MaxUpTo
  <2>3. (1 .. k) \ {k} = 1 .. k - 1
    OBVIOUS
  <2> QED BY <1>2, <2>1, <2>2, <2>3, SameMax DEF IsRunOn
<1> DEFINE a == v[1]
           b == v[2]
           c == v[3]
           d == v[4]
           e == v[5]
<1>5. /\ G[1 .. 1] = RunStep(NoRun, a) /\ G[1 .. 2] = RunStep(G[1 .. 1], b) /\ G[1 .. 3] = RunStep(G[1 .. 2], c)
      /\ G[1 .. 4] = RunStep(G[1 .. 3], d) /\ G[1 .. 5] = RunStep(G[1 .. 4], e)
  <2>1. G[1 .. 1] = RunStep(G[1 .. 1 - 1], a) /\ G[1 .. 2] = RunStep(G[1 .. 2 - 1], b)
    BY <1>4
  <2>2. G[1 .. 3] = RunStep(G[1 .. 3 - 1], c) /\ G[1 .. 4] = RunStep(G[1 .. 4 - 1], d)
    BY <1>4
  <2>3. G[1 .. 5] = RunStep(G[1 .. 5 - 1], e)
    BY <1>4
  <2>4. 1 - 1 = 0 /\ 2 - 1 = 1 /\ 3 - 1 = 2 /\ 4 - 1 = 3 /\ 5 - 1 = 4
    OBVIOUS
  <2> QED BY <1>3, <2>1, <2>2, <2>3, <2>4
<1>6. /\ a \in 1 .. 13 /\ b \in 1 .. 13 /\ c \in 1 .. 13 /\ d \in 1 .. 13 /\ e \in 1 .. 13
      /\ a <= b /\ b <= c /\ c <= d /\ d <= e
  BY DEF IsHand
<1> HIDE DEF a, b, c, d, e
<1> DEFINE Longer(m, u, w) == IF w = u THEN m + 1 ELSE IF m < 4 THEN 1 ELSE m
           m2 == Longer(1, a, b)
           m3 == Longer(m2, b, c)
           m4 == Longer(m3, c, d)
           m5 == Longer(m4, d, e)
<1>7. ASSUME NEW m \in Int, NEW u \in 1 .. 14, NEW w \in 1 .. 13
      PROVE  RunStep([last |-> u, count |-> m], w) = [last |-> w, count |-> Longer(m, u, w)] /\ Longer(m, u, w) \in Int
  BY DEF RunStep, Bull!NewRun
<1>8. RunStep(NoRun, a) = [last |-> a, count |-> 1]
  BY <1>6 DEF RunStep, Bull!NewRun, NoRun
<1>9. m2 \in Int /\ m3 \in Int /\ m4 \in Int /\ m5 \in Int
  OBVIOUS
<1>10. (m5 >= 4) <=> (a = d \/ b = e)
  BY <1>6
<1> HIDE DEF Longer, m2, m3, m4, m5
<1>11. G[1 .. 2] = [last |-> b, count |-> m2]
  <2>1. 1 \in Int /\ a \in 1 .. 14 /\ b \in 1 .. 13
    BY <1>6, <1>9
  <2>2. RunStep([last |-> a, count |-> 1], b) = [last |-> b, count |-> Longer(1, a, b)]
    BY <1>7, <2>1
  <2> QED BY <1>5, <1>8, <2>2 DEF m2
<1>12. G[1 .. 3] = [last |-> c, count |-> m3]
  <2>1. m2 \in Int /\ b \in 1 .. 14 /\ c \in 1 .. 13
    BY <1>6, <1>9
  <2>2. RunStep([last |-> b, count |-> m2], c) = [last |-> c, count |-> Longer(m2, b, c)]
    BY <1>7, <2>1
  <2> QED BY <1>5, <1>11, <2>2 DEF m3
<1>13. G[1 .. 4] = [last |-> d, count |-> m4]
  <2>1. m3 \in Int /\ c \in 1 .. 14 /\ d \in 1 .. 13
    BY <1>6, <1>9
  <2>2. RunStep([last |-> c, count |-> m3], d) = [last |-> d, count |-> Longer(m3, c, d)]
    BY <1>7, <2>1
  <2> QED BY <1>5, <1>12, <2>2 DEF m4
<1>14. G[1 .. 5] = [last |-> e, count |-> m5]
  <2>1. m4 \in Int /\ d \in 1 .. 14 /\ e \in 1 .. 13
    BY <1>6, <1>9
  <2>2. RunStep([last |-> d, count |-> m4], e) = [last |-> e, count |-> Longer(m4, d, e)]
    BY <1>7, <2>1
  <2> QED BY <1>5, <1>13, <2>2 DEF m5
<1> QED BY <1>2, <1>10, <1>14 DEF a, b, d, e

(* Four of the five are the same where they are four in a row.             *)
LEMMA FourTheSame ==
    ASSUME NEW v, IsHand(v)
    PROVE  (\E w \in ToSet(v) : Cardinality({i \in 1 .. 5 : v[i] = w}) >= 4) <=> (v[1] = v[4] \/ v[2] = v[5])
<1>1. /\ v[1] \in 1 .. 13 /\ v[2] \in 1 .. 13 /\ v[3] \in 1 .. 13 /\ v[4] \in 1 .. 13 /\ v[5] \in 1 .. 13
      /\ v[1] <= v[2] /\ v[2] <= v[3] /\ v[3] <= v[4] /\ v[4] <= v[5]
  BY DEF IsHand
<1>2. IsFiniteSet(1 .. 5)
  <2> DEFINE h == 5
  <2>1. h \in Int /\ 1 \in Int
    OBVIOUS
  <2>2. IsFiniteSet(1 .. h)
    <3> HIDE DEF h
    <3> QED BY <2>1, FS_Interval
  <2> QED BY <2>2
<1>3. ASSUME NEW w PROVE /\ IsFiniteSet({i \in 1 .. 5 : v[i] = w})
                         /\ Cardinality({i \in 1 .. 5 : v[i] = w}) \in Nat
  <2> DEFINE A == {i \in 1 .. 5 : v[i] = w}
  <2>1. A \in SUBSET (1 .. 5)
    OBVIOUS
  <2> HIDE DEF A
  <2>2. IsFiniteSet(A) /\ Cardinality(A) \in Nat
    BY <1>2, <2>1, FS_Subset, FS_CardinalityType
  <2> QED BY <2>2 DEF A
<1>4. ASSUME NEW w, NEW k \in 1 .. 2, \A i \in k .. k + 3 : v[i] = w
      PROVE  Cardinality({i \in 1 .. 5 : v[i] = w}) >= 4
  <2> DEFINE A == {i \in 1 .. 5 : v[i] = w}
             B == k .. k + 3
  <2>1. B \in SUBSET A
    BY <1>4
  <2>2. Cardinality(B) = 4
    <3> DEFINE h == k + 3
    <3>1. k \in Int /\ h \in Int
      OBVIOUS
    <3>2. Cardinality(k .. h) = IF k > h THEN 0 ELSE h - k + 1
      <4> HIDE DEF h
      <4> QED BY <3>1, FS_Interval
    <3> QED BY <3>2
  <2>3. IsFiniteSet(A) /\ Cardinality(A) \in Nat
    BY <1>3
  <2>4. Cardinality(B) <= Cardinality(A)
    <3> HIDE DEF A, B
    <3> QED BY <2>1, <2>3, FS_Subset
  <2> HIDE DEF A, B
  <2>5. Cardinality(A) >= 4
    BY <2>2, <2>3, <2>4
  <2> QED BY <2>5 DEF A
<1>5. ASSUME v[1] = v[4] \/ v[2] = v[5]
      PROVE  \E w \in ToSet(v) : Cardinality({i \in 1 .. 5 : v[i] = w}) >= 4
  <2>1. v[1] \in ToSet(v) /\ v[2] \in ToSet(v)
    BY DEF IsHand, ToSet
  <2>2. CASE v[1] = v[4]
    <3>1. \A i \in 1 .. 1 + 3 : v[i] = v[1]
      <4>1. v[2] = v[1] /\ v[3] = v[1] /\ v[4] = v[1]
        BY <1>1, <2>2
      <4> QED BY <4>1
    <3> QED BY <1>4, <2>1, <3>1
  <2>3. CASE v[2] = v[5]
    <3>1. \A i \in 2 .. 2 + 3 : v[i] = v[2]
      <4>1. v[3] = v[2] /\ v[4] = v[2] /\ v[5] = v[2]
        BY <1>1, <2>3
      <4> QED BY <4>1
    <3> QED BY <1>4, <2>1, <3>1
  <2> QED BY <1>5, <2>2, <2>3
<1>6. ASSUME NEW w, Cardinality({i \in 1 .. 5 : v[i] = w}) >= 4
      PROVE  v[1] = v[4] \/ v[2] = v[5]
  <2> DEFINE A == {i \in 1 .. 5 : v[i] = w}
             B == (1 .. 5) \ A
  <2>1. IsFiniteSet(A) /\ Cardinality(A) \in Nat /\ Cardinality(A) >= 4
    BY <1>3, <1>6
  <2>2. IsFiniteSet(B) /\ Cardinality(B) \in Nat /\ Cardinality(B) <= 1
    <3>1. Cardinality(1 .. 5) = 5
      <4> DEFINE h == 5
      <4>1. h \in Int /\ 1 \in Int
        OBVIOUS
      <4>2. Cardinality(1 .. h) = IF 1 > h THEN 0 ELSE h - 1 + 1
        <5> HIDE DEF h
        <5> QED BY <4>1, FS_Interval
      <4> QED BY <4>2
    <3>2. A \cap B = {} /\ A \cup B = 1 .. 5 /\ B \in SUBSET (1 .. 5)
      OBVIOUS
    <3> HIDE DEF A, B
    <3>3. IsFiniteSet(B)
      BY <1>2, <3>2, FS_Subset
    <3>4. Cardinality(A \cup B) = Cardinality(A) + Cardinality(B) - Cardinality({})
      BY <2>1, <3>2, <3>3, FS_Union
    <3>5. Cardinality({}) = 0 /\ Cardinality(B) \in Nat
      BY <3>3, FS_EmptySet, FS_CardinalityType
    <3> QED BY <2>1, <3>1, <3>2, <3>3, <3>4, <3>5
  <2>3. ASSUME NEW i \in B, NEW j \in B PROVE i = j
    <3> HIDE DEF B
    <3>1. B # {} /\ Cardinality(B) # 0
      BY <2>2, <2>3, FS_EmptySet
    <3>2. Cardinality(B) = 1
      BY <2>2, <3>1
    <3>3. \E x : B = {x}
      BY <2>2, <3>2, FS_Singleton
    <3> QED BY <2>3, <3>3
  <2>4. \A i, j \in 1 .. 5 : i # j => v[i] = w \/ v[j] = w
    BY <2>3
  <2> HIDE DEF A, B
  <2>5. CASE v[1] # w
    <3>1. v[2] = w /\ v[5] = w
      BY <2>4, <2>5
    <3> QED BY <3>1
  <2>6. CASE v[5] # w
    <3>1. v[1] = w /\ v[4] = w
      BY <2>4, <2>6
    <3> QED BY <3>1
  <2>7. CASE v[1] = w /\ v[5] = w
    BY <1>1, <2>7
  <2> QED BY <2>5, <2>6, <2>7
<1> QED BY <1>5, <1>6

-----------------------------------------------------------------------------
(* Whichever three cards the search stops at, what is left beside them is  *)
(* the whole hand modulo ten.                                              *)
LEMMA SameSets == ASSUME NEW s PROVE Bull!ToSet(s) = ToSet(s) /\ Bull!Cardinality(s) = Cardinality(s)
  BY DEF Bull!ToSet, ToSet, Bull!Cardinality, Cardinality

LEMMA RestIsTotal ==
    ASSUME NEW v, IsHand(v), \E t \in Bull!Triples : Bull!MakesTens(v, t)
    PROVE  Bull!Rest(v) = Bull!CappedTotal(v) /\ Bull!Rest(v) \in 0 .. 9
<1> DEFINE t == Bull!First(v)
           f == [k \in 1 .. 5 |-> Bull!Capped(v[k])]
<1>1. t \in Bull!Triples /\ Bull!MakesTens(v, t)
  BY FirstMakesTens
<1>2. \A k \in 1 .. 5 : f[k] \in Int /\ f[k] = Bull!Capped(v[k])
  BY DEF IsHand, Bull!Capped
<1>3. PICK x : IsSumUp(x, f, 5) /\ Bull!CappedTotal(v) = x[5] % 10
  <2>1. DOMAIN v = 1 .. 5 /\ \A i \in 1 .. 5 : v[i] \in Int
    BY DEF IsHand
  <2> QED BY <2>1, CappedSums
<1> HIDE DEF t, f
<1>4. x[5] = f[1] + f[2] + f[3] + f[4] + f[5]
  <2>1. IsSumUp(x, f, 5) /\ \A k \in 1 .. 5 : f[k] \in Int
    BY <1>2, <1>3
  <2> QED BY <2>1, FiveTerms
<1>5. t[1] \in 1 .. 5 /\ t[2] \in 1 .. 5 /\ t[3] \in 1 .. 5
  BY <1>1, TripleWays
<1>6. PICK i, j \in 1 .. 5 : /\ i # j /\ (1 .. 5) \ ToSet(t) = {i, j}
                            /\ f[1] + f[2] + f[3] + f[4] + f[5] = f[t[1]] + f[t[2]] + f[t[3]] + (f[i] + f[j])
  <2>1. f[1] \in Int /\ f[2] \in Int /\ f[3] \in Int /\ f[4] \in Int /\ f[5] \in Int
    BY <1>2
  <2>2. \E i, j \in 1 .. 5 :
                 /\ i # j /\ (1 .. 5) \ ToSet(t) = {i, j}
                 /\ \A h : h[1] \in Int /\ h[2] \in Int /\ h[3] \in Int /\ h[4] \in Int /\ h[5] \in Int =>
                       h[1] + h[2] + h[3] + h[4] + h[5] = h[t[1]] + h[t[2]] + h[t[3]] + (h[i] + h[j])
    BY <1>1, TripleWays
  <2> QED BY <2>1, <2>2
<1> DEFINE m == f[i]
           n == f[j]
           tens == f[t[1]] + f[t[2]] + f[t[3]]
<1>7. m \in Int /\ n \in Int /\ tens \in Int /\ tens % 10 = 0
  <2>1. f[t[1]] \in Int /\ f[t[2]] \in Int /\ f[t[3]] \in Int /\ f[i] \in Int /\ f[j] \in Int
    BY <1>2, <1>5
  <2>2. (f[t[1]] + f[t[2]] + f[t[3]]) % 10 = 0
    BY <1>1, <1>2, <1>5 DEF Bull!MakesTens
  <2> QED BY <2>1, <2>2
<1>8. Bull!Rest(v) = (m + n) % 10
  <2>1. (1 .. 5) \ Bull!ToSet(Bull!First(v)) = {i, j}
    BY <1>6, SameSets DEF t
  <2>2. m = Bull!Capped(v[i]) /\ n = Bull!Capped(v[j])
    BY <1>2
  <2>3. Bull!Rest(v) = RestOn(v, {i, j}) % 10
    BY <2>1, RestIsChosen
  <2> HIDE DEF m, n
  <2>4. RestOn(v, {i, j}) = m + n
    BY <1>6, <1>7, <2>2, RestOfTwo
  <2> QED BY <2>3, <2>4
<1>9. Bull!CappedTotal(v) = (tens + (m + n)) % 10
  BY <1>3, <1>4, <1>6
<1> HIDE DEF m, n, tens
<1> QED BY <1>7, <1>8, <1>9

(* The hand type the code finds is the one the rules give.                 *)
LEMMA BullRanked ==
    ASSUME NEW v, IsHand(v)
    PROVE  Bull!HandType(v) = Bull!ByTheRule(v) /\ Bull!HandType(v) \in 0 .. 13
<1> DEFINE total == Bull!Total(v)
           heads == \A i \in 1 .. 5 : v[i] > 10
           four == v[1] = v[4] \/ v[2] = v[5]
           tens == \E t \in Bull!Triples : Bull!MakesTens(v, t)
<1>0. DOMAIN v = 1 .. 5 /\ \A i \in 1 .. 5 : v[i] \in 1 .. 13
  BY DEF IsHand
<1>1. total \in Int
  <2>1. PICK x : IsSumUp(x, v, 5) /\ Bull!Total(v) = x[5]
    <3>1. DOMAIN v = 1 .. 5 /\ \A i \in 1 .. 5 : v[i] \in Int
      BY <1>0
    <3> QED BY <3>1, TotalSums
  <2> QED BY <2>1 DEF IsSumUp
<1>2. heads <=> (Bull!ToSet(v) \subseteq 11 .. 13)
  BY <1>0 DEF Bull!ToSet
<1>3. (\E i \in 1 .. 5 : v[i] <= 10) <=> ~heads
  BY <1>0
<1>4. Bull!Run(v).count >= 4 <=> four
  BY RunOfFour
<1>5. (\E w \in Bull!ToSet(v) : Bull!Cardinality({i \in 1 .. 5 : v[i] = w}) >= 4) <=> four
  BY FourTheSame, SameSets
<1>6. tens => Bull!Rest(v) = Bull!CappedTotal(v) /\ Bull!Rest(v) \in 0 .. 9
  BY RestIsTotal
<1>7. Bull!TensIn(v) <=> tens
  BY DEF Bull!TensIn
<1> HIDE DEF total, heads, four, tens
<1>8. CASE total < 10
  <2>1. Bull!HandType(v) = Bull!SmallBull
    BY <1>1, <1>8 DEF Bull!HandType, total
  <2>2. Bull!ByTheRule(v) = Bull!SmallBull
    BY <1>1, <1>8 DEF Bull!ByTheRule, total
  <2> QED BY <2>1, <2>2 DEF Bull!SmallBull
<1>9. CASE total >= 10 /\ heads
  <2>1. Bull!HandType(v) = Bull!AllHeads
    BY <1>1, <1>3, <1>9 DEF Bull!HandType, total, heads
  <2>2. Bull!ByTheRule(v) = Bull!AllHeads
    BY <1>1, <1>2, <1>9 DEF Bull!ByTheRule, total
  <2> QED BY <2>1, <2>2 DEF Bull!AllHeads
<1>10. CASE total >= 10 /\ ~heads
  <2>1. Bull!HandType(v) = IF four THEN Bull!FourOfAKind ELSE IF tens THEN Bull!BullOf(v) ELSE Bull!NoBull
    <3>1. Bull!HandType(v) = IF Bull!Run(v).count >= 4 THEN Bull!FourOfAKind
                             ELSE IF \E t \in Bull!Triples : Bull!MakesTens(v, t) THEN Bull!BullOf(v) ELSE Bull!NoBull
      BY <1>1, <1>3, <1>10 DEF Bull!HandType, total, heads
    <3> QED BY <1>4, <3>1, Zenon DEF tens
  <2>2. Bull!ByTheRule(v) = IF four THEN Bull!FourOfAKind ELSE IF ~tens THEN Bull!NoBull
                            ELSE IF Bull!CappedTotal(v) = 0 THEN Bull!Bull10 ELSE Bull!CappedTotal(v)
    <3>1. Bull!ByTheRule(v) =
             IF \E w \in Bull!ToSet(v) : Bull!Cardinality({i \in 1 .. 5 : v[i] = w}) >= 4 THEN Bull!FourOfAKind
             ELSE IF ~ Bull!TensIn(v) THEN Bull!NoBull
             ELSE IF Bull!CappedTotal(v) = 0 THEN Bull!Bull10 ELSE Bull!CappedTotal(v)
      BY <1>1, <1>2, <1>10 DEF Bull!ByTheRule, total
    <3> QED BY <1>5, <1>7, <3>1, Zenon
  <2> QED BY <1>6, <2>1, <2>2 DEF Bull!BullOf, Bull!FourOfAKind, Bull!NoBull, Bull!Bull10
<1> QED BY <1>1, <1>8, <1>9, <1>10

-----------------------------------------------------------------------------
(* A bet on a hand of bullfight gains or loses one to five fifths.         *)
LEMMA BullPays ==
    ASSUME NEW rate \in {-5, -4, -3, -2, -1, 1, 2, 3, 4, 5}
    PROVE  Bull!Payout(5, rate) \in 0 .. 10 /\ (rate > 0) = (Bull!Payout(5, rate) > 5)
<1>1. Bull!Payout(5, rate) = 5 + rate
  BY DEF Bull!Payout
<1> QED BY <1>1

LEMMA HandPays == ASSUME NEW type \in 0 .. 13 PROVE Bull!HandPayRate(type) \in 1 .. 5
  BY DEF Bull!HandPayRate

LEMMA RatesPay ==
    ASSUME NEW mine, NEW bank, Bull!TypeOf(mine) \in 0 .. 13, Bull!TypeOf(bank) \in 0 .. 13
    PROVE  \A rate \in Bull!PayRates(mine, bank) : rate \in {-5, -4, -3, -2, -1, 1, 2, 3, 4, 5}
<1> DEFINE a == Bull!TypeOf(mine)
           b == Bull!TypeOf(bank)
<1>1. a \in 0 .. 13 /\ b \in 0 .. 13
  OBVIOUS
<1>2. Bull!HandPayRate(a) \in 1 .. 5 /\ Bull!HandPayRate(b) \in 1 .. 5
  BY <1>1, HandPays
<1>3. \A rate \in Bull!CompareHandValue(mine, bank) : rate \in {1, -1}
  BY DEF Bull!CompareHandValue
<1>4. Bull!PayRates(mine, bank) =
         CASE a > b -> {Bull!HandPayRate(a)}
           [] a <= b /\ b # Bull!NoBull -> {-Bull!HandPayRate(b)}
           [] a <= b /\ b = Bull!NoBull -> Bull!CompareHandValue(mine, bank)
  BY DEF Bull!PayRates
<1> HIDE DEF a, b
<1>5. CASE a > b
  BY <1>1, <1>2, <1>4, <1>5
<1>6. CASE a <= b /\ b # Bull!NoBull
  <2>1. Bull!PayRates(mine, bank) = {-Bull!HandPayRate(b)}
    BY <1>1, <1>4, <1>6
  <2> QED BY <1>2, <2>1
<1>7. CASE a <= b /\ b = Bull!NoBull
  <2>1. Bull!PayRates(mine, bank) = Bull!CompareHandValue(mine, bank)
    BY <1>1, <1>4, <1>7
  <2> QED BY <1>3, <2>1
<1> QED BY <1>1, <1>5, <1>6, <1>7

-----------------------------------------------------------------------------
(* Any five values make a hand, and it has a type.                         *)
IsFive(s) == DOMAIN s = 1 .. 5 /\ \A i \in 1 .. 5 : s[i] \in 1 .. 13

LEMMA BullAscends == ASSUME NEW s PROVE Bull!Ascending(s) = Ascending(s)
<1>1. \A S : Bull!Cardinality(S) = Cardinality(S)
  BY SameSets
<1>2. \A S : Bull!Min(S) = Min(S)
  BY DEF Bull!Min, Min
<1>3. Bull!ToSet(s) = ToSet(s)
  BY SameSets
<1> QED BY <1>1, <1>2, <1>3, Zenon DEF Bull!Ascending, Ascending

LEMMA FiveAreTyped == ASSUME NEW s, IsFive(s) PROVE Bull!TypeOf(CardsOf(s)) \in 0 .. 13
<1> DEFINE cards == CardsOf(s)
           values == [i \in DOMAIN cards |-> Bull!Value(cards[i])]
           t == Ascending(s)
<1>1. \A i \in 1 .. 5 : Bull!Value(cards[i]) = s[i]
  BY DEF IsFive, CardsOf, Bull!Value, Bull!CardsPerSuit
<1>2. values = [i \in 1 .. 5 |-> s[i]]
  <2>1. DOMAIN cards = 1 .. 5
    BY DEF IsFive, CardsOf
  <2> HIDE DEF cards
  <2> QED BY <1>1, <2>1
<1> DEFINE five == [i \in 1 .. 5 |-> s[i]]
           u == Ascending(five)
<1>3. DOMAIN five = 1 .. 5 /\ \A i \in 1 .. 5 : five[i] \in 1 .. 13
  BY DEF IsFive
<1>4. DOMAIN u = 1 .. 5 /\ IsSortOf(u, five, 5)
  <2>1. DOMAIN five = 1 .. 5 /\ \A i \in 1 .. 5 : five[i] \in Int
    BY <1>3
  <2> HIDE DEF five
  <2> QED BY <2>1, AscendingSorts
<1>5. \A w \in ToSet(five) : w \in 1 .. 13
  <2> HIDE DEF five
  <2> QED BY <1>3 DEF ToSet
<1> HIDE DEF u, five
<1>6. IsHand(u)
  <2>1. \A i \in 1 .. 5 : u[i] \in 1 .. 13
    BY <1>4, <1>5 DEF IsSortOf
  <2>2. u[1] <= u[2] /\ u[2] <= u[3] /\ u[3] <= u[4] /\ u[4] <= u[5]
    BY <1>4 DEF IsSortOf
  <2> QED BY <1>4, <2>1, <2>2 DEF IsHand
<1>7. Bull!TypeOf(cards) = Bull!HandType(u)
  <2>1. Bull!SortedValues(values) = u
    BY <1>2, BullAscends DEF Bull!SortedValues, u, five
  <2> HIDE DEF cards
  <2> QED BY <2>1 DEF Bull!TypeOf
<1> QED BY <1>6, <1>7, BullRanked

LEMMA BankHandsTyped == ASSUME NEW bank \in BankHands PROVE Bull!TypeOf(CardsOf(bank)) \in 0 .. 13
<1>1. IsFive(<<1, 1, 2, 2, 3>>) /\ IsFive(<<11, 11, 12, 12, 13>>) /\ IsFive(<<4, 4, 4, 4, 9>>)
  BY DEF IsFive
<1>2. IsFive(<<5, 5, 10, 10, 10>>) /\ IsFive(<<2, 3, 5, 9, 10>>) /\ IsFive(<<1, 3, 5, 8, 13>>)
  BY DEF IsFive
<1>3. IsFive(bank)
  BY <1>1, <1>2 DEF BankHands
<1> QED BY <1>3, FiveAreTyped

LEMMA BullKeepsEdge == ASSUME NEW hand, IsFive(hand) PROVE BullfightPays(hand)
<1>1. ASSUME NEW bank \in BankHands, NEW rate \in Bull!PayRates(CardsOf(hand), CardsOf(bank))
      PROVE  Bull!Payout(5, rate) \in 0 .. 10 /\ (rate > 0) = (Bull!Payout(5, rate) > 5)
  <2>1. Bull!TypeOf(CardsOf(hand)) \in 0 .. 13 /\ Bull!TypeOf(CardsOf(bank)) \in 0 .. 13
    BY FiveAreTyped, BankHandsTyped
  <2>2. rate \in {-5, -4, -3, -2, -1, 1, 2, 3, 4, 5}
    BY <2>1, RatesPay
  <2> QED BY <2>2, BullPays
<1> QED BY <1>1 DEF BullfightPays

-----------------------------------------------------------------------------
(* Only one side of redblack wins, and of baccarat, unless both are pushed. *)
LEMMA RedBlackKeepsEdge ==
    ASSUME NEW red, NEW black
    PROVE  RB!Rate(red, black, RB!RedWin) + RB!Rate(red, black, RB!BlackWin) <= 200
<1> DEFINE won == RB!GameResult(red, black)
<1>1. RB!Rate(red, black, RB!RedWin) = IF won = 1 THEN 196 ELSE 0
  <2> HIDE DEF won
  <2>1. RB!Rate(red, black, RB!RedWin) = IF RB!RedWin = won THEN RB!RateWin ELSE 0
    BY DEF RB!Rate, RB!RedWin, RB!LuckyStrike, won
  <2> QED BY <2>1 DEF RB!RedWin, RB!RateWin
<1>2. RB!Rate(red, black, RB!BlackWin) = IF won = 2 THEN 196 ELSE 0
  <2> HIDE DEF won
  <2>1. RB!Rate(red, black, RB!BlackWin) = IF RB!BlackWin = won THEN RB!RateWin ELSE 0
    BY DEF RB!Rate, RB!BlackWin, RB!LuckyStrike, won
  <2> QED BY <2>1 DEF RB!BlackWin, RB!RateWin
<1> HIDE DEF won
<1> QED BY <1>1, <1>2

LEMMA BaccaratKeepsEdge ==
    ASSUME banker \in Seq(Nat), player \in Seq(Nat)
    PROVE  /\ \A x \in Bac!Rates(Bac!BankerWin), y \in Bac!Rates(Bac!PlayerWin) : x + y <= 200
           /\ Bac!ClassicRate(Bac!BankerWin) + Bac!ClassicRate(Bac!PlayerWin) <= 200
<1>1. Bac!BankerPoint \in 0 .. 9 /\ Bac!PlayerPoint \in 0 .. 9
  BY PointsSum DEF Bac!BankerPoint, Bac!PlayerPoint
<1>2. Bac!Result \in 1 .. 5
  <2>1. CASE Bac!PlayerPoint > Bac!BankerPoint
    BY <1>1, <2>1 DEF Bac!Result, Bac!ResultOf, Bac!Panda, Bac!PlayerWin
  <2>2. CASE Bac!BankerPoint > Bac!PlayerPoint
    BY <1>1, <2>2 DEF Bac!Result, Bac!ResultOf, Bac!Dragon, Bac!BankerWin
  <2>3. CASE Bac!BankerPoint = Bac!PlayerPoint
    BY <1>1, <2>3 DEF Bac!Result, Bac!ResultOf, Bac!Tie
  <2> QED BY <1>1, <2>1, <2>2, <2>3
<1>3. Bac!ClassicResult \in {1, 2, 4}
  <2>1. CASE Bac!PlayerPoint > Bac!BankerPoint
    BY <1>1, <2>1 DEF Bac!ClassicResult, Bac!ClassicResultOf, Bac!PlayerWin
  <2>2. CASE Bac!BankerPoint > Bac!PlayerPoint
    BY <1>1, <2>2 DEF Bac!ClassicResult, Bac!ClassicResultOf, Bac!BankerWin
  <2>3. CASE Bac!BankerPoint = Bac!PlayerPoint
    BY <1>1, <2>3 DEF Bac!ClassicResult, Bac!ClassicResultOf, Bac!ClassicTie
  <2> QED BY <1>1, <2>1, <2>2, <2>3
<1>4. \A r \in 1 .. 5 : 100 * Bac!PayoutMatrix[r][1] + 100 * Bac!PayoutMatrix[r][2] <= 200
  <2>1. /\ Bac!PayoutMatrix[1] = <<2, 0, 0, 0, 0>> /\ Bac!PayoutMatrix[2] = <<0, 2, 0, 0, 0>>
        /\ Bac!PayoutMatrix[3] = <<1, 1, 9, 0, 0>> /\ Bac!PayoutMatrix[4] = <<1, 0, 0, 41, 0>>
        /\ Bac!PayoutMatrix[5] = <<0, 2, 0, 0, 26>>
    BY DEF Bac!PayoutMatrix
  <2>2. \A r \in 1 .. 5 : Bac!PayoutMatrix[r][1] \in 0 .. 2 /\ Bac!PayoutMatrix[r][2] \in 0 .. 2 - Bac!PayoutMatrix[r][1]
    BY <2>1
  <2>3. ASSUME NEW x \in 0 .. 2, NEW y \in 0 .. 2 - x PROVE 100 * x + 100 * y <= 200
    OBVIOUS
  <2> QED BY <2>2, <2>3
<1>5. \A x \in Bac!Rates(Bac!BankerWin), y \in Bac!Rates(Bac!PlayerWin) : x + y <= 200
  <2> DEFINE r == Bac!Result
             M == Bac!PayoutMatrix
  <2>1. r \in 1 .. 5
    BY <1>2
  <2>2. ASSUME NEW t \in 1 .. 2, NEW R, R \in 1 .. 5
        PROVE  /\ 5 * (R - 1) + t - 1 \in 0 .. 24
               /\ ((5 * (R - 1) + t - 1) \div 5) + 1 = R /\ ((5 * (R - 1) + t - 1) % 5) + 1 = t
    <3>1. R = 1 \/ R = 2 \/ R = 3 \/ R = 4 \/ R = 5
      BY <2>2
    <3> QED BY <3>1
  <2>3. ASSUME NEW t \in 1 .. 2 PROVE Bac!Rates(t) = {100 * M[r][t]}
    <3> DEFINE place == 5 * (r - 1) + t - 1
    <3>1. place \in 0 .. 24 /\ (place \div 5) + 1 = r /\ (place % 5) + 1 = t
      BY <2>1, <2>2
    <3>2. Bac!Rates(t) = IF place \in 0 .. 24 THEN {100 * M[(place \div 5) + 1][(place % 5) + 1]}
                         ELSE {100 * b : b \in Bac!Byte}
      BY DEF Bac!Rates
    <3> HIDE DEF place, M, r
    <3> QED BY <3>1, <3>2
  <2>4. Bac!Rates(1) = {100 * M[r][1]} /\ Bac!Rates(2) = {100 * M[r][2]}
    BY <2>3
  <2>5. 100 * M[r][1] + 100 * M[r][2] <= 200
    BY <1>4, <2>1
  <2> HIDE DEF M, r
  <2> QED BY <2>4, <2>5 DEF Bac!BankerWin, Bac!PlayerWin
<1>6. /\ Bac!ClassicRate(Bac!BankerWin) = IF Bac!ClassicResult = 1 THEN 195 ELSE IF Bac!ClassicResult = 4 THEN 100 ELSE 0
      /\ Bac!ClassicRate(Bac!PlayerWin) = IF Bac!ClassicResult = 2 THEN 200 ELSE IF Bac!ClassicResult = 4 THEN 100 ELSE 0
  <2> DEFINE r == Bac!ClassicResult
  <2> USE DEF Bac!BankerWin, Bac!PlayerWin, Bac!ClassicTie
  <2>1. Bac!ClassicRate(1) = Bac!ClassicSide(r, 1) /\ Bac!ClassicRate(2) = Bac!ClassicSide(r, 2)
    BY DEF Bac!ClassicRate, Bac!BankerPair, Bac!PlayerPair
  <2>2. ASSUME NEW result \in {1, 2, 4}
        PROVE  /\ Bac!ClassicSide(result, 1) = Bac!WinOrPush(result, 1, 195)
               /\ Bac!ClassicSide(result, 2) = Bac!WinOrPush(result, 2, 200)
               /\ Bac!WinOrPush(result, 1, 195) = IF result = 1 THEN 195 ELSE IF result = 4 THEN 100 ELSE 0
               /\ Bac!WinOrPush(result, 2, 200) = IF result = 2 THEN 200 ELSE IF result = 4 THEN 100 ELSE 0
    BY DEF Bac!ClassicSide, Bac!WinOrPush
  <2> HIDE DEF r
  <2> QED BY <1>3, <2>1, <2>2 DEF r
<1>7. Bac!ClassicRate(Bac!BankerWin) + Bac!ClassicRate(Bac!PlayerWin) <= 200
  <2> DEFINE r == Bac!ClassicResult
  <2> HIDE DEF r
  <2> QED BY <1>3, <1>6 DEF r
<1> QED BY <1>5, <1>7

-----------------------------------------------------------------------------
(* What the games have come to: the values of bullfight are in order, each *)
(* wheel has a bet that is on its board, and cards are cards.              *)
DealtSound ==
    /\ part = "bullfight" =>
          /\ dealt \in Seq(1 .. 13) /\ Len(dealt) <= 5
          /\ \A i, j \in 1 .. Len(dealt) : i <= j => dealt[i] <= dealt[j]
    /\ part = "redblack" => dealt \in Seq(Nat) /\ Len(dealt) <= 6
    /\ part = "roulette" => dealt = <<>> \/ dealt[1] \in 1 .. 49
    /\ part = "quick3" => dealt = <<>> \/ dealt[1] \in 3 .. 25
    /\ part = "baccarat" => banker \in Seq(Nat) /\ player \in Seq(Nat)

LEMMA DealtInit == ASSUME LibraryInit PROVE DealtSound
<1>1. dealt = <<>> /\ (part = "baccarat" => banker = <<>> /\ player = <<>>)
  BY DEF LibraryInit, DealsInit, Bac!Init
<1>2. dealt \in Seq(1 .. 13) /\ dealt \in Seq(Nat) /\ Len(dealt) = 0
  BY <1>1
<1>3. part = "baccarat" => banker \in Seq(Nat) /\ player \in Seq(Nat)
  BY <1>1
<1> QED BY <1>1, <1>2, <1>3 DEF DealtSound

LEMMA DealtNext == ASSUME LibraryAssumption, DealtSound, [LibraryNext]_library PROVE DealtSound'
<1>0. part' = part
  BY DEF LibraryNext, library
<1>1. UNCHANGED <<dealt, banker, player>> \/ DealsNext
  BY DEF LibraryNext, library, table, sides
<1>2. CASE UNCHANGED <<dealt, banker, player>>
  BY <1>0, <1>2 DEF DealtSound
<1>3. ASSUME NEW drawn \in 0 .. DeckSize - 1, Draw(drawn) PROVE DealtSound'
  BY <1>0, <1>3 DEF Draw, DealtSound
<1>4. ASSUME NEW value \in 1 .. 13, Hold(value) PROVE DealtSound'
  <2>1. /\ part = "bullfight" /\ Len(dealt) < 5 /\ value >= Highest(dealt) /\ dealt' = Append(dealt, value)
        /\ dealt \in Seq(1 .. 13) /\ \A i, j \in 1 .. Len(dealt) : i <= j => dealt[i] <= dealt[j]
    BY <1>4 DEF Hold, DealtSound
  <2> DEFINE n == Len(dealt)
  <2>2. /\ n \in Nat /\ DOMAIN dealt = 1 .. n /\ \A i \in 1 .. n : dealt[i] \in 1 .. 13
    BY <2>1
  <2>3. /\ dealt' \in Seq(1 .. 13) /\ Len(dealt') = n + 1 /\ dealt'[n + 1] = value
        /\ \A i \in 1 .. n : dealt'[i] = dealt[i]
    BY <2>1
  <2>4. n # 0 => dealt[n] <= value
    <3>1. n # 0 => dealt # <<>>
      BY <2>1
    <3>2. n # 0 => Highest(dealt) = dealt[n]
      BY <3>1 DEF Highest, Last
    <3>3. n # 0 => dealt[n] \in Int
      BY <2>2
    <3> QED BY <2>1, <3>2, <3>3
  <2> HIDE DEF n
  <2>5. \A i \in 1 .. n : dealt[i] <= value
    <3>1. ASSUME NEW i \in 1 .. n PROVE dealt[i] <= value
      <4>1. dealt[i] <= dealt[n]
        BY <2>1, <2>2 DEF n
      <4>2. dealt[i] \in Int /\ dealt[n] \in Int /\ n # 0
        BY <2>2
      <4> QED BY <2>4, <4>1, <4>2
    <3> QED BY <3>1
  <2>6. \A i, j \in 1 .. n + 1 : i <= j => dealt'[i] <= dealt'[j]
    <3>1. ASSUME NEW i \in 1 .. n + 1, NEW j \in 1 .. n + 1, i <= j PROVE dealt'[i] <= dealt'[j]
      <4>1. CASE j = n + 1 /\ i = n + 1
        BY <2>3, <4>1
      <4>2. CASE j = n + 1 /\ i \in 1 .. n
        BY <2>3, <2>5, <4>2
      <4>3. CASE j \in 1 .. n
        <5>1. i \in 1 .. n
          BY <2>2, <3>1, <4>3
        <5>2. dealt'[i] = dealt[i] /\ dealt'[j] = dealt[j] /\ dealt[i] <= dealt[j]
          BY <2>1, <2>3, <3>1, <4>3, <5>1 DEF n
        <5> QED BY <5>2
      <4> QED BY <2>2, <4>1, <4>2, <4>3
    <3> QED BY <3>1
  <2>7. n + 1 <= 5
    BY <2>1, <2>2 DEF n
  <2> QED BY <1>0, <2>1, <2>3, <2>6, <2>7 DEF DealtSound
<1>5. ASSUME NEW card \in RedDeck, Give(card) PROVE DealtSound'
  <2>1. part = "redblack" /\ Len(dealt) < 6 /\ dealt' = Append(dealt, card) /\ dealt \in Seq(Nat) /\ card \in Nat
    BY <1>5 DEF Give, DealtSound, LibraryAssumption
  <2>2. dealt' \in Seq(Nat) /\ Len(dealt') = Len(dealt) + 1 /\ Len(dealt) \in Nat
    BY <2>1
  <2>3. Len(dealt') <= 6
    BY <2>1, <2>2
  <2> QED BY <1>0, <2>1, <2>2, <2>3 DEF DealtSound
<1>6. ASSUME NEW bet_type \in 1 .. 49, Bet(bet_type) PROVE DealtSound'
  BY <1>0, <1>6 DEF Bet, DealtSound, Wheel!Quick3Bets
<1>7. ASSUME part = "baccarat", Bac!Next PROVE DealtSound'
  <2>1. banker \in Seq(Nat) /\ player \in Seq(Nat)
    BY <1>7 DEF DealtSound
  <2>2. PICK card \in BaccaratDeck : Bac!DealFirst(card) \/ Bac!PlayerThird(card) \/ Bac!BankerThird(card)
    BY <1>7 DEF Bac!Next
  <2>3. card \in Nat
    BY <2>2 DEF LibraryAssumption
  <2>4. banker' \in Seq(Nat) /\ player' \in Seq(Nat)
    <3>1. banker' = banker \/ banker' = Append(banker, card)
      BY <2>2 DEF Bac!DealFirst, Bac!PlayerThird, Bac!BankerThird
    <3>2. player' = player \/ player' = Append(player, card)
      BY <2>2 DEF Bac!DealFirst, Bac!PlayerThird, Bac!BankerThird
    <3>3. ASSUME NEW s \in Seq(Nat) PROVE Append(s, card) \in Seq(Nat)
      BY <2>3
    <3> QED BY <2>1, <3>1, <3>2, <3>3
  <2> QED BY <1>0, <1>7, <2>4 DEF DealtSound
<1>8. CASE DealsNext
  BY <1>3, <1>4, <1>5, <1>6, <1>7, <1>8 DEF DealsNext
<1> QED BY <1>1, <1>2, <1>8

LEMMA FiveHeld ==
    ASSUME DealtSound, part = "bullfight", Len(dealt) = 5
    PROVE  IsFive(dealt) /\ IsHand(dealt)
<1>1. /\ dealt \in Seq(1 .. 13) /\ DOMAIN dealt = 1 .. 5
      /\ \A i, j \in 1 .. 5 : i <= j => dealt[i] <= dealt[j]
  BY DEF DealtSound
<1>2. \A i \in 1 .. 5 : dealt[i] \in 1 .. 13
  <2> DEFINE R == 1 .. 13
  <2>1. dealt \in Seq(R) /\ DOMAIN dealt = 1 .. 5
    BY <1>1
  <2>2. \A i \in DOMAIN dealt : dealt[i] \in R
    <3> HIDE DEF R
    <3> QED BY <2>1
  <2> QED BY <2>1, <2>2
<1>3. dealt[1] <= dealt[2] /\ dealt[2] <= dealt[3] /\ dealt[3] <= dealt[4] /\ dealt[4] <= dealt[5]
  BY <1>1
<1> QED BY <1>1, <1>2, <1>3 DEF IsFive, IsHand

(* Whatever the cards of the decks, the two sides of a game (red and       *)
(* black, banker and player) pay at most their stakes together, a hand of  *)
(* bullfight at most double, and a wheel over all its numbers at most what *)
(* is staked.  Bet types that no game names are not meant (ColumnsPay).    *)
THEOREM OddsAlwaysKeepEdge ==
    ASSUME LibraryAssumption
    PROVE  LibrarySpec => []OddsKeepEdge
<1>1. LibraryInit => DealtSound
  BY DealtInit
<1>2. DealtSound /\ [LibraryNext]_library => DealtSound'
  BY DealtNext
<1>3. DealtSound => OddsKeepEdge
  <2> SUFFICES ASSUME DealtSound PROVE OddsKeepEdge
    OBVIOUS
  <2>1. NoSureWin
    <3>1. part = "bullfight" /\ Len(dealt) = 5 => BullfightPays(dealt)
      BY FiveHeld, BullKeepsEdge
    <3>2. part = "redblack" /\ Len(dealt) = 6 =>
             RB!Rate(Red, Black, RB!RedWin) + RB!Rate(Red, Black, RB!BlackWin) <= 200
      BY RedBlackKeepsEdge
    <3>3. part = "baccarat" /\ stage = "done" =>
             /\ \A x \in Bac!Rates(Bac!BankerWin), y \in Bac!Rates(Bac!PlayerWin) : x + y <= 200
             /\ Bac!ClassicRate(Bac!BankerWin) + Bac!ClassicRate(Bac!PlayerWin) <= 200
      BY BaccaratKeepsEdge DEF DealtSound
    <3> QED BY <3>1, <3>2, <3>3 DEF NoSureWin
  <2>2. WheelsKeepEdge
    <3>1. part = "roulette" /\ dealt # <<>> => Wheel!RouletteReturn(dealt[1]) <= 37
      BY RouletteEdge DEF DealtSound
    <3>2. part = "quick3" /\ dealt # <<>> => Wheel!Quick3Return(dealt[1]) <= 21600
      BY Quick3Edge DEF DealtSound
    <3>3. 216 * 100 = 21600
      OBVIOUS
    <3> QED BY <3>1, <3>2, <3>3 DEF WheelsKeepEdge
  <2> QED BY <2>1, <2>2 DEF OddsKeepEdge
<1> QED BY <1>1, <1>2, <1>3, PTL DEF LibrarySpec

-----------------------------------------------------------------------------
(* The points of a hand of redblack: three values in order.                *)
IsPoints(p) ==
    /\ DOMAIN p = 1 .. 3 /\ p[1] \in 2 .. 14 /\ p[2] \in 2 .. 14 /\ p[3] \in 2 .. 14
    /\ p[1] <= p[2] /\ p[2] <= p[3]

LEMMA RedSets ==
    ASSUME NEW s
    PROVE  RB!ToSet(s) = ToSet(s) /\ RB!Cardinality(s) = Cardinality(s) /\ RB!Max(s) = Max(s) /\ RB!Min(s) = Min(s)
  BY DEF RB!ToSet, ToSet, RB!Cardinality, Cardinality, RB!Max, Max, RB!Min, Min

LEMMA RedAscends == ASSUME NEW s PROVE RB!Ascending(s) = Ascending(s)
<1>1. \A S : RB!Cardinality(S) = Cardinality(S)
  BY RedSets
<1>2. \A S : RB!Min(S) = Min(S)
  BY RedSets
<1>3. RB!ToSet(s) = ToSet(s)
  BY RedSets
<1> QED BY <1>1, <1>2, <1>3, Zenon DEF RB!Ascending, Ascending

LEMMA PointsOrdered ==
    ASSUME NEW hand, DOMAIN hand = 1 .. 3, \A i \in 1 .. 3 : hand[i] \in Nat
    PROVE  IsPoints(RB!Points(hand))
<1> DEFINE values == [i \in DOMAIN hand |-> RB!ValueWithAce(hand[i])]
           p == Ascending(values)
<1>1. DOMAIN values = 1 .. 3 /\ \A i \in 1 .. 3 : values[i] \in 2 .. 14
  BY DEF RB!ValueWithAce, RB!Value, RB!CardsPerSuit, RB!AceHighValue
<1>2. RB!Points(hand) = p
  BY RedAscends DEF RB!Points
<1> HIDE DEF values, p
<1>3. DOMAIN p = 1 .. 3 /\ IsSortOf(p, values, 3)
  <2>1. DOMAIN values = 1 .. 3 /\ \A i \in 1 .. 3 : values[i] \in Int
    BY <1>1
  <2> QED BY <2>1, AscendingSorts DEF p
<1>4. \A w \in ToSet(values) : w \in 2 .. 14
  BY <1>1 DEF ToSet
<1>5. p[1] \in 2 .. 14 /\ p[2] \in 2 .. 14 /\ p[3] \in 2 .. 14
  BY <1>3, <1>4 DEF IsSortOf
<1>6. p[1] <= p[2] /\ p[2] <= p[3]
  BY <1>3 DEF IsSortOf
<1> QED BY <1>2, <1>3, <1>5, <1>6 DEF IsPoints

-----------------------------------------------------------------------------
(* The first comparison that decides, of two or of three.                  *)
Decides(won, other) == IF won # 0 THEN won ELSE other
IsDecidedOn(g, results, S) ==
    g = [T \in SUBSET S |-> IF T = {} THEN 0 ELSE Decides(g[T \ {RB!Max(T)}], results[RB!Max(T)])]

LEMMA DecisionIsChosen ==
    ASSUME NEW results
    PROVE  RB!FirstDecided(results) = (CHOOSE g : IsDecidedOn(g, results, DOMAIN results))[DOMAIN results]
  BY DEF RB!FirstDecided, RB!FoldLeft, RB!MapThenFoldSet, IsDecidedOn, Decides

LEMMA DecisionExists ==
    ASSUME NEW results, NEW n \in Nat, \A i \in 1 .. n : results[i] \in Int
    PROVE  \E g : IsDecidedOn(g, results, 1 .. n)
<1> DEFINE S == 1 .. n
           Ints == Int
           zero == 0
           step == [i \in S |-> [won \in Ints |-> Decides(won, results[i])]]
<1>1. IsFiniteSet(S) /\ \A x \in S : x \in Int
  BY FS_Interval
<1>2. zero \in Ints /\ \A i \in S, won \in Ints : step[i][won] = Decides(won, results[i]) /\ step[i][won] \in Ints
  BY DEF Decides
<1>3. PICK g : IsFoldOn(g, step, zero, S)
  <2> HIDE DEF S, step, zero
  <2> QED BY <1>1, FoldExists
<1>4. \A T \in SUBSET S : g[T] \in Ints
  <2> HIDE DEF S, step, Ints, zero
  <2> QED BY <1>1, <1>2, <1>3, FoldKeeps
<1>5. ASSUME NEW T \in SUBSET S, T # {}
      PROVE  step[Max(T)][g[T \ {Max(T)}]] = Decides(g[T \ {Max(T)}], results[Max(T)])
  <2>1. Max(T) \in S /\ Max(T) \in T
    BY <1>5, MaxOfSome
  <2>2. g[T \ {Max(T)}] \in Ints
    BY <1>4
  <2> HIDE DEF step, Ints
  <2> QED BY <1>2, <2>1, <2>2
<1>6. IsDecidedOn(g, results, S)
  <2> HIDE DEF step, S
  <2> QED BY <1>3, <1>5, RedSets DEF IsFoldOn, IsDecidedOn, zero
<1> QED BY <1>6

LEMMA DecisionUnfolds ==
    ASSUME NEW results, NEW n \in {2, 3}, DOMAIN results = 1 .. n, \A i \in 1 .. n : results[i] \in Int
    PROVE  /\ n = 2 => RB!FirstDecided(results) = Decides(results[1], results[2])
           /\ n = 3 => RB!FirstDecided(results) = Decides(Decides(results[1], results[2]), results[3])
<1> DEFINE G == CHOOSE g : IsDecidedOn(g, results, 1 .. n)
<1>1. IsDecidedOn(G, results, 1 .. n) /\ RB!FirstDecided(results) = G[1 .. n]
  <2>1. n \in Nat
    OBVIOUS
  <2>2. \E g : IsDecidedOn(g, results, 1 .. n)
    BY <2>1, DecisionExists
  <2> QED BY <2>2, DecisionIsChosen
<1> HIDE DEF G
<1>2. G[1 .. 0] = 0
  <2>1. 1 .. 0 = {} /\ {} \in SUBSET (1 .. n)
    OBVIOUS
  <2> QED BY <1>1, <2>1 DEF IsDecidedOn
<1>3. ASSUME NEW k \in 1 .. n PROVE G[1 .. k] = Decides(G[1 .. k - 1], results[k])
  <2>1. (1 .. k) \in SUBSET (1 .. n) /\ 1 .. k # {}
    <3>1. \A i \in 1 .. k : i \in 1 .. n
      OBVIOUS
    <3>2. k \in 1 .. k
      OBVIOUS
    <3> QED BY <3>1, <3>2
  <2>2. Max(1 .. k) = k
    BY MaxUpTo
  <2>3. (1 .. k) \ {k} = 1 .. k - 1
    OBVIOUS
  <2> QED BY <1>1, <2>1, <2>2, <2>3, RedSets DEF IsDecidedOn
<1>4. /\ G[1 .. 1] = Decides(0, results[1]) /\ G[1 .. 2] = Decides(G[1 .. 1], results[2])
      /\ n = 3 => G[1 .. 3] = Decides(G[1 .. 2], results[3])
  <2>1. G[1 .. 1] = Decides(G[1 .. 1 - 1], results[1]) /\ G[1 .. 2] = Decides(G[1 .. 2 - 1], results[2])
    <3>1. 1 \in 1 .. n /\ 2 \in 1 .. n
      OBVIOUS
    <3> QED BY <1>3, <3>1
  <2>2. n = 3 => G[1 .. 3] = Decides(G[1 .. 3 - 1], results[3])
    BY <1>3
  <2>3. 1 - 1 = 0 /\ 2 - 1 = 1 /\ 3 - 1 = 2
    OBVIOUS
  <2> QED BY <1>2, <2>1, <2>2, <2>3
<1>5. Decides(0, results[1]) = results[1]
  BY DEF Decides
<1> QED BY <1>1, <1>4, <1>5

-----------------------------------------------------------------------------
(* What a hand is, and its rank, read off its points.                      *)
Three(p) == p[1] = p[2] /\ p[2] = p[3]
Low23A(p) == p[1] = 2 /\ p[2] = 3 /\ p[3] = 14
InRun(p) == Low23A(p) \/ (p[2] = p[1] + 1 /\ p[3] = p[2] + 1)
Paired(p) == p[1] = p[2] \/ p[2] = p[3]
Lone(p) == IF p[1] = p[2] THEN p[3] ELSE p[1]
KindOf(p, same) ==
    IF Three(p) THEN 6
    ELSE IF InRun(p) THEN (IF same THEN 5 ELSE 3)
    ELSE IF same THEN 4
    ELSE IF Paired(p) THEN (IF p[2] < 9 THEN 1 ELSE 2)
    ELSE 0
RankAs(p, same) ==
    IF Three(p) THEN <<6, p[1], 0, 0>>
    ELSE IF InRun(p) THEN <<IF same THEN 5 ELSE 3, IF Low23A(p) THEN 3 ELSE p[3], 0, 0>>
    ELSE IF same THEN <<4, p[3], p[2], p[1]>>
    ELSE IF Paired(p) THEN <<IF p[2] < 9 THEN 1 ELSE 2, p[2], Lone(p), 0>>
    ELSE <<0, p[3], p[2], p[1]>>

LEMMA KindFound ==
    ASSUME NEW p, IsPoints(p), NEW same \in BOOLEAN
    PROVE  RB!HandType(p, same) = KindOf(p, same)
<1> DEFINE straight == \A i \in 2 .. 3 : RB!Follows(p[i - 1], p[i])
           three == \A i \in 2 .. 3 : p[i - 1] = p[i]
           pair == \E i \in 2 .. 3 : p[i - 1] = p[i]
<1>1. three <=> Three(p)
  <2>1. three <=> p[2 - 1] = p[2] /\ p[3 - 1] = p[3]
    OBVIOUS
  <2> QED BY <2>1 DEF Three
<1>2. pair <=> Paired(p)
  <2>1. pair <=> p[2 - 1] = p[2] \/ p[3 - 1] = p[3]
    OBVIOUS
  <2> QED BY <2>1 DEF Paired
<1>3. straight <=> InRun(p)
  <2>1. straight <=> RB!Follows(p[2 - 1], p[2]) /\ RB!Follows(p[3 - 1], p[3])
    OBVIOUS
  <2>2. straight <=> RB!Follows(p[1], p[2]) /\ RB!Follows(p[2], p[3])
    BY <2>1
  <2> HIDE DEF straight
  <2> QED BY <2>2 DEF RB!Follows, RB!AceHighValue, InRun, Low23A, IsPoints
<1>4. RB!HandType(p, same) =
         CASE three -> RB!ThreeOfAKind
           [] ~three /\ straight -> IF same THEN RB!StraightFlush ELSE RB!Straight
           [] ~three /\ ~straight /\ same -> RB!Flush
           [] ~three /\ ~straight /\ ~same /\ pair -> IF p[2] < 9 THEN RB!SmallPair ELSE RB!Pair
           [] OTHER -> 0
  BY Zenon DEF RB!HandType
<1> HIDE DEF three, pair, straight
<1>5. RB!HandType(p, same) =
         IF three THEN 6 ELSE IF straight THEN (IF same THEN 5 ELSE 3) ELSE IF same THEN 4
         ELSE IF pair THEN (IF p[2] < 9 THEN 1 ELSE 2) ELSE 0
  BY <1>4 DEF RB!ThreeOfAKind, RB!StraightFlush, RB!Straight, RB!Flush, RB!SmallPair, RB!Pair
<1> QED BY <1>1, <1>2, <1>3, <1>5 DEF KindOf

LEMMA TwoCounted ==
    ASSUME NEW x, NEW y, x # y
    PROVE  IsFiniteSet({x, y}) /\ Cardinality({x, y}) = 2 /\ Cardinality({x}) = 1
<1>1. IsFiniteSet({x}) /\ Cardinality({x}) = 1
  BY FS_Singleton
<1>2. IsFiniteSet({x} \cup {y}) /\ Cardinality({x} \cup {y}) = Cardinality({x}) + 1
  BY <1>1, FS_AddElement
<1>3. {x} \cup {y} = {x, y}
  OBVIOUS
<1> QED BY <1>1, <1>2, <1>3

(* How many of the points are the same.                                    *)
LEMMA PointsCounted ==
    ASSUME NEW p, IsPoints(p)
    PROVE  /\ RB!Cardinality(RB!ToSet(p)) = 1 <=> Three(p)
           /\ ~Three(p) => (RB!Pairs(p) # {} <=> Paired(p))
           /\ ~Three(p) /\ Paired(p) => RB!Pairs(p) = {p[2]} /\ RB!Singles(p) = {Lone(p)}
<1> DEFINE x == p[1]
           y == p[2]
           z == p[3]
           At(v) == {i \in 1 .. 3 : p[i] = v}
<1>1. x \in Int /\ y \in Int /\ z \in Int /\ x <= y /\ y <= z
  BY DEF IsPoints
<1>2. RB!ToSet(p) = {x, y, z}
  <2>1. DOMAIN p = 1 .. 3
    BY DEF IsPoints
  <2> QED BY <2>1 DEF RB!ToSet
<1>3. RB!Pairs(p) = {v \in {x, y, z} : Cardinality(At(v)) = 2} /\ RB!Singles(p) = {v \in {x, y, z} : Cardinality(At(v)) = 1}
  <2>1. \A S : RB!Cardinality(S) = Cardinality(S)
    BY RedSets
  <2> QED BY <1>2, <2>1, Zenon DEF RB!Pairs, RB!Singles
<1>4. RB!Cardinality({x, y, z}) = Cardinality({x, y, z})
  BY RedSets
<1>5. \A v : At(v) = {i \in {1, 2, 3} : (i = 1 /\ x = v) \/ (i = 2 /\ y = v) \/ (i = 3 /\ z = v)}
  OBVIOUS
<1> HIDE DEF x, y, z, At
<1>6. CASE x = y /\ y = z
  <2>1. {x, y, z} = {x}
    BY <1>6
  <2>2. Cardinality({x, y, z}) = 1
    BY <2>1, FS_Singleton
  <2> QED BY <1>2, <1>4, <1>6, <2>2 DEF Three, x, y, z
<1>7. CASE x = y /\ y # z
  <2>1. {x, y, z} = {y, z}
    BY <1>7
  <2>2. Cardinality({x, y, z}) = 2
    <3>1. Cardinality({y, z}) = 2
      BY <1>7, TwoCounted, Zenon
    <3> QED BY <2>1, <3>1
  <2>3. At(y) = {1, 2} /\ At(z) = {3}
    BY <1>5, <1>7
  <2>4. Cardinality(At(y)) = 2 /\ Cardinality(At(z)) = 1
    <3>1. Cardinality({1, 2}) = 2 /\ Cardinality({3}) = 1
      <4>1. 1 # 2 /\ 3 # 4
        OBVIOUS
      <4> QED BY <4>1, TwoCounted
    <3> QED BY <2>3, <3>1
  <2>5. RB!Pairs(p) = {y} /\ RB!Singles(p) = {z}
    BY <1>3, <2>1, <2>4
  <2>6. ~Three(p) /\ Paired(p) /\ Lone(p) = z
    BY <1>7 DEF Three, Paired, Lone, x, y, z
  <2> QED BY <1>2, <1>4, <2>2, <2>5, <2>6 DEF y
<1>8. CASE x # y /\ y = z
  <2>1. {x, y, z} = {x, y}
    BY <1>8
  <2>2. Cardinality({x, y, z}) = 2
    <3>1. Cardinality({x, y}) = 2
      BY <1>8, TwoCounted, Zenon
    <3> QED BY <2>1, <3>1
  <2>3. At(y) = {2, 3} /\ At(x) = {1}
    BY <1>5, <1>8
  <2>4. Cardinality(At(y)) = 2 /\ Cardinality(At(x)) = 1
    <3>1. Cardinality({2, 3}) = 2 /\ Cardinality({1}) = 1
      <4>1. 2 # 3 /\ 1 # 2
        OBVIOUS
      <4> QED BY <4>1, TwoCounted
    <3> QED BY <2>3, <3>1
  <2>5. RB!Pairs(p) = {y} /\ RB!Singles(p) = {x}
    BY <1>3, <2>1, <2>4
  <2>6. ~Three(p) /\ Paired(p) /\ Lone(p) = x
    BY <1>8 DEF Three, Paired, Lone, x, y, z
  <2> QED BY <1>2, <1>4, <2>2, <2>5, <2>6 DEF y
<1>9. CASE x # y /\ y # z
  <2>1. x # z
    BY <1>1, <1>9
  <2>2. Cardinality({x, y, z}) = 3
    <3>1. IsFiniteSet({x, y}) /\ Cardinality({x, y}) = 2
      BY <1>9, TwoCounted
    <3>2. Cardinality({x, y} \cup {z}) = Cardinality({x, y}) + 1
      BY <1>9, <2>1, <3>1, FS_AddElement
    <3>3. {x, y} \cup {z} = {x, y, z}
      OBVIOUS
    <3> QED BY <3>1, <3>2, <3>3
  <2>3. At(x) = {1} /\ At(y) = {2} /\ At(z) = {3}
    BY <1>5, <1>9, <2>1
  <2>4. \A v \in {x, y, z} : Cardinality(At(v)) = 1
    BY <2>3, FS_Singleton
  <2>5. RB!Pairs(p) = {}
    BY <1>3, <2>4
  <2>6. ~Three(p) /\ ~Paired(p)
    BY <1>9 DEF Three, Paired, x, y, z
  <2> QED BY <1>2, <1>4, <2>2, <2>5, <2>6
<1> QED BY <1>6, <1>7, <1>8, <1>9

-----------------------------------------------------------------------------
LEMMA MaxOfOne == ASSUME NEW v \in Int PROVE RB!Max({v}) = v
<1>1. IsFiniteSet({v}) /\ {v} # {} /\ \A x \in {v} : x \in Int
  BY FS_Singleton
<1>2. Max({v}) \in {v}
  BY <1>1, MaxIn
<1> QED BY <1>2, RedSets

LEMMA RunFound ==
    ASSUME NEW p, IsPoints(p)
    PROVE  /\ RB!ToSet(p) = {2, 3, RB!AceHighValue} <=> Low23A(p)
           /\ RB!IsRun(p) <=> InRun(p)
<1> DEFINE x == p[1]
           y == p[2]
           z == p[3]
<1>1. x \in 2 .. 14 /\ y \in 2 .. 14 /\ z \in 2 .. 14 /\ x <= y /\ y <= z
  BY DEF IsPoints
<1>2. RB!ToSet(p) = {x, y, z}
  <2>1. DOMAIN p = 1 .. 3
    BY DEF IsPoints
  <2> QED BY <2>1 DEF RB!ToSet
<1> HIDE DEF x, y, z
<1>3. ASSUME NEW a \in Int, NEW b \in Int, NEW c \in Int, a < b, b < c
      PROVE  {x, y, z} = {a, b, c} <=> x = a /\ y = b /\ z = c
  <2>1. ASSUME {x, y, z} = {a, b, c} PROVE x = a /\ y = b /\ z = c
    <3>1. \A w : w \in {x, y, z} <=> w \in {a, b, c}
      BY <2>1, Zenon
    <3>2. (x = a \/ x = b \/ x = c) /\ (y = a \/ y = b \/ y = c) /\ (z = a \/ z = b \/ z = c)
      BY <3>1
    <3>3. (a = x \/ a = y \/ a = z) /\ (b = x \/ b = y \/ b = z) /\ (c = x \/ c = y \/ c = z)
      BY <3>1
    <3> QED BY <1>1, <1>3, <3>2, <3>3
  <2> QED BY <2>1
<1>4. RB!ToSet(p) = {2, 3, RB!AceHighValue} <=> Low23A(p)
  <2>1. {x, y, z} = {2, 3, 14} <=> x = 2 /\ y = 3 /\ z = 14
    BY <1>3
  <2> QED BY <1>2, <2>1 DEF RB!AceHighValue, Low23A, x, y, z
<1>5. (\E v \in 2 .. 12 : RB!ToSet(p) = {v, v + 1, v + 2}) <=> (y = x + 1 /\ z = y + 1)
  <2>1. ASSUME NEW v \in 2 .. 12, RB!ToSet(p) = {v, v + 1, v + 2} PROVE y = x + 1 /\ z = y + 1
    <3>1. x = v /\ y = v + 1 /\ z = v + 2
      <4>1. v \in Int /\ v + 1 \in Int /\ v + 2 \in Int /\ v < v + 1 /\ v + 1 < v + 2
        OBVIOUS
      <4> QED BY <1>2, <1>3, <2>1, <4>1
    <3> QED BY <3>1
  <2>2. ASSUME y = x + 1, z = y + 1 PROVE \E v \in 2 .. 12 : RB!ToSet(p) = {v, v + 1, v + 2}
    <3>1. x \in 2 .. 12 /\ y = x + 1 /\ z = x + 2
      BY <1>1, <2>2
    <3> QED BY <1>2, <3>1
  <2> QED BY <2>1, <2>2
<1> QED BY <1>4, <1>5 DEF RB!IsRun, InRun, x, y, z

(* The rank the rules give is the one read off the points.                 *)
LEMMA RankFound ==
    ASSUME NEW hand, IsPoints(RB!Points(hand))
    PROVE  RB!Rank(hand) = RankAs(RB!Points(hand), RB!SameSuit(hand))
<1> DEFINE p == RB!Points(hand)
           same == RB!SameSuit(hand)
           low == RB!ToSet(p) = {2, 3, RB!AceHighValue}
           three == RB!Cardinality(RB!ToSet(p)) = 1
           run == ~three /\ RB!IsRun(p)
           pairs == RB!Pairs(p) # {}
           tens == RB!Max(RB!Pairs(p))
           other == RB!Max(RB!Singles(p))
<1>1. RB!Rank(hand) =
         CASE three -> <<RB!ThreeOfAKind, p[1], 0, 0>>
           [] run -> <<IF same THEN RB!StraightFlush ELSE RB!Straight, IF low THEN 3 ELSE p[3], 0, 0>>
           [] ~three /\ ~run /\ same -> <<RB!Flush, p[3], p[2], p[1]>>
           [] ~three /\ ~run /\ ~same /\ pairs -> <<IF tens < 9 THEN RB!SmallPair ELSE RB!Pair, tens, other, 0>>
           [] OTHER -> <<0, p[3], p[2], p[1]>>
  BY Zenon DEF RB!Rank
<1>2. IsPoints(p)
  OBVIOUS
<1> HIDE DEF p
<1>3. (three <=> Three(p)) /\ (low <=> Low23A(p)) /\ (RB!IsRun(p) <=> InRun(p))
  BY <1>2, PointsCounted, RunFound
<1>4. run <=> ~Three(p) /\ InRun(p)
  BY <1>3
<1>5. ~Three(p) => (pairs <=> Paired(p))
  BY <1>2, PointsCounted
<1>6. ~Three(p) /\ Paired(p) => tens = p[2] /\ other = Lone(p)
  <2>1. p[2] \in Int /\ Lone(p) \in Int
    BY <1>2 DEF IsPoints, Lone
  <2>2. ~Three(p) /\ Paired(p) => RB!Pairs(p) = {p[2]} /\ RB!Singles(p) = {Lone(p)}
    BY <1>2, PointsCounted
  <2> QED BY <2>1, <2>2, MaxOfOne
<1> HIDE DEF same, low, three, run, pairs, tens, other
<1>7. CASE Three(p)
  <2>1. RB!Rank(hand) = <<6, p[1], 0, 0>>
    BY <1>1, <1>3, <1>4, <1>7 DEF RB!ThreeOfAKind
  <2> QED BY <1>7, <2>1 DEF RankAs, p
<1>8. CASE ~Three(p) /\ InRun(p)
  <2>1. RB!Rank(hand) = <<IF same THEN 5 ELSE 3, IF low THEN 3 ELSE p[3], 0, 0>>
    BY <1>1, <1>3, <1>4, <1>8 DEF RB!StraightFlush, RB!Straight
  <2> QED BY <1>3, <1>8, <2>1 DEF RankAs, p, same
<1>9. CASE ~Three(p) /\ ~InRun(p) /\ same
  <2>1. RB!Rank(hand) = <<4, p[3], p[2], p[1]>>
    BY <1>1, <1>3, <1>4, <1>9 DEF RB!Flush
  <2> QED BY <1>9, <2>1 DEF RankAs, p, same
<1>10. CASE ~Three(p) /\ ~InRun(p) /\ ~same /\ Paired(p)
  <2>1. RB!Rank(hand) = <<IF p[2] < 9 THEN 1 ELSE 2, p[2], Lone(p), 0>>
    BY <1>1, <1>3, <1>4, <1>5, <1>6, <1>10 DEF RB!SmallPair, RB!Pair
  <2> QED BY <1>10, <2>1 DEF RankAs, p, same
<1>11. CASE ~Three(p) /\ ~InRun(p) /\ ~same /\ ~Paired(p)
  <2>1. RB!Rank(hand) = <<0, p[3], p[2], p[1]>>
    BY <1>1, <1>3, <1>4, <1>5, <1>11
  <2> QED BY <1>11, <2>1 DEF RankAs, p, same
<1> QED BY <1>7, <1>8, <1>9, <1>10, <1>11

-----------------------------------------------------------------------------
(* What a rank has after the kind of its hand.                             *)
IsRankOf(k, p, r) ==
    /\ k = 6 => r = <<k, p[1], 0, 0>>
    /\ k \in {3, 5} => r = <<k, RB!TopOfStraight(p), 0, 0>>
    /\ k \in {1, 2} => r = <<k, p[2], RB!Kicker(p), 0>>
    /\ k \in {0, 4} => r = <<k, p[3], p[2], p[1]>>

LEMMA RankByKind ==
    ASSUME NEW p, IsPoints(p), NEW same \in BOOLEAN, NEW k, k = KindOf(p, same)
    PROVE  /\ k \in 0 .. 6 /\ IsRankOf(k, p, RankAs(p, same))
           /\ p[1] \in Int /\ p[2] \in Int /\ p[3] \in Int /\ RB!TopOfStraight(p) \in Int /\ RB!Kicker(p) \in Int
<1>1. p[1] \in 2 .. 14 /\ p[2] \in 2 .. 14 /\ p[3] \in 2 .. 14
  BY DEF IsPoints
<1>2. RB!TopOfStraight(p) = IF p[1] = 2 /\ p[3] = 14 THEN p[2] ELSE p[3]
  BY DEF RB!TopOfStraight, RB!AceHighValue
<1>3. RB!Kicker(p) = Lone(p) /\ Lone(p) \in Int
  BY <1>1 DEF RB!Kicker, Lone
<1>4. InRun(p) => RB!TopOfStraight(p) = IF Low23A(p) THEN 3 ELSE p[3]
  BY <1>1, <1>2 DEF InRun, Low23A
<1>5. RB!TopOfStraight(p) \in Int
  BY <1>1, <1>2
<1>6. ASSUME Three(p) PROVE k \in 0 .. 6 /\ IsRankOf(k, p, RankAs(p, same))
  <2>1. k = 6 /\ RankAs(p, same) = <<6, p[1], 0, 0>>
    BY <1>6 DEF KindOf, RankAs
  <2> QED BY <2>1 DEF IsRankOf
<1>7. ASSUME ~Three(p), InRun(p) PROVE k \in 0 .. 6 /\ IsRankOf(k, p, RankAs(p, same))
  <2>1. k \in {3, 5} /\ RankAs(p, same) = <<k, RB!TopOfStraight(p), 0, 0>>
    BY <1>4, <1>7 DEF KindOf, RankAs
  <2> QED BY <2>1 DEF IsRankOf
<1>8. ASSUME ~Three(p), ~InRun(p), same PROVE k \in 0 .. 6 /\ IsRankOf(k, p, RankAs(p, same))
  <2>1. k = 4 /\ RankAs(p, same) = <<4, p[3], p[2], p[1]>>
    BY <1>8 DEF KindOf, RankAs
  <2> QED BY <2>1 DEF IsRankOf
<1>9. ASSUME ~Three(p), ~InRun(p), ~same, Paired(p) PROVE k \in 0 .. 6 /\ IsRankOf(k, p, RankAs(p, same))
  <2>1. k \in {1, 2} /\ RankAs(p, same) = <<k, p[2], RB!Kicker(p), 0>>
    BY <1>3, <1>9 DEF KindOf, RankAs
  <2> QED BY <2>1 DEF IsRankOf
<1>10. ASSUME ~Three(p), ~InRun(p), ~same, ~Paired(p) PROVE k \in 0 .. 6 /\ IsRankOf(k, p, RankAs(p, same))
  <2>1. k = 0 /\ RankAs(p, same) = <<0, p[3], p[2], p[1]>>
    BY <1>10 DEF KindOf, RankAs
  <2> QED BY <2>1 DEF IsRankOf
<1>11. k \in 0 .. 6 /\ IsRankOf(k, p, RankAs(p, same))
  BY <1>6, <1>7, <1>8, <1>9, <1>10
<1> QED BY <1>1, <1>3, <1>5, <1>11

(* One rank above another, place by place.                                 *)
TailAbove(r, s) ==
    \/ r[2] > s[2]
    \/ r[2] = s[2] /\ (r[3] > s[3] \/ (r[3] = s[3] /\ r[4] > s[4]))
LEMMA AboveUnfolds ==
    ASSUME NEW r, NEW s
    PROVE  RB!Above(r, s) <=> r[1] > s[1] \/ (r[1] = s[1] /\ TailAbove(r, s))
<1>1. RB!Above(r, s) <=> \/ r[1] > s[1]
                         \/ r[2] > s[2] /\ r[1] = s[1]
                         \/ r[3] > s[3] /\ r[1] = s[1] /\ r[2] = s[2]
                         \/ r[4] > s[4] /\ r[1] = s[1] /\ r[2] = s[2] /\ r[3] = s[3]
  <2> DEFINE At(i) == r[i] > s[i] /\ \A j \in 1 .. i - 1 : r[j] = s[j]
  <2>1. RB!Above(r, s) <=> At(1) \/ At(2) \/ At(3) \/ At(4)
    <3>1. RB!Above(r, s) <=> \E i \in 1 .. 4 : At(i)
      BY Zenon DEF RB!Above
    <3> HIDE DEF At
    <3> QED BY <3>1
  <2>2. At(1) <=> r[1] > s[1]
    OBVIOUS
  <2>3. At(2) <=> r[2] > s[2] /\ r[1] = s[1]
    OBVIOUS
  <2>4. At(3) <=> r[3] > s[3] /\ r[1] = s[1] /\ r[2] = s[2]
    <3>1. (\A j \in 1 .. 3 - 1 : r[j] = s[j]) <=> r[1] = s[1] /\ r[2] = s[2]
      OBVIOUS
    <3> QED BY <3>1
  <2>5. At(4) <=> r[4] > s[4] /\ r[1] = s[1] /\ r[2] = s[2] /\ r[3] = s[3]
    <3>1. (\A j \in 1 .. 4 - 1 : r[j] = s[j]) <=> r[1] = s[1] /\ r[2] = s[2] /\ r[3] = s[3]
      OBVIOUS
    <3> QED BY <3>1
  <2> HIDE DEF At
  <2> QED BY <2>1, <2>2, <2>3, <2>4, <2>5
<1> QED BY <1>1, Zenon DEF TailAbove

-----------------------------------------------------------------------------
(* Hands of one kind are compared as their ranks are.                      *)
Versus(a, b) == IF a > b THEN 1 ELSE IF a < b THEN 2 ELSE 0
LEMMA SidesCompare ==
    ASSUME NEW a \in Int, NEW b \in Int
    PROVE  RB!CompareSide(a, b) = Versus(a, b) /\ Versus(a, b) \in Int
  BY DEF RB!CompareSide, RB!RedWin, RB!BlackWin, Versus

LEMMA CompareByKind ==
    ASSUME NEW k \in 0 .. 6, NEW p, NEW q
    PROVE  LET w == RB!CompareSameType(k, p, q)
           IN  /\ k = 6 => w = RB!CompareSide(p[1], q[1])
               /\ k \in {3, 5} => w = RB!CompareSide(RB!TopOfStraight(p), RB!TopOfStraight(q))
               /\ k \in {1, 2} => w = RB!FirstDecided(<<RB!CompareSide(p[2], q[2]),
                                                       RB!CompareSide(RB!Kicker(p), RB!Kicker(q))>>)
               /\ k \in {0, 4} => w = RB!FirstDecided([i \in 1 .. 3 |-> RB!CompareSide(p[4 - i], q[4 - i])])
<1> DEFINE w == RB!CompareSameType(k, p, q)
           one == RB!CompareSide(p[1], q[1])
           tops == RB!CompareSide(RB!TopOfStraight(p), RB!TopOfStraight(q))
           pairs == RB!FirstDecided(<<RB!CompareSide(p[2], q[2]), RB!CompareSide(RB!Kicker(p), RB!Kicker(q))>>)
           all == RB!FirstDecided([i \in 1 .. 3 |-> RB!CompareSide(p[4 - i], q[4 - i])])
<1>1. w = CASE k = RB!ThreeOfAKind -> one
            [] k \in {RB!StraightFlush, RB!Straight} -> tops
            [] k \in {RB!Pair, RB!SmallPair} -> pairs
            [] OTHER -> all
  BY Zenon DEF RB!CompareSameType
<1> HIDE DEF w, one, tops, pairs, all
<1>2. w = CASE k = 6 -> one [] k \in {5, 3} -> tops [] k \in {2, 1} -> pairs [] OTHER -> all
  BY <1>1, Zenon DEF RB!ThreeOfAKind, RB!StraightFlush, RB!Straight, RB!Pair, RB!SmallPair
<1>3. (k = 6 => w = one) /\ (k \in {3, 5} => w = tops) /\ (k \in {1, 2} => w = pairs) /\ (k \in {0, 4} => w = all)
  BY <1>2
<1> QED BY <1>3, Zenon DEF w, one, tops, pairs, all

LEMMA SameTypeCompared ==
    ASSUME NEW p, IsPoints(p), NEW same \in BOOLEAN, NEW q, IsPoints(q), NEW suited \in BOOLEAN,
           NEW k, k = KindOf(p, same), k = KindOf(q, suited)
    PROVE  LET w == RB!CompareSameType(k, p, q)
               r == RankAs(p, same)
               s == RankAs(q, suited)
           IN  w \in Int /\ (w = 1 <=> TailAbove(r, s)) /\ (w = 2 <=> TailAbove(s, r))
<1> DEFINE w == RB!CompareSameType(k, p, q)
           r == RankAs(p, same)
           s == RankAs(q, suited)
<1>1. /\ p[1] \in Int /\ p[2] \in Int /\ p[3] \in Int /\ RB!TopOfStraight(p) \in Int /\ RB!Kicker(p) \in Int
      /\ q[1] \in Int /\ q[2] \in Int /\ q[3] \in Int /\ RB!TopOfStraight(q) \in Int /\ RB!Kicker(q) \in Int
      /\ k \in 0 .. 6
  BY RankByKind
<1>2. IsRankOf(k, p, r)
  BY RankByKind
<1>3. IsRankOf(k, q, s)
  BY RankByKind
<1>4. CASE k = 6
  <2>1. r = <<k, p[1], 0, 0>> /\ s = <<k, q[1], 0, 0>>
    <3> HIDE DEF r, s
    <3> QED BY <1>4, <1>2, <1>3 DEF IsRankOf
  <2>2. w = Versus(p[1], q[1])
    <3>1. w = RB!CompareSide(p[1], q[1])
      BY <1>1, <1>4, CompareByKind
    <3> HIDE DEF w
    <3> QED BY <1>1, <3>1, SidesCompare
  <2> HIDE DEF r, s, w
  <2>3. r[2] = p[1] /\ r[3] = 0 /\ r[4] = 0 /\ s[2] = q[1] /\ s[3] = 0 /\ s[4] = 0
    BY <2>1
  <2>4. w \in Int /\ (w = 1 <=> TailAbove(r, s)) /\ (w = 2 <=> TailAbove(s, r))
    BY <1>1, <2>2, <2>3 DEF Versus, TailAbove
  <2> QED BY <2>4 DEF r, s, w
<1>5. CASE k \in {3, 5}
  <2>1. r = <<k, RB!TopOfStraight(p), 0, 0>> /\ s = <<k, RB!TopOfStraight(q), 0, 0>>
    <3> HIDE DEF r, s
    <3> QED BY <1>5, <1>2, <1>3 DEF IsRankOf
  <2>2. w = RB!CompareSide(RB!TopOfStraight(p), RB!TopOfStraight(q))
    BY <1>1, <1>5, CompareByKind
  <2>3. w = Versus(RB!TopOfStraight(p), RB!TopOfStraight(q))
    <3> HIDE DEF w
    <3> QED BY <1>1, <2>2, SidesCompare
  <2> HIDE DEF r, s, w
  <2>4. r[2] = RB!TopOfStraight(p) /\ r[3] = 0 /\ r[4] = 0 /\ s[2] = RB!TopOfStraight(q) /\ s[3] = 0 /\ s[4] = 0
    BY <2>1
  <2>5. w \in Int /\ (w = 1 <=> TailAbove(r, s)) /\ (w = 2 <=> TailAbove(s, r))
    BY <1>1, <2>3, <2>4 DEF Versus, TailAbove
  <2> QED BY <2>5 DEF r, s, w
<1>6. CASE k \in {1, 2}
  <2>1. r = <<k, p[2], RB!Kicker(p), 0>> /\ s = <<k, q[2], RB!Kicker(q), 0>>
    <3> HIDE DEF r, s
    <3> QED BY <1>6, <1>2, <1>3 DEF IsRankOf
  <2> DEFINE first == RB!CompareSide(p[2], q[2])
             second == RB!CompareSide(RB!Kicker(p), RB!Kicker(q))
  <2>2. w = RB!FirstDecided(<<first, second>>)
    BY <1>1, <1>6, CompareByKind
  <2>3. first = Versus(p[2], q[2]) /\ second = Versus(RB!Kicker(p), RB!Kicker(q)) /\ first \in Int /\ second \in Int
    <3>1. first = Versus(p[2], q[2])
      BY <1>1, SidesCompare
    <3>2. second = Versus(RB!Kicker(p), RB!Kicker(q))
      BY <1>1, SidesCompare
    <3>3. \A a, b : Versus(a, b) \in Int
      BY DEF Versus
    <3> QED BY <3>1, <3>2, <3>3
  <2> HIDE DEF first, second
  <2>4. RB!FirstDecided(<<first, second>>) = Decides(first, second)
    <3> DEFINE both == <<first, second>>
               n == 2
    <3>1. n \in {2, 3} /\ DOMAIN both = 1 .. n /\ both[1] = first /\ both[2] = second
      OBVIOUS
    <3>2. \A i \in 1 .. n : both[i] \in Int
      BY <2>3
    <3> HIDE DEF both
    <3>3. RB!FirstDecided(both) = Decides(both[1], both[2])
      BY <3>1, <3>2, DecisionUnfolds
    <3> QED BY <3>1, <3>3 DEF both
  <2> HIDE DEF r, s, w
  <2>5. r[2] = p[2] /\ r[3] = RB!Kicker(p) /\ r[4] = 0 /\ s[2] = q[2] /\ s[3] = RB!Kicker(q) /\ s[4] = 0
    BY <2>1
  <2>6. w \in Int /\ (w = 1 <=> TailAbove(r, s)) /\ (w = 2 <=> TailAbove(s, r))
    BY <1>1, <2>2, <2>3, <2>4, <2>5 DEF Versus, TailAbove, Decides
  <2> QED BY <2>6 DEF r, s, w
<1>7. CASE k \in {0, 4}
  <2>1. r = <<k, p[3], p[2], p[1]>> /\ s = <<k, q[3], q[2], q[1]>>
    <3> HIDE DEF r, s
    <3> QED BY <1>7, <1>2, <1>3 DEF IsRankOf
  <2> DEFINE all == [i \in 1 .. 3 |-> RB!CompareSide(p[4 - i], q[4 - i])]
  <2>2. w = RB!FirstDecided(all)
    BY <1>1, <1>7, CompareByKind
  <2>3. all[1] = Versus(p[3], q[3]) /\ all[2] = Versus(p[2], q[2]) /\ all[3] = Versus(p[1], q[1])
    <3>1. all[1] = RB!CompareSide(p[3], q[3]) /\ all[2] = RB!CompareSide(p[2], q[2]) /\ all[3] = RB!CompareSide(p[1], q[1])
      OBVIOUS
    <3> HIDE DEF all
    <3>2. all[1] = Versus(p[3], q[3])
      BY <1>1, <3>1, SidesCompare
    <3>3. all[2] = Versus(p[2], q[2])
      BY <1>1, <3>1, SidesCompare
    <3>4. all[3] = Versus(p[1], q[1])
      BY <1>1, <3>1, SidesCompare
    <3> QED BY <3>2, <3>3, <3>4
  <2>4. all[1] \in Int /\ all[2] \in Int /\ all[3] \in Int
    <3> HIDE DEF all
    <3>1. \A a, b : Versus(a, b) \in Int
      BY DEF Versus
    <3> QED BY <2>3, <3>1
  <2>5. RB!FirstDecided(all) = Decides(Decides(all[1], all[2]), all[3])
    <3> DEFINE n == 3
    <3>1. n \in {2, 3} /\ DOMAIN all = 1 .. n
      OBVIOUS
    <3>2. \A i \in 1 .. n : all[i] \in Int
      <4> HIDE DEF all
      <4> QED BY <2>4
    <3> HIDE DEF all
    <3> QED BY <3>1, <3>2, DecisionUnfolds
  <2> HIDE DEF r, s, w, all
  <2>6. r[2] = p[3] /\ r[3] = p[2] /\ r[4] = p[1] /\ s[2] = q[3] /\ s[3] = q[2] /\ s[4] = q[1]
    BY <2>1
  <2>7. w = Decides(Decides(Versus(p[3], q[3]), Versus(p[2], q[2])), Versus(p[1], q[1]))
    BY <2>2, <2>3, <2>5
  <2>8. w \in Int /\ (w = 1 <=> TailAbove(r, s)) /\ (w = 2 <=> TailAbove(s, r))
    BY <1>1, <2>6, <2>7 DEF Versus, TailAbove, Decides
  <2> QED BY <2>8 DEF r, s, w
<1>8. k = 6 \/ k \in {3, 5} \/ k \in {1, 2} \/ k \in {0, 4}
  BY <1>1
<1> QED BY <1>4, <1>5, <1>6, <1>7, <1>8

(* The comparison of two hands is a number whatever kind it is told.       *)
LEMMA ComparedExact ==
    ASSUME NEW k \in 0 .. 6, NEW p, IsPoints(p), NEW q, IsPoints(q)
    PROVE  RB!CompareSameType(k, p, q) \in Int
<1> DEFINE w == RB!CompareSameType(k, p, q)
<1>1. /\ p[1] \in Int /\ p[2] \in Int /\ p[3] \in Int /\ RB!TopOfStraight(p) \in Int /\ RB!Kicker(p) \in Int
      /\ q[1] \in Int /\ q[2] \in Int /\ q[3] \in Int /\ RB!TopOfStraight(q) \in Int /\ RB!Kicker(q) \in Int
  BY DEF IsPoints, RB!TopOfStraight, RB!Kicker
<1>2. ASSUME NEW a \in Int, NEW b \in Int PROVE RB!CompareSide(a, b) \in Int
  BY SidesCompare
<1>3. CASE k = 6
  <2>1. w = RB!CompareSide(p[1], q[1])
    BY <1>3, CompareByKind
  <2>2. RB!CompareSide(p[1], q[1]) \in Int
    BY <1>1, <1>2
  <2> HIDE DEF w
  <2>3. w \in Int
    BY <2>1, <2>2
  <2> QED BY <2>3 DEF w
<1>4. CASE k \in {3, 5}
  <2> DEFINE top == RB!TopOfStraight(p)
             other == RB!TopOfStraight(q)
  <2>1. w = RB!CompareSide(top, other)
    BY <1>4, CompareByKind
  <2>2. RB!CompareSide(top, other) \in Int
    BY <1>1, <1>2
  <2> HIDE DEF w, top, other
  <2>3. w \in Int
    BY <2>1, <2>2
  <2> QED BY <2>3 DEF w
<1>5. CASE k \in {1, 2}
  <2> DEFINE first == RB!CompareSide(p[2], q[2])
             second == RB!CompareSide(RB!Kicker(p), RB!Kicker(q))
             both == <<first, second>>
             n == 2
  <2>1. w = RB!FirstDecided(both)
    BY <1>5, CompareByKind
  <2>2. first \in Int /\ second \in Int
    BY <1>1, <1>2
  <2> HIDE DEF first, second, w
  <2>3. n \in {2, 3} /\ DOMAIN both = 1 .. n /\ \A i \in 1 .. n : both[i] \in Int
    BY <2>2
  <2>4. w = Decides(both[1], both[2])
    <3> HIDE DEF both
    <3> QED BY <2>1, <2>3, DecisionUnfolds
  <2>5. w \in Int
    BY <2>2, <2>4 DEF Decides
  <2> QED BY <2>5 DEF w
<1>6. CASE k \in {0, 4}
  <2> DEFINE all == [i \in 1 .. 3 |-> RB!CompareSide(p[4 - i], q[4 - i])]
             n == 3
  <2>1. w = RB!FirstDecided(all)
    BY <1>6, CompareByKind
  <2>2. all[1] = RB!CompareSide(p[3], q[3]) /\ all[2] = RB!CompareSide(p[2], q[2]) /\ all[3] = RB!CompareSide(p[1], q[1])
    OBVIOUS
  <2>3. n \in {2, 3} /\ DOMAIN all = 1 .. n
    OBVIOUS
  <2> HIDE DEF all, w
  <2>4. all[1] \in Int /\ all[2] \in Int /\ all[3] \in Int
    BY <1>1, <1>2, <2>2
  <2>5. \A i \in 1 .. n : all[i] \in Int
    BY <2>4
  <2>6. w = Decides(Decides(all[1], all[2]), all[3])
    BY <2>1, <2>3, <2>5, DecisionUnfolds
  <2>7. w \in Int
    BY <2>4, <2>6 DEF Decides
  <2> QED BY <2>7 DEF w
<1> QED BY <1>3, <1>4, <1>5, <1>6

LEMMA RedBlackRanked ==
    ASSUME NEW red, DOMAIN red = 1 .. 3, \A i \in 1 .. 3 : red[i] \in Nat,
           NEW black, DOMAIN black = 1 .. 3, \A i \in 1 .. 3 : black[i] \in Nat
    PROVE  RB!RankedRight(red, black)
<1> DEFINE p == RB!Points(red)
           q == RB!Points(black)
           same == RB!SameSuit(red)
           suited == RB!SameSuit(black)
           k == KindOf(p, same)
           l == KindOf(q, suited)
           r == RankAs(p, same)
           s == RankAs(q, suited)
           w == RB!CompareSameType(k, p, q)
           won == RB!GameResult(red, black)
<1>1. IsPoints(p) /\ IsPoints(q) /\ same \in BOOLEAN /\ suited \in BOOLEAN
  BY PointsOrdered DEF RB!SameSuit
<1>2. RB!Type(red) = k /\ RB!Type(black) = l
  <2> HIDE DEF p, q, same, suited
  <2>1. RB!HandType(p, same) = KindOf(p, same) /\ RB!HandType(q, suited) = KindOf(q, suited)
    BY <1>1, KindFound
  <2> QED BY <2>1 DEF RB!Type, p, q, same, suited
<1>3. RB!Rank(red) = r /\ RB!Rank(black) = s
  BY <1>1, RankFound
<1>4. k \in 0 .. 6 /\ l \in 0 .. 6 /\ r[1] = k /\ s[1] = l
  <2> HIDE DEF p, q, same, suited
  <2>1. /\ k \in 0 .. 6 /\ (k = 6 \/ k \in {3, 5} \/ k \in {1, 2} \/ k \in {0, 4})
        /\ l \in 0 .. 6 /\ (l = 6 \/ l \in {3, 5} \/ l \in {1, 2} \/ l \in {0, 4})
    BY <1>1 DEF KindOf
  <2>2. r[1] = k
    <3> HIDE DEF k
    <3>1. k = KindOf(p, same)
      BY DEF k
    <3> QED BY <1>1, <2>1, <3>1, RankByKind DEF IsRankOf
  <2>3. s[1] = l
    <3> HIDE DEF l
    <3>1. l = KindOf(q, suited)
      BY DEF l
    <3> QED BY <1>1, <2>1, <3>1, RankByKind DEF IsRankOf
  <2> QED BY <2>1, <2>2, <2>3
<1>5. won = IF Versus(k, l) # 0 THEN Versus(k, l) ELSE w
  <2>1. RB!CompareSide(RB!Type(red), RB!Type(black)) = Versus(k, l)
    <3> HIDE DEF k, l
    <3> QED BY <1>2, <1>4, SidesCompare
  <2>2. won = RB!FirstDecided(<<RB!CompareSide(RB!Type(red), RB!Type(black)), RB!CompareSameType(RB!Type(red), p, q)>>)
    BY DEF RB!GameResult
  <2>3. won = RB!FirstDecided(<<Versus(k, l), w>>)
    <3> HIDE DEF p, q, same, suited, won
    <3> QED BY <1>2, <2>1, <2>2
  <2>4. w \in Int
    <3> HIDE DEF p, q, same, suited
    <3>1. RB!CompareSameType(k, p, q) \in Int
      <4> HIDE DEF k
      <4> QED BY <1>1, <1>4, ComparedExact
    <3> QED BY <3>1
  <2>5. Versus(k, l) \in Int
    <3> HIDE DEF k, l
    <3> QED BY <1>4, SidesCompare
  <2> HIDE DEF w
  <2> DEFINE kinds == Versus(k, l)
             both == <<kinds, w>>
             n == 2
  <2>6. n \in {2, 3} /\ DOMAIN both = 1 .. n /\ both[1] = kinds /\ both[2] = w
    OBVIOUS
  <2> HIDE DEF kinds
  <2>7. \A i \in 1 .. n : both[i] \in Int
    BY <2>4, <2>5 DEF kinds
  <2>8. RB!FirstDecided(both) = Decides(both[1], both[2])
    <3> HIDE DEF both
    <3> QED BY <2>6, <2>7, DecisionUnfolds
  <2>9. won = Decides(kinds, w)
    <3> HIDE DEF won
    <3> QED BY <2>3, <2>6, <2>8 DEF kinds
  <2> QED BY <2>9 DEF Decides, kinds
<1>6. k = l => w \in Int /\ (w = 1 <=> TailAbove(r, s)) /\ (w = 2 <=> TailAbove(s, r))
  <2> HIDE DEF p, q, same, suited
  <2> DEFINE kind == KindOf(p, same)
  <2>1. kind = KindOf(p, same) /\ (k = l => kind = KindOf(q, suited))
    OBVIOUS
  <2> HIDE DEF kind
  <2>2. ASSUME k = l PROVE LET v == RB!CompareSameType(kind, p, q)
                           IN  v \in Int /\ (v = 1 <=> TailAbove(r, s)) /\ (v = 2 <=> TailAbove(s, r))
    BY <1>1, <2>1, <2>2, SameTypeCompared
  <2> QED BY <2>1, <2>2
<1> HIDE DEF p, q, same, suited, k, l, r, s, w, won
<1>7. (won = 1 <=> RB!Above(r, s)) /\ (won = 2 <=> RB!Above(s, r))
  <2>1. (RB!Above(r, s) <=> k > l \/ (k = l /\ TailAbove(r, s))) /\ (RB!Above(s, r) <=> l > k \/ (l = k /\ TailAbove(s, r)))
    BY <1>4, AboveUnfolds
  <2>2. CASE k = l
    <3>1. won = w
      BY <1>4, <1>5, <2>2 DEF Versus
    <3> QED BY <1>4, <1>6, <2>1, <2>2, <3>1
  <2>3. CASE k > l
    <3>1. won = 1
      BY <1>4, <1>5, <2>3 DEF Versus
    <3> QED BY <1>4, <2>1, <2>3, <3>1
  <2>4. CASE k < l
    <3>1. won = 2
      BY <1>4, <1>5, <2>4 DEF Versus
    <3> QED BY <1>4, <2>1, <2>4, <3>1
  <2> QED BY <1>4, <2>2, <2>3, <2>4
<1>8. RB!Above(r, s) \in BOOLEAN /\ RB!Above(s, r) \in BOOLEAN
  BY DEF RB!Above
<1>9. RB!GameResult(red, black) = won
  BY DEF won
<1> QED BY <1>3, <1>7, <1>8, <1>9 DEF RB!RankedRight, RB!RedWin, RB!BlackWin

-----------------------------------------------------------------------------
LEMMA HandsDealt ==
    ASSUME DealtSound, part = "redblack", Len(dealt) = 6
    PROVE  /\ DOMAIN Red = 1 .. 3 /\ \A i \in 1 .. 3 : Red[i] \in Nat
           /\ DOMAIN Black = 1 .. 3 /\ \A i \in 1 .. 3 : Black[i] \in Nat
<1>1. dealt \in Seq(Nat) /\ \A i \in 1 .. 6 : dealt[i] \in Nat
  <2>1. dealt \in Seq(Nat)
    BY DEF DealtSound
  <2>2. DOMAIN dealt = 1 .. 6
    BY <2>1
  <2>3. ASSUME NEW i \in 1 .. 6 PROVE dealt[i] \in Nat
    <3>1. i \in 1 .. Len(dealt)
      BY <2>3
    <3> QED BY <2>1, <3>1, ElementOfSeq
  <2> QED BY <2>1, <2>2, <2>3
<1>2. Red = [i \in 1 .. 3 |-> dealt[i]]
  BY <1>1 DEF Red
<1>3. Black = [i \in 1 .. 3 |-> dealt[i + 3]]
  BY <1>1 DEF Black
<1>4. DOMAIN Red = 1 .. 3 /\ \A i \in 1 .. 3 : Red[i] \in Nat
  BY <1>1, <1>2
<1>5. DOMAIN Black = 1 .. 3 /\ \A i \in 1 .. 3 : Black[i] \in Nat
  BY <1>1, <1>3
<1> QED BY <1>4, <1>5

(* The hands rank as the rules say, for every hand and every deck: a bull  *)
(* of bullfight is what the whole hand leaves, whichever three cards the   *)
(* search of get_hand_type finds first, and redblack's comparison by cases *)
(* is the order of the hands' ranks.                                       *)
THEOREM HandsAlwaysRanked ==
    ASSUME LibraryAssumption
    PROVE  LibrarySpec => []HandsRanked
<1>1. LibraryInit => DealtSound
  BY DealtInit
<1>2. DealtSound /\ [LibraryNext]_library => DealtSound'
  BY DealtNext
<1>3. DealtSound => HandsRanked
  <2> SUFFICES ASSUME DealtSound PROVE HandsRanked
    OBVIOUS
  <2>1. part = "bullfight" /\ Len(dealt) = 5 => Bull!HandType(dealt) = Bull!ByTheRule(dealt)
    BY FiveHeld, BullRanked
  <2>2. ASSUME part = "redblack", Len(dealt) = 6 PROVE RB!RankedRight(Red, Black)
    BY <2>2, HandsDealt, RedBlackRanked
  <2> QED BY <2>1, <2>2 DEF HandsRanked
<1> QED BY <1>1, <1>2, <1>3, PTL DEF LibrarySpec
=============================================================================
