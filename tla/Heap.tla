-------------------------------- MODULE Heap --------------------------------
(***************************************************************************)
(* The memory manager of the SDK (eosiolib.cpp), in words of 4 bytes.  A   *)
(* block is a marker of one word, its size and whether it is allocated,    *)
(* and the words after it; the address of a block is that of its first     *)
(* word.  A heap hands out fresh blocks up to its offset.  Once memory     *)
(* cannot grow, every heap is cut into blocks to its end and malloc joins  *)
(* freed ones.                                                             *)
(*                                                                         *)
(* Memory starts as zeroes, so a word never written reads as the marker of *)
(* a free block of size 0.  What a contract writes into its blocks is left *)
(* out: no walk over markers passes through the inside of a block.         *)
(***************************************************************************)
EXTENDS Naturals, Sequences, FiniteSets

CONSTANTS
    InitialSize,  \* _initial_heap_size
    PageSize,     \* wasm_page_size
    Slack,        \* what has to be left of a page (1 KiB)
    FirstPage,    \* pages in use at the start
    MaxPages,     \* pages the machine grants
    Heaps,        \* _heaps_size
    Sizes,        \* sizes malloc is asked for
    ReallocSizes  \* sizes realloc is asked for

\* what the constants have to be
HeapAssumption ==
    /\ {InitialSize, PageSize, Slack, FirstPage, MaxPages, Heaps} \subseteq Nat
    /\ InitialSize % 2 = 0 /\ InitialSize > 0 /\ PageSize % 2 = 0
    /\ InitialSize < FirstPage * PageSize /\ FirstPage <= MaxPages
    /\ Sizes \cup ReallocSizes \subseteq Nat \ {0}

VARIABLES
    mem,  \* the manager and the markers it has written
    used  \* the blocks the program holds: address -> size it asked for

vars == <<mem, used>>

Null == 0
Free(size) == [size |-> size, alloc |-> FALSE]
Allocated(size) == [size |-> size, alloc |-> TRUE]
End(heap) == heap.start + heap.size

-----------------------------------------------------------------------------
(* sbrk: the machine grows the memory by pages, or does not.               *)
Granted(brk, words) == (brk + words + PageSize - 1) \div PageSize <= MaxPages

(* To the end of the page, or to that of the next.                         *)
HeapAdj(brk) ==
    IF brk % PageSize <= PageSize - Slack THEN PageSize - (brk % PageSize)
    ELSE 2 * PageSize - (brk % (2 * PageSize))

(* adjust_to_mem_block: block and marker together are a multiple of 8.     *)
Adjusted(size) == size + ((size + 1) % 2)

\* fault: blocks are not joined
NoReach(marks, p, size, needed, end) == size

(* merge_contiguous: the free blocks that follow the one at p, as far as   *)
(* needed; the rest of the last one stays free.                            *)
RECURSIVE Reach(_, _, _, _, _)
Reach(marks, p, size, needed, end) ==
    IF size >= needed \/ p + size >= end THEN size
    ELSE IF marks[p + size].alloc THEN size
    ELSE Reach(marks, p, size + marks[p + size].size + 1, needed, end)

Least(a, b) == IF a < b THEN a ELSE b

\* fault: the rest of the last block gets no marker
MergedWhole(marks, p, needed, end) ==
    [marks EXCEPT ![p - 1].size = Least(Reach(marks, p, @, needed, end), needed)]

Merged(marks, p, needed, end) ==
    LET possible == Reach(marks, p, marks[p - 1].size, needed, end)
    IN  [a \in DOMAIN marks |->
            IF a = p - 1 THEN [marks[a] EXCEPT !.size = Least(possible, needed)]
            ELSE IF a = p + needed /\ possible > needed THEN Free(possible - needed - 1)
            ELSE marks[a]]

(* The block after the one at p.                                           *)
After(marks, p, end) ==
    IF p + marks[p - 1].size + 1 >= end THEN Null ELSE p + marks[p - 1].size + 1

(* malloc_from_freed: first fit from p on.  What was joined stays joined.  *)
RECURSIVE FirstFit(_, _, _, _)
FirstFit(marks, p, size, end) ==
    IF p = Null THEN [marks |-> marks, ptr |-> Null]
    ELSE LET joined == IF marks[p - 1].alloc THEN marks ELSE Merged(marks, p, size, end)
         IN  IF ~marks[p - 1].alloc /\ joined[p - 1].size = size
             THEN [marks |-> [joined EXCEPT ![p - 1].alloc = TRUE], ptr |-> p]
             ELSE FirstFit(joined, After(joined, p, end), size, end)

-----------------------------------------------------------------------------
(* cleanup_remaining: what is left of the heap becomes a free block.       *)
CleanedUp(m, i) ==
    LET heap == m.heaps[i]
    IN  IF heap.offset = heap.size THEN m
        ELSE [m EXCEPT !.marks[heap.start + heap.offset].size = heap.size - heap.offset - 1,
                       !.marks[heap.start + heap.offset].alloc = FALSE,
                       !.heaps[i].offset = heap.size]

(* The active heap hands out a fresh block, or next_active_heap grows it   *)
(* or starts the next; the last one is cut when memory does not grow.      *)
RECURSIVE Fresh(_, _)
Fresh(m, size) ==
    LET i == m.active
        heap == m.heaps[i]
        p == heap.start + heap.offset + 1
        adj == HeapAdj(m.brk)
        grown == [m EXCEPT !.brk = @ + adj]
    IN  IF heap.offset + size + 1 <= heap.size
        THEN [mem |-> [m EXCEPT !.marks[p - 1] = Allocated(size), !.heaps[i].offset = @ + size + 1],
              ptr |-> p]
        ELSE IF ~Granted(m.brk, adj)
        THEN [mem |-> [CleanedUp(m, i) EXCEPT !.active = i + 1, !.actual = i], ptr |-> Null]
        ELSE IF End(heap) = m.brk
        THEN Fresh([grown EXCEPT !.heaps[i].size = @ + adj], size)
        ELSE Fresh([CleanedUp(grown, i) EXCEPT !.active = i + 1,
                                               !.heaps = Append(@, [start |-> m.brk, size |-> adj, offset |-> 0])],
                   size)

(* The heaps in turn, from the one that had room last.                     *)
RECURSIVE FromFreed(_, _, _)
FromFreed(m, size, tries) ==
    LET heap == m.heaps[m.from]
        fit == FirstFit(m.marks, heap.start + 1, size, End(heap))
        tried == [m EXCEPT !.marks = fit.marks]
    IN  IF tries = 0 THEN [mem |-> m, ptr |-> Null]
        ELSE IF fit.ptr # Null THEN [mem |-> tried, ptr |-> fit.ptr]
        ELSE FromFreed([tried EXCEPT !.from = (@ % m.actual) + 1], size, tries - 1)

Malloc(m, asked) ==
    LET size == Adjusted(asked)
        fresh == IF m.active <= m.actual THEN Fresh(m, size) ELSE [mem |-> m, ptr |-> Null]
    IN  IF fresh.ptr # Null THEN fresh ELSE FromFreed(fresh.mem, size, fresh.mem.actual)

Freed(m, p) == [m EXCEPT !.marks[p - 1].alloc = FALSE]

(* realloc_in_place: FALSE if the block has to move.                       *)
HeapOf(m, p) == CHOOSE i \in DOMAIN m.heaps : p > m.heaps[i].start /\ p < End(m.heaps[i])
Fits(m, p, size) ==
    LET heap == m.heaps[HeapOf(m, p)]
        orig == m.marks[p - 1].size
    IN  /\ p + size <= End(heap)
        /\ \/ orig >= size
           \/ p + orig = heap.start + heap.offset
           \/ Reach(m.marks, p, orig, size, End(heap)) >= size

(* A block that shrinks keeps its size; the last one grows with the heap's *)
(* offset, another over the free blocks after it.                          *)
InPlace(m, p, size) ==
    LET i == HeapOf(m, p)
        orig == m.marks[p - 1].size
    IN  IF orig > size THEN [m EXCEPT !.marks[p + size] = Free(orig - size)]
        ELSE IF p + orig = m.heaps[i].start + m.heaps[i].offset
        THEN [m EXCEPT !.marks[p - 1].size = size, !.heaps[i].offset = @ + size - orig]
        ELSE IF orig = size THEN m
        ELSE [m EXCEPT !.marks = Merged(m.marks, p, size, End(m.heaps[i]))]

Realloc(m, p, asked) ==
    LET moved == Malloc(m, asked)
    IN  IF Fits(m, p, Adjusted(asked)) THEN [mem |-> InPlace(m, p, Adjusted(asked)), ptr |-> p]
        ELSE IF moved.ptr = Null THEN moved
        ELSE [mem |-> Freed(moved.mem, p), ptr |-> moved.ptr]

-----------------------------------------------------------------------------
Init ==
    /\ mem = [heaps |-> <<[start |-> 0, size |-> InitialSize, offset |-> 0]>>,
              active |-> 1, actual |-> Heaps, from |-> 1, brk |-> FirstPage * PageSize,
              marks |-> [a \in 0 .. MaxPages * PageSize |-> Free(0)]]
    /\ used = <<>>

Holding(ptr, size) == [p \in DOMAIN used \cup {ptr} |-> IF p = ptr THEN size ELSE used[p]]
Without(ptr) == [p \in DOMAIN used \ {ptr} |-> used[p]]

DoMalloc(size) ==
    LET got == Malloc(mem, size)
    IN  /\ mem' = got.mem
        /\ used' = IF got.ptr = Null THEN used ELSE Holding(got.ptr, size)

DoFree(p) ==
    /\ mem' = Freed(mem, p)
    /\ used' = Without(p)

DoRealloc(p, size) ==
    LET got == Realloc(mem, p, size)
    IN  /\ mem' = got.mem
        /\ used' = IF got.ptr = Null THEN used
                   ELSE [q \in (DOMAIN used \ {p}) \cup {got.ptr} |-> IF q = got.ptr THEN size ELSE used[q]]

Next ==
    \/ \E size \in Sizes : DoMalloc(size)
    \/ \E p \in DOMAIN used : DoFree(p) \/ \E size \in ReallocSizes : DoRealloc(p, size)

Spec == Init /\ [][Next]_vars

-----------------------------------------------------------------------------
(* Blocks the program holds never share a word, their markers included,    *)
(* and lie in what their heap has handed out.                              *)
Words(p) == p - 1 .. p + used[p] - 1
BlocksDisjoint ==
    /\ \A p, q \in DOMAIN used : p # q => Words(p) \cap Words(q) = {}
    /\ \A p \in DOMAIN used : \E i \in DOMAIN mem.heaps :
          LET heap == mem.heaps[i] IN Words(p) \subseteq heap.start .. heap.start + heap.offset - 1

(* The markers of a heap lead from its start exactly to its offset, and    *)
(* the allocated blocks on the way are the ones the program holds; once    *)
(* memory cannot grow every heap is cut to its end, as malloc_from_freed   *)
(* asserts.                                                                *)
RECURSIVE BlocksFrom(_, _)
BlocksFrom(p, end) ==
    IF p >= end THEN {p} ELSE {p} \cup BlocksFrom(p + mem.marks[p - 1].size + 1, end)
Blocks(heap) == BlocksFrom(heap.start + 1, heap.start + heap.offset + 1)
HeapsCut ==
    /\ \A i \in DOMAIN mem.heaps : LET heap == mem.heaps[i] IN
          /\ heap.start + heap.offset + 1 \in Blocks(heap)
          /\ {p \in Blocks(heap) : p <= heap.start + heap.offset /\ mem.marks[p - 1].alloc}
                = {p \in DOMAIN used : p > heap.start /\ p < End(heap)}
          /\ mem.active > mem.actual => heap.offset = heap.size

HeapSafe == BlocksDisjoint /\ HeapsCut

(* malloc returns null only when memory cannot grow and no heap has enough *)
(* free words in a row, however they were freed.  A block that has shrunk  *)
(* takes what it took before.                                              *)
Taken == UNION {p - 1 .. p + mem.marks[p - 1].size - 1 : p \in DOMAIN used}
NullMeansFull == \A size \in Sizes : Malloc(mem, size).ptr = Null =>
    \A i \in DOMAIN mem.heaps : LET heap == mem.heaps[i] IN
        \A a \in heap.start .. End(heap) - Adjusted(size) - 1 :
            (a .. a + Adjusted(size)) \cap Taken # {}
=============================================================================
