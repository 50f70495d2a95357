-------------------------------- MODULE Heap --------------------------------
(***************************************************************************)
(* The kernel heap (memory.c, lines 180-284 and 459-577): a list of blocks *)
(* threaded through their headers, first fit, split, merge with the two    *)
(* neighbours, and growth by pages at heap_next_virt.                      *)
(*                                                                         *)
(* Addresses and sizes count words of four bytes, so ALIGN4 has been       *)
(* applied.  kmalloc and kfree are single steps here: alloc_task calls     *)
(* kmalloc between cli and sti, and the file system calls it from the      *)
(* console task alone.                                                     *)
(* Requests so near to 4 GiB that header and size together wrap in 32 bits *)
(* (memory.c 479-480) are left out; no caller comes near.                  *)
(***************************************************************************)
EXTENDS Integers, FiniteSetsExt

CONSTANTS
  PAGE_SIZE,      \* words of a page (1024)
  HEADER,         \* sizeof(memory_block_t) in words (2)
  HEAP_PAGES,     \* pages until HEAP_END or physical memory is reached
  Sizes,          \* sizes asked of kmalloc, in words
  FreesPages      \* multi-page blocks are given back to kfree too

NULL == 0
HEAP_START == PAGE_SIZE
HEAP_END == HEAP_START + HEAP_PAGES * PAGE_SIZE
Address == HEAP_START .. HEAP_END - 1
min_split == HEADER + 1

ASSUME HeapAssumption ==
  /\ {PAGE_SIZE, HEADER, HEAP_PAGES} \subseteq Nat \ {0}
  /\ PAGE_SIZE > HEADER + 1
  /\ Sizes \subseteq Nat \ {0}
  /\ FreesPages \in BOOLEAN

VARIABLES
  heap,             \* kernel_block_list and the headers in memory
  heap_next_virt,   \* where the next page goes
  live              \* history: what callers hold, [at, size] with the header

vars == <<heap, heap_next_virt, live>>

Header == [len : 0 .. HEAP_END, used : BOOLEAN, next : Address \cup {NULL}]

TypeOK ==
  /\ heap.head \in Address \cup {NULL}
  /\ DOMAIN heap.block \subseteq Address
  /\ \A a \in DOMAIN heap.block : heap.block[a] \in Header
  /\ heap_next_virt \in HEAP_START .. HEAP_END
  /\ (heap_next_virt - HEAP_START) % PAGE_SIZE = 0
  /\ \A b \in live : b.at \in Address /\ b.size \in 1 .. HEAP_END

-----------------------------------------------------------------------------
(* The list                                                                *)

\* the blocks met from kernel_block_list on
Listed(h) ==
  LET bound == Cardinality(DOMAIN h.block)
      node[i \in 0 .. bound] ==
        IF i = 0 THEN h.head
        ELSE IF node[i - 1] = NULL THEN NULL ELSE h.block[node[i - 1]].next
  IN  {node[i] : i \in 0 .. bound} \ {NULL}

\* The loops `while (cur && cur < addr)' stop at these two.
Before(h, addr) == LET below == {a \in Listed(h) : a < addr}
                   IN  IF below = {} THEN NULL ELSE Max(below)
From(h, addr) == LET above == {a \in Listed(h) : a >= addr}
                 IN  IF above = {} THEN NULL ELSE Min(above)

\* prev->next = to, or kernel_block_list = to
Relink(h, prev, to) ==
  IF prev = NULL THEN [h EXCEPT !.head = to]
                 ELSE [h EXCEPT !.block[prev].next = to]

SetHeader(h, addr, len, used, next) ==
  [h EXCEPT !.block = [a \in DOMAIN h.block \cup {addr} |->
                         IF a = addr THEN [len |-> len, used |-> used, next |-> next]
                         ELSE h.block[a]]]

\* There are no headers at these addresses any more.
Forget(h, addrs) ==
  [h EXCEPT !.block = [a \in DOMAIN h.block \ addrs |-> h.block[a]]]

add_block(h, addr, len) ==
  Relink(SetHeader(h, addr, len, FALSE, From(h, addr)), Before(h, addr), addr)

\* heap_grow, called pages times
heap_grow(h, base, pages) ==
  LET grown[i \in 0 .. pages] ==
        IF i = 0 THEN h
        ELSE add_block(grown[i - 1], base + (i - 1) * PAGE_SIZE, PAGE_SIZE)
  IN  grown[pages]

PagesLeft_off_by_one == (HEAP_END - heap_next_virt) \div PAGE_SIZE + 1

PagesLeft == (HEAP_END - heap_next_virt) \div PAGE_SIZE

-----------------------------------------------------------------------------
(* kmalloc                                                                 *)

\* find_prev_for_size: first fit; NULL when there is none
find_fit(h, needed) ==
  LET fits == {a \in Listed(h) : ~h.block[a].used /\ h.block[a].len >= needed}
  IN  IF fits = {} THEN NULL ELSE Min(fits)

TakeBlock_keeps_length(h, b, needed) ==
  LET rest == SetHeader(h, b + needed, h.block[b].len - needed, FALSE, h.block[b].next)
  IN  IF h.block[b].len >= needed + min_split
      THEN SetHeader(Relink(rest, Before(h, b), b + needed), b, h.block[b].len, TRUE, NULL)
      ELSE SetHeader(Relink(h, Before(h, b), h.block[b].next), b, h.block[b].len, TRUE, NULL)

\* Split the block, or use all of it when the rest could hold no block.  The
\* stale next of a used block is not read again: it is forgotten here.
TakeBlock(h, b, needed) ==
  LET rest == SetHeader(h, b + needed, h.block[b].len - needed, FALSE, h.block[b].next)
  IN  IF h.block[b].len >= needed + min_split
      THEN SetHeader(Relink(rest, Before(h, b), b + needed), b, needed, TRUE, NULL)
      ELSE SetHeader(Relink(h, Before(h, b), h.block[b].next), b, h.block[b].len, TRUE, NULL)

Grant(h, b) == live' = live \cup {[at |-> b, size |-> h.block[b].len]}

\* A block of one page at most; the heap grows by a page when nothing fits.
kmalloc(size) ==
  LET needed == HEADER + size
      fit == find_fit(heap, needed)
      ready == IF fit # NULL THEN heap ELSE heap_grow(heap, heap_next_virt, 1)
      b == find_fit(ready, needed)
      taken == TakeBlock(ready, b, needed)
  IN  /\ needed <= PAGE_SIZE
      /\ fit # NULL \/ PagesLeft > 0
      /\ heap' = taken
      /\ Grant(taken, b)
      /\ heap_next_virt' = IF fit # NULL THEN heap_next_virt
                                         ELSE heap_next_virt + PAGE_SIZE

\* More than a page: fresh pages, added one by one to the list; the first
\* becomes the used block, and its next = NULL cuts the others off.
kmalloc_pages(size) ==
  LET needed == HEADER + size
      pages == (needed + PAGE_SIZE - 1) \div PAGE_SIZE
      grown == heap_grow(heap, heap_next_virt, pages)
      taken == SetHeader(grown, heap_next_virt, pages * PAGE_SIZE, TRUE, NULL)
      inner == {heap_next_virt + i * PAGE_SIZE : i \in 1 .. pages - 1}
  IN  /\ needed > PAGE_SIZE
      /\ pages <= PagesLeft
      /\ heap' = Forget(taken, inner)
      /\ live' = live \cup {[at |-> heap_next_virt, size |-> pages * PAGE_SIZE]}
      /\ heap_next_virt' = heap_next_virt + pages * PAGE_SIZE

\* heap_grow fails half way: kmalloc returns NULL, the pages stay as free blocks.
kmalloc_pages_fails(size) ==
  LET needed == HEADER + size
      pages == (needed + PAGE_SIZE - 1) \div PAGE_SIZE
  IN  /\ needed > PAGE_SIZE
      /\ PagesLeft \in 1 .. pages - 1
      /\ heap' = heap_grow(heap, heap_next_virt, PagesLeft)
      /\ heap_next_virt' = HEAP_END
      /\ UNCHANGED live

-----------------------------------------------------------------------------
(* kfree                                                                   *)

Adjacent_skips_header(h, a, b) ==
  b # NULL /\ ~h.block[b].used /\ a + HEADER + h.block[a].len = b

\* b follows a without a gap, and is free
Adjacent(h, a, b) == b # NULL /\ ~h.block[b].used /\ a + h.block[a].len = b

\* a takes in b, which is the next block of the list.
Absorb(h, a, b) ==
  Forget(SetHeader(h, a, h.block[a].len + h.block[b].len, FALSE, h.block[b].next), {b})

\* Sorted insertion, then merge with the next block and with the previous one.
kfree(b) ==
  LET prev == Before(heap, b.at)
      cur == From(heap, b.at)
      linked == Relink(SetHeader(heap, b.at, heap.block[b.at].len, FALSE, cur), prev, b.at)
      right == IF Adjacent(linked, b.at, cur) THEN Absorb(linked, b.at, cur) ELSE linked
  IN  /\ FreesPages \/ b.size < 2 * PAGE_SIZE
      /\ heap' = IF prev # NULL /\ ~right.block[prev].used /\ Adjacent(right, prev, b.at)
                 THEN Absorb(right, prev, b.at) ELSE right
      /\ live' = live \ {b}
      /\ UNCHANGED heap_next_virt

-----------------------------------------------------------------------------
Init ==
  /\ heap = [head |-> NULL, block |-> <<>>]
  /\ heap_next_virt = HEAP_START
  /\ live = {}

Next ==
  \/ \E size \in Sizes : kmalloc(size) \/ kmalloc_pages(size) \/ kmalloc_pages_fails(size)
  \/ \E b \in live : kfree(b)

Spec == Init /\ [][Next]_vars

-----------------------------------------------------------------------------
(* Properties                                                              *)

\* The list is sorted by address, hence acyclic, so that every walk of kmalloc,
\* kfree and add_block ends and finds the right neighbours.
ListSorted ==
  \A a \in Listed(heap) :
    LET next == heap.block[a].next
    IN  next # NULL => next \in DOMAIN heap.block /\ a < next

Words(at, size) == at .. at + size - 1

FreeBlocks == {[at |-> a, size |-> heap.block[a].len] :
                 a \in {a \in Listed(heap) : ~heap.block[a].used}}

\* No word is given out twice or given out and free at once, and none is
\* lost: the blocks held and the free blocks tile the pages of the heap.
Tiling ==
  /\ \A b, c \in live \cup FreeBlocks :
       b # c => Words(b.at, b.size) \cap Words(c.at, c.size) = {}
  /\ live \cap FreeBlocks = {}
  /\ UNION {Words(b.at, b.size) : b \in live \cup FreeBlocks}
       = HEAP_START .. heap_next_virt - 1

\* kmalloc and kfree implement the allocator: no word is held twice, a block
\* wastes less than a header and a word, and the heap takes a new page only
\* when no page has room, which needs the merging in kfree to be complete.
Promise == INSTANCE Allocator WITH top <- heap_next_virt
ImplementsAllocator == Promise!Spec
=============================================================================
