------------------------------- MODULE PhysMem -------------------------------
(***************************************************************************)
(* Physical memory and paging (memory.c): the memory map of the boot       *)
(* loader, the bitmap of page frames, and the growth of the heap, which    *)
(* takes a frame and enters it into the page tables entry.asm has filled.  *)
(*                                                                         *)
(* Addresses count units of memory; PAGE_SIZE of them are a page and the   *)
(* bits of PER_UNIT pages fit in one.  Everything up to parse_memory_map   *)
(* runs once, before there are tasks; growth is the part of kmalloc that   *)
(* Heap leaves open.                                                       *)
(***************************************************************************)
EXTENDS Integers, SequencesExt, FiniteSetsExt

CONSTANTS
  PAGE_SIZE,          \* 4096
  PER_UNIT,           \* 8, the bits of a byte
  ENTRIES,            \* entries of a page table (1024)
  TABLES,             \* page tables (256)
  LOW,                \* where the kernel is loaded and RAM is taken from (1 MiB)
  WORD,               \* 2^32
  MIN_LEN,            \* shortest range of RAM that is kept (16)
  MAX_MEM_ENTRIES,    \* 128
  MODULE_PAGES,       \* what the modules are assumed to need (100 pages)
  HEAP_START, HEAP_END,
  page_directory, first_page_table, __kernel_end,   \* chosen by the linker
  Machines            \* [map, mods] the boot loader may report

ASSUME PhysMemAssumption ==
  /\ {PAGE_SIZE, PER_UNIT, ENTRIES, TABLES, LOW, MIN_LEN} \subseteq Nat \ {0}
  /\ {WORD, MAX_MEM_ENTRIES, MODULE_PAGES, HEAP_START, HEAP_END} \subseteq Nat
  /\ {page_directory, first_page_table, __kernel_end} \subseteq Nat
  /\ \A a \in {LOW, HEAP_START, HEAP_END, page_directory, first_page_table} :
       a % PAGE_SIZE = 0
  /\ WORD % (PAGE_SIZE * PER_UNIT) = 0
  /\ LOW <= page_directory /\ page_directory < first_page_table
  /\ first_page_table + TABLES * PAGE_SIZE <= __kernel_end
  /\ HEAP_START <= HEAP_END /\ HEAP_END <= TABLES * ENTRIES * PAGE_SIZE
  /\ TABLES <= ENTRIES /\ TABLES * ENTRIES * PAGE_SIZE <= WORD
  \* the kernel, then a bitmap of all memory or the modules, lie below 4 GiB
  /\ __kernel_end + WORD \div PAGE_SIZE + PAGE_SIZE * (MODULE_PAGES + 2) <= WORD

\* The boot loader puts the modules behind the kernel, each at a page, which
\* the multiboot header asks for, and none into the last page below 4 GiB.
ASSUME MachinesAssumption ==
  \A m \in Machines :
    /\ m.map \in Seq([addr : Nat, len : Nat, available : BOOLEAN])
    /\ m.mods \in Seq([start : Nat, end : Nat])
    /\ \A mod \in Range(m.mods) :
         /\ mod.start % PAGE_SIZE = 0
         /\ __kernel_end <= mod.start /\ mod.start <= mod.end /\ mod.end + PAGE_SIZE <= WORD

VARIABLES
  machine,          \* the multiboot information
  ready,            \* parse_memory_map has returned
  bitmap,           \* the pages whose bit is set
  bitmap_at,        \* where the bitmap lies, [start, end)
  pmm_total_pages,
  page_table,       \* the frame every page of the first GiB is mapped to
  heap_next_virt,
  grown             \* what heap_grow returned last

vars == <<machine, ready, bitmap, bitmap_at, pmm_total_pages, page_table, heap_next_virt, grown>>

Page == 0 .. WORD \div PAGE_SIZE
Mapped == 0 .. TABLES * ENTRIES - 1

TypeOK ==
  /\ machine \in Machines /\ {ready, grown} \subseteq BOOLEAN
  /\ bitmap \subseteq Page /\ pmm_total_pages \in Page
  /\ bitmap_at \in [start : Nat, end : Nat]
  /\ page_table \in [Mapped -> Page]
  /\ heap_next_virt \in HEAP_START .. HEAP_END
  /\ heap_next_virt % PAGE_SIZE = 0

-----------------------------------------------------------------------------
(* Page arithmetic.  PagesUp counts in 32 bits.                            *)

PageOf(addr) == addr \div PAGE_SIZE

PagesUp(addr) == ((addr + PAGE_SIZE - 1) % WORD) \div PAGE_SIZE

\* every page that holds a unit of [start, end)
Pages(start, end) == PageOf(start) .. PagesUp(end) - 1

RoundUp(addr) == PagesUp(addr) * PAGE_SIZE

pt_end == first_page_table + TABLES * PAGE_SIZE

-----------------------------------------------------------------------------
(* parse_memory_map: the ranges of RAM below 4 GiB                         *)

Clamp(e) ==
  [addr |-> e.addr, len |-> IF e.addr + e.len > WORD - 1 THEN WORD - e.addr ELSE e.len]

Kept(map) ==
  {i \in DOMAIN map : /\ map[i].available /\ map[i].addr < WORD
                      /\ map[i].addr >= LOW /\ Clamp(map[i]).len >= MIN_LEN}

\* the first MAX_MEM_ENTRIES of them
memory_entries(map) ==
  {Clamp(map[i]) :
     i \in {k \in Kept(map) : Cardinality({j \in Kept(map) : j < k}) < MAX_MEM_ENTRIES}}

\* end of a range, in 32 bits: 0 if it ends with the address space
End(e) == (e.addr + e.len) % WORD

-----------------------------------------------------------------------------
(* pmm_init                                                                *)

Highest_of_starts(entries) == Max({0} \cup {e.addr : e \in entries})

Highest(entries) == Max({0} \cup {End(e) : e \in entries})

module_start(mods) == Min({WORD - 1} \cup {m.start : m \in Range(mods)})

BitmapBytes(total) == (total + PER_UNIT - 1) \div PER_UNIT

\* After the page tables, which is where the stack of the boot lies, or past
\* the modules if it would reach into them.
BitmapPlace(total, mods) ==
  LET start == RoundUp(pt_end)
      end == start + BitmapBytes(total)
  IN  IF end > module_start(mods)
      THEN [start |-> RoundUp(module_start(mods) + PAGE_SIZE * MODULE_PAGES), end |-> end]
      ELSE [start |-> start, end |-> end]

BitmapFill(total) == 0 .. BitmapBytes(total) * PER_UNIT - 1

\* RAM above LOW
FreeAtBoot(entries) == UNION {Pages(e.addr, End(e)) : e \in entries}

\* the kernel image, the bitmap, the page directory, the tables, the modules
Reserved(at, mods) ==
  Pages(LOW, __kernel_end)
    \cup Pages(at.start, at.end)
    \cup {PageOf(page_directory)}
    \cup (PageOf(first_page_table) .. PageOf(first_page_table) + TABLES - 1)
    \cup UNION {Pages(m.start, m.end) : m \in Range(mods)}

\* Everything is taken at first, then RAM is freed, then what is in use is taken.
Marked_frees_last(fill, free, reserved) == (fill \cup reserved) \ free

Marked(fill, free, reserved) == (fill \ free) \cup reserved

pmm_init(entries, mods) ==
  LET total == PagesUp(Highest(entries))
      at == BitmapPlace(total, mods)
  IN  /\ pmm_total_pages' = total
      /\ bitmap_at' = at
      /\ bitmap' = Marked(BitmapFill(total), FreeAtBoot(entries), Reserved(at, mods))

\* A map is missing or there; init_allocator sets up the heap with the bitmap.
parse_memory_map ==
  /\ ~ready /\ ready' = TRUE
  /\ IF machine.map = <<>>
     THEN UNCHANGED <<bitmap, bitmap_at, pmm_total_pages>>
     ELSE pmm_init(memory_entries(machine.map), machine.mods)
  /\ heap_next_virt' = HEAP_START
  /\ UNCHANGED <<machine, page_table, grown>>

-----------------------------------------------------------------------------
(* heap_grow                                                               *)

FreePages == (0 .. pmm_total_pages - 1) \ bitmap

HeapHasRoom_one_more == heap_next_virt <= HEAP_END

HeapHasRoom == heap_next_virt + PAGE_SIZE <= HEAP_END

PDE_INDEX(virt) == (virt \div (ENTRIES * PAGE_SIZE)) % ENTRIES

PTE_INDEX_of_unit(virt) == virt % ENTRIES

PTE_INDEX(virt) == (virt \div PAGE_SIZE) % ENTRIES

\* Every page below 1 GiB has a table since the boot, so none is ever added.
vmm_map_page(virt, page) ==
  page_table' = [page_table EXCEPT ![PDE_INDEX(virt) * ENTRIES + PTE_INDEX(virt)] = page]

heap_grow ==
  /\ ready /\ HeapHasRoom
  /\ \E page \in FreePages :
       /\ \A other \in FreePages : page <= other          \* pmm_alloc_page
       /\ bitmap' = bitmap \cup {page}
       /\ vmm_map_page(heap_next_virt, page)
  /\ heap_next_virt' = heap_next_virt + PAGE_SIZE
  /\ grown' = TRUE
  /\ UNCHANGED <<machine, ready, bitmap_at, pmm_total_pages>>

heap_grow_fails ==
  /\ ready /\ (~HeapHasRoom \/ FreePages = {})
  /\ grown' = FALSE
  /\ UNCHANGED <<machine, ready, bitmap, bitmap_at, pmm_total_pages, page_table, heap_next_virt>>

-----------------------------------------------------------------------------
\* entry.asm has mapped every page of the first GiB to itself.
Init ==
  /\ machine \in Machines
  /\ ready = FALSE /\ grown = TRUE
  /\ bitmap = {} /\ bitmap_at = [start |-> 0, end |-> 0] /\ pmm_total_pages = 0
  /\ page_table = [p \in Mapped |-> p]
  /\ heap_next_virt = HEAP_START

Next == parse_memory_map \/ heap_grow \/ heap_grow_fails

Spec == Init /\ [][Next]_vars

-----------------------------------------------------------------------------
(* Properties                                                              *)

Units(p) == p * PAGE_SIZE .. (p + 1) * PAGE_SIZE - 1

\* what the heap has been given
HeapPages == PageOf(HEAP_START) .. PageOf(heap_next_virt) - 1
Frames == {page_table[p] : p \in HeapPages}

KernelUnits == LOW .. __kernel_end - 1
ModuleUnits == UNION {m.start .. m.end - 1 : m \in Range(machine.mods)}
BitmapUnits == bitmap_at.start .. bitmap_at.start + BitmapBytes(pmm_total_pages) - 1

\* The bitmap fits below the modules.  Where it does not, pmm_init moves it but
\* reserves [start, end) with the old end, which is nothing.
BitmapBeforeModules == bitmap_at.start = RoundUp(pt_end)

\* RAM, by the map itself.  A range that ends with the address space or beyond
\* counts as none: its end wraps to 0.
RamRanges == {i \in DOMAIN machine.map :
                machine.map[i].available /\ machine.map[i].addr + machine.map[i].len < WORD}
RamUnits ==
  UNION {machine.map[i].addr .. machine.map[i].addr + machine.map[i].len - 1 : i \in RamRanges}

\* A range of RAM begins or ends inside of a page: pmm_init rounds outward.
PartRam(f) ==
  \E i \in RamRanges :
    {machine.map[i].addr, machine.map[i].addr + machine.map[i].len}
      \cap (f * PAGE_SIZE + 1 .. (f + 1) * PAGE_SIZE - 1) # {}

\* pmm_init and heap_grow: no frame of the heap is one of another heap page, of
\* the kernel with its page tables or of a module; nor of the bitmap, if that
\* fits below the modules.
FramesApart ==
  /\ Cardinality(Frames) = Cardinality(HeapPages)
  /\ \A f \in Frames :
       /\ Units(f) \cap (KernelUnits \cup ModuleUnits) = {}
       /\ BitmapBeforeModules => Units(f) \cap BitmapUnits = {}

\* Step 4 of pmm_init: a frame handed out lies above 1 MiB and holds RAM; it is
\* RAM as a whole unless a range begins or ends in the midst of it.
FramesInRam ==
  \A f \in Frames :
    /\ f * PAGE_SIZE >= LOW
    /\ Units(f) \cap RamUnits # {}
    /\ Units(f) \subseteq RamUnits \/ PartRam(f)

\* pmm_init and pmm_alloc_page: what the heap has is above 1 MiB, its alone and
\* RAM, up to the pages in which RAM begins or ends.
FramesOwned == FramesApart /\ FramesInRam

\* heap_grow gives up only when the heap has reached HEAP_END or there is no
\* page left that is RAM of a kept range and that nobody uses: the rounding of
\* pmm_init never loses one.  (It would lose every page if RAM ended inside the
\* last page of the address space, where the firmware is.)
FailsWhenFull ==
  ready /\ ~grown /\ (\A e \in memory_entries(machine.map) : End(e) <= WORD - PAGE_SIZE) =>
    \/ heap_next_virt = HEAP_END
    \/ \A e \in memory_entries(machine.map) : e.addr + e.len < WORD =>
         \A p \in Page : Units(p) \subseteq e.addr .. e.addr + e.len - 1 =>
           \/ p \in Frames
           \/ Units(p) \cap (KernelUnits \cup ModuleUnits \cup BitmapUnits) # {}

\* vmm_map_page: a page outside of the heap keeps its own address, and a page
\* of the heap, once mapped, keeps its frame.
MappingStable ==
  [][\A p \in Mapped : p \notin HeapPages' \ HeapPages => page_table'[p] = page_table[p]]_vars
=============================================================================
