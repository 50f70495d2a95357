# A TLA+ verification of the TBS kernel

TBS is a small 32-bit kernel for one processor: a timer-driven round-robin
scheduler, a terminal fed by the keyboard interrupt, a compositor task that owns
the text screen, a page and block allocator, and a file system in memory.  This
directory models its logic in TLA+, checks the models with TLC on small
instances, and proves the safety properties and both refinements with TLAPS for
every value of the constants.  `PROJECT.json` maps every definition to the source lines it models.
Paths below are relative to `src/src/`.

## The system

| component | state it keeps | operations | interacts with |
|---|---|---|---|
| scheduler (`kernel/core/task.c`, `lib/sleep.c`, timer stub of `arch/i686/boot/int.asm`) | ring of tasks, `current_task`, `current_process`, `task_count`, per task `state`, `wake_tick`, `esp`; `system_ticks` | timer tick, `int $32`, `sleep_ms`, `block_task`, `wake_task`, `terminate_task`, `create_ktask` | every task; the heap for the task itself |
| terminal (`lib/tty.c`, `lib/spinlock.c`, `kernel/drivers/ps2_key.c`) | three rings (raw, input, output), three locks, three wait pointers, the edit buffer | keyboard interrupt, `tty_worker`, `tty_read_line`, `tty_write` | blocks and wakes tasks; the compositor takes the output |
| compositor (`kernel/modules/compositor.c`, `kernel/drivers/vga-textmode.c`) | frame buffer, text cursor, colour, the cell under the mouse pointer, `compositor_lock` | character output, scroll, clear, mouse pointer, processor usage | terminal output ring, mouse position, tick counters |
| keyboard and mouse (`kernel/drivers/ps2_key.c`, `ps2_mouse.c`) | shift, packet cycle, position; they share the output byte and the configuration of one controller | two interrupt handlers, `mouse_init` polling from the console task, `mouse_get_position` | the raw ring of the terminal; the pointer task of the compositor |
| physical memory and paging (`lib/memory.c` 48-263, `arch/i686/boot/entry.asm`) | bitmap of frames, page directory and tables | `pmm_init`, `pmm_alloc_page`, `pmm_free_page`, `vmm_map_page` | the heap |
| heap (`lib/memory.c` 180-284, 459-577) | block headers in memory, `kernel_block_list`, `heap_next_virt` | `kmalloc`, `kfree`, `heap_grow` | scheduler, file system, frame buffer |
| file system (`lib/fs.c`, `lib/vfs.c`, `kernel/drivers/ramfs.c`) | inodes and their reference counts, directories, files, descriptor table and `cwd` of the process | `sys_open/close/read/write/create/mkdir/chdir/readdir`, path lookup, image loader | heap; the console is the only client |
| boot (`kernel/core/main.c`, `context.asm`) | order of initialisation | `kernel_main`, `create_process`, `start_multitasking` | everything |
| text (`lib/string.c`, `lib/stdio.c`, `kernel/drivers/serial.c`, `printp` of `lib/kerror.c`, the parser in `main.c`) | none | conversions, formats, searches, copies | everything that prints |
| panic, speaker, pci, GDT, window manager | little or none | | |

What is hard in it: tasks are preempted at any instruction outside of `cli`
sections; the three wait loops test a ring without a lock and then block; locks
spin with interrupts enabled; a task is linked into the ring before it can run;
the tick counter wraps; the heap takes no lock; the screen has two writers and
one of its operations takes no lock; two handlers and a polling task take bytes
from one port.  The list with lines is `hazards` in
`PROJECT.json`.

What makes each part correct: the scheduler only dispatches a task that can run,
every READY task runs soon, every sleep ends with its tick; the terminal hands over the
text that was typed, line by line, in order, and no task spins or sleeps for
ever; the heap gives out disjoint memory and loses none; a frame has one owner
and is RAM; the position follows the mouse, whatever is lost, and shift the keys
that arrive;
a descriptor refers to an open file and an offset stays inside of it; the screen
shows what was written.

## Modules

### Scheduler

One CPU.  Tasks are named by their tid; `alloc_task` appends at the tail and
nothing is ever unlinked (`remove_task_from_list` writes only to the static
`task_table`, which holds no task of the ring), so the ring visits
`0 .. task_count-1` in order and the pointer structure is the function
`Distance`.  An action of the running task is the code between two points where
interrupts are enabled; `TimerTick` may fall between any two.  `int $32` enters
the stub of the timer, so `Yield` is a tick too and advances `system_ticks`: a
sleep is counted in ticks of both kinds, the first of which is always its own
`int $32`.  So a sleep of one tick ends at once, and one of whole ticks is shorter
than its milliseconds.  `WokenOnTick` says which tick ends a sleep, and nothing of
time.

`pc` says where the code of a task stands: `parked` is between `block_task` and
`int $32`, where interrupts come; `asleep` is between the `sti` of `sleep_ms` and
its `int $32`, where none does, as `sti` takes effect after the next instruction
(`Interruptible`); `checked` and `linked` are inside of `create_ktask`..  `asked`,
`slept` and `waited` are history variables.

`alloc_task`'s creation by `create_ptask` is the same code as `create_ktask`.
`create_process` runs only before `start_multitasking` and belongs to the boot
module of the plan.  `busy_ticks` and `usage_ticks` have no influence on
scheduling.

### Tty

The three tasks and the interrupt take one step per access to shared memory
(a ring test, a lock, an element moved), so every preemption between accesses is
an interleaving of the model.  Rings with one producer under one lock are
sequences (`raw`, `input`), bounded as `(head + 1) % SIZE != tail` bounds them;
the output ring keeps its indices because two tasks and an unlocked test use them.
`raw_input_lock` has one user and is left out.  `output_buff` and the rest keep
the code's names.  A task that has executed `block_task` stands at `woken` until
somebody makes it READY: preemption before its `int $32` and the `int $32`
itself are the same.  The reader is registered before tasks start (main.c 295),
the worker registers itself.

`KeyLimit` bounds the keys of a run; it is the only bound that is not in the code.
A letter is a character that is neither a newline nor a backspace (the
assumption on `Letters`); no other character is treated apart.

### LineDiscipline

What the terminal promises, without tasks, locks or rings: a key edits the line,
a newline makes the whole line ready, the reader gets ready text in order, and
the one thing that may be lost is a character that does not fit.  `Tty` implements
it (`ImplementsLineDiscipline`): `typed` is the keys the worker has taken from the
raw ring, `ready` the input ring followed by what the worker still has to copy,
and `edit` the edit buffer, empty while a completed line is on its way.  The
worker's copy steps are stutters, except the one that meets a full ring, which is
`Overflow`.

### Heap

The block list with its headers..  Addresses count words; a header written over by a
neighbour is forgotten (`Forget`)..  A call is one step: `alloc_task` calls
`kmalloc` under `cli`, and otherwise one task, the console, allocates..  The
exception (a task creation that preempts the console inside of `kmalloc`) is
listed under hazards and planned..  Sizes near 4 GiB, for which the sum of header
and size wraps (memory.c 479-480), are left out: no caller comes
near..  `FreesPages` separates what the list supports from what it does not: without
it, blocks of two pages and more are not given back..  A block of a page and a
header can be: first fit grants it to a request of a page where merged free space
spans two pages.

### Allocator

What the heap promises: a call gets words nobody holds, at most a header more
than it needs, and the heap grows by a page only when no page has a gap of that
size.  `Heap` implements it with `top <- heap_next_virt`
(`ImplementsAllocator`); the third promise makes the merging in `kfree` and the
first fit part of the contract.

### PhysMem

`parse_memory_map`, `pmm_init` and the part of `kmalloc` that `Heap` leaves open:
`heap_grow` takes the lowest free frame and maps it at `heap_next_virt`.  Memory
is counted in units of which a page has a few; additions that the code makes in
32 bits are taken modulo `WORD`, so a range that ends with the address space has
the end 0 as in the code.  `machine` is the memory map and the modules, chosen
once from `Machines`; the bitmap is the set of pages whose bit is set.  A map that
lists a range twice or contradicts itself is not in the instances.  The
assumptions are the layout (kernel, tables and heap whole pages in their order,
the kernel and a bitmap of all memory below 4 GiB) and that modules lie above the
kernel and end before the last page.  RAM that ends inside the last page below
4 GiB rounds up to 2^32, which is 0 pages: `FailsWhenFull` has the premise that
there is none.

`FramesOwned` is what the code does give, and has two exceptions: a frame in
which a range of RAM begins or ends need only hold some RAM, as `pmm_init` rounds
outward; and the bitmap's own pages are kept from the heap only where the bitmap
fits below the modules (`BitmapBeforeModules`).  In both cases the code gives away
what its comments keep; TLC finds either one at once when the exception is taken out
of the property, and the list of disagreements below has them.

### Screen

One frame buffer, four tasks: `compositor_main`, `cpu_usage`,
`CompositorEnableMouse` and the `clear` command of the console, which does not
take `compositor_lock`.  A step is one access to shared state between calls
(load each part of the cursor, draw, advance, copy), in the order of the code; a scroll or a
column of a clear is one step, since no other locked task sees its middle and
what the unlocked one does to it is per cell.  Characters are model values and
colours are left out.  `screen` is what the display shows.  `sheet` (a history
variable) is the reference terminal, a sheet of rows without end that
`PrintChar` writes on; `printed` counts its characters and `TextLimit` bounds
them.  The pointer may be sent to any of `Places`.

`clear` leaves the cursor on row 0, so the text after it goes over the top bar.
`EdgesIntact` therefore gives up, once the screen was cleared, the cells of that
bar above the text (`OverTopBar`), and no others.

### Ps2

The controller's output byte is read by the keyboard interrupt, by the mouse
interrupt and by `mouse_init`, which polls with interrupts enabled..  A byte that
arrives requests an interrupt (`irq`) if its line is enabled..  `keyboard_irq` reads
the port whatever is there, `mouse_irq_handler` first looks at the status, and
`mouse_init` polls (`mouse_wait`) and reads (`mouse_read`) in two steps: each of
them may find the byte already read, and then gets it again..  When `mouse_init`
takes the byte, the request may be dropped or stay..  The wire is slow: no byte
comes while an interrupt is requested and not yet handled..  The devices are
external: keys are pressed and let go, the mouse sends packets of three bytes and
answers commands, the controller transfers one byte at a time from any of them and
answers the request for its configuration..  `mouse_wait` ends when a byte is there
or when nothing is on its way, which is its time-out..  A byte other than the
configuration written back to the controller ends a behaviour of the model
(`misread`): what such a controller does is not code..  A mouse sets bit 3 in the
first byte of its packets, which `ps2_mouse.c` relies on (an assumption); it may
be set in the others too..  Scancodes are reduced to the shift keys; `Tty` starts
where a character enters the raw ring.

### Text

Conversions, formats, searches, copies and the parser of the command line as
operators, each the function that the C code computes, with the digits and
positions where the code tests them.  A loop is a function of its turns, each turn
an operator (`DigitStep`, `CopyUnit`, `PrintStep`, `ConcatStep`, `ParseStep`):
`read[k]`, `copied[k]` or `after[k]` is what it holds after `k` of them.  The loops of
`strstr`, `strrchr` and `strcmp` are functions of the place they stand at, and read
bytes (`ByteAt`, 0 at the terminator) as the code does.  The loops over formats of
`printf`, `serial_print` and `printp` are the same lines three times (stdio.c 21-95,
serial.c 25-99, kerror.c 56-130), hence one operator; that of `strconcat` is
another.  A loop over
a text needs one turn for each character at most, and a turn at the end changes
nothing.  `call` is the last call made, so that the runs enumerate the arguments.
`INT_MAX` and the sizes are constants; `TextAssumption` has what is true of the
machine's: a register has room for an int in its hexadecimal digits, no buffer is
empty, and two characters have different codes, none of them that of the
terminator.  A format does not end inside of a directive; no format of the source
does, and the code would read past it.

### FileSystem

The calls of a process, path lookup and ramfs, one step per call: one process,
the console, makes them all.  Inodes are a sequence in the order of allocation
with the `ramfs_dir` or `ramfs_file` behind `data` folded in; an index replaces
the pointer and `NULL` is 0.  A path is its pieces between slashes, each of them
a `Name`, which keeps what the code does with empty ones.  An image holds a tree,
root first and every directory before its children (`ImagesAssumption`): the
loader does not check it, and `rootfs/ramfs_build` writes it so.  `build_path` searches names as
`find_name_in_parent` does.  Kept as the code has them: `touch` adds a second
entry of a name that exists and `mkdir` refuses it, `mkdir` leaves its
descriptor open and makes inodes without `file_ops`, lookup counts a reference
on every component but never on the inode it starts from.

`CountRefs` chooses what a run looks at.  No code reads `ref_count`, so it is
held still where it is not the subject, and the state space stays finite.  Calls
for files are not applied to directories, nor `touch` to a path below a file,
although the code lets them through (below).  `MaxInodes` is the bound of the
model.  `MCFileSystem` holds the images and the paths.

### MC modules

`MCFileSystem`, `MCPhysMem`, `MCScreen` and `MCDevices` give the constants their
values.  `MCDevices` runs `Ps2` and `Text` in one go: they share no state, and text
is converted before the devices move.

### Proof modules

`SchedulerProofs`, `TtyProofs`, `HeapProofs`, `PhysMemProofs`, `ScreenProofs`,
`DevicesProofs` and `FileSystemProofs` each extend the module they are named for,
`DevicesProofs` both `Ps2` and `Text`, as `MCDevices` does..  They begin with the
inductive invariant, then have the facts about the operators of the model, a lemma
for each action or each part of the invariant, and end with the
theorems..  `Numbers` holds what several of them need of natural numbers: division,
least and greatest elements, and induction and recursion over an interval, on the
value before or on all smaller ones.

## Runs

| run | bounds | what it shows |
|---|---|---|
| `scheduler_sleep` | 3 tasks, durations of none, two and three ticks, counter of 8 values | the inductive invariant; a sleep ends with the tick asked for, its own `int $32` counted, across wraps of the counter; a woken, blocked or sleeping task never runs by mistake; every sleep ends |
| `scheduler_create` | 4 boot tasks, limit 5, two creators | unfinished tasks are never dispatched; round robin is fair; the limit is overshot by one at most; READY tasks run |
| `tty_input` | 4 keys of 4 kinds, raw and input rings of 3 places, edit buffer of 2 | the terminal implements the line discipline, overflow included; a read returns a line and does not wait inside of one |
| `tty_echo` | 2 keys, output ring of 2 places | the output ring is a queue for two writers and a reader; locks are held by one READY task; nobody spins for ever |
| `tty_lost_wakeup` | 2 keys | violated: the reader sleeps on a full line |
| `heap_small` | 3 pages of 8 words, three sizes, one of them of two pages | the heap implements the allocator; blocks tile memory |
| `heap_free_pages` | as above | violated: `kfree` of a multi-page block links it to itself |
| `file_system` | 2 descriptors, 4 inodes, files of 3 bytes, nine paths over two names and the special ones, with and without an image | offsets, sizes and capacities fit; no read returns bytes nobody wrote; the path of the working directory leads to it; no directory is hidden by an entry of its name |
| `fs_refs` | counted references | violated: the root loses its references to `ls` |
| `screen` | 5 by 5 cells (a text of 3 columns and 2 rows), 4 characters, one clear, a pointer between two cells | the margin survives all drawers, and the border too but for the top bar above the text once the screen was cleared; the display is current whenever nobody draws; undisturbed text equals a reference terminal |
| `phys_mem` | 57 memory maps and 4 sets of modules on a machine of 32 pages | frames of the heap are distinct, above 1 MiB, in RAM, and nobody else's, with the two exceptions above; growth fails only when none is left; mappings are stable |
| `devices` | keys and answers in any order, two packets (one with bit 3 set in every byte), repeated `cursor` commands; numbers up to 127, all words of 3 characters, all copies in 5 cells, 196 formats, lines of up to 6 characters | the position follows the mouse again after any disturbance, shift follows the keys unless a scancode went to `mouse_init`; conversions denote the number and read back, searches find what their names say, the loops of `printf` and `strconcat` agree, copies survive overlap, arguments are the words of the line |

Why these bounds are enough..  The scheduler's counter has to wrap while sleepers of
different lengths wait, and eight values do that on every path; two creators are
the smallest number that can race at the limit..  The rings of the terminal have to
fill, wrap and empty several times: two or three places and four keys (two where
every backspace writes three characters) reach that, with an edit buffer short
enough to overflow; the input ring of `tty_input` is one place too small for two
full lines, so that a line may meet a full ring..  `ECHO` is off in `tty_input`
(echo never touches the input path) and on where the output ring is the
subject..  Three pages of eight words let a block split twice, merge on both sides,
meet a page border and run out..  Two descriptors of one file are the fewest that
can disagree about its size; four inodes make a directory, a directory inside of
it and a file that bears the name of either..  Five by five cells are the smallest
screen with a margin, a line of two characters and a scroll; four characters break
a line, scroll and go back..  The machines of `phys_mem` have ranges that end inside
of a page, at 4 GiB and above, a hole, a gap of less than a page, more ranges than
are kept, and modules that leave the bitmap its place or push it away..  The two
packets tell left from right, meet both edges, and make every byte look like a
first one; one key on its way is enough to be taken by the wrong reader.

Deadlock checking is on for the scheduler (a tick is always possible) and for
physical memory (a growth that fails may be tried again).  It is off for the
terminal, where the keyboard may stay silent and every task then blocks, for the
heap, where memory may be exhausted and nothing is held, for the file system,
where a table may be full and every file closed, for the screen, which ends with
`TextLimit`, and for the devices, where the model stops after a misread
configuration.

## Fairness

`Scheduler`: `WF(TimerTick)` and `WF(Yield)`.  The PIT interrupts for ever, and no
path of the code leaves interrupts disabled; where `sti` holds them off, the `int
$32` behind it is the next instruction.  `Tty`: weak fairness of each task, which is
`ReadyRuns` of Scheduler; none for the keyboard.  With lost wake-ups in the code
no stronger liveness holds of the terminal than that locks are granted.

## Proofs

Every safety invariant and every action property of the runs is proved, for all
values of the constants that the assumptions of the modules admit; so are both
refinements..  The proofs about state have one shape: an inductive invariant (`Init`
gives it, every step keeps it), and the properties as its consequences; those
about `Text` are below..  None of the properties below is inductive alone, and what
an invariant adds is the argument why the property holds.

**Scheduler** (`Invariance`, `TypeCorrect`, `DispatchSafe`, `RoundRobin`,
`LimitBound`, `SleepExact`).  Assumed: the boot tasks fit, idle does
nothing else, a task others wait for does not exit, and
`ms * PIT_FREQUENCY + 999` does not wrap.  `FrameInv` adds that every task that
is READY or SLEEPING has a frame, that a linked and unpublished task is BLOCKED,
and that idle is READY.  `WaitInv` adds to the dispatches a task has waited the
hops from the running task to it: a tick takes from the second what it adds to
the first.  `LimitInv` counts the creators past the test.  `SleepInv` says that
the wrapping difference of `wake_tick` and `system_ticks` is what is left of the
sleep, which is less than half of the range, so that the signed comparison is
right; `SleepExact` is about ticks, and says nothing of milliseconds.  Each part has
its lemma.

**Tty** (`TtyInvariance`, `TypeCorrect`, `OutputCorrect`, `LineCorrect`,
`LocksCorrect`, `ReadCorrect`, `DisciplineImplemented`).  `TtyInv` has the program
of each task (`ProgramInv`) and what the worker may be echoing (`EchoInv`); which
sections a set lock stands for, never two of one lock (`LockInv`); that what a
task has found out about a ring before it took the lock still holds when it uses
it (`RingInv`), since each ring has one task that takes from it and the space for
a writer only grows; how a completed line relates to the edit buffer
(`CompletedInv`) and the reader's line to the newline (`LineInv`); that the raw
ring is the end of the accepted keys (`KeysInv`).  `StreamInv` carries
`LineAtomic`: unless a character was dropped, the text on its way to the reader has
a newline in every window of `EDIT_MAX + 1` characters, and the part handed over
ends with one whenever the worker is not copying, so that a read which has begun a
line finds its end.  `OutputInOrder` follows from the indices: a stored
element lies behind all others, modulo the size of the ring.

`DisciplineImplemented` maps every step to one of LineDiscipline or a stutter.
Its ready text is the input ring and what the worker has still to copy, and stays
the same when the worker moves a character from the second to the first.

**Heap** (`HeapInvariance`, `TypeCorrect`, `TilingCorrect`, `SortedCorrect`,
`AllocatorImplemented`), each under `~FreesPages`: with blocks of several pages
given back, the run `heap_free_pages` shows the list broken..  `HeapInv` says that
the list is strictly sorted and ends (`Chain`), that the blocks lie one after the
other up to `heap_next_virt` and each can hold a header and a word (`Tiles`), that
every free block is listed and of the used ones only some of two pages and more
(`FreeListed`; such a block is handed out without leaving the list), that two free
blocks meet at page boundaries only (`Merged`), and that what callers hold is what
is marked used..  `TakeBlock`, `add_block` and both merges of `kfree` keep it..  That
the list of first fit visits every free block (`ListedFacts`) is an induction
along the list.

`AllocatorImplemented` needs `Merged` for the promise that the heap grows only
when no page has a gap: within a page a gap is one free block, so first fit
would have found it.

**PhysMem** (`PhysMemInvariance`, `TypeCorrect`, `FramesCorrect`,
`FailsWhenFullCorrect`, `MappingCorrect`).  `BitmapInv`: after the boot, the set
bits are those that `pmm_init` left set and, apart from them, the frames of the
heap.  `FramesInv`: the frames of two heap pages differ.  `FullInv`: growth that
failed once fails for ever.  The rest is arithmetic of `pmm_init`: which pages it
frees and reserves when ranges end inside of pages, at the end of the address
space, or above.  `FramesCorrect` has the two exceptions of `FramesOwned`.

**Screen** (`ScreenInvariance`, `TypeCorrect`, `DisplayCorrect`, `EdgesCorrect`,
`TextCorrect`)..  `CursorInv` is what protects the border: between load and advance
only a clear changes the cursor, and it changes it to places from which an advance
stays in the columns of the text; the row may be that of the top bar, which is why
`EdgesCorrect` gives up a part of it after a clear..  `MarginInv` includes the cell
saved under the pointer, which comes back later..  `SheetInv` and `TextInv` relate
the frame buffer to the last rows of the reference terminal at each step of the
compositor, through wraps, scrolls and backspaces over a line's start.

**Ps2** (`Ps2Invariance`, `TypeCorrect`, `ShiftCorrect`, `MouseCorrect`).
`ByteInv`: what waits for the keyboard's handler is a scancode or an answer, and
no answer is a scancode of a shift key.  `IrqInv`: a request and the byte in the
port are of one device, and no two requests stand together.  A second reading of a
scancode leaves `shift` as it is; a byte of the mouse is read a second time only
while the handler need not be in step (`ReadAgain`).  `ShiftInv` predicts `shift` from the last
scancode on its way (`LastShift`).  `MouseInv` says that a handler that is at the
right byte stays there (`InStep`), and in which places a handler anywhere in a
packet may be while a quiet packet settles it (`Settling`): its second and third
bytes, without bit 3, are taken for no first one.

**Text** (`NumbersAlwaysCorrect`, `SearchesAlwaysCorrect`, `MoveAlwaysKeepsSource`,
`FormatsAlwaysAgree`, `ArgumentsAlwaysWords`).  Each property is about one call, so
that the work is in what the functions compute, for texts, memories and numbers of
any size.  The first lemma about a loop (`ValueLoop`, `ReadLoop`, `CopyLoop`,
`PrintLoop`, `ConcatLoop`) says that there is a function of its turns; an
induction over the turns follows.

* Numbers: `DigitsFacts` gives the digits of a number their value back and no zero
  in front, by strong induction, as the digits of `v` are those of `v \div base`
  with one more.  A zero in front changes no value (`ZerosFacts`), so padding is
  harmless, and a number that fits in `HEX_DIGITS` digits is not cut by the buffer of
  `serial_print_hex`.  `ReadLoop` is the argument of `atoi`: after `k` digits either
  `result` is their value, which an int can hold, or `over` is set and their value
  is too large for one; the test before the multiplication (`StepFacts`) decides
  exactly that, and more digits make no value smaller.  `FirstPlace` finds the places
  where spaces, sign and digits end.
* Searches: each loop stops, at the first place where its condition fails
  (`LoopStops` of `Numbers`), and reads bytes that are 0 at the terminator alone
  (`Bytes`).  `MatchEndFacts` says where two texts part, from which come occurrences
  (`StrstrFacts`, `PrefixOccurs`); `StrrchrFacts` that no turn forgets a later hit;
  `StrcmpFacts` that the sign of the difference is the order of the texts.
* Copies: going forward, a unit is read before it is overwritten if the destination
  is the earlier one, going backward if it is not (`MoveCorrect`).
* Formats: the two loops are at the same place with the same text as long as the
  buffer of printf is not full, and a buffer once full stays so (`FormatsCorrect`).
  The conversions of the two agree by `HexFacts` and by definition.  `PlainText`: a
  text without directives is printed as it is.
* Commands: between two turns the arguments are exactly the words that start before
  `p`, and `p` is behind a space, at the start or at the end (`Parsing`); a turn
  goes on by a character at least, so that there are turns enough (`ParseCorrect`).

**FileSystem** (`FileSystemInvariance`, `TypeCorrect`, `OffsetsCorrect`,
`ReadsCorrect`, `DirectoriesCorrect`, `PathCorrect`).  `FileSystemInv`: entries,
parents and descriptors refer to inodes there are (`FsTyped`, `FdInv`); a file has
no bytes that were skipped and fits its capacity (`FilesFit`); directories are a
tree in the order of allocation (`Tree`), each of them an entry of its parent only and the
first of its name there (`EntriesInv`), made in a place a process can be
(`PlacesInv`), as is the working directory.  It holds of what the image loader
builds from any image with a tree.  `PathCorrect` has a hypothesis, `NamedPaths`: no
path given ends in a slash.  Without it the path is wrong, as the list below
says; with it no entry has an empty name (`NamesInv`).  The proof follows
`build_path` up and lookup down the same directories by induction on the depth.

The library's theorems for induction cannot be instantiated by the provers
installed, as they take an operator.  `Numbers` states induction for a set of
naturals (`Induction`, `StrongInduction`) and the existence of functions by
recursion for a given step (`Recursion`, `StrongRecursion`), which is enough for
`Listed`, `heap_grow`, lookup, `build_path` and every loop of `Text`.

Only model-checked: liveness (`ReadyRuns`, `SleeperWakes`, `SpinEnds`), which
needs ENABLED, and what the violated runs show.

## Where the code and its comments disagree

The runs that end in a violation are listed under `findings`: the lost wake-up of
the reader, the multi-page block that stays in the free list and what `kfree`
does to it, and reference counts that only some lookups take.

Others are not runs, most of them because the property would restate the line:

* `tty_worker` skips each character that meets a full input ring (tty.c 161-172),
  a newline too; the comment above says "send completed line to input buffer"
  (154).  `LineDiscipline` has the loss as `Overflow`.
* Every inode has the handlers of both types (ramfs.c 61-62), so that the
  capability checks of the calls ("Check create capability", fs.c 189) do not
  tell files from directories.
* `mkdir` of a path that ends in a slash makes a directory with an empty name,
  from inside of which `build_path` gives the path of its parent.
* The bitmap of frames is placed at `pt_end`, which is `stack_bottom` of the boot
  (memory.c 74-77, entry.asm 107): about 124 MiB of RAM fill the page below the
  stack pointer.
* When the bitmap would meet a module, `bitmap_start` is moved past the modules and
  `bitmap_end` keeps the old value (memory.c 83-89), so the loop under "6) Reserve
  bitmap itself" (128-134) reserves nothing, and the heap may be given the bitmap's
  pages.
* "4) Mark usable RAM (above 1 MiB) as free" (memory.c 100): the start of a range is
  rounded down and its end up (109-110), so a page of which the map gives only a
  part as RAM is handed out as a whole.
* The loader calls a file of the image "Read-only" (ramfs.c 191), which means its
  capacity only: it has the write handler of every file, and `sys_write` stores over
  the bytes of the image, without letting the file grow.
* `sleep_ms` counts its own `int $32` as the first of its ticks (sleep.c 22, task.c
  73), and those of all other tasks: with the 200 Hz of main.c 66, `sleep_ms(5)`
  returns at the next dispatch.
* `printp` hands the text it has made to `serial_print` as a format (kerror.c 135).
* The repository's README says paging is enabled, and memory.c that memory is
  identity-mapped; no instruction of the source writes `cr3` or `cr0`.  Without
  paging the heap's addresses from 4 MiB on are physical, and nothing keeps them
  apart from frames, modules or page tables.
* `console_task` reads up to 256 characters into an array of 64, and the parser
  allows 64 arguments in an array of 8 (main.c 136-137, 153, 175).
* `strncpy` writes a byte more than `n` when the source is shorter (string.c 26-32).

## Not modelled

* Port input and output (pci, speaker, registers of the display), descriptor
  tables, and colours; the value that `cpu_usage` shows.
* Boot: the order of initialisation with interrupts on before there is a task.
* Panic: it prints and halts.  Its `vga_refresh` executes `sti`, so that other tasks
  may run until the next `cli`; nothing is promised then.
* Writes past an array and accesses through null pointers: the instances stay
  below the arrays, and hazards name the places.
* `WM.c`, `console.c`, `pmm_free_page`, `tty_read` and the checks that print page
  tables, which nothing uses or which change nothing.
* The copies of the source under `src/rootfs`: identical to `src/src`, twice.  The
  map refers to the files under `src/src` alone, a third of the lines of C and
  assembly in the repository; the share of all lines that it covers is small for
  this reason.

## Plan

1. `Boot`: interrupts between `IDT_install` and `start_multitasking`,
   `create_process`.
2. `Heap` with interleaved calls: a task creation that preempts the console inside
   of `kmalloc`.
3. The loop of `console_task`, whose `argv` outlives the line it was cut from.
