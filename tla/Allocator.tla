------------------------------- MODULE Allocator -------------------------------
(***************************************************************************)
(* What the kernel heap (memory.c) promises its callers.  There is no list *)
(* and there are no free blocks here, only what is held and how far the    *)
(* heap has grown: a call is given words nobody holds, hardly more than it *)
(* asked for, and the heap grows by a page only when no page has a gap of  *)
(* that size.                                                              *)
(***************************************************************************)
EXTENDS Integers

CONSTANTS
  PAGE_SIZE, HEADER,     \* in words
  HEAP_START, HEAP_END,
  Sizes                  \* what is asked for, without the header

VARIABLES
  live,      \* blocks held, [at, size] with the header
  top        \* end of the heap

vars == <<live, top>>

Words(b) == b.at .. b.at + b.size - 1

\* the words of b belong to a heap that ends at end, and nobody holds them
Unheld(b, end) ==
  /\ Words(b) \subseteq HEAP_START .. end - 1
  /\ \A c \in live : Words(b) \cap Words(c) = {}

GapInPage(needed) ==
  \E at \in HEAP_START .. top - 1 :
    /\ Unheld([at |-> at, size |-> needed], top)
    /\ ((at - HEAP_START) % PAGE_SIZE) + needed <= PAGE_SIZE

Init == live = {} /\ top = HEAP_START

\* What is left over is too small for a header and a word.
Alloc(size) ==
  LET needed == HEADER + size
  IN  /\ needed <= PAGE_SIZE
      /\ \/ top' = top
         \/ ~GapInPage(needed) /\ top' = top + PAGE_SIZE
      /\ \E at \in HEAP_START .. top' - 1, granted \in needed .. needed + HEADER :
           LET b == [at |-> at, size |-> granted]
           IN  Unheld(b, top') /\ live' = live \cup {b}

\* More than a page is taken from fresh pages.
AllocPages(size) ==
  LET needed == HEADER + size
      pages == (needed + PAGE_SIZE - 1) \div PAGE_SIZE
  IN  /\ needed > PAGE_SIZE
      /\ top' = top + pages * PAGE_SIZE
      /\ top' <= HEAP_END
      /\ live' = live \cup {[at |-> top, size |-> pages * PAGE_SIZE]}

\* A call that fails may have used up the pages that were left.
AllocFails == top' = HEAP_END /\ UNCHANGED live

Free(b) == live' = live \ {b} /\ UNCHANGED top

Next ==
  \/ \E size \in Sizes : Alloc(size) \/ AllocPages(size)
  \/ AllocFails
  \/ \E b \in live : Free(b)

Spec == Init /\ [][Next]_vars
=============================================================================
