------------------------------ MODULE MCPhysMem ------------------------------
(***************************************************************************)
(* Machines of thirty-two pages for PhysMem.  The kernel lies in pages 2   *)
(* to 7, its last page used in part, with the page tables in 4 and 5 and   *)
(* the stack of the boot behind them; the heap starts at a table, as it    *)
(* does in the linked kernel.                                              *)
(***************************************************************************)
EXTENDS PhysMem

Ram(start, end) == [addr |-> start, len |-> end - start, available |-> TRUE]
Device(start, end) == [Ram(start, end) EXCEPT !.available = FALSE]

\* below 1 MiB; where the kernel lies; behind a hole, up to 4 GiB or into its
\* last page, and above it
LowRam == Ram(0, 3)
MainRam == {Ram(LOW, end) : end \in {24, 27, 32, 40}}
MoreRam == {Ram(44, 52), Ram(45, 51), Ram(48, 49), Ram(52, 63), Ram(50, 64), Ram(50, 80), Ram(64, 80)}

Maps ==
  {<<>>} \cup {<<m>> : m \in MainRam}
    \cup {<<LowRam, m, Device(40, 44), r>> : m \in MainRam, r \in MoreRam}
    \cup {<<r, m>> : m \in MainRam, r \in MoreRam}
    \cup {<<m, Ram(44, 52), Ram(54, 56)>> : m \in MainRam}

Module(start, end) == [start |-> start, end |-> end]

\* at a page, as the boot loader loads them
Modules == {<<>>, <<Module(16, 19)>>, <<Module(18, 20)>>, <<Module(20, 23), Module(16, 17)>>}

MCMachines == [map : Maps, mods : Modules]
=============================================================================
