----------------------------- MODULE PhysMemProofs -----------------------------
(***************************************************************************)
(* PhysMemInv is inductive, for every memory map and every list of modules *)
(* that MachinesAssumption allows and for every size of a page, a table    *)
(* and the heap; the properties of PhysMem follow from it.                 *)
(***************************************************************************)
EXTENDS PhysMem, Numbers, FunctionTheorems, SequenceTheorems

-----------------------------------------------------------------------------
(* Pages                                                                   *)

\* What the assumption says of each constant.
LEMMA Constants ==
  /\ PAGE_SIZE \in Nat \ {0} /\ PER_UNIT \in Nat \ {0} /\ ENTRIES \in Nat \ {0}
  /\ TABLES \in Nat \ {0} /\ LOW \in Nat \ {0} /\ MIN_LEN \in Nat \ {0}
  /\ WORD \in Nat /\ MODULE_PAGES \in Nat /\ HEAP_START \in Nat /\ HEAP_END \in Nat
  /\ page_directory \in Nat /\ first_page_table \in Nat /\ __kernel_end \in Nat
  /\ pt_end \in Nat /\ pt_end <= __kernel_end
  /\ __kernel_end + PAGE_SIZE + PAGE_SIZE <= WORD /\ WORD > 0
<1>1. /\ PAGE_SIZE \in Nat \ {0} /\ PER_UNIT \in Nat \ {0} /\ ENTRIES \in Nat \ {0}
      /\ TABLES \in Nat \ {0} /\ LOW \in Nat \ {0} /\ MIN_LEN \in Nat \ {0}
      /\ WORD \in Nat /\ MODULE_PAGES \in Nat /\ HEAP_START \in Nat /\ HEAP_END \in Nat
      /\ page_directory \in Nat /\ first_page_table \in Nat /\ __kernel_end \in Nat
  BY PhysMemAssumption
<1>2. TABLES * PAGE_SIZE \in Nat /\ pt_end <= __kernel_end
  BY <1>1, PhysMemAssumption DEF pt_end
<1>3. WORD \div PAGE_SIZE \in Nat
  BY <1>1, Division
<1>4. PAGE_SIZE * (MODULE_PAGES + 2) = PAGE_SIZE * MODULE_PAGES + PAGE_SIZE + PAGE_SIZE
      /\ PAGE_SIZE * MODULE_PAGES \in Nat
  BY <1>1
<1>5. __kernel_end + WORD \div PAGE_SIZE + PAGE_SIZE * (MODULE_PAGES + 2) <= WORD
  BY PhysMemAssumption
<1> DEFINE a == WORD \div PAGE_SIZE
           b == PAGE_SIZE * MODULE_PAGES
           c == PAGE_SIZE * (MODULE_PAGES + 2)
<1>6. /\ a \in Nat /\ b \in Nat /\ c = b + PAGE_SIZE + PAGE_SIZE
      /\ __kernel_end + a + c <= WORD
  BY <1>3, <1>4, <1>5
<1> HIDE DEF a, b, c
<1>7. __kernel_end + PAGE_SIZE + PAGE_SIZE <= WORD /\ WORD > 0
  BY <1>1, <1>6
<1> QED BY <1>1, <1>2, <1>7 DEF pt_end

\* The page of an address
LEMMA PageOfFacts ==
  ASSUME NEW addr \in Nat
  PROVE  /\ PageOf(addr) \in Nat
         /\ \A p \in Int : p <= PageOf(addr) <=> p * PAGE_SIZE <= addr
         /\ \A p \in Int : PageOf(addr) <= p <=> addr < (p + 1) * PAGE_SIZE
<1>1. PAGE_SIZE \in Nat \ {0}
  BY Constants
<1>2. PageOf(addr) \in Nat
  BY <1>1, Division DEF PageOf
<1>3. ASSUME NEW p \in Int PROVE p <= PageOf(addr) <=> p * PAGE_SIZE <= addr
  <2>1. p <= addr \div PAGE_SIZE <=> PAGE_SIZE * p <= addr
    BY <1>1, Quotient
  <2>2. PAGE_SIZE * p = p * PAGE_SIZE
    BY <1>1
  <2> QED BY <2>1, <2>2 DEF PageOf
<1>4. ASSUME NEW p \in Int PROVE PageOf(addr) <= p <=> addr < (p + 1) * PAGE_SIZE
  <2>1. addr \div PAGE_SIZE < p + 1 <=> addr < PAGE_SIZE * (p + 1)
    BY <1>1, Quotient
  <2>2. PAGE_SIZE * (p + 1) = (p + 1) * PAGE_SIZE
    BY <1>1
  <2>3. PageOf(addr) <= p <=> PageOf(addr) < p + 1
    BY <1>2
  <2> QED BY <2>1, <2>2, <2>3 DEF PageOf
<1> QED BY <1>2, <1>3, <1>4

\* and the pages up to it, which wrap to none in the last page below 4 GiB
LEMMA PagesUpFacts ==
  ASSUME NEW addr \in Nat, addr < WORD
  PROVE  /\ PagesUp(addr) \in 0 .. WORD \div PAGE_SIZE
         /\ addr + PAGE_SIZE <= WORD =>
              \A p \in Int : p < PagesUp(addr) <=> p * PAGE_SIZE < addr
         /\ addr + PAGE_SIZE > WORD => PagesUp(addr) = 0
<1> DEFINE P == PAGE_SIZE
           x == addr + P - 1
           y == x % WORD
<1>1. P \in Nat \ {0} /\ WORD \in Nat \ {0} /\ P <= WORD
  BY Constants
<1>2. x \in Nat /\ y \in 0 .. WORD - 1
  BY <1>1
<1>3. PagesUp(addr) = y \div P
  BY DEF PagesUp
<1>4. PagesUp(addr) \in 0 .. WORD \div P
  <2>1. y \div P \in Nat /\ WORD \div P \in Nat
    BY <1>1, <1>2, Division
  <2>2. P * (y \div P) <= y
    BY <1>1, <1>2, Division
  <2>3. P * (y \div P) <= WORD
    <3> DEFINE m == P * (y \div P)
    <3>1. m \in Int /\ m <= y
      BY <1>1, <2>1, <2>2
    <3> HIDE DEF m, y, P
    <3>2. m <= WORD
      BY <1>1, <1>2, <3>1
    <3> QED BY <3>2 DEF m, y, P
  <2>4. y \div P <= WORD \div P
    BY <1>1, <2>1, <2>3, Quotient
  <2> QED BY <1>3, <2>1, <2>4
<1>5. ASSUME addr + P <= WORD, NEW p \in Int
      PROVE  p < PagesUp(addr) <=> p * P < addr
  <2>1. x \in 0 .. WORD - 1
    BY <1>1, <1>5
  <2>2. y = x
    <3> HIDE DEF x
    <3> QED BY <1>1, <2>1
  <2>3. p + 1 <= x \div P <=> P * (p + 1) <= x
    <3>1. p + 1 \in Int
      OBVIOUS
    <3> HIDE DEF x, P
    <3> QED BY <1>1, <1>2, <3>1, Quotient, Zenon
  <2>4. P * (p + 1) = p * P + P /\ p * P \in Int
    BY <1>1
  <2>5. x \div P \in Nat
    BY <1>1, <1>2, Division
  <2>6. p + 1 <= x \div P <=> p < x \div P
    BY <2>5
  <2>7. P * (p + 1) <= x <=> p * P < addr
    BY <1>1, <2>4
  <2> QED BY <1>3, <2>2, <2>3, <2>6, <2>7
<1>6. ASSUME addr + P > WORD PROVE PagesUp(addr) = 0
  <2>1. x - WORD \in 0 .. P - 1 /\ x - WORD \in 0 .. WORD - 1
    BY <1>1, <1>6
  <2>2. y = x - WORD
    <3> HIDE DEF x
    <3>1. x \in WORD .. 2 * WORD - 1
      BY <1>1, <1>2, <2>1
    <3> QED BY <1>1, <3>1
  <2>3. y \in Nat /\ y < P * 1 /\ P * 0 <= y
    BY <1>1, <2>1, <2>2
  <2>4. y \div P < 1 /\ y \div P \in Nat
    <3> HIDE DEF y, P
    <3> QED BY <1>1, <2>3, Quotient, Division
  <2> QED BY <1>3, <2>4
<1> QED BY <1>4, <1>5, <1>6

\* A page is one of the pages of a range just if it holds a part of it.
LEMMA PagesFacts ==
  ASSUME NEW start \in Nat, NEW end \in Nat, end < WORD
  PROVE  /\ Pages(start, end) \subseteq Page
         /\ end + PAGE_SIZE <= WORD =>
              \A p \in Int : p \in Pages(start, end) <=>
                               start < (p + 1) * PAGE_SIZE /\ p * PAGE_SIZE < end
         /\ end + PAGE_SIZE > WORD => Pages(start, end) = {}
<1>1. PageOf(start) \in Nat /\ PagesUp(end) \in 0 .. WORD \div PAGE_SIZE
  BY PageOfFacts, PagesUpFacts
<1>2. WORD \div PAGE_SIZE \in Nat
  BY Constants, Division
<1>3. \A p \in Int : p \in Pages(start, end) <=> PageOf(start) <= p /\ p < PagesUp(end)
  BY <1>1, <1>2 DEF Pages
<1>4. Pages(start, end) \subseteq Page
  BY <1>1, <1>2 DEF Pages, Page
<1>5. ASSUME end + PAGE_SIZE <= WORD, NEW p \in Int
      PROVE  p \in Pages(start, end) <=> start < (p + 1) * PAGE_SIZE /\ p * PAGE_SIZE < end
  BY <1>3, <1>5, PageOfFacts, PagesUpFacts
<1>6. end + PAGE_SIZE > WORD => Pages(start, end) = {}
  BY <1>1, PagesUpFacts DEF Pages
<1> QED BY <1>4, <1>5, <1>6

\* A page is one of the pages of a range just if they have a unit in common.
LEMMA Overlap ==
  ASSUME NEW start \in Nat, NEW end \in Nat, end + PAGE_SIZE <= WORD, NEW p \in Nat,
         start % PAGE_SIZE = 0 \/ start < end
  PROVE  p \in Pages(start, end) <=> Units(p) \cap (start .. end - 1) # {}
<1> DEFINE a == p * PAGE_SIZE
           b == (p + 1) * PAGE_SIZE
<1>1. PAGE_SIZE \in Nat \ {0} /\ a \in Nat /\ b = a + PAGE_SIZE
  BY Constants
<1>2. p \in Pages(start, end) <=> start < b /\ a < end
  BY Constants, PagesFacts
<1>3. Units(p) = a .. b - 1
  BY DEF Units
<1>4. start % PAGE_SIZE = 0 => (start < b => start <= a)
  <2> SUFFICES ASSUME start % PAGE_SIZE = 0, start < b PROVE start <= a
    OBVIOUS
  <2> DEFINE j == start \div PAGE_SIZE
  <2>1. j \in Nat /\ PAGE_SIZE * j = start
    BY <1>1
  <2> HIDE DEF j
  <2>2. PAGE_SIZE * j < PAGE_SIZE * (p + 1)
    BY <1>1, <2>1
  <2>3. j < p + 1
    BY <1>1, <2>1, <2>2, Multiples
  <2>4. j <= p
    BY <2>1, <2>3
  <2>5. PAGE_SIZE * j <= PAGE_SIZE * p
    BY <1>1, <2>1, <2>4, Multiples
  <2> QED BY <1>1, <2>1, <2>5
<1> HIDE DEF a, b
<1>5. ASSUME NEW u \in Units(p) \cap (start .. end - 1) PROVE start < b /\ a < end
  BY <1>1, <1>3, <1>5
<1>6. ASSUME start < b, a < end PROVE Units(p) \cap (start .. end - 1) # {}
  <2>1. CASE start <= a
    <3>1. a \in Units(p) /\ a \in start .. end - 1
      BY <1>1, <1>3, <1>6, <2>1
    <3> QED BY <3>1
  <2>2. CASE a < start /\ start < end
    <3>1. start \in Units(p) /\ start \in start .. end - 1
      BY <1>1, <1>3, <1>6, <2>2
    <3> QED BY <3>1
  <2> QED BY <1>1, <1>4, <1>6, <2>1, <2>2
<1> QED BY <1>2, <1>5, <1>6

-----------------------------------------------------------------------------
(* What the boot finds                                                     *)

\* The ranges that parse_memory_map keeps are ranges of the map, above LOW and
\* below 4 GiB; only one that reached beyond is shortened, and its end is 0.
LEMMA EntryFacts ==
  ASSUME NEW m \in Machines, NEW e \in memory_entries(m.map)
  PROVE  /\ e.addr \in Nat /\ e.len \in Nat \ {0}
         /\ LOW <= e.addr /\ e.addr + e.len <= WORD
         /\ End(e) = IF e.addr + e.len = WORD THEN 0 ELSE e.addr + e.len
         /\ End(e) \in 0 .. WORD - 1
         /\ e.addr + e.len < WORD =>
              \E i \in DOMAIN m.map : m.map[i].available /\ e.addr = m.map[i].addr
                                        /\ e.len = m.map[i].len
<1>1. WORD \in Nat \ {0} /\ LOW \in Nat \ {0} /\ MIN_LEN \in Nat \ {0}
  BY Constants
<1>2. PICK i \in DOMAIN m.map :
        /\ m.map[i].available /\ m.map[i].addr < WORD /\ m.map[i].addr >= LOW
        /\ Clamp(m.map[i]).len >= MIN_LEN /\ e = Clamp(m.map[i])
  BY DEF memory_entries, Kept
<1> DEFINE entry == m.map[i]
<1>3. entry \in [addr : Nat, len : Nat, available : BOOLEAN]
  BY MachinesAssumption, LenProperties, ElementOfSeq
<1>4. /\ e.addr = entry.addr
      /\ e.len = IF entry.addr + entry.len > WORD - 1 THEN WORD - entry.addr ELSE entry.len
  BY <1>2 DEF Clamp
<1>5. entry.addr \in Nat /\ entry.len \in Nat /\ entry.addr < WORD /\ entry.addr >= LOW
      /\ e.len >= MIN_LEN /\ entry.available
  BY <1>2, <1>3
<1> HIDE DEF entry
<1>6. e.addr \in Nat /\ e.len \in Nat \ {0} /\ LOW <= e.addr /\ e.addr + e.len <= WORD
  BY <1>1, <1>4, <1>5
<1>7. e.addr + e.len < WORD => e.len = entry.len
  BY <1>1, <1>4, <1>5
<1>8. End(e) = IF e.addr + e.len = WORD THEN 0 ELSE e.addr + e.len
  <2> DEFINE x == e.addr + e.len
  <2>1. x \in 0 .. WORD
    BY <1>1, <1>6
  <2> HIDE DEF x
  <2>2. x % WORD = IF x = WORD THEN 0 ELSE x
    BY <1>1, <2>1
  <2> QED BY <2>2 DEF x, End
<1> QED BY <1>1, <1>4, <1>5, <1>6, <1>7, <1>8 DEF entry

\* Highest is the highest of the ends.
LEMMA HighestFacts ==
  ASSUME NEW m \in Machines
  PROVE  /\ Highest(memory_entries(m.map)) \in 0 .. WORD - 1
         /\ \A e \in memory_entries(m.map) : End(e) <= Highest(memory_entries(m.map))
         /\ Highest(memory_entries(m.map)) = 0
              \/ \E e \in memory_entries(m.map) : End(e) = Highest(memory_entries(m.map))
<1> DEFINE T == {0} \cup {End(e) : e \in memory_entries(m.map)}
<1>1. T \in SUBSET (0 .. WORD - 1) /\ T # {} /\ WORD - 1 \in Nat
  <2>1. WORD \in Nat /\ WORD > 0
    BY Constants
  <2> QED BY <2>1, EntryFacts
<1>2. Max(T) \in T /\ \A y \in T : y <= Max(T)
  BY <1>1, MaxExists, Zenon
<1>3. Highest(memory_entries(m.map)) = Max(T)
  BY DEF Highest
<1> QED BY <1>1, <1>2, <1>3

\* The bitmap has a bit for every page, in no more bytes than there are pages.
LEMMA BitmapFacts ==
  ASSUME NEW total \in 0 .. WORD \div PAGE_SIZE
  PROVE  /\ BitmapBytes(total) \in 0 .. total
         /\ 0 .. total - 1 \subseteq BitmapFill(total) /\ BitmapFill(total) \subseteq Page
<1> DEFINE U == PER_UNIT
           n == WORD \div PAGE_SIZE
           x == total + U - 1
           q == x \div U
<1>1. U \in Nat \ {0} /\ PAGE_SIZE \in Nat \ {0} /\ WORD \in Nat /\ n \in Nat /\ total \in 0 .. n
  BY Constants, Division
<1>2. PICK c \in Nat : n = U * c
  <2> DEFINE d == PAGE_SIZE * U
             c == WORD \div d
  <2>1. d \in Nat \ {0}
    BY <1>1
  <2>2. WORD % d = 0
    BY PhysMemAssumption
  <2> HIDE DEF d
  <2>3. c \in Nat /\ d * c = WORD
    BY <1>1, <2>1, <2>2
  <2> HIDE DEF c
  <2>4. PAGE_SIZE * (U * c) = WORD /\ U * c \in Nat
    <3>1. (PAGE_SIZE * U) * c = PAGE_SIZE * (U * c) /\ U * c \in Nat
      BY <1>1, <2>3
    <3> QED BY <2>3, <3>1 DEF d
  <2> DEFINE v == U * c
  <2>5. v \in Nat /\ PAGE_SIZE * v = WORD
    BY <2>4
  <2> HIDE DEF v
  <2>6. v <= n /\ n < v + 1
    <3>1. PAGE_SIZE * v <= WORD /\ WORD < PAGE_SIZE * (v + 1)
      BY <1>1, <2>5
    <3> QED BY <1>1, <2>5, <3>1, Quotient
  <2>7. n = v
    <3> HIDE DEF n
    <3> QED BY <1>1, <2>5, <2>6
  <2> QED BY <2>3, <2>7 DEF v
<1> HIDE DEF n
<1>3. x \in Nat /\ q \in Nat /\ U * q <= x /\ x < U * q + U
  BY <1>1, Division
<1>4. q <= total
  <2>1. x < U * (total + 1)
    <3>1. U * (total + 1) = U * total + U /\ U * total >= total
      BY <1>1
    <3> QED BY <1>1, <3>1
  <2>2. q < total + 1
    <3>1. U \in Nat \ {0} /\ x \in Nat /\ total + 1 \in Int
      BY <1>1, <1>3
    <3> HIDE DEF x
    <3> QED BY ONLY <2>1, <3>1, Quotient
  <2> QED BY <1>1, <1>3, <2>2
<1>5. U * q >= total /\ U * q \in Nat
  BY <1>1, <1>3
<1>6. q <= c
  <2>1. x < U * (c + 1)
    BY <1>1, <1>2
  <2>2. q < c + 1
    <3>1. U \in Nat \ {0} /\ x \in Nat /\ c + 1 \in Int
      BY <1>1, <1>2, <1>3
    <3> HIDE DEF x
    <3> QED BY ONLY <2>1, <3>1, Quotient
  <2> QED BY <1>2, <1>3, <2>2
<1>7. U * q <= n
  BY <1>1, <1>2, <1>3, <1>6, Multiples
<1>8. BitmapBytes(total) = q /\ BitmapFill(total) = 0 .. U * q - 1 /\ Page = 0 .. n
  <2>1. q * U = U * q
    BY <1>1, <1>3
  <2> QED BY <2>1 DEF BitmapBytes, BitmapFill, Page, n
<1> HIDE DEF q, x
<1> DEFINE w == U * q
<1>9. w \in Nat /\ w >= total /\ w <= n
  BY <1>5, <1>7
<1> HIDE DEF w
<1>10. 0 .. total - 1 \subseteq 0 .. w - 1 /\ 0 .. w - 1 \subseteq 0 .. n
  BY <1>1, <1>9
<1>11. q \in 0 .. total
  BY <1>1, <1>3, <1>4
<1> QED BY <1>8, <1>10, <1>11, Zenon DEF w

\* Rounding up to a page
LEMMA RoundUpFacts ==
  ASSUME NEW addr \in Nat, addr + PAGE_SIZE <= WORD
  PROVE  /\ RoundUp(addr) \in Nat /\ addr <= RoundUp(addr) /\ RoundUp(addr) < addr + PAGE_SIZE
         /\ RoundUp(addr) % PAGE_SIZE = 0
         /\ \A other \in Nat : /\ other + PAGE_SIZE <= WORD /\ addr <= other
                               => RoundUp(addr) <= RoundUp(other)
<1> DEFINE q == PagesUp(addr)
<1>1. PAGE_SIZE \in Nat \ {0} /\ addr < WORD
  BY Constants
<1>2. q \in Nat /\ \A p \in Int : p < q <=> p * PAGE_SIZE < addr
  <2>1. q \in 0 .. WORD \div PAGE_SIZE /\ WORD \div PAGE_SIZE \in Nat
    BY <1>1, PagesUpFacts, Constants, Division
  <2> QED BY <1>1, <2>1, PagesUpFacts
<1>3. RoundUp(addr) = q * PAGE_SIZE
  BY DEF RoundUp
<1>4. ASSUME NEW other \in Nat, other + PAGE_SIZE <= WORD, addr <= other
      PROVE  RoundUp(addr) <= RoundUp(other)
  <2> DEFINE r == PagesUp(other)
  <2>1. other < WORD
    BY <1>1, <1>4, Constants
  <2>2. r \in Nat /\ \A p \in Int : p < r <=> p * PAGE_SIZE < other
    <3>1. r \in 0 .. WORD \div PAGE_SIZE /\ WORD \div PAGE_SIZE \in Nat
      BY <2>1, PagesUpFacts, Constants, Division
    <3> QED BY <1>4, <2>1, <3>1, PagesUpFacts
  <2> HIDE DEF q, r
  <2>3. r * PAGE_SIZE >= addr
    <3>1. ~(r * PAGE_SIZE < other) /\ r * PAGE_SIZE \in Int
      BY <1>1, <2>2
    <3> QED BY <1>4, <3>1
  <2>4. q <= r
    <3>1. ~(r < q)
      BY <1>1, <1>2, <2>2, <2>3
    <3> QED BY <1>2, <2>2, <3>1
  <2>5. PAGE_SIZE * q <= PAGE_SIZE * r
    BY <1>1, <1>2, <2>2, <2>4, Multiples
  <2>6. RoundUp(other) = r * PAGE_SIZE
    BY DEF RoundUp, r
  <2>7. PAGE_SIZE * q = q * PAGE_SIZE /\ PAGE_SIZE * r = r * PAGE_SIZE
    BY <1>1, <1>2, <2>2
  <2> QED BY <1>3, <2>5, <2>6, <2>7 DEF q
<1> HIDE DEF q
<1>5. ~(q * PAGE_SIZE < addr) /\ (q - 1) * PAGE_SIZE < addr
  BY <1>2
<1>6. q * PAGE_SIZE \in Nat /\ (q - 1) * PAGE_SIZE = q * PAGE_SIZE - PAGE_SIZE
  BY <1>1, <1>2
<1>7. (q * PAGE_SIZE) % PAGE_SIZE = 0
  BY <1>1, <1>2
<1> DEFINE x == q * PAGE_SIZE
<1>8. RoundUp(addr) = x /\ x \in Nat /\ ~(x < addr) /\ x - PAGE_SIZE < addr /\ x % PAGE_SIZE = 0
  BY <1>3, <1>5, <1>6, <1>7
<1> HIDE DEF x
<1>9. addr <= x /\ x < addr + PAGE_SIZE
  BY <1>1, <1>8
<1> QED BY <1>4, <1>8, <1>9

\* The bitmap has its place behind the page tables, at a page, and below 4 GiB;
\* past the modules it is reserved no further than it reaches.
LEMMA PlaceFacts ==
  ASSUME NEW m \in Machines, NEW total \in 0 .. WORD \div PAGE_SIZE,
         NEW at, at = BitmapPlace(total, m.mods)
  PROVE  /\ at \in [start : Nat, end : Nat]
         /\ at.start % PAGE_SIZE = 0 /\ at.end + PAGE_SIZE <= WORD
         /\ at.end <= at.start + BitmapBytes(total)
         /\ at.start = RoundUp(pt_end) => at.end = at.start + BitmapBytes(total)
<1> DEFINE n == WORD \div PAGE_SIZE
           bytes == BitmapBytes(total)
           start == RoundUp(pt_end)
           end == start + bytes
           first == module_start(m.mods)
           slack == PAGE_SIZE * MODULE_PAGES
<1>1. /\ PAGE_SIZE \in Nat \ {0} /\ WORD \in Nat /\ n \in Nat /\ pt_end \in Nat
      /\ __kernel_end \in Nat /\ pt_end <= __kernel_end /\ slack \in Nat
  BY Constants, Division
<1>2. bytes \in Nat /\ bytes <= n
  BY <1>1, BitmapFacts
<1>3. __kernel_end + n + slack + PAGE_SIZE + PAGE_SIZE <= WORD
  <2>1. PAGE_SIZE * (MODULE_PAGES + 2) = slack + PAGE_SIZE + PAGE_SIZE
    BY Constants
  <2> HIDE DEF n, slack
  <2>2. __kernel_end + n + PAGE_SIZE * (MODULE_PAGES + 2) <= WORD
    BY PhysMemAssumption DEF n
  <2> QED BY <1>1, <2>1, <2>2
<1> HIDE DEF n, slack, bytes
<1>4. /\ start \in Nat /\ pt_end <= start /\ start < pt_end + PAGE_SIZE /\ start % PAGE_SIZE = 0
      /\ \A other \in Nat : other + PAGE_SIZE <= WORD /\ pt_end <= other => start <= RoundUp(other)
  <2>1. pt_end + PAGE_SIZE <= WORD
    BY <1>1, <1>3
  <2> QED BY <1>1, <2>1, RoundUpFacts
<1> HIDE DEF start
<1>5. end \in Nat /\ end + slack + PAGE_SIZE <= WORD
  BY <1>1, <1>2, <1>3, <1>4
<1>6. CASE ~(end > first)
  <2>1. at = [start |-> start, end |-> end]
    BY <1>6 DEF BitmapPlace, start, bytes
  <2>2. at.start = start /\ at.end = end
    BY <2>1
  <2>3. end + PAGE_SIZE <= WORD
    BY <1>1, <1>5
  <2> QED BY <1>1, <1>2, <1>4, <1>5, <2>1, <2>2, <2>3 DEF bytes
<1>7. CASE end > first
  <2> DEFINE T == {WORD - 1} \cup {mod.start : mod \in Range(m.mods)}
  <2>1. \A mod \in Range(m.mods) : mod.start \in Nat /\ __kernel_end <= mod.start
    <3>1. \A i \in DOMAIN m.mods : m.mods[i] \in [start : Nat, end : Nat]
      BY MachinesAssumption, LenProperties, ElementOfSeq
    <3> QED BY <3>1, MachinesAssumption DEF Range
  <2>2. T \in SUBSET Nat /\ T # {} /\ WORD - 1 \in Nat
    <3>1. WORD - 1 \in Nat
      BY Constants
    <3> QED BY <2>1, <3>1
  <2>3. first \in T
    BY <2>2, MinExists, Zenon DEF module_start
  <2>4. first # WORD - 1
    <3>1. end <= WORD - 1
      BY <1>1, <1>5
    <3> HIDE DEF end, first
    <3> QED BY <1>5, <1>7, <2>2, <3>1
  <2>5. first \in Nat /\ __kernel_end <= first
    BY <2>1, <2>3, <2>4
  <2> HIDE DEF first
  <2>6. first + slack \in Nat /\ first + slack + PAGE_SIZE <= WORD /\ pt_end <= first + slack
    BY <1>1, <1>5, <1>7, <2>5
  <2> DEFINE place == RoundUp(first + slack)
  <2>7. place \in Nat /\ start <= place /\ place % PAGE_SIZE = 0
    BY <1>4, <2>6, RoundUpFacts
  <2>8. at = [start |-> place, end |-> end]
    BY <1>7 DEF BitmapPlace, start, bytes, first, slack
  <2> HIDE DEF place
  <2>9. at.start = place /\ at.end = end
    BY <2>8
  <2>10. end + PAGE_SIZE <= WORD /\ end <= place + bytes
    BY <1>1, <1>2, <1>4, <1>5, <2>7
  <2> QED BY <1>5, <2>7, <2>8, <2>9, <2>10 DEF bytes, start
<1> QED BY <1>6, <1>7

\* What pmm_init reserves are the pages that hold a part of the kernel with its
\* tables, of a module, or of the bitmap as far as it is reserved.
LEMMA ReservedFacts ==
  ASSUME NEW m \in Machines, NEW total \in 0 .. WORD \div PAGE_SIZE,
         NEW at, at = BitmapPlace(total, m.mods), NEW p \in Nat
  PROVE  p \in Reserved(at, m.mods) <=>
           \/ Units(p) \cap KernelUnits # {}
           \/ \E mod \in Range(m.mods) : Units(p) \cap (mod.start .. mod.end - 1) # {}
           \/ Units(p) \cap (at.start .. at.end - 1) # {}
<1>1. /\ PAGE_SIZE \in Nat \ {0} /\ LOW \in Nat /\ __kernel_end \in Nat /\ page_directory \in Nat
      /\ first_page_table \in Nat /\ TABLES \in Nat \ {0} /\ __kernel_end + PAGE_SIZE <= WORD
  BY Constants
<1>2. p \in Pages(LOW, __kernel_end) <=> Units(p) \cap KernelUnits # {}
  BY <1>1, Overlap, PhysMemAssumption DEF KernelUnits
<1>3. ASSUME NEW mod \in Range(m.mods)
      PROVE  p \in Pages(mod.start, mod.end) <=> Units(p) \cap (mod.start .. mod.end - 1) # {}
  <2>1. mod.start \in Nat /\ mod.end \in Nat
    <3>1. \A i \in DOMAIN m.mods : m.mods[i] \in [start : Nat, end : Nat]
      BY MachinesAssumption, LenProperties, ElementOfSeq
    <3> QED BY <3>1 DEF Range
  <2>2. mod.start % PAGE_SIZE = 0 /\ mod.end + PAGE_SIZE <= WORD
    BY MachinesAssumption
  <2> QED BY <2>1, <2>2, Overlap
<1>4. p \in Pages(at.start, at.end) <=> Units(p) \cap (at.start .. at.end - 1) # {}
  <2>1. at.start \in Nat /\ at.end \in Nat /\ at.start % PAGE_SIZE = 0 /\ at.end + PAGE_SIZE <= WORD
    BY PlaceFacts
  <2> QED BY <2>1, Overlap
<1>5. first_page_table + TABLES * PAGE_SIZE <= __kernel_end /\ LOW <= page_directory
      /\ page_directory < first_page_table
      /\ page_directory % PAGE_SIZE = 0 /\ first_page_table % PAGE_SIZE = 0
  BY PhysMemAssumption
<1>6. ASSUME p = PageOf(page_directory) PROVE Units(p) \cap KernelUnits # {}
  <2>1. p <= PageOf(page_directory) /\ PageOf(page_directory) <= p
    BY <1>1, <1>6, PageOfFacts
  <2>2. p * PAGE_SIZE <= page_directory /\ page_directory < (p + 1) * PAGE_SIZE
    BY <1>1, <2>1, PageOfFacts
  <2>3. TABLES * PAGE_SIZE \in Nat
    BY <1>1
  <2>4. page_directory \in KernelUnits
    BY <1>1, <1>5, <2>3 DEF KernelUnits
  <2>5. page_directory \in Units(p)
    BY <1>1, <2>2 DEF Units
  <2> QED BY <2>4, <2>5
<1>7. ASSUME p \in PageOf(first_page_table) .. PageOf(first_page_table) + TABLES - 1
      PROVE  Units(p) \cap KernelUnits # {}
  <2> DEFINE j == PageOf(first_page_table)
             a == p * PAGE_SIZE
  <2>1. j \in Nat /\ j * PAGE_SIZE = first_page_table
    <3>1. PAGE_SIZE * (first_page_table \div PAGE_SIZE) = first_page_table
      BY <1>1, <1>5
    <3>2. j \in Nat
      BY <1>1, PageOfFacts
    <3>3. PAGE_SIZE * j = j * PAGE_SIZE
      BY <1>1, <3>2
    <3> QED BY <3>1, <3>2, <3>3 DEF PageOf
  <2> HIDE DEF j
  <2>2. j <= p /\ p + 1 <= j + TABLES
    BY <1>1, <1>7, <2>1 DEF j
  <2>3. PAGE_SIZE * j <= PAGE_SIZE * p /\ PAGE_SIZE * (p + 1) <= PAGE_SIZE * (j + TABLES)
    BY <1>1, <2>1, <2>2, Multiples
  <2>4. /\ PAGE_SIZE * j = j * PAGE_SIZE /\ PAGE_SIZE * p = a /\ a \in Nat
        /\ PAGE_SIZE * (p + 1) = a + PAGE_SIZE
        /\ PAGE_SIZE * (j + TABLES) = j * PAGE_SIZE + TABLES * PAGE_SIZE
        /\ TABLES * PAGE_SIZE \in Nat /\ (p + 1) * PAGE_SIZE = a + PAGE_SIZE
    BY <1>1, <2>1
  <2> DEFINE t == TABLES * PAGE_SIZE
  <2>5. /\ first_page_table <= a /\ a + PAGE_SIZE <= first_page_table + t
        /\ t \in Nat /\ first_page_table + t <= __kernel_end
    BY <1>5, <2>1, <2>3, <2>4
  <2>6. Units(p) = a .. a + PAGE_SIZE - 1
    <3> DEFINE b == (p + 1) * PAGE_SIZE
    <3>1. b = a + PAGE_SIZE /\ Units(p) = a .. b - 1 /\ a \in Nat
      BY <2>4 DEF Units
    <3> HIDE DEF a, b
    <3> QED BY <1>1, <3>1
  <2>7. a \in Nat
    BY <2>4
  <2> HIDE DEF a, t
  <2>8. a \in KernelUnits /\ a \in Units(p)
    BY <1>1, <1>5, <2>5, <2>6, <2>7 DEF KernelUnits
  <2> QED BY <2>8
<1> QED BY <1>2, <1>3, <1>4, <1>6, <1>7 DEF Reserved

-----------------------------------------------------------------------------
(* The invariant                                                           *)

Entries == memory_entries(machine.map)

\* What pmm_init leaves in the bitmap
Taken ==
  Marked(BitmapFill(pmm_total_pages), FreeAtBoot(Entries), Reserved(bitmap_at, machine.mods))

\* pmm_init has run on the map; without a map there are no pages, and without
\* pages the heap does not grow.
BootInv ==
  /\ ready /\ machine.map # <<>> =>
       /\ pmm_total_pages = PagesUp(Highest(Entries))
       /\ bitmap_at = BitmapPlace(pmm_total_pages, machine.mods)
  /\ ~ready \/ machine.map = <<>> => pmm_total_pages = 0 /\ bitmap = {}
  /\ ~ready => grown
  /\ pmm_total_pages = 0 => heap_next_virt = HEAP_START

\* Of the pages, those are taken that the boot has marked or the heap has.
BitmapInv ==
  ready /\ machine.map # <<>> =>
    /\ bitmap = Taken \cup Frames
    /\ Frames \cap Taken = {} /\ Frames \subseteq 0 .. pmm_total_pages - 1

\* The pages of the heap have different frames.
FramesInv == \A p, q \in HeapPages : page_table[p] = page_table[q] => p = q

\* heap_grow fails for want of room or of pages, and nobody gives any back.
FullInv == ready /\ ~grown => ~HeapHasRoom \/ FreePages = {}

PhysMemInv == TypeOK /\ BootInv /\ BitmapInv /\ FramesInv /\ FullInv

\* The pages of the heap are mapped by the tables of the boot.
LEMMA HeapPagesFacts ==
  ASSUME TypeOK
  PROVE  /\ HeapPages \subseteq Mapped /\ IsFiniteSet(HeapPages)
         /\ PageOf(heap_next_virt) \in Nat /\ PageOf(HEAP_START) \in Nat
         /\ PageOf(heap_next_virt) * PAGE_SIZE = heap_next_virt
         /\ PageOf(HEAP_START) <= PageOf(heap_next_virt)
         /\ HeapHasRoom => PageOf(heap_next_virt) \in Mapped
         /\ heap_next_virt = HEAP_START => HeapPages = {}
<1> DEFINE v == heap_next_virt
           k == PageOf(heap_next_virt)
           h == PageOf(HEAP_START)
           t == TABLES * ENTRIES
<1>1. /\ PAGE_SIZE \in Nat \ {0} /\ HEAP_START \in Nat /\ HEAP_END \in Nat /\ t \in Nat
      /\ v \in HEAP_START .. HEAP_END /\ v % PAGE_SIZE = 0
  BY Constants DEF TypeOK
<1>2. HEAP_END <= t * PAGE_SIZE
  BY PhysMemAssumption
<1>3. k \in Nat /\ h \in Nat /\ PAGE_SIZE * k = v
  <2>1. v \in Nat
    BY <1>1
  <2>2. PAGE_SIZE * (v \div PAGE_SIZE) = v
    BY <1>1, <2>1
  <2> QED BY <1>1, <2>1, <2>2, PageOfFacts DEF PageOf
<1> HIDE DEF k, t, h, v
<1>4. h <= k
  <2>1. h * PAGE_SIZE <= HEAP_START
    BY <1>1, <1>3, PageOfFacts DEF h
  <2>2. PAGE_SIZE * h = h * PAGE_SIZE /\ h * PAGE_SIZE \in Nat
    BY <1>1, <1>3
  <2>3. PAGE_SIZE * h <= PAGE_SIZE * k
    BY <1>1, <1>3, <2>1, <2>2
  <2> QED BY <1>1, <1>3, <2>3, Multiples
<1>5. k <= t
  <2>1. PAGE_SIZE * t = t * PAGE_SIZE
    BY <1>1
  <2>2. PAGE_SIZE * k <= PAGE_SIZE * t
    BY <1>1, <1>2, <1>3, <2>1
  <2> QED BY <1>1, <1>3, <2>2, Multiples
<1>6. HeapHasRoom => k < t
  <2> SUFFICES ASSUME HeapHasRoom PROVE k < t
    OBVIOUS
  <2>1. PAGE_SIZE * t = t * PAGE_SIZE /\ v + PAGE_SIZE <= HEAP_END
    BY <1>1 DEF HeapHasRoom, v
  <2>2. PAGE_SIZE * k < PAGE_SIZE * t
    BY <1>1, <1>2, <1>3, <2>1
  <2> QED BY <1>1, <1>3, <2>2, Multiples
<1>7. HeapPages = h .. k - 1 /\ Mapped = 0 .. t - 1
  BY DEF HeapPages, Mapped, h, k, t
<1>8. HeapPages \subseteq Mapped /\ IsFiniteSet(HeapPages)
  <2>1. k - 1 \in Int
    BY <1>3
  <2> QED BY <1>1, <1>3, <1>5, <1>7, <2>1, FS_Interval
<1>9. HeapHasRoom => k \in Mapped
  BY <1>1, <1>3, <1>6, <1>7
<1>10. v = HEAP_START => HeapPages = {}
  BY <1>3, <1>7 DEF v, h, k
<1>11. k * PAGE_SIZE = v
  BY <1>1, <1>3
<1> QED BY <1>3, <1>4, <1>8, <1>9, <1>10, <1>11 DEF k, v, h

\* vmm_map_page changes the entry of the page itself: the directory and the
\* table it is found in are those of its number.
LEMMA MapPageFacts ==
  ASSUME TypeOK, HeapHasRoom, NEW page, vmm_map_page(heap_next_virt, page)
  PROVE  page_table' = [page_table EXCEPT ![PageOf(heap_next_virt)] = page]
<1> DEFINE v == heap_next_virt
           k == PageOf(heap_next_virt)
           s == ENTRIES * PAGE_SIZE
           d == v \div s
<1>1. /\ PAGE_SIZE \in Nat \ {0} /\ ENTRIES \in Nat \ {0} /\ TABLES \in Nat \ {0}
      /\ TABLES <= ENTRIES /\ s \in Nat \ {0}
  BY Constants, PhysMemAssumption
<1>2. v \in Nat /\ k \in Nat /\ k * PAGE_SIZE = v /\ k \in 0 .. TABLES * ENTRIES - 1
  <2>1. v \in Nat
    BY Constants DEF TypeOK
  <2> QED BY <2>1, HeapPagesFacts DEF Mapped
<1>3. d \in Nat /\ s * d <= v /\ v < s * (d + 1)
  <2>1. d \in Nat /\ s * d <= v /\ v < s * d + s
    BY <1>1, <1>2, Division
  <2>2. s * (d + 1) = s * d + s
    BY <1>1, <2>1
  <2> QED BY <2>1, <2>2
<1> HIDE DEF d, k, v
<1>4. ENTRIES * d <= k /\ k < ENTRIES * (d + 1)
  <2>1. /\ s * d = PAGE_SIZE * (ENTRIES * d) /\ s * (d + 1) = PAGE_SIZE * (ENTRIES * (d + 1))
        /\ PAGE_SIZE * k = v
        /\ ENTRIES * d \in Int /\ ENTRIES * (d + 1) \in Int
    BY <1>1, <1>2, <1>3
  <2>2. PAGE_SIZE * (ENTRIES * d) <= PAGE_SIZE * k
    BY <1>3, <2>1
  <2>3. PAGE_SIZE * k < PAGE_SIZE * (ENTRIES * (d + 1))
    BY <1>3, <2>1
  <2> QED BY <1>1, <1>2, <2>1, <2>2, <2>3, Multiples
<1>5. d < TABLES
  <2>1. ENTRIES * TABLES = TABLES * ENTRIES /\ ENTRIES * TABLES \in Nat /\ ENTRIES * d \in Nat
    BY <1>1, <1>3
  <2>2. ENTRIES * d < ENTRIES * TABLES
    BY <1>2, <1>4, <2>1
  <2> QED BY <1>1, <1>3, <2>2, Multiples
<1>6. PDE_INDEX(v) = d
  <2>1. d \in 0 .. ENTRIES - 1
    BY <1>1, <1>3, <1>5
  <2>2. d % ENTRIES = d
    BY <1>1, <2>1
  <2> QED BY <2>2 DEF PDE_INDEX, d
<1>7. PTE_INDEX(v) = k % ENTRIES
  BY DEF PTE_INDEX, k, v, PageOf
<1>8. d * ENTRIES + (k % ENTRIES) = k
  <2> DEFINE r == k - ENTRIES * d
  <2>1. r \in 0 .. ENTRIES - 1 /\ k = ENTRIES * d + r
    <3>1. ENTRIES * (d + 1) = ENTRIES * d + ENTRIES /\ ENTRIES * d \in Nat
      BY <1>1, <1>3
    <3> QED BY <1>1, <1>2, <1>4, <3>1
  <2>2. k \div ENTRIES = d
    <3>1. k \div ENTRIES \in Nat /\ d <= k \div ENTRIES /\ k \div ENTRIES < d + 1
      BY <1>1, <1>2, <1>3, <1>4, Quotient, Division
    <3> QED BY <1>3, <3>1
  <2>3. k = ENTRIES * (k \div ENTRIES) + (k % ENTRIES)
    BY <1>1, <1>2
  <2>4. k = ENTRIES * d + (k % ENTRIES)
    BY <2>2, <2>3
  <2>5. ENTRIES * d = d * ENTRIES
    BY <1>1, <1>3
  <2> QED BY <2>4, <2>5
<1> QED BY <1>6, <1>7, <1>8 DEF vmm_map_page, k, v

\* What is reserved are pages.
LEMMA MarkedFacts ==
  ASSUME NEW m \in Machines, NEW total \in Page, NEW at, at = BitmapPlace(total, m.mods),
         NEW free
  PROVE  Marked(BitmapFill(total), free, Reserved(at, m.mods)) \subseteq Page
<1> DEFINE n == WORD \div PAGE_SIZE
<1>1. /\ PAGE_SIZE \in Nat \ {0} /\ WORD \in Nat /\ n \in Nat /\ LOW \in Nat
      /\ __kernel_end \in Nat /\ __kernel_end < WORD /\ TABLES \in Nat \ {0}
      /\ page_directory \in Nat /\ first_page_table \in Nat
  BY Constants, Division
<1>2. Pages(LOW, __kernel_end) \subseteq Page
  BY <1>1, PagesFacts
<1>3. Pages(at.start, at.end) \subseteq Page
  <2>1. at.start \in Nat /\ at.end \in Nat /\ at.end + PAGE_SIZE <= WORD
    BY PlaceFacts DEF Page
  <2> QED BY <1>1, <2>1, PagesFacts
<1>4. ASSUME NEW mod \in Range(m.mods) PROVE Pages(mod.start, mod.end) \subseteq Page
  <2>1. mod.start \in Nat /\ mod.end \in Nat
    <3>1. \A i \in DOMAIN m.mods : m.mods[i] \in [start : Nat, end : Nat]
      BY MachinesAssumption, LenProperties, ElementOfSeq
    <3> QED BY <3>1 DEF Range
  <2>2. mod.end < WORD
    <3>1. mod.end + PAGE_SIZE <= WORD
      BY MachinesAssumption
    <3> QED BY <1>1, <2>1, <3>1
  <2> QED BY <2>1, <2>2, PagesFacts
<1>5. ASSUME NEW q \in Nat, q * PAGE_SIZE < __kernel_end PROVE q \in Page
  <2>1. PAGE_SIZE * q = q * PAGE_SIZE /\ q * PAGE_SIZE \in Nat
    BY <1>1
  <2>2. PAGE_SIZE * q <= WORD
    BY <1>1, <1>5, <2>1
  <2>3. q <= n
    BY <1>1, <2>2, Quotient
  <2> QED BY <1>1, <2>3 DEF Page
<1>6. /\ first_page_table + TABLES * PAGE_SIZE <= __kernel_end
      /\ page_directory < first_page_table /\ first_page_table % PAGE_SIZE = 0
  BY PhysMemAssumption
<1>7. PageOf(page_directory) \in Page
  <2>1. PageOf(page_directory) \in Nat /\ PageOf(page_directory) * PAGE_SIZE <= page_directory
    BY <1>1, PageOfFacts
  <2>2. TABLES * PAGE_SIZE \in Nat /\ PageOf(page_directory) * PAGE_SIZE \in Nat
    BY <1>1, <2>1
  <2>3. PageOf(page_directory) * PAGE_SIZE < __kernel_end
    BY <1>1, <1>6, <2>1, <2>2
  <2> QED BY <1>5, <2>1, <2>3
<1>8. PageOf(first_page_table) .. PageOf(first_page_table) + TABLES - 1 \subseteq Page
  <2> DEFINE j == PageOf(first_page_table)
  <2>1. j \in Nat /\ j * PAGE_SIZE <= first_page_table
    BY <1>1, PageOfFacts
  <2> HIDE DEF j
  <2>2. ASSUME NEW q \in j .. j + TABLES - 1 PROVE q \in Page
    <3>1. q \in Nat /\ q + 1 <= j + TABLES
      BY <1>1, <2>1
    <3>2. PAGE_SIZE * (q + 1) <= PAGE_SIZE * (j + TABLES)
      BY <1>1, <2>1, <3>1, Multiples
    <3>3. /\ PAGE_SIZE * (q + 1) = q * PAGE_SIZE + PAGE_SIZE /\ q * PAGE_SIZE \in Nat
          /\ PAGE_SIZE * (j + TABLES) = j * PAGE_SIZE + TABLES * PAGE_SIZE
          /\ TABLES * PAGE_SIZE \in Nat /\ j * PAGE_SIZE \in Nat
      BY <1>1, <2>1, <3>1
    <3>4. q * PAGE_SIZE < __kernel_end
      BY <1>1, <1>6, <2>1, <3>2, <3>3
    <3> QED BY <1>5, <3>1, <3>4
  <2> QED BY <2>2 DEF j
<1>9. BitmapFill(total) \subseteq Page
  BY BitmapFacts DEF Page
<1>10. UNION {Pages(mod.start, mod.end) : mod \in Range(m.mods)} \subseteq Page
  BY ONLY <1>4
<1>11. Reserved(at, m.mods) \subseteq Page
  BY ONLY <1>2, <1>3, <1>7, <1>8, <1>10 DEF Reserved
<1> QED BY ONLY <1>9, <1>11 DEF Marked

\* entry.asm maps pages that are there.
LEMMA MappedArePages == Mapped \subseteq Page
<1> DEFINE n == WORD \div PAGE_SIZE
           t == TABLES * ENTRIES
<1>1. PAGE_SIZE \in Nat \ {0} /\ WORD \in Nat /\ n \in Nat /\ t \in Nat
  BY Constants, Division
<1>2. PAGE_SIZE * t = TABLES * ENTRIES * PAGE_SIZE
  BY <1>1
<1>3. PAGE_SIZE * t <= WORD
  BY <1>2, PhysMemAssumption
<1> HIDE DEF t
<1>4. t <= n
  BY <1>1, <1>3, Quotient
<1> QED BY <1>1, <1>4 DEF Mapped, Page, t

LEMMA InitInv == Init => PhysMemInv
<1> SUFFICES ASSUME Init PROVE PhysMemInv
  OBVIOUS
<1>1. /\ HEAP_START \in HEAP_START .. HEAP_END /\ HEAP_START % PAGE_SIZE = 0 /\ 0 \in Page
      /\ WORD \div PAGE_SIZE \in Nat
  <2>1. WORD \div PAGE_SIZE \in Nat
    BY Constants, Division
  <2> QED BY <2>1, Constants, PhysMemAssumption DEF Page
<1>2. [p \in Mapped |-> p] \in [Mapped -> Page]
  BY MappedArePages
<1>3. TypeOK
  BY <1>1, <1>2 DEF Init, TypeOK
<1>4. HeapPages = {}
  BY <1>3, HeapPagesFacts DEF Init
<1> QED BY <1>3, <1>4 DEF Init, PhysMemInv, BootInv, BitmapInv, FramesInv, FullInv

\* The boot establishes what the bitmap says.
LEMMA BootStep ==
  ASSUME PhysMemInv, parse_memory_map
  PROVE  PhysMemInv'
<1> USE DEF PhysMemInv
<1> DEFINE total == PagesUp(Highest(Entries))
           at == BitmapPlace(total, machine.mods)
<1>1. /\ machine \in Machines /\ machine' = machine /\ ~ready /\ ready' = TRUE
      /\ page_table' = page_table /\ grown' = grown /\ heap_next_virt' = HEAP_START
      /\ grown /\ pmm_total_pages = 0 /\ bitmap = {}
  BY DEF parse_memory_map, TypeOK, BootInv
<1>2. total \in Page /\ at \in [start : Nat, end : Nat]
  <2>1. Highest(Entries) \in Nat /\ Highest(Entries) < WORD
    BY <1>1, HighestFacts, Constants DEF Entries
  <2>2. total \in Page
    BY <2>1, PagesUpFacts DEF Page
  <2> QED BY <1>1, <2>2, PlaceFacts DEF Page
<1>3. \/ /\ machine.map = <<>>
         /\ bitmap' = {} /\ pmm_total_pages' = 0 /\ bitmap_at' = bitmap_at
      \/ /\ machine.map # <<>>
         /\ pmm_total_pages' = total /\ bitmap_at' = at
         /\ bitmap' = Marked(BitmapFill(total), FreeAtBoot(Entries), Reserved(at, machine.mods))
  BY <1>1 DEF parse_memory_map, pmm_init, Entries
<1>4. bitmap' \subseteq Page
  BY <1>1, <1>2, <1>3, MarkedFacts
<1>5. HEAP_START \in HEAP_START .. HEAP_END /\ HEAP_START % PAGE_SIZE = 0
  BY Constants, PhysMemAssumption
<1>6. Entries' = Entries
  BY <1>1 DEF Entries
<1> HIDE DEF total, at
<1>7. TypeOK'
  BY <1>1, <1>2, <1>3, <1>4, <1>5 DEF TypeOK
<1>8. BootInv'
  BY <1>1, <1>3, <1>6 DEF BootInv, total, at
<1>9. HeapPages' = {}
  <2>1. PageOf(HEAP_START) \in Nat
    BY Constants, PageOfFacts
  <2> QED BY <1>1, <2>1 DEF HeapPages
<1>10. BitmapInv'
  <2>1. Frames' = {}
    BY <1>9 DEF Frames
  <2>2. machine.map # <<>> => bitmap' = Taken'
    BY <1>1, <1>3, <1>6 DEF Taken
  <2> QED BY <1>1, <2>1, <2>2 DEF BitmapInv
<1>11. FramesInv'
  BY <1>9 DEF FramesInv
<1>12. FullInv'
  BY <1>1 DEF FullInv
<1> QED BY <1>7, <1>8, <1>10, <1>11, <1>12

\* heap_grow adds the next page to the heap, with a frame that was free.
LEMMA GrowFacts ==
  ASSUME PhysMemInv, heap_grow
  PROVE  /\ PageOf(heap_next_virt) \in Mapped /\ PageOf(heap_next_virt) \notin HeapPages
         /\ HeapPages' = HeapPages \cup {PageOf(heap_next_virt)}
         /\ heap_next_virt' \in HEAP_START .. HEAP_END /\ heap_next_virt' % PAGE_SIZE = 0
         /\ \E page \in FreePages :
              /\ bitmap' = bitmap \cup {page}
              /\ page_table' = [page_table EXCEPT ![PageOf(heap_next_virt)] = page]
<1> DEFINE v == heap_next_virt
           k == PageOf(heap_next_virt)
           h == PageOf(HEAP_START)
<1>1. TypeOK /\ HeapHasRoom /\ v' = v + PAGE_SIZE
  BY DEF PhysMemInv, heap_grow
<1>2. /\ PAGE_SIZE \in Nat \ {0} /\ v \in HEAP_START .. HEAP_END /\ HEAP_START \in Nat
      /\ HEAP_END \in Nat /\ v % PAGE_SIZE = 0 /\ v + PAGE_SIZE <= HEAP_END
  BY <1>1, Constants DEF TypeOK, HeapHasRoom
<1>3. k \in Nat /\ h \in Nat /\ k * PAGE_SIZE = v /\ h <= k /\ k \in Mapped
  BY <1>1, HeapPagesFacts
<1>4. PageOf(v + PAGE_SIZE) = k + 1
  <2> DEFINE w == v + PAGE_SIZE
             l == PageOf(v + PAGE_SIZE)
  <2>1. w \in Nat /\ l \in Nat
    BY <1>2, PageOfFacts
  <2>2. w = (k + 1) * PAGE_SIZE /\ w < (k + 1 + 1) * PAGE_SIZE
    <3> HIDE DEF k, v
    <3>1. (k + 1) * PAGE_SIZE = k * PAGE_SIZE + PAGE_SIZE
          /\ (k + 1 + 1) * PAGE_SIZE = k * PAGE_SIZE + PAGE_SIZE + PAGE_SIZE
      BY <1>2, <1>3
    <3> DEFINE x == k * PAGE_SIZE
    <3>2. x = v /\ v \in Nat
      BY <1>2, <1>3
    <3> QED BY <1>2, <3>1, <3>2
  <2>3. k + 1 <= l /\ l <= k + 1
    BY <1>3, <2>1, <2>2, PageOfFacts
  <2> QED BY <1>3, <2>1, <2>3
<1>5. (v + PAGE_SIZE) % PAGE_SIZE = 0 /\ v + PAGE_SIZE \in HEAP_START .. HEAP_END
  <2>1. v + PAGE_SIZE = (k + 1) * PAGE_SIZE
    BY <1>2, <1>3
  <2>2. ((k + 1) * PAGE_SIZE) % PAGE_SIZE = 0
    BY <1>2, <1>3
  <2> HIDE DEF v, k
  <2>3. v + PAGE_SIZE \in HEAP_START .. HEAP_END
    BY <1>2
  <2> QED BY <2>1, <2>2, <2>3
<1>6. HeapPages = h .. k - 1 /\ HeapPages' = h .. k
  <2>1. PageOf(v') = k + 1
    BY <1>1, <1>4
  <2>2. HeapPages = h .. k - 1 /\ HeapPages' = h .. PageOf(v') - 1
    BY DEF HeapPages
  <2>3. PageOf(v') - 1 = k
    <3> HIDE DEF k, v
    <3> QED BY <1>3, <2>1
  <2> QED BY <2>2, <2>3
<1> HIDE DEF h, k, v
<1>7. k \notin HeapPages /\ HeapPages' = HeapPages \cup {k}
  BY <1>3, <1>6
<1>8. \E page \in FreePages : bitmap' = bitmap \cup {page} /\ vmm_map_page(v, page)
  BY DEF heap_grow, v
<1>9. PICK page \in FreePages : bitmap' = bitmap \cup {page} /\ vmm_map_page(v, page)
  BY <1>8
<1>10. page_table' = [page_table EXCEPT ![k] = page]
  BY <1>1, <1>9, MapPageFacts DEF k, v
<1> QED BY <1>1, <1>3, <1>5, <1>7, <1>9, <1>10 DEF k, v

LEMMA GrowStep ==
  ASSUME PhysMemInv, heap_grow
  PROVE  PhysMemInv'
<1> DEFINE k == PageOf(heap_next_virt)
<1>1. TypeOK /\ BootInv /\ BitmapInv /\ FramesInv
  BY DEF PhysMemInv
<1>2. /\ machine' = machine /\ ready /\ ready' = ready /\ bitmap_at' = bitmap_at
      /\ pmm_total_pages' = pmm_total_pages /\ grown' = TRUE
  BY DEF heap_grow
<1>3. /\ k \in Mapped /\ k \notin HeapPages /\ HeapPages' = HeapPages \cup {k}
      /\ heap_next_virt' \in HEAP_START .. HEAP_END /\ heap_next_virt' % PAGE_SIZE = 0
  BY GrowFacts
<1>4. PICK page \in FreePages :
        bitmap' = bitmap \cup {page} /\ page_table' = [page_table EXCEPT ![k] = page]
  BY GrowFacts
<1> HIDE DEF k
<1>5. /\ page \in 0 .. pmm_total_pages - 1 /\ page \notin bitmap /\ page \in Page
      /\ pmm_total_pages \in Nat /\ pmm_total_pages # 0
  <2>1. WORD \div PAGE_SIZE \in Nat
    BY Constants, Division
  <2> QED BY <1>1, <2>1 DEF FreePages, TypeOK, Page
<1>6. machine.map # <<>>
  BY <1>1, <1>2, <1>5 DEF BootInv
<1>7. HeapPages \subseteq Mapped /\ page_table \in [Mapped -> Page]
  BY <1>1, HeapPagesFacts DEF TypeOK
<1>8. TypeOK'
  BY <1>1, <1>2, <1>3, <1>4, <1>5, <1>7 DEF TypeOK
<1>9. Entries' = Entries /\ Taken' = Taken
  BY <1>2 DEF Entries, Taken
<1>10. BootInv'
  BY <1>1, <1>2, <1>5, <1>6, <1>9 DEF BootInv
<1>11. \A p \in HeapPages : page_table'[p] = page_table[p]
  BY <1>3, <1>4, <1>7
<1>12. page_table'[k] = page
  BY <1>3, <1>4, <1>7
<1>13. Frames' = Frames \cup {page}
  BY <1>3, <1>11, <1>12 DEF Frames
<1>14. bitmap = Taken \cup Frames /\ Frames \cap Taken = {} /\ Frames \subseteq 0 .. pmm_total_pages - 1
  BY <1>1, <1>2, <1>6 DEF BitmapInv
<1>15. BitmapInv'
  BY <1>2, <1>4, <1>5, <1>9, <1>13, <1>14 DEF BitmapInv
<1>16. FramesInv'
  <2>1. \A p \in HeapPages : page_table[p] \in Frames
    BY DEF Frames
  <2>2. \A p \in HeapPages : page_table'[p] # page
    BY <1>5, <1>11, <1>14, <2>1
  <2> QED BY <1>1, <1>3, <1>11, <1>12, <2>2 DEF FramesInv
<1>17. FullInv'
  BY <1>2 DEF FullInv
<1> QED BY <1>8, <1>10, <1>15, <1>16, <1>17 DEF PhysMemInv

LEMMA OtherSteps ==
  ASSUME PhysMemInv, heap_grow_fails \/ UNCHANGED vars
  PROVE  PhysMemInv'
<1>1. /\ machine' = machine /\ ready' = ready /\ bitmap' = bitmap /\ bitmap_at' = bitmap_at
      /\ pmm_total_pages' = pmm_total_pages /\ page_table' = page_table
      /\ heap_next_virt' = heap_next_virt
      /\ grown' = grown \/ (grown' = FALSE /\ ready /\ (~HeapHasRoom \/ FreePages = {}))
  BY DEF heap_grow_fails, vars
<1>2. /\ Entries' = Entries /\ Taken' = Taken /\ HeapPages' = HeapPages /\ Frames' = Frames
      /\ HeapHasRoom' = HeapHasRoom /\ FreePages' = FreePages
  BY <1>1 DEF Entries, Taken, HeapPages, Frames, HeapHasRoom, FreePages
<1>3. TypeOK'
  BY <1>1 DEF PhysMemInv, TypeOK
<1>4. BootInv'
  BY <1>1, <1>2 DEF PhysMemInv, BootInv
<1>5. BitmapInv' /\ FramesInv'
  BY <1>1, <1>2 DEF PhysMemInv, BitmapInv, FramesInv
<1>6. FullInv'
  BY <1>1, <1>2 DEF PhysMemInv, FullInv
<1> QED BY <1>3, <1>4, <1>5, <1>6 DEF PhysMemInv

\* The boot, and every growth of the heap, leave the bitmap, the page tables
\* and the frames of the heap as PhysMemInv says.
THEOREM PhysMemInvariance == Spec => []PhysMemInv
<1>1. PhysMemInv /\ [Next]_vars => PhysMemInv'
  BY BootStep, GrowStep, OtherSteps DEF Next
<1> QED BY InitInv, <1>1, PTL DEF Spec

\* Pages and addresses stay in their ranges (memory.c).
THEOREM TypeCorrect == Spec => []TypeOK
<1>1. PhysMemInv => TypeOK
  BY DEF PhysMemInv
<1> QED BY PhysMemInvariance, <1>1, PTL

-----------------------------------------------------------------------------
(* The frames of the heap                                                  *)

\* A range that starts or ends at a page covers a page in full or not at all.
LEMMA Aligned ==
  ASSUME NEW a \in Nat, a % PAGE_SIZE = 0, NEW p \in Nat
  PROVE  /\ a < (p + 1) * PAGE_SIZE => a <= p * PAGE_SIZE
         /\ p * PAGE_SIZE < a => (p + 1) * PAGE_SIZE <= a
<1> DEFINE j == a \div PAGE_SIZE
<1>1. PAGE_SIZE \in Nat \ {0}
  BY Constants
<1>2. j \in Nat /\ PAGE_SIZE * j = a
  BY <1>1
<1> HIDE DEF j
<1>3. /\ PAGE_SIZE * j < PAGE_SIZE * (p + 1) <=> j < p + 1
      /\ PAGE_SIZE * j <= PAGE_SIZE * p <=> j <= p
      /\ PAGE_SIZE * p < PAGE_SIZE * j <=> p < j
      /\ PAGE_SIZE * (p + 1) <= PAGE_SIZE * j <=> p + 1 <= j
  BY <1>1, <1>2, Multiples
<1>4. (j < p + 1 <=> j <= p) /\ (p < j <=> p + 1 <= j)
  BY <1>2
<1>5. PAGE_SIZE * p = p * PAGE_SIZE /\ PAGE_SIZE * (p + 1) = (p + 1) * PAGE_SIZE
  BY <1>1
<1> QED BY <1>2, <1>3, <1>4, <1>5

\* A frame of the heap was free at boot, which is RAM, and is not reserved.
LEMMA FrameFacts ==
  ASSUME PhysMemInv, NEW f \in Frames
  PROVE  /\ f \in Nat /\ machine \in Machines
         /\ pmm_total_pages \in 0 .. WORD \div PAGE_SIZE
         /\ bitmap_at = BitmapPlace(pmm_total_pages, machine.mods)
         /\ f \in FreeAtBoot(Entries) /\ f \notin Reserved(bitmap_at, machine.mods)
<1>1. TypeOK /\ BootInv /\ BitmapInv
  BY DEF PhysMemInv
<1>2. HeapPages # {}
  BY DEF Frames
<1>3. heap_next_virt # HEAP_START
  BY <1>1, <1>2, HeapPagesFacts
<1>4. ready /\ machine.map # <<>>
  BY <1>1, <1>3 DEF BootInv
<1>5. f \notin Taken /\ f \in 0 .. pmm_total_pages - 1
  BY <1>1, <1>4 DEF BitmapInv
<1>6. /\ machine \in Machines /\ pmm_total_pages \in 0 .. WORD \div PAGE_SIZE
      /\ bitmap_at = BitmapPlace(pmm_total_pages, machine.mods)
  BY <1>1, <1>4 DEF TypeOK, Page, BootInv
<1>7. f \in BitmapFill(pmm_total_pages)
  BY <1>5, <1>6, BitmapFacts
<1>8. f \in Nat
  BY <1>5
<1> QED BY <1>5, <1>6, <1>7, <1>8 DEF Taken, Marked

LEMMA FramesAreApart ==
  ASSUME PhysMemInv
  PROVE  FramesApart
<1>1. TypeOK /\ FramesInv
  BY DEF PhysMemInv
<1>2. Cardinality(Frames) = Cardinality(HeapPages)
  <2> DEFINE F == [p \in HeapPages |-> page_table[p]]
  <2>1. F \in [HeapPages -> Frames] /\ \A a, b \in HeapPages : F[a] = F[b] => a = b
    BY <1>1 DEF Frames, FramesInv
  <2>2. \A t \in Frames : \E s \in HeapPages : F[s] = t
    BY DEF Frames
  <2> HIDE DEF F
  <2>3. F \in Bijection(HeapPages, Frames)
    BY <2>1, <2>2, Fun_IsBij
  <2>4. ExistsBijection(HeapPages, Frames)
    BY <2>3, Fun_ExistsBij
  <2>5. IsFiniteSet(HeapPages)
    BY <1>1, HeapPagesFacts
  <2> QED BY <2>4, <2>5, FS_Bijection
<1>3. ASSUME NEW f \in Frames
      PROVE  /\ Units(f) \cap (KernelUnits \cup ModuleUnits) = {}
             /\ BitmapBeforeModules => Units(f) \cap BitmapUnits = {}
  <2> DEFINE total == pmm_total_pages
             at == bitmap_at
  <2>1. /\ f \in Nat /\ machine \in Machines /\ total \in 0 .. WORD \div PAGE_SIZE
        /\ at = BitmapPlace(total, machine.mods) /\ f \notin Reserved(at, machine.mods)
    BY FrameFacts
  <2>2. /\ Units(f) \cap KernelUnits = {}
        /\ \A mod \in Range(machine.mods) : Units(f) \cap (mod.start .. mod.end - 1) = {}
        /\ Units(f) \cap (at.start .. at.end - 1) = {}
    BY <2>1, ReservedFacts
  <2>3. Units(f) \cap ModuleUnits = {}
    BY <2>2 DEF ModuleUnits
  <2>4. BitmapBeforeModules => at.end = at.start + BitmapBytes(total)
    BY <2>1, PlaceFacts DEF BitmapBeforeModules
  <2>5. at.start \in Nat /\ at.end \in Nat /\ BitmapBytes(total) \in Nat
    BY <2>1, PlaceFacts, BitmapFacts
  <2>6. BitmapBeforeModules => BitmapUnits = at.start .. at.end - 1
    <3> DEFINE x == at.start
               y == at.end
               n == BitmapBytes(total)
    <3>1. BitmapUnits = x .. x + n - 1
      BY DEF BitmapUnits
    <3>2. BitmapBeforeModules => y = x + n
      BY <2>4
    <3> HIDE DEF x, y, n
    <3>3. BitmapBeforeModules => BitmapUnits = x .. y - 1
      BY <2>5, <3>1, <3>2 DEF x, y, n
    <3> QED BY <3>3 DEF x, y
  <2> QED BY <2>2, <2>3, <2>6
<1> QED BY <1>2, <1>3 DEF FramesApart

LEMMA FramesAreRam ==
  ASSUME PhysMemInv
  PROVE  FramesInRam
<1> SUFFICES ASSUME NEW f \in Frames
    PROVE  /\ f * PAGE_SIZE >= LOW
           /\ Units(f) \cap RamUnits # {}
           /\ Units(f) \subseteq RamUnits \/ PartRam(f)
  BY DEF FramesInRam
<1>1. f \in Nat /\ machine \in Machines /\ f \in FreeAtBoot(Entries)
  BY FrameFacts
<1>2. PICK e \in Entries : f \in Pages(e.addr, End(e))
  BY <1>1 DEF FreeAtBoot
<1>3. /\ PAGE_SIZE \in Nat \ {0} /\ WORD \in Nat /\ LOW \in Nat /\ LOW % PAGE_SIZE = 0
      /\ f * PAGE_SIZE \in Nat /\ (f + 1) * PAGE_SIZE = f * PAGE_SIZE + PAGE_SIZE
  BY <1>1, Constants, PhysMemAssumption
<1>4. /\ e.addr \in Nat /\ e.len \in Nat \ {0} /\ LOW <= e.addr /\ e.addr + e.len <= WORD
      /\ End(e) = IF e.addr + e.len = WORD THEN 0 ELSE e.addr + e.len
      /\ End(e) \in 0 .. WORD - 1
      /\ e.addr + e.len < WORD =>
              \E i \in DOMAIN machine.map : machine.map[i].available
                                        /\ e.addr = machine.map[i].addr
                                        /\ e.len = machine.map[i].len
  BY <1>1, <1>2, EntryFacts DEF Entries
<1> DEFINE a == e.addr
           z == e.addr + e.len
           b == f * PAGE_SIZE
<1>5. End(e) + PAGE_SIZE <= WORD /\ a < (f + 1) * PAGE_SIZE /\ b < End(e)
  <2>1. End(e) \in Nat /\ End(e) < WORD
    BY <1>3, <1>4
  <2>2. ~(End(e) + PAGE_SIZE > WORD)
    BY <1>2, <1>4, <2>1, PagesFacts
  <2>3. End(e) + PAGE_SIZE <= WORD
    BY <1>3, <2>1, <2>2
  <2> QED BY <1>1, <1>2, <1>4, <2>1, <2>3, PagesFacts
<1>6. End(e) = z /\ z < WORD
  BY <1>3, <1>4, <1>5
<1>7. PICK i \in DOMAIN machine.map :
        machine.map[i].available /\ a = machine.map[i].addr /\ e.len = machine.map[i].len
  BY <1>4, <1>6
<1>8. a .. z - 1 \subseteq RamUnits
  <2> DEFINE l == machine.map[i].len
  <2>1. a = machine.map[i].addr /\ e.len = l /\ a \in Nat /\ l \in Nat /\ z = a + l
    BY <1>4, <1>7
  <2>2. a + l < WORD
    BY <1>6, <2>1
  <2>3. a .. a + l - 1 \subseteq RamUnits
    BY <1>7, <2>1, <2>2 DEF RamUnits, RamRanges
  <2> HIDE DEF a, z, l
  <2>4. a .. z - 1 = a .. a + l - 1
    BY <2>1
  <2> QED BY <2>3, <2>4
<1>9. LOW <= b
  <2>1. LOW < (f + 1) * PAGE_SIZE
    <3> DEFINE y == (f + 1) * PAGE_SIZE
    <3>1. y \in Nat
      BY <1>1, <1>3
    <3> HIDE DEF y
    <3> QED BY <1>3, <1>4, <1>5, <3>1
  <2> QED BY <1>1, <1>3, <2>1, Aligned
<1>10. Units(f) \cap RamUnits # {}
  <2>1. Units(f) \cap (a .. z - 1) # {}
    <3>1. a < z
      BY <1>4
    <3> HIDE DEF a, z
    <3> QED BY <1>1, <1>2, <1>4, <1>5, <1>6, <3>1, Overlap DEF a, z
  <2> QED BY <1>8, <2>1
<1>11. ASSUME ~PartRam(f) PROVE Units(f) \subseteq RamUnits
  <2> DEFINE c == (f + 1) * PAGE_SIZE
  <2>1. i \in RamRanges /\ z = machine.map[i].addr + machine.map[i].len
    BY <1>6, <1>7 DEF RamRanges
  <2>2. a \notin b + 1 .. c - 1 /\ z \notin b + 1 .. c - 1
    BY <1>7, <1>11, <2>1 DEF PartRam
  <2>3. c \in Nat /\ b \in Nat /\ a \in Nat /\ z \in Nat /\ a < c /\ b < z
    BY <1>3, <1>4, <1>5, <1>6
  <2>4. Units(f) = b .. c - 1
    BY DEF Units
  <2> HIDE DEF a, b, c, z
  <2>5. b .. c - 1 \subseteq a .. z - 1
    BY <2>2, <2>3
  <2> QED BY <1>8, <2>4, <2>5
<1> QED BY <1>3, <1>9, <1>10, <1>11

\* memory.c 47-176 and 216-290: what the heap has lies above 1 MiB and is its
\* alone: no frame is one of another page of the heap, of the kernel or of a
\* module, nor of the bitmap where that fits below the modules.  A frame that
\* is not RAM as a whole is a page in which a range of RAM begins or ends.
THEOREM FramesCorrect == Spec => []FramesOwned
<1>1. PhysMemInv => FramesOwned
  BY FramesAreApart, FramesAreRam DEF FramesOwned
<1> QED BY PhysMemInvariance, <1>1, PTL

-----------------------------------------------------------------------------
(* Growth                                                                  *)

LEMMA FullHeap ==
  ASSUME PhysMemInv
  PROVE  FailsWhenFull
<1> SUFFICES ASSUME ready, ~grown, \A e \in Entries : End(e) <= WORD - PAGE_SIZE,
                    heap_next_virt # HEAP_END,
                    NEW e \in Entries, e.addr + e.len < WORD,
                    NEW p \in Page, Units(p) \subseteq e.addr .. e.addr + e.len - 1,
                    p \notin Frames
             PROVE  Units(p) \cap (KernelUnits \cup ModuleUnits \cup BitmapUnits) # {}
  BY DEF FailsWhenFull, Entries
<1>1. TypeOK /\ BootInv /\ BitmapInv /\ FullInv
  BY DEF PhysMemInv
<1>2. /\ PAGE_SIZE \in Nat \ {0} /\ WORD \in Nat /\ HEAP_START \in Nat /\ HEAP_END \in Nat
      /\ HEAP_END % PAGE_SIZE = 0 /\ machine \in Machines /\ PAGE_SIZE <= WORD
  BY <1>1, Constants, PhysMemAssumption DEF TypeOK
<1>3. HeapHasRoom
  <2> DEFINE v == heap_next_virt
             k == PageOf(heap_next_virt)
  <2>1. v \in Nat /\ v <= HEAP_END /\ v # HEAP_END
    BY <1>1, <1>2 DEF TypeOK
  <2>2. k \in Nat /\ k * PAGE_SIZE = v
    BY <1>1, HeapPagesFacts
  <2> HIDE DEF v, k
  <2>3. k * PAGE_SIZE < HEAP_END
    BY <1>2, <2>1, <2>2
  <2>4. (k + 1) * PAGE_SIZE <= HEAP_END
    BY <1>2, <2>2, <2>3, Aligned
  <2>5. (k + 1) * PAGE_SIZE = k * PAGE_SIZE + PAGE_SIZE
    BY <1>2, <2>2
  <2>6. v + PAGE_SIZE <= HEAP_END
    BY <2>2, <2>4, <2>5
  <2> QED BY <2>6 DEF HeapHasRoom, v
<1>4. FreePages = {}
  BY <1>1, <1>3 DEF FullInv
<1>5. machine.map # <<>>
  BY DEF Entries, memory_entries, Kept
<1>6. /\ pmm_total_pages = PagesUp(Highest(Entries)) /\ bitmap = Taken \cup Frames
      /\ bitmap_at = BitmapPlace(pmm_total_pages, machine.mods)
      /\ pmm_total_pages \in 0 .. WORD \div PAGE_SIZE
  BY <1>1, <1>5 DEF BootInv, BitmapInv, TypeOK, Page
<1> DEFINE a == e.addr
           z == e.addr + e.len
           b == p * PAGE_SIZE
           high == Highest(Entries)
<1>7. p \in Nat /\ b \in Nat /\ (p + 1) * PAGE_SIZE = b + PAGE_SIZE
  <2>1. WORD \div PAGE_SIZE \in Nat
    BY <1>2, Division
  <2>2. p \in Nat
    BY <2>1 DEF Page
  <2> QED BY <1>2, <2>2
<1>8. a \in Nat /\ z \in Nat /\ End(e) = z
  BY <1>2, EntryFacts DEF Entries
<1>9. a <= b /\ b < z
  <2> DEFINE c == (p + 1) * PAGE_SIZE
             l == e.len
  <2>1. Units(p) = b .. c - 1 /\ c = b + PAGE_SIZE
    BY <1>7 DEF Units
  <2>2. l \in Nat /\ z = a + l /\ Units(p) \subseteq a .. a + l - 1
    BY <1>2, EntryFacts DEF Entries
  <2> HIDE DEF a, b, c, l, z
  <2>3. b \in Units(p)
    BY <1>2, <1>7, <2>1
  <2>4. b \in a .. a + l - 1
    BY <2>2, <2>3
  <2> QED BY <1>7, <1>8, <2>2, <2>4
<1>10. high \in Nat /\ high < WORD /\ high + PAGE_SIZE <= WORD /\ z <= high
  <2>1. /\ high \in 0 .. WORD - 1
        /\ End(e) <= high
        /\ high = 0 \/ \E x \in Entries : End(x) = high
    BY <1>2, HighestFacts DEF Entries
  <2>2. high = 0 \/ high <= WORD - PAGE_SIZE
    BY <2>1
  <2> HIDE DEF high, z
  <2> QED BY <1>2, <1>8, <2>1, <2>2
<1>11. p \in 0 .. pmm_total_pages - 1
  <2>1. b < high
    <3> HIDE DEF b, z, high
    <3> QED BY <1>7, <1>8, <1>9, <1>10
  <2>2. p < PagesUp(high)
    <3> HIDE DEF high
    <3> QED BY <1>7, <1>10, <2>1, PagesUpFacts
  <2> QED BY <1>2, <1>6, <1>7, <2>2, Division
<1>12. p \in Taken
  BY <1>4, <1>6, <1>11 DEF FreePages
<1>13. p \in FreeAtBoot(Entries)
  <2>1. z + PAGE_SIZE <= WORD
    <3> HIDE DEF z, high
    <3> QED BY <1>2, <1>8, <1>10
  <2>2. a < (p + 1) * PAGE_SIZE
    <3> HIDE DEF a, b
    <3> QED BY <1>2, <1>7, <1>8, <1>9
  <2>3. z < WORD
    OBVIOUS
  <2> HIDE DEF a, z
  <2>4. p \in Pages(a, z)
    BY <1>7, <1>8, <1>9, <2>1, <2>2, <2>3, PagesFacts
  <2> QED BY <1>8, <2>4 DEF FreeAtBoot, a
<1>14. p \in Reserved(bitmap_at, machine.mods)
  BY <1>12, <1>13 DEF Taken, Marked
<1>15. \/ Units(p) \cap KernelUnits # {}
       \/ \E mod \in Range(machine.mods) : Units(p) \cap (mod.start .. mod.end - 1) # {}
       \/ Units(p) \cap (bitmap_at.start .. bitmap_at.end - 1) # {}
  BY <1>2, <1>6, <1>7, <1>14, ReservedFacts
<1>16. \A mod \in Range(machine.mods) : mod.start .. mod.end - 1 \subseteq ModuleUnits
  BY DEF ModuleUnits
<1>17. bitmap_at.start .. bitmap_at.end - 1 \subseteq BitmapUnits
  <2> DEFINE s == bitmap_at.start
             t == bitmap_at.end
             n == BitmapBytes(pmm_total_pages)
  <2>1. s \in Nat /\ t \in Nat /\ n \in Nat /\ t <= s + n
    BY <1>2, <1>6, PlaceFacts, BitmapFacts
  <2>2. BitmapUnits = s .. s + n - 1
    BY DEF BitmapUnits
  <2> HIDE DEF s, t, n
  <2>3. s .. t - 1 \subseteq s .. s + n - 1
    BY <2>1
  <2> QED BY <2>2, <2>3 DEF s, t
<1> QED BY <1>15, <1>16, <1>17

\* heap_grow: it gives up only at HEAP_END or when every page of the RAM that
\* was kept is in use.
THEOREM FailsWhenFullCorrect == Spec => []FailsWhenFull
<1>1. PhysMemInv => FailsWhenFull
  BY FullHeap
<1> QED BY PhysMemInvariance, <1>1, PTL

\* vmm_map_page: growing the heap remaps the page it adds and no other.
THEOREM MappingCorrect == Spec => MappingStable
<1> DEFINE Stable == \A p \in Mapped : p \notin HeapPages' \ HeapPages
                                         => page_table'[p] = page_table[p]
<1>1. ASSUME PhysMemInv, [Next]_vars PROVE [Stable]_vars
  <2>1. CASE heap_grow
    <3> DEFINE k == PageOf(heap_next_virt)
    <3>1. k \notin HeapPages /\ HeapPages' = HeapPages \cup {k}
      BY <1>1, <2>1, GrowFacts
    <3>2. PICK page \in FreePages : page_table' = [page_table EXCEPT ![k] = page]
      BY <1>1, <2>1, GrowFacts
    <3>3. page_table \in [Mapped -> Page]
      BY <1>1 DEF PhysMemInv, TypeOK
    <3> HIDE DEF k
    <3> QED BY <3>1, <3>2, <3>3
  <2>2. CASE parse_memory_map \/ heap_grow_fails \/ UNCHANGED vars
    <3>1. page_table' = page_table
      BY <2>2 DEF parse_memory_map, heap_grow_fails, vars
    <3> QED BY <3>1
  <2> QED BY <1>1, <2>1, <2>2 DEF Next
<1> QED BY PhysMemInvariance, <1>1, PTL DEF Spec, MappingStable
=============================================================================
