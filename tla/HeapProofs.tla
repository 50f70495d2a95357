------------------------------ MODULE HeapProofs ------------------------------
(***************************************************************************)
(* HeapInv is inductive while blocks of several pages are not given back,  *)
(* for every size of pages, headers and requests; the properties of Heap   *)
(* follow from it, and every step of the list is a step of Allocator.      *)
(***************************************************************************)
EXTENDS Heap, Numbers

-----------------------------------------------------------------------------
(* The invariant                                                           *)

IsHeap(h) ==
  /\ h = [head |-> h.head, block |-> h.block]
  /\ h.head \in Address \cup {NULL}
  /\ DOMAIN h.block \subseteq Address
  /\ h.block \in [DOMAIN h.block -> Header]

\* What is after p in the list, and what is first when p is NULL
Link(h, p) == IF p = NULL THEN h.head ELSE h.block[p].next

\* q is the address of S that comes after p.
Follows(S, p, q) ==
  IF q = NULL THEN \A x \in S : x <= p
              ELSE q \in S /\ p < q /\ \A x \in S : x <= p \/ q <= x

\* The list holds the addresses of S, in their order.
Chain(h, S) ==
  S \subseteq DOMAIN h.block /\ \A p \in S \cup {NULL} : Follows(S, p, Link(h, p))

End(h, a) == a + h.block[a].len

\* The blocks lie one after the other, up to top.
Tiles(h, top) ==
  /\ \A a \in DOMAIN h.block : h.block[a].len >= min_split /\ End(h, a) <= top
  /\ \A a, c \in DOMAIN h.block : a < c => End(h, a) <= c
  /\ \A w \in HEAP_START .. top - 1 : \E a \in DOMAIN h.block : a <= w /\ w < End(h, a)

\* The free blocks are listed; of the used ones, at most those of several pages.
FreeListed(h, S) ==
  \A a \in DOMAIN h.block :
    IF h.block[a].used THEN a \in S => h.block[a].len >= 2 * PAGE_SIZE ELSE a \in S

Boundary(a) == \E k \in 0 .. HEAP_PAGES : a = HEAP_START + PAGE_SIZE * k

FreePair(h, x, y) ==
  /\ x \in DOMAIN h.block /\ y \in DOMAIN h.block
  /\ ~h.block[x].used /\ ~h.block[y].used /\ End(h, x) = y

\* Free blocks meet where a page begins, and nowhere else.
Merged(h) == \A x, y \in DOMAIN h.block : FreePair(h, x, y) => Boundary(y)

Good(h, S, top) == IsHeap(h) /\ Chain(h, S) /\ Tiles(h, top) /\ FreeListed(h, S)

Held(h) == {[at |-> a, size |-> h.block[a].len] :
              a \in {a \in DOMAIN h.block : h.block[a].used}}

Sound(h, top) == Good(h, Listed(h), top) /\ Merged(h) /\ Boundary(top)

HeapInv == Sound(heap, heap_next_virt) /\ live = Held(heap)

-----------------------------------------------------------------------------
(* Headers and links                                                       *)

LEMMA Constants ==
  /\ PAGE_SIZE \in Nat \ {0} /\ HEADER \in Nat \ {0} /\ HEAP_PAGES \in Nat \ {0}
  /\ min_split = HEADER + 1 /\ PAGE_SIZE > min_split /\ Sizes \subseteq Nat \ {0}
  /\ HEAP_START = PAGE_SIZE /\ HEAP_END = HEAP_START + PAGE_SIZE * HEAP_PAGES
  /\ HEAP_END \in Nat /\ HEAP_START < HEAP_END /\ NULL = 0
  /\ \A a : a \in Address <=> a \in Nat /\ HEAP_START <= a /\ a < HEAP_END
<1> DEFINE s == PAGE_SIZE * HEAP_PAGES
<1>1. /\ PAGE_SIZE \in Nat \ {0} /\ HEADER \in Nat \ {0} /\ HEAP_PAGES \in Nat \ {0}
      /\ PAGE_SIZE > HEADER + 1
  BY HeapAssumption
<1>2. s \in Nat /\ s > 0 /\ HEAP_PAGES * PAGE_SIZE = s
  BY <1>1
<1>3. HEAP_START = PAGE_SIZE /\ HEAP_END = HEAP_START + s
  BY <1>2 DEF HEAP_START, HEAP_END
<1> HIDE DEF s
<1>4. HEAP_END \in Nat /\ HEAP_START < HEAP_END
  BY <1>1, <1>2, <1>3
<1>5. \A a : a \in Address <=> a \in Nat /\ HEAP_START <= a /\ a < HEAP_END
  BY <1>1, <1>3, <1>4 DEF Address
<1> QED BY <1>1, <1>3, <1>4, <1>5, HeapAssumption DEF min_split, NULL, s

\* The header of a block of the heap.
LEMMA HeaderFacts ==
  ASSUME NEW h, IsHeap(h), NEW a \in DOMAIN h.block
  PROVE  /\ a \in Nat /\ a # NULL /\ HEAP_START <= a /\ a < HEAP_END /\ a \in Address
         /\ h.block[a].len \in Nat /\ h.block[a].used \in BOOLEAN
         /\ h.block[a].next \in Address \cup {NULL}
         /\ End(h, a) \in Nat
<1>1. a \in Address /\ h.block[a] \in Header
  BY DEF IsHeap
<1>2. a \in Nat /\ HEAP_START <= a /\ a < HEAP_END /\ a # NULL
  BY <1>1, Constants
<1>3. /\ h.block[a].len \in Nat /\ h.block[a].used \in BOOLEAN
      /\ h.block[a].next \in Address \cup {NULL}
  BY <1>1, Constants DEF Header
<1> QED BY <1>1, <1>2, <1>3 DEF End

\* The blocks of T are in g what they are in h.
Alike(g, h, T) ==
  \A x \in T : g.block[x].len = h.block[x].len /\ g.block[x].used = h.block[x].used

\* g is h with the header at a, which may be a new one.
WithHeader(g, h, a, header) ==
  /\ IsHeap(g) /\ g.head = h.head
  /\ DOMAIN g.block = DOMAIN h.block \cup {a}
  /\ g.block[a] = header
  /\ \A x \in DOMAIN h.block \ {a} : g.block[x] = h.block[x]

\* g is h with another link after prev.
WithLink(g, h, prev, to) ==
  /\ IsHeap(g) /\ DOMAIN g.block = DOMAIN h.block
  /\ Alike(g, h, DOMAIN h.block)
  /\ \A p \in DOMAIN h.block \cup {NULL} :
       Link(g, p) = IF p = prev THEN to ELSE Link(h, p)

LEMMA SetHeaderFacts ==
  ASSUME NEW h, IsHeap(h), NEW a \in Address, NEW len \in 0 .. HEAP_END,
         NEW used \in BOOLEAN, NEW next \in Address \cup {NULL},
         NEW g, g = SetHeader(h, a, len, used, next)
  PROVE  WithHeader(g, h, a, [len |-> len, used |-> used, next |-> next])
<1> DEFINE header == [len |-> len, used |-> used, next |-> next]
           D == DOMAIN h.block \cup {a}
           block == [x \in D |-> IF x = a THEN header ELSE h.block[x]]
<1>1. h = [head |-> h.head, block |-> h.block]
  BY DEF IsHeap
<1>2. g = [head |-> h.head, block |-> block]
  <2>1. g = [h EXCEPT !.block = block]
    BY DEF SetHeader
  <2> HIDE DEF block
  <2> QED BY <1>1, <2>1
<1>3. header \in Header
  BY DEF Header
<1>4. block \in [D -> Header] /\ D \subseteq Address
  BY <1>3 DEF IsHeap
<1>5. g.head = h.head /\ g.block = block
  BY <1>2
<1>6. DOMAIN block = D /\ block[a] = header /\ \A x \in DOMAIN h.block \ {a} : block[x] = h.block[x]
  OBVIOUS
<1> HIDE DEF block, header
<1>7. h.head \in Address \cup {NULL}
  BY DEF IsHeap
<1>8. IsHeap(g)
  BY <1>2, <1>4, <1>5, <1>6, <1>7 DEF IsHeap
<1> QED BY <1>5, <1>6, <1>8 DEF header, WithHeader

LEMMA RelinkFacts ==
  ASSUME NEW h, IsHeap(h), NEW prev \in DOMAIN h.block \cup {NULL},
         NEW to \in Address \cup {NULL}, NEW g, g = Relink(h, prev, to)
  PROVE  WithLink(g, h, prev, to)
<1>1. h = [head |-> h.head, block |-> h.block] /\ h.head \in Address \cup {NULL}
      /\ DOMAIN h.block \subseteq Address /\ h.block \in [DOMAIN h.block -> Header]
  BY DEF IsHeap
<1>2. NULL \notin DOMAIN h.block
  BY HeaderFacts
<1>3. CASE prev = NULL
  <2>1. g = [h EXCEPT !.head = to]
    BY <1>3 DEF Relink
  <2>2. g = [head |-> to, block |-> h.block]
    BY <1>1, <2>1
  <2>3. g.head = to /\ g.block = h.block
    BY <2>2
  <2>4. IsHeap(g)
    BY <1>1, <2>2, <2>3 DEF IsHeap
  <2> QED BY <1>2, <1>3, <2>3, <2>4 DEF Link, WithLink, Alike
<1>4. CASE prev # NULL
  <2> DEFINE header == [h.block[prev] EXCEPT !.next = to]
             block == [h.block EXCEPT ![prev] = header]
  <2>1. h.block[prev] \in Header
    BY <1>1, <1>4
  <2>2. /\ header \in Header /\ header.next = to
        /\ header.len = h.block[prev].len /\ header.used = h.block[prev].used
    BY <2>1 DEF Header
  <2>3. g = [h EXCEPT !.block = block]
    BY <1>4 DEF Relink
  <2> HIDE DEF header
  <2>4. /\ DOMAIN block = DOMAIN h.block /\ block[prev] = header
        /\ \A x \in DOMAIN h.block \ {prev} : block[x] = h.block[x]
        /\ block \in [DOMAIN h.block -> Header]
    BY <1>1, <1>4, <2>2
  <2> HIDE DEF block
  <2>5. g = [head |-> h.head, block |-> block]
    BY <1>1, <2>3
  <2>6. g.head = h.head /\ g.block = block
    BY <2>5
  <2>7. IsHeap(g)
    BY <1>1, <2>4, <2>5, <2>6 DEF IsHeap
  <2>8. \A p \in DOMAIN h.block \cup {NULL} : Link(g, p) = IF p = prev THEN to ELSE Link(h, p)
    BY <1>2, <1>4, <2>2, <2>4, <2>6 DEF Link
  <2>9. \A x \in DOMAIN h.block : /\ g.block[x].len = h.block[x].len
                                  /\ g.block[x].used = h.block[x].used
    BY <2>2, <2>4, <2>6
  <2> QED BY <2>4, <2>6, <2>7, <2>8, <2>9 DEF WithLink, Alike
<1> QED BY <1>3, <1>4

LEMMA ForgetFacts ==
  ASSUME NEW h, IsHeap(h), NEW T, NEW g, g = Forget(h, T)
  PROVE  /\ IsHeap(g) /\ g.head = h.head /\ DOMAIN g.block = DOMAIN h.block \ T
         /\ \A x \in DOMAIN h.block \ T : g.block[x] = h.block[x]
<1> DEFINE D == DOMAIN h.block \ T
           block == [x \in D |-> h.block[x]]
<1>1. h = [head |-> h.head, block |-> h.block] /\ h.head \in Address \cup {NULL}
  BY DEF IsHeap
<1>2. g = [h EXCEPT !.block = block]
  BY DEF Forget
<1>3. DOMAIN block = D /\ block \in [D -> Header] /\ D \subseteq Address
      /\ \A x \in D : block[x] = h.block[x]
  BY DEF IsHeap
<1> HIDE DEF block
<1>4. g = [head |-> h.head, block |-> block]
  BY <1>1, <1>2
<1>5. g.head = h.head /\ g.block = block
  BY <1>4
<1>6. IsHeap(g)
  BY <1>1, <1>3, <1>4, <1>5 DEF IsHeap
<1> QED BY <1>3, <1>5, <1>6

-----------------------------------------------------------------------------
(* Walks of the list                                                       *)

LEMMA ChainFacts ==
  ASSUME NEW h, IsHeap(h), NEW S, Chain(h, S)
  PROVE  /\ S \subseteq DOMAIN h.block
         /\ \A p \in S : p \in Nat /\ p > NULL /\ p \in Address
         /\ \A p \in S \cup {NULL} : /\ p \in Nat
                                     /\ Link(h, p) \in S \cup {NULL}
                                     /\ Follows(S, p, Link(h, p))
<1>1. S \subseteq DOMAIN h.block /\ \A p \in S \cup {NULL} : Follows(S, p, Link(h, p))
  BY DEF Chain
<1>2. \A p \in S : p \in Nat /\ p > NULL /\ p \in Address
  BY <1>1, HeaderFacts, Constants
<1>3. \A p \in S \cup {NULL} : Link(h, p) \in S \cup {NULL}
  BY <1>1 DEF Follows
<1> QED BY <1>1, <1>2, <1>3, Constants

\* A walk goes through all of the list, and through nothing else.
LEMMA ListedFacts ==
  ASSUME NEW h, IsHeap(h), NEW S, Chain(h, S)
  PROVE  Listed(h) = S
<1> DEFINE n == Cardinality(DOMAIN h.block)
           X == S \cup {NULL}
           next(p) == IF p = NULL THEN NULL ELSE h.block[p].next
           step == [k \in 1 .. n |-> [p \in X |-> next(p)]]
           Walks(f) == f = [k \in 0 .. n |-> IF k = 0 THEN h.head
                                             ELSE IF f[k - 1] = NULL THEN NULL
                                             ELSE h.block[f[k - 1]].next]
           node == CHOOSE f : Walks(f)
<1>1. IsFiniteSet(DOMAIN h.block) /\ n \in Nat
  <2>1. IsFiniteSet(HEAP_START .. HEAP_END - 1)
    BY Constants, FS_Interval
  <2>2. DOMAIN h.block \subseteq HEAP_START .. HEAP_END - 1
    BY DEF IsHeap, Address
  <2> QED BY <2>1, <2>2, FS_Subset, FS_CardinalityType
<1>2. /\ h.head \in X /\ \A p \in X : next(p) \in X
      /\ \A p \in S : next(p) = Link(h, p) /\ p # NULL
      /\ h.head = Link(h, NULL)
  BY ChainFacts DEF Link
<1>3. \E f : Walks(f)
  <2>1. step \in [1 .. n -> [X -> X]]
    BY <1>2
  <2> DEFINE first == h.head
  <2> HIDE DEF X, n, step, first
  <2>2. PICK f \in [0 .. n -> X] : Iterates(f, n, first, step)
    BY <1>1, <1>2, <2>1, Recursion DEF first
  <2>3. ASSUME NEW k \in 0 .. n
        PROVE  f[k] = IF k = 0 THEN first ELSE next(f[k - 1])
    <3>1. f[k] = IF k = 0 THEN first ELSE step[k][f[k - 1]]
      BY <2>2 DEF Iterates
    <3>2. CASE k # 0
      <4>1. k \in 1 .. n /\ k - 1 \in 0 .. n
        BY <1>1, <3>2
      <4>2. f[k - 1] \in X
        BY <2>2, <4>1
      <4>3. step[k][f[k - 1]] = next(f[k - 1])
        BY <4>1, <4>2 DEF step
      <4> QED BY <3>1, <3>2, <4>3
    <3> QED BY <3>1, <3>2
  <2>4. Walks(f)
    <3>1. f = [k \in 0 .. n |-> f[k]]
      BY <2>2
    <3> QED BY <2>3, <3>1 DEF first
  <2> QED BY <2>4
<1>4. Walks(node)
  <2> HIDE DEF Walks
  <2> QED BY <1>3
<1>5. Listed(h) = {node[i] : i \in 0 .. n} \ {NULL}
  BY DEF Listed
<1>6. DOMAIN node = 0 .. n /\ \A k \in 0 .. n : node[k] = IF k = 0 THEN h.head ELSE next(node[k - 1])
  <2> HIDE DEF node, n
  <2> QED BY <1>4
<1> HIDE DEF node, step, Walks, next, n
<1>7. \A k \in Nat : k \in {m \in Nat : m <= n => node[m] \in X}
  <2> DEFINE T == {m \in Nat : m <= n => node[m] \in X}
  <2>1. 0 \in T
    BY <1>1, <1>2, <1>6
  <2>2. ASSUME NEW m \in Nat, m \in T PROVE m + 1 \in T
    <3> SUFFICES ASSUME m + 1 <= n PROVE node[m + 1] \in X
      OBVIOUS
    <3>1. m + 1 \in 0 .. n /\ m + 1 # 0 /\ (m + 1) - 1 = m /\ m <= n
      BY <1>1
    <3>2. node[m] \in X /\ node[m + 1] = next(node[m])
      BY <1>6, <2>2, <3>1
    <3> HIDE DEF X
    <3> QED BY <1>2, <3>2
  <2> HIDE DEF T
  <2>3. \A m \in Nat : m \in T
    BY <2>1, <2>2, Induction
  <2> QED BY <2>3 DEF T
<1>8. \A k \in 0 .. n : node[k] \in X
  BY <1>1, <1>7
<1>9. ASSUME NEW s \in S, \A k \in 0 .. n : node[k] # s PROVE FALSE
  <2> DEFINE Below(m) == /\ node[m] \in S /\ node[m] < s
                         /\ \A k \in 0 .. n : k < m => node[k] < node[m]
             T == {m \in Nat : m <= n => Below(m)}
  <2>1. ASSUME NEW p \in S \cup {NULL}, p < s
        PROVE  Link(h, p) \in S /\ p < Link(h, p) /\ Link(h, p) <= s
    <3>1. Follows(S, p, Link(h, p)) /\ p \in Nat /\ s \in Nat
      BY ChainFacts
    <3> QED BY <2>1, <3>1 DEF Follows
  <2>2. \A p \in S : p \in Nat
    BY ChainFacts
  <2>3. 0 \in T
    <3>1. NULL < s /\ NULL = 0
      BY ChainFacts, Constants
    <3>2. h.head \in S /\ h.head <= s
      BY <1>2, <2>1, <3>1
    <3>3. node[0] = h.head /\ 0 \in 0 .. n
      BY <1>1, <1>6
    <3>4. node[0] # s
      BY <1>9, <3>3
    <3> QED BY <2>2, <3>2, <3>3, <3>4
  <2>4. ASSUME NEW m \in Nat, m \in T PROVE m + 1 \in T
    <3> SUFFICES ASSUME m + 1 <= n PROVE Below(m + 1)
      <4> HIDE DEF Below
      <4> QED OBVIOUS
    <3>1. m + 1 \in 0 .. n /\ m + 1 # 0 /\ (m + 1) - 1 = m /\ m <= n /\ m \in 0 .. n
      BY <1>1
    <3> DEFINE p == node[m] q == node[m + 1]
    <3>2. p \in S /\ p < s /\ \A k \in 0 .. n : k < m => node[k] < p
      BY <2>4, <3>1
    <3>3. q = next(p)
      BY <1>6, <3>1
    <3>4. q = Link(h, p)
      BY <1>2, <3>2, <3>3
    <3>5. q # s
      BY <1>9, <3>1
    <3> HIDE DEF p, q
    <3>6. q \in S /\ p < q /\ q <= s
      BY <2>1, <3>2, <3>4
    <3>7. q < s
      BY <2>2, <3>5, <3>6
    <3>8. ASSUME NEW k \in 0 .. n, k < m + 1 PROVE node[k] < q
      <4>1. CASE k = m
        BY <3>6, <4>1 DEF p
      <4>2. CASE k < m
        <5>1. node[k] < p /\ node[k] \in Nat
          BY <1>8, <2>2, <3>2, <4>2, Constants
        <5> QED BY <2>2, <3>2, <3>6, <5>1
      <4> QED BY <1>1, <3>8, <4>1, <4>2
    <3> QED BY <3>6, <3>7, <3>8 DEF q
  <2>5. \A m \in Nat : m \in T
    <3> HIDE DEF T
    <3> QED BY <2>3, <2>4, Induction
  <2>6. \A m \in 0 .. n : node[m] \in S /\ \A k \in 0 .. n : k < m => node[k] < node[m]
    <3> HIDE DEF Below
    <3>1. \A m \in 0 .. n : Below(m)
      BY <1>1, <2>5
    <3> QED BY <3>1 DEF Below
  <2>7. node \in [0 .. n -> DOMAIN h.block]
    <3>1. node = [k \in 0 .. n |-> node[k]]
      BY <1>4 DEF Walks
    <3> QED BY <2>6, <3>1, ChainFacts
  <2>8. IsFiniteSet(0 .. n) /\ Cardinality(0 .. n) = n + 1
    BY <1>1, FS_Interval
  <2>9. PICK i, j \in 0 .. n : i # j /\ node[i] = node[j]
    <3>1. Cardinality(DOMAIN h.block) < Cardinality(0 .. n)
      BY <1>1, <2>8 DEF n
    <3> QED BY <1>1, <2>7, <2>8, <3>1, FS_PigeonHole
  <2>10. i < j \/ j < i
    BY <1>1, <2>9
  <2>11. node[i] \in Nat /\ ~(node[i] < node[i])
    BY <2>2, <2>6
  <2> QED BY <2>6, <2>9, <2>10, <2>11
<1>10. S \subseteq Listed(h)
  BY <1>5, <1>9, ChainFacts, Constants
<1> QED BY <1>5, <1>8, <1>10

\* The loops stop at the neighbours of addr, which follow each other.
LEMMA NeighbourFacts ==
  ASSUME NEW h, IsHeap(h), NEW S, Chain(h, S), NEW addr \in Address
  PROVE  LET prev == Before(h, addr)
             cur == From(h, addr)
         IN  /\ prev \in S \cup {NULL} /\ prev \in Nat /\ prev < addr
             /\ \A x \in S : x < addr => x <= prev
             /\ cur \in S \cup {NULL}
             /\ cur # NULL => addr <= cur
             /\ \A x \in S : addr <= x => cur # NULL /\ cur <= x
<1> DEFINE prev == Before(h, addr)
           cur == From(h, addr)
           below == {a \in S : a < addr}
           above == {a \in S : a >= addr}
<1>1. Listed(h) = S
  BY ListedFacts
<1>2. /\ prev = IF below = {} THEN NULL ELSE Max(below)
      /\ cur = IF above = {} THEN NULL ELSE Min(above)
  BY <1>1 DEF Before, From
<1>3. /\ \A x \in S : x \in Nat /\ x > NULL
      /\ addr \in Nat /\ addr > NULL /\ NULL \in Nat
  BY ChainFacts, Constants
<1>4. below # {} => Max(below) \in below /\ \A y \in below : y <= Max(below)
  <2>1. below \in SUBSET (0 .. addr)
    BY <1>3
  <2> HIDE DEF below
  <2> QED BY <1>3, <2>1, MaxExists
<1>5. above # {} => Min(above) \in above /\ \A y \in above : Min(above) <= y
  <2>1. above \in SUBSET Nat
    BY <1>3
  <2> HIDE DEF above
  <2> QED BY <2>1, MinExists
<1>6. prev \in S \cup {NULL} /\ prev < addr /\ \A x \in below : x <= prev
  <2> HIDE DEF prev
  <2>1. CASE below = {} BY <1>2, <1>3, <2>1
  <2>2. CASE below # {} BY <1>2, <1>3, <1>4, <2>2
  <2> QED BY <2>1, <2>2
<1>7. cur \in S \cup {NULL} /\ (cur # NULL => addr <= cur) /\ \A x \in above : cur # NULL /\ cur <= x
  <2> HIDE DEF cur
  <2>1. CASE above = {} BY <1>2, <1>3, <2>1
  <2>2. CASE above # {} BY <1>2, <1>3, <1>5, <2>2
  <2> QED BY <2>1, <2>2
<1> QED BY <1>3, <1>6, <1>7

\* First fit finds a free block that is large enough, if there is one.
LEMMA FitFacts ==
  ASSUME NEW h, IsHeap(h), NEW S, Chain(h, S), NEW needed
  PROVE  LET b == find_fit(h, needed)
         IN  /\ b # NULL => b \in S /\ ~h.block[b].used /\ h.block[b].len >= needed
             /\ \A a \in S : ~h.block[a].used /\ h.block[a].len >= needed => b # NULL
<1> DEFINE fits == {a \in S : ~h.block[a].used /\ h.block[a].len >= needed}
           b == find_fit(h, needed)
<1>1. b = IF fits = {} THEN NULL ELSE Min(fits)
  BY ListedFacts DEF find_fit
<1>2. fits # {} => Min(fits) \in fits
  <2>1. fits \in SUBSET Nat
    BY ChainFacts
  <2> HIDE DEF fits
  <2> QED BY <2>1, MinExists
<1>3. \A x \in S : x > NULL /\ x \in Nat /\ NULL \in Nat
  BY ChainFacts, Constants
<1> HIDE DEF b
<1>4. b # NULL => b \in fits
  BY <1>1, <1>2
<1>5. fits # {} => b # NULL
  BY <1>1, <1>2, <1>3
<1> QED BY <1>4, <1>5 DEF b

-----------------------------------------------------------------------------
(* Surgery of the list                                                     *)

\* The block before one that is listed has it as its next.
LEMMA PreviousFacts ==
  ASSUME NEW h, IsHeap(h), NEW S, Chain(h, S), NEW b \in S
  PROVE  Before(h, b) \in S \cup {NULL} /\ Link(h, Before(h, b)) = b
<1> DEFINE prev == Before(h, b)
           q == Link(h, prev)
<1>1. /\ prev \in S \cup {NULL} /\ prev \in Nat /\ prev < b
      /\ \A x \in S : x < b => x <= prev
  BY ChainFacts, NeighbourFacts
<1> HIDE DEF prev
<1>2. Follows(S, prev, q)
  BY <1>1, ChainFacts
<1>3. \A x \in S : x \in Nat
  BY ChainFacts
<1> HIDE DEF q
<1>4. q \in S /\ prev < q /\ q <= b
  BY <1>1, <1>2, <1>3 DEF Follows
<1>5. q = b
  BY <1>1, <1>3, <1>4
<1> QED BY <1>1, <1>5 DEF prev, q

\* addr is put between prev and its next.
LEMMA ChainInsert ==
  ASSUME NEW h, IsHeap(h), NEW S, Chain(h, S), NEW prev \in S \cup {NULL},
         NEW addr \in Nat, addr \notin S, prev < addr, addr # NULL,
         Link(h, prev) # NULL => addr < Link(h, prev),
         NEW g, S \cup {addr} \subseteq DOMAIN g.block,
         Link(g, addr) = Link(h, prev), Link(g, prev) = addr,
         \A p \in S \cup {NULL} : p # prev => Link(g, p) = Link(h, p)
  PROVE  Chain(g, S \cup {addr})
<1>1. /\ \A p \in S : p \in Nat /\ p > NULL
      /\ prev \in Nat /\ NULL \in Nat
      /\ \A p \in S \cup {NULL} : Follows(S, p, Link(h, p))
  BY ChainFacts
<1> SUFFICES ASSUME NEW p \in S \cup {addr, NULL}
             PROVE  Follows(S \cup {addr}, p, Link(g, p))
  BY DEF Chain
<1> DEFINE next == Link(h, prev)
<1>2. Follows(S, prev, next) /\ (next # NULL => addr < next)
  BY <1>1
<1> HIDE DEF next
<1>3. next # NULL => next \in Nat
  BY <1>1, <1>2 DEF Follows
<1>4. \A x \in S : x <= prev \/ (next # NULL /\ next <= x)
  BY <1>2 DEF Follows
<1>5. CASE p = prev
  <2>1. \A x \in S : x <= prev \/ addr <= x
    BY <1>1, <1>2, <1>3, <1>4
  <2> QED BY <1>5, <2>1 DEF Follows
<1>6. CASE p = addr
  <2>1. CASE next = NULL
    <3>1. \A x \in S \cup {addr} : x <= addr
      BY <1>1, <1>2, <2>1 DEF Follows
    <3> QED BY <1>6, <2>1, <3>1 DEF Follows, next
  <2>2. CASE next # NULL
    <3>1. next \in S /\ \A x \in S : x <= addr \/ next <= x
      BY <1>1, <1>2, <2>2 DEF Follows
    <3> QED BY <1>2, <1>6, <2>2, <3>1 DEF Follows, next
  <2> QED BY <2>1, <2>2
<1>7. CASE p # prev /\ p # addr
  <2> DEFINE q == Link(h, p)
  <2>1. Follows(S, p, q) /\ Link(g, p) = q /\ p \in S \cup {NULL} /\ p \in Nat
    BY <1>1, <1>7
  <2>2. prev \in S \/ prev = NULL
    OBVIOUS
  <2> HIDE DEF q
  <2>3. CASE q = NULL
    <3>1. p = NULL => prev = NULL
      BY <1>1, <2>1, <2>2, <2>3 DEF Follows
    <3>2. prev <= p
      BY <1>1, <1>7, <2>1, <2>2, <2>3, <3>1 DEF Follows
    <3>3. prev < p
      BY <1>1, <1>7, <2>1, <3>2
    <3>4. addr <= p
      <4>1. p \in S
        BY <1>1, <2>1, <3>3, Constants
      <4>2. next # NULL /\ next <= p
        BY <1>1, <1>4, <2>1, <3>3, <4>1
      <4> QED BY <1>2, <1>3, <2>1, <4>2
    <3> QED BY <2>1, <2>3, <3>4 DEF Follows
  <2>4. CASE q # NULL
    <3>1. q \in S /\ p < q /\ \A x \in S : x <= p \/ q <= x
      BY <2>1, <2>4 DEF Follows
    <3>2. addr <= p \/ q <= addr
      <4>1. CASE p < prev
        <5>1. prev \in S
          BY <1>1, <2>1, <2>2, <4>1, Constants
        <5>2. q <= prev
          BY <1>1, <2>1, <3>1, <4>1, <5>1
        <5>3. q \in Nat
          BY <1>1, <3>1
        <5> QED BY <1>1, <5>2, <5>3
      <4>2. CASE prev < p
        <5>1. p \in S
          BY <1>1, <2>1, <4>2, Constants
        <5>2. next # NULL /\ next <= p
          BY <1>1, <1>2, <2>1, <4>2, <5>1 DEF Follows
        <5>3. next \in Nat
          BY <1>1, <1>2, <5>2 DEF Follows
        <5> QED BY <1>2, <2>1, <5>2, <5>3
      <4> QED BY <1>1, <1>7, <2>1, <4>1, <4>2
    <3> QED BY <2>1, <2>4, <3>1, <3>2 DEF Follows
  <2> QED BY <2>3, <2>4
<1> QED BY <1>5, <1>6, <1>7

\* b is taken out, from between prev and its own next.
LEMMA ChainRemove ==
  ASSUME NEW h, IsHeap(h), NEW S, Chain(h, S), NEW b \in S,
         NEW prev \in S \cup {NULL}, Link(h, prev) = b,
         NEW g, S \ {b} \subseteq DOMAIN g.block, Link(g, prev) = Link(h, b),
         \A p \in (S \ {b}) \cup {NULL} : p # prev => Link(g, p) = Link(h, p)
  PROVE  Chain(g, S \ {b})
<1>1. /\ \A p \in S : p \in Nat /\ p > NULL
      /\ prev \in Nat /\ NULL \in Nat
      /\ \A p \in S \cup {NULL} : Follows(S, p, Link(h, p))
      /\ NULL \notin S
  BY ChainFacts, Constants
<1> SUFFICES ASSUME NEW p \in (S \ {b}) \cup {NULL}
             PROVE  Follows(S \ {b}, p, Link(g, p))
  BY DEF Chain
<1> DEFINE next == Link(h, b)
<1>2. prev < b /\ \A x \in S : x <= prev \/ b <= x
  BY <1>1 DEF Follows
<1>3. Follows(S, b, next)
  BY <1>1
<1> HIDE DEF next
<1>4. CASE p = prev
  <2>1. CASE next = NULL
    <3>1. \A x \in S \ {b} : x <= prev
      BY <1>1, <1>2, <1>3, <2>1 DEF Follows
    <3> QED BY <1>4, <2>1, <3>1 DEF Follows, next
  <2>2. CASE next # NULL
    <3>1. next \in S /\ b < next /\ \A x \in S : x <= b \/ next <= x
      BY <1>3, <2>2 DEF Follows
    <3>2. next # b /\ prev < next /\ \A x \in S \ {b} : x <= prev \/ next <= x
      BY <1>1, <1>2, <3>1
    <3> QED BY <1>4, <2>2, <3>1, <3>2 DEF Follows, next
  <2> QED BY <2>1, <2>2
<1>5. CASE p # prev
  <2> DEFINE q == Link(h, p)
  <2>1. Follows(S, p, q) /\ Link(g, p) = q /\ p \in S \cup {NULL} /\ p \in Nat
    BY <1>1, <1>5
  <2>2. q # b
    <3>1. CASE q = b
      <4>1. p < b /\ \A x \in S : x <= p \/ b <= x
        BY <1>1, <2>1, <3>1 DEF Follows
      <4>2. prev <= p
        <5>1. CASE prev \in S BY <1>1, <1>2, <4>1, <5>1
        <5>2. CASE prev = NULL BY <1>1, <2>1, <5>2
        <5> QED BY <5>1, <5>2
      <4>3. p <= prev
        <5>1. CASE p \in S BY <1>1, <1>2, <4>1, <5>1
        <5>2. CASE p = NULL BY <1>1, <5>2
        <5> QED BY <2>1, <5>1, <5>2
      <4> QED BY <1>1, <1>5, <2>1, <4>2, <4>3
    <3> QED BY <3>1
  <2> HIDE DEF q
  <2> QED BY <2>1, <2>2 DEF Follows
<1> QED BY <1>4, <1>5

\* x takes the place of b, from which it is not far.
LEMMA ChainReplace ==
  ASSUME NEW h, IsHeap(h), NEW S, Chain(h, S), NEW b \in S,
         NEW prev \in S \cup {NULL}, Link(h, prev) = b,
         NEW x \in Nat, b < x, Link(h, b) # NULL => x < Link(h, b),
         NEW g, (S \ {b}) \cup {x} \subseteq DOMAIN g.block,
         Link(g, prev) = x, Link(g, x) = Link(h, b),
         \A p \in (S \ {b}) \cup {NULL} : p # prev => Link(g, p) = Link(h, p)
  PROVE  Chain(g, (S \ {b}) \cup {x})
<1>1. /\ \A p \in S : p \in Nat /\ p > NULL
      /\ prev \in Nat /\ NULL \in Nat
      /\ \A p \in S \cup {NULL} : Follows(S, p, Link(h, p))
      /\ NULL \notin S
  BY ChainFacts, Constants
<1> DEFINE T == (S \ {b}) \cup {x}
<1> SUFFICES ASSUME NEW p \in T \cup {NULL}
             PROVE  Follows(T, p, Link(g, p))
  BY DEF Chain
<1> DEFINE next == Link(h, b)
<1>2. prev < b /\ \A y \in S : y <= prev \/ b <= y
  BY <1>1 DEF Follows
<1>3. Follows(S, b, next) /\ (next # NULL => x < next)
  BY <1>1
<1> HIDE DEF next
<1>4. \A y \in S : y <= b \/ (next # NULL /\ next \in Nat /\ next <= y)
  BY <1>1, <1>3 DEF Follows
<1>5. b \in Nat /\ \A y \in S : b < y => x < y
  BY <1>1, <1>3, <1>4
<1>6. x \notin S /\ x # NULL
  <2>1. x # NULL
    BY <1>5, Constants
  <2> QED BY <1>5, <2>1
<1>7. CASE p = prev
  <2>1. /\ prev \in Nat /\ b \in Nat /\ prev < b /\ b < x /\ x \in Nat
        /\ \A y \in S : y \in Nat /\ (y <= prev \/ b <= y)
    BY <1>1, <1>2
  <2>2. \A y \in S \ {b} : y <= prev \/ x <= y
    BY ONLY <1>5, <2>1
  <2>3. prev < x /\ x \in T
    <3>1. prev < x
      BY ONLY <2>1
    <3> QED BY <3>1
  <2> QED BY <1>6, <1>7, <2>2, <2>3 DEF Follows
<1>8. CASE p = x
  <2>1. CASE next = NULL
    <3>1. \A y \in T : y <= x
      BY <1>1, <1>3, <2>1 DEF Follows
    <3> QED BY <1>8, <2>1, <3>1 DEF Follows, next
  <2>2. CASE next # NULL
    <3>1. next \in S /\ b < next /\ next # b /\ \A y \in S : y <= x \/ next <= y
      BY <1>1, <1>3, <2>2 DEF Follows
    <3> QED BY <1>3, <1>8, <2>2, <3>1 DEF Follows, next
  <2> QED BY <2>1, <2>2
<1>9. CASE p # prev /\ p # x
  <2> DEFINE q == Link(h, p)
  <2>1. Follows(S, p, q) /\ Link(g, p) = q /\ p \in S \cup {NULL} /\ p \in Nat /\ p # b
    BY <1>1, <1>9
  <2> HIDE DEF q
  <2>2. q # b
    <3>1. CASE q = b
      <4>1. p < b /\ \A y \in S : y <= p \/ b <= y
        BY <1>1, <2>1, <3>1 DEF Follows
      <4>2. prev <= p
        <5>1. CASE prev \in S BY <1>1, <1>2, <4>1, <5>1
        <5>2. CASE prev = NULL BY <1>1, <2>1, <5>2, Constants
        <5> QED BY <5>1, <5>2
      <4>3. p <= prev
        <5>1. CASE p \in S BY <1>1, <1>2, <4>1, <5>1
        <5>2. CASE p = NULL BY <1>1, <5>2, Constants
        <5> QED BY <2>1, <5>1, <5>2
      <4> QED BY <1>1, <1>9, <2>1, <4>2, <4>3
    <3> QED BY <3>1
  <2>3. CASE q = NULL
    <3>1. b <= p /\ \A y \in S : y <= p
      BY <2>1, <2>3 DEF Follows
    <3>2. b < p
      BY <1>1, <2>1, <3>1
    <3>3. x <= p
      <4>1. p \in S
        BY <1>1, <2>1, <3>2, Constants
      <4> QED BY <1>5, <2>1, <3>2, <4>1
    <3> QED BY <2>1, <2>3, <3>1, <3>3 DEF Follows
  <2>4. CASE q # NULL
    <3>1. q \in S /\ p < q /\ \A y \in S : y <= p \/ q <= y
      BY <2>1, <2>4 DEF Follows
    <3>2. x <= p \/ q <= x
      <4>1. CASE p < b
        BY <1>1, <2>1, <3>1, <4>1
      <4>2. CASE b < p
        <5>1. p \in S
          BY <1>1, <2>1, <4>2, Constants
        <5> QED BY <1>5, <2>1, <4>2, <5>1
      <4> QED BY <1>5, <2>1, <4>1, <4>2
    <3> QED BY <2>1, <2>2, <2>4, <3>1, <3>2 DEF Follows
  <2> QED BY <2>3, <2>4
<1> QED BY <1>7, <1>8, <1>9

-----------------------------------------------------------------------------
(* add_block, TakeBlock and Absorb                                         *)

\* What is not listed yet lies between two that follow each other.
LEMMA BetweenNeighbours ==
  ASSUME NEW h, IsHeap(h), NEW S, Chain(h, S), NEW addr \in Address, addr \notin S
  PROVE  /\ Link(h, Before(h, addr)) = From(h, addr)
         /\ From(h, addr) # NULL => addr < From(h, addr)
<1> DEFINE prev == Before(h, addr)
           cur == From(h, addr)
           q == Link(h, prev)
<1>1. /\ prev \in S \cup {NULL} /\ prev \in Nat /\ prev < addr
      /\ \A x \in S : x < addr => x <= prev
      /\ cur \in S \cup {NULL}
      /\ cur # NULL => addr <= cur
      /\ \A x \in S : addr <= x => cur # NULL /\ cur <= x
  BY NeighbourFacts
<1> HIDE DEF prev, cur
<1>2. Follows(S, prev, q)
  BY <1>1, ChainFacts
<1> HIDE DEF q
<1>3. addr \in Nat /\ \A x \in S : x \in Nat
  BY ChainFacts, Constants
<1>4. CASE q = NULL
  <2>1. \A x \in S : x <= prev
    BY <1>2, <1>4 DEF Follows
  <2>2. cur = NULL
    BY <1>1, <1>3, <2>1
  <2> QED BY <1>4, <2>2 DEF prev, cur, q
<1>5. CASE q # NULL
  <2>1. q \in S /\ prev < q /\ \A x \in S : x <= prev \/ q <= x
    BY <1>2, <1>5 DEF Follows
  <2>2. addr <= q
    BY <1>1, <1>3, <2>1
  <2>3. cur # NULL /\ cur <= q /\ cur \in S /\ addr <= cur
    BY <1>1, <2>1, <2>2
  <2>4. q <= cur
    BY <1>1, <1>3, <2>1, <2>3
  <2>5. cur = q /\ cur # addr
    BY <1>3, <2>1, <2>3, <2>4
  <2> QED BY <1>3, <2>3, <2>5 DEF prev, cur, q
<1> QED BY <1>4, <1>5

\* g is h with a free block at addr.
WithFree(g, h, addr, len) ==
  /\ IsHeap(g) /\ DOMAIN g.block = DOMAIN h.block \cup {addr}
  /\ g.block[addr].len = len /\ g.block[addr].used = FALSE
  /\ Alike(g, h, DOMAIN h.block \ {addr})

LEMMA AddBlockFacts ==
  ASSUME NEW h, IsHeap(h), NEW S, Chain(h, S), NEW addr \in Address, addr \notin S,
         NEW len \in 0 .. HEAP_END, NEW g, g = add_block(h, addr, len)
  PROVE  /\ WithFree(g, h, addr, len) /\ Chain(g, S \cup {addr})
         /\ Link(g, addr) = From(h, addr) /\ Link(g, Before(h, addr)) = addr
<1> DEFINE prev == Before(h, addr)
           cur == From(h, addr)
           f == SetHeader(h, addr, len, FALSE, cur)
           D == DOMAIN h.block
<1>1. /\ prev \in S \cup {NULL} /\ prev \in Nat /\ prev < addr
      /\ cur \in S \cup {NULL}
  BY NeighbourFacts
<1>2. Link(h, prev) = cur /\ (cur # NULL => addr < cur)
  BY BetweenNeighbours
<1>3. /\ S \subseteq D /\ S \subseteq Address /\ addr \in Nat /\ addr # NULL
      /\ NULL \notin S
  BY ChainFacts, Constants
<1>4. g = Relink(f, prev, addr)
  BY DEF add_block
<1> HIDE DEF prev, cur
<1>5. f = SetHeader(h, addr, len, FALSE, cur) /\ cur \in Address \cup {NULL}
  BY <1>1, <1>3
<1> HIDE DEF f
<1>6. /\ IsHeap(f) /\ f.head = h.head /\ DOMAIN f.block = D \cup {addr}
      /\ f.block[addr] = [len |-> len, used |-> FALSE, next |-> cur]
      /\ \A x \in D \ {addr} : f.block[x] = h.block[x]
  <2>1. WithHeader(f, h, addr, [len |-> len, used |-> FALSE, next |-> cur])
    BY <1>5, SetHeaderFacts
  <2> QED BY <2>1 DEF WithHeader
<1>7. /\ IsHeap(g) /\ DOMAIN g.block = D \cup {addr}
      /\ \A x \in D \cup {addr} : /\ g.block[x].len = f.block[x].len
                                  /\ g.block[x].used = f.block[x].used
      /\ \A p \in D \cup {addr, NULL} : Link(g, p) = IF p = prev THEN addr ELSE Link(f, p)
  <2>1. prev \in DOMAIN f.block \cup {NULL}
    BY <1>1, <1>3, <1>6
  <2>2. WithLink(g, f, prev, addr)
    BY <1>4, <1>6, <2>1, RelinkFacts
  <2> QED BY <1>6, <2>2 DEF WithLink, Alike
<1>8. Link(f, addr) = cur /\ addr # prev
  BY <1>1, <1>3, <1>6 DEF Link
<1>9. \A p \in S \cup {NULL} : Link(f, p) = Link(h, p)
  BY <1>3, <1>6 DEF Link
<1>10. Link(g, addr) = cur /\ Link(g, prev) = addr
      /\ \A p \in S \cup {NULL} : p # prev => Link(g, p) = Link(h, p)
  BY <1>1, <1>3, <1>7, <1>8, <1>9
<1>11. Chain(g, S \cup {addr})
  BY <1>1, <1>2, <1>3, <1>7, <1>10, ChainInsert
<1>12. g.block[addr].len = len /\ g.block[addr].used = FALSE
  BY <1>6, <1>7
<1>13. \A x \in D \ {addr} : /\ g.block[x].len = h.block[x].len
                             /\ g.block[x].used = h.block[x].used
  BY <1>6, <1>7
<1> QED BY <1>7, <1>10, <1>11, <1>12, <1>13 DEF prev, cur, WithFree, Alike

\* g is h with the first words of b used, and the rest a free block.
WithSplit(g, h, b, needed) ==
  /\ IsHeap(g) /\ b + needed \notin DOMAIN h.block
  /\ DOMAIN g.block = DOMAIN h.block \cup {b + needed}
  /\ g.block[b].len = needed /\ g.block[b].used = TRUE
  /\ g.block[b + needed].len = h.block[b].len - needed
  /\ g.block[b + needed].used = FALSE
  /\ Alike(g, h, DOMAIN h.block \ {b})

\* g is h with b used.
WithUsed(g, h, b) ==
  /\ IsHeap(g) /\ DOMAIN g.block = DOMAIN h.block
  /\ g.block[b].len = h.block[b].len /\ g.block[b].used = TRUE
  /\ Alike(g, h, DOMAIN h.block \ {b})

\* g is h with c taken in by a.
WithMerger(g, h, a, c) ==
  /\ IsHeap(g) /\ DOMAIN g.block = DOMAIN h.block \ {c}
  /\ g.block[a].len = h.block[a].len + h.block[c].len /\ g.block[a].used = FALSE
  /\ Alike(g, h, DOMAIN h.block \ {a, c})

\* A listed block that is longer than needed is cut in two.
LEMMA SplitFacts ==
  ASSUME NEW h, IsHeap(h), NEW S, Chain(h, S), NEW b \in S, NEW needed \in Nat \ {0},
         NEW top \in HEAP_START .. HEAP_END, Tiles(h, top),
         h.block[b].len >= needed + min_split, NEW g, g = TakeBlock(h, b, needed)
  PROVE  WithSplit(g, h, b, needed) /\ Chain(g, (S \ {b}) \cup {b + needed})
<1> DEFINE D == DOMAIN h.block
           l == h.block[b].len
           x == b + needed
           next == h.block[b].next
           prev == Before(h, b)
           rest == SetHeader(h, x, l - needed, FALSE, next)
           f == Relink(rest, prev, x)
<1>1. /\ S \subseteq D /\ b \in D /\ b \in Address /\ b \in Nat /\ b # NULL /\ l \in Nat
      /\ next \in Address \cup {NULL} /\ min_split \in Nat \ {0} /\ HEAP_END \in Nat
      /\ HEAP_START <= b /\ \A p \in S : p \in Nat /\ p # NULL
      /\ Link(h, b) = next
  BY ChainFacts, HeaderFacts, Constants DEF Link
<1>2. b + l <= top /\ top <= HEAP_END
  BY <1>1, Constants DEF Tiles, End
<1>3. l >= needed + min_split
  OBVIOUS
<1>4. /\ prev \in S \cup {NULL} /\ Link(h, prev) = b /\ prev \in Nat /\ prev < b
  BY <1>1, PreviousFacts, NeighbourFacts
<1>5. g = SetHeader(f, b, needed, TRUE, NULL)
  BY <1>3 DEF TakeBlock
<1> HIDE DEF l, next, prev
<1>6. /\ x \in Nat /\ b < x /\ x < b + l /\ x < HEAP_END /\ l - needed \in 0 .. HEAP_END
      /\ needed \in 0 .. HEAP_END /\ HEAP_START <= x
  <2>1. HEAP_START \in Nat /\ top \in Nat
    BY Constants
  <2> QED BY <1>1, <1>2, <1>3, <2>1
<1>7. x \in Address
  BY <1>6, Constants
<1>8. \A c \in D : c <= b \/ b + l <= c
  BY <1>1, HeaderFacts DEF Tiles, End, l
<1>9. x \notin D
  BY <1>1, <1>6, <1>8
<1>10. next # NULL => x < next
  <2>1. Follows(S, b, next) /\ (next # NULL => next \in S)
    BY <1>1, ChainFacts
  <2>2. next # NULL => b < next /\ next \in D /\ next \in Nat
    BY <1>1, <2>1 DEF Follows
  <2> QED BY <1>1, <1>6, <1>8, <2>2
<1>11. rest = SetHeader(h, x, l - needed, FALSE, next) /\ f = Relink(rest, prev, x)
  OBVIOUS
<1> HIDE DEF x, rest, f
<1>12. /\ IsHeap(rest) /\ rest.head = h.head /\ DOMAIN rest.block = D \cup {x}
       /\ rest.block[x] = [len |-> l - needed, used |-> FALSE, next |-> next]
       /\ \A y \in D \ {x} : rest.block[y] = h.block[y]
  <2>1. next \in Address \cup {NULL} /\ l - needed \in 0 .. HEAP_END
    BY <1>1, <1>6
  <2>2. WithHeader(rest, h, x, [len |-> l - needed, used |-> FALSE, next |-> next])
    BY <1>7, <1>11, <2>1, SetHeaderFacts
  <2> QED BY <2>2 DEF WithHeader
<1>13. /\ IsHeap(f) /\ DOMAIN f.block = D \cup {x}
       /\ \A y \in D \cup {x} : /\ f.block[y].len = rest.block[y].len
                                /\ f.block[y].used = rest.block[y].used
       /\ \A p \in D \cup {x, NULL} : Link(f, p) = IF p = prev THEN x ELSE Link(rest, p)
  <2>1. prev \in DOMAIN rest.block \cup {NULL}
    BY <1>1, <1>4, <1>12
  <2>2. WithLink(f, rest, prev, x)
    BY <1>7, <1>12, <1>11, <2>1, RelinkFacts
  <2> QED BY <1>12, <2>2 DEF WithLink, Alike
<1>14. /\ IsHeap(g) /\ g.head = f.head /\ DOMAIN g.block = D \cup {x}
       /\ g.block[b] = [len |-> needed, used |-> TRUE, next |-> NULL]
       /\ \A y \in (D \cup {x}) \ {b} : g.block[y] = f.block[y]
  <2>1. b \in Address /\ needed \in 0 .. HEAP_END
    BY <1>1, <1>6
  <2>2. WithHeader(g, f, b, [len |-> needed, used |-> TRUE, next |-> NULL])
    BY <1>5, <1>13, <2>1, SetHeaderFacts
  <2>3. (D \cup {x}) \cup {b} = D \cup {x}
    BY <1>1
  <2> QED BY <1>13, <2>2, <2>3 DEF WithHeader
<1>15. \A p \in (D \cup {x, NULL}) \ {b} : Link(g, p) = IF p = prev THEN x ELSE Link(rest, p)
  BY <1>1, <1>13, <1>14 DEF Link
<1>16. /\ x # prev /\ x # b /\ prev # b /\ x # NULL
  BY <1>1, <1>4, <1>6, Constants
<1>17. Link(rest, x) = next /\ \A p \in D \cup {NULL} : Link(rest, p) = Link(h, p)
  BY <1>9, <1>12, <1>16 DEF Link
<1>18. Link(g, prev) = x /\ Link(g, x) = Link(h, b)
       /\ \A p \in (S \ {b}) \cup {NULL} : p # prev => Link(g, p) = Link(h, p)
  BY <1>1, <1>4, <1>15, <1>16, <1>17
<1>19. Chain(g, (S \ {b}) \cup {x})
  <2>1. (S \ {b}) \cup {x} \subseteq DOMAIN g.block
    BY <1>1, <1>14
  <2> QED BY <1>1, <1>4, <1>6, <1>10, <1>18, <2>1, ChainReplace
<1>20. /\ g.block[b].len = needed /\ g.block[b].used = TRUE
       /\ g.block[x].len = l - needed /\ g.block[x].used = FALSE
  BY <1>12, <1>13, <1>14, <1>16
<1>21. \A y \in D \ {b} : /\ g.block[y].len = h.block[y].len /\ g.block[y].used = h.block[y].used
  BY <1>9, <1>12, <1>13, <1>14
<1> QED BY <1>9, <1>14, <1>19, <1>20, <1>21 DEF x, l, WithSplit, Alike

\* One that is hardly longer is taken out as it is.
LEMMA WholeFacts ==
  ASSUME NEW h, IsHeap(h), NEW S, Chain(h, S), NEW b \in S, NEW needed \in Nat,
         NEW top \in HEAP_START .. HEAP_END, Tiles(h, top),
         ~(h.block[b].len >= needed + min_split), NEW g, g = TakeBlock(h, b, needed)
  PROVE  WithUsed(g, h, b) /\ Chain(g, S \ {b})
<1> DEFINE D == DOMAIN h.block
           l == h.block[b].len
           next == h.block[b].next
           prev == Before(h, b)
           f == Relink(h, prev, next)
<1>1. /\ S \subseteq D /\ b \in D /\ b \in Address /\ b \in Nat /\ b # NULL /\ l \in Nat
      /\ next \in Address \cup {NULL} /\ HEAP_END \in Nat
      /\ \A p \in S : p \in Nat /\ p # NULL
      /\ Link(h, b) = next
  BY ChainFacts, HeaderFacts, Constants DEF Link
<1>2. b + l <= top /\ top <= HEAP_END
  BY <1>1, Constants DEF Tiles, End
<1>3. ~(l >= needed + min_split)
  OBVIOUS
<1>4. /\ prev \in S \cup {NULL} /\ Link(h, prev) = b /\ prev \in Nat /\ prev < b
  BY <1>1, PreviousFacts, NeighbourFacts
<1>5. g = SetHeader(f, b, l, TRUE, NULL)
  BY <1>3 DEF TakeBlock
<1> HIDE DEF l, next, prev
<1>6. l \in 0 .. HEAP_END
  BY <1>1, <1>2, Constants
<1>7. /\ IsHeap(f) /\ DOMAIN f.block = D
      /\ \A y \in D : /\ f.block[y].len = h.block[y].len /\ f.block[y].used = h.block[y].used
      /\ \A p \in D \cup {NULL} : Link(f, p) = IF p = prev THEN next ELSE Link(h, p)
  <2>1. prev \in DOMAIN h.block \cup {NULL}
    BY <1>1, <1>4
  <2>2. WithLink(f, h, prev, next)
    BY <1>1, <2>1, RelinkFacts
  <2> QED BY <2>2 DEF WithLink, Alike
<1> HIDE DEF f
<1>8. /\ IsHeap(g) /\ g.head = f.head /\ DOMAIN g.block = D
      /\ g.block[b] = [len |-> l, used |-> TRUE, next |-> NULL]
      /\ \A y \in D \ {b} : g.block[y] = f.block[y]
  <2>1. b \in Address
    BY <1>1
  <2>2. D \cup {b} = D
    BY <1>1
  <2>3. WithHeader(g, f, b, [len |-> l, used |-> TRUE, next |-> NULL])
    BY <1>5, <1>6, <1>7, <2>1, SetHeaderFacts
  <2> QED BY <1>7, <2>2, <2>3 DEF WithHeader
<1>9. \A p \in (D \cup {NULL}) \ {b} : Link(g, p) = IF p = prev THEN next ELSE Link(h, p)
  BY <1>1, <1>7, <1>8 DEF Link
<1>10. prev # b
  BY <1>4
<1>11. Link(g, prev) = Link(h, b)
       /\ \A p \in (S \ {b}) \cup {NULL} : p # prev => Link(g, p) = Link(h, p)
  BY <1>1, <1>4, <1>9, <1>10
<1>12. Chain(g, S \ {b})
  <2>1. S \ {b} \subseteq DOMAIN g.block
    BY <1>1, <1>8
  <2>2. prev \in S \cup {NULL} /\ Link(h, prev) = b
    BY <1>4
  <2>3. Link(g, prev) = Link(h, b)
    BY <1>11
  <2> QED BY <1>11, <2>1, <2>2, <2>3, ChainRemove
<1>13. g.block[b].len = l /\ g.block[b].used = TRUE
  BY <1>8
<1>14. \A y \in D \ {b} : /\ g.block[y].len = h.block[y].len /\ g.block[y].used = h.block[y].used
  BY <1>7, <1>8
<1> QED BY <1>8, <1>12, <1>13, <1>14 DEF l, WithUsed, Alike

\* A listed block takes in the next one, where it ends.
LEMMA AbsorbFacts ==
  ASSUME NEW h, IsHeap(h), NEW S, Chain(h, S), NEW a \in S, NEW c, c = Link(h, a), c # NULL,
         NEW top \in HEAP_START .. HEAP_END, Tiles(h, top), End(h, a) = c,
         NEW g, g = Absorb(h, a, c)
  PROVE  /\ c \in S /\ c \in Nat /\ a < c
         /\ WithMerger(g, h, a, c) /\ Chain(g, S \ {c})
         /\ \A p \in (S \ {c}) \cup {NULL} : p # a => Link(g, p) = Link(h, p)
<1> DEFINE D == DOMAIN h.block
           l == h.block[a].len
           m == h.block[c].len
           next == h.block[c].next
           f == SetHeader(h, a, l + m, FALSE, next)
<1>1. c \in S /\ a < c
  <2>1. Follows(S, a, c)
    BY ChainFacts
  <2> QED BY <2>1 DEF Follows
<1>2. /\ S \subseteq D /\ a \in D /\ c \in D /\ a \in Address /\ c \in Nat /\ a \in Nat
      /\ l \in Nat /\ m \in Nat /\ next \in Address \cup {NULL} /\ HEAP_END \in Nat
      /\ a # NULL /\ \A p \in S : p # NULL
      /\ Link(h, c) = next /\ Link(h, a) = c
  BY <1>1, ChainFacts, HeaderFacts, Constants DEF Link
<1>3. a + l = c /\ c + m <= top /\ top <= HEAP_END
  BY <1>2, Constants DEF Tiles, End
<1>4. g = Forget(f, {c})
  BY DEF Absorb
<1>5. a # c
  BY <1>1, <1>2
<1> HIDE DEF l, m, next
<1>6. l + m \in 0 .. HEAP_END
  BY <1>2, <1>3, Constants
<1>7. f = SetHeader(h, a, l + m, FALSE, next) /\ next \in Address \cup {NULL} /\ a \in Address
  BY <1>2
<1> HIDE DEF f
<1>8. /\ IsHeap(f) /\ f.head = h.head /\ DOMAIN f.block = D
      /\ f.block[a] = [len |-> l + m, used |-> FALSE, next |-> next]
      /\ \A x \in D \ {a} : f.block[x] = h.block[x]
  <2>1. D \cup {a} = D
    BY <1>2
  <2>2. WithHeader(f, h, a, [len |-> l + m, used |-> FALSE, next |-> next])
    BY <1>6, <1>7, SetHeaderFacts
  <2> QED BY <2>1, <2>2 DEF WithHeader
<1>9. /\ IsHeap(g) /\ g.head = f.head /\ DOMAIN g.block = D \ {c}
      /\ \A x \in D \ {c} : g.block[x] = f.block[x]
  BY <1>4, <1>8, ForgetFacts
<1>10. Link(g, a) = Link(h, c) /\ \A p \in (S \ {c}) \cup {NULL} : p # a => Link(g, p) = Link(h, p)
  BY <1>2, <1>5, <1>8, <1>9 DEF Link
<1>11. Chain(g, S \ {c})
  <2>1. S \ {c} \subseteq DOMAIN g.block
    BY <1>2, <1>9
  <2> QED BY <1>1, <1>2, <1>10, <2>1, ChainRemove
<1>12. g.block[a].len = l + m /\ g.block[a].used = FALSE
  BY <1>2, <1>5, <1>8, <1>9
<1>13. \A x \in D \ {a, c} : /\ g.block[x].len = h.block[x].len /\ g.block[x].used = h.block[x].used
  BY <1>8, <1>9
<1> QED BY <1>1, <1>2, <1>9, <1>10, <1>11, <1>12, <1>13 DEF l, m, WithMerger, Alike

-----------------------------------------------------------------------------
(* Growth                                                                  *)

Fresh(base, k) == {base + i * PAGE_SIZE : i \in 0 .. k - 1}

\* g is h with k pages more, from base on.
Grown(g, h, S, base, k) ==
  /\ Good(g, S \cup Fresh(base, k), base + k * PAGE_SIZE)
  /\ Merged(g)
  /\ DOMAIN g.block = DOMAIN h.block \cup Fresh(base, k)
  /\ Alike(g, h, DOMAIN h.block)
  /\ \A x \in Fresh(base, k) : g.block[x].len = PAGE_SIZE /\ g.block[x].used = FALSE

LEMMA TileFacts ==
  ASSUME NEW h, IsHeap(h), NEW top \in HEAP_START .. HEAP_END, Tiles(h, top)
  PROVE  /\ \A a \in DOMAIN h.block : /\ a \in Nat /\ HEAP_START <= a /\ h.block[a].len \in Nat
                                      /\ h.block[a].len >= min_split
                                      /\ End(h, a) = a + h.block[a].len /\ End(h, a) \in Nat
                                      /\ a < End(h, a) /\ End(h, a) <= top
         /\ \A a, c \in DOMAIN h.block : a < c => End(h, a) <= c
         /\ top \notin DOMAIN h.block
<1>1. \A a \in DOMAIN h.block : /\ a \in Nat /\ HEAP_START <= a /\ h.block[a].len \in Nat
                                /\ h.block[a].len >= min_split
                                /\ End(h, a) = a + h.block[a].len /\ End(h, a) \in Nat
                                /\ End(h, a) <= top
  BY HeaderFacts DEF Tiles, End
<1>2. \A a \in DOMAIN h.block : a < End(h, a)
  BY <1>1, Constants
<1>3. top \in Nat
  BY Constants
<1>4. top \notin DOMAIN h.block
  BY <1>1, <1>2, <1>3
<1> QED BY <1>1, <1>2, <1>4 DEF Tiles

\* A page is put at the end.
LEMMA GrowFacts ==
  ASSUME NEW h, NEW S, NEW top \in HEAP_START .. HEAP_END, Good(h, S, top),
         Merged(h), Boundary(top), top + PAGE_SIZE <= HEAP_END,
         NEW g, g = add_block(h, top, PAGE_SIZE)
  PROVE  /\ Good(g, S \cup {top}, top + PAGE_SIZE) /\ Merged(g)
         /\ top \notin DOMAIN h.block /\ DOMAIN g.block = DOMAIN h.block \cup {top}
         /\ Alike(g, h, DOMAIN h.block)
         /\ g.block[top].len = PAGE_SIZE /\ g.block[top].used = FALSE
<1> DEFINE D == DOMAIN h.block
           z == top + PAGE_SIZE
<1>1. /\ PAGE_SIZE \in Nat \ {0} /\ HEAP_START \in Nat /\ HEAP_END \in Nat /\ top \in Nat
      /\ PAGE_SIZE > min_split /\ min_split \in Nat
  BY Constants
<1>2. IsHeap(h) /\ Chain(h, S) /\ Tiles(h, top) /\ FreeListed(h, S) /\ S \subseteq D
  BY DEF Good, Chain
<1>3. /\ \A a \in D : /\ a \in Nat /\ HEAP_START <= a /\ h.block[a].len \in Nat
                      /\ h.block[a].len >= min_split
                      /\ End(h, a) = a + h.block[a].len /\ End(h, a) \in Nat
                      /\ a < End(h, a) /\ End(h, a) <= top
      /\ \A a, c \in D : a < c => End(h, a) <= c
      /\ top \notin D
  BY <1>2, TileFacts
<1>4. top \in Address /\ PAGE_SIZE \in 0 .. HEAP_END /\ top < z /\ z \in Nat /\ top \notin S
  BY <1>1, <1>2, <1>3, Constants
<1>5. /\ IsHeap(g) /\ Chain(g, S \cup {top}) /\ DOMAIN g.block = D \cup {top}
      /\ g.block[top].len = PAGE_SIZE /\ g.block[top].used = FALSE
      /\ Alike(g, h, D)
  <2>1. D \ {top} = D
    BY <1>3
  <2>2. WithFree(g, h, top, PAGE_SIZE) /\ Chain(g, S \cup {top})
    BY <1>2, <1>4, AddBlockFacts
  <2> QED BY <2>1, <2>2 DEF WithFree
<1> HIDE DEF z
<1>6. End(g, top) = z /\ \A a \in D : End(g, a) = End(h, a) /\ g.block[a].used = h.block[a].used
                                      /\ g.block[a].len = h.block[a].len
  BY <1>5 DEF End, Alike, z
<1>7. Tiles(g, z)
  <2>1. ASSUME NEW a \in D \cup {top} PROVE g.block[a].len >= min_split /\ End(g, a) <= z
    <3>1. CASE a = top BY <1>1, <1>4, <1>5, <1>6, <3>1
    <3>2. CASE a # top BY <1>1, <1>3, <1>4, <1>6, <3>2
    <3> QED BY <3>1, <3>2
  <2>2. ASSUME NEW a \in D \cup {top}, NEW c \in D \cup {top}, a < c PROVE End(g, a) <= c
    <3>1. CASE a = top
      <4>1. c \in D /\ c < top
        BY <1>1, <1>3, <2>2, <3>1
      <4> QED BY <1>1, <1>3, <2>2, <3>1, <4>1
    <3>2. CASE a # top BY <1>3, <1>6, <2>2, <3>2
    <3> QED BY <3>1, <3>2
  <2>3. ASSUME NEW w \in HEAP_START .. z - 1
        PROVE  \E a \in D \cup {top} : a <= w /\ w < End(g, a)
    <3>1. CASE w < top
      <4>1. w \in HEAP_START .. top - 1
        BY <1>1, <3>1
      <4>2. PICK a \in D : a <= w /\ w < End(h, a)
        BY <1>2, <4>1 DEF Tiles
      <4> QED BY <1>6, <4>2
    <3>2. CASE ~(w < top)
      <4>1. top <= w /\ w < z
        BY <1>1, <1>4, <3>2
      <4> QED BY <1>6, <4>1
    <3> QED BY <3>1, <3>2
  <2> QED BY <1>5, <2>1, <2>2, <2>3 DEF Tiles
<1>8. FreeListed(g, S \cup {top})
  <2> SUFFICES ASSUME NEW a \in D \cup {top}
               PROVE  IF g.block[a].used
                      THEN a \in S \cup {top} => g.block[a].len >= 2 * PAGE_SIZE
                      ELSE a \in S \cup {top}
    BY <1>5 DEF FreeListed
  <2>1. CASE a = top BY <1>5, <2>1
  <2>2. CASE a # top
    <3>1. IF h.block[a].used THEN a \in S => h.block[a].len >= 2 * PAGE_SIZE ELSE a \in S
      BY <1>2, <2>2 DEF FreeListed
    <3> QED BY <1>6, <2>2, <3>1
  <2> QED BY <2>1, <2>2
<1>9. Merged(g)
  <2> SUFFICES ASSUME NEW x \in D \cup {top}, NEW y \in D \cup {top}, FreePair(g, x, y)
               PROVE  Boundary(y)
    BY <1>5 DEF Merged
  <2>1. End(g, x) = y /\ ~g.block[x].used /\ ~g.block[y].used
    BY DEF FreePair
  <2>2. CASE y = top BY <2>2
  <2>3. CASE y # top /\ x = top
    BY <1>1, <1>3, <1>4, <1>6, <2>1, <2>3
  <2>4. CASE y # top /\ x # top
    <3>1. FreePair(h, x, y)
      BY <1>6, <2>1, <2>4 DEF FreePair
    <3> QED BY <2>4, <3>1 DEF Merged
  <2> QED BY <2>2, <2>3, <2>4
<1>10. Good(g, S \cup {top}, z)
  BY <1>5, <1>7, <1>8 DEF Good
<1> QED BY <1>3, <1>5, <1>9, <1>10 DEF z

\* The ends of pages, and what is left from one of them on.
LEMMA BoundaryFacts ==
  ASSUME NEW base, Boundary(base)
  PROVE  /\ base \in HEAP_START .. HEAP_END /\ base \in Nat
         /\ (HEAP_END - base) \div PAGE_SIZE \in Nat
         /\ base + ((HEAP_END - base) \div PAGE_SIZE) * PAGE_SIZE = HEAP_END
         /\ \A k \in Nat : base + k * PAGE_SIZE <= HEAP_END =>
              Boundary(base + k * PAGE_SIZE) /\ k <= (HEAP_END - base) \div PAGE_SIZE
<1>1. PICK j \in 0 .. HEAP_PAGES : base = HEAP_START + PAGE_SIZE * j
  BY DEF Boundary
<1> DEFINE p == PAGE_SIZE
           n == HEAP_PAGES - j
           left == (HEAP_END - base) \div p
<1>2. /\ p \in Nat \ {0} /\ HEAP_PAGES \in Nat /\ HEAP_START \in Nat /\ j \in Nat
      /\ HEAP_END = HEAP_START + p * HEAP_PAGES /\ n \in Nat
  BY Constants
<1> HIDE DEF p
<1>3. /\ p * j \in Nat /\ p * n \in Nat /\ p * HEAP_PAGES = p * j + p * n
  <2> DEFINE m == n
  <2>1. HEAP_PAGES = j + m /\ m \in Nat
    BY <1>2
  <2> HIDE DEF n
  <2> QED BY <1>2, <2>1
<1>4. base = HEAP_START + p * j
  BY <1>1 DEF p
<1> HIDE DEF n
<1>5. base \in Nat /\ HEAP_END \in Nat /\ HEAP_END - base = p * n /\ HEAP_START <= base
      /\ base <= HEAP_END
  BY <1>2, <1>3, <1>4
<1>6. left = n
  BY <1>2, <1>3, <1>5, Quotient
<1>7. n * p = p * n
  BY <1>2
<1>8. ASSUME NEW k \in Nat, base + k * p <= HEAP_END
      PROVE  Boundary(base + k * p) /\ k <= n
  <2>1. k * p = p * k /\ p * k \in Nat
    BY <1>2
  <2>2. p * k <= p * n
    BY <1>2, <1>3, <1>5, <1>8, <2>1
  <2>3. k <= n
    BY <1>2, <2>2, Multiples
  <2>4. j + k \in 0 .. HEAP_PAGES
    BY <1>2, <2>3 DEF n
  <2>5. base + k * p = HEAP_START + p * (j + k)
    BY <1>2, <1>4, <2>1
  <2> QED BY <2>3, <2>4, <2>5 DEF Boundary, p
<1> HIDE DEF left
<1> QED BY <1>2, <1>3, <1>5, <1>6, <1>7, <1>8 DEF left, p

LEMMA GrownNothing ==
  ASSUME NEW h, NEW S, NEW base \in Nat, Good(h, S, base), Merged(h)
  PROVE  Grown(h, h, S, base, 0)
<1>1. Fresh(base, 0) = {}
  BY DEF Fresh
<1>2. base + 0 * PAGE_SIZE = base
  BY Constants
<1>3. S \cup {} = S /\ DOMAIN h.block \cup {} = DOMAIN h.block
  OBVIOUS
<1> QED BY <1>1, <1>2, <1>3 DEF Grown, Alike

LEMMA GrownMore ==
  ASSUME NEW h, NEW S, NEW base, Boundary(base), NEW k \in Nat, NEW f,
         base + (k + 1) * PAGE_SIZE <= HEAP_END, Grown(f, h, S, base, k),
         NEW g, g = add_block(f, base + k * PAGE_SIZE, PAGE_SIZE)
  PROVE  Grown(g, h, S, base, k + 1)
<1> DEFINE top == base + k * PAGE_SIZE
           T == S \cup Fresh(base, k)
           D == DOMAIN h.block
<1>1. base \in Nat /\ PAGE_SIZE \in Nat \ {0} /\ base \in HEAP_START .. HEAP_END
  BY BoundaryFacts, Constants
<1>2. /\ k * PAGE_SIZE \in Nat /\ (k + 1) * PAGE_SIZE = k * PAGE_SIZE + PAGE_SIZE
      /\ top + PAGE_SIZE = base + (k + 1) * PAGE_SIZE
  BY <1>1
<1>3. top \in HEAP_START .. HEAP_END /\ top + PAGE_SIZE <= HEAP_END
  BY <1>1, <1>2, Constants
<1>4. Boundary(top)
  BY <1>3, BoundaryFacts
<1>5. /\ Good(f, T, top) /\ Merged(f) /\ DOMAIN f.block = D \cup Fresh(base, k)
      /\ Alike(f, h, D)
      /\ \A x \in Fresh(base, k) : f.block[x].len = PAGE_SIZE /\ f.block[x].used = FALSE
  BY DEF Grown
<1>6. Fresh(base, k + 1) = Fresh(base, k) \cup {top}
  <2>1. 0 .. (k + 1) - 1 = (0 .. k - 1) \cup {k}
    OBVIOUS
  <2> QED BY <2>1 DEF Fresh
<1> HIDE DEF top
<1>7. g = add_block(f, top, PAGE_SIZE)
  BY DEF top
<1>8. /\ Good(g, T \cup {top}, top + PAGE_SIZE) /\ Merged(g)
      /\ top \notin DOMAIN f.block /\ DOMAIN g.block = DOMAIN f.block \cup {top}
      /\ Alike(g, f, DOMAIN f.block)
      /\ g.block[top].len = PAGE_SIZE /\ g.block[top].used = FALSE
  <2> HIDE DEF T
  <2> QED BY <1>3, <1>4, <1>5, <1>7, GrowFacts
<1>9. T \cup {top} = S \cup Fresh(base, k + 1)
      /\ DOMAIN g.block = D \cup Fresh(base, k + 1)
  BY <1>5, <1>6, <1>8
<1>10. Good(g, S \cup Fresh(base, k + 1), base + (k + 1) * PAGE_SIZE)
  BY <1>2, <1>8, <1>9
<1>11. Alike(g, h, D)
  BY <1>5, <1>8 DEF Alike
<1>12. \A x \in Fresh(base, k + 1) : g.block[x].len = PAGE_SIZE /\ g.block[x].used = FALSE
  BY <1>5, <1>6, <1>8 DEF Alike
<1> QED BY <1>8, <1>9, <1>10, <1>11, <1>12 DEF Grown

\* What grows page by page from h has grown.
LEMMA GrownAlong ==
  ASSUME NEW h, NEW S, NEW base, Good(h, S, base), Merged(h), Boundary(base),
         NEW n \in Nat, base + n * PAGE_SIZE <= HEAP_END,
         NEW f, f[0] = h,
         \A k \in 1 .. n : Grown(f[k - 1], h, S, base, k - 1) =>
           f[k] = add_block(f[k - 1], base + (k - 1) * PAGE_SIZE, PAGE_SIZE)
  PROVE  \A k \in 0 .. n : Grown(f[k], h, S, base, k)
<1> DEFINE T == {k \in Nat : k <= n => Grown(f[k], h, S, base, k)}
<1>1. base \in Nat /\ PAGE_SIZE \in Nat \ {0}
  BY BoundaryFacts, Constants
<1>2. 0 \in T
  BY <1>1, GrownNothing
<1>3. ASSUME NEW k \in Nat, k \in T PROVE k + 1 \in T
  <2> SUFFICES ASSUME k + 1 <= n PROVE Grown(f[k + 1], h, S, base, k + 1)
    OBVIOUS
  <2>1. k <= n /\ k + 1 \in 1 .. n /\ (k + 1) - 1 = k
    OBVIOUS
  <2>2. Grown(f[k], h, S, base, k)
    BY <1>3, <2>1
  <2>3. f[k + 1] = add_block(f[k], base + k * PAGE_SIZE, PAGE_SIZE)
    BY <2>1, <2>2
  <2>4. base + (k + 1) * PAGE_SIZE <= HEAP_END
    <3> DEFINE p == PAGE_SIZE
    <3>1. p * (k + 1) <= p * n
      BY <1>1, <2>1, Multiples
    <3>2. p * (k + 1) = (k + 1) * p /\ p * n = n * p /\ (k + 1) * p \in Nat /\ n * p \in Nat
      BY <1>1
    <3>3. base + n * p <= HEAP_END /\ HEAP_END \in Nat
      BY Constants
    <3> HIDE DEF p
    <3>4. base + (k + 1) * p <= HEAP_END
      BY <1>1, <3>1, <3>2, <3>3
    <3> QED BY <3>4 DEF p
  <2> QED BY <2>2, <2>3, <2>4, GrownMore
<1>4. \A k \in Nat : k \in T
  <2> HIDE DEF T
  <2> QED BY <1>2, <1>3, Induction
<1> QED BY <1>4

LEMMA HeapGrowFacts ==
  ASSUME NEW h, NEW S, NEW base, Good(h, S, base), Merged(h), Boundary(base),
         NEW n \in Nat, base + n * PAGE_SIZE <= HEAP_END
  PROVE  Grown(heap_grow(h, base, n), h, S, base, n)
<1> DEFINE Heaps == [head : Address \cup {NULL},
                     block : UNION {[D -> Header] : D \in SUBSET Address}]
           more(k, f) == add_block(f, base + (k - 1) * PAGE_SIZE, PAGE_SIZE)
           step == [k \in 1 .. n |-> [f \in Heaps |-> IF more(k, f) \in Heaps THEN more(k, f) ELSE f]]
           Grows(f) == f = [i \in 0 .. n |-> IF i = 0 THEN h
                              ELSE add_block(f[i - 1], base + (i - 1) * PAGE_SIZE, PAGE_SIZE)]
           grown == CHOOSE f : Grows(f)
<1>1. \A f : IsHeap(f) => f \in Heaps
  <2> SUFFICES ASSUME NEW f, IsHeap(f) PROVE f \in Heaps
    OBVIOUS
  <2> DEFINE block == f.block D == DOMAIN block
  <2>1. /\ f = [head |-> f.head, block |-> block] /\ f.head \in Address \cup {NULL}
        /\ D \in SUBSET Address /\ block \in [D -> Header]
    BY DEF IsHeap
  <2> HIDE DEF block, D
  <2>2. block \in UNION {[C -> Header] : C \in SUBSET Address}
    BY <2>1
  <2> QED BY <2>1, <2>2
<1> HIDE DEF Heaps
<1>2. \E f : Grows(f)
  <2>1. step \in [1 .. n -> [Heaps -> Heaps]]
    OBVIOUS
  <2>2. h \in Heaps
    BY <1>1 DEF Good
  <2> HIDE DEF step
  <2>3. PICK f \in [0 .. n -> Heaps] : Iterates(f, n, h, step)
    BY <2>1, <2>2, Recursion
  <2>4. f[0] = h /\ \A k \in 1 .. n : f[k] = step[k][f[k - 1]]
    <3>1. \A k \in 0 .. n : f[k] = IF k = 0 THEN h ELSE step[k][f[k - 1]]
      BY <2>3 DEF Iterates
    <3> QED BY <3>1
  <2>5. ASSUME NEW k \in 1 .. n, Grown(f[k - 1], h, S, base, k - 1)
        PROVE  f[k] = more(k, f[k - 1])
    <3>1. k - 1 \in 0 .. n /\ k - 1 \in Nat /\ (k - 1) + 1 = k
      OBVIOUS
    <3>2. base + k * PAGE_SIZE <= HEAP_END
      <4> DEFINE p == PAGE_SIZE
      <4>1. base \in Nat /\ p \in Nat \ {0}
        BY BoundaryFacts, Constants
      <4>2. p * k <= p * n
        BY <4>1, Multiples
      <4>3. p * k = k * p /\ p * n = n * p /\ k * p \in Nat /\ n * p \in Nat
        BY <4>1
      <4>4. base + n * p <= HEAP_END /\ HEAP_END \in Nat
        BY Constants
      <4> HIDE DEF p
      <4>5. base + k * p <= HEAP_END
        BY <4>1, <4>2, <4>3, <4>4
      <4> QED BY <4>5 DEF p
    <3>3. Grown(more(k, f[k - 1]), h, S, base, k)
      <4> DEFINE j == k - 1 g == more(k, f[k - 1])
      <4>1. /\ j \in Nat /\ k = j + 1 /\ Grown(f[j], h, S, base, j)
            /\ g = add_block(f[j], base + j * PAGE_SIZE, PAGE_SIZE)
        BY <2>5, <3>1
      <4> HIDE DEF j, g
      <4>2. Grown(g, h, S, base, j + 1)
        BY <3>2, <4>1, GrownMore
      <4> QED BY <4>1, <4>2 DEF g
    <3>4. more(k, f[k - 1]) \in Heaps
      BY <1>1, <3>3 DEF Grown, Good
    <3>5. f[k - 1] \in Heaps
      BY <2>3, <3>1
    <3> QED BY <2>4, <3>4, <3>5 DEF step
  <2>6. \A k \in 0 .. n : Grown(f[k], h, S, base, k)
    BY <2>4, <2>5, GrownAlong
  <2>7. ASSUME NEW k \in 0 .. n
        PROVE  f[k] = IF k = 0 THEN h ELSE more(k, f[k - 1])
    <3>1. CASE k # 0
      <4>1. k \in 1 .. n /\ k - 1 \in 0 .. n
        BY <3>1
      <4> QED BY <2>5, <2>6, <3>1, <4>1
    <3> QED BY <2>4, <3>1
  <2>8. Grows(f)
    <3>1. f = [k \in 0 .. n |-> f[k]]
      BY <2>3
    <3> QED BY <2>7, <3>1
  <2> QED BY <2>8
<1>3. Grows(grown)
  <2> HIDE DEF Grows
  <2> QED BY <1>2
<1>4. heap_grow(h, base, n) = grown[n]
  BY DEF heap_grow
<1> HIDE DEF grown
<1>5. grown[0] = h /\ \A k \in 1 .. n : grown[k] = more(k, grown[k - 1])
  <2>1. \A k \in 0 .. n : grown[k] = IF k = 0 THEN h ELSE more(k, grown[k - 1])
    BY <1>3
  <2> HIDE DEF more
  <2> QED BY <2>1
<1>6. \A k \in 0 .. n : Grown(grown[k], h, S, base, k)
  BY <1>5, GrownAlong
<1> QED BY <1>4, <1>6

-----------------------------------------------------------------------------
(* What is taken, and what is given back                                   *)

\* b is a used block of g, whose other used blocks are those of h.
AlsoHeld(g, h, b) == Held(g) = Held(h) \cup {[at |-> b, size |-> g.block[b].len]}

LEMMA HeldAlso ==
  ASSUME NEW g, NEW h, NEW b \in DOMAIN g.block, NEW N,
         DOMAIN g.block = DOMAIN h.block \cup N, g.block[b].used = TRUE,
         \A x \in N \ {b} : g.block[x].used = FALSE,
         \A x \in (DOMAIN h.block \cup {b}) \ N : x # b =>
            g.block[x].len = h.block[x].len /\ g.block[x].used = h.block[x].used,
         N \cap DOMAIN h.block = {},
         b \in DOMAIN h.block => h.block[b].used = FALSE
  PROVE  AlsoHeld(g, h, b)
<1> DEFINE row(a, l) == [at |-> a, size |-> l]
<1>1. ASSUME NEW a \in DOMAIN g.block, g.block[a].used
      PROVE  row(a, g.block[a].len) \in Held(h) \cup {row(b, g.block[b].len)}
  <2>1. CASE a = b BY <2>1
  <2>2. CASE a # b
    <3>1. a \in DOMAIN h.block /\ a \notin N
      BY <1>1, <2>2
    <3>2. g.block[a].len = h.block[a].len /\ h.block[a].used
      BY <1>1, <2>2, <3>1
    <3> QED BY <3>1, <3>2 DEF Held
  <2> QED BY <2>1, <2>2
<1>2. ASSUME NEW a \in DOMAIN h.block, h.block[a].used
      PROVE  row(a, h.block[a].len) \in Held(g)
  <2>1. a # b /\ a \notin N
    BY <1>2
  <2>2. a \in DOMAIN g.block /\ g.block[a].len = h.block[a].len /\ g.block[a].used
    BY <1>2, <2>1
  <2> QED BY <2>2 DEF Held
<1>3. row(b, g.block[b].len) \in Held(g)
  BY DEF Held
<1>4. Held(g) \subseteq Held(h) \cup {row(b, g.block[b].len)}
  BY <1>1 DEF Held
<1>5. Held(h) \subseteq Held(g)
  BY <1>2 DEF Held
<1> QED BY <1>3, <1>4, <1>5 DEF AlsoHeld

\* b, of needed words and hardly more, was free or not there, and is used.
Taken(g, h, b, needed) ==
  /\ AlsoHeld(g, h, b)
  /\ b \in DOMAIN g.block /\ g.block[b].used = TRUE
  /\ g.block[b].len \in needed .. needed + HEADER
  /\ \A c \in Held(h) : c.at # b

LEMMA NotHeld ==
  ASSUME NEW h, NEW b, b \in DOMAIN h.block => ~h.block[b].used
  PROVE  \A c \in Held(h) : c.at # b
BY DEF Held

\* A free block is taken, whole or its first words.
LEMMA TakeFacts ==
  ASSUME NEW h, NEW S, NEW top \in HEAP_START .. HEAP_END, Good(h, S, top), Merged(h),
         NEW b \in S, ~h.block[b].used, NEW needed \in Nat, needed >= min_split,
         h.block[b].len >= needed, Boundary(top), NEW g, g = TakeBlock(h, b, needed)
  PROVE  Sound(g, top) /\ Taken(g, h, b, needed)
<1> DEFINE D == DOMAIN h.block
           l == h.block[b].len
<1>1. IsHeap(h) /\ Chain(h, S) /\ Tiles(h, top) /\ FreeListed(h, S) /\ S \subseteq D /\ b \in D
  BY DEF Good, Chain
<1>2. /\ \A a \in D : /\ a \in Nat /\ HEAP_START <= a /\ h.block[a].len \in Nat
                      /\ h.block[a].len >= min_split
                      /\ End(h, a) = a + h.block[a].len /\ End(h, a) \in Nat
                      /\ a < End(h, a) /\ End(h, a) <= top
      /\ \A a, c \in D : a < c => End(h, a) <= c
      /\ top \notin D
  BY <1>1, TileFacts
<1>3. /\ min_split \in Nat \ {0} /\ min_split = HEADER + 1 /\ HEADER \in Nat
      /\ top \in Nat /\ HEAP_START \in Nat /\ needed \in Nat \ {0} /\ l \in Nat /\ l >= needed
  BY <1>1, <1>2, Constants
<1>4. h.block[b].used = FALSE /\ \A c \in Held(h) : c.at # b
  BY <1>1, HeaderFacts, NotHeld
<1>5. CASE l >= needed + min_split
  <2> DEFINE x == b + needed
             T == (S \ {b}) \cup {x}
  <2>1. /\ IsHeap(g) /\ Chain(g, T) /\ x \notin D /\ DOMAIN g.block = D \cup {x}
        /\ g.block[b].len = needed /\ g.block[b].used = TRUE
        /\ g.block[x].len = l - needed /\ g.block[x].used = FALSE
        /\ Alike(g, h, D \ {b})
    <3>1. WithSplit(g, h, b, needed) /\ Chain(g, T)
      BY <1>1, <1>3, <1>5, SplitFacts
    <3> QED BY <3>1 DEF WithSplit
  <2>2. x \in Nat /\ b < x /\ x + (l - needed) = b + l /\ l - needed \in Nat
        /\ l - needed >= min_split /\ b \in Nat /\ End(h, b) = b + l /\ b + l <= top
        /\ b + l \in Nat /\ x < b + l
    BY <1>1, <1>2, <1>3, <1>5
  <2> HIDE DEF l
  <2>3. End(g, b) = x /\ End(g, x) = End(h, b)
        /\ \A a \in D \ {b} : End(g, a) = End(h, a) /\ g.block[a].len = h.block[a].len
                              /\ g.block[a].used = h.block[a].used
    BY <2>1, <2>2 DEF End, Alike
  <2> HIDE DEF x, T
  <2>4. Tiles(g, top)
    <3>1. ASSUME NEW a \in D \cup {x} PROVE g.block[a].len >= min_split /\ End(g, a) <= top
      <4>1. CASE a = x BY <2>1, <2>2, <2>3, <4>1
      <4>2. CASE a = b
        <5>1. b # x
          BY <2>2
        <5> QED BY <1>3, <2>1, <2>2, <2>3, <4>2, <5>1
      <4>3. CASE a # x /\ a # b BY <1>2, <2>3, <4>3
      <4> QED BY <4>1, <4>2, <4>3
    <3>2. ASSUME NEW a \in D \cup {x}, NEW c \in D \cup {x}, a < c PROVE End(g, a) <= c
      <4>1. \A y \in D : y < x => y <= b
        BY <1>1, <1>2, <2>2
      <4>2. CASE a = x
        <5>1. c \in D /\ b < c
          BY <1>2, <2>2, <3>2, <4>2
        <5> QED BY <1>1, <1>2, <2>3, <4>2, <5>1
      <4>3. CASE a = b
        <5>1. b # x /\ (c = x \/ x <= c)
          BY <1>2, <2>2, <3>2, <4>1, <4>3
        <5> QED BY <2>2, <2>3, <4>3, <5>1
      <4>4. CASE a # x /\ a # b
        <5>1. CASE c = x
          <6>1. a < b
            BY <1>2, <2>2, <3>2, <4>1, <4>4, <5>1
          <6>2. End(h, a) <= b
            BY <1>1, <1>2, <4>4, <6>1
          <6> QED BY <1>2, <2>2, <2>3, <4>4, <5>1, <6>2
        <5>2. CASE c # x BY <1>2, <2>3, <3>2, <4>4, <5>2
        <5> QED BY <5>1, <5>2
      <4> QED BY <4>2, <4>3, <4>4
    <3>3. ASSUME NEW w \in HEAP_START .. top - 1
          PROVE  \E a \in D \cup {x} : a <= w /\ w < End(g, a)
      <4>1. PICK a \in D : a <= w /\ w < End(h, a)
        BY <1>1 DEF Tiles
      <4>2. CASE a # b BY <2>3, <4>1, <4>2
      <4>3. CASE a = b
        <5>1. w \in Int
          OBVIOUS
        <5>2. CASE w < x BY <2>3, <4>1, <4>3, <5>2
        <5>3. CASE ~(w < x) BY <2>2, <2>3, <4>1, <4>3, <5>1, <5>3
        <5> QED BY <5>2, <5>3
      <4> QED BY <4>2, <4>3
    <3> QED BY <2>1, <3>1, <3>2, <3>3 DEF Tiles
  <2>5. FreeListed(g, T)
    <3> SUFFICES ASSUME NEW a \in D \cup {x}
                 PROVE  IF g.block[a].used THEN a \in T => g.block[a].len >= 2 * PAGE_SIZE
                        ELSE a \in T
      BY <2>1 DEF FreeListed
    <3>1. b # x
      BY <2>2
    <3>2. CASE a = x BY <2>1, <3>2 DEF T
    <3>3. CASE a = b BY <2>1, <3>1, <3>3 DEF T
    <3>4. CASE a # x /\ a # b
      <4>1. IF h.block[a].used THEN a \in S => h.block[a].len >= 2 * PAGE_SIZE ELSE a \in S
        BY <1>1, <3>4 DEF FreeListed
      <4> QED BY <2>3, <3>4, <4>1 DEF T
    <3> QED BY <3>2, <3>3, <3>4
  <2>6. Merged(g)
    <3> SUFFICES ASSUME NEW p \in D \cup {x}, NEW q \in D \cup {x}, FreePair(g, p, q)
                 PROVE  Boundary(q)
      BY <2>1 DEF Merged
    <3>1. End(g, p) = q /\ ~g.block[p].used /\ ~g.block[q].used /\ p # b /\ q # b
      BY <2>1 DEF FreePair
    <3>2. CASE p = x
      <4>1. q # x
        BY <2>2, <2>3, <3>1, <3>2
      <4>2. FreePair(h, b, q)
        BY <1>1, <1>4, <2>3, <3>1, <3>2, <4>1 DEF FreePair
      <4> QED BY <1>1, <3>1, <4>1, <4>2 DEF Merged
    <3>3. CASE p # x /\ q = x
      <4>1. p \in D /\ End(h, p) = x /\ p < x /\ p # b
        BY <1>2, <2>3, <3>1, <3>3
      <4>2. p <= b \/ b + l <= p
        BY <1>1, <1>2, <2>2, <4>1
      <4>3. p < b
        BY <1>2, <2>2, <4>1, <4>2
      <4>4. End(h, p) <= b
        BY <1>1, <1>2, <4>1, <4>3
      <4> QED BY <1>2, <2>2, <4>1, <4>4
    <3>4. CASE p # x /\ q # x
      <4>1. FreePair(h, p, q)
        BY <2>3, <3>1, <3>4 DEF FreePair
      <4> QED BY <3>4, <4>1 DEF Merged
    <3> QED BY <3>2, <3>3, <3>4
  <2>7. AlsoHeld(g, h, b)
    <3>1. b # x
      BY <2>2
    <3>2. b \in DOMAIN g.block /\ DOMAIN g.block = D \cup {x} /\ {x} \cap D = {}
      BY <1>1, <2>1
    <3>3. \A y \in {x} \ {b} : g.block[y].used = FALSE
      BY <2>1
    <3>4. \A y \in (D \cup {b}) \ {x} : y # b =>
             g.block[y].len = h.block[y].len /\ g.block[y].used = h.block[y].used
      BY <2>3
    <3> QED BY <1>4, <2>1, <3>2, <3>3, <3>4, HeldAlso
  <2>8. Listed(g) = T
    BY <2>1, ListedFacts
  <2>9. needed \in needed .. needed + HEADER
    BY <1>3
  <2> QED BY <1>1, <1>4, <2>1, <2>4, <2>5, <2>6, <2>7, <2>8, <2>9 DEF Good, Sound, Taken
<1>6. CASE ~(l >= needed + min_split)
  <2> DEFINE T == S \ {b}
  <2>1. /\ IsHeap(g) /\ Chain(g, T) /\ DOMAIN g.block = D
        /\ g.block[b].len = l /\ g.block[b].used = TRUE /\ Alike(g, h, D \ {b})
    <3>1. WithUsed(g, h, b) /\ Chain(g, T)
      BY <1>1, <1>3, <1>6, WholeFacts
    <3> QED BY <3>1 DEF WithUsed
  <2>2. \A a \in D : End(g, a) = End(h, a) /\ g.block[a].len = h.block[a].len
                     /\ (a # b => g.block[a].used = h.block[a].used)
    BY <2>1 DEF End, Alike
  <2> HIDE DEF l
  <2>3. Tiles(g, top)
    BY <1>1, <2>1, <2>2 DEF Tiles
  <2>4. FreeListed(g, T)
    <3> SUFFICES ASSUME NEW a \in D
                 PROVE  IF g.block[a].used THEN a \in T => g.block[a].len >= 2 * PAGE_SIZE
                        ELSE a \in T
      BY <2>1 DEF FreeListed
    <3>1. IF h.block[a].used THEN a \in S => h.block[a].len >= 2 * PAGE_SIZE ELSE a \in S
      BY <1>1 DEF FreeListed
    <3> QED BY <2>1, <2>2, <3>1
  <2>5. Merged(g)
    <3> SUFFICES ASSUME NEW p \in D, NEW q \in D, FreePair(g, p, q)
                 PROVE  Boundary(q)
      BY <2>1 DEF Merged
    <3>1. FreePair(h, p, q)
      BY <2>1, <2>2 DEF FreePair
    <3> QED BY <3>1 DEF Merged
  <2>6. AlsoHeld(g, h, b)
    <3>1. DOMAIN g.block = D \cup {}
      BY <2>1
    <3>2. b \in DOMAIN g.block /\ {} \cap D = {}
      BY <1>1, <2>1
    <3>3. \A y \in {} \ {b} : g.block[y].used = FALSE
      OBVIOUS
    <3>4. \A y \in (D \cup {b}) \ {} : y # b =>
             g.block[y].len = h.block[y].len /\ g.block[y].used = h.block[y].used
      BY <2>2
    <3> QED BY <1>4, <2>1, <3>1, <3>2, <3>3, <3>4, HeldAlso
  <2>7. Listed(g) = T
    BY <2>1, ListedFacts
  <2>8. l \in needed .. needed + HEADER
    BY <1>3, <1>6 DEF l
  <2> QED BY <1>1, <1>4, <2>1, <2>3, <2>4, <2>5, <2>6, <2>7, <2>8 DEF Good, Sound, Taken
<1> QED BY <1>5, <1>6

-----------------------------------------------------------------------------
(* kmalloc                                                                 *)

LEMMA GrownHeld ==
  ASSUME NEW g, NEW h, NEW S, NEW base, NEW k, Grown(g, h, S, base, k)
  PROVE  Held(g) = Held(h)
<1> DEFINE row(a, l) == [at |-> a, size |-> l]
<1>1. /\ DOMAIN g.block = DOMAIN h.block \cup Fresh(base, k)
      /\ \A x \in DOMAIN h.block : /\ g.block[x].len = h.block[x].len
                                   /\ g.block[x].used = h.block[x].used
      /\ \A x \in Fresh(base, k) : g.block[x].used = FALSE
  BY DEF Grown, Alike
<1>2. ASSUME NEW a \in DOMAIN g.block, g.block[a].used
      PROVE  row(a, g.block[a].len) \in Held(h)
  <2>1. a \in DOMAIN h.block /\ h.block[a].used /\ g.block[a].len = h.block[a].len
    BY <1>1, <1>2
  <2> QED BY <2>1 DEF Held
<1>3. ASSUME NEW a \in DOMAIN h.block, h.block[a].used
      PROVE  row(a, h.block[a].len) \in Held(g)
  <2>1. a \in DOMAIN g.block /\ g.block[a].used /\ g.block[a].len = h.block[a].len
    BY <1>1, <1>3
  <2> QED BY <2>1 DEF Held
<1>4. Held(g) \subseteq Held(h)
  BY <1>2 DEF Held
<1>5. Held(h) \subseteq Held(g)
  BY <1>3 DEF Held
<1> QED BY <1>4, <1>5

\* No free block is as long as needed.
NoFit(h, needed) ==
  \A a \in DOMAIN h.block : ~h.block[a].used => h.block[a].len < needed

LEMMA MallocFacts ==
  ASSUME NEW h, NEW top, Sound(h, top),
         NEW needed \in Nat, needed >= min_split, needed <= PAGE_SIZE,
         NEW fit, fit = find_fit(h, needed), fit # NULL \/ top + PAGE_SIZE <= HEAP_END,
         NEW ready, ready = IF fit # NULL THEN h ELSE heap_grow(h, top, 1),
         NEW b, b = find_fit(ready, needed), NEW g, g = TakeBlock(ready, b, needed)
  PROVE  /\ Taken(g, h, b, needed)
         /\ Sound(g, IF fit # NULL THEN top ELSE top + PAGE_SIZE)
         /\ fit = NULL => NoFit(h, needed)
<1> DEFINE S == Listed(h)
<1>1. Good(h, S, top) /\ Merged(h) /\ Boundary(top)
  BY DEF Sound
<1>2. /\ IsHeap(h) /\ Chain(h, S) /\ FreeListed(h, S) /\ S \subseteq DOMAIN h.block
      /\ top \in HEAP_START .. HEAP_END /\ top \in Nat
  BY <1>1, BoundaryFacts DEF Good, Chain
<1>3. PAGE_SIZE \in Nat \ {0} /\ HEAP_END \in Nat
  BY Constants
<1> HIDE DEF S
<1>4. /\ fit # NULL => fit \in S /\ ~h.block[fit].used /\ h.block[fit].len >= needed
      /\ \A a \in S : ~h.block[a].used /\ h.block[a].len >= needed => fit # NULL
  BY <1>2, FitFacts
<1>5. fit = NULL => NoFit(h, needed)
  <2> SUFFICES ASSUME fit = NULL, NEW a \in DOMAIN h.block, ~h.block[a].used
               PROVE  h.block[a].len < needed
    BY DEF NoFit
  <2>1. a \in S
    BY <1>2 DEF FreeListed
  <2>2. ~(h.block[a].len >= needed) /\ h.block[a].len \in Nat
    BY <1>2, <1>4, <2>1, HeaderFacts
  <2> QED BY <2>2
<1>6. CASE fit # NULL
  <2>1. ready = h /\ b = fit
    BY <1>6
  <2>2. b \in S /\ ~h.block[b].used /\ h.block[b].len >= needed /\ g = TakeBlock(h, b, needed)
    BY <1>4, <1>6, <2>1
  <2>3. Sound(g, top) /\ Taken(g, h, b, needed)
    BY <1>1, <1>2, <2>2, TakeFacts
  <2> QED BY <1>6, <2>3
<1>7. CASE fit = NULL
  <2> DEFINE next == top + PAGE_SIZE
             T == S \cup Fresh(top, 1)
  <2>1. ready = heap_grow(h, top, 1) /\ next <= HEAP_END
    BY <1>7
  <2>2. 1 * PAGE_SIZE = PAGE_SIZE
    BY <1>3
  <2>3. Grown(ready, h, S, top, 1)
    BY <1>1, <2>1, <2>2, HeapGrowFacts
  <2>4. Fresh(top, 1) = {top}
    <3>1. 0 .. 1 - 1 = {0} /\ top + 0 * PAGE_SIZE = top
      BY <1>2, <1>3
    <3> QED BY <3>1 DEF Fresh
  <2>5. Boundary(next) /\ next \in HEAP_START .. HEAP_END
    <3>1. Boundary(next)
      BY <1>1, <2>1, <2>2, BoundaryFacts
    <3> QED BY <3>1, BoundaryFacts
  <2>6. /\ Good(ready, T, next) /\ Merged(ready) /\ top \in T
        /\ ready.block[top].len = PAGE_SIZE /\ ready.block[top].used = FALSE
    BY <2>2, <2>3, <2>4 DEF Grown
  <2>7. IsHeap(ready) /\ Chain(ready, T) /\ T \subseteq DOMAIN ready.block
    BY <2>6 DEF Good, Chain
  <2> HIDE DEF T, next
  <2>8. b # NULL => b \in T /\ ~ready.block[b].used /\ ready.block[b].len >= needed
    BY <2>7, FitFacts
  <2>9. b # NULL
    <3>1. \A a \in T : ~ready.block[a].used /\ ready.block[a].len >= needed => b # NULL
      BY <2>7, FitFacts
    <3>2. ready.block[top].len >= needed
      BY <1>3, <2>6
    <3> QED BY <2>6, <3>1, <3>2
  <2>10. b \in T /\ ~ready.block[b].used /\ ready.block[b].len >= needed
    BY <2>8, <2>9
  <2>11. Sound(g, next) /\ Taken(g, ready, b, needed)
    BY <2>5, <2>6, <2>10, TakeFacts
  <2>12. Held(ready) = Held(h)
    BY <2>3, GrownHeld
  <2>13. Taken(g, h, b, needed)
    BY <2>11, <2>12 DEF Taken, AlsoHeld
  <2> QED BY <1>5, <1>7, <2>11, <2>13 DEF next
<1> QED BY <1>5, <1>6, <1>7

-----------------------------------------------------------------------------
(* Blocks of several pages                                                 *)

\* g is h with a used block of several pages at top.
WithPages(g, h, top, size) ==
  /\ IsHeap(g) /\ DOMAIN g.block = DOMAIN h.block \cup {top}
  /\ g.block[top].len = size /\ g.block[top].used = TRUE
  /\ Alike(g, h, DOMAIN h.block)

\* the pages of a block but its first
Inner(top, pages) == {top + i * PAGE_SIZE : i \in 1 .. pages - 1}

\* A block of them takes in the pages of h.
TakePages(h, top, size, pages) ==
  Forget(SetHeader(h, top, size, TRUE, NULL), Inner(top, pages))

\* The heap has room for that many pages more, of that many words.
Fits(top, pages, size) == size = pages * PAGE_SIZE /\ top + size <= HEAP_END

\* The next = NULL of the used block ends the list before the pages it takes in.
LEMMA PagesLinks ==
  ASSUME NEW h, NEW top \in Nat, NEW pages \in Nat, pages >= 2, NEW S,
         Sound(h, top), S = Listed(h), NEW size, Fits(top, pages, size),
         NEW grown, Grown(grown, h, S, top, pages),
         NEW g, g = TakePages(grown, top, size, pages)
  PROVE  WithPages(g, h, top, size) /\ Chain(g, S \cup {top})
<1> DEFINE D == DOMAIN h.block
           F == Fresh(top, pages)
           inner == Inner(top, pages)
           f == SetHeader(grown, top, size, TRUE, NULL)
<1>1. PAGE_SIZE \in Nat \ {0} /\ size \in Nat /\ HEAP_END \in Nat /\ PAGE_SIZE <= size
  <2> DEFINE p == PAGE_SIZE
  <2>1. p \in Nat \ {0} /\ HEAP_END \in Nat /\ size = p * pages
    BY Constants DEF Fits
  <2>2. p * 1 <= p * pages /\ p * pages \in Nat
    BY <2>1, Multiples
  <2> HIDE DEF p
  <2>3. p * 1 = p
    BY <2>1
  <2>4. p <= size /\ size \in Nat
    BY <2>1, <2>2, <2>3
  <2> QED BY <2>1, <2>4 DEF p
<1>2. /\ IsHeap(h) /\ Chain(h, S) /\ Tiles(h, top) /\ S \subseteq D
      /\ Boundary(top) /\ top \in HEAP_START .. HEAP_END
  BY BoundaryFacts DEF Sound, Good, Chain
<1>3. /\ \A a \in D : a \in Nat /\ a < top
      /\ top \notin D
  <2>1. \A a \in D : a \in Nat /\ a < End(h, a) /\ End(h, a) <= top /\ End(h, a) \in Nat
    BY <1>2, TileFacts
  <2>2. top \notin D
    BY <1>2, TileFacts
  <2> QED BY <2>1, <2>2
<1>4. F = inner \cup {top} /\ \A x \in inner : x \in Nat /\ top < x
  <2>1. 0 .. pages - 1 = {0} \cup 1 .. pages - 1
    OBVIOUS
  <2>2. top + 0 * PAGE_SIZE = top
    BY <1>1
  <2>3. F = inner \cup {top}
    BY <2>1, <2>2 DEF Fresh, Inner
  <2>4. ASSUME NEW i \in 1 .. pages - 1
        PROVE  top + i * PAGE_SIZE \in Nat /\ top < top + i * PAGE_SIZE
    <3> DEFINE n == i * PAGE_SIZE
    <3>1. n \in Nat /\ n > 0
      BY <1>1
    <3> HIDE DEF n
    <3>2. top + n \in Nat /\ top < top + n
      BY <3>1
    <3> QED BY <3>2 DEF n
  <2> QED BY <2>3, <2>4 DEF Inner
<1>5. /\ IsHeap(grown) /\ Chain(grown, S \cup F) /\ DOMAIN grown.block = D \cup F
      /\ Alike(grown, h, D)
  BY DEF Grown, Good
<1>6. top \in Address /\ size \in 0 .. HEAP_END /\ top # NULL
  <2>1. top < HEAP_END /\ size <= HEAP_END
    BY <1>1, Constants DEF Fits
  <2> QED BY <1>1, <1>2, <2>1, Constants
<1> HIDE DEF F
<1>7. f = SetHeader(grown, top, size, TRUE, NULL) /\ g = Forget(f, inner)
  BY DEF TakePages
<1> HIDE DEF f, inner
<1>8. /\ IsHeap(f) /\ f.head = grown.head /\ DOMAIN f.block = D \cup F
      /\ f.block[top] = [len |-> size, used |-> TRUE, next |-> NULL]
      /\ \A x \in (D \cup F) \ {top} : f.block[x] = grown.block[x]
  <2>1. (D \cup F) \cup {top} = D \cup F
    BY <1>4
  <2>2. WithHeader(f, grown, top, [len |-> size, used |-> TRUE, next |-> NULL])
    BY <1>5, <1>6, <1>7, SetHeaderFacts
  <2> QED BY <1>5, <2>1, <2>2 DEF WithHeader
<1>9. /\ IsHeap(g) /\ g.head = grown.head /\ DOMAIN g.block = D \cup {top}
      /\ g.block[top] = [len |-> size, used |-> TRUE, next |-> NULL]
      /\ \A x \in D : g.block[x] = grown.block[x]
  <2>1. /\ IsHeap(g) /\ g.head = f.head /\ DOMAIN g.block = DOMAIN f.block \ inner
        /\ \A x \in DOMAIN f.block \ inner : g.block[x] = f.block[x]
    <3>1. IsHeap(f) /\ g = Forget(f, inner)
      BY <1>7, <1>8
    <3> QED BY ONLY <3>1, ForgetFacts
  <2>2. DOMAIN f.block \ inner = D \cup {top}
    BY <1>3, <1>4, <1>8
  <2> QED BY <1>3, <1>8, <2>1, <2>2
<1>10. Link(g, top) = NULL /\ \A p \in S \cup {NULL} : Link(g, p) = Link(grown, p)
  <2>1. Link(g, top) = NULL
    BY <1>6, <1>9 DEF Link
  <2>2. \A p \in S : g.block[p] = grown.block[p]
    BY <1>2, <1>9
  <2> QED BY <1>9, <2>1, <2>2 DEF Link
<1>11. ASSUME NEW p \in S \cup {NULL} PROVE Follows(S \cup {top}, p, Link(g, p))
  <2> DEFINE q == Link(grown, p)
  <2>1. Follows(S \cup F, p, q) /\ Link(g, p) = q
    BY <1>5, <1>10 DEF Chain
  <2> HIDE DEF q
  <2>2. p \in Nat /\ p < top
    BY <1>2, <1>3, <1>6, Constants
  <2>3. q # NULL
    BY <1>4, <2>1, <2>2 DEF Follows
  <2>4. /\ q \in S \cup F /\ p < q /\ q <= top
        /\ \A x \in S \cup F : x <= p \/ q <= x
    BY <1>4, <2>1, <2>2, <2>3 DEF Follows
  <2>5. q \in S \cup {top}
    <3>1. q \notin inner
      BY <1>4, <2>4
    <3> QED BY <1>4, <2>4, <3>1
  <2>6. \A x \in S \cup {top} : x <= p \/ q <= x
    BY <1>4, <2>4
  <2> QED BY <2>1, <2>3, <2>4, <2>5, <2>6 DEF Follows
<1>12. Follows(S \cup {top}, top, Link(g, top))
  BY <1>2, <1>3, <1>10 DEF Follows
<1>13. Chain(g, S \cup {top})
  BY <1>2, <1>9, <1>11, <1>12 DEF Chain
<1>14. Alike(g, h, D)
  BY <1>5, <1>9 DEF Alike
<1>15. g.block[top].len = size /\ g.block[top].used = TRUE
  BY <1>9
<1> QED BY <1>9, <1>13, <1>14, <1>15 DEF WithPages

LEMMA PagesFacts ==
  ASSUME NEW h, NEW top, NEW pages \in Nat, pages >= 2,
         Sound(h, top), NEW size, Fits(top, pages, size),
         NEW g, g = TakePages(heap_grow(h, top, pages), top, size, pages)
  PROVE  /\ Sound(g, top + size) /\ AlsoHeld(g, h, top)
         /\ top \in DOMAIN g.block /\ g.block[top].len = size
<1> DEFINE S == Listed(h)
           D == DOMAIN h.block
           z == top + size
<1>1. /\ IsHeap(h) /\ Chain(h, S) /\ Tiles(h, top) /\ FreeListed(h, S)
      /\ Good(h, S, top) /\ Merged(h) /\ Boundary(top)
  BY DEF Sound, Good
<1>2. top \in Nat /\ top \in HEAP_START .. HEAP_END /\ S \subseteq D
  BY <1>1, BoundaryFacts DEF Chain
<1>3. Grown(heap_grow(h, top, pages), h, S, top, pages)
  BY <1>1, HeapGrowFacts DEF Fits
<1> HIDE DEF S
<1>4. Chain(g, S \cup {top}) /\ WithPages(g, h, top, size)
  BY <1>2, <1>3, PagesLinks DEF S
<1>5. /\ IsHeap(g) /\ DOMAIN g.block = D \cup {top}
      /\ g.block[top].len = size /\ g.block[top].used = TRUE
      /\ Alike(g, h, D)
  BY <1>4 DEF WithPages
<1>6. /\ \A a \in D : /\ a \in Nat /\ HEAP_START <= a /\ h.block[a].len \in Nat
                      /\ h.block[a].len >= min_split
                      /\ End(h, a) = a + h.block[a].len /\ End(h, a) \in Nat
                      /\ a < End(h, a) /\ End(h, a) <= top
      /\ \A a, c \in D : a < c => End(h, a) <= c
      /\ top \notin D
  BY <1>1, <1>2, TileFacts
<1>7. /\ size \in Nat /\ size >= 2 * PAGE_SIZE /\ size >= min_split /\ min_split \in Nat
      /\ HEAP_START \in Nat
  <2> DEFINE p == PAGE_SIZE
  <2>1. p \in Nat \ {0} /\ size = p * pages /\ p > min_split /\ min_split \in Nat
        /\ HEAP_START \in Nat
    BY Constants DEF Fits
  <2>2. p * 2 <= p * pages /\ p * pages \in Nat
    BY <2>1, Multiples
  <2> HIDE DEF p
  <2>3. 2 * p <= size /\ size \in Nat /\ size >= min_split
    BY <2>1, <2>2
  <2> QED BY <2>1, <2>3 DEF p
<1>8. z \in Nat /\ top < z /\ Boundary(z)
  <2>1. Boundary(top + pages * PAGE_SIZE)
    BY <1>1, BoundaryFacts DEF Fits
  <2>2. top < top + size
    BY <1>2, <1>7, Constants
  <2> QED BY <1>2, <1>7, <2>1, <2>2 DEF Fits
<1>9. /\ End(g, top) = z
      /\ \A a \in D : End(g, a) = End(h, a) /\ g.block[a].used = h.block[a].used
                      /\ g.block[a].len = h.block[a].len
  BY <1>5 DEF End, Alike
<1> HIDE DEF z
<1>10. Tiles(g, z)
  <2>1. ASSUME NEW a \in D \cup {top} PROVE g.block[a].len >= min_split /\ End(g, a) <= z
    <3>1. size >= min_split /\ top < z /\ z \in Nat /\ top \in Nat
      BY <1>2, <1>7, <1>8
    <3>2. CASE a = top BY <1>5, <1>9, <3>1, <3>2
    <3>3. CASE a # top BY <1>6, <1>9, <3>1, <3>3
    <3> QED BY <3>2, <3>3
  <2>2. ASSUME NEW a \in D \cup {top}, NEW c \in D \cup {top}, a < c PROVE End(g, a) <= c
    <3>1. CASE a = top
      <4>1. c \in D /\ c < top
        BY <1>2, <1>6, <2>2, <3>1
      <4> QED BY <1>2, <1>6, <2>2, <3>1, <4>1
    <3>2. CASE a # top BY <1>6, <1>9, <2>2, <3>2
    <3> QED BY <3>1, <3>2
  <2>3. ASSUME NEW w \in HEAP_START .. z - 1
        PROVE  \E a \in D \cup {top} : a <= w /\ w < End(g, a)
    <3>1. CASE w < top
      <4>1. w \in HEAP_START .. top - 1
        BY <1>2, <1>7, <3>1
      <4>2. PICK a \in D : a <= w /\ w < End(h, a)
        BY <1>1, <4>1 DEF Tiles
      <4> QED BY <1>9, <4>2
    <3>2. CASE ~(w < top)
      <4>1. top <= w /\ w < z
        BY <1>2, <1>7, <1>8, <3>2
      <4> QED BY <1>9, <4>1
    <3> QED BY <3>1, <3>2
  <2> QED BY <1>5, <2>1, <2>2, <2>3 DEF Tiles
<1>11. FreeListed(g, S \cup {top})
  <2> SUFFICES ASSUME NEW a \in D \cup {top}
               PROVE  IF g.block[a].used
                      THEN a \in S \cup {top} => g.block[a].len >= 2 * PAGE_SIZE
                      ELSE a \in S \cup {top}
    BY <1>5 DEF FreeListed
  <2>1. CASE a = top BY <1>5, <1>7, <2>1
  <2>2. CASE a # top
    <3>1. IF h.block[a].used THEN a \in S => h.block[a].len >= 2 * PAGE_SIZE ELSE a \in S
      BY <1>1, <2>2 DEF FreeListed
    <3> QED BY <1>9, <2>2, <3>1
  <2> QED BY <2>1, <2>2
<1>12. Merged(g)
  <2> SUFFICES ASSUME NEW x \in D \cup {top}, NEW y \in D \cup {top}, FreePair(g, x, y)
               PROVE  Boundary(y)
    BY <1>5 DEF Merged
  <2>1. x # top /\ y # top
    BY <1>5 DEF FreePair
  <2>2. FreePair(h, x, y)
    BY <1>9, <2>1 DEF FreePair
  <2> QED BY <1>1, <2>1, <2>2 DEF Merged
<1>13. Listed(g) = S \cup {top}
  BY <1>4, <1>5, ListedFacts
<1>14. Sound(g, z)
  BY <1>4, <1>5, <1>8, <1>10, <1>11, <1>12, <1>13 DEF Sound, Good
<1>15. AlsoHeld(g, h, top)
  <2>1. top \in DOMAIN g.block /\ {top} \cap D = {} /\ (top \in D => h.block[top].used = FALSE)
    BY <1>5, <1>6
  <2>2. \A x \in {top} \ {top} : g.block[x].used = FALSE
    OBVIOUS
  <2>3. \A x \in (D \cup {top}) \ {top} : x # top =>
           g.block[x].len = h.block[x].len /\ g.block[x].used = h.block[x].used
    BY <1>9
  <2> QED BY <1>5, <2>1, <2>2, <2>3, HeldAlso
<1> QED BY <1>5, <1>14, <1>15 DEF z

\* Pages that are added and not used.
LEMMA MoreFacts ==
  ASSUME NEW h, NEW top, Sound(h, top), NEW n \in Nat, top + n * PAGE_SIZE = HEAP_END,
         NEW g, g = heap_grow(h, top, n)
  PROVE  Sound(g, HEAP_END) /\ Held(g) = Held(h)
<1> DEFINE S == Listed(h)
           T == S \cup Fresh(top, n)
<1>1. Good(h, S, top) /\ Merged(h) /\ Boundary(top)
  BY DEF Sound
<1>2. HEAP_END \in Nat
  BY Constants
<1>3. top + n * PAGE_SIZE <= HEAP_END
  BY <1>2
<1>4. Grown(g, h, S, top, n) /\ Boundary(HEAP_END)
  BY <1>1, <1>3, HeapGrowFacts, BoundaryFacts
<1>5. Good(g, T, HEAP_END) /\ Merged(g)
  BY <1>4 DEF Grown
<1>6. Listed(g) = T
  <2> HIDE DEF T
  <2> QED BY <1>5, ListedFacts DEF Good
<1>7. Held(g) = Held(h)
  BY <1>4, GrownHeld
<1> QED BY <1>4, <1>5, <1>6, <1>7 DEF Sound

-----------------------------------------------------------------------------
(* kfree                                                                   *)

\* g holds what h holds, and no free block begins where a ends any more.
Joined(g, h, a) ==
  /\ Held(g) = Held(h)
  /\ \A x, y \in DOMAIN g.block :
       FreePair(g, x, y) => \E z \in DOMAIN h.block \ {a} : FreePair(h, z, y)

\* The list of g is T; up to a it is that of h.
Merger(g, h, S, T, a, top) ==
  /\ Good(g, T, top) /\ Joined(g, h, a) /\ g.block[a].used = FALSE
  /\ a \in T /\ T \subseteq S
  /\ \A p \in S \cup {NULL} :
       p < a => /\ p \in T \cup {NULL} /\ Link(g, p) = Link(h, p)
                /\ p # NULL => g.block[p].used = h.block[p].used

\* Without a free block where a ends, there is nothing to join.
LEMMA NothingToJoin ==
  ASSUME NEW h, NEW S, NEW top \in HEAP_START .. HEAP_END, Good(h, S, top),
         NEW a \in S, NEW c, c = Link(h, a), ~Adjacent(h, a, c)
  PROVE  Joined(h, h, a)
<1> DEFINE D == DOMAIN h.block
<1>1. IsHeap(h) /\ Chain(h, S) /\ Tiles(h, top) /\ FreeListed(h, S) /\ S \subseteq D /\ a \in D
  BY DEF Good, Chain
<1>2. /\ \A x \in D : /\ x \in Nat /\ x < End(h, x) /\ End(h, x) \in Nat
                      /\ End(h, x) = x + h.block[x].len
      /\ \A x, y \in D : x < y => End(h, x) <= y
  BY <1>1, TileFacts
<1> SUFFICES ASSUME NEW x \in D, NEW y \in D, FreePair(h, x, y)
             PROVE  \E z \in D \ {a} : FreePair(h, z, y)
  BY DEF Joined
<1>3. x # a
  <2> SUFFICES ASSUME x = a PROVE FALSE
    OBVIOUS
  <2>1. End(h, a) = y /\ ~h.block[y].used
    BY DEF FreePair
  <2>2. y \in S
    BY <1>1, <2>1 DEF FreeListed
  <2>3. Follows(S, a, c)
    BY <1>1, ChainFacts
  <2>4. a < y
    BY <1>1, <1>2, <2>1
  <2>5. c # NULL
    BY <1>1, <1>2, <2>2, <2>3, <2>4 DEF Follows
  <2>6. c \in S /\ a < c /\ c <= y
    BY <1>1, <1>2, <2>2, <2>3, <2>4, <2>5 DEF Follows
  <2>7. y <= c
    BY <1>1, <1>2, <2>1, <2>6
  <2>8. y = c
    BY <1>1, <1>2, <2>6, <2>7
  <2>9. a + h.block[a].len = c
    BY <1>1, <1>2, <2>1, <2>8
  <2> QED BY <2>1, <2>5, <2>8, <2>9 DEF Adjacent
<1> QED BY <1>3

LEMMA AbsorbJoins ==
  ASSUME NEW h, NEW S, NEW top \in HEAP_START .. HEAP_END, Good(h, S, top),
         NEW a \in S, h.block[a].used = FALSE, NEW c, c = Link(h, a), Adjacent(h, a, c),
         NEW g, g = Absorb(h, a, c)
  PROVE  Merger(g, h, S, S \ {c}, a, top)
<1> DEFINE D == DOMAIN h.block
           T == S \ {c}
<1>1. IsHeap(h) /\ Chain(h, S) /\ Tiles(h, top) /\ FreeListed(h, S) /\ S \subseteq D /\ a \in D
  BY DEF Good, Chain
<1>2. /\ \A x \in D : /\ x \in Nat /\ HEAP_START <= x /\ h.block[x].len \in Nat
                      /\ h.block[x].len >= min_split
                      /\ End(h, x) = x + h.block[x].len /\ End(h, x) \in Nat
                      /\ x < End(h, x) /\ End(h, x) <= top
      /\ \A x, y \in D : x < y => End(h, x) <= y
      /\ top \notin D
  BY <1>1, TileFacts
<1>3. c # NULL /\ ~h.block[c].used /\ End(h, a) = c
  BY DEF Adjacent, End
<1>4. /\ c \in S /\ c \in Nat /\ a < c
      /\ Chain(g, T) /\ \A p \in T \cup {NULL} : p # a => Link(g, p) = Link(h, p)
  BY <1>1, <1>3, AbsorbFacts
<1>5. /\ IsHeap(g) /\ DOMAIN g.block = D \ {c}
      /\ g.block[a].len = h.block[a].len + h.block[c].len /\ g.block[a].used = FALSE
      /\ \A x \in D \ {a, c} : /\ g.block[x].len = h.block[x].len
                               /\ g.block[x].used = h.block[x].used
  <2>1. WithMerger(g, h, a, c)
    BY <1>1, <1>3, AbsorbFacts
  <2> QED BY <2>1 DEF WithMerger, Alike
<1>6. c \in D /\ a # c /\ h.block[c].used = FALSE
  <2>1. c \in D
    BY <1>1, <1>4
  <2> QED BY <1>1, <1>2, <1>3, <1>4, <2>1, HeaderFacts
<1>7. End(g, a) = End(h, c) /\ \A x \in D \ {a, c} : End(g, x) = End(h, x)
  <2>1. End(g, a) = a + (h.block[a].len + h.block[c].len)
    BY <1>5 DEF End
  <2>2. End(g, a) = End(h, c)
    BY <1>1, <1>2, <1>3, <1>6, <2>1
  <2> QED BY <1>5, <2>2 DEF End
<1>8. Tiles(g, top)
  <2>1. ASSUME NEW x \in D \ {c} PROVE g.block[x].len >= min_split /\ End(g, x) <= top
    <3>1. CASE x = a
      <4>1. /\ h.block[a].len >= min_split /\ h.block[c].len \in Nat /\ End(h, c) <= top
            /\ h.block[a].len \in Nat
        BY <1>1, <1>2, <1>6
      <4>2. min_split \in Nat
        BY Constants
      <4> QED BY <1>5, <1>7, <3>1, <4>1, <4>2
    <3>2. CASE x # a BY <1>2, <1>5, <1>7, <3>2
    <3> QED BY <3>1, <3>2
  <2>2. ASSUME NEW x \in D \ {c}, NEW y \in D \ {c}, x < y PROVE End(g, x) <= y
    <3>1. CASE x = a
      <4>1. c < y
        <5>1. c <= y
          BY <1>2, <1>3, <2>2, <3>1
        <5> QED BY <1>2, <1>4, <5>1
      <4> QED BY <1>2, <1>6, <1>7, <3>1, <4>1
    <3>2. CASE x # a BY <1>2, <1>7, <2>2, <3>2
    <3> QED BY <3>1, <3>2
  <2>3. ASSUME NEW w \in HEAP_START .. top - 1
        PROVE  \E x \in D \ {c} : x <= w /\ w < End(g, x)
    <3>1. PICK x \in D : x <= w /\ w < End(h, x)
      BY <1>1 DEF Tiles
    <3>2. w \in Int
      OBVIOUS
    <3>3. CASE x = c
      <4>1. a <= w
        BY <1>1, <1>2, <1>4, <3>1, <3>2, <3>3
      <4> QED BY <1>1, <1>6, <1>7, <3>1, <3>3, <4>1
    <3>4. CASE x = a
      <4>1. w < End(h, c)
        BY <1>1, <1>2, <1>3, <1>6, <3>1, <3>2, <3>4
      <4> QED BY <1>1, <1>6, <1>7, <3>1, <3>4, <4>1
    <3>5. CASE x # a /\ x # c BY <1>7, <3>1, <3>5
    <3> QED BY <3>3, <3>4, <3>5
  <2> QED BY <1>5, <2>1, <2>2, <2>3 DEF Tiles
<1>9. FreeListed(g, T)
  <2> SUFFICES ASSUME NEW x \in D \ {c}
               PROVE  IF g.block[x].used THEN x \in T => g.block[x].len >= 2 * PAGE_SIZE
                      ELSE x \in T
    BY <1>5 DEF FreeListed
  <2>1. CASE x = a BY <1>5, <1>6, <2>1
  <2>2. CASE x # a
    <3>1. IF h.block[x].used THEN x \in S => h.block[x].len >= 2 * PAGE_SIZE ELSE x \in S
      BY <1>1, <2>2 DEF FreeListed
    <3> QED BY <1>5, <2>2, <3>1
  <2> QED BY <2>1, <2>2
<1>10. Held(g) = Held(h)
  <2> DEFINE row(x, l) == [at |-> x, size |-> l]
  <2>1. ASSUME NEW x \in DOMAIN g.block, g.block[x].used
        PROVE  row(x, g.block[x].len) \in Held(h)
    <3>1. x # a /\ x # c /\ x \in D
      BY <1>5, <2>1
    <3>2. g.block[x].len = h.block[x].len /\ h.block[x].used
      BY <1>5, <2>1, <3>1
    <3> QED BY <3>1, <3>2 DEF Held
  <2>2. ASSUME NEW x \in D, h.block[x].used
        PROVE  row(x, h.block[x].len) \in Held(g)
    <3>1. x # a /\ x # c
      BY <1>6, <2>2
    <3>2. x \in DOMAIN g.block /\ g.block[x].len = h.block[x].len /\ g.block[x].used
      BY <1>5, <2>2, <3>1
    <3> QED BY <3>2 DEF Held
  <2>3. Held(g) \subseteq Held(h)
    BY <2>1 DEF Held
  <2>4. Held(h) \subseteq Held(g)
    BY <2>2 DEF Held
  <2> QED BY <2>3, <2>4
<1>11. ASSUME NEW x \in D \ {c}, NEW y \in D \ {c}, FreePair(g, x, y)
       PROVE  \E z \in D \ {a} : FreePair(h, z, y)
  <2>1. End(g, x) = y /\ ~g.block[x].used /\ ~g.block[y].used
    BY <1>11 DEF FreePair
  <2>2. ~h.block[y].used
    BY <1>5, <2>1
  <2>3. CASE x = a
    <3>1. FreePair(h, c, y)
      BY <1>6, <1>7, <2>1, <2>2, <2>3 DEF FreePair
    <3> QED BY <1>6, <3>1
  <2>4. CASE x # a
    <3>1. FreePair(h, x, y)
      BY <1>5, <1>7, <2>1, <2>2, <2>4 DEF FreePair
    <3> QED BY <2>4, <3>1
  <2> QED BY <2>3, <2>4
<1>12. Joined(g, h, a)
  BY <1>5, <1>10, <1>11 DEF Joined
<1>13. ASSUME NEW p \in S \cup {NULL}, p < a
       PROVE  /\ p \in T \cup {NULL} /\ Link(g, p) = Link(h, p)
              /\ p # NULL => g.block[p].used = h.block[p].used
  <2>1. p # a /\ p # c
    <3>1. a \in Nat
      BY <1>1, <1>2
    <3> QED BY <1>4, <1>13, <3>1
  <2>2. p \in T \cup {NULL} /\ Link(g, p) = Link(h, p)
    BY <1>4, <2>1
  <2> QED BY <1>1, <1>5, <2>1, <2>2
<1>14. Good(g, T, top)
  BY <1>4, <1>5, <1>8, <1>9 DEF Good
<1> QED BY <1>5, <1>6, <1>12, <1>13, <1>14 DEF Merger

LEMMA MergeFacts ==
  ASSUME NEW h, NEW S, NEW top \in HEAP_START .. HEAP_END, Good(h, S, top),
         NEW a \in S, h.block[a].used = FALSE, NEW c, c = Link(h, a),
         NEW g, g = IF Adjacent(h, a, c) THEN Absorb(h, a, c) ELSE h
  PROVE  \E T : Merger(g, h, S, T, a, top)
<1>1. CASE Adjacent(h, a, c)
  <2>1. g = Absorb(h, a, c)
    BY <1>1
  <2>2. Merger(g, h, S, S \ {c}, a, top)
    BY <1>1, <2>1, AbsorbJoins
  <2> QED BY <2>2
<1>2. CASE ~Adjacent(h, a, c)
  <2>1. g = h
    BY <1>2
  <2>2. Joined(h, h, a)
    BY <1>2, NothingToJoin
  <2>3. Merger(h, h, S, S, a, top)
    BY <2>2 DEF Merger
  <2> QED BY <2>1, <2>3
<1> QED BY <1>1, <1>2

\* g is h with the block at `at' given back, and not merged yet.
Linked(g, h, S, at, top) ==
  /\ Good(g, S \cup {at}, top) /\ g.block[at].used = FALSE
  /\ Link(g, at) = From(h, at) /\ Link(g, Before(h, at)) = at
  /\ Held(g) = Held(h) \ {[at |-> at, size |-> h.block[at].len]}
  /\ \A x, y \in DOMAIN g.block : FreePair(g, x, y) => Boundary(y) \/ x = at \/ y = at

LEMMA LinkedFacts ==
  ASSUME NEW h, NEW top, Sound(h, top), NEW S, S = Listed(h),
         NEW at \in DOMAIN h.block, h.block[at].used = TRUE, h.block[at].len < 2 * PAGE_SIZE,
         NEW g, g = add_block(h, at, h.block[at].len)
  PROVE  at \notin S /\ Linked(g, h, S, at, top)
<1> DEFINE D == DOMAIN h.block
           l == h.block[at].len
<1>1. /\ IsHeap(h) /\ Chain(h, S) /\ Tiles(h, top) /\ FreeListed(h, S)
      /\ Merged(h) /\ top \in HEAP_START .. HEAP_END /\ S \subseteq D
  BY BoundaryFacts DEF Sound, Good, Chain
<1>2. /\ at \in Address /\ at \in Nat /\ l \in 0 .. HEAP_END
  <2>1. at \in Address /\ h.block[at] \in Header
    BY <1>1 DEF IsHeap
  <2> QED BY <1>1, <2>1, HeaderFacts DEF Header
<1>3. at \notin S
  <2>1. at \in S => l >= 2 * PAGE_SIZE
    BY <1>1 DEF FreeListed
  <2>2. l \in Nat /\ PAGE_SIZE \in Nat
    BY <1>1, <1>2, Constants
  <2> QED BY <2>1, <2>2
<1>4. /\ WithFree(g, h, at, l) /\ Chain(g, S \cup {at})
      /\ Link(g, at) = From(h, at) /\ Link(g, Before(h, at)) = at
  BY <1>1, <1>2, <1>3, AddBlockFacts
<1>5. /\ IsHeap(g) /\ DOMAIN g.block = D
      /\ g.block[at].len = l /\ g.block[at].used = FALSE
      /\ \A x \in D \ {at} : /\ g.block[x].len = h.block[x].len
                             /\ g.block[x].used = h.block[x].used
  <2>1. D \cup {at} = D
    OBVIOUS
  <2> QED BY <1>4, <2>1 DEF WithFree, Alike
<1>6. \A x \in D : g.block[x].len = h.block[x].len /\ End(g, x) = End(h, x)
  BY <1>5 DEF End
<1>7. Tiles(g, top)
  BY <1>1, <1>5, <1>6 DEF Tiles
<1>8. FreeListed(g, S \cup {at})
  <2> SUFFICES ASSUME NEW x \in D
               PROVE  IF g.block[x].used
                      THEN x \in S \cup {at} => g.block[x].len >= 2 * PAGE_SIZE
                      ELSE x \in S \cup {at}
    BY <1>5 DEF FreeListed
  <2>1. CASE x = at BY <1>5, <2>1
  <2>2. CASE x # at
    <3>1. IF h.block[x].used THEN x \in S => h.block[x].len >= 2 * PAGE_SIZE ELSE x \in S
      BY <1>1, <2>2 DEF FreeListed
    <3> QED BY <1>5, <2>2, <3>1
  <2> QED BY <2>1, <2>2
<1>9. Held(g) = Held(h) \ {[at |-> at, size |-> l]}
  <2> DEFINE row(x, n) == [at |-> x, size |-> n]
  <2>1. ASSUME NEW x \in DOMAIN g.block, g.block[x].used
        PROVE  row(x, g.block[x].len) \in Held(h) \ {row(at, l)}
    <3>1. x # at /\ x \in D
      BY <1>5, <2>1
    <3>2. g.block[x].len = h.block[x].len /\ h.block[x].used
      BY <1>5, <2>1, <3>1
    <3>3. row(x, g.block[x].len).at # row(at, l).at
      BY <3>1
    <3> QED BY <3>1, <3>2, <3>3 DEF Held
  <2>2. ASSUME NEW x \in D, h.block[x].used, row(x, h.block[x].len) # row(at, l)
        PROVE  row(x, h.block[x].len) \in Held(g)
    <3>1. x # at
      BY <2>2
    <3>2. x \in DOMAIN g.block /\ g.block[x].len = h.block[x].len /\ g.block[x].used
      BY <1>5, <2>2, <3>1
    <3> QED BY <3>2 DEF Held
  <2>3. Held(g) \subseteq Held(h) \ {row(at, l)}
    BY <2>1 DEF Held
  <2>4. Held(h) \ {row(at, l)} \subseteq Held(g)
    BY <2>2 DEF Held
  <2> QED BY <2>3, <2>4
<1>10. ASSUME NEW x \in D, NEW y \in D, FreePair(g, x, y), x # at, y # at
       PROVE  Boundary(y)
  <2>1. FreePair(h, x, y)
    BY <1>5, <1>6, <1>10 DEF FreePair
  <2> QED BY <1>1, <2>1 DEF Merged
<1>11. Good(g, S \cup {at}, top)
  BY <1>4, <1>5, <1>7, <1>8 DEF Good
<1> QED BY <1>3, <1>4, <1>5, <1>9, <1>10, <1>11 DEF Linked

\* Where the listed block before `at' is used, or is not there, no free block ends at `at'.
LEMMA NothingBefore ==
  ASSUME NEW h, NEW S, NEW top \in HEAP_START .. HEAP_END, Good(h, S, top),
         NEW prev \in S \cup {NULL}, NEW at, Link(h, prev) = at, at \in S,
         NEW x \in DOMAIN h.block \ {prev}
  PROVE  ~FreePair(h, x, at)
<1> DEFINE D == DOMAIN h.block
<1> SUFFICES ASSUME FreePair(h, x, at) PROVE FALSE
  OBVIOUS
<1>1. IsHeap(h) /\ Chain(h, S) /\ Tiles(h, top) /\ FreeListed(h, S) /\ S \subseteq D
  BY DEF Good, Chain
<1>2. /\ \A a \in D : a \in Nat /\ a < End(h, a) /\ End(h, a) \in Nat
      /\ \A a, c \in D : a < c => End(h, a) <= c
  BY <1>1, TileFacts
<1>3. ~h.block[x].used /\ End(h, x) = at
  BY DEF FreePair
<1>4. x \in S /\ at \in Nat /\ at # NULL /\ x > NULL /\ prev \in Nat
  BY <1>1, <1>3, ChainFacts DEF FreeListed
<1>5. Follows(S, prev, at)
  BY <1>1, ChainFacts
<1>6. prev < at /\ (x <= prev \/ at <= x)
  BY <1>4, <1>5 DEF Follows
<1>7. x < at
  BY <1>2, <1>3
<1>8. x < prev
  BY <1>2, <1>4, <1>6, <1>7
<1>9. prev \in D
  BY <1>1, <1>4, <1>8, Constants
<1>10. End(h, x) <= prev
  BY <1>2, <1>8, <1>9
<1> QED BY <1>3, <1>4, <1>6, <1>10

\* what kfree does to the list
Release(h, at) ==
  LET prev == Before(h, at)
      cur == From(h, at)
      linked == add_block(h, at, h.block[at].len)
      right == IF Adjacent(linked, at, cur) THEN Absorb(linked, at, cur) ELSE linked
  IN  IF prev # NULL /\ ~right.block[prev].used /\ Adjacent(right, prev, at)
      THEN Absorb(right, prev, at) ELSE right

LEMMA FreeFacts ==
  ASSUME NEW h, NEW top, Sound(h, top), NEW at \in DOMAIN h.block,
         h.block[at].used = TRUE, h.block[at].len < 2 * PAGE_SIZE,
         NEW g, g = Release(h, at)
  PROVE  Sound(g, top) /\ Held(g) = Held(h) \ {[at |-> at, size |-> h.block[at].len]}
<1> DEFINE S == Listed(h)
           S1 == S \cup {at}
           row == [at |-> at, size |-> h.block[at].len]
           prev == Before(h, at)
           cur == From(h, at)
           linked == add_block(h, at, h.block[at].len)
           right == IF Adjacent(linked, at, cur) THEN Absorb(linked, at, cur) ELSE linked
<1> HIDE DEF prev, cur, linked, right
<1>1. /\ IsHeap(h) /\ Chain(h, S) /\ Boundary(top) /\ top \in HEAP_START .. HEAP_END
      /\ at \in Address /\ at \in Nat
  <2>1. IsHeap(h) /\ Chain(h, S) /\ Boundary(top)
    BY DEF Sound, Good
  <2> QED BY <2>1, BoundaryFacts, HeaderFacts
<1>2. prev \in S \cup {NULL} /\ prev \in Nat /\ prev < at
  BY <1>1, NeighbourFacts DEF prev
<1>3. Linked(linked, h, S, at, top)
  BY LinkedFacts DEF linked
<1> HIDE DEF S, row
<1>4. /\ Good(linked, S1, top) /\ linked.block[at].used = FALSE
      /\ Link(linked, at) = cur /\ Link(linked, prev) = at
      /\ Held(linked) = Held(h) \ {row} /\ at \in S1
      /\ \A x, y \in DOMAIN linked.block :
           FreePair(linked, x, y) => Boundary(y) \/ x = at \/ y = at
  BY <1>3 DEF Linked, row, prev, cur
<1> HIDE DEF S1
<1>5. PICK T : Merger(right, linked, S1, T, at, top)
  <2> DEFINE c == Link(linked, at)
  <2>1. right = IF Adjacent(linked, at, c) THEN Absorb(linked, at, c) ELSE linked
    BY <1>4 DEF right
  <2> HIDE DEF c
  <2>2. c = Link(linked, at)
    BY DEF c
  <2> QED BY <1>1, <1>4, <2>1, <2>2, MergeFacts
<1>6. /\ Good(right, T, top) /\ Held(right) = Held(h) \ {row}
      /\ at \in T /\ prev \in T \cup {NULL} /\ Link(right, prev) = at
  <2>1. prev \in S1 \cup {NULL}
    BY <1>2 DEF S1
  <2> QED BY <1>2, <1>4, <1>5, <2>1 DEF Merger, Joined
<1>7. \A x, y \in DOMAIN right.block : FreePair(right, x, y) => Boundary(y) \/ y = at
  <2> SUFFICES ASSUME NEW x \in DOMAIN right.block, NEW y \in DOMAIN right.block,
                      FreePair(right, x, y)
               PROVE  Boundary(y) \/ y = at
    OBVIOUS
  <2>1. PICK z \in DOMAIN linked.block \ {at} : FreePair(linked, z, y)
    BY <1>5 DEF Merger, Joined
  <2>2. y \in DOMAIN linked.block
    BY <2>1 DEF FreePair
  <2> QED BY <1>4, <2>1, <2>2
<1>8. \E U : Good(g, U, top) /\ Held(g) = Held(h) \ {row} /\ Merged(g)
  <2>1. IsHeap(right) /\ T \subseteq DOMAIN right.block
    BY <1>6 DEF Good, Chain
  <2>2. CASE prev # NULL /\ ~right.block[prev].used
    <3>1. g = IF Adjacent(right, prev, at) THEN Absorb(right, prev, at) ELSE right
      BY <2>2 DEF Release, prev, cur, linked, right
    <3>2. prev \in T /\ right.block[prev].used = FALSE
      <4>1. prev \in T
        BY <1>6, <2>2
      <4>2. right.block[prev].used \in BOOLEAN
        BY <2>1, <4>1, HeaderFacts
      <4> QED BY <2>2, <4>1, <4>2
    <3>3. PICK U : Merger(g, right, T, U, prev, top)
      BY <1>1, <1>6, <3>1, <3>2, MergeFacts
    <3>4. Merged(g)
      <4> SUFFICES ASSUME NEW x \in DOMAIN g.block, NEW y \in DOMAIN g.block,
                          FreePair(g, x, y)
                   PROVE  Boundary(y)
        BY DEF Merged
      <4>1. PICK z \in DOMAIN right.block \ {prev} : FreePair(right, z, y)
        BY <3>3 DEF Merger, Joined
      <4>2. y \in DOMAIN right.block
        BY <4>1 DEF FreePair
      <4>3. ~FreePair(right, z, at)
        BY <1>1, <1>6, <4>1, NothingBefore
      <4>4. y # at
        BY <4>1, <4>3
      <4> QED BY <1>7, <4>1, <4>2, <4>4
    <3> QED BY <1>6, <3>3, <3>4 DEF Merger, Joined
  <2>3. CASE ~(prev # NULL /\ ~right.block[prev].used)
    <3>1. g = right
      BY <2>3 DEF Release, prev, cur, linked, right
    <3>2. Merged(right)
      <4> SUFFICES ASSUME NEW x \in DOMAIN right.block, NEW y \in DOMAIN right.block,
                          FreePair(right, x, y)
                   PROVE  Boundary(y)
        BY DEF Merged
      <4>1. x # prev
        <5>1. ~right.block[x].used /\ x # NULL
          BY <2>1, HeaderFacts DEF FreePair
        <5> QED BY <2>3, <5>1
      <4>2. y # at
        BY <1>1, <1>6, <4>1, NothingBefore
      <4> QED BY <1>7, <4>2
    <3> QED BY <1>6, <3>1, <3>2
  <2> QED BY <2>2, <2>3
<1>9. PICK U : Good(g, U, top) /\ Held(g) = Held(h) \ {row} /\ Merged(g)
  BY <1>8
<1>10. Listed(g) = U
  BY <1>9, ListedFacts DEF Good
<1> QED BY <1>1, <1>9, <1>10 DEF Sound, row

-----------------------------------------------------------------------------
(* The invariant holds                                                     *)

LEMMA InitHolds == Init => HeapInv
<1> SUFFICES ASSUME Init PROVE HeapInv
  OBVIOUS
<1>1. heap = [head |-> NULL, block |-> <<>>] /\ heap_next_virt = HEAP_START /\ live = {}
  BY DEF Init
<1> DEFINE h == heap
<1>2. h.head = NULL /\ h.block = <<>> /\ DOMAIN h.block = {}
  BY <1>1
<1>3. HEAP_START \in Nat /\ PAGE_SIZE \in Nat /\ HEAP_PAGES \in Nat
  BY Constants
<1>4. IsHeap(h)
  <2>1. h = [head |-> h.head, block |-> h.block]
    BY <1>1, <1>2
  <2>2. <<>> \in [{} -> Header]
    OBVIOUS
  <2> QED BY <1>2, <2>1, <2>2 DEF IsHeap
<1>5. Chain(h, {})
  BY <1>2 DEF Chain, Follows, Link
<1>6. Listed(h) = {}
  <2> HIDE DEF h
  <2> QED BY <1>4, <1>5, ListedFacts
<1>7. Tiles(h, HEAP_START)
  <2>1. HEAP_START .. HEAP_START - 1 = {}
    BY <1>3
  <2> QED BY <1>2, <2>1 DEF Tiles
<1>8. Boundary(HEAP_START)
  <2>1. HEAP_START = HEAP_START + PAGE_SIZE * 0 /\ 0 \in 0 .. HEAP_PAGES
    BY <1>3
  <2> QED BY <2>1 DEF Boundary
<1>9. FreeListed(h, {}) /\ Merged(h) /\ Held(h) = {}
  BY <1>2 DEF FreeListed, Merged, Held
<1> QED BY <1>1, <1>4, <1>5, <1>6, <1>7, <1>8, <1>9 DEF HeapInv, Sound, Good

\* What a page or more of room means.
LEMMA RoomFacts ==
  ASSUME Boundary(heap_next_virt), NEW n \in Nat, n <= PagesLeft
  PROVE  heap_next_virt + n * PAGE_SIZE <= HEAP_END
<1> DEFINE p == PAGE_SIZE
           left == PagesLeft
           top == heap_next_virt
<1>1. /\ left \in Nat /\ top + left * p = HEAP_END /\ top \in Nat
      /\ p \in Nat \ {0} /\ HEAP_END \in Nat /\ n <= left
  BY BoundaryFacts, Constants DEF PagesLeft
<1> HIDE DEF p, left, top
<1>2. p * n <= p * left
  BY <1>1, Multiples
<1>3. p * n = n * p /\ p * left = left * p /\ n * p \in Nat /\ left * p \in Nat
  BY <1>1
<1>4. top + n * p <= HEAP_END
  BY <1>1, <1>2, <1>3
<1> QED BY <1>4 DEF p, top

LEMMA MallocStep ==
  ASSUME HeapInv, NEW size \in Sizes, kmalloc(size)
  PROVE  /\ HEADER + size <= PAGE_SIZE /\ HeapInv'
         /\ \/ heap_next_virt' = heap_next_virt
            \/ /\ heap_next_virt' = heap_next_virt + PAGE_SIZE
               /\ NoFit(heap, HEADER + size)
         /\ \E b : /\ Taken(heap', heap, b, HEADER + size)
                   /\ live' = live \cup {[at |-> b, size |-> heap'.block[b].len]}
<1> DEFINE needed == HEADER + size
           fit == find_fit(heap, needed)
           ready == IF fit # NULL THEN heap ELSE heap_grow(heap, heap_next_virt, 1)
           b == find_fit(ready, needed)
           taken == TakeBlock(ready, b, needed)
           top == heap_next_virt
           next == IF fit # NULL THEN top ELSE top + PAGE_SIZE
<1>1. /\ needed <= PAGE_SIZE /\ (fit # NULL \/ PagesLeft > 0)
      /\ heap' = taken
      /\ live' = live \cup {[at |-> b, size |-> taken.block[b].len]}
      /\ heap_next_virt' = next
  BY DEF kmalloc, Grant
<1>2. Sound(heap, top) /\ live = Held(heap)
  BY DEF HeapInv
<1>3. needed \in Nat /\ needed >= min_split
  BY Constants
<1>4. fit # NULL \/ top + PAGE_SIZE <= HEAP_END
  <2> SUFFICES ASSUME PagesLeft > 0 PROVE top + PAGE_SIZE <= HEAP_END
    BY <1>1
  <2>1. Boundary(heap_next_virt)
    BY <1>2 DEF Sound
  <2>2. PagesLeft \in Nat
    BY <2>1, BoundaryFacts DEF PagesLeft
  <2>3. 1 <= PagesLeft /\ 1 * PAGE_SIZE = PAGE_SIZE
    BY <2>2, Constants
  <2> QED BY <2>1, <2>3, RoomFacts
<1> HIDE DEF needed, top
<1>5. /\ fit = find_fit(heap, needed)
      /\ ready = IF fit # NULL THEN heap ELSE heap_grow(heap, top, 1)
      /\ b = find_fit(ready, needed) /\ taken = TakeBlock(ready, b, needed)
  BY DEF top
<1> HIDE DEF fit, ready, b, taken
<1>6. /\ Taken(taken, heap, b, needed)
      /\ Sound(taken, IF fit # NULL THEN top ELSE top + PAGE_SIZE)
      /\ fit = NULL => NoFit(heap, needed)
  BY <1>1, <1>2, <1>3, <1>4, <1>5, MallocFacts
<1>7. live' = Held(heap')
  BY <1>1, <1>2, <1>6 DEF Taken, AlsoHeld
<1>8. Sound(heap', heap_next_virt')
  BY <1>1, <1>6
<1>9. HeapInv'
  BY <1>7, <1>8 DEF HeapInv
<1> QED BY <1>1, <1>6, <1>9 DEF needed, top

LEMMA PagesStep ==
  ASSUME HeapInv, NEW size \in Sizes, kmalloc_pages(size)
  PROVE  HeapInv' /\ heap_next_virt' <= HEAP_END
<1> DEFINE needed == HEADER + size
           p == PAGE_SIZE
           pages == (needed + p - 1) \div p
           top == heap_next_virt
           words == pages * p
<1>1. /\ needed > p /\ pages <= PagesLeft
      /\ heap' = TakePages(heap_grow(heap, top, pages), top, words, pages)
      /\ live' = live \cup {[at |-> top, size |-> words]}
      /\ heap_next_virt' = top + words
  BY DEF kmalloc_pages, TakePages, Inner
<1>2. Sound(heap, top) /\ live = Held(heap) /\ Boundary(top)
  BY DEF HeapInv, Sound
<1>3. pages \in Nat /\ pages >= 2
  <2>1. needed \in Nat /\ p \in Nat \ {0}
    BY Constants
  <2> DEFINE n == needed + p - 1
  <2>2. n \in Nat /\ p * 2 <= n
    BY <1>1, <2>1
  <2> HIDE DEF n, p
  <2>3. n \div p \in Nat /\ (2 <= n \div p <=> p * 2 <= n)
    BY <2>1, <2>2, Division, Quotient
  <2> QED BY <2>2, <2>3 DEF n
<1> HIDE DEF pages
<1>4. Fits(top, pages, words)
  BY <1>1, <1>2, <1>3, RoomFacts DEF Fits
<1> HIDE DEF words, top, p
<1>5. /\ Sound(heap', top + words) /\ AlsoHeld(heap', heap, top)
      /\ top \in DOMAIN heap'.block /\ heap'.block[top].len = words
  BY <1>1, <1>2, <1>3, <1>4, PagesFacts
<1>6. live' = Held(heap')
  BY <1>1, <1>2, <1>5 DEF AlsoHeld
<1> QED BY <1>1, <1>4, <1>5, <1>6 DEF HeapInv, Fits

LEMMA FailsStep ==
  ASSUME HeapInv, NEW size \in Sizes, kmalloc_pages_fails(size)
  PROVE  HeapInv'
<1> DEFINE top == heap_next_virt
           n == PagesLeft
<1>1. /\ heap' = heap_grow(heap, top, n) /\ heap_next_virt' = HEAP_END /\ live' = live
  BY DEF kmalloc_pages_fails
<1>2. Sound(heap, top) /\ live = Held(heap) /\ Boundary(top)
  BY DEF HeapInv, Sound
<1>3. n \in Nat /\ top + n * PAGE_SIZE = HEAP_END
  BY <1>2, BoundaryFacts DEF PagesLeft
<1> HIDE DEF n, top
<1>4. Sound(heap', HEAP_END) /\ Held(heap') = Held(heap)
  BY <1>1, <1>2, <1>3, MoreFacts
<1> QED BY <1>1, <1>2, <1>4 DEF HeapInv

LEMMA FreeStep ==
  ASSUME HeapInv, ~FreesPages, NEW b \in live, kfree(b)
  PROVE  HeapInv'
<1> DEFINE h == heap
           at == b.at
           l == h.block[at].len
           top == heap_next_virt
<1>1. Sound(h, top) /\ live = Held(h)
  BY DEF HeapInv
<1>2. at \in DOMAIN h.block /\ h.block[at].used /\ b = [at |-> at, size |-> l]
  <2>1. PICK a \in DOMAIN h.block : h.block[a].used /\ b = [at |-> a, size |-> h.block[a].len]
    BY <1>1 DEF Held
  <2>2. b.at = a
    BY <2>1
  <2> QED BY <2>1, <2>2
<1>3. h.block[at].used = TRUE
  BY <1>1, <1>2, HeaderFacts DEF Sound, Good
<1>4. l < 2 * PAGE_SIZE
  <2>1. b.size = l
    BY <1>2
  <2> QED BY <2>1 DEF kfree
<1>5. heap' = Release(h, at) /\ live' = live \ {b} /\ heap_next_virt' = top
  BY DEF kfree, add_block, Release
<1> HIDE DEF at, top
<1>6. Sound(heap', top) /\ Held(heap') = Held(h) \ {[at |-> at, size |-> h.block[at].len]}
  BY <1>1, <1>2, <1>3, <1>4, <1>5, FreeFacts
<1> QED BY <1>1, <1>2, <1>5, <1>6 DEF HeapInv

\* A block of several pages is still listed, and may be before blocks that it
\* took in: the lists are those of the invariant while none is given back.
THEOREM HeapInvariance == ASSUME ~FreesPages PROVE Spec => []HeapInv
<1>1. HeapInv /\ [Next]_vars => HeapInv'
  <2> SUFFICES ASSUME HeapInv, [Next]_vars PROVE HeapInv'
    OBVIOUS
  <2>1. ASSUME NEW size \in Sizes, kmalloc(size) PROVE HeapInv'
    BY <2>1, MallocStep
  <2>2. ASSUME NEW size \in Sizes, kmalloc_pages(size) PROVE HeapInv'
    BY <2>2, PagesStep
  <2>3. ASSUME NEW size \in Sizes, kmalloc_pages_fails(size) PROVE HeapInv'
    BY <2>3, FailsStep
  <2>4. ASSUME NEW b \in live, kfree(b) PROVE HeapInv'
    BY <2>4, FreeStep
  <2>5. CASE UNCHANGED vars
    BY <2>5 DEF vars, HeapInv
  <2> QED BY <2>1, <2>2, <2>3, <2>4, <2>5 DEF Next
<1> QED BY <1>1, InitHolds, PTL DEF Spec

-----------------------------------------------------------------------------
(* What the invariant says of words                                        *)

LEMMA SoundFacts ==
  ASSUME NEW h, NEW top, Sound(h, top)
  PROVE  /\ \A a \in DOMAIN h.block : /\ a \in Nat /\ HEAP_START <= a /\ h.block[a].len \in Nat
                                      /\ h.block[a].len >= min_split
                                      /\ End(h, a) = a + h.block[a].len /\ End(h, a) \in Nat
                                      /\ a < End(h, a) /\ End(h, a) <= top
         /\ \A a, c \in DOMAIN h.block : a < c => End(h, a) <= c
         /\ \A w \in HEAP_START .. top - 1 :
              \E a \in DOMAIN h.block : a <= w /\ w < End(h, a)
         /\ top \in Nat /\ top <= HEAP_END /\ HEAP_START \in Nat /\ HEAP_END \in Nat
<1>1. IsHeap(h) /\ Tiles(h, top) /\ top \in HEAP_START .. HEAP_END /\ top \in Nat
  BY BoundaryFacts DEF Sound, Good
<1>2. HEAP_START \in Nat /\ HEAP_END \in Nat
  BY Constants
<1>3. /\ \A a \in DOMAIN h.block : /\ a \in Nat /\ HEAP_START <= a /\ h.block[a].len \in Nat
                                   /\ h.block[a].len >= min_split
                                   /\ End(h, a) = a + h.block[a].len /\ End(h, a) \in Nat
                                   /\ a < End(h, a) /\ End(h, a) <= top
      /\ \A a, c \in DOMAIN h.block : a < c => End(h, a) <= c
  BY <1>1, TileFacts
<1>4. \A w \in HEAP_START .. top - 1 :
              \E a \in DOMAIN h.block : a <= w /\ w < End(h, a)
  BY <1>1 DEF Tiles
<1> QED BY <1>1, <1>2, <1>3, <1>4

\* The words of two blocks have nothing in common.
LEMMA Apart ==
  ASSUME NEW h, NEW top, Sound(h, top), NEW a \in DOMAIN h.block, NEW c \in DOMAIN h.block,
         a # c
  PROVE  (a .. a + h.block[a].len - 1) \cap (c .. c + h.block[c].len - 1) = {}
<1>1. /\ a \in Nat /\ c \in Nat /\ h.block[a].len \in Nat /\ h.block[c].len \in Nat
      /\ End(h, a) = a + h.block[a].len /\ End(h, c) = c + h.block[c].len
      /\ a < c => End(h, a) <= c
      /\ c < a => End(h, c) <= a
  BY SoundFacts
<1> DEFINE l == h.block[a].len m == h.block[c].len
<1>2. l \in Nat /\ m \in Nat /\ (a < c => a + l <= c) /\ (c < a => c + m <= a)
  BY <1>1
<1> HIDE DEF l, m
<1>3. (a .. a + l - 1) \cap (c .. c + m - 1) = {}
  BY <1>1, <1>2
<1> QED BY <1>3 DEF l, m

\* What is held and what is free are the blocks, used or not.
LEMMA BlocksFacts ==
  ASSUME HeapInv
  PROVE  /\ \A b \in live \cup FreeBlocks :
              b.at \in DOMAIN heap.block /\ b = [at |-> b.at, size |-> heap.block[b.at].len]
         /\ \A a \in DOMAIN heap.block :
              [at |-> a, size |-> heap.block[a].len] \in live \cup FreeBlocks
         /\ live \cap FreeBlocks = {}
<1> DEFINE row(a) == [at |-> a, size |-> heap.block[a].len]
           D == DOMAIN heap.block
           S == Listed(heap)
<1>1. /\ S \subseteq D /\ FreeListed(heap, S) /\ live = Held(heap)
  BY DEF HeapInv, Sound, Good, Chain
<1>2. live = {row(a) : a \in {a \in D : heap.block[a].used}}
  BY <1>1 DEF Held
<1>3. FreeBlocks = {row(a) : a \in {a \in D : ~heap.block[a].used}}
  <2>1. {a \in S : ~heap.block[a].used} = {a \in D : ~heap.block[a].used}
    BY <1>1 DEF FreeListed
  <2> HIDE DEF S
  <2> QED BY <2>1 DEF FreeBlocks, S
<1>4. \A b \in live \cup FreeBlocks : \E a \in D : b = row(a)
  BY <1>2, <1>3
<1>5. \A b \in live \cup FreeBlocks : b.at \in D /\ b = row(b.at)
  <2> TAKE b \in live \cup FreeBlocks
  <2>1. PICK a \in D : b = row(a)
    BY <1>4
  <2>2. b.at = a
    BY <2>1
  <2> QED BY <2>1, <2>2
<1>6. \A a \in D : row(a) \in live \cup FreeBlocks
  BY <1>2, <1>3
<1>7. live \cap FreeBlocks = {}
  <2> SUFFICES ASSUME NEW b \in live, b \in FreeBlocks PROVE FALSE
    OBVIOUS
  <2>1. PICK a \in D : heap.block[a].used /\ b = row(a)
    BY <1>2
  <2>2. PICK c \in D : ~heap.block[c].used /\ b = row(c)
    BY <1>3
  <2>3. b.at = a /\ b.at = c
    BY <2>1, <2>2
  <2> QED BY <2>1, <2>2, <2>3
<1> QED BY <1>5, <1>6, <1>7

LEMMA TypesFollow == HeapInv => TypeOK
<1> SUFFICES ASSUME HeapInv PROVE TypeOK
  OBVIOUS
<1>1. IsHeap(heap) /\ Boundary(heap_next_virt) /\ live = Held(heap) /\ Sound(heap, heap_next_virt)
  BY DEF HeapInv, Sound, Good
<1>2. \A a \in DOMAIN heap.block : heap.block[a] \in Header
  BY <1>1 DEF IsHeap
<1>3. heap_next_virt \in HEAP_START .. HEAP_END
  BY <1>1, BoundaryFacts
<1>4. (heap_next_virt - HEAP_START) % PAGE_SIZE = 0
  <2>1. PICK k \in 0 .. HEAP_PAGES : heap_next_virt = HEAP_START + PAGE_SIZE * k
    BY <1>1 DEF Boundary
  <2> DEFINE p == PAGE_SIZE m == p * k
  <2>2. k \in Nat /\ p \in Nat \ {0} /\ HEAP_START \in Nat /\ m \in Nat
    BY Constants
  <2>3. m % p = 0
    <3>1. m \div p = k
      <4>1. k <= m \div p /\ m \div p < k + 1
        <5>1. p * k <= m /\ m < p * (k + 1)
          BY <2>2, Multiples
        <5> HIDE DEF m, p
        <5> QED BY <2>2, <5>1, Quotient
      <4>2. m \div p \in Nat
        BY <2>2, Division
      <4> HIDE DEF m, p
      <4> QED BY <2>2, <4>1, <4>2
    <3> HIDE DEF p
    <3>2. m % p = m - p * (m \div p)
      BY <2>2
    <3> QED BY <2>2, <3>1, <3>2
  <2>4. heap_next_virt - HEAP_START = m
    BY <2>1, <2>2
  <2> QED BY <2>3, <2>4
<1>5. ASSUME NEW b \in live PROVE b.at \in Address /\ b.size \in 1 .. HEAP_END
  <2>1. b.at \in DOMAIN heap.block /\ b = [at |-> b.at, size |-> heap.block[b.at].len]
    BY BlocksFacts
  <2> DEFINE a == b.at l == heap.block[b.at].len
  <2>2. a \in Address
    BY <1>1, <2>1, HeaderFacts
  <2>3. /\ a \in Nat /\ HEAP_START <= a /\ l \in Nat /\ End(heap, a) = a + l
        /\ a < End(heap, a) /\ End(heap, a) <= heap_next_virt
        /\ heap_next_virt \in Nat /\ heap_next_virt <= HEAP_END /\ HEAP_END \in Nat
    BY <1>1, <2>1, SoundFacts
  <2>4. b.size = l
    BY <2>1
  <2> HIDE DEF a, l
  <2>5. l \in 1 .. HEAP_END
    BY <2>3
  <2> QED BY <2>2, <2>4, <2>5 DEF a
<1> QED BY <1>1, <1>2, <1>3, <1>4, <1>5 DEF TypeOK, IsHeap

LEMMA TilingFollows == HeapInv => Tiling
<1> SUFFICES ASSUME HeapInv PROVE Tiling
  OBVIOUS
<1> DEFINE D == DOMAIN heap.block
           B == live \cup FreeBlocks
           top == heap_next_virt
<1>1. Sound(heap, top)
  BY DEF HeapInv
<1>2. \A b \in B : b.at \in D /\ b = [at |-> b.at, size |-> heap.block[b.at].len]
  BY BlocksFacts
<1>3. \A b \in B : Words(b.at, b.size) = b.at .. b.at + heap.block[b.at].len - 1
  <2> TAKE b \in B
  <2>1. b.size = heap.block[b.at].len
    <3> DEFINE a == b.at l == heap.block[b.at].len
    <3>1. b = [at |-> a, size |-> l]
      BY <1>2
    <3> HIDE DEF a, l
    <3>2. b.size = l
      BY <3>1
    <3> QED BY <3>2 DEF l
  <2> QED BY <2>1 DEF Words
<1>4. ASSUME NEW b \in B, NEW c \in B, b # c
      PROVE  Words(b.at, b.size) \cap Words(c.at, c.size) = {}
  <2>1. b.at \in D /\ c.at \in D /\ b.at # c.at
    BY <1>2, <1>4
  <2>2. (b.at .. b.at + heap.block[b.at].len - 1) \cap (c.at .. c.at + heap.block[c.at].len - 1) = {}
    BY <1>1, <2>1, Apart
  <2> QED BY <1>3, <2>2
<1>5. live \cap FreeBlocks = {}
  BY BlocksFacts
<1>6. UNION {Words(b.at, b.size) : b \in B} = HEAP_START .. top - 1
  <2>1. ASSUME NEW b \in B, NEW w \in Words(b.at, b.size) PROVE w \in HEAP_START .. top - 1
    <3> DEFINE a == b.at l == heap.block[b.at].len
    <3>1. w \in a .. a + l - 1 /\ a \in D
      BY <1>2, <1>3, <2>1
    <3>2. /\ a \in Nat /\ HEAP_START <= a /\ l \in Nat /\ End(heap, a) = a + l
          /\ End(heap, a) <= top /\ top \in Nat /\ HEAP_START \in Nat
      BY <1>1, <3>1, SoundFacts
    <3> HIDE DEF a, l, top
    <3> QED BY <3>1, <3>2
  <2>2. ASSUME NEW w \in HEAP_START .. top - 1 PROVE \E b \in B : w \in Words(b.at, b.size)
    <3>1. PICK a \in D : a <= w /\ w < End(heap, a)
      BY <1>1, SoundFacts
    <3>2. End(heap, a) = a + heap.block[a].len /\ a \in Nat /\ heap.block[a].len \in Nat
      BY <1>1, SoundFacts
    <3> DEFINE l == heap.block[a].len b == [at |-> a, size |-> l]
    <3>3. b \in B
      BY BlocksFacts
    <3>4. w \in Int
      OBVIOUS
    <3> HIDE DEF B, D
    <3>5. Words(b.at, b.size) = a .. a + l - 1
      BY DEF Words
    <3> HIDE DEF b, l
    <3>6. w \in a .. a + l - 1
      BY <3>1, <3>2, <3>4 DEF l
    <3> QED BY <3>3, <3>5, <3>6
  <2> HIDE DEF B
  <2> QED BY <2>1, <2>2
<1> QED BY <1>4, <1>5, <1>6 DEF Tiling

LEMMA SortedFollows == HeapInv => ListSorted
<1> SUFFICES ASSUME HeapInv PROVE ListSorted
  OBVIOUS
<1> DEFINE S == Listed(heap)
<1>1. IsHeap(heap) /\ Chain(heap, S) /\ S \subseteq DOMAIN heap.block
  BY DEF HeapInv, Sound, Good, Chain
<1> SUFFICES ASSUME NEW a \in S, heap.block[a].next # NULL
             PROVE  heap.block[a].next \in DOMAIN heap.block /\ a < heap.block[a].next
  BY DEF ListSorted
<1>2. a # NULL /\ Follows(S, a, Link(heap, a))
  BY <1>1, ChainFacts, Constants
<1>3. Link(heap, a) = heap.block[a].next
  BY <1>2 DEF Link
<1> QED BY <1>1, <1>2, <1>3 DEF Follows

\* The types, whatever is asked of the heap and given back to it.
THEOREM TypeCorrect == ASSUME ~FreesPages PROVE Spec => []TypeOK
<1> QED BY HeapInvariance, TypesFollow, PTL

\* No word is held twice or held and free at once, and none is lost: merging
\* and splitting keep the blocks one after the other.
THEOREM TilingCorrect == ASSUME ~FreesPages PROVE Spec => []Tiling
<1> QED BY HeapInvariance, TilingFollows, PTL

\* The list stays sorted by address, so that its walks end.
THEOREM SortedCorrect == ASSUME ~FreesPages PROVE Spec => []ListSorted
<1> QED BY HeapInvariance, SortedFollows, PTL

-----------------------------------------------------------------------------
(* The allocator                                                           *)

\* Where first fit finds nothing, no page has a gap of that size: a gap would
\* lie in one free block, or in two that meet inside a page.
LEMMA NoGap ==
  ASSUME HeapInv, NEW needed \in Nat \ {0}, needed <= PAGE_SIZE, NoFit(heap, needed)
  PROVE  ~Promise!GapInPage(needed)
<1> DEFINE h == heap
           top == heap_next_virt
           D == DOMAIN h.block
<1> SUFFICES ASSUME NEW at \in HEAP_START .. top - 1,
                    Promise!Unheld([at |-> at, size |-> needed], top),
                    ((at - HEAP_START) % PAGE_SIZE) + needed <= PAGE_SIZE
             PROVE  FALSE
  BY DEF Promise!GapInPage
<1>1. Sound(h, top) /\ live = Held(h) /\ Merged(h)
  BY DEF HeapInv, Sound
<1>2. /\ \A a \in D : /\ a \in Nat /\ HEAP_START <= a /\ h.block[a].len \in Nat
                      /\ End(h, a) = a + h.block[a].len /\ End(h, a) \in Nat
                      /\ a < End(h, a) /\ End(h, a) <= top
      /\ \A a, c \in D : a < c => End(h, a) <= c
      /\ \A w \in HEAP_START .. top - 1 : \E a \in D : a <= w /\ w < End(h, a)
      /\ top \in Nat /\ HEAP_START \in Nat
  BY <1>1, SoundFacts
<1>3. /\ at .. at + needed - 1 \subseteq HEAP_START .. top - 1
      /\ \A c \in live : (at .. at + needed - 1) \cap (c.at .. c.at + c.size - 1) = {}
  BY DEF Promise!Unheld, Promise!Words
<1>4. at \in Nat /\ at + needed <= top
  <2>1. at \in Nat
    BY <1>2
  <2>2. at + needed - 1 \in at .. at + needed - 1
    BY <2>1
  <2>3. at + needed - 1 <= top - 1
    BY <1>3, <2>2
  <2> QED BY <1>2, <2>1, <2>3
\* a block that has one of these words is free
<1>5. ASSUME NEW a \in D, NEW w \in at .. at + needed - 1, a <= w, w < End(h, a)
      PROVE  ~h.block[a].used
  <2> SUFFICES ASSUME h.block[a].used PROVE FALSE
    OBVIOUS
  <2> DEFINE l == h.block[a].len c == [at |-> a, size |-> l]
  <2>1. c \in live
    BY <1>1 DEF Held
  <2>2. (at .. at + needed - 1) \cap (a .. a + l - 1) = {}
    <3>1. c.at = a /\ c.size = l
      OBVIOUS
    <3> HIDE DEF c, l
    <3> QED BY <1>3, <2>1, <3>1
  <2>3. a \in Nat /\ l \in Nat /\ End(h, a) = a + l
    BY <1>2
  <2> HIDE DEF l
  <2>4. w \in a .. a + l - 1
    BY <1>4, <1>5, <2>3
  <2> QED BY <2>2, <2>4
<1>6. PICK a \in D : a <= at /\ at < End(h, a)
  BY <1>2
<1> DEFINE c == End(h, a)
<1>7. ~h.block[a].used
  <2>1. at \in at .. at + needed - 1
    BY <1>4
  <2> QED BY <1>5, <1>6, <2>1
<1>8. c < at + needed
  <2>1. h.block[a].len < needed
    BY <1>7 DEF NoFit
  <2> QED BY <1>2, <1>4, <1>6, <2>1
<1>9. c \in at .. at + needed - 1 /\ c \in HEAP_START .. top - 1 /\ c \in Nat
  BY <1>2, <1>4, <1>6, <1>8
<1>10. PICK d \in D : d <= c /\ c < End(h, d)
  BY <1>2, <1>9
<1>11. d = c
  <2>1. d # a
    BY <1>2, <1>10
  <2>2. /\ a \in Nat /\ d \in Nat /\ c \in Nat /\ End(h, d) \in Nat /\ a < c
        /\ (d < a => End(h, d) <= a) /\ (a < d => c <= d)
    BY <1>2
  <2> HIDE DEF c
  <2>3. a < d
    BY <1>10, <2>1, <2>2
  <2> QED BY <1>10, <2>2, <2>3
<1>12. ~h.block[d].used
  BY <1>5, <1>9, <1>10
<1>13. FreePair(h, a, d)
  BY <1>7, <1>11, <1>12 DEF FreePair
<1>14. Boundary(d)
  BY <1>1, <1>13 DEF Merged
<1>15. PICK k \in 0 .. HEAP_PAGES : d = HEAP_START + PAGE_SIZE * k
  BY <1>14 DEF Boundary
<1> DEFINE p == PAGE_SIZE
           n == at - HEAP_START
           q == n \div p
<1>16. p \in Nat \ {0} /\ n \in Nat /\ k \in Nat /\ at = HEAP_START + n
  BY <1>2, <1>4, Constants
<1>17. (n % p) + needed <= p
  OBVIOUS
<1> HIDE DEF n, p, c
<1> DEFINE m == n % p
<1>18. q \in Nat /\ m = n - p * q /\ m \in Nat
  <2>1. n \div p \in Nat
    BY <1>16, Division
  <2>2. n % p \in Nat
    BY <1>16
  <2>3. n % p = n - p * (n \div p)
    BY <1>16
  <2> QED BY <2>1, <2>2, <2>3
<1>19. m + needed <= p
  BY <1>17
<1> HIDE DEF m, q
<1>20. p * k \in Nat /\ p * q \in Nat /\ p * (q + 1) = p * q + p
  BY <1>16, <1>18, Multiples
<1>21. at < d /\ d < at + needed /\ d = HEAP_START + p * k
  BY <1>6, <1>8, <1>11, <1>15 DEF c, p
<1>22. p * q < p * k /\ p * k < p * (q + 1)
  <2> DEFINE x == p * q y == p * k
  <2>1. /\ x \in Nat /\ y \in Nat /\ p * (q + 1) = x + p /\ m = n - x
        /\ at < d /\ d < at + needed /\ d = HEAP_START + y
    BY <1>18, <1>20, <1>21
  <2> HIDE DEF x, y
  <2>2. x < y /\ y < x + p
    BY <1>2, <1>16, <1>18, <1>19, <2>1
  <2> QED BY <2>1, <2>2 DEF x, y
<1>23. q < k /\ k < q + 1
  BY <1>16, <1>18, <1>22, Multiples
<1> QED BY <1>16, <1>18, <1>23

\* What is taken was nobody's.
LEMMA TakenUnheld ==
  ASSUME HeapInv, HeapInv', NEW needed \in Nat \ {0}, NEW b, Taken(heap', heap, b, needed)
  PROVE  /\ b \in HEAP_START .. heap_next_virt' - 1
         /\ Promise!Unheld([at |-> b, size |-> heap'.block[b].len], heap_next_virt')
<1> DEFINE g == heap'
           top == heap_next_virt'
           l == g.block[b].len
<1>1. Sound(g, top) /\ live = Held(heap)
  BY DEF HeapInv
<1>2. /\ b \in DOMAIN g.block /\ Held(heap) \subseteq Held(g)
      /\ \A c \in Held(heap) : c.at # b
  BY DEF Taken, AlsoHeld
<1>3. /\ b \in Nat /\ HEAP_START <= b /\ l \in Nat /\ End(g, b) = b + l
      /\ b < End(g, b) /\ End(g, b) <= top /\ top \in Nat /\ HEAP_START \in Nat
  BY <1>1, <1>2, SoundFacts
<1>4. ASSUME NEW c \in live
      PROVE  (b .. b + l - 1) \cap (c.at .. c.at + c.size - 1) = {}
  <2>1. PICK a \in DOMAIN g.block : c = [at |-> a, size |-> g.block[a].len]
    BY <1>1, <1>2 DEF Held
  <2>2. c.at = a /\ c.size = g.block[a].len /\ a # b
    BY <1>1, <1>2, <2>1
  <2>3. (b .. b + g.block[b].len - 1) \cap (a .. a + g.block[a].len - 1) = {}
    BY <1>1, <1>2, <2>2, Apart
  <2> QED BY <2>2, <2>3
<1>5. b .. b + l - 1 \subseteq HEAP_START .. top - 1 /\ b \in HEAP_START .. top - 1
  <2> HIDE DEF l, top
  <2> QED BY <1>3
<1> DEFINE r == [at |-> b, size |-> l]
<1>6. r.at = b /\ r.size = l
  OBVIOUS
<1> HIDE DEF r, l
<1>7. Promise!Unheld(r, top)
  BY <1>4, <1>5, <1>6 DEF Promise!Unheld, Promise!Words
<1> QED BY <1>5, <1>7 DEF r, l

\* A step of the list is a step of the allocator.
LEMMA AllocatorStep ==
  ASSUME HeapInv, ~FreesPages, Next
  PROVE  Promise!Next
<1>1. ASSUME NEW size \in Sizes, kmalloc(size) PROVE Promise!Alloc(size)
  <2> DEFINE needed == HEADER + size
  <2>1. /\ needed <= PAGE_SIZE /\ HeapInv'
        /\ \/ heap_next_virt' = heap_next_virt
           \/ heap_next_virt' = heap_next_virt + PAGE_SIZE /\ NoFit(heap, needed)
    BY <1>1, MallocStep
  <2>2. PICK b : /\ Taken(heap', heap, b, needed)
                 /\ live' = live \cup {[at |-> b, size |-> heap'.block[b].len]}
    BY <1>1, MallocStep
  <2>3. needed \in Nat \ {0}
    BY Constants
  <2> HIDE DEF needed
  <2>4. \/ heap_next_virt' = heap_next_virt
        \/ ~Promise!GapInPage(needed) /\ heap_next_virt' = heap_next_virt + PAGE_SIZE
    BY <2>1, <2>3, NoGap
  <2>5. /\ b \in HEAP_START .. heap_next_virt' - 1
        /\ Promise!Unheld([at |-> b, size |-> heap'.block[b].len], heap_next_virt')
    BY <2>1, <2>2, <2>3, TakenUnheld
  <2>6. heap'.block[b].len \in needed .. needed + HEADER
    BY <2>2 DEF Taken
  <2> QED BY <2>1, <2>2, <2>4, <2>5, <2>6 DEF needed, Promise!Alloc
<1>2. ASSUME NEW size \in Sizes, kmalloc_pages(size) PROVE Promise!AllocPages(size)
  <2>1. heap_next_virt' <= HEAP_END
    BY <1>2, PagesStep
  <2> QED BY <1>2, <2>1 DEF kmalloc_pages, Promise!AllocPages
<1>3. ASSUME NEW size \in Sizes, kmalloc_pages_fails(size) PROVE Promise!AllocFails
  BY <1>3 DEF kmalloc_pages_fails, Promise!AllocFails
<1>4. ASSUME NEW b \in live, kfree(b) PROVE Promise!Free(b)
  BY <1>4 DEF kfree, Promise!Free
<1> QED BY <1>1, <1>2, <1>3, <1>4 DEF Next, Promise!Next

\* The heap implements Allocator: what is given out was nobody's, and a page is
\* taken only when no page has room.
THEOREM AllocatorImplemented == ASSUME ~FreesPages PROVE Spec => ImplementsAllocator
<1>1. Init => Promise!Init
  BY DEF Init, Promise!Init
<1>2. HeapInv /\ [Next]_vars => [Promise!Next]_(Promise!vars)
  BY AllocatorStep DEF vars, Promise!vars
<1> QED BY <1>1, <1>2, HeapInvariance, PTL DEF Spec, ImplementsAllocator, Promise!Spec
=============================================================================
